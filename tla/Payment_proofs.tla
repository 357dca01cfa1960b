--------------------------- MODULE Payment_proofs ---------------------------
(***************************************************************************)
(* Proofs about Payment, for any number of workers, methods, checkouts and  *)
(* events.  The inductive invariant, PagoInv, adds to the properties what a *)
(* worker that is about to capture carries: a checkout that was paid.       *)
(***************************************************************************)
EXTENDS Payment, TLAPS

USE PaymentAssumption

\* A worker that will capture was told so by the rail, and what is paid at the
\* rail stays paid.
CapturesThePaid ==
  (\E w \in Hilos : hilo[w].pc = "capturando")
    => \E c \in Checkouts : riel[c].status = "pagado"

PagoInv == TypeOK /\ TellsTheFate /\ CapturesThePaid /\ CapturedWasPaid

-----------------------------------------------------------------------------
(* What the steps do to the row, to the events and to the rail.             *)

\* The row and the events move together, in one of the ways of the contract or
\* not at all.
Moves(status, to, events, events2) ==
  \/ to = status /\ events2 = events
  \/ status = "none" /\ to = "PENDING" /\ events2 = events
  \/ status = "DEBT" /\ to = "PENDING" /\ events2 = events
  \/ status \in {"PENDING", "DEBT"} /\ to = "DEBT" /\ events2 = Append(events, "failed")
  \/ status \in {"PENDING", "DEBT"} /\ to = "FAILED" /\ events2 = events
  \/ /\ status \in {"PENDING", "DEBT", "FAILED"} /\ to = "CAPTURED"
     /\ events2 = Append(events, "captured")

\* Every step moves the row and the events as the contract allows (the WHERE
\* clauses of createPayment, claimDebtForRetry, claimForMethodChange,
\* casCapturePayment, markPaymentDebtInTx and cancelUncapturedFares).
LEMMA StepMoves ==
  ASSUME TypeOK, [Next]_vars
  PROVE  Moves(pago.status, pago'.status, outbox, outbox')
<1> USE DEF TypeOK, Moves, Filas, Owed
<1>1. ASSUME NEW w \in Hilos, Requests(w) PROVE UNCHANGED <<pago, outbox>>
  BY <1>1 DEF Requests, Charge, ChangeMethod, RetryCharge, Webhook, RefundTripFareOnFailure
<1>2. ASSUME NEW w \in Hilos, Continue(w)
      PROVE  Moves(pago.status, pago'.status, outbox, outbox')
  <2>1. CASE CreatePayment(w)
    BY <2>1 DEF CreatePayment
  <2>2. CASE AnswerConflict(w) \/ GatewayAnswers(w)
    BY <2>2 DEF AnswerConflict, GatewayAnswers
  <2>3. CASE ClaimDebtForRetry(w)
    BY <2>3 DEF ClaimDebtForRetry
  <2>4. CASE ClaimForMethodChange(w)
    BY <2>4 DEF ClaimForMethodChange
  <2>5. CASE PersistAggregatorCheckout(w)
    BY <2>5 DEF PersistAggregatorCheckout
  <2>6. CASE CaptureSuccess(w)
    BY <2>6 DEF CaptureSuccess
  <2>7. CASE MarkDebt(w)
    BY <2>7 DEF MarkDebt
  <2>8. CASE CancelUncapturedFares(w)
    BY <2>8 DEF CancelUncapturedFares
  <2> QED BY <1>2, <2>1, <2>2, <2>3, <2>4, <2>5, <2>6, <2>7, <2>8 DEF Continue
<1>3. ASSUME NEW w \in Hilos, CrashWorker(w) PROVE UNCHANGED <<pago, outbox>>
  BY <1>3 DEF CrashWorker
<1>4. CASE PollOnce
  BY <1>4 DEF PollOnce
<1>5. ASSUME NEW c \in Checkouts, ResolveCheckout(c) PROVE UNCHANGED <<pago, outbox>>
  BY <1>5 DEF ResolveCheckout
<1>6. CASE Replicate
  BY <1>6 DEF Replicate
<1>7. CASE UNCHANGED vars
  BY <1>7 DEF vars
<1> QED BY <1>1, <1>2, <1>3, <1>4, <1>5, <1>6, <1>7 DEF Next

\* The rail never takes back a payment.
LEMMA PaidStaysPaid ==
  ASSUME TypeOK, [Next]_vars, NEW c \in Checkouts, riel[c].status = "pagado"
  PROVE  riel'[c].status = "pagado"
<1> USE DEF TypeOK
<1>1. ASSUME NEW w \in Hilos, Requests(w) PROVE UNCHANGED riel
  BY <1>1 DEF Requests, Charge, ChangeMethod, RetryCharge, Webhook, RefundTripFareOnFailure
<1>2. ASSUME NEW w \in Hilos, Continue(w) PROVE riel'[c].status = "pagado"
  <2>1. CASE GatewayAnswers(w)
    BY <2>1 DEF GatewayAnswers, OpenAt
  <2>2. CASE ~GatewayAnswers(w)
    BY <1>2, <2>2 DEF Continue, CreatePayment, AnswerConflict, ClaimDebtForRetry,
       ClaimForMethodChange, PersistAggregatorCheckout, CaptureSuccess, MarkDebt,
       CancelUncapturedFares
  <2> QED BY <2>1, <2>2
<1>3. ASSUME NEW w \in Hilos, CrashWorker(w) PROVE UNCHANGED riel
  BY <1>3 DEF CrashWorker
<1>4. ASSUME NEW d \in Checkouts, ResolveCheckout(d) PROVE riel'[c].status = "pagado"
  BY <1>4 DEF ResolveCheckout
<1>5. CASE PollOnce \/ Replicate
  BY <1>5 DEF PollOnce, Replicate
<1>6. CASE UNCHANGED vars
  BY <1>6 DEF vars
<1> QED BY <1>1, <1>2, <1>3, <1>4, <1>5, <1>6 DEF Next

-----------------------------------------------------------------------------
(* Types.                                                                   *)

\* What a worker may be sent to.
LEMMA GoType ==
  ASSUME hilo \in [Hilos -> EstadosHilo], NEW w \in Hilos, NEW s \in EstadosHilo, Go(w, s)
  PROVE  hilo' \in [Hilos -> EstadosHilo]
BY DEF Go

LEMMA FinishType ==
  ASSUME hilo \in [Hilos -> EstadosHilo], NEW w \in Hilos, Finish(w)
  PROVE  hilo' \in [Hilos -> EstadosHilo]
BY DEF Finish, Go, EstadosHilo

\* A step of a request, or of the rail, keeps the types.
LEMMA TypeStep ==
  ASSUME TypeOK, [Next]_vars
  PROVE  TypeOK'
<1> USE DEF TypeOK
<1>1. ASSUME NEW w \in Hilos, Requests(w) PROVE TypeOK'
  <2>1. ASSUME NEW m \in Methods, Charge(w, m) PROVE TypeOK'
    <3>1. [pc |-> "creando", method |-> m] \in EstadosHilo
      BY DEF EstadosHilo
    <3> QED BY <2>1, <3>1, GoType DEF Charge
  <2>2. ASSUME NEW m \in Methods, ChangeMethod(w, m) PROVE TypeOK'
    <3>1. [pc |-> "cambiando", from |-> replica.method, method |-> m] \in EstadosHilo
      BY DEF EstadosHilo, Filas
    <3> QED BY <2>2, <3>1, GoType DEF ChangeMethod
  <2>3. CASE RetryCharge(w)
    <3>1. [pc |-> "reintentando"] \in EstadosHilo
      BY DEF EstadosHilo
    <3> QED BY <2>3, <3>1, GoType DEF RetryCharge
  <2>4. ASSUME NEW c \in Checkouts, Webhook(w, c) PROVE TypeOK'
    <3>1. [pc |-> "capturando"] \in EstadosHilo /\ [pc |-> "endeudando"] \in EstadosHilo
      BY DEF EstadosHilo
    <3> QED BY <2>4, <3>1, GoType DEF Webhook, ApplyWebhookResult
  <2>5. CASE RefundTripFareOnFailure(w)
    <3>1. [pc |-> "cancelando"] \in EstadosHilo
      BY DEF EstadosHilo
    <3> QED BY <2>5, <3>1, GoType DEF RefundTripFareOnFailure
  <2> QED BY <1>1, <2>1, <2>2, <2>3, <2>4, <2>5 DEF Requests
<1>2. ASSUME NEW w \in Hilos, Continue(w) PROVE TypeOK'
  <2> USE DEF Filas
  <2>1. ASSUME ChargeReclaimed(w), pago' \in Filas PROVE hilo' \in [Hilos -> EstadosHilo]
    <3>1. PICK leida \in {pago', replica} : Go(w, [pc |-> "cobrando", method |-> leida.method])
      BY <2>1 DEF ChargeReclaimed
    <3>2. [pc |-> "cobrando", method |-> leida.method] \in EstadosHilo
      BY <2>1 DEF EstadosHilo
    <3> QED BY <3>1, <3>2, GoType
  <2>2. CASE CreatePayment(w)
    <3>1. hilo[w].method \in Methods
      BY <2>2 DEF CreatePayment, EstadosHilo, Libre
    <3>2. [pc |-> "cobrando", method |-> hilo[w].method] \in EstadosHilo
          /\ [pc |-> "conflicto"] \in EstadosHilo
      BY <3>1 DEF EstadosHilo
    <3>3. hilo' \in [Hilos -> EstadosHilo]
      BY <2>2, <3>2, GoType, FinishType DEF CreatePayment
    <3> QED BY <2>2, <3>1, <3>3 DEF CreatePayment
  <2>3. CASE AnswerConflict(w)
    BY <2>3, FinishType DEF AnswerConflict
  <2>4. CASE ClaimDebtForRetry(w)
    <3>1. pago' \in Filas
      BY <2>4 DEF ClaimDebtForRetry
    <3>2. hilo' \in [Hilos -> EstadosHilo]
      BY <2>4, <2>1, <3>1, FinishType DEF ClaimDebtForRetry
    <3> QED BY <2>4, <3>1, <3>2 DEF ClaimDebtForRetry
  <2>5. CASE ClaimForMethodChange(w)
    <3>1. hilo[w].method \in Methods
      BY <2>5 DEF ClaimForMethodChange, EstadosHilo, Libre
    <3>2. pago' \in Filas
      BY <2>5, <3>1 DEF ClaimForMethodChange
    <3>3. hilo' \in [Hilos -> EstadosHilo]
      BY <2>5, <2>1, <3>2, FinishType DEF ClaimForMethodChange
    <3> QED BY <2>5, <3>2, <3>3 DEF ClaimForMethodChange
  <2>6. CASE GatewayAnswers(w)
    <3>1. hilo[w].method \in Methods
      BY <2>6 DEF GatewayAnswers, EstadosHilo, Libre
    <3>2. \A c \in Checkouts : [pc |-> "abriendo", externalUid |-> c] \in EstadosHilo
      BY DEF EstadosHilo
    <3>3. [pc |-> "capturando"] \in EstadosHilo /\ [pc |-> "endeudando"] \in EstadosHilo
      BY DEF EstadosHilo
    <3>4. hilo' \in [Hilos -> EstadosHilo]
      BY <2>6, <3>2, <3>3, GoType DEF GatewayAnswers
    <3>5. riel' \in [Checkouts -> [status : {"none"} \cup Abierto, method : Methods]]
      <4>1. ASSUME NEW c \in Checkouts, NEW s \in {"abierto", "pagado"},
                   OpenAt(c, hilo[w].method, s)
            PROVE  riel' \in [Checkouts -> [status : {"none"} \cup Abierto, method : Methods]]
        <5>1. [status |-> s, method |-> hilo[w].method]
                \in [status : {"none"} \cup Abierto, method : Methods]
          BY <3>1 DEF Abierto
        <5> QED BY <4>1, <5>1 DEF OpenAt
      <4> QED BY <2>6, <4>1 DEF GatewayAnswers
    <3> QED BY <2>6, <3>4, <3>5 DEF GatewayAnswers
  <2>7. CASE PersistAggregatorCheckout(w)
    <3>1. hilo[w].externalUid \in Checkouts
      BY <2>7 DEF PersistAggregatorCheckout, EstadosHilo, Libre
    <3>2. pago' \in Filas
      <4>1. pago' = [status |-> pago.status, method |-> pago.method,
                     externalUid |-> hilo[w].externalUid]
        BY <2>7 DEF PersistAggregatorCheckout
      <4> QED BY <3>1, <4>1
    <3>3. hilo' \in [Hilos -> EstadosHilo]
      BY <2>7, FinishType DEF PersistAggregatorCheckout
    <3> QED BY <2>7, <3>2, <3>3 DEF PersistAggregatorCheckout
  <2>8. CASE CaptureSuccess(w)
    <3>1. [pago EXCEPT !.status = "CAPTURED"] \in Filas
      OBVIOUS
    <3>2. hilo' \in [Hilos -> EstadosHilo]
      BY <2>8, FinishType DEF CaptureSuccess
    <3>3. Append(outbox, "captured") \in Seq({"failed", "captured"})
      OBVIOUS
    <3> QED BY <2>8, <3>1, <3>2, <3>3 DEF CaptureSuccess
  <2>9. CASE MarkDebt(w)
    <3>1. [pago EXCEPT !.status = "DEBT"] \in Filas
      OBVIOUS
    <3>2. hilo' \in [Hilos -> EstadosHilo]
      BY <2>9, FinishType DEF MarkDebt
    <3>3. Append(outbox, "failed") \in Seq({"failed", "captured"})
      OBVIOUS
    <3> QED BY <2>9, <3>1, <3>2, <3>3 DEF MarkDebt
  <2>10. CASE CancelUncapturedFares(w)
    <3>1. [pago EXCEPT !.status = "FAILED"] \in Filas
      OBVIOUS
    <3>2. hilo' \in [Hilos -> EstadosHilo]
      BY <2>10, FinishType DEF CancelUncapturedFares
    <3> QED BY <2>10, <3>1, <3>2 DEF CancelUncapturedFares
  <2> QED BY <1>2, <2>2, <2>3, <2>4, <2>5, <2>6, <2>7, <2>8, <2>9, <2>10 DEF Continue
<1>3. ASSUME NEW w \in Hilos, CrashWorker(w) PROVE TypeOK'
  BY <1>3, FinishType DEF CrashWorker
<1>4. CASE PollOnce
  <2>1. [pc |-> "capturando"] \in EstadosHilo /\ [pc |-> "endeudando"] \in EstadosHilo
    BY DEF EstadosHilo
  <2>2. Sondeo \in Hilos
    BY DEF Hilos
  <2> QED BY <1>4, <2>1, <2>2, GoType DEF PollOnce, ApplyWebhookResult
<1>5. ASSUME NEW c \in Checkouts, ResolveCheckout(c) PROVE TypeOK'
  BY <1>5 DEF ResolveCheckout, Abierto
<1>6. CASE Replicate
  BY <1>6 DEF Replicate
<1>7. CASE UNCHANGED vars
  BY <1>7 DEF vars
<1> QED BY <1>1, <1>2, <1>3, <1>4, <1>5, <1>6, <1>7 DEF Next

\* The rows and the workers keep their types.
THEOREM TypeCorrect == Spec => []TypeOK
<1>1. Init => TypeOK
  BY DEF Init, TypeOK, Filas, EstadosHilo, Abierto
<1>2. TypeOK /\ [Next]_vars => TypeOK'
  BY TypeStep
<1> QED BY <1>1, <1>2, PTL DEF Spec

-----------------------------------------------------------------------------
(* The invariant.                                                           *)

\* The events go on telling the fate of the payment.
LEMMA TellsStep ==
  ASSUME TypeOK, TellsTheFate, Moves(pago.status, pago'.status, outbox, outbox')
  PROVE  TellsTheFate'
<1> USE DEF TypeOK, TellsTheFate
<1>1. outbox \in Seq({"failed", "captured"}) /\ Len(outbox) \in Nat
  OBVIOUS
<1>2. CASE outbox' = outbox
  BY <1>2 DEF Moves, Filas
<1>3. ASSUME NEW e \in {"failed", "captured"}, outbox' = Append(outbox, e),
             pago.status \in {"PENDING", "DEBT", "FAILED"},
             pago'.status = IF e = "failed" THEN "DEBT" ELSE "CAPTURED"
      PROVE  TellsTheFate'
  <2>1. Len(outbox') = Len(outbox) + 1 /\ outbox'[Len(outbox) + 1] = e
    BY <1>1, <1>3
  <2>2. \A i \in 1..Len(outbox) : outbox'[i] = outbox[i]
    BY <1>1, <1>3
  <2>3. \A i \in 1..Len(outbox) : outbox[i] = "failed"
    BY <1>1, <1>3
  <2> QED BY <1>1, <1>3, <2>1, <2>2, <2>3
<1> QED BY <1>2, <1>3 DEF Moves

\* A worker comes to capture only with a paid checkout.
LEMMA CapturesStep ==
  ASSUME TypeOK, CapturesThePaid, [Next]_vars
  PROVE  CapturesThePaid'
<1> USE DEF TypeOK
<1>1. SUFFICES ASSUME NEW v \in Hilos, hilo'[v].pc = "capturando"
               PROVE  \E c \in Checkouts : riel'[c].status = "pagado"
  BY DEF CapturesThePaid
<1>2. CASE \E c \in Checkouts : riel[c].status = "pagado"
  BY <1>2, PaidStaysPaid
<1>3. CASE hilo[v].pc = "capturando"
  BY <1>3, <1>2 DEF CapturesThePaid
<1>4. CASE hilo[v].pc # "capturando" /\ ~\E c \in Checkouts : riel[c].status = "pagado"
  <2>1. ASSUME NEW w \in Hilos, Requests(w) PROVE FALSE
    BY <1>1, <1>4, <2>1 DEF Requests, Charge, ChangeMethod, RetryCharge, Webhook,
       RefundTripFareOnFailure, ApplyWebhookResult, Go
  <2>2. ASSUME NEW w \in Hilos, Continue(w)
        PROVE  \E c \in Checkouts : riel'[c].status = "pagado"
    <3>1. CASE GatewayAnswers(w)
      BY <1>1, <1>4, <3>1 DEF GatewayAnswers, OpenAt, Go
    <3>2. CASE ~GatewayAnswers(w)
      BY <1>1, <1>4, <2>2, <3>2 DEF Continue, CreatePayment, AnswerConflict,
         ClaimDebtForRetry, ClaimForMethodChange, ChargeReclaimed,
         PersistAggregatorCheckout, CaptureSuccess, MarkDebt, CancelUncapturedFares,
         Finish, Go, Libre
    <3> QED BY <3>1, <3>2
  <2>3. ASSUME NEW w \in Hilos, CrashWorker(w) PROVE FALSE
    BY <1>1, <1>4, <2>3 DEF CrashWorker, Finish, Go, Libre
  <2>4. CASE PollOnce
    <3>1. replica.externalUid \in Checkouts
      BY <2>4 DEF PollOnce, Filas
    <3> QED BY <1>1, <1>4, <2>4, <3>1 DEF PollOnce, ApplyWebhookResult, Go
  <2>5. CASE Replicate \/ UNCHANGED vars \/ \E c \in Checkouts : ResolveCheckout(c)
    BY <1>1, <1>4, <2>5 DEF Replicate, vars, ResolveCheckout
  <2> QED BY <2>1, <2>2, <2>3, <2>4, <2>5 DEF Next
<1> QED BY <1>2, <1>3, <1>4

\* A row becomes CAPTURED by a worker that captures.
LEMMA CapturedStep ==
  ASSUME TypeOK, CapturesThePaid, CapturedWasPaid, [Next]_vars
  PROVE  CapturedWasPaid'
<1> USE DEF TypeOK, Filas
<1>1. SUFFICES ASSUME pago'.status = "CAPTURED"
               PROVE  \E c \in Checkouts : riel'[c].status = "pagado"
  BY DEF CapturedWasPaid
<1>2. pago.status = "CAPTURED" \/ \E w \in Hilos : hilo[w].pc = "capturando"
  <2>1. ASSUME NEW w \in Hilos, Requests(w) PROVE pago' = pago
    BY <2>1 DEF Requests, Charge, ChangeMethod, RetryCharge, Webhook, RefundTripFareOnFailure
  <2>2. ASSUME NEW w \in Hilos, Continue(w), pago.status # "CAPTURED"
        PROVE  hilo[w].pc = "capturando"
    BY <1>1, <2>2 DEF Continue, CreatePayment, AnswerConflict, ClaimDebtForRetry,
       ClaimForMethodChange, GatewayAnswers, PersistAggregatorCheckout,
       CaptureSuccess, MarkDebt, CancelUncapturedFares
  <2>3. ASSUME NEW w \in Hilos, CrashWorker(w) PROVE pago' = pago
    BY <2>3 DEF CrashWorker
  <2>4. CASE PollOnce \/ Replicate \/ UNCHANGED vars
             \/ \E c \in Checkouts : ResolveCheckout(c)
    BY <1>1, <2>4 DEF PollOnce, Replicate, vars, ResolveCheckout
  <2> QED BY <1>1, <2>1, <2>2, <2>3, <2>4 DEF Next
<1>3. \E c \in Checkouts : riel[c].status = "pagado"
  BY <1>2 DEF CapturesThePaid, CapturedWasPaid
<1> QED BY <1>3, PaidStaysPaid

LEMMA PagoInvInvariant == Spec => []PagoInv
<1>1. Init => PagoInv
  <2>1. Init => TypeOK
    BY DEF Init, TypeOK, Filas, EstadosHilo, Abierto
  <2> QED BY <2>1 DEF Init, PagoInv, TellsTheFate, CapturesThePaid, CapturedWasPaid, Libre
<1>2. PagoInv /\ [Next]_vars => PagoInv'
  BY TypeStep, StepMoves, TellsStep, CapturesStep, CapturedStep DEF PagoInv
<1> QED BY <1>1, <1>2, PTL DEF Spec

\* The events of a payment tell its fate: captured once and last, and told of
\* every debt, whatever requests, webhooks and polls race.
THEOREM AlwaysTellsTheFate == Spec => []TellsTheFate
BY PagoInvInvariant, PTL DEF PagoInv

\* No payment is captured without a checkout that was paid at the rail.
THEOREM AlwaysCapturedWasPaid == Spec => []CapturedWasPaid
BY PagoInvInvariant, PTL DEF PagoInv

-----------------------------------------------------------------------------
(* The contract.                                                            *)

\* Each step is a step of the contract or a stutter.
LEMMA ContractStep ==
  ASSUME TypeOK, [Next]_vars
  PROVE  [Contract!Next]_(Contract!cvars)
<1>1. Moves(pago.status, pago'.status, outbox, outbox')
  BY StepMoves
<1>2. CASE pago'.status = pago.status /\ outbox' = outbox
  BY <1>2 DEF Contract!cvars
<1>3. CASE ~(pago'.status = pago.status /\ outbox' = outbox)
  <2>1. Contract!Open(Pago) \/ Contract!Fail(Pago) \/ Contract!Reopen(Pago)
          \/ Contract!Cancel(Pago) \/ Contract!Capture(Pago)
    BY <1>1, <1>3 DEF Moves, Contract!Open, Contract!Fail, Contract!Reopen,
       Contract!Cancel, Contract!Capture, Contract!Move, Contract!Tell
  <2> QED BY <2>1 DEF Contract!Next
<1> QED BY <1>2, <1>3

\* payment-service keeps the contract that booking and the others rely on.
THEOREM ImplementsContract == Spec => KeepsContract
<1>1. Init => Contract!Init
  BY DEF Init, Contract!Init
<1>2. TypeOK /\ [Next]_vars => [Contract!Next]_(Contract!cvars)
  BY ContractStep
<1> QED BY <1>1, <1>2, TypeCorrect, PTL DEF Spec, KeepsContract, Contract!Spec
=============================================================================
