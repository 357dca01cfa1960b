------------------------------ MODULE Payment ------------------------------
(***************************************************************************)
(* payment-service: the digital charge of one fare through an aggregator    *)
(* (ProntoPaga), from the first POST to the capture.  The passenger pays at *)
(* the rail, outside the service; the rail tells by webhook, which may be   *)
(* lost, late or repeated, and a poll asks it for what the webhooks did not *)
(* bring.  Requests, webhooks and the poll run concurrently, read the row   *)
(* from a replica that lags, and stop at any await.                         *)
(***************************************************************************)
EXTENDS Naturals, Sequences

CONSTANTS Pago,          \* the payment: one dedupKey
          Methods,       \* digital methods
          Workers,       \* requests and webhooks served at once
          Sondeo,        \* the worker of PaymentPollService
          MaxCheckouts,  \* bound: checkouts the rail opens for this payment
          MaxEventos     \* bound: once so many events were told, no request
                         \* retries and no bad verdict is taken in

ASSUME PaymentAssumption ==
  /\ Sondeo \notin Workers
  /\ MaxCheckouts \in Nat
  /\ MaxEventos \in Nat

Hilos == Workers \cup {Sondeo}
Checkouts == 1..MaxCheckouts

VARIABLES pago,     \* the row in the primary
          replica,  \* the row as prisma.read sees it
          outbox,   \* the events enqueued, in commit order
          riel,     \* the checkouts at the rail
          hilo      \* worker -> what its code holds between two awaits

vars == <<pago, replica, outbox, riel, hilo>>

\* externalUid: 0 is null.
Filas == [status : {"none", "PENDING", "DEBT", "CAPTURED", "FAILED"}, method : Methods,
          externalUid : {0} \cup Checkouts]
Owed == {"PENDING", "DEBT"}
Abierto == {"abierto", "pagado", "rechazado", "vencido"}
Libre == [pc |-> "libre"]
EstadosHilo ==
  {Libre, [pc |-> "capturando"], [pc |-> "endeudando"], [pc |-> "conflicto"],
   [pc |-> "reintentando"], [pc |-> "cancelando"]}
    \cup [pc : {"creando", "cobrando"}, method : Methods]
    \cup [pc : {"cambiando"}, from : Methods, method : Methods]
    \cup [pc : {"abriendo"}, externalUid : Checkouts]

TypeOK ==
  /\ pago \in Filas
  /\ replica \in Filas
  /\ outbox \in Seq({"failed", "captured"})
  /\ riel \in [Checkouts -> [status : {"none"} \cup Abierto, method : Methods]]
  /\ hilo \in [Hilos -> EstadosHilo]

Init ==
  /\ \E m \in Methods :
       /\ pago = [status |-> "none", method |-> m, externalUid |-> 0]
       /\ riel = [c \in Checkouts |-> [status |-> "none", method |-> m]]
  /\ replica = pago
  /\ outbox = <<>>
  /\ hilo = [w \in Hilos |-> Libre]

Go(w, state) == hilo' = [hilo EXCEPT ![w] = state]
Finish(w) == Go(w, Libre)

-----------------------------------------------------------------------------
(* charge().                                                                *)

\* findPaymentByDedupKey; the row, when it is seen, is the answer.
Charge(w, m) ==
  /\ w \in Workers /\ hilo[w] = Libre
  /\ replica.status = "none"
  /\ Go(w, [pc |-> "creando", method |-> m])
  /\ UNCHANGED <<pago, replica, outbox, riel>>

\* The insert; on P2002 the row is looked for again, in the replica.
CreatePayment(w) ==
  /\ hilo[w].pc = "creando"
  /\ \/ /\ pago.status = "none"
        /\ pago' = [status |-> "PENDING", method |-> hilo[w].method, externalUid |-> 0]
        /\ Go(w, [pc |-> "cobrando", method |-> hilo[w].method])
     \/ /\ pago.status # "none"
        /\ IF replica.status = "none" THEN Go(w, [pc |-> "conflicto"]) ELSE Finish(w)
        /\ UNCHANGED pago
  /\ UNCHANGED <<replica, outbox, riel>>

\* The 409 of "Cobro duplicado para la misma dedupKey".
AnswerConflict(w) ==
  /\ hilo[w].pc = "conflicto"
  /\ Finish(w)
  /\ UNCHANGED <<pago, replica, outbox, riel>>

-----------------------------------------------------------------------------
(* retryCharge() and changeMethod(): read, claim by a conditional update,    *)
(* read again (either read may be the replica's), charge.                    *)

RetryCharge(w) ==
  /\ w \in Workers /\ hilo[w] = Libre /\ Len(outbox) < MaxEventos
  /\ replica.status = "DEBT"
  /\ Go(w, [pc |-> "reintentando"])
  /\ UNCHANGED <<pago, replica, outbox, riel>>

\* The row the claim left behind, or the one the replica still has.
ChargeReclaimed(w) ==
  \E leida \in {pago', replica} :
    Go(w, [pc |-> "cobrando", method |-> leida.method])

\* Mutant: the claim takes a payment in any state.
ClaimByIdForRetry(w) ==
  /\ hilo[w].pc = "reintentando"
  /\ pago' = [pago EXCEPT !.status = "PENDING"]
  /\ ChargeReclaimed(w)
  /\ UNCHANGED <<replica, outbox, riel>>

ClaimDebtForRetry(w) ==
  /\ hilo[w].pc = "reintentando"
  /\ \/ /\ pago.status = "DEBT"
        /\ pago' = [pago EXCEPT !.status = "PENDING"]
        /\ ChargeReclaimed(w)
     \/ /\ pago.status # "DEBT"
        /\ Finish(w)
        /\ UNCHANGED pago
  /\ UNCHANGED <<replica, outbox, riel>>

\* Mutant: cash is a method like the others.
ChangeToCash(w, m) ==
  /\ w \in Workers /\ hilo[w] = Libre /\ Len(outbox) < MaxEventos
  /\ replica.status \in Owed
  /\ Go(w, [pc |-> "cambiando", from |-> replica.method, method |-> "CASH"])
  /\ UNCHANGED <<pago, replica, outbox, riel>>

ChangeMethod(w, m) ==
  /\ w \in Workers /\ hilo[w] = Libre /\ Len(outbox) < MaxEventos
  /\ replica.status \in Owed
  /\ m # replica.method
  /\ Go(w, [pc |-> "cambiando", from |-> replica.method, method |-> m])
  /\ UNCHANGED <<pago, replica, outbox, riel>>

ClaimForMethodChange(w) ==
  /\ hilo[w].pc = "cambiando"
  /\ \/ /\ pago.status \in Owed
        /\ pago' = [status |-> "PENDING", method |-> hilo[w].method, externalUid |-> 0]
        /\ ChargeReclaimed(w)
     \/ /\ pago.status \notin Owed
        /\ Finish(w)
        /\ UNCHANGED pago
  /\ UNCHANGED <<replica, outbox, riel>>

-----------------------------------------------------------------------------
(* processAggregatorCharge(): the call of the gateway and what it answers.   *)

\* A checkout at the rail for the next uid.
OpenAt(c, method, status) ==
  /\ riel[c].status = "none"
  /\ \A d \in 1..(c - 1) : riel[d].status # "none"
  /\ riel' = [riel EXCEPT ![c] = [status |-> status, method |-> method]]

GatewayAnswers(w) ==
  /\ hilo[w].pc = "cobrando"
  /\ \/ \* PENDING_EXTERNAL
        \E c \in Checkouts : /\ OpenAt(c, hilo[w].method, "abierto")
                             /\ Go(w, [pc |-> "abriendo", externalUid |-> c])
     \/ \* CONFIRMED: charged on file
        \E c \in Checkouts : /\ OpenAt(c, hilo[w].method, "pagado")
                             /\ Go(w, [pc |-> "capturando"])
     \/ \* the reply is lost
        \E c \in Checkouts : /\ OpenAt(c, hilo[w].method, "abierto")
                             /\ Go(w, [pc |-> "endeudando"])
     \/ \* DECLINED, or the call fails before it gets there
        /\ Go(w, [pc |-> "endeudando"])
        /\ UNCHANGED riel
  /\ UNCHANGED <<pago, replica, outbox>>

PersistAggregatorCheckout(w) ==
  /\ hilo[w].pc = "abriendo"
  /\ pago' = [pago EXCEPT !.externalUid = hilo[w].externalUid]
  /\ Finish(w)
  /\ UNCHANGED <<replica, outbox, riel>>

\* The money has moved: a fare that was cancelled is captured all the same.
CaptureSuccess(w) ==
  /\ hilo[w].pc = "capturando"
  /\ \/ /\ pago.status \in Owed \cup {"FAILED"}
        /\ pago' = [pago EXCEPT !.status = "CAPTURED"]
        /\ outbox' = Append(outbox, "captured")
     \/ /\ pago.status \notin Owed \cup {"FAILED"}
        /\ UNCHANGED <<pago, outbox>>
  /\ Finish(w)
  /\ UNCHANGED <<replica, riel>>

\* Mutant: the debt by id alone, as before its WHERE had a status.
MarkDebtById(w) ==
  /\ hilo[w].pc = "endeudando"
  /\ pago' = [pago EXCEPT !.status = "DEBT"]
  /\ outbox' = Append(outbox, "failed")
  /\ Finish(w)
  /\ UNCHANGED <<replica, riel>>

\* The update asks for PENDING; the event, for the row to be in DEBT after it.
MarkDebt(w) ==
  /\ hilo[w].pc = "endeudando"
  /\ pago' = IF pago.status = "PENDING" THEN [pago EXCEPT !.status = "DEBT"] ELSE pago
  /\ outbox' = IF pago'.status = "DEBT" THEN Append(outbox, "failed") ELSE outbox
  /\ Finish(w)
  /\ UNCHANGED <<replica, riel>>

-----------------------------------------------------------------------------
(* applyWebhookResult(), from the webhook and from the poll.                 *)

\* Mutant: a verdict that is not good is taken for a capture as well.
AnyVerdict(w, c) ==
  \/ /\ replica.status \in Owed \cup {"FAILED"}
     /\ riel[c].status \in {"pagado", "rechazado", "vencido"}
     /\ Go(w, [pc |-> "capturando"])

\* What the row seen in the replica lets a verdict of the rail do; on any
\* other row it is a no-op.
ApplyWebhookResult(w, c) ==
  \/ /\ riel[c].status = "pagado"
     /\ replica.status \in Owed \cup {"FAILED"}
     /\ Go(w, [pc |-> "capturando"])
  \/ /\ riel[c].status \in {"rechazado", "vencido"} /\ Len(outbox) < MaxEventos
     /\ \/ replica.status = "PENDING"
        \/ replica.status = "FAILED" /\ riel[c].status = "rechazado"
     /\ Go(w, [pc |-> "endeudando"])

\* The webhook is matched to the payment by its order, whatever checkout the
\* row has now.
Webhook(w, c) ==
  /\ w \in Workers /\ hilo[w] = Libre
  /\ ApplyWebhookResult(w, c)
  /\ UNCHANGED <<pago, replica, outbox, riel>>

\* Mutant: the poll looks for payments that have no checkout.
PollWithoutUid ==
  /\ hilo[Sondeo] = Libre
  /\ replica.status = "PENDING" /\ replica.externalUid = 0
  /\ \E c \in Checkouts : ApplyWebhookResult(Sondeo, c)
  /\ UNCHANGED <<pago, replica, outbox, riel>>

PollOnce ==
  /\ hilo[Sondeo] = Libre
  /\ replica.status = "PENDING" /\ replica.externalUid # 0
  /\ ApplyWebhookResult(Sondeo, replica.externalUid)
  /\ UNCHANGED <<pago, replica, outbox, riel>>

-----------------------------------------------------------------------------
(* trip.failed: refundTripFareOnFailure().  A fare that was captured is      *)
(* refunded there too, see Refund.  The payment of a booking has no trip.    *)

RefundTripFareOnFailure(w) ==
  /\ w \in Workers /\ hilo[w] = Libre
  /\ replica.status \in Owed
  /\ Go(w, [pc |-> "cancelando"])
  /\ UNCHANGED <<pago, replica, outbox, riel>>

CancelUncapturedFares(w) ==
  /\ hilo[w].pc = "cancelando"
  /\ pago' = IF pago.status \in Owed THEN [pago EXCEPT !.status = "FAILED"] ELSE pago
  /\ Finish(w)
  /\ UNCHANGED <<replica, outbox, riel>>

-----------------------------------------------------------------------------
(* The rail, the replica and crashes.                                       *)

\* The passenger pays, is turned down or lets the checkout pass.
ResolveCheckout(c) ==
  /\ riel[c].status = "abierto"
  /\ \E s \in {"pagado", "rechazado", "vencido"} : riel' = [riel EXCEPT ![c].status = s]
  /\ UNCHANGED <<pago, replica, outbox, hilo>>

Replicate ==
  /\ replica # pago
  /\ replica' = pago
  /\ UNCHANGED <<pago, outbox, riel, hilo>>

CrashWorker(w) ==
  /\ hilo[w] # Libre
  /\ Finish(w)
  /\ UNCHANGED <<pago, replica, outbox, riel>>

-----------------------------------------------------------------------------
Requests(w) ==
  \/ \E m \in Methods : Charge(w, m) \/ ChangeMethod(w, m)
  \/ RetryCharge(w) \/ RefundTripFareOnFailure(w)
  \/ \E c \in Checkouts : Webhook(w, c)

\* A worker that has begun goes on.
Continue(w) ==
  \/ CreatePayment(w) \/ AnswerConflict(w)
  \/ ClaimDebtForRetry(w) \/ ClaimForMethodChange(w)
  \/ GatewayAnswers(w) \/ PersistAggregatorCheckout(w)
  \/ CaptureSuccess(w) \/ MarkDebt(w) \/ CancelUncapturedFares(w)

Next ==
  \/ \E w \in Hilos : Requests(w) \/ Continue(w) \/ CrashWorker(w)
  \/ PollOnce
  \/ \E c \in Checkouts : ResolveCheckout(c)
  \/ Replicate

Spec == Init /\ [][Next]_vars

\* The replica catches up and the poll goes on ticking; the process may die in
\* the middle of a tick, but not of every one.  No webhook need ever arrive.
FairSpec ==
  /\ Spec
  /\ WF_vars(Replicate)
  /\ WF_vars(PollOnce)
  /\ SF_vars(Continue(Sondeo))

-----------------------------------------------------------------------------
(* Properties.                                                              *)

Contract == INSTANCE ChargeContract WITH
              Payments <- {Pago},
              status <- [p \in {Pago} |-> pago.status],
              told <- [p \in {Pago} |-> outbox]

\* The charge implements its contract: whatever webhooks, retries, changes of
\* method, polls and a failed trip race, the primary's row is captured once and
\* for good, what was cancelled is owed no more, and its debts and its capture
\* are told as they happen.
KeepsContract == Contract!Spec

\* The events tell the fate of the payment: payment.captured once, last, and
\* exactly when the row is CAPTURED; a debt has been told; nothing is told of a
\* payment that does not exist.  Booking confirms a seat on the one and gives
\* it up on the other (captureSuccess and markDebt guard by their WHERE).
TellsTheFate ==
  LET n == Len(outbox) IN
  /\ pago.status = "CAPTURED" <=> n > 0 /\ outbox[n] = "captured"
  /\ \A i \in 1..(n - 1) : outbox[i] = "failed"
  /\ pago.status = "DEBT" => n > 0
  /\ pago.status = "none" => n = 0

\* Nothing is captured that the passenger has not paid at the rail: a capture
\* rests on a confirmed charge or on a good verdict of a checkout of this
\* payment, however stale the row it was decided on.
CapturedWasPaid ==
  pago.status = "CAPTURED" => \E c \in Checkouts : riel[c].status = "pagado"

\* The poll makes up for the webhooks: a payment that is PENDING on a checkout
\* that was paid is captured, unless it is moved away from that checkout, a
\* verdict on another one puts it in debt, or its trip fails meanwhile: then it
\* is FAILED, the poll asks for it no more (payment-poll.service.ts:143), and
\* only a webhook still captures it.
PollFindsThePaid ==
  \A c \in Checkouts :
    (pago.status = "PENDING" /\ pago.externalUid = c /\ riel[c].status = "pagado")
      ~> (pago.status \in {"CAPTURED", "DEBT", "FAILED"} \/ pago.externalUid # c)

(* What the comments of the service say, and it does not do.                *)

\* markDebt: "otra transicion gano la carrera: no re-emitir sobre un estado
\* ajeno".  payment.failed is told only by the transaction that made the debt.
DebtToldByItsTransaction ==
  [][Len(outbox') > Len(outbox) /\ outbox'[Len(outbox')] = "failed"
       => pago.status = "PENDING"]_vars

\* charge: "Segundo intento con la misma dedupKey devuelve el MISMO pago".
SecondChargeGetsThePayment == \A w \in Hilos : hilo[w].pc # "conflicto"

\* changeMethod: "gana un unico llamador concurrente".  A claim does not succeed
\* on a payment whose method another call changed since this one read it.
OneMethodChangeWins ==
  [][\A w \in Hilos :
       hilo[w].pc = "cambiando" /\ hilo'[w].pc = "cobrando"
         => pago.method = hilo[w].from]_vars

\* changeMethod: "un deepLink Yape no sirve para PLIN".  Once every request has
\* ended, the checkout a pending payment shows is one of its method.
CheckoutIsOfTheMethod ==
  (\A w \in Hilos : hilo[w] = Libre) /\ pago.status = "PENDING" /\ pago.externalUid # 0
    => riel[pago.externalUid].method = pago.method
=============================================================================
