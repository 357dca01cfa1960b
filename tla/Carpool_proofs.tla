--------------------------- MODULE Carpool_proofs ---------------------------
(***************************************************************************)
(* Theorems about Carpool, for any bookings, offers, requests and bound on  *)
(* the events: the composition is a behaviour of Booking and of the charge   *)
(* contract, so that their theorems hold in it; nobody sits for free, and    *)
(* only who paid and lost the seat is refunded.                             *)
(***************************************************************************)
EXTENDS Carpool, Booking_proofs

-----------------------------------------------------------------------------
(* The two services in the composition.                                     *)

\* Every step of the composition is a step of booking-service or leaves it alone.
LEMMA StepOfBooking == [CarpoolNext]_carpoolVars => [Next]_vars
<1> SUFFICES ASSUME [CarpoolNext]_carpoolVars PROVE [Next]_vars
  OBVIOUS
<1>1. CASE Own  BY <1>1 DEF Next
<1>2. ASSUME NEW w \in Handlers, OpenCharge(w)  PROVE UNCHANGED vars
  BY <1>2 DEF OpenCharge
<1>3. ASSUME NEW w \in Handlers, Reply(w)  PROVE Next
  BY <1>3 DEF Reply, Next
<1>4. ASSUME NEW b \in Bookings,
             PaymentMoves(b) \/ ConsumeCancelled(b) \/ SettleRefund(b)
      PROVE  UNCHANGED vars
  BY <1>4 DEF PaymentMoves, ConsumeCancelled, SettleRefund
<1>5. ASSUME NEW b \in Bookings, ConsumeNews(b)  PROVE [Next]_vars
  BY <1>5 DEF ConsumeNews, HandleNews, OnCaptured, OnFailed, Next
<1>6. CASE Replicate  BY <1>6 DEF Replicate
<1>7. CASE UNCHANGED carpoolVars  BY <1>7 DEF carpoolVars
<1> QED  BY <1>1, <1>2, <1>3, <1>4, <1>5, <1>6, <1>7 DEF CarpoolNext

\* The composition behaves as booking-service does: with it come the exact seat
\* counter and the sale of seats, whatever the payments do.
THEOREM KeepsBooking == CarpoolSpec => Spec
BY StepOfBooking, PTL DEF CarpoolSpec, CarpoolInit, Spec

\* The seats of an offer add up also when real charges stand behind them.
THEOREM SeatsAddUpWithMoney == CarpoolSpec => []SeatsAddUp
BY KeepsBooking, SeatsAlwaysAddUp, PTL

\* What happens to the payment of a booking: the contract without its Cancel, for
\* which there is no trip.
FareMoves ==
  \E p \in Bookings :
    Cobro!Open(p) \/ Cobro!Fail(p) \/ Cobro!Reopen(p) \/ Cobro!Capture(p)

\* Every step moves at most one payment, and as its contract says.
LEMMA StepOfPayments ==
  ASSUME TypeOK, [CarpoolNext]_carpoolVars
  PROVE  [FareMoves]_(Cobro!cvars)
<1>1. ASSUME NEW w \in Handlers, OpenCharge(w)
      PROVE  FareMoves
  <2>1. handler[w].booking \in Bookings
    BY <1>1, HandlerBooking DEF OpenCharge
  <2> QED  BY <1>1, <2>1 DEF OpenCharge, FareMoves
<1>2. ASSUME NEW b \in Bookings, PaymentMoves(b)  PROVE FareMoves
  BY <1>2 DEF PaymentMoves, FareMoves
<1>3. ASSUME NEW w \in Handlers, Reply(w)  PROVE UNCHANGED payments
  BY <1>3 DEF Reply
<1>4. ASSUME NEW b \in Bookings,
             ConsumeNews(b) \/ ConsumeCancelled(b) \/ SettleRefund(b)
      PROVE  UNCHANGED payments
  BY <1>4 DEF ConsumeNews, ConsumeCancelled, SettleRefund
<1>5. CASE Replicate  BY <1>5 DEF Replicate, payments, Cobro!cvars
<1>6. CASE UNCHANGED carpoolVars
  BY <1>6 DEF carpoolVars, payments, Cobro!cvars
<1> QED
  BY <1>1, <1>2, <1>3, <1>4, <1>5, <1>6 DEF CarpoolNext, payments, Cobro!cvars

\* The payments behave as the contract says, whatever booking-service does.
THEOREM KeepsContracts == CarpoolSpec => Cobro!Spec
<1>1. CarpoolSpec => []TypeOK  BY KeepsBooking, TypeCorrect, PTL
<1>2. TypeOK /\ [CarpoolNext]_carpoolVars => [Cobro!Next]_(Cobro!cvars)
  BY StepOfPayments DEF FareMoves, Cobro!Next
<1> QED
  BY <1>1, <1>2, PTL DEF CarpoolSpec, CarpoolInit, Cobro!Spec

-----------------------------------------------------------------------------
(* Types.                                                                   *)

LinksType ==
  /\ status \in [Bookings -> Estados]
  /\ told \in [Bookings -> Seq({"failed", "captured"})]
  /\ replica \in [Bookings -> Estados]
  /\ visto \in [Bookings -> Nat]
  /\ \A b \in Bookings : visto[b] <= Len(told[b])
  /\ consumido \in [Bookings -> BOOLEAN]
  /\ devolucion \in [Bookings -> {"ninguna", "en_curso", "hecha", "rechazada"}]

\* A step of the contract keeps the types of its payments, and what was told.
LEMMA PaymentTypes ==
  ASSUME LinksType, [FareMoves]_(Cobro!cvars)
  PROVE  /\ status' \in [Bookings -> Estados]
         /\ told' \in [Bookings -> Seq({"failed", "captured"})]
         /\ \A b \in Bookings : Len(told[b]) <= Len(told'[b])
<1>1. CASE UNCHANGED Cobro!cvars
  BY <1>1 DEF Cobro!cvars, LinksType
<1>2. ASSUME NEW p \in Bookings, Cobro!Open(p) \/ Cobro!Reopen(p)
      PROVE  /\ status' \in [Bookings -> Estados]
             /\ UNCHANGED told
  BY <1>2 DEF Cobro!Open, Cobro!Reopen, Cobro!Move, LinksType, Estados
<1>3. ASSUME NEW p \in Bookings, NEW event \in {"failed", "captured"},
             Cobro!Tell(p, event)
      PROVE  /\ told' \in [Bookings -> Seq({"failed", "captured"})]
             /\ \A b \in Bookings : Len(told[b]) <= Len(told'[b])
  <2>1. /\ Append(told[p], event) \in Seq({"failed", "captured"})
        /\ Len(Append(told[p], event)) = Len(told[p]) + 1
        /\ \A b \in Bookings : Len(told[b]) \in Nat
    BY DEF LinksType
  <2>2. told' = [told EXCEPT ![p] = Append(told[p], event)]
    BY <1>3 DEF Cobro!Tell
  <2> QED  BY <2>1, <2>2 DEF LinksType
<1>4. ASSUME NEW p \in Bookings, Cobro!Fail(p) \/ Cobro!Capture(p)
      PROVE  /\ status' \in [Bookings -> Estados]
             /\ Cobro!Tell(p, "failed") \/ Cobro!Tell(p, "captured")
  BY <1>4 DEF Cobro!Fail, Cobro!Capture, Cobro!Move, LinksType, Estados
<1>5. \A b \in Bookings : Len(told[b]) \in Nat  BY DEF LinksType
<1> QED
  BY <1>1, <1>2, <1>3, <1>4, <1>5 DEF FareMoves, LinksType

LEMMA LinksTypeStep ==
  ASSUME TypeOK, LinksType, [CarpoolNext]_carpoolVars
  PROVE  LinksType'
<1>1. /\ status' \in [Bookings -> Estados]
      /\ told' \in [Bookings -> Seq({"failed", "captured"})]
      /\ \A b \in Bookings : Len(told[b]) <= Len(told'[b])
  BY StepOfPayments, PaymentTypes
<1>2. ASSUME UNCHANGED links  PROVE LinksType'
  BY <1>1, <1>2 DEF links, LinksType
<1>3. ASSUME NEW w \in Handlers, OpenCharge(w) \/ Reply(w)  PROVE LinksType'
  BY <1>2, <1>3 DEF OpenCharge, Reply
<1>4. ASSUME NEW b \in Bookings, PaymentMoves(b)  PROVE LinksType'
  BY <1>2, <1>4 DEF PaymentMoves
<1>5. ASSUME NEW b \in Bookings, ConsumeNews(b)  PROVE LinksType'
  <2>1. /\ UNCHANGED <<told, replica, consumido, devolucion>>
        /\ visto[b] + 1 <= Len(told[b])
        /\ visto' \in {visto, [visto EXCEPT ![b] = @ + 1]}
    BY <1>5 DEF ConsumeNews, HasNews, payments, LinksType
  <2>2. CASE visto' = visto
    BY <1>1, <2>1, <2>2 DEF LinksType
  <2>3. CASE visto' = [visto EXCEPT ![b] = visto[b] + 1]
    <3>1. visto' \in [Bookings -> Nat]  BY <2>3 DEF LinksType
    <3>2. \A c \in Bookings : visto'[c] <= Len(told[c])
      BY <2>1, <2>3 DEF LinksType
    <3> QED  BY <1>1, <2>1, <3>1, <3>2 DEF LinksType
  <2> QED  BY <2>1, <2>2, <2>3
<1>6. ASSUME NEW b \in Bookings, ConsumeCancelled(b) \/ SettleRefund(b)
      PROVE  LinksType'
  <2>1. UNCHANGED <<told, replica, visto>>
    BY <1>6 DEF ConsumeCancelled, SettleRefund, payments
  <2>2. consumido' \in [Bookings -> BOOLEAN]
    BY <1>6 DEF ConsumeCancelled, SettleRefund, Done, LinksType
  <2>3. devolucion' \in [Bookings -> {"ninguna", "en_curso", "hecha", "rechazada"}]
    BY <1>6 DEF ConsumeCancelled, SettleRefund, ClaimRefund, SkipRefund, LinksType
  <2> QED  BY <1>1, <2>1, <2>2, <2>3 DEF LinksType
<1>7. CASE Replicate
  BY <1>1, <1>7 DEF Replicate, payments, LinksType
<1>8. CASE UNCHANGED carpoolVars
  BY <1>2, <1>8 DEF carpoolVars
<1> QED
  BY <1>2, <1>3, <1>4, <1>5, <1>6, <1>7, <1>8 DEF CarpoolNext

\* The rows, the events and the links between the services keep their types.
THEOREM CarpoolTypeCorrect == CarpoolSpec => []CarpoolTypeOK
<1>1. CarpoolSpec => []TypeOK  BY KeepsBooking, TypeCorrect, PTL
<1>2. CarpoolInit => LinksType
  BY DEF CarpoolInit, Cobro!Init, LinksType, Estados
<1>3. TypeOK /\ LinksType => CarpoolTypeOK  BY DEF LinksType, CarpoolTypeOK
<1> QED  BY <1>1, <1>2, <1>3, LinksTypeStep, PTL DEF CarpoolSpec

-----------------------------------------------------------------------------
(* What booking-service does to a booking when no event of its payment is     *)
(* consumed.                                                                *)

\* Nothing but the seat lock confirms booking b or strands it, no cancellation is
\* taken back, and b begins to wait only for a charge that was accepted.
KeepsFate(b) ==
  /\ reserva'[b] = "CONFIRMADO" => reserva[b] = "CONFIRMADO"
  /\ Cancelled(b, RefundableRazones)' <=> Cancelled(b, RefundableRazones)
  /\ reserva[b] = "CANCELADO" => reserva'[b] = "CANCELADO"
  /\ reserva'[b] = "COBRO_PENDIENTE" =>
       \/ reserva[b] = "COBRO_PENDIENTE"
       \/ \E w \in Handlers : /\ handler[w].pc = "respondido"
                              /\ handler[w].answer = "accepted"
                              /\ handler[w].booking = b

LEMMA SameRowKeepsFate ==
  ASSUME NEW b \in Bookings, reserva'[b] = reserva[b], outbox'[b] = outbox[b]
  PROVE  KeepsFate(b)
BY DEF KeepsFate, Cancelled

\* A conditional update touches one row and adds one event to it.
LEMMA TransitionShape ==
  ASSUME TypeOK, NEW c \in Bookings, NEW from, NEW to, NEW e, Transition(c, from, to, e)
  PROVE  /\ reserva[c] = from /\ reserva'[c] = to
         /\ \A R : Cancelled(c, R)' <=> Cancelled(c, R) \/ e \in R
         /\ \A b \in Bookings \ {c} : reserva'[b] = reserva[b] /\ outbox'[b] = outbox[b]
<1>1. outbox[c] \in Seq(Eventos) /\ outbox'[c] = Append(outbox[c], e)
  BY DEF Transition, TypeOK
<1>2. ASSUME NEW i \in DOMAIN outbox'[c]
      PROVE  outbox'[c][i] = e \/ (i \in DOMAIN outbox[c] /\ outbox'[c][i] = outbox[c][i])
  BY <1>1
<1>3. ASSUME NEW R, Cancelled(c, R)'  PROVE Cancelled(c, R) \/ e \in R
  <2> PICK i \in DOMAIN outbox'[c] : outbox'[c][i] \in R
    BY <1>3 DEF Cancelled
  <2> QED  BY <1>2 DEF Cancelled
<1>4. ASSUME NEW R, Cancelled(c, R) \/ e \in R  PROVE Cancelled(c, R)'
  <2>1. /\ \A i \in DOMAIN outbox[c] : i \in DOMAIN outbox'[c] /\ outbox'[c][i] = outbox[c][i]
        /\ \E i \in DOMAIN outbox'[c] : outbox'[c][i] = e
    <3>1. Len(outbox[c]) + 1 \in DOMAIN outbox'[c] /\ outbox'[c][Len(outbox[c]) + 1] = e
      BY <1>1
    <3>2. \A i \in DOMAIN outbox[c] : i \in DOMAIN outbox'[c] /\ outbox'[c][i] = outbox[c][i]
      BY <1>1
    <3> QED  BY <3>1, <3>2
  <2> QED  BY <1>4, <2>1 DEF Cancelled
<1> QED  BY <1>3, <1>4 DEF Transition, TypeOK

\* So does every update that the seat lock and markChargePending do not make.
LEMMA TransitionKeepsFate ==
  ASSUME TypeOK, NEW c \in Bookings, NEW from, NEW to, NEW e,
         from # "CANCELADO", to \notin {"CONFIRMADO", "COBRO_PENDIENTE"},
         e \notin RefundableRazones, Transition(c, from, to, e), NEW b \in Bookings
  PROVE  KeepsFate(b)
<1>1. CASE b # c  BY <1>1, TransitionShape, SameRowKeepsFate
<1>2. CASE b = c  BY <1>2, TransitionShape DEF KeepsFate
<1> QED  BY <1>1, <1>2

LEMMA OwnKeepsFate ==
  ASSUME TypeOK, Own, NEW b \in Bookings
  PROVE  KeepsFate(b)
<1> USE DEF RefundableRazones
<1>1. ASSUME NEW o \in Offers,
             \/ Edit(o) \/ CancelOffer(o)
             \/ \E n \in 1..MaxAsientos, m \in Modos : Publish(o, n, m)
      PROVE  KeepsFate(b)
  BY <1>1, SameRowKeepsFate DEF Edit, CancelOffer, Publish
<1>2. ASSUME NEW c \in Bookings, Reject(c) \/ CancelBooking(c)
      PROVE  KeepsFate(b)
  BY <1>2, TransitionKeepsFate DEF Reject, CancelBooking
<1>3. ASSUME NEW w \in Handlers, NEW c \in Bookings, ReadOffer(w, c)
      PROVE  KeepsFate(b)
  BY <1>3, SameRowKeepsFate DEF ReadOffer
<1>4. ASSUME NEW w \in Handlers, NEW c \in Bookings, Approve(w, c)
      PROVE  KeepsFate(b)
  BY <1>4, SameRowKeepsFate, TransitionKeepsFate DEF Approve
<1>5. ASSUME NEW w \in Handlers, CreateBooking(w)  PROVE KeepsFate(b)
  <2> DEFINE c == handler[w].booking
             nace == handler[w].nace
             e == IF nace = "APROBADO" THEN "approved" ELSE "requested"
  <2>1. c \in Bookings /\ nace \in {"APROBADO", "PENDIENTE_APROBACION"}
    BY <1>5, HandlerBooking DEF CreateBooking
  <2>2. CASE Transition(c, "SOLICITADO", nace, e)
    <3>1. nace \notin {"CONFIRMADO", "COBRO_PENDIENTE"} /\ e \notin RefundableRazones
      BY <2>1
    <3> HIDE DEF c, nace, e
    <3> QED  BY <2>1, <2>2, <3>1, TransitionKeepsFate
  <2>3. CASE UNCHANGED <<reserva, outbox>>
    BY <2>3, SameRowKeepsFate
  <2> QED  BY <1>5, <2>2, <2>3 DEF CreateBooking
<1>6. ASSUME NEW w \in Handlers, RecordAnswer(w)  PROVE KeepsFate(b)
  <2> DEFINE c == handler[w].booking
  <2>1. c \in Bookings  BY <1>6, HandlerBooking DEF RecordAnswer
  <2>2. CASE handler[w].answer = "accepted" /\ MarkChargePending(c)
    <3>1. CASE b # c
      BY <2>1, <2>2, <3>1, SameRowKeepsFate DEF MarkChargePending, TypeOK
    <3>2. CASE b = c
      BY <1>6, <2>1, <2>2, <3>2
      DEF MarkChargePending, RecordAnswer, KeepsFate, Cancelled, TypeOK
    <3> QED  BY <3>1, <3>2
  <2>3. CASE CancelForChargeRejected(c)
    <3> HIDE DEF c
    <3> QED  BY <2>1, <2>3, TransitionKeepsFate DEF CancelForChargeRejected
  <2>4. CASE UNCHANGED <<reserva, outbox>>
    BY <2>4, SameRowKeepsFate
  <2> QED  BY <1>6, <2>2, <2>3, <2>4 DEF RecordAnswer
<1>7. ASSUME NEW w \in Handlers, CrashHandler(w)  PROVE KeepsFate(b)
  BY <1>7, SameRowKeepsFate DEF CrashHandler
<1> QED  BY <1>1, <1>2, <1>3, <1>4, <1>5, <1>6, <1>7 DEF Own

\* Only ChargeAnswered puts an answer in a request's hands.
LEMMA OwnKeepsAnswers ==
  ASSUME TypeOK, Own, NEW w \in Handlers, handler'[w].pc = "respondido"
  PROVE  handler'[w] = handler[w]
<1>1. ASSUME NEW v \in Handlers, NEW b, GoCharge(v, b) \/ Finish(v)
      PROVE  handler'[w] = handler[w]
  BY <1>1 DEF GoCharge, Finish, Libre, TypeOK
<1>2. ASSUME NEW v \in Handlers, NEW b \in Bookings, ReadOffer(v, b)
      PROVE  handler'[w] = handler[w]
  BY <1>2 DEF ReadOffer, TypeOK
<1>3. ASSUME NEW v \in Handlers, CreateBooking(v) \/ RecordAnswer(v) \/ CrashHandler(v)
      PROVE  handler'[w] = handler[w]
  BY <1>1, <1>3 DEF CreateBooking, RecordAnswer, CrashHandler
<1>4. ASSUME NEW v \in Handlers, NEW b \in Bookings, Approve(v, b)
      PROVE  handler'[w] = handler[w]
  BY <1>1, <1>4 DEF Approve
<1> QED
  BY <1>2, <1>3, <1>4
  DEF Own, Edit, CancelOffer, Publish, Reject, CancelBooking

-----------------------------------------------------------------------------
(* The money.                                                               *)

\* The inductive invariant: what was told, what the replica shows, a request's
\* accepted charge and the state of a booking are all true of its payment, and
\* a refund goes with a cancellation by the seat lock.
MoneyInv ==
  /\ \A b \in Bookings :
       /\ \A i \in DOMAIN told[b] : told[b][i] = "captured" => status[b] = "CAPTURED"
       /\ replica[b] # "none" => status[b] # "none"
       /\ replica[b] = "CAPTURED" => status[b] = "CAPTURED"
       /\ reserva[b] = "COBRO_PENDIENTE" => status[b] # "none"
       /\ reserva[b] = "CONFIRMADO" => status[b] = "CAPTURED"
       /\ Cancelled(b, RefundableRazones) =>
            status[b] = "CAPTURED" /\ reserva[b] = "CANCELADO"
       /\ devolucion[b] # "ninguna" => Cancelled(b, RefundableRazones)
  /\ \A w \in Handlers :
       handler[w].pc = "respondido" /\ handler[w].answer = "accepted" =>
         status[handler[w].booking] # "none"

\* A payment that exists goes on existing, a captured one stays captured, and
\* what was told is true of it.
LEMMA StatusStays ==
  ASSUME LinksType, MoneyInv, [FareMoves]_(Cobro!cvars), NEW b \in Bookings
  PROVE  /\ status[b] # "none" => status'[b] # "none"
         /\ status[b] = "CAPTURED" => status'[b] = "CAPTURED"
         /\ \A i \in DOMAIN told'[b] :
              told'[b][i] = "captured" => status'[b] = "CAPTURED"
<1>1. CASE UNCHANGED Cobro!cvars
  BY <1>1 DEF Cobro!cvars, MoneyInv
<1>2. ASSUME NEW p \in Bookings, Cobro!Open(p) \/ Cobro!Reopen(p)
      PROVE  /\ status[b] # "none" => status'[b] # "none"
             /\ status[b] = "CAPTURED" => status'[b] = "CAPTURED"
             /\ UNCHANGED told
  BY <1>2 DEF Cobro!Open, Cobro!Reopen, Cobro!Move, LinksType
<1>3. ASSUME NEW p \in Bookings, Cobro!Fail(p) \/ Cobro!Capture(p)
      PROVE  /\ status[b] # "none" => status'[b] # "none"
             /\ status[b] = "CAPTURED" => status'[b] = "CAPTURED"
             /\ \A i \in DOMAIN told'[b] :
                  told'[b][i] = "captured" => status'[b] = "CAPTURED"
  <2>1. CASE b # p
    BY <1>3, <2>1
    DEF Cobro!Fail, Cobro!Capture, Cobro!Move, Cobro!Tell, LinksType, MoneyInv
  <2>2. CASE b = p /\ Cobro!Capture(p)
    BY <2>2 DEF Cobro!Capture, Cobro!Move, LinksType
  <2>3. CASE b = p /\ Cobro!Fail(p)
    <3>1. status[b] # "CAPTURED" /\ status'[b] = "DEBT"
      BY <2>3 DEF Cobro!Fail, Cobro!Move, LinksType
    <3>2. told[b] \in Seq({"failed", "captured"}) /\ told'[b] = Append(told[b], "failed")
      BY <2>3 DEF Cobro!Fail, Cobro!Tell, LinksType
    <3>3. \A i \in DOMAIN told[b] : told[b][i] # "captured"
      BY <3>1 DEF MoneyInv
    <3>4. \A i \in DOMAIN told'[b] : told'[b][i] # "captured"
      BY <3>2, <3>3
    <3> QED  BY <3>1, <3>4
  <2> QED  BY <1>3, <2>1, <2>2, <2>3
<1> QED  BY <1>1, <1>2, <1>3 DEF FareMoves, MoneyInv

\* A step of the payments, of the replica or of the refund leaves the invariant
\* to what it does to the refund.
LEMMA QuietStep ==
  ASSUME TypeOK, LinksType, MoneyInv, [FareMoves]_(Cobro!cvars), UNCHANGED vars,
         replica' \in {replica, status},
         \A b \in Bookings :
           devolucion'[b] # "ninguna" => Cancelled(b, RefundableRazones)
  PROVE  MoneyInv'
<1>1. \A b \in Bookings :
        /\ status[b] # "none" => status'[b] # "none"
        /\ status[b] = "CAPTURED" => status'[b] = "CAPTURED"
        /\ \A i \in DOMAIN told'[b] :
             told'[b][i] = "captured" => status'[b] = "CAPTURED"
  BY StatusStays
<1>2. \A b \in Bookings : Cancelled(b, RefundableRazones)' <=> Cancelled(b, RefundableRazones)
  BY DEF vars, Cancelled
<1>3. \A w \in Handlers :
        handler[w].pc = "respondido" => handler[w].booking \in Bookings
  BY HandlerBooking
<1>4. UNCHANGED <<reserva, handler>>  BY DEF vars
<1>5. \A b \in Bookings :
        /\ replica'[b] # "none" => status[b] # "none"
        /\ replica'[b] = "CAPTURED" => status[b] = "CAPTURED"
  BY DEF MoneyInv
<1> QED  BY <1>1, <1>2, <1>3, <1>4, <1>5 DEF MoneyInv

\* What booking-service does by itself keeps every booking's relation to its
\* payment.
LEMMA OwnStep ==
  ASSUME TypeOK, MoneyInv, Own, UNCHANGED <<payments, links>>
  PROVE  MoneyInv'
<1>1. UNCHANGED <<status, told, replica, devolucion>>
  BY DEF payments, links
<1>2. ASSUME NEW b \in Bookings
      PROVE  /\ reserva'[b] = "COBRO_PENDIENTE" => status[b] # "none"
             /\ reserva'[b] = "CONFIRMADO" => status[b] = "CAPTURED"
             /\ Cancelled(b, RefundableRazones)' =>
                  status[b] = "CAPTURED" /\ reserva'[b] = "CANCELADO"
  BY OwnKeepsFate DEF KeepsFate, MoneyInv
<1>3. \A b \in Bookings : Cancelled(b, RefundableRazones)' <=> Cancelled(b, RefundableRazones)
  BY OwnKeepsFate DEF KeepsFate
<1>4. ASSUME NEW w \in Handlers, handler'[w].pc = "respondido",
             handler'[w].answer = "accepted"
      PROVE  status[handler'[w].booking] # "none"
  BY <1>4, OwnKeepsAnswers DEF MoneyInv
<1> QED  BY <1>1, <1>2, <1>3, <1>4 DEF MoneyInv

LEMMA ReplyStep ==
  ASSUME TypeOK, MoneyInv, NEW w \in Handlers, Reply(w)
  PROVE  MoneyInv'
<1> PICK answer \in Answers :
      ChargeAnswered(w, answer) /\ answer \in Replies(handler[w].booking)
  BY DEF Reply
<1>1. UNCHANGED <<status, told, replica, devolucion, reserva, outbox>>
  BY DEF Reply, ChargeAnswered, payments, links
<1>2. handler[w].booking \in Bookings
  BY HandlerBooking DEF ChargeAnswered
<1>3. answer = "accepted" => status[handler[w].booking] # "none"
  BY <1>2 DEF Replies, MoneyInv
<1>4. handler' = [handler EXCEPT ![w] = [pc |-> "respondido",
                   booking |-> handler[w].booking, answer |-> answer]]
  BY DEF ChargeAnswered
<1>5. ASSUME NEW v \in Handlers, handler'[v].pc = "respondido",
             handler'[v].answer = "accepted"
      PROVE  status[handler'[v].booking] # "none"
  BY <1>3, <1>4, <1>5 DEF MoneyInv, TypeOK
<1>6. \A b \in Bookings : Cancelled(b, RefundableRazones)' <=> Cancelled(b, RefundableRazones)
  BY <1>1 DEF Cancelled
<1> QED  BY <1>1, <1>5, <1>6 DEF MoneyInv

\* What booking is told next is true of the payment.
LEMMA NewsIsTrue ==
  ASSUME LinksType, MoneyInv, NEW b \in Bookings, HasNews(b), News(b) = "captured"
  PROVE  status[b] = "CAPTURED"
<1>1. told[b] \in Seq({"failed", "captured"}) /\ visto[b] \in Nat
  BY DEF LinksType
<1>2. visto[b] + 1 \in DOMAIN told[b]
  BY <1>1 DEF HasNews
<1> QED  BY <1>2 DEF News, MoneyInv

\* What booking does with the news of a payment goes by what the payment is.
LEMMA NewsStep ==
  ASSUME TypeOK, LinksType, MoneyInv, NEW b \in Bookings, ConsumeNews(b)
  PROVE  MoneyInv'
<1> USE DEF RefundableRazones
<1>1. UNCHANGED <<status, told, replica, devolucion>>
  BY DEF ConsumeNews, payments
<1>2. News(b) = "captured" => status[b] = "CAPTURED"
  BY NewsIsTrue DEF ConsumeNews
<1>3. CASE UNCHANGED vars
  <2>1. UNCHANGED Cobro!cvars  BY <1>1 DEF Cobro!cvars
  <2>2. \A c \in Bookings :
          devolucion'[c] # "ninguna" => Cancelled(c, RefundableRazones)
    BY <1>1 DEF MoneyInv
  <2> HIDE DEF RefundableRazones
  <2> QED  BY <1>1, <1>3, <2>1, <2>2, QuietStep
<1>4. ASSUME NEW to, NEW e, Transition(b, "COBRO_PENDIENTE", to, e), UNCHANGED handler,
             \/ to = "CONFIRMADO" /\ e = "confirmed" /\ status[b] = "CAPTURED"
             \/ to = "CANCELADO" /\ e \in RefundableRazones /\ status[b] = "CAPTURED"
             \/ to = "CANCELADO" /\ e = "COBRO_FALLIDO"
      PROVE  MoneyInv'
  <2>1. /\ reserva[b] = "COBRO_PENDIENTE" /\ reserva'[b] = to
        /\ Cancelled(b, RefundableRazones)' <=>
             Cancelled(b, RefundableRazones) \/ e \in RefundableRazones
        /\ \A c \in Bookings \ {b} : reserva'[c] = reserva[c] /\ outbox'[c] = outbox[c]
    BY <1>4, TransitionShape
  <2>2. ~Cancelled(b, RefundableRazones) /\ devolucion[b] = "ninguna"
    BY <2>1 DEF MoneyInv
  <2>3. \A c \in Bookings \ {b} :
          Cancelled(c, RefundableRazones)' <=> Cancelled(c, RefundableRazones)
    BY <2>1 DEF Cancelled
  <2> DEFINE Row(c) ==
        /\ reserva'[c] = "COBRO_PENDIENTE" => status[c] # "none"
        /\ reserva'[c] = "CONFIRMADO" => status[c] = "CAPTURED"
        /\ Cancelled(c, RefundableRazones)' =>
             status[c] = "CAPTURED" /\ reserva'[c] = "CANCELADO"
        /\ devolucion[c] # "ninguna" => Cancelled(c, RefundableRazones)'
  <2>4. \A c \in Bookings \ {b} : Row(c)
    BY <2>1, <2>3 DEF MoneyInv
  <2>5. Row(b)
    BY <1>4, <2>1, <2>2
  <2> HIDE DEF Row
  <2>6. \A c \in Bookings : Row(c)  BY <2>4, <2>5
  <2> QED  BY <1>1, <1>4, <2>6 DEF Row, MoneyInv
<1>5. CASE News(b) = "captured" /\ ConfirmCapture(b)
  <2>1. UNCHANGED handler /\ status[b] = "CAPTURED"
    BY <1>2, <1>5 DEF ConfirmCapture
  <2>2. \/ Transition(b, "COBRO_PENDIENTE", "CONFIRMADO", "confirmed")
        \/ Transition(b, "COBRO_PENDIENTE", "CANCELADO", "OFERTA_NO_DISPONIBLE")
        \/ Transition(b, "COBRO_PENDIENTE", "CANCELADO", "ASIENTO_LLENO")
    BY <1>5 DEF ConfirmCapture, ConfirmSeats, CancelUnavailable, CancelSeatFull
  <2> QED  BY <1>4, <2>1, <2>2
<1>6. CASE PaymentFailed(b)
  BY <1>4, <1>6 DEF PaymentFailed
<1> QED
  BY <1>3, <1>5, <1>6 DEF ConsumeNews, HandleNews, OnCaptured, OnFailed

LEMMA MoneyStep ==
  ASSUME TypeOK, LinksType, MoneyInv, [CarpoolNext]_carpoolVars
  PROVE  MoneyInv'
<1>1. [FareMoves]_(Cobro!cvars)  BY StepOfPayments
<1>2. \A b \in Bookings : devolucion[b] # "ninguna" => Cancelled(b, RefundableRazones)
  BY DEF MoneyInv
<1>3. ASSUME UNCHANGED <<vars, links>>  PROVE MoneyInv'
  BY <1>1, <1>2, <1>3, QuietStep DEF links
<1>4. ASSUME NEW w \in Handlers, OpenCharge(w)  PROVE MoneyInv'
  BY <1>3, <1>4 DEF OpenCharge
<1>5. ASSUME NEW b \in Bookings, PaymentMoves(b)  PROVE MoneyInv'
  BY <1>3, <1>5 DEF PaymentMoves
<1>6. ASSUME NEW b \in Bookings, ConsumeCancelled(b)  PROVE MoneyInv'
  <2>1. Cancelled(b, RefundableRazones) /\ UNCHANGED <<vars, replica>>
    BY <1>6 DEF ConsumeCancelled
  <2>2. \A c \in Bookings \ {b} : devolucion'[c] = devolucion[c]
    BY <1>6 DEF ConsumeCancelled, ClaimRefund, SkipRefund, LinksType
  <2> QED  BY <1>1, <1>2, <2>1, <2>2, QuietStep
<1>7. ASSUME NEW b \in Bookings, SettleRefund(b)  PROVE MoneyInv'
  <2>1. devolucion[b] = "en_curso" /\ UNCHANGED <<vars, replica>>
    BY <1>7 DEF SettleRefund
  <2>2. \A c \in Bookings \ {b} : devolucion'[c] = devolucion[c]
    BY <1>7 DEF SettleRefund, LinksType
  <2>3. \A c \in Bookings : devolucion'[c] # "ninguna" => devolucion[c] # "ninguna"
    BY <2>1, <2>2
  <2> QED  BY <1>1, <1>2, <2>1, <2>3, QuietStep
<1>8. CASE Replicate
  <2>1. UNCHANGED <<vars, devolucion>> /\ replica' = status
    BY <1>8 DEF Replicate
  <2> QED  BY <1>1, <1>2, <2>1, QuietStep
<1>9. CASE UNCHANGED carpoolVars
  BY <1>3, <1>9 DEF carpoolVars
<1> QED
  BY <1>3, <1>4, <1>5, <1>6, <1>7, <1>8, <1>9, OwnStep, ReplyStep, NewsStep
  DEF CarpoolNext

LEMMA MoneyInvInvariant == CarpoolSpec => []MoneyInv
<1>1. CarpoolSpec => []TypeOK  BY KeepsBooking, TypeCorrect, PTL
<1>2. CarpoolInit => LinksType
  BY DEF CarpoolInit, Cobro!Init, LinksType, Estados
<1>3. CarpoolInit => MoneyInv
  <2> SUFFICES ASSUME CarpoolInit PROVE MoneyInv
    OBVIOUS
  <2>1. \A b \in Bookings :
          /\ status[b] = "none" /\ told[b] = <<>> /\ replica[b] = "none"
          /\ reserva[b] = "SOLICITADO" /\ outbox[b] = <<>> /\ devolucion[b] = "ninguna"
    BY DEF CarpoolInit, Cobro!Init, Init
  <2>2. \A b \in Bookings : ~Cancelled(b, RefundableRazones)
    BY <2>1 DEF Cancelled
  <2>3. \A w \in Handlers : handler[w].pc = "libre"
    BY DEF CarpoolInit, Init, Libre
  <2> QED  BY <2>1, <2>2, <2>3 DEF MoneyInv
<1> QED
  BY <1>1, <1>2, <1>3, LinksTypeStep, MoneyStep, PTL DEF CarpoolSpec

\* Nobody sits for free, and nobody who sits is refunded.
THEOREM ConfirmedAlwaysCaptured == CarpoolSpec => []ConfirmedWasCaptured
<1>1. MoneyInv => ConfirmedWasCaptured
  BY DEF MoneyInv, ConfirmedWasCaptured
<1> QED  BY <1>1, MoneyInvInvariant, PTL

\* Every refund goes to a captured payment whose booking the seat lock cancelled.
THEOREM RefundsOnlyTheStranded == CarpoolSpec => []RefundsTheStranded
<1>1. MoneyInv => RefundsTheStranded
  BY DEF MoneyInv, RefundsTheStranded, RefundableRazones
<1> QED  BY <1>1, MoneyInvInvariant, PTL

\* No booking waits for a payment that does not exist.
THEOREM AlwaysWaitsForAPayment == CarpoolSpec => []WaitsForAPayment
<1>1. MoneyInv => WaitsForAPayment
  BY DEF MoneyInv, WaitsForAPayment
<1> QED  BY <1>1, MoneyInvInvariant, PTL

-----------------------------------------------------------------------------
(* The deal.                                                                *)

Paid == {b \in Bookings : status[b] = "CAPTURED"}
TurnedAway ==
  {b \in Bookings : Cancelled(b, {"ASIENTO_LLENO", "OFERTA_NO_DISPONIBLE"})}

\* PaidSeat counts seats as SeatSale does.
LEMMA DealCounts ==
  /\ \A o, S : Deal!SeatsOf(o, S) = Sale!SeatsOf(o, S)
  /\ \A S : Deal!Cardinality(S) = Cardinality(S)
<1>1. \A o, S : Deal!SeatsOf(o, S) = Sale!SeatsOf(o, S)
  BY DEF Deal!SeatsOf, Sale!SeatsOf
<1>2. \A S : Deal!Cardinality(S) = Cardinality(S)
  BY DEF Cardinality, Deal!Cardinality
<1> QED  BY <1>1, <1>2

\* A step that moves no money and sells, if anything, to who has paid and was not
\* turned away, is a step of the deal when it is one of the sale.
LEMMA SaleMoves ==
  ASSUME [Sale!Next]_(Sale!vars), UNCHANGED <<Paid, TurnedAway, devolucion>>,
         Confirmed' \ Confirmed \subseteq Paid \ TurnedAway
  PROVE  [Deal!DealNext]_(Deal!dealVars)
<1>1. UNCHANGED Deal!money
  BY DEF Deal!money, Paid, TurnedAway
<1>2. CASE UNCHANGED Sale!vars
  <2>1. UNCHANGED Deal!vars  BY <1>2 DEF Sale!vars, Deal!vars
  <2> QED  BY <1>1, <2>1 DEF Deal!dealVars
<1>3. ASSUME NEW o \in Offers,
             \/ Sale!Close(o)
             \/ \E n \in 1..MaxAsientos : Sale!Open(o, n) \/ Sale!Resize(o, n)
      PROVE  Deal!DealNext
  <2>1. Sale!Close(o) => Deal!Close(o)
    BY DEF Sale!Close, Deal!Close
  <2>2. \A n \in 1..MaxAsientos : Sale!Open(o, n) => Deal!Open(o, n)
    BY DEF Sale!Open, Deal!Open
  <2>3. \A n \in 1..MaxAsientos : Sale!Resize(o, n) => Deal!Resize(o, n)
    BY DealCounts DEF Sale!Resize, Deal!Resize
  <2>4. Deal!OfferMoves
    BY <1>1, <1>3, <2>1, <2>2, <2>3 DEF Deal!OfferMoves
  <2> QED  BY <2>4 DEF Deal!DealNext
<1>4. ASSUME NEW b \in Bookings, Sale!Sell(b)
      PROVE  Deal!DealNext
  <2>1. b \in Paid \ TurnedAway
    BY <1>4 DEF Sale!Sell
  <2>2. Deal!Sell(b)
    BY <1>4, DealCounts, SameCardinality DEF Sale!Sell, Deal!Sell
  <2>3. Deal!Seat(b)
    BY <1>1, <2>1, <2>2 DEF Deal!Seat, Paid, TurnedAway
  <2> QED  BY <2>3 DEF Deal!DealNext
<1> QED  BY <1>2, <1>3, <1>4 DEF Sale!Next

\* Nothing that the deal sees has changed.
LEMMA DealRests ==
  ASSUME UNCHANGED <<oferta, Confirmed, Paid, TurnedAway, devolucion>>
  PROVE  UNCHANGED Deal!dealVars
<1>1. UNCHANGED Deal!vars  BY DEF Deal!vars, Phase
<1>2. UNCHANGED Deal!money  BY DEF Deal!money, Paid, TurnedAway
<1> QED  BY <1>1, <1>2 DEF Deal!dealVars

\* A booking is turned away when its offer is closed or has not the seats left.
LEMMA NoRoom ==
  ASSUME TypeOK, SeatInv, NEW b \in Bookings, ~IsReservable(OfferOf[b]) \/ ~HayCupo(b)
  PROVE  ~Deal!Room(b)
<1> DEFINE o == OfferOf[b]
<1>1. /\ o \in Offers
      /\ oferta[o].estado \in EstadosOferta
      /\ oferta[o].disponibles \in Nat
      /\ AsientosOf[b] \in Nat
  BY BookingAssumption DEF TypeOK
<1>2. CASE ~IsReservable(o)
  <2>1. oferta[o].estado \in {"BORRADOR", "CANCELADO"}
    BY <1>1, <1>2 DEF IsReservable, EstadosOferta
  <2>2. Phase(o) # "open"
    BY <2>1 DEF Phase
  <2> QED  BY <1>1, <2>2 DEF Deal!Room
<1>3. CASE ~HayCupo(b)
  <2>1. oferta[o].disponibles < AsientosOf[b]
    BY <1>1, <1>3 DEF HayCupo
  <2>2. /\ Cardinality(Taken(o)) \in Nat
        /\ oferta[o].disponibles + Cardinality(Taken(o)) = oferta[o].totales
    BY <1>1, FS_CardinalityType DEF SeatInv
  <2>3. Deal!Cardinality(Deal!SeatsOf(o, Confirmed)) = Cardinality(Taken(o))
    BY DealCounts DEF Taken
  <2>4. ~(Cardinality(Taken(o)) + AsientosOf[b] <= oferta[o].totales)
    BY <1>1, <2>1, <2>2
  <2> QED  BY <1>1, <2>3, <2>4 DEF Deal!Room
<1> QED  BY <1>2, <1>3

\* What booking-service does with the news of a payment.
LEMMA NewsMapped ==
  ASSUME TypeOK, TypeOK', SeatInv, LinksType, MoneyInv, NEW b \in Bookings, ConsumeNews(b)
  PROVE  [Deal!DealNext]_(Deal!dealVars)
<1>1. UNCHANGED <<status, devolucion>> /\ UNCHANGED Paid
  BY DEF ConsumeNews, payments, Paid
<1>2. News(b) = "captured" => status[b] = "CAPTURED"
  BY NewsIsTrue DEF ConsumeNews
<1>3. CASE UNCHANGED vars
  <2>1. UNCHANGED <<oferta, Confirmed, TurnedAway>>
    BY <1>3 DEF vars, Confirmed, TurnedAway, Cancelled
  <2> QED  BY <1>1, <2>1, DealRests
<1>4. ASSUME NEW to, NEW e, Transition(b, "COBRO_PENDIENTE", to, e)
      PROVE  /\ reserva[b] = "COBRO_PENDIENTE" /\ reserva'[b] = to
             /\ b \notin TurnedAway /\ b \notin Confirmed
             /\ e \notin RefundableRazones => TurnedAway' = TurnedAway
             /\ e \in RefundableRazones => TurnedAway' = TurnedAway \cup {b}
             /\ to # "CONFIRMADO" => Confirmed' = Confirmed
             /\ Confirmed' \subseteq Confirmed \cup {b}
  <2>1. /\ reserva[b] = "COBRO_PENDIENTE" /\ reserva'[b] = to
        /\ Cancelled(b, RefundableRazones)' <=>
             Cancelled(b, RefundableRazones) \/ e \in RefundableRazones
        /\ \A c \in Bookings \ {b} : reserva'[c] = reserva[c] /\ outbox'[c] = outbox[c]
    BY <1>4, TransitionShape
  <2>2. ~Cancelled(b, RefundableRazones)
    BY <2>1 DEF MoneyInv
  <2>3. \A c \in Bookings \ {b} :
          Cancelled(c, RefundableRazones)' <=> Cancelled(c, RefundableRazones)
    BY <2>1 DEF Cancelled
  <2>4. /\ TurnedAway = {c \in Bookings : Cancelled(c, RefundableRazones)}
        /\ TurnedAway' = {c \in Bookings : Cancelled(c, RefundableRazones)'}
    BY DEF TurnedAway, RefundableRazones
  <2>5. /\ to # "CONFIRMADO" => Confirmed' = Confirmed
        /\ Confirmed' \subseteq Confirmed \cup {b}
        /\ b \notin Confirmed
    BY <2>1 DEF Confirmed
  <2> QED  BY <2>1, <2>2, <2>3, <2>4, <2>5
<1>5. CASE News(b) = "captured" /\ ConfirmSeats(b) /\ UNCHANGED handler
  <2>1. Transition(b, "COBRO_PENDIENTE", "CONFIRMADO", "confirmed")
    BY <1>5 DEF ConfirmSeats
  <2>2. /\ UNCHANGED TurnedAway
        /\ Confirmed' \ Confirmed \subseteq Paid \ TurnedAway
    BY <1>2, <1>4, <1>5, <2>1 DEF RefundableRazones, Paid
  <2>3. [Next]_vars
    BY <1>5 DEF ConfirmCapture, Next
  <2>4. [Sale!Next]_(Sale!vars)
    BY <2>3, StepRefines
  <2> QED  BY <1>1, <2>2, <2>4, SaleMoves
<1>6. CASE /\ News(b) = "captured"
           /\ CancelUnavailable(b) \/ CancelSeatFull(b)
  <2>1. PICK e \in RefundableRazones : Transition(b, "COBRO_PENDIENTE", "CANCELADO", e)
    BY <1>6 DEF CancelUnavailable, CancelSeatFull, RefundableRazones
  <2>2. /\ b \notin TurnedAway \cup Confirmed
        /\ TurnedAway' = TurnedAway \cup {b}
        /\ Confirmed' = Confirmed
    BY <1>4, <2>1
  <2>3. b \in Paid
    BY <1>2, <1>6 DEF Paid
  <2>4. ~Deal!Room(b)
    BY <1>6, NoRoom DEF CancelUnavailable, CancelSeatFull
  <2>5. UNCHANGED oferta
    BY <1>6 DEF CancelUnavailable, CancelSeatFull
  <2>6. UNCHANGED Deal!vars
    BY <2>2, <2>5 DEF Deal!vars, Phase
  <2>7. Deal!TurnAway(b)
    BY <1>1, <2>2, <2>3, <2>4, <2>6 DEF Deal!TurnAway, Paid, TurnedAway
  <2> QED  BY <2>7 DEF Deal!DealNext
<1>7. CASE PaymentFailed(b)
  <2>1. Transition(b, "COBRO_PENDIENTE", "CANCELADO", "COBRO_FALLIDO") /\ UNCHANGED oferta
    BY <1>7 DEF PaymentFailed
  <2>2. UNCHANGED <<Confirmed, TurnedAway>>
    BY <1>4, <2>1 DEF RefundableRazones
  <2> QED  BY <1>1, <2>1, <2>2, DealRests
<1> QED
  BY <1>3, <1>5, <1>6, <1>7
  DEF ConsumeNews, HandleNews, OnCaptured, OnFailed, ConfirmCapture

LEMMA DealStep ==
  ASSUME TypeOK, TypeOK', SeatInv, LinksType, MoneyInv, [CarpoolNext]_carpoolVars
  PROVE  [Deal!DealNext]_(Deal!dealVars)
<1>1. ASSUME UNCHANGED vars  PROVE UNCHANGED <<oferta, Confirmed, TurnedAway>>
  BY <1>1 DEF vars, Confirmed, TurnedAway, Cancelled
<1>2. CASE Own /\ UNCHANGED <<payments, links>>
  <2>1. UNCHANGED <<Paid, devolucion>>
    BY <1>2 DEF payments, links, Paid
  <2>2. \A b \in Bookings : KeepsFate(b)
    BY <1>2, OwnKeepsFate
  <2>3. UNCHANGED TurnedAway
    BY <2>2 DEF KeepsFate, TurnedAway, RefundableRazones
  <2>4. Confirmed' \ Confirmed = {}
    BY <2>2 DEF KeepsFate, Confirmed
  <2>5. [Sale!Next]_(Sale!vars)
    BY <1>2, StepRefines DEF Next
  <2> QED  BY <2>1, <2>3, <2>4, <2>5, SaleMoves
<1>3. ASSUME NEW w \in Handlers, OpenCharge(w)
      PROVE  UNCHANGED Deal!dealVars
  <2>1. UNCHANGED <<vars, links>> /\ Cobro!Open(handler[w].booking)
    BY <1>3 DEF OpenCharge
  <2>2. UNCHANGED Paid
    BY <2>1 DEF Cobro!Open, Cobro!Move, Paid, LinksType
  <2>3. UNCHANGED devolucion
    BY <2>1 DEF links
  <2> QED  BY <1>1, <2>1, <2>2, <2>3, DealRests
<1>4. ASSUME NEW w \in Handlers, Reply(w)
      PROVE  UNCHANGED Deal!dealVars
  <2>1. UNCHANGED <<oferta, reserva, outbox, status, devolucion>>
    BY <1>4 DEF Reply, ChargeAnswered, payments, links
  <2>2. UNCHANGED <<Confirmed, TurnedAway, Paid>>
    BY <2>1 DEF Confirmed, TurnedAway, Cancelled, Paid
  <2> QED  BY <2>1, <2>2, DealRests
<1>5. ASSUME NEW b \in Bookings, PaymentMoves(b)
      PROVE  [Deal!DealNext]_(Deal!dealVars)
  <2>1. UNCHANGED <<vars, links>>
    BY <1>5 DEF PaymentMoves
  <2>2. UNCHANGED <<oferta, Confirmed, TurnedAway, devolucion>>
    BY <1>1, <2>1 DEF links
  <2>3. CASE Cobro!Capture(b)
    <3>1. b \notin Paid /\ Paid' = Paid \cup {b}
      BY <2>3 DEF Cobro!Capture, Cobro!Move, Paid, LinksType
    <3>2. UNCHANGED Deal!vars
      BY <2>2 DEF Deal!vars, Phase
    <3>3. Deal!Pay(b)
      BY <2>2, <3>1, <3>2 DEF Deal!Pay, Paid, TurnedAway
    <3> QED  BY <3>3 DEF Deal!DealNext
  <2>4. CASE Cobro!Fail(b) \/ Cobro!Reopen(b)
    <3>1. UNCHANGED Paid
      BY <2>4 DEF Cobro!Fail, Cobro!Reopen, Cobro!Move, Paid, LinksType
    <3> QED  BY <2>2, <3>1, DealRests
  <2> QED  BY <1>5, <2>3, <2>4 DEF PaymentMoves
<1>6. ASSUME NEW b \in Bookings, ConsumeCancelled(b) \/ SettleRefund(b)
      PROVE  [Deal!DealNext]_(Deal!dealVars)
  <2>1. UNCHANGED <<vars, status>>
    BY <1>6 DEF ConsumeCancelled, SettleRefund, payments
  <2>2. UNCHANGED <<oferta, Confirmed, TurnedAway, Paid>>
    BY <1>1, <2>1 DEF Paid
  <2>3. UNCHANGED Deal!vars
    BY <2>2 DEF Deal!vars, Phase
  <2>4. CASE ConsumeCancelled(b) /\ ClaimRefund(b)
    <3>1. b \in TurnedAway
      BY <2>4 DEF ConsumeCancelled, TurnedAway, RefundableRazones
    <3>2. Deal!AskRefund(b)
      BY <2>2, <2>3, <2>4, <3>1 DEF Deal!AskRefund, ClaimRefund, Paid, TurnedAway
    <3> QED  BY <3>2 DEF Deal!DealNext
  <2>5. CASE UNCHANGED devolucion
    BY <2>2, <2>5, DealRests
  <2>6. CASE SettleRefund(b)
    <3>1. PICK fate \in {"hecha", "rechazada"} :
            /\ devolucion[b] = "en_curso"
            /\ devolucion' = [devolucion EXCEPT ![b] = fate]
      BY <2>6 DEF SettleRefund
    <3>2. Deal!EndRefund(b, fate)
      BY <2>2, <2>3, <3>1 DEF Deal!EndRefund, Paid, TurnedAway
    <3> QED  BY <3>2 DEF Deal!DealNext
  <2> QED  BY <1>6, <2>4, <2>5, <2>6 DEF ConsumeCancelled, SkipRefund
<1>7. CASE Replicate
  <2>1. UNCHANGED <<vars, status, devolucion>>
    BY <1>7 DEF Replicate, payments
  <2>2. UNCHANGED Paid  BY <2>1 DEF Paid
  <2> QED  BY <1>1, <2>1, <2>2, DealRests
<1>8. CASE UNCHANGED carpoolVars
  <2>1. UNCHANGED <<vars, status, devolucion>>
    BY <1>8 DEF carpoolVars, payments, links
  <2>2. UNCHANGED Paid  BY <2>1 DEF Paid
  <2> QED  BY <1>1, <2>1, <2>2, DealRests
<1> QED
  BY <1>2, <1>3, <1>4, <1>5, <1>6, <1>7, <1>8, NewsMapped DEF CarpoolNext

\* The two services implement the deal, for any number of bookings, offers and
\* requests: who pays gets the seat, or is refused it for want of room and only
\* then gets the money back, once.
THEOREM ImplementsDeal == CarpoolSpec => KeepsDeal
<1>1. CarpoolSpec => []TypeOK /\ []SeatInv
  BY KeepsBooking, TypeCorrect, SeatInvInvariant, PTL
<1>2. CarpoolInit => LinksType
  BY DEF CarpoolInit, Cobro!Init, LinksType, Estados
<1>3. CarpoolInit => Deal!DealInit
  <2> SUFFICES ASSUME CarpoolInit PROVE Deal!DealInit
    OBVIOUS
  <2>1. Deal!Init
    <3>1. Sale!Init  BY InitRefines DEF CarpoolInit
    <3> QED  BY <3>1 DEF Sale!Init, Deal!Init
  <2>2. Paid = {}
    BY DEF CarpoolInit, Cobro!Init, Paid
  <2>3. TurnedAway = {}
    BY DEF CarpoolInit, Init, TurnedAway, Cancelled
  <2>4. devolucion = [b \in Bookings |-> "ninguna"]
    BY DEF CarpoolInit
  <2> QED  BY <2>1, <2>2, <2>3, <2>4 DEF Deal!DealInit, Paid, TurnedAway
<1> QED
  BY <1>1, <1>2, <1>3, LinksTypeStep, MoneyInvInvariant, DealStep, PTL
  DEF CarpoolSpec, KeepsDeal, Deal!DealSpec
=============================================================================
