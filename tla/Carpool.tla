------------------------------ MODULE Carpool ------------------------------
(***************************************************************************)
(* A booking and its money, across booking-service and payment-service:     *)
(* Booking composed with one ChargeContract per booking (the dedupKey of a  *)
(* charge is its booking's).  The POST of the charge, the payment events    *)
(* that booking consumes and booking.cancelled, on which payment refunds,   *)
(* cross each other; each is delivered in order per payment or booking, at  *)
(* least once.  payment-service reads from a replica that lags.             *)
(***************************************************************************)
EXTENDS Booking

CONSTANT MaxAvisos   \* bound: payment events of one payment before its capture

VARIABLES status, told,   \* the payments: see ChargeContract
          replica,        \* payment -> its status as payment-service reads it
          visto,          \* payment -> how many of its events booking consumed
          consumido,      \* booking -> payment is done with its booking.cancelled
          devolucion      \* booking -> its automatic refund

payments == <<status, told>>
links == <<replica, visto, consumido, devolucion>>
carpoolVars == <<vars, payments, links>>

Cobro == INSTANCE ChargeContract WITH Payments <- Bookings

Estados == {"none", "PENDING", "DEBT", "CAPTURED"}

CarpoolTypeOK ==
  /\ TypeOK
  /\ status \in [Bookings -> Estados]
  /\ told \in [Bookings -> Seq({"failed", "captured"})]
  /\ replica \in [Bookings -> Estados]
  /\ visto \in [Bookings -> Nat]
  /\ \A b \in Bookings : visto[b] <= Len(told[b])
  /\ consumido \in [Bookings -> BOOLEAN]
  /\ devolucion \in [Bookings -> {"ninguna", "en_curso", "hecha", "rechazada"}]

CarpoolInit ==
  /\ Init
  /\ Cobro!Init
  /\ replica = status
  /\ visto = [b \in Bookings |-> 0]
  /\ consumido = [b \in Bookings |-> FALSE]
  /\ devolucion = [b \in Bookings |-> "ninguna"]

-----------------------------------------------------------------------------
(* The charge, as a request of booking and as a payment.                     *)

\* The POST gets there: while it is awaited, or after it was given up.
OpenCharge(w) ==
  /\ \/ handler[w].pc = "cobrando"
     \/ handler[w].pc = "respondido" /\ handler[w].answer = "unavailable"
  /\ Cobro!Open(handler[w].booking)
  /\ UNCHANGED <<vars, links>>

\* The status in the reply is the row's or the replica's.  A request that does
\* not find its payment in the replica may be told 409, or another 4xx.
Replies(b) ==
  LET seen == {status[b], replica[b]} IN
  {"unavailable"}
    \cup (IF seen \cap {"PENDING", "CAPTURED"} # {} THEN {"accepted"} ELSE {})
    \cup (IF "DEBT" \in seen \/ replica[b] = "none" THEN {"rejected"} ELSE {})

Reply(w) ==
  /\ \E answer \in Answers : /\ ChargeAnswered(w, answer)
                             /\ answer \in Replies(handler[w].booking)
  /\ UNCHANGED <<payments, links>>

\* The rail, retries and changes of method: whatever the contract allows of a
\* payment that trip.failed, which names trips, does not touch.
PaymentMoves(b) ==
  /\ \/ Cobro!Capture(b)
     \/ Len(told[b]) < MaxAvisos /\ (Cobro!Fail(b) \/ Cobro!Reopen(b))
  /\ UNCHANGED <<vars, links>>

Replicate ==
  /\ replica # status
  /\ replica' = status
  /\ UNCHANGED <<vars, payments, visto, consumido, devolucion>>

-----------------------------------------------------------------------------
(* booking-service consumes the events of a payment.  The handler is         *)
(* finished before the event counts as consumed: it may run again.           *)

HasNews(b) == visto[b] < Len(told[b])
News(b) == told[b][visto[b] + 1]

OnCaptured(b) ==
  \/ ConfirmCapture(b)
  \/ reserva[b] # "COBRO_PENDIENTE" /\ UNCHANGED vars

OnFailed(b) ==
  \/ PaymentFailed(b)
  \/ reserva[b] # "COBRO_PENDIENTE" /\ UNCHANGED vars

\* Mutant: whatever is told of a payment confirms its booking.
AnyNewsConfirms(b) == OnCaptured(b)

HandleNews(b) ==
  \/ News(b) = "captured" /\ OnCaptured(b)
  \/ News(b) = "failed" /\ OnFailed(b)

\* Mutant: the offset is committed by the handler and again by the client.
CommitsTwice(b) ==
  /\ HasNews(b)
  /\ HandleNews(b)
  /\ visto' = [visto EXCEPT ![b] = @ + 2]
  /\ UNCHANGED <<payments, replica, consumido, devolucion>>

ConsumeNews(b) ==
  /\ HasNews(b)
  /\ HandleNews(b)
  /\ visto' \in {visto, [visto EXCEPT ![b] = @ + 1]}
  /\ UNCHANGED <<payments, replica, consumido, devolucion>>

-----------------------------------------------------------------------------
(* payment-service consumes booking.cancelled.                               *)

\* Mutant: whatever the cancelled booking's razon, its money goes back.
AnyRazon == Razones

RefundableRazones == {"ASIENTO_LLENO", "OFERTA_NO_DISPONIBLE"}

Cancelled(b, razones) == \E i \in DOMAIN outbox[b] : outbox[b][i] \in razones

\* Mutant: an offer that was withdrawn is no reason to refund.
OnlyWhenFull(b) ==
  /\ Cancelled(b, {"ASIENTO_LLENO"})
  /\ replica[b] = "CAPTURED"
  /\ devolucion[b] \in {"ninguna", "rechazada"}
  /\ devolucion' = [devolucion EXCEPT ![b] = "en_curso"]

\* refundForBookingCancellation: the reservation of the balance and the intent,
\* one transaction.  A rejected refund gave the balance back.
ClaimRefund(b) ==
  /\ replica[b] = "CAPTURED"
  /\ devolucion[b] \in {"ninguna", "rechazada"}
  /\ devolucion' = [devolucion EXCEPT ![b] = "en_curso"]

\* skipped: no refundable payment in the replica, or a refund already there.
SkipRefund(b) ==
  /\ replica[b] # "CAPTURED" \/ devolucion[b] # "ninguna"
  /\ UNCHANGED devolucion

Done(b) == consumido' = [consumido EXCEPT ![b] = TRUE]

ConsumeCancelled(b) ==
  /\ ~consumido[b]
  /\ Cancelled(b, RefundableRazones)
  /\ \/ ClaimRefund(b) /\ (Done(b) \/ UNCHANGED consumido)
     \/ SkipRefund(b) /\ Done(b)
  /\ UNCHANGED <<vars, payments, replica, visto>>

\* The rail carries the refund out, or rejects it: at once or by callback.
SettleRefund(b) ==
  /\ devolucion[b] = "en_curso"
  /\ \E fate \in {"hecha", "rechazada"} : devolucion' = [devolucion EXCEPT ![b] = fate]
  /\ UNCHANGED <<vars, payments, replica, visto, consumido>>

-----------------------------------------------------------------------------
CarpoolNext ==
  \/ Own /\ UNCHANGED <<payments, links>>
  \/ \E w \in Handlers : OpenCharge(w) \/ Reply(w)
  \/ \E b \in Bookings : \/ PaymentMoves(b) \/ ConsumeNews(b)
                         \/ ConsumeCancelled(b) \/ SettleRefund(b)
  \/ Replicate

CarpoolSpec == CarpoolInit /\ [][CarpoolNext]_carpoolVars

\* Consumers go on consuming what is in their topics and the replica catches up.
CarpoolFairSpec ==
  /\ CarpoolSpec
  /\ WF_carpoolVars(Replicate)
  /\ \A b \in Bookings :
       /\ WF_carpoolVars(ConsumeNews(b) /\ visto' # visto)
       /\ WF_carpoolVars(ConsumeCancelled(b) /\ consumido' # consumido)

-----------------------------------------------------------------------------
(* Properties.                                                              *)

\* Nobody sits for free: a confirmed booking's payment is captured and stays
\* so, and none of it is given back, however its events and its
\* booking.cancelled were repeated.
ConfirmedWasCaptured ==
  \A b \in Bookings :
    reserva[b] = "CONFIRMADO" => status[b] = "CAPTURED" /\ devolucion[b] = "ninguna"

\* A refund is for who paid and did not get the seat: payment.captured came and
\* the seat lock turned the booking away.
RefundsTheStranded ==
  \A b \in Bookings :
    devolucion[b] # "ninguna" =>
      /\ status[b] = "CAPTURED"
      /\ reserva[b] = "CANCELADO"
      /\ Cancelled(b, {"ASIENTO_LLENO", "OFERTA_NO_DISPONIBLE"})

\* A booking in COBRO_PENDIENTE waits for a payment that exists, whatever was
\* lost of the POST and of its reply.
WaitsForAPayment ==
  \A b \in Bookings : reserva[b] = "COBRO_PENDIENTE" => status[b] # "none"

\* The two services together implement the deal: a seat for who has paid, none
\* refused while the offer is open and has room, the money back to who was
\* refused, once; whatever was lost, repeated, late or read from the replica.
Deal == INSTANCE PaidSeat WITH
          phase <- [o \in Offers |-> Phase(o)],
          capacity <- [o \in Offers |-> oferta[o].totales],
          sold <- Confirmed,
          paid <- {b \in Bookings : status[b] = "CAPTURED"},
          turnedAway <- {b \in Bookings :
                           Cancelled(b, {"ASIENTO_LLENO", "OFERTA_NO_DISPONIBLE"})},
          refund <- devolucion

KeepsDeal == Deal!DealSpec

\* Who paid gets the seat or the money: when the capture is the next thing that a
\* waiting booking hears, and payment-service's replica has it, the booking
\* ends up confirmed or a refund is under way for it.
SeatOrRefund ==
  \A b \in Bookings :
    (/\ reserva[b] = "COBRO_PENDIENTE" /\ HasNews(b) /\ News(b) = "captured"
     /\ replica[b] = "CAPTURED")
      ~> (reserva[b] = "CONFIRMADO" \/ devolucion[b] # "ninguna")

(* What the comments of the services say, and they do not do.                *)

\* triggerCharge: "NINGUN camino deja el booking colgado".  A booking that waits
\* for a payment that is captured has yet to hear of it.
NoBookingHangs ==
  \A b \in Bookings :
    reserva[b] = "COBRO_PENDIENTE" /\ status[b] = "CAPTURED" => HasNews(b)

\* consumers.ts: "COBRO_RECHAZADO/COBRO_FALLIDO: charge-on-approval sin hold,
\* nunca se capturo nada".
NothingToGiveBack ==
  \A b \in Bookings :
    Cancelled(b, {"COBRO_RECHAZADO", "COBRO_FALLIDO"}) => status[b] # "CAPTURED"

\* refundForBookingCancellation: "devolverle SIEMPRE, sin importar cuando llegue".
RefundIsNeverSkipped ==
  \A b \in Bookings : consumido[b] => devolucion[b] # "ninguna"
=============================================================================
