------------------------------ MODULE Booking ------------------------------
(***************************************************************************)
(* booking-service: the offers a driver publishes and the bookings          *)
(* passengers make on them, from the request to the seat.  The HTTP         *)
(* handlers run concurrently and stop at any await; the money is            *)
(* payment-service's, which is here an environment that answers a charge    *)
(* with anything and sends payment.captured and payment.failed at any time  *)
(* and any number of times.  Carpool composes this module with the payments *)
(* themselves.                                                              *)
(***************************************************************************)
EXTENDS Naturals, Sequences, FiniteSets

CONSTANTS Bookings,     \* submissions: one per Idempotency-Key of a passenger
          Offers,       \* published trips
          OfferOf,      \* the offer a submission is for
          AsientosOf,   \* how many seats it asks for
          MaxAsientos,  \* the most seats an offer has (@Max of the DTO)
          Handlers      \* HTTP requests in flight at once

ASSUME BookingAssumption ==
  /\ OfferOf \in [Bookings -> Offers]
  /\ MaxAsientos \in Nat \ {0}
  /\ AsientosOf \in [Bookings -> 1..MaxAsientos]

VARIABLES oferta,    \* offer -> its row in published_trips
          reserva,   \* booking -> estado of its row; SOLICITADO: no row yet
          outbox,    \* booking -> the events its transactions enqueued
          handler    \* request -> what its code holds between two awaits

vars == <<oferta, reserva, outbox, handler>>

Modos == {"INSTANT", "REVISION"}
EstadosOferta ==
  {"BORRADOR", "PUBLICADO", "PARCIALMENTE_RESERVADO", "LLENO", "CANCELADO"}
EstadosReserva ==
  {"SOLICITADO", "PENDIENTE_APROBACION", "APROBADO", "COBRO_PENDIENTE",
   "CONFIRMADO", "RECHAZADO", "CANCELADO"}

\* The charge as booking sees it: PENDING or CAPTURED; DEBT, FAILED or a 4xx;
\* anything that throws otherwise (5xx, timeout, a reply that never came).
Answers == {"accepted", "rejected", "unavailable"}

\* booking.cancelled is written as its razon, which no column keeps.
Razones == {"CANCELADO_PASAJERO", "COBRO_RECHAZADO", "COBRO_FALLIDO",
            "ASIENTO_LLENO", "OFERTA_NO_DISPONIBLE"}
Eventos == {"requested", "approved", "rejected", "confirmed"} \cup Razones

\* A request that is not being served.
Libre == [pc |-> "libre"]
HandlerStates ==
  {Libre}
    \cup [pc : {"reservando"}, booking : Bookings,
          nace : {"APROBADO", "PENDIENTE_APROBACION"}]
    \cup [pc : {"cobrando"}, booking : Bookings]
    \cup [pc : {"respondido"}, booking : Bookings, answer : Answers]

TypeOK ==
  /\ oferta \in [Offers -> [estado : EstadosOferta, totales : 0..MaxAsientos,
                            disponibles : 0..MaxAsientos, modo : Modos]]
  /\ reserva \in [Bookings -> EstadosReserva]
  /\ outbox \in [Bookings -> Seq(Eventos)]
  /\ handler \in [Handlers -> HandlerStates]

Init ==
  /\ oferta = [o \in Offers |-> [estado |-> "BORRADOR", totales |-> 0,
                                 disponibles |-> 0, modo |-> "REVISION"]]
  /\ reserva = [b \in Bookings |-> "SOLICITADO"]
  /\ outbox = [b \in Bookings |-> <<>>]
  /\ handler = [w \in Handlers |-> Libre]

-----------------------------------------------------------------------------
(* Offers.  A row appears already PUBLICADO: the draft exists only inside    *)
(* publish().                                                               *)

Publish(o, n, m) ==
  /\ oferta[o].estado = "BORRADOR"
  /\ oferta' = [oferta EXCEPT ![o] = [estado |-> "PUBLICADO", totales |-> n,
                                      disponibles |-> n, modo |-> m]]
  /\ UNCHANGED <<reserva, outbox, handler>>

\* Mutant: a partly booked offer may be edited as well.
EditableWhileRoom == {"PUBLICADO", "PARCIALMENTE_RESERVADO"}

\* The states update() may write in.
EditableStates == {"PUBLICADO"}

Edit(o) ==
  /\ oferta[o].estado \in EditableStates
  /\ \/ \E n \in 1..MaxAsientos :
          oferta' = [oferta EXCEPT ![o].totales = n, ![o].disponibles = n]
     \/ \E m \in Modos : oferta' = [oferta EXCEPT ![o].modo = m]
  /\ UNCHANGED <<reserva, outbox, handler>>

\* The driver or an administrator; the bookings are left as they are.
CancelOffer(o) ==
  /\ oferta[o].estado \in {"PUBLICADO", "PARCIALMENTE_RESERVADO", "LLENO"}
  /\ oferta' = [oferta EXCEPT ![o].estado = "CANCELADO"]
  /\ UNCHANGED <<reserva, outbox, handler>>

-----------------------------------------------------------------------------
(* What the conditional updates of the repository do to a booking.          *)

\* UPDATE ... WHERE estado = from, with its event in the same transaction.
Transition(b, from, to, evento) ==
  /\ reserva[b] = from
  /\ reserva' = [reserva EXCEPT ![b] = to]
  /\ outbox' = [outbox EXCEPT ![b] = Append(@, evento)]

\* The request w goes on to triggerCharge(b); or has nothing left to do.
GoCharge(w, b) ==
  handler' = [handler EXCEPT ![w] = [pc |-> "cobrando", booking |-> b]]
Finish(w) == handler' = [handler EXCEPT ![w] = Libre]

-----------------------------------------------------------------------------
(* reserve(): the offer is read, from a replica, before the booking is       *)
(* inserted, and is not read again.                                         *)

EstadoInicial(modo) ==
  IF modo = "INSTANT" THEN "APROBADO" ELSE "PENDIENTE_APROBACION"

ReadOffer(w, b) ==
  LET trip == oferta[OfferOf[b]] IN
  /\ handler[w] = Libre
  /\ trip.estado \in {"PUBLICADO", "PARCIALMENTE_RESERVADO"}
  /\ AsientosOf[b] <= trip.disponibles
  /\ handler' = [handler EXCEPT
       ![w] = [pc |-> "reservando", booking |-> b, nace |-> EstadoInicial(trip.modo)]]
  /\ UNCHANGED <<oferta, reserva, outbox>>

\* The insert, or the row that the same key had already created.
CreateBooking(w) ==
  LET b == handler[w].booking IN
  /\ handler[w].pc = "reservando"
  /\ \/ /\ Transition(b, "SOLICITADO", handler[w].nace,
             IF handler[w].nace = "APROBADO" THEN "approved" ELSE "requested")
     \/ /\ reserva[b] # "SOLICITADO"
        /\ UNCHANGED <<reserva, outbox>>
  /\ IF reserva'[b] = "APROBADO" THEN GoCharge(w, b) ELSE Finish(w)
  /\ UNCHANGED oferta

(* approve(), the first time and again after a charge that did not go        *)
(* through.  Neither looks at the state of the offer.                       *)
Approve(w, b) ==
  /\ handler[w] = Libre
  /\ \/ Transition(b, "PENDIENTE_APROBACION", "APROBADO", "approved")
     \/ /\ reserva[b] = "APROBADO"
        /\ UNCHANGED <<reserva, outbox>>
  /\ GoCharge(w, b)
  /\ UNCHANGED oferta

Reject(b) ==
  /\ Transition(b, "PENDIENTE_APROBACION", "RECHAZADO", "rejected")
  /\ UNCHANGED <<oferta, handler>>

CancelBooking(b) ==
  /\ Transition(b, "PENDIENTE_APROBACION", "CANCELADO", "CANCELADO_PASAJERO")
  /\ UNCHANGED <<oferta, handler>>

-----------------------------------------------------------------------------
(* triggerCharge(): the POST to payment-service is outside any transaction.  *)

\* The POST comes back, or does not.
ChargeAnswered(w, answer) ==
  /\ handler[w].pc = "cobrando"
  /\ handler' = [handler EXCEPT ![w] =
       [pc |-> "respondido", booking |-> handler[w].booking, answer |-> answer]]
  /\ UNCHANGED <<oferta, reserva, outbox>>

\* Mutant: the update by id alone, without WHERE estado = APROBADO.
MarkById(b) ==
  /\ reserva' = [reserva EXCEPT ![b] = "COBRO_PENDIENTE"]
  /\ UNCHANGED outbox

\* markChargePending
MarkChargePending(b) ==
  /\ reserva[b] = "APROBADO"
  /\ reserva' = [reserva EXCEPT ![b] = "COBRO_PENDIENTE"]
  /\ UNCHANGED outbox

CancelForChargeRejected(b) ==
  Transition(b, "APROBADO", "CANCELADO", "COBRO_RECHAZADO")

\* Mutant: a reply that never came is taken for a charge under way.
LostReplyIsPending(w) ==
  LET b == handler[w].booking IN
  /\ handler[w].pc = "respondido"
  /\ \/ handler[w].answer \in {"accepted", "unavailable"} /\ MarkChargePending(b)
     \/ handler[w].answer = "rejected" /\ CancelForChargeRejected(b)
  /\ Finish(w)
  /\ UNCHANGED oferta

\* A booking that left APROBADO meanwhile answers Conflict to this request.
RecordAnswer(w) ==
  LET b == handler[w].booking IN
  /\ handler[w].pc = "respondido"
  /\ \/ handler[w].answer = "accepted" /\ MarkChargePending(b)
     \/ handler[w].answer = "rejected" /\ CancelForChargeRejected(b)
     \/ /\ handler[w].answer = "unavailable" \/ reserva[b] # "APROBADO"
        /\ UNCHANGED <<reserva, outbox>>
  /\ Finish(w)
  /\ UNCHANGED oferta

\* The process dies, or the request is given up, at any await.
CrashHandler(w) ==
  /\ handler[w] # Libre
  /\ Finish(w)
  /\ UNCHANGED <<oferta, reserva, outbox>>

-----------------------------------------------------------------------------
(* The consumer of payment-service's events.  payment.captured runs the      *)
(* seat lock: one transaction that holds the row of the offer.              *)

\* Mutant: the seat lock does not look at the state of the offer.
AnyPublished(o) == oferta[o].estado # "BORRADOR"

IsReservable(o) ==
  oferta[o].estado \in {"PUBLICADO", "PARCIALMENTE_RESERVADO", "LLENO"}

\* Mutant: room for one passenger is taken for room for all of the booking's.
HayUno(b) == oferta[OfferOf[b]].disponibles >= 1

HayCupo(b) == oferta[OfferOf[b]].disponibles >= AsientosOf[b]

\* Mutant: only the first sale moves the state.
OfferStateFirstOnly(estado, restante) ==
  IF estado = "PUBLICADO" THEN "PARCIALMENTE_RESERVADO" ELSE estado

\* computeOfferStateAfterDecrement
OfferStateAfter(estado, restante) ==
  CASE restante = 0 -> "LLENO"
    [] restante > 0 /\ estado = "PUBLICADO" -> "PARCIALMENTE_RESERVADO"
    [] OTHER -> estado

ConfirmSeats(b) ==
  LET o == OfferOf[b]
      restante == oferta[o].disponibles - AsientosOf[b] IN
  /\ IsReservable(o)
  /\ HayCupo(b)
  /\ Transition(b, "COBRO_PENDIENTE", "CONFIRMADO", "confirmed")
  /\ oferta' = [oferta EXCEPT ![o].disponibles = restante,
                              ![o].estado = OfferStateAfter(@, restante)]

CancelUnavailable(b) ==
  /\ ~IsReservable(OfferOf[b])
  /\ Transition(b, "COBRO_PENDIENTE", "CANCELADO", "OFERTA_NO_DISPONIBLE")
  /\ UNCHANGED oferta

CancelSeatFull(b) ==
  /\ IsReservable(OfferOf[b]) /\ ~HayCupo(b)
  /\ Transition(b, "COBRO_PENDIENTE", "CANCELADO", "ASIENTO_LLENO")
  /\ UNCHANGED oferta

\* payment.captured on a booking that waits for it; on any other it is
\* consumed and changes nothing (confirmCapture's early return).
ConfirmCapture(b) ==
  /\ ConfirmSeats(b) \/ CancelUnavailable(b) \/ CancelSeatFull(b)
  /\ UNCHANGED handler

\* payment.failed with willRetry = false; with true nothing changes.
PaymentFailed(b) ==
  /\ Transition(b, "COBRO_PENDIENTE", "CANCELADO", "COBRO_FALLIDO")
  /\ UNCHANGED <<oferta, handler>>

-----------------------------------------------------------------------------
\* What the service does by itself, whatever payment-service answers.
Own ==
  \/ \E o \in Offers : \/ Edit(o)
                       \/ CancelOffer(o)
                       \/ \E n \in 1..MaxAsientos, m \in Modos : Publish(o, n, m)
  \/ \E b \in Bookings : Reject(b) \/ CancelBooking(b)
  \/ \E w \in Handlers, b \in Bookings : ReadOffer(w, b) \/ Approve(w, b)
  \/ \E w \in Handlers : CreateBooking(w) \/ RecordAnswer(w) \/ CrashHandler(w)

Next ==
  \/ Own
  \/ \E w \in Handlers, answer \in Answers : ChargeAnswered(w, answer)
  \/ \E b \in Bookings : ConfirmCapture(b) \/ PaymentFailed(b)

Spec == Init /\ [][Next]_vars

-----------------------------------------------------------------------------
(* Properties.                                                              *)

Confirmed == {b \in Bookings : reserva[b] = "CONFIRMADO"}

Phase(o) ==
  CASE oferta[o].estado = "BORRADOR"  -> "unopened"
    [] oferta[o].estado = "CANCELADO" -> "closed"
    [] OTHER -> "open"

Sale == INSTANCE SeatSale WITH
          phase <- [o \in Offers |-> Phase(o)],
          capacity <- [o \in Offers |-> oferta[o].totales],
          sold <- Confirmed

Taken(o) == Sale!SeatsOf(o, Confirmed)

\* The service implements the sale of seats: confirmAndLockSeats sells a
\* booking once, only on an offer that is still open and has the seats left,
\* and the size of an offer changes only while nobody has a seat on it,
\* whatever the order of captures, edits, approvals and cancellations.
SellsOnlyFreeSeats == Sale!Spec

\* The counter asientosDisponibles is exact: the seats of the confirmed
\* bookings and the available ones make up the offer, also after it was
\* edited, filled or cancelled.  update() resets the counter on the strength
\* of "PUBLICADO: 0 confirmadas", which this is what makes true.
SeatsAddUp ==
  \A o \in Offers :
    oferta[o].disponibles + Cardinality(Taken(o)) = oferta[o].totales

\* The state of an offer tells its seats: PUBLICADO means nobody is confirmed,
\* PARCIALMENTE_RESERVADO somebody and room for more, LLENO no room.  Search,
\* reserve() and update() decide by the state alone.
OfferStateTellsSeats ==
  \A o \in Offers :
    /\ oferta[o].estado = "PUBLICADO" => Taken(o) = {} /\ oferta[o].disponibles > 0
    /\ oferta[o].estado = "PARCIALMENTE_RESERVADO" =>
          Taken(o) # {} /\ oferta[o].disponibles > 0
    /\ oferta[o].estado = "LLENO" => oferta[o].disponibles = 0

\* The events a booking's transactions can have enqueued, by its state.
Beginnings == {<<"approved">>, <<"requested", "approved">>}
Histories(estado) ==
  CASE estado = "SOLICITADO" -> {<<>>}
    [] estado = "PENDIENTE_APROBACION" -> {<<"requested">>}
    [] estado \in {"APROBADO", "COBRO_PENDIENTE"} -> Beginnings
    [] estado = "RECHAZADO" -> {<<"requested", "rejected">>}
    [] estado = "CONFIRMADO" -> {Append(s, "confirmed") : s \in Beginnings}
    [] estado = "CANCELADO" ->
         {<<"requested", "CANCELADO_PASAJERO">>}
           \cup {Append(s, r) : s \in Beginnings, r \in Razones \ {"CANCELADO_PASAJERO"}}

\* Whoever only sees the events of the outbox (payment refunds by them,
\* notification tells the passenger) reads the booking's true fate in them:
\* one approval at most, one verdict at most, the verdict last and the one the
\* row has, however many approvals, charges and captures raced.
EventsTellTheState ==
  \A b \in Bookings : outbox[b] \in Histories(reserva[b])
=============================================================================
