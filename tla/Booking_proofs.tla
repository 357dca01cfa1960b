--------------------------- MODULE Booking_proofs ---------------------------
(***************************************************************************)
(* Theorems about Booking, for every set of bookings, offers and requests   *)
(* and every number of seats: the rows keep their types, the seat counter   *)
(* is exact, the state of an offer tells its seats, the events tell the     *)
(* fate of a booking, and the service implements the sale of seats of       *)
(* SeatSale.                                                                *)
(***************************************************************************)
EXTENDS Booking, FiniteSetTheorems, SequenceTheorems, TLAPS

-----------------------------------------------------------------------------
(* Types.                                                                   *)

\* A conditional update keeps the types of what it writes.
LEMMA TransitionType ==
  ASSUME NEW b \in Bookings, NEW from, NEW to \in EstadosReserva,
         NEW e \in Eventos, TypeOK, Transition(b, from, to, e)
  PROVE  /\ reserva' \in [Bookings -> EstadosReserva]
         /\ outbox' \in [Bookings -> Seq(Eventos)]
<1>1. outbox[b] \in Seq(Eventos)  BY DEF TypeOK
<1>2. Append(outbox[b], e) \in Seq(Eventos)  BY <1>1
<1> QED  BY <1>2 DEF Transition, TypeOK

LEMMA HandlerTypes ==
  ASSUME NEW b \in Bookings, NEW w \in Handlers, TypeOK
  PROVE  /\ GoCharge(w, b) => handler' \in [Handlers -> HandlerStates]
         /\ Finish(w) => handler' \in [Handlers -> HandlerStates]
<1>1. [pc |-> "cobrando", booking |-> b] \in HandlerStates  BY DEF HandlerStates
<1>2. Libre \in HandlerStates  BY DEF HandlerStates
<1> QED  BY <1>1, <1>2 DEF TypeOK, GoCharge, Finish

\* A request between two awaits serves a booking.
LEMMA HandlerBooking ==
  ASSUME TypeOK, NEW w \in Handlers
  PROVE  /\ handler[w].pc = "reservando" =>
              /\ handler[w].booking \in Bookings
              /\ handler[w].nace \in {"APROBADO", "PENDIENTE_APROBACION"}
         /\ handler[w].pc = "cobrando" => handler[w].booking \in Bookings
         /\ handler[w].pc = "respondido" => handler[w].booking \in Bookings
<1>1. handler[w] \in HandlerStates  BY DEF TypeOK
<1> QED  BY <1>1 DEF HandlerStates, Libre

\* The rows, the events and the requests keep their types.
THEOREM TypeCorrect == Spec => []TypeOK
<1> USE BookingAssumption
<1>1. Init => TypeOK
  BY DEF Init, TypeOK, EstadosOferta, EstadosReserva, Modos, HandlerStates
<1>2. TypeOK /\ [Next]_vars => TypeOK'
  <2> SUFFICES ASSUME TypeOK, [Next]_vars PROVE TypeOK'
    OBVIOUS
  <2>1. ASSUME NEW o \in Offers, NEW n \in 1..MaxAsientos, NEW m \in Modos,
               Publish(o, n, m)
        PROVE  TypeOK'
    BY <2>1 DEF Publish, TypeOK, EstadosOferta
  <2>2. ASSUME NEW o \in Offers, Edit(o)  PROVE TypeOK'
    <3> DEFINE Row == [estado : EstadosOferta, totales : 0..MaxAsientos,
                       disponibles : 0..MaxAsientos, modo : Modos]
    <3>0. /\ UNCHANGED <<reserva, outbox, handler>>
          /\ oferta \in [Offers -> Row]
      BY <2>2 DEF Edit, TypeOK
    <3>1. ASSUME NEW n \in 1..MaxAsientos,
                 oferta' = [oferta EXCEPT ![o].totales = n, ![o].disponibles = n]
          PROVE  TypeOK'
      <4>0. n \in 0..MaxAsientos  OBVIOUS
      <4>1. [oferta[o] EXCEPT !.totales = n, !.disponibles = n] \in Row
        BY <3>0, <4>0, Zenon
      <4>2. oferta' \in [Offers -> Row]  BY <3>0, <3>1, <4>1
      <4> QED  BY <3>0, <4>2 DEF TypeOK
    <3>2. ASSUME NEW m \in Modos, oferta' = [oferta EXCEPT ![o].modo = m]
          PROVE  TypeOK'
      <4>1. [oferta[o] EXCEPT !.modo = m] \in Row  BY <3>0
      <4>2. oferta' \in [Offers -> Row]  BY <3>0, <3>2, <4>1
      <4> QED  BY <3>0, <4>2 DEF TypeOK
    <3> QED  BY <2>2, <3>1, <3>2 DEF Edit
  <2>3. ASSUME NEW o \in Offers, CancelOffer(o)  PROVE TypeOK'
    BY <2>3 DEF CancelOffer, TypeOK, EstadosOferta
  <2>4. ASSUME NEW b \in Bookings, Reject(b)  PROVE TypeOK'
    BY <2>4, TransitionType, Zenon DEF Reject, TypeOK, EstadosReserva, Eventos
  <2>5. ASSUME NEW b \in Bookings, CancelBooking(b)  PROVE TypeOK'
    BY <2>5, TransitionType, Zenon
    DEF CancelBooking, TypeOK, EstadosReserva, Eventos, Razones
  <2>6. ASSUME NEW w \in Handlers, NEW b \in Bookings, ReadOffer(w, b)
        PROVE  TypeOK'
    BY <2>6 DEF ReadOffer, TypeOK, HandlerStates, EstadoInicial
  <2>7. ASSUME NEW w \in Handlers, NEW b \in Bookings, Approve(w, b)
        PROVE  TypeOK'
    <3>1. handler' \in [Handlers -> HandlerStates]
      BY <2>7, HandlerTypes DEF Approve
    <3>2. /\ reserva' \in [Bookings -> EstadosReserva]
          /\ outbox' \in [Bookings -> Seq(Eventos)]
      <4>1. CASE Transition(b, "PENDIENTE_APROBACION", "APROBADO", "approved")
        BY <4>1, TransitionType DEF EstadosReserva, Eventos
      <4>2. CASE UNCHANGED <<reserva, outbox>>
        BY <4>2 DEF TypeOK
      <4> QED  BY <2>7, <4>1, <4>2 DEF Approve
    <3> QED  BY <2>7, <3>1, <3>2 DEF Approve, TypeOK
  <2>8. ASSUME NEW w \in Handlers, CreateBooking(w)  PROVE TypeOK'
    <3> DEFINE b == handler[w].booking
    <3>1. b \in Bookings /\ handler[w].nace \in {"APROBADO", "PENDIENTE_APROBACION"}
      BY <2>8, HandlerBooking DEF CreateBooking
    <3>2. handler' \in [Handlers -> HandlerStates]
      BY <2>8, <3>1, HandlerTypes DEF CreateBooking
    <3>3. /\ reserva' \in [Bookings -> EstadosReserva]
          /\ outbox' \in [Bookings -> Seq(Eventos)]
      <4> DEFINE e == IF handler[w].nace = "APROBADO" THEN "approved" ELSE "requested"
      <4>1. CASE Transition(b, "SOLICITADO", handler[w].nace, e)
        <5>1. handler[w].nace \in EstadosReserva /\ e \in Eventos
          BY <3>1 DEF EstadosReserva, Eventos
        <5> HIDE DEF b, e
        <5> QED  BY <4>1, <3>1, <5>1, TransitionType
      <4>2. CASE UNCHANGED <<reserva, outbox>>
        BY <4>2 DEF TypeOK
      <4> QED  BY <2>8, <4>1, <4>2 DEF CreateBooking
    <3> QED  BY <2>8, <3>2, <3>3 DEF CreateBooking, TypeOK
  <2>9. ASSUME NEW w \in Handlers, RecordAnswer(w)  PROVE TypeOK'
    <3> DEFINE b == handler[w].booking
    <3>1. b \in Bookings  BY <2>9, HandlerBooking DEF RecordAnswer
    <3>2. handler' \in [Handlers -> HandlerStates]
      BY <2>9, <3>1, HandlerTypes DEF RecordAnswer
    <3>3. /\ reserva' \in [Bookings -> EstadosReserva]
          /\ outbox' \in [Bookings -> Seq(Eventos)]
      <4>1. CASE MarkChargePending(b)
        BY <4>1, <3>1 DEF MarkChargePending, TypeOK, EstadosReserva
      <4>2. CASE CancelForChargeRejected(b)
        BY <4>2, <3>1, TransitionType
        DEF CancelForChargeRejected, EstadosReserva, Eventos, Razones
      <4>3. CASE UNCHANGED <<reserva, outbox>>
        BY <4>3 DEF TypeOK
      <4> QED  BY <2>9, <4>1, <4>2, <4>3 DEF RecordAnswer
    <3> QED  BY <2>9, <3>2, <3>3 DEF RecordAnswer, TypeOK
  <2>10. ASSUME NEW w \in Handlers, CrashHandler(w)  PROVE TypeOK'
    BY <2>10 DEF CrashHandler, Finish, TypeOK, HandlerStates
  <2>11. ASSUME NEW w \in Handlers, NEW a \in Answers, ChargeAnswered(w, a)
         PROVE  TypeOK'
    <3>1. handler[w].booking \in Bookings
      BY <2>11, HandlerBooking DEF ChargeAnswered
    <3> QED  BY <2>11, <3>1 DEF ChargeAnswered, TypeOK, HandlerStates
  <2>12. ASSUME NEW b \in Bookings, ConfirmCapture(b)  PROVE TypeOK'
    <3>1. CASE ConfirmSeats(b)
      <4> DEFINE o == OfferOf[b]
                 left == oferta[o].disponibles - AsientosOf[b]
      <4>1. o \in Offers  OBVIOUS
      <4>2. left \in 0..MaxAsientos
        BY <3>1, <4>1 DEF ConfirmSeats, HayCupo, TypeOK
      <4>3. OfferStateAfter(oferta[o].estado, left) \in EstadosOferta
        BY <4>1, <4>2 DEF OfferStateAfter, TypeOK, EstadosOferta
      <4>4. oferta' = [oferta EXCEPT ![o].disponibles = left,
                                     ![o].estado = OfferStateAfter(@, left)]
        BY <3>1 DEF ConfirmSeats
      <4>5. oferta' \in [Offers -> [estado : EstadosOferta, totales : 0..MaxAsientos,
                                    disponibles : 0..MaxAsientos, modo : Modos]]
        <5> HIDE DEF o, left
        <5> QED  BY <4>1, <4>2, <4>3, <4>4 DEF TypeOK
      <4>6. /\ reserva' \in [Bookings -> EstadosReserva]
            /\ outbox' \in [Bookings -> Seq(Eventos)]
        BY <3>1, TransitionType DEF ConfirmSeats, EstadosReserva, Eventos
      <4> QED  BY <4>5, <4>6, <2>12 DEF ConfirmCapture, TypeOK
    <3>2. CASE CancelUnavailable(b)
      BY <2>12, <3>2, TransitionType, Zenon
      DEF ConfirmCapture, CancelUnavailable, TypeOK, EstadosReserva, Eventos, Razones
    <3>3. CASE CancelSeatFull(b)
      BY <2>12, <3>3, TransitionType, Zenon
      DEF ConfirmCapture, CancelSeatFull, TypeOK, EstadosReserva, Eventos, Razones
    <3> QED  BY <2>12, <3>1, <3>2, <3>3 DEF ConfirmCapture
  <2>13. ASSUME NEW b \in Bookings, PaymentFailed(b)  PROVE TypeOK'
    BY <2>13, TransitionType, Zenon
    DEF PaymentFailed, TypeOK, EstadosReserva, Eventos, Razones
  <2>14. CASE UNCHANGED vars
    BY <2>14 DEF vars, TypeOK
  <2> QED
    BY <2>1, <2>2, <2>3, <2>4, <2>5, <2>6, <2>7, <2>8, <2>9, <2>10, <2>11,
       <2>12, <2>13, <2>14 DEF Next, Own
<1> QED  BY <1>1, <1>2, PTL DEF Spec

-----------------------------------------------------------------------------
(* Sets of seats.                                                           *)

\* A booking outside S adds its own seats to those S has on its offer.
LEMMA SeatsOfOneMore ==
  ASSUME NEW S, NEW b \in Bookings, b \notin S,
         IsFiniteSet(Sale!SeatsOf(OfferOf[b], S))
  PROVE  LET o == OfferOf[b] IN
         /\ IsFiniteSet(Sale!SeatsOf(o, S \cup {b}))
         /\ Cardinality(Sale!SeatsOf(o, S \cup {b}))
              = Cardinality(Sale!SeatsOf(o, S)) + AsientosOf[b]
         /\ Sale!SeatsOf(o, S \cup {b}) # {}
<1> DEFINE o == OfferOf[b]
           Old == Sale!SeatsOf(o, S)
           Own1 == {b} \X (1..AsientosOf[b])
<1>1. AsientosOf[b] \in Nat \ {0}  BY BookingAssumption
<1>2. /\ IsFiniteSet(Own1)
      /\ Cardinality(Own1) = AsientosOf[b]
  <2>1. /\ IsFiniteSet({b})
        /\ Cardinality({b}) = 1
    BY FS_Singleton
  <2>2. /\ IsFiniteSet(1..AsientosOf[b])
        /\ Cardinality(1..AsientosOf[b]) = AsientosOf[b]
    BY <1>1, FS_Interval
  <2>3. /\ IsFiniteSet(Own1)
        /\ Cardinality(Own1) = Cardinality({b}) * Cardinality(1..AsientosOf[b])
    BY <2>1, <2>2, FS_Product, Zenon
  <2> QED  BY <1>1, <2>1, <2>2, <2>3
<1>3. Sale!SeatsOf(o, S \cup {b}) = Old \cup Own1
  BY DEF Sale!SeatsOf
<1>4. Old \cap Own1 = {}
  BY DEF Sale!SeatsOf
<1>5. /\ IsFiniteSet(Old \cup Own1)
      /\ Cardinality(Old \cup Own1)
           = Cardinality(Old) + Cardinality(Own1) - Cardinality(Old \cap Own1)
  BY <1>2, FS_Union, Zenon
<1>6. Cardinality(Old) \in Nat  BY FS_CardinalityType
<1>7. Cardinality(Old \cap Own1) = 0  BY <1>4, FS_EmptySet
<1>8. <<b, 1>> \in Own1  BY <1>1
<1>9. /\ IsFiniteSet(Old \cup Own1)
      /\ Cardinality(Old \cup Own1) = Cardinality(Old) + AsientosOf[b]
      /\ Old \cup Own1 # {}
  <2> HIDE DEF Old, Own1
  <2> QED  BY <1>1, <1>2, <1>5, <1>6, <1>7, <1>8
<1> QED  BY <1>3, <1>9, Zenon

\* and nothing to those S has on other offers.
LEMMA SeatsOfOthers ==
  ASSUME NEW S, NEW b \in Bookings, NEW o \in Offers, OfferOf[b] # o
  PROVE  Sale!SeatsOf(o, S \cup {b}) = Sale!SeatsOf(o, S)
BY DEF Sale!SeatsOf

\* SeatSale counts with the same cardinality.
LEMMA SameCardinality == \A S : Sale!Cardinality(S) = Cardinality(S)
BY DEF Cardinality, Sale!Cardinality

-----------------------------------------------------------------------------
(* What a step can do to the offers and to the set of confirmed bookings.   *)

\* Only the seat lock confirms a booking, nothing takes a confirmation back, and
\* every step is one of these: nothing the sale sees changes, an offer is
\* published, edited or cancelled, or the seat lock confirms.
LEMMA StepShape ==
  ASSUME TypeOK, [Next]_vars
  PROVE  \/ UNCHANGED oferta /\ Confirmed' = Confirmed
         \/ /\ Confirmed' = Confirmed
            /\ \E o \in Offers : \/ Edit(o)
                                 \/ CancelOffer(o)
                                 \/ \E n \in 1..MaxAsientos, m \in Modos :
                                       Publish(o, n, m)
         \/ \E b \in Bookings : ConfirmSeats(b)
<1>1. ASSUME NEW b \in Bookings, NEW from \in EstadosReserva \ {"CONFIRMADO"},
             NEW to \in EstadosReserva \ {"CONFIRMADO"}, NEW e,
             Transition(b, from, to, e)
      PROVE  Confirmed' = Confirmed
  BY <1>1 DEF Transition, Confirmed, TypeOK
<1>2. ASSUME UNCHANGED reserva  PROVE Confirmed' = Confirmed
  BY <1>2 DEF Confirmed
<1>3. ASSUME NEW o \in Offers,
             \/ Edit(o) \/ CancelOffer(o)
             \/ \E n \in 1..MaxAsientos, m \in Modos : Publish(o, n, m)
      PROVE  Confirmed' = Confirmed
  BY <1>3, <1>2 DEF Edit, CancelOffer, Publish
<1>4. ASSUME NEW b \in Bookings, Reject(b) \/ CancelBooking(b) \/ PaymentFailed(b)
      PROVE  UNCHANGED oferta /\ Confirmed' = Confirmed
  BY <1>4, <1>1 DEF Reject, CancelBooking, PaymentFailed, EstadosReserva
<1>5. ASSUME NEW w \in Handlers, NEW b \in Bookings, ReadOffer(w, b)
      PROVE  UNCHANGED oferta /\ Confirmed' = Confirmed
  BY <1>5, <1>2 DEF ReadOffer
<1>6. ASSUME NEW w \in Handlers, NEW b \in Bookings, Approve(w, b)
      PROVE  UNCHANGED oferta /\ Confirmed' = Confirmed
  BY <1>6, <1>1, <1>2 DEF Approve, EstadosReserva
<1>7. ASSUME NEW w \in Handlers, CreateBooking(w)
      PROVE  UNCHANGED oferta /\ Confirmed' = Confirmed
  <2> DEFINE b == handler[w].booking
             nace == handler[w].nace
  <2>1. b \in Bookings /\ nace \in {"APROBADO", "PENDIENTE_APROBACION"}
    BY <1>7, HandlerBooking DEF CreateBooking
  <2>2. nace \in EstadosReserva \ {"CONFIRMADO"}  BY <2>1 DEF EstadosReserva
  <2>3. CASE UNCHANGED <<reserva, outbox>>
    BY <2>3, <1>2, <1>7 DEF CreateBooking
  <2>4. CASE Transition(b, "SOLICITADO", nace,
                        IF nace = "APROBADO" THEN "approved" ELSE "requested")
    <3>1. Confirmed' = Confirmed
      <4> HIDE DEF b, nace
      <4> QED  BY <2>1, <2>2, <2>4, <1>1 DEF EstadosReserva
    <3> QED  BY <3>1, <1>7 DEF CreateBooking
  <2> QED  BY <1>7, <2>3, <2>4 DEF CreateBooking
<1>8. ASSUME NEW w \in Handlers, RecordAnswer(w)
      PROVE  UNCHANGED oferta /\ Confirmed' = Confirmed
  <2> DEFINE b == handler[w].booking
  <2>1. b \in Bookings  BY <1>8, HandlerBooking DEF RecordAnswer
  <2>2. CASE MarkChargePending(b)
    <3>1. Confirmed' = Confirmed
      BY <2>1, <2>2 DEF MarkChargePending, Confirmed, TypeOK
    <3> QED  BY <3>1, <1>8 DEF RecordAnswer
  <2>3. CASE CancelForChargeRejected(b)
    <3>1. Confirmed' = Confirmed
      BY <2>1, <2>3, <1>1 DEF CancelForChargeRejected, EstadosReserva
    <3> QED  BY <3>1, <1>8 DEF RecordAnswer
  <2>4. CASE UNCHANGED <<reserva, outbox>>
    BY <2>4, <1>2, <1>8 DEF RecordAnswer
  <2> QED  BY <1>8, <2>2, <2>3, <2>4 DEF RecordAnswer
<1>9. ASSUME NEW w \in Handlers,
             CrashHandler(w) \/ \E a \in Answers : ChargeAnswered(w, a)
      PROVE  UNCHANGED oferta /\ Confirmed' = Confirmed
  BY <1>9, <1>2 DEF CrashHandler, ChargeAnswered
<1>10. ASSUME NEW b \in Bookings, ConfirmCapture(b), ~ConfirmSeats(b)
       PROVE  UNCHANGED oferta /\ Confirmed' = Confirmed
  BY <1>10, <1>1 DEF ConfirmCapture, CancelUnavailable, CancelSeatFull, EstadosReserva
<1>11. CASE UNCHANGED vars
  BY <1>11, <1>2 DEF vars
<1> QED
  BY <1>3, <1>4, <1>5, <1>6, <1>7, <1>8, <1>9, <1>10, <1>11 DEF Next, Own

-----------------------------------------------------------------------------
(* The seats.                                                               *)

\* The inductive invariant: the counter is exact and the state of an offer tells
\* its seats, also before it is published, when it has none.
SeatInv ==
  \A o \in Offers :
    /\ IsFiniteSet(Taken(o))
    /\ oferta[o].disponibles + Cardinality(Taken(o)) = oferta[o].totales
    /\ oferta[o].estado \in {"BORRADOR", "PUBLICADO"} => Taken(o) = {}
    /\ oferta[o].estado = "PUBLICADO" => oferta[o].disponibles > 0
    /\ oferta[o].estado = "PARCIALMENTE_RESERVADO" =>
          Taken(o) # {} /\ oferta[o].disponibles > 0
    /\ oferta[o].estado = "LLENO" => oferta[o].disponibles = 0

\* What the seat lock does to the seats of the booking's offer and of the others.
LEMMA ConfirmShape ==
  ASSUME TypeOK, SeatInv, NEW b \in Bookings, ConfirmSeats(b)
  PROVE  LET o == OfferOf[b] IN
         /\ b \notin Confirmed
         /\ Confirmed' = Confirmed \cup {b}
         /\ IsFiniteSet(Taken(o)')
         /\ Cardinality(Taken(o)') = Cardinality(Taken(o)) + AsientosOf[b]
         /\ Taken(o)' # {}
         /\ \A p \in Offers \ {o} : Taken(p)' = Taken(p)
<1>1. b \notin Confirmed /\ Confirmed' = Confirmed \cup {b}
  BY DEF ConfirmSeats, Transition, Confirmed, TypeOK
<1>2. IsFiniteSet(Sale!SeatsOf(OfferOf[b], Confirmed))
  BY BookingAssumption DEF SeatInv, Taken
<1>3. ASSUME NEW p \in Offers
      PROVE  Taken(p)' = Sale!SeatsOf(p, Confirmed \cup {b})
  BY <1>1 DEF Taken, Sale!SeatsOf
<1>4. OfferOf[b] \in Offers  BY BookingAssumption
<1> HIDE DEF Confirmed
<1> QED  BY <1>1, <1>2, <1>3, <1>4, SeatsOfOneMore, SeatsOfOthers DEF Taken

LEMMA SeatInvInvariant == Spec => []SeatInv
<1>1. Init => SeatInv
  <2> SUFFICES ASSUME Init, NEW o \in Offers
               PROVE  /\ Taken(o) = {}
                      /\ oferta[o].disponibles = 0 /\ oferta[o].totales = 0
                      /\ oferta[o].estado = "BORRADOR"
    BY FS_EmptySet DEF SeatInv
  <2>1. Confirmed = {}  BY DEF Init, Confirmed
  <2>2. Taken(o) = {}  BY <2>1 DEF Taken, Sale!SeatsOf
  <2> QED  BY <2>2 DEF Init
<1>2. TypeOK /\ TypeOK' /\ SeatInv /\ [Next]_vars => SeatInv'
  <2> SUFFICES ASSUME TypeOK, TypeOK', SeatInv, [Next]_vars PROVE SeatInv'
    OBVIOUS
  <2>0. ASSUME Confirmed' = Confirmed, NEW o \in Offers  PROVE Taken(o)' = Taken(o)
    BY <2>0 DEF Taken, Sale!SeatsOf
  <2>1. CASE UNCHANGED oferta /\ Confirmed' = Confirmed
    BY <2>0, <2>1 DEF SeatInv
  <2>2. ASSUME Confirmed' = Confirmed, NEW p \in Offers, Edit(p)  PROVE SeatInv'
    <3> SUFFICES ASSUME NEW o \in Offers PROVE
            /\ IsFiniteSet(Taken(o))
            /\ oferta'[o].disponibles + Cardinality(Taken(o)) = oferta'[o].totales
            /\ oferta'[o].estado \in {"BORRADOR", "PUBLICADO"} => Taken(o) = {}
            /\ oferta'[o].estado = "PUBLICADO" => oferta'[o].disponibles > 0
            /\ oferta'[o].estado = "PARCIALMENTE_RESERVADO" =>
                  Taken(o) # {} /\ oferta'[o].disponibles > 0
            /\ oferta'[o].estado = "LLENO" => oferta'[o].disponibles = 0
      BY <2>0, <2>2 DEF SeatInv
    <3>1. CASE o # p
      BY <3>1, <2>2 DEF Edit, SeatInv, TypeOK
    <3>2. CASE o = p
      <4>1. /\ oferta[o].estado = "PUBLICADO"
            /\ Taken(o) = {}
            /\ Cardinality(Taken(o)) = 0
            /\ oferta[o].disponibles > 0
            /\ oferta[o].disponibles = oferta[o].totales
        BY <3>2, <2>2, FS_EmptySet DEF Edit, EditableStates, SeatInv, TypeOK
      <4>2. ASSUME NEW n \in 1..MaxAsientos,
                   oferta' = [oferta EXCEPT ![p].totales = n, ![p].disponibles = n]
            PROVE  /\ oferta'[o].estado = "PUBLICADO"
                   /\ oferta'[o].disponibles = n /\ oferta'[o].totales = n
        BY <3>2, <4>1, <4>2 DEF TypeOK
      <4>3. ASSUME NEW m \in Modos, oferta' = [oferta EXCEPT ![p].modo = m]
            PROVE  /\ oferta'[o].estado = oferta[o].estado
                   /\ oferta'[o].disponibles = oferta[o].disponibles
                   /\ oferta'[o].totales = oferta[o].totales
        BY <3>2, <4>3 DEF TypeOK
      <4>4. IsFiniteSet(Taken(o))  BY DEF SeatInv
      <4>5. /\ oferta'[o].estado = "PUBLICADO"
            /\ oferta'[o].disponibles \in Nat \ {0}
            /\ oferta'[o].totales = oferta'[o].disponibles
        <5>1. CASE \E n \in 1..MaxAsientos :
                     oferta' = [oferta EXCEPT ![p].totales = n, ![p].disponibles = n]
          <6> PICK n \in 1..MaxAsientos :
                     oferta' = [oferta EXCEPT ![p].totales = n, ![p].disponibles = n]
            BY <5>1
          <6>1. n \in Nat \ {0}  BY BookingAssumption
          <6> QED  BY <4>2, <6>1
        <5>2. CASE \E m \in Modos : oferta' = [oferta EXCEPT ![p].modo = m]
          BY <5>2, <4>1, <4>3 DEF TypeOK
        <5> QED  BY <2>2, <5>1, <5>2 DEF Edit
      <4> QED  BY <4>1, <4>4, <4>5
    <3> QED  BY <3>1, <3>2
  <2>3. ASSUME Confirmed' = Confirmed, NEW p \in Offers, CancelOffer(p)
        PROVE  SeatInv'
    BY <2>0, <2>3 DEF CancelOffer, SeatInv, TypeOK
  <2>4. ASSUME Confirmed' = Confirmed, NEW p \in Offers, NEW n \in 1..MaxAsientos,
               NEW m \in Modos, Publish(p, n, m)
        PROVE  SeatInv'
    <3>1. Taken(p) = {} /\ Cardinality(Taken(p)) = 0
      BY <2>4, FS_EmptySet DEF Publish, SeatInv
    <3>2. n \in Nat \ {0}  BY BookingAssumption
    <3>3. /\ oferta'[p] = [estado |-> "PUBLICADO", totales |-> n,
                           disponibles |-> n, modo |-> m]
          /\ \A o \in Offers \ {p} : oferta'[o] = oferta[o]
      BY <2>4 DEF Publish, TypeOK
    <3>4. \A o \in Offers : Taken(o)' = Taken(o)  BY <2>0, <2>4
    <3>5. oferta'[p].disponibles + Cardinality(Taken(p)) = oferta'[p].totales
      BY <3>1, <3>2, <3>3
    <3> DEFINE Row(o) ==
          /\ IsFiniteSet(Taken(o))
          /\ oferta'[o].disponibles + Cardinality(Taken(o)) = oferta'[o].totales
          /\ oferta'[o].estado \in {"BORRADOR", "PUBLICADO"} => Taken(o) = {}
          /\ oferta'[o].estado = "PUBLICADO" => oferta'[o].disponibles > 0
          /\ oferta'[o].estado = "PARCIALMENTE_RESERVADO" =>
                Taken(o) # {} /\ oferta'[o].disponibles > 0
          /\ oferta'[o].estado = "LLENO" => oferta'[o].disponibles = 0
    <3>6. Row(p)
      <4>1. /\ oferta'[p].estado = "PUBLICADO"
            /\ oferta'[p].disponibles > 0
        BY <3>2, <3>3
      <4>2. IsFiniteSet(Taken(p))  BY DEF SeatInv
      <4> QED  BY <3>1, <3>5, <4>1, <4>2
    <3>7. \A o \in Offers \ {p} : Row(o)  BY <3>3 DEF SeatInv
    <3> HIDE DEF Row
    <3>8. \A o \in Offers : Row(o)  BY <3>6, <3>7
    <3> QED  BY <3>4, <3>8 DEF SeatInv, Row
  <2>5. ASSUME NEW b \in Bookings, ConfirmSeats(b)  PROVE SeatInv'
    <3> DEFINE o == OfferOf[b]
               left == oferta[o].disponibles - AsientosOf[b]
    <3>1. /\ o \in Offers /\ left \in Nat
          /\ oferta[o].estado \in {"PUBLICADO", "PARCIALMENTE_RESERVADO", "LLENO"}
      BY <2>5, BookingAssumption DEF ConfirmSeats, HayCupo, IsReservable, TypeOK
    <3>2. /\ oferta'[o].disponibles = left
          /\ oferta'[o].totales = oferta[o].totales
          /\ oferta'[o].estado = OfferStateAfter(oferta[o].estado, left)
          /\ \A p \in Offers \ {o} : oferta'[p] = oferta[p]
      BY <2>5, <3>1 DEF ConfirmSeats, TypeOK
    <3>3. /\ IsFiniteSet(Taken(o)')
          /\ Cardinality(Taken(o)') = Cardinality(Taken(o)) + AsientosOf[b]
          /\ Taken(o)' # {}
          /\ \A p \in Offers \ {o} : Taken(p)' = Taken(p)
      BY <2>5, ConfirmShape
    <3>4. /\ Cardinality(Taken(o)) \in Nat /\ AsientosOf[b] \in Nat \ {0}
          /\ oferta[o].disponibles \in Nat /\ oferta[o].totales \in Nat
          /\ oferta[o].disponibles + Cardinality(Taken(o)) = oferta[o].totales
      BY <3>1, FS_CardinalityType, BookingAssumption DEF SeatInv, TypeOK
    <3>5. oferta[o].estado = "LLENO" => left = 0
      BY <3>1, <3>4 DEF SeatInv
    <3>6. /\ oferta'[o].estado \notin {"BORRADOR", "PUBLICADO"}
          /\ oferta'[o].estado = "PARCIALMENTE_RESERVADO" => left > 0
          /\ oferta'[o].estado = "LLENO" => left = 0
      BY <3>1, <3>2, <3>5 DEF OfferStateAfter
    <3>7. oferta'[o].disponibles + Cardinality(Taken(o)') = oferta'[o].totales
      BY <3>1, <3>2, <3>3, <3>4
    <3> HIDE DEF o, left
    <3> QED  BY <3>1, <3>2, <3>3, <3>6, <3>7 DEF SeatInv
  <2> QED  BY <2>1, <2>2, <2>3, <2>4, <2>5, StepShape
<1> QED  BY <1>1, <1>2, TypeCorrect, PTL DEF Spec

\* The seat counter of every offer is exact in every reachable state.
THEOREM SeatsAlwaysAddUp == Spec => []SeatsAddUp
<1>1. SeatInv => SeatsAddUp  BY DEF SeatInv, SeatsAddUp
<1> QED  BY <1>1, SeatInvInvariant, PTL

\* The state of an offer tells its seats in every reachable state.
THEOREM OfferStateAlwaysTells == Spec => []OfferStateTellsSeats
<1>1. SeatInv => OfferStateTellsSeats  BY DEF SeatInv, OfferStateTellsSeats
<1> QED  BY <1>1, SeatInvInvariant, PTL

-----------------------------------------------------------------------------
(* The refinement.                                                          *)

LEMMA InitRefines == Init => Sale!Init
<1> SUFFICES ASSUME Init PROVE Sale!Init
  OBVIOUS
<1>1. Confirmed = {}  BY DEF Init, Confirmed
<1>2. \A o \in Offers : Phase(o) = "unopened"  BY DEF Init, Phase
<1>3. [o \in Offers |-> oferta[o].totales] = [o \in Offers |-> 0]  BY DEF Init
<1> QED  BY <1>1, <1>2, <1>3 DEF Sale!Init

LEMMA StepRefines ==
  TypeOK /\ TypeOK' /\ SeatInv /\ [Next]_vars => [Sale!Next]_(Sale!vars)
<1> SUFFICES ASSUME TypeOK, TypeOK', SeatInv, [Next]_vars
             PROVE  [Sale!Next]_(Sale!vars)
  OBVIOUS
<1> DEFINE phase == [o \in Offers |-> Phase(o)]
           capacity == [o \in Offers |-> oferta[o].totales]
<1>1. CASE UNCHANGED oferta /\ Confirmed' = Confirmed
  BY <1>1 DEF Sale!vars, Phase
<1>2. ASSUME Confirmed' = Confirmed, NEW o \in Offers, Edit(o)
      PROVE  [Sale!Next]_(Sale!vars)
  <2>1. \A p \in Offers : oferta'[p].estado = oferta[p].estado
    <3>1. CASE \E n \in 1..MaxAsientos :
                 oferta' = [oferta EXCEPT ![o].totales = n, ![o].disponibles = n]
      BY <3>1 DEF TypeOK
    <3>2. CASE \E m \in Modos : oferta' = [oferta EXCEPT ![o].modo = m]
      BY <3>2 DEF TypeOK
    <3> QED  BY <1>2, <3>1, <3>2 DEF Edit
  <2>2. phase' = phase  BY <2>1 DEF Phase
  <2>3. phase[o] = "open"
    BY <1>2 DEF Edit, EditableStates, Phase
  <2>4. Sale!SeatsOf(o, Confirmed) = {}
    BY <1>2 DEF Edit, EditableStates, SeatInv, Taken
  <2>5. CASE \E n \in 1..MaxAsientos :
               oferta' = [oferta EXCEPT ![o].totales = n, ![o].disponibles = n]
    <3> PICK n \in 1..MaxAsientos :
               oferta' = [oferta EXCEPT ![o].totales = n, ![o].disponibles = n]
      BY <2>5
    <3>1. capacity' = [capacity EXCEPT ![o] = n]  BY DEF TypeOK
    <3>2. Sale!Resize(o, n)
      BY <1>2, <2>2, <2>3, <2>4, <3>1 DEF Sale!Resize
    <3> QED  BY <3>2 DEF Sale!Next
  <2>6. CASE \E m \in Modos : oferta' = [oferta EXCEPT ![o].modo = m]
    <3>1. capacity' = capacity  BY <2>6 DEF TypeOK
    <3> QED  BY <1>2, <2>2, <3>1 DEF Sale!vars
  <2> QED  BY <1>2, <2>5, <2>6 DEF Edit
<1>3. ASSUME Confirmed' = Confirmed, NEW o \in Offers, CancelOffer(o)
      PROVE  [Sale!Next]_(Sale!vars)
  <2>1. phase[o] = "open"  BY <1>3 DEF CancelOffer, Phase
  <2>2. phase' = [phase EXCEPT ![o] = "closed"]
    BY <1>3 DEF CancelOffer, Phase, TypeOK
  <2>3. capacity' = capacity  BY <1>3 DEF CancelOffer, TypeOK
  <2>4. Sale!Close(o)  BY <1>3, <2>1, <2>2, <2>3 DEF Sale!Close
  <2> QED  BY <2>4 DEF Sale!Next
<1>4. ASSUME Confirmed' = Confirmed, NEW o \in Offers, NEW n \in 1..MaxAsientos,
             NEW m \in Modos, Publish(o, n, m)
      PROVE  [Sale!Next]_(Sale!vars)
  <2>1. phase[o] = "unopened"  BY <1>4 DEF Publish, Phase
  <2>2. phase' = [phase EXCEPT ![o] = "open"]
    BY <1>4 DEF Publish, Phase, TypeOK
  <2>3. capacity' = [capacity EXCEPT ![o] = n]  BY <1>4 DEF Publish, TypeOK
  <2>4. Sale!Open(o, n)  BY <1>4, <2>1, <2>2, <2>3 DEF Sale!Open
  <2> QED  BY <2>4 DEF Sale!Next
<1>5. ASSUME NEW b \in Bookings, ConfirmSeats(b)  PROVE [Sale!Next]_(Sale!vars)
  <2> DEFINE o == OfferOf[b]
             left == oferta[o].disponibles - AsientosOf[b]
  <2>1. /\ o \in Offers /\ left \in Nat
        /\ oferta[o].estado \in {"PUBLICADO", "PARCIALMENTE_RESERVADO", "LLENO"}
    BY <1>5, BookingAssumption DEF ConfirmSeats, HayCupo, IsReservable, TypeOK
  <2>2. /\ oferta'[o].totales = oferta[o].totales
        /\ oferta'[o].estado = OfferStateAfter(oferta[o].estado, left)
        /\ \A p \in Offers \ {o} : oferta'[p] = oferta[p]
    BY <1>5, <2>1 DEF ConfirmSeats, TypeOK
  <2>3. oferta'[o].estado \in {"PUBLICADO", "PARCIALMENTE_RESERVADO", "LLENO"}
    BY <2>1, <2>2 DEF OfferStateAfter
  <2>4. phase' = phase  BY <2>1, <2>2, <2>3 DEF Phase
  <2>5. capacity' = capacity  BY <2>2
  <2>6. phase[o] = "open"  BY <2>1 DEF Phase
  <2>7. b \notin Confirmed /\ Confirmed' = Confirmed \cup {b}
    BY <1>5, ConfirmShape
  <2>8. Cardinality(Sale!SeatsOf(o, Confirmed)) + AsientosOf[b] <= capacity[o]
    <3>1. /\ Cardinality(Taken(o)) \in Nat /\ AsientosOf[b] \in Nat
          /\ oferta[o].disponibles \in Nat
          /\ oferta[o].disponibles + Cardinality(Taken(o)) = oferta[o].totales
      BY <2>1, FS_CardinalityType, BookingAssumption DEF SeatInv, TypeOK
    <3> QED  BY <2>1, <3>1 DEF Taken
  <2>9. Sale!Sell(b)
    BY <2>4, <2>5, <2>6, <2>7, <2>8, SameCardinality DEF Sale!Sell
  <2> QED  BY <2>9 DEF Sale!Next
<1> QED  BY <1>1, <1>2, <1>3, <1>4, <1>5, StepShape

\* booking-service implements the sale of seats.
THEOREM RefinesSeatSale == Spec => SellsOnlyFreeSeats
BY InitRefines, StepRefines, TypeCorrect, SeatInvInvariant, PTL
DEF Spec, SellsOnlyFreeSeats, Sale!Spec

-----------------------------------------------------------------------------
(* The events.                                                              *)

\* Each transition of a row, with its event, leads from the histories of one state
\* to those of the other.
LEMMA HistoriesGrow ==
  /\ Append(<<>>, "approved") \in Histories("APROBADO")
  /\ Append(<<>>, "requested") \in Histories("PENDIENTE_APROBACION")
  /\ \A s \in Histories("SOLICITADO") : s = <<>>
  /\ \A s \in Histories("PENDIENTE_APROBACION") :
       /\ Append(s, "approved") \in Histories("APROBADO")
       /\ Append(s, "rejected") \in Histories("RECHAZADO")
       /\ Append(s, "CANCELADO_PASAJERO") \in Histories("CANCELADO")
  /\ \A s \in Histories("APROBADO") :
       /\ s \in Histories("COBRO_PENDIENTE")
       /\ Append(s, "COBRO_RECHAZADO") \in Histories("CANCELADO")
  /\ \A s \in Histories("COBRO_PENDIENTE") :
       /\ Append(s, "confirmed") \in Histories("CONFIRMADO")
       /\ \A r \in {"COBRO_FALLIDO", "ASIENTO_LLENO", "OFERTA_NO_DISPONIBLE"} :
            Append(s, r) \in Histories("CANCELADO")
<1>1. Append(<<>>, "approved") = <<"approved">> /\ Append(<<>>, "requested") = <<"requested">>
  OBVIOUS
<1>2. /\ Append(<<"requested">>, "approved") = <<"requested", "approved">>
      /\ Append(<<"requested">>, "rejected") = <<"requested", "rejected">>
      /\ Append(<<"requested">>, "CANCELADO_PASAJERO") = <<"requested", "CANCELADO_PASAJERO">>
  <2>1. ASSUME NEW x, NEW y PROVE Append(<<x>>, y) = <<x, y>>
    <3> DEFINE s == Append(<<x>>, y)
               u == <<x, y>>
    <3>1. <<x>> \in Seq({x, y}) /\ Len(<<x>>) = 1
      OBVIOUS
    <3>2. s \in Seq({x, y}) /\ Len(s) = 2 /\ s[1] = x /\ s[2] = y
      BY <3>1, AppendProperties
    <3>3. u \in Seq({x, y}) /\ Len(u) = 2 /\ u[1] = x /\ u[2] = y
      OBVIOUS
    <3> HIDE DEF s, u
    <3>4. s = u
      BY <3>2, <3>3, SeqEqual
    <3> QED BY <3>4 DEF s, u
  <2> QED BY <2>1
<1>3. /\ Histories("SOLICITADO") = {<<>>}
      /\ Histories("PENDIENTE_APROBACION") = {<<"requested">>}
      /\ Histories("APROBADO") = Beginnings /\ Histories("COBRO_PENDIENTE") = Beginnings
      /\ Histories("RECHAZADO") = {<<"requested", "rejected">>}
  BY DEF Histories
<1>4. \A s \in Beginnings : Append(s, "confirmed") \in Histories("CONFIRMADO")
  BY DEF Histories
<1>5. /\ \A s \in Beginnings, r \in Razones \ {"CANCELADO_PASAJERO"} :
           Append(s, r) \in Histories("CANCELADO")
      /\ <<"requested", "CANCELADO_PASAJERO">> \in Histories("CANCELADO")
  BY DEF Histories
<1>6. {"COBRO_RECHAZADO", "COBRO_FALLIDO", "ASIENTO_LLENO", "OFERTA_NO_DISPONIBLE"}
        \subseteq Razones \ {"CANCELADO_PASAJERO"}
  BY DEF Razones
<1>7. <<"approved">> \in Beginnings /\ <<"requested", "approved">> \in Beginnings
  BY DEF Beginnings
<1> QED BY <1>1, <1>2, <1>3, <1>4, <1>5, <1>6, <1>7

LEMMA TellsOn ==
  ASSUME TypeOK, EventsTellTheState, NEW b \in Bookings, NEW from, NEW to, NEW e,
         Transition(b, from, to, e),
         \A s \in Histories(from) : Append(s, e) \in Histories(to)
  PROVE  EventsTellTheState'
<1>1. outbox[b] \in Histories(from)
  BY DEF EventsTellTheState, Transition
<1>2. \A c \in Bookings : /\ reserva'[c] = IF c = b THEN to ELSE reserva[c]
                          /\ outbox'[c] = IF c = b THEN Append(outbox[b], e) ELSE outbox[c]
  BY DEF TypeOK, Transition
<1> QED BY <1>1, <1>2 DEF EventsTellTheState

LEMMA TellsStill ==
  ASSUME EventsTellTheState, UNCHANGED <<reserva, outbox>> PROVE EventsTellTheState'
BY DEF EventsTellTheState

LEMMA EventsStep ==
  ASSUME TypeOK, EventsTellTheState, [Next]_vars PROVE EventsTellTheState'
<1>h. \A s \in Histories("SOLICITADO") :
        /\ Append(s, "approved") \in Histories("APROBADO")
        /\ Append(s, "requested") \in Histories("PENDIENTE_APROBACION")
  BY HistoriesGrow
<1>1. CASE UNCHANGED <<reserva, outbox>>
  BY <1>1, TellsStill
<1>2. ASSUME NEW b \in Bookings, Reject(b) PROVE EventsTellTheState'
  BY <1>2, HistoriesGrow, TellsOn DEF Reject
<1>3. ASSUME NEW b \in Bookings, CancelBooking(b) PROVE EventsTellTheState'
  BY <1>3, HistoriesGrow, TellsOn DEF CancelBooking
<1>4. ASSUME NEW w \in Handlers, NEW b \in Bookings, Approve(w, b) PROVE EventsTellTheState'
  BY <1>4, HistoriesGrow, TellsOn, TellsStill DEF Approve
<1>5. ASSUME NEW w \in Handlers, CreateBooking(w) PROVE EventsTellTheState'
  <2> DEFINE b == handler[w].booking
  <2>1. b \in Bookings /\ handler[w].nace \in {"APROBADO", "PENDIENTE_APROBACION"}
    BY <1>5, HandlerBooking DEF CreateBooking
  <2>2. CASE UNCHANGED <<reserva, outbox>>
    BY <2>2, TellsStill
  <2>3. CASE Transition(b, "SOLICITADO", "APROBADO", "approved")
    BY <2>1, <2>3, <1>h, TellsOn
  <2>4. CASE Transition(b, "SOLICITADO", "PENDIENTE_APROBACION", "requested")
    BY <2>1, <2>4, <1>h, TellsOn
  <2> QED BY <1>5, <2>1, <2>2, <2>3, <2>4 DEF CreateBooking
<1>6. ASSUME NEW w \in Handlers, RecordAnswer(w) PROVE EventsTellTheState'
  <2> DEFINE b == handler[w].booking
  <2>1. b \in Bookings
    BY <1>6, HandlerBooking DEF RecordAnswer
  <2>2. CASE UNCHANGED <<reserva, outbox>>
    BY <2>2, TellsStill
  <2>3. CASE MarkChargePending(b)
    <3>1. \A c \in Bookings : reserva'[c] = IF c = b THEN "COBRO_PENDIENTE" ELSE reserva[c]
      BY <2>3 DEF MarkChargePending, TypeOK
    <3> QED BY <2>3, <3>1, HistoriesGrow DEF MarkChargePending, EventsTellTheState
  <2>4. CASE CancelForChargeRejected(b)
    BY <2>1, <2>4, HistoriesGrow, TellsOn DEF CancelForChargeRejected
  <2> QED BY <1>6, <2>2, <2>3, <2>4 DEF RecordAnswer
<1>7. ASSUME NEW b \in Bookings, ConfirmCapture(b) PROVE EventsTellTheState'
  BY <1>7, HistoriesGrow, TellsOn
     DEF ConfirmCapture, ConfirmSeats, CancelUnavailable, CancelSeatFull
<1>8. ASSUME NEW b \in Bookings, PaymentFailed(b) PROVE EventsTellTheState'
  BY <1>8, HistoriesGrow, TellsOn DEF PaymentFailed
<1> QED BY <1>1, <1>2, <1>3, <1>4, <1>5, <1>6, <1>7, <1>8
        DEF Next, Own, Edit, CancelOffer, Publish, ReadOffer, CrashHandler, ChargeAnswered, vars

\* The events of a booking tell its fate, for any number of bookings, requests and
\* captures that race.
THEOREM EventsAlwaysTell == Spec => []EventsTellTheState
<1>1. Init => EventsTellTheState
  BY DEF Init, EventsTellTheState, Histories
<1>2. TypeOK /\ EventsTellTheState /\ [Next]_vars => EventsTellTheState'
  BY EventsStep
<1> QED BY <1>1, <1>2, TypeCorrect, PTL DEF Spec
=============================================================================
