------------------------------ MODULE SeatSale ------------------------------
(***************************************************************************)
(* What the carpooling side of booking-service promises about seats: an    *)
(* offer is opened once with a number of seats, a booking is sold at most   *)
(* once and only while the offer is open and has that many seats left, the  *)
(* number of seats changes only while nobody has bought one, and a closed   *)
(* offer sells nothing more.  How the service gets there (an approval, a    *)
(* charge, an asynchronous capture) is not said here: see Booking.          *)
(***************************************************************************)
EXTENDS Naturals, FiniteSets

CONSTANTS Bookings,   \* requests for seats
          Offers,     \* offers of a driver
          OfferOf,    \* the offer a booking asks seats of
          AsientosOf, \* how many seats it asks for
          MaxAsientos \* the most seats an offer has

VARIABLES phase,      \* offer -> "unopened", "open" or "closed"
          capacity,   \* offer -> seats it offers in all
          sold        \* the bookings that hold their seats

vars == <<phase, capacity, sold>>

\* The seats of offer o that the bookings in S hold, one pair per seat.
SeatsOf(o, S) ==
  UNION {{b} \X (1..AsientosOf[b]) : b \in {c \in S : OfferOf[c] = o}}

Init ==
  /\ phase = [o \in Offers |-> "unopened"]
  /\ capacity = [o \in Offers |-> 0]
  /\ sold = {}

Open(o, n) ==
  /\ phase[o] = "unopened"
  /\ phase' = [phase EXCEPT ![o] = "open"]
  /\ capacity' = [capacity EXCEPT ![o] = n]
  /\ UNCHANGED sold

Resize(o, n) ==
  /\ phase[o] = "open"
  /\ SeatsOf(o, sold) = {}
  /\ capacity' = [capacity EXCEPT ![o] = n]
  /\ UNCHANGED <<phase, sold>>

Close(o) ==
  /\ phase[o] = "open"
  /\ phase' = [phase EXCEPT ![o] = "closed"]
  /\ UNCHANGED <<capacity, sold>>

Sell(b) ==
  LET o == OfferOf[b] IN
  /\ phase[o] = "open"
  /\ b \notin sold
  /\ Cardinality(SeatsOf(o, sold)) + AsientosOf[b] <= capacity[o]
  /\ sold' = sold \cup {b}
  /\ UNCHANGED <<phase, capacity>>

Next ==
  \/ \E o \in Offers : Close(o) \/ \E n \in 1..MaxAsientos : Open(o, n) \/ Resize(o, n)
  \/ \E b \in Bookings : Sell(b)

Spec == Init /\ [][Next]_vars
=============================================================================
