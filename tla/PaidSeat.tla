------------------------------ MODULE PaidSeat ------------------------------
(***************************************************************************)
(* What carpooling promises about a seat and its money, whichever of its   *)
(* two services does it: SeatSale, and a seat goes only to who has paid;   *)
(* who has paid is turned away only for want of an open offer with room;   *)
(* and only who was turned away gets the money back, once.  How they get   *)
(* there (approvals, a charge that is answered late or twice, a replica    *)
(* that lags, events that repeat) is not said here: see Carpool.           *)
(***************************************************************************)
EXTENDS SeatSale

VARIABLES paid,        \* the bookings whose fare was captured
          turnedAway,  \* those that paid and were refused the seat
          refund       \* booking -> its refund

money == <<paid, turnedAway, refund>>
dealVars == <<vars, money>>

DealInit ==
  /\ Init
  /\ paid = {}
  /\ turnedAway = {}
  /\ refund = [b \in Bookings |-> "ninguna"]

\* The driver opens, resizes and closes offers.
OfferMoves ==
  /\ \E o \in Offers : Close(o) \/ \E n \in 1..MaxAsientos : Open(o, n) \/ Resize(o, n)
  /\ UNCHANGED money

Pay(b) ==
  /\ b \notin paid
  /\ paid' = paid \cup {b}
  /\ UNCHANGED <<vars, turnedAway, refund>>

Seat(b) ==
  /\ b \in paid \ turnedAway
  /\ Sell(b)
  /\ UNCHANGED money

Room(b) ==
  LET o == OfferOf[b] IN
  /\ phase[o] = "open"
  /\ Cardinality(SeatsOf(o, sold)) + AsientosOf[b] <= capacity[o]

TurnAway(b) ==
  /\ b \in paid \ (sold \cup turnedAway)
  /\ ~Room(b)
  /\ turnedAway' = turnedAway \cup {b}
  /\ UNCHANGED <<vars, paid, refund>>

\* A rejected refund may be tried again, one that was made is the last.
AskRefund(b) ==
  /\ b \in turnedAway
  /\ refund[b] \in {"ninguna", "rechazada"}
  /\ refund' = [refund EXCEPT ![b] = "en_curso"]
  /\ UNCHANGED <<vars, paid, turnedAway>>

EndRefund(b, fate) ==
  /\ refund[b] = "en_curso"
  /\ refund' = [refund EXCEPT ![b] = fate]
  /\ UNCHANGED <<vars, paid, turnedAway>>

DealNext ==
  \/ OfferMoves
  \/ \E b \in Bookings :
       \/ Pay(b) \/ Seat(b) \/ TurnAway(b) \/ AskRefund(b)
       \/ \E fate \in {"hecha", "rechazada"} : EndRefund(b, fate)

DealSpec == DealInit /\ [][DealNext]_dealVars
=============================================================================
