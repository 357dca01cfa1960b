---------------------------- MODULE RideContract ----------------------------
(***************************************************************************)
(* What trip-service and dispatch-service together promise about a ride     *)
(* whose price is negotiated: there is one deal at most in the life of a    *)
(* trip, at no less than a bid of its cycle; whoever drives the trip is the *)
(* driver of the deal; a price is agreed on by the deal alone, and in its   *)
(* cycle; and the fare falls only with another bid.  Boards, offers, claims *)
(* and the logs between the two services are not seen here.                 *)
(***************************************************************************)
EXTENDS Integers

CONSTANTS Trips, Drivers,
          None,    \* no driver
          Unset    \* no price

VARIABLES bids,     \* trip -> the bids made, each with its cycle
          cycle,    \* trip -> the cycle it is in
          fare,     \* trip -> what the passenger is to pay
          agreed,   \* trip -> the price agreed on in this cycle
          driver,   \* trip -> who drives
          deals     \* trip -> who took it, in which cycle and for how much

cvars == <<bids, cycle, fare, agreed, driver, deals>>

Init ==
  /\ bids = [t \in Trips |-> {}]
  /\ cycle = [t \in Trips |-> 0]
  /\ fare = [t \in Trips |-> Unset]
  /\ agreed = [t \in Trips |-> Unset]
  /\ driver = [t \in Trips |-> None]
  /\ deals = [t \in Trips |-> {}]

\* A cycle begins with a bid, without a driver and without an agreement.
Bid(t) ==
  /\ \E b \in bids'[t] :
       /\ bids' = [bids EXCEPT ![t] = @ \cup {b}]
       /\ cycle' = [cycle EXCEPT ![t] = b.cycle]
       /\ fare' \in {fare, [fare EXCEPT ![t] = b.cents]}
  /\ agreed' = [agreed EXCEPT ![t] = Unset]
  /\ driver' = [driver EXCEPT ![t] = None]
  /\ UNCHANGED deals

Deal(t) ==
  /\ deals[t] = {}
  /\ \E deal \in deals'[t] :
       /\ deal.driver \in Drivers
       /\ \E b \in bids[t] : b.cycle = deal.cycle /\ b.cents <= deal.price
       /\ deals' = [deals EXCEPT ![t] = {deal}]
  /\ UNCHANGED <<bids, cycle, fare, agreed, driver>>

Agree(t) ==
  /\ agreed[t] = Unset
  /\ \E deal \in deals[t] :
       /\ deal.cycle = cycle[t]
       /\ agreed' = [agreed EXCEPT ![t] = deal.price]
       /\ fare' = [fare EXCEPT ![t] = deal.price]
  /\ UNCHANGED <<bids, cycle, driver, deals>>

Assign(t) ==
  /\ \E deal \in deals[t] : driver' = [driver EXCEPT ![t] = deal.driver]
  /\ UNCHANGED <<bids, cycle, fare, agreed, deals>>

Leave(t) ==
  /\ driver' = [driver EXCEPT ![t] = None]
  /\ UNCHANGED <<bids, cycle, fare, agreed, deals>>

Raise(t) ==
  /\ fare'[t] > fare[t]
  /\ fare' = [fare EXCEPT ![t] = fare'[t]]
  /\ UNCHANGED <<bids, cycle, agreed, driver, deals>>

Next ==
  \E t \in Trips : Leave(t) \/ Raise(t) \/ Assign(t) \/ Deal(t) \/ Agree(t) \/ Bid(t)

Spec == Init /\ [][Next]_cvars

\* Nobody drives, and nothing is agreed on, but by the deal; what is to be paid is
\* no less than what was agreed on.
KeptDeal ==
  \A t \in Trips :
    /\ driver[t] # None => \E deal \in deals[t] : deal.driver = driver[t]
    /\ agreed[t] # Unset => /\ agreed[t] <= fare[t]
                            /\ \E deal \in deals[t] : /\ deal.cycle = cycle[t]
                                                      /\ deal.price = agreed[t]
=============================================================================
