-------------------------- MODULE MatchingContract --------------------------
(***************************************************************************)
(* What the search of a driver promises about one trip: an offer is         *)
(* answered once; one offer at most is accepted, and the trip hears of that  *)
(* one; an offer whose withdrawal is told was not the one taken (the event   *)
(* names its driver, who may have had another); and the trip hears at most   *)
(* once for each opening of the search that nobody was left.  Who searches,  *)
(* and in what order, is not seen here.                                      *)
(***************************************************************************)
EXTENDS Integers

CONSTANTS Offers, Openings

VARIABLES outcome,    \* offer -> its outcome, "none" before it is made
          matched,    \* the offers match_found was enqueued for
          withdrawn,  \* the offers offer_withdrawn was enqueued for
          noOffers    \* opening -> how often no_offers was enqueued

cvars == <<outcome, matched, withdrawn, noOffers>>

Init ==
  /\ outcome = [o \in Offers |-> "none"]
  /\ matched = {} /\ withdrawn = {}
  /\ noOffers = [r \in Openings |-> 0]

MakeOffer(o) ==
  /\ outcome[o] = "none"
  /\ outcome' = [outcome EXCEPT ![o] = "OFFERED"]
  /\ UNCHANGED <<matched, withdrawn, noOffers>>

Accept(o) ==
  /\ outcome[o] = "OFFERED"
  /\ \A q \in Offers : outcome[q] # "ACCEPTED"
  /\ outcome' = [outcome EXCEPT ![o] = "ACCEPTED"]
  /\ matched' = {o}
  /\ UNCHANGED <<withdrawn, noOffers>>

\* The driver says no, or says nothing.
Lapse(o) ==
  /\ outcome[o] = "OFFERED"
  /\ \E to \in {"REJECTED", "TIMEOUT"} : outcome' = [outcome EXCEPT ![o] = to]
  /\ UNCHANGED <<matched, withdrawn, noOffers>>

\* Somebody else has the trip, or nobody wants it any more.
Withdraw(to) ==
  /\ withdrawn \subseteq withdrawn'
  /\ LET W == withdrawn' \ withdrawn IN
     /\ W \subseteq Offers /\ \A o \in W : outcome[o] = "OFFERED"
     /\ outcome' = [o \in Offers |-> IF o \in W THEN to ELSE outcome[o]]
  /\ UNCHANGED <<matched, noOffers>>

GiveUp(r) ==
  /\ noOffers[r] = 0
  /\ noOffers' = [noOffers EXCEPT ![r] = 1]
  /\ UNCHANGED <<outcome, matched, withdrawn>>

Next ==
  \/ \E o \in Offers : MakeOffer(o) \/ Accept(o) \/ Lapse(o)
  \/ \E to \in {"TIMEOUT", "WITHDRAWN"} : Withdraw(to)
  \/ \E r \in Openings : GiveUp(r)

Spec == Init /\ [][Next]_cvars
=============================================================================
