------------------------------- MODULE Trip -------------------------------
(***************************************************************************)
(* trip-service: the row of a trip and its state machine (BR-T02), for a    *)
(* trip requested now, of mode PUJA.  A transition is a compare-and-set on  *)
(* the status, in a transaction that also writes the event; what an         *)
(* operation read before its transaction matters in two of them, the        *)
(* departure of the driver and the rebid, which are two steps here.         *)
(***************************************************************************)
EXTENDS Puja

CONSTANTS MaxReassign,   \* TRIP_MAX_REASSIGN
          Leavers,       \* cancellations of drivers, driver.went_offline
          Devices        \* requests of rebid by the passenger

ASSUME TripAssumption == MaxReassign \in Nat

VARIABLES trip,       \* trip -> its row
          tripLog,    \* trip -> the events dispatch consumes
          leaving,    \* leaver -> what it read of a row
          rebidding   \* device -> what it read of a row

tripVars == <<trip, tripLog, leaving, rebidding>>

Transitions ==
  [none        |-> {},
   REQUESTED   |-> {"ASSIGNED", "CANCELLED_BY_PASSENGER", "EXPIRED", "FAILED"},
   ASSIGNED    |-> {"ACCEPTED", "CANCELLED_BY_PASSENGER", "CANCELLED_BY_DRIVER",
                    "EXPIRED", "FAILED"},
   ACCEPTED    |-> {"ARRIVING", "CANCELLED_BY_PASSENGER", "REASSIGNING", "FAILED"},
   ARRIVING    |-> {"ARRIVED", "CANCELLED_BY_PASSENGER", "REASSIGNING", "FAILED"},
   ARRIVED     |-> {"IN_PROGRESS", "CANCELLED_BY_PASSENGER", "REASSIGNING", "FAILED"},
   IN_PROGRESS |-> {"COMPLETED", "FAILED"},
   REASSIGNING |-> {"REQUESTED", "ASSIGNED", "EXPIRED", "CANCELLED_BY_PASSENGER",
                    "FAILED"},
   COMPLETED   |-> {},
   CANCELLED_BY_PASSENGER |-> {},
   CANCELLED_BY_DRIVER    |-> {},
   EXPIRED     |-> {"REQUESTED"},
   FAILED      |-> {}]

Statuses == DOMAIN Transitions
TransitionSources(to) == {s \in Statuses : to \in Transitions[s]}
Terminal == {s \in Statuses \ {"none"} : Transitions[s] = {}}

PostAccept == {"ACCEPTED", "ARRIVING", "ARRIVED"}
DestinationEditable == {"REQUESTED", "ASSIGNED"} \cup PostAccept
FareApplicable == DestinationEditable \cup {"IN_PROGRESS"}
BidOpen == {"REQUESTED", "REASSIGNING"}
Rebiddable == {"REASSIGNING", "EXPIRED"}

Rows == [status : Statuses, driver : SomeDriver, fare : Prices, agreed : Prices,
         seq : Seqs, reassigns : 0..MaxReassign + 1]

Nowhere == [status |-> "none", driver |-> None, fare |-> Unset, agreed |-> Unset,
            seq |-> 0, reassigns |-> 0]

\* What a departure and a rebid keep of the row they read.
Departures == [trip : Trips, driver : SomeDriver, fare : Prices, seq : Seqs,
               reassigns : 0..MaxReassign + 1]
Rebids == [trip : Trips, status : Rebiddable, seq : Seqs]

TripTypeOK ==
  /\ trip \in [Trips -> Rows]
  /\ tripLog \in [Trips -> Seq(TripEvents)]
  /\ leaving \in [Leavers -> Departures \cup {None}]
  /\ rebidding \in [Devices -> Rebids \cup {None}]

TripInit ==
  /\ trip = [t \in Trips |-> Nowhere]
  /\ tripLog = [t \in Trips |-> <<>>]
  /\ leaving = [l \in Leavers |-> None]
  /\ rebidding = [v \in Devices |-> None]

-----------------------------------------------------------------------------
Write(t, row) == trip' = [trip EXCEPT ![t] = row]
Tell(t, e) == tripLog' = [tripLog EXCEPT ![t] = Append(@, e)]

\* casMoveStatus.
Cas(t, to) ==
  /\ trip[t].status \in TransitionSources(to)
  /\ Write(t, [trip[t] EXCEPT !.status = to])

CreateTrip(t, bid) ==
  /\ trip[t].status = "none"
  /\ Write(t, [Nowhere EXCEPT !.status = "REQUESTED", !.fare = bid, !.seq = 1])
  /\ Tell(t, Opening("bid_posted", bid, 1, None))
  /\ UNCHANGED <<leaving, rebidding>>

\* accept, arriving, arrived, start.
Advance(t, to) ==
  /\ Cas(t, to)
  /\ UNCHANGED <<tripLog, leaving, rebidding>>

Complete(t) ==
  /\ Cas(t, "COMPLETED")
  /\ Tell(t, TripEvent("completed"))
  /\ UNCHANGED <<leaving, rebidding>>

\* cancel: the passenger, or the driver who has not accepted yet.
Cancel(t, to) ==
  /\ Cas(t, to)
  /\ Tell(t, TripEvent("cancelled"))
  /\ UNCHANGED <<leaving, rebidding>>

\* In a negotiated trip another destination may raise the fare, never lower it.
ChangeDestination(t, fare) ==
  /\ trip[t].status \in DestinationEditable
  /\ fare > trip[t].fare
  /\ Write(t, [trip[t] EXCEPT !.fare = fare])
  /\ UNCHANGED <<tripLog, leaving, rebidding>>

\* A trip that stands still: EXPIRED with no driver committed, FAILED with one.
StalledTarget(status) ==
  IF status \in PostAccept \cup {"IN_PROGRESS"} THEN "FAILED" ELSE "EXPIRED"

Watchdog(t) ==
  /\ trip[t].status \in BidOpen \cup FareApplicable
  /\ LET target == StalledTarget(trip[t].status) IN
     /\ Write(t, [trip[t] EXCEPT !.status = target])
     /\ Tell(t, TripEvent(IF target = "FAILED" THEN "failed" ELSE "expired"))
  /\ UNCHANGED <<leaving, rebidding>>

-----------------------------------------------------------------------------
(* The driver leaves after accepting: the trip is read, then reassigned.     *)

ReadToLeave(l, t) ==
  /\ leaving[l] = None
  /\ trip[t].status \in PostAccept
  /\ trip[t].seq < MaxSeq \/ trip[t].reassigns = MaxReassign
  /\ leaving' = [leaving EXCEPT ![l] =
       [trip |-> t, driver |-> trip[t].driver, fare |-> trip[t].fare,
        seq |-> trip[t].seq, reassigns |-> trip[t].reassigns]]
  /\ UNCHANGED <<trip, tripLog, rebidding>>

\* The update names the row by its id alone.
Reassign(t, read) ==
  /\ Write(t, [trip[t] EXCEPT !.status = "REASSIGNING", !.driver = None,
                              !.agreed = Unset, !.seq = read.seq + 1,
                              !.reassigns = read.reassigns + 1])
  /\ Tell(t, Opening("reassigning", read.fare, read.seq + 1, read.driver))

FailAfterTooManyReassigns(t, read) ==
  \/ /\ trip[t].status \in TransitionSources("FAILED")
     /\ Write(t, [trip[t] EXCEPT !.status = "FAILED", !.driver = None,
                                 !.reassigns = read.reassigns + 1])
     /\ Tell(t, TripEvent("failed"))
  \/ /\ trip[t].status \notin TransitionSources("FAILED")
     /\ UNCHANGED <<trip, tripLog>>

\* Mutant: no limit to the reassignments of a trip.
LeavesForever(l) ==
  /\ leaving[l] # None
  /\ Reassign(leaving[l].trip, leaving[l])
  /\ leaving' = [leaving EXCEPT ![l] = None]
  /\ UNCHANGED rebidding

Leave(l) ==
  /\ leaving[l] # None
  /\ LET t == leaving[l].trip
         read == leaving[l] IN
     IF read.reassigns + 1 > MaxReassign
     THEN FailAfterTooManyReassigns(t, read)
     ELSE Reassign(t, read)
  /\ leaving' = [leaving EXCEPT ![l] = None]
  /\ UNCHANGED rebidding

-----------------------------------------------------------------------------
(* The passenger bids again.                                                 *)

ReadToRebid(v, t) ==
  /\ rebidding[v] = None
  /\ trip[t].status \in Rebiddable
  /\ trip[t].seq < MaxSeq
  /\ rebidding' = [rebidding EXCEPT ![v] =
       [trip |-> t, status |-> trip[t].status, seq |-> trip[t].seq]]
  /\ UNCHANGED <<trip, tripLog, leaving>>

\* casGuardedUpdate on the status that was read; the cycle is that read plus one.
Rebid(v, bid) ==
  /\ rebidding[v] # None
  /\ LET t == rebidding[v].trip
         read == rebidding[v] IN
     \/ /\ trip[t].status = read.status
        /\ Write(t, [trip[t] EXCEPT !.status = "REQUESTED", !.fare = bid,
                                    !.driver = None, !.agreed = Unset,
                                    !.reassigns = 0, !.seq = read.seq + 1])
        /\ Tell(t, Opening("bid_posted", bid, read.seq + 1, None))
     \/ /\ trip[t].status # read.status
        /\ UNCHANGED <<trip, tripLog>>
  /\ rebidding' = [rebidding EXCEPT ![v] = None]
  /\ UNCHANGED leaving

-----------------------------------------------------------------------------
(* What trip does on the events of the board.                                *)

AssignFromDispatch(t, d) ==
  /\ \/ trip[t].status \in TransitionSources("ASSIGNED")
        /\ Write(t, [trip[t] EXCEPT !.status = "ASSIGNED", !.driver = d])
     \/ trip[t].status \notin TransitionSources("ASSIGNED")
        /\ UNCHANGED trip
  /\ UNCHANGED <<tripLog, leaving, rebidding>>

\* Mutant: a repeated agreement is written again.
AgreesAgain(t, price, seq) ==
  trip[t].seq = seq /\ trip[t].status \in FareApplicable

Agrees(t, price, seq) ==
  /\ trip[t].seq = seq
  /\ trip[t].agreed = Unset
  /\ trip[t].status \in FareApplicable

ApplyAgreedFare(t, price, seq) ==
  /\ \/ Agrees(t, price, seq)
        /\ Write(t, [trip[t] EXCEPT !.fare = price, !.agreed = price])
     \/ ~Agrees(t, price, seq)
        /\ UNCHANGED trip
  /\ UNCHANGED <<tripLog, leaving, rebidding>>

\* expireFromNoOffers, cancelFromBid: only a bid that is open.
CloseBid(t, to, type) ==
  /\ \/ trip[t].status \in BidOpen
        /\ Write(t, [trip[t] EXCEPT !.status = to])
        /\ Tell(t, TripEvent(type))
     \/ trip[t].status \notin BidOpen
        /\ UNCHANGED <<trip, tripLog>>
  /\ UNCHANGED <<leaving, rebidding>>

TripStep(t) ==
  \/ \E bid \in Cents : CreateTrip(t, bid)
  \/ \E to \in PostAccept \cup {"IN_PROGRESS"} : Advance(t, to)
  \/ Complete(t)
  \/ \E to \in {"CANCELLED_BY_PASSENGER", "CANCELLED_BY_DRIVER"} : Cancel(t, to)
  \/ \E fare \in Cents : ChangeDestination(t, fare)
  \/ Watchdog(t)
  \/ \E l \in Leavers : ReadToLeave(l, t)
  \/ \E v \in Devices : ReadToRebid(v, t)

TripNext ==
  \/ \E t \in Trips : TripStep(t)
  \/ \E l \in Leavers : Leave(l)
  \/ \E v \in Devices : \E bid \in Cents : Rebid(v, bid)
=============================================================================
