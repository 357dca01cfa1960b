----------------------------- MODULE Ride_proofs -----------------------------
(***************************************************************************)
(* Proofs about Ride, for any trips, drivers, calls and bounds.  The driver *)
(* of a trip is the one of its match because every match_found in the log   *)
(* names him and no match is ever replaced; a board counts as told only     *)
(* after somebody saw its match.  TripInv and BoardInv say so, with what    *)
(* requests, calls and the reconciler hold between two awaits; FareInv adds  *)
(* that a price is carried with a cycle that bid it, DealInv that there is a *)
(* deal only with the match: from these the contract of a ride follows.      *)
(***************************************************************************)
EXTENDS Ride, TLAPS, SequenceTheorems

USE PujaAssumption, TripAssumption, BoardAssumption, RideAssumption

-----------------------------------------------------------------------------
(* trip-service.                                                            *)

\* A trip over the limit has failed; what was read to leave or to bid again
\* leaves room for the next cycle.
Within(row) == row.status # "FAILED" => row.reassigns <= MaxReassign
TripInv ==
  /\ TripTypeOK
  /\ \A t \in Trips : Within(trip[t])
  /\ \A l \in Leavers : leaving[l] # None =>
       /\ leaving[l].reassigns <= MaxReassign
       /\ leaving[l].seq < MaxSeq \/ leaving[l].reassigns = MaxReassign
  /\ \A v \in Devices : rebidding[v] # None => rebidding[v].seq < MaxSeq

\* No step but an assignment gives a trip a driver.
KeepsDriver == \A t \in Trips : trip'[t].driver \in {trip[t].driver, None}

LEMMA StatusNames ==
  /\ Statuses = {"none", "REQUESTED", "ASSIGNED", "ACCEPTED", "ARRIVING", "ARRIVED",
                 "IN_PROGRESS", "REASSIGNING", "COMPLETED", "CANCELLED_BY_PASSENGER",
                 "CANCELLED_BY_DRIVER", "EXPIRED", "FAILED"}
  /\ \A to : "FAILED" \notin TransitionSources(to)
BY DEF Statuses, TransitionSources, Transitions

LEMMA RowWritten ==
  ASSUME TripInv, NEW t \in Trips, NEW row \in Rows, Write(t, row), Within(row),
         row.driver \in {trip[t].driver, None}
  PROVE  /\ trip' \in [Trips -> Rows] /\ \A u \in Trips : Within(trip'[u])
         /\ KeepsDriver
<1>1. trip \in [Trips -> Rows]
  BY DEF TripInv, TripTypeOK
<1>2. \A u \in Trips : trip'[u] = IF u = t THEN row ELSE trip[u]
  BY <1>1 DEF Write
<1> QED BY <1>1, <1>2 DEF Write, TripInv, KeepsDriver

LEMMA Told ==
  ASSUME TripInv, NEW t \in Trips, NEW e \in TripEvents, Tell(t, e)
  PROVE  tripLog' \in [Trips -> Seq(TripEvents)]
<1>1. tripLog \in [Trips -> Seq(TripEvents)]
  BY DEF TripInv, TripTypeOK
<1>2. Append(tripLog[t], e) \in Seq(TripEvents)
  BY <1>1, AppendProperties
<1> QED BY <1>1, <1>2 DEF Tell

LEMMA EventTypes ==
  /\ \A type \in {"cancelled", "expired", "failed", "completed"} : TripEvent(type) \in TripEvents
  /\ \A type \in {"bid_posted", "reassigning"}, bid \in Prices, seq \in Seqs, d \in SomeDriver :
       Opening(type, bid, seq, d) \in TripEvents
BY DEF TripEvent, TripEvents, Opening, Prices, Cents, Seqs, SomeDriver

\* Only the status of a row.
LEMMA StatusWritten ==
  ASSUME TripInv, NEW t \in Trips, NEW to \in Statuses, trip[t].status # "FAILED",
         Write(t, [trip[t] EXCEPT !.status = to])
  PROVE  /\ trip' \in [Trips -> Rows] /\ \A u \in Trips : Within(trip'[u])
         /\ KeepsDriver
<1> DEFINE row == [trip[t] EXCEPT !.status = to]
<1>1. trip[t] \in Rows
  BY DEF TripInv, TripTypeOK
<1>2. row \in Rows /\ row.driver = trip[t].driver /\ row.reassigns = trip[t].reassigns
  BY <1>1 DEF Rows
<1>3. Within(row)
  BY <1>2 DEF TripInv, Within
<1> HIDE DEF row
<1>4. Write(t, row)
  BY DEF row
<1> QED BY <1>2, <1>3, <1>4, RowWritten

LEMMA CasWrites ==
  ASSUME TripInv, NEW t \in Trips, NEW to \in Statuses, Cas(t, to)
  PROVE  /\ trip' \in [Trips -> Rows] /\ \A u \in Trips : Within(trip'[u])
         /\ KeepsDriver
BY StatusNames, StatusWritten DEF Cas

LEMMA TripStepInv ==
  ASSUME TripInv, NEW t \in Trips, TripStep(t)
  PROVE  TripInv' /\ KeepsDriver
<1>t. /\ trip \in [Trips -> Rows] /\ trip[t] \in Rows
      /\ leaving \in [Leavers -> Departures \cup {None}]
      /\ rebidding \in [Devices -> Rebids \cup {None}]
  BY DEF TripInv, TripTypeOK
<1>k. ASSUME UNCHANGED <<leaving, rebidding>>,
             trip' \in [Trips -> Rows], \A u \in Trips : Within(trip'[u]),
             tripLog' \in [Trips -> Seq(TripEvents)]
      PROVE  TripInv'
  BY <1>k DEF TripInv, TripTypeOK
<1>l. tripLog' = tripLog => tripLog' \in [Trips -> Seq(TripEvents)]
  BY DEF TripInv, TripTypeOK
<1>1. ASSUME NEW bid \in Cents, CreateTrip(t, bid) PROVE TripInv' /\ KeepsDriver
  <2> DEFINE row == [Nowhere EXCEPT !.status = "REQUESTED", !.fare = bid, !.seq = 1]
  <2>1. bid \in Prices /\ 0 \in Prices /\ 1 \in Seqs /\ None \in SomeDriver /\ 0 \in 0..MaxReassign + 1
    BY DEF Prices, Cents, Seqs, SomeDriver, Unset
  <2>2. /\ row.status = "REQUESTED" /\ row.driver = None /\ row.reassigns = 0
        /\ row \in Rows
    BY <2>1, StatusNames DEF Nowhere, Rows, Unset
  <2>3. Within(row) /\ Write(t, row)
    BY <1>1, <2>2 DEF Within, CreateTrip
  <2> HIDE DEF row
  <2>4. /\ trip' \in [Trips -> Rows] /\ \A u \in Trips : Within(trip'[u])
        /\ KeepsDriver
    BY <2>2, <2>3, RowWritten
  <2>5. tripLog' \in [Trips -> Seq(TripEvents)]
    BY <1>1, <2>1, EventTypes, Told DEF CreateTrip
  <2> QED BY <1>1, <1>k, <2>4, <2>5 DEF CreateTrip
<1>2. ASSUME NEW to \in PostAccept \cup {"IN_PROGRESS"}, Advance(t, to) PROVE TripInv' /\ KeepsDriver
  BY <1>2, <1>k, <1>l, CasWrites, StatusNames DEF Advance, PostAccept
<1>3. CASE Complete(t)
  BY <1>3, <1>k, CasWrites, StatusNames, EventTypes, Told DEF Complete
<1>4. ASSUME NEW to \in {"CANCELLED_BY_PASSENGER", "CANCELLED_BY_DRIVER"}, Cancel(t, to)
      PROVE  TripInv' /\ KeepsDriver
  BY <1>4, <1>k, CasWrites, StatusNames, EventTypes, Told DEF Cancel
<1>5. ASSUME NEW fare \in Cents, ChangeDestination(t, fare) PROVE TripInv' /\ KeepsDriver
  <2> DEFINE row == [trip[t] EXCEPT !.fare = fare]
  <2>1. /\ row \in Rows /\ row.driver = trip[t].driver /\ row.status = trip[t].status
        /\ row.reassigns = trip[t].reassigns
    BY <1>t DEF Rows, Prices
  <2>2. Within(row) /\ Write(t, row)
    BY <1>5, <2>1 DEF TripInv, Within, ChangeDestination
  <2> HIDE DEF row
  <2> QED BY <1>5, <1>k, <1>l, <2>1, <2>2, RowWritten DEF ChangeDestination
<1>6. CASE Watchdog(t)
  <2> DEFINE to == StalledTarget(trip[t].status)
  <2>1. to \in {"FAILED", "EXPIRED"} /\ to \in Statuses /\ trip[t].status # "FAILED"
    BY <1>6, StatusNames
       DEF StalledTarget, Watchdog, BidOpen, FareApplicable, DestinationEditable, PostAccept
  <2>2. Write(t, [trip[t] EXCEPT !.status = to])
    BY <1>6 DEF Watchdog
  <2>3. tripLog' \in [Trips -> Seq(TripEvents)]
    BY <1>6, EventTypes, Told DEF Watchdog
  <2> HIDE DEF to
  <2> QED BY <1>6, <1>k, <2>1, <2>2, <2>3, StatusWritten DEF Watchdog
<1>7. ASSUME NEW l \in Leavers, ReadToLeave(l, t) PROVE TripInv' /\ KeepsDriver
  <2> DEFINE read == [trip |-> t, driver |-> trip[t].driver, fare |-> trip[t].fare,
                      seq |-> trip[t].seq, reassigns |-> trip[t].reassigns]
  <2>1. read \in Departures
    BY <1>t DEF Rows, Departures
  <2>2. trip[t].reassigns <= MaxReassign
    BY <1>7 DEF ReadToLeave, PostAccept, TripInv, Within
  <2>3. /\ read.reassigns <= MaxReassign
        /\ read.seq < MaxSeq \/ read.reassigns = MaxReassign
    BY <1>7, <2>2 DEF ReadToLeave
  <2>4. leaving' = [leaving EXCEPT ![l] = read]
    BY <1>7 DEF ReadToLeave
  <2> HIDE DEF read
  <2>5. leaving' \in [Leavers -> Departures \cup {None}]
    BY <1>t, <2>1, <2>4
  <2>6. \A k \in Leavers : leaving'[k] = IF k = l THEN read ELSE leaving[k]
    BY <1>t, <2>4
  <2> QED BY <1>7, <2>3, <2>5, <2>6 DEF ReadToLeave, TripInv, TripTypeOK, KeepsDriver
<1>8. ASSUME NEW v \in Devices, ReadToRebid(v, t) PROVE TripInv' /\ KeepsDriver
  <2> DEFINE read == [trip |-> t, status |-> trip[t].status, seq |-> trip[t].seq]
  <2>1. read \in Rebids /\ read.seq < MaxSeq
    BY <1>8, <1>t DEF Rows, Rebids, ReadToRebid
  <2>2. rebidding' = [rebidding EXCEPT ![v] = read]
    BY <1>8 DEF ReadToRebid
  <2> HIDE DEF read
  <2>3. rebidding' \in [Devices -> Rebids \cup {None}]
    BY <1>t, <2>1, <2>2
  <2>4. \A k \in Devices : rebidding'[k] = IF k = v THEN read ELSE rebidding[k]
    BY <1>t, <2>2
  <2> QED BY <1>8, <2>1, <2>3, <2>4 DEF ReadToRebid, TripInv, TripTypeOK, KeepsDriver
<1> QED BY <1>1, <1>2, <1>3, <1>4, <1>5, <1>6, <1>7, <1>8 DEF TripStep

LEMMA TripNextInv ==
  ASSUME TripInv, TripNext
  PROVE  TripInv' /\ KeepsDriver
<1>t. /\ trip \in [Trips -> Rows] /\ tripLog \in [Trips -> Seq(TripEvents)]
      /\ leaving \in [Leavers -> Departures \cup {None}]
      /\ rebidding \in [Devices -> Rebids \cup {None}]
      /\ \A u \in Trips : Within(trip[u])
  BY DEF TripInv, TripTypeOK
<1>k. ASSUME trip' \in [Trips -> Rows], \A u \in Trips : Within(trip'[u]),
             tripLog' \in [Trips -> Seq(TripEvents)],
             leaving' \in [Leavers -> Departures \cup {None}],
             rebidding' \in [Devices -> Rebids \cup {None}],
             \A l \in Leavers : leaving'[l] \in {leaving[l], None},
             \A v \in Devices : rebidding'[v] \in {rebidding[v], None}
      PROVE  TripInv'
  BY <1>k DEF TripInv, TripTypeOK
<1>1. ASSUME NEW l \in Leavers, Leave(l) PROVE TripInv' /\ KeepsDriver
  <2> DEFINE read == leaving[l]
             t == read.trip
  <2>1. /\ read \in Departures /\ t \in Trips
        /\ read.reassigns <= MaxReassign
        /\ read.seq < MaxSeq \/ read.reassigns = MaxReassign
    BY <1>1, <1>t DEF Leave, TripInv, Departures
  <2>2. /\ read.fare \in Prices /\ read.driver \in SomeDriver /\ read.seq \in Nat
        /\ read.reassigns \in Nat /\ trip[t] \in Rows
    BY <2>1, <1>t DEF Departures, Seqs
  <2> HIDE DEF read
  <2>3. /\ leaving' \in [Leavers -> Departures \cup {None}]
        /\ \A k \in Leavers : leaving'[k] \in {leaving[k], None}
        /\ UNCHANGED rebidding
    BY <1>1, <1>t DEF Leave
  <2>4. ASSUME trip' \in [Trips -> Rows], \A u \in Trips : Within(trip'[u]),
               tripLog' \in [Trips -> Seq(TripEvents)]
        PROVE  TripInv'
    BY <2>3, <2>4, <1>k, <1>t
  <2>5. CASE read.reassigns + 1 > MaxReassign
    <3>0. FailAfterTooManyReassigns(t, read)
      BY <1>1, <2>5 DEF Leave, read
    <3>1. CASE UNCHANGED <<trip, tripLog>>
      BY <3>1, <2>4, <1>t DEF KeepsDriver
    <3>2. CASE ~UNCHANGED <<trip, tripLog>>
      <4> DEFINE row == [trip[t] EXCEPT !.status = "FAILED", !.driver = None,
                                        !.reassigns = read.reassigns + 1]
      <4>1. Write(t, row) /\ Tell(t, TripEvent("failed"))
        BY <3>0, <3>2 DEF FailAfterTooManyReassigns
      <4>2. read.reassigns + 1 \in 0..MaxReassign + 1 /\ None \in SomeDriver
        BY <2>1, <2>2 DEF SomeDriver
      <4>3. row \in Rows /\ row.status = "FAILED" /\ row.driver = None
        BY <2>2, <4>2, StatusNames DEF Rows
      <4>4. Within(row)
        BY <4>3 DEF Within
      <4> HIDE DEF row
      <4>5. /\ trip' \in [Trips -> Rows] /\ \A u \in Trips : Within(trip'[u])
            /\ KeepsDriver
        BY <2>1, <4>1, <4>3, <4>4, RowWritten
      <4>6. tripLog' \in [Trips -> Seq(TripEvents)]
        BY <2>1, <4>1, EventTypes, Told
      <4> QED BY <2>4, <4>5, <4>6
    <3> QED BY <3>1, <3>2
  <2>6. CASE ~(read.reassigns + 1 > MaxReassign)
    <3>0. Reassign(t, read)
      BY <1>1, <2>6 DEF Leave, read
    <3> DEFINE row == [trip[t] EXCEPT !.status = "REASSIGNING", !.driver = None,
                              !.agreed = Unset, !.seq = read.seq + 1,
                              !.reassigns = read.reassigns + 1]
    <3>1. Write(t, row) /\ Tell(t, Opening("reassigning", read.fare, read.seq + 1, read.driver))
      BY <3>0 DEF Reassign
    <3>2. /\ read.reassigns + 1 \in 0..MaxReassign + 1 /\ None \in SomeDriver
          /\ read.seq + 1 \in Seqs /\ Unset \in Prices /\ read.reassigns + 1 <= MaxReassign
      BY <2>1, <2>2, <2>6 DEF SomeDriver, Seqs, Prices
    <3>3. /\ row \in Rows /\ row.driver = None /\ row.reassigns = read.reassigns + 1
      BY <2>2, <3>2, StatusNames DEF Rows
    <3>4. Within(row)
      BY <3>3, <3>2 DEF Within
    <3> HIDE DEF row
    <3>5. /\ trip' \in [Trips -> Rows] /\ \A u \in Trips : Within(trip'[u])
          /\ KeepsDriver
      BY <2>1, <3>1, <3>3, <3>4, RowWritten
    <3>6. tripLog' \in [Trips -> Seq(TripEvents)]
      BY <2>1, <2>2, <3>1, <3>2, EventTypes, Told
    <3> QED BY <2>4, <3>5, <3>6
  <2> QED BY <2>5, <2>6
<1>2. ASSUME NEW v \in Devices, NEW bid \in Cents, Rebid(v, bid) PROVE TripInv' /\ KeepsDriver
  <2> DEFINE read == rebidding[v]
             t == read.trip
  <2>1. read \in Rebids /\ t \in Trips /\ read.seq < MaxSeq /\ read.seq \in Nat
    BY <1>2, <1>t DEF Rebid, TripInv, Rebids, Seqs
  <2>2. trip[t] \in Rows
    BY <2>1, <1>t
  <2> HIDE DEF read
  <2>3. /\ rebidding' \in [Devices -> Rebids \cup {None}]
        /\ \A k \in Devices : rebidding'[k] \in {rebidding[k], None}
        /\ UNCHANGED leaving
    BY <1>2, <1>t DEF Rebid
  <2>4. ASSUME trip' \in [Trips -> Rows], \A u \in Trips : Within(trip'[u]),
               tripLog' \in [Trips -> Seq(TripEvents)]
        PROVE  TripInv'
    BY <2>3, <2>4, <1>k, <1>t
  <2>5. CASE UNCHANGED <<trip, tripLog>>
    BY <2>5, <2>4, <1>t DEF KeepsDriver
  <2>6. CASE ~UNCHANGED <<trip, tripLog>>
    <3> DEFINE row == [trip[t] EXCEPT !.status = "REQUESTED", !.fare = bid,
                                    !.driver = None, !.agreed = Unset,
                                    !.reassigns = 0, !.seq = read.seq + 1]
    <3>1. Write(t, row) /\ Tell(t, Opening("bid_posted", bid, read.seq + 1, None))
      BY <1>2, <2>6 DEF Rebid, read
    <3>2. /\ 0 \in 0..MaxReassign + 1 /\ None \in SomeDriver
          /\ read.seq + 1 \in Seqs /\ Unset \in Prices /\ bid \in Prices
      BY <2>1, <2>2 DEF SomeDriver, Seqs, Prices
    <3>3. row \in Rows /\ row.driver = None /\ row.reassigns = 0
      BY <2>2, <3>2, StatusNames DEF Rows
    <3>4. Within(row)
      BY <3>3 DEF Within
    <3> HIDE DEF row
    <3>5. /\ trip' \in [Trips -> Rows] /\ \A u \in Trips : Within(trip'[u])
          /\ KeepsDriver
      BY <2>1, <3>1, <3>3, <3>4, RowWritten
    <3>6. tripLog' \in [Trips -> Seq(TripEvents)]
      BY <2>1, <3>1, <3>2, EventTypes, Told
    <3> QED BY <2>4, <3>5, <3>6
  <2> QED BY <2>5, <2>6
<1> QED BY <1>1, <1>2, TripStepInv DEF TripNext

\* The consumers.
LEMMA AgreedFareApplied ==
  ASSUME TripInv, NEW t \in Trips, NEW price \in Prices, NEW seq,
         ApplyAgreedFare(t, price, seq)
  PROVE  TripInv' /\ KeepsDriver
<1>1. trip \in [Trips -> Rows] /\ trip[t] \in Rows /\ Within(trip[t])
  BY DEF TripInv, TripTypeOK
<1>2. CASE UNCHANGED trip
  BY <1>2 DEF ApplyAgreedFare, TripInv, TripTypeOK, KeepsDriver
<1>3. CASE ~UNCHANGED trip
  <2> DEFINE row == [trip[t] EXCEPT !.fare = price, !.agreed = price]
  <2>1. Write(t, row)
    BY <1>3 DEF ApplyAgreedFare
  <2>2. /\ row \in Rows /\ row.driver = trip[t].driver /\ row.status = trip[t].status
        /\ row.reassigns = trip[t].reassigns
    BY <1>1 DEF Rows
  <2>3. Within(row)
    BY <1>1, <2>2 DEF Within
  <2> HIDE DEF row
  <2>4. /\ trip' \in [Trips -> Rows] /\ \A u \in Trips : Within(trip'[u])
        /\ KeepsDriver
    BY <2>1, <2>2, <2>3, RowWritten
  <2> QED BY <2>4 DEF ApplyAgreedFare, TripInv, TripTypeOK
<1> QED BY <1>2, <1>3

LEMMA BidClosed ==
  ASSUME TripInv, NEW t \in Trips, NEW to \in {"EXPIRED", "CANCELLED_BY_PASSENGER"},
         NEW type \in {"expired", "cancelled"}, CloseBid(t, to, type)
  PROVE  TripInv' /\ KeepsDriver
<1>1. CASE UNCHANGED <<trip, tripLog>>
  BY <1>1 DEF CloseBid, TripInv, TripTypeOK, KeepsDriver
<1>2. CASE ~UNCHANGED <<trip, tripLog>>
  <2>1. /\ Write(t, [trip[t] EXCEPT !.status = to]) /\ Tell(t, TripEvent(type))
        /\ trip[t].status # "FAILED" /\ to \in Statuses
    BY <1>2, StatusNames DEF CloseBid, BidOpen
  <2>2. /\ trip' \in [Trips -> Rows] /\ \A u \in Trips : Within(trip'[u])
        /\ KeepsDriver
    BY <2>1, StatusWritten
  <2>3. tripLog' \in [Trips -> Seq(TripEvents)]
    BY <2>1, EventTypes, Told
  <2> QED BY <2>2, <2>3 DEF CloseBid, TripInv, TripTypeOK
<1> QED BY <1>1, <1>2

LEMMA AssignedFromDispatch ==
  ASSUME TripInv, NEW t \in Trips, NEW d \in SomeDriver, AssignFromDispatch(t, d)
  PROVE  /\ TripInv'
         /\ \A u \in Trips : \/ trip'[u].driver = trip[u].driver
                             \/ u = t /\ trip'[u].driver = d
<1>1. trip \in [Trips -> Rows] /\ trip[t] \in Rows /\ Within(trip[t])
  BY DEF TripInv, TripTypeOK
<1>2. CASE UNCHANGED trip
  BY <1>2 DEF AssignFromDispatch, TripInv, TripTypeOK
<1>3. CASE ~UNCHANGED trip
  <2> DEFINE row == [trip[t] EXCEPT !.status = "ASSIGNED", !.driver = d]
  <2>1. /\ trip' = [trip EXCEPT ![t] = row] /\ trip[t].status # "FAILED"
    BY <1>3, StatusNames DEF AssignFromDispatch, Write
  <2>2. row \in Rows /\ row.driver = d /\ row.reassigns = trip[t].reassigns
    BY <1>1, StatusNames DEF Rows
  <2>3. Within(row)
    BY <1>1, <2>1, <2>2 DEF Within
  <2> HIDE DEF row
  <2>4. trip' \in [Trips -> Rows] /\ \A u \in Trips : trip'[u] = IF u = t THEN row ELSE trip[u]
    BY <1>1, <2>1, <2>2
  <2>5. \A u \in Trips : Within(trip'[u])
    BY <2>3, <2>4 DEF TripInv
  <2> QED BY <2>2, <2>4, <2>5 DEF AssignFromDispatch, TripInv, TripTypeOK
<1> QED BY <1>2, <1>3

-----------------------------------------------------------------------------
(* dispatch-service.                                                         *)

\* An acceptance on its way has a trip and a driver, and about to mark the board it
\* has seen a match; so has the reconciler.
CallsOK(cl, m) ==
  /\ cl \in [Calls -> CallStates]
  /\ \A c \in Calls : /\ cl[c].step # "idle" => cl[c].trip \in Trips /\ cl[c].driver \in Drivers
                      /\ cl[c].step = "mark" => m[cl[c].trip] # None

\* A closed board has a driver, and once it counts as told its trip has a match.
Closed(b, d) ==
  b.status = "CLOSED_MATCHED" => b.driver # None /\ (b.emitted = TRUE => d # None)
BoardsOK(bs, m) == bs \in [Trips -> Boards] /\ \A t \in Trips : Closed(bs[t], m[t])

\* Every match_found names the match.
Named(log, d) ==
  \A i \in DOMAIN log : log[i].type = "match_found" => log[i].driver = d /\ d # None
LogOK(log, m) == log \in [Trips -> Seq(BoardEvents)] /\ \A t \in Trips : Named(log[t], m[t])

ReconcilingOK(ts, m) == ts \subseteq Trips /\ \A t \in ts : m[t] # None

KeysOK ==
  /\ offers \in [Trips -> [Drivers -> Offers]]
  /\ claim \in [Drivers -> Trips \cup Others \cup {None}]
  /\ match \in [Trips -> SomeDriver]
  /\ offering \in [Drivers -> [trip : Trips, bid : Prices] \cup {None}]
  /\ faults \in Nat

BoardInv ==
  /\ CallsOK(call, match)
  /\ BoardsOK(board, match)
  /\ LogOK(dispatchLog, match)
  /\ ReconcilingOK(reconciling, match)
  /\ KeysOK

\* No match is ever replaced.
MatchStays == \A t \in Trips : match[t] # None => match'[t] = match[t]

LEMMA BoardInvTypes ==
  ASSUME BoardInv PROVE BoardTypeOK
BY DEF BoardInv, CallsOK, BoardsOK, LogOK, ReconcilingOK, KeysOK, BoardTypeOK

LEMMA BoardUntouched ==
  ASSUME BoardInv, UNCHANGED boardVars PROVE BoardInv' /\ MatchStays
BY DEF BoardInv, boardVars, KeysOK, MatchStays, CallsOK, BoardsOK, LogOK, ReconcilingOK

\* One acceptance moves on.
LEMMA CallWritten ==
  ASSUME CallsOK(call, match), NEW c \in Calls, NEW k \in CallStates,
         k.step # "idle" => k.trip \in Trips /\ k.driver \in Drivers,
         k.step = "mark" => match[k.trip] # None,
         call' = [call EXCEPT ![c] = k], UNCHANGED match
  PROVE  CallsOK(call', match')
<1>1. call \in [Calls -> CallStates]
  BY DEF CallsOK
<1>2. /\ call' \in [Calls -> CallStates]
      /\ \A x \in Calls : call'[x] = IF x = c THEN k ELSE call[x]
  BY <1>1
<1> QED BY <1>2 DEF CallsOK

LEMMA CallMoves ==
  ASSUME CallsOK(call, match), NEW c \in Calls, NEW step \in Steps \ {"mark"},
         ~At(c, "idle"), Goto(c, step), UNCHANGED match
  PROVE  CallsOK(call', match')
<1> DEFINE k == [call[c] EXCEPT !.step = step]
<1>1. call[c] \in CallStates /\ call[c].trip \in Trips /\ call[c].driver \in Drivers
  BY DEF CallsOK, At
<1>2. k \in CallStates /\ k.step = step /\ k.trip = call[c].trip /\ k.driver = call[c].driver
  BY <1>1 DEF CallStates
<1>3. call' = [call EXCEPT ![c] = k]
  BY DEF Goto
<1> HIDE DEF k
<1> QED BY <1>1, <1>2, <1>3, CallWritten

LEMMA CallEnds ==
  ASSUME CallsOK(call, match), NEW c \in Calls, Done(c), UNCHANGED match
  PROVE  CallsOK(call', match')
<1>1. Idle \in CallStates /\ Idle.step = "idle"
  BY DEF Idle, CallStates, Steps, Held, SomeDriver, Prices, Cents, Unset, Seqs
<1> QED BY <1>1, CallWritten DEF Done

\* One board changes.
LEMMA BoardWritten ==
  ASSUME BoardsOK(board, match), NEW t \in Trips, NEW b \in Boards, Closed(b, match[t]),
         board' = [board EXCEPT ![t] = b], UNCHANGED match
  PROVE  BoardsOK(board', match')
<1>1. board \in [Trips -> Boards]
  BY DEF BoardsOK
<1>2. /\ board' \in [Trips -> Boards]
      /\ \A u \in Trips : board'[u] = IF u = t THEN b ELSE board[u]
  BY <1>1
<1> QED BY <1>2 DEF BoardsOK

LEMMA BoardNotMatched ==
  ASSUME BoardsOK(board, match), NEW t \in Trips,
         NEW status \in {"OPEN", "EXPIRED", "CANCELLED"},
         board' = [board EXCEPT ![t].status = status], UNCHANGED match
  PROVE  BoardsOK(board', match')
<1> DEFINE b == [board[t] EXCEPT !.status = status]
<1>1. board[t] \in Boards
  BY DEF BoardsOK
<1>2. b \in Boards /\ b.status = status
  BY <1>1 DEF Boards
<1>3. board' = [board EXCEPT ![t] = b]
  OBVIOUS
<1> HIDE DEF b
<1> QED BY <1>2, <1>3, BoardWritten DEF Closed

LEMMA BoardOpened ==
  ASSUME BoardsOK(board, match), KeysOK, NEW t \in Trips, NEW bid \in Prices, NEW seq \in Seqs,
         OpenBoard(t, bid, seq), UNCHANGED match
  PROVE  BoardsOK(board', match') /\ offers' \in [Trips -> [Drivers -> Offers]]
<1> DEFINE b == [status |-> "OPEN", bid |-> bid, seq |-> seq, driver |-> None,
                 emitted |-> FALSE]
<1>1. b \in Boards /\ b.status = "OPEN"
  BY DEF Boards, SomeDriver
<1>2. board' = [board EXCEPT ![t] = b]
  BY DEF OpenBoard
<1> HIDE DEF b
<1>3. BoardsOK(board', match')
  BY <1>1, <1>2, BoardWritten DEF Closed
<1>4. NoOffers \in [Drivers -> Offers]
  BY DEF NoOffers, NoOffer, Offers, Prices
<1>5. offers' \in [Trips -> [Drivers -> Offers]]
  BY <1>4 DEF OpenBoard, KeysOK
<1> QED BY <1>3, <1>5

LEMMA BoardMarked ==
  ASSUME BoardsOK(board, match), NEW t \in Trips, match[t] # None,
         board' = [board EXCEPT ![t].emitted = TRUE], UNCHANGED match
  PROVE  BoardsOK(board', match')
<1> DEFINE b == [board[t] EXCEPT !.emitted = TRUE]
<1>1. board[t] \in Boards /\ Closed(board[t], match[t])
  BY DEF BoardsOK
<1>2. b \in Boards
  BY <1>1 DEF Boards
<1>3. b.status = board[t].status /\ b.driver = board[t].driver
  BY <1>1 DEF Boards
<1>4. board' = [board EXCEPT ![t] = b]
  OBVIOUS
<1> HIDE DEF b
<1>5. Closed(b, match[t])
  BY <1>1, <1>3 DEF Closed
<1> QED BY <1>2, <1>4, <1>5, BoardWritten

\* One log grows, of an event that is no match_found.
LEMMA LogGrows ==
  ASSUME LogOK(dispatchLog, match), NEW t \in Trips, NEW e \in BoardEvents,
         e.type # "match_found", Emit(t, <<e>>), UNCHANGED match
  PROVE  LogOK(dispatchLog', match')
<1> DEFINE log == dispatchLog[t] \o <<e>>
<1>1. dispatchLog \in [Trips -> Seq(BoardEvents)] /\ dispatchLog[t] \in Seq(BoardEvents)
      /\ Named(dispatchLog[t], match[t])
  BY DEF LogOK
<1>2. log \in Seq(BoardEvents) /\ Named(log, match[t])
  BY <1>1 DEF Named
<1>3. dispatchLog' = [dispatchLog EXCEPT ![t] = log]
  BY DEF Emit
<1> HIDE DEF log
<1>4. /\ dispatchLog' \in [Trips -> Seq(BoardEvents)]
      /\ \A u \in Trips : dispatchLog'[u] = IF u = t THEN log ELSE dispatchLog[u]
  BY <1>1, <1>2, <1>3
<1> QED BY <1>2, <1>4 DEF LogOK

LEMMA NoDriverEvents ==
  \A type \in {"no_offers", "bid_cancelled"} :
    BoardEvent(type, None) \in BoardEvents /\ BoardEvent(type, None).type # "match_found"
BY DEF BoardEvent, BoardEvents, SomeDriver, Prices, Seqs, Unset

\* What every step but the transaction of an acceptance does.
LEMMA Kept ==
  ASSUME BoardInv, UNCHANGED match, CallsOK(call', match'), BoardsOK(board', match'),
         LogOK(dispatchLog', match'), reconciling' \subseteq reconciling,
         offers' \in [Trips -> [Drivers -> Offers]],
         claim' \in [Drivers -> Trips \cup Others \cup {None}],
         offering' \in [Drivers -> [trip : Trips, bid : Prices] \cup {None}],
         faults' \in Nat
  PROVE  BoardInv' /\ MatchStays
BY DEF BoardInv, KeysOK, ReconcilingOK, MatchStays

LEMMA BoardClosed ==
  ASSUME BoardInv, NEW t \in Trips, CloseBoard(t), UNCHANGED match
  PROVE  BoardsOK(board', match') /\ offers' \in [Trips -> [Drivers -> Offers]]
<1>1. NoOffers \in [Drivers -> Offers]
  BY DEF NoOffers, NoOffer, Offers, Prices
<1>2. CASE UNCHANGED <<board, offers>>
  BY <1>2 DEF BoardInv, BoardsOK, KeysOK
<1>3. CASE ~UNCHANGED <<board, offers>>
  <2>1. /\ board' = [board EXCEPT ![t].status = "CANCELLED"]
        /\ offers' = [offers EXCEPT ![t] = NoOffers]
    BY <1>3 DEF CloseBoard
  <2>2. BoardsOK(board', match')
    BY <2>1, BoardNotMatched DEF BoardInv
  <2> QED BY <1>1, <2>1, <2>2 DEF BoardInv, KeysOK
<1> QED BY <1>2, <1>3

LEMMA AssignedReleased ==
  ASSUME KeysOK, NEW t \in Trips, ReleaseAssigned(t)
  PROVE  claim' \in [Drivers -> Trips \cup Others \cup {None}]
BY DEF KeysOK, ReleaseAssigned, SomeDriver

LEMMA TripEventsHeard ==
  ASSUME BoardInv, NEW t \in Trips, NEW e \in TripEvents,
         OnBidPosted(t, e) \/ OnReassigning(t, e) \/ OnTripOver(t) \/ OnTripEnded(t)
  PROVE  BoardInv' /\ MatchStays
<1>e. e.bid \in Prices /\ e.seq \in Seqs /\ e.driver \in SomeDriver
  BY DEF TripEvents
<1>t. /\ CallsOK(call, match) /\ BoardsOK(board, match) /\ LogOK(dispatchLog, match) /\ KeysOK
      /\ offers \in [Trips -> [Drivers -> Offers]]
      /\ claim \in [Drivers -> Trips \cup Others \cup {None}]
      /\ offering \in [Drivers -> [trip : Trips, bid : Prices] \cup {None}]
      /\ faults \in Nat
  BY DEF BoardInv, KeysOK
<1>1. CASE OnBidPosted(t, e)
  <2>1. BoardsOK(board', match') /\ offers' \in [Trips -> [Drivers -> Offers]]
    BY <1>1, <1>e, <1>t, BoardOpened DEF OnBidPosted
  <2> QED BY <1>1, <1>t, <2>1, Kept DEF OnBidPosted
<1>2. CASE OnReassigning(t, e)
  <2>1. BoardsOK(board', match') /\ offers' \in [Trips -> [Drivers -> Offers]]
    BY <1>2, <1>e, <1>t, BoardOpened DEF OnReassigning
  <2>2. claim' \in [Drivers -> Trips \cup Others \cup {None}]
    BY <1>2, <1>e, <1>t DEF OnReassigning, SomeDriver
  <2> QED BY <1>2, <1>t, <2>1, <2>2, Kept DEF OnReassigning
<1>3. CASE OnTripOver(t)
  <2>1. BoardsOK(board', match') /\ offers' \in [Trips -> [Drivers -> Offers]]
    BY <1>3, <1>t, BoardClosed DEF OnTripOver
  <2>2. claim' \in [Drivers -> Trips \cup Others \cup {None}]
    BY <1>3, <1>t, AssignedReleased DEF OnTripOver
  <2> QED BY <1>3, <1>t, <2>1, <2>2, Kept DEF OnTripOver
<1>4. CASE OnTripEnded(t)
  <2>2. claim' \in [Drivers -> Trips \cup Others \cup {None}]
    BY <1>4, <1>t, AssignedReleased DEF OnTripEnded
  <2> QED BY <1>4, <1>t, <2>2, Kept DEF OnTripEnded
<1> QED BY <1>1, <1>2, <1>3, <1>4

LEMMA OfferWritten ==
  ASSUME offers \in [Trips -> [Drivers -> Offers]], NEW t \in Trips, NEW d \in Drivers,
         NEW o \in Offers, offers' \in {offers, [offers EXCEPT ![t][d] = o]}
  PROVE  offers' \in [Trips -> [Drivers -> Offers]]
<1>1. CASE offers' = offers
  BY <1>1
<1>2. CASE offers' = [offers EXCEPT ![t][d] = o]
  <2>1. [offers[t] EXCEPT ![d] = o] \in [Drivers -> Offers]
    OBVIOUS
  <2>2. offers' = [offers EXCEPT ![t] = [offers[t] EXCEPT ![d] = o]]
    BY <1>2
  <2> QED BY <2>1, <2>2
<1> QED BY <1>1, <1>2

LEMMA OffersMade ==
  ASSUME BoardInv, NEW d \in Drivers,
         \/ \E t \in Trips : ReadToOffer(d, t)
         \/ \E kind \in {"ACCEPT_PRICE", "COUNTER"}, price \in Cents : SubmitOffer(d, kind, price)
  PROVE  BoardInv' /\ MatchStays
<1>t. /\ CallsOK(call, match) /\ BoardsOK(board, match) /\ LogOK(dispatchLog, match) /\ KeysOK
      /\ offers \in [Trips -> [Drivers -> Offers]]
      /\ claim \in [Drivers -> Trips \cup Others \cup {None}]
      /\ offering \in [Drivers -> [trip : Trips, bid : Prices] \cup {None}]
      /\ faults \in Nat
  BY DEF BoardInv, KeysOK
<1>1. ASSUME NEW t \in Trips, ReadToOffer(d, t) PROVE BoardInv' /\ MatchStays
  <2>1. board[t].bid \in Prices
    BY <1>1, <1>t DEF ReadToOffer, BoardsOK, Boards
  <2>2. offering' \in [Drivers -> [trip : Trips, bid : Prices] \cup {None}]
    BY <1>1, <1>t, <2>1 DEF ReadToOffer
  <2> QED BY <1>1, <1>t, <2>2, Kept DEF ReadToOffer
<1>2. ASSUME NEW kind \in {"ACCEPT_PRICE", "COUNTER"}, NEW price \in Cents,
             SubmitOffer(d, kind, price)
      PROVE  BoardInv' /\ MatchStays
  <2> DEFINE t == offering[d].trip
             offer == [status |-> "PENDING", kind |-> kind, price |-> price]
  <2>1. t \in Trips /\ offer \in Offers
    BY <1>2, <1>t DEF SubmitOffer, Offers, Prices
  <2>2. offers' \in {offers, [offers EXCEPT ![t][d] = offer]}
    BY <1>2 DEF SubmitOffer
  <2> HIDE DEF t, offer
  <2>3. offers' \in [Trips -> [Drivers -> Offers]]
    BY <1>t, <2>1, <2>2, OfferWritten
  <2>4. offering' \in [Drivers -> [trip : Trips, bid : Prices] \cup {None}]
    BY <1>2, <1>t DEF SubmitOffer
  <2> QED BY <1>2, <1>t, <2>3, <2>4, Kept DEF SubmitOffer
<1> QED BY <1>1, <1>2

LEMMA CommitWrites ==
  ASSUME BoardInv, NEW c \in Calls, Commit(c)
  PROVE  BoardInv' /\ MatchStays
<1> DEFINE t == call[c].trip
           d == call[c].driver
<1>t. /\ CallsOK(call, match) /\ BoardsOK(board, match) /\ LogOK(dispatchLog, match)
      /\ ReconcilingOK(reconciling, match) /\ KeysOK
      /\ match \in [Trips -> SomeDriver] /\ call[c] \in CallStates
      /\ t \in Trips /\ d \in Drivers /\ dispatchLog[t] \in Seq(BoardEvents)
      /\ dispatchLog \in [Trips -> Seq(BoardEvents)]
      /\ call \in [Calls -> CallStates]
  BY DEF BoardInv, KeysOK, CallsOK, LogOK, Commit, At
<1> DEFINE k == [call[c] EXCEPT !.step = "mark", !.price = Unset]
<1>k. /\ k \in CallStates /\ k.step = "mark" /\ k.trip = t /\ k.driver = d
      /\ call' = [call EXCEPT ![c] = k]
  BY <1>t DEF CallStates, Commit, Steps, Held, Prices
<1>u. UNCHANGED <<board, offers, claim, offering, faults, reconciling>>
  BY DEF Commit
<1>1. CASE Taken(t, d)
  <2>1. match[t] # None
    BY <1>1, <1>t DEF Taken, Has, LogOK, Named
  <2>2. UNCHANGED <<match, dispatchLog>>
    BY <1>1 DEF Commit
  <2> HIDE DEF k, t, d
  <2>3. CallsOK(call', match')
    BY <1>k, <1>t, <2>1, <2>2, CallWritten
  <2> QED BY <1>t, <1>u, <2>2, <2>3, Kept DEF KeysOK
<1>2. CASE ~Taken(t, d)
  <2>1. /\ match[t] = None /\ match' = [match EXCEPT ![t] = d] /\ Emit(t, Accepted(c))
        /\ d # None
    BY <1>2, <1>t DEF Commit, Taken
  <2> DEFINE told == [type |-> "offer_accepted", driver |-> call[c].driver,
                      price |-> call[c].price, seq |-> call[c].seq]
             found == BoardEvent("match_found", call[c].driver)
             log == dispatchLog[t] \o <<told, found>>
  <2>2. told \in BoardEvents /\ found \in BoardEvents /\ told.type = "offer_accepted"
    BY <1>t DEF CallStates, BoardEvents, BoardEvent, SomeDriver, Prices, Unset, Seqs
  <2>3. found.type = "match_found" /\ found.driver = d
    BY DEF BoardEvent
  <2>4. dispatchLog' = [dispatchLog EXCEPT ![t] = log]
    BY <2>1 DEF Emit, Accepted
  <2>5. \A i \in DOMAIN dispatchLog[t] : dispatchLog[t][i].type # "match_found"
    BY <1>t, <2>1 DEF LogOK, Named
  <2> HIDE DEF k, t, d, told, found
  <2>6. log \in Seq(BoardEvents)
    BY <1>t, <2>2
  <2>7. Named(log, d)
    BY <1>t, <2>1, <2>2, <2>3, <2>5 DEF Named
  <2> HIDE DEF log
  <2>8. \A u \in Trips : /\ match'[u] = IF u = t THEN d ELSE match[u]
                         /\ dispatchLog'[u] = IF u = t THEN log ELSE dispatchLog[u]
    BY <1>t, <2>1, <2>4
  <2>9. match' \in [Trips -> SomeDriver] /\ dispatchLog' \in [Trips -> Seq(BoardEvents)]
    BY <1>t, <2>1, <2>4, <2>6 DEF SomeDriver
  <2>10. LogOK(dispatchLog', match')
    BY <1>t, <2>7, <2>8, <2>9 DEF LogOK
  <2>11. \A u \in Trips : match[u] # None => match'[u] = match[u]
    BY <2>1, <2>8
  <2>12. BoardsOK(board', match')
    <3>1. board' = board /\ board \in [Trips -> Boards]
      BY <1>t, <1>u DEF BoardsOK
    <3>2. \A u \in Trips : Closed(board[u], match'[u])
      BY <1>t, <2>11 DEF BoardsOK, Closed
    <3> QED BY <3>1, <3>2 DEF BoardsOK
  <2>13. ReconcilingOK(reconciling', match')
    BY <1>t, <1>u, <2>11 DEF ReconcilingOK
  <2>14. CallsOK(call', match')
    <3>1. /\ call' \in [Calls -> CallStates]
          /\ \A x \in Calls : call'[x] = IF x = c THEN k ELSE call[x]
      BY <1>k, <1>t
    <3>2. match'[t] # None
      BY <1>t, <2>1, <2>8
    <3>3. ASSUME NEW x \in Calls
          PROVE  /\ call'[x].step # "idle" => call'[x].trip \in Trips /\ call'[x].driver \in Drivers
                 /\ call'[x].step = "mark" => match'[call'[x].trip] # None
      <4>1. CASE x = c
        BY <3>1, <3>2, <4>1, <1>k, <1>t
      <4>2. CASE x # c
        BY <3>1, <4>2, <1>t, <2>11 DEF CallsOK
      <4> QED BY <4>1, <4>2
    <3> QED BY <3>1, <3>3 DEF CallsOK
  <2> QED BY <1>t, <1>u, <2>9, <2>10, <2>11, <2>12, <2>13, <2>14 DEF BoardInv, KeysOK, MatchStays
<1> QED BY <1>1, <1>2

LEMMA AcceptStepInv ==
  ASSUME BoardInv, NEW c \in Calls, AcceptStep(c)
  PROVE  BoardInv' /\ MatchStays
<1>t. /\ CallsOK(call, match) /\ BoardsOK(board, match) /\ LogOK(dispatchLog, match) /\ KeysOK
      /\ offers \in [Trips -> [Drivers -> Offers]]
      /\ claim \in [Drivers -> Trips \cup Others \cup {None}]
      /\ offering \in [Drivers -> [trip : Trips, bid : Prices] \cup {None}]
      /\ faults \in Nat /\ call[c] \in CallStates
  BY DEF BoardInv, KeysOK, CallsOK
<1>c. ~At(c, "idle") => call[c].trip \in Trips /\ call[c].driver \in Drivers
  BY <1>t DEF CallsOK, At
<1>s. {"driver", "tx", "undo", "revert", "release", "lapse"} \subseteq Steps \ {"mark"}
  BY DEF Steps, Held
<1>f. Fault => faults' \in Nat
  BY <1>t DEF Fault
<1>1. ASSUME NEW t \in Trips, NEW d \in Drivers, ReadBoard(c, t, d)
      PROVE  BoardInv' /\ MatchStays
  <2> DEFINE k == [step |-> "board", trip |-> t, driver |-> d,
                   bid |-> board[t].bid, seq |-> board[t].seq, price |-> Unset]
  <2>1. k \in CallStates /\ k.step = "board" /\ k.trip = t /\ k.driver = d
    BY <1>t DEF CallStates, BoardsOK, Boards, Steps, SomeDriver, Prices
  <2>2. call' = [call EXCEPT ![c] = k]
    BY <1>1 DEF ReadBoard
  <2> HIDE DEF k
  <2>3. CallsOK(call', match')
    BY <1>1, <1>t, <2>1, <2>2, CallWritten DEF ReadBoard
  <2> QED BY <1>1, <1>t, <2>3, Kept DEF ReadBoard
<1>2. CASE ReadOffer(c)
  <2>1. CASE Done(c)
    <3>1. CallsOK(call', match')
      BY <1>2, <1>t, <2>1, CallEnds DEF ReadOffer
    <3> QED BY <1>2, <1>t, <3>1, Kept DEF ReadOffer
  <2>2. CASE ~Done(c)
    <3> DEFINE offer == offers[call[c].trip][call[c].driver]
               k == [call[c] EXCEPT !.step = "gate", !.price = offer.price, !.bid = Unset]
    <3>1. call[c].trip \in Trips /\ call[c].driver \in Drivers /\ offer.price \in Prices
      <4>1. call[c].trip \in Trips /\ call[c].driver \in Drivers
        BY <1>2, <1>c DEF ReadOffer, At
      <4>2. offer \in Offers
        BY <1>t, <4>1
      <4> QED BY <4>1, <4>2 DEF Offers
    <3>2. call' = [call EXCEPT ![c] = k]
      BY <1>2, <2>2 DEF ReadOffer
    <3> HIDE DEF offer
    <3>3. /\ k \in CallStates /\ k.step = "gate" /\ k.trip = call[c].trip
          /\ k.driver = call[c].driver
      BY <1>t, <3>1 DEF CallStates, Steps, Prices
    <3> HIDE DEF k
    <3>4. CallsOK(call', match')
      BY <1>2, <1>t, <3>1, <3>2, <3>3, CallWritten DEF ReadOffer
    <3> QED BY <1>2, <1>t, <3>4, Kept DEF ReadOffer
  <2> QED BY <2>1, <2>2
<1>3. CASE Ineligible(c)
  <2> DEFINE t == call[c].trip
             d == call[c].driver
             offer == [offers[t][d] EXCEPT !.status = "STALE"]
  <2>1. t \in Trips /\ d \in Drivers
    BY <1>3, <1>c DEF Ineligible, At
  <2>2. offer \in Offers
    <3>1. \A o \in Offers : [o EXCEPT !.status = "STALE"] \in Offers
      BY DEF Offers
    <3>2. offers[t][d] \in Offers
      BY <1>t, <2>1
    <3> QED BY <3>1, <3>2
  <2>3. offers' \in {offers, [offers EXCEPT ![t][d] = offer]}
    BY <1>3 DEF Ineligible
  <2>4. CallsOK(call', match')
    BY <1>3, <1>t, CallEnds DEF Ineligible
  <2> HIDE DEF t, d, offer
  <2>5. offers' \in [Trips -> [Drivers -> Offers]]
    BY <1>t, <2>1, <2>2, <2>3, OfferWritten
  <2> QED BY <1>3, <1>t, <2>4, <2>5, Kept DEF Ineligible
<1>4. CASE ClaimBoard(c)
  <2> DEFINE t == call[c].trip
             d == call[c].driver
             b == [board[t] EXCEPT !.status = "CLOSED_MATCHED", !.driver = d, !.emitted = FALSE]
  <2>1. t \in Trips /\ d \in Drivers /\ board[t] \in Boards
    BY <1>4, <1>c, <1>t DEF ClaimBoard, At, BoardsOK
  <2>2. CASE Done(c) /\ UNCHANGED board
    <3>1. CallsOK(call', match')
      BY <1>4, <1>t, <2>2, CallEnds DEF ClaimBoard
    <3> QED BY <1>4, <1>t, <2>2, <3>1, Kept DEF ClaimBoard
  <2>3. CASE ~(Done(c) /\ UNCHANGED board)
    <3>1. /\ Goto(c, "driver") /\ ~At(c, "idle") /\ UNCHANGED match
          /\ board' = [board EXCEPT ![t].status = "CLOSED_MATCHED", ![t].driver = d,
                                    ![t].emitted = FALSE]
      BY <1>4, <2>3 DEF ClaimBoard, At
    <3>2. board' = [board EXCEPT ![t] = b]
      BY <3>1
    <3>3. b \in Boards
      BY <2>1 DEF Boards, SomeDriver
    <3>4. b.driver = d /\ b.emitted = FALSE
      BY <2>1 DEF Boards
    <3>5. CallsOK(call', match')
      BY <1>s, <1>t, <3>1, CallMoves
    <3> HIDE DEF t, d, b
    <3>6. Closed(b, match[t])
      BY <2>1, <3>4 DEF Closed
    <3>7. BoardsOK(board', match')
      BY <1>t, <2>1, <3>1, <3>2, <3>3, <3>6, BoardWritten
    <3> QED BY <1>4, <1>t, <3>5, <3>7, Kept DEF ClaimBoard
  <2> QED BY <2>2, <2>3
<1>5. CASE ClaimDriver(c)
  <2>1. CallsOK(call', match')
    BY <1>5, <1>s, <1>t, CallMoves DEF ClaimDriver, At
  <2>2. claim' \in [Drivers -> Trips \cup Others \cup {None}]
    BY <1>5, <1>t, <1>c DEF ClaimDriver, At
  <2> QED BY <1>5, <1>t, <2>1, <2>2, Kept DEF ClaimDriver
<1>6. CASE Commit(c)
  BY <1>6, CommitWrites
<1>7. CASE CommitFails(c)
  <2>1. CallsOK(call', match')
    BY <1>7, <1>s, <1>t, CallMoves DEF CommitFails, At
  <2> QED BY <1>7, <1>f, <1>t, <2>1, Kept DEF CommitFails
<1>8. CASE RevertClaim(c)
  <2> DEFINE t == call[c].trip
             b == [board[t] EXCEPT !.status = "OPEN", !.driver = None]
  <2>1. CallsOK(call', match')
    BY <1>8, <1>s, <1>t, CallMoves, CallEnds DEF RevertClaim, At
  <2>2. t \in Trips /\ board[t] \in Boards
    BY <1>8, <1>c, <1>t DEF RevertClaim, At, BoardsOK
  <2>3. CASE UNCHANGED board
    BY <1>8, <1>t, <2>1, <2>3, Kept DEF RevertClaim
  <2>4. CASE ~UNCHANGED board
    <3>1. board' = [board EXCEPT ![t].status = "OPEN", ![t].driver = None]
      BY <1>8, <2>4 DEF RevertClaim
    <3>2. board' = [board EXCEPT ![t] = b]
      BY <3>1
    <3>3. b \in Boards /\ b.status = "OPEN"
      BY <2>2 DEF Boards, SomeDriver
    <3> HIDE DEF t, b
    <3>4. BoardsOK(board', match')
      BY <1>8, <1>t, <2>2, <3>2, <3>3, BoardWritten DEF Closed, RevertClaim
    <3> QED BY <1>8, <1>t, <2>1, <3>4, Kept DEF RevertClaim
  <2> QED BY <2>3, <2>4
<1>9. CASE ReleaseClaim(c)
  <2>1. CallsOK(call', match')
    BY <1>9, <1>t, CallEnds DEF ReleaseClaim
  <2>2. claim' \in [Drivers -> Trips \cup Others \cup {None}]
    BY <1>9, <1>t, <1>c DEF ReleaseClaim, At
  <2> QED BY <1>9, <1>t, <2>1, <2>2, Kept DEF ReleaseClaim
<1>10. CASE MarkEmitted(c)
  <2>1. call[c].trip \in Trips /\ match[call[c].trip] # None
    BY <1>10, <1>c, <1>t DEF MarkEmitted, At, CallsOK
  <2>2. CallsOK(call', match')
    BY <1>10, <1>s, <1>t, CallMoves DEF MarkEmitted, At
  <2>3. BoardsOK(board', match')
    BY <1>10, <1>t, <2>1, BoardMarked DEF MarkEmitted
  <2> QED BY <1>10, <1>t, <2>2, <2>3, Kept DEF MarkEmitted
<1>11. CASE Lapse(c)
  <2>1. CallsOK(call', match')
    BY <1>11, <1>t, CallEnds DEF Lapse
  <2>2. call[c].trip \in Trips
    BY <1>11, <1>c DEF Lapse, At
  <2>3. \A o \in Offers : Lapsed(o) \in Offers /\ [o EXCEPT !.status = "ACCEPTED"] \in Offers
    BY DEF Lapsed, Offers
  <2> DEFINE row == [d \in Drivers |->
                       IF d = call[c].driver /\ offers[call[c].trip][d].status # "none"
                       THEN [offers[call[c].trip][d] EXCEPT !.status = "ACCEPTED"]
                       ELSE Lapsed(offers[call[c].trip][d])]
  <2>4. row \in [Drivers -> Offers]
    <3>1. ASSUME NEW d \in Drivers PROVE offers[call[c].trip][d] \in Offers
      BY <1>t, <2>2
    <3> QED BY <3>1, <2>3
  <2>5. offers' = [offers EXCEPT ![call[c].trip] = row]
    BY <1>11 DEF Lapse
  <2> HIDE DEF row
  <2>6. offers' \in [Trips -> [Drivers -> Offers]]
    BY <1>t, <2>2, <2>4, <2>5
  <2> QED BY <1>11, <1>t, <2>1, <2>6, Kept DEF Lapse
<1>12. CASE Die(c)
  <2>1. CallsOK(call', match')
    BY <1>12, <1>t, CallEnds DEF Die
  <2> QED BY <1>12, <1>f, <1>t, <2>1, Kept DEF Die
<1> QED BY <1>1, <1>2, <1>3, <1>4, <1>5, <1>6, <1>7, <1>8, <1>9, <1>10, <1>11, <1>12
        DEF AcceptStep

LEMMA BoardNextInv ==
  ASSUME BoardInv, BoardNext \/ \E t \in Impatient : CancelBid(t)
  PROVE  BoardInv' /\ MatchStays
<1>t. /\ CallsOK(call, match) /\ BoardsOK(board, match) /\ LogOK(dispatchLog, match) /\ KeysOK
      /\ offers \in [Trips -> [Drivers -> Offers]]
      /\ claim \in [Drivers -> Trips \cup Others \cup {None}]
      /\ offering \in [Drivers -> [trip : Trips, bid : Prices] \cup {None}]
      /\ faults \in Nat /\ board \in [Trips -> Boards]
      /\ reconciling \subseteq Trips /\ \A t \in reconciling : match[t] # None
  BY DEF BoardInv, KeysOK, BoardsOK, ReconcilingOK
<1>f. Fault \/ NoFault => faults' \in Nat
  BY <1>t DEF Fault, NoFault
<1>1. CASE \E d \in Drivers :
             \/ \E t \in Trips : ReadToOffer(d, t)
             \/ \E kind \in {"ACCEPT_PRICE", "COUNTER"}, price \in Cents : SubmitOffer(d, kind, price)
  BY <1>1, OffersMade
<1>2. CASE \E c \in Calls : AcceptStep(c)
  BY <1>2, AcceptStepInv
<1>3. ASSUME NEW d \in Drivers, ClaimElsewhere(d) PROVE BoardInv' /\ MatchStays
  <2>1. claim' \in [Drivers -> Trips \cup Others \cup {None}]
    BY <1>3, <1>t DEF ClaimElsewhere
  <2> QED BY <1>3, <1>f, <1>t, <2>1, Kept DEF ClaimElsewhere
<1>4. ASSUME NEW d \in Drivers, EndElsewhere(d) PROVE BoardInv' /\ MatchStays
  <2>1. claim' \in [Drivers -> Trips \cup Others \cup {None}]
    BY <1>4, <1>t DEF EndElsewhere
  <2> QED BY <1>4, <1>t, <2>1, Kept DEF EndElsewhere
<1>5. ASSUME NEW t \in Trips, Sweep(t) PROVE BoardInv' /\ MatchStays
  <2>1. \A o \in Offers : Lapsed(o) \in Offers
    BY DEF Lapsed, Offers
  <2> DEFINE row == [d \in Drivers |-> Lapsed(offers[t][d])]
  <2>2. row \in [Drivers -> Offers]
    <3>1. ASSUME NEW d \in Drivers PROVE offers[t][d] \in Offers
      BY <1>t
    <3> QED BY <3>1, <2>1
  <2>3. offers' = [offers EXCEPT ![t] = row]
    BY <1>5 DEF Sweep
  <2> HIDE DEF row
  <2>4. offers' \in [Trips -> [Drivers -> Offers]]
    BY <1>t, <2>2, <2>3
  <2>5. BoardsOK(board', match')
    BY <1>5, <1>t, BoardNotMatched DEF Sweep
  <2>6. LogOK(dispatchLog', match')
    BY <1>5, <1>t, LogGrows, NoDriverEvents DEF Sweep
  <2>7. faults' \in Nat
    BY <1>5, <1>f DEF Sweep
  <2> QED BY <1>5, <1>t, <2>4, <2>5, <2>6, <2>7, Kept DEF Sweep
<1>6. ASSUME NEW t \in Trips, ReadUnmarked(t) PROVE BoardInv' /\ MatchStays
  <2>1. match[t] # None
    BY <1>6, <1>t DEF ReadUnmarked, Unmarked, BoardsOK, Closed
  <2>2. ReconcilingOK(reconciling', match')
    BY <1>6, <1>t, <2>1 DEF ReadUnmarked, ReconcilingOK
  <2> QED BY <1>6, <1>t, <2>2 DEF ReadUnmarked, BoardInv, KeysOK, MatchStays
<1>7. ASSUME NEW t \in Trips, Reconcile(t) PROVE BoardInv' /\ MatchStays
  <2>1. BoardsOK(board', match')
    BY <1>7, <1>t, BoardMarked DEF Reconcile
  <2> QED BY <1>7, <1>t, <2>1, Kept DEF Reconcile
<1>8. ASSUME NEW t \in Impatient, CancelBid(t) PROVE BoardInv' /\ MatchStays
  <2>1. t \in Trips /\ UNCHANGED match
    BY <1>8 DEF CancelBid
  <2>2. BoardsOK(board', match') /\ offers' \in [Trips -> [Drivers -> Offers]]
    BY <1>8, <2>1, BoardClosed DEF CancelBid
  <2>3. LogOK(dispatchLog', match')
    BY <1>8, <1>t, <2>1, LogGrows, NoDriverEvents DEF CancelBid
  <2> QED BY <1>8, <1>f, <1>t, <2>2, <2>3, Kept DEF CancelBid
<1> QED BY <1>1, <1>2, <1>3, <1>4, <1>5, <1>6, <1>7, <1>8 DEF BoardNext

-----------------------------------------------------------------------------
(* The ride.                                                                 *)

RideInv ==
  /\ TripInv
  /\ BoardInv
  /\ seen \in [Groups -> [Trips -> Nat]]
  /\ DriverIsTheMatched

LEMMA RideInvInit == RideInit => RideInv
<1> SUFFICES ASSUME RideInit PROVE RideInv
  OBVIOUS
<1> USE DEF RideInit, TripInit, BoardInit
<1>1. Nowhere \in Rows /\ Nowhere.reassigns = 0
  BY StatusNames DEF Nowhere, Rows, SomeDriver, Prices, Seqs, Unset
<1>2. TripInv
  BY <1>1 DEF TripInv, TripTypeOK, Within
<1>3. NoBoard \in Boards /\ NoBoard.status = "none"
  BY DEF NoBoard, Boards, SomeDriver, Prices, Seqs, Unset
<1>4. Idle \in CallStates /\ Idle.step = "idle"
  BY DEF Idle, CallStates, Steps, Held, SomeDriver, Prices, Seqs, Unset
<1>5. NoOffers \in [Drivers -> Offers]
  BY DEF NoOffers, NoOffer, Offers, Prices
<1>6. BoardInv
  <2>1. CallsOK(call, match)
    BY <1>4 DEF CallsOK
  <2>2. BoardsOK(board, match)
    BY <1>3 DEF BoardsOK, Closed
  <2>3. LogOK(dispatchLog, match)
    BY DEF LogOK, Named
  <2> QED BY <1>5, <2>1, <2>2, <2>3 DEF BoardInv, ReconcilingOK, KeysOK, SomeDriver
<1>7. DriverIsTheMatched
  BY DEF DriverIsTheMatched, Nowhere
<1> QED BY <1>2, <1>6, <1>7 DEF RideInv

\* As long as trips keep their drivers and matches stay, they agree.
LEMMA DriversAgree ==
  ASSUME RideInv, KeepsDriver, MatchStays PROVE DriverIsTheMatched'
BY DEF RideInv, KeepsDriver, MatchStays, DriverIsTheMatched

LEMMA Heard ==
  ASSUME RideInv, NEW g \in Groups, NEW t \in Trips, NEW i, Hears(g, t, i)
  PROVE  seen' \in [Groups -> [Trips -> Nat]] /\ i \in DOMAIN Log(g, t)
<1>1. i \in DOMAIN Log(g, t) /\ seen' = [seen EXCEPT ![g][t] = i]
  BY DEF Hears, Ahead
<1>2. /\ tripLog[t] \in Seq(TripEvents) /\ dispatchLog[t] \in Seq(BoardEvents)
      /\ seen \in [Groups -> [Trips -> Nat]]
  BY DEF RideInv, TripInv, TripTypeOK, BoardInv, LogOK
<1>3. i \in Nat
  BY <1>1, <1>2 DEF Log
<1> QED BY <1>1, <1>2, <1>3

LEMMA RideInvNext == RideInv /\ [RideNext]_rideVars => RideInv'
<1> SUFFICES ASSUME RideInv, [RideNext]_rideVars PROVE RideInv'
  OBVIOUS
<1>t. /\ TripInv /\ BoardInv /\ seen \in [Groups -> [Trips -> Nat]] /\ DriverIsTheMatched
      /\ match \in [Trips -> SomeDriver]
      /\ \A t \in Trips : tripLog[t] \in Seq(TripEvents) /\ dispatchLog[t] \in Seq(BoardEvents)
  BY DEF RideInv, BoardInv, KeysOK, TripInv, TripTypeOK, LogOK
<1>a. UNCHANGED tripVars => TripInv' /\ KeepsDriver
  BY <1>t DEF tripVars, TripInv, TripTypeOK, KeepsDriver
<1>b. UNCHANGED boardVars => BoardInv' /\ MatchStays
  BY <1>t, BoardUntouched
<1>k. ASSUME TripInv', KeepsDriver, BoardInv', MatchStays, seen' \in [Groups -> [Trips -> Nat]]
      PROVE  RideInv'
  BY <1>k, DriversAgree DEF RideInv
<1>1. CASE TripNext /\ UNCHANGED <<boardVars, seen>>
  <2>1. TripInv' /\ KeepsDriver
    BY <1>1, <1>t, TripNextInv
  <2> QED BY <1>1, <1>t, <1>b, <1>k, <2>1
<1>2. CASE BoardNext /\ UNCHANGED <<tripVars, seen>>
  <2>1. BoardInv' /\ MatchStays
    BY <1>2, <1>t, BoardNextInv
  <2> QED BY <1>2, <1>t, <1>a, <1>k, <2>1
<1>3. ASSUME NEW t \in Impatient, GiveUp(t) PROVE RideInv'
  <2>1. BoardInv' /\ MatchStays
    BY <1>3, <1>t, BoardNextInv DEF GiveUp
  <2> QED BY <1>3, <1>t, <1>a, <1>k, <2>1 DEF GiveUp
<1>4. ASSUME NEW t \in Trips, DispatchHears(t) PROVE RideInv'
  <2>1. PICK i : /\ Hears("dispatch", t, i)
                 /\ LET e == tripLog[t][i] IN
                    OnBidPosted(t, e) \/ OnReassigning(t, e) \/ OnTripOver(t) \/ OnTripEnded(t)
    BY <1>4 DEF DispatchHears
  <2>2. seen' \in [Groups -> [Trips -> Nat]] /\ i \in DOMAIN tripLog[t]
    BY <2>1, Heard DEF Groups, Log
  <2>3. tripLog[t][i] \in TripEvents
    BY <1>t, <2>2
  <2>4. BoardInv' /\ MatchStays
    BY <1>t, <2>1, <2>3, TripEventsHeard
  <2> QED BY <1>4, <1>a, <1>k, <2>2, <2>4 DEF DispatchHears
<1>5. ASSUME NEW t \in Trips, PujaHears(t) PROVE RideInv'
  <2>1. PICK i : /\ Hears("puja", t, i)
                 /\ LET e == dispatchLog[t][i] IN
                    \/ ApplyAgreedFare(t, e.price, e.seq)
                    \/ CloseBid(t, "EXPIRED", "expired")
                    \/ CloseBid(t, "CANCELLED_BY_PASSENGER", "cancelled")
    BY <1>5 DEF PujaHears
  <2>2. seen' \in [Groups -> [Trips -> Nat]] /\ i \in DOMAIN dispatchLog[t]
    BY <2>1, Heard DEF Groups, Log
  <2>3. dispatchLog[t][i].price \in Prices
    <3>1. dispatchLog[t][i] \in BoardEvents
      BY <1>t, <2>2
    <3> QED BY <3>1 DEF BoardEvents
  <2>4. TripInv' /\ KeepsDriver
    BY <1>t, <2>1, <2>3, AgreedFareApplied, BidClosed
  <2> QED BY <1>5, <1>b, <1>k, <2>2, <2>4 DEF PujaHears
<1>6. ASSUME NEW t \in Trips, MatchHears(t) PROVE RideInv'
  <2>1. PICK i : Hears("match", t, i) /\ AssignFromDispatch(t, dispatchLog[t][i].driver)
    BY <1>6 DEF MatchHears
  <2>2. seen' \in [Groups -> [Trips -> Nat]] /\ i \in DOMAIN dispatchLog[t]
    BY <2>1, Heard DEF Groups, Log
  <2>3. dispatchLog[t][i].type = "match_found"
    BY <2>1 DEF Hears, Ahead, Heeds, Log
  <2>4. dispatchLog[t][i].driver = match[t] /\ match[t] # None
    BY <1>t, <2>2, <2>3 DEF BoardInv, LogOK, Named
  <2>5. /\ TripInv'
        /\ \A u \in Trips : \/ trip'[u].driver = trip[u].driver
                            \/ u = t /\ trip'[u].driver = match[t]
    BY <1>t, <2>1, <2>4, AssignedFromDispatch
  <2>6. BoardInv' /\ UNCHANGED match
    BY <1>6, <1>b DEF MatchHears, boardVars
  <2>7. DriverIsTheMatched'
    BY <1>t, <2>5, <2>6 DEF DriverIsTheMatched
  <2> QED BY <2>2, <2>5, <2>6, <2>7 DEF RideInv
<1>7. ASSUME NEW g \in Groups, NEW t \in Trips, Redeliver(g, t) PROVE RideInv'
  <2>1. seen' \in [Groups -> [Trips -> Nat]]
    BY <1>7, <1>t DEF Redeliver
  <2>2. TripInv' /\ KeepsDriver
    BY <1>7, <1>a DEF Redeliver
  <2>3. BoardInv' /\ MatchStays
    BY <1>7, <1>t DEF Redeliver, BoardInv, KeysOK, MatchStays
  <2> QED BY <1>k, <2>1, <2>2, <2>3
<1>8. CASE UNCHANGED rideVars
  BY <1>8, <1>a, <1>b, <1>k, <1>t DEF rideVars
<1> QED BY <1>1, <1>2, <1>3, <1>4, <1>5, <1>6, <1>7, <1>8 DEF RideNext

THEOREM Invariance == RideSpec => []RideInv
BY RideInvInit, RideInvNext, PTL DEF RideSpec

\* Type correctness of a ride: a cycle never outgrows the reassignments a trip may
\* have, and every event names what its consumer can use.
THEOREM TypeCorrect == RideSpec => []RideTypeOK
<1>1. RideInv => RideTypeOK
  BY BoardInvTypes DEF RideInv, TripInv, RideTypeOK
<1> QED BY <1>1, Invariance, PTL

\* The driver of a trip is the one its only match names (assignFromDispatch, N10).
THEOREM DriverOfTheMatch == RideSpec => []DriverIsTheMatched
<1>1. RideInv => DriverIsTheMatched
  BY DEF RideInv
<1> QED BY <1>1, Invariance, PTL

\* A board that counts as told names a ride somebody has (N5).
THEOREM ToldHasAMatch == RideSpec => []ClosedForSomebody
<1>1. RideInv => ClosedForSomebody
  BY DEF RideInv, BoardInv, BoardsOK, Closed, ClosedForSomebody, Boards
<1> QED BY <1>1, Invariance, PTL

-----------------------------------------------------------------------------
(* The fare.  Whatever acceptance or event carries a price, from the board    *)
(* that was read to the row of the trip, carries the number of a cycle in     *)
(* which so low a bid was made; FareInv says so of each of them.              *)

BoardsBid(bs, logs) ==
  \A t \in Trips : bs[t].status # "none" => BidAtMost(logs[t], bs[t].seq, bs[t].bid)
CallsBid(cl, logs) ==
  \A c \in Calls :
    /\ cl[c].step = "board" => BidAtMost(logs[cl[c].trip], cl[c].seq, cl[c].bid)
    /\ cl[c].step \in {"gate", "driver", "tx"} =>
         BidAtMost(logs[cl[c].trip], cl[c].seq, cl[c].price)
EventsBid(dl, logs) ==
  \A t \in Trips : \A i \in DOMAIN dl[t] :
    dl[t][i].type = "offer_accepted" => BidAtMost(logs[t], dl[t][i].seq, dl[t][i].price)

FareInv ==
  /\ BoardsBid(board, tripLog)
  /\ CallsBid(call, tripLog)
  /\ EventsBid(dispatchLog, tripLog)
  /\ FareOfItsCycle

\* No step of trip but ApplyAgreedFare agrees on a price, and none lowers it.
KeepsFare ==
  \A t \in Trips : \/ trip'[t].agreed = Unset
                   \/ /\ trip'[t].agreed = trip[t].agreed /\ trip'[t].seq = trip[t].seq
                      /\ trip'[t].fare >= trip[t].fare
Grows ==
  \A t \in Trips : \A i \in DOMAIN tripLog[t] :
    i \in DOMAIN tripLog'[t] /\ tripLog'[t][i] = tripLog[t][i]

LEMMA ToldGrows ==
  ASSUME TripInv, NEW t \in Trips, NEW e \in TripEvents, Tell(t, e)
  PROVE  Grows
<1>1. tripLog \in [Trips -> Seq(TripEvents)] /\ tripLog[t] \in Seq(TripEvents)
  BY DEF TripInv, TripTypeOK
<1>2. \A u \in Trips : tripLog'[u] = IF u = t THEN Append(tripLog[t], e) ELSE tripLog[u]
  BY <1>1 DEF Tell
<1>3. \A i \in DOMAIN tripLog[t] : /\ i \in DOMAIN Append(tripLog[t], e)
                                   /\ Append(tripLog[t], e)[i] = tripLog[t][i]
  BY <1>1, AppendProperties
<1> QED BY <1>2, <1>3 DEF Grows

LEMMA FareWritten ==
  ASSUME TripInv, NEW t \in Trips, NEW row, Write(t, row),
         \/ row.agreed = Unset
         \/ row.agreed = trip[t].agreed /\ row.seq = trip[t].seq /\ row.fare >= trip[t].fare
  PROVE  KeepsFare
<1>1. trip \in [Trips -> Rows]
  BY DEF TripInv, TripTypeOK
<1>2. \A u \in Trips : trip'[u] = IF u = t THEN row ELSE trip[u]
  BY <1>1 DEF Write
<1>3. \A u \in Trips : trip[u].fare >= trip[u].fare
  BY <1>1 DEF Rows, Prices, Cents, Unset
<1> QED BY <1>2, <1>3 DEF KeepsFare

LEMMA StatusKeepsFare ==
  ASSUME TripInv, NEW t \in Trips, NEW to, Write(t, [trip[t] EXCEPT !.status = to])
  PROVE  KeepsFare
<1> DEFINE row == [trip[t] EXCEPT !.status = to]
<1>1. trip[t] \in Rows
  BY DEF TripInv, TripTypeOK
<1>2. row.agreed = trip[t].agreed /\ row.seq = trip[t].seq /\ row.fare = trip[t].fare
      /\ trip[t].fare \in Nat
  BY <1>1 DEF Rows, Prices, Cents, Unset
<1>3. row.fare >= trip[t].fare
  BY <1>2
<1>4. Write(t, row)
  OBVIOUS
<1> HIDE DEF row
<1> QED BY <1>2, <1>3, <1>4, FareWritten

LEMMA FareReflexive ==
  ASSUME TripInv PROVE \A u \in Trips : trip[u].fare >= trip[u].fare
<1>1. trip \in [Trips -> Rows]
  BY DEF TripInv, TripTypeOK
<1>2. ASSUME NEW r \in Rows PROVE r.fare \in Prices
  BY <1>2 DEF Rows
<1>3. ASSUME NEW p \in Prices PROVE p >= p
  BY <1>3 DEF Prices, Cents, Unset
<1>4. ASSUME NEW u \in Trips PROVE trip[u].fare >= trip[u].fare
  <2>1. trip[u] \in Rows
    BY <1>1, <1>4
  <2> QED BY <1>2, <1>3, <2>1
<1> QED BY <1>4

LEMMA TripUntouched ==
  /\ TripInv /\ UNCHANGED trip => KeepsFare
  /\ TripInv /\ UNCHANGED tripLog => Grows
BY FareReflexive DEF KeepsFare, Grows

LEMMA TripKeepsFare ==
  ASSUME TripInv, TripNext PROVE KeepsFare /\ Grows
<1>t. /\ trip \in [Trips -> Rows]
      /\ leaving \in [Leavers -> Departures \cup {None}]
      /\ rebidding \in [Devices -> Rebids \cup {None}]
  BY DEF TripInv, TripTypeOK
<1>1. ASSUME NEW t \in Trips, NEW bid \in Cents, CreateTrip(t, bid) PROVE KeepsFare /\ Grows
  <2> DEFINE row == [Nowhere EXCEPT !.status = "REQUESTED", !.fare = bid, !.seq = 1]
  <2>1. row.agreed = Unset /\ Write(t, row)
    BY <1>1 DEF Nowhere, CreateTrip
  <2> HIDE DEF row
  <2>2. bid \in Prices /\ 1 \in Seqs /\ None \in SomeDriver
    BY DEF Prices, Seqs, SomeDriver
  <2> QED BY <1>1, <2>1, <2>2, FareWritten, ToldGrows, EventTypes DEF CreateTrip
<1>2. ASSUME NEW t \in Trips,
             \/ \E to \in PostAccept \cup {"IN_PROGRESS"} : Advance(t, to)
             \/ Complete(t)
             \/ \E to \in {"CANCELLED_BY_PASSENGER", "CANCELLED_BY_DRIVER"} : Cancel(t, to)
             \/ Watchdog(t)
      PROVE  KeepsFare /\ Grows
  <2>1. \E to : Write(t, [trip[t] EXCEPT !.status = to])
    BY <1>2 DEF Advance, Complete, Cancel, Watchdog, Cas
  <2>2. UNCHANGED tripLog \/ \E type \in {"completed", "cancelled", "failed", "expired"} :
                               Tell(t, TripEvent(type))
    BY <1>2 DEF Advance, Complete, Cancel, Watchdog
  <2> QED BY <2>1, <2>2, StatusKeepsFare, ToldGrows, EventTypes, TripUntouched
<1>3. ASSUME NEW t \in Trips, NEW fare \in Cents, ChangeDestination(t, fare)
      PROVE  KeepsFare /\ Grows
  <2> DEFINE row == [trip[t] EXCEPT !.fare = fare]
  <2>1. /\ row.agreed = trip[t].agreed /\ row.seq = trip[t].seq /\ row.fare = fare
        /\ trip[t].fare \in Nat /\ fare \in Nat
    BY <1>t DEF Rows, Prices, Cents, Unset
  <2>2. row.fare >= trip[t].fare /\ Write(t, row)
    BY <1>3, <2>1 DEF ChangeDestination
  <2> HIDE DEF row
  <2> QED BY <1>3, <2>1, <2>2, FareWritten, TripUntouched DEF ChangeDestination
<1>4. ASSUME NEW t \in Trips,
             (\E l \in Leavers : ReadToLeave(l, t)) \/ (\E v \in Devices : ReadToRebid(v, t))
      PROVE  KeepsFare /\ Grows
  BY <1>4, TripUntouched DEF ReadToLeave, ReadToRebid
<1>5. ASSUME NEW l \in Leavers, Leave(l) PROVE KeepsFare /\ Grows
  <2> DEFINE read == leaving[l]
             t == read.trip
  <2>1. /\ read \in Departures /\ t \in Trips
        /\ read.reassigns <= MaxReassign
        /\ read.seq < MaxSeq \/ read.reassigns = MaxReassign
    BY <1>5, <1>t DEF Leave, TripInv, Departures
  <2>2. /\ read.fare \in Prices /\ read.driver \in SomeDriver /\ read.seq \in Nat
        /\ read.reassigns \in Nat /\ trip[t] \in Rows
    BY <2>1, <1>t DEF Departures, Seqs
  <2> HIDE DEF read
  <2>3. CASE FailAfterTooManyReassigns(t, read)
    <3>1. CASE UNCHANGED <<trip, tripLog>>
      BY <3>1, TripUntouched
    <3>2. CASE ~UNCHANGED <<trip, tripLog>>
      <4> DEFINE row == [trip[t] EXCEPT !.status = "FAILED", !.driver = None,
                                        !.reassigns = read.reassigns + 1]
      <4>1. Write(t, row) /\ Tell(t, TripEvent("failed"))
        BY <2>3, <3>2 DEF FailAfterTooManyReassigns
      <4>2. /\ row.agreed = trip[t].agreed /\ row.seq = trip[t].seq
            /\ row.fare = trip[t].fare /\ trip[t].fare \in Nat
        BY <2>2 DEF Rows, Prices, Cents, Unset
      <4>3. row.fare >= trip[t].fare
        BY <4>2
      <4> HIDE DEF row
      <4> QED BY <2>1, <4>1, <4>2, <4>3, FareWritten, ToldGrows, EventTypes
    <3> QED BY <3>1, <3>2
  <2>4. CASE Reassign(t, read) /\ ~(read.reassigns + 1 > MaxReassign)
    <3> DEFINE row == [trip[t] EXCEPT !.status = "REASSIGNING", !.driver = None,
                              !.agreed = Unset, !.seq = read.seq + 1,
                              !.reassigns = read.reassigns + 1]
    <3>1. Write(t, row) /\ Tell(t, Opening("reassigning", read.fare, read.seq + 1, read.driver))
      BY <2>4 DEF Reassign
    <3>2. row.agreed = Unset
      BY <2>2 DEF Rows
    <3>3. read.seq + 1 \in Seqs
      BY <2>1, <2>2, <2>4 DEF Seqs
    <3> HIDE DEF row
    <3> QED BY <2>1, <2>2, <3>1, <3>2, <3>3, FareWritten, ToldGrows, EventTypes
  <2> QED BY <1>5, <2>3, <2>4 DEF Leave, read
<1>6. ASSUME NEW v \in Devices, NEW bid \in Cents, Rebid(v, bid) PROVE KeepsFare /\ Grows
  <2> DEFINE read == rebidding[v]
             t == read.trip
  <2>1. read \in Rebids /\ t \in Trips /\ read.seq < MaxSeq /\ read.seq \in Nat
    BY <1>6, <1>t DEF Rebid, TripInv, Rebids, Seqs
  <2> HIDE DEF read
  <2>2. CASE UNCHANGED <<trip, tripLog>>
    BY <2>2, TripUntouched
  <2>3. CASE ~UNCHANGED <<trip, tripLog>>
    <3> DEFINE row == [trip[t] EXCEPT !.status = "REQUESTED", !.fare = bid,
                                    !.driver = None, !.agreed = Unset,
                                    !.reassigns = 0, !.seq = read.seq + 1]
    <3>1. Write(t, row) /\ Tell(t, Opening("bid_posted", bid, read.seq + 1, None))
      BY <1>6, <2>3 DEF Rebid, read
    <3>2. row.agreed = Unset
      BY <1>t, <2>1 DEF Rows
    <3>3. read.seq + 1 \in Seqs /\ bid \in Prices /\ None \in SomeDriver
      BY <2>1 DEF Seqs, Prices, SomeDriver
    <3> HIDE DEF row
    <3> QED BY <2>1, <3>1, <3>2, <3>3, FareWritten, ToldGrows, EventTypes
  <2> QED BY <2>2, <2>3
<1> QED BY <1>1, <1>2, <1>3, <1>4, <1>5, <1>6 DEF TripNext, TripStep

LEMMA BidClosedKeepsFare ==
  ASSUME TripInv, NEW t \in Trips, NEW to, NEW type \in {"expired", "cancelled"},
         CloseBid(t, to, type)
  PROVE  KeepsFare /\ Grows
<1>1. CASE UNCHANGED <<trip, tripLog>>
  BY <1>1, TripUntouched
<1>2. CASE ~UNCHANGED <<trip, tripLog>>
  <2>1. Write(t, [trip[t] EXCEPT !.status = to]) /\ Tell(t, TripEvent(type))
    BY <1>2 DEF CloseBid
  <2> QED BY <2>1, StatusKeepsFare, ToldGrows, EventTypes
<1> QED BY <1>1, <1>2

LEMMA AssignedKeepsFare ==
  ASSUME TripInv, NEW t \in Trips, NEW d, AssignFromDispatch(t, d)
  PROVE  KeepsFare /\ Grows
<1>1. CASE UNCHANGED trip
  BY <1>1, TripUntouched DEF AssignFromDispatch
<1>2. CASE ~UNCHANGED trip
  <2> DEFINE row == [trip[t] EXCEPT !.status = "ASSIGNED", !.driver = d]
  <2>1. Write(t, row) /\ UNCHANGED tripLog
    BY <1>2 DEF AssignFromDispatch
  <2>2. trip[t] \in Rows
    BY DEF TripInv, TripTypeOK
  <2>3. /\ row.agreed = trip[t].agreed /\ row.seq = trip[t].seq
        /\ row.fare = trip[t].fare /\ trip[t].fare \in Nat
    BY <2>2 DEF Rows, Prices, Cents, Unset
  <2>4. row.fare >= trip[t].fare
    BY <2>3
  <2> HIDE DEF row
  <2> QED BY <2>1, <2>3, <2>4, FareWritten, TripUntouched
<1> QED BY <1>1, <1>2

\* A consumed agreement sets the price it carries, in the cycle it carries.
LEMMA AgreedFare ==
  ASSUME TripInv, NEW t \in Trips, NEW price \in Prices, NEW seq,
         ApplyAgreedFare(t, price, seq)
  PROVE  /\ Grows
         /\ \A u \in Trips :
              \/ trip'[u] = trip[u]
              \/ /\ u = t /\ trip[u].agreed = Unset
                 /\ trip'[u].agreed = price /\ trip'[u].seq = seq
<1>1. trip \in [Trips -> Rows] /\ trip[t] \in Rows
  BY DEF TripInv, TripTypeOK
<1>2. Grows
  BY TripUntouched DEF ApplyAgreedFare
<1>3. CASE UNCHANGED trip
  BY <1>2, <1>3
<1>4. CASE ~UNCHANGED trip
  <2> DEFINE row == [trip[t] EXCEPT !.fare = price, !.agreed = price]
  <2>1. trip' = [trip EXCEPT ![t] = row] /\ trip[t].seq = seq /\ trip[t].agreed = Unset
    BY <1>4 DEF ApplyAgreedFare, Write, Agrees
  <2>2. row.agreed = price /\ row.seq = seq
    BY <1>1, <2>1 DEF Rows
  <2> HIDE DEF row
  <2> QED BY <1>1, <1>2, <2>1, <2>2
<1> QED BY <1>3, <1>4

LEMMA BidStays ==
  ASSUME Grows, NEW t \in Trips, NEW seq, NEW price, BidAtMost(tripLog[t], seq, price)
  PROVE  BidAtMost(tripLog'[t], seq, price)
BY DEF Grows, BidAtMost

\* What dispatch holds stays true while the log of a trip grows.
LEMMA HeldStays ==
  ASSUME BoardInv, FareInv, Grows
  PROVE  /\ BoardsBid(board, tripLog') /\ CallsBid(call, tripLog')
         /\ EventsBid(dispatchLog, tripLog')
<1>1. BoardsBid(board, tripLog')
  BY BidStays DEF FareInv, BoardsBid
<1>2. CallsBid(call, tripLog')
  <2>1. \A c \in Calls : call[c].step # "idle" => call[c].trip \in Trips
    BY DEF BoardInv, CallsOK
  <2> QED BY <2>1, BidStays DEF FareInv, CallsBid
<1>3. EventsBid(dispatchLog, tripLog')
  BY BidStays DEF FareInv, EventsBid
<1> QED BY <1>1, <1>2, <1>3

LEMMA FareStays ==
  ASSUME FareInv, Grows, KeepsFare PROVE FareOfItsCycle'
BY BidStays DEF FareInv, FareOfItsCycle, KeepsFare

\* A step of trip that agrees on nothing.
LEMMA TripStepFare ==
  ASSUME BoardInv, FareInv, Grows, KeepsFare, UNCHANGED <<board, call, dispatchLog>>
  PROVE  FareInv'
BY HeldStays, FareStays DEF FareInv

\* Boards keep their bid, or are opened by an event of the log.
LEMMA BoardBidKept ==
  ASSUME BoardsBid(board, tripLog), UNCHANGED tripLog,
         \A t \in Trips : \/ board'[t].status = "none"
                          \/ /\ board[t].status # "none"
                             /\ board'[t].bid = board[t].bid /\ board'[t].seq = board[t].seq
                          \/ BidAtMost(tripLog[t], board'[t].seq, board'[t].bid)
  PROVE  BoardsBid(board', tripLog')
BY DEF BoardsBid

\* One acceptance moves on, with what it carries.
LEMMA CallBidKept ==
  ASSUME CallsOK(call, match), CallsBid(call, tripLog), UNCHANGED tripLog,
         NEW c \in Calls, NEW k, call' = [call EXCEPT ![c] = k],
         k.step = "board" => BidAtMost(tripLog[k.trip], k.seq, k.bid),
         k.step \in {"gate", "driver", "tx"} => BidAtMost(tripLog[k.trip], k.seq, k.price)
  PROVE  CallsBid(call', tripLog')
<1>1. \A x \in Calls : call'[x] = IF x = c THEN k ELSE call[x]
  BY DEF CallsOK
<1> QED BY <1>1 DEF CallsBid

LEMMA CallBidMoves ==
  ASSUME CallsOK(call, match), CallsBid(call, tripLog), UNCHANGED tripLog,
         NEW c \in Calls, NEW step,
         \/ call[c].step \in {"gate", "driver", "tx"} /\ step \in {"driver", "tx"}
         \/ step \notin {"board", "gate", "driver", "tx"},
         Goto(c, step)
  PROVE  CallsBid(call', tripLog')
<1> DEFINE k == [call[c] EXCEPT !.step = step]
<1>1. call[c] \in CallStates
  BY DEF CallsOK
<1>2. k.step = step /\ k.trip = call[c].trip /\ k.seq = call[c].seq /\ k.price = call[c].price
  BY <1>1 DEF CallStates
<1>3. call' = [call EXCEPT ![c] = k]
  BY DEF Goto
<1>4. step \in {"gate", "driver", "tx"} => BidAtMost(tripLog[k.trip], k.seq, k.price)
  BY <1>2 DEF CallsBid
<1>5. step # "board"
  OBVIOUS
<1> HIDE DEF k
<1> QED BY <1>2, <1>3, <1>4, <1>5, CallBidKept

LEMMA CallBidEnds ==
  ASSUME CallsOK(call, match), CallsBid(call, tripLog), UNCHANGED tripLog,
         NEW c \in Calls, Done(c)
  PROVE  CallsBid(call', tripLog')
BY CallBidKept DEF Done, Idle

\* What is added to the log of dispatch carries a price a bid allows.
LEMMA EventBidKept ==
  ASSUME BoardInv, EventsBid(dispatchLog, tripLog), UNCHANGED tripLog,
         NEW t \in Trips, NEW e \in BoardEvents, NEW f \in BoardEvents, f.type # "offer_accepted",
         e.type = "offer_accepted" => BidAtMost(tripLog[t], e.seq, e.price),
         Emit(t, <<e>>) \/ Emit(t, <<e, f>>)
  PROVE  EventsBid(dispatchLog', tripLog')
<1>1. dispatchLog \in [Trips -> Seq(BoardEvents)] /\ dispatchLog[t] \in Seq(BoardEvents)
  BY DEF BoardInv, LogOK
<1> DEFINE log == dispatchLog'[t]
<1>2. /\ \A u \in Trips : u # t => dispatchLog'[u] = dispatchLog[u]
      /\ log = dispatchLog[t] \o <<e>> \/ log = dispatchLog[t] \o <<e, f>>
  BY <1>1 DEF Emit
<1>3. \A i \in DOMAIN log : log[i] = e \/ log[i] = f \/ \E j \in DOMAIN dispatchLog[t] :
                                                            log[i] = dispatchLog[t][j]
  <2>1. CASE log = dispatchLog[t] \o <<e>>
    BY <1>1, <2>1
  <2>2. CASE log = dispatchLog[t] \o <<e, f>>
    BY <1>1, <2>2
  <2> QED BY <1>2, <2>1, <2>2
<1> HIDE DEF log
<1>4. ASSUME NEW i \in DOMAIN log, log[i].type = "offer_accepted"
      PROVE  BidAtMost(tripLog[t], log[i].seq, log[i].price)
  <2>1. CASE log[i] = e \/ log[i] = f
    BY <1>4, <2>1
  <2>2. CASE \E j \in DOMAIN dispatchLog[t] : log[i] = dispatchLog[t][j]
    BY <1>4, <2>2 DEF EventsBid
  <2> QED BY <1>3, <1>4, <2>1, <2>2
<1>5. ASSUME NEW u \in Trips, u # t, NEW i \in DOMAIN dispatchLog'[u],
             dispatchLog'[u][i].type = "offer_accepted"
      PROVE  BidAtMost(tripLog[u], dispatchLog'[u][i].seq, dispatchLog'[u][i].price)
  BY <1>2, <1>5 DEF EventsBid
<1> USE DEF log
<1>6. ASSUME NEW u \in Trips, NEW i \in DOMAIN dispatchLog'[u],
             dispatchLog'[u][i].type = "offer_accepted"
      PROVE  BidAtMost(tripLog'[u], dispatchLog'[u][i].seq, dispatchLog'[u][i].price)
  <2>1. CASE u = t
    BY <1>4, <1>6, <2>1
  <2>2. CASE u # t
    BY <1>5, <1>6, <2>2
  <2> QED BY <2>1, <2>2
<1> HIDE DEF log
<1> QED BY <1>6 DEF EventsBid

LEMMA BidAtLess ==
  ASSUME TripInv, NEW t \in Trips, NEW seq, NEW bid \in Nat, NEW price \in Nat, bid <= price,
         BidAtMost(tripLog[t], seq, bid)
  PROVE  BidAtMost(tripLog[t], seq, price)
<1>1. tripLog[t] \in Seq(TripEvents)
  BY DEF TripInv, TripTypeOK
<1>2. \A i \in DOMAIN tripLog[t] : tripLog[t][i].bid \in Nat
  <2>1. ASSUME NEW i \in DOMAIN tripLog[t] PROVE tripLog[t][i] \in TripEvents
    BY <1>1
  <2> QED BY <2>1 DEF TripEvents, Prices, Cents, Unset
<1>3. PICK i \in DOMAIN tripLog[t] : /\ Opens(tripLog[t][i]) /\ tripLog[t][i].seq = seq
                                     /\ tripLog[t][i].bid <= bid
  BY DEF BidAtMost
<1>4. tripLog[t][i].bid <= price
  BY <1>2, <1>3
<1> QED BY <1>3, <1>4 DEF BidAtMost

LEMMA AcceptStepFare ==
  ASSUME TripInv, BoardInv, FareInv, UNCHANGED tripVars, NEW c \in Calls, AcceptStep(c)
  PROVE  BoardsBid(board', tripLog') /\ CallsBid(call', tripLog')
         /\ EventsBid(dispatchLog', tripLog')
<1>t. /\ CallsOK(call, match) /\ CallsBid(call, tripLog) /\ BoardsBid(board, tripLog)
      /\ EventsBid(dispatchLog, tripLog) /\ UNCHANGED tripLog
      /\ board \in [Trips -> Boards] /\ call[c] \in CallStates
      /\ offers \in [Trips -> [Drivers -> Offers]]
      /\ \A t \in Trips : board[t].bid \in Nat
  BY DEF BoardInv, FareInv, CallsOK, BoardsOK, KeysOK, tripVars, Boards, Prices, Cents, Unset
<1>c. ~At(c, "idle") => call[c].trip \in Trips /\ call[c].driver \in Drivers
  BY <1>t DEF CallsOK, At
<1>b. UNCHANGED board => BoardsBid(board', tripLog')
  BY <1>t DEF BoardsBid
<1>e. UNCHANGED dispatchLog => EventsBid(dispatchLog', tripLog')
  BY <1>t DEF EventsBid
<1>1. ASSUME NEW t \in Trips, NEW d \in Drivers, ReadBoard(c, t, d)
      PROVE  CallsBid(call', tripLog')
  <2> DEFINE k == [step |-> "board", trip |-> t, driver |-> d,
                   bid |-> board[t].bid, seq |-> board[t].seq, price |-> Unset]
  <2>1. call' = [call EXCEPT ![c] = k] /\ board[t].status # "none"
    BY <1>1 DEF ReadBoard
  <2>2. /\ k.step = "board" /\ BidAtMost(tripLog[k.trip], k.seq, k.bid)
    BY <1>t, <2>1 DEF BoardsBid
  <2> HIDE DEF k
  <2> QED BY <1>t, <2>1, <2>2, CallBidKept
<1>2. CASE ReadOffer(c)
  <2>1. CASE Done(c)
    BY <1>2, <1>t, <1>b, <1>e, <2>1, CallBidEnds DEF ReadOffer
  <2>2. CASE ~Done(c)
    <3> DEFINE offer == offers[call[c].trip][call[c].driver]
               k == [call[c] EXCEPT !.step = "gate", !.price = offer.price, !.bid = Unset]
    <3>1. /\ call' = [call EXCEPT ![c] = k] /\ At(c, "board")
          /\ ValidPrice(offer.kind, offer.price, call[c].bid)
      BY <1>2, <2>2 DEF ReadOffer
    <3>2. offer.price \in Nat /\ call[c].bid \in Nat /\ call[c].trip \in Trips
      <4>1. call[c].trip \in Trips /\ call[c].driver \in Drivers
        BY <1>c, <3>1 DEF At
      <4>2. offer \in Offers
        BY <1>t, <4>1
      <4> QED BY <1>t, <4>1, <4>2 DEF Offers, CallStates, Prices, Cents, Unset
    <3>3. call[c].bid <= offer.price
      BY <3>1, <3>2 DEF ValidPrice
    <3>4. BidAtMost(tripLog[call[c].trip], call[c].seq, call[c].bid)
      BY <1>t, <3>1 DEF CallsBid, At
    <3>5. BidAtMost(tripLog[call[c].trip], call[c].seq, offer.price)
      BY <3>2, <3>3, <3>4, BidAtLess
    <3> HIDE DEF offer
    <3>6. k.step = "gate" /\ k.trip = call[c].trip /\ k.seq = call[c].seq /\ k.price = offer.price
      BY <1>t DEF CallStates
    <3> HIDE DEF k
    <3>7. CallsBid(call', tripLog')
      BY <1>t, <3>1, <3>5, <3>6, CallBidKept
    <3> QED BY <1>2, <1>b, <1>e, <3>7 DEF ReadOffer
  <2> QED BY <2>1, <2>2
<1>3. CASE Ineligible(c) \/ ReleaseClaim(c) \/ Lapse(c) \/ Die(c)
  <2>1. Done(c) /\ UNCHANGED <<board, dispatchLog>>
    BY <1>3 DEF Ineligible, ReleaseClaim, Lapse, Die
  <2> QED BY <1>t, <1>b, <1>e, <2>1, CallBidEnds
<1>4. CASE ClaimBoard(c)
  <2> DEFINE t == call[c].trip
             d == call[c].driver
  <2>1. t \in Trips /\ UNCHANGED dispatchLog
    BY <1>4, <1>c DEF ClaimBoard, At
  <2>2. CASE Done(c) /\ UNCHANGED board
    BY <1>t, <1>b, <1>e, <2>1, <2>2, CallBidEnds
  <2>3. CASE ~(Done(c) /\ UNCHANGED board)
    <3>1. /\ Goto(c, "driver") /\ call[c].step = "gate" /\ board[t].status = "OPEN"
          /\ board' = [board EXCEPT ![t].status = "CLOSED_MATCHED", ![t].driver = d,
                                    ![t].emitted = FALSE]
      BY <1>4, <2>3 DEF ClaimBoard, At
    <3>2. CallsBid(call', tripLog')
      BY <1>t, <3>1, CallBidMoves
    <3>3. \A u \in Trips : \/ board'[u].status = "none"
                           \/ /\ board[u].status # "none"
                              /\ board'[u].bid = board[u].bid /\ board'[u].seq = board[u].seq
      <4>1. ASSUME NEW u \in Trips PROVE /\ board'[u].bid = board[u].bid
                                         /\ board'[u].seq = board[u].seq
                                         /\ u # t => board'[u] = board[u]
        BY <1>t, <2>1, <3>1 DEF Boards
      <4> QED BY <4>1, <3>1
    <3>4. BoardsBid(board', tripLog')
      BY <1>t, <3>3, BoardBidKept
    <3> QED BY <1>e, <2>1, <3>2, <3>4
  <2> QED BY <2>2, <2>3
<1>5. CASE ClaimDriver(c)
  <2>1. CallsBid(call', tripLog')
    BY <1>5, <1>t, CallBidMoves DEF ClaimDriver, At
  <2> QED BY <1>5, <1>b, <1>e, <2>1 DEF ClaimDriver
<1>6. CASE Commit(c)
  <2> DEFINE t == call[c].trip
             k == [call[c] EXCEPT !.step = "mark", !.price = Unset]
  <2>1. /\ call' = [call EXCEPT ![c] = k] /\ call[c].step = "tx" /\ UNCHANGED board
        /\ t \in Trips
    BY <1>6, <1>c DEF Commit, At
  <2>2. k.step = "mark"
    BY <1>t DEF CallStates
  <2> HIDE DEF k
  <2>3. CallsBid(call', tripLog')
    BY <1>t, <2>1, <2>2, CallBidKept
  <2>4. CASE UNCHANGED dispatchLog
    BY <1>b, <1>e, <2>1, <2>3, <2>4
  <2>5. CASE ~UNCHANGED dispatchLog
    <3> DEFINE e == [type |-> "offer_accepted", driver |-> call[c].driver,
                     price |-> call[c].price, seq |-> call[c].seq]
               f == BoardEvent("match_found", call[c].driver)
    <3>1. Emit(t, <<e, f>>)
      BY <1>6, <2>5 DEF Commit, Accepted
    <3>2. e \in BoardEvents /\ f \in BoardEvents
      BY <1>t DEF CallStates, BoardEvents, BoardEvent, Prices, Seqs, Unset
    <3>3. f.type # "offer_accepted"
      BY DEF BoardEvent
    <3>4. BidAtMost(tripLog[t], call[c].seq, call[c].price)
      BY <1>t, <2>1 DEF CallsBid
    <3>5. e.seq = call[c].seq /\ e.price = call[c].price
      OBVIOUS
    <3> HIDE DEF e, f
    <3>6. EventsBid(dispatchLog', tripLog')
      BY <1>t, <2>1, <3>1, <3>2, <3>3, <3>4, <3>5, EventBidKept
    <3> QED BY <1>b, <2>1, <2>3, <3>6
  <2> QED BY <2>4, <2>5
<1>7. CASE CommitFails(c)
  <2>1. CallsBid(call', tripLog')
    BY <1>7, <1>t, CallBidMoves DEF CommitFails
  <2> QED BY <1>7, <1>b, <1>e, <2>1 DEF CommitFails
<1>8. CASE RevertClaim(c) \/ MarkEmitted(c)
  <2> DEFINE t == call[c].trip
  <2>1. t \in Trips /\ UNCHANGED dispatchLog
    BY <1>8, <1>c DEF RevertClaim, MarkEmitted, At
  <2>2. CallsBid(call', tripLog')
    BY <1>8, <1>t, CallBidMoves, CallBidEnds DEF RevertClaim, MarkEmitted
  <2>3. \A u \in Trips : \/ board'[u].status = "none"
                         \/ /\ board[u].status # "none"
                            /\ board'[u].bid = board[u].bid /\ board'[u].seq = board[u].seq
    <3>1. CASE UNCHANGED board
      BY <3>1
    <3>2. CASE /\ board[t].status = "CLOSED_MATCHED"
               /\ board' = [board EXCEPT ![t].status = "OPEN", ![t].driver = None]
      <4>1. ASSUME NEW u \in Trips PROVE /\ board'[u].bid = board[u].bid
                                         /\ board'[u].seq = board[u].seq
                                         /\ u # t => board'[u] = board[u]
        BY <1>t, <2>1, <3>2 DEF Boards
      <4> QED BY <3>2, <4>1
    <3>3. CASE board' = [board EXCEPT ![t].emitted = TRUE]
      <4>1. ASSUME NEW u \in Trips PROVE /\ board'[u].bid = board[u].bid
                                         /\ board'[u].seq = board[u].seq
                                         /\ board'[u].status = board[u].status
        BY <1>t, <2>1, <3>3 DEF Boards
      <4> QED BY <4>1
    <3> QED BY <1>8, <3>1, <3>2, <3>3 DEF RevertClaim, MarkEmitted
  <2>4. BoardsBid(board', tripLog')
    BY <1>t, <2>3, BoardBidKept
  <2> QED BY <1>e, <2>1, <2>2, <2>4
<1>9. ASSUME NEW t \in Trips, NEW d \in Drivers, ReadBoard(c, t, d)
      PROVE  UNCHANGED <<board, dispatchLog>>
  BY <1>9 DEF ReadBoard
<1> QED BY <1>1, <1>2, <1>3, <1>4, <1>5, <1>6, <1>7, <1>8, <1>9, <1>b, <1>e DEF AcceptStep

\* Closing a board to offers leaves its bid.
LEMMA ClosedBidKept ==
  ASSUME BoardInv, FareInv, UNCHANGED tripLog, NEW t \in Trips,
         \/ UNCHANGED board
         \/ board[t].status # "none" /\ \E status : board' = [board EXCEPT ![t].status = status]
         \/ board' = [board EXCEPT ![t].emitted = TRUE]
  PROVE  BoardsBid(board', tripLog')
<1>t. BoardsBid(board, tripLog) /\ board \in [Trips -> Boards]
  BY DEF BoardInv, FareInv, BoardsOK
<1>1. CASE UNCHANGED board
  BY <1>1, <1>t, BoardBidKept
<1>2. CASE board[t].status # "none" /\ \E status : board' = [board EXCEPT ![t].status = status]
  <2>1. PICK status : board' = [board EXCEPT ![t].status = status]
    BY <1>2
  <2>2. ASSUME NEW u \in Trips PROVE /\ board'[u].bid = board[u].bid
                                     /\ board'[u].seq = board[u].seq
                                     /\ u # t => board'[u] = board[u]
    BY <1>t, <2>1 DEF Boards
  <2> QED BY <1>2, <1>t, <2>2, BoardBidKept
<1>3. CASE board' = [board EXCEPT ![t].emitted = TRUE]
  <2>1. ASSUME NEW u \in Trips PROVE /\ board'[u].bid = board[u].bid
                                     /\ board'[u].seq = board[u].seq
                                     /\ board'[u].status = board[u].status
    BY <1>3, <1>t DEF Boards
  <2> QED BY <1>t, <2>1, BoardBidKept
<1> QED BY <1>1, <1>2, <1>3

LEMMA OpenedBid ==
  ASSUME TripInv, BoardInv, FareInv, UNCHANGED tripLog, NEW t \in Trips,
         NEW i \in DOMAIN tripLog[t], Opens(tripLog[t][i]),
         OpenBoard(t, tripLog[t][i].bid, tripLog[t][i].seq)
  PROVE  BoardsBid(board', tripLog')
<1> DEFINE e == tripLog[t][i]
           b == [status |-> "OPEN", bid |-> e.bid, seq |-> e.seq, driver |-> None,
                 emitted |-> FALSE]
<1>t. BoardsBid(board, tripLog) /\ board \in [Trips -> Boards] /\ tripLog[t] \in Seq(TripEvents)
  BY DEF BoardInv, FareInv, BoardsOK, TripInv, TripTypeOK
<1>1. e.bid \in Nat
  <2>1. e \in TripEvents
    BY <1>t
  <2> QED BY <2>1 DEF TripEvents, Prices, Cents, Unset
<1>2. BidAtMost(tripLog[t], e.seq, e.bid)
  BY <1>1 DEF BidAtMost
<1>3. board' = [board EXCEPT ![t] = b] /\ b.seq = e.seq /\ b.bid = e.bid
  BY DEF OpenBoard
<1> HIDE DEF e, b
<1>4. \A u \in Trips : board'[u] = IF u = t THEN b ELSE board[u]
  BY <1>t, <1>3
<1> QED BY <1>t, <1>2, <1>3, <1>4, BoardBidKept

LEMMA BoardNextFare ==
  ASSUME TripInv, BoardInv, FareInv, UNCHANGED tripVars,
         BoardNext \/ \E t \in Impatient : CancelBid(t)
  PROVE  FareInv'
<1>t. /\ CallsBid(call, tripLog) /\ BoardsBid(board, tripLog) /\ EventsBid(dispatchLog, tripLog)
      /\ UNCHANGED tripLog /\ FareOfItsCycle'
  BY DEF FareInv, tripVars, FareOfItsCycle
<1>b. UNCHANGED board => BoardsBid(board', tripLog')
  BY <1>t DEF BoardsBid
<1>c. UNCHANGED call => CallsBid(call', tripLog')
  BY <1>t DEF CallsBid
<1>e. UNCHANGED dispatchLog => EventsBid(dispatchLog', tripLog')
  BY <1>t DEF EventsBid
<1>n. ASSUME NEW t \in Trips, NEW type \in {"no_offers", "bid_cancelled"},
             Emit(t, <<BoardEvent(type, None)>>)
      PROVE  EventsBid(dispatchLog', tripLog')
  <2>1. BoardEvent(type, None) \in BoardEvents /\ BoardEvent(type, None).type # "offer_accepted"
    BY NoDriverEvents DEF BoardEvent
  <2> QED BY <1>n, <1>t, <2>1, EventBidKept
<1>1. CASE \E c \in Calls : AcceptStep(c)
  BY <1>1, <1>t, AcceptStepFare DEF FareInv
<1>2. CASE \/ \E d \in Drivers, t \in Trips : ReadToOffer(d, t)
           \/ \E d \in Drivers, kind \in {"ACCEPT_PRICE", "COUNTER"}, price \in Cents :
                SubmitOffer(d, kind, price)
           \/ \E d \in Drivers : ClaimElsewhere(d) \/ EndElsewhere(d)
           \/ \E t \in Trips : ReadUnmarked(t)
  <2>1. UNCHANGED <<board, call, dispatchLog>>
    BY <1>2 DEF ReadToOffer, SubmitOffer, ClaimElsewhere, EndElsewhere, ReadUnmarked
  <2> QED BY <1>t, <1>b, <1>c, <1>e, <2>1 DEF FareInv
<1>3. ASSUME NEW t \in Trips, Reconcile(t) PROVE FareInv'
  <2>1. BoardsBid(board', tripLog')
    BY <1>3, <1>t, ClosedBidKept DEF Reconcile
  <2> QED BY <1>3, <1>t, <1>c, <1>e, <2>1 DEF Reconcile, FareInv
<1>4. ASSUME NEW t \in Trips, Sweep(t) PROVE FareInv'
  <2>1. BoardsBid(board', tripLog')
    BY <1>4, <1>t, ClosedBidKept DEF Sweep
  <2>2. EventsBid(dispatchLog', tripLog')
    BY <1>4, <1>e, <1>n DEF Sweep
  <2> QED BY <1>4, <1>t, <1>c, <2>1, <2>2 DEF Sweep, FareInv
<1>5. ASSUME NEW t \in Impatient, CancelBid(t) PROVE FareInv'
  <2>1. BoardsBid(board', tripLog')
    BY <1>5, <1>t, ClosedBidKept DEF CancelBid, CloseBoard
  <2>2. EventsBid(dispatchLog', tripLog')
    BY <1>5, <1>e, <1>n DEF CancelBid
  <2> QED BY <1>5, <1>t, <1>c, <2>1, <2>2 DEF CancelBid, FareInv
<1> QED BY <1>1, <1>2, <1>3, <1>4, <1>5 DEF BoardNext

LEMMA TripEventsFare ==
  ASSUME TripInv, BoardInv, FareInv, UNCHANGED tripVars, NEW t \in Trips,
         NEW i \in DOMAIN tripLog[t],
         \/ Opens(tripLog[t][i]) /\ (OnBidPosted(t, tripLog[t][i]) \/ OnReassigning(t, tripLog[t][i]))
         \/ OnTripOver(t) \/ OnTripEnded(t)
  PROVE  FareInv'
<1>t. /\ CallsBid(call, tripLog) /\ BoardsBid(board, tripLog) /\ EventsBid(dispatchLog, tripLog)
      /\ UNCHANGED tripLog /\ FareOfItsCycle'
  BY DEF FareInv, tripVars, FareOfItsCycle
<1>1. UNCHANGED <<call, dispatchLog>>
  BY DEF OnBidPosted, OnReassigning, OnTripOver, OnTripEnded
<1>2. CallsBid(call', tripLog') /\ EventsBid(dispatchLog', tripLog')
  BY <1>t, <1>1 DEF CallsBid, EventsBid
<1>3. BoardsBid(board', tripLog')
  <2>1. CASE Opens(tripLog[t][i]) /\ OpenBoard(t, tripLog[t][i].bid, tripLog[t][i].seq)
    BY <2>1, <1>t, OpenedBid
  <2>2. CASE CloseBoard(t) \/ UNCHANGED board
    BY <2>2, <1>t, ClosedBidKept DEF CloseBoard
  <2> QED BY <2>1, <2>2 DEF OnBidPosted, OnReassigning, OnTripOver, OnTripEnded
<1> QED BY <1>t, <1>2, <1>3 DEF FareInv

\* Besides the invariant, no step lowers a fare while an agreement stands.
FareRises ==
  \A t \in Trips : trip[t].agreed # Unset /\ trip'[t].agreed # Unset
                     => trip'[t].fare >= trip[t].fare

LEMMA RideNextFare ==
  ASSUME RideInv, FareInv, [RideNext]_rideVars PROVE FareInv' /\ FareRises
<1>t. /\ TripInv /\ BoardInv
      /\ \A t \in Trips : tripLog[t] \in Seq(TripEvents) /\ dispatchLog[t] \in Seq(BoardEvents)
  BY DEF RideInv, BoardInv, TripInv, TripTypeOK, LogOK
<1>r. KeepsFare => FareRises
  BY DEF KeepsFare, FareRises
<1>a. UNCHANGED tripVars => KeepsFare
  BY <1>t, TripUntouched DEF tripVars
<1>k. ASSUME Grows, KeepsFare, UNCHANGED boardVars PROVE FareInv' /\ FareRises
  BY <1>k, <1>t, <1>r, TripStepFare DEF boardVars
<1>1. CASE TripNext /\ UNCHANGED <<boardVars, seen>>
  BY <1>1, <1>t, <1>k, TripKeepsFare
<1>2. CASE BoardNext /\ UNCHANGED <<tripVars, seen>>
  BY <1>2, <1>t, <1>a, <1>r, BoardNextFare
<1>3. ASSUME NEW t \in Impatient, GiveUp(t) PROVE FareInv' /\ FareRises
  BY <1>3, <1>t, <1>a, <1>r, BoardNextFare DEF GiveUp
<1>4. ASSUME NEW t \in Trips, DispatchHears(t) PROVE FareInv' /\ FareRises
  <2>1. PICK i \in DOMAIN tripLog[t] :
          \/ Opens(tripLog[t][i]) /\ (OnBidPosted(t, tripLog[t][i]) \/ OnReassigning(t, tripLog[t][i]))
          \/ OnTripOver(t) \/ OnTripEnded(t)
    BY <1>4 DEF DispatchHears, Opens
  <2> QED BY <1>4, <1>t, <1>a, <1>r, <2>1, TripEventsFare DEF DispatchHears
<1>5. ASSUME NEW t \in Trips, PujaHears(t) PROVE FareInv' /\ FareRises
  <2>1. PICK i \in DOMAIN dispatchLog[t] :
          LET e == dispatchLog[t][i] IN
          \/ e.type = "offer_accepted" /\ ApplyAgreedFare(t, e.price, e.seq)
          \/ CloseBid(t, "EXPIRED", "expired")
          \/ CloseBid(t, "CANCELLED_BY_PASSENGER", "cancelled")
    BY <1>5 DEF PujaHears
  <2>u. UNCHANGED boardVars
    BY <1>5 DEF PujaHears
  <2>2. CASE CloseBid(t, "EXPIRED", "expired") \/ CloseBid(t, "CANCELLED_BY_PASSENGER", "cancelled")
    BY <1>k, <1>t, <2>2, <2>u, BidClosedKeepsFare
  <2>3. CASE /\ dispatchLog[t][i].type = "offer_accepted"
             /\ ApplyAgreedFare(t, dispatchLog[t][i].price, dispatchLog[t][i].seq)
    <3> DEFINE price == dispatchLog[t][i].price
               seq == dispatchLog[t][i].seq
    <3>1. price \in Prices
      <4>1. dispatchLog[t][i] \in BoardEvents
        BY <1>t
      <4> QED BY <4>1 DEF BoardEvents
    <3>2. BidAtMost(tripLog[t], seq, price)
      BY <2>3 DEF FareInv, EventsBid
    <3> HIDE DEF price, seq
    <3>3. ApplyAgreedFare(t, price, seq)
      BY <2>3 DEF price, seq
    <3>4. /\ Grows
          /\ \A u \in Trips :
               \/ trip'[u] = trip[u]
               \/ /\ u = t /\ trip[u].agreed = Unset
                  /\ trip'[u].agreed = price /\ trip'[u].seq = seq
      BY <1>t, <3>1, <3>3, AgreedFare
    <3>5. FareOfItsCycle'
      BY <3>2, <3>4, BidStays DEF FareInv, FareOfItsCycle
    <3>6. BoardsBid(board', tripLog') /\ CallsBid(call', tripLog')
          /\ EventsBid(dispatchLog', tripLog')
      BY <1>t, <2>u, <3>4, HeldStays DEF boardVars
    <3>7. \A u \in Trips : trip[u].fare >= trip[u].fare
      BY <1>t, FareReflexive
    <3>8. FareRises
      BY <3>4, <3>7 DEF FareRises
    <3> QED BY <3>5, <3>6, <3>8 DEF FareInv
  <2> QED BY <2>1, <2>2, <2>3
<1>6. ASSUME NEW t \in Trips, MatchHears(t) PROVE FareInv' /\ FareRises
  <2>1. \E d : AssignFromDispatch(t, d)
    BY <1>6 DEF MatchHears
  <2> QED BY <1>6, <1>k, <1>t, <2>1, AssignedKeepsFare DEF MatchHears
<1>7. ASSUME NEW g \in Groups, NEW t \in Trips, Redeliver(g, t) PROVE FareInv' /\ FareRises
  <2>1. UNCHANGED <<trip, tripLog, board, call, dispatchLog>>
    BY <1>7 DEF Redeliver, tripVars
  <2>2. Grows /\ KeepsFare
    BY <1>t, <2>1, TripUntouched
  <2> QED BY <1>t, <1>r, <2>1, <2>2, TripStepFare
<1>8. CASE UNCHANGED rideVars
  <2>1. UNCHANGED <<trip, tripLog>> /\ UNCHANGED boardVars
    BY <1>8 DEF rideVars, tripVars
  <2>2. Grows /\ KeepsFare
    BY <1>t, <2>1, TripUntouched
  <2> QED BY <1>k, <2>1, <2>2
<1> QED BY <1>1, <1>2, <1>3, <1>4, <1>5, <1>6, <1>7, <1>8 DEF RideNext

LEMMA FareInvariance == RideSpec => []FareInv
<1>1. RideInit => FareInv
  BY DEF RideInit, TripInit, BoardInit, FareInv, BoardsBid, CallsBid, EventsBid, NoBoard, Idle,
         FareOfItsCycle, Nowhere
<1>2. RideInv /\ FareInv /\ [RideNext]_rideVars => FareInv'
  BY RideNextFare
<1> QED BY <1>1, <1>2, Invariance, PTL DEF RideSpec

\* An agreed fare does not undercut the bid of the cycle the trip is in, however many
\* acceptances, departures and rebids act on what they read (N8, H13).
THEOREM FareAlwaysOfItsCycle == RideSpec => []FareOfItsCycle
<1>1. FareInv => FareOfItsCycle
  BY DEF FareInv
<1> QED BY <1>1, FareInvariance, PTL

\* The fare never falls while an agreement stands (N7, A3).
THEOREM FareNeverFalls == RideSpec => FareOnlyRises
<1>1. RideInv /\ FareInv /\ [RideNext]_rideVars
        => [\A t \in Trips : trip[t].agreed # Unset /\ trip'[t].agreed # Unset
                               => trip'[t].fare >= trip[t].fare]_rideVars
  BY RideNextFare DEF FareRises
<1> QED BY <1>1, Invariance, FareInvariance, PTL DEF RideSpec, FareOnlyRises

-----------------------------------------------------------------------------
(* The deal.  For each step, what it does to the row of a trip, to its bids and *)
(* to its deals; DealInv adds that a trip has a deal only with its match.       *)

BidOf(e) == [cycle |-> e.seq, cents |-> e.bid]
SameBids == \A u \in Trips : BidsOf(tripLog'[u]) = BidsOf(tripLog[u])
BidMade(t, b) ==
  \A u \in Trips :
    BidsOf(tripLog'[u]) = IF u = t THEN BidsOf(tripLog[u]) \cup {b} ELSE BidsOf(tripLog[u])
SameDeals == \A u \in Trips : DealsOf(dispatchLog'[u]) = DealsOf(dispatchLog[u])
DealMade(t, deal) ==
  \A u \in Trips :
    DealsOf(dispatchLog'[u]) =
      IF u = t THEN DealsOf(dispatchLog[u]) \cup {deal} ELSE DealsOf(dispatchLog[u])

RowMoves(t, seq, fare, agreed, driver) ==
  /\ \A u \in Trips : u # t => trip'[u] = trip[u]
  /\ trip'[t].seq = seq /\ trip'[t].fare = fare
  /\ trip'[t].agreed = agreed /\ trip'[t].driver = driver

Bids(t) ==
  \E b : \E fare \in {trip[t].fare, b.cents} :
    BidMade(t, b) /\ RowMoves(t, b.cycle, fare, Unset, None)
Rests(t) ==
  SameBids /\ RowMoves(t, trip[t].seq, trip[t].fare, trip[t].agreed, trip[t].driver)
TakesDriver(t, d) ==
  SameBids /\ RowMoves(t, trip[t].seq, trip[t].fare, trip[t].agreed, d)
Raises(t) ==
  SameBids /\ \E fare : /\ fare > trip[t].fare
                        /\ RowMoves(t, trip[t].seq, fare, trip[t].agreed, trip[t].driver)
TakesPrice(t, seq, price) ==
  /\ SameBids /\ trip[t].agreed = Unset /\ trip[t].seq = seq
  /\ RowMoves(t, seq, price, price, trip[t].driver)

Commits(t) ==
  /\ match[t] = None
  /\ \E d \in Drivers : \E seq, price :
       /\ match' = [match EXCEPT ![t] = d]
       /\ DealMade(t, [driver |-> d, cycle |-> seq, price |-> price])
       /\ BidAtMost(tripLog[t], seq, price)

DealInv ==
  \A t \in Trips :
    /\ match[t] = None => DealsOf(dispatchLog[t]) = {}
    /\ match[t] # None => \E deal \in DealsOf(dispatchLog[t]) : deal.driver = match[t]

LEMMA BidsAppended ==
  ASSUME NEW log \in Seq(TripEvents), NEW e \in TripEvents
  PROVE  BidsOf(Append(log, e)) = IF Opens(e) THEN BidsOf(log) \cup {BidOf(e)} ELSE BidsOf(log)
<1> DEFINE more == Append(log, e)
           new == Len(log) + 1
<1>1. /\ \A i : i \in DOMAIN more <=> i \in DOMAIN log \/ i = new
      /\ new \notin DOMAIN log /\ more[new] = e
      /\ \A i \in DOMAIN log : more[i] = log[i]
  BY AppendProperties
<1> HIDE DEF more, new
<1>2. ASSUME NEW b PROVE b \in BidsOf(more) <=> b \in BidsOf(log) \/ (Opens(e) /\ b = BidOf(e))
  BY <1>1 DEF BidsOf, BidOf
<1>3. BidsOf(more) = IF Opens(e) THEN BidsOf(log) \cup {BidOf(e)} ELSE BidsOf(log)
  BY <1>2
<1> QED BY <1>3 DEF more

LEMMA BidTold ==
  ASSUME TripInv, NEW t \in Trips, NEW e \in TripEvents, Tell(t, e)
  PROVE  /\ Opens(e) => BidMade(t, BidOf(e))
         /\ ~Opens(e) => SameBids
<1>1. tripLog \in [Trips -> Seq(TripEvents)] /\ tripLog[t] \in Seq(TripEvents)
  BY DEF TripInv, TripTypeOK
<1>2. \A u \in Trips : tripLog'[u] = IF u = t THEN Append(tripLog[t], e) ELSE tripLog[u]
  BY <1>1 DEF Tell
<1>3. BidsOf(Append(tripLog[t], e)) =
        IF Opens(e) THEN BidsOf(tripLog[t]) \cup {BidOf(e)} ELSE BidsOf(tripLog[t])
  BY <1>1, BidsAppended
<1> QED BY <1>2, <1>3 DEF BidMade, SameBids

LEMMA RowMoved ==
  ASSUME TripInv, NEW t \in Trips, NEW row, Write(t, row)
  PROVE  RowMoves(t, row.seq, row.fare, row.agreed, row.driver)
<1>1. trip \in [Trips -> Rows]
  BY DEF TripInv, TripTypeOK
<1>2. \A u \in Trips : trip'[u] = IF u = t THEN row ELSE trip[u]
  BY <1>1 DEF Write
<1> QED BY <1>2 DEF RowMoves

LEMMA NoBidTold ==
  /\ UNCHANGED tripLog => SameBids
  /\ \A type \in {"cancelled", "expired", "failed", "completed"} : ~Opens(TripEvent(type))
BY DEF SameBids, TripEvent, Opens

LEMMA StatusRests ==
  ASSUME TripInv, NEW t \in Trips, NEW to, Write(t, [trip[t] EXCEPT !.status = to]),
         \/ UNCHANGED tripLog
         \/ \E type \in {"cancelled", "expired", "failed", "completed"} : Tell(t, TripEvent(type))
  PROVE  Rests(t)
<1> DEFINE row == [trip[t] EXCEPT !.status = to]
<1>1. trip[t] \in Rows
  BY DEF TripInv, TripTypeOK
<1>2. /\ row.seq = trip[t].seq /\ row.fare = trip[t].fare
      /\ row.agreed = trip[t].agreed /\ row.driver = trip[t].driver
  BY <1>1 DEF Rows
<1>3. Write(t, row)
  OBVIOUS
<1> HIDE DEF row
<1>4. SameBids
  BY BidTold, NoBidTold, EventTypes
<1> QED BY <1>2, <1>3, <1>4, RowMoved DEF Rests

LEMMA TripMoves ==
  ASSUME TripInv, TripNext
  PROVE  \E t \in Trips : Bids(t) \/ Rests(t) \/ TakesDriver(t, None) \/ Raises(t)
<1>t. /\ trip \in [Trips -> Rows]
      /\ leaving \in [Leavers -> Departures \cup {None}]
      /\ rebidding \in [Devices -> Rebids \cup {None}]
  BY DEF TripInv, TripTypeOK
<1>u. \A t \in Trips : UNCHANGED <<trip, tripLog>> => Rests(t)
  BY NoBidTold DEF Rests, RowMoves
<1>1. ASSUME NEW t \in Trips, NEW bid \in Cents, CreateTrip(t, bid) PROVE Bids(t)
  <2> DEFINE row == [Nowhere EXCEPT !.status = "REQUESTED", !.fare = bid, !.seq = 1]
             e == Opening("bid_posted", bid, 1, None)
  <2>1. Write(t, row) /\ Tell(t, e)
    BY <1>1 DEF CreateTrip
  <2>2. row.seq = 1 /\ row.fare = bid /\ row.agreed = Unset /\ row.driver = None
    BY DEF Nowhere
  <2>3. Opens(e) /\ BidOf(e).cycle = 1 /\ BidOf(e).cents = bid
    BY DEF Opening, Opens, BidOf
  <2>4. e \in TripEvents
    <3>1. bid \in Prices /\ 1 \in Seqs /\ None \in SomeDriver
      BY DEF Prices, Seqs, SomeDriver
    <3> QED BY <3>1, EventTypes
  <2> HIDE DEF row, e
  <2> QED BY <2>1, <2>2, <2>3, <2>4, BidTold, RowMoved DEF Bids
<1>2. ASSUME NEW t \in Trips,
             \/ \E to \in PostAccept \cup {"IN_PROGRESS"} : Advance(t, to)
             \/ Complete(t)
             \/ \E to \in {"CANCELLED_BY_PASSENGER", "CANCELLED_BY_DRIVER"} : Cancel(t, to)
             \/ Watchdog(t)
      PROVE  Rests(t)
  <2>1. \E to : Write(t, [trip[t] EXCEPT !.status = to])
    BY <1>2 DEF Advance, Complete, Cancel, Watchdog, Cas
  <2>2. UNCHANGED tripLog \/ \E type \in {"cancelled", "expired", "failed", "completed"} :
                               Tell(t, TripEvent(type))
    BY <1>2 DEF Advance, Complete, Cancel, Watchdog
  <2> QED BY <2>1, <2>2, StatusRests
<1>3. ASSUME NEW t \in Trips, NEW fare \in Cents, ChangeDestination(t, fare) PROVE Raises(t)
  <2> DEFINE row == [trip[t] EXCEPT !.fare = fare]
  <2>1. /\ row.seq = trip[t].seq /\ row.fare = fare
        /\ row.agreed = trip[t].agreed /\ row.driver = trip[t].driver
    BY <1>t DEF Rows
  <2>2. Write(t, row) /\ fare > trip[t].fare /\ SameBids
    BY <1>3, NoBidTold DEF ChangeDestination
  <2> HIDE DEF row
  <2> QED BY <2>1, <2>2, RowMoved DEF Raises
<1>4. ASSUME NEW t \in Trips,
             (\E l \in Leavers : ReadToLeave(l, t)) \/ (\E v \in Devices : ReadToRebid(v, t))
      PROVE  Rests(t)
  BY <1>4, <1>u DEF ReadToLeave, ReadToRebid
<1>5. ASSUME NEW l \in Leavers, Leave(l)
      PROVE  \E t \in Trips : Bids(t) \/ Rests(t) \/ TakesDriver(t, None)
  <2> DEFINE read == leaving[l]
             t == read.trip
  <2>1. /\ read \in Departures /\ t \in Trips
        /\ read.reassigns <= MaxReassign
        /\ read.seq < MaxSeq \/ read.reassigns = MaxReassign
    BY <1>5, <1>t DEF Leave, TripInv, Departures
  <2>2. /\ read.fare \in Prices /\ read.driver \in SomeDriver /\ read.seq \in Nat
        /\ read.reassigns \in Nat /\ trip[t] \in Rows
    BY <2>1, <1>t DEF Departures, Seqs
  <2> HIDE DEF read
  <2>3. CASE FailAfterTooManyReassigns(t, read)
    <3>1. CASE UNCHANGED <<trip, tripLog>>
      BY <2>1, <3>1, <1>u
    <3>2. CASE ~UNCHANGED <<trip, tripLog>>
      <4> DEFINE row == [trip[t] EXCEPT !.status = "FAILED", !.driver = None,
                                        !.reassigns = read.reassigns + 1]
      <4>1. Write(t, row) /\ Tell(t, TripEvent("failed"))
        BY <2>3, <3>2 DEF FailAfterTooManyReassigns
      <4>2. /\ row.agreed = trip[t].agreed /\ row.seq = trip[t].seq
            /\ row.fare = trip[t].fare /\ row.driver = None
        BY <2>2 DEF Rows
      <4> HIDE DEF row
      <4>3. SameBids
        BY <2>1, <4>1, BidTold, NoBidTold, EventTypes
      <4> QED BY <2>1, <4>1, <4>2, <4>3, RowMoved DEF TakesDriver
    <3> QED BY <3>1, <3>2
  <2>4. CASE Reassign(t, read) /\ ~(read.reassigns + 1 > MaxReassign)
    <3> DEFINE row == [trip[t] EXCEPT !.status = "REASSIGNING", !.driver = None,
                              !.agreed = Unset, !.seq = read.seq + 1,
                              !.reassigns = read.reassigns + 1]
               e == Opening("reassigning", read.fare, read.seq + 1, read.driver)
    <3>1. Write(t, row) /\ Tell(t, e)
      BY <2>4 DEF Reassign
    <3>2. /\ row.agreed = Unset /\ row.seq = read.seq + 1
          /\ row.fare = trip[t].fare /\ row.driver = None
      BY <2>2 DEF Rows
    <3>3. Opens(e) /\ BidOf(e).cycle = read.seq + 1
      BY DEF Opening, Opens, BidOf
    <3>4. e \in TripEvents
      <4>1. read.seq + 1 \in Seqs
        BY <2>1, <2>2, <2>4 DEF Seqs
      <4> QED BY <2>2, <4>1, EventTypes
    <3> HIDE DEF row, e
    <3> QED BY <2>1, <3>1, <3>2, <3>3, <3>4, BidTold, RowMoved DEF Bids
  <2> QED BY <1>5, <2>3, <2>4 DEF Leave, read
<1>6. ASSUME NEW v \in Devices, NEW bid \in Cents, Rebid(v, bid)
      PROVE  \E t \in Trips : Bids(t) \/ Rests(t)
  <2> DEFINE read == rebidding[v]
             t == read.trip
  <2>1. read \in Rebids /\ t \in Trips /\ read.seq < MaxSeq /\ read.seq \in Nat
    BY <1>6, <1>t DEF Rebid, TripInv, Rebids, Seqs
  <2> HIDE DEF read
  <2>2. CASE UNCHANGED <<trip, tripLog>>
    BY <2>1, <2>2, <1>u
  <2>3. CASE ~UNCHANGED <<trip, tripLog>>
    <3> DEFINE row == [trip[t] EXCEPT !.status = "REQUESTED", !.fare = bid,
                                    !.driver = None, !.agreed = Unset,
                                    !.reassigns = 0, !.seq = read.seq + 1]
               e == Opening("bid_posted", bid, read.seq + 1, None)
    <3>1. Write(t, row) /\ Tell(t, e)
      BY <1>6, <2>3 DEF Rebid, read
    <3>2. /\ row.agreed = Unset /\ row.seq = read.seq + 1
          /\ row.fare = bid /\ row.driver = None
      BY <1>t, <2>1 DEF Rows
    <3>3. Opens(e) /\ BidOf(e).cycle = read.seq + 1 /\ BidOf(e).cents = bid
      BY DEF Opening, Opens, BidOf
    <3>4. e \in TripEvents
      <4>1. read.seq + 1 \in Seqs /\ bid \in Prices /\ None \in SomeDriver
        BY <2>1 DEF Seqs, Prices, SomeDriver
      <4> QED BY <4>1, EventTypes
    <3> HIDE DEF row, e
    <3> QED BY <2>1, <3>1, <3>2, <3>3, <3>4, BidTold, RowMoved DEF Bids
  <2> QED BY <2>2, <2>3
<1> QED BY <1>1, <1>2, <1>3, <1>4, <1>5, <1>6 DEF TripNext, TripStep

\* What trip hears from dispatch.
LEMMA HeardMoves ==
  ASSUME TripInv, NEW t \in Trips
  PROVE  /\ \A price, seq : ApplyAgreedFare(t, price, seq) =>
              Rests(t) \/ TakesPrice(t, seq, price)
         /\ \A to : \A type \in {"expired", "cancelled"} : CloseBid(t, to, type) => Rests(t)
         /\ \A d : AssignFromDispatch(t, d) => Rests(t) \/ TakesDriver(t, d)
<1>1. trip[t] \in Rows
  BY DEF TripInv, TripTypeOK
<1>u. UNCHANGED <<trip, tripLog>> => Rests(t)
  BY NoBidTold DEF Rests, RowMoves
<1>2. ASSUME NEW price, NEW seq, ApplyAgreedFare(t, price, seq)
      PROVE  Rests(t) \/ TakesPrice(t, seq, price)
  <2>1. CASE UNCHANGED trip
    BY <1>2, <1>u, <2>1 DEF ApplyAgreedFare
  <2>2. CASE ~UNCHANGED trip
    <3> DEFINE row == [trip[t] EXCEPT !.fare = price, !.agreed = price]
    <3>1. /\ Write(t, row) /\ trip[t].seq = seq /\ trip[t].agreed = Unset /\ UNCHANGED tripLog
      BY <1>2, <2>2 DEF ApplyAgreedFare, Agrees
    <3>2. /\ row.seq = seq /\ row.fare = price /\ row.agreed = price
          /\ row.driver = trip[t].driver
      BY <1>1, <3>1 DEF Rows
    <3> HIDE DEF row
    <3> QED BY <3>1, <3>2, NoBidTold, RowMoved DEF TakesPrice
  <2> QED BY <2>1, <2>2
<1>3. ASSUME NEW to, NEW type \in {"expired", "cancelled"}, CloseBid(t, to, type) PROVE Rests(t)
  <2>1. CASE UNCHANGED <<trip, tripLog>>
    BY <1>u, <2>1
  <2>2. CASE ~UNCHANGED <<trip, tripLog>>
    <3>1. Write(t, [trip[t] EXCEPT !.status = to]) /\ Tell(t, TripEvent(type))
      BY <1>3, <2>2 DEF CloseBid
    <3> QED BY <3>1, StatusRests
  <2> QED BY <2>1, <2>2
<1>4. ASSUME NEW d, AssignFromDispatch(t, d) PROVE Rests(t) \/ TakesDriver(t, d)
  <2>1. CASE UNCHANGED trip
    BY <1>4, <1>u, <2>1 DEF AssignFromDispatch
  <2>2. CASE ~UNCHANGED trip
    <3> DEFINE row == [trip[t] EXCEPT !.status = "ASSIGNED", !.driver = d]
    <3>1. Write(t, row) /\ UNCHANGED tripLog
      BY <1>4, <2>2 DEF AssignFromDispatch
    <3>2. /\ row.seq = trip[t].seq /\ row.fare = trip[t].fare
          /\ row.agreed = trip[t].agreed /\ row.driver = d
      BY <1>1 DEF Rows
    <3> HIDE DEF row
    <3> QED BY <3>1, <3>2, NoBidTold, RowMoved DEF TakesDriver
  <2> QED BY <2>1, <2>2
<1> QED BY <1>2, <1>3, <1>4

\* A log of dispatch that grows by an event that is no agreement, or by one and
\* the match.
LEMMA DealsAppended ==
  ASSUME NEW log \in Seq(BoardEvents), NEW e \in BoardEvents, NEW f \in BoardEvents,
         f.type # "offer_accepted"
  PROVE  /\ DealsOf(log \o <<f>>) = DealsOf(log)
         /\ e.type = "offer_accepted" =>
              DealsOf(log \o <<e, f>>) =
                DealsOf(log) \cup {[driver |-> e.driver, cycle |-> e.seq, price |-> e.price]}
<1> DEFINE one == log \o <<f>>
           two == log \o <<e, f>>
           n == Len(log)
           deal == [driver |-> e.driver, cycle |-> e.seq, price |-> e.price]
<1>1. /\ \A i : i \in DOMAIN one <=> i \in DOMAIN log \/ i = n + 1
      /\ one[n + 1] = f /\ n + 1 \notin DOMAIN log
      /\ \A i \in DOMAIN log : one[i] = log[i]
  OBVIOUS
<1>2. /\ \A i : i \in DOMAIN two <=> i \in DOMAIN log \/ i = n + 1 \/ i = n + 2
      /\ two[n + 1] = e /\ two[n + 2] = f /\ n + 1 \notin DOMAIN log
      /\ \A i \in DOMAIN log : two[i] = log[i]
  OBVIOUS
<1> HIDE DEF one, two, n
<1>3. ASSUME NEW x PROVE x \in DealsOf(one) <=> x \in DealsOf(log)
  BY <1>1 DEF DealsOf
<1>4. ASSUME e.type = "offer_accepted", NEW x
      PROVE  x \in DealsOf(two) <=> x \in DealsOf(log) \/ x = deal
  BY <1>2, <1>4 DEF DealsOf
<1>5. DealsOf(one) = DealsOf(log)
  BY <1>3
<1>6. e.type = "offer_accepted" => DealsOf(two) = DealsOf(log) \cup {deal}
  BY <1>4
<1> QED BY <1>5, <1>6 DEF one, two

\* Only the transaction of an acceptance makes a deal, and only the first.
LEMMA DealCommitted ==
  ASSUME BoardInv, FareInv, NEW c \in Calls, Commit(c)
  PROVE  (SameDeals /\ UNCHANGED match) \/ \E t \in Trips : Commits(t)
<1> DEFINE t == call[c].trip
           d == call[c].driver
<1>t. /\ call[c] \in CallStates /\ t \in Trips /\ d \in Drivers
      /\ dispatchLog \in [Trips -> Seq(BoardEvents)] /\ dispatchLog[t] \in Seq(BoardEvents)
      /\ BidAtMost(tripLog[t], call[c].seq, call[c].price)
  BY DEF BoardInv, CallsOK, LogOK, FareInv, CallsBid, Commit, At
<1>1. CASE UNCHANGED <<match, dispatchLog>>
  BY <1>1 DEF SameDeals
<1>2. CASE ~UNCHANGED <<match, dispatchLog>>
  <2> DEFINE told == [type |-> "offer_accepted", driver |-> call[c].driver,
                      price |-> call[c].price, seq |-> call[c].seq]
             found == BoardEvent("match_found", call[c].driver)
             deal == [driver |-> d, cycle |-> call[c].seq, price |-> call[c].price]
  <2>1. /\ match[t] = None /\ match' = [match EXCEPT ![t] = d]
        /\ dispatchLog' = [dispatchLog EXCEPT ![t] = @ \o <<told, found>>]
    BY <1>2 DEF Commit, Taken, Emit, Accepted
  <2>2. told \in BoardEvents /\ found \in BoardEvents
    BY <1>t DEF CallStates, BoardEvents, BoardEvent, SomeDriver, Prices, Unset, Seqs
  <2>3. /\ told.type = "offer_accepted" /\ found.type # "offer_accepted"
        /\ [driver |-> told.driver, cycle |-> told.seq, price |-> told.price] = deal
    BY DEF BoardEvent
  <2> HIDE DEF told, found, deal
  <2>4. DealsOf(dispatchLog[t] \o <<told, found>>) = DealsOf(dispatchLog[t]) \cup {deal}
    BY <1>t, <2>2, <2>3, DealsAppended
  <2>5. \A u \in Trips :
          dispatchLog'[u] = IF u = t THEN dispatchLog[t] \o <<told, found>> ELSE dispatchLog[u]
    BY <1>t, <2>1
  <2>6. DealMade(t, deal)
    BY <2>4, <2>5 DEF DealMade
  <2> HIDE DEF t, d
  <2>7. Commits(t)
    BY <1>t, <2>1, <2>6 DEF Commits, deal
  <2> QED BY <1>t, <2>7
<1> QED BY <1>1, <1>2

LEMMA BoardDeals ==
  ASSUME BoardInv, FareInv, BoardNext \/ \E t \in Impatient : CancelBid(t)
  PROVE  (SameDeals /\ UNCHANGED match) \/ \E t \in Trips : Commits(t)
<1>n. ASSUME NEW t \in Trips, NEW type \in {"no_offers", "bid_cancelled"},
             Emit(t, <<BoardEvent(type, None)>>)
      PROVE  SameDeals
  <2> DEFINE e == BoardEvent(type, None)
  <2>1. e \in BoardEvents /\ e.type # "offer_accepted"
    BY NoDriverEvents DEF BoardEvent
  <2>2. /\ dispatchLog' = [dispatchLog EXCEPT ![t] = @ \o <<e>>]
        /\ dispatchLog \in [Trips -> Seq(BoardEvents)] /\ dispatchLog[t] \in Seq(BoardEvents)
    BY <1>n DEF Emit, BoardInv, LogOK
  <2> HIDE DEF e
  <2>3. DealsOf(dispatchLog[t] \o <<e>>) = DealsOf(dispatchLog[t])
    BY <2>1, <2>2, DealsAppended
  <2>4. \A u \in Trips :
          dispatchLog'[u] = IF u = t THEN dispatchLog[t] \o <<e>> ELSE dispatchLog[u]
    BY <2>2
  <2> QED BY <2>3, <2>4 DEF SameDeals
<1>s. UNCHANGED dispatchLog => SameDeals
  BY DEF SameDeals
<1>1. ASSUME NEW c \in Calls, AcceptStep(c)
      PROVE  (SameDeals /\ UNCHANGED match) \/ \E t \in Trips : Commits(t)
  <2>1. CASE Commit(c)
    BY <2>1, DealCommitted
  <2>2. CASE ~Commit(c)
    BY <1>1, <1>s, <2>2
       DEF AcceptStep, ReadBoard, ReadOffer, Ineligible, ClaimBoard, ClaimDriver, CommitFails,
           RevertClaim, ReleaseClaim, MarkEmitted, Lapse, Die
  <2> QED BY <2>1, <2>2
<1>2. ASSUME NEW d \in Drivers,
             \/ \E t \in Trips : ReadToOffer(d, t)
             \/ \E kind \in {"ACCEPT_PRICE", "COUNTER"}, price \in Cents :
                  SubmitOffer(d, kind, price)
             \/ ClaimElsewhere(d) \/ EndElsewhere(d)
      PROVE  SameDeals /\ UNCHANGED match
  BY <1>2, <1>s DEF ReadToOffer, SubmitOffer, ClaimElsewhere, EndElsewhere
<1>3. ASSUME NEW t \in Trips, Sweep(t) \/ ReadUnmarked(t) \/ Reconcile(t)
      PROVE  SameDeals /\ UNCHANGED match
  BY <1>3, <1>n, <1>s DEF Sweep, ReadUnmarked, Reconcile
<1>4. ASSUME NEW t \in Impatient, CancelBid(t) PROVE SameDeals /\ UNCHANGED match
  BY <1>4, <1>n, <1>s DEF CancelBid, RideAssumption
<1> QED BY <1>1, <1>2, <1>3, <1>4 DEF BoardNext

LEMMA DealsKept ==
  ASSUME DealInv, match \in [Trips -> SomeDriver],
         (SameDeals /\ UNCHANGED match) \/ \E t \in Trips : Commits(t)
  PROVE  DealInv'
<1>1. CASE SameDeals /\ UNCHANGED match
  BY <1>1 DEF DealInv, SameDeals
<1>2. ASSUME NEW t \in Trips, Commits(t) PROVE DealInv'
  <2>0. PICK d \in Drivers : \E seq, price :
               /\ match' = [match EXCEPT ![t] = d]
               /\ DealMade(t, [driver |-> d, cycle |-> seq, price |-> price])
    BY <1>2 DEF Commits
  <2>1. PICK seq, price :
               /\ match' = [match EXCEPT ![t] = d]
               /\ DealMade(t, [driver |-> d, cycle |-> seq, price |-> price])
    BY <2>0
  <2> DEFINE deal == [driver |-> d, cycle |-> seq, price |-> price]
  <2>2. deal.driver = d /\ d # None /\ DealMade(t, deal)
    BY <2>1
  <2> HIDE DEF deal
  <2>3. ASSUME NEW u \in Trips
        PROVE  /\ match'[u] = None => DealsOf(dispatchLog'[u]) = {}
               /\ match'[u] # None => \E x \in DealsOf(dispatchLog'[u]) : x.driver = match'[u]
    <3>1. CASE u = t
      BY <2>1, <2>2, <3>1 DEF DealMade
    <3>2. CASE u # t
      BY <2>1, <2>2, <3>2 DEF DealMade, DealInv
    <3> QED BY <3>1, <3>2
  <2> QED BY <2>3 DEF DealInv
<1> QED BY <1>1, <1>2

\* Every step of a ride, as one trip's.
RideMoves ==
  \/ /\ SameDeals
     /\ \/ SameBids /\ UNCHANGED trip
        \/ \E t \in Trips : Bids(t) \/ Rests(t) \/ TakesDriver(t, None) \/ Raises(t)
        \/ \E t \in Trips : \E deal \in DealsOf(dispatchLog[t]) :
             TakesDriver(t, deal.driver) \/ TakesPrice(t, deal.cycle, deal.price)
  \/ SameBids /\ UNCHANGED trip /\ \E t \in Trips : Commits(t)

LEMMA RideNextMoves ==
  ASSUME RideInv, FareInv, DealInv, [RideNext]_rideVars PROVE RideMoves /\ DealInv'
<1>t. /\ TripInv /\ BoardInv /\ match \in [Trips -> SomeDriver]
      /\ \A t \in Trips : dispatchLog[t] \in Seq(BoardEvents) /\ Named(dispatchLog[t], match[t])
  BY DEF RideInv, BoardInv, KeysOK, LogOK
<1>q. UNCHANGED <<dispatchLog, match>> => SameDeals /\ DealInv'
  BY DEF SameDeals, DealInv
<1>u. UNCHANGED tripVars => SameBids /\ UNCHANGED trip
  BY NoBidTold DEF tripVars
<1>b. ASSUME UNCHANGED tripVars, (SameDeals /\ UNCHANGED match) \/ \E t \in Trips : Commits(t)
      PROVE  RideMoves /\ DealInv'
  BY <1>b, <1>t, <1>u, DealsKept DEF RideMoves
<1>1. CASE TripNext /\ UNCHANGED <<boardVars, seen>>
  <2>1. SameDeals /\ DealInv'
    BY <1>1, <1>q DEF boardVars
  <2> QED BY <1>1, <1>t, <2>1, TripMoves DEF RideMoves
<1>2. CASE BoardNext /\ UNCHANGED <<tripVars, seen>>
  BY <1>2, <1>t, <1>b, BoardDeals
<1>3. ASSUME NEW t \in Impatient, GiveUp(t) PROVE RideMoves /\ DealInv'
  BY <1>3, <1>t, <1>b, BoardDeals DEF GiveUp
<1>4. ASSUME NEW t \in Trips, DispatchHears(t) PROVE RideMoves /\ DealInv'
  <2>1. UNCHANGED tripVars /\ UNCHANGED <<dispatchLog, match>>
    BY <1>4 DEF DispatchHears, OnBidPosted, OnReassigning, OnTripOver, OnTripEnded
  <2> QED BY <1>q, <1>u, <2>1 DEF RideMoves
<1>5. ASSUME NEW t \in Trips, PujaHears(t) PROVE RideMoves /\ DealInv'
  <2>1. SameDeals /\ DealInv'
    BY <1>5, <1>q DEF PujaHears, boardVars
  <2>2. PICK i \in DOMAIN dispatchLog[t] :
          LET e == dispatchLog[t][i] IN
          \/ e.type = "offer_accepted" /\ ApplyAgreedFare(t, e.price, e.seq)
          \/ CloseBid(t, "EXPIRED", "expired")
          \/ CloseBid(t, "CANCELLED_BY_PASSENGER", "cancelled")
    BY <1>5 DEF PujaHears
  <2>3. CASE CloseBid(t, "EXPIRED", "expired") \/ CloseBid(t, "CANCELLED_BY_PASSENGER", "cancelled")
    <3>1. Rests(t)
      <4>1. \A to : \A type \in {"expired", "cancelled"} : CloseBid(t, to, type) => Rests(t)
        BY <1>t, HeardMoves
      <4> QED BY <2>3, <4>1
    <3> QED BY <2>1, <3>1 DEF RideMoves
  <2>4. CASE /\ dispatchLog[t][i].type = "offer_accepted"
             /\ ApplyAgreedFare(t, dispatchLog[t][i].price, dispatchLog[t][i].seq)
    <3> DEFINE e == dispatchLog[t][i]
               deal == [driver |-> e.driver, cycle |-> e.seq, price |-> e.price]
    <3>1. deal \in DealsOf(dispatchLog[t]) /\ deal.cycle = e.seq /\ deal.price = e.price
      BY <2>4 DEF DealsOf
    <3>2. ApplyAgreedFare(t, e.price, e.seq)
      BY <2>4
    <3> HIDE DEF e
    <3>3. Rests(t) \/ TakesPrice(t, e.seq, e.price)
      BY <1>t, <3>2, HeardMoves
    <3> HIDE DEF deal
    <3> QED BY <2>1, <3>1, <3>3 DEF RideMoves
  <2> QED BY <2>2, <2>3, <2>4
<1>6. ASSUME NEW t \in Trips, MatchHears(t) PROVE RideMoves /\ DealInv'
  <2>1. SameDeals /\ DealInv'
    BY <1>6, <1>q DEF MatchHears, boardVars
  <2>2. PICK i : Hears("match", t, i) /\ AssignFromDispatch(t, dispatchLog[t][i].driver)
    BY <1>6 DEF MatchHears
  <2>3. i \in DOMAIN dispatchLog[t] /\ dispatchLog[t][i].type = "match_found"
    BY <2>2 DEF Hears, Ahead, Heeds, Log
  <2>4. dispatchLog[t][i].driver = match[t] /\ match[t] # None
    BY <1>t, <2>3 DEF Named
  <2>5. PICK deal \in DealsOf(dispatchLog[t]) : deal.driver = match[t]
    BY <2>4 DEF DealInv
  <2>6. Rests(t) \/ TakesDriver(t, deal.driver)
    BY <1>t, <2>2, <2>4, <2>5, HeardMoves
  <2> QED BY <2>1, <2>6 DEF RideMoves
<1>7. ASSUME NEW g \in Groups, NEW t \in Trips, Redeliver(g, t) PROVE RideMoves /\ DealInv'
  <2>1. UNCHANGED tripVars /\ UNCHANGED <<dispatchLog, match>>
    BY <1>7 DEF Redeliver
  <2> QED BY <1>q, <1>u, <2>1 DEF RideMoves
<1>8. CASE UNCHANGED rideVars
  <2>1. UNCHANGED tripVars /\ UNCHANGED <<dispatchLog, match>>
    BY <1>8 DEF rideVars, boardVars
  <2> QED BY <1>q, <1>u, <2>1 DEF RideMoves
<1> QED BY <1>1, <1>2, <1>3, <1>4, <1>5, <1>6, <1>7, <1>8 DEF RideNext

\* What the contract sees of a ride.
LEMMA MovesMap ==
  ASSUME DealInv, RideMoves PROVE [Contract!Next]_(Contract!cvars)
<1> DEFINE bids == [t \in Trips |-> BidsOf(tripLog[t])]
           cycle == [t \in Trips |-> trip[t].seq]
           fare == [t \in Trips |-> trip[t].fare]
           agreed == [t \in Trips |-> trip[t].agreed]
           driver == [t \in Trips |-> trip[t].driver]
           deals == [t \in Trips |-> DealsOf(dispatchLog[t])]
<1>b. SameBids => bids' = bids
  BY DEF SameBids
<1>d. SameDeals => deals' = deals
  BY DEF SameDeals
<1>u. UNCHANGED trip => UNCHANGED <<cycle, fare, agreed, driver>>
  OBVIOUS
<1>r. ASSUME NEW t \in Trips, NEW s, NEW f, NEW a, NEW d, RowMoves(t, s, f, a, d)
      PROVE  /\ cycle' = [cycle EXCEPT ![t] = s] /\ fare' = [fare EXCEPT ![t] = f]
             /\ agreed' = [agreed EXCEPT ![t] = a] /\ driver' = [driver EXCEPT ![t] = d]
             /\ s = trip[t].seq => cycle' = cycle
             /\ f = trip[t].fare => fare' = fare
             /\ a = trip[t].agreed => agreed' = agreed
             /\ d = trip[t].driver => driver' = driver
             /\ fare'[t] = f
  BY <1>r DEF RowMoves
<1>v. agreed = [u \in Trips |-> trip[u].agreed] /\ cycle = [u \in Trips |-> trip[u].seq]
      /\ fare = [u \in Trips |-> trip[u].fare] /\ deals = [u \in Trips |-> DealsOf(dispatchLog[u])]
  OBVIOUS
<1> HIDE DEF bids, cycle, fare, agreed, driver, deals
<1>1. ASSUME SameDeals, SameBids /\ UNCHANGED trip PROVE UNCHANGED Contract!cvars
  <2>1. UNCHANGED <<bids, cycle, fare, agreed, driver, deals>>
    BY <1>1, <1>b, <1>d, <1>u
  <2> QED BY <2>1 DEF Contract!cvars, bids, cycle, fare, agreed, driver, deals
<1>2. ASSUME SameDeals, NEW t \in Trips, Bids(t) PROVE Contract!Bid(t)
  <2>1. PICK b : \E f \in {trip[t].fare, b.cents} :
               BidMade(t, b) /\ RowMoves(t, b.cycle, f, Unset, None)
    BY <1>2 DEF Bids
  <2>2. PICK f \in {trip[t].fare, b.cents} :
               BidMade(t, b) /\ RowMoves(t, b.cycle, f, Unset, None)
    BY <2>1
  <2>3. bids' = [bids EXCEPT ![t] = @ \cup {b}] /\ b \in bids'[t]
    BY <2>2 DEF BidMade, bids
  <2>4. /\ cycle' = [cycle EXCEPT ![t] = b.cycle] /\ fare' = [fare EXCEPT ![t] = f]
        /\ f = trip[t].fare => fare' = fare
        /\ agreed' = [agreed EXCEPT ![t] = Unset] /\ driver' = [driver EXCEPT ![t] = None]
    BY <1>r, <2>2
  <2>5. fare' \in {fare, [fare EXCEPT ![t] = b.cents]}
    BY <2>2, <2>4
  <2>6. /\ \E x \in bids'[t] : /\ bids' = [bids EXCEPT ![t] = @ \cup {x}]
                               /\ cycle' = [cycle EXCEPT ![t] = x.cycle]
                               /\ fare' \in {fare, [fare EXCEPT ![t] = x.cents]}
        /\ agreed' = [agreed EXCEPT ![t] = Unset]
        /\ driver' = [driver EXCEPT ![t] = None]
        /\ UNCHANGED deals
    BY <1>2, <1>d, <2>3, <2>4, <2>5
  <2> QED BY <2>6 DEF Contract!Bid, bids, cycle, fare, agreed, driver, deals
<1>3. ASSUME SameDeals, NEW t \in Trips, Rests(t) PROVE UNCHANGED Contract!cvars
  <2>1. UNCHANGED <<bids, cycle, fare, agreed, driver, deals>>
    BY <1>3, <1>b, <1>d, <1>r DEF Rests
  <2> QED BY <2>1 DEF Contract!cvars, bids, cycle, fare, agreed, driver, deals
<1>4. ASSUME SameDeals, NEW t \in Trips, NEW d, TakesDriver(t, d)
      PROVE  driver' = [driver EXCEPT ![t] = d] /\ UNCHANGED <<bids, cycle, fare, agreed, deals>>
  BY <1>4, <1>b, <1>d, <1>r DEF TakesDriver
<1>l. ASSUME SameDeals, NEW t \in Trips, TakesDriver(t, None) PROVE Contract!Leave(t)
  <2>1. driver' = [driver EXCEPT ![t] = None] /\ UNCHANGED <<bids, cycle, fare, agreed, deals>>
    BY <1>l, <1>4
  <2> QED BY <2>1 DEF Contract!Leave, bids, cycle, fare, agreed, driver, deals
<1>5. ASSUME SameDeals, NEW t \in Trips, Raises(t) PROVE Contract!Raise(t)
  <2>1. PICK f : /\ f > trip[t].fare /\ SameBids
                 /\ RowMoves(t, trip[t].seq, f, trip[t].agreed, trip[t].driver)
    BY <1>5 DEF Raises
  <2>2. /\ fare' = [fare EXCEPT ![t] = f] /\ fare'[t] = f
        /\ UNCHANGED <<bids, cycle, agreed, driver, deals>>
    BY <1>5, <1>b, <1>d, <1>r, <2>1
  <2>3. fare[t] = trip[t].fare
    BY <1>v
  <2>4. /\ fare'[t] > fare[t] /\ fare' = [fare EXCEPT ![t] = fare'[t]]
        /\ UNCHANGED <<bids, cycle, agreed, driver, deals>>
    BY <2>1, <2>2, <2>3
  <2> QED BY <2>4 DEF Contract!Raise, bids, cycle, fare, agreed, driver, deals
<1>6. ASSUME SameDeals, NEW t \in Trips, NEW deal \in DealsOf(dispatchLog[t]),
             TakesDriver(t, deal.driver)
      PROVE  Contract!Assign(t)
  <2>1. deal \in deals[t] /\ driver' = [driver EXCEPT ![t] = deal.driver]
        /\ UNCHANGED <<bids, cycle, fare, agreed, deals>>
    BY <1>4, <1>6, <1>v
  <2>2. (\E x \in deals[t] : driver' = [driver EXCEPT ![t] = x.driver])
        /\ UNCHANGED <<bids, cycle, fare, agreed, deals>>
    BY <2>1
  <2> QED BY <2>2 DEF Contract!Assign, bids, cycle, fare, agreed, driver, deals
<1>7. ASSUME SameDeals, NEW t \in Trips, NEW deal \in DealsOf(dispatchLog[t]),
             TakesPrice(t, deal.cycle, deal.price)
      PROVE  Contract!Agree(t)
  <2>1. /\ agreed' = [agreed EXCEPT ![t] = deal.price]
        /\ fare' = [fare EXCEPT ![t] = deal.price]
        /\ UNCHANGED <<bids, cycle, driver, deals>>
    BY <1>7, <1>b, <1>d, <1>r DEF TakesPrice
  <2>2. agreed[t] = Unset /\ deal \in deals[t] /\ deal.cycle = cycle[t]
    BY <1>7, <1>v DEF TakesPrice
  <2>3. /\ agreed[t] = Unset
        /\ \E x \in deals[t] : /\ x.cycle = cycle[t]
                               /\ agreed' = [agreed EXCEPT ![t] = x.price]
                               /\ fare' = [fare EXCEPT ![t] = x.price]
        /\ UNCHANGED <<bids, cycle, driver, deals>>
    BY <2>1, <2>2
  <2> QED BY <2>3 DEF Contract!Agree, bids, cycle, fare, agreed, driver, deals
<1>8. ASSUME SameBids, UNCHANGED trip, NEW t \in Trips, Commits(t) PROVE Contract!Deal(t)
  <2>0. PICK d \in Drivers : \E seq, price :
               /\ DealMade(t, [driver |-> d, cycle |-> seq, price |-> price])
               /\ BidAtMost(tripLog[t], seq, price)
    BY <1>8 DEF Commits
  <2>1. PICK seq, price :
               /\ DealMade(t, [driver |-> d, cycle |-> seq, price |-> price])
               /\ BidAtMost(tripLog[t], seq, price)
    BY <2>0
  <2> DEFINE deal == [driver |-> d, cycle |-> seq, price |-> price]
  <2>2. deals[t] = {}
    BY <1>8, <1>v DEF Commits, DealInv
  <2>3. deals' = [deals EXCEPT ![t] = {deal}] /\ deal \in deals'[t]
    BY <2>1, <2>2 DEF DealMade, deals
  <2>4. PICK i \in DOMAIN tripLog[t] :
               Opens(tripLog[t][i]) /\ tripLog[t][i].seq = seq /\ tripLog[t][i].bid <= price
    BY <2>1 DEF BidAtMost
  <2>5. \E b \in bids[t] : b.cycle = deal.cycle /\ b.cents <= deal.price
    <3> DEFINE b == [cycle |-> tripLog[t][i].seq, cents |-> tripLog[t][i].bid]
    <3>1. b \in bids[t] /\ b.cycle = deal.cycle /\ b.cents <= deal.price
      BY <2>4 DEF BidsOf, bids
    <3> QED BY <3>1
  <2>6. deal.driver \in Drivers
    OBVIOUS
  <2> HIDE DEF deal
  <2>7. UNCHANGED <<bids, cycle, fare, agreed, driver>>
    BY <1>8, <1>b, <1>u
  <2>8. /\ deals[t] = {}
        /\ \E x \in deals'[t] :
             /\ x.driver \in Drivers
             /\ \E b \in bids[t] : b.cycle = x.cycle /\ b.cents <= x.price
             /\ deals' = [deals EXCEPT ![t] = {x}]
        /\ UNCHANGED <<bids, cycle, fare, agreed, driver>>
    BY <2>2, <2>3, <2>5, <2>6, <2>7
  <2> QED BY <2>8 DEF Contract!Deal, bids, cycle, fare, agreed, driver, deals
<1> QED BY <1>1, <1>2, <1>3, <1>l, <1>5, <1>6, <1>7, <1>8 DEF RideMoves, Contract!Next

LEMMA DealInvariance == RideSpec => [](RideInv /\ FareInv /\ DealInv)
<1>1. RideInit => DealInv
  <2> SUFFICES ASSUME RideInit PROVE DealInv
    OBVIOUS
  <2>1. \A t \in Trips : match[t] = None /\ dispatchLog[t] = <<>>
    BY DEF RideInit, BoardInit
  <2>2. DealsOf(<<>>) = {}
    BY DEF DealsOf
  <2> QED BY <2>1, <2>2 DEF DealInv
<1>2. RideInv /\ FareInv /\ DealInv /\ [RideNext]_rideVars => DealInv'
  BY RideNextMoves
<1> QED BY <1>1, <1>2, Invariance, FareInvariance, PTL DEF RideSpec

\* The two services keep the contract of a ride: one deal in the life of a trip, at no
\* less than a bid of its cycle, by which alone a price is agreed on or a driver taken;
\* and the fare falls only with another bid (N7, N10, A3, H13).
THEOREM ImplementsContract == RideSpec => KeepsContract
<1>1. RideInit => Contract!Init
  BY DEF RideInit, TripInit, BoardInit, Nowhere, BidsOf, DealsOf, Contract!Init
<1>2. RideInv /\ FareInv /\ DealInv /\ [RideNext]_rideVars
        => [Contract!Next]_(Contract!cvars)
  BY RideNextMoves, MovesMap
<1> QED BY <1>1, <1>2, DealInvariance, PTL DEF RideSpec, KeepsContract, Contract!Spec

\* Nobody drives and no price is agreed on but by the deal, and what is to be paid is
\* never less than what was agreed on (N7, N10).
THEOREM DealAlwaysKept == RideSpec => []Contract!KeptDeal
<1> DEFINE Honest(t) ==
      /\ trip[t].driver # None => \E deal \in DealsOf(dispatchLog[t]) : deal.driver = trip[t].driver
      /\ trip[t].agreed # Unset =>
           /\ trip[t].agreed <= trip[t].fare
           /\ \E deal \in DealsOf(dispatchLog[t]) :
                deal.cycle = trip[t].seq /\ deal.price = trip[t].agreed
<1>1. (\A t \in Trips : Honest(t)) <=> Contract!KeptDeal
  BY DEF Contract!KeptDeal
<1>2. RideInit => \A t \in Trips : Honest(t)
  <2> SUFFICES ASSUME RideInit, NEW t \in Trips PROVE Honest(t)
    OBVIOUS
  <2>1. trip[t].driver = None /\ trip[t].agreed = Unset
    BY DEF RideInit, TripInit, Nowhere
  <2> QED BY <2>1
<1>3. RideInv /\ FareInv /\ DealInv /\ (\A t \in Trips : Honest(t)) /\ [RideNext]_rideVars
        => (\A t \in Trips : Honest(t))'
  <2> SUFFICES ASSUME RideInv, FareInv, DealInv, \A t \in Trips : Honest(t), [RideNext]_rideVars,
                      NEW u \in Trips
               PROVE  Honest(u)'
    OBVIOUS
  <2>t. /\ trip[u].fare \in Nat /\ trip[u].agreed \in Nat
        /\ trip'[u].fare \in Nat /\ trip'[u].agreed \in Nat
    <3>1. trip[u] \in Rows /\ trip'[u] \in Rows
      BY RideInvNext DEF RideInv, TripInv, TripTypeOK
    <3> QED BY <3>1 DEF Rows, Prices, Cents, Unset
  <2>k. Honest(u)
    OBVIOUS
  <2>s. ASSUME SameDeals, trip'[u] = trip[u] PROVE Honest(u)'
    BY <2>k, <2>s DEF SameDeals
  <2>1. CASE UNCHANGED trip /\ \E t \in Trips : Commits(t)
    <3>1. DealsOf(dispatchLog[u]) \subseteq DealsOf(dispatchLog'[u])
      BY <2>1 DEF Commits, DealMade
    <3> QED BY <2>k, <2>1, <3>1
  <2>2. CASE SameDeals /\ UNCHANGED trip
    BY <2>s, <2>2
  <2>3. ASSUME SameDeals, NEW t \in Trips,
               Bids(t) \/ Rests(t) \/ TakesDriver(t, None) \/ Raises(t)
        PROVE  Honest(u)'
    <3>1. CASE u # t
      BY <2>3, <2>s, <3>1 DEF Bids, Rests, TakesDriver, Raises, RowMoves
    <3>2. CASE u = t
      <4>1. DealsOf(dispatchLog'[u]) = DealsOf(dispatchLog[u])
        BY <2>3 DEF SameDeals
      <4>2. trip'[u].agreed = Unset \/ (/\ trip'[u].agreed = trip[u].agreed
                                        /\ trip'[u].seq = trip[u].seq
                                        /\ trip'[u].fare >= trip[u].fare)
        BY <2>3, <2>t, <3>2 DEF Bids, Rests, TakesDriver, Raises, RowMoves
      <4>3. trip'[u].driver \in {None, trip[u].driver}
        BY <2>3, <3>2 DEF Bids, Rests, TakesDriver, Raises, RowMoves
      <4>4. trip[u].agreed <= trip[u].fare /\ trip'[u].fare >= trip[u].fare
              => trip[u].agreed <= trip'[u].fare
        BY <2>t
      <4> QED BY <2>k, <4>1, <4>2, <4>3, <4>4
    <3> QED BY <3>1, <3>2
  <2>4. ASSUME SameDeals, NEW t \in Trips, NEW deal \in DealsOf(dispatchLog[t]),
               TakesDriver(t, deal.driver) \/ TakesPrice(t, deal.cycle, deal.price)
        PROVE  Honest(u)'
    <3>1. CASE u # t
      BY <2>4, <2>s, <3>1 DEF TakesDriver, TakesPrice, RowMoves
    <3>2. CASE u = t /\ TakesDriver(t, deal.driver)
      <4>1. DealsOf(dispatchLog'[u]) = DealsOf(dispatchLog[u])
        BY <2>4 DEF SameDeals
      <4>2. /\ trip'[u].agreed = trip[u].agreed /\ trip'[u].seq = trip[u].seq
            /\ trip'[u].fare = trip[u].fare /\ trip'[u].driver = deal.driver
        BY <3>2 DEF TakesDriver, RowMoves
      <4> QED BY <2>k, <2>4, <3>2, <4>1, <4>2
    <3>3. CASE u = t /\ TakesPrice(t, deal.cycle, deal.price)
      <4>1. DealsOf(dispatchLog'[u]) = DealsOf(dispatchLog[u])
        BY <2>4 DEF SameDeals
      <4>2. /\ trip'[u].agreed = deal.price /\ trip'[u].seq = deal.cycle
            /\ trip'[u].fare = trip'[u].agreed /\ trip'[u].driver = trip[u].driver
        BY <3>3 DEF TakesPrice, RowMoves
      <4>3. trip'[u].agreed <= trip'[u].fare
        BY <2>t, <4>2
      <4> QED BY <2>k, <2>4, <3>3, <4>1, <4>2, <4>3
    <3> QED BY <2>4, <3>1, <3>2, <3>3
  <2> QED BY <2>1, <2>2, <2>3, <2>4, RideNextMoves DEF RideMoves
<1> HIDE DEF Honest
<1>4. RideSpec => [](\A t \in Trips : Honest(t))
  BY <1>2, <1>3, DealInvariance, PTL DEF RideSpec
<1> QED BY <1>1, <1>4, PTL
=============================================================================
