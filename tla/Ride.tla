------------------------------- MODULE Ride -------------------------------
(***************************************************************************)
(* A negotiated ride across trip-service and dispatch-service.  Each tells  *)
(* the other through its log, in order per trip and at least once; what     *)
(* dispatch tells is consumed by two groups of trip-service, one for the    *)
(* price and the end of a bid, one for the match, at their own pace.        *)
(***************************************************************************)
EXTENDS Trip, OfferBoard

CONSTANTS Repeating,    \* bound: the types of the events that come again
          MaxRepeats,   \* bound: after so many faults no event comes again
          Impatient     \* bound: the trips whose passenger may give the bid up

Groups == {"dispatch", "puja", "match"}

ASSUME RideAssumption == Impatient \subseteq Trips /\ MaxRepeats \in Nat

VARIABLE seen    \* group -> trip -> the offset it committed

rideVars == <<tripVars, boardVars, seen>>

RideTypeOK ==
  /\ TripTypeOK
  /\ BoardTypeOK
  /\ seen \in [Groups -> [Trips -> Nat]]

RideInit ==
  /\ TripInit
  /\ BoardInit
  /\ seen = [g \in Groups |-> [t \in Trips |-> 0]]

\* The log a group reads, and what of it the group acts on; the rest it skips.
Log(g, t) == IF g = "dispatch" THEN tripLog[t] ELSE dispatchLog[t]
Heeds(g, e) == CASE g = "dispatch" -> TRUE
                 [] g = "puja"     -> e.type # "match_found"
                 [] g = "match"    -> e.type = "match_found"

Ahead(g, t) == {i \in DOMAIN Log(g, t) : i > seen[g][t] /\ Heeds(g, Log(g, t)[i])}
Hears(g, t, i) ==
  /\ i \in Ahead(g, t) /\ \A j \in Ahead(g, t) : i <= j
  /\ seen' = [seen EXCEPT ![g][t] = i]

DispatchHears(t) ==
  /\ \E i \in DOMAIN tripLog[t] :
       LET e == tripLog[t][i] IN
       /\ Hears("dispatch", t, i)
       /\ \/ e.type = "bid_posted" /\ OnBidPosted(t, e)
          \/ e.type = "reassigning" /\ OnReassigning(t, e)
          \/ e.type \in {"cancelled", "expired"} /\ OnTripOver(t)
          \/ e.type \in {"completed", "failed"} /\ OnTripEnded(t)
  /\ UNCHANGED tripVars

PujaHears(t) ==
  /\ \E i \in DOMAIN dispatchLog[t] :
       LET e == dispatchLog[t][i] IN
       /\ Hears("puja", t, i)
       /\ \/ e.type = "offer_accepted" /\ ApplyAgreedFare(t, e.price, e.seq)
          \/ e.type = "no_offers" /\ CloseBid(t, "EXPIRED", "expired")
          \/ e.type = "bid_cancelled" /\ CloseBid(t, "CANCELLED_BY_PASSENGER", "cancelled")
  /\ UNCHANGED boardVars

MatchHears(t) ==
  /\ \E i \in DOMAIN dispatchLog[t] :
       Hears("match", t, i) /\ AssignFromDispatch(t, dispatchLog[t][i].driver)
  /\ UNCHANGED boardVars

\* The consumer died before it committed the offset: the last event comes again.
Redeliver(g, t) ==
  /\ seen[g][t] > 0
  /\ Log(g, t)[seen[g][t]].type \in Repeating
  /\ faults < MaxRepeats /\ faults' = faults + 1
  /\ seen' = [seen EXCEPT ![g][t] = @ - 1]
  /\ UNCHANGED <<tripVars, board, offers, claim, match, dispatchLog, offering, call,
                 reconciling>>

\* Only the passenger of a trip can give its bid up.
GiveUp(t) ==
  /\ trip[t].status # "none"
  /\ CancelBid(t)
  /\ UNCHANGED <<tripVars, seen>>

RideNext ==
  \/ TripNext /\ UNCHANGED <<boardVars, seen>>
  \/ BoardNext /\ UNCHANGED <<tripVars, seen>>
  \/ \E t \in Impatient : GiveUp(t)
  \/ \E t \in Trips : DispatchHears(t) \/ PujaHears(t) \/ MatchHears(t)
  \/ \E g \in Groups, t \in Trips : Redeliver(g, t)

RideSpec == RideInit /\ [][RideNext]_rideVars

-----------------------------------------------------------------------------
\* The driver of a trip is the one its only match names, whatever was repeated,
\* came late or belongs to an earlier negotiation (assignFromDispatch, N10).
DriverIsTheMatched ==
  \A t \in Trips : trip[t].driver # None => trip[t].driver = match[t]

\* A price that is agreed was offered on a bid of the cycle the trip is in, and does
\* not undercut it: the agreement of an earlier negotiation is not taken for one of
\* this, whatever was read before a reopening and used after it (N8 in acceptOffer,
\* H13 in applyAgreedFare).
BidAtMost(log, seq, price) ==
  \E i \in DOMAIN log : Opens(log[i]) /\ log[i].seq = seq /\ log[i].bid <= price

FareOfItsCycle ==
  \A t \in Trips : trip[t].agreed # Unset => BidAtMost(tripLog[t], trip[t].seq, trip[t].agreed)

\* A board that counts as told names a ride somebody has: the reconciler and a
\* failed transaction may forget no match (N5).
ClosedForSomebody ==
  \A t \in Trips : board[t].status = "CLOSED_MATCHED" /\ board[t].emitted
                     => match[t] # None

\* As long as an agreement stands the fare never falls: a repeated offer_accepted
\* does not undo a change of destination (N7, A3).
FareOnlyRises ==
  [][\A t \in Trips : trip[t].agreed # Unset /\ trip'[t].agreed # Unset
                        => trip'[t].fare >= trip[t].fare]_rideVars

\* What the two services promise together: a bid is an event that opens a board, a
\* deal what offer_accepted tells.
BidsOf(log) == {[cycle |-> log[i].seq, cents |-> log[i].bid] :
                  i \in {j \in DOMAIN log : Opens(log[j])}}
DealsOf(log) == {[driver |-> log[i].driver, cycle |-> log[i].seq, price |-> log[i].price] :
                   i \in {j \in DOMAIN log : log[j].type = "offer_accepted"}}

Contract == INSTANCE RideContract WITH
  bids   <- [t \in Trips |-> BidsOf(tripLog[t])],
  cycle  <- [t \in Trips |-> trip[t].seq],
  fare   <- [t \in Trips |-> trip[t].fare],
  agreed <- [t \in Trips |-> trip[t].agreed],
  driver <- [t \in Trips |-> trip[t].driver],
  deals  <- [t \in Trips |-> DealsOf(dispatchLog[t])]

\* One deal in the life of a trip, at no less than a bid of its cycle; its driver
\* and, in its cycle, its price are the trip's, whatever is repeated, comes late or
\* was read before a reopening; and the fare falls only with another bid (N7, N10,
\* A3, H13).
KeepsContract == Contract!Spec

-----------------------------------------------------------------------------
(* What the comments of the services say, and they do not do.                *)

\* acceptOffer: "significa que el match YA quedo materializado".  Whoever is about
\* to be answered ACCEPTED has a match of the negotiation it accepted in.
AcceptedIsMatched ==
  \A c \in Calls : At(c, "lapse") =>
    \E i \in DOMAIN dispatchLog[call[c].trip] :
      LET e == dispatchLog[call[c].trip][i] IN
      /\ e.type = "offer_accepted"
      /\ e.driver = call[c].driver
      /\ e.seq = call[c].seq

\* rebid: "incrementa el seq MONOTONICO ... un offer_accepted STALE del ciclo anterior
\* (seq menor) quedara bloqueado".  What is agreed does not undercut the last bid.
LastBid(t) ==
  LET openings == SelectSeq(tripLog[t], Opens) IN openings[Len(openings)].bid

AgreedOnTheLastBid ==
  \A t \in Trips : trip[t].agreed # Unset => trip[t].agreed >= LastBid(t)

\* acceptOffer: "Ganado el board Y el conductor".  Between the claims and the
\* transaction the driver is this trip's and no other's.
ClaimHeld ==
  \A c \in Calls : At(c, "tx") => claim[call[c].driver] = call[c].trip

\* trip-state-machine: "Terminales".  A trip that is over stays so.
OverIsOver ==
  [][\A t \in Trips : trip[t].status \in Terminal
                        => trip'[t].status = trip[t].status]_rideVars

\* onTripFailed: "para que no quede fuera del pool hasta el TTL".  When all has been
\* heard and nobody is accepting, a trip that is over holds no driver.
NobodyHeldByTheDead ==
  \A t \in Trips :
    /\ trip[t].status \in Terminal \cup {"EXPIRED"}
    /\ \A g \in Groups : Ahead(g, t) = {}
    /\ \A c \in Calls : At(c, "idle")
    => \A d \in Drivers : claim[d] # t
=============================================================================
