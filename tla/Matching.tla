------------------------------ MODULE Matching ------------------------------
(***************************************************************************)
(* dispatch-service: the search of a driver for one trip at a fixed price.  *)
(* A session says that the search goes on; each offer is a row that its     *)
(* driver accepts or rejects, a sweep times out, or a cancelled trip takes  *)
(* back.  Nothing is kept in a process: whoever ends an offer calls         *)
(* offerNext, which reads the session and the offers in the replica and     *)
(* makes the next offer or closes the search.  An ordinary trip is offered  *)
(* to one driver after another, an emergency to all of them at once.        *)
(* Which drivers are near, free and eligible is another part of the system: *)
(* here any of those not yet tried may be.                                  *)
(***************************************************************************)
EXTENDS Integers, FiniteSets

CONSTANTS Drivers,
          Workers,      \* consumers, requests of drivers, sweeps
          None,
          MaxRing,      \* the widest disc of cells that is searched
          MaxRequests,  \* bound: trip.requested, and its redeliveries
          MaxOffers,    \* bound: beyond it the pool is empty
          MaxTroubles   \* bound: redeliveries, processes that die, calls that
                        \* throw, writes the replica does not have at once

ASSUME MatchingAssumption ==
  /\ IsFiniteSet(Drivers) /\ IsFiniteSet(Workers) /\ None \notin Drivers
  /\ MaxRing \in Nat \ {0}
  /\ {MaxRequests, MaxOffers, MaxTroubles} \subseteq Nat

Offers == 1..MaxOffers
Openings == 1..MaxRequests
Rings == 1..MaxRing

VARIABLES flow,      \* the flow of the trip's category
          session,   \* the row of the search
          offers,    \* the rows of the offers
          outbox,    \* what was enqueued
          replica,   \* session and offers, as prisma.read sees them
          cancelled, \* trip.cancelled was handled
          job,       \* worker -> what its code holds between two awaits
          troubles

vars == <<flow, session, offers, outbox, replica, cancelled, job, troubles>>

\* round stands for createdAt: how often the session was opened.
\* due: nextExpandAt is set.
Sessions == [status : {"none", "OPEN", "MATCHED", "TIMED_OUT", "CANCELLED"},
             round : 0..MaxRequests, ring : Rings, due : BOOLEAN]
\* round stands for offeredAt: the opening in which the row was inserted.
OfferRows == [driver : Drivers \cup {None}, round : 0..MaxRequests,
              outcome : {"none", "OFFERED", "ACCEPTED", "REJECTED", "TIMEOUT", "WITHDRAWN"}]
\* taken, withdrawn: the offers that offer_withdrawn named, by its reason.
Outboxes == [matched : SUBSET Offers, taken : SUBSET Offers,
             withdrawn : SUBSET Offers, noOffers : [Openings -> Nat]]
\* picks: drivers to make an offer to.  todo: offers to retract.
Jobs == [at : {"idle", "look", "count", "choose", "offer", "close", "publish",
               "matched", "siblings", "retract", "withdraw"},
         round : 0..MaxRequests, ring : Rings,
         picks : SUBSET Drivers, todo : SUBSET Offers]
Idle == [at |-> "idle", round |-> 0, ring |-> 1, picks |-> {}, todo |-> {}]

TypeOK ==
  /\ flow \in {"STANDARD", "EMERGENCY"}
  /\ session \in Sessions
  /\ offers \in [Offers -> OfferRows]
  /\ outbox \in Outboxes
  /\ replica \in [session : Sessions, offers : [Offers -> OfferRows]]
  /\ cancelled \in BOOLEAN
  /\ job \in [Workers -> Jobs]
  /\ troubles \in 0..MaxTroubles

Init ==
  /\ flow \in {"STANDARD", "EMERGENCY"}
  /\ session = [status |-> "none", round |-> 0, ring |-> 1, due |-> FALSE]
  /\ offers = [o \in Offers |-> [driver |-> None, round |-> 0, outcome |-> "none"]]
  /\ outbox = [matched |-> {}, taken |-> {}, withdrawn |-> {},
               noOffers |-> [r \in Openings |-> 0]]
  /\ replica = [session |-> session, offers |-> offers]
  /\ cancelled = FALSE
  /\ job = [w \in Workers |-> Idle]
  /\ troubles = 0

Go(w, state) == job' = [job EXCEPT ![w] = state]
Done(w) == Go(w, Idle)
OfferNext(w) == Go(w, [Idle EXCEPT !.at = "look"])

Live(rows) == {o \in Offers : rows[o].outcome = "OFFERED"}
Accepted == {o \in Offers : offers[o].outcome = "ACCEPTED"}
Ended(W, to) == [o \in Offers |-> IF o \in W THEN [offers[o] EXCEPT !.outcome = to]
                                             ELSE offers[o]]

Trouble == troubles < MaxTroubles /\ troubles' = troubles + 1

\* What is committed in the primary the replica has at once, or later.
Write(s, rows) ==
  /\ session' = s /\ offers' = rows
  /\ replica' \in {replica, [session |-> s, offers |-> rows]}
Commit(s, rows) ==
  /\ Write(s, rows)
  /\ IF replica' = [session |-> s, offers |-> rows] THEN UNCHANGED troubles ELSE Trouble

\* closeIfOpen: an update whose WHERE wants the session OPEN.
Closing(to) == IF session.status = "OPEN" THEN [session EXCEPT !.status = to] ELSE session

-----------------------------------------------------------------------------
(* What starts offerNext.                                                   *)

\* startSession: the session is opened, whatever it was, as a new round.
Start(w) ==
  /\ job[w] = Idle /\ session.round < MaxRequests
  /\ LET opened == [status |-> "OPEN", round |-> session.round + 1, ring |-> 1,
                    due |-> session.due]
     IN IF session.round = 0 THEN Commit(opened, offers) ELSE Write(opened, offers) /\ Trouble
  /\ OfferNext(w)
  /\ UNCHANGED <<flow, outbox, cancelled>>

Reject(w, o) ==
  /\ job[w] = Idle
  /\ o \in Live(offers)
  /\ Commit(session, Ended({o}, "REJECTED"))
  /\ OfferNext(w)
  /\ UNCHANGED <<flow, outbox, cancelled>>

\* Mutant: the expired offers are marked, and whoever comes next goes on.
SweepExpiredMarked(w, o) ==
  /\ job[w] = Idle
  /\ o \in Live(replica.offers) \cap Live(offers)
  /\ Commit(session, Ended({o}, "TIMEOUT"))
  /\ Done(w)
  /\ UNCHANGED <<flow, outbox, cancelled>>

\* One row of sweepExpiredOffers; any offer may have been live for too long.
SweepExpired(w, o) ==
  /\ job[w] = Idle
  /\ o \in Live(replica.offers) \cap Live(offers)
  /\ Commit(session, Ended({o}, "TIMEOUT"))
  /\ OfferNext(w)
  /\ UNCHANGED <<flow, outbox, cancelled>>

\* Mutant: the last ring counts as one that can still be widened.
SweepExpandableFurther(w) ==
  /\ job[w] = Idle
  /\ LET seen == replica.session IN
     /\ seen.status = "OPEN" /\ seen.due
     /\ session.status = "OPEN" /\ session.ring = seen.ring
     /\ Commit([session EXCEPT !.ring = seen.ring + 1], offers)
  /\ OfferNext(w)
  /\ UNCHANGED <<flow, outbox, cancelled>>

\* One row of sweepExpandableSessions (policy v2).
SweepExpandable(w) ==
  /\ job[w] = Idle
  /\ LET seen == replica.session IN
     /\ seen.status = "OPEN" /\ seen.due /\ seen.ring < MaxRing
     /\ session.status = "OPEN" /\ session.ring = seen.ring
     /\ Commit([session EXCEPT !.ring = seen.ring + 1, !.due = seen.ring + 1 < MaxRing], offers)
  /\ OfferNext(w)
  /\ UNCHANGED <<flow, outbox, cancelled>>

-----------------------------------------------------------------------------
(* offerNext.                                                               *)

Look(w) ==
  /\ job[w].at = "look"
  /\ LET seen == replica.session IN
     IF seen.status = "OPEN"
     THEN Go(w, [job[w] EXCEPT !.at = IF flow = "EMERGENCY" THEN "choose" ELSE "count",
                               !.round = seen.round, !.ring = seen.ring])
     ELSE Done(w)
  /\ UNCHANGED <<flow, session, offers, outbox, replica, cancelled, troubles>>

\* One offer at a time.
Count(w) ==
  /\ job[w].at = "count"
  /\ IF Live(replica.offers) = {} THEN Go(w, [job[w] EXCEPT !.at = "choose"]) ELSE Done(w)
  /\ UNCHANGED <<flow, session, offers, outbox, replica, cancelled, troubles>>

\* The drivers of this round; the pool is any set of the others.
Attempted(w) ==
  {replica.offers[o].driver : o \in {q \in Offers : /\ replica.offers[q].outcome # "none"
                                                    /\ replica.offers[q].round >= job[w].round}}
Made == {o \in Offers : offers[o].outcome # "none"}
Promised == {p \in Workers \X Drivers : p[2] \in job[p[1]].picks}
Pools(w) == {S \in SUBSET (Drivers \ Attempted(w)) :
               Cardinality(Made) + Cardinality(Promised) + Cardinality(S) <= MaxOffers}

\* An ordinary trip goes to the best candidate of the first ring that has one (v1)
\* or enough of them (v2, whose writes these are; v1 writes a wider ring only and
\* never sets nextExpandAt).
Choose(w) ==
  /\ job[w].at = "choose" /\ flow = "STANDARD"
  /\ \E d \in Drivers, k \in job[w].ring..MaxRing :
     /\ {d} \in Pools(w)
     /\ Commit([session EXCEPT !.ring = k, !.due = k < MaxRing], offers)
     /\ Go(w, [Idle EXCEPT !.at = "offer", !.picks = {d}])
  /\ UNCHANGED <<flow, outbox, cancelled>>

\* offerBroadcast: to whoever of the widest ring has no offer yet.
Broadcast(w) ==
  /\ job[w].at = "choose" /\ flow = "EMERGENCY"
  /\ \E S \in Pools(w) : S # {} /\ Go(w, [Idle EXCEPT !.at = "offer", !.picks = S])
  /\ UNCHANGED <<flow, session, offers, outbox, replica, cancelled, troubles>>

\* Nobody is left.  An emergency waits for the offers that are live.
FindNobody(w) ==
  /\ job[w].at = "choose"
  /\ IF flow = "EMERGENCY"
        /\ \E o \in Live(replica.offers) : replica.offers[o].round >= job[w].round
     THEN Done(w) ELSE Go(w, [Idle EXCEPT !.at = "close"])
  /\ UNCHANGED <<flow, session, offers, outbox, replica, cancelled, troubles>>

\* createAndDeliverOffer; a delivery that fails is only logged.
MakeOffer(w, o) ==
  /\ job[w].at = "offer"
  /\ offers[o].outcome = "none" /\ 1..(o - 1) \subseteq Made
  /\ \E d \in job[w].picks :
     LET left == job[w].picks \ {d} IN
     /\ Commit(session, [offers EXCEPT ![o] = [driver |-> d, round |-> session.round,
                                               outcome |-> "OFFERED"]])
     /\ Go(w, IF left = {} THEN Idle ELSE [job[w] EXCEPT !.picks = left])
  /\ UNCHANGED <<flow, outbox, cancelled>>

\* closeTimedOut: who closes it tells the trip, in a transaction of its own.
CloseTimedOut(w) ==
  /\ job[w].at = "close"
  /\ Commit(Closing("TIMED_OUT"), offers)
  /\ IF session.status = "OPEN"
     THEN Go(w, [Idle EXCEPT !.at = "publish", !.round = session.round]) ELSE Done(w)
  /\ UNCHANGED <<flow, outbox, cancelled>>

PublishNoCandidates(w) ==
  /\ job[w].at = "publish"
  /\ outbox' = [outbox EXCEPT !.noOffers[job[w].round] = @ + 1]
  /\ Done(w)
  /\ UNCHANGED <<flow, session, offers, replica, cancelled, troubles>>

-----------------------------------------------------------------------------
(* The driver takes the trip.                                               *)

\* The session is not asked; a second ACCEPTED of the trip breaks the partial
\* unique index, and the transaction is rolled back: 409.
Accept(w, o) ==
  /\ job[w] = Idle
  /\ replica.offers[o].outcome # "none"
  /\ o \in Live(offers) /\ Accepted = {}
  /\ Commit(session, Ended({o}, "ACCEPTED"))
  /\ outbox' = [outbox EXCEPT !.matched = @ \cup {o}]
  /\ Go(w, [Idle EXCEPT !.at = "matched"])
  /\ UNCHANGED <<flow, cancelled>>

MarkMatched(w) ==
  /\ job[w].at = "matched"
  /\ Commit(Closing("MATCHED"), offers)
  /\ Go(w, [job[w] EXCEPT !.at = "siblings"])
  /\ UNCHANGED <<flow, outbox, cancelled>>

FindSiblings(w) ==
  /\ job[w].at = "siblings"
  /\ LET todo == Live(replica.offers) \ Accepted IN
     Go(w, IF todo = {} THEN Idle ELSE [job[w] EXCEPT !.at = "retract", !.todo = todo])
  /\ UNCHANGED <<flow, session, offers, outbox, replica, cancelled, troubles>>

\* One sibling: TIMEOUT, and offer_withdrawn by an outbox row without a key; what
\* has ended meanwhile is skipped.
RetractSibling(w, o) ==
  /\ job[w].at = "retract" /\ o \in job[w].todo
  /\ LET left == job[w].todo \ {o} IN
     Go(w, IF left = {} THEN Idle ELSE [job[w] EXCEPT !.todo = left])
  /\ \/ /\ o \notin Live(offers)
        /\ UNCHANGED <<session, offers, outbox, replica, troubles>>
     \/ /\ o \in Live(offers)
        /\ Commit(session, Ended({o}, "TIMEOUT"))
        /\ outbox' = [outbox EXCEPT !.taken = @ \cup {o}]
  /\ UNCHANGED <<flow, cancelled>>

-----------------------------------------------------------------------------
(* The trip is cancelled.                                                   *)

\* One partition, one handler at a time; after a crash the event comes again.
CancelSession(w) ==
  /\ job[w] = Idle /\ ~cancelled /\ session.round > 0
  /\ \A v \in Workers : job[v].at # "withdraw"
  /\ Commit(Closing("CANCELLED"), offers)
  /\ Go(w, [Idle EXCEPT !.at = "withdraw"])
  /\ UNCHANGED <<flow, outbox, cancelled>>

\* Mutant: the rows are those of the replica, and nobody looks at the count.
WithdrawAll(w) ==
  /\ job[w].at = "withdraw"
  /\ LET live == Live(replica.offers) IN
     /\ Commit(session, Ended(live \cap Live(offers), "WITHDRAWN"))
     /\ outbox' = [outbox EXCEPT !.withdrawn = @ \cup live]
  /\ cancelled' = TRUE
  /\ Done(w)
  /\ UNCHANGED flow

\* Every live offer, read and withdrawn in one transaction.
WithdrawLive(w) ==
  /\ job[w].at = "withdraw"
  /\ LET live == Live(offers) IN
     /\ Commit(session, Ended(live, "WITHDRAWN"))
     /\ outbox' = [outbox EXCEPT !.withdrawn = @ \cup live]
  /\ cancelled' = TRUE
  /\ Done(w)
  /\ UNCHANGED flow

-----------------------------------------------------------------------------
CatchUp ==
  /\ replica # [session |-> session, offers |-> offers]
  /\ replica' = [session |-> session, offers |-> offers]
  /\ UNCHANGED <<flow, session, offers, outbox, cancelled, job, troubles>>

\* A process dies, or an await throws.
Crash(w) ==
  /\ job[w] # Idle
  /\ Trouble
  /\ Done(w)
  /\ UNCHANGED <<flow, session, offers, outbox, replica, cancelled>>

GoOn(w) ==
  \/ Look(w) \/ Count(w) \/ Choose(w) \/ Broadcast(w) \/ FindNobody(w)
  \/ (\E o \in Offers : MakeOffer(w, o))
  \/ CloseTimedOut(w) \/ PublishNoCandidates(w)
  \/ MarkMatched(w) \/ FindSiblings(w) \/ (\E o \in Offers : RetractSibling(w, o))
  \/ WithdrawLive(w)

Sweep(w) == \E o \in Offers : SweepExpired(w, o)

Next ==
  \/ \E w \in Workers :
       \/ Start(w) \/ SweepExpandable(w) \/ CancelSession(w) \/ Sweep(w) \/ GoOn(w) \/ Crash(w)
       \/ \E o \in Offers : Reject(w, o) \/ Accept(w, o)
  \/ CatchUp

Spec == Init /\ [][Next]_vars

\* Code that runs comes to its end (no step of GoOn waits for anything, and none is
\* taken for ever), the sweep comes every two seconds, the replica follows.
Fairness ==
  /\ \A w \in Workers : []<>(job[w] = Idle)
  /\ WF_vars(\E w \in Workers : Sweep(w))
  /\ WF_vars(CatchUp)
FairSpec == Spec /\ Fairness
-----------------------------------------------------------------------------
Contract == INSTANCE MatchingContract WITH
  outcome <- [o \in Offers |-> offers[o].outcome],
  matched <- outbox.matched, withdrawn <- outbox.taken \cup outbox.withdrawn,
  noOffers <- outbox.noOffers

\* Whatever replicas, sweeps, drivers and redelivered events race: an offer has one
\* outcome; the trip is matched once, and hears of that driver; no offer that
\* won is told withdrawn; and the end of a search is told once.
KeepsContract == Contract!Spec

\* Again and again nothing is going on: the reconciler leaves no driver with an
\* offer for ever, dead trips and crashes included; and it "leaves no orphans"
\* (matching.service.ts:384-388): a search goes on to its end, unless a process
\* died, an event came twice or the replica was late.
SearchEnds == []<>(Live(offers) = {} /\ (session.status # "OPEN" \/ troubles > 0))

-----------------------------------------------------------------------------
(* What the comments of the service say, and it does not do.                *)

\* "Una oferta a la vez" (:127, the invariant of :184 and :419): two calls of
\* offerNext that count before either inserts make two offers.
OneLiveOffer == flow = "STANDARD" => Cardinality(Live(offers)) <= 1

\* A late accept must not win "match_found para un trip CANCELADO" (:332-333): the
\* offerNext that had read the session makes its offer after the withdrawal.
NoGhostMatch == [][cancelled => outbox'.matched = outbox.matched]_vars

\* retractSiblingOffers "avisa a los perdedores" (dispatch.service.ts:162-163): the
\* winner is one of them when two calls of offerNext had both chosen him.
LosersOnly == \A o \in outbox.taken, q \in outbox.matched : offers[o].driver # offers[q].driver

\* Who hears that nobody was left (expireFromNoOffers) hears of no match later:
\* of two searches, one makes the offer and the other finds nobody.
GivenUpStaysFree ==
  [][(\E r \in Openings : outbox.noOffers[r] > 0) => outbox'.matched = outbox.matched]_vars

\* A redelivery "vuelve a ofertar" (:99): but the offer it makes may fall to
\* the siblings of an accept or to a cancellation, and then nobody goes on.
SearchEndsAnyway ==
  session.status = "OPEN" ~> (session.status # "OPEN")
=============================================================================
