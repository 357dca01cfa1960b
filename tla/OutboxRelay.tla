----------------------------- MODULE OutboxRelay -----------------------------
(***************************************************************************)
(* The transactional outbox of @veo/database: rows of `outbox_events`      *)
(* written in the business transaction, and N replicas of OutboxRelay that *)
(* drain them in three phases (claim, publish, ack) with no lock or        *)
(* transaction held across the phases, plus the retention sweep.           *)
(*                                                                         *)
(* Events are numbers: their order is the (created_at, seq) order of the   *)
(* rows.  Time is kept as ages: a claim and a publish each carry the       *)
(* number of ticks since they began, saturating just above ClaimStale.     *)
(***************************************************************************)
EXTENDS Integers, Sequences, FiniteSets

CONSTANTS
  Replicas,        \* relay processes of one service
  Events,          \* the outbox rows that may ever be written
  Aggregates,
  AggregateOf,     \* aggregate_id (= Kafka key) of each event
  Poison,          \* events whose payload fails its zod schema
  BatchSize,       \* rows one claim may take
  Concurrency,     \* groups a replica publishes in parallel
  PublishTimeout,  \* ticks one publish may take
  ClaimStale,      \* ticks after which a claim may be taken over
  MaxFaults        \* BOUND: crashes and failed acks in one behaviour

ASSUME EventsAssumption ==
  /\ Events \subseteq Nat
  /\ AggregateOf \in [Events -> Aggregates]
  /\ Poison \subseteq Events

ASSUME RelayAssumption ==
  /\ BatchSize \in Nat \ {0}
  /\ Concurrency \in Nat \ {0}
  /\ PublishTimeout \in Nat \ {0}
  /\ ClaimStale \in Nat
  /\ MaxFaults \in Nat

(* The relay's constructor refuses any other configuration. *)
ASSUME ConstructorAssumption == PublishTimeout < ClaimStale

None == -1

VARIABLES
  \* the table
  enqueued,    \* history: events whose row was ever inserted
  rows,        \* rows present
  publishedAt, \* rows with published_at set
  failedAt,    \* rows with failed_at set
  claimAge,    \* claimed_at as an age, None when NULL
  \* each replica
  phase,       \* where its tick is: idle, publish, or one of the acks
  batch,       \* claimed rows it has still to publish
  publishAge,  \* per aggregate, age of the publish in flight, or None
  sent,        \* PublishOutcome.succeeded
  failed,      \* PublishOutcome.failed
  poisoned,    \* PublishOutcome.poisoned
  \* Kafka
  topic,       \* first copies, in the order they were appended
  late,        \* sends given up by their caller and not yet settled
  faults       \* crashes and failed acks so far

table == <<enqueued, rows, publishedAt, failedAt, claimAge>>
relay == <<phase, batch, publishAge, sent, failed, poisoned>>
vars == <<table, relay, topic, late, faults>>

Phases == {"idle", "publish", "ackSent", "ackFailed", "ackPoison"}

Delivered == {topic[i] : i \in DOMAIN topic}

TypeOK ==
  /\ enqueued \subseteq Events
  /\ rows \subseteq enqueued
  /\ publishedAt \subseteq enqueued
  /\ failedAt \subseteq enqueued
  /\ claimAge \in [Events -> None .. ClaimStale + 1]
  /\ phase \in [Replicas -> Phases]
  /\ batch \in [Replicas -> SUBSET Events]
  /\ publishAge \in [Replicas -> [Aggregates -> None .. PublishTimeout]]
  /\ sent \in [Replicas -> SUBSET Events]
  /\ failed \in [Replicas -> SUBSET Events]
  /\ poisoned \in [Replicas -> SUBSET Events]
  /\ topic \in Seq(Events)
  /\ late \subseteq Events
  /\ faults \in 0 .. MaxFaults

Init ==
  /\ enqueued = {}
  /\ rows = {}
  /\ publishedAt = {}
  /\ failedAt = {}
  /\ claimAge = [e \in Events |-> None]
  /\ phase = [r \in Replicas |-> "idle"]
  /\ batch = [r \in Replicas |-> {}]
  /\ publishAge = [r \in Replicas |-> [a \in Aggregates |-> None]]
  /\ sent = [r \in Replicas |-> {}]
  /\ failed = [r \in Replicas |-> {}]
  /\ poisoned = [r \in Replicas |-> {}]
  /\ topic = <<>>
  /\ late = {}
  /\ faults = 0

-----------------------------------------------------------------------------
(* The table *)

(* enqueueOutbox: the insert commits with the business transaction.  The   *)
(* business rows of one aggregate are written one transaction at a time,   *)
(* so its events become visible in their own order.                        *)
Enqueue(e) ==
  /\ e \notin enqueued
  /\ \A d \in Events : d < e /\ AggregateOf[d] = AggregateOf[e] => d \in enqueued
  /\ enqueued' = enqueued \union {e}
  /\ rows' = rows \union {e}
  /\ UNCHANGED <<publishedAt, failedAt, claimAge, relay, topic, late, faults>>

Stale(e) == claimAge[e] > ClaimStale

(* Fault for EveryEventSettled: a claim is never taken over. *)
ClaimableOnce == {e \in rows \ (publishedAt \union failedAt) : claimAge[e] = None}

Claimable == {e \in rows \ (publishedAt \union failedAt) :
                claimAge[e] = None \/ Stale(e)}

(* ORDER BY created_at, seq LIMIT n *)
Oldest(n, S) == {e \in S : Cardinality({d \in S : d < e}) < n}

(* sweepPublished: a published row is deleted some time later; the         *)
(* retention window is abstracted to "any time after".                     *)
Sweep(e) ==
  /\ e \in rows
  /\ e \in publishedAt
  /\ rows' = rows \ {e}
  /\ claimAge' = [claimAge EXCEPT ![e] = None]
  /\ UNCHANGED <<enqueued, publishedAt, failedAt, relay, topic, late, faults>>

-----------------------------------------------------------------------------
(* A replica's tick *)

Group(S, a) == {e \in S : AggregateOf[e] = a}

(* The worker pool of publishGrouped: idle workers take waiting groups in  *)
(* the order of their oldest row, and start its first publish at once.     *)
Before(S, a, b) == \E d \in Group(S, a) : \A e \in Group(S, b) : d < e

Dispatch(ages, S) ==
  LET busy == {a \in Aggregates : ages[a] # None}
      waiting == {a \in Aggregates \ busy : Group(S, a) # {}}
  IN [a \in Aggregates |->
        IF a \in waiting /\ Cardinality(busy)
              + Cardinality({b \in waiting : Before(S, b, a)}) < Concurrency
        THEN 0 ELSE ages[a]]

NoPublish == [a \in Aggregates |-> None]

Claim(r) ==
  /\ phase[r] = "idle"
  /\ Claimable # {}
  /\ LET taken == Oldest(BatchSize, Claimable)
     IN /\ claimAge' = [e \in Events |-> IF e \in taken THEN 0 ELSE claimAge[e]]
        /\ batch' = [batch EXCEPT ![r] = taken]
        /\ publishAge' = [publishAge EXCEPT ![r] = Dispatch(NoPublish, taken)]
  /\ phase' = [phase EXCEPT ![r] = "publish"]
  /\ UNCHANGED <<enqueued, rows, publishedAt, failedAt, sent, failed, poisoned,
                 topic, late, faults>>

(* The publish replica r is waiting for in the group of e. *)
Publishing(r, e) ==
  /\ e \in batch[r]
  /\ publishAge[r][AggregateOf[e]] # None
  /\ \A d \in Group(batch[r], AggregateOf[e]) : e <= d

(* The group of e goes on with what is left of it after "done" (its next   *)
(* publish starts at once), or frees its worker for the next group.        *)
Advance(r, e, done) ==
  LET a == AggregateOf[e]
      left == batch[r] \ done
      age == IF Group(left, a) = {} THEN None ELSE 0
  IN /\ batch' = [batch EXCEPT ![r] = left]
     /\ publishAge' = [publishAge EXCEPT
                         ![r] = Dispatch([publishAge[r] EXCEPT ![a] = age], left)]
     /\ phase' = [phase EXCEPT ![r] = IF left = {} THEN "ackSent" ELSE "publish"]

(* The broker appends a copy of e; only the first one is recorded. *)
Land(e) == topic' = IF e \in Delivered THEN topic ELSE Append(topic, e)

PublishOk(r, e) ==
  /\ Publishing(r, e)
  /\ e \notin Poison
  /\ Land(e)
  /\ sent' = [sent EXCEPT ![r] = @ \union {e}]
  /\ Advance(r, e, {e})
  /\ UNCHANGED <<table, failed, poisoned, late, faults>>

(* Fault for ImplementsContract: the payload is not validated.  *)
PublishPoisonSent(r, e) ==
  /\ Publishing(r, e)
  /\ e \in Poison
  /\ Land(e)
  /\ sent' = [sent EXCEPT ![r] = @ \union {e}]
  /\ Advance(r, e, {e})
  /\ UNCHANGED <<table, failed, poisoned, late, faults>>

(* A ZodError from the producer: the row is set aside, the group goes on. *)
PublishPoison(r, e) ==
  /\ Publishing(r, e)
  /\ e \in Poison
  /\ poisoned' = [poisoned EXCEPT ![r] = @ \union {e}]
  /\ Advance(r, e, {e})
  /\ UNCHANGED <<table, sent, failed, topic, late, faults>>

(* Fault for PoisonContained: every error counts as permanent. *)
GiveUpForGood(r, e) ==
  /\ poisoned' = [poisoned EXCEPT ![r] = @ \union {e}]
  /\ Advance(r, e, {e})
  /\ UNCHANGED <<table, sent, failed, faults>>

(* A transient error gives up e and the rest of its group.  *)
GiveUp(r, e) ==
  LET rest == Group(batch[r], AggregateOf[e])
  IN /\ failed' = [failed EXCEPT ![r] = @ \union rest]
     /\ Advance(r, e, rest)
     /\ UNCHANGED <<table, sent, poisoned, faults>>

(* The send fails; the broker may have appended it all the same. *)
PublishError(r, e) ==
  /\ Publishing(r, e)
  /\ e \notin Poison
  /\ Land(e) \/ UNCHANGED topic
  /\ GiveUp(r, e)
  /\ UNCHANGED late

(* withPublishTimeout rejects, but nothing cancels the send behind it. *)
PublishTimesOut(r, e) ==
  /\ Publishing(r, e)
  /\ e \notin Poison
  /\ publishAge[r][AggregateOf[e]] = PublishTimeout
  /\ late' = late \union {e}
  /\ GiveUp(r, e)
  /\ UNCHANGED topic

(* A send nobody waits for any more lands, or is lost. *)
LateSend(e) ==
  /\ e \in late
  /\ late' = late \ {e}
  /\ Land(e) \/ UNCHANGED topic
  /\ UNCHANGED <<table, relay, faults>>

(* Fault for PublishedWasSent: the whole batch is marked, failures too. *)
AckWholeBatch(r) ==
  /\ phase[r] = "ackSent"
  /\ publishedAt' = publishedAt \union ((sent[r] \union failed[r]) \intersect rows)
  /\ sent' = [sent EXCEPT ![r] = {}]
  /\ phase' = [phase EXCEPT ![r] = "ackFailed"]
  /\ UNCHANGED <<enqueued, rows, failedAt, claimAge, batch, publishAge, failed,
                 poisoned, topic, late, faults>>

(* ack: three statements, each by id and none looking at who holds the     *)
(* claim; an UPDATE of a row already swept changes nothing.                *)
AckSent(r) ==
  /\ phase[r] = "ackSent"
  /\ publishedAt' = publishedAt \union (sent[r] \intersect rows)
  /\ sent' = [sent EXCEPT ![r] = {}]
  /\ phase' = [phase EXCEPT ![r] = "ackFailed"]
  /\ UNCHANGED <<enqueued, rows, failedAt, claimAge, batch, publishAge, failed,
                 poisoned, topic, late, faults>>

AckFailed(r) ==
  /\ phase[r] = "ackFailed"
  /\ claimAge' = [e \in Events |-> IF e \in failed[r] \intersect rows
                                   THEN None ELSE claimAge[e]]
  /\ failed' = [failed EXCEPT ![r] = {}]
  /\ phase' = [phase EXCEPT ![r] = "ackPoison"]
  /\ UNCHANGED <<enqueued, rows, publishedAt, failedAt, batch, publishAge, sent,
                 poisoned, topic, late, faults>>

AckPoison(r) ==
  /\ phase[r] = "ackPoison"
  /\ failedAt' = failedAt \union (poisoned[r] \intersect rows)
  /\ claimAge' = [e \in Events |-> IF e \in poisoned[r] \intersect rows
                                   THEN None ELSE claimAge[e]]
  /\ poisoned' = [poisoned EXCEPT ![r] = {}]
  /\ phase' = [phase EXCEPT ![r] = "idle"]
  /\ UNCHANGED <<enqueued, rows, publishedAt, batch, publishAge, sent, failed,
                 topic, late, faults>>

(* What a replica forgets when its process dies or its tick throws. *)
Forget(r) ==
  /\ faults < MaxFaults
  /\ faults' = faults + 1
  /\ phase' = [phase EXCEPT ![r] = "idle"]
  /\ batch' = [batch EXCEPT ![r] = {}]
  /\ publishAge' = [publishAge EXCEPT ![r] = NoPublish]
  /\ sent' = [sent EXCEPT ![r] = {}]
  /\ failed' = [failed EXCEPT ![r] = {}]
  /\ poisoned' = [poisoned EXCEPT ![r] = {}]
  /\ UNCHANGED <<table, topic>>

(* An ack statement throws: tick() logs it and the next tick starts afresh. *)
AckThrows(r) ==
  /\ phase[r] \in {"ackSent", "ackFailed", "ackPoison"}
  /\ Forget(r)
  /\ UNCHANGED late

(* The process dies and restarts; its sends in flight may still land. *)
Crash(r) ==
  /\ phase[r] # "idle"
  /\ Forget(r)
  /\ late' = late \union {e \in batch[r] \ Poison : Publishing(r, e)}

-----------------------------------------------------------------------------
(* Fault for TypeOK: no timeout on a publish. *)
NeverDue(r, a) == FALSE

(* Time.  No tick passes a publish that has reached its timeout, nor one   *)
(* that fails synchronously on its schema.                                 *)
Due(r, a) == publishAge[r][a] = PublishTimeout

Tick ==
  /\ \A r \in Replicas, a \in Aggregates : ~Due(r, a)
  /\ \A r \in Replicas, e \in Poison : ~Publishing(r, e)
  /\ claimAge' = [e \in Events |->
        IF claimAge[e] = None \/ Stale(e) THEN claimAge[e] ELSE claimAge[e] + 1]
  /\ publishAge' = [r \in Replicas |-> [a \in Aggregates |->
        IF publishAge[r][a] = None THEN None ELSE publishAge[r][a] + 1]]
  /\ UNCHANGED <<enqueued, rows, publishedAt, failedAt, phase, batch, sent,
                 failed, poisoned, topic, late, faults>>

-----------------------------------------------------------------------------
Next ==
  \/ \E e \in Events : Enqueue(e) \/ Sweep(e) \/ LateSend(e)
  \/ \E r \in Replicas :
       \/ Claim(r) \/ AckSent(r) \/ AckFailed(r) \/ AckPoison(r)
       \/ AckThrows(r) \/ Crash(r)
  \/ \E r \in Replicas, e \in Events :
       \/ PublishOk(r, e) \/ PublishPoison(r, e)
       \/ PublishError(r, e) \/ PublishTimesOut(r, e)
  \/ Tick

Spec == Init /\ [][Next]_vars

(* Time passes and some relay keeps ticking; a publish is settled by its   *)
(* timeout at the latest; and neither the broker nor the database fails    *)
(* for ever: an event sent again and again is accepted, an ack statement   *)
(* tried again and again goes through, whichever replica runs it.          *)
Fairness ==
  /\ WF_vars(Tick)
  /\ WF_vars(\E r \in Replicas : Claim(r))
  /\ WF_vars(\E r \in Replicas, e \in Events :
                PublishPoison(r, e) \/ PublishTimesOut(r, e))
  /\ \A e \in Events : SF_vars(\E r \in Replicas : PublishOk(r, e))
  /\ SF_vars(\E r \in Replicas : AckSent(r))
  /\ SF_vars(\E r \in Replicas : AckFailed(r))
  /\ SF_vars(\E r \in Replicas : AckPoison(r))

FairSpec == Spec /\ Fairness

-----------------------------------------------------------------------------
(* Properties *)

(* At-least-once, the safety half: a row is marked published, and later    *)
(* deleted by the sweep, only once its event is in the topic.  Broken by   *)
(* any path where ack marks a row whose send failed, timed out or was cut  *)
(* off by a crash, or where the sweep takes a row that is still pending.   *)
PublishedWasSent == publishedAt \union (enqueued \ rows) \subseteq Delivered

(* A poison event never reaches Kafka, only poison is set aside, and the   *)
(* row of a poison event stays in the table for Ops to look at.            *)
PoisonContained ==
  /\ Delivered \intersect Poison = {}
  /\ failedAt \subseteq Poison
  /\ enqueued \intersect Poison \subseteq rows

(* The inductive strengthening of the two invariants above.  What a        *)
(* replica remembers is true of the world whoever else has touched the     *)
(* rows meanwhile: what it counts as sent is in the topic, what it counts  *)
(* as poison is poison, and it only works on rows that were committed.     *)
RelayMemory ==
  /\ \A r \in Replicas :
       /\ batch[r] \subseteq enqueued
       /\ sent[r] \subseteq Delivered
       /\ poisoned[r] \subseteq Poison
  /\ late \subseteq enqueued \ Poison
  /\ Delivered \subseteq enqueued

SafetyInv == PublishedWasSent /\ PoisonContained /\ RelayMemory

(* publishGrouped: "orden per-aggregate preservado".  No event of an       *)
(* aggregate is overtaken by a later one: when an event is in the topic,   *)
(* so is every earlier event of its aggregate that is not poison.  The     *)
(* code keeps this inside one batch; what could break it is everything     *)
(* between batches: a retry, a late send, a claim still held elsewhere.    *)
OrderPreserved ==
  \A e \in Delivered : \A d \in Events \ Poison :
    d < e /\ AggregateOf[d] = AggregateOf[e] => d \in Delivered

Earlier(e) == {d \in Events : d < e /\ AggregateOf[d] = AggregateOf[e]}

Pending == rows \ (publishedAt \union failedAt)

(* The rows replica r has claimed and not yet acknowledged. *)
Held(r) == batch[r] \union sent[r] \union failed[r] \union poisoned[r]

(* Why one replica r that never fails keeps the order.  Its phases empty   *)
(* its lists one after the other; a claimed row is one it still holds, so  *)
(* that a claim, made when it holds nothing, takes every earlier row of    *)
(* each aggregate along; and a send is only given up, and can only land    *)
(* late, once everything before it is in the topic.                        *)
LoneRelay(r) ==
  /\ phase[r] # "publish" => batch[r] = {}
  /\ phase[r] \in {"ackFailed", "ackPoison", "idle"} => sent[r] = {}
  /\ phase[r] \in {"ackPoison", "idle"} => failed[r] = {}
  /\ phase[r] = "idle" => poisoned[r] = {}
  /\ \A e \in Events \ enqueued : claimAge[e] = None
  /\ \A e \in Pending : claimAge[e] # None => e \in Held(r)

OrderInv(r) ==
  /\ \A e \in enqueued : Earlier(e) \subseteq enqueued
  /\ \A e \in batch[r] : Earlier(e) \ Poison \subseteq batch[r] \union Delivered
  /\ \A e \in late : Earlier(e) \ Poison \subseteq Delivered
  /\ \A e \in Delivered : Earlier(e) \ Poison \subseteq Delivered

(* outbox.ts: a slow broker never leaves a publish alive on a claim that   *)
(* has expired.                                                            *)
NoPublishOnExpiredClaim ==
  \A r \in Replicas, e \in Events : Publishing(r, e) => ~Stale(e)

(* Every event written is published or set aside: no claim is lost with    *)
(* its replica, no poison blocks its aggregate, no failed ack strands a    *)
(* row.                                                                    *)
EveryEventSettled ==
  \A e \in Events : e \in rows ~> e \in publishedAt \union failedAt

Contract == INSTANCE OutboxContract WITH
  committed <- enqueued, delivered <- topic, discarded <- failedAt

(* The relays implement the contract: first copies enter the topic only    *)
(* for committed, valid events, and only poison is set aside.              *)
ImplementsContract == Contract!CSafety
=============================================================================
