--------------------------- MODULE OutboxContract ---------------------------
(***************************************************************************)
(* What the transactional outbox promises to the services that use it,     *)
(* with no replicas, claims, batches or time: an event whose business      *)
(* transaction committed reaches its topic at least once; an event whose   *)
(* payload can never be published is set aside instead.                    *)
(*                                                                         *)
(* "delivered" holds the events in the order of their FIRST copy in the    *)
(* topic; later copies are what the consumers' dedup absorbs.              *)
(***************************************************************************)
EXTENDS Naturals, Sequences

CONSTANTS Events,      \* the outbox rows that may ever be written
          Poison       \* those whose payload violates its schema

VARIABLES committed,   \* events whose business transaction committed
          delivered,   \* sequence of first copies in the topic
          discarded    \* poison events set aside for Ops

cvars == <<committed, delivered, discarded>>

DeliveredSet == {delivered[i] : i \in DOMAIN delivered}

CInit ==
  /\ committed = {}
  /\ delivered = <<>>
  /\ discarded = {}

Commit(e) ==
  /\ e \notin committed
  /\ committed' = committed \union {e}
  /\ UNCHANGED <<delivered, discarded>>

Deliver(e) ==
  /\ e \in committed \ Poison
  /\ e \notin DeliveredSet
  /\ delivered' = Append(delivered, e)
  /\ UNCHANGED <<committed, discarded>>

(* One acknowledgement may set several events aside. *)
Discard(S) ==
  /\ S \subseteq (committed \intersect Poison)
  /\ discarded' = discarded \union S
  /\ UNCHANGED <<committed, delivered>>

CNext ==
  \/ \E e \in Events : Commit(e) \/ Deliver(e)
  \/ \E S \in SUBSET Events : Discard(S)

CSafety == CInit /\ [][CNext]_cvars
=============================================================================
