------------------------- MODULE OutboxRelay_proofs -------------------------
(***************************************************************************)
(* Proofs about OutboxRelay, for every number of replicas, events, batch   *)
(* size, concurrency and timeout: nothing is marked published or swept     *)
(* that was not sent, poison is contained, and every step is a step of     *)
(* OutboxContract or a stutter.                                            *)
(***************************************************************************)
EXTENDS OutboxRelay, FiniteSetTheorems, TLAPS

(* What Delivered gains from one appended copy, and that it never loses.   *)
LEMMA DeliveredGrows ==
  ASSUME topic \in Seq(Events), NEW e \in Events,
         \/ topic' = topic
         \/ topic' = Append(topic, e)
         \/ Land(e)
  PROVE  /\ topic' \in Seq(Events)
         /\ Delivered \subseteq Delivered'
         /\ Delivered' \subseteq Delivered \union {e}
         /\ Land(e) => e \in Delivered'
<1>1. topic' = topic \/ topic' = Append(topic, e)
  BY DEF Land
<1>2. CASE topic' = topic
  BY <1>2 DEF Delivered, Land
<1>3. CASE topic' = Append(topic, e)
  <2>1. /\ DOMAIN topic' = 1 .. Len(topic) + 1
        /\ DOMAIN topic = 1 .. Len(topic)
        /\ Len(topic) \in Nat
    BY <1>3
  <2>2. /\ \A i \in DOMAIN topic : topic'[i] = topic[i]
        /\ topic'[Len(topic) + 1] = e
    BY <1>3
  <2> QED
    BY <1>3, <2>1, <2>2 DEF Delivered
<1> QED
  BY <1>1, <1>2, <1>3

(* The worker pool only ever sets ages that a publish may have. *)
LEMMA DispatchTyped ==
  ASSUME NEW S, NEW ages \in [Aggregates -> None .. PublishTimeout]
  PROVE  Dispatch(ages, S) \in [Aggregates -> None .. PublishTimeout]
  BY RelayAssumption DEF Dispatch, None

LEMMA AdvanceTyped ==
  ASSUME TypeOK, NEW r \in Replicas, NEW e \in Events, NEW done, Advance(r, e, done)
  PROVE  /\ batch' \in [Replicas -> SUBSET Events]
         /\ batch'[r] \subseteq batch[r]
         /\ \A q \in Replicas \ {r} : batch'[q] = batch[q]
         /\ publishAge' \in [Replicas -> [Aggregates -> None .. PublishTimeout]]
         /\ phase' \in [Replicas -> Phases]
<1> DEFINE a == AggregateOf[e]
           left == batch[r] \ done
           age == IF Group(left, a) = {} THEN None ELSE 0
           ages == [publishAge[r] EXCEPT ![a] = age]
<1>1. age \in None .. PublishTimeout
  BY RelayAssumption DEF None
<1>2. ages \in [Aggregates -> None .. PublishTimeout]
  BY <1>1, EventsAssumption DEF TypeOK
<1>3. Dispatch(ages, left) \in [Aggregates -> None .. PublishTimeout]
  BY <1>2, DispatchTyped
<1>4. publishAge' = [publishAge EXCEPT ![r] = Dispatch(ages, left)]
  BY DEF Advance
<1>5. /\ batch' = [batch EXCEPT ![r] = left]
      /\ phase' = [phase EXCEPT ![r] = IF left = {} THEN "ackSent" ELSE "publish"]
  BY DEF Advance
<1> HIDE DEF left, age, ages
<1>6. left \subseteq batch[r]
  BY DEF left
<1> QED
  BY <1>3, <1>4, <1>5, <1>6 DEF TypeOK, Phases

LEMMA ForgetTyped ==
  ASSUME TypeOK, NEW r \in Replicas, Forget(r), late' \subseteq Events
  PROVE  TypeOK'
<1>1. NoPublish \in [Aggregates -> None .. PublishTimeout]
  BY RelayAssumption DEF NoPublish, None
<1>2. /\ publishAge' \in [Replicas -> [Aggregates -> None .. PublishTimeout]]
      /\ phase' \in [Replicas -> Phases]
  BY <1>1 DEF Forget, TypeOK, Phases
<1>3. /\ batch' \in [Replicas -> SUBSET Events]
      /\ sent' \in [Replicas -> SUBSET Events]
      /\ failed' \in [Replicas -> SUBSET Events]
      /\ poisoned' \in [Replicas -> SUBSET Events]
  BY DEF Forget, TypeOK
<1>4. faults' \in 0 .. MaxFaults
  BY RelayAssumption DEF Forget, TypeOK
<1> QED
  BY <1>2, <1>3, <1>4 DEF Forget, TypeOK, table

(* Every step keeps the variables within their types. *)
LEMMA TypeInductive == TypeOK /\ [Next]_vars => TypeOK'
<1> SUFFICES ASSUME TypeOK, [Next]_vars PROVE TypeOK'
  OBVIOUS
<1> USE EventsAssumption, RelayAssumption
<1>a. {None, 0} \subseteq None .. ClaimStale + 1
  BY DEF None
<1>b. NoPublish \in [Aggregates -> None .. PublishTimeout]
  BY DEF NoPublish, None
<1>1. ASSUME NEW e \in Events, Enqueue(e) PROVE TypeOK'
  BY <1>1 DEF Enqueue, TypeOK, relay
<1>2. ASSUME NEW e \in Events, Sweep(e) PROVE TypeOK'
  BY <1>2 DEF Sweep, TypeOK, relay, None
<1>3. ASSUME NEW e \in Events, LateSend(e) PROVE TypeOK'
  <2>1. topic' \in Seq(Events)
    BY <1>3, DeliveredGrows DEF LateSend, TypeOK
  <2> QED
    BY <1>3, <2>1 DEF LateSend, TypeOK, table, relay
<1>4. ASSUME NEW r \in Replicas, Claim(r) PROVE TypeOK'
  <2> DEFINE taken == Oldest(BatchSize, Claimable)
  <2>1. taken \subseteq Events
    BY DEF Oldest, Claimable, TypeOK
  <2>2. Dispatch(NoPublish, taken) \in [Aggregates -> None .. PublishTimeout]
    BY <1>b, DispatchTyped
  <2>3. /\ claimAge' = [e \in Events |-> IF e \in taken THEN 0 ELSE claimAge[e]]
        /\ batch' = [batch EXCEPT ![r] = taken]
        /\ publishAge' = [publishAge EXCEPT ![r] = Dispatch(NoPublish, taken)]
        /\ phase' = [phase EXCEPT ![r] = "publish"]
    BY <1>4 DEF Claim
  <2> HIDE DEF taken
  <2>4. claimAge' \in [Events -> None .. ClaimStale + 1]
    BY <1>a, <2>3 DEF TypeOK
  <2>5. /\ batch' \in [Replicas -> SUBSET Events]
        /\ publishAge' \in [Replicas -> [Aggregates -> None .. PublishTimeout]]
        /\ phase' \in [Replicas -> Phases]
    BY <2>1, <2>2, <2>3 DEF TypeOK, Phases
  <2> QED
    BY <1>4, <2>4, <2>5 DEF Claim, TypeOK
<1>5. ASSUME NEW r \in Replicas, AckSent(r) PROVE TypeOK'
  BY <1>5 DEF AckSent, TypeOK, Phases
<1>6. ASSUME NEW r \in Replicas, AckFailed(r) PROVE TypeOK'
  BY <1>6 DEF AckFailed, TypeOK, Phases, None
<1>7. ASSUME NEW r \in Replicas, AckPoison(r) PROVE TypeOK'
  <2>1. claimAge' \in [Events -> None .. ClaimStale + 1]
    BY <1>7, <1>a DEF AckPoison, TypeOK
  <2> QED
    BY <1>7, <2>1 DEF AckPoison, TypeOK, Phases
<1>8. ASSUME NEW r \in Replicas, AckThrows(r) PROVE TypeOK'
  <2>1. Forget(r)
    BY <1>8 DEF AckThrows
  <2>2. late' \subseteq Events
    BY <1>8 DEF AckThrows, TypeOK
  <2> QED
    BY <2>1, <2>2, ForgetTyped
<1>9. ASSUME NEW r \in Replicas, Crash(r) PROVE TypeOK'
  <2>1. Forget(r)
    BY <1>9 DEF Crash
  <2>2. late' \subseteq Events
    BY <1>9 DEF Crash, TypeOK
  <2> QED
    BY <2>1, <2>2, ForgetTyped
<1>10. ASSUME NEW r \in Replicas, NEW e \in Events, PublishOk(r, e) PROVE TypeOK'
  <2>1. topic' \in Seq(Events)
    BY <1>10, DeliveredGrows DEF PublishOk, TypeOK
  <2>2. Advance(r, e, {e})
    BY <1>10 DEF PublishOk
  <2> QED
    BY <1>10, <2>1, <2>2, AdvanceTyped DEF PublishOk, TypeOK, table
<1>11. ASSUME NEW r \in Replicas, NEW e \in Events, PublishPoison(r, e) PROVE TypeOK'
  <2>1. Advance(r, e, {e})
    BY <1>11 DEF PublishPoison
  <2> QED
    BY <1>11, <2>1, AdvanceTyped DEF PublishPoison, TypeOK, table
<1>12. ASSUME NEW r \in Replicas, NEW e \in Events, PublishError(r, e) PROVE TypeOK'
  <2>1. topic' \in Seq(Events)
    BY <1>12, DeliveredGrows DEF PublishError, TypeOK
  <2>2. Advance(r, e, Group(batch[r], AggregateOf[e]))
    BY <1>12 DEF PublishError, GiveUp
  <2> QED
    BY <1>12, <2>1, <2>2, AdvanceTyped DEF PublishError, GiveUp, Group, TypeOK, table
<1>13. ASSUME NEW r \in Replicas, NEW e \in Events, PublishTimesOut(r, e) PROVE TypeOK'
  <2>1. Advance(r, e, Group(batch[r], AggregateOf[e]))
    BY <1>13 DEF PublishTimesOut, GiveUp
  <2> QED
    BY <1>13, <2>1, AdvanceTyped DEF PublishTimesOut, GiveUp, Group, TypeOK, table
<1>14. CASE Tick
  <2>1. claimAge' \in [Events -> None .. ClaimStale + 1]
    BY <1>14 DEF Tick, Stale, TypeOK, None
  <2>2. publishAge' \in [Replicas -> [Aggregates -> None .. PublishTimeout]]
    BY <1>14 DEF Tick, Due, TypeOK, None
  <2> QED
    BY <1>14, <2>1, <2>2 DEF Tick, TypeOK
<1>15. CASE UNCHANGED vars
  BY <1>15 DEF vars, table, relay, TypeOK
<1> QED
  BY <1>1, <1>2, <1>3, <1>4, <1>5, <1>6, <1>7, <1>8, <1>9, <1>10, <1>11, <1>12,
     <1>13, <1>14, <1>15 DEF Next

(* Every variable of the relay keeps its type (the shapes of the rows and  *)
(* of each replica's batch and outcome lists).                             *)
THEOREM TypeCorrect == Spec => []TypeOK
<1>1. Init => TypeOK
  BY EventsAssumption, RelayAssumption DEF Init, TypeOK, Phases, None
<1> QED
  BY <1>1, TypeInductive, PTL DEF Spec

-----------------------------------------------------------------------------
(* What a step of a replica's worker changes. *)
LEMMA AdvanceShrinks ==
  ASSUME TypeOK, NEW r \in Replicas, NEW e \in Events, NEW done, Advance(r, e, done)
  PROVE  \A q \in Replicas : batch'[q] \subseteq batch[q]
  BY AdvanceTyped

(* A copy of a committed event that is not poison keeps the invariant,     *)
(* whoever sent it, as long as the table does not change and no replica    *)
(* claims more than before.                                                *)
LEMMA LandKeepsSafety ==
  ASSUME TypeOK, SafetyInv, NEW e \in enqueued \ Poison,
         Land(e) \/ UNCHANGED topic,
         UNCHANGED table,
         \A q \in Replicas :
           /\ batch'[q] \subseteq batch[q]
           /\ sent'[q] \subseteq sent[q]
                \/ (Land(e) /\ sent'[q] \subseteq sent[q] \union {e})
           /\ poisoned'[q] \subseteq poisoned[q],
         late' \subseteq late \union {e}
  PROVE  SafetyInv'
<1>1. e \in Events
  BY DEF TypeOK
<1>2. /\ Delivered \subseteq Delivered'
      /\ Delivered' \subseteq Delivered \union {e}
      /\ Land(e) => e \in Delivered'
  BY <1>1, DeliveredGrows DEF TypeOK
<1>3. PublishedWasSent' /\ PoisonContained'
  BY <1>2 DEF SafetyInv, PublishedWasSent, PoisonContained, table
<1>4. RelayMemory'
  BY <1>2 DEF SafetyInv, RelayMemory, table
<1> QED
  BY <1>3, <1>4 DEF SafetyInv

(* Steps that neither send nor touch rows. *)
LEMMA QuietKeepsSafety ==
  ASSUME TypeOK, SafetyInv, UNCHANGED <<enqueued, rows, publishedAt, failedAt, topic>>,
         \A q \in Replicas :
           /\ batch'[q] \subseteq enqueued
           /\ sent'[q] \subseteq sent[q]
           /\ poisoned'[q] \subseteq Poison,
         late' \subseteq enqueued \ Poison
  PROVE  SafetyInv'
<1>1. Delivered' = Delivered
  BY DEF Delivered
<1> QED
  BY <1>1 DEF SafetyInv, PublishedWasSent, PoisonContained, RelayMemory

LEMMA SafetyInductive == TypeOK /\ SafetyInv /\ [Next]_vars => SafetyInv'
<1> SUFFICES ASSUME TypeOK, SafetyInv, [Next]_vars PROVE SafetyInv'
  OBVIOUS
<1>a. \A r \in Replicas :
        batch[r] \subseteq enqueued /\ sent[r] \subseteq Delivered /\ poisoned[r] \subseteq Poison
  BY DEF SafetyInv, RelayMemory
<1>b. late \subseteq enqueued \ Poison /\ Delivered \subseteq enqueued
  BY DEF SafetyInv, RelayMemory
<1>1. ASSUME NEW e \in Events, Enqueue(e) PROVE SafetyInv'
  <2>1. Delivered' = Delivered
    BY <1>1 DEF Enqueue, Delivered
  <2> QED
    BY <1>1, <2>1 DEF Enqueue, relay, SafetyInv, PublishedWasSent, PoisonContained,
                      RelayMemory
<1>2. ASSUME NEW e \in Events, Sweep(e) PROVE SafetyInv'
  <2>1. Delivered' = Delivered
    BY <1>2 DEF Sweep, Delivered
  <2>2. e \in Delivered /\ e \notin Poison
    BY <1>2 DEF Sweep, SafetyInv, PublishedWasSent, PoisonContained
  <2> QED
    BY <1>2, <2>1, <2>2 DEF Sweep, relay, SafetyInv, PublishedWasSent, PoisonContained,
                            RelayMemory
<1>3. ASSUME NEW e \in Events, LateSend(e) PROVE SafetyInv'
  <2>1. e \in enqueued \ Poison
    BY <1>3, <1>b DEF LateSend
  <2> QED
    BY <1>3, <2>1, LandKeepsSafety DEF LateSend, relay
<1>4. ASSUME NEW r \in Replicas, Claim(r) PROVE SafetyInv'
  <2>1. Oldest(BatchSize, Claimable) \subseteq enqueued
    BY DEF Oldest, Claimable, TypeOK
  <2>2. \A q \in Replicas : batch'[q] \subseteq enqueued
    BY <1>4, <1>a, <2>1 DEF Claim, TypeOK
  <2> QED
    BY <1>4, <1>a, <1>b, <2>2, QuietKeepsSafety DEF Claim
<1>5. ASSUME NEW r \in Replicas, AckSent(r) PROVE SafetyInv'
  <2>1. Delivered' = Delivered
    BY <1>5 DEF AckSent, Delivered
  <2>2. \A q \in Replicas : sent'[q] \subseteq sent[q]
    BY <1>5 DEF AckSent, TypeOK
  <2>3. publishedAt' \subseteq publishedAt \union Delivered
    BY <1>5, <1>a DEF AckSent
  <2> QED
    BY <1>5, <2>1, <2>2, <2>3 DEF AckSent, SafetyInv, PublishedWasSent,
                                  PoisonContained, RelayMemory
<1>6. ASSUME NEW r \in Replicas, AckFailed(r) PROVE SafetyInv'
  BY <1>6, <1>a, <1>b, QuietKeepsSafety DEF AckFailed
<1>7. ASSUME NEW r \in Replicas, AckPoison(r) PROVE SafetyInv'
  <2>1. Delivered' = Delivered
    BY <1>7 DEF AckPoison, Delivered
  <2>2. \A q \in Replicas : poisoned'[q] \subseteq poisoned[q]
    BY <1>7 DEF AckPoison, TypeOK
  <2>3. failedAt' \subseteq failedAt \union Poison
    BY <1>7, <1>a DEF AckPoison
  <2> QED
    BY <1>7, <2>1, <2>2, <2>3 DEF AckPoison, SafetyInv, PublishedWasSent,
                                  PoisonContained, RelayMemory
<1>8. ASSUME NEW r \in Replicas, Forget(r), late' \subseteq enqueued \ Poison
      PROVE SafetyInv'
  <2>1. \A q \in Replicas :
          batch'[q] \subseteq batch[q] /\ sent'[q] \subseteq sent[q]
          /\ poisoned'[q] \subseteq poisoned[q]
    BY <1>8 DEF Forget, TypeOK
  <2> QED
    BY <1>8, <1>a, <2>1, QuietKeepsSafety DEF Forget, table
<1>9. ASSUME NEW r \in Replicas, AckThrows(r) PROVE SafetyInv'
  BY <1>9, <1>8, <1>b DEF AckThrows
<1>10. ASSUME NEW r \in Replicas, Crash(r) PROVE SafetyInv'
  BY <1>10, <1>8, <1>a, <1>b DEF Crash
<1>11. ASSUME NEW r \in Replicas, NEW e \in Events, PublishOk(r, e) PROVE SafetyInv'
  <2>1. e \in enqueued \ Poison
    BY <1>11, <1>a DEF PublishOk, Publishing
  <2>2. \A q \in Replicas : batch'[q] \subseteq batch[q]
    BY <1>11, AdvanceShrinks DEF PublishOk
  <2>3. \A q \in Replicas : sent'[q] \subseteq sent[q] \union {e}
    BY <1>11 DEF PublishOk, TypeOK
  <2> QED
    BY <1>11, <2>1, <2>2, <2>3, LandKeepsSafety DEF PublishOk
<1>12. ASSUME NEW r \in Replicas, NEW e \in Events, PublishPoison(r, e) PROVE SafetyInv'
  <2>1. \A q \in Replicas : batch'[q] \subseteq batch[q]
    BY <1>12, AdvanceShrinks DEF PublishPoison
  <2>2. \A q \in Replicas : poisoned'[q] \subseteq Poison
    BY <1>12, <1>a DEF PublishPoison, TypeOK
  <2> QED
    BY <1>12, <1>a, <1>b, <2>1, <2>2, QuietKeepsSafety DEF PublishPoison, table
<1>13. ASSUME NEW r \in Replicas, NEW e \in Events, PublishError(r, e) PROVE SafetyInv'
  <2>1. e \in enqueued \ Poison
    BY <1>13, <1>a DEF PublishError, Publishing
  <2>2. \A q \in Replicas : batch'[q] \subseteq batch[q]
    BY <1>13, AdvanceShrinks DEF PublishError, GiveUp
  <2> QED
    BY <1>13, <2>1, <2>2, LandKeepsSafety DEF PublishError, GiveUp
<1>14. ASSUME NEW r \in Replicas, NEW e \in Events, PublishTimesOut(r, e) PROVE SafetyInv'
  <2>1. e \in enqueued \ Poison
    BY <1>14, <1>a DEF PublishTimesOut, Publishing
  <2>2. \A q \in Replicas : batch'[q] \subseteq batch[q]
    BY <1>14, AdvanceShrinks DEF PublishTimesOut, GiveUp
  <2> QED
    BY <1>14, <2>1, <2>2, LandKeepsSafety DEF PublishTimesOut, GiveUp
<1>15. CASE Tick
  BY <1>15, <1>a, <1>b, QuietKeepsSafety DEF Tick
<1>16. CASE UNCHANGED vars
  BY <1>16, <1>a, <1>b, QuietKeepsSafety DEF vars, table, relay
<1> QED
  BY <1>1, <1>2, <1>3, <1>4, <1>5, <1>6, <1>7, <1>9, <1>10, <1>11, <1>12, <1>13,
     <1>14, <1>15, <1>16 DEF Next

(* At-least-once, the safety half, for every instance: whatever replicas,  *)
(* crashes, takeovers and failed acks do, a row is marked published or     *)
(* swept only if its event is in the topic.                                *)
THEOREM PublishedWasSentHolds == Spec => []PublishedWasSent
<1>1. Init => SafetyInv
  BY DEF Init, SafetyInv, PublishedWasSent, PoisonContained, RelayMemory, Delivered
<1>2. SafetyInv => PublishedWasSent
  BY DEF SafetyInv
<1> QED
  BY <1>1, <1>2, TypeCorrect, SafetyInductive, PTL DEF Spec

(* Poison never reaches Kafka, only poison is set aside, and the sweep     *)
(* leaves its rows in the table, for every instance.                       *)
THEOREM PoisonContainedHolds == Spec => []PoisonContained
<1>1. Init => SafetyInv
  BY DEF Init, SafetyInv, PublishedWasSent, PoisonContained, RelayMemory, Delivered
<1>2. SafetyInv => PoisonContained
  BY DEF SafetyInv
<1> QED
  BY <1>1, <1>2, TypeCorrect, SafetyInductive, PTL DEF Spec

-----------------------------------------------------------------------------
(* A copy of a committed, valid event is a Deliver of the contract the     *)
(* first time and a stutter afterwards.                                    *)
LEMMA LandIsDeliver ==
  ASSUME TypeOK, NEW e \in enqueued \ Poison, Land(e) \/ UNCHANGED topic,
         UNCHANGED <<enqueued, failedAt>>
  PROVE  [Contract!CNext]_Contract!cvars
<1>1. e \in Events
  BY DEF TypeOK
<1>2. CASE topic' = topic
  BY <1>2 DEF Contract!cvars
<1>3. CASE e \notin Delivered /\ topic' = Append(topic, e)
  BY <1>1, <1>3 DEF Contract!CNext, Contract!Deliver, Contract!DeliveredSet, Delivered
<1> QED
  BY <1>2, <1>3 DEF Land

LEMMA StepRefines ==
  ASSUME TypeOK, SafetyInv, [Next]_vars
  PROVE  [Contract!CNext]_Contract!cvars
<1>1. ASSUME NEW e \in Events, Enqueue(e) PROVE Contract!CNext
  BY <1>1 DEF Enqueue, Contract!CNext, Contract!Commit
<1>2. ASSUME NEW e \in Events, LateSend(e) PROVE [Contract!CNext]_Contract!cvars
  <2>1. e \in enqueued \ Poison
    BY <1>2 DEF LateSend, SafetyInv, RelayMemory
  <2> QED
    BY <1>2, <2>1, LandIsDeliver DEF LateSend, table
<1>3. ASSUME NEW r \in Replicas, NEW e \in Events, PublishOk(r, e) \/ PublishError(r, e)
      PROVE [Contract!CNext]_Contract!cvars
  <2>1. e \in enqueued \ Poison
    BY <1>3 DEF PublishOk, PublishError, Publishing, SafetyInv, RelayMemory
  <2>2. UNCHANGED <<enqueued, failedAt>>
    BY <1>3 DEF PublishOk, PublishError, GiveUp, table
  <2>3. Land(e) \/ UNCHANGED topic
    BY <1>3 DEF PublishOk, PublishError
  <2> QED
    BY <2>1, <2>2, <2>3, LandIsDeliver
<1>4. ASSUME NEW r \in Replicas, AckPoison(r) PROVE Contract!CNext
  <2> DEFINE S == poisoned[r] \intersect rows
  <2>1. S \subseteq enqueued \intersect Poison /\ S \in SUBSET Events
    BY DEF SafetyInv, RelayMemory, TypeOK
  <2>2. Contract!Discard(S)
    BY <1>4, <2>1 DEF AckPoison, Contract!Discard
  <2> QED
    BY <2>1, <2>2 DEF Contract!CNext
<1>5. ASSUME UNCHANGED <<enqueued, topic, failedAt>> PROVE UNCHANGED Contract!cvars
  BY <1>5 DEF Contract!cvars
<1>6. ASSUME NEW e \in Events, Sweep(e) PROVE UNCHANGED Contract!cvars
  BY <1>5, <1>6 DEF Sweep
<1>7. ASSUME NEW r \in Replicas,
             \/ Claim(r) \/ AckSent(r) \/ AckFailed(r) \/ AckThrows(r) \/ Crash(r)
             \/ \E e \in Events : PublishPoison(r, e) \/ PublishTimesOut(r, e)
      PROVE  UNCHANGED Contract!cvars
  BY <1>5, <1>7 DEF Claim, AckSent, AckFailed, AckThrows, Crash, Forget, PublishPoison,
                    PublishTimesOut, GiveUp, table
<1>8. CASE Tick
  BY <1>5, <1>8 DEF Tick
<1>9. CASE UNCHANGED vars
  BY <1>5, <1>9 DEF vars, table
<1> QED
  BY <1>1, <1>2, <1>3, <1>4, <1>6, <1>7, <1>8, <1>9 DEF Next

(* Every behaviour of the relays is a behaviour of the contract: an event  *)
(* enters the topic for the first time only after its transaction          *)
(* committed, only if it is valid, and is set aside only if it is not.     *)
THEOREM RefinesContract == Spec => ImplementsContract
<1>1. Init => SafetyInv
  BY DEF Init, SafetyInv, PublishedWasSent, PoisonContained, RelayMemory, Delivered
<1>2. Init => Contract!CInit
  BY DEF Init, Contract!CInit
<1> QED
  BY <1>1, <1>2, StepRefines, TypeCorrect, SafetyInductive, PTL
  DEF Spec, ImplementsContract, Contract!CSafety

-----------------------------------------------------------------------------
(* Order.  What the head of a group is: everything of its aggregate before *)
(* it is in the topic already.                                             *)
LEMMA HeadIsNext ==
  ASSUME NEW r \in Replicas, NEW e \in Events, OrderInv(r), Publishing(r, e),
         batch[r] \subseteq Events
  PROVE  Earlier(e) \ Poison \subseteq Delivered
<1>1. SUFFICES ASSUME NEW d \in Earlier(e) \ Poison PROVE d \in Delivered
  OBVIOUS
<1>2. d \in Events /\ d < e /\ AggregateOf[d] = AggregateOf[e]
  BY <1>1 DEF Earlier
<1>3. e \in batch[r] /\ \A c \in Group(batch[r], AggregateOf[e]) : e <= c
  BY DEF Publishing
<1>4. d \notin batch[r]
  <2>1. d \in batch[r] => e <= d
    BY <1>2, <1>3 DEF Group
  <2>2. d \in Nat /\ e \in Nat
    BY <1>2, EventsAssumption
  <2> QED
    BY <1>2, <2>1, <2>2
<1> QED
  BY <1>1, <1>3, <1>4 DEF OrderInv

(* An event whose predecessors are in the topic may enter it.              *)
LEMMA InOrder ==
  ASSUME TypeOK, NEW e \in Events, Earlier(e) \ Poison \subseteq Delivered,
         \A c \in Delivered : Earlier(c) \ Poison \subseteq Delivered,
         Land(e) \/ UNCHANGED topic
  PROVE  \A c \in Delivered' : Earlier(c) \ Poison \subseteq Delivered'
<1>1. /\ Delivered \subseteq Delivered'
      /\ Delivered' \subseteq Delivered \union {e}
  BY DeliveredGrows DEF TypeOK
<1> QED
  BY <1>1

(* What a claim of a replica that holds nothing takes: with each event     *)
(* every pending event of its aggregate before it.                         *)
LEMMA OldestClosed ==
  ASSUME NEW S \in SUBSET Events, NEW e \in Oldest(BatchSize, S),
         NEW d \in S, d < e
  PROVE  d \in Oldest(BatchSize, S)
<1> DEFINE below(c) == {b \in S : b < c}
<1>1. d \in Nat /\ e \in Nat /\ S \subseteq Nat /\ BatchSize \in Nat
  BY EventsAssumption, RelayAssumption DEF Oldest
<1>2. below(e) \in SUBSET (0 .. e) /\ IsFiniteSet(0 .. e)
  <2>1. \A b \in S : b < e => b \in 0 .. e
    BY <1>1
  <2>2. IsFiniteSet(0 .. e)
    BY <1>1, FS_Interval
  <2> QED
    BY <2>1, <2>2
<1>3. below(d) \in SUBSET below(e)
  <2>1. \A b \in S : b < d => b < e
    BY <1>1
  <2> QED
    BY <2>1
<1> HIDE DEF below
<1>4. IsFiniteSet(below(e))
  BY <1>2, FS_Subset
<1>5. /\ Cardinality(below(d)) <= Cardinality(below(e))
      /\ Cardinality(below(d)) \in Nat
      /\ Cardinality(below(e)) \in Nat
  BY <1>3, <1>4, FS_Subset, FS_CardinalityType
<1>6. Cardinality(below(e)) < BatchSize
  BY DEF Oldest, below
<1>7. Cardinality(below(d)) < BatchSize
  BY <1>1, <1>5, <1>6
<1> QED
  BY <1>7 DEF Oldest, below

LEMMA ClaimTakesEarlier ==
  ASSUME TypeOK, SafetyInv, NEW r \in Replicas, LoneRelay(r), OrderInv(r),
         phase[r] = "idle", NEW e \in Oldest(BatchSize, Claimable),
         NEW d \in Earlier(e) \ Poison
  PROVE  d \in Oldest(BatchSize, Claimable) \union Delivered
<1>1. e \in rows /\ e \in enqueued
  BY DEF Oldest, Claimable, TypeOK
<1>2. d \in enqueued /\ d \in Events /\ d < e
  BY <1>1 DEF OrderInv, Earlier
<1>3. CASE d \notin Pending
  BY <1>2, <1>3 DEF Pending, SafetyInv, PublishedWasSent, PoisonContained
<1>4. CASE d \in Pending
  <2>1. Held(r) = {}
    BY DEF LoneRelay, Held, Phases
  <2>2. claimAge[d] = None
    BY <1>4, <2>1 DEF LoneRelay
  <2>3. d \in Claimable
    BY <1>4, <2>2 DEF Claimable, Pending
  <2>4. Claimable \in SUBSET Events
    BY DEF Claimable, TypeOK
  <2> QED
    BY <1>2, <2>3, <2>4, OldestClosed
<1> QED
  BY <1>3, <1>4

(* A publish settled with "done" leaves the replica's list; what is left   *)
(* still holds the earlier events of its aggregate that are not delivered. *)
LEMMA AdvanceKeepsOrder ==
  ASSUME TypeOK, NEW r \in Replicas, NEW e \in batch[r], OrderInv(r), NEW done,
         Advance(r, e, done), Delivered \subseteq Delivered',
         \/ done = {e} /\ e \in Poison \union Delivered'
         \/ done = Group(batch[r], AggregateOf[e])
  PROVE  /\ batch'[r] = batch[r] \ done
         /\ \A c \in batch'[r] :
              Earlier(c) \ Poison \subseteq batch'[r] \union Delivered'
<1>1. batch'[r] = batch[r] \ done
  BY DEF Advance, TypeOK
<1>2. ASSUME NEW c \in batch'[r], NEW d \in Earlier(c) \ Poison
      PROVE  d \in batch'[r] \union Delivered'
  <2>1. c \in batch[r] /\ c \notin done
    BY <1>1, <1>2
  <2>2. d \in batch[r] \union Delivered
    BY <1>2, <2>1 DEF OrderInv
  <2>3. d \in done /\ done = Group(batch[r], AggregateOf[e]) => FALSE
    BY <1>2, <2>1 DEF Group, Earlier
  <2> QED
    BY <1>1, <1>2, <2>2, <2>3
<1> QED
  BY <1>1, <1>2

LEMMA AdvanceKeepsLone ==
  ASSUME TypeOK, NEW r \in Replicas, NEW e \in batch[r], NEW done, done \subseteq batch[r],
         LoneRelay(r), phase[r] = "publish", Advance(r, e, done), UNCHANGED table,
         sent[r] \subseteq sent'[r], failed[r] \subseteq failed'[r],
         poisoned[r] \subseteq poisoned'[r],
         done \subseteq sent'[r] \union failed'[r] \union poisoned'[r]
  PROVE  LoneRelay(r)'
<1>1. /\ batch'[r] = batch[r] \ done
      /\ phase'[r] = IF batch'[r] = {} THEN "ackSent" ELSE "publish"
  BY DEF Advance, TypeOK
<1>2. Held(r) \subseteq Held(r)'
  BY <1>1 DEF Held
<1>3. Pending' = Pending /\ enqueued' = enqueued /\ claimAge' = claimAge
  BY DEF Pending, table
<1> QED
  BY <1>1, <1>2, <1>3 DEF LoneRelay

(* One replica that never fails: each step keeps the invariant. *)
LoneInv(r) == TypeOK /\ SafetyInv /\ LoneRelay(r) /\ OrderInv(r)

LEMMA LoneInductive ==
  ASSUME NEW r, Replicas = {r}, MaxFaults = 0, LoneInv(r), [Next]_vars
  PROVE  LoneInv(r)'
<1> USE DEF LoneInv
<1>a. r \in Replicas /\ TypeOK' /\ SafetyInv'
  BY TypeInductive, SafetyInductive
<1>b. SUFFICES LoneRelay(r)' /\ OrderInv(r)'
  BY <1>a
<1>c. batch[r] \subseteq Events /\ sent[r] \subseteq Events /\ failed[r] \subseteq Events
      /\ poisoned[r] \subseteq Events
  BY <1>a DEF TypeOK
<1>d. ASSUME UNCHANGED <<enqueued, late, topic>>, batch'[r] \subseteq batch[r],
             batch'[r] # batch[r] => batch'[r] = {}
      PROVE  OrderInv(r)'
  <2>1. Delivered' = Delivered
    BY <1>d DEF Delivered
  <2> QED
    BY <1>d, <2>1 DEF OrderInv, Earlier
<1>1. ASSUME NEW e \in Events, Enqueue(e) PROVE LoneRelay(r)' /\ OrderInv(r)'
  <2>1. Delivered' = Delivered
    BY <1>1 DEF Enqueue, Delivered
  <2>2. OrderInv(r)'
    BY <1>1, <2>1 DEF Enqueue, OrderInv, Earlier, relay
  <2>3. Pending' \subseteq Pending \union {e} /\ claimAge[e] = None
    BY <1>1 DEF Enqueue, Pending, LoneRelay
  <2>4. LoneRelay(r)'
    BY <1>1, <2>3 DEF Enqueue, LoneRelay, Held, relay
  <2> QED
    BY <2>2, <2>4
<1>2. ASSUME NEW e \in Events, Sweep(e) PROVE LoneRelay(r)' /\ OrderInv(r)'
  <2>1. OrderInv(r)'
    BY <1>2, <1>d DEF Sweep, relay
  <2>2. /\ Pending' \subseteq Pending
        /\ \A c \in Events : claimAge'[c] = claimAge[c] \/ claimAge'[c] = None
    BY <1>2 DEF Sweep, Pending, TypeOK
  <2>3. Pending \subseteq Events
    BY DEF Pending, TypeOK
  <2>4. LoneRelay(r)'
    BY <1>2, <2>2, <2>3 DEF Sweep, LoneRelay, Held, relay
  <2> QED
    BY <2>1, <2>4
<1>3. ASSUME NEW e \in Events, LateSend(e) PROVE LoneRelay(r)' /\ OrderInv(r)'
  <2>1. Earlier(e) \ Poison \subseteq Delivered
    BY <1>3 DEF LateSend, OrderInv
  <2>2. \A c \in Delivered' : Earlier(c) \ Poison \subseteq Delivered'
    BY <1>3, <2>1, InOrder DEF LateSend, OrderInv
  <2>3. Delivered \subseteq Delivered'
    BY <1>3, DeliveredGrows DEF LateSend, TypeOK
  <2>4. OrderInv(r)'
    BY <1>3, <2>2, <2>3 DEF LateSend, OrderInv, Earlier, table, relay
  <2>5. LoneRelay(r)'
    BY <1>3 DEF LateSend, LoneRelay, Held, Pending, table, relay
  <2> QED
    BY <2>4, <2>5
<1>4. CASE Claim(r)
  <2> DEFINE taken == Oldest(BatchSize, Claimable)
  <2>1. /\ claimAge' = [e \in Events |-> IF e \in taken THEN 0 ELSE claimAge[e]]
        /\ batch'[r] = taken
        /\ phase'[r] = "publish"
        /\ phase[r] = "idle"
        /\ UNCHANGED <<enqueued, rows, publishedAt, failedAt, sent, failed, poisoned,
                       topic, late>>
    BY <1>4, <1>a DEF Claim, TypeOK
  <2>2. Delivered' = Delivered
    BY <2>1 DEF Delivered
  <2>3. \A e \in taken : Earlier(e) \ Poison \subseteq taken \union Delivered
    BY <1>a, <2>1, ClaimTakesEarlier
  <2>4. taken \subseteq enqueued
    BY DEF Oldest, Claimable, TypeOK
  <2> HIDE DEF taken
  <2>5. OrderInv(r)'
    BY <2>1, <2>2, <2>3 DEF OrderInv, Earlier
  <2>6. Held(r) = {} /\ Held(r)' = taken
    BY <2>1 DEF LoneRelay, Held
  <2>7. Pending' = Pending /\ Pending \subseteq Events
    BY <2>1 DEF Pending, TypeOK
  <2>8. \A e \in Pending : claimAge'[e] # None => e \in taken
    BY <2>1, <2>6, <2>7 DEF LoneRelay
  <2>9. \A e \in Events \ enqueued : claimAge'[e] = None
    BY <2>1, <2>4 DEF LoneRelay
  <2>10. LoneRelay(r)'
    BY <2>1, <2>6, <2>7, <2>8, <2>9 DEF LoneRelay
  <2> QED
    BY <2>5, <2>10
<1>5. CASE AckSent(r)
  <2>1. OrderInv(r)'
    BY <1>5, <1>d DEF AckSent
  <2>2. /\ Pending' = Pending \ sent[r]
        /\ sent'[r] = {} /\ phase'[r] = "ackFailed" /\ phase[r] = "ackSent"
        /\ UNCHANGED <<enqueued, claimAge, batch, failed, poisoned>>
    BY <1>5, <1>a DEF AckSent, Pending, TypeOK
  <2>3. LoneRelay(r)'
    BY <2>2 DEF LoneRelay, Held
  <2> QED
    BY <2>1, <2>3
<1>6. CASE AckFailed(r)
  <2>1. OrderInv(r)'
    BY <1>6, <1>d DEF AckFailed
  <2>2. /\ failed'[r] = {} /\ phase'[r] = "ackPoison" /\ phase[r] = "ackFailed"
        /\ UNCHANGED <<enqueued, rows, publishedAt, failedAt, batch, sent, poisoned>>
    BY <1>6, <1>a DEF AckFailed, TypeOK
  <2>3. \A e \in Events : /\ e \in failed[r] \intersect rows => claimAge'[e] = None
                          /\ claimAge'[e] = None \/ claimAge'[e] = claimAge[e]
    BY <1>6 DEF AckFailed
  <2>4. Pending' = Pending /\ Pending \subseteq Events /\ Pending \subseteq rows
    BY <2>2 DEF Pending, TypeOK
  <2>5. LoneRelay(r)'
    BY <2>2, <2>3, <2>4 DEF LoneRelay, Held
  <2> QED
    BY <2>1, <2>5
<1>7. CASE AckPoison(r)
  <2>1. OrderInv(r)'
    BY <1>7, <1>d DEF AckPoison
  <2>2. /\ poisoned'[r] = {} /\ phase'[r] = "idle" /\ phase[r] = "ackPoison"
        /\ UNCHANGED <<enqueued, rows, publishedAt, batch, sent, failed>>
    BY <1>7, <1>a DEF AckPoison, TypeOK
  <2>3. \A e \in Events : /\ e \in poisoned[r] \intersect rows => claimAge'[e] = None
                          /\ claimAge'[e] = None \/ claimAge'[e] = claimAge[e]
    BY <1>7 DEF AckPoison
  <2>4. Pending' \subseteq Pending /\ Pending \subseteq Events /\ Pending \subseteq rows
    BY <1>7 DEF AckPoison, Pending, TypeOK
  <2>5. LoneRelay(r)'
    BY <2>2, <2>3, <2>4 DEF LoneRelay, Held
  <2> QED
    BY <2>1, <2>5
<1>8. ~AckThrows(r) /\ ~Crash(r)
  BY DEF AckThrows, Crash, Forget, TypeOK
<1>9. ASSUME NEW e \in Events, PublishOk(r, e) PROVE LoneRelay(r)' /\ OrderInv(r)'
  <2>1. e \in batch[r] /\ phase[r] = "publish"
    BY <1>9 DEF PublishOk, Publishing, LoneRelay
  <2>2. Advance(r, e, {e}) /\ sent'[r] = sent[r] \union {e}
    BY <1>9, <1>a DEF PublishOk, TypeOK
  <2>3. LoneRelay(r)'
    BY <1>9, <1>a, <2>1, <2>2, AdvanceKeepsLone DEF PublishOk
  <2>4. Delivered \subseteq Delivered' /\ e \in Delivered'
    BY <1>9, DeliveredGrows DEF PublishOk, TypeOK
  <2>5. \A c \in batch'[r] : Earlier(c) \ Poison \subseteq batch'[r] \union Delivered'
    BY <1>a, <2>1, <2>2, <2>4, AdvanceKeepsOrder
  <2>6. Earlier(e) \ Poison \subseteq Delivered
    BY <1>9, <1>a, <1>c, HeadIsNext DEF PublishOk
  <2>7. \A c \in Delivered' : Earlier(c) \ Poison \subseteq Delivered'
    BY <1>9, <2>6, InOrder DEF PublishOk, OrderInv
  <2>8. OrderInv(r)'
    BY <1>9, <2>4, <2>5, <2>7 DEF PublishOk, OrderInv, Earlier, table
  <2> QED
    BY <2>3, <2>8
<1>10. ASSUME NEW e \in Events, PublishPoison(r, e) PROVE LoneRelay(r)' /\ OrderInv(r)'
  <2>1. e \in batch[r] /\ phase[r] = "publish"
    BY <1>10 DEF PublishPoison, Publishing, LoneRelay
  <2>2. Advance(r, e, {e}) /\ poisoned'[r] = poisoned[r] \union {e}
    BY <1>10, <1>a DEF PublishPoison, TypeOK
  <2>3. LoneRelay(r)'
    BY <1>10, <1>a, <2>1, <2>2, AdvanceKeepsLone DEF PublishPoison
  <2>4. Delivered' = Delivered
    BY <1>10 DEF PublishPoison, Delivered
  <2>5. \A c \in batch'[r] : Earlier(c) \ Poison \subseteq batch'[r] \union Delivered'
    BY <1>10, <1>a, <2>1, <2>2, <2>4, AdvanceKeepsOrder DEF PublishPoison
  <2>6. OrderInv(r)'
    BY <1>10, <2>4, <2>5 DEF PublishPoison, OrderInv, Earlier, table
  <2> QED
    BY <2>3, <2>6
<1>11. ASSUME NEW e \in Events, Publishing(r, e), GiveUp(r, e),
              late' = late \/ (late' = late \union {e} /\ UNCHANGED topic),
              Land(e) \/ UNCHANGED topic
       PROVE  LoneRelay(r)' /\ OrderInv(r)'
  <2> DEFINE rest == Group(batch[r], AggregateOf[e])
  <2>1. e \in batch[r] /\ phase[r] = "publish"
    BY <1>11 DEF Publishing, LoneRelay
  <2>2. Advance(r, e, rest) /\ failed'[r] = failed[r] \union rest
    BY <1>11, <1>a DEF GiveUp, TypeOK
  <2>3. rest \subseteq batch[r]
    BY DEF Group
  <2>4. LoneRelay(r)'
    BY <1>11, <1>a, <2>1, <2>2, <2>3, AdvanceKeepsLone DEF GiveUp
  <2>5. Delivered \subseteq Delivered'
    BY <1>11, DeliveredGrows DEF TypeOK
  <2>6. \A c \in batch'[r] : Earlier(c) \ Poison \subseteq batch'[r] \union Delivered'
    BY <1>a, <2>1, <2>2, <2>5, AdvanceKeepsOrder
  <2>7. Earlier(e) \ Poison \subseteq Delivered
    BY <1>11, <1>a, <1>c, HeadIsNext
  <2>8. \A c \in Delivered' : Earlier(c) \ Poison \subseteq Delivered'
    BY <1>11, <2>7, InOrder DEF OrderInv
  <2>9. \A c \in late' : Earlier(c) \ Poison \subseteq Delivered'
    BY <1>11, <2>5, <2>7 DEF OrderInv
  <2>10. enqueued' = enqueued
    BY <1>11 DEF GiveUp, table
  <2>11. OrderInv(r)'
    BY <2>6, <2>8, <2>9, <2>10 DEF OrderInv, Earlier
  <2> QED
    BY <2>4, <2>11
<1>12. ASSUME NEW e \in Events, PublishError(r, e) \/ PublishTimesOut(r, e)
       PROVE  LoneRelay(r)' /\ OrderInv(r)'
  BY <1>11, <1>12 DEF PublishError, PublishTimesOut
<1>13. CASE Tick
  <2>1. OrderInv(r)'
    BY <1>13, <1>d DEF Tick
  <2>2. \A e \in Events : claimAge[e] = None <=> claimAge'[e] = None
    BY <1>13 DEF Tick, TypeOK, None
  <2>3. Pending' = Pending /\ Pending \subseteq Events
    BY <1>13 DEF Tick, Pending, TypeOK
  <2>4. LoneRelay(r)'
    BY <1>13, <2>2, <2>3 DEF Tick, LoneRelay, Held
  <2> QED
    BY <2>1, <2>4
<1>14. CASE UNCHANGED vars
  BY <1>14, <1>d DEF vars, table, relay, LoneRelay, Held, Pending
<1> QED
  BY <1>1, <1>2, <1>3, <1>4, <1>5, <1>6, <1>7, <1>8, <1>9, <1>10, <1>12, <1>13, <1>14
  DEF Next

(* The deployments under which the order of publishGrouped survives from   *)
(* one batch to the next: a single replica that neither dies nor fails an  *)
(* ack.  Errors, timeouts and sends that land late do not break it then.   *)
THEOREM OneRelayKeepsOrder ==
  ASSUME NEW r, Replicas = {r}, MaxFaults = 0
  PROVE  Spec => []OrderPreserved
<1>1. Init => LoneInv(r)
  <2> SUFFICES ASSUME Init PROVE LoneInv(r)
    OBVIOUS
  <2>1. TypeOK
    BY EventsAssumption, RelayAssumption DEF Init, TypeOK, Phases, None
  <2>2. Delivered = {}
    BY DEF Init, Delivered
  <2>3. SafetyInv
    BY <2>2 DEF Init, SafetyInv, PublishedWasSent, PoisonContained, RelayMemory
  <2>4. LoneRelay(r) /\ OrderInv(r)
    BY <2>2 DEF Init, LoneRelay, OrderInv, Held, Pending
  <2> QED
    BY <2>1, <2>3, <2>4 DEF LoneInv
<1>2. LoneInv(r) => OrderPreserved
  BY DEF LoneInv, OrderInv, OrderPreserved, Earlier
<1>3. LoneInv(r) /\ [Next]_vars => LoneInv(r)'
  BY LoneInductive
<1> QED
  BY <1>1, <1>2, <1>3, PTL DEF Spec
=============================================================================
