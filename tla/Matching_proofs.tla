--------------------------- MODULE Matching_proofs ---------------------------
(***************************************************************************)
(* Proofs about Matching, for any drivers, workers, rings and bounds.       *)
(* MatchingInv says what the outbox knows of the rows: the match it told is *)
(* the accepted offer, what it told withdrawn has ended otherwise, and who  *)
(* is about to tell that nobody was left is alone with an opening that is    *)
(* over.  That searches end is not proved: see Matching.                    *)
(***************************************************************************)
EXTENDS Matching, TLAPS

USE MatchingAssumption

\* Opening r is not searched any more, and will not be again.
Over(r) == r < session.round \/ (r = session.round /\ session.status # "OPEN")

Answers ==
  /\ outbox.matched = Accepted
  /\ \A o \in outbox.taken \cup outbox.withdrawn : offers[o].outcome \in {"TIMEOUT", "WITHDRAWN"}

Publishing(w) == job[w].at = "publish"
Endings ==
  /\ session.status = "OPEN" => session.round # 0
  /\ \A r \in Openings : outbox.noOffers[r] # 0 => Over(r)
  /\ \A w \in Workers : Publishing(w) =>
       /\ job[w].round # 0 /\ Over(job[w].round)
       /\ outbox.noOffers[job[w].round] = 0
  /\ \A v, w \in Workers :
       v # w /\ Publishing(v) /\ Publishing(w) => job[v].round # job[w].round

MatchingInv == TypeOK /\ Answers /\ Endings

-----------------------------------------------------------------------------
(* Types.                                                                   *)

LEMMA IdleType == Idle \in Jobs
BY DEF Idle, Jobs, Rings

LEMMA GoType ==
  ASSUME TypeOK, NEW w \in Workers, NEW state \in Jobs, Go(w, state)
  PROVE  job' \in [Workers -> Jobs]
BY DEF TypeOK, Go

LEMMA WriteType ==
  ASSUME TypeOK, NEW s \in Sessions, NEW rows \in [Offers -> OfferRows], Write(s, rows)
  PROVE  /\ session' \in Sessions /\ offers' \in [Offers -> OfferRows]
         /\ replica' \in [session : Sessions, offers : [Offers -> OfferRows]]
BY DEF TypeOK, Write

LEMMA TroubleType ==
  ASSUME TypeOK, Trouble \/ UNCHANGED troubles
  PROVE  troubles' \in 0..MaxTroubles
BY DEF TypeOK, Trouble

LEMMA CommitType ==
  ASSUME TypeOK, NEW s \in Sessions, NEW rows \in [Offers -> OfferRows], Commit(s, rows)
  PROVE  /\ session' \in Sessions /\ offers' \in [Offers -> OfferRows]
         /\ replica' \in [session : Sessions, offers : [Offers -> OfferRows]]
         /\ troubles' \in 0..MaxTroubles
BY WriteType, TroubleType DEF Commit

LEMMA EndedType ==
  ASSUME TypeOK, NEW W, NEW to \in {"ACCEPTED", "REJECTED", "TIMEOUT", "WITHDRAWN"}
  PROVE  Ended(W, to) \in [Offers -> OfferRows]
<1>1. ASSUME NEW o \in Offers PROVE [offers[o] EXCEPT !.outcome = to] \in OfferRows
  BY <1>1 DEF TypeOK, OfferRows
<1> QED BY <1>1 DEF TypeOK, Ended

LEMMA ClosingType ==
  ASSUME TypeOK, NEW to \in {"MATCHED", "TIMED_OUT", "CANCELLED"}
  PROVE  Closing(to) \in Sessions
BY DEF TypeOK, Closing, Sessions

LEMMA WideType ==
  ASSUME TypeOK, NEW k \in Rings, NEW due \in BOOLEAN
  PROVE  [session EXCEPT !.ring = k, !.due = due] \in Sessions
BY DEF TypeOK, Sessions

\* Steps of jobs.
LEMMA StateTypes ==
  ASSUME TypeOK, NEW w \in Workers
  PROVE  /\ [Idle EXCEPT !.at = "look"] \in Jobs
         /\ \A S \in SUBSET Drivers : [Idle EXCEPT !.at = "offer", !.picks = S] \in Jobs
         /\ \A S \in SUBSET Drivers : [job[w] EXCEPT !.picks = S] \in Jobs
         /\ [Idle EXCEPT !.at = "close"] \in Jobs
         /\ [Idle EXCEPT !.at = "publish", !.round = session.round] \in Jobs
         /\ [Idle EXCEPT !.at = "matched"] \in Jobs
         /\ [Idle EXCEPT !.at = "withdraw"] \in Jobs
         /\ [job[w] EXCEPT !.at = "choose"] \in Jobs
         /\ [job[w] EXCEPT !.at = "siblings"] \in Jobs
         /\ \A S \in SUBSET Offers : [job[w] EXCEPT !.at = "retract", !.todo = S] \in Jobs
         /\ \A S \in SUBSET Offers : [job[w] EXCEPT !.todo = S] \in Jobs
BY IdleType DEF TypeOK, Jobs, Sessions

-----------------------------------------------------------------------------
LEMMA InitInv == Init => MatchingInv
<1> SUFFICES ASSUME Init PROVE MatchingInv
  OBVIOUS
<1>s. session \in Sessions
  <2>1. FALSE \in BOOLEAN /\ 1 \in Rings /\ 0 \in 0..MaxRequests
    BY DEF Rings
  <2> QED BY <2>1 DEF Init, Sessions
<1>o. offers \in [Offers -> OfferRows]
  BY DEF Init, OfferRows
<1>b. outbox \in Outboxes
  BY DEF Init, Outboxes
<1>j. job \in [Workers -> Jobs]
  BY IdleType DEF Init
<1>r. replica \in [session : Sessions, offers : [Offers -> OfferRows]]
  BY <1>s, <1>o DEF Init
<1>e. flow \in {"STANDARD", "EMERGENCY"} /\ cancelled \in BOOLEAN
  BY DEF Init
<1>u. troubles \in 0..MaxTroubles
  BY DEF Init
<1>1. TypeOK
  BY <1>s, <1>o, <1>b, <1>j, <1>r, <1>e, <1>u DEF TypeOK
<1>2. Answers
  BY DEF Init, Answers, Accepted
<1>3. Endings
  BY DEF Init, Endings, Publishing, Idle
<1> QED BY <1>1, <1>2, <1>3 DEF MatchingInv

LEMMA TypeInv == TypeOK /\ [Next]_vars => TypeOK'
<1> SUFFICES ASSUME TypeOK, [Next]_vars PROVE TypeOK'
  OBVIOUS
<1>t. session \in Sessions /\ offers \in [Offers -> OfferRows] /\ outbox \in Outboxes
  BY DEF TypeOK
<1>i. Idle \in Jobs
  BY IdleType
<1>0. CASE UNCHANGED vars
  BY <1>0 DEF TypeOK, vars
<1>1. ASSUME NEW w \in Workers, Start(w) PROVE TypeOK'
  <2> DEFINE opened == [status |-> "OPEN", round |-> session.round + 1, ring |-> 1,
                        due |-> session.due]
  <2>1. opened \in Sessions
    <3>1. session.due \in BOOLEAN /\ session.round + 1 \in 0..MaxRequests /\ 1 \in Rings
      BY <1>1, <1>t DEF Start, Sessions, Rings
    <3> QED BY <3>1 DEF Sessions
  <2>2. Write(opened, offers) /\ (Trouble \/ UNCHANGED troubles)
    BY <1>1 DEF Start, Commit
  <2> HIDE DEF opened
  <2>3. job' \in [Workers -> Jobs]
    BY <1>1, GoType, StateTypes DEF Start, OfferNext
  <2> QED BY <1>1, <1>t, <2>1, <2>2, <2>3, WriteType, TroubleType DEF Start, TypeOK
<1>2. ASSUME NEW w \in Workers, NEW o \in Offers, Reject(w, o) PROVE TypeOK'
  <2>1. job' \in [Workers -> Jobs]
    BY <1>2, GoType, StateTypes DEF Reject, OfferNext
  <2> QED BY <1>2, <1>t, <2>1, EndedType, CommitType DEF Reject, TypeOK
<1>3. ASSUME NEW w \in Workers, NEW o \in Offers, SweepExpired(w, o) PROVE TypeOK'
  <2>1. job' \in [Workers -> Jobs]
    BY <1>3, GoType, StateTypes DEF SweepExpired, OfferNext
  <2> QED BY <1>3, <1>t, <2>1, EndedType, CommitType DEF SweepExpired, TypeOK
<1>4. ASSUME NEW w \in Workers, SweepExpandable(w) PROVE TypeOK'
  <2> DEFINE k == replica.session.ring + 1
             due == k < MaxRing
             wide == [session EXCEPT !.ring = k, !.due = due]
  <2>1. k \in Rings /\ due \in BOOLEAN
    BY <1>4 DEF SweepExpandable, TypeOK, Sessions, Rings
  <2>2. Commit(wide, offers)
    BY <1>4 DEF SweepExpandable
  <2>3. wide \in Sessions
    <3> HIDE DEF k, due
    <3> QED BY <2>1, WideType
  <2>4. job' \in [Workers -> Jobs]
    BY <1>4, GoType, StateTypes DEF SweepExpandable, OfferNext
  <2> HIDE DEF wide
  <2> QED BY <1>4, <1>t, <2>2, <2>3, <2>4, CommitType DEF SweepExpandable, TypeOK
<1>5. ASSUME NEW w \in Workers, Look(w) PROVE TypeOK'
  <2>1. replica.session.round \in 0..MaxRequests /\ replica.session.ring \in Rings
    BY DEF TypeOK, Sessions
  <2>2. \A a \in {"choose", "count"} :
          [job[w] EXCEPT !.at = a, !.round = replica.session.round,
                         !.ring = replica.session.ring] \in Jobs
    <3>1. job[w] \in Jobs
      BY DEF TypeOK
    <3> QED BY <2>1, <3>1 DEF Jobs
  <2>3. job' \in [Workers -> Jobs]
    BY <1>5, <1>i, <2>2, GoType DEF Look, Done
  <2> QED BY <1>5, <2>3 DEF Look, TypeOK
<1>6. ASSUME NEW w \in Workers, Count(w) PROVE TypeOK'
  <2>1. job' \in [Workers -> Jobs]
    BY <1>6, <1>i, GoType, StateTypes DEF Count, Done
  <2> QED BY <1>6, <2>1 DEF Count, TypeOK
<1>7. ASSUME NEW w \in Workers, Choose(w) PROVE TypeOK'
  <2>1. PICK d \in Drivers, k \in job[w].ring..MaxRing :
          /\ Commit([session EXCEPT !.ring = k, !.due = k < MaxRing], offers)
          /\ Go(w, [Idle EXCEPT !.at = "offer", !.picks = {d}])
    BY <1>7 DEF Choose
  <2> DEFINE due == k < MaxRing
             wide == [session EXCEPT !.ring = k, !.due = due]
  <2>2. k \in Rings /\ due \in BOOLEAN
    BY DEF TypeOK, Jobs, Rings
  <2>3. wide \in Sessions
    <3> HIDE DEF due
    <3> QED BY <2>2, WideType
  <2>4. Commit(wide, offers)
    BY <2>1
  <2>5. job' \in [Workers -> Jobs]
    BY <2>1, GoType, StateTypes
  <2> HIDE DEF wide
  <2> QED BY <1>7, <1>t, <2>3, <2>4, <2>5, CommitType DEF Choose, TypeOK
<1>8. ASSUME NEW w \in Workers, Broadcast(w) PROVE TypeOK'
  <2>1. job' \in [Workers -> Jobs]
    BY <1>8, GoType, StateTypes DEF Broadcast, Pools
  <2> QED BY <1>8, <2>1 DEF Broadcast, TypeOK
<1>9. ASSUME NEW w \in Workers, FindNobody(w) PROVE TypeOK'
  <2>1. job' \in [Workers -> Jobs]
    BY <1>9, <1>i, GoType, StateTypes DEF FindNobody, Done
  <2> QED BY <1>9, <2>1 DEF FindNobody, TypeOK
<1>10. ASSUME NEW w \in Workers, NEW o \in Offers, MakeOffer(w, o) PROVE TypeOK'
  <2>1. PICK d \in job[w].picks :
          /\ Commit(session, [offers EXCEPT ![o] = [driver |-> d, round |-> session.round,
                                                    outcome |-> "OFFERED"]])
          /\ Go(w, IF job[w].picks \ {d} = {} THEN Idle
                   ELSE [job[w] EXCEPT !.picks = job[w].picks \ {d}])
    BY <1>10 DEF MakeOffer
  <2>2. job[w].picks \subseteq Drivers
    BY DEF TypeOK, Jobs
  <2>3. [driver |-> d, round |-> session.round, outcome |-> "OFFERED"] \in OfferRows
    BY <1>t, <2>2 DEF OfferRows, Sessions
  <2>4. [offers EXCEPT ![o] = [driver |-> d, round |-> session.round,
                               outcome |-> "OFFERED"]] \in [Offers -> OfferRows]
    BY <1>t, <2>3
  <2>5. job' \in [Workers -> Jobs]
    BY <1>i, <2>1, <2>2, GoType, StateTypes
  <2> QED BY <1>10, <1>t, <2>1, <2>4, <2>5, CommitType DEF MakeOffer, TypeOK
<1>11. ASSUME NEW w \in Workers, CloseTimedOut(w) PROVE TypeOK'
  <2>1. job' \in [Workers -> Jobs]
    BY <1>11, <1>i, GoType, StateTypes DEF CloseTimedOut, Done
  <2> QED BY <1>11, <1>t, <2>1, ClosingType, CommitType DEF CloseTimedOut, TypeOK
<1>12. ASSUME NEW w \in Workers, PublishNoCandidates(w) PROVE TypeOK'
  <2>1. job' \in [Workers -> Jobs]
    BY <1>12, <1>i, GoType DEF PublishNoCandidates, Done
  <2>2. outbox' \in Outboxes
    BY <1>12, <1>t DEF PublishNoCandidates, Outboxes
  <2> QED BY <1>12, <2>1, <2>2 DEF PublishNoCandidates, TypeOK
<1>13. ASSUME NEW w \in Workers, NEW o \in Offers, Accept(w, o) PROVE TypeOK'
  <2>1. job' \in [Workers -> Jobs]
    BY <1>13, GoType, StateTypes DEF Accept
  <2>2. outbox' \in Outboxes
    BY <1>13, <1>t DEF Accept, Outboxes
  <2> QED BY <1>13, <1>t, <2>1, <2>2, EndedType, CommitType DEF Accept, TypeOK
<1>14. ASSUME NEW w \in Workers, MarkMatched(w) PROVE TypeOK'
  <2>1. job' \in [Workers -> Jobs]
    BY <1>14, GoType, StateTypes DEF MarkMatched
  <2> QED BY <1>14, <1>t, <2>1, ClosingType, CommitType DEF MarkMatched, TypeOK
<1>15. ASSUME NEW w \in Workers, FindSiblings(w) PROVE TypeOK'
  <2>1. job' \in [Workers -> Jobs]
    BY <1>15, <1>i, GoType, StateTypes DEF FindSiblings, Live
  <2> QED BY <1>15, <2>1 DEF FindSiblings, TypeOK
<1>16. ASSUME NEW w \in Workers, NEW o \in Offers, RetractSibling(w, o) PROVE TypeOK'
  <2>0. job[w].todo \subseteq Offers
    BY DEF TypeOK, Jobs
  <2>1. job' \in [Workers -> Jobs]
    <3>1. [job[w] EXCEPT !.todo = job[w].todo \ {o}] \in Jobs
      BY <2>0, StateTypes
    <3> QED BY <1>16, <1>i, <3>1, GoType DEF RetractSibling
  <2>2. CASE UNCHANGED <<session, offers, outbox, replica, troubles>>
    BY <1>16, <2>1, <2>2 DEF RetractSibling, TypeOK
  <2>3. CASE /\ Commit(session, Ended({o}, "TIMEOUT"))
             /\ outbox' = [outbox EXCEPT !.taken = @ \cup {o}]
    <3>1. outbox' \in Outboxes
      BY <2>3, <1>t DEF Outboxes
    <3> QED BY <1>16, <1>t, <2>1, <2>3, <3>1, EndedType, CommitType DEF RetractSibling, TypeOK
  <2> QED BY <1>16, <2>2, <2>3 DEF RetractSibling
<1>17. ASSUME NEW w \in Workers, CancelSession(w) PROVE TypeOK'
  <2>1. job' \in [Workers -> Jobs]
    BY <1>17, GoType, StateTypes DEF CancelSession
  <2> QED BY <1>17, <1>t, <2>1, ClosingType, CommitType DEF CancelSession, TypeOK
<1>18. ASSUME NEW w \in Workers, WithdrawLive(w) PROVE TypeOK'
  <2>1. job' \in [Workers -> Jobs]
    BY <1>18, <1>i, GoType DEF WithdrawLive, Done
  <2>2. outbox' \in Outboxes
    BY <1>18, <1>t DEF WithdrawLive, Outboxes, Live
  <2> QED BY <1>18, <1>t, <2>1, <2>2, EndedType, CommitType DEF WithdrawLive, TypeOK
<1>19. CASE CatchUp
  BY <1>19, <1>t DEF CatchUp, TypeOK
<1>20. ASSUME NEW w \in Workers, Crash(w) PROVE TypeOK'
  <2>1. job' \in [Workers -> Jobs]
    BY <1>20, <1>i, GoType DEF Crash, Done
  <2> QED BY <1>20, <2>1, TroubleType DEF Crash, TypeOK
<1> QED BY <1>0, <1>1, <1>2, <1>3, <1>4, <1>5, <1>6, <1>7, <1>8, <1>9, <1>10, <1>11, <1>12,
           <1>13, <1>14, <1>15, <1>16, <1>17, <1>18, <1>19, <1>20 DEF Next, GoOn, Sweep

-----------------------------------------------------------------------------
(* What a step does to the outcomes and to the outbox.                      *)

Told == outbox.taken \cup outbox.withdrawn
Moved(W, to) ==
  \A o \in Offers : offers'[o].outcome = IF o \in W THEN to ELSE offers[o].outcome

Quiet == Moved({}, "none") /\ UNCHANGED outbox
Offered(o) == offers[o].outcome = "none" /\ Moved({o}, "OFFERED") /\ UNCHANGED outbox
Taken(o) ==
  /\ offers[o].outcome = "OFFERED" /\ Accepted = {} /\ Moved({o}, "ACCEPTED")
  /\ outbox' = [outbox EXCEPT !.matched = @ \cup {o}]
Lapsed(o, to) == offers[o].outcome = "OFFERED" /\ Moved({o}, to) /\ UNCHANGED outbox
Recalled(W, to) ==
  /\ W \subseteq Live(offers) /\ Moved(W, to) /\ Told' = Told \cup W
  /\ UNCHANGED <<outbox.matched, outbox.noOffers>>
GivenUp(r) ==
  /\ Moved({}, "none") /\ outbox' = [outbox EXCEPT !.noOffers[r] = @ + 1]

Steps ==
  \/ Quiet
  \/ \E o \in Offers : Offered(o) \/ Taken(o) \/ (\E to \in {"REJECTED", "TIMEOUT"} : Lapsed(o, to))
  \/ \E W \in SUBSET Offers, to \in {"TIMEOUT", "WITHDRAWN"} : Recalled(W, to)
  \/ \E w \in Workers : Publishing(w) /\ GivenUp(job[w].round)

LEMMA CommitMoves ==
  ASSUME TypeOK, NEW W, NEW to, NEW s, Commit(s, Ended(W, to))
  PROVE  Moved(W, to)
<1>1. offers \in [Offers -> OfferRows] /\ offers' = Ended(W, to)
  BY DEF TypeOK, Commit, Write
<1>2. ASSUME NEW o \in Offers
      PROVE  Ended(W, to)[o].outcome = IF o \in W THEN to ELSE offers[o].outcome
  BY <1>1 DEF Ended, OfferRows
<1> QED BY <1>1, <1>2 DEF Moved

LEMMA SessionOnly ==
  ASSUME NEW s, Commit(s, offers) \/ Write(s, offers)
  PROVE  Moved({}, "none")
BY DEF Commit, Write, Moved

LEMMA EveryStep == TypeOK /\ [Next]_vars => Steps
<1> SUFFICES ASSUME TypeOK, [Next]_vars PROVE Steps
  OBVIOUS
<1>t. offers \in [Offers -> OfferRows] /\ outbox \in Outboxes
  BY DEF TypeOK
<1>q. ASSUME UNCHANGED <<offers, outbox>> PROVE Quiet
  BY <1>q DEF Quiet, Moved
<1>0. CASE UNCHANGED vars
  BY <1>0, <1>q DEF vars, Steps
<1>1. ASSUME NEW w \in Workers, \/ Start(w) \/ SweepExpandable(w) \/ Choose(w) \/ CloseTimedOut(w)
                                \/ MarkMatched(w) \/ CancelSession(w)
      PROVE  Quiet
  BY <1>1, SessionOnly
     DEF Start, SweepExpandable, Choose, CloseTimedOut, MarkMatched, CancelSession, Quiet
<1>2. ASSUME NEW w \in Workers, \/ Look(w) \/ Count(w) \/ Broadcast(w) \/ FindNobody(w)
                                \/ FindSiblings(w) \/ Crash(w)
      PROVE  Quiet
  BY <1>2, <1>q DEF Look, Count, Broadcast, FindNobody, FindSiblings, Crash
<1>3. ASSUME NEW w \in Workers, NEW o \in Offers, Reject(w, o) PROVE Lapsed(o, "REJECTED")
  BY <1>3, CommitMoves DEF Reject, Lapsed, Live
<1>4. ASSUME NEW w \in Workers, NEW o \in Offers, SweepExpired(w, o) PROVE Lapsed(o, "TIMEOUT")
  BY <1>4, CommitMoves DEF SweepExpired, Lapsed, Live
<1>5. ASSUME NEW w \in Workers, NEW o \in Offers, MakeOffer(w, o) PROVE Offered(o)
  <2>1. PICK d \in job[w].picks :
          Commit(session, [offers EXCEPT ![o] = [driver |-> d, round |-> session.round,
                                                 outcome |-> "OFFERED"]])
    BY <1>5 DEF MakeOffer
  <2>2. Moved({o}, "OFFERED")
    BY <1>t, <2>1 DEF Commit, Write, Moved
  <2> QED BY <1>5, <2>2 DEF MakeOffer, Offered
<1>6. ASSUME NEW w \in Workers, PublishNoCandidates(w) PROVE Publishing(w) /\ GivenUp(job[w].round)
  BY <1>6 DEF PublishNoCandidates, Publishing, GivenUp, Moved
<1>7. ASSUME NEW w \in Workers, NEW o \in Offers, Accept(w, o) PROVE Taken(o)
  BY <1>7, CommitMoves DEF Accept, Taken, Live
<1>8. ASSUME NEW w \in Workers, NEW o \in Offers, RetractSibling(w, o)
      PROVE  Quiet \/ Recalled({o}, "TIMEOUT")
  <2>1. CASE UNCHANGED <<session, offers, outbox, replica, troubles>>
    BY <1>8, <1>q, <2>1 DEF RetractSibling
  <2>2. CASE /\ o \in Live(offers)
             /\ Commit(session, Ended({o}, "TIMEOUT"))
             /\ outbox' = [outbox EXCEPT !.taken = @ \cup {o}]
    <3>1. Told' = Told \cup {o} /\ UNCHANGED <<outbox.matched, outbox.noOffers>>
      BY <1>t, <2>2 DEF Told, Outboxes
    <3> QED BY <2>2, <3>1, CommitMoves DEF Recalled
  <2> QED BY <1>8, <2>1, <2>2 DEF RetractSibling
<1>9. ASSUME NEW w \in Workers, WithdrawLive(w) PROVE Recalled(Live(offers), "WITHDRAWN")
  <2>1. Told' = Told \cup Live(offers) /\ UNCHANGED <<outbox.matched, outbox.noOffers>>
    BY <1>9, <1>t DEF WithdrawLive, Told, Outboxes
  <2> QED BY <1>9, <2>1, CommitMoves DEF WithdrawLive, Recalled
<1>10. Live(offers) \in SUBSET Offers
  BY DEF Live
<1>11. Quiet => Steps
  BY DEF Steps
<1>12. ASSUME NEW o \in Offers,
              \/ Offered(o) \/ Taken(o) \/ Lapsed(o, "REJECTED") \/ Lapsed(o, "TIMEOUT")
              \/ Recalled({o}, "TIMEOUT")
       PROVE  Steps
  <2>1. {o} \in SUBSET Offers
    OBVIOUS
  <2> QED BY <1>12, <2>1 DEF Steps
<1>13. Recalled(Live(offers), "WITHDRAWN") => Steps
  BY <1>10 DEF Steps
<1>14. ASSUME NEW w \in Workers, Publishing(w) /\ GivenUp(job[w].round) PROVE Steps
  BY <1>14 DEF Steps
<1>15. ASSUME NEW w \in Workers, NEW o \in Offers,
              Reject(w, o) \/ SweepExpired(w, o) \/ MakeOffer(w, o) \/ Accept(w, o) \/ RetractSibling(w, o)
       PROVE  Steps
  BY <1>3, <1>4, <1>5, <1>7, <1>8, <1>11, <1>12, <1>15
<1>16. ASSUME NEW w \in Workers,
              \/ Start(w) \/ SweepExpandable(w) \/ Choose(w) \/ CloseTimedOut(w)
              \/ MarkMatched(w) \/ CancelSession(w) \/ Look(w) \/ Count(w) \/ Broadcast(w)
              \/ FindNobody(w) \/ FindSiblings(w) \/ Crash(w) \/ PublishNoCandidates(w)
              \/ WithdrawLive(w)
       PROVE  Steps
  BY <1>1, <1>2, <1>6, <1>9, <1>11, <1>13, <1>14, <1>16
<1>17. CatchUp => Steps
  BY <1>q, <1>11 DEF CatchUp
<1> QED BY <1>0, <1>15, <1>16, <1>17 DEF Next, GoOn, Sweep

LEMMA AnswersInv == TypeOK /\ Answers /\ [Next]_vars => Answers'
<1> SUFFICES ASSUME TypeOK, Answers, Steps PROVE Answers'
  BY EveryStep
<1>t. outbox \in Outboxes
  BY DEF TypeOK
<1>1. ASSUME NEW W, NEW to, W \subseteq Offers, Moved(W, to), to # "ACCEPTED",
             \A o \in W : offers[o].outcome # "ACCEPTED"
      PROVE  Accepted' = Accepted
  BY <1>1 DEF Moved, Accepted
<1>2. ASSUME NEW W, NEW to, W \subseteq Offers, Moved(W, to), Told' = Told,
             \A o \in W : offers[o].outcome \notin {"TIMEOUT", "WITHDRAWN"}
      PROVE  \A o \in Told' : offers'[o].outcome \in {"TIMEOUT", "WITHDRAWN"}
  <2>1. Told \subseteq Offers
    BY <1>t DEF Told, Outboxes
  <2> QED BY <1>2, <2>1 DEF Moved, Answers, Told
<1>3. CASE Quiet
  BY <1>1, <1>2, <1>3 DEF Quiet, Answers, Told
<1>4. ASSUME NEW o \in Offers, Offered(o) PROVE Answers'
  BY <1>1, <1>2, <1>4 DEF Offered, Answers, Told
<1>5. ASSUME NEW o \in Offers, Taken(o) PROVE Answers'
  <2>1. Accepted' = {o}
    BY <1>5 DEF Taken, Moved, Accepted
  <2>2. outbox'.matched = {o} /\ Told' = Told
    BY <1>5, <1>t DEF Taken, Answers, Told, Outboxes
  <2>3. \A q \in Told' : offers'[q].outcome \in {"TIMEOUT", "WITHDRAWN"}
    BY <1>2, <1>5, <2>2 DEF Taken
  <2> QED BY <2>1, <2>2, <2>3 DEF Answers, Told
<1>6. ASSUME NEW o \in Offers, NEW to \in {"REJECTED", "TIMEOUT"}, Lapsed(o, to) PROVE Answers'
  BY <1>1, <1>2, <1>6 DEF Lapsed, Answers, Told
<1>7. ASSUME NEW W \in SUBSET Offers, NEW to \in {"TIMEOUT", "WITHDRAWN"}, Recalled(W, to)
      PROVE  Answers'
  <2>1. Accepted' = Accepted
    BY <1>1, <1>7 DEF Recalled, Live
  <2>2. Told \subseteq Offers
    BY <1>t DEF Told, Outboxes
  <2>3. ASSUME NEW o \in Told' PROVE offers'[o].outcome \in {"TIMEOUT", "WITHDRAWN"}
    BY <1>7, <2>2, <2>3 DEF Recalled, Moved, Answers, Told
  <2> QED BY <1>7, <2>1, <2>3 DEF Recalled, Answers, Told
<1>8. ASSUME NEW r, GivenUp(r) PROVE Answers'
  <2>1. outbox'.matched = outbox.matched /\ Told' = Told
    BY <1>8, <1>t DEF GivenUp, Told, Outboxes
  <2> QED BY <1>1, <1>2, <1>8, <2>1 DEF GivenUp, Answers, Told
<1> QED BY <1>3, <1>4, <1>5, <1>6, <1>7, <1>8 DEF Steps

-----------------------------------------------------------------------------
(* The end of a search.                                                     *)

\* The session is left alone, widened, closed, or opened once more.
SessionMoves ==
  \/ session'.round = session.round /\ (session'.status = "OPEN" => session.status = "OPEN")
  \/ session'.round = session.round + 1 /\ session'.status = "OPEN"
NobodyPublishes == \A w \in Workers : Publishing(w)' => Publishing(w) /\ job'[w] = job[w]

LEMMA JobMoves ==
  ASSUME TypeOK, NEW w \in Workers, NEW state, Go(w, state), state.at # "publish"
  PROVE  NobodyPublishes
<1>1. ASSUME NEW v \in Workers PROVE job'[v] = IF v = w THEN state ELSE job[v]
  BY DEF TypeOK, Go
<1> QED BY <1>1 DEF NobodyPublishes, Publishing

LEMMA CloseMoves ==
  ASSUME TypeOK, NEW to \in {"MATCHED", "TIMED_OUT", "CANCELLED"}, session' = Closing(to)
  PROVE  session'.round = session.round /\ session'.status # "OPEN"
BY DEF TypeOK, Closing, Sessions

LEMMA WideMoves ==
  ASSUME TypeOK, NEW k, NEW due, session' = [session EXCEPT !.ring = k, !.due = due]
  PROVE  session'.round = session.round /\ session'.status = session.status
BY DEF TypeOK, Sessions

LEMMA EndingsKept ==
  ASSUME TypeOK, Endings, SessionMoves, NobodyPublishes, UNCHANGED outbox.noOffers
  PROVE  Endings'
<1>t. session.round \in Nat /\ \A w \in Workers : job[w].round \in Nat
  BY DEF TypeOK, Sessions, Jobs
<1>1. ASSUME NEW r \in Nat, Over(r) PROVE Over(r)'
  BY <1>1, <1>t DEF SessionMoves, Over
<1>2. session'.status = "OPEN" => session'.round # 0
  BY <1>t DEF SessionMoves, Endings
<1>3. ASSUME NEW r \in Openings, outbox'.noOffers[r] # 0 PROVE Over(r)'
  BY <1>1, <1>3 DEF Endings, Openings
<1>4. ASSUME NEW w \in Workers, Publishing(w)'
      PROVE  job'[w].round # 0 /\ Over(job[w].round)' /\ outbox'.noOffers[job'[w].round] = 0
  BY <1>1, <1>t, <1>4 DEF NobodyPublishes, Endings
<1>5. ASSUME NEW w \in Workers, Publishing(w)' PROVE Publishing(w) /\ job'[w] = job[w]
  BY <1>5 DEF NobodyPublishes
<1>6. ASSUME NEW v \in Workers, NEW w \in Workers, v # w, Publishing(v)', Publishing(w)'
      PROVE  job'[v].round # job'[w].round
  BY <1>5, <1>6 DEF Endings
<1> QED BY <1>2, <1>3, <1>4, <1>6 DEF Endings, Publishing

LEMMA EndingsInv == TypeOK /\ TypeOK' /\ Endings /\ [Next]_vars => Endings'
<1> SUFFICES ASSUME TypeOK, TypeOK', Endings, [Next]_vars PROVE Endings'
  OBVIOUS
<1>t. outbox \in Outboxes /\ session \in Sessions /\ job \in [Workers -> Jobs]
  BY DEF TypeOK
<1>s. UNCHANGED session => SessionMoves
  BY DEF SessionMoves
<1>i. Idle.at = "idle"
  BY DEF Idle
<1>n. ASSUME NEW w \in Workers, OfferNext(w) \/ Done(w) PROVE NobodyPublishes
  <2>1. [Idle EXCEPT !.at = "look"].at = "look"
    BY DEF Idle
  <2> QED BY <1>i, <1>n, <2>1, JobMoves DEF OfferNext, Done
<1>g. ASSUME NEW w \in Workers, NEW state \in Jobs, NEW a, a # "publish",
             Go(w, [state EXCEPT !.at = a]) PROVE NobodyPublishes
  <2>1. [state EXCEPT !.at = a].at = a
    BY DEF Jobs
  <2> QED BY <1>g, <2>1, JobMoves
<1>c. ASSUME NEW rows, Commit(session, rows) PROVE SessionMoves
  BY <1>c DEF Commit, Write, SessionMoves
<1>k. ASSUME NEW to \in {"MATCHED", "TIMED_OUT", "CANCELLED"}, Commit(Closing(to), offers)
      PROVE  SessionMoves
  BY <1>k, CloseMoves DEF Commit, Write, SessionMoves
<1>0. CASE UNCHANGED vars
  BY <1>0, <1>s, EndingsKept DEF vars, NobodyPublishes, Publishing
<1>1. ASSUME NEW w \in Workers, Start(w) PROVE Endings'
  <2> DEFINE opened == [status |-> "OPEN", round |-> session.round + 1, ring |-> 1,
                        due |-> session.due]
  <2>1. session' = opened
    BY <1>1 DEF Start, Commit, Write
  <2>2. SessionMoves
    BY <2>1 DEF SessionMoves
  <2> QED BY <1>1, <1>n, <2>2, EndingsKept DEF Start
<1>2. ASSUME NEW w \in Workers, NEW o \in Offers, Reject(w, o) \/ SweepExpired(w, o) PROVE Endings'
  <2>1. SessionMoves
    BY <1>2, <1>c DEF Reject, SweepExpired
  <2> QED BY <1>2, <1>n, <2>1, EndingsKept DEF Reject, SweepExpired
<1>4. ASSUME NEW w \in Workers, SweepExpandable(w) PROVE Endings'
  <2>1. SessionMoves
    BY <1>4, WideMoves DEF SweepExpandable, Commit, Write, SessionMoves
  <2> QED BY <1>4, <1>n, <2>1, EndingsKept DEF SweepExpandable
<1>5. ASSUME NEW w \in Workers, Look(w) PROVE Endings'
  <2> DEFINE next(a) == [job[w] EXCEPT !.at = a, !.round = replica.session.round,
                                       !.ring = replica.session.ring]
  <2>1. \A a : next(a).at = a
    BY <1>t DEF Jobs
  <2>2. Done(w) \/ Go(w, next("choose")) \/ Go(w, next("count"))
    BY <1>5 DEF Look
  <2> HIDE DEF next
  <2>3. NobodyPublishes
    BY <1>n, <2>1, <2>2, JobMoves
  <2> QED BY <1>5, <1>s, <2>3, EndingsKept DEF Look
<1>6. ASSUME NEW w \in Workers, Count(w) PROVE Endings'
  <2>1. NobodyPublishes
    BY <1>6, <1>n, <1>g, <1>t DEF Count
  <2> QED BY <1>6, <1>s, <2>1, EndingsKept DEF Count
<1>7. ASSUME NEW w \in Workers, Choose(w) PROVE Endings'
  <2>1. PICK d \in Drivers, k \in job[w].ring..MaxRing :
          /\ Commit([session EXCEPT !.ring = k, !.due = k < MaxRing], offers)
          /\ Go(w, [Idle EXCEPT !.at = "offer", !.picks = {d}])
    BY <1>7 DEF Choose
  <2>2. SessionMoves
    BY <2>1, WideMoves DEF Commit, Write, SessionMoves
  <2>3. [Idle EXCEPT !.at = "offer", !.picks = {d}].at = "offer"
    BY DEF Idle
  <2>4. NobodyPublishes
    BY <2>1, <2>3, JobMoves
  <2> QED BY <1>7, <2>2, <2>4, EndingsKept DEF Choose
<1>8. ASSUME NEW w \in Workers, Broadcast(w) PROVE Endings'
  <2>1. PICK S : Go(w, [Idle EXCEPT !.at = "offer", !.picks = S])
    BY <1>8 DEF Broadcast
  <2>2. [Idle EXCEPT !.at = "offer", !.picks = S].at = "offer"
    BY DEF Idle
  <2>3. NobodyPublishes
    BY <2>1, <2>2, JobMoves
  <2> QED BY <1>8, <1>s, <2>3, EndingsKept DEF Broadcast
<1>9. ASSUME NEW w \in Workers, FindNobody(w) PROVE Endings'
  <2>1. NobodyPublishes
    BY <1>9, <1>n, <1>g, IdleType DEF FindNobody
  <2> QED BY <1>9, <1>s, <2>1, EndingsKept DEF FindNobody
<1>10. ASSUME NEW w \in Workers, NEW o \in Offers, MakeOffer(w, o) PROVE Endings'
  <2>1. PICK rows, left : /\ Commit(session, rows)
                          /\ Go(w, IF left = {} THEN Idle ELSE [job[w] EXCEPT !.picks = left])
    BY <1>10 DEF MakeOffer
  <2>2. [job[w] EXCEPT !.picks = left].at = "offer"
    BY <1>10, <1>t DEF MakeOffer, Jobs
  <2>3. NobodyPublishes
    BY <1>i, <2>1, <2>2, JobMoves
  <2> QED BY <1>10, <1>c, <2>1, <2>3, EndingsKept DEF MakeOffer
<1>11. ASSUME NEW w \in Workers, CloseTimedOut(w) PROVE Endings'
  <2>1. CASE session.status # "OPEN"
    BY <1>11, <1>k, <1>n, <2>1, EndingsKept DEF CloseTimedOut
  <2>2. CASE session.status = "OPEN"
    <3> DEFINE r == session.round
               state == [Idle EXCEPT !.at = "publish", !.round = r]
    <3>1. r # 0 /\ r \in Nat /\ ~Over(r) /\ (r \in Openings => outbox.noOffers[r] = 0)
      BY <1>t, <2>2 DEF Endings, Over, Sessions, Openings
    <3>2. r \in Openings
      BY <1>t, <3>1 DEF Sessions, Openings
    <3>3. session'.round = r /\ session'.status # "OPEN" /\ outbox' = outbox
      BY <1>11, CloseMoves DEF CloseTimedOut, Commit, Write
    <3>4. state.round = r
      BY DEF Idle
    <3>5. \A v \in Workers : job'[v] = IF v = w THEN state ELSE job[v]
      BY <1>11, <1>t, <2>2 DEF CloseTimedOut, Go
    <3>6. \A q \in Nat : Over(q) => Over(q)'
      BY <3>1, <3>3 DEF Over
    <3>7. Over(r)'
      BY <3>3 DEF Over
    <3>8. \A v \in Workers : job[v].round \in Nat
      BY <1>t DEF Jobs
    <3> HIDE DEF r, state
    <3>9. ASSUME NEW v \in Workers, v # w, Publishing(v)'
          PROVE  /\ job'[v] = job[v] /\ job[v].round # 0 /\ Over(job[v].round)
                 /\ outbox.noOffers[job[v].round] = 0 /\ Publishing(v)
      BY <3>5, <3>9 DEF Endings, Publishing
    <3>10. ASSUME NEW v \in Workers, Publishing(v)'
           PROVE  /\ job'[v].round # 0 /\ Over(job[v].round)'
                  /\ outbox'.noOffers[job'[v].round] = 0
      <4>1. CASE v = w
        BY <3>1, <3>2, <3>3, <3>4, <3>5, <3>7, <4>1 DEF Over, r
      <4>2. CASE v # w
        BY <3>3, <3>6, <3>8, <3>9, <3>10, <4>2 DEF Over
      <4> QED BY <4>1, <4>2
    <3>11. ASSUME NEW v \in Workers, NEW u \in Workers, v # u, Publishing(v)', Publishing(u)'
           PROVE  job'[v].round # job'[u].round
      <4>1. CASE v # w /\ u # w
        BY <3>9, <3>11, <4>1 DEF Endings
      <4>2. CASE v = w
        BY <3>1, <3>4, <3>5, <3>9, <3>11, <4>2
      <4>3. CASE u = w
        BY <3>1, <3>4, <3>5, <3>9, <3>11, <4>3
      <4> QED BY <4>1, <4>2, <4>3
    <3>12. ASSUME NEW q \in Openings, outbox'.noOffers[q] # 0 PROVE Over(q)'
      BY <3>3, <3>6, <3>12 DEF Endings, Openings
    <3> QED BY <3>3, <3>10, <3>11, <3>12 DEF Endings, Publishing
  <2> QED BY <2>1, <2>2
<1>12. ASSUME NEW w \in Workers, PublishNoCandidates(w) PROVE Endings'
  <2> DEFINE r == job[w].round
  <2>1. Publishing(w) /\ UNCHANGED session
    BY <1>12 DEF PublishNoCandidates, Publishing
  <2>2. r \in Openings /\ Over(r)
    BY <1>t, <2>1 DEF Endings, Jobs, Openings
  <2>3. \A q \in Openings : q # r => outbox'.noOffers[q] = outbox.noOffers[q]
    BY <1>12, <1>t DEF PublishNoCandidates, Outboxes
  <2>4. \A v \in Workers : job'[v] = IF v = w THEN Idle ELSE job[v]
    BY <1>12, <1>t DEF PublishNoCandidates, Done, Go
  <2> HIDE DEF r
  <2>5. ASSUME NEW v \in Workers, Publishing(v)'
        PROVE  /\ v # w /\ Publishing(v) /\ job'[v] = job[v] /\ job[v].round # r
               /\ job[v].round \in Openings
    <3>1. v # w /\ Publishing(v) /\ job'[v] = job[v]
      BY <1>i, <2>4, <2>5 DEF Publishing
    <3>2. job[v].round \in Openings
      BY <1>t, <3>1 DEF Endings, Jobs, Openings
    <3> QED BY <2>1, <3>1, <3>2 DEF Endings, r
  <2>6. ASSUME NEW v \in Workers, Publishing(v)'
        PROVE  /\ job'[v].round # 0 /\ Over(job[v].round)'
               /\ outbox'.noOffers[job'[v].round] = 0
    BY <2>1, <2>3, <2>5, <2>6 DEF Endings, Over
  <2>7. ASSUME NEW q \in Openings, outbox'.noOffers[q] # 0 PROVE Over(q)'
    BY <2>1, <2>2, <2>3, <2>7 DEF Endings, Over
  <2>8. ASSUME NEW v \in Workers, NEW u \in Workers, v # u, Publishing(v)', Publishing(u)'
        PROVE  job'[v].round # job'[u].round
    BY <2>5, <2>8 DEF Endings
  <2> QED BY <2>1, <2>6, <2>7, <2>8 DEF Endings, Publishing
<1>13. ASSUME NEW w \in Workers, NEW o \in Offers, Accept(w, o) PROVE Endings'
  <2>1. outbox'.noOffers = outbox.noOffers
    BY <1>13, <1>t DEF Accept, Outboxes
  <2>2. SessionMoves
    BY <1>13, <1>c DEF Accept
  <2> QED BY <1>13, <1>g, <2>1, <2>2, IdleType, EndingsKept DEF Accept
<1>14. ASSUME NEW w \in Workers, MarkMatched(w) PROVE Endings'
  BY <1>14, <1>t, <1>g, <1>k, EndingsKept DEF MarkMatched
<1>15. ASSUME NEW w \in Workers, FindSiblings(w) PROVE Endings'
  <2>1. PICK S : Go(w, IF S = {} THEN Idle ELSE [job[w] EXCEPT !.at = "retract", !.todo = S])
    BY <1>15 DEF FindSiblings
  <2>2. [job[w] EXCEPT !.at = "retract", !.todo = S].at = "retract"
    BY <1>t DEF Jobs
  <2>3. NobodyPublishes
    BY <1>i, <2>1, <2>2, JobMoves
  <2> QED BY <1>15, <1>s, <2>3, EndingsKept DEF FindSiblings
<1>16. ASSUME NEW w \in Workers, NEW o \in Offers, RetractSibling(w, o) PROVE Endings'
  <2>1. outbox'.noOffers = outbox.noOffers
    BY <1>16, <1>t DEF RetractSibling, Outboxes
  <2>2. SessionMoves
    BY <1>16, <1>c, <1>s DEF RetractSibling
  <2>3. [job[w] EXCEPT !.todo = job[w].todo \ {o}].at = "retract"
    BY <1>16, <1>t DEF RetractSibling, Jobs
  <2>4. NobodyPublishes
    BY <1>16, <1>i, <2>3, JobMoves DEF RetractSibling
  <2> QED BY <2>1, <2>2, <2>4, EndingsKept
<1>17. ASSUME NEW w \in Workers, CancelSession(w) PROVE Endings'
  BY <1>17, <1>g, <1>k, IdleType, EndingsKept DEF CancelSession
<1>18. ASSUME NEW w \in Workers, WithdrawLive(w) PROVE Endings'
  <2>1. outbox'.noOffers = outbox.noOffers
    BY <1>18, <1>t DEF WithdrawLive, Outboxes
  <2>2. SessionMoves
    BY <1>18, <1>c DEF WithdrawLive
  <2> QED BY <1>18, <1>n, <2>1, <2>2, EndingsKept DEF WithdrawLive
<1>19. CASE CatchUp
  BY <1>19, <1>s, EndingsKept DEF CatchUp, NobodyPublishes, Publishing
<1>20. ASSUME NEW w \in Workers, Crash(w) PROVE Endings'
  BY <1>20, <1>s, <1>n, EndingsKept DEF Crash
<1> QED BY <1>0, <1>1, <1>2, <1>4, <1>5, <1>6, <1>7, <1>8, <1>9, <1>10, <1>11, <1>12,
           <1>13, <1>14, <1>15, <1>16, <1>17, <1>18, <1>19, <1>20 DEF Next, GoOn, Sweep

-----------------------------------------------------------------------------
\* What the proofs of the others rest on: types, the answers, the ends of searches.
THEOREM Invariance == Spec => []MatchingInv
<1>1. MatchingInv /\ [Next]_vars => MatchingInv'
  BY TypeInv, AnswersInv, EndingsInv DEF MatchingInv
<1> QED BY <1>1, InitInv, PTL DEF Spec

\* Every variable keeps the shape the code gives it.
THEOREM TypeCorrect == Spec => []TypeOK
<1>1. MatchingInv => TypeOK
  BY DEF MatchingInv
<1> QED BY <1>1, Invariance, PTL

\* Who hears of a match hears of the accepted offer, and of no other; the offer whose
\* withdrawal is told, of a sibling or of a cancelled trip, was not accepted, though
\* its driver may have another that was (accept, retractSiblingOffers, cancelSession).
THEOREM ToldTheTruth == Spec => []Answers
<1>1. MatchingInv => Answers
  BY DEF MatchingInv
<1> QED BY <1>1, Invariance, PTL

\* The search implements its contract.
THEOREM ImplementsContract == Spec => KeepsContract
<1> DEFINE outcome == [o \in Offers |-> offers[o].outcome]
<1>1. Init => Contract!Init
  BY DEF Init, Contract!Init
<1>2. MatchingInv /\ [Next]_vars => [Contract!Next]_(Contract!cvars)
  <2> SUFFICES ASSUME MatchingInv, Steps PROVE [Contract!Next]_(Contract!cvars)
    BY EveryStep DEF MatchingInv
  <2>t. outbox \in Outboxes
    BY DEF MatchingInv, TypeOK
  <2>a. ASSUME NEW o \in Offers, NEW to, Moved({o}, to)
        PROVE  outcome' = [outcome EXCEPT ![o] = to]
    BY <2>a DEF Moved
  <2>b. ASSUME Moved({}, "none") PROVE outcome' = outcome
    BY <2>b DEF Moved
  <2>1. CASE Quiet
    BY <2>1, <2>b DEF Quiet, Contract!cvars
  <2>2. ASSUME NEW o \in Offers, Offered(o) PROVE Contract!MakeOffer(o)
    BY <2>2, <2>a DEF Offered, Contract!MakeOffer
  <2>3. ASSUME NEW o \in Offers, Taken(o) PROVE Contract!Accept(o)
    <3>1. /\ outbox'.matched = {o} /\ outbox'.noOffers = outbox.noOffers
          /\ outbox'.taken = outbox.taken /\ outbox'.withdrawn = outbox.withdrawn
      BY <2>t, <2>3 DEF Taken, MatchingInv, Answers, Outboxes
    <3>2. outcome[o] = "OFFERED" /\ \A q \in Offers : outcome[q] # "ACCEPTED"
      BY <2>3 DEF Taken, Accepted
    <3> QED BY <2>3, <2>a, <3>1, <3>2 DEF Taken, Contract!Accept
  <2>4. ASSUME NEW o \in Offers, NEW to \in {"REJECTED", "TIMEOUT"}, Lapsed(o, to)
        PROVE  Contract!Lapse(o)
    BY <2>4, <2>a DEF Lapsed, Contract!Lapse
  <2>5. ASSUME NEW W \in SUBSET Offers, NEW to \in {"TIMEOUT", "WITHDRAWN"}, Recalled(W, to)
        PROVE  Contract!Withdraw(to)
    <3>1. Told \subseteq Told' /\ Told' \ Told = W
      BY <2>5 DEF Recalled, MatchingInv, Answers, Told, Live
    <3>2. \A o \in W : outcome[o] = "OFFERED"
      BY <2>5 DEF Recalled, Live
    <3>3. outcome' = [o \in Offers |-> IF o \in W THEN to ELSE outcome[o]]
      BY <2>5 DEF Recalled, Moved
    <3> QED BY <2>5, <3>1, <3>2, <3>3 DEF Recalled, Told, Contract!Withdraw
  <2>6. ASSUME NEW w \in Workers, Publishing(w), GivenUp(job[w].round)
        PROVE  Contract!GiveUp(job[w].round) /\ job[w].round \in Openings
    <3>1. job[w].round \in Openings /\ outbox.noOffers[job[w].round] = 0
      BY <2>6 DEF MatchingInv, Endings, TypeOK, Jobs, Openings
    <3>2. /\ outbox'.noOffers = [outbox.noOffers EXCEPT ![job[w].round] = 1]
          /\ outbox'.taken = outbox.taken /\ outbox'.withdrawn = outbox.withdrawn
          /\ outbox'.matched = outbox.matched
      BY <2>6, <2>t, <3>1 DEF GivenUp, Outboxes
    <3> QED BY <2>6, <2>b, <3>1, <3>2 DEF GivenUp, Contract!GiveUp
  <2> QED BY <2>1, <2>2, <2>3, <2>4, <2>5, <2>6 DEF Steps, Contract!Next
<1> QED BY <1>1, <1>2, Invariance, PTL DEF Spec, KeepsContract, Contract!Spec
=============================================================================
