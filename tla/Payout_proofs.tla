--------------------------- MODULE Payout_proofs ---------------------------
(***************************************************************************)
(* Proofs about Payout, for any number of drivers, periods, operators,      *)
(* pollers and events.  The inductive invariant, PayoutInv, adds to the     *)
(* properties what a session holds between two awaits: the payout at hand,  *)
(* a verdict the rail stands by, and a list of the driver it releases.      *)
(***************************************************************************)
EXTENDS Payout, TLAPS

USE PayoutAssumption

Busy == {"write", "rail", "apply", "resolve"}
Judging == {"apply", "resolve"}
Sending == {"run", "release", "retry"}

\* Where a session stands fits what it was asked for.
KindOK(j) ==
  /\ j.at \in {"collect", "missing", "loop", "write"} => j.kind \in {"cron", "run"}
  /\ j.at \in {"list", "screen"} => j.kind = "run"
  /\ j.at \in {"gate", "pay", "rail"} => j.kind \in Sending
  /\ j.at = "ask" => j.kind = "poll"
  /\ j.at \in Judging => j.kind \in Sending \cup {"poll"}

\* And so does what it holds.
JobOK(j) ==
  /\ j.at \in Busy => j.id \in Payouts
  /\ j.at = "write" => j.verdict \in {"PENDING", "HELD"}
  /\ j.at \in Judging => j.verdict \in Verdicts
  /\ j.verdict = "CONFIRMED" => j.at \in Judging
  /\ KindOK(j)
  /\ j.kind = "release" => \A i \in j.todo : i[1] = j.scope

\* A confirmation in somebody's hands was given by the rail, which does not take
\* it back.
VerdictsStand ==
  \A w \in Workers : job[w].verdict = "CONFIRMED" => rail[job[w].id] = "CONFIRMED"

\* A payout that is not there counts no bonus.
NothingCounted == \A i \in Payouts : payout[i].status = "none" => ~payout[i].bonus

PayoutInv ==
  /\ TypeOK
  /\ \A w \in Workers : JobOK(job[w])
  /\ VerdictsStand /\ NothingCounted
  /\ PaidWasConfirmed /\ BonusFollowsItsPayout

-----------------------------------------------------------------------------
(* Jobs.                                                                    *)

LEMMA IdleIsJob == Idle \in Jobs /\ JobOK(Idle)
BY DEF Idle, Jobs, JobOK, Busy, Judging, KindOK, Sending

\* Every step of a session leaves it well-formed.
LEMMA SessionStep ==
  ASSUME TypeOK, NEW w \in Workers, JobOK(job[w]),
         Run(w) \/ Disbursement(w) \/ Verdict(w) \/ Poll(w) \/ Crash(w)
  PROVE  \E j \in Jobs : Go(w, j) /\ JobOK(j)
<1> DEFINE Well == \E j \in Jobs : Go(w, j) /\ JobOK(j)
<1>t. /\ job[w] \in Jobs
      /\ replica \in [payout : [Payouts -> Rows], bonus : [Drivers -> Bonuses]]
      /\ rail \in [Payouts -> {"none", "pending"} \cup Verdicts]
  BY DEF TypeOK
<1>i. Idle \in Jobs /\ JobOK(Idle)
  BY IdleIsJob
<1>d. ASSUME NEW at \in {"loop", "pay", "ask"}, at = "loop" => job[w].kind \in {"cron", "run"},
             at = "pay" => job[w].kind \in Sending, at = "ask" => job[w].kind = "poll"
      PROVE  Done(w, at) \in Jobs /\ JobOK(Done(w, at))
  <2> DEFINE j == Done(w, at)
  <2>1. /\ j \in Jobs /\ j.at = at /\ j.kind = job[w].kind /\ j.scope = job[w].scope
        /\ j.todo \subseteq job[w].todo /\ j.verdict = None
    BY <1>t DEF Done, Jobs
  <2> HIDE DEF j
  <2>2. JobOK(j)
    BY <1>d, <2>1 DEF JobOK, Busy, Judging, KindOK, Sending
  <2> QED BY <2>1, <2>2 DEF j
<1>1. CASE Run(w)
  <2>1. ASSUME NEW kind \in {"cron", "run"}, NEW p \in Periods, StartRun(w, kind, p) PROVE Well
    <3> DEFINE j == [Idle EXCEPT !.at = "collect", !.kind = kind, !.scope = p]
    <3>1. j \in Jobs /\ JobOK(j)
      BY <2>1 DEF Idle, Jobs, JobOK, Busy, Judging, KindOK, Sending
    <3> QED BY <2>1, <3>1 DEF StartRun
  <2>2. CASE CollectEarnings(w)
    <3> DEFINE j == [At(w, "missing") EXCEPT
              !.noted = {d \in Drivers : replica.bonus[d] = [linked |-> None, paid |-> FALSE]}]
    <3>1. j \in Jobs /\ JobOK(j)
      BY <2>2, <1>t DEF CollectEarnings, At, Jobs, JobOK, Busy, Judging, KindOK, Sending
    <3> QED BY <2>2, <3>1 DEF CollectEarnings
  <2>3. CASE FindMissing(w)
    <3> DEFINE j == [At(w, "loop") EXCEPT
              !.todo = {i \in Payouts : i[2] = job[w].scope /\ Seen(i) = "none"}]
    <3>1. j \in Jobs /\ JobOK(j)
      BY <2>3, <1>t DEF FindMissing, At, Jobs, JobOK, Busy, Judging, KindOK, Sending
    <3> QED BY <2>3, <3>1 DEF FindMissing
  <2>4. ASSUME NEW i \in Payouts, ReadFlag(w, i) PROVE Well
    <3> DEFINE j == [At(w, "write") EXCEPT !.id = i,
                              !.verdict = IF i[1] \in flagged THEN "HELD" ELSE "PENDING"]
    <3>1. j \in Jobs /\ JobOK(j)
      BY <2>4, <1>t DEF ReadFlag, At, Jobs, JobOK, Busy, Judging, KindOK, Sending
    <3> QED BY <2>4, <3>1 DEF ReadFlag
  <2>5. CASE CreatePayout(w)
    BY <2>5, <1>d DEF CreatePayout, JobOK, KindOK
  <2>6. CASE FinishRun(w)
    <3> DEFINE j == [At(w, "list") EXCEPT !.noted = {}]
    <3>1. job[w].kind = "run" => j \in Jobs /\ JobOK(j)
      BY <2>6, <1>t DEF FinishRun, At, Jobs, JobOK, Busy, Judging, KindOK, Sending
    <3> QED BY <2>6, <3>1, <1>i DEF FinishRun
  <2> QED BY <1>1, <2>1, <2>2, <2>3, <2>4, <2>5, <2>6 DEF Run
<1>2. CASE Disbursement(w)
  <2>1. CASE ListPending(w)
    <3> DEFINE j == [At(w, "screen") EXCEPT
              !.todo = {i \in Payouts : i[2] = job[w].scope /\ Seen(i) = "PENDING"}]
    <3>1. j \in Jobs /\ JobOK(j)
      BY <2>1, <1>t DEF ListPending, At, Jobs, JobOK, Busy, Judging, KindOK, Sending
    <3> QED BY <2>1, <3>1 DEF ListPending
  <2>2. CASE Screen(w)
    <3> DEFINE j == [At(w, "gate") EXCEPT !.todo = {i \in @ : i[1] \notin flagged}]
    <3>1. j \in Jobs /\ JobOK(j)
      BY <2>2, <1>t DEF Screen, At, Jobs, JobOK, Busy, Judging, KindOK, Sending
    <3> QED BY <2>2, <3>1 DEF Screen
  <2>3. ASSUME NEW d \in Drivers, StartRelease(w, d) PROVE Well
    <3> DEFINE j == [Idle EXCEPT !.at = "gate", !.kind = "release", !.scope = d,
                        !.todo = {i \in Payouts : i[1] = d /\ Seen(i) = "HELD"}]
    <3>1. j \in Jobs /\ JobOK(j)
      BY <2>3 DEF Idle, Jobs, JobOK, Busy, Judging, KindOK, Sending
    <3> QED BY <2>3, <3>1 DEF StartRelease
  <2>4. ASSUME NEW i \in Payouts, StartRetry(w, i) PROVE Well
    <3> DEFINE j == [Idle EXCEPT !.at = "gate", !.kind = "retry", !.todo = {i}]
    <3>1. j \in Jobs /\ JobOK(j)
      BY <2>4 DEF Idle, Jobs, JobOK, Busy, Judging, KindOK, Sending
    <3> QED BY <2>4, <3>1 DEF StartRetry
  <2>5. ASSUME NEW i \in Payouts, Claim(w, i) PROVE Well
    <3> DEFINE won == [At(w, "rail") EXCEPT !.id = i]
               lost == [At(w, "pay") EXCEPT !.todo = @ \ {i}]
    <3>1. won \in Jobs /\ JobOK(won)
      BY <2>5, <1>t DEF Claim, At, Jobs, JobOK, Busy, Judging, KindOK, Sending
    <3>2. lost \in Jobs /\ JobOK(lost)
      BY <2>5, <1>t DEF Claim, At, Jobs, JobOK, Busy, Judging, KindOK, Sending
    <3> QED BY <2>5, <3>1, <3>2 DEF Claim
  <2>6. CASE Disburse(w)
    <3>1. ASSUME NEW verdict \in Verdicts
          PROVE  /\ [At(w, "apply") EXCEPT !.verdict = verdict] \in Jobs
                 /\ JobOK([At(w, "apply") EXCEPT !.verdict = verdict])
      BY <2>6, <1>t DEF Disburse, At, Jobs, JobOK, Busy, Judging, KindOK, Sending
    <3> QED BY <2>6, <3>1, <1>d DEF Disburse, Verdicts, JobOK, KindOK
  <2>7. CASE Refuse(w) \/ FinishDisburse(w)
    BY <2>7, <1>i DEF Refuse, FinishDisburse
  <2> QED BY <1>2, <2>1, <2>2, <2>3, <2>4, <2>5, <2>6, <2>7 DEF Disbursement
<1>3. CASE Verdict(w)
  <2> DEFINE j == At(w, "resolve")
  <2>1. CASE Apply(w)
    <3>1. j \in Jobs /\ JobOK(j)
      BY <2>1, <1>t DEF Apply, At, Jobs, JobOK, Busy, Judging, KindOK, Sending
    <3> QED BY <2>1, <3>1, <1>d DEF Apply, Back, JobOK, KindOK, Judging
  <2>2. CASE Resolve(w)
    BY <2>2, <1>d DEF Resolve, Back, JobOK, KindOK, Judging
  <2> QED BY <1>3, <2>1, <2>2 DEF Verdict
<1>4. CASE Poll(w)
  <2>1. CASE StartPoll(w)
    <3> DEFINE listed == {i \in Payouts : Seen(i) = "PROCESSING"}
               j == [Idle EXCEPT !.at = "ask", !.kind = "poll", !.todo = listed,
                           !.noted = {i \in listed : replica.payout[i].old}]
    <3>1. j \in Jobs /\ JobOK(j)
      BY <2>1 DEF Idle, Jobs, JobOK, Busy, Judging, KindOK, Sending
    <3> QED BY <2>1, <3>1 DEF StartPoll
  <2>2. ASSUME NEW i \in Payouts, AskTheRail(w, i) PROVE Well
    <3>1. ASSUME NEW verdict \in Verdicts
          PROVE  /\ [At(w, "apply") EXCEPT !.id = i, !.verdict = verdict] \in Jobs
                 /\ JobOK([At(w, "apply") EXCEPT !.id = i, !.verdict = verdict])
      BY <2>2, <1>t DEF AskTheRail, At, Jobs, JobOK, Busy, Judging, KindOK, Sending
    <3>2. /\ [job[w] EXCEPT !.todo = @ \ {i}] \in Jobs
          /\ JobOK([job[w] EXCEPT !.todo = @ \ {i}])
      BY <2>2, <1>t DEF AskTheRail, Jobs, JobOK, Busy, Judging, KindOK, Sending
    <3> QED BY <2>2, <3>1, <3>2 DEF AskTheRail, Verdicts
  <2>3. CASE FinishPoll(w)
    BY <2>3, <1>i DEF FinishPoll
  <2> QED BY <1>3, <1>4, <2>1, <2>2, <2>3 DEF Poll
<1>5. CASE Crash(w)
  BY <1>5, <1>i DEF Crash
<1> QED BY <1>1, <1>2, <1>3, <1>4, <1>5

\* The jobs stay well-formed, whoever moves.
LEMMA JobsStep ==
  ASSUME TypeOK, \A w \in Workers : JobOK(job[w]), [Next]_vars
  PROVE  job' \in [Workers -> Jobs] /\ \A w \in Workers : JobOK(job'[w])
<1>t. job \in [Workers -> Jobs]
  BY DEF TypeOK
<1>1. ASSUME NEW w \in Workers,
             Run(w) \/ Disbursement(w) \/ Verdict(w) \/ Poll(w) \/ Crash(w)
      PROVE  job' \in [Workers -> Jobs] /\ \A v \in Workers : JobOK(job'[v])
  <2>1. PICK j \in Jobs : Go(w, j) /\ JobOK(j)
    BY <1>1, SessionStep
  <2> QED BY <1>t, <2>1 DEF Go
<1>2. CASE UNCHANGED job
  BY <1>t, <1>2
<1>3. CASE World
  <2>1. CASE \E w \in Workers : Crash(w)
    BY <1>1, <2>1
  <2>2. CASE ~\E w \in Workers : Crash(w)
    BY <1>2, <1>3, <2>2 DEF World, LockExpires, Replicate, HoldDriver, HoldPending, Settle, GrowOld
  <2> QED BY <2>1, <2>2
<1>4. CASE UNCHANGED vars
  BY <1>2, <1>4 DEF vars
<1> QED BY <1>1, <1>3, <1>4 DEF Next, Workers

-----------------------------------------------------------------------------
(* Rows, bonuses and events.                                                *)

Others(i) == \A k \in Payouts \ {i} : payout'[k] = payout[k]

\* A run creates a payout, and links to it a bonus that its amount counts.
Created(i) ==
  /\ payout[i].status = "none" /\ payout'[i].status \in {"PENDING", "HELD"}
  /\ Others(i) /\ told' = told
  /\ \/ bonus' = bonus
     \/ /\ bonus[i[1]] = [linked |-> None, paid |-> FALSE] /\ payout'[i].bonus
        /\ bonus' = [bonus EXCEPT ![i[1]].linked = i]

\* Rows stay as they are, but for those a review retains (and for their age).
Retained ==
  /\ \A k \in Payouts :
       /\ payout'[k].bonus = payout[k].bonus
       /\ \/ payout'[k].status = payout[k].status
          \/ payout[k].status = "PENDING" /\ payout'[k].status = "HELD"
  /\ bonus' = bonus /\ told' = told

\* A session claims the payout of its list, in the status it read it by.
Sent(w, i) ==
  /\ job[w].at \in {"gate", "pay"} /\ i \in job[w].todo
  /\ payout[i].status = From(job[w].kind) /\ payout[i].status # "none"
  /\ payout'[i].status = "PROCESSING" /\ payout'[i].bonus = payout[i].bonus
  /\ Others(i) /\ bonus' = bonus
  /\ told' = [told EXCEPT ![i] = Append(@, "processing")]
  /\ job'[w].at = "rail" /\ job'[w].id = i

\* A verdict ends the send, and pays the bonus with the payout.
Ended(i, to) ==
  /\ payout[i].status = "PROCESSING" /\ payout'[i].status = to
  /\ payout'[i].bonus = payout[i].bonus /\ Others(i)
  /\ \/ /\ to = "PROCESSED" /\ rail[i] = "CONFIRMED"
        /\ bonus' = PayBonus(i)
        /\ told' = [told EXCEPT ![i] = Append(@, "processed")]
     \/ /\ to = "FAILED" /\ bonus' = bonus
        /\ told' = [told EXCEPT ![i] = Append(@, "failed")]

RowsMove ==
  \/ Retained
  \/ \E i \in Payouts : Created(i) \/ Ended(i, "PROCESSED") \/ Ended(i, "FAILED")
  \/ \E w \in Operators, i \in Payouts : Sent(w, i)

\* Every step moves rows, bonuses and events together in one of these ways (the
\* compare-and-sets of payouts.repository.ts).
LEMMA RowStep ==
  ASSUME PayoutInv, [Next]_vars
  PROVE  RowsMove /\ payout' \in [Payouts -> Rows] /\ bonus' \in [Drivers -> Bonuses]
<1> DEFINE Goal == RowsMove /\ payout' \in [Payouts -> Rows] /\ bonus' \in [Drivers -> Bonuses]
<1>t. /\ payout \in [Payouts -> Rows] /\ bonus \in [Drivers -> Bonuses]
      /\ told \in [Payouts -> Seq({"processing", "processed", "failed"})]
      /\ job \in [Workers -> Jobs] /\ \A w \in Workers : JobOK(job[w])
      /\ VerdictsStand
  BY DEF PayoutInv, TypeOK
<1>u. CASE UNCHANGED <<payout, bonus, told>>
  BY <1>t, <1>u DEF RowsMove, Retained
<1>h. ASSUME NEW S, Hold(S), UNCHANGED <<bonus, told>> PROVE Goal
  <2>1. payout' \in [Payouts -> Rows]
    BY <1>h, <1>t DEF Hold, Rows, Status
  <2>2. Retained
    BY <1>h, <1>t DEF Hold, Retained, Rows
  <2> QED BY <1>h, <1>t, <2>1, <2>2 DEF RowsMove
<1>r. ASSUME NEW w \in Workers, Resolve(w) PROVE Goal
  <2> DEFINE i == job[w].id
             to == Target(job[w].verdict)
  <2>1. i \in Payouts /\ job[w].verdict \in Verdicts /\ job[w].at = "resolve"
    BY <1>r, <1>t DEF Resolve, JobOK, Busy, Judging
  <2>2. to \in {"PROCESSED", "FAILED"} /\ (to = "PROCESSED" => rail[i] = "CONFIRMED")
    BY <2>1, <1>t DEF Target, Verdicts, VerdictsStand
  <2>3. CASE payout[i].status # "PROCESSING"
    BY <1>r, <1>u, <2>3 DEF Resolve
  <2>4. CASE payout[i].status = "PROCESSING"
    <3>1. /\ payout' = [payout EXCEPT ![i].status = to, ![i].old = FALSE]
          /\ bonus' = IF to = "PROCESSED" THEN PayBonus(i) ELSE bonus
          /\ told' = [told EXCEPT ![i] =
                        Append(@, IF to = "PROCESSED" THEN "processed" ELSE "failed")]
      BY <1>r, <2>4 DEF Resolve
    <3> HIDE DEF i, to
    <3>2. payout' \in [Payouts -> Rows]
      BY <3>1, <2>1, <2>2, <1>t DEF Rows, Status
    <3>3. bonus' \in [Drivers -> Bonuses]
      BY <3>1, <2>1, <1>t DEF PayBonus, Bonuses
    <3>4. payout'[i].status = to /\ payout'[i].bonus = payout[i].bonus /\ Others(i)
      BY <3>1, <2>1, <1>t DEF Others, Rows
    <3>5. Ended(i, to)
      BY <3>1, <3>4, <2>2, <2>4 DEF Ended
    <3> QED BY <3>2, <3>3, <3>5, <2>1, <2>2 DEF RowsMove
  <2> QED BY <2>3, <2>4
<1>1. ASSUME NEW w \in Operators, Run(w) PROVE Goal
  <2>w. w \in Workers
    BY DEF Workers
  <2>1. CASE CreatePayout(w)
    <3> DEFINE i == job[w].id
    <3>1. i \in Payouts /\ job[w].verdict \in {"PENDING", "HELD"}
      BY <2>1, <2>w, <1>t DEF CreatePayout, JobOK, Busy
    <3>2. CASE payout[i].status # "none"
      BY <2>1, <3>2, <1>u DEF CreatePayout
    <3>3. CASE payout[i].status = "none"
      <4>1. /\ payout' = [payout EXCEPT ![i] =
                 [status |-> job[w].verdict, bonus |-> i[1] \in job[w].noted, old |-> FALSE]]
            /\ bonus' = LinkBonus(w, i) /\ told' = told
        BY <2>1, <3>3 DEF CreatePayout
      <4>2. i[1] \in Drivers
        BY <3>1 DEF Payouts
      <4>b. (i[1] \in job[w].noted) \in BOOLEAN
        OBVIOUS
      <4> HIDE DEF i
      <4>3. payout' \in [Payouts -> Rows]
        BY <4>1, <4>b, <3>1, <1>t DEF Rows, Status
      <4>4. bonus' \in [Drivers -> Bonuses]
        BY <4>1, <4>2, <3>1, <1>t DEF LinkBonus, Bonuses
      <4>5. payout'[i].status \in {"PENDING", "HELD"} /\ Others(i)
        BY <4>1, <3>1, <1>t DEF Others
      <4>6. Created(i)
        <5>1. CASE bonus' = bonus
          BY <5>1, <4>1, <4>5, <3>3 DEF Created
        <5>2. CASE bonus' # bonus
          <6>1. /\ i[1] \in job[w].noted /\ bonus[i[1]] = [linked |-> None, paid |-> FALSE]
                /\ bonus' = [bonus EXCEPT ![i[1]].linked = i]
            BY <5>2, <4>1 DEF LinkBonus
          <6>2. payout'[i].bonus
            BY <6>1, <4>1, <3>1, <1>t
          <6> QED BY <6>1, <6>2, <4>1, <4>5, <3>3 DEF Created
        <5> QED BY <5>1, <5>2
      <4> QED BY <4>3, <4>4, <4>6, <3>1 DEF RowsMove
    <3> QED BY <3>2, <3>3
  <2>2. CASE ~CreatePayout(w)
    BY <1>1, <1>u, <2>2 DEF Run, StartRun, CollectEarnings, FindMissing, ReadFlag, FinishRun
  <2> QED BY <2>1, <2>2
<1>2. ASSUME NEW w \in Operators, Disbursement(w) PROVE Goal
  <2>w. w \in Workers /\ job[w] \in Jobs
    BY <1>t DEF Workers
  <2>1. CASE Screen(w)
    BY <2>1, <1>h DEF Screen
  <2>2. ASSUME NEW i \in Payouts, Claim(w, i), payout[i].status = From(job[w].kind),
               payout[i].status # "none" PROVE Goal
    <3>1. /\ payout' = [payout EXCEPT ![i].status = "PROCESSING", ![i].old = FALSE]
          /\ told' = [told EXCEPT ![i] = Append(@, "processing")] /\ bonus' = bonus
          /\ Go(w, [At(w, "rail") EXCEPT !.id = i])
          /\ job[w].at \in {"gate", "pay"} /\ i \in job[w].todo
      BY <2>2 DEF Claim
    <3>2. payout' \in [Payouts -> Rows]
      BY <3>1, <1>t DEF Rows, Status
    <3>3. payout'[i].status = "PROCESSING" /\ payout'[i].bonus = payout[i].bonus /\ Others(i)
      BY <3>1, <1>t DEF Rows, Others
    <3>4. job'[w].at = "rail" /\ job'[w].id = i
      BY <3>1, <2>w, <1>t DEF Go, At, Jobs
    <3>5. Sent(w, i)
      BY <3>1, <3>3, <3>4, <2>2 DEF Sent
    <3> QED BY <3>1, <3>2, <3>5, <1>t DEF RowsMove
  <2>3. ASSUME NEW i \in Payouts, Claim(w, i), payout[i].status # From(job[w].kind) PROVE Goal
    BY <2>3, <1>u DEF Claim
  <2>4. ASSUME NEW i \in Payouts, Claim(w, i) PROVE From(job[w].kind) # "none"
    BY <2>4, <2>w, <1>t DEF Claim, JobOK, KindOK, Sending, From
  <2>5. CASE \E i \in Payouts : Claim(w, i)
    BY <2>5, <2>2, <2>3, <2>4
  <2>6. CASE ~Screen(w) /\ ~\E i \in Payouts : Claim(w, i)
    BY <1>2, <1>u, <2>6 DEF Disbursement, ListPending, Refuse, Disburse, FinishDisburse,
                            StartRelease, StartRetry
  <2> QED BY <2>1, <2>5, <2>6
<1>3. ASSUME NEW w \in Workers, Verdict(w) PROVE Goal
  BY <1>3, <1>r, <1>u DEF Verdict, Apply
<1>4. ASSUME NEW w \in Pollers, Poll(w) PROVE Goal
  <2>1. w \in Workers
    BY DEF Workers
  <2>2. CASE Verdict(w)
    BY <1>3, <2>1, <2>2
  <2>3. CASE ~Verdict(w)
    BY <1>4, <1>u, <2>3 DEF Poll, StartPoll, FinishPoll, AskTheRail
  <2> QED BY <2>2, <2>3
<1>5. CASE World
  <2>1. ASSUME NEW i \in Payouts, GrowOld(i) PROVE Goal
    <3>1. payout' \in [Payouts -> Rows]
      BY <2>1, <1>t DEF GrowOld, Rows
    <3>2. Retained
      BY <2>1, <1>t DEF GrowOld, Retained, Rows
    <3> QED BY <2>1, <3>1, <3>2, <1>t DEF GrowOld, RowsMove
  <2>2. ASSUME NEW d \in Drivers, HoldPending(d) PROVE Goal
    BY <2>2, <1>h DEF HoldPending
  <2>3. CASE /\ ~\E i \in Payouts : GrowOld(i)
             /\ ~\E d \in Drivers : HoldPending(d)
    BY <1>5, <1>u, <2>3 DEF World, LockExpires, Replicate, HoldDriver, Settle, Crash
  <2> QED BY <2>1, <2>2, <2>3
<1>6. CASE UNCHANGED vars
  BY <1>6, <1>u DEF vars
<1> QED BY <1>1, <1>2, <1>3, <1>4, <1>5, <1>6 DEF Next, Workers

-----------------------------------------------------------------------------
(* The rail and the rest.                                                   *)

\* The rail does not take back a confirmation.
LEMMA RailStep ==
  ASSUME PayoutInv, [Next]_vars
  PROVE  /\ rail' \in [Payouts -> {"none", "pending"} \cup Verdicts]
         /\ \A i \in Payouts : rail[i] = "CONFIRMED" => rail'[i] = "CONFIRMED"
<1> DEFINE Goal == /\ rail' \in [Payouts -> {"none", "pending"} \cup Verdicts]
                   /\ \A i \in Payouts : rail[i] = "CONFIRMED" => rail'[i] = "CONFIRMED"
<1>t. /\ rail \in [Payouts -> {"none", "pending"} \cup Verdicts]
      /\ \A w \in Workers : JobOK(job[w])
  BY DEF PayoutInv, TypeOK
<1>u. CASE UNCHANGED rail
  BY <1>t, <1>u
<1>1. ASSUME NEW w \in Operators, Disburse(w) PROVE Goal
  <2>1. job[w].id \in Payouts
    BY <1>1, <1>t DEF Disburse, JobOK, Busy, Workers
  <2> QED BY <1>1, <1>t, <2>1 DEF Disburse, Verdicts
<1>2. ASSUME NEW w \in Workers, Crash(w) PROVE Goal
  <2>1. job[w].at = "rail" => job[w].id \in Payouts
    BY <1>t DEF JobOK, Busy
  <2> QED BY <1>2, <1>t, <2>1 DEF Crash, Verdicts
<1>3. ASSUME NEW i \in Payouts, Settle(i) PROVE Goal
  BY <1>3, <1>t DEF Settle, Verdicts
<1>4. ASSUME NEW w \in Operators, Run(w) \/ Disbursement(w) \/ Verdict(w), ~Disburse(w) PROVE Goal
  BY <1>4, <1>u DEF Run, StartRun, CollectEarnings, FindMissing, ReadFlag, CreatePayout, FinishRun,
     Disbursement, ListPending, Screen, Refuse, FinishDisburse, StartRelease, StartRetry, Claim,
     Verdict, Apply, Resolve
<1>5. ASSUME NEW w \in Pollers, Poll(w) PROVE Goal
  BY <1>5, <1>u DEF Poll, StartPoll, FinishPoll, AskTheRail, Verdict, Apply, Resolve
<1>6. CASE World
  BY <1>6, <1>2, <1>3, <1>u DEF World, LockExpires, Replicate, HoldDriver, HoldPending, GrowOld
<1>7. CASE UNCHANGED vars
  BY <1>7, <1>u DEF vars
<1> QED BY <1>1, <1>4, <1>5, <1>6, <1>7 DEF Next

\* Everything else keeps its type.
LEMMA RestStep ==
  ASSUME PayoutInv, [Next]_vars
  PROVE  /\ replica' \in [payout : [Payouts -> Rows], bonus : [Drivers -> Bonuses]]
         /\ flagged' \subseteq Drivers /\ holding' \subseteq Drivers
         /\ locked' \in BOOLEAN
         /\ events' \in 0..MaxEvents
<1>t. TypeOK
  BY DEF PayoutInv
<1>1. replica' \in [payout : [Payouts -> Rows], bonus : [Drivers -> Bonuses]]
  <2>1. CASE UNCHANGED replica
    BY <1>t, <2>1 DEF TypeOK
  <2>2. CASE Replicate
    BY <1>t, <2>2 DEF TypeOK, Replicate
  <2> QED BY <2>1, <2>2 DEF Next, vars, Run, StartRun, CollectEarnings, FindMissing, ReadFlag,
     CreatePayout, FinishRun, Disbursement, ListPending, Screen, Refuse, Disburse, FinishDisburse,
     StartRelease, StartRetry, Claim, Verdict, Apply, Resolve, Poll, StartPoll, FinishPoll,
     AskTheRail, World, LockExpires, HoldDriver, HoldPending, Settle, GrowOld, Crash
<1>2. flagged' \subseteq Drivers /\ holding' \subseteq Drivers
  BY <1>t DEF TypeOK, Next, vars, Run, StartRun, CollectEarnings, FindMissing, ReadFlag,
     CreatePayout, FinishRun, Disbursement, ListPending, Screen, Refuse, Disburse, FinishDisburse,
     StartRelease, StartRetry, Claim, Verdict, Apply, Resolve, Poll, StartPoll, FinishPoll,
     AskTheRail, World, LockExpires, HoldDriver, HoldPending, Settle, GrowOld, Crash, Replicate
<1>3. locked' \in BOOLEAN
  <2>1. locked' = locked \/ locked' = TRUE \/ locked' = FALSE
    BY DEF Next, vars, Run, StartRun, CollectEarnings, FindMissing, ReadFlag,
     CreatePayout, FinishRun, Disbursement, ListPending, Screen, Refuse, Disburse, FinishDisburse,
     StartRelease, StartRetry, Claim, Verdict, Apply, Resolve, Poll, StartPoll, FinishPoll,
     AskTheRail, World, LockExpires, HoldDriver, HoldPending, Settle, GrowOld, Crash, Replicate
  <2> QED BY <1>t, <2>1 DEF TypeOK
<1>4. events' \in 0..MaxEvents
  <2>1. events' = events \/ Counted(1) \/ Counted(2)
    BY DEF Next, vars, Run, StartRun, CollectEarnings, FindMissing, ReadFlag,
     CreatePayout, FinishRun, Disbursement, ListPending, Screen, Refuse, Disburse, FinishDisburse,
     StartRelease, StartRetry, Claim, Verdict, Apply, Resolve, Poll, StartPoll, FinishPoll,
     AskTheRail, World, LockExpires, HoldDriver, HoldPending, Settle, GrowOld, Crash, Replicate,
     Event
  <2>2. MaxEvents \in Nat /\ events \in 0..MaxEvents
    BY <1>t DEF TypeOK
  <2>3. ASSUME NEW n \in {1, 2}, Counted(n) PROVE events' \in 0..MaxEvents
    BY <2>2, <2>3 DEF Counted
  <2> QED BY <2>1, <2>2, <2>3
<1> QED BY <1>1, <1>2, <1>3, <1>4

LEMMA ToldStep ==
  ASSUME PayoutInv, [Next]_vars
  PROVE  told' \in [Payouts -> Seq({"processing", "processed", "failed"})]
<1> DEFINE Events == {"processing", "processed", "failed"}
<1>t. told \in [Payouts -> Seq(Events)]
  BY DEF PayoutInv, TypeOK
<1>a. ASSUME NEW i \in Payouts, NEW e \in Events, told' = [told EXCEPT ![i] = Append(@, e)]
      PROVE  told' \in [Payouts -> Seq(Events)]
  <2>1. Append(told[i], e) \in Seq(Events)
    BY <1>t
  <2> HIDE DEF Events
  <2> QED BY <1>a, <1>t, <2>1
<1>1. CASE told' = told
  BY <1>t, <1>1
<1>2. ASSUME NEW i \in Payouts, Ended(i, "PROCESSED") \/ Ended(i, "FAILED")
      PROVE  told' \in [Payouts -> Seq(Events)]
  BY <1>2, <1>a DEF Ended
<1>3. ASSUME NEW i \in Payouts, NEW w \in Operators, Sent(w, i)
      PROVE  told' \in [Payouts -> Seq(Events)]
  BY <1>3, <1>a DEF Sent
<1> QED BY RowStep, <1>1, <1>2, <1>3 DEF RowsMove, Retained, Created

-----------------------------------------------------------------------------
(* The invariant.                                                           *)

LEMMA TypeStep == ASSUME PayoutInv, [Next]_vars PROVE TypeOK'
<1>1. TypeOK /\ \A w \in Workers : JobOK(job[w])
  BY DEF PayoutInv
<1>2. job' \in [Workers -> Jobs]
  BY <1>1, JobsStep
<1> QED BY <1>2, RowStep, RailStep, RestStep, ToldStep DEF TypeOK

\* A confirmation comes from a rail that gave it, in the same step or before.
LEMMA SessionVerdict ==
  ASSUME PayoutInv, NEW v \in Workers,
         Run(v) \/ Disbursement(v) \/ Verdict(v) \/ Poll(v) \/ Crash(v),
         job'[v].verdict = "CONFIRMED"
  PROVE  \/ rail'[job'[v].id] = "CONFIRMED"
         \/ job[v].verdict = "CONFIRMED" /\ job'[v].id = job[v].id
<1> DEFINE Goal == \/ rail'[job'[v].id] = "CONFIRMED"
                   \/ job[v].verdict = "CONFIRMED" /\ job'[v].id = job[v].id
<1>t. /\ job \in [Workers -> Jobs] /\ job[v] \in Jobs
      /\ rail \in [Payouts -> {"none", "pending"} \cup Verdicts]
      /\ JobOK(job[v]) /\ VerdictsStand
  BY DEF PayoutInv, TypeOK
<1>d. ASSUME NEW at PROVE ~Go(v, Done(v, at))
  <2>1. Done(v, at).verdict = None
    BY <1>t DEF Done, Jobs
  <2> QED BY <2>1, <1>t DEF Go
<1>i. ~Go(v, Idle)
  BY <1>t DEF Go, Idle
<1>c. job[v].verdict = "CONFIRMED" => job[v].at \in Judging
  BY <1>t DEF JobOK
<1>1. CASE Run(v)
  <2>1. ASSUME NEW kind \in {"cron", "run"}, NEW p \in Periods PROVE ~StartRun(v, kind, p)
    BY <1>t DEF StartRun, Go, Idle
  <2>2. ~CollectEarnings(v)
    <3>1. CollectEarnings(v) => job'[v].verdict = job[v].verdict
      BY <1>t DEF CollectEarnings, Go, At, Jobs
    <3> QED BY <3>1, <1>c DEF CollectEarnings, Judging
  <2>3. ~FindMissing(v)
    <3>1. FindMissing(v) => job'[v].verdict = job[v].verdict
      BY <1>t DEF FindMissing, Go, At, Jobs
    <3> QED BY <3>1, <1>c DEF FindMissing, Judging
  <2>4. ASSUME NEW i \in Payouts PROVE ~ReadFlag(v, i)
    <3>1. ReadFlag(v, i) => job'[v].verdict \in {"HELD", "PENDING"}
      BY <1>t DEF ReadFlag, Go, At, Jobs
    <3> QED BY <3>1
  <2>5. ~CreatePayout(v)
    BY <1>d DEF CreatePayout
  <2>6. ~FinishRun(v)
    <3>1. Go(v, [At(v, "list") EXCEPT !.noted = {}]) => job'[v].verdict = job[v].verdict
      BY <1>t DEF Go, At, Jobs
    <3> QED BY <3>1, <1>c, <1>i DEF FinishRun, Judging
  <2> QED BY <1>1, <2>1, <2>2, <2>3, <2>4, <2>5, <2>6 DEF Run
<1>2. CASE Disburse(v)
  <2>1. CASE /\ rail' = [rail EXCEPT ![job[v].id] = "CONFIRMED"]
             /\ Go(v, [At(v, "apply") EXCEPT !.verdict = "CONFIRMED"])
    <3>1. job[v].id \in Payouts
      BY <1>2, <1>t DEF Disburse, JobOK, Busy
    <3>2. job'[v].id = job[v].id
      BY <2>1, <1>t DEF Go, At, Jobs
    <3> QED BY <2>1, <3>1, <3>2, <1>t
  <2>2. CASE Go(v, [At(v, "apply") EXCEPT !.verdict = "REJECTED"])
    BY <2>2, <1>t DEF Go, At, Jobs
  <2> QED BY <1>2, <2>1, <2>2, <1>d DEF Disburse
<1>3. CASE Disbursement(v) /\ ~Disburse(v)
  <2>1. ~ListPending(v)
    <3>1. ListPending(v) => job'[v].verdict = job[v].verdict
      BY <1>t DEF ListPending, Go, At, Jobs
    <3> QED BY <3>1, <1>c DEF ListPending, Judging
  <2>2. ~Screen(v)
    <3>1. Screen(v) => job'[v].verdict = job[v].verdict
      BY <1>t DEF Screen, Go, At, Jobs
    <3> QED BY <3>1, <1>c DEF Screen, Judging
  <2>3. ~Refuse(v) /\ ~FinishDisburse(v)
    BY <1>i DEF Refuse, FinishDisburse
  <2>4. ASSUME NEW d \in Drivers PROVE ~StartRelease(v, d)
    BY <1>t DEF StartRelease, Go, Idle
  <2>5. ASSUME NEW i \in Payouts PROVE ~StartRetry(v, i)
    BY <1>t DEF StartRetry, Go, Idle
  <2>6. ASSUME NEW i \in Payouts PROVE ~Claim(v, i)
    <3>1. CASE Go(v, [At(v, "rail") EXCEPT !.id = i])
      <4>1. job'[v].verdict = job[v].verdict
        BY <3>1, <1>t DEF Go, At, Jobs
      <4> QED BY <4>1, <1>c DEF Claim, Judging
    <3>2. CASE Go(v, [At(v, "pay") EXCEPT !.todo = @ \ {i}])
      <4>1. job'[v].verdict = job[v].verdict
        BY <3>2, <1>t DEF Go, At, Jobs
      <4> QED BY <4>1, <1>c DEF Claim, Judging
    <3> QED BY <3>1, <3>2 DEF Claim
  <2> QED BY <1>3, <2>1, <2>2, <2>3, <2>4, <2>5, <2>6 DEF Disbursement
<1>4. CASE Verdict(v)
  <2>1. CASE Go(v, At(v, "resolve"))
    BY <2>1, <1>t DEF Go, At, Jobs
  <2> QED BY <1>4, <2>1, <1>d DEF Verdict, Apply, Resolve
<1>5. ASSUME NEW i \in Payouts, AskTheRail(v, i) PROVE Goal
  <2>1. ASSUME NEW verdict, Go(v, [At(v, "apply") EXCEPT !.id = i, !.verdict = verdict])
        PROVE  verdict = "CONFIRMED" /\ job'[v].id = i
    BY <2>1, <1>t DEF Go, At, Jobs
  <2>2. CASE Go(v, [job[v] EXCEPT !.todo = @ \ {i}])
    BY <1>5, <2>2, <1>c, <1>t DEF Go, AskTheRail, Jobs, Judging
  <2>3. CASE Go(v, [At(v, "apply") EXCEPT !.id = i, !.verdict = rail[i]])
    BY <1>5, <2>3, <2>1 DEF AskTheRail
  <2>4. ASSUME Go(v, [At(v, "apply") EXCEPT !.id = i, !.verdict = "REJECTED"]) PROVE FALSE
    <3>1. job'[v].verdict = "REJECTED"
      BY <2>4, <1>t DEF Go, At, Jobs
    <3> QED BY <3>1
  <2> HIDE DEF Goal
  <2> QED BY <1>5, <2>2, <2>3, <2>4 DEF AskTheRail
<1>6. CASE Poll(v) /\ ~Verdict(v) /\ ~\E i \in Payouts : AskTheRail(v, i)
  <2>1. ~StartPoll(v)
    <3>1. StartPoll(v) => job'[v].verdict = Idle.verdict
      BY <1>t DEF StartPoll, Go, Idle
    <3> QED BY <3>1 DEF Idle
  <2>2. ~FinishPoll(v)
    BY <1>i DEF FinishPoll
  <2> QED BY <1>6, <2>1, <2>2 DEF Poll
<1>7. CASE Crash(v)
  BY <1>7, <1>i DEF Crash
<1> QED BY <1>1, <1>2, <1>3, <1>4, <1>5, <1>6, <1>7

LEMMA VerdictsStep == ASSUME PayoutInv, [Next]_vars PROVE VerdictsStand'
<1> SUFFICES ASSUME NEW v \in Workers, job'[v].verdict = "CONFIRMED"
             PROVE  rail'[job'[v].id] = "CONFIRMED"
  BY DEF VerdictsStand
<1>t. /\ job \in [Workers -> Jobs] /\ VerdictsStand /\ JobOK(job[v])
  BY DEF PayoutInv, TypeOK
<1>1. ASSUME job[v].verdict = "CONFIRMED", job'[v].id = job[v].id
      PROVE  rail'[job'[v].id] = "CONFIRMED"
  <2>1. job[v].id \in Payouts
    BY <1>1, <1>t DEF JobOK, Busy, Judging
  <2> QED BY <1>1, <1>t, <2>1, RailStep DEF VerdictsStand
<1>2. CASE Run(v) \/ Disbursement(v) \/ Verdict(v) \/ Poll(v) \/ Crash(v)
  BY <1>1, <1>2, SessionVerdict
<1>o. ASSUME NEW w \in Workers, w # v, NEW j, Go(w, j) PROVE job'[v] = job[v]
  BY <1>o, <1>t DEF Go
<1>3. ASSUME NEW w \in Workers, w # v,
             Run(w) \/ Disbursement(w) \/ Verdict(w) \/ Poll(w) \/ Crash(w)
      PROVE  job'[v] = job[v]
  <2>1. TypeOK /\ JobOK(job[w])
    BY DEF PayoutInv
  <2>2. PICK j \in Jobs : Go(w, j)
    BY <1>3, <2>1, SessionStep
  <2> QED BY <1>3, <2>2, <1>o
<1>4. CASE UNCHANGED job
  BY <1>1, <1>4
<1>5. CASE World
  <2>1. CASE \E w \in Workers : Crash(w)
    BY <1>1, <1>2, <1>3, <2>1
  <2>2. CASE ~\E w \in Workers : Crash(w)
    BY <1>4, <1>5, <2>2 DEF World, LockExpires, Replicate, HoldDriver, HoldPending, Settle, GrowOld
  <2> QED BY <2>1, <2>2
<1>6. CASE UNCHANGED vars
  BY <1>4, <1>6 DEF vars
<1> QED BY <1>1, <1>2, <1>3, <1>5, <1>6 DEF Next, Workers

LEMMA CountedStep == ASSUME PayoutInv, [Next]_vars PROVE NothingCounted'
<1>1. NothingCounted /\ RowsMove
  BY RowStep DEF PayoutInv
<1> SUFFICES ASSUME NEW k \in Payouts, payout'[k].status = "none" PROVE ~payout'[k].bonus
  BY DEF NothingCounted
<1> QED BY <1>1 DEF NothingCounted, RowsMove, Retained, Created, Ended, Sent, Others

LEMMA PaidStep == ASSUME PayoutInv, [Next]_vars PROVE PaidWasConfirmed'
<1>1. PaidWasConfirmed /\ RowsMove
  BY RowStep DEF PayoutInv
<1> SUFFICES ASSUME NEW k \in Payouts, payout'[k].status = "PROCESSED"
             PROVE  rail'[k] = "CONFIRMED"
  BY DEF PaidWasConfirmed
<1>2. rail[k] = "CONFIRMED"
  BY <1>1 DEF PaidWasConfirmed, RowsMove, Retained, Created, Ended, Sent, Others
<1> QED BY <1>2, RailStep

\* A bonus keeps to its payout: a link comes with the count, a payment with the
\* payout, and neither is undone.
LEMMA BonusStep == ASSUME PayoutInv, [Next]_vars PROVE BonusFollowsItsPayout'
<1>t. /\ bonus \in [Drivers -> Bonuses] /\ payout \in [Payouts -> Rows]
      /\ BonusFollowsItsPayout /\ RowsMove /\ None \notin Payouts
  BY RowStep DEF PayoutInv, TypeOK, Payouts
<1> SUFFICES ASSUME NEW d \in Drivers
             PROVE /\ bonus'[d].linked # None =>
                        /\ bonus'[d].linked[1] = d
                        /\ payout'[bonus'[d].linked].bonus
                        /\ bonus'[d].paid <=> payout'[bonus'[d].linked].status = "PROCESSED"
                   /\ bonus'[d].linked = None => ~bonus'[d].paid
  BY DEF BonusFollowsItsPayout
<1>b. /\ bonus[d] \in Bonuses
      /\ bonus[d].linked # None =>
           /\ bonus[d].linked \in Payouts /\ bonus[d].linked[1] = d
           /\ payout[bonus[d].linked].bonus
           /\ bonus[d].paid <=> payout[bonus[d].linked].status = "PROCESSED"
      /\ bonus[d].linked = None => ~bonus[d].paid
  BY <1>t DEF BonusFollowsItsPayout, Bonuses
<1>n. bonus[d].linked # None => payout[bonus[d].linked].status # "none"
  BY <1>b DEF PayoutInv, NothingCounted
<1>1. CASE Retained
  BY <1>1, <1>b DEF Retained
<1> DEFINE Goal == /\ bonus'[d].linked # None =>
                        /\ bonus'[d].linked[1] = d
                        /\ payout'[bonus'[d].linked].bonus
                        /\ bonus'[d].paid <=> payout'[bonus'[d].linked].status = "PROCESSED"
                   /\ bonus'[d].linked = None => ~bonus'[d].paid
<1>s. ASSUME NEW i \in Payouts, Others(i), bonus'[d] = bonus[d],
             payout'[i].bonus = payout[i].bonus \/ payout[i].status = "none",
             payout[i].status # "PROCESSED", payout'[i].status # "PROCESSED"
      PROVE  Goal
  <2>1. CASE bonus[d].linked = None
    BY <1>s, <1>b, <2>1
  <2>2. CASE bonus[d].linked = i
    BY <1>s, <1>b, <1>n, <1>t, <2>2
  <2>3. CASE bonus[d].linked \in Payouts \ {i}
    BY <1>s, <1>b, <1>t, <2>3 DEF Others
  <2> QED BY <1>b, <2>1, <2>2, <2>3
<1>2. ASSUME NEW i \in Payouts, Created(i) PROVE Goal
  <2>1. CASE bonus'[d] = bonus[d]
    BY <1>2, <1>s, <2>1 DEF Created
  <2>2. CASE bonus'[d] # bonus[d]
    <3>1. /\ i[1] = d /\ bonus[d] = [linked |-> None, paid |-> FALSE] /\ payout'[i].bonus
          /\ payout'[i].status \in {"PENDING", "HELD"} /\ bonus' = [bonus EXCEPT ![d].linked = i]
      BY <1>2, <1>t, <2>2 DEF Created
    <3>2. bonus'[d].linked = i /\ ~bonus'[d].paid
      BY <3>1, <1>t
    <3> QED BY <3>1, <3>2, <1>t
  <2> QED BY <2>1, <2>2
<1>3. ASSUME NEW i \in Payouts, Ended(i, "FAILED") PROVE Goal
  BY <1>3, <1>s DEF Ended
<1>4. ASSUME NEW i \in Payouts, Ended(i, "PROCESSED") PROVE Goal
  <2>1. CASE bonus[d].linked = i
    <3>1. bonus'[d] = [bonus[d] EXCEPT !.paid = TRUE]
      BY <1>4, <2>1 DEF Ended, PayBonus
    <3>2. bonus'[d].linked = i /\ bonus'[d].paid
      BY <3>1, <2>1, <1>b DEF Bonuses
    <3> QED BY <3>2, <2>1, <1>b, <1>4, <1>t DEF Ended
  <2>2. CASE bonus[d].linked # i
    <3>1. bonus'[d] = bonus[d]
      BY <1>4, <2>2 DEF Ended, PayBonus
    <3>2. CASE bonus[d].linked = None
      BY <3>1, <3>2, <1>b
    <3>3. CASE bonus[d].linked # None
      BY <3>1, <3>3, <1>b, <1>4, <2>2 DEF Ended, Others
    <3> QED BY <3>2, <3>3
  <2> QED BY <2>1, <2>2
<1>5. ASSUME NEW i \in Payouts, NEW w \in Operators, Sent(w, i) PROVE Goal
  <2>1. payout[i].status # "PROCESSED"
    BY <1>5 DEF Sent, From
  <2> QED BY <1>5, <1>s, <2>1 DEF Sent
<1> QED BY <1>t, <1>1, <1>2, <1>3, <1>4, <1>5 DEF RowsMove

LEMMA PayoutInvInit == Init => PayoutInv
<1> SUFFICES ASSUME Init PROVE PayoutInv
  OBVIOUS
<1>1. TypeOK
  <2>1. \A w \in Workers : job[w] \in Jobs
    BY IdleIsJob DEF Init
  <2>2. events \in 0..MaxEvents
    BY DEF Init
  <2>3. payout \in [Payouts -> Rows] /\ bonus \in [Drivers -> Bonuses]
    BY DEF Init, Rows, Status, Bonuses
  <2>4. replica \in [payout : [Payouts -> Rows], bonus : [Drivers -> Bonuses]]
    BY <2>3 DEF Init
  <2>5. job \in [Workers -> Jobs]
    BY <2>1 DEF Init
  <2>6. told \in [Payouts -> Seq({"processing", "processed", "failed"})]
    BY DEF Init
  <2> QED BY <2>2, <2>3, <2>4, <2>5, <2>6 DEF Init, TypeOK
<1>2. \A w \in Workers : JobOK(job[w])
  BY IdleIsJob DEF Init
<1>3. VerdictsStand
  BY DEF Init, VerdictsStand, Idle
<1>4. NothingCounted /\ PaidWasConfirmed /\ BonusFollowsItsPayout
  BY DEF Init, NothingCounted, PaidWasConfirmed, BonusFollowsItsPayout
<1> QED BY <1>1, <1>2, <1>3, <1>4 DEF PayoutInv

LEMMA PayoutInvStep == PayoutInv /\ [Next]_vars => PayoutInv'
<1> SUFFICES ASSUME PayoutInv, [Next]_vars PROVE PayoutInv'
  OBVIOUS
<1>1. TypeOK /\ \A w \in Workers : JobOK(job[w])
  BY DEF PayoutInv
<1>2. (\A w \in Workers : JobOK(job[w]))'
  BY <1>1, JobsStep DEF Workers
<1> QED BY <1>2, TypeStep, VerdictsStep, CountedStep, PaidStep, BonusStep DEF PayoutInv

THEOREM Invariance == Spec => []PayoutInv
BY PayoutInvInit, PayoutInvStep, PTL DEF Spec

-----------------------------------------------------------------------------
(* The theorems.                                                            *)

\* The state keeps its types: the sessions' too, whatever they read of a
\* replica and wherever they stop.
THEOREM TypeCorrect == Spec => []TypeOK
<1>1. PayoutInv => TypeOK
  BY DEF PayoutInv
<1> QED BY <1>1, Invariance, PTL

\* A payout is PROCESSED only if the rail confirmed it
\* (applyPayoutDisbursementResult).
THEOREM AlwaysPaidWasConfirmed == Spec => []PaidWasConfirmed
<1>1. PayoutInv => PaidWasConfirmed
  BY DEF PayoutInv
<1> QED BY <1>1, Invariance, PTL

\* A bonus is paid with the payout it is linked to, which counts it, and only
\* with it (linkIncentivesToPayoutInTx, markIncentivesPaidInTx).
THEOREM BonusAlwaysFollows == Spec => []BonusFollowsItsPayout
<1>1. PayoutInv => BonusFollowsItsPayout
  BY DEF PayoutInv
<1> QED BY <1>1, Invariance, PTL

\* Retained money leaves by a release of its driver and in no other way
\* (releaseHeldPayouts, casClaimPayoutProcessingInTx).
THEOREM ReviewHolds == Spec => HeldWaitsForRelease
<1> DEFINE Act == \A i \in Payouts :
                    payout[i].status = "HELD" /\ payout'[i].status # "HELD" =>
                      \E w \in Operators : /\ job[w].kind = "release" /\ job[w].scope = i[1]
                                           /\ job'[w].at = "rail" /\ job'[w].id = i
<1>1. PayoutInv /\ [Next]_vars => [Act]_vars
  <2> SUFFICES ASSUME PayoutInv, [Next]_vars, NEW i \in Payouts,
                      payout[i].status = "HELD", payout'[i].status # "HELD"
               PROVE  \E w \in Operators : /\ job[w].kind = "release" /\ job[w].scope = i[1]
                                           /\ job'[w].at = "rail" /\ job'[w].id = i
    OBVIOUS
  <2>1. PICK w \in Operators, k \in Payouts : Sent(w, k) /\ i = k
    BY RowStep DEF RowsMove, Retained, Created, Ended, Sent, Others
  <2>2. job[w].kind = "release"
    BY <2>1 DEF Sent, From
  <2>3. JobOK(job[w]) /\ i \in job[w].todo
    BY <2>1 DEF Sent, PayoutInv, Workers
  <2> QED BY <2>1, <2>2, <2>3 DEF Sent, JobOK
<1> QED BY <1>1, Invariance, PTL DEF Spec, HeldWaitsForRelease

\* What others see of a payout is a behavior of PayoutContract.
THEOREM ImplementsContract == Spec => KeepsContract
<1> DEFINE status == [i \in Payouts |-> payout[i].status]
<1>1. Init => Contract!Init
  BY DEF Init, Contract!Init
<1>2. PayoutInv /\ [Next]_vars => [Contract!Next]_(Contract!pvars)
  <2> SUFFICES ASSUME PayoutInv, [Next]_vars PROVE [Contract!Next]_(Contract!pvars)
    OBVIOUS
  <2>1. RowsMove
    BY RowStep
  <2>2. CASE Retained
    <3> DEFINE held == {i \in Payouts : payout[i].status = "PENDING" /\ payout'[i].status = "HELD"}
    <3>1. held \in SUBSET {i \in Payouts : status[i] = "PENDING"}
      OBVIOUS
    <3>2. status' = [i \in Payouts |-> IF i \in held THEN "HELD" ELSE status[i]]
      BY <2>2 DEF Retained
    <3> QED BY <2>2, <3>1, <3>2 DEF Retained, Contract!Next, Contract!Retain
  <2>3. ASSUME NEW i \in Payouts, Others(i)
        PROVE  status' = [status EXCEPT ![i] = payout'[i].status]
    BY <2>3 DEF Others
  <2>4. ASSUME NEW i \in Payouts, Created(i) PROVE Contract!Aggregate(i)
    <3>1. payout'[i].status \in {"PENDING", "HELD"}
      BY <2>4 DEF Created
    <3> QED BY <2>3, <2>4, <3>1 DEF Created, Contract!Aggregate
  <2>5. ASSUME NEW i \in Payouts, Ended(i, "PROCESSED") PROVE Contract!Pay(i)
    BY <2>3, <2>5 DEF Ended, Contract!Pay, Contract!Say
  <2>6. ASSUME NEW i \in Payouts, Ended(i, "FAILED") PROVE Contract!Fail(i)
    BY <2>3, <2>6 DEF Ended, Contract!Fail, Contract!Say
  <2>7. ASSUME NEW i \in Payouts, NEW w \in Operators, Sent(w, i) PROVE Contract!Send(i)
    BY <2>3, <2>7 DEF Sent, From, Contract!Send, Contract!Say
  <2> QED BY <2>1, <2>2, <2>4, <2>5, <2>6, <2>7 DEF RowsMove, Contract!Next
<1> QED BY <1>1, <1>2, Invariance, PTL DEF Spec, KeepsContract, Contract!Spec

-----------------------------------------------------------------------------
(* What the contract gives to those who only see the events.                *)

\* What the events say of a payout of status st, when they are s.
Tells(s, st) ==
  /\ \A k \in DOMAIN s : /\ s[k] = "processing" <=> k % 2 = 1
                         /\ s[k] = "processed" => k = Len(s)
  /\ s # <<>> => st \in DOMAIN Word /\ s[Len(s)] = Word[st]
  /\ s = <<>> => st \in {"none", "PENDING", "HELD"}

\* One more word, after anything but the last one and in its turn.
LEMMA OneMoreWord ==
  ASSUME NEW s \in Seq({"processing", "processed", "failed"}), NEW from, Tells(s, from),
         NEW to \in DOMAIN Word,
         \/ to = "PROCESSING" /\ from \in {"PENDING", "HELD", "FAILED"}
         \/ to # "PROCESSING" /\ from = "PROCESSING"
  PROVE  Tells(Append(s, Word[to]), to)
<1> DEFINE n == Len(s)
           more == Append(s, Word[to])
<1>w. /\ DOMAIN Word = {"PROCESSING", "PROCESSED", "FAILED"}
      /\ Word["PROCESSING"] = "processing"
      /\ Word["PROCESSED"] = "processed"
      /\ Word["FAILED"] = "failed"
  BY DEF Word
<1>1. /\ n \in Nat /\ DOMAIN s = 1..n
      /\ DOMAIN more = 1..(n + 1) /\ Len(more) = n + 1
      /\ \A k \in 1..n : more[k] = s[k]
      /\ more[n + 1] = Word[to] /\ more # <<>>
  OBVIOUS
<1>2. s # <<>> => n \in DOMAIN s
  OBVIOUS
<1>t. \A k \in DOMAIN s : /\ s[k] = "processing" <=> k % 2 = 1
                          /\ s[k] = "processed" => k = n
  BY Zenon DEF Tells
<1>3. to = "PROCESSING" <=> (n + 1) % 2 = 1
  <2>1. CASE s = <<>>
    <3>1. n = 0 /\ from \notin DOMAIN Word
      BY <1>w, <2>1 DEF Tells
    <3>2. to = "PROCESSING"
      BY <1>w, <3>1
    <3> QED BY <3>1, <3>2
  <2>2. CASE s # <<>>
    <3>1. from \in DOMAIN Word /\ s[n] = Word[from]
      BY <2>2 DEF Tells
    <3>2. s[n] = "processing" <=> n % 2 = 1
      BY <1>2, <1>t, <2>2, Zenon
    <3>3. from = "PROCESSING" <=> n % 2 = 1
      BY <1>w, <3>1, <3>2
    <3>4. n % 2 = 1 <=> (n + 1) % 2 # 1
      BY <1>1
    <3>5. to = "PROCESSING" <=> from # "PROCESSING"
      OBVIOUS
    <3> QED BY <3>3, <3>4, <3>5
  <2> QED BY <2>1, <2>2
<1>4. Word[to] = "processing" <=> to = "PROCESSING"
  BY <1>w
<1>5. \A k \in DOMAIN s : s[k] # "processed"
  <2> SUFFICES ASSUME NEW k \in DOMAIN s, s[k] = "processed" PROVE FALSE
    OBVIOUS
  <2>1. k = n /\ s # <<>>
    BY <1>1, <1>t
  <2>2. from \in DOMAIN Word /\ Word[from] = "processed"
    BY <2>1 DEF Tells
  <2> QED BY <1>w, <2>2
<1> HIDE DEF n, more
<1>6. ASSUME NEW k \in DOMAIN more
      PROVE  /\ more[k] = "processing" <=> k % 2 = 1
             /\ more[k] = "processed" => k = Len(more)
  <2>1. CASE k \in DOMAIN s
    <3>1. more[k] = s[k] /\ s[k] # "processed"
      BY <1>1, <1>5, <2>1
    <3>2. s[k] = "processing" <=> k % 2 = 1
      BY <1>t, <2>1, Zenon
    <3> QED BY <3>1, <3>2, Zenon
  <2>2. CASE k = n + 1
    BY <1>1, <1>3, <1>4, <2>2
  <2>3. k \in DOMAIN s \/ k = n + 1
    BY <1>1
  <2> QED BY <2>1, <2>2, <2>3
<1>7. more # <<>> /\ more[Len(more)] = Word[to]
  BY <1>1
<1>8. Tells(more, to)
  BY <1>6, <1>7 DEF Tells
<1> QED BY <1>8 DEF more

\* A payout's status moves as its contract says, together with its events.
LEMMA EventsStep ==
  ASSUME TypeOK, \A i \in Payouts : Tells(told[i], payout[i].status),
         [Contract!Next]_(Contract!pvars), NEW i \in Payouts
  PROVE  Tells(told'[i], payout'[i].status)
<1> DEFINE status == [j \in Payouts |-> payout[j].status]
<1>1. /\ status[i] = payout[i].status /\ status'[i] = payout'[i].status
      /\ status = [j \in Payouts |-> status[j]]
  OBVIOUS
<1>2. /\ told \in [Payouts -> Seq({"processing", "processed", "failed"})]
      /\ Tells(told[i], status[i])
  BY DEF TypeOK
<1>3. Tells(told'[i], status'[i])
  <2>1. CASE UNCHANGED <<status, told>>
    BY <1>2, <2>1
  <2>2. ASSUME NEW S \in SUBSET {j \in Payouts : status[j] = "PENDING"},
               status' = [j \in Payouts |-> IF j \in S THEN "HELD" ELSE status[j]],
               UNCHANGED told
        PROVE  Tells(told'[i], status'[i])
    <3>1. CASE i \in S
      <4>1. status[i] = "PENDING" /\ status'[i] = "HELD"
        BY <2>2, <3>1
      <4>2. "PENDING" \notin DOMAIN Word
        BY DEF Word
      <4>3. told[i] = <<>>
        BY <1>2, <4>1, <4>2 DEF Tells
      <4> QED BY <2>2, <4>1, <4>3 DEF Tells
    <3>2. CASE i \notin S
      BY <1>1, <1>2, <2>2, <3>2
    <3> QED BY <3>1, <3>2
  <2>3. ASSUME NEW j \in Payouts, NEW to \in {"PENDING", "HELD"}, status[j] = "none",
               status' = [status EXCEPT ![j] = to], UNCHANGED told
        PROVE  Tells(told'[i], status'[i])
    BY <1>2, <2>3 DEF Tells, Word
  <2>4. ASSUME NEW j \in Payouts, NEW to \in DOMAIN Word,
               \/ to = "PROCESSING" /\ status[j] \in {"PENDING", "HELD", "FAILED"}
               \/ to # "PROCESSING" /\ status[j] = "PROCESSING",
               status' = [status EXCEPT ![j] = to],
               told' = [told EXCEPT ![j] = Append(told[j], Word[to])]
        PROVE  Tells(told'[i], status'[i])
    <3>1. CASE i = j
      <4>1. Tells(Append(told[i], Word[to]), to)
        BY <1>2, <2>4, <3>1, OneMoreWord
      <4> QED BY <1>1, <1>2, <2>4, <3>1, <4>1
    <3>2. CASE i # j
      BY <1>1, <1>2, <2>4, <3>2
    <3> QED BY <3>1, <3>2
  <2>5. /\ DOMAIN Word = {"PROCESSING", "PROCESSED", "FAILED"}
        /\ Word["PROCESSING"] = "processing"
        /\ Word["PROCESSED"] = "processed"
        /\ Word["FAILED"] = "failed"
    BY DEF Word
  <2> HIDE DEF status
  <2> QED
    BY <2>1, <2>2, <2>3, <2>4, <2>5
    DEF status, Contract!Next, Contract!pvars, Contract!Retain, Contract!Aggregate,
        Contract!Send, Contract!Pay, Contract!Fail, Contract!Say
<1> QED BY <1>1, <1>3

\* Whoever consumes payout.processing, .processed and .failed knows the payout by
\* them (casClaimPayoutProcessingInTx, applyPayoutDisbursementResult).
THEOREM EventsAlwaysTell == Spec => []EventsTellTheStatus
<1> DEFINE Inv == \A i \in Payouts : Tells(told[i], payout[i].status)
<1>1. Init => Inv
  BY DEF Init, Tells
<1>2. TypeOK /\ Inv /\ [Contract!Next]_(Contract!pvars) => Inv'
  BY EventsStep
<1>3. Inv => EventsTellTheStatus
  BY DEF Tells, EventsTellTheStatus
<1> HIDE DEF Inv
<1> QED
  BY <1>1, <1>2, <1>3, TypeCorrect, ImplementsContract, PTL
  DEF Spec, KeepsContract, Contract!Spec
=============================================================================
