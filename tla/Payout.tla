------------------------------- MODULE Payout -------------------------------
(***************************************************************************)
(* payment-service: the payouts of drivers.  A run, under a Redis lock,     *)
(* aggregates what each driver earned in a period into one payout; an       *)
(* operator sends the pending ones to the rail, releases the retained ones  *)
(* and retries the failed ones; the rail answers at once, later or never,   *)
(* and a poll asks it.  A driver under review has his payouts retained.     *)
(* Operators, the poll and the consumer of driver.flagged run concurrently, *)
(* read the rows from a replica that lags, and stop at any await.           *)
(* Every driver has earnings in every period, and one bonus of before.      *)
(***************************************************************************)
EXTENDS Naturals, Sequences

CONSTANTS Drivers, Periods,
          Disbursed,   \* bound: the periods whose payouts are sent
          Operators,   \* requests of the operator, and the weekly cron
          Pollers,     \* instances of PayoutPollService: its lock may expire too
          None,
          MaxEvents    \* bound: requests and crons, driver.flagged events,
                       \* processes that die and queries that throw, together;
                       \* a run of a period that is not disbursed counts for two

ASSUME PayoutAssumption ==
  /\ Operators \cap Pollers = {}
  /\ None \notin (Drivers \X Periods) \cup {"CONFIRMED"}
  /\ Disbursed \subseteq Periods /\ MaxEvents \in Nat

\* The rows, as UNIQUE(driver_id, period_start, period_end) has them.
Payouts == Drivers \X Periods
Sendable == Drivers \X Disbursed
Workers == Operators \cup Pollers

VARIABLES payout,    \* the rows in the primary
          bonus,     \* driver -> his bonus: the payout it is linked to, and paidAt
          told,      \* payout -> the events enqueued for it
          replica,   \* rows and bonuses as prisma.read sees them
          flagged,   \* the Redis set of drivers under review
          holding,   \* drivers whose driver.flagged is half handled
          locked,    \* the Redis key of the run is set
          rail,      \* payout -> what the rail knows under its dedupKey
          job,       \* worker -> what its code holds between two awaits
          events     \* what was asked for and went wrong, counted

vars == <<payout, bonus, told, replica, flagged, holding, locked, rail, job, events>>

Status == {"none", "PENDING", "HELD", "PROCESSING", "PROCESSED", "FAILED"}
Rows == [status : Status,
         bonus : BOOLEAN,    \* its amount counts the driver's bonus
         old : BOOLEAN]      \* updatedAt is before the poll's grace period
Bonuses == [linked : Payouts \cup {None}, paid : BOOLEAN]
Verdicts == {"CONFIRMED", "REJECTED"}

\* kind: what was asked for.  todo: payouts left of the list it read.  noted:
\* drivers whose bonus it saw unlinked (a run), payouts it saw old (a poll).
\* id, verdict: the payout at hand, and what was read (a flag) or answered of it.
Jobs == [at : {"idle", "collect", "missing", "loop", "write", "list", "screen",
               "gate", "pay", "rail", "ask", "apply", "resolve"},
         kind : {"none", "cron", "run", "release", "retry", "poll"},
         scope : Drivers \cup Periods \cup {None},
         todo : SUBSET Payouts,
         noted : SUBSET (Drivers \cup Payouts),
         id : Payouts \cup {None},
         verdict : Verdicts \cup {"PENDING", "HELD", None}]
Idle == [at |-> "idle", kind |-> "none", scope |-> None, todo |-> {}, noted |-> {},
         id |-> None, verdict |-> None]

TypeOK ==
  /\ payout \in [Payouts -> Rows]
  /\ bonus \in [Drivers -> Bonuses]
  /\ told \in [Payouts -> Seq({"processing", "processed", "failed"})]
  /\ replica \in [payout : [Payouts -> Rows], bonus : [Drivers -> Bonuses]]
  /\ flagged \subseteq Drivers /\ holding \subseteq Drivers
  /\ locked \in BOOLEAN
  /\ rail \in [Payouts -> {"none", "pending"} \cup Verdicts]
  /\ job \in [Workers -> Jobs]
  /\ events \in 0..MaxEvents

Init ==
  /\ payout = [i \in Payouts |-> [status |-> "none", bonus |-> FALSE, old |-> FALSE]]
  /\ bonus = [d \in Drivers |-> [linked |-> None, paid |-> FALSE]]
  /\ told = [i \in Payouts |-> <<>>]
  /\ replica = [payout |-> payout, bonus |-> bonus]
  /\ flagged = {} /\ holding = {}
  /\ locked = FALSE
  /\ rail = [i \in Payouts |-> "none"]
  /\ job = [w \in Workers |-> Idle]
  /\ events = 0

\* What a worker does next, and with what.
Go(w, changes) == job' = [job EXCEPT ![w] = changes]
At(w, at) == [job[w] EXCEPT !.at = at]
\* The payout at hand is done with; on to the next of the list.
Done(w, at) == [job[w] EXCEPT !.at = at, !.todo = @ \ {job[w].id}, !.id = None,
                              !.verdict = None]
Seen(i) == replica.payout[i].status

\* A step that the bound counts, for n.
Counted(n) == events + n <= MaxEvents /\ events' = events + n
Event == Counted(1)

-----------------------------------------------------------------------------
(* The run: aggregates the earnings of a period under the lock.             *)

\* SET NX; the cron skips and a request is refused when the key is there.
StartRun(w, kind, p) ==
  /\ job[w] = Idle /\ ~locked
  /\ IF p \in Disbursed THEN Event ELSE kind = "cron" /\ Counted(2)
  /\ locked' = TRUE
  /\ Go(w, [Idle EXCEPT !.at = "collect", !.kind = kind, !.scope = p])
  /\ UNCHANGED <<payout, bonus, told, replica, flagged, holding, rail>>

CollectEarnings(w) ==
  /\ job[w].at = "collect"
  /\ Go(w, [At(w, "missing") EXCEPT
              !.noted = {d \in Drivers : replica.bonus[d] = [linked |-> None, paid |-> FALSE]}])
  /\ UNCHANGED <<payout, bonus, told, replica, flagged, holding, locked, rail, events>>

\* findPaidDriverIdsForPeriod.
FindMissing(w) ==
  /\ job[w].at = "missing"
  /\ Go(w, [At(w, "loop") EXCEPT
              !.todo = {i \in Payouts : i[2] = job[w].scope /\ Seen(i) = "none"}])
  /\ UNCHANGED <<payout, bonus, told, replica, flagged, holding, locked, rail, events>>

ReadFlag(w, i) ==
  /\ job[w].at = "loop" /\ i \in job[w].todo
  /\ Go(w, [At(w, "write") EXCEPT !.id = i,
                              !.verdict = IF i[1] \in flagged THEN "HELD" ELSE "PENDING"])
  /\ UNCHANGED <<payout, bonus, told, replica, flagged, holding, locked, rail, events>>

\* Mutant: the link trusts what was collected, and not the row.
LinkCollected(w, i) ==
  IF i[1] \in job[w].noted THEN [bonus EXCEPT ![i[1]].linked = i] ELSE bonus

\* The amount counts the bonus collected; the link is a compare-and-set of its
\* own, whose count nobody looks at.
LinkBonus(w, i) ==
  IF i[1] \in job[w].noted /\ bonus[i[1]] = [linked |-> None, paid |-> FALSE]
  THEN [bonus EXCEPT ![i[1]].linked = i]
  ELSE bonus

\* The transaction of one driver; a duplicate is refused by UNIQUE, and an
\* error of one driver does not stop the run.
CreatePayout(w) ==
  /\ job[w].at = "write"
  /\ LET i == job[w].id IN
     \/ /\ payout[i].status = "none"
        /\ payout' = [payout EXCEPT ![i] =
             [status |-> job[w].verdict, bonus |-> i[1] \in job[w].noted,
              old |-> FALSE]]
        /\ bonus' = LinkBonus(w, i)
     \/ /\ payout[i].status # "none"
        /\ UNCHANGED <<payout, bonus>>
  /\ Go(w, Done(w, "loop"))
  /\ UNCHANGED <<told, replica, flagged, holding, locked, rail, events>>

\* DEL by key, whoever set it.  The request goes on to disburse.
FinishRun(w) ==
  /\ job[w].at = "loop" /\ job[w].todo = {}
  /\ locked' = FALSE
  /\ Go(w, IF job[w].kind = "run" THEN [At(w, "list") EXCEPT !.noted = {}] ELSE Idle)
  /\ UNCHANGED <<payout, bonus, told, replica, flagged, holding, rail, events>>

\* The TTL: its holder is slow, or dead.
LockExpires ==
  /\ locked /\ locked' = FALSE
  /\ UNCHANGED <<payout, bonus, told, replica, flagged, holding, rail, job, events>>

-----------------------------------------------------------------------------
(* The disbursement: of what is pending, released or retried.               *)

ListPending(w) ==
  /\ job[w].at = "list"
  /\ Go(w, [At(w, "screen") EXCEPT
              !.todo = {i \in Payouts : i[2] = job[w].scope /\ Seen(i) = "PENDING"}])
  /\ UNCHANGED <<payout, bonus, told, replica, flagged, holding, locked, rail, events>>

\* Mutant: a review retains whatever the driver has.
HoldAny(S) ==
  payout' = [i \in Payouts |-> IF i \in S THEN [payout[i] EXCEPT !.status = "HELD"]
                                          ELSE payout[i]]

\* The payouts of S, with what a review does to them.
Hold(S) ==
  payout' = [i \in Payouts |->
               IF i \in S /\ payout[i].status = "PENDING"
               THEN [payout[i] EXCEPT !.status = "HELD"]
               ELSE payout[i]]

\* Retains those of drivers flagged since the run.
Screen(w) ==
  /\ job[w].at = "screen"
  /\ Hold({i \in job[w].todo : i[1] \in flagged})
  /\ Go(w, [At(w, "gate") EXCEPT !.todo = {i \in @ : i[1] \notin flagged}])
  /\ UNCHANGED <<bonus, told, replica, flagged, holding, locked, rail, events>>

StartRelease(w, d) ==
  /\ job[w] = Idle /\ Event
  /\ LET listed == {i \in Payouts : i[1] = d /\ Seen(i) = "HELD"} IN
     /\ \A i \in listed : i[2] \in Disbursed
     /\ Go(w, [Idle EXCEPT !.at = "gate", !.kind = "release", !.scope = d, !.todo = listed])
  /\ UNCHANGED <<payout, bonus, told, replica, flagged, holding, locked, rail>>

StartRetry(w, i) ==
  /\ job[w] = Idle /\ Event
  /\ Seen(i) = "FAILED"
  /\ Go(w, [Idle EXCEPT !.at = "gate", !.kind = "retry", !.todo = {i}])
  /\ UNCHANGED <<payout, bonus, told, replica, flagged, holding, locked, rail>>

\* No fresh MFA, or no rail: nothing is touched.
Refuse(w) ==
  /\ job[w].at = "gate" /\ job[w].todo # {}
  /\ Go(w, Idle)
  /\ UNCHANGED <<payout, bonus, told, replica, flagged, holding, locked, rail, events>>

\* The status the list was read by.
From(kind) == CASE kind = "run" -> "PENDING"
                [] kind = "release" -> "HELD"
                [] kind = "retry" -> "FAILED"
                [] OTHER -> "none"

\* Mutant: the claim looks at the status the list showed, and not at the row.
ClaimById(w, i) ==
  /\ job[w].at \in {"gate", "pay"} /\ i \in job[w].todo
  /\ payout' = [payout EXCEPT ![i].status = "PROCESSING", ![i].old = FALSE]
  /\ told' = [told EXCEPT ![i] = Append(@, "processing")]
  /\ Go(w, [At(w, "rail") EXCEPT !.id = i])
  /\ UNCHANGED <<bonus, replica, flagged, holding, locked, rail, events>>

\* casClaimPayoutProcessingInTx and payout.processing; who loses goes on.
Claim(w, i) ==
  /\ job[w].at \in {"gate", "pay"} /\ i \in job[w].todo
  /\ \/ /\ payout[i].status = From(job[w].kind)
        /\ payout' = [payout EXCEPT ![i].status = "PROCESSING", ![i].old = FALSE]
        /\ told' = [told EXCEPT ![i] = Append(@, "processing")]
        /\ Go(w, [At(w, "rail") EXCEPT !.id = i])
     \/ /\ payout[i].status # From(job[w].kind)
        /\ Go(w, [At(w, "pay") EXCEPT !.todo = @ \ {i}])
        /\ UNCHANGED <<payout, told>>
  /\ UNCHANGED <<bonus, replica, flagged, holding, locked, rail, events>>

\* The call to the rail, idempotent by dedupKey: a payout it has is not sent
\* twice, one it does not have or had rejected may be taken, be refused (noted
\* down or not) or get lost on the way.  A refused or confirmed answer is
\* applied by the session; anything else is left to the poll.
Disburse(w) ==
  /\ job[w].at = "rail"
  /\ LET i == job[w].id
         taken == rail[i] \in {"pending", "CONFIRMED"}
         to(verdict) == Go(w, [At(w, "apply") EXCEPT !.verdict = verdict])
     IN
     \/ /\ ~taken /\ rail' = [rail EXCEPT ![i] = "pending"]
        /\ Go(w, Done(w, "pay"))
     \/ /\ UNCHANGED rail
        /\ Go(w, Done(w, "pay"))
     \/ /\ rail' = [rail EXCEPT ![i] = "CONFIRMED"]
        /\ to("CONFIRMED")
     \/ /\ ~taken /\ rail' \in {rail, [rail EXCEPT ![i] = "REJECTED"]}
        /\ to("REJECTED")
  /\ UNCHANGED <<payout, bonus, told, replica, flagged, holding, locked, events>>

\* Every payout was tried; a release takes the driver off the review.
FinishDisburse(w) ==
  /\ job[w].at \in {"gate", "pay"} /\ job[w].todo = {}
  /\ flagged' = IF job[w].kind = "release" THEN flagged \ {job[w].scope} ELSE flagged
  /\ Go(w, Idle)
  /\ UNCHANGED <<payout, bonus, told, replica, holding, locked, rail, events>>

-----------------------------------------------------------------------------
(* The verdict of the rail: applyPayoutDisbursementResult.                  *)

\* Mutant: a verdict is taken for a confirmation.
Optimistic(verdict) == "PROCESSED"

Target(verdict) == IF verdict = "CONFIRMED" THEN "PROCESSED" ELSE "FAILED"
Back(w) == IF job[w].kind = "poll" THEN "ask" ELSE "pay"

\* PAYOUT_TRANSITIONS, as far as verdicts ask for them.
CanTransition(from, to) ==
  from \in CASE to = "PROCESSED" -> {"PENDING", "PROCESSING", "FAILED"}
             [] to = "FAILED" -> {"PENDING", "PROCESSING"}

\* The row is read, in the replica; a verdict it already shows, or that its
\* status does not allow (an error), ends here.
Apply(w) ==
  /\ job[w].at = "apply"
  /\ LET i == job[w].id IN
     Go(w, IF CanTransition(Seen(i), Target(job[w].verdict))
           THEN At(w, "resolve") ELSE Done(w, Back(w)))
  /\ UNCHANGED <<payout, bonus, told, replica, flagged, holding, locked, rail, events>>

\* markIncentivesPaidInTx.
PayBonus(i) ==
  [d \in Drivers |-> IF bonus[d].linked = i THEN [bonus[d] EXCEPT !.paid = TRUE]
                                             ELSE bonus[d]]

\* The compare-and-set of the row, with the bonus and the event.
Resolve(w) ==
  /\ job[w].at = "resolve"
  /\ LET i == job[w].id
         to == Target(job[w].verdict)
     IN
     \/ /\ payout[i].status = "PROCESSING"
        /\ payout' = [payout EXCEPT ![i].status = to, ![i].old = FALSE]
        /\ bonus' = IF to = "PROCESSED" THEN PayBonus(i) ELSE bonus
        /\ told' = [told EXCEPT ![i] =
                      Append(@, IF to = "PROCESSED" THEN "processed" ELSE "failed")]
     \/ /\ payout[i].status # "PROCESSING"
        /\ UNCHANGED <<payout, bonus, told>>
  /\ Go(w, Done(w, Back(w)))
  /\ UNCHANGED <<replica, flagged, holding, locked, rail, events>>

\* Mutant: a sweep that leaves out what is older than its window.
StartPollRecent(w) ==
  /\ job[w] = Idle
  /\ LET listed == {i \in Payouts : Seen(i) = "PROCESSING" /\ ~replica.payout[i].old} IN
     /\ listed # {}
     /\ Go(w, [Idle EXCEPT !.at = "ask", !.kind = "poll", !.todo = listed])
  /\ UNCHANGED <<payout, bonus, told, replica, flagged, holding, locked, rail, events>>

\* A sweep lists what is in PROCESSING (a claim always leaves a dedupKey).
StartPoll(w) ==
  /\ job[w] = Idle
  /\ LET listed == {i \in Payouts : Seen(i) = "PROCESSING"} IN
     /\ listed # {}
     /\ Go(w, [Idle EXCEPT !.at = "ask", !.kind = "poll", !.todo = listed,
                           !.noted = {i \in listed : replica.payout[i].old}])
  /\ UNCHANGED <<payout, bonus, told, replica, flagged, holding, locked, rail, events>>

\* Mutant: a transfer still in course is judged too.
AskAndJudge(w, i) ==
  /\ job[w].at = "ask" /\ i \in job[w].todo
  /\ Go(w, [At(w, "apply") EXCEPT !.id = i, !.verdict = rail[i]])
  /\ UNCHANGED <<payout, bonus, told, replica, flagged, holding, locked, rail, events>>

\* getDisbursementStatus.  What the rail never heard of is taken for rejected
\* once it is old: its request died before it reached the rail.
AskTheRail(w, i) ==
  /\ job[w].at = "ask" /\ i \in job[w].todo
  /\ LET judge(verdict) == Go(w, [At(w, "apply") EXCEPT !.id = i, !.verdict = verdict])
         skip == Go(w, [job[w] EXCEPT !.todo = @ \ {i}])
     IN
     \/ /\ rail[i] \in Verdicts /\ judge(rail[i]) /\ UNCHANGED events
     \/ /\ rail[i] = "none" /\ i \in job[w].noted /\ judge("REJECTED")
        /\ UNCHANGED events
     \/ /\ \/ rail[i] = "pending"
           \/ rail[i] = "none" /\ i \notin job[w].noted
        /\ skip /\ UNCHANGED events
     \/ Event /\ skip    \* it throws
  /\ UNCHANGED <<payout, bonus, told, replica, flagged, holding, locked, rail>>

FinishPoll(w) ==
  /\ job[w].at = "ask" /\ job[w].todo = {}
  /\ Go(w, Idle)
  /\ UNCHANGED <<payout, bonus, told, replica, flagged, holding, locked, rail, events>>

-----------------------------------------------------------------------------
(* driver.flagged: the set first, then the payouts that are waiting.  A crash  *)
(* in between is a second delivery, that is, a late second half.               *)

HoldDriver(d) ==
  /\ Event
  /\ flagged' = flagged \cup {d} /\ holding' = holding \cup {d}
  /\ UNCHANGED <<payout, bonus, told, replica, locked, rail, job>>

HoldPending(d) ==
  /\ d \in holding /\ holding' = holding \ {d}
  /\ Hold({i \in Payouts : i[1] = d})
  /\ UNCHANGED <<bonus, told, replica, flagged, locked, rail, job, events>>

-----------------------------------------------------------------------------
(* The world: the rail, the replica, time, and processes that die.          *)

\* A transfer that was taken succeeds or not, later.
Settle(i) ==
  /\ rail[i] = "pending"
  /\ \E verdict \in Verdicts : rail' = [rail EXCEPT ![i] = verdict]
  /\ UNCHANGED <<payout, bonus, told, replica, flagged, holding, locked, job, events>>

Replicate ==
  /\ replica # [payout |-> payout, bonus |-> bonus]
  /\ replica' = [payout |-> payout, bonus |-> bonus]
  /\ UNCHANGED <<payout, bonus, told, flagged, holding, locked, rail, job, events>>

\* The grace period (60 minutes) is longer than a call to the rail takes.
GrowOld(i) ==
  /\ payout[i].status = "PROCESSING" /\ ~payout[i].old
  /\ \A w \in Workers : ~(job[w].at = "rail" /\ job[w].id = i)
  /\ payout' = [payout EXCEPT ![i].old = TRUE]
  /\ UNCHANGED <<bonus, told, replica, flagged, holding, locked, rail, job, events>>

\* A request on its way to the rail may arrive all the same.  The lock stays.
Crash(w) ==
  /\ job[w] # Idle /\ Event
  /\ \/ UNCHANGED rail
     \/ /\ job[w].at = "rail" /\ rail[job[w].id] \in {"none", "REJECTED"}
        /\ rail' = [rail EXCEPT ![job[w].id] = "pending"]
  /\ Go(w, Idle)
  /\ UNCHANGED <<payout, bonus, told, replica, flagged, holding, locked>>

-----------------------------------------------------------------------------
Run(w) ==
  \/ \E kind \in {"cron", "run"}, p \in Periods : StartRun(w, kind, p)
  \/ CollectEarnings(w) \/ FindMissing(w) \/ CreatePayout(w) \/ FinishRun(w)
  \/ \E i \in Payouts : ReadFlag(w, i)

Disbursement(w) ==
  \/ ListPending(w) \/ Screen(w) \/ Refuse(w) \/ Disburse(w) \/ FinishDisburse(w)
  \/ \E d \in Drivers : StartRelease(w, d)
  \/ \E i \in Payouts : StartRetry(w, i) \/ Claim(w, i)

Verdict(w) == Apply(w) \/ Resolve(w)

Poll(w) ==
  \/ StartPoll(w) \/ FinishPoll(w) \/ Verdict(w)
  \/ \E i \in Payouts : AskTheRail(w, i)

World ==
  \/ LockExpires \/ Replicate
  \/ \E d \in Drivers : HoldDriver(d) \/ HoldPending(d)
  \/ \E i \in Payouts : Settle(i) \/ GrowOld(i)
  \/ \E w \in Workers : Crash(w)

Next ==
  \/ \E w \in Operators : Run(w) \/ Disbursement(w) \/ Verdict(w)
  \/ \E w \in Pollers : Poll(w)
  \/ World

Spec == Init /\ [][Next]_vars

\* The poll's interval goes on for ever; a call to the rail returns (its client
\* has a timeout), a transfer comes to an end, the replica catches up and time
\* passes.  Nothing is assumed of operators, who may never retry.
FairSpec ==
  /\ Spec
  /\ \A w \in Pollers : WF_vars(Poll(w))
  /\ \A w \in Operators : WF_vars(Disburse(w))
  /\ \A i \in Sendable : WF_vars(Settle(i)) /\ WF_vars(GrowOld(i))
  /\ WF_vars(Replicate)

-----------------------------------------------------------------------------
(* Properties.                                                              *)

\* A payout is PROCESSED only when the rail confirmed it, though the verdict was
\* asked for, read against a stale row and written in three steps
\* (disburseOne, pollOnce, applyPayoutDisbursementResult).
PaidWasConfirmed ==
  \A i \in Payouts : payout[i].status = "PROCESSED" => rail[i] = "CONFIRMED"

\* A bonus is linked to a payout whose amount counts it, and is paid when and
\* only when that payout is (linkIncentivesToPayoutInTx, markIncentivesPaidInTx),
\* however runs of two periods overlap.
BonusFollowsItsPayout ==
  \A d \in Drivers :
    /\ bonus[d].linked # None =>
         /\ bonus[d].linked[1] = d
         /\ payout[bonus[d].linked].bonus
         /\ bonus[d].paid <=> payout[bonus[d].linked].status = "PROCESSED"
    /\ bonus[d].linked = None => ~bonus[d].paid

\* Money under review leaves by a release of its driver and in no other way,
\* though runs, retries and the poll hold rows read before the review
\* (disbursePendingForPeriod, holdDriver, releaseHeldPayouts).
HeldWaitsForRelease ==
  [][\A i \in Payouts :
       payout[i].status = "HELD" /\ payout'[i].status # "HELD" =>
         \E w \in Operators : /\ job[w].kind = "release" /\ job[w].scope = i[1]
                              /\ job'[w].at = "rail" /\ job'[w].id = i]_vars

\* What others see of a payout keeps PayoutContract: sent again only after it
\* failed, and paid or failed said once for each time it was sent.
Contract == INSTANCE PayoutContract WITH status <- [i \in Payouts |-> payout[i].status]
KeepsContract == Contract!Spec

\* Consumers of the events know the payout by them: they alternate between
\* processing and its end, processed is the last, and the row has the status that
\* the last one says; before the first the payout was never sent.
Word == [PROCESSING |-> "processing", PROCESSED |-> "processed", FAILED |-> "failed"]
EventsTellTheStatus ==
  \A i \in Payouts :
    LET s == told[i] IN
    /\ \A k \in DOMAIN s : /\ s[k] = "processing" <=> k % 2 = 1
                           /\ s[k] = "processed" => k = Len(s)
    /\ s # <<>> => /\ payout[i].status \in DOMAIN Word
                   /\ s[Len(s)] = Word[payout[i].status]
    /\ s = <<>> => payout[i].status \in {"none", "PENDING", "HELD"}

\* Whatever dies or gets lost, a payout that was sent ends: the poll finds out,
\* also when the rail never heard of it (pollOnce).
EverySendEnds ==
  \A i \in Sendable : payout[i].status = "PROCESSING" ~> payout[i].status # "PROCESSING"

\* Does not hold, and has no run: a run that reads a replica without the link of
\* an earlier period counts the bonus a second time; and a verdict on the send
\* before, asked for while a retry is on its way, fails a payout the rail pays.
BonusPaidOnce ==
  \A i, j \in Payouts :
    i[1] = j[1] /\ i # j => ~(payout[i].bonus /\ payout[j].bonus)
FailedWasNotPaid ==
  \A i \in Payouts : payout[i].status = "FAILED" => rail[i] # "CONFIRMED"
=============================================================================
