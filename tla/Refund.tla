------------------------------- MODULE Refund -------------------------------
(***************************************************************************)
(* payment-service: the refunds of one trip.  An operator asks for one and  *)
(* another approves it; a cancelled booking and a failed trip refund by     *)
(* themselves; a fare that went back takes the tips of its trip with it.    *)
(* The amount is reserved in the payment, the rail is asked to reverse it   *)
(* once (it is not idempotent), and its answer, at once or by a callback,   *)
(* completes the refund or gives the reservation back.  Requests, consumers *)
(* and callbacks run concurrently, read rows from a replica that lags, and  *)
(* stop at any await.                                                       *)
(* Who asks is never who approves; that, the window and the authority an    *)
(* amount needs are checks on fields that never change, and are left out.   *)
(***************************************************************************)
EXTENDS Integers, FiniteSets

CONSTANTS Fares, Tips,  \* the payments of the trip
          Price,        \* the cents of each
          Workers,      \* requests of operators, and consumers of events
          Receivers,    \* requests of the provider: callbacks
          None,
          MaxRefunds,   \* bound: a row beyond it cannot be inserted
          MaxFaults     \* bound: processes that die, answers that get lost

ASSUME RefundAssumption ==
  /\ Fares \cap Tips = {} /\ Workers \cap Receivers = {}
  /\ None \notin Fares \cup Tips
  /\ Price \in Nat \ {0} /\ {MaxRefunds, MaxFaults} \subseteq Nat

Payments == Fares \cup Tips
Refunds == 1..MaxRefunds
Threads == Workers \cup Receivers

VARIABLES cash,      \* the fares were paid in cash; tips never are
          payment,   \* the rows of the payments in the primary
          refund,    \* the rows of the refunds
          told,      \* refund -> how often payment.refunded was enqueued
          replica,   \* both, as prisma.read sees them
          rail,      \* refund -> what the rail knows of its reverse
          answered,  \* refunds whose callback got its 2xx
          job,       \* thread -> what its code holds between two awaits
          faults

vars == <<cash, payment, refund, told, replica, rail, answered, job, faults>>

\* refundedCents goes up and down; that it never goes below zero is no matter of
\* types (NeverMoreThanCaptured).
Cents == {n \in Int : n <= Price}
\* PENDING stands for DEBT too: not captured, and still wanted.
PaymentRows ==
  [status : {"PENDING", "CAPTURED", "PARTIALLY_REFUNDED", "REFUNDED", "FAILED"},
   refunded : Cents]
\* key: the dedupKey (that of a request is abstracted: a repeated one changes
\* nothing).  uid: externalRefundId is set.
RefundRows ==
  [status : {"none", "PENDING", "APPROVED", "COMPLETED", "REJECTED"},
   payment : Payments \cup {None}, cents : Nat,
   key : {"none", "cancel", "failed", "tip"}, uid : BOOLEAN]
Verdicts == {"CONFIRMED", "REJECTED"}

\* todo: payments still to refund.  seen: their refundedCents when read.
\* id: the refund at hand.  verdict: what the rail answered.
Jobs == [at : {"idle", "claim", "rail", "uid", "settle", "tips"},
         kind : {"none", "approve", "cancel", "failed", "tip"},
         id : Refunds \cup {0},
         todo : SUBSET Payments,
         seen : [Payments -> Cents],
         verdict : Verdicts \cup {"none", "PENDING"}]
Idle == [at |-> "idle", kind |-> "none", id |-> 0, todo |-> {},
         seen |-> [p \in Payments |-> 0], verdict |-> "none"]

TypeOK ==
  /\ cash \in BOOLEAN
  /\ payment \in [Payments -> PaymentRows]
  /\ refund \in [Refunds -> RefundRows]
  /\ told \in [Refunds -> Nat]
  /\ replica \in [payment : [Payments -> PaymentRows], refund : [Refunds -> RefundRows]]
  /\ rail \in [Refunds -> {"none", "pending"} \cup Verdicts]
  /\ answered \subseteq Refunds
  /\ job \in [Threads -> Jobs]
  /\ faults \in 0..MaxFaults

Init ==
  /\ cash \in BOOLEAN
  /\ payment = [p \in Payments |-> [status |-> "PENDING", refunded |-> 0]]
  /\ refund = [r \in Refunds |-> [status |-> "none", payment |-> None, cents |-> 0,
                                  key |-> "none", uid |-> FALSE]]
  /\ told = [r \in Refunds |-> 0]
  /\ replica = [payment |-> payment, refund |-> refund]
  /\ rail = [r \in Refunds |-> "none"]
  /\ answered = {}
  /\ job = [w \in Threads |-> Idle]
  /\ faults = 0

Go(w, state) == job' = [job EXCEPT ![w] = state]
Refundable(row) == row.status \in {"CAPTURED", "PARTIALLY_REFUNDED"}
InCash(p) == cash /\ p \in Fares
\* What the replica shows refunded of each payment.
Seen == [p \in Payments |-> replica.payment[p].refunded]
Listed(P) == {p \in P : Refundable(replica.payment[p]) /\ Seen[p] < Price}

\* uuidv7: the next row.
Fresh(r) ==
  /\ refund[r].status = "none"
  /\ \A q \in Refunds : q < r => refund[q].status # "none"

-----------------------------------------------------------------------------
(* The queue of the operators.                                              *)

\* It looks at what the replica shows, reserves nothing and moves nothing.
RequestRefund(r, p, cents) ==
  /\ p \in Listed(Fares) /\ cents <= Price - Seen[p]
  /\ Fresh(r)
  /\ refund' = [refund EXCEPT ![r] = [status |-> "PENDING", payment |-> p,
                                      cents |-> cents, key |-> "none", uid |-> FALSE]]
  /\ UNCHANGED <<cash, payment, told, replica, rail, answered, job, faults>>

RejectRefund(r) ==
  /\ replica.refund[r].status = "PENDING" /\ refund[r].status = "PENDING"
  /\ refund' = [refund EXCEPT ![r].status = "REJECTED"]
  /\ UNCHANGED <<cash, payment, told, replica, rail, answered, job, faults>>

\* Mutant: what is left of the payment is not checked again.
StartApproveUnchecked(w, r) ==
  /\ job[w] = Idle
  /\ replica.refund[r].status = "PENDING"
  /\ LET p == replica.refund[r].payment IN
     /\ Refundable(replica.payment[p])
     /\ Go(w, [Idle EXCEPT !.at = "claim", !.kind = "approve", !.id = r,
                           !.todo = {p}, !.seen = Seen])
  /\ UNCHANGED <<cash, payment, refund, told, replica, rail, answered, faults>>

\* The request and the payment are read in the replica, and checked again.
StartApprove(w, r) ==
  /\ job[w] = Idle
  /\ replica.refund[r].status = "PENDING"
  /\ LET p == replica.refund[r].payment IN
     /\ Refundable(replica.payment[p]) /\ refund[r].cents <= Price - Seen[p]
     /\ Go(w, [Idle EXCEPT !.at = "claim", !.kind = "approve", !.id = r,
                           !.todo = {p}, !.seen = Seen])
  /\ UNCHANGED <<cash, payment, refund, told, replica, rail, answered, faults>>

-----------------------------------------------------------------------------
(* The refunds of the system.                                               *)

\* booking.cancelled, delivered once or more: what is left of the fare.
StartCancel(w, p) ==
  /\ job[w] = Idle
  /\ p \in Listed(Fares)
  /\ Go(w, [Idle EXCEPT !.at = "claim", !.kind = "cancel", !.todo = {p}, !.seen = Seen])
  /\ UNCHANGED <<cash, payment, refund, told, replica, rail, answered, faults>>

\* The payments of P that were read as not captured, and still are not.
CancelUncaptured(P) ==
  payment' = [p \in Payments |->
                IF /\ p \in P /\ replica.payment[p].status = "PENDING"
                   /\ payment[p].status = "PENDING"
                THEN [payment[p] EXCEPT !.status = "FAILED"]
                ELSE payment[p]]

\* trip.failed: cancels the fares nobody paid, and refunds the others.
StartFailure(w) ==
  /\ job[w] = Idle /\ ~cash
  /\ CancelUncaptured(Fares)
  /\ Go(w, [Idle EXCEPT !.at = "claim", !.kind = "failed", !.todo = Listed(Fares),
                        !.seen = Seen])
  /\ UNCHANGED <<cash, refund, told, replica, rail, answered, faults>>

\* The tips of a fare that went back, in the same way.
ListTips(w) ==
  /\ job[w].at = "tips"
  /\ CancelUncaptured(Tips)
  /\ Go(w, [Idle EXCEPT !.at = "claim", !.kind = "tip", !.todo = Listed(Tips),
                        !.seen = Seen])
  /\ UNCHANGED <<cash, refund, told, replica, rail, answered, faults>>

-----------------------------------------------------------------------------
(* The disbursement: executeRefundClaim.                                    *)

Amount(w, p) ==
  IF job[w].kind = "approve" THEN refund[job[w].id].cents ELSE Price - job[w].seen[p]

\* The payment at hand is done with, well or badly.  Lists go on, and only that
\* of the tips goes on after any error.
Skip(w, p) ==
  IF job[w].kind \in {"failed", "tip"}
  THEN [job[w] EXCEPT !.at = "claim", !.todo = @ \ {p}, !.id = 0, !.verdict = "none"]
  ELSE Idle
Abort(w, p) == IF job[w].kind = "tip" THEN Skip(w, p) ELSE Idle

\* The refund is COMPLETED: a fare that went back whole takes the tips with it.
After(w, p) ==
  IF job[w].kind \in {"approve", "cancel"} /\ job[w].seen[p] + Amount(w, p) = Price
  THEN [Idle EXCEPT !.at = "tips"]
  ELSE Skip(w, p)

\* What refundedCents says of the status, when reserved and when given back.
Books(cents) ==
  [refunded |-> cents,
   status |-> IF cents = Price THEN "REFUNDED"
              ELSE IF cents > 0 THEN "PARTIALLY_REFUNDED" ELSE "CAPTURED"]

\* Mutant: the claim does not ask that nobody refunded since the read.
CanReserveAny(w, p) == Refundable(payment[p])

CanReserve(w, p) ==
  Refundable(payment[p]) /\ payment[p].refunded = job[w].seen[p]

\* The unique index over the rows that were not rejected; the key of a
\* cancellation names the booking, the others a payment.
Clash(w, p) ==
  \E r \in Refunds :
    /\ job[w].kind # "approve" /\ refund[r].key = job[w].kind
    /\ refund[r].payment = p \/ job[w].kind = "cancel"
    /\ refund[r].status # "REJECTED"

\* The row a claim takes: the request it approves, or a new one.
Materializes(w, p, r) ==
  IF job[w].kind = "approve" THEN r = job[w].id /\ refund[r].status = "PENDING"
                             ELSE Fresh(r) /\ ~Clash(w, p)

Claimed(w, p, r, status) ==
  /\ payment' = [payment EXCEPT ![p] = Books(job[w].seen[p] + Amount(w, p))]
  /\ refund' = [refund EXCEPT ![r] =
       [status |-> status, payment |-> p, cents |-> Amount(w, p), uid |-> FALSE,
        key |-> IF job[w].kind = "approve" THEN "none" ELSE job[w].kind]]

\* The transaction that reserves and materializes, all or nothing.  Cash is given
\* back by hand: COMPLETED and told in the same transaction.
Claim(w, p) ==
  /\ job[w].at = "claim" /\ p \in job[w].todo
  /\ \/ \E r \in Refunds :
          /\ CanReserve(w, p) /\ Materializes(w, p, r)
          /\ \/ /\ InCash(p) /\ Claimed(w, p, r, "COMPLETED")
                /\ told' = [told EXCEPT ![r] = @ + 1]
                /\ Go(w, After(w, p))
             \/ /\ ~InCash(p) /\ Claimed(w, p, r, "APPROVED")
                /\ Go(w, [job[w] EXCEPT !.at = "rail", !.id = r])
                /\ UNCHANGED told
     \/ /\ ~\E r \in Refunds : CanReserve(w, p) /\ Materializes(w, p, r)
        /\ Go(w, IF CanReserve(w, p) /\ Clash(w, p) THEN Skip(w, p) ELSE Abort(w, p))
        /\ UNCHANGED <<payment, refund, told>>
  /\ UNCHANGED <<cash, replica, rail, answered, faults>>

\* Nothing is left to refund.
Finish(w) ==
  /\ job[w].at = "claim" /\ job[w].todo = {}
  /\ Go(w, Idle)
  /\ UNCHANGED <<cash, payment, refund, told, replica, rail, answered, faults>>

\* Mutant: no answer is taken for a rejection.
AskTheRailOnce(w) ==
  /\ job[w].at = "rail"
  /\ \E known \in {"none", "pending"} : rail' = [rail EXCEPT ![job[w].id] = known]
  /\ Go(w, [job[w] EXCEPT !.at = "settle", !.verdict = "REJECTED"])
  /\ UNCHANGED <<cash, payment, refund, told, replica, answered, faults>>

\* The reverse is asked for once.  No answer leaves the refund APPROVED, whether
\* the rail took it or not, and without a uid to know it by.
AskTheRail(w) ==
  /\ job[w].at = "rail"
  /\ LET r == job[w].id
         knows(what) == rail' = [rail EXCEPT ![r] = what]
         to(at, verdict) == Go(w, [job[w] EXCEPT !.at = at, !.verdict = verdict])
     IN
     \/ /\ \E what \in {"none", "pending"} : knows(what)
        /\ Go(w, Skip(w, refund[r].payment))
     \/ knows("pending") /\ to("uid", "PENDING")
     \/ knows("CONFIRMED") /\ to("uid", "CONFIRMED")
     \/ knows("REJECTED") /\ to("settle", "REJECTED")
  /\ UNCHANGED <<cash, payment, refund, told, replica, answered, faults>>

\* setRefundExternalId, before anything else is done with the answer.
StoreUid(w) ==
  /\ job[w].at = "uid"
  /\ refund' = [refund EXCEPT ![job[w].id].uid = TRUE]
  /\ Go(w, IF job[w].verdict = "PENDING" THEN Skip(w, refund[job[w].id].payment)
                                         ELSE [job[w] EXCEPT !.at = "settle"])
  /\ UNCHANGED <<cash, payment, told, replica, rail, answered, faults>>

\* Mutant: completes and tells whatever the refund is by now.
ResolveAny(r, verdict) ==
  IF verdict = "CONFIRMED"
  THEN /\ refund' = [refund EXCEPT ![r].status = "COMPLETED"]
       /\ told' = [told EXCEPT ![r] = IF @ < 2 THEN @ + 1 ELSE @]
       /\ UNCHANGED payment
  ELSE UNCHANGED <<payment, refund, told>>

\* Mutant: who finds the refund rejected gives the reservation back once more.
CompensatesAgain(r, verdict) ==
  LET open == refund[r].status = "APPROVED" /\ verdict \in {"CONFIRMED", "REJECTED"} IN
  /\ refund' = IF open THEN [refund EXCEPT ![r].status =
                               IF verdict = "CONFIRMED" THEN "COMPLETED" ELSE "REJECTED"]
                       ELSE refund
  /\ told' = IF open /\ verdict = "CONFIRMED" THEN [told EXCEPT ![r] = @ + 1] ELSE told
  /\ payment' = IF verdict = "REJECTED"
                THEN [payment EXCEPT ![refund[r].payment] = Books(@.refunded - refund[r].cents)]
                ELSE payment

\* completeRefund or rejectRefundAndCompensate: whoever wins the row, once.
Resolve(r, verdict) ==
  \/ /\ refund[r].status = "APPROVED" /\ verdict = "CONFIRMED"
     /\ refund' = [refund EXCEPT ![r].status = "COMPLETED"]
     /\ told' = [told EXCEPT ![r] = @ + 1]
     /\ UNCHANGED payment
  \/ /\ refund[r].status = "APPROVED" /\ verdict = "REJECTED"
     /\ refund' = [refund EXCEPT ![r].status = "REJECTED"]
     /\ payment' = [payment EXCEPT ![refund[r].payment] =
                      Books(@.refunded - refund[r].cents)]
     /\ UNCHANGED told
  \/ /\ refund[r].status # "APPROVED"
     /\ UNCHANGED <<payment, refund, told>>

Settle(w) ==
  /\ job[w].at = "settle"
  /\ LET r == job[w].id IN
     /\ Resolve(r, job[w].verdict)
     /\ Go(w, IF job[w].verdict = "CONFIRMED" THEN After(w, refund[r].payment)
                                              ELSE Abort(w, refund[r].payment))
  /\ UNCHANGED <<cash, replica, rail, answered, faults>>

-----------------------------------------------------------------------------
(* The callback: applyRefundWebhookResult.                                  *)

\* Mutant: the tips go back whatever the callback said of the fare.
TakesTipsAnyway(r) ==
  LET p == refund[r].payment IN
  /\ refund[r].status = "APPROVED"
  /\ p \in Fares /\ replica.payment[p].status = "REFUNDED"

\* A fare this callback completed, and that is seen refunded whole.
TakesTips(r) ==
  LET p == refund[r].payment IN
  /\ refund[r].status = "APPROVED" /\ rail[r] = "CONFIRMED"
  /\ p \in Fares /\ replica.payment[p].status = "REFUNDED"

Apply(w, r) ==
  /\ Resolve(r, rail[r])
  /\ Go(w, IF TakesTips(r) THEN [Idle EXCEPT !.at = "tips"] ELSE Idle)

\* Mutant: what cannot be matched yet is answered with a 2xx.
CallbackAcked(w, r) ==
  /\ job[w] = Idle
  /\ rail[r] \in Verdicts /\ r \notin answered
  /\ IF replica.refund[r].uid THEN Apply(w, r) ELSE UNCHANGED <<payment, refund, told, job>>
  /\ answered' = answered \cup {r}
  /\ UNCHANGED <<cash, replica, rail, faults>>

\* The provider calls until it is answered; without its uid in the replica the
\* answer is a 404 and nothing changes.
Callback(w, r) ==
  /\ job[w] = Idle
  /\ rail[r] \in Verdicts /\ r \notin answered
  /\ replica.refund[r].uid
  /\ Apply(w, r)
  /\ \/ answered' = answered \cup {r} /\ UNCHANGED faults
     \/ faults < MaxFaults /\ faults' = faults + 1 /\ UNCHANGED answered
  /\ UNCHANGED <<cash, replica, rail>>

-----------------------------------------------------------------------------
(* The world: passengers who pay, the rail, the replica, processes that die.*)

\* casCapturePayment takes a cancelled payment too: the money moved.
Capture(p) ==
  /\ payment[p].status \in {"PENDING", "FAILED"}
  /\ payment' = [payment EXCEPT ![p].status = "CAPTURED"]
  /\ UNCHANGED <<cash, refund, told, replica, rail, answered, job, faults>>

Replicate ==
  /\ replica # [payment |-> payment, refund |-> refund]
  /\ replica' = [payment |-> payment, refund |-> refund]
  /\ UNCHANGED <<cash, payment, refund, told, rail, answered, job, faults>>

Reverse(r) ==
  /\ rail[r] = "pending"
  /\ \E verdict \in Verdicts : rail' = [rail EXCEPT ![r] = verdict]
  /\ UNCHANGED <<cash, payment, refund, told, replica, answered, job, faults>>

\* A reverse on its way may arrive all the same.
Crash(w) ==
  /\ job[w] # Idle /\ faults < MaxFaults /\ faults' = faults + 1
  /\ \/ UNCHANGED rail
     \/ job[w].at = "rail" /\ rail' = [rail EXCEPT ![job[w].id] = "pending"]
  /\ Go(w, Idle)
  /\ UNCHANGED <<cash, payment, refund, told, replica, answered>>

-----------------------------------------------------------------------------
Serve(w) ==
  \/ ListTips(w) \/ Finish(w) \/ AskTheRail(w) \/ StoreUid(w) \/ Settle(w)
  \/ \E p \in Payments : Claim(w, p)

Start(w) ==
  \/ StartFailure(w)
  \/ \E r \in Refunds : StartApprove(w, r)
  \/ \E p \in Fares : StartCancel(w, p)

Queue ==
  \E r \in Refunds :
    \/ RejectRefund(r)
    \/ \E p \in Fares, cents \in 1..Price : RequestRefund(r, p, cents)

World ==
  \/ Replicate
  \/ \E p \in Payments : Capture(p)
  \/ \E r \in Refunds : Reverse(r)
  \/ \E w \in Threads : Crash(w)

Next ==
  \/ Queue \/ World
  \/ \E w \in Workers : Start(w)
  \/ \E w \in Threads : Serve(w)
  \/ \E w \in Receivers, r \in Refunds : Callback(w, r)

Spec == Init /\ [][Next]_vars

\* The rail settles what it took and calls until it is answered; the callback's
\* own process does its work, and the replica catches up.  Nothing is assumed of
\* operators, nor that an event is delivered.
FairSpec ==
  /\ Spec
  /\ WF_vars(Replicate)
  /\ \A r \in Refunds : WF_vars(Reverse(r))
  /\ \A w \in Receivers : WF_vars(Serve(w))
  /\ \A r \in Refunds : WF_vars(\E w \in Receivers : Callback(w, r))

-----------------------------------------------------------------------------
(* Properties.                                                              *)

\* The cents of the refunds in S, a pair for each.
CentsOf(rows, S) == UNION {{r} \X (1..rows[r].cents) : r \in S}

\* Cents of p that left, or that the rail may still send: by hand or reversed.
Leaving(p) ==
  {r \in Refunds : /\ refund[r].payment = p
                   /\ \/ rail[r] \in {"pending", "CONFIRMED"}
                      \/ InCash(p) /\ refund[r].status = "COMPLETED"}
SentBack(p) == Cardinality(CentsOf(refund, Leaving(p)))

\* However requests, consumers and callbacks cross, a payment never sends back
\* more than is reserved of it, nor more than it took: its price, or nothing
\* (claimRefundReservationInTx, rejectRefundAndCompensate).
NeverMoreThanCaptured ==
  \A p \in Payments :
    /\ SentBack(p) <= payment[p].refunded
    /\ payment[p].refunded <=
         IF payment[p].status \in {"PENDING", "FAILED"} THEN 0 ELSE Price

\* What a payment has reserved are the cents of its refunds that are out or done,
\* each counted once, however its reservations were won, lost and given back
\* (refundedCents); a payment that took nothing has nothing reserved.
Owed(p) ==
  {r \in Refunds : refund[r].payment = p /\ refund[r].status \in {"APPROVED", "COMPLETED"}}
BooksAddUp ==
  \A p \in Payments :
    /\ payment[p].refunded = Cardinality(CentsOf(refund, Owed(p)))
    /\ payment[p].status \in {"PENDING", "FAILED"} => payment[p].refunded = 0

\* COMPLETED means that the money went back, and REJECTED that it did not and
\* will not: no answer is never taken for one (refundViaGateway).
VerdictIsTheRails ==
  \A r \in Refunds :
    /\ refund[r].status = "COMPLETED" => InCash(refund[r].payment) \/ rail[r] = "CONFIRMED"
    /\ refund[r].status = "REJECTED" => rail[r] \in {"none", "REJECTED"}

\* A tip goes back only when some of the fare did: never on a fare that is
\* reserved, though three paths lead to it (refundTripTipsFully).
TipFollowsFare ==
  (\E r \in Refunds : refund[r].key = "tip") =>
    \E r \in Refunds : refund[r].payment \in Fares /\ refund[r].status = "COMPLETED"

\* The refunds keep the books of RefundContract: a reservation within the price,
\* made and given back once, and each refund told once, when it is completed.
Contract == INSTANCE RefundContract
  WITH status <- [r \in Refunds |-> refund[r].status],
       of <- [r \in Refunds |-> refund[r].payment],
       cents <- [r \in Refunds |-> refund[r].cents],
       refunded <- [p \in Payments |-> payment[p].refunded]
KeepsContract == Contract!Spec

\* payment.refunded is enqueued once for a refund that is completed, and never for
\* one that is not, whoever of callbacks, polls and operators completes it.
ToldOnce ==
  \A r \in Refunds : told[r] = IF refund[r].status = "COMPLETED" THEN 1 ELSE 0

\* A reverse the provider accepted ends, though its callback may come before the
\* uid is stored or the replica has it (applyRefundWebhookResult).
AcceptedReverseEnds ==
  \A r \in Refunds :
    refund[r].status = "APPROVED" /\ refund[r].uid ~> refund[r].status # "APPROVED"

\* Do not hold, and have no run.  A fare cancelled because its trip failed is
\* captured by a late webhook, which takes FAILED payments too; a tip goes back
\* when one half of its fare is confirmed, and the other half may be rejected.
CancelledStaysUncharged ==
  [][\A p \in Payments : payment[p].status = "FAILED" => payment'[p].status = "FAILED"]_vars
TipOnlyOfARevertedFare ==
  (\E r \in Refunds : refund[r].key = "tip") =>
    \E p \in Fares : payment[p].status = "REFUNDED"
=============================================================================
