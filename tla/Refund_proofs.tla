--------------------------- MODULE Refund_proofs ---------------------------
(***************************************************************************)
(* Proofs about Refund, for any fares, tips, price, threads and bounds.     *)
(* RefundInv adds to the properties what a thread holds between two awaits: *)
(* payments with something left when they were read, a refund that is out   *)
(* and that no other thread is about to send, an answer the rail stands by. *)
(* What was sent back is counted cent by cent: a sum as a cardinality.       *)
(***************************************************************************)
EXTENDS Refund, FiniteSetTheorems, TLAPS

USE RefundAssumption

Sent == {"rail", "uid", "settle"}
Out == {"APPROVED", "COMPLETED", "REJECTED"}

FareWentBack ==
  \E r \in Refunds : refund[r].payment \in Fares /\ refund[r].status = "COMPLETED"

\* What is left of a list: of one kind of payment, and with something to refund.
ListOK(j) ==
  /\ j.kind # "none"
  /\ j.todo \subseteq (IF j.kind = "tip" THEN Tips ELSE Fares)
  /\ \A p \in j.todo :
       IF j.kind = "approve"
       THEN /\ j.id \in Refunds /\ refund[j.id].status # "none"
            /\ refund[j.id].payment = p
            /\ refund[j.id].cents <= Price - j.seen[p]
       ELSE j.seen[p] < Price

\* A refund that was claimed, and what is known of its reverse.
SentOK(j) ==
  /\ j.id \in Refunds /\ refund[j.id].status \in Out
  /\ j.kind # "tip" => refund[j.id].payment \in Fares
  /\ j.at = "rail" => refund[j.id].status = "APPROVED" /\ rail[j.id] = "none"
  /\ j.at = "uid" => j.verdict \in {"PENDING", "CONFIRMED"}
  /\ j.at = "settle" => j.verdict \in Verdicts
  /\ j.at # "rail" /\ j.verdict \in Verdicts => rail[j.id] = j.verdict

JobOK(j) ==
  /\ j.at \in Sent \cup {"claim"} => ListOK(j)
  /\ j.at \in Sent => SentOK(j)
  /\ j.at = "tips" \/ j.kind = "tip" => FareWentBack

\* Who is about to ask the rail is alone with his refund.
Alone ==
  \A v, w \in Threads :
    v # w /\ job[v].at = "rail" /\ job[w].at \in Sent => job[v].id # job[w].id

RowOK(r) ==
  /\ refund[r].status # "none" => refund[r].payment \in Payments /\ refund[r].cents # 0
  /\ refund[r].status = "PENDING" => refund[r].payment \in Fares
  /\ refund[r].status \notin Out => rail[r] = "none"
  /\ replica.refund[r].status = "PENDING" =>
       /\ refund[r].status # "none" /\ refund[r].payment \in Fares
       /\ refund[r].payment = replica.refund[r].payment

RefundInv ==
  /\ TypeOK
  /\ \A w \in Threads : JobOK(job[w])
  /\ \A r \in Refunds : RowOK(r)
  /\ Alone /\ VerdictIsTheRails /\ TipFollowsFare

-----------------------------------------------------------------------------
(* What a step does to the rows.                                            *)

Others(r) == \A q \in Refunds \ {r} : refund'[q] = refund[q]
MoneyKept == \A p \in Payments : payment'[p].refunded = payment[p].refunded

\* Nothing but a uid, and the status of payments nobody refunds.
Quiet ==
  /\ \A q \in Refunds : \E uid \in BOOLEAN : refund'[q] = [refund[q] EXCEPT !.uid = uid]
  /\ MoneyKept /\ told' = told
Asked(r) ==
  /\ refund[r].status = "none"
  /\ refund'[r].status = "PENDING" /\ refund'[r].payment \in Fares
  /\ refund'[r].cents \in Nat \ {0} /\ refund'[r].key = "none"
  /\ Others(r) /\ MoneyKept /\ UNCHANGED <<told, rail>>
Refused(r) ==
  /\ refund[r].status = "PENDING"
  /\ refund' = [refund EXCEPT ![r].status = "REJECTED"]
  /\ Others(r) /\ MoneyKept /\ UNCHANGED <<told, rail>>
Reserved(r, to) ==
  /\ \/ refund[r].status = "none"
     \/ /\ refund[r].status = "PENDING" /\ refund'[r].payment = refund[r].payment
        /\ refund'[r].cents = refund[r].cents
  /\ LET p == refund'[r].payment IN
     /\ p \in Payments
     /\ payment' = [payment EXCEPT ![p] = Books(@.refunded + refund'[r].cents)]
     /\ payment'[p].refunded <= Price
     /\ to = "COMPLETED" => InCash(p)
  /\ refund'[r].status = to /\ refund'[r].cents \in Nat \ {0}
  /\ refund'[r].key = "tip" => FareWentBack
  /\ told' = IF to = "COMPLETED" THEN [told EXCEPT ![r] = @ + 1] ELSE told
  /\ Others(r) /\ rail' = rail
Ended(r, to) ==
  /\ refund[r].status = "APPROVED"
  /\ refund' = [refund EXCEPT ![r].status = to]
  /\ \/ /\ to = "COMPLETED" /\ rail[r] = "CONFIRMED" /\ payment' = payment
        /\ told' = [told EXCEPT ![r] = @ + 1]
     \/ /\ to = "REJECTED" /\ rail[r] = "REJECTED" /\ told' = told
        /\ payment' = [payment EXCEPT ![refund[r].payment] =
                         Books(@.refunded - refund[r].cents)]
  /\ Others(r) /\ rail' = rail
\* The rail learns of a reverse that was asked for, or decides it.
RailMoves(r) ==
  /\ rail[r] \notin Verdicts /\ rail' = [rail EXCEPT ![r] = rail'[r]]
  /\ \/ refund[r].status = "APPROVED"
     \/ refund[r].status = "COMPLETED" /\ InCash(refund[r].payment)
  /\ UNCHANGED <<payment, refund, told>>
RowsMove ==
  \/ Quiet
  \/ \E r \in Refunds :
       \/ Asked(r) \/ Refused(r)
       \/ \E to \in {"APPROVED", "COMPLETED"} : Reserved(r, to)
       \/ \E to \in {"COMPLETED", "REJECTED"} : Ended(r, to)

Steps ==
  /\ cash' = cash
  /\ \/ RowsMove /\ rail' = rail
     \/ \E r \in Refunds : RailMoves(r)
  /\ \/ replica' = replica
     \/ replica' = [payment |-> payment, refund |-> refund] /\ refund' = refund

LEMMA IdleIsJob == Idle \in Jobs /\ Idle.at = "idle" /\ Idle.kind = "none"
BY DEF Idle, Jobs, Cents

LEMMA QuietRows ==
  ASSUME TypeOK, UNCHANGED <<refund, told>>, MoneyKept PROVE Quiet
<1> SUFFICES ASSUME NEW q \in Refunds
             PROVE  \E uid \in BOOLEAN : refund'[q] = [refund[q] EXCEPT !.uid = uid]
  BY DEF Quiet
<1>1. refund[q] \in RefundRows
  BY DEF TypeOK
<1>2. refund[q] = [refund[q] EXCEPT !.uid = refund[q].uid] /\ refund[q].uid \in BOOLEAN
  BY <1>1 DEF RefundRows
<1> QED BY <1>2

LEMMA CancelKeepsMoney ==
  ASSUME TypeOK, NEW P, CancelUncaptured(P) PROVE MoneyKept
<1> SUFFICES ASSUME NEW p \in Payments PROVE payment'[p].refunded = payment[p].refunded
  BY DEF MoneyKept
<1>1. payment[p] \in PaymentRows
  BY DEF TypeOK
<1>2. payment'[p] \in {payment[p], [payment[p] EXCEPT !.status = "FAILED"]}
  BY DEF CancelUncaptured
<1> QED BY <1>1, <1>2 DEF PaymentRows

\* The amount of a claim is positive, and there is room for it.
LEMMA AmountFits ==
  ASSUME RefundInv, NEW w \in Threads, NEW p \in Payments,
         job[w].at = "claim", p \in job[w].todo
  PROVE  /\ Amount(w, p) \in Nat \ {0}
         /\ job[w].seen[p] + Amount(w, p) <= Price
         /\ job[w].seen[p] \in Int
<1>1. ListOK(job[w]) /\ job[w] \in Jobs /\ refund \in [Refunds -> RefundRows]
  BY DEF RefundInv, JobOK, TypeOK
<1>2. job[w].seen[p] \in Int /\ job[w].seen[p] <= Price
  BY <1>1 DEF Jobs, Cents
<1>3. CASE job[w].kind = "approve"
  <2>1. /\ job[w].id \in Refunds /\ refund[job[w].id].status # "none"
        /\ refund[job[w].id].cents <= Price - job[w].seen[p]
    BY <1>1, <1>3 DEF ListOK
  <2>2. refund[job[w].id].cents \in Nat \ {0}
    BY <2>1, <1>1 DEF RefundInv, RowOK, RefundRows
  <2> QED BY <1>2, <1>3, <2>1, <2>2 DEF Amount
<1>4. CASE job[w].kind # "approve"
  <2>1. job[w].seen[p] < Price
    BY <1>1, <1>4 DEF ListOK
  <2> QED BY <1>2, <1>4, <2>1 DEF Amount
<1> QED BY <1>3, <1>4

LEMMA BooksTell ==
  ASSUME NEW n \in Int, n <= Price
  PROVE  Books(n) \in PaymentRows /\ Books(n).refunded = n
BY DEF Books, PaymentRows, Cents

\* A claim that is won reserves; one that is lost changes no row.
LEMMA ClaimRows ==
  ASSUME RefundInv, NEW w \in Threads, NEW p \in Payments, Claim(w, p)
  PROVE  \/ UNCHANGED <<payment, refund, told, rail>>
         \/ \E r \in Refunds :
              /\ p = refund'[r].payment /\ Reserved(r, refund'[r].status)
              /\ job[w].kind = "approve" => r = job[w].id
              /\ \/ InCash(p) /\ refund'[r].status = "COMPLETED" /\ Go(w, After(w, p))
                 \/ /\ refund'[r].status = "APPROVED"
                    /\ Go(w, [job[w] EXCEPT !.at = "rail", !.id = r])
<1>t. /\ refund \in [Refunds -> RefundRows] /\ payment \in [Payments -> PaymentRows]
      /\ ListOK(job[w]) /\ (job[w].kind = "tip" => FareWentBack)
  BY DEF RefundInv, JobOK, TypeOK, Claim
<1>a. /\ Amount(w, p) \in Nat \ {0} /\ job[w].seen[p] + Amount(w, p) <= Price
      /\ job[w].seen[p] \in Int /\ p \in job[w].todo /\ rail' = rail
  BY AmountFits DEF Claim
<1>1. ASSUME NEW r \in Refunds, NEW to \in {"APPROVED", "COMPLETED"},
             CanReserve(w, p), Materializes(w, p, r), Claimed(w, p, r, to),
             to = "COMPLETED" => InCash(p),
             told' = IF to = "COMPLETED" THEN [told EXCEPT ![r] = @ + 1] ELSE told
      PROVE  /\ p = refund'[r].payment /\ refund'[r].status = to /\ Reserved(r, to)
             /\ job[w].kind = "approve" => r = job[w].id
  <2>1. refund'[r] = [status |-> to, payment |-> p, cents |-> Amount(w, p), uid |-> FALSE,
                      key |-> IF job[w].kind = "approve" THEN "none" ELSE job[w].kind]
    BY <1>1, <1>t DEF Claimed
  <2>2. Others(r)
    BY <1>1, <1>t DEF Claimed, Others
  <2>3. /\ payment[p].refunded = job[w].seen[p]
        /\ payment' = [payment EXCEPT ![p] = Books(@.refunded + refund'[r].cents)]
    <3>1. refund'[r].cents = Amount(w, p)
      BY <2>1
    <3>2. payment[p].refunded = job[w].seen[p]
      BY <1>1 DEF CanReserve
    <3>3. payment' = [payment EXCEPT ![p] = Books(job[w].seen[p] + Amount(w, p))]
      BY <1>1 DEF Claimed
    <3> HIDE DEF Books, Amount
    <3> QED BY <3>1, <3>2, <3>3, <1>t
  <2>4. payment'[p].refunded <= Price
    <3>1. payment'[p] = Books(job[w].seen[p] + Amount(w, p))
      BY <1>1, <1>t DEF Claimed
    <3> QED BY <3>1, <1>a, BooksTell
  <2>5. CASE job[w].kind = "approve"
    <3>0. r = job[w].id /\ refund[r].status = "PENDING"
      BY <1>1, <2>5 DEF Materializes
    <3>1. /\ Amount(w, p) = refund[r].cents
          /\ refund[r].payment = p
      BY <3>0, <1>t, <1>a, <2>5 DEF Amount, ListOK
    <3>2. /\ refund'[r].payment = p /\ refund'[r].cents = Amount(w, p)
          /\ refund'[r].status = to /\ refund'[r].key = "none"
      BY <2>1, <2>5
    <3> HIDE DEF Books, Amount, FareWentBack
    <3> QED BY <3>0, <1>1, <1>a, <2>2, <2>3, <2>4, <3>1, <3>2 DEF Reserved
  <2>6. CASE job[w].kind # "approve"
    <3>1. refund[r].status = "none"
      BY <1>1, <2>6 DEF Materializes, Fresh
    <3>2. refund'[r].key = "tip" => FareWentBack
      BY <1>t, <2>1, <2>6
    <3>3. refund'[r].payment = p /\ refund'[r].cents = Amount(w, p) /\ refund'[r].status = to
      BY <2>1
    <3> HIDE DEF Books, Amount, FareWentBack
    <3> QED BY <1>1, <1>a, <2>2, <2>3, <2>4, <2>6, <3>1, <3>2, <3>3 DEF Reserved
  <2> QED BY <2>5, <2>6
<1>2. CASE UNCHANGED <<payment, refund, told>>
  BY <1>2, <1>a
<1>3. ASSUME NEW r \in Refunds, CanReserve(w, p), Materializes(w, p, r),
             InCash(p), Claimed(w, p, r, "COMPLETED"), told' = [told EXCEPT ![r] = @ + 1],
             Go(w, After(w, p))
      PROVE  /\ p = refund'[r].payment /\ Reserved(r, refund'[r].status)
             /\ job[w].kind = "approve" => r = job[w].id
             /\ InCash(p) /\ refund'[r].status = "COMPLETED" /\ Go(w, After(w, p))
  BY <1>1, <1>3
<1>4. ASSUME NEW r \in Refunds, CanReserve(w, p), Materializes(w, p, r),
             Claimed(w, p, r, "APPROVED"), told' = told,
             Go(w, [job[w] EXCEPT !.at = "rail", !.id = r])
      PROVE  /\ p = refund'[r].payment /\ Reserved(r, refund'[r].status)
             /\ job[w].kind = "approve" => r = job[w].id
             /\ refund'[r].status = "APPROVED"
             /\ Go(w, [job[w] EXCEPT !.at = "rail", !.id = r])
  BY <1>1, <1>4
<1> QED BY <1>2, <1>3, <1>4 DEF Claim

\* What the answer of the rail does to a refund, once.
LEMMA ResolveRows ==
  ASSUME RefundInv, NEW r \in Refunds, Resolve(r, rail[r]), rail' = rail, refund[r].status \in Out
  PROVE  /\ RowsMove
         /\ refund'[r].status = "COMPLETED" <=>
              \/ refund[r].status = "COMPLETED"
              \/ refund[r].status = "APPROVED" /\ rail[r] = "CONFIRMED"
<1>t. refund \in [Refunds -> RefundRows] /\ TypeOK
  BY DEF RefundInv, TypeOK
<1>1. CASE refund[r].status # "APPROVED"
  <2>1. UNCHANGED <<payment, refund, told>>
    BY <1>1 DEF Resolve
  <2>2. Quiet
    BY <1>t, <2>1, QuietRows DEF MoneyKept
  <2> QED BY <2>1, <2>2, <1>1 DEF RowsMove
<1>2. CASE refund[r].status = "APPROVED"
  <2>1. PICK to \in {"COMPLETED", "REJECTED"} :
          /\ rail[r] = IF to = "COMPLETED" THEN "CONFIRMED" ELSE "REJECTED"
          /\ refund' = [refund EXCEPT ![r].status = to]
    BY <1>2 DEF Resolve
  <2>2. refund'[r].status = to /\ Others(r)
    BY <2>1, <1>t DEF Others
  <2>3. Ended(r, to)
    BY <1>2, <2>1, <2>2 DEF Ended, Resolve
  <2> QED BY <1>2, <2>1, <2>2, <2>3 DEF RowsMove
<1> QED BY <1>1, <1>2

LEMMA RailStep ==
  ASSUME RefundInv, NEW w \in Threads, job[w].at = "rail", NEW what,
         rail' = [rail EXCEPT ![job[w].id] = what],
         UNCHANGED <<payment, refund, told>>
  PROVE  job[w].id \in Refunds /\ RailMoves(job[w].id)
<1>1. /\ job[w].id \in Refunds /\ refund[job[w].id].status = "APPROVED"
      /\ rail[job[w].id] = "none"
  BY DEF RefundInv, JobOK, SentOK, Sent
<1>2. rail' = [rail EXCEPT ![job[w].id] = rail'[job[w].id]]
  BY <1>1 DEF RefundInv, TypeOK
<1> QED BY <1>1, <1>2 DEF RailMoves, Verdicts

\* Every step moves rows or the rail, in one of the ways above.
LEMMA EveryStep ==
  ASSUME RefundInv, [Next]_vars PROVE Steps
<1>t. TypeOK /\ refund \in [Refunds -> RefundRows]
  BY DEF RefundInv, TypeOK
<1>q. ASSUME UNCHANGED <<refund, told>>, MoneyKept, cash' = cash, rail' = rail,
             \/ replica' = replica
             \/ replica' = [payment |-> payment, refund |-> refund]
      PROVE  Steps
  BY <1>q, <1>t, QuietRows DEF Steps, RowsMove
<1>r. ASSUME NEW r \in Refunds, RailMoves(r), cash' = cash, replica' = replica PROVE Steps
  BY <1>r DEF Steps
<1>1. ASSUME NEW r \in Refunds, RejectRefund(r) PROVE Steps
  <2>1. Refused(r)
    BY <1>1, <1>t DEF RejectRefund, Refused, Others, MoneyKept
  <2> QED BY <1>1, <2>1 DEF RejectRefund, Steps, RowsMove
<1>2. ASSUME NEW r \in Refunds, NEW p \in Fares, NEW cents \in 1..Price,
             RequestRefund(r, p, cents)
      PROVE  Steps
  <2>1. Asked(r)
    BY <1>2, <1>t DEF RequestRefund, Asked, Others, MoneyKept, Fresh
  <2> QED BY <1>2, <2>1 DEF RequestRefund, Steps, RowsMove
<1>3. ASSUME NEW w \in Workers, Start(w) PROVE Steps
  <2>1. CASE StartFailure(w)
    BY <2>1, <1>q, <1>t, CancelKeepsMoney DEF StartFailure
  <2>2. CASE \E r \in Refunds : StartApprove(w, r)
    BY <2>2, <1>q DEF StartApprove, MoneyKept
  <2>3. CASE \E p \in Fares : StartCancel(w, p)
    BY <2>3, <1>q DEF StartCancel, MoneyKept
  <2> QED BY <1>3, <2>1, <2>2, <2>3 DEF Start
<1>4. ASSUME NEW w \in Threads, ListTips(w) \/ Finish(w) PROVE Steps
  BY <1>4, <1>q, <1>t, CancelKeepsMoney DEF ListTips, Finish, MoneyKept
<1>5. ASSUME NEW w \in Threads, NEW p \in Payments, Claim(w, p) PROVE Steps
  <2>1. cash' = cash /\ replica' = replica /\ rail' = rail
    BY <1>5 DEF Claim
  <2>2. CASE UNCHANGED <<payment, refund, told, rail>>
    BY <2>1, <2>2, <1>q DEF MoneyKept
  <2>3. CASE \E r \in Refunds, to \in {"APPROVED", "COMPLETED"} : Reserved(r, to)
    BY <2>1, <2>3 DEF Steps, RowsMove
  <2> QED BY <1>5, <2>2, <2>3, ClaimRows
<1>6. ASSUME NEW w \in Threads, AskTheRail(w) PROVE Steps
  BY <1>6, <1>r, RailStep DEF AskTheRail
<1>7. ASSUME NEW w \in Threads, StoreUid(w) PROVE Steps
  <2>1. refund' = [refund EXCEPT ![job[w].id].uid = TRUE]
    BY <1>7 DEF StoreUid
  <2>2. ASSUME NEW q \in Refunds
        PROVE  \E uid \in BOOLEAN : refund'[q] = [refund[q] EXCEPT !.uid = uid]
    <3>1. refund[q] = [refund[q] EXCEPT !.uid = refund[q].uid] /\ refund[q].uid \in BOOLEAN
      BY <1>t DEF RefundRows
    <3>2. CASE q = job[w].id
      BY <2>1, <3>2, <1>t
    <3>3. CASE q # job[w].id
      BY <2>1, <3>1, <3>3, <1>t
    <3> QED BY <3>2, <3>3
  <2>3. Quiet
    BY <1>7, <2>2 DEF StoreUid, Quiet, MoneyKept
  <2> QED BY <1>7, <2>3 DEF StoreUid, Steps, RowsMove
<1>8. ASSUME NEW w \in Threads, Settle(w) PROVE Steps
  <2>1. /\ job[w].id \in Refunds /\ refund[job[w].id].status \in Out
        /\ rail[job[w].id] = job[w].verdict
    BY <1>8 DEF RefundInv, JobOK, SentOK, Sent, Settle
  <2>2. Resolve(job[w].id, rail[job[w].id]) /\ UNCHANGED <<cash, replica, rail>>
    BY <1>8, <2>1 DEF Settle
  <2> QED BY <2>1, <2>2, ResolveRows DEF Steps
<1>9. ASSUME NEW w \in Receivers, NEW r \in Refunds, Callback(w, r) PROVE Steps
  <2>1. refund[r].status \in Out
    BY <1>9 DEF RefundInv, RowOK, Callback, Verdicts
  <2> QED BY <1>9, <2>1, ResolveRows DEF Steps, Callback, Apply
<1>10. ASSUME World PROVE Steps
  <2>1. ASSUME NEW p \in Payments, Capture(p) PROVE Steps
    <3>1. MoneyKept
      BY <2>1, <1>t DEF Capture, MoneyKept, TypeOK, PaymentRows
    <3> QED BY <2>1, <3>1, <1>q DEF Capture
  <2>2. ASSUME Replicate PROVE Steps
    BY <2>2, <1>q DEF Replicate, MoneyKept
  <2>3. ASSUME NEW r \in Refunds, Reverse(r) PROVE Steps
    <3>1. rail[r] = "pending" /\ rail' = [rail EXCEPT ![r] = rail'[r]]
      BY <2>3 DEF Reverse, RefundInv, TypeOK
    <3>2. \/ refund[r].status = "APPROVED"
          \/ refund[r].status = "COMPLETED" /\ InCash(refund[r].payment)
      BY <3>1 DEF RefundInv, RowOK, Out, VerdictIsTheRails
    <3> QED BY <2>3, <3>1, <3>2, <1>r DEF Reverse, RailMoves, Verdicts
  <2>4. ASSUME NEW w \in Threads, Crash(w) PROVE Steps
    <3>1. CASE rail' = rail
      BY <2>4, <3>1, <1>q DEF Crash, MoneyKept
    <3>2. CASE job[w].at = "rail" /\ rail' = [rail EXCEPT ![job[w].id] = "pending"]
      BY <2>4, <3>2, <1>r, RailStep DEF Crash
    <3> QED BY <2>4, <3>1, <3>2 DEF Crash
  <2> QED BY <1>10, <2>1, <2>2, <2>3, <2>4 DEF World
<1>11. CASE UNCHANGED vars
  BY <1>11, <1>q DEF vars, MoneyKept
<1> QED BY <1>1, <1>2, <1>3, <1>4, <1>5, <1>6, <1>7, <1>8, <1>9, <1>10, <1>11
        DEF Next, Queue, Serve

-----------------------------------------------------------------------------
(* What the rows and the rail keep.                                         *)

\* A refund keeps what it is of, and what it was once out for; one that the rail
\* does not know is not ended, and the rail stands by what it decided.
Grown(q) ==
  /\ refund[q].status # "none" =>
       /\ refund'[q].status # "none"
       /\ refund'[q].payment = refund[q].payment /\ refund'[q].cents = refund[q].cents
  /\ refund[q].status \in Out => refund'[q].status \in Out
  /\ refund[q].status = "COMPLETED" => refund'[q].status = "COMPLETED"
  /\ refund[q].status = "APPROVED" /\ rail[q] = "none" => refund'[q].status = "APPROVED"
  /\ rail[q] \in Verdicts => rail'[q] = rail[q]

LEMMA RowsGrow ==
  ASSUME RefundInv, Steps, NEW q \in Refunds PROVE Grown(q)
<1>t. refund \in [Refunds -> RefundRows] /\ rail \in [Refunds -> {"none", "pending"} \cup Verdicts]
  BY DEF RefundInv, TypeOK
<1>0. ASSUME refund'[q] = refund[q], rail'[q] = rail[q] PROVE Grown(q)
  BY <1>0 DEF Grown
<1>1. ASSUME NEW r \in Refunds, RailMoves(r) PROVE Grown(q)
  <2>1. CASE q = r
    BY <1>1, <2>1 DEF RailMoves, Grown
  <2>2. CASE q # r
    BY <1>1, <2>2, <1>0, <1>t DEF RailMoves
  <2> QED BY <2>1, <2>2
<1>2. ASSUME Quiet, rail' = rail PROVE Grown(q)
  <2>1. PICK uid \in BOOLEAN : refund'[q] = [refund[q] EXCEPT !.uid = uid]
    BY <1>2 DEF Quiet
  <2>2. /\ refund'[q].status = refund[q].status /\ refund'[q].payment = refund[q].payment
        /\ refund'[q].cents = refund[q].cents
    BY <2>1, <1>t DEF RefundRows
  <2> QED BY <1>2, <2>2 DEF Grown
<1>3. ASSUME NEW r \in Refunds, rail' = rail, Asked(r) PROVE Grown(q)
  <2>1. CASE q = r
    BY <1>3, <2>1 DEF Asked, Grown, Out
  <2>2. CASE q # r
    BY <1>3, <2>2, <1>0 DEF Asked, Others
  <2> QED BY <2>1, <2>2
<1>4. ASSUME NEW r \in Refunds, rail' = rail, Refused(r) PROVE Grown(q)
  <2>1. CASE q = r
    <3>1. refund'[q] = [refund[q] EXCEPT !.status = "REJECTED"]
      BY <1>4, <2>1, <1>t DEF Refused
    <3> QED BY <1>4, <2>1, <3>1, <1>t DEF Refused, Grown, Out, RefundRows
  <2>2. CASE q # r
    BY <1>4, <2>2, <1>0 DEF Refused, Others
  <2> QED BY <2>1, <2>2
<1>5. ASSUME NEW r \in Refunds, NEW to \in {"APPROVED", "COMPLETED"}, rail' = rail, Reserved(r, to)
      PROVE  Grown(q)
  <2>1. CASE q = r
    BY <1>5, <2>1 DEF Reserved, Grown, Out
  <2>2. CASE q # r
    BY <1>5, <2>2, <1>0 DEF Reserved, Others
  <2> QED BY <2>1, <2>2
<1>6. ASSUME NEW r \in Refunds, NEW to \in {"COMPLETED", "REJECTED"}, rail' = rail, Ended(r, to)
      PROVE  Grown(q)
  <2>1. CASE q = r
    <3>1. refund'[q] = [refund[q] EXCEPT !.status = to]
      BY <1>6, <2>1, <1>t DEF Ended
    <3>2. refund'[q].payment = refund[q].payment /\ refund'[q].cents = refund[q].cents
          /\ refund'[q].status = to
      BY <3>1, <1>t DEF RefundRows
    <3> QED BY <1>6, <2>1, <3>2 DEF Ended, Grown, Out
  <2>2. CASE q # r
    BY <1>6, <2>2, <1>0 DEF Ended, Others
  <2> QED BY <2>1, <2>2
<1> QED BY <1>1, <1>2, <1>3, <1>4, <1>5, <1>6 DEF Steps, RowsMove

LEMMA FareStaysBack ==
  ASSUME RefundInv, Steps, FareWentBack PROVE FareWentBack'
<1>1. PICK r \in Refunds : refund[r].payment \in Fares /\ refund[r].status = "COMPLETED"
  BY DEF FareWentBack
<1>2. refund'[r].payment \in Fares /\ refund'[r].status = "COMPLETED"
  BY <1>1, RowsGrow DEF Grown
<1> QED BY <1>2 DEF FareWentBack

\* What RefundInv says of one refund, but for the replica.
RowFacts(r) ==
  /\ refund[r].status # "none" => refund[r].payment \in Payments /\ refund[r].cents # 0
  /\ refund[r].status = "PENDING" => refund[r].payment \in Fares
  /\ refund[r].status \notin Out => rail[r] = "none"
  /\ refund[r].status = "COMPLETED" => InCash(refund[r].payment) \/ rail[r] = "CONFIRMED"
  /\ refund[r].status = "REJECTED" => rail[r] \in {"none", "REJECTED"}
  /\ refund[r].key = "tip" => FareWentBack

LEMMA FactsStep ==
  ASSUME RefundInv, Steps, NEW q \in Refunds PROVE RowFacts(q)'
<1>t. /\ refund \in [Refunds -> RefundRows] /\ cash' = cash
      /\ rail \in [Refunds -> {"none", "pending"} \cup Verdicts]
      /\ FareWentBack => FareWentBack'
  BY FareStaysBack DEF RefundInv, TypeOK, Steps
<1>f. RowFacts(q)
  BY DEF RefundInv, RowOK, VerdictIsTheRails, TipFollowsFare, FareWentBack, RowFacts
<1> HIDE DEF FareWentBack
<1>0. ASSUME refund'[q].status = refund[q].status, refund'[q].payment = refund[q].payment,
             refund'[q].cents = refund[q].cents, refund'[q].key = refund[q].key,
             rail'[q] = rail[q]
      PROVE  RowFacts(q)'
  BY <1>0, <1>t, <1>f DEF RowFacts, InCash
<1>1. ASSUME NEW r \in Refunds, RailMoves(r) PROVE RowFacts(q)'
  <2>1. CASE q = r
    BY <1>1, <2>1, <1>t, <1>f DEF RailMoves, RowFacts, InCash, Out
  <2>2. CASE q # r
    BY <1>1, <2>2, <1>0, <1>t DEF RailMoves
  <2> QED BY <2>1, <2>2
<1>2. ASSUME Quiet, rail' = rail PROVE RowFacts(q)'
  <2>1. PICK uid \in BOOLEAN : refund'[q] = [refund[q] EXCEPT !.uid = uid]
    BY <1>2 DEF Quiet
  <2>2. /\ refund'[q].status = refund[q].status /\ refund'[q].payment = refund[q].payment
        /\ refund'[q].cents = refund[q].cents /\ refund'[q].key = refund[q].key
    BY <2>1, <1>t DEF RefundRows
  <2> QED BY <1>0, <1>2, <2>2
<1>3. ASSUME NEW r \in Refunds, rail' = rail, Asked(r) PROVE RowFacts(q)'
  <2>1. CASE q = r
    <3>1. rail[q] = "none"
      BY <1>3, <2>1, <1>f DEF Asked, RowFacts, Out
    <3> QED BY <1>3, <2>1, <3>1 DEF Asked, RowFacts, Out, Payments
  <2>2. CASE q # r
    BY <1>3, <2>2, <1>0 DEF Asked, Others
  <2> QED BY <2>1, <2>2
<1>4. ASSUME NEW r \in Refunds, rail' = rail, Refused(r) PROVE RowFacts(q)'
  <2>1. CASE q = r
    <3>1. refund'[q] = [refund[q] EXCEPT !.status = "REJECTED"]
      BY <1>4, <2>1, <1>t DEF Refused
    <3>2. /\ refund'[q].status = "REJECTED" /\ refund'[q].payment = refund[q].payment
          /\ refund'[q].cents = refund[q].cents /\ refund'[q].key = refund[q].key
      BY <3>1, <1>t DEF RefundRows
    <3> QED BY <1>4, <2>1, <3>2, <1>t, <1>f DEF Refused, RowFacts, Out
  <2>2. CASE q # r
    BY <1>4, <2>2, <1>0 DEF Refused, Others
  <2> QED BY <2>1, <2>2
<1>5. ASSUME NEW r \in Refunds, NEW to \in {"APPROVED", "COMPLETED"}, rail' = rail, Reserved(r, to)
      PROVE  RowFacts(q)'
  <2>1. CASE q = r
    <3>1. rail[q] = "none"
      BY <1>5, <2>1, <1>f DEF Reserved, RowFacts, Out
    <3>2. /\ refund'[q].payment \in Payments /\ refund'[q].cents # 0 /\ refund'[q].status = to
          /\ to = "COMPLETED" => InCash(refund'[q].payment)
          /\ refund'[q].key = "tip" => FareWentBack
      BY <1>5, <2>1 DEF Reserved
    <3> QED BY <1>5, <3>1, <3>2, <1>t DEF RowFacts, Out, InCash
  <2>2. CASE q # r
    BY <1>5, <2>2, <1>0 DEF Reserved, Others
  <2> QED BY <2>1, <2>2
<1>6. ASSUME NEW r \in Refunds, NEW to \in {"COMPLETED", "REJECTED"}, rail' = rail, Ended(r, to)
      PROVE  RowFacts(q)'
  <2>1. CASE q = r
    <3>1. refund'[q] = [refund[q] EXCEPT !.status = to]
      BY <1>6, <2>1, <1>t DEF Ended
    <3>2. /\ refund'[q].status = to /\ refund'[q].payment = refund[q].payment
          /\ refund'[q].cents = refund[q].cents /\ refund'[q].key = refund[q].key
      BY <3>1, <1>t DEF RefundRows
    <3> QED BY <1>6, <2>1, <3>2, <1>t, <1>f DEF Ended, RowFacts, Out
  <2>2. CASE q # r
    BY <1>6, <2>2, <1>0 DEF Ended, Others
  <2> QED BY <2>1, <2>2
<1> QED BY <1>1, <1>2, <1>3, <1>4, <1>5, <1>6 DEF Steps, RowsMove

\* The three parts of RefundInv that are about rows alone.
LEMMA RowsStep ==
  ASSUME RefundInv, Steps
  PROVE  (\A r \in Refunds : RowOK(r))' /\ VerdictIsTheRails' /\ TipFollowsFare'
<1>1. ASSUME NEW q \in Refunds PROVE RowOK(q)'
  <2>1. RowFacts(q)' /\ Grown(q) /\ RowOK(q)
    BY FactsStep, RowsGrow DEF RefundInv
  <2>2. CASE replica' = replica
    BY <2>1, <2>2 DEF RowFacts, RowOK, Grown
  <2>3. CASE replica' = [payment |-> payment, refund |-> refund] /\ refund' = refund
    BY <2>1, <2>3 DEF RowFacts, RowOK
  <2> QED BY <2>2, <2>3 DEF Steps
<1>2. VerdictIsTheRails' /\ TipFollowsFare'
  BY FactsStep DEF RowFacts, VerdictIsTheRails, TipFollowsFare, FareWentBack
<1> QED BY <1>1, <1>2

-----------------------------------------------------------------------------
(* What the threads hold.                                                   *)

\* What a thread holds stays true while others move.
LEMMA JobKept ==
  ASSUME RefundInv, Steps, NEW v \in Threads, job'[v] = job[v],
         job[v].at = "rail" => rail'[job[v].id] = rail[job[v].id]
  PROVE  JobOK(job[v])'
<1>1. JobOK(job[v]) /\ (FareWentBack => FareWentBack')
  BY FareStaysBack DEF RefundInv
<1>2. ASSUME job[v].at \in Sent \cup {"claim"} PROVE ListOK(job[v])'
  <2>1. ListOK(job[v])
    BY <1>1, <1>2 DEF JobOK
  <2>2. ASSUME NEW p \in job[v].todo, job[v].kind = "approve"
        PROVE  /\ job[v].id \in Refunds /\ refund'[job[v].id].status # "none"
               /\ refund'[job[v].id].payment = p
               /\ refund'[job[v].id].cents <= Price - job[v].seen[p]
    BY <2>1, <2>2, RowsGrow DEF ListOK, Grown
  <2> QED BY <2>1, <2>2 DEF ListOK
<1>3. ASSUME job[v].at \in Sent PROVE SentOK(job[v])'
  <2>1. SentOK(job[v]) /\ Grown(job[v].id)
    BY <1>1, <1>3, RowsGrow DEF JobOK, SentOK
  <2> QED BY <2>1 DEF SentOK, Grown, Out, Verdicts
<1> HIDE DEF FareWentBack, ListOK, SentOK
<1> QED BY <1>1, <1>2, <1>3 DEF JobOK

\* One thread steps: what it holds is right, it is about to ask the rail only for
\* a refund that was not out before, and it leaves that of the others alone.
Mine(w) ==
  /\ \A v \in Threads \ {w} : job'[v] = job[v]
  /\ JobOK(job[w])'
  /\ job'[w].at \in Sent =>
       \/ /\ job[w].at \in Sent /\ job'[w].id = job[w].id
          /\ job'[w].at = "rail" => job[w].at = "rail"
       \/ refund[job'[w].id].status \notin Out
  /\ \/ rail' = rail
     \/ job[w].at = "rail" /\ \E what : rail' = [rail EXCEPT ![job[w].id] = what]

\* Skipping a payment leaves a shorter list.
LEMMA SkipMine ==
  ASSUME RefundInv, Steps, NEW w \in Threads, NEW p,
         job[w].at \in Sent \cup {"claim"},
         Go(w, Skip(w, p)) \/ Go(w, Abort(w, p)) \/ Go(w, Idle),
         \/ rail' = rail
         \/ job[w].at = "rail" /\ \E what : rail' = [rail EXCEPT ![job[w].id] = what]
  PROVE  Mine(w)
<1>t. /\ job \in [Threads -> Jobs] /\ ListOK(job[w])
      /\ job[w].kind = "tip" => FareWentBack'
  BY FareStaysBack DEF RefundInv, TypeOK, JobOK
<1>1. \A v \in Threads \ {w} : job'[v] = job[v]
  BY <1>t DEF Go
<1>2. CASE job'[w] = Idle
  <2>1. job'[w].at = "idle" /\ job'[w].kind = "none"
    BY <1>2, IdleIsJob
  <2> QED BY <1>1, <2>1 DEF Mine, JobOK, Sent
<1>3. CASE /\ job[w].kind \in {"failed", "tip"}
           /\ job'[w] = [job[w] EXCEPT !.at = "claim", !.todo = @ \ {p}, !.id = 0,
                                        !.verdict = "none"]
  <2>1. /\ job'[w].at = "claim" /\ job'[w].kind = job[w].kind
        /\ job'[w].todo \subseteq job[w].todo /\ job'[w].seen = job[w].seen
    BY <1>3, <1>t DEF Jobs
  <2>2. ListOK(job[w])'
    BY <2>1, <1>3, <1>t DEF ListOK
  <2> HIDE DEF ListOK, FareWentBack
  <2> QED BY <1>1, <1>t, <2>1, <2>2 DEF Mine, JobOK, Sent
<1>4. job'[w] \in {Skip(w, p), Abort(w, p), Idle}
  BY <1>t DEF Go
<1> HIDE DEF Idle
<1> QED BY <1>2, <1>3, <1>4 DEF Skip, Abort

\* After a refund that is complete: the tips, or the rest of the list.
LEMMA AfterMine ==
  ASSUME RefundInv, Steps, NEW w \in Threads, NEW p,
         job[w].at \in Sent \cup {"claim"}, Go(w, After(w, p)), rail' = rail,
         job[w].kind \in {"approve", "cancel"} => FareWentBack'
  PROVE  Mine(w)
<1>1. CASE Go(w, Skip(w, p))
  BY <1>1, SkipMine
<1>2. CASE /\ job[w].kind \in {"approve", "cancel"}
           /\ Go(w, [Idle EXCEPT !.at = "tips"])
  <2>1. job'[w].at = "tips" /\ job'[w].kind = "none"
    BY <1>2 DEF Go, Idle, RefundInv, TypeOK
  <2>2. \A v \in Threads \ {w} : job'[v] = job[v]
    BY <1>2 DEF Go, RefundInv, TypeOK
  <2> HIDE DEF FareWentBack
  <2> QED BY <1>2, <2>1, <2>2 DEF Mine, JobOK, Sent
<1> QED BY <1>1, <1>2 DEF After

\* A list that was just read in the replica.
LEMMA StartMine ==
  ASSUME RefundInv, Steps, UNCHANGED <<refund, rail>>, NEW w \in Threads,
         NEW kind \in {"approve", "cancel", "failed", "tip"}, NEW id, NEW P,
         P \subseteq (IF kind = "tip" THEN Tips ELSE Fares),
         \A p \in P : IF kind = "approve"
                      THEN /\ id \in Refunds /\ refund[id].status # "none"
                           /\ refund[id].payment = p
                           /\ refund[id].cents <= Price - Seen[p]
                      ELSE Seen[p] < Price,
         kind = "tip" => FareWentBack,
         \A v \in Threads \ {w} : job'[v] = job[v],
         job'[w].at = "claim", job'[w].kind = kind, job'[w].id = id,
         job'[w].todo = P, job'[w].seen = Seen
  PROVE  Mine(w)
<1> HIDE DEF FareWentBack
<1>3. kind = "tip" => FareWentBack'
  BY FareStaysBack
<1>4. ListOK(job[w])'
  BY DEF ListOK
<1> HIDE DEF ListOK
<1> QED BY <1>3, <1>4 DEF Mine, JobOK, Sent

LEMMA ApproveMine ==
  ASSUME RefundInv, Steps, NEW w \in Workers, NEW r \in Refunds, StartApprove(w, r)
  PROVE  Mine(w)
<1> DEFINE p == replica.refund[r].payment
<1>1. /\ refund[r].status # "none" /\ p \in Fares /\ refund[r].payment = p
      /\ refund[r].cents <= Price - Seen[p] /\ UNCHANGED <<refund, rail>>
  BY DEF StartApprove, RefundInv, RowOK
<1>2. /\ job'[w].at = "claim" /\ job'[w].kind = "approve" /\ job'[w].id = r
      /\ job'[w].todo = {p} /\ job'[w].seen = Seen
      /\ \A v \in Threads \ {w} : job'[v] = job[v]
  BY DEF StartApprove, Go, Idle, RefundInv, TypeOK, Threads
<1> HIDE DEF p
<1>3. \A q \in {p} : /\ r \in Refunds /\ refund[r].status # "none"
                     /\ refund[r].payment = q /\ refund[r].cents <= Price - Seen[q]
  BY <1>1
<1> HIDE DEF Seen, FareWentBack
<1>4. w \in Threads /\ {p} \subseteq Fares
  BY <1>1 DEF Threads
<1> QED BY <1>1, <1>2, <1>3, <1>4, StartMine

\* The lists of the system start without a refund at hand.
LEMMA ListMine ==
  ASSUME RefundInv, Steps, UNCHANGED <<refund, rail>>, NEW w \in Threads,
         NEW kind \in {"cancel", "failed", "tip"}, NEW P \in SUBSET Payments,
         P \subseteq Listed(IF kind = "tip" THEN Tips ELSE Fares),
         kind = "tip" => FareWentBack,
         Go(w, [Idle EXCEPT !.at = "claim", !.kind = kind, !.todo = P, !.seen = Seen])
  PROVE  Mine(w)
<1>1. /\ job'[w].at = "claim" /\ job'[w].kind = kind /\ job'[w].id = 0
      /\ job'[w].todo = P /\ job'[w].seen = Seen
      /\ \A v \in Threads \ {w} : job'[v] = job[v]
  BY DEF Go, Idle, RefundInv, TypeOK
<1>2. P \subseteq (IF kind = "tip" THEN Tips ELSE Fares)
  BY DEF Listed
<1>3. \A p \in P : Seen[p] < Price
  BY DEF Listed
<1> HIDE DEF Seen, Idle, FareWentBack
<1> QED BY <1>1, <1>2, <1>3, StartMine

LEMMA ClaimMine ==
  ASSUME RefundInv, Steps, NEW w \in Threads, NEW p \in Payments, Claim(w, p)
  PROVE  Mine(w)
<1>t. /\ job[w].at = "claim" /\ p \in job[w].todo /\ ListOK(job[w]) /\ rail' = rail
      /\ job \in [Threads -> Jobs]
  BY DEF Claim, RefundInv, JobOK, TypeOK
<1>1. CASE UNCHANGED <<payment, refund, told, rail>>
  <2>1. ASSUME NEW r \in Refunds, NEW to \in {"APPROVED", "COMPLETED"}, Materializes(w, p, r),
               Claimed(w, p, r, to)
        PROVE  FALSE
    <3>1. refund'[r].status = to
      BY <2>1 DEF Claimed, RefundInv, TypeOK
    <3>2. refund[r].status \in {"none", "PENDING"}
      BY <2>1 DEF Materializes, Fresh
    <3> QED BY <1>1, <2>1, <3>1, <3>2
  <2>2. Go(w, Skip(w, p)) \/ Go(w, Abort(w, p))
    BY <2>1 DEF Claim
  <2> QED BY <1>t, <2>2, SkipMine
<1>2. ASSUME NEW r \in Refunds, p = refund'[r].payment, Reserved(r, refund'[r].status),
             job[w].kind = "approve" => r = job[w].id,
             InCash(p), refund'[r].status = "COMPLETED", Go(w, After(w, p))
      PROVE  Mine(w)
  <2>1. FareWentBack'
    BY <1>2 DEF InCash, FareWentBack
  <2> QED BY <1>t, <1>2, <2>1, AfterMine
<1>3. ASSUME NEW r \in Refunds, p = refund'[r].payment, Reserved(r, refund'[r].status),
             job[w].kind = "approve" => r = job[w].id,
             refund'[r].status = "APPROVED",
             Go(w, [job[w] EXCEPT !.at = "rail", !.id = r])
      PROVE  Mine(w)
  <2>1. job'[w] = [job[w] EXCEPT !.at = "rail", !.id = r]
    BY <1>3, <1>t DEF Go
  <2>2. /\ job'[w].at = "rail" /\ job'[w].id = r /\ job'[w].kind = job[w].kind
        /\ job'[w].todo = job[w].todo /\ job'[w].seen = job[w].seen
    BY <2>1, <1>t DEF Jobs
  <2>3. \A v \in Threads \ {w} : job'[v] = job[v]
    BY <1>3, <1>t DEF Go
  <2>4. refund[r].status \notin Out /\ rail[r] = "none" /\ Grown(r)
    BY <1>3, RowsGrow DEF Reserved, Out, RefundInv, RowOK
  <2>5. ListOK(job[w])'
    <3>1. ASSUME NEW q \in job[w].todo, job[w].kind = "approve"
          PROVE  /\ refund'[r].payment = q /\ refund'[r].cents <= Price - job[w].seen[q]
      BY <1>t, <1>3, <2>4, <3>1 DEF ListOK, Grown
    <3> QED BY <1>t, <1>3, <2>2, <3>1 DEF ListOK
  <2>6. SentOK(job[w])'
    <3>1. job[w].kind # "tip" => p \in Fares
      BY <1>t DEF ListOK
    <3> QED BY <1>t, <1>3, <2>2, <2>4, <3>1 DEF SentOK, Out
  <2>7. job'[w].kind = "tip" => FareWentBack'
    BY <1>t, <2>2, FareStaysBack DEF RefundInv, JobOK
  <2> HIDE DEF ListOK, SentOK, FareWentBack
  <2> QED BY <1>t, <2>2, <2>3, <2>4, <2>5, <2>6, <2>7 DEF Mine, JobOK, Sent
<1> HIDE DEF FareWentBack
<1> QED BY <1>1, <1>2, <1>3, ClaimRows

LEMMA RailMine ==
  ASSUME RefundInv, Steps, NEW w \in Threads, AskTheRail(w) PROVE Mine(w)
<1>t. /\ job[w].at = "rail" /\ ListOK(job[w]) /\ SentOK(job[w])
      /\ job \in [Threads -> Jobs] /\ UNCHANGED refund
      /\ rail \in [Refunds -> {"none", "pending"} \cup Verdicts]
      /\ job[w].kind = "tip" => FareWentBack'
  BY FareStaysBack DEF AskTheRail, RefundInv, JobOK, TypeOK, Sent
<1>1. ASSUME NEW what, rail' = [rail EXCEPT ![job[w].id] = what], Go(w, Skip(w, refund[job[w].id].payment))
      PROVE  Mine(w)
  BY <1>1, <1>t, SkipMine DEF Sent
<1>2. ASSUME NEW what, NEW at, NEW verdict,
             rail' = [rail EXCEPT ![job[w].id] = what],
             Go(w, [job[w] EXCEPT !.at = at, !.verdict = verdict]),
             \/ at = "uid" /\ verdict = "PENDING"
             \/ at = "uid" /\ verdict = "CONFIRMED" /\ what = "CONFIRMED"
             \/ at = "settle" /\ verdict = "REJECTED" /\ what = "REJECTED"
      PROVE  Mine(w)
  <2>0. job'[w] = [job[w] EXCEPT !.at = at, !.verdict = verdict]
    BY <1>2, <1>t DEF Go
  <2>1. /\ job'[w].at = at /\ job'[w].verdict = verdict /\ job'[w].kind = job[w].kind
        /\ job'[w].id = job[w].id /\ job'[w].todo = job[w].todo /\ job'[w].seen = job[w].seen
    BY <2>0, <1>t DEF Jobs
  <2>2. \A v \in Threads \ {w} : job'[v] = job[v]
    BY <1>2, <1>t DEF Go
  <2>3. ListOK(job[w])'
    BY <1>t, <2>1 DEF ListOK
  <2>4. SentOK(job[w])'
    <3>1. rail'[job[w].id] = what
      BY <1>2, <1>t DEF SentOK
    <3> QED BY <1>2, <1>t, <2>1, <3>1 DEF SentOK, Verdicts
  <2> HIDE DEF ListOK, SentOK, FareWentBack
  <2> QED BY <1>2, <1>t, <2>1, <2>2, <2>3, <2>4 DEF Mine, JobOK, Sent
<1> HIDE DEF SentOK, ListOK, FareWentBack
<1> QED BY <1>1, <1>2 DEF AskTheRail

LEMMA UidMine ==
  ASSUME RefundInv, Steps, NEW w \in Threads, StoreUid(w) PROVE Mine(w)
<1>t. /\ job[w].at = "uid" /\ ListOK(job[w]) /\ SentOK(job[w])
      /\ job \in [Threads -> Jobs] /\ UNCHANGED rail
      /\ job[w].kind = "tip" => FareWentBack'
  BY FareStaysBack DEF StoreUid, RefundInv, JobOK, TypeOK, Sent
<1>1. CASE Go(w, Skip(w, refund[job[w].id].payment))
  BY <1>1, <1>t, SkipMine DEF Sent
<1>2. CASE Go(w, [job[w] EXCEPT !.at = "settle"]) /\ job[w].verdict # "PENDING"
  <2>0. job'[w] = [job[w] EXCEPT !.at = "settle"]
    BY <1>2, <1>t DEF Go
  <2>1. /\ job'[w].at = "settle" /\ job'[w].verdict = job[w].verdict
        /\ job'[w].kind = job[w].kind /\ job'[w].id = job[w].id
        /\ job'[w].todo = job[w].todo /\ job'[w].seen = job[w].seen
    BY <2>0, <1>t DEF Jobs
  <2>2. \A v \in Threads \ {w} : job'[v] = job[v]
    BY <1>2, <1>t DEF Go
  <2>3. \A q \in Refunds : Grown(q)
    BY RowsGrow
  <2>4. ListOK(job[w])'
    BY <1>t, <2>1, <2>3 DEF ListOK, Grown
  <2>5. SentOK(job[w])'
    <3>1. /\ job[w].id \in Refunds /\ refund[job[w].id].status \in Out
          /\ job[w].verdict = "CONFIRMED" /\ rail'[job[w].id] = "CONFIRMED"
      BY <1>2, <1>t DEF SentOK, Verdicts
    <3>2. /\ refund'[job[w].id].status \in Out
          /\ refund'[job[w].id].payment = refund[job[w].id].payment
      BY <2>3, <3>1 DEF Grown, Out
    <3>3. job[w].kind # "tip" => refund[job[w].id].payment \in Fares
      BY <1>t DEF SentOK
    <3> QED BY <2>1, <3>1, <3>2, <3>3 DEF SentOK, Verdicts
  <2> HIDE DEF ListOK, SentOK, FareWentBack
  <2> QED BY <1>t, <2>1, <2>2, <2>4, <2>5 DEF Mine, JobOK, Sent
<1> QED BY <1>1, <1>2 DEF StoreUid

LEMMA SettleMine ==
  ASSUME RefundInv, Steps, NEW w \in Threads, Settle(w) PROVE Mine(w)
<1> DEFINE r == job[w].id
<1>t. /\ job[w].at = "settle" /\ SentOK(job[w]) /\ UNCHANGED rail
      /\ job \in [Threads -> Jobs]
  BY DEF Settle, RefundInv, JobOK, TypeOK, Sent
<1>1. CASE Go(w, Abort(w, refund[r].payment))
  BY <1>1, <1>t, SkipMine DEF Sent
<1>2. CASE job[w].verdict = "CONFIRMED" /\ Go(w, After(w, refund[r].payment))
  <2>1. r \in Refunds /\ refund[r].status \in Out /\ rail[r] = "CONFIRMED"
    BY <1>2, <1>t DEF SentOK, Verdicts
  <2>2. refund'[r].status = "COMPLETED" /\ refund'[r].payment = refund[r].payment
    <3>1. refund[r].status # "REJECTED" /\ Resolve(r, rail[r])
      BY <1>2, <2>1 DEF RefundInv, VerdictIsTheRails, Settle
    <3>2. refund'[r].status = "COMPLETED"
      BY <1>t, <2>1, <3>1, ResolveRows DEF Out
    <3>3. refund'[r].payment = refund[r].payment
      BY <2>1, RowsGrow DEF Grown, Out
    <3> QED BY <3>2, <3>3
  <2>3. job[w].kind \in {"approve", "cancel"} => FareWentBack'
    BY <1>t, <2>1, <2>2 DEF SentOK, FareWentBack
  <2> QED BY <1>2, <1>t, <2>3, AfterMine DEF Sent
<1> QED BY <1>1, <1>2 DEF Settle

LEMMA CallbackMine ==
  ASSUME RefundInv, Steps, NEW w \in Receivers, NEW r \in Refunds, Callback(w, r)
  PROVE  Mine(w)
<1>t. /\ job[w] = Idle /\ UNCHANGED rail /\ w \in Threads
      /\ job \in [Threads -> Jobs] /\ Resolve(r, rail[r])
      /\ Go(w, IF TakesTips(r) THEN [Idle EXCEPT !.at = "tips"] ELSE Idle)
  BY DEF Callback, Apply, RefundInv, TypeOK, Threads
<1>1. \A v \in Threads \ {w} : job'[v] = job[v]
  BY <1>t DEF Go
<1>2. CASE job'[w] = Idle
  BY <1>t, <1>1, <1>2, IdleIsJob DEF Mine, JobOK, Sent
<1>3. CASE TakesTips(r) /\ job'[w] = [Idle EXCEPT !.at = "tips"]
  <2>1. refund[r].status = "APPROVED" /\ rail[r] = "CONFIRMED" /\ refund[r].payment \in Fares
    BY <1>3 DEF TakesTips
  <2>2. refund'[r].status = "COMPLETED" /\ refund'[r].payment = refund[r].payment
    BY <1>t, <2>1, ResolveRows, RowsGrow DEF Grown, Out
  <2>3. FareWentBack'
    BY <2>1, <2>2 DEF FareWentBack
  <2>4. job'[w].at = "tips" /\ job'[w].kind = "none"
    BY <1>3 DEF Idle
  <2> HIDE DEF FareWentBack
  <2> QED BY <1>t, <1>1, <2>3, <2>4 DEF Mine, JobOK, Sent
<1> HIDE DEF Idle
<1> QED BY <1>t, <1>2, <1>3 DEF Go

LEMMA CrashMine ==
  ASSUME RefundInv, Steps, NEW w \in Threads, Crash(w) PROVE Mine(w)
<1>1. job'[w] = Idle /\ \A v \in Threads \ {w} : job'[v] = job[v]
  BY DEF Crash, Go, RefundInv, TypeOK
<1>2. \/ rail' = rail
      \/ job[w].at = "rail" /\ \E what : rail' = [rail EXCEPT ![job[w].id] = what]
  BY DEF Crash
<1>3. job'[w].at = "idle" /\ job'[w].kind = "none"
  BY <1>1, IdleIsJob
<1> QED BY <1>1, <1>2, <1>3 DEF Mine, JobOK, Sent

\* A step is of one thread, or of none and then it leaves the rail to them.
LEMMA EveryJob ==
  ASSUME RefundInv, [Next]_vars
  PROVE  \/ job' = job /\ \A r \in Refunds : rail[r] = "none" => rail'[r] = "none"
         \/ \E w \in Threads : Mine(w)
<1>s. Steps
  BY EveryStep
<1>1. ASSUME NEW w \in Workers, Start(w) PROVE Mine(w)
  <2>0. w \in Threads
    BY DEF Threads
  <2>1. ASSUME StartFailure(w) PROVE Mine(w)
    <3>1. /\ UNCHANGED <<refund, rail>> /\ Listed(Fares) \in SUBSET Payments
          /\ Go(w, [Idle EXCEPT !.at = "claim", !.kind = "failed", !.todo = Listed(Fares),
                                !.seen = Seen])
      BY <2>1 DEF StartFailure, Listed, Payments
    <3> HIDE DEF Seen, Idle, FareWentBack, Listed
    <3> QED BY <1>s, <2>0, <3>1, ListMine
  <2>2. ASSUME NEW p \in Fares, StartCancel(w, p) PROVE Mine(w)
    <3>1. /\ UNCHANGED <<refund, rail>> /\ {p} \in SUBSET Payments /\ {p} \subseteq Listed(Fares)
          /\ Go(w, [Idle EXCEPT !.at = "claim", !.kind = "cancel", !.todo = {p}, !.seen = Seen])
      BY <2>2 DEF StartCancel, Payments
    <3> HIDE DEF Seen, Idle, FareWentBack, Listed
    <3> QED BY <1>s, <2>0, <3>1, ListMine
  <2> QED BY <1>1, <1>s, <2>1, <2>2, ApproveMine DEF Start
<1>2. ASSUME NEW w \in Threads, Serve(w) PROVE Mine(w)
  <2>1. ASSUME ListTips(w) PROVE Mine(w)
    <3>1. /\ UNCHANGED <<refund, rail>> /\ Listed(Tips) \in SUBSET Payments /\ FareWentBack
          /\ Go(w, [Idle EXCEPT !.at = "claim", !.kind = "tip", !.todo = Listed(Tips),
                                !.seen = Seen])
      BY <2>1 DEF ListTips, Listed, Payments, RefundInv, JobOK
    <3> HIDE DEF Seen, Idle, FareWentBack, Listed
    <3> QED BY <1>s, <3>1, ListMine
  <2>2. ASSUME Finish(w) PROVE Mine(w)
    <3>1. /\ job'[w] = Idle /\ rail' = rail /\ \A v \in Threads \ {w} : job'[v] = job[v]
      BY <2>2 DEF Finish, Go, RefundInv, TypeOK
    <3> QED BY <3>1, IdleIsJob DEF Mine, JobOK, Sent
  <2> QED BY <1>2, <1>s, <2>1, <2>2, RailMine, UidMine, SettleMine, ClaimMine DEF Serve
<1>3. ASSUME NEW w \in Receivers, NEW r \in Refunds, Callback(w, r)
      PROVE  \E v \in Threads : Mine(v)
  BY <1>3, <1>s, CallbackMine DEF Threads
<1>4. ASSUME World \/ Queue \/ UNCHANGED vars, job' = job
      PROVE  \A r \in Refunds : rail[r] = "none" => rail'[r] = "none"
  <2>1. ASSUME NEW w \in Threads, Crash(w) PROVE FALSE
    BY <1>4, <2>1 DEF Crash, Go, RefundInv, TypeOK
  <2>2. ASSUME NEW r \in Refunds, Reverse(r)
        PROVE  \A q \in Refunds : rail[q] = "none" => rail'[q] = "none"
    BY <2>2 DEF Reverse, RefundInv, TypeOK
  <2>3. ASSUME Replicate \/ Queue \/ UNCHANGED vars \/ \E p \in Payments : Capture(p)
        PROVE  rail' = rail
    BY <2>3 DEF Replicate, Queue, RejectRefund, RequestRefund, Capture, vars
  <2> QED BY <1>4, <2>1, <2>2, <2>3 DEF World
<1>5. ASSUME World, job' # job PROVE \E w \in Threads : Mine(w)
  <2>1. \E w \in Threads : Crash(w)
    BY <1>5 DEF World, Replicate, Capture, Reverse
  <2> QED BY <1>s, <2>1, CrashMine
<1>6. Queue \/ UNCHANGED vars => job' = job
  BY DEF Queue, RejectRefund, RequestRefund, vars
<1>7. CASE World
  BY <1>4, <1>5, <1>7
<1>8. CASE Queue \/ UNCHANGED vars
  BY <1>4, <1>6, <1>8
<1> QED BY <1>1, <1>2, <1>3, <1>7, <1>8 DEF Next, Threads

LEMMA JobsStep ==
  ASSUME RefundInv, [Next]_vars PROVE (\A w \in Threads : JobOK(job[w]))' /\ Alone'
<1>s. Steps
  BY EveryStep
<1>t. ASSUME NEW v \in Threads, job[v].at \in Sent
      PROVE  /\ job[v].id \in Refunds /\ refund[job[v].id].status \in Out
             /\ job[v].at = "rail" => rail[job[v].id] = "none"
  BY <1>t DEF RefundInv, JobOK, SentOK
<1>1. CASE job' = job /\ \A r \in Refunds : rail[r] = "none" => rail'[r] = "none"
  <2>1. ASSUME NEW v \in Threads PROVE JobOK(job[v])'
    BY <1>1, <1>s, <1>t, JobKept DEF Sent
  <2>2. Alone'
    BY <1>1 DEF RefundInv, Alone
  <2> QED BY <2>1, <2>2
<1>2. ASSUME NEW w \in Threads, Mine(w)
      PROVE  (\A v \in Threads : JobOK(job[v]))' /\ Alone'
  <2>1. ASSUME NEW v \in Threads \ {w} PROVE JobOK(job[v])'
    <3>1. ASSUME job[v].at = "rail" PROVE rail'[job[v].id] = rail[job[v].id]
      <4>1. CASE rail' = rail
        BY <4>1
      <4>2. ASSUME job[w].at = "rail", NEW what, rail' = [rail EXCEPT ![job[w].id] = what]
            PROVE  rail'[job[v].id] = rail[job[v].id]
        <5>1. job[v].id # job[w].id
          BY <2>1, <3>1, <4>2 DEF RefundInv, Alone, Sent
        <5> QED BY <3>1, <4>2, <5>1, <1>t DEF RefundInv, TypeOK, Sent
      <4> QED BY <1>2, <4>1, <4>2 DEF Mine
    <3>2. job'[v] = job[v]
      BY <1>2, <2>1 DEF Mine
    <3> QED BY <1>s, <2>1, <3>1, <3>2, JobKept
  <2>2. Alone'
    <3> SUFFICES ASSUME NEW u \in Threads, NEW v \in Threads, u # v,
                        job'[u].at = "rail", job'[v].at \in Sent
                 PROVE  job'[u].id # job'[v].id
      BY DEF Alone
    <3>1. CASE u # w /\ v # w
      BY <1>2, <3>1 DEF Mine, RefundInv, Alone
    <3>2. CASE u = w
      BY <1>2, <1>t, <3>2 DEF Mine, RefundInv, Alone, Sent
    <3>3. CASE v = w
      BY <1>2, <1>t, <3>3 DEF Mine, RefundInv, Alone, Sent
    <3> QED BY <3>1, <3>2, <3>3
  <2> QED BY <1>2, <2>1, <2>2 DEF Mine
<1> QED BY <1>1, <1>2, EveryJob

-----------------------------------------------------------------------------
(* The types.                                                               *)

PaymentType == payment \in [Payments -> PaymentRows]
RefundType == refund \in [Refunds -> RefundRows]
RailType == rail \in [Refunds -> {"none", "pending"} \cup Verdicts]
JobType == job \in [Threads -> Jobs]
RestType ==
  /\ cash \in BOOLEAN /\ told \in [Refunds -> Nat]
  /\ replica \in [payment : [Payments -> PaymentRows], refund : [Refunds -> RefundRows]]
  /\ answered \subseteq Refunds /\ faults \in 0..MaxFaults

LEMMA CancelType ==
  ASSUME TypeOK, NEW P, CancelUncaptured(P) PROVE PaymentType'
<1> SUFFICES ASSUME NEW p \in Payments
             PROVE  (IF /\ p \in P /\ replica.payment[p].status = "PENDING"
                        /\ payment[p].status = "PENDING"
                     THEN [payment[p] EXCEPT !.status = "FAILED"]
                     ELSE payment[p]) \in PaymentRows
  BY DEF CancelUncaptured, PaymentType
<1> QED BY DEF TypeOK, PaymentRows

LEMMA ResolveType ==
  ASSUME RefundInv, NEW r \in Refunds, NEW verdict, Resolve(r, verdict)
  PROVE  PaymentType' /\ RefundType' /\ told' \in [Refunds -> Nat]
<1>t. /\ payment \in [Payments -> PaymentRows] /\ refund \in [Refunds -> RefundRows]
      /\ told \in [Refunds -> Nat]
  BY DEF RefundInv, TypeOK
<1>1. PaymentType'
  <2>1. CASE payment' = payment
    BY <2>1, <1>t DEF PaymentType
  <2>2. CASE /\ refund[r].status = "APPROVED"
             /\ payment' = [payment EXCEPT ![refund[r].payment] =
                              Books(@.refunded - refund[r].cents)]
    <3> DEFINE p == refund[r].payment
    <3>1. p \in Payments /\ refund[r].cents \in Nat
      BY <2>2, <1>t DEF RefundInv, RowOK, RefundRows
    <3>2. payment[p].refunded \in Int /\ payment[p].refunded <= Price
      BY <1>t, <3>1 DEF PaymentRows, Cents
    <3>3. Books(payment[p].refunded - refund[r].cents) \in PaymentRows
      BY <3>1, <3>2, BooksTell
    <3>4. payment' = [payment EXCEPT ![p] = Books(payment[p].refunded - refund[r].cents)]
      BY <2>2
    <3> HIDE DEF p
    <3> QED BY <1>t, <3>1, <3>3, <3>4 DEF PaymentType
  <2> QED BY <2>1, <2>2 DEF Resolve
<1>2. RefundType'
  <2>1. CASE refund' = refund
    BY <2>1, <1>t DEF RefundType
  <2>2. ASSUME NEW to \in {"COMPLETED", "REJECTED"}, refund' = [refund EXCEPT ![r].status = to]
        PROVE  RefundType'
    BY <2>2, <1>t DEF RefundType, RefundRows
  <2> QED BY <2>1, <2>2 DEF Resolve
<1>3. told' \in [Refunds -> Nat]
  BY <1>t DEF Resolve
<1> QED BY <1>1, <1>2, <1>3

LEMMA ClaimType ==
  ASSUME RefundInv, NEW w \in Threads, NEW p \in Payments, Claim(w, p)
  PROVE  PaymentType' /\ RefundType' /\ told' \in [Refunds -> Nat]
<1>t. /\ payment \in [Payments -> PaymentRows] /\ refund \in [Refunds -> RefundRows]
      /\ told \in [Refunds -> Nat] /\ job[w].kind \in {"none", "approve", "cancel", "failed", "tip"}
      /\ ListOK(job[w])
  BY DEF RefundInv, TypeOK, Jobs, JobOK, Claim
<1>a. /\ Amount(w, p) \in Nat \ {0} /\ job[w].seen[p] + Amount(w, p) <= Price
      /\ job[w].seen[p] + Amount(w, p) \in Int
  <2>1. job[w].at = "claim" /\ p \in job[w].todo
    BY DEF Claim
  <2> QED BY <2>1, AmountFits
<1>1. CASE UNCHANGED <<payment, refund, told>>
  BY <1>1, <1>t DEF PaymentType, RefundType
<1>2. ASSUME NEW r \in Refunds, NEW to \in {"APPROVED", "COMPLETED"}, Claimed(w, p, r, to)
      PROVE  PaymentType' /\ RefundType'
  <2>1. Books(job[w].seen[p] + Amount(w, p)) \in PaymentRows
    BY <1>a, BooksTell
  <2> DEFINE row == [status |-> to, payment |-> p, cents |-> Amount(w, p), uid |-> FALSE,
                     key |-> IF job[w].kind = "approve" THEN "none" ELSE job[w].kind]
  <2>2. row \in RefundRows
    <3>1. (IF job[w].kind = "approve" THEN "none" ELSE job[w].kind)
          \in {"none", "cancel", "failed", "tip"}
      BY <1>t
    <3> HIDE DEF Amount
    <3> QED BY <1>a, <3>1 DEF RefundRows
  <2>3. /\ payment' = [payment EXCEPT ![p] = Books(job[w].seen[p] + Amount(w, p))]
        /\ refund' = [refund EXCEPT ![r] = row]
    BY <1>2 DEF Claimed
  <2> HIDE DEF row, Books, Amount
  <2> QED BY <1>t, <2>1, <2>2, <2>3 DEF PaymentType, RefundType
<1>3. told' \in [Refunds -> Nat]
  <2>1. told' = told \/ \E r \in Refunds : told' = [told EXCEPT ![r] = @ + 1]
    BY DEF Claim
  <2> QED BY <2>1, <1>t
<1> QED BY <1>1, <1>2, <1>3 DEF Claim

LEMMA RowTypes ==
  ASSUME RefundInv, [Next]_vars PROVE PaymentType' /\ RefundType' /\ told' \in [Refunds -> Nat]
<1>t. /\ payment \in [Payments -> PaymentRows] /\ refund \in [Refunds -> RefundRows]
      /\ told \in [Refunds -> Nat] /\ TypeOK
  BY DEF RefundInv, TypeOK
<1> DEFINE Goal == PaymentType' /\ RefundType' /\ told' \in [Refunds -> Nat]
<1>0. UNCHANGED <<payment, refund, told>> => Goal
  BY <1>t DEF PaymentType, RefundType
<1>1. ASSUME NEW r \in Refunds, RejectRefund(r) PROVE Goal
  BY <1>1, <1>t DEF RejectRefund, PaymentType, RefundType, RefundRows
<1>2. ASSUME NEW r \in Refunds, NEW p \in Fares, NEW cents \in 1..Price,
             RequestRefund(r, p, cents)
      PROVE  Goal
  <2>1. [status |-> "PENDING", payment |-> p, cents |-> cents, key |-> "none", uid |-> FALSE]
        \in RefundRows
    BY DEF RefundRows, Payments
  <2> QED BY <1>2, <1>t, <2>1 DEF RequestRefund, PaymentType, RefundType
<1>3. ASSUME NEW w \in Workers, Start(w) PROVE Goal
  <2>1. CASE StartFailure(w)
    BY <2>1, <1>t, CancelType DEF StartFailure, RefundType
  <2>2. CASE ~StartFailure(w)
    BY <1>3, <2>2, <1>0 DEF Start, StartApprove, StartCancel
  <2> QED BY <2>1, <2>2
<1>4. ASSUME NEW w \in Threads, Serve(w) PROVE Goal
  <2>1. CASE ListTips(w)
    BY <2>1, <1>t, CancelType DEF ListTips, RefundType
  <2>2. CASE Finish(w) \/ AskTheRail(w)
    BY <2>2, <1>0 DEF Finish, AskTheRail
  <2>3. CASE StoreUid(w)
    <3>1. refund' = [refund EXCEPT ![job[w].id].uid = TRUE] /\ UNCHANGED <<payment, told>>
      BY <2>3 DEF StoreUid
    <3>2. RefundType'
      BY <3>1, <1>t DEF RefundType, RefundRows
    <3> QED BY <3>1, <3>2, <1>t DEF PaymentType
  <2>4. CASE Settle(w)
    <3>1. job[w].id \in Refunds /\ Resolve(job[w].id, job[w].verdict)
      BY <2>4 DEF Settle, RefundInv, JobOK, SentOK, Sent
    <3> QED BY <3>1, ResolveType
  <2>5. CASE \E p \in Payments : Claim(w, p)
    BY <2>5, ClaimType
  <2> QED BY <1>4, <2>1, <2>2, <2>3, <2>4, <2>5 DEF Serve
<1>5. ASSUME NEW w \in Receivers, NEW r \in Refunds, Callback(w, r) PROVE Goal
  BY <1>5, ResolveType DEF Callback, Apply
<1>6. ASSUME World PROVE Goal
  <2>1. ASSUME NEW p \in Payments, Capture(p) PROVE Goal
    BY <2>1, <1>t DEF Capture, PaymentType, RefundType, PaymentRows
  <2>2. CASE ~\E p \in Payments : Capture(p)
    BY <1>6, <2>2, <1>0 DEF World, Replicate, Reverse, Crash
  <2> QED BY <2>1, <2>2
<1>7. CASE UNCHANGED vars
  BY <1>7, <1>0 DEF vars
<1> QED BY <1>1, <1>2, <1>3, <1>4, <1>5, <1>6, <1>7 DEF Next, Queue

LEMMA RailTypes ==
  ASSUME RefundInv, [Next]_vars PROVE RailType'
<1>t. RailType
  BY DEF RefundInv, TypeOK, RailType
<1>1. \/ rail' = rail
      \/ \E r, what : /\ what \in {"none", "pending"} \cup Verdicts
                      /\ rail' = [rail EXCEPT ![r] = what]
  <2>1. ASSUME NEW w \in Threads, AskTheRail(w)
        PROVE  \E r, what : /\ what \in {"none", "pending"} \cup Verdicts
                            /\ rail' = [rail EXCEPT ![r] = what]
    BY <2>1 DEF AskTheRail, Verdicts
  <2>2. ASSUME NEW w \in Threads, Serve(w), ~AskTheRail(w) PROVE rail' = rail
    BY <2>2 DEF Serve, ListTips, Finish, StoreUid, Settle, Claim
  <2>3. ASSUME World
        PROVE  \/ rail' = rail
               \/ \E r, what : /\ what \in {"none", "pending"} \cup Verdicts
                               /\ rail' = [rail EXCEPT ![r] = what]
    BY <2>3 DEF World, Replicate, Capture, Reverse, Crash
  <2>4. ASSUME NEW w \in Workers, Start(w) PROVE rail' = rail
    BY <2>4 DEF Start, StartFailure, StartApprove, StartCancel
  <2>5. ASSUME Queue \/ UNCHANGED vars PROVE rail' = rail
    BY <2>5 DEF Queue, RejectRefund, RequestRefund, vars
  <2>6. ASSUME NEW w \in Receivers, NEW r \in Refunds, Callback(w, r) PROVE rail' = rail
    BY <2>6 DEF Callback
  <2> QED BY <2>1, <2>2, <2>3, <2>4, <2>5, <2>6 DEF Next
<1> QED BY <1>t, <1>1 DEF RailType

LEMMA RestTypes ==
  ASSUME RefundInv, [Next]_vars PROVE RestType'
<1>t. /\ RestType /\ PaymentType /\ RefundType
  BY DEF RefundInv, TypeOK, RestType, PaymentType, RefundType
<1>1. told' \in [Refunds -> Nat]
  BY RowTypes
<1>2. cash' = cash /\ (replica' = replica \/ replica' = [payment |-> payment, refund |-> refund])
  BY EveryStep DEF Steps
<1>3. answered' \subseteq Refunds /\ faults' \in 0..MaxFaults
  <2>1. ASSUME NEW w \in Threads, Serve(w) PROVE UNCHANGED <<answered, faults>>
    BY <2>1 DEF Serve, ListTips, Finish, AskTheRail, StoreUid, Settle, Claim
  <2>2. ASSUME NEW w \in Workers, Start(w) PROVE UNCHANGED <<answered, faults>>
    BY <2>2 DEF Start, StartFailure, StartApprove, StartCancel
  <2>3. ASSUME Queue \/ UNCHANGED vars PROVE UNCHANGED <<answered, faults>>
    BY <2>3 DEF Queue, RejectRefund, RequestRefund, vars
  <2>4. ASSUME World
        PROVE  /\ answered' = answered
               /\ \/ faults' = faults
                  \/ faults < MaxFaults /\ faults' = faults + 1
    BY <2>4 DEF World, Replicate, Capture, Reverse, Crash
  <2>5. ASSUME NEW w \in Receivers, NEW r \in Refunds, Callback(w, r)
        PROVE  /\ answered' = answered \/ answered' = answered \cup {r}
               /\ \/ faults' = faults
                  \/ faults < MaxFaults /\ faults' = faults + 1
    BY <2>5 DEF Callback
  <2>6. answered \subseteq Refunds /\ faults \in 0..MaxFaults
    BY <1>t DEF RestType
  <2> QED BY <2>1, <2>2, <2>3, <2>4, <2>5, <2>6 DEF Next
<1>4. replica' \in [payment : [Payments -> PaymentRows], refund : [Refunds -> RefundRows]]
  BY <1>t, <1>2 DEF RestType, PaymentType, RefundType
<1> QED BY <1>t, <1>1, <1>2, <1>3, <1>4 DEF RestType

LEMMA JobTypes ==
  ASSUME RefundInv, [Next]_vars PROVE JobType'
<1>t. /\ job \in [Threads -> Jobs] /\ TypeOK /\ Idle \in Jobs /\ Seen \in [Payments -> Cents]
  BY IdleIsJob DEF RefundInv, TypeOK, Seen, PaymentRows
<1>0. job' = job => JobType'
  BY <1>t DEF JobType
<1>g. ASSUME NEW w \in Threads, NEW j \in Jobs, Go(w, j) PROVE JobType'
  BY <1>g, <1>t DEF Go, JobType
<1>l. ASSUME NEW w \in Threads, NEW kind \in {"approve", "cancel", "failed", "tip"},
             NEW id \in Refunds \cup {0}, NEW P \in SUBSET Payments
      PROVE  /\ [Idle EXCEPT !.at = "claim", !.kind = kind, !.id = id, !.todo = P,
                             !.seen = Seen] \in Jobs
             /\ [Idle EXCEPT !.at = "claim", !.kind = kind, !.todo = P, !.seen = Seen] \in Jobs
             /\ [Idle EXCEPT !.at = "tips"] \in Jobs
  <2> HIDE DEF Seen
  <2> QED BY <1>t DEF Idle, Jobs
<1>x. [Idle EXCEPT !.at = "tips"] \in Jobs
  BY <1>t DEF Idle, Jobs
<1>k. ASSUME NEW w \in Threads, NEW p
      PROVE  Skip(w, p) \in Jobs /\ Abort(w, p) \in Jobs /\ After(w, p) \in Jobs
  <2>1. [job[w] EXCEPT !.at = "claim", !.todo = @ \ {p}, !.id = 0, !.verdict = "none"] \in Jobs
    BY <1>t DEF Jobs
  <2> HIDE DEF Idle
  <2>2. Skip(w, p) \in Jobs
    BY <1>t, <2>1 DEF Skip
  <2> QED BY <1>t, <1>x, <2>2 DEF Abort, After
<1>1. ASSUME NEW w \in Workers, Start(w) PROVE JobType'
  <2>0. w \in Threads
    BY DEF Threads
  <2>1. CASE StartFailure(w)
    <3>1. Listed(Fares) \in SUBSET Payments
      BY DEF Listed, Payments
    <3> HIDE DEF Idle, Seen, Listed
    <3> QED BY <2>0, <2>1, <3>1, <1>g, <1>l DEF StartFailure
  <2>2. ASSUME NEW r \in Refunds, StartApprove(w, r) PROVE JobType'
    <3>1. {replica.refund[r].payment} \in SUBSET Payments
      BY <2>2 DEF StartApprove, RefundInv, RowOK, Payments
    <3> HIDE DEF Idle, Seen
    <3> QED BY <2>0, <2>2, <3>1, <1>g, <1>l DEF StartApprove
  <2>3. ASSUME NEW p \in Fares, StartCancel(w, p) PROVE JobType'
    <3>1. {p} \in SUBSET Payments
      BY DEF Payments
    <3> HIDE DEF Idle, Seen
    <3> QED BY <2>0, <2>3, <3>1, <1>g, <1>l DEF StartCancel
  <2> QED BY <1>1, <2>1, <2>2, <2>3 DEF Start
<1>2. ASSUME NEW w \in Threads, Serve(w) PROVE JobType'
  <2> DEFINE id == job[w].id
  <2>1. CASE ListTips(w)
    <3>1. Listed(Tips) \in SUBSET Payments
      BY DEF Listed, Payments
    <3> HIDE DEF Idle, Seen, Listed
    <3> QED BY <2>1, <3>1, <1>g, <1>l DEF ListTips
  <2>2. CASE Finish(w)
    BY <2>2, <1>t, <1>g DEF Finish
  <2>3. CASE AskTheRail(w)
    <3>1. ASSUME NEW at \in {"uid", "settle"}, NEW verdict \in {"PENDING"} \cup Verdicts
          PROVE  [job[w] EXCEPT !.at = at, !.verdict = verdict] \in Jobs
      BY <1>t DEF Jobs
    <3> HIDE DEF Skip
    <3>2. \/ Go(w, Skip(w, refund[id].payment))
          \/ \E at \in {"uid", "settle"}, verdict \in {"PENDING"} \cup Verdicts :
               Go(w, [job[w] EXCEPT !.at = at, !.verdict = verdict])
      BY <2>3 DEF AskTheRail, Verdicts
    <3> QED BY <3>1, <3>2, <1>g, <1>k
  <2>4. CASE StoreUid(w)
    <3>1. [job[w] EXCEPT !.at = "settle"] \in Jobs
      BY <1>t DEF Jobs
    <3> HIDE DEF Skip
    <3> QED BY <2>4, <3>1, <1>g, <1>k DEF StoreUid
  <2>5. CASE Settle(w)
    <3> HIDE DEF Skip, After, Abort
    <3> QED BY <2>5, <1>g, <1>k DEF Settle
  <2>6. ASSUME NEW p \in Payments, Claim(w, p) PROVE JobType'
    <3>1. ASSUME NEW r \in Refunds PROVE [job[w] EXCEPT !.at = "rail", !.id = r] \in Jobs
      BY <1>t DEF Jobs
    <3>2. \/ Go(w, After(w, p)) \/ Go(w, Skip(w, p)) \/ Go(w, Abort(w, p))
          \/ \E r \in Refunds : Go(w, [job[w] EXCEPT !.at = "rail", !.id = r])
      BY <2>6 DEF Claim
    <3> HIDE DEF Skip, After, Abort
    <3> QED BY <3>1, <3>2, <1>g, <1>k
  <2> QED BY <1>2, <2>1, <2>2, <2>3, <2>4, <2>5, <2>6 DEF Serve
<1>3. ASSUME NEW w \in Receivers, NEW r \in Refunds, Callback(w, r) PROVE JobType'
  <2> HIDE DEF Idle
  <2> QED BY <1>3, <1>t, <1>x, <1>g DEF Callback, Apply, Threads
<1>4. ASSUME World PROVE JobType'
  <2> HIDE DEF Idle
  <2>1. job' = job \/ \E w \in Threads : Go(w, Idle)
    BY <1>4 DEF World, Replicate, Capture, Reverse, Crash
  <2> QED BY <2>1, <1>0, <1>t, <1>g
<1>5. CASE Queue \/ UNCHANGED vars
  BY <1>5, <1>0 DEF Queue, RejectRefund, RequestRefund, vars
<1> QED BY <1>1, <1>2, <1>3, <1>4, <1>5 DEF Next

-----------------------------------------------------------------------------
(* The invariant and what follows from it.                                  *)

LEMMA InitInv == Init => RefundInv
<1> SUFFICES ASSUME Init PROVE RefundInv
  OBVIOUS
<1>1. \A r \in Refunds : /\ refund[r].status = "none" /\ refund[r].key = "none"
                         /\ refund[r] \in RefundRows /\ rail[r] = "none"
                         /\ replica.refund[r].status = "none"
  BY DEF Init, RefundRows
<1>2. \A w \in Threads : job[w] = Idle
  BY DEF Init
<1>3. TypeOK
  <2>1. payment \in [Payments -> PaymentRows]
    BY DEF Init, PaymentRows, Cents
  <2>2. refund \in [Refunds -> RefundRows]
    BY <1>1 DEF Init
  <2>3. job \in [Threads -> Jobs]
    BY IdleIsJob DEF Init
  <2>4. replica \in [payment : [Payments -> PaymentRows], refund : [Refunds -> RefundRows]]
    BY <2>1, <2>2 DEF Init
  <2>5. /\ cash \in BOOLEAN /\ told \in [Refunds -> Nat] /\ answered \subseteq Refunds
        /\ rail \in [Refunds -> {"none", "pending"} \cup Verdicts] /\ faults \in 0..MaxFaults
    BY DEF Init
  <2> QED BY <2>1, <2>2, <2>3, <2>4, <2>5 DEF TypeOK
<1>4. \A w \in Threads : JobOK(job[w])
  BY <1>2, IdleIsJob DEF JobOK, Sent
<1>5. \A r \in Refunds : RowOK(r)
  BY <1>1 DEF RowOK
<1>6. Alone /\ VerdictIsTheRails /\ TipFollowsFare
  BY <1>1, <1>2, IdleIsJob DEF Alone, VerdictIsTheRails, TipFollowsFare
<1> QED BY <1>3, <1>4, <1>5, <1>6 DEF RefundInv

LEMMA NextInv == RefundInv /\ [Next]_vars => RefundInv'
<1> SUFFICES ASSUME RefundInv, [Next]_vars PROVE RefundInv'
  OBVIOUS
<1>1. TypeOK'
  <2>1. PaymentType' /\ RefundType' /\ RailType' /\ JobType' /\ RestType'
    BY RowTypes, RailTypes, JobTypes, RestTypes
  <2> QED BY <2>1 DEF TypeOK, PaymentType, RefundType, RailType, JobType, RestType
<1>2. (\A w \in Threads : JobOK(job[w]))' /\ Alone'
  BY JobsStep
<1>3. (\A r \in Refunds : RowOK(r))' /\ VerdictIsTheRails' /\ TipFollowsFare'
  BY EveryStep, RowsStep
<1> QED BY <1>1, <1>2, <1>3 DEF RefundInv

\* What the threads hold between two awaits agrees with the rows and the rail.
THEOREM Invariance == Spec => []RefundInv
BY InitInv, NextInv, PTL DEF Spec

\* Every value stays of its type.
THEOREM TypeCorrect == Spec => []TypeOK
<1>1. RefundInv => TypeOK
  BY DEF RefundInv
<1> QED BY <1>1, Invariance, PTL

\* A refund is completed, or rejected, only as the rail decided or by hand.
THEOREM VerdictAlwaysTheRails == Spec => []VerdictIsTheRails
<1>1. RefundInv => VerdictIsTheRails
  BY DEF RefundInv
<1> QED BY <1>1, Invariance, PTL

\* No tip goes back before some of the fare of its trip did.
THEOREM TipAlwaysFollows == Spec => []TipFollowsFare
<1>1. RefundInv => TipFollowsFare
  BY DEF RefundInv
<1> QED BY <1>1, Invariance, PTL

\* The refunds keep the books of RefundContract: every step of the service is one
\* of the contract or changes nothing that it sees.
THEOREM ImplementsContract == Spec => KeepsContract
<1> DEFINE status == [r \in Refunds |-> refund[r].status]
           of == [r \in Refunds |-> refund[r].payment]
           cents == [r \in Refunds |-> refund[r].cents]
           refunded == [p \in Payments |-> payment[p].refunded]
<1>1. Init => Contract!Init
  BY DEF Init, Contract!Init
<1>2. RefundInv /\ [Next]_vars => [Contract!Next]_(Contract!cvars)
  <2> SUFFICES ASSUME RefundInv, [Next]_vars PROVE [Contract!Next]_(Contract!cvars)
    OBVIOUS
  <2>t. refund \in [Refunds -> RefundRows] /\ payment \in [Payments -> PaymentRows]
    BY DEF RefundInv, TypeOK
  <2>0. ASSUME \A r \in Refunds : /\ refund'[r].status = refund[r].status
                                  /\ refund'[r].payment = refund[r].payment
                                  /\ refund'[r].cents = refund[r].cents,
               MoneyKept, told' = told
        PROVE  UNCHANGED Contract!cvars
    BY <2>0 DEF Contract!cvars, MoneyKept
  <2>1. ASSUME Quiet PROVE UNCHANGED Contract!cvars
    <3>1. ASSUME NEW r \in Refunds
          PROVE  /\ refund'[r].status = refund[r].status
                 /\ refund'[r].payment = refund[r].payment
                 /\ refund'[r].cents = refund[r].cents
      <4>1. PICK uid \in BOOLEAN : refund'[r] = [refund[r] EXCEPT !.uid = uid]
        BY <2>1 DEF Quiet
      <4> QED BY <4>1, <2>t DEF RefundRows
    <3> QED BY <2>0, <2>1, <3>1 DEF Quiet
  <2>2. ASSUME NEW r \in Refunds, RailMoves(r) PROVE UNCHANGED Contract!cvars
    BY <2>0, <2>2 DEF RailMoves, MoneyKept
  <2>3. ASSUME NEW r \in Refunds, Others(r)
        PROVE  /\ status' = [status EXCEPT ![r] = refund'[r].status]
               /\ of' = [of EXCEPT ![r] = refund'[r].payment]
               /\ cents' = [cents EXCEPT ![r] = refund'[r].cents]
               /\ of'[r] = refund'[r].payment /\ cents'[r] = refund'[r].cents
               /\ status[r] = refund[r].status
    BY <2>3 DEF Others
  <2>4. MoneyKept => refunded' = refunded
    BY DEF MoneyKept
  <2>5. ASSUME NEW r \in Refunds, NEW to, refund' = [refund EXCEPT ![r].status = to]
        PROVE  /\ status' = [status EXCEPT ![r] = to] /\ of' = of /\ cents' = cents
    <3>1. ASSUME NEW q \in Refunds
          PROVE  /\ refund'[q].status = (IF q = r THEN to ELSE refund[q].status)
                 /\ refund'[q].payment = refund[q].payment
                 /\ refund'[q].cents = refund[q].cents
      <4>1. CASE q = r
        <5>1. refund'[q] = [refund[q] EXCEPT !.status = to]
          BY <2>5, <2>t, <4>1
        <5> QED BY <4>1, <5>1, <2>t DEF RefundRows
      <4>2. CASE q # r
        BY <2>5, <2>t, <4>2
      <4> QED BY <4>1, <4>2
    <3> QED BY <3>1
  <2>6. ASSUME NEW r \in Refunds, Asked(r) PROVE Contract!Ask(r)
    <3>1. /\ status[r] = "none" /\ status' = [status EXCEPT ![r] = "PENDING"]
          /\ refunded' = refunded /\ told' = told
      BY <2>3, <2>4, <2>6 DEF Asked
    <3>2. /\ of'[r] \in Payments /\ of' = [of EXCEPT ![r] = of'[r]]
          /\ cents'[r] \in Nat \ {0} /\ cents' = [cents EXCEPT ![r] = cents'[r]]
      BY <2>3, <2>6 DEF Asked, Payments
    <3>3. Contract!Names(r)
      BY <3>2 DEF Contract!Names
    <3> QED BY <3>1, <3>3 DEF Contract!Ask, Contract!Names
  <2>7. ASSUME NEW r \in Refunds, Refused(r) PROVE Contract!Refuse(r)
    BY <2>4, <2>5, <2>7 DEF Refused, Contract!Refuse
  <2>8. ASSUME NEW r \in Refunds, NEW to \in {"APPROVED", "COMPLETED"}, Reserved(r, to)
        PROVE  Contract!Approve(r) \/ Contract!PayBack(r)
    <3> DEFINE p == refund'[r].payment
    <3>1. /\ p \in Payments /\ refund'[r].cents \in Nat \ {0} /\ Others(r)
          /\ payment' = [payment EXCEPT ![p] = Books(@.refunded + refund'[r].cents)]
          /\ payment'[p].refunded <= Price /\ refund'[r].status = to
      BY <2>8 DEF Reserved
    <3>2. refunded' = [refunded EXCEPT ![p] = @ + refund'[r].cents]
      <4>1. payment'[p].refunded = payment[p].refunded + refund'[r].cents
        BY <3>1, <2>t DEF Books
      <4>2. \A q \in Payments : q # p => payment'[q] = payment[q]
        BY <3>1, <2>t
      <4> HIDE DEF p
      <4>3. ASSUME NEW q \in Payments
            PROVE  refunded'[q] = IF q = p THEN refunded[p] + refund'[r].cents ELSE refunded[q]
        BY <4>1, <4>2
      <4> QED BY <4>3
    <3>3. refunded'[p] <= Price
      BY <3>1
    <3>4. \/ status[r] = "none" /\ Contract!Names(r)
          \/ status[r] = "PENDING" /\ UNCHANGED <<of, cents>>
      <4>1. CASE refund[r].status = "none"
        BY <2>3, <3>1, <4>1 DEF Contract!Names
      <4>2. CASE /\ refund[r].status = "PENDING" /\ refund'[r].payment = refund[r].payment
                 /\ refund'[r].cents = refund[r].cents
        BY <3>1, <4>2 DEF Others
      <4> QED BY <2>8, <4>1, <4>2 DEF Reserved
    <3>5. Contract!Reserve(r, to)
      BY <2>3, <3>1, <3>2, <3>3, <3>4 DEF Contract!Reserve
    <3> QED BY <2>8, <3>5 DEF Reserved, Contract!Approve, Contract!PayBack
  <2>9. ASSUME NEW r \in Refunds, NEW to \in {"COMPLETED", "REJECTED"}, Ended(r, to)
        PROVE  Contract!Complete(r) \/ Contract!GiveBack(r)
    <3>1. status[r] = "APPROVED" /\ status' = [status EXCEPT ![r] = to] /\ UNCHANGED <<of, cents>>
      BY <2>5, <2>9 DEF Ended
    <3>2. CASE to = "COMPLETED"
      BY <2>9, <3>1, <3>2 DEF Ended, Contract!Complete
    <3>3. CASE to = "REJECTED"
      <4> DEFINE p == refund[r].payment
      <4>1. /\ payment' = [payment EXCEPT ![p] = Books(@.refunded - refund[r].cents)]
            /\ p \in Payments /\ told' = told
        BY <2>9, <3>3 DEF Ended, RefundInv, RowOK
      <4>2. payment'[p].refunded = payment[p].refunded - refund[r].cents
        BY <4>1, <2>t DEF Books
      <4>3. \A q \in Payments : q # p => payment'[q] = payment[q]
        BY <4>1, <2>t
      <4>4. refunded' = [refunded EXCEPT ![p] = @ - refund[r].cents]
        <5> HIDE DEF p
        <5>1. ASSUME NEW q \in Payments
              PROVE  refunded'[q] = IF q = p THEN refunded[p] - refund[r].cents ELSE refunded[q]
          BY <4>2, <4>3
        <5> QED BY <5>1
      <4> QED BY <3>1, <3>3, <4>1, <4>4 DEF Contract!GiveBack
    <3> QED BY <3>2, <3>3
  <2> QED BY <2>1, <2>2, <2>6, <2>7, <2>8, <2>9, EveryStep
          DEF Steps, RowsMove, Contract!Next
<1> QED BY <1>1, <1>2, Invariance, PTL DEF Spec, KeepsContract, Contract!Spec
-----------------------------------------------------------------------------
(* The books: what is reserved is the sum of the refunds that are owed.     *)

LEMMA UpTo ==
  ASSUME NEW n \in Nat PROVE IsFiniteSet(1..n) /\ Cardinality(1..n) = n
<1>1. 1 \in Int /\ n \in Int
  OBVIOUS
<1>2. IsFiniteSet(1..n)
  BY <1>1, FS_Interval, Zenon
<1>3. Cardinality(1..n) = IF 1 > n THEN 0 ELSE n - 1 + 1
  BY <1>1, FS_Interval, Zenon
<1> QED BY <1>2, <1>3

\* One more refund adds its own cents.
LEMMA CentsOfOneMore ==
  ASSUME NEW rows, NEW S, NEW r, r \notin S, rows[r].cents \in Nat,
         IsFiniteSet(CentsOf(rows, S))
  PROVE  /\ IsFiniteSet(CentsOf(rows, S \cup {r}))
         /\ Cardinality(CentsOf(rows, S \cup {r}))
              = Cardinality(CentsOf(rows, S)) + rows[r].cents
<1> DEFINE Old == CentsOf(rows, S)
           More == {r} \X (1..rows[r].cents)
<1>1. IsFiniteSet(More) /\ Cardinality(More) = rows[r].cents
  <2>1. IsFiniteSet({r}) /\ Cardinality({r}) = 1
    BY FS_Singleton
  <2>2. IsFiniteSet(1..rows[r].cents) /\ Cardinality(1..rows[r].cents) = rows[r].cents
    BY UpTo
  <2>3. /\ IsFiniteSet(More)
        /\ Cardinality(More) = Cardinality({r}) * Cardinality(1..rows[r].cents)
    BY <2>1, <2>2, FS_Product, Zenon
  <2> QED BY <2>1, <2>2, <2>3
<1>2. CentsOf(rows, S \cup {r}) = Old \cup More
  BY DEF CentsOf
<1>3. Old \cap More = {}
  BY DEF CentsOf
<1>4. /\ IsFiniteSet(Old \cup More)
      /\ Cardinality(Old \cup More)
           = Cardinality(Old) + Cardinality(More) - Cardinality(Old \cap More)
  BY <1>1, FS_Union, Zenon
<1>5. Cardinality(Old) \in Nat /\ Cardinality(Old \cap More) = 0
  BY <1>3, FS_CardinalityType, FS_EmptySet
<1>6. IsFiniteSet(Old \cup More) /\ Cardinality(Old \cup More) = Cardinality(Old) + rows[r].cents
  <2> HIDE DEF Old, More
  <2> QED BY <1>1, <1>4, <1>5
<1> QED BY <1>2, <1>6, Zenon

\* The same refunds of the same cents make the same sum.
LEMMA SameCents ==
  ASSUME NEW rows, NEW rows2, NEW S, \A r \in S : rows2[r].cents = rows[r].cents
  PROVE  CentsOf(rows2, S) = CentsOf(rows, S)
BY DEF CentsOf

\* The books of one payment: the sum, which is finite, and nothing before a capture.
BookOK(p) ==
  /\ IsFiniteSet(CentsOf(refund, Owed(p)))
  /\ payment[p].refunded = Cardinality(CentsOf(refund, Owed(p)))
  /\ payment[p].status \in {"PENDING", "FAILED"} => payment[p].refunded = 0

\* A payment that took the money never forgets it.
LEMMA CapturedStays ==
  ASSUME TypeOK, [Next]_vars, NEW p \in Payments,
         payment'[p].status \in {"PENDING", "FAILED"}
  PROVE  payment[p].status \in {"PENDING", "FAILED"}
<1>t. payment \in [Payments -> PaymentRows]
  BY DEF TypeOK
<1>b. \A n : Books(n).status \notin {"PENDING", "FAILED"}
  BY DEF Books
<1> HIDE DEF Books
<1>0. CASE payment' = payment
  BY <1>0
<1>1. ASSUME NEW P, CancelUncaptured(P) PROVE payment[p].status \in {"PENDING", "FAILED"}
  <2>1. payment'[p] = IF /\ p \in P /\ replica.payment[p].status = "PENDING"
                         /\ payment[p].status = "PENDING"
                      THEN [payment[p] EXCEPT !.status = "FAILED"] ELSE payment[p]
    BY <1>1 DEF CancelUncaptured
  <2> QED BY <2>1
<1>2. ASSUME NEW q, NEW n, payment' = [payment EXCEPT ![q] = Books(n)]
      PROVE  payment[p].status \in {"PENDING", "FAILED"}
  <2>1. CASE p = q
    <3>1. payment'[p] = Books(n)
      BY <1>2, <1>t, <2>1
    <3> QED BY <3>1, <1>b
  <2>2. CASE p # q
    BY <1>2, <1>t, <2>2
  <2> QED BY <2>1, <2>2
<1>3. ASSUME NEW r, NEW verdict, Resolve(r, verdict)
      PROVE  payment[p].status \in {"PENDING", "FAILED"}
  <2>1. \/ payment' = payment
        \/ \E n : payment' = [payment EXCEPT ![refund[r].payment] = Books(n)]
    BY <1>3 DEF Resolve
  <2> QED BY <1>0, <1>2, <2>1
<1>4. ASSUME NEW w \in Threads, NEW q \in Payments, Claim(w, q)
      PROVE  payment[p].status \in {"PENDING", "FAILED"}
  <2>1. \/ payment' = payment
        \/ \E n : payment' = [payment EXCEPT ![q] = Books(n)]
    BY <1>4 DEF Claim, Claimed
  <2> QED BY <1>0, <1>2, <2>1
<1>5. ASSUME NEW q \in Payments, Capture(q)
      PROVE  payment[p].status \in {"PENDING", "FAILED"}
  <2>1. payment' = [payment EXCEPT ![q].status = "CAPTURED"]
    BY <1>5 DEF Capture
  <2>2. CASE p = q
    BY <1>5, <2>2 DEF Capture
  <2>3. CASE p # q
    BY <2>1, <2>3, <1>t
  <2> QED BY <2>2, <2>3
<1>6. CASE Queue
  BY <1>0, <1>6 DEF Queue, RejectRefund, RequestRefund
<1>7. ASSUME NEW w \in Workers, Start(w) PROVE payment[p].status \in {"PENDING", "FAILED"}
  BY <1>0, <1>1, <1>7 DEF Start, StartFailure, StartApprove, StartCancel
<1>8. ASSUME NEW w \in Threads, Serve(w) PROVE payment[p].status \in {"PENDING", "FAILED"}
  BY <1>0, <1>1, <1>3, <1>4, <1>8 DEF Serve, ListTips, Finish, AskTheRail, StoreUid, Settle
<1>9. ASSUME NEW w \in Receivers, NEW r \in Refunds, Callback(w, r)
      PROVE payment[p].status \in {"PENDING", "FAILED"}
  BY <1>3, <1>9 DEF Callback, Apply
<1>10. CASE World
  BY <1>0, <1>5, <1>10 DEF World, Replicate, Reverse, Crash
<1> QED BY <1>0, <1>6, <1>7, <1>8, <1>9, <1>10 DEF Next, vars

\* A step that keeps what is owed, and the money of a payment, keeps its books.
LEMMA BookKept ==
  ASSUME TypeOK, [Next]_vars, NEW p \in Payments, BookOK(p), Owed(p)' = Owed(p),
         \A r \in Owed(p) : refund'[r].cents = refund[r].cents,
         payment'[p].refunded = payment[p].refunded
  PROVE  BookOK(p)'
<1>1. CentsOf(refund', Owed(p)') = CentsOf(refund, Owed(p))
  BY SameCents
<1>2. payment'[p].status \in {"PENDING", "FAILED"} => payment[p].status \in {"PENDING", "FAILED"}
  BY CapturedStays
<1> QED BY <1>1, <1>2 DEF BookOK

\* A step on a refund that is not owed of p, and will not be, leaves p's alone.
LEMMA OwedKept ==
  ASSUME NEW r \in Refunds, Others(r), NEW p \in Payments, r \notin Owed(p), r \notin Owed(p)'
  PROVE  Owed(p)' = Owed(p) /\ \A q \in Owed(p) : refund'[q].cents = refund[q].cents
BY DEF Owed, Others

\* Which refunds a step makes owed, or owed no more.
LEMMA OwedStep ==
  ASSUME NEW r \in Refunds, Others(r)
  PROVE  \A p \in Payments :
           /\ Owed(p)' \ {r} = Owed(p) \ {r}
           /\ \A q \in Owed(p) \ {r} : refund'[q].cents = refund[q].cents
BY DEF Owed, Others

LEMMA BooksStep ==
  ASSUME RefundInv, [Next]_vars, \A p \in Payments : BookOK(p)
  PROVE  \A p \in Payments : BookOK(p)'
<1>t. /\ TypeOK /\ refund \in [Refunds -> RefundRows]
      /\ payment \in [Payments -> PaymentRows]
      /\ \A p \in Payments : payment[p].refunded \in Int
  BY DEF RefundInv, TypeOK, PaymentRows, Cents
<1>0. ASSUME MoneyKept,
             \A q \in Refunds : /\ refund'[q].payment = refund[q].payment
                                /\ refund'[q].cents = refund[q].cents
                                /\ refund'[q].status \in {"APPROVED", "COMPLETED"}
                                     <=> refund[q].status \in {"APPROVED", "COMPLETED"}
      PROVE  \A p \in Payments : BookOK(p)'
  BY <1>0, <1>t, BookKept DEF MoneyKept, Owed
<1>1. ASSUME Quiet PROVE \A p \in Payments : BookOK(p)'
  <2>1. ASSUME NEW q \in Refunds
        PROVE  /\ refund'[q].payment = refund[q].payment
               /\ refund'[q].cents = refund[q].cents
               /\ refund'[q].status = refund[q].status
    <3>1. PICK uid \in BOOLEAN : refund'[q] = [refund[q] EXCEPT !.uid = uid]
      BY <1>1 DEF Quiet
    <3> QED BY <3>1, <1>t DEF RefundRows
  <2> QED BY <1>0, <1>1, <2>1 DEF Quiet
<1>2. ASSUME NEW r \in Refunds, RailMoves(r) PROVE \A p \in Payments : BookOK(p)'
  BY <1>0, <1>2 DEF RailMoves, MoneyKept
<1>3. ASSUME NEW r \in Refunds, Others(r), MoneyKept,
             refund[r].status \notin {"APPROVED", "COMPLETED"},
             refund'[r].status \notin {"APPROVED", "COMPLETED"}
      PROVE  \A p \in Payments : BookOK(p)'
  <2>1. ASSUME NEW p \in Payments PROVE BookOK(p)'
    <3>1. r \notin Owed(p) /\ r \notin Owed(p)'
      BY <1>3 DEF Owed
    <3>2. Owed(p)' = Owed(p) /\ \A q \in Owed(p) : refund'[q].cents = refund[q].cents
      BY <1>3, <3>1, OwedKept
    <3> QED BY <1>3, <1>t, <3>2, BookKept DEF MoneyKept
  <2> QED BY <2>1
<1>4. ASSUME NEW r \in Refunds, Asked(r) PROVE \A p \in Payments : BookOK(p)'
  BY <1>3, <1>4 DEF Asked
<1>5. ASSUME NEW r \in Refunds, Refused(r) PROVE \A p \in Payments : BookOK(p)'
  <2>1. refund'[r].status = "REJECTED"
    BY <1>5, <1>t DEF Refused, RefundRows
  <2> QED BY <1>3, <1>5, <2>1 DEF Refused
<1>6. ASSUME NEW r \in Refunds, NEW to \in {"APPROVED", "COMPLETED"}, Reserved(r, to)
      PROVE  \A p \in Payments : BookOK(p)'
  <2>0. PICK at \in Payments, n \in Nat : at = refund'[r].payment /\ n = refund'[r].cents
    BY <1>6 DEF Reserved
  <2>1. /\ refund'[r].status \in {"APPROVED", "COMPLETED"}
        /\ payment' = [payment EXCEPT ![at] = Books(@.refunded + n)]
        /\ refund[r].status \notin {"APPROVED", "COMPLETED"} /\ Others(r)
    BY <1>6, <2>0 DEF Reserved
  <2>2. payment'[at] = Books(payment[at].refunded + n)
    BY <2>1, <1>t
  <2>3. /\ payment'[at].refunded = payment[at].refunded + n
        /\ payment'[at].status \notin {"PENDING", "FAILED"}
    BY <2>2 DEF Books
  <2>4. ASSUME NEW p \in Payments, p # at PROVE BookOK(p)'
    <3>1. payment'[p] = payment[p]
      BY <2>1, <2>4, <1>t
    <3>2. r \notin Owed(p) /\ r \notin Owed(p)'
      BY <2>0, <2>1, <2>4 DEF Owed
    <3>3. Owed(p)' = Owed(p) /\ \A q \in Owed(p) : refund'[q].cents = refund[q].cents
      BY <2>1, <2>4, <3>2, OwedKept
    <3> QED BY <1>t, <2>4, <3>1, <3>3, BookKept
  <2>5. BookOK(at)'
    <3>1. Owed(at)' = Owed(at) \cup {r} /\ r \notin Owed(at)
      <4>1. r \in Owed(at)' /\ r \notin Owed(at)
        BY <2>0, <2>1 DEF Owed
      <4> QED BY <2>1, <4>1, OwedStep
    <3>2. CentsOf(refund', Owed(at)) = CentsOf(refund, Owed(at))
      <4>1. \A q \in Owed(at) : refund'[q].cents = refund[q].cents
        BY <2>1, <3>1, OwedStep
      <4> QED BY <4>1, SameCents
    <3>3. /\ IsFiniteSet(CentsOf(refund', Owed(at) \cup {r}))
          /\ Cardinality(CentsOf(refund', Owed(at) \cup {r}))
               = Cardinality(CentsOf(refund', Owed(at))) + n
      <4>1. refund'[r].cents \in Nat /\ IsFiniteSet(CentsOf(refund', Owed(at)))
        BY <2>0, <3>2 DEF BookOK
      <4> QED BY <2>0, <3>1, <4>1, CentsOfOneMore
    <3>4. payment[at].refunded = Cardinality(CentsOf(refund', Owed(at)))
      BY <3>2 DEF BookOK
    <3>5. payment'[at].refunded = Cardinality(CentsOf(refund', Owed(at)'))
      BY <2>3, <3>1, <3>3, <3>4
    <3> QED BY <2>3, <3>1, <3>3, <3>5 DEF BookOK
  <2> QED BY <2>4, <2>5
<1>7. ASSUME NEW r \in Refunds, NEW to \in {"COMPLETED", "REJECTED"}, Ended(r, to)
      PROVE  \A p \in Payments : BookOK(p)'
  <2>1. refund[r].status = "APPROVED" /\ Others(r)
    BY <1>7 DEF Ended
  <2>2. /\ refund'[r].status = to /\ refund'[r].payment = refund[r].payment
        /\ refund'[r].cents = refund[r].cents
    BY <1>7, <1>t DEF Ended, RefundRows
  <2>3. CASE to = "COMPLETED"
    <3>1. payment' = payment
      BY <1>7, <2>3 DEF Ended
    <3> QED BY <1>0, <2>1, <2>2, <2>3, <3>1 DEF MoneyKept, Others
  <2>4. CASE to = "REJECTED"
    <3>0. PICK at \in Payments, n \in Nat : at = refund[r].payment /\ n = refund[r].cents
      <4>1. refund[r] \in RefundRows
        BY <1>t
      <4> QED BY <2>1, <4>1 DEF RefundInv, RowOK, RefundRows
    <3>1. payment' = [payment EXCEPT ![at] = Books(@.refunded - n)]
      BY <1>7, <2>4, <3>0 DEF Ended
    <3>2. payment'[at] = Books(payment[at].refunded - n)
      BY <3>1, <1>t
    <3>3. /\ payment'[at].refunded = payment[at].refunded - n
          /\ payment'[at].status \notin {"PENDING", "FAILED"}
      BY <3>2 DEF Books
    <3>4. ASSUME NEW p \in Payments, p # at PROVE BookOK(p)'
      <4>1. payment'[p] = payment[p]
        BY <3>1, <3>4, <1>t
      <4>2. r \notin Owed(p) /\ r \notin Owed(p)'
        BY <2>2, <3>0, <3>4 DEF Owed
      <4>3. Owed(p)' = Owed(p) /\ \A q \in Owed(p) : refund'[q].cents = refund[q].cents
        BY <2>1, <3>4, <4>2, OwedKept
      <4> QED BY <1>t, <3>4, <4>1, <4>3, BookKept
    <3>5. BookOK(at)'
      <4> DEFINE rest == Owed(at)'
      <4>1. r \notin rest /\ rest \cup {r} = Owed(at)
        <5>1. r \notin Owed(at)' /\ r \in Owed(at)
          BY <2>1, <2>2, <2>4, <3>0 DEF Owed
        <5> QED BY <2>1, <3>1, <5>1, OwedStep
      <4>2. CentsOf(refund', rest) = CentsOf(refund, rest)
        <5>1. \A q \in rest : refund'[q].cents = refund[q].cents
          BY <2>1, <3>1, <4>1, OwedStep
        <5> QED BY <5>1, SameCents
      <4>3. IsFiniteSet(CentsOf(refund, rest))
        <5>1. IsFiniteSet(CentsOf(refund, Owed(at)))
          BY <3>1 DEF BookOK
        <5>2. CentsOf(refund, rest) \subseteq CentsOf(refund, Owed(at))
          BY <4>1 DEF CentsOf
        <5> QED BY <5>1, <5>2, FS_Subset
      <4>4. Cardinality(CentsOf(refund, rest \cup {r})) = Cardinality(CentsOf(refund, rest)) + n
        BY <3>0, <4>1, <4>3, CentsOfOneMore
      <4>5. Cardinality(CentsOf(refund, rest)) \in Nat
        BY <4>3, FS_CardinalityType
      <4>6. payment[at].refunded = Cardinality(CentsOf(refund, rest)) + n
        BY <3>1, <4>1, <4>4 DEF BookOK
      <4>7. payment'[at].refunded = Cardinality(CentsOf(refund', rest))
        <5> HIDE DEF rest
        <5> QED BY <3>1, <3>3, <4>2, <4>5, <4>6
      <4>8. IsFiniteSet(CentsOf(refund', rest))
        BY <4>2, <4>3
      <4> QED BY <3>3, <4>7, <4>8 DEF BookOK
    <3> QED BY <3>4, <3>5
  <2> QED BY <2>3, <2>4
<1> QED BY <1>1, <1>2, <1>4, <1>5, <1>6, <1>7, EveryStep DEF Steps, RowsMove

LEMMA BooksInit ==
  ASSUME Init, NEW p \in Payments PROVE BookOK(p)
<1>1. Owed(p) = {}
  BY DEF Init, Owed
<1>2. CentsOf(refund, Owed(p)) = {}
  BY <1>1 DEF CentsOf
<1> QED BY <1>2, FS_EmptySet DEF Init, BookOK

LEMMA BooksInvariant == Spec => [](\A p \in Payments : BookOK(p))
<1>1. Init => \A p \in Payments : BookOK(p)
  BY BooksInit
<1>2. RefundInv /\ (\A p \in Payments : BookOK(p)) /\ [Next]_vars
        => (\A p \in Payments : BookOK(p))'
  BY BooksStep
<1> QED BY <1>1, <1>2, Invariance, PTL DEF Spec

\* What is reserved of a payment is the sum of the refunds that are out or done.
THEOREM BooksAlwaysAddUp == Spec => []BooksAddUp
<1>1. (\A p \in Payments : BookOK(p)) => BooksAddUp
  BY DEF BookOK, BooksAddUp
<1> QED BY <1>1, BooksInvariant, PTL

\* The rail never sends back more of a payment than is reserved of it, nor than
\* the payment took.
THEOREM NeverMoreSentThanCaptured == Spec => []NeverMoreThanCaptured
<1>1. RefundInv /\ (\A p \in Payments : BookOK(p)) => NeverMoreThanCaptured
  <2> SUFFICES ASSUME RefundInv, NEW p \in Payments, BookOK(p)
               PROVE  /\ SentBack(p) <= payment[p].refunded
                      /\ payment[p].refunded <=
                           IF payment[p].status \in {"PENDING", "FAILED"} THEN 0 ELSE Price
    BY DEF NeverMoreThanCaptured
  <2>1. Leaving(p) \subseteq Owed(p)
    <3> SUFFICES ASSUME NEW r \in Leaving(p) PROVE r \in Owed(p)
      OBVIOUS
    <3>1. /\ r \in Refunds /\ refund[r].payment = p
          /\ \/ rail[r] \in {"pending", "CONFIRMED"}
             \/ refund[r].status = "COMPLETED"
      BY DEF Leaving
    <3>2. refund[r].status \in {"APPROVED", "COMPLETED"}
      BY <3>1 DEF RefundInv, RowOK, Out, VerdictIsTheRails
    <3> QED BY <3>1, <3>2 DEF Owed
  <2>2. CentsOf(refund, Leaving(p)) \subseteq CentsOf(refund, Owed(p))
    BY <2>1 DEF CentsOf
  <2>3. Cardinality(CentsOf(refund, Leaving(p))) <= Cardinality(CentsOf(refund, Owed(p)))
    BY <2>2, FS_Subset DEF BookOK
  <2>4. payment[p].refunded \in Int /\ payment[p].refunded <= Price
    BY DEF RefundInv, TypeOK, PaymentRows, Cents
  <2> QED BY <2>3, <2>4 DEF BookOK, SentBack
<1> QED BY <1>1, Invariance, BooksInvariant, PTL


-----------------------------------------------------------------------------
(* What the contract gives to those who only see the events.                *)

\* One step of the contract tells a refund when it completes it, and then only.
LEMMA ToldStep ==
  ASSUME TypeOK, ToldOnce, [Contract!Next]_(Contract!cvars), NEW r \in Refunds
  PROVE  told'[r] = IF refund'[r].status = "COMPLETED" THEN 1 ELSE 0
<1> DEFINE status == [q \in Refunds |-> refund[q].status]
<1>1. status[r] = refund[r].status /\ status'[r] = refund'[r].status
  OBVIOUS
<1>2. /\ told \in [Refunds -> Nat]
      /\ told[r] = IF status[r] = "COMPLETED" THEN 1 ELSE 0
      /\ status = [q \in Refunds |-> status[q]]
  BY DEF TypeOK, ToldOnce
<1>3. ASSUME NEW q \in Refunds, NEW to, to # "COMPLETED", status[q] # "COMPLETED",
             status' = [status EXCEPT ![q] = to], told' = told
      PROVE  told'[r] = IF status'[r] = "COMPLETED" THEN 1 ELSE 0
  <2> HIDE DEF status
  <2> QED BY <1>2, <1>3
<1>4. ASSUME NEW q \in Refunds, status[q] # "COMPLETED",
             status' = [status EXCEPT ![q] = "COMPLETED"],
             told' = [told EXCEPT ![q] = told[q] + 1]
      PROVE  told'[r] = IF status'[r] = "COMPLETED" THEN 1 ELSE 0
  <2>1. told[q] = 0
    BY <1>4 DEF ToldOnce
  <2> HIDE DEF status
  <2> QED BY <1>2, <1>4, <2>1
<1>5. ASSUME status' = status, told' = told
      PROVE  told'[r] = IF status'[r] = "COMPLETED" THEN 1 ELSE 0
  <2>1. told[r] = IF status[r] = "COMPLETED" THEN 1 ELSE 0
    BY <1>2
  <2> HIDE DEF status
  <2> QED BY <1>5, <2>1
<1>6. ASSUME NEW q \in Refunds, Contract!Ask(q) \/ Contract!Refuse(q) \/ Contract!GiveBack(q)
      PROVE  told'[r] = IF status'[r] = "COMPLETED" THEN 1 ELSE 0
  <2>1. PICK to : /\ to # "COMPLETED" /\ status[q] # "COMPLETED"
                  /\ status' = [status EXCEPT ![q] = to] /\ told' = told
    BY <1>6 DEF Contract!Ask, Contract!Refuse, Contract!GiveBack
  <2> HIDE DEF status
  <2> QED BY <1>3, <2>1
<1>7. ASSUME NEW q \in Refunds, Contract!Approve(q)
      PROVE  told'[r] = IF status'[r] = "COMPLETED" THEN 1 ELSE 0
  <2>1. /\ status[q] # "COMPLETED" /\ told' = told
        /\ status' = [status EXCEPT ![q] = "APPROVED"]
    BY <1>7 DEF Contract!Approve, Contract!Reserve
  <2> HIDE DEF status
  <2> QED BY <1>3, <2>1
<1>8. ASSUME NEW q \in Refunds, Contract!PayBack(q) \/ Contract!Complete(q)
      PROVE  told'[r] = IF status'[r] = "COMPLETED" THEN 1 ELSE 0
  <2>1. /\ status[q] # "COMPLETED" /\ told' = [told EXCEPT ![q] = told[q] + 1]
        /\ status' = [status EXCEPT ![q] = "COMPLETED"]
    BY <1>8 DEF Contract!PayBack, Contract!Complete, Contract!Reserve
  <2> HIDE DEF status
  <2> QED BY <1>4, <2>1
<1>9. told'[r] = IF status'[r] = "COMPLETED" THEN 1 ELSE 0
  <2>1. CASE UNCHANGED Contract!cvars
    BY <1>5, <2>1 DEF Contract!cvars
  <2>2. CASE Contract!Next
    <3> HIDE DEF status
    <3> QED BY <1>6, <1>7, <1>8, <2>2 DEF Contract!Next
  <2> QED BY <2>1, <2>2
<1> QED BY <1>1, <1>9

\* Whoever books payment.refunded books each refund once, and only what was paid
\* back.
THEOREM AlwaysToldOnce == Spec => []ToldOnce
<1>1. Init => ToldOnce
  BY DEF Init, ToldOnce
<1>2. TypeOK /\ ToldOnce /\ [Contract!Next]_(Contract!cvars) => ToldOnce'
  BY ToldStep DEF ToldOnce
<1> QED
  BY <1>1, <1>2, TypeCorrect, ImplementsContract, PTL
  DEF Spec, KeepsContract, Contract!Spec
=============================================================================
