--------------------------- MODULE RefundContract ---------------------------
(***************************************************************************)
(* What the refunds of a trip promise to its books: an amount is reserved   *)
(* within the price of its payment, once for each refund, and given back    *)
(* only if that refund is rejected; and each refund that is completed is    *)
(* told once.  Requests, the rail and its callbacks are not seen here.      *)
(***************************************************************************)
EXTENDS Integers

CONSTANTS Refunds, Payments, Price, None

VARIABLES status,    \* refund -> its status, "none" before there is one
          of,        \* refund -> the payment it is of
          cents,     \* refund -> how much of it
          refunded,  \* payment -> the cents reserved or gone
          told       \* refund -> how often payment.refunded was enqueued

cvars == <<status, of, cents, refunded, told>>

Init ==
  /\ status = [r \in Refunds |-> "none"]
  /\ of = [r \in Refunds |-> None]
  /\ cents = [r \in Refunds |-> 0]
  /\ refunded = [p \in Payments |-> 0]
  /\ told = [r \in Refunds |-> 0]

\* A refund gets its payment and its amount.
Names(r) ==
  /\ of'[r] \in Payments /\ of' = [of EXCEPT ![r] = of'[r]]
  /\ cents'[r] \in Nat \ {0} /\ cents' = [cents EXCEPT ![r] = cents'[r]]

Ask(r) ==
  /\ status[r] = "none"
  /\ status' = [status EXCEPT ![r] = "PENDING"]
  /\ Names(r)
  /\ UNCHANGED <<refunded, told>>

Refuse(r) ==
  /\ status[r] = "PENDING"
  /\ status' = [status EXCEPT ![r] = "REJECTED"]
  /\ UNCHANGED <<of, cents, refunded, told>>

\* A request keeps what it asked for; a refund of the system is new.
Reserve(r, to) ==
  /\ \/ status[r] = "none" /\ Names(r)
     \/ status[r] = "PENDING" /\ UNCHANGED <<of, cents>>
  /\ status' = [status EXCEPT ![r] = to]
  /\ refunded' = [refunded EXCEPT ![of'[r]] = @ + cents'[r]]
  /\ refunded'[of'[r]] <= Price

\* To the rail; or by hand, and over.
Approve(r) == Reserve(r, "APPROVED") /\ UNCHANGED told
PayBack(r) == Reserve(r, "COMPLETED") /\ told' = [told EXCEPT ![r] = @ + 1]

Complete(r) ==
  /\ status[r] = "APPROVED"
  /\ status' = [status EXCEPT ![r] = "COMPLETED"]
  /\ told' = [told EXCEPT ![r] = @ + 1]
  /\ UNCHANGED <<of, cents, refunded>>

GiveBack(r) ==
  /\ status[r] = "APPROVED"
  /\ status' = [status EXCEPT ![r] = "REJECTED"]
  /\ refunded' = [refunded EXCEPT ![of[r]] = @ - cents[r]]
  /\ UNCHANGED <<of, cents, told>>

Next ==
  \E r \in Refunds :
    \/ Ask(r) \/ Refuse(r) \/ Approve(r) \/ PayBack(r) \/ Complete(r) \/ GiveBack(r)

Spec == Init /\ [][Next]_cvars
=============================================================================
