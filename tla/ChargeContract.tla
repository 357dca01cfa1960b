--------------------------- MODULE ChargeContract ---------------------------
(***************************************************************************)
(* What payment-service promises about the fare of a trip or a booking to   *)
(* those who only see its status and its events: it is captured at most     *)
(* once and for good, payment.captured says so exactly once and after it    *)
(* nothing is said any more, and payment.failed is said of a debt only.     *)
(* The fare of a trip that failed is owed no more, unless it was paid late.  *)
(* Checkouts, retries and webhooks are not seen here: see Payment.          *)
(***************************************************************************)
EXTENDS Sequences

CONSTANTS Payments    \* one per dedupKey

VARIABLES status,     \* payment -> its status, "none" before the first charge
          told        \* payment -> the events its transactions enqueued

cvars == <<status, told>>

Init ==
  /\ status = [p \in Payments |-> "none"]
  /\ told = [p \in Payments |-> <<>>]

Move(p, to) == status' = [status EXCEPT ![p] = to]
Tell(p, event) == told' = [told EXCEPT ![p] = Append(@, event)]

Open(p) ==
  /\ status[p] = "none"
  /\ Move(p, "PENDING")
  /\ UNCHANGED told

\* A debt may be told more than once.
Fail(p) ==
  /\ status[p] \in {"PENDING", "DEBT"}
  /\ Move(p, "DEBT")
  /\ Tell(p, "failed")

Reopen(p) ==
  /\ status[p] = "DEBT"
  /\ Move(p, "PENDING")
  /\ UNCHANGED told

\* The trip failed.  Nothing is said of it; a booking has no trip to fail.
Cancel(p) ==
  /\ status[p] \in {"PENDING", "DEBT"}
  /\ Move(p, "FAILED")
  /\ UNCHANGED told

Capture(p) ==
  /\ status[p] \in {"PENDING", "DEBT", "FAILED"}
  /\ Move(p, "CAPTURED")
  /\ Tell(p, "captured")

Next ==
  \E p \in Payments : Open(p) \/ Fail(p) \/ Reopen(p) \/ Cancel(p) \/ Capture(p)

Spec == Init /\ [][Next]_cvars
=============================================================================
