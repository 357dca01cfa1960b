--------------------------- MODULE PayoutContract ---------------------------
(***************************************************************************)
(* What the payout of a driver for a period promises to whoever sees its    *)
(* status and its events: one payout for each driver and period, retained   *)
(* only before it is first sent, sent again only after it was said to have  *)
(* failed, and each time it is sent, paid or failed said so, in that order. *)
(* Runs, sessions, the rail and the poll are not seen here: see Payout.     *)
(***************************************************************************)
EXTENDS Sequences

CONSTANTS Payouts    \* one for each driver and period

VARIABLES status,    \* payout -> its status, "none" before it is aggregated
          told       \* payout -> the events its transactions enqueued

pvars == <<status, told>>

Init ==
  /\ status = [i \in Payouts |-> "none"]
  /\ told = [i \in Payouts |-> <<>>]

Aggregate(i) ==
  /\ status[i] = "none"
  /\ \E to \in {"PENDING", "HELD"} : status' = [status EXCEPT ![i] = to]
  /\ UNCHANGED told

\* A review retains whatever it finds waiting, several payouts at once.
Retain ==
  /\ \E held \in SUBSET {i \in Payouts : status[i] = "PENDING"} :
       status' = [i \in Payouts |-> IF i \in held THEN "HELD" ELSE status[i]]
  /\ UNCHANGED told

Say(i, to, event) ==
  /\ status' = [status EXCEPT ![i] = to]
  /\ told' = [told EXCEPT ![i] = Append(@, event)]

Send(i) ==
  /\ status[i] \in {"PENDING", "HELD", "FAILED"}
  /\ Say(i, "PROCESSING", "processing")

Pay(i) ==
  /\ status[i] = "PROCESSING"
  /\ Say(i, "PROCESSED", "processed")

Fail(i) ==
  /\ status[i] = "PROCESSING"
  /\ Say(i, "FAILED", "failed")

Next ==
  \/ Retain
  \/ \E i \in Payouts : Aggregate(i) \/ Send(i) \/ Pay(i) \/ Fail(i)

Spec == Init /\ [][Next]_pvars
=============================================================================
