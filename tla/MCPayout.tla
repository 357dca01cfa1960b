------------------------------ MODULE MCPayout ------------------------------
(* One driver, two requests of operators at a time, the poll.  Both periods    *)
(* are aggregated and want the one bonus; the payout of the first is sent.     *)
EXTENDS Payout, TLC

CONSTANTS d1, o1, o2, p1
=============================================================================
