------------------------------ MODULE MCRefund ------------------------------
(* A fare and a tip of two cents each, a request or consumer, a callback.    *)
EXTENDS Refund, TLC

CONSTANTS f1, t1, w1, c1
=============================================================================
