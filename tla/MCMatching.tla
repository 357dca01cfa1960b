----------------------------- MODULE MCMatching -----------------------------
(* Two drivers, three offers, two processes.                                 *)
EXTENDS Matching, TLC

CONSTANTS d1, d2, w1, w2
=============================================================================
