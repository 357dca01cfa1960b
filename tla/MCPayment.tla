------------------------------ MODULE MCPayment ------------------------------
(* One payment, two methods of charge, two requests at once and the poll.    *)
EXTENDS Payment, TLC

CONSTANTS w1, w2, poll, cobro, Yape, Plin

\* Requests are alike, and so are the methods: used by the safety run only.
Alike == Permutations(Workers) \cup Permutations(Methods)
=============================================================================
