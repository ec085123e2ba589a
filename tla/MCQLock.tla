------------------------------ MODULE MCQLock ------------------------------
(* QLock with enough processes for a holder, a hand-off and a queue of two *)
EXTENDS QLock
=============================================================================
