------------------------------- MODULE MCWait -------------------------------
(* Wait for a first process and slots for its descendants *)
EXTENDS Wait

CONSTANTS b, s1, s2
=============================================================================
