------------------------------ MODULE MCRendez ------------------------------
(* Rendez for a few processes that meet at two tags *)
EXTENDS Rendez, TLC

(* Nothing tells one process, or one tag, from another *)
Perms == Permutations(Procs) \cup Permutations(Tags)
=============================================================================
