------------------------------ MODULE MCRWLock ------------------------------
(* RWLock for a few processes, each of which may read and write *)
EXTENDS RWLock
=============================================================================
