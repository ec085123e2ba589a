------------------------------- MODULE MCProc -------------------------------
(***************************************************************************)
(* Proc for a few processes.  Every run gives each rendezvous its sleeper, *)
(* so that the other processes are free to post notes, fork and exit.      *)
(***************************************************************************)
EXTENDS Proc, TLC

CONSTANTS p1, p2, p3, r1, r2

(* One process waits for one device, or now for one, now for another.      *)
OneSleeper == r1 :> p1
TwoDevices == r1 :> p1 @@ r2 :> p1
=============================================================================
