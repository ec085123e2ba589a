------------------------------ MODULE FairLock ------------------------------
(***************************************************************************)
(* What a queueing lock promises its callers: one owner at a time, and     *)
(* first come, first served.  A release gives the lock to the process that *)
(* has waited longest, in the same step.                                   *)
(***************************************************************************)
EXTENDS Naturals, Sequences

CONSTANTS Procs,   \* the processes that use the lock
          None     \* no process

VARIABLES owner,   \* who has the lock, or None
          waiters  \* who waits for it, oldest first

Init == owner = None /\ waiters = <<>>

(* Only a free lock is taken, and it is free only if nobody waits.         *)
Acquire(p) == /\ owner = None
              /\ waiters = <<>>
              /\ owner' = p
              /\ UNCHANGED waiters

Wait(p) == /\ owner \notin {None, p}
           /\ \A i \in 1..Len(waiters) : waiters[i] # p
           /\ waiters' = Append(waiters, p)
           /\ UNCHANGED owner

Release == /\ owner # None
           /\ IF waiters = <<>>
              THEN owner' = None /\ UNCHANGED waiters
              ELSE owner' = Head(waiters) /\ waiters' = Tail(waiters)

Next == Release \/ \E p \in Procs : Acquire(p) \/ Wait(p)

Spec == Init /\ [][Next]_<<owner, waiters>>
=============================================================================
