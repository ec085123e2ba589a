------------------------------ MODULE Exchange ------------------------------
(***************************************************************************)
(* What rendezvous(2) promises: two processes that call it with the same   *)
(* tag get each other's value in one step; a process that is interrupted   *)
(* gets the value Intr and nobody gets its value.                          *)
(***************************************************************************)
CONSTANTS Procs, Tags, Intr

VARIABLE at     \* where each process is, as a tag it waits on or a value it got

Out     == [in |-> "out"]
In(t)   == [in |-> "call", tag |-> t]
Got(v)  == [in |-> "met", value |-> v]

Init == at = [p \in Procs |-> Out]

Arrive(p, t) == at[p] = Out /\ at' = [at EXCEPT ![p] = In(t)]

(* The value of a process is its name.                                     *)
Meet(p, q, t) == /\ p # q /\ at[p] = In(t) /\ at[q] = In(t)
                 /\ at' = [at EXCEPT ![p] = Got(q), ![q] = Got(p)]

Interrupt(p, t) == at[p] = In(t) /\ at' = [at EXCEPT ![p] = Got(Intr)]

Leave(p) == at[p].in = "met" /\ at' = [at EXCEPT ![p] = Out]

Next == \E p \in Procs : \/ Leave(p)
                         \/ \E t \in Tags : \/ Arrive(p, t) \/ Interrupt(p, t)
                                            \/ \E q \in Procs : Meet(p, q, t)

Spec == Init /\ [][Next]_at
=============================================================================
