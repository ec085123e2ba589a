------------------------------ MODULE MCMntRpc ------------------------------
(* MntRpc for a few processes and a server *)
EXTENDS MntRpc, TLC

CONSTANTS p1, p2, p3, m1

(* Nothing tells one process from another *)
Perms == Permutations(Procs)

(* For liveness: p1 and p2 make calls without end, each with a Mntrpc of   *)
(* its own, or p3 makes one while both of them are about to send, and      *)
(* after these three there is only p3.  The note is for the last of the    *)
(* processes that have made calls.                                         *)
Own == p1 :> 1 @@ p2 :> 2 @@ p3 :> 3
Begins(p) == pc[p] = "idle" /\ pc'[p] # "idle"
Three == rpctag > Cardinality(Procs)
Few == /\ ~Three => /\ \A p \in Procs : mine'[p] \in {None, Own[p]}
                    /\ Begins(p3) => /\ pc[p1] = "send" /\ pc[p2] = "send"
                                     /\ noted = 0 /\ ~hung[m1]
       /\ Three => \A p \in Procs :
              Begins(p) => p = p3 /\ \A q \in Procs : pc[q] \in {"idle", "asleep"}
       /\ noted' # noted => notepending'[IF Three THEN p3 ELSE p2]

(* Weak fairness of Proceed(p) written out, because TLC is slow to find    *)
(* what is ENABLED: p is in a call, and has nothing to wait for.           *)
Runnable(p) ==
    /\ pc[p] # "idle"
    /\ pc[p] = "asleep" => notepending[p]
    /\ pc[p] = "read" => \/ done[mine[p]] \/ wire[on[p]] # <<>>
                         \/ notepending[p] \/ hung[on[p]]
RunnableIsEnabled == \A p \in Procs : Runnable(p) <=> ENABLED Proceed(p)
Runs(p) == []<>~Runnable(p) \/ []<><<Proceed(p)>>_vars

(* With Few as a constraint on the steps.                                  *)
FewSpec == /\ Init /\ [][Next]_vars
           /\ \A p \in Procs : Runs(p)
           /\ \A m \in Mounts, p \in Procs : WF_vars(AnswerFlushTo(m, p))
=============================================================================
