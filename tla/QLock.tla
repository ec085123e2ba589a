------------------------------- MODULE QLock -------------------------------
(***************************************************************************)
(* The kernel's queueing lock, port/qlock.c: a spin lock `use' guards the  *)
(* flag `locked' and the list of processes that wait.  qunlock never       *)
(* clears `locked' while somebody waits: it pops the head of the list and  *)
(* makes it ready, which passes the ownership on.                          *)
(*                                                                         *)
(* One lock and the processes that use it.  What qlock, canqlock and       *)
(* qunlock read of the lock they read right after lock(&q->use); what they *)
(* do with it is a step of its own, and so is the call of ready() that     *)
(* qunlock makes after unlock(&q->use).                                    *)
(***************************************************************************)
EXTENDS Naturals, Sequences

CONSTANTS Procs,   \* the processes that use the lock
          None     \* no process: a null pointer

ASSUME NoneAssumption == None \notin Procs

VARIABLES use,     \* the process inside lock(&q->use), or None
          locked,  \* q->locked
          queue,   \* the list q->head ... q->tail, linked through p->qnext
          state,   \* p->state, as far as the lock sets or needs it
          pc,      \* where p is in qlock, canqlock, qunlock or its caller
          next     \* qunlock's local p, the process to make ready

vars == <<use, locked, queue, state, pc, next>>

Inside == {"take", "wait", "refuse", "pass", "free"}  \* between lock and unlock

Places == Inside \cup {"idle", "sched", "held", "ready"}

TypeOK == /\ use \in Procs \cup {None}
          /\ locked \in BOOLEAN
          /\ queue \in Seq(Procs)
          /\ state \in [Procs -> {"Running", "Queueing", "Ready"}]
          /\ pc \in [Procs -> Places]
          /\ next \in [Procs -> Procs \cup {None}]

Init == /\ use = None
        /\ locked = FALSE
        /\ queue = <<>>
        /\ state = [p \in Procs |-> "Running"]
        /\ pc = [p \in Procs |-> "idle"]
        /\ next = [p \in Procs |-> None]
-----------------------------------------------------------------------------
(* Mutant: a lock that does not wait for the process inside to leave.      *)
LockOpen(p, from, to) == /\ pc[p] = from
                         /\ use' = p
                         /\ pc' = [pc EXCEPT ![p] = to]
                         /\ UNCHANGED <<locked, queue, state, next>>

(* lock(&q->use), spinning until nobody is inside, and the choice of what  *)
(* to do next.  A canlock that fails changes nothing.                      *)
Lock(p, from, to) == /\ pc[p] = from
                     /\ use = None
                     /\ use' = p
                     /\ pc' = [pc EXCEPT ![p] = to]
                     /\ UNCHANGED <<locked, queue, state, next>>

(* unlock(&q->use) and on to place `to'.                                   *)
Unlock(p, from, to) == /\ pc[p] = from
                       /\ use' = None
                       /\ pc' = [pc EXCEPT ![p] = to]

QLock(p) == Lock(p, "idle", IF locked THEN "wait" ELSE "take")

CanQLock(p) == Lock(p, "idle", IF locked THEN "refuse" ELSE "take")

QUnlock(p) == Lock(p, "held", IF queue = <<>> THEN "free" ELSE "pass")

(* The lock is free: take it.                                              *)
Take(p) == /\ Unlock(p, "take", "held")
           /\ locked' = TRUE
           /\ UNCHANGED <<queue, state, next>>

(* Mutant: the process marks itself the way sleep does.                    *)
WaitWakeme(p) == /\ Unlock(p, "wait", "sched")
                 /\ queue' = Append(queue, p)
                 /\ state' = [state EXCEPT ![p] = "Wakeme"]
                 /\ UNCHANGED <<locked, next>>

(* It is not: join the tail of the list and call sched().                  *)
Wait(p) == /\ Unlock(p, "wait", "sched")
           /\ queue' = Append(queue, p)
           /\ state' = [state EXCEPT ![p] = "Queueing"]
           /\ UNCHANGED <<locked, next>>

(* canqlock returns 0.                                                     *)
Refuse(p) == /\ Unlock(p, "refuse", "idle")
             /\ UNCHANGED <<locked, queue, state, next>>

(* sched() returns once somebody has called ready(p).                      *)
Resume(p) == /\ pc[p] = "sched"
             /\ state[p] = "Ready"
             /\ state' = [state EXCEPT ![p] = "Running"]
             /\ pc' = [pc EXCEPT ![p] = "held"]
             /\ UNCHANGED <<use, locked, queue, next>>

(* Mutant: the rest of the list is forgotten with its head.                *)
PassLosing(p) == /\ Unlock(p, "pass", "ready")
                 /\ queue' = <<>>
                 /\ next' = [next EXCEPT ![p] = Head(queue)]
                 /\ UNCHANGED <<locked, state>>

(* Mutant: the process that came last is served first.                     *)
PassLast(p) == /\ Unlock(p, "pass", "ready")
               /\ queue' = SubSeq(queue, 1, Len(queue) - 1)
               /\ next' = [next EXCEPT ![p] = queue[Len(queue)]]
               /\ UNCHANGED <<locked, state>>

(* Somebody waits: pop it, `locked' stays set.                             *)
Pass(p) == /\ Unlock(p, "pass", "ready")
           /\ queue' = Tail(queue)
           /\ next' = [next EXCEPT ![p] = Head(queue)]
           /\ UNCHANGED <<locked, state>>

Free(p) == /\ Unlock(p, "free", "idle")
           /\ locked' = FALSE
           /\ UNCHANGED <<queue, state, next>>

(* ready(p), outside the spin lock.                                        *)
Ready(p) == /\ pc[p] = "ready"
            /\ state' = [state EXCEPT ![next[p]] = "Ready"]
            /\ next' = [next EXCEPT ![p] = None]
            /\ pc' = [pc EXCEPT ![p] = "idle"]
            /\ UNCHANGED <<use, locked, queue>>

(* What a process does once it has called qlock, canqlock or qunlock.      *)
Proceed(p) == \/ Take(p) \/ Wait(p) \/ Refuse(p) \/ Resume(p)
              \/ Pass(p) \/ Free(p) \/ Ready(p)

Next == \E p \in Procs : QLock(p) \/ CanQLock(p) \/ QUnlock(p) \/ Proceed(p)

(* A process that is inside qlock, canqlock or qunlock keeps running.  A   *)
(* holder unlocks in the end, and a spinning process that finds `use' free *)
(* again and again gets it: lock() panics rather than starve for ever      *)
(* (taslock.c:16-25), so only strong fairness describes a run in which it  *)
(* does not.  Nobody has to call qlock or canqlock.                        *)
Fairness == \A p \in Procs : /\ WF_vars(Proceed(p))
                             /\ SF_vars(QUnlock(p))

Spec == Init /\ [][Next]_vars /\ Fairness
-----------------------------------------------------------------------------
(* The process to which a qunlock in progress is passing the lock.         *)
Passing(p) == \E s \in Procs : pc[s] = "ready" /\ next[s] = p

(* Who has the lock: a process between qlock and the end of qunlock, one   *)
(* that was made ready and has not run yet, or one that is being passed    *)
(* the lock.                                                               *)
Owns(p) == \/ pc[p] \in {"held", "pass", "free"}
           \/ pc[p] = "sched" /\ state[p] = "Ready"
           \/ Passing(p)

(* qlock.c:9-71: two processes never have the lock at once, over every     *)
(* hand-off from qunlock to a process that may not even have reached       *)
(* sched() yet, and q->locked is set exactly while somebody has it.        *)
MutualExclusion == /\ \A p, q \in Procs : Owns(p) /\ Owns(q) => p = q
                   /\ locked <=> \E p \in Procs : Owns(p)

(* qlock.c:22-32, 60-66: nobody is lost.  A process asleep in qlock is on  *)
(* the list, once, or is the one being passed the lock; and nobody else is *)
(* on the list.                                                            *)
NoLostWaiter ==
    /\ \A i, j \in 1..Len(queue) : queue[i] = queue[j] => i = j
    /\ \A p \in Procs :
          pc[p] = "sched" /\ state[p] = "Queueing"
             <=> Passing(p) \/ \E i \in 1..Len(queue) : queue[i] = p
    /\ \A p \in Procs : Passing(p) => \A i \in 1..Len(queue) : queue[i] # p

(* qlock.c: a process that queues up gets the lock, whoever else uses it.  *)
EveryWaiterServed == \A p \in Procs : pc[p] = "sched" ~> pc[p] = "held"

(* qlock.c:9-71: what the lock promises.  A process owns the lock from the *)
(* moment qlock takes it or qunlock pops it, and nobody ever overtakes a   *)
(* process that is on the list.                                            *)
Owner == IF \E p \in Procs : Owns(p) THEN CHOOSE p \in Procs : Owns(p) ELSE None

Promise == INSTANCE FairLock WITH owner <- Owner, waiters <- queue

FirstComeFirstServed == Promise!Spec
=============================================================================
