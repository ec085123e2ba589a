----------------------------- MODULE LockProofs -----------------------------
(***************************************************************************)
(* Proofs about the two locks of port/qlock.c, for any number of           *)
(* processes.  First the queueing lock: mutual exclusion, no lost waiter,  *)
(* and that it implements the first-come first-served lock of FairLock.    *)
(* Then the read/write lock built from two of them.                        *)
(***************************************************************************)
EXTENDS QLock, RWLock, FiniteSetTheorems, TLAPS


(* The spin lock keeps everybody out between the reading of the lock and   *)
(* the step taken on what was read.                                        *)
Reading == /\ \A p \in Procs : use = p <=> pc[p] \in Inside
           /\ \A p \in Procs : pc[p] = "take" => ~locked
           /\ \A p \in Procs : pc[p] = "wait" => locked
           /\ \A p \in Procs : pc[p] = "pass" => queue # <<>>
           /\ \A p \in Procs : pc[p] = "free" => queue = <<>>

(* The lock of a list that is not empty is taken.                          *)
ListNeedsOwner == queue # <<>> => locked

(* p->state follows the place in the code.                                 *)
Sleeping == \A p \in Procs : pc[p] = "sched" <=> state[p] # "Running"

(* One qunlock passes the lock on at a time.                               *)
HandOff == /\ \A p \in Procs : pc[p] = "ready" => next[p] \in Procs
           /\ \A p, q \in Procs : pc[p] = "ready" /\ pc[q] = "ready" => p = q

IInv == /\ TypeOK
        /\ Reading
        /\ ListNeedsOwner
        /\ Sleeping
        /\ HandOff
        /\ MutualExclusion
        /\ NoLostWaiter
-----------------------------------------------------------------------------
(* At first the lock is free.                                              *)
LEMMA InitIInv == Init => IInv
<1> SUFFICES ASSUME Init PROVE IInv
  OBVIOUS
<1> USE NoneAssumption DEF Init
<1>1. TypeOK
  <2>1. use \in Procs \cup {None} /\ locked \in BOOLEAN
    OBVIOUS
  <2>2. state \in [Procs -> {"Running", "Queueing", "Ready"}]
    OBVIOUS
  <2>3. pc \in [Procs -> Places] /\ next \in [Procs -> Procs \cup {None}]
    BY DEF Places
  <2>4. queue \in Seq(Procs)
    OBVIOUS
  <2> QED
    BY <2>1, <2>2, <2>3, <2>4 DEF TypeOK
<1>2. Reading
  BY DEF Reading, Inside
<1>3. ListNeedsOwner /\ Sleeping /\ HandOff
  BY DEF ListNeedsOwner, Sleeping, HandOff
<1>4. MutualExclusion
  BY DEF MutualExclusion, Owns, Passing
<1>5. NoLostWaiter
  BY DEF NoLostWaiter, Passing
<1> QED
  BY <1>1, <1>2, <1>3, <1>4, <1>5 DEF IInv

(* Every variable keeps its type.                                          *)
LEMMA TypeStep == TypeOK /\ HandOff /\ Reading /\ [Next]_vars => TypeOK'
<1> SUFFICES ASSUME TypeOK, HandOff, Reading, [Next]_vars PROVE TypeOK'
  OBVIOUS
<1> USE DEF TypeOK, Places, Inside
<1>1. ASSUME NEW p \in Procs, QLock(p) \/ CanQLock(p) \/ QUnlock(p) PROVE TypeOK'
  BY <1>1 DEF QLock, CanQLock, QUnlock, Lock
<1>2. ASSUME NEW p \in Procs, Take(p) \/ Refuse(p) \/ Free(p) PROVE TypeOK'
  BY <1>2 DEF Take, Refuse, Free, Unlock
<1>3. ASSUME NEW p \in Procs, Wait(p) PROVE TypeOK'
  BY <1>3 DEF Wait, Unlock
<1>4. ASSUME NEW p \in Procs, Resume(p) PROVE TypeOK'
  BY <1>4 DEF Resume
<1>5. ASSUME NEW p \in Procs, Pass(p) PROVE TypeOK'
  <2>1. queue # <<>>
    BY <1>5 DEF Pass, Unlock, Reading
  <2>2. Head(queue) \in Procs /\ Tail(queue) \in Seq(Procs)
    BY <2>1
  <2> QED
    BY <1>5, <2>2 DEF Pass, Unlock
<1>6. ASSUME NEW p \in Procs, Ready(p) PROVE TypeOK'
  BY <1>6 DEF Ready, HandOff
<1>7. CASE UNCHANGED vars
  BY <1>7 DEF vars
<1> QED
  BY <1>1, <1>2, <1>3, <1>4, <1>5, <1>6, <1>7 DEF Next, Proceed

(* Entering the spin lock moves nobody in or out of the list or the lock.  *)
LEMMA LockStep ==
  ASSUME IInv, NEW p \in Procs, QLock(p) \/ CanQLock(p) \/ QUnlock(p)
  PROVE  Reading' /\ ListNeedsOwner' /\ Sleeping' /\ HandOff'
         /\ MutualExclusion' /\ NoLostWaiter'
<1> USE NoneAssumption DEF IInv, QLock, CanQLock, QUnlock, Lock, TypeOK
<1>1. Reading'
  BY DEF Reading, Inside
<1>2. ListNeedsOwner' /\ Sleeping' /\ HandOff'
  BY DEF ListNeedsOwner, Sleeping, HandOff
<1>3. \A q \in Procs : (Owns(q)' <=> Owns(q)) /\ (Passing(q)' <=> Passing(q))
  BY DEF Owns, Passing
<1>4. MutualExclusion'
  BY <1>3 DEF MutualExclusion
<1>5. NoLostWaiter'
  BY <1>3 DEF NoLostWaiter
<1> QED
  BY <1>1, <1>2, <1>4, <1>5

(* Nobody owned the lock that Take takes.                                  *)
LEMMA TakeStep ==
  ASSUME IInv, NEW p \in Procs, Take(p)
  PROVE  Reading' /\ ListNeedsOwner' /\ Sleeping' /\ HandOff'
         /\ MutualExclusion' /\ NoLostWaiter'
<1> USE NoneAssumption DEF IInv, Take, Unlock, TypeOK
<1>1. Reading'
  BY DEF Reading, Inside
<1>2. ListNeedsOwner' /\ Sleeping' /\ HandOff'
  BY DEF ListNeedsOwner, Sleeping, HandOff
<1>3. \A q \in Procs : ~Owns(q)
  BY DEF Reading, MutualExclusion
<1>4. \A q \in Procs : (Owns(q)' <=> q = p) /\ (Passing(q)' <=> Passing(q))
  BY <1>3 DEF Owns, Passing
<1>5. MutualExclusion'
  BY <1>4 DEF MutualExclusion
<1>6. NoLostWaiter'
  BY <1>4 DEF NoLostWaiter
<1> QED
  BY <1>1, <1>2, <1>5, <1>6

(* Wait puts a process on the list that was not on it.                     *)
LEMMA WaitStep ==
  ASSUME IInv, NEW p \in Procs, Wait(p)
  PROVE  Reading' /\ ListNeedsOwner' /\ Sleeping' /\ HandOff'
         /\ MutualExclusion' /\ NoLostWaiter'
<1> USE NoneAssumption DEF IInv, Wait, Unlock, TypeOK
<1>1. Reading'
  BY DEF Reading, Inside
<1>2. ListNeedsOwner' /\ Sleeping' /\ HandOff'
  BY DEF ListNeedsOwner, Sleeping, HandOff, Reading
<1>3. \A q \in Procs : (Owns(q)' <=> Owns(q)) /\ (Passing(q)' <=> Passing(q))
  BY DEF Owns, Passing
<1>4. MutualExclusion'
  BY <1>3 DEF MutualExclusion
<1>5. \A i \in 1..Len(queue) : queue[i] # p
  BY DEF NoLostWaiter
<1>6. ~Passing(p)
  BY DEF NoLostWaiter
<1>7. /\ Len(queue') = Len(queue) + 1
      /\ \A i \in 1..Len(queue) : queue'[i] = queue[i]
      /\ queue'[Len(queue) + 1] = p
      /\ Len(queue) \in Nat
  OBVIOUS
<1>8. NoLostWaiter'
  BY <1>3, <1>5, <1>6, <1>7 DEF NoLostWaiter
<1> QED
  BY <1>1, <1>2, <1>4, <1>8

(* canqlock finds the lock taken.                                          *)
LEMMA RefuseStep ==
  ASSUME IInv, NEW p \in Procs, Refuse(p)
  PROVE  Reading' /\ ListNeedsOwner' /\ Sleeping' /\ HandOff'
         /\ MutualExclusion' /\ NoLostWaiter'
<1> USE NoneAssumption DEF IInv, Refuse, Unlock, TypeOK
<1>1. Reading'
  BY DEF Reading, Inside
<1>2. ListNeedsOwner' /\ Sleeping' /\ HandOff'
  BY DEF ListNeedsOwner, Sleeping, HandOff
<1>3. \A q \in Procs : (Owns(q)' <=> Owns(q)) /\ (Passing(q)' <=> Passing(q))
  BY DEF Owns, Passing
<1>4. MutualExclusion'
  BY <1>3 DEF MutualExclusion
<1>5. NoLostWaiter'
  BY <1>3 DEF NoLostWaiter
<1> QED
  BY <1>1, <1>2, <1>4, <1>5

(* The process that resumes already owned the lock.                        *)
LEMMA ResumeStep ==
  ASSUME IInv, NEW p \in Procs, Resume(p)
  PROVE  Reading' /\ ListNeedsOwner' /\ Sleeping' /\ HandOff'
         /\ MutualExclusion' /\ NoLostWaiter'
<1> USE NoneAssumption DEF IInv, Resume, TypeOK
<1>1. Reading'
  BY DEF Reading, Inside
<1>2. ListNeedsOwner' /\ Sleeping' /\ HandOff'
  BY DEF ListNeedsOwner, Sleeping, HandOff
<1>3. \A q \in Procs : (Owns(q)' <=> Owns(q)) /\ (Passing(q)' <=> Passing(q))
  BY DEF Owns, Passing
<1>4. MutualExclusion'
  BY <1>3 DEF MutualExclusion
<1>5. NoLostWaiter'
  BY <1>3 DEF NoLostWaiter
<1> QED
  BY <1>1, <1>2, <1>4, <1>5

(* Pass moves the head of the list from the list into the hand-off, and    *)
(* the ownership from p to it.                                             *)
LEMMA PassStep ==
  ASSUME IInv, NEW p \in Procs, Pass(p)
  PROVE  Reading' /\ ListNeedsOwner' /\ Sleeping' /\ HandOff'
         /\ MutualExclusion' /\ NoLostWaiter'
<1> USE NoneAssumption DEF IInv, Pass, Unlock, TypeOK
<1> DEFINE h == Head(queue)
<1>1. queue # <<>> /\ Owns(p)
  BY DEF Reading, Owns
<1>2. \A q \in Procs : Owns(q) <=> q = p
  BY <1>1 DEF MutualExclusion
<1>3. /\ h = queue[1] /\ h \in Procs
      /\ Len(queue') = Len(queue) - 1
      /\ \A i \in 1..Len(queue') : queue'[i] = queue[i + 1]
      /\ Len(queue) \in Nat \ {0}
  BY <1>1
<1>4. pc[h] = "sched" /\ state[h] = "Queueing" /\ h # p
  BY <1>3 DEF NoLostWaiter
<1>5. \A s \in Procs : pc[s] # "ready"
  <2> SUFFICES ASSUME NEW s \in Procs, pc[s] = "ready" PROVE FALSE
    OBVIOUS
  <2>1. Owns(next[s]) /\ pc[next[s]] = "sched"
    BY DEF HandOff, Owns, Passing, NoLostWaiter
  <2> QED
    BY <1>2, <2>1 DEF HandOff
<1>6. \A q \in Procs : ~Passing(q) /\ (Passing(q)' <=> q = h)
  BY <1>3, <1>5 DEF Passing
<1>7. \A q \in Procs : Owns(q)' <=> q = h
  BY <1>2, <1>4, <1>6 DEF Owns
<1>8. Reading'
  BY DEF Reading, Inside
<1>9. locked
  BY <1>1 DEF MutualExclusion
<1>10. ListNeedsOwner' /\ Sleeping'
  BY <1>9 DEF ListNeedsOwner, Sleeping
<1>11. HandOff'
  BY <1>3, <1>5 DEF HandOff
<1>12. MutualExclusion'
  BY <1>3, <1>7, <1>9 DEF MutualExclusion
<1>13. NoLostWaiter'
  <2>1. \A i, j \in 1..Len(queue') : queue'[i] = queue'[j] => i = j
    BY <1>3 DEF NoLostWaiter
  <2>2. \A i \in 1..Len(queue') : queue'[i] # h
    BY <1>3 DEF NoLostWaiter
  <2>3. ASSUME NEW q \in Procs, q # h
        PROVE  (\E i \in 1..Len(queue') : queue'[i] = q)
                  <=> \E i \in 1..Len(queue) : queue[i] = q
    <3>1. ASSUME NEW i \in 1..Len(queue), queue[i] = q
          PROVE  i - 1 \in 1..Len(queue') /\ queue'[i - 1] = q
      BY <1>3, <2>3, <3>1
    <3>2. ASSUME NEW i \in 1..Len(queue'), queue'[i] = q
          PROVE  i + 1 \in 1..Len(queue) /\ queue[i + 1] = q
      BY <1>3, <3>2
    <3> QED
      BY <3>1, <3>2
  <2> QED
    BY <1>4, <1>6, <2>1, <2>2, <2>3 DEF NoLostWaiter
<1> QED
  BY <1>8, <1>10, <1>11, <1>12, <1>13

(* Free gives up a lock that nobody waits for.                             *)
LEMMA FreeStep ==
  ASSUME IInv, NEW p \in Procs, Free(p)
  PROVE  Reading' /\ ListNeedsOwner' /\ Sleeping' /\ HandOff'
         /\ MutualExclusion' /\ NoLostWaiter'
<1> USE NoneAssumption DEF IInv, Free, Unlock, TypeOK
<1>1. Reading'
  BY DEF Reading, Inside
<1>2. queue = <<>> /\ Owns(p)
  BY DEF Reading, Owns
<1>3. ListNeedsOwner' /\ Sleeping' /\ HandOff'
  BY <1>2 DEF ListNeedsOwner, Sleeping, HandOff
<1>4. \A q \in Procs : Passing(q)' <=> Passing(q)
  BY DEF Passing
<1>5. ~Passing(p)
  BY DEF NoLostWaiter
<1>6. \A q \in Procs : ~Owns(q)'
  BY <1>2, <1>4, <1>5 DEF Owns, MutualExclusion
<1>7. MutualExclusion'
  BY <1>6 DEF MutualExclusion
<1>8. NoLostWaiter'
  BY <1>4 DEF NoLostWaiter
<1> QED
  BY <1>1, <1>3, <1>7, <1>8

(* Ready ends the hand-off: its process goes on owning the lock.           *)
LEMMA ReadyStep ==
  ASSUME IInv, NEW p \in Procs, Ready(p)
  PROVE  Reading' /\ ListNeedsOwner' /\ Sleeping' /\ HandOff'
         /\ MutualExclusion' /\ NoLostWaiter'
<1> USE NoneAssumption DEF IInv, Ready, TypeOK
<1> DEFINE n == next[p]
<1>1. n \in Procs /\ Passing(n)
  BY DEF HandOff, Passing
<1>2. pc[n] = "sched" /\ state[n] = "Queueing" /\ n # p
  BY <1>1 DEF NoLostWaiter
<1>3. \A q \in Procs : (Passing(q) <=> q = n) /\ ~Passing(q)'
  BY <1>1 DEF Passing, HandOff
<1>4. \A q \in Procs : Owns(q)' <=> Owns(q)
  BY <1>1, <1>2, <1>3 DEF Owns
<1>5. Reading'
  BY DEF Reading, Inside
<1>6. ListNeedsOwner' /\ Sleeping' /\ HandOff'
  BY <1>1, <1>2 DEF ListNeedsOwner, Sleeping, HandOff
<1>7. MutualExclusion'
  BY <1>4 DEF MutualExclusion
<1>8. NoLostWaiter'
  BY <1>1, <1>2, <1>3 DEF NoLostWaiter
<1> QED
  BY <1>5, <1>6, <1>7, <1>8

(* Every step keeps it,                                                    *)
LEMMA StepIInv == IInv /\ [Next]_vars => IInv'
<1> SUFFICES ASSUME IInv, [Next]_vars PROVE IInv'
  OBVIOUS
<1>1. TypeOK'
  BY TypeStep DEF IInv
<1>2. ASSUME NEW p \in Procs, QLock(p) \/ CanQLock(p) \/ QUnlock(p) PROVE IInv'
  BY <1>1, <1>2, LockStep DEF IInv
<1>3. ASSUME NEW p \in Procs, Proceed(p) PROVE IInv'
  BY <1>1, <1>3, TakeStep, WaitStep, RefuseStep, ResumeStep, PassStep, FreeStep,
     ReadyStep DEF IInv, Proceed
<1>4. CASE UNCHANGED vars
  BY <1>4 DEF vars, IInv, TypeOK, Reading, ListNeedsOwner, Sleeping, HandOff,
     MutualExclusion, NoLostWaiter, Owns, Passing
<1> QED
  BY <1>2, <1>3, <1>4 DEF Next

(* so it holds always.                                                     *)
LEMMA Inductive == Spec => []IInv
  BY InitIInv, StepIInv, PTL DEF Spec

(* qlock.c keeps every variable within its type.                           *)
THEOREM TypeCorrect == Spec => []TypeOK
  BY Inductive, PTL DEF IInv

(* qlock.c:9-71: no two processes own the lock at once, for any number of  *)
(* processes and through every hand-off.                                   *)
THEOREM Exclusion == Spec => []MutualExclusion
  BY Inductive, PTL DEF IInv

(* qlock.c:22-32, 60-66: every process asleep in qlock is on the list once *)
(* or is being passed the lock.                                            *)
THEOREM WaitersKept == Spec => []NoLostWaiter
  BY Inductive, PTL DEF IInv
-----------------------------------------------------------------------------
(* With one owner at most, Owner is that process.                          *)
LEMMA OwnerIs ==
  ASSUME IInv
  PROVE  /\ \A p \in Procs : Owns(p) => Owner = p
         /\ (\A p \in Procs : ~Owns(p)) => Owner = None
  BY DEF Owner, IInv, MutualExclusion

(* The first states are first states of FairLock.                          *)
LEMMA InitPromise == Init => Promise!Init
  BY DEF Init, Promise!Init, Owner, Owns, Passing

(* Take acquires, Wait joins the queue, Pass and Free release; every other *)
(* step leaves the owner and the queue as they are.                        *)
LEMMA StepPromise ==
  ASSUME IInv, IInv', [Next]_vars
  PROVE  [Promise!Next]_<<Owner, queue>>
<1> USE NoneAssumption
<1>1. /\ \A p \in Procs : Owns(p) => Owner = p
      /\ (\A p \in Procs : ~Owns(p)) => Owner = None
  BY OwnerIs
<1>2. /\ \A p \in Procs : Owns(p)' => Owner' = p
      /\ (\A p \in Procs : ~Owns(p)') => Owner' = None
  BY DEF Owner, IInv, MutualExclusion
<1>3. ASSUME \A q \in Procs : Owns(q)' <=> Owns(q) PROVE Owner' = Owner
  BY <1>1, <1>2, <1>3
<1>4. ASSUME NEW p \in Procs, QLock(p) \/ CanQLock(p) \/ QUnlock(p)
      PROVE  UNCHANGED <<Owner, queue>>
  <2>1. \A q \in Procs : Owns(q)' <=> Owns(q)
    BY <1>4 DEF Owns, Passing, QLock, CanQLock, QUnlock, Lock, IInv, TypeOK
  <2> QED
    BY <1>3, <1>4, <2>1 DEF QLock, CanQLock, QUnlock, Lock
<1>5. ASSUME NEW p \in Procs, Take(p) PROVE Promise!Acquire(p)
  <2>1. ~locked /\ Owner = None /\ queue = <<>>
    BY <1>1, <1>5 DEF Take, Unlock, IInv, Reading, MutualExclusion, ListNeedsOwner
  <2>2. Owns(p)'
    BY <1>5 DEF Take, Unlock, Owns, IInv, TypeOK
  <2> QED
    BY <1>2, <1>5, <2>1, <2>2 DEF Take, Promise!Acquire
<1>6. ASSUME NEW p \in Procs, Wait(p) PROVE Promise!Wait(p)
  <2>1. \A q \in Procs : Owns(q)' <=> Owns(q)
    BY <1>6 DEF Owns, Passing, Wait, Unlock, IInv, TypeOK
  <2>2. locked /\ ~Owns(p) /\ \A i \in 1..Len(queue) : queue[i] # p
    BY <1>6 DEF Wait, Unlock, IInv, Reading, NoLostWaiter, Owns, TypeOK
  <2>3. Owner \notin {None, p}
    BY <1>1, <2>2 DEF IInv, MutualExclusion
  <2> QED
    BY <1>3, <1>6, <2>1, <2>2, <2>3 DEF Wait, Promise!Wait
<1>7. ASSUME NEW p \in Procs, Refuse(p) \/ Resume(p) PROVE UNCHANGED <<Owner, queue>>
  <2>1. \A q \in Procs : Owns(q)' <=> Owns(q)
    BY <1>7 DEF Owns, Passing, Refuse, Resume, Unlock, IInv, TypeOK
  <2> QED
    BY <1>3, <1>7, <2>1 DEF Refuse, Resume
<1>8. ASSUME NEW p \in Procs, Pass(p) PROVE Promise!Release
  <2>1. queue # <<>> /\ Head(queue) \in Procs /\ Owns(p)
    BY <1>8 DEF Pass, Unlock, IInv, Reading, TypeOK, Owns
  <2>2. PICK h \in Procs : h = Head(queue)
    BY <2>1
  <2>3. Owns(h)'
    BY <1>8, <2>2 DEF Pass, Unlock, IInv, TypeOK, Owns, Passing
  <2> QED
    BY <1>1, <1>2, <1>8, <2>1, <2>2, <2>3 DEF Pass, Promise!Release
<1>9. ASSUME NEW p \in Procs, Free(p) PROVE Promise!Release
  <2>1. queue = <<>> /\ Owns(p)
    BY <1>9 DEF Free, Unlock, IInv, Reading, Owns
  <2>2. \A q \in Procs : ~Owns(q)'
    BY <1>9 DEF Free, IInv, MutualExclusion
  <2> QED
    BY <1>1, <1>2, <1>9, <2>1, <2>2 DEF Free, Promise!Release
<1>10. ASSUME NEW p \in Procs, Ready(p) PROVE UNCHANGED <<Owner, queue>>
  <2>1. PICK h \in Procs : h = next[p]
    BY <1>10 DEF Ready, IInv, HandOff
  <2>2. Owns(h) /\ Owns(h)'
    BY <1>10, <2>1 DEF Ready, Owns, Passing, IInv, TypeOK, HandOff, NoLostWaiter
  <2> QED
    BY <1>1, <1>2, <1>10, <2>1, <2>2 DEF Ready
<1>11. CASE UNCHANGED vars
  BY <1>3, <1>11 DEF vars, Owns, Passing
<1> QED
  BY <1>4, <1>5, <1>6, <1>7, <1>8, <1>9, <1>10, <1>11
  DEF Next, Proceed, Promise!Next

(* qlock.c:9-71 implements the first-come first-served lock: qunlock gives *)
(* the lock to the process that has waited longest, and neither qlock nor  *)
(* canqlock overtakes it.                                                  *)
THEOREM Implements == Spec => FirstComeFirstServed
<1>1. IInv /\ IInv' /\ [Next]_vars => [Promise!Next]_<<Owner, queue>>
  BY StepPromise
<1> QED
  BY <1>1, InitPromise, Inductive, PTL DEF Spec, FirstComeFirstServed, Promise!Spec
-----------------------------------------------------------------------------

(* p has x: its qlock(&l->x) has returned and its qunlock is still to come. *)
HoldsX(p) == \/ place[p] \in {"rqunlock", "wqlock", "writing"}
             \/ place[p] \in {"rlock", "wlock"} /\ Returned(x, p)

(* One process at a time has x, and those in line for it, each once, are   *)
(* inside the qlock(&l->x) of rlock or wlock.                              *)
XLine == /\ \A i \in 1..Len(x.waiters) : place[x.waiters[i]] \in {"rlock", "wlock"}
         /\ \A i, j \in 1..Len(x.waiters) : x.waiters[i] = x.waiters[j] => i = j
XHeld == /\ \A p, q \in Users : HoldsX(p) /\ HoldsX(q) => p = q
         /\ ~x.locked => x.waiters = <<>> /\ \A p \in Users : ~HoldsX(p)

(* l->readers counts those between the count in rlock and that in runlock. *)
ReadersInside == {p \in Users : place[p] \in {"rqunlock", "reading"}}
Counted == readers = Cardinality(ReadersInside)

(* Only writers, inside the qlock(&l->k) of wlock, wait for k, each once:  *)
(* the one that qunlock pops is not among those that still wait.           *)
KLine == /\ \A i \in 1..Len(k.waiters) : place[k.waiters[i]] = "wqlock"
         /\ \A i, j \in 1..Len(k.waiters) : k.waiters[i] = k.waiters[j] => i = j

RWInv == /\ RWTypeOK
         /\ XLine
         /\ XHeld
         /\ Counted
         /\ KLine
         /\ KWillBeReleased
-----------------------------------------------------------------------------
(* qlock and qunlock as steps of a record: what they do to its fields.     *)
LEMMA AcquiredFacts ==
  ASSUME NEW q \in QLockType, NEW p \in Users
  PROVE  /\ Acquired(q, p) \in QLockType
         /\ Acquired(q, p).locked
         /\ q.locked => Acquired(q, p).waiters = Append(q.waiters, p)
         /\ ~q.locked => Acquired(q, p).waiters = q.waiters
<1>1. q.locked \in BOOLEAN /\ q.waiters \in Seq(Users)
  BY DEF QLockType
<1>2. Append(q.waiters, p) \in Seq(Users)
  BY <1>1
<1>3. CASE q.locked
  BY <1>1, <1>2, <1>3 DEF Acquired, QLockType
<1>4. CASE ~q.locked
  BY <1>1, <1>4 DEF Acquired, QLockType
<1> QED
  BY <1>3, <1>4

(* What a lock is once it is let go of.                                    *)
LEMMA ReleasedFacts ==
  ASSUME NEW q \in QLockType
  PROVE  /\ Released(q) \in QLockType
         /\ q.waiters = <<>> => ~Released(q).locked /\ Released(q).waiters = <<>>
         /\ q.waiters # <<>> => /\ Released(q).locked = q.locked
                               /\ Released(q).waiters = Tail(q.waiters)
<1>1. q.locked \in BOOLEAN /\ q.waiters \in Seq(Users)
  BY DEF QLockType
<1>2. CASE q.waiters = <<>>
  BY <1>1, <1>2 DEF Released, QLockType
<1>3. CASE q.waiters # <<>>
  <2>1. Tail(q.waiters) \in Seq(Users)
    BY <1>1, <1>3
  <2> QED
    BY <1>1, <1>3, <2>1 DEF Released, QLockType
<1> QED
  BY <1>2, <1>3

(* A lock that has been tried is locked.                                   *)
LEMMA TriedFacts ==
  ASSUME NEW q \in QLockType
  PROVE  /\ Tried(q) \in QLockType
         /\ Tried(q).locked
         /\ Tried(q).waiters = q.waiters
BY DEF Tried, QLockType

(* What Append and Tail do to the entries of a line of processes.          *)
LEMMA AppendEntries ==
  ASSUME NEW s \in Seq(Users), NEW p \in Users
  PROVE  /\ Len(Append(s, p)) = Len(s) + 1
         /\ \A i \in 1..Len(s) : Append(s, p)[i] = s[i]
         /\ Append(s, p)[Len(s) + 1] = p
OBVIOUS

(* The entries of a tail.                                                  *)
LEMMA TailEntries ==
  ASSUME NEW s \in Seq(Users), s # <<>>
  PROVE  /\ Len(s) \in Nat /\ Len(s) > 0
         /\ Len(Tail(s)) = Len(s) - 1
         /\ \A i \in 1..Len(Tail(s)) : Tail(s)[i] = s[i + 1]
OBVIOUS
-----------------------------------------------------------------------------
(* At first both locks are free.                                           *)
LEMMA RWInitInv == RWInit => RWInv
<1> SUFFICES ASSUME RWInit PROVE RWInv
  OBVIOUS
<1> USE DEF RWInit, Unlocked
<1>1. ReadersInside = {}
  BY DEF ReadersInside
<1>2. Cardinality({}) = 0 /\ Cardinality(Users) \in Nat
  BY FS_EmptySet, FS_CardinalityType, UsersAssumption
<1>3. RWTypeOK
  BY <1>2 DEF RWTypeOK, QLockType, RWPlaces
<1>4. XLine /\ XHeld
  BY DEF XLine, XHeld, HoldsX
<1>5. Counted /\ KLine /\ KWillBeReleased
  BY <1>1, <1>2 DEF Counted, KLine, KWillBeReleased
<1> QED
  BY <1>3, <1>4, <1>5 DEF RWInv

(* A step that joins the line for x, or takes x because nobody has it.     *)
LEMMA XAcquire ==
  ASSUME RWInv, NEW p \in Users, NEW to \in {"rlock", "wlock"},
         Goto(p, "idle", to), x' = Acquired(x, p)
  PROVE  XLine' /\ XHeld'
<1> USE DEF RWInv, RWTypeOK, Goto
<1>1. x \in QLockType /\ x.waiters \in Seq(Users) /\ x'.locked
  BY AcquiredFacts DEF QLockType
<1>2. \A i \in 1..Len(x.waiters) : x.waiters[i] # p
  BY DEF XLine
<1>3. \A i \in 1..Len(x.waiters) : x.waiters[i] \in Users
  BY <1>1
<1>4. CASE x.locked
  <2>1. x'.waiters = Append(x.waiters, p)
    BY <1>1, <1>4, AcquiredFacts
  <2>2. /\ Len(x'.waiters) = Len(x.waiters) + 1 /\ Len(x.waiters) \in Nat
        /\ \A i \in 1..Len(x.waiters) : x'.waiters[i] = x.waiters[i]
        /\ x'.waiters[Len(x.waiters) + 1] = p
    BY <1>1, <2>1, AppendEntries
  <2>3. XLine'
    <3>1. \A i \in 1..Len(x'.waiters) :
            i \in 1..Len(x.waiters) \/ i = Len(x.waiters) + 1
      BY <2>2
    <3>2. \A i \in 1..Len(x.waiters) :
            place'[x.waiters[i]] = place[x.waiters[i]]
      BY <1>2, <1>3
    <3>3. place'[p] \in {"rlock", "wlock"}
      OBVIOUS
    <3>4. \A i \in 1..Len(x'.waiters) : place'[x'.waiters[i]] \in {"rlock", "wlock"}
      BY SMTT(60), <2>2, <3>1, <3>2, <3>3 DEF XLine
    <3>5. \A i, j \in 1..Len(x'.waiters) : x'.waiters[i] = x'.waiters[j] => i = j
      <4> SUFFICES ASSUME NEW i \in 1..Len(x'.waiters), NEW j \in 1..Len(x'.waiters),
                          x'.waiters[i] = x'.waiters[j]
                   PROVE  i = j
        OBVIOUS
      <4>1. CASE i \in 1..Len(x.waiters) /\ j \in 1..Len(x.waiters)
        BY <2>2, <4>1 DEF XLine
      <4>2. CASE i = Len(x.waiters) + 1 \/ j = Len(x.waiters) + 1
        BY <1>2, <2>2, <3>1, <4>2
      <4> QED
        BY <3>1, <4>1, <4>2
    <3> QED
      BY <3>4, <3>5 DEF XLine
  <2>4. ~HoldsX(p)'
    BY <2>2 DEF HoldsX, Returned
  <2>5. \A q \in Users : HoldsX(q)' => HoldsX(q)
    BY SMTT(60), <2>2, <2>4 DEF HoldsX, Returned
  <2> QED
    BY <1>1, <2>3, <2>5 DEF XHeld
<1>5. CASE ~x.locked
  <2>1. x'.waiters = <<>>
    BY <1>1, <1>5, AcquiredFacts DEF XHeld
  <2>2. XLine'
    BY <2>1 DEF XLine
  <2>3. \A q \in Users : q # p => ~HoldsX(q)'
    BY <1>5, <2>1 DEF XHeld, HoldsX, Returned
  <2> QED
    BY <1>1, <2>2, <2>3 DEF XHeld
<1> QED
  BY <1>4, <1>5

(* A step that leaves x alone, by a process that keeps it or has no part   *)
(* in it.                                                                  *)
LEMMA XKeep ==
  ASSUME RWInv, NEW p \in Users, x' = x,
         NEW from \in RWPlaces, NEW to \in RWPlaces, Goto(p, from, to),
         \/ from \in {"rlock", "wlock"} /\ Returned(x, p)
         \/ from = "wqlock"
         \/ from \in {"reading", "wunlock"} /\ to = "idle",
         to \notin {"rlock", "wlock"}
  PROVE  XLine' /\ XHeld'
<1> USE DEF RWInv, RWTypeOK, Goto
<1>1. x.waiters \in Seq(Users)
  BY DEF QLockType
<1>2. \A i \in 1..Len(x.waiters) : x.waiters[i] # p
  BY DEF XLine, Returned
<1>3. XLine'
  BY <1>1, <1>2 DEF XLine
<1>4. \A q \in Users : HoldsX(q)' => HoldsX(q)
  BY <1>2 DEF HoldsX, Returned
<1>5. XHeld'
  BY <1>4 DEF XHeld
<1> QED
  BY <1>3, <1>5

(* The process that has x passes it to the first in line.                  *)
LEMMA XRelease ==
  ASSUME RWInv, NEW p \in Users, x' = Released(x),
         \/ Goto(p, "rqunlock", "reading")
         \/ Goto(p, "writing", "wunlock")
  PROVE  XLine' /\ XHeld'
<1> USE DEF RWInv, RWTypeOK, Goto
<1>1. x \in QLockType /\ x.waiters \in Seq(Users)
  BY DEF QLockType
<1>2. HoldsX(p) /\ ~HoldsX(p)' /\ x.locked
  BY DEF HoldsX, XHeld
<1>3. \A i \in 1..Len(x.waiters) : x.waiters[i] # p /\ x.waiters[i] \in Users
  BY <1>1 DEF XLine
<1>4. CASE x.waiters = <<>>
  <2>1. ~x'.locked /\ x'.waiters = <<>>
    BY <1>1, <1>4, ReleasedFacts
  <2>2. \A q \in Users : HoldsX(q)' => HoldsX(q) /\ q # p
    BY <1>2, <1>4, <2>1 DEF HoldsX, Returned
  <2> QED
    BY <1>2, <2>1, <2>2 DEF XLine, XHeld
<1>5. CASE x.waiters # <<>>
  <2>1. x'.locked = x.locked /\ x'.waiters = Tail(x.waiters)
    BY <1>1, <1>5, ReleasedFacts
  <2>2. /\ Len(x.waiters) \in Nat /\ Len(x.waiters) > 0
        /\ Len(x'.waiters) = Len(x.waiters) - 1
        /\ \A i \in 1..Len(x'.waiters) : x'.waiters[i] = x.waiters[i + 1]
    BY <1>1, <1>5, <2>1, TailEntries
  <2>3. XLine'
    BY SMTT(60), <1>3, <2>2 DEF XLine
  <2>4. \A i \in 1..Len(x.waiters) : i # 1 => x'.waiters[i - 1] = x.waiters[i]
    BY <2>2
  <2>5. \A q \in Users : HoldsX(q)' => q = x.waiters[1]
    <3> SUFFICES ASSUME NEW q \in Users, HoldsX(q)', q # x.waiters[1] PROVE FALSE
      OBVIOUS
    <3>1. q # p /\ ~HoldsX(q)
      BY <1>2 DEF XHeld
    <3>2. place'[q] = place[q]
      BY <3>1
    <3>3. ~Returned(x, q) /\ Returned(x, q)'
      BY <3>1, <3>2 DEF HoldsX
    <3>4. PICK i \in 1..Len(x.waiters) : x.waiters[i] = q
      BY <3>3 DEF Returned
    <3>5. i - 1 \in 1..Len(x'.waiters) /\ x'.waiters[i - 1] = q
      BY <2>2, <2>4, <3>4
    <3> QED
      BY <3>3, <3>5 DEF Returned
  <2> QED
    BY <1>2, <2>1, <2>3, <2>5 DEF XHeld
<1> QED
  BY <1>4, <1>5
-----------------------------------------------------------------------------
(* What the moves of one process do to the set of readers inside.          *)
LEMMA ReadersFinite ==
  ASSUME RWTypeOK
  PROVE  /\ IsFiniteSet(ReadersInside)
         /\ Cardinality(ReadersInside) \in 0..Cardinality(Users)
<1>1. ReadersInside \in SUBSET Users
  BY DEF ReadersInside
<1> QED
  BY <1>1, UsersAssumption, FS_Subset, FS_CardinalityType

(* Steps that leave the readers where they are.                            *)
LEMMA ReadersSame ==
  ASSUME RWInv, NEW p \in Users, NEW from \in RWPlaces, NEW to \in RWPlaces,
         Goto(p, from, to), readers' = readers,
         from \in {"rqunlock", "reading"} <=> to \in {"rqunlock", "reading"}
  PROVE  Counted'
<1>1. ReadersInside' = ReadersInside
  BY DEF ReadersInside, RWInv, RWTypeOK, Goto
<1> QED
  BY <1>1 DEF Counted, RWInv

(* Moves outside wlock's qlock(&l->k) ... qunlock(&l->k) have no part in k. *)
LEMMA KKeep ==
  ASSUME RWInv, NEW p \in Users, k' = k, readers' = readers,
         NEW from \in RWPlaces \ {"wqlock"}, NEW to \in RWPlaces, Goto(p, from, to),
         from \in {"writing", "wunlock"} => to \in {"writing", "wunlock"}
  PROVE  KLine' /\ KWillBeReleased'
<1>1. /\ k.waiters \in Seq(Users)
      /\ place[p] = from /\ place'[p] = to
      /\ \A q \in Users \ {p} : place'[q] = place[q]
  BY DEF RWInv, RWTypeOK, QLockType, Goto
<1>2. KLine'
  BY <1>1 DEF RWInv, KLine
<1>3. KWillBeReleased'
  BY <1>1 DEF RWInv, KWillBeReleased, Returned
<1> QED
  BY <1>2, <1>3

(* Whoever lets go of k leaves it to nobody or to a writer in wlock.       *)
LEMMA KRelease ==
  ASSUME k \in QLockType, k' = Released(k),
         \A i \in 1..Len(k.waiters) :
            k.waiters[i] \in Users /\ place'[k.waiters[i]] = "wqlock",
         \A i, j \in 1..Len(k.waiters) : k.waiters[i] = k.waiters[j] => i = j
  PROVE  k' \in QLockType /\ KLine' /\ KWillBeReleased'
<1>1. k' \in QLockType /\ k.waiters \in Seq(Users)
  BY ReleasedFacts DEF QLockType
<1>2. CASE k.waiters = <<>>
  BY <1>1, <1>2, ReleasedFacts DEF KLine, KWillBeReleased
<1>3. CASE k.waiters # <<>>
  <2>1. k'.waiters = Tail(k.waiters)
    BY <1>3, ReleasedFacts
  <2>2. /\ Len(k.waiters) \in Nat /\ Len(k.waiters) > 0
        /\ Len(k'.waiters) = Len(k.waiters) - 1
        /\ \A i \in 1..Len(k'.waiters) : k'.waiters[i] = k.waiters[i + 1]
    BY <1>1, <1>3, <2>1, TailEntries
  <2>3. KLine'
    BY SMTT(60), <2>2 DEF KLine
  <2>4. k.waiters[1] \in Users /\ place'[k.waiters[1]] = "wqlock"
    BY <2>2
  <2>5. Returned(k', k.waiters[1])
    BY <2>2 DEF Returned
  <2> QED
    BY <2>3, <2>4, <2>5, <1>1 DEF KWillBeReleased, Returned
<1> QED
  BY <1>2, <1>3
-----------------------------------------------------------------------------
(* One lemma for each action: a reader counts itself in,                   *)
LEMMA RCountStep ==
  ASSUME RWInv, NEW p \in Users, RCount(p)
  PROVE  RWInv'
<1> USE DEF RCount
<1>1. XLine' /\ XHeld'
  BY XKeep DEF RWPlaces
<1>2. p \notin ReadersInside /\ ReadersInside' = ReadersInside \cup {p}
  BY DEF ReadersInside, Goto, RWInv, RWTypeOK
<1>3. Counted' /\ readers \in Nat
  BY SMTT(60), <1>2, ReadersFinite, FS_AddElement DEF Counted, RWInv
<1>4. k \in QLockType /\ k' \in QLockType /\ k'.waiters = k.waiters
  BY TriedFacts DEF RWInv, RWTypeOK
<1>5. RWTypeOK'
  <2>1. place' \in [Users -> RWPlaces] /\ x' \in QLockType
    BY DEF RWInv, RWTypeOK, Goto, RWPlaces
  <2>2. ReadersInside' \in SUBSET Users
    BY DEF ReadersInside
  <2>3. Cardinality(ReadersInside') \in 0..Cardinality(Users)
    BY <2>2, UsersAssumption, FS_Subset, FS_CardinalityType
  <2> QED
    BY <1>3, <1>4, <2>1, <2>3 DEF RWTypeOK, Counted
<1>6. KLine'
  <2>1. \A i \in 1..Len(k.waiters) : place'[k.waiters[i]] = "wqlock"
    BY DEF KLine, RWInv, RWTypeOK, QLockType, Goto
  <2> QED
    BY <1>4, <2>1 DEF KLine, RWInv
<1>7. KWillBeReleased'
  BY <1>3 DEF KWillBeReleased
<1> QED
  BY <1>1, <1>3, <1>5, <1>6, <1>7 DEF RWInv

(* and out again;                                                          *)
LEMMA RUnlockStep ==
  ASSUME RWInv, NEW p \in Users, RUnlock(p)
  PROVE  RWInv'
<1> USE DEF RUnlock
<1>1. XLine' /\ XHeld'
  BY XKeep DEF RWPlaces
<1>2. p \in ReadersInside /\ ReadersInside' = ReadersInside \ {p}
  BY DEF ReadersInside, Goto, RWInv, RWTypeOK
<1>3. IsFiniteSet(ReadersInside) /\ readers = Cardinality(ReadersInside)
  BY ReadersFinite DEF RWInv, Counted
<1>4. Counted' /\ readers \in Nat /\ readers \in 0..Cardinality(Users)
  <2>1. Cardinality(ReadersInside \ {p}) = Cardinality(ReadersInside) - 1
    BY <1>2, <1>3, FS_RemoveElement
  <2>2. Cardinality(Users) \in Nat
    BY FS_CardinalityType, UsersAssumption
  <2> QED
    BY <1>2, <1>3, <2>1, <2>2, ReadersFinite DEF Counted, RWInv
<1>5. readers > 0
  BY <1>2, <1>3, <1>4, FS_EmptySet
<1>6. k \in QLockType /\ Released(k) \in QLockType /\ k.waiters \in Seq(Users)
  BY ReleasedFacts DEF RWInv, RWTypeOK, QLockType
<1>7. RWTypeOK'
  <2>1. place' \in [Users -> RWPlaces] /\ x' \in QLockType
    BY DEF RWInv, RWTypeOK, Goto, RWPlaces
  <2>2. readers' \in 0..Cardinality(Users)
    BY <1>4, <1>5, FS_CardinalityType, UsersAssumption
  <2> QED
    BY <1>6, <2>1, <2>2 DEF RWTypeOK
<1>8. \A i \in 1..Len(k.waiters) : k.waiters[i] # p /\ k.waiters[i] \in Users
  BY <1>6 DEF RWInv, KLine, Goto
<1>9. \A i \in 1..Len(k.waiters) : place'[k.waiters[i]] = "wqlock"
  BY <1>8 DEF RWInv, KLine, Goto, RWTypeOK
<1>10. KLine' /\ KWillBeReleased'
  <2>1. CASE readers # 1
    BY <1>4, <1>5, <1>9, <2>1 DEF RWInv, KLine, KWillBeReleased
  <2>2. CASE readers = 1
    BY <1>6, <1>8, <1>9, <2>2, KRelease DEF RWInv, KLine
  <2> QED
    BY <2>1, <2>2
<1> QED
  BY <1>1, <1>4, <1>7, <1>10 DEF RWInv

(* Joining the line for x: rlock and wlock.                                *)
LEMMA XLockStep ==
  ASSUME RWInv, NEW p \in Users, RLock(p) \/ WLock(p)
  PROVE  RWInv'
<1> USE DEF RLock, WLock
<1>1. XLine' /\ XHeld'
  BY XAcquire
<1>2. RWTypeOK'
  BY AcquiredFacts DEF RWInv, RWTypeOK, Goto, RWPlaces
<1>3. Counted'
  BY ReadersSame DEF RWPlaces
<1>4. KLine' /\ KWillBeReleased'
  BY KKeep DEF RWPlaces
<1> QED
  BY <1>1, <1>2, <1>3, <1>4 DEF RWInv

(* Passing x on: the reader that is counted, and the writer on its way out. *)
LEMMA XUnlockStep ==
  ASSUME RWInv, NEW p \in Users, RQUnlock(p) \/ WUnlock(p)
  PROVE  RWInv'
<1> USE DEF RQUnlock, WUnlock
<1>1. XLine' /\ XHeld'
  BY XRelease
<1>2. RWTypeOK'
  BY ReleasedFacts DEF RWInv, RWTypeOK, Goto, RWPlaces
<1>3. Counted'
  BY ReadersSame DEF RWPlaces
<1>4. KLine' /\ KWillBeReleased'
  BY KKeep DEF RWPlaces
<1> QED
  BY <1>1, <1>2, <1>3, <1>4 DEF RWInv

(* a writer takes its second lock,                                         *)
LEMMA WQLockStep ==
  ASSUME RWInv, NEW p \in Users, WQLock(p)
  PROVE  RWInv'
<1> USE DEF WQLock
<1>1. XLine' /\ XHeld'
  BY XKeep DEF RWPlaces
<1>2. Counted'
  BY ReadersSame DEF RWPlaces
<1>3. /\ k \in QLockType /\ k' \in QLockType /\ k.waiters \in Seq(Users)
      /\ place[p] = "wlock" /\ place'[p] = "wqlock"
      /\ \A q \in Users \ {p} : place'[q] = place[q]
  BY AcquiredFacts DEF RWInv, RWTypeOK, QLockType, Goto
<1>4. RWTypeOK'
  BY <1>3 DEF RWInv, RWTypeOK, Goto, RWPlaces
<1>5. /\ \A i \in 1..Len(k.waiters) : /\ place'[k.waiters[i]] = "wqlock"
                                     /\ k.waiters[i] # p
      /\ \A i, j \in 1..Len(k.waiters) : k.waiters[i] = k.waiters[j] => i = j
  BY <1>3 DEF RWInv, KLine
<1>6. KLine'
  <2>1. CASE k.locked
    <3>1. k'.waiters = Append(k.waiters, p)
      BY <1>3, <2>1, AcquiredFacts
    <3>2. /\ Len(k'.waiters) = Len(k.waiters) + 1 /\ Len(k.waiters) \in Nat
          /\ \A i \in 1..Len(k.waiters) : k'.waiters[i] = k.waiters[i]
          /\ k'.waiters[Len(k.waiters) + 1] = p
      BY <1>3, <3>1, AppendEntries
    <3>3. \A i \in 1..Len(k'.waiters) :
            i \in 1..Len(k.waiters) \/ i = Len(k.waiters) + 1
      BY <3>2
    <3>4. \A i \in 1..Len(k'.waiters) : place'[k'.waiters[i]] = "wqlock"
      BY <1>3, <1>5, <3>2, <3>3
    <3>5. ASSUME NEW i \in 1..Len(k'.waiters), NEW j \in 1..Len(k'.waiters),
                 k'.waiters[i] = k'.waiters[j]
          PROVE  i = j
      <4>1. CASE i \in 1..Len(k.waiters) /\ j \in 1..Len(k.waiters)
        BY <1>5, <3>2, <3>5, <4>1
      <4>2. CASE i = Len(k.waiters) + 1 \/ j = Len(k.waiters) + 1
        BY <1>5, <3>2, <3>3, <3>5, <4>2
      <4> QED
        BY <3>3, <4>1, <4>2
    <3> QED
      BY <3>4, <3>5 DEF KLine
  <2>2. CASE ~k.locked
    <3>1. k'.waiters = k.waiters
      BY <1>3, <2>2, AcquiredFacts
    <3> QED
      BY <1>5, <3>1 DEF KLine
  <2> QED
    BY <2>1, <2>2
<1>7. KWillBeReleased'
  <2>1. CASE k.locked
    <3>1. k'.waiters = Append(k.waiters, p)
      BY <1>3, <2>1, AcquiredFacts
    <3>2. /\ Len(k'.waiters) = Len(k.waiters) + 1 /\ Len(k.waiters) \in Nat
          /\ \A i \in 1..Len(k.waiters) : k'.waiters[i] = k.waiters[i]
          /\ k'.waiters[Len(k.waiters) + 1] = p
      BY <1>3, <3>1, AppendEntries
    <3>3. \A w \in Users : w # p /\ Returned(k, w) => Returned(k', w)
      BY <3>2 DEF Returned
    <3> QED
      BY <1>3, <2>1, <3>3 DEF RWInv, KWillBeReleased, Returned
  <2>2. CASE ~k.locked
    <3>1. k'.waiters = k.waiters
      BY <1>3, <2>2, AcquiredFacts
    <3>2. Returned(k', p)
      BY <1>5, <3>1 DEF Returned
    <3> QED
      BY <1>3, <3>2 DEF KWillBeReleased, Returned
  <2> QED
    BY <2>1, <2>2
<1> QED
  BY <1>1, <1>2, <1>4, <1>6, <1>7 DEF RWInv

(* Nobody but the one that enters was in the line for k.                   *)
LEMMA WEnterStep ==
  ASSUME RWInv, NEW p \in Users, WEnter(p)
  PROVE  RWInv'
<1> USE DEF WEnter
<1>1. XLine' /\ XHeld'
  BY XKeep DEF RWPlaces
<1>2. Counted'
  BY ReadersSame DEF RWPlaces
<1>3. RWTypeOK'
  BY DEF RWInv, RWTypeOK, Goto, RWPlaces
<1>4. /\ k.waiters \in Seq(Users)
      /\ place[p] = "wqlock" /\ place'[p] = "writing"
      /\ \A q \in Users \ {p} : place'[q] = place[q]
  BY DEF RWInv, RWTypeOK, QLockType, Goto
<1>5. KLine'
  BY <1>4 DEF RWInv, KLine, Returned
<1>6. KWillBeReleased'
  BY <1>4 DEF RWInv, KWillBeReleased
<1> QED
  BY <1>1, <1>2, <1>3, <1>5, <1>6 DEF RWInv

(* and lets go of it.                                                      *)
LEMMA WQUnlockStep ==
  ASSUME RWInv, NEW p \in Users, WQUnlock(p)
  PROVE  RWInv'
<1> USE DEF WQUnlock
<1>1. XLine' /\ XHeld'
  BY XKeep DEF RWPlaces
<1>2. Counted'
  BY ReadersSame DEF RWPlaces
<1>3. k \in QLockType /\ k.waiters \in Seq(Users)
  BY DEF RWInv, RWTypeOK, QLockType
<1>4. \A i \in 1..Len(k.waiters) :
         k.waiters[i] \in Users /\ place'[k.waiters[i]] = "wqlock"
  BY <1>3 DEF RWInv, RWTypeOK, KLine, Goto
<1>5. k' \in QLockType /\ KLine' /\ KWillBeReleased'
  BY <1>3, <1>4, KRelease DEF RWInv, KLine
<1>6. RWTypeOK'
  BY <1>5 DEF RWInv, RWTypeOK, Goto, RWPlaces
<1> QED
  BY <1>1, <1>2, <1>5, <1>6 DEF RWInv

(* Every step keeps it,                                                    *)
LEMMA RWStepInv == RWInv /\ [RWNext]_rwvars => RWInv'
<1> SUFFICES ASSUME RWInv, [RWNext]_rwvars PROVE RWInv'
  OBVIOUS
<1>1. ASSUME NEW p \in Users, RLock(p) \/ WLock(p) \/ RWProceed(p) PROVE RWInv'
  BY <1>1, XLockStep, RCountStep, XUnlockStep, RUnlockStep, WQLockStep,
     WEnterStep, WQUnlockStep DEF RWProceed
<1>2. CASE UNCHANGED rwvars
  BY <1>2 DEF rwvars, RWInv, RWTypeOK, XLine, XHeld, HoldsX, Returned, Counted,
              ReadersInside, KLine, KWillBeReleased
<1> QED
  BY <1>1, <1>2 DEF RWNext

(* so it holds always.                                                     *)
LEMMA RWInductive == RWSpec => []RWInv
BY RWInitInv, RWStepInv, PTL DEF RWSpec
-----------------------------------------------------------------------------
(* The read/write lock keeps its types; its count of readers never leaves  *)
(* 0..Cardinality(Users), though it is changed outside x (qlock.c:79, 90). *)
THEOREM RWTypeCorrect == RWSpec => []RWTypeOK
BY RWInductive, PTL DEF RWInv

(* A locked k has a reader inside, or a writer that its qlock(&l->k) has   *)
(* returned to or qunlock has popped, and that is still going to unlock    *)
(* it: never only writers in its line (qlock.c:79, 91, 97, 105).           *)
THEOREM KIsReleased == RWSpec => []KWillBeReleased
BY RWInductive, PTL DEF RWInv

(* A process that comes in, to read or to write, finds no writer inside    *)
(* (qlock.c:76, 96): whoever comes in has x, and so has whoever writes.    *)
THEOREM RWExclusion == RWSpec => WritersExclude
<1>1. ASSUME RWInv, RWNext,
             NEW p \in Users, place[p] # place'[p], place'[p] \in {"writing", "rqunlock"},
             NEW w \in Users \ {p}
      PROVE  place[w] # "writing"
  <2>1. HoldsX(p)
    <3>1. PICK q \in Users : RLock(q) \/ WLock(q) \/ RWProceed(q)
      BY <1>1 DEF RWNext
    <3>2. p = q
      BY <1>1, <3>1 DEF RLock, WLock, RWProceed, RCount, RQUnlock, RUnlock,
                        WQLock, WEnter, WUnlock, WQUnlock, Goto, RWInv, RWTypeOK
    <3> QED
      BY <1>1, <3>1, <3>2 DEF RLock, WLock, RWProceed, RCount, RQUnlock, RUnlock,
                        WQLock, WEnter, WUnlock, WQUnlock, Goto, RWInv, RWTypeOK, HoldsX
  <2> QED
    BY <1>1, <2>1 DEF RWInv, XHeld, HoldsX
<1>2. RWInv /\ [RWNext]_rwvars
        => [\A p \in Users : place[p] # place'[p] /\ place'[p] \in {"writing", "rqunlock"}
               => \A w \in Users \ {p} : place[w] # "writing"]_rwvars
  BY <1>1
<1> QED
  BY <1>2, RWInductive, PTL DEF RWSpec, WritersExclude
=============================================================================
