------------------------------- MODULE RWLock -------------------------------
(***************************************************************************)
(* The read/write lock of port/qlock.c, which guards the mount table of a  *)
(* process group (Pgrp.ns).  It is built from two queueing locks, which    *)
(* are taken here at the level FairLock describes and QLock implements:    *)
(* locked or not, and the processes that wait, oldest first.               *)
(*                                                                         *)
(* x is held by whoever wants in; k is held by a writer, or on behalf of   *)
(* all readers by the first of them.                                       *)
(***************************************************************************)
EXTENDS Naturals, Sequences, FiniteSets

CONSTANT Users     \* the processes that use the lock

ASSUME UsersAssumption == IsFiniteSet(Users)

VARIABLES x, k,     \* the queueing locks
          readers,  \* l->readers
          place     \* where p is in rlock ... wunlock or its caller

rwvars == <<x, k, readers, place>>

RWPlaces == {"idle", "rlock", "rqunlock", "reading",
             "wlock", "wqlock", "writing", "wunlock"}

QLockType == [locked : BOOLEAN, waiters : Seq(Users)]

RWTypeOK == /\ x \in QLockType /\ k \in QLockType
            /\ readers \in 0..Cardinality(Users)
            /\ place \in [Users -> RWPlaces]

Unlocked == [locked |-> FALSE, waiters |-> <<>>]

RWInit == /\ x = Unlocked /\ k = Unlocked
          /\ readers = 0
          /\ place = [p \in Users |-> "idle"]

Goto(p, from, to) == place[p] = from /\ place' = [place EXCEPT ![p] = to]
-----------------------------------------------------------------------------
(* qlock by p: take the lock or get in line.                               *)
Acquired(q, p) == IF q.locked THEN [q EXCEPT !.waiters = Append(@, p)]
                              ELSE [q EXCEPT !.locked = TRUE]

(* Whether p's qlock has returned: at once, or since qunlock popped p.     *)
Returned(q, p) == \A i \in 1..Len(q.waiters) : q.waiters[i] # p

(* canqlock.  It also fails when the spin lock of q is busy, but then some *)
(* process is inside its qunlock: as if canqlock had come just before.     *)
Tried(q) == [q EXCEPT !.locked = TRUE]

(* qunlock, by anybody: nothing in it looks at who locked q.               *)
Released(q) == IF q.waiters = <<>> THEN [q EXCEPT !.locked = FALSE]
                                   ELSE [q EXCEPT !.waiters = Tail(@)]

(* Mutant: readers do not wait for writers.                                *)
RLockFree(p) == Goto(p, "idle", "rlock") /\ UNCHANGED <<x, k, readers>>

RLock(p) == /\ Goto(p, "idle", "rlock")
            /\ x' = Acquired(x, p)
            /\ UNCHANGED <<k, readers>>

(* Under lock(l): count the reader and block writers.                      *)
RCount(p) == /\ Returned(x, p)
             /\ Goto(p, "rlock", "rqunlock")
             /\ readers' = readers + 1
             /\ k' = Tried(k)
             /\ UNCHANGED x

RQUnlock(p) == /\ Goto(p, "rqunlock", "reading")
               /\ x' = Released(x)
               /\ UNCHANGED <<k, readers>>

(* Mutant: the count is compared before it goes down.                      *)
RUnlockLate(p) == /\ Goto(p, "reading", "idle")
                  /\ readers' = readers - 1
                  /\ k' = IF readers = 0 THEN Released(k) ELSE k
                  /\ UNCHANGED x

(* Under lock(l): the last reader out allows writers.                      *)
RUnlock(p) == /\ Goto(p, "reading", "idle")
              /\ readers' = readers - 1
              /\ k' = IF readers = 1 THEN Released(k) ELSE k
              /\ UNCHANGED x

WLock(p) == /\ Goto(p, "idle", "wlock")
            /\ x' = Acquired(x, p)
            /\ UNCHANGED <<k, readers>>

WQLock(p) == /\ Returned(x, p)
             /\ Goto(p, "wlock", "wqlock")
             /\ k' = Acquired(k, p)
             /\ UNCHANGED <<x, readers>>

WEnter(p) == /\ Returned(k, p)
             /\ Goto(p, "wqlock", "writing")
             /\ UNCHANGED <<x, k, readers>>

(* wunlock lets go of x first ...                                          *)
WUnlock(p) == /\ Goto(p, "writing", "wunlock")
              /\ x' = Released(x)
              /\ UNCHANGED <<k, readers>>

(* ... and of k, whoever has it by then.                                   *)
WQUnlock(p) == /\ Goto(p, "wunlock", "idle")
               /\ k' = Released(k)
               /\ UNCHANGED <<x, readers>>

(* What a process does after it has called rlock or wlock.                 *)
RWProceed(p) == \/ RCount(p) \/ RQUnlock(p) \/ RUnlock(p)
                \/ WQLock(p) \/ WEnter(p) \/ WUnlock(p) \/ WQUnlock(p)

RWNext == \E p \in Users : RLock(p) \/ WLock(p) \/ RWProceed(p)

(* Whoever is inside goes on and leaves in the end; a step of RWProceed    *)
(* that is possible stays possible, so weak fairness describes the         *)
(* scheduler.                                                              *)
RWFairness == \A p \in Users : WF_rwvars(RWProceed(p))

RWSpec == RWInit /\ [][RWNext]_rwvars /\ RWFairness
-----------------------------------------------------------------------------
(* Every process takes x before it takes anything else: at most one writer *)
(* is inside, and no reader comes in while one is (qlock.c:76, 96).        *)
WritersExclude ==
    [][\A p \in Users :
          place[p] # place'[p] /\ place'[p] \in {"writing", "rqunlock"}
             => \A w \in Users \ {p} : place[w] # "writing"]_rwvars

(* portdat.h:457, "many read/one write lock", and qlock.c:79: a reader     *)
(* blocks writers from its rlock to its runlock.  Violated: between the    *)
(* two qunlocks of wunlock a reader gets past x, its canqlock(&l->k) fails *)
(* because the writer still has k, and the writer then lets go of it.      *)
ReadersBlockWriters ==
    \A r, w \in Users : place[r] = "reading" => place[w] # "writing"

(* A locked k always has somebody who is going to unlock it: a reader, or  *)
(* a writer that has k or that the last qunlock of it has popped.  A       *)
(* writer that only waits in k's line does not count: with nobody else     *)
(* there it would wait in qlock.c:97 for ever, as k is unlocked by         *)
(* processes that did not lock it (qlock.c:91, 105).                       *)
KWillBeReleased ==
    k.locked => \/ readers > 0
              \/ \E w \in Users : \/ place[w] = "wqlock" /\ Returned(k, w)
                                \/ place[w] \in {"writing", "wunlock"}

(* rlock and wlock return, for every process that calls them.              *)
EveryoneGetsIn == \A p \in Users : /\ place[p] = "rlock" ~> place[p] = "reading"
                                   /\ place[p] = "wlock" ~> place[p] = "writing"
=============================================================================
