---------------------------------- MODULE Wait ----------------------------------
(***************************************************************************)
(* The life of a process, as its parent sees it: rfork, pexit and pwait    *)
(* (port/sysproc.c, port/proc.c).  A process is a slot of the table, which *)
(* is used again under another pid.  A section under p->exl is one step,   *)
(* and so is a wakeup or a sleep, which hold the lock of waitr.            *)
(***************************************************************************)
EXTENDS Integers, Sequences, FiniteSets

CONSTANTS Procs, Boot,     \* slots, and that of the first process
          Zombies,         \* how many wait records a process may have: 128
          MaxPid,          \* bound: pids
          None

ASSUME WaitAssumption == /\ IsFiniteSet(Procs) /\ Boot \in Procs /\ None \notin Procs
                         /\ Zombies \in Nat /\ MaxPid \in Nat \ {0}

VARIABLES pc, pid,
          parent, parentpid,
          nchild, waitq,   \* p->nwait is the length of p->waitq
          pidalloc,
          child,           \* the slot that rfork is filling
          missed           \* ghost: children of p that left no record

link == <<parent, parentpid>>
vars == <<pc, pid, link, nchild, waitq, pidalloc, child, missed>>

TypeOK ==
    /\ pc \in [Procs -> {"dead", "new", "user", "fork", "exit", "wakeparent", "broken", "clear",
                         "freewaits", "moribund", "sleep", "asleep", "take", "panic"}]
    /\ pid \in [Procs -> 0..MaxPid] /\ parent \in [Procs -> Procs \cup {None}]
    /\ parentpid \in [Procs -> 0..MaxPid] /\ pidalloc \in 1..MaxPid
    /\ nchild \in [Procs -> Nat] /\ missed \in [Procs -> Nat]
    /\ \A p \in Procs : Len(waitq[p]) <= Zombies
    /\ child \in [Procs -> Procs \cup {None}]

Init == /\ pc = [p \in Procs |-> IF p = Boot THEN "user" ELSE "dead"]
        /\ pid = [p \in Procs |-> IF p = Boot THEN 1 ELSE 0] /\ pidalloc = 1
        /\ parent = [p \in Procs |-> None] /\ parentpid = [p \in Procs |-> 0]
        /\ nchild = [p \in Procs |-> 0] /\ waitq = [p \in Procs |-> <<>>]
        /\ child = [p \in Procs |-> None] /\ missed = [p \in Procs |-> 0]

(* A kernel that follows a null pointer is at its end.                     *)
Panicked == \E p \in Procs : pc[p] = "panic"
-----------------------------------------------------------------------------
Goto(p, from, to) == pc[p] = from /\ pc' = [pc EXCEPT ![p] = to]

(* rfork: newproc takes a slot ...                                         *)
NewProc(p, c) ==
    /\ pc[p] = "user" /\ pc[c] = "dead" /\ pidalloc < MaxPid
    /\ pc' = [pc EXCEPT ![p] = "fork", ![c] = "new"]
    /\ pidalloc' = pidalloc + 1 /\ pid' = [pid EXCEPT ![c] = pidalloc']
    /\ nchild' = [nchild EXCEPT ![c] = 0] /\ waitq' = [waitq EXCEPT ![c] = <<>>]
    /\ missed' = [missed EXCEPT ![c] = 0]
    /\ child' = [child EXCEPT ![p] = c]
    /\ UNCHANGED link

(* ... which becomes a process that knows its parent, and counts, unless   *)
(* it is not to be waited for.  (The first process waits for all of its.)  *)
Ready(p, nowait) == LET c == child[p] IN
    /\ pc[p] = "fork" /\ (nowait => p # Boot)
    /\ pc' = [pc EXCEPT ![p] = "user", ![c] = "user"]
    /\ parent' = [parent EXCEPT ![c] = p]
    /\ parentpid' = [parentpid EXCEPT ![c] = IF nowait THEN 1 ELSE pid[p]]
    /\ nchild' = [nchild EXCEPT ![p] = IF nowait THEN @ ELSE @ + 1]
    /\ child' = [child EXCEPT ![p] = None]
    /\ UNCHANGED <<pid, waitq, pidalloc, missed>>
-----------------------------------------------------------------------------
(* pexit.                                                                  *)
Exit(c) == /\ parent[c] # None /\ Goto(c, "user", "exit")
           /\ UNCHANGED <<pid, link, nchild, waitq, pidalloc, child, missed>>

(* Mutant: whoever is in the parent's slot is the parent.                  *)
IsParentSlot(p, c) == pid[p] # 0

IsParent(p, c) == pid[p] = parentpid[c]

Accepts(p, c) == IsParent(p, c) /\ pc[p] # "broken" /\ Len(waitq[p]) < Zombies

(* Mutant: a child that has left its record is still counted.              *)
ReportCounted(c) == LET p == parent[c] IN
    /\ Goto(c, "exit", "wakeparent") /\ Accepts(p, c)
    /\ waitq' = [waitq EXCEPT ![p] = <<[pid |-> pid[c], of |-> parentpid[c]]>> \o @]
    /\ UNCHANGED <<pid, link, nchild, pidalloc, child, missed>>

(* A record for the parent, if it is still there ...                       *)
Report(c) == LET p == parent[c] IN
    /\ Goto(c, "exit", "wakeparent") /\ Accepts(p, c)
    /\ waitq' = [waitq EXCEPT ![p] = <<[pid |-> pid[c], of |-> parentpid[c]]>> \o @]
    /\ nchild' = [nchild EXCEPT ![p] = @ - 1]
    /\ UNCHANGED <<pid, link, pidalloc, child, missed>>

(* ... or none.  A process that broke is kept for its debugger.            *)
After(c, from) == \/ Goto(c, from, "clear") \/ Goto(c, from, "broken")

NoReport(c) == LET p == parent[c] IN
    /\ After(c, "exit") /\ ~Accepts(p, c)
    /\ missed' = IF IsParent(p, c) THEN [missed EXCEPT ![p] = @ + 1] ELSE missed
    /\ UNCHANGED <<pid, link, nchild, waitq, pidalloc, child>>

Wakes(p) == pc[p] = "asleep"

(* wakeup(&p->waitr): by now anyone may be in the slot.                    *)
WakeParent(c) == LET p == parent[c] IN
    /\ pc[c] = "wakeparent"
    /\ \E to \in {"clear", "broken"} :
           pc' = [x \in Procs |-> IF x = c THEN to ELSE IF x = p /\ Wakes(p) THEN "take" ELSE pc[x]]
    /\ UNCHANGED <<pid, link, nchild, waitq, pidalloc, child, missed>>

(* Killed by the debugger, or memory is low, or others broke after it.     *)
Unbreak(c) == /\ Goto(c, "broken", "clear")
              /\ UNCHANGED <<pid, link, nchild, waitq, pidalloc, child, missed>>

(* Its children leave no records from now on.                              *)
ClearPid(c) == /\ Goto(c, "clear", "freewaits") /\ pid' = [pid EXCEPT ![c] = 0]
               /\ UNCHANGED <<link, nchild, waitq, pidalloc, child, missed>>

FreeWaits(c) == /\ Goto(c, "freewaits", "moribund") /\ waitq' = [waitq EXCEPT ![c] = <<>>]
                /\ UNCHANGED <<pid, link, nchild, pidalloc, child, missed>>

(* schedinit puts it on the free list.                                     *)
Die(c) == /\ Goto(c, "moribund", "dead")
          /\ UNCHANGED <<pid, link, nchild, waitq, pidalloc, child, missed>>
-----------------------------------------------------------------------------
(* pwait: is there anyone to wait for?                                     *)
Wait(p) == /\ nchild[p] # 0 \/ waitq[p] # <<>>
           /\ Goto(p, "user", "sleep")
           /\ UNCHANGED <<pid, link, nchild, waitq, pidalloc, child, missed>>

(* Mutant: it sleeps without a look at the records.                        *)
SleepBlind(p) == /\ Goto(p, "sleep", "asleep")
                 /\ UNCHANGED <<pid, link, nchild, waitq, pidalloc, child, missed>>

Sleep(p) == /\ Goto(p, "sleep", IF waitq[p] # <<>> THEN "take" ELSE "asleep")
            /\ UNCHANGED <<pid, link, nchild, waitq, pidalloc, child, missed>>

(* A note, for which sleep looks last.                                     *)
Interrupt(p) == /\ Goto(p, "asleep", "user") \/ Goto(p, "take", "user")
                /\ UNCHANGED <<pid, link, nchild, waitq, pidalloc, child, missed>>

(* It does not look whether there is a record.                             *)
Take(p) == /\ Goto(p, "take", IF waitq[p] = <<>> THEN "panic" ELSE "user")
           /\ waitq' = [waitq EXCEPT ![p] = IF @ = <<>> THEN @ ELSE Tail(@)]
           /\ UNCHANGED <<pid, link, nchild, pidalloc, child, missed>>

Kernel(p) == ~Panicked /\ (\/ Report(p) \/ NoReport(p) \/ WakeParent(p) \/ ClearPid(p)
                           \/ FreeWaits(p) \/ Die(p) \/ Sleep(p) \/ Take(p)
                           \/ \E nowait \in BOOLEAN : Ready(p, nowait))

Leaves(c) == ~Panicked /\ (Exit(c) \/ Unbreak(c))

Next == \E p \in Procs : \/ Kernel(p) \/ Leaves(p)
                         \/ ~Panicked /\ (Wait(p) \/ Interrupt(p) \/ \E c \in Procs : NewProc(p, c))

Spec == Init /\ [][Next]_vars

(* A process in the kernel goes on; no one has to fork, exit or wait.      *)
FairSpec == Spec /\ \A p \in Procs : WF_vars(Kernel(p))
-----------------------------------------------------------------------------
(* Not yet come to leave its record.                                       *)
Alive(c) == pc[c] \in {"user", "fork", "exit", "sleep", "asleep", "take", "panic"}

(* Whatever slots are used again for, a process has only records of its    *)
(* own children, each once, and none of one that still runs; one that is   *)
(* gone gets no more, and they would be lost (proc.c:683, 709-716).        *)
RecordsMine == \A p \in Procs :
    /\ pc[p] # "freewaits" => \A i \in DOMAIN waitq[p] : pid[p] # 0 /\ waitq[p][i].of = pid[p]
    /\ \A i, j \in DOMAIN waitq[p] : i # j => waitq[p][i].pid # waitq[p][j].pid
    /\ \A c \in Procs : Alive(c) => \A i \in DOMAIN waitq[p] : waitq[p][i].pid # pid[c]

(* The children of p that have not come to leave their record.             *)
Due(p) == {c \in Procs : Alive(c) /\ parent[c] = p /\ parentpid[c] = pid[p]}

(* No living child is left out of p->nchild, whatever slots are used again *)
(* for: wait never tells a process falsely that it has no children         *)
(* (sysproc.c:167; proc.c:684, 758).  Nor is anyone counted in it without  *)
(* cause: only once a child found no room for its record (proc.c:683) may  *)
(* it be more than the living ones.                                        *)
ChildrenCounted == \A p \in Procs : pid[p] # 0 =>
    /\ nchild[p] >= Cardinality(Due(p))
    /\ missed[p] = 0 => nchild[p] = Cardinality(Due(p))

(* "Number of living children" (portdat.h:581).  It is not: a child that   *)
(* finds no room for its record is never taken off it (proc.c:683-698).    *)
OnlyLiving == \A p \in Procs : pid[p] # 0 => nchild[p] = Cardinality(Due(p))

(* "If there are no more children to wait for, wait returns immediately,   *)
(* with return value -1" (man/2/wait:59-61).  A parent for whom such a     *)
(* child is still counted sleeps instead (proc.c:758-764).                 *)
SleepsForSomebody == \A p \in Procs :
    pc[p] = "asleep" => Due(p) # {} \/ waitq[p] # <<>>

(* Who waits comes back, if processes exit in the end, unless a child      *)
(* found no room for its record (proc.c:683): its parent waits for good.   *)
WaitReturns ==
    (\A c \in Procs : SF_vars(Leaves(c)))
        => \A p \in Procs : pc[p] = "asleep" ~> \/ pc[p] # "asleep" \/ Panicked
                                                   \/ \E x \in Procs : missed[x] > 0

(* "There is an easy (and verified) solution: at the end of sleep or after *)
(* sleep returns, if the condition is false, execute sleep again"          *)
(* (doc/sleep.ms:472-479).  pwait does not (proc.c:770-774): a child that  *)
(* is late with its wakeup wakes a parent that has its record already and  *)
(* waits for another.                                                      *)
RecordThere == ~Panicked
=============================================================================
