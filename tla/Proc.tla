-------------------------------- MODULE Proc --------------------------------
(***************************************************************************)
(* Processes, processors and rendezvous: sched, ready, runproc, sleep,     *)
(* wakeup and postnote of port/proc.c, with the creation and the end of a  *)
(* process as far as the scheduler has a part in them.                     *)
(*                                                                         *)
(* A processor runs a process or its own scheduler (schedinit, runproc).   *)
(* An interrupt borrows the processor it arrives at: it sets the condition *)
(* a process may be sleeping for and calls wakeup.  Spin locks are held    *)
(* with interrupts off, so that a process inside one is not preempted; a   *)
(* section under runq's lock is one step.  Which ready process a processor *)
(* picks depends on priority, affinity and age, and is left open here.     *)
(***************************************************************************)
CONSTANTS Procs,     \* the entries of the process table
          Machs,     \* the processors
          Rends,     \* the rendezvous, one per source of events
          Sleeper,   \* the one process that sleeps on a rendezvous
          Alive,     \* the processes that exist at the start
          Posters,   \* the processes that may post notes
          Mortals,   \* the processes that may exit
          None       \* a null pointer

ASSUME ConstantsAssumption == /\ Sleeper \in [Rends -> Procs]
                              /\ Alive \subseteq Procs
                              /\ Posters \subseteq Procs
                              /\ Mortals \subseteq Procs
                              /\ None \notin Procs \cup Machs \cup Rends

VARIABLES
  \* per process
  state,        \* p->state
  mach,         \* p->mach, the processor p runs on, or None once p is saved
  pr,           \* p->r, the rendezvous p is asleep on, for postnote
  notepending,  \* p->notepending
  pc,           \* where p is in the kernel
  arg,          \* the local r of its sleep or postnote
  other,        \* the process its postnote or rfork is about
  \* per processor
  at,           \* what the processor does
  up,           \* the process it does it to: u->p, or a local p
  intr,         \* the rendezvous of the interrupt it serves, or None
  \* per rendezvous
  lk,           \* who is inside lock(r)
  rp,           \* r->p, the process asleep
  cond,         \* what the condition function (*f)(arg) would return
  \* shared
  runq,         \* the processes on the run queues
  free,         \* the list procalloc.free
  procalloc     \* who holds the lock of that list

vars == <<state, mach, pr, notepending, pc, arg, other, at, up, intr,
          lk, rp, cond, runq, free, procalloc>>

States == {"Dead", "Moribund", "Ready", "Scheding", "Running", "Wakeme"}

(* Places with interrupts off, and the others.                             *)
High == {"sleep1", "happened", "commit", "slept", "unsleep"}
Low  == {"user", "called", "yield", "woke", "post", "postlock", "rfork", "gone"}

TypeOK == /\ state \in [Procs -> States]
          /\ mach \in [Procs -> Machs \cup {None}]
          /\ pr \in [Procs -> Rends \cup {None}]
          /\ notepending \in [Procs -> BOOLEAN]
          /\ pc \in [Procs -> High \cup Low]
          /\ arg \in [Procs -> Rends \cup {None}]
          /\ other \in [Procs -> Procs \cup {None}]
          /\ at \in [Machs -> {"idle", "picked", "run", "sched", "release"}]
          /\ up \in [Machs -> Procs \cup {None}]
          /\ intr \in [Machs -> Rends \cup {None}]
          /\ lk \in [Rends -> Procs \cup {None}]
          /\ rp \in [Rends -> Procs \cup {None}]
          /\ cond \in [Rends -> BOOLEAN]
          /\ runq \subseteq Procs
          /\ free \subseteq Procs
          /\ procalloc \in Procs \cup {None}

Init == /\ state = [p \in Procs |-> IF p \in Alive THEN "Ready" ELSE "Dead"]
        /\ mach = [p \in Procs |-> None]
        /\ pr = [p \in Procs |-> None]
        /\ notepending = [p \in Procs |-> FALSE]
        /\ pc = [p \in Procs |-> IF p \in Alive THEN "user" ELSE "gone"]
        /\ arg = [p \in Procs |-> None]
        /\ other = [p \in Procs |-> None]
        /\ at = [m \in Machs |-> "idle"]
        /\ up = [m \in Machs |-> None]
        /\ intr = [m \in Machs |-> None]
        /\ lk = [r \in Rends |-> None]
        /\ rp = [r \in Rends |-> None]
        /\ cond = [r \in Rends |-> FALSE]
        /\ runq = Alive
        /\ free = Procs \ Alive
        /\ procalloc = None

cpuvars  == <<at, up, mach, intr>>
rendvars == <<lk, rp, cond>>
freevars == <<free, procalloc>>
-----------------------------------------------------------------------------
(* The scheduler, on processor m.                                          *)

(* What ready(p) does.                                                     *)
MakeReady(p) == /\ state' = [state EXCEPT ![p] = "Ready"]
                /\ runq' = runq \cup {p}

(* Mutant: any process on the queue will do.                               *)
PickUnsaved(m, p) == /\ at[m] = "idle" /\ intr[m] = None
                     /\ p \in runq
                     /\ runq' = runq \ {p}
                     /\ state' = [state EXCEPT ![p] = "Scheding"]
                     /\ at' = [at EXCEPT ![m] = "picked"]
                     /\ up' = [up EXCEPT ![m] = p]
                     /\ UNCHANGED <<mach, pr, notepending, pc, arg, other, intr>>
                     /\ UNCHANGED <<rendvars, freevars>>

(* runproc: under lock(runq) take a process whose state has been saved.    *)
Pick(m, p) == /\ at[m] = "idle" /\ intr[m] = None
              /\ p \in runq
              /\ mach[p] = None
              /\ runq' = runq \ {p}
              /\ state' = [state EXCEPT ![p] = "Scheding"]
              /\ at' = [at EXCEPT ![m] = "picked"]
              /\ up' = [up EXCEPT ![m] = p]
              /\ UNCHANGED <<mach, pr, notepending, pc, arg, other, intr>>
              /\ UNCHANGED <<rendvars, freevars>>

(* gotolabel(&p->sched): p goes on where it called sched, or starts.       *)
Resume(m) == /\ at[m] = "picked"
             /\ state' = [state EXCEPT ![up[m]] = "Running"]
             /\ mach' = [mach EXCEPT ![up[m]] = m]
             /\ at' = [at EXCEPT ![m] = "run"]
             /\ UNCHANGED <<pr, notepending, pc, arg, other, up, intr>>
             /\ UNCHANGED <<rendvars, runq, freevars>>

(* schedinit, once m has left the stack of its process: one that still     *)
(* wants to run is made ready, one that exits is put on the free list and  *)
(* the locks pexit took are let go.                                        *)
SchedInit(m) ==
    /\ at[m] = "sched"
    /\ at' = [at EXCEPT ![m] = "release"]
    /\ LET p == up[m] IN
       \/ /\ state[p] = "Running"
          /\ MakeReady(p)
          /\ UNCHANGED <<pc, freevars>>
       \/ /\ state[p] = "Moribund"
          /\ state' = [state EXCEPT ![p] = "Dead"]
          /\ pc' = [pc EXCEPT ![p] = "gone"]
          /\ free' = free \cup {p}
          /\ procalloc' = None
          /\ UNCHANGED runq
       \/ /\ state[p] \notin {"Running", "Moribund"}
          /\ UNCHANGED <<state, pc, runq, freevars>>
    /\ UNCHANGED <<mach, pr, notepending, arg, other, up, intr, rendvars>>

(* p->mach = 0: from here on another processor may pick p.                 *)
Release(m) == /\ at[m] = "release"
              /\ mach' = [mach EXCEPT ![up[m]] = None]
              /\ at' = [at EXCEPT ![m] = "idle"]
              /\ up' = [up EXCEPT ![m] = None]
              /\ UNCHANGED <<state, pr, notepending, pc, arg, other, intr>>
              /\ UNCHANGED <<rendvars, runq, freevars>>

(* The clock interrupt takes m away from a process that is Running, if     *)
(* another one is ready (clock.c:119-124).                                 *)
Preempt(m) == /\ at[m] = "run" /\ intr[m] = None
              /\ pc[up[m]] \in Low
              /\ state[up[m]] = "Running"
              /\ runq # {}
              /\ at' = [at EXCEPT ![m] = "sched"]
              /\ UNCHANGED <<state, mach, pr, notepending, pc, arg, other, up, intr>>
              /\ UNCHANGED <<rendvars, runq, freevars>>
-----------------------------------------------------------------------------
(* Interrupts.                                                             *)

(* Mutant: sleep1 turns interrupts back on when it has let go of lock(r).  *)
InterruptEarly(m, r) == /\ intr[m] = None
                        /\ \/ at[m] = "idle"
                           \/ at[m] = "run" /\ pc[up[m]] \in Low \cup {"slept"}
                        /\ cond' = [cond EXCEPT ![r] = TRUE]
                        /\ intr' = [intr EXCEPT ![m] = r]
                        /\ UNCHANGED <<state, mach, pr, notepending, pc, arg, other, at, up>>
                        /\ UNCHANGED <<lk, rp, runq, freevars>>

(* A device interrupts m, where interrupts are on, and the condition of r  *)
(* comes true, if an earlier interrupt did not make it true already.       *)
Interrupt(m, r) == /\ intr[m] = None
                   /\ \/ at[m] = "idle"
                      \/ at[m] = "run" /\ pc[up[m]] \in Low
                   /\ cond' = [cond EXCEPT ![r] = TRUE]
                   /\ intr' = [intr EXCEPT ![m] = r]
                   /\ UNCHANGED <<state, mach, pr, notepending, pc, arg, other, at, up>>
                   /\ UNCHANGED <<lk, rp, runq, freevars>>

(* What wakeup and postnote do to the process p asleep on r.               *)
Wake(r, p) == /\ rp' = [rp EXCEPT ![r] = None]
              /\ pr' = [pr EXCEPT ![p] = None]
              /\ MakeReady(p)

(* Mutant: r->p is looked at without the lock.                             *)
WakeupUnlocked(m) ==
    LET r == intr[m] IN
    /\ r # None
    /\ intr' = [intr EXCEPT ![m] = None]
    /\ IF rp[r] = None THEN UNCHANGED <<rp, pr, state, runq>> ELSE Wake(r, rp[r])
    /\ UNCHANGED <<mach, notepending, pc, arg, other, at, up, lk, cond, freevars>>

(* Mutant: a process that has a note is left to postnote.                  *)
WakeupNotNoted(m) ==
    LET r == intr[m] IN
    /\ r # None
    /\ lk[r] = None
    /\ intr' = [intr EXCEPT ![m] = None]
    /\ IF rp[r] = None \/ notepending[rp[r]]
       THEN UNCHANGED <<rp, pr, state, runq>> ELSE Wake(r, rp[r])
    /\ UNCHANGED <<mach, notepending, pc, arg, other, at, up, lk, cond, freevars>>

(* Mutant: a process that still has its processor counts as awake.         *)
WakeupSaved(m) ==
    LET r == intr[m] IN
    /\ r # None
    /\ lk[r] = None
    /\ intr' = [intr EXCEPT ![m] = None]
    /\ rp' = [rp EXCEPT ![r] = None]
    /\ IF rp[r] = None \/ mach[rp[r]] # None
       THEN UNCHANGED <<pr, state, runq>>
       ELSE MakeReady(rp[r]) /\ pr' = [pr EXCEPT ![rp[r]] = None]
    /\ UNCHANGED <<mach, notepending, pc, arg, other, at, up, lk, cond, freevars>>

(* Mutant: r->p stays.                                                     *)
WakeupStay(m) ==
    LET r == intr[m] IN
    /\ r # None
    /\ lk[r] = None
    /\ intr' = [intr EXCEPT ![m] = None]
    /\ IF rp[r] = None THEN UNCHANGED <<state, runq>> ELSE MakeReady(rp[r])
    /\ UNCHANGED <<mach, pr, rp, notepending, pc, arg, other, at, up, lk, cond, freevars>>

(* The interrupt calls wakeup(r), all of it under lock(r).                 *)
Wakeup(m) ==
    LET r == intr[m] IN
    /\ r # None
    /\ lk[r] = None
    /\ intr' = [intr EXCEPT ![m] = None]
    /\ IF rp[r] = None THEN UNCHANGED <<rp, pr, state, runq>> ELSE Wake(r, rp[r])
    /\ UNCHANGED <<mach, notepending, pc, arg, other, at, up, lk, cond, freevars>>
-----------------------------------------------------------------------------
(* Processes.  p goes from one place to the next while it runs on m.       *)
On(m, p) == at[m] = "run" /\ up[m] = p /\ intr[m] = None

Goto(p, from, to) == pc[p] = from /\ pc' = [pc EXCEPT ![p] = to]

(* sched(), called by p.                                                   *)
Sched(m) == at' = [at EXCEPT ![m] = "sched"]

(* p starts the request that r reports the end of and goes to wait for it. *)
Call(p, r) == /\ Goto(p, "user", "called")
              /\ Sleeper[r] = p
              /\ arg' = [arg EXCEPT ![p] = r]
              /\ cond' = [cond EXCEPT ![r] = FALSE]
              /\ UNCHANGED <<state, pr, notepending, other, cpuvars>>
              /\ UNCHANGED <<lk, rp, runq, freevars>>

(* sleep1: interrupts off, p->r set early so that postnote knows.          *)
Sleep1(p) == /\ Goto(p, "called", "sleep1")
             /\ pr' = [pr EXCEPT ![p] = arg[p]]
             /\ UNCHANGED <<state, notepending, arg, other, cpuvars>>
             /\ UNCHANGED <<rendvars, runq, freevars>>

(* lock(r), and evaluate the condition under it.                           *)
Evaluate(p) == /\ Goto(p, "sleep1", IF cond[arg[p]] THEN "happened" ELSE "commit")
               /\ lk[arg[p]] = None
               /\ lk' = [lk EXCEPT ![arg[p]] = p]
               /\ UNCHANGED <<state, pr, notepending, arg, other, cpuvars>>
               /\ UNCHANGED <<rp, cond, runq, freevars>>

(* The condition happened, never mind.                                     *)
Happened(p) == /\ Goto(p, "happened", "yield")
               /\ pr' = [pr EXCEPT ![p] = None]
               /\ lk' = [lk EXCEPT ![arg[p]] = None]
               /\ UNCHANGED <<state, notepending, arg, other, cpuvars>>
               /\ UNCHANGED <<rp, cond, runq, freevars>>

(* It did not: change state and put p where wakeup finds it.               *)
Commit(p) == /\ Goto(p, "commit", "slept")
             /\ state' = [state EXCEPT ![p] = "Wakeme"]
             /\ rp' = [rp EXCEPT ![arg[p]] = p]
             /\ lk' = [lk EXCEPT ![arg[p]] = None]
             /\ UNCHANGED <<pr, notepending, arg, other, cpuvars>>
             /\ UNCHANGED <<cond, runq, freevars>>

(* sleep goes on to sched(), happened or not, unless a note is pending.    *)
SleepSched(m, p) == /\ \/ Goto(p, "yield", "woke")
                       \/ Goto(p, "slept", "woke")
                    /\ ~notepending[p]
                    /\ Sched(m)
                    /\ UNCHANGED <<state, mach, pr, notepending, arg, other, up, intr>>
                    /\ UNCHANGED <<rendvars, runq, freevars>>

(* A note came before sched() or while p slept: sleep is interrupted.      *)
SleepNoted(p) == /\ \/ Goto(p, "yield", "unsleep")
                    \/ Goto(p, "slept", "unsleep")
                    \/ Goto(p, "woke", "unsleep")
                 /\ notepending[p]
                 /\ notepending' = [notepending EXCEPT ![p] = FALSE]
                 /\ UNCHANGED <<state, pr, arg, other, cpuvars>>
                 /\ UNCHANGED <<rendvars, runq, freevars>>

(* Mutant: p stays on r.                                                   *)
UnsleepStay(p) == /\ Goto(p, "unsleep", "user")
                  /\ arg' = [arg EXCEPT ![p] = None]
                  /\ UNCHANGED <<state, pr, notepending, other, cpuvars>>
                  /\ UNCHANGED <<rendvars, runq, freevars>>

(* Under lock(r) p leaves r; error(Eintr) turns interrupts back on.        *)
Unsleep(p) == /\ Goto(p, "unsleep", "user")
              /\ lk[arg[p]] = None
              /\ rp' = [rp EXCEPT ![arg[p]] = IF @ = p THEN None ELSE @]
              /\ arg' = [arg EXCEPT ![p] = None]
              /\ UNCHANGED <<state, pr, notepending, other, cpuvars>>
              /\ UNCHANGED <<lk, cond, runq, freevars>>

(* sched() came back and no note is pending: sleep returns.                *)
Return(p) == /\ Goto(p, "woke", "user")
             /\ ~notepending[p]
             /\ arg' = [arg EXCEPT ![p] = None]
             /\ UNCHANGED <<state, pr, notepending, other, cpuvars>>
             /\ UNCHANGED <<rendvars, runq, freevars>>

(* notify, on the way out of the kernel, takes the notes.                  *)
Notify(p) == /\ pc[p] = "user"
             /\ notepending[p]
             /\ notepending' = [notepending EXCEPT ![p] = FALSE]
             /\ UNCHANGED <<state, pr, pc, arg, other, cpuvars>>
             /\ UNCHANGED <<rendvars, runq, freevars>>

(* postnote(q): the note is left with q ...                                *)
PostNote(p, q) == /\ Goto(p, "user", "post")
                  /\ p \in Posters /\ q # p /\ state[q] # "Dead"
                  /\ notepending' = [notepending EXCEPT ![q] = TRUE]
                  /\ other' = [other EXCEPT ![p] = q]
                  /\ UNCHANGED <<state, pr, arg, cpuvars>>
                  /\ UNCHANGED <<rendvars, runq, freevars>>

(* ... if q->r is set, q may be asleep and has to be woken ...             *)
PostRead(p) == /\ Goto(p, "post", IF pr[other[p]] = None THEN "user" ELSE "postlock")
               /\ arg' = [arg EXCEPT ![p] = pr[other[p]]]
               /\ UNCHANGED <<state, pr, notepending, other, cpuvars>>
               /\ UNCHANGED <<rendvars, runq, freevars>>

(* ... and under lock(r), with the race against wakeup won, is.            *)
PostWake(p) == /\ Goto(p, "postlock", "user")
               /\ lk[arg[p]] = None
               /\ arg' = [arg EXCEPT ![p] = None]
               /\ LET q == other[p]
                      r == arg[p]
                  IN  IF pr[q] = r /\ rp[r] = q /\ state[q] = "Wakeme"
                      THEN Wake(r, q)
                      ELSE UNCHANGED <<rp, pr, state, runq>>
               /\ UNCHANGED <<notepending, other, cpuvars, lk, cond, freevars>>

(* pexit, up to its call of sched() with the lock of procalloc held.       *)
Exit(m, p) == /\ pc[p] = "user"
              /\ p \in Mortals
              /\ procalloc = None
              /\ procalloc' = p
              /\ state' = [state EXCEPT ![p] = "Moribund"]
              /\ Sched(m)
              /\ UNCHANGED <<mach, pr, notepending, pc, arg, other, up, intr>>
              /\ UNCHANGED <<rendvars, runq, free>>

(* rfork: newproc takes a process off the free list ...                    *)
NewProc(p, c) == /\ Goto(p, "user", "rfork")
                 /\ procalloc = None
                 /\ c \in free
                 /\ free' = free \ {c}
                 /\ state' = [state EXCEPT ![c] = "Scheding"]
                 /\ mach' = [mach EXCEPT ![c] = None]
                 /\ notepending' = [notepending EXCEPT ![c] = FALSE]
                 /\ other' = [other EXCEPT ![p] = c]
                 /\ UNCHANGED <<pr, arg, at, up, intr, rendvars, runq, procalloc>>

(* ... which is made ready, and the parent calls sched().                  *)
Fork(m, p) == /\ pc[p] = "rfork"
              /\ pc' = [pc EXCEPT ![p] = "user", ![other[p]] = "user"]
              /\ MakeReady(other[p])
              /\ Sched(m)
              /\ UNCHANGED <<mach, pr, notepending, arg, other, up, intr>>
              /\ UNCHANGED <<rendvars, freevars>>
-----------------------------------------------------------------------------
(* What a process does once it has called sleep, postnote or rfork.        *)
Proceed(p) == \E m \in Machs :
    /\ On(m, p)
    /\ \/ Sleep1(p) \/ Evaluate(p) \/ Happened(p) \/ Commit(p)
       \/ SleepSched(m, p) \/ SleepNoted(p) \/ Unsleep(p) \/ Return(p)
       \/ PostRead(p) \/ PostWake(p) \/ Fork(m, p)

Process(p) == \/ Proceed(p)
              \/ \E m \in Machs :
                    /\ On(m, p)
                    /\ \/ \E r \in Rends : Call(p, r)
                       \/ \E q \in Procs : PostNote(p, q) \/ NewProc(p, q)
                       \/ Notify(p)
                       \/ Exit(m, p)

Processor(m) == \/ \E p \in Procs : Pick(m, p)
                \/ Resume(m) \/ SchedInit(m) \/ Release(m) \/ Preempt(m)
                \/ Wakeup(m)
                \/ \E r \in Rends : Interrupt(m, r)

Next == (\E p \in Procs : Process(p)) \/ \E m \in Machs : Processor(m)

(* A processor goes on with what it is doing and the clock keeps ticking;  *)
(* a spin lock is held for a few instructions, so whoever spins gets it; a *)
(* device reports the end of a request; and runproc, which serves a queue  *)
(* in order and looks once a second for processes that have waited long    *)
(* (proc.c:205-224), does not pass over a ready process for ever.          *)
Fairness == /\ \A m \in Machs : /\ WF_vars(Resume(m) \/ SchedInit(m) \/ Release(m))
                                /\ SF_vars(Wakeup(m))
                                /\ SF_vars(Preempt(m))
            /\ \A p \in Procs : /\ SF_vars(Proceed(p))
                                /\ SF_vars(\E m \in Machs : Pick(m, p))
            /\ \A r \in Rends : SF_vars(~cond[r] /\ \E m \in Machs : Interrupt(m, r))

Spec == Init /\ [][Next]_vars /\ Fairness
-----------------------------------------------------------------------------
(* proc.c:474: whoever is found asleep on a rendezvous is in state Wakeme; *)
(* otherwise the next wakeup panics.                                       *)
WakeupState == \A r \in Rends : rp[r] # None => state[rp[r]] = "Wakeme"

(* proc.c:53-112, 242-276: a process is on one processor at most, counting *)
(* the one that is about to run it and the one that has just left it.      *)
OneProcessor == \A m, n \in Machs : up[m] = up[n] /\ up[m] # None => m = n

(* proc.c:254: "p->mach==0 only when process state is saved".              *)
MachZeroMeansSaved == \A m \in Machs : at[m] = "run" => mach[up[m]] # None

(* proc.c:142-183, 242-277: the queue holds the Ready processes, and one   *)
(* that still runs while it is on the queue is on its way to sched(), its  *)
(* wakeup having come first.                                               *)
QueueExact == /\ \A p \in Procs : p \in runq <=> state[p] = "Ready"
              /\ \A m \in Machs : at[m] = "run" /\ up[m] \in runq
                                      => pc[up[m]] = "slept"

(* proc.c:352-388, 463-481, and doc/sleep.ms: no wakeup is missed.  If the *)
(* condition has come true while a process is asleep on r, a wakeup of r   *)
(* is on its way.                                                          *)
NoLostWakeup == \A r \in Rends : rp[r] # None /\ cond[r]
                                    => \E m \in Machs : intr[m] = r

(* proc.c:89-112, 352-410: a process that has left its processor in state  *)
(* Wakeme is on a rendezvous, where wakeup finds it.                       *)
NobodyForgotten ==
    \A p \in Procs : state[p] = "Wakeme" /\ (\A m \in Machs : up[m] # p)
                         => \E r \in Rends : rp[r] = p

(* proc.c:390-410: sleep returns, the device being sure to interrupt.      *)
SleepReturns == \A p \in Procs : pc[p] = "sleep1" ~> pc[p] = "user"

(* doc/sleep.ms: "Sleep checks to see if the condition has become true,    *)
(* and returns if so."                                                     *)
HappenedReturns == \A p \in Procs : pc[p] = "happened" ~> pc[p] = "user"
=============================================================================
