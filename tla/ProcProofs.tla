----------------------------- MODULE ProcProofs -----------------------------
(***************************************************************************)
(* Proofs about the scheduler and sleep/wakeup, for any number of          *)
(* processes and rendezvous: on any number of processors, as long as no    *)
(* notes are posted and no process exits; and on one, whatever they do.    *)
(***************************************************************************)
EXTENDS Proc, TLAPS

(* What nobody does without notes and exits.                               *)
Quiet == /\ \A p \in Procs : ~notepending[p]
         /\ \A p \in Procs : state[p] # "Moribund"
         /\ \A p \in Procs : pc[p] \notin {"unsleep", "post", "postlock"}

(* Processors and processes agree about who runs where, and p->mach is set *)
(* as long as the processor is on the stack of its process.                *)
Processors == /\ OneProcessor
              /\ \A m \in Machs : at[m] = "idle" <=> up[m] = None
              /\ \A m \in Machs : at[m] = "picked" => mach[up[m]] = None
              /\ \A m \in Machs : at[m] \in {"run", "sched", "release"} => mach[up[m]] = m
              /\ \A p \in Procs : mach[p] # None => up[mach[p]] = p

(* What p->state can be at each stage of a processor.                      *)
Stages == \A m \in Machs :
    /\ at[m] = "picked" => state[up[m]] = "Scheding"
    /\ at[m] = "run" => state[up[m]] \in IF pc[up[m]] = "slept"
                                         THEN {"Wakeme", "Ready"} ELSE {"Running"}
    /\ at[m] = "sched" => \/ state[up[m]] = "Running"
                          \/ pc[up[m]] = "woke" /\ state[up[m]] \in {"Wakeme", "Ready"}
    /\ at[m] = "release" => state[up[m]] \in {"Ready", "Wakeme"}

(* The queue and the free list hold what p->state says, and a process with *)
(* interrupts off has a processor.                                         *)
Lists == /\ \A p \in Procs : p \in runq <=> state[p] = "Ready"
         /\ \A p \in Procs : p \in free <=> state[p] = "Dead"
         /\ \A p \in Procs : state[p] = "Dead" => pc[p] = "gone"
         /\ \A p \in Procs : pc[p] \in High => \E m \in Machs : at[m] = "run" /\ up[m] = p

(* A process being created is nowhere but in the hands of its parent.      *)
Children ==
    /\ \A p \in Procs : pc[p] = "rfork" => /\ other[p] \in Procs
                                           /\ state[other[p]] = "Scheding"
                                           /\ pc[other[p]] = "gone"
                                           /\ \A m \in Machs : up[m] # other[p]
    /\ \A p, q \in Procs : pc[p] = "rfork" /\ pc[q] = "rfork" /\ other[p] = other[q]
                              => p = q

Sleeping == {"called", "sleep1", "happened", "commit", "slept", "yield", "woke"}

(* Who sleeps, where, and under which lock.                                *)
Asleep ==
    /\ \A p \in Procs : pc[p] \in Sleeping => arg[p] \in Rends /\ Sleeper[arg[p]] = p
    /\ \A p \in Procs : pc[p] \in {"happened", "commit"} => lk[arg[p]] = p
    /\ \A p \in Procs : state[p] = "Wakeme" => pc[p] \in {"slept", "woke"} /\ rp[arg[p]] = p
    /\ \A r \in Rends : rp[r] # None => state[rp[r]] = "Wakeme" /\ arg[rp[r]] = r

(* An interrupt whose wakeup a committed process must not miss is still    *)
(* going to call wakeup, because it waits for the lock.                    *)
Coming == /\ NoLostWakeup
          /\ \A p \in Procs : pc[p] = "commit" /\ cond[arg[p]]
                                => \E m \in Machs : intr[m] = arg[p]

IInv == TypeOK /\ Quiet /\ Processors /\ Stages /\ Lists /\ Children /\ Asleep /\ Coming
-----------------------------------------------------------------------------
(* Initially every process is on the queue or on the free list.            *)
LEMMA InitIInv == Init => IInv
<1> SUFFICES ASSUME Init PROVE IInv
  OBVIOUS
<1> USE ConstantsAssumption DEF Init
<1>1. TypeOK
  BY DEF TypeOK, States, Low
<1>2. Quiet
  BY DEF Quiet
<1>3. Processors
  BY DEF Processors, OneProcessor
<1>4. Stages
  BY DEF Stages
<1>5. Lists
  BY DEF Lists, High
<1>6. Children
  BY DEF Children
<1>7. Asleep
  BY DEF Asleep, Sleeping
<1>8. Coming
  BY DEF Coming, NoLostWakeup
<1> QED
  BY <1>1, <1>2, <1>3, <1>4, <1>5, <1>6, <1>7, <1>8 DEF IInv

(* The process picked is on no processor, because its p->mach is 0.        *)
LEMMA PickStep ==
  ASSUME IInv, NEW m \in Machs, NEW p \in Procs, Pick(m, p)
  PROVE  IInv'
<1> USE ConstantsAssumption DEF IInv, TypeOK, Pick, rendvars, freevars
<1>0. \A n \in Machs : up[n] # p
  BY DEF Processors, Stages, Lists
<1>1. TypeOK'
  BY <1>0 DEF States
<1>2. Quiet'
  BY <1>0 DEF Quiet
<1>3. Processors'
  BY <1>0 DEF Processors, OneProcessor
<1>4. Stages'
  BY <1>0 DEF Stages
<1>5. Lists'
  BY <1>0 DEF Lists
<1>6. Children'
  BY <1>0 DEF Children, Lists
<1>7. Asleep'
  BY <1>0 DEF Asleep, Lists
<1>8. Coming'
  BY <1>0 DEF Coming, NoLostWakeup
<1> QED
  BY <1>1, <1>2, <1>3, <1>4, <1>5, <1>6, <1>7, <1>8 DEF IInv

(* The process that resumes was picked, so its interrupts were on.         *)
LEMMA ResumeStep ==
  ASSUME IInv, NEW m \in Machs, Resume(m)
  PROVE  IInv'
<1> USE ConstantsAssumption DEF IInv, TypeOK, Resume, rendvars, freevars
<1>1. TypeOK'
  BY DEF States
<1>2. Quiet'
  BY DEF Quiet
<1>3. Processors'
  BY DEF Processors, OneProcessor
<1>4. Stages'
  BY DEF Stages, Processors, OneProcessor, High, Lists
<1>5. Lists'
  BY DEF Lists, Stages
<1>6. Children'
  BY DEF Children
<1>7. Asleep'
  BY DEF Asleep, Stages
<1>8. Coming'
  BY DEF Coming, NoLostWakeup
<1> QED
  BY <1>1, <1>2, <1>3, <1>4, <1>5, <1>6, <1>7, <1>8 DEF IInv

(* A process that gave up its processor goes on the queue unless it sleeps. *)
LEMMA SchedInitStep ==
  ASSUME IInv, NEW m \in Machs, SchedInit(m)
  PROVE  IInv'
<1> USE ConstantsAssumption DEF IInv, TypeOK, SchedInit, MakeReady, rendvars, freevars
<1>1. TypeOK'
  BY SMTT(60) DEF States, Low, Processors
<1>2. Quiet'
  BY DEF Quiet
<1>3. Processors'
  BY DEF Processors, OneProcessor
<1>4. Stages'
  BY DEF Stages, Processors
<1>5. Lists'
  BY DEF Lists, Quiet
<1>6. Children'
  BY DEF Children
<1>7. Asleep'
  BY DEF Asleep, Sleeping
<1>8. Coming'
  BY DEF Coming, NoLostWakeup
<1> QED
  BY <1>1, <1>2, <1>3, <1>4, <1>5, <1>6, <1>7, <1>8 DEF IInv

(* Whoever is released is on the queue or asleep.                          *)
LEMMA ReleaseStep ==
  ASSUME IInv, NEW m \in Machs, Release(m)
  PROVE  IInv'
<1> USE ConstantsAssumption DEF IInv, TypeOK, Release, rendvars, freevars
<1>1. TypeOK'
  OBVIOUS
<1>2. Quiet'
  BY DEF Quiet
<1>3. Processors'
  BY DEF Processors, OneProcessor
<1>4. Stages'
  BY DEF Stages
<1>5. Lists'
  BY DEF Lists
<1>6. Children'
  BY DEF Children
<1>7. Asleep'
  BY DEF Asleep
<1>8. Coming'
  BY DEF Coming, NoLostWakeup
<1> QED
  BY <1>1, <1>2, <1>3, <1>4, <1>5, <1>6, <1>7, <1>8 DEF IInv

(* One lemma for each action of a processor: the clock,                    *)
LEMMA PreemptStep ==
  ASSUME IInv, NEW m \in Machs, Preempt(m)
  PROVE  IInv'
<1> USE ConstantsAssumption DEF IInv, TypeOK, Preempt, rendvars, freevars
<1>1. TypeOK'
  OBVIOUS
<1>2. Quiet'
  BY DEF Quiet
<1>3. Processors'
  BY DEF Processors, OneProcessor
<1>4. Stages'
  BY DEF Stages
<1>5. Lists'
  BY DEF Lists, High, Low
<1>6. Children'
  BY DEF Children
<1>7. Asleep'
  BY DEF Asleep
<1>8. Coming'
  BY DEF Coming, NoLostWakeup
<1> QED
  BY <1>1, <1>2, <1>3, <1>4, <1>5, <1>6, <1>7, <1>8 DEF IInv

(* An interrupt that makes a condition true goes on to call wakeup.        *)
LEMMA InterruptStep ==
  ASSUME IInv, NEW m \in Machs, NEW r \in Rends, Interrupt(m, r)
  PROVE  IInv'
<1> USE ConstantsAssumption DEF IInv, TypeOK, Interrupt, freevars
<1>1. TypeOK'
  OBVIOUS
<1>2. Quiet'
  BY DEF Quiet
<1>3. Processors'
  BY DEF Processors, OneProcessor
<1>4. Stages'
  BY DEF Stages
<1>5. Lists'
  BY DEF Lists
<1>6. Children'
  BY DEF Children
<1>7. Asleep'
  BY DEF Asleep
<1>8. Coming'
  BY DEF Coming, NoLostWakeup, Asleep, Sleeping
<1> QED
  BY <1>1, <1>2, <1>3, <1>4, <1>5, <1>6, <1>7, <1>8 DEF IInv

(* Wakeup finds the lock free, so nobody is between test and commitment.   *)
LEMMA WakeupStep ==
  ASSUME IInv, NEW m \in Machs, Wakeup(m)
  PROVE  IInv'
<1> USE ConstantsAssumption DEF IInv, TypeOK, Wakeup, Wake, MakeReady, freevars
<1>1. TypeOK'
  BY SMTT(60) DEF States, High, Processors
<1>2. Quiet'
  BY DEF Quiet
<1>3. Processors'
  BY DEF Processors, OneProcessor
<1>4. Stages'
  BY DEF Stages, Processors, Asleep
<1>5. Lists'
  BY DEF Lists, Asleep
<1>6. Children'
  BY DEF Children, Asleep
<1>7. Asleep'
  BY DEF Asleep, Sleeping, Lists
<1>8. Coming'
  BY DEF Coming, NoLostWakeup, Asleep
<1> QED
  BY <1>1, <1>2, <1>3, <1>4, <1>5, <1>6, <1>7, <1>8 DEF IInv

(* the call of sleep,                                                      *)
LEMMA CallStep ==
  ASSUME IInv, NEW m \in Machs, NEW p \in Procs, NEW r \in Rends, On(m, p), Call(p, r)
  PROVE  IInv'
<1> USE ConstantsAssumption DEF IInv, TypeOK, Call, Goto, On, cpuvars, freevars
<1>1. TypeOK'
  BY DEF Low
<1>2. Quiet'
  BY DEF Quiet
<1>3. Processors'
  BY DEF Processors, OneProcessor
<1>4. Stages'
  BY DEF Stages
<1>5. Lists'
  BY DEF Lists
<1>6. Children'
  BY DEF Children
<1>7. Asleep'
  BY DEF Asleep
<1>8. Coming'
  BY DEF Coming, NoLostWakeup
<1> QED
  BY <1>1, <1>2, <1>3, <1>4, <1>5, <1>6, <1>7, <1>8 DEF IInv

(* sleep1 with the lock of the Rendez,                                     *)
LEMMA Sleep1Step ==
  ASSUME IInv, NEW m \in Machs, NEW p \in Procs, On(m, p), Sleep1(p)
  PROVE  IInv'
<1> USE ConstantsAssumption DEF IInv, TypeOK, Sleep1, Goto, On, cpuvars, rendvars, freevars
<1>1. TypeOK'
  BY DEF High
<1>2. Quiet'
  BY DEF Quiet
<1>3. Processors'
  BY DEF Processors, OneProcessor
<1>4. Stages'
  BY DEF Stages
<1>5. Lists'
  BY DEF Lists
<1>6. Children'
  BY DEF Children
<1>7. Asleep'
  BY DEF Asleep, Sleeping
<1>8. Coming'
  BY DEF Coming, NoLostWakeup
<1> QED
  BY <1>1, <1>2, <1>3, <1>4, <1>5, <1>6, <1>7, <1>8 DEF IInv

(* the condition evaluated,                                                *)
LEMMA EvaluateStep ==
  ASSUME IInv, NEW m \in Machs, NEW p \in Procs, On(m, p), Evaluate(p)
  PROVE  IInv'
<1> USE ConstantsAssumption DEF IInv, TypeOK, Evaluate, Goto, On, cpuvars, freevars
<1>1. TypeOK'
  BY DEF High
<1>2. Quiet'
  BY DEF Quiet
<1>3. Processors'
  BY DEF Processors, OneProcessor
<1>4. Stages'
  BY DEF Stages
<1>5. Lists'
  BY DEF Lists
<1>6. Children'
  BY DEF Children
<1>7. Asleep'
  BY DEF Asleep, Sleeping
<1>8. Coming'
  BY DEF Coming, NoLostWakeup
<1> QED
  BY <1>1, <1>2, <1>3, <1>4, <1>5, <1>6, <1>7, <1>8 DEF IInv

(* found true,                                                             *)
LEMMA HappenedStep ==
  ASSUME IInv, NEW m \in Machs, NEW p \in Procs, On(m, p), Happened(p)
  PROVE  IInv'
<1> USE ConstantsAssumption DEF IInv, TypeOK, Happened, Goto, On, cpuvars, freevars
<1>1. TypeOK'
  BY DEF Low
<1>2. Quiet'
  BY DEF Quiet
<1>3. Processors'
  BY DEF Processors, OneProcessor
<1>4. Stages'
  BY DEF Stages
<1>5. Lists'
  BY DEF Lists
<1>6. Children'
  BY DEF Children
<1>7. Asleep'
  BY DEF Asleep, Sleeping
<1>8. Coming'
  BY DEF Coming, NoLostWakeup
<1> QED
  BY <1>1, <1>2, <1>3, <1>4, <1>5, <1>6, <1>7, <1>8 DEF IInv

(* Nobody else sleeps on the rendezvous p commits itself to.               *)
LEMMA CommitStep ==
  ASSUME IInv, NEW m \in Machs, NEW p \in Procs, On(m, p), Commit(p)
  PROVE  IInv'
<1> USE ConstantsAssumption DEF IInv, TypeOK, Commit, Goto, On, cpuvars, freevars
<1>1. TypeOK'
  BY DEF States, High
<1>2. Quiet'
  BY DEF Quiet
<1>3. Processors'
  BY DEF Processors, OneProcessor
<1>4. Stages'
  BY DEF Stages, Processors
<1>5. Lists'
  BY DEF Lists, Stages
<1>6. Children'
  BY DEF Children
<1>7. Asleep'
  BY DEF Asleep, Sleeping
<1>8. Coming'
  BY DEF Coming, NoLostWakeup
<1> QED
  BY <1>1, <1>2, <1>3, <1>4, <1>5, <1>6, <1>7, <1>8 DEF IInv

(* or the processor given up,                                              *)
LEMMA SleepSchedStep ==
  ASSUME IInv, NEW m \in Machs, NEW p \in Procs, On(m, p), SleepSched(m, p)
  PROVE  IInv'
<1> USE ConstantsAssumption DEF IInv, TypeOK, SleepSched, Goto, On, Sched, rendvars, freevars
<1>1. TypeOK'
  BY SMTT(60) DEF Low
<1>2. Quiet'
  BY DEF Quiet
<1>3. Processors'
  BY DEF Processors, OneProcessor
<1>4. Stages'
  BY DEF Stages, Processors
<1>5. Lists'
  BY DEF Lists, High, Quiet
<1>6. Children'
  BY DEF Children
<1>7. Asleep'
  BY DEF Asleep, Sleeping
<1>8. Coming'
  BY DEF Coming, NoLostWakeup
<1> QED
  BY <1>1, <1>2, <1>3, <1>4, <1>5, <1>6, <1>7, <1>8 DEF IInv

(* and the return.                                                         *)
LEMMA ReturnStep ==
  ASSUME IInv, NEW m \in Machs, NEW p \in Procs, On(m, p), Return(p)
  PROVE  IInv'
<1> USE ConstantsAssumption DEF IInv, TypeOK, Return, Goto, On, cpuvars, rendvars, freevars
<1>1. TypeOK'
  BY DEF Low
<1>2. Quiet'
  BY DEF Quiet
<1>3. Processors'
  BY DEF Processors, OneProcessor
<1>4. Stages'
  BY DEF Stages
<1>5. Lists'
  BY DEF Lists
<1>6. Children'
  BY DEF Children
<1>7. Asleep'
  BY DEF Asleep, Stages, Sleeping
<1>8. Coming'
  BY DEF Coming, NoLostWakeup
<1> QED
  BY <1>1, <1>2, <1>3, <1>4, <1>5, <1>6, <1>7, <1>8 DEF IInv

(* A process on the free list is on no processor and in nobody's hands.    *)
LEMMA NewProcStep ==
  ASSUME IInv, NEW m \in Machs, NEW p \in Procs, NEW c \in Procs, On(m, p), NewProc(p, c)
  PROVE  IInv'
<1> USE ConstantsAssumption DEF IInv, TypeOK, NewProc, Goto, On, rendvars, freevars
<1>0. state[c] = "Dead" /\ pc[c] = "gone" /\ \A n \in Machs : up[n] # c
  BY DEF Processors, Stages, Lists
<1>1. TypeOK'
  BY <1>0 DEF States, Low
<1>2. Quiet'
  BY <1>0 DEF Quiet
<1>3. Processors'
  BY <1>0 DEF Processors, OneProcessor
<1>4. Stages'
  BY <1>0 DEF Stages
<1>5. Lists'
  BY <1>0 DEF Lists
<1>6. Children'
  BY <1>0 DEF Children
<1>7. Asleep'
  BY <1>0 DEF Asleep, Sleeping
<1>8. Coming'
  BY <1>0 DEF Coming, NoLostWakeup
<1> QED
  BY <1>1, <1>2, <1>3, <1>4, <1>5, <1>6, <1>7, <1>8 DEF IInv

(* The child enters the queue, its parent leaves the processor.            *)
LEMMA ForkStep ==
  ASSUME IInv, NEW m \in Machs, NEW p \in Procs, On(m, p), Fork(m, p)
  PROVE  IInv'
<1> USE ConstantsAssumption DEF IInv, TypeOK, Fork, On, Sched, MakeReady, rendvars, freevars
<1>0. /\ other[p] \in Procs /\ other[p] # p /\ state[other[p]] = "Scheding"
      /\ \A n \in Machs : up[n] # other[p]
  BY DEF Children
<1>1. TypeOK'
  BY <1>0 DEF States, Low
<1>2. Quiet'
  BY <1>0 DEF Quiet
<1>3. Processors'
  BY <1>0 DEF Processors, OneProcessor
<1>4. Stages'
  BY <1>0 DEF Stages, Processors, OneProcessor
<1>5. Lists'
  BY <1>0 DEF Lists, High, Quiet
<1>6. Children'
  BY <1>0 DEF Children, Stages, Lists
<1>7. Asleep'
  BY <1>0 DEF Asleep, Stages, Sleeping
<1>8. Coming'
  BY <1>0 DEF Coming, NoLostWakeup
<1> QED
  BY <1>1, <1>2, <1>3, <1>4, <1>5, <1>6, <1>7, <1>8 DEF IInv

(* Without notes and exits Next has no other steps.                        *)
LEMMA StepIInv ==
  ASSUME Posters = {}, Mortals = {}
  PROVE  IInv /\ [Next]_vars => IInv'
<1> SUFFICES ASSUME IInv, [Next]_vars PROVE IInv'
  OBVIOUS
<1>1. ASSUME NEW m \in Machs, Processor(m) PROVE IInv'
  BY <1>1, PickStep, ResumeStep, SchedInitStep, ReleaseStep, PreemptStep,
     InterruptStep, WakeupStep DEF Processor
<1>2. ASSUME NEW p \in Procs, Process(p) PROVE IInv'
  <2>1. PICK m \in Machs : On(m, p)
    BY <1>2 DEF Process, Proceed
  <2>2. \A q \in Procs : ~PostNote(p, q) /\ ~Exit(m, p)
    BY DEF PostNote, Exit
  <2>3. ~SleepNoted(p) /\ ~Notify(p) /\ ~Unsleep(p) /\ ~PostRead(p) /\ ~PostWake(p)
    BY DEF IInv, Quiet, SleepNoted, Notify, Unsleep, PostRead, PostWake, Goto
  <2>4. CASE Proceed(p)
    BY <2>3, <2>4, Sleep1Step, EvaluateStep, HappenedStep, CommitStep,
       SleepSchedStep, ReturnStep, ForkStep DEF Proceed
  <2>5. CASE ~Proceed(p)
    <3>1. PICK n \in Machs : /\ On(n, p)
                            /\ \/ \E r \in Rends : Call(p, r)
                               \/ \E c \in Procs : NewProc(p, c)
      BY <1>2, <2>3, <2>5 DEF Process, PostNote, Exit
    <3> QED
      BY <3>1, CallStep, NewProcStep
  <2> QED
    BY <2>4, <2>5
<1>3. CASE UNCHANGED vars
  BY <1>3 DEF vars, IInv, TypeOK, Quiet, Processors, OneProcessor, Stages, Lists,
     Children, Asleep, Coming, NoLostWakeup
<1> QED
  BY <1>1, <1>2, <1>3 DEF Next

(* Every step keeps it.                                                    *)
LEMMA Inductive ==
  ASSUME Posters = {}, Mortals = {}
  PROVE  Spec => []IInv
  BY InitIInv, StepIInv, PTL DEF Spec

(* proc.c:474: the panic in wakeup cannot happen.                          *)
THEOREM NoWakeupPanic ==
  ASSUME Posters = {}, Mortals = {}
  PROVE  Spec => []WakeupState
<1>1. IInv => WakeupState
  BY DEF IInv, Asleep, WakeupState
<1> QED
  BY <1>1, Inductive, PTL

(* proc.c:53-112, 242-276: no process is ever on two processors, and its   *)
(* stack is not picked up before its processor has left it.                *)
THEOREM OneProcessorEach ==
  ASSUME Posters = {}, Mortals = {}
  PROVE  Spec => [](OneProcessor /\ MachZeroMeansSaved)
<1>1. IInv => OneProcessor /\ MachZeroMeansSaved
  BY ConstantsAssumption DEF IInv, Processors, MachZeroMeansSaved
<1> QED
  BY <1>1, Inductive, PTL

(* proc.c:141-183, 242-277: the run queue holds the Ready processes, and   *)
(* whoever still runs while it is there is about to call sched.            *)
THEOREM RunQueue ==
  ASSUME Posters = {}, Mortals = {}
  PROVE  Spec => []QueueExact
<1>1. IInv => QueueExact
  BY DEF IInv, TypeOK, Lists, Stages, QueueExact
<1> QED
  BY <1>1, Inductive, PTL

(* proc.c:352-388, 463-481: no wakeup is missed, on any number of          *)
(* processors.                                                             *)
THEOREM WakeupsKept ==
  ASSUME Posters = {}, Mortals = {}
  PROVE  Spec => []NoLostWakeup
<1>1. IInv => NoLostWakeup
  BY DEF IInv, Coming
<1> QED
  BY <1>1, Inductive, PTL

(* proc.c:89-112, 352-410: whoever sleeps can be found.                    *)
THEOREM SleepersFound ==
  ASSUME Posters = {}, Mortals = {}
  PROVE  Spec => []NobodyForgotten
<1>1. IInv => NobodyForgotten
  BY DEF IInv, Asleep, NobodyForgotten, Sleeping
<1> QED
  BY <1>1, Inductive, PTL
-----------------------------------------------------------------------------
(* One processor, with notes and exits.  Interrupts that are off now keep  *)
(* everybody out of sleep, from the evaluation of the condition to the     *)
(* call of sched, and a process that posts a note finds the other one      *)
(* saved.  A sleep given up because of a note leaves its process in state  *)
(* Wakeme while it runs, which the invariant has to live with.             *)
OneMachine == \E m \in Machs : Machs = {m}

(* What p->state can be at each stage, and where interrupts are on.        *)
UniStages == \A m \in Machs :
    /\ at[m] = "picked" => state[up[m]] = "Scheding"
    /\ at[m] = "run" => state[up[m]] \in IF pc[up[m]] = "woke" THEN {"Running"}
                                                             ELSE {"Running", "Wakeme"}
    /\ at[m] = "sched" => state[up[m]] \in {"Running", "Wakeme", "Moribund"}
    /\ at[m] = "release" => state[up[m]] \in {"Ready", "Wakeme", "Dead"}
    /\ intr[m] # None => at[m] \in {"idle", "run"}

(* With interrupts off a process has its processor to itself.              *)
UniHigh == \A p \in Procs : pc[p] \in High => \E m \in Machs : On(m, p)

(* The queue and the free list hold what p->state says.                    *)
UniLists == /\ \A p \in Procs : p \in runq <=> state[p] = "Ready"
            /\ \A p \in Procs : p \in free <=> state[p] = "Dead"
            /\ \A p \in Procs : state[p] = "Dead" => pc[p] = "gone"

(* Who sleeps or sleeps no more because of a note, where, and who is on a  *)
(* Rendez: always one that wakeup finds in state Wakeme.                   *)
UniAsleep ==
    /\ \A p \in Procs : pc[p] \in Sleeping \cup {"unsleep"}
                            => arg[p] \in Rends /\ Sleeper[arg[p]] = p
    /\ \A p \in Procs : pc[p] \in {"post", "postlock"} => other[p] \in Procs
    /\ \A p \in Procs : pc[p] = "postlock" => arg[p] \in Rends
    /\ \A r \in Rends : rp[r] # None => /\ state[rp[r]] = "Wakeme" /\ arg[rp[r]] = r
                                         /\ pc[rp[r]] \in {"slept", "unsleep", "woke"}

(* A condition found false stays false until the process is on its Rendez. *)
UniComing == /\ NoLostWakeup
             /\ \A p \in Procs : pc[p] = "commit" => ~cond[arg[p]]

UniInv == TypeOK /\ Processors /\ UniStages /\ UniHigh /\ UniLists /\ Children
          /\ UniAsleep /\ UniComing

(* At first all this holds.                                                *)
LEMMA UniInit == Init => UniInv
<1> SUFFICES ASSUME Init PROVE UniInv
  OBVIOUS
<1> USE ConstantsAssumption DEF Init
<1>1. TypeOK
  BY DEF TypeOK, States, High, Low
<1>2. Processors /\ UniStages
  BY DEF Processors, OneProcessor, UniStages
<1>3. UniHigh /\ UniLists /\ Children
  BY DEF UniHigh, UniLists, Children, High
<1>4. UniAsleep /\ UniComing
  BY DEF UniAsleep, UniComing, Sleeping, NoLostWakeup
<1> QED
  BY <1>1, <1>2, <1>3, <1>4 DEF UniInv

(* One lemma for each action.  Whoever is picked, the processor is idle:   *)
(* it has no process.                                                      *)
LEMMA UniPickStep ==
  ASSUME UniInv, NEW m \in Machs, \A n \in Machs : n = m, NEW p \in Procs,
         Pick(m, p)
  PROVE  UniInv'
<1> USE ConstantsAssumption DEF UniInv, TypeOK, Pick, rendvars, freevars
<1>1. TypeOK'
  BY DEF States
<1>2. Processors'
  BY DEF Processors, OneProcessor
<1>3. UniStages'
  BY DEF UniStages
<1>4. UniHigh'
  BY DEF UniHigh, On
<1>5. UniLists'
  BY DEF UniLists
<1>6. Children'
  BY DEF Children, UniLists
<1>7. UniAsleep'
  BY DEF UniAsleep, UniLists
<1>8. UniComing'
  BY DEF UniComing, NoLostWakeup
<1> QED
  BY <1>1, <1>2, <1>3, <1>4, <1>5, <1>6, <1>7, <1>8 DEF UniInv

(* Whoever was picked is Running again.                                    *)
LEMMA UniResumeStep ==
  ASSUME UniInv, NEW m \in Machs, \A n \in Machs : n = m,
         Resume(m)
  PROVE  UniInv'
<1> USE ConstantsAssumption DEF UniInv, TypeOK, Resume, rendvars, freevars
<1>1. TypeOK'
  BY DEF States
<1>2. Processors'
  BY DEF Processors, OneProcessor
<1>3. UniStages'
  BY DEF UniStages, Processors
<1>4. UniHigh'
  BY DEF UniHigh, On
<1>5. UniLists'
  BY DEF UniLists, UniStages
<1>6. Children'
  BY DEF Children
<1>7. UniAsleep'
  BY DEF UniAsleep, UniStages
<1>8. UniComing'
  BY DEF UniComing, NoLostWakeup
<1> QED
  BY <1>1, <1>2, <1>3, <1>4, <1>5, <1>6, <1>7, <1>8 DEF UniInv

(* Whoever exits is on the free list, and nobody runs who could take it.   *)
LEMMA UniSchedInitStep ==
  ASSUME UniInv, NEW m \in Machs, \A n \in Machs : n = m,
         SchedInit(m)
  PROVE  UniInv'
<1> USE ConstantsAssumption DEF UniInv, TypeOK, SchedInit, MakeReady, rendvars, freevars
<1>1. TypeOK'
  BY DEF States, High, Low, Processors
<1>2. Processors'
  BY DEF Processors, OneProcessor
<1>3. UniStages'
  BY DEF UniStages, Processors
<1>4. UniHigh'
  BY DEF UniHigh, On, High
<1>5. UniLists'
  <2>1. up[m] \in Procs
    BY DEF Processors
  <2>2. CASE state[up[m]] = "Running"
    BY <2>1, <2>2 DEF UniLists
  <2>3. CASE state[up[m]] = "Moribund"
    BY <2>1, <2>3 DEF UniLists
  <2>4. CASE state[up[m]] \notin {"Running", "Moribund"}
    BY <2>1, <2>4 DEF UniLists
  <2> QED
    BY <2>2, <2>3, <2>4
<1>6. Children'
  BY DEF Children
<1>7. UniAsleep'
  BY DEF UniAsleep, Sleeping
<1>8. UniComing'
  BY DEF UniComing, NoLostWakeup
<1> QED
  BY <1>1, <1>2, <1>3, <1>4, <1>5, <1>6, <1>7, <1>8 DEF UniInv

LEMMA UniReleaseStep ==
  ASSUME UniInv, NEW m \in Machs, \A n \in Machs : n = m,
         Release(m)
  PROVE  UniInv'
<1> USE ConstantsAssumption DEF UniInv, TypeOK, Release, rendvars, freevars
<1>1. TypeOK'
  OBVIOUS
<1>2. Processors'
  BY DEF Processors, OneProcessor
<1>3. UniStages'
  BY DEF UniStages
<1>4. UniHigh'
  BY DEF UniHigh, On
<1>5. UniLists'
  BY DEF UniLists
<1>6. Children'
  BY DEF Children
<1>7. UniAsleep'
  BY DEF UniAsleep
<1>8. UniComing'
  BY DEF UniComing, NoLostWakeup
<1> QED
  BY <1>1, <1>2, <1>3, <1>4, <1>5, <1>6, <1>7, <1>8 DEF UniInv

LEMMA UniPreemptStep ==
  ASSUME UniInv, NEW m \in Machs, \A n \in Machs : n = m,
         Preempt(m)
  PROVE  UniInv'
<1> USE ConstantsAssumption DEF UniInv, TypeOK, Preempt, rendvars, freevars
<1>1. TypeOK'
  OBVIOUS
<1>2. Processors'
  BY DEF Processors, OneProcessor
<1>3. UniStages'
  BY DEF UniStages
<1>4. UniHigh'
  BY DEF UniHigh, On, High, Low
<1>5. UniLists'
  BY DEF UniLists
<1>6. Children'
  BY DEF Children
<1>7. UniAsleep'
  BY DEF UniAsleep
<1>8. UniComing'
  BY DEF UniComing, NoLostWakeup
<1> QED
  BY <1>1, <1>2, <1>3, <1>4, <1>5, <1>6, <1>7, <1>8 DEF UniInv

(* No process has interrupts off, so none is about to commit itself.       *)
LEMMA UniInterruptStep ==
  ASSUME UniInv, NEW m \in Machs, \A n \in Machs : n = m, NEW r \in Rends,
         Interrupt(m, r)
  PROVE  UniInv'
<1> USE ConstantsAssumption DEF UniInv, TypeOK, Interrupt, rendvars, freevars
<1>1. TypeOK'
  OBVIOUS
<1>2. Processors'
  BY DEF Processors, OneProcessor
<1>3. UniStages'
  BY DEF UniStages
<1>4. UniHigh'
  BY DEF UniHigh, On, High, Low
<1>5. UniLists'
  BY DEF UniLists
<1>6. Children'
  BY DEF Children
<1>7. UniAsleep'
  BY DEF UniAsleep
<1>8. UniComing'
  BY DEF UniComing, NoLostWakeup, UniHigh, On, Low
<1> QED
  BY <1>1, <1>2, <1>3, <1>4, <1>5, <1>6, <1>7, <1>8 DEF UniInv

(* Who is on the Rendez is not running: only where interrupts are off is it.*)
LEMMA UniWakeupStep ==
  ASSUME UniInv, NEW m \in Machs, \A n \in Machs : n = m,
         Wakeup(m)
  PROVE  UniInv'
<1> USE ConstantsAssumption DEF UniInv, TypeOK, Wakeup, Wake, MakeReady, rendvars, freevars
<1>1. TypeOK'
  <2>1. intr[m] \in Rends
    OBVIOUS
  <2>2. CASE rp[intr[m]] = None
    BY <2>1, <2>2
  <2>3. CASE rp[intr[m]] # None
    BY <2>1, <2>3 DEF States
  <2> QED
    BY <2>2, <2>3
<1>2. Processors'
  BY DEF Processors, OneProcessor
<1>3. UniStages'
  BY DEF UniStages, Processors, UniAsleep, UniHigh, On, Low
<1>4. UniHigh'
  BY DEF UniHigh, On
<1>5. UniLists'
  BY DEF UniLists, UniAsleep
<1>6. Children'
  BY DEF Children, UniAsleep
<1>7. UniAsleep'
  BY DEF UniAsleep
<1>8. UniComing'
  BY DEF UniComing, NoLostWakeup
<1> QED
  BY <1>1, <1>2, <1>3, <1>4, <1>5, <1>6, <1>7, <1>8 DEF UniInv

LEMMA UniCallStep ==
  ASSUME UniInv, NEW m \in Machs, \A n \in Machs : n = m, NEW p \in Procs, NEW r \in Rends,
         On(m, p), Call(p, r)
  PROVE  UniInv'
<1> USE ConstantsAssumption DEF UniInv, TypeOK, On, Call, Goto, cpuvars, rendvars, freevars
<1>1. TypeOK'
  BY DEF Low
<1>2. Processors'
  BY DEF Processors, OneProcessor
<1>3. UniStages'
  BY DEF UniStages
<1>4. UniHigh'
  BY DEF UniHigh
<1>5. UniLists'
  BY DEF UniLists
<1>6. Children'
  BY DEF Children
<1>7. UniAsleep'
  BY DEF UniAsleep
<1>8. UniComing'
  BY DEF UniComing, NoLostWakeup
<1> QED
  BY <1>1, <1>2, <1>3, <1>4, <1>5, <1>6, <1>7, <1>8 DEF UniInv

LEMMA UniSleep1Step ==
  ASSUME UniInv, NEW m \in Machs, \A n \in Machs : n = m, NEW p \in Procs,
         On(m, p), Sleep1(p)
  PROVE  UniInv'
<1> USE ConstantsAssumption DEF UniInv, TypeOK, On, Sleep1, Goto, cpuvars, rendvars, freevars
<1>1. TypeOK'
  BY DEF High
<1>2. Processors'
  BY DEF Processors, OneProcessor
<1>3. UniStages'
  BY DEF UniStages
<1>4. UniHigh'
  BY DEF UniHigh
<1>5. UniLists'
  BY DEF UniLists
<1>6. Children'
  BY DEF Children
<1>7. UniAsleep'
  BY DEF UniAsleep, Sleeping
<1>8. UniComing'
  BY DEF UniComing, NoLostWakeup
<1> QED
  BY <1>1, <1>2, <1>3, <1>4, <1>5, <1>6, <1>7, <1>8 DEF UniInv

LEMMA UniEvaluateStep ==
  ASSUME UniInv, NEW m \in Machs, \A n \in Machs : n = m, NEW p \in Procs,
         On(m, p), Evaluate(p)
  PROVE  UniInv'
<1> USE ConstantsAssumption DEF UniInv, TypeOK, On, Evaluate, Goto, cpuvars, rendvars, freevars
<1>1. TypeOK'
  BY DEF High
<1>2. Processors'
  BY DEF Processors, OneProcessor
<1>3. UniStages'
  BY DEF UniStages
<1>4. UniHigh'
  BY DEF UniHigh
<1>5. UniLists'
  BY DEF UniLists
<1>6. Children'
  BY DEF Children
<1>7. UniAsleep'
  BY DEF UniAsleep, Sleeping
<1>8. UniComing'
  BY DEF UniComing, NoLostWakeup
<1> QED
  BY <1>1, <1>2, <1>3, <1>4, <1>5, <1>6, <1>7, <1>8 DEF UniInv

LEMMA UniHappenedStep ==
  ASSUME UniInv, NEW m \in Machs, \A n \in Machs : n = m, NEW p \in Procs,
         On(m, p), Happened(p)
  PROVE  UniInv'
<1> USE ConstantsAssumption DEF UniInv, TypeOK, On, Happened, Goto, cpuvars, rendvars, freevars
<1>1. TypeOK'
  BY DEF Low
<1>2. Processors'
  BY DEF Processors, OneProcessor
<1>3. UniStages'
  BY DEF UniStages
<1>4. UniHigh'
  BY DEF UniHigh
<1>5. UniLists'
  BY DEF UniLists
<1>6. Children'
  BY DEF Children
<1>7. UniAsleep'
  BY DEF UniAsleep, Sleeping
<1>8. UniComing'
  BY DEF UniComing, NoLostWakeup
<1> QED
  BY <1>1, <1>2, <1>3, <1>4, <1>5, <1>6, <1>7, <1>8 DEF UniInv

LEMMA UniCommitStep ==
  ASSUME UniInv, NEW m \in Machs, \A n \in Machs : n = m, NEW p \in Procs,
         On(m, p), Commit(p)
  PROVE  UniInv'
<1> USE ConstantsAssumption DEF UniInv, TypeOK, On, Commit, Goto, cpuvars, rendvars, freevars
<1>1. TypeOK'
  BY DEF States, High
<1>2. Processors'
  BY DEF Processors, OneProcessor
<1>3. UniStages'
  BY DEF UniStages
<1>4. UniHigh'
  BY DEF UniHigh
<1>5. UniLists'
  BY DEF UniLists, UniStages
<1>6. Children'
  BY DEF Children
<1>7. UniAsleep'
  BY DEF UniAsleep, Sleeping
<1>8. UniComing'
  BY DEF UniComing, NoLostWakeup
<1> QED
  BY <1>1, <1>2, <1>3, <1>4, <1>5, <1>6, <1>7, <1>8 DEF UniInv

LEMMA UniSleepSchedStep ==
  ASSUME UniInv, NEW m \in Machs, \A n \in Machs : n = m, NEW p \in Procs,
         On(m, p), SleepSched(m, p)
  PROVE  UniInv'
<1> USE ConstantsAssumption DEF UniInv, TypeOK, On, SleepSched, Goto, Sched, rendvars, freevars
<1>1. TypeOK'
  BY DEF States, High, Low
<1>2. Processors'
  BY DEF Processors, OneProcessor
<1>3. UniStages'
  BY DEF UniStages
<1>4. UniHigh'
  BY DEF UniHigh, High
<1>5. UniLists'
  BY DEF UniLists
<1>6. Children'
  BY DEF Children
<1>7. UniAsleep'
  BY DEF UniAsleep, Sleeping
<1>8. UniComing'
  BY DEF UniComing, NoLostWakeup
<1> QED
  BY <1>1, <1>2, <1>3, <1>4, <1>5, <1>6, <1>7, <1>8 DEF UniInv

LEMMA UniSleepNotedStep ==
  ASSUME UniInv, NEW m \in Machs, \A n \in Machs : n = m, NEW p \in Procs,
         On(m, p), SleepNoted(p)
  PROVE  UniInv'
<1> USE ConstantsAssumption DEF UniInv, TypeOK, On, SleepNoted, Goto, cpuvars, rendvars,
             freevars
<1>1. TypeOK'
  <2>1. pc' = [pc EXCEPT ![p] = "unsleep"]
    OBVIOUS
  <2> QED
    BY <2>1 DEF High
<1>2. Processors'
  BY DEF Processors, OneProcessor
<1>3. UniStages'
  BY DEF UniStages
<1>4. UniHigh'
  BY DEF UniHigh
<1>5. UniLists'
  BY DEF UniLists
<1>6. Children'
  BY DEF Children
<1>7. UniAsleep'
  <2>1. pc' = [pc EXCEPT ![p] = "unsleep"] /\ pc[p] \in {"slept", "yield", "woke"}
    OBVIOUS
  <2> QED
    BY <2>1 DEF UniAsleep, Sleeping
<1>8. UniComing'
  BY DEF UniComing, NoLostWakeup
<1> QED
  BY <1>1, <1>2, <1>3, <1>4, <1>5, <1>6, <1>7, <1>8 DEF UniInv

(* The state stays Wakeme if that is what it was, the Rendez is left.      *)
LEMMA UniUnsleepStep ==
  ASSUME UniInv, NEW m \in Machs, \A n \in Machs : n = m, NEW p \in Procs,
         On(m, p), Unsleep(p)
  PROVE  UniInv'
<1> USE ConstantsAssumption DEF UniInv, TypeOK, On, Unsleep, Goto, cpuvars, rendvars, freevars
<1>1. TypeOK'
  BY DEF Low
<1>2. Processors'
  BY DEF Processors, OneProcessor
<1>3. UniStages'
  BY DEF UniStages
<1>4. UniHigh'
  BY DEF UniHigh
<1>5. UniLists'
  BY DEF UniLists
<1>6. Children'
  BY DEF Children
<1>7. UniAsleep'
  BY DEF UniAsleep, Sleeping
<1>8. UniComing'
  BY DEF UniComing, NoLostWakeup
<1> QED
  BY <1>1, <1>2, <1>3, <1>4, <1>5, <1>6, <1>7, <1>8 DEF UniInv

LEMMA UniReturnStep ==
  ASSUME UniInv, NEW m \in Machs, \A n \in Machs : n = m, NEW p \in Procs,
         On(m, p), Return(p)
  PROVE  UniInv'
<1> USE ConstantsAssumption DEF UniInv, TypeOK, On, Return, Goto, cpuvars, rendvars, freevars
<1>1. TypeOK'
  BY DEF Low
<1>2. Processors'
  BY DEF Processors, OneProcessor
<1>3. UniStages'
  BY DEF UniStages
<1>4. UniHigh'
  BY DEF UniHigh
<1>5. UniLists'
  BY DEF UniLists
<1>6. Children'
  BY DEF Children
<1>7. UniAsleep'
  BY DEF UniAsleep, UniStages, Sleeping
<1>8. UniComing'
  BY DEF UniComing, NoLostWakeup
<1> QED
  BY <1>1, <1>2, <1>3, <1>4, <1>5, <1>6, <1>7, <1>8 DEF UniInv

LEMMA UniNotifyStep ==
  ASSUME UniInv, NEW m \in Machs, \A n \in Machs : n = m, NEW p \in Procs,
         On(m, p), Notify(p)
  PROVE  UniInv'
<1> USE ConstantsAssumption DEF UniInv, TypeOK, On, Notify, cpuvars, rendvars, freevars
<1>1. TypeOK'
  OBVIOUS
<1>2. Processors'
  BY DEF Processors, OneProcessor
<1>3. UniStages'
  BY DEF UniStages
<1>4. UniHigh'
  BY DEF UniHigh
<1>5. UniLists'
  BY DEF UniLists
<1>6. Children'
  BY DEF Children
<1>7. UniAsleep'
  BY DEF UniAsleep
<1>8. UniComing'
  BY DEF UniComing, NoLostWakeup
<1> QED
  BY <1>1, <1>2, <1>3, <1>4, <1>5, <1>6, <1>7, <1>8 DEF UniInv

LEMMA UniPostNoteStep ==
  ASSUME UniInv, NEW m \in Machs, \A n \in Machs : n = m, NEW p \in Procs, NEW q \in Procs,
         On(m, p), PostNote(p, q)
  PROVE  UniInv'
<1> USE ConstantsAssumption DEF UniInv, TypeOK, On, PostNote, Goto, cpuvars, rendvars, freevars
<1>1. TypeOK'
  BY DEF Low
<1>2. Processors'
  BY DEF Processors, OneProcessor
<1>3. UniStages'
  BY DEF UniStages
<1>4. UniHigh'
  BY DEF UniHigh
<1>5. UniLists'
  BY DEF UniLists
<1>6. Children'
  BY DEF Children
<1>7. UniAsleep'
  BY DEF UniAsleep, Sleeping
<1>8. UniComing'
  BY DEF UniComing, NoLostWakeup
<1> QED
  BY <1>1, <1>2, <1>3, <1>4, <1>5, <1>6, <1>7, <1>8 DEF UniInv

LEMMA UniPostReadStep ==
  ASSUME UniInv, NEW m \in Machs, \A n \in Machs : n = m, NEW p \in Procs,
         On(m, p), PostRead(p)
  PROVE  UniInv'
<1> USE ConstantsAssumption DEF UniInv, TypeOK, On, PostRead, Goto, cpuvars, rendvars, freevars
<1>1. TypeOK'
  BY DEF Low, UniAsleep
<1>2. Processors'
  BY DEF Processors, OneProcessor
<1>3. UniStages'
  BY DEF UniStages
<1>4. UniHigh'
  BY DEF UniHigh
<1>5. UniLists'
  BY DEF UniLists
<1>6. Children'
  BY DEF Children
<1>7. UniAsleep'
  BY DEF UniAsleep, Sleeping
<1>8. UniComing'
  BY DEF UniComing, NoLostWakeup
<1> QED
  BY <1>1, <1>2, <1>3, <1>4, <1>5, <1>6, <1>7, <1>8 DEF UniInv

(* Whoever a note finds asleep has left the processor.                     *)
LEMMA UniPostWakeStep ==
  ASSUME UniInv, NEW m \in Machs, \A n \in Machs : n = m, NEW p \in Procs,
         On(m, p), PostWake(p)
  PROVE  UniInv'
<1> USE ConstantsAssumption DEF UniInv, TypeOK, On, PostWake, Goto, Wake, MakeReady,
             cpuvars, rendvars, freevars
<1>1. TypeOK'
  <2>1. arg[p] \in Rends /\ other[p] \in Procs
    BY DEF UniAsleep
  <2>2. pc' \in [Procs -> High \cup Low] /\ arg' \in [Procs -> Rends \cup {None}]
    BY DEF Low
  <2>3. /\ state' \in [Procs -> States] /\ pr' \in [Procs -> Rends \cup {None}]
        /\ rp' \in [Rends -> Procs \cup {None}] /\ runq' \subseteq Procs
    BY <2>1 DEF States
  <2> QED
    BY <2>2, <2>3
<1>2. Processors'
  BY DEF Processors, OneProcessor
<1>3. UniStages'
  BY DEF UniStages, UniAsleep
<1>4. UniHigh'
  BY DEF UniHigh
<1>5. UniLists'
  BY DEF UniLists, UniStages
<1>6. Children'
  BY DEF Children
<1>7. UniAsleep'
  BY DEF UniAsleep, Sleeping
<1>8. UniComing'
  BY DEF UniComing, NoLostWakeup
<1> QED
  BY <1>1, <1>2, <1>3, <1>4, <1>5, <1>6, <1>7, <1>8 DEF UniInv

LEMMA UniExitStep ==
  ASSUME UniInv, NEW m \in Machs, \A n \in Machs : n = m, NEW p \in Procs,
         On(m, p), Exit(m, p)
  PROVE  UniInv'
<1> USE ConstantsAssumption DEF UniInv, TypeOK, On, Exit, Sched, rendvars, freevars
<1>1. TypeOK'
  BY DEF States
<1>2. Processors'
  BY DEF Processors, OneProcessor
<1>3. UniStages'
  BY DEF UniStages
<1>4. UniHigh'
  BY DEF UniHigh, High
<1>5. UniLists'
  BY DEF UniLists, UniStages, UniAsleep
<1>6. Children'
  BY DEF Children
<1>7. UniAsleep'
  BY DEF UniAsleep
<1>8. UniComing'
  BY DEF UniComing, NoLostWakeup
<1> QED
  BY <1>1, <1>2, <1>3, <1>4, <1>5, <1>6, <1>7, <1>8 DEF UniInv

LEMMA UniNewProcStep ==
  ASSUME UniInv, NEW m \in Machs, \A n \in Machs : n = m, NEW p \in Procs, NEW c \in Procs,
         On(m, p), NewProc(p, c)
  PROVE  UniInv'
<1> USE ConstantsAssumption DEF UniInv, TypeOK, On, NewProc, Goto, rendvars, freevars
<1>1. TypeOK'
  BY DEF States, Low
<1>2. Processors'
  BY DEF Processors, OneProcessor, UniLists
<1>3. UniStages'
  BY DEF UniStages, UniLists
<1>4. UniHigh'
  BY DEF UniHigh
<1>5. UniLists'
  BY DEF UniLists
<1>6. Children'
  BY DEF Children, UniLists
<1>7. UniAsleep'
  BY DEF UniAsleep, UniLists, Sleeping
<1>8. UniComing'
  BY DEF UniComing, NoLostWakeup
<1> QED
  BY <1>1, <1>2, <1>3, <1>4, <1>5, <1>6, <1>7, <1>8 DEF UniInv

LEMMA UniForkStep ==
  ASSUME UniInv, NEW m \in Machs, \A n \in Machs : n = m, NEW p \in Procs,
         On(m, p), Fork(m, p)
  PROVE  UniInv'
<1> USE ConstantsAssumption DEF UniInv, TypeOK, On, Fork, MakeReady, Sched, rendvars, freevars
<1>1. TypeOK'
  <2>1. other[p] \in Procs
    BY DEF Children
  <2>2. pc' \in [Procs -> High \cup Low]
    BY <2>1 DEF Low
  <2>3. /\ state' \in [Procs -> States] /\ runq' \subseteq Procs
        /\ at' \in [Machs -> {"idle", "picked", "run", "sched", "release"}]
    BY <2>1 DEF States
  <2> QED
    BY <2>2, <2>3
<1>2. Processors'
  BY DEF Processors, OneProcessor
<1>3. UniStages'
  BY DEF UniStages, Children
<1>4. UniHigh'
  BY DEF UniHigh, High
<1>5. UniLists'
  BY DEF UniLists, Children
<1>6. Children'
  BY DEF Children, UniStages, Processors
<1>7. UniAsleep'
  BY DEF UniAsleep, Children, Sleeping
<1>8. UniComing'
  BY DEF UniComing, NoLostWakeup
<1> QED
  BY <1>1, <1>2, <1>3, <1>4, <1>5, <1>6, <1>7, <1>8 DEF UniInv

(* Every step keeps it.                                                    *)
LEMMA UniStep == OneMachine /\ UniInv /\ [Next]_vars => UniInv'
<1> SUFFICES ASSUME OneMachine, UniInv, [Next]_vars PROVE UniInv'
  OBVIOUS
<1>1. \A m, n \in Machs : m = n
  BY DEF OneMachine
<1>2. ASSUME NEW m \in Machs, Processor(m) PROVE UniInv'
  BY <1>1, <1>2, UniPickStep, UniResumeStep, UniSchedInitStep, UniReleaseStep, UniPreemptStep,
     UniInterruptStep, UniWakeupStep DEF Processor
<1>3. ASSUME NEW p \in Procs, NEW m \in Machs, On(m, p) PROVE Proceed(p) => UniInv'
  BY <1>1, <1>3, UniSleep1Step, UniEvaluateStep, UniHappenedStep, UniCommitStep, UniSleepSchedStep,
     UniSleepNotedStep, UniUnsleepStep, UniReturnStep, UniPostReadStep, UniPostWakeStep,
     UniForkStep DEF Proceed
<1>4. ASSUME NEW p \in Procs, Process(p) PROVE UniInv'
  BY <1>1, <1>3, <1>4, UniCallStep, UniPostNoteStep, UniNewProcStep, UniNotifyStep,
     UniExitStep DEF Process, Proceed
<1>5. CASE UNCHANGED vars
  BY <1>5 DEF vars, UniInv, TypeOK, Processors, OneProcessor, UniStages, UniHigh, On, UniLists,
     Children, UniAsleep, UniComing, NoLostWakeup
<1> QED
  BY <1>2, <1>4, <1>5 DEF Next

LEMMA UniInductive ==
  ASSUME OneMachine
  PROVE  Spec => []UniInv
  BY UniInit, UniStep, PTL DEF Spec

(* On one processor, notes and exits and all, whoever wakeup finds on a    *)
(* Rendez is in state Wakeme (proc.c:474): the race of proc.c:398 with     *)
(* postnote needs a second processor.                                      *)
THEOREM UniNoWakeupPanic ==
  ASSUME OneMachine
  PROVE  Spec => []WakeupState
<1>1. UniInv => WakeupState
  BY DEF UniInv, UniAsleep, WakeupState
<1> QED
  BY <1>1, UniInductive, PTL

(* On one processor the run queue holds the Ready processes, though some   *)
(* run in state Wakeme (proc.c:141-183, 400).                              *)
THEOREM UniRunQueue ==
  ASSUME OneMachine
  PROVE  Spec => []QueueExact
<1>1. UniInv => QueueExact
  BY DEF UniInv, TypeOK, UniLists, UniStages, QueueExact
<1> QED
  BY <1>1, UniInductive, PTL

(* On one processor no wakeup is missed, though notes take processes off   *)
(* their Rendez (proc.c:352-410, 463-542).                                 *)
THEOREM UniWakeupsKept ==
  ASSUME OneMachine
  PROVE  Spec => []NoLostWakeup
<1>1. UniInv => NoLostWakeup
  BY DEF UniInv, UniComing
<1> QED
  BY <1>1, UniInductive, PTL
=============================================================================
