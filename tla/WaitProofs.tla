----------------------------- MODULE WaitProofs -----------------------------
(***************************************************************************)
(* Proofs about exit and wait for any process table: a process has only    *)
(* records of its own children, and its count of children is right,        *)
(* whatever slots are used again for.                                      *)
(***************************************************************************)
EXTENDS Wait, FiniteSetTheorems, SequenceTheorems, TLAPS

PcType == {"dead", "new", "user", "fork", "exit", "wakeparent", "broken", "clear",
           "freewaits", "moribund", "sleep", "asleep", "take", "panic"}

WaitqType == waitq \in [Procs -> Seq([pid : 1..pidalloc, of : 0..MaxPid])]

(* A pid is given out once, and kept until pexit clears it.                *)
PidsDiffer == /\ \A p \in Procs : pid[p] <= pidalloc /\ parentpid[p] <= pidalloc
              /\ \A p \in Procs : pid[p] = 0 <=> pc[p] \in {"dead", "freewaits", "moribund"}
              /\ \A p, q \in Procs : pid[p] = pid[q] /\ pid[p] # 0 => p = q

(* The first process never exits, so its pid, which rfork gives as that of *)
(* the parent of those nobody waits for, is never anybody else's.          *)
BootStays == /\ pid[Boot] = 1 /\ parent[Boot] = None
             /\ pc[Boot] \in {"user", "fork", "sleep", "asleep", "take", "panic"}

(* rfork fills a slot that nobody else fills.                              *)
ForkFills ==
    /\ \A p \in Procs : pc[p] = "fork" => child[p] \in Procs /\ pc[child[p]] = "new"
    /\ \A p, q \in Procs :
           pc[p] = "fork" /\ pc[q] = "fork" /\ child[p] = child[q] => p = q

ChildKnows ==
    \A c \in Procs \ {Boot} : Alive(c) => parent[c] \in Procs /\ parentpid[c] # 0

(* There is no record of a process before it runs.                         *)
NewUnrecorded == \A p, c \in Procs :
    pc[c] = "new" => \A i \in DOMAIN waitq[p] : waitq[p][i].pid # pid[c]

(* The count, exactly: who has still to leave a record, and who could not. *)
Accounted == \A p \in Procs : pid[p] # 0 => nchild[p] = Cardinality(Due(p)) + missed[p]

IInv == /\ TypeOK
        /\ WaitqType
        /\ PidsDiffer
        /\ BootStays
        /\ ForkFills
        /\ ChildKnows
        /\ NewUnrecorded
        /\ RecordsMine
        /\ Accounted
-----------------------------------------------------------------------------
(* A process has finitely many records due.                                *)
LEMMA DueFinite ==
  ASSUME NEW p
  PROVE  IsFiniteSet(Due(p)) /\ Cardinality(Due(p)) \in Nat
<1>1. Due(p) \in SUBSET Procs
  BY DEF Due
<1> QED
  BY <1>1, WaitAssumption, FS_Subset, FS_CardinalityType

(* What a sequence holds.                                                  *)
LEMMA SeqEntry ==
  ASSUME NEW S, NEW s \in Seq(S), NEW i \in DOMAIN s
  PROVE  s[i] \in S
OBVIOUS

(* What it means to put something in front of a sequence.                  *)
LEMMA Prepended ==
  ASSUME NEW S, NEW w \in S, NEW t \in Seq(S), NEW s, s = <<w>> \o t
  PROVE  /\ s \in Seq(S) /\ Len(s) = Len(t) + 1
         /\ 1 \in DOMAIN s /\ s[1] = w
         /\ \A i \in DOMAIN s : i # 1 => i - 1 \in DOMAIN t /\ s[i] = t[i - 1] /\ i \in Nat
<1>1. <<w>> \in Seq(S) /\ Len(<<w>>) = 1 /\ <<w>>[1] = w
  OBVIOUS
<1>2. /\ Len(t) \in Nat /\ DOMAIN t = 1..Len(t)
  OBVIOUS
<1>3. PICK o : o = <<w>>
  OBVIOUS
<1>4. /\ o \o t \in Seq(S)
      /\ Len(o \o t) = Len(o) + Len(t)
      /\ \A i \in 1..(Len(o) + Len(t)) :
            (o \o t)[i] = IF i <= Len(o) THEN o[i] ELSE t[i - Len(o)]
  BY <1>1, <1>3, ConcatProperties
<1>5. /\ s \in Seq(S) /\ Len(s) = 1 + Len(t)
      /\ \A i \in 1..(1 + Len(t)) : s[i] = IF i <= 1 THEN o[i] ELSE t[i - 1]
  BY <1>1, <1>3, <1>4
<1>6. DOMAIN s = 1..(1 + Len(t))
  BY <1>5, LenProperties
<1> QED
  BY <1>1, <1>2, <1>3, <1>5, <1>6

(* At first there is one process, without children.                        *)
LEMMA InitIInv == Init => IInv
<1> SUFFICES ASSUME Init PROVE IInv
  OBVIOUS
<1> USE WaitAssumption DEF Init
<1>1. TypeOK
  BY DEF TypeOK
<1>2. WaitqType
  BY DEF WaitqType
<1>3. PidsDiffer /\ BootStays /\ ForkFills /\ ChildKnows /\ NewUnrecorded
  BY DEF PidsDiffer, BootStays, ForkFills, ChildKnows, NewUnrecorded, Alive
<1>4. RecordsMine
  BY DEF RecordsMine
<1>5. ASSUME NEW p \in Procs PROVE nchild[p] = Cardinality(Due(p)) + missed[p]
  <2>1. Due(p) = {}
    BY DEF Due
  <2> QED
    BY <2>1, FS_EmptySet
<1> QED
  BY <1>1, <1>2, <1>3, <1>4, <1>5 DEF IInv, Accounted

(* A step that only moves processes on, none of them past its record or    *)
(* its pid: exit, the moves within wait, and most of what pexit does after *)
(* the record.                                                             *)
LEMMA PcStep ==
  ASSUME IInv, UNCHANGED <<pid, link, nchild, waitq, pidalloc, child, missed>>,
         pc' \in [Procs -> PcType],
         \A q \in Procs :
            \/ pc'[q] = pc[q]
            \/ {pc[q], pc'[q]} \subseteq {"user", "sleep", "asleep", "take", "panic"}
            \/ q # Boot /\ pc[q] = "user" /\ pc'[q] = "exit" /\ parent[q] # None
            \/ {pc[q], pc'[q]} \subseteq {"wakeparent", "broken", "clear"}
            \/ {pc[q], pc'[q]} \subseteq {"moribund", "dead"}
  PROVE  IInv'
<1> USE DEF IInv, link
<1>1. TypeOK' /\ WaitqType'
  BY DEF TypeOK, PcType, WaitqType
<1>2. /\ \A q \in Procs : Alive(q)' <=> Alive(q)
      /\ \A q \in Procs : (pc'[q] = "fork" <=> pc[q] = "fork")
                          /\ (pc'[q] = "new" <=> pc[q] = "new")
                         /\ (pc'[q] = "freewaits" <=> pc[q] = "freewaits")
  BY DEF Alive
<1>3. PidsDiffer' /\ BootStays'
  BY WaitAssumption DEF PidsDiffer, BootStays
<1>4. ForkFills' /\ ChildKnows' /\ NewUnrecorded'
  BY <1>2 DEF ForkFills, ChildKnows, NewUnrecorded
<1>5. RecordsMine'
  BY <1>2 DEF RecordsMine
<1>6. \A p \in Procs : Due(p)' = Due(p)
  BY <1>2 DEF Due
<1>7. Accounted'
  BY <1>6 DEF Accounted
<1> QED
  BY <1>1, <1>3, <1>4, <1>5, <1>7

(* Steps that move nothing but the process.                                *)
LEMMA MovesStep ==
  ASSUME IInv, NEW c \in Procs,
         \/ Exit(c) \/ WakeParent(c) \/ Unbreak(c) \/ Die(c)
         \/ Wait(c) \/ Sleep(c) \/ Interrupt(c)
  PROVE  IInv'
<1> USE DEF Goto, IInv, TypeOK, PcType
<1>1. CASE Exit(c)
  BY <1>1, PcStep DEF Exit, BootStays
<1>2. CASE WakeParent(c)
  BY SMTT(60), <1>2, PcStep DEF WakeParent, Wakes
<1>3. CASE Unbreak(c) \/ Die(c)
  BY <1>3, PcStep DEF Unbreak, Die
<1>4. CASE Wait(c) \/ Sleep(c) \/ Interrupt(c)
  BY <1>4, PcStep DEF Wait, Sleep, Interrupt
<1> QED
  BY <1>1, <1>2, <1>3, <1>4
-----------------------------------------------------------------------------
(* A slot taken for a new process has a pid no record and no process has.  *)
LEMMA NewProcStep ==
  ASSUME IInv, NEW p \in Procs, NEW c \in Procs, NewProc(p, c)
  PROVE  IInv'
<1> USE DEF IInv
<1>1. TypeOK'
  <2>1. \A q \in Procs : Len(waitq'[q]) <= Zombies
    BY WaitAssumption DEF TypeOK, WaitqType, NewProc
  <2>2. pidalloc' \in 1..MaxPid /\ pid' \in [Procs -> 0..MaxPid]
    BY WaitAssumption DEF TypeOK, NewProc
  <2>3. pc' \in [Procs -> PcType]
    BY DEF TypeOK, NewProc, PcType
  <2> QED
    BY <2>1, <2>2, <2>3 DEF TypeOK, NewProc, link, PcType
<1>2. /\ p # c /\ c # Boot /\ pidalloc \in Nat /\ pid'[c] = pidalloc + 1
      /\ pc[p] = "user" /\ pc'[p] = "fork" /\ pc[c] = "dead" /\ pc'[c] = "new"
      /\ \A q \in Procs \ {p, c} : pc'[q] = pc[q]
      /\ \A q \in Procs \ {c} : pid'[q] = pid[q]
      /\ \A q \in Procs \ {c} : waitq'[q] = waitq[q]
      /\ waitq'[c] = <<>>
      /\ \A q \in Procs \ {c} : nchild'[q] = nchild[q] /\ missed'[q] = missed[q]
      /\ nchild'[c] = 0 /\ missed'[c] = 0
      /\ pidalloc' = pidalloc + 1 /\ parent' = parent /\ parentpid' = parentpid
      /\ child'[p] = c /\ \A q \in Procs \ {p} : child'[q] = child[q]
  BY SMTT(60) DEF TypeOK, BootStays, WaitqType, NewProc, link
<1>3. \A q \in Procs : pid[q] \in Nat /\ parentpid[q] \in Nat
  BY DEF TypeOK
<1>4. \A q \in Procs : waitq[q] \in Seq([pid : 1..pidalloc, of : 0..MaxPid])
  BY DEF WaitqType
<1>5. \A q \in Procs : \A i \in DOMAIN waitq[q] : waitq[q][i].pid \in 1..pidalloc
  <2> SUFFICES ASSUME NEW q \in Procs, NEW i \in DOMAIN waitq[q]
               PROVE  waitq[q][i].pid \in 1..pidalloc
    OBVIOUS
  <2>1. waitq[q][i] \in [pid : 1..pidalloc, of : 0..MaxPid]
    BY <1>4, SeqEntry
  <2> QED
    BY <2>1
<1>6. WaitqType'
  <2>1. 1..pidalloc \subseteq 1..pidalloc'
    BY <1>2
  <2>2. [pid : 1..pidalloc, of : 0..MaxPid] \subseteq [pid : 1..pidalloc', of : 0..MaxPid]
    BY <2>1
  <2>3. \A q \in Procs : waitq'[q] \in Seq([pid : 1..pidalloc', of : 0..MaxPid])
    <3> SUFFICES ASSUME NEW q \in Procs
                 PROVE  waitq'[q] \in Seq([pid : 1..pidalloc', of : 0..MaxPid])
      OBVIOUS
    <3>1. CASE q = c
      <4>1. \A S : <<>> \in Seq(S)
        OBVIOUS
      <4> QED
        BY <1>2, <3>1, <4>1
    <3>2. CASE q # c
      <4>1. waitq[q] \in Seq([pid : 1..pidalloc, of : 0..MaxPid])
        BY <1>4
      <4>2. waitq[q] \in Seq([pid : 1..pidalloc', of : 0..MaxPid])
        BY <2>2, <4>1, SeqMonotonic
      <4> QED
        BY <1>2, <3>2, <4>2
    <3> QED
      BY <3>1, <3>2
  <2> QED
    BY <2>3 DEF WaitqType, NewProc
<1>7. PidsDiffer'
  BY <1>2, <1>3 DEF PidsDiffer
<1>8. BootStays'
  BY <1>2, WaitAssumption DEF BootStays
<1>9. ForkFills'
  <2>1. \A q \in Procs : q # p /\ pc'[q] = "fork" => pc[q] = "fork" /\ child'[q] = child[q]
    BY <1>2
  <2>2. child'[p] = c
    BY <1>2
  <2>3. \A q \in Procs : q # p /\ pc'[q] = "fork" =>
            child[q] \in Procs /\ pc[child[q]] = "new" /\ child[q] # c /\ child[q] # p
    BY <1>2, <2>1 DEF ForkFills
  <2> QED
    BY <1>2, <2>1, <2>2, <2>3 DEF ForkFills
<1>10. \A q \in Procs : Alive(q)' <=> Alive(q)
  BY <1>2 DEF Alive
<1>11. ChildKnows'
  BY <1>2, <1>10 DEF ChildKnows
<1>12. NewUnrecorded'
  BY <1>2, <1>5 DEF NewUnrecorded
<1>13. RecordsMine'
  <2>1. \A q \in Procs : Alive(q)' => q # c
    BY <1>2 DEF Alive
  <2> QED
    BY <1>2, <1>10, <2>1 DEF RecordsMine
<1>14. Accounted'
  <2>1. \A q \in Procs \ {c} : Due(q)' = Due(q)
    BY <1>2, <1>10 DEF Due
  <2>2. Due(c)' = {}
    BY <1>2, <1>3, <1>10 DEF Due, PidsDiffer
  <2> QED
    <3>1. ASSUME NEW q \in Procs \ {c}, pid'[q] # 0
          PROVE  nchild'[q] = Cardinality(Due(q)') + missed'[q]
      BY <1>2, <2>1, <3>1 DEF Accounted
    <3>2. nchild'[c] = Cardinality(Due(c)') + missed'[c]
      BY <1>2, <2>2, FS_EmptySet
    <3> QED
      BY <3>1, <3>2 DEF Accounted
<1> QED
  BY <1>1, <1>6, <1>7, <1>8, <1>9, <1>11, <1>12, <1>13, <1>14

(* The new process is one more child, unless nobody is to wait for it.     *)
LEMMA ReadyStep ==
  ASSUME IInv, NEW p \in Procs, NEW nowait \in BOOLEAN, Ready(p, nowait)
  PROVE  IInv'
<1> USE DEF IInv
<1> PICK c \in Procs : c = child[p]
  BY DEF Ready, ForkFills
<1>1. /\ p # c /\ c # Boot
      /\ pc[p] = "fork" /\ pc'[p] = "user" /\ pc[c] = "new" /\ pc'[c] = "user"
      /\ \A q \in Procs \ {p, c} : pc'[q] = pc[q]
  BY DEF TypeOK, BootStays, ForkFills, Ready
<1>2. /\ pid' = pid /\ waitq' = waitq /\ missed' = missed /\ pidalloc' = pidalloc
      /\ pid[p] \in Nat /\ pid[p] # 0 /\ pid[p] <= pidalloc /\ pidalloc \in 1..MaxPid
  <2>1. pid' = pid /\ waitq' = waitq /\ missed' = missed /\ pidalloc' = pidalloc
    BY DEF Ready
  <2>2. pid[p] \in Nat /\ pid[p] <= pidalloc /\ pidalloc \in 1..MaxPid
    BY DEF TypeOK, PidsDiffer
  <2>3. pid[p] # 0
    BY <1>1 DEF PidsDiffer
  <2> QED
    BY <2>1, <2>2, <2>3
<1>3. /\ parent'[c] = p /\ parentpid'[c] = IF nowait THEN 1 ELSE pid[p]
      /\ \A q \in Procs \ {c} : parent'[q] = parent[q] /\ parentpid'[q] = parentpid[q]
  BY DEF TypeOK, Ready
<1>4. /\ nchild'[p] = IF nowait THEN nchild[p] ELSE nchild[p] + 1
      /\ \A q \in Procs \ {p} : nchild'[q] = nchild[q]
      /\ \A q \in Procs \ {p} : child'[q] = child[q]
  BY DEF TypeOK, Ready
<1>5. TypeOK'
  <2>1. pc' \in [Procs -> PcType] /\ child' \in [Procs -> Procs \cup {None}]
    BY <1>1 DEF TypeOK, PcType, Ready
  <2>2. parent' \in [Procs -> Procs \cup {None}] /\ nchild' \in [Procs -> Nat]
    BY <1>1 DEF TypeOK, Ready
  <2>3. parentpid' \in [Procs -> 0..MaxPid]
    <3>1. \A q \in Procs : parentpid'[q] \in 0..MaxPid
      <4>1. parentpid'[c] \in {1, pid[p]}
        BY <1>3
      <4>2. 1 \in 0..MaxPid /\ pid[p] \in 0..MaxPid
        BY WaitAssumption DEF TypeOK
      <4> QED
        BY <1>3, <4>1, <4>2 DEF TypeOK
    <3> QED
      BY <3>1 DEF TypeOK, Ready
  <2> QED
    BY <1>2, <2>1, <2>2, <2>3 DEF TypeOK, PcType
<1>6. WaitqType'
  BY <1>2 DEF WaitqType
<1>7. PidsDiffer'
  BY <1>1, <1>2, <1>3, <1>4 DEF PidsDiffer
<1>8. BootStays'
  BY <1>1, <1>2, <1>3, <1>4, WaitAssumption DEF BootStays
<1>9. ForkFills'
  <2>1. \A q \in Procs : pc'[q] = "fork" =>
           /\ q # p /\ pc[q] = "fork" /\ child'[q] = child[q]
           /\ child[q] \in Procs /\ pc[child[q]] = "new" /\ child[q] # c
    BY <1>1, <1>2, <1>3, <1>4 DEF ForkFills
  <2> QED
    BY <1>1, <2>1 DEF ForkFills
<1>10. \A q \in Procs \ {c} : Alive(q)' <=> Alive(q)
  BY <1>1 DEF Alive
<1>11. ~Alive(c) /\ Alive(c)' /\ Alive(p)
  BY <1>1 DEF Alive
<1>12. ChildKnows'
  BY <1>1, <1>2, <1>3, <1>4, <1>10 DEF ChildKnows
<1>13. NewUnrecorded'
  BY <1>1, <1>2, <1>3, <1>4 DEF NewUnrecorded
<1>14. RecordsMine'
  BY <1>1, <1>2, <1>3, <1>4, <1>10 DEF RecordsMine, NewUnrecorded
<1>15. Accounted'
  <2>1. \A q \in Procs \ {p} : Due(q)' = Due(q)
    BY <1>1, <1>2, <1>3, <1>4, <1>10, <1>11 DEF Due
  <2>2. CASE ~nowait
    <3>1. Due(p)' = Due(p) \cup {c} /\ c \notin Due(p)
      BY <1>1, <1>2, <1>3, <1>4, <1>10, <1>11, <2>2 DEF Due
    <3>2. Cardinality(Due(p)') = Cardinality(Due(p)) + 1
      BY <3>1, DueFinite, FS_AddElement
    <3> QED
      <4>1. nchild'[p] = Cardinality(Due(p)') + missed'[p]
        BY <1>2, <1>4, <2>2, <3>2, DueFinite DEF Accounted, TypeOK
      <4>2. ASSUME NEW q \in Procs \ {p}, pid'[q] # 0
            PROVE  nchild'[q] = Cardinality(Due(q)') + missed'[q]
        BY <1>2, <1>4, <2>1, <4>2 DEF Accounted
      <4> QED
        BY <4>1, <4>2 DEF Accounted
  <2>3. CASE nowait
    <3>1. p # Boot /\ pid[p] # 1
      BY <2>3, <1>2, WaitAssumption DEF PidsDiffer, BootStays, Ready
    <3>2. Due(p)' = Due(p)
      BY <1>1, <1>2, <1>3, <1>4, <1>10, <1>11, <2>3, <3>1 DEF Due
    <3> QED
      BY <1>2, <1>4, <2>1, <2>3, <3>2 DEF Accounted
  <2> QED
    BY <2>2, <2>3
<1> QED
  BY <1>5, <1>6, <1>7, <1>8, <1>9, <1>12, <1>13, <1>14, <1>15
-----------------------------------------------------------------------------
(* The record of a child that exits goes to the process that started it;   *)
(* the child leaves those due and is counted down.                         *)
LEMMA ReportStep ==
  ASSUME IInv, NEW c \in Procs, Report(c)
  PROVE  IInv'
<1> USE DEF IInv
<1>1. pc[c] = "exit" /\ Alive(c) /\ c # Boot
  BY DEF Report, Goto, Alive, BootStays
<1> PICK p \in Procs : p = parent[c]
  BY <1>1 DEF ChildKnows
<1> DEFINE w == [pid |-> pid[c], of |-> parentpid[c]]
<1>2. /\ pid' = pid /\ parent' = parent /\ parentpid' = parentpid
      /\ pidalloc' = pidalloc /\ child' = child /\ missed' = missed
  BY DEF Report, link
<1>3. /\ pc'[c] = "wakeparent" /\ \A q \in Procs \ {c} : pc'[q] = pc[q]
      /\ pc' \in [Procs -> PcType]
  BY DEF Report, Goto, TypeOK, PcType
<1>4. /\ pid[p] = parentpid[c] /\ parentpid[c] # 0 /\ Len(waitq[p]) < Zombies
      /\ pid[c] \in 1..pidalloc /\ parentpid[c] \in 0..MaxPid /\ pidalloc \in Nat
  <2>1. pid[p] = parentpid[c] /\ Len(waitq[p]) < Zombies
    BY DEF Report, Accepts, IsParent
  <2>2. parentpid[c] # 0
    BY <1>1 DEF ChildKnows
  <2>3. pid[c] # 0 /\ pid[c] <= pidalloc
    BY <1>1 DEF PidsDiffer
  <2>4. pid[c] \in 0..MaxPid /\ parentpid[c] \in 0..MaxPid /\ pidalloc \in 1..MaxPid
    BY DEF TypeOK
  <2> QED
    BY <2>1, <2>2, <2>3, <2>4, WaitAssumption
<1>5. /\ waitq'[p] = <<w>> \o waitq[p]
      /\ \A q \in Procs \ {p} : waitq'[q] = waitq[q]
      /\ nchild'[p] = nchild[p] - 1
      /\ \A q \in Procs \ {p} : nchild'[q] = nchild[q]
  BY DEF Report, WaitqType, TypeOK
<1>6. /\ w \in [pid : 1..pidalloc, of : 0..MaxPid]
      /\ w.pid = pid[c] /\ w.of = pid[p]
  BY <1>4
<1> HIDE DEF w
<1>7. \A q \in Procs : waitq[q] \in Seq([pid : 1..pidalloc, of : 0..MaxPid])
  BY DEF WaitqType
<1>8. /\ waitq'[p] \in Seq([pid : 1..pidalloc, of : 0..MaxPid])
      /\ Len(waitq'[p]) = Len(waitq[p]) + 1 /\ Len(waitq[p]) \in Nat
      /\ waitq'[p][1] = w
      /\ \A i \in DOMAIN waitq'[p] : i # 1 =>
            i - 1 \in DOMAIN waitq[p] /\ waitq'[p][i] = waitq[p][i - 1] /\ i \in Nat
  <2>1. PICK S : S = [pid : 1..pidalloc, of : 0..MaxPid]
    OBVIOUS
  <2>2. w \in S /\ waitq[p] \in Seq(S) /\ waitq'[p] = <<w>> \o waitq[p]
    BY <1>5, <1>6, <1>7, <2>1
  <2>3. /\ waitq'[p] \in Seq(S)
        /\ Len(waitq'[p]) = Len(waitq[p]) + 1
        /\ waitq'[p][1] = w
        /\ \A i \in DOMAIN waitq'[p] : i # 1 =>
              i - 1 \in DOMAIN waitq[p] /\ waitq'[p][i] = waitq[p][i - 1] /\ i \in Nat
    BY <2>2, Prepended
  <2>4. Len(waitq[p]) \in Nat
    BY <2>2
  <2> QED
    BY <2>1, <2>3, <2>4
<1>9. \A i \in DOMAIN waitq'[p] :
         waitq'[p][i] = w \/ \E j \in DOMAIN waitq[p] : waitq'[p][i] = waitq[p][j]
  BY <1>8
<1>10. WaitqType'
  <2>1. \A q \in Procs : waitq'[q] \in Seq([pid : 1..pidalloc, of : 0..MaxPid])
    BY <1>5, <1>7, <1>8
  <2> QED
    BY <1>2, <2>1 DEF Report, WaitqType
<1>11. Due(p)' = Due(p) \ {c} /\ c \in Due(p)
  BY <1>1, <1>2, <1>3, <1>4 DEF Due, Alive
<1>12. \A q \in Procs \ {p} : Due(q)' = Due(q)
  BY <1>1, <1>2, <1>3 DEF Due, Alive
<1>13. /\ Cardinality(Due(p)') = Cardinality(Due(p)) - 1
       /\ Cardinality(Due(p)) \in Nat \ {0}
  BY <1>11, DueFinite, FS_RemoveElement, FS_EmptySet
<1>14. /\ nchild[p] = Cardinality(Due(p)) + missed[p] /\ pid[p] # 0
       /\ missed[p] \in Nat
  BY <1>4 DEF Accounted, TypeOK
<1>15. TypeOK'
  <2>1. nchild' \in [Procs -> Nat]
    <3>1. nchild'[p] \in Nat
      BY <1>5, <1>13, <1>14
    <3> QED
      BY <1>5, <3>1 DEF Report, TypeOK
  <2>2. Len(waitq'[p]) <= Zombies
    BY <1>4, <1>8, WaitAssumption
  <2>3. \A q \in Procs : Len(waitq'[q]) <= Zombies
    BY <1>5, <2>2 DEF TypeOK
  <2> QED
    BY <1>2, <1>3, <2>1, <2>3 DEF TypeOK, PcType
<1>16. PidsDiffer' /\ BootStays'
  BY <1>1, <1>2, <1>3, WaitAssumption DEF PidsDiffer, BootStays
<1>17. ForkFills' /\ ChildKnows'
  BY <1>1, <1>2, <1>3 DEF ForkFills, ChildKnows, Alive
<1>18. \A q \in Procs : Alive(q)' => Alive(q) /\ pid[q] # pid[c]
  BY <1>1, <1>3, <1>4 DEF Alive, PidsDiffer
<1>19. \A q \in Procs : pc'[q] = "new" => pc[q] = "new" /\ pid[q] # pid[c]
  BY <1>1, <1>3, <1>4 DEF PidsDiffer
<1>20. NewUnrecorded'
  <2>1. ASSUME NEW d \in Procs, pc'[d] = "new", NEW i \in DOMAIN waitq'[p]
        PROVE  waitq'[p][i].pid # pid[d]
    BY <1>6, <1>9, <1>19, <2>1 DEF NewUnrecorded
  <2>2. ASSUME NEW d \in Procs, pc'[d] = "new",
               NEW q \in Procs \ {p}, NEW i \in DOMAIN waitq'[q]
        PROVE  waitq'[q][i].pid # pid[d]
    BY <1>5, <1>19, <2>2 DEF NewUnrecorded
  <2> QED
    BY <1>2, <2>1, <2>2 DEF NewUnrecorded
<1>21. RecordsMine'
  <2>1. ASSUME NEW q \in Procs, pc'[q] # "freewaits", NEW i \in DOMAIN waitq'[q]
        PROVE  pid[q] # 0 /\ waitq'[q][i].of = pid[q]
    <3>1. pc[q] # "freewaits"
      BY <1>1, <1>3, <2>1
    <3>2. CASE q = p
      BY <1>6, <1>9, <1>14, <2>1, <3>1, <3>2 DEF RecordsMine
    <3>3. CASE q # p
      BY <1>5, <2>1, <3>1, <3>3 DEF RecordsMine
    <3> QED
      BY <3>2, <3>3
  <2>2. ASSUME NEW q \in Procs,
               NEW i \in DOMAIN waitq'[q], NEW j \in DOMAIN waitq'[q], i # j
        PROVE  waitq'[q][i].pid # waitq'[q][j].pid
    <3>1. \A k \in DOMAIN waitq[p] : waitq[p][k].pid # w.pid
      BY <1>1, <1>6 DEF RecordsMine
    <3>2. CASE q = p /\ (i = 1 \/ j = 1)
      BY <1>8, <2>2, <3>1, <3>2
    <3>3. CASE q = p /\ i # 1 /\ j # 1
      <4>1. /\ i - 1 \in DOMAIN waitq[p] /\ j - 1 \in DOMAIN waitq[p] /\ i - 1 # j - 1
            /\ waitq'[p][i] = waitq[p][i - 1] /\ waitq'[p][j] = waitq[p][j - 1]
        BY <1>8, <2>2, <3>3
      <4> QED
        BY <3>3, <4>1 DEF RecordsMine
    <3>4. CASE q # p
      BY <1>5, <2>2, <3>4 DEF RecordsMine
    <3> QED
      BY <3>2, <3>3, <3>4
  <2>3. ASSUME NEW q \in Procs, NEW d \in Procs, Alive(d)', NEW i \in DOMAIN waitq'[q]
        PROVE  waitq'[q][i].pid # pid[d]
    <3>1. CASE q = p
      BY <1>6, <1>9, <1>18, <2>3, <3>1 DEF RecordsMine
    <3>2. CASE q # p
      BY <1>5, <1>18, <2>3, <3>2 DEF RecordsMine
    <3> QED
      BY <3>1, <3>2
  <2> QED
    BY <1>2, <2>1, <2>2, <2>3 DEF RecordsMine
<1>22. Accounted'
  <2>1. nchild'[p] = Cardinality(Due(p)') + missed'[p]
    BY SMTT(60), <1>2, <1>5, <1>13, <1>14
  <2>2. ASSUME NEW q \in Procs \ {p}, pid'[q] # 0
        PROVE  nchild'[q] = Cardinality(Due(q)') + missed'[q]
    BY <1>2, <1>5, <1>12, <2>2 DEF Accounted
  <2> QED
    BY <2>1, <2>2 DEF Accounted
<1> QED
  BY <1>10, <1>15, <1>16, <1>17, <1>20, <1>21, <1>22

(* A child that leaves no record goes from those due to those missed.      *)
LEMMA NoReportStep ==
  ASSUME IInv, NEW c \in Procs, NoReport(c)
  PROVE  IInv'
<1> USE DEF IInv
<1>1. pc[c] = "exit" /\ Alive(c) /\ c # Boot
  BY DEF NoReport, After, Goto, Alive, BootStays
<1> PICK p \in Procs : p = parent[c]
  BY <1>1 DEF ChildKnows
<1>2. /\ pid' = pid /\ parent' = parent /\ parentpid' = parentpid
      /\ pidalloc' = pidalloc /\ child' = child /\ waitq' = waitq /\ nchild' = nchild
  BY DEF NoReport, link
<1>3. /\ pc'[c] \in {"clear", "broken"} /\ \A q \in Procs \ {c} : pc'[q] = pc[q]
      /\ pc' \in [Procs -> PcType]
  BY DEF NoReport, After, Goto, TypeOK, PcType
<1>4. /\ pid[p] = parentpid[c] => missed' = [missed EXCEPT ![p] = @ + 1]
      /\ pid[p] # parentpid[c] => missed' = missed
  BY DEF NoReport, IsParent
<1>5. /\ missed' \in [Procs -> Nat] /\ \A q \in Procs \ {p} : missed'[q] = missed[q]
      /\ pid[p] = parentpid[c] => missed'[p] = missed[p] + 1
      /\ pid[p] # parentpid[c] => missed'[p] = missed[p]
  <2>1. CASE pid[p] = parentpid[c]
    BY <1>4, <2>1 DEF TypeOK
  <2>2. CASE pid[p] # parentpid[c]
    BY <1>4, <2>2 DEF TypeOK
  <2> QED
    BY <2>1, <2>2
<1>6. TypeOK' /\ WaitqType'
  BY <1>2, <1>3, <1>5 DEF TypeOK, WaitqType, PcType
<1>7. PidsDiffer' /\ BootStays'
  BY <1>1, <1>2, <1>3, WaitAssumption DEF PidsDiffer, BootStays
<1>8. \A q \in Procs : Alive(q)' <=> Alive(q) /\ q # c
  BY <1>1, <1>3 DEF Alive
<1>9. \A q \in Procs : /\ (pc'[q] = "new" <=> pc[q] = "new")
                       /\ (pc'[q] = "fork" <=> pc[q] = "fork")
                       /\ (pc'[q] = "freewaits" <=> pc[q] = "freewaits")
  BY <1>1, <1>3
<1>10. ForkFills' /\ ChildKnows' /\ NewUnrecorded'
  BY <1>2, <1>8, <1>9 DEF ForkFills, ChildKnows, NewUnrecorded
<1>11. RecordsMine'
  BY <1>2, <1>8, <1>9 DEF RecordsMine
<1>12. \A q \in Procs \ {p} : Due(q)' = Due(q)
  BY <1>2, <1>8 DEF Due
<1>13. nchild'[p] = Cardinality(Due(p)') + missed'[p] \/ pid'[p] = 0
  <2>1. CASE pid[p] = parentpid[c]
    <3>1. Due(p)' = Due(p) \ {c} /\ c \in Due(p)
      BY <1>1, <1>2, <1>8, <2>1 DEF Due
    <3>2. /\ Cardinality(Due(p)') = Cardinality(Due(p)) - 1
          /\ Cardinality(Due(p)) \in Nat
      BY <3>1, DueFinite, FS_RemoveElement
    <3>3. missed[p] \in Nat
      BY DEF TypeOK
    <3>4. pid[p] # 0 => nchild[p] = Cardinality(Due(p)) + missed[p]
      BY DEF Accounted
    <3> QED
      BY <1>2, <1>5, <2>1, <3>2, <3>3, <3>4
  <2>2. CASE pid[p] # parentpid[c]
    <3>1. Due(p)' = Due(p)
      BY <1>2, <1>8, <2>2 DEF Due
    <3> QED
      BY <1>2, <1>5, <2>2, <3>1 DEF Accounted
  <2> QED
    BY <2>1, <2>2
<1>14. Accounted'
  <2>1. ASSUME NEW q \in Procs \ {p}, pid'[q] # 0
        PROVE  nchild'[q] = Cardinality(Due(q)') + missed'[q]
    BY <1>2, <1>5, <1>12, <2>1 DEF Accounted
  <2> QED
    BY <1>13, <2>1 DEF Accounted
<1> QED
  BY <1>6, <1>7, <1>10, <1>11, <1>14

(* A process without a pid has no children to count any more.              *)
LEMMA ClearPidStep ==
  ASSUME IInv, NEW c \in Procs, ClearPid(c)
  PROVE  IInv'
<1> USE DEF IInv
<1>1. /\ parent' = parent /\ parentpid' = parentpid /\ pidalloc' = pidalloc
      /\ child' = child /\ waitq' = waitq /\ nchild' = nchild /\ missed' = missed
      /\ pid'[c] = 0 /\ \A q \in Procs \ {c} : pid'[q] = pid[q]
      /\ pc[c] = "clear" /\ pc'[c] = "freewaits"
      /\ \A q \in Procs \ {c} : pc'[q] = pc[q]
  BY DEF ClearPid, Goto, link, TypeOK
<1>2. TypeOK' /\ WaitqType'
  <2>1. pid' \in [Procs -> 0..MaxPid]
    BY WaitAssumption DEF TypeOK, ClearPid
  <2>2. pc' \in [Procs -> PcType]
    BY DEF TypeOK, ClearPid, Goto, PcType
  <2> QED
    BY <1>1, <2>1, <2>2 DEF TypeOK, WaitqType, PcType
<1>3. PidsDiffer'
  <2>1. pid'[c] <= pidalloc'
    BY <1>1, WaitAssumption DEF TypeOK
  <2> QED
    BY <1>1, <2>1 DEF PidsDiffer
<1>4. c # Boot /\ BootStays'
  BY <1>1, WaitAssumption DEF BootStays
<1>5. /\ \A q \in Procs : Alive(q)' <=> Alive(q)
      /\ ~Alive(c)
  BY <1>1 DEF Alive
<1>6. ForkFills' /\ ChildKnows' /\ NewUnrecorded'
  BY <1>1, <1>5 DEF ForkFills, ChildKnows, NewUnrecorded
<1>7. RecordsMine'
  BY <1>1, <1>5 DEF RecordsMine
<1>8. \A q \in Procs \ {c} : Due(q)' = Due(q)
  BY <1>1, <1>5 DEF Due
<1>9. Accounted'
  <2>1. ASSUME NEW q \in Procs, pid'[q] # 0
        PROVE  nchild'[q] = Cardinality(Due(q)') + missed'[q]
    <3>1. q # c /\ Due(q)' = Due(q)
      BY <1>1, <1>8, <2>1
    <3> QED
      BY <1>1, <2>1, <3>1 DEF Accounted
  <2> QED
    BY <2>1 DEF Accounted
<1> QED
  BY <1>2, <1>3, <1>4, <1>6, <1>7, <1>9

(* Records are taken away: all, by pexit, or the first, by pwait.          *)
LEMMA FewerRecordsStep ==
  ASSUME IInv, NEW c \in Procs, FreeWaits(c) \/ Take(c)
  PROVE  IInv'
<1> USE DEF IInv
<1>1. /\ pid' = pid /\ parent' = parent /\ parentpid' = parentpid
      /\ pidalloc' = pidalloc /\ child' = child /\ nchild' = nchild /\ missed' = missed
  BY DEF FreeWaits, Take, link
<1>2. /\ \/ pc[c] = "freewaits" /\ pc'[c] = "moribund"
         \/ pc[c] = "take" /\ pc'[c] \in {"panic", "user"}
      /\ \A q \in Procs \ {c} : pc'[q] = pc[q] /\ waitq'[q] = waitq[q]
      /\ pc' \in [Procs -> PcType]
  BY DEF FreeWaits, Take, Goto, TypeOK, WaitqType, PcType
<1>3. \/ waitq'[c] = <<>>
      \/ waitq[c] # <<>> /\ waitq'[c] = Tail(waitq[c])
  <2>1. CASE FreeWaits(c)
    <3>1. waitq' = [waitq EXCEPT ![c] = <<>>] /\ DOMAIN waitq = Procs
      BY <2>1 DEF FreeWaits, WaitqType
    <3>2. waitq'[c] = <<>>
      BY <3>1
    <3> QED
      BY <3>2
  <2>2. CASE Take(c)
    BY <2>2 DEF Take, WaitqType
  <2> QED
    BY <2>1, <2>2
<1>4. \A q \in Procs : waitq[q] \in Seq([pid : 1..pidalloc, of : 0..MaxPid])
  BY DEF WaitqType
<1>5. /\ waitq'[c] \in Seq([pid : 1..pidalloc, of : 0..MaxPid])
      /\ Len(waitq'[c]) <= Len(waitq[c]) /\ Len(waitq[c]) \in Nat
      /\ \A i \in DOMAIN waitq'[c] :
            i \in Nat /\ i + 1 \in DOMAIN waitq[c] /\ waitq'[c][i] = waitq[c][i + 1]
  <2>1. PICK S : S = [pid : 1..pidalloc, of : 0..MaxPid]
    OBVIOUS
  <2>2. waitq[c] \in Seq(S)
    BY <1>4, <2>1
  <2>3. Len(waitq[c]) \in Nat /\ DOMAIN waitq[c] = 1..Len(waitq[c])
    BY <2>2, LenProperties
  <2>4. CASE waitq'[c] = <<>>
    <3>1. waitq'[c] \in Seq(S) /\ Len(waitq'[c]) = 0 /\ DOMAIN waitq'[c] = {}
      BY <2>4
    <3> QED
      BY <2>1, <2>3, <3>1
  <2>5. CASE waitq[c] # <<>> /\ waitq'[c] = Tail(waitq[c])
    <3>1. /\ waitq'[c] \in Seq(S) /\ Len(waitq'[c]) = Len(waitq[c]) - 1
          /\ \A i \in 1..Len(waitq'[c]) : waitq'[c][i] = waitq[c][i + 1]
      BY <2>2, <2>5, HeadTailProperties
    <3>2. DOMAIN waitq'[c] = 1..Len(waitq'[c])
      BY <3>1, LenProperties
    <3>3. ASSUME NEW i \in DOMAIN waitq'[c]
          PROVE  i \in Nat /\ i + 1 \in DOMAIN waitq[c] /\ waitq'[c][i] = waitq[c][i + 1]
      BY <2>3, <3>1, <3>2
    <3> QED
      BY <2>1, <2>3, <3>1, <3>3
  <2> QED
    BY <1>3, <2>4, <2>5
<1>6. WaitqType'
  <2>1. waitq' \in [Procs -> Seq([pid : 1..pidalloc, of : 0..MaxPid])]
    <3>1. \A q \in Procs : waitq'[q] \in Seq([pid : 1..pidalloc, of : 0..MaxPid])
      BY <1>2, <1>4, <1>5
    <3> QED
      BY <3>1 DEF FreeWaits, Take, WaitqType
  <2> QED
    BY <1>1, <2>1 DEF WaitqType
<1>7. TypeOK'
  <2>1. \A q \in Procs : Len(waitq'[q]) <= Zombies
    <3>1. Len(waitq[c]) <= Zombies /\ Len(waitq'[c]) \in Nat
      BY <1>5 DEF TypeOK
    <3>2. Len(waitq'[c]) <= Zombies
      BY <1>5, <3>1, WaitAssumption
    <3> QED
      BY <1>2, <3>2 DEF TypeOK
  <2> QED
    BY <1>1, <1>2, <2>1 DEF TypeOK, PcType
<1>8. PidsDiffer' /\ BootStays'
  BY <1>1, <1>2, WaitAssumption DEF PidsDiffer, BootStays
<1>9. \A q \in Procs : Alive(q)' <=> Alive(q)
  BY <1>2 DEF Alive
<1>10. \A q \in Procs : /\ (pc'[q] = "new" <=> pc[q] = "new")
                        /\ (pc'[q] = "fork" <=> pc[q] = "fork")
  BY <1>2
<1>11. ForkFills' /\ ChildKnows'
  BY <1>1, <1>9, <1>10 DEF ForkFills, ChildKnows
<1>12. NewUnrecorded'
  <2>1. ASSUME NEW q \in Procs, NEW d \in Procs, pc'[d] = "new", NEW i \in DOMAIN waitq'[q]
        PROVE  waitq'[q][i].pid # pid[d]
    BY SMTT(60), <1>2, <1>5, <1>10, <2>1 DEF NewUnrecorded
  <2> QED
    BY <1>1, <2>1 DEF NewUnrecorded
<1>13. RecordsMine'
  <2>1. ASSUME NEW q \in Procs, pc'[q] # "freewaits", NEW i \in DOMAIN waitq'[q]
        PROVE  pid[q] # 0 /\ waitq'[q][i].of = pid[q]
    <3>1. CASE q # c
      BY <1>2, <2>1, <3>1 DEF RecordsMine
    <3>2. CASE q = c /\ pc[c] = "take"
      <4>1. i + 1 \in DOMAIN waitq[c] /\ waitq'[c][i] = waitq[c][i + 1]
        BY <1>5, <2>1, <3>2
      <4> QED
        BY <3>2, <4>1 DEF RecordsMine
    <3>3. CASE q = c /\ pc[c] = "freewaits"
      <4>1. waitq'[c] = <<>>
        BY <3>3 DEF FreeWaits, Take, Goto, WaitqType
      <4> QED
        BY <2>1, <3>3, <4>1
    <3> QED
      BY <1>2, <3>1, <3>2, <3>3
  <2>2. ASSUME NEW q \in Procs,
               NEW i \in DOMAIN waitq'[q], NEW j \in DOMAIN waitq'[q], i # j
        PROVE  waitq'[q][i].pid # waitq'[q][j].pid
    <3>1. CASE q # c
      BY <1>2, <2>2, <3>1 DEF RecordsMine
    <3>2. CASE q = c
      <4>1. /\ i + 1 \in DOMAIN waitq[c] /\ j + 1 \in DOMAIN waitq[c] /\ i + 1 # j + 1
            /\ waitq'[c][i] = waitq[c][i + 1] /\ waitq'[c][j] = waitq[c][j + 1]
        BY <1>5, <2>2, <3>2
      <4> QED
        BY <3>2, <4>1 DEF RecordsMine
    <3> QED
      BY <3>1, <3>2
  <2>3. ASSUME NEW q \in Procs, NEW d \in Procs, Alive(d)', NEW i \in DOMAIN waitq'[q]
        PROVE  waitq'[q][i].pid # pid[d]
    BY <1>2, <1>5, <1>9, <2>3 DEF RecordsMine
  <2> QED
    BY <1>1, <2>1, <2>2, <2>3 DEF RecordsMine
<1>14. Accounted'
  <2>1. \A q \in Procs : Due(q)' = Due(q)
    BY <1>1, <1>9 DEF Due
  <2> QED
    BY <1>1, <2>1 DEF Accounted
<1> QED
  BY <1>6, <1>7, <1>8, <1>11, <1>12, <1>13, <1>14
-----------------------------------------------------------------------------
(* Every step keeps it,                                                    *)
LEMMA StepIInv == IInv /\ [Next]_vars => IInv'
<1> SUFFICES ASSUME IInv, [Next]_vars PROVE IInv'
  OBVIOUS
<1>1. ASSUME NEW p \in Procs, Kernel(p) PROVE IInv'
  BY <1>1, ReportStep, NoReportStep, ClearPidStep, FewerRecordsStep, MovesStep,
     ReadyStep DEF Kernel
<1>2. ASSUME NEW p \in Procs, Leaves(p) \/ Wait(p) \/ Interrupt(p) PROVE IInv'
  BY <1>2, MovesStep DEF Leaves
<1>3. ASSUME NEW p \in Procs, NEW c \in Procs, NewProc(p, c) PROVE IInv'
  BY <1>3, NewProcStep
<1>4. CASE UNCHANGED vars
  BY <1>4, PcStep DEF vars, link, IInv, TypeOK, PcType
<1> QED
  BY <1>1, <1>2, <1>3, <1>4 DEF Next

(* so it holds always.                                                     *)
LEMMA Inductive == Spec => []IInv
BY InitIInv, StepIInv, PTL DEF Spec
-----------------------------------------------------------------------------
(* Every variable keeps its type; no process has more than Zombies records *)
(* (proc.c:683).                                                           *)
THEOREM TypeCorrect == Spec => []TypeOK
BY Inductive, PTL DEF IInv

(* A process has records of its own children only, each once and none of   *)
(* one that still runs, whichever slots were used again meanwhile          *)
(* (proc.c:683, 709-716).                                                  *)
THEOREM RecordsAreMine == Spec => []RecordsMine
BY Inductive, PTL DEF IInv

(* No living child is left out of p->nchild, and nobody else is in it but  *)
(* children that found no room for a record (proc.c:683; sysproc.c:167).   *)
THEOREM CountIsRight == Spec => []ChildrenCounted
<1>1. ASSUME IInv PROVE ChildrenCounted
  <2>1. ASSUME NEW p \in Procs, pid[p] # 0
        PROVE  /\ nchild[p] >= Cardinality(Due(p))
               /\ missed[p] = 0 => nchild[p] = Cardinality(Due(p))
    <3>1. nchild[p] = Cardinality(Due(p)) + missed[p]
      BY <1>1, <2>1 DEF IInv, Accounted
    <3>2. missed[p] \in Nat /\ Cardinality(Due(p)) \in Nat
      BY <1>1, DueFinite DEF IInv, TypeOK
    <3> QED
      BY <3>1, <3>2
  <2> QED
    BY <2>1 DEF ChildrenCounted
<1> QED
  BY Inductive, <1>1, PTL
=============================================================================
