---------------------------- MODULE StreamProofs ----------------------------
(***************************************************************************)
(* Proofs about streams, for any number of writers, readers and hangups    *)
(* and any limits: a reader is always woken, and a stream keeps what Pipe  *)
(* promises: each writer's blocks in its order, each byte out once.        *)
(***************************************************************************)
EXTENDS Stream, SequenceTheorems, TLAPS

Places == {"idle", "put", "qlock", "sleep", "asleep", "woken", "stputq", "mark",
           "wakeup", "get", "clear", "have", "empty", "putback", "flush", "flushed", "store"}

(* Where the locks are held.                                               *)
AtLock   == {"mark", "clear", "flushed"}
AtRlock  == {"sleep", "asleep", "woken"}
NoRdlock == {"idle", "flush", "flushed"}

LockIs   == \A p \in Procs : lock = p <=> pc[p] \in AtLock
RlockIs  == \A w \in Writers : rlock = w <=> pc[w] \in AtRlock
RdlockIs == \A r \in Readers : rdlock = r <=> pc[r] \notin NoRdlock

(* A writer on its way to the queue has something to put there, what it    *)
(* puts there last ends its message, and one that is not writing has       *)
(* nothing left of one.                                                    *)
ToPut == {"put", "qlock", "sleep", "asleep", "woken", "stputq"}
Todo  == \A w \in Writers :
    /\ pc[w] \in ToPut => todo[w] # <<>>
    /\ todo[w] # <<>> => Last(todo[w]).delim
    /\ pc[w] = "idle" => todo[w] = <<>>

(* What the reader has in hand.                                            *)
Hand ==
    /\ rdlock = None => blk = None /\ tofree = <<>>
    /\ \A r \in Readers : /\ pc[r] \in {"clear", "have"} => blk # None
                          /\ pc[r] \in {"get", "empty", "sleep", "asleep", "putback"} => blk = None
                          /\ rdlock = r => left > 0
    /\ \A i \in DOMAIN tofree : ~tofree[i].delim

(* Once its end is closed nobody reads, and only then is it flushed.       *)
Closing == /\ null => rdlock = None
           /\ \A r \in Readers : pc[r] \in {"flush", "flushed"} => null

(* The inductive invariant.                                                *)
IInv == TypeOK /\ Todo /\ Hand /\ Closing /\ ReaderWoken
-----------------------------------------------------------------------------
(* The division that cuts a message into blocks.                           *)
LEMMA DivFacts ==
  ASSUME NEW a \in Nat \ {0}, NEW b \in Nat \ {0}, NEW n, n = (a + b - 1) \div b
  PROVE  n \in Nat /\ n >= 1 /\ a - (n - 1) * b \in 0..b
<1>1. PICK r : r = (a + b - 1) % b
  OBVIOUS
<1>2. n \in Int /\ r \in 0..(b - 1) /\ a + b - 1 = b * n + r
  BY <1>1
<1>3. b * n = n * b /\ n * b = (n - 1) * b + b
  BY <1>2
<1>4. n >= 1
  BY <1>2, <1>3
<1> QED
  BY <1>2, <1>3, <1>4

(* The blocks of a message: there is one, they are numbered from the first *)
(* on, and the last is delimited.                                          *)
LEMMA BlocksFacts ==
  ASSUME NEW w \in Writers, NEW m \in 1..Messages, NEW size \in WriteSizes, NEW b, b = Blocks(w, m, size)
  PROVE  b \in Seq(Block) /\ b # <<>> /\ Last(b).delim /\ Bytes!IsMessage(b, w, m)
<1> USE StreamAssumption
<1>1. PICK n : n = IF size = 0 THEN 1 ELSE (size + Streamhi - 1) \div Streamhi
  OBVIOUS
<1>2. n \in Nat /\ n >= 1 /\ size - (n - 1) * Streamhi \in 0..Streamhi
  <2>1. CASE size = 0
    BY <1>1, <2>1
  <2>2. CASE size # 0
    <3>1. size \in Nat \ {0} /\ Streamhi \in Nat \ {0} /\ n = (size + Streamhi - 1) \div Streamhi
      BY <1>1, <2>2
    <3> QED
      BY ONLY <3>1, DivFacts
  <2> QED
    BY <2>1, <2>2
<1>3. PICK last : last = size - (n - 1) * Streamhi
  OBVIOUS
<1>4. b = [i \in 1..n |-> [by |-> w, msg |-> m, part |-> i, delim |-> i = n,
                           n |-> IF i = n THEN last ELSE Streamhi]]
  BY <1>1, <1>3 DEF Blocks
<1>5. b \in [1..n -> Block]
  BY <1>2, <1>3, <1>4 DEF Block
<1>6. b \in Seq(Block) /\ Len(b) = n
  BY <1>2, <1>5
<1>7. b # <<>>
  BY <1>2, <1>6
<1>8. b[n].delim
  <2>1. b[n] = [by |-> w, msg |-> m, part |-> n, delim |-> n = n,
                n |-> IF n = n THEN last ELSE Streamhi]
    BY ONLY <1>2, <1>4
  <2>2. b[n].delim = (n = n)
    BY ONLY <2>1
  <2> QED
    BY ONLY <2>2
<1>9. ASSUME NEW i \in 1..n
      PROVE  b[i].by = w /\ b[i].msg = m /\ b[i].part = i /\ (b[i].delim <=> i = n)
  <2>1. b[i] = [by |-> w, msg |-> m, part |-> i, delim |-> i = n,
                n |-> IF i = n THEN last ELSE Streamhi]
    BY ONLY <1>4, <1>9
  <2>2. b[i].by = w /\ b[i].msg = m /\ b[i].part = i /\ b[i].delim = (i = n)
    BY ONLY <2>1
  <2> QED
    BY ONLY <2>2
<1>10. Bytes!IsMessage(b, w, m)
  BY <1>6, <1>7, <1>9 DEF Bytes!IsMessage
<1> QED
  BY <1>6, <1>7, <1>8, <1>10 DEF Last

(* There are no bytes in an empty queue.                                   *)
LEMMA EmptyLen == Qlen(<<>>) = 0
<1> DEFINE S == DOMAIN <<>>
           iter[s \in SUBSET S] == IF s = {} THEN 0
                                   ELSE LET x == Max(s) IN iter[s \ {x}] + (<<>>[x]).n
<1>1. S = {}
  BY EmptySeq
<1>2. Qlen(<<>>) = iter[S]
  BY DEF Qlen, FoldLeft, MapThenFoldSet
<1>3. iter[S] = 0
  <2> DEFINE D(g) == [s \in SUBSET S |-> IF s = {} THEN 0
                                         ELSE LET x == Max(s) IN g[s \ {x}] + (<<>>[x]).n]
  <2>1. iter = CHOOSE g : g = D(g)
    OBVIOUS
  <2>2. PICK z : z = [s \in SUBSET S |-> 0]
    OBVIOUS
  <2>3. \A s \in SUBSET S : s = {}
    BY <1>1
  <2>4. z = D(z)
    BY <2>2, <2>3
  <2>5. iter = D(iter)
    BY <2>1, <2>4
  <2>6. S \in SUBSET S
    OBVIOUS
  <2> QED
    BY <2>5, <1>1, <2>6
<1> QED
  BY <1>2, <1>3

(* So it is not past the high water mark.                                  *)
LEMMA EmptyNotPast == ~Past(<<>>)
BY EmptyLen, EmptySeq, StreamAssumption DEF Past
-----------------------------------------------------------------------------
(* TypeOK, with the locks apart.                                           *)
Types ==
    /\ pc \in [Procs -> Places]
    /\ todo \in [Writers -> Seq(Block)] /\ queue \in Seq(Block)
    /\ flag \subseteq Bits /\ seen \in [Procs -> SUBSET Bits]
    /\ lock \in Procs \cup {None} /\ rlock \in Writers \cup {None} /\ rdlock \in Readers \cup {None}
    /\ blk \in Block \cup {None} /\ tofree \in Seq(Block)
    /\ left \in Nat /\ hread \in 0..3 /\ null \in BOOLEAN /\ whung \in BOOLEAN
    /\ written \in [Writers -> 0..Messages] /\ notes \in 0..Interrupts /\ hups \in 0..Hangups

(* TypeOK says the same in parts: the types, and where each lock is held.  *)
LEMMA TypeParts ==
  /\ TypeOK => Types /\ LockIs /\ RlockIs /\ RdlockIs
  /\ Types' /\ LockIs' /\ RlockIs' /\ RdlockIs' => TypeOK'
BY DEF TypeOK, Types, Places, LockIs, RlockIs, RdlockIs, AtLock, AtRlock, NoRdlock

(* p goes from one place to another, and may wake who sleeps.              *)
Moves(p, from, to) ==
    /\ pc[p] = from /\ pc'[p] = to /\ pc' \in [Procs -> Places]
    /\ \A q \in Procs \ {p} :
          \/ pc'[q] = pc[q]
          \/ /\ pc[q] = "asleep"
             /\ (q \in Readers /\ pc'[q] = "get") \/ (q \in Writers /\ pc'[q] = "woken")

(* An ordinary step moves p and nobody else.                               *)
LEMMA GotoMoves ==
  ASSUME TypeOK, NEW p \in Procs, NEW from, NEW to \in Places, Goto(p, from, to)
  PROVE  Moves(p, from, to)
BY TypeParts DEF Types, Goto, Moves

(* A wakeup moves p and, at most, whom it wakes.                           *)
LEMMA WakingMoves ==
  ASSUME TypeOK, NEW p \in Procs, NEW from, NEW to \in Places,
         Waking(Readers, p, from, to, "get") \/ Waking(Writers, p, from, to, "woken")
  PROVE  Moves(p, from, to)
BY TypeParts DEF Types, Waking, Moves, Places

(* Where each step of a writer takes it.                                   *)
LEMMA WriterMoves ==
  ASSUME TypeOK, NEW w \in Writers
  PROVE  /\ \A size : Write(w, size) => Moves(w, "idle", "put")
         /\ Put(w) => Moves(w, "put", "qlock") \/ Moves(w, "put", "stputq")
         /\ PutClosed(w) => Moves(w, "put", "idle")
         /\ Flowctl(w) => Moves(w, "qlock", "sleep")
         /\ Sleep(w) => Moves(w, "sleep", "asleep") \/ Moves(w, "sleep", "woken")
         /\ Resume(w) => Moves(w, "woken", "stputq")
         /\ InterruptWrite(w) => Moves(w, "asleep", "idle")
         /\ Stputq(w) => Moves(w, "stputq", "mark") \/ Moves(w, "stputq", "wakeup") \/ Moves(w, "stputq", "put")
         /\ Mark(w) => Moves(w, "mark", "wakeup")
         /\ Wakeup(w) => Moves(w, "wakeup", "idle") \/ Moves(w, "wakeup", "put")
<1>1. w \in Procs
  BY DEF Procs
<1>2. "idle" \in Places /\ "put" \in Places /\ "qlock" \in Places /\ "sleep" \in Places
      /\ "asleep" \in Places /\ "woken" \in Places /\ "stputq" \in Places /\ "mark" \in Places
      /\ "wakeup" \in Places
  BY DEF Places
<1>3. \A size : Write(w, size) => Moves(w, "idle", "put")
  BY <1>1, <1>2, GotoMoves DEF Write
<1>4. Put(w) => Moves(w, "put", "qlock") \/ Moves(w, "put", "stputq")
  BY <1>1, <1>2, GotoMoves DEF Put
<1>5. PutClosed(w) => Moves(w, "put", "idle")
  BY <1>1, <1>2, GotoMoves DEF PutClosed
<1>6. Flowctl(w) => Moves(w, "qlock", "sleep")
  BY <1>1, <1>2, GotoMoves DEF Flowctl
<1>7. Sleep(w) => Moves(w, "sleep", "asleep") \/ Moves(w, "sleep", "woken")
  BY <1>1, <1>2, GotoMoves DEF Sleep
<1>8. Resume(w) => Moves(w, "woken", "stputq")
  BY <1>1, <1>2, GotoMoves DEF Resume
<1>9. InterruptWrite(w) => Moves(w, "asleep", "idle")
  BY <1>1, <1>2, GotoMoves DEF InterruptWrite
<1>10. Stputq(w) => Moves(w, "stputq", "mark") \/ Moves(w, "stputq", "wakeup") \/ Moves(w, "stputq", "put")
  BY <1>1, <1>2, GotoMoves DEF Stputq
<1>11. Mark(w) => Moves(w, "mark", "wakeup")
  BY <1>1, <1>2, GotoMoves DEF Mark, Awaken
<1>12. Wakeup(w) => Moves(w, "wakeup", "idle") \/ Moves(w, "wakeup", "put")
  BY <1>1, <1>2, WakingMoves DEF Wakeup, More
<1> QED
  BY <1>3, <1>4, <1>5, <1>6, <1>7, <1>8, <1>9, <1>10, <1>11, <1>12

(* Of a reader.                                                            *)
LEMMA ReaderMoves ==
  ASSUME TypeOK, NEW r \in Readers
  PROVE  /\ \A size : Read(r, size) => Moves(r, "idle", "get")
         /\ Get(r) => Moves(r, "get", "empty") \/ Moves(r, "get", "clear") \/ Moves(r, "get", "have")
         /\ GetClear(r) => Moves(r, "clear", "have")
         /\ Have(r) => Moves(r, "have", "idle") \/ Moves(r, "have", "get")
         /\ HavePart(r) => Moves(r, "have", "idle")
         /\ Eof(r) => Moves(r, "empty", "idle") \/ Moves(r, "empty", "putback")
         /\ ToSleep(r) => Moves(r, "empty", "sleep")
         /\ SleepRead(r) => Moves(r, "sleep", "get") \/ Moves(r, "sleep", "asleep")
         /\ InterruptRead(r) => Moves(r, "asleep", "putback")
         /\ PutBack(r) => pc' = pc
         /\ Interrupted(r) => Moves(r, "putback", "idle")
         /\ Close(r) => Moves(r, "idle", "flush")
         /\ Flush(r) => Moves(r, "flush", "idle") \/ Moves(r, "flush", "flushed") \/ Moves(r, "flush", "flush")
         /\ FlushClear(r) => Moves(r, "flushed", "flush")
<1>1. r \in Procs
  BY DEF Procs
<1>2. "idle" \in Places /\ "get" \in Places /\ "clear" \in Places /\ "have" \in Places
      /\ "empty" \in Places /\ "sleep" \in Places /\ "asleep" \in Places /\ "putback" \in Places
      /\ "flush" \in Places /\ "flushed" \in Places
  BY DEF Places
<1>3. \A size : Read(r, size) => Moves(r, "idle", "get")
  BY <1>1, <1>2, GotoMoves DEF Read
<1>4. Get(r) => Moves(r, "get", "empty") \/ Moves(r, "get", "clear") \/ Moves(r, "get", "have")
  BY <1>1, <1>2, GotoMoves, WakingMoves DEF Get, Getq
<1>5. GetClear(r) => Moves(r, "clear", "have")
  BY <1>1, <1>2, GotoMoves DEF GetClear, Clear
<1>6. Have(r) => Moves(r, "have", "idle") \/ Moves(r, "have", "get")
  BY <1>1, <1>2, GotoMoves DEF Have, Return
<1>7. HavePart(r) => Moves(r, "have", "idle")
  BY <1>1, <1>2, GotoMoves DEF HavePart, Return
<1>8. Eof(r) => Moves(r, "empty", "idle") \/ Moves(r, "empty", "putback")
  BY <1>1, <1>2, GotoMoves DEF Eof, Return
<1>9. ToSleep(r) => Moves(r, "empty", "sleep")
  BY <1>1, <1>2, GotoMoves DEF ToSleep
<1>10. SleepRead(r) => Moves(r, "sleep", "get") \/ Moves(r, "sleep", "asleep")
  BY <1>1, <1>2, GotoMoves DEF SleepRead
<1>11. InterruptRead(r) => Moves(r, "asleep", "putback")
  BY <1>1, <1>2, GotoMoves DEF InterruptRead
<1>12. PutBack(r) => pc' = pc
  BY DEF PutBack
<1>13. Interrupted(r) => Moves(r, "putback", "idle")
  BY <1>1, <1>2, GotoMoves DEF Interrupted, Return
<1>14. Close(r) => Moves(r, "idle", "flush")
  BY <1>1, <1>2, WakingMoves DEF Close
<1>15. Flush(r) => Moves(r, "flush", "idle") \/ Moves(r, "flush", "flushed") \/ Moves(r, "flush", "flush")
  BY <1>1, <1>2, GotoMoves, WakingMoves DEF Flush, Getq
<1>16. FlushClear(r) => Moves(r, "flushed", "flush")
  BY <1>1, <1>2, GotoMoves DEF FlushClear, Clear
<1> QED
  BY <1>3, <1>4, <1>5, <1>6, <1>7, <1>8, <1>9, <1>10, <1>11, <1>12, <1>13, <1>14, <1>15, <1>16

(* Of a hangup.                                                            *)
LEMMA HangerMoves ==
  ASSUME TypeOK, NEW h \in Hangers
  PROVE  /\ Hangup(h) => Moves(h, "idle", "store")
         /\ SetHungup(h) => Moves(h, "store", "wakeup")
         /\ WakeupHungup(h) => Moves(h, "wakeup", "idle")
<1>1. h \in Procs /\ "idle" \in Places /\ "store" \in Places /\ "wakeup" \in Places
  BY DEF Procs, Places
<1> QED
  BY <1>1, GotoMoves, WakingMoves DEF Hangup, SetHungup, WakeupHungup

(* The locks, after a step of one process.                                 *)
LEMMA LockStep ==
  ASSUME TypeOK, NEW p \in Procs, NEW from, NEW to, Moves(p, from, to),
         \/ lock' = lock /\ (from \in AtLock <=> to \in AtLock)
         \/ lock = None /\ lock' = p /\ to \in AtLock
         \/ lock' = None /\ from \in AtLock /\ to \notin AtLock
  PROVE  LockIs' /\ lock' \in Procs \cup {None}
<1>1. \A q \in Procs \ {p} : pc'[q] \in AtLock <=> pc[q] \in AtLock
  BY DEF Moves, AtLock
<1>2. lock \in Procs \cup {None} /\ None \notin Procs /\ LockIs
  BY TypeParts, StreamAssumption DEF Types
<1> QED
  BY <1>1, <1>2 DEF Moves, LockIs

(* A step that takes or drops rlock as its place says keeps it right.      *)
LEMMA RlockStep ==
  ASSUME TypeOK, NEW p \in Procs, NEW from, NEW to, Moves(p, from, to),
         \/ rlock' = rlock /\ (p \in Writers => (from \in AtRlock <=> to \in AtRlock))
         \/ rlock = None /\ rlock' = p /\ p \in Writers /\ to \in AtRlock
         \/ rlock' = None /\ p \in Writers /\ from \in AtRlock /\ to \notin AtRlock
  PROVE  RlockIs' /\ rlock' \in Writers \cup {None}
<1>1. \A w \in Writers \ {p} : pc'[w] \in AtRlock <=> pc[w] \in AtRlock
  BY StreamAssumption DEF Moves, AtRlock, Procs
<1>2. rlock \in Writers \cup {None} /\ None \notin Writers /\ RlockIs
  BY TypeParts, StreamAssumption DEF Types, Procs
<1> QED
  BY <1>1, <1>2 DEF Moves, RlockIs

(* The same of rdlock.                                                     *)
LEMMA RdlockStep ==
  ASSUME TypeOK, NEW p \in Procs, NEW from, NEW to, Moves(p, from, to),
         \/ rdlock' = rdlock /\ (p \in Readers => (from \in NoRdlock <=> to \in NoRdlock))
         \/ rdlock = None /\ rdlock' = p /\ p \in Readers /\ to \notin NoRdlock
         \/ rdlock' = None /\ p \in Readers /\ from \notin NoRdlock /\ to \in NoRdlock
  PROVE  RdlockIs' /\ rdlock' \in Readers \cup {None}
<1>1. \A r \in Readers \ {p} : pc'[r] \in NoRdlock <=> pc[r] \in NoRdlock
  BY StreamAssumption DEF Moves, NoRdlock, Procs
<1>2. rdlock \in Readers \cup {None} /\ None \notin Readers /\ RdlockIs
  BY TypeParts, StreamAssumption DEF Types, Procs
<1> QED
  BY <1>1, <1>2 DEF Moves, RdlockIs

(* Only one reads.                                                         *)
LEMMA ReadsAlone ==
  ASSUME TypeOK, NEW r \in Readers, rdlock \in {r, None}
  PROVE  \A q \in Readers \ {r} : pc[q] \in NoRdlock
BY TypeParts, StreamAssumption DEF Types, RdlockIs, Procs

(* A writer's step keeps the types.                                        *)
LEMMA WriterTypes ==
  ASSUME IInv, NEW w \in Writers,
         WriteStep(w) \/ InterruptWrite(w) \/ \E size \in WriteSizes : Write(w, size)
  PROVE  TypeOK'
<1> USE DEF IInv, locks, reader, ends, bounds, AtLock, AtRlock
<1>1. w \in Procs /\ w \notin Readers
  BY StreamAssumption DEF Procs
<1>2. ASSUME NEW size \in WriteSizes, Write(w, size) PROVE TypeOK'
  <2>1. LockIs' /\ RlockIs' /\ RdlockIs' /\ pc' \in [Procs -> Places]
    <3>1. Moves(w, "idle", "put")
      BY <1>1, <1>2, WriterMoves DEF Write
    <3>2. lock' = lock /\ rlock' = rlock /\ rdlock' = rdlock
      BY <1>2 DEF Write
    <3>3. pc' \in [Procs -> Places] /\ LockIs'
      BY <1>1, <3>1, <3>2, LockStep DEF Moves
    <3>4. RlockIs'
      BY <1>1, <3>1, <3>2, RlockStep
    <3>5. RdlockIs'
      BY <1>1, <3>1, <3>2, RdlockStep
    <3> QED
      BY <3>3, <3>4, <3>5
  <2>2. written'[w] \in 1..Messages /\ written' \in [Writers -> 0..Messages]
    BY SMTT(60), <1>2, TypeParts, StreamAssumption DEF Types, Write
  <2>3. Blocks(w, written'[w], size) \in Seq(Block)
    BY <2>2, BlocksFacts
  <2>4. todo' \in [Writers -> Seq(Block)]
    BY <1>2, <2>3, TypeParts DEF Types, Write
  <2> QED
    BY <1>2, <2>1, <2>2, <2>4, TypeParts DEF Types, Write
<1>3. CASE Put(w) \/ Sleep(w) \/ Wakeup(w)
  <2>1. LockIs' /\ RlockIs' /\ RdlockIs' /\ pc' \in [Procs -> Places]
    BY <1>1, <1>3, WriterMoves, LockStep, RlockStep, RdlockStep DEF Put, Sleep, Wakeup, Moves
  <2> QED
    BY <1>3, <2>1, TypeParts DEF Types, Put, Sleep, Wakeup
<1>4. CASE PutClosed(w) \/ InterruptWrite(w)
  <2>1. LockIs' /\ RlockIs' /\ RdlockIs' /\ pc' \in [Procs -> Places] /\ rlock' \in Writers \cup {None}
    BY <1>1, <1>4, WriterMoves, LockStep, RlockStep, RdlockStep DEF PutClosed, InterruptWrite, Moves
  <2>2. todo' \in [Writers -> Seq(Block)]
    BY <1>4, TypeParts, EmptySeq DEF Types, PutClosed, InterruptWrite
  <2>3. notes' \in 0..Interrupts
    BY <1>4, TypeParts, StreamAssumption DEF Types, PutClosed, InterruptWrite
  <2> QED
    BY <1>4, <2>1, <2>2, <2>3, TypeParts DEF Types, PutClosed, InterruptWrite
<1>5. CASE Flowctl(w) \/ Resume(w)
  <2>1. LockIs' /\ RlockIs' /\ RdlockIs' /\ pc' \in [Procs -> Places] /\ rlock' \in Writers \cup {None}
    BY <1>1, <1>5, WriterMoves, LockStep, RlockStep, RdlockStep DEF Flowctl, Resume, Moves
  <2> QED
    BY <1>5, <2>1, TypeParts DEF Types, Flowctl, Resume
<1>6. CASE Stputq(w)
  <2>1. LockIs' /\ RlockIs' /\ RdlockIs' /\ pc' \in [Procs -> Places] /\ lock' \in Procs \cup {None}
    <3>1. CASE lock' = w /\ Moves(w, "stputq", "mark")
      BY <1>1, <1>6, <3>1, LockStep, RlockStep, RdlockStep DEF Stputq, Moves
    <3>2. CASE lock' = lock /\ (Moves(w, "stputq", "wakeup") \/ Moves(w, "stputq", "put"))
      BY <1>1, <1>6, <3>2, LockStep, RlockStep, RdlockStep DEF Stputq, Moves
    <3> QED
      BY <1>1, <1>6, <3>1, <3>2, WriterMoves DEF Stputq, Goto, Moves
  <2>2. todo[w] \in Seq(Block) /\ todo[w] # <<>>
    BY <1>6, TypeParts DEF Types, Stputq, Goto, Todo, ToPut
  <2>3. Head(todo[w]) \in Block /\ Tail(todo[w]) \in Seq(Block)
    BY <2>2, HeadTailProperties
  <2>4. queue' \in Seq(Block) /\ todo' \in [Writers -> Seq(Block)]
    BY <1>6, <2>3, TypeParts, AppendProperties DEF Types, Stputq
  <2>5. seen' \in [Procs -> SUBSET Bits]
    BY <1>6, TypeParts DEF Types, Stputq
  <2> QED
    BY <1>6, <2>1, <2>4, <2>5, TypeParts DEF Types, Stputq
<1>7. CASE Mark(w)
  <2>1. LockIs' /\ RlockIs' /\ RdlockIs' /\ pc' \in [Procs -> Places] /\ lock' \in Procs \cup {None}
    BY <1>1, <1>7, WriterMoves, LockStep, RlockStep, RdlockStep DEF Mark, Moves
  <2>2. flag' \subseteq Bits /\ seen' \in [Procs -> SUBSET Bits]
    BY <1>1, <1>7, TypeParts DEF Types, Mark, Bits
  <2> QED
    BY <1>7, <2>1, <2>2, TypeParts DEF Types, Mark
<1> QED
  BY <1>2, <1>3, <1>4, <1>5, <1>6, <1>7 DEF WriteStep

(* A hangup's keeps them.                                                  *)
LEMMA HangerTypes ==
  ASSUME IInv, NEW h \in Hangers, HangStep(h) \/ Hangup(h)
  PROVE  TypeOK'
<1> USE DEF IInv, locks, reader, ends, bounds, AtLock, AtRlock
<1>1. h \in Procs /\ h \notin Readers /\ h \notin Writers
  BY StreamAssumption DEF Procs
<1>2. LockIs' /\ RlockIs' /\ RdlockIs' /\ pc' \in [Procs -> Places]
  BY <1>1, HangerMoves, LockStep, RlockStep, RdlockStep DEF HangStep, Hangup, SetHungup, WakeupHungup, Moves
<1>3. flag' \subseteq Bits /\ seen' \in [Procs -> SUBSET Bits] /\ hups' \in 0..Hangups
  <2>1. CASE Hangup(h)
    BY SMTT(60), <1>1, <2>1, TypeParts, StreamAssumption DEF Types, Hangup
  <2>2. CASE SetHungup(h) \/ WakeupHungup(h)
    BY SMTT(60), <1>1, <2>2, TypeParts DEF Types, SetHungup, WakeupHungup, Bits
  <2> QED
    BY <2>1, <2>2 DEF HangStep
<1> QED
  BY <1>2, <1>3, TypeParts DEF Types, HangStep, Hangup, SetHungup, WakeupHungup

(* A reader's step keeps the types.                                        *)
LEMMA ReaderLocks ==
  ASSUME IInv, NEW r \in Readers,
         ReadStep(r) \/ InterruptRead(r) \/ Close(r) \/ \E size \in ReadSizes : Read(r, size)
  PROVE  /\ LockIs' /\ RlockIs' /\ RdlockIs' /\ pc' \in [Procs -> Places]
         /\ lock' \in Procs \cup {None} /\ rlock' \in Writers \cup {None} /\ rdlock' \in Readers \cup {None}
<1> USE DEF IInv, locks, reader, ends, bounds, AtLock, NoRdlock
<1>1. r \in Procs /\ r \notin Writers
  BY StreamAssumption DEF Procs
<1>2. lock \in Procs \cup {None} /\ rlock \in Writers \cup {None} /\ rdlock \in Readers \cup {None}
      /\ LockIs /\ RlockIs /\ RdlockIs
  BY TypeParts DEF Types
<1>3. ASSUME NEW size \in ReadSizes, Read(r, size)
      PROVE  Moves(r, "idle", "get") /\ lock' = lock /\ rlock' = rlock /\ rdlock = None /\ rdlock' = r
  BY <1>3, ReaderMoves DEF Read
<1>4. ASSUME GetClear(r) PROVE Moves(r, "clear", "have") /\ lock' = None /\ rlock' = rlock /\ rdlock' = rdlock
  BY <1>4, ReaderMoves DEF GetClear, Clear
<1>5. ASSUME FlushClear(r) PROVE Moves(r, "flushed", "flush") /\ lock' = None /\ rlock' = rlock /\ rdlock' = rdlock
  BY <1>5, ReaderMoves DEF FlushClear, Clear
<1>6. ASSUME Get(r)
      PROVE  /\ rlock' = rlock /\ rdlock' = rdlock
             /\ \/ Moves(r, "get", "clear") /\ lock = None /\ lock' = r
                \/ (Moves(r, "get", "empty") \/ Moves(r, "get", "have")) /\ lock' = lock
  BY <1>1, <1>6, GotoMoves, WakingMoves DEF Get, Getq, Places
<1>7. ASSUME Flush(r)
      PROVE  /\ rlock' = rlock /\ rdlock' = rdlock
             /\ \/ Moves(r, "flush", "flushed") /\ lock = None /\ lock' = r
                \/ (Moves(r, "flush", "idle") \/ Moves(r, "flush", "flush")) /\ lock' = lock
  BY <1>1, <1>7, GotoMoves, WakingMoves DEF Flush, Getq, Places
<1>8. ASSUME Have(r) \/ HavePart(r) \/ Eof(r) \/ Interrupted(r)
      PROVE  /\ lock' = lock /\ rlock' = rlock
             /\ \/ (Moves(r, "have", "get") \/ Moves(r, "empty", "putback")) /\ rdlock' = rdlock
                \/ (Moves(r, "have", "idle") \/ Moves(r, "empty", "idle") \/ Moves(r, "putback", "idle")) /\ rdlock' = None
  BY <1>1, <1>8, GotoMoves DEF Have, HavePart, Eof, Interrupted, Return, Places
<1>9. ASSUME ToSleep(r) \/ SleepRead(r) \/ InterruptRead(r)
      PROVE  /\ lock' = lock /\ rlock' = rlock /\ rdlock' = rdlock
             /\ \/ Moves(r, "empty", "sleep") \/ Moves(r, "sleep", "get") \/ Moves(r, "sleep", "asleep")
                \/ Moves(r, "asleep", "putback")
  BY <1>9, ReaderMoves DEF ToSleep, SleepRead, InterruptRead
<1>10. ASSUME Close(r) PROVE lock' = lock /\ rlock' = rlock /\ rdlock' = rdlock /\ Moves(r, "idle", "flush")
  BY <1>10, ReaderMoves DEF Close
<1>11. ASSUME PutBack(r) PROVE lock' = lock /\ rlock' = rlock /\ rdlock' = rdlock /\ pc' = pc
  BY <1>11 DEF PutBack
<1>12. CASE PutBack(r)
  BY <1>2, <1>11, <1>12, TypeParts DEF Types, LockIs, RlockIs, RdlockIs
<1>13. ASSUME NEW from, NEW to, Moves(r, from, to), rlock' = rlock,
              \/ lock' = lock /\ (from \in AtLock <=> to \in AtLock)
              \/ lock = None /\ lock' = r /\ to \in AtLock
              \/ lock' = None /\ from \in AtLock /\ to \notin AtLock,
              \/ rdlock' = rdlock /\ (from \in NoRdlock <=> to \in NoRdlock)
              \/ rdlock = None /\ rdlock' = r /\ to \notin NoRdlock
              \/ rdlock' = None /\ from \notin NoRdlock /\ to \in NoRdlock
       PROVE  /\ LockIs' /\ RlockIs' /\ RdlockIs' /\ pc' \in [Procs -> Places]
              /\ lock' \in Procs \cup {None} /\ rlock' \in Writers \cup {None} /\ rdlock' \in Readers \cup {None}
  <2>1. LockIs' /\ lock' \in Procs \cup {None}
    BY <1>1, <1>13, LockStep
  <2>2. RlockIs' /\ rlock' \in Writers \cup {None}
    BY <1>1, <1>13, RlockStep
  <2>3. RdlockIs' /\ rdlock' \in Readers \cup {None}
    BY <1>1, <1>13, RdlockStep
  <2> QED
    BY <1>13, <2>1, <2>2, <2>3 DEF Moves
<1>14. CASE \E size \in ReadSizes : Read(r, size)
  BY <1>3, <1>13, <1>14
<1>15. CASE GetClear(r) \/ FlushClear(r)
  BY <1>4, <1>5, <1>13, <1>15
<1>16. CASE Get(r)
  BY <1>6, <1>13, <1>16
<1>17. CASE Flush(r)
  BY <1>7, <1>13, <1>17
<1>18. CASE Have(r) \/ HavePart(r) \/ Eof(r) \/ Interrupted(r)
  BY <1>8, <1>13, <1>18
<1>19. CASE ToSleep(r) \/ SleepRead(r) \/ InterruptRead(r) \/ Close(r)
  BY <1>9, <1>10, <1>13, <1>19
<1> QED
  BY <1>12, <1>14, <1>15, <1>16, <1>17, <1>18, <1>19 DEF ReadStep

(* What getq leaves of the queue.                                          *)
LEMMA GetqFacts ==
  ASSUME TypeOK, NEW r \in Readers, NEW from, NEW none, NEW low, NEW some,
         Getq(r, from, none, low, some)
  PROVE  /\ queue' \in Seq(Block) /\ seen' \in [Procs -> SUBSET Bits]
         /\ queue = <<>> => queue' = <<>>
         /\ queue # <<>> => Head(queue) \in Block /\ queue' = Tail(queue)
<1>1. queue \in Seq(Block) /\ seen \in [Procs -> SUBSET Bits] /\ flag \subseteq Bits
  BY TypeParts DEF Types
<1>2. seen' \in [Procs -> SUBSET Bits]
  BY <1>1 DEF Getq
<1>3. CASE queue = <<>>
  BY <1>1, <1>2, <1>3 DEF Getq
<1>4. CASE queue # <<>>
  <2>1. Head(queue) \in Block /\ Tail(queue) \in Seq(Block)
    BY <1>1, <1>4, HeadTailProperties
  <2> QED
    BY <1>2, <1>4, <2>1 DEF Getq
<1> QED
  BY <1>3, <1>4

(* A step of a reader keeps the types and the locks.                       *)
LEMMA ReaderTypes ==
  ASSUME IInv, NEW r \in Readers,
         ReadStep(r) \/ InterruptRead(r) \/ Close(r) \/ \E size \in ReadSizes : Read(r, size)
  PROVE  TypeOK'
<1> USE DEF IInv, locks, reader, ends, bounds
<1>1. Types
  BY TypeParts
<1>2. r \in Procs
  BY DEF Procs
<1>3. /\ LockIs' /\ RlockIs' /\ RdlockIs' /\ pc' \in [Procs -> Places]
      /\ lock' \in Procs \cup {None} /\ rlock' \in Writers \cup {None} /\ rdlock' \in Readers \cup {None}
  BY ReaderLocks
<1> SUFFICES Types'
  BY <1>3, TypeParts
<1>4. ASSUME NEW size \in ReadSizes, Read(r, size) PROVE Types'
  BY <1>1, <1>3, <1>4, StreamAssumption DEF Types, Read
<1>5. CASE Get(r)
  <2>1. queue' \in Seq(Block) /\ seen' \in [Procs -> SUBSET Bits] /\ blk' \in Block \cup {None}
    BY <1>5, GetqFacts DEF Get
  <2> QED
    BY <1>1, <1>3, <1>5, <2>1 DEF Types, Get
<1>6. CASE Flush(r)
  <2>1. queue' \in Seq(Block) /\ seen' \in [Procs -> SUBSET Bits]
    BY <1>6, GetqFacts DEF Flush
  <2> QED
    BY <1>1, <1>3, <1>6, <2>1 DEF Types, Flush
<1>7. CASE GetClear(r) \/ FlushClear(r)
  <2>1. flag' \subseteq Bits /\ seen' \in [Procs -> SUBSET Bits]
    BY <1>1, <1>2, <1>7 DEF Types, GetClear, FlushClear, Clear
  <2> QED
    BY <1>1, <1>3, <1>7, <2>1 DEF Types, GetClear, FlushClear, Clear
<1>8. CASE Have(r)
  <2>1. blk \in Block /\ left \in Nat /\ blk.n \in Nat
    <3>1. blk \in Block
      BY <1>1, <1>8 DEF Types, Have, Hand
    <3> QED
      BY <1>1, <3>1, StreamAssumption DEF Types, Block
  <2>2. tofree' \in Seq(Block)
    <3>1. tofree \in Seq(Block)
      BY <1>1 DEF Types
    <3>2. Append(tofree, blk) \in Seq(Block)
      BY <2>1, <3>1, AppendProperties
    <3> QED
      BY <1>8, <3>2, EmptySeq DEF Have, Return
  <2>3. left' \in Nat /\ blk' \in Block \cup {None}
    BY <1>1, <1>8, <2>1 DEF Types, Have, Return
  <2> QED
    BY <1>1, <1>3, <1>8, <2>2, <2>3 DEF Types, Have
<1>9. CASE HavePart(r)
  <2>1. blk \in Block /\ left \in Nat
    BY <1>1, <1>9 DEF Types, HavePart, Hand
  <2>2. PICK c : c = [blk EXCEPT !.n = @ - left]
    OBVIOUS
  <2>3. c \in Block
    BY <1>9, <2>1, <2>2, StreamAssumption DEF Block, HavePart
  <2>4. queue' = <<c>> \o queue /\ queue \in Seq(Block)
    BY <1>1, <1>9, <2>2 DEF Types, HavePart, Putbq
  <2>5. queue' \in Seq(Block)
    BY <2>3, <2>4, ConcatProperties
  <2>6. blk' = None /\ tofree' = <<>> /\ left' = 0
    BY <1>9 DEF HavePart, Return
  <2> QED
    BY <1>1, <1>3, <1>9, <2>5, <2>6, EmptySeq DEF Types, HavePart
<1>10. CASE Eof(r) \/ Interrupted(r)
  <2>1. tofree' \in Seq(Block) /\ left' \in Nat /\ blk' \in Block \cup {None}
    <3>1. <<>> \in Seq(Block)
      BY EmptySeq
    <3>2. \/ tofree' = tofree /\ left' = left /\ blk' = blk
          \/ tofree' = <<>> /\ left' = 0 /\ blk' = None
      BY <1>10 DEF Eof, Interrupted, Return
    <3>3. tofree \in Seq(Block) /\ left \in Nat /\ blk \in Block \cup {None}
      BY <1>1 DEF Types
    <3>4. tofree' = tofree \/ tofree' = <<>>
      BY <3>2
    <3>5. tofree' \in Seq(Block)
      BY <3>1, <3>3, <3>4
    <3>6. left' \in Nat /\ blk' \in Block \cup {None}
      BY <3>2, <3>3
    <3> QED
      BY <3>5, <3>6
  <2>2. hread' \in 0..3
    BY <1>1, <1>10 DEF Types, Eof, Interrupted
  <2> QED
    BY <1>1, <1>3, <1>10, <2>1, <2>2 DEF Types, Eof, Interrupted
<1>11. CASE PutBack(r)
  <2>1. tofree \in Seq(Block) /\ tofree # <<>> /\ queue \in Seq(Block)
    BY <1>1, <1>11 DEF Types, PutBack
  <2>2. Last(tofree) \in Block /\ Front(tofree) \in Seq(Block)
    BY <2>1, SubSeqProperties DEF Last, Front
  <2>3. queue' \in Seq(Block) /\ tofree' \in Seq(Block)
    BY <1>11, <2>1, <2>2, ConcatProperties DEF PutBack, Putbq
  <2> QED
    BY <1>1, <1>3, <1>11, <2>3 DEF Types, PutBack
<1>12. CASE ToSleep(r) \/ SleepRead(r)
  BY <1>1, <1>3, <1>12 DEF Types, ToSleep, SleepRead
<1>13. CASE InterruptRead(r)
  BY <1>1, <1>3, <1>13, StreamAssumption DEF Types, InterruptRead
<1>14. CASE Close(r)
  BY <1>1, <1>3, <1>14 DEF Types, Close
<1> QED
  BY <1>4, <1>5, <1>6, <1>7, <1>8, <1>9, <1>10, <1>11, <1>12, <1>13, <1>14 DEF ReadStep
-----------------------------------------------------------------------------
(* The last of what is left is the last, when something is left.           *)
LEMMA TailLast ==
  ASSUME NEW S, NEW s \in Seq(S), s # <<>>, NEW t, t = Tail(s)
  PROVE  /\ t # <<>> => Last(t) = Last(s)
         /\ t = <<>> => Last(s) = Head(s)
<1>1. Len(s) \in Nat /\ Len(s) # 0 /\ s[1] = Head(s)
  BY LenProperties, EmptySeq
<1>2. t \in Seq(S) /\ Len(t) = Len(s) - 1 /\ \A i \in 1..Len(t) : t[i] = s[i + 1]
  BY HeadTailProperties
<1>3. t = <<>> <=> Len(t) = 0
  BY <1>2, EmptySeq
<1>4. ASSUME t # <<>> PROVE t[Len(t)] = s[Len(s)]
  <2>1. Len(t) \in 1..Len(t) /\ Len(t) + 1 = Len(s)
    BY <1>1, <1>2, <1>3, <1>4
  <2> QED
    BY <1>2, <2>1
<1> QED
  BY <1>1, <1>2, <1>3, <1>4 DEF Last

(* Steps of others leave what writers have to put.                         *)
LEMMA TodoKept ==
  ASSUME TypeOK, Todo, NEW p \in Procs, p \notin Writers, todo' = todo,
         pc' = pc \/ \E from, to : Moves(p, from, to)
  PROVE  Todo'
<1>1. ASSUME NEW w \in Writers
      PROVE  (pc'[w] \in ToPut => pc[w] \in ToPut) /\ (pc'[w] = "idle" => pc[w] = "idle")
  <2>1. CASE pc' = pc
    BY <2>1
  <2>2. ASSUME NEW from, NEW to, Moves(p, from, to)
        PROVE  (pc'[w] \in ToPut => pc[w] \in ToPut) /\ (pc'[w] = "idle" => pc[w] = "idle")
    <3>1. w \in Procs \ {p} /\ w \notin Readers
      BY StreamAssumption DEF Procs
    <3>2. pc'[w] = pc[w] \/ (pc[w] = "asleep" /\ pc'[w] = "woken")
      BY <2>2, <3>1 DEF Moves
    <3> QED
      BY <3>2 DEF ToPut
  <2> QED
    BY <2>1, <2>2
<1> QED
  BY <1>1 DEF Todo

(* A step of a writer keeps what it still has to put well formed.          *)
LEMMA WriterTodo ==
  ASSUME IInv, NEW w \in Writers,
         WriteStep(w) \/ InterruptWrite(w) \/ \E size \in WriteSizes : Write(w, size)
  PROVE  Todo'
<1> USE DEF IInv
<1>1. Types /\ w \in Procs
  BY TypeParts DEF Procs
<1>2. ASSUME NEW to, NEW from, Moves(w, from, to), \A v \in Writers \ {w} : todo'[v] = todo[v],
             to \in ToPut => todo'[w] # <<>>, todo'[w] # <<>> => Last(todo'[w]).delim,
             to = "idle" => todo'[w] = <<>>
      PROVE  Todo'
  BY <1>1, <1>2, StreamAssumption DEF Todo, ToPut, Moves, Procs
<1>3. ASSUME NEW size \in WriteSizes, Write(w, size) PROVE Todo'
  <2>1. written'[w] \in 1..Messages
    BY <1>1, <1>3, StreamAssumption DEF Types, Write
  <2>2. todo'[w] = Blocks(w, written'[w], size) /\ \A v \in Writers \ {w} : todo'[v] = todo[v]
    BY <1>1, <1>3 DEF Types, Write
  <2>3. todo'[w] # <<>> /\ Last(todo'[w]).delim
    BY <2>1, <2>2, BlocksFacts
  <2> QED
    BY <1>2, <1>3, <2>2, <2>3, WriterMoves DEF ToPut
<1>4. CASE Put(w) \/ Flowctl(w) \/ Sleep(w) \/ Resume(w)
  <2>1. PICK from \in ToPut, to \in ToPut : Moves(w, from, to) /\ todo' = todo
    BY <1>4, WriterMoves DEF Put, Flowctl, Sleep, Resume, ToPut
  <2>2. todo[w] # <<>>
    BY <2>1 DEF Todo, Moves
  <2> QED
    BY <1>2, <2>1, <2>2 DEF Todo, ToPut
<1>5. CASE PutClosed(w) \/ InterruptWrite(w)
  <2>1. \A v \in Writers : todo'[v] = IF v = w THEN <<>> ELSE todo[v]
    BY <1>1, <1>5 DEF Types, PutClosed, InterruptWrite
  <2>2. Moves(w, "put", "idle") \/ Moves(w, "asleep", "idle")
    BY <1>5, WriterMoves
  <2> QED
    BY <1>2, <2>1, <2>2 DEF ToPut
<1>6. CASE Stputq(w)
  <2>1. PICK s : s = todo[w]
    OBVIOUS
  <2>2. PICK t : t = Tail(s)
    OBVIOUS
  <2>3. s \in Seq(Block) /\ s # <<>> /\ Last(s).delim
    BY <1>1, <1>6, <2>1 DEF Types, Stputq, Goto, Todo, ToPut
  <2>4. \A v \in Writers : todo'[v] = IF v = w THEN t ELSE todo[v]
    BY <1>1, <1>6, <2>1, <2>2 DEF Types, Stputq
  <2>5. /\ t # <<>> => Last(t) = Last(s)
        /\ t = <<>> => Last(s) = Head(s)
    BY ONLY <2>2, <2>3, TailLast
  <2>6. \/ Moves(w, "stputq", "mark") \/ Moves(w, "stputq", "wakeup")
        \/ Moves(w, "stputq", "put") /\ ~Head(s).delim
    BY <1>1, <1>6, <2>1, GotoMoves DEF Stputq, Awaken, Places
  <2> QED
    BY <1>2, <2>3, <2>4, <2>5, <2>6 DEF ToPut
<1>7. CASE Mark(w)
  <2>1. Moves(w, "mark", "wakeup") /\ todo' = todo
    BY <1>7, WriterMoves DEF Mark
  <2> QED
    BY <1>2, <2>1 DEF ToPut, Todo
<1>8. CASE Wakeup(w)
  <2>1. \/ Moves(w, "wakeup", "idle") /\ todo[w] = <<>>
        \/ Moves(w, "wakeup", "put") /\ todo[w] # <<>>
    BY <1>1, <1>8, WakingMoves DEF Wakeup, More, Places
  <2> QED
    BY <1>2, <1>8, <2>1 DEF Wakeup, ToPut, Todo
<1> QED
  BY <1>3, <1>4, <1>5, <1>6, <1>7, <1>8 DEF WriteStep
-----------------------------------------------------------------------------
(* Steps of writers and hangups leave what the reader has in hand.         *)
LEMMA HandKept ==
  ASSUME TypeOK, Hand, Closing, NEW p \in Procs, p \notin Readers,
         NEW from, NEW to, Moves(p, from, to),
         rdlock' = rdlock, blk' = blk, tofree' = tofree, left' = left, null' = null
  PROVE  Hand' /\ Closing'
<1>1. ASSUME NEW r \in Readers PROVE pc'[r] = pc[r] \/ (pc[r] = "asleep" /\ pc'[r] = "get")
  <2>1. r \in Procs \ {p} /\ r \notin Writers
    BY StreamAssumption DEF Procs
  <2> QED
    BY <2>1 DEF Moves
<1>2. Hand'
  BY <1>1 DEF Hand
<1>3. Closing'
  BY <1>1 DEF Closing
<1> QED
  BY <1>2, <1>3

(* A reader that takes a step is the only one who may be reading.          *)
LEMMA ReadsOnly ==
  ASSUME IInv, NEW r \in Readers,
         ReadStep(r) \/ InterruptRead(r) \/ Close(r) \/ \E size \in ReadSizes : Read(r, size)
  PROVE  /\ rdlock \in {r, None}
         /\ \A q \in Readers \ {r} : pc[q] \in NoRdlock
<1> USE DEF IInv, NoRdlock
<1>1. rdlock \in Readers \cup {None} /\ RdlockIs
  BY TypeParts DEF Types
<1>2. rdlock \in {r, None}
  <2>1. CASE pc[r] \notin NoRdlock
    BY <1>1, <2>1 DEF RdlockIs
  <2>2. CASE pc[r] \in NoRdlock
    <3>1. Flush(r) \/ FlushClear(r) => rdlock = None
      BY DEF Flush, FlushClear, Clear, Goto, Closing
    <3>2. Close(r) => rdlock = None
      BY <1>1 DEF Close, RdlockIs
    <3>3. (\E size \in ReadSizes : Read(r, size)) => rdlock = None
      BY DEF Read
    <3>4. ~Get(r) /\ ~GetClear(r) /\ ~Have(r) /\ ~HavePart(r) /\ ~Eof(r) /\ ~ToSleep(r) /\ ~SleepRead(r)
          /\ ~PutBack(r) /\ ~Interrupted(r) /\ ~InterruptRead(r)
      BY <2>2 DEF Get, GetClear, Clear, Have, HavePart, Eof, ToSleep, SleepRead, PutBack, Interrupted,
                  InterruptRead, Return, Goto
    <3> QED
      BY <3>1, <3>2, <3>3, <3>4 DEF ReadStep
  <2> QED
    BY <2>1, <2>2
<1> QED
  BY <1>2, ReadsAlone

(* What it must leave in hand.                                             *)
LEMMA HandStep ==
  ASSUME IInv, NEW r \in Readers,
         ReadStep(r) \/ InterruptRead(r) \/ Close(r) \/ \E size \in ReadSizes : Read(r, size),
         NEW to, pc'[r] = to, pc' = pc \/ \E from : Moves(r, from, to),
         rdlock' \in {r, None},
         rdlock' = None => blk' = None /\ tofree' = <<>>,
         to \in {"clear", "have"} => blk' # None,
         to \in {"get", "empty", "sleep", "asleep", "putback"} => blk' = None,
         rdlock' = r => left' > 0,
         \A i \in DOMAIN tofree' : ~tofree'[i].delim,
         null' => rdlock' = None,
         null => null',
         to \in {"flush", "flushed"} => null'
  PROVE  Hand' /\ Closing'
<1>1. ASSUME NEW q \in Readers, q # r
      PROVE  pc[q] \in NoRdlock /\ pc'[q] = pc[q] /\ rdlock' # q
  <2>1. pc[q] \in NoRdlock
    BY <1>1, ReadsOnly
  <2>2. q \in Procs \ {r} /\ q # None
    BY <1>1, StreamAssumption DEF Procs
  <2>3. pc[q] # "asleep"
    BY <2>1 DEF NoRdlock
  <2> QED
    BY <1>1, <2>1, <2>2, <2>3 DEF Moves
<1>2. Hand'
  <2>1. ASSUME NEW q \in Readers
        PROVE  /\ pc'[q] \in {"clear", "have"} => blk' # None
               /\ pc'[q] \in {"get", "empty", "sleep", "asleep", "putback"} => blk' = None
               /\ rdlock' = q => left' > 0
    BY <1>1 DEF NoRdlock
  <2> QED
    BY <2>1 DEF Hand
<1>3. Closing'
  BY <1>1 DEF Closing, IInv
<1> QED
  BY <1>2, <1>3

(* A step of a reader keeps what it has in hand, and the closing.          *)
LEMMA ReaderHand ==
  ASSUME IInv, NEW r \in Readers,
         ReadStep(r) \/ InterruptRead(r) \/ Close(r) \/ \E size \in ReadSizes : Read(r, size)
  PROVE  Hand' /\ Closing'
<1> USE DEF IInv, locks, reader, ends, bounds
<1>1. Types /\ RdlockIs /\ r \in Procs /\ r # None /\ None \notin Block
  BY TypeParts, StreamAssumption DEF Procs
<1>2. rdlock \in {r, None}
  BY ReadsOnly
<1>3. pc[r] \notin NoRdlock => rdlock = r /\ ~null /\ left > 0
  BY <1>1, <1>2 DEF RdlockIs, Closing, Hand
<1>4. \A i \in DOMAIN tofree : ~tofree[i].delim
  BY DEF Hand
<1>5. \A i \in DOMAIN <<>> : ~(<<>>[i]).delim
  OBVIOUS
<1>6. ASSUME NEW size \in ReadSizes, Read(r, size) PROVE Hand' /\ Closing'
  <2>1. Moves(r, "idle", "get") /\ rdlock = None /\ rdlock' = r /\ ~null /\ null' = null
        /\ blk' = blk /\ tofree' = tofree /\ left' > 0
    BY <1>6, ReaderMoves, StreamAssumption DEF Read
  <2>2. blk = None /\ tofree = <<>> /\ pc'[r] = "get"
    BY <2>1 DEF Hand, Moves
  <2> QED
    BY <1>1, <1>4, <1>6, <2>1, <2>2, HandStep
<1>7. CASE Get(r)
  <2>1. pc[r] = "get" /\ rdlock' = rdlock /\ left' = left /\ tofree' = tofree /\ null' = null
    BY <1>7 DEF Get
  <2>2. \/ blk' = None /\ Moves(r, "get", "empty")
        \/ blk' \in Block /\ (Moves(r, "get", "clear") \/ Moves(r, "get", "have"))
    <3>1. CASE queue = <<>>
      BY <1>1, <1>7, <3>1, GotoMoves DEF Get, Getq, Places
    <3>2. CASE queue # <<>>
      <4>1. Head(queue) \in Block
        BY <1>1, <3>2, HeadTailProperties DEF Types
      <4> QED
        BY <1>1, <1>7, <3>2, <4>1, GotoMoves, WakingMoves DEF Get, Getq, Places
    <3> QED
      BY <3>1, <3>2
  <2>3. PICK to \in {"empty", "clear", "have"} :
            /\ Moves(r, "get", to) /\ pc'[r] = to
            /\ to = "empty" => blk' = None
            /\ to # "empty" => blk' # None
    BY <1>1, <2>2 DEF Moves
  <2> QED
    BY <1>1, <1>3, <1>4, <1>7, <2>1, <2>3, HandStep DEF ReadStep, NoRdlock
<1>8. CASE GetClear(r)
  <2>1. /\ Moves(r, "clear", "have") /\ pc[r] = "clear" /\ pc'[r] = "have"
        /\ rdlock' = rdlock /\ blk' = blk /\ tofree' = tofree /\ left' = left /\ null' = null
    BY <1>8, ReaderMoves DEF GetClear, Clear, Moves
  <2>2. blk # None
    BY <2>1 DEF Hand
  <2> QED
    BY <1>1, <1>3, <1>4, <1>8, <2>1, <2>2, HandStep DEF ReadStep, NoRdlock
<1>9. CASE Have(r)
  <2>1. pc[r] = "have" /\ null' = null /\ rdlock = r /\ ~null /\ left > 0
    BY <1>3, <1>9 DEF Have, NoRdlock
  <2>2. CASE Return(r, "have")
    <3>1. pc'[r] = "idle" /\ Moves(r, "have", "idle") /\ rdlock' = None /\ blk' = None /\ tofree' = <<>>
      BY <1>1, <2>2, GotoMoves DEF Return, Places, Moves
    <3> QED
      BY <1>1, <1>5, <1>9, <2>1, <3>1, HandStep DEF ReadStep
  <2>3. CASE ~Return(r, "have")
    <3>1. /\ ~blk.delim /\ blk.n < left /\ Goto(r, "have", "get") /\ tofree' = Append(tofree, blk)
          /\ left' = left - blk.n /\ blk' = None /\ rdlock' = rdlock
      BY <1>9, <2>3 DEF Have
    <3>2. Moves(r, "have", "get") /\ pc'[r] = "get"
      BY <1>1, <3>1, GotoMoves DEF Places, Moves
    <3>3. blk \in Block /\ blk.n \in Nat /\ left \in Nat /\ tofree \in Seq(Block)
      <4>1. blk \in Block
        BY <1>1, <2>1 DEF Types, Hand
      <4> QED
        BY <1>1, <4>1, StreamAssumption DEF Types, Block
    <3>4. left' > 0
      BY <3>1, <3>3
    <3>5. \A i \in DOMAIN tofree' : ~tofree'[i].delim
      <4>1. PICK s, t : s = tofree /\ t = Append(tofree, blk)
        OBVIOUS
      <4>2. /\ t \in Seq(Block) /\ Len(t) = Len(s) + 1 /\ t[Len(s) + 1] = blk
            /\ \A i \in 1..Len(s) : t[i] = s[i]
        BY <3>3, <4>1, AppendProperties
      <4>3. Len(s) \in Nat /\ DOMAIN s = 1..Len(s) /\ DOMAIN t = 1..Len(t)
        BY <3>3, <4>1, <4>2, LenProperties
      <4>4. \A i \in 1..Len(s) : ~s[i].delim
        BY <1>4, <4>1, <4>3
      <4>5. \A i \in 1..Len(t) : ~t[i].delim
        BY <3>1, <4>2, <4>3, <4>4
      <4> QED
        BY <3>1, <4>1, <4>3, <4>5
    <3> QED
      BY <1>1, <1>9, <2>1, <3>1, <3>2, <3>4, <3>5, HandStep DEF ReadStep
  <2> QED
    BY <2>2, <2>3
<1>10. CASE HavePart(r) \/ Interrupted(r)
  <2>1. /\ pc[r] \notin NoRdlock /\ null' = null /\ rdlock' = None /\ blk' = None /\ tofree' = <<>>
        /\ \E from : Moves(r, from, "idle")
    BY <1>1, <1>10, GotoMoves DEF HavePart, Interrupted, Return, Places, Goto, NoRdlock
  <2>2. pc'[r] = "idle"
    BY <2>1 DEF Moves
  <2> QED
    BY <1>1, <1>3, <1>5, <1>10, <2>1, <2>2, HandStep DEF ReadStep
<1>11. CASE Eof(r)
  <2>1. pc[r] = "empty" /\ pc[r] \notin NoRdlock /\ null' = null
    BY <1>11 DEF Eof, NoRdlock
  <2>2. CASE Return(r, "empty")
    <3>1. pc'[r] = "idle" /\ Moves(r, "empty", "idle") /\ rdlock' = None /\ blk' = None /\ tofree' = <<>>
      BY <1>1, <2>2, GotoMoves DEF Return, Places, Moves
    <3> QED
      BY <1>1, <1>3, <1>5, <1>11, <2>1, <3>1, HandStep DEF ReadStep
  <2>3. CASE ~Return(r, "empty")
    <3>1. /\ Moves(r, "empty", "putback") /\ pc'[r] = "putback"
          /\ rdlock' = rdlock /\ blk' = blk /\ tofree' = tofree /\ left' = left
      BY <1>1, <1>11, <2>3, GotoMoves DEF Eof, Places, Moves
    <3>2. blk = None
      BY <2>1 DEF Hand
    <3> QED
      BY <1>1, <1>3, <1>4, <1>11, <2>1, <3>1, <3>2, HandStep DEF ReadStep
  <2> QED
    BY <2>2, <2>3
<1>12. CASE ToSleep(r) \/ SleepRead(r) \/ InterruptRead(r)
  <2>1. PICK from \in {"empty", "sleep", "asleep"}, to \in {"get", "sleep", "asleep", "putback"} : Moves(r, from, to)
    BY <1>12, ReaderMoves
  <2>2. /\ pc[r] \notin NoRdlock /\ blk = None /\ pc'[r] = to
        /\ rdlock' = rdlock /\ blk' = blk /\ tofree' = tofree /\ left' = left /\ null' = null
    BY <1>12, <2>1 DEF ToSleep, SleepRead, InterruptRead, Moves, Hand, NoRdlock
  <2> QED
    BY <1>1, <1>3, <1>4, <1>12, <2>1, <2>2, HandStep DEF ReadStep
<1>13. CASE PutBack(r)
  <2>1. /\ pc' = pc /\ pc[r] = "putback" /\ pc[r] \notin NoRdlock
        /\ rdlock' = rdlock /\ blk' = blk /\ left' = left /\ null' = null /\ tofree' = Front(tofree)
    BY <1>13 DEF PutBack, NoRdlock
  <2>2. blk = None
    BY <2>1 DEF Hand
  <2>3. \A i \in DOMAIN tofree' : ~tofree'[i].delim
    <3>1. PICK s, t : s = tofree /\ t = Front(s)
      OBVIOUS
    <3>2. s \in Seq(Block) /\ s # <<>>
      BY <1>1, <1>13, <3>1 DEF Types, PutBack
    <3>3. Len(s) \in Nat /\ Len(s) # 0 /\ DOMAIN s = 1..Len(s) /\ \A i \in 1..Len(s) : s[i] \in Block
      BY <3>2, LenProperties, EmptySeq
    <3>4. /\ t \in Seq(Block) /\ Len(t) = Len(s) - 1
          /\ \A i \in 1..(Len(s) - 1) : t[i] = s[i]
      BY <3>1, <3>3, SubSeqProperties DEF Front
    <3>5. DOMAIN t = 1..(Len(s) - 1)
      BY <3>4, LenProperties
    <3> QED
      BY <1>4, <2>1, <3>1, <3>3, <3>4, <3>5
  <2> QED
    BY <1>1, <1>3, <1>13, <2>1, <2>2, <2>3, HandStep DEF ReadStep
<1>14. CASE Close(r)
  <2>1. /\ Moves(r, "idle", "flush") /\ pc'[r] = "flush" /\ null'
        /\ rdlock' = rdlock /\ blk' = blk /\ tofree' = tofree /\ left' = left
    BY <1>14, ReaderMoves DEF Close, Moves
  <2>2. rdlock = None
    BY <1>1, <1>14, <1>2 DEF Close, RdlockIs, NoRdlock
  <2> QED
    BY <1>1, <1>4, <1>14, <2>1, <2>2, HandStep DEF Hand
<1>15. CASE Flush(r) \/ FlushClear(r)
  <2>1. PICK from \in {"flush", "flushed"}, to \in {"idle", "flush", "flushed"} : Moves(r, from, to)
    BY <1>15, ReaderMoves
  <2>2. /\ null /\ null' = null /\ pc'[r] = to
        /\ rdlock' = rdlock /\ blk' = blk /\ tofree' = tofree /\ left' = left
    BY <1>15, <2>1 DEF Flush, FlushClear, Moves, Closing
  <2>3. rdlock = None
    BY <2>2 DEF Closing
  <2> QED
    BY <1>1, <1>4, <1>15, <2>1, <2>2, <2>3, HandStep DEF Hand, ReadStep
<1> QED
  BY <1>6, <1>7, <1>8, <1>9, <1>10, <1>11, <1>12, <1>13, <1>14, <1>15 DEF ReadStep
-----------------------------------------------------------------------------
(* Nothing new on the queue, no new sleeper, and no waker that is done:    *)
(* who sleeps is still woken.                                              *)
LEMMA WokenKept ==
  ASSUME ReaderWoken, NEW p \in Procs, NEW from, NEW to, Moves(p, from, to), queue' = queue,
         "QHUNGUP" \in flag' => "QHUNGUP" \in flag,
         p \in Readers => to # "asleep",
         p \in Writers \cup Hangers => from \notin {"mark", "wakeup"}
  PROVE  ReaderWoken'
<1>1. ASSUME NEW r \in Readers, pc'[r] = "asleep" PROVE pc[r] = "asleep"
  BY <1>1 DEF Moves, Procs
<1>2. ASSUME NEW q \in Writers \cup Hangers, pc[q] \in {"mark", "wakeup"}
      PROVE  pc'[q] \in {"mark", "wakeup"}
  BY <1>2 DEF Moves, Procs
<1>3. Past(queue)' <=> Past(queue)
  OBVIOUS
<1> QED
  BY <1>1, <1>2, <1>3 DEF ReaderWoken

(* A writer wakes the reader who sleeps on what it has put.                *)
LEMMA WriterWoken ==
  ASSUME IInv, NEW w \in Writers,
         WriteStep(w) \/ InterruptWrite(w) \/ \E size \in WriteSizes : Write(w, size)
  PROVE  ReaderWoken'
<1> USE DEF IInv
<1>1. Types /\ w \in Procs /\ w \notin Readers
  BY TypeParts, StreamAssumption DEF Procs
<1>2. CASE \/ Put(w) \/ PutClosed(w) \/ Flowctl(w) \/ Sleep(w) \/ Resume(w) \/ InterruptWrite(w)
           \/ \E size \in WriteSizes : Write(w, size)
  <2>1. PICK from \in {"idle", "put", "qlock", "sleep", "woken", "asleep"}, to \in Places : Moves(w, from, to)
    BY <1>2, WriterMoves DEF Moves, Places
  <2>2. queue' = queue /\ flag' = flag
    BY <1>2 DEF Put, PutClosed, Flowctl, Sleep, Resume, InterruptWrite, Write
  <2> QED
    BY <1>1, <2>1, <2>2, WokenKept
<1>3. CASE Mark(w)
  <2>1. pc'[w] = "wakeup"
    BY <1>3, WriterMoves DEF Moves
  <2> QED
    BY <2>1 DEF ReaderWoken
<1>4. CASE Wakeup(w)
  <2>1. \A r \in Readers : pc'[r] # "asleep"
    BY <1>1, <1>4 DEF Wakeup, Waking, Procs
  <2> QED
    BY <2>1 DEF ReaderWoken
<1>5. CASE Stputq(w)
  <2>1. CASE pc'[w] \in {"mark", "wakeup"}
    BY <2>1 DEF ReaderWoken
  <2>2. CASE pc'[w] \notin {"mark", "wakeup"}
    <3>1. PICK b : b = Head(todo[w])
      OBVIOUS
    <3>2. /\ Moves(w, "stputq", "put") /\ ~Past(queue') /\ ~b.delim /\ queue' = Append(queue, b) /\ flag' = flag
      BY <1>1, <1>5, <2>2, <3>1, GotoMoves DEF Stputq, Awaken, Places, Goto, Moves, Types
    <3>3. \A r \in Readers : pc'[r] = "asleep" => pc[r] = "asleep"
      BY <1>1, <3>2 DEF Moves, Procs
    <3>4. \A q \in Writers \cup Hangers : pc[q] \in {"mark", "wakeup"} => pc'[q] \in {"mark", "wakeup"}
      BY <3>2 DEF Moves, Procs
    <3>5. (\E i \in DOMAIN queue' : queue'[i].delim) => \E i \in DOMAIN queue : queue[i].delim
      <4>1. todo[w] \in Seq(Block) /\ todo[w] # <<>>
        BY <1>1, <1>5 DEF Types, Stputq, Goto, Todo, ToPut
      <4>2. b \in Block
        BY <3>1, <4>1, HeadTailProperties
      <4>3. PICK s, t : s = queue /\ t = Append(s, b)
        OBVIOUS
      <4>4. s \in Seq(Block)
        BY <1>1, <4>3 DEF Types
      <4>5. /\ t \in Seq(Block) /\ Len(t) = Len(s) + 1 /\ t[Len(s) + 1] = b
            /\ \A i \in 1..Len(s) : t[i] = s[i]
        BY <4>2, <4>3, <4>4, AppendProperties
      <4>6. Len(s) \in Nat /\ DOMAIN s = 1..Len(s) /\ DOMAIN t = 1..Len(t)
        BY <4>4, <4>5, LenProperties
      <4>7. \A i \in 1..Len(t) : t[i].delim => i \in 1..Len(s)
        BY <3>2, <4>5, <4>6
      <4> QED
        BY <3>2, <4>3, <4>5, <4>6, <4>7
    <3>6. ~(Past(queue)')
      BY <3>2
    <3> QED
      BY <3>2, <3>3, <3>4, <3>5, <3>6 DEF ReaderWoken
  <2> QED
    BY <2>1, <2>2
<1> QED
  BY <1>2, <1>3, <1>4, <1>5 DEF WriteStep

(* So does a hangup.                                                       *)
LEMMA HangerWoken ==
  ASSUME IInv, NEW h \in Hangers, HangStep(h) \/ Hangup(h)
  PROVE  ReaderWoken'
<1> USE DEF IInv
<1>1. Types /\ h \in Procs /\ h \notin Readers
  BY TypeParts, StreamAssumption DEF Procs
<1>2. CASE Hangup(h)
  BY <1>1, <1>2, HangerMoves, WokenKept DEF Hangup
<1>3. CASE SetHungup(h)
  <2>1. pc'[h] = "wakeup"
    BY <1>3, HangerMoves DEF Moves
  <2> QED
    BY <2>1 DEF ReaderWoken
<1>4. CASE WakeupHungup(h)
  <2>1. \A r \in Readers : pc'[r] # "asleep"
    BY <1>1, <1>4 DEF WakeupHungup, Waking, Procs
  <2> QED
    BY <2>1 DEF ReaderWoken
<1> QED
  BY <1>2, <1>3, <1>4 DEF HangStep

(* A reader goes to sleep only on an empty queue that is not hung up; and  *)
(* nobody else reads, or sleeps.                                           *)
LEMMA ReaderWokenStep ==
  ASSUME IInv, NEW r \in Readers,
         ReadStep(r) \/ InterruptRead(r) \/ Close(r) \/ \E size \in ReadSizes : Read(r, size)
  PROVE  ReaderWoken'
<1> USE DEF IInv
<1>1. r \in Procs /\ \A q \in Readers \ {r} : pc[q] \in NoRdlock
  BY ReadsOnly DEF Procs
<1>2. ASSUME pc'[r] # "asleep", pc' = pc \/ \E from, to : Moves(r, from, to)
      PROVE  ReaderWoken'
  <2>1. \A q \in Readers \ {r} : pc'[q] # "asleep"
    BY <1>1, <1>2 DEF Moves, NoRdlock, Procs
  <2> QED
    BY <1>2, <2>1 DEF ReaderWoken
<1>3. CASE ~SleepRead(r)
  <2>1. pc' = pc \/ \E from, to : Moves(r, from, to)
    BY <1>3, ReaderMoves DEF ReadStep
  <2>2. pc'[r] # "asleep"
    BY <1>3, ReaderMoves DEF ReadStep, Moves, PutBack
  <2> QED
    BY <1>2, <2>1, <2>2
<1>4. CASE SleepRead(r)
  <2>1. CASE Isinput
    <3>1. Moves(r, "sleep", "get") /\ pc'[r] = "get"
      BY <1>1, <1>4, <2>1, GotoMoves DEF SleepRead, Places, Moves
    <3> QED
      BY <1>2, <3>1
  <2>2. CASE ~Isinput
    <3>1. queue' = <<>> /\ "QHUNGUP" \notin flag'
      BY <1>4, <2>2 DEF SleepRead, Isinput
    <3>2. ~(Past(queue)')
      BY <3>1, EmptyNotPast
    <3>3. \A i \in DOMAIN queue' : FALSE
      BY <3>1
    <3> QED
      BY <3>1, <3>2, <3>3 DEF ReaderWoken
  <2> QED
    BY <2>1, <2>2
<1> QED
  BY <1>3, <1>4
-----------------------------------------------------------------------------
(* At first there is nothing on the stream and nobody uses it.             *)
LEMMA InitIInv == Init => IInv
<1> SUFFICES ASSUME Init PROVE IInv
  OBVIOUS
<1> USE StreamAssumption DEF Init
<1>1. pc \in [Procs -> Places] /\ \A p \in Procs : pc[p] = "idle" /\ p # None
  BY DEF Places
<1>2. <<>> \in Seq(Block)
  BY EmptySeq
<1>3. TypeOK
  <2>1. LockIs /\ RlockIs /\ RdlockIs
    BY <1>1 DEF LockIs, RlockIs, RdlockIs, AtLock, AtRlock, NoRdlock, Procs
  <2>2. todo \in [Writers -> Seq(Block)] /\ queue \in Seq(Block) /\ tofree \in Seq(Block)
    BY <1>2
  <2>3. written \in [Writers -> 0..Messages] /\ notes \in 0..Interrupts /\ hups \in 0..Hangups
    OBVIOUS
  <2>4. flag \subseteq Bits /\ seen \in [Procs -> SUBSET Bits] /\ hread \in 0..3 /\ left \in Nat
    OBVIOUS
  <2> QED
    BY <1>1, <2>1, <2>2, <2>3, <2>4 DEF TypeOK, Places, LockIs, RlockIs, RdlockIs, AtLock, AtRlock, NoRdlock
<1>4. Todo
  BY <1>1 DEF Todo, ToPut, Procs
<1>5. Hand
  <2>1. \A r \in Readers : pc[r] = "idle" /\ rdlock # r
    BY <1>1 DEF Procs
  <2>2. \A i \in DOMAIN tofree : ~tofree[i].delim
    OBVIOUS
  <2> QED
    BY <2>1, <2>2 DEF Hand
<1>6. Closing
  BY <1>1 DEF Closing, Procs
<1>7. ReaderWoken
  BY <1>1 DEF ReaderWoken, Procs
<1> QED
  BY <1>3, <1>4, <1>5, <1>6, <1>7 DEF IInv

(* Every step keeps it.                                                    *)
LEMMA StepIInv == IInv /\ [Next]_vars => IInv'
<1> SUFFICES ASSUME IInv, [Next]_vars PROVE IInv'
  OBVIOUS
<1>1. ASSUME NEW w \in Writers,
             WriteStep(w) \/ InterruptWrite(w) \/ \E size \in WriteSizes : Write(w, size)
      PROVE  IInv'
  <2>1. TypeOK' /\ Todo' /\ ReaderWoken'
    BY <1>1, WriterTypes, WriterTodo, WriterWoken
  <2>2. w \in Procs /\ w \notin Readers
    BY StreamAssumption DEF Procs
  <2>3. PICK from, to : Moves(w, from, to)
    BY <1>1, WriterMoves DEF IInv, WriteStep
  <2>4. rdlock' = rdlock /\ blk' = blk /\ tofree' = tofree /\ left' = left /\ null' = null
    BY <1>1 DEF WriteStep, InterruptWrite, Write, Put, PutClosed, Flowctl, Sleep, Resume, Stputq, Mark, Wakeup,
                reader, ends, locks
  <2>5. Hand' /\ Closing'
    BY <2>2, <2>3, <2>4, HandKept DEF IInv
  <2> QED
    BY <2>1, <2>5 DEF IInv
<1>2. ASSUME NEW r \in Readers,
             ReadStep(r) \/ InterruptRead(r) \/ Close(r) \/ \E size \in ReadSizes : Read(r, size)
      PROVE  IInv'
  <2>1. TypeOK' /\ Hand' /\ Closing' /\ ReaderWoken'
    BY <1>2, ReaderTypes, ReaderHand, ReaderWokenStep
  <2>2. r \in Procs /\ r \notin Writers
    BY StreamAssumption DEF Procs
  <2>3. pc' = pc \/ \E from, to : Moves(r, from, to)
    BY <1>2, ReaderMoves DEF IInv, ReadStep
  <2>4. todo' = todo
    BY <1>2 DEF ReadStep, InterruptRead, Close, Read, Get, GetClear, Have, HavePart, Eof, ToSleep, SleepRead,
                PutBack, Interrupted, Flush, FlushClear
  <2>5. Todo'
    BY <2>2, <2>3, <2>4, TodoKept DEF IInv
  <2> QED
    BY <2>1, <2>5 DEF IInv
<1>3. ASSUME NEW h \in Hangers, HangStep(h) \/ Hangup(h) PROVE IInv'
  <2>1. TypeOK' /\ ReaderWoken'
    BY <1>3, HangerTypes, HangerWoken
  <2>2. h \in Procs /\ h \notin Readers /\ h \notin Writers
    BY StreamAssumption DEF Procs
  <2>3. PICK from, to : Moves(h, from, to)
    BY <1>3, HangerMoves DEF IInv, HangStep
  <2>4. todo' = todo /\ rdlock' = rdlock /\ blk' = blk /\ tofree' = tofree /\ left' = left /\ null' = null
    BY <1>3 DEF HangStep, Hangup, SetHungup, WakeupHungup, reader, ends, locks
  <2>5. Hand' /\ Closing' /\ Todo'
    BY <2>2, <2>3, <2>4, HandKept, TodoKept DEF IInv
  <2> QED
    BY <2>1, <2>5 DEF IInv
<1>4. CASE UNCHANGED vars
  <2>1. TypeOK'
    BY <1>4 DEF vars, locks, reader, ends, bounds, IInv, TypeOK
  <2>2. Todo' /\ Hand' /\ Closing'
    BY <1>4 DEF vars, locks, reader, ends, bounds, IInv, Todo, Hand, Closing
  <2>3. ReaderWoken'
    <3>1. pc' = pc /\ queue' = queue /\ flag' = flag
      BY <1>4 DEF vars
    <3> QED
      BY <3>1 DEF IInv, ReaderWoken
  <2> QED
    BY <2>1, <2>2, <2>3 DEF IInv
<1> QED
  BY <1>1, <1>2, <1>3, <1>4 DEF Next

(* The invariant holds in every state.                                     *)
LEMMA Inductive == Spec => []IInv
BY InitIInv, StepIInv, PTL DEF Spec

(* The types, and who holds which lock, are right always.                  *)
THEOREM TypeCorrect == Spec => []TypeOK
<1>1. IInv => TypeOK
  BY DEF IInv
<1> QED
  BY Inductive, <1>1, PTL

(* A reader never sleeps on the end of a message, a queue past its mark or *)
(* a hangup, unless someone is about to wake it.                           *)
THEOREM ReaderIsWoken == Spec => []ReaderWoken
<1>1. IInv => ReaderWoken
  BY DEF IInv
<1> QED
  BY Inductive, <1>1, PTL
-----------------------------------------------------------------------------
(* A sequence with one element more at its end.                            *)
LEMMA OneMore ==
  ASSUME NEW S, NEW s \in Seq(S), NEW t \in Seq(S), NEW b \in S, NEW u, NEW v,
         u = s \o t, v = s \o Append(t, b)
  PROVE  v = Append(u, b)
<1>1. u \in Seq(S) /\ <<b>> \in Seq(S)
  BY ConcatProperties
<1>2. Append(t, b) = t \o <<b>> /\ Append(u, b) = u \o <<b>>
  BY <1>1, AppendIsConcat
<1>3. (s \o t) \o <<b>> = s \o (t \o <<b>>)
  BY <1>1, ConcatAssociative
<1> QED
  BY <1>2, <1>3

(* What follows s in what s begins.                                        *)
LEMMA AfterConcat ==
  ASSUME NEW S, NEW s \in Seq(S), NEW t \in Seq(S), NEW u, u = s \o t
  PROVE  /\ u \in Seq(S) /\ Len(u) = Len(s) + Len(t) /\ Len(s) \in Nat /\ Len(t) \in Nat
         /\ \A i \in 1..Len(s) : u[i] = s[i]
         /\ SubSeq(u, Len(s) + 1, Len(u)) = t
<1>1. /\ u \in Seq(S) /\ Len(u) = Len(s) + Len(t)
      /\ \A i \in 1..(Len(s) + Len(t)) : u[i] = IF i <= Len(s) THEN s[i] ELSE t[i - Len(s)]
  BY ConcatProperties
<1>2. Len(s) \in Nat /\ Len(t) \in Nat
  BY LenProperties
<1>3. \A i \in 1..Len(s) : u[i] = s[i]
  BY <1>1, <1>2
<1>4. SubSeq(u, Len(s) + 1, Len(u)) = t
  <2>1. CASE Len(t) = 0
    <3>1. t = <<>> /\ Len(u) < Len(s) + 1
      BY <1>1, <1>2, <2>1, EmptySeq
    <3> QED
      BY <1>1, <1>2, <3>1, SubSeqEmpty
  <2>2. CASE Len(t) # 0
    <3>1. Len(s) + 1 \in (Len(s) + 1)..(Len(s) + Len(t)) /\ Len(u) \in (Len(s) + 1)..(Len(s) + Len(t))
          /\ Len(s) + 1 - Len(s) = 1 /\ Len(u) - Len(s) = Len(t)
      BY <1>1, <1>2, <2>2
    <3>2. SubSeq(u, Len(s) + 1, Len(u)) = SubSeq(t, 1, Len(t))
      BY <3>1, SubSeqOfConcat2
    <3> QED
      BY <3>2, SubSeqFull
  <2> QED
    BY <2>1, <2>2
<1> QED
  BY <1>1, <1>2, <1>3, <1>4

(* A sequence is its head and tail, its front and last.                    *)
LEMMA HeadTail ==
  ASSUME NEW S, NEW s \in Seq(S), s # <<>>
  PROVE  Head(s) \in S /\ Tail(s) \in Seq(S) /\ s = <<Head(s)>> \o Tail(s)
<1>1. Head(s) \in S /\ Tail(s) \in Seq(S) /\ Tail(s) = SubSeq(s, 2, Len(s))
  BY HeadTailProperties, TailIsSubSeq
<1>2. Len(s) \in Nat /\ Len(s) # 0 /\ s[1] = Head(s)
  BY LenProperties, EmptySeq
<1>3. 1 \in 1..Len(s) /\ Len(s) \in 1..Len(s)
  BY <1>2
<1>4. SubSeq(s, 1, Len(s)) = <<s[1]>> \o SubSeq(s, 1 + 1, Len(s))
  BY <1>3, SubSeqRecursiveFirst
<1> QED
  BY <1>1, <1>2, <1>4, SubSeqFull

(* A sequence is its front and its last element.                           *)
LEMMA FrontLast ==
  ASSUME NEW S, NEW s \in Seq(S), s # <<>>
  PROVE  Last(s) \in S /\ Front(s) \in Seq(S) /\ s = Front(s) \o <<Last(s)>>
<1>1. Len(s) \in Nat /\ Len(s) # 0 /\ \A i \in 1..Len(s) : s[i] \in S
  BY LenProperties, EmptySeq
<1>2. 1 \in 1..Len(s) /\ Len(s) \in 1..Len(s)
  BY <1>1
<1>3. SubSeq(s, 1, Len(s)) = SubSeq(s, 1, Len(s) - 1) \o <<s[Len(s)]>>
  BY <1>2, SubSeqRecursiveSecond
<1>4. Front(s) \in Seq(S)
  BY <1>1, SubSeqProperties DEF Front
<1> QED
  BY <1>1, <1>2, <1>3, <1>4, SubSeqFull DEF Front, Last

(* What was written and not read.                                          *)
Chan == InHand \o queue

(* What the reader has in hand comes before what is queued.                *)
LEMMA ChanFacts ==
  ASSUME TypeOK
  PROVE  /\ tofree \in Seq(Block) /\ queue \in Seq(Block) /\ InHand \in Seq(Block)
         /\ blk = None => InHand = tofree
         /\ blk # None => blk \in Block /\ InHand = tofree \o <<blk>>
<1>1. tofree \in Seq(Block) /\ queue \in Seq(Block) /\ blk \in Block \cup {None}
  BY TypeParts DEF Types
<1>2. CASE blk = None
  <2>1. InHand = tofree \o <<>>
    BY <1>2 DEF InHand
  <2>2. tofree \o <<>> = tofree
    BY <1>1, ConcatEmptySeq
  <2> QED
    BY <1>1, <1>2, <2>1, <2>2
<1>3. CASE blk # None
  <2>1. blk \in Block /\ InHand = tofree \o <<blk>>
    BY <1>1, <1>3 DEF InHand
  <2>2. <<blk>> \in Seq(Block)
    BY <2>1
  <2>3. tofree \o <<blk>> \in Seq(Block)
    BY <1>1, <2>2, ConcatProperties
  <2> QED
    BY <1>1, <1>3, <2>1, <2>3
<1> QED
  BY <1>2, <1>3

(* When the reader has nothing in hand after its step.                     *)
LEMMA NothingInHand ==
  ASSUME queue' \in Seq(Block), blk' = None, tofree' = <<>>
  PROVE  Chan' = queue'
<1>1. InHand' = <<>> \o <<>>
  BY DEF InHand
<1>2. <<>> \in Seq(Block)
  BY EmptySeq
<1>3. InHand' = <<>>
  BY <1>1, <1>2, ConcatEmptySeq
<1> QED
  BY <1>3, ConcatEmptySeq DEF Chan

(* What Pipe does not see.                                                 *)
Hidden == UNCHANGED <<Chan, null, todo, written>>

(* A step that moves no block.                                             *)
LEMMA Unseen ==
  ASSUME tofree' = tofree, blk' = blk, queue' = queue, null' = null, todo' = todo, written' = written
  PROVE  Hidden
BY DEF Chan, InHand, Hidden

(* A writer's step begins a message, sends its next block, gives it up, or *)
(* is not seen.                                                            *)
LEMMA WriterPipe ==
  ASSUME IInv, NEW w \in Writers,
         WriteStep(w) \/ InterruptWrite(w) \/ \E size \in WriteSizes : Write(w, size)
  PROVE  Bytes!Begin(w) \/ Bytes!Send(w) \/ Bytes!GiveUp(w) \/ Hidden
<1>1. tofree' = tofree /\ blk' = blk /\ null' = null
  BY DEF WriteStep, InterruptWrite, Write, Put, PutClosed, Flowctl, Sleep, Resume, Stputq, Mark, Wakeup, reader, ends
<1>2. todo \in [Writers -> Seq(Block)] /\ written \in [Writers -> 0..Messages]
  BY TypeParts DEF IInv, Types
<1>3. queue' = queue => Chan' = Chan
  BY <1>1 DEF Chan, InHand
<1>4. ASSUME NEW size \in WriteSizes, Write(w, size) PROVE Bytes!Begin(w)
  <2>1. written'[w] \in 1..Messages /\ written' = [written EXCEPT ![w] = @ + 1]
    BY <1>2, <1>4, StreamAssumption DEF Write
  <2>2. todo'[w] = Blocks(w, written'[w], size) /\ todo' = [todo EXCEPT ![w] = todo'[w]]
    BY <1>2, <1>4 DEF Write
  <2>3. Bytes!IsMessage(todo'[w], w, written'[w])
    BY <2>1, <2>2, BlocksFacts
  <2>4. todo[w] = <<>> /\ queue' = queue
    BY <1>4 DEF IInv, Todo, Write, Goto
  <2> QED
    BY <1>1, <1>3, <2>1, <2>2, <2>3, <2>4 DEF Bytes!Begin, Chan
<1>5. CASE PutClosed(w) \/ InterruptWrite(w)
  <2>1. todo' = [todo EXCEPT ![w] = <<>>] /\ queue' = queue /\ written' = written
    BY <1>5 DEF PutClosed, InterruptWrite, bounds
  <2> QED
    BY <1>1, <1>3, <2>1 DEF Bytes!GiveUp, Chan
<1>6. CASE Put(w) \/ Flowctl(w) \/ Sleep(w) \/ Resume(w) \/ Mark(w) \/ Wakeup(w)
  <2>1. queue' = queue /\ todo' = todo /\ written' = written
    BY <1>6 DEF Put, Flowctl, Sleep, Resume, Mark, Wakeup, bounds
  <2> QED
    BY <1>1, <2>1, Unseen
<1>7. CASE Stputq(w)
  <2>1. todo[w] \in Seq(Block) /\ todo[w] # <<>>
    BY <1>2, <1>7 DEF IInv, Stputq, Goto, Todo, ToPut
  <2>2. PICK b \in Block : b = Head(todo[w]) /\ queue' = Append(queue, b)
    BY <1>7, <2>1, HeadTailProperties DEF Stputq
  <2>3. InHand' = InHand
    BY <1>1 DEF InHand
  <2>4. PICK u, v : u = Chan /\ v = InHand \o Append(queue, b)
    OBVIOUS
  <2>5. Chan' = v
    BY <2>2, <2>3, <2>4 DEF Chan
  <2>6. v = Append(u, b)
    BY <2>4, ChanFacts, OneMore DEF Chan, IInv
  <2>7. Chan' = Append(Chan, Head(todo[w]))
    BY <2>2, <2>4, <2>5, <2>6
  <2>8. todo' = [todo EXCEPT ![w] = Tail(@)] /\ written' = written
    BY <1>7 DEF Stputq, bounds
  <2> QED
    BY <1>1, <2>1, <2>7, <2>8 DEF Bytes!Send, Chan
<1> QED
  BY <1>4, <1>5, <1>6, <1>7 DEF WriteStep

(* A read that returns takes blocks, of which only the last may end a      *)
(* message.                                                                *)
LEMMA TakesWhole ==
  ASSUME NEW s \in Seq(Block), s # <<>>, NEW t \in Seq(Block), Chan = s \o t, Chan' = t,
         null' = null, todo' = todo, written' = written,
         \A i \in 1..(Len(s) - 1) : ~s[i].delim
  PROVE  Bytes!Whole
<1>1. PICK u : u = Chan
  OBVIOUS
<1>2. /\ u \in Seq(Block) /\ Len(u) = Len(s) + Len(t) /\ Len(s) \in Nat /\ Len(t) \in Nat
      /\ \A i \in 1..Len(s) : u[i] = s[i]
      /\ SubSeq(u, Len(s) + 1, Len(u)) = t
  BY <1>1, AfterConcat
<1>3. Len(s) # 0
  BY EmptySeq
<1>4. Len(s) \in 1..Len(u) /\ \A i \in 1..(Len(s) - 1) : ~u[i].delim
  BY SMTT(60), <1>2, <1>3
<1>5. \E n \in 1..Len(u) : /\ \A i \in 1..(n - 1) : ~u[i].delim
                           /\ Chan' = SubSeq(u, n + 1, Len(u))
  BY <1>2, <1>4
<1> QED
  BY <1>1, <1>5 DEF Bytes!Whole, Chan

(* It takes part of the last of them.                                      *)
LEMMA TakesPart ==
  ASSUME NEW s \in Seq(Block), NEW b \in Block, NEW t \in Seq(Block), NEW k \in 1..(b.n - 1),
         Chan = (s \o <<b>>) \o t, Chan' = <<[b EXCEPT !.n = k]>> \o t,
         null' = null, todo' = todo, written' = written,
         \A i \in DOMAIN s : ~s[i].delim
  PROVE  Bytes!Part
<1>1. PICK u, v : u = Chan /\ v = s \o <<b>>
  OBVIOUS
<1>2. v \in Seq(Block) /\ Len(v) = Len(s) + 1 /\ v[Len(s) + 1] = b /\ \A i \in 1..Len(s) : v[i] = s[i]
  <2>1. v = Append(s, b)
    BY <1>1, AppendIsConcat
  <2> QED
    BY <2>1, AppendProperties
<1>3. /\ u \in Seq(Block) /\ Len(u) = Len(v) + Len(t) /\ Len(v) \in Nat /\ Len(t) \in Nat
      /\ \A i \in 1..Len(v) : u[i] = v[i]
      /\ SubSeq(u, Len(v) + 1, Len(u)) = t
  BY <1>1, <1>2, AfterConcat
<1>4. Len(s) \in Nat /\ DOMAIN s = 1..Len(s)
  BY LenProperties
<1>5. PICK n : n = Len(v)
  OBVIOUS
<1>6. n \in 1..Len(u) /\ u[n] = b /\ k \in 1..(u[n].n - 1) /\ \A i \in 1..(n - 1) : ~u[i].delim
  <2>1. n = Len(s) + 1 /\ n \in 1..Len(v) /\ n \in 1..Len(u)
    BY <1>2, <1>3, <1>4, <1>5
  <2>2. u[n] = b
    BY <1>2, <1>3, <2>1
  <2>3. \A i \in 1..(n - 1) : u[i] = s[i] /\ i \in DOMAIN s
    BY <1>2, <1>3, <1>4, <2>1
  <2> QED
    BY <2>1, <2>2, <2>3
<1>7. Chan' = <<[u[n] EXCEPT !.n = k]>> \o SubSeq(u, n + 1, Len(u))
  BY <1>3, <1>5, <1>6
<1> QED
  BY <1>1, <1>6, <1>7 DEF Bytes!Part, Chan

(* Reads that return take something, and the others are not seen.          *)
LEMMA ReaderPipe ==
  ASSUME IInv, IInv', NEW r \in Readers,
         ReadStep(r) \/ InterruptRead(r) \/ Close(r) \/ \E size \in ReadSizes : Read(r, size)
  PROVE  Bytes!Next \/ Hidden
<1> USE DEF locks, reader, ends
<1>0. todo' = todo /\ written' = written
  BY DEF ReadStep, InterruptRead, Close, Read, Get, GetClear, Have, HavePart, Eof, ToSleep, SleepRead,
         PutBack, Interrupted, Flush, FlushClear, bounds
<1>1. /\ Types /\ r # None
      /\ tofree \in Seq(Block) /\ queue \in Seq(Block) /\ InHand \in Seq(Block)
      /\ blk = None => InHand = tofree
      /\ blk # None => blk \in Block /\ InHand = tofree \o <<blk>>
  BY TypeParts, ChanFacts, StreamAssumption DEF IInv, Procs
<1>2. tofree' \in Seq(Block) /\ queue' \in Seq(Block)
  BY DEF IInv, TypeOK
<1>3. \A i \in DOMAIN tofree : ~tofree[i].delim
  BY DEF IInv, Hand
<1>4. Len(tofree) \in Nat /\ DOMAIN tofree = 1..Len(tofree)
  BY <1>1, LenProperties
<1>5. CASE \/ GetClear(r) \/ FlushClear(r) \/ ToSleep(r) \/ SleepRead(r) \/ InterruptRead(r)
           \/ \E size \in ReadSizes : Read(r, size)
  BY <1>5, <1>0, Unseen DEF GetClear, FlushClear, Clear, ToSleep, SleepRead, InterruptRead, Read
<1>6. CASE Get(r)
  <2>1. blk = None /\ InHand = tofree /\ tofree' = tofree /\ null' = null
    BY <1>1, <1>6 DEF IInv, Hand, Get
  <2>2. CASE queue = <<>>
    <3>1. blk' = blk /\ queue' = queue
      BY <1>6, <2>1, <2>2 DEF Get, Getq
    <3> QED
      BY <2>1, <3>1, <1>0, Unseen
  <2>3. CASE queue # <<>>
    <3>1. Head(queue) \in Block /\ Tail(queue) \in Seq(Block) /\ queue = <<Head(queue)>> \o Tail(queue)
      BY <1>1, <2>3, HeadTail
    <3>2. blk' = Head(queue) /\ queue' = Tail(queue)
      BY <1>6, <2>3 DEF Get, Getq
    <3>3. blk' # None
      BY <3>1, <3>2, StreamAssumption
    <3>4. Chan' = (tofree \o <<Head(queue)>>) \o Tail(queue)
      BY <2>1, <3>2, <3>3 DEF Chan, InHand
    <3>5. <<Head(queue)>> \in Seq(Block)
      BY <3>1
    <3>6. Chan' = tofree \o (<<Head(queue)>> \o Tail(queue))
      BY SMTT(60), <1>1, <3>1, <3>4, <3>5, ConcatAssociative
    <3> QED
      BY <1>0, <2>1, <3>1, <3>6 DEF Chan, Hidden
  <2> QED
    BY <2>2, <2>3
<1>7. CASE Have(r) \/ HavePart(r)
  <2>1. pc[r] = "have" /\ rdlock = r /\ left > 0 /\ null' = null
    BY <1>1, <1>7, TypeParts DEF IInv, Hand, Have, HavePart, RdlockIs, NoRdlock
  <2>2. blk # None /\ blk \in Block /\ InHand = tofree \o <<blk>>
    BY <1>1, <2>1 DEF IInv, Hand
  <2>3. PICK s : s = tofree \o <<blk>>
    OBVIOUS
  <2>4. s \in Seq(Block) /\ Len(s) = Len(tofree) + 1 /\ \A i \in 1..Len(tofree) : s[i] = tofree[i]
    <3>1. s = Append(tofree, blk)
      BY <1>1, <2>2, <2>3, AppendIsConcat
    <3> QED
      BY <1>1, <2>2, <3>1, AppendProperties
  <2>5. CASE HavePart(r)
    <3>1. PICK k : k = blk.n - left
      OBVIOUS
    <3>2. k \in 1..(blk.n - 1)
      <4>1. blk.n \in Nat /\ left \in Nat
        BY <1>1, <2>2, StreamAssumption DEF Block, Types
      <4> QED
        BY <2>1, <2>5, <3>1, <4>1 DEF HavePart
    <3>3. queue' = <<[blk EXCEPT !.n = k]>> \o queue /\ blk' = None /\ tofree' = <<>>
      BY <2>5, <3>1 DEF HavePart, Return, Putbq
    <3>4. Chan' = <<[blk EXCEPT !.n = k]>> \o queue
      BY <1>2, <3>3, NothingInHand
    <3> QED
      BY <1>1, <1>3, <2>1, <2>2, <3>2, <3>4, <1>0, TakesPart DEF Chan, Bytes!Next
  <2>6. CASE Have(r) /\ Return(r, "have")
    <3>1. queue' = queue /\ blk' = None /\ tofree' = <<>>
      BY <2>6 DEF Have, Return
    <3>2. Chan' = queue /\ Chan = s \o queue /\ s # <<>>
      BY <1>2, <1>4, <2>2, <2>3, <2>4, <3>1, NothingInHand, EmptySeq DEF Chan
    <3>3. \A i \in 1..(Len(s) - 1) : ~s[i].delim
      BY <1>3, <1>4, <2>4
    <3> QED
      BY <1>1, <2>1, <2>4, <3>2, <3>3, <1>0, TakesWhole DEF Bytes!Next
  <2>7. CASE Have(r) /\ ~Return(r, "have")
    <3>1. tofree' = Append(tofree, blk) /\ blk' = None /\ queue' = queue
      BY <2>7 DEF Have
    <3>2. tofree' = tofree \o <<blk>>
      BY <1>1, <2>2, <3>1, AppendIsConcat
    <3>3. InHand' = tofree' \o <<>>
      BY <3>1 DEF InHand
    <3>4. InHand' = InHand
      BY <1>2, <2>2, <3>2, <3>3, ConcatEmptySeq
    <3> QED
      BY <1>0, <2>1, <3>1, <3>4 DEF Chan, Hidden
  <2> QED
    BY <1>7, <2>5, <2>6, <2>7
<1>8. CASE Eof(r) \/ Interrupted(r)
  <2>1. blk = None /\ null' = null /\ queue' = queue
    BY <1>8 DEF IInv, Hand, Eof, Interrupted, Return, Goto
  <2>2. Chan = tofree \o queue
    BY <1>1, <2>1 DEF Chan
  <2>3. CASE tofree' = tofree /\ blk' = blk
    BY <2>1, <2>3, <1>0, Unseen
  <2>4. CASE tofree' = <<>> /\ blk' = None
    <3>1. Chan' = queue
      BY <1>2, <2>1, <2>4, NothingInHand
    <3>2. CASE tofree = <<>>
      BY <2>1, <2>4, <3>2, <1>0, Unseen
    <3>3. CASE tofree # <<>>
      <4>1. \A i \in 1..(Len(tofree) - 1) : ~tofree[i].delim
        BY <1>3, <1>4
      <4> QED
        BY <1>1, <2>1, <2>2, <3>1, <3>3, <4>1, <1>0, TakesWhole DEF Bytes!Next
    <3> QED
      BY <3>2, <3>3
  <2> QED
    BY <1>8, <2>3, <2>4 DEF Eof, Interrupted, Return
<1>9. CASE PutBack(r)
  <2>1. /\ blk = None /\ blk' = None /\ null' = null /\ tofree # <<>>
        /\ queue' = <<Last(tofree)>> \o queue /\ tofree' = Front(tofree)
    BY <1>9 DEF IInv, Hand, PutBack, Putbq
  <2>2. Last(tofree) \in Block /\ Front(tofree) \in Seq(Block) /\ tofree = Front(tofree) \o <<Last(tofree)>>
    BY <1>1, <2>1, FrontLast
  <2>3. InHand' = tofree' \o <<>>
    BY <2>1 DEF InHand
  <2>4. InHand' = Front(tofree)
    BY <2>1, <2>2, <2>3, ConcatEmptySeq
  <2>5. Chan' = Front(tofree) \o (<<Last(tofree)>> \o queue)
    BY <2>1, <2>4 DEF Chan
  <2>6. PICK f, l : f = Front(tofree) /\ l = <<Last(tofree)>>
    OBVIOUS
  <2>7. Chan' = (f \o l) \o queue
    <3>1. f \in Seq(Block) /\ l \in Seq(Block) /\ queue \in Seq(Block)
      BY <1>1, <2>2, <2>6
    <3>2. (f \o l) \o queue = f \o (l \o queue)
      BY ONLY <3>1, ConcatAssociative
    <3> QED
      BY <2>5, <2>6, <3>2
  <2> QED
    BY <1>0, <1>1, <2>1, <2>2, <2>6, <2>7 DEF Chan, Hidden
<1>10. CASE Close(r)
  <2>1. tofree' = tofree /\ blk' = blk /\ queue' = queue /\ ~null /\ null' = TRUE
    BY <1>10 DEF Close
  <2>2. Chan' = Chan
    BY <2>1 DEF Chan, InHand
  <2> QED
    BY <1>0, <2>1, <2>2 DEF Bytes!Next, Bytes!Close, Chan
<1>11. CASE Flush(r)
  <2>1. null /\ null' = null /\ tofree' = tofree /\ blk' = blk
    BY <1>11 DEF IInv, Closing, Flush
  <2>2. blk = None /\ tofree = <<>>
    BY <2>1 DEF IInv, Closing, Hand
  <2>3. Chan = queue /\ Chan' = queue'
    <3>1. InHand = <<>>
      BY <1>1, <2>2
    <3> QED
      BY <1>1, <1>2, <2>1, <2>2, <3>1, NothingInHand, ConcatEmptySeq DEF Chan
  <2>4. CASE queue = <<>>
    <3>1. queue' = queue
      BY <1>11, <2>4 DEF Flush, Getq
    <3> QED
      BY <2>1, <3>1, <1>0, Unseen
  <2>5. CASE queue # <<>>
    <3>1. queue' = Tail(queue)
      BY <1>11, <2>5 DEF Flush, Getq
    <3>2. Chan # <<>> /\ Chan' = Tail(Chan)
      BY <2>3, <2>5, <3>1
    <3> QED
      BY <1>0, <2>1, <3>2 DEF Bytes!Next, Bytes!Discard, Chan
  <2> QED
    BY <2>4, <2>5
<1> QED
  BY <1>5, <1>6, <1>7, <1>8, <1>9, <1>10, <1>11 DEF ReadStep

(* Every step is one of Pipe, or is not seen there.                        *)
LEMMA StepPipe == IInv /\ IInv' /\ [Next]_vars => Bytes!Next \/ Hidden
<1> SUFFICES ASSUME IInv, IInv', [Next]_vars PROVE Bytes!Next \/ Hidden
  OBVIOUS
<1>1. ASSUME NEW w \in Writers,
             WriteStep(w) \/ InterruptWrite(w) \/ \E size \in WriteSizes : Write(w, size)
      PROVE  Bytes!Next \/ Hidden
  BY <1>1, WriterPipe DEF Bytes!Next
<1>2. ASSUME NEW r \in Readers,
             ReadStep(r) \/ InterruptRead(r) \/ Close(r) \/ \E size \in ReadSizes : Read(r, size)
      PROVE  Bytes!Next \/ Hidden
  BY <1>2, ReaderPipe
<1>3. ASSUME NEW h \in Hangers, HangStep(h) \/ Hangup(h) PROVE Hidden
  BY <1>3, Unseen DEF HangStep, Hangup, SetHungup, WakeupHungup, reader, ends, bounds
<1>4. CASE UNCHANGED vars
  BY <1>4, Unseen DEF vars, reader, ends, bounds
<1> QED
  BY <1>1, <1>2, <1>3, <1>4 DEF Next

(* A stream is a Pipe: the blocks of a writer go in in its order, every    *)
(* block comes out where it went in, each byte once, and no read goes past *)
(* the end of a message.                                                   *)
THEOREM Implements == Spec => InOrder
<1>1. Init => Bytes!Init
  <2>1. Init => InHand = <<>> \o <<>> /\ queue = <<>> /\ null = FALSE
    BY DEF Init, InHand
  <2>2. <<>> \o <<>> = <<>>
    BY EmptySeq, ConcatEmptySeq
  <2> QED
    BY <2>1, <2>2 DEF Bytes!Init, Init
<1>2. IInv /\ IInv' /\ [Next]_vars => [Bytes!Next]_Bytes!vars
  BY StepPipe DEF Bytes!vars, Chan, Hidden
<1> QED
  BY Inductive, <1>1, <1>2, PTL DEF Spec, InOrder, Bytes!Spec
=============================================================================
