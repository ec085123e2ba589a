--------------------------------- MODULE Stream ---------------------------------
(***************************************************************************)
(* One direction of a pipe made of two streams joined device end to device *)
(* end (port/stream.c, port/devpipe.c): a write goes down the writer's     *)
(* stream, and up the reader's to the queue q at its process end.  Flow    *)
(* control waits at the device end of the reader's stream.                 *)
(*                                                                         *)
(* q->flag is one word, read and written back by whoever sets or clears a  *)
(* bit of it: q's lock keeps these apart, but a hangup does not take it.   *)
(***************************************************************************)
EXTENDS Integers, Sequences, SequencesExt

CONSTANTS Writers, Readers, Hangers,
          Streamhi, Streambhi,      \* high water marks: bytes and blocks
          WriteSizes, ReadSizes,    \* what write and read are asked for
          Messages, Interrupts, Hangups,   \* bounds on what users do
          None

Procs == Writers \cup Readers \cup Hangers
Block == [by : Writers, msg : 1..Messages, part : Nat, n : 0..Streamhi, delim : BOOLEAN]

ASSUME StreamAssumption ==
    /\ Streamhi \in Nat \ {0} /\ Streambhi \in Nat \ {0}
    /\ WriteSizes \subseteq Nat /\ ReadSizes \subseteq Nat \ {0}
    /\ Messages \in Nat /\ Interrupts \in Nat /\ Hangups \in Nat
    /\ None \notin Procs \cup Block
    /\ Writers \cap Readers = {} /\ Hangers \cap (Writers \cup Readers) = {}

VARIABLES pc,
          todo,      \* of each writer: the blocks of its message not yet put
          queue,     \* the blocks of q, first to last
          flag,      \* its QHIWAT and QHUNGUP
          seen,      \* of each process: the flag it read, to write it back
          lock, rlock, rdlock,      \* holders of q's lock, of the lock on waiting
                                    \* at the device end, of the reader's s->rdlock
          blk, tofree, left, \* the reader's block, blocks read whole, room in its buffer
          hread,     \* reads since the hangup
          null,      \* the reader's end is closed: its device end puts to nullput
          whung,     \* QHUNGUP at the writer's end
          written, notes, hups      \* bounds: messages, interrupts, hangups so far

locks  == <<lock, rlock, rdlock>>
reader == <<blk, tofree, left, hread>>
ends   == <<null, whung>>
bounds == <<written, notes, hups>>
vars   == <<pc, todo, queue, flag, seen, locks, reader, ends, bounds>>

Bits == {"QHIWAT", "QHUNGUP"}

(* Types, and who holds which lock.                                        *)
TypeOK ==
    /\ pc \in [Procs -> {"idle", "put", "qlock", "sleep", "asleep", "woken", "stputq", "mark",
                         "wakeup", "get", "clear", "have", "empty", "putback", "flush",
                         "flushed", "store"}]
    /\ todo \in [Writers -> Seq(Block)] /\ queue \in Seq(Block)
    /\ flag \subseteq Bits /\ seen \in [Procs -> SUBSET Bits]
    /\ lock \in Procs \cup {None} /\ rlock \in Writers \cup {None} /\ rdlock \in Readers \cup {None}
    /\ \A p \in Procs : lock = p <=> pc[p] \in {"mark", "clear", "flushed"}
    /\ \A w \in Writers : rlock = w <=> pc[w] \in {"sleep", "asleep", "woken"}
    /\ \A r \in Readers : rdlock = r <=> pc[r] \notin {"idle", "flush", "flushed"}
    /\ blk \in Block \cup {None} /\ tofree \in Seq(Block)
    /\ left \in Nat /\ hread \in 0..3 /\ null \in BOOLEAN /\ whung \in BOOLEAN
    /\ written \in [Writers -> 0..Messages] /\ notes \in 0..Interrupts /\ hups \in 0..Hangups

Init == /\ pc = [p \in Procs |-> "idle"] /\ todo = [w \in Writers |-> <<>>]
        /\ queue = <<>> /\ flag = {} /\ seen = [p \in Procs |-> {}]
        /\ lock = None /\ rlock = None /\ rdlock = None
        /\ blk = None /\ tofree = <<>> /\ left = 0 /\ hread = 0
        /\ null = FALSE /\ whung = FALSE
        /\ written = [w \in Writers |-> 0] /\ notes = 0 /\ hups = 0
-----------------------------------------------------------------------------
Goto(p, from, to) == pc[p] = from /\ pc' = [pc EXCEPT ![p] = to]

Qlen(q)     == FoldLeft(LAMBDA n, b : n + b.n, 0, q)
Past(q)     == Qlen(q) >= Streamhi \/ Len(q) >= Streambhi
LessHalf(q) == Qlen(q) < Streamhi \div 2 /\ Len(q) < Streambhi \div 2

(* A message is a series of blocks, the last of which is delimited.        *)
Blocks(w, m, size) ==
    LET n == IF size = 0 THEN 1 ELSE (size + Streamhi - 1) \div Streamhi IN
    [i \in 1..n |-> [by |-> w, msg |-> m, part |-> i, delim |-> i = n,
                     n |-> IF i = n THEN size - (n - 1) * Streamhi ELSE Streamhi]]

(* p is done with s, goes from `from' to `to', and who sleeps for it runs. *)
Waking(S, p, from, to, woken) ==
    /\ pc[p] = from
    /\ pc' = [x \in Procs |-> IF x = p THEN to
                              ELSE IF x \in S /\ pc[x] = "asleep" THEN woken ELSE pc[x]]

(* Where a writer goes when a block is on the queue.                       *)
More(w) == IF todo[w] = <<>> THEN "idle" ELSE "put"

(* streamwrite, unless the stream is hung up.                              *)
Write(w, size) ==
    /\ Goto(w, "idle", "put") /\ ~whung /\ written[w] < Messages
    /\ written' = [written EXCEPT ![w] = @ + 1]
    /\ todo' = [todo EXCEPT ![w] = Blocks(w, written'[w], size)]
    /\ UNCHANGED <<queue, flag, seen, locks, reader, ends, notes, hups>>

(* pipeoput, pipeiput: to the queue if it is not full.                     *)
Put(w) == /\ ~null /\ Goto(w, "put", IF "QHIWAT" \in flag THEN "qlock" ELSE "stputq")
          /\ UNCHANGED <<todo, queue, flag, seen, locks, reader, ends, bounds>>

(* nullput: the writer gets a note and an error.                           *)
PutClosed(w) == /\ null /\ Goto(w, "put", "idle")
                /\ todo' = [todo EXCEPT ![w] = <<>>]
                /\ UNCHANGED <<queue, flag, seen, locks, reader, ends, bounds>>

(* flowctl.                                                                *)
Flowctl(w) == /\ Goto(w, "qlock", "sleep") /\ rlock = None /\ rlock' = w
              /\ UNCHANGED <<todo, queue, flag, seen, lock, rdlock, reader, ends, bounds>>

Sleep(w) == /\ Goto(w, "sleep", IF "QHIWAT" \in flag THEN "asleep" ELSE "woken")
            /\ UNCHANGED <<todo, queue, flag, seen, locks, reader, ends, bounds>>

(* It looks no more whether there is room.                                 *)
Resume(w) == /\ Goto(w, "woken", "stputq") /\ rlock' = None
             /\ UNCHANGED <<todo, queue, flag, seen, lock, rdlock, reader, ends, bounds>>

(* A note: the rest of the message is never written.                       *)
InterruptWrite(w) ==
    /\ Goto(w, "asleep", "idle") /\ notes < Interrupts /\ notes' = notes + 1
    /\ rlock' = None /\ todo' = [todo EXCEPT ![w] = <<>>]
    /\ UNCHANGED <<queue, flag, seen, lock, rdlock, reader, ends, written, hups>>

(* Mutant: a reader that waits for the end of a message is not bothered.   *)
AwakenDelim(b, over) == b.delim

Awaken(b, over) == b.delim \/ over

(* stputq, with q locked; past the high water mark the flag is read ...    *)
Stputq(w) == LET b == Head(todo[w])  full == Append(queue, b) IN
    /\ pc[w] = "stputq" /\ lock = None
    /\ queue' = full /\ todo' = [todo EXCEPT ![w] = Tail(@)]
    /\ \/ /\ Past(full) /\ Goto(w, "stputq", "mark")
          /\ lock' = w /\ seen' = [seen EXCEPT ![w] = flag]
       \/ /\ ~Past(full) /\ UNCHANGED <<lock, seen>>
          /\ Goto(w, "stputq", IF Awaken(b, FALSE) THEN "wakeup" ELSE "put")
    /\ UNCHANGED <<flag, rlock, rdlock, reader, ends, bounds>>

(* ... and written.                                                        *)
Mark(w) == LET b == Last(queue) IN
    /\ Goto(w, "mark", IF Awaken(b, TRUE) THEN "wakeup" ELSE More(w))
    /\ flag' = seen[w] \cup {"QHIWAT"} /\ seen' = [seen EXCEPT ![w] = {}]
    /\ lock' = None
    /\ UNCHANGED <<todo, queue, rlock, rdlock, reader, ends, bounds>>

Wakeup(w) == /\ Waking(Readers, w, "wakeup", More(w), "get")
             /\ UNCHANGED <<todo, queue, flag, seen, locks, reader, ends, bounds>>
-----------------------------------------------------------------------------
(* streamread, one reader at a time.                                       *)
Read(r, size) ==
    /\ Goto(r, "idle", "get") /\ rdlock = None /\ ~null /\ rdlock' = r
    /\ left' = size
    /\ UNCHANGED <<todo, queue, flag, seen, lock, rlock, blk, tofree, hread, ends, bounds>>

(* getq, on the way from `from'.  Once less than half full, it wakes the   *)
(* writer, and has read the flag to clear its bit after that.              *)
Getq(r, from, none, low, some) ==
    /\ lock = None
    /\ \/ queue = <<>> /\ Goto(r, from, none) /\ UNCHANGED <<queue, lock, seen>>
       \/ /\ queue # <<>> /\ queue' = Tail(queue)
          /\ \/ /\ "QHIWAT" \in flag /\ LessHalf(queue')
                /\ Waking(Writers, r, from, low, "woken")
                /\ lock' = r /\ seen' = [seen EXCEPT ![r] = flag]
             \/ /\ ~("QHIWAT" \in flag /\ LessHalf(queue'))
                /\ Goto(r, from, some) /\ UNCHANGED <<lock, seen>>

Clear(r, from, to) == /\ Goto(r, from, to)
                      /\ flag' = seen[r] \ {"QHIWAT"} /\ seen' = [seen EXCEPT ![r] = {}]
                      /\ lock' = None

Get(r) == /\ pc[r] = "get" /\ Getq(r, "get", "empty", "clear", "have")
          /\ blk' = IF queue = <<>> THEN None ELSE Head(queue)
          /\ UNCHANGED <<todo, flag, rlock, rdlock, tofree, left, hread, ends, bounds>>

GetClear(r) == /\ Clear(r, "clear", "have")
               /\ UNCHANGED <<todo, queue, rlock, rdlock, reader, ends, bounds>>

(* The read returns.                                                       *)
Return(r, from) == /\ Goto(r, from, "idle") /\ rdlock' = None
                   /\ blk' = None /\ tofree' = <<>> /\ left' = 0

(* All of the block fits.                                                  *)
Have(r) == /\ pc[r] = "have" /\ blk.n <= left
           /\ \/ (blk.delim \/ blk.n = left) /\ Return(r, "have")
              \/ /\ ~blk.delim /\ blk.n < left /\ Goto(r, "have", "get")
                 /\ tofree' = Append(tofree, blk) /\ left' = left - blk.n /\ blk' = None
                 /\ UNCHANGED rdlock
           /\ UNCHANGED <<todo, queue, flag, seen, lock, rlock, hread, ends, bounds>>

(* Mutant: the last block read goes behind the first in the queue.         *)
PutbqSecond(q, b) == IF q = <<>> THEN <<b>> ELSE <<Head(q), b>> \o Tail(q)

Putbq(q, b) == <<b>> \o q

(* The rest of it goes back.                                               *)
HavePart(r) == /\ pc[r] = "have" /\ blk.n > left /\ lock = None
               /\ queue' = Putbq(queue, [blk EXCEPT !.n = @ - left])
               /\ Return(r, "have")
               /\ UNCHANGED <<todo, flag, seen, lock, rlock, hread, ends, bounds>>

(* Nothing there, and hung up: what it has is the end of the file, three   *)
(* times; then that is an error, and what it has goes back.                *)
Eof(r) == /\ pc[r] = "empty" /\ "QHUNGUP" \in flag
          /\ \/ hread < 3 /\ hread' = hread + 1 /\ Return(r, "empty")
             \/ hread = 3 /\ Goto(r, "empty", "putback") /\ UNCHANGED <<hread, rdlock, blk, tofree, left>>
          /\ UNCHANGED <<todo, queue, flag, seen, lock, rlock, ends, bounds>>

ToSleep(r) == /\ Goto(r, "empty", "sleep") /\ "QHUNGUP" \notin flag
              /\ UNCHANGED <<todo, queue, flag, seen, locks, reader, ends, bounds>>

(* Mutant: it looked already.                                              *)
IsinputNot == FALSE

Isinput == "QHUNGUP" \in flag \/ queue # <<>>

SleepRead(r) == /\ r \in Readers /\ Goto(r, "sleep", IF Isinput THEN "get" ELSE "asleep")
                /\ UNCHANGED <<todo, queue, flag, seen, locks, reader, ends, bounds>>

(* A note.                                                                 *)
InterruptRead(r) == /\ Goto(r, "asleep", "putback") /\ notes < Interrupts /\ notes' = notes + 1
                    /\ UNCHANGED <<todo, queue, flag, seen, locks, reader, ends, written, hups>>

(* What was read of the message goes back, block by block.                 *)
PutBack(r) == /\ pc[r] = "putback" /\ tofree # <<>> /\ lock = None
              /\ queue' = Putbq(queue, Last(tofree)) /\ tofree' = Front(tofree)
              /\ UNCHANGED <<pc, todo, flag, seen, locks, blk, left, hread, ends, bounds>>

(* Mutant: and the next reader waits for ever.                             *)
InterruptedLocked(r) ==
    /\ tofree = <<>> /\ Goto(r, "putback", "idle") /\ left' = 0
    /\ UNCHANGED <<todo, queue, flag, seen, locks, blk, tofree, hread, ends, bounds>>

Interrupted(r) == /\ tofree = <<>> /\ Return(r, "putback")
                  /\ UNCHANGED <<todo, queue, flag, seen, lock, rlock, hread, ends, bounds>>
-----------------------------------------------------------------------------
(* The writer's end is closed, or the reader's control file written to:    *)
(* a hangup comes up, round flow control.  It reads the flag ...           *)
Hangup(h) == /\ Goto(h, "idle", "store") /\ ~null
             /\ hups < Hangups /\ hups' = hups + 1
             /\ seen' = [seen EXCEPT ![h] = flag]
             /\ UNCHANGED <<todo, queue, flag, locks, reader, ends, written, notes>>

(* ... writes it ...                                                       *)
SetHungup(h) == /\ Goto(h, "store", "wakeup")
                /\ flag' = seen[h] \cup {"QHUNGUP"} /\ seen' = [seen EXCEPT ![h] = {}]
                /\ UNCHANGED <<todo, queue, locks, reader, ends, bounds>>

(* ... and wakes the reader.                                               *)
WakeupHungup(h) == /\ Waking(Readers, h, "wakeup", "idle", "get")
                   /\ UNCHANGED <<todo, queue, flag, seen, locks, reader, ends, bounds>>

(* The last close of the reader's end, by r: streamclose1, pipestclose.    *)
Close(r) == /\ ~null /\ \A x \in Readers : pc[x] = "idle"
            /\ Waking(Writers, r, "idle", "flush", "woken")
            /\ null' = TRUE /\ whung' = TRUE
            /\ UNCHANGED <<todo, queue, flag, seen, locks, reader, bounds>>

(* flushq.                                                                 *)
Flush(r) == /\ pc[r] = "flush" /\ Getq(r, "flush", "idle", "flushed", "flush")
            /\ UNCHANGED <<todo, flag, rlock, rdlock, reader, ends, bounds>>

FlushClear(r) == /\ Clear(r, "flushed", "flush")
                 /\ UNCHANGED <<todo, queue, rlock, rdlock, reader, ends, bounds>>

WriteStep(w) == \/ Put(w) \/ PutClosed(w) \/ Flowctl(w) \/ Sleep(w) \/ Resume(w)
                \/ Stputq(w) \/ Mark(w) \/ Wakeup(w)
ReadStep(r)  == \/ Get(r) \/ GetClear(r) \/ Have(r) \/ HavePart(r) \/ Eof(r) \/ ToSleep(r)
                \/ SleepRead(r) \/ PutBack(r) \/ Interrupted(r) \/ Flush(r) \/ FlushClear(r)
HangStep(h)  == SetHungup(h) \/ WakeupHungup(h)

Next == \/ \E w \in Writers : \/ WriteStep(w) \/ InterruptWrite(w)
                              \/ \E size \in WriteSizes : Write(w, size)
        \/ \E r \in Readers : \/ ReadStep(r) \/ InterruptRead(r) \/ Close(r)
                              \/ \E size \in ReadSizes : Read(r, size)
        \/ \E h \in Hangers : HangStep(h) \/ Hangup(h)

Spec == Init /\ [][Next]_vars

(* A process that is not waiting runs; no one has to read, write or close. *)
FairSpec == /\ Spec
            /\ \A w \in Writers : WF_vars(WriteStep(w))
            /\ \A r \in Readers : WF_vars(ReadStep(r))
            /\ \A h \in Hangers : WF_vars(HangStep(h))
-----------------------------------------------------------------------------
(* Whatever the writers, readers and hangups do, and whatever is put back, *)
(* the blocks of each writer go into the queue in the order it wrote them, *)
(* every block comes out where it went in, each byte once, and no read     *)
(* goes past the end of a message (stream.c:506, 523, 1024-1055,           *)
(* 1210-1232).  It says nothing of where the blocks of others come in: see *)
(* Contiguous and OneWrite.                                                *)
InHand == tofree \o (IF blk = None THEN <<>> ELSE <<blk>>)
Bytes  == INSTANCE Pipe WITH chan <- InHand \o queue, closed <- null,
                             rest <- todo, count <- written
InOrder == Bytes!Spec

(* A reader never sleeps on the end of a message, on a queue past the high *)
(* water mark or on a hangup, unless someone is about to wake it           *)
(* (stream.c:905-943, 978, 1036).                                          *)
ReaderWoken ==
    (\E r \in Readers : pc[r] = "asleep")
    /\ ((\E i \in DOMAIN queue : queue[i].delim) \/ Past(queue) \/ "QHUNGUP" \in flag)
        => \E p \in Writers \cup Hangers : pc[p] \in {"mark", "wakeup"}

(* A read that could have a whole message returns (stream.c:1024-1065).    *)
ReadReturns == \A r \in Readers :
    (rdlock = r /\ \E i \in DOMAIN queue : queue[i].delim) ~> rdlock # r

(* "The writer will resume once the stream is less than half full"         *)
(* (man/3/pipe).  It may not: stream.c:536 wakes it before it clears       *)
(* QHIWAT, and notfull (1152) may look in between.                         *)
WriterResumes == \A w \in Writers :
    (pc[w] = "asleep" /\ LessHalf(queue) /\ ~null) ~> pc[w] # "asleep"

SameMessage(b, c) == b.by = c.by /\ b.msg = c.msg

(* "each write is guaranteed to be available in a contiguous piece at the  *)
(* other end of the pipe" (man/3/pipe:41-44).  It may not: streamwrite     *)
(* (1214-1232) puts the blocks of a write one by one and holds no lock.    *)
Contiguous == LET chan == InHand \o queue IN
    \A i, j, k \in DOMAIN chan :
        i < j /\ j < k /\ SameMessage(chan[i], chan[k]) => SameMessage(chan[i], chan[j])

(* "each read will return data from only one write" (man/3/pipe:45-46).    *)
(* It may not: streamread (1038-1054) goes on until a delimiter, whoever   *)
(* wrote the blocks before it.                                             *)
OneWrite == \A i, j \in DOMAIN InHand : SameMessage(InHand[i], InHand[j])
=============================================================================
