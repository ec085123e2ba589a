------------------------------- MODULE MntRpc -------------------------------
(***************************************************************************)
(* The mount driver's remote procedure calls (port/devmnt.c).              *)
(*                                                                         *)
(* Processes share one channel to a 9P server.  Each writes its request    *)
(* itself; one of them at a time, the reader in progress (rip), reads the  *)
(* replies, hands each to the request of the same tag, and when its own    *)
(* has come passes the gate to another.  A process interrupted by a note   *)
(* does not leave: it sends a Tflush and goes on waiting for the reply to  *)
(* the request or to the flush, whichever comes first.  Mntrpc structures, *)
(* each with the tag it was born with, are used again, by any process on   *)
(* any mount point.                                                        *)
(*                                                                         *)
(* A step is one section under lock(m) or lock(&mntalloc), one write or    *)
(* read of the channel, or one access to a Mntrpc outside the locks.  The  *)
(* server and the channel are external.  Not here: a channel whose device  *)
(* does the multiplexing (m->mux), attaching and the last close.           *)
(***************************************************************************)
EXTENDS Integers, Sequences, SequencesExt, FiniteSets

CONSTANTS Procs,      \* the processes that use the mounted files
          Mounts,     \* the mount points, each a channel to a server
          Notes,      \* bound: how many notes are posted
          Mortal,     \* the mount points whose channel may hang up
          Tagfls, Tagend,   \* the flush tags are Tagfls .. Tagend-1
          None

ASSUME RpcAssumption == /\ IsFiniteSet(Procs)
                        /\ None \notin Procs \cup 1..Cardinality(Procs)
                        /\ Notes \in Nat
                        /\ Mortal \subseteq Mounts
                        /\ Tagfls \in Nat /\ Tagend \in Nat /\ Tagend > Tagfls
                        /\ Cardinality(Procs) < Tagfls

VARIABLES pc,         \* where a process is in mountio
          cont,       \* where it goes on after mntflush or mntgate
          mine, on,   \* the Mntrpc it uses and the mount point it uses it on
          other,      \* the Mntrpc it is completing for someone else
          notepending,
          noted       \* how many notes were posted
VARIABLES done, flushed, flushtag, reply,            \* of each Mntrpc
          free, rpctag                               \* mntalloc.rpcfree, .rpctag
VARIABLES queue, rip, nextflush,                     \* of each Mnt
          server, wire, hung                         \* of its channel

site  == <<mine, on>>
notes == <<notepending, noted>>
local == <<cont, notes, site, other>>
rpcs  == <<done, flushed, flushtag, reply, free, rpctag>>
mnts  == <<queue, rip, nextflush>>
chans == <<server, wire, hung>>
vars  == <<pc, local, rpcs, mnts, chans>>

(* There are never more Mntrpcs than processes.                            *)
Rpcs == 1..Cardinality(Procs)

(* Whose call a message is about, which no message says: None once that    *)
(* call is over.                                                           *)
CallIds == Procs \cup {None}
FlushTags == {0} \cup Tagfls..(Tagend - 1)

Requests == [kind : {"T", "Tflush"}, tag : Rpcs \cup FlushTags, oldtag : Rpcs \cup {0}, call : CallIds]
Replies  == [kind : {"R", "Rflush", "none"}, tag : Rpcs \cup FlushTags, call : CallIds]
Poison   == [kind |-> "none", tag |-> 0, call |-> None]

Places == {"idle", "send", "gate", "sleep", "asleep", "woken", "read", "mux",
           "copy", "finish", "wake", "flush", "flushwrite", "qrm", "passgate",
           "wakenext", "return", "fail"}

TypeOK == /\ pc \in [Procs -> Places]
          /\ cont \in [Procs -> {"send", "gate", "read", "return", "fail"}]
          /\ mine \in [Procs -> Rpcs \cup {None}] /\ on \in [Procs -> Mounts \cup {None}]
          /\ other \in [Procs -> Rpcs \cup {None}]
          /\ notepending \in [Procs -> BOOLEAN] /\ noted \in 0..Notes
          /\ done \in [Rpcs -> BOOLEAN] /\ flushed \in [Rpcs -> BOOLEAN]
          /\ flushtag \in [Rpcs -> FlushTags]
          /\ reply \in [Rpcs -> Replies]
          /\ free \in Seq(Rpcs) /\ rpctag \in 1..(Cardinality(Procs) + 1)
          /\ queue \in [Mounts -> Seq(Rpcs)] /\ rip \in [Mounts -> Procs \cup {None}]
          /\ nextflush \in [Mounts -> FlushTags \ {0}]
          /\ server \in [Mounts -> SUBSET Requests] /\ wire \in [Mounts -> Seq(Replies)]
          /\ hung \in [Mounts -> BOOLEAN]

Init == /\ pc = [p \in Procs |-> "idle"] /\ cont = [p \in Procs |-> "send"]
        /\ mine = [p \in Procs |-> None] /\ on = [p \in Procs |-> None]
        /\ other = [p \in Procs |-> None]
        /\ notepending = [p \in Procs |-> FALSE] /\ noted = 0
        /\ done = [r \in Rpcs |-> FALSE] /\ flushed = [r \in Rpcs |-> FALSE]
        /\ flushtag = [r \in Rpcs |-> 0]
        /\ reply = [r \in Rpcs |-> Poison]
        /\ free = <<>> /\ rpctag = 1
        /\ queue = [m \in Mounts |-> <<>>] /\ rip = [m \in Mounts |-> None]
        /\ nextflush = [m \in Mounts |-> Tagfls]
        /\ server = [m \in Mounts |-> {}] /\ wire = [m \in Mounts |-> <<>>]
        /\ hung = [m \in Mounts |-> FALSE]

Goto(p, from, to) == pc[p] = from /\ pc' = [pc EXCEPT ![p] = to]

(* The process asleep at r's Rendez, if any, wakes up as p goes on.        *)
Wakeup(p, r, from, to) ==
    /\ pc[p] = from
    /\ pc' = [q \in Procs |-> IF q = p THEN to
                              ELSE IF pc[q] = "asleep" /\ mine[q] = r THEN "woken"
                              ELSE pc[q]]

(* A blocked read, write or sleep gives up because of a note.              *)
Interrupted(p) == /\ notepending[p]
                  /\ notepending' = [notepending EXCEPT ![p] = FALSE]

(* error() lands in the waserror that calls mntflush.                      *)
Flush(p, from) == /\ Goto(p, from, "flush")
                  /\ cont' = [cont EXCEPT ![p] = from]
-----------------------------------------------------------------------------
(* A call starts: mntralloc, mountrpc's poison, and into m's queue.        *)
Enqueue(p, m, r) ==
    /\ Goto(p, "idle", "send")
    /\ IF free # <<>> THEN r = Head(free) /\ free' = Tail(free) /\ UNCHANGED rpctag
                      ELSE r = rpctag /\ rpctag' = rpctag + 1 /\ UNCHANGED free
    /\ mine' = [mine EXCEPT ![p] = r] /\ on' = [on EXCEPT ![p] = m]
    /\ reply' = [reply EXCEPT ![r] = Poison]
    /\ queue' = [queue EXCEPT ![m] = <<r>> \o @]
    /\ UNCHANGED <<cont, other, notes, flushtag, rip, nextflush, chans>>

(* Mutant: the old state of the Mntrpc is left in it.                      *)
CallUnreset(p, m, r) == Enqueue(p, m, r) /\ UNCHANGED <<done, flushed>>

Call(p, m, r) == /\ Enqueue(p, m, r)
                 /\ done' = [done EXCEPT ![r] = FALSE]
                 /\ flushed' = [flushed EXCEPT ![r] = FALSE]

(* What p sends reaches the server, unless the channel is hung up.         *)
Sent(p, msg) == /\ ~hung[on[p]]
                /\ server' = [server EXCEPT ![on[p]] = @ \cup {msg}]
                /\ UNCHANGED <<wire, hung>>

Send(p) == LET r == mine[p] IN
    /\ Goto(p, "send", "gate")
    /\ Sent(p, [kind |-> "T", tag |-> r, oldtag |-> 0, call |-> p])
    /\ UNCHANGED <<local, rpcs, mnts>>

(* A write waiting for room is interrupted, or finds the channel hung up.  *)
SendFails(p) == /\ Flush(p, "send")
                /\ \/ Interrupted(p)
                   \/ hung[on[p]] /\ UNCHANGED notepending
                /\ UNCHANGED <<noted, site, other, rpcs, mnts, chans>>

(* Mutant: nobody looks at rip.                                            *)
GateOpen(p) == /\ Goto(p, "gate", "read")
               /\ rip' = [rip EXCEPT ![on[p]] = p]
               /\ UNCHANGED <<local, rpcs, queue, nextflush, chans>>

(* The gate: be the reader if there is none, or sleep.                     *)
Gate(p) == /\ Goto(p, "gate", IF rip[on[p]] = None THEN "read" ELSE "sleep")
           /\ rip' = IF rip[on[p]] = None THEN [rip EXCEPT ![on[p]] = p] ELSE rip
           /\ UNCHANGED <<local, rpcs, queue, nextflush, chans>>

(* The condition of the sleep at the gate.                                 *)
rpcattn(p) == done[mine[p]] \/ rip[on[p]] = None

(* sleep1, under lock(&r->r): r->r.p is p from here to its wakeup.         *)
Sleep(p) == /\ Goto(p, "sleep", IF rpcattn(p) THEN "woken" ELSE "asleep")
            /\ UNCHANGED <<local, rpcs, mnts, chans>>

(* A note is there already, or postnote takes p out of its sleep.          *)
Disturb(p) == /\ notepending[p]
              /\ Goto(p, "asleep", "woken")
              /\ UNCHANGED <<local, rpcs, mnts, chans>>

(* sleep is over: with the reply, to try the gate again, or with Eintr.    *)
Wake(p) == /\ ~notepending[p]
           /\ Goto(p, "woken", IF done[mine[p]] THEN "return" ELSE "gate")
           /\ UNCHANGED <<local, rpcs, mnts, chans>>

WakeNoted(p) == /\ Interrupted(p)
                /\ Goto(p, "woken", "flush")
                /\ cont' = [cont EXCEPT ![p] = "gate"]
                /\ UNCHANGED <<noted, site, other, rpcs, mnts, chans>>
-----------------------------------------------------------------------------
(* The reader in progress reads a message, until its own has come.         *)
Read(p) == LET m == on[p] IN
    /\ Goto(p, "read", "mux") /\ ~done[mine[p]]
    /\ wire[m] # <<>>
    /\ reply' = [reply EXCEPT ![mine[p]] = Head(wire[m])]
    /\ wire' = [wire EXCEPT ![m] = Tail(@)]
    /\ UNCHANGED <<local, done, flushed, flushtag, free, rpctag,
                   mnts, server, hung>>

(* The read is interrupted, or finds the channel empty and hung up.        *)
ReadFails(p) == /\ Flush(p, "read") /\ ~done[mine[p]]
                /\ wire[on[p]] = <<>>
                /\ \/ Interrupted(p)
                   \/ hung[on[p]] /\ UNCHANGED notepending
                /\ UNCHANGED <<noted, site, other, rpcs, mnts, chans>>

ReadDone(p) == /\ Goto(p, "read", "passgate") /\ done[mine[p]]
               /\ cont' = [cont EXCEPT ![p] = "return"]
               /\ UNCHANGED <<notes, site, other, rpcs, mnts, chans>>

(* Mutant: the reply to the flush is nobody's.                             *)
MatchesRequest(q, tag) == q = tag

(* mountmux: whose message is it?  The newest request that asked for it.   *)
Matches(q, tag) == q = tag \/ (flushed[q] /\ flushtag[q] = tag)
Asker(m, tag) == LET hit == SelectInSeq(queue[m], LAMBDA q : Matches(q, tag))
                 IN IF hit = 0 THEN None ELSE queue[m][hit]

(* Under lock(m).  noone: no request asked for it.                         *)
Found(p, q) == /\ Goto(p, "mux", IF q \in {None, mine[p]} THEN "read" ELSE "copy")
               /\ done' = IF q = mine[p] THEN [done EXCEPT ![q] = TRUE] ELSE done
               /\ other' = IF q \in {None, mine[p]} THEN other ELSE [other EXCEPT ![p] = q]
               /\ UNCHANGED <<cont, notes, site, flushed, flushtag, reply, free, rpctag,
                              rip, nextflush, chans>>

(* Mutant: the request stays in the queue.                                 *)
MuxKept(p) == /\ pc[p] = "mux" /\ Found(p, Asker(on[p], reply[mine[p]].tag))
              /\ UNCHANGED queue

Mux(p) == /\ pc[p] = "mux"
          /\ LET q == Asker(on[p], reply[mine[p]].tag) IN
                 /\ Found(p, q)
                 /\ queue' = [queue EXCEPT ![on[p]] = RemoveFirst(@, q)]

(* Completed someone else, outside the lock: first the reply ...           *)
Copy(p) == /\ Goto(p, "copy", "finish")
           /\ reply' = [reply EXCEPT ![other[p]] = reply[mine[p]]]
           /\ UNCHANGED <<local, done, flushed, flushtag, free, rpctag,
                          mnts, chans>>

(* ... then done ...                                                       *)
Finish(p) == /\ Goto(p, "finish", "wake")
             /\ done' = [done EXCEPT ![other[p]] = TRUE]
             /\ UNCHANGED <<local, flushed, flushtag, reply, free, rpctag, mnts, chans>>

(* ... then wakeup(&q->r), whoever sleeps there by now.                    *)
WakeOther(p) == /\ Wakeup(p, other[p], "wake", "read")
                /\ other' = [other EXCEPT ![p] = None]
                /\ UNCHANGED <<cont, notes, site, rpcs, mnts, chans>>
-----------------------------------------------------------------------------
(* mntgate: no reader, and the newest undone request asleep is to be next. *)
Heir(m) == LET Waits(q) == ~done[q] /\ \E p \in Procs : pc[p] = "asleep" /\ mine[p] = q
                hit == SelectInSeq(queue[m], Waits)
            IN IF hit = 0 THEN None ELSE queue[m][hit]

Opened(p, q) == /\ Goto(p, "passgate", IF q = None THEN cont[p] ELSE "wakenext")
                /\ rip' = [rip EXCEPT ![on[p]] = None]
                /\ other' = [other EXCEPT ![p] = q]
                /\ UNCHANGED <<cont, notes, site, rpcs, queue, nextflush, chans>>

(* Mutant: nobody is woken.                                                *)
PassGateQuietly(p) == pc[p] = "passgate" /\ Opened(p, None)

PassGate(p) == pc[p] = "passgate" /\ Opened(p, Heir(on[p]))

WakeNext(p) == /\ Wakeup(p, other[p], "wakenext", cont[p])
               /\ other' = [other EXCEPT ![p] = None]
               /\ UNCHANGED <<cont, notes, site, rpcs, mnts, chans>>
-----------------------------------------------------------------------------
(* Mutant: the flush tags do not wrap at Tagend.                           *)
TagOn(tag) == tag + 1

TagAfter(tag) == IF tag + 1 = Tagend THEN Tagfls ELSE tag + 1

(* mntflush, under lock(m): a tag for the flush.                           *)
FlushTag(p) == LET m == on[p]  r == mine[p] IN
    /\ Goto(p, "flush", "flushwrite")
    /\ flushtag' = [flushtag EXCEPT ![r] = nextflush[m]]
    /\ flushed' = [flushed EXCEPT ![r] = TRUE]
    /\ nextflush' = [nextflush EXCEPT ![m] = TagAfter(@)]
    /\ UNCHANGED <<local, done, reply, free, rpctag, queue, rip, chans>>

(* Where mountio goes on when mntflush returned 1.                         *)
Resumed(p) == IF cont[p] = "send" THEN "gate" ELSE cont[p]

(* Mutant: the flush goes under the tag of what it flushes.                *)
TflushTag(p) == [kind |-> "Tflush", tag |-> mine[p], oldtag |-> mine[p], call |-> p]

Tflush(p) == [kind |-> "Tflush", tag |-> flushtag[mine[p]], oldtag |-> mine[p], call |-> p]

FlushSend(p) == /\ Goto(p, "flushwrite", Resumed(p))
                /\ Sent(p, Tflush(p))
                /\ UNCHANGED <<local, rpcs, mnts>>

(* Interrupted again: the flush is not sent, but mntflush returns 1.       *)
FlushInterrupted(p) == /\ Interrupted(p)
                       /\ Goto(p, "flushwrite", Resumed(p))
                       /\ UNCHANGED <<cont, noted, site, other, rpcs, mnts, chans>>

FlushFails(p) == /\ Goto(p, "flushwrite", "qrm")
                 /\ hung[on[p]]
                 /\ UNCHANGED <<local, rpcs, mnts, chans>>

(* mntqrm, and mntflush returns 0: a reader passes the gate on first.      *)
Fail(p, to) == /\ Goto(p, "qrm", to)
               /\ cont' = [cont EXCEPT ![p] = "fail"]
               /\ done' = [done EXCEPT ![mine[p]] = TRUE]
               /\ flushed' = [flushed EXCEPT ![mine[p]] = FALSE]
               /\ queue' = [queue EXCEPT ![on[p]] = RemoveFirst(@, mine[p])]
               /\ UNCHANGED <<notes, site, other, flushtag, reply, free, rpctag, rip, nextflush, chans>>

(* Mutant: a reader that fails does not open the gate.                     *)
QrmShut(p) == Fail(p, "fail")

Qrm(p) == Fail(p, IF cont[p] = "read" THEN "passgate" ELSE "fail")

(* The caller has its reply or its error: mntfree.  On its way out of the  *)
(* kernel the process sees its notes.                                      *)
Over(p, msg) == IF msg.call = p THEN [msg EXCEPT !.call = None] ELSE msg

Leave(p) == /\ pc[p] \in {"return", "fail"}
            /\ pc' = [pc EXCEPT ![p] = "idle"]
            /\ free' = <<mine[p]>> \o free
            /\ mine' = [mine EXCEPT ![p] = None] /\ on' = [on EXCEPT ![p] = None]
            /\ notepending' = [notepending EXCEPT ![p] = FALSE]
            /\ cont' = [cont EXCEPT ![p] = "send"]
            /\ reply' = [r \in Rpcs |-> IF r = mine[p] THEN Poison ELSE Over(p, reply[r])]
            /\ wire' = [m \in Mounts |-> [i \in DOMAIN wire[m] |-> Over(p, wire[m][i])]]
            /\ server' = [m \in Mounts |-> {Over(p, t) : t \in server[m]}]
            /\ UNCHANGED <<noted, other, done, flushed, flushtag, rpctag, mnts, hung>>
-----------------------------------------------------------------------------
(* The server gets messages in the order they were sent and answers them   *)
(* in any order.  A Tflush aborts the request it was sent for, if that is  *)
(* still pending, and is answered in any case.                             *)
Answer(m, t) == /\ t.kind = "T"
                /\ wire' = [wire EXCEPT ![m] = Append(@, [kind |-> "R", tag |-> t.tag, call |-> t.call])]
                /\ server' = [server EXCEPT ![m] = @ \ {t}]
                /\ UNCHANGED <<pc, local, rpcs, mnts, hung>>

AnswerFlush(m, t) ==
    /\ t.kind = "Tflush"
    /\ wire' = [wire EXCEPT ![m] = Append(@, [kind |-> "Rflush", tag |-> t.tag, call |-> t.call])]
    /\ server' = [server EXCEPT ![m] = {s \in @ \ {t} : ~(s.kind = "T" /\ s.call = t.call)}]
    /\ UNCHANGED <<pc, local, rpcs, mnts, hung>>

Hangup(m) == /\ m \in Mortal /\ ~hung[m]
             /\ hung' = [hung EXCEPT ![m] = TRUE]
             /\ server' = [server EXCEPT ![m] = {}]
             /\ UNCHANGED <<pc, local, rpcs, mnts, wire>>

(* postnote to a process in a call; Disturb is the rest of it.             *)
PostNote(p) == /\ pc[p] # "idle" /\ noted < Notes
               /\ noted' = noted + 1
               /\ notepending' = [notepending EXCEPT ![p] = TRUE]
               /\ UNCHANGED <<pc, cont, site, other, rpcs, mnts, chans>>

Proceed(p) == \/ Send(p) \/ SendFails(p) \/ Gate(p) \/ Sleep(p) \/ Disturb(p)
              \/ Wake(p) \/ WakeNoted(p)
              \/ Read(p) \/ ReadFails(p) \/ ReadDone(p)
              \/ Mux(p) \/ Copy(p) \/ Finish(p) \/ WakeOther(p)
              \/ PassGate(p) \/ WakeNext(p)
              \/ FlushTag(p) \/ FlushSend(p) \/ FlushInterrupted(p) \/ FlushFails(p)
              \/ Qrm(p) \/ Leave(p)

Serve(m) == \E t \in server[m] : Answer(m, t) \/ AnswerFlush(m, t)

Next == \/ \E p \in Procs : Proceed(p) \/ PostNote(p)
                            \/ \E m \in Mounts, r \in Rpcs : Call(p, m, r)
        \/ \E m \in Mounts : Serve(m) \/ Hangup(m)

Spec == Init /\ [][Next]_vars

(* The server answers what process p sent it.                              *)
AnswerTo(m, p)      == \E t \in server[m] : t.call = p /\ Answer(m, t)
AnswerFlushTo(m, p) == \E t \in server[m] : t.call = p /\ AnswerFlush(m, t)

(* A process runs when it can; a server answers at least the flushes.      *)
Fairness == /\ \A p \in Procs : WF_vars(Proceed(p))
            /\ \A m \in Mounts, p \in Procs : WF_vars(AnswerFlushTo(m, p))

FairSpec == Spec /\ Fairness
-----------------------------------------------------------------------------
(* A call returns with the reply to its own request, or to a flush of it:  *)
(* not with what came for the process or the mount point that used its     *)
(* Mntrpc, and its tag, before.                                            *)
ReplyIsMine == \A p \in Procs : pc[p] = "return" =>
                   /\ reply[mine[p]].kind # "none"
                   /\ reply[mine[p]].call = p

(* Clients must arrange that no two outstanding messages on the same       *)
(* connection have the same tag (man/5/0intro).                            *)
TagsDiffer == \A m \in Mounts : \A s, t \in server[m] : s.tag = t.tag => s = t

(* Whether p is the reader of its mount point.                             *)
Reads(p) == \/ pc[p] \in {"read", "mux", "copy", "finish", "wake", "passgate"}
            \/ pc[p] \in {"flush", "flushwrite", "qrm"} /\ cont[p] = "read"

(* Readers are gated onto the mount point one at a time, and rip says who. *)
OneReader == \A m \in Mounts : \A p \in Procs : (Reads(p) /\ on[p] = m) <=> rip[m] = p

(* A Mntrpc is free or one process's, and it is queued on the mount point  *)
(* it is used on, once, from its call to its completion.                   *)
InCopy(r) == \E q \in Procs : pc[q] \in {"copy", "finish"} /\ other[q] = r
MntrpcExact ==
    /\ \A p, q \in Procs : mine[p] = mine[q] /\ mine[p] # None => p = q
    /\ IsInjective(free) /\ \A p \in Procs : mine[p] \notin Range(free)
    /\ \A m \in Mounts : /\ IsInjective(queue[m])
                         /\ Range(queue[m]) = {r \in Rpcs : ~done[r] /\ ~InCopy(r) /\
                                                 \E p \in Procs : mine[p] = r /\ on[p] = m}

(* While processes sleep at a gate without a reader, one is on its way.    *)
Comes(q) == \/ pc[q] \in {"wakenext", "woken", "gate"}
            \/ pc[q] \in {"flush", "flushwrite"} /\ cont[q] = "gate"
GateNotLost == \A m \in Mounts : rip[m] = None /\ (\E p \in Procs : on[p] = m /\ pc[p] = "asleep")
                   => \E q \in Procs : on[q] = m /\ Comes(q)

(* What a hangup and a note do to three processes (devmnt.c:584), in       *)
(* violation of GateNotLost: the one sleeper that mntgate wakes has the    *)
(* note, its flush fails, and it leaves without a look at the gate.  The   *)
(* other sleeps on, though there is no reader.                             *)
Stranded(p) == /\ pc[p] = "asleep" /\ hung[on[p]] /\ rip[on[p]] = None
               /\ ~\E q \in Procs : on[q] = on[p] /\ Comes(q)

(* Every call comes to an end, if the server answers everything, unless it *)
(* is stranded: whoever reads passes the gate on when it returns, when its *)
(* read fails and when its flush cannot be sent (devmnt.c:598, 612, 640).  *)
CallsReturn == (\A m \in Mounts, p \in Procs : WF_vars(AnswerTo(m, p)))
                   => \A p \in Procs : pc[p] # "idle" ~> \/ pc[p] = "idle"
                                                         \/ Stranded(p)

(* A call that is interrupted comes to an end though the server answers    *)
(* only its flush, once other processes stop making calls: a reader that   *)
(* never finds the channel empty does not see its note.                    *)
NewCall == \E p \in Procs : pc[p] = "idle" /\ pc'[p] # "idle"
NotedCallsReturn == <>[][~NewCall]_vars =>
                        \A p \in Procs : notepending[p] ~> pc[p] = "idle"
=============================================================================
