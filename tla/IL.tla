----------------------------------- MODULE IL -----------------------------------
(***************************************************************************)
(* IL, the protocol of sequenced messages that carries file service over   *)
(* IP (port/stil.c): one call, from end "a" to a listener at "b".          *)
(*                                                                         *)
(* Ends take packets one at a time; a user's write and the process that    *)
(* runs the timers come in between.  The network may lose, repeat and      *)
(* reorder packets: one that is in it may arrive any number of times, and  *)
(* what it has no room for is lost.  Timers may expire whenever they are   *)
(* set.  Numbers start below 2^24, and are taken not to wrap at 2^32.      *)
(***************************************************************************)
EXTENDS Integers, Sequences, FiniteSets, SequencesExt

CONSTANTS Starts,          \* starting numbers: of the call, of each conversation at b
          Window,          \* Defaultwin
          Messages, Most,  \* bound: what each end writes, at most Most
          Room             \* bound: packets in the network

Ends     == {"a", "b"}
Other(e) == IF e = "a" THEN "b" ELSE "a"

ASSUME ILAssumption ==
    /\ Window \in Nat \ {0} /\ Most \in Nat
    /\ \A e \in Ends : Messages[e] \in Nat /\ Messages[e] <= Most
    /\ Room \in Nat /\ Starts \in Seq(Nat) /\ Len(Starts) > 1
    /\ Starts[1] > 0
    /\ \A i, j \in 1..Len(Starts) : i < j => Starts[j] > Starts[i] + Most + 2

VARIABLES conv,     \* of each end: its conversation
          got,      \* of each end: what it passed up to its user
          convs,    \* starting numbers used so far (a bound)
          net       \* packets that may arrive

vars == <<conv, got, convs, net>>

States == {"Ilclosed", "Ilsyncer", "Ilsyncee", "Ilestablished", "Ilclosing"}
Types  == {"Ilsync", "Ildata", "Ildataquery", "Ilack", "Ilquerey", "Ilstate", "Ilclose"}

(* The k-th message of the end that started from s.                        *)
Message(s, k) == [id |-> s + k, data |-> <<s, k>>]

Mess == [id : Nat, data : Nat \X Nat]
Conv == [state : States, bound : BOOLEAN, readq : BOOLEAN, start : Nat, rstart : Nat,
         next : Nat, recvd : Nat, unacked : Seq(Mess), outoforder : Seq(Mess)]
Pack == [to : Ends, type : Types, id : Nat, ack : Nat, data : (Nat \X Nat) \cup {<<>>}]

(* What is not acknowledged is the last that was sent, in order;           *)
(* what came too early is sorted, without repetition.                      *)
LastSent(c) == c.unacked = [i \in 1..Len(c.unacked) |->
                               Message(c.start, c.next - c.start - 1 - Len(c.unacked) + i)]
Sorted(s)   == \A i, j \in DOMAIN s : i < j => s[i].id < s[j].id

TypeOK ==
    /\ conv \in [Ends -> Conv] /\ got \in [Ends -> Seq(Nat \X Nat)]
    /\ \A e \in Ends : LastSent(conv[e]) /\ Sorted(conv[e].outoforder)
    /\ convs \in 0..Len(Starts)
    /\ net \subseteq Pack /\ Cardinality(net) <= Room

NoConv == [state |-> "Ilclosed", bound |-> FALSE, readq |-> FALSE, start |-> 0, rstart |-> 0,
           next |-> 0, recvd |-> 0, unacked |-> <<>>, outoforder |-> <<>>]

Init == /\ conv = [e \in Ends |-> NoConv] /\ got = [e \in Ends |-> <<>>]
        /\ convs = 0 /\ net = {}
-----------------------------------------------------------------------------
Packet(e, type, id, ack, data) == [to |-> Other(e), type |-> type, id |-> id, ack |-> ack, data |-> data]

(* ilsendctl, and what goes with it.                                       *)
Ctl(e, type, id, ack) == {Packet(e, type, id, ack, <<>>)}
Tell(e, c, type)      == Ctl(e, type, c.next, c.recvd)

(* ilrexmit: the first message without an acknowledgement.                 *)
Rexmit(e, c) == IF c.unacked = <<>> THEN {}
                ELSE {Packet(e, "Ildataquery", c.unacked[1].id, c.recvd, c.unacked[1].data)}

Becomes(e, c, packets) ==
    /\ conv' = [conv EXCEPT ![e] = c]
    /\ net' = IF Cardinality(net \cup packets) <= Room THEN net \cup packets ELSE net

Established(c) == [c EXCEPT !.state = "Ilestablished"]
Freed(c)       == [c EXCEPT !.unacked = <<>>, !.outoforder = <<>>]

(* ilhangup: no packet finds the conversation any more.                    *)
Hungup(c) == [c EXCEPT !.state = "Ilclosed", !.bound = FALSE]

(* A list in the order of its identifiers is used from its head: how many  *)
(* there are in set I.                                                     *)
Leading(s, I)   == CHOOSE n \in 0..Len(s) : 1..n \subseteq I /\ n + 1 \notin I
UpTo(s, id)     == {i \in DOMAIN s : s[i].id <= id}
Drop(s, n)      == SubSeq(s, n + 1, Len(s))
DropUpTo(s, id) == Drop(s, Leading(s, UpTo(s, id)))

(* Mutant: as if the next one were what is acknowledged.                   *)
AcktoNext(c, ack) == [c EXCEPT !.unacked = DropUpTo(@, ack + 1)]

(* ilackto.                                                                *)
Ackto(c, ack) == [c EXCEPT !.unacked = DropUpTo(@, ack)]

(* Mutant: whatever is new is kept, whether it is there already or not.    *)
AcceptableTwice(c, id) == id > c.recvd /\ id <= c.recvd + Window

Acceptable(c, id) == /\ id > c.recvd /\ id <= c.recvd + Window
                     /\ \A i \in DOMAIN c.outoforder : c.outoforder[i].id # id

(* iloutoforder.                                                           *)
Outoforder(c, m) ==
    IF ~Acceptable(c, m.id) THEN c
    ELSE [c EXCEPT !.outoforder =
              InsertAt(@, Leading(@, UpTo(@, m.id)) + 1, [id |-> m.id, data |-> m.data])]

(* Mutant: it goes over gaps.                                              *)
ReadyGaps(c) == Len(c.outoforder)

(* How many of those that came early follow the last one without a gap.    *)
Ready(c) == Leading(c.outoforder, {i \in DOMAIN c.outoforder : c.outoforder[i].id = c.recvd + i})

(* ilpullup, the user's end being there: c is passed up what is ready.     *)
Pullup(e, c) == LET early == DropUpTo(c.outoforder, c.recvd)
                    d == [c EXCEPT !.outoforder = early]
                    n == Ready(d)
                IN IF ~c.readq \/ c.state # "Ilestablished" THEN [conv |-> c, up |-> <<>>]
                   ELSE [conv |-> [d EXCEPT !.outoforder = Drop(@, n),
                                   !.recvd = IF n = 0 THEN @ ELSE early[n].id],
                         up |-> [i \in 1..n |-> early[i].data]]

(* The handler ends with a pullup, and sends what f says of the result.    *)
PulledUp(e, c, f(_)) == LET p == Pullup(e, c) IN
    /\ got' = [got EXCEPT ![e] = @ \o p.up]
    /\ Becomes(e, p.conv, f(p.conv))

Nothing(c) == {}
-----------------------------------------------------------------------------
(* ilstart: a calls.                                                       *)
Call == /\ convs = 0 /\ convs' = 1
        /\ Becomes("a", [NoConv EXCEPT !.state = "Ilsyncer", !.bound = TRUE, !.readq = TRUE,
                                       !.start = Starts[1], !.next = Starts[1] + 1],
                   Ctl("a", "Ilsync", Starts[1], 0))
        /\ UNCHANGED got

(* The sync begins, or begins again.                                       *)
SyncSyncee(e, c, m) == IF m.id # c.rstart \/ m.ack # 0
                       THEN Becomes(e, [c EXCEPT !.state = "Ilclosed"], {})
                       ELSE Becomes(e, [c EXCEPT !.recvd = m.id], Ctl(e, "Ilsync", c.start, m.id))

(* ilrcvmsg: a sync that no conversation is for makes one at the listener. *)
Incoming(m) == /\ m \in net /\ m.to = "b" /\ m.type = "Ilsync" /\ ~conv["b"].bound
               /\ convs \in 1..(Len(Starts) - 1) /\ convs' = convs + 1
               /\ SyncSyncee("b", [NoConv EXCEPT !.state = "Ilsyncee", !.bound = TRUE,
                                                 !.start = Starts[convs'], !.rstart = m.id,
                                                 !.next = Starts[convs'] + 1], m)
               /\ got' = [got EXCEPT !["b"] = <<>>]

(* _ilprocess: one action per state.                                       *)
For(e, m, state, types) == /\ m \in net /\ m.to = e /\ m.type \in types
                           /\ conv[e].bound /\ conv[e].state = state
                           /\ UNCHANGED convs

ProcessSyncer(e, m) == LET c == conv[e] IN
    /\ For(e, m, "Ilsyncer", {"Ilsync", "Ilclose"})
    /\ \/ /\ m.ack # c.start /\ m.type = "Ilsync" /\ Becomes(e, Hungup(c), {}) /\ UNCHANGED got
       \/ /\ m.ack = c.start /\ m.type = "Ilclose" /\ Becomes(e, Hungup(c), {}) /\ UNCHANGED got
       \/ /\ m.ack = c.start /\ m.type = "Ilsync"
          /\ PulledUp(e, [Established(c) EXCEPT !.recvd = m.id, !.rstart = m.id],
                      LAMBDA d : Ctl(e, "Ilack", c.next, m.id))

(* Mutant: any acknowledgement does.                                       *)
IsAckedAny(c, m) == TRUE

IsAcked(c, m) == m.ack = c.start

ProcessSyncee(e, m) == LET c == conv[e] IN
    /\ For(e, m, "Ilsyncee", {"Ilsync", "Ilack", "Ilclose"})
    /\ \/ m.type = "Ilsync" /\ SyncSyncee(e, c, m) /\ UNCHANGED got
       \/ m.type = "Ilack" /\ IsAcked(c, m) /\ PulledUp(e, Established(c), Nothing)
       \/ m.type = "Ilclose" /\ m.id = c.next /\ Becomes(e, Hungup(c), {}) /\ UNCHANGED got

(* Mutant: any sync is one of another conversation.                        *)
IsMySyncNot(c, m) == FALSE

IsMySync(c, m) == m.id = c.rstart

ProcessSync(e, m) == LET c == conv[e] IN
    /\ For(e, m, "Ilestablished", {"Ilsync"})
    /\ IF IsMySync(c, m) THEN Becomes(e, c, Ctl(e, "Ilack", c.next, c.rstart))
                         ELSE Becomes(e, Hungup(c), {})
    /\ UNCHANGED got

(* Data, which a retransmission asks to confirm.                           *)
ProcessData(e, m) ==
    /\ For(e, m, "Ilestablished", {"Ildata", "Ildataquery"})
    /\ PulledUp(e, Outoforder(Ackto(conv[e], m.ack), m),
                LAMBDA d : IF m.type = "Ildataquery" THEN Tell(e, d, "Ilstate") ELSE {})

ProcessAck(e, m) == LET c == Ackto(conv[e], m.ack) IN
    /\ For(e, m, "Ilestablished", {"Ilack", "Ilquerey", "Ilstate"})
    /\ Becomes(e, c, CASE m.type = "Ilack"    -> {}
                       [] m.type = "Ilquerey" -> Tell(e, c, "Ilstate")
                       [] m.type = "Ilstate"  -> Rexmit(e, c))
    /\ UNCHANGED got

ProcessClose(e, m) == LET c == conv[e] IN
    /\ For(e, m, "Ilestablished", {"Ilclose"}) /\ m.ack \in c.start..c.next
    /\ Becomes(e, [Freed(c) EXCEPT !.state = "Ilclosing"], Tell(e, c, "Ilclose"))
    /\ UNCHANGED got

ProcessClosing(e, m) == LET c == [conv[e] EXCEPT !.recvd = m.id] IN
    /\ For(e, m, "Ilclosing", {"Ilclose"})
    /\ Becomes(e, IF m.ack = c.next THEN Hungup(c) ELSE c, Tell(e, c, "Ilclose"))
    /\ UNCHANGED got

Process(e, m) == \/ ProcessSyncer(e, m) \/ ProcessSyncee(e, m) \/ ProcessSync(e, m)
                 \/ ProcessData(e, m) \/ ProcessAck(e, m) \/ ProcessClose(e, m) \/ ProcessClosing(e, m)
-----------------------------------------------------------------------------
(* ilopen: the listener's user opens the new conversation.                 *)
Open == /\ conv["b"].bound /\ ~conv["b"].readq /\ conv["b"].state # "Ilclosing"
        /\ Becomes("b", [conv["b"] EXCEPT !.readq = TRUE], {})
        /\ UNCHANGED <<got, convs>>

(* iloput.                                                                 *)
Write(e) == LET c == conv[e]  k == c.next - c.start  m == Message(c.start, k) IN
    /\ c.state \in {"Ilsyncer", "Ilsyncee", "Ilestablished"} /\ c.readq /\ k <= Messages[e]
    /\ Becomes(e, [c EXCEPT !.next = @ + 1, !.unacked = Append(@, m)],
               {Packet(e, "Ildata", m.id, c.recvd, m.data)})
    /\ UNCHANGED <<got, convs>>

(* ilclose.                                                                *)
Close(e) == LET c == conv[e] IN
    /\ c.readq
    /\ \/ /\ c.state \in {"Ilsyncer", "Ilsyncee", "Ilestablished"}
          /\ Becomes(e, [Freed(c) EXCEPT !.state = "Ilclosing", !.readq = FALSE], Tell(e, c, "Ilclose"))
       \/ /\ c.state \in {"Ilclosed", "Ilclosing"}
          /\ Becomes(e, [c EXCEPT !.readq = FALSE], {})
    /\ UNCHANGED <<got, convs>>

(* ilackproc: what it sends again ...                                      *)
Timer(e) == LET c == conv[e] IN
    /\ \/ c.state \in {"Ilsyncer", "Ilsyncee"} /\ Becomes(e, c, Ctl(e, "Ilsync", c.start, c.recvd))
       \/ c.state = "Ilclosing" /\ Becomes(e, c, Tell(e, c, "Ilclose"))
       \/ c.state = "Ilestablished" /\ \/ Becomes(e, c, Tell(e, c, "Ilack"))
                                       \/ Becomes(e, c, Tell(e, c, "Ilquerey"))
                                       \/ Becomes(e, c, Rexmit(e, c))
    /\ UNCHANGED <<got, convs>>

(* ... and when it gives up.                                               *)
TimeOut(e) == /\ conv[e].state # "Ilclosed" /\ Becomes(e, Hungup(conv[e]), {})
              /\ UNCHANGED <<got, convs>>

Lose(m) == net' = net \ {m} /\ UNCHANGED <<conv, got, convs>>

Next == \/ Call \/ Open
        \/ \E m \in net : Lose(m) \/ Incoming(m) \/ \E e \in Ends : Process(e, m)
        \/ \E e \in Ends : Write(e) \/ Close(e) \/ Timer(e) \/ TimeOut(e)

Spec == Init /\ [][Next]_vars
-----------------------------------------------------------------------------
(* "Data entering one side is sent to the other side in the same sequence" *)
(* (doc/il/il.ms:75): what a user was given is, message by message, what   *)
(* the conversation's other end wrote (stil.c:600-685).                    *)
PrefixDelivered == \A e \in Ends : \A i \in DOMAIN got[e] :
    got[e][i] = Message(conv[e].rstart, i).data

(* The ends of a connection are each other's: an end becomes established   *)
(* by a packet that names its own starting number (stil.c:400, 433).       *)
Connected == \A e \in Ends : conv[e].state = "Ilestablished"

Agreement == Connected => \A e \in Ends : conv[e].rstart = conv[Other(e)].start

(* As long as the connection is there, what was written and not given to   *)
(* the other user can be sent again: an acknowledgement is only for what   *)
(* was passed up (stil.c:224-257, 622).                                    *)
NothingLost == Connected => \A e \in Ends : LET c == conv[e] IN
    \A k \in 1..(c.next - c.start - 1) :
        \/ k <= Len(got[Other(e)])
        \/ \E i \in DOMAIN c.unacked : c.unacked[i] = Message(c.start, k)

(* No packet of the connection, however old, ends it while the other end   *)
(* is still in it (stil.c:446-456, 489-498).  (A sync of an earlier        *)
(* conversation with the listener does.)                                   *)
OnlyOtherEndCloses == [][\A e \in Ends : \A m \in net :
    (/\ conv[e].state = "Ilestablished" /\ conv'[e].state # "Ilestablished"
     /\ Process(e, m) /\ m.id \in conv[e].rstart..(conv[e].rstart + Most + 1))
        => ~(/\ conv[Other(e)].start = conv[e].rstart
             /\ conv[Other(e)].state \in {"Ilsyncee", "Ilestablished"})]_vars
=============================================================================
