---------------------------------- MODULE Pipe ----------------------------------
(***************************************************************************)
(* What one direction of a stream promises.  Each writer puts its          *)
(* messages one after another, each block by block from its first to its   *)
(* last, or gives the rest of a message up; every block comes out where it *)
(* went in, each byte once, and no read goes past the end of a message.    *)
(*                                                                         *)
(* It does not promise that the blocks of a message come out without those *)
(* of another writer between them.                                         *)
(***************************************************************************)
EXTENDS Naturals, Sequences

CONSTANT Writers

VARIABLES chan, closed,      \* what was put and not read; has the reader gone?
          rest, count        \* of each writer: what it has still to put of its
                             \* message, and how many messages it began

vars == <<chan, closed, rest, count>>

Init == /\ chan = <<>> /\ closed = FALSE
        /\ rest = [w \in Writers |-> <<>>] /\ count = [w \in Writers |-> 0]

(* The blocks b are all of the mth message of w; the last ends it.         *)
IsMessage(b, w, m) ==
    /\ b # <<>>
    /\ \A i \in 1..Len(b) : /\ b[i].by = w /\ b[i].msg = m /\ b[i].part = i
                            /\ b[i].delim <=> i = Len(b)

Begin(w) == /\ rest[w] = <<>> /\ count' = [count EXCEPT ![w] = @ + 1]
            /\ IsMessage(rest'[w], w, count'[w])
            /\ rest' = [rest EXCEPT ![w] = rest'[w]]
            /\ UNCHANGED <<chan, closed>>

(* The next block of the message, behind everything that was put.          *)
Send(w) == /\ rest[w] # <<>>
           /\ chan' = Append(chan, Head(rest[w]))
           /\ rest' = [rest EXCEPT ![w] = Tail(@)]
           /\ UNCHANGED <<closed, count>>

GiveUp(w) == /\ rest' = [rest EXCEPT ![w] = <<>>]
             /\ UNCHANGED <<chan, closed, count>>

(* Some blocks, but only the last of them may end a message.               *)
Whole == \E n \in 1..Len(chan) :
    /\ \A i \in 1..(n - 1) : ~chan[i].delim
    /\ chan' = SubSeq(chan, n + 1, Len(chan))
    /\ UNCHANGED <<closed, rest, count>>

(* Some blocks, none of which ends a message, and the first bytes of one.  *)
Part == \E n \in 1..Len(chan) : \E k \in 1..(chan[n].n - 1) :
    /\ \A i \in 1..(n - 1) : ~chan[i].delim
    /\ chan' = <<[chan[n] EXCEPT !.n = k]>> \o SubSeq(chan, n + 1, Len(chan))
    /\ UNCHANGED <<closed, rest, count>>

Close == ~closed /\ closed' = TRUE /\ UNCHANGED <<chan, rest, count>>

Discard == closed /\ chan # <<>> /\ chan' = Tail(chan) /\ UNCHANGED <<closed, rest, count>>

Next == \/ \E w \in Writers : Begin(w) \/ Send(w) \/ GiveUp(w)
        \/ Whole \/ Part \/ Close \/ Discard

Spec == Init /\ [][Next]_vars
=============================================================================
