------------------------------- MODULE MCPage -------------------------------
(* Two instances p1 and p2 of a program: they share its text t, and each   *)
(* has a data segment of its own, which the same block of the file         *)
(* initialises.  p1 has a bss z too, marked shared for a child that is     *)
(* gone.  (Or else they share the bss b, as rfork with RFMEM leaves it, or *)
(* p1 has the data segment h, as one is once a child has shared it.)       *)
EXTENDS Page, TLC

CONSTANTS p1, p2, t, d, e, z, b, h, text, data, zero

MCUsers == t :> {p1, p2} @@ d :> {p1} @@ e :> {p2} @@ z :> {p1} @@ b :> {p1, p2} @@ h :> {p1}
MCKind  == t :> "text" @@ d :> "data" @@ e :> "data" @@ z :> "shared" @@ b :> "shared" @@ h :> "shdata"
MCBlock == t :> text @@ d :> data @@ e :> data @@ z :> zero @@ b :> zero @@ h :> data
MCChild == [s \in Segs |-> {c \in Segs : {s, c} = {d, e}}]

(* Bound: lookpage got one page that newpage had taken, not more, and the  *)
(* list is still what its links say it is                                  *)
Free   == {r \in Pages : ref[r] = 0 /\ \A a \in Procs : pc[a] = "claim" => page[a] # r}
Intact == /\ Cardinality(Free) - freecount \in {0, 1}
          /\ list.head \in Free \cup {None} /\ list.tail \in Free \cup {None}
          /\ \A r \in Free :
                 /\ IF list.prev[r] = None THEN list.head = r
                    ELSE list.prev[r] \in Free /\ list.next[list.prev[r]] = r
                 /\ IF list.next[r] = None THEN list.tail = r
                    ELSE list.next[r] \in Free /\ list.prev[list.next[r]] = r

(* One page, one place on the device is like another                       *)
Perms == {f @@ g : f \in Permutations(Pages), g \in Permutations(Swaps)}
=============================================================================
