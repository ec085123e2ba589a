------------------------------ MODULE ILProofs ------------------------------
(***************************************************************************)
(* Proofs about IL for any window, any number of messages and conversations*)
(* and a network that loses, repeats and reorders: what a user is given is *)
(* what was written, in order and once; ends agree on their connection;    *)
(* nothing is forgotten that may be needed again; and no old packet ends a *)
(* connection.                                                             *)
(***************************************************************************)
EXTENDS IL, SequenceTheorems, FiniteSetTheorems, WellFoundedInduction, TLAPS

(* What end e has sent in its conversations, the first n of all.           *)
From(e, n) == IF e = "a" THEN {1} ELSE 2..n
Sent(e, n) == {Message(Starts[i], k) : i \in From(e, n), k \in 1..Most}

(* The conversation c of end e: where it starts and where its other end    *)
(* does, as far as it knows.                                               *)
StartOk(e, c, n) ==
    /\ IF c.start = 0 THEN c = NoConv ELSE c.next - c.start \in 1..(Most + 1)
    /\ e = "a" => /\ c.start = IF n = 0 THEN 0 ELSE Starts[1]
                  /\ c.rstart = 0 \/ \E i \in 2..n : c.rstart = Starts[i]
                  /\ c.state # "Ilsyncee"
                  /\ c.state = "Ilsyncer" => c.rstart = 0 /\ c.recvd = 0
    /\ e = "b" => /\ c.start = IF n < 2 THEN 0 ELSE Starts[n]
                  /\ c.start # 0 => c.rstart = Starts[1]
                  /\ c.state # "Ilsyncer"
                  /\ c.state = "Ilsyncee" => c.recvd = c.rstart

(* Its lists: what came early is of the other end; before the connection   *)
(* is there nothing came, and nothing was acknowledged.                    *)
Acked(c) == c.next - c.start - 1 - Len(c.unacked)
Syncing  == {"Ilsyncer", "Ilsyncee"}
Ended    == {"Ilclosing", "Ilclosed"}

ListsOk(e, c, n) ==
    /\ LastSent(c) /\ Sorted(c.outoforder)
    /\ c.start # 0 => Acked(c) >= 0
    /\ c.outoforder \in Seq(Sent(Other(e), n))
    /\ c.state \in Syncing => Acked(c) = 0 /\ c.outoforder = <<>>

(* What its user was given: recvd counts it.                               *)
GotOk(c, g) ==
    /\ g \in Seq(Nat \X Nat) /\ Len(g) <= Most /\ \A i \in DOMAIN g : g[i] = <<c.rstart, i>>
    /\ c.state = "Ilestablished" => c.recvd = c.rstart + Len(g) /\ c.rstart # 0
    /\ c.state \in Syncing \/ c.rstart = 0 => g = <<>>

EndOk(e, c, g, n) == c \in Conv /\ StartOk(e, c, n) /\ ListsOk(e, c, n) /\ GotOk(c, g)

(* The listener is connected only to a caller that knows it, and only what *)
(* was passed up is acknowledged (v: conversations, g: what was passed up).*)
Known(v)     == v["a"].rstart = v["b"].start
Linked(v, g) == v["b"].state = "Ilestablished" \/ g["b"] # <<>> => Known(v)
Kept(v, g)   == /\ v["a"].state = "Ilestablished" /\ Known(v) => Acked(v["a"]) <= Len(g["b"])
                /\ v["b"].state = "Ilestablished" => Acked(v["b"]) <= Len(g["a"])

EndsOk(v, g, n) == /\ v \in [Ends -> Conv] /\ g \in [Ends -> Seq(Nat \X Nat)]
                   /\ n \in 0..Len(Starts)
                   /\ \A e \in Ends : EndOk(e, v[e], g[e], n)
                   /\ Linked(v, g) /\ Kept(v, g)

(* What a packet in the network says, by its type: never more than its     *)
(* sender knows by now.                                                    *)
DataTypes == {"Ildata", "Ildataquery"}
AckTypes  == DataTypes \cup {"Ilack", "Ilquerey", "Ilstate"}

DataOk(m, n) == m.type \in DataTypes => [id |-> m.id, data |-> m.data] \in Sent(Other(m.to), n)

SyncOk(m, n) == m.type = "Ilsync" =>
    IF m.to = "b" THEN m.id = Starts[1] /\ m.ack = 0
                  ELSE m.ack = Starts[1] /\ \E i \in 2..n : m.id = Starts[i]

AckOk(m, v, g) == m.type \in AckTypes =>
    IF m.to = "b" THEN /\ m.ack <= v["a"].rstart + Len(g["a"])
                       /\ m.type = "Ilack" => v["a"].rstart # 0 /\ v["a"].rstart <= m.ack
                  ELSE v["a"].rstart = 0 \/ Known(v) => m.ack <= Starts[1] + Len(g["b"])

CloseOk(m, v, n) == m.type = "Ilclose" =>
    IF m.to = "b" THEN n # 0 /\ v["a"].state \in Ended
                  ELSE \E i \in 2..n : /\ m.id - Starts[i] \in 1..(Most + 1)
                                       /\ i = n => v["b"].state \in Ended

NetOk(m, v, g, n) == m \in Pack /\ DataOk(m, n) /\ SyncOk(m, n) /\ AckOk(m, v, g) /\ CloseOk(m, v, n)

(* The inductive invariant.                                                *)
IInv == /\ EndsOk(conv, got, convs)
        /\ IsFiniteSet(net) /\ Cardinality(net) <= Room
        /\ \A m \in net : NetOk(m, conv, got, convs)
-----------------------------------------------------------------------------
(* A set of naturals that is not empty has a least element.                *)
LEMMA LeastNat ==
  ASSUME NEW I \in SUBSET Nat, I # {}
  PROVE  \E i \in I : \A j \in I : i <= j
<1>1. PICK i \in I : \A j \in I : <<j, i>> \notin OpToRel(<, Nat)
  BY WFMin, NatLessThanWellFounded
<1>2. ASSUME NEW j \in I PROVE i <= j
  <2>1. i \in Nat /\ j \in Nat /\ <<j, i>> \notin OpToRel(<, Nat)
    BY <1>1
  <2> QED
    BY <2>1 DEF OpToRel
<1> QED
  BY <1>2

(* Leading counts those at the head that are in I.                         *)
LEMMA LeadingFacts ==
  ASSUME NEW S, NEW s \in Seq(S), NEW I, Len(s) + 1 \notin I, NEW n, n = Leading(s, I)
  PROVE  n \in 0..Len(s) /\ 1..n \subseteq I /\ n + 1 \notin I
<1>1. PICK l : l = Len(s)
  OBVIOUS
<1>2. l \in Nat /\ l + 1 \notin I
  BY <1>1, LenProperties
<1>3. PICK J : J = {i \in 1..(l + 1) : i \notin I}
  OBVIOUS
<1>4. J \in SUBSET Nat /\ J # {}
  BY <1>2, <1>3
<1>5. PICK k \in J : \A j \in J : k <= j
  BY <1>4, LeastNat
<1>6. k - 1 \in 0..l /\ (k - 1) + 1 \notin I
  BY <1>2, <1>3, <1>5
<1>7. ASSUME NEW i \in 1..(k - 1) PROVE i \in I
  BY <1>2, <1>3, <1>5, <1>7
<1>8. \E m \in 0..l : 1..m \subseteq I /\ m + 1 \notin I
  BY <1>6, <1>7
<1>9. n = CHOOSE m \in 0..l : 1..m \subseteq I /\ m + 1 \notin I
  BY <1>1 DEF Leading
<1> QED
  BY <1>1, <1>8, <1>9

(* What is left of a sequence without its first n.                         *)
LEMMA DropFacts ==
  ASSUME NEW S, NEW s \in Seq(S), NEW n \in 0..Len(s)
  PROVE  /\ Drop(s, n) \in Seq(S) /\ Len(Drop(s, n)) = Len(s) - n
         /\ \A i \in 1..(Len(s) - n) : Drop(s, n)[i] = s[n + i]
<1> DEFINE t == Drop(s, n)
<1>1. Len(s) \in Nat /\ n \in Nat /\ n <= Len(s)
  BY LenProperties
<1>2. \A i \in (n + 1)..Len(s) : s[i] \in S
  BY <1>1, ElementOfSeq
<1>3. /\ t \in Seq(S) /\ Len(t) = IF n + 1 <= Len(s) THEN Len(s) - (n + 1) + 1 ELSE 0
      /\ \A i \in 1..(Len(s) - (n + 1) + 1) : t[i] = s[n + 1 + i - 1]
  BY <1>1, <1>2, SubSeqProperties DEF Drop
<1>4. \A i \in 1..(Len(s) - n) : i \in 1..(Len(s) - (n + 1) + 1) /\ n + 1 + i - 1 = n + i
  BY <1>1
<1> QED
  BY <1>1, <1>3, <1>4

(* What is left when the head goes up to an identifier.                    *)
LEMMA DropUpToFacts ==
  ASSUME NEW S \in SUBSET Mess, NEW s \in Seq(S), NEW id \in Nat
  PROVE  \E n \in 0..Len(s) :
            /\ DropUpTo(s, id) \in Seq(S) /\ Len(DropUpTo(s, id)) = Len(s) - n
            /\ \A i \in 1..(Len(s) - n) : DropUpTo(s, id)[i] = s[n + i]
            /\ \A i \in 1..n : s[i].id <= id
            /\ n < Len(s) => s[n + 1].id > id
<1>1. s \in Seq(S) /\ Len(s) \in Nat /\ DOMAIN s = 1..Len(s)
  BY LenProperties
<1>2. PICK I : I = {i \in 1..Len(s) : s[i].id <= id}
  OBVIOUS
<1>3. UpTo(s, id) = I
  BY <1>1, <1>2 DEF UpTo
<1>4. Len(s) + 1 \notin I
  BY <1>1, <1>2
<1>5. PICK n : n = Leading(s, I)
  OBVIOUS
<1>6. n \in 0..Len(s) /\ 1..n \subseteq I /\ n + 1 \notin I
  BY <1>4, <1>5, LeadingFacts
<1>7. PICK t : t = Drop(s, n)
  OBVIOUS
<1>8. /\ DropUpTo(s, id) = t /\ t \in Seq(S) /\ Len(t) = Len(s) - n
      /\ \A i \in 1..(Len(s) - n) : t[i] = s[n + i]
  <2>1. DropUpTo(s, id) = t
    BY <1>3, <1>5, <1>7 DEF DropUpTo
  <2>2. n \in 0..Len(s) /\ s \in Seq(S)
    BY <1>6
  <2> QED
    BY ONLY <1>7, <2>1, <2>2, DropFacts
<1>9. \A i \in 1..n : s[i].id <= id
  BY <1>2, <1>6
<1>10. n < Len(s) => s[n + 1].id > id
  <2>1. SUFFICES ASSUME n < Len(s) PROVE s[n + 1].id > id
    OBVIOUS
  <2>2. n + 1 \in 1..Len(s)
    BY <1>1, <1>6, <2>1
  <2>3. s[n + 1].id \in Nat
    <3>1. s[n + 1] \in S
      BY ONLY <1>1, <2>2, ElementOfSeq
    <3> QED
      BY <3>1 DEF Mess
  <2> QED
    BY <1>2, <1>6, <2>2, <2>3
<1> QED
  BY <1>6, <1>8, <1>9, <1>10
-----------------------------------------------------------------------------
(* The lists are the only ones of a conversation that ilackto changes, and *)
(* what it drops was acknowledged before, or is now.                       *)
LEMMA AcktoFacts ==
  ASSUME NEW c \in Conv, LastSent(c), NEW ack \in Nat, NEW d, d = Ackto(c, ack)
  PROVE  /\ d \in Conv /\ LastSent(d)
         /\ d.unacked \in Seq(Mess) /\ d = [c EXCEPT !.unacked = d.unacked]
         /\ Acked(d) >= Acked(c)
         /\ Acked(d) = Acked(c) \/ Acked(d) <= ack - c.start
<1>1. PICK s : s = c.unacked
  OBVIOUS
<1>2. s \in Seq(Mess) /\ c.start \in Nat /\ c.next \in Nat /\ Len(s) \in Nat
  BY <1>1, LenProperties DEF Conv
<1>3. PICK t : t = DropUpTo(s, ack)
  OBVIOUS
<1>4. PICK n \in 0..Len(s) :
            /\ t \in Seq(Mess) /\ Len(t) = Len(s) - n
            /\ \A i \in 1..(Len(s) - n) : t[i] = s[n + i]
            /\ \A i \in 1..n : s[i].id <= ack
  <2>1. Mess \in SUBSET Mess /\ s \in Seq(Mess) /\ ack \in Nat
    BY <1>2
  <2>2. \E n \in 0..Len(s) :
            /\ DropUpTo(s, ack) \in Seq(Mess) /\ Len(DropUpTo(s, ack)) = Len(s) - n
            /\ \A i \in 1..(Len(s) - n) : DropUpTo(s, ack)[i] = s[n + i]
            /\ \A i \in 1..n : s[i].id <= ack
            /\ n < Len(s) => s[n + 1].id > ack
    BY ONLY <2>1, DropUpToFacts
  <2> QED
    BY ONLY <1>3, <2>2
<1>5. d = [c EXCEPT !.unacked = t]
  BY <1>1, <1>3 DEF Ackto
<1>6. d \in Conv /\ d.unacked = t /\ d.start = c.start /\ d.next = c.next
  BY <1>4, <1>5 DEF Conv
<1>7. PICK k : k = c.next - c.start - 1 - Len(s)
  OBVIOUS
<1>8. k \in Int /\ Acked(c) = k /\ Acked(d) = k + n
  <2>1. Len(t) \in Nat /\ n \in Nat /\ k \in Int
    BY <1>2, <1>4, <1>7, LenProperties
  <2>2. Acked(d) = c.next - c.start - 1 - Len(t) /\ Acked(c) = k
    BY <1>1, <1>6, <1>7 DEF Acked
  <2> QED
    BY ONLY <1>2, <1>4, <1>7, <2>1, <2>2
<1>9. \A i \in 1..Len(s) : s[i] = Message(c.start, k + i)
  BY <1>1, <1>2, <1>7 DEF LastSent
<1>10. LastSent(d)
  <2>1. c.next - c.start - 1 - Len(t) = k + n
    BY <1>2, <1>4, <1>7
  <2>2. ASSUME NEW i \in 1..Len(t) PROVE t[i] = Message(c.start, k + n + i)
    <3>1. t[i] = s[n + i] /\ n + i \in 1..Len(s) /\ k + (n + i) = k + n + i
      BY <1>2, <1>4, <1>8, <2>2
    <3> QED
      BY <1>9, <3>1
  <2>3. t = [i \in 1..Len(t) |-> t[i]]
    BY <1>4, LenProperties
  <2>4. t = [i \in 1..Len(t) |-> Message(c.start, k + n + i)]
    BY <2>2, <2>3
  <2> QED
    BY <1>6, <2>1, <2>4 DEF LastSent
<1>11. n # 0 => k + n <= ack - c.start
  <2>1. SUFFICES ASSUME n # 0 PROVE k + n <= ack - c.start
    OBVIOUS
  <2>2. s[n].id <= ack /\ s[n] = Message(c.start, k + n)
    BY <1>2, <1>4, <1>9, <2>1
  <2> QED
    BY <1>2, <1>8, <2>2 DEF Message
<1>12. Acked(d) >= Acked(c) /\ (Acked(d) = Acked(c) \/ Acked(d) <= ack - c.start)
  <2>1. n \in Nat
    BY <1>4
  <2> QED
    BY ONLY <1>8, <1>11, <2>1
<1> QED
  BY <1>4, <1>5, <1>6, <1>10, <1>12

(* Starting numbers are apart, so a message belongs to one conversation.   *)
LEMMA SentFacts ==
  ASSUME NEW e \in Ends, NEW n \in 0..Len(Starts)
  PROVE  /\ Sent(e, n) \in SUBSET Mess
         /\ \A o \in Sent(e, n) : \E i \in From(e, n) : \E k \in 1..Most :
               o.id = Starts[i] + k /\ o.data = <<Starts[i], k>>
         /\ From(e, n) \in SUBSET (1..Len(Starts))
<1> USE ILAssumption
<1>1. From(e, n) \in SUBSET (1..Len(Starts))
  BY LenProperties DEF From
<1>2. \A i \in From(e, n) : Starts[i] \in Nat
  BY <1>1, ElementOfSeq
<1>3. \A o \in Sent(e, n) : \E i \in From(e, n) : \E k \in 1..Most : o = Message(Starts[i], k)
  BY DEF Sent
<1>4. ASSUME NEW o \in Sent(e, n) PROVE o \in Mess
  <2>1. PICK i \in From(e, n), k \in 1..Most : o = Message(Starts[i], k)
    BY <1>3
  <2>2. Starts[i] \in Nat /\ k \in Nat
    BY <1>2
  <2> QED
    BY <2>1, <2>2 DEF Message, Mess
<1> QED
  <2>1. \A o \in Sent(e, n) : \E i \in From(e, n) : \E k \in 1..Most :
            o.id = Starts[i] + k /\ o.data = <<Starts[i], k>>
    <3>1. SUFFICES ASSUME NEW o \in Sent(e, n)
                   PROVE  \E i \in From(e, n) : \E k \in 1..Most :
                              o.id = Starts[i] + k /\ o.data = <<Starts[i], k>>
      OBVIOUS
    <3>2. PICK i \in From(e, n), k \in 1..Most : o = Message(Starts[i], k)
      BY <1>3
    <3>3. o.id = Starts[i] + k /\ o.data = <<Starts[i], k>>
      BY <3>2 DEF Message
    <3> QED
      BY <3>3
  <2> QED
    BY <1>1, <1>4, <2>1

(* Something put at a place of a sequence.                                 *)
LEMMA InsertAtFacts ==
  ASSUME NEW S, NEW s \in Seq(S), NEW q \in 1..(Len(s) + 1), NEW x \in S
  PROVE  /\ InsertAt(s, q, x) \in Seq(S) /\ Len(InsertAt(s, q, x)) = Len(s) + 1
         /\ \A i \in 1..(Len(s) + 1) :
               InsertAt(s, q, x)[i] = IF i < q THEN s[i] ELSE IF i = q THEN x ELSE s[i - 1]
<1>1. PICK k : k = q - 1
  OBVIOUS
<1>2. Len(s) \in Nat /\ k \in 0..Len(s) /\ q = k + 1 /\ s \in Seq(S)
  BY <1>1, LenProperties
<1>3. PICK a : a = SubSeq(s, 1, k)
  OBVIOUS
<1>4. PICK b : b = SubSeq(s, q, Len(s))
  OBVIOUS
<1>5. PICK o : o = <<x>>
  OBVIOUS
<1>6. a \in Seq(S) /\ Len(a) = k /\ \A i \in 1..k : a[i] = s[i]
  <2>1. \A i \in 1..k : s[i] \in S
    BY <1>2, ElementOfSeq
  <2>2. /\ a \in Seq(S) /\ Len(a) = IF 1 <= k THEN k - 1 + 1 ELSE 0
        /\ \A i \in 1..(k - 1 + 1) : a[i] = s[1 + i - 1]
    BY <1>2, <1>3, <2>1, SubSeqProperties
  <2> QED
    BY <1>2, <2>2
<1>7. b \in Seq(S) /\ Len(b) = Len(s) - k /\ \A i \in 1..(Len(s) - k) : b[i] = s[k + i]
  <2>1. b = Drop(s, k)
    BY <1>2, <1>4 DEF Drop
  <2> QED
    BY <1>2, <2>1, DropFacts
<1>8. o \in Seq(S) /\ Len(o) = 1 /\ o[1] = x
  BY <1>5
<1>9. PICK u : u = a \o o
  OBVIOUS
<1>10. /\ u \in Seq(S) /\ Len(u) = k + 1
       /\ \A i \in 1..(k + 1) : u[i] = IF i <= k THEN s[i] ELSE x
  <2>1. /\ u \in Seq(S) /\ Len(u) = Len(a) + Len(o)
        /\ \A i \in 1..(Len(a) + Len(o)) : u[i] = IF i <= Len(a) THEN a[i] ELSE o[i - Len(a)]
    BY <1>6, <1>8, <1>9, ConcatProperties
  <2>2. ASSUME NEW i \in 1..(k + 1) PROVE u[i] = IF i <= k THEN s[i] ELSE x
    BY <1>2, <1>6, <1>8, <2>1, <2>2
  <2> QED
    BY <1>2, <1>6, <1>8, <2>1, <2>2
<1>11. PICK t : t = u \o b
  OBVIOUS
<1>12. InsertAt(s, q, x) = t
  <2>1. InsertAt(s, q, x) = SubSeq(s, 1, q - 1) \o <<x>> \o SubSeq(s, q, Len(s))
    BY DEF InsertAt
  <2> QED
    BY <1>1, <1>3, <1>4, <1>5, <1>9, <1>11, <2>1
<1>13. /\ t \in Seq(S) /\ Len(t) = Len(u) + Len(b)
       /\ \A i \in 1..(Len(u) + Len(b)) : t[i] = IF i <= Len(u) THEN u[i] ELSE b[i - Len(u)]
  BY <1>7, <1>10, <1>11, ConcatProperties
<1>14. ASSUME NEW i \in 1..(Len(s) + 1)
       PROVE  t[i] = IF i < q THEN s[i] ELSE IF i = q THEN x ELSE s[i - 1]
  <2>1. CASE i <= q
    <3>1. i \in 1..(Len(u) + Len(b)) /\ i <= Len(u) /\ i \in 1..(k + 1)
      BY <1>2, <1>7, <1>10, <1>14, <2>1
    <3>2. t[i] = u[i] /\ u[i] = IF i <= k THEN s[i] ELSE x
      BY <1>10, <1>13, <3>1
    <3> QED
      BY <1>2, <1>14, <2>1, <3>2
  <2>2. CASE ~(i <= q)
    <3>1. i - q \in 1..(Len(s) - k) /\ k + (i - q) = i - 1
      BY <1>2, <1>14, <2>2
    <3>2. i \in 1..(Len(u) + Len(b)) /\ ~(i <= Len(u)) /\ Len(u) = q
      BY <1>2, <1>7, <1>10, <1>14, <2>2
    <3>3. t[i] = b[i - q]
      BY <1>13, <3>2
    <3>4. b[i - q] = s[k + (i - q)]
      BY <1>7, <3>1
    <3> QED
      BY <1>2, <1>14, <2>2, <3>1, <3>3, <3>4
  <2> QED
    BY <2>1, <2>2
<1>15. Len(t) = Len(s) + 1
  BY <1>2, <1>7, <1>10, <1>13
<1> QED
  BY <1>12, <1>13, <1>14, <1>15

(* iloutoforder keeps the list in order, and its own.                      *)
LEMMA OutoforderFacts ==
  ASSUME NEW S \in SUBSET Mess, NEW c \in Conv, c.outoforder \in Seq(S), Sorted(c.outoforder),
         NEW m \in Pack, [id |-> m.id, data |-> m.data] \in S, NEW d, d = Outoforder(c, m)
  PROVE  /\ d \in Conv /\ d = [c EXCEPT !.outoforder = d.outoforder]
         /\ d.outoforder \in Seq(S) /\ Sorted(d.outoforder)
<1>1. CASE ~Acceptable(c, m.id)
  BY <1>1 DEF Outoforder, Conv
<1>2. CASE Acceptable(c, m.id)
  <2>1. PICK s : s = c.outoforder
    OBVIOUS
  <2>2. s \in Seq(S) /\ Len(s) \in Nat /\ DOMAIN s = 1..Len(s) /\ \A i \in 1..Len(s) : s[i] \in S
    BY <2>1, LenProperties, ElementOfSeq
  <2>3. PICK x : x = [id |-> m.id, data |-> m.data]
    OBVIOUS
  <2>4. x \in S /\ x.id = m.id /\ x.id \in Nat
    BY <2>3 DEF Pack
  <2>5. PICK I : I = {i \in 1..Len(s) : s[i].id <= m.id}
    OBVIOUS
  <2>6. UpTo(s, m.id) = I
    BY <2>2, <2>5 DEF UpTo
  <2>7. Len(s) + 1 \notin I
    BY <2>2, <2>5
  <2>8. PICK k : k = Leading(s, I)
    OBVIOUS
  <2>9. k \in 0..Len(s) /\ 1..k \subseteq I /\ k + 1 \notin I
    BY <2>2, <2>7, <2>8, LeadingFacts
  <2>10. PICK q, t : q = k + 1 /\ t = InsertAt(s, q, x)
    OBVIOUS
  <2>11. /\ t \in Seq(S) /\ Len(t) = Len(s) + 1
         /\ \A i \in 1..(Len(s) + 1) : t[i] = IF i <= k THEN s[i] ELSE IF i = k + 1 THEN x ELSE s[i - 1]
    <3>1. q \in 1..(Len(s) + 1) /\ s \in Seq(S) /\ x \in S
      BY <2>2, <2>4, <2>9, <2>10
    <3>2. /\ t \in Seq(S) /\ Len(t) = Len(s) + 1
          /\ \A i \in 1..(Len(s) + 1) : t[i] = IF i < q THEN s[i] ELSE IF i = q THEN x ELSE s[i - 1]
      <4>1. t \in Seq(S)
        BY ONLY <2>10, <3>1, InsertAtFacts
      <4>2. Len(t) = Len(s) + 1
        BY ONLY <2>10, <3>1, InsertAtFacts
      <4>3. ASSUME NEW i \in 1..(Len(s) + 1)
            PROVE  t[i] = IF i < q THEN s[i] ELSE IF i = q THEN x ELSE s[i - 1]
        <5>1. InsertAt(s, q, x)[i] = IF i < q THEN s[i] ELSE IF i = q THEN x ELSE s[i - 1]
          BY ONLY <3>1, <4>3, InsertAtFacts
        <5> QED
          BY ONLY <2>10, <5>1
      <4> QED
        BY <4>1, <4>2, <4>3
    <3> QED
      BY <2>2, <2>9, <2>10, <3>2
  <2>12. d = [c EXCEPT !.outoforder = t]
    BY <1>2, <2>1, <2>3, <2>6, <2>8, <2>10 DEF Outoforder
  <2>13. \A i \in 1..Len(s) : s[i].id \in Nat /\ s[i].id # m.id
    BY <1>2, <2>1, <2>2 DEF Acceptable, Mess
  <2>14. \A i, j \in 1..Len(s) : i < j => s[i].id < s[j].id
    BY <2>1, <2>2 DEF Sorted
  <2>15. \A i \in 1..k : s[i].id < m.id
    BY <2>2, <2>4, <2>5, <2>9, <2>13
  <2>16. ASSUME NEW i \in (k + 1)..Len(s) PROVE s[i].id > m.id
    <3>1. k + 1 \in 1..Len(s) /\ k + 1 <= i
      BY <2>2, <2>9, <2>16
    <3>2. s[k + 1].id > m.id
      BY <2>4, <2>5, <2>9, <2>13, <3>1
    <3> QED
      BY <2>2, <2>4, <2>9, <2>13, <2>14, <3>1, <3>2
  <2>17. ASSUME NEW i \in 1..Len(t), NEW j \in 1..Len(t), i < j PROVE t[i].id < t[j].id
    <3>1. CASE j <= k
      BY <2>2, <2>9, <2>11, <2>14, <2>17, <3>1
    <3>2. CASE j = k + 1
      BY SMTT(60), <2>2, <2>4, <2>9, <2>11, <2>15, <2>17, <3>2
    <3>3. CASE j > k + 1
      <4>1. t[j] = s[j - 1] /\ j - 1 \in (k + 1)..Len(s)
        BY <2>2, <2>9, <2>11, <2>17, <3>3
      <4>2. CASE i <= k
        BY <2>2, <2>9, <2>11, <2>14, <2>17, <4>1, <4>2
      <4>3. CASE i = k + 1
        BY <2>2, <2>4, <2>9, <2>11, <2>16, <2>17, <4>1, <4>3
      <4>4. CASE i > k + 1
        <5>1. t[i] = s[i - 1] /\ i - 1 \in 1..Len(s) /\ i - 1 < j - 1
          BY <2>2, <2>9, <2>11, <2>17, <4>4
        <5> QED
          BY <2>2, <2>9, <2>14, <4>1, <5>1
      <4> QED
        BY <2>2, <2>9, <2>11, <2>17, <4>2, <4>3, <4>4
    <3> QED
      BY <2>2, <2>9, <2>11, <2>17, <3>1, <3>2, <3>3
  <2>18. Sorted(t)
    <3>1. DOMAIN t = 1..Len(t)
      BY <2>11, LenProperties
    <3> QED
      BY <2>17, <3>1 DEF Sorted
  <2>19. t \in Seq(Mess)
    BY <2>11, SeqMonotonic
  <2>20. d \in Conv /\ d.outoforder = t
    BY <2>12, <2>19 DEF Conv
  <2> QED
    BY <2>11, <2>12, <2>18, <2>20
<1> QED
  BY <1>1, <1>2
-----------------------------------------------------------------------------
(* d is c but for its lists and what they are counted by.                  *)
Alike(c, d) == /\ d.state = c.state /\ d.bound = c.bound /\ d.readq = c.readq
               /\ d.start = c.start /\ d.rstart = c.rstart /\ d.next = c.next

(* An established conversation knows where both its ends start.            *)
LEMMA EstablishedFacts ==
  ASSUME NEW e \in Ends, NEW n \in 0..Len(Starts), NEW c, NEW g, EndOk(e, c, g, n),
         c.state = "Ilestablished"
  PROVE  /\ c.start # 0 /\ n # 0
         /\ \E i \in From(Other(e), n) : c.rstart = Starts[i]
<1>1. c.rstart # 0 /\ c # NoConv
  BY DEF EndOk, GotOk, NoConv
<1>2. c.start # 0
  BY <1>1 DEF EndOk, StartOk
<1>3. CASE e = "a"
  <2>1. n # 0 /\ \E i \in 2..n : c.rstart = Starts[i]
    BY <1>1, <1>2, <1>3 DEF EndOk, StartOk
  <2> QED
    BY <1>2, <1>3, <2>1 DEF From, Other
<1>4. CASE e = "b"
  <2>1. n # 0 /\ c.rstart = Starts[1]
    BY <1>1, <1>2, <1>4 DEF EndOk, StartOk
  <2> QED
    BY <1>2, <1>4, <2>1 DEF From, Other
<1> QED
  BY <1>3, <1>4 DEF Ends

(* New lists and a new count keep an established end right.                *)
LEMMA EstablishedKept ==
  ASSUME NEW e \in Ends, NEW n \in 0..Len(Starts), NEW c, NEW g, EndOk(e, c, g, n),
         c.state = "Ilestablished", NEW d \in Conv, NEW h, Alike(c, d), GotOk(d, h),
         d.outoforder \in Seq(Sent(Other(e), n)), Sorted(d.outoforder),
         LastSent(d), Acked(d) >= 0
  PROVE  EndOk(e, d, h, n)
<1>1. c.start # 0
  BY EstablishedFacts
<1>2. StartOk(e, d, n)
  BY <1>1 DEF EndOk, StartOk, Alike
<1>3. d.state \notin Syncing
  BY DEF Alike, Syncing
<1> QED
  BY <1>2, <1>3 DEF EndOk, ListsOk

(* Messages that follow each other from the one after recvd, and each of   *)
(* which is of some conversation, are all of this one: it ends before the  *)
(* next begins.                                                            *)
LEMMA SameConversation ==
  ASSUME NEW e \in Ends, NEW n \in 0..Len(Starts), NEW r \in From(e, n), NEW l \in 0..Most,
         NEW s \in Seq(Sent(e, n)), NEW k \in 0..Len(s),
         \A i \in 1..k : s[i].id = Starts[r] + l + i
  PROVE  \A i \in 1..k : l + i <= Most /\ s[i].data = <<Starts[r], l + i>>
<1> DEFINE Good(i) == l + i <= Most /\ s[i].data = <<Starts[r], l + i>>
<1> SUFFICES ASSUME NEW x \in 1..k, ~Good(x) PROVE FALSE
  OBVIOUS
<1> HIDE DEF Good
<1>1. Len(s) \in Nat /\ Most \in Nat /\ l \in Nat /\ k \in Nat /\ k <= Len(s)
  BY LenProperties, ILAssumption
<1>2. PICK Bad : Bad = {i \in 1..k : ~Good(i)}
  OBVIOUS
<1>3. Bad \in SUBSET Nat /\ Bad # {}
  BY <1>1, <1>2
<1>4. PICK i \in Bad : \A j \in Bad : i <= j
  BY <1>3, LeastNat
<1>5. i \in 1..k /\ ~Good(i) /\ \A j \in 1..(i - 1) : Good(j)
  BY <1>1, <1>2, <1>4
<1>6. l + i <= Most + 1
  <2>1. CASE i = 1
    BY <1>1, <2>1
  <2>2. CASE i # 1
    <3>1. i - 1 \in 1..(i - 1)
      BY <1>1, <1>5, <2>2
    <3>2. l + (i - 1) <= Most
      BY <1>5, <3>1 DEF Good
    <3> QED
      BY <1>1, <1>5, <3>2
  <2> QED
    BY <2>1, <2>2
<1>7. s[i] \in Sent(e, n)
  <2>1. i \in 1..Len(s)
    BY <1>1, <1>5
  <2> QED
    BY <2>1, ElementOfSeq
<1>8. PICK j \in From(e, n), q \in 1..Most : s[i].id = Starts[j] + q /\ s[i].data = <<Starts[j], q>>
  BY <1>7, SentFacts
<1>9. Starts[j] + q = Starts[r] + l + i
  BY <1>5, <1>8
<1>10. r \in 1..Len(Starts) /\ j \in 1..Len(Starts) /\ Starts[r] \in Nat /\ Starts[j] \in Nat
  BY SentFacts, ILAssumption, ElementOfSeq
<1>11. PICK x1, x2, y : x1 = Starts[j] /\ x2 = Starts[r] /\ y = l + i
  OBVIOUS
<1>12. /\ x1 \in Nat /\ x2 \in Nat /\ y \in Nat /\ q \in Nat /\ Most \in Nat
       /\ q >= 1 /\ q <= Most /\ y >= 1 /\ y <= Most + 1 /\ x1 + q = x2 + y
  <2>1. i \in Nat /\ i >= 1 /\ x2 + l + i = x2 + (l + i)
    <3>1. i \in Nat /\ i >= 1 /\ x2 \in Nat
      BY <1>1, <1>5, <1>10, <1>11
    <3> QED
      BY ONLY <1>1, <3>1
  <2> QED
    BY <1>1, <1>6, <1>8, <1>9, <1>10, <1>11, <2>1
<1>13. j = r
  <2>1. ~(j < r)
    <3>1. SUFFICES ASSUME j < r PROVE FALSE
      OBVIOUS
    <3>2. x2 > x1 + Most + 2
      BY <1>10, <1>11, <3>1, ILAssumption
    <3> QED
      BY ONLY <1>12, <3>2
  <2>2. ~(r < j)
    <3>1. SUFFICES ASSUME r < j PROVE FALSE
      OBVIOUS
    <3>2. x1 > x2 + Most + 2
      BY <1>10, <1>11, <3>1, ILAssumption
    <3> QED
      BY ONLY <1>12, <3>2
  <2>3. j \in Int /\ r \in Int
    BY <1>10, LenProperties, ILAssumption
  <2> QED
    BY <2>1, <2>2, <2>3
<1>14. q = l + i
  BY SMTT(60), <1>11, <1>12, <1>13
<1> QED
  BY <1>1, <1>5, <1>8, <1>13, <1>14 DEF Good

(* d and h: what c and what was passed up, g, become.                      *)
PullsUp(e, c, g, n, d, h) ==
    EndOk(e, d, h, n) /\ Alike(c, d) /\ d.unacked = c.unacked /\ Len(h) >= Len(g)

(* ilpullup passes up messages of this conversation that follow those it   *)
(* passed up before.                                                       *)
LEMMA PullupFacts ==
  ASSUME NEW e \in Ends, NEW n \in 0..Len(Starts), NEW c, NEW g, EndOk(e, c, g, n),
         NEW d, NEW h, d = Pullup(e, c).conv, h = g \o Pullup(e, c).up
  PROVE  PullsUp(e, c, g, n, d, h)
<1> USE DEF PullsUp
<1>1. /\ g \in Seq(Nat \X Nat) /\ Len(g) \in Nat /\ DOMAIN g = 1..Len(g) /\ c \in Conv
      /\ Len(g) <= Most /\ Most \in Nat
  BY LenProperties, ILAssumption DEF EndOk, GotOk
<1>2. CASE ~c.readq \/ c.state # "Ilestablished"
  <2>1. d = c /\ h = g \o <<>>
    BY <1>2 DEF Pullup
  <2>2. h = g
    BY <1>1, <2>1, ConcatEmptySeq
  <2> QED
    BY <1>1, <2>1, <2>2 DEF Alike
<1>3. CASE c.readq /\ c.state = "Ilestablished"
  <2>1. PICK S : S = Sent(Other(e), n)
    OBVIOUS
  <2>2. PICK o, w : o = c.outoforder /\ w = c.recvd
    OBVIOUS
  <2>3. o \in Seq(S) /\ Sorted(o) /\ S \in SUBSET Mess /\ w \in Nat /\ w = c.rstart + Len(g) /\ Other(e) \in Ends
    <3>1. Other(e) \in Ends
      BY DEF Other, Ends
    <3>2. S \in SUBSET Mess
      BY <2>1, <3>1, SentFacts
    <3> QED
      BY <1>1, <1>3, <2>1, <2>2, <3>1, <3>2 DEF EndOk, ListsOk, GotOk, Conv
  <2>4. PICK s : s = DropUpTo(o, w)
    OBVIOUS
  <2>5. PICK m \in 0..Len(o) :
            /\ s \in Seq(S) /\ Len(s) = Len(o) - m
            /\ \A i \in 1..(Len(o) - m) : s[i] = o[m + i]
    <3>1. \E m \in 0..Len(o) :
            /\ DropUpTo(o, w) \in Seq(S) /\ Len(DropUpTo(o, w)) = Len(o) - m
            /\ \A i \in 1..(Len(o) - m) : DropUpTo(o, w)[i] = o[m + i]
            /\ \A i \in 1..m : o[i].id <= w
            /\ m < Len(o) => o[m + 1].id > w
      <4>1. S \in SUBSET Mess /\ o \in Seq(S) /\ w \in Nat
        BY <2>3
      <4> QED
        BY ONLY <4>1, DropUpToFacts
    <3> QED
      BY <2>4, <3>1
  <2>6. Sorted(s)
    <3>1. Len(o) \in Nat /\ m \in Nat /\ DOMAIN o = 1..Len(o) /\ DOMAIN s = 1..Len(s)
      BY <2>3, <2>5, LenProperties
    <3>2. \A i, j \in 1..Len(o) : i < j => o[i].id < o[j].id
      BY <2>3, <3>1 DEF Sorted
    <3>3. ASSUME NEW i \in 1..Len(s), NEW j \in 1..Len(s), i < j PROVE s[i].id < s[j].id
      <4>1. s[i] = o[m + i] /\ s[j] = o[m + j]
        BY <2>5, <3>3
      <4>2. m + i \in 1..Len(o) /\ m + j \in 1..Len(o) /\ m + i < m + j
        BY <2>5, <3>1, <3>3
      <4> QED
        BY <3>2, <4>1, <4>2
    <3> QED
      BY <3>1, <3>3 DEF Sorted
  <2>7. PICK b : b = [c EXCEPT !.outoforder = s]
    OBVIOUS
  <2>8. b.outoforder = s /\ b.recvd = w
    BY <1>1, <2>2, <2>7 DEF Conv
  <2>9. PICK I : I = {i \in 1..Len(s) : s[i].id = w + i}
    OBVIOUS
  <2>10. PICK k : k = Leading(s, I)
    OBVIOUS
  <2>11. Ready(b) = k
    <3>1. DOMAIN s = 1..Len(s)
      BY <2>5, LenProperties
    <3> QED
      BY <2>8, <2>9, <2>10, <3>1 DEF Ready
  <2>12. k \in 0..Len(s) /\ 1..k \subseteq I /\ Len(s) \in Nat
    <3>1. Len(s) \in Nat /\ s \in Seq(S)
      BY <2>5, LenProperties
    <3>2. Len(s) + 1 \notin I
      BY <2>9, <3>1
    <3> QED
      BY <2>10, <3>1, <3>2, LeadingFacts
  <2>13. PICK t : t = Drop(s, k)
    OBVIOUS
  <2>14. t \in Seq(S) /\ Len(t) = Len(s) - k /\ \A i \in 1..(Len(s) - k) : t[i] = s[k + i]
    <3>1. k \in 0..Len(s) /\ s \in Seq(S)
      BY <2>5, <2>12
    <3> QED
      BY ONLY <2>13, <3>1, DropFacts
  <2>15. Sorted(t)
    <3>1. DOMAIN s = 1..Len(s) /\ DOMAIN t = 1..Len(t)
      BY <2>5, <2>14, LenProperties
    <3>2. \A i, j \in 1..Len(s) : i < j => s[i].id < s[j].id
      BY <2>6, <3>1 DEF Sorted
    <3>3. ASSUME NEW i \in 1..Len(t), NEW j \in 1..Len(t), i < j PROVE t[i].id < t[j].id
      <4>1. t[i] = s[k + i] /\ t[j] = s[k + j]
        BY <2>14, <3>3
      <4>2. k + i \in 1..Len(s) /\ k + j \in 1..Len(s) /\ k + i < k + j
        BY <2>12, <2>14, <3>3
      <4> QED
        BY <3>2, <4>1, <4>2
    <3> QED
      BY <3>1, <3>3 DEF Sorted
  <2>16. PICK u : u = [i \in 1..k |-> s[i].data]
    OBVIOUS
  <2>17. PICK z : z = IF k = 0 THEN w ELSE s[k].id
    OBVIOUS
  <2>18. d = [b EXCEPT !.outoforder = t, !.recvd = z] /\ h = g \o u
    BY <1>3, <2>2, <2>4, <2>7, <2>8, <2>11, <2>13, <2>16, <2>17 DEF Pullup
  <2>19. z = w + k
    <3>1. k # 0 => k \in 1..k
      BY <2>12
    <3> QED
      BY <2>3, <2>9, <2>12, <2>17, <3>1
  <2>20. PICK r \in From(Other(e), n) : c.rstart = Starts[r]
    BY <1>3, EstablishedFacts
  <2>21. \A i \in 1..k : Len(g) + i <= Most /\ s[i].data = <<Starts[r], Len(g) + i>>
    <3>1. PICK l : l = Len(g)
      OBVIOUS
    <3>2. l \in 0..Most
      <4>1. l \in Nat /\ l <= Most /\ Most \in Nat
        BY <1>1, <3>1
      <4> QED
        BY ONLY <4>1
    <3>3. \A i \in 1..k : s[i].id = Starts[r] + l + i
      BY <2>3, <2>9, <2>12, <2>20, <3>1
    <3>4. \A i \in 1..k : l + i <= Most /\ s[i].data = <<Starts[r], l + i>>
      BY <2>1, <2>3, <2>5, <2>12, <2>20, <3>2, <3>3, SameConversation
    <3> QED
      BY <3>1, <3>4
  <2>22. Starts[r] \in Nat
    BY <1>1, <2>20 DEF Conv
  <2>23. u \in Seq(Nat \X Nat) /\ Len(u) = k /\ \A i \in 1..k : u[i] = <<Starts[r], Len(g) + i>>
    <3>1. \A i \in 1..k : <<Starts[r], Len(g) + i>> \in Nat \X Nat
      BY <1>1, <2>12, <2>22
    <3>2. u \in [1..k -> Nat \X Nat] /\ k \in Nat
      <4>1. k \in Nat
        BY <2>12
      <4>2. \A i \in 1..k : s[i].data \in Nat \X Nat
        BY <2>21, <3>1
      <4> QED
        BY <2>16, <4>1, <4>2
    <3>3. u \in Seq(Nat \X Nat) /\ Len(u) = k
      BY <3>2
    <3> QED
      BY <2>16, <2>21, <3>3
  <2>24. /\ h \in Seq(Nat \X Nat) /\ Len(h) = Len(g) + k
         /\ \A i \in 1..(Len(g) + k) : h[i] = IF i <= Len(g) THEN g[i] ELSE u[i - Len(g)]
    <3>1. PICK P : P = Nat \X Nat
      OBVIOUS
    <3>2. g \in Seq(P) /\ u \in Seq(P)
      BY <1>1, <2>23, <3>1
    <3>3. /\ h \in Seq(P) /\ Len(h) = Len(g) + Len(u)
          /\ \A i \in 1..(Len(g) + Len(u)) : h[i] = IF i <= Len(g) THEN g[i] ELSE u[i - Len(g)]
      BY <2>18, <3>2, ConcatProperties
    <3> QED
      BY <2>23, <3>1, <3>3
  <2>25. \A i \in 1..Len(g) : g[i] = <<Starts[r], i>>
    BY <1>1, <2>20 DEF EndOk, GotOk
  <2>26. ASSUME NEW i \in 1..Len(h) PROVE h[i] = <<Starts[r], i>>
    <3>1. CASE i <= Len(g)
      BY <1>1, <2>12, <2>24, <2>25, <2>26, <3>1
    <3>2. CASE ~(i <= Len(g))
      <4>1. i - Len(g) \in 1..k /\ Len(g) + (i - Len(g)) = i
        BY <1>1, <2>12, <2>24, <2>26, <3>2
      <4> QED
        BY <2>23, <2>24, <2>26, <3>2, <4>1
    <3> QED
      BY <3>1, <3>2
  <2>27. Len(h) <= Most
    <3>1. CASE k = 0
      <4>1. Len(h) = Len(g)
        <5>1. Len(g) \in Nat /\ Len(h) = Len(g) + k
          BY <1>1, <2>24
        <5> QED
          BY ONLY <3>1, <5>1
      <4> QED
        BY <1>1, <4>1
    <3>2. CASE k # 0
      <4>1. k \in 1..k
        BY <2>12, <3>2
      <4> QED
        BY <2>21, <2>24, <4>1
    <3> QED
      BY <3>1, <3>2
  <2>28. t \in Seq(Mess) /\ s \in Seq(Mess) /\ z \in Nat
    <3>1. t \in Seq(Mess)
      BY <2>3, <2>14, SeqMonotonic
    <3>2. s \in Seq(Mess)
      BY <2>3, <2>5, SeqMonotonic
    <3>3. z \in Nat
      BY <2>3, <2>12, <2>19
    <3> QED
      BY <3>1, <3>2, <3>3
  <2>29. b \in Conv
    BY <1>1, <2>7, <2>28 DEF Conv
  <2>30. d \in Conv /\ Alike(c, d) /\ d.unacked = c.unacked /\ d.outoforder = t /\ d.recvd = z
    BY <1>1, <2>7, <2>18, <2>28, <2>29 DEF Conv, Alike
  <2>31. GotOk(d, h)
    <3>1. d.recvd = d.rstart + Len(h) /\ d.rstart # 0
      <4>1. d.rstart = c.rstart /\ c.rstart # 0 /\ c.rstart \in Nat
        BY <1>3, <2>20, <2>22, <2>30 DEF Alike, EndOk, GotOk
      <4>2. d.recvd = w + k /\ w = c.rstart + Len(g) /\ Len(h) = Len(g) + k
        BY <2>3, <2>19, <2>24, <2>30
      <4>3. Len(g) \in Nat /\ k \in Nat
        BY <1>1, <2>12
      <4> QED
        BY ONLY <4>1, <4>2, <4>3
    <3>2. DOMAIN h = 1..Len(h) /\ d.rstart = Starts[r]
      BY <2>20, <2>24, <2>30, LenProperties DEF Alike
    <3>3. d.state \notin Syncing
      BY <1>3, <2>30 DEF Alike, Syncing
    <3> QED
      BY <2>24, <2>26, <2>27, <3>1, <3>2, <3>3 DEF GotOk
  <2>32. EndOk(e, d, h, n)
    <3>1. LastSent(d) /\ Acked(d) >= 0
      BY <1>3, <2>30, EstablishedFacts DEF EndOk, ListsOk, LastSent, Acked, Alike
    <3> QED
      BY <1>3, <2>1, <2>14, <2>15, <2>30, <2>31, <3>1, EstablishedKept
  <2> QED
    BY <1>1, <2>12, <2>24, <2>30, <2>32
<1> QED
  BY <1>1, <1>2, <1>3 DEF Conv

(* How many were acknowledged is a number.                                 *)
LEMMA AckedInt ==
  ASSUME NEW c \in Conv
  PROVE  Acked(c) \in Int
<1>1. Len(c.unacked) \in Nat /\ c.next \in Nat /\ c.start \in Nat
  BY LenProperties DEF Conv
<1> QED
  BY <1>1 DEF Acked

(* ilackto at an established end.                                          *)
LEMMA AcktoKept ==
  ASSUME NEW e \in Ends, NEW n \in 0..Len(Starts), NEW c, NEW g, EndOk(e, c, g, n),
         c.state = "Ilestablished", NEW ack \in Nat, NEW d, d = Ackto(c, ack)
  PROVE  /\ EndOk(e, d, g, n) /\ Alike(c, d)
         /\ Acked(d) = Acked(c) \/ Acked(d) <= ack - c.start
<1>1. c \in Conv /\ LastSent(c) /\ Acked(c) >= 0 /\ c.start # 0
  BY EstablishedFacts DEF EndOk, ListsOk
<1>2. /\ d \in Conv /\ LastSent(d)
      /\ d.unacked \in Seq(Mess) /\ d = [c EXCEPT !.unacked = d.unacked]
      /\ Acked(d) >= Acked(c)
      /\ Acked(d) = Acked(c) \/ Acked(d) <= ack - c.start
  BY <1>1, AcktoFacts
<1>3. Alike(c, d) /\ d.outoforder = c.outoforder /\ d.recvd = c.recvd
  BY <1>1, <1>2 DEF Alike, Conv
<1>4. Acked(d) >= 0
  <2>1. Acked(c) \in Int /\ Acked(d) \in Int
    BY ONLY <1>1, <1>2, AckedInt
  <2> QED
    BY <1>1, <1>2, <2>1
<1>5. GotOk(d, g)
  BY <1>3 DEF EndOk, GotOk, Alike
<1> QED
  BY <1>2, <1>3, <1>4, <1>5, EstablishedKept DEF EndOk, ListsOk

(* iloutoforder at an established end.                                     *)
LEMMA OutoforderKept ==
  ASSUME NEW e \in Ends, NEW n \in 0..Len(Starts), NEW c, NEW g, EndOk(e, c, g, n),
         c.state = "Ilestablished", NEW m \in Pack,
         [id |-> m.id, data |-> m.data] \in Sent(Other(e), n), NEW d, d = Outoforder(c, m)
  PROVE  EndOk(e, d, g, n) /\ Alike(c, d) /\ d.unacked = c.unacked
<1>1. c \in Conv /\ LastSent(c) /\ Acked(c) >= 0 /\ c.start # 0
  BY EstablishedFacts DEF EndOk, ListsOk
<1>2. Sent(Other(e), n) \in SUBSET Mess
  BY SentFacts DEF Other, Ends
<1>3. c.outoforder \in Seq(Sent(Other(e), n)) /\ Sorted(c.outoforder)
  BY DEF EndOk, ListsOk
<1>4. /\ d \in Conv /\ d = [c EXCEPT !.outoforder = d.outoforder]
      /\ d.outoforder \in Seq(Sent(Other(e), n)) /\ Sorted(d.outoforder)
  BY <1>1, <1>2, <1>3, OutoforderFacts
<1>5. Alike(c, d) /\ d.unacked = c.unacked /\ d.recvd = c.recvd
  BY <1>1, <1>4 DEF Alike, Conv
<1>6. LastSent(d) /\ Acked(d) >= 0
  BY <1>1, <1>5 DEF LastSent, Acked, Alike
<1>7. GotOk(d, g)
  BY <1>5 DEF EndOk, GotOk, Alike
<1> QED
  BY <1>4, <1>5, <1>6, <1>7, EstablishedKept

(* A conversation that ends keeps where it was, and may free its lists.    *)
LEMMA EndedKept ==
  ASSUME NEW e \in Ends, NEW n \in 0..Len(Starts), NEW c, NEW g, EndOk(e, c, g, n), c.start # 0,
         NEW d \in Conv, d.start = c.start, d.rstart = c.rstart, d.next = c.next, d.state \in Ended,
         d.unacked \in {c.unacked, <<>>}, d.outoforder \in {c.outoforder, <<>>}
  PROVE  EndOk(e, d, g, n)
<1>1. StartOk(e, d, n)
  BY DEF EndOk, StartOk, Ended
<1>2. GotOk(d, g)
  BY DEF EndOk, GotOk, Ended, Syncing
<1>3. c.start \in Nat /\ c.next \in Nat /\ c.next - c.start \in 1..(Most + 1) /\ Len(<<>>) = 0
  BY DEF EndOk, StartOk, Conv
<1>4. LastSent(d) /\ Acked(d) >= 0
  <2>1. CASE d.unacked = c.unacked
    BY <2>1 DEF EndOk, ListsOk, LastSent, Acked
  <2>2. CASE d.unacked = <<>>
    <3>1. \A f : <<>> = [i \in 1..0 |-> f[i]]
      BY EmptySeq
    <3>2. LastSent(d)
      BY <1>3, <2>2 DEF LastSent
    <3> QED
      BY <1>3, <2>2, <3>2, ILAssumption DEF Acked
  <2> QED
    BY <2>1, <2>2
<1>5. d.outoforder \in Seq(Sent(Other(e), n)) /\ Sorted(d.outoforder)
  <2>1. CASE d.outoforder = c.outoforder
    BY <2>1 DEF EndOk, ListsOk
  <2>2. CASE d.outoforder = <<>>
    BY <2>2, EmptySeq DEF Sorted
  <2> QED
    BY <2>1, <2>2
<1> QED
  BY <1>1, <1>2, <1>4, <1>5 DEF EndOk, ListsOk, Ended, Syncing

(* So does one that is only looked at.                                     *)
LEMMA SameKept ==
  ASSUME NEW e \in Ends, NEW n \in 0..Len(Starts), NEW c, NEW g, EndOk(e, c, g, n), c.start # 0,
         NEW d \in Conv, d.start = c.start, d.rstart = c.rstart, d.next = c.next, d.state = c.state,
         d.recvd = c.recvd, d.unacked = c.unacked, d.outoforder = c.outoforder
  PROVE  EndOk(e, d, g, n) /\ Acked(d) = Acked(c)
<1>1. StartOk(e, d, n)
  BY DEF EndOk, StartOk
<1>2. GotOk(d, g)
  BY DEF EndOk, GotOk
<1>3. LastSent(d) /\ Acked(d) = Acked(c)
  BY DEF EndOk, ListsOk, LastSent, Acked
<1> QED
  BY <1>1, <1>2, <1>3 DEF EndOk, ListsOk
-----------------------------------------------------------------------------
(* What an end goes on from: its conversation stays the one it is.         *)
Follows(c, d, g, h) ==
    /\ d.start = c.start /\ d.rstart = c.rstart /\ (d.state = c.state \/ d.state \in Ended)
    /\ Len(h) >= Len(g) /\ (h = g \/ c.state = "Ilestablished")

(* Then what packets in the network say stays true.                        *)
LEMMA StayFits ==
  ASSUME NEW v, NEW g, NEW n, EndsOk(v, g, n), NEW e \in Ends, NEW d, NEW h, EndOk(e, d, h, n),
         Follows(v[e], d, g[e], h), NEW w, w = [v EXCEPT ![e] = d], NEW k, k = [g EXCEPT ![e] = h],
         NEW m, NetOk(m, v, g, n)
  PROVE  NetOk(m, w, k, n)
<1>1. /\ w["a"].rstart = v["a"].rstart /\ w["a"].start = v["a"].start /\ w["b"].start = v["b"].start
      /\ w["a"].state \in Ended \/ w["a"].state = v["a"].state
      /\ w["b"].state \in Ended \/ w["b"].state = v["b"].state
      /\ Len(k["a"]) >= Len(g["a"]) /\ Len(k["b"]) >= Len(g["b"])
  <2>1. \A f \in Ends : /\ w[f] = IF f = e THEN d ELSE v[f]
                        /\ k[f] = IF f = e THEN h ELSE g[f]
    BY DEF EndsOk
  <2>2. \A f \in Ends : Len(g[f]) \in Nat
    BY LenProperties DEF EndsOk
  <2> QED
    BY <2>1, <2>2 DEF Ends, Follows
<1>2. /\ Len(k["a"]) \in Nat /\ Len(k["b"]) \in Nat /\ Len(g["a"]) \in Nat /\ Len(g["b"]) \in Nat
      /\ v["a"].rstart \in Nat /\ Starts[1] \in Nat /\ Known(w) = Known(v)
  <2>1. k \in [Ends -> Seq(Nat \X Nat)] /\ g \in [Ends -> Seq(Nat \X Nat)] /\ v["a"] \in Conv
    BY DEF EndsOk, EndOk, GotOk, Ends
  <2>2. Starts[1] \in Nat
    BY ILAssumption, ElementOfSeq, LenProperties
  <2> QED
    BY <1>1, <2>1, <2>2, LenProperties DEF Known, Conv, Ends
<1>3. m \in Pack /\ DataOk(m, n) /\ SyncOk(m, n) /\ m.ack \in Nat
  BY DEF NetOk, Pack
<1>4. AckOk(m, w, k)
  BY <1>1, <1>2, <1>3 DEF NetOk, AckOk
<1>5. CloseOk(m, w, n)
  BY <1>1 DEF NetOk, CloseOk
<1> QED
  BY <1>3, <1>4, <1>5 DEF NetOk

(* And so does what the ends know of each other.                           *)
LEMMA StayEnds ==
  ASSUME NEW v, NEW g, NEW n, EndsOk(v, g, n), NEW e \in Ends, NEW d, NEW h, EndOk(e, d, h, n),
         Follows(v[e], d, g[e], h), NEW w, w = [v EXCEPT ![e] = d], NEW k, k = [g EXCEPT ![e] = h],
         d.state = "Ilestablished" /\ Known(v) =>
             Acked(d) <= Acked(v[e]) \/ Acked(d) <= Len(g[Other(e)])
  PROVE  EndsOk(w, k, n)
<1>1. w \in [Ends -> Conv] /\ k \in [Ends -> Seq(Nat \X Nat)]
  BY DEF EndsOk, EndOk, GotOk
<1>2. \A f \in Ends : /\ w[f] = IF f = e THEN d ELSE v[f]
                      /\ k[f] = IF f = e THEN h ELSE g[f]
  BY DEF EndsOk
<1>3. \A f \in Ends : EndOk(f, w[f], k[f], n)
  BY <1>2 DEF EndsOk
<1>4. Known(w) = Known(v)
  BY <1>2 DEF Known, Follows, Ends
<1>5. Linked(w, k)
  BY <1>2, <1>4 DEF EndsOk, Linked, Follows, Ended, Ends
<1>6. \A f \in Ends : /\ Len(g[f]) \in Nat /\ Len(k[f]) \in Nat /\ Len(k[f]) >= Len(g[f])
                      /\ Acked(v[f]) \in Int /\ Acked(w[f]) \in Int
  <2>1. \A c \in Conv : Acked(c) \in Int
    BY AckedInt
  <2>2. \A f \in Ends : Len(g[f]) \in Nat /\ Len(k[f]) \in Nat
    BY <1>1, LenProperties DEF EndsOk
  <2>3. \A f \in Ends : Len(k[f]) >= Len(g[f])
    BY <1>2, <2>2 DEF Follows
  <2> QED
    BY <1>1, <2>1, <2>2, <2>3 DEF EndsOk
<1>7. CASE e = "a"
  <2>1. w["b"] = v["b"] /\ k["b"] = g["b"] /\ w["a"] = d /\ Other(e) = "b"
    BY <1>2, <1>7 DEF Ends, Other
  <2>2. d.state = "Ilestablished" => v["a"].state = "Ilestablished"
    BY <1>7 DEF Follows, Ended
  <2>3. d.state = "Ilestablished" /\ Known(v) => Acked(d) <= Len(g["b"])
    BY <1>6, <1>7, <2>1, <2>2 DEF EndsOk, Kept, Ends
  <2>4. v["b"].state = "Ilestablished" => Acked(v["b"]) <= Len(k["a"])
    BY <1>6 DEF EndsOk, Kept, Ends
  <2> QED
    BY <1>1, <1>3, <1>4, <1>5, <2>1, <2>3, <2>4 DEF EndsOk, Kept
<1>8. CASE e = "b"
  <2>1. w["a"] = v["a"] /\ k["a"] = g["a"] /\ w["b"] = d /\ Other(e) = "a"
    BY <1>2, <1>8 DEF Ends, Other
  <2>2. d.state = "Ilestablished" => v["b"].state = "Ilestablished"
    BY <1>8 DEF Follows, Ended
  <2>3. d.state = "Ilestablished" => Acked(d) <= Len(g["a"])
    BY <1>6, <1>8, <2>1, <2>2 DEF EndsOk, Kept, Linked, Ends
  <2>4. v["a"].state = "Ilestablished" /\ Known(v) => Acked(v["a"]) <= Len(k["b"])
    BY <1>6 DEF EndsOk, Kept, Ends
  <2> QED
    BY <1>1, <1>3, <1>4, <1>5, <2>1, <2>3, <2>4 DEF EndsOk, Kept
<1> QED
  BY <1>7, <1>8 DEF Ends
-----------------------------------------------------------------------------
(* What end e may send, its conversation being c.                          *)
SendsOk(e, c, n, m) ==
    /\ m \in Pack /\ m.to = Other(e) /\ c.start # 0
    /\ m.type \in DataTypes => [id |-> m.id, data |-> m.data] \in Sent(e, n)
    /\ m.type = "Ilsync" => c.state \in Syncing /\ m.id = c.start /\ m.ack = c.recvd
    /\ m.type \in AckTypes => c.state \in Syncing \cup {"Ilestablished"} /\ m.ack <= c.recvd
    /\ m.type = "Ilack" => c.state = "Ilestablished" /\ c.rstart <= m.ack
    /\ m.type = "Ilclose" => c.state \in Ended /\ m.id = c.next

(* Such a packet fits what the ends are.                                   *)
LEMMA SendFits ==
  ASSUME NEW v, NEW g, NEW n, EndsOk(v, g, n), NEW e \in Ends, NEW m, SendsOk(e, v[e], n, m)
  PROVE  NetOk(m, v, g, n)
<1> DEFINE c == v[e]
<1>1. /\ EndOk(e, c, g[e], n) /\ n \in 0..Len(Starts) /\ c \in Conv /\ c.start # 0
      /\ m \in Pack /\ m.to = Other(e)
  BY DEF EndsOk, EndOk, SendsOk
<1>2. /\ c.recvd \in Nat /\ c.rstart \in Nat /\ c.start \in Nat /\ c.next \in Nat
      /\ m.ack \in Nat /\ m.id \in Nat /\ Len(g[e]) \in Nat /\ Len(Starts) \in Nat
      /\ Starts[1] \in Nat /\ Starts[1] > 0
  <2>1. g[e] \in Seq(Nat \X Nat) /\ Starts \in Seq(Nat) /\ Len(Starts) > 1 /\ Starts[1] > 0
    BY ILAssumption DEF EndsOk
  <2>2. 1 \in 1..Len(Starts) /\ Len(Starts) \in Nat /\ Len(g[e]) \in Nat
    BY ONLY <2>1, LenProperties
  <2>3. Starts[1] \in Nat
    BY ONLY <2>1, <2>2, ElementOfSeq
  <2> QED
    BY <1>1, <2>1, <2>2, <2>3 DEF Conv, Pack
<1>3. DataOk(m, n)
  BY <1>1 DEF SendsOk, DataOk, Other, Ends
<1>4. c.state = "Ilestablished" => c.recvd = c.rstart + Len(g[e]) /\ c.rstart # 0
  BY <1>1 DEF EndOk, GotOk
<1>5. CASE e = "a"
  <2>1. n # 0 /\ c.start = Starts[1] /\ (c.state = "Ilsyncer" => c.rstart = 0 /\ c.recvd = 0)
        /\ c.state # "Ilsyncee" /\ m.to = "b" /\ c = v["a"] /\ g[e] = g["a"]
    BY <1>1, <1>2, <1>5 DEF EndOk, StartOk, Other
  <2>2. SyncOk(m, n)
    BY <2>1 DEF SendsOk, SyncOk, Syncing
  <2>3. AckOk(m, v, g)
    BY <1>2, <1>4, <2>1 DEF SendsOk, AckOk, Syncing
  <2>4. CloseOk(m, v, n)
    BY <2>1 DEF SendsOk, CloseOk
  <2> QED
    BY <1>1, <1>3, <2>2, <2>3, <2>4 DEF NetOk
<1>6. CASE e = "b"
  <2>1. /\ n \in 2..n /\ c.start = Starts[n] /\ c.rstart = Starts[1]
        /\ (c.state = "Ilsyncee" => c.recvd = c.rstart)
        /\ c.state # "Ilsyncer" /\ m.to = "a" /\ c = v["b"] /\ g[e] = g["b"]
    BY <1>1, <1>2, <1>6 DEF EndOk, StartOk, Other
  <2>2. SyncOk(m, n)
    BY <2>1 DEF SendsOk, SyncOk, Syncing
  <2>3. AckOk(m, v, g)
    BY <1>2, <1>4, <2>1 DEF SendsOk, AckOk, Syncing
  <2>4. CloseOk(m, v, n)
    <3>1. SUFFICES ASSUME m.type = "Ilclose" PROVE CloseOk(m, v, n)
      BY DEF CloseOk
    <3>2. c.state \in Ended /\ m.id = c.next /\ c.next - c.start \in 1..(Most + 1)
      BY <1>1, <3>1 DEF SendsOk, EndOk, StartOk
    <3> QED
      BY <2>1, <3>2 DEF CloseOk
  <2> QED
    BY <1>1, <1>3, <2>2, <2>3, <2>4 DEF NetOk
<1> QED
  BY <1>5, <1>6 DEF Ends

(* The network takes a packet or loses it.                                 *)
LEMMA NetStep ==
  ASSUME IsFiniteSet(net), Cardinality(net) <= Room, NEW ps, IsFiniteSet(ps),
         NEW t, t = IF Cardinality(net \cup ps) <= Room THEN net \cup ps ELSE net
  PROVE  IsFiniteSet(t) /\ Cardinality(t) <= Room /\ t \subseteq net \cup ps
BY FS_Union

(* What goes on from conversations v, of which g was passed up, and sends  *)
(* what it may, leaves the invariant.                                      *)
LEMMA StayAfter ==
  ASSUME NEW v, NEW g, NEW n, EndsOk(v, g, n), IsFiniteSet(net), Cardinality(net) <= Room,
         \A m \in net : NetOk(m, v, g, n),
         NEW e \in Ends, NEW d, NEW h, EndOk(e, d, h, n), Follows(v[e], d, g[e], h),
         d.state = "Ilestablished" /\ Known(v) =>
             Acked(d) <= Acked(v[e]) \/ Acked(d) <= Len(g[Other(e)]),
         NEW ps, IsFiniteSet(ps), \A m \in ps : SendsOk(e, d, n, m),
         conv' = [v EXCEPT ![e] = d], got' = [g EXCEPT ![e] = h], convs' = n,
         net' = IF Cardinality(net \cup ps) <= Room THEN net \cup ps ELSE net
  PROVE  IInv'
<1>1. conv'[e] = d
  BY DEF EndsOk
<1>2. EndsOk(conv', got', n)
  BY ONLY StayEnds, EndsOk(v, g, n), e \in Ends, EndOk(e, d, h, n), Follows(v[e], d, g[e], h),
          conv' = [v EXCEPT ![e] = d], got' = [g EXCEPT ![e] = h],
          d.state = "Ilestablished" /\ Known(v) =>
             Acked(d) <= Acked(v[e]) \/ Acked(d) <= Len(g[Other(e)])
<1>3. ASSUME NEW m \in net PROVE NetOk(m, conv', got', n)
  <2>1. NetOk(m, v, g, n)
    OBVIOUS
  <2> QED
    BY ONLY <2>1, StayFits, EndsOk(v, g, n), e \in Ends, EndOk(e, d, h, n),
            Follows(v[e], d, g[e], h), conv' = [v EXCEPT ![e] = d], got' = [g EXCEPT ![e] = h]
<1>4. ASSUME NEW m \in ps PROVE NetOk(m, conv', got', n)
  BY ONLY <1>1, <1>2, SendFits, e \in Ends, m \in ps, \A o \in ps : SendsOk(e, d, n, o)
<1>5. IsFiniteSet(net') /\ Cardinality(net') <= Room /\ net' \subseteq net \cup ps
  BY NetStep
<1> QED
  BY <1>2, <1>3, <1>4, <1>5 DEF IInv

(* A handler that leaves the conversation the one it is.                   *)
LEMMA StayAction ==
  ASSUME IInv, NEW e \in Ends, NEW d, NEW h, EndOk(e, d, h, convs), Follows(conv[e], d, got[e], h),
         d.state = "Ilestablished" /\ Known(conv) =>
             Acked(d) <= Acked(conv[e]) \/ Acked(d) <= Len(got[Other(e)]),
         NEW ps, IsFiniteSet(ps), \A m \in ps : SendsOk(e, d, convs, m),
         Becomes(e, d, ps), got' = [got EXCEPT ![e] = h], convs' = convs
  PROVE  IInv'
<1>1. /\ EndsOk(conv, got, convs) /\ IsFiniteSet(net) /\ Cardinality(net) <= Room
      /\ \A m \in net : NetOk(m, conv, got, convs)
  BY DEF IInv
<1>2. /\ conv' = [conv EXCEPT ![e] = d]
      /\ net' = IF Cardinality(net \cup ps) <= Room THEN net \cup ps ELSE net
  BY DEF Becomes
<1> QED
  BY <1>1, <1>2, StayAfter
-----------------------------------------------------------------------------
(* The starting numbers are numbers, and far enough from each other.       *)
LEMMA StartsFacts ==
  /\ Len(Starts) \in Nat /\ 1 \in 1..Len(Starts) /\ Most \in Nat
  /\ \A i \in 1..Len(Starts) : Starts[i] \in Nat /\ Starts[i] > 0
  /\ \A i, j \in 1..Len(Starts) : i < j => Starts[j] > Starts[i] + Most + 2
<1>1. Starts \in Seq(Nat) /\ Len(Starts) > 1 /\ Starts[1] > 0 /\ Most \in Nat
  BY ILAssumption
<1>2. Len(Starts) \in Nat /\ 1 \in 1..Len(Starts)
  BY ONLY <1>1, LenProperties
<1>3. \A i \in 1..Len(Starts) : Starts[i] \in Nat
  BY ONLY <1>1, ElementOfSeq
<1>4. \A i, j \in 1..Len(Starts) : i < j => Starts[j] > Starts[i] + Most + 2
  BY ILAssumption
<1>5. ASSUME NEW i \in 1..Len(Starts) PROVE Starts[i] > 0
  <2>1. i = 1 \/ 1 < i
    BY <1>2
  <2> QED
    BY <1>1, <1>2, <1>3, <1>4, <2>1
<1> QED
  BY <1>1, <1>2, <1>3, <1>4, <1>5

(* Each end satisfies its part of the invariant; a conversation that is    *)
(* anything but the one nobody has started has a start.                    *)
LEMMA EndFacts ==
  ASSUME IInv, NEW e \in Ends
  PROVE  /\ conv \in [Ends -> Conv] /\ conv[e] \in Conv /\ convs \in 0..Len(Starts)
         /\ got \in [Ends -> Seq(Nat \X Nat)] /\ EndOk(e, conv[e], got[e], convs)
         /\ conv[e].bound \/ conv[e].readq \/ conv[e].state # "Ilclosed" => conv[e].start # 0
<1>1. /\ conv \in [Ends -> Conv] /\ conv[e] \in Conv /\ convs \in 0..Len(Starts)
      /\ got \in [Ends -> Seq(Nat \X Nat)] /\ EndOk(e, conv[e], got[e], convs)
  BY DEF IInv, EndsOk
<1>2. conv[e].start = 0 => conv[e] = NoConv
  BY <1>1 DEF EndOk, StartOk
<1>3. ~NoConv.bound /\ ~NoConv.readq /\ NoConv.state = "Ilclosed"
  BY DEF NoConv
<1> QED
  BY <1>1, <1>2, <1>3

(* A packet without data.                                                  *)
LEMMA CtlSends ==
  ASSUME NEW e \in Ends, NEW c \in Conv, c.start # 0, NEW n, NEW t \in Types \ DataTypes,
         NEW id \in Nat, NEW ack \in Nat,
         t = "Ilsync" => c.state \in Syncing /\ id = c.start /\ ack = c.recvd,
         t \in AckTypes => c.state \in Syncing \cup {"Ilestablished"} /\ ack <= c.recvd,
         t = "Ilack" => c.state = "Ilestablished" /\ c.rstart <= ack,
         t = "Ilclose" => c.state \in Ended /\ id = c.next
  PROVE  IsFiniteSet(Ctl(e, t, id, ack)) /\ \A m \in Ctl(e, t, id, ack) : SendsOk(e, c, n, m)
<1> DEFINE m == Packet(e, t, id, ack, <<>>)
<1>1. Ctl(e, t, id, ack) = {m}
  BY DEF Ctl
<1>2. /\ m \in Pack /\ m.to = Other(e) /\ m.type = t /\ m.id = id /\ m.ack = ack
  BY DEF Packet, Pack, Other, Ends, Types
<1>3. SendsOk(e, c, n, m)
  BY <1>2 DEF SendsOk
<1> QED
  BY <1>1, <1>3, FS_Singleton

(* Nothing to send.                                                        *)
LEMMA NoneSent ==
  ASSUME NEW e, NEW c, NEW n
  PROVE  IsFiniteSet({}) /\ \A m \in {} : SendsOk(e, c, n, m)
BY FS_EmptySet

(* A handler that ends the conversation, or finds it ended.                *)
LEMMA EndingAction ==
  ASSUME IInv, NEW e \in Ends, conv[e].start # 0,
         NEW d \in Conv, d.start = conv[e].start, d.rstart = conv[e].rstart, d.next = conv[e].next,
         d.state \in Ended, d.unacked \in {conv[e].unacked, <<>>},
         d.outoforder \in {conv[e].outoforder, <<>>},
         NEW ps, ps = {} \/ \E ack \in Nat : ps = Ctl(e, "Ilclose", d.next, ack),
         Becomes(e, d, ps), got' = got, convs' = convs
  PROVE  IInv'
<1>1. EndOk(e, conv[e], got[e], convs) /\ convs \in 0..Len(Starts)
      /\ got \in [Ends -> Seq(Nat \X Nat)] /\ d.next \in Nat
  BY EndFacts DEF Conv
<1>2. EndOk(e, d, got[e], convs)
  BY ONLY <1>1, EndedKept, e \in Ends, conv[e].start # 0, d \in Conv, d.start = conv[e].start,
          d.rstart = conv[e].rstart, d.next = conv[e].next, d.state \in Ended,
          d.unacked \in {conv[e].unacked, <<>>}, d.outoforder \in {conv[e].outoforder, <<>>}
<1>3. IsFiniteSet(ps) /\ \A m \in ps : SendsOk(e, d, convs, m)
  <2>1. CASE ps = {}
    BY <2>1, NoneSent
  <2>2. ASSUME NEW ack \in Nat, ps = Ctl(e, "Ilclose", d.next, ack)
        PROVE  IsFiniteSet(ps) /\ \A m \in ps : SendsOk(e, d, convs, m)
    BY <1>1, <2>2, CtlSends DEF Types, DataTypes, AckTypes
  <2> QED
    BY <2>1, <2>2
<1>4. got[e] \in Seq(Nat \X Nat)
  BY <1>1
<1>5. Follows(conv[e], d, got[e], got[e]) /\ got' = [got EXCEPT ![e] = got[e]]
  BY <1>1, <1>4, LenProperties DEF Follows
<1>6. d.state # "Ilestablished"
  BY DEF Ended
<1> QED
  BY ONLY <1>2, <1>3, <1>5, <1>6, StayAction, IInv, e \in Ends, Becomes(e, d, ps), convs' = convs

(* A handler that only sends.                                              *)
LEMMA SameAction ==
  ASSUME IInv, NEW e \in Ends, conv[e].start # 0,
         NEW d \in Conv, d.start = conv[e].start, d.rstart = conv[e].rstart, d.next = conv[e].next,
         d.state = conv[e].state, d.recvd = conv[e].recvd, d.unacked = conv[e].unacked,
         d.outoforder = conv[e].outoforder,
         NEW ps, IsFiniteSet(ps), \A m \in ps : SendsOk(e, d, convs, m),
         Becomes(e, d, ps), got' = got, convs' = convs
  PROVE  IInv'
<1>1. EndOk(e, conv[e], got[e], convs) /\ convs \in 0..Len(Starts)
      /\ got \in [Ends -> Seq(Nat \X Nat)] /\ conv[e] \in Conv
  BY EndFacts
<1>2. EndOk(e, d, got[e], convs) /\ Acked(d) = Acked(conv[e])
  BY ONLY <1>1, SameKept, e \in Ends, conv[e].start # 0, d \in Conv, d.start = conv[e].start,
          d.rstart = conv[e].rstart, d.next = conv[e].next, d.state = conv[e].state,
          d.recvd = conv[e].recvd, d.unacked = conv[e].unacked, d.outoforder = conv[e].outoforder
<1>3. got[e] \in Seq(Nat \X Nat) /\ Acked(conv[e]) \in Int
  BY <1>1, AckedInt
<1>4. Follows(conv[e], d, got[e], got[e]) /\ got' = [got EXCEPT ![e] = got[e]]
  BY <1>1, <1>3, LenProperties DEF Follows
<1>5. Acked(d) <= Acked(conv[e])
  BY ONLY <1>2, <1>3
<1> QED
  BY ONLY <1>2, <1>4, <1>5, StayAction, IInv, e \in Ends, IsFiniteSet(ps),
          \A m \in ps : SendsOk(e, d, convs, m), Becomes(e, d, ps), convs' = convs

(* ilackto, of the acknowledgement in a packet, leaves to be sent again    *)
(* what the other user was not given.                                      *)
LEMMA AckFits ==
  ASSUME IInv, NEW e \in Ends, NEW m \in net, m.to = e, m.type \in AckTypes, Known(conv),
         conv[e].state = "Ilestablished"
  PROVE  m.ack - conv[e].start <= Len(got[Other(e)])
<1>1. AckOk(m, conv, got) /\ m \in Pack
  BY DEF IInv, NetOk
<1>2. /\ m.ack \in Nat /\ conv["a"] \in Conv /\ conv["b"] \in Conv
      /\ got["a"] \in Seq(Nat \X Nat) /\ got["b"] \in Seq(Nat \X Nat)
      /\ EndOk(e, conv[e], got[e], convs) /\ conv[e].start # 0
  BY <1>1, EndFacts DEF Pack, Ends
<1>3. conv["b"].start \in Nat /\ Starts[1] \in Nat /\ Len(got["a"]) \in Nat /\ Len(got["b"]) \in Nat
  <2>1. Len(got["a"]) \in Nat /\ Len(got["b"]) \in Nat
    BY ONLY <1>2, LenProperties
  <2> QED
    BY <1>2, <2>1, StartsFacts DEF Conv
<1>4. CASE e = "a"
  <2>1. conv["a"].start = Starts[1]
    BY <1>2, <1>4 DEF EndOk, StartOk
  <2> QED
    BY <1>1, <1>2, <1>3, <1>4, <2>1 DEF AckOk, Other
<1>5. CASE e = "b"
  BY <1>1, <1>2, <1>3, <1>5 DEF AckOk, Other, Known
<1> QED
  BY <1>4, <1>5 DEF Ends
-----------------------------------------------------------------------------
(* Handlers that leave the conversation the one it is.                     *)
LEMMA HungupStep ==
  ASSUME IInv, NEW e \in Ends, conv[e].start # 0, NEW ps,
         ps = {} \/ \E ack \in Nat : ps = Ctl(e, "Ilclose", conv[e].next, ack),
         Becomes(e, Hungup(conv[e]), ps), got' = got, convs' = convs
  PROVE  IInv'
<1> DEFINE d == Hungup(conv[e])
<1>1. conv[e] \in Conv
  BY EndFacts
<1>2. /\ d \in Conv /\ d.start = conv[e].start /\ d.rstart = conv[e].rstart /\ d.next = conv[e].next
      /\ d.state \in Ended /\ d.unacked = conv[e].unacked /\ d.outoforder = conv[e].outoforder
  BY <1>1 DEF Hungup, Conv, States, Ended
<1> HIDE DEF d
<1> QED
  BY <1>2, EndingAction DEF d

(* A sync at an established end: one of its own is answered.               *)
LEMMA ProcessSyncStep ==
  ASSUME IInv, NEW e \in Ends, NEW m \in net, ProcessSync(e, m)
  PROVE  IInv'
<1>1. /\ conv[e] \in Conv /\ conv[e].start # 0 /\ EndOk(e, conv[e], got[e], convs)
      /\ got[e] \in Seq(Nat \X Nat) /\ conv[e].state = "Ilestablished"
      /\ got' = got /\ convs' = convs
  BY EndFacts DEF ProcessSync, For
<1>2. CASE ~IsMySync(conv[e], m)
  BY <1>1, <1>2, HungupStep DEF ProcessSync
<1>3. CASE IsMySync(conv[e], m)
  <2> DEFINE c == conv[e]
             ps == Ctl(e, "Ilack", c.next, c.rstart)
  <2>1. Becomes(e, c, ps)
    BY <1>3 DEF ProcessSync
  <2>2. Len(got[e]) \in Nat /\ c.rstart \in Nat /\ c.next \in Nat
    BY <1>1, LenProperties DEF Conv
  <2>3. c.recvd = c.rstart + Len(got[e])
    BY <1>1 DEF EndOk, GotOk
  <2>4. c.rstart <= c.recvd /\ c.rstart <= c.rstart
    BY <2>2, <2>3
  <2>5. IsFiniteSet(ps) /\ \A o \in ps : SendsOk(e, c, convs, o)
    BY <1>1, <2>2, <2>4, CtlSends DEF Types, DataTypes
  <2> HIDE DEF ps
  <2> QED
    BY <1>1, <2>1, <2>5, SameAction
<1> QED
  BY <1>2, <1>3

(* A close at an established end frees the lists.                          *)
LEMMA ProcessCloseStep ==
  ASSUME IInv, NEW e \in Ends, NEW m \in net, ProcessClose(e, m)
  PROVE  IInv'
<1> DEFINE c == conv[e]
           d == [Freed(c) EXCEPT !.state = "Ilclosing"]
<1>1. /\ c \in Conv /\ c.start # 0 /\ got' = got /\ convs' = convs
      /\ Becomes(e, d, Ctl(e, "Ilclose", c.next, c.recvd))
  BY EndFacts DEF ProcessClose, For, Tell
<1>2. /\ d \in Conv /\ d.start = c.start /\ d.rstart = c.rstart /\ d.next = c.next
      /\ d.state \in Ended /\ d.unacked = <<>> /\ d.outoforder = <<>> /\ c.recvd \in Nat
  BY <1>1, EmptySeq DEF Freed, Conv, States, Ended
<1> HIDE DEF d
<1> QED
  BY <1>1, <1>2, EndingAction

(* A close at an end that is closing.                                      *)
LEMMA ProcessClosingStep ==
  ASSUME IInv, NEW e \in Ends, NEW m \in net, ProcessClosing(e, m)
  PROVE  IInv'
<1> DEFINE c == [conv[e] EXCEPT !.recvd = m.id]
           d == IF m.ack = c.next THEN Hungup(c) ELSE c
<1>1. /\ conv[e] \in Conv /\ conv[e].start # 0 /\ conv[e].state = "Ilclosing"
      /\ got' = got /\ convs' = convs /\ Becomes(e, d, Ctl(e, "Ilclose", c.next, c.recvd))
  BY EndFacts DEF ProcessClosing, For, Tell
<1>2. m.id \in Nat
  BY DEF IInv, NetOk, Pack
<1>3. /\ d \in Conv /\ d.start = conv[e].start /\ d.rstart = conv[e].rstart /\ d.next = conv[e].next
      /\ d.state \in Ended /\ d.unacked = conv[e].unacked /\ d.outoforder = conv[e].outoforder
      /\ c.recvd \in Nat /\ c.next = conv[e].next
  BY <1>1, <1>2 DEF Hungup, Conv, States, Ended
<1> HIDE DEF d, c
<1> QED
  BY <1>1, <1>3, EndingAction

(* The user closes.                                                        *)
LEMMA CloseStep ==
  ASSUME IInv, NEW e \in Ends, Close(e)
  PROVE  IInv'
<1>1. conv[e] \in Conv /\ conv[e].start # 0 /\ conv[e].recvd \in Nat /\ got' = got /\ convs' = convs
  BY EndFacts DEF Close, Conv
<1>2. CASE Becomes(e, [Freed(conv[e]) EXCEPT !.state = "Ilclosing", !.readq = FALSE],
                   Tell(e, conv[e], "Ilclose"))
  <2> DEFINE d == [Freed(conv[e]) EXCEPT !.state = "Ilclosing", !.readq = FALSE]
  <2>1. /\ d \in Conv /\ d.start = conv[e].start /\ d.rstart = conv[e].rstart
        /\ d.next = conv[e].next /\ d.state \in Ended /\ d.unacked = <<>> /\ d.outoforder = <<>>
    BY <1>1, EmptySeq DEF Freed, Conv, States, Ended
  <2>2. Becomes(e, d, Ctl(e, "Ilclose", conv[e].next, conv[e].recvd))
    BY <1>2 DEF Tell
  <2> HIDE DEF d
  <2> QED
    BY <1>1, <2>1, <2>2, EndingAction
<1>3. CASE /\ conv[e].state \in {"Ilclosed", "Ilclosing"}
           /\ Becomes(e, [conv[e] EXCEPT !.readq = FALSE], {})
  <2> DEFINE d == [conv[e] EXCEPT !.readq = FALSE]
  <2>1. /\ d \in Conv /\ d.start = conv[e].start /\ d.rstart = conv[e].rstart
        /\ d.next = conv[e].next /\ d.state \in Ended
        /\ d.unacked = conv[e].unacked /\ d.outoforder = conv[e].outoforder
    BY <1>1, <1>3 DEF Conv, States, Ended
  <2>2. Becomes(e, d, {})
    BY <1>3
  <2> HIDE DEF d
  <2> QED
    BY <1>1, <2>1, <2>2, EndingAction
<1> QED
  BY <1>2, <1>3 DEF Close

(* The end gives up.                                                       *)
LEMMA TimeOutStep ==
  ASSUME IInv, NEW e \in Ends, TimeOut(e)
  PROVE  IInv'
BY EndFacts, HungupStep DEF TimeOut

(* The listener's user opens the conversation.                             *)
LEMMA OpenStep ==
  ASSUME IInv, Open
  PROVE  IInv'
<1> DEFINE d == [conv["b"] EXCEPT !.readq = TRUE]
<1>1. /\ conv["b"] \in Conv /\ conv["b"].start # 0 /\ Becomes("b", d, {})
      /\ got' = got /\ convs' = convs
  BY EndFacts DEF Open, Ends
<1>2. /\ d \in Conv /\ d.start = conv["b"].start /\ d.rstart = conv["b"].rstart
      /\ d.next = conv["b"].next /\ d.state = conv["b"].state /\ d.recvd = conv["b"].recvd
      /\ d.unacked = conv["b"].unacked /\ d.outoforder = conv["b"].outoforder
  BY <1>1 DEF Conv
<1> HIDE DEF d
<1> QED
  BY <1>1, <1>2, NoneSent, SameAction DEF Ends

(* The network loses a packet.                                             *)
LEMMA LoseStep ==
  ASSUME IInv, NEW m, Lose(m)
  PROVE  IInv'
<1>1. net' \subseteq net /\ conv' = conv /\ got' = got /\ convs' = convs
  BY DEF Lose
<1>2. IsFiniteSet(net') /\ Cardinality(net') <= Cardinality(net)
  BY <1>1, FS_Subset DEF IInv
<1>3. Cardinality(net) \in Nat /\ Cardinality(net') \in Nat
  BY <1>2, FS_CardinalityType DEF IInv
<1> QED
  BY <1>1, <1>2, <1>3, ILAssumption DEF IInv
(* A conversation that was started has a number of its end.                *)
LEMMA StartFrom ==
  ASSUME NEW e \in Ends, NEW n \in 0..Len(Starts), NEW c, NEW g, EndOk(e, c, g, n), c.start # 0
  PROVE  \E i \in From(e, n) : c.start = Starts[i]
<1>1. CASE e = "a"
  BY <1>1 DEF EndOk, StartOk, From
<1>2. CASE e = "b"
  <2>1. n \in 2..n /\ c.start = Starts[n]
    BY <1>2, StartsFacts DEF EndOk, StartOk
  <2> QED
    BY <1>2, <2>1 DEF From
<1> QED
  BY <1>1, <1>2 DEF Ends

(* A packet with data is one of those sent.                                *)
LEMMA DataSends ==
  ASSUME NEW e \in Ends, NEW n \in 0..Len(Starts), NEW c, NEW g, EndOk(e, c, g, n), c.start # 0,
         NEW d \in Conv, d.start # 0, d.state \in Syncing \cup {"Ilestablished"},
         NEW t \in DataTypes, NEW k \in 1..Most, NEW x, x = Message(c.start, k),
         NEW m, m = Packet(e, t, x.id, d.recvd, x.data)
  PROVE  IsFiniteSet({m}) /\ \A o \in {m} : SendsOk(e, d, n, o)
<1>1. PICK i \in From(e, n) : c.start = Starts[i]
  BY StartFrom
<1>2. x \in Sent(e, n) /\ c.start \in Nat /\ k \in Nat /\ d.recvd \in Nat
  BY SMTT(60), <1>1, StartsFacts DEF Sent, EndOk, Conv
<1>3. /\ x.id = c.start + k /\ x.data = <<c.start, k>> /\ x = [id |-> x.id, data |-> x.data]
  BY DEF Message
<1>4. /\ m \in Pack /\ m.to = Other(e) /\ m.type = t /\ m.id = x.id /\ m.ack = d.recvd
      /\ m.data = x.data
  BY <1>2, <1>3 DEF Packet, Pack, Other, Ends, Types, DataTypes
<1>5. d.recvd <= d.recvd
  BY <1>2
<1>6. SendsOk(e, d, n, m)
  BY <1>2, <1>3, <1>4, <1>5 DEF SendsOk, DataTypes
<1> QED
  BY <1>6, FS_Singleton

(* What is sent again was sent before.                                     *)
LEMMA RexmitSends ==
  ASSUME NEW e \in Ends, NEW n \in 0..Len(Starts), NEW c, NEW g, EndOk(e, c, g, n),
         c.state = "Ilestablished"
  PROVE  IsFiniteSet(Rexmit(e, c)) /\ \A m \in Rexmit(e, c) : SendsOk(e, c, n, m)
<1>1. CASE c.unacked = <<>>
  BY <1>1, NoneSent DEF Rexmit
<1>2. CASE c.unacked # <<>>
  <2>1. c.start # 0 /\ c \in Conv /\ LastSent(c) /\ Acked(c) >= 0 /\ c.next - c.start \in 1..(Most + 1)
    BY EstablishedFacts DEF EndOk, ListsOk, StartOk
  <2>2. c.unacked \in Seq(Mess) /\ c.start \in Nat /\ c.next \in Nat /\ c.recvd \in Nat
    BY <2>1 DEF Conv
  <2>3. PICK l : l = Len(c.unacked)
    OBVIOUS
  <2>4. l \in Nat /\ l # 0
    BY ONLY <1>2, <2>2, <2>3, LenProperties, EmptySeq
  <2>5. PICK k : k = c.next - c.start - 1 - l + 1
    OBVIOUS
  <2>6. c.next - c.start - 1 - l >= 0
    BY <2>1, <2>3 DEF Acked
  <2>7. k \in 1..Most
    <3>1. c.next - c.start \in 1..(Most + 1) /\ Most \in Nat
      BY <2>1, StartsFacts
    <3> QED
      BY ONLY SMTT(60), <2>2, <2>4, <2>5, <2>6, <3>1
  <2>8. c.unacked[1] = Message(c.start, k)
    <3>1. c.unacked = [i \in 1..l |-> Message(c.start, c.next - c.start - 1 - l + i)] /\ 1 \in 1..l
      BY <2>1, <2>3, <2>4 DEF LastSent
    <3> QED
      BY <2>5, <3>1
  <2>9. Rexmit(e, c) = {Packet(e, "Ildataquery", c.unacked[1].id, c.recvd, c.unacked[1].data)}
    BY <1>2 DEF Rexmit
  <2>10. PICK x : x = Message(c.start, k)
    OBVIOUS
  <2>11. PICK m : m = Packet(e, "Ildataquery", x.id, c.recvd, x.data)
    OBVIOUS
  <2>12. IsFiniteSet({m}) /\ \A o \in {m} : SendsOk(e, c, n, o)
    BY <2>1, <2>7, <2>10, <2>11, DataSends DEF DataTypes
  <2> QED
    BY <2>8, <2>9, <2>10, <2>11, <2>12
<1> QED
  BY <1>1, <1>2

(* What an established end tells the other.                                *)
LEMMA TellSends ==
  ASSUME NEW e \in Ends, NEW n \in 0..Len(Starts), NEW c, NEW g, EndOk(e, c, g, n),
         c.state = "Ilestablished", NEW t \in {"Ilack", "Ilquerey", "Ilstate"}
  PROVE  IsFiniteSet(Tell(e, c, t)) /\ \A m \in Tell(e, c, t) : SendsOk(e, c, n, m)
<1>1. /\ c \in Conv /\ c.start # 0 /\ g \in Seq(Nat \X Nat) /\ c.recvd = c.rstart + Len(g)
  <2>1. c.start # 0
    BY EstablishedFacts
  <2> QED
    BY <2>1 DEF EndOk, GotOk
<1>2. c.recvd \in Nat /\ c.next \in Nat /\ c.rstart \in Nat /\ Len(g) \in Nat
  BY <1>1, LenProperties DEF Conv
<1>3. c.rstart <= c.recvd /\ c.recvd <= c.recvd
  BY <1>1, <1>2
<1> QED
  BY <1>1, <1>2, <1>3, CtlSends DEF Tell, Types, DataTypes

(* An acknowledgement, a query or a state at an established end.           *)
LEMMA ProcessAckStep ==
  ASSUME IInv, NEW e \in Ends, NEW m \in net, ProcessAck(e, m)
  PROVE  IInv'
<1>1. PICK d : d = Ackto(conv[e], m.ack)
  OBVIOUS
<1>2. PICK ps : ps = CASE m.type = "Ilack"    -> {}
                       [] m.type = "Ilquerey" -> Tell(e, d, "Ilstate")
                       [] m.type = "Ilstate"  -> Rexmit(e, d)
  OBVIOUS
<1>3. /\ m.to = e /\ m.type \in {"Ilack", "Ilquerey", "Ilstate"} /\ conv[e].state = "Ilestablished"
      /\ got' = got /\ convs' = convs /\ Becomes(e, d, ps)
  BY <1>1, <1>2 DEF ProcessAck, For
<1>4. /\ EndOk(e, conv[e], got[e], convs) /\ convs \in 0..Len(Starts) /\ m.ack \in Nat
      /\ got \in [Ends -> Seq(Nat \X Nat)]
  BY EndFacts DEF IInv, NetOk, Pack
<1>5. /\ EndOk(e, d, got[e], convs) /\ Alike(conv[e], d)
      /\ Acked(d) = Acked(conv[e]) \/ Acked(d) <= m.ack - conv[e].start
  BY <1>1, <1>3, <1>4, AcktoKept
<1>6. /\ Acked(d) \in Int /\ Acked(conv[e]) \in Int /\ conv[e].start \in Nat
      /\ Len(got[Other(e)]) \in Nat /\ Len(got[e]) \in Nat
  <2>1. conv[e] \in Conv /\ d \in Conv /\ got[Other(e)] \in Seq(Nat \X Nat)
        /\ got[e] \in Seq(Nat \X Nat)
    BY <1>4, <1>5 DEF EndOk, Other, Ends
  <2>2. conv[e].start \in Nat
    BY <2>1 DEF Conv
  <2> QED
    BY ONLY <2>1, <2>2, LenProperties, AckedInt
<1>7. Known(conv) => m.ack - conv[e].start <= Len(got[Other(e)])
  BY <1>3, AckFits DEF AckTypes
<1>8. Known(conv) => Acked(d) <= Acked(conv[e]) \/ Acked(d) <= Len(got[Other(e)])
  BY ONLY <1>4, <1>5, <1>6, <1>7
<1>9. d.state = "Ilestablished"
  BY <1>3, <1>5 DEF Alike
<1>10. IsFiniteSet(ps) /\ \A o \in ps : SendsOk(e, d, convs, o)
  <2>1. CASE m.type = "Ilack"
    BY <1>2, <2>1, NoneSent
  <2>2. CASE m.type = "Ilquerey"
    <3>1. ps = Tell(e, d, "Ilstate")
      BY <1>2, <2>2
    <3> QED
      BY <1>4, <1>5, <1>9, <3>1, TellSends
  <2>3. CASE m.type = "Ilstate"
    <3>1. ps = Rexmit(e, d)
      BY <1>2, <2>3
    <3> QED
      BY <1>4, <1>5, <1>9, <3>1, RexmitSends
  <2> QED
    BY <1>3, <2>1, <2>2, <2>3
<1>11. Follows(conv[e], d, got[e], got[e]) /\ got' = [got EXCEPT ![e] = got[e]]
  BY <1>3, <1>4, <1>5, <1>6 DEF Follows, Alike
<1> QED
  BY ONLY <1>3, <1>5, <1>8, <1>10, <1>11, StayAction, IInv, e \in Ends
(* Data at an established end: what it acknowledges goes, what it brings   *)
(* is kept, and what is ready is passed up.                                *)
LEMMA ProcessDataStep ==
  ASSUME IInv, NEW e \in Ends, NEW m \in net, ProcessData(e, m)
  PROVE  IInv'
<1>1. PICK a : a = Ackto(conv[e], m.ack)
  OBVIOUS
<1>2. PICK o : o = Outoforder(a, m)
  OBVIOUS
<1>3. PICK d : d = Pullup(e, o).conv
  OBVIOUS
<1>4. PICK h : h = got[e] \o Pullup(e, o).up
  OBVIOUS
<1>5. PICK ps : ps = IF m.type = "Ildataquery" THEN Tell(e, d, "Ilstate") ELSE {}
  OBVIOUS
<1>6. /\ m.to = e /\ m.type \in DataTypes /\ conv[e].state = "Ilestablished" /\ convs' = convs
  BY DEF ProcessData, For, DataTypes
<1>7. got' = [got EXCEPT ![e] = h] /\ Becomes(e, d, ps)
  BY <1>1, <1>2, <1>3, <1>4, <1>5 DEF ProcessData, PulledUp
<1>8. /\ EndOk(e, conv[e], got[e], convs) /\ convs \in 0..Len(Starts) /\ m.ack \in Nat /\ m \in Pack
      /\ got \in [Ends -> Seq(Nat \X Nat)] /\ conv[e] \in Conv
      /\ [id |-> m.id, data |-> m.data] \in Sent(Other(e), convs)
  BY <1>6, EndFacts DEF IInv, NetOk, Pack, DataOk
<1>9. /\ EndOk(e, a, got[e], convs) /\ Alike(conv[e], a)
      /\ Acked(a) = Acked(conv[e]) \/ Acked(a) <= m.ack - conv[e].start
  BY <1>1, <1>6, <1>8, AcktoKept
<1>10. EndOk(e, o, got[e], convs) /\ Alike(a, o) /\ o.unacked = a.unacked
  <2>1. a.state = "Ilestablished"
    BY <1>6, <1>9 DEF Alike
  <2> QED
    BY ONLY <1>2, <1>8, <1>9, <2>1, OutoforderKept, e \in Ends
<1>11. EndOk(e, d, h, convs) /\ Alike(o, d) /\ d.unacked = o.unacked /\ Len(h) >= Len(got[e])
  <2>1. convs \in 0..Len(Starts) /\ EndOk(e, o, got[e], convs)
    BY <1>8, <1>10
  <2>2. PullsUp(e, o, got[e], convs, d, h)
    BY ONLY <1>3, <1>4, <2>1, PullupFacts, e \in Ends
  <2> QED
    BY <2>2 DEF PullsUp
<1>12. Alike(conv[e], d) /\ Acked(d) = Acked(a) /\ d.state = "Ilestablished"
  BY <1>6, <1>9, <1>10, <1>11 DEF Alike, Acked
<1>13. /\ Acked(a) \in Int /\ Acked(conv[e]) \in Int /\ conv[e].start \in Nat
       /\ Len(got[Other(e)]) \in Nat
  <2>1. a \in Conv /\ got[Other(e)] \in Seq(Nat \X Nat)
    BY <1>8, <1>9 DEF EndOk, Other, Ends
  <2>2. conv[e].start \in Nat
    BY <1>8 DEF Conv
  <2> QED
    BY ONLY <1>8, <2>1, <2>2, LenProperties, AckedInt
<1>14. Known(conv) => m.ack - conv[e].start <= Len(got[Other(e)])
  BY <1>6, AckFits DEF AckTypes
<1>15. Known(conv) => Acked(d) <= Acked(conv[e]) \/ Acked(d) <= Len(got[Other(e)])
  BY ONLY <1>8, <1>9, <1>12, <1>13, <1>14
<1>16. IsFiniteSet(ps) /\ \A x \in ps : SendsOk(e, d, convs, x)
  <2>1. CASE m.type = "Ildataquery"
    <3>1. ps = Tell(e, d, "Ilstate")
      BY <1>5, <2>1
    <3> QED
      BY <1>8, <1>11, <1>12, <3>1, TellSends
  <2>2. CASE m.type # "Ildataquery"
    BY <1>5, <2>2, NoneSent
  <2> QED
    BY <2>1, <2>2
<1>17. Follows(conv[e], d, got[e], h)
  BY <1>6, <1>11, <1>12 DEF Follows, Alike
<1> QED
  BY ONLY <1>6, <1>7, <1>11, <1>15, <1>16, <1>17, StayAction, IInv, e \in Ends

(* What the timer sends again.                                             *)
LEMMA TimerStep ==
  ASSUME IInv, NEW e \in Ends, Timer(e)
  PROVE  IInv'
<1> DEFINE c == conv[e]
<1>1. /\ c \in Conv /\ EndOk(e, c, got[e], convs) /\ convs \in 0..Len(Starts)
      /\ got' = got /\ convs' = convs /\ c.start # 0
  BY EndFacts DEF Timer
<1>2. c.next \in Nat /\ c.start \in Nat /\ c.recvd \in Nat
  BY <1>1 DEF Conv
<1> HIDE DEF c
<1>3. ASSUME NEW ps, IsFiniteSet(ps), \A m \in ps : SendsOk(e, c, convs, m), Becomes(e, c, ps)
      PROVE  IInv'
  BY <1>1, <1>3, SameAction DEF c
<1>4. CASE c.state \in {"Ilsyncer", "Ilsyncee"} /\ Becomes(e, c, Ctl(e, "Ilsync", c.start, c.recvd))
  <2> DEFINE ps == Ctl(e, "Ilsync", c.start, c.recvd)
  <2>1. IsFiniteSet(ps) /\ \A m \in ps : SendsOk(e, c, convs, m)
    BY <1>1, <1>2, <1>4, CtlSends DEF Types, DataTypes, AckTypes, Syncing
  <2> QED
    BY <1>3, <1>4, <2>1
<1>5. CASE c.state = "Ilclosing" /\ Becomes(e, c, Tell(e, c, "Ilclose"))
  <2>1. c.state \in Ended /\ Becomes(e, c, Ctl(e, "Ilclose", c.next, c.recvd))
    BY <1>5 DEF Tell, Ended
  <2> QED
    BY <1>1, <1>2, <2>1, EndingAction DEF c
<1>6. CASE c.state = "Ilestablished" /\ Becomes(e, c, Tell(e, c, "Ilack"))
  BY <1>1, <1>3, <1>6, TellSends
<1>7. CASE c.state = "Ilestablished" /\ Becomes(e, c, Tell(e, c, "Ilquerey"))
  BY <1>1, <1>3, <1>7, TellSends
<1>8. CASE c.state = "Ilestablished" /\ Becomes(e, c, Rexmit(e, c))
  BY <1>1, <1>3, <1>8, RexmitSends
<1> QED
  BY <1>4, <1>5, <1>6, <1>7, <1>8 DEF Timer, c

(* The user writes: the message is the last of those sent.                 *)
LEMMA WriteStep ==
  ASSUME IInv, NEW e \in Ends, Write(e)
  PROVE  IInv'
<1>1. PICK c : c = conv[e]
  OBVIOUS
<1>2. PICK k : k = c.next - c.start
  OBVIOUS
<1>3. PICK x : x = Message(c.start, k)
  OBVIOUS
<1>4. PICK d : d = [c EXCEPT !.next = @ + 1, !.unacked = Append(@, x)]
  OBVIOUS
<1>5. PICK m : m = Packet(e, "Ildata", x.id, c.recvd, x.data)
  OBVIOUS
<1>6. /\ c.state \in Syncing \cup {"Ilestablished"} /\ k <= Messages[e] /\ Becomes(e, d, {m})
      /\ got' = got /\ convs' = convs
  BY <1>1, <1>2, <1>3, <1>4, <1>5 DEF Write, Syncing
<1>7. /\ c \in Conv /\ c.start # 0 /\ EndOk(e, c, got[e], convs) /\ convs \in 0..Len(Starts)
      /\ got \in [Ends -> Seq(Nat \X Nat)] /\ got[e] \in Seq(Nat \X Nat)
  BY <1>1, <1>6, EndFacts DEF Syncing
<1>8. /\ c.start \in Nat /\ c.next \in Nat /\ k \in 1..(Most + 1) /\ c.unacked \in Seq(Mess)
  BY <1>2, <1>7 DEF EndOk, StartOk, Conv
<1>9. k \in 1..Most
  BY <1>6, <1>8, ILAssumption
<1>10. x \in Mess
  BY <1>3, <1>8 DEF Message, Mess
<1>11. PICK l : l = Len(c.unacked)
  OBVIOUS
<1>12. PICK s : s = Append(c.unacked, x)
  OBVIOUS
<1>13. /\ s \in Seq(Mess) /\ Len(s) = l + 1 /\ l \in Nat
       /\ s[l + 1] = x /\ \A i \in 1..l : s[i] = c.unacked[i]
  BY ONLY <1>8, <1>10, <1>11, <1>12, AppendProperties, LenProperties
<1>14. /\ d \in Conv /\ d.unacked = s /\ d.next = c.next + 1 /\ d.start = c.start
       /\ d.rstart = c.rstart /\ d.state = c.state /\ d.recvd = c.recvd
       /\ d.outoforder = c.outoforder
  <2>1. d = [c EXCEPT !.next = c.next + 1, !.unacked = s]
    BY <1>4, <1>7, <1>12 DEF Conv
  <2>2. s \in Seq(Mess) /\ c.next + 1 \in Nat
    BY <1>8, <1>13
  <2> QED
    BY <1>7, <2>1, <2>2 DEF Conv
<1>15. Acked(d) = Acked(c)
  <2>1. PICK i, j : i = c.next /\ j = c.start
    OBVIOUS
  <2>2. i \in Nat /\ j \in Nat /\ l \in Nat
    BY <1>8, <1>13, <2>1
  <2>3. Acked(c) = i - j - 1 - l
    BY ONLY <1>11, <2>1 DEF Acked
  <2>4. Acked(d) = (i + 1) - j - 1 - (l + 1)
    BY ONLY <1>13, <1>14, <2>1 DEF Acked
  <2> QED
    BY ONLY <2>2, <2>3, <2>4
<1>16. LastSent(d)
  <2>1. c.unacked = [i \in 1..l |-> Message(c.start, c.next - c.start - 1 - l + i)]
    BY <1>7, <1>11 DEF EndOk, ListsOk, LastSent
  <2>2. ASSUME NEW i \in 1..(l + 1)
        PROVE  s[i] = Message(d.start, d.next - d.start - 1 - (l + 1) + i)
    <3>1. d.next - d.start - 1 - (l + 1) + i = c.next - c.start - 1 - l + i
      <4>1. /\ d.next = c.next + 1 /\ d.start = c.start /\ c.next \in Nat /\ c.start \in Nat
            /\ l \in Nat /\ i \in Nat
        BY <1>8, <1>13, <1>14
      <4> QED
        BY ONLY <4>1
    <3>2. CASE i \in 1..l
      BY <1>13, <1>14, <2>1, <3>1, <3>2
    <3>3. CASE i = l + 1
      <4>1. c.next - c.start - 1 - l + i = k
        BY <1>2, <1>8, <1>13, <3>3
      <4> QED
        BY <1>3, <1>13, <1>14, <3>1, <3>3, <4>1
    <3> QED
      BY <1>13, <3>2, <3>3
  <2>3. s = [i \in 1..(l + 1) |-> Message(d.start, d.next - d.start - 1 - (l + 1) + i)]
    <3>1. s = [i \in 1..Len(s) |-> s[i]]
      BY ONLY <1>13, SeqDef
    <3> QED
      BY <1>13, <2>2, <3>1
  <2> QED
    BY <1>13, <1>14, <2>3 DEF LastSent
<1>17. EndOk(e, d, got[e], convs)
  <2>1. StartOk(e, d, convs)
    <3>1. d.next - d.start \in 1..(Most + 1)
      BY <1>2, <1>8, <1>9, <1>14, StartsFacts
    <3> QED
      BY <1>7, <1>14, <3>1 DEF EndOk, StartOk
  <2>2. GotOk(d, got[e])
    BY <1>7, <1>14 DEF EndOk, GotOk
  <2> QED
    BY <1>7, <1>14, <1>15, <1>16, <2>1, <2>2 DEF EndOk, ListsOk
<1>18. IsFiniteSet({m}) /\ \A o \in {m} : SendsOk(e, d, convs, o)
  BY <1>3, <1>5, <1>6, <1>7, <1>9, <1>14, DataSends DEF DataTypes
<1>19. Follows(c, d, got[e], got[e]) /\ got' = [got EXCEPT ![e] = got[e]]
  BY <1>6, <1>7, <1>14, LenProperties DEF Follows
<1>20. Acked(d) <= Acked(c)
  BY <1>7, <1>15, AckedInt
<1>21. PICK ps : ps = {m}
  OBVIOUS
<1>22. IsFiniteSet(ps) /\ (\A o \in ps : SendsOk(e, d, convs, o)) /\ Becomes(e, d, ps)
  BY ONLY <1>6, <1>18, <1>21
<1>23. Follows(conv[e], d, got[e], got[e]) /\ Acked(d) <= Acked(conv[e])
  BY ONLY <1>1, <1>19, <1>20
<1> QED
  BY ONLY <1>6, <1>17, <1>19, <1>22, <1>23, StayAction, IInv, e \in Ends
-----------------------------------------------------------------------------
(* An end that never started passed nothing up.                            *)
LEMMA IdleFacts ==
  ASSUME NEW e \in Ends, NEW c, NEW g, NEW n, EndOk(e, c, g, n), c.start = 0
  PROVE  c = NoConv /\ g = <<>> /\ c.state = "Ilclosed"
BY DEF EndOk, StartOk, GotOk, NoConv

(* Before the caller is answered nothing was passed up at either end.      *)
LEMMA UnansweredFacts ==
  ASSUME NEW v, NEW g, NEW n, EndsOk(v, g, n), v["a"].rstart = 0
  PROVE  g["a"] = <<>> /\ g["b"] = <<>> /\ v["b"].state # "Ilestablished"
<1>1. EndOk("a", v["a"], g["a"], n) /\ EndOk("b", v["b"], g["b"], n) /\ Linked(v, g)
  BY DEF EndsOk, Ends
<1>2. g["a"] = <<>>
  BY <1>1 DEF EndOk, GotOk
<1>3. CASE v["b"].start = 0
  BY <1>1, <1>2, <1>3, IdleFacts DEF Ends
<1>4. CASE v["b"].start # 0
  BY <1>1, <1>2, <1>4 DEF Linked, Known
<1> QED
  BY <1>3, <1>4

(* Packets stay what they are as numbers are taken.                        *)
LEMMA SentGrows ==
  ASSUME NEW e \in Ends, NEW n \in 0..Len(Starts), NEW k \in 0..Len(Starts), n <= k
  PROVE  Sent(e, n) \subseteq Sent(e, k) /\ Seq(Sent(e, n)) \subseteq Seq(Sent(e, k))
<1>1. From(e, n) \subseteq From(e, k)
  BY StartsFacts DEF From
<1>2. Sent(e, n) \subseteq Sent(e, k)
  BY <1>1 DEF Sent
<1>3. ASSUME NEW s \in Seq(Sent(e, n)) PROVE s \in Seq(Sent(e, k))
  BY <1>2
<1> QED
  BY <1>2, <1>3

(* v, g and n, at which the network is what it is, may become w, k and l.  *)
Moves(v, g, n, w, k, l) ==
    EndsOk(w, k, l) /\ \A m : NetOk(m, v, g, n) => NetOk(m, w, k, l)

(* The caller takes the answer.                                            *)
LEMMA EstablishA ==
  ASSUME NEW v, NEW g, NEW n, EndsOk(v, g, n), v["a"].state = "Ilsyncer", NEW i \in 2..n,
         NEW d, d = [Established(v["a"]) EXCEPT !.recvd = Starts[i], !.rstart = Starts[i]],
         NEW w, w = [v EXCEPT !["a"] = d]
  PROVE  Moves(v, g, n, w, g, n)
<1> DEFINE c == v["a"]
<1>1. /\ EndOk("a", c, g["a"], n) /\ EndOk("b", v["b"], g["b"], n) /\ c \in Conv /\ v["b"] \in Conv
      /\ v \in [Ends -> Conv] /\ n \in 0..Len(Starts) /\ g \in [Ends -> Seq(Nat \X Nat)]
  BY DEF EndsOk, Ends
<1>2. Starts[i] \in Nat /\ Starts[i] > 0
  BY <1>1, StartsFacts
<1>3. /\ d \in Conv /\ d.start = c.start /\ d.next = c.next /\ d.unacked = c.unacked
      /\ d.outoforder = c.outoforder /\ d.rstart = Starts[i] /\ d.recvd = Starts[i]
      /\ d.state = "Ilestablished"
  BY <1>1, <1>2 DEF Established, Conv, States
<1>4. /\ w \in [Ends -> Conv] /\ w["a"] = d /\ w["b"] = v["b"]
  BY <1>1, <1>3 DEF Ends
<1>5. c.rstart = 0 /\ c.recvd = 0 /\ c # NoConv
  BY <1>1 DEF EndOk, StartOk, NoConv
<1>6. g["a"] = <<>> /\ g["b"] = <<>> /\ v["b"].state # "Ilestablished"
  BY <1>5, UnansweredFacts
<1>7. Acked(c) = 0 /\ c.outoforder = <<>> /\ LastSent(c) /\ Acked(d) = 0
  BY <1>1, <1>3 DEF EndOk, ListsOk, Syncing, Acked
<1>8. EndOk("a", d, g["a"], n)
  <2>1. StartOk("a", d, n)
    BY <1>1, <1>3, <1>5 DEF EndOk, StartOk
  <2>2. LastSent(d)
    BY <1>3, <1>7 DEF LastSent
  <2>3. ListsOk("a", d, n)
    BY <1>1, <1>3, <1>7, <2>2 DEF EndOk, ListsOk, Syncing
  <2>4. GotOk(d, g["a"])
    <3>1. Len(g["a"]) = 0 /\ g["a"] \in Seq(Nat \X Nat) /\ DOMAIN g["a"] = {}
      BY <1>6, EmptySeq
    <3> QED
      BY <1>2, <1>3, <1>6, <3>1, StartsFacts DEF GotOk, Syncing
  <2> QED
    BY <1>3, <2>1, <2>3, <2>4 DEF EndOk
<1>9. Linked(w, g) /\ Kept(w, g)
  <2>1. Len(g["b"]) = 0
    BY <1>6, EmptySeq
  <2> QED
    BY <1>4, <1>6, <1>7, <2>1 DEF Linked, Kept
<1>10. EndsOk(w, g, n)
  BY <1>1, <1>4, <1>8, <1>9 DEF EndsOk, Ends
<1>11. ASSUME NEW m, NetOk(m, v, g, n) PROVE NetOk(m, w, g, n)
  <2>1. m \in Pack /\ m.ack \in Nat /\ Len(g["a"]) = 0
    BY <1>6, <1>11, EmptySeq DEF NetOk, Pack
  <2>2. AckOk(m, w, g)
    <3>1. SUFFICES ASSUME m.type \in AckTypes PROVE AckOk(m, w, g)
      BY DEF AckOk
    <3>2. CASE m.to = "b"
      <4>1. m.ack <= 0 + Len(g["a"]) /\ m.type # "Ilack"
        BY <1>5, <1>11, <3>1, <3>2 DEF NetOk, AckOk
      <4>2. m.ack <= Starts[i] + Len(g["a"])
        BY <1>2, <2>1, <4>1
      <4> QED
        BY <1>3, <1>4, <3>2, <4>1, <4>2 DEF AckOk
    <3>3. CASE m.to # "b"
      BY <1>5, <1>11, <3>1, <3>3 DEF NetOk, AckOk
    <3> QED
      BY <3>2, <3>3
  <2>3. CloseOk(m, w, n)
    BY <1>4, <1>11 DEF NetOk, CloseOk, Ended
  <2> QED
    BY <1>11, <2>2, <2>3 DEF NetOk
<1> QED
  BY <1>10, <1>11 DEF Moves

(* The listener takes the acknowledgement of its own answer, m: the caller *)
(* knows it.                                                               *)
LEMMA EstablishB ==
  ASSUME NEW v, NEW g, NEW n, EndsOk(v, g, n), v["b"].state = "Ilsyncee",
         NEW m, NetOk(m, v, g, n), m.to = "b", m.type = "Ilack", m.ack = v["b"].start,
         NEW d, d = Established(v["b"]), NEW w, w = [v EXCEPT !["b"] = d]
  PROVE  Moves(v, g, n, w, g, n)
<1> DEFINE c == v["b"]
<1>1. /\ EndOk("b", c, g["b"], n) /\ EndOk("a", v["a"], g["a"], n) /\ c \in Conv /\ v["a"] \in Conv
      /\ v \in [Ends -> Conv] /\ n \in 0..Len(Starts) /\ g \in [Ends -> Seq(Nat \X Nat)]
      /\ g["a"] \in Seq(Nat \X Nat) /\ Len(g["a"]) <= Most
  BY DEF EndsOk, Ends, EndOk, GotOk
<1>2. /\ d \in Conv /\ d.start = c.start /\ d.rstart = c.rstart /\ d.recvd = c.recvd /\ d.next = c.next
      /\ d.unacked = c.unacked /\ d.outoforder = c.outoforder /\ d.state = "Ilestablished"
  BY <1>1 DEF Established, Conv, States
<1>3. w \in [Ends -> Conv] /\ w["b"] = d /\ w["a"] = v["a"]
  BY <1>1, <1>2 DEF Ends
<1>4. c # NoConv /\ c.start # 0 /\ c.recvd = c.rstart /\ g["b"] = <<>>
  <2>1. c # NoConv
    BY DEF NoConv
  <2>2. c.start # 0
    BY <1>1, <2>1 DEF EndOk, StartOk
  <2>3. c.recvd = c.rstart
    BY <1>1, <2>2 DEF EndOk, StartOk
  <2>4. g["b"] = <<>>
    BY <1>1 DEF EndOk, GotOk, Syncing
  <2> QED
    BY <2>1, <2>2, <2>3, <2>4
<1>5. n \in 2..Len(Starts) /\ c.start = Starts[n] /\ c.rstart = Starts[1]
  BY <1>1, <1>4, StartsFacts DEF EndOk, StartOk
<1>6. Known(v)
  <2>1. /\ Starts[n] <= v["a"].rstart + Len(g["a"])
        /\ v["a"].rstart # 0 /\ v["a"].rstart <= Starts[n]
    BY <1>5 DEF NetOk, AckOk, AckTypes
  <2>2. PICK i \in 2..n : v["a"].rstart = Starts[i]
    BY <1>1, <2>1 DEF EndOk, StartOk
  <2>3. Len(g["a"]) \in Nat /\ Starts[i] \in Nat /\ Starts[n] \in Nat /\ Most \in Nat
    BY <1>1, <1>5, <2>2, LenProperties, StartsFacts
  <2>4. i < n => Starts[n] > Starts[i] + Most + 2
    BY <1>5, <2>2, StartsFacts
  <2>5. ~(i < n)
    BY ONLY <1>1, <2>1, <2>2, <2>3, <2>4
  <2>6. i = n
    BY <1>5, <2>5
  <2> QED
    BY <1>5, <2>2, <2>6 DEF Known
<1>7. Acked(c) = 0 /\ c.outoforder = <<>> /\ LastSent(c) /\ Acked(d) = 0
  BY <1>1, <1>2 DEF EndOk, ListsOk, Syncing, Acked
<1>8. EndOk("b", d, g["b"], n)
  <2>1. StartOk("b", d, n)
    <3>1. StartOk("b", c, n)
      BY <1>1 DEF EndOk
    <3> QED
      BY <1>2, <1>4, <3>1 DEF StartOk
  <2>2. LastSent(d)
    BY <1>2, <1>7 DEF LastSent
  <2>3. ListsOk("b", d, n)
    BY <1>1, <1>2, <1>7, <2>2 DEF EndOk, ListsOk, Syncing
  <2>4. GotOk(d, g["b"])
    <3>1. Len(g["b"]) = 0 /\ g["b"] \in Seq(Nat \X Nat) /\ DOMAIN g["b"] = {}
      BY <1>4, EmptySeq
    <3>2. c.rstart \in Nat /\ c.rstart > 0
      BY <1>5, StartsFacts
    <3> QED
      BY <1>2, <1>4, <3>1, <3>2, StartsFacts DEF GotOk, Syncing
  <2> QED
    BY <1>2, <2>1, <2>3, <2>4 DEF EndOk
<1>9. Known(w) /\ Linked(w, g) /\ Kept(w, g)
  <2>1. Known(w)
    BY <1>2, <1>3, <1>6 DEF Known
  <2>2. Len(g["a"]) \in Nat
    BY <1>1, LenProperties
  <2> QED
    BY <1>3, <1>6, <1>7, <2>1, <2>2 DEF Linked, Kept, EndsOk
<1>10. EndsOk(w, g, n)
  BY <1>1, <1>3, <1>8, <1>9 DEF EndsOk, Ends
<1>11. ASSUME NEW o, NetOk(o, v, g, n) PROVE NetOk(o, w, g, n)
  <2>1. AckOk(o, w, g)
    BY <1>3, <1>6, <1>9, <1>11 DEF NetOk, AckOk
  <2>2. CloseOk(o, w, n)
    BY <1>3, <1>11 DEF NetOk, CloseOk, Ended
  <2> QED
    BY <1>11, <2>1, <2>2 DEF NetOk
<1> QED
  BY <1>10, <1>11 DEF Moves
(* A conversation that begins has nothing in its lists.                    *)
LEMMA FreshLists ==
  ASSUME NEW e, NEW n, NEW c, c.start \in Nat, c.next = c.start + 1, c.unacked = <<>>,
         c.outoforder = <<>>
  PROVE  ListsOk(e, c, n)
<1>1. Acked(c) = 0
  BY EmptySeq DEF Acked
<1>2. LastSent(c)
  BY EmptySeq DEF LastSent
<1>3. Sorted(c.outoforder)
  BY EmptySeq DEF Sorted
<1>4. c.outoforder \in Seq(Sent(Other(e), n))
  BY EmptySeq
<1>5. Acked(c) >= 0
  BY <1>1
<1> QED
  BY ONLY <1>1, <1>2, <1>3, <1>4, <1>5, c.outoforder = <<>> DEF ListsOk

(* The call.                                                               *)
LEMMA Begin ==
  ASSUME NEW v, NEW g, EndsOk(v, g, 0),
         NEW d, d = [NoConv EXCEPT !.state = "Ilsyncer", !.bound = TRUE, !.readq = TRUE,
                                   !.start = Starts[1], !.next = Starts[1] + 1],
         NEW w, w = [v EXCEPT !["a"] = d]
  PROVE  Moves(v, g, 0, w, g, 1)
<1>1. /\ EndOk("a", v["a"], g["a"], 0) /\ EndOk("b", v["b"], g["b"], 0) /\ v["b"] \in Conv
      /\ v \in [Ends -> Conv] /\ g \in [Ends -> Seq(Nat \X Nat)]
  BY DEF EndsOk, Ends, EndOk
<1>2. v["a"].start = 0 /\ v["b"].start = 0
  BY <1>1 DEF EndOk, StartOk
<1>3. v["a"] = NoConv /\ g["a"] = <<>> /\ v["b"] = NoConv /\ g["b"] = <<>>
  BY <1>1, <1>2, IdleFacts DEF Ends
<1>4. Starts[1] \in Nat /\ Starts[1] > 0 /\ 1 \in 0..Len(Starts) /\ Most \in Nat
  BY StartsFacts
<1>5. /\ d.state = "Ilsyncer" /\ d.start = Starts[1] /\ d.next = Starts[1] + 1 /\ d.rstart = 0
      /\ d.recvd = 0 /\ d.unacked = <<>> /\ d.outoforder = <<>> /\ d.bound = TRUE /\ d.readq = TRUE
      /\ d \in Conv
  <2>1. <<>> \in Seq(Mess)
    BY EmptySeq
  <2>2. d = [state |-> "Ilsyncer", bound |-> TRUE, readq |-> TRUE, start |-> Starts[1],
             rstart |-> 0, next |-> Starts[1] + 1, recvd |-> 0, unacked |-> <<>>,
             outoforder |-> <<>>]
    BY DEF NoConv
  <2>3. Starts[1] + 1 \in Nat
    BY <1>4
  <2> QED
    BY ONLY <1>4, <2>1, <2>2, <2>3 DEF Conv, States
<1>6. w \in [Ends -> Conv] /\ w["a"] = d /\ w["b"] = v["b"]
  BY <1>1, <1>5 DEF Ends
<1>7. NoConv.rstart = 0 /\ NoConv.state = "Ilclosed"
  BY DEF NoConv
<1>8. Sent("a", 1) = Sent("a", 0) /\ Sent("b", 1) = Sent("b", 0)
  BY DEF Sent, From
<1>9. EndOk("a", d, g["a"], 1)
  <2>1. d.next - d.start \in 1..(Most + 1)
    BY <1>4, <1>5
  <2>2. StartOk("a", d, 1)
    BY <1>4, <1>5, <2>1 DEF StartOk
  <2>5. ListsOk("a", d, 1)
    BY ONLY <1>4, <1>5, FreshLists
  <2>6. GotOk(d, g["a"])
    <3>1. Len(g["a"]) = 0 /\ g["a"] \in Seq(Nat \X Nat) /\ DOMAIN g["a"] = {}
      BY <1>3, EmptySeq
    <3> QED
      BY <1>3, <1>4, <1>5, <3>1 DEF GotOk
  <2> QED
    BY <1>5, <2>2, <2>5, <2>6 DEF EndOk
<1>10. EndOk("b", v["b"], g["b"], 1)
  BY <1>1, <1>2, <1>8 DEF EndOk, StartOk, ListsOk, Other
<1>11. Linked(w, g) /\ Kept(w, g)
  BY <1>3, <1>5, <1>6, <1>7 DEF Linked, Kept
<1>12. EndsOk(w, g, 1)
  BY <1>1, <1>4, <1>6, <1>9, <1>10, <1>11 DEF EndsOk, Ends
<1>13. ASSUME NEW m, NetOk(m, v, g, 0) PROVE NetOk(m, w, g, 1)
  <2>1. m \in Pack /\ SyncOk(m, 0) /\ AckOk(m, v, g) /\ CloseOk(m, v, 0) /\ DataOk(m, 0)
    BY <1>13 DEF NetOk
  <2>2. DataOk(m, 1)
    BY <1>8, <2>1 DEF DataOk, Other
  <2>3. SyncOk(m, 1)
    BY <2>1 DEF SyncOk
  <2>4. AckOk(m, w, g)
    BY <1>3, <1>5, <1>6, <1>7, <2>1 DEF AckOk
  <2>5. CloseOk(m, w, 1)
    BY <2>1 DEF CloseOk
  <2> QED
    BY <2>1, <2>2, <2>3, <2>4, <2>5 DEF NetOk
<1> QED
  BY <1>12, <1>13 DEF Moves

(* A conversation begins at the listener, which is given the next number.  *)
LEMMA Renew ==
  ASSUME NEW v, NEW g, NEW n \in 1..(Len(Starts) - 1), EndsOk(v, g, n),
         NEW d, d = [NoConv EXCEPT !.state = "Ilsyncee", !.bound = TRUE, !.start = Starts[n + 1],
                                   !.rstart = Starts[1], !.next = Starts[n + 1] + 1,
                                   !.recvd = Starts[1]],
         NEW w, w = [v EXCEPT !["b"] = d], NEW k, k = [g EXCEPT !["b"] = <<>>]
  PROVE  Moves(v, g, n, w, k, n + 1)
<1>1. /\ EndOk("a", v["a"], g["a"], n) /\ v["a"] \in Conv
      /\ v \in [Ends -> Conv] /\ g \in [Ends -> Seq(Nat \X Nat)]
  BY DEF EndsOk, Ends, EndOk
<1>2. /\ n + 1 \in 2..Len(Starts) /\ n \in 0..Len(Starts) /\ n + 1 \in 0..Len(Starts) /\ n <= n + 1
      /\ n \in Nat /\ n # 0 /\ 2..n \subseteq 2..(n + 1) /\ Most \in Nat
  BY StartsFacts
<1>3. /\ Starts[n + 1] \in Nat /\ Starts[n + 1] > 0 /\ Starts[1] \in Nat /\ Starts[1] > 0
  BY <1>2, StartsFacts
<1>4. /\ d.state = "Ilsyncee" /\ d.start = Starts[n + 1] /\ d.next = Starts[n + 1] + 1
      /\ d.rstart = Starts[1] /\ d.recvd = Starts[1] /\ d.unacked = <<>> /\ d.outoforder = <<>>
      /\ d \in Conv
  <2>1. <<>> \in Seq(Mess)
    BY EmptySeq
  <2>2. d = [state |-> "Ilsyncee", bound |-> TRUE, readq |-> FALSE, start |-> Starts[n + 1],
             rstart |-> Starts[1], next |-> Starts[n + 1] + 1, recvd |-> Starts[1],
             unacked |-> <<>>, outoforder |-> <<>>]
    BY DEF NoConv
  <2>3. Starts[n + 1] + 1 \in Nat
    BY <1>3
  <2> QED
    BY ONLY <1>3, <2>1, <2>2, <2>3 DEF Conv, States
<1>5. w \in [Ends -> Conv] /\ w["b"] = d /\ w["a"] = v["a"]
  BY <1>1, <1>4 DEF Ends
<1>6. k \in [Ends -> Seq(Nat \X Nat)] /\ k["b"] = <<>> /\ k["a"] = g["a"]
  BY <1>1, EmptySeq DEF Ends
<1>7. \A e \in Ends : Sent(e, n) \subseteq Sent(e, n + 1) /\ Seq(Sent(e, n)) \subseteq Seq(Sent(e, n + 1))
  BY <1>2, SentGrows
<1>8. EndOk("a", v["a"], g["a"], n + 1)
  <2>1. StartOk("a", v["a"], n + 1)
    <3>1. StartOk("a", v["a"], n)
      BY <1>1 DEF EndOk
    <3> QED
      BY <1>2, <3>1 DEF StartOk
  <2>2. ListsOk("a", v["a"], n + 1)
    <3>1. ListsOk("a", v["a"], n)
      BY <1>1 DEF EndOk
    <3> QED
      BY <1>7, <3>1 DEF ListsOk, Other, Ends
  <2> QED
    BY <1>1, <2>1, <2>2 DEF EndOk
<1>9. EndOk("b", d, k["b"], n + 1)
  <2>1. d.next - d.start \in 1..(Most + 1)
    BY <1>2, <1>3, <1>4
  <2>2. StartOk("b", d, n + 1)
    BY <1>2, <1>3, <1>4, <2>1 DEF StartOk
  <2>5. ListsOk("b", d, n + 1)
    BY ONLY <1>3, <1>4, FreshLists
  <2>6. GotOk(d, k["b"])
    <3>1. Len(k["b"]) = 0 /\ k["b"] \in Seq(Nat \X Nat) /\ DOMAIN k["b"] = {}
      BY <1>6, EmptySeq
    <3> QED
      BY <1>2, <1>4, <1>6, <3>1 DEF GotOk
  <2> QED
    BY <1>4, <2>2, <2>5, <2>6 DEF EndOk
<1>10. v["a"].rstart # 0 => ~Known(w)
  <2>1. SUFFICES ASSUME v["a"].rstart # 0 PROVE v["a"].rstart # Starts[n + 1]
    BY <1>4, <1>5 DEF Known
  <2>2. PICK i \in 2..n : v["a"].rstart = Starts[i]
    BY <1>1, <2>1 DEF EndOk, StartOk
  <2>3. i \in 1..Len(Starts) /\ n + 1 \in 1..Len(Starts) /\ i < n + 1
    BY <1>2
  <2>4. Starts[n + 1] > Starts[i] + Most + 2 /\ Starts[i] \in Nat
    BY <2>3, StartsFacts
  <2> QED
    BY <1>2, <1>3, <2>2, <2>4
<1>11. v["a"].state = "Ilestablished" => v["a"].rstart # 0
  BY <1>1 DEF EndOk, GotOk
<1>12. Linked(w, k) /\ Kept(w, k)
  BY <1>4, <1>5, <1>6, <1>10, <1>11 DEF Linked, Kept
<1>13. EndsOk(w, k, n + 1)
  BY <1>1, <1>2, <1>5, <1>6, <1>8, <1>9, <1>12 DEF EndsOk, Ends
<1>14. ASSUME NEW m, NetOk(m, v, g, n) PROVE NetOk(m, w, k, n + 1)
  <2>1. m \in Pack /\ SyncOk(m, n) /\ AckOk(m, v, g) /\ CloseOk(m, v, n) /\ DataOk(m, n)
    BY <1>14 DEF NetOk
  <2>2. DataOk(m, n + 1)
    BY <1>7, <2>1 DEF DataOk, Other, Ends
  <2>3. SyncOk(m, n + 1)
    BY <1>2, <2>1 DEF SyncOk
  <2>4. AckOk(m, w, k)
    <3>1. CASE m.to = "b"
      BY <1>5, <1>6, <2>1, <3>1 DEF AckOk
    <3>2. CASE m.to # "b"
      <4>1. v["a"].rstart = 0 => g["b"] = <<>>
        BY UnansweredFacts
      <4>2. w["a"].rstart = 0 \/ Known(w) => v["a"].rstart = 0 /\ k["b"] = g["b"]
        BY <1>5, <1>6, <1>10, <4>1
      <4> QED
        BY <2>1, <3>2, <4>2 DEF AckOk
    <3> QED
      BY <3>1, <3>2
  <2>5. CloseOk(m, w, n + 1)
    <3>1. CASE m.to = "b"
      BY <1>2, <1>5, <2>1, <3>1 DEF CloseOk
    <3>2. CASE m.to # "b"
      <4>1. SUFFICES ASSUME m.type = "Ilclose" PROVE CloseOk(m, w, n + 1)
        BY DEF CloseOk
      <4>2. PICK i \in 2..n : m.id - Starts[i] \in 1..(Most + 1)
        BY <2>1, <3>2, <4>1 DEF CloseOk
      <4>3. i \in 2..(n + 1) /\ i # n + 1
        BY <1>2
      <4> QED
        BY <3>2, <4>2, <4>3 DEF CloseOk
    <3> QED
      BY <3>1, <3>2
  <2> QED
    BY <2>1, <2>2, <2>3, <2>4, <2>5 DEF NetOk
<1> QED
  BY <1>13, <1>14 DEF Moves
(* What the network says fits the ends.                                    *)
LEMMA NetFacts ==
  ASSUME IInv
  PROVE  /\ EndsOk(conv, got, convs) /\ IsFiniteSet(net) /\ Cardinality(net) <= Room
         /\ \A m \in net : NetOk(m, conv, got, convs) /\ m \in Pack
BY DEF IInv, NetOk

(* A conversation begins by a sync.                                        *)
LEMMA SyncSends ==
  ASSUME NEW e \in Ends, NEW c \in Conv, c.start # 0, c.state \in Syncing, NEW n
  PROVE  /\ IsFiniteSet(Ctl(e, "Ilsync", c.start, c.recvd))
         /\ \A m \in Ctl(e, "Ilsync", c.start, c.recvd) : SendsOk(e, c, n, m)
<1>1. c.start \in Nat /\ c.recvd \in Nat
  BY DEF Conv
<1> QED
  BY <1>1, CtlSends DEF Types, DataTypes, AckTypes, Syncing

(* What may be gone on from, with a packet sent, leaves the invariant.     *)
LEMMA BeginsAfter ==
  ASSUME IInv, NEW w, NEW k, NEW n, Moves(conv, got, convs, w, k, n), NEW e \in Ends,
         NEW ps, IsFiniteSet(ps), \A m \in ps : SendsOk(e, w[e], n, m),
         conv' = w, got' = k, convs' = n,
         net' = IF Cardinality(net \cup ps) <= Room THEN net \cup ps ELSE net
  PROVE  IInv'
<1>1. EndsOk(w, k, n) /\ \A m \in net : NetOk(m, w, k, n)
  BY NetFacts DEF Moves
<1>2. ASSUME NEW m \in ps PROVE NetOk(m, w, k, n)
  BY ONLY <1>1, SendFits, e \in Ends, m \in ps, \A o \in ps : SendsOk(e, w[e], n, o)
<1>3. IsFiniteSet(net') /\ Cardinality(net') <= Room /\ net' \subseteq net \cup ps
  BY NetStep, NetFacts
<1> QED
  BY <1>1, <1>2, <1>3 DEF IInv

(* The call.                                                               *)
LEMMA CallStep ==
  ASSUME IInv, Call
  PROVE  IInv'
<1>1. PICK d : d = [NoConv EXCEPT !.state = "Ilsyncer", !.bound = TRUE, !.readq = TRUE,
                                  !.start = Starts[1], !.next = Starts[1] + 1]
  OBVIOUS
<1>2. PICK w : w = [conv EXCEPT !["a"] = d]
  OBVIOUS
<1>3. PICK ps : ps = Ctl("a", "Ilsync", Starts[1], 0)
  OBVIOUS
<1>4. /\ convs = 0 /\ convs' = 1 /\ conv' = w /\ got' = got
      /\ net' = IF Cardinality(net \cup ps) <= Room THEN net \cup ps ELSE net
  BY <1>1, <1>2, <1>3 DEF Call, Becomes
<1>5. Moves(conv, got, convs, w, got, 1)
  BY <1>1, <1>2, <1>4, NetFacts, Begin
<1>6. w["a"] = d /\ d \in Conv
  BY <1>2, <1>5 DEF Moves, EndsOk, EndOk, Ends
<1>7. d.state = "Ilsyncer" /\ d.start = Starts[1] /\ d.recvd = 0 /\ d.start # 0
  <2>1. d.state = "Ilsyncer" /\ d.start = Starts[1] /\ d.recvd = 0
    BY <1>1 DEF NoConv
  <2> QED
    BY <2>1, ILAssumption
<1>8. IsFiniteSet(ps) /\ \A m \in ps : SendsOk("a", d, 1, m)
  BY <1>3, <1>6, <1>7, SyncSends DEF Ends, Syncing
<1> QED
  BY <1>4, <1>5, <1>6, <1>8, BeginsAfter DEF Ends

(* A sync that no conversation is for: it says where the call starts.      *)
LEMMA IncomingStep ==
  ASSUME IInv, NEW m \in net, Incoming(m)
  PROVE  IInv'
<1>1. PICK n : n = convs
  OBVIOUS
<1>2. PICK d : d = [NoConv EXCEPT !.state = "Ilsyncee", !.bound = TRUE, !.start = Starts[n + 1],
                                  !.rstart = Starts[1], !.next = Starts[n + 1] + 1,
                                  !.recvd = Starts[1]]
  OBVIOUS
<1>3. PICK w : w = [conv EXCEPT !["b"] = d]
  OBVIOUS
<1>4. PICK k : k = [got EXCEPT !["b"] = <<>>]
  OBVIOUS
<1>5. PICK ps : ps = Ctl("b", "Ilsync", Starts[n + 1], Starts[1])
  OBVIOUS
<1>6. n \in 1..(Len(Starts) - 1) /\ convs' = n + 1 /\ got' = k
  BY <1>1, <1>4 DEF Incoming
<1>7. m.id = Starts[1] /\ m.ack = 0
  BY NetFacts DEF Incoming, NetOk, SyncOk
<1>8. d.state = "Ilsyncee" /\ d.start = Starts[n + 1] /\ d.recvd = Starts[1]
  BY <1>2 DEF NoConv
<1>9. Becomes("b", d, ps)
  <2> DEFINE c == [NoConv EXCEPT !.state = "Ilsyncee", !.bound = TRUE, !.start = Starts[convs'],
                                 !.rstart = m.id, !.next = Starts[convs'] + 1]
  <2>1. c = [NoConv EXCEPT !.state = "Ilsyncee", !.bound = TRUE, !.start = Starts[n + 1],
                           !.rstart = Starts[1], !.next = Starts[n + 1] + 1]
    BY <1>6, <1>7
  <2>2. c.rstart = Starts[1] /\ c.start = Starts[n + 1] /\ d = [c EXCEPT !.recvd = m.id]
    BY <1>2, <1>7, <2>1 DEF NoConv
  <2>3. SyncSyncee("b", c, m)
    BY DEF Incoming
  <2> HIDE DEF c
  <2> QED
    BY <1>5, <1>7, <2>2, <2>3 DEF SyncSyncee
<1>10. Moves(conv, got, n, w, k, n + 1)
  <2>1. EndsOk(conv, got, n)
    BY <1>1, NetFacts
  <2> QED
    BY ONLY <1>2, <1>3, <1>4, <1>6, <2>1, Renew
<1>11. w["b"] = d /\ d \in Conv
  BY <1>3, <1>10, NetFacts DEF Moves, EndsOk, EndOk, Ends
<1>12. d.start # 0
  BY <1>6, <1>8, StartsFacts
<1>13. IsFiniteSet(ps) /\ \A o \in ps : SendsOk("b", d, n + 1, o)
  <2>1. ps = Ctl("b", "Ilsync", d.start, d.recvd) /\ d.state \in Syncing /\ "b" \in Ends
    BY <1>5, <1>8 DEF Syncing, Ends
  <2> QED
    BY ONLY <1>11, <1>12, <2>1, SyncSends
<1>14. /\ conv' = w
       /\ net' = IF Cardinality(net \cup ps) <= Room THEN net \cup ps ELSE net
  BY <1>3, <1>9 DEF Becomes
<1> QED
  BY <1>1, <1>6, <1>10, <1>11, <1>13, <1>14, BeginsAfter DEF Ends

(* A connection that is there now: what was ready is passed up with it.    *)
LEMMA PulledUpAfter ==
  ASSUME IInv, NEW w, Moves(conv, got, convs, w, got, convs),
         NEW e \in Ends, w[e].state = "Ilestablished",
         NEW d, NEW h, PullsUp(e, w[e], got[e], convs, d, h),
         NEW ps, IsFiniteSet(ps), \A m \in ps : SendsOk(e, d, convs, m),
         conv' = [w EXCEPT ![e] = d], got' = [got EXCEPT ![e] = h], convs' = convs,
         net' = IF Cardinality(net \cup ps) <= Room THEN net \cup ps ELSE net
  PROVE  IInv'
<1>1. EndOk(e, d, h, convs) /\ Alike(w[e], d) /\ d.unacked = w[e].unacked /\ Len(h) >= Len(got[e])
  BY DEF PullsUp
<1>2. Acked(d) = Acked(w[e]) /\ Acked(w[e]) \in Int
  BY <1>1, AckedInt DEF Acked, Alike, EndsOk, Moves
<1>3. Acked(d) <= Acked(w[e])
  BY ONLY <1>2
<1>4. Follows(w[e], d, got[e], h)
  BY <1>1 DEF Follows, Alike
<1>5. /\ EndsOk(w, got, convs) /\ IsFiniteSet(net) /\ Cardinality(net) <= Room
      /\ \A m \in net : NetOk(m, w, got, convs)
  BY NetFacts DEF Moves
<1> QED
  BY <1>1, <1>3, <1>4, <1>5, StayAfter

(* A packet at the caller before it is answered: the answer names a        *)
(* conversation of the listener.                                           *)
LEMMA ProcessSyncerStep ==
  ASSUME IInv, NEW e \in Ends, NEW m \in net, ProcessSyncer(e, m)
  PROVE  IInv'
<1>1. PICK c : c = conv[e]
  OBVIOUS
<1>2. /\ c.bound /\ c.state = "Ilsyncer" /\ m.to = e /\ convs' = convs /\ c \in Conv /\ c.start # 0
      /\ EndOk(e, c, got[e], convs) /\ conv \in [Ends -> Conv] /\ convs \in 0..Len(Starts)
      /\ got \in [Ends -> Seq(Nat \X Nat)]
  BY <1>1, EndFacts DEF ProcessSyncer, For
<1>3. CASE Becomes(e, Hungup(c), {}) /\ got' = got
  BY <1>1, <1>2, <1>3, HungupStep
<1>4. CASE /\ m.ack = c.start /\ m.type = "Ilsync"
           /\ PulledUp(e, [Established(c) EXCEPT !.recvd = m.id, !.rstart = m.id],
                       LAMBDA d : Ctl(e, "Ilack", c.next, m.id))
  <2>1. e = "a"
    BY <1>2 DEF EndOk, StartOk, Ends
  <2>2. PICK i \in 2..convs : m.id = Starts[i]
    BY <1>2, <1>4, <2>1, NetFacts DEF NetOk, SyncOk
  <2>3. PICK x : x = [Established(c) EXCEPT !.recvd = m.id, !.rstart = m.id]
    OBVIOUS
  <2>4. PICK w : w = [conv EXCEPT !["a"] = x]
    OBVIOUS
  <2>5. Moves(conv, got, convs, w, got, convs)
    <3>1. x = [Established(conv["a"]) EXCEPT !.recvd = Starts[i], !.rstart = Starts[i]]
      BY <1>1, <2>1, <2>2, <2>3
    <3>2. conv["a"].state = "Ilsyncer" /\ EndsOk(conv, got, convs)
      BY <1>1, <1>2, <2>1, NetFacts
    <3> QED
      BY ONLY <2>2, <2>4, <3>1, <3>2, EstablishA
  <2>17. w[e] = x
    BY <1>2, <2>1, <2>4 DEF Ends
  <2>6. PICK d : d = Pullup(e, x).conv
    OBVIOUS
  <2>7. PICK h : h = got[e] \o Pullup(e, x).up
    OBVIOUS
  <2>8. PICK ps : ps = Ctl(e, "Ilack", c.next, m.id)
    OBVIOUS
  <2>9. got' = [got EXCEPT ![e] = h] /\ Becomes(e, d, ps)
    BY <1>4, <2>3, <2>6, <2>7, <2>8 DEF PulledUp
  <2>10. EndOk(e, x, got[e], convs)
    BY <2>5, <2>17 DEF Moves, EndsOk
  <2>11. PullsUp(e, x, got[e], convs, d, h)
    BY ONLY <1>2, <2>6, <2>7, <2>10, PullupFacts, e \in Ends
  <2>12. x.state = "Ilestablished" /\ x.rstart = m.id /\ x.start # 0 /\ x.next = c.next
    BY <1>2, <2>3 DEF Established, Conv
  <2>13. /\ d \in Conv /\ d.start # 0 /\ d.state = "Ilestablished" /\ d.rstart = m.id
         /\ d.recvd = d.rstart + Len(h) /\ h \in Seq(Nat \X Nat)
    <3>1. EndOk(e, d, h, convs) /\ Alike(x, d)
      BY <2>11 DEF PullsUp
    <3>2. d.start # 0 /\ d.state = "Ilestablished" /\ d.rstart = m.id
      BY <2>12, <3>1 DEF Alike
    <3> QED
      BY <3>1, <3>2 DEF EndOk, GotOk
  <2>14. m.id \in Nat /\ c.next \in Nat /\ m.id <= d.recvd /\ d.rstart <= m.id
    <3>1. m.id \in Nat /\ Len(h) \in Nat /\ c.next \in Nat
      BY <1>2, <2>2, <2>13, StartsFacts, LenProperties DEF Conv
    <3> QED
      BY <2>13, <3>1
  <2>15. IsFiniteSet(ps) /\ \A o \in ps : SendsOk(e, d, convs, o)
    BY <2>8, <2>13, <2>14, CtlSends DEF Types, DataTypes
  <2>16. /\ conv' = [w EXCEPT ![e] = d]
         /\ net' = IF Cardinality(net \cup ps) <= Room THEN net \cup ps ELSE net
    BY <1>2, <2>1, <2>4, <2>9 DEF Becomes
  <2> QED
    BY ONLY <1>2, <2>5, <2>9, <2>11, <2>12, <2>15, <2>16, <2>17, PulledUpAfter, IInv, e \in Ends
<1> QED
  BY <1>1, <1>3, <1>4 DEF ProcessSyncer

(* A packet at the listener before its answer is acknowledged.             *)
LEMMA ProcessSynceeStep ==
  ASSUME IInv, NEW e \in Ends, NEW m \in net, ProcessSyncee(e, m)
  PROVE  IInv'
<1>1. PICK c : c = conv[e]
  OBVIOUS
<1>2. /\ c.bound /\ c.state = "Ilsyncee" /\ m.to = e /\ convs' = convs /\ c \in Conv /\ c.start # 0
      /\ EndOk(e, c, got[e], convs) /\ conv \in [Ends -> Conv] /\ convs \in 0..Len(Starts)
      /\ got \in [Ends -> Seq(Nat \X Nat)]
  BY <1>1, EndFacts DEF ProcessSyncee, For
<1>3. e = "b"
  BY <1>2 DEF EndOk, StartOk, Ends
<1>4. CASE m.type = "Ilsync" /\ SyncSyncee(e, c, m) /\ got' = got
  <2>1. CASE m.id # c.rstart \/ m.ack # 0
    <3> DEFINE d == [c EXCEPT !.state = "Ilclosed"]
    <3>1. /\ d \in Conv /\ d.start = c.start /\ d.rstart = c.rstart /\ d.next = c.next
          /\ d.state \in Ended /\ d.unacked = c.unacked /\ d.outoforder = c.outoforder
      BY <1>2 DEF Conv, States, Ended
    <3>2. Becomes(e, d, {})
      BY <1>4, <2>1 DEF SyncSyncee
    <3> HIDE DEF d
    <3> QED
      BY <1>1, <1>2, <1>4, <3>1, <3>2, EndingAction
  <2>2. CASE ~(m.id # c.rstart \/ m.ack # 0)
    <3>1. PICK d : d = [c EXCEPT !.recvd = m.id]
      OBVIOUS
    <3>2. PICK ps : ps = Ctl(e, "Ilsync", c.start, m.id)
      OBVIOUS
    <3>3. Becomes(e, d, ps)
      BY <1>4, <2>2, <3>1, <3>2 DEF SyncSyncee
    <3>4. m.id = c.recvd
      BY <1>2, <1>3, <2>2 DEF EndOk, StartOk
    <3>5. /\ d \in Conv /\ d.start = c.start /\ d.rstart = c.rstart /\ d.next = c.next
          /\ d.state = c.state /\ d.recvd = c.recvd /\ d.unacked = c.unacked
          /\ d.outoforder = c.outoforder /\ c.start \in Nat /\ c.recvd \in Nat
      BY <1>2, <3>1, <3>4 DEF Conv
    <3>6. IsFiniteSet(ps) /\ \A o \in ps : SendsOk(e, d, convs, o)
      BY <1>2, <3>2, <3>4, <3>5, CtlSends DEF Types, DataTypes, AckTypes, Syncing
    <3> QED
      BY <1>1, <1>2, <1>4, <3>3, <3>5, <3>6, SameAction
  <2> QED
    BY <2>1, <2>2
<1>5. CASE m.type = "Ilack" /\ IsAcked(c, m) /\ PulledUp(e, Established(c), Nothing)
  <2>1. PICK x : x = Established(c)
    OBVIOUS
  <2>2. PICK w : w = [conv EXCEPT !["b"] = x]
    OBVIOUS
  <2>3. Moves(conv, got, convs, w, got, convs)
    <3>1. /\ NetOk(m, conv, got, convs) /\ m.to = "b" /\ m.type = "Ilack"
          /\ m.ack = conv["b"].start /\ conv["b"].state = "Ilsyncee" /\ EndsOk(conv, got, convs)
          /\ x = Established(conv["b"])
      BY <1>1, <1>2, <1>3, <1>5, <2>1, NetFacts DEF IsAcked
    <3> QED
      BY ONLY <2>2, <3>1, EstablishB
  <2>13. w[e] = x
    BY <1>2, <1>3, <2>2 DEF Ends
  <2>4. PICK d : d = Pullup(e, x).conv
    OBVIOUS
  <2>5. PICK h : h = got[e] \o Pullup(e, x).up
    OBVIOUS
  <2>6. got' = [got EXCEPT ![e] = h] /\ Becomes(e, d, {})
    BY <1>5, <2>1, <2>4, <2>5 DEF PulledUp, Nothing
  <2>7. EndOk(e, x, got[e], convs)
    BY <2>3, <2>13 DEF Moves, EndsOk
  <2>8. PullsUp(e, x, got[e], convs, d, h)
    BY ONLY <1>2, <2>4, <2>5, <2>7, PullupFacts, e \in Ends
  <2>9. x.state = "Ilestablished"
    BY <1>2, <2>1 DEF Established, Conv
  <2>10. PICK ps : ps = {}
    OBVIOUS
  <2>11. IsFiniteSet(ps) /\ \A o \in ps : SendsOk(e, d, convs, o)
    BY <2>10, NoneSent
  <2>12. /\ conv' = [w EXCEPT ![e] = d]
         /\ net' = IF Cardinality(net \cup ps) <= Room THEN net \cup ps ELSE net
    BY <1>2, <1>3, <2>2, <2>6, <2>10 DEF Becomes
  <2> QED
    BY ONLY <1>2, <2>3, <2>6, <2>8, <2>9, <2>11, <2>12, <2>13, PulledUpAfter, IInv, e \in Ends
<1>6. CASE Becomes(e, Hungup(c), {}) /\ got' = got
  BY <1>1, <1>2, <1>6, HungupStep
<1> QED
  BY <1>1, <1>4, <1>5, <1>6 DEF ProcessSyncee
-----------------------------------------------------------------------------
(* Nothing has happened.                                                   *)
LEMMA InitIInv == Init => IInv
<1> SUFFICES ASSUME Init PROVE IInv
  OBVIOUS
<1>1. /\ conv = [e \in Ends |-> NoConv] /\ got = [e \in Ends |-> <<>>] /\ convs = 0 /\ net = {}
  BY DEF Init
<1>2. NoConv \in Conv /\ <<>> \in Seq(Nat \X Nat) /\ Len(<<>>) = 0
  BY EmptySeq DEF NoConv, Conv, States
<1>3. /\ NoConv.start = 0 /\ NoConv.rstart = 0 /\ NoConv.state = "Ilclosed"
      /\ NoConv.unacked = <<>> /\ NoConv.outoforder = <<>>
  BY DEF NoConv
<1>4. ASSUME NEW e \in Ends PROVE EndOk(e, NoConv, <<>>, 0)
  <2>1. StartOk(e, NoConv, 0)
    BY <1>3 DEF StartOk
  <2>2. LastSent(NoConv) /\ Sorted(NoConv.outoforder)
    BY <1>3, EmptySeq DEF LastSent, Sorted
  <2>3. ListsOk(e, NoConv, 0)
    BY <1>3, <2>2, EmptySeq DEF ListsOk, Syncing
  <2>4. GotOk(NoConv, <<>>)
    BY <1>2, <1>3, StartsFacts, EmptySeq DEF GotOk
  <2> QED
    BY <1>2, <2>1, <2>3, <2>4 DEF EndOk
<1>5. Linked(conv, got) /\ Kept(conv, got)
  BY <1>1, <1>3 DEF Linked, Kept, Ends
<1>6. EndsOk(conv, got, convs)
  BY <1>1, <1>2, <1>4, <1>5, StartsFacts DEF EndsOk
<1> QED
  BY <1>1, <1>6, FS_EmptySet, ILAssumption DEF IInv

(* Every step leaves the invariant.                                        *)
LEMMA StepIInv == IInv /\ [Next]_vars => IInv'
<1> SUFFICES ASSUME IInv, [Next]_vars PROVE IInv'
  OBVIOUS
<1>1. CASE Call
  BY <1>1, CallStep
<1>2. CASE Open
  BY <1>2, OpenStep
<1>3. ASSUME NEW m \in net, Lose(m) \/ Incoming(m) PROVE IInv'
  BY <1>3, LoseStep, IncomingStep
<1>4. ASSUME NEW m \in net, NEW e \in Ends, Process(e, m) PROVE IInv'
  BY <1>4, ProcessSyncerStep, ProcessSynceeStep, ProcessSyncStep, ProcessDataStep, ProcessAckStep,
     ProcessCloseStep, ProcessClosingStep DEF Process
<1>5. ASSUME NEW e \in Ends, Write(e) \/ Close(e) \/ Timer(e) \/ TimeOut(e) PROVE IInv'
  BY <1>5, WriteStep, CloseStep, TimerStep, TimeOutStep
<1>6. CASE UNCHANGED vars
  BY <1>6 DEF vars, IInv
<1> QED
  BY <1>1, <1>2, <1>3, <1>4, <1>5, <1>6 DEF Next

(* So it always holds.                                                     *)
LEMMA AlwaysIInv == Spec => []IInv
BY InitIInv, StepIInv, PTL DEF Spec

(* Types: the lists are in the order of their identifiers, what waits for  *)
(* an acknowledgement is the last that was sent, and the network is within *)
(* its room.                                                               *)
THEOREM TypeCorrect == Spec => []TypeOK
<1>1. IInv => TypeOK
  <2> SUFFICES ASSUME IInv PROVE TypeOK
    OBVIOUS
  <2>1. \A e \in Ends : LastSent(conv[e]) /\ Sorted(conv[e].outoforder)
    BY EndFacts DEF EndOk, ListsOk
  <2>2. conv \in [Ends -> Conv] /\ got \in [Ends -> Seq(Nat \X Nat)] /\ convs \in 0..Len(Starts)
    BY NetFacts DEF EndsOk
  <2> QED
    BY <2>1, <2>2, NetFacts DEF TypeOK
<1> QED
  BY <1>1, AlwaysIInv, PTL

(* What a user was given is, message by message, what the conversation's   *)
(* other end wrote, whatever was lost, repeated or reordered               *)
(* (stil.c:600-685).                                                       *)
THEOREM DeliveredInOrder == Spec => []PrefixDelivered
<1>1. IInv => PrefixDelivered
  <2> SUFFICES ASSUME IInv, NEW e \in Ends, NEW i \in DOMAIN got[e]
               PROVE  got[e][i] = Message(conv[e].rstart, i).data
    BY DEF PrefixDelivered
  <2>1. got[e][i] = <<conv[e].rstart, i>>
    BY EndFacts DEF EndOk, GotOk
  <2> QED
    BY <2>1 DEF Message
<1> QED
  BY <1>1, AlwaysIInv, PTL

(* When both ends are established the listener is known to the caller.     *)
LEMMA ConnectedFacts ==
  ASSUME IInv, Connected
  PROVE  Known(conv) /\ conv["a"].start = Starts[1] /\ conv["b"].rstart = Starts[1]
<1>1. conv["a"].state = "Ilestablished" /\ conv["b"].state = "Ilestablished"
  BY DEF Connected, Ends
<1>2. EndOk("a", conv["a"], got["a"], convs) /\ EndOk("b", conv["b"], got["b"], convs)
      /\ convs \in 0..Len(Starts) /\ conv["a"].start # 0 /\ conv["b"].start # 0
  BY <1>1, EndFacts DEF Ends
<1>3. Known(conv)
  BY <1>1, NetFacts DEF EndsOk, Linked
<1> QED
  BY <1>2, <1>3 DEF EndOk, StartOk

(* When both ends are established each is the one the other takes it for   *)
(* (stil.c:400, 433).                                                      *)
THEOREM EndsAgree == Spec => []Agreement
<1>1. IInv => Agreement
  <2> SUFFICES ASSUME IInv, Connected, NEW e \in Ends
               PROVE  conv[e].rstart = conv[Other(e)].start
    BY DEF Agreement
  <2> QED
    BY ConnectedFacts DEF Known, Other, Ends
<1> QED
  BY <1>1, AlwaysIInv, PTL

(* What was written to a connection and not given to the other user can    *)
(* still be sent again (stil.c:224-257, 622).                              *)
THEOREM NoneLost == Spec => []NothingLost
<1>1. IInv => NothingLost
  <2> SUFFICES ASSUME IInv, Connected, NEW e \in Ends,
                      NEW k \in 1..(conv[e].next - conv[e].start - 1), ~(k <= Len(got[Other(e)]))
               PROVE  \E i \in DOMAIN conv[e].unacked : conv[e].unacked[i] = Message(conv[e].start, k)
    BY DEF NothingLost
  <2>1. PICK c : c = conv[e]
    OBVIOUS
  <2>2. PICK l : l = Len(c.unacked)
    OBVIOUS
  <2>3. PICK p, q : p = c.next /\ q = c.start
    OBVIOUS
  <2>4. /\ c \in Conv /\ LastSent(c) /\ Acked(c) >= 0 /\ got[Other(e)] \in Seq(Nat \X Nat)
    <3>1. c.start # 0 /\ EndOk(e, c, got[e], convs) /\ Other(e) \in Ends
      BY <2>1, EndFacts DEF Connected, Other, Ends
    <3>2. got \in [Ends -> Seq(Nat \X Nat)]
      BY EndFacts
    <3> QED
      BY <3>1, <3>2 DEF EndOk, ListsOk
  <2>5. Acked(c) <= Len(got[Other(e)])
    BY <2>1, ConnectedFacts, NetFacts DEF EndsOk, Kept, Connected, Other, Ends
  <2>6. p \in Nat /\ q \in Nat /\ l \in Nat /\ Len(got[Other(e)]) \in Nat
    BY <2>2, <2>3, <2>4, LenProperties DEF Conv
  <2>7. Acked(c) = p - q - 1 - l
    BY ONLY <2>2, <2>3 DEF Acked
  <2>8. k \in 1..(p - q - 1)
    BY <2>1, <2>3
  <2>9. PICK i : i = k - (p - q - 1 - l)
    OBVIOUS
  <2>10. k > p - q - 1 - l
    <3>1. ~(k <= Len(got[Other(e)])) /\ k \in Nat
      BY <2>6, <2>8
    <3> QED
      BY ONLY <2>5, <2>6, <2>7, <3>1
  <2>11. i \in 1..l /\ p - q - 1 - l + i = k
    BY ONLY <2>6, <2>8, <2>9, <2>10
  <2>12. c.unacked = [j \in 1..l |-> Message(q, p - q - 1 - l + j)]
    BY <2>2, <2>3, <2>4 DEF LastSent
  <2>13. DOMAIN c.unacked = 1..l /\ c.unacked[i] = Message(q, k)
    BY ONLY <2>11, <2>12
  <2> QED
    BY <2>1, <2>3, <2>11, <2>13
<1> QED
  BY <1>1, AlwaysIInv, PTL
-----------------------------------------------------------------------------
(* A number is of one conversation at most.                                *)
LEMMA OneConversation ==
  ASSUME NEW i \in 1..Len(Starts), NEW j \in 1..Len(Starts), NEW x \in Nat,
         x - Starts[i] \in 0..(Most + 1), x - Starts[j] \in 0..(Most + 1)
  PROVE  i = j
<1>1. /\ i < j => Starts[j] > Starts[i] + Most + 2
      /\ j < i => Starts[i] > Starts[j] + Most + 2
  BY StartsFacts
<1>2. Starts[i] \in Nat /\ Starts[j] \in Nat /\ Most \in Nat /\ i \in Nat /\ j \in Nat
  BY StartsFacts
<1> QED
  BY SMTT(60), <1>1, <1>2

(* A sync that is not its own does not reach an end with the numbers of    *)
(* its connection.                                                         *)
LEMMA SyncIsMine ==
  ASSUME IInv, NEW e \in Ends, NEW m \in net, m.to = e, m.type = "Ilsync",
         conv[e].state = "Ilestablished", m.id \in conv[e].rstart..(conv[e].rstart + Most + 1)
  PROVE  m.id = conv[e].rstart
<1>1. EndOk(e, conv[e], got[e], convs) /\ convs \in 0..Len(Starts) /\ conv[e].start # 0
  BY EndFacts
<1>2. \E i \in From(Other(e), convs) : conv[e].rstart = Starts[i]
  BY <1>1, EstablishedFacts
<1>3. CASE e = "b"
  BY <1>2, <1>3, NetFacts DEF NetOk, SyncOk, From, Other
<1>4. CASE e = "a"
  <2>1. PICK j \in 2..convs : conv[e].rstart = Starts[j]
    BY <1>2, <1>4 DEF From, Other
  <2>2. PICK i \in 2..convs : m.id = Starts[i]
    BY <1>4, NetFacts DEF NetOk, SyncOk
  <2>3. i \in 1..Len(Starts) /\ j \in 1..Len(Starts) /\ Starts[i] \in Nat /\ Starts[j] \in Nat /\ Most \in Nat
    BY <1>1, StartsFacts
  <2>4. m.id \in Nat /\ m.id - Starts[i] \in 0..(Most + 1) /\ m.id - Starts[j] \in 0..(Most + 1)
    BY <2>1, <2>2, <2>3
  <2> QED
    BY <2>1, <2>2, <2>3, <2>4, OneConversation
<1> QED
  BY <1>3, <1>4 DEF Ends

(* A close with the numbers of the connection is of the other end, which   *)
(* has left it.                                                            *)
LEMMA CloseIsOthers ==
  ASSUME IInv, NEW e \in Ends, NEW m \in net, m.to = e, m.type = "Ilclose",
         conv[e].state = "Ilestablished", m.id \in conv[e].rstart..(conv[e].rstart + Most + 1),
         conv[Other(e)].start = conv[e].rstart
  PROVE  conv[Other(e)].state \in Ended
<1>1. EndOk(e, conv[e], got[e], convs) /\ convs \in 0..Len(Starts)
  BY EndFacts
<1>2. \E i \in From(Other(e), convs) : conv[e].rstart = Starts[i]
  BY <1>1, EstablishedFacts
<1>3. CASE e = "b"
  BY <1>3, NetFacts DEF NetOk, CloseOk, Other
<1>4. CASE e = "a"
  <2>1. PICK j \in 2..convs : conv[e].rstart = Starts[j]
    BY <1>2, <1>4 DEF From, Other
  <2>2. PICK i \in 2..convs : /\ m.id - Starts[i] \in 1..(Most + 1)
                              /\ i = convs => conv["b"].state \in Ended
    BY <1>4, NetFacts DEF NetOk, CloseOk
  <2>3. /\ i \in 1..Len(Starts) /\ j \in 1..Len(Starts) /\ convs \in 1..Len(Starts)
        /\ Starts[i] \in Nat /\ Starts[j] \in Nat /\ Starts[convs] \in Nat /\ Most \in Nat
    <3>1. convs \in 0..Len(Starts) /\ Len(Starts) \in Nat
      BY <1>1, StartsFacts
    <3>2. i \in 1..Len(Starts) /\ j \in 1..Len(Starts) /\ convs \in 1..Len(Starts)
      BY ONLY <3>1, i \in 2..convs, j \in 2..convs
    <3> QED
      BY <3>2, StartsFacts
  <2>4. m.id \in Nat /\ m.id - Starts[i] \in 0..(Most + 1) /\ m.id - Starts[j] \in 0..(Most + 1)
    <3>1. m.id \in Starts[j]..(Starts[j] + Most + 1) /\ m.id - Starts[i] \in 1..(Most + 1)
      BY <2>1, <2>2
    <3>2. Starts[i] \in Nat /\ Starts[j] \in Nat /\ Most \in Nat
      BY <2>3
    <3> QED
      BY ONLY SMTT(60), <3>1, <3>2
  <2>5. i = j
    BY <2>3, <2>4, OneConversation
  <2>6. conv["b"].start = Starts[j] /\ Starts[j] > 0
    BY <1>4, <2>1, <2>3, StartsFacts DEF Other
  <2>7. Starts[convs] = Starts[j]
    <3>1. EndOk("b", conv["b"], got["b"], convs)
      BY EndFacts DEF Ends
    <3> QED
      BY <2>3, <2>6, <3>1 DEF EndOk, StartOk
  <2>8. /\ Starts[j] - Starts[j] \in 0..(Most + 1)
    BY <2>3
  <2>9. j = convs
    BY <2>3, <2>7, <2>8, OneConversation
  <2> QED
    BY <1>4, <2>2, <2>5, <2>9 DEF Other
<1> QED
  BY <1>3, <1>4 DEF Ends

(* Of the handlers of an established end only those of a sync and of a     *)
(* close end its connection.                                               *)
LEMMA WhatEnds ==
  ASSUME IInv, NEW e \in Ends, NEW m \in net, Process(e, m),
         conv[e].state = "Ilestablished", conv'[e].state # "Ilestablished"
  PROVE  /\ m.to = e
         /\ (m.type = "Ilsync" /\ m.id # conv[e].rstart) \/ m.type = "Ilclose"
<1>1. conv \in [Ends -> Conv] /\ EndOk(e, conv[e], got[e], convs) /\ convs \in 0..Len(Starts)
  BY EndFacts
<1>2. ~ProcessSyncer(e, m) /\ ~ProcessSyncee(e, m) /\ ~ProcessClosing(e, m)
  BY DEF ProcessSyncer, ProcessSyncee, ProcessClosing, For
<1>3. CASE ProcessSync(e, m)
  <2>1. m.to = e /\ m.type = "Ilsync"
    BY <1>3 DEF ProcessSync, For
  <2>2. ~IsMySync(conv[e], m)
    BY <1>1, <1>3 DEF ProcessSync, Becomes
  <2> QED
    BY <2>1, <2>2 DEF IsMySync
<1>4. CASE ProcessClose(e, m)
  BY <1>4 DEF ProcessClose, For
<1>5. ~ProcessAck(e, m)
  <2>1. SUFFICES ASSUME ProcessAck(e, m) PROVE FALSE
    OBVIOUS
  <2>2. conv'[e] = Ackto(conv[e], m.ack)
    BY <1>1, <2>1 DEF ProcessAck, Becomes
  <2>3. Ackto(conv[e], m.ack).state = conv[e].state
    BY <1>1 DEF Ackto, Conv
  <2> QED
    BY <2>2, <2>3
<1>6. ~ProcessData(e, m)
  <2>1. SUFFICES ASSUME ProcessData(e, m) PROVE FALSE
    OBVIOUS
  <2>2. PICK a : a = Ackto(conv[e], m.ack)
    OBVIOUS
  <2>3. PICK o : o = Outoforder(a, m)
    OBVIOUS
  <2>4. PICK d : d = Pullup(e, o).conv
    OBVIOUS
  <2>5. PICK ps : ps = IF m.type = "Ildataquery" THEN Tell(e, d, "Ilstate") ELSE {}
    OBVIOUS
  <2>6. Becomes(e, d, ps)
    BY <2>1, <2>2, <2>3, <2>4, <2>5 DEF ProcessData, PulledUp
  <2>7. conv'[e] = d
    BY <1>1, <2>6 DEF Becomes
  <2>8. m.ack \in Nat /\ m \in Pack /\ [id |-> m.id, data |-> m.data] \in Sent(Other(e), convs)
    BY <2>1, NetFacts DEF ProcessData, For, NetOk, DataOk, Pack, DataTypes
  <2>9. EndOk(e, a, got[e], convs) /\ a.state = "Ilestablished"
    BY <1>1, <2>2, <2>8, AcktoKept DEF Alike
  <2>10. EndOk(e, o, got[e], convs) /\ o.state = "Ilestablished"
    BY <1>1, <2>3, <2>8, <2>9, OutoforderKept DEF Alike
  <2>11. PICK h : h = got[e] \o Pullup(e, o).up
    OBVIOUS
  <2>12. PullsUp(e, o, got[e], convs, d, h)
    BY ONLY <1>1, <2>4, <2>10, <2>11, PullupFacts, e \in Ends
  <2> QED
    BY <2>7, <2>10, <2>12 DEF PullsUp, Alike
<1> QED
  BY <1>2, <1>3, <1>4, <1>5, <1>6 DEF Process

(* No packet of the connection, however old, ends it while the other end   *)
(* is still in it (stil.c:446-456, 489-498).                               *)
THEOREM OnlyByTheOther == Spec => OnlyOtherEndCloses
<1> DEFINE OnlyOther == \A e \in Ends : \A m \in net :
             (/\ conv[e].state = "Ilestablished" /\ conv'[e].state # "Ilestablished"
              /\ Process(e, m) /\ m.id \in conv[e].rstart..(conv[e].rstart + Most + 1))
                 => ~(/\ conv[Other(e)].start = conv[e].rstart
                      /\ conv[Other(e)].state \in {"Ilsyncee", "Ilestablished"})
<1>1. IInv => OnlyOther
  <2> SUFFICES ASSUME IInv, NEW e \in Ends, NEW m \in net,
                      conv[e].state = "Ilestablished", conv'[e].state # "Ilestablished",
                      Process(e, m), m.id \in conv[e].rstart..(conv[e].rstart + Most + 1),
                      conv[Other(e)].start = conv[e].rstart
               PROVE  conv[Other(e)].state \notin {"Ilsyncee", "Ilestablished"}
    OBVIOUS
  <2>1. /\ m.to = e
        /\ (m.type = "Ilsync" /\ m.id # conv[e].rstart) \/ m.type = "Ilclose"
    BY WhatEnds
  <2>2. m.type = "Ilclose"
    BY <2>1, SyncIsMine
  <2>3. conv[Other(e)].state \in Ended
    BY <2>1, <2>2, CloseIsOthers
  <2> QED
    BY <2>3 DEF Ended
<1>2. IInv /\ [Next]_vars => [OnlyOther]_vars
  BY <1>1
<1> QED
  BY <1>2, AlwaysIInv, PTL DEF Spec, OnlyOtherEndCloses
=============================================================================
