---------------------------- MODULE MntRpcProofs ----------------------------
(***************************************************************************)
(* Proofs about the mount driver's remote procedure calls, for any number  *)
(* of processes and mount points: one reader at a time; and, while no      *)
(* channel hangs up, that Mntrpcs are accounted for, that the gate is not  *)
(* lost, that a call returns with its own reply, and that the server never *)
(* has two requests under one tag.                                         *)
(***************************************************************************)
EXTENDS MntRpc, SequenceTheorems, FiniteSetTheorems, WellFoundedInduction, TLAPS

(* What a process has follows its place in the code.                       *)
Life ==
    \A p \in Procs :
        /\ pc[p] # "idle" => mine[p] \in Rpcs /\ on[p] \in Mounts
        /\ pc[p] = "idle" => mine[p] = None /\ on[p] = None
        /\ pc[p] \in {"flush", "flushwrite", "qrm"} => cont[p] \in {"send", "gate", "read"}
        /\ pc[p] \in {"passgate", "wakenext"} => cont[p] \in {"return", "fail"}
        /\ pc[p] \in {"copy", "finish", "wake", "wakenext"} => other[p] \in Rpcs

IGate == TypeOK /\ Life /\ OneReader
-----------------------------------------------------------------------------
(* What is in a sequence, and that nothing is in it twice.                 *)
Within(x, s) == \E i \in DOMAIN s : s[i] = x
Distinct(s)  == \A i, j \in DOMAIN s : s[i] = s[j] => i = j

(* A set of naturals that is not empty has the least element Min chooses.  *)
LEMMA MinNat ==
  ASSUME NEW I \in SUBSET Nat, I # {}
  PROVE  Min(I) \in I
<1>1. PICK i \in I : \A j \in I : <<j, i>> \notin OpToRel(<, Nat)
  BY WFMin, NatLessThanWellFounded
<1>2. ASSUME NEW j \in I PROVE i <= j
  <2>1. i \in Nat /\ j \in Nat /\ <<j, i>> \notin OpToRel(<, Nat)
    BY <1>1
  <2> QED
    BY <2>1 DEF OpToRel
<1> QED
  BY <1>2 DEF Min

(* What is left when one entry is taken out, or the first that is e.       *)
LEMMA RemoveAtFacts ==
  ASSUME NEW S, NEW s \in Seq(S), NEW k \in 1..Len(s), NEW r, r = RemoveAt(s, k)
  PROVE  /\ r \in Seq(S) /\ Len(r) = Len(s) - 1
         /\ \A i \in 1..(Len(s) - 1) : r[i] = IF i < k THEN s[i] ELSE s[i + 1]
<1>1. Len(s) \in Nat /\ k \in Nat /\ k >= 1 /\ k <= Len(s)
  BY LenProperties
<1>2. \A i \in 1..Len(s) : s[i] \in S
  BY ElementOfSeq
<1>3. PICK a : a = SubSeq(s, 1, k - 1)
  OBVIOUS
<1>4. PICK b : b = SubSeq(s, k + 1, Len(s))
  OBVIOUS
<1>5. /\ a \in Seq(S) /\ Len(a) = k - 1
      /\ \A i \in 1..(k - 1) : a[i] = s[i]
  <2>1. \A i \in 1..(k - 1) : s[i] \in S
    BY <1>1, <1>2
  <2>2. /\ a \in Seq(S) /\ Len(a) = IF 1 <= k - 1 THEN k - 1 - 1 + 1 ELSE 0
        /\ \A i \in 1..(k - 1 - 1 + 1) : a[i] = s[1 + i - 1]
    BY <1>1, <1>3, <2>1, SubSeqProperties
  <2> QED
    BY <1>1, <2>2
<1>6. /\ b \in Seq(S) /\ Len(b) = Len(s) - k
      /\ \A i \in 1..(Len(s) - k) : b[i] = s[k + i]
  <2>1. \A i \in (k + 1)..Len(s) : s[i] \in S
    BY <1>1, <1>2
  <2>2. /\ b \in Seq(S)
        /\ Len(b) = IF k + 1 <= Len(s) THEN Len(s) - (k + 1) + 1 ELSE 0
        /\ \A i \in 1..(Len(s) - (k + 1) + 1) : b[i] = s[k + 1 + i - 1]
    BY <1>1, <1>4, <2>1, SubSeqProperties
  <2>3. \A i \in 1..(Len(s) - k) : i \in 1..(Len(s) - (k + 1) + 1) /\ k + 1 + i - 1 = k + i
    BY <1>1
  <2> QED
    BY <1>1, <2>2, <2>3
<1>7. /\ a \o b \in Seq(S) /\ Len(a \o b) = Len(a) + Len(b)
      /\ \A i \in 1..(Len(a) + Len(b)) :
            (a \o b)[i] = IF i <= Len(a) THEN a[i] ELSE b[i - Len(a)]
  BY <1>5, <1>6, ConcatProperties
<1>8. r = a \o b
  BY <1>3, <1>4 DEF RemoveAt
<1>9. r \in Seq(S) /\ Len(r) = Len(s) - 1
  <2>1. r \in Seq(S) /\ Len(r) = Len(a) + Len(b)
    BY <1>7, <1>8
  <2> QED
    BY <1>1, <1>5, <1>6, <2>1
<1>10. ASSUME NEW i \in 1..(Len(s) - 1) PROVE r[i] = IF i < k THEN s[i] ELSE s[i + 1]
  <2>1. r[i] = IF i <= k - 1 THEN a[i] ELSE b[i - (k - 1)]
    BY <1>1, <1>5, <1>6, <1>7, <1>8
  <2>2. CASE i < k
    BY <1>1, <1>5, <2>1, <2>2
  <2>3. CASE ~(i < k)
    <3>1. i - (k - 1) \in 1..(Len(s) - k) /\ k + (i - (k - 1)) = i + 1
      BY <1>1, <2>3
    <3> QED
      BY <1>1, <1>6, <2>1, <2>3, <3>1
  <2> QED
    BY <2>2, <2>3
<1> QED
  BY <1>9, <1>10

(* RemoveFirst gives a sequence of the same things.                         *)
LEMMA RemoveFirstSeq ==
  ASSUME NEW S, NEW s \in Seq(S), NEW e
  PROVE  RemoveFirst(s, e) \in Seq(S)
<1>1. Len(s) \in Nat /\ DOMAIN s = 1..Len(s)
  BY LenProperties
<1>2. PICK I : I = {i \in 1..Len(s) : s[i] = e}
  OBVIOUS
<1>3. CASE I = {}
  BY <1>2, <1>3 DEF RemoveFirst
<1>4. CASE I # {}
  <2>1. PICK k : k = Min(I)
    OBVIOUS
  <2>2. k \in 1..Len(s)
    <3>1. I \in SUBSET Nat
      BY <1>1, <1>2
    <3> QED
      BY <1>2, <1>4, <2>1, <3>1, MinNat
  <2>3. SelectInSeq(s, LAMBDA v : v = e) = k
    BY <1>2, <1>4, <2>1 DEF SelectInSeq
  <2>4. RemoveFirst(s, e) = RemoveAt(s, k)
    BY <1>2, <1>4, <2>3 DEF RemoveFirst
  <2>5. PICK t : t = RemoveAt(s, k)
    OBVIOUS
  <2> QED
    BY <2>2, <2>4, <2>5, RemoveAtFacts
<1> QED
  BY <1>3, <1>4

(* And it takes e out, when nothing is there twice.                         *)
LEMMA RemoveFirstFacts ==
  ASSUME NEW S, NEW s \in Seq(S), NEW e, NEW r, r = RemoveFirst(s, e), Distinct(s)
  PROVE  /\ r \in Seq(S)
         /\ Distinct(r)
         /\ \A x : Within(x, r) <=> Within(x, s) /\ x # e
<1> USE DEF Distinct, Within
<1>1. Len(s) \in Nat /\ DOMAIN s = 1..Len(s)
  BY LenProperties
<1>2. CASE ~\E i \in 1..Len(s) : s[i] = e
  <2>1. r = s
    BY <1>2 DEF RemoveFirst
  <2> QED
    BY <1>1, <1>2, <2>1
<1>3. CASE \E i \in 1..Len(s) : s[i] = e
  <2>1. PICK I : I = {i \in 1..Len(s) : s[i] = e}
    OBVIOUS
  <2>2. I \in SUBSET Nat /\ I # {}
    BY <1>1, <1>3, <2>1
  <2>3. PICK k \in 1..Len(s) : k = Min(I) /\ s[k] = e
    BY <2>1, <2>2, MinNat
  <2>4. r = RemoveAt(s, k)
    <3>1. SelectInSeq(s, LAMBDA v : v = e) = k
      BY <2>1, <2>2, <2>3 DEF SelectInSeq
    <3> QED
      BY <1>3, <3>1 DEF RemoveFirst
  <2>5. /\ r \in Seq(S) /\ Len(r) = Len(s) - 1
        /\ \A i \in 1..(Len(s) - 1) : r[i] = IF i < k THEN s[i] ELSE s[i + 1]
    <3> HIDE DEF Distinct, Within
    <3>1. s \in Seq(S) /\ k \in 1..Len(s)
      BY <2>3
    <3> QED
      BY ONLY SMTT(60), <2>4, <3>1, RemoveAtFacts
  <2>6. DOMAIN r = 1..(Len(s) - 1)
    BY <2>5, LenProperties
  <2>7. \A i, j \in 1..Len(s) : s[i] = s[j] => i = j
    BY <1>1
  <2>8. \A i, j \in DOMAIN r : r[i] = r[j] => i = j
    <3> SUFFICES ASSUME NEW i \in 1..(Len(s) - 1), NEW j \in 1..(Len(s) - 1), r[i] = r[j]
                 PROVE  i = j
      BY <2>6
    <3>1. PICK m \in 1..Len(s) : r[i] = s[m] /\ ((m = i /\ i < k) \/ (m = i + 1 /\ ~(i < k)))
      <4>1. r[i] = IF i < k THEN s[i] ELSE s[i + 1]
        BY <2>5
      <4> QED
        BY <1>1, <4>1
    <3>2. PICK n \in 1..Len(s) : r[j] = s[n] /\ ((n = j /\ j < k) \/ (n = j + 1 /\ ~(j < k)))
      <4>1. r[j] = IF j < k THEN s[j] ELSE s[j + 1]
        BY <2>5
      <4> QED
        BY <1>1, <4>1
    <3>3. m = n
      BY <2>7, <3>1, <3>2
    <3> QED
      BY <1>1, <3>1, <3>2, <3>3
  <2>9. ASSUME NEW i \in DOMAIN r
        PROVE  \E m \in DOMAIN s : s[m] = r[i] /\ m # k
    <3>1. CASE i < k
      BY <1>1, <2>5, <2>6, <3>1
    <3>2. CASE ~(i < k)
      <4>1. i \in 1..(Len(s) - 1) /\ r[i] = s[i + 1]
        BY <2>5, <2>6, <3>2
      <4>2. i + 1 \in DOMAIN s /\ i + 1 # k
        BY <1>1, <3>2, <4>1
      <4> QED
        BY <4>1, <4>2
    <3> QED
      BY <3>1, <3>2
  <2>10. ASSUME NEW m \in DOMAIN s, m # k
         PROVE  \E i \in DOMAIN r : r[i] = s[m]
    <3>1. CASE m < k
      <4>1. m \in DOMAIN r /\ r[m] = s[m]
        BY <1>1, <2>5, <2>6, <3>1
      <4> QED
        BY <4>1
    <3>2. CASE ~(m < k)
      <4>1. m - 1 \in 1..(Len(s) - 1) /\ ~(m - 1 < k) /\ (m - 1) + 1 = m
        BY <1>1, <2>10, <3>2
      <4>2. m - 1 \in DOMAIN r /\ r[m - 1] = s[m]
        BY <2>5, <2>6, <4>1
      <4> QED
        BY <4>2
    <3> QED
      BY <3>1, <3>2
  <2>11. \A m \in DOMAIN s : s[m] = e <=> m = k
    BY <1>1, <2>3, <2>7
  <2> QED
    BY <2>5, <2>8, <2>9, <2>10, <2>11
<1> QED
  BY <1>2, <1>3

(* What is in a sequence with one more in front, or without its head.      *)
LEMMA ConsFacts ==
  ASSUME NEW S, NEW s \in Seq(S), NEW e \in S, NEW t, t = <<e>> \o s
  PROVE  /\ \A x : Within(x, t) <=> (x = e \/ Within(x, s))
         /\ Distinct(s) /\ ~Within(e, s) => Distinct(t)
<1> USE DEF Distinct, Within
<1>1. Len(s) \in Nat /\ DOMAIN s = 1..Len(s) /\ <<e>> \in Seq(S) /\ Len(<<e>>) = 1 /\ <<e>>[1] = e
  BY LenProperties
<1>2. /\ t \in Seq(S) /\ Len(t) = Len(s) + 1
      /\ \A i \in 1..(Len(s) + 1) : t[i] = IF i <= 1 THEN <<e>>[i] ELSE s[i - 1]
  <2>1. /\ t \in Seq(S) /\ Len(t) = Len(<<e>>) + Len(s)
        /\ \A i \in 1..(Len(<<e>>) + Len(s)) :
              t[i] = IF i <= Len(<<e>>) THEN <<e>>[i] ELSE s[i - Len(<<e>>)]
    BY <1>1, ConcatProperties
  <2> QED
    BY <1>1, <2>1
<1>3. DOMAIN t = 1..(Len(s) + 1) /\ t[1] = e
  BY <1>1, <1>2, LenProperties
<1>4. \A i \in 2..(Len(s) + 1) : i - 1 \in DOMAIN s /\ t[i] = s[i - 1]
  BY <1>1, <1>2
<1>5. \A i \in DOMAIN s : i + 1 \in 2..(Len(s) + 1) /\ t[i + 1] = s[i]
  BY <1>1, <1>2
<1>6. \A i \in DOMAIN t : i = 1 \/ i \in 2..(Len(s) + 1)
  BY <1>1, <1>3
<1>7. ASSUME NEW x PROVE Within(x, t) <=> (x = e \/ Within(x, s))
  <2>1. ASSUME NEW i \in DOMAIN t, t[i] = x PROVE x = e \/ (\E j \in DOMAIN s : s[j] = x)
    BY <1>3, <1>4, <1>6, <2>1
  <2>2. ASSUME NEW i \in DOMAIN s, s[i] = x PROVE \E j \in DOMAIN t : t[j] = x
    <3>1. i + 1 \in DOMAIN t /\ t[i + 1] = x
      BY <1>1, <1>3, <1>5, <2>2
    <3> QED
      BY <3>1
  <2>3. 1 \in DOMAIN t
    BY <1>1, <1>3
  <2> QED
    BY <1>3, <2>1, <2>2, <2>3
<1>8. ASSUME Distinct(s), ~Within(e, s),
             NEW i \in DOMAIN t, NEW j \in DOMAIN t, t[i] = t[j]
      PROVE  i = j
  <2>1. CASE i = 1 \/ j = 1
    BY <1>3, <1>4, <1>6, <1>8, <2>1
  <2>2. CASE i # 1 /\ j # 1
    <3>1. i - 1 \in DOMAIN s /\ j - 1 \in DOMAIN s /\ s[i - 1] = s[j - 1]
      BY <1>4, <1>6, <1>8, <2>2
    <3>2. i - 1 = j - 1
      BY <1>8, <3>1
    <3> QED
      BY <1>6, <2>2, <3>2
  <2> QED
    BY <2>1, <2>2
<1> QED
  BY <1>7, <1>8

(* What is left of a sequence without its head.                            *)
LEMMA TailFacts ==
  ASSUME NEW S, NEW s \in Seq(S), s # <<>>, NEW t, t = Tail(s), Distinct(s)
  PROVE  /\ \A x : Within(x, t) <=> Within(x, s) /\ x # Head(s)
         /\ Distinct(t)
         /\ Within(Head(s), s)
<1> USE DEF Distinct, Within
<1>1. Len(s) \in Nat /\ Len(s) # 0 /\ DOMAIN s = 1..Len(s)
  BY LenProperties, EmptySeq
<1>2. /\ t \in Seq(S) /\ Len(t) = Len(s) - 1 /\ Head(s) = s[1]
      /\ \A i \in 1..(Len(s) - 1) : t[i] = s[i + 1]
  <2>1. /\ t \in Seq(S) /\ Len(t) = Len(s) - 1 /\ \A i \in 1..Len(t) : t[i] = s[i + 1]
    BY HeadTailProperties
  <2> QED
    BY <2>1
<1>3. DOMAIN t = 1..(Len(s) - 1)
  BY <1>2, LenProperties
<1>4. 1 \in DOMAIN s
  BY <1>1
<1>5. \A i \in DOMAIN t : i + 1 \in DOMAIN s /\ i + 1 # 1 /\ t[i] = s[i + 1]
  BY <1>1, <1>2, <1>3
<1>6. \A i \in DOMAIN s : i # 1 => i - 1 \in DOMAIN t /\ t[i - 1] = s[i]
  <2>1. ASSUME NEW i \in DOMAIN s, i # 1 PROVE i - 1 \in DOMAIN t /\ (i - 1) + 1 = i
    BY <1>1, <1>3, <2>1
  <2> QED
    BY <1>5, <2>1
<1>7. ASSUME NEW x
      PROVE  Within(x, t) <=> Within(x, s) /\ x # Head(s)
  BY <1>2, <1>4, <1>5, <1>6
<1>8. ASSUME NEW i \in DOMAIN t, NEW j \in DOMAIN t, t[i] = t[j] PROVE i = j
  <2>1. i + 1 = j + 1
    BY <1>5, <1>8
  <2> QED
    BY <1>3, <2>1
<1> QED
  BY <1>2, <1>4, <1>7, <1>8

(* Mntrpcs, flush tags and no process are told apart.                      *)
LEMMA RpcsAreNumbers ==
  /\ Cardinality(Procs) \in Nat /\ Rpcs \subseteq Nat /\ None \notin Rpcs /\ None \notin Procs
  /\ 0 \notin Rpcs /\ Tagfls \in Nat /\ Tagend \in Nat /\ Tagfls > Cardinality(Procs)
  /\ FlushTags \subseteq Nat
BY RpcAssumption, FS_CardinalityType DEF Rpcs, FlushTags

Queued(r, m) == Within(r, queue[m])

(* What mountmux finds is in the queue, and it finds it if it is there.    *)
LEMMA AskerFacts ==
  ASSUME TypeOK, NEW m \in Mounts, NEW tag, NEW q, q = Asker(m, tag)
  PROVE  /\ q # None => q \in Rpcs /\ Queued(q, m) /\ Matches(q, tag)
         /\ q = None => \A r : Queued(r, m) => ~Matches(r, tag)
<1>1. queue[m] \in Seq(Rpcs) /\ Len(queue[m]) \in Nat /\ DOMAIN queue[m] = 1..Len(queue[m])
  BY LenProperties DEF TypeOK
<1>2. PICK I : I = {i \in 1..Len(queue[m]) : Matches(queue[m][i], tag)}
  OBVIOUS
<1>3. SelectInSeq(queue[m], LAMBDA r : Matches(r, tag)) = IF I # {} THEN Min(I) ELSE 0
  BY <1>2 DEF SelectInSeq
<1>4. CASE I = {}
  <2>1. q = None
    BY <1>3, <1>4 DEF Asker
  <2> QED
    BY <1>1, <1>2, <1>4, <2>1 DEF Queued, Within
<1>5. CASE I # {}
  <2>1. Min(I) \in I
    <3>1. I \in SUBSET Nat
      BY <1>1, <1>2
    <3> QED
      BY <1>5, <3>1, MinNat
  <2>2. Min(I) \in 1..Len(queue[m]) /\ Min(I) # 0
    BY <1>1, <1>2, <2>1
  <2>3. q = queue[m][Min(I)]
    BY <1>3, <1>5, <2>2 DEF Asker
  <2>4. q \in Rpcs
    BY <1>1, <2>2, <2>3, ElementOfSeq
  <2> QED
    BY <1>1, <1>2, <2>1, <2>2, <2>3, <2>4, RpcsAreNumbers DEF Queued, Within
<1> QED
  BY <1>4, <1>5

(* A call whose process sleeps and that nobody has completed.              *)
Dozes(q) == ~done[q] /\ \E p \in Procs : pc[p] = "asleep" /\ mine[p] = q

(* The heir is asleep in the queue, and there is one if anyone is.         *)
LEMMA HeirFacts ==
  ASSUME TypeOK, NEW m \in Mounts, NEW q, q = Heir(m)
  PROVE  /\ q # None => q \in Rpcs /\ Queued(q, m) /\ Dozes(q)
         /\ q = None => \A r : Queued(r, m) => ~Dozes(r)
<1>1. queue[m] \in Seq(Rpcs) /\ Len(queue[m]) \in Nat /\ DOMAIN queue[m] = 1..Len(queue[m])
  BY LenProperties DEF TypeOK
<1>2. PICK I : I = {i \in 1..Len(queue[m]) : Dozes(queue[m][i])}
  OBVIOUS
<1>3. SelectInSeq(queue[m], Dozes) = IF I # {} THEN Min(I) ELSE 0
  BY <1>2 DEF SelectInSeq
<1>4. Heir(m) = IF SelectInSeq(queue[m], Dozes) = 0 THEN None
                ELSE queue[m][SelectInSeq(queue[m], Dozes)]
  BY DEF Heir, Dozes, SelectInSeq
<1>5. CASE I = {}
  <2>1. q = None
    BY <1>3, <1>4, <1>5
  <2> QED
    BY <1>1, <1>2, <1>5, <2>1 DEF Queued, Within
<1>6. CASE I # {}
  <2>1. Min(I) \in I
    <3>1. I \in SUBSET Nat
      BY <1>1, <1>2
    <3> QED
      BY <1>6, <3>1, MinNat
  <2>2. q = queue[m][Min(I)] /\ Min(I) \in DOMAIN queue[m]
    BY <1>1, <1>2, <1>3, <1>4, <1>6, <2>1
  <2>3. q \in Rpcs
    BY <1>1, <2>2, ElementOfSeq
  <2> QED
    BY <1>2, <2>1, <2>2, <2>3, RpcsAreNumbers DEF Queued, Within
<1> QED
  BY <1>5, <1>6
-----------------------------------------------------------------------------
(* Goto moves one process.                                                 *)
LEMMA GotoFacts ==
  ASSUME TypeOK, NEW p \in Procs, NEW from, NEW to \in Places, Goto(p, from, to)
  PROVE  /\ pc[p] = from /\ pc'[p] = to /\ \A q \in Procs \ {p} : pc'[q] = pc[q]
         /\ pc' \in [Procs -> Places]
BY DEF TypeOK, Goto

(* A process goes from one place in a call to another and takes no part in *)
(* the reading, or goes on with it, as before.                             *)
LEMMA StaysGated ==
  ASSUME IGate, NEW p \in Procs, NEW from \in Places, NEW to \in Places, Goto(p, from, to),
         from # "idle", to # "idle", UNCHANGED site,
         rip' = rip, Reads(p)' <=> Reads(p),
         \A q \in Procs \ {p} : cont'[q] = cont[q] /\ other'[q] = other[q],
         to \in {"flush", "flushwrite", "qrm"} => cont'[p] \in {"send", "gate", "read"},
         to \in {"passgate", "wakenext"} => cont'[p] \in {"return", "fail"},
         to \in {"copy", "finish", "wake", "wakenext"} => other'[p] \in Rpcs
  PROVE  Life' /\ OneReader' /\ pc' \in [Procs -> Places]
<1>1. /\ pc[p] = from /\ pc'[p] = to /\ \A q \in Procs \ {p} : pc'[q] = pc[q]
      /\ pc' \in [Procs -> Places]
  BY GotoFacts DEF IGate
<1>2. Life'
  BY <1>1 DEF IGate, Life, site
<1>3. \A q \in Procs : Reads(q)' <=> Reads(q)
  BY <1>1 DEF Reads
<1>4. OneReader'
  BY <1>1, <1>3 DEF IGate, OneReader, site
<1> QED
  BY <1>1, <1>2, <1>4

(* One lemma for each action: it leaves types, places and the one reader right.*)
LEMMA SendGate ==
  ASSUME IGate, NEW p \in Procs, Send(p)
  PROVE  IGate'
<1>1. pc[p] = "send" /\ pc'[p] = "gate" /\ UNCHANGED <<local, rpcs, mnts>>
  BY GotoFacts DEF Send, Places, IGate
<1>2. Life' /\ OneReader' /\ pc' \in [Procs -> Places]
  BY <1>1, StaysGated DEF Send, local, mnts, Reads, Places
<1>3. server' \in [Mounts -> SUBSET Requests] /\ wire' = wire /\ hung' = hung
  BY <1>1 DEF IGate, Send, Sent, Life, TypeOK, Requests, FlushTags, CallIds
<1> QED
  BY <1>1, <1>2, <1>3 DEF IGate, TypeOK, local, notes, site, rpcs, mnts

(* An interrupted write or read, and a note that ends a sleep.             *)
LEMMA FlushGate ==
  ASSUME IGate, NEW p \in Procs, SendFails(p) \/ ReadFails(p) \/ WakeNoted(p)
  PROVE  IGate'
<1>1. PICK from \in {"send", "read", "woken"} :
          /\ Goto(p, from, "flush")
          /\ cont' = [cont EXCEPT ![p] = IF from = "woken" THEN "gate" ELSE from]
  BY DEF SendFails, ReadFails, WakeNoted, Flush
<1>2. pc[p] = from /\ pc'[p] = "flush"
  BY <1>1, GotoFacts DEF Places, IGate
<1>3. UNCHANGED <<noted, site, other, rpcs, mnts, chans>>
  BY DEF SendFails, ReadFails, WakeNoted
<1>4. /\ cont' \in [Procs -> {"send", "gate", "read", "return", "fail"}]
      /\ cont'[p] = (IF from = "woken" THEN "gate" ELSE from)
      /\ \A q \in Procs \ {p} : cont'[q] = cont[q]
  BY <1>1 DEF IGate, TypeOK
<1>5. notepending' \in [Procs -> BOOLEAN]
  BY DEF SendFails, ReadFails, WakeNoted, Interrupted, IGate, TypeOK
<1>6. Reads(p)' <=> Reads(p)
  BY <1>1, <1>2, <1>4 DEF Reads
<1>7. Life' /\ OneReader' /\ pc' \in [Procs -> Places]
  <2>1. from \in Places /\ "flush" \in Places
    BY DEF Places
  <2> QED
    BY <1>1, <1>3, <1>4, <1>6, <2>1, StaysGated DEF mnts
<1> QED
  BY <1>3, <1>4, <1>5, <1>7 DEF IGate, TypeOK, site, rpcs, mnts, chans

(* Who takes the gate finds no reader.                                     *)
LEMMA GateGate ==
  ASSUME IGate, NEW p \in Procs, Gate(p)
  PROVE  IGate'
<1>1. /\ pc[p] = "gate" /\ pc' \in [Procs -> Places]
      /\ pc'[p] = (IF rip[on[p]] = None THEN "read" ELSE "sleep")
      /\ \A q \in Procs \ {p} : pc'[q] = pc[q]
  BY GotoFacts DEF Gate, Places, IGate
<1>2. UNCHANGED <<local, rpcs, queue, nextflush, chans>>
  BY DEF Gate
<1>3. Life'
  BY <1>1, <1>2 DEF IGate, Life, local, site
<1>4. /\ rip' \in [Mounts -> Procs \cup {None}]
      /\ \A m \in Mounts : rip'[m] = IF m = on[p] /\ rip[m] = None THEN p ELSE rip[m]
  BY <1>1 DEF Gate, IGate, TypeOK, Life
<1>5. \A q \in Procs \ {p} : Reads(q)' <=> Reads(q)
  BY <1>1, <1>2 DEF Reads, local
<1>6. OneReader'
  BY <1>1, <1>2, <1>4, <1>5, RpcsAreNumbers DEF IGate, OneReader, Reads, local, site
<1> QED
  BY <1>1, <1>2, <1>3, <1>4, <1>6 DEF IGate, TypeOK, local, notes, site, rpcs, chans

(* The steps that change nothing but the place of one process.             *)
LEMMA PlaceGate ==
  ASSUME IGate, NEW p \in Procs,
         Sleep(p) \/ Disturb(p) \/ Wake(p) \/ FlushFails(p)
  PROVE  IGate'
<1>1. PICK from \in {"sleep", "asleep", "woken", "flushwrite"},
           to \in {"woken", "asleep", "return", "gate", "qrm"} :
           Goto(p, from, to) /\ (to = "qrm" <=> from = "flushwrite")
  BY DEF Sleep, Disturb, Wake, FlushFails
<1>2. UNCHANGED <<local, rpcs, mnts, chans>>
  BY DEF Sleep, Disturb, Wake, FlushFails
<1>3. pc[p] = from /\ pc'[p] = to
  BY <1>1, GotoFacts DEF Places, IGate
<1>4. Reads(p)' <=> Reads(p)
  BY <1>1, <1>2, <1>3 DEF Reads, local
<1>5. to = "qrm" => cont'[p] \in {"send", "gate", "read"}
  BY <1>1, <1>2, <1>3 DEF IGate, Life, local
<1>6. Life' /\ OneReader' /\ pc' \in [Procs -> Places]
  <2>1. from \in Places /\ to \in Places
    BY DEF Places
  <2> QED
    BY <1>1, <1>2, <1>4, <1>5, <2>1, StaysGated DEF local, mnts
<1> QED
  BY <1>2, <1>6 DEF IGate, TypeOK, local, notes, site, rpcs, mnts, chans

(* The reader's read leaves it the reader.                                 *)
LEMMA ReadGate ==
  ASSUME IGate, NEW p \in Procs, Read(p)
  PROVE  IGate'
<1>1. pc[p] = "read" /\ pc'[p] = "mux"
  BY GotoFacts DEF Read, Places, IGate
<1>2. UNCHANGED <<local, done, flushed, flushtag, free, rpctag, mnts, server, hung>>
  BY DEF Read
<1>3. Life' /\ OneReader' /\ pc' \in [Procs -> Places]
  BY <1>1, <1>2, StaysGated DEF Read, local, mnts, Reads, Places
<1>4. PICK m \in Mounts : m = on[p] /\ wire[m] \in Seq(Replies) /\ wire[m] # <<>>
  BY <1>1 DEF IGate, Life, TypeOK, Read
<1>5. Head(wire[m]) \in Replies /\ Tail(wire[m]) \in Seq(Replies)
  BY <1>4, HeadTailProperties
<1>6. reply' \in [Rpcs -> Replies] /\ wire' \in [Mounts -> Seq(Replies)]
  BY <1>4, <1>5 DEF Read, IGate, TypeOK
<1> QED
  BY <1>2, <1>3, <1>6 DEF IGate, TypeOK, local, notes, site, mnts

(* A reader with its reply goes on to pass the gate.                       *)
LEMMA ReadDoneGate ==
  ASSUME IGate, NEW p \in Procs, ReadDone(p)
  PROVE  IGate'
<1>1. pc[p] = "read" /\ pc'[p] = "passgate" /\ UNCHANGED <<notes, site, other, rpcs, mnts, chans>>
  BY GotoFacts DEF ReadDone, Places, IGate
<1>2. /\ cont' \in [Procs -> {"send", "gate", "read", "return", "fail"}]
      /\ cont'[p] = "return" /\ \A q \in Procs \ {p} : cont'[q] = cont[q]
  BY DEF ReadDone, IGate, TypeOK
<1>3. Life' /\ OneReader' /\ pc' \in [Procs -> Places]
  BY <1>1, <1>2, StaysGated DEF ReadDone, mnts, Reads, Places
<1> QED
  BY <1>1, <1>2, <1>3 DEF IGate, TypeOK, notes, site, rpcs, mnts, chans

(* The reader looks its reply up and stays the reader.                     *)
LEMMA MuxGate ==
  ASSUME IGate, NEW p \in Procs, Mux(p)
  PROVE  IGate'
<1>1. PICK m \in Mounts : m = on[p]
  BY DEF IGate, Life, Mux
<1>2. PICK q : q = Asker(m, reply[mine[p]].tag)
  OBVIOUS
<1>3. PICK to \in {"read", "copy"} : to = IF q \in {None, mine[p]} THEN "read" ELSE "copy"
  OBVIOUS
<1>4. /\ Goto(p, "mux", to) /\ pc[p] = "mux" /\ pc'[p] = to
      /\ UNCHANGED <<cont, notes, site, flushed, flushtag, reply, free, rpctag,
                     rip, nextflush, chans>>
  BY <1>1, <1>2, <1>3, GotoFacts DEF Mux, Found, Places, IGate
<1>5. done' = (IF q = mine[p] THEN [done EXCEPT ![q] = TRUE] ELSE done)
  BY <1>1, <1>2 DEF Mux, Found
<1>6. other' = (IF q \in {None, mine[p]} THEN other ELSE [other EXCEPT ![p] = q])
  BY <1>1, <1>2 DEF Mux, Found
<1>7. queue' = [queue EXCEPT ![m] = RemoveFirst(queue[m], q)]
  BY <1>1, <1>2 DEF Mux
<1>8. q # None => q \in Rpcs
  BY <1>2, AskerFacts DEF IGate
<1>9. done' \in [Rpcs -> BOOLEAN] /\ other' \in [Procs -> Rpcs \cup {None}]
  BY <1>5, <1>6, <1>8 DEF IGate, TypeOK
<1>10. queue' \in [Mounts -> Seq(Rpcs)]
  <2>1. queue[m] \in Seq(Rpcs) /\ queue \in [Mounts -> Seq(Rpcs)]
    BY DEF IGate, TypeOK
  <2>2. RemoveFirst(queue[m], q) \in Seq(Rpcs)
    BY <2>1, RemoveFirstSeq
  <2> QED
    BY <1>7, <2>1, <2>2
<1>11. /\ \A r \in Procs \ {p} : other'[r] = other[r] /\ cont'[r] = cont[r]
       /\ to = "copy" => other'[p] \in Rpcs
  BY <1>3, <1>4, <1>6, <1>8 DEF IGate, TypeOK
<1>12. Reads(p)' <=> Reads(p)
  BY <1>4 DEF Reads
<1>13. Life' /\ OneReader' /\ pc' \in [Procs -> Places]
  <2>1. to \in Places /\ "mux" \in Places
    BY DEF Places
  <2> QED
    BY <1>4, <1>11, <1>12, <2>1, StaysGated
<1> QED
  BY <1>4, <1>9, <1>10, <1>13 DEF IGate, TypeOK, notes, site, chans

(* So it does when it copies the reply, and marks the request done.        *)
LEMMA CopyGate ==
  ASSUME IGate, NEW p \in Procs, Copy(p) \/ Finish(p)
  PROVE  IGate'
<1>1. PICK from \in {"copy", "finish"}, to \in {"finish", "wake"} :
          Goto(p, from, to) /\ pc[p] = from /\ pc'[p] = to
  BY GotoFacts DEF Copy, Finish, Places, IGate
<1>2. UNCHANGED <<local, flushed, flushtag, free, rpctag, mnts, chans>>
  BY DEF Copy, Finish
<1>3. mine[p] \in Rpcs /\ other[p] \in Rpcs
  BY <1>1 DEF IGate, Life
<1>4. done' \in [Rpcs -> BOOLEAN] /\ reply' \in [Rpcs -> Replies]
  BY <1>3 DEF Copy, Finish, IGate, TypeOK
<1>5. Reads(p)' <=> Reads(p)
  BY <1>1 DEF Reads
<1>6. Life' /\ OneReader' /\ pc' \in [Procs -> Places]
  <2>1. from \in Places /\ to \in Places
    BY DEF Places
  <2> QED
    BY <1>1, <1>2, <1>3, <1>5, <2>1, StaysGated DEF local, mnts
<1> QED
  BY <1>2, <1>4, <1>6 DEF IGate, TypeOK, local, notes, site, mnts, chans

(* A wakeup moves others too, from one place to another where they wait.   *)
LEMMA WakeupGate ==
  ASSUME IGate, NEW p \in Procs, WakeOther(p) \/ WakeNext(p)
  PROVE  IGate'
<1>1. UNCHANGED <<cont, notes, site, rpcs, mnts, chans>>
  BY DEF WakeOther, WakeNext
<1>2. /\ \/ pc[p] = "wake" /\ pc'[p] = "read"
         \/ pc[p] = "wakenext" /\ pc'[p] = cont[p]
      /\ \A q \in Procs \ {p} : pc'[q] = pc[q] \/ (pc[q] = "asleep" /\ pc'[q] = "woken")
      /\ pc' \in [Procs -> Places]
  <2>1. PICK from, to \in Places : Wakeup(p, other[p], from, to)
                  /\ ((from = "wake" /\ to = "read") \/ (from = "wakenext" /\ to = cont[p]))
    BY DEF WakeOther, WakeNext, IGate, Life, Places, Wakeup
  <2>2. pc' = [q \in Procs |-> IF q = p THEN to
                               ELSE IF pc[q] = "asleep" /\ mine[q] = other[p] THEN "woken"
                               ELSE pc[q]]
    BY <2>1 DEF Wakeup
  <2>3. pc[p] = from /\ pc \in [Procs -> Places] /\ "woken" \in Places
    BY <2>1 DEF Wakeup, IGate, TypeOK, Places
  <2> QED
    BY <2>1, <2>2, <2>3
<1>3. other' \in [Procs -> Rpcs \cup {None}] /\ \A q \in Procs \ {p} : other'[q] = other[q]
  BY DEF WakeOther, WakeNext, IGate, TypeOK
<1>4. cont[p] \in {"return", "fail"} \/ pc[p] = "wake"
  BY <1>2 DEF IGate, Life
<1>5. Life'
  BY <1>1, <1>2, <1>3, <1>4 DEF IGate, Life, site
<1>6. \A q \in Procs : Reads(q)' <=> Reads(q)
  BY <1>1, <1>2, <1>4 DEF Reads
<1>7. OneReader'
  BY <1>1, <1>6 DEF IGate, OneReader, site, mnts
<1> QED
  BY <1>1, <1>2, <1>3, <1>5, <1>7 DEF IGate, TypeOK, notes, site, rpcs, mnts, chans

(* Whom the gate is passed to, is the reader, and was on the queue.        *)
LEMMA PassGateGate ==
  ASSUME IGate, NEW p \in Procs, PassGate(p)
  PROVE  IGate'
<1>1. PICK m \in Mounts : m = on[p]
  BY DEF IGate, Life, PassGate
<1>2. PICK q : q = Heir(m)
  OBVIOUS
<1>3. /\ pc[p] = "passgate" /\ pc'[p] = (IF q = None THEN cont[p] ELSE "wakenext")
      /\ \A r \in Procs \ {p} : pc'[r] = pc[r]
      /\ pc' \in [Procs -> Places]
  <2>1. cont[p] \in Places
    BY DEF PassGate, IGate, Life, Places
  <2> QED
    BY <1>1, <1>2, <2>1, GotoFacts DEF PassGate, Opened, Places, IGate
<1>4. /\ UNCHANGED <<cont, notes, site, rpcs, queue, nextflush, chans>>
      /\ rip' = [rip EXCEPT ![m] = None] /\ other' = [other EXCEPT ![p] = q]
  BY <1>1, <1>2 DEF PassGate, Opened
<1>5. q # None => q \in Rpcs
  BY <1>2, HeirFacts DEF IGate
<1>6. /\ other' \in [Procs -> Rpcs \cup {None}] /\ other'[p] = q
      /\ \A r \in Procs \ {p} : other'[r] = other[r]
  BY <1>4, <1>5 DEF IGate, TypeOK
<1>7. cont[p] \in {"return", "fail"}
  BY <1>3 DEF IGate, Life
<1>8. Life'
  BY <1>3, <1>4, <1>5, <1>6, <1>7 DEF IGate, Life, site
<1>9. /\ rip' \in [Mounts -> Procs \cup {None}]
      /\ \A n \in Mounts : rip'[n] = IF n = m THEN None ELSE rip[n]
  BY <1>4 DEF IGate, TypeOK
<1>10. /\ ~Reads(p)' /\ rip[m] = p /\ Reads(p)
       /\ \A r \in Procs \ {p} : Reads(r)' <=> Reads(r)
  BY <1>1, <1>3, <1>4, <1>7 DEF Reads, IGate, OneReader
<1>11. OneReader'
  BY <1>1, <1>4, <1>9, <1>10, RpcsAreNumbers DEF IGate, OneReader, site
<1> QED
  BY <1>3, <1>4, <1>6, <1>8, <1>9, <1>11 DEF IGate, TypeOK, notes, site, rpcs, chans

(* A flush is made by no reader.                                           *)
LEMMA FlushTagGate ==
  ASSUME IGate, NEW p \in Procs, FlushTag(p)
  PROVE  IGate'
<1>1. PICK m \in Mounts : m = on[p] /\ mine[p] \in Rpcs
  BY DEF IGate, Life, FlushTag, Goto
<1>2. /\ Goto(p, "flush", "flushwrite") /\ pc[p] = "flush" /\ pc'[p] = "flushwrite"
      /\ UNCHANGED <<local, done, reply, free, rpctag, queue, rip, chans>>
  BY GotoFacts DEF FlushTag, Places, IGate
<1>3. cont[p] \in {"send", "gate", "read"}
  BY <1>2 DEF IGate, Life
<1>4. Life' /\ OneReader' /\ pc' \in [Procs -> Places]
  <2>1. "flush" \in Places /\ "flushwrite" \in Places
    BY DEF Places
  <2>2. Reads(p)' <=> Reads(p)
    BY <1>2 DEF Reads, local
  <2> QED
    BY <1>2, <1>3, <2>1, <2>2, StaysGated DEF local
<1>5. /\ nextflush[m] \in Tagfls..(Tagend - 1) /\ nextflush[m] \in FlushTags
      /\ TagAfter(nextflush[m]) \in FlushTags \ {0}
  BY SMTT(60), <1>1, RpcsAreNumbers, RpcAssumption DEF IGate, TypeOK, FlushTags, TagAfter
<1>6. /\ flushtag' \in [Rpcs -> FlushTags] /\ flushed' \in [Rpcs -> BOOLEAN]
      /\ nextflush' \in [Mounts -> FlushTags \ {0}]
  BY <1>1, <1>5 DEF FlushTag, IGate, TypeOK
<1> QED
  BY <1>2, <1>4, <1>6 DEF IGate, TypeOK, local, notes, site, chans

(* Nor is it sent by one.                                                  *)
LEMMA FlushWriteGate ==
  ASSUME IGate, NEW p \in Procs, FlushSend(p) \/ FlushInterrupted(p)
  PROVE  IGate'
<1>1. PICK to \in {"gate", "read"} : to = Resumed(p)
  BY DEF FlushSend, FlushInterrupted, IGate, Life, Resumed, Goto
<1>2. /\ Goto(p, "flushwrite", to) /\ pc[p] = "flushwrite" /\ pc'[p] = to
      /\ UNCHANGED <<cont, noted, site, other, rpcs, mnts, hung, wire>>
  BY <1>1, GotoFacts DEF FlushSend, FlushInterrupted, Places, IGate, Sent, local, notes, chans
<1>3. mine[p] \in Rpcs /\ on[p] \in Mounts
  BY <1>2 DEF IGate, Life
<1>4. server' \in [Mounts -> SUBSET Requests]
  <2>1. Tflush(p) \in Requests
    BY <1>3 DEF Tflush, Requests, CallIds, IGate, TypeOK
  <2>2. server \in [Mounts -> SUBSET Requests]
    BY DEF IGate, TypeOK
  <2>3. CASE FlushInterrupted(p)
    BY <2>2, <2>3 DEF FlushInterrupted, chans
  <2>4. CASE FlushSend(p)
    BY <1>3, <2>1, <2>2, <2>4 DEF FlushSend, Sent
  <2> QED
    BY <2>3, <2>4
<1>5. notepending' \in [Procs -> BOOLEAN]
  BY DEF FlushSend, FlushInterrupted, Interrupted, IGate, TypeOK, local, notes
<1>6. Life' /\ OneReader' /\ pc' \in [Procs -> Places]
  <2>1. "flushwrite" \in Places /\ to \in Places
    BY DEF Places
  <2>2. Reads(p)' <=> Reads(p)
    BY <1>1, <1>2 DEF Reads, Resumed, IGate, Life
  <2> QED
    BY <1>2, <2>1, <2>2, StaysGated DEF mnts
<1> QED
  BY <1>2, <1>4, <1>5, <1>6 DEF IGate, TypeOK, site, rpcs, mnts

(* mntqrm takes a request off and touches no reader.                       *)
LEMMA QrmGate ==
  ASSUME IGate, NEW p \in Procs, Qrm(p)
  PROVE  IGate'
<1>1. PICK m \in Mounts, r \in Rpcs : m = on[p] /\ r = mine[p]
  BY DEF IGate, Life, Qrm, Fail, Goto
<1>2. PICK to \in {"passgate", "fail"} : to = IF cont[p] = "read" THEN "passgate" ELSE "fail"
  OBVIOUS
<1>3. /\ Goto(p, "qrm", to) /\ pc[p] = "qrm" /\ pc'[p] = to
      /\ UNCHANGED <<notes, site, other, flushtag, reply, free, rpctag, rip, nextflush, chans>>
  BY <1>2, GotoFacts DEF Qrm, Fail, Places, IGate
<1>4. /\ cont' \in [Procs -> {"send", "gate", "read", "return", "fail"}] /\ cont'[p] = "fail"
      /\ \A q \in Procs \ {p} : cont'[q] = cont[q]
  BY DEF Qrm, Fail, IGate, TypeOK
<1>5. done' \in [Rpcs -> BOOLEAN] /\ flushed' \in [Rpcs -> BOOLEAN]
  BY <1>1 DEF Qrm, Fail, IGate, TypeOK
<1>6. queue' \in [Mounts -> Seq(Rpcs)]
  <2>1. queue[m] \in Seq(Rpcs) /\ queue \in [Mounts -> Seq(Rpcs)]
    BY DEF IGate, TypeOK
  <2>2. RemoveFirst(queue[m], r) \in Seq(Rpcs)
    BY <2>1, RemoveFirstSeq
  <2> QED
    BY <1>1, <2>1, <2>2 DEF Qrm, Fail
<1>7. Life' /\ OneReader' /\ pc' \in [Procs -> Places]
  <2>1. "qrm" \in Places /\ to \in Places
    BY DEF Places
  <2>2. Reads(p)' <=> Reads(p)
    BY <1>2, <1>3 DEF Reads
  <2> QED
    BY <1>2, <1>3, <1>4, <2>1, <2>2, StaysGated
<1> QED
  BY <1>3, <1>4, <1>5, <1>6, <1>7 DEF IGate, TypeOK, notes, site, chans

(* Over renames the call of a message and nothing else.                    *)
LEMMA OverFacts ==
  /\ \A p \in Procs, x \in Replies :
        /\ Over(p, x) \in Replies
        /\ Over(p, x).kind = x.kind /\ Over(p, x).tag = x.tag
        /\ Over(p, x).call = IF x.call = p THEN None ELSE x.call
  /\ \A p \in Procs, x \in Requests :
        /\ Over(p, x) \in Requests
        /\ Over(p, x).kind = x.kind /\ Over(p, x).tag = x.tag /\ Over(p, x).oldtag = x.oldtag
        /\ Over(p, x).call = IF x.call = p THEN None ELSE x.call
<1>1. ASSUME NEW p \in Procs, NEW x \in Replies
      PROVE  /\ Over(p, x) \in Replies
             /\ Over(p, x).kind = x.kind /\ Over(p, x).tag = x.tag
             /\ Over(p, x).call = IF x.call = p THEN None ELSE x.call
  BY <1>1 DEF Over, Replies, CallIds
<1>2. ASSUME NEW p \in Procs, NEW x \in Requests
      PROVE  /\ Over(p, x) \in Requests
             /\ Over(p, x).kind = x.kind /\ Over(p, x).tag = x.tag /\ Over(p, x).oldtag = x.oldtag
             /\ Over(p, x).call = IF x.call = p THEN None ELSE x.call
  BY <1>2 DEF Over, Requests, CallIds
<1> QED
  BY <1>1, <1>2

(* What the end of p's call does to messages: they are nobody's.           *)
LEMMA LeaveWire ==
  ASSUME TypeOK, NEW p \in Procs, Leave(p)
  PROVE  /\ wire' \in [Mounts -> Seq(Replies)] /\ server' \in [Mounts -> SUBSET Requests]
         /\ \A m \in Mounts : /\ server'[m] = {Over(p, t) : t \in server[m]}
                              /\ DOMAIN wire'[m] = DOMAIN wire[m]
                              /\ \A i \in DOMAIN wire[m] : wire[m][i] \in Replies
                              /\ \A i \in DOMAIN wire[m] : wire'[m][i] = Over(p, wire[m][i])
<1>1. ASSUME NEW m \in Mounts
      PROVE  /\ DOMAIN wire'[m] = DOMAIN wire[m]
             /\ \A i \in DOMAIN wire[m] : wire[m][i] \in Replies
             /\ \A i \in DOMAIN wire[m] : wire'[m][i] = Over(p, wire[m][i])
             /\ wire'[m] \in Seq(Replies)
  <2>1. PICK w, v : w = wire[m] /\ v = wire'[m]
    OBVIOUS
  <2>2. w \in Seq(Replies)
    BY <2>1 DEF TypeOK
  <2>3. v = [i \in DOMAIN w |-> Over(p, w[i])]
    BY <2>1 DEF Leave
  <2>4. DOMAIN w = 1..Len(w) /\ Len(w) \in Nat /\ \A i \in 1..Len(w) : w[i] \in Replies
    BY <2>2, LenProperties, ElementOfSeq
  <2>5. \A i \in 1..Len(w) : Over(p, w[i]) \in Replies
    BY <2>4, OverFacts
  <2>6. v \in Seq(Replies)
    BY <2>3, <2>4, <2>5, SeqDef
  <2> QED
    BY <2>1, <2>3, <2>4, <2>6
<1>2. wire' \in [Mounts -> Seq(Replies)]
  BY <1>1 DEF Leave
<1>3. ASSUME NEW m \in Mounts
      PROVE  server'[m] = {Over(p, t) : t \in server[m]} /\ server'[m] \subseteq Requests
  <2>1. server'[m] = {Over(p, t) : t \in server[m]} /\ server[m] \subseteq Requests
    BY DEF Leave, TypeOK
  <2>2. \A t \in server[m] : Over(p, t) \in Requests
    BY <2>1, OverFacts
  <2> QED
    BY <2>1, <2>2
<1>4. server' \in [Mounts -> SUBSET Requests]
  BY <1>3 DEF Leave
<1> QED
  BY <1>1, <1>2, <1>3, <1>4

(* A call that returns was not the reader.                                 *)
LEMMA LeaveGate ==
  ASSUME IGate, NEW p \in Procs, Leave(p)
  PROVE  IGate'
<1>1. /\ pc[p] \in {"return", "fail"} /\ pc'[p] = "idle"
      /\ \A q \in Procs \ {p} : pc'[q] = pc[q]
      /\ pc' \in [Procs -> Places]
  BY DEF Leave, IGate, TypeOK, Places
<1>2. UNCHANGED <<noted, other, done, flushed, flushtag, rpctag, mnts, hung>>
  BY DEF Leave
<1>3. mine[p] \in Rpcs /\ on[p] \in Mounts
  BY <1>1 DEF IGate, Life
<1>4. /\ mine' \in [Procs -> Rpcs \cup {None}] /\ on' \in [Procs -> Mounts \cup {None}]
      /\ mine'[p] = None /\ on'[p] = None
      /\ \A q \in Procs \ {p} : mine'[q] = mine[q] /\ on'[q] = on[q]
      /\ notepending' \in [Procs -> BOOLEAN]
      /\ cont' \in [Procs -> {"send", "gate", "read", "return", "fail"}]
      /\ \A q \in Procs \ {p} : cont'[q] = cont[q]
  BY DEF Leave, IGate, TypeOK
<1>5. Life'
  BY <1>1, <1>2, <1>4 DEF IGate, Life
<1>6. OneReader'
  <2>1. ~Reads(p) /\ ~Reads(p)'
    BY <1>1 DEF Reads
  <2>2. \A q \in Procs \ {p} : Reads(q)' <=> Reads(q)
    BY <1>1, <1>4 DEF Reads
  <2> QED
    BY <1>2, <1>4, <2>1, <2>2 DEF IGate, OneReader, mnts
<1>7. free' \in Seq(Rpcs)
  <2>1. PICK r \in Rpcs : r = mine[p]
    BY <1>3
  <2>2. <<r>> \in Seq(Rpcs) /\ free \in Seq(Rpcs) /\ free' = <<r>> \o free
    BY <2>1 DEF Leave, IGate, TypeOK
  <2> QED
    BY <2>2, ConcatProperties
<1>8. reply' \in [Rpcs -> Replies]
  <2>1. Poison \in Replies
    BY DEF Poison, Replies, FlushTags, CallIds
  <2>2. \A r \in Rpcs : Over(p, reply[r]) \in Replies
    BY OverFacts DEF IGate, TypeOK
  <2> QED
    BY <2>1, <2>2 DEF Leave
<1>9. wire' \in [Mounts -> Seq(Replies)] /\ server' \in [Mounts -> SUBSET Requests]
  BY LeaveWire DEF IGate
<1> QED
  BY <1>1, <1>2, <1>4, <1>5, <1>6, <1>7, <1>8, <1>9 DEF IGate, TypeOK, mnts

(* A call begins with no gate.                                             *)
LEMMA CallGate ==
  ASSUME IGate, NEW p \in Procs, NEW m \in Mounts, NEW r \in Rpcs, Call(p, m, r)
  PROVE  IGate'
<1>1. /\ pc[p] = "idle" /\ pc'[p] = "send" /\ \A q \in Procs \ {p} : pc'[q] = pc[q]
      /\ pc' \in [Procs -> Places]
  BY GotoFacts DEF Call, Enqueue, Places, IGate
<1>2. UNCHANGED <<cont, other, notes, flushtag, rip, nextflush, chans>>
  BY DEF Call, Enqueue
<1>3. /\ mine' \in [Procs -> Rpcs \cup {None}] /\ on' \in [Procs -> Mounts \cup {None}]
      /\ mine'[p] = r /\ on'[p] = m
      /\ \A q \in Procs \ {p} : mine'[q] = mine[q] /\ on'[q] = on[q]
      /\ done' \in [Rpcs -> BOOLEAN] /\ flushed' \in [Rpcs -> BOOLEAN]
  BY DEF Call, Enqueue, IGate, TypeOK
<1>4. Life'
  BY <1>1, <1>2, <1>3 DEF IGate, Life
<1>5. OneReader'
  <2>1. ~Reads(p) /\ ~Reads(p)'
    BY <1>1 DEF Reads
  <2>2. \A q \in Procs \ {p} : Reads(q)' <=> Reads(q)
    BY <1>1, <1>2 DEF Reads
  <2> QED
    BY <1>2, <1>3, <2>1, <2>2 DEF IGate, OneReader
<1>6. reply' \in [Rpcs -> Replies]
  <2>1. Poison \in Replies
    BY DEF Poison, Replies, FlushTags, CallIds
  <2> QED
    BY <2>1 DEF Call, Enqueue, IGate, TypeOK
<1>7. free' \in Seq(Rpcs) /\ rpctag' \in 1..(Cardinality(Procs) + 1)
  <2>1. free \in Seq(Rpcs) /\ rpctag \in 1..(Cardinality(Procs) + 1)
    BY DEF IGate, TypeOK
  <2>2. free # <<>> => Tail(free) \in Seq(Rpcs)
    BY <2>1, HeadTailProperties
  <2>3. CASE free # <<>>
    BY <2>1, <2>2, <2>3 DEF Call, Enqueue
  <2>4. CASE free = <<>>
    <3>1. free' = free /\ r = rpctag /\ rpctag' = rpctag + 1
      BY <2>4 DEF Call, Enqueue
    <3>2. PICK n \in Nat : n = Cardinality(Procs) /\ r \in 1..n
      BY RpcsAreNumbers DEF Rpcs
    <3> QED
      BY <2>1, <3>1, <3>2
  <2> QED
    BY <2>3, <2>4
<1>8. queue' \in [Mounts -> Seq(Rpcs)]
  <2>1. queue[m] \in Seq(Rpcs) /\ queue \in [Mounts -> Seq(Rpcs)] /\ <<r>> \in Seq(Rpcs)
    BY DEF IGate, TypeOK
  <2>2. <<r>> \o queue[m] \in Seq(Rpcs)
    BY <2>1, ConcatProperties
  <2>3. queue' = [queue EXCEPT ![m] = <<r>> \o queue[m]]
    BY DEF Call, Enqueue
  <2> QED
    BY <2>1, <2>2, <2>3
<1> QED
  BY <1>1, <1>2, <1>3, <1>4, <1>5, <1>6, <1>7, <1>8 DEF IGate, TypeOK, notes, chans

(* The server, and a hangup, have no part in the gate.                     *)
LEMMA ServeGate ==
  ASSUME IGate, NEW m \in Mounts, Serve(m) \/ Hangup(m)
  PROVE  IGate'
<1>1. UNCHANGED <<pc, local, rpcs, mnts>>
  BY DEF Serve, Hangup, Answer, AnswerFlush
<1>2. Life' /\ OneReader'
  BY <1>1 DEF IGate, Life, OneReader, Reads, local, site, mnts
<1>3. server' \in [Mounts -> SUBSET Requests] /\ hung' \in [Mounts -> BOOLEAN]
  <2>1. server \in [Mounts -> SUBSET Requests] /\ hung \in [Mounts -> BOOLEAN]
    BY DEF IGate, TypeOK
  <2>2. CASE Hangup(m)
    BY <2>1, <2>2 DEF Hangup
  <2>3. CASE Serve(m)
    <3>1. hung' = hung /\ \E T \in SUBSET server[m] : server' = [server EXCEPT ![m] = T]
      BY <2>3 DEF Serve, Answer, AnswerFlush
    <3> QED
      BY <2>1, <3>1
  <2> QED
    BY <2>2, <2>3
<1>4. wire' \in [Mounts -> Seq(Replies)]
  <2>1. CASE wire' = wire
    BY <2>1 DEF IGate, TypeOK
  <2>2. CASE Serve(m)
    <3>1. PICK t \in server[m], k \in {"R", "Rflush"} :
             wire' = [wire EXCEPT ![m] = Append(wire[m], [kind |-> k, tag |-> t.tag, call |-> t.call])]
      BY <2>2 DEF Serve, Answer, AnswerFlush
    <3>2. t \in Requests
      BY <3>1 DEF IGate, TypeOK
    <3>3. PICK x \in Replies : x = [kind |-> k, tag |-> t.tag, call |-> t.call]
      BY <3>2 DEF Requests, Replies
    <3>4. wire[m] \in Seq(Replies) /\ wire \in [Mounts -> Seq(Replies)]
      BY DEF IGate, TypeOK
    <3>5. Append(wire[m], x) \in Seq(Replies)
      BY <3>4, AppendProperties
    <3> QED
      BY <3>1, <3>3, <3>4, <3>5
  <2> QED
    BY <2>1, <2>2 DEF Hangup
<1> QED
  BY <1>1, <1>2, <1>3, <1>4 DEF IGate, TypeOK, local, notes, site, rpcs, mnts

(* A note only marks the process.                                          *)
LEMMA PostNoteGate ==
  ASSUME IGate, NEW p \in Procs, PostNote(p)
  PROVE  IGate'
<1>1. UNCHANGED <<pc, cont, site, other, rpcs, mnts, chans>>
  BY DEF PostNote
<1>2. noted' \in 0..Notes /\ notepending' \in [Procs -> BOOLEAN]
  BY RpcAssumption DEF PostNote, IGate, TypeOK
<1> QED
  BY <1>1, <1>2 DEF IGate, TypeOK, Life, OneReader, Reads, site, rpcs, mnts, chans

(* At first nobody calls.                                                  *)
LEMMA InitGate == Init => IGate
<1> SUFFICES ASSUME Init PROVE IGate
  OBVIOUS
<1> USE RpcsAreNumbers DEF Init
<1>1. TypeOK
  <2>1. Poison \in Replies
    BY DEF Poison, Replies, FlushTags, CallIds
  <2>2. /\ pc \in [Procs -> Places] /\ noted \in 0..Notes /\ rpctag \in 1..(Cardinality(Procs) + 1)
        /\ nextflush \in [Mounts -> FlushTags \ {0}] /\ flushtag \in [Rpcs -> FlushTags]
    BY RpcAssumption DEF Places, FlushTags
  <2>3. <<>> \in Seq(Rpcs) /\ <<>> \in Seq(Replies)
    BY EmptySeq
  <2> QED
    BY <2>1, <2>2, <2>3 DEF TypeOK
<1>2. Life /\ OneReader
  BY DEF Life, OneReader, Reads
<1> QED
  BY <1>1, <1>2 DEF IGate

(* Every step keeps it,                                                    *)
LEMMA StepGate == IGate /\ [Next]_vars => IGate'
<1> SUFFICES ASSUME IGate, [Next]_vars PROVE IGate'
  OBVIOUS
<1>1. ASSUME NEW p \in Procs, Proceed(p) PROVE IGate'
  BY <1>1, SendGate, FlushGate, GateGate, PlaceGate, ReadGate, ReadDoneGate, MuxGate, CopyGate,
     WakeupGate, PassGateGate, FlushTagGate, FlushWriteGate, QrmGate, LeaveGate DEF Proceed
<1>2. ASSUME NEW p \in Procs, PostNote(p) \/ \E m \in Mounts, r \in Rpcs : Call(p, m, r)
      PROVE IGate'
  BY <1>2, PostNoteGate, CallGate
<1>3. ASSUME NEW m \in Mounts, Serve(m) \/ Hangup(m) PROVE IGate'
  BY <1>3, ServeGate
<1>4. CASE UNCHANGED vars
  BY <1>4 DEF IGate, TypeOK, Life, OneReader, Reads, vars, local, notes, site, rpcs, mnts, chans
<1> QED
  BY <1>1, <1>2, <1>3, <1>4 DEF Next

(* so it holds always.                                                     *)
LEMMA GateAlways == Spec => []IGate
BY InitGate, StepGate, PTL DEF Spec

(* The types of the mount driver, hangups and all.                         *)
THEOREM TypeCorrect == Spec => []TypeOK
<1>1. IGate => TypeOK
  BY DEF IGate
<1> QED
  BY <1>1, GateAlways, PTL

(* Readers are gated onto the mount point one at a time (mountio), and rip *)
(* says who, whatever fails and whoever is interrupted: the reader that    *)
(* gives up has passed the gate on.                                        *)
THEOREM ReadersGated == Spec => []OneReader
<1>1. IGate => OneReader
  BY DEF IGate
<1> QED
  BY <1>1, GateAlways, PTL
-----------------------------------------------------------------------------
(* From here on no channel hangs up: a call that fails of a hangup frees a *)
(* Mntrpc that the reader may be completing, and all that follows is lost. *)
NeverHung == Mortal = {}

NotHung ==
    /\ \A m \in Mounts : ~hung[m]
    /\ \A p \in Procs : /\ pc[p] \notin {"qrm", "fail"}
                        /\ pc[p] \in {"passgate", "wakenext"} => cont[p] = "return"
                        /\ pc[p] \in {"passgate", "wakenext", "return"} => done[mine[p]]

(* A Mntrpc in use is one process's.                                       *)
Alone == \A p, q \in Procs : mine[p] \in Rpcs /\ mine[p] = mine[q] => p = q

(* The free ones are nobody's, and those still to be made are neither free *)
(* nor in use.                                                             *)
FreeExact ==
    /\ Distinct(free)
    /\ \A i \in DOMAIN free : free[i] < rpctag /\ \A p \in Procs : mine[p] # free[i]
    /\ \A p \in Procs : mine[p] \in Rpcs => mine[p] < rpctag

(* Whose answer has not come is in the queue of its mount point.           *)
Owned(r, m) == \E p \in Procs : mine[p] = r /\ on[p] = m
QueueExact ==
    \A m \in Mounts :
        /\ Distinct(queue[m])
        /\ \A r \in Rpcs : Queued(r, m) <=> ~done[r] /\ ~InCopy(r) /\ Owned(r, m)

(* The reader completes somebody who still waits, on the same mount point. *)
Copying == \A w \in Procs : pc[w] \in {"copy", "finish"} =>
               \E p \in Procs : p # w /\ mine[p] = other[w] /\ on[p] = on[w] /\ ~done[mine[p]]

IOwned == Alone /\ FreeExact /\ QueueExact /\ Copying
IUse   == NotHung /\ IOwned

(* The Mntrpc a call is given is nobody's.                                 *)
LEMMA NewRpc ==
  ASSUME IGate, FreeExact, NEW p \in Procs, NEW m \in Mounts, NEW r \in Rpcs, Call(p, m, r)
  PROVE  \A q \in Procs : mine[q] # r
<1>1. CASE free # <<>>
  <2>1. r = Head(free) /\ free \in Seq(Rpcs)
    BY <1>1 DEF Call, Enqueue, TypeOK, IGate
  <2>2. \E i \in DOMAIN free : free[i] = r
    BY <1>1, <2>1, EmptySeq, LenProperties, HeadTailProperties
  <2> QED
    BY <2>2 DEF FreeExact
<1>2. CASE free = <<>>
  BY <1>2, RpcsAreNumbers DEF Call, Enqueue, FreeExact, TypeOK, IGate
<1> QED
  BY <1>1, <1>2

(* Where no channel hangs up nothing fails.                                *)
LEMMA StepNotHung ==
  ASSUME NeverHung, IGate, IUse, [Next]_vars
  PROVE  NotHung'
<1> USE DEF NotHung, IGate, IUse, IOwned
<1>1. \A m \in Mounts : ~hung'[m]
  <2>1. hung' = hung
    <3>1. ASSUME NEW p \in Procs, Proceed(p) PROVE hung' = hung
      BY <3>1 DEF Proceed, Send, SendFails, Gate, Sleep, Disturb, Wake, WakeNoted, Read, ReadFails,
           ReadDone, Mux, Found, Copy, Finish, WakeOther, PassGate, Opened, WakeNext, FlushTag,
           FlushSend, FlushInterrupted, FlushFails, Qrm, Fail, Leave, Sent, chans
    <3> QED
      BY <3>1 DEF Next, PostNote, Call, Enqueue, Serve, Answer, AnswerFlush, Hangup, NeverHung,
                  vars, chans
  <2> QED
    BY <2>1
<1>2. ASSUME NEW p \in Procs, NEW from, NEW to \in Places, Goto(p, from, to),
             to \notin {"qrm", "fail", "passgate", "wakenext", "return"},
             \A q \in Procs \ {p} : cont'[q] = cont[q],
             UNCHANGED mine, \A r \in Rpcs : done[r] => done'[r]
      PROVE  NotHung'
  BY <1>1, <1>2, GotoFacts DEF Life
<1>3. ASSUME NEW p \in Procs, Proceed(p) PROVE NotHung'
  <2>1. CASE Send(p) \/ SendFails(p) \/ Gate(p) \/ WakeNoted(p) \/ Read(p)
             \/ ReadFails(p) \/ Disturb(p) \/ Sleep(p)
    <3>1. PICK from, to \in Places : /\ Goto(p, from, to)
                             /\ to \notin {"qrm", "fail", "passgate", "wakenext", "return"}
      BY <2>1 DEF Send, SendFails, Gate, WakeNoted, Read, ReadFails, Disturb, Sleep, Flush, Places
    <3>2. UNCHANGED <<mine, done>> /\ \A q \in Procs \ {p} : cont'[q] = cont[q]
      BY <2>1 DEF Send, SendFails, Gate, WakeNoted, Read, ReadFails, Disturb, Sleep, Flush,
                  local, site, rpcs, TypeOK
    <3> QED
      BY <1>2, <3>1, <3>2
  <2>2. CASE Copy(p) \/ Finish(p) \/ FlushTag(p)
    <3>1. PICK from, to \in Places : /\ Goto(p, from, to)
                             /\ to \notin {"qrm", "fail", "passgate", "wakenext", "return"}
      BY <2>2 DEF Copy, Finish, FlushTag, Places
    <3>2. UNCHANGED <<mine, cont>> /\ \A r \in Rpcs : done[r] => done'[r]
      BY <2>2 DEF Copy, Finish, FlushTag, local, site, TypeOK
    <3> QED
      BY <1>2, <3>1, <3>2
  <2>3. CASE Mux(p)
    <3>1. PICK from, to \in Places : /\ Goto(p, from, to)
                             /\ to \notin {"qrm", "fail", "passgate", "wakenext", "return"}
      BY <2>3 DEF Mux, Found, Places
    <3>2. UNCHANGED <<mine, cont>> /\ \A r \in Rpcs : done[r] => done'[r]
      BY <2>3 DEF Mux, Found, site, TypeOK
    <3> QED
      BY <1>2, <3>1, <3>2
  <2>4. CASE FlushSend(p) \/ FlushInterrupted(p)
    <3>1. Goto(p, "flushwrite", Resumed(p))
      BY <2>4 DEF FlushSend, FlushInterrupted
    <3>2. Resumed(p) \in {"gate", "read"} /\ Resumed(p) \in Places
      BY <3>1 DEF Life, Resumed, Goto, Places
    <3>3. UNCHANGED <<mine, cont, done>>
      BY <2>4 DEF FlushSend, FlushInterrupted, local, site, rpcs
    <3> QED
      BY <1>2, <3>1, <3>2, <3>3
  <2>5. CASE Wake(p)
    <3>1. /\ pc[p] = "woken" /\ pc'[p] = (IF done[mine[p]] THEN "return" ELSE "gate")
          /\ \A q \in Procs \ {p} : pc'[q] = pc[q]
      BY <2>5, GotoFacts DEF Wake, Places
    <3> QED
      BY <1>1, <2>5, <3>1 DEF Wake, local, site, rpcs
  <2>6. CASE ReadDone(p)
    <3>1. /\ pc[p] = "read" /\ pc'[p] = "passgate" /\ \A q \in Procs \ {p} : pc'[q] = pc[q]
      BY <2>6, GotoFacts DEF ReadDone, Places
    <3>2. cont'[p] = "return" /\ \A q \in Procs \ {p} : cont'[q] = cont[q]
      BY <2>6 DEF ReadDone, TypeOK
    <3> QED
      BY <1>1, <2>6, <3>1, <3>2 DEF ReadDone, site, rpcs
  <2>7. CASE PassGate(p)
    <3>1. pc[p] = "passgate" /\ cont[p] = "return"
      BY <2>7 DEF PassGate
    <3>2. PICK to \in {"return", "wakenext"} : Goto(p, "passgate", to)
      BY <2>7, <3>1 DEF PassGate, Opened
    <3>3. pc'[p] = to /\ \A q \in Procs \ {p} : pc'[q] = pc[q]
      BY <3>2, GotoFacts DEF Places
    <3> QED
      BY <1>1, <2>7, <3>1, <3>3 DEF PassGate, Opened, site, rpcs
  <2>8. CASE WakeOther(p) \/ WakeNext(p)
    <3>1. /\ \/ pc[p] = "wake" /\ pc'[p] = "read"
             \/ pc[p] = "wakenext" /\ pc'[p] = "return"
          /\ \A q \in Procs \ {p} : pc'[q] = pc[q] \/ pc'[q] = "woken"
      BY <2>8 DEF WakeOther, WakeNext, Wakeup
    <3> QED
      BY <1>1, <2>8, <3>1 DEF WakeOther, WakeNext, site, rpcs
  <2>9. CASE Leave(p)
    <3>1. /\ pc'[p] = "idle" /\ \A q \in Procs \ {p} : pc'[q] = pc[q]
          /\ \A q \in Procs \ {p} : cont'[q] = cont[q] /\ mine'[q] = mine[q]
          /\ done' = done
      BY <2>9 DEF Leave, TypeOK
    <3> QED
      BY <1>1, <3>1
  <2>10. ~FlushFails(p) /\ ~Qrm(p)
    BY DEF FlushFails, Qrm, Fail, Goto, Life
  <2> QED
    BY <1>3, <2>1, <2>2, <2>3, <2>4, <2>5, <2>6, <2>7, <2>8, <2>9, <2>10 DEF Proceed
<1>4. ASSUME NEW p \in Procs, NEW m \in Mounts, NEW r \in Rpcs, Call(p, m, r) PROVE NotHung'
  <2>1. /\ pc'[p] = "send" /\ \A q \in Procs \ {p} : pc'[q] = pc[q]
        /\ cont' = cont /\ \A q \in Procs \ {p} : mine'[q] = mine[q]
        /\ \A d \in Rpcs \ {r} : done'[d] = done[d]
    BY <1>4, GotoFacts DEF Call, Enqueue, TypeOK, Places
  <2>2. \A q \in Procs : mine[q] # r
    BY <1>4, NewRpc
  <2> QED
    BY <1>1, <2>1, <2>2 DEF Life
<1>5. CASE UNCHANGED <<pc, cont, site, done>>
  BY <1>1, <1>5 DEF site
<1> QED
  BY <1>3, <1>4, <1>5 DEF Next, PostNote, Serve, Answer, AnswerFlush, Hangup, vars, local, rpcs

(* The queue with one taken out or put in front, and so the free list.     *)
LEMMA QueueLoses ==
  ASSUME NEW m, NEW q, queue[m] \in Seq(Rpcs), queue'[m] = RemoveFirst(queue[m], q),
         Distinct(queue[m])
  PROVE  /\ Distinct(queue[m])'
         /\ \A x : Queued(x, m)' <=> Queued(x, m) /\ x # q
<1>1. PICK s, t : s = queue[m] /\ t = queue'[m]
  OBVIOUS
<1>2. s \in Seq(Rpcs) /\ t = RemoveFirst(s, q) /\ Distinct(s)
  BY <1>1
<1>3. Distinct(t) /\ \A x : Within(x, t) <=> Within(x, s) /\ x # q
  BY <1>2, RemoveFirstFacts
<1> QED
  BY <1>1, <1>3 DEF Queued, Distinct, Within

(* A request is put at the head of the queue, once.                        *)
LEMMA QueueGains ==
  ASSUME NEW m, NEW r \in Rpcs, queue[m] \in Seq(Rpcs), queue'[m] = <<r>> \o queue[m],
         ~Queued(r, m), Distinct(queue[m])
  PROVE  /\ Distinct(queue[m])'
         /\ \A x : Queued(x, m)' <=> (x = r \/ Queued(x, m))
<1>1. PICK s, t : s = queue[m] /\ t = queue'[m]
  OBVIOUS
<1>2. s \in Seq(Rpcs) /\ t = <<r>> \o s /\ ~Within(r, s) /\ Distinct(s)
  BY <1>1 DEF Queued
<1>3. Distinct(t) /\ \A x : Within(x, t) <=> (x = r \/ Within(x, s))
  BY <1>2, ConsFacts
<1> QED
  BY ZenonT(60), <1>1, <1>3 DEF Queued, Distinct, Within

IsFree(r) == Within(r, free)

(* A Mntrpc is put at the head of the free list, once.                     *)
LEMMA FreeGains ==
  ASSUME NEW r \in Rpcs, free \in Seq(Rpcs), free' = <<r>> \o free, ~IsFree(r), Distinct(free)
  PROVE  /\ Distinct(free)'
         /\ \A x : IsFree(x)' <=> (x = r \/ IsFree(x))
<1>1. PICK s, t : s = free /\ t = free'
  OBVIOUS
<1>2. s \in Seq(Rpcs) /\ t = <<r>> \o s /\ ~Within(r, s) /\ Distinct(s)
  BY <1>1 DEF IsFree
<1>3. Distinct(t) /\ \A x : Within(x, t) <=> (x = r \/ Within(x, s))
  BY <1>2, ConsFacts
<1>4. \A x : (IsFree(x)' <=> Within(x, t)) /\ (IsFree(x) <=> Within(x, s))
  BY <1>1 DEF IsFree, Within
<1>5. Distinct(free)'
  BY <1>1, <1>3 DEF Distinct
<1> QED
  BY <1>3, <1>4, <1>5

(* The first of the free list is taken.                                    *)
LEMMA FreeLoses ==
  ASSUME free \in Seq(Rpcs), free # <<>>, free' = Tail(free), Distinct(free)
  PROVE  /\ Distinct(free)'
         /\ \A x : IsFree(x)' <=> IsFree(x) /\ x # Head(free)
         /\ IsFree(Head(free))
<1>1. PICK s, t : s = free /\ t = free'
  OBVIOUS
<1>2. s \in Seq(Rpcs) /\ s # <<>> /\ t = Tail(s) /\ Distinct(s)
  BY <1>1
<1>3. Distinct(t) /\ (\A x : Within(x, t) <=> Within(x, s) /\ x # Head(s)) /\ Within(Head(s), s)
  BY <1>2, TailFacts
<1> QED
  BY <1>1, <1>3 DEF IsFree, Distinct, Within

(* Steps that neither give, queue nor complete a Mntrpc.                   *)
LEMMA StaysOwned ==
  ASSUME IOwned, UNCHANGED <<site, done, queue, free, rpctag>>,
         \A q \in Procs : pc'[q] \in {"copy", "finish"} <=> pc[q] \in {"copy", "finish"},
         \A q \in Procs : pc[q] \in {"copy", "finish"} => other'[q] = other[q]
  PROVE  IOwned'
<1> USE DEF IOwned, site
<1>1. Alone' /\ FreeExact'
  BY DEF Alone, FreeExact
<1>2. /\ \A r : InCopy(r)' <=> InCopy(r)
      /\ \A r, m : (Queued(r, m)' <=> Queued(r, m)) /\ (Owned(r, m)' <=> Owned(r, m))
  BY DEF InCopy, Queued, Owned
<1>3. QueueExact'
  BY <1>2 DEF QueueExact
<1>4. Copying'
  BY DEF Copying
<1> QED
  BY <1>1, <1>3, <1>4

(* Whose reply came is taken off the queue, done or for the reader to      *)
(* complete.                                                               *)
LEMMA MuxOwned ==
  ASSUME IGate, IOwned, NEW p \in Procs, Mux(p)
  PROVE  IOwned'
<1> USE DEF IOwned, site
<1>1. PICK m \in Mounts, r \in Rpcs : m = on[p] /\ r = mine[p]
  BY DEF IGate, Life, Mux
<1>2. PICK q : q = Asker(m, reply[r].tag)
  OBVIOUS
<1>3. q # None => q \in Rpcs /\ Queued(q, m)
  BY <1>2, AskerFacts DEF IGate
<1>4. /\ pc[p] = "mux" /\ pc'[p] = (IF q \in {None, r} THEN "read" ELSE "copy")
      /\ \A w \in Procs \ {p} : pc'[w] = pc[w]
  BY <1>1, <1>2, GotoFacts DEF Mux, Found, Places, IGate
<1>5. UNCHANGED <<mine, on, free, rpctag>>
  BY DEF Mux, Found
<1>6. /\ done' = (IF q = r THEN [done EXCEPT ![q] = TRUE] ELSE done)
      /\ other' = (IF q \in {None, r} THEN other ELSE [other EXCEPT ![p] = q])
      /\ queue' = [queue EXCEPT ![m] = RemoveFirst(queue[m], q)]
  BY <1>1, <1>2 DEF Mux, Found
<1>7. /\ \A d \in Rpcs : done'[d] <=> (done[d] \/ (d = q /\ q = r))
      /\ \A w \in Procs \ {p} : other'[w] = other[w]
      /\ q \notin {None, r} => other'[p] = q
      /\ \A n \in Mounts \ {m} : queue'[n] = queue[n]
      /\ queue'[m] = RemoveFirst(queue[m], q)
  BY <1>1, <1>6 DEF IGate, TypeOK
<1>8. /\ Distinct(queue[m])'
      /\ \A x : Queued(x, m)' <=> Queued(x, m) /\ x # q
  <2>1. /\ queue[m] \in Seq(Rpcs) /\ queue'[m] = RemoveFirst(queue[m], q)
        /\ Distinct(queue[m])
    BY <1>7 DEF IGate, TypeOK, QueueExact
  <2> QED
    BY <2>1, QueueLoses
<1>9. \A n \in Mounts \ {m} : \A x : Queued(x, n)' <=> Queued(x, n)
  BY <1>7 DEF Queued
<1>10. \A x, n : Owned(x, n)' <=> Owned(x, n)
  BY <1>5 DEF Owned
<1>11. \A x \in Rpcs : InCopy(x)' <=> (InCopy(x) \/ (x = q /\ q # r))
  BY <1>4, <1>7, RpcsAreNumbers DEF InCopy
<1>12. Alone' /\ FreeExact'
  BY <1>5 DEF Alone, FreeExact
<1>13. q # None => ~done[q] /\ ~InCopy(q) /\ Owned(q, m)
  BY <1>3 DEF QueueExact
<1>14. QueueExact'
  <2>1. ASSUME NEW x \in Rpcs
        PROVE  Queued(x, m)' <=> ~done'[x] /\ ~InCopy(x)' /\ Owned(x, m)'
    BY <1>7, <1>8, <1>10, <1>11 DEF QueueExact
  <2>2. ASSUME NEW n \in Mounts \ {m}, NEW x \in Rpcs
        PROVE  Queued(x, n)' <=> ~done'[x] /\ ~InCopy(x)' /\ Owned(x, n)'
    <3>1. x = q => ~Owned(x, n)
      BY <1>13, RpcsAreNumbers DEF Owned, Alone
    <3> QED
      BY <1>7, <1>9, <1>10, <1>11, <3>1 DEF QueueExact
  <2> QED
    BY <1>7, <1>8, <2>1, <2>2 DEF QueueExact
<1>15. Copying'
  <2>1. CASE q \notin {None, r}
    <3>1. \E o \in Procs : o # p /\ mine[o] = q /\ on[o] = on[p] /\ ~done[q]
      BY <1>1, <1>13, <2>1 DEF Owned
    <3>2. ASSUME NEW w \in Procs, pc'[w] \in {"copy", "finish"}
          PROVE  \E o \in Procs : /\ o # w /\ mine'[o] = other'[w] /\ on'[o] = on'[w]
                                  /\ ~done'[mine'[o]]
      <4>1. CASE w = p
        BY ZenonT(60), <1>3, <1>5, <1>7, <2>1, <3>1, <4>1, RpcsAreNumbers
      <4>2. CASE w # p
        <5>1. pc[w] \in {"copy", "finish"} /\ other[w] \in Rpcs
          BY <1>4, <3>2, <4>2 DEF IGate, Life
        <5>2. PICK u \in Procs : u # w /\ mine[u] = other[w] /\ on[u] = on[w] /\ ~done[mine[u]]
          BY <5>1 DEF Copying
        <5> QED
          BY <1>5, <1>7, <2>1, <4>2, <5>1, <5>2
      <4> QED
        BY <4>1, <4>2
    <3> QED
      BY <3>2 DEF Copying
  <2>2. CASE q \in {None, r}
    <3>1. \A w \in Procs : pc'[w] \in {"copy", "finish"} => w # p /\ pc[w] \in {"copy", "finish"}
      BY <1>4, <2>2
    <3>2. \A w \in Procs : pc[w] \in {"copy", "finish"} => other[w] # q \/ q = None
      BY <1>13 DEF InCopy
    <3>3. ASSUME NEW w \in Procs, pc'[w] \in {"copy", "finish"}
          PROVE  \E o \in Procs : /\ o # w /\ mine'[o] = other'[w] /\ on'[o] = on'[w]
                                  /\ ~done'[mine'[o]]
      <4>1. w # p /\ pc[w] \in {"copy", "finish"} /\ other[w] \in Rpcs
        BY <3>1, <3>3 DEF IGate, Life
      <4>2. PICK o \in Procs : o # w /\ mine[o] = other[w] /\ on[o] = on[w] /\ ~done[mine[o]]
        BY <4>1 DEF Copying
      <4> QED
        BY ZenonT(60), <1>5, <1>7, <3>2, <4>1, <4>2, RpcsAreNumbers
    <3> QED
      BY <3>3 DEF Copying
  <2> QED
    BY <2>1, <2>2
<1> QED
  BY <1>12, <1>14, <1>15

(* One reader at a time: nobody else is completing the same Mntrpc.        *)
LEMMA OneCopier ==
  ASSUME IGate, IOwned, NEW v \in Procs, NEW w \in Procs,
         pc[v] \in {"copy", "finish"}, pc[w] \in {"copy", "finish"}, other[v] = other[w]
  PROVE  v = w
<1>1. other[v] \in Rpcs /\ on[v] \in Mounts
  BY DEF IGate, Life
<1>2. PICK o, u \in Procs : mine[o] = other[v] /\ on[o] = on[v] /\ mine[u] = other[w] /\ on[u] = on[w]
  BY DEF IOwned, Copying
<1>3. on[v] = on[w]
  BY <1>1, <1>2 DEF IOwned, Alone
<1>4. Reads(v) /\ Reads(w)
  BY DEF Reads
<1> QED
  BY <1>1, <1>3, <1>4 DEF IGate, OneReader

(* What is completed leaves the queue; its Mntrpc stays with the call.     *)
LEMMA FinishOwned ==
  ASSUME IGate, IOwned, NEW p \in Procs, Finish(p)
  PROVE  IOwned'
<1> USE DEF IOwned, site
<1>1. PICK q \in Rpcs : q = other[p]
  BY DEF IGate, Life, Finish, Goto
<1>2. /\ pc[p] = "finish" /\ pc'[p] = "wake" /\ \A w \in Procs \ {p} : pc'[w] = pc[w]
  BY GotoFacts DEF Finish, Places, IGate
<1>3. UNCHANGED <<mine, on, other, free, rpctag, queue>> /\ done' = [done EXCEPT ![q] = TRUE]
  BY <1>1 DEF Finish, local, mnts
<1>4. \A d \in Rpcs : done'[d] <=> (done[d] \/ d = q)
  BY <1>3 DEF IGate, TypeOK
<1>5. Alone' /\ FreeExact'
  BY <1>3 DEF Alone, FreeExact
<1>6. \A x, n : (Owned(x, n)' <=> Owned(x, n)) /\ (Queued(x, n)' <=> Queued(x, n))
  BY <1>3 DEF Owned, Queued
<1>7. InCopy(q) /\ \A x : x # q => (InCopy(x)' <=> InCopy(x))
  BY <1>1, <1>2, <1>3 DEF InCopy
<1>8. QueueExact'
  BY <1>3, <1>4, <1>6, <1>7 DEF QueueExact
<1>9. ASSUME NEW w \in Procs, pc'[w] \in {"copy", "finish"}
      PROVE  \E o \in Procs : /\ o # w /\ mine'[o] = other'[w] /\ on'[o] = on'[w]
                              /\ ~done'[mine'[o]]
  <2>1. w # p /\ pc[w] \in {"copy", "finish"} /\ other[w] \in Rpcs
    BY <1>2, <1>9 DEF IGate, Life
  <2>2. other[w] # q
    BY <1>1, <1>2, <2>1, OneCopier
  <2>3. PICK o \in Procs : o # w /\ mine[o] = other[w] /\ on[o] = on[w] /\ ~done[mine[o]]
    BY <2>1 DEF Copying
  <2> QED
    BY <1>3, <1>4, <2>1, <2>2, <2>3
<1> QED
  BY <1>5, <1>8, <1>9 DEF Copying

(* A call takes a Mntrpc off the free list, or makes one.                  *)
LEMMA CallOwned ==
  ASSUME IGate, IOwned, NEW p \in Procs, NEW m \in Mounts, NEW r \in Rpcs, Call(p, m, r)
  PROVE  IOwned'
<1> USE DEF IOwned, site
<1>1. \A q \in Procs : mine[q] # r
  BY NewRpc
<1>2. /\ pc[p] = "idle" /\ pc'[p] = "send" /\ \A q \in Procs \ {p} : pc'[q] = pc[q]
      /\ other' = other /\ mine'[p] = r /\ on'[p] = m
      /\ \A q \in Procs \ {p} : mine'[q] = mine[q] /\ on'[q] = on[q]
      /\ ~done'[r] /\ \A d \in Rpcs \ {r} : done'[d] = done[d]
  BY GotoFacts DEF Call, Enqueue, IGate, TypeOK, Places
<1>3. mine[p] = None /\ on[p] = None
  BY <1>2 DEF IGate, Life
<1>4. Alone'
  BY <1>1, <1>2 DEF Alone
<1>5. FreeExact'
  <2>1. CASE free # <<>>
    <3>1. free \in Seq(Rpcs) /\ r = Head(free) /\ free' = Tail(free) /\ rpctag' = rpctag
      BY <2>1 DEF Call, Enqueue, IGate, TypeOK
    <3>2. /\ Distinct(free)'
          /\ \A x : IsFree(x)' <=> IsFree(x) /\ x # r
          /\ IsFree(r)
      <4>1. Distinct(free)
        BY DEF FreeExact
      <4> QED
        BY <2>1, <3>1, <4>1, FreeLoses
    <3>3. ASSUME NEW i \in DOMAIN free'
          PROVE  free'[i] < rpctag /\ free'[i] # r /\ \A q \in Procs : mine[q] # free'[i]
      <4>1. PICK x : x = free'[i]
        OBVIOUS
      <4>2. IsFree(x) /\ x # r
        BY <3>2, <4>1 DEF IsFree, Within
      <4> QED
        BY <4>1, <4>2 DEF IsFree, Within, FreeExact
    <3>4. r < rpctag
      BY <3>2 DEF IsFree, Within, FreeExact
    <3> QED
      BY <1>2, <3>1, <3>2, <3>3, <3>4 DEF FreeExact
  <2>2. CASE free = <<>>
    <3>1. free' = <<>> /\ r = rpctag /\ rpctag' = rpctag + 1
      BY <2>2 DEF Call, Enqueue
    <3>2. DOMAIN free' = {}
      BY <3>1, LenProperties, EmptySeq
    <3>3. \A q \in Procs : mine[q] \in Rpcs => mine[q] < rpctag /\ mine[q] \in Nat
      BY RpcsAreNumbers DEF FreeExact
    <3>4. r \in Nat
      BY RpcsAreNumbers
    <3> QED
      BY <1>2, <3>1, <3>2, <3>3, <3>4 DEF FreeExact, Distinct
  <2> QED
    BY <2>1, <2>2
<1>6. \A w \in Procs : pc[w] \in {"copy", "finish"} => other[w] # r
  BY <1>1 DEF Copying
<1>7. \A x : InCopy(x)' <=> InCopy(x)
  BY <1>2 DEF InCopy
<1>8. ~InCopy(r) /\ \A n : ~Owned(r, n)
  BY <1>1, <1>6 DEF InCopy, Owned
<1>9. /\ \A x \in Rpcs \ {r} : \A n \in Mounts : Owned(x, n)' <=> Owned(x, n)
      /\ \A n \in Mounts : Owned(r, n)' <=> n = m
  BY <1>1, <1>2, <1>3, RpcsAreNumbers DEF Owned
<1>10. /\ Distinct(queue[m])'
       /\ \A x : Queued(x, m)' <=> (x = r \/ Queued(x, m))
  <2>1. queue[m] \in Seq(Rpcs) /\ queue'[m] = <<r>> \o queue[m]
    BY DEF Call, Enqueue, IGate, TypeOK
  <2>2. ~Queued(r, m) /\ Distinct(queue[m])
    BY <1>8 DEF QueueExact
  <2> QED
    BY <2>1, <2>2, QueueGains
<1>11. \A n \in Mounts \ {m} : queue'[n] = queue[n] /\ \A x : Queued(x, n)' <=> Queued(x, n)
  BY DEF Call, Enqueue, IGate, TypeOK, Queued
<1>12. QueueExact'
  <2>1. ASSUME NEW x \in Rpcs
        PROVE  Queued(x, m)' <=> ~done'[x] /\ ~InCopy(x)' /\ Owned(x, m)'
    BY <1>2, <1>7, <1>8, <1>9, <1>10 DEF QueueExact
  <2>2. ASSUME NEW n \in Mounts \ {m}, NEW x \in Rpcs
        PROVE  Queued(x, n)' <=> ~done'[x] /\ ~InCopy(x)' /\ Owned(x, n)'
    BY <1>2, <1>7, <1>8, <1>9, <1>11 DEF QueueExact
  <2> QED
    BY <1>10, <1>11, <2>1, <2>2 DEF QueueExact
<1>13. ASSUME NEW w \in Procs, pc'[w] \in {"copy", "finish"}
       PROVE  \E o \in Procs : /\ o # w /\ mine'[o] = other'[w] /\ on'[o] = on'[w]
                               /\ ~done'[mine'[o]]
  <2>1. w # p /\ pc[w] \in {"copy", "finish"} /\ other[w] \in Rpcs
    BY <1>2, <1>13 DEF IGate, Life
  <2>2. PICK o \in Procs : o # w /\ mine[o] = other[w] /\ on[o] = on[w] /\ ~done[mine[o]]
    BY <2>1 DEF Copying
  <2>3. o # p
    BY <1>3, <2>1, <2>2, RpcsAreNumbers
  <2> QED
    BY <1>2, <1>6, <2>1, <2>2, <2>3
<1> QED
  BY <1>4, <1>5, <1>12, <1>13 DEF Copying

(* A call that returns gives its Mntrpc back.                              *)
LEMMA LeaveOwned ==
  ASSUME IGate, IOwned, NotHung, NEW p \in Procs, Leave(p)
  PROVE  IOwned'
<1> USE DEF IOwned, site
<1>1. PICK r \in Rpcs : r = mine[p]
  BY DEF IGate, Life, Leave
<1>2. /\ pc[p] = "return" /\ done[r] /\ pc'[p] = "idle" /\ \A q \in Procs \ {p} : pc'[q] = pc[q]
      /\ mine'[p] = None /\ on'[p] = None
      /\ \A q \in Procs \ {p} : mine'[q] = mine[q] /\ on'[q] = on[q]
      /\ UNCHANGED <<other, done, rpctag, queue>>
  BY <1>1 DEF Leave, NotHung, IGate, TypeOK, mnts
<1>3. \A q \in Procs : mine'[q] # r
  BY <1>1, <1>2, RpcsAreNumbers DEF Alone
<1>4. Alone'
  BY <1>2, RpcsAreNumbers DEF Alone
<1>5. FreeExact'
  <2>1. free \in Seq(Rpcs) /\ free' = <<r>> \o free
    BY <1>1 DEF Leave, IGate, TypeOK
  <2>2. ~IsFree(r) /\ Distinct(free)
    BY <1>1 DEF FreeExact, IsFree, Within
  <2>3. /\ Distinct(free)'
        /\ \A x : IsFree(x)' <=> (x = r \/ IsFree(x))
    BY <2>1, <2>2, FreeGains
  <2>4. ASSUME NEW i \in DOMAIN free'
        PROVE  free'[i] < rpctag /\ \A q \in Procs : mine'[q] # free'[i]
    <3>1. PICK x : x = free'[i]
      OBVIOUS
    <3>2. x = r \/ IsFree(x)
      BY <2>3, <3>1 DEF IsFree, Within
    <3>3. CASE x = r
      BY <1>1, <1>3, <3>1, <3>3 DEF FreeExact
    <3>4. CASE IsFree(x)
      <4>1. x < rpctag /\ \A q \in Procs : mine[q] # x
        BY <3>4 DEF FreeExact, IsFree, Within
      <4>2. x # None
        <5>1. PICK j \in DOMAIN free : free[j] = x
          BY <3>4 DEF IsFree, Within
        <5>2. x \in Rpcs
          BY <2>1, <5>1, ElementOfSeq, LenProperties
        <5> QED
          BY <5>2, RpcsAreNumbers
      <4> QED
        BY <1>2, <3>1, <4>1, <4>2
    <3> QED
      BY <3>2, <3>3, <3>4
  <2>5. \A q \in Procs : mine'[q] \in Rpcs => mine'[q] < rpctag
    BY <1>2, RpcsAreNumbers DEF FreeExact
  <2> QED
    BY <1>2, <2>3, <2>4, <2>5 DEF FreeExact
<1>6. /\ \A x : InCopy(x)' <=> InCopy(x)
      /\ \A x, n : Queued(x, n)' <=> Queued(x, n)
      /\ \A x \in Rpcs \ {r} : \A n : Owned(x, n)' <=> Owned(x, n)
  BY <1>1, <1>2, RpcsAreNumbers DEF InCopy, Queued, Owned
<1>7. QueueExact'
  BY <1>2, <1>6 DEF QueueExact
<1>8. ASSUME NEW w \in Procs, pc'[w] \in {"copy", "finish"}
      PROVE  \E o \in Procs : /\ o # w /\ mine'[o] = other'[w] /\ on'[o] = on'[w]
                              /\ ~done'[mine'[o]]
  <2>1. w # p /\ pc[w] \in {"copy", "finish"}
    BY <1>2, <1>8
  <2>2. PICK o \in Procs : o # w /\ mine[o] = other[w] /\ on[o] = on[w] /\ ~done[mine[o]]
    BY <2>1 DEF Copying
  <2> QED
    BY <1>1, <1>2, <2>1, <2>2
<1> QED
  BY <1>4, <1>5, <1>7, <1>8 DEF Copying

(* Every step keeps each Mntrpc in one place.                              *)
LEMMA StepOwned ==
  ASSUME NeverHung, IGate, IUse, [Next]_vars
  PROVE  IOwned'
<1> USE DEF IUse
<1>1. ASSUME NEW p \in Procs, Proceed(p) PROVE IOwned'
  <2>1. CASE Mux(p) \/ Finish(p) \/ Leave(p)
    BY <2>1, MuxOwned, FinishOwned, LeaveOwned
  <2>2. CASE Send(p) \/ SendFails(p) \/ Gate(p) \/ WakeNoted(p) \/ Read(p) \/ ReadFails(p)
             \/ Disturb(p) \/ Sleep(p) \/ Wake(p) \/ ReadDone(p) \/ FlushTag(p)
    <3>1. PICK from, to \in Places :
             Goto(p, from, to) /\ from \notin {"copy", "finish"} /\ to \notin {"copy", "finish"}
      BY <2>2 DEF Send, SendFails, Gate, WakeNoted, Read, ReadFails, Disturb, Sleep, Wake,
                  ReadDone, FlushTag, Flush, Places
    <3>2. pc[p] = from /\ pc'[p] = to /\ \A q \in Procs \ {p} : pc'[q] = pc[q]
      BY <3>1, GotoFacts DEF IGate
    <3>3. UNCHANGED <<site, done, queue, free, rpctag, other>>
      BY <2>2 DEF Send, SendFails, Gate, WakeNoted, Read, ReadFails, Disturb, Sleep, Wake,
                  ReadDone, FlushTag, Flush, local, rpcs, mnts
    <3> QED
      BY <3>1, <3>2, <3>3, StaysOwned
  <2>3. CASE Copy(p)
    <3>1. pc[p] = "copy" /\ pc'[p] = "finish" /\ \A q \in Procs \ {p} : pc'[q] = pc[q]
      BY <2>3, GotoFacts DEF Copy, Places, IGate
    <3> QED
      BY <2>3, <3>1, StaysOwned DEF Copy, local, mnts
  <2>4. CASE FlushSend(p) \/ FlushInterrupted(p)
    <3>1. Goto(p, "flushwrite", Resumed(p))
      BY <2>4 DEF FlushSend, FlushInterrupted
    <3>2. Resumed(p) \in {"gate", "read"} /\ Resumed(p) \in Places
      BY <3>1 DEF IGate, Life, Resumed, Goto, Places
    <3>3. pc[p] = "flushwrite" /\ pc'[p] = Resumed(p) /\ \A q \in Procs \ {p} : pc'[q] = pc[q]
      BY <3>1, <3>2, GotoFacts DEF IGate
    <3>4. UNCHANGED <<site, done, queue, free, rpctag, other>>
      BY <2>4 DEF FlushSend, FlushInterrupted, local, rpcs, mnts
    <3> QED
      BY <3>2, <3>3, <3>4, StaysOwned
  <2>5. CASE PassGate(p)
    <3>1. pc[p] = "passgate" /\ cont[p] = "return"
      BY <2>5 DEF PassGate, NotHung
    <3>2. PICK to \in {"return", "wakenext"} : Goto(p, "passgate", to)
      BY <2>5, <3>1 DEF PassGate, Opened
    <3>3. pc'[p] = to /\ \A q \in Procs \ {p} : pc'[q] = pc[q]
      BY <3>2, GotoFacts DEF Places, IGate
    <3>4. UNCHANGED <<site, done, queue, free, rpctag>>
          /\ \A q \in Procs \ {p} : other'[q] = other[q]
      BY <2>5 DEF PassGate, Opened, rpcs, IGate, TypeOK
    <3> QED
      BY <3>1, <3>3, <3>4, StaysOwned
  <2>6. CASE WakeOther(p) \/ WakeNext(p)
    <3>1. /\ pc[p] \in {"wake", "wakenext"} /\ pc'[p] \in {"read", "return"}
          /\ \A q \in Procs \ {p} : pc'[q] = pc[q] \/ (pc[q] = "asleep" /\ pc'[q] = "woken")
      BY <2>6 DEF WakeOther, WakeNext, Wakeup, NotHung
    <3>2. UNCHANGED <<site, done, queue, free, rpctag>>
          /\ \A q \in Procs \ {p} : other'[q] = other[q]
      BY <2>6 DEF WakeOther, WakeNext, rpcs, mnts, IGate, TypeOK
    <3>3. \A q \in Procs : pc'[q] \in {"copy", "finish"} <=> pc[q] \in {"copy", "finish"}
      BY <3>1
    <3>4. \A q \in Procs : pc[q] \in {"copy", "finish"} => other'[q] = other[q]
      BY <3>1, <3>2
    <3> QED
      BY <3>2, <3>3, <3>4, StaysOwned
  <2>7. ~FlushFails(p) /\ ~Qrm(p)
    BY DEF FlushFails, Qrm, Fail, Goto, IGate, Life, NotHung
  <2> QED
    BY <1>1, <2>1, <2>2, <2>3, <2>4, <2>5, <2>6, <2>7 DEF Proceed
<1>2. ASSUME NEW p \in Procs, NEW m \in Mounts, NEW r \in Rpcs, Call(p, m, r) PROVE IOwned'
  BY <1>2, CallOwned
<1>3. CASE UNCHANGED <<pc, site, done, queue, free, rpctag, other>>
  BY <1>3, StaysOwned
<1> QED
  BY <1>1, <1>2, <1>3
     DEF Next, PostNote, Serve, Answer, AnswerFlush, Hangup, vars, local, rpcs, mnts

(* At first no Mntrpc is in use.                                           *)
LEMMA InitUse == Init => IUse
<1> SUFFICES ASSUME Init PROVE IUse
  OBVIOUS
<1> USE RpcsAreNumbers DEF Init
<1>1. NotHung /\ Alone /\ Copying
  BY DEF NotHung, Alone, Copying
<1>2. \A s : s = <<>> => Distinct(s) /\ \A x : ~Within(x, s)
  BY DEF Distinct, Within
<1>3. FreeExact
  <2>1. \A i \in DOMAIN free : FALSE
    OBVIOUS
  <2> QED
    BY <1>2, <2>1 DEF FreeExact
<1>4. QueueExact
  BY <1>2 DEF QueueExact, Queued, Owned
<1> QED
  BY <1>1, <1>3, <1>4 DEF IUse, IOwned

(* While no channel hangs up, Mntrpcs are always accounted for.            *)
LEMMA UseAlways ==
  ASSUME NeverHung
  PROVE  Spec => [](IGate /\ IUse)
<1>1. Init => IGate /\ IUse
  BY InitGate, InitUse
<1>2. IGate /\ IUse /\ [Next]_vars => IGate' /\ IUse'
  BY NeverHung, StepGate, StepNotHung, StepOwned DEF IUse
<1> QED
  BY <1>1, <1>2, PTL DEF Spec

(* While no channel hangs up, Mntrpcs are accounted for (mntralloc,        *)
(* mntfree, mountmux): each is free once or one process's, and it is       *)
(* queued, once, on the mount point it is used on and for as long as its   *)
(* reply has not come.                                                     *)
THEOREM RpcsAccountedFor ==
  ASSUME NeverHung
  PROVE  Spec => []MntrpcExact
<1>1. IGate /\ IUse => MntrpcExact
  <2> SUFFICES ASSUME IGate, IUse PROVE MntrpcExact
    OBVIOUS
  <2> USE DEF IGate, IUse, IOwned
  <2>1. \A p, q \in Procs : mine[p] = mine[q] /\ mine[p] # None => p = q
    BY DEF Alone, TypeOK
  <2>2. IsInjective(free) /\ \A p \in Procs : mine[p] \notin Range(free)
    BY DEF FreeExact, Distinct, IsInjective, Range
  <2>3. ASSUME NEW m \in Mounts
        PROVE  /\ IsInjective(queue[m])
               /\ Range(queue[m]) = {r \in Rpcs : ~done[r] /\ ~InCopy(r) /\
                                        \E p \in Procs : mine[p] = r /\ on[p] = m}
    <3>1. IsInjective(queue[m])
      BY DEF QueueExact, Distinct, IsInjective
    <3>2. queue[m] \in Seq(Rpcs)
      BY DEF TypeOK
    <3>3. \A r : r \in Range(queue[m]) <=> Queued(r, m)
      BY DEF Range, Queued, Within
    <3>4. \A r : Queued(r, m) => r \in Rpcs
      BY <3>2, ElementOfSeq, LenProperties DEF Queued, Within
    <3> QED
      BY <3>1, <3>3, <3>4 DEF QueueExact, Owned
  <2> QED
    BY <2>1, <2>2, <2>3 DEF MntrpcExact
<1> QED
  BY <1>1, UseAlways, PTL
-----------------------------------------------------------------------------
(* Who sleeps though its reply is there has a reader about to wake it.     *)
NotMissed == \A p \in Procs : pc[p] = "asleep" /\ done[mine[p]] =>
                 \E w \in Procs : pc[w] = "wake" /\ other[w] = mine[p] /\ on[w] = on[p]

(* Who will look at the gate, and who was made the next reader and still   *)
(* has to be woken.                                                        *)
OnWay(q) == \/ pc[q] = "gate"
            \/ pc[q] = "woken" /\ ~done[mine[q]]
            \/ pc[q] \in {"flush", "flushwrite"} /\ cont[q] = "gate"
Called(q) == \E x \in Procs : on[x] = on[q] /\ pc[x] = "asleep" /\ mine[x] = other[q]
Sleeper(m) == \E p \in Procs : on[p] = m /\ pc[p] = "asleep"
Coming(m)  == \E q \in Procs : on[q] = m /\ (OnWay(q) \/ (pc[q] = "wakenext" /\ Called(q)))
GateKept   == \A m \in Mounts : rip[m] = None /\ Sleeper(m) => Coming(m)

IWait == NotMissed /\ GateKept

(* At a gate without a reader nobody sleeps through its reply.             *)
LEMMA UndoneSleepers ==
  ASSUME IGate, IWait, NEW m \in Mounts, rip[m] = None,
         NEW x \in Procs, on[x] = m, pc[x] = "asleep"
  PROVE  ~done[mine[x]]
<1> SUFFICES ASSUME done[mine[x]] PROVE FALSE
  OBVIOUS
<1>1. PICK w \in Procs : pc[w] = "wake" /\ on[w] = m
  BY DEF IWait, NotMissed
<1> QED
  BY <1>1, RpcsAreNumbers DEF IGate, OneReader, Reads

(* When somebody is on the way to the gate and p takes a step, somebody is *)
(* on the way still, if the step leaves the others as they are, and wakes  *)
(* whom it must.                                                           *)
LEMMA StaysComing ==
  ASSUME NEW m \in Mounts, NEW p \in Procs, Coming(m),
         \A x \in Procs : on[x] = m /\ pc[x] = "asleep" => ~done[mine[x]],
         \A q \in Procs \ {p} : /\ mine'[q] = mine[q] /\ on'[q] = on[q]
                                /\ cont'[q] = cont[q] /\ other'[q] = other[q],
         \A q \in Procs \ {p} : pc'[q] = pc[q] \/ (pc[q] = "asleep" /\ pc'[q] = "woken"),
         \A q \in Procs \ {p} : on[q] = m /\ done'[mine[q]] => done[mine[q]],
         on[p] = m /\ OnWay(p) => on'[p] = m /\ OnWay(p)',
         on[p] = m /\ pc[p] = "asleep" => on'[p] = m /\ OnWay(p)',
         on[p] = m /\ pc[p] = "wakenext" =>
             \A x \in Procs \ {p} : pc[x] = "asleep" /\ mine[x] = other[p] => pc'[x] = "woken"
  PROVE  Coming(m)'
<1>1. PICK q \in Procs : on[q] = m /\ (OnWay(q) \/ (pc[q] = "wakenext" /\ Called(q)))
  BY DEF Coming
<1>2. CASE OnWay(q)
  <2>1. CASE q = p
    BY <1>1, <1>2, <2>1 DEF Coming
  <2>2. CASE q # p
    <3>1. pc'[q] = pc[q] /\ on'[q] = m
      BY <1>1, <1>2, <2>2 DEF OnWay
    <3>2. OnWay(q)'
      BY <1>1, <1>2, <2>2, <3>1 DEF OnWay
    <3> QED
      BY <3>1, <3>2 DEF Coming
  <2> QED
    BY <2>1, <2>2
<1>3. CASE pc[q] = "wakenext" /\ Called(q)
  <2>1. PICK x \in Procs : on[x] = m /\ pc[x] = "asleep" /\ mine[x] = other[q]
    BY <1>1, <1>3 DEF Called
  <2>2. CASE x = p
    BY <2>1, <2>2 DEF Coming
  <2>3. CASE x # p /\ pc'[x] = "woken"
    <3>1. OnWay(x)' /\ on'[x] = m
      BY <2>1, <2>3 DEF OnWay
    <3> QED
      BY <3>1 DEF Coming
  <2>4. CASE x # p /\ pc'[x] # "woken"
    <3>1. pc'[x] = "asleep" /\ q # p
      BY <1>1, <1>3, <2>1, <2>4
    <3>2. pc'[q] = "wakenext" /\ on'[q] = m /\ on'[x] = m /\ mine'[x] = other'[q]
      BY <1>1, <1>3, <2>1, <2>4, <3>1
    <3> QED
      BY <3>1, <3>2 DEF Coming, Called
  <2> QED
    BY <2>2, <2>3, <2>4
<1> QED
  BY <1>1, <1>2, <1>3

(* Steps of one process that complete nothing, open no gate and wake       *)
(* nobody.                                                                 *)
LEMMA QuietWait ==
  ASSUME IGate, IWait, NEW p \in Procs, NEW from \in Places, NEW to \in Places, Goto(p, from, to),
         from \notin {"wake", "wakenext"}, UNCHANGED <<site, done>>,
         \A q \in Procs \ {p} : cont'[q] = cont[q] /\ other'[q] = other[q],
         \A m \in Mounts : rip'[m] = None => rip[m] = None,
         to = "asleep" => ~done[mine[p]] /\ \A m \in Mounts : on[p] = m => rip'[m] # None,
         from = "asleep" => to = "woken",
         OnWay(p) /\ (\A m \in Mounts : on[p] = m => rip'[m] = None) => OnWay(p)'
  PROVE  IWait'
<1> USE DEF site
<1>1. pc[p] = from /\ pc'[p] = to /\ \A q \in Procs \ {p} : pc'[q] = pc[q]
  BY GotoFacts DEF IGate
<1>2. NotMissed'
  <2> SUFFICES ASSUME NEW x \in Procs, pc'[x] = "asleep", done[mine[x]]
               PROVE  \E w \in Procs : pc'[w] = "wake" /\ other'[w] = mine[x] /\ on[w] = on[x]
    BY DEF NotMissed
  <2>1. pc[x] = "asleep"
    BY <1>1
  <2>2. PICK w \in Procs : pc[w] = "wake" /\ other[w] = mine[x] /\ on[w] = on[x]
    BY <2>1 DEF IWait, NotMissed
  <2> QED
    BY <1>1, <2>2
<1>3. ASSUME NEW m \in Mounts, rip'[m] = None, Sleeper(m)' PROVE Coming(m)'
  <2>1. rip[m] = None
    BY <1>3
  <2>2. Sleeper(m)
    <3>1. PICK x \in Procs : on[x] = m /\ pc'[x] = "asleep"
      BY <1>3 DEF Sleeper
    <3> QED
      BY <1>1, <1>3, <3>1 DEF Sleeper
  <2>3. Coming(m)
    BY <2>1, <2>2 DEF IWait, GateKept
  <2>4. \A x \in Procs : on[x] = m /\ pc[x] = "asleep" => ~done[mine[x]]
    BY <2>1, UndoneSleepers
  <2>5. on[p] = m /\ pc[p] = "asleep" => OnWay(p)'
    BY <1>1, <2>4 DEF OnWay
  <2>6. on[p] = m /\ OnWay(p) => OnWay(p)'
    BY <1>3
  <2> QED
    BY <1>1, <2>3, <2>4, <2>5, <2>6, StaysComing
<1> QED
  BY <1>2, <1>3 DEF IWait, GateKept

(* The reader completes itself: nobody is at the gate that this concerns.  *)
LEMMA MuxWait ==
  ASSUME IGate, IUse, IWait, NEW p \in Procs, Mux(p)
  PROVE  IWait'
<1> USE DEF site
<1>1. /\ pc[p] = "mux" /\ pc'[p] \in {"read", "copy"} /\ \A q \in Procs \ {p} : pc'[q] = pc[q]
      /\ mine[p] \in Rpcs
  BY GotoFacts DEF Mux, Found, Places, IGate, Life
<1>2. /\ UNCHANGED <<mine, on, cont, rip>>
      /\ \A q \in Procs \ {p} : other'[q] = other[q]
      /\ \A d \in Rpcs : d # mine[p] => (done'[d] <=> done[d])
  BY DEF Mux, Found, IGate, TypeOK
<1>3. \A q \in Procs \ {p} : pc[q] # "idle" => mine[q] \in Rpcs /\ mine[q] # mine[p]
  BY DEF IGate, Life, IUse, IOwned, Alone
<1>4. NotMissed'
  BY <1>1, <1>2, <1>3 DEF IWait, NotMissed
<1>5. ASSUME NEW m \in Mounts, rip'[m] = None, Sleeper(m)' PROVE Coming(m)'
  <2>1. rip[m] = None /\ Sleeper(m)
    BY <1>1, <1>2, <1>5 DEF Sleeper
  <2>2. on[p] # m
    BY <1>1, <2>1, RpcsAreNumbers DEF IGate, OneReader, Reads
  <2>3. Coming(m)
    BY <2>1 DEF IWait, GateKept
  <2>4. PICK q \in Procs : on[q] = m /\ (OnWay(q) \/ (pc[q] = "wakenext" /\ Called(q)))
    BY <2>3 DEF Coming
  <2>5. q # p /\ on'[q] = m /\ pc'[q] = pc[q] /\ (pc[q] = "woken" => (done'[mine[q]] <=> done[mine[q]]))
    BY <1>1, <1>2, <1>3, <2>2, <2>4
  <2>6. OnWay(q) => OnWay(q)'
    BY <1>2, <2>5 DEF OnWay
  <2>7. Called(q) => Called(q)'
    BY <1>1, <1>2, <2>5 DEF Called
  <2> QED
    BY <2>4, <2>5, <2>6, <2>7 DEF Coming
<1> QED
  BY <1>4, <1>5 DEF IWait, GateKept

(* The reader sets done for somebody and will wake it.                     *)
LEMMA FinishWait ==
  ASSUME IGate, IUse, IWait, NEW p \in Procs, Finish(p)
  PROVE  IWait'
<1>1. PICK d \in Rpcs : d = other[p]
  BY DEF IGate, Life, Finish, Goto
<1>2. /\ pc[p] = "finish" /\ pc'[p] = "wake" /\ \A q \in Procs \ {p} : pc'[q] = pc[q]
      /\ UNCHANGED <<mine, on, cont, rip, other>>
      /\ \A r \in Rpcs : r # d => (done'[r] <=> done[r])
  BY <1>1, GotoFacts DEF Finish, Places, IGate, TypeOK, local, site, mnts
<1>3. PICK o \in Procs : mine[o] = d /\ on[o] = on[p]
  BY <1>1, <1>2 DEF IUse, IOwned, Copying
<1>4. \A q \in Procs : pc[q] # "idle" => mine[q] \in Rpcs /\ (mine[q] = d => on[q] = on[p])
  BY <1>3 DEF IGate, Life, IUse, IOwned, Alone
<1>5. NotMissed'
  <2> SUFFICES ASSUME NEW x \in Procs, pc[x] = "asleep", done'[mine[x]]
               PROVE  \E w \in Procs : pc'[w] = "wake" /\ other[w] = mine[x] /\ on[w] = on[x]
    BY <1>2 DEF NotMissed
  <2>1. CASE mine[x] = d
    BY <1>1, <1>2, <1>4, <2>1
  <2>2. CASE mine[x] # d
    <3>1. done[mine[x]]
      BY <1>2, <1>4, <2>2
    <3> QED
      BY <1>2, <3>1 DEF IWait, NotMissed
  <2> QED
    BY <2>1, <2>2
<1>6. ASSUME NEW m \in Mounts, rip'[m] = None, Sleeper(m)' PROVE Coming(m)'
  <2>1. rip[m] = None /\ Sleeper(m)
    BY <1>2, <1>6 DEF Sleeper
  <2>2. on[p] # m
    BY <1>2, <2>1, RpcsAreNumbers DEF IGate, OneReader, Reads
  <2>3. Coming(m)
    BY <2>1 DEF IWait, GateKept
  <2>4. PICK q \in Procs : on[q] = m /\ (OnWay(q) \/ (pc[q] = "wakenext" /\ Called(q)))
    BY <2>3 DEF Coming
  <2>5. q # p /\ on'[q] = m /\ pc'[q] = pc[q] /\ (pc[q] = "woken" => (done'[mine[q]] <=> done[mine[q]]))
    BY <1>2, <1>4, <2>2, <2>4
  <2>6. OnWay(q) => OnWay(q)'
    BY <1>2, <2>5 DEF OnWay
  <2>7. Called(q) => Called(q)'
    BY <1>2, <2>5 DEF Called
  <2> QED
    BY <2>4, <2>5, <2>6, <2>7 DEF Coming
<1> QED
  BY <1>5, <1>6 DEF IWait, GateKept

(* A wakeup: who slept through its reply, or was made the next reader, is  *)
(* awake.                                                                  *)
LEMMA WakeupWait ==
  ASSUME IGate, IUse, IWait, NEW p \in Procs, WakeOther(p) \/ WakeNext(p)
  PROVE  IWait'
<1>1. /\ UNCHANGED <<mine, on, done, cont, rip>>
      /\ \A q \in Procs \ {p} : other'[q] = other[q]
  BY DEF WakeOther, WakeNext, IGate, TypeOK, site, rpcs, mnts
<1>2. /\ pc[p] \in {"wake", "wakenext"} /\ pc'[p] \in {"read", "return"}
      /\ \A q \in Procs \ {p} : pc'[q] = IF pc[q] = "asleep" /\ mine[q] = other[p] THEN "woken"
                                         ELSE pc[q]
  BY DEF WakeOther, WakeNext, Wakeup, IUse, NotHung
<1>3. NotMissed'
  <2> SUFFICES ASSUME NEW x \in Procs, pc'[x] = "asleep", done[mine[x]]
               PROVE  \E w \in Procs : pc'[w] = "wake" /\ other'[w] = mine[x] /\ on[w] = on[x]
    BY <1>1 DEF NotMissed
  <2>1. x # p /\ pc[x] = "asleep" /\ mine[x] # other[p]
    BY <1>2
  <2>2. PICK w \in Procs : pc[w] = "wake" /\ other[w] = mine[x] /\ on[w] = on[x]
    BY <2>1 DEF IWait, NotMissed
  <2>3. w # p
    BY <2>1, <2>2
  <2> QED
    BY <1>1, <1>2, <2>2, <2>3
<1>4. ASSUME NEW m \in Mounts, rip'[m] = None, Sleeper(m)' PROVE Coming(m)'
  <2>1. rip[m] = None /\ Sleeper(m)
    BY <1>1, <1>2, <1>4 DEF Sleeper
  <2>2. Coming(m)
    BY <2>1 DEF IWait, GateKept
  <2>3. \A x \in Procs : on[x] = m /\ pc[x] = "asleep" => ~done[mine[x]]
    BY <2>1, UndoneSleepers
  <2>4. ~OnWay(p)
    BY <1>2 DEF OnWay
  <2> QED
    BY <1>1, <1>2, <2>2, <2>3, <2>4, StaysComing
<1> QED
  BY <1>3, <1>4 DEF IWait, GateKept

(* The reader opens the gate: if anyone sleeps there, it has found one to  *)
(* wake.                                                                   *)
LEMMA PassGateWait ==
  ASSUME IGate, IUse, IWait, NEW p \in Procs, PassGate(p)
  PROVE  IWait'
<1>1. PICK n \in Mounts : n = on[p]
  BY DEF IGate, Life, PassGate
<1>2. PICK h : h = Heir(n)
  OBVIOUS
<1>3. /\ pc[p] = "passgate" /\ cont[p] = "return" /\ UNCHANGED <<mine, on, done, cont>>
      /\ \A m \in Mounts \ {n} : rip'[m] = rip[m]
  BY <1>1 DEF PassGate, Opened, IUse, NotHung, IGate, TypeOK, site, rpcs
<1>4. /\ pc'[p] = (IF h = None THEN "return" ELSE "wakenext")
      /\ \A q \in Procs \ {p} : pc'[q] = pc[q]
  BY <1>1, <1>2, <1>3, GotoFacts DEF PassGate, Opened, Places, IGate
<1>5. h \in Rpcs \cup {None}
  BY <1>2, HeirFacts DEF IGate
<1>6. other'[p] = h /\ \A q \in Procs \ {p} : other'[q] = other[q]
  BY <1>1, <1>2, <1>5 DEF PassGate, Opened, IGate, TypeOK
<1>7. NotMissed'
  BY <1>3, <1>4, <1>6 DEF IWait, NotMissed
<1>8. ASSUME NEW m \in Mounts \ {n}, rip'[m] = None, Sleeper(m)' PROVE Coming(m)'
  <2>1. rip[m] = None /\ Sleeper(m)
    BY <1>3, <1>4, <1>8 DEF Sleeper
  <2>2. Coming(m)
    BY <2>1 DEF IWait, GateKept
  <2>3. \A x \in Procs : on[x] = m /\ pc[x] = "asleep" => ~done[mine[x]]
    BY <2>1, UndoneSleepers
  <2>4. on[p] # m
    BY <1>1
  <2> QED
    BY <1>3, <1>4, <1>6, <2>2, <2>3, <2>4, StaysComing
<1>9. ASSUME Sleeper(n)' PROVE Coming(n)'
  <2>1. PICK x \in Procs : on[x] = n /\ pc[x] = "asleep" /\ x # p /\ mine[x] \in Rpcs
    BY <1>3, <1>4, <1>9 DEF Sleeper, IGate, Life
  <2>2. \A w \in Procs : on[w] = n /\ Reads(w) => w = p
    BY <1>1, <1>3 DEF IGate, OneReader, Reads
  <2>3. ~done[mine[x]]
    BY <1>3, <2>1, <2>2 DEF IWait, NotMissed, Reads
  <2>4. ~InCopy(mine[x])
    <3> SUFFICES ASSUME NEW w \in Procs, pc[w] \in {"copy", "finish"}, other[w] = mine[x]
                 PROVE  FALSE
      BY DEF InCopy
    <3>1. on[w] = n
      BY <2>1 DEF IUse, IOwned, Copying, Alone
    <3> QED
      BY <1>3, <2>2, <3>1 DEF Reads
  <2>5. Queued(mine[x], n) /\ Dozes(mine[x])
    BY <2>1, <2>3, <2>4 DEF IUse, IOwned, QueueExact, Owned, Dozes
  <2>6. h # None /\ h \in Rpcs /\ Queued(h, n) /\ Dozes(h)
    BY <1>2, <2>5, HeirFacts DEF IGate
  <2>7. PICK y \in Procs : pc[y] = "asleep" /\ mine[y] = h
    BY <2>6 DEF Dozes
  <2>8. on[y] = n
    BY <2>6, <2>7 DEF IUse, IOwned, QueueExact, Owned, Alone
  <2>9. pc'[p] = "wakenext" /\ on'[p] = n /\ y # p /\ pc'[y] = "asleep"
    BY <1>1, <1>3, <1>4, <2>6, <2>7
  <2>10. Called(p)'
    BY <1>1, <1>3, <1>6, <2>7, <2>8, <2>9 DEF Called
  <2> QED
    BY <2>9, <2>10 DEF Coming
<1> QED
  BY <1>7, <1>8, <1>9 DEF IWait, GateKept

(* Neither the start nor the end of a call is anybody's reply.             *)
LEMMA CallWait ==
  ASSUME IGate, IUse, IWait, NEW p \in Procs,
         Leave(p) \/ \E m \in Mounts, r \in Rpcs : Call(p, m, r)
  PROVE  IWait'
<1>1. /\ pc[p] \in {"idle", "return"} /\ pc'[p] \in {"idle", "send"}
      /\ \A q \in Procs \ {p} : pc'[q] = pc[q]
  <2>1. CASE Leave(p)
    BY <2>1 DEF Leave, IGate, TypeOK, IUse, NotHung
  <2>2. CASE \E m \in Mounts, r \in Rpcs : Call(p, m, r)
    BY <2>2, GotoFacts DEF Call, Enqueue, IGate, Places
  <2> QED
    BY <2>1, <2>2
<1>2. /\ \A q \in Procs \ {p} : mine'[q] = mine[q] /\ on'[q] = on[q] /\ cont'[q] = cont[q]
      /\ UNCHANGED <<other, rip>>
  BY ZenonT(60) DEF Leave, Call, Enqueue, IGate, TypeOK, mnts
<1>3. \A q \in Procs \ {p} : mine[q] \in Rpcs => (done'[mine[q]] <=> done[mine[q]])
  <2>1. CASE Leave(p)
    BY <2>1 DEF Leave
  <2>2. ASSUME NEW m \in Mounts, NEW r \in Rpcs, Call(p, m, r)
        PROVE  \A q \in Procs \ {p} : mine[q] \in Rpcs => (done'[mine[q]] <=> done[mine[q]])
    <3>1. \A q \in Procs : mine[q] # r
      BY <2>2, NewRpc DEF IUse, IOwned
    <3> QED
      BY <2>2, <3>1 DEF Call, IGate, TypeOK
  <2> QED
    BY <2>1, <2>2
<1>4. \A q \in Procs : pc[q] # "idle" => mine[q] \in Rpcs
  BY DEF IGate, Life
<1>5. NotMissed'
  <2> SUFFICES ASSUME NEW x \in Procs, pc'[x] = "asleep", done'[mine'[x]]
               PROVE  \E w \in Procs : pc'[w] = "wake" /\ other'[w] = mine'[x] /\ on'[w] = on'[x]
    BY DEF NotMissed
  <2>1. x # p /\ pc[x] = "asleep" /\ done[mine[x]]
    BY <1>1, <1>2, <1>3, <1>4
  <2>2. PICK w \in Procs : pc[w] = "wake" /\ other[w] = mine[x] /\ on[w] = on[x]
    BY <2>1 DEF IWait, NotMissed
  <2> QED
    BY <1>1, <1>2, <2>1, <2>2
<1>6. ASSUME NEW m \in Mounts, rip'[m] = None, Sleeper(m)' PROVE Coming(m)'
  <2>1. rip[m] = None /\ Sleeper(m)
    BY <1>1, <1>2, <1>6 DEF Sleeper
  <2>2. Coming(m)
    BY <2>1 DEF IWait, GateKept
  <2>3. PICK q \in Procs : on[q] = m /\ (OnWay(q) \/ (pc[q] = "wakenext" /\ Called(q)))
    BY <2>2 DEF Coming
  <2>4. q # p
    BY <1>1, <2>3 DEF OnWay
  <2>5. OnWay(q) => OnWay(q)'
    BY <1>1, <1>2, <1>3, <1>4, <2>4 DEF OnWay
  <2>6. Called(q) => Called(q)'
    BY <1>1, <1>2, <2>4 DEF Called
  <2> QED
    BY <1>1, <1>2, <2>3, <2>4, <2>5, <2>6 DEF Coming
<1> QED
  BY <1>5, <1>6 DEF IWait, GateKept

(* Every step keeps the gate from being lost.                              *)
LEMMA StepWait ==
  ASSUME NeverHung, IGate, IUse, IWait, [Next]_vars
  PROVE  IWait'
<1>1. ASSUME NEW p \in Procs, Proceed(p) PROVE IWait'
  <2>1. CASE Mux(p) \/ Finish(p) \/ WakeOther(p) \/ PassGate(p) \/ WakeNext(p) \/ Leave(p)
    BY <2>1, MuxWait, FinishWait, WakeupWait, PassGateWait, CallWait
  <2>2. CASE Send(p) \/ Read(p) \/ Copy(p) \/ Disturb(p) \/ Wake(p)
    <3>1. PICK from, to \in Places :
             /\ Goto(p, from, to) /\ from \in {"send", "read", "copy", "asleep", "woken"}
             /\ to # "asleep" /\ (from = "asleep" => to = "woken")
             /\ (from = "woken" => to = "gate" \/ done[mine[p]])
      BY <2>2 DEF Send, Read, Copy, Disturb, Wake, Places
    <3>2. UNCHANGED <<site, done, cont, other, rip>>
      BY <2>2 DEF Send, Read, Copy, Disturb, Wake, local, rpcs, mnts
    <3>3. OnWay(p) => OnWay(p)'
      BY <3>1, GotoFacts DEF OnWay, IGate
    <3> QED
      BY <3>1, <3>2, <3>3, QuietWait
  <2>3. CASE Gate(p)
    <3>1. PICK to \in {"read", "sleep"} :
             /\ Goto(p, "gate", to) /\ to = IF rip[on[p]] = None THEN "read" ELSE "sleep"
      BY <2>3 DEF Gate
    <3>2. /\ UNCHANGED <<site, done, cont, other>>
          /\ rip' = IF rip[on[p]] = None THEN [rip EXCEPT ![on[p]] = p] ELSE rip
      BY <2>3 DEF Gate, local, rpcs
    <3>3. /\ \A m \in Mounts : rip'[m] = None => rip[m] = None
          /\ on[p] \in Mounts /\ rip'[on[p]] # None
      BY <3>1, <3>2, RpcsAreNumbers DEF IGate, TypeOK, Life, Goto
    <3>4. "gate" \in Places /\ to \in Places
      BY DEF Places
    <3> QED
      BY <3>1, <3>2, <3>3, <3>4, QuietWait
  <2>4. CASE Sleep(p)
    <3>1. PICK to \in {"woken", "asleep"} :
             /\ Goto(p, "sleep", to) /\ to = IF rpcattn(p) THEN "woken" ELSE "asleep"
      BY <2>4 DEF Sleep
    <3>2. UNCHANGED <<site, done, cont, other, rip>>
      BY <2>4 DEF Sleep, local, rpcs, mnts
    <3>3. to = "asleep" => ~done[mine[p]] /\ \A m \in Mounts : on[p] = m => rip'[m] # None
      BY <3>1, <3>2 DEF rpcattn
    <3>4. ~OnWay(p)
      BY <3>1 DEF OnWay, Goto
    <3>5. "sleep" \in Places /\ to \in Places
      BY DEF Places
    <3> QED
      BY <3>1, <3>2, <3>3, <3>4, <3>5, QuietWait
  <2>5. CASE SendFails(p) \/ ReadFails(p) \/ WakeNoted(p) \/ ReadDone(p)
    <3>1. PICK from \in {"send", "read", "woken"}, to \in {"flush", "passgate"} :
             /\ Goto(p, from, to)
             /\ from = "woken" => to = "flush" /\ cont' = [cont EXCEPT ![p] = "gate"]
      BY <2>5 DEF SendFails, ReadFails, WakeNoted, ReadDone, Flush
    <3>2. /\ UNCHANGED <<site, done, other, rip>>
          /\ \A q \in Procs \ {p} : cont'[q] = cont[q]
      BY <2>5 DEF SendFails, ReadFails, WakeNoted, ReadDone, Flush, rpcs, mnts, IGate, TypeOK
    <3>3. from \in Places /\ to \in Places
      BY DEF Places
    <3>4. pc[p] = from /\ pc'[p] = to
      BY <3>1, <3>3, GotoFacts DEF IGate
    <3>5. OnWay(p) => OnWay(p)'
      BY <3>1, <3>4 DEF OnWay, IGate, TypeOK
    <3> QED
      BY <3>1, <3>2, <3>3, <3>5, QuietWait
  <2>6. CASE FlushTag(p) \/ FlushSend(p) \/ FlushInterrupted(p)
    <3>1. PICK from \in {"flush", "flushwrite"}, to \in {"flushwrite", "gate", "read"} :
             Goto(p, from, to) /\ (cont[p] = "gate" => to \in {"flushwrite", "gate"})
      BY <2>6 DEF FlushTag, FlushSend, FlushInterrupted, Resumed, IGate, Life, Goto
    <3>2. UNCHANGED <<site, done, cont, other, rip>>
      BY <2>6 DEF FlushTag, FlushSend, FlushInterrupted, local, rpcs, mnts
    <3>3. from \in Places /\ to \in Places
      BY DEF Places
    <3>4. pc[p] = from /\ pc'[p] = to
      BY <3>1, <3>3, GotoFacts DEF IGate
    <3>5. OnWay(p) => OnWay(p)'
      BY <3>1, <3>2, <3>4 DEF OnWay
    <3> QED
      BY <3>1, <3>2, <3>3, <3>5, QuietWait
  <2>7. ~FlushFails(p) /\ ~Qrm(p)
    BY DEF FlushFails, Qrm, Fail, Goto, IGate, Life, IUse, NotHung
  <2> QED
    BY <1>1, <2>1, <2>2, <2>3, <2>4, <2>5, <2>6, <2>7 DEF Proceed
<1>2. ASSUME NEW p \in Procs, NEW m \in Mounts, NEW r \in Rpcs, Call(p, m, r) PROVE IWait'
  BY <1>2, CallWait
<1>3. CASE UNCHANGED <<pc, site, done, cont, other, rip>>
  BY <1>3 DEF IWait, NotMissed, GateKept, Sleeper, Coming, OnWay, Called, site
<1> QED
  BY <1>1, <1>2, <1>3
     DEF Next, PostNote, Serve, Answer, AnswerFlush, Hangup, vars, local, rpcs, mnts

(* While no channel hangs up, the gate is not lost (mntgate): while        *)
(* processes sleep at a gate that has no reader, one of them, or one that  *)
(* comes to it, will be the next.                                          *)
THEOREM GateIsNotLost ==
  ASSUME NeverHung
  PROVE  Spec => []GateNotLost
<1>1. Init => IWait
  BY DEF Init, IWait, NotMissed, GateKept, Sleeper
<1>2. IGate /\ IUse /\ IWait /\ [Next]_vars => IWait'
  BY NeverHung, StepWait
<1>3. IWait => GateNotLost
  BY DEF IWait, GateKept, GateNotLost, Sleeper, Coming, OnWay, Comes
<1> QED
  BY <1>1, <1>2, <1>3, UseAlways, PTL DEF Spec
-----------------------------------------------------------------------------
(* Messages.  The tags of flushes are not used again: the code takes the   *)
(* next one and does not look whether a flush of that tag is answered.     *)
TagsSuffice == Notes <= Tagend - Tagfls

(* A message on mount point m: with the server, on its way back, or in the *)
(* hands of the reader that looks for its owner.                           *)
Hand(p, m)   == pc[p] = "mux" /\ on[p] = m
Flying(x, m) == Within(x, wire[m]) \/ \E p \in Procs : Hand(p, m) /\ reply[mine[p]] = x
Msg(x, m)    == x \in server[m] \/ Flying(x, m)

(* A request, or its reply, is of a process that still waits for it under  *)
(* its tag; the others are flushes.                                        *)
IsFlushTag(g) == g \in Tagfls..(Tagend - 1)
Awaits(p, m, r) == /\ pc[p] \notin {"idle", "send"} /\ on[p] = m /\ mine[p] = r
                   /\ ~done[r] /\ ~InCopy(r)
ForCall(x, m) == \/ x.kind \in {"T", "R"} /\ x.call \in Procs /\ Awaits(x.call, m, x.tag)
                 \/ x.kind \in {"Tflush", "Rflush"} /\ IsFlushTag(x.tag)
Asked == \A m \in Mounts : /\ \A x : Msg(x, m) => ForCall(x, m)
                           /\ \A t \in server[m] : t.kind = "T" => t.oldtag = 0

(* A process that has not sent its request has no messages and no answer.  *)
Unsent == \A p \in Procs :
    /\ pc[p] \in {"idle", "send"} => \A m \in Mounts : \A x : Msg(x, m) => x.call # p
    /\ pc[p] = "send" => ~done[mine[p]] /\ ~InCopy(mine[p])

(* Nothing of the same call goes before a reply: no flush is answered and  *)
(* the request after it.                                                   *)
Behind(x, y) == y.kind = "R" => x.call # y.call
Ord(s) == \A i, j \in DOMAIN s : i < j => Behind(s[i], s[j])
Ordered == \A m \in Mounts :
    /\ Ord(wire[m])
    /\ \A p \in Procs : Hand(p, m) => \A y : Within(y, wire[m]) => Behind(reply[mine[p]], y)
    /\ \A t \in server[m] : \A y : t.kind = "T" /\ Flying(y, m) => t.call # y.call

(* A flush tag is one process's, and so is what has come under it; and     *)
(* those given out so far are the first ones.                              *)
HasFlushed(p, m) == pc[p] # "idle" /\ on[p] = m /\ flushed[mine[p]]
FlushesDiffer == \A m \in Mounts : \A p, q \in Procs :
    HasFlushed(p, m) /\ HasFlushed(q, m) /\ flushtag[mine[p]] = flushtag[mine[q]] => p = q
FlushIsMine == \A m \in Mounts : \A p \in Procs : \A x :
    HasFlushed(p, m) /\ Msg(x, m) /\ x.tag = flushtag[mine[p]] => x.call = p /\ pc[p] # "flushwrite"
FlushTagged == \A p \in Procs :
    /\ pc[p] = "flushwrite" => flushed[mine[p]]
    /\ pc[p] # "idle" /\ flushed[mine[p]] => IsFlushTag(flushtag[mine[p]])
Spare == noted - Cardinality({p \in Procs : notepending[p]})
               - Cardinality({p \in Procs : pc[p] = "flush"})
Given(m, u) == /\ u <= Spare
               /\ nextflush[m] = IF u = Tagend - Tagfls THEN Tagfls ELSE Tagfls + u
               /\ \A x : Msg(x, m) => x.tag < Tagfls + u
               /\ \A p \in Procs : HasFlushed(p, m) => flushtag[mine[p]] < Tagfls + u
AllGiven == \A m \in Mounts : \E u \in Nat : Given(m, u)

ITags == FlushesDiffer /\ FlushIsMine /\ FlushTagged /\ AllGiven /\ TagsDiffer

(* Who has its answer, or is being given it, has its own.                  *)
IsTo(x, p) == x.kind # "none" /\ x.call = p
Mine == \A p \in Procs : pc[p] # "idle" =>
    /\ done[mine[p]] => IsTo(reply[mine[p]], p)
    /\ \A w \in Procs : other[w] = mine[p] =>
           /\ pc[w] = "copy" => IsTo(reply[mine[w]], p)
           /\ pc[w] = "finish" => IsTo(reply[other[w]], p)

IMsgs == Asked /\ Unsent /\ Ordered /\ ITags /\ Mine
-----------------------------------------------------------------------------
(* Order in a sequence without its head, or with one more at the end.      *)
LEMMA OrdTail ==
  ASSUME NEW S, NEW s \in Seq(S), s # <<>>, NEW t, t = Tail(s), Ord(s)
  PROVE  /\ Ord(t) /\ Within(Head(s), s)
         /\ \A y : Within(y, t) => Within(y, s) /\ Behind(Head(s), y)
<1>1. Len(s) \in Nat /\ Len(s) # 0 /\ DOMAIN s = 1..Len(s)
  BY LenProperties, EmptySeq
<1>2. /\ t \in Seq(S) /\ Len(t) = Len(s) - 1 /\ Head(s) = s[1]
      /\ \A i \in 1..(Len(s) - 1) : t[i] = s[i + 1]
  <2>1. /\ t \in Seq(S) /\ Len(t) = Len(s) - 1 /\ \A i \in 1..Len(t) : t[i] = s[i + 1]
    BY HeadTailProperties
  <2> QED
    BY <2>1
<1>3. DOMAIN t = 1..(Len(s) - 1)
  BY <1>2, LenProperties
<1>4. 1 \in DOMAIN s
  BY <1>1
<1>5. \A i \in DOMAIN t : i + 1 \in DOMAIN s /\ 1 < i + 1 /\ t[i] = s[i + 1]
  BY <1>1, <1>2, <1>3
<1>6. \A i, j \in DOMAIN t : i < j => i + 1 < j + 1
  BY <1>3
<1>7. Ord(t)
  BY <1>5, <1>6 DEF Ord
<1>8. \A y : Within(y, t) => Within(y, s) /\ Behind(Head(s), y)
  BY <1>2, <1>4, <1>5 DEF Within, Ord
<1> QED
  BY <1>2, <1>4, <1>7, <1>8 DEF Within

(* A later message goes behind those there.                                *)
LEMMA OrdAppend ==
  ASSUME NEW S, NEW s \in Seq(S), NEW e \in S, NEW t, t = Append(s, e)
  PROVE  /\ \A y : Within(y, t) <=> Within(y, s) \/ y = e
         /\ Ord(s) /\ (\A y : Within(y, s) => Behind(y, e)) => Ord(t)
<1>1. Len(s) \in Nat /\ DOMAIN s = 1..Len(s)
  BY LenProperties
<1>2. /\ t \in Seq(S) /\ Len(t) = Len(s) + 1
      /\ \A i \in 1..Len(s) : t[i] = s[i]
      /\ t[Len(s) + 1] = e
  BY AppendProperties
<1>3. DOMAIN t = 1..(Len(s) + 1)
  BY <1>2, LenProperties
<1>4. \A i \in DOMAIN t : i \in DOMAIN s \/ i = Len(s) + 1
  BY <1>1, <1>3
<1>5. Len(s) + 1 \in DOMAIN t /\ \A i \in DOMAIN s : i \in DOMAIN t /\ t[i] = s[i]
  BY <1>1, <1>2, <1>3
<1>6. \A y : Within(y, t) <=> Within(y, s) \/ y = e
  BY <1>2, <1>4, <1>5 DEF Within
<1>7. ASSUME Ord(s), \A y : Within(y, s) => Behind(y, e),
             NEW i \in DOMAIN t, NEW j \in DOMAIN t, i < j
      PROVE  Behind(t[i], t[j])
  <2>1. i \in DOMAIN s
    BY <1>1, <1>3, <1>7
  <2>2. CASE j \in DOMAIN s
    BY <1>5, <1>7, <2>1, <2>2 DEF Ord
  <2>3. CASE j = Len(s) + 1
    <3>1. Within(t[i], s)
      BY <1>5, <2>1 DEF Within
    <3> QED
      BY <1>2, <1>7, <2>3, <3>1
  <2> QED
    BY <1>4, <2>2, <2>3
<1> QED
  BY <1>6, <1>7 DEF Ord

(* What a message is.                                                      *)
LEMMA MsgTypes ==
  ASSUME IGate, NEW m \in Mounts, NEW x
  PROVE  /\ x \in server[m] => x \in Requests
         /\ Within(x, wire[m]) => x \in Replies
         /\ Flying(x, m) => x \in Replies
         /\ Msg(x, m) => x.tag \in Nat /\ x.call \in Procs \cup {None}
<1>1. x \in server[m] => x \in Requests
  BY DEF IGate, TypeOK
<1>2. Within(x, wire[m]) => x \in Replies
  <2>1. PICK w : w = wire[m]
    OBVIOUS
  <2>2. w \in Seq(Replies)
    BY <2>1 DEF IGate, TypeOK
  <2>3. \A i \in DOMAIN w : w[i] \in Replies
    BY <2>2, ElementOfSeq, LenProperties
  <2> QED
    BY <2>1, <2>3 DEF Within
<1>3. Flying(x, m) => x \in Replies
  BY <1>2 DEF Flying, Hand, IGate, Life, TypeOK
<1>4. x \in Requests \/ x \in Replies => x.tag \in Nat /\ x.call \in Procs \cup {None}
  BY RpcsAreNumbers DEF Requests, Replies, CallIds
<1> QED
  BY <1>1, <1>2, <1>3, <1>4 DEF Msg

(* Hands let go of messages, or nothing happens to them.                   *)
LEMMA HandsDropped ==
  ASSUME Ordered, TagsDiffer, UNCHANGED <<server, wire>>,
         \A q \in Procs : \A m \in Mounts :
            Hand(q, m)' => Hand(q, m) /\ reply'[mine'[q]] = reply[mine[q]]
  PROVE  /\ \A m \in Mounts : \A x : (Flying(x, m)' => Flying(x, m)) /\ (Msg(x, m)' => Msg(x, m))
         /\ Ordered' /\ TagsDiffer'
<1>1. \A m \in Mounts : \A x : Flying(x, m)' => Flying(x, m)
  BY DEF Flying
<1>2. \A m \in Mounts : \A x : Msg(x, m)' => Msg(x, m)
  BY <1>1 DEF Msg
<1>3. Ordered'
  BY <1>1 DEF Ordered
<1>4. TagsDiffer'
  BY DEF TagsDiffer
<1> QED
  BY <1>1, <1>2, <1>3, <1>4

(* Requests and replies stay asked for while nobody is done.               *)
LEMMA AskedKept ==
  ASSUME Asked,
         \A m \in Mounts : \A x : Msg(x, m)' => Msg(x, m),
         \A m \in Mounts : server'[m] \subseteq server[m],
         \A m \in Mounts : \A x : Msg(x, m)' /\ x.kind \in {"T", "R"} /\ x.call \in Procs
             /\ Awaits(x.call, m, x.tag) => Awaits(x.call, m, x.tag)'
  PROVE  Asked'
<1>1. \A m \in Mounts : \A x : Msg(x, m)' => ForCall(x, m)'
  BY DEF Asked, ForCall
<1>2. \A m \in Mounts : \A t \in server'[m] : t.kind = "T" => t.oldtag = 0
  BY DEF Asked
<1> QED
  BY <1>1, <1>2 DEF Asked

(* No tag comes into use.                                                  *)
LEMMA TagsKept ==
  ASSUME IGate, IGate', ITags, TagsDiffer', UNCHANGED nextflush, Spare \in Int, Spare' \in Int, Spare' >= Spare,
         \A m \in Mounts : \A x : Msg(x, m)' => \E y :
             /\ Msg(y, m) /\ y.tag = x.tag
             /\ y.call = x.call \/ (\A q \in Procs : y.call = q => ~HasFlushed(q, m)'),
         \A m \in Mounts : \A q \in Procs : HasFlushed(q, m)' =>
             /\ HasFlushed(q, m) /\ flushtag'[mine'[q]] = flushtag[mine[q]]
             /\ pc'[q] = "flushwrite" => pc[q] = "flushwrite",
         \A q \in Procs : pc'[q] = "flushwrite" => flushed'[mine'[q]]
  PROVE  ITags'
<1>1. FlushesDiffer'
  BY DEF ITags, FlushesDiffer
<1>2. FlushIsMine'
  <2> SUFFICES ASSUME NEW m \in Mounts, NEW q \in Procs, NEW x, HasFlushed(q, m)', Msg(x, m)',
                      x.tag = flushtag'[mine'[q]]
               PROVE  x.call = q /\ pc'[q] # "flushwrite"
    BY DEF FlushIsMine
  <2>1. PICK y :
                 /\ Msg(y, m) /\ y.tag = x.tag
                 /\ y.call = x.call \/ (\A r \in Procs : y.call = r => ~HasFlushed(r, m)')
    OBVIOUS
  <2>2. y.call = q /\ pc[q] # "flushwrite"
    BY <2>1 DEF ITags, FlushIsMine
  <2> QED
    BY <2>1, <2>2
<1>3. FlushTagged'
  <2>1. \A q \in Procs : pc'[q] # "idle" /\ flushed'[mine'[q]] => \E m \in Mounts : HasFlushed(q, m)'
    BY DEF HasFlushed, IGate, Life
  <2> QED
    BY <2>1 DEF ITags, FlushTagged, HasFlushed
<1>4. AllGiven'
  <2> SUFFICES ASSUME NEW m \in Mounts PROVE \E u \in Nat : Given(m, u)'
    BY DEF AllGiven
  <2>1. PICK u \in Nat : Given(m, u)
    BY DEF ITags, AllGiven
  <2>2. u <= Spare' /\ nextflush'[m] = IF u = Tagend - Tagfls THEN Tagfls ELSE Tagfls + u
    BY <2>1 DEF Given
  <2>3. \A x : Msg(x, m)' => x.tag < Tagfls + u
    BY <2>1 DEF Given
  <2>4. \A q \in Procs : HasFlushed(q, m)' => flushtag'[mine'[q]] < Tagfls + u
    BY <2>1 DEF Given
  <2> QED
    BY <2>2, <2>3, <2>4 DEF Given
<1> QED
  BY <1>1, <1>2, <1>3, <1>4 DEF ITags
-----------------------------------------------------------------------------
(* The size of a part, with one element more and one less.                 *)
LEMMA CardFacts ==
  ASSUME NEW S, IsFiniteSet(S), NEW T, NEW e
  PROVE  /\ Cardinality(S) \in Nat
         /\ T \subseteq S => Cardinality(T) \in Nat /\ Cardinality(T) <= Cardinality(S)
         /\ T \subseteq S \cup {e} => Cardinality(T) \in Nat /\ Cardinality(T) <= Cardinality(S) + 1
         /\ e \in S /\ T \subseteq S \ {e} => Cardinality(T) \in Nat /\ Cardinality(T) <= Cardinality(S) - 1
<1>1. Cardinality(S) \in Nat
  BY FS_CardinalityType
<1>2. T \subseteq S => Cardinality(T) \in Nat /\ Cardinality(T) <= Cardinality(S)
  BY FS_Subset, FS_CardinalityType
<1>3. ASSUME T \subseteq S \cup {e}
      PROVE  Cardinality(T) \in Nat /\ Cardinality(T) <= Cardinality(S) + 1
  <2>1. IsFiniteSet(S \cup {e}) /\ (Cardinality(S \cup {e}) = Cardinality(S) \/ Cardinality(S \cup {e}) = Cardinality(S) + 1)
    BY FS_AddElement
  <2>2. IsFiniteSet(T) /\ Cardinality(T) \in Nat /\ Cardinality(T) <= Cardinality(S \cup {e})
    BY <1>3, <2>1, FS_Subset, FS_CardinalityType
  <2> QED
    BY <1>1, <2>1, <2>2
<1>4. ASSUME e \in S, T \subseteq S \ {e}
      PROVE  Cardinality(T) \in Nat /\ Cardinality(T) <= Cardinality(S) - 1
  <2>1. IsFiniteSet(S \ {e}) /\ Cardinality(S \ {e}) = Cardinality(S) - 1
    BY <1>4, FS_RemoveElement
  <2>2. IsFiniteSet(T) /\ Cardinality(T) \in Nat /\ Cardinality(T) <= Cardinality(S \ {e})
    BY <1>4, <2>1, FS_Subset, FS_CardinalityType
  <2> QED
    BY <2>1, <2>2
<1> QED
  BY <1>1, <1>2, <1>3, <1>4

(* Notes that may still lead to a flush: none is made but by a new note,   *)
(* and every new flush tag takes one.                                      *)
Noted    == {p \in Procs : notepending[p]}
Flushing == {p \in Procs : pc[p] = "flush"}

(* What is left of the notes is a number, and no more than there were.     *)
LEMMA SpareIs ==
  ASSUME TypeOK
  PROVE  /\ Spare = noted - Cardinality(Noted) - Cardinality(Flushing)
         /\ Spare \in Int /\ Spare <= Notes
         /\ IsFiniteSet(Noted) /\ IsFiniteSet(Flushing)
<1>1. IsFiniteSet(Noted) /\ IsFiniteSet(Flushing)
  BY FS_Subset, RpcAssumption DEF Noted, Flushing
<1>2. Cardinality(Noted) \in Nat /\ Cardinality(Flushing) \in Nat
  BY <1>1, FS_CardinalityType
<1>3. noted \in 0..Notes /\ Notes \in Nat
  BY RpcAssumption DEF TypeOK
<1>4. Spare = noted - Cardinality(Noted) - Cardinality(Flushing)
  BY DEF Spare, Noted, Flushing
<1> QED
  BY <1>1, <1>2, <1>3, <1>4

(* A note seen, or a flush begun for it, does not add to the flushes to come.*)
LEMMA SpareKept ==
  ASSUME TypeOK, TypeOK', NEW p \in Procs,
         \/ noted' = noted /\ Noted' \subseteq Noted /\ Flushing' \subseteq Flushing
         \/ /\ noted' = noted /\ p \in Noted
            /\ Noted' \subseteq Noted \ {p} /\ Flushing' \subseteq Flushing \cup {p}
         \/ noted' = noted + 1 /\ Noted' \subseteq Noted \cup {p} /\ Flushing' \subseteq Flushing
  PROVE  Spare \in Int /\ Spare' \in Int /\ Spare' >= Spare
<1>1. PICK a, b : a = Noted /\ b = Flushing
  OBVIOUS
<1>2. PICK c, d : c = Noted' /\ d = Flushing'
  OBVIOUS
<1>3. IsFiniteSet(a) /\ IsFiniteSet(b)
  BY <1>1, SpareIs
<1>4. /\ Spare = noted - Cardinality(a) - Cardinality(b)
      /\ Spare' = noted' - Cardinality(c) - Cardinality(d)
  BY <1>1, <1>2 DEF Spare, Noted, Flushing
<1>5. noted \in Nat /\ noted' \in Nat
  BY DEF TypeOK
<1>6. CASE noted' = noted /\ c \subseteq a /\ d \subseteq b
  BY <1>3, <1>4, <1>5, <1>6, CardFacts
<1>7. CASE noted' = noted /\ p \in a /\ c \subseteq a \ {p} /\ d \subseteq b \cup {p}
  BY <1>3, <1>4, <1>5, <1>7, CardFacts
<1>8. CASE noted' = noted + 1 /\ c \subseteq a \cup {p} /\ d \subseteq b
  BY <1>3, <1>4, <1>5, <1>8, CardFacts
<1> QED
  BY <1>1, <1>2, <1>6, <1>7, <1>8

(* A flush that is tagged leaves one fewer to come.                        *)
LEMMA SpareTaken ==
  ASSUME TypeOK, TypeOK', NEW p \in Procs, noted' = noted, notepending' = notepending,
         p \in Flushing, Flushing' \subseteq Flushing \ {p}
  PROVE  Spare \in Int /\ Spare' \in Int /\ Spare' >= Spare + 1 /\ Spare' <= Notes
<1>1. PICK a, b : a = Noted /\ b = Flushing
  OBVIOUS
<1>2. PICK d : d = Flushing'
  OBVIOUS
<1>3. IsFiniteSet(a) /\ IsFiniteSet(b)
  BY <1>1, SpareIs
<1>4. /\ Spare = noted - Cardinality(a) - Cardinality(b)
      /\ Spare' = noted - Cardinality(a) - Cardinality(d)
  BY <1>1, <1>2 DEF Spare, Noted, Flushing
<1>5. noted \in Nat /\ Notes \in Nat /\ noted <= Notes
  BY RpcAssumption DEF TypeOK
<1>6. p \in b /\ d \subseteq b \ {p}
  BY <1>1, <1>2
<1> QED
  BY <1>3, <1>4, <1>5, <1>6, CardFacts
-----------------------------------------------------------------------------
IAll == IGate /\ IUse /\ IMsgs

(* A step that moves processes between places where no message is at       *)
(* stake, and gives up notes at most.                                      *)
LEMMA QuietMsgs ==
  ASSUME IAll, IGate', NEW p \in Procs,
         UNCHANGED <<mine, on, done, reply, flushed, flushtag, nextflush, server, wire>>,
         Spare \in Int, Spare' \in Int, Spare' >= Spare,
         pc[p] \notin {"idle", "mux", "copy", "finish"},
         pc'[p] \notin {"idle", "send", "mux", "copy", "finish", "flushwrite"},
         \A q \in Procs \ {p} : /\ pc'[q] = pc[q] \/ (pc[q] = "asleep" /\ pc'[q] = "woken")
                                /\ other'[q] = other[q]
  PROVE  IMsgs'
<1> USE DEF IAll, IMsgs
<1>1. \A q \in Procs : \A m \in Mounts : Hand(q, m)' => Hand(q, m) /\ reply'[mine'[q]] = reply[mine[q]]
  BY DEF Hand
<1>2. /\ \A m \in Mounts : \A x : (Flying(x, m)' => Flying(x, m)) /\ (Msg(x, m)' => Msg(x, m))
      /\ Ordered' /\ TagsDiffer'
  BY <1>1, HandsDropped DEF ITags
<1>3. \A r : InCopy(r)' <=> InCopy(r)
  BY DEF InCopy
<1>4. Asked'
  <2>1. \A q \in Procs : \A m, r : Awaits(q, m, r) => Awaits(q, m, r)'
    BY <1>3 DEF Awaits
  <2> QED
    BY <1>2, <2>1, AskedKept
<1>5. Unsent'
  BY <1>2, <1>3 DEF Unsent
<1>6. ITags'
  <2>1. \A m \in Mounts : \A q \in Procs : HasFlushed(q, m)' => HasFlushed(q, m)
    BY DEF HasFlushed
  <2>2. \A q \in Procs : pc'[q] = "flushwrite" => pc[q] = "flushwrite"
    OBVIOUS
  <2>3. \A q \in Procs : pc'[q] = "flushwrite" => flushed'[mine'[q]]
    BY <2>2 DEF ITags, FlushTagged
  <2> QED
    BY <1>2, <2>1, <2>2, <2>3, TagsKept
<1>7. Mine'
  BY DEF Mine
<1> QED
  BY <1>2, <1>4, <1>5, <1>6, <1>7

(* Steps that move nothing but the process leave the messages alone.       *)
LEMMA QuietSteps ==
  ASSUME IAll, IGate', NEW p \in Procs,
         \/ SendFails(p) \/ Gate(p) \/ Sleep(p) \/ Disturb(p) \/ Wake(p) \/ WakeNoted(p)
         \/ ReadFails(p) \/ ReadDone(p) \/ PassGate(p) \/ FlushInterrupted(p)
  PROVE  IMsgs'
<1> USE DEF IAll
<1>1. PICK from \in {"send", "gate", "sleep", "asleep", "woken", "read", "passgate", "flushwrite"},
           to \in {"flush", "read", "sleep", "asleep", "woken", "return", "gate", "passgate", "wakenext"} :
         Goto(p, from, to)
  BY DEF SendFails, Gate, Sleep, Disturb, Wake, WakeNoted, ReadFails, ReadDone, PassGate, FlushInterrupted,
         Flush, Opened, Resumed, IUse, NotHung, IGate, Life, Goto
<1>2. from \in Places /\ to \in Places
  BY DEF Places
<1>3. pc[p] = from /\ pc'[p] = to /\ \A q \in Procs \ {p} : pc'[q] = pc[q]
  BY <1>1, <1>2, GotoFacts DEF IGate
<1>4. /\ UNCHANGED <<mine, on, done, reply, flushed, flushtag, nextflush, server, wire, noted>>
      /\ \A q \in Procs \ {p} : other'[q] = other[q]
  BY DEF SendFails, Gate, Sleep, Disturb, Wake, WakeNoted, ReadFails, ReadDone, PassGate, FlushInterrupted,
         Flush, Opened, local, notes, site, rpcs, mnts, chans, IGate, TypeOK
<1>5. \/ notepending' = notepending /\ to # "flush"
      \/ notepending[p] /\ notepending' = [notepending EXCEPT ![p] = FALSE]
  <2>1. on[p] \in Mounts /\ ~hung[on[p]]
    BY <1>3 DEF IGate, Life, IUse, NotHung
  <2>2. CASE SendFails(p) \/ ReadFails(p)
    BY <2>1, <2>2 DEF SendFails, ReadFails, Interrupted
  <2>3. CASE WakeNoted(p) \/ FlushInterrupted(p)
    BY <2>3 DEF WakeNoted, FlushInterrupted, Interrupted
  <2>4. CASE Gate(p) \/ Sleep(p) \/ Disturb(p) \/ Wake(p) \/ ReadDone(p)
    BY <1>3, <2>4 DEF Gate, Sleep, Disturb, Wake, ReadDone, local, notes, Goto, IGate, TypeOK
  <2>5. CASE PassGate(p)
    <3>1. cont[p] # "flush"
      BY <2>5 DEF PassGate, IGate, Life
    <3> QED
      BY <1>3, <2>5, <3>1 DEF PassGate, Opened, notes, Goto, IGate, TypeOK
  <2> QED
    BY <2>2, <2>3, <2>4, <2>5
<1>6. Spare \in Int /\ Spare' \in Int /\ Spare' >= Spare
  <2>1. TypeOK /\ TypeOK'
    BY DEF IGate
  <2>2. CASE notepending' = notepending /\ to # "flush"
    <3>1. Noted' \subseteq Noted /\ Flushing' \subseteq Flushing
      BY <1>3, <2>2 DEF Noted, Flushing
    <3> QED
      BY <1>4, <2>1, <3>1, SpareKept
  <2>3. CASE notepending[p] /\ notepending' = [notepending EXCEPT ![p] = FALSE]
    <3>1. p \in Noted /\ Noted' \subseteq Noted \ {p} /\ Flushing' \subseteq Flushing \cup {p}
      BY <1>3, <2>1, <2>3 DEF Noted, Flushing, TypeOK
    <3> QED
      BY <1>4, <2>1, <3>1, SpareKept
  <2> QED
    BY <1>5, <2>2, <2>3
<1> QED
  BY <1>3, <1>4, <1>6, QuietMsgs

(* So do wakeups,                                                          *)
LEMMA WakeupMsgs ==
  ASSUME IAll, IGate', NEW p \in Procs, WakeOther(p) \/ WakeNext(p)
  PROVE  IMsgs'
<1> USE DEF IAll
<1>1. /\ pc[p] \in {"wake", "wakenext"} /\ pc'[p] \in {"read", "return"}
      /\ \A q \in Procs \ {p} : pc'[q] = pc[q] \/ (pc[q] = "asleep" /\ pc'[q] = "woken")
  BY DEF WakeOther, WakeNext, Wakeup, IUse, NotHung
<1>2. /\ UNCHANGED <<mine, on, done, reply, flushed, flushtag, nextflush, server, wire, noted, notepending>>
      /\ \A q \in Procs \ {p} : other'[q] = other[q]
  BY DEF WakeOther, WakeNext, notes, site, rpcs, mnts, chans, IGate, TypeOK
<1>3. Spare \in Int /\ Spare' \in Int /\ Spare' >= Spare
  <2>1. Noted' \subseteq Noted /\ Flushing' \subseteq Flushing
    BY <1>1, <1>2 DEF Noted, Flushing
  <2> QED
    BY <1>2, <2>1, SpareKept DEF IGate
<1> QED
  BY <1>1, <1>2, <1>3, QuietMsgs

(* and notes.                                                              *)
LEMMA PostNoteMsgs ==
  ASSUME IAll, IGate', NEW p \in Procs, PostNote(p)
  PROVE  IMsgs'
<1> USE DEF IAll, IMsgs
<1>1. UNCHANGED <<pc, mine, on, done, reply, flushed, flushtag, nextflush, server, wire, other>>
  BY DEF PostNote, site, rpcs, mnts, chans
<1>2. Spare \in Int /\ Spare' \in Int /\ Spare' >= Spare
  <2>1. noted' = noted + 1 /\ Noted' \subseteq Noted \cup {p} /\ Flushing' \subseteq Flushing
    BY <1>1 DEF PostNote, Noted, Flushing, IGate, TypeOK
  <2> QED
    BY <2>1, SpareKept DEF IGate
<1>3. \A q \in Procs : \A m \in Mounts : Hand(q, m)' => Hand(q, m) /\ reply'[mine'[q]] = reply[mine[q]]
  BY <1>1 DEF Hand
<1>4. /\ \A m \in Mounts : \A x : (Flying(x, m)' => Flying(x, m)) /\ (Msg(x, m)' => Msg(x, m))
      /\ Ordered' /\ TagsDiffer'
  BY <1>1, <1>3, HandsDropped DEF ITags
<1>5. Asked'
  BY <1>1, <1>4, AskedKept DEF Awaits, InCopy
<1>6. Unsent' /\ Mine'
  BY <1>1, <1>4 DEF Unsent, Mine, InCopy
<1>7. ITags'
  <2>1. \A m \in Mounts : \A q \in Procs : HasFlushed(q, m)' => HasFlushed(q, m)
    BY <1>1 DEF HasFlushed
  <2>2. \A q \in Procs : pc'[q] = "flushwrite" => flushed'[mine'[q]]
    BY <1>1 DEF ITags, FlushTagged
  <2> QED
    BY <1>1, <1>2, <1>4, <2>1, <2>2, TagsKept
<1> QED
  BY <1>4, <1>5, <1>6, <1>7
-----------------------------------------------------------------------------
(* No step here posts or takes a note, or comes to mntflush.               *)
LEMMA SpareSame ==
  ASSUME IGate, IGate', NEW p \in Procs, UNCHANGED notes, pc'[p] # "flush",
         \A q \in Procs \ {p} : pc'[q] = pc[q] \/ pc'[q] # "flush"
  PROVE  Spare \in Int /\ Spare' \in Int /\ Spare' >= Spare
<1>1. Noted' \subseteq Noted /\ Flushing' \subseteq Flushing
  BY DEF Noted, Flushing, notes
<1> QED
  BY <1>1, SpareKept DEF IGate, notes

(* The reader takes the first message off the channel.                     *)
LEMMA ReadMsgs ==
  ASSUME IAll, IGate', NEW p \in Procs, Read(p)
  PROVE  IMsgs'
<1> USE DEF IAll, IMsgs
<1>1. PICK n \in Mounts, r \in Rpcs : n = on[p] /\ r = mine[p]
  BY DEF IGate, Life, Read, Goto
<1>2. pc[p] = "read" /\ pc'[p] = "mux" /\ \A q \in Procs \ {p} : pc'[q] = pc[q]
  BY GotoFacts DEF Read, Places, IGate
<1>3. /\ UNCHANGED <<mine, on, other, done, flushed, flushtag, nextflush, server, notes>>
      /\ ~done[r]
  BY <1>1 DEF Read, local, site, mnts
<1>4. \A q \in Procs : Reads(q) /\ on[q] = n => q = p
  BY <1>1, <1>2 DEF IGate, OneReader, Reads
<1>5. \A q \in Procs \ {p} : mine[q] # r
  BY <1>1 DEF IUse, IOwned, Alone
<1>6. PICK s, t : s = wire[n] /\ t = Tail(s)
  OBVIOUS
<1>7. /\ s \in Seq(Replies) /\ s # <<>> /\ wire'[n] = t
      /\ \A m \in Mounts \ {n} : wire'[m] = wire[m]
      /\ reply'[r] = Head(s) /\ \A d \in Rpcs \ {r} : reply'[d] = reply[d]
  BY <1>1, <1>6 DEF Read, IGate, TypeOK
<1>8. /\ Ord(t) /\ Within(Head(s), s)
      /\ \A y : Within(y, t) => Within(y, s) /\ Behind(Head(s), y)
  <2>1. Ord(s)
    BY <1>6 DEF Ordered
  <2> QED
    BY <1>6, <1>7, <2>1, OrdTail
<1>9. /\ \A q \in Procs : ~Hand(q, n) /\ (Hand(q, n)' <=> q = p)
      /\ \A q \in Procs : \A m \in Mounts \ {n} :
            (Hand(q, m)' <=> Hand(q, m)) /\ (Hand(q, m) => reply'[mine'[q]] = reply[mine[q]])
  <2>1. \A q \in Procs : ~Hand(q, n)
    BY <1>1, <1>2, <1>4 DEF Hand, Reads
  <2>2. \A q \in Procs : Hand(q, n)' <=> q = p
    BY <1>1, <1>2, <1>3, <2>1 DEF Hand
  <2>3. \A q \in Procs : \A m \in Mounts \ {n} : Hand(q, m)' <=> Hand(q, m)
    BY <1>1, <1>2, <1>3 DEF Hand
  <2>4. \A q \in Procs : \A m \in Mounts \ {n} : Hand(q, m) => reply'[mine'[q]] = reply[mine[q]]
    BY <1>1, <1>3, <1>5, <1>7 DEF Hand, IGate, Life
  <2> QED
    BY <2>1, <2>2, <2>3, <2>4
<1>10. \A m \in Mounts : \A x : Flying(x, m)' => Flying(x, m)
  <2>1. \A x : Flying(x, n)' => Flying(x, n)
    BY <1>1, <1>3, <1>6, <1>7, <1>8, <1>9 DEF Flying
  <2>2. \A m \in Mounts \ {n} : \A x : Flying(x, m)' => Flying(x, m)
    BY <1>7, <1>9 DEF Flying
  <2> QED
    BY <2>1, <2>2
<1>11. \A m \in Mounts : \A x : Msg(x, m)' => Msg(x, m)
  BY <1>3, <1>10 DEF Msg
<1>12. Ordered'
  <2>1. \A m \in Mounts : Ord(wire'[m])
    BY <1>7, <1>8 DEF Ordered
  <2>2. \A m \in Mounts : \A q \in Procs : Hand(q, m)' =>
            \A y : Within(y, wire'[m]) => Behind(reply'[mine'[q]], y)
    <3>1. \A q \in Procs : Hand(q, n)' =>
              \A y : Within(y, wire'[n]) => Behind(reply'[mine'[q]], y)
      BY <1>1, <1>3, <1>7, <1>8, <1>9
    <3>2. \A m \in Mounts \ {n} : \A q \in Procs : Hand(q, m)' =>
              \A y : Within(y, wire'[m]) => Behind(reply'[mine'[q]], y)
      BY <1>7, <1>9 DEF Ordered
    <3> QED
      BY <3>1, <3>2
  <2>3. \A m \in Mounts : \A t1 \in server'[m] : \A y : t1.kind = "T" /\ Flying(y, m)' => t1.call # y.call
    BY <1>3, <1>10 DEF Ordered
  <2> QED
    BY <2>1, <2>2, <2>3 DEF Ordered
<1>13. \A d : InCopy(d)' <=> InCopy(d)
  BY <1>2, <1>3 DEF InCopy
<1>14. Asked'
  <2>1. \A q \in Procs : \A m, d : Awaits(q, m, d) => Awaits(q, m, d)'
    BY <1>2, <1>3, <1>13 DEF Awaits
  <2> QED
    BY <1>3, <1>11, <2>1, AskedKept
<1>15. Unsent'
  BY <1>2, <1>3, <1>11, <1>13 DEF Unsent
<1>16. ITags'
  <2>1. \A m \in Mounts : \A q \in Procs : HasFlushed(q, m)' => HasFlushed(q, m)
    BY <1>2, <1>3 DEF HasFlushed
  <2>2. \A q \in Procs : pc'[q] = "flushwrite" => pc[q] = "flushwrite"
    BY <1>2
  <2>3. \A q \in Procs : pc'[q] = "flushwrite" => flushed'[mine'[q]]
    BY <1>3, <2>2 DEF ITags, FlushTagged
  <2>4. TagsDiffer'
    BY <1>3 DEF ITags, TagsDiffer
  <2>5. Spare \in Int /\ Spare' \in Int /\ Spare' >= Spare
    BY <1>2, <1>3, SpareSame
  <2> QED
    BY <1>3, <1>11, <2>1, <2>2, <2>3, <2>4, <2>5, TagsKept
<1>17. Mine'
  <2> SUFFICES ASSUME NEW q \in Procs, pc'[q] # "idle"
               PROVE  /\ done[mine[q]] => IsTo(reply'[mine[q]], q)
                      /\ \A w \in Procs : other[w] = mine[q] =>
                             /\ pc'[w] = "copy" => IsTo(reply'[mine[w]], q)
                             /\ pc'[w] = "finish" => IsTo(reply'[other[w]], q)
    BY <1>3 DEF Mine
  <2>1. pc[q] # "idle" /\ mine[q] \in Rpcs
    BY <1>2 DEF IGate, Life
  <2>2. done[mine[q]] => IsTo(reply'[mine[q]], q)
    BY <1>3, <1>7, <2>1 DEF Mine
  <2>3. ASSUME NEW w \in Procs, other[w] = mine[q], pc'[w] \in {"copy", "finish"}
        PROVE  reply'[mine[w]] = reply[mine[w]] /\ reply'[other[w]] = reply[other[w]] /\ pc[w] = pc'[w]
    <3>1. w # p /\ pc[w] = pc'[w] /\ mine[w] \in Rpcs /\ mine[w] # r
      BY <1>2, <1>5, <2>3 DEF IGate, Life
    <3>2. PICK o \in Procs : mine[o] = other[w] /\ on[o] = on[w]
      BY <2>3, <3>1 DEF IUse, IOwned, Copying
    <3>3. mine[q] # r
      <4> SUFFICES ASSUME mine[q] = r PROVE FALSE
        OBVIOUS
      <4>1. o = p
        BY <1>5, <2>3, <3>2
      <4>2. Reads(w) /\ on[w] = n
        BY <1>1, <2>3, <3>1, <3>2, <4>1 DEF Reads
      <4> QED
        BY <1>4, <3>1, <4>2
    <3> QED
      BY <1>7, <2>1, <2>3, <3>1, <3>3
  <2> QED
    BY <2>1, <2>2, <2>3 DEF Mine
<1> QED
  BY <1>12, <1>14, <1>15, <1>16, <1>17

(* The reader finds whose message it is, or that it is nobody's.           *)
LEMMA MuxMsgs ==
  ASSUME IAll, IGate', NEW p \in Procs, Mux(p)
  PROVE  IMsgs'
<1> USE DEF IAll, IMsgs
<1>1. PICK n \in Mounts, r \in Rpcs : n = on[p] /\ r = mine[p]
  BY DEF IGate, Life, Mux, Found, Goto
<1>2. PICK x, q : x = reply[r] /\ q = Asker(n, x.tag)
  OBVIOUS
<1>3. /\ pc[p] = "mux" /\ \A v \in Procs \ {p} : pc'[v] = pc[v]
      /\ pc'[p] = IF q \in {None, r} THEN "read" ELSE "copy"
  BY <1>1, <1>2, GotoFacts DEF Mux, Found, Places, IGate
<1>4. /\ UNCHANGED <<mine, on, reply, flushed, flushtag, nextflush, server, wire, notes>>
      /\ q = r => done' = [done EXCEPT ![r] = TRUE]
      /\ q # r => done' = done
      /\ q \in {None, r} => other' = other
      /\ q \notin {None, r} => other' = [other EXCEPT ![p] = q]
  BY <1>1, <1>2 DEF Mux, Found, site, chans
<1>5. Hand(p, n) /\ Flying(x, n) /\ Msg(x, n) /\ \A v \in Procs : Reads(v) /\ on[v] = n => v = p
  BY <1>1, <1>2, <1>3 DEF Hand, Flying, Msg, IGate, OneReader, Reads
<1>6. \A v \in Procs : \A m \in Mounts :
         Hand(v, m)' => Hand(v, m) /\ reply'[mine'[v]] = reply[mine[v]] /\ v # p
  BY <1>3, <1>4 DEF Hand
<1>7. /\ \A m \in Mounts : \A y : (Flying(y, m)' => Flying(y, m)) /\ (Msg(y, m)' => Msg(y, m))
      /\ Ordered' /\ TagsDiffer'
  BY <1>4, <1>6, HandsDropped DEF ITags
<1>8. ITags'
  <2>1. \A m \in Mounts : \A v \in Procs : HasFlushed(v, m)' => HasFlushed(v, m)
    BY <1>3, <1>4 DEF HasFlushed
  <2>2. \A v \in Procs : pc'[v] = "flushwrite" => pc[v] = "flushwrite"
    BY <1>3
  <2>3. \A v \in Procs : pc'[v] = "flushwrite" => flushed'[mine'[v]]
    BY <1>4, <2>2 DEF ITags, FlushTagged
  <2>4. Spare \in Int /\ Spare' \in Int /\ Spare' >= Spare
    BY <1>3, <1>4, SpareSame
  <2> QED
    BY <1>4, <1>7, <2>1, <2>2, <2>3, <2>4, TagsKept
<1>9. CASE q = None
  <2>1. UNCHANGED <<done, other>> /\ pc'[p] = "read"
    BY <1>1, <1>3, <1>4, <1>9, RpcsAreNumbers
  <2>2. \A d : InCopy(d)' <=> InCopy(d)
    BY <1>3, <2>1 DEF InCopy
  <2>3. \A v \in Procs : \A m, d : Awaits(v, m, d) => Awaits(v, m, d)'
    BY <1>3, <1>4, <2>1, <2>2 DEF Awaits
  <2>4. Asked'
    BY <1>4, <1>7, <2>3, AskedKept
  <2>5. Unsent'
    BY <1>3, <1>4, <1>7, <2>1, <2>2 DEF Unsent
  <2>6. Mine'
    BY <1>3, <1>4, <2>1 DEF Mine
  <2> QED
    BY <1>7, <1>8, <2>4, <2>5, <2>6
<1>10. CASE q # None
  <2>1. q \in Rpcs /\ Queued(q, n) /\ Matches(q, x.tag)
    BY <1>2, <1>10, AskerFacts DEF IGate
  <2>2. PICK o \in Procs : mine[o] = q /\ on[o] = n
    BY <2>1 DEF IUse, IOwned, QueueExact, Owned
  <2>3. /\ ~done[q] /\ ~InCopy(q) /\ pc[o] # "idle"
        /\ \A v \in Procs : mine[v] = q => v = o
    BY <2>1, <2>2, RpcsAreNumbers DEF IUse, IOwned, QueueExact, Alone, IGate, Life
  <2>4. ForCall(x, n) /\ x \in Replies
    BY <1>5, MsgTypes DEF Asked
  <2>5. IsTo(x, o)
    <3>1. x.kind # "none"
      BY <2>4 DEF ForCall
    <3>2. CASE q = x.tag
      <4>1. ~IsFlushTag(x.tag)
        BY <2>1, <3>2, RpcsAreNumbers DEF IsFlushTag, Rpcs
      <4>2. x.call \in Procs /\ mine[x.call] = q
        BY <2>4, <3>2, <4>1 DEF ForCall, Awaits
      <4> QED
        BY <2>3, <3>1, <4>2 DEF IsTo
    <3>3. CASE flushed[q] /\ flushtag[q] = x.tag
      <4>1. HasFlushed(o, n)
        BY <2>2, <2>3, <3>3 DEF HasFlushed
      <4> QED
        BY <1>5, <2>2, <3>1, <3>3, <4>1 DEF ITags, FlushIsMine, IsTo
    <3> QED
      BY <2>1, <3>2, <3>3 DEF Matches
  <2>6. pc[o] # "send"
    BY <1>5, <2>5 DEF Unsent, IsTo
  <2>7. ASSUME NEW m \in Mounts, NEW y, Msg(y, m)', y.kind \in {"T", "R"}, y.call \in Procs,
               Awaits(y.call, m, y.tag)
        PROVE  y.tag # q
    <3> SUFFICES ASSUME y.tag = q PROVE FALSE
      OBVIOUS
    <3>1. y.call = o /\ m = n
      BY <2>2, <2>3, <2>7 DEF Awaits
    <3>2. x.call = y.call
      BY <2>5, <3>1 DEF IsTo
    <3>3. ~(y \in server[n])
      <4> SUFFICES ASSUME y \in server[n] PROVE FALSE
        OBVIOUS
      <4>1. y.kind = "T"
        BY <2>7, MsgTypes DEF Requests
      <4> QED
        BY <1>5, <3>2, <4>1 DEF Ordered
    <3>4. Flying(y, n)'
      BY <1>4, <2>7, <3>1, <3>3 DEF Msg
    <3>5. y.kind = "R"
      <4>1. Flying(y, n)
        BY <1>7, <3>4
      <4> QED
        BY <2>7, <4>1, MsgTypes DEF Replies
    <3>6. ~Within(y, wire[n])
      BY <1>1, <1>2, <1>5, <3>2, <3>5 DEF Ordered, Behind
    <3>7. PICK v \in Procs : Hand(v, n)'
      BY <1>4, <3>4, <3>6 DEF Flying
    <3>8. Hand(v, n) /\ v # p
      BY <1>6, <3>7
    <3> QED
      BY <1>5, <3>8 DEF Hand, Reads
  <2>8. \A d \in Rpcs : d # q => (done'[d] <=> done[d]) /\ (InCopy(d)' <=> InCopy(d))
    <3>1. \A d \in Rpcs : d # q => (done'[d] <=> done[d])
      BY <1>1, <1>4 DEF IGate, TypeOK
    <3>2. \A d : d # q => (InCopy(d)' <=> InCopy(d))
      BY <1>3, <1>4 DEF InCopy, IGate, TypeOK
    <3> QED
      BY <3>1, <3>2
  <2>9. Asked'
    <3>1. \A m \in Mounts : \A y : Msg(y, m)' /\ y.kind \in {"T", "R"} /\ y.call \in Procs
             /\ Awaits(y.call, m, y.tag) => Awaits(y.call, m, y.tag)'
      <4> SUFFICES ASSUME NEW m \in Mounts, NEW y, Msg(y, m)', y.kind \in {"T", "R"},
                          y.call \in Procs, Awaits(y.call, m, y.tag)
                   PROVE  Awaits(y.call, m, y.tag)'
        OBVIOUS
      <4>1. y.tag \in Rpcs /\ y.tag # q
        BY <2>7 DEF Awaits, IGate, Life
      <4>2. pc'[y.call] \notin {"idle", "send"}
        BY <1>3 DEF Awaits
      <4> QED
        BY <1>4, <2>8, <4>1, <4>2 DEF Awaits
    <3> QED
      BY <1>4, <1>7, <3>1, AskedKept
  <2>10. Unsent'
    <3>1. \A v \in Procs : pc'[v] \in {"idle", "send"} => pc[v] = pc'[v]
      BY <1>3
    <3>2. \A v \in Procs : pc'[v] \in {"idle", "send"} => \A m \in Mounts : \A y : Msg(y, m)' => y.call # v
      BY <1>7, <3>1 DEF Unsent
    <3>3. ASSUME NEW v \in Procs, pc'[v] = "send"
          PROVE  ~done'[mine'[v]] /\ ~InCopy(mine[v])'
      <4>1. PICK d \in Rpcs : d = mine[v]
        BY <3>1, <3>3 DEF IGate, Life
      <4>2. d # q /\ ~done[d] /\ ~InCopy(d)
        BY <2>3, <2>6, <3>1, <3>3, <4>1 DEF Unsent
      <4>3. ~done'[d] /\ ~InCopy(d)'
        BY <2>8, <4>2
      <4> QED
        BY <1>4, <4>1, <4>3 DEF InCopy
    <3> QED
      BY <3>2, <3>3 DEF Unsent
  <2>11. Mine'
    <3> SUFFICES ASSUME NEW v \in Procs, pc'[v] # "idle"
                 PROVE  /\ done'[mine[v]] => IsTo(reply[mine[v]], v)
                        /\ \A w \in Procs : other'[w] = mine[v] =>
                               /\ pc'[w] = "copy" => IsTo(reply[mine[w]], v)
                               /\ pc'[w] = "finish" => IsTo(reply[other'[w]], v)
      BY <1>4 DEF Mine
    <3>1. pc[v] # "idle" /\ mine[v] \in Rpcs
      BY <1>3 DEF IGate, Life
    <3>2. done'[mine[v]] => IsTo(reply[mine[v]], v)
      <4>1. CASE done[mine[v]]
        BY <3>1, <4>1 DEF Mine
      <4>2. CASE done'[mine[v]] /\ ~done[mine[v]]
        <5>1. q = r /\ mine[v] = r
          BY <1>1, <1>4, <3>1, <4>2 DEF IGate, TypeOK
        <5> QED
          BY <1>2, <2>3, <2>5, <5>1
      <4> QED
        BY <4>1, <4>2
    <3>3. ASSUME NEW w \in Procs, other'[w] = mine[v], pc'[w] \in {"copy", "finish"}
          PROVE  /\ pc'[w] = "copy" => IsTo(reply[mine[w]], v)
                 /\ pc'[w] = "finish" => IsTo(reply[other'[w]], v)
      <4>1. CASE w # p
        <5>1. pc[w] = pc'[w] /\ other'[w] = other[w]
          BY <1>3, <1>4, <4>1 DEF IGate, TypeOK
        <5> QED
          BY <3>1, <3>3, <5>1 DEF Mine
      <4>2. CASE w = p
        <5>1. pc'[p] = "copy" /\ other'[p] = q
          BY <1>3, <1>4, <3>3, <4>2 DEF IGate, TypeOK
        <5>2. v = o
          BY <2>3, <3>3, <4>2, <5>1
        <5> QED
          BY <1>1, <1>2, <2>5, <4>2, <5>1, <5>2
      <4> QED
        BY <4>1, <4>2
    <3> QED
      BY <3>2, <3>3
  <2> QED
    BY <1>7, <1>8, <2>9, <2>10, <2>11
<1> QED
  BY <1>9, <1>10

(* Tags and flushes are as they were, at a step of a reader.               *)
LEMMA ReaderTags ==
  ASSUME IAll, IGate', NEW p \in Procs, UNCHANGED <<mine, on, flushed, flushtag, nextflush, notes>>,
         pc[p] # "idle", pc'[p] \notin {"idle", "flush", "flushwrite"}, \A q \in Procs \ {p} : pc'[q] = pc[q],
         \A m \in Mounts : \A x : Msg(x, m)' => Msg(x, m), TagsDiffer'
  PROVE  ITags'
<1> USE DEF IAll, IMsgs
<1>1. \A m \in Mounts : \A q \in Procs : HasFlushed(q, m)' => HasFlushed(q, m)
  BY DEF HasFlushed
<1>2. \A q \in Procs : pc'[q] = "flushwrite" => pc[q] = "flushwrite"
  OBVIOUS
<1>3. \A q \in Procs : pc'[q] = "flushwrite" => flushed'[mine'[q]]
  BY <1>2 DEF ITags, FlushTagged
<1>4. Spare \in Int /\ Spare' \in Int /\ Spare' >= Spare
  BY SpareSame
<1> QED
  BY <1>1, <1>2, <1>3, <1>4, TagsKept

(* It gives its owner the reply ...                                        *)
LEMMA CopyMsgs ==
  ASSUME IAll, IGate', NEW p \in Procs, Copy(p)
  PROVE  IMsgs'
<1> USE DEF IAll, IMsgs
<1>1. PICK n \in Mounts, d \in Rpcs : n = on[p] /\ d = other[p]
  BY DEF IGate, Life, Copy, Goto
<1>2. pc[p] = "copy" /\ pc'[p] = "finish" /\ \A q \in Procs \ {p} : pc'[q] = pc[q]
  BY GotoFacts DEF Copy, Places, IGate
<1>3. /\ UNCHANGED <<mine, on, other, done, flushed, flushtag, nextflush, server, wire, notes>>
      /\ reply'[d] = reply[mine[p]] /\ \A e \in Rpcs \ {d} : reply'[e] = reply[e]
  BY <1>1 DEF Copy, local, site, mnts, chans, IGate, TypeOK
<1>4. \A q \in Procs : Reads(q) /\ on[q] = n => q = p
  BY <1>1, <1>2 DEF IGate, OneReader, Reads
<1>5. PICK o \in Procs : /\ o # p /\ mine[o] = d /\ on[o] = n /\ ~done[d]
                         /\ \A q \in Procs : mine[q] = d => q = o
  <2>1. PICK o \in Procs : o # p /\ mine[o] = d /\ on[o] = n /\ ~done[d]
    BY <1>1, <1>2 DEF IUse, IOwned, Copying
  <2> QED
    BY <2>1 DEF IUse, IOwned, Alone
<1>6. ~Reads(o)
  BY <1>4, <1>5
<1>7. \A q \in Procs : \A m \in Mounts : Hand(q, m)' => Hand(q, m) /\ reply'[mine'[q]] = reply[mine[q]]
  <2> SUFFICES ASSUME NEW q \in Procs, NEW m \in Mounts, Hand(q, m)'
               PROVE  Hand(q, m) /\ reply'[mine[q]] = reply[mine[q]]
    BY <1>3
  <2>1. Hand(q, m) /\ q # o /\ mine[q] \in Rpcs
    BY <1>2, <1>3, <1>6 DEF Hand, Reads, IGate, Life
  <2> QED
    BY <1>3, <1>5, <2>1
<1>8. /\ \A m \in Mounts : \A y : (Flying(y, m)' => Flying(y, m)) /\ (Msg(y, m)' => Msg(y, m))
      /\ Ordered' /\ TagsDiffer'
  BY <1>3, <1>7, HandsDropped DEF ITags
<1>9. \A e : InCopy(e)' <=> InCopy(e)
  BY <1>2, <1>3 DEF InCopy
<1>10. Asked'
  <2>1. \A q \in Procs : \A m, e : Awaits(q, m, e) => Awaits(q, m, e)'
    BY <1>2, <1>3, <1>9 DEF Awaits
  <2> QED
    BY <1>3, <1>8, <2>1, AskedKept
<1>11. Unsent'
  BY <1>2, <1>3, <1>8, <1>9 DEF Unsent
<1>12. ITags'
  BY <1>2, <1>3, <1>8, ReaderTags
<1>13. Mine'
  <2> SUFFICES ASSUME NEW v \in Procs, pc'[v] # "idle"
               PROVE  /\ done[mine[v]] => IsTo(reply'[mine[v]], v)
                      /\ \A w \in Procs : other[w] = mine[v] =>
                             /\ pc'[w] = "copy" => IsTo(reply'[mine[w]], v)
                             /\ pc'[w] = "finish" => IsTo(reply'[other[w]], v)
    BY <1>3 DEF Mine
  <2>1. pc[v] # "idle" /\ mine[v] \in Rpcs
    BY <1>2 DEF IGate, Life
  <2>2. done[mine[v]] => IsTo(reply'[mine[v]], v)
    BY <1>3, <1>5, <2>1 DEF Mine
  <2>3. ASSUME NEW w \in Procs, other[w] = mine[v], pc'[w] \in {"copy", "finish"}
        PROVE  /\ pc'[w] = "copy" => IsTo(reply'[mine[w]], v)
               /\ pc'[w] = "finish" => IsTo(reply'[other[w]], v)
    <3>1. CASE w = p
      <4>1. IsTo(reply[mine[p]], v)
        BY <1>2, <2>1, <2>3, <3>1 DEF Mine
      <4> QED
        BY <1>1, <1>2, <1>3, <3>1, <4>1
    <3>2. CASE w # p
      <4>1. pc[w] = pc'[w] /\ pc[w] \in {"copy", "finish"}
        BY <1>2, <2>3, <3>2
      <4>2. other[w] # d
        BY <1>1, <1>2, <3>2, <4>1, OneCopier DEF IUse
      <4>3. mine[w] \in Rpcs /\ mine[w] # d /\ other[w] \in Rpcs
        BY <1>5, <1>6, <4>1 DEF IGate, Life, Reads
      <4> QED
        BY <1>3, <2>1, <2>3, <4>1, <4>2, <4>3 DEF Mine
    <3> QED
      BY <3>1, <3>2
  <2> QED
    BY <2>2, <2>3
<1> QED
  BY <1>8, <1>10, <1>11, <1>12, <1>13

(* ... and says that it is done.                                           *)
LEMMA FinishMsgs ==
  ASSUME IAll, IGate', NEW p \in Procs, Finish(p)
  PROVE  IMsgs'
<1> USE DEF IAll, IMsgs
<1>1. PICK d \in Rpcs : d = other[p]
  BY DEF IGate, Life, Finish, Goto
<1>2. pc[p] = "finish" /\ pc'[p] = "wake" /\ \A q \in Procs \ {p} : pc'[q] = pc[q]
  BY GotoFacts DEF Finish, Places, IGate
<1>3. /\ UNCHANGED <<mine, on, other, reply, flushed, flushtag, nextflush, server, wire, notes>>
      /\ \A e \in Rpcs \ {d} : done'[e] <=> done[e]
  BY <1>1 DEF Finish, local, site, mnts, chans, IGate, TypeOK
<1>4. InCopy(d)
  BY <1>1, <1>2 DEF InCopy
<1>5. \A q \in Procs : \A m \in Mounts : Hand(q, m)' => Hand(q, m) /\ reply'[mine'[q]] = reply[mine[q]]
  BY <1>2, <1>3 DEF Hand
<1>6. /\ \A m \in Mounts : \A y : (Flying(y, m)' => Flying(y, m)) /\ (Msg(y, m)' => Msg(y, m))
      /\ Ordered' /\ TagsDiffer'
  BY <1>3, <1>5, HandsDropped DEF ITags
<1>7. \A e : InCopy(e)' => InCopy(e)
  BY <1>2, <1>3 DEF InCopy
<1>8. Asked'
  <2>1. ASSUME NEW q \in Procs, NEW m, NEW e, Awaits(q, m, e) PROVE Awaits(q, m, e)'
    <3>1. e \in Rpcs /\ e # d
      BY <1>4, <2>1 DEF Awaits, IGate, Life
    <3> QED
      BY <1>2, <1>3, <1>7, <2>1, <3>1 DEF Awaits
  <2> QED
    BY <1>3, <1>6, <2>1, AskedKept
<1>9. Unsent'
  <2>1. ASSUME NEW v \in Procs, pc'[v] = "send"
        PROVE  ~done'[mine'[v]] /\ ~InCopy(mine[v])'
    <3>1. pc[v] = "send"
      BY <1>2, <2>1
    <3>2. PICK e \in Rpcs : e = mine[v]
      BY <3>1 DEF IGate, Life
    <3>3. ~done[e] /\ ~InCopy(e)
      BY <3>1, <3>2 DEF Unsent
    <3>4. ~done'[e] /\ ~InCopy(e)'
      BY <1>3, <1>4, <1>7, <3>3
    <3> QED
      BY <1>3, <3>2, <3>4 DEF InCopy
  <2> QED
    BY <1>2, <1>6, <2>1 DEF Unsent
<1>10. ITags'
  BY <1>2, <1>3, <1>6, ReaderTags
<1>11. Mine'
  <2> SUFFICES ASSUME NEW v \in Procs, pc'[v] # "idle"
               PROVE  /\ done'[mine[v]] => IsTo(reply[mine[v]], v)
                      /\ \A w \in Procs : other[w] = mine[v] =>
                             /\ pc'[w] = "copy" => IsTo(reply[mine[w]], v)
                             /\ pc'[w] = "finish" => IsTo(reply[other[w]], v)
    BY <1>3 DEF Mine
  <2>1. pc[v] # "idle" /\ mine[v] \in Rpcs
    BY <1>2 DEF IGate, Life
  <2>2. CASE mine[v] = d
    <3>1. IsTo(reply[d], v)
      BY <1>1, <1>2, <2>1, <2>2 DEF Mine
    <3> QED
      BY <1>2, <2>1, <2>2, <3>1 DEF Mine
  <2>3. CASE mine[v] # d
    BY <1>2, <1>3, <2>1, <2>3 DEF Mine
  <2> QED
    BY <2>2, <2>3
<1> QED
  BY <1>6, <1>8, <1>9, <1>10, <1>11
-----------------------------------------------------------------------------
(* A message to the server under a tag that nothing there has.             *)
LEMMA SentMsgs ==
  ASSUME IAll, IGate', NEW p \in Procs, NEW n \in Mounts, NEW x, n = on[p],
         UNCHANGED <<mine, on, other, done, reply, flushed, flushtag, nextflush, wire, notes>>,
         server' = [server EXCEPT ![n] = @ \cup {x}],
         pc[p] \in {"send", "flushwrite"}, pc'[p] \in {"gate", "read"},
         \A q \in Procs \ {p} : pc'[q] = pc[q],
         x.call = p, x.kind = "T" => x.oldtag = 0,
         ForCall(x, n)',
         \A y : x.kind = "T" /\ Flying(y, n) => y.call # p,
         \A q \in Procs : HasFlushed(q, n) /\ x.tag = flushtag[mine[q]] => q = p,
         \A t \in server[n] : t.tag # x.tag,
         \A u \in Nat : Given(n, u) => x.tag < Tagfls + u
  PROVE  IMsgs'
<1> USE DEF IAll, IMsgs
<1>1. /\ server'[n] = server[n] \cup {x}
      /\ \A m \in Mounts \ {n} : server'[m] = server[m]
  BY DEF IGate, TypeOK
<1>2. \A q \in Procs : \A m \in Mounts : Hand(q, m)' <=> Hand(q, m)
  BY DEF Hand
<1>3. \A m \in Mounts : \A y : Flying(y, m)' <=> Flying(y, m)
  BY <1>2 DEF Flying
<1>4. \A m \in Mounts : \A y : Msg(y, m)' => Msg(y, m) \/ (m = n /\ y = x)
  BY <1>1, <1>3 DEF Msg
<1>5. \A e : InCopy(e)' <=> InCopy(e)
  BY DEF InCopy
<1>6. Asked'
  <2>1. \A q \in Procs : \A m, e : Awaits(q, m, e) => Awaits(q, m, e)'
    BY <1>5 DEF Awaits
  <2>2. \A m \in Mounts : \A y : Msg(y, m)' => ForCall(y, m)'
    BY <1>4, <2>1 DEF Asked, ForCall
  <2>3. \A m \in Mounts : \A t \in server'[m] : t.kind = "T" => t.oldtag = 0
    BY <1>1 DEF Asked
  <2> QED
    BY <2>2, <2>3 DEF Asked
<1>7. Unsent'
  <2>1. \A q \in Procs : pc'[q] \in {"idle", "send"} => q # p /\ pc'[q] = pc[q]
    OBVIOUS
  <2>2. \A q \in Procs : pc'[q] \in {"idle", "send"} => \A m \in Mounts : \A y : Msg(y, m)' => y.call # q
    BY <1>4, <2>1 DEF Unsent
  <2> QED
    BY <1>5, <2>1, <2>2 DEF Unsent
<1>8. Ordered'
  <2>1. \A m \in Mounts : \A q \in Procs : Hand(q, m)' =>
            \A y : Within(y, wire'[m]) => Behind(reply'[mine'[q]], y)
    BY <1>2 DEF Ordered
  <2>2. \A m \in Mounts : \A t \in server'[m] : \A y : t.kind = "T" /\ Flying(y, m)' => t.call # y.call
    BY <1>1, <1>3 DEF Ordered
  <2> QED
    BY <2>1, <2>2 DEF Ordered
<1>9. \A m \in Mounts : \A q \in Procs : HasFlushed(q, m)' <=> HasFlushed(q, m)
  BY DEF HasFlushed
<1>10. ITags'
  <2>1. FlushesDiffer'
    BY <1>9 DEF ITags, FlushesDiffer
  <2>2. FlushIsMine'
    BY <1>4, <1>9 DEF ITags, FlushIsMine
  <2>3. FlushTagged'
    BY DEF ITags, FlushTagged
  <2>4. AllGiven'
    <3> SUFFICES ASSUME NEW m \in Mounts PROVE \E u \in Nat : Given(m, u)'
      BY DEF AllGiven
    <3>1. PICK u \in Nat : Given(m, u)
      BY DEF ITags, AllGiven
    <3>2. Spare \in Int /\ Spare' \in Int /\ Spare' >= Spare
      BY SpareSame
    <3>3. u <= Spare' /\ nextflush'[m] = IF u = Tagend - Tagfls THEN Tagfls ELSE Tagfls + u
      BY <3>1, <3>2 DEF Given
    <3>4. \A y : Msg(y, m)' => y.tag < Tagfls + u
      BY <1>4, <3>1 DEF Given
    <3>5. \A q \in Procs : HasFlushed(q, m)' => flushtag'[mine'[q]] < Tagfls + u
      BY <1>9, <3>1 DEF Given
    <3> QED
      BY <3>3, <3>4, <3>5 DEF Given
  <2>5. TagsDiffer'
    BY <1>1 DEF ITags, TagsDiffer
  <2> QED
    BY <2>1, <2>2, <2>3, <2>4, <2>5 DEF ITags
<1>11. Mine'
  BY DEF Mine
<1> QED
  BY <1>6, <1>7, <1>8, <1>10, <1>11

(* The tags of requests are not those of flushes.                          *)
LEMMA RpcTags ==
  ASSUME NEW r \in Rpcs
  PROVE  /\ ~IsFlushTag(r) /\ r < Tagfls /\ r \in Nat
         /\ \A u \in Nat : r < Tagfls + u
         /\ \A g : IsFlushTag(g) => r # g
<1>1. /\ r \in Nat /\ r >= 1 /\ r <= Cardinality(Procs)
      /\ Tagfls \in Nat /\ Cardinality(Procs) \in Nat /\ Tagfls > Cardinality(Procs)
  BY RpcsAreNumbers DEF Rpcs
<1> QED
  BY <1>1 DEF IsFlushTag

(* A request is sent under the number of the call's Mntrpc.                *)
LEMMA SendMsgs ==
  ASSUME IAll, IGate', NEW p \in Procs, Send(p)
  PROVE  IMsgs'
<1> USE DEF IAll, IMsgs
<1>1. PICK n \in Mounts, r \in Rpcs : n = on[p] /\ r = mine[p]
  BY DEF IGate, Life, Send, Goto
<1>2. PICK x : x = [kind |-> "T", tag |-> r, oldtag |-> 0, call |-> p]
  OBVIOUS
<1>3. x.kind = "T" /\ x.tag = r /\ x.oldtag = 0 /\ x.call = p
  BY <1>2
<1>4. pc[p] = "send" /\ pc'[p] = "gate" /\ \A q \in Procs \ {p} : pc'[q] = pc[q]
  BY GotoFacts DEF Send, Places, IGate
<1>5. /\ UNCHANGED <<mine, on, other, done, reply, flushed, flushtag, nextflush, wire, notes>>
      /\ server' = [server EXCEPT ![n] = @ \cup {x}]
  BY <1>1, <1>2 DEF Send, Sent, local, site, rpcs, mnts
<1>6. ForCall(x, n)'
  <2>1. ~done[r] /\ ~InCopy(r)
    BY <1>1, <1>4 DEF Unsent
  <2>2. ~InCopy(r)'
    BY <1>4, <1>5, <2>1 DEF InCopy
  <2> QED
    BY <1>1, <1>3, <1>4, <1>5, <2>1, <2>2 DEF ForCall, Awaits
<1>7. \A y : x.kind = "T" /\ Flying(y, n) => y.call # p
  BY <1>4 DEF Unsent, Msg
<1>8. \A q \in Procs : HasFlushed(q, n) /\ x.tag = flushtag[mine[q]] => q = p
  BY <1>3, RpcTags DEF HasFlushed, ITags, FlushTagged
<1>9. \A t \in server[n] : t.tag # x.tag
  <2> SUFFICES ASSUME NEW t \in server[n], t.tag = r PROVE FALSE
    BY <1>3
  <2>1. ForCall(t, n)
    BY DEF Asked, Msg
  <2>2. t.call \in Procs /\ mine[t.call] = r
    BY <2>1, RpcTags DEF ForCall, Awaits
  <2>3. t.call = p
    BY <1>1, <2>2 DEF IUse, IOwned, Alone
  <2> QED
    BY <1>4, <2>3 DEF Unsent, Msg
<1>10. \A u \in Nat : Given(n, u) => x.tag < Tagfls + u
  BY <1>3, RpcTags
<1> QED
  BY <1>1, <1>3, <1>4, <1>5, <1>6, <1>7, <1>8, <1>9, <1>10, SentMsgs

(* A flush is sent under a tag of its own.                                 *)
LEMMA FlushSendMsgs ==
  ASSUME IAll, IGate', NEW p \in Procs, FlushSend(p)
  PROVE  IMsgs'
<1> USE DEF IAll, IMsgs
<1>1. PICK n \in Mounts, r \in Rpcs : n = on[p] /\ r = mine[p]
  BY DEF IGate, Life, FlushSend, Goto
<1>2. PICK x : x = Tflush(p)
  OBVIOUS
<1>3. x.kind = "Tflush" /\ x.tag = flushtag[mine[p]] /\ x.call = p
  BY <1>2 DEF Tflush
<1>4. PICK to \in {"gate", "read"} : Goto(p, "flushwrite", to)
  BY DEF FlushSend, Resumed, Goto, IGate, Life
<1>5. pc[p] = "flushwrite" /\ pc'[p] = to /\ \A q \in Procs \ {p} : pc'[q] = pc[q]
  BY <1>4, GotoFacts DEF Places, IGate
<1>6. /\ UNCHANGED <<mine, on, other, done, reply, flushed, flushtag, nextflush, wire, notes>>
      /\ server' = [server EXCEPT ![n] = @ \cup {x}]
  BY <1>1, <1>2 DEF FlushSend, Sent, local, site, rpcs, mnts
<1>7. HasFlushed(p, n) /\ IsFlushTag(x.tag)
  BY <1>1, <1>3, <1>5 DEF HasFlushed, ITags, FlushTagged
<1>8. ForCall(x, n)'
  BY <1>3, <1>7 DEF ForCall
<1>9. \A q \in Procs : HasFlushed(q, n) /\ x.tag = flushtag[mine[q]] => q = p
  BY <1>3, <1>7 DEF ITags, FlushesDiffer
<1>10. \A t \in server[n] : t.tag # x.tag
  BY <1>3, <1>5, <1>7 DEF ITags, FlushIsMine, Msg
<1>11. \A u \in Nat : Given(n, u) => x.tag < Tagfls + u
  BY <1>3, <1>7 DEF Given
<1> QED
  BY <1>1, <1>3, <1>5, <1>6, <1>8, <1>9, <1>10, <1>11, SentMsgs

(* mntflush takes a tag that was not used before.                          *)
LEMMA FlushTagMsgs ==
  ASSUME TagsSuffice, IAll, IGate', NEW p \in Procs, FlushTag(p)
  PROVE  IMsgs'
<1> USE DEF IAll, IMsgs
<1>1. PICK n \in Mounts, r \in Rpcs : n = on[p] /\ r = mine[p]
  BY DEF IGate, Life, FlushTag, Goto
<1>2. pc[p] = "flush" /\ pc'[p] = "flushwrite" /\ \A q \in Procs \ {p} : pc'[q] = pc[q]
  BY GotoFacts DEF FlushTag, Places, IGate
<1>3. PICK g : g = nextflush[n]
  OBVIOUS
<1>4. /\ UNCHANGED <<mine, on, other, done, reply, server, wire, notes>>
      /\ flushed'[r] /\ \A e \in Rpcs \ {r} : flushed'[e] <=> flushed[e]
      /\ flushtag'[r] = g /\ \A e \in Rpcs \ {r} : flushtag'[e] = flushtag[e]
      /\ nextflush'[n] = TagAfter(g) /\ \A m \in Mounts \ {n} : nextflush'[m] = nextflush[m]
  BY <1>1, <1>3 DEF FlushTag, local, site, chans, IGate, TypeOK
<1>5. \A q \in Procs \ {p} : pc[q] # "idle" => mine[q] \in Rpcs \ {r}
  BY <1>1 DEF IUse, IOwned, Alone, IGate, Life
<1>6. \A q \in Procs : \A m \in Mounts : Hand(q, m)' => Hand(q, m) /\ reply'[mine'[q]] = reply[mine[q]]
  BY <1>2, <1>4 DEF Hand
<1>7. /\ \A m \in Mounts : \A y : (Flying(y, m)' => Flying(y, m)) /\ (Msg(y, m)' => Msg(y, m))
      /\ Ordered' /\ TagsDiffer'
  BY <1>4, <1>6, HandsDropped DEF ITags
<1>8. \A e : InCopy(e)' <=> InCopy(e)
  BY <1>2, <1>4 DEF InCopy
<1>9. Asked'
  <2>1. \A q \in Procs : \A m, e : Awaits(q, m, e) => Awaits(q, m, e)'
    BY <1>2, <1>4, <1>8 DEF Awaits
  <2> QED
    BY <1>4, <1>7, <2>1, AskedKept
<1>10. Unsent'
  BY <1>2, <1>4, <1>7, <1>8 DEF Unsent
<1>11. Mine'
  BY <1>2, <1>4 DEF Mine
<1>12. Spare \in Int /\ Spare' \in Int /\ Spare' >= Spare + 1 /\ Spare' <= Notes
  <2>1. p \in Flushing /\ Flushing' \subseteq Flushing \ {p}
    BY <1>2 DEF Flushing
  <2>2. TypeOK /\ TypeOK'
    BY DEF IGate
  <2> QED
    BY <1>4, <2>1, <2>2, SpareTaken DEF notes
<1>13. PICK u \in Nat : Given(n, u)
  BY DEF ITags, AllGiven
<1>14. Tagfls \in Nat /\ Tagend \in Nat /\ Notes \in Nat /\ Notes <= Tagend - Tagfls
  BY RpcAssumption DEF TagsSuffice
<1>15. u <= Spare /\ nextflush[n] = IF u = Tagend - Tagfls THEN Tagfls ELSE Tagfls + u
  BY <1>13 DEF Given
<1>16. u < Tagend - Tagfls /\ g = Tagfls + u /\ IsFlushTag(g) /\ u + 1 <= Spare'
  <2>1. u < Tagend - Tagfls /\ u + 1 <= Spare'
    BY <1>12, <1>14, <1>15
  <2>2. g = Tagfls + u
    BY <1>3, <1>15, <2>1
  <2> QED
    BY <1>14, <2>1, <2>2 DEF IsFlushTag
<1>17. /\ \A x : Msg(x, n) => x.tag < g
       /\ \A q \in Procs : HasFlushed(q, n) => flushtag[mine[q]] < g
  BY <1>13, <1>16 DEF Given
<1>18. \A q \in Procs \ {p} : \A m \in Mounts : HasFlushed(q, m)' =>
          HasFlushed(q, m) /\ flushtag'[mine'[q]] = flushtag[mine[q]] /\ pc'[q] = pc[q]
  BY <1>2, <1>4, <1>5 DEF HasFlushed
<1>19. \A m \in Mounts : HasFlushed(p, m)' => m = n
  BY <1>1, <1>4 DEF HasFlushed
<1>20. \A x : Msg(x, n) => x.tag \in Nat
  BY MsgTypes
<1>21. \A q \in Procs : \A m \in Mounts : HasFlushed(q, m) => flushtag[mine[q]] \in Nat
  BY <1>14 DEF HasFlushed, ITags, FlushTagged, IsFlushTag
<1>22. FlushesDiffer'
  <2>1. ASSUME NEW q \in Procs \ {p}, HasFlushed(q, n)', flushtag'[mine'[q]] = g PROVE FALSE
    BY <1>14, <1>16, <1>17, <1>18, <1>21, <2>1
  <2> SUFFICES ASSUME NEW m \in Mounts, NEW v \in Procs, NEW w \in Procs, HasFlushed(v, m)', HasFlushed(w, m)',
                      flushtag'[mine'[v]] = flushtag'[mine'[w]]
               PROVE  v = w
    BY DEF FlushesDiffer
  <2>2. CASE v # p /\ w # p
    BY <1>18, <2>2 DEF ITags, FlushesDiffer
  <2>3. CASE v = p \/ w = p
    BY <1>1, <1>4, <1>19, <2>1, <2>3
  <2> QED
    BY <2>2, <2>3
<1>23. FlushIsMine'
  <2> SUFFICES ASSUME NEW m \in Mounts, NEW q \in Procs, NEW x, HasFlushed(q, m)', Msg(x, m)',
                      x.tag = flushtag'[mine'[q]]
               PROVE  x.call = q /\ pc'[q] # "flushwrite"
    BY DEF FlushIsMine
  <2>1. Msg(x, m)
    BY <1>7
  <2>2. CASE q # p
    BY <1>18, <2>1, <2>2 DEF ITags, FlushIsMine
  <2>3. CASE q = p
    BY <1>1, <1>4, <1>14, <1>16, <1>17, <1>19, <1>20, <2>1, <2>3
  <2> QED
    BY <2>2, <2>3
<1>24. FlushTagged'
  <2>1. ASSUME NEW q \in Procs \ {p}, pc'[q] # "idle"
        PROVE  /\ pc'[q] = "flushwrite" => flushed'[mine'[q]]
               /\ flushed'[mine'[q]] => IsFlushTag(flushtag'[mine'[q]])
    BY <1>2, <1>4, <1>5, <2>1 DEF ITags, FlushTagged
  <2>2. flushed'[mine'[p]] /\ IsFlushTag(flushtag'[mine'[p]])
    BY <1>1, <1>4, <1>16
  <2> QED
    BY <2>1, <2>2 DEF FlushTagged
<1>25. AllGiven'
  <2>1. Given(n, u + 1)'
    <3>1. nextflush'[n] = IF u + 1 = Tagend - Tagfls THEN Tagfls ELSE Tagfls + (u + 1)
      BY <1>4, <1>14, <1>16 DEF TagAfter
    <3>2. \A x : Msg(x, n)' => x.tag < Tagfls + (u + 1)
      BY <1>7, <1>14, <1>16, <1>17, <1>20
    <3>3. \A q \in Procs : HasFlushed(q, n)' => flushtag'[mine'[q]] < Tagfls + (u + 1)
      <4>1. \A q \in Procs \ {p} : HasFlushed(q, n)' => flushtag'[mine'[q]] < Tagfls + (u + 1)
        BY <1>14, <1>16, <1>17, <1>18, <1>21
      <4>2. flushtag'[mine'[p]] < Tagfls + (u + 1)
        BY <1>1, <1>4, <1>14, <1>16
      <4> QED
        BY <4>1, <4>2
    <3> QED
      BY <1>16, <3>1, <3>2, <3>3 DEF Given
  <2>2. ASSUME NEW m \in Mounts \ {n} PROVE \E k \in Nat : Given(m, k)'
    <3>1. PICK k \in Nat : Given(m, k)
      BY DEF ITags, AllGiven
    <3>2. k <= Spare' /\ nextflush'[m] = IF k = Tagend - Tagfls THEN Tagfls ELSE Tagfls + k
      BY <1>4, <1>12, <3>1 DEF Given
    <3>3. \A x : Msg(x, m)' => x.tag < Tagfls + k
      BY <1>7, <3>1 DEF Given
    <3>4. \A q \in Procs : HasFlushed(q, m)' => flushtag'[mine'[q]] < Tagfls + k
      BY <1>18, <1>19, <3>1 DEF Given
    <3> QED
      BY <3>2, <3>3, <3>4 DEF Given
  <2>3. u + 1 \in Nat
    OBVIOUS
  <2> QED
    BY <2>1, <2>2, <2>3 DEF AllGiven
<1> QED
  BY <1>7, <1>9, <1>10, <1>11, <1>22, <1>23, <1>24, <1>25 DEF ITags
-----------------------------------------------------------------------------
(* The server sends what it was asked for, and keeps no request that is    *)
(* answered or was aborted.                                                *)
LEMMA AnsweredMsgs ==
  ASSUME IAll, IGate', NEW n \in Mounts, NEW t \in server[n], NEW x \in Replies,
         UNCHANGED <<pc, mine, on, other, done, reply, flushed, flushtag, nextflush, notes>>,
         x.tag = t.tag, x.call = t.call,
         (t.kind = "T" /\ x.kind = "R") \/ (t.kind = "Tflush" /\ x.kind = "Rflush"),
         wire' = [wire EXCEPT ![n] = Append(@, x)],
         server'[n] \subseteq server[n], \A m \in Mounts \ {n} : server'[m] = server[m],
         \A s \in server'[n] : s.kind = "T" => s.call # t.call
  PROVE  IMsgs'
<1> USE DEF IAll, IMsgs
<1>1. PICK w, v : w = wire[n] /\ v = Append(w, x)
  OBVIOUS
<1>2. w \in Seq(Replies) /\ wire'[n] = v /\ \A m \in Mounts \ {n} : wire'[m] = wire[m]
  BY <1>1 DEF IGate, TypeOK
<1>3. /\ \A y : Within(y, v) <=> Within(y, w) \/ y = x
      /\ Ord(w) /\ (\A y : Within(y, w) => Behind(y, x)) => Ord(v)
  <2> HIDE DEF IAll, IMsgs
  <2>1. w \in Seq(Replies) /\ x \in Replies /\ v = Append(w, x)
    BY <1>1, <1>2
  <2> QED
    BY ONLY <2>1, OrdAppend
<1>4. \A q \in Procs : \A m \in Mounts : Hand(q, m)' <=> Hand(q, m)
  BY DEF Hand
<1>5. \A m \in Mounts : \A y : Flying(y, m)' => Flying(y, m) \/ (m = n /\ y = x)
  BY <1>1, <1>2, <1>3, <1>4 DEF Flying
<1>6. Msg(t, n) /\ \A m \in Mounts : server'[m] \subseteq server[m]
  BY DEF Msg
<1>7. \A m \in Mounts : \A y : Msg(y, m)' => Msg(y, m) \/ (m = n /\ y = x)
  BY <1>5, <1>6 DEF Msg
<1>8. \A q \in Procs : \A m, e : Awaits(q, m, e)' <=> Awaits(q, m, e)
  BY DEF Awaits, InCopy
<1>9. Asked'
  <2>1. ForCall(x, n)'
    <3>1. ForCall(t, n)
      BY <1>6 DEF Asked
    <3> QED
      BY <1>8, <3>1 DEF ForCall
  <2>2. \A m \in Mounts : \A y : Msg(y, m)' => ForCall(y, m)'
    BY <1>7, <1>8, <2>1 DEF Asked, ForCall
  <2> QED
    BY <1>6, <2>2 DEF Asked
<1>10. Unsent'
  <2>1. \A q \in Procs : pc[q] \in {"idle", "send"} => \A m \in Mounts : \A y : Msg(y, m)' => y.call # q
    BY <1>6, <1>7 DEF Unsent
  <2> QED
    BY <2>1 DEF Unsent, InCopy
<1>11. \A y : Flying(y, n) => Behind(y, x)
  BY DEF Ordered, Behind
<1>12. Ordered'
  <2>1. \A m \in Mounts : Ord(wire'[m])
    <3>1. Ord(v)
      BY <1>1, <1>3, <1>11 DEF Ordered, Flying
    <3> QED
      BY <1>2, <3>1 DEF Ordered
  <2>2. ASSUME NEW m \in Mounts, NEW q \in Procs, Hand(q, m)', NEW y, Within(y, wire'[m])
        PROVE  Behind(reply[mine[q]], y)
    <3>1. Hand(q, m)
      BY <1>4, <2>2
    <3>2. CASE Within(y, wire[m])
      BY <3>1, <3>2 DEF Ordered
    <3>3. CASE m = n /\ y = x
      BY <1>11, <3>1, <3>3 DEF Flying
    <3> QED
      BY <1>1, <1>2, <1>3, <2>2, <3>2, <3>3
  <2>3. \A m \in Mounts : \A s \in server'[m] : \A y : s.kind = "T" /\ Flying(y, m)' => s.call # y.call
    BY <1>5, <1>6 DEF Ordered
  <2> QED
    BY <2>1, <2>2, <2>3 DEF Ordered
<1>13. ITags'
  <2>1. \A m \in Mounts : \A q \in Procs : HasFlushed(q, m)' => HasFlushed(q, m)
    BY DEF HasFlushed
  <2>2. \A q \in Procs : pc'[q] = "flushwrite" => flushed'[mine'[q]]
    BY DEF ITags, FlushTagged
  <2>3. TagsDiffer'
    BY <1>6 DEF ITags, TagsDiffer
  <2>4. Spare \in Int /\ Spare' \in Int /\ Spare' >= Spare
    <3>1. Spare' = Spare
      BY DEF Spare, notes
    <3> QED
      BY <3>1, SpareIs DEF IGate
  <2>5. \A m \in Mounts : \A y : Msg(y, m)' => \E z : Msg(z, m) /\ z.tag = y.tag /\ z.call = y.call
    BY <1>6, <1>7
  <2> QED
    BY <2>1, <2>2, <2>3, <2>4, <2>5, TagsKept
<1>14. Mine'
  BY DEF Mine
<1> QED
  BY <1>9, <1>10, <1>12, <1>13, <1>14

(* The server answers one request, and only what was asked.                *)
LEMMA ServeMsgs ==
  ASSUME IAll, IGate', NEW n \in Mounts, Serve(n)
  PROVE  IMsgs'
<1> USE DEF IAll, IMsgs
<1>1. PICK t \in server[n] : Answer(n, t) \/ AnswerFlush(n, t)
  BY DEF Serve
<1>2. t \in Requests
  BY MsgTypes
<1>3. t.tag \in Rpcs \cup FlushTags /\ t.call \in CallIds
  BY <1>2 DEF Requests
<1>4. UNCHANGED <<pc, mine, on, other, done, reply, flushed, flushtag, nextflush, notes>>
  BY <1>1 DEF Answer, AnswerFlush, local, site, rpcs, mnts
<1>5. CASE Answer(n, t)
  <2>1. PICK x \in Replies : x = [kind |-> "R", tag |-> t.tag, call |-> t.call]
    BY <1>3 DEF Replies
  <2>2. /\ t.kind = "T" /\ wire' = [wire EXCEPT ![n] = Append(@, x)]
        /\ server'[n] = server[n] \ {t} /\ \A m \in Mounts \ {n} : server'[m] = server[m]
    BY <1>5, <2>1 DEF Answer, IGate, TypeOK
  <2>3. ASSUME NEW s \in server[n] \ {t}, s.kind = "T", s.call = t.call PROVE FALSE
    <3>1. ForCall(s, n) /\ ForCall(t, n)
      BY DEF Asked, Msg
    <3>2. s.tag = t.tag
      BY <2>2, <2>3, <3>1 DEF ForCall, Awaits
    <3> QED
      BY <2>3, <3>2 DEF ITags, TagsDiffer
  <2>4. x.kind = "R" /\ x.tag = t.tag /\ x.call = t.call
    BY <2>1
  <2> QED
    BY ZenonT(60), <1>4, <2>2, <2>3, <2>4, AnsweredMsgs
<1>6. CASE AnswerFlush(n, t)
  <2>1. PICK x \in Replies : x = [kind |-> "Rflush", tag |-> t.tag, call |-> t.call]
    BY <1>3 DEF Replies
  <2>2. /\ t.kind = "Tflush" /\ wire' = [wire EXCEPT ![n] = Append(@, x)]
        /\ server'[n] = {s \in server[n] \ {t} : ~(s.kind = "T" /\ s.call = t.call)}
        /\ \A m \in Mounts \ {n} : server'[m] = server[m]
    BY <1>6, <2>1 DEF AnswerFlush, IGate, TypeOK
  <2>3. x.kind = "Rflush" /\ x.tag = t.tag /\ x.call = t.call
    BY <2>1
  <2> QED
    BY <1>4, <2>2, <2>3, AnsweredMsgs
<1> QED
  BY <1>1, <1>5, <1>6

(* A call is over: what is still under way for it is nobody's, and is not  *)
(* a reply to its request.                                                 *)
LEMMA LeaveMsgs ==
  ASSUME IAll, IGate', NEW p \in Procs, Leave(p)
  PROVE  IMsgs'
<1> USE DEF IAll, IMsgs
<1>1. /\ pc[p] = "return" /\ pc'[p] = "idle" /\ \A q \in Procs \ {p} : pc'[q] = pc[q]
      /\ done[mine[p]]
  BY DEF Leave, IGate, TypeOK, IUse, NotHung
<1>2. PICK r \in Rpcs : r = mine[p]
  BY <1>1 DEF IGate, Life
<1>3. /\ UNCHANGED <<other, done, flushed, flushtag, nextflush, noted>>
      /\ \A q \in Procs \ {p} : mine'[q] = mine[q] /\ on'[q] = on[q] /\ (notepending'[q] <=> notepending[q])
      /\ ~notepending'[p] /\ on'[p] = None
      /\ \A e \in Rpcs \ {r} : reply'[e] = Over(p, reply[e])
  BY <1>2 DEF Leave, mnts, IGate, TypeOK
<1>4. \A q \in Procs \ {p} : pc[q] # "idle" => mine[q] \in Rpcs \ {r}
  BY <1>2 DEF IUse, IOwned, Alone, IGate, Life
<1>5. \A q \in Procs : \A m \in Mounts : Hand(q, m)' =>
         q # p /\ Hand(q, m) /\ reply[mine[q]] \in Replies /\ reply'[mine'[q]] = Over(p, reply[mine[q]])
  <2> SUFFICES ASSUME NEW q \in Procs, NEW m \in Mounts, Hand(q, m)'
               PROVE  q # p /\ Hand(q, m) /\ reply[mine[q]] \in Replies /\ reply'[mine'[q]] = Over(p, reply[mine[q]])
    OBVIOUS
  <2>1. q # p /\ pc[q] = "mux" /\ Hand(q, m)
    BY <1>1, <1>3 DEF Hand
  <2>2. mine[q] \in Rpcs \ {r} /\ mine'[q] = mine[q]
    BY <1>3, <1>4, <2>1
  <2> QED
    BY <1>3, <2>1, <2>2 DEF IGate, TypeOK
<1>6. \A m \in Mounts : /\ server'[m] = {Over(p, t) : t \in server[m]}
                        /\ DOMAIN wire'[m] = DOMAIN wire[m]
                        /\ \A i \in DOMAIN wire[m] : wire[m][i] \in Replies
                        /\ \A i \in DOMAIN wire[m] : wire'[m][i] = Over(p, wire[m][i])
  BY LeaveWire DEF IGate
<1>7. \A m \in Mounts : \A x : Within(x, wire'[m]) =>
         \E y \in Replies : Within(y, wire[m]) /\ x = Over(p, y)
  BY <1>6 DEF Within
<1>8. \A m \in Mounts : \A x : Flying(x, m)' => \E y \in Replies : Flying(y, m) /\ x = Over(p, y)
  BY <1>5, <1>7 DEF Flying
<1>9. \A m \in Mounts : \A x : x \in server'[m] => \E y \in Requests : y \in server[m] /\ x = Over(p, y)
  BY <1>6, MsgTypes
<1>10. \A m \in Mounts : \A x : Msg(x, m)' =>
          \E y : /\ Msg(y, m) /\ x.kind = y.kind /\ x.tag = y.tag
                 /\ x.call = IF y.call = p THEN None ELSE y.call
  BY <1>8, <1>9, OverFacts DEF Msg
<1>11. \A m \in Mounts : \A y : Msg(y, m) /\ y.kind \in {"T", "R"} => y.call # p /\ y.call \in Procs
  BY <1>1 DEF Asked, ForCall, Awaits
<1>12. \A e : InCopy(e)' <=> InCopy(e)
  BY <1>1, <1>3 DEF InCopy
<1>13. None \notin Procs
  BY RpcsAreNumbers
<1>14. Asked'
  <2>1. \A q \in Procs : \A m, e : q # p /\ Awaits(q, m, e) => Awaits(q, m, e)'
    BY <1>1, <1>3, <1>12 DEF Awaits
  <2>2. ASSUME NEW m \in Mounts, NEW x, Msg(x, m)' PROVE ForCall(x, m)'
    <3>1. PICK y : /\ Msg(y, m) /\ x.kind = y.kind /\ x.tag = y.tag
                   /\ x.call = IF y.call = p THEN None ELSE y.call
      BY <1>10, <2>2
    <3>2. ForCall(y, m)
      BY <3>1 DEF Asked
    <3>3. CASE y.kind \in {"T", "R"}
      <4>1. y.call # p /\ y.call \in Procs /\ Awaits(y.call, m, y.tag)
        BY <1>11, <3>1, <3>2, <3>3 DEF ForCall
      <4>2. Awaits(y.call, m, y.tag)'
        BY <2>1, <4>1
      <4>3. x.call = y.call
        BY <3>1, <4>1
      <4> QED
        BY <3>1, <3>3, <4>1, <4>2, <4>3 DEF ForCall
    <3>4. CASE y.kind \notin {"T", "R"}
      BY <3>1, <3>2, <3>4 DEF ForCall
    <3> QED
      BY <3>3, <3>4
  <2>3. \A m \in Mounts : \A t \in server'[m] : t.kind = "T" => t.oldtag = 0
    BY <1>9, OverFacts DEF Asked
  <2> QED
    BY <2>2, <2>3 DEF Asked
<1>15. Unsent'
  <2>1. ASSUME NEW q \in Procs, pc'[q] \in {"idle", "send"}, NEW m \in Mounts, NEW x, Msg(x, m)'
        PROVE  x.call # q
    <3>1. PICK y : Msg(y, m) /\ x.call = IF y.call = p THEN None ELSE y.call
      BY <1>10, <2>1
    <3> QED
      BY <1>1, <1>13, <2>1, <3>1 DEF Unsent
  <2>2. ASSUME NEW q \in Procs, pc'[q] = "send"
        PROVE  ~done'[mine'[q]] /\ ~InCopy(mine[q])'
    <3>1. pc[q] = "send" /\ mine'[q] = mine[q]
      BY <1>1, <1>3, <2>2
    <3> QED
      BY <1>1, <1>3, <3>1 DEF Unsent, InCopy
  <2> QED
    BY <2>1, <2>2 DEF Unsent
<1>16. \A m \in Mounts : \A a, b \in Replies : Msg(b, m) /\ Behind(a, b) => Behind(Over(p, a), Over(p, b))
  BY <1>11, <1>13, OverFacts DEF Behind
<1>17. Ordered'
  <2>1. ASSUME NEW m \in Mounts PROVE Ord(wire'[m])
    <3>1. \A i, j \in DOMAIN wire[m] : i < j => Behind(wire[m][i], wire[m][j]) /\ Msg(wire[m][j], m)
      BY DEF Ordered, Ord, Msg, Flying, Within
    <3> QED
      BY <1>6, <1>16, <3>1 DEF Ord
  <2>2. ASSUME NEW m \in Mounts, NEW q \in Procs, Hand(q, m)', NEW x, Within(x, wire'[m])
        PROVE  Behind(reply'[mine'[q]], x)
    <3>1. PICK y \in Replies : Within(y, wire[m]) /\ x = Over(p, y)
      BY <1>7, <2>2
    <3>2. Hand(q, m) /\ reply[mine[q]] \in Replies /\ reply'[mine'[q]] = Over(p, reply[mine[q]])
      BY <1>5, <2>2
    <3>3. Behind(reply[mine[q]], y) /\ Msg(y, m)
      BY <3>1, <3>2 DEF Ordered, Msg, Flying
    <3> QED
      BY <1>16, <3>1, <3>2, <3>3
  <2>3. ASSUME NEW m \in Mounts, NEW t \in server'[m], NEW x, t.kind = "T", Flying(x, m)'
        PROVE  t.call # x.call
    <3>1. PICK s \in Requests : s \in server[m] /\ t = Over(p, s)
      BY <1>9
    <3>2. PICK y \in Replies : Flying(y, m) /\ x = Over(p, y)
      BY <1>8, <2>3
    <3>3. s.kind = "T" /\ s.call # p /\ s.call \in Procs /\ t.call = s.call
      BY <1>11, <2>3, <3>1, OverFacts DEF Msg
    <3>4. s.call # y.call /\ x.call \in {y.call, None}
      BY <3>1, <3>2, <3>3, OverFacts DEF Ordered
    <3> QED
      BY <1>13, <3>3, <3>4
  <2> QED
    BY <2>1, <2>2, <2>3 DEF Ordered
<1>18. ITags'
  <2>1. \A m \in Mounts : \A q \in Procs : HasFlushed(q, m)' => HasFlushed(q, m) /\ q # p /\ mine'[q] = mine[q]
    BY <1>1, <1>3 DEF HasFlushed
  <2>2. \A m \in Mounts : \A x : Msg(x, m)' => \E y :
           /\ Msg(y, m) /\ y.tag = x.tag
           /\ y.call = x.call \/ (\A q \in Procs : y.call = q => ~HasFlushed(q, m)')
    BY <1>10, <2>1
  <2>3. \A q \in Procs : pc'[q] = "flushwrite" => pc[q] = "flushwrite" /\ q # p
    BY <1>1
  <2>4. \A q \in Procs : pc'[q] = "flushwrite" => flushed'[mine'[q]]
    BY <1>3, <2>3 DEF ITags, FlushTagged
  <2>5. TagsDiffer'
    <3> SUFFICES ASSUME NEW m \in Mounts, NEW s \in server'[m], NEW t \in server'[m], s.tag = t.tag
                 PROVE  s = t
      BY DEF TagsDiffer
    <3>1. PICK a, b \in Requests : a \in server[m] /\ b \in server[m] /\ s = Over(p, a) /\ t = Over(p, b)
      BY <1>9
    <3>2. a.tag = b.tag
      BY <3>1, OverFacts
    <3> QED
      BY <3>1, <3>2 DEF ITags, TagsDiffer
  <2>6. Spare \in Int /\ Spare' \in Int /\ Spare' >= Spare
    <3>1. Noted' \subseteq Noted /\ Flushing' \subseteq Flushing
      BY <1>1, <1>3 DEF Noted, Flushing
    <3> QED
      BY <1>3, <3>1, SpareKept DEF IGate
  <2> QED
    BY <1>3, <2>1, <2>2, <2>3, <2>4, <2>5, <2>6, TagsKept
<1>19. Mine'
  <2> SUFFICES ASSUME NEW v \in Procs, pc'[v] # "idle"
               PROVE  /\ done[mine'[v]] => IsTo(reply'[mine'[v]], v)
                      /\ \A w \in Procs : other[w] = mine'[v] =>
                             /\ pc'[w] = "copy" => IsTo(reply'[mine'[w]], v)
                             /\ pc'[w] = "finish" => IsTo(reply'[other[w]], v)
    BY <1>3 DEF Mine
  <2>1. v # p /\ pc[v] # "idle" /\ mine'[v] = mine[v] /\ mine[v] \in Rpcs \ {r}
    BY <1>1, <1>3, <1>4
  <2>2. \A e \in Rpcs \ {r} : IsTo(reply[e], v) => IsTo(reply'[e], v)
    <3>1. \A e \in Rpcs : reply[e] \in Replies
      BY DEF IGate, TypeOK
    <3> QED
      BY <1>3, <2>1, <3>1, OverFacts DEF IsTo
  <2>3. done[mine[v]] => IsTo(reply'[mine[v]], v)
    BY <2>1, <2>2 DEF Mine
  <2>4. ASSUME NEW w \in Procs, other[w] = mine[v]
        PROVE  /\ pc'[w] = "copy" => IsTo(reply'[mine'[w]], v)
               /\ pc'[w] = "finish" => IsTo(reply'[other[w]], v)
    <3>1. CASE pc'[w] = "copy"
      <4>1. pc[w] = "copy" /\ mine'[w] = mine[w] /\ mine[w] \in Rpcs \ {r}
        BY <1>1, <1>3, <1>4, <3>1
      <4> QED
        BY <2>1, <2>2, <2>4, <3>1, <4>1 DEF Mine
    <3>2. CASE pc'[w] = "finish"
      <4>1. pc[w] = "finish"
        BY <1>1, <3>2
      <4> QED
        BY <2>1, <2>2, <2>4, <3>2, <4>1 DEF Mine
    <3> QED
      BY <3>1, <3>2
  <2> QED
    BY <2>1, <2>3, <2>4
<1> QED
  BY <1>14, <1>15, <1>17, <1>18, <1>19

(* A call finds no message that is about its Mntrpc.                       *)
LEMMA CallMsgs ==
  ASSUME IAll, IGate', NEW p \in Procs, NEW n \in Mounts, NEW r \in Rpcs, Call(p, n, r)
  PROVE  IMsgs'
<1> USE DEF IAll, IMsgs
<1>1. pc[p] = "idle" /\ pc'[p] = "send" /\ \A q \in Procs \ {p} : pc'[q] = pc[q]
  BY GotoFacts DEF Call, Enqueue, Places, IGate
<1>2. \A q \in Procs : mine[q] # r
  BY NewRpc DEF IUse, IOwned
<1>3. /\ UNCHANGED <<other, flushtag, nextflush, server, wire, notes>>
      /\ mine'[p] = r /\ \A q \in Procs \ {p} : mine'[q] = mine[q] /\ on'[q] = on[q]
      /\ ~done'[r] /\ ~flushed'[r]
      /\ \A e \in Rpcs \ {r} : (done'[e] <=> done[e]) /\ (flushed'[e] <=> flushed[e]) /\ reply'[e] = reply[e]
  BY DEF Call, Enqueue, chans, IGate, TypeOK
<1>4. \A q \in Procs : pc[q] # "idle" => q # p /\ mine[q] \in Rpcs \ {r}
  BY <1>1, <1>2 DEF IGate, Life
<1>5. \A q \in Procs : \A m \in Mounts : Hand(q, m)' => Hand(q, m) /\ reply'[mine'[q]] = reply[mine[q]]
  BY <1>1, <1>3, <1>4 DEF Hand
<1>6. /\ \A m \in Mounts : \A y : (Flying(y, m)' => Flying(y, m)) /\ (Msg(y, m)' => Msg(y, m))
      /\ Ordered' /\ TagsDiffer'
  BY <1>3, <1>5, HandsDropped DEF ITags
<1>7. ~InCopy(r) /\ \A e : InCopy(e)' <=> InCopy(e)
  <2>1. ~InCopy(r)
    BY <1>2 DEF InCopy, IUse, IOwned, Copying
  <2>2. \A e : InCopy(e)' <=> InCopy(e)
    BY <1>1, <1>3 DEF InCopy
  <2> QED
    BY <2>1, <2>2
<1>8. Asked'
  <2>1. \A q \in Procs : \A m, e : Awaits(q, m, e) => Awaits(q, m, e)'
    BY <1>1, <1>3, <1>4, <1>7 DEF Awaits
  <2> QED
    BY <1>3, <1>6, <2>1, AskedKept
<1>9. Unsent'
  <2>1. \A q \in Procs : pc'[q] \in {"idle", "send"} => pc[q] \in {"idle", "send"}
    BY <1>1
  <2>2. \A q \in Procs : pc'[q] \in {"idle", "send"} => \A m \in Mounts : \A y : Msg(y, m)' => y.call # q
    BY <1>6, <2>1 DEF Unsent
  <2>3. ASSUME NEW q \in Procs, pc'[q] = "send" PROVE ~done'[mine'[q]] /\ ~InCopy(mine[q])'
    <3>1. CASE q = p
      BY <1>1, <1>3, <1>7, <3>1 DEF InCopy
    <3>2. CASE q # p
      <4>1. pc[q] = "send" /\ mine'[q] = mine[q] /\ mine[q] \in Rpcs \ {r}
        BY <1>1, <1>3, <1>4, <2>3, <3>2
      <4> QED
        BY <1>1, <1>3, <4>1 DEF Unsent, InCopy
    <3> QED
      BY <3>1, <3>2
  <2> QED
    BY <2>2, <2>3 DEF Unsent
<1>10. ITags'
  <2>1. \A m \in Mounts : \A q \in Procs : HasFlushed(q, m)' => HasFlushed(q, m) /\ mine'[q] = mine[q]
    BY <1>1, <1>3, <1>4 DEF HasFlushed
  <2>2. \A q \in Procs : pc'[q] = "flushwrite" => pc[q] = "flushwrite" /\ q # p
    BY <1>1
  <2>3. \A q \in Procs : pc'[q] = "flushwrite" => flushed'[mine'[q]]
    BY <1>3, <1>4, <2>2 DEF ITags, FlushTagged
  <2>4. Spare \in Int /\ Spare' \in Int /\ Spare' >= Spare
    BY <1>1, <1>3, SpareSame
  <2> QED
    BY <1>3, <1>6, <2>1, <2>2, <2>3, <2>4, TagsKept
<1>11. Mine'
  <2> SUFFICES ASSUME NEW v \in Procs, pc'[v] # "idle"
               PROVE  /\ done'[mine'[v]] => IsTo(reply'[mine'[v]], v)
                      /\ \A w \in Procs : other[w] = mine'[v] =>
                             /\ pc'[w] = "copy" => IsTo(reply'[mine'[w]], v)
                             /\ pc'[w] = "finish" => IsTo(reply'[other[w]], v)
    BY <1>3 DEF Mine
  <2>1. CASE v = p
    <3>1. \A w \in Procs : pc'[w] \in {"copy", "finish"} => other[w] # r
      BY <1>1, <1>7 DEF InCopy
    <3> QED
      BY <1>3, <2>1, <3>1
  <2>2. CASE v # p
    <3>1. pc[v] # "idle" /\ mine'[v] = mine[v] /\ mine[v] \in Rpcs \ {r}
      BY <1>1, <1>3, <1>4, <2>2
    <3>2. \A w \in Procs : pc'[w] \in {"copy", "finish"} =>
             w # p /\ pc[w] = pc'[w] /\ mine'[w] = mine[w] /\ mine[w] \in Rpcs \ {r}
      BY <1>1, <1>3, <1>4
    <3> QED
      BY <1>3, <3>1, <3>2 DEF Mine
  <2> QED
    BY <2>1, <2>2
<1> QED
  BY <1>6, <1>8, <1>9, <1>10, <1>11
-----------------------------------------------------------------------------
(* At first there are no messages.                                         *)
LEMMA InitMsgs == Init => IMsgs
<1> SUFFICES ASSUME Init PROVE IMsgs
  OBVIOUS
<1> USE DEF Init
<1>1. \A m \in Mounts : \A x : ~Flying(x, m) /\ ~Msg(x, m)
  <2>1. \A m \in Mounts : \A x : ~Within(x, wire[m])
    BY EmptySeq DEF Within
  <2> QED
    BY <2>1 DEF Flying, Hand, Msg
<1>2. Asked /\ Unsent /\ Mine
  BY <1>1 DEF Asked, Unsent, Mine
<1>3. Ordered
  <2>1. \A m \in Mounts : Ord(wire[m])
    BY EmptySeq DEF Ord
  <2> QED
    BY <1>1, <2>1 DEF Ordered, Hand
<1>4. FlushesDiffer /\ FlushIsMine /\ FlushTagged /\ TagsDiffer /\ \A m \in Mounts, p \in Procs : ~HasFlushed(p, m)
  BY DEF FlushesDiffer, FlushIsMine, FlushTagged, TagsDiffer, HasFlushed
<1>5. AllGiven
  <2>1. Spare = 0
    <3>1. {p \in Procs : notepending[p]} = {} /\ {p \in Procs : pc[p] = "flush"} = {}
      OBVIOUS
    <3>2. PICK c : c = Cardinality({})
      OBVIOUS
    <3>3. c = 0
      BY <3>2, FS_EmptySet
    <3>4. noted = 0 /\ Spare = noted - c - c
      BY <3>1, <3>2 DEF Spare
    <3> QED
      BY <3>3, <3>4
  <2>2. Tagfls \in Nat /\ Tagend \in Nat /\ Tagend > Tagfls
    BY RpcAssumption
  <2>3. \A m \in Mounts : nextflush[m] = IF 0 = Tagend - Tagfls THEN Tagfls ELSE Tagfls + 0
    BY <2>2
  <2>4. \A m \in Mounts : Given(m, 0)
    BY <1>1, <1>4, <2>1, <2>3 DEF Given
  <2> QED
    BY <2>4 DEF AllGiven
<1> QED
  BY <1>2, <1>3, <1>4, <1>5 DEF IMsgs, ITags

(* Every step keeps them right,                                            *)
LEMMA StepMsgs ==
  ASSUME NeverHung, TagsSuffice, IAll, IGate', [Next]_vars
  PROVE  IMsgs'
<1>1. ASSUME NEW p \in Procs, Proceed(p) PROVE IMsgs'
  <2>1. CASE Send(p) \/ Read(p) \/ Mux(p) \/ Copy(p) \/ Finish(p) \/ Leave(p)
    BY <2>1, SendMsgs, ReadMsgs, MuxMsgs, CopyMsgs, FinishMsgs, LeaveMsgs
  <2>2. CASE FlushTag(p) \/ FlushSend(p) \/ WakeOther(p) \/ WakeNext(p)
    BY <2>2, FlushTagMsgs, FlushSendMsgs, WakeupMsgs
  <2>3. ~FlushFails(p) /\ ~Qrm(p)
    BY DEF FlushFails, Qrm, Fail, Goto, IAll, IGate, Life, IUse, NotHung
  <2> QED
    BY <1>1, <2>1, <2>2, <2>3, QuietSteps DEF Proceed
<1>2. ASSUME NEW p \in Procs, PostNote(p) \/ \E m \in Mounts, r \in Rpcs : Call(p, m, r)
      PROVE  IMsgs'
  BY <1>2, PostNoteMsgs, CallMsgs
<1>3. ASSUME NEW m \in Mounts, Serve(m) PROVE IMsgs'
  BY <1>3, ServeMsgs
<1>4. CASE UNCHANGED vars
  <2>1. UNCHANGED <<pc, mine, on, other, done, reply, flushed, flushtag, nextflush, server, wire, notepending, noted>>
    BY <1>4 DEF vars, local, notes, site, rpcs, mnts, chans
  <2>2. Asked' /\ Unsent' /\ Ordered' /\ Mine'
    BY <2>1 DEF IAll, IMsgs, Asked, Unsent, Ordered, Mine, Msg, Flying, Hand, ForCall, Awaits, InCopy
  <2>3. ITags'
    <3>1. Spare' = Spare
      BY <2>1 DEF Spare
    <3>2. /\ \A x, m : Msg(x, m)' <=> Msg(x, m)
          /\ \A p, m : HasFlushed(p, m)' <=> HasFlushed(p, m)
      BY <2>1 DEF Msg, Flying, Hand, HasFlushed
    <3>3. FlushesDiffer' /\ FlushIsMine' /\ FlushTagged' /\ TagsDiffer'
      BY <2>1, <3>2 DEF IAll, IMsgs, ITags, FlushesDiffer, FlushIsMine, FlushTagged, TagsDiffer
    <3>4. \A m, u : Given(m, u)' <=> Given(m, u)
      BY <2>1, <3>1, <3>2 DEF Given
    <3>5. AllGiven'
      BY <3>4 DEF IAll, IMsgs, ITags, AllGiven
    <3> QED
      BY <3>3, <3>5 DEF ITags
  <2> QED
    BY <2>2, <2>3 DEF IMsgs
<1> QED
  BY <1>1, <1>2, <1>3, <1>4 DEF Next, Hangup, NeverHung

(* so they are right always.                                               *)
LEMMA MsgsAlways ==
  ASSUME NeverHung, TagsSuffice
  PROVE  Spec => []IMsgs
<1>1. Init => IMsgs
  BY InitMsgs
<1>2. IGate /\ IUse /\ IMsgs /\ IGate' /\ [Next]_vars => IMsgs'
  BY NeverHung, TagsSuffice, StepMsgs DEF IAll
<1> QED
  BY <1>1, <1>2, UseAlways, PTL DEF Spec

(* While no channel hangs up and the flush tags are not used up, a call    *)
(* returns with the reply to its own request or to a flush of it, never    *)
(* with one meant for an earlier user of its Mntrpc (mountmux, mntflush).  *)
THEOREM RepliesAreMine ==
  ASSUME NeverHung, TagsSuffice
  PROVE  Spec => []ReplyIsMine
<1>1. IGate /\ IUse /\ IMsgs => ReplyIsMine
  BY DEF IGate, Life, IUse, NotHung, IMsgs, Mine, IsTo, ReplyIsMine
<1> QED
  BY <1>1, UseAlways, MsgsAlways, PTL

(* No two requests a server has yet to answer have one tag, though the     *)
(* Mntrpcs are used again and flushes take tags of their own (0intro).     *)
THEOREM TagsAreDifferent ==
  ASSUME NeverHung, TagsSuffice
  PROVE  Spec => []TagsDiffer
<1>1. IMsgs => TagsDiffer
  BY DEF IMsgs, ITags
<1> QED
  BY <1>1, MsgsAlways, PTL
=============================================================================
