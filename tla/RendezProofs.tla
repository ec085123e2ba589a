---------------------------- MODULE RendezProofs ----------------------------
(***************************************************************************)
(* Proofs about the rendezvous system call for any number of processes,    *)
(* tags and posters of notes: the list is right, and two processes that    *)
(* meet get each other's value.                                            *)
(***************************************************************************)
EXTENDS Rendez, SequenceTheorems, WellFoundedInduction, TLAPS

OnChain(p) == \E i \in DOMAIN chain : chain[i] = p
Met(p)     == \E q \in Procs : partner[q] = p

(* p->state, p->mach and what p has follow its place in the code.          *)
Places ==
    /\ \A p \in Procs :
          /\ pc[p] \in {"user", "enter", "spin", "sched", "away", "return"}
          /\ state[p] = "Running" <=> pc[p] \in {"user", "enter", "spin", "return"}
          /\ onmach[p] <=> pc[p] # "away"
          /\ pc[p] # "user" => tag[p] \in Tags
    /\ \A k \in Posters : /\ pc[k] \in {"idle", "look", "pull"}
                          /\ pc[k] # "idle" => target[k] \in Procs

(* Who spins, lock in hand, has a partner.                                 *)
Spinning == \A p \in Procs : partner[p] # None <=> pc[p] = "spin"

(* Who waits is on the list, with its own value to give, or was taken off  *)
(* it by somebody who spins; nobody else is in either place.               *)
Waiters == /\ \A p \in Procs : state[p] = "Rendezvous" <=> OnChain(p) \/ Met(p)
           /\ \A p \in Procs : ~(OnChain(p) /\ Met(p))
           /\ \A p \in Procs : OnChain(p) => rendval[p] = p

(* The list has nobody twice and no tag twice.                             *)
ListDistinct == /\ IsInjective(chain)
                /\ \A p, q \in Procs : OnChain(p) /\ OnChain(q) /\ tag[p] = tag[q] => p = q

IInv == /\ TypeOK
        /\ Places
        /\ Spinning
        /\ Waiters
        /\ ListDistinct
-----------------------------------------------------------------------------
(* A set of naturals that is not empty has the least element Min chooses.  *)
LEMMA MinNat ==
  ASSUME NEW I \in SUBSET Nat, I # {}
  PROVE  Min(I) \in I
<1>1. PICK i \in I : \A j \in I : <<j, i>> \notin OpToRel(<, Nat)
  BY WFMin, NatLessThanWellFounded
<1>2. ASSUME NEW j \in I PROVE i <= j
  <2>1. i \in Nat /\ j \in Nat /\ <<j, i>> \notin OpToRel(<, Nat)
    BY <1>1
  <2> QED
    BY <2>1 DEF OpToRel
<1> QED
  BY <1>2 DEF Min

(* What is left when one entry is taken out, or the first that is e.       *)
LEMMA RemoveAtFacts ==
  ASSUME NEW S, NEW s \in Seq(S), NEW k \in 1..Len(s), NEW r, r = RemoveAt(s, k)
  PROVE  /\ r \in Seq(S) /\ Len(r) = Len(s) - 1
         /\ \A i \in 1..(Len(s) - 1) : r[i] = IF i < k THEN s[i] ELSE s[i + 1]
<1>1. Len(s) \in Nat /\ k \in Nat /\ k >= 1 /\ k <= Len(s)
  BY LenProperties
<1>2. \A i \in 1..Len(s) : s[i] \in S
  BY ElementOfSeq
<1>3. PICK a : a = SubSeq(s, 1, k - 1)
  OBVIOUS
<1>4. PICK b : b = SubSeq(s, k + 1, Len(s))
  OBVIOUS
<1>5. /\ a \in Seq(S) /\ Len(a) = k - 1
      /\ \A i \in 1..(k - 1) : a[i] = s[i]
  <2>1. \A i \in 1..(k - 1) : s[i] \in S
    BY <1>1, <1>2
  <2>2. /\ a \in Seq(S) /\ Len(a) = IF 1 <= k - 1 THEN k - 1 - 1 + 1 ELSE 0
        /\ \A i \in 1..(k - 1 - 1 + 1) : a[i] = s[1 + i - 1]
    BY <1>1, <1>3, <2>1, SubSeqProperties
  <2> QED
    BY <1>1, <2>2
<1>6. /\ b \in Seq(S) /\ Len(b) = Len(s) - k
      /\ \A i \in 1..(Len(s) - k) : b[i] = s[k + i]
  <2>1. \A i \in (k + 1)..Len(s) : s[i] \in S
    BY <1>1, <1>2
  <2>2. /\ b \in Seq(S)
        /\ Len(b) = IF k + 1 <= Len(s) THEN Len(s) - (k + 1) + 1 ELSE 0
        /\ \A i \in 1..(Len(s) - (k + 1) + 1) : b[i] = s[k + 1 + i - 1]
    BY <1>1, <1>4, <2>1, SubSeqProperties
  <2>3. \A i \in 1..(Len(s) - k) : i \in 1..(Len(s) - (k + 1) + 1) /\ k + 1 + i - 1 = k + i
    BY <1>1
  <2> QED
    BY <1>1, <2>2, <2>3
<1>7. /\ a \o b \in Seq(S) /\ Len(a \o b) = Len(a) + Len(b)
      /\ \A i \in 1..(Len(a) + Len(b)) :
            (a \o b)[i] = IF i <= Len(a) THEN a[i] ELSE b[i - Len(a)]
  BY <1>5, <1>6, ConcatProperties
<1>8. r = a \o b
  BY <1>3, <1>4 DEF RemoveAt
<1>9. r \in Seq(S) /\ Len(r) = Len(s) - 1
  <2>1. r \in Seq(S) /\ Len(r) = Len(a) + Len(b)
    BY <1>7, <1>8
  <2> QED
    BY <1>1, <1>5, <1>6, <2>1
<1>10. ASSUME NEW i \in 1..(Len(s) - 1) PROVE r[i] = IF i < k THEN s[i] ELSE s[i + 1]
  <2>1. r[i] = IF i <= k - 1 THEN a[i] ELSE b[i - (k - 1)]
    BY <1>1, <1>5, <1>6, <1>7, <1>8
  <2>2. CASE i < k
    BY <1>1, <1>5, <2>1, <2>2
  <2>3. CASE ~(i < k)
    <3>1. i - (k - 1) \in 1..(Len(s) - k) /\ k + (i - (k - 1)) = i + 1
      BY <1>1, <2>3
    <3> QED
      BY <1>1, <1>6, <2>1, <2>3, <3>1
  <2> QED
    BY <2>2, <2>3
<1> QED
  BY <1>9, <1>10

(* RemoveFirst takes out e, which is there once at most.                   *)
LEMMA RemoveFirstFacts ==
  ASSUME NEW S, NEW s \in Seq(S), NEW e, NEW r, r = RemoveFirst(s, e),
         \A i, j \in DOMAIN s : s[i] = s[j] => i = j
  PROVE  /\ r \in Seq(S)
         /\ \A i, j \in DOMAIN r : r[i] = r[j] => i = j
         /\ \A x : (\E i \in DOMAIN r : r[i] = x) <=> (\E i \in DOMAIN s : s[i] = x) /\ x # e
<1>1. Len(s) \in Nat /\ DOMAIN s = 1..Len(s)
  BY LenProperties
<1>2. CASE ~\E i \in 1..Len(s) : s[i] = e
  <2>1. r = s
    BY <1>2 DEF RemoveFirst
  <2> QED
    BY <1>1, <1>2, <2>1
<1>3. CASE \E i \in 1..Len(s) : s[i] = e
  <2>1. PICK I : I = {i \in 1..Len(s) : s[i] = e}
    OBVIOUS
  <2>2. I \in SUBSET Nat /\ I # {}
    BY <1>1, <1>3, <2>1
  <2>3. PICK k \in 1..Len(s) : k = Min(I) /\ s[k] = e
    BY <2>1, <2>2, MinNat
  <2>4. r = RemoveAt(s, k)
    <3>1. SelectInSeq(s, LAMBDA v : v = e) = k
      BY <2>1, <2>2, <2>3 DEF SelectInSeq
    <3> QED
      BY <1>3, <3>1 DEF RemoveFirst
  <2>5. /\ r \in Seq(S) /\ Len(r) = Len(s) - 1
        /\ \A i \in 1..(Len(s) - 1) : r[i] = IF i < k THEN s[i] ELSE s[i + 1]
    <3>1. s \in Seq(S) /\ k \in 1..Len(s)
      BY <2>3
    <3> QED
      BY ONLY SMTT(60), <2>4, <3>1, RemoveAtFacts
  <2>6. DOMAIN r = 1..(Len(s) - 1)
    BY <2>5, LenProperties
  <2>7. \A i, j \in 1..Len(s) : s[i] = s[j] => i = j
    BY <1>1
  <2>8. \A i, j \in DOMAIN r : r[i] = r[j] => i = j
    <3> SUFFICES ASSUME NEW i \in 1..(Len(s) - 1), NEW j \in 1..(Len(s) - 1), r[i] = r[j]
                 PROVE  i = j
      BY <2>6
    <3>1. PICK m \in 1..Len(s) : r[i] = s[m] /\ ((m = i /\ i < k) \/ (m = i + 1 /\ ~(i < k)))
      <4>1. r[i] = IF i < k THEN s[i] ELSE s[i + 1]
        BY <2>5
      <4> QED
        BY <1>1, <4>1
    <3>2. PICK n \in 1..Len(s) : r[j] = s[n] /\ ((n = j /\ j < k) \/ (n = j + 1 /\ ~(j < k)))
      <4>1. r[j] = IF j < k THEN s[j] ELSE s[j + 1]
        BY <2>5
      <4> QED
        BY <1>1, <4>1
    <3>3. m = n
      BY <2>7, <3>1, <3>2
    <3> QED
      BY <1>1, <3>1, <3>2, <3>3
  <2>9. ASSUME NEW i \in DOMAIN r
        PROVE  \E m \in DOMAIN s : s[m] = r[i] /\ m # k
    <3>1. CASE i < k
      BY <1>1, <2>5, <2>6, <3>1
    <3>2. CASE ~(i < k)
      <4>1. i \in 1..(Len(s) - 1) /\ r[i] = s[i + 1]
        BY <2>5, <2>6, <3>2
      <4>2. i + 1 \in DOMAIN s /\ i + 1 # k
        BY <1>1, <3>2, <4>1
      <4> QED
        BY <4>1, <4>2
    <3> QED
      BY <3>1, <3>2
  <2>10. ASSUME NEW m \in DOMAIN s, m # k
         PROVE  \E i \in DOMAIN r : r[i] = s[m]
    <3>1. CASE m < k
      <4>1. m \in DOMAIN r /\ r[m] = s[m]
        BY <1>1, <2>5, <2>6, <3>1
      <4> QED
        BY <4>1
    <3>2. CASE ~(m < k)
      <4>1. m - 1 \in 1..(Len(s) - 1) /\ ~(m - 1 < k) /\ (m - 1) + 1 = m
        BY <1>1, <2>10, <3>2
      <4>2. m - 1 \in DOMAIN r /\ r[m - 1] = s[m]
        BY <2>5, <2>6, <4>1
      <4> QED
        BY <4>2
    <3> QED
      BY <3>1, <3>2
  <2>11. \A m \in DOMAIN s : s[m] = e <=> m = k
    BY <1>1, <2>3, <2>7
  <2> QED
    BY <2>5, <2>8, <2>9, <2>10, <2>11
<1> QED
  BY <1>2, <1>3

(* Whom sysrendezvous finds on the list has the same tag.                  *)
LEMMA WaitingFacts ==
  ASSUME NEW p \in Procs, TypeOK
  PROVE  /\ Waiting(p) # None => OnChain(Waiting(p)) /\ tag[Waiting(p)] = tag[p]
         /\ Waiting(p) = None => \A d \in Procs : OnChain(d) => tag[d] # tag[p]
<1>1. chain \in Seq(Procs) /\ Len(chain) \in Nat /\ DOMAIN chain = 1..Len(chain)
  BY LenProperties DEF TypeOK
<1>2. PICK I : I = {i \in 1..Len(chain) : tag[chain[i]] = tag[p]}
  OBVIOUS
<1>3. SelectInSeq(chain, LAMBDA d : tag[d] = tag[p]) = IF I # {} THEN Min(I) ELSE 0
  BY <1>2 DEF SelectInSeq
<1>4. CASE I = {}
  <2>1. Waiting(p) = None
    BY <1>3, <1>4 DEF Waiting
  <2> QED
    BY <1>1, <1>2, <1>4, <2>1 DEF OnChain
<1>5. CASE I # {}
  <2>1. Min(I) \in I
    <3>1. I \in SUBSET Nat
      BY <1>1, <1>2
    <3> QED
      BY <1>5, <3>1, MinNat
  <2>2. Waiting(p) = chain[Min(I)] /\ Min(I) \in DOMAIN chain
    BY <1>1, <1>2, <1>3, <1>5, <2>1 DEF Waiting
  <2>3. Waiting(p) \in Procs
    BY <1>1, <2>2, ElementOfSeq
  <2> QED
    BY <1>2, <2>1, <2>2, <2>3, RendezAssumption DEF OnChain
<1> QED
  BY <1>4, <1>5
-----------------------------------------------------------------------------
(* At first the lists are empty and nobody is in a call.                   *)
LEMMA InitIInv == Init => IInv
<1> SUFFICES ASSUME Init PROVE IInv
  OBVIOUS
<1> USE RendezAssumption DEF Init
<1>1. TypeOK
  <2>1. pc \in [Procs \cup Posters -> {"user", "enter", "spin", "sched", "away", "return",
                                       "idle", "look", "pull"}]
    OBVIOUS
  <2>2. \A p \in Procs : lock = p <=> pc[p] = "spin"
    OBVIOUS
  <2> QED
    BY <2>1, <2>2 DEF TypeOK, Values
<1>2. Places /\ Spinning
  BY DEF Places, Spinning
<1>3. \A p \in Procs : ~OnChain(p) /\ ~Met(p)
  BY DEF OnChain, Met
<1>4. Waiters /\ ListDistinct
  BY <1>3 DEF Waiters, ListDistinct, IsInjective
<1> QED
  BY <1>1, <1>2, <1>4 DEF IInv

(* What the places of processes and posters tell of each other.            *)
LEMMA Apart ==
  ASSUME TypeOK
  PROVE  /\ \A p \in Procs : p \notin Posters
         /\ chain \in Seq(Procs)
         /\ \A p : OnChain(p) => p \in Procs
<1>1. chain \in Seq(Procs)
  BY DEF TypeOK
<1> QED
  BY <1>1, RendezAssumption DEF OnChain

(* Moves of a process that does not wait, or leaves its processor: the     *)
(* list and the states stay.                                               *)
LEMMA MoveStep ==
  ASSUME IInv, NEW p \in Procs,
         (\E t \in Tags : Call(p, t)) \/ Sched(p) \/ Return(p)
  PROVE  IInv'
<1> USE DEF IInv, Goto, mine, posts
<1>1. /\ state' = state /\ partner' = partner /\ rendval' = rendval
      /\ chain' = chain /\ lock' = lock /\ target' = target /\ noted' = noted
      /\ \A a \in (Procs \cup Posters) \ {p} : pc'[a] = pc[a]
      /\ \A q \in Procs \ {p} : tag'[q] = tag[q] /\ onmach'[q] = onmach[q]
  BY DEF Call, Sched, Return, TypeOK
<1>2. \/ /\ pc[p] = "user" /\ pc'[p] = "enter" /\ tag'[p] \in Tags
         /\ onmach'[p] = onmach[p] /\ val'[p] = val[p]
      \/ /\ pc[p] = "sched" /\ pc'[p] = "away" /\ tag'[p] = tag[p]
         /\ onmach'[p] = FALSE /\ val'[p] = val[p]
      \/ /\ pc[p] = "return" /\ pc'[p] = "user" /\ onmach'[p] = onmach[p]
  BY DEF Call, Sched, Return, TypeOK
<1>3. TypeOK'
  <2>1. /\ pc' \in [Procs \cup Posters -> {"user", "enter", "spin", "sched", "away", "return",
                                          "idle", "look", "pull"}]
        /\ onmach' \in [Procs -> BOOLEAN] /\ notepending' \in [Procs -> BOOLEAN]
    BY ZenonT(60) DEF Call, Sched, Return, TypeOK
  <2>2. tag' \in [Procs -> Tags \cup {None}] /\ val' \in [Procs -> Values]
    BY DEF Call, Sched, Return, TypeOK, Values
  <2>3. \A q \in Procs : lock' = q <=> pc'[q] = "spin"
    BY <1>1, <1>2 DEF TypeOK
  <2> QED
    BY <1>1, <2>1, <2>2, <2>3 DEF TypeOK, Values
<1>4. Places'
  <2>1. \A k \in Posters : pc'[k] = pc[k]
    BY <1>1, Apart
  <2> QED
    BY <1>1, <1>2, <2>1 DEF Places
<1>5. Spinning'
  BY <1>1, <1>2 DEF Spinning
<1>6. \A q \in Procs : (OnChain(q)' <=> OnChain(q)) /\ (Met(q)' <=> Met(q))
  BY <1>1 DEF OnChain, Met
<1>7. Waiters'
  BY <1>1, <1>6 DEF Waiters
<1>8. ListDistinct'
  <2>1. CASE pc[p] = "sched"
    BY <1>1, <1>2, <1>6, <2>1 DEF ListDistinct
  <2>2. CASE pc[p] # "sched"
    <3>1. ~OnChain(p)
      BY <1>2, <2>2 DEF Waiters, Places
    <3> QED
      BY <1>1, <1>6, <3>1 DEF ListDistinct
  <2> QED
    BY <2>1, <2>2
<1> QED
  BY <1>3, <1>4, <1>5, <1>7, <1>8

(* Unlink takes one process off the list and leaves the others there.      *)
LEMMA UnlinkFacts ==
  ASSUME TypeOK, ListDistinct, NEW d, Unlink(d)
  PROVE  /\ chain' \in Seq(Procs) /\ IsInjective(chain')
         /\ \A q : OnChain(q)' <=> OnChain(q) /\ q # d
<1>1. PICK s, r : s = chain /\ r = chain'
  OBVIOUS
<1>2. /\ s \in Seq(Procs) /\ r = RemoveFirst(s, d)
      /\ \A i, j \in DOMAIN s : s[i] = s[j] => i = j
  BY <1>1 DEF TypeOK, ListDistinct, IsInjective, Unlink
<1>3. /\ r \in Seq(Procs)
      /\ \A i, j \in DOMAIN r : r[i] = r[j] => i = j
      /\ \A x : (\E i \in DOMAIN r : r[i] = x) <=> (\E i \in DOMAIN s : s[i] = x) /\ x # d
  BY <1>2, RemoveFirstFacts
<1>4. \A x : (\E i \in DOMAIN chain' : chain'[i] = x)
              <=> (\E i \in DOMAIN chain : chain[i] = x) /\ x # d
  BY <1>1, <1>3
<1> QED
  BY <1>1, <1>3, <1>4 DEF IsInjective, OnChain

(* Who is met goes from the list to the one that spins for it.             *)
LEMMA MeetStep ==
  ASSUME IInv, NEW p \in Procs, Meet(p)
  PROVE  IInv'
<1> USE DEF IInv, Goto, mine, posts
<1> PICK d : d = Waiting(p)
  OBVIOUS
<1>1. d # None /\ OnChain(d) /\ d \in Procs
  BY WaitingFacts, Apart DEF Meet
<1>2. /\ state' = state /\ onmach' = onmach /\ tag' = tag /\ lock = None /\ lock' = p
      /\ target' = target /\ noted' = noted /\ notepending' = notepending
      /\ pc[p] = "enter" /\ pc' = [pc EXCEPT ![p] = "spin"]
      /\ partner' = [partner EXCEPT ![p] = d]
      /\ chain' = RemoveFirst(chain, d)
      /\ val' = [val EXCEPT ![p] = rendval[d]] /\ rendval' = [rendval EXCEPT ![d] = p]
  BY DEF Meet, Unlink, Swap
<1>3. /\ pc'[p] = "spin" /\ \A a \in (Procs \cup Posters) \ {p} : pc'[a] = pc[a]
      /\ partner'[p] = d /\ \A q \in Procs \ {p} : partner'[q] = partner[q]
      /\ \A q \in Procs \ {d} : rendval'[q] = rendval[q]
  BY <1>1, <1>2 DEF TypeOK
<1>4. /\ chain' \in Seq(Procs) /\ IsInjective(chain')
      /\ \A q : OnChain(q)' <=> OnChain(q) /\ q # d
  BY <1>2, UnlinkFacts DEF Unlink
<1>5. TypeOK'
  <2>1. /\ pc' \in [Procs \cup Posters -> {"user", "enter", "spin", "sched", "away", "return",
                                          "idle", "look", "pull"}]
        /\ val' \in [Procs -> Values] /\ rendval' \in [Procs -> Values]
        /\ partner' \in [Procs -> Procs \cup {None}]
    BY <1>1, <1>2 DEF TypeOK, Values
  <2>2. \A q \in Procs : lock' = q <=> pc'[q] = "spin"
    BY <1>2, <1>3, RendezAssumption DEF TypeOK
  <2> QED
    BY <1>2, <1>4, <2>1, <2>2 DEF TypeOK, Values
<1>6. Places'
  <2>1. \A k \in Posters : pc'[k] = pc[k]
    BY <1>3, Apart
  <2> QED
    BY <1>2, <1>3, <2>1 DEF Places
<1>7. Spinning'
  BY <1>1, <1>2, <1>3 DEF Spinning
<1>8. \A q \in Procs : partner[q] = None /\ ~Met(q)
  BY <1>2, RendezAssumption DEF TypeOK, Spinning, Met
<1>9. \A q \in Procs : Met(q)' <=> q = d
  BY <1>3, <1>8, RendezAssumption DEF Met
<1>10. Waiters'
  BY <1>1, <1>2, <1>3, <1>4, <1>8, <1>9 DEF Waiters
<1>11. ListDistinct'
  BY <1>2, <1>4 DEF ListDistinct
<1> QED
  BY <1>5, <1>6, <1>7, <1>10, <1>11

(* Its partner may run, and the lock is free.                              *)
LEMMA SpinStep ==
  ASSUME IInv, NEW p \in Procs, Spin(p)
  PROVE  IInv'
<1> USE DEF IInv, Goto, mine, posts
<1> PICK d : d = partner[p]
  OBVIOUS
<1>1. /\ onmach' = onmach /\ tag' = tag /\ val' = val /\ rendval' = rendval
      /\ chain' = chain /\ notepending' = notepending /\ target' = target /\ noted' = noted
      /\ lock' = None /\ pc[p] = "spin" /\ pc' = [pc EXCEPT ![p] = "return"]
      /\ state' = [state EXCEPT ![d] = "Ready"]
      /\ partner' = [partner EXCEPT ![p] = None] /\ ~onmach[d]
  BY DEF Spin
<1>2. d \in Procs /\ Met(d) /\ ~OnChain(d) /\ pc[d] = "away" /\ d # p
  <2>1. d \in Procs /\ Met(d)
    BY <1>1 DEF TypeOK, Spinning, Met
  <2> QED
    BY <1>1, <2>1 DEF Waiters, Places
<1>3. /\ pc'[p] = "return" /\ \A a \in (Procs \cup Posters) \ {p} : pc'[a] = pc[a]
      /\ partner'[p] = None /\ \A q \in Procs \ {p} : partner'[q] = partner[q]
      /\ state'[d] = "Ready" /\ \A q \in Procs \ {d} : state'[q] = state[q]
  BY <1>1, <1>2 DEF TypeOK
<1>4. \A q \in Procs \ {p} : pc[q] # "spin" /\ partner[q] = None
  BY <1>1 DEF TypeOK, Spinning
<1>5. TypeOK'
  <2>1. /\ pc' \in [Procs \cup Posters -> {"user", "enter", "spin", "sched", "away", "return",
                                          "idle", "look", "pull"}]
        /\ state' \in [Procs -> {"Running", "Rendezvous", "Ready"}]
        /\ partner' \in [Procs -> Procs \cup {None}]
    BY <1>1, <1>2 DEF TypeOK
  <2>2. \A q \in Procs : lock' = q <=> pc'[q] = "spin"
    BY <1>1, <1>3, <1>4, RendezAssumption
  <2> QED
    BY <1>1, <2>1, <2>2 DEF TypeOK, Values
<1>6. Places'
  <2>1. \A k \in Posters : pc'[k] = pc[k]
    BY <1>3, Apart
  <2> QED
    BY <1>1, <1>2, <1>3, <2>1 DEF Places
<1>7. Spinning'
  BY <1>1, <1>3, <1>4 DEF Spinning
<1>8. /\ \A q \in Procs : OnChain(q)' <=> OnChain(q)
      /\ \A q \in Procs : ~Met(q)'
      /\ \A q \in Procs : Met(q) => q = d
  BY <1>1, <1>3, <1>4, RendezAssumption DEF OnChain, Met
<1>9. Waiters'
  BY <1>1, <1>2, <1>3, <1>8 DEF Waiters
<1>10. ListDistinct'
  BY <1>1, <1>8 DEF ListDistinct
<1> QED
  BY <1>5, <1>6, <1>7, <1>9, <1>10

(* Who finds nobody of its tag joins the list.                             *)
LEMMA WaitStep ==
  ASSUME IInv, NEW p \in Procs, Wait(p)
  PROVE  IInv'
<1> USE DEF IInv, Goto, mine, posts
<1>1. /\ onmach' = onmach /\ tag' = tag /\ val' = val /\ partner' = partner
      /\ notepending' = notepending /\ lock' = lock /\ target' = target /\ noted' = noted
      /\ pc[p] = "enter" /\ pc' = [pc EXCEPT ![p] = "sched"] /\ Waiting(p) = None
      /\ rendval' = [rendval EXCEPT ![p] = p] /\ chain' = Append(chain, p)
      /\ state' = [state EXCEPT ![p] = "Rendezvous"]
  BY DEF Wait
<1>2. /\ pc'[p] = "sched" /\ \A a \in (Procs \cup Posters) \ {p} : pc'[a] = pc[a]
      /\ state'[p] = "Rendezvous" /\ \A q \in Procs \ {p} : state'[q] = state[q]
      /\ rendval'[p] = p /\ \A q \in Procs \ {p} : rendval'[q] = rendval[q]
  BY <1>1 DEF TypeOK
<1>3. ~OnChain(p) /\ ~Met(p)
  BY <1>1 DEF Waiters, Places
<1>4. /\ chain' \in Seq(Procs) /\ Len(chain') = Len(chain) + 1 /\ Len(chain) \in Nat
      /\ \A i \in 1..Len(chain) : chain'[i] = chain[i]
      /\ chain'[Len(chain) + 1] = p
      /\ DOMAIN chain = 1..Len(chain) /\ DOMAIN chain' = 1..(Len(chain) + 1)
  <2>1. chain \in Seq(Procs)
    BY DEF TypeOK
  <2>2. /\ chain' \in Seq(Procs) /\ Len(chain') = Len(chain) + 1
        /\ \A i \in 1..Len(chain) : chain'[i] = chain[i]
        /\ chain'[Len(chain) + 1] = p
    BY <1>1, <2>1, AppendProperties
  <2> QED
    BY <2>1, <2>2, LenProperties
<1>5. \A q : OnChain(q)' <=> (OnChain(q) \/ q = p)
  BY <1>4 DEF OnChain
<1>6. \A q \in Procs : Met(q)' <=> Met(q)
  BY <1>1 DEF Met
<1>7. TypeOK'
  <2>1. /\ pc' \in [Procs \cup Posters -> {"user", "enter", "spin", "sched", "away", "return",
                                          "idle", "look", "pull"}]
        /\ state' \in [Procs -> {"Running", "Rendezvous", "Ready"}]
        /\ rendval' \in [Procs -> Values]
    BY <1>1 DEF TypeOK, Values
  <2>2. \A q \in Procs : lock' = q <=> pc'[q] = "spin"
    BY <1>1, <1>2 DEF TypeOK
  <2> QED
    BY <1>1, <1>4, <2>1, <2>2 DEF TypeOK, Values
<1>8. Places'
  <2>1. \A k \in Posters : pc'[k] = pc[k]
    BY <1>2, Apart
  <2> QED
    BY <1>1, <1>2, <2>1 DEF Places
<1>9. Spinning'
  BY <1>1, <1>2 DEF Spinning
<1>10. Waiters'
  BY <1>2, <1>3, <1>5, <1>6 DEF Waiters
<1>11. ListDistinct'
  <2>1. IsInjective(chain')
    <3> SUFFICES ASSUME NEW i \in DOMAIN chain', NEW j \in DOMAIN chain', chain'[i] = chain'[j]
                 PROVE  i = j
      BY DEF IsInjective
    <3>1. CASE i \in DOMAIN chain /\ j \in DOMAIN chain
      BY <1>4, <3>1 DEF ListDistinct, IsInjective
    <3>2. CASE i \notin DOMAIN chain \/ j \notin DOMAIN chain
      BY <1>3, <1>4, <3>2 DEF OnChain
    <3> QED
      BY <3>1, <3>2
  <2>2. \A d \in Procs : OnChain(d) => tag[d] # tag[p]
    BY <1>1, WaitingFacts
  <2> QED
    BY <1>1, <1>5, <2>1, <2>2 DEF ListDistinct
<1> QED
  BY <1>7, <1>8, <1>9, <1>10, <1>11

(* A process that resumes is on no list.                                   *)
LEMMA ResumeStep ==
  ASSUME IInv, NEW p \in Procs, Resume(p)
  PROVE  IInv'
<1> USE DEF IInv, Goto, mine, posts
<1>1. /\ tag' = tag /\ partner' = partner /\ notepending' = notepending /\ rendval' = rendval
      /\ chain' = chain /\ lock' = lock /\ target' = target /\ noted' = noted
      /\ pc[p] = "away" /\ pc' = [pc EXCEPT ![p] = "return"] /\ state[p] = "Ready"
      /\ state' = [state EXCEPT ![p] = "Running"]
      /\ onmach' = [onmach EXCEPT ![p] = TRUE] /\ val' = [val EXCEPT ![p] = rendval[p]]
  BY DEF Resume
<1>2. /\ pc'[p] = "return" /\ \A a \in (Procs \cup Posters) \ {p} : pc'[a] = pc[a]
      /\ state'[p] = "Running" /\ \A q \in Procs \ {p} : state'[q] = state[q]
      /\ onmach'[p] = TRUE /\ \A q \in Procs \ {p} : onmach'[q] = onmach[q]
  BY <1>1 DEF TypeOK
<1>3. \A q \in Procs : (OnChain(q)' <=> OnChain(q)) /\ (Met(q)' <=> Met(q))
  BY <1>1 DEF OnChain, Met
<1>4. TypeOK'
  <2>1. /\ pc' \in [Procs \cup Posters -> {"user", "enter", "spin", "sched", "away", "return",
                                          "idle", "look", "pull"}]
        /\ state' \in [Procs -> {"Running", "Rendezvous", "Ready"}]
        /\ onmach' \in [Procs -> BOOLEAN] /\ val' \in [Procs -> Values]
    BY <1>1 DEF TypeOK, Values
  <2>2. \A q \in Procs : lock' = q <=> pc'[q] = "spin"
    BY <1>1, <1>2 DEF TypeOK
  <2> QED
    BY <1>1, <2>1, <2>2 DEF TypeOK, Values
<1>5. Places'
  <2>1. \A k \in Posters : pc'[k] = pc[k]
    BY <1>2, Apart
  <2> QED
    BY <1>1, <1>2, <2>1 DEF Places
<1>6. Spinning'
  BY <1>1, <1>2 DEF Spinning
<1>7. Waiters'
  BY <1>1, <1>2, <1>3 DEF Waiters
<1>8. ListDistinct'
  BY <1>1, <1>3 DEF ListDistinct
<1> QED
  BY <1>4, <1>5, <1>6, <1>7, <1>8

(* A poster that only looks, or begins to.                                 *)
LEMMA LookStep ==
  ASSUME IInv, NEW k \in Posters, Look(k) \/ \E p \in Procs : PostNote(k, p)
  PROVE  IInv'
<1> USE DEF IInv, Goto, mine, posts
<1>1. /\ state' = state /\ onmach' = onmach /\ tag' = tag /\ val' = val
      /\ partner' = partner /\ rendval' = rendval /\ chain' = chain /\ lock' = lock
      /\ \A p \in Procs : pc'[p] = pc[p]
      /\ \A l \in Posters \ {k} : pc'[l] = pc[l] /\ target'[l] = target[l]
      /\ pc'[k] \in {"idle", "look", "pull"}
      /\ pc'[k] # "idle" => target'[k] \in Procs
  <2>1. CASE Look(k)
    BY <2>1, Apart DEF Look, TypeOK, Places
  <2>2. ASSUME NEW p \in Procs, PostNote(k, p)
        PROVE  /\ state' = state /\ onmach' = onmach /\ tag' = tag /\ val' = val
               /\ partner' = partner /\ rendval' = rendval /\ chain' = chain /\ lock' = lock
               /\ \A q \in Procs : pc'[q] = pc[q]
               /\ \A l \in Posters \ {k} : pc'[l] = pc[l] /\ target'[l] = target[l]
               /\ pc'[k] = "look" /\ target'[k] \in Procs
    BY <2>2, Apart DEF PostNote, TypeOK
  <2> QED
    BY <2>1, <2>2
<1>2. TypeOK'
  <2>1. pc' \in [Procs \cup Posters -> {"user", "enter", "spin", "sched", "away", "return",
                                        "idle", "look", "pull"}]
    <3>1. CASE Look(k)
      BY <3>1 DEF Look, TypeOK
    <3>2. CASE \E p \in Procs : PostNote(k, p)
      BY <3>2 DEF PostNote, TypeOK
    <3> QED
      BY <3>1, <3>2
  <2>2. /\ notepending' \in [Procs -> BOOLEAN]
        /\ target' \in [Posters -> Procs \cup {None}] /\ noted' \in 0..Notes
    <3>1. CASE Look(k)
      BY <3>1 DEF Look, TypeOK
    <3>2. CASE \E p \in Procs : PostNote(k, p)
      BY <3>2, RendezAssumption DEF PostNote, TypeOK
    <3> QED
      BY <3>1, <3>2
  <2> QED
    BY <1>1, <2>1, <2>2 DEF TypeOK, Values
<1>3. Places' /\ Spinning'
  BY <1>1 DEF Places, Spinning
<1>4. \A q \in Procs : (OnChain(q)' <=> OnChain(q)) /\ (Met(q)' <=> Met(q))
  BY <1>1 DEF OnChain, Met
<1>5. Waiters' /\ ListDistinct'
  BY <1>1, <1>4 DEF Waiters, ListDistinct
<1> QED
  BY <1>2, <1>3, <1>5

(* A note takes a waiter off the list, if it is still there: nobody spins  *)
(* while the poster has the lock.                                          *)
LEMMA PullStep ==
  ASSUME IInv, NEW k \in Posters, Pull(k)
  PROVE  IInv'
<1> USE DEF IInv, Goto, mine, posts
<1> PICK p : p = target[k]
  OBVIOUS
<1>1. /\ onmach' = onmach /\ tag' = tag /\ val' = val /\ partner' = partner
      /\ notepending' = notepending /\ lock = None /\ lock' = lock
      /\ target' = target /\ noted' = noted
      /\ pc[k] = "pull" /\ pc' = [pc EXCEPT ![k] = "idle"] /\ p \in Procs
  BY DEF Pull, Places
<1>2. /\ pc'[k] = "idle" /\ \A l \in Posters \ {k} : pc'[l] = pc[l]
      /\ \A q \in Procs : pc'[q] = pc[q]
      /\ pc' \in [Procs \cup Posters -> {"user", "enter", "spin", "sched", "away", "return",
                                        "idle", "look", "pull"}]
  BY <1>1, Apart DEF TypeOK
<1>3. \A q \in Procs : partner[q] = None /\ ~Met(q) /\ ~Met(q)'
  BY <1>1, RendezAssumption DEF TypeOK, Spinning, Met
<1>4. \A q \in Procs : lock' = q <=> pc'[q] = "spin"
  BY <1>1, <1>2 DEF TypeOK
<1>5. CASE state[p] # "Rendezvous"
  <2>1. rendval' = rendval /\ chain' = chain /\ state' = state
    BY <1>5 DEF Pull
  <2>2. TypeOK'
    BY <1>1, <1>2, <1>4, <2>1 DEF TypeOK, Values
  <2>3. Places' /\ Spinning'
    BY <1>1, <1>2, <2>1 DEF Places, Spinning
  <2>4. \A q \in Procs : (OnChain(q)' <=> OnChain(q))
    BY <2>1 DEF OnChain
  <2> QED
    BY <1>1, <1>3, <2>1, <2>2, <2>3, <2>4 DEF Waiters, ListDistinct
<1>6. CASE state[p] = "Rendezvous"
  <2>1. /\ rendval' = [rendval EXCEPT ![p] = Intr] /\ chain' = RemoveFirst(chain, p)
        /\ state' = [state EXCEPT ![p] = "Ready"]
    BY <1>6 DEF Pull, Unlink
  <2>2. /\ state'[p] = "Ready" /\ \A q \in Procs \ {p} : state'[q] = state[q]
        /\ \A q \in Procs \ {p} : rendval'[q] = rendval[q]
    BY <1>1, <2>1 DEF TypeOK
  <2>3. /\ chain' \in Seq(Procs) /\ IsInjective(chain')
        /\ \A q : OnChain(q)' <=> OnChain(q) /\ q # p
    BY <2>1, UnlinkFacts DEF Unlink
  <2>4. TypeOK'
    <3>1. /\ state' \in [Procs -> {"Running", "Rendezvous", "Ready"}]
          /\ rendval' \in [Procs -> Values]
      BY <1>1, <2>1 DEF TypeOK, Values
    <3> QED
      BY <1>1, <1>2, <1>4, <2>3, <3>1 DEF TypeOK, Values
  <2>5. Places' /\ Spinning'
    BY <1>1, <1>2, <1>6, <2>2 DEF Places, Spinning
  <2>6. Waiters'
    BY <1>1, <1>3, <2>2, <2>3 DEF Waiters
  <2>7. ListDistinct'
    BY <1>1, <2>3 DEF ListDistinct
  <2> QED
    BY <2>4, <2>5, <2>6, <2>7
<1> QED
  BY <1>5, <1>6

(* Every step keeps it,                                                    *)
LEMMA StepIInv == IInv /\ [Next]_vars => IInv'
<1> SUFFICES ASSUME IInv, [Next]_vars PROVE IInv'
  OBVIOUS
<1>1. ASSUME NEW p \in Procs, Proceed(p) \/ \E t \in Tags : Call(p, t) PROVE IInv'
  BY <1>1, MoveStep, MeetStep, SpinStep, WaitStep, ResumeStep DEF Proceed
<1>2. ASSUME NEW k \in Posters, Post(k) \/ \E p \in Procs : PostNote(k, p) PROVE IInv'
  BY <1>2, LookStep, PullStep DEF Post
<1>3. CASE UNCHANGED vars
  BY <1>3 DEF vars, mine, posts, IInv, TypeOK, Values, Places, Spinning, Waiters,
              ListDistinct, OnChain, Met
<1> QED
  BY <1>1, <1>2, <1>3 DEF Next

(* so it holds always.                                                     *)
LEMMA Inductive == Spec => []IInv
BY InitIInv, StepIInv, PTL DEF Spec
-----------------------------------------------------------------------------
(* Where a process is for rendezvous(2), as the refinement mapping of      *)
(* Rendez has it.                                                          *)
Place(p) == IF pc[p] = "user" THEN [in |-> "out"]
            ELSE IF pc[p] = "enter" \/ OnChain(p) THEN [in |-> "call", tag |-> tag[p]]
            ELSE [in |-> "met", value |-> IF pc[p] \in {"spin", "return"} THEN val[p]
                                                                          ELSE rendval[p]]
At == [p \in Procs |-> Place(p)]

(* The actions of Exchange under that mapping.                             *)
LEMMA Mapped ==
  /\ X!Init <=> At = [p \in Procs |-> X!Out]
  /\ \A p, t : X!Arrive(p, t) <=> At[p] = X!Out /\ At' = [At EXCEPT ![p] = X!In(t)]
  /\ \A p, q, t : X!Meet(p, q, t) <=>
        /\ p # q /\ At[p] = X!In(t) /\ At[q] = X!In(t)
        /\ At' = [At EXCEPT ![p] = X!Got(q), ![q] = X!Got(p)]
  /\ \A p, t : X!Interrupt(p, t) <=>
        At[p] = X!In(t) /\ At' = [At EXCEPT ![p] = X!Got(Intr)]
  /\ \A p : X!Leave(p) <=> At[p].in = "met" /\ At' = [At EXCEPT ![p] = X!Out]
BY DEF At, Place, OnChain, X!Init, X!Arrive, X!Meet, X!Interrupt, X!Leave

(* A step of one process as a step of the mapping.                         *)
LEMMA OneMoves ==
  ASSUME NEW p \in Procs, NEW a, Place(p)' = a,
         \A q \in Procs \ {p} : Place(q)' = Place(q)
  PROVE  At' = [At EXCEPT ![p] = a]
BY DEF At

(* Where nobody changes place, the exchange sees no step.                  *)
LEMMA NobodyMoves ==
  ASSUME \A q \in Procs : Place(q)' = Place(q)
  PROVE  At' = At
BY DEF At

(* A call is a call of the exchange.                                       *)
LEMMA CallExchange ==
  ASSUME IInv, NEW p \in Procs, NEW t \in Tags, Call(p, t)
  PROVE  X!Arrive(p, t)
<1> USE DEF IInv, Call, Goto
<1>1. pc[p] = "user" /\ pc'[p] = "enter" /\ tag'[p] = t
      /\ \A q \in Procs \ {p} : pc'[q] = pc[q] /\ tag'[q] = tag[q]
  BY DEF TypeOK
<1>2. \A q : OnChain(q)' <=> OnChain(q)
  BY DEF OnChain
<1>3. At[p] = X!Out
  BY <1>1 DEF At, Place, X!Out
<1>4. Place(p)' = X!In(t)
  BY <1>1 DEF Place, X!In
<1>5. \A q \in Procs \ {p} : Place(q)' = Place(q)
  BY <1>1, <1>2 DEF Place
<1> QED
  BY <1>3, <1>4, <1>5, OneMoves, Mapped

(* The two that meet leave with each other's value.                        *)
LEMMA MeetExchange ==
  ASSUME IInv, NEW p \in Procs, Meet(p)
  PROVE  \E d \in Procs, t \in Tags : X!Meet(p, d, t)
<1> USE DEF IInv, Goto
<1> PICK d : d = Waiting(p)
  OBVIOUS
<1>1. d \in Procs /\ OnChain(d) /\ tag[d] = tag[p] /\ Unlink(d)
  BY WaitingFacts, Apart DEF Meet
<1>2. /\ pc[p] = "enter" /\ pc'[p] = "spin" /\ tag' = tag /\ tag[p] \in Tags
      /\ \A q \in Procs \ {p} : pc'[q] = pc[q]
      /\ val'[p] = rendval[d] /\ \A q \in Procs \ {p} : val'[q] = val[q]
      /\ rendval'[d] = p /\ \A q \in Procs \ {d} : rendval'[q] = rendval[q]
  BY <1>1 DEF Meet, Swap, TypeOK, Places
<1>3. rendval[d] = d /\ pc[d] \in {"sched", "away"} /\ ~OnChain(p) /\ d # p
  BY <1>1, <1>2 DEF Waiters, Places
<1>4. \A q : OnChain(q)' <=> OnChain(q) /\ q # d
  BY <1>1, UnlinkFacts
<1>5. At[p] = X!In(tag[p]) /\ At[d] = X!In(tag[p])
  BY <1>1, <1>2, <1>3 DEF At, Place, X!In
<1>6. Place(p)' = X!Got(d)
  BY <1>2, <1>3, <1>4 DEF Place, X!Got
<1>7. Place(d)' = X!Got(p)
  <2>1. pc'[d] \in {"sched", "away"} /\ rendval'[d] = p
    BY <1>1, <1>2, <1>3
  <2>2. ~OnChain(d)'
    BY <1>4
  <2> QED
    BY <2>1, <2>2 DEF Place, X!Got
<1>8. \A q \in Procs \ {p, d} : Place(q)' = Place(q)
  BY <1>2, <1>4 DEF Place
<1>9. At' = [At EXCEPT ![p] = X!Got(d), ![d] = X!Got(p)]
  BY <1>1, <1>6, <1>7, <1>8, <1>3 DEF At
<1> QED
  BY <1>1, <1>2, <1>3, <1>5, <1>9, Mapped

(* A return is a return of the exchange.                                   *)
LEMMA ReturnExchange ==
  ASSUME IInv, NEW p \in Procs, Return(p)
  PROVE  X!Leave(p)
<1> USE DEF IInv, Return, Goto
<1>1. pc[p] = "return" /\ pc'[p] = "user"
      /\ \A q \in Procs \ {p} : pc'[q] = pc[q] /\ tag'[q] = tag[q] /\ val'[q] = val[q]
  BY DEF TypeOK
<1>2. \A q : OnChain(q)' <=> OnChain(q)
  BY DEF OnChain
<1>3. ~OnChain(p)
  BY <1>1 DEF Waiters, Places
<1>4. At[p].in = "met"
  BY <1>1, <1>3 DEF At, Place
<1>5. Place(p)' = X!Out
  BY <1>1 DEF Place, X!Out
<1>6. \A q \in Procs \ {p} : Place(q)' = Place(q)
  BY <1>1, <1>2 DEF Place
<1> QED
  BY <1>4, <1>5, <1>6, OneMoves, Mapped

(* Who is pulled out leaves with ~0.                                       *)
LEMMA PullExchange ==
  ASSUME IInv, NEW k \in Posters, Pull(k)
  PROVE  (\E p \in Procs, t \in Tags : X!Interrupt(p, t)) \/ At' = At
<1> USE DEF IInv, Goto
<1> PICK p : p = target[k]
  OBVIOUS
<1>1. /\ lock = None /\ pc[k] = "pull" /\ p \in Procs /\ tag' = tag /\ val' = val
      /\ \A q \in Procs : pc'[q] = pc[q]
  BY Apart DEF Pull, Places, TypeOK, mine
<1>2. CASE state[p] # "Rendezvous"
  <2>1. rendval' = rendval /\ \A q : OnChain(q)' <=> OnChain(q)
    BY <1>2 DEF Pull, OnChain
  <2> QED
    BY <1>1, <2>1, NobodyMoves DEF Place
<1>3. CASE state[p] = "Rendezvous"
  <2>1. OnChain(p)
    BY <1>1, <1>3, RendezAssumption DEF Waiters, Met, TypeOK, Spinning
  <2>2. /\ pc[p] \in {"sched", "away"} /\ tag[p] \in Tags
    BY <1>1, <1>3 DEF Places
  <2>3. /\ rendval'[p] = Intr /\ \A q \in Procs \ {p} : rendval'[q] = rendval[q]
        /\ Unlink(p)
    BY <1>1, <1>3 DEF Pull, TypeOK
  <2>4. \A q : OnChain(q)' <=> OnChain(q) /\ q # p
    BY <2>3, UnlinkFacts
  <2>5. At[p] = X!In(tag[p])
    BY <1>1, <2>1, <2>2 DEF At, Place, X!In
  <2>6. Place(p)' = X!Got(Intr)
    BY <1>1, <2>2, <2>3, <2>4 DEF Place, X!Got
  <2>7. \A q \in Procs \ {p} : Place(q)' = Place(q)
    BY <1>1, <2>3, <2>4 DEF Place
  <2>8. At' = [At EXCEPT ![p] = X!Got(Intr)]
    BY <1>1, <2>6, <2>7, OneMoves
  <2>9. PICK t \in Tags : t = tag[p]
    BY <2>2
  <2>10. X!Interrupt(p, t)
    BY <2>5, <2>8, <2>9, Mapped
  <2> QED
    BY <1>1, <2>9, <2>10
<1> QED
  BY <1>2, <1>3

(* The other steps are inside the exchange.                                *)
LEMMA QuietSteps ==
  ASSUME IInv,
         \/ \E p \in Procs : Spin(p) \/ Wait(p) \/ Sched(p) \/ Resume(p)
         \/ \E k \in Posters : Look(k) \/ \E p \in Procs : PostNote(k, p)
         \/ UNCHANGED vars
  PROVE  At' = At
<1> USE DEF IInv, Goto, mine
<1>1. ASSUME NEW p \in Procs, Spin(p) PROVE At' = At
  <2>1. /\ \A q : OnChain(q)' <=> OnChain(q)
        /\ tag' = tag /\ val' = val /\ rendval' = rendval
        /\ pc[p] = "spin" /\ pc'[p] = "return" /\ \A q \in Procs \ {p} : pc'[q] = pc[q]
    BY <1>1 DEF Spin, OnChain, TypeOK
  <2> QED
    BY <2>1, NobodyMoves DEF Place
<1>2. ASSUME NEW p \in Procs, Wait(p) PROVE At' = At
  <2>1. /\ tag' = tag /\ val' = val /\ chain' = Append(chain, p)
        /\ \A q \in Procs \ {p} : rendval'[q] = rendval[q]
        /\ pc[p] = "enter" /\ pc'[p] = "sched" /\ \A q \in Procs \ {p} : pc'[q] = pc[q]
    BY <1>2 DEF Wait, TypeOK
  <2>2. /\ Len(chain') = Len(chain) + 1 /\ Len(chain) \in Nat
        /\ \A i \in 1..Len(chain) : chain'[i] = chain[i]
        /\ chain'[Len(chain) + 1] = p
        /\ DOMAIN chain = 1..Len(chain) /\ DOMAIN chain' = 1..(Len(chain) + 1)
    <3>1. chain \in Seq(Procs)
      BY DEF TypeOK
    <3> QED
      BY <2>1, <3>1, AppendProperties, LenProperties
  <2>3. \A q \in Procs : OnChain(q)' <=> (OnChain(q) \/ q = p)
    BY <2>2 DEF OnChain
  <2> QED
    BY <2>1, <2>3, NobodyMoves DEF Place
<1>3. ASSUME NEW p \in Procs, Sched(p) PROVE At' = At
  <2>1. /\ \A q : OnChain(q)' <=> OnChain(q)
        /\ tag' = tag /\ val' = val /\ rendval' = rendval
        /\ pc[p] = "sched" /\ pc'[p] = "away" /\ \A q \in Procs \ {p} : pc'[q] = pc[q]
    BY <1>3 DEF Sched, OnChain, TypeOK
  <2> QED
    BY <2>1, NobodyMoves DEF Place
<1>4. ASSUME NEW p \in Procs, Resume(p) PROVE At' = At
  <2>1. /\ \A q : OnChain(q)' <=> OnChain(q)
        /\ tag' = tag /\ rendval' = rendval /\ val'[p] = rendval[p]
        /\ \A q \in Procs \ {p} : val'[q] = val[q]
        /\ pc[p] = "away" /\ pc'[p] = "return" /\ \A q \in Procs \ {p} : pc'[q] = pc[q]
    BY <1>4 DEF Resume, OnChain, TypeOK
  <2>2. ~OnChain(p)
    BY <1>4 DEF Resume, Waiters
  <2> QED
    BY <2>1, <2>2, NobodyMoves DEF Place
<1>5. ASSUME NEW k \in Posters, Look(k) \/ \E p \in Procs : PostNote(k, p) PROVE At' = At
  <2>1. /\ \A q : OnChain(q)' <=> OnChain(q)
        /\ tag' = tag /\ val' = val /\ rendval' = rendval
        /\ \A q \in Procs : pc'[q] = pc[q]
    BY <1>5, Apart DEF Look, PostNote, OnChain, TypeOK
  <2> QED
    BY <2>1, NobodyMoves DEF Place
<1>6. CASE UNCHANGED vars
  BY <1>6, NobodyMoves DEF vars, Place, OnChain
<1> QED
  BY <1>1, <1>2, <1>3, <1>4, <1>5, <1>6

(* Every step is one of the exchange, or is not seen there.                *)
LEMMA StepExchange == IInv /\ [Next]_vars => X!Next \/ At' = At
<1> SUFFICES ASSUME IInv, [Next]_vars PROVE X!Next \/ At' = At
  OBVIOUS
<1>1. ASSUME NEW p \in Procs, NEW t \in Tags, Call(p, t) PROVE X!Next
  BY <1>1, CallExchange DEF X!Next
<1>2. ASSUME NEW p \in Procs, Proceed(p) PROVE X!Next \/ At' = At
  BY <1>2, MeetExchange, ReturnExchange, QuietSteps DEF Proceed, X!Next
<1>3. ASSUME NEW k \in Posters, Post(k) \/ \E p \in Procs : PostNote(k, p)
      PROVE  X!Next \/ At' = At
  BY <1>3, PullExchange, QuietSteps DEF Post, X!Next
<1>4. CASE UNCHANGED vars
  BY <1>4, QuietSteps
<1> QED
  BY <1>1, <1>2, <1>3, <1>4 DEF Next
-----------------------------------------------------------------------------
(* Every variable keeps its type, and the lock is held exactly by who      *)
(* spins (sysproc.c:653-696).                                              *)
THEOREM TypeCorrect == Spec => []TypeOK
BY Inductive, PTL DEF IInv

(* The list has everyone who waits to be met, once, and at most one of     *)
(* each tag; who waits and is not on it is somebody's partner              *)
(* (sysproc.c:660-692; proc.c:548-562).                                    *)
THEOREM ListIsExact == Spec => []ListExact
<1>1. IInv => ListExact
  <2> SUFFICES ASSUME IInv PROVE ListExact
    OBVIOUS
  <2>1. chain \in Seq(Procs) /\ \A i \in DOMAIN chain : chain[i] \in Procs
    BY DEF IInv, TypeOK
  <2>2. \A p \in Procs : state[p] = "Rendezvous" <=>
            (\E i \in DOMAIN chain : chain[i] = p) # (\E q \in Procs : partner[q] = p)
    BY Zenon DEF IInv, Waiters, OnChain, Met
  <2>3. \A i, j \in DOMAIN chain : tag[chain[i]] = tag[chain[j]] => i = j
    BY <2>1 DEF IInv, ListDistinct, OnChain, IsInjective
  <2> QED
    BY <2>2, <2>3 DEF IInv, ListDistinct, ListExact
<1> QED
  BY <1>1, Inductive, PTL

(* sysrendezvous and postnote implement rendezvous(2): who meets leaves    *)
(* with the other's value, who is interrupted leaves with ~0 and nobody    *)
(* else has its value (sysproc.c:664-692; proc.c:551-557).                 *)
THEOREM Implements == Spec => ValuesExchanged
<1>1. Init => X!Init
  <2> SUFFICES ASSUME Init PROVE X!Init
    OBVIOUS
  <2>1. At = [p \in Procs |-> X!Out]
    BY DEF Init, At, Place, X!Out
  <2> QED
    BY <2>1, Mapped
<1>2. IInv /\ [Next]_vars => [X!Next]_(At)
  BY StepExchange
<1>3. X!Spec <=> X!Init /\ [][X!Next]_(At)
  BY DEF X!Spec, At, Place, OnChain
<1> QED
  BY <1>1, <1>2, <1>3, Inductive, PTL DEF Spec, ValuesExchanged
=============================================================================
