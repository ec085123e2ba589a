------------------------------ MODULE PageProofs ------------------------------
(***************************************************************************)
(* Proofs about pages, for any number of processes, segments, pages and    *)
(* places on the swap device, and whatever becomes of the free list: the   *)
(* uses of a page are counted, and the cache has the file's data.          *)
(***************************************************************************)
EXTENDS Page, FiniteSetTheorems, SequenceTheorems, TLAPS

Places == {"user", "fault", "check", "take", "claim", "load", "relock", "map", "dup", "copy"}
Lists  == [head : Pages \cup {None}, tail : Pages \cup {None},
           next : [Pages -> Pages \cup {None}], prev : [Pages -> Pages \cup {None}]]

(* TypeOK without the bounds on the counts and without the locks.          *)
ProcTypes ==
    /\ pc \in [Procs -> Places]
    /\ at \in [Procs -> Segs \cup {None}] /\ write \in [Procs -> BOOLEAN]
    /\ key \in [Procs -> Keys \cup {None}] /\ page \in [Procs -> Pages \cup {None}]
SegTypes ==
    /\ lk \in [Segs -> Procs \cup {None}]
    /\ slot \in [Segs -> Pages \cup Swaps \cup {None}] /\ holds \in [Segs -> Data]
PageTypes ==
    /\ ref \in [Pages -> Int] /\ plock \in [Pages -> Procs \cup {None}]
    /\ tag \in [Pages -> Keys \cup {None}] /\ chain \in [Keys -> Seq(Pages)]
    /\ content \in [Pages -> Data]
PoolTypes ==
    /\ list \in Lists /\ freecount \in 0..Word - 1
    /\ swref \in [Swaps -> Int] /\ swdata \in [Swaps -> Data]
    /\ io \in (Pages \X Swaps) \cup {None}
Types == ProcTypes /\ SegTypes /\ PageTypes /\ PoolTypes

(* A process is in a fault of a segment of its own.                        *)
Located == \A p \in Procs : IF pc[p] = "user" THEN at[p] = None
                            ELSE at[p] \in Segs /\ p \in Users[at[p]]

(* Where a process has locked its segment, and where the segment's page.   *)
Locked == \A p \in Procs : pc[p] \in {"check", "map", "dup", "copy"} => lk[at[p]] = p
PageLocked ==
    /\ \A q \in Pages : plock[q] # None => pc[plock[q]] = "dup" /\ slot[at[plock[q]]] = q
    /\ \A p \in Procs : pc[p] = "dup" => slot[at[p]] \in Pages /\ plock[slot[at[p]]] = p

(* What it looks for: something exactly when it is after a copy of a file  *)
(* or of a place on the device, and then, unless it has found a page, with *)
(* the segment unlocked.                                                   *)
Keyed == \A p \in Procs : LET s == at[p]  k == key[p] IN
    /\ pc[p] \in {"user", "fault", "map", "dup", "copy"} => k = None
    /\ pc[p] \in {"check", "load", "relock"} => k # None
    /\ pc[p] \in {"take", "claim"} => (k = None <=> lk[s] = p)
    /\ k \in Blocks => Kind[s] \notin {"bss", "shared"}
    /\ k \in Swaps => Kind[s] \in {"data", "bss", "shared"} /\ slot[s] \in Pages \cup Swaps
    /\ pc[p] = "check" => slot[s] = IF k \in Swaps THEN k ELSE None
    /\ pc[p] \in {"take", "claim", "copy"} /\ k = None => slot[s] \notin Swaps
    /\ pc[p] \in {"check", "claim", "load", "relock", "copy", "dup"} => page[p] # None

(* Only these are ever paged out to the device.                            *)
OutKind == \A s \in Segs : slot[s] \in Swaps => Kind[s] \in {"data", "bss", "shared"}

(* The page newpage gave a process is nobody else's, and a copy of nothing.*)
Has(p) == pc[p] \in {"load", "relock", "copy"}
Own == \A p \in Procs : Has(p) =>
    /\ tag[page[p]] = None
    /\ \A s \in Segs : slot[s] # page[p]
    /\ \A r \in Procs : r # p /\ Has(r) => page[r] # page[p]
    /\ io # None => io[1] # page[p]

(* What is about to enter the cache is right too, and a shared segment,    *)
(* which is written in place, has no page of a file.                       *)
Loaded  == \A p \in Procs : pc[p] = "relock" /\ key[p] \in Blocks =>
                                content[page[p]] = Fresh(key[p])
NotFile == \A s \in Segs : Kind[s] = "shared" /\ slot[s] \in Pages => tag[slot[s]] \notin Blocks

(* The inductive invariant.                                                *)
IInv == Types /\ Located /\ Locked /\ PageLocked /\ Keyed /\ OutKind /\ Own /\ RefExact
        /\ CacheIsRight /\ Loaded /\ NotFile
-----------------------------------------------------------------------------
(* The size of a set of which only x may have come or gone.                *)
LEMMA OneChanged ==
  ASSUME NEW A, NEW B, NEW x, IsFiniteSet(A), B \ {x} = A \ {x}
  PROVE  /\ IsFiniteSet(B)
         /\ Cardinality(B) = Cardinality(A) + (IF x \in B THEN 1 ELSE 0) - (IF x \in A THEN 1 ELSE 0)
<1>1. IsFiniteSet(A \ {x}) /\ Cardinality(A \ {x}) \in Nat /\ Cardinality(A) \in Nat
      /\ Cardinality(A \ {x}) = IF x \in A THEN Cardinality(A) - 1 ELSE Cardinality(A)
  BY FS_RemoveElement, FS_CardinalityType
<1>2. CASE x \in B
  <2>1. B = (A \ {x}) \cup {x} /\ x \notin A \ {x}
    BY <1>2
  <2>2. IsFiniteSet(B) /\ Cardinality(B) = Cardinality(A \ {x}) + 1
    BY ONLY <2>1, <1>1, FS_AddElement
  <2> QED
    BY <1>1, <1>2, <2>2
<1>3. CASE x \notin B
  <2>1. B = A \ {x}
    BY <1>3
  <2> QED
    BY <1>1, <1>3, <2>1
<1> QED
  BY <1>2, <1>3

(* A page's and a place's uses.                                            *)
SegsOf(v)  == {s \in Segs : slot[s] = v}
ProcsOf(q) == {p \in Procs : page[p] = q /\ pc[p] \in {"load", "relock", "copy"}}
IoOf(q)    == IF io # None /\ io[1] = q THEN 2 ELSE 0

LEMMA UsesAre ==
  ASSUME NEW q
  PROVE  /\ IsFiniteSet(SegsOf(q)) /\ Cardinality(SegsOf(q)) \in 0..Cardinality(Segs)
         /\ IsFiniteSet(ProcsOf(q)) /\ Cardinality(ProcsOf(q)) \in 0..Cardinality(Procs)
         /\ Cardinality(Segs) \in Nat /\ Cardinality(Procs) \in Nat
         /\ Uses(q) = Cardinality(SegsOf(q)) + Cardinality(ProcsOf(q)) + IoOf(q)
<1>1. SegsOf(q) \in SUBSET Segs /\ ProcsOf(q) \in SUBSET Procs
  BY DEF SegsOf, ProcsOf
<1>2. IsFiniteSet(Segs) /\ IsFiniteSet(Procs)
  BY PageAssumption
<1>3. Uses(q) = Cardinality(SegsOf(q)) + Cardinality(ProcsOf(q)) + IoOf(q)
  BY DEF Uses, SegsOf, ProcsOf, IoOf
<1>4. /\ IsFiniteSet(SegsOf(q)) /\ Cardinality(SegsOf(q)) <= Cardinality(Segs)
      /\ IsFiniteSet(ProcsOf(q)) /\ Cardinality(ProcsOf(q)) <= Cardinality(Procs)
  BY ONLY <1>1, <1>2, FS_Subset
<1>5. Cardinality(SegsOf(q)) \in Nat /\ Cardinality(ProcsOf(q)) \in Nat
      /\ Cardinality(Segs) \in Nat /\ Cardinality(Procs) \in Nat
  BY ONLY <1>2, <1>4, FS_CardinalityType
<1>6. Cardinality(SegsOf(q)) \in 0..Cardinality(Segs) /\ Cardinality(ProcsOf(q)) \in 0..Cardinality(Procs)
  BY ONLY <1>4, <1>5
<1> QED
  BY ONLY <1>3, <1>4, <1>5, <1>6

(* What has no use is in no segment, in nobody's hands, and not going out. *)
LEMMA Unused ==
  ASSUME NEW q, Uses(q) = 0
  PROVE  /\ \A s \in Segs : slot[s] # q
         /\ \A p \in Procs : Has(p) => page[p] # q
         /\ io # None => io[1] # q
<1>1. Cardinality(SegsOf(q)) = 0 /\ Cardinality(ProcsOf(q)) = 0 /\ IoOf(q) = 0
  BY UsesAre DEF IoOf
<1>2. SegsOf(q) = {} /\ ProcsOf(q) = {}
  BY <1>1, UsesAre, FS_EmptySet
<1> QED
  BY <1>1, <1>2 DEF SegsOf, ProcsOf, IoOf, Has

LEMMA Used ==
  ASSUME NEW q, \/ \E s \in Segs : slot[s] = q
                \/ \E p \in Procs : Has(p) /\ page[p] = q
                \/ io # None /\ io[1] = q
  PROVE  Uses(q) # 0
BY Unused

(* A step of process p, or of none, about segment s, or none.              *)
LEMMA UsesStep ==
  ASSUME NEW q, NEW s, NEW p,
         \A t \in Segs \ {s} : slot'[t] = slot[t],
         \A r \in Procs \ {p} : page'[r] = page[r] /\ pc'[r] = pc[r]
  PROVE  Uses(q)' = Uses(q) + (IF s \in SegsOf(q)' THEN 1 ELSE 0) - (IF s \in SegsOf(q) THEN 1 ELSE 0)
                            + (IF p \in ProcsOf(q)' THEN 1 ELSE 0) - (IF p \in ProcsOf(q) THEN 1 ELSE 0)
                            + IoOf(q)' - IoOf(q)
<1>1. SegsOf(q)' \ {s} = SegsOf(q) \ {s}
  BY DEF SegsOf
<1>2. ProcsOf(q)' \ {p} = ProcsOf(q) \ {p}
  BY DEF ProcsOf
<1>3. /\ IsFiniteSet(SegsOf(q)) /\ Cardinality(SegsOf(q)) \in Nat
      /\ IsFiniteSet(ProcsOf(q)) /\ Cardinality(ProcsOf(q)) \in Nat
      /\ Uses(q) = Cardinality(SegsOf(q)) + Cardinality(ProcsOf(q)) + IoOf(q)
  BY UsesAre
<1>4. Uses(q)' = Cardinality(SegsOf(q)') + Cardinality(ProcsOf(q)') + IoOf(q)'
  BY DEF Uses, SegsOf, ProcsOf, IoOf
<1>5. Cardinality(SegsOf(q)') = Cardinality(SegsOf(q)) + (IF s \in SegsOf(q)' THEN 1 ELSE 0)
                                                       - (IF s \in SegsOf(q) THEN 1 ELSE 0)
  BY ONLY <1>1, <1>3, OneChanged
<1>6. Cardinality(ProcsOf(q)') = Cardinality(ProcsOf(q)) + (IF p \in ProcsOf(q)' THEN 1 ELSE 0)
                                                         - (IF p \in ProcsOf(q) THEN 1 ELSE 0)
  BY ONLY <1>2, <1>3, OneChanged
<1>7. IoOf(q) \in Nat /\ IoOf(q)' \in Nat
  BY DEF IoOf
<1> QED
  BY ONLY <1>3, <1>4, <1>5, <1>6, <1>7

(* The counts are exact again when they follow what the step changed.      *)
SegUse(s, v)  == IF s \in Segs /\ slot[s] = v THEN 1 ELSE 0
ProcUse(p, q) == IF p \in Procs /\ Has(p) /\ page[p] = q THEN 1 ELSE 0

LEMMA RefStep ==
  ASSUME RefExact, NEW s, NEW p,
         \A t \in Segs \ {s} : slot'[t] = slot[t],
         \A r \in Procs \ {p} : page'[r] = page[r] /\ pc'[r] = pc[r],
         \A q \in Pages : ref'[q] = ref[q] + SegUse(s, q)' - SegUse(s, q)
                                           + ProcUse(p, q)' - ProcUse(p, q) + IoOf(q)' - IoOf(q),
         \A x \in Swaps : swref'[x] = swref[x] + SegUse(s, x)' - SegUse(s, x)
  PROVE  RefExact'
<1>1. ASSUME NEW v PROVE /\ SegUse(s, v) = IF s \in SegsOf(v) THEN 1 ELSE 0
                         /\ SegUse(s, v)' = IF s \in SegsOf(v)' THEN 1 ELSE 0
  BY DEF SegsOf, SegUse
<1>2. ASSUME NEW q PROVE /\ ProcUse(p, q) = IF p \in ProcsOf(q) THEN 1 ELSE 0
                         /\ ProcUse(p, q)' = IF p \in ProcsOf(q)' THEN 1 ELSE 0
  BY DEF ProcsOf, ProcUse, Has
<1>3. ASSUME NEW q \in Pages PROVE ref'[q] = Uses(q)'
  <2>1. ref[q] = Uses(q)
    BY DEF RefExact
  <2>2. Uses(q)' = Uses(q) + SegUse(s, q)' - SegUse(s, q) + ProcUse(p, q)' - ProcUse(p, q) + IoOf(q)' - IoOf(q)
    BY ONLY <1>1, <1>2, UsesStep, \A t \in Segs \ {s} : slot'[t] = slot[t],
            \A r \in Procs \ {p} : page'[r] = page[r] /\ pc'[r] = pc[r]
  <2> QED
    BY ONLY <2>1, <2>2, \A r \in Pages : ref'[r] = ref[r] + SegUse(s, r)' - SegUse(s, r)
                            + ProcUse(p, r)' - ProcUse(p, r) + IoOf(r)' - IoOf(r)
<1>4. ASSUME NEW x \in Swaps PROVE swref'[x] = Cardinality(SegsOf(x)')
  <2>1. SegsOf(x)' \ {s} = SegsOf(x) \ {s}
    BY DEF SegsOf
  <2>2. Cardinality(SegsOf(x)') = Cardinality(SegsOf(x)) + SegUse(s, x)' - SegUse(s, x)
    BY ONLY <1>1, <2>1, OneChanged, UsesAre
  <2>3. swref[x] = Cardinality(SegsOf(x))
    BY DEF RefExact, SegsOf
  <2> QED
    BY ONLY <2>2, <2>3, \A y \in Swaps : swref'[y] = swref[y] + SegUse(s, y)' - SegUse(s, y)
<1> QED
  BY <1>3, <1>4 DEF RefExact, SegsOf

LEMMA RefSame ==
  ASSUME RefExact, UNCHANGED <<slot, io, ref, swref>>,
         \A r \in Procs : IF Has(r) \/ Has(r)' THEN Has(r) /\ Has(r)' /\ page'[r] = page[r] ELSE TRUE
  PROVE  RefExact'
<1>1. ASSUME NEW q PROVE Uses(q)' = Uses(q)
  <2>1. ProcsOf(q)' = ProcsOf(q)
    BY DEF ProcsOf, Has
  <2> QED
    BY <2>1 DEF Uses, ProcsOf
<1> QED
  BY <1>1 DEF RefExact
-----------------------------------------------------------------------------
LEMMA WordIs == Word \in Nat /\ Word > 0
BY PageAssumption, FS_CardinalityType

LEMMA KeysApart == None \notin Keys /\ None \notin Pages /\ None \notin Segs /\ None \notin Procs
                   /\ None \notin Pages \X Swaps /\ Swaps \cap Pages = {} /\ Swaps \cap Blocks = {}
                   /\ Keys = Blocks \cup Swaps /\ \A s \in Segs : Block[s] \in Blocks
BY PageAssumption DEF Keys, Blocks

LEMMA DataIs ==
  /\ Junk \in Data
  /\ \A b \in Blocks : Fresh(b) \in Data
  /\ \A c \in Data, s \in Segs : <<c[1], s>> \in Data
BY DEF Data, Junk, Fresh

(* freecount stays in its word.                                            *)
LEMMA AddType ==
  ASSUME NEW n \in {-1, 1}, freecount \in 0..Word - 1, Add(n)
  PROVE  freecount' \in 0..Word - 1
<1>1. PICK m : m = freecount + n + Word
  OBVIOUS
<1>2. m \in Nat /\ freecount' = m % Word
  BY <1>1, WordIs DEF Add
<1> QED
  BY ONLY <1>2, WordIs

(* The list is one, whatever its links.                                    *)
LEMMA ListOps ==
  ASSUME NEW l \in Lists
  PROVE  /\ l.head \in Pages => WithoutHead(l) \in Lists
         /\ \A q \in Pages : AtTail(l, q) \in Lists /\ AtHead(l, q) \in Lists
         /\ \A q \in Pages : Unlinked(l, q) \in Lists /\ Forget(l, q) \in Lists
<1>1. l.head \in Pages => WithoutHead(l) \in Lists
  BY DEF Lists, WithoutHead
<1>2. ASSUME NEW q \in Pages PROVE AtTail(l, q) \in Lists
  BY DEF Lists, AtTail
<1>3. ASSUME NEW q \in Pages PROVE AtHead(l, q) \in Lists
  BY DEF Lists, AtHead
<1>4. ASSUME NEW q \in Pages PROVE Unlinked(l, q) \in Lists
  <2> DEFINE before == l.prev[q]
             after  == l.next[q]
             m == IF before # None THEN [l EXCEPT !.next[before] = after] ELSE [l EXCEPT !.head = after]
  <2>1. m \in Lists
    BY DEF Lists
  <2>2. Unlinked(l, q) = IF after # None THEN [m EXCEPT !.prev[after] = before] ELSE [m EXCEPT !.tail = before]
    BY DEF Unlinked
  <2>3. before \in Pages \cup {None} /\ after \in Pages \cup {None}
    BY DEF Lists
  <2> HIDE DEF m, before, after
  <2> QED
    BY <2>1, <2>2, <2>3 DEF Lists
<1>5. ASSUME NEW q \in Pages PROVE Forget(l, q) \in Lists
  BY DEF Lists, Forget
<1> QED
  BY <1>1, <1>2, <1>3, <1>4, <1>5

(* putpage and putswap.                                                    *)
LEMMA PutPageStep ==
  ASSUME Types, NEW q \in Pages, NEW n, NEW c \in [Pages -> Data], PutPage(q, n, c)
  PROVE  /\ ref' = [ref EXCEPT ![q] = @ - n]
         /\ list' \in Lists /\ freecount' \in 0..Word - 1
         /\ content' \in [Pages -> Data]
         /\ \A r \in Pages : content'[r] = c[r] \/ (r = q /\ tag[r] = None)
<1>1. list \in Lists /\ freecount \in 0..Word - 1
  BY DEF Types, PoolTypes
<1>2. list' \in Lists
  BY <1>1, ListOps DEF PutPage, free
<1>3. freecount' \in 0..Word - 1
  <2>1. Add(1) \/ freecount' = freecount
    BY DEF PutPage, free
  <2> QED
    BY ONLY <1>1, <2>1, AddType
<1>4. content' = c \/ (tag[q] = None /\ content' = [c EXCEPT ![q] = Junk])
  BY DEF PutPage
<1>5. content' \in [Pages -> Data] /\ \A r \in Pages : content'[r] = c[r] \/ (r = q /\ tag[r] = None)
  BY ONLY <1>4, DataIs, c \in [Pages -> Data]
<1>6. ref' = [ref EXCEPT ![q] = @ - n]
  BY DEF PutPage
<1> QED
  BY <1>2, <1>3, <1>5, <1>6

LEMMA PutSwapStep ==
  ASSUME Types, NEW x \in Swaps, PutSwap(x)
  PROVE  swref' = [swref EXCEPT ![x] = @ - 1] /\ swdata' \in [Swaps -> Data] /\ io' = io
BY DataIs DEF PutSwap, OnDevice, Types, PoolTypes

(* The hash table stays one.                                               *)
LEMMA WithoutType ==
  ASSUME NEW s \in Seq(Pages), NEW q
  PROVE  Without(s, q) \in Seq(Pages)
<1>1. CASE \E j \in 1..Len(s) : s[j] = q
  <2>1. PICK n : n = Len(s) - 1
    OBVIOUS
  <2>2. n \in Nat /\ Len(s) = n + 1
    BY <1>1, <2>1
  <2>3. PICK i : i = CHOOSE j \in 1..Len(s) : s[j] = q
    OBVIOUS
  <2>4. Without(s, q) = [j \in 1..n |-> IF j < i THEN s[j] ELSE s[j + 1]]
    BY <1>1, <2>1, <2>3 DEF Without
  <2>5. \A j \in 1..n : s[j] \in Pages /\ s[j + 1] \in Pages
    BY <2>2
  <2>6. [j \in 1..n |-> IF j < i THEN s[j] ELSE s[j + 1]] \in [1..n -> Pages]
    BY <2>5
  <2> QED
    BY <2>2, <2>4, <2>6
<1>2. CASE ~\E j \in 1..Len(s) : s[j] = q
  BY <1>2 DEF Without
<1> QED
  BY <1>1, <1>2

LEMMA ChainOps ==
  ASSUME NEW c \in [Keys -> Seq(Pages)], NEW q \in Pages
  PROVE  /\ Off(c, q) \in [Keys -> Seq(Pages)]
         /\ \A k \in Keys : On(c, q, k) \in [Keys -> Seq(Pages)]
<1>1. Off(c, q) \in [Keys -> Seq(Pages)]
  BY WithoutType DEF Off
<1>2. ASSUME NEW k \in Keys PROVE On(c, q, k) \in [Keys -> Seq(Pages)]
  <2>1. <<q>> \o c[k] \in Seq(Pages)
    OBVIOUS
  <2> QED
    BY <2>1 DEF On
<1> QED
  BY <1>1, <1>2
-----------------------------------------------------------------------------
(* When a process enters a segment, from user mode or from fault.          *)
LEMMA EnterStep ==
  ASSUME IInv, NEW p \in Procs, NEW s \in Segs, NEW from \in {"user", "fault"}, p \in Users[s],
         pc[p] = from, Enter(p, s, from), at' = [at EXCEPT ![p] = s], write' \in [Procs -> BOOLEAN]
  PROVE  IInv'
<1> DEFINE k == IF slot[s] = None THEN Block[s] ELSE slot[s]
<1>1. /\ lk[s] = None /\ key[p] = None
      /\ UNCHANGED <<slot, holds, ref, tag, chain, plock, content, list, freecount, swref, swdata, io>>
  BY DEF Enter, IInv, Keyed, cache, free, swap
<1>2. slot[s] \in Pages \/ (k \in Keys /\ k # None)
  BY KeysApart DEF IInv, Types, ProcTypes, SegTypes, PageTypes, PoolTypes
<1>3. chain \in [Keys -> Seq(Pages)] /\ \A x \in Keys : chain[x] # <<>> => Head(chain[x]) \in Pages
  BY DEF IInv, Types, ProcTypes, SegTypes, PageTypes, PoolTypes
<1>4. \/ /\ slot[s] \in Pages /\ pc' = [pc EXCEPT ![p] = "map"] /\ lk' = [lk EXCEPT ![s] = p]
         /\ UNCHANGED <<key, page>>
      \/ /\ Zeroed(s) /\ pc' = [pc EXCEPT ![p] = "take"] /\ lk' = [lk EXCEPT ![s] = p]
         /\ UNCHANGED <<key, page>>
      \/ /\ slot[s] \notin Pages /\ ~Zeroed(s) /\ key' = [key EXCEPT ![p] = k]
         /\ \/ /\ \E h \in Pages : page' = [page EXCEPT ![p] = h]
               /\ pc' = [pc EXCEPT ![p] = "check"] /\ lk' = [lk EXCEPT ![s] = p]
            \/ pc' = [pc EXCEPT ![p] = "take"] /\ UNCHANGED <<lk, page>>
  <2>1. CASE slot[s] \in Pages
    BY <2>1 DEF Enter, Goto, Qlock, Zeroed
  <2>2. CASE Zeroed(s)
    BY <2>2 DEF Enter, Goto, Qlock
  <2>3. CASE slot[s] \notin Pages /\ ~Zeroed(s)
    <3>1. PICK h : h = Head(chain[k])
      OBVIOUS
    <3>2. chain[k] # <<>> => h \in Pages
      BY <1>2, <1>3, <2>3, <3>1
    <3>3. /\ key' = [key EXCEPT ![p] = k]
          /\ \/ /\ chain[k] # <<>> /\ page' = [page EXCEPT ![p] = h]
                /\ pc' = [pc EXCEPT ![p] = "check"] /\ lk' = [lk EXCEPT ![s] = p]
             \/ pc' = [pc EXCEPT ![p] = "take"] /\ UNCHANGED <<lk, page>>
      BY <2>3, <3>1 DEF Enter, Goto, Qlock
    <3> HIDE DEF k
    <3> QED
      BY <2>3, <3>2, <3>3
  <2> QED
    BY <2>1, <2>2, <2>3
<1> HIDE DEF k
<1>5. Types'
  <2>1. pc' = [pc EXCEPT ![p] = "map"] \/ pc' = [pc EXCEPT ![p] = "take"]
        \/ pc' = [pc EXCEPT ![p] = "check"]
    BY <1>4
  <2>2. lk' = lk \/ lk' = [lk EXCEPT ![s] = p]
    BY <1>4
  <2>3. key' = key \/ (slot[s] \notin Pages /\ key' = [key EXCEPT ![p] = k])
    BY <1>4
  <2>4. page' = page \/ \E h \in Pages : page' = [page EXCEPT ![p] = h]
    BY <1>4
  <2>5. pc \in [Procs -> Places] /\ lk \in [Segs -> Procs \cup {None}]
        /\ at \in [Procs -> Segs \cup {None}]
        /\ key \in [Procs -> Keys \cup {None}] /\ page \in [Procs -> Pages \cup {None}]
    BY DEF IInv, Types, ProcTypes, SegTypes, PageTypes, PoolTypes
  <2>6. pc' \in [Procs -> Places]
    BY ONLY <2>1, <2>5 DEF Places
  <2>7. lk' \in [Segs -> Procs \cup {None}] /\ at' \in [Procs -> Segs \cup {None}]
    BY ONLY <2>2, <2>5, at' = [at EXCEPT ![p] = s], p \in Procs, s \in Segs
  <2>8. key' \in [Procs -> Keys \cup {None}]
    BY ONLY <1>2, <2>3, <2>5
  <2>9. page' \in [Procs -> Pages \cup {None}]
    BY ONLY <2>4, <2>5
  <2> QED
    BY <1>1, <2>6, <2>7, <2>8, <2>9 DEF IInv, Types, ProcTypes, SegTypes, PageTypes, PoolTypes
<1>6. Located'
  BY <1>1, <1>4 DEF IInv, Types, ProcTypes, SegTypes, PageTypes, PoolTypes, Located
<1>7. Locked'
  BY <1>1, <1>4, KeysApart DEF IInv, Types, ProcTypes, SegTypes, PageTypes, PoolTypes, Located, Locked
<1>8. PageLocked'
  BY <1>1, <1>4, KeysApart DEF IInv, Types, ProcTypes, SegTypes, PageTypes, PoolTypes, Located, PageLocked
<1>9. Keyed'
  BY <1>1, <1>2, <1>4, KeysApart DEF k, IInv, Types, ProcTypes, SegTypes, PageTypes, PoolTypes, Located, Keyed, Zeroed, OutKind
<1>10. OutKind'
  BY <1>1 DEF IInv, OutKind
<1>11. Own'
  BY <1>1, <1>4 DEF IInv, Types, ProcTypes, Own, Has
<1>12. RefExact'
  <2>1. \A r \in Procs : IF Has(r) \/ Has(r)' THEN Has(r) /\ Has(r)' /\ page'[r] = page[r] ELSE TRUE
    BY <1>4 DEF IInv, Types, ProcTypes, SegTypes, PageTypes, PoolTypes, Has
  <2> QED
    BY <1>1, <2>1, RefSame DEF IInv
<1>13. CacheIsRight'
  BY <1>1 DEF IInv, CacheIsRight
<1>14. Loaded'
  <2>1. pc'[p] # "relock" /\ \A r \in Procs \ {p} : pc'[r] = pc[r] /\ key'[r] = key[r] /\ page'[r] = page[r]
    BY <1>4 DEF IInv, Types, ProcTypes
  <2> QED
    BY <1>1, <2>1 DEF IInv, Loaded
<1>15. NotFile'
  BY <1>1 DEF IInv, NotFile
<1> QED
  BY <1>5, <1>6, <1>7, <1>8, <1>9, <1>10, <1>11, <1>12, <1>13, <1>14, <1>15 DEF IInv

(* lookpage.                                                               *)
LEMMA CheckStep ==
  ASSUME IInv, NEW p \in Procs, Check(p), NEW s, s = at[p], NEW q, q = page[p], NEW k, k = key[p]
  PROVE  IInv'
<1>1. /\ s \in Segs /\ q \in Pages /\ k \in Keys /\ k # None /\ pc[p] = "check" /\ lk[s] = p
      /\ slot[s] = (IF k \in Swaps THEN k ELSE None) /\ plock[q] = None /\ p \in Users[s]
      /\ k \in Blocks => Kind[s] \notin {"bss", "shared"}
  BY DEF Check, IInv, Types, ProcTypes, Located, Locked, Keyed
<1>2. UNCHANGED <<at, write, holds, tag, chain, plock, content>>
  BY DEF Check, Drop, cache
<1>3. CASE IsCopy(q, k)
  <2>1. /\ tag[q] = k /\ pc' = [pc EXCEPT ![p] = "map"] /\ lk' = lk
        /\ page' = [page EXCEPT ![p] = None] /\ key' = [key EXCEPT ![p] = None]
        /\ ref' = [ref EXCEPT ![q] = @ + 1] /\ slot' = [slot EXCEPT ![s] = q]
    BY <1>3, s = at[p], q = page[p], k = key[p] DEF Check, IsCopy, Goto, Drop
  <2>2. list' \in Lists /\ freecount' \in 0..Word - 1
    <3>1. list \in Lists /\ freecount \in 0..Word - 1
      BY DEF IInv, Types, PoolTypes
    <3>2. (list' = Forget(Unlinked(list, q), q) /\ Add(-1)) \/ (list' = list /\ freecount' = freecount)
      BY <1>3, q = page[p], k = key[p] DEF Check, free
    <3> QED
      BY ONLY <1>1, <3>1, <3>2, ListOps, AddType
  <2>3. swdata' \in [Swaps -> Data] /\ io' = io
        /\ swref' = IF k \in Swaps THEN [swref EXCEPT ![k] = @ - 1] ELSE swref
    <3>1. IF k \in Swaps THEN PutSwap(k) ELSE UNCHANGED swap
      BY <1>3, k = key[p], q = page[p] DEF Check
    <3> QED
      BY <3>1, PutSwapStep DEF IInv, Types, PoolTypes, swap
  <2>4. Types'
    BY <1>1, <1>2, <2>1, <2>2, <2>3 DEF IInv, Types, ProcTypes, SegTypes, PageTypes, PoolTypes, Places
  <2>5. Located' /\ Locked'
    BY <1>1, <1>2, <2>1 DEF IInv, Types, ProcTypes, Located, Locked
  <2>6. PageLocked'
    BY <1>1, <1>2, <2>1, KeysApart DEF IInv, Types, ProcTypes, SegTypes, PageTypes, Located, Locked, PageLocked
  <2>7. Keyed'
    BY <1>1, <1>2, <2>1, KeysApart DEF IInv, Types, ProcTypes, SegTypes, Located, Locked, Keyed
  <2>8. OutKind'
    BY <1>1, <2>1, KeysApart DEF IInv, Types, SegTypes, OutKind
  <2>9. Own'
    BY <1>1, <1>2, <2>1, <2>3, KeysApart DEF IInv, Types, ProcTypes, SegTypes, Own, Has
  <2>10. RefExact'
    <3>1. \A t \in Segs \ {s} : slot'[t] = slot[t]
      BY <2>1 DEF IInv, Types, SegTypes
    <3>2. \A r \in Procs \ {p} : page'[r] = page[r] /\ pc'[r] = pc[r]
      BY <2>1 DEF IInv, Types, ProcTypes
    <3>3. ~Has(p) /\ ~Has(p)'
      BY <1>1, <2>1 DEF IInv, Types, ProcTypes, Has
    <3>4. slot'[s] = q
      BY <1>1, <2>1 DEF IInv, Types, SegTypes
    <3>5. \A r \in Pages : ref'[r] = ref[r] + SegUse(s, r)' - SegUse(s, r)
                             + ProcUse(p, r)' - ProcUse(p, r) + IoOf(r)' - IoOf(r)
      BY <1>1, <2>1, <2>3, <3>3, <3>4, KeysApart DEF IInv, Types, PageTypes, SegUse, ProcUse, IoOf
    <3>6. \A x \in Swaps : swref'[x] = swref[x] + SegUse(s, x)' - SegUse(s, x)
      BY <1>1, <2>3, <3>4, KeysApart DEF IInv, Types, PoolTypes, SegUse
    <3> QED
      BY <3>1, <3>2, <3>5, <3>6, RefStep DEF IInv
  <2>11. CacheIsRight' /\ Loaded'
    BY <1>1, <1>2, <2>1 DEF IInv, Types, ProcTypes, CacheIsRight, Loaded
  <2>12. NotFile'
    BY <1>1, <1>2, <2>1 DEF IInv, Types, SegTypes, NotFile
  <2> QED
    BY <2>4, <2>5, <2>6, <2>7, <2>8, <2>9, <2>10, <2>11, <2>12 DEF IInv
<1>4. CASE ~IsCopy(q, k)
  <2>1. /\ pc' = [pc EXCEPT ![p] = "take"] /\ lk' = [lk EXCEPT ![s] = None]
        /\ page' = [page EXCEPT ![p] = None]
        /\ UNCHANGED <<key, slot, ref, list, freecount, swref, swdata, io>>
    BY <1>4, s = at[p], q = page[p], k = key[p] DEF Check, Goto, Qunlock, free, swap
  <2>2. Types'
    BY <1>1, <1>2, <2>1 DEF IInv, Types, ProcTypes, SegTypes, PageTypes, PoolTypes, Places
  <2>3. Located' /\ Locked'
    BY <1>1, <1>2, <2>1 DEF IInv, Types, ProcTypes, SegTypes, Located, Locked
  <2>4. PageLocked'
    BY <1>1, <1>2, <2>1 DEF IInv, Types, ProcTypes, PageTypes, PageLocked
  <2>5. Keyed'
    BY <1>1, <1>2, <2>1, KeysApart DEF IInv, Types, ProcTypes, SegTypes, Located, Keyed
  <2>6. OutKind' /\ NotFile'
    BY <1>2, <2>1 DEF IInv, OutKind, NotFile
  <2>7. Own'
    BY <1>1, <1>2, <2>1 DEF IInv, Types, ProcTypes, Own, Has
  <2>8. RefExact'
    <3>1. \A r \in Procs : IF Has(r) \/ Has(r)' THEN Has(r) /\ Has(r)' /\ page'[r] = page[r] ELSE TRUE
      BY <1>1, <2>1 DEF IInv, Types, ProcTypes, Has
    <3> QED
      BY <2>1, <3>1, RefSame DEF IInv
  <2>9. CacheIsRight' /\ Loaded'
    BY <1>1, <1>2, <2>1 DEF IInv, Types, ProcTypes, CacheIsRight, Loaded
  <2> QED
    BY <2>2, <2>3, <2>4, <2>5, <2>6, <2>7, <2>8, <2>9 DEF IInv
<1> QED
  BY <1>3, <1>4

(* newpage: of the list, and of the page.                                  *)
LEMMA TakeStep ==
  ASSUME IInv, NEW p \in Procs, Take(p)
  PROVE  IInv'
<1>1. /\ pc[p] = "take" /\ list.head \in Pages /\ pc' = [pc EXCEPT ![p] = "claim"]
      /\ page' = [page EXCEPT ![p] = list.head] /\ list' = WithoutHead(list) /\ Add(-1)
      /\ UNCHANGED <<at, write, key, lk, slot, holds, ref, tag, chain, plock, content, swref, swdata, io>>
  BY DEF Take, Goto, cache, swap, IInv, Types, PoolTypes, Lists
<1>2. list' \in Lists /\ freecount' \in 0..Word - 1
  <2>1. list \in Lists /\ freecount \in 0..Word - 1
    BY DEF IInv, Types, PoolTypes
  <2> QED
    BY ONLY <1>1, <2>1, ListOps, AddType
<1>3. Types'
  BY <1>1, <1>2 DEF IInv, Types, ProcTypes, SegTypes, PageTypes, PoolTypes, Places
<1>4. Located' /\ Locked'
  BY <1>1 DEF IInv, Types, ProcTypes, Located, Locked
<1>5. PageLocked'
  BY <1>1 DEF IInv, Types, ProcTypes, PageTypes, PageLocked
<1>6. Keyed'
  BY <1>1, KeysApart DEF IInv, Types, ProcTypes, Keyed
<1>7. OutKind' /\ NotFile'
  BY <1>1 DEF IInv, OutKind, NotFile
<1>8. Own'
  BY <1>1 DEF IInv, Types, ProcTypes, Own, Has
<1>9. RefExact'
  <2>1. \A r \in Procs : IF Has(r) \/ Has(r)' THEN Has(r) /\ Has(r)' /\ page'[r] = page[r] ELSE TRUE
    BY <1>1 DEF IInv, Types, ProcTypes, Has
  <2> QED
    BY <1>1, <2>1, RefSame DEF IInv
<1>10. CacheIsRight' /\ Loaded'
  BY <1>1 DEF IInv, Types, ProcTypes, CacheIsRight, Loaded
<1> QED
  BY <1>3, <1>4, <1>5, <1>6, <1>7, <1>8, <1>9, <1>10 DEF IInv

LEMMA LetGoStep ==
  ASSUME IInv, NEW p \in Procs, LetGo(p)
  PROVE  IInv'
<1>1. /\ pc[p] = "take" /\ lk[at[p]] = p /\ pc' = [pc EXCEPT ![p] = "fault"]
      /\ lk' = [lk EXCEPT ![at[p]] = None]
      /\ UNCHANGED <<at, write, key, page, slot, holds, ref, tag, chain, plock, content, list, freecount,
                     swref, swdata, io>>
  BY DEF LetGo, Goto, Qunlock, proc, cache, free, swap
<1>2. at[p] \in Segs
  BY <1>1 DEF IInv, Located
<1>3. Types'
  BY <1>1 DEF IInv, Types, ProcTypes, SegTypes, PageTypes, PoolTypes, Places
<1>4. Located' /\ Locked'
  BY <1>1, <1>2 DEF IInv, Types, ProcTypes, SegTypes, Located, Locked
<1>5. PageLocked'
  BY <1>1 DEF IInv, Types, ProcTypes, PageTypes, PageLocked
<1>6. Keyed'
  BY <1>1, <1>2, KeysApart DEF IInv, Types, ProcTypes, SegTypes, Located, Keyed
<1>7. OutKind' /\ NotFile'
  BY <1>1 DEF IInv, OutKind, NotFile
<1>8. Own'
  BY <1>1 DEF IInv, Types, ProcTypes, Own, Has
<1>9. RefExact'
  <2>1. \A r \in Procs : IF Has(r) \/ Has(r)' THEN Has(r) /\ Has(r)' /\ page'[r] = page[r] ELSE TRUE
    BY <1>1 DEF IInv, Types, ProcTypes, Has
  <2> QED
    BY <1>1, <2>1, RefSame DEF IInv
<1>10. CacheIsRight' /\ Loaded'
  BY <1>1 DEF IInv, Types, ProcTypes, CacheIsRight, Loaded
<1> QED
  BY <1>3, <1>4, <1>5, <1>6, <1>7, <1>8, <1>9, <1>10 DEF IInv

LEMMA ClaimStep ==
  ASSUME IInv, NEW p \in Procs, Claim(p), NEW s, s = at[p], NEW q, q = page[p]
  PROVE  IInv'
<1>1. /\ s \in Segs /\ q \in Pages /\ pc[p] = "claim" /\ plock[q] = None /\ p \in Users[s]
      /\ UNCHANGED <<at, write, key, lk, slot, holds, plock, freecount, swref, swdata, io>>
  BY DEF Claim, swap, IInv, Types, ProcTypes, Located, Keyed
<1>2. CASE Stolen(q)
  <2>1. /\ pc' = [pc EXCEPT ![p] = "take"] /\ page' = [page EXCEPT ![p] = None]
        /\ UNCHANGED <<ref, tag, chain, list, content>>
    BY <1>2, q = page[p] DEF Claim, Goto, cache
  <2>2. Types'
    BY <1>1, <2>1 DEF IInv, Types, ProcTypes, SegTypes, PageTypes, PoolTypes, Places
  <2>3. Located' /\ Locked'
    BY <1>1, <2>1 DEF IInv, Types, ProcTypes, Located, Locked
  <2>4. PageLocked'
    BY <1>1, <2>1 DEF IInv, Types, ProcTypes, PageTypes, PageLocked
  <2>5. Keyed'
    BY <1>1, <2>1, KeysApart DEF IInv, Types, ProcTypes, Keyed
  <2>6. OutKind' /\ NotFile'
    BY <1>1, <2>1 DEF IInv, OutKind, NotFile
  <2>7. Own'
    BY <1>1, <2>1 DEF IInv, Types, ProcTypes, Own, Has
  <2>8. RefExact'
    <3>1. \A r \in Procs : IF Has(r) \/ Has(r)' THEN Has(r) /\ Has(r)' /\ page'[r] = page[r] ELSE TRUE
      BY <1>1, <2>1 DEF IInv, Types, ProcTypes, Has
    <3> QED
      BY <1>1, <2>1, <3>1, RefSame DEF IInv
  <2>9. CacheIsRight' /\ Loaded'
    BY <1>1, <2>1 DEF IInv, Types, ProcTypes, CacheIsRight, Loaded
  <2> QED
    BY <2>2, <2>3, <2>4, <2>5, <2>6, <2>7, <2>8, <2>9 DEF IInv
<1>3. CASE ~Stolen(q)
  <2>1. /\ pc' = [pc EXCEPT ![p] = IF lk[s] = p THEN "copy" ELSE "load"] /\ page' = page
        /\ ref' = [ref EXCEPT ![q] = @ + 1] /\ tag' = [tag EXCEPT ![q] = None]
        /\ chain' = Off(chain, q) /\ list' = Forget(list, q) /\ content' = [content EXCEPT ![q] = Junk]
    BY <1>3, q = page[p], s = at[p] DEF Claim, Goto, Uncached
  <2>2. /\ \A t \in Segs : slot[t] # q
        /\ \A r \in Procs : Has(r) => page[r] # q
        /\ io # None => io[1] # q
    <3>1. ref[q] = 0 /\ ref[q] = Uses(q)
      BY <1>1, <1>3 DEF Stolen, IInv, RefExact
    <3> QED
      BY <3>1, Unused
  <2>3. Types'
    <3>1. chain' \in [Keys -> Seq(Pages)]
      BY <1>1, <2>1, ChainOps DEF IInv, Types, PageTypes
    <3>2. list' \in Lists
      BY <1>1, <2>1, ListOps DEF IInv, Types, PoolTypes
    <3> QED
      BY <1>1, <2>1, <3>1, <3>2, DataIs DEF IInv, Types, ProcTypes, SegTypes, PageTypes, PoolTypes, Places
  <2>4. Located' /\ Locked'
    BY <1>1, <2>1, s = at[p] DEF IInv, Types, ProcTypes, Located, Locked
  <2>5. PageLocked'
    BY <1>1, <2>1 DEF IInv, Types, ProcTypes, PageTypes, PageLocked
  <2>6. Keyed'
    BY <1>1, <2>1, s = at[p], KeysApart DEF IInv, Types, ProcTypes, Keyed
  <2>7. OutKind' /\ NotFile'
    BY <1>1, <2>1, KeysApart DEF IInv, Types, PageTypes, OutKind, NotFile
  <2>8. Own'
    BY <1>1, <2>1, <2>2, q = page[p] DEF IInv, Types, ProcTypes, PageTypes, Own, Has
  <2>9. RefExact'
    <3>1. \A r \in Procs \ {p} : page'[r] = page[r] /\ pc'[r] = pc[r]
      BY <2>1 DEF IInv, Types, ProcTypes
    <3>2. ~Has(p) /\ Has(p)' /\ page'[p] = q
      BY <1>1, <2>1, q = page[p] DEF IInv, Types, ProcTypes, Has
    <3>3. \A r \in Pages : ref'[r] = ref[r] + SegUse(s, r)' - SegUse(s, r)
                             + ProcUse(p, r)' - ProcUse(p, r) + IoOf(r)' - IoOf(r)
      BY <1>1, <2>1, <3>2 DEF IInv, Types, PageTypes, SegUse, ProcUse, IoOf
    <3>4. \A x \in Swaps : swref'[x] = swref[x] + SegUse(s, x)' - SegUse(s, x)
      BY <1>1 DEF IInv, Types, PoolTypes, SegUse
    <3> QED
      BY <1>1, <3>1, <3>3, <3>4, RefStep DEF IInv
  <2>10. CacheIsRight' /\ Loaded'
    BY <1>1, <2>1, <2>2, KeysApart DEF IInv, Types, ProcTypes, PageTypes, CacheIsRight, Loaded, Has
  <2> QED
    BY <2>3, <2>4, <2>5, <2>6, <2>7, <2>8, <2>9, <2>10 DEF IInv
<1> QED
  BY <1>2, <1>3

(* The read, and its failure.                                              *)
LEMMA LoadStep ==
  ASSUME IInv, NEW p \in Procs, Load(p), NEW q, q = page[p], NEW k, k = key[p]
  PROVE  IInv'
<1>1. /\ q \in Pages /\ k \in Keys /\ pc[p] = "load" /\ pc' = [pc EXCEPT ![p] = "relock"]
      /\ content' = [content EXCEPT ![q] = IF k \in Swaps THEN swdata[k] ELSE Fresh(k)]
      /\ UNCHANGED <<at, write, key, page, lk, slot, holds, ref, tag, chain, plock, list, freecount,
                     swref, swdata, io>>
  BY DEF Load, Goto, proc, cache, free, swap, IInv, Types, ProcTypes, Keyed
<1>2. Types'
  BY <1>1, DataIs, KeysApart DEF IInv, Types, ProcTypes, SegTypes, PageTypes, PoolTypes, Places
<1>3. Located' /\ Locked'
  BY <1>1 DEF IInv, Types, ProcTypes, Located, Locked
<1>4. PageLocked'
  BY <1>1 DEF IInv, Types, ProcTypes, PageTypes, PageLocked
<1>5. Keyed'
  BY <1>1, KeysApart DEF IInv, Types, ProcTypes, Keyed
<1>6. OutKind' /\ NotFile'
  BY <1>1 DEF IInv, OutKind, NotFile
<1>7. Own'
  BY <1>1 DEF IInv, Types, ProcTypes, Own, Has
<1>8. RefExact'
  <2>1. \A r \in Procs : IF Has(r) \/ Has(r)' THEN Has(r) /\ Has(r)' /\ page'[r] = page[r] ELSE TRUE
    BY <1>1 DEF IInv, Types, ProcTypes, Has
  <2> QED
    BY <1>1, <2>1, RefSame DEF IInv
<1>9. CacheIsRight' /\ Loaded'
  <2>1. tag[q] = None /\ \A r \in Procs : r # p /\ Has(r) => page[r] # q
    BY <1>1, q = page[p] DEF IInv, Own, Has
  <2> QED
    BY <1>1, <2>1, q = page[p], k = key[p], KeysApart
    DEF IInv, Types, ProcTypes, PageTypes, CacheIsRight, Loaded, Has
<1> QED
  BY <1>2, <1>3, <1>4, <1>5, <1>6, <1>7, <1>8, <1>9 DEF IInv

LEMMA LoadFailsStep ==
  ASSUME IInv, NEW p \in Procs, LoadFails(p), NEW s, s = at[p], NEW q, q = page[p]
  PROVE  IInv'
<1>1. /\ s \in Segs /\ q \in Pages /\ pc[p] = "load" /\ pc' = [pc EXCEPT ![p] = "user"]
      /\ page' = [page EXCEPT ![p] = None] /\ key' = [key EXCEPT ![p] = None]
      /\ at' = [at EXCEPT ![p] = None] /\ write' = [write EXCEPT ![p] = FALSE]
      /\ UNCHANGED <<lk, slot, holds, tag, chain, plock, swref, swdata, io>>
  BY DEF LoadFails, Goto, Rest, cache, swap, IInv, Types, ProcTypes, Located, Keyed
<1>2. /\ ref' = [ref EXCEPT ![q] = @ - 1] /\ list' \in Lists /\ freecount' \in 0..Word - 1
      /\ content' \in [Pages -> Data]
      /\ \A r \in Pages : content'[r] = content[r] \/ (r = q /\ tag[r] = None)
  <2>1. PutPage(q, 1, content) /\ content \in [Pages -> Data]
    BY q = page[p] DEF LoadFails, IInv, Types, PageTypes
  <2> QED
    BY <1>1, <2>1, PutPageStep DEF IInv
<1>3. Types'
  BY <1>1, <1>2 DEF IInv, Types, ProcTypes, SegTypes, PageTypes, PoolTypes, Places
<1>4. Located' /\ Locked'
  BY <1>1 DEF IInv, Types, ProcTypes, Located, Locked
<1>5. PageLocked'
  BY <1>1 DEF IInv, Types, ProcTypes, PageTypes, PageLocked
<1>6. Keyed'
  BY <1>1, KeysApart DEF IInv, Types, ProcTypes, Keyed
<1>7. OutKind' /\ NotFile'
  BY <1>1 DEF IInv, OutKind, NotFile
<1>8. Own'
  BY <1>1 DEF IInv, Types, ProcTypes, Own, Has
<1>9. RefExact'
  <2>1. \A r \in Procs \ {p} : page'[r] = page[r] /\ pc'[r] = pc[r]
    BY <1>1 DEF IInv, Types, ProcTypes
  <2>2. Has(p) /\ ~Has(p)' /\ page[p] = q
    BY <1>1, q = page[p] DEF IInv, Types, ProcTypes, Has
  <2>3. \A r \in Pages : ref'[r] = ref[r] + SegUse(s, r)' - SegUse(s, r)
                           + ProcUse(p, r)' - ProcUse(p, r) + IoOf(r)' - IoOf(r)
    BY <1>1, <1>2, <2>2 DEF IInv, Types, PageTypes, SegUse, ProcUse, IoOf
  <2>4. \A x \in Swaps : swref'[x] = swref[x] + SegUse(s, x)' - SegUse(s, x)
    BY <1>1 DEF IInv, Types, PoolTypes, SegUse
  <2> QED
    BY <1>1, <2>1, <2>3, <2>4, RefStep DEF IInv
<1>10. CacheIsRight'
  BY <1>1, <1>2, KeysApart DEF IInv, CacheIsRight
<1>11. Loaded'
  <2>1. \A r \in Procs : pc'[r] = "relock" => r # p /\ pc[r] = "relock" /\ page[r] \in Pages \ {q}
    BY <1>1, q = page[p] DEF IInv, Types, ProcTypes, Own, Has, Keyed
  <2> QED
    BY <1>1, <1>2, <2>1 DEF IInv, Types, ProcTypes, Loaded
<1> QED
  BY <1>3, <1>4, <1>5, <1>6, <1>7, <1>8, <1>9, <1>10, <1>11 DEF IInv

(* The segment is locked again.                                            *)
LEMMA RelockStep ==
  ASSUME IInv, NEW p \in Procs, Relock(p), NEW s, s = at[p], NEW q, q = page[p], NEW k, k = key[p]
  PROVE  IInv'
<1>1. /\ s \in Segs /\ q \in Pages /\ k \in Keys /\ pc[p] = "relock" /\ lk[s] = None /\ p \in Users[s]
      /\ k \in Blocks => Kind[s] \notin {"bss", "shared"}
      /\ k \in Swaps => Kind[s] \in {"data", "bss", "shared"} /\ slot[s] \in Pages \cup Swaps
      /\ pc' = [pc EXCEPT ![p] = "map"] /\ lk' = [lk EXCEPT ![s] = p]
      /\ page' = [page EXCEPT ![p] = None] /\ key' = [key EXCEPT ![p] = None]
      /\ UNCHANGED <<at, write, holds, plock>>
  BY DEF Relock, Goto, Qlock, Drop, IInv, Types, ProcTypes, Located, Keyed
<1>2. /\ tag[q] = None /\ \A t \in Segs : slot[t] # q
      /\ \A r \in Procs : r # p /\ Has(r) => page[r] # q
      /\ io # None => io[1] # q
  BY <1>1, q = page[p] DEF IInv, Own, Has
<1>3. \A r \in Procs \ {p} : page'[r] = page[r] /\ pc'[r] = pc[r]
  BY <1>1 DEF IInv, Types, ProcTypes
<1>4. Has(p) /\ ~Has(p)' /\ page[p] = q
  BY <1>1, q = page[p] DEF IInv, Types, ProcTypes, Has
<1>5. CASE StillOut(s, k)
  <2>1. /\ slot' = [slot EXCEPT ![s] = q] /\ tag' = [tag EXCEPT ![q] = k] /\ chain' = On(chain, q, k)
        /\ UNCHANGED <<ref, content, list, freecount>>
    BY <1>5, s = at[p], q = page[p], k = key[p] DEF Relock, Cached, free
  <2>2. IF k \in Swaps THEN slot[s] \in Swaps ELSE slot[s] = None
    BY <1>1, <1>5, KeysApart DEF StillOut
  <2>3. swdata' \in [Swaps -> Data] /\ io' = io
        /\ swref' = IF k \in Swaps THEN [swref EXCEPT ![slot[s]] = @ - 1] ELSE swref
    <3>1. IF k \in Swaps THEN PutSwap(slot[s]) ELSE UNCHANGED swap
      BY <1>5, k = key[p], s = at[p] DEF Relock
    <3> QED
      BY <2>2, <3>1, PutSwapStep DEF IInv, Types, PoolTypes, swap
  <2>4. Types'
    <3>1. chain' \in [Keys -> Seq(Pages)]
      BY <1>1, <2>1, ChainOps DEF IInv, Types, PageTypes
    <3> QED
      BY <1>1, <2>1, <2>2, <2>3, <3>1 DEF IInv, Types, ProcTypes, SegTypes, PageTypes, PoolTypes, Places
  <2>5. Located' /\ Locked'
    BY <1>1, <2>1, KeysApart, s = at[p] DEF IInv, Types, ProcTypes, SegTypes, Located, Locked
  <2>6. PageLocked'
    BY <1>1, <2>1, KeysApart DEF IInv, Types, ProcTypes, SegTypes, PageTypes, Located, Locked, PageLocked
  <2>7. Keyed'
    BY <1>1, <2>1, KeysApart DEF IInv, Types, ProcTypes, SegTypes, Located, Locked, Keyed
  <2>8. OutKind'
    BY <1>1, <2>1, KeysApart DEF IInv, Types, SegTypes, OutKind
  <2>9. Own'
    BY <1>1, <1>2, <1>3, <1>4, <2>1, <2>3, KeysApart DEF IInv, Types, ProcTypes, SegTypes, PageTypes, Own, Has
  <2>10. RefExact'
    <3>1. \A t \in Segs \ {s} : slot'[t] = slot[t]
      BY <2>1 DEF IInv, Types, SegTypes
    <3>2. slot'[s] = q /\ slot[s] # q
      BY <1>1, <1>2, <2>1 DEF IInv, Types, SegTypes
    <3>3. \A r \in Pages : ref'[r] = ref[r] + SegUse(s, r)' - SegUse(s, r)
                             + ProcUse(p, r)' - ProcUse(p, r) + IoOf(r)' - IoOf(r)
      BY <1>1, <1>4, <2>1, <2>2, <2>3, <3>2, KeysApart DEF IInv, Types, PageTypes, SegUse, ProcUse, IoOf
    <3>4. \A x \in Swaps : swref'[x] = swref[x] + SegUse(s, x)' - SegUse(s, x)
      BY <1>1, <2>2, <2>3, <3>2, KeysApart DEF IInv, Types, PoolTypes, SegUse
    <3> QED
      BY <1>3, <3>1, <3>3, <3>4, RefStep DEF IInv
  <2>11. CacheIsRight' /\ Loaded'
    BY <1>1, <1>2, <2>1, q = page[p], k = key[p] DEF IInv, Types, ProcTypes, PageTypes, CacheIsRight, Loaded, Has
  <2>12. NotFile'
    BY <1>1, <1>2, <2>1, KeysApart DEF IInv, Types, SegTypes, PageTypes, NotFile
  <2> QED
    BY <2>4, <2>5, <2>6, <2>7, <2>8, <2>9, <2>10, <2>11, <2>12 DEF IInv
<1>6. CASE ~StillOut(s, k)
  <2>1. slot' = slot /\ tag' = tag /\ chain' = chain /\ swref' = swref /\ swdata' = swdata /\ io' = io
    BY <1>6, s = at[p], q = page[p], k = key[p] DEF Relock, cache, swap
  <2>2. /\ ref' = [ref EXCEPT ![q] = @ - 1] /\ list' \in Lists /\ freecount' \in 0..Word - 1
        /\ content' \in [Pages -> Data]
        /\ \A r \in Pages : content'[r] = content[r] \/ (r = q /\ tag[r] = None)
    <3>1. PutPage(q, 1, content) /\ content \in [Pages -> Data]
      BY <1>6, s = at[p], k = key[p], q = page[p] DEF Relock, IInv, Types, PageTypes
    <3> QED
      BY <1>1, <3>1, PutPageStep DEF IInv
  <2>3. Types'
    BY <1>1, <2>1, <2>2 DEF IInv, Types, ProcTypes, SegTypes, PageTypes, PoolTypes, Places
  <2>4. Located' /\ Locked'
    BY <1>1, <2>1, KeysApart, s = at[p] DEF IInv, Types, ProcTypes, SegTypes, Located, Locked
  <2>5. PageLocked'
    BY <1>1, <2>1 DEF IInv, Types, ProcTypes, PageTypes, PageLocked
  <2>6. Keyed'
    BY <1>1, <2>1, KeysApart DEF IInv, Types, ProcTypes, SegTypes, Located, Locked, Keyed
  <2>7. OutKind' /\ NotFile'
    BY <1>1, <2>1 DEF IInv, OutKind, NotFile
  <2>8. Own'
    BY <1>1, <1>3, <1>4, <2>1 DEF IInv, Own, Has
  <2>9. RefExact'
    <3>1. \A r \in Pages : ref'[r] = ref[r] + SegUse(s, r)' - SegUse(s, r)
                             + ProcUse(p, r)' - ProcUse(p, r) + IoOf(r)' - IoOf(r)
      BY <1>1, <1>4, <2>1, <2>2 DEF IInv, Types, PageTypes, SegUse, ProcUse, IoOf
    <3>2. \A x \in Swaps : swref'[x] = swref[x] + SegUse(s, x)' - SegUse(s, x)
      BY <2>1 DEF IInv, Types, PoolTypes, SegUse
    <3> QED
      BY <1>3, <2>1, <3>1, <3>2, RefStep DEF IInv
  <2>10. CacheIsRight'
    BY <2>1, <2>2, KeysApart DEF IInv, CacheIsRight
  <2>11. Loaded'
    <3>1. \A r \in Procs : pc'[r] = "relock" => r # p /\ pc[r] = "relock" /\ page[r] \in Pages \ {q}
      BY <1>1, <1>2 DEF IInv, Types, ProcTypes, Has, Keyed
    <3> QED
      BY <1>1, <2>2, <3>1 DEF IInv, Types, ProcTypes, Loaded
  <2> QED
    BY <2>3, <2>4, <2>5, <2>6, <2>7, <2>8, <2>9, <2>10, <2>11 DEF IInv
<1> QED
  BY <1>5, <1>6

(* A page of zeros becomes the segment's.                                  *)
LEMMA FillStep ==
  ASSUME IInv, NEW p \in Procs, Fill(p), NEW s, s = at[p], NEW q, q = page[p]
  PROVE  IInv'
<1>1. /\ s \in Segs /\ q \in Pages /\ pc[p] = "copy" /\ lk[s] = p /\ slot[s] = None
      /\ pc' = [pc EXCEPT ![p] = "map"] /\ slot' = [slot EXCEPT ![s] = q]
      /\ content' = [content EXCEPT ![q] = Fresh(Block[s])]
      /\ page' = [page EXCEPT ![p] = None] /\ key' = [key EXCEPT ![p] = None]
      /\ UNCHANGED <<at, write, lk, holds, ref, tag, chain, plock, list, freecount, swref, swdata, io>>
  BY s = at[p], q = page[p] DEF Fill, Goto, Drop, cache, free, swap, IInv, Types, ProcTypes, Located, Locked, Keyed
<1>2. /\ tag[q] = None /\ \A t \in Segs : slot[t] # q
      /\ \A r \in Procs : r # p /\ Has(r) => page[r] # q
      /\ io # None => io[1] # q
  BY <1>1, q = page[p] DEF IInv, Own, Has
<1>3. Types'
  BY <1>1, DataIs, KeysApart DEF IInv, Types, ProcTypes, SegTypes, PageTypes, PoolTypes, Places
<1>4. Located' /\ Locked'
  BY <1>1, s = at[p] DEF IInv, Types, ProcTypes, Located, Locked
<1>5. PageLocked'
  BY <1>1, KeysApart DEF IInv, Types, ProcTypes, SegTypes, PageTypes, Located, Locked, PageLocked
<1>6. Keyed'
  BY <1>1, KeysApart DEF IInv, Types, ProcTypes, SegTypes, Located, Locked, Keyed
<1>7. OutKind' /\ NotFile'
  BY <1>1, <1>2, KeysApart DEF IInv, Types, SegTypes, OutKind, NotFile
<1>8. Own'
  BY <1>1, <1>2 DEF IInv, Types, ProcTypes, SegTypes, Own, Has
<1>9. RefExact'
  <2>1. \A t \in Segs \ {s} : slot'[t] = slot[t]
    BY <1>1 DEF IInv, Types, SegTypes
  <2>2. \A r \in Procs \ {p} : page'[r] = page[r] /\ pc'[r] = pc[r]
    BY <1>1 DEF IInv, Types, ProcTypes
  <2>3. Has(p) /\ ~Has(p)' /\ page[p] = q /\ slot'[s] = q
    BY <1>1, q = page[p] DEF IInv, Types, ProcTypes, SegTypes, Has
  <2>4. \A r \in Pages : ref'[r] = ref[r] + SegUse(s, r)' - SegUse(s, r)
                           + ProcUse(p, r)' - ProcUse(p, r) + IoOf(r)' - IoOf(r)
    BY <1>1, <2>3, KeysApart DEF IInv, Types, PageTypes, SegUse, ProcUse, IoOf
  <2>5. \A x \in Swaps : swref'[x] = swref[x] + SegUse(s, x)' - SegUse(s, x)
    BY <1>1, <2>3, KeysApart DEF IInv, Types, PoolTypes, SegUse
  <2> QED
    BY <2>1, <2>2, <2>4, <2>5, RefStep DEF IInv
<1>10. CacheIsRight' /\ Loaded'
  BY <1>1, <1>2, KeysApart DEF IInv, Types, ProcTypes, PageTypes, CacheIsRight, Loaded, Has
<1> QED
  BY <1>3, <1>4, <1>5, <1>6, <1>7, <1>8, <1>9, <1>10 DEF IInv

(* To need a page of one's own.                                            *)
LEMMA SplitStep ==
  ASSUME IInv, NEW p \in Procs, Split(p)
  PROVE  IInv'
<1>1. /\ pc[p] = "map" /\ lk[at[p]] = p /\ slot[at[p]] \in Pages /\ pc' = [pc EXCEPT ![p] = "take"]
      /\ UNCHANGED <<at, write, key, page, lk, slot, holds, ref, tag, chain, plock, content, list,
                     freecount, swref, swdata, io>>
  BY DEF Split, Goto, proc, cache, free, swap, IInv, Locked
<1>2. Types'
  BY <1>1 DEF IInv, Types, ProcTypes, SegTypes, PageTypes, PoolTypes, Places
<1>3. Located' /\ Locked'
  BY <1>1 DEF IInv, Types, ProcTypes, Located, Locked
<1>4. PageLocked'
  BY <1>1 DEF IInv, Types, ProcTypes, PageTypes, PageLocked
<1>5. Keyed'
  BY <1>1, KeysApart DEF IInv, Types, ProcTypes, Keyed
<1>6. OutKind' /\ NotFile'
  BY <1>1 DEF IInv, OutKind, NotFile
<1>7. Own'
  BY <1>1 DEF IInv, Types, ProcTypes, Own, Has
<1>8. RefExact'
  <2>1. \A r \in Procs : IF Has(r) \/ Has(r)' THEN Has(r) /\ Has(r)' /\ page'[r] = page[r] ELSE TRUE
    BY <1>1 DEF IInv, Types, ProcTypes, Has
  <2> QED
    BY <1>1, <2>1, RefSame DEF IInv
<1>9. CacheIsRight' /\ Loaded'
  BY <1>1 DEF IInv, Types, ProcTypes, CacheIsRight, Loaded
<1> QED
  BY <1>2, <1>3, <1>4, <1>5, <1>6, <1>7, <1>8, <1>9 DEF IInv

(* What ends a fault whose page is there: the segment is unlocked, and     *)
(* what it wrote is in a page that is no copy of a file any more.          *)
LEMMA DoneStep ==
  ASSUME IInv, NEW p \in Procs, pc[p] = "map", pc' = [pc EXCEPT ![p] = "user"], NEW s, s = at[p],
         lk' = [lk EXCEPT ![s] = None],
         page' = [page EXCEPT ![p] = None], key' = [key EXCEPT ![p] = None],
         at' = [at EXCEPT ![p] = None], write' = [write EXCEPT ![p] = FALSE],
         UNCHANGED <<slot, ref, plock, list, freecount, swref, swdata, io>>,
         PageTypes', holds' \in [Segs -> Data],
         \A q \in Pages : \/ tag'[q] = None
                          \/ tag'[q] = tag[q] /\ (content'[q] = content[q] \/ tag[q] \notin Blocks),
         \A q \in Pages : content'[q] = content[q] \/ \E t \in Segs : slot[t] = q
  PROVE  IInv'
<1>1. s \in Segs /\ lk[s] = p
  BY DEF IInv, Located, Locked
<1>2. Types'
  BY <1>1 DEF IInv, Types, ProcTypes, SegTypes, PoolTypes, Places
<1>3. Located' /\ Locked'
  BY <1>1 DEF IInv, Types, ProcTypes, SegTypes, Located, Locked
<1>4. PageLocked'
  BY <1>1 DEF IInv, Types, ProcTypes, PageTypes, PageLocked
<1>5. Keyed'
  BY <1>1, KeysApart DEF IInv, Types, ProcTypes, SegTypes, Located, Keyed
<1>6. OutKind'
  BY DEF IInv, OutKind
<1>7. Own'
  BY DEF IInv, Types, ProcTypes, PageTypes, Own, Has, Keyed
<1>8. RefExact'
  <2>1. \A r \in Procs : IF Has(r) \/ Has(r)' THEN Has(r) /\ Has(r)' /\ page'[r] = page[r] ELSE TRUE
    BY DEF IInv, Types, ProcTypes, Has
  <2> QED
    BY <2>1, RefSame DEF IInv
<1>9. CacheIsRight'
  BY KeysApart DEF IInv, CacheIsRight
<1>10. Loaded'
  <2>1. \A r \in Procs : pc'[r] = "relock" => r # p /\ pc[r] = "relock" /\ page[r] \in Pages
                                              /\ \A t \in Segs : slot[t] # page[r]
    BY DEF IInv, Types, ProcTypes, Own, Has, Keyed
  <2> QED
    BY <2>1 DEF IInv, Types, ProcTypes, Loaded
<1>11. NotFile'
  BY KeysApart DEF IInv, NotFile
<1> QED
  BY <1>2, <1>3, <1>4, <1>5, <1>6, <1>7, <1>8, <1>9, <1>10, <1>11 DEF IInv

LEMMA StoreType ==
  ASSUME NEW c \in Data, NEW s \in Segs
  PROVE  Stored(s, c) \in Data
BY DataIs DEF Stored

LEMMA ReadStep ==
  ASSUME IInv, NEW p \in Procs, Read(p)
  PROVE  IInv'
<1>1. /\ pc[p] = "map" /\ pc' = [pc EXCEPT ![p] = "user"] /\ lk' = [lk EXCEPT ![at[p]] = None]
      /\ page' = [page EXCEPT ![p] = None] /\ key' = [key EXCEPT ![p] = None]
      /\ at' = [at EXCEPT ![p] = None] /\ write' = [write EXCEPT ![p] = FALSE]
      /\ UNCHANGED <<slot, ref, plock, list, freecount, swref, swdata, io, tag, chain, content, holds>>
  BY DEF Read, Goto, Qunlock, Rest, cache, free, swap
<1>2. PageTypes' /\ holds' \in [Segs -> Data]
  BY <1>1 DEF IInv, Types, PageTypes, SegTypes
<1> QED
  BY <1>1, <1>2, DoneStep

LEMMA InSharedStep ==
  ASSUME IInv, NEW p \in Procs, InShared(p), NEW s, s = at[p], NEW q, q = slot[s]
  PROVE  IInv'
<1>1. /\ pc[p] = "map" /\ pc' = [pc EXCEPT ![p] = "user"] /\ lk' = [lk EXCEPT ![s] = None]
      /\ page' = [page EXCEPT ![p] = None] /\ key' = [key EXCEPT ![p] = None]
      /\ at' = [at EXCEPT ![p] = None] /\ write' = [write EXCEPT ![p] = FALSE]
      /\ q \in Pages /\ Kind[s] = "shared" /\ Store(s, q)
      /\ UNCHANGED <<slot, ref, plock, list, freecount, swref, swdata, io, tag, chain>>
  BY s = at[p], q = slot[s] DEF InShared, Goto, Qunlock, Rest, cache, free, swap
<1>2. s \in Segs
  BY <1>1, s = at[p] DEF IInv, Located
<1>3. PageTypes' /\ holds' \in [Segs -> Data]
  BY <1>1, <1>2, StoreType DEF IInv, Types, PageTypes, SegTypes, Store
<1>4. tag[q] \notin Blocks
  BY <1>1, <1>2, q = slot[s] DEF IInv, NotFile
<1>5. \A r \in Pages : content'[r] = content[r] \/ r = q
  BY <1>1 DEF Store, IInv, Types, PageTypes
<1> QED
  BY <1>1, <1>2, <1>3, <1>4, <1>5, q = slot[s], s = at[p], DoneStep

LEMMA ModifyStep ==
  ASSUME IInv, NEW p \in Procs, Modify(p), NEW s, s = at[p], NEW q, q = slot[s]
  PROVE  IInv'
<1>1. /\ pc[p] = "map" /\ pc' = [pc EXCEPT ![p] = "user"] /\ lk' = [lk EXCEPT ![s] = None]
      /\ page' = [page EXCEPT ![p] = None] /\ key' = [key EXCEPT ![p] = None]
      /\ at' = [at EXCEPT ![p] = None] /\ write' = [write EXCEPT ![p] = FALSE]
      /\ q \in Pages /\ Store(s, q) /\ tag' = [tag EXCEPT ![q] = None] /\ chain' = Off(chain, q)
      /\ UNCHANGED <<slot, ref, plock, list, freecount, swref, swdata, io>>
  BY s = at[p], q = slot[s] DEF Modify, Writes, Goto, Qunlock, Rest, Uncached, free, swap
<1>2. s \in Segs
  BY <1>1, s = at[p] DEF IInv, Located
<1>3. PageTypes' /\ holds' \in [Segs -> Data]
  BY <1>1, <1>2, StoreType, ChainOps DEF IInv, Types, PageTypes, SegTypes, Store
<1>4. \A r \in Pages \ {q} : content'[r] = content[r] /\ tag'[r] = tag[r]
  BY <1>1 DEF Store, IInv, Types, PageTypes
<1>5. tag'[q] = None
  BY <1>1 DEF IInv, Types, PageTypes
<1> QED
  BY <1>1, <1>2, <1>3, <1>4, <1>5, q = slot[s], s = at[p], DoneStep

(* duppage: of the list, and of the page.                                  *)
LEMMA DupStep ==
  ASSUME IInv, NEW p \in Procs, Dup(p), NEW s, s = at[p], NEW q, q = slot[s]
  PROVE  IInv'
<1>1. /\ s \in Segs /\ lk[s] = p /\ q \in Pages /\ plock[q] = None /\ pc[p] = "map"
      /\ pc' = [pc EXCEPT ![p] = "dup"] /\ list.head \in Pages
      /\ plock' = [plock EXCEPT ![q] = p] /\ page' = [page EXCEPT ![p] = list.head]
      /\ list' = AtTail(WithoutHead(list), list.head)
      /\ UNCHANGED <<at, write, key, lk, slot, holds, ref, tag, chain, content, freecount, swref, swdata, io>>
  BY s = at[p], q = slot[s]
  DEF Dup, Writes, Goto, cache, swap, IInv, Types, ProcTypes, PoolTypes, Lists, Located, Locked
<1>2. Types'
  <2>1. list' \in Lists
    <3>1. list \in Lists
      BY DEF IInv, Types, PoolTypes
    <3> QED
      BY ONLY <1>1, <3>1, ListOps
  <2> QED
    BY <1>1, <2>1 DEF IInv, Types, ProcTypes, SegTypes, PageTypes, PoolTypes, Places
<1>3. Located' /\ Locked'
  BY <1>1, s = at[p] DEF IInv, Types, ProcTypes, Located, Locked
<1>4. PageLocked'
  BY <1>1, s = at[p], q = slot[s], KeysApart DEF IInv, Types, ProcTypes, PageTypes, PageLocked
<1>5. Keyed'
  BY <1>1, KeysApart DEF IInv, Types, ProcTypes, Keyed
<1>6. OutKind' /\ NotFile'
  BY <1>1 DEF IInv, OutKind, NotFile
<1>7. Own'
  BY <1>1 DEF IInv, Types, ProcTypes, Own, Has
<1>8. RefExact'
  <2>1. \A r \in Procs : IF Has(r) \/ Has(r)' THEN Has(r) /\ Has(r)' /\ page'[r] = page[r] ELSE TRUE
    BY <1>1 DEF IInv, Types, ProcTypes, Has
  <2> QED
    BY <1>1, <2>1, RefSame DEF IInv
<1>9. CacheIsRight' /\ Loaded'
  BY <1>1 DEF IInv, Types, ProcTypes, CacheIsRight, Loaded
<1> QED
  BY <1>2, <1>3, <1>4, <1>5, <1>6, <1>7, <1>8, <1>9 DEF IInv

LEMMA DuppedStep ==
  ASSUME IInv, NEW p \in Procs, Dupped(p), NEW s, s = at[p], NEW q, q = slot[s], NEW np, np = page[p]
  PROVE  IInv'
<1>1. /\ s \in Segs /\ lk[s] = p /\ q \in Pages /\ np \in Pages /\ plock[q] = p /\ pc[p] = "dup"
      /\ pc' = [pc EXCEPT ![p] = "user"] /\ lk' = [lk EXCEPT ![s] = None]
      /\ page' = [page EXCEPT ![p] = None] /\ key' = [key EXCEPT ![p] = None]
      /\ at' = [at EXCEPT ![p] = None] /\ write' = [write EXCEPT ![p] = FALSE]
      /\ plock' = [plock EXCEPT ![q] = None]
      /\ UNCHANGED <<slot, ref, list, freecount, swref, swdata, io>>
  BY s = at[p], q = slot[s], np = page[p]
  DEF Dupped, Goto, Qunlock, Rest, free, swap, IInv, Types, ProcTypes, PageTypes, Located, Locked, PageLocked, Keyed
<1>2. \A t \in Segs : slot[t] = q => ref[q] # 0
  BY <1>1, Used DEF IInv, RefExact
<1>3. /\ tag'[q] = None /\ PageTypes' /\ holds' \in [Segs -> Data]
      /\ \A r \in Pages \ {q, np} : tag'[r] = tag[r] /\ content'[r] = content[r]
      /\ IF ref[np] # 0 THEN np # q => tag'[np] = tag[np] /\ content'[np] = content[np]
                        ELSE np # q /\ tag'[np] = tag[q] /\ content'[np] = content[q]
  <2>1. plock' \in [Pages -> Procs \cup {None}] /\ ref' \in [Pages -> Int]
    BY <1>1 DEF IInv, Types, PageTypes
  <2>2. CASE ref[np] # 0
    <3>1. /\ tag' = [tag EXCEPT ![q] = None] /\ chain' = Off(chain, q)
          /\ content' = [content EXCEPT ![q] = Stored(s, @)]
          /\ holds' = [holds EXCEPT ![s] = Stored(s, @)]
      BY <2>2, s = at[p], q = slot[s], np = page[p] DEF Dupped, Uncached, Store
    <3>2. tag' \in [Pages -> Keys \cup {None}] /\ chain' \in [Keys -> Seq(Pages)]
      BY <1>1, <3>1, ChainOps DEF IInv, Types, PageTypes
    <3>3. content' \in [Pages -> Data] /\ holds' \in [Segs -> Data]
      BY <1>1, <3>1, StoreType DEF IInv, Types, PageTypes, SegTypes
    <3> QED
      BY <1>1, <2>1, <2>2, <3>1, <3>2, <3>3 DEF IInv, Types, PageTypes
  <2>3. CASE ref[np] = 0
    <3>1. /\ tag' = [tag EXCEPT ![np] = tag[q], ![q] = None]
          /\ chain' = On(Off(Off(chain, np), q), np, tag[q])
          /\ content' = [content EXCEPT ![np] = content[q], ![q] = Stored(s, @)]
          /\ holds' = [holds EXCEPT ![s] = Stored(s, @)]
      BY <2>3, s = at[p], q = slot[s], np = page[p] DEF Dupped
    <3>2. np # q
      BY <1>1, <1>2, <2>3, q = slot[s]
    <3>3. tag' \in [Pages -> Keys \cup {None}]
      BY <1>1, <3>1 DEF IInv, Types, PageTypes
    <3>4. chain' \in [Keys -> Seq(Pages)]
      <4>1. chain \in [Keys -> Seq(Pages)] /\ tag[q] \in Keys \cup {None}
        BY <1>1 DEF IInv, Types, PageTypes
      <4>2. PICK c : c = Off(Off(chain, np), q)
        OBVIOUS
      <4>3. c \in [Keys -> Seq(Pages)]
        BY ONLY <1>1, <4>1, <4>2, ChainOps
      <4>4. CASE tag[q] \in Keys
        BY ONLY <1>1, <3>1, <4>2, <4>3, <4>4, ChainOps
      <4>5. CASE tag[q] = None
        <5>1. tag[q] \notin Keys
          BY <4>5, KeysApart
        <5>2. On(c, np, tag[q]) = c
          BY ONLY <4>3, <5>1, SMTT(60) DEF On
        <5> QED
          BY ONLY <3>1, <4>2, <4>3, <5>2
      <4> QED
        BY <4>1, <4>4, <4>5
    <3>5. content' \in [Pages -> Data] /\ holds' \in [Segs -> Data]
      <4>1. content \in [Pages -> Data] /\ holds \in [Segs -> Data]
        BY DEF IInv, Types, PageTypes, SegTypes
      <4>2. Stored(s, content[q]) \in Data /\ Stored(s, holds[s]) \in Data
        BY <1>1, <4>1, StoreType
      <4>3. content' = [content EXCEPT ![np] = content[q], ![q] = Stored(s, content[q])]
        BY <3>1, <3>2, <4>1
      <4> QED
        BY ONLY <1>1, <3>1, <4>1, <4>2, <4>3
    <3> QED
      <4>1. PageTypes'
        BY ONLY <2>1, <3>3, <3>4, <3>5 DEF PageTypes
      <4>2. tag \in [Pages -> Keys \cup {None}] /\ content \in [Pages -> Data]
        BY DEF IInv, Types, PageTypes
      <4>3. /\ tag'[q] = None /\ tag'[np] = tag[q] /\ content'[np] = content[q]
            /\ \A r \in Pages \ {q, np} : tag'[r] = tag[r] /\ content'[r] = content[r]
        BY ONLY <1>1, <3>1, <3>2, <4>2
      <4> QED
        BY ONLY <2>3, <3>2, <3>5, <4>1, <4>3
  <2> QED
    BY <1>1, <2>2, <2>3 DEF IInv, Types, PageTypes
<1>4. Types'
  BY <1>1, <1>3 DEF IInv, Types, ProcTypes, SegTypes, PoolTypes, Places
<1>5. Located' /\ Locked'
  BY <1>1 DEF IInv, Types, ProcTypes, SegTypes, Located, Locked
<1>6. PageLocked'
  BY <1>1, s = at[p], q = slot[s], KeysApart DEF IInv, Types, ProcTypes, PageTypes, PageLocked
<1>7. Keyed'
  BY <1>1, KeysApart DEF IInv, Types, ProcTypes, SegTypes, Located, Keyed
<1>8. OutKind'
  BY <1>1 DEF IInv, OutKind
<1>9. \A r \in Procs : Has(r) => page[r] \in Pages /\ page[r] # q /\ (ref[np] = 0 => page[r] # np)
  BY <1>1, q = slot[s], Used DEF IInv, Types, ProcTypes, Own, Has, Keyed, RefExact
<1>10. Own'
  BY <1>1, <1>3, <1>9 DEF IInv, Types, ProcTypes, Own, Has
<1>11. RefExact'
  <2>1. \A r \in Procs : IF Has(r) \/ Has(r)' THEN Has(r) /\ Has(r)' /\ page'[r] = page[r] ELSE TRUE
    BY <1>1 DEF IInv, Types, ProcTypes, Has
  <2> QED
    BY <1>1, <2>1, RefSame DEF IInv
<1>12. CacheIsRight'
  BY <1>1, <1>3, KeysApart DEF IInv, CacheIsRight
<1>13. Loaded'
  BY <1>1, <1>3, <1>9 DEF IInv, Types, ProcTypes, Loaded, Has
<1>14. NotFile'
  <2>1. \A t \in Segs : slot[t] \in Pages => ref[slot[t]] # 0
    BY Used DEF IInv, RefExact
  <2> QED
    BY <1>1, <1>3, <2>1, KeysApart DEF IInv, NotFile
<1> QED
  BY <1>4, <1>5, <1>6, <1>7, <1>8, <1>10, <1>11, <1>12, <1>13, <1>14 DEF IInv

(* Copy on write.                                                          *)
LEMMA CopyStep ==
  ASSUME IInv, NEW p \in Procs, Copy(p), NEW s, s = at[p], NEW q, q = slot[s], NEW np, np = page[p]
  PROVE  IInv'
<1>1. /\ s \in Segs /\ lk[s] = p /\ q \in Pages /\ np \in Pages /\ pc[p] = "copy"
      /\ pc' = [pc EXCEPT ![p] = "user"] /\ lk' = [lk EXCEPT ![s] = None]
      /\ page' = [page EXCEPT ![p] = None] /\ key' = [key EXCEPT ![p] = None]
      /\ at' = [at EXCEPT ![p] = None] /\ write' = [write EXCEPT ![p] = FALSE]
      /\ slot' = [slot EXCEPT ![s] = np] /\ holds' = [holds EXCEPT ![s] = Stored(s, @)]
      /\ PutPage(q, 1, [content EXCEPT ![np] = Stored(s, content[q])])
      /\ UNCHANGED <<tag, chain, plock, swref, swdata, io>>
  BY s = at[p], q = slot[s], np = page[p]
  DEF Copy, Goto, Qunlock, Rest, cache, swap, IInv, Types, ProcTypes, SegTypes, Located, Locked, Keyed
<1>2. /\ tag[np] = None /\ \A t \in Segs : slot[t] # np
      /\ \A r \in Procs : r # p /\ Has(r) => page[r] # np
      /\ io # None => io[1] # np
  BY <1>1, np = page[p] DEF IInv, Own, Has
<1>3. /\ ref' = [ref EXCEPT ![q] = @ - 1] /\ list' \in Lists /\ freecount' \in 0..Word - 1
      /\ content' \in [Pages -> Data]
      /\ \A r \in Pages \ {np} : content'[r] = content[r] \/ (r = q /\ tag[r] = None)
  <2>1. PICK c : c = [content EXCEPT ![np] = Stored(s, content[q])]
    OBVIOUS
  <2>2. c \in [Pages -> Data] /\ \A r \in Pages \ {np} : c[r] = content[r]
    BY <1>1, <2>1, StoreType DEF IInv, Types, PageTypes
  <2>3. Types /\ PutPage(q, 1, c)
    BY <1>1, <2>1 DEF IInv
  <2> QED
    BY ONLY <1>1, <2>2, <2>3, PutPageStep
<1>4. Types'
  <2>1. holds' \in [Segs -> Data]
    BY <1>1, StoreType DEF IInv, Types, SegTypes
  <2> QED
    BY <1>1, <1>3, <2>1 DEF IInv, Types, ProcTypes, SegTypes, PageTypes, PoolTypes, Places
<1>5. Located' /\ Locked'
  BY <1>1 DEF IInv, Types, ProcTypes, SegTypes, Located, Locked
<1>6. PageLocked'
  BY <1>1, KeysApart DEF IInv, Types, ProcTypes, SegTypes, PageTypes, Located, Locked, PageLocked
<1>7. Keyed'
  BY <1>1, KeysApart DEF IInv, Types, ProcTypes, SegTypes, Located, Locked, Keyed
<1>8. OutKind' /\ NotFile'
  BY <1>1, <1>2, KeysApart DEF IInv, Types, SegTypes, OutKind, NotFile
<1>9. Own'
  BY <1>1, <1>2 DEF IInv, Types, ProcTypes, SegTypes, Own, Has
<1>10. RefExact'
  <2>1. \A t \in Segs \ {s} : slot'[t] = slot[t]
    BY <1>1 DEF IInv, Types, SegTypes
  <2>2. \A r \in Procs \ {p} : page'[r] = page[r] /\ pc'[r] = pc[r]
    BY <1>1 DEF IInv, Types, ProcTypes
  <2>3. Has(p) /\ ~Has(p)' /\ page[p] = np /\ slot'[s] = np /\ np # q
    BY <1>1, <1>2, np = page[p], q = slot[s] DEF IInv, Types, ProcTypes, SegTypes, Has
  <2>4. \A r \in Pages : ref'[r] = ref[r] + SegUse(s, r)' - SegUse(s, r)
                           + ProcUse(p, r)' - ProcUse(p, r) + IoOf(r)' - IoOf(r)
    BY <1>1, <1>3, <2>3, q = slot[s] DEF IInv, Types, PageTypes, SegUse, ProcUse, IoOf
  <2>5. \A x \in Swaps : swref'[x] = swref[x] + SegUse(s, x)' - SegUse(s, x)
    BY <1>1, <2>3, KeysApart, q = slot[s] DEF IInv, Types, PoolTypes, SegUse
  <2> QED
    BY <2>1, <2>2, <2>4, <2>5, RefStep DEF IInv
<1>11. CacheIsRight'
  BY <1>1, <1>2, <1>3, KeysApart DEF IInv, CacheIsRight
<1>12. Loaded'
  <2>1. \A r \in Procs : pc'[r] = "relock" => r # p /\ pc[r] = "relock" /\ page[r] \in Pages \ {q, np}
    BY <1>1, <1>2, q = slot[s] DEF IInv, Types, ProcTypes, Own, Has, Keyed
  <2> QED
    BY <1>1, <1>3, <2>1 DEF IInv, Types, ProcTypes, Loaded
<1> QED
  BY <1>4, <1>5, <1>6, <1>7, <1>8, <1>9, <1>10, <1>11, <1>12 DEF IInv
-----------------------------------------------------------------------------
(* No process is in a fault of an idle segment, nor has it locked one that *)
(* is not locked.                                                          *)
LEMMA NobodyIn ==
  ASSUME Types, Located, NEW s \in Segs, Idle(s)
  PROVE  \A p \in Procs : at[p] # s /\ (pc[p] # "user" => at[p] # s)
BY PageAssumption, KeysApart DEF Idle, Located

LEMMA FreeSegStep ==
  ASSUME IInv, NEW s \in Segs, FreeSeg(s), NEW v, v = slot[s]
  PROVE  IInv'
<1>1. /\ \A p \in Procs : at[p] # s
      /\ v \in Pages \cup Swaps /\ slot' = [slot EXCEPT ![s] = None]
      /\ holds' = [holds EXCEPT ![s] = Fresh(Block[s])]
      /\ UNCHANGED <<pc, at, write, key, page, lk, tag, chain, plock>>
  BY NobodyIn, v = slot[s] DEF FreeSeg, proc, cache, IInv, Types, SegTypes
<1>2. /\ ref' = (IF v \in Pages THEN [ref EXCEPT ![v] = @ - 1] ELSE ref)
      /\ swref' = IF v \in Swaps THEN [swref EXCEPT ![v] = @ - 1] ELSE swref
      /\ list' \in Lists /\ freecount' \in 0..Word - 1
      /\ content' \in [Pages -> Data] /\ swdata' \in [Swaps -> Data] /\ io' = io
      /\ \A r \in Pages : content'[r] = content[r] \/ (r = v /\ tag[r] = None)
  <2>1. CASE v \in Pages
    <3>1. PutPage(v, 1, content) /\ UNCHANGED swap /\ content \in [Pages -> Data] /\ Types
      BY <2>1, v = slot[s] DEF FreeSeg, IInv, Types, PageTypes
    <3> QED
      BY <2>1, <3>1, PutPageStep, KeysApart DEF swap, Types, PoolTypes
  <2>2. CASE v \in Swaps
    <3>1. PutSwap(v) /\ UNCHANGED <<ref, content, free>> /\ Types
      BY <2>2, v = slot[s], KeysApart DEF FreeSeg, IInv
    <3> QED
      BY <2>2, <3>1, PutSwapStep, KeysApart DEF free, Types, PageTypes, PoolTypes
  <2> QED
    BY <1>1, <2>1, <2>2
<1>3. Types'
  BY <1>1, <1>2, DataIs, KeysApart DEF IInv, Types, ProcTypes, SegTypes, PageTypes, PoolTypes
<1>4. Located' /\ Locked' /\ OutKind'
  BY <1>1, KeysApart DEF IInv, Types, SegTypes, Located, Locked, OutKind
<1>5. PageLocked'
  BY <1>1, KeysApart DEF IInv, Types, ProcTypes, SegTypes, PageTypes, Located, PageLocked
<1>6. Keyed'
  BY <1>1, KeysApart DEF IInv, Types, ProcTypes, SegTypes, Located, Keyed
<1>7. NotFile'
  BY <1>1, KeysApart DEF IInv, Types, SegTypes, NotFile
<1>8. Own'
  BY <1>1, <1>2, KeysApart DEF IInv, Types, ProcTypes, SegTypes, Own, Has, Keyed
<1>9. RefExact'
  <2>1. \A t \in Segs \ {s} : slot'[t] = slot[t]
    BY <1>1 DEF IInv, Types, SegTypes
  <2>2. slot'[s] = None
    BY <1>1 DEF IInv, Types, SegTypes
  <2>3. \A r \in Pages : ref'[r] = ref[r] + SegUse(s, r)' - SegUse(s, r)
                           + ProcUse(None, r)' - ProcUse(None, r) + IoOf(r)' - IoOf(r)
    BY <1>1, <1>2, <2>2, KeysApart, v = slot[s] DEF IInv, Types, PageTypes, SegUse, ProcUse, IoOf
  <2>4. \A x \in Swaps : swref'[x] = swref[x] + SegUse(s, x)' - SegUse(s, x)
    BY <1>1, <1>2, <2>2, KeysApart, v = slot[s] DEF IInv, Types, PoolTypes, SegUse
  <2> QED
    BY <1>1, <2>1, <2>3, <2>4, RefStep DEF IInv
<1>10. CacheIsRight'
  BY <1>1, <1>2, KeysApart DEF IInv, CacheIsRight
<1>11. Loaded'
  <2>1. \A r \in Procs : pc[r] = "relock" => page[r] \in Pages \ {v}
    BY v = slot[s] DEF IInv, Types, ProcTypes, Own, Has, Keyed
  <2> QED
    BY <1>1, <1>2, <2>1 DEF IInv, Types, ProcTypes, Loaded
<1> QED
  BY <1>3, <1>4, <1>5, <1>6, <1>7, <1>8, <1>9, <1>10, <1>11 DEF IInv

(* ptecpy.                                                                 *)
LEMMA ForkStep ==
  ASSUME IInv, NEW s \in Segs, NEW z \in Child[s], Fork(s, z), NEW v, v = slot[s]
  PROVE  IInv'
<1>0. z \in Segs /\ s # z /\ Kind[z] \in {"data", "bss"}
  BY PageAssumption
<1>1. /\ \A p \in Procs : at[p] # z
      /\ z \in Segs /\ s # z /\ Kind[z] \in {"data", "bss"} /\ slot[z] = None
      /\ v \in Pages \cup Swaps /\ slot' = [slot EXCEPT ![z] = v] /\ holds' = [holds EXCEPT ![z] = holds[s]]
      /\ ref' = (IF v \in Pages THEN [ref EXCEPT ![v] = @ + 1] ELSE ref)
      /\ swref' = (IF v \in Swaps THEN [swref EXCEPT ![v] = @ + 1] ELSE swref)
      /\ UNCHANGED <<pc, at, write, key, page, lk, tag, chain, plock, content, list, freecount, swdata, io>>
  BY <1>0, NobodyIn, KeysApart, v = slot[s] DEF Fork, proc, cache, free, swap, IInv, Types, SegTypes
<1>2. Types'
  BY <1>1 DEF IInv, Types, ProcTypes, SegTypes, PageTypes, PoolTypes
<1>3. Located' /\ Locked' /\ OutKind'
  BY <1>1 DEF IInv, Types, SegTypes, Located, Locked, OutKind
<1>4. PageLocked'
  BY <1>1 DEF IInv, Types, ProcTypes, SegTypes, PageTypes, Located, PageLocked
<1>5. Keyed'
  BY <1>1, KeysApart DEF IInv, Types, ProcTypes, SegTypes, Located, Keyed
<1>6. NotFile'
  BY <1>1 DEF IInv, Types, SegTypes, NotFile
<1>7. Own'
  BY <1>1, v = slot[s] DEF IInv, Types, ProcTypes, SegTypes, Own, Has
<1>8. RefExact'
  <2>1. \A t \in Segs \ {z} : slot'[t] = slot[t]
    BY <1>1 DEF IInv, Types, SegTypes
  <2>2. slot'[z] = v
    BY <1>1 DEF IInv, Types, SegTypes
  <2>3. \A r \in Pages : ref'[r] = ref[r] + SegUse(z, r)' - SegUse(z, r)
                           + ProcUse(None, r)' - ProcUse(None, r) + IoOf(r)' - IoOf(r)
    BY <1>1, <2>2, KeysApart DEF IInv, Types, PageTypes, SegUse, ProcUse, IoOf
  <2>4. \A x \in Swaps : swref'[x] = swref[x] + SegUse(z, x)' - SegUse(z, x)
    BY <1>1, <2>2, KeysApart DEF IInv, Types, PoolTypes, SegUse
  <2> QED
    BY <1>1, <2>1, <2>3, <2>4, RefStep DEF IInv
<1>9. CacheIsRight' /\ Loaded'
  BY <1>1 DEF IInv, CacheIsRight, Loaded
<1> QED
  BY <1>2, <1>3, <1>4, <1>5, <1>6, <1>7, <1>8, <1>9 DEF IInv

(* The pager.                                                              *)
LEMMA PageOutTextStep ==
  ASSUME IInv, NEW s \in Segs, PageOutText(s), NEW q, q = slot[s]
  PROVE  IInv'
<1>1. /\ lk[s] = None /\ q \in Pages /\ Kind[s] = "text" /\ slot' = [slot EXCEPT ![s] = None]
      /\ UNCHANGED <<pc, at, write, key, page, lk, holds, tag, chain, plock, swref, swdata, io>>
  BY q = slot[s] DEF PageOutText, MayPage, proc, cache, swap
<1>2. /\ ref' = [ref EXCEPT ![q] = @ - 1] /\ list' \in Lists /\ freecount' \in 0..Word - 1
      /\ content' \in [Pages -> Data]
      /\ \A r \in Pages : content'[r] = content[r] \/ (r = q /\ tag[r] = None)
  <2>1. PutPage(q, 1, content) /\ content \in [Pages -> Data]
    BY q = slot[s] DEF PageOutText, IInv, Types, PageTypes
  <2> QED
    BY <1>1, <2>1, PutPageStep DEF IInv
<1>3. Types'
  BY <1>1, <1>2 DEF IInv, Types, ProcTypes, SegTypes, PageTypes, PoolTypes
<1>4. Located' /\ Locked' /\ OutKind'
  BY <1>1, KeysApart DEF IInv, Types, SegTypes, Located, Locked, OutKind
<1>5. PageLocked'
  BY <1>1, KeysApart DEF IInv, Types, ProcTypes, SegTypes, PageTypes, Located, Locked, PageLocked
<1>6. Keyed'
  BY <1>1, KeysApart DEF IInv, Types, ProcTypes, SegTypes, Located, Locked, Keyed
<1>7. NotFile'
  BY <1>1, KeysApart DEF IInv, Types, SegTypes, NotFile
<1>8. Own'
  BY <1>1, <1>2, KeysApart DEF IInv, Types, ProcTypes, SegTypes, Own, Has, Keyed
<1>9. RefExact'
  <2>1. \A t \in Segs \ {s} : slot'[t] = slot[t]
    BY <1>1 DEF IInv, Types, SegTypes
  <2>2. slot'[s] = None
    BY <1>1 DEF IInv, Types, SegTypes
  <2>3. \A r \in Pages : ref'[r] = ref[r] + SegUse(s, r)' - SegUse(s, r)
                           + ProcUse(None, r)' - ProcUse(None, r) + IoOf(r)' - IoOf(r)
    BY <1>1, <1>2, <2>2, KeysApart, q = slot[s] DEF IInv, Types, PageTypes, SegUse, ProcUse, IoOf
  <2>4. \A x \in Swaps : swref'[x] = swref[x] + SegUse(s, x)' - SegUse(s, x)
    BY <1>1, <2>2, KeysApart, q = slot[s] DEF IInv, Types, PoolTypes, SegUse
  <2> QED
    BY <1>1, <2>1, <2>3, <2>4, RefStep DEF IInv
<1>10. CacheIsRight'
  BY <1>1, <1>2, KeysApart DEF IInv, CacheIsRight
<1>11. Loaded'
  <2>1. \A r \in Procs : pc[r] = "relock" => page[r] \in Pages \ {q}
    BY q = slot[s] DEF IInv, Types, ProcTypes, Own, Has, Keyed
  <2> QED
    BY <1>1, <1>2, <2>1 DEF IInv, Types, ProcTypes, Loaded
<1> QED
  BY <1>3, <1>4, <1>5, <1>6, <1>7, <1>8, <1>9, <1>10, <1>11 DEF IInv

LEMMA RecachedStep ==
  ASSUME Types, NEW q \in Pages, NEW x \in Swaps, Recached(q, x)
  PROVE  tag' = [tag EXCEPT ![q] = x] /\ chain' \in [Keys -> Seq(Pages)]
<1>1. PICK older : older = IF chain[x] = <<>> THEN <<>> ELSE Tail(chain[x])
  OBVIOUS
<1>2. x \in Keys /\ chain \in [Keys -> Seq(Pages)] /\ older \in Seq(Pages)
  BY <1>1, KeysApart DEF Types, PageTypes
<1>3. PICK c : c = [chain EXCEPT ![x] = older]
  OBVIOUS
<1>4. c \in [Keys -> Seq(Pages)]
  BY <1>2, <1>3
<1>5. PICK d : d = Off(c, q)
  OBVIOUS
<1>6. tag' = [tag EXCEPT ![q] = x] /\ chain' = On(d, q, x)
  BY <1>1, <1>3, <1>5 DEF Recached
<1> QED
  BY ONLY <1>2, <1>4, <1>5, <1>6, ChainOps, q \in Pages

LEMMA PageOutStep ==
  ASSUME IInv, NEW s \in Segs, PageOut(s), NEW q, q = slot[s]
  PROVE  IInv'
<1>1. PICK x \in Swaps : /\ MayPage(s) /\ Kind[s] \in {"data", "bss", "shared"} /\ swref[x] = 0
                         /\ swref' = [swref EXCEPT ![x] = 1] /\ Recached(q, x)
                         /\ ref' = [ref EXCEPT ![q] = @ + 1]
                         /\ slot' = [slot EXCEPT ![s] = x] /\ io' = <<q, x>>
  BY q = slot[s] DEF PageOut
<1>2. /\ q \in Pages /\ lk[s] = None /\ io = None /\ plock[q] = None
      /\ UNCHANGED <<pc, at, write, key, page, lk, holds, plock, content, list, freecount, swdata>>
  BY <1>1, q = slot[s] DEF MayPage, PageOut, proc, free
<1>3. tag' = [tag EXCEPT ![q] = x] /\ chain' \in [Keys -> Seq(Pages)]
  BY <1>1, <1>2, RecachedStep DEF IInv
<1>4. Types'
  <2>1. ProcTypes' /\ SegTypes'
    BY <1>1, <1>2 DEF IInv, Types, ProcTypes, SegTypes
  <2>2. PageTypes'
    BY <1>1, <1>2, <1>3, KeysApart DEF IInv, Types, PageTypes
  <2>3. io' \in Pages \X Swaps
    BY ONLY <1>1, <1>2, x \in Swaps
  <2>4. PoolTypes'
    BY <1>1, <1>2, <2>3 DEF IInv, Types, PoolTypes
  <2> QED
    BY <2>1, <2>2, <2>4 DEF Types
<1>5. Located' /\ Locked' /\ OutKind'
  BY <1>1, <1>2 DEF IInv, Types, SegTypes, Located, Locked, OutKind
<1>6. PageLocked'
  BY <1>1, <1>2, KeysApart DEF IInv, Types, ProcTypes, SegTypes, PageTypes, Located, Locked, PageLocked
<1>7. Keyed'
  BY <1>1, <1>2, KeysApart DEF IInv, Types, ProcTypes, SegTypes, Located, Locked, Keyed
<1>8. NotFile'
  BY <1>1, <1>2, <1>3, KeysApart DEF IInv, Types, SegTypes, PageTypes, NotFile
<1>9. Own'
  BY <1>1, <1>2, <1>3, q = slot[s], KeysApart DEF IInv, Types, ProcTypes, SegTypes, PageTypes, Own, Has, Keyed
<1>10. RefExact'
  <2>1. \A t \in Segs \ {s} : slot'[t] = slot[t]
    BY <1>1 DEF IInv, Types, SegTypes
  <2>2. slot'[s] = x /\ io' # None /\ io'[1] = q
    <3>1. slot'[s] = x
      BY <1>1 DEF IInv, Types, SegTypes
    <3>2. io' # None /\ io'[1] = q
      BY ONLY <1>1, <1>2, x \in Swaps, KeysApart
    <3> QED
      BY <3>1, <3>2
  <2>3. \A r \in Pages : ref'[r] = ref[r] + SegUse(s, r)' - SegUse(s, r)
                           + ProcUse(None, r)' - ProcUse(None, r) + IoOf(r)' - IoOf(r)
    BY <1>1, <1>2, <2>2, KeysApart, q = slot[s] DEF IInv, Types, PageTypes, SegUse, ProcUse, IoOf
  <2>4. \A y \in Swaps : swref'[y] = swref[y] + SegUse(s, y)' - SegUse(s, y)
    BY <1>1, <1>2, <2>2, KeysApart, q = slot[s] DEF IInv, Types, PoolTypes, SegUse
  <2> QED
    BY <1>2, <2>1, <2>3, <2>4, RefStep DEF IInv
<1>11. CacheIsRight'
  BY <1>1, <1>2, <1>3, KeysApart DEF IInv, Types, PageTypes, CacheIsRight
<1>12. Loaded'
  BY <1>2 DEF IInv, Loaded
<1> QED
  BY <1>4, <1>5, <1>6, <1>7, <1>8, <1>9, <1>10, <1>11, <1>12 DEF IInv

LEMMA ExecuteIOStep ==
  ASSUME IInv, ExecuteIO, NEW q, q = io[1], NEW x, x = io[2]
  PROVE  IInv'
<1>1. /\ io = <<q, x>> /\ q \in Pages /\ x \in Swaps /\ io # None /\ io' = None
      /\ swdata' = OnDevice([swdata EXCEPT ![x] = content[q]], x)
      /\ UNCHANGED <<pc, at, write, key, page, lk, slot, holds, tag, chain, plock, swref>>
  BY q = io[1], x = io[2] DEF ExecuteIO, proc, cache, IInv, Types, PoolTypes
<1>2. /\ ref' = [ref EXCEPT ![q] = @ - 2] /\ list' \in Lists /\ freecount' \in 0..Word - 1
      /\ content' \in [Pages -> Data]
      /\ \A r \in Pages : content'[r] = content[r] \/ (r = q /\ tag[r] = None)
  <2>1. PutPage(q, 2, content) /\ content \in [Pages -> Data]
    BY q = io[1] DEF ExecuteIO, IInv, Types, PageTypes
  <2> QED
    BY <1>1, <2>1, PutPageStep DEF IInv
<1>3. swdata' \in [Swaps -> Data]
  BY <1>1, DataIs DEF OnDevice, IInv, Types, PageTypes, PoolTypes
<1>4. Types'
  <2>1. ProcTypes' /\ SegTypes' /\ PoolTypes'
    BY <1>1, <1>2, <1>3 DEF IInv, Types, ProcTypes, SegTypes, PoolTypes
  <2>2. PageTypes'
    BY <1>1, <1>2 DEF IInv, Types, PageTypes
  <2> QED
    BY <2>1, <2>2 DEF Types
<1>5. Located' /\ Locked' /\ PageLocked' /\ Keyed' /\ OutKind' /\ NotFile'
  BY <1>1 DEF IInv, Located, Locked, PageLocked, Keyed, OutKind, NotFile
<1>6. Own'
  BY <1>1 DEF IInv, Own, Has
<1>7. RefExact'
  <2>1. \A r \in Pages : ref'[r] = ref[r] + SegUse(None, r)' - SegUse(None, r)
                           + ProcUse(None, r)' - ProcUse(None, r) + IoOf(r)' - IoOf(r)
    BY <1>1, <1>2, KeysApart DEF IInv, Types, PageTypes, SegUse, ProcUse, IoOf
  <2>2. \A y \in Swaps : swref'[y] = swref[y] + SegUse(None, y)' - SegUse(None, y)
    BY <1>1, KeysApart DEF IInv, Types, PoolTypes, SegUse
  <2> QED
    BY <1>1, <2>1, <2>2, RefStep DEF IInv
<1>8. CacheIsRight'
  BY <1>1, <1>2, KeysApart DEF IInv, CacheIsRight
<1>9. Loaded'
  <2>1. \A r \in Procs : pc[r] = "relock" => page[r] \in Pages \ {q}
    BY <1>1, q = io[1] DEF IInv, Types, ProcTypes, Own, Has, Keyed
  <2> QED
    BY <1>1, <1>2, <2>1 DEF IInv, Types, ProcTypes, Loaded
<1> QED
  BY <1>4, <1>5, <1>6, <1>7, <1>8, <1>9 DEF IInv
-----------------------------------------------------------------------------
(* The pages in any order are a list.                                      *)
LEMMA ListedType ==
  ASSUME NEW order \in [1..Cardinality(Pages) -> Pages],
         \A i, j \in DOMAIN order : order[i] = order[j] => i = j
  PROVE  Listed(order) \in Lists
<1>1. PICK n : n = Cardinality(Pages)
  OBVIOUS
<1>2. n \in Nat /\ n # 0 /\ IsFiniteSet(Pages)
  BY <1>1, PageAssumption, FS_CardinalityType, FS_EmptySet
<1>3. order \in Injection(1..n, Pages)
  BY <1>1 DEF Injection, IsInjective
<1>4. Cardinality(1..n) = n
  BY <1>2, FS_Interval
<1>5. order \in Surjection(1..n, Pages)
  BY ONLY <1>1, <1>2, <1>3, <1>4, FS_Injection
<1>6. \A q \in Pages : \E i \in 1..n : order[i] = q
  BY <1>5 DEF Surjection
<1> DEFINE place(q) == CHOOSE i \in 1..n : order[i] = q
<1>7. \A q \in Pages : place(q) \in 1..n
  BY <1>6
<1>8. Listed(order) = [head |-> order[1], tail |-> order[n],
                       next |-> [q \in Pages |-> IF place(q) = n THEN None ELSE order[place(q) + 1]],
                       prev |-> [q \in Pages |-> IF place(q) = 1 THEN None ELSE order[place(q) - 1]]]
  BY <1>1 DEF Listed
<1> HIDE DEF place
<1>9. order[1] \in Pages /\ order[n] \in Pages
  BY <1>1, <1>2
<1>10. ASSUME NEW q \in Pages
       PROVE  /\ place(q) # n => order[place(q) + 1] \in Pages
              /\ place(q) # 1 => order[place(q) - 1] \in Pages
  BY <1>1, <1>2, <1>7
<1> QED
  BY <1>8, <1>9, <1>10 DEF Lists

LEMMA InitHolds == Init => IInv
<1> SUFFICES ASSUME Init PROVE IInv
  OBVIOUS
<1>1. Types
  <2>1. list \in Lists
    BY ListedType DEF Init
  <2>2. freecount \in 0..Word - 1
    BY PageAssumption, FS_CardinalityType DEF Init
  <2>3. ProcTypes
    BY DEF Init, ProcTypes, Places
  <2>4. SegTypes
    BY DataIs, KeysApart DEF Init, SegTypes
  <2>5. PageTypes
    BY DataIs DEF Init, PageTypes
  <2>6. PoolTypes
    BY <2>1, <2>2, DataIs DEF Init, PoolTypes
  <2> QED
    BY <2>3, <2>4, <2>5, <2>6 DEF Types
<1>2. Located /\ Locked /\ PageLocked
  BY DEF Init, Located, Locked, PageLocked
<1>3. Keyed
  BY KeysApart DEF Init, Keyed
<1>4. OutKind /\ NotFile /\ CacheIsRight /\ Own /\ Loaded
  BY KeysApart, PageAssumption DEF Init, OutKind, NotFile, CacheIsRight, Own, Loaded, Has
<1>5. RefExact
  <2>1. ASSUME NEW v \in Pages \cup Swaps PROVE SegsOf(v) = {} /\ ProcsOf(v) = {} /\ IoOf(v) = 0
    BY KeysApart, PageAssumption DEF Init, SegsOf, ProcsOf, IoOf
  <2>2. Cardinality({}) = 0
    BY FS_EmptySet
  <2>3. ASSUME NEW q \in Pages PROVE Uses(q) = 0
    BY <2>1, <2>2 DEF Uses, SegsOf, ProcsOf, IoOf
  <2>4. ASSUME NEW x \in Swaps PROVE Cardinality({s \in Segs : slot[s] = x}) = 0
    BY <2>1, <2>2 DEF SegsOf
  <2> QED
    BY <2>3, <2>4 DEF Init, RefExact
<1> QED
  BY <1>1, <1>2, <1>3, <1>4, <1>5 DEF IInv

(* Every step keeps the invariant.                                         *)
LEMMA StutterHolds == IInv /\ UNCHANGED vars => IInv'
<1> SUFFICES ASSUME IInv, UNCHANGED vars PROVE IInv'
  OBVIOUS
<1>1. UNCHANGED <<pc, at, write, key, page, lk, slot, holds, ref, tag, chain, plock, content, list,
                  freecount, swref, swdata, io>>
  BY DEF vars, proc, cache, free, swap
<1>2. Types'
  BY <1>1 DEF IInv, Types, ProcTypes, SegTypes, PageTypes, PoolTypes
<1>3. Located' /\ Locked' /\ PageLocked' /\ Keyed' /\ OutKind' /\ NotFile' /\ CacheIsRight' /\ Loaded'
  BY <1>1 DEF IInv, Located, Locked, PageLocked, Keyed, OutKind, NotFile, CacheIsRight, Loaded
<1>4. Own'
  BY <1>1 DEF IInv, Own, Has
<1>5. RefExact'
  BY <1>1, RefSame DEF IInv, Has
<1> QED
  BY <1>2, <1>3, <1>4, <1>5 DEF IInv

LEMMA FaultStep ==
  ASSUME IInv, NEW p \in Procs, NEW s \in Segs, NEW w \in BOOLEAN, Fault(p, s, w)
  PROVE  IInv'
<1>1. /\ p \in Users[s] /\ Enter(p, s, "user") /\ at' = [at EXCEPT ![p] = s]
      /\ write' \in [Procs -> BOOLEAN]
  BY DEF Fault, IInv, Types, ProcTypes
<1>2. pc[p] = "user"
  BY <1>1 DEF Enter, Goto
<1> QED
  BY <1>1, <1>2, EnterStep

LEMMA AgainStep ==
  ASSUME IInv, NEW p \in Procs, Again(p)
  PROVE  IInv'
<1>1. /\ pc[p] = "fault" /\ Enter(p, at[p], "fault") /\ at[p] \in Segs /\ p \in Users[at[p]]
      /\ at' = [at EXCEPT ![p] = at[p]] /\ write' \in [Procs -> BOOLEAN]
  BY DEF Again, IInv, Types, ProcTypes, Located
<1> QED
  BY <1>1, EnterStep

LEMMA ResolveStep ==
  ASSUME IInv, NEW p \in Procs, Resolve(p)
  PROVE  IInv'
BY AgainStep, CheckStep, TakeStep, LetGoStep, ClaimStep, LoadStep, LoadFailsStep, RelockStep, FillStep,
   ReadStep, InSharedStep, SplitStep, ModifyStep, DupStep, DuppedStep, CopyStep DEF Resolve

LEMMA Inductive == IInv /\ [Next]_vars => IInv'
<1> SUFFICES ASSUME IInv, [Next]_vars PROVE IInv'
  OBVIOUS
<1>1. CASE \E p \in Procs : Resolve(p) \/ \E s \in Segs, w \in BOOLEAN : Fault(p, s, w)
  BY <1>1, ResolveStep, FaultStep
<1>2. CASE \E s \in Segs : FreeSeg(s) \/ PageOutText(s) \/ PageOut(s) \/ \E z \in Child[s] : Fork(s, z)
  BY <1>2, FreeSegStep, PageOutTextStep, PageOutStep, ForkStep
<1>3. CASE ExecuteIO
  BY <1>3, ExecuteIOStep
<1>4. CASE UNCHANGED vars
  BY <1>4, StutterHolds
<1> QED
  BY <1>1, <1>2, <1>3, <1>4 DEF Next

LEMMA Invariant == Spec => []IInv
BY InitHolds, Inductive, PTL DEF Spec

(* The locks of segments and pages are held by who is at the place in the  *)
(* fault that holds them, and no count leaves its range, whatever has      *)
(* become of the free list.                                                *)
THEOREM TypeCorrect == Spec => []TypeOK
<1>1. IInv => TypeOK
  <2> SUFFICES ASSUME IInv PROVE TypeOK
    OBVIOUS
  <2>1. ref \in [Pages -> 0..(Cardinality(Segs) + Cardinality(Procs) + 2)]
    <3>1. ASSUME NEW q \in Pages PROVE ref[q] \in 0..(Cardinality(Segs) + Cardinality(Procs) + 2)
      BY UsesAre DEF IInv, RefExact, IoOf
    <3> QED
      BY <3>1 DEF IInv, Types, PageTypes
  <2>2. swref \in [Swaps -> 0..Cardinality(Segs)]
    <3>1. ASSUME NEW x \in Swaps PROVE swref[x] \in 0..Cardinality(Segs)
      <4>1. swref[x] = Cardinality(SegsOf(x))
        BY DEF IInv, RefExact, SegsOf
      <4>2. Cardinality(SegsOf(x)) \in 0..Cardinality(Segs)
        BY UsesAre
      <4> QED
        BY <4>1, <4>2
    <3> QED
      BY <3>1 DEF IInv, Types, PoolTypes
  <2> QED
    BY <2>1, <2>2 DEF IInv, TypeOK, Types, ProcTypes, SegTypes, PageTypes, PoolTypes, Places, Lists,
                      Locked, PageLocked
<1> QED
  BY <1>1, Invariant, PTL

(* A page is in use as long as a segment, a fault or the pager has it, and *)
(* a place on the device as long as a segment (page.c:115, swap.c:58):     *)
(* none is given away under anyone and none is lost.                       *)
THEOREM UsesCounted == Spec => []RefExact
<1>1. IInv => RefExact
  BY DEF IInv
<1> QED
  BY <1>1, Invariant, PTL

(* What the cache finds for a block of a file is what the file has there,  *)
(* though pages are written in place, stolen from the list, paged out and  *)
(* copied by duppage meanwhile (page.c:207-259, 296, 335).                 *)
THEOREM CacheRight == Spec => []CacheIsRight
<1>1. IInv => CacheIsRight
  BY DEF IInv
<1> QED
  BY <1>1, Invariant, PTL
-----------------------------------------------------------------------------
(* What memory holds.  Two things in the code would have to be otherwise   *)
(* for it to be right always.  A segment that was shared (SHDATA) is       *)
(* written in place though other segments of the same program may have     *)
(* the page too (fault.c:79-88); and the pager takes pages of segments in  *)
(* which several processes fault at once, or that have been forked, whose  *)
(* places two processes may then both read in (fault.c:257, page.c:317).   *)
SharedApart == \A s, z \in Segs : Kind[s] = "shdata" /\ z # s => Block[z] # Block[s]
PagedApart  == Swaps # {} =>
    \A s \in Segs : /\ Child[s] = {}
                    /\ Kind[s] \in {"data", "bss", "shared"} => \A p, r \in Users[s] : p = r

(* What is found under a place on the device: a page at most.              *)
Found(c, x)  == IF c[x] = <<>> THEN None ELSE Head(c[x])
Short(c)     == \A x \in Swaps : Len(c[x]) <= 1
FoundIs      == Short(chain) /\ \A x \in Swaps : Found(chain, x) # None => tag[Found(chain, x)] = x
Going        == io # None => Found(chain, io[2]) = io[1]

(* What a segment holds is in its page, or where a fault will find it.     *)
InPage  == \A s \in Segs : /\ slot[s] = None => holds[s] = Fresh(Block[s])
                           /\ slot[s] \in Pages => content[slot[s]] = holds[s]
Away(s) == LET x == slot[s] IN
    /\ Found(chain, x) # None => content[Found(chain, x)] = holds[s]
    /\ io = None \/ io[2] # x => swdata[x] = holds[s]
OnSwap  == \A s \in Segs : slot[s] \in Swaps => Away(s)
Text    == \A s \in Segs : Kind[s] = "text" => holds[s] = Fresh(Block[s])
NotText == \A p \in Procs : pc[p] \in {"take", "claim", "copy", "dup"} /\ key[p] = None =>
                                Kind[at[p]] # "text"

(* Who is alone with a place, or with a page that is written in place.     *)
Alone(s)    == \A z \in Segs : z # s => slot[z] # slot[s]
PlaceAlone  == \A s \in Segs : slot[s] \in Swaps => Alone(s)
SharedAlone == \A s \in Segs : Kind[s] \in {"shared", "shdata"} /\ slot[s] \in Pages => Alone(s)
SharedPlace == \A s \in Segs, x \in Swaps : Kind[s] = "shared" /\ Found(chain, x) # None =>
    /\ slot[s] = Found(chain, x) => \A z \in Segs : slot[z] # x
    /\ slot[s] = x => \A z \in Segs : slot[z] # Found(chain, x)
DupAlone    == \A p \in Procs : pc[p] = "dup" => Alone(at[p]) /\ tag[slot[at[p]]] \in Blocks

(* A segment has the pages of its own block only; one that was shared has  *)
(* never been paged out.                                                   *)
SlotTag == \A s \in Segs : slot[s] \in Pages =>
    /\ tag[slot[s]] \in Blocks => tag[slot[s]] = Block[s]
    /\ Kind[s] = "shdata" => tag[slot[s]] \notin Swaps

(* What a process has found or is reading is what its segment holds.       *)
Seeking == \A p \in Procs : LET s == at[p]  k == key[p] IN
    /\ k \in Blocks => k = Block[s]
    /\ pc[p] = "check" /\ k \in Swaps => Found(chain, k) = IF tag[page[p]] = k THEN page[p] ELSE None
    /\ pc[p] # "check" /\ k \in Swaps => slot[s] = k /\ Found(chain, k) = None
    /\ pc[p] = "relock" /\ k \in Swaps => content[page[p]] = holds[s]

DInv == FoundIs /\ Going /\ InPage /\ OnSwap /\ Text /\ NotText /\ PlaceAlone /\ SharedAlone /\ SharedPlace
        /\ DupAlone /\ SlotTag /\ Seeking

LEMMA WithoutShort ==
  ASSUME NEW s \in Seq(Pages), Len(s) <= 1, NEW q \in Pages
  PROVE  Without(s, q) = IF s # <<>> /\ Head(s) = q THEN <<>> ELSE s
<1>1. CASE s = <<>>
  <2>1. ~\E j \in 1..Len(s) : s[j] = q
    BY <1>1
  <2> QED
    BY <1>1, <2>1 DEF Without
<1>2. CASE s # <<>>
  <2>1. Len(s) = 1 /\ Head(s) = s[1]
    BY <1>2, EmptySeq
  <2>2. (\E j \in 1..Len(s) : s[j] = q) <=> Head(s) = q
    BY <2>1
  <2>3. CASE Head(s) = q
    <3>1. PICK i : i = CHOOSE j \in 1..Len(s) : s[j] = q
      OBVIOUS
    <3>2. Without(s, q) = [j \in 1..0 |-> IF j < i THEN s[j] ELSE s[j + 1]]
      BY <2>1, <2>2, <2>3, <3>1 DEF Without
    <3>3. 1..0 = {}
      OBVIOUS
    <3> QED
      BY <1>2, <2>3, <3>2, <3>3
  <2>4. CASE Head(s) # q
    BY <1>2, <2>2, <2>4 DEF Without
  <2> QED
    BY <2>3, <2>4
<1> QED
  BY <1>1, <1>2

LEMMA FoundType ==
  ASSUME NEW c \in [Keys -> Seq(Pages)], NEW x \in Swaps
  PROVE  Found(c, x) \in Pages \cup {None} /\ (Found(c, x) = None <=> c[x] = <<>>)
<1>1. c[x] \in Seq(Pages)
  BY KeysApart
<1>2. c[x] # <<>> => Head(c[x]) \in Pages
  BY <1>1
<1> QED
  BY <1>2, KeysApart DEF Found

LEMMA FoundOff ==
  ASSUME NEW c \in [Keys -> Seq(Pages)], Short(c), NEW q \in Pages
  PROVE  /\ Short(Off(c, q))
         /\ \A x \in Swaps : Found(Off(c, q), x) = IF Found(c, x) = q THEN None ELSE Found(c, x)
<1> SUFFICES ASSUME NEW x \in Swaps
             PROVE  /\ Len(Off(c, q)[x]) <= 1
                    /\ Found(Off(c, q), x) = IF Found(c, x) = q THEN None ELSE Found(c, x)
  BY DEF Short
<1>1. PICK s : s = c[x]
  OBVIOUS
<1>2. s \in Seq(Pages) /\ Len(s) <= 1 /\ Off(c, q)[x] = Without(s, q)
  BY <1>1, KeysApart DEF Short, Off
<1>3. Off(c, q)[x] = IF s # <<>> /\ Head(s) = q THEN <<>> ELSE s
  BY ONLY <1>2, WithoutShort, q \in Pages
<1>4. Len(<<>>) = 0
  OBVIOUS
<1>5. q # None
  BY KeysApart
<1>6. Len(Off(c, q)[x]) <= 1
  BY ONLY <1>2, <1>3, <1>4
<1>7. Found(Off(c, q), x) = IF Found(c, x) = q THEN None ELSE Found(c, x)
  BY ONLY <1>1, <1>3, <1>5 DEF Found
<1> QED
  BY <1>6, <1>7

LEMMA FoundOn ==
  ASSUME NEW c \in [Keys -> Seq(Pages)], Short(c), NEW q \in Pages, NEW k \in Keys,
         k \in Swaps => Found(c, k) = None
  PROVE  /\ Short(On(c, q, k))
         /\ \A x \in Swaps : Found(On(c, q, k), x) = IF x = k THEN q ELSE Found(c, x)
<1>1. ASSUME NEW x \in Swaps, x # k PROVE On(c, q, k)[x] = c[x]
  BY <1>1, KeysApart DEF On
<1>2. k \in Swaps => c[k] = <<>>
  BY FoundType
<1>3. k \in Swaps => On(c, q, k)[k] = <<q>>
  <2>1. <<q>> \o <<>> = <<q>>
    OBVIOUS
  <2> QED
    BY <1>2, <2>1 DEF On
<1>4. <<q>> # <<>> /\ Head(<<q>>) = q /\ Len(<<q>>) = 1
  OBVIOUS
<1>5. ASSUME NEW x \in Swaps PROVE Len(On(c, q, k)[x]) <= 1
  <2>1. CASE x = k
    <3>1. On(c, q, k)[x] = <<q>>
      BY <1>3, <2>1
    <3> QED
      BY ONLY <3>1, <1>4
  <2>2. CASE x # k
    BY <1>1, <2>2 DEF Short
  <2> QED
    BY <2>1, <2>2
<1>6. ASSUME NEW x \in Swaps PROVE Found(On(c, q, k), x) = IF x = k THEN q ELSE Found(c, x)
  BY <1>1, <1>3, <1>4 DEF Found
<1> QED
  BY <1>5, <1>6 DEF Short

LEMMA FoundRecached ==
  ASSUME Types, Short(chain), NEW q \in Pages, NEW x \in Swaps, Recached(q, x)
  PROVE  /\ Short(chain')
         /\ \A y \in Swaps : Found(chain', y) = IF y = x THEN q
                                                ELSE IF Found(chain, y) = q THEN None ELSE Found(chain, y)
<1>1. PICK older : older = IF chain[x] = <<>> THEN <<>> ELSE Tail(chain[x])
  OBVIOUS
<1>2. x \in Keys /\ chain \in [Keys -> Seq(Pages)] /\ chain[x] \in Seq(Pages) /\ Len(chain[x]) <= 1
  BY KeysApart DEF Types, PageTypes, Short
<1>3. older = <<>>
  <2>1. CASE chain[x] # <<>>
    <3>1. Len(chain[x]) = 1
      <4>1. PICK m : m = Len(chain[x])
        OBVIOUS
      <4>2. m \in Nat \ {0}
        BY ONLY <1>2, <2>1, <4>1, EmptySeq
      <4>3. m <= 1
        BY ONLY <1>2, <4>1
      <4>4. m = 1
        BY ONLY <4>2, <4>3
      <4> QED
        BY ONLY <4>1, <4>4, Zenon
    <3>2. Tail(chain[x]) \in Seq(Pages) /\ Len(Tail(chain[x])) = 0
      BY ONLY <1>2, <2>1, <3>1, HeadTailProperties
    <3>3. Tail(chain[x]) = <<>>
      BY ONLY <3>2, EmptySeq
    <3> QED
      BY <1>1, <2>1, <3>3
  <2> QED
    BY <1>1, <2>1
<1>4. PICK c : c = [chain EXCEPT ![x] = older]
  OBVIOUS
<1>5. c \in [Keys -> Seq(Pages)]
  BY <1>2, <1>3, <1>4
<1>6. Short(c) /\ \A y \in Swaps : Found(c, y) = IF y = x THEN None ELSE Found(chain, y)
  <2>1. Len(<<>>) = 0
    OBVIOUS
  <2>2. \A y \in Swaps : c[y] = IF y = x THEN <<>> ELSE chain[y]
    BY <1>2, <1>3, <1>4, KeysApart
  <2> QED
    BY <2>1, <2>2 DEF Short, Found
<1>7. PICK d : d = Off(c, q)
  OBVIOUS
<1>8. chain' = On(d, q, x)
  BY <1>1, <1>4, <1>7 DEF Recached
<1>9. d \in [Keys -> Seq(Pages)] /\ Short(d)
      /\ \A y \in Swaps : Found(d, y) = IF Found(c, y) = q THEN None ELSE Found(c, y)
  BY ONLY <1>5, <1>6, <1>7, q \in Pages, ChainOps, FoundOff
<1>10. q # None
  BY KeysApart
<1>11. Found(d, x) = None
  BY <1>6, <1>9, <1>10
<1>12. /\ Short(On(d, q, x))
       /\ \A y \in Swaps : Found(On(d, q, x), y) = IF y = x THEN q ELSE Found(d, y)
  <2>1. d \in [Keys -> Seq(Pages)] /\ Short(d) /\ x \in Keys /\ (x \in Swaps => Found(d, x) = None)
    BY <1>2, <1>9, <1>11
  <2> QED
    BY ONLY <2>1, q \in Pages, FoundOn, SMTT(60)
<1> QED
  BY <1>6, <1>8, <1>9, <1>12

(* What a page or a place without uses may turn into nobody sees.          *)
LEMMA UnusedNext ==
  ASSUME RefExact'
  PROVE  /\ \A q \in Pages : ref'[q] = 0 => \A s \in Segs : slot'[s] # q
         /\ \A x \in Swaps : swref'[x] = 0 => \A s \in Segs : slot'[s] # x
<1>1. ASSUME NEW v PROVE /\ SegsOf(v)' \in SUBSET Segs /\ ProcsOf(v)' \in SUBSET Procs
                         /\ IsFiniteSet(SegsOf(v)') /\ IsFiniteSet(ProcsOf(v)')
  <2>1. SegsOf(v)' \in SUBSET Segs /\ ProcsOf(v)' \in SUBSET Procs
    BY DEF SegsOf, ProcsOf
  <2> QED
    BY <2>1, PageAssumption, FS_Subset
<1>2. ASSUME NEW v, Cardinality(SegsOf(v)') = 0 PROVE \A s \in Segs : slot'[s] # v
  <2>1. SegsOf(v)' = {}
    BY <1>1, <1>2, FS_EmptySet
  <2> QED
    BY <2>1 DEF SegsOf
<1>3. ASSUME NEW q \in Pages, ref'[q] = 0 PROVE Cardinality(SegsOf(q)') = 0
  <2>1. Cardinality(SegsOf(q)') \in Nat /\ Cardinality(ProcsOf(q)') \in Nat /\ IoOf(q)' \in Nat
    BY <1>1, FS_CardinalityType DEF IoOf
  <2>2. Cardinality(SegsOf(q)') + Cardinality(ProcsOf(q)') + IoOf(q)' = 0
    BY <1>3 DEF RefExact, Uses, SegsOf, ProcsOf, IoOf
  <2> QED
    BY ONLY <2>1, <2>2
<1>4. ASSUME NEW x \in Swaps, swref'[x] = 0 PROVE Cardinality(SegsOf(x)') = 0
  BY <1>4 DEF RefExact, SegsOf
<1> QED
  BY <1>2, <1>3, <1>4

LEMMA PutPageKeeps ==
  ASSUME RefExact', NEW q \in Pages, NEW n \in Nat, NEW c \in [Pages -> Data], ref \in [Pages -> Int],
         PutPage(q, n, c)
  PROVE  \A r \in Pages : content'[r] = c[r] \/ (r = q /\ tag[r] = None /\ \A s \in Segs : slot'[s] # r)
<1>1. content' = c \/ (tag[q] = None /\ content' = [c EXCEPT ![q] = Junk] /\ ref'[q] = 0)
  BY DEF PutPage
<1> QED
  BY <1>1, UnusedNext

LEMMA PutSwapKeeps ==
  ASSUME RefExact', NEW x \in Swaps, swdata \in [Swaps -> Data], PutSwap(x)
  PROVE  \A y \in Swaps : swdata'[y] = swdata[y] \/ \A s \in Segs : slot'[s] # y
BY UnusedNext DEF PutSwap, OnDevice

(* A page with one use has one segment.                                    *)
LEMMA OnlyUse ==
  ASSUME RefExact, NEW s \in Segs, slot[s] \in Pages, ~Shared(slot[s]), ref \in [Pages -> Int]
  PROVE  Alone(s) /\ (io # None => io[1] # slot[s])
<1>1. PICK q : q = slot[s]
  OBVIOUS
<1>2. /\ IsFiniteSet(SegsOf(q)) /\ Cardinality(SegsOf(q)) \in Nat /\ Cardinality(ProcsOf(q)) \in Nat
      /\ Cardinality(SegsOf(q)) + Cardinality(ProcsOf(q)) + IoOf(q) <= 1
  <2>1. ref[q] <= 1 /\ ref[q] = Uses(q)
    BY <1>1 DEF Shared, RefExact
  <2>2. /\ IsFiniteSet(SegsOf(q)) /\ Cardinality(SegsOf(q)) \in Nat /\ Cardinality(ProcsOf(q)) \in Nat
        /\ Uses(q) = Cardinality(SegsOf(q)) + Cardinality(ProcsOf(q)) + IoOf(q)
    BY UsesAre
  <2> QED
    BY ONLY <2>1, <2>2
<1>3. IoOf(q) = 0 /\ Cardinality(SegsOf(q)) <= 1
  BY ONLY <1>2 DEF IoOf
<1>4. ASSUME NEW z \in Segs, z # s, slot[z] = q PROVE FALSE
  <2>1. {s, z} \in SUBSET SegsOf(q)
    BY <1>1, <1>4 DEF SegsOf
  <2>2. Cardinality({s}) = 1 /\ IsFiniteSet({s}) /\ {s, z} = {s} \cup {z} /\ z \notin {s}
    BY <1>4, FS_Singleton
  <2>3. Cardinality({s, z}) = 2
    BY ONLY <2>2, FS_AddElement
  <2>4. Cardinality({s, z}) <= Cardinality(SegsOf(q))
    BY ONLY <1>2, <2>1, FS_Subset
  <2> QED
    BY ONLY <1>2, <1>3, <2>3, <2>4
<1> QED
  BY <1>1, <1>3, <1>4 DEF Alone, IoOf
-----------------------------------------------------------------------------
LEMMA FoundOther ==
  ASSUME DInv, IInv
  PROVE  \A x \in Swaps : /\ Found(chain, x) \in Pages \cup {None}
                          /\ \A q \in Pages : tag[q] # x => Found(chain, x) # q
<1>1. chain \in [Keys -> Seq(Pages)]
  BY DEF IInv, Types, PageTypes
<1>2. \A x \in Swaps : Found(chain, x) \in Pages \cup {None}
  BY <1>1, FoundType
<1>3. None \notin Pages
  BY KeysApart
<1> QED
  BY <1>2, <1>3 DEF DInv, FoundIs

(* Memory is as it was.                                                    *)
LEMMA MemorySame ==
  ASSUME DInv, UNCHANGED <<slot, holds, content, tag, chain, swdata, io>>
  PROVE  FoundIs' /\ Going' /\ InPage' /\ OnSwap' /\ Text' /\ PlaceAlone' /\ SharedAlone' /\ SharedPlace'
         /\ SlotTag'
BY DEF DInv, FoundIs, Going, InPage, OnSwap, Away, Text, PlaceAlone, Alone, SharedAlone, SharedPlace, SlotTag

(* It is, and process p does not come to the places the rest is about.     *)
LEMMA QuietStep ==
  ASSUME DInv, IInv, UNCHANGED <<slot, holds, content, tag, chain, swdata, io, key>>,
         NEW p \in Procs, \A r \in Procs \ {p} : pc'[r] = pc[r] /\ page'[r] = page[r], at' = at,
         pc'[p] \notin {"check", "dup", "relock"}, pc[p] # "check",
         pc'[p] \in {"take", "claim", "copy"} /\ key[p] = None => Kind[at[p]] # "text"
  PROVE  DInv'
<1>1. NotText'
  BY DEF DInv, NotText
<1>2. DupAlone'
  BY DEF DInv, DupAlone, Alone
<1>3. Seeking'
  BY DEF DInv, Seeking
<1> QED
  BY <1>1, <1>2, <1>3, MemorySame DEF DInv

LEMMA EnterKeeps ==
  ASSUME DInv, IInv, NEW p \in Procs, NEW s \in Segs, NEW from \in {"user", "fault"},
         Enter(p, s, from), at' = [at EXCEPT ![p] = s]
  PROVE  DInv'
<1>1. /\ pc[p] = from /\ key[p] = None
      /\ UNCHANGED <<slot, holds, content, tag, chain, swdata, io>>
  BY DEF Enter, IInv, Keyed, cache, swap, Goto
<1>2. /\ pc' = [pc EXCEPT ![p] = pc'[p]] /\ key' = [key EXCEPT ![p] = key'[p]]
      /\ page' = [page EXCEPT ![p] = page'[p]] /\ at' = [at EXCEPT ![p] = s]
      /\ pc'[p] \in {"map", "take", "check"}
      /\ key'[p] = None => pc'[p] = "map" \/ (pc'[p] = "take" /\ Zeroed(s))
      /\ key'[p] # None => /\ slot[s] \notin Pages
                           /\ key'[p] = IF slot[s] = None THEN Block[s] ELSE slot[s]
                           /\ pc'[p] = "take" => chain[key'[p]] = <<>>
                           /\ pc'[p] = "check" => chain[key'[p]] # <<>> /\ page'[p] = Head(chain[key'[p]])
                           /\ pc'[p] # "map"
  <2>1. pc \in [Procs -> Places] /\ key \in [Procs -> Keys \cup {None}] /\ page \in [Procs -> Pages \cup {None}]
    BY DEF IInv, Types, ProcTypes
  <2>2. PICK k : k = IF slot[s] = None THEN Block[s] ELSE slot[s]
    OBVIOUS
  <2>3. k # None
    BY <2>2, KeysApart DEF IInv, Types, SegTypes
  <2>4. CASE UNCHANGED <<key, page>> /\ pc' = [pc EXCEPT ![p] = "map"]
    BY <1>1, <2>1, <2>4
  <2>5. CASE UNCHANGED <<key, page>> /\ pc' = [pc EXCEPT ![p] = "take"] /\ Zeroed(s)
    BY <1>1, <2>1, <2>5
  <2>6. CASE /\ slot[s] \notin Pages /\ key' = [key EXCEPT ![p] = k] /\ chain[k] # <<>>
             /\ page' = [page EXCEPT ![p] = Head(chain[k])] /\ pc' = [pc EXCEPT ![p] = "check"]
    BY <2>1, <2>2, <2>3, <2>6
  <2>7. CASE /\ slot[s] \notin Pages /\ key' = [key EXCEPT ![p] = k] /\ chain[k] = <<>>
             /\ page' = page /\ pc' = [pc EXCEPT ![p] = "take"]
    BY <2>1, <2>2, <2>3, <2>7
  <2> QED
    BY <2>2, <2>4, <2>5, <2>6, <2>7 DEF Enter, Goto
<1>3. \A r \in Procs \ {p} : pc'[r] = pc[r] /\ key'[r] = key[r] /\ page'[r] = page[r] /\ at'[r] = at[r]
  BY <1>2 DEF IInv, Types, ProcTypes
<1>4. at'[p] = s
  BY <1>2 DEF IInv, Types, ProcTypes
<1>5. NotText'
  <2>1. Zeroed(s) => Kind[s] # "text"
    BY DEF Zeroed
  <2> QED
    BY <1>2, <1>3, <1>4, <2>1 DEF DInv, NotText
<1>6. DupAlone'
  BY <1>1, <1>2, <1>3 DEF DInv, DupAlone, Alone
<1>7. Seeking'
  <2>1. \A k \in Swaps : Found(chain, k) = IF chain[k] = <<>> THEN None ELSE Head(chain[k])
    BY DEF Found
  <2> QED
    BY <1>1, <1>2, <1>3, <1>4, <2>1, KeysApart DEF DInv, FoundIs, Seeking, IInv, Types, SegTypes
<1> QED
  BY <1>1, <1>5, <1>6, <1>7, MemorySame DEF DInv

LEMMA ReadKeeps ==
  ASSUME DInv, IInv, NEW p \in Procs, Read(p)
  PROVE  DInv'
<1>1. /\ pc' = [pc EXCEPT ![p] = "user"] /\ key' = [key EXCEPT ![p] = None]
      /\ page' = [page EXCEPT ![p] = None] /\ at' = [at EXCEPT ![p] = None]
      /\ UNCHANGED <<slot, holds, content, tag, chain, swdata, io>>
  BY DEF Read, Goto, Rest, cache, swap
<1>2. NotText' /\ DupAlone' /\ Seeking'
  BY <1>1, KeysApart DEF DInv, NotText, DupAlone, Alone, Seeking, IInv, Types, ProcTypes
<1> QED
  BY <1>1, <1>2, MemorySame DEF DInv

LEMMA ClaimKeeps ==
  ASSUME DInv, IInv, NEW p \in Procs, Claim(p), ~Stolen(page[p]), NEW q, q = page[p]
  PROVE  DInv'
<1>1. /\ q \in Pages /\ pc[p] = "claim" /\ pc' = [pc EXCEPT ![p] = pc'[p]] /\ pc'[p] \in {"copy", "load"}
      /\ tag' = [tag EXCEPT ![q] = None] /\ chain' = Off(chain, q) /\ content' = [content EXCEPT ![q] = Junk]
      /\ UNCHANGED <<at, key, page, slot, holds, swdata, io>>
  BY q = page[p] DEF Claim, Goto, Uncached, swap, IInv, Types, ProcTypes, Keyed
<1>2. /\ \A t \in Segs : slot[t] # q
      /\ \A r \in Procs : Has(r) => page[r] # q
      /\ io # None => io[1] # q
  <2>1. ref[q] = 0 /\ ref[q] = Uses(q)
    BY <1>1, q = page[p] DEF Stolen, IInv, RefExact
  <2> QED
    BY <2>1, Unused
<1>3. /\ Short(chain')
      /\ \A x \in Swaps : Found(chain', x) = IF Found(chain, x) = q THEN None ELSE Found(chain, x)
  <2>1. chain \in [Keys -> Seq(Pages)] /\ Short(chain)
    BY DEF DInv, FoundIs, IInv, Types, PageTypes
  <2>2. q \in Pages /\ chain' = Off(chain, q)
    BY <1>1
  <2> QED
    BY ONLY <2>1, <2>2, FoundOff, SMTT(60)
<1>4. \A r \in Pages \ {q} : tag'[r] = tag[r] /\ content'[r] = content[r]
  BY <1>1 DEF IInv, Types, PageTypes
<1>5. tag'[q] = None
  BY <1>1 DEF IInv, Types, PageTypes
<1>6. \A x \in Swaps : Found(chain, x) \in Pages \cup {None}
  BY FoundType DEF IInv, Types, PageTypes
<1>7. FoundIs'
  BY <1>3, <1>4, <1>6 DEF DInv, FoundIs
<1>8. Going'
  BY <1>1, <1>2, <1>3 DEF DInv, Going, IInv, Types, PoolTypes
<1>9. InPage' /\ Text' /\ PlaceAlone' /\ SharedAlone'
  BY <1>1, <1>2, <1>4 DEF DInv, InPage, Text, PlaceAlone, SharedAlone, Alone
<1>10. OnSwap'
  BY <1>1, <1>3, <1>4, <1>6 DEF DInv, OnSwap, Away
<1>11. SharedPlace'
  BY <1>1, <1>3 DEF DInv, SharedPlace
<1>12. SlotTag'
  BY <1>1, <1>2, <1>4 DEF DInv, SlotTag
<1>13. NotText'
  BY <1>1 DEF DInv, NotText, IInv, Types, ProcTypes
<1>14. DupAlone'
  BY <1>1, <1>2, <1>4 DEF DInv, DupAlone, Alone, IInv, Types, ProcTypes, PageLocked, Located
<1>15. Seeking'
  BY <1>1, <1>2, <1>3, <1>4, <1>5, KeysApart DEF DInv, Seeking, IInv, Types, ProcTypes, Keyed, Has
<1> QED
  BY <1>7, <1>8, <1>9, <1>10, <1>11, <1>12, <1>13, <1>14, <1>15 DEF DInv

LEMMA LoadKeeps ==
  ASSUME DInv, IInv, NEW p \in Procs, Load(p), NEW s, s = at[p], NEW q, q = page[p], NEW k, k = key[p]
  PROVE  DInv'
<1>1. /\ s \in Segs /\ q \in Pages /\ k \in Keys /\ pc[p] = "load" /\ pc' = [pc EXCEPT ![p] = "relock"]
      /\ content' = [content EXCEPT ![q] = IF k \in Swaps THEN swdata[k] ELSE Fresh(k)]
      /\ UNCHANGED <<at, key, page, slot, holds, tag, chain, swdata, io>>
  BY s = at[p], q = page[p], k = key[p]
  DEF Load, Goto, proc, cache, swap, IInv, Types, ProcTypes, Located, Keyed
<1>2. /\ tag[q] = None /\ \A t \in Segs : slot[t] # q
      /\ \A r \in Procs : r # p /\ Has(r) => page[r] # q
  BY <1>1, q = page[p] DEF IInv, Own, Has
<1>3. \A r \in Pages \ {q} : content'[r] = content[r]
  BY <1>1 DEF IInv, Types, PageTypes
<1>4. \A x \in Swaps : Found(chain, x) # q /\ Found(chain, x) \in Pages \cup {None}
  BY <1>1, <1>2, FoundOther, KeysApart
<1>5. k \in Swaps => content'[q] = holds[s]
  <2>1. k \in Swaps => slot[s] = k /\ Found(chain, k) = None
    BY <1>1, s = at[p], k = key[p] DEF DInv, Seeking
  <2>2. k \in Swaps => io = None \/ io[2] # k
    BY <2>1, KeysApart DEF DInv, Going, IInv, Types, PoolTypes
  <2>3. k \in Swaps => swdata[k] = holds[s]
    BY <1>1, <2>1, <2>2 DEF DInv, OnSwap, Away
  <2> QED
    BY <1>1, <2>3 DEF IInv, Types, PageTypes
<1>6. FoundIs' /\ Going' /\ Text' /\ PlaceAlone' /\ SharedAlone' /\ SharedPlace' /\ SlotTag'
  BY <1>1 DEF DInv, FoundIs, Going, Text, PlaceAlone, Alone, SharedAlone, SharedPlace, SlotTag
<1>7. InPage'
  BY <1>1, <1>2, <1>3 DEF DInv, InPage
<1>8. OnSwap'
  BY <1>1, <1>3, <1>4 DEF DInv, OnSwap, Away
<1>9. NotText' /\ DupAlone'
  BY <1>1 DEF DInv, NotText, DupAlone, Alone, IInv, Types, ProcTypes
<1>10. Seeking'
  BY <1>1, <1>2, <1>3, <1>5, s = at[p], q = page[p], k = key[p], KeysApart
  DEF DInv, Seeking, IInv, Types, ProcTypes, Keyed, Has
<1> QED
  BY <1>6, <1>7, <1>8, <1>9, <1>10 DEF DInv

LEMMA LoadFailsKeeps ==
  ASSUME DInv, IInv, RefExact', NEW p \in Procs, LoadFails(p), NEW q, q = page[p]
  PROVE  DInv'
<1>1. /\ q \in Pages /\ pc[p] = "load" /\ pc' = [pc EXCEPT ![p] = "user"]
      /\ page' = [page EXCEPT ![p] = None] /\ key' = [key EXCEPT ![p] = None]
      /\ at' = [at EXCEPT ![p] = None]
      /\ UNCHANGED <<slot, holds, tag, chain, swdata, io>>
  BY q = page[p] DEF LoadFails, Goto, Rest, cache, swap, IInv, Types, ProcTypes, Keyed
<1>2. /\ tag[q] = None /\ \A t \in Segs : slot[t] # q
      /\ \A r \in Procs : r # p /\ Has(r) => page[r] # q
  BY <1>1, q = page[p] DEF IInv, Own, Has
<1>3. \A r \in Pages \ {q} : content'[r] = content[r]
  <2>1. PutPage(q, 1, content) /\ content \in [Pages -> Data] /\ ref \in [Pages -> Int]
    BY q = page[p] DEF LoadFails, IInv, Types, PageTypes
  <2> QED
    BY ONLY <1>1, <2>1, RefExact', PutPageKeeps
<1>4. \A x \in Swaps : Found(chain, x) # q /\ Found(chain, x) \in Pages \cup {None}
  BY <1>1, <1>2, FoundOther, KeysApart
<1>5. FoundIs' /\ Going' /\ Text' /\ PlaceAlone' /\ SharedAlone' /\ SharedPlace' /\ SlotTag'
  BY <1>1 DEF DInv, FoundIs, Going, Text, PlaceAlone, Alone, SharedAlone, SharedPlace, SlotTag
<1>6. InPage'
  BY <1>1, <1>2, <1>3 DEF DInv, InPage
<1>7. OnSwap'
  BY <1>1, <1>3, <1>4 DEF DInv, OnSwap, Away
<1>8. NotText' /\ DupAlone'
  BY <1>1 DEF DInv, NotText, DupAlone, Alone, IInv, Types, ProcTypes
<1>9. Seeking'
  BY <1>1, <1>2, <1>3, KeysApart DEF DInv, Seeking, IInv, Types, ProcTypes, Keyed, Has
<1> QED
  BY <1>5, <1>6, <1>7, <1>8, <1>9 DEF DInv

(* Two processes that seek a place on the device are one.                  *)
LEMMA SeeksAlone ==
  ASSUME DInv, IInv, PagedApart, NEW p \in Procs, key[p] \in Swaps, NEW r \in Procs, key[r] \in Swaps,
         at[r] = at[p]
  PROVE  r = p
<1>1. at[p] \in Segs /\ p \in Users[at[p]] /\ r \in Users[at[p]] /\ Kind[at[p]] \in {"data", "bss", "shared"}
  BY KeysApart DEF IInv, Located, Keyed
<1> QED
  BY <1>1 DEF PagedApart

LEMMA CheckMissKeeps ==
  ASSUME DInv, IInv, NEW p \in Procs, Check(p), ~IsCopy(page[p], key[p])
  PROVE  DInv'
<1>1. /\ pc[p] = "check" /\ tag[page[p]] # key[p] /\ key[p] # None
      /\ pc' = [pc EXCEPT ![p] = "take"] /\ page' = [page EXCEPT ![p] = None]
      /\ UNCHANGED <<at, key, slot, holds, content, tag, chain, swdata, io>>
  BY DEF Check, Goto, Drop, cache, swap, IsCopy, IInv, Keyed
<1>2. NotText' /\ DupAlone'
  BY <1>1 DEF DInv, NotText, DupAlone, Alone, IInv, Types, ProcTypes
<1>3. Seeking'
  BY <1>1 DEF DInv, Seeking, IInv, Types, ProcTypes, Keyed
<1> QED
  BY <1>1, <1>2, <1>3, MemorySame DEF DInv

LEMMA CheckKeeps ==
  ASSUME DInv, IInv, RefExact', SharedApart, PagedApart, NEW p \in Procs, Check(p), NEW s, s = at[p],
         NEW q, q = page[p], NEW k, k = key[p], IsCopy(q, k)
  PROVE  DInv'
<1>1. /\ s \in Segs /\ q \in Pages /\ k \in Keys /\ k # None /\ pc[p] = "check" /\ lk[s] = p /\ plock[q] = None
      /\ p \in Users[s]
      /\ slot[s] = (IF k \in Swaps THEN k ELSE None)
      /\ k \in Blocks => Kind[s] \notin {"bss", "shared"} /\ k = Block[s]
      /\ k \in Swaps => Kind[s] \in {"data", "bss", "shared"} /\ Found(chain, k) = q
  BY s = at[p], q = page[p], k = key[p], KeysApart
  DEF Check, IsCopy, IInv, Types, ProcTypes, Located, Locked, Keyed, DInv, Seeking
<1>2. /\ tag[q] = k /\ pc' = [pc EXCEPT ![p] = "map"]
      /\ page' = [page EXCEPT ![p] = None] /\ key' = [key EXCEPT ![p] = None]
      /\ slot' = [slot EXCEPT ![s] = q]
      /\ UNCHANGED <<at, holds, content, tag, chain, io>>
      /\ IF k \in Swaps THEN PutSwap(k) ELSE swdata' = swdata
  BY s = at[p], q = page[p], k = key[p] DEF Check, IsCopy, Goto, Drop, cache, PutSwap, swap
<1>3. slot'[s] = q /\ \A t \in Segs \ {s} : slot'[t] = slot[t]
  BY <1>1, <1>2 DEF IInv, Types, SegTypes
<1>4. \A t \in Segs : slot'[t] \in Swaps => swdata'[slot'[t]] = swdata[slot'[t]]
  BY <1>2, PutSwapKeeps DEF IInv, Types, PoolTypes
<1>5. content[q] = holds[s]
  BY <1>1, <1>2, KeysApart DEF DInv, InPage, OnSwap, Away, IInv, CacheIsRight
<1>6. \A x \in Swaps : Found(chain, x) = q => x = k
  BY <1>1, <1>2, FoundOther
<1>7. \A t \in Segs \ {s} : Kind[s] \in {"shared", "shdata"} \/ Kind[t] \in {"shared", "shdata"} => slot[t] # q
  <2>1. CASE k \in Swaps
    BY <1>1, <1>2, <2>1, KeysApart DEF DInv, SharedPlace, SlotTag
  <2>2. CASE k \in Blocks
    BY <1>1, <1>2, <2>2, KeysApart DEF DInv, SlotTag, SharedApart, IInv, NotFile
  <2> QED
    BY <1>1, <2>1, <2>2, KeysApart
<1>8. FoundIs' /\ Going' /\ Text'
  BY <1>2 DEF DInv, FoundIs, Going, Text
<1>9. InPage'
  BY <1>1, <1>2, <1>3, <1>5, KeysApart DEF DInv, InPage
<1>10. OnSwap'
  BY <1>1, <1>2, <1>3, <1>4, KeysApart DEF DInv, OnSwap, Away
<1>11. PlaceAlone'
  BY <1>1, <1>3, KeysApart DEF DInv, PlaceAlone, Alone
<1>12. SharedAlone'
  BY <1>1, <1>3, <1>7 DEF DInv, SharedAlone, Alone
<1>13. SharedPlace'
  <2>1. SUFFICES ASSUME NEW t \in Segs, NEW x \in Swaps, Kind[t] = "shared", Found(chain, x) # None
                 PROVE  /\ slot'[t] = Found(chain, x) => \A z \in Segs : slot'[z] # x
                        /\ slot'[t] = x => \A z \in Segs : slot'[z] # Found(chain, x)
    BY <1>2 DEF SharedPlace
  <2>2. q \notin Swaps /\ Found(chain, x) \in Pages
    BY <1>1, <2>1, FoundOther, KeysApart
  <2>3. CASE t = s
    BY <1>1, <1>3, <1>6, <2>2, <2>3, KeysApart DEF DInv, PlaceAlone, Alone
  <2>4. CASE t # s
    <3>1. slot[t] = Found(chain, x) => \A z \in Segs : slot[z] # x
      BY <2>1 DEF DInv, SharedPlace
    <3>2. slot[t] = x => \A z \in Segs : slot[z] # Found(chain, x)
      BY <2>1 DEF DInv, SharedPlace
    <3>3. slot[t] = x => x # slot[s]
      BY <1>1, <2>1, <2>4 DEF DInv, PlaceAlone, Alone
    <3> QED
      BY <1>1, <1>3, <1>6, <2>2, <2>4, <3>1, <3>2, <3>3
  <2> QED
    BY <2>3, <2>4
<1>14. NotText'
  BY <1>2 DEF DInv, NotText, IInv, Types, ProcTypes
<1>15. DupAlone'
  <2>1. ASSUME NEW r \in Procs, pc'[r] = "dup" PROVE Alone(at[r])' /\ tag[slot'[at[r]]] \in Blocks
    <3>1. r # p /\ pc[r] = "dup" /\ at[r] \in Segs /\ at[r] # s
      BY <1>1, <1>2, <2>1 DEF IInv, Types, ProcTypes, Located, Locked
    <3>2. slot[at[r]] # q
      BY <1>1, <3>1, KeysApart DEF IInv, PageLocked
    <3> QED
      BY <1>2, <1>3, <3>1, <3>2 DEF DInv, DupAlone, Alone
  <2> QED
    BY <1>2, <2>1 DEF DupAlone
<1>16. SlotTag'
  BY <1>1, <1>2, <1>3, KeysApart DEF DInv, SlotTag
<1>17. Seeking'
  <2>1. ASSUME NEW r \in Procs, r # p, key[r] \in Swaps PROVE at[r] # s
    <3>1. CASE k \in Swaps
      BY <1>1, <2>1, <3>1, SeeksAlone, s = at[p], k = key[p]
    <3>2. CASE k \in Blocks
      BY <1>1, <2>1, <3>2, KeysApart DEF IInv, Keyed
    <3> QED
      BY <1>1, <3>1, <3>2, KeysApart
  <2>2. \A r \in Procs \ {p} : pc'[r] = pc[r] /\ page'[r] = page[r] /\ key'[r] = key[r]
    BY <1>2 DEF IInv, Types, ProcTypes
  <2>3. key'[p] = None
    BY <1>2 DEF IInv, Types, ProcTypes
  <2>4. \A r \in Procs : key[r] \in Swaps => at[r] \in Segs
    BY KeysApart DEF IInv, Located, Keyed
  <2> QED
    BY <1>2, <1>3, <2>1, <2>2, <2>3, <2>4, KeysApart DEF DInv, Seeking
<1> QED
  BY <1>8, <1>9, <1>10, <1>11, <1>12, <1>13, <1>14, <1>15, <1>16, <1>17 DEF DInv

LEMMA TakeKeeps ==
  ASSUME DInv, IInv, NEW p \in Procs, Take(p)
  PROVE  DInv'
<1>1. /\ pc[p] = "take" /\ pc' = [pc EXCEPT ![p] = "claim"] /\ page' = [page EXCEPT ![p] = list.head]
      /\ UNCHANGED <<at, key, slot, holds, content, tag, chain, swdata, io>>
  BY DEF Take, Goto, cache, swap
<1>2. key[p] = None => Kind[at[p]] # "text"
  BY <1>1 DEF DInv, NotText
<1>3. pc'[p] = "claim" /\ \A r \in Procs \ {p} : pc'[r] = pc[r] /\ page'[r] = page[r]
  BY <1>1 DEF IInv, Types, ProcTypes
<1> QED
  BY <1>1, <1>2, <1>3, QuietStep

LEMMA LetGoKeeps ==
  ASSUME DInv, IInv, NEW p \in Procs, LetGo(p)
  PROVE  DInv'
<1>1. /\ pc[p] = "take" /\ pc' = [pc EXCEPT ![p] = "fault"]
      /\ UNCHANGED <<at, key, page, slot, holds, content, tag, chain, swdata, io>>
  BY DEF LetGo, Goto, proc, cache, swap
<1>2. pc'[p] = "fault" /\ \A r \in Procs \ {p} : pc'[r] = pc[r] /\ page'[r] = page[r]
  BY <1>1 DEF IInv, Types, ProcTypes
<1> QED
  BY <1>1, <1>2, QuietStep

LEMMA ClaimStolenKeeps ==
  ASSUME DInv, IInv, NEW p \in Procs, Claim(p), Stolen(page[p])
  PROVE  DInv'
<1>1. /\ pc[p] = "claim" /\ pc' = [pc EXCEPT ![p] = "take"] /\ page' = [page EXCEPT ![p] = None]
      /\ UNCHANGED <<at, key, slot, holds, content, tag, chain, swdata, io>>
  BY DEF Claim, Goto, cache, swap
<1>2. key[p] = None => Kind[at[p]] # "text"
  BY <1>1 DEF DInv, NotText
<1>3. pc'[p] = "take" /\ \A r \in Procs \ {p} : pc'[r] = pc[r] /\ page'[r] = page[r]
  BY <1>1 DEF IInv, Types, ProcTypes
<1> QED
  BY <1>1, <1>2, <1>3, QuietStep

LEMMA SplitKeeps ==
  ASSUME DInv, IInv, NEW p \in Procs, Split(p)
  PROVE  DInv'
<1>1. /\ pc[p] = "map" /\ pc' = [pc EXCEPT ![p] = "take"] /\ Kind[at[p]] \in {"data", "bss"}
      /\ UNCHANGED <<at, key, page, slot, holds, content, tag, chain, swdata, io>>
  BY DEF Split, Goto, proc, cache, swap
<1>2. pc'[p] = "take" /\ \A r \in Procs \ {p} : pc'[r] = pc[r] /\ page'[r] = page[r]
  BY <1>1 DEF IInv, Types, ProcTypes
<1> QED
  BY <1>1, <1>2, QuietStep

(* The page a process has of newpage is not found, nor in a segment.       *)
LEMMA OwnPage ==
  ASSUME DInv, IInv, NEW p \in Procs, Has(p), NEW q, q = page[p]
  PROVE  /\ q \in Pages /\ tag[q] = None /\ \A t \in Segs : slot[t] # q
         /\ \A r \in Procs : r # p /\ Has(r) => page[r] # q
         /\ io # None => io[1] # q
         /\ \A x \in Swaps : Found(chain, x) # q
<1>1. q \in Pages
  BY q = page[p] DEF IInv, Types, ProcTypes, Keyed, Has
<1>2. tag[q] = None
  BY q = page[p] DEF IInv, Own
<1>3. \A x \in Swaps : tag[q] # x
  BY <1>2, KeysApart
<1> QED
  BY <1>1, <1>2, <1>3, q = page[p], FoundOther DEF IInv, Own

LEMMA RelockKeeps ==
  ASSUME DInv, IInv, RefExact', PagedApart, NEW p \in Procs, Relock(p), NEW s, s = at[p],
         NEW q, q = page[p], NEW k, k = key[p], StillOut(s, k)
  PROVE  DInv'
<1>1. /\ s \in Segs /\ k \in Keys /\ k # None /\ pc[p] = "relock" /\ lk[s] = None /\ p \in Users[s]
      /\ k \in Blocks => /\ Kind[s] \notin {"bss", "shared"} /\ k = Block[s] /\ slot[s] = None
                         /\ content[q] = Fresh(k)
      /\ k \in Swaps => /\ Kind[s] \in {"data", "bss", "shared"} /\ Found(chain, k) = None /\ slot[s] = k
                        /\ content[q] = holds[s]
  BY s = at[p], q = page[p], k = key[p], KeysApart
  DEF Relock, Goto, Qlock, StillOut, IInv, Types, ProcTypes, Located, Loaded, Keyed, DInv, Seeking
<1>2. /\ tag' = [tag EXCEPT ![q] = k] /\ chain' = On(chain, q, k) /\ pc' = [pc EXCEPT ![p] = "map"]
      /\ page' = [page EXCEPT ![p] = None] /\ key' = [key EXCEPT ![p] = None]
      /\ slot' = [slot EXCEPT ![s] = q]
      /\ UNCHANGED <<at, holds, content, io>>
      /\ IF k \in Swaps THEN PutSwap(slot[s]) ELSE swdata' = swdata
  BY s = at[p], q = page[p], k = key[p] DEF Relock, Cached, Goto, Drop, PutSwap, swap
<1>3. /\ q \in Pages /\ tag[q] = None /\ \A t \in Segs : slot[t] # q
      /\ \A r \in Procs : r # p /\ Has(r) => page[r] # q
      /\ io # None => io[1] # q
      /\ \A x \in Swaps : Found(chain, x) # q
  BY <1>1, q = page[p], OwnPage DEF Has
<1>4. /\ Short(chain')
      /\ \A x \in Swaps : Found(chain', x) = IF x = k THEN q ELSE Found(chain, x)
  <2>1. chain \in [Keys -> Seq(Pages)] /\ Short(chain)
    BY DEF DInv, FoundIs, IInv, Types, PageTypes
  <2> QED
    BY <1>1, <1>2, <1>3, <2>1, FoundOn
<1>5. /\ slot'[s] = q /\ \A t \in Segs \ {s} : slot'[t] = slot[t]
      /\ tag'[q] = k /\ \A r \in Pages \ {q} : tag'[r] = tag[r]
  BY <1>1, <1>2, <1>3 DEF IInv, Types, SegTypes, PageTypes
<1>6. \A t \in Segs : slot'[t] \in Swaps => swdata'[slot'[t]] = swdata[slot'[t]]
  BY <1>1, <1>2, PutSwapKeeps DEF IInv, Types, PoolTypes
<1>7. content[q] = holds[s]
  BY <1>1, KeysApart DEF DInv, InPage
<1>8. \A x \in Swaps : Found(chain, x) \in Pages \cup {None} /\ (Found(chain, x) # None => tag[Found(chain, x)] = x)
  BY FoundOther DEF DInv, FoundIs
<1>9. \A t \in Segs \ {s} : k \in Swaps => slot[t] # k
  BY <1>1 DEF DInv, PlaceAlone, Alone
<1>10. FoundIs'
  BY <1>3, <1>4, <1>5, <1>8, KeysApart DEF FoundIs
<1>11. Going'
  BY <1>1, <1>2, <1>4, KeysApart DEF DInv, Going, IInv, Types, PoolTypes
<1>12. InPage'
  BY <1>2, <1>3, <1>5, <1>7, KeysApart DEF DInv, InPage
<1>13. OnSwap'
  BY <1>1, <1>2, <1>3, <1>4, <1>5, <1>6, <1>9, KeysApart DEF DInv, OnSwap, Away
<1>14. PlaceAlone' /\ SharedAlone'
  BY <1>3, <1>5, KeysApart DEF DInv, PlaceAlone, SharedAlone, Alone
<1>15. SharedPlace'
  <2> SUFFICES ASSUME NEW t \in Segs, NEW x \in Swaps, Kind[t] = "shared", Found(chain', x) # None
               PROVE  /\ slot'[t] = Found(chain', x) => \A z \in Segs : slot'[z] # x
                      /\ slot'[t] = x => \A z \in Segs : slot'[z] # Found(chain', x)
    BY DEF SharedPlace
  <2>1. CASE x = k
    <3>1. Found(chain', x) = q
      BY <1>4, <2>1
    <3>2. \A z \in Segs : slot'[z] # x
      BY <1>3, <1>5, <1>9, <2>1, KeysApart
    <3> QED
      BY <3>2
  <2>2. CASE x # k
    <3>1. /\ slot[t] = Found(chain, x) => \A z \in Segs : slot[z] # x
          /\ slot[t] = x => \A z \in Segs : slot[z] # Found(chain, x)
          /\ Found(chain', x) = Found(chain, x) /\ Found(chain, x) # q /\ q # x
      BY <1>3, <1>4, <2>2, KeysApart DEF DInv, SharedPlace
    <3> QED
      BY <1>5, <3>1
  <2> QED
    BY <2>1, <2>2
<1>16. NotText'
  BY <1>2 DEF DInv, NotText, IInv, Types, ProcTypes
<1>17. DupAlone'
  <2>1. ASSUME NEW r \in Procs, pc'[r] = "dup" PROVE Alone(at[r])' /\ tag'[slot'[at[r]]] \in Blocks
    <3>1. r # p /\ pc[r] = "dup" /\ at[r] \in Segs /\ at[r] # s
      BY <1>1, <1>2, <2>1, KeysApart DEF IInv, Types, ProcTypes, Located, Locked
    <3>2. slot[at[r]] # q /\ slot[at[r]] \in Pages
      BY <1>3, <3>1 DEF IInv, PageLocked
    <3> QED
      BY <1>2, <1>5, <3>1, <3>2 DEF DInv, DupAlone, Alone
  <2> QED
    BY <1>2, <2>1 DEF DupAlone
<1>18. SlotTag'
  BY <1>1, <1>3, <1>5, KeysApart DEF DInv, SlotTag
<1>19. Seeking'
  <2>1. ASSUME NEW r \in Procs, r # p, key[r] \in Swaps PROVE at[r] # s /\ at[r] \in Segs
    <3>1. at[r] \in Segs
      BY <2>1, KeysApart DEF IInv, Located, Keyed
    <3>2. CASE k \in Swaps
      BY <1>1, <2>1, <3>1, <3>2, SeeksAlone, s = at[p], k = key[p]
    <3>3. CASE k \in Blocks
      BY <1>1, <2>1, <3>1, <3>3, KeysApart DEF IInv, Keyed
    <3> QED
      BY <1>1, <3>1, <3>2, <3>3, KeysApart
  <2>2. \A r \in Procs \ {p} : pc'[r] = pc[r] /\ page'[r] = page[r] /\ key'[r] = key[r]
    BY <1>2 DEF IInv, Types, ProcTypes
  <2>3. key'[p] = None
    BY <1>2 DEF IInv, Types, ProcTypes
  <2>4. ASSUME NEW r \in Procs, r # p, key[r] \in Swaps
        PROVE  /\ slot[at[r]] = key[r] /\ key[r] # k
               /\ slot'[at[r]] = slot[at[r]] /\ Found(chain', key[r]) = Found(chain, key[r])
               /\ page[r] \in Pages => tag'[page[r]] = IF page[r] = q THEN k ELSE tag[page[r]]
    <3>1. slot[at[r]] = key[r]
      BY <2>4, KeysApart DEF DInv, Seeking, IInv, Keyed
    <3>2. key[r] # k
      BY <1>9, <2>1, <2>4, <3>1
    <3>3. slot'[at[r]] = slot[at[r]]
      BY <1>5, <2>1, <2>4
    <3>4. Found(chain', key[r]) = Found(chain, key[r])
      BY <1>4, <2>4, <3>2
    <3>5. page[r] \in Pages => tag'[page[r]] = IF page[r] = q THEN k ELSE tag[page[r]]
      BY <1>5
    <3> QED
      BY <3>1, <3>2, <3>3, <3>4, <3>5
  <2>5. SUFFICES ASSUME NEW r \in Procs, r # p
                 PROVE  /\ key[r] \in Blocks => key[r] = Block[at[r]]
                        /\ pc[r] = "check" /\ key[r] \in Swaps =>
                              Found(chain', key[r]) = IF tag'[page[r]] = key[r] THEN page[r] ELSE None
                        /\ pc[r] # "check" /\ key[r] \in Swaps =>
                              slot'[at[r]] = key[r] /\ Found(chain', key[r]) = None
                        /\ pc[r] = "relock" /\ key[r] \in Swaps => content[page[r]] = holds[at[r]]
    BY <1>2, <2>2, <2>3, KeysApart DEF Seeking
  <2>6. pc[r] = "check" => page[r] \in Pages
    BY <2>5 DEF IInv, Types, ProcTypes, Keyed
  <2> QED
    BY <1>3, <2>4, <2>5, <2>6, KeysApart DEF DInv, Seeking
<1> QED
  BY <1>1, <1>2, <1>10, <1>11, <1>12, <1>13, <1>14, <1>15, <1>16, <1>17, <1>18, <1>19
  DEF DInv, Text

LEMMA LostKeeps ==
  ASSUME DInv, IInv, RefExact', NEW p \in Procs, Relock(p), NEW q, q = page[p], ~StillOut(at[p], key[p])
  PROVE  DInv'
<1>1. /\ pc[p] = "relock" /\ pc' = [pc EXCEPT ![p] = "map"]
      /\ page' = [page EXCEPT ![p] = None] /\ key' = [key EXCEPT ![p] = None]
      /\ UNCHANGED <<at, slot, holds, tag, chain, swdata, io>> /\ PutPage(q, 1, content)
  BY q = page[p] DEF Relock, Goto, Drop, cache, swap
<1>2. /\ q \in Pages /\ tag[q] = None /\ \A t \in Segs : slot[t] # q
      /\ \A r \in Procs : r # p /\ Has(r) => page[r] # q
      /\ \A x \in Swaps : Found(chain, x) # q
  BY <1>1, q = page[p], OwnPage DEF Has
<1>3. \A r \in Pages \ {q} : content'[r] = content[r]
  <2>1. content \in [Pages -> Data] /\ ref \in [Pages -> Int]
    BY DEF IInv, Types, PageTypes
  <2> QED
    BY ONLY <1>1, <1>2, <2>1, RefExact', PutPageKeeps
<1>4. \A x \in Swaps : Found(chain, x) \in Pages \cup {None}
  BY FoundOther
<1>5. FoundIs' /\ Going' /\ Text' /\ PlaceAlone' /\ SharedAlone' /\ SharedPlace' /\ SlotTag'
  BY <1>1 DEF DInv, FoundIs, Going, Text, PlaceAlone, Alone, SharedAlone, SharedPlace, SlotTag
<1>6. InPage'
  BY <1>1, <1>2, <1>3 DEF DInv, InPage
<1>7. OnSwap'
  BY <1>1, <1>2, <1>3, <1>4 DEF DInv, OnSwap, Away
<1>8. NotText' /\ DupAlone'
  BY <1>1 DEF DInv, NotText, DupAlone, Alone, IInv, Types, ProcTypes
<1>9. Seeking'
  BY <1>1, <1>2, <1>3, KeysApart DEF DInv, Seeking, IInv, Types, ProcTypes, Keyed, Has
<1> QED
  BY <1>5, <1>6, <1>7, <1>8, <1>9 DEF DInv

LEMMA FillKeeps ==
  ASSUME DInv, IInv, NEW p \in Procs, Fill(p), NEW s, s = at[p], NEW q, q = page[p]
  PROVE  DInv'
<1>1. /\ s \in Segs /\ pc[p] = "copy" /\ lk[s] = p /\ slot[s] = None /\ pc' = [pc EXCEPT ![p] = "map"]
      /\ page' = [page EXCEPT ![p] = None] /\ key' = [key EXCEPT ![p] = None]
      /\ slot' = [slot EXCEPT ![s] = q] /\ content' = [content EXCEPT ![q] = Fresh(Block[s])]
      /\ UNCHANGED <<at, holds, tag, chain, swdata, io>>
  BY s = at[p], q = page[p] DEF Fill, Goto, Drop, cache, swap, IInv, Located, Locked
<1>2. /\ q \in Pages /\ tag[q] = None /\ \A t \in Segs : slot[t] # q
      /\ \A r \in Procs : r # p /\ Has(r) => page[r] # q
      /\ \A x \in Swaps : Found(chain, x) # q
  BY <1>1, q = page[p], OwnPage DEF Has
<1>3. /\ slot'[s] = q /\ \A t \in Segs \ {s} : slot'[t] = slot[t]
      /\ content'[q] = Fresh(Block[s]) /\ \A r \in Pages \ {q} : content'[r] = content[r]
  BY <1>1, <1>2 DEF IInv, Types, SegTypes, PageTypes
<1>4. \A x \in Swaps : Found(chain, x) \in Pages \cup {None}
  BY FoundOther
<1>5. FoundIs' /\ Going' /\ Text'
  BY <1>1 DEF DInv, FoundIs, Going, Text
<1>6. InPage'
  BY <1>1, <1>2, <1>3, KeysApart DEF DInv, InPage
<1>7. OnSwap'
  BY <1>1, <1>2, <1>3, <1>4, KeysApart DEF DInv, OnSwap, Away
<1>8. PlaceAlone' /\ SharedAlone'
  BY <1>2, <1>3, KeysApart DEF DInv, PlaceAlone, SharedAlone, Alone
<1>9. SharedPlace'
  BY <1>1, <1>2, <1>3, KeysApart DEF DInv, SharedPlace
<1>10. NotText'
  BY <1>1 DEF DInv, NotText, IInv, Types, ProcTypes
<1>11. DupAlone'
  <2>1. ASSUME NEW r \in Procs, pc'[r] = "dup" PROVE Alone(at[r])' /\ tag[slot'[at[r]]] \in Blocks
    <3>1. r # p /\ pc[r] = "dup" /\ at[r] \in Segs /\ at[r] # s
      BY <1>1, <2>1 DEF IInv, Types, ProcTypes, Located, Locked
    <3> QED
      BY <1>1, <1>2, <1>3, <3>1 DEF DInv, DupAlone, Alone
  <2> QED
    BY <1>1, <2>1 DEF DupAlone
<1>12. SlotTag'
  BY <1>1, <1>2, <1>3, KeysApart DEF DInv, SlotTag
<1>13. Seeking'
  <2>1. \A r \in Procs \ {p} : pc'[r] = pc[r] /\ page'[r] = page[r] /\ key'[r] = key[r]
    BY <1>1 DEF IInv, Types, ProcTypes
  <2>2. key'[p] = None
    BY <1>1 DEF IInv, Types, ProcTypes
  <2>3. \A r \in Procs : key[r] \in Swaps => at[r] \in Segs /\ at[r] # s
    BY <1>1, KeysApart DEF IInv, Located, Keyed
  <2>4. \A r \in Procs \ {p} : pc[r] = "relock" => page[r] \in Pages \ {q}
    BY <1>2 DEF IInv, Types, ProcTypes, Keyed, Has
  <2> QED
    BY <1>1, <1>3, <2>1, <2>2, <2>3, <2>4, KeysApart DEF DInv, Seeking
<1> QED
  BY <1>5, <1>6, <1>7, <1>8, <1>9, <1>10, <1>11, <1>12, <1>13 DEF DInv

(* A segment that is alone with its page is written in place: the page is  *)
(* no copy of a file any more.                                             *)
LEMMA WriteKeeps ==
  ASSUME DInv, IInv, NEW p \in Procs, NEW s \in Segs, s = at[p], NEW q \in Pages, q = slot[s],
         lk[s] = p, Alone(s), io # None => io[1] # q, Kind[s] # "text",
         pc' = [pc EXCEPT ![p] = "user"], Rest(p), plock[q] \in {None, p},
         Uncached(q), Store(s, q), UNCHANGED <<slot, swdata, io>>
  PROVE  DInv'
<1>1. /\ page' = [page EXCEPT ![p] = None] /\ key' = [key EXCEPT ![p] = None]
      /\ at' = [at EXCEPT ![p] = None]
      /\ tag' = [tag EXCEPT ![q] = None] /\ chain' = Off(chain, q)
      /\ content' = [content EXCEPT ![q] = Stored(s, @)] /\ holds' = [holds EXCEPT ![s] = Stored(s, @)]
  BY DEF Rest, Uncached, Store
<1>2. /\ tag'[q] = None /\ \A r \in Pages \ {q} : tag'[r] = tag[r] /\ content'[r] = content[r]
      /\ content'[q] = holds'[s] /\ \A t \in Segs \ {s} : holds'[t] = holds[t] /\ slot[t] # q
  <2>1. content[q] = holds[s]
    BY q = slot[s] DEF DInv, InPage
  <2> QED
    BY <1>1, <2>1, q = slot[s] DEF IInv, Types, PageTypes, SegTypes, Alone
<1>3. /\ Short(chain')
      /\ \A x \in Swaps : Found(chain', x) = IF Found(chain, x) = q THEN None ELSE Found(chain, x)
  <2>1. chain \in [Keys -> Seq(Pages)] /\ Short(chain)
    BY DEF DInv, FoundIs, IInv, Types, PageTypes
  <2>2. q \in Pages /\ chain' = Off(chain, q)
    BY <1>1
  <2> QED
    BY ONLY <2>1, <2>2, FoundOff, SMTT(60)
<1>4. \A x \in Swaps : Found(chain, x) \in Pages \cup {None}
  BY FoundOther
<1>5. FoundIs'
  BY <1>2, <1>3, <1>4 DEF DInv, FoundIs
<1>6. Going'
  BY <1>3 DEF DInv, Going, IInv, Types, PoolTypes
<1>7. InPage'
  BY <1>2, q = slot[s], KeysApart DEF DInv, InPage
<1>8. OnSwap'
  BY <1>2, <1>3, <1>4, q = slot[s], KeysApart DEF DInv, OnSwap, Away
<1>9. Text'
  BY <1>2 DEF DInv, Text
<1>10. PlaceAlone' /\ SharedAlone'
  BY DEF DInv, PlaceAlone, SharedAlone, Alone
<1>11. SharedPlace'
  BY <1>3 DEF DInv, SharedPlace
<1>12. NotText'
  BY <1>1 DEF DInv, NotText, IInv, Types, ProcTypes
<1>13. DupAlone'
  <2>1. ASSUME NEW r \in Procs, pc'[r] = "dup" 
        PROVE  (\A z \in Segs : z # at'[r] => slot[z] # slot[at'[r]]) /\ tag'[slot[at'[r]]] \in Blocks
    <3>1. r # p /\ pc[r] = "dup" /\ at[r] \in Segs /\ at[r] # s /\ at'[r] = at[r]
      BY <1>1, <2>1, s = at[p] DEF IInv, Types, ProcTypes, Located, Locked
    <3>2. slot[at[r]] \in Pages \ {q}
      BY <1>2, <3>1 DEF IInv, PageLocked
    <3> QED
      BY <1>2, <3>1, <3>2 DEF DInv, DupAlone, Alone
  <2> QED
    BY <2>1 DEF DupAlone, Alone
<1>14. SlotTag'
  BY <1>2, q = slot[s], KeysApart DEF DInv, SlotTag
<1>15. Seeking'
  <2>1. \A r \in Procs \ {p} : pc'[r] = pc[r] /\ page'[r] = page[r] /\ key'[r] = key[r] /\ at'[r] = at[r]
    BY <1>1 DEF IInv, Types, ProcTypes
  <2>2. key'[p] = None
    BY <1>1 DEF IInv, Types, ProcTypes
  <2>3. ASSUME NEW r \in Procs, key[r] \in Swaps, pc[r] = "relock"
        PROVE  page[r] \in Pages \ {q} /\ at[r] \in Segs \ {s}
    <3>1. at[r] \in Segs /\ page[r] \in Pages
      BY <2>3 DEF IInv, Types, ProcTypes, Located, Keyed
    <3>2. page[r] # q
      BY <2>3, q = slot[s] DEF IInv, Own, Has
    <3>3. slot[at[r]] \in Swaps
      BY <2>3 DEF DInv, Seeking
    <3> QED
      BY <3>1, <3>2, <3>3, q = slot[s], KeysApart
  <2>4. \A r \in Procs : pc[r] = "check" => page[r] \in Pages
    BY DEF IInv, Types, ProcTypes, Keyed
  <2> QED
    BY <1>2, <1>3, <2>1, <2>2, <2>3, <2>4, KeysApart DEF DInv, Seeking
<1> QED
  BY <1>5, <1>6, <1>7, <1>8, <1>9, <1>10, <1>11, <1>12, <1>13, <1>14, <1>15 DEF DInv

LEMMA InSharedKeeps ==
  ASSUME DInv, IInv, NEW p \in Procs, InShared(p), NEW s, s = at[p], NEW q, q = slot[s]
  PROVE  DInv'
<1>1. /\ s \in Segs /\ q \in Pages /\ Kind[s] = "shared" /\ pc' = [pc EXCEPT ![p] = "user"]
      /\ page' = [page EXCEPT ![p] = None] /\ key' = [key EXCEPT ![p] = None]
      /\ at' = [at EXCEPT ![p] = None]
      /\ content' = [content EXCEPT ![q] = Stored(s, @)] /\ holds' = [holds EXCEPT ![s] = Stored(s, @)]
      /\ UNCHANGED <<slot, tag, chain, swdata, io>>
  BY s = at[p], q = slot[s] DEF InShared, Goto, Rest, Store, cache, swap, IInv, Located
<1>2. Alone(s)
  BY <1>1, q = slot[s] DEF DInv, SharedAlone
<1>3. /\ content'[q] = holds'[s] /\ \A r \in Pages \ {q} : content'[r] = content[r]
      /\ \A t \in Segs \ {s} : holds'[t] = holds[t] /\ slot[t] # q
  <2>1. content[q] = holds[s]
    BY <1>1, q = slot[s] DEF DInv, InPage
  <2> QED
    BY <1>1, <1>2, <2>1, q = slot[s] DEF IInv, Types, PageTypes, SegTypes, Alone
<1>4. \A x \in Swaps : Found(chain, x) \in Pages \cup {None}
  BY FoundOther
<1>5. \A t \in Segs : slot[t] \in Swaps => Found(chain, slot[t]) # q
  BY <1>1, q = slot[s], KeysApart DEF DInv, SharedPlace
<1>6. FoundIs' /\ Going' /\ PlaceAlone' /\ SharedAlone' /\ SharedPlace' /\ SlotTag'
  BY <1>1 DEF DInv, FoundIs, Going, PlaceAlone, Alone, SharedAlone, SharedPlace, SlotTag
<1>7. InPage'
  BY <1>1, <1>3, q = slot[s], KeysApart DEF DInv, InPage
<1>8. OnSwap'
  <2>1. ASSUME NEW t \in Segs, slot[t] \in Swaps
        PROVE  /\ holds'[t] = holds[t] /\ Found(chain, slot[t]) # q
               /\ Found(chain, slot[t]) # None => content'[Found(chain, slot[t])] = content[Found(chain, slot[t])]
    BY <1>1, <1>3, <1>4, <1>5, <2>1, q = slot[s], KeysApart
  <2> QED
    BY <1>1, <2>1 DEF DInv, OnSwap, Away
<1>9. Text'
  BY <1>1, <1>3 DEF DInv, Text
<1>10. NotText' /\ DupAlone'
  BY <1>1 DEF DInv, NotText, DupAlone, Alone, IInv, Types, ProcTypes
<1>11. Seeking'
  <2>1. \A r \in Procs \ {p} : pc'[r] = pc[r] /\ page'[r] = page[r] /\ key'[r] = key[r] /\ at'[r] = at[r]
    BY <1>1 DEF IInv, Types, ProcTypes
  <2>2. key'[p] = None
    BY <1>1 DEF IInv, Types, ProcTypes
  <2>3. ASSUME NEW r \in Procs, key[r] \in Swaps, pc[r] = "relock"
        PROVE  page[r] \in Pages \ {q} /\ at[r] \in Segs \ {s}
    <3>1. at[r] \in Segs /\ page[r] \in Pages
      BY <2>3 DEF IInv, Types, ProcTypes, Located, Keyed
    <3>2. page[r] # q
      BY <1>1, <2>3, q = slot[s] DEF IInv, Own, Has
    <3>3. slot[at[r]] \in Swaps
      BY <2>3 DEF DInv, Seeking
    <3> QED
      BY <1>1, <3>1, <3>2, <3>3, q = slot[s], KeysApart
  <2> QED
    BY <1>1, <1>3, <2>1, <2>2, <2>3, KeysApart DEF DInv, Seeking
<1> QED
  BY <1>6, <1>7, <1>8, <1>9, <1>10, <1>11 DEF DInv

(* Who writes a page in place is alone with it.                            *)
LEMMA WritesAlone ==
  ASSUME DInv, IInv, NEW p \in Procs, NEW s \in Segs, s = at[p], NEW q, q = slot[s], Writes(p, q)
  PROVE  Alone(s) /\ (io # None => io[1] # q) /\ Kind[s] # "text"
<1>1. q \in Pages
  BY DEF Writes
<1>2. CASE Kind[s] = "shdata"
  <2>1. Alone(s) /\ tag[q] \notin Swaps
    BY <1>1, <1>2, q = slot[s] DEF DInv, SharedAlone, SlotTag
  <2>2. io # None => Found(chain, io[2]) = io[1] /\ io[1] \in Pages /\ io[2] \in Swaps
    BY DEF DInv, Going, IInv, Types, PoolTypes
  <2>3. io # None => tag[io[1]] = io[2]
    BY <2>2, KeysApart DEF DInv, FoundIs
  <2> QED
    BY <1>2, <2>1, <2>2, <2>3
<1>3. CASE Kind[s] \in {"data", "bss"} /\ ~Shared(q)
  BY <1>1, <1>3, q = slot[s], OnlyUse DEF IInv, Types, PageTypes
<1> QED
  BY <1>2, <1>3, s = at[p] DEF Writes

LEMMA ModifyKeeps ==
  ASSUME DInv, IInv, NEW p \in Procs, Modify(p), NEW s, s = at[p], NEW q, q = slot[s]
  PROVE  DInv'
<1>1. /\ s \in Segs /\ lk[s] = p /\ pc' = [pc EXCEPT ![p] = "user"] /\ Rest(p)
      /\ Uncached(q) /\ Store(s, q) /\ UNCHANGED <<slot, swdata, io>>
      /\ Writes(p, q)
  BY s = at[p], q = slot[s] DEF Modify, Goto, swap, IInv, Located, Locked
<1>2. q \in Pages /\ plock[q] = None
  BY <1>1 DEF Writes
<1>3. Alone(s) /\ (io # None => io[1] # q) /\ Kind[s] # "text"
  BY <1>1, s = at[p], q = slot[s], WritesAlone
<1> QED
  BY <1>1, <1>2, <1>3, s = at[p], q = slot[s], WriteKeeps

LEMMA DupKeeps ==
  ASSUME DInv, IInv, NEW p \in Procs, Dup(p), NEW s, s = at[p], NEW q, q = slot[s]
  PROVE  DInv'
<1>1. /\ s \in Segs /\ Writes(p, q) /\ tag[q] \in Blocks /\ pc[p] = "map" /\ pc' = [pc EXCEPT ![p] = "dup"]
      /\ page' = [page EXCEPT ![p] = list.head]
      /\ UNCHANGED <<at, key, slot, holds, content, tag, chain, swdata, io>>
  BY s = at[p], q = slot[s] DEF Dup, Dups, Goto, cache, swap, IInv, Located
<1>2. Alone(s) /\ Kind[s] # "text"
  BY <1>1, s = at[p], q = slot[s], WritesAlone
<1>3. DupAlone'
  BY <1>1, <1>2, s = at[p], q = slot[s] DEF DInv, DupAlone, Alone, IInv, Types, ProcTypes
<1>4. NotText'
  BY <1>1, <1>2, s = at[p] DEF DInv, NotText, IInv, Types, ProcTypes
<1>5. Seeking'
  <2>1. key[p] = None
    BY <1>1 DEF IInv, Keyed
  <2> QED
    BY <1>1, <2>1, KeysApart DEF DInv, Seeking, IInv, Types, ProcTypes
<1> QED
  BY <1>1, <1>3, <1>4, <1>5, MemorySame DEF DInv

LEMMA DuppedKeeps ==
  ASSUME DInv, IInv, NEW p \in Procs, Dupped(p), NEW s, s = at[p], NEW q, q = slot[s], NEW np, np = page[p]
  PROVE  DInv'
<1>1. /\ s \in Segs /\ lk[s] = p /\ q \in Pages /\ np \in Pages /\ plock[q] = p /\ pc[p] = "dup"
      /\ pc' = [pc EXCEPT ![p] = "user"] /\ Rest(p) /\ UNCHANGED <<slot, swdata, io>>
      /\ Alone(s) /\ tag[q] \in Blocks
  BY s = at[p], q = slot[s], np = page[p]
  DEF Dupped, Goto, swap, IInv, Types, ProcTypes, Located, Locked, PageLocked, Keyed, DInv, DupAlone
<1>2. io # None => io[1] # q
  <2>1. io # None => Found(chain, io[2]) = io[1] /\ io[1] \in Pages /\ io[2] \in Swaps
    BY DEF DInv, Going, IInv, Types, PoolTypes
  <2>2. io # None => tag[io[1]] = io[2]
    BY <2>1, KeysApart DEF DInv, FoundIs
  <2> QED
    BY <1>1, <2>1, <2>2, KeysApart
<1>3. Kind[s] # "text"
  <2>1. key[p] = None
    BY <1>1 DEF IInv, Keyed
  <2> QED
    BY <1>1, <2>1, s = at[p] DEF DInv, NotText
<1>4. CASE ref[np] # 0
  <2>1. Uncached(q) /\ Store(s, q)
    BY <1>4, s = at[p], q = slot[s], np = page[p] DEF Dupped
  <2> QED
    BY <1>1, <1>2, <1>3, <2>1, s = at[p], q = slot[s], WriteKeeps
<1>5. CASE ref[np] = 0
  <2> DEFINE b == tag[q]
  <2>1. /\ page' = [page EXCEPT ![p] = None] /\ key' = [key EXCEPT ![p] = None]
        /\ at' = [at EXCEPT ![p] = None]
        /\ tag' = [tag EXCEPT ![np] = b, ![q] = None]
        /\ chain' = On(Off(Off(chain, np), q), np, b)
        /\ content' = [content EXCEPT ![np] = content[q], ![q] = Stored(s, @)]
        /\ holds' = [holds EXCEPT ![s] = Stored(s, @)]
    BY <1>5, s = at[p], q = slot[s], np = page[p] DEF Dupped, Rest
  <2>2. /\ \A t \in Segs : slot[t] # np
        /\ \A r \in Procs : Has(r) => page[r] # np
        /\ io # None => io[1] # np
    <3>1. Uses(np) = 0
      BY <1>1, <1>5 DEF IInv, RefExact
    <3> QED
      BY <3>1, Unused
  <2>3. np # q /\ content[q] = holds[s]
    BY <1>1, <2>2, q = slot[s] DEF DInv, InPage
  <2>4. /\ tag'[q] = None /\ tag'[np] = b /\ content'[q] = holds'[s]
        /\ \A r \in Pages \ {q, np} : tag'[r] = tag[r] /\ content'[r] = content[r]
    BY <1>1, <2>1, <2>3 DEF IInv, Types, PageTypes, SegTypes
  <2>5. \A t \in Segs \ {s} : holds'[t] = holds[t] /\ slot[t] # q
    BY <1>1, <2>1, q = slot[s] DEF IInv, Types, SegTypes, Alone
  <2>6. \A x \in Swaps : Found(chain, x) \in Pages \cup {None} /\ Found(chain, x) # q
    BY <1>1, FoundOther, KeysApart
  <2>7. /\ Short(chain')
        /\ \A x \in Swaps : Found(chain', x) = IF Found(chain, x) = np THEN None ELSE Found(chain, x)
    <3>1. PICK c : c = Off(chain, np)
      OBVIOUS
    <3>2. PICK d : d = Off(c, q)
      OBVIOUS
    <3>3. chain \in [Keys -> Seq(Pages)] /\ Short(chain)
      BY DEF DInv, FoundIs, IInv, Types, PageTypes
    <3>4. /\ c \in [Keys -> Seq(Pages)] /\ Short(c)
          /\ \A x \in Swaps : Found(c, x) = IF Found(chain, x) = np THEN None ELSE Found(chain, x)
      BY ONLY <1>1, <3>1, <3>3, ChainOps, FoundOff
    <3>5. /\ d \in [Keys -> Seq(Pages)] /\ Short(d)
          /\ \A x \in Swaps : Found(d, x) = IF Found(c, x) = q THEN None ELSE Found(c, x)
      BY ONLY <1>1, <3>2, <3>4, ChainOps, FoundOff
    <3>6. b \in Keys /\ b \notin Swaps
      BY <1>1, KeysApart
    <3>7. Short(On(d, np, b)) /\ \A x \in Swaps : Found(On(d, np, b), x) = IF x = b THEN np ELSE Found(d, x)
      BY ONLY <1>1, <3>5, <3>6, FoundOn
    <3>8. chain' = On(d, np, b) /\ q # None
      BY <1>1, <2>1, <3>1, <3>2, KeysApart
    <3>9. \A x \in Swaps : x # b
      BY <3>6
    <3> QED
      BY <2>6, <3>4, <3>5, <3>7, <3>8, <3>9
  <2>8. FoundIs'
    BY <2>4, <2>6, <2>7 DEF DInv, FoundIs
  <2>9. Going'
    BY <1>1, <2>2, <2>7 DEF DInv, Going, IInv, Types, PoolTypes
  <2>10. InPage'
    BY <1>1, <2>2, <2>4, <2>5, q = slot[s], KeysApart DEF DInv, InPage
  <2>11. OnSwap'
    BY <1>1, <2>4, <2>5, <2>6, <2>7, q = slot[s], KeysApart DEF DInv, OnSwap, Away
  <2>12. Text'
    BY <1>3, <2>5 DEF DInv, Text
  <2>13. PlaceAlone' /\ SharedAlone'
    BY <1>1 DEF DInv, PlaceAlone, SharedAlone, Alone
  <2>14. SharedPlace'
    BY <1>1, <2>7 DEF DInv, SharedPlace
  <2>15. NotText'
    BY <1>1, <2>1 DEF DInv, NotText, IInv, Types, ProcTypes
  <2>16. DupAlone'
    <3>1. ASSUME NEW r \in Procs, pc'[r] = "dup"
          PROVE  (\A z \in Segs : z # at'[r] => slot[z] # slot[at'[r]]) /\ tag'[slot[at'[r]]] \in Blocks
      <4>1. r # p /\ pc[r] = "dup" /\ at[r] \in Segs /\ at[r] # s /\ at'[r] = at[r]
        BY <1>1, <2>1, <3>1 DEF IInv, Types, ProcTypes, Located, Locked
      <4>2. slot[at[r]] \in Pages \ {q, np}
        BY <2>2, <2>5, <4>1 DEF IInv, PageLocked
      <4> QED
        BY <2>4, <4>1, <4>2 DEF DInv, DupAlone, Alone
    <3> QED
      BY <1>1, <3>1 DEF DupAlone, Alone
  <2>17. SlotTag'
    BY <1>1, <2>2, <2>4, <2>5, q = slot[s], KeysApart DEF DInv, SlotTag
  <2>18. Seeking'
    <3>1. \A r \in Procs \ {p} : pc'[r] = pc[r] /\ page'[r] = page[r] /\ key'[r] = key[r] /\ at'[r] = at[r]
      BY <1>1, <2>1 DEF IInv, Types, ProcTypes
    <3>2. key'[p] = None
      BY <2>1 DEF IInv, Types, ProcTypes
    <3>3. ASSUME NEW r \in Procs, key[r] \in Swaps, pc[r] = "relock"
          PROVE  page[r] \in Pages \ {q, np} /\ at[r] \in Segs \ {s}
      <4>1. at[r] \in Segs /\ page[r] \in Pages
        BY <3>3 DEF IInv, Types, ProcTypes, Located, Keyed
      <4>2. page[r] # q /\ page[r] # np
        BY <1>1, <2>2, <3>3, q = slot[s] DEF IInv, Own, Has
      <4>3. slot[at[r]] \in Swaps
        BY <3>3 DEF DInv, Seeking
      <4> QED
        BY <1>1, <4>1, <4>2, <4>3, q = slot[s], KeysApart
    <3>4. ASSUME NEW r \in Procs, pc[r] = "check", key[r] \in Swaps
          PROVE  Found(chain', key[r]) = IF tag'[page[r]] = key[r] THEN page[r] ELSE None
      <4>1. page[r] \in Pages
        BY <3>4 DEF IInv, Types, ProcTypes, Keyed
      <4>2. Found(chain, key[r]) = IF tag[page[r]] = key[r] THEN page[r] ELSE None
        BY <3>4 DEF DInv, Seeking
      <4> QED
        BY <1>1, <2>4, <2>6, <2>7, <3>4, <4>1, <4>2, KeysApart
    <3>5. \A r \in Procs : key[r] \in Swaps /\ Found(chain, key[r]) = None => Found(chain', key[r]) = None
      BY <2>7
    <3> QED
      BY <1>1, <2>4, <2>5, <3>1, <3>2, <3>3, <3>4, <3>5, KeysApart DEF DInv, Seeking
  <2> QED
    BY <2>8, <2>9, <2>10, <2>11, <2>12, <2>13, <2>14, <2>15, <2>16, <2>17, <2>18 DEF DInv
<1> QED
  BY <1>4, <1>5

LEMMA CopyKeeps ==
  ASSUME DInv, IInv, RefExact', NEW p \in Procs, Copy(p), NEW s, s = at[p], NEW q, q = slot[s],
         NEW np, np = page[p]
  PROVE  DInv'
<1>1. /\ s \in Segs /\ lk[s] = p /\ q \in Pages /\ pc[p] = "copy" /\ pc' = [pc EXCEPT ![p] = "user"]
      /\ key[p] = None /\ page' = [page EXCEPT ![p] = None] /\ key' = [key EXCEPT ![p] = None]
      /\ at' = [at EXCEPT ![p] = None] /\ slot' = [slot EXCEPT ![s] = np]
      /\ holds' = [holds EXCEPT ![s] = Stored(s, @)]
      /\ UNCHANGED <<tag, chain, swdata, io>>
  BY s = at[p], q = slot[s], np = page[p]
  DEF Copy, Goto, Rest, cache, swap, IInv, Types, SegTypes, Located, Locked, Keyed
<1>2. /\ np \in Pages /\ tag[np] = None /\ \A t \in Segs : slot[t] # np
      /\ \A r \in Procs : r # p /\ Has(r) => page[r] # np
      /\ \A x \in Swaps : Found(chain, x) # np
  BY <1>1, np = page[p], OwnPage DEF Has
<1>3. PICK c : c = [content EXCEPT ![np] = Stored(s, content[q])]
  OBVIOUS
<1>4. c \in [Pages -> Data] /\ c[np] = holds'[s] /\ \A r \in Pages \ {np} : c[r] = content[r]
  <2>1. content \in [Pages -> Data] /\ Stored(s, content[q]) \in Data
    BY <1>1, StoreType DEF IInv, Types, PageTypes
  <2>2. content[q] = holds[s]
    BY <1>1, q = slot[s] DEF DInv, InPage
  <2> QED
    BY <1>1, <1>2, <1>3, <2>1, <2>2 DEF IInv, Types, SegTypes
<1>5. /\ slot'[s] = np /\ \A t \in Segs \ {s} : slot'[t] = slot[t] /\ holds'[t] = holds[t]
      /\ np # q
  BY <1>1, <1>2, q = slot[s] DEF IInv, Types, SegTypes
<1>6. \A r \in Pages : content'[r] = c[r] \/ (r = q /\ tag[r] = None /\ \A t \in Segs : slot'[t] # r)
  <2>1. PutPage(q, 1, c) /\ ref \in [Pages -> Int]
    BY <1>3, s = at[p], q = slot[s], np = page[p] DEF Copy, IInv, Types, PageTypes
  <2> QED
    BY ONLY <1>1, <1>4, <2>1, RefExact', PutPageKeeps
<1>7. Kind[s] # "text"
  BY <1>1, s = at[p] DEF DInv, NotText
<1>8. \A x \in Swaps : Found(chain, x) \in Pages \cup {None} /\ (Found(chain, x) # None => tag[Found(chain, x)] = x)
  BY FoundOther DEF DInv, FoundIs
<1>9. FoundIs' /\ Going'
  BY <1>1 DEF DInv, FoundIs, Going
<1>10. InPage'
  BY <1>2, <1>4, <1>5, <1>6, KeysApart DEF DInv, InPage
<1>11. OnSwap'
  <2>1. \A x \in Swaps : Found(chain, x) # None => content'[Found(chain, x)] = content[Found(chain, x)]
    BY <1>2, <1>4, <1>6, <1>8, KeysApart
  <2> QED
    BY <1>1, <1>2, <1>5, <2>1, KeysApart DEF DInv, OnSwap, Away
<1>12. Text'
  BY <1>5, <1>7 DEF DInv, Text
<1>13. PlaceAlone' /\ SharedAlone'
  BY <1>2, <1>5, KeysApart DEF DInv, PlaceAlone, SharedAlone, Alone
<1>14. SharedPlace'
  BY <1>1, <1>2, <1>5, KeysApart DEF DInv, SharedPlace
<1>15. NotText'
  BY <1>1 DEF DInv, NotText, IInv, Types, ProcTypes
<1>16. DupAlone'
  <2>1. ASSUME NEW r \in Procs, pc'[r] = "dup"
        PROVE  (\A z \in Segs : z # at'[r] => slot'[z] # slot'[at'[r]]) /\ tag'[slot'[at'[r]]] \in Blocks
    <3>1. r # p /\ pc[r] = "dup" /\ at[r] \in Segs /\ at[r] # s /\ at'[r] = at[r]
      BY <1>1, <2>1 DEF IInv, Types, ProcTypes, Located, Locked
    <3> QED
      BY <1>1, <1>2, <1>5, <3>1 DEF DInv, DupAlone, Alone
  <2> QED
    BY <2>1 DEF DupAlone, Alone
<1>17. SlotTag'
  BY <1>1, <1>2, <1>5, KeysApart DEF DInv, SlotTag
<1>18. Seeking'
  <2>1. \A r \in Procs \ {p} : pc'[r] = pc[r] /\ page'[r] = page[r] /\ key'[r] = key[r] /\ at'[r] = at[r]
    BY <1>1 DEF IInv, Types, ProcTypes
  <2>2. key'[p] = None
    BY <1>1 DEF IInv, Types, ProcTypes
  <2>3. ASSUME NEW r \in Procs, key[r] \in Swaps, pc[r] # "check" PROVE at[r] \in Segs \ {s}
    BY <1>1, <2>3, q = slot[s], KeysApart DEF DInv, Seeking, IInv, Located, Keyed
  <2>4. ASSUME NEW r \in Procs, r # p, key[r] \in Swaps, pc[r] = "relock"
        PROVE  content'[page[r]] = content[page[r]]
    <3>1. page[r] \in Pages /\ page[r] # q /\ page[r] # np
      BY <1>1, <1>2, <2>4, q = slot[s] DEF IInv, Types, ProcTypes, Keyed, Own, Has
    <3> QED
      BY <1>4, <1>6, <3>1
  <2> QED
    BY <1>1, <1>5, <2>1, <2>2, <2>3, <2>4, KeysApart DEF DInv, Seeking
<1> QED
  BY <1>9, <1>10, <1>11, <1>12, <1>13, <1>14, <1>15, <1>16, <1>17, <1>18 DEF DInv

(* What goes back to the list is in no segment, nor is a copy, if it       *)
(* changes at all.                                                         *)
LEMMA FreeSegKeeps ==
  ASSUME DInv, IInv, RefExact', NEW s \in Segs, FreeSeg(s), NEW v, v = slot[s]
  PROVE  DInv'
<1>1. /\ \A p \in Procs : at[p] # s
      /\ slot' = [slot EXCEPT ![s] = None] /\ holds' = [holds EXCEPT ![s] = Fresh(Block[s])]
      /\ UNCHANGED <<pc, at, key, page, tag, chain, io>>
      /\ \/ v \in Pages /\ PutPage(v, 1, content) /\ swdata' = swdata
         \/ v \in Swaps /\ PutSwap(v) /\ content' = content
  <2>1. /\ \A p \in Procs : at[p] # s
        /\ v \in Pages \cup Swaps
    BY v = slot[s], NobodyIn DEF FreeSeg, IInv, Types, SegTypes
  <2> QED
    BY <2>1, v = slot[s] DEF FreeSeg, PutSwap, proc, cache, swap
<1>2. /\ slot'[s] = None /\ holds'[s] = Fresh(Block[s])
      /\ \A t \in Segs \ {s} : slot'[t] = slot[t] /\ holds'[t] = holds[t]
  BY <1>1 DEF IInv, Types, SegTypes
<1>3. \A r \in Pages : content'[r] = content[r] \/ (tag[r] = None /\ \A t \in Segs : slot'[t] # r)
  <2>1. content \in [Pages -> Data] /\ ref \in [Pages -> Int]
    BY DEF IInv, Types, PageTypes
  <2>2. CASE v \in Pages /\ PutPage(v, 1, content)
    BY ONLY <2>1, <2>2, RefExact', PutPageKeeps, SMTT(60)
  <2>3. CASE content' = content
    BY <2>3
  <2> QED
    BY ONLY <1>1, <2>2, <2>3
<1>4. \A x \in Swaps : swdata'[x] = swdata[x] \/ \A t \in Segs : slot'[t] # x
  <2>1. swdata \in [Swaps -> Data]
    BY DEF IInv, Types, PoolTypes
  <2> QED
    BY <1>1, <2>1, RefExact', PutSwapKeeps, SMTT(60)
<1>5. \A x \in Swaps : Found(chain, x) \in Pages \cup {None} /\ (Found(chain, x) # None => tag[Found(chain, x)] = x)
  BY FoundOther DEF DInv, FoundIs
<1>6. \A x \in Swaps : Found(chain, x) # None => content'[Found(chain, x)] = content[Found(chain, x)]
  BY <1>3, <1>5, KeysApart
<1>7. FoundIs' /\ Going' /\ NotText'
  BY <1>1 DEF DInv, FoundIs, Going, NotText
<1>8. InPage'
  BY <1>2, <1>3, KeysApart DEF DInv, InPage
<1>9. OnSwap'
  BY <1>1, <1>2, <1>4, <1>6, KeysApart DEF DInv, OnSwap, Away
<1>10. Text'
  BY <1>2 DEF DInv, Text
<1>11. PlaceAlone' /\ SharedAlone'
  BY <1>2, KeysApart DEF DInv, PlaceAlone, SharedAlone, Alone
<1>12. SharedPlace'
  BY <1>1, <1>2, <1>5, KeysApart DEF DInv, SharedPlace
<1>13. DupAlone'
  <2>1. ASSUME NEW r \in Procs, pc[r] = "dup"
        PROVE  (\A z \in Segs : z # at[r] => slot'[z] # slot'[at[r]]) /\ tag[slot'[at[r]]] \in Blocks
    <3>1. at[r] \in Segs \ {s} /\ slot[at[r]] \in Pages
      BY <1>1, <2>1 DEF IInv, Located, PageLocked
    <3> QED
      BY <1>2, <2>1, <3>1, KeysApart DEF DInv, DupAlone, Alone
  <2> QED
    BY <1>1, <2>1 DEF DupAlone, Alone
<1>14. SlotTag'
  BY <1>1, <1>2, KeysApart DEF DInv, SlotTag
<1>15. Seeking'
  <2>1. \A r \in Procs : key[r] \in Swaps => at[r] \in Segs \ {s}
    BY <1>1, KeysApart DEF IInv, Located, Keyed
  <2>2. ASSUME NEW r \in Procs, key[r] \in Swaps, pc[r] = "relock" PROVE content'[page[r]] = content[page[r]]
    <3>1. page[r] \in Pages /\ page[r] # v
      BY <2>2, v = slot[s] DEF IInv, Types, ProcTypes, Keyed, Own, Has
    <3>2. CASE v \in Pages /\ PutPage(v, 1, content)
      BY <3>1, <3>2 DEF PutPage, IInv, Types, PageTypes
    <3>3. CASE content' = content
      BY <3>3
    <3> QED
      BY ONLY <1>1, <3>2, <3>3
  <2> QED
    BY <1>1, <1>2, <2>1, <2>2 DEF DInv, Seeking
<1> QED
  BY <1>7, <1>8, <1>9, <1>10, <1>11, <1>12, <1>13, <1>14, <1>15 DEF DInv

LEMMA PageOutTextKeeps ==
  ASSUME DInv, IInv, RefExact', NEW s \in Segs, PageOutText(s), NEW v, v = slot[s]
  PROVE  DInv'
<1>1. /\ v \in Pages /\ Kind[s] = "text" /\ lk[s] = None
      /\ slot' = [slot EXCEPT ![s] = None] /\ PutPage(v, 1, content)
      /\ UNCHANGED <<pc, at, key, page, holds, tag, chain, swdata, io>>
  BY v = slot[s] DEF PageOutText, MayPage, proc, cache, swap
<1>2. slot'[s] = None /\ \A t \in Segs \ {s} : slot'[t] = slot[t]
  BY <1>1 DEF IInv, Types, SegTypes
<1>3. \A r \in Pages : content'[r] = content[r] \/ (tag[r] = None /\ \A t \in Segs : slot'[t] # r)
  <2>1. content \in [Pages -> Data] /\ ref \in [Pages -> Int]
    BY DEF IInv, Types, PageTypes
  <2> QED
    BY <1>1, <2>1, RefExact', PutPageKeeps, SMTT(60)
<1>4. \A x \in Swaps : Found(chain, x) \in Pages \cup {None} /\ (Found(chain, x) # None => tag[Found(chain, x)] = x)
  BY FoundOther DEF DInv, FoundIs
<1>5. \A x \in Swaps : Found(chain, x) # None => content'[Found(chain, x)] = content[Found(chain, x)]
  BY <1>3, <1>4, KeysApart
<1>6. FoundIs' /\ Going' /\ NotText' /\ Text'
  BY <1>1 DEF DInv, FoundIs, Going, NotText, Text
<1>7. InPage'
  BY <1>1, <1>2, <1>3, KeysApart DEF DInv, InPage, Text
<1>8. OnSwap'
  BY <1>1, <1>2, <1>5, KeysApart DEF DInv, OnSwap, Away
<1>9. PlaceAlone' /\ SharedAlone'
  BY <1>2, KeysApart DEF DInv, PlaceAlone, SharedAlone, Alone
<1>10. SharedPlace'
  BY <1>1, <1>2, <1>4, KeysApart DEF DInv, SharedPlace
<1>11. DupAlone'
  <2>1. ASSUME NEW r \in Procs, pc[r] = "dup"
        PROVE  (\A z \in Segs : z # at[r] => slot'[z] # slot'[at[r]]) /\ tag[slot'[at[r]]] \in Blocks
    <3>1. at[r] \in Segs \ {s} /\ slot[at[r]] \in Pages
      BY <1>1, <2>1, KeysApart DEF IInv, Located, Locked, PageLocked
    <3> QED
      BY <1>2, <2>1, <3>1, KeysApart DEF DInv, DupAlone, Alone
  <2> QED
    BY <1>1, <2>1 DEF DupAlone, Alone
<1>12. SlotTag'
  BY <1>1, <1>2, KeysApart DEF DInv, SlotTag
<1>13. Seeking'
  <2>1. \A r \in Procs : key[r] \in Swaps => at[r] \in Segs \ {s}
    BY <1>1, KeysApart DEF IInv, Located, Keyed
  <2>2. ASSUME NEW r \in Procs, key[r] \in Swaps, pc[r] = "relock" PROVE content'[page[r]] = content[page[r]]
    <3>1. page[r] \in Pages /\ page[r] # v
      BY <2>2, v = slot[s] DEF IInv, Types, ProcTypes, Keyed, Own, Has
    <3> QED
      BY <1>1, <3>1 DEF PutPage, IInv, Types, PageTypes
  <2> QED
    BY <1>1, <1>2, <2>1, <2>2 DEF DInv, Seeking
<1> QED
  BY <1>6, <1>7, <1>8, <1>9, <1>10, <1>11, <1>12, <1>13 DEF DInv

LEMMA ForkKeeps ==
  ASSUME DInv, IInv, PagedApart, NEW s \in Segs, NEW z \in Child[s], Fork(s, z), NEW v, v = slot[s]
  PROVE  DInv'
<1>1. /\ z \in Segs \ {s} /\ Block[z] = Block[s] /\ Kind[s] \in {"data", "bss"} /\ Kind[z] = Kind[s]
  BY PageAssumption
<1>2. Swaps = {}
  BY DEF PagedApart
<1>3. /\ v \in Pages /\ plock[v] = None /\ \A p \in Procs : at[p] # s /\ at[p] # z
      /\ slot' = [slot EXCEPT ![z] = v] /\ holds' = [holds EXCEPT ![z] = holds[s]]
      /\ UNCHANGED <<pc, at, key, page, tag, chain, content, swdata, io>>
  <2>1. v \in Pages
    BY <1>2, v = slot[s] DEF Fork, IInv, Types, SegTypes
  <2>2. \A p \in Procs : at[p] # s /\ at[p] # z
    BY <1>1, NobodyIn DEF Fork, IInv
  <2> QED
    BY <2>1, <2>2, v = slot[s] DEF Fork, proc, cache, swap
<1>4. /\ slot'[z] = v /\ holds'[z] = holds[s]
      /\ \A t \in Segs \ {z} : slot'[t] = slot[t] /\ holds'[t] = holds[t]
  BY <1>1, <1>3 DEF IInv, Types, SegTypes
<1>5. FoundIs' /\ Going' /\ NotText'
  BY <1>3 DEF DInv, FoundIs, Going, NotText
<1>6. InPage'
  BY <1>1, <1>3, <1>4, v = slot[s], KeysApart DEF DInv, InPage
<1>7. OnSwap' /\ PlaceAlone' /\ SharedPlace'
  BY <1>2 DEF OnSwap, PlaceAlone, SharedPlace
<1>8. Text'
  BY <1>1, <1>4 DEF DInv, Text
<1>9. SharedAlone'
  <2> SUFFICES ASSUME NEW t \in Segs, Kind[t] \in {"shared", "shdata"}, slot'[t] \in Pages
               PROVE  \A y \in Segs : y # t => slot'[y] # slot'[t]
    BY DEF SharedAlone, Alone
  <2>1. t # z /\ t # s
    BY <1>1
  <2> QED
    BY <1>4, <2>1, v = slot[s] DEF DInv, SharedAlone, Alone
<1>10. DupAlone'
  <2>1. ASSUME NEW r \in Procs, pc[r] = "dup"
        PROVE  (\A y \in Segs : y # at[r] => slot'[y] # slot'[at[r]]) /\ tag[slot'[at[r]]] \in Blocks
    <3>1. at[r] \in Segs \ {s, z} /\ slot[at[r]] # v
      BY <1>3, <2>1, KeysApart DEF IInv, Located, PageLocked
    <3> QED
      BY <1>4, <2>1, <3>1 DEF DInv, DupAlone, Alone
  <2> QED
    BY <1>3, <2>1 DEF DupAlone, Alone
<1>11. SlotTag'
  BY <1>1, <1>3, <1>4, v = slot[s] DEF DInv, SlotTag
<1>12. Seeking'
  BY <1>2, <1>3 DEF DInv, Seeking
<1> QED
  BY <1>5, <1>6, <1>7, <1>8, <1>9, <1>10, <1>11, <1>12 DEF DInv

LEMMA PageOutKeeps ==
  ASSUME DInv, IInv, NEW s \in Segs, PageOut(s), NEW q, q = slot[s]
  PROVE  DInv'
<1>1. PICK x \in Swaps : /\ MayPage(s) /\ Kind[s] \in {"data", "bss", "shared"} /\ swref[x] = 0
                         /\ Recached(q, x) /\ slot' = [slot EXCEPT ![s] = x] /\ io' = <<q, x>>
                         /\ UNCHANGED <<pc, proc, lk, holds, plock, content, free, swdata>>
  BY q = slot[s] DEF PageOut
<1>2. /\ q \in Pages /\ plock[q] = None /\ lk[s] = None /\ io = None /\ tag' = [tag EXCEPT ![q] = x]
      /\ UNCHANGED <<pc, at, key, page>>
  BY <1>1, q = slot[s] DEF MayPage, Recached, proc
<1>3. /\ Short(chain')
      /\ \A y \in Swaps : Found(chain', y) = IF y = x THEN q
                                             ELSE IF Found(chain, y) = q THEN None ELSE Found(chain, y)
  <2>1. Types /\ Short(chain)
    BY DEF IInv, DInv, FoundIs
  <2> QED
    BY <1>1, <1>2, <2>1, FoundRecached
<1>4. /\ slot'[s] = x /\ \A t \in Segs \ {s} : slot'[t] = slot[t]
      /\ tag'[q] = x /\ \A r \in Pages \ {q} : tag'[r] = tag[r]
  BY <1>1, <1>2 DEF IInv, Types, SegTypes, PageTypes
<1>5. \A t \in Segs : slot[t] # x
  <2>1. IsFiniteSet(SegsOf(x)) /\ Cardinality(SegsOf(x)) = 0
    BY <1>1, UsesAre DEF IInv, RefExact, SegsOf
  <2>2. SegsOf(x) = {}
    BY <2>1, FS_EmptySet
  <2> QED
    BY <2>2 DEF SegsOf
<1>6. \A y \in Swaps : Found(chain, y) \in Pages \cup {None} /\ (Found(chain, y) # None => tag[Found(chain, y)] = y)
  BY FoundOther DEF DInv, FoundIs
<1>7. content[q] = holds[s]
  BY <1>2, q = slot[s] DEF DInv, InPage
<1>8. FoundIs'
  BY <1>2, <1>3, <1>4, <1>6 DEF FoundIs
<1>9. Going'
  BY <1>1, <1>3 DEF Going
<1>10. InPage'
  BY <1>1, <1>2, <1>4, KeysApart DEF DInv, InPage
<1>11. OnSwap'
  <2>1. ASSUME NEW t \in Segs \ {s}, slot[t] \in Swaps
        PROVE  /\ Found(chain', slot[t]) # None => content[Found(chain', slot[t])] = holds[t]
               /\ swdata[slot[t]] = holds[t]
    BY <1>2, <1>3, <1>5, <2>1 DEF DInv, OnSwap, Away
  <2>2. Found(chain', x) = q /\ io'[2] = x
    BY <1>1, <1>3
  <2>3. ASSUME NEW t \in Segs, slot'[t] \in Swaps
        PROVE  /\ Found(chain', slot'[t]) # None => content[Found(chain', slot'[t])] = holds[t]
               /\ io'[2] # slot'[t] => swdata[slot'[t]] = holds[t]
    <3>1. CASE t = s
      BY <1>4, <1>7, <2>2, <3>1
    <3>2. CASE t # s
      BY <1>4, <2>1, <2>3, <3>2
    <3> QED
      BY <3>1, <3>2
  <2>4. /\ OnSwap' <=> \A t \in Segs : slot'[t] \in Swaps => Away(t)'
        /\ io' # None
    <3>1. None \notin Pages \X Swaps /\ <<q, x>> \in Pages \X Swaps
      BY <1>2, KeysApart
    <3>2. io' # None
      BY <1>1, <3>1
    <3> QED
      BY <3>2 DEF OnSwap
  <2>5. ASSUME NEW t \in Segs, slot'[t] \in Swaps PROVE Away(t)'
    BY <1>1, <2>3, <2>4, <2>5 DEF Away
  <2> QED
    BY <2>4, <2>5
<1>12. PlaceAlone' /\ SharedAlone'
  BY <1>1, <1>4, <1>5, KeysApart DEF DInv, PlaceAlone, SharedAlone, Alone
<1>13. SharedPlace'
  <2> SUFFICES ASSUME NEW t \in Segs, NEW y \in Swaps, Kind[t] = "shared", Found(chain', y) # None
               PROVE  /\ slot'[t] = Found(chain', y) => \A z \in Segs : slot'[z] # y
                      /\ slot'[t] = y => \A z \in Segs : slot'[z] # Found(chain', y)
    BY DEF SharedPlace
  <2>1. CASE y = x
    <3>1. Found(chain', y) = q
      BY <1>3, <2>1
    <3>2. x # q
      BY <1>2, KeysApart
    <3>3. slot'[t] # q
      BY <1>2, <1>4, <3>2, q = slot[s] DEF DInv, SharedAlone, Alone
    <3>4. slot'[t] = x => t = s
      BY <1>4, <1>5
    <3>5. t = s => \A z \in Segs : slot'[z] # q
      BY <1>2, <1>4, <3>2, q = slot[s] DEF DInv, SharedAlone, Alone
    <3> QED
      BY <2>1, <3>1, <3>3, <3>4, <3>5
  <2>2. CASE y # x
    <3>1. Found(chain', y) = Found(chain, y) /\ Found(chain, y) \in Pages
      BY <1>3, <1>6, <2>2
    <3>2. /\ slot[t] = Found(chain, y) => \A z \in Segs : slot[z] # y
          /\ slot[t] = y => \A z \in Segs : slot[z] # Found(chain, y)
      BY <3>1, KeysApart DEF DInv, SharedPlace
    <3>3. x # Found(chain, y)
      BY <3>1, KeysApart
    <3> QED
      BY <1>4, <2>2, <3>1, <3>2, <3>3
  <2> QED
    BY <2>1, <2>2
<1>14. Text' /\ NotText'
  BY <1>1, <1>2 DEF DInv, Text, NotText
<1>15. DupAlone'
  <2>1. ASSUME NEW r \in Procs, pc[r] = "dup"
        PROVE  (\A z \in Segs : z # at[r] => slot'[z] # slot'[at[r]]) /\ tag'[slot'[at[r]]] \in Blocks
    <3>1. at[r] \in Segs \ {s} /\ slot[at[r]] \in Pages \ {q}
      BY <1>2, <2>1, KeysApart DEF IInv, Located, Locked, PageLocked
    <3> QED
      BY <1>4, <2>1, <3>1, KeysApart DEF DInv, DupAlone, Alone
  <2> QED
    BY <1>2, <2>1 DEF DupAlone, Alone
<1>16. SlotTag'
  <2>1. ASSUME NEW t \in Segs \ {s}, slot[t] = q PROVE Kind[t] # "shdata"
    BY <1>2, <2>1, q = slot[s] DEF DInv, SharedAlone, Alone
  <2> QED
    BY <1>1, <1>2, <1>4, <2>1, KeysApart DEF DInv, SlotTag
<1>17. Seeking'
  <2>1. ASSUME NEW r \in Procs, key[r] \in Swaps
        PROVE  at[r] \in Segs \ {s} /\ slot[at[r]] = key[r] /\ key[r] # x
    <3>1. at[r] \in Segs /\ slot[at[r]] = key[r]
      BY <2>1, KeysApart DEF DInv, Seeking, IInv, Located, Keyed
    <3> QED
      BY <1>2, <1>5, <2>1, <3>1, q = slot[s], KeysApart
  <2>2. ASSUME NEW r \in Procs, pc[r] = "check", key[r] \in Swaps
        PROVE  Found(chain', key[r]) = IF tag'[page[r]] = key[r] THEN page[r] ELSE None
    <3>1. page[r] \in Pages /\ key[r] # x
      BY <2>1, <2>2 DEF IInv, Types, ProcTypes, Keyed
    <3>2. Found(chain, key[r]) = IF tag[page[r]] = key[r] THEN page[r] ELSE None
      BY <2>2 DEF DInv, Seeking
    <3> QED
      BY <1>3, <1>4, <2>2, <3>1, <3>2
  <2>3. \A r \in Procs : key[r] \in Swaps /\ Found(chain, key[r]) = None => Found(chain', key[r]) = None
    BY <1>3, <2>1
  <2>4. \A r \in Procs : key[r] \in Swaps => slot'[at[r]] = key[r]
    BY <1>4, <2>1
  <2> QED
    BY <1>1, <1>2, <2>1, <2>2, <2>3, <2>4 DEF DInv, Seeking
<1> QED
  BY <1>8, <1>9, <1>10, <1>11, <1>12, <1>13, <1>14, <1>15, <1>16, <1>17 DEF DInv

LEMMA ExecuteIOKeeps ==
  ASSUME DInv, IInv, RefExact', ExecuteIO, NEW q, q = io[1], NEW x, x = io[2]
  PROVE  DInv'
<1>1. /\ io # None /\ io' = None /\ q \in Pages /\ x \in Swaps
      /\ PutPage(q, 2, content) /\ swdata' = OnDevice([swdata EXCEPT ![x] = content[q]], x)
      /\ UNCHANGED <<pc, at, key, page, slot, holds, tag, chain>>
  BY q = io[1], x = io[2] DEF ExecuteIO, proc, cache, IInv, Types, PoolTypes
<1>2. Found(chain, x) = q /\ tag[q] = x
  BY <1>1, q = io[1], x = io[2], KeysApart DEF DInv, Going, FoundIs
<1>3. content' = content
  BY <1>1, <1>2, KeysApart DEF PutPage
<1>4. \A y \in Swaps : \/ swdata'[y] = IF y = x THEN content[q] ELSE swdata[y]
                       \/ \A t \in Segs : slot[t] # y
  <2>1. swref'[x] = 0 => \A t \in Segs : slot[t] # x
    BY <1>1, RefExact', UnusedNext
  <2>2. swdata \in [Swaps -> Data]
    BY DEF IInv, Types, PoolTypes
  <2> QED
    BY <1>1, <2>1, <2>2 DEF OnDevice
<1>5. FoundIs' /\ InPage' /\ Text' /\ NotText' /\ PlaceAlone' /\ SharedAlone' /\ SharedPlace'
      /\ DupAlone' /\ SlotTag' /\ Seeking'
  BY <1>1, <1>3 DEF DInv, FoundIs, InPage, Text, NotText, PlaceAlone, SharedAlone, SharedPlace, Alone,
                    DupAlone, SlotTag, Seeking
<1>6. Going'
  BY <1>1 DEF Going
<1>7. OnSwap'
  <2>1. ASSUME NEW t \in Segs, slot[t] \in Swaps
        PROVE  /\ Found(chain, slot[t]) # None => content[Found(chain, slot[t])] = holds[t]
               /\ slot[t] # x => swdata[slot[t]] = holds[t]
    BY <1>1, <2>1, x = io[2] DEF DInv, OnSwap, Away
  <2>2. q # None
    BY <1>1, KeysApart
  <2>3. ASSUME NEW t \in Segs, slot[t] \in Swaps
        PROVE  /\ Found(chain, slot[t]) # None => content[Found(chain, slot[t])] = holds[t]
               /\ swdata'[slot[t]] = holds[t]
    <3>1. swdata'[slot[t]] = IF slot[t] = x THEN content[q] ELSE swdata[slot[t]]
      BY <1>4, <2>3
    <3> QED
      BY <1>2, <2>1, <2>2, <2>3, <3>1
  <2> QED
    BY <1>1, <1>3, <2>3 DEF OnSwap, Away
<1> QED
  BY <1>5, <1>6, <1>7 DEF DInv

LEMMA DataInit == Init => DInv
<1> SUFFICES ASSUME Init PROVE DInv
  OBVIOUS
<1>1. \A x \in Swaps : Found(chain, x) = None
  BY KeysApart DEF Init, Found
<1>2. Short(chain)
  <2>1. Len(<<>>) = 0
    OBVIOUS
  <2> QED
    BY <2>1, KeysApart DEF Init, Short
<1>3. \A s \in Segs : slot[s] = None /\ holds[s] = Fresh(Block[s])
  BY DEF Init
<1>4. \A p \in Procs : pc[p] = "user" /\ key[p] = None
  BY DEF Init
<1>5. io = None
  BY DEF Init
<1>6. FoundIs /\ Going
  BY <1>1, <1>2, <1>5 DEF FoundIs, Going
<1>7. InPage /\ OnSwap /\ Text /\ PlaceAlone /\ SharedAlone /\ SharedPlace /\ SlotTag
  BY <1>1, <1>3, KeysApart DEF InPage, OnSwap, Text, PlaceAlone, SharedAlone, SharedPlace, SlotTag
<1>8. NotText /\ DupAlone /\ Seeking
  BY <1>4, KeysApart DEF NotText, DupAlone, Seeking
<1> QED
  BY <1>6, <1>7, <1>8 DEF DInv

LEMMA DataStutter ==
  ASSUME DInv, UNCHANGED vars
  PROVE  DInv'
<1>1. UNCHANGED <<pc, at, key, page, slot, holds, content, tag, chain, swdata, io>>
  BY DEF vars, proc, cache, swap
<1>2. NotText' /\ DupAlone' /\ Seeking'
  BY <1>1 DEF DInv, NotText, DupAlone, Alone, Seeking
<1> QED
  BY <1>1, <1>2, MemorySame DEF DInv

LEMMA FaultKeeps ==
  ASSUME DInv, IInv, NEW p \in Procs, NEW s \in Segs, NEW w \in BOOLEAN, Fault(p, s, w)
  PROVE  DInv'
BY EnterKeeps DEF Fault

LEMMA AgainKeeps ==
  ASSUME DInv, IInv, NEW p \in Procs, Again(p)
  PROVE  DInv'
<1>1. /\ pc[p] = "fault" /\ Enter(p, at[p], "fault") /\ at[p] \in Segs
      /\ at' = [at EXCEPT ![p] = at[p]]
  BY DEF Again, IInv, Located, Types, ProcTypes
<1> QED
  BY <1>1, EnterKeeps

LEMMA ResolveKeeps ==
  ASSUME DInv, IInv, RefExact', SharedApart, PagedApart, NEW p \in Procs, Resolve(p)
  PROVE  DInv'
<1>1. CASE Check(p)
  BY <1>1, CheckKeeps, CheckMissKeeps
<1>2. CASE Claim(p)
  BY <1>2, ClaimKeeps, ClaimStolenKeeps
<1>3. CASE Relock(p)
  BY <1>3, RelockKeeps, LostKeeps
<1>4. CASE Again(p) \/ Take(p) \/ LetGo(p) \/ Load(p) \/ LoadFails(p)
  BY <1>4, AgainKeeps, TakeKeeps, LetGoKeeps, LoadKeeps, LoadFailsKeeps
<1>5. CASE \/ Fill(p) \/ Read(p) \/ InShared(p) \/ Split(p) \/ Modify(p) \/ Dup(p) \/ Dupped(p) \/ Copy(p)
  BY <1>5, FillKeeps, ReadKeeps, InSharedKeeps, SplitKeeps, ModifyKeeps, DupKeeps, DuppedKeeps, CopyKeeps
<1> QED
  BY <1>1, <1>2, <1>3, <1>4, <1>5 DEF Resolve

LEMMA DataInductive ==
  ASSUME SharedApart, PagedApart, DInv, IInv, IInv', [Next]_vars
  PROVE  DInv'
<1>1. RefExact'
  BY DEF IInv
<1>2. CASE \E p \in Procs : Resolve(p) \/ \E s \in Segs, w \in BOOLEAN : Fault(p, s, w)
  BY <1>1, <1>2, ResolveKeeps, FaultKeeps
<1>3. CASE \E s \in Segs : FreeSeg(s) \/ PageOutText(s) \/ PageOut(s) \/ \E z \in Child[s] : Fork(s, z)
  BY <1>1, <1>3, FreeSegKeeps, PageOutTextKeeps, PageOutKeeps, ForkKeeps
<1>4. CASE ExecuteIO
  BY <1>1, <1>4, ExecuteIOKeeps
<1>5. CASE UNCHANGED vars
  BY <1>5, DataStutter
<1> QED
  BY <1>2, <1>3, <1>4, <1>5 DEF Next

(* What a process reads in a segment is what was written there last, or    *)
(* what the segment was loaded from, however pages move between segments,  *)
(* the cache, the list and the device meanwhile (fault.c:43-266,           *)
(* page.c:207-259, swap.c:231-335): for every system in which no SHDATA    *)
(* segment has a program's pages in common with another, and which does    *)
(* not page, or pages only what one process at a time faults in and no     *)
(* fork has copied.                                                        *)
THEOREM DataRight ==
  ASSUME SharedApart, PagedApart
  PROVE  Spec => []DataIsRight
<1>1. IInv /\ DInv => DataIsRight
  <2> SUFFICES ASSUME IInv, DInv, NEW s \in Segs
               PROVE  \/ slot[s] = None /\ holds[s] = Fresh(Block[s])
                      \/ slot[s] \in Pages /\ content[slot[s]] = holds[s]
                      \/ /\ slot[s] \in Swaps
                         /\ holds[s] = IF chain[slot[s]] = <<>> THEN swdata[slot[s]]
                                                               ELSE content[Head(chain[slot[s]])]
    BY DEF DataIsRight
  <2>1. CASE slot[s] \notin Swaps
    BY <2>1 DEF DInv, InPage, IInv, Types, SegTypes
  <2>2. CASE slot[s] \in Swaps
    <3>1. Found(chain, slot[s]) = None <=> chain[slot[s]] = <<>>
      BY <2>2, FoundType DEF IInv, Types, PageTypes
    <3>2. Found(chain, slot[s]) # None => Found(chain, slot[s]) = Head(chain[slot[s]])
      BY DEF Found
    <3>3. Found(chain, slot[s]) = None => io = None \/ io[2] # slot[s]
      BY KeysApart DEF DInv, Going, IInv, Types, PoolTypes
    <3> QED
      BY <2>2, <3>1, <3>2, <3>3 DEF DInv, OnSwap, Away
  <2> QED
    BY <2>1, <2>2
<1>2. Init => IInv /\ DInv
  BY InitHolds, DataInit
<1>3. IInv /\ DInv /\ [Next]_vars => (IInv /\ DInv)'
  BY Inductive, DataInductive
<1> QED
  BY <1>1, <1>2, <1>3, PTL DEF Spec
===============================================================================
