---------------------------------- MODULE Page ----------------------------------
(***************************************************************************)
(* Physical pages: the free list that is also a cache of what files and    *)
(* the swap device hold (port/page.c), page faults with demand load and    *)
(* copy on write (port/fault.c), and the pager (port/swap.c).              *)
(*                                                                         *)
(* A segment is one page of memory, and a page two words: one that tells   *)
(* in which segment it was written last, and the rest, which must come     *)
(* from where the page was loaded.                                         *)
(* The sections that hold palloc or palloc.hashlock are single steps.  The *)
(* lock of a page is a variable: duppage keeps it while it takes others.   *)
(***************************************************************************)
EXTENDS Integers, Sequences, FiniteSets

CONSTANTS Procs, Pages,
          Segs, Users, Kind, Block, \* a segment's processes, its type, what it starts with
          Child,                    \* and the segments that a fork may make of it
          Swaps,                    \* places on the swap device
          Highwater, Headroom,      \* of swapalloc
          Word,                     \* 2^32 of the unsigned freecount
          None

Blocks == {Block[s] : s \in Segs}
Keys   == Blocks \cup Swaps

ASSUME PageAssumption ==
    /\ \A s \in Segs : Users[s] \subseteq Procs /\ Kind[s] \in {"text", "data", "shdata", "bss", "shared"}
    /\ \A s \in Segs : \A z \in Child[s] : /\ z \in Segs \ {s} /\ Block[z] = Block[s]
                                          /\ Kind[s] \in {"data", "bss"} /\ Kind[z] = Kind[s]
    /\ Highwater \in Nat /\ Headroom \in Nat /\ Word \in Nat /\ Word > Cardinality(Pages)
    /\ None \notin Procs \cup Pages \cup Swaps \cup Segs \cup Blocks \cup (Pages \X Swaps)
    /\ Swaps \cap (Pages \cup Blocks) = {}
    /\ IsFiniteSet(Procs) /\ IsFiniteSet(Segs) /\ IsFiniteSet(Pages) /\ Pages # {}

VARIABLES pc, at, write,    \* of each process: the segment it faults in, and for what
          key, page         \* what it looks for, and the page it has in hand
VARIABLES lk, slot, holds   \* of each segment: s->lk, its page table entry, what it should hold
VARIABLES ref, tag,         \* of each page: what it is a copy of
          plock, content,
          chain             \* the hash table: of what it finds pages of, the newest first
VARIABLES list, freecount   \* of palloc
VARIABLES swref, swdata, io \* swapalloc.swmap, the device, and the pager's one transaction

proc  == <<at, write, key, page>>
cache == <<tag, chain>>
free  == <<list, freecount>>
swap  == <<swref, swdata, io>>
vars  == <<pc, proc, lk, slot, holds, ref, cache, plock, content, free, swap>>

Fresh(b) == <<b, None>>
Junk     == Fresh(None)       \* what nothing has been read into
Data     == (Blocks \cup {None}) \X (Segs \cup {None})

(* Types, and whose lock is held when.                                     *)
TypeOK ==
    /\ pc \in [Procs -> {"user", "fault", "check", "take", "claim", "load", "relock",
                         "map", "dup", "copy"}]
    /\ at \in [Procs -> Segs \cup {None}] /\ write \in [Procs -> BOOLEAN]
    /\ key \in [Procs -> Keys \cup {None}] /\ page \in [Procs -> Pages \cup {None}]
    /\ lk \in [Segs -> Procs \cup {None}] /\ plock \in [Pages -> Procs \cup {None}]
    /\ slot \in [Segs -> Pages \cup Swaps \cup {None}] /\ holds \in [Segs -> Data]
    /\ ref \in [Pages -> 0..(Cardinality(Segs) + Cardinality(Procs) + 2)]
    /\ tag \in [Pages -> Keys \cup {None}] /\ chain \in [Keys -> Seq(Pages)]
    /\ content \in [Pages -> Data] /\ freecount \in 0..Word - 1
    /\ list \in [head : Pages \cup {None}, tail : Pages \cup {None},
                next : [Pages -> Pages \cup {None}], prev : [Pages -> Pages \cup {None}]]
    /\ swref \in [Swaps -> 0..Cardinality(Segs)] /\ swdata \in [Swaps -> Data]
    /\ io \in (Pages \X Swaps) \cup {None}
    /\ \A p \in Procs : pc[p] \in {"check", "map", "dup", "copy"} => lk[at[p]] = p
    /\ \A q \in Pages : plock[q] # None => pc[plock[q]] = "dup" /\ slot[at[plock[q]]] = q

(* pageinit: every page is on the list.  A list runs both ways.            *)
Listed(order) == LET n == Cardinality(Pages)
                     place(q) == CHOOSE i \in 1..n : order[i] = q
                 IN [head |-> order[1], tail |-> order[n],
                     next |-> [q \in Pages |-> IF place(q) = n THEN None ELSE order[place(q) + 1]],
                     prev |-> [q \in Pages |-> IF place(q) = 1 THEN None ELSE order[place(q) - 1]]]

Init == /\ pc = [p \in Procs |-> "user"] /\ at = [p \in Procs |-> None]
        /\ write = [p \in Procs |-> FALSE]
        /\ key = [p \in Procs |-> None] /\ page = [p \in Procs |-> None]
        /\ lk = [s \in Segs |-> None] /\ slot = [s \in Segs |-> None]
        /\ holds = [s \in Segs |-> Fresh(Block[s])]
        /\ ref = [q \in Pages |-> 0] /\ tag = [q \in Pages |-> None]
        /\ chain = [k \in Keys |-> <<>>] /\ plock = [q \in Pages |-> None]
        /\ content = [q \in Pages |-> Junk]
        /\ \E order \in [1..Cardinality(Pages) -> Pages] :
               (\A i, j \in DOMAIN order : order[i] = order[j] => i = j) /\ list = Listed(order)
        /\ freecount = Cardinality(Pages)
        /\ swref = [x \in Swaps |-> 0] /\ swdata = [x \in Swaps |-> Junk] /\ io = None
-----------------------------------------------------------------------------
(* The free list, as the code links it, whatever its state.                *)
WithoutHead(l) == LET n == l.next[l.head] IN
    IF n # None THEN [l EXCEPT !.head = n, !.prev[n] = None]
                ELSE [l EXCEPT !.head = None, !.tail = None]

AtTail(l, q) == IF l.tail # None
                THEN [l EXCEPT !.prev[q] = l.tail, !.next[l.tail] = q, !.tail = q, !.next[q] = None]
                ELSE [l EXCEPT !.head = q, !.tail = q, !.prev[q] = None, !.next[q] = None]

AtHead(l, q) == IF l.head # None
                THEN [l EXCEPT !.next[q] = l.head, !.prev[l.head] = q, !.head = q, !.prev[q] = None]
                ELSE [l EXCEPT !.head = q, !.tail = q, !.prev[q] = None, !.next[q] = None]

Unlinked(l, q) ==
    LET before == l.prev[q]  after == l.next[q]
        m == IF before # None THEN [l EXCEPT !.next[before] = after] ELSE [l EXCEPT !.head = after]
    IN IF after # None THEN [m EXCEPT !.prev[after] = before] ELSE [m EXCEPT !.tail = before]

(* The links of a page in use that nothing leads to are never read again.  *)
Forget(l, q) == IF q \in {l.head, l.tail} \/ \E r \in Pages \ {q} : q \in {l.next[r], l.prev[r]}
                THEN l ELSE [l EXCEPT !.next[q] = None, !.prev[q] = None]

Add(n) == freecount' = (freecount + n + Word) % Word
Low    == freecount < Highwater \/ freecount = 0

(* putpage, n times, of a page with what c says in it: the last one frees  *)
(* it.  A copy of a file goes where it stays longest; what is no copy is   *)
(* never read again.                                                       *)
PutPage(q, n, c) == /\ plock[q] = None
                    /\ ref' = [ref EXCEPT ![q] = @ - n]
                    /\ \/ /\ ref[q] = n /\ Add(1)
                          /\ list' = IF tag[q] \in Blocks THEN AtTail(list, q) ELSE AtHead(list, q)
                          /\ content' = IF tag[q] = None THEN [c EXCEPT ![q] = Junk] ELSE c
                       \/ ref[q] # n /\ content' = c /\ UNCHANGED free

(* The same of a place on the device that nobody is about to read.         *)
OnDevice(d, x) == IF swref'[x] = 0 /\ \A p \in Procs : key'[p] # x
                  THEN [d EXCEPT ![x] = Junk] ELSE d

(* putswap.                                                                *)
PutSwap(x) == /\ swref' = [swref EXCEPT ![x] = @ - 1]
              /\ swdata' = OnDevice(swdata, x)
              /\ UNCHANGED io

(* The hash table without q, wherever it is, and with q under k.           *)
Without(s, q) == LET i == CHOOSE j \in 1..Len(s) : s[j] = q
                 IN IF \E j \in 1..Len(s) : s[j] = q
                    THEN [j \in 1..Len(s) - 1 |-> IF j < i THEN s[j] ELSE s[j + 1]] ELSE s
Off(c, q)     == [k \in Keys |-> Without(c[k], q)]
On(c, q, k)   == [c EXCEPT ![k] = <<q>> \o @]

(* Mutant: only the hash table forgets it.                                 *)
UncachedHalf(q) == UNCHANGED tag /\ chain' = Off(chain, q)

Uncached(q)  == tag' = [tag EXCEPT ![q] = None] /\ chain' = Off(chain, q)
Cached(q, k) == tag' = [tag EXCEPT ![q] = k] /\ chain' = On(chain, q, k)

Goto(p, from, to) == pc[p] = from /\ pc' = [pc EXCEPT ![p] = to]
Qlock(s, p)       == lk[s] = None /\ lk' = [lk EXCEPT ![s] = p]
Qunlock(s)        == lk' = [lk EXCEPT ![s] = None]
Drop(p)           == page' = [page EXCEPT ![p] = None] /\ key' = [key EXCEPT ![p] = None]
                     /\ UNCHANGED <<at, write>>
Rest(p)           == /\ page' = [page EXCEPT ![p] = None] /\ key' = [key EXCEPT ![p] = None]
                     /\ at' = [at EXCEPT ![p] = None] /\ write' = [write EXCEPT ![p] = FALSE]

(* Zero fill on demand.                                                    *)
Zeroed(s) == slot[s] = None /\ Kind[s] \in {"bss", "shared"}

(* seg locks the segment.  Its page is there, or is to be zeroed; or pio   *)
(* looks under the hash lock for a copy, and unlocks it if there is none.  *)
Enter(p, s, from) == LET k == IF slot[s] = None THEN Block[s] ELSE slot[s] IN
    /\ lk[s] = None
    /\ \/ slot[s] \in Pages /\ Goto(p, from, "map") /\ Qlock(s, p) /\ UNCHANGED <<key, page>>
       \/ Zeroed(s) /\ Goto(p, from, "take") /\ Qlock(s, p) /\ UNCHANGED <<key, page>>
       \/ /\ slot[s] \notin Pages /\ ~Zeroed(s) /\ key' = [key EXCEPT ![p] = k]
          /\ \/ /\ chain[k] # <<>> /\ page' = [page EXCEPT ![p] = Head(chain[k])]
                /\ Goto(p, from, "check") /\ Qlock(s, p)
             \/ chain[k] = <<>> /\ Goto(p, from, "take") /\ UNCHANGED <<lk, page>>
    /\ UNCHANGED <<slot, holds, ref, cache, plock, content, free, swap>>

(* An access that the memory management hardware refuses.                  *)
Fault(p, s, w) == /\ p \in Users[s] /\ (w => Kind[s] # "text")
                  /\ Enter(p, s, "user")
                  /\ at' = [at EXCEPT ![p] = s] /\ write' = [write EXCEPT ![p] = w]

Again(p) == pc[p] = "fault" /\ Enter(p, at[p], "fault") /\ UNCHANGED <<at, write>>

(* Mutant: it is not looked at again.                                      *)
IsCopyOnce(q, k) == TRUE

IsCopy(q, k) == tag[q] = k

(* lookpage, with the page locked: is it still that copy?                  *)
Check(p) == LET s == at[p]  q == page[p]  k == key[p] IN
    /\ pc[p] = "check" /\ plock[q] = None
    /\ \/ /\ IsCopy(q, k) /\ Goto(p, "check", "map") /\ Drop(p)
          /\ ref' = [ref EXCEPT ![q] = @ + 1]
          /\ IF ref[q] = 0 THEN list' = Forget(Unlinked(list, q), q) /\ Add(-1) ELSE UNCHANGED free
          /\ IF k \in Swaps THEN PutSwap(k) ELSE UNCHANGED swap
          /\ slot' = [slot EXCEPT ![s] = q]
          /\ UNCHANGED lk
       \/ /\ ~IsCopy(q, k) /\ Goto(p, "check", "take")
          /\ Qunlock(s) /\ page' = [page EXCEPT ![p] = None]
          /\ UNCHANGED <<at, write, key, slot, ref, free, swap>>
    /\ UNCHANGED <<holds, cache, plock, content>>

(* newpage.  Under palloc's lock: the head of the list.                    *)
Take(p) == /\ ~Low /\ list.head # None /\ Goto(p, "take", "claim")
           /\ page' = [page EXCEPT ![p] = list.head] /\ list' = WithoutHead(list) /\ Add(-1)
           /\ UNCHANGED <<at, write, key, lk, slot, holds, ref, cache, plock, content, swap>>

(* Mutant: and the fault goes on all the same.                             *)
LetGoOn(p) == /\ Goto(p, "take", "copy") /\ Low /\ lk[at[p]] = p
              /\ Qunlock(at[p])
              /\ UNCHANGED <<proc, slot, holds, ref, cache, plock, content, free, swap>>

(* Memory is low, and the segment must not stay locked meanwhile.          *)
LetGo(p) == /\ Goto(p, "take", "fault") /\ Low /\ lk[at[p]] = p
            /\ Qunlock(at[p])
            /\ UNCHANGED <<proc, slot, holds, ref, cache, plock, content, free, swap>>

(* lookpage has priority on steal.                                         *)
Stolen(q) == ref[q] # 0

(* Under the page's lock: it is p's now, and no copy of anything.          *)
Claim(p) == LET q == page[p] IN
    /\ pc[p] = "claim" /\ plock[q] = None
    /\ \/ /\ Stolen(q) /\ Goto(p, "claim", "take")
          /\ page' = [page EXCEPT ![p] = None] /\ UNCHANGED <<ref, cache, list, content>>
       \/ /\ ~Stolen(q) /\ Goto(p, "claim", IF lk[at[p]] = p THEN "copy" ELSE "load")
          /\ ref' = [ref EXCEPT ![q] = @ + 1] /\ Uncached(q) /\ UNCHANGED page
          /\ list' = Forget(list, q) /\ content' = [content EXCEPT ![q] = Junk]
    /\ UNCHANGED <<at, write, key, lk, slot, holds, plock, freecount, swap>>

(* The read from the file or the swap device, the segment unlocked.        *)
Load(p) == LET k == key[p] IN
    /\ Goto(p, "load", "relock")
    /\ content' = [content EXCEPT ![page[p]] = IF k \in Swaps THEN swdata[k] ELSE Fresh(k)]
    /\ UNCHANGED <<proc, lk, slot, holds, ref, cache, plock, free, swap>>

(* It fails: the page goes back, and the process gets a note or exits.     *)
LoadFails(p) == /\ Goto(p, "load", "user")
                /\ PutPage(page[p], 1, content) /\ Rest(p)
                /\ UNCHANGED <<lk, slot, holds, cache, plock, swap>>

(* Mutant: no one can, but for swap.                                       *)
StillOutFile(s, k) == k \in Swaps => slot[s] \notin Pages

(* Someone may have got there first.                                       *)
StillOut(s, k) == IF k \in Swaps THEN slot[s] \notin Pages ELSE slot[s] = None

Relock(p) == LET s == at[p]  q == page[p]  k == key[p] IN
    /\ Goto(p, "relock", "map") /\ Qlock(s, p) /\ Drop(p)
    /\ \/ /\ StillOut(s, k) /\ Cached(q, k)
          /\ IF k \in Swaps THEN PutSwap(slot[s]) ELSE UNCHANGED swap
          /\ slot' = [slot EXCEPT ![s] = q] /\ UNCHANGED <<ref, content, free>>
       \/ ~StillOut(s, k) /\ PutPage(q, 1, content) /\ UNCHANGED <<slot, cache, swap>>
    /\ UNCHANGED <<holds, plock>>

(* A page of zeros.                                                        *)
Fill(p) == LET s == at[p] IN
    /\ Goto(p, "copy", "map") /\ slot[s] = None
    /\ slot' = [slot EXCEPT ![s] = page[p]]
    /\ content' = [content EXCEPT ![page[p]] = Fresh(Block[s])]
    /\ Drop(p)
    /\ UNCHANGED <<lk, holds, ref, cache, plock, free, swap>>
-----------------------------------------------------------------------------
(* The rest of fixfault, the segment locked and its page in memory; then   *)
(* the access is made.                                                     *)
Stored(s, c) == IF write[lk[s]] THEN <<c[1], s>> ELSE c
Store(s, q)  == /\ content' = [content EXCEPT ![q] = Stored(s, @)]
                /\ holds' = [holds EXCEPT ![s] = Stored(s, @)]

Shared(q) == ref[q] > 1

(* A copy of a file may stay in the cache under another page.              *)
Dups(q) == tag[q] \in Blocks /\ freecount >= Highwater

Writes(p, q) == /\ q \in Pages /\ plock[q] = None
                /\ \/ Kind[at[p]] = "shdata"
                   \/ Kind[at[p]] \in {"data", "bss"} /\ write[p] /\ ~Shared(q)

(* To read is to map the page.                                             *)
Read(p) == LET s == at[p] IN
    /\ Goto(p, "map", "user") /\ slot[s] \in Pages
    /\ ~write[p] /\ Kind[s] \in {"text", "data", "bss"}
    /\ Qunlock(s) /\ Rest(p)
    /\ UNCHANGED <<slot, holds, ref, cache, plock, content, free, swap>>

(* Copy on write: a page is needed.                                        *)
Split(p) == LET s == at[p] IN
    /\ Goto(p, "map", "take") /\ slot[s] \in Pages
    /\ write[p] /\ Kind[s] \in {"data", "bss"} /\ plock[slot[s]] = None /\ Shared(slot[s])
    /\ UNCHANGED <<proc, lk, slot, holds, ref, cache, plock, content, free, swap>>

(* A shared segment just has the page.                                     *)
InShared(p) == LET s == at[p]  q == slot[s] IN
    /\ Goto(p, "map", "user") /\ q \in Pages /\ Kind[s] = "shared"
    /\ Store(s, q)
    /\ Qunlock(s) /\ Rest(p)
    /\ UNCHANGED <<slot, ref, cache, plock, free, swap>>

(* The only user writes in place, and the page is no copy any more.        *)
Modify(p) == LET s == at[p]  q == slot[s] IN
    /\ Goto(p, "map", "user") /\ Writes(p, q) /\ ~Dups(q)
    /\ Uncached(q) /\ Store(s, q)
    /\ Qunlock(s) /\ Rest(p)
    /\ UNCHANGED <<slot, ref, plock, free, swap>>

(* duppage, with the page locked: the head of the list goes to its tail.   *)
Dup(p) == LET q == slot[at[p]] IN
    /\ Goto(p, "map", "dup") /\ Writes(p, q) /\ Dups(q)
    /\ list.head # None
    /\ plock' = [plock EXCEPT ![q] = p] /\ page' = [page EXCEPT ![p] = list.head]
    /\ list' = AtTail(WithoutHead(list), list.head)
    /\ UNCHANGED <<at, write, key, lk, slot, holds, ref, cache, content, freecount, swap>>

(* Unless lookpage took it by then, it becomes the copy of the file.       *)
Dupped(p) == LET s == at[p]  q == slot[s]  np == page[p] IN
    /\ Goto(p, "dup", "user") /\ plock[np] = None
    /\ IF ref[np] # 0
       THEN Uncached(q) /\ Store(s, q)
       ELSE /\ tag' = [tag EXCEPT ![np] = tag[q], ![q] = None]
            /\ chain' = On(Off(Off(chain, np), q), np, tag[q])
            /\ content' = [content EXCEPT ![np] = content[q], ![q] = Stored(s, @)]
            /\ holds' = [holds EXCEPT ![s] = Stored(s, @)]
    /\ plock' = [plock EXCEPT ![q] = None]
    /\ Qunlock(s) /\ Rest(p)
    /\ UNCHANGED <<slot, ref, free, swap>>

(* The copy is made and written, the segment's use of the old page ends.   *)
Copy(p) == LET s == at[p]  q == slot[s] IN
    /\ Goto(p, "copy", "user") /\ q # None
    /\ slot' = [slot EXCEPT ![s] = page[p]]
    /\ PutPage(q, 1, [content EXCEPT ![page[p]] = Stored(s, content[q])])
    /\ holds' = [holds EXCEPT ![s] = Stored(s, @)]
    /\ Qunlock(s) /\ Rest(p)
    /\ UNCHANGED <<cache, plock, swap>>
-----------------------------------------------------------------------------
Idle(s) == \A p \in Users[s] : pc[p] = "user"

(* The last process of a segment leaves it (freepte), and others start.    *)
FreeSeg(s) == /\ Idle(s) /\ lk[s] = None /\ slot[s] # None
              /\ UNCHANGED <<pc, proc, lk, cache, plock>>
              /\ IF slot[s] \in Pages THEN PutPage(slot[s], 1, content) /\ UNCHANGED swap
                                      ELSE PutSwap(slot[s]) /\ UNCHANGED <<ref, content, free>>
              /\ slot' = [slot EXCEPT ![s] = None]
              /\ holds' = [holds EXCEPT ![s] = Fresh(Block[s])]

(* ptecpy: a child's segment z has the pages of s.                         *)
Fork(s, z) == /\ Idle(s) /\ Idle(z) /\ lk[s] = None /\ slot[s] # None /\ slot[z] = None
              /\ IF slot[s] \in Pages
                 THEN /\ plock[slot[s]] = None /\ UNCHANGED swap
                      /\ ref' = [ref EXCEPT ![slot[s]] = @ + 1]
                 ELSE /\ swref' = [swref EXCEPT ![slot[s]] = @ + 1]
                      /\ UNCHANGED <<ref, swdata, io>>
              /\ slot' = [slot EXCEPT ![z] = slot[s]] /\ holds' = [holds EXCEPT ![z] = holds[s]]
              /\ UNCHANGED <<pc, proc, lk, cache, plock, content, free>>

(* The pager may take a page: memory is low, the segment is not locked.    *)
MayPage(s) == /\ freecount < Headroom /\ io = None /\ lk[s] = None
              /\ slot[s] \in Pages /\ plock[slot[s]] = None

(* pagepte: text reverts to demand load.                                   *)
PageOutText(s) == /\ MayPage(s) /\ Kind[s] = "text"
                  /\ PutPage(slot[s], 1, content) /\ slot' = [slot EXCEPT ![s] = None]
                  /\ UNCHANGED <<pc, proc, lk, holds, cache, plock, swap>>

(* cachedel: the newest copy of what was on the device there is found no   *)
(* more.  Then q is, and only there.                                       *)
Recached(q, x) == LET older == IF chain[x] = <<>> THEN <<>> ELSE Tail(chain[x]) IN
                  /\ tag' = [tag EXCEPT ![q] = x]
                  /\ chain' = On(Off([chain EXCEPT ![x] = older], q), q, x)

(* pagepte: data gets a place on the device, and is in the cache under it  *)
(* before it is written, so that a fault recovers it.                      *)
PageOut(s) == \E x \in Swaps : LET q == slot[s] IN
    /\ MayPage(s) /\ Kind[s] \in {"data", "bss", "shared"} /\ swref[x] = 0
    /\ swref' = [swref EXCEPT ![x] = 1]
    /\ Recached(q, x)
    /\ ref' = [ref EXCEPT ![q] = @ + 1]
    /\ slot' = [slot EXCEPT ![s] = x]
    /\ io' = <<q, x>>
    /\ UNCHANGED <<pc, proc, lk, holds, plock, content, free, swdata>>

(* executeio: written; the pager's use of it and the segment's end.        *)
ExecuteIO == /\ io # None
             /\ UNCHANGED <<pc, proc, lk, slot, holds, cache, plock, swref>>
             /\ swdata' = OnDevice([swdata EXCEPT ![io[2]] = content[io[1]]], io[2])
             /\ PutPage(io[1], 2, content)
             /\ io' = None

Resolve(p) == \/ Again(p) \/ Check(p) \/ Take(p) \/ LetGo(p) \/ Claim(p)
              \/ Load(p) \/ LoadFails(p) \/ Relock(p)
              \/ Fill(p) \/ Read(p) \/ InShared(p) \/ Split(p) \/ Modify(p) \/ Dup(p) \/ Dupped(p) \/ Copy(p)

Next == \/ \E p \in Procs : Resolve(p) \/ \E s \in Segs, w \in BOOLEAN : Fault(p, s, w)
        \/ \E s \in Segs : FreeSeg(s) \/ PageOutText(s) \/ PageOut(s) \/ \E z \in Child[s] : Fork(s, z)
        \/ ExecuteIO

Spec == Init /\ [][Next]_vars
-----------------------------------------------------------------------------
(* What a process reads in a segment is what was written there last, or    *)
(* what the segment was loaded from (fault.c:43-266, page.c:207-259): by   *)
(* the page, by a copy that a fault would find, or by the swap device.     *)
DataIsRight == \A s \in Segs :
    \/ slot[s] = None /\ holds[s] = Fresh(Block[s])
    \/ slot[s] \in Pages /\ content[slot[s]] = holds[s]
    \/ /\ slot[s] \in Swaps
       /\ holds[s] = IF chain[slot[s]] = <<>> THEN swdata[slot[s]]
                                             ELSE content[Head(chain[slot[s]])]

(* The cache never has anything but the file's own data, in use or free    *)
(* (page.c:296, 335).                                                      *)
CacheIsRight == \A q \in Pages : tag[q] \in Blocks => content[q] = Fresh(tag[q])

(* A page has as many uses as segments, faults and the pager have it       *)
(* (page.c:115, 153, 351; swap.c:284, 329), a place on the device as many  *)
(* as segments (swap.c:58).                                                *)
Uses(q) == Cardinality({s \in Segs : slot[s] = q})
           + Cardinality({p \in Procs : page[p] = q /\ pc[p] \in {"load", "relock", "copy"}})
           + (IF io # None /\ io[1] = q THEN 2 ELSE 0)
RefExact == /\ \A q \in Pages : ref[q] = Uses(q)
            /\ \A x \in Swaps : swref[x] = Cardinality({s \in Segs : slot[s] = x})

(* /dev/swap tells the number of pages used (man/3/cons, devcons.c:679):   *)
(* when no page is on its way, that is those that something uses.          *)
CountExact == (\A p \in Procs : pc[p] # "claim") =>
                  freecount = Cardinality({q \in Pages : ref[q] = 0})
=============================================================================
