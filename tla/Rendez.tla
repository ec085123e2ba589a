------------------------------- MODULE Rendez -------------------------------
(***************************************************************************)
(* The rendezvous system call (sysrendezvous in port/sysproc.c) and what   *)
(* postnote (port/proc.c) does to a process that waits in one.             *)
(*                                                                         *)
(* One process group: its lock and one bucket of its hash table, so all    *)
(* tags collide.  A process that waits leaves its processor some time      *)
(* after it has let go of the lock; who meets it spins, lock in hand,      *)
(* until then.  Choosing a processor is the business of module Proc.       *)
(***************************************************************************)
EXTENDS Integers, Sequences, SequencesExt

CONSTANTS Procs, Tags, Posters,
          Notes,      \* bound: how many notes are posted
          Intr,       \* ~0
          None

ASSUME RendezAssumption == /\ Intr \notin Procs /\ None \notin Procs
                           /\ Procs \cap Posters = {} /\ Notes \in Nat

VARIABLES pc, state,           \* of each process; state is p->state
          onmach,              \* p->mach # 0
          tag, val,            \* its argument, and the result it has so far
          rendval, chain,      \* p->rendval, and the bucket
          lock,                \* who holds the process group's lock
          partner, notepending
VARIABLES target, noted        \* of each poster, and how many notes were posted

mine  == <<tag, val, partner, notepending>>
posts == <<target, noted>>
vars  == <<pc, state, onmach, mine, rendval, chain, lock, posts>>

Values == Procs \cup {Intr, None}

(* Types, and only who spins holds the lock between two steps.             *)
TypeOK == /\ pc \in [Procs \cup Posters -> {"user", "enter", "spin", "sched", "away", "return",
                                            "idle", "look", "pull"}]
          /\ state \in [Procs -> {"Running", "Rendezvous", "Ready"}]
          /\ onmach \in [Procs -> BOOLEAN] /\ notepending \in [Procs -> BOOLEAN]
          /\ tag \in [Procs -> Tags \cup {None}] /\ val \in [Procs -> Values]
          /\ rendval \in [Procs -> Values] /\ chain \in Seq(Procs)
          /\ \A p \in Procs : lock = p <=> pc[p] = "spin"
          /\ lock \in Procs \cup {None} /\ partner \in [Procs -> Procs \cup {None}]
          /\ target \in [Posters -> Procs \cup {None}] /\ noted \in 0..Notes

Init == /\ pc = [p \in Procs \cup Posters |-> IF p \in Procs THEN "user" ELSE "idle"]
        /\ state = [p \in Procs |-> "Running"] /\ onmach = [p \in Procs |-> TRUE]
        /\ tag = [p \in Procs |-> None] /\ val = [p \in Procs |-> None]
        /\ rendval = [p \in Procs |-> None] /\ chain = <<>> /\ lock = None
        /\ partner = [p \in Procs |-> None] /\ notepending = [p \in Procs |-> FALSE]
        /\ target = [k \in Posters |-> None] /\ noted = 0

Goto(a, from, to) == pc[a] = from /\ pc' = [pc EXCEPT ![a] = to]

Call(p, t) == /\ Goto(p, "user", "enter")
              /\ tag' = [tag EXCEPT ![p] = t]
              /\ UNCHANGED <<state, onmach, val, partner, notepending, rendval, chain, lock, posts>>

(* Who waits on p's tag.                                                   *)
Waiting(p) == LET hit == SelectInSeq(chain, LAMBDA d : tag[d] = tag[p])
              IN IF hit = 0 THEN None ELSE chain[hit]

(* Mutant: d's value is read after it was replaced.                        *)
SwapLate(p, d) == val' = [val EXCEPT ![p] = p] /\ rendval' = [rendval EXCEPT ![d] = p]

Swap(p, d) == val' = [val EXCEPT ![p] = rendval[d]] /\ rendval' = [rendval EXCEPT ![d] = p]

(* Mutant: l stays at the head, and who is before d is lost.               *)
UnlinkAll(d) == chain' = SelectSeq(chain, LAMBDA e : \E i, j \in DOMAIN chain :
                                              i < j /\ chain[i] = d /\ chain[j] = e)

Unlink(d) == chain' = RemoveFirst(chain, d)

(* Under the lock: take the other off the list and swap values.            *)
Meet(p) == LET d == Waiting(p) IN
    /\ lock = None /\ Goto(p, "enter", "spin") /\ d # None
    /\ lock' = p /\ partner' = [partner EXCEPT ![p] = d]
    /\ Unlink(d)
    /\ Swap(p, d)
    /\ UNCHANGED <<state, onmach, tag, notepending, posts>>

(* Hard race avoidance: ready(p) only once it is off its processor.        *)
Spin(p) == /\ Goto(p, "spin", "return")
           /\ ~onmach[partner[p]]
           /\ state' = [state EXCEPT ![partner[p]] = "Ready"]
           /\ partner' = [partner EXCEPT ![p] = None]
           /\ lock' = None
           /\ UNCHANGED <<onmach, tag, val, notepending, rendval, chain, posts>>

(* Nobody is there.  Under the lock: to the end of the list.               *)
Wait(p) == /\ lock = None /\ Goto(p, "enter", "sched")
           /\ Waiting(p) = None
           /\ rendval' = [rendval EXCEPT ![p] = p]
           /\ chain' = Append(chain, p)
           /\ state' = [state EXCEPT ![p] = "Rendezvous"]
           /\ UNCHANGED <<onmach, mine, lock, posts>>

(* sched and schedinit: the processor is given up.                         *)
Sched(p) == /\ Goto(p, "sched", "away")
            /\ onmach' = [onmach EXCEPT ![p] = FALSE]
            /\ UNCHANGED <<state, mine, rendval, chain, lock, posts>>

Resume(p) == /\ state[p] = "Ready" /\ Goto(p, "away", "return")
             /\ state' = [state EXCEPT ![p] = "Running"]
             /\ onmach' = [onmach EXCEPT ![p] = TRUE]
             /\ val' = [val EXCEPT ![p] = rendval[p]]
             /\ UNCHANGED <<tag, partner, notepending, rendval, chain, lock, posts>>

(* Back to user mode, where notes are seen.                                *)
Return(p) == /\ Goto(p, "return", "user")
             /\ notepending' = [notepending EXCEPT ![p] = FALSE]
             /\ tag' = [tag EXCEPT ![p] = None] /\ val' = [val EXCEPT ![p] = None]
             /\ UNCHANGED <<state, onmach, partner, rendval, chain, lock, posts>>
-----------------------------------------------------------------------------
PostNote(k, p) == /\ noted < Notes /\ Goto(k, "idle", "look")
                  /\ noted' = noted + 1
                  /\ target' = [target EXCEPT ![k] = p]
                  /\ notepending' = [notepending EXCEPT ![p] = TRUE]
                  /\ UNCHANGED <<state, onmach, tag, val, partner, rendval, chain, lock>>

(* Without the lock: does it wait in a rendezvous?                         *)
Look(k) == /\ Goto(k, "look", IF state[target[k]] = "Rendezvous" THEN "pull" ELSE "idle")
           /\ UNCHANGED <<state, onmach, mine, rendval, chain, lock, posts>>

(* Under the lock: then pull it out.                                       *)
Pull(k) == LET p == target[k] IN
    /\ lock = None /\ Goto(k, "pull", "idle")
    /\ IF state[p] = "Rendezvous"
       THEN /\ rendval' = [rendval EXCEPT ![p] = Intr]
            /\ Unlink(p)
            /\ state' = [state EXCEPT ![p] = "Ready"]
       ELSE UNCHANGED <<rendval, chain, state>>
    /\ UNCHANGED <<onmach, mine, lock, posts>>

Proceed(p) == Meet(p) \/ Spin(p) \/ Wait(p) \/ Sched(p) \/ Resume(p) \/ Return(p)
Post(k)    == Look(k) \/ Pull(k)

Next == \/ \E p \in Procs : Proceed(p) \/ \E t \in Tags : Call(p, t)
        \/ \E k \in Posters : Post(k) \/ \E p \in Procs : PostNote(k, p)

Spec == Init /\ [][Next]_vars

(* A process that can run does, and gets the lock some time.               *)
Fairness == /\ \A p \in Procs : SF_vars(Meet(p) \/ Wait(p)) /\ WF_vars(Proceed(p))
            /\ \A k \in Posters : SF_vars(Post(k))

FairSpec == Spec /\ Fairness
-----------------------------------------------------------------------------
(* The list holds who waits to be met, at most one for a tag: two          *)
(* processes never wait for the same rendezvous.  Who waits and is not on  *)
(* it is somebody's partner.                                               *)
ListExact == /\ IsInjective(chain)
             /\ \A p \in Procs : state[p] = "Rendezvous" <=>
                    (\E i \in DOMAIN chain : chain[i] = p) # (\E q \in Procs : partner[q] = p)
             /\ \A i, j \in DOMAIN chain : tag[chain[i]] = tag[chain[j]] => i = j

(* Two processes in one rendezvous get each other's value.                 *)
X == INSTANCE Exchange WITH
         at <- [p \in Procs |->
                   IF pc[p] = "user" THEN [in |-> "out"]
                   ELSE IF pc[p] = "enter" \/ \E i \in DOMAIN chain : chain[i] = p
                     THEN [in |-> "call", tag |-> tag[p]]
                   ELSE [in |-> "met", value |-> IF pc[p] \in {"spin", "return"} THEN val[p]
                                                                                 ELSE rendval[p]]]
ValuesExchanged == X!Spec

(* A rendezvous that is interrupted returns (man/2/rendezvous).            *)
NotedReturns == \A p \in Procs : notepending[p] /\ pc[p] # "user" ~> pc[p] = "user"
=============================================================================
