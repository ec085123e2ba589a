# Plan 9, second edition: a verification of its kernel

This directory models the parts of the Plan 9 kernel (`src/sys/src/9`) in which
processes, processors and interrupts meet: queueing locks, the read/write lock,
the scheduler with sleep and wakeup, the life of a process as its parent sees
it, rendezvous, the remote procedure calls of the mount driver, physical pages
with faults and the pager, pipes made of streams, and the IL protocol. The
modules are checked with TLC on small instances, and each is also proved with
TLAPS, for any number of processes, processors, pages and messages: section 5 says
what, and under which hypotheses.

The kernel's own paper on the subject, "Process Sleep and Wakeup on a
Shared-memory Multiprocessor" (`src/sys/doc/sleep.ms`), says of its code: "formal proofs
are beyond our abilities when the subtleties of interrupts and multiprocessors
are involved" (`sleep.ms:434`). Part of that proof is in `ProcProofs.tla`; the
part that cannot be had, because sleeps that are interrupted by notes break what
the paper promises of sleep and wakeup, is described in section 3. The paper
also says how a caller of `sleep` has to guard against a wakeup that comes late;
`pwait` does not, and the run `wait_record` shows what happens.

Paths below are relative to `src/sys/src/9/port` unless they say otherwise;
`power/` is the MIPS multiprocessor port, the one with more than one processor.

## 1. The system

The kernel is one program on one or more processors. A process enters it by a
system call and runs there on its own stack until it returns, sleeps or is
preempted. Processes share the kernel's memory; spin locks (`Lock`), queueing
locks (`QLock`) and sleep/wakeup (`Rendez`) are the only synchronisation.
Everything a process names is a file, served by a device driver's functions or,
through the mount driver, by a process that speaks 9P.

| component | state it keeps | operations | talks to | what is hard, and what makes it correct |
|---|---|---|---|---|
| spin locks (`taslock.c`, `power/lock.c`) | one word per lock | lock, canlock, unlock | everything | starvation; panics after ten million turns |
| queueing locks (`qlock.c`) | `locked`, list of processes, a spin lock | qlock, canqlock, qunlock | scheduler (`ready`, `sched`) | the lock is handed to a process that may not have left its processor yet: one owner, no waiter lost, first come first served |
| read/write lock (`qlock.c`) | two queueing locks `x` and `k`, a count | rlock, runlock, wlock, wunlock | name space | `k` is locked by one process and unlocked by another: readers and writers exclude each other, `k` is always let go of |
| scheduler, sleep and wakeup (`proc.c`) | process table, run queues, free list; per process `state`, `mach`, `r`, `notepending`; per Rendez `p` | ready, sched, schedinit, runproc, sleep, tsleep, wakeup, postnote, newproc, pexit | clock and device interrupts, every driver | wakeups and notes race with a sleeper on other processors: no wakeup missed, no process on two processors, no process forgotten |
| process life (`proc.c`, `sysproc.c`) | parent, children count, wait records | rfork, exec, pexit, pwait | scheduler, segments, name space | records of children that outlive, or are outlived by, their parent; a limit of 128 records |
| process control (`devproc.c`) | `procctl`, `pdbg` | stop, start, kill, wait for stop | scheduler | debugger and process wake each other |
| rendezvous (`sysproc.c`, `postnote`) | a hash table of waiting processes per group | rendezvous, interruption by a note | scheduler | a process is met before it has left its processor; notes |
| alarms (`alarm.c`) | list of timed sleepers, list of alarms | tsleep, checkalarms, alarm process | clock interrupt, sleep/wakeup, notes | a timeout races with the wakeup and with a note |
| mount driver (`devmnt.c`) | per mount point a queue of requests, `rip`, flush tags; a free list of `Mntrpc` | mountrpc, mountio, mntrpcread, mountmux, mntgate, mntflush, mntqrm | a channel to a server, notes, sleep/wakeup | one process reads for all; interrupted calls are flushed; structures and tags are used again |
| channels, name space (`chan.c`, `pgrp.c`, `sysfile.c`) | reference counts, mount table | walk, mount, bind, clone, close | read/write lock, mount driver | a lock held across a remote procedure call; stale mount entries |
| pages (`page.c`) | free list, cache of file pages, reference counts | newpage, putpage, duppage, cachepage, lookpage | faults, pager | a page is found in the cache while it is taken off the free list |
| segments, faults, paging (`segment.c`, `fault.c`, `swap.c`) | segments, page tables, swap map | fault, pio, pageout, kickpager | pages | a segment is let go of during I/O and looked at again |
| streams and pipes (`stream.c`, `devpipe.c`) | queues of blocks, QHIWAT, QHUNGUP | getq, putq, flowctl, hangup, close | sleep/wakeup | flow control that loses a wakeup; blocks of several writers |
| IL (`stil.c`) | per conversation identifiers, window, lists of blocks, timers | send, receive, acknowledge, query, timers | IP, streams | loss, duplication, reordering, restart of one end |
| TCP, IP, UDP, ARP (`tcp*.c`, `st*.c`, `dev*.c`) | conversations, fragments, routes | | streams | sequence numbers and timers |
| Datakit, URP, asynchronous lines | conversations | | streams | windows and retransmission |
| allocator, queues of characters, console, environment, authentication | small tables | | | one lock each |
| hardware drivers, machine-dependent code | registers, TLB, trap frames | | interrupts | out of reach, but for what the scheduler needs of them |
| file server (`src/sys/src/fs`) | buffer cache, dump on optical disk | | | a kernel of its own |
| commands, libraries, compilers | | | | user programs, mostly sequential |

`PROJECT.json` lists the same components with their status, and forty hazards
of this code, each at its line, with the property that covers it or the module
planned for it.

## 2. The modules

| module | models | promised by / composed from |
|---|---|---|
| `FairLock` | a first-come, first-served lock in three actions | |
| `QLock` | `qlock`, `canqlock`, `qunlock` | implements `FairLock` |
| `RWLock` | `rlock`, `runlock`, `wlock`, `wunlock` | its two queueing locks are at the level of `FairLock` |
| `LockProofs` | theorems about `QLock` and `RWLock` | |
| `Proc` | scheduler, sleep, wakeup, notes, rfork, exit | |
| `ProcProofs` | theorems about `Proc` | |
| `MntRpc` | remote procedure calls of the mount driver | the server and the channel are external |
| `MntRpcProofs` | theorems about `MntRpc` | |
| `Exchange` | what rendezvous(2) promises | |
| `Rendez` | `sysrendezvous` and the end of `postnote` | implements `Exchange` |
| `RendezProofs` | theorems about `Rendez` | |
| `Wait` | `rfork`, `pexit` and `pwait` between parent and children | sleep and wakeup are single steps |
| `WaitProofs` | theorems about `Wait` | |
| `Page` | free list, page cache, page faults, the pager | |
| `PageProofs` | theorems about `Page` | |
| `Pipe` | what one direction of a stream promises | |
| `Stream` | one direction of a pipe: `streamwrite`, `flowctl`, `stputq`, `streamread`, `getq`, `putbq`, `hangup`, close | implements `Pipe` |
| `StreamProofs` | theorems about `Stream` | |
| `IL` | the two ends of an IL connection and the network between them | |
| `ILProofs` | theorems about `IL` | |
| `MC*` | values of the constants for TLC | |

An operator under a comment "Mutant:" is a wrong form of the
definition below it; `PROJECT.json` says which property finds it out. Nothing
else uses it.

### QLock and FairLock

The variables are the fields of `QLock` (`use`, `locked`, the list as a
sequence), and for each process its `state`, its place in the code and
`qunlock`'s local `p`. `lock(&q->use)` is a step of its own (it waits until
nobody is inside), the section under the spin lock is the next step, and
`qunlock`'s `ready(p)`, which comes after `unlock(&q->use)`, a third. So a
process in the middle of being handed the lock is a state of the model, and so
is one that is made ready before it has called `sched`; who owns the lock then
is what `Owns` defines. `canqlock` that finds the spin lock busy returns 0 and
changes nothing: a stutter.

The refinement maps the owner to the one process for which `Owns` holds, and
the list to the list. `qlock` implements `Acquire` or `Wait`, the pop in
`qunlock` implements `Release` with its hand-off, everything else stutters.

### RWLock

Two queueing locks at the level of `FairLock`, so that one `qlock` is two steps
(ask, and return when nobody is before us) and one `qunlock` a single step that
may pass the lock on. The four operations are cut where the code gives others a
chance: between `qlock(&l->x)`, the section under `lock(l)`, and the
`qunlock`s. `canqlock(&l->k)` that fails because `k`'s spin lock is busy is
taken with the outcome "locked", which is what it would have found a moment
earlier. Its names differ from `QLock`'s (`RWSpec`, `Users`, `place`), since
`LockProofs` extends both modules.

### Proc

Per processor: what it does (`at`: idle in `runproc`, a process picked,
running, in `schedinit` before and after `p->mach = 0`), the process it does it
to, and the interrupt it serves. Per process: `state`, `mach`, `r`,
`notepending`, and its place in `sleep`, `postnote` or `rfork`. Per Rendez: its
lock, `p`, and the value of the condition. Sections under the run queue's lock
are one step. `sleep` is eight actions, one for each stretch of code between two
accesses to something shared:

| code | action |
|---|---|
| `splhi`, `p->r = r` (`proc.c:352-366`) | `Sleep1` |
| `lock(r)`, evaluate the condition | `Evaluate` |
| it has happened: clear, unlock | `Happened` |
| it has not: `state = Wakeme`, `r->p = p`, unlock | `Commit` |
| `if(!notepending) sched()` (`:398`) | `SleepSched`, `SleepNoted` |
| `notepending` after `sched` | `SleepNoted` |
| `lock(r)`, off the Rendez, `error(Eintr)` (`:404-409`) | `Unsleep` |
| return | `Return` |

`wakeup` holds `lock(r)` from beginning to end and is one step, taken by an
interrupt after it has made the condition true. `postnote` is three: leave the
note, read `p->r` without a lock, and wake under `lock(r)`. A process with
interrupts off (`High`) is neither interrupted nor preempted. `schedinit`'s
handling of an exiting process (on the free list, locks let go, and only then
`p->mach = 0`) is `SchedInit` and `Release`. `Sleeper` gives every Rendez the one
process that sleeps on it, as drivers do with a `QLock` around their sleep.

Left open or out: which ready process is picked (priority, affinity, age),
`tsleep`, wait records, broken and stopped processes, TLB flushing.

### MntRpc

A step is one section under `lock(m)` or `lock(&mntalloc)`, one read or write of
the channel, or one access to a `Mntrpc` outside the locks; the last kind is what
`mountmux` does after it has unlocked the mount point (`Copy`, `Finish`,
`WakeOther`). A `Mntrpc` is its tag: it is born with it and keeps it
(`mntralloc`). `sleep` and `wakeup` are taken at the level `Proc` establishes
without notes: the sleep evaluates its condition and posts itself in one step,
a wakeup or a note ends it.

`call`, in a message, is a ghost: the process whose call the message is about.
No code reads it; `ReplyIsMine` does. `Leave` renames it to None in every
message still under way when a call is over, so that a later call of the same
process is a different one.

External, from how `devmnt.c` uses it: the channel delivers in order, a write
is sent whole or not at all, a read of a channel that has hung up fails when
nothing is left in it (the first three empty reads, which `mntrpcread` forgives,
are one step with the failing one). The server reads in order, answers in any
order, and answers a Tflush after forgetting the request (man/5/flush).

Out: attach and the last close, `m->mux`, short writes, what the messages say.

### Rendez and Exchange

One process group with one bucket of its hash table, so that the tags collide.
A new entry goes to the end of the list: `l` is at the end when the search has
failed. Who meets a process spins, lock in hand, until the other has left its
processor (`while(p->mach != 0)`), which is `Meet` and `Spin`. A process's value
is its name, so that a value that goes to the wrong process is seen. `Exchange`
says what rendezvous(2) promises; a rendezvous takes place when `Meet` does, and
an interruption when `Pull` does.

### Wait

A process is a slot of the table (`Procs`) under a pid, as in the kernel: `parent`
is a pointer to a slot, and `pexit` compares the slot's pid with `parentpid`
(`proc.c:683`) because another process may be in it. A section under `p->exl` is
one step, so is a `sleep` or a `wakeup`, which hold the lock of `waitr`:

| code | action |
|---|---|
| `newproc`: a slot from the free list, a new pid | `NewProc` |
| `rfork`: parent, `parentpid` (1 with RFNOWAIT), `nchild++`, `ready` | `Ready` |
| `pexit` up to `lock(&p->exl)` | `Exit` |
| the parent is there and has room: count, record (`:683-691`) | `Report` |
| or not (`:695`), and broken if it does not exit but failed (`:701`) | `NoReport` |
| `wakeup(&p->waitr)`, after `exl` is let go of (`:693`) | `WakeParent` |
| `pid = 0`; free the records; on the free list | `ClearPid`, `FreeWaits`, `Die` |
| `pwait`: children or records? sleep; a note; take a record | `Wait`, `Sleep`, `Interrupt`, `Take` |

`missed` is a ghost: the children that found the parent's records full, or the
parent broken. The field `of` of a record, the parent's pid, is one too. A step
that reads through a null pointer ends the kernel (`Panicked`).

Out: `exec`, sharing by `rfork`, other processes that read `/proc/n/wait` (their
loop, `devproc.c:413`, does look again), kernel processes, and RFNOWAIT by the
first process, whose children would find themselves waited for.

### Page

A segment is one page of memory of a type that the code tells apart (text, data,
private and shared), with the processes that use it (`Users`). A page holds two
words, one the process writes and one it does not, so that both a lost write and
a wrong page are seen; `holds` is a ghost: what the segment's memory should be.
The free list is the kernel's, with `head`, `tail`, `next` and `prev` of each page,
because `lookpage` may unlink a page that is on it no more. The hash table is
`chain`, for each thing a page may be a copy of the pages found under it, the newest
first: `cachedel` takes off one of them and no more, and `lookpage` may find a page by
a `daddr` that changes under it. `Child` gives the segments a fork may make of a
segment (`ptecpy`). What nothing has been written into since it was given out, a page
or a place on the device, holds `Junk`. A section under
`palloc` or `palloc.hashlock` is a step; the lock of a page is a variable since
`duppage` keeps it while it takes the others. `lookpage` is `Check` (look, lock,
look again), `newpage` is `Take` and `Claim` with its race in between, `pio` is
`Load` and `Relock` with the segment let go of in between, a copy on write is
`Split` and `Copy`, and `duppage` is `Dup` and `Dupped`. The pager's transaction
is `PageOut` (for text only a page given back) and, some time later, `ExecuteIO`.

Out: `simpleputpage`, sleeping for memory (`Take` waits in its guard), TLBs, images
and their reclaim, segments of more than one page; and `conf.copymode`. A read maps
the page read-only where that is 0 (`fault.c:109`), as `Read` has it. The power
port sets it to 1 on a multiprocessor (`power/main.c:561`), and a read fault on
data, bss or stack then takes the path of a write fault, copy or `duppage` and all,
and maps the page for writing: the steps `Split`, `Copy`, `Dup`, `Dupped` and
`Modify` without the store. So on such a machine more pages are copied
than in the model, and sooner.

### Stream and Pipe

The queue `q` at the process end of the reader's stream, and everybody who comes
to it: writers through `pipeiput` and `flowctl`, readers, a hangup, and the last
close of the reader's end. `q->flag` is one word: who sets or clears a bit reads
it and writes it back (`seen`), under `q`'s lock, except a hangup, which does so
without (`stream.c:916`). `getq` is `Get` and `GetClear`, since it wakes the writer
before it clears QHIWAT; `stputq` is `Stputq`, `Mark` and `Wakeup`. A block carries
its writer, message and number as ghosts. `Pipe` promises that each writer's blocks
go in one after another as it wrote them, that every block comes out where it went
in, each byte once, and that no read crosses the end of a message. The refinement
maps its channel to the blocks the reader holds followed by the queue, so that what
is put back after an interruption (`putbq`) must come back to the same place, and
what a writer has still to send to `todo`. `Pipe` does not promise that a message
stays in one piece: the code puts the blocks of a long write one at a time, and
those of another writer get between them (section 3, 15).

Out: pushed line disciplines, control messages, opening, the other direction.

### IL

Two ends, `a` that calls and `b` that listens. A step is one packet taken from the
network (`Process`, by state as in `_ilprocess`), one write, a close, or one
expiry of a timer. The network is a set: a packet in it may arrive any number of
times, in any order, or get lost. A message is its number and the connection it
was written for, so that one that is delivered to the wrong connection is seen.
The lists of a conversation are in the order of their identifiers and are used
from the head, as the code uses them (`DropUpTo`, `Ready`).
A new conversation at `b` has a new starting number (`Starts`). That these are not
zero and grow, by more than the messages written, is an assumption about the clock
they are taken from (`ILAssumption`): the code adds the milliseconds since the machine
was started and keeps 24 bits (`stil.c:353-354`, `842-843`), and does not
check that an old number is out of use.

Out: the lengths of timers, checksums, and the listener's answer to a sync for which
it has no room: with its backlog full, or no conversation left, it sends an
Ilclose (`goto reset`, `stil.c:337-342`, `369-374`) whose id is the acknowledgement of
the sync and whose acknowledgement is the caller's start, through
`ilsendctl(0, ...)`, which reads `ipc->src` with `ipc` 0 (`stil.c:721`). `Incoming`
always finds room, so nothing here is about a call that is refused.

## 3. The runs

Deadlock is checked where a process can always make another call, which is
everywhere but in four modules: in `Page` all processes may be waiting for memory,
in `Stream` users may have stopped (or wait for each other, see the violations),
in `IL` the ends may be closed and the bounds used up, and in `Wait` there may be
no pid left, or the kernel at its end.

| run | instance | shows |
|---|---|---|
| `qlock` | 4 processes, 593 states | exclusion, no lost waiter, FIFO, every waiter served |
| `rwlock` | 4 processes, 7945 states | nobody enters while a writer is inside, `k` is always let go of, everybody gets in |
| `proc_uni` | 1 processor, 3 processes, 2 Rendez, 2 posters, 1 that exits; 699478 states | on a uniprocessor sleep and wakeup are right with notes, rfork and exit |
| `proc_multi` | 2 processors, 3 processes, no notes and no exits; 4947 states | on a multiprocessor they are right without notes, and every sleep returns |
| `rpc` | 3 processes, 1 mount point, 1 note; 1346040 states | every call gets its own reply, one reader, gate not lost |
| `rpc_live` | 3 processes, 1 note, the channel may hang up; 228497 states | a call ends, or its process is left at the gate of a channel that has hung up (violation 14); interrupted ones end even if the request is never answered |
| `rendez` | 3 processes, 2 tags, 2 notes; 141749 states | values are exchanged atomically, nobody meets an interrupted process |
| `wait` | 3 slots, 5 pids, 2 records each; 137556 states | records go to the right process, no living child is left out of the count, and it is exact while every record finds room (else violation 16); wait returns then |
| `page` | 2 processes, 4 segments, 2 pages, 1 place on swap, forks; 532742 states | memory reads what was written, the cache is right, every use is counted |
| `stream` | 2 writers, 1 reader, 1 hangup, 1 note; 430900 states | each writer's blocks in order, each byte out once and no read past the end of a message, but not messages in one piece (violation 15); the reader is woken and returns |
| `il` | 3 messages one way and 1 the other, 2 packets in the network; 2188054 states | in order and once, nothing lost, ends agree |
| `wait_record` | 3 slots, 3 pids, *violation* | `pwait` may find no record after its sleep |

The runs are kept few, and properties of `proc_multi` that are proved
(`WakeupState`, `QueueExact`, `NoLostWakeup`) are not checked there again. A type
invariant that its module's other properties go with (`RWLock`, `Proc`, `Rendez`,
`Wait`) is stated and in no run.

### Bounds, and why they are enough

- *Processes.* Four for the locks: an owner, one being handed the lock, and two
  on the list, so that the order of the list matters. Three for `Proc`: the
  sleeper, a process that competes for the processor, and one that is created.
  Three for `MntRpc`: a reader, the one it completes, and one asleep at the gate.
  In `rpc_live` the three are not free to call when they like (`Few` limits the steps): two make
  calls without end, or the third makes one while both are about to send, and
  after that only it goes on. That is enough for one to read while two are asleep at
  the gate, for the one chosen to be interrupted and for the channel to hang up; TLC
  confirms that a process is then left there (`Stranded`).
  A liveness run of three processes without `Few` is too large.
  Three for `Rendez`: two that meet and one that gets in between.
- *Processors.* Two: every race in `proc.c` is between two.
- *Rendez.* Two for `proc_uni`, so that a sleep can leave something behind
  that hurts the next one; one for `proc_multi`.
- *`Posters`, `Mortals`, `Notes`.* Who may post notes and exit, and how many notes
  there are. One note is enough for each race found; the liveness runs need a
  bound, or a process would be interrupted for ever.
- *`Tagfls`, `Tagend`.* One or two flush tags instead of tens of thousands. In
  `rpc` there is one: it comes back at the very next flush, and so the wrap is
  crossed at once; with one note no two flushes are outstanding together.
- *`Wait`.* Three slots: a parent, a child, and one that is used again for another;
  `MaxPid` five, so that a slot is used three times and a parent can have more
  children than `Zombies`, two, has room for (128 in the code; 128 in `wait_record`).
- *`Page`.* Two pages for four segments and one place on swap, so that every page
  is taken, shared, copied and paged out; a text and two data segments that start
  with the same block of a file. `Intact` leaves out the states in which `lookpage`
  has broken the free list or counted wrongly more than once, of which there is no
  end. It bounds the run only: `TypeOK`, `RefExact` and `CacheIsRight` are proved
  without it, and so is `DataIsRight` under hypotheses about segments (section 5).
- *`Stream`.* `Streamhi` two bytes and `Streambhi` four blocks, and writes of one and three
  bytes: one write is within the limit and one beyond it, and is cut in two. One
  message from each writer, one note, one hangup.
- *`IL`.* A window of two and three messages, so that one can be outside of it; two
  packets in the network at a time (`Room`), which may be repeated for ever; a
  first conversation at `b` and one after it (`Starts`).
- *Symmetry.* Pages of `Page`, processes (and tags of `Rendez`) are interchangeable in the
  safety runs of `MntRpc` and `Rendez`. Liveness runs use no symmetry, and neither
  do the runs of `Proc`, whose constants tell processes apart.

### What is violated

`wait_record` is a run, and its finding in `PROJECT.json` tells the scenario. The
other disagreements between the code and its documents or assertions are stated
in the modules and can be seen by giving the constants other values:

1. `wunlock` lets go of `x` before `k`: a reader gets in between, fails to block
   writers because the leaving writer still has `k`, and is inside when the next
   writer comes (`qlock.c:103`). `ReadersBlockWriters` of `RWLock`, three processes.
2. `sleep` tests `notepending` before `sched` without the lock that `postnote`
   takes: `postnote` makes a running process ready (`proc.c:398`, `538`), and the
   next wakeup may panic at `proc.c:474`. The paper does not
   speak of notes. `WakeupState` of `Proc`, two processors, two processes and `Posters`.
3. A sleep that gives up because of a note leaves the process in state Wakeme
   (`proc.c:400-409`). `sleep1` of the next sleep, finding the condition true,
   does not set it back to Running, and `sched` loses the process.
   `HappenedReturns` of `Proc`, one processor, two processes and `Posters`.
4. `mountmux` completes another process's `Mntrpc` after it has unlocked the
   mount point (`devmnt.c:672-676`); if that process leaves because its channel
   has hung up, the structure may by then belong to a call elsewhere.
   `ReplyIsMine` of `MntRpc`, two processes, two mount points, one that hangs up.
5. A note posted between the entry of `sysrendezvous` and its `state =
   Rendezvous` is recorded and nobody looks at it (`sysproc.c:693`).
   `NotedReturns` of `Rendez`, two processes, a note.
6. `getq` wakes the writer before it clears QHIWAT; a writer that looks in between
   sleeps on with the queue empty (`stream.c:536`). `WriterResumes` of `Stream`.
7. `pio`, after reading a page from swap, tests that the entry is on swap but not
   that it is the same one (`fault.c:257`): an old page comes back. `DataIsRight` of
   `Page` with `Segs = {b, e}`, a bss that two processes share, and `Headroom = 3`.
8. `lookpage` counts a page that `newpage` has just taken a second time
   (`page.c:351`). `CountExact` of `Page`.
9. A process that exits is on the free list before its `p->mach` is cleared
   (`proc.c:84`). `OneProcessor`, `QueueExact` and `MachZeroMeansSaved` of `Proc`, two processors
   and `Mortals = {p1, p2}`.
10. A hangup may be lost, as its bit is set without the lock of the word it is in
    (`stream.c:916`), and a reader may see the end of the file before the last of
    the data (`stream.c:1027`). Both are behaviours of `Stream`; no property is about them.
11. A sync of an earlier call ends an established connection (`stil.c:449`).
    `OnlyOtherEndCloses` of `IL` without its restriction to packets of the connection.
12. `cachedel` takes one page off the hash chain of a place on the device
    (`page.c:317`), and there may be two: two processes whose segments were forked read
    the same place, and each caches its own page (`fault.c:261`). When the place is used
    again the other page is found under it. `DataIsRight` of `Page` with three pages and
    `Headroom = 4`, found by simulation to a depth of 120; two pages, as in the run
    `page`, are too few.
13. A fault in an SHDATA segment makes the page writable without a look at `ref`
    (`fault.c:79-88`): if a process of the same program has it too, from the cache, it
    sees what is written. `DataIsRight` of `Page` with `Segs = {h, e}`, in fewer than 400 states.
14. The sleeper that `mntgate` has chosen and woken has been interrupted as well, and its
    flush fails because the channel has hung up: it leaves through `nexterror` without
    passing the gate on (`devmnt.c:584`), and whoever else sleeps there has no
    reader and nobody coming. `GateNotLost` of `MntRpc`, `Mortal = {m1}`, three processes and
    a note. That every call comes to an end is therefore false, and `CallsReturn` leaves
    out the processes that are `Stranded` in this way.
15. "If there are multiple writers, each write is guaranteed to be available in a
    contiguous piece", "each read will return data from only one write"
    (`man/3/pipe:41-46`): a write longer than `Streamhi` is put block by block without a
    lock (`stream.c:1214-1232`), others get in between, and a read goes on over
    the seam (`1038-1054`). `Contiguous` and `OneWrite` of `Stream`, in the instance of the run
    and with two readers, without notes or hangups.
16. A child that finds 128 records, or its parent broken, leaves none and is not taken
    off `nchild` either (`proc.c:683-698`), the "number of living children"
    (`portdat.h:581`). Its parent, when it has read the others, sleeps where wait should
    return "immediately, with return value -1" (`man/2/wait:59-61`). `OnlyLiving` and
    `SleepsForSomebody` of `Wait`, in the instance of the run.

`WakeupState`, `NobodyForgotten` and `MachZeroMeansSaved` therefore hold only
where the runs and theorems say so: without notes on a multiprocessor, and
`MachZeroMeansSaved` without exits. `ReplyIsMine` and
`GateNotLost` hold with a channel that does not hang up.

## 4. Fairness

Fairness is assumed of the code that runs, never of the callers: no process has
to make a call, post a note, fork or exit.

- *QLock.* Weak fairness of what a process inside an operation does next, and
  strong fairness of `QUnlock`: holders let go in the end, and whoever spins for
  `use` gets it. `lock()` panics rather than starve (`taslock.c:16-25`), so runs in
  which somebody starves are not runs of the code.
- *RWLock.* Weak fairness: a step that is possible stays possible, since
  `FairLock` serves in order.
- *Proc.* Weak fairness of a processor's own steps. Strong fairness of `Wakeup`
  and of processes, which spin for `lock(r)`; of `Preempt`, the clock keeps ticking;
  of `Pick` for each process, because `runproc` serves in order and looks once a
  second for processes that have waited long (`proc.c:205-224`); and of a device's
  interrupt while its condition is false: it reports the end of a request.
- *MntRpc.* Weak fairness of processes and of the server's answers to flushes. The
  run writes the fairness of processes out (`Runs`): a process is able to go on when it is
  in a call and is neither asleep without a note nor reading a channel with nothing
  in it (`Runnable`), which TLC has compared with ENABLED in every state of the run.
  `CallsReturn` assumes, in the property, that the server answers requests too.
  `NotedCallsReturn` does not, but assumes that new calls stop: a reader that never
  finds the channel empty is not interrupted in its read.
- *Rendez.* Weak fairness of processes, and strong fairness of taking the lock.

- *Wait.* Weak fairness of what a process does inside the kernel. `WaitReturns`
  assumes, in the property, that a process that can exit again and again does.
- *Stream.* Weak fairness of a process that reads, writes or hangs up once it has
  begun. Nobody has to begin.
- *Page, IL.* Safety only: waiting for memory has no end the code promises, and
  a connection over a network that loses everything ends by its time-outs.

## 5. What is proved

The modules named `*Proofs` hold the proofs. The assumptions on the constants are
named in the modules of the components, and TLC evaluates them in the runs: `None`
is not a process (a `Mntrpc`, a block, a pid), and bounds are natural numbers.
Those that say more are given below. Each theorem `Spec => []Inv` comes of an
inductive invariant in three steps: it holds at first (`Init...`), every action
keeps it (`Step...`, from a lemma for each action or group of actions and part of
the invariant), and it implies `Inv`.

**QLock**, for any set of processes: `TypeCorrect`, `Exclusion`, `WaitersKept`,
and `Implements` (every behaviour is one of `FairLock`). The inductive invariant
is

    TypeOK /\ Reading /\ ListNeedsOwner /\ Sleeping /\ HandOff
           /\ MutualExclusion /\ NoLostWaiter

`MutualExclusion` and `NoLostWaiter` are not inductive: a process that has read
`locked` and is about to act on it must still be right, which is `Reading`; a
non-empty list must belong to a locked lock (`ListNeedsOwner`), or `Take` would
overtake; `p->state` must follow the place in the code (`Sleeping`); and only one
`qunlock` may be passing the lock on (`HandOff`), or two processes would be handed
it. `Implements` follows from one lemma per action that the step is one of
`FairLock`'s or leaves owner and list alone, with `OwnerIs` to show that `CHOOSE`
picks the owner.

**Proc**, for any number of processes, processors and Rendez, assuming
`Posters = {}` and `Mortals = {}` (without notes and exits): `NoWakeupPanic`,
`OneProcessorEach`, `RunQueue`, `WakeupsKept`, `SleepersFound`. The invariant is

    TypeOK /\ Quiet /\ Processors /\ Stages /\ Lists /\ Children /\ Asleep /\ Coming

`Processors` relates processors to `p->mach`, and gives `OneProcessor`; `Stages` and
`Lists` say what `p->state` is at each stage of `sched`, and give `QueueExact`;
`Children` keeps a process under construction away from everybody else; `Asleep`
relates `p->state`, `r->p` and the lock of the Rendez, and gives `WakeupState` and
`NobodyForgotten`; `Coming` is `NoLostWakeup` with the case that makes it
inductive, an interrupt that has set the condition after a process evaluated it
and before the process is on the Rendez. It still waits for the lock, which is
the argument of `sleep.ms`. The assumption on notes is needed: with them
`WakeupState` is false (section 3), and with exits `Processors` is (violation 9).

On one processor both assumptions can go: `UniNoWakeupPanic`, `UniRunQueue` and
`UniWakeupsKept` hold for any processes and Rendez, with notes and exits, assuming
`OneMachine` (`Machs` has one member), and say why the kernel of a uniprocessor is safe
from violations 2 and 9 of section 3. The invariant is

    TypeOK /\ Processors /\ UniStages /\ UniHigh /\ UniLists /\ Children
           /\ UniAsleep /\ UniComing

`UniHigh` says that a process with interrupts off has the processor, and that no interrupt
is being served: between `splhi` and `sched` nobody gets into `sleep`, so that a condition found
false stays false until the process is on its Rendez (`UniComing`), and a poster finds
the other process saved. `UniStages` and `UniAsleep` are weaker than `Stages` and `Asleep`: a
sleep given up because of a note leaves its process Running in fact and Wakeme in name
(violation 3), and it is only who is on a Rendez that must be in state Wakeme.

**RWLock**, for any finite set of processes: `RWTypeCorrect`, `KIsReleased` and
`RWExclusion`. The invariant, `RWInv`, is

    RWTypeOK /\ XLine /\ XHeld /\ Counted /\ KLine /\ KWillBeReleased

`XLine` and `KLine` say who is on the lists of the two queueing locks; `XHeld` that
one process at a time has `x`, so that whoever comes in, to read or write, keeps
the other writers out; `KLine` also that each waits once, so that the writer that
`qunlock` has popped is none of those that still wait; `Counted` that `readers` is the number of processes between
the count in `rlock` and that in `runlock` (a fact about cardinalities, which is why
the set is finite). With these `KWillBeReleased` is inductive, though `k` is locked by
one process and unlocked by another: while `k` is locked there is a reader counted, or
a writer that has got `k` and not yet let go of it. A writer that only waits for `k` does not do.

**Wait**, for any finite process table, and `MaxPid` at least 1 for the first process:
`TypeCorrect`, `RecordsAreMine` and `CountIsRight`. The invariant is

    TypeOK /\ WaitqType /\ PidsDiffer /\ BootStays /\ ForkFills /\ ChildKnows
           /\ NewUnrecorded /\ RecordsMine /\ Accounted

Slots are used again and pids are not: `PidsDiffer` says that no two slots in use
have one pid and that none is in use before it is given out, so that a slot with
the pid a child remembers is still its parent. `BootStays` is about the first
process, whose pid is what `rfork` with RFNOWAIT gives for the parent's;
`ForkFills` and `NewUnrecorded` keep a process under construction
its maker's, and out of everybody's records. `Accounted` is how `nchild` comes to be what
it is: the children that have still to leave a record, and those that could
not. `ChildrenCounted`, which follows, promises less, and no more than a reader of the code
would want: no living child left out, and nobody else counted while records find room.

**Rendez**, for any processes and tags, assuming `Procs` and `Posters` apart:
`TypeCorrect`, `ListIsExact`, and `Implements`, that every behaviour is one of
`Exchange`. The invariant is

    TypeOK /\ Places /\ Spinning /\ Waiters /\ ListDistinct

`Places` relates a process's place in the code to its `state` and `mach`; `Spinning`
says that whoever has taken a partner off the list still spins for it; `Waiters`
that whoever waits is on the list, with its own value to give, or has been taken
off it, and never both; `ListDistinct` is about the list alone.

**MntRpc**, for any processes, mount points and notes. `TypeCorrect` and
`ReadersGated` hold of the model as it is. `RpcsAccountedFor` and `GateIsNotLost` have
the hypothesis `NeverHung`, that no channel hangs up (`Mortal = {}`): with one that does,
a call that fails frees its `Mntrpc` while the process that reads may be completing
it (section 3, 4), and TLC violates both `MntrpcExact` and `ReplyIsMine`. `RepliesAreMine` and
`TagsAreDifferent` also need `TagsSuffice`, no more notes than there are flush tags: a
flush tag is used again without asking whether the last flush with it has been
answered (`devmnt.c:692`), and without the hypothesis `TagsDiffer` is false. The
invariant comes in layers, each proved with the ones before it:

| layer | says |
|---|---|
| `IGate` | `TypeOK`, `OneReader`, and which variables of a process count at its place in the code (`Life`) |
| `IUse` | each `Mntrpc` is free or one process's; a queue holds those not done; who copies or finishes another's call finds it still that process's and not done (`Copying`) |
| `IWait` | at a gate without a reader nobody sleeps through its reply (`NotMissed`), and a sleeper there has one coming (`GateKept`) |
| `IMsgs` | which requests, replies and flushes may be under way for a call, and in what order: a request not answered, its reply, or a flush behind both, and nothing an earlier call left behind, since the answer to a flush comes after what it flushed |

**Stream**, for any writers, readers and hangups and any limits: `TypeCorrect`,
`ReaderIsWoken`, and `Implements`, that every behaviour is one of `Pipe`. The invariant is

    TypeOK /\ Todo /\ Hand /\ Closing /\ ReaderWoken

`TypeOK` says for every lock that it is held exactly in the places of the code that
hold it. `Todo`: what a writer still has to put ends with the end of a message, so
that whoever puts the last block wakes the reader, and is nothing between two
writes; `Hand`: what a
reader holds has no end of message in it but in its last block, so that neither a
read, nor what it puts back, crosses one. `Implements` maps the channel to what
the reader holds followed by the queue, and each step to one of `Pipe`'s or a stutter.

**Page**, for any finite sets of processes, segments and pages, any places on the
device, and whatever becomes of the free list: `TypeCorrect`, `UsesCounted`,
`CacheRight`, and with two hypotheses `DataRight`. The invariant of the first three is

    Types /\ Located /\ Locked /\ PageLocked /\ Keyed /\ OutKind /\ Own
          /\ RefExact /\ CacheIsRight /\ Loaded /\ NotFile

`Types` is `TypeOK` without the bounds on counts, which follow from `RefExact` at the
end. `Located`, `Locked` and `PageLocked` say which segment and which page's lock a
process has at its place in the code, `Keyed` what it looks for there, and that it
lets go of the segment exactly to look in a file or on the device. `Own` is the
crux of newpage's race with lookpage: the page that `Claim` got is nobody
else's, whether or not the list has it a second time, because `Stolen` asks `ref` under
the page's lock and not the list. That makes `RefExact` inductive (a fact about
cardinalities, by one lemma on a set of which one element may have come or gone) without a
word about the list. `Loaded` carries a file's data from the read to the cache, and
`NotFile` keeps a shared segment, which is written without a look at the cache, off
the cache of files.

`DataRight` says that `DataIsRight` holds under `SharedApart` (no SHDATA segment has a
block of a file in common with another segment) and `PagedApart` (there is no swap device;
or no forks, and every segment that is paged to it has one process). Neither can
just be dropped: violation 13 of section 3 is what happens without the first, 7 and
12 without the second. The run `page` has forks and a swap device, and is there for what
the theorem leaves out. The invariant `DInv` adds to the one above

    FoundIs /\ Going /\ InPage /\ OnSwap /\ Text /\ NotText /\ PlaceAlone
            /\ SharedAlone /\ SharedPlace /\ DupAlone /\ SlotTag /\ Seeking

`InPage` and `OnSwap` are `DataIsRight` itself: what a segment holds is in its page, or in
the page found under its place on the device, or on the device unless the pager's
transaction is still to write it there. `FoundIs` and `Going` are about
the cache of such places: one page at most under each, and the page in
transaction under its own. `PlaceAlone`, `SharedAlone` and `DupAlone`
say whose entry is no other segment's: a place on the device, the page of a shared
segment, and the page that duppage is about to pass on. `SharedPlace` is the same of
a shared segment's page and the place under which it is found. They follow from the
hypotheses and from the code's tests of `ref`. `Text` and
`NotText` say that text is not written, `SlotTag` that a segment's page, if it is a copy
of a file, is one of the segment's own block, and `Seeking` what a process that has let go
of its segment may rely on when it has it again: with one process to a paged segment,
that the entry has not changed.

**IL**, for any window, any number of messages and of conversations, and a network with
any room, assuming what section 2 says of the starting numbers: `TypeCorrect`,
`DeliveredInOrder`, `EndsAgree`, `NoneLost` and `OnlyByTheOther`. The invariant is

    EndsOk(conv, got, convs) /\ net finite and within Room
                             /\ \A m \in net : NetOk(m, conv, got, convs)

`EndsOk` says of each end where its conversation and the other one start, as far as
it knows (`StartOk`), that its lists hold messages of its own or of the other end
(`ListsOk`), and that `recvd` counts what it passed up (`GotOk`); and of both, that the
listener is connected only to a caller that knows it (`Linked`), and that what is
acknowledged was passed up (`Kept`). `NetOk` is what makes it inductive: packets live
for ever, so what each one says must stay true of the ends as they go on. An
acknowledgement says no more than its sender had passed up; one that the listener
takes for its connection can only have been sent by a caller that had its answer,
since starting numbers are far apart; a close is sent by an end that is gone. Two
lemmas, `StayFits` and `StayEnds`, cover every handler that leaves a conversation the
one it is; the four that do not (`Begin`, `Renew`, `EstablishA`, `EstablishB`) have one each.
That messages without a gap between their numbers are those that were written next
is by the least one that is not (`SameConversation`), in place of induction.

**Model-checked only.** Everything about liveness and fairness, which is out of
the prover's reach, and `DataIsRight` of `Page` outside the hypotheses of `DataRight`: the
instance of the run has forks and paging, but too few pages for violation 12 of
section 3. Sums over sequences are recursive: that the queue's length in bytes is what
`Qlen` folds up is proved only of the empty queue, which is all that `ReaderWoken` needs.

## 6. What is not modelled

See the components with status `not_modelled` in `PROJECT.json` for the reason in
each case. In short: hardware and machine-dependent code, because it is
registers; user programs, because they are sequential and many; the file server,
because it is another system; TCP and Datakit, in favour of IL; the allocator and
small in-memory devices, because one lock guards each. Spin locks appear in every
model as a step that waits; the bound on their spinning is a matter of time that
the models do not have.

## 7. The plan

Done: the locks, the scheduler, remote procedure calls, rendezvous, parents and
children, pages, streams and IL, with the proofs of section 5. Next, in this
order:

1. `Alarm`: `tsleep`, `checkalarms` and the alarm process (`alarm.c:24`) over the
   sleep and wakeup of `Proc`.
2. Process control: the debugger's sleep against `procctl` (`proc.c:935`) and `pexit`
   (`proc.c:721-728`), and reading another process's wait file (`devproc.c:413`).
3. The name space: `RWLock` with `domount`'s remote procedure call under the read
   lock (`chan.c:279`), and its mount entry read after the lock is let go
   (`chan.c:289`).
4. Sharing of segments by `rfork`, and swap slots counted in a byte (`swap.c:76`).
5. Both directions of a pipe, and two opens of one pipe (`devpipe.c:142`); slots of
   IL conversations that are used again (`stil.c:577`).

Theorems to prove: those of the modules above; and `DataIsRight` under a weaker
hypothesis than `PagedApart`, with forks of segments whose pages on the device no two
processes read in at once.
