-------------------------------- MODULE Buf ---------------------------------
(* The buffer cache (bio.c), the sleep locks of its buffers (sleeplock.c)    *)
(* and the IDE driver (ide.c) with its request queue and interrupt.          *)
(*                                                                           *)
(* bcache.lock, idelock and lk->lk are held over no wait, so what is done    *)
(* under one of them is a step; sleep() gives the lock up in the same step.  *)
(* A process uses one buffer at a time.                                      *)
EXTENDS Integers, Sequences, FiniteSets

CONSTANTS Procs,
          NBUF,      \* buffers 1 .. NBUF
          Blocks,
          Vals,      \* block contents
          Zero,      \* what a static buffer holds at first
          MaxPinned, \* bound: buffers log_write() may have pinned
          None       \* no block, no process, or no request

Bufs == 1 .. NBUF

\* A command: the block, whether it is to be written, and what with.
Requests == [block : Blocks, write : BOOLEAN, data : Vals]

ASSUME BufConstants == /\ NBUF \in Nat \ {0} /\ MaxPinned \in Nat /\ Zero \in Vals
                       /\ None \notin Blocks \cup Procs \cup Requests
                       /\ IsFiniteSet(Procs)

VARIABLES blockno, refcnt, data,  \* struct buf
          valid, dirty,           \* the buffers with B_VALID, with B_DIRTY
          lru,                    \* the list from bcache.head.next on
          holder,                 \* of each buffer's sleep lock: its process
          idequeue,               \* the buffers from idequeue on
          request,                \* what the disk does: block, write, data
          ready,                  \* the disk has finished and interrupts
          disk,
          failed,                 \* history: the buffers whose last read failed
          pc, want, buf,          \* of each process: the block it is to read,
                                  \* and the buffer bget() gave it or 0
          asleep

bufs == <<blockno, refcnt, data, valid, dirty, lru>>
drive == <<idequeue, request, ready, disk, failed>>
procs == <<pc, want, buf, asleep>>
vars == <<blockno, refcnt, data, valid, dirty, lru, holder, idequeue, request, ready, disk,
          failed, pc, want, buf, asleep>>

\* lock: in acquiresleep(&b->lock).  check: before the test of B_VALID.  io: in
\* iderw().  have: back from bread() or bwrite().  unref: in brelse(), after
\* releasesleep().
Points == {"idle", "lock", "check", "io", "have", "unref", "panic"}

Init ==
  /\ blockno = [b \in Bufs |-> None] /\ refcnt = [b \in Bufs |-> 0]
  /\ data = [b \in Bufs |-> Zero]
  /\ valid = {} /\ dirty = {}
  /\ lru = [i \in Bufs |-> NBUF + 1 - i]
  /\ holder = [b \in Bufs |-> None]
  /\ idequeue = <<>> /\ request = None /\ ready = FALSE
  /\ disk \in [Blocks -> Vals]
  /\ failed = {}
  /\ pc = [p \in Procs |-> "idle"] /\ want = [p \in Procs |-> None]
  /\ buf = [p \in Procs |-> 0] /\ asleep = {}

-----------------------------------------------------------------------------
(* bget() *)

At(p, l) == pc[p] = l /\ p \notin asleep /\ \A q \in Procs : pc[q] # "panic"
Go(p, l) == pc' = [pc EXCEPT ![p] = l]

Cached(n) == {b \in Bufs : blockno[b] = n}
\* Mutated Unused: bget() looks at B_DIRTY only.
UnusedReferenced == {b \in Bufs : b \notin dirty}

Unused == {b \in Bufs : refcnt[b] = 0 /\ b \notin dirty}
\* The recycling loop starts at bcache.head.prev.
Oldest(b) == b \in Unused /\ \A i \in Bufs : lru[i] \in Unused => i <= CHOOSE j \in Bufs : lru[j] = b

bgetHit(p, n) ==
  /\ At(p, "idle")
  /\ \E b \in Cached(n) :
       /\ refcnt' = [refcnt EXCEPT ![b] = @ + 1]
       /\ buf' = [buf EXCEPT ![p] = b]
  /\ want' = [want EXCEPT ![p] = n]
  /\ Go(p, "lock")
  /\ UNCHANGED <<blockno, data, valid, dirty, lru, holder, drive, asleep>>

bgetMiss(p, n) ==
  /\ At(p, "idle") /\ Cached(n) = {}
  /\ \E b \in Bufs :
       /\ Oldest(b)
       /\ blockno' = [blockno EXCEPT ![b] = n]
       /\ refcnt' = [refcnt EXCEPT ![b] = 1]
       /\ valid' = valid \ {b} /\ dirty' = dirty \ {b} /\ failed' = failed \ {b}
       /\ buf' = [buf EXCEPT ![p] = b]
  /\ want' = [want EXCEPT ![p] = n]
  /\ Go(p, "lock")
  /\ UNCHANGED <<data, lru, holder, idequeue, request, ready, disk, asleep>>

\* panic("bget: no buffers")
bgetPanic(p, n) ==
  /\ At(p, "idle") /\ Cached(n) = {} /\ Unused = {}
  /\ Go(p, "panic")
  /\ UNCHANGED <<bufs, holder, drive, want, buf, asleep>>

-----------------------------------------------------------------------------
(* Sleep locks *)

acquiresleep(p) ==
  LET b == buf[p] IN
  /\ At(p, "lock")
  /\ \/ /\ holder[b] = None
        /\ holder' = [holder EXCEPT ![b] = p]
        /\ Go(p, "check")
        /\ UNCHANGED asleep
     \/ /\ holder[b] # None
        /\ asleep' = asleep \cup {p}
        /\ UNCHANGED <<holder, pc>>
  /\ UNCHANGED <<bufs, drive, want, buf>>

\* wakeup() of those that sleep at l for buffer b
wakeup(l, b) == asleep' = {q \in asleep : ~(pc[q] = l /\ buf[q] = b)}

-----------------------------------------------------------------------------
(* The driver *)

idestart(b) ==
  /\ request' = [block |-> blockno'[b], write |-> b \in dirty', data |-> data'[b]]
  /\ ready' = FALSE

\* Mutated iderw: the disk is started whatever it does.
iderwStart(p) ==
  LET b == buf[p] IN
  /\ idequeue' = Append(idequeue, b)
  /\ idestart(b)
  /\ asleep' = asleep \cup {p}
  /\ Go(p, "io")
  /\ UNCHANGED <<disk, failed>>

\* Append b to the queue, start the disk if it is alone, and sleep.
iderw(p) ==
  LET b == buf[p] IN
  /\ idequeue' = Append(idequeue, b)
  /\ IF idequeue = <<>> THEN idestart(b) ELSE UNCHANGED <<request, ready>>
  /\ asleep' = asleep \cup {p}
  /\ Go(p, "io")
  /\ UNCHANGED <<disk, failed>>

\* The loop around sleep(b, &idelock) ends: only ideintr() wakes a process here,
\* after it has set B_VALID and cleared B_DIRTY, so the loop never sleeps again
\* (WokenDone).
iderwDone(p) ==
  /\ At(p, "io")
  /\ buf[p] \in valid \ dirty
  /\ Go(p, "have")
  /\ UNCHANGED <<bufs, holder, drive, want, buf, asleep>>

\* The disk finishes a command and interrupts.
Disk ==
  /\ request # None /\ ~ready
  /\ ready' = TRUE
  /\ disk' = IF request.write THEN [disk EXCEPT ![request.block] = request.data] ELSE disk
  /\ UNCHANGED <<bufs, holder, idequeue, request, failed, procs>>

\* Mutated ideintr: the next request is not started.
ideintrNoNext ==
  LET b == Head(idequeue) IN
  /\ ready /\ idequeue # <<>>
  /\ \E error \in BOOLEAN :
       /\ b \in dirty => ~error
       /\ data' = [data EXCEPT ![b] = IF b \in dirty \/ error THEN @ ELSE disk[request.block]]
       /\ failed' = IF error THEN failed \cup {b} ELSE failed \ {b}
  /\ valid' = valid \cup {b} /\ dirty' = dirty \ {b}
  /\ wakeup("io", b)
  /\ idequeue' = Tail(idequeue)
  /\ UNCHANGED blockno
  /\ request' = None /\ ready' = FALSE
  /\ UNCHANGED <<refcnt, lru, holder, disk, pc, want, buf>>

\* error: idewait(1) reports one, and the data is not read.
ideintr ==
  LET b == Head(idequeue) IN
  /\ ready /\ idequeue # <<>>
  /\ \E error \in BOOLEAN :
       /\ b \in dirty => ~error
       /\ data' = [data EXCEPT ![b] = IF b \in dirty \/ error THEN @ ELSE disk[request.block]]
       /\ failed' = IF error THEN failed \cup {b} ELSE failed \ {b}
  /\ valid' = valid \cup {b} /\ dirty' = dirty \ {b}
  /\ wakeup("io", b)
  /\ idequeue' = Tail(idequeue)
  /\ UNCHANGED blockno
  /\ IF Len(idequeue) > 1 THEN idestart(idequeue[2]) ELSE request' = None /\ ready' = FALSE
  /\ UNCHANGED <<refcnt, lru, holder, disk, pc, want, buf>>

-----------------------------------------------------------------------------
(* What a process does with a buffer it has locked *)

bread(p) ==
  LET b == buf[p] IN
  /\ At(p, "check")
  /\ UNCHANGED <<bufs, holder, want, buf>>
  /\ \/ b \in valid /\ Go(p, "have") /\ UNCHANGED <<drive, asleep>>
     \/ b \notin valid /\ iderw(p)

\* New contents, and bwrite()
bwrite(p) ==
  LET b == buf[p] IN
  /\ At(p, "have")
  /\ \E v \in Vals : data' = [data EXCEPT ![b] = v]
  /\ dirty' = dirty \cup {b}
  /\ UNCHANGED <<blockno, refcnt, valid, lru, holder, want, buf>>
  /\ iderw(p)

\* New contents, and log_write(), which pins the buffer
log_write(p) ==
  LET b == buf[p] IN
  /\ At(p, "have")
  /\ b \in dirty \/ Cardinality(dirty) < MaxPinned
  /\ \E v \in Vals : data' = [data EXCEPT ![b] = v]
  /\ dirty' = dirty \cup {b}
  /\ UNCHANGED <<blockno, refcnt, valid, lru, holder, drive, procs>>

brelse(p) ==
  LET b == buf[p] IN
  /\ At(p, "have")
  /\ holder' = [holder EXCEPT ![b] = None]
  /\ wakeup("lock", b)
  /\ Go(p, "unref")
  /\ UNCHANGED <<bufs, drive, want, buf>>

\* Buffer b moves to the head of the list, and those before it one place down.
ToFront(b) ==
  LET k == CHOOSE j \in Bufs : lru[j] = b
  IN [i \in Bufs |-> IF i = 1 THEN b ELSE IF i <= k THEN lru[i - 1] ELSE lru[i]]

\* To the head of the list if nobody else waits for it
brelseUnref(p) ==
  LET b == buf[p] IN
  /\ At(p, "unref")
  /\ refcnt' = [refcnt EXCEPT ![b] = @ - 1]
  /\ lru' = IF refcnt'[b] = 0 THEN ToFront(b) ELSE lru
  /\ buf' = [buf EXCEPT ![p] = 0] /\ want' = [want EXCEPT ![p] = None]
  /\ Go(p, "idle")
  /\ UNCHANGED <<blockno, data, valid, dirty, holder, drive, asleep>>

Step(p) ==
  \/ acquiresleep(p) \/ bread(p) \/ iderwDone(p) \/ brelse(p) \/ brelseUnref(p)

Next ==
  \/ \E p \in Procs :
       \/ \E n \in Blocks : bgetHit(p, n) \/ bgetMiss(p, n) \/ bgetPanic(p, n)
       \/ bwrite(p) \/ log_write(p) \/ Step(p)
  \/ Disk \/ ideintr

Spec == Init /\ [][Next]_vars

\* The disk answers, and a process that can run goes on.  Nothing is assumed of
\* acquiresleep(): it has no queue, and a process may find the lock taken again
\* whenever it runs.  Nor has a caller to release its buffer.
Fairness ==
  /\ WF_vars(Disk) /\ WF_vars(ideintr)
  /\ \A p \in Procs : WF_vars(bread(p) \/ iderwDone(p))
FairSpec == Spec /\ Fairness

-----------------------------------------------------------------------------
(* Properties *)

\* The state has its type, in every state the code reaches.
TypeOK ==
  /\ blockno \in [Bufs -> Blocks \cup {None}]
  /\ refcnt \in [Bufs -> Nat]
  /\ data \in [Bufs -> Vals]
  /\ valid \subseteq Bufs /\ dirty \subseteq Bufs /\ failed \subseteq Bufs
  /\ lru \in [Bufs -> Bufs]
  /\ holder \in [Bufs -> Procs \cup {None}]
  /\ idequeue \in Seq(Bufs)
  /\ request \in Requests \cup {None} /\ ready \in BOOLEAN
  /\ disk \in [Blocks -> Vals]
  /\ pc \in [Procs -> Points] /\ want \in [Procs -> Blocks \cup {None}]
  /\ buf \in [Procs -> Bufs \cup {0}] /\ asleep \subseteq Procs

Uses(p) == buf[p] # 0

\* A block is in one buffer at most, and the buffer bget() gave a process is not
\* recycled for another block while the process waits for its lock, sleeps in
\* iderw() or uses it.
RightBlock ==
  /\ \A b, c \in Bufs : blockno[b] = blockno[c] /\ blockno[b] # None => b = c
  /\ \A p \in Procs : Uses(p) => blockno[buf[p]] = want[p]

\* refcnt counts the processes between bget() and the end of brelse(), and no
\* buffer is lost from the list they are found by.
RefcntExact ==
  /\ \A b \in Bufs : refcnt[b] = Cardinality({p \in Procs : buf[p] = b})
  /\ \A b \in Bufs : \E i \in Bufs : lru[i] = b

\* Only one process at a time uses a buffer, from acquiresleep() to brelse().
OneUser ==
  \A p \in Procs : pc[p] \in {"check", "io", "have"} <=> Uses(p) /\ holder[buf[p]] = p

\* A buffer that is valid and not dirty holds what is on disk, whatever writes
\* were queued, unless the read into it failed.
Coherent ==
  \A b \in valid \ (dirty \cup failed) : data[b] = disk[blockno[b]]

\* The disk works on the first buffer of the queue; every buffer in the queue
\* has its process asleep in iderw(), and every process asleep there has its
\* buffer in the queue.  No request is lost, started twice or overtaken.
RequestsServed ==
  /\ (request = None) <=> (idequeue = <<>>)
  /\ request # None => /\ request.block = blockno[Head(idequeue)]
                       /\ request.write <=> Head(idequeue) \in dirty
  /\ \A i, j \in DOMAIN idequeue : idequeue[i] = idequeue[j] => i = j
  /\ {idequeue[i] : i \in DOMAIN idequeue} = {buf[p] : p \in {q \in asleep : pc[q] = "io"}}

\* No wakeup is lost: a process asleep in acquiresleep() waits for a lock that is
\* held, and one that iderw() finds awake has its data.
WokenDone ==
  \A p \in Procs :
    /\ p \in asleep /\ pc[p] = "lock" => holder[buf[p]] # None
    /\ p \notin asleep /\ pc[p] = "io" => buf[p] \in valid \ dirty

\* A process that has the lock of its buffer comes back from bread() or bwrite(),
\* whatever is queued before it, unless the kernel panics.
IoFinishes ==
  \A p \in Procs :
    pc[p] \in {"check", "io"} ~> (pc[p] = "have" \/ \E q \in Procs : pc[q] = "panic")

\* Whatever bget(), acquiresleep(), iderw() and brelse() are in the middle of, a
\* block has one buffer, the buffer its counted users, one of them at a time, and
\* what is valid and clean is what is on disk.
BuffersExact == TypeOK /\ RightBlock /\ RefcntExact /\ OneUser /\ Coherent

\* No request is lost, started twice or overtaken between iderw() and ideintr(),
\* and no process sleeps on a lock that is free or an answer that has come.
NoneForgotten == RequestsServed /\ WokenDone
=============================================================================
