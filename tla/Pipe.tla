-------------------------------- MODULE Pipe --------------------------------
(* One pipe (pipe.c), from pipealloc() to the kfree() of its page, and the   *)
(* processes that hold its two ends.                                         *)
(*                                                                           *)
(* p->lock is held from acquire() to release() or sleep(), so the loops of   *)
(* pipewrite() and piperead() are steps of the process that holds it.  The   *)
(* counters nread and nwrite are unsigned and wrap.                          *)
EXTENDS Integers, Sequences, FiniteSets

CONSTANTS Procs,
          Readers, Writers,  \* who holds an end first
          Bytes,
          PIPESIZE,
          UintRange,         \* the counters wrap at this value, 2^32 in the code
          MaxBytes,          \* bound: the n of one read or write
          Free               \* nobody holds the lock

\* The counters wrap at a multiple of the buffer size, as 2^32 does of 512;
\* otherwise nwrite % PIPESIZE would jump.
ASSUME PipeConstants ==
  /\ PIPESIZE \in Nat \ {0} /\ UintRange \in Nat /\ MaxBytes \in Nat
  /\ \E k \in 2 .. UintRange : UintRange = k * PIPESIZE
  /\ Readers \subseteq Procs /\ Writers \subseteq Procs
  /\ Free \notin Procs

VARIABLES data, nread, nwrite,
          open,      \* the ends whose readopen or writeopen is set
          page,      \* "pipe", or "free" after kfree()
          lock,      \* the process that holds p->lock
          rfd, wfd,  \* the processes with a descriptor of an end
          pc,        \* what a process does in pipe.c
          left,      \* n - i: the bytes it has still to transfer
          asleep,    \* the processes in sleep() on &nread or &nwrite
          killed     \* the processes that were ever killed

pvars == <<data, nread, nwrite, open, page>>
vars == <<data, nread, nwrite, open, page, lock, rfd, wfd, pc, left, asleep, killed>>

\* write: in pipewrite().  read: before the copying loop of piperead(), copy:
\* in it.  wsleep, rsleep: p->killed was tested, sleep() comes next.  closer,
\* closew: in pipeclose().  free: about to call kfree().
Points == {"user", "write", "wsleep", "read", "rsleep", "copy", "closer",
           "closew", "free"}

Init ==
  /\ data \in [0 .. PIPESIZE - 1 -> Bytes]
  /\ nread = 0 /\ nwrite = 0
  /\ open = {"read", "write"} /\ page = "pipe"
  /\ lock = Free
  /\ rfd = Readers /\ wfd = Writers
  /\ pc = [p \in Procs |-> "user"]
  /\ left = [p \in Procs |-> 0]
  /\ asleep = {} /\ killed = {}

Empty == nread = nwrite
\* Mutant: the sum is not cut to the width of the counters.
FullUncut == nwrite = nread + PIPESIZE

Full == nwrite = (nread + PIPESIZE) % UintRange

\* wakeup(&nread) finds the sleeping readers, wakeup(&nwrite) the writers.
wakeup(l) == asleep' = {p \in asleep : pc[p] # l}

\* A call of pipe.c starts at l, to transfer n bytes.
Enter(p, l, n) ==
  /\ pc' = [pc EXCEPT ![p] = l]
  /\ left' = [left EXCEPT ![p] = n]
  /\ UNCHANGED <<pvars, lock, asleep>>

\* release(&p->lock) and return.
Leave(p) ==
  /\ pc' = [pc EXCEPT ![p] = "user"]
  /\ left' = [left EXCEPT ![p] = 0]
  /\ lock' = Free

\* The next point of a call that keeps the lock.
Goto(p, l) ==
  /\ pc' = [pc EXCEPT ![p] = l]
  /\ UNCHANGED <<pvars, lock, rfd, wfd, left, asleep, killed>>

\* sleep(chan, &p->lock), in the loop at l
SleepOn(p, l) ==
  /\ lock' = Free
  /\ pc' = [pc EXCEPT ![p] = l]
  /\ UNCHANGED <<pvars, rfd, wfd, left, killed>>

\* acquire(), also the one at the end of sleep().
Acquire(p) ==
  /\ pc[p] \notin {"user", "free"} /\ p \notin asleep /\ lock = Free
  /\ lock' = p
  /\ UNCHANGED <<pvars, rfd, wfd, pc, left, asleep, killed>>

Holds(p, l) == lock = p /\ pc[p] = l

-----------------------------------------------------------------------------
(* pipewrite() *)

Write(p, n) ==
  /\ pc[p] = "user" /\ p \in wfd /\ p \notin killed
  /\ Enter(p, "write", n)
  /\ UNCHANGED <<rfd, wfd, killed>>

WriteByte(p) ==
  /\ Holds(p, "write") /\ left[p] > 0 /\ ~Full
  /\ \E b \in Bytes : data' = [data EXCEPT ![nwrite % PIPESIZE] = b]
  /\ nwrite' = (nwrite + 1) % UintRange
  /\ left' = [left EXCEPT ![p] = @ - 1]
  /\ UNCHANGED <<nread, open, page, lock, rfd, wfd, pc, asleep, killed>>

WriteFails(p) ==
  /\ Holds(p, "write") /\ left[p] > 0 /\ Full
  /\ "read" \notin open \/ p \in killed
  /\ Leave(p)
  /\ UNCHANGED <<pvars, rfd, wfd, asleep, killed>>

WriteCheck(p) ==
  /\ Holds(p, "write") /\ left[p] > 0 /\ Full
  /\ "read" \in open /\ p \notin killed
  /\ Goto(p, "wsleep")

WriteSleep(p) ==
  /\ Holds(p, "wsleep")
  /\ asleep' = {q \in asleep : pc[q] # "read"} \cup {p}
  /\ SleepOn(p, "write")

WriteDone(p) ==
  /\ Holds(p, "write") /\ left[p] = 0
  /\ wakeup("read")
  /\ Leave(p)
  /\ UNCHANGED <<pvars, rfd, wfd, killed>>

-----------------------------------------------------------------------------
(* piperead() *)

Read(p, n) ==
  /\ pc[p] = "user" /\ p \in rfd /\ p \notin killed
  /\ Enter(p, "read", n)
  /\ UNCHANGED <<rfd, wfd, killed>>

ReadCheck(p) ==
  /\ Holds(p, "read") /\ Empty /\ "write" \in open /\ p \notin killed
  /\ Goto(p, "rsleep")

ReadSleep(p) ==
  /\ Holds(p, "rsleep")
  /\ asleep' = asleep \cup {p}
  /\ SleepOn(p, "read")

ReadFails(p) ==
  /\ Holds(p, "read") /\ Empty /\ "write" \in open /\ p \in killed
  /\ Leave(p)
  /\ UNCHANGED <<pvars, rfd, wfd, asleep, killed>>

ReadStart(p) ==
  /\ Holds(p, "read") /\ ~(Empty /\ "write" \in open)
  /\ Goto(p, "copy")

ReadByte(p) ==
  /\ Holds(p, "copy") /\ left[p] > 0 /\ ~Empty
  /\ nread' = (nread + 1) % UintRange
  /\ left' = [left EXCEPT ![p] = @ - 1]
  /\ UNCHANGED <<data, nwrite, open, page, lock, rfd, wfd, pc, asleep, killed>>

\* Mutant: no wakeup(&p->nwrite).
ReadDoneSilent(p) ==
  /\ Holds(p, "copy") /\ (left[p] = 0 \/ Empty)
  /\ Leave(p)
  /\ UNCHANGED <<pvars, rfd, wfd, asleep, killed>>

ReadDone(p) ==
  /\ Holds(p, "copy") /\ (left[p] = 0 \/ Empty)
  /\ wakeup("write")
  /\ Leave(p)
  /\ UNCHANGED <<pvars, rfd, wfd, killed>>

-----------------------------------------------------------------------------
(* The last fileclose() of an end calls pipeclose(). *)

CloseFd(p) ==
  /\ pc[p] = "user"
  /\ \/ /\ p \in rfd /\ rfd' = rfd \ {p} /\ UNCHANGED wfd
        /\ Enter(p, IF rfd' = {} THEN "closer" ELSE "user", 0)
     \/ /\ p \in wfd /\ wfd' = wfd \ {p} /\ UNCHANGED rfd
        /\ Enter(p, IF wfd' = {} THEN "closew" ELSE "user", 0)
  /\ UNCHANGED killed

\* Mutant: the page is freed when either end is closed.
PipecloseEither(p) ==
  /\ Holds(p, "closer") \/ Holds(p, "closew")
  /\ open' = open \ {IF pc[p] = "closew" THEN "write" ELSE "read"}
  /\ wakeup(IF pc[p] = "closew" THEN "read" ELSE "write")
  /\ lock' = Free
  /\ pc' = [pc EXCEPT ![p] = "free"]
  /\ UNCHANGED <<data, nread, nwrite, page, rfd, wfd, left, killed>>

\* Mutant: closing the write end wakes nobody.
PipecloseSilent(p) ==
  /\ Holds(p, "closer") \/ Holds(p, "closew")
  /\ open' = open \ {IF pc[p] = "closew" THEN "write" ELSE "read"}
  /\ IF pc[p] = "closew" THEN UNCHANGED asleep ELSE wakeup("write")
  /\ lock' = Free
  /\ pc' = [pc EXCEPT ![p] = IF open' = {} THEN "free" ELSE "user"]
  /\ UNCHANGED <<data, nread, nwrite, page, rfd, wfd, left, killed>>

pipeclose(p) ==
  /\ Holds(p, "closer") \/ Holds(p, "closew")
  /\ open' = open \ {IF pc[p] = "closew" THEN "write" ELSE "read"}
  /\ wakeup(IF pc[p] = "closew" THEN "read" ELSE "write")
  /\ lock' = Free
  /\ pc' = [pc EXCEPT ![p] = IF open' = {} THEN "free" ELSE "user"]
  /\ UNCHANGED <<data, nread, nwrite, page, rfd, wfd, left, killed>>

FreePage(p) ==
  /\ pc[p] = "free"
  /\ page' = "free"
  /\ pc' = [pc EXCEPT ![p] = "user"]
  /\ UNCHANGED <<data, nread, nwrite, open, lock, rfd, wfd, left, asleep, killed>>

-----------------------------------------------------------------------------
(* fork() and kill() *)

Fork(p, q) ==
  /\ pc[p] = "user" /\ p \notin killed /\ p \in rfd \cup wfd
  /\ pc[q] = "user" /\ q \notin rfd \cup wfd \cup killed
  /\ rfd' = IF p \in rfd THEN rfd \cup {q} ELSE rfd
  /\ wfd' = IF p \in wfd THEN wfd \cup {q} ELSE wfd
  /\ UNCHANGED <<pvars, lock, pc, left, asleep, killed>>

Kill(p) ==
  /\ p \in rfd \cup wfd
  /\ killed' = killed \cup {p}
  /\ asleep' = asleep \ {p}
  /\ UNCHANGED <<pvars, lock, rfd, wfd, pc, left>>

\* The steps pipe.c takes once it was called.
Call(p) ==
  \/ WriteByte(p) \/ WriteFails(p) \/ WriteCheck(p) \/ WriteSleep(p) \/ WriteDone(p)
  \/ ReadCheck(p) \/ ReadSleep(p) \/ ReadFails(p) \/ ReadStart(p) \/ ReadByte(p)
  \/ ReadDone(p) \/ pipeclose(p) \/ FreePage(p)

Next ==
  \/ \E p \in Procs : Call(p) \/ Acquire(p) \/ CloseFd(p) \/ Kill(p)
  \/ \E p \in Procs, n \in 0 .. MaxBytes : Write(p, n) \/ Read(p, n)
  \/ \E p, q \in Procs : Fork(p, q)

Spec == Init /\ [][Next]_vars

\* A process in the kernel goes on, and no CPU loses the race for a spinlock
\* for ever.
Fairness == \A p \in Procs : WF_vars(Call(p)) /\ SF_vars(Acquire(p))
FairSpec == Spec /\ Fairness

-----------------------------------------------------------------------------
(* Properties *)

\* The state has its type, in every state the code reaches.
TypeOK ==
  /\ data \in [0 .. PIPESIZE - 1 -> Bytes]
  /\ nread \in 0 .. UintRange - 1 /\ nwrite \in 0 .. UintRange - 1
  /\ open \subseteq {"read", "write"} /\ page \in {"pipe", "free"}
  /\ lock \in Procs \cup {Free}
  /\ rfd \subseteq Procs /\ wfd \subseteq Procs
  /\ pc \in [Procs -> Points]
  /\ left \in [Procs -> 0 .. MaxBytes]
  /\ asleep \subseteq Procs /\ killed \subseteq Procs

\* The bytes between nread and nwrite, oldest first.
Used == (nwrite - nread) % UintRange
Waiting ==
  [i \in 1 .. Used |-> data[((nread + i - 1) % UintRange) % PIPESIZE]]

\* With any number of readers and writers, across the wrap of the ring and of
\* the counters, pipewrite() and piperead() move bytes as a bounded queue does:
\* none lost, repeated, reordered or overwritten, none after its end is closed.
F == INSTANCE Fifo WITH queue <- Waiting, ends <- open, Size <- PIPESIZE
ImplementsFifo == F!FSpec

\* No wakeup is lost: when p->lock is free, a process asleep in pipewrite()
\* has a full pipe with a reader before it, one asleep in piperead() an empty
\* pipe with a writer.  Of readers this is said only while nobody has been
\* killed: a writer killed in pipewrite() with the pipe full returns without
\* wakeup(&p->nread), and a reader sleeps on although there are bytes, for as long
\* as other writers keep the end open and do not write.
SleepersMustWait ==
  lock = Free =>
    \A p \in asleep :
      /\ pc[p] = "write" => Full /\ "read" \in open
      /\ pc[p] = "read" => (Empty \/ killed # {}) /\ "write" \in open

\* The page is given back once, by the last pipeclose(), when no process is in
\* pipe.c any more and none holds a descriptor.
PageOutlivesUse ==
  /\ page = "free" => rfd = {} /\ wfd = {} /\ \A p \in Procs : pc[p] = "user"
  /\ \A p, q \in Procs : pc[p] = "free" /\ pc[q] # "user" => p = q

\* A call returns if the other end is closed (the reader of a pipe without
\* writers sees the end of the file, the writer of one without readers is
\* refused), or if its process was killed before the test of p->killed.  A kill
\* between that test and sleep() is left out: see KilledReturns.
CallsReturn ==
  \A p \in Procs :
    (\/ pc[p] \in {"read", "rsleep", "copy"} /\ "write" \notin open
     \/ pc[p] \in {"write", "wsleep"} /\ "read" \notin open
     \/ p \in killed \ asleep /\ pc[p] \notin {"rsleep", "wsleep"}) ~> pc[p] = "user"

\* kill() wakes a process from its sleep, so that it returns to user space and
\* exits there: a killed process leaves pipe.c.
KilledReturns == \A p \in Procs : p \in killed ~> pc[p] = "user"

\* The counters keep to their width, and the page is given back once, by the last
\* pipeclose(), when nobody is in pipe.c any more.
PipeSound == TypeOK /\ PageOutlivesUse
=============================================================================
