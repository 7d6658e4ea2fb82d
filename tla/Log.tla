-------------------------------- MODULE Log ---------------------------------
(***************************************************************************)
(* The write-ahead log of the file system (log.c): begin_op and end_op     *)
(* bracket every file-system call, log_write records a modified buffer,    *)
(* and the last call of a group commits the group: write_log, write_head   *)
(* (the commit point), install_trans, and write_head again with n = 0.     *)
(* A crash may come between any two disk writes; the next boot runs        *)
(* initlog, that is recover_from_log.                                      *)
(*                                                                         *)
(* A bwrite is one atomic write of one 512-byte block (BSIZE is a sector). *)
(* A panic stops the machine until the next boot.                          *)
(***************************************************************************)
EXTENDS Integers, Sequences, FiniteSets

CONSTANTS Procs,        \* processes that make file-system calls
          Blocks,       \* home block numbers (not the log's own blocks)
          Vals,         \* block contents
          Zero,         \* contents of a block mkfs wrote
          NotCached,    \* a block no buffer holds
          NoBlock,      \* a process that holds no buffer
          MAXOPBLOCKS,  \* param.h: blocks begin_op reserves for one call
          LOGSIZE,      \* param.h: entries of logheader.block
          nlog,         \* superblock: blocks of the log area, header included
          OPBLOCKS      \* distinct blocks one call really writes, at most

ASSUME LogConstants ==
  /\ Zero \in Vals
  /\ NotCached \notin Vals
  /\ NoBlock \notin Blocks
  /\ IsFiniteSet(Procs)
  /\ MAXOPBLOCKS \in Nat /\ LOGSIZE \in Nat /\ nlog \in Nat /\ OPBLOCKS \in Nat
  /\ 0 < MAXOPBLOCKS /\ MAXOPBLOCKS <= LOGSIZE /\ 1 < nlog

VARIABLES
  home,         \* on disk: contents of the home blocks
  head,         \* on disk: the header's block numbers, head.n = Len(head)
  logblk,       \* on disk: contents of log blocks start+1 .. start+nlog-1
  lh,           \* log.lh: block numbers in the log, lh.n = Len(lh)
  outstanding,  \* log.outstanding
  committing,   \* log.committing
  cached,       \* contents of the buffer that holds a home block
  dirty,        \* home blocks whose buffer has B_DIRTY
  pc,           \* where each process is
  buf,          \* the buffer a process in log_write has locked
  wrote,        \* distinct blocks the current call of a process has written
  stage,        \* progress of commit() or of recover_from_log()
  tail,         \* the loop variable of write_log and install_trans
  recovering,   \* initlog has not returned since the last boot
  panicked      \* a panic has stopped the machine

disk == <<home, head, logblk>>
logv == <<lh, outstanding, committing>>
cache == <<cached, dirty>>
procs == <<pc, buf, wrote>>
comm == <<stage, tail, recovering>>
vars == <<disk, logv, cache, procs, comm, panicked>>

PCs == {"idle", "begin_op", "asleep", "inop", "log_write", "commit"}
Stages == {"none", "read_head", "write_log", "install_trans", "end_op"}

Logged == {lh[i] : i \in 1..Len(lh)}

\* The state has its type, in every state the code reaches.
TypeOK ==
  /\ home \in [Blocks -> Vals]
  /\ head \in Seq(Blocks)
  /\ logblk \in [1..(nlog - 1) -> Vals]
  /\ lh \in Seq(Blocks)
  /\ outstanding \in Nat
  /\ committing \in BOOLEAN
  /\ cached \in [Blocks -> Vals \cup {NotCached}]
  /\ dirty \in SUBSET Blocks
  /\ pc \in [Procs -> PCs]
  /\ buf \in [Procs -> Blocks \cup {NoBlock}]
  /\ wrote \in [Procs -> SUBSET Blocks]
  /\ stage \in Stages
  /\ tail \in Nat
  /\ recovering \in BOOLEAN
  /\ panicked \in BOOLEAN

\* Power-on with the disk mkfs made: an empty log and nothing in memory.
Init ==
  /\ home = [b \in Blocks |-> Zero]
  /\ head = <<>>
  /\ logblk = [i \in 1..(nlog - 1) |-> Zero]
  /\ lh = <<>>
  /\ outstanding = 0
  /\ committing = FALSE
  /\ cached = [b \in Blocks |-> NotCached]
  /\ dirty = {}
  /\ pc = [p \in Procs |-> "idle"]
  /\ buf = [p \in Procs |-> NoBlock]
  /\ wrote = [p \in Procs |-> {}]
  /\ stage = "read_head"
  /\ tail = 0
  /\ recovering = TRUE
  /\ panicked = FALSE

-----------------------------------------------------------------------------
(* The buffer cache as log.c uses it.                                      *)

\* What bread(b) returns: the buffer, or the disk block when none holds it.
View(b) == IF cached[b] = NotCached THEN home[b] ELSE cached[b]

Locked(b) == \E p \in Procs : buf[p] = b

\* Some reader has bread() a block into the cache.
Bread(b) ==
  /\ ~panicked
  /\ ~recovering
  /\ cached[b] = NotCached
  /\ cached' = [cached EXCEPT ![b] = home[b]]
  /\ UNCHANGED <<disk, logv, dirty, procs, comm, panicked>>

\* Mutated Evict: bget looks at refcnt only, not at B_DIRTY.
EvictDirty(b) ==
  /\ ~panicked
  /\ cached[b] # NotCached
  /\ ~Locked(b)
  /\ cached' = [cached EXCEPT ![b] = NotCached]
  /\ UNCHANGED <<disk, logv, dirty, procs, comm, panicked>>

\* bget recycles a buffer nobody holds, unless B_DIRTY pins it.
Evict(b) ==
  /\ ~panicked
  /\ cached[b] # NotCached
  /\ ~Locked(b)
  /\ b \notin dirty
  /\ cached' = [cached EXCEPT ![b] = NotCached]
  /\ UNCHANGED <<disk, logv, dirty, procs, comm, panicked>>

-----------------------------------------------------------------------------
(* begin_op, log_write, end_op.                                            *)

\* Mutated Woken: end_op forgets to call wakeup.
WokenNone(pcs) == pcs

\* wakeup(&log): every process asleep in begin_op runs its loop again.
Woken(pcs) == [p \in Procs |-> IF pcs[p] = "asleep" THEN "begin_op" ELSE pcs[p]]

\* A process makes a file-system call; the kernel is up.
Call(p) ==
  /\ ~panicked
  /\ ~recovering
  /\ pc[p] = "idle"
  /\ pc' = [pc EXCEPT ![p] = "begin_op"]
  /\ UNCHANGED <<disk, logv, cache, buf, wrote, comm, panicked>>

\* Mutated MustWait: the reservation of the new call is not counted.
MustWaitOffByOne ==
  \/ committing
  \/ Len(lh) + outstanding * MAXOPBLOCKS > LOGSIZE

\* The two conditions on which begin_op sleeps.
MustWait ==
  \/ committing
  \/ Len(lh) + (outstanding + 1) * MAXOPBLOCKS > LOGSIZE

BeginOp(p) ==
  /\ ~panicked
  /\ pc[p] = "begin_op"
  /\ ~MustWait
  /\ outstanding' = outstanding + 1
  /\ pc' = [pc EXCEPT ![p] = "inop"]
  /\ wrote' = [wrote EXCEPT ![p] = {}]
  /\ UNCHANGED <<disk, lh, committing, cache, buf, comm, panicked>>

BeginOpSleep(p) ==
  /\ ~panicked
  /\ pc[p] = "begin_op"
  /\ MustWait
  /\ pc' = [pc EXCEPT ![p] = "asleep"]
  /\ UNCHANGED <<disk, logv, cache, buf, wrote, comm, panicked>>

\* log_write's two tests, made before it takes log.lock.
LogWritePanics ==
  \/ Len(lh) >= LOGSIZE
  \/ Len(lh) >= nlog - 1
  \/ outstanding < 1

\* The call locks a buffer (bread), modifies it and enters log_write.
Modify(p, b, v) ==
  /\ ~panicked
  /\ pc[p] = "inop"
  /\ ~Locked(b)
  /\ Cardinality(wrote[p] \cup {b}) <= OPBLOCKS
  /\ cached' = [cached EXCEPT ![b] = v]
  /\ buf' = [buf EXCEPT ![p] = b]
  /\ pc' = [pc EXCEPT ![p] = "log_write"]
  /\ panicked' = LogWritePanics
  /\ UNCHANGED <<disk, logv, dirty, wrote, comm>>

\* Under log.lock: append the block number unless it is there already, pin
\* the buffer; the caller then releases the buffer.
Record(p) ==
  /\ ~panicked
  /\ pc[p] = "log_write"
  /\ lh' = IF buf[p] \in Logged THEN lh ELSE Append(lh, buf[p])
  /\ dirty' = dirty \cup {buf[p]}
  /\ wrote' = [wrote EXCEPT ![p] = @ \cup {buf[p]}]
  /\ buf' = [buf EXCEPT ![p] = NoBlock]
  /\ pc' = [pc EXCEPT ![p] = "inop"]
  /\ UNCHANGED <<disk, outstanding, committing, cached, comm, panicked>>

\* The call ends while others are still under way.
EndOp(p) ==
  /\ ~panicked
  /\ pc[p] = "inop"
  /\ outstanding # 1
  /\ outstanding' = outstanding - 1
  /\ panicked' = committing
  /\ pc' = Woken([pc EXCEPT ![p] = "idle"])
  /\ UNCHANGED <<disk, lh, committing, cache, buf, wrote, comm>>

\* The last call under way ends: it commits, if anything was logged.
EndOpLast(p) ==
  /\ ~panicked
  /\ pc[p] = "inop"
  /\ outstanding = 1
  /\ outstanding' = 0
  /\ panicked' = committing
  /\ committing' = TRUE
  /\ pc' = [pc EXCEPT ![p] = "commit"]
  /\ stage' = IF Len(lh) > 0 THEN "write_log" ELSE "end_op"
  /\ tail' = 0
  /\ UNCHANGED <<disk, lh, cache, buf, wrote, recovering>>

-----------------------------------------------------------------------------
(* commit() and recover_from_log(): one step per disk write.               *)

WriteLog ==
  /\ ~panicked
  /\ stage = "write_log"
  /\ tail < Len(lh)
  /\ ~Locked(lh[tail + 1])
  /\ logblk' = [logblk EXCEPT ![tail + 1] = View(lh[tail + 1])]
  /\ cached' = [cached EXCEPT ![lh[tail + 1]] = View(lh[tail + 1])]
  /\ tail' = tail + 1
  /\ UNCHANGED <<home, head, logv, dirty, procs, stage, recovering, panicked>>

\* Mutated WriteHead: the header goes to disk before the log blocks.
WriteHeadEarly ==
  /\ ~panicked
  /\ stage = "write_log"
  /\ tail = 0
  /\ head' = lh
  /\ stage' = "install_trans"
  /\ tail' = 0
  /\ UNCHANGED <<home, logblk, logv, cache, procs, recovering, panicked>>

\* write_head after write_log: the commit point.
WriteHead ==
  /\ ~panicked
  /\ stage = "write_log"
  /\ tail = Len(lh)
  /\ head' = lh
  /\ stage' = "install_trans"
  /\ tail' = 0
  /\ UNCHANGED <<home, logblk, logv, cache, procs, recovering, panicked>>

\* read_head: the first step of recovery.
ReadHead ==
  /\ ~panicked
  /\ stage = "read_head"
  /\ lh' = head
  /\ stage' = "install_trans"
  /\ tail' = 0
  /\ UNCHANGED <<disk, outstanding, committing, cache, procs, recovering, panicked>>

\* Copy one log block to its home; bwrite leaves its buffer clean.
InstallTrans ==
  /\ ~panicked
  /\ stage = "install_trans"
  /\ tail < Len(lh)
  /\ ~Locked(lh[tail + 1])
  /\ home' = [home EXCEPT ![lh[tail + 1]] = logblk[tail + 1]]
  /\ cached' = [cached EXCEPT ![lh[tail + 1]] = logblk[tail + 1]]
  /\ dirty' = dirty \ {lh[tail + 1]}
  /\ tail' = tail + 1
  /\ UNCHANGED <<head, logblk, logv, procs, stage, recovering, panicked>>

\* lh.n = 0 and write_head: the transaction leaves the log.
Erase ==
  /\ ~panicked
  /\ stage = "install_trans"
  /\ tail = Len(lh)
  /\ lh' = <<>>
  /\ head' = <<>>
  /\ tail' = 0
  /\ stage' = IF recovering THEN "none" ELSE "end_op"
  /\ recovering' = FALSE
  /\ UNCHANGED <<home, logblk, outstanding, committing, cache, procs, panicked>>

\* The end of end_op after commit(): committing = 0, wakeup(&log).
CommitDone(p) ==
  /\ ~panicked
  /\ stage = "end_op"
  /\ pc[p] = "commit"
  /\ committing' = FALSE
  /\ pc' = Woken([pc EXCEPT ![p] = "idle"])
  /\ stage' = "none"
  /\ UNCHANGED <<disk, lh, outstanding, cache, buf, wrote, tail, recovering, panicked>>

\* Power fails, or the operator reboots after a panic: memory is lost.
Crash ==
  /\ UNCHANGED disk
  /\ lh' = <<>>
  /\ outstanding' = 0
  /\ committing' = FALSE
  /\ cached' = [b \in Blocks |-> NotCached]
  /\ dirty' = {}
  /\ pc' = [p \in Procs |-> "idle"]
  /\ buf' = [p \in Procs |-> NoBlock]
  /\ wrote' = [p \in Procs |-> {}]
  /\ stage' = "read_head"
  /\ tail' = 0
  /\ recovering' = TRUE
  /\ panicked' = FALSE

-----------------------------------------------------------------------------
Committer ==
  \/ WriteLog
  \/ WriteHead
  \/ ReadHead
  \/ InstallTrans
  \/ Erase
  \/ \E p \in Procs : CommitDone(p)

Process(p) ==
  \/ Call(p)
  \/ BeginOp(p)
  \/ BeginOpSleep(p)
  \/ \E b \in Blocks, v \in Vals : Modify(p, b, v)
  \/ Record(p)
  \/ EndOp(p)
  \/ EndOpLast(p)

Cache == \E b \in Blocks : Bread(b) \/ Evict(b)

Next ==
  \/ \E p \in Procs : Process(p)
  \/ Committer
  \/ Cache
  \/ Crash

Spec == Init /\ [][Next]_vars

\* A runnable process runs, the disk completes its writes, and a system call
\* writes finitely many blocks before end_op (hence the strong fairness).
Fairness ==
  /\ WF_vars(Committer)
  /\ \A p \in Procs :
       /\ WF_vars(BeginOp(p) \/ BeginOpSleep(p))
       /\ WF_vars(Record(p))
       /\ SF_vars(EndOp(p) \/ EndOpLast(p))

FairSpec == Spec /\ Fairness

-----------------------------------------------------------------------------
(* Properties.                                                             *)

\* Processes between begin_op and end_op.
Active == {p \in Procs : pc[p] \in {"inop", "log_write"}}

\* No log_write or end_op of log.c panics: the space begin_op reserved is
\* enough, and no call ends while a commit is under way.
NoPanic == ~panicked

\* What a call must leave of its reservation for log_write never to panic:
\* log_write tests for room even when the block is absorbed, and the log area
\* holds the header besides the data blocks.
ReservationSuffices ==
  /\ OPBLOCKS < MAXOPBLOCKS
  /\ LOGSIZE + OPBLOCKS + 1 < nlog + MAXOPBLOCKS

\* Besides not panicking, the group always fits both the header's block array
\* and the log area mkfs laid out, although log_write tests for room before
\* it takes log.lock and other calls may append in between.
LogSpace == NoPanic /\ Len(lh) <= LOGSIZE /\ Len(lh) < nlog

\* log.outstanding counts exactly the calls under way, and a commit runs only
\* when there is none: it never writes a part of a call.
OutstandingExact ==
  /\ outstanding = Cardinality(Active)
  /\ committing => Active = {}

\* Log absorption: a block has one slot in the log however often it is written.
Absorbed == \A i, j \in 1..Len(lh) : lh[i] = lh[j] => i = j

\* The log's entries that install_trans has not copied home yet.
Uninstalled ==
  {lh[i] : i \in (IF stage = "install_trans" THEN tail + 1 ELSE 1)..Len(lh)}

\* A logged block stays pinned in the cache until it is installed, and a
\* buffer that is neither pinned nor locked equals its disk block, so bget may
\* recycle it without losing anything.
Pinned ==
  ~recovering =>
     /\ \A b \in Uninstalled : b \in dirty /\ cached[b] # NotCached
     /\ \A b \in Blocks \ dirty : ~Locked(b) => cached[b] \in {home[b], NotCached}

\* What the next boot would find: the home blocks with the on-disk log, if its
\* header is not empty, installed over them.
Recovered ==
  [b \in Blocks |->
     IF \E i \in 1..Len(head) : head[i] = b
     THEN logblk[CHOOSE i \in 1..Len(head) : head[i] = b]
     ELSE home[b]]

CurrentView == IF recovering THEN Recovered ELSE [b \in Blocks |-> View(b)]

AD == INSTANCE AtomicDisk WITH
        store <- Recovered, volatile <- CurrentView,
        active <- Active, sealed <- committing

\* The log implements the atomic disk: whatever step a crash interrupts, in
\* commit() or in recovery itself, a reboot finds whole groups of calls only,
\* and the last end_op of a group returns after the group is durable.
ImplementsAtomicDisk == AD!ASpec

\* No lost wakeup: a process that sleeps in begin_op is always woken again.
WaiterWoken == \A p \in Procs : pc[p] = "asleep" ~> pc[p] # "asleep"

\* In every state the code reaches: the counts have their types, log.outstanding
\* is exact and a commit has no call under way (begin_op, end_op), no block has
\* two slots (log_write), and what is logged stays pinned until installed.
LogSafe == TypeOK /\ OutstandingExact /\ Absorbed /\ Pinned
=============================================================================
