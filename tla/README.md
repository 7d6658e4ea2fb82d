# A TLA+ model of the xv6 kernel in this repository

The repository is the x86 teaching kernel xv6 with a `chmod` system call, a mode
in every inode, and the commands `chmod`, `clear`, `factor`, `split`, `base64`
and an `ls` that prints modes.  The modules in this directory model the kernel's
parts whose correctness depends on the order of steps of several processes,
CPUs, interrupts, the disk and crashes, and the programs and routines whose
result is easy to get wrong.  TLC checks them on small instances; TLAPS proves
the most important properties for every value of the constants.

File names below are relative to `src/`.

## The system and its parts

| part | state | operations | what is hard about it |
|---|---|---|---|
| write-ahead log, `log.c` | `log.lh`, `outstanding`, `committing`, log area on disk | `begin_op`, `log_write`, `end_op`, `commit`, recovery | crash between any two writes; room tests outside the lock; wakeups |
| processes, `proc.c`, `trap.c`, `sysproc.c` | `ptable`, `cpu->proc`, `ptable.lock` | `fork`, `exit`, `wait`, `kill`, `sleep`, `wakeup`, `yield`, `scheduler` | state changes before the kernel stack is left; reparenting; lost wakeups |
| pipes, `pipe.c` | ring buffer, wrapping counters, open ends | `pipewrite`, `piperead`, `pipeclose` | several readers and writers, close and kill while others sleep |
| inodes and names, `fs.c`, `sysfile.c` | inode cache, inodes and directories on disk | `iget`, `ilock`, `iput`, `namex`, `link`, `unlink`, `create`, `open`, `chdir`, `chmod` | two locks at a time; references against links; removed directories |
| buffer cache and disk, `bio.c`, `ide.c` | buffer list, request queue | `bread`, `bwrite`, `brelse`, `iderw`, `ideintr` | one buffer per block; interrupt against sleep |
| file contents, `fs.c` | bitmap, block lists | `balloc`, `bfree`, `bmap`, `itrunc`, `readi`, `writei` | each block has one owner; a write fits its transaction |
| file table, `file.c` | `ftable`, descriptors | `filealloc`, `filedup`, `fileclose`, `filewrite`, `pipe` | shared offsets, partial failure |
| memory, `kalloc.c`, `vm.c`, `exec.c`, `syscall.c` | free list, page tables, sizes | `kalloc`, `allocuvm`, `copyuvm`, `exec`, `growproc`, `argptr` | error paths that must give everything back; sums that wrap |
| console, `console.c` | line buffer with three indices | `consoleintr`, `consoleread` | editing against reading, wrap, `^D` |
| spin locks and interrupts, `spinlock.c`, `proc.c`, `trap.c` | `locked`, `ncli`, `intena`, the interrupt flag | `acquire`, `release`, `pushcli`, `popcli`, `sched`, `trap` | an interrupt between any two steps; threads that change CPU |
| shell, `sh.c` | a tree, processes, descriptors | `parsecmd`, `runcmd` | pipe ends that stay open; order of programs |
| user library, `umalloc.c`, `ulib.c`, `printf.c` | free ring | `malloc`, `free` | merging around gaps |
| image builder, `mkfs.c` | the image | `ialloc`, `iappend`, `balloc` | must agree with the kernel's lookup |
| devices, `kbd.c`, `console.c`, `sysproc.c` | shift state, screen, ticks | `kbdgetc`, `cgaputc`, `sys_sleep` | codes of two bytes; the screen's edges; ticks that wrap |
| commands and boot loader | none | `factor`, `base64`, `split`, `chmod`, `ls`, `wc`, `grep`, `bootmain` | arithmetic and buffers at the edges |

How they interact: every file-system call runs between `begin_op()` and
`end_op()`; inodes and directories are read and written through buffers, and
`log_write` pins a buffer until its group is committed.  `fork` and `exit` copy
and close the descriptors that keep pipes and inodes alive.  Everything that
waits uses `sleep()` and `wakeup()` of `proc.c`.

`PROJECT.json` lists all components with their status, the hazards with the
line where each bites, and for every definition the lines it models.

## Modules

| module | models | state and actions |
|---|---|---|
| `AtomicDisk` | what the log promises | durable and volatile contents; `Commit` replaces one by the other when no call is under way |
| `Log` | `log.c`, and of `bio.c` what the log needs | disk blocks, log header, cache; one action per piece of a call between two points where another process, or a crash, can come in |
| `LogProofs`, `LogRefinement` | | proofs: control and space; data and refinement |
| `Proc` | `proc.c`, the killed tests and the timer of `trap.c`, `sys_sleep` | the process table, who is on which kernel stack, `ptable.lock` |
| `ProcProofs` | | proofs |
| `Fifo` | what a pipe promises | a bounded queue with two ends |
| `Pipe` | `pipe.c` | ring buffer and counters, `p->lock`, what each process does in `pipe.c` |
| `PipeProofs` | | proofs |
| `Inode` | inode cache, directories and path names of `fs.c`, the name-space calls of `sysfile.c` | inodes on disk and in the cache, directory entries, locks, references, where each call is |
| `Buf` | `bio.c`, `sleeplock.c`, `ide.c` | buffers, their list and locks, the request queue, the disk, where each process is in `bread`, `bwrite` or `brelse` |
| `BufProofs` | | proofs |
| `Spinlock` | `spinlock.c`; `mycpu`, `myproc`, `sched`, `scheduler`, `forkret` of `proc.c`; the timer interrupt of `trap.c` | locks, interrupt flags, `ncli`, `intena`; what each context has still to execute, as a sequence of machine-level steps |
| `SpinlockPaths`, `SpinlockSteps`, `SpinlockProofs` | | proofs: the annotation of the code; steps that stay with their context; switches and theorems |
| `Memory` | `kalloc.c`, `vm.c`, `exec.c`, `growproc`, the argument checks of `syscall.c` | the free list, an address space per process and the one it is building, where each process is in its call; one action per `kalloc()` |
| `Contents` | blocks and block lists of `fs.c` | operators from disk and inode to disk and inode |
| `OpenFiles` | what open files promise | sequences of bytes and shared offsets |
| `Files` | `file.c`, the descriptor calls of `sysfile.c`, the ends of pipes | file table, descriptors, inodes with their contents, where each call is |
| `Terminal` | what console input promises | an edited line followed by a queue |
| `Console` | `consoleintr` and `consoleread` | the ring and its three indices, `cons.lock`, the readers |
| `Shell` | `sh.c` | the line, its tree, the processes with their descriptors and what each has still to do |
| `Malloc` | `umalloc.c` | headers, `freep`, the blocks handed out |
| `Mkfs` | `mkfs.c` | the image, the next inode and block; read back with `Contents` |
| `Grep` | `grep.c` | the buffer, the input not read, the output |
| `Directory` | path elements and directory entries, `fs.c`, `string.c` | entries per directory, and what was asked for |
| `Devices` | `kbd.c`, `cgaputc`, `sys_sleep` | three machines, each with the device or clock it talks to |
| `Routines` | the computing parts of the commands, of the libraries and of `bootmain.c` | a call and what it returned |
| `MC...` | instances for TLC (`Spinlock` is run as it is); `MCPrograms` runs `Console` and the seven modules from `Shell` on side by side, one of them per behaviour; `MCRoutines` and `MCMkfs` run `Routines` and `Mkfs` alone | |

Definitions keep the names of the functions they model.  Where a function gives
up a lock, sleeps or writes to disk in the middle, it is several actions; what
it does in between is one.  A definition that comes right before one with a
similar name, is mapped to no code and is used nowhere, is a faulty version of
the next (*mutated*); putting it in its place makes a property fail, which shows
that the property depends on that piece of code.

Most runs check an invariant that is a conjunction of named ones, which are
given with a comment each in the module; the sections below name the parts in
parentheses.

### The log (`Log`)

A process calls `begin_op` (`Call`, `BeginOp`, `BeginOpSleep`), locks a buffer
and changes it (`Modify`, which also makes `log_write`'s tests), appends it to
the log (`Record`) and ends (`EndOp`).  The last call of a group commits
(`EndOpLast`, `WriteLog`, `WriteHead`, `InstallTrans`, `Erase`, `CommitDone`),
one disk write per step.  `Crash` may happen at any time, also during recovery.
`Bread` and `Evict` are the buffer cache: a buffer may be dropped when it is
neither locked nor dirty.

* `log` (two processes, three blocks, `nlog = LOGSIZE = 4`, calls of one block
  against a reservation of two): `LogSafe` (`TypeOK`, `OutstandingExact`,
  `Absorbed`, `Pinned`); `LogSpace`, no panic and no overflow although
  `log_write` tests for room without the lock; the refinement
  `ImplementsAtomicDisk`; and `WaiterWoken` under the fairness below.  The
  bounds make calls wait for space, and absorption, partly written logs and
  partly installed logs all happen.

Also seen: three calls that each use the whole of `MAXOPBLOCKS` would panic in
`log_write`, because `mkfs` counts the header in `nlog` and `log_write` tests
`log.size - 1`; `param.h` reads as if that many fit.  The calls in this
repository write fewer, and `ReservationSuffices` states how many are safe.

### Processes (`Proc`)

A CPU is in its scheduler loop or on the stack of a process.  `ptable.lock` is
taken by one thread and released by another across `swtch`; the steps are cut
there, so a zombie that has not left its stack is visible to the model as it is
to another CPU.  `killed` is tested without the lock `kill()` holds, hence the
test and the `sleep()` of `sys_sleep` are separate steps.

* `proc_table` (two CPUs, three slots, `kill` of any pid, `init` may exit and
  panic): `StackExclusive`; `FamilySound` (`TypeOK`, `ParentAlive`,
  `UniquePids`, `ExitNoticed`); `ZombieUntilWait`.  Three slots give a
  grandchild that `init` inherits.  `UniquePids` holds while `nextpid`, an int, has
  not run through its range; `MaxPid` stays below that.
* `proc_live` (one CPU): `KilledExits`, `ReadyRuns`, `InheritedReaped`.

### Pipes (`Pipe`)

* `pipe` (two processes that hold both ends, `PIPESIZE` 2, counters modulo 4,
  reads and writes of up to 3 bytes, so that a write does not fit and the
  counters wrap): `SleepersMustWait`; `PipeSound` (`TypeOK`,
  `PageOutlivesUse`); the refinement `ImplementsFifo`; and `CallsReturn`.

A behaviour worth knowing, which no comment of the code contradicts: a killed
writer that has filled the pipe returns at `pipe.c:88` without
`wakeup(&p->nread)`.  A reader that went to sleep before stays asleep although
there is data.  `SleepersMustWait` therefore speaks of sleeping readers only while
nobody has been killed: the writer has closed its ends and gone when its reader is
seen to sleep, so an exception for killed writers that still have the pipe open is
too narrow.  A kill that comes between the test of `killed` and `sleep()` is not
noticed by the process killed; see `KilledReturns` below.  `CallsReturn` says what
holds all the same: a call returns if the other end acts.

### Inodes and names (`Inode`)

A step is what a call does between taking an inode's lock and releasing it,
unless it waits for a second lock meanwhile.  `iput` is four actions, because it
reads the reference count, frees the inode, clears `valid` and decrements the
count at points where others may come in.  The cache is indexed by inode number:
`iget` only ever finds an entry with `ref > 0`, so what an entry held before it
was recycled cannot be seen (the view of `MCInode` uses the same fact).  All
panics are the action `panic`.  `lost` counts the references `chmod` keeps.

* `inode` (two processes, root and two more inodes, two names, paths of up to
  two names, a relative path with `..`): `CacheExact` (`TypeOK`, `RefsCounted`,
  `WriteThrough`), `InUseAllocated`, `LinksSuffice`.  One process makes, enters
  and opens what the other links, removes and changes the mode of; three inodes
  allow a directory with a file, or with a directory, in it.  A link to a name
  that exists must undo what it has counted.
* `inode_chmod` (violation): `chmod` never gives its reference back.

Also seen: `link`, `create` and `mkdir` into a directory that was removed while
it was somebody's current directory succeed, so a file may keep a link no entry
stands for (`LinksSuffice` therefore says "at least as many links as entries");
the `..` of a removed directory may name a freed inode, and a path through it
panics in `ilock`; `sys_chmod` walks the path outside a transaction; a negative
mode passes the test `mode > 511`.

### Buffers and the disk (`Buf`)

`bread` is `bgetHit` or `bgetMiss` (under `bcache.lock`), `acquiresleep`, the test
of `B_VALID` (`bread`) and, on a miss, `iderw`; `brelse` gives the sleep lock up
and then, under `bcache.lock` again, the reference.  `Disk` is the drive; it is
external, and interrupts once per command.  A read may fail: `ideintr` then marks
the buffer valid all the same, and the history variable `failed` remembers it.

* `buf` (two processes, two buffers, three blocks, two values, one pinned buffer,
  so that buffers are recycled and `bget` may find none): `BuffersExact`
  (`TypeOK`, `RightBlock`, `RefcntExact`, `OneUser`, `Coherent`);
  `NoneForgotten` (`RequestsServed`, `WokenDone`); `IoFinishes`.

What does not hold, and is not claimed: that every `bread` returns.
`acquiresleep` has no queue, and TLC finds a behaviour in which one process
takes the buffer again before the one it woke has run, each time.  `IoFinishes`
therefore starts where the lock is held.  Also seen: `bget` panics when the
pinned buffers and those in use are all there are.

### Spin locks, interrupts and the switch (`Spinlock`)

A context is the kernel thread of a process or the scheduler of a CPU; `todo` is
what it has still to execute.  `acquire` is four steps (read the flags, `cli`,
`xchg`, set the owner) and `release` three.  The timer may interrupt between any
two steps while the flag is on, and puts the handler in front of `todo`.  `swtch`
moves the CPU to another context and leaves the flag, `ncli` and `ptable.lock`
with the CPU, while `intena` travels with the thread (`sched`, `resume`).

* `spinlock` (two CPUs, two threads, three locks): `NoPanic` (with `TypeOK`), that
  no check in `acquire`, `release`, `popcli`, `mycpu` or `sched` fails;
  `SwitchSafe` (`OneHolder`, `InterruptsOff`, `HandlersDoNotNest`,
  `SyscallBalanced`, `MyprocRight`).  Threads migrate, are interrupted inside
  system calls and wait for each other's locks.  A thread that no CPU runs may
  be switched to at any time, which is more than `scheduler()` does.

### Memory (`Memory`)

Every `kalloc()` is a step and may fail; the caller's error path is taken in that
step, since freeing cannot fail.  Addresses wrap at `AddrMod`.

* `memory` (two processes, thirteen pages, four user pages in two page tables,
  programs that fit, are too large, overlap, are unaligned, unreadable or wrap):
  `PagesConserved`, that every page has one owner at every step of every failure;
  `AddressesMapped` (`TypeOK`, `SizeMapped`, `ArgumentsMapped`); `ChildIsCopy`.

Also seen: `growproc(-sz)` frees every page and returns -1 with `sz` unchanged, since
it takes the new size 0 for a failure.  That process faults at its next
instruction; `SizeMapped` speaks of processes that can still run.

### Files (`Contents`, `Files`)

A step is what a call does under one lock.  `open` is lookup, file, descriptor
and the filling in of the slot, each of which may fail; `fileclose` takes the slot
in one step and puts the inode or the pipe end in another; `filewrite` is a step
per piece.  Names are in `Inode`: here an inode is linked or not.  `iput` is one step
here; the race between two of them is in `Inode`, and `MCInodeLeak.cfg` shows what
it costs.  `ContentsSound` is thus about blocks and inodes between whole `iput`s.
`readi` fails when the offset is past the end; offsets are too small to wrap.

* `files` (two processes, three file slots, two descriptors each, two inodes,
  one pipe, blocks of two bytes with two direct and two indirect entries, any six
  calls): `TableExact` (`TypeOK`, `FileRefsExact`, `ObjectsHeld`, `BlankSlots`);
  `ContentsSound` (`BlocksExact`, `ReadsBack`); `TransactionFits`; the refinement
  `ImplementsOpenFiles`.  Six calls are enough for a file that is written by two
  processes through one offset, unlinked while open, closed, and its blocks used
  again.  A write of six bytes needs several pieces and the indirect block.

Also seen: the error paths of `open()` and `pipe()` close slots whose fields were
never set, and rely on `fileclose` having left `FD_NONE` there; `BlankSlots` says so.

### Console input (`Terminal`, `Console`)

Part of the run `programs`, with two readers, one of which may be killed
(`Killable`), a ring of three characters, indices modulo six (`Laps` times the ring)
and reads of up to two characters: `InputSound` (`TypeOK`, `IndicesOrdered`,
`FullIsReadable`, `SleepersWait`, `OneLine`); the refinement `ImplementsTerminal`;
`InputIsRead`.

### Programs, names, devices and routines (`MCPrograms`)

One run, `programs`, checks these seven modules and `Console`, which share no state.
In a behaviour one of them runs and the others are idle.

* `Shell`: `ParsedRight` on every line of up to four characters and longer ones over
  fewer characters, against a grammar stated without a parser; `RunsAsWritten` on
  eight lines with pipelines, lists, background, redirection and blocks, where each
  `fork` may fail.  Also seen: `>>` is the same as `>`; of two redirections of one
  descriptor the first wins; a list goes on without waiting for a pipeline half of
  which could not be forked.
* `Malloc`: `HeapSound`, with requests around the size of a header and gaps made by
  `sbrk` calls of the program.  Requests near the width of an int are left out.
* `Mkfs`: `ImageReadable`, on all lists of up to three files of six sizes, up to the
  largest (`MAXFILE` blocks; mkfs stops at a larger one).  `RootListed` says nothing
  of what follows the entries when they fill the last block of the root exactly: the
  size is then rounded up to a block that the inode does not have (`mkfs.c:161`).
* `Grep`: `LinesRight`, on short patterns and texts, from files and pipes.  Also seen:
  a read that brings no newline is thrown away, and a last line without one is not
  written.
* `Directory`: `NamesRight`, on names shorter than, equal to and longer than `DIRSIZ`,
  with whatever the name buffer held before.
* `Devices`: `DevicesRight`, with one key of each modifier (both keys share one bit in
  the code).  `sys_sleep` tests `killed` and goes to sleep in different steps.  A
  negative `sleep` counts as unsigned.
* `Routines`: `RoutinesRight`, against reference definitions, with 8-bit ints so that
  all of them are tried.  It says what holds: `factor` is right for positive numbers
  whose odd part is below the largest square; `base64` is right for ASCII when every
  `read()` but the last brings three bytes, as those of a file do; the user library's
  `memmove`, which copies forwards only, when the target does not overlap the source
  from above; the boot loader when no segment starts in a sector with memory of an
  earlier one.
* `base64` (violation): `EncodesInput`, that the output is the base64 form of all that
  was read, on the README's own example `echo test | base64` with the five characters
  cut into reads in every way a pipe can cut them.  A read of one or two bytes in the
  middle is padded like the end.

## Disagreements with what the repository says

`inode_chmod` and `base64` are checked as runs.  Seven more were found; their
configurations are kept and end in a counterexample when TLC is given them:

| command | what TLC finds | what the repository says |
|---|---|---|
| `tlc -config MCProcKill.cfg MCProc` | `KillsAProcess`: `kill` compares pids without looking at the state, so it marks a free slot (pid 0, or the pid of a failed `fork`), and the next process in it starts out killed | `proc.c:476`: "Kill the process with the given pid." |
| `tlc -config MCPipeKill.cfg MCPipe` | `KilledReturns`: a `kill` between the test of `killed` and `sleep()` wakes nobody, and the process sleeps on | `proc.c:488`: "Wake process from sleep if necessary." |
| `tlc -config MCInodeLeak.cfg MCInode` | `LastPutFrees`: two overlapping `iput` of an unlinked file each see the other's reference, and the inode is never freed | `fs.c:331`: "If that was the last reference and the inode has no links to it, free the inode (and its content) on disk." |
| `tlc -config MCInodeDeadlock.cfg MCInode` | `NoDeadlock`: `iput` always takes the inode's lock; `create` and `unlink` give the directory back while they hold the file, and an `unlink` that holds the directory and waits for the file completes the circle | `usertests.c:856` runs a test "to look for deadlocks." |
| `tlc -config MCFactor.cfg MCRoutines` | `FactorsDocumented`: `factor 0` divides by two for ever; an odd part above the largest square that fits an int is a second case, as `integerSqrt` overflows there | `README.md:384`: the command shows "faktorisasi prima dari suatu bilangan yang diberikan" |
| `tlc -config MCBase64Bytes.cfg MCRoutines` | `EncodesInput`: `buf` is of signed chars, and a byte above 127 in the second or third place of a group borrows from the bits before it | `README.md:735`: three characters of 8 bits become four of 6 bits |
| `tlc -config MCMkfsRoot.cfg MCMkfs` | `RootReadable`: with root entries that fill a block, a `read()` of the root up to its size has `bmap` allocate a block, and `log_write` panics as there is no transaction | `mkfs.c:158`: "fix size of root inode dir" |

## Bounds

Every bound is a constant with a comment: `MaxPid` (forks), `MaxBytes` (size of
one read or write), `MaxLost` (calls of `chmod`), `MaxPinned` (buffers the log has
pinned), `MaxCalls` (calls in `Files`), `MaxRead` (a read of the console), `Killable` (readers that may be killed),
`HeapTop` (what `sbrk` can give), `MaxWire` (bytes the keyboard keeps), `MaxLag`
(ticks until a woken process runs), and `MaxLinks` (no `link` while a file has
that many links: the links left behind by removed directories would otherwise grow
for ever).  Where 2^32 matters a smaller modulus stands for it (`UintRange`,
`Laps * INPUT_BUF`, `AddrMod`, `TickMod`, `INTBITS`); the assumptions on them say
what the code relies on, for instance that the range of a counter is a multiple of
the buffer it indexes.

## Fairness

Weak fairness is assumed of the steps of a process that can run: the timer and
the round-robin scheduler give every runnable process the CPU (`ReadyRuns`
checks that of the scheduler itself).  Strong fairness is assumed of taking a
spin lock, and in `Proc` of the steps in the kernel and of the timer's `yield`: a
spin lock that is free again and again is obtained in the end, since no holder
keeps it.  `Buf` assumes weak fairness only, and none of sleep locks; its disk
answers every command.
`Console` assumes weak fairness of a reader in `consoleread`, and nothing of who
types.
A file-system call that has begun ends, since it is kernel code.  Of user code
only this is assumed: `init` goes on with its loop of `fork` and `wait`, and a
killed process comes back to the kernel, as the timer forces it to.  No other
process has to call, write, close or exit.

## Proofs

All theorems hold for every value of the constants that satisfies the named
`ASSUME` of the module.

* **Log**.  `CtlInv` (control) strengthens `TypeOK`: in which phase which
  process may be, which buffers are locked, what each call has written, and
  `SpaceInv`, that the log's length plus the credits of the calls under way
  stays within the reservation.  The credits are a finite set of pairs, so that
  "every call has so much left" is a cardinality.  It gives `LogTypeCorrect`,
  `LogSpaceSafe` (under `ReservationSuffices`, what a call must leave of its
  reservation) and `OutstandingCorrect`.  `LogInv` adds the data: what the header
  on disk holds in each phase, that logged blocks are distinct and pinned, that
  the log's copies are the cache's contents.  It gives `AbsorptionCorrect` and
  `PinningCorrect`, with the former `LogSafeHolds`, and carries `LogImplementsAtomicDisk`: each step of the log
  is a step of the atomic disk or a stutter, `WriteHead` being the commit.
* **Processes**.  `ProcInv`: who is on which stack with which state and lock
  (`CpuInv`), what a half-made child looks like (`ForkInv`), parents
  (`FamilyInv`), pids below `nextpid` (`PidInv`), and `ExitNoticed` itself.
  Theorems `StackExclusiveHolds`, `ExitNoticedHolds`, `ParentAliveHolds`,
  `UniquePidsHolds`, and together `FamilySoundHolds`.  The action property
  `ZombieUntilWaitHolds` goes through the steps once more: under `ProcInv` the
  only one that changes the state of a zombie is the scan of its parent, which
  holds `ptable.lock` and is on a CPU.
* **Pipes**.  `PipeInv`: `EndInv` ties descriptors, open ends and the page
  together; `SleepInv` says for every point of the code, lock held or not, why a
  sleeper may sleep or who is about to wake it.  Theorems `PipeTypeCorrect`,
  `NoLostWakeup`, `PageSafe`, `PipeSoundHolds`.  `FifoRefined` is the refinement
  of `Fifo`.  It needs `RingInv`, that at most `PIPESIZE` bytes wait: without it
  a write could overwrite a byte not yet read.  Its arithmetic is about two
  moduli at once: the slot of a byte is its counter modulo `UintRange`, modulo
  `PIPESIZE`.  Since the range is a multiple of the size, as `PipeConstants`
  says and 2^32 and 512 satisfy, two counters less than `PIPESIZE` apart have
  different slots also when one has wrapped (`Apart`); `PutByte` and `GetByte`
  conclude that the ring gains one byte at the end or loses the first.
* **Buffers**.  `BufInv` adds to the checked invariants where a process has a
  buffer and why it may sleep (`UserInv`), that contents belong to a block
  (`BlockInv`), and what the drive is doing for the head of the queue
  (`DriveInv`): a queued buffer that is dirty still has the contents the command
  was given.  `Coherent` is not inductive without it, because the disk answers
  many steps after `idestart()`.  The proof treats the users (`UseStep`), the
  driver (`IoStep`) and the counts (`RefcntStep`) apart, as a step of `bio.c`
  disturbs only some of them.  The counts are cardinalities; that
  moving a buffer to the front loses none from the list is `ToFrontKeeps`.
  Theorems `BuffersExactHolds`, `NoneForgottenHolds`.
* **Spin locks**.  None of the checked invariants says what a context will do
  next, and that decides whether `popcli()` may turn interrupts on or `sched()`
  finds `ncli` 1.  The proof therefore annotates the code: each step a context
  has still to execute gets a `Level`, the depth of `pushcli()`, the locks held
  and owned, and what the interrupt flag and `intena` may be.  `Flow` says when a
  step is safe at one level and leads to the next; every path that `acquire()`,
  `release()`, `sched()`, `scheduler()`, system calls and the timer put into
  `todo` has an annotation (`SpinlockPaths`).  The inductive invariant `SpinInv` is
  that some annotation of all contexts fits all CPUs and locks.  A step drops the
  first level (`SpinlockSteps`); an interrupt puts those of the handler in front,
  which needs no lock held and the flag on; a switch moves the CPU to a context
  parked at the level `Switched`, with `ptable.lock` and `ncli` 1
  (`SpinlockProofs`).  Theorems `SpinInvariant`, `NoPanicHolds`, `SwitchSafeHolds`.

Only model-checked, and why:

* Liveness (`WaiterWoken`, `KilledExits`, `ReadyRuns`, `InheritedReaped`,
  `CallsReturn`, `IoFinishes`, `InputIsRead`): the prover does not handle fairness.
* `ContentsSound`, `TransactionFits`, `ImplementsOpenFiles` and the properties of
  `MCPrograms`: they speak of what folds and recursive definitions compute from
  block lists, lines, texts and heaps, which takes induction over data.
* `CacheExact`, `InUseAllocated`, `LinksSuffice` of `Inode`; `AddressesMapped`,
  `PagesConserved`, `ChildIsCopy` of `Memory`; `TableExact` of `Files`; `InputSound`
  and `ImplementsTerminal` of `Console`: no proof has been written.  The first
  six are about calls of many steps over sums of references and pages.

With this every safety property of the log, the processes, the pipes, the buffer
cache and the spin locks that a run checks is also a theorem.

## Not modelled

* `split()` itself (`split.c`): it writes parts of buffers it has not filled, so what
  it writes is not determined by its input.  Its suffixes are in `Routines`.
* Boot code before `bootmain`, the start of the other CPUs, interrupt controllers, the
  serial line, segment and page table encodings, generated vectors: accesses to
  hardware in a fixed order, without interleavings of their own.
* `cat`, `echo`, `kill`, `ln`, `mkdir`, `rm`, `clear`, `zombie`: one system call or one
  loop around one.  The test programs are read as statements of what the kernel
  promises.
* Device files (`mknod`), `cd` in the shell, the text of messages, and what `ls` and
  `printf` format besides modes and numbers.
* The files under `lite/`, which are not built.
* Memory ordering weaker than one access at a time: `Spinlock` takes the barriers of
  `acquire` and `release` at their word.
