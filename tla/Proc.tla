-------------------------------- MODULE Proc --------------------------------
(* Processes and their scheduling: proc.c, with the tests of p->killed that  *)
(* trap.c makes on the way in and out of the kernel.                         *)
(*                                                                           *)
(* A CPU runs its scheduler loop or a process; both change the process table *)
(* under ptable.lock.  The lock is held across swtch: the thread that        *)
(* acquires it is not the one that releases it.  The steps below are the     *)
(* pieces between those points, so a process that has set its state but has  *)
(* not left its kernel stack yet is visible, as it is to another CPU.        *)
EXTENDS Integers

CONSTANTS NPROC,     \* slots of ptable (param.h)
          CPUs,      \* the processors
          KillPids,  \* the arguments kill() is called with
          InitOps,   \* the system calls the first process makes
          MaxPid,    \* bound: forks that are tried
          Free       \* nobody holds ptable.lock

ASSUME ProcConstants ==
  /\ NPROC \in Nat \ {0} /\ MaxPid \in Nat \ {0}
  /\ KillPids \subseteq Nat
  /\ Free \notin CPUs
  /\ InitOps \subseteq {"fork", "wait", "exit"}

Slots == 1 .. NPROC
initproc == 1
Ticks == NPROC + 1           \* the channel &ticks; a process is a channel too
\* The loops over ptable stop at the first slot that fits.
First(S) == {p \in S : \A q \in S : p <= q}

States == {"UNUSED", "EMBRYO", "SLEEPING", "RUNNABLE", "RUNNING", "ZOMBIE"}

\* Where a process is: in user code, at the start of a system call, or at a
\* later point of fork(), wait() and sys_sleep().
Points == {"user", "fork", "copy", "runnable", "wait", "scan",
           "kill", "sleep", "dosleep", "exit", "panic"}

VARIABLES state, pid, parent, chan,   \* struct proc; 0 is a null pointer
          killed,    \* the slots whose p->killed is set
          pc,        \* the point each process has reached
          np,        \* fork()'s local: the slot it is filling
          nextpid,
          proc,      \* cpu->proc: whose kernel stack the CPU is on, or 0
          scan,      \* the slot at which the scheduler loop of a CPU goes on
          ptlock     \* ptable.lock: the CPU that holds it

table == <<state, pid, parent, killed, chan>>
vars == <<state, pid, parent, killed, chan, pc, np, nextpid, proc, scan, ptlock>>

\* userinit: the first process has slot 1 and is ready to run.
Init ==
  /\ state = [p \in Slots |-> IF p = initproc THEN "RUNNABLE" ELSE "UNUSED"]
  /\ pid = [p \in Slots |-> IF p = initproc THEN 1 ELSE 0]
  /\ parent = [p \in Slots |-> 0]
  /\ killed = {}
  /\ chan = [p \in Slots |-> 0]
  /\ pc = [p \in Slots |-> "user"]
  /\ np = [p \in Slots |-> 0]
  /\ nextpid = 2
  /\ proc = [c \in CPUs |-> 0]
  /\ scan = [c \in CPUs |-> 1]
  /\ ptlock = Free

-----------------------------------------------------------------------------
(* The scheduler loop of a CPU. *)

SchedAcquire(c) ==
  /\ proc[c] = 0 /\ ptlock = Free
  /\ ptlock' = c
  /\ scan' = [scan EXCEPT ![c] = 1]
  /\ UNCHANGED <<table, pc, np, nextpid, proc>>

\* MUTANT: every search for a process to run starts at the first slot.
SchedPickFirst(c) ==
  LET ready == {p \in Slots : state[p] = "RUNNABLE"} IN
  /\ proc[c] = 0 /\ ptlock = c
  /\ \/ ready = {} /\ ptlock' = Free /\ UNCHANGED <<state, proc>>
     \/ /\ \E p \in First(ready) :
             /\ state' = [state EXCEPT ![p] = "RUNNING"]
             /\ proc' = [proc EXCEPT ![c] = p]
        /\ UNCHANGED ptlock
  /\ UNCHANGED <<pid, parent, killed, chan, pc, np, nextpid, scan>>

\* The rest of one pass over the table, up to the next process to run.
SchedPick(c) ==
  LET ready == {p \in Slots : p >= scan[c] /\ state[p] = "RUNNABLE"} IN
  /\ proc[c] = 0 /\ ptlock = c
  /\ \/ /\ ready = {}
        /\ ptlock' = Free
        /\ UNCHANGED <<state, proc, scan>>
     \/ /\ \E p \in First(ready) :
             /\ state' = [state EXCEPT ![p] = "RUNNING"]
             /\ proc' = [proc EXCEPT ![c] = p]
             /\ scan' = [scan EXCEPT ![c] = p + 1]
        /\ UNCHANGED ptlock
  /\ UNCHANGED <<pid, parent, killed, chan, pc, np, nextpid>>

\* sched() has saved the context of p: the CPU is back in scheduler().
Swtch(c, p) ==
  /\ proc[c] = p /\ ptlock = c /\ state[p] # "RUNNING"
  /\ proc' = [proc EXCEPT ![c] = 0]
  /\ UNCHANGED <<table, pc, np, nextpid, scan, ptlock>>

\* The end of yield(), of forkret() or of a sleep() on another lock.
Resume(c, p) ==
  /\ proc[c] = p /\ ptlock = c /\ state[p] = "RUNNING" /\ pc[p] # "scan"
  /\ chan' = [chan EXCEPT ![p] = 0]
  /\ ptlock' = Free
  /\ UNCHANGED <<state, pid, parent, killed, pc, np, nextpid, proc, scan>>

-----------------------------------------------------------------------------
(* Steps of the process that CPU c runs.  At(c, p, l): p is about to do l.   *)

At(c, p, l) == proc[c] = p /\ ptlock # c /\ pc[p] = l
Goto(p, l) == pc' = [pc EXCEPT ![p] = l]
Calls(p) == IF p = initproc THEN InitOps
            ELSE {"fork", "wait", "kill", "sleep", "exit"}

\* trap(): a process that was killed goes no further than this.
Trap(c, p) ==
  /\ At(c, p, "user")
  /\ IF p \in killed THEN Goto(p, "exit")
     ELSE \E l \in Calls(p) : (l = "fork" => nextpid <= MaxPid) /\ Goto(p, l)
  /\ UNCHANGED <<table, np, nextpid, proc, scan, ptlock>>

\* A fault in user space.
Fault(c, p) ==
  /\ At(c, p, "user") /\ p # initproc
  /\ killed' = killed \cup {p}
  /\ Goto(p, "exit")
  /\ UNCHANGED <<state, pid, parent, chan, np, nextpid, proc, scan, ptlock>>

\* Timer interrupts are taken wherever no spinlock is held; trap() makes a
\* killed process in user space exit (Trap) instead of letting it yield.
Yield(c, p) ==
  /\ proc[c] = p /\ ptlock = Free /\ pc[p] \notin {"panic", "dosleep"}
  /\ pc[p] = "user" => p \notin killed
  /\ state' = [state EXCEPT ![p] = "RUNNABLE"]
  /\ ptlock' = c
  /\ UNCHANGED <<pid, parent, killed, chan, pc, np, nextpid, proc, scan>>

\* fork(): the critical section of allocproc().
AllocProc(c, p) ==
  LET unused == {q \in Slots : state[q] = "UNUSED"} IN
  /\ At(c, p, "fork") /\ ptlock = Free
  /\ \/ /\ unused = {}
        /\ Goto(p, "user")
        /\ UNCHANGED <<state, pid, np, nextpid>>
     \/ /\ \E q \in First(unused) :
             /\ state' = [state EXCEPT ![q] = "EMBRYO"]
             /\ pid' = [pid EXCEPT ![q] = nextpid]
             /\ np' = [np EXCEPT ![p] = q]
        /\ nextpid' = nextpid + 1
        /\ Goto(p, "copy")
  /\ UNCHANGED <<parent, killed, chan, proc, scan, ptlock>>

\* No memory for the kernel stack or for the page table: the slot goes back,
\* without ptable.lock and with its pid.
ForkFails(c, p) ==
  /\ At(c, p, "copy")
  /\ state' = [state EXCEPT ![np[p]] = "UNUSED"]
  /\ np' = [np EXCEPT ![p] = 0]
  /\ Goto(p, "user")
  /\ UNCHANGED <<pid, parent, killed, chan, nextpid, proc, scan, ptlock>>

\* The child is filled in without ptable.lock.
CopyProc(c, p) ==
  /\ At(c, p, "copy")
  /\ parent' = [parent EXCEPT ![np[p]] = p]
  /\ Goto(p, "runnable")
  /\ UNCHANGED <<state, pid, killed, chan, np, nextpid, proc, scan, ptlock>>

ForkDone(c, p) ==
  /\ At(c, p, "runnable") /\ ptlock = Free
  /\ state' = [state EXCEPT ![np[p]] = "RUNNABLE"]
  /\ pc' = [pc EXCEPT ![p] = "user", ![np[p]] = "user"]
  /\ np' = [np EXCEPT ![p] = 0]
  /\ UNCHANGED <<pid, parent, killed, chan, nextpid, proc, scan, ptlock>>

\* wakeup1() on a table st.
wakeup1(st, ch) ==
  [p \in Slots |-> IF st[p] = "SLEEPING" /\ chan[p] = ch THEN "RUNNABLE" ELSE st[p]]

Children(p) == {q \in Slots : parent[q] = p}
Zombies(p) == {q \in Children(p) : state[q] = "ZOMBIE"}

\* exit() of the first process.
ExitInit(c, p) ==
  /\ At(c, p, "exit") /\ p = initproc
  /\ Goto(p, "panic")
  /\ UNCHANGED <<table, np, nextpid, proc, scan, ptlock>>

\* MUTANT: ptable.lock is released before sched().
ExitUnlocked(c, p) ==
  /\ At(c, p, "exit") /\ p # initproc /\ ptlock = Free
  /\ state' = [wakeup1(state, parent[p]) EXCEPT ![p] = "ZOMBIE"]
  /\ parent' = [q \in Slots |-> IF parent[q] = p THEN initproc ELSE parent[q]]
  /\ UNCHANGED <<pid, killed, chan, pc, np, nextpid, proc, scan, ptlock>>

\* MUTANT: nobody is woken.
ExitSilent(c, p) ==
  /\ At(c, p, "exit") /\ p # initproc /\ ptlock = Free
  /\ state' = [state EXCEPT ![p] = "ZOMBIE"]
  /\ parent' = [q \in Slots |-> IF parent[q] = p THEN initproc ELSE parent[q]]
  /\ ptlock' = c
  /\ UNCHANGED <<pid, killed, chan, pc, np, nextpid, proc, scan>>

\* MUTANT: the children keep their parent.
ExitOrphans(c, p) ==
  /\ At(c, p, "exit") /\ p # initproc /\ ptlock = Free
  /\ state' = [wakeup1(state, parent[p]) EXCEPT ![p] = "ZOMBIE"]
  /\ ptlock' = c
  /\ UNCHANGED <<pid, parent, killed, chan, pc, np, nextpid, proc, scan>>

\* exit(): the parent is woken, the children go to init, and the process is
\* a zombie; it is still on its kernel stack and holds ptable.lock.
Exit(c, p) ==
  LET woken == wakeup1(state, parent[p])
      zombie == \E q \in Children(p) : state[q] = "ZOMBIE"
      initWoken == IF zombie THEN wakeup1(woken, initproc) ELSE woken
  IN
  /\ At(c, p, "exit") /\ p # initproc /\ ptlock = Free
  /\ state' = [initWoken EXCEPT ![p] = "ZOMBIE"]
  /\ parent' = [q \in Slots |-> IF parent[q] = p THEN initproc ELSE parent[q]]
  /\ ptlock' = c
  /\ UNCHANGED <<pid, killed, chan, pc, np, nextpid, proc, scan>>

WaitCall(c, p) ==
  /\ At(c, p, "wait") /\ ptlock = Free
  /\ ptlock' = c
  /\ Goto(p, "scan")
  /\ UNCHANGED <<table, np, nextpid, proc, scan>>

Scanning(c, p) ==
  proc[c] = p /\ ptlock = c /\ state[p] = "RUNNING" /\ pc[p] = "scan"

\* wait() finds an exited child and frees its slot.
Reap(c, p) ==
  /\ Scanning(c, p)
  /\ \E q \in First(Zombies(p)) :
       /\ state' = [state EXCEPT ![q] = "UNUSED"]
       /\ pid' = [pid EXCEPT ![q] = 0]
       /\ parent' = [parent EXCEPT ![q] = 0]
       /\ killed' = killed \ {q}
  /\ chan' = [chan EXCEPT ![p] = 0]
  /\ ptlock' = Free
  /\ Goto(p, "user")
  /\ UNCHANGED <<np, nextpid, proc, scan>>

\* wait() returns -1.
WaitFails(c, p) ==
  /\ Scanning(c, p) /\ Zombies(p) = {} /\ (Children(p) = {} \/ p \in killed)
  /\ chan' = [chan EXCEPT ![p] = 0]
  /\ ptlock' = Free
  /\ Goto(p, "user")
  /\ UNCHANGED <<state, pid, parent, killed, np, nextpid, proc, scan>>

\* wait() sleeps on its own struct proc and keeps ptable.lock for swtch.
WaitSleep(c, p) ==
  /\ Scanning(c, p) /\ Zombies(p) = {} /\ Children(p) # {} /\ p \notin killed
  /\ chan' = [chan EXCEPT ![p] = p]
  /\ state' = [state EXCEPT ![p] = "SLEEPING"]
  /\ UNCHANGED <<pid, parent, killed, pc, np, nextpid, proc, scan, ptlock>>

\* MUTANT: kill() makes the process runnable in any state.
KillAny(c, p) ==
  /\ At(c, p, "kill") /\ ptlock = Free
  /\ \E q \in Slots :
       /\ pid[q] \in KillPids
       /\ killed' = killed \cup {q}
       /\ state' = [state EXCEPT ![q] = IF @ = "RUNNING" THEN @ ELSE "RUNNABLE"]
  /\ Goto(p, "user")
  /\ UNCHANGED <<pid, parent, chan, np, nextpid, proc, scan, ptlock>>

\* MUTANT: kill() does not wake the process.
KillNoWake(c, p) ==
  /\ At(c, p, "kill") /\ ptlock = Free
  /\ \E q \in Slots : pid[q] \in KillPids /\ killed' = killed \cup {q}
  /\ Goto(p, "user")
  /\ UNCHANGED <<state, pid, parent, chan, np, nextpid, proc, scan, ptlock>>

\* kill() marks the first slot with the pid, whatever its state.
Kill(c, p) ==
  /\ At(c, p, "kill") /\ ptlock = Free
  /\ \E k \in KillPids :
       LET found == {q \in Slots : pid[q] = k} IN
       \/ found = {} /\ UNCHANGED <<state, killed>>
       \/ \E q \in First(found) :
            /\ killed' = killed \cup {q}
            /\ state' = [state EXCEPT ![q] = IF @ = "SLEEPING" THEN "RUNNABLE" ELSE @]
  /\ Goto(p, "user")
  /\ UNCHANGED <<pid, parent, chan, np, nextpid, proc, scan, ptlock>>

\* sys_sleep(): it returns once the ticks have passed or p was killed, and
\* sleeps on &ticks otherwise.
SleepReturn(c, p) ==
  /\ At(c, p, "sleep")
  /\ Goto(p, "user")
  /\ UNCHANGED <<table, np, nextpid, proc, scan, ptlock>>

TicksUnlocked == \A q \in Slots : pc[q] # "dosleep"

\* The loop of sys_sleep() has tested p->killed and goes to sleep, holding
\* tickslock until sleep() has ptable.lock.
SleepCheck(c, p) ==
  /\ At(c, p, "sleep") /\ p \notin killed /\ TicksUnlocked
  /\ Goto(p, "dosleep")
  /\ UNCHANGED <<table, np, nextpid, proc, scan, ptlock>>

Sleep(c, p) ==
  /\ At(c, p, "dosleep") /\ ptlock = Free
  /\ chan' = [chan EXCEPT ![p] = Ticks]
  /\ state' = [state EXCEPT ![p] = "SLEEPING"]
  /\ ptlock' = c
  /\ Goto(p, "sleep")
  /\ UNCHANGED <<pid, parent, killed, np, nextpid, proc, scan>>

\* A timer interrupt on the first CPU, in the scheduler or in a process.
Tick ==
  /\ ptlock = Free /\ TicksUnlocked
  /\ state' = wakeup1(state, Ticks)
  /\ UNCHANGED <<pid, parent, killed, chan, pc, np, nextpid, proc, scan, ptlock>>

Scheduler(c) == SchedAcquire(c) \/ SchedPick(c)

Switch(c, p) == Swtch(c, p) \/ Resume(c, p)

\* What a process does in the kernel.
Kernel(c, p) ==
  \/ AllocProc(c, p) \/ ForkFails(c, p) \/ CopyProc(c, p) \/ ForkDone(c, p)
  \/ WaitCall(c, p) \/ Reap(c, p) \/ WaitFails(c, p) \/ WaitSleep(c, p)
  \/ Kill(c, p) \/ SleepReturn(c, p) \/ SleepCheck(c, p) \/ Sleep(c, p)
  \/ Exit(c, p) \/ ExitInit(c, p)

Next ==
  \/ \E c \in CPUs : Scheduler(c)
  \/ \E c \in CPUs, p \in Slots :
       Switch(c, p) \/ Kernel(c, p) \/ Trap(c, p) \/ Fault(c, p) \/ Yield(c, p)
  \/ Tick

Spec == Init /\ [][Next]_vars

\* CPUs run and a time slice is long enough for a step; a timer interrupt stays
\* pending while interrupts are off, so it is taken in the end (strong
\* fairness); the first process keeps making system calls.
Fairness ==
  /\ \A c \in CPUs :
       /\ WF_vars(Scheduler(c) \/ \E p \in Slots : Switch(c, p))
       /\ SF_vars(\E p \in Slots : Yield(c, p))
  /\ \A c \in CPUs, p \in Slots :
       /\ SF_vars(Kernel(c, p))
       /\ SF_vars((p \in killed \/ p = initproc) /\ Trap(c, p))
  /\ WF_vars(Tick)
FairSpec == Spec /\ Fairness

-----------------------------------------------------------------------------
(* Properties. *)

\* The state has its type, in every state the code reaches.
TypeOK ==
  /\ state \in [Slots -> States]
  /\ pid \in [Slots -> Nat]
  /\ parent \in [Slots -> 0 .. NPROC]
  /\ killed \subseteq Slots
  /\ chan \in [Slots -> 0 .. NPROC + 1]
  /\ pc \in [Slots -> Points]
  /\ np \in [Slots -> 0 .. NPROC]
  /\ nextpid \in Nat
  /\ proc \in [CPUs -> 0 .. NPROC]
  /\ scan \in [CPUs -> 1 .. NPROC + 1]
  /\ ptlock \in CPUs \cup {Free}

\* No two CPUs are on the kernel stack of one process, and no CPU is on a
\* stack that wait() has freed: exit(), sleep() and yield() give up their
\* state before they leave the stack, covered by ptable.lock across swtch.
StackExclusive ==
  /\ \A c, d \in CPUs : proc[c] # 0 /\ proc[c] = proc[d] => c = d
  /\ \A c \in CPUs : proc[c] # 0 => state[proc[c]] \notin {"UNUSED", "EMBRYO"}
  /\ \A p \in Slots : state[p] = "RUNNING" => \E c \in CPUs : proc[c] = p

\* Nobody sleeps in wait() who has an exited child, no child at all, or was
\* killed: every exit(), also one that hands its zombies to init, is noticed.
ExitNoticed ==
  \A p \in Slots : state[p] = "SLEEPING" /\ chan[p] = p =>
     Zombies(p) = {} /\ Children(p) # {} /\ p \notin killed

\* Every process but init has a parent that can still wait for it, and a free
\* slot has no parent: reparenting in exit() leaves no orphan behind.
ParentAlive ==
  \A p \in Slots :
     /\ state[p] \notin {"UNUSED", "EMBRYO"} /\ p # initproc =>
          /\ parent[p] # 0
          /\ state[parent[p]] \in {"RUNNING", "RUNNABLE", "SLEEPING"}
     /\ state[p] = "UNUSED" => parent[p] = 0

\* Two processes never have the same pid, so kill() finds the right one.  nextpid is
\* a natural number here; the code's int has 2^31 - 1 of them.
UniquePids ==
  \A p, q \in Slots :
     p # q /\ state[p] # "UNUSED" /\ state[q] # "UNUSED" => pid[p] # pid[q]

\* "An exited process remains in the zombie state until its parent calls
\* wait()" (proc.c:225): only the parent, running, frees a zombie.
ZombieUntilWait ==
  [][\A p \in Slots : state[p] = "ZOMBIE" /\ state'[p] # "ZOMBIE" =>
        /\ state'[p] = "UNUSED"
        /\ \E c \in CPUs : proc[c] = parent[p] /\ pc[parent[p]] = "scan"]_vars

\* "Kill the process with the given pid" (proc.c:476): what kill() marks is a
\* process, not a free slot.
KillsAProcess ==
  \A p \in Slots : p \in killed => state[p] # "UNUSED"

\* A killed process exits, wherever it was when it was killed.
KilledExits ==
  \A p \in Slots \ {initproc} :
     (p \in killed /\ state[p] # "UNUSED") ~> (state[p] \in {"ZOMBIE", "UNUSED"} \/ pc[initproc] = "panic")

\* The scheduler's round-robin pass runs every process that is ready.
ReadyRuns ==
  \A p \in Slots : state[p] = "RUNNABLE" ~> (state[p] = "RUNNING" \/ pc[initproc] = "panic")

\* init reaps its children, the ones it inherits included.
InheritedReaped ==
  \A p \in Slots \ {initproc} :
     (state[p] = "ZOMBIE" /\ parent[p] = initproc)
       ~> (state[p] = "UNUSED" \/ pc[initproc] = "panic")

\* The table is sound whatever fork(), exit(), wait() and kill() are in the middle
\* of: no orphan, no two processes with one pid, and nobody asleep in wait() who
\* has something to wait for no more.
FamilySound == TypeOK /\ ParentAlive /\ UniquePids /\ ExitNoticed
=============================================================================
