------------------------------ MODULE Spinlock ------------------------------
(***************************************************************************)
(* Spin locks, interrupts and the switch between kernel threads            *)
(* (src/spinlock.c, and what mycpu(), myproc(), sched(), scheduler(),      *)
(* forkret(), yield() and the timer interrupt do with them).               *)
(*                                                                         *)
(* The code runs in contexts: the kernel thread of a process, or the       *)
(* scheduler of a CPU, which is named by the CPU.  What a context has      *)
(* still to execute is a sequence todo of machine-level steps; acquire()   *)
(* is <<readeflags, cli, xchg, own>> and release() is <<disown, unlock,    *)
(* popcli>>.  A thread whose todo is empty is in user mode.  An interrupt  *)
(* puts the handler's steps in front of what the context was doing, and    *)
(* iret is the return from it.  A value that a step keeps in a local       *)
(* variable for the next one is put into that next step.                   *)
(***************************************************************************)
EXTENDS Naturals, Sequences

CONSTANTS Cpu,     \* the processors
          Cpu0,    \* the one that counts the ticks
          Thread,  \* the processes
          None     \* no CPU, no process

ASSUME SpinlockConstants == Cpu0 \in Cpu /\ None \notin Cpu \cup Thread /\ Cpu \cap Thread = {}

Lock == {"ptable", "ticks", "other"}

VARIABLES locked,   \* lk->locked
          owner,    \* lk->cpu
          iflag,    \* FL_IF in each CPU's eflags
          ncli,     \* cpus[i].ncli
          intena,   \* cpus[i].intena
          proc,     \* cpus[i].proc
          run,      \* the context each CPU executes
          todo      \* the steps left to each context

vars == <<locked, owner, iflag, ncli, intena, proc, run, todo>>
lockVars == <<locked, owner>>
cliVars == <<iflag, ncli, intena>>

Context == Cpu \cup Thread
Step(op) == [op |-> op, lk |-> None, val |-> None]
On(op, l) == [op |-> op, lk |-> l, val |-> None]
With(op, v) == [op |-> op, lk |-> None, val |-> v]

-----------------------------------------------------------------------------
(* The routines as sequences of steps.                                      *)

pushcli == << Step("readeflags"), Step("cli") >>

acquire(l) == pushcli \o << On("xchg", l), On("own", l) >>

releaseUnlockFirst(l) == << On("unlock", l), On("disown", l), Step("popcli") >>

release(l) == << On("disown", l), On("unlock", l), Step("popcli") >>

myproc == pushcli \o << Step("mycpu"), Step("cpuproc"), Step("popcli") >>

\* yield(): sched() is the step swtch, and resume is what follows it.
yield == acquire("ptable") \o << Step("swtch"), Step("resume") >> \o release("ptable")

\* sleep(&ticks, &tickslock) as sys_sleep() calls it, from the acquire before
\* to the release after it.
sleep == acquire("ticks") \o acquire("ptable") \o release("ticks")
         \o << Step("swtch"), Step("resume") >>
         \o release("ptable") \o acquire("ticks") \o release("ticks")

\* A system call that takes a lock and calls wakeup(), which takes ptable.lock.
nested == acquire("other") \o acquire("ptable") \o release("ptable") \o release("other")

wakeupTicks == acquire("ticks") \o acquire("ptable") \o release("ptable") \o release("ticks")

forkret == release("ptable") \o << Step("newret") >>

scheduler == << Step("sti") >> \o acquire("ptable") \o << Step("choose") >> \o release("ptable")

Init ==
  /\ locked = [l \in Lock |-> FALSE]
  /\ owner = [l \in Lock |-> None]
  /\ iflag = [c \in Cpu |-> FALSE]
  /\ ncli = [c \in Cpu |-> 0]
  /\ intena = [c \in Cpu |-> FALSE]
  /\ proc = [c \in Cpu |-> None]
  /\ run = [c \in Cpu |-> c]
  /\ todo = [x \in Context |-> IF x \in Cpu THEN scheduler ELSE forkret]

-----------------------------------------------------------------------------
(* The steps.  c is the CPU, x the context it runs.                         *)

holding(c, l) == locked[l] /\ owner[l] = c

\* The panics a step may run into.
Fails(c, s) ==
  CASE s.op = "xchg" -> IF holding(c, s.lk) THEN {"acquire"} ELSE {}
    [] s.op = "disown" -> IF holding(c, s.lk) THEN {} ELSE {"release"}
    [] s.op = "mycpu" -> IF iflag[c] THEN {"mycpu called with interrupts enabled"} ELSE {}
    [] s.op = "popcli" -> (IF iflag[c] THEN {"popcli - interruptible"} ELSE {})
                          \cup (IF ncli[c] = 0 THEN {"popcli"} ELSE {})
    [] s.op = "swtch" -> (IF holding(c, "ptable") THEN {} ELSE {"sched ptable.lock"})
                         \cup (IF ncli[c] # 1 THEN {"sched locks"} ELSE {})
                         \cup (IF iflag[c] THEN {"sched interruptible"} ELSE {})
    [] OTHER -> {}

\* CPU c is at a step op of its context, and the step does not panic.
At(c, op) == /\ todo[run[c]] # << >>
             /\ Head(todo[run[c]]).op = op
             /\ Fails(c, Head(todo[run[c]])) = {}

\* The context of c goes on to its next step.
Advance(c) == todo' = [todo EXCEPT ![run[c]] = Tail(@)]

\* The same, and the next step finds the value v.
AdvanceWith(c, v) ==
  todo' = [todo EXCEPT ![run[c]] = << [@[2] EXCEPT !.val = v] >> \o SubSeq(@, 3, Len(@))]

readeflags(c) ==
  /\ At(c, "readeflags")
  /\ AdvanceWith(c, iflag[c])
  /\ UNCHANGED <<lockVars, cliVars, proc, run>>

cli(c) ==
  /\ At(c, "cli")
  /\ iflag' = [iflag EXCEPT ![c] = FALSE]
  /\ intena' = [intena EXCEPT ![c] = IF ncli[c] = 0 THEN Head(todo[run[c]]).val ELSE @]
  /\ ncli' = [ncli EXCEPT ![c] = @ + 1]
  /\ Advance(c)
  /\ UNCHANGED <<lockVars, proc, run>>

xchg(c) ==
  /\ At(c, "xchg")
  /\ LET l == Head(todo[run[c]]).lk
     IN /\ ~locked[l]
        /\ locked' = [locked EXCEPT ![l] = TRUE]
  /\ Advance(c)
  /\ UNCHANGED <<owner, cliVars, proc, run>>

own(c) ==
  /\ At(c, "own")
  /\ owner' = [owner EXCEPT ![Head(todo[run[c]]).lk] = c]
  /\ Advance(c)
  /\ UNCHANGED <<locked, cliVars, proc, run>>

disown(c) ==
  /\ At(c, "disown")
  /\ owner' = [owner EXCEPT ![Head(todo[run[c]]).lk] = None]
  /\ Advance(c)
  /\ UNCHANGED <<locked, cliVars, proc, run>>

unlock(c) ==
  /\ At(c, "unlock")
  /\ locked' = [locked EXCEPT ![Head(todo[run[c]]).lk] = FALSE]
  /\ Advance(c)
  /\ UNCHANGED <<owner, cliVars, proc, run>>

popcli(c) ==
  /\ At(c, "popcli")
  /\ ncli' = [ncli EXCEPT ![c] = @ - 1]
  /\ iflag' = [iflag EXCEPT ![c] = @ \/ (ncli[c] = 1 /\ intena[c])]
  /\ Advance(c)
  /\ UNCHANGED <<lockVars, intena, proc, run>>

mycpu(c) ==
  /\ At(c, "mycpu")
  /\ AdvanceWith(c, c)
  /\ UNCHANGED <<lockVars, cliVars, proc, run>>

\* p = c->proc, from the CPU that mycpu() gave; MyprocRight looks at this step.
cpuproc(c) ==
  /\ At(c, "cpuproc")
  /\ Advance(c)
  /\ UNCHANGED <<lockVars, cliVars, proc, run>>

\* sched(): the checks are in Fails; intena stays in the thread's local variable.
sched(c) ==
  /\ At(c, "swtch")
  /\ AdvanceWith(c, intena[c])
  /\ run' = [run EXCEPT ![c] = c]
  /\ UNCHANGED <<lockVars, cliVars, proc>>

resumeForgets(c) ==
  /\ At(c, "resume")
  /\ Advance(c)
  /\ UNCHANGED <<lockVars, cliVars, proc, run>>

resume(c) ==
  /\ At(c, "resume")
  /\ intena' = [intena EXCEPT ![c] = Head(todo[run[c]]).val]
  /\ Advance(c)
  /\ UNCHANGED <<lockVars, iflag, ncli, proc, run>>

-----------------------------------------------------------------------------
(* The scheduler: sti, acquire, then switch to threads one after another,   *)
(* and release.  A thread that no CPU runs may be switched to; whether it   *)
(* sleeps is left to the module Proc.                                       *)

sti(c) ==
  /\ At(c, "sti")
  /\ iflag' = [iflag EXCEPT ![c] = TRUE]
  /\ Advance(c)
  /\ UNCHANGED <<lockVars, ncli, intena, proc, run>>

SchedulerSwtch(c, t) ==
  /\ At(c, "choose")
  /\ \A d \in Cpu : run[d] # t
  /\ proc' = [proc EXCEPT ![c] = t]
  /\ run' = [run EXCEPT ![c] = t]
  /\ todo' = [todo EXCEPT ![c] = << Step("clear") >> \o Tail(@)]
  /\ UNCHANGED <<lockVars, cliVars>>

SchedulerReturn(c) ==
  /\ At(c, "clear")
  /\ proc' = [proc EXCEPT ![c] = None]
  /\ todo' = [todo EXCEPT ![c] = << Step("choose") >> \o Tail(@)]
  /\ UNCHANGED <<lockVars, cliVars, run>>

SchedulerDone(c) ==
  /\ At(c, "choose")
  /\ todo' = [todo EXCEPT ![c] = Tail(@) \o scheduler]
  /\ UNCHANGED <<lockVars, cliVars, proc, run>>

-----------------------------------------------------------------------------
(* System calls and the timer interrupt.                                    *)

UserMode(c) == run[c] \in Thread /\ todo[run[c]] = << >>

\* The gate of T_SYSCALL is a trap gate: it leaves the interrupts on.
syscall(c) ==
  /\ UserMode(c)
  /\ \E body \in {nested, sleep, myproc} : todo' = [todo EXCEPT ![run[c]] = body \o << Step("sysret") >>]
  /\ UNCHANGED <<lockVars, cliVars, proc, run>>

\* The gate of an interrupt clears FL_IF.  CPU 0 counts the tick; a process
\* that was running gives up the CPU, and the scheduler goes on.
TimerInterrupt(c) ==
  /\ iflag[c]
  /\ iflag' = [iflag EXCEPT ![c] = FALSE]
  /\ todo' = [todo EXCEPT ![run[c]] =
                (IF c = Cpu0 THEN wakeupTicks ELSE << >>)
                \o (IF proc[c] # None THEN yield ELSE << >>)
                \o << Step("iret") >> \o @]
  /\ UNCHANGED <<lockVars, ncli, intena, proc, run>>

\* trapret: the return from an interrupt, from a system call or, the first
\* time, from forkret(); the saved eflags have FL_IF.
trapret(c) ==
  /\ \E op \in {"iret", "sysret", "newret"} : At(c, op)
  /\ iflag' = [iflag EXCEPT ![c] = TRUE]
  /\ Advance(c)
  /\ UNCHANGED <<lockVars, ncli, intena, proc, run>>

Next ==
  \E c \in Cpu :
    \/ readeflags(c) \/ cli(c) \/ xchg(c) \/ own(c)
    \/ disown(c) \/ unlock(c) \/ popcli(c)
    \/ mycpu(c) \/ cpuproc(c)
    \/ sched(c) \/ resume(c)
    \/ sti(c) \/ (\E t \in Thread : SchedulerSwtch(c, t))
    \/ SchedulerReturn(c) \/ SchedulerDone(c)
    \/ syscall(c) \/ TimerInterrupt(c) \/ trapret(c)

Spec == Init /\ [][Next]_vars

-----------------------------------------------------------------------------
(* Properties.                                                              *)

\* Context x is between the xchg of l and the store that unlocks it.
Holds(x, l) ==
  LET mine == {i \in DOMAIN todo[x] : todo[x][i].lk = l /\ todo[x][i].op \in {"xchg", "unlock"}}
  IN \E i \in mine : todo[x][i].op = "unlock" /\ \A j \in mine : i <= j

TypeOK ==
  /\ locked \in [Lock -> BOOLEAN] /\ owner \in [Lock -> Cpu \cup {None}]
  /\ iflag \in [Cpu -> BOOLEAN] /\ ncli \in [Cpu -> 0 .. 2] /\ intena \in [Cpu -> BOOLEAN]
  /\ proc \in [Cpu -> Thread \cup {None}]
  /\ \A c \in Cpu : run[c] \in Thread \cup {c}

\* No check of acquire(), release(), popcli(), mycpu() or sched() ever fails:
\* no lock is taken twice by a CPU or released by another, the pushcli()s and
\* popcli()s of interrupted, switched and migrated contexts balance, and
\* sched() is entered with ptable.lock and no other lock.  ncli stays in its range.
NoPanic == TypeOK /\ \A c \in Cpu : todo[run[c]] # << >> => Fails(c, Head(todo[run[c]])) = {}

\* A lock that is taken has one holder among the contexts that run, and a free
\* one has none: ptable.lock survives the switch from a thread to the scheduler
\* and on to another thread, which releases it (swtch() in sched() and
\* scheduler(), forkret()).
OneHolder ==
  \A l \in Lock : LET holders == {c \in Cpu : Holds(run[c], l)}
                  IN IF locked[l] THEN \E c \in Cpu : holders = {c} ELSE holders = {}

\* A CPU that holds a lock takes no interrupt, so no handler spins on a lock
\* of the code it interrupted (the comment in acquire()).
InterruptsOff == \A c \in Cpu : (\E l \in Lock : Holds(run[c], l)) => ~iflag[c]

\* Interrupt handlers do not nest on a kernel stack, also when the handler
\* yields and goes on on another CPU: sched() restores the thread's intena.
HandlersDoNotNest ==
  \A x \in Context : \A i \in DOMAIN todo[x] : todo[x][i].op = "iret" =>
    \A j \in DOMAIN todo[x] : todo[x][j].op = "iret" => i = j

\* A system call goes back to user mode as it came, with interrupts on and
\* ncli at 0, whatever locks it took, wherever it was switched, and whatever
\* ran on its CPUs in between: intena is that of the thread, not of the CPU.
SyscallBalanced ==
  \A c \in Cpu : todo[run[c]] # << >> /\ Head(todo[run[c]]).op = "sysret"
                 => iflag[c] /\ ncli[c] = 0

\* myproc() reads the proc field of the CPU it runs on: between mycpu() and
\* the read the thread has not moved.
MyprocRight ==
  \A c \in Cpu : todo[run[c]] # << >> /\ Head(todo[run[c]]).op = "cpuproc"
                 => proc[Head(todo[run[c]]).val] = run[c]

\* Locks exclude across swtch(), interrupts are off where a lock is held and on
\* again where the thread had them on, and myproc() is the thread's own, on
\* whatever CPUs a thread is interrupted, switched and resumed.
SwitchSafe == OneHolder /\ InterruptsOff /\ HandlersDoNotNest /\ SyscallBalanced /\ MyprocRight
=============================================================================
