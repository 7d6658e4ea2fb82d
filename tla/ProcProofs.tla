---------------------------- MODULE ProcProofs ----------------------------
(* Proofs of the safety properties of Proc, for any number of slots and CPUs. *)
EXTENDS Proc, TLAPS

Live == {"RUNNING", "RUNNABLE", "SLEEPING"}

\* A process keeps its CPU's stack from SchedPick to Swtch; in between it is
\* running, or the CPU holds ptable.lock.
CpuInv ==
  /\ \A c \in CPUs : proc[c] # 0 =>
        \/ state[proc[c]] = "RUNNING"
        \/ ptlock = c /\ state[proc[c]] \in {"RUNNABLE", "SLEEPING", "ZOMBIE"}
  /\ \A c, d \in CPUs : proc[c] # 0 /\ proc[c] = proc[d] => c = d
  /\ \A p \in Slots : state[p] = "RUNNING" => \E c \in CPUs : proc[c] = p

\* fork() owns the slot it fills, although it holds no lock.
ForkInv ==
  \A p \in Slots :
     /\ np[p] # 0 <=> pc[p] \in {"copy", "runnable"}
     /\ np[p] # 0 => state[np[p]] = "EMBRYO" /\ state[p] \in {"RUNNING", "RUNNABLE"}
     /\ pc[p] = "copy" => parent[np[p]] = 0
     /\ pc[p] = "runnable" => parent[np[p]] = p
     /\ \A q \in Slots : np[p] # 0 /\ np[p] = np[q] => p = q

\* Parents are alive; a slot being filled has none, or the process in fork().
FamilyInv ==
  /\ state[initproc] \in Live /\ parent[initproc] = 0
  /\ \A p \in Slots :
        /\ parent[p] # p
        /\ state[p] \notin {"UNUSED", "EMBRYO"} /\ p # initproc =>
              parent[p] # 0 /\ state[parent[p]] \in Live
        /\ state[p] = "UNUSED" => parent[p] = 0
        /\ state[p] = "EMBRYO" /\ parent[p] # 0 =>
              np[parent[p]] = p /\ pc[parent[p]] = "runnable"

\* pids are handed out once.
PidInv ==
  /\ 0 < nextpid /\ \A p \in Slots : pid[p] < nextpid
  /\ UniquePids

ProcInv == TypeOK /\ CpuInv /\ ForkInv /\ FamilyInv /\ ExitNoticed /\ PidInv

\* A process at a point of its code runs, on the CPU that does the step.
LEMMA AtRunning ==
  ASSUME CpuInv, NEW c \in CPUs, NEW p \in Slots, NEW l, At(c, p, l)
  PROVE  state[p] = "RUNNING"
BY ProcConstants DEF CpuInv, At, Slots

\* wakeup1() turns sleepers into runnable processes and does nothing else.
LEMMA Woken ==
  ASSUME NEW st \in [Slots -> States], NEW ch
  PROVE  /\ wakeup1(st, ch) \in [Slots -> States]
         /\ \A p \in Slots :
               \/ wakeup1(st, ch)[p] = st[p]
               \/ st[p] = "SLEEPING" /\ chan[p] = ch /\ wakeup1(st, ch)[p] = "RUNNABLE"
         /\ \A p \in Slots : ~(wakeup1(st, ch)[p] = "SLEEPING" /\ chan[p] = ch)
BY DEF wakeup1, States

\* The constants of the model, so that the steps below need not expand them.
LEMMA SlotFacts ==
  /\ initproc \in Slots /\ 0 \in 0 .. NPROC /\ 0 \in 0 .. NPROC + 1
  /\ Ticks \in 0 .. NPROC + 1 /\ Ticks \notin Slots /\ 0 \notin Slots
  /\ 1 \in 1 .. NPROC + 1
  /\ \A p \in Slots : /\ p \in 0 .. NPROC /\ p \in 0 .. NPROC + 1 /\ p # 0
                       /\ p + 1 \in 1 .. NPROC + 1
  /\ \A p \in 0 .. NPROC : p # 0 => p \in Slots
BY ProcConstants DEF Slots, initproc, Ticks

\* The states of enum procstate, and the points of the code, by name.
LEMMA Names ==
  /\ {"UNUSED", "EMBRYO", "SLEEPING", "RUNNABLE", "RUNNING", "ZOMBIE"} \subseteq States
  /\ {"user", "fork", "copy", "runnable", "wait", "scan", "kill", "sleep", "dosleep", "exit",
      "panic"} \subseteq Points
  /\ \A p \in Slots : Calls(p) \subseteq Points
BY ProcConstants DEF States, Points, Calls

\* The boot state satisfies the invariant.
LEMMA ProcInit == Init => ProcInv
BY ProcConstants DEF Init, ProcInv, TypeOK, CpuInv, ForkInv, FamilyInv, ExitNoticed,
   PidInv, UniquePids, Slots, States, Points, initproc, Live, Zombies, Children

\* What exit() leaves behind: the process is a zombie, sleepers may be awake,
\* nothing else changes state.
LEMMA ExitState ==
  ASSUME TypeOK, NEW c \in CPUs, NEW p \in Slots, Exit(c, p)
  PROVE  /\ state' \in [Slots -> States] /\ state'[p] = "ZOMBIE"
         /\ \A q \in Slots \ {p} :
               \/ state'[q] = state[q]
               \/ state[q] = "SLEEPING" /\ state'[q] = "RUNNABLE"
         /\ \A q \in Slots \ {p} : ~(state'[q] = "SLEEPING" /\ chan[q] = parent[p])
         /\ Zombies(p) # {} =>
              \A q \in Slots \ {p} : ~(state'[q] = "SLEEPING" /\ chan[q] = initproc)
<1> DEFINE w == wakeup1(state, parent[p])
           i == wakeup1(w, initproc)
<1>1. state \in [Slots -> States]
  BY DEF TypeOK
<1>2. /\ w \in [Slots -> States]
      /\ \A q \in Slots : \/ w[q] = state[q]
                          \/ state[q] = "SLEEPING" /\ w[q] = "RUNNABLE"
      /\ \A q \in Slots : ~(w[q] = "SLEEPING" /\ chan[q] = parent[p])
  BY <1>1, Woken
<1>3. /\ i \in [Slots -> States]
      /\ \A q \in Slots : \/ i[q] = w[q]
                          \/ w[q] = "SLEEPING" /\ i[q] = "RUNNABLE"
      /\ \A q \in Slots : ~(i[q] = "SLEEPING" /\ chan[q] = initproc)
  BY <1>2, Woken
<1> HIDE DEF w, i
<1>4. \/ state' = [w EXCEPT ![p] = "ZOMBIE"] /\ Zombies(p) = {}
      \/ state' = [i EXCEPT ![p] = "ZOMBIE"]
  BY DEF Exit, Zombies, w, i
<1>5. CASE state' = [w EXCEPT ![p] = "ZOMBIE"] /\ Zombies(p) = {}
  BY <1>2, <1>5 DEF States
<1>6. CASE state' = [i EXCEPT ![p] = "ZOMBIE"]
  BY <1>2, <1>3, <1>6 DEF States
<1>7. QED BY <1>4, <1>5, <1>6

\* The scheduler's search finds nobody, or runs the process it stops at.
LEMMA PickEffect ==
  ASSUME NEW c \in CPUs, SchedPick(c)
  PROVE  \/ UNCHANGED <<state, proc, scan>> /\ ptlock' = Free
         \/ \E p \in Slots :
              /\ state[p] = "RUNNABLE" /\ UNCHANGED ptlock
              /\ state' = [state EXCEPT ![p] = "RUNNING"]
              /\ proc' = [proc EXCEPT ![c] = p]
              /\ scan' = [scan EXCEPT ![c] = p + 1]
BY DEF SchedPick, First

\* allocproc() fails, or takes a free slot and a new pid for it.
LEMMA AllocEffect ==
  ASSUME NEW c \in CPUs, NEW p \in Slots, AllocProc(c, p)
  PROVE  \/ Goto(p, "user") /\ UNCHANGED <<state, pid, np, nextpid>>
         \/ \E q \in Slots :
              /\ state[q] = "UNUSED"
              /\ state' = [state EXCEPT ![q] = "EMBRYO"]
              /\ pid' = [pid EXCEPT ![q] = nextpid]
              /\ np' = [np EXCEPT ![p] = q]
              /\ nextpid' = nextpid + 1
              /\ Goto(p, "copy")
BY DEF AllocProc, First

\* kill() finds no process, or marks one slot and wakes it.
LEMMA KillEffect ==
  ASSUME NEW c \in CPUs, NEW p \in Slots, Kill(c, p)
  PROVE  \/ UNCHANGED <<state, killed>>
         \/ \E q \in Slots :
              /\ killed' = killed \cup {q}
              /\ state' = [state EXCEPT ![q] = IF @ = "SLEEPING" THEN "RUNNABLE" ELSE @]
BY DEF Kill, First

\* wait() frees the slot of one exited child.
LEMMA ReapEffect ==
  ASSUME NEW c \in CPUs, NEW p \in Slots, Reap(c, p)
  PROVE  \E q \in Slots :
              /\ state[q] = "ZOMBIE" /\ parent[q] = p
              /\ state' = [state EXCEPT ![q] = "UNUSED"]
              /\ pid' = [pid EXCEPT ![q] = 0]
              /\ parent' = [parent EXCEPT ![q] = 0]
              /\ killed' = killed \ {q}
BY Zenon DEF Reap, First, Zombies, Children

\* Types are kept by every step.
LEMMA TypeStep ==
  ASSUME TypeOK, CpuInv, ForkInv, [Next]_vars
  PROVE  TypeOK'
<1> USE ProcConstants, SlotFacts, Names DEF TypeOK
<1>1. ASSUME NEW c \in CPUs, SchedAcquire(c) PROVE TypeOK'
  BY <1>1 DEF SchedAcquire, table
<1>2. ASSUME NEW c \in CPUs, SchedPick(c) PROVE TypeOK'
  <2>1. CASE UNCHANGED <<state, proc, scan>> /\ ptlock' = Free
    BY <1>2, <2>1 DEF SchedPick
  <2>2. ASSUME NEW p \in Slots, UNCHANGED ptlock,
               state' = [state EXCEPT ![p] = "RUNNING"],
               proc' = [proc EXCEPT ![c] = p], scan' = [scan EXCEPT ![c] = p + 1]
        PROVE  TypeOK'
    <3>1. UNCHANGED <<pid, parent, killed, chan, pc, np, nextpid>>
      BY <1>2 DEF SchedPick
    <3>2. QED BY <2>2, <3>1
  <2>3. QED BY Zenon, <1>2, <2>1, <2>2, PickEffect
<1>3. ASSUME NEW c \in CPUs, NEW p \in Slots, Swtch(c, p) PROVE TypeOK'
  BY <1>3 DEF Swtch, table
<1>4. ASSUME NEW c \in CPUs, NEW p \in Slots, Resume(c, p) PROVE TypeOK'
  BY <1>4 DEF Resume
<1>5. ASSUME NEW c \in CPUs, NEW p \in Slots, Trap(c, p) PROVE TypeOK'
  BY <1>5 DEF Trap, At, Goto, table
<1>6. ASSUME NEW c \in CPUs, NEW p \in Slots, Fault(c, p) PROVE TypeOK'
  BY <1>6 DEF Fault, At, Goto
<1>7. ASSUME NEW c \in CPUs, NEW p \in Slots, Yield(c, p) PROVE TypeOK'
  BY <1>7 DEF Yield
<1>8. ASSUME NEW c \in CPUs, NEW p \in Slots, AllocProc(c, p) PROVE TypeOK'
  <2>1. UNCHANGED <<parent, killed, chan, proc, scan, ptlock>>
    BY <1>8 DEF AllocProc
  <2>2. CASE Goto(p, "user") /\ UNCHANGED <<state, pid, np, nextpid>>
    BY <2>1, <2>2 DEF Goto
  <2>3. ASSUME NEW q \in Slots, state' = [state EXCEPT ![q] = "EMBRYO"],
               pid' = [pid EXCEPT ![q] = nextpid], np' = [np EXCEPT ![p] = q],
               nextpid' = nextpid + 1, Goto(p, "copy")
        PROVE  TypeOK'
    BY <2>1, <2>3 DEF Goto
  <2>4. QED BY Zenon, <1>8, <2>2, <2>3, AllocEffect
<1>9. ASSUME NEW c \in CPUs, NEW p \in Slots, ForkFails(c, p) PROVE TypeOK'
  BY Zenon, <1>9 DEF ForkFails, At, Goto
<1>10. ASSUME NEW c \in CPUs, NEW p \in Slots, CopyProc(c, p) PROVE TypeOK'
  BY Zenon, <1>10 DEF CopyProc, At, Goto
<1>11. ASSUME NEW c \in CPUs, NEW p \in Slots, ForkDone(c, p) PROVE TypeOK'
  BY Zenon, <1>11 DEF ForkDone, At
<1>12. ASSUME NEW c \in CPUs, NEW p \in Slots, WaitCall(c, p) PROVE TypeOK'
  BY <1>12 DEF WaitCall, At, Goto, table
<1>13. ASSUME NEW c \in CPUs, NEW p \in Slots, Reap(c, p) PROVE TypeOK'
  <2>1. UNCHANGED <<np, nextpid, proc, scan>> /\ Goto(p, "user") /\ ptlock' = Free
        /\ chan' = [chan EXCEPT ![p] = 0]
    BY <1>13 DEF Reap
  <2>2. PICK q \in Slots :
              /\ state' = [state EXCEPT ![q] = "UNUSED"]
              /\ pid' = [pid EXCEPT ![q] = 0]
              /\ parent' = [parent EXCEPT ![q] = 0]
              /\ killed' = killed \ {q}
    BY <1>13, ReapEffect
  <2>3. QED BY <2>1, <2>2 DEF Goto
<1>14. ASSUME NEW c \in CPUs, NEW p \in Slots, WaitFails(c, p) PROVE TypeOK'
  BY <1>14 DEF WaitFails, Scanning, Goto
<1>15. ASSUME NEW c \in CPUs, NEW p \in Slots, WaitSleep(c, p) PROVE TypeOK'
  BY <1>15 DEF WaitSleep, Scanning
<1>16. ASSUME NEW c \in CPUs, NEW p \in Slots, Kill(c, p) PROVE TypeOK'
  <2>1. state' \in [Slots -> States] /\ killed' \subseteq Slots
    BY <1>16, KillEffect
  <2>2. QED BY Zenon, <1>16, <2>1 DEF Kill, Goto
<1>17. ASSUME NEW c \in CPUs, NEW p \in Slots, SleepReturn(c, p) \/ SleepCheck(c, p) PROVE TypeOK'
  BY <1>17 DEF SleepReturn, SleepCheck, At, Goto, table
<1>18. ASSUME NEW c \in CPUs, NEW p \in Slots, Sleep(c, p) PROVE TypeOK'
  BY <1>18, Names DEF Sleep, At, Goto
<1>19. ASSUME NEW c \in CPUs, NEW p \in Slots, Exit(c, p) PROVE TypeOK'
  BY Zenon, <1>19, ExitState DEF Exit
<1>20. ASSUME NEW c \in CPUs, NEW p \in Slots, ExitInit(c, p) PROVE TypeOK'
  BY <1>20 DEF ExitInit, At, Goto, table
<1>21. CASE Tick
  BY <1>21, Woken DEF Tick
<1>22. CASE UNCHANGED vars
  BY <1>22 DEF vars, table
<1>23. QED
  BY Zenon, <1>1, <1>2, <1>3, <1>4, <1>5, <1>6, <1>7, <1>8, <1>9, <1>10, <1>11,
     <1>12, <1>13, <1>14, <1>15, <1>16, <1>17, <1>18, <1>19, <1>20, <1>21, <1>22
  DEF Next, Scheduler, Switch, Kernel

\* A CPU and its process stay in step, and only one CPU has the process.
LEMMA CpuStep ==
  ASSUME TypeOK, CpuInv, ForkInv, [Next]_vars
  PROVE  CpuInv'
<1> USE ProcConstants, SlotFacts DEF CpuInv
<1>t. /\ state \in [Slots -> States] /\ proc \in [CPUs -> 0 .. NPROC]
      /\ np \in [Slots -> 0 .. NPROC] /\ ptlock \in CPUs \cup {Free}
  BY DEF TypeOK
<1>0. CASE UNCHANGED <<state, proc, ptlock>>
  BY <1>0
<1>1. ASSUME NEW c \in CPUs, SchedAcquire(c) PROVE CpuInv'
  BY <1>t, <1>1 DEF SchedAcquire, table
<1>2. ASSUME NEW c \in CPUs, SchedPick(c) PROVE CpuInv'
  <2>1. CASE UNCHANGED <<state, proc, scan>> /\ ptlock' = Free
    BY <1>t, <1>2, <2>1 DEF SchedPick
  <2>2. ASSUME NEW p \in Slots, state[p] = "RUNNABLE", UNCHANGED ptlock,
               state' = [state EXCEPT ![p] = "RUNNING"], proc' = [proc EXCEPT ![c] = p]
        PROVE  CpuInv'
    <3>1. proc[c] = 0 /\ ptlock = c
      BY <1>2 DEF SchedPick
    <3>2. \A d \in CPUs : proc[d] # p
      BY <1>t, <2>2, <3>1
    <3>3. QED BY <1>t, <2>2, <3>1, <3>2
  <2>3. QED BY Zenon, <1>2, <2>1, <2>2, PickEffect
<1>3. ASSUME NEW c \in CPUs, NEW p \in Slots, Swtch(c, p) PROVE CpuInv'
  BY <1>t, <1>3 DEF Swtch, table
<1>4. ASSUME NEW c \in CPUs, NEW p \in Slots, Resume(c, p) PROVE CpuInv'
  BY <1>t, <1>4 DEF Resume
<1>5. ASSUME NEW c \in CPUs, NEW p \in Slots, proc[c] = p, ptlock = Free, ptlock' = c,
             NEW s \in {"RUNNABLE", "SLEEPING"}, state' = [state EXCEPT ![p] = s],
             UNCHANGED proc
      PROVE  CpuInv'
  BY <1>t, <1>5
<1>6. ASSUME NEW c \in CPUs, NEW p \in Slots, Yield(c, p) PROVE CpuInv'
  BY <1>5, <1>6 DEF Yield
<1>7. ASSUME NEW c \in CPUs, NEW p \in Slots, Sleep(c, p) PROVE CpuInv'
  BY <1>5, <1>7 DEF Sleep, At
<1>8. ASSUME NEW q \in Slots, ~(\E d \in CPUs : proc[d] = q), NEW s \in States,
             s # "RUNNING", state' = [state EXCEPT ![q] = s], UNCHANGED proc,
             \/ ptlock' = ptlock
             \/ /\ ptlock' = Free
                /\ \A d \in CPUs : ptlock = d /\ proc[d] # 0 => state[proc[d]] = "RUNNING"
      PROVE  CpuInv'
  BY <1>t, <1>8
<1>9. ASSUME NEW c \in CPUs, NEW p \in Slots, AllocProc(c, p) PROVE CpuInv'
  <2>1. UNCHANGED <<proc, ptlock>>
    BY <1>9 DEF AllocProc
  <2>2. ASSUME NEW q \in Slots, state[q] = "UNUSED", state' = [state EXCEPT ![q] = "EMBRYO"]
        PROVE  CpuInv'
    BY <1>t, <2>1, <2>2, <1>8, Names
  <2>3. QED BY Zenon, <1>0, <1>9, <2>1, <2>2, AllocEffect
<1>10. ASSUME NEW c \in CPUs, NEW p \in Slots, ForkFails(c, p) PROVE CpuInv'
  <2>1. np[p] \in Slots /\ state[np[p]] = "EMBRYO"
    BY <1>t, <1>10 DEF ForkFails, At, ForkInv
  <2>2. QED BY <1>t, <1>8, <1>10, <2>1, Names DEF ForkFails
<1>11. ASSUME NEW c \in CPUs, NEW p \in Slots, ForkDone(c, p) PROVE CpuInv'
  <2>1. np[p] \in Slots /\ state[np[p]] = "EMBRYO"
    BY <1>t, <1>11 DEF ForkDone, At, ForkInv
  <2>2. QED BY <1>t, <1>8, <1>11, <2>1, Names DEF ForkDone
<1>12. ASSUME NEW c \in CPUs, NEW p \in Slots, WaitCall(c, p) PROVE CpuInv'
  BY <1>t, <1>12 DEF WaitCall, At, table
<1>13. ASSUME NEW c \in CPUs, NEW p \in Slots, Reap(c, p) PROVE CpuInv'
  <2>1. PICK q \in Slots : state[q] = "ZOMBIE" /\ state' = [state EXCEPT ![q] = "UNUSED"]
    BY <1>13, ReapEffect
  <2>2. UNCHANGED proc /\ ptlock' = Free /\ ptlock = c /\ proc[c] = p /\ state[p] = "RUNNING"
    BY <1>13 DEF Reap, Scanning
  <2>3. QED BY <1>t, <1>8, <2>1, <2>2, Names
<1>14. ASSUME NEW c \in CPUs, NEW p \in Slots, WaitFails(c, p) PROVE CpuInv'
  BY <1>t, <1>14 DEF WaitFails, Scanning
<1>15. ASSUME NEW c \in CPUs, NEW p \in Slots, WaitSleep(c, p) PROVE CpuInv'
  BY <1>t, <1>15 DEF WaitSleep, Scanning
<1>16. ASSUME UNCHANGED <<proc, ptlock>>, ptlock = Free, state' \in [Slots -> States],
              \A q \in Slots : \/ state'[q] = state[q]
                               \/ state[q] = "SLEEPING" /\ state'[q] = "RUNNABLE"
       PROVE  CpuInv'
  BY <1>t, <1>16
<1>17. ASSUME NEW c \in CPUs, NEW p \in Slots, Kill(c, p) PROVE CpuInv'
  <2>1. UNCHANGED <<proc, ptlock>> /\ ptlock = Free
    BY <1>17 DEF Kill
  <2>2. /\ state' \in [Slots -> States]
        /\ \A q \in Slots : \/ state'[q] = state[q]
                            \/ state[q] = "SLEEPING" /\ state'[q] = "RUNNABLE"
    BY <1>t, <1>17, KillEffect, Names
  <2>3. QED BY Zenon, <1>16, <2>1, <2>2
<1>18. ASSUME NEW c \in CPUs, NEW p \in Slots, Exit(c, p) PROVE CpuInv'
  <2>1. UNCHANGED proc /\ ptlock' = c /\ ptlock = Free /\ proc[c] = p
    BY <1>18 DEF Exit, At
  <2>2. /\ state'[p] = "ZOMBIE"
        /\ \A q \in Slots \ {p} : \/ state'[q] = state[q]
                                  \/ state[q] = "SLEEPING" /\ state'[q] = "RUNNABLE"
    BY <1>18, ExitState
  <2>3. QED BY <1>t, <2>1, <2>2
<1>19. CASE Tick
  BY <1>t, <1>16, <1>19, Woken DEF Tick
<1>20. ASSUME NEW c \in CPUs, NEW p \in Slots,
              \/ Trap(c, p) \/ Fault(c, p) \/ CopyProc(c, p) \/ SleepReturn(c, p) \/ SleepCheck(c, p)
              \/ ExitInit(c, p)
       PROVE  CpuInv'
  BY <1>0, <1>20 DEF Trap, Fault, CopyProc, SleepReturn, SleepCheck, ExitInit, table
<1>21. CASE UNCHANGED vars
  BY <1>0, <1>21 DEF vars
<1>22. QED
  BY Zenon, <1>1, <1>2, <1>3, <1>4, <1>6, <1>7, <1>9, <1>10, <1>11, <1>12, <1>13,
     <1>14, <1>15, <1>17, <1>18, <1>19, <1>20, <1>21
  DEF Next, Scheduler, Switch, Kernel

\* A slot that fork() fills is nobody else's.
LEMMA ForkStep ==
  ASSUME TypeOK, CpuInv, ForkInv, FamilyInv, [Next]_vars
  PROVE  ForkInv'
<1> USE ProcConstants, SlotFacts DEF ForkInv
<1>t. /\ state \in [Slots -> States] /\ proc \in [CPUs -> 0 .. NPROC]
      /\ np \in [Slots -> 0 .. NPROC] /\ pc \in [Slots -> Points]
      /\ parent \in [Slots -> 0 .. NPROC]
  BY DEF TypeOK
<1>r. \A c \in CPUs, p \in Slots, l \in Points : At(c, p, l) => state[p] = "RUNNING"
  BY AtRunning
\* Steps that change neither fork()'s locals nor the slots it fills.
<1>0. ASSUME UNCHANGED <<np, pc>>,
             \A q \in Slots : state[q] = "EMBRYO" => state'[q] = "EMBRYO" /\ parent'[q] = parent[q],
             \A q \in Slots : np[q] # 0 => state'[q] \in {"RUNNING", "RUNNABLE"}
      PROVE  ForkInv'
  BY <1>t, <1>0
\* Steps of a process that is in no fork(), to a point outside of fork().
<1>1. ASSUME NEW p \in Slots, NEW l \in Points \ {"copy", "runnable"}, np[p] = 0,
             pc' = [pc EXCEPT ![p] = l], UNCHANGED np,
             \A q \in Slots : state[q] = "EMBRYO" => state'[q] = "EMBRYO" /\ parent'[q] = parent[q],
             \A q \in Slots : np[q] # 0 => state'[q] \in {"RUNNING", "RUNNABLE"}
      PROVE  ForkInv'
  BY <1>t, <1>1
<1>2. CASE UNCHANGED <<np, pc, state, parent>>
  BY <1>0, <1>2
<1>3. ASSUME NEW c \in CPUs, SchedAcquire(c) PROVE ForkInv'
  BY <1>2, <1>3 DEF SchedAcquire, table
<1>4. ASSUME NEW c \in CPUs, SchedPick(c) PROVE ForkInv'
  <2>1. UNCHANGED <<np, pc, parent>>
    BY <1>4 DEF SchedPick
  <2>2. ASSUME NEW p \in Slots, state[p] = "RUNNABLE", state' = [state EXCEPT ![p] = "RUNNING"]
        PROVE  ForkInv'
    BY <1>0, <1>t, <2>1, <2>2
  <2>3. QED BY Zenon, <1>2, <1>4, <2>1, <2>2, PickEffect
<1>5. ASSUME NEW c \in CPUs, NEW p \in Slots,
             Swtch(c, p) \/ Resume(c, p)
      PROVE  ForkInv'
  BY <1>2, <1>5 DEF Swtch, Resume, table
<1>6. ASSUME NEW c \in CPUs, NEW p \in Slots, Yield(c, p) PROVE ForkInv'
  <2>1. state[p] = "RUNNING"
    BY <1>6 DEF Yield, CpuInv
  <2>2. QED BY <1>0, <1>t, <1>6, <2>1 DEF Yield
<1>7. ASSUME NEW c \in CPUs, NEW p \in Slots, Trap(c, p) \/ ExitInit(c, p) \/ SleepReturn(c, p) \/ SleepCheck(c, p)
      PROVE  ForkInv'
  <2>1. UNCHANGED <<np, state, parent>> /\ pc[p] \in {"user", "exit", "sleep"}
    BY <1>7 DEF Trap, ExitInit, SleepReturn, SleepCheck, table, At
  <2>2. \E l \in Points \ {"copy", "runnable"} : pc' = [pc EXCEPT ![p] = l]
    BY <1>7, Names DEF Trap, ExitInit, SleepReturn, SleepCheck, Goto, Calls
  <2>3. QED BY <1>1, <1>t, <2>1, <2>2
<1>8. ASSUME NEW c \in CPUs, NEW p \in Slots, Fault(c, p) PROVE ForkInv'
  BY <1>1, <1>t, <1>8, Names DEF Fault, At, Goto
<1>9. ASSUME NEW c \in CPUs, NEW p \in Slots, AllocProc(c, p) PROVE ForkInv'
  <2>1. UNCHANGED parent /\ pc[p] = "fork" /\ state[p] = "RUNNING"
    BY <1>9, <1>r, Names DEF AllocProc, At
  <2>2. CASE Goto(p, "user") /\ UNCHANGED <<state, pid, np, nextpid>>
    BY <1>1, <1>t, <2>1, <2>2, Names DEF Goto
  <2>3. ASSUME NEW q \in Slots, state[q] = "UNUSED", state' = [state EXCEPT ![q] = "EMBRYO"],
               np' = [np EXCEPT ![p] = q], Goto(p, "copy")
        PROVE  ForkInv'
    BY <1>t, <2>1, <2>3 DEF Goto, FamilyInv
  <2> HIDE DEF ForkInv
  <2>4. QED BY Zenon, <1>9, <2>2, <2>3, AllocEffect
<1>10. ASSUME NEW c \in CPUs, NEW p \in Slots, ForkFails(c, p) PROVE ForkInv'
  <2>1. pc[p] = "copy" /\ state[p] = "RUNNING"
    BY <1>10, <1>r, Names DEF ForkFails, At
  <2>2. /\ state' = [state EXCEPT ![np[p]] = "UNUSED"] /\ np' = [np EXCEPT ![p] = 0]
        /\ pc' = [pc EXCEPT ![p] = "user"] /\ UNCHANGED parent
    BY <1>10 DEF ForkFails, Goto
  <2>3. np[p] \in Slots /\ \A q \in Slots \ {p} : np[q] # np[p]
    BY <1>t, <2>1
  <2>4. \A q \in Slots : state'[q] = state[q] \/ q = np[p]
    BY <1>t, <2>2
  <2>5. QED BY <1>t, <2>1, <2>2, <2>3, <2>4
<1>11. ASSUME NEW c \in CPUs, NEW p \in Slots, CopyProc(c, p) PROVE ForkInv'
  <2>1. pc[p] = "copy" /\ state[p] = "RUNNING"
    BY <1>11, <1>r, Names DEF CopyProc, At
  <2>2. QED BY <1>t, <1>11, <2>1 DEF CopyProc, Goto
<1>12. ASSUME NEW c \in CPUs, NEW p \in Slots, ForkDone(c, p) PROVE ForkInv'
  <2>1. pc[p] = "runnable" /\ state[p] = "RUNNING"
    BY <1>12, <1>r, Names DEF ForkDone, At
  <2>2. np[np[p]] = 0
    BY <1>t, <2>1
  <2>3. QED BY <1>t, <1>12, <2>1, <2>2 DEF ForkDone
<1>13. ASSUME NEW c \in CPUs, NEW p \in Slots, WaitCall(c, p) PROVE ForkInv'
  BY <1>1, <1>t, <1>13, Names DEF WaitCall, At, Goto, table
<1>14. ASSUME NEW c \in CPUs, NEW p \in Slots, Reap(c, p) PROVE ForkInv'
  <2>1. UNCHANGED np /\ pc[p] = "scan" /\ pc' = [pc EXCEPT ![p] = "user"]
    BY <1>14 DEF Reap, Scanning, Goto
  <2>2. PICK q \in Slots : /\ state[q] = "ZOMBIE" /\ state' = [state EXCEPT ![q] = "UNUSED"]
                           /\ parent' = [parent EXCEPT ![q] = 0]
    BY <1>14, ReapEffect
  <2>3. QED BY <1>1, <1>t, <2>1, <2>2, Names
<1>15. ASSUME NEW c \in CPUs, NEW p \in Slots, WaitFails(c, p) PROVE ForkInv'
  <2>1. /\ UNCHANGED <<np, state, parent>> /\ pc[p] = "scan"
        /\ pc' = [pc EXCEPT ![p] = "user"]
    BY <1>15 DEF WaitFails, Scanning, Goto
  <2>2. QED BY <1>1, <1>t, <2>1, Names
<1>16. ASSUME NEW c \in CPUs, NEW p \in Slots, WaitSleep(c, p) PROVE ForkInv'
  BY <1>0, <1>t, <1>16 DEF WaitSleep, Scanning
<1>17. ASSUME NEW c \in CPUs, NEW p \in Slots, Kill(c, p) PROVE ForkInv'
  <2>1. UNCHANGED <<np, parent>> /\ pc[p] = "kill" /\ pc' = [pc EXCEPT ![p] = "user"]
    BY <1>17 DEF Kill, At, Goto
  <2>2. \A q \in Slots : \/ state'[q] = state[q]
                         \/ state[q] = "SLEEPING" /\ state'[q] = "RUNNABLE"
    BY <1>t, <1>17, KillEffect
  <2>3. QED BY <1>1, <1>t, <2>1, <2>2, Names
<1>18. ASSUME NEW c \in CPUs, NEW p \in Slots, Sleep(c, p) PROVE ForkInv'
  <2>1. /\ UNCHANGED <<np, parent>> /\ pc[p] = "dosleep" /\ state[p] = "RUNNING"
        /\ state' = [state EXCEPT ![p] = "SLEEPING"] /\ pc' = [pc EXCEPT ![p] = "sleep"]
    BY <1>18, <1>r, Names DEF Sleep, At, Goto
  <2>2. QED BY <1>1, <1>t, <2>1, Names
<1>19. ASSUME NEW c \in CPUs, NEW p \in Slots, Exit(c, p) PROVE ForkInv'
  <2>1. /\ UNCHANGED <<np, pc>> /\ pc[p] = "exit" /\ state[p] = "RUNNING"
        /\ parent' = [q \in Slots |-> IF parent[q] = p THEN initproc ELSE parent[q]]
    BY <1>19, <1>r, Names DEF Exit, At
  <2>2. /\ state'[p] = "ZOMBIE"
        /\ \A q \in Slots \ {p} : \/ state'[q] = state[q]
                                  \/ state[q] = "SLEEPING" /\ state'[q] = "RUNNABLE"
    BY <1>19, ExitState
  <2>3. \A q \in Slots : state[q] = "EMBRYO" => parent[q] # p
    BY <1>t, <2>1 DEF FamilyInv
  <2>4. QED BY <1>0, <1>t, <2>1, <2>2, <2>3
<1>20. CASE Tick
  <2>1. \A q \in Slots : \/ state'[q] = state[q]
                         \/ state[q] = "SLEEPING" /\ state'[q] = "RUNNABLE"
    BY <1>t, <1>20, Woken DEF Tick
  <2>2. QED BY <1>0, <1>t, <1>20, <2>1 DEF Tick
<1>21. CASE UNCHANGED vars
  BY <1>2, <1>21 DEF vars
<1>22. QED
  BY Zenon, <1>3, <1>4, <1>5, <1>6, <1>7, <1>8, <1>9, <1>10, <1>11, <1>12, <1>13,
     <1>14, <1>15, <1>16, <1>17, <1>18, <1>19, <1>20, <1>21
  DEF Next, Scheduler, Switch, Kernel

\* exit() and wait() leave nobody without a parent that can wait.
LEMMA FamilyStep ==
  ASSUME TypeOK, CpuInv, ForkInv, FamilyInv, [Next]_vars
  PROVE  FamilyInv'
<1> USE ProcConstants, SlotFacts DEF FamilyInv, Live
<1>t. /\ state \in [Slots -> States] /\ proc \in [CPUs -> 0 .. NPROC]
      /\ np \in [Slots -> 0 .. NPROC] /\ pc \in [Slots -> Points]
      /\ parent \in [Slots -> 0 .. NPROC]
  BY DEF TypeOK
<1>r. \A c \in CPUs, p \in Slots, l \in Points : At(c, p, l) => state[p] = "RUNNING"
  BY AtRunning
\* Steps that keep every family and let no live process die.
<1>0. ASSUME UNCHANGED parent,
             \A q \in Slots : state'[q] = state[q] \/ (state[q] \in Live /\ state'[q] \in Live),
             \A q \in Slots : pc[q] = "runnable" => pc'[q] = "runnable" /\ np'[q] = np[q]
      PROVE  FamilyInv'
  BY <1>t, <1>0
<1>1. ASSUME NEW c \in CPUs, SchedAcquire(c) \/ SchedPick(c) PROVE FamilyInv'
  <2>1. UNCHANGED <<parent, pc, np>>
    BY <1>1 DEF SchedAcquire, SchedPick, table
  <2>2. CASE SchedAcquire(c)
    BY <1>0, <2>1, <2>2 DEF SchedAcquire, table
  <2>3. CASE SchedPick(c)
    <3>1. \A q \in Slots : state'[q] = state[q] \/ (state[q] \in Live /\ state'[q] \in Live)
      BY <1>t, <2>3, PickEffect
    <3>2. QED BY <1>0, <2>1, <3>1
  <2>4. QED BY <1>1, <2>2, <2>3
<1>2. ASSUME NEW c \in CPUs, NEW p \in Slots,
             Swtch(c, p) \/ Resume(c, p)
      PROVE  FamilyInv'
  BY <1>0, <1>2 DEF Swtch, Resume, table
<1>3. ASSUME NEW c \in CPUs, NEW p \in Slots, pc[p] # "runnable",
             \E l : pc' = [pc EXCEPT ![p] = l], UNCHANGED <<np, parent, state>>
      PROVE  FamilyInv'
  BY SMTT(30), <1>0, <1>t, <1>3
<1>4. ASSUME NEW c \in CPUs, NEW p \in Slots,
             \/ Trap(c, p) \/ Fault(c, p) \/ SleepReturn(c, p) \/ SleepCheck(c, p) \/ ExitInit(c, p)
             \/ WaitCall(c, p) \/ WaitFails(c, p)
      PROVE  FamilyInv'
  BY <1>3, <1>4 DEF Trap, Fault, SleepReturn, SleepCheck, ExitInit, WaitCall, WaitFails, At, Goto,
     Scanning, table
<1>5. ASSUME NEW c \in CPUs, NEW p \in Slots, Yield(c, p) PROVE FamilyInv'
  <2>1. state[p] = "RUNNING"
    BY <1>5 DEF Yield, CpuInv
  <2>2. QED BY <1>0, <1>t, <1>5, <2>1 DEF Yield
<1>6. ASSUME NEW c \in CPUs, NEW p \in Slots, Sleep(c, p) \/ WaitSleep(c, p) PROVE FamilyInv'
  <2>1. /\ state[p] = "RUNNING" /\ state' = [state EXCEPT ![p] = "SLEEPING"]
        /\ UNCHANGED <<parent, np>>
        /\ \A q \in Slots : pc[q] = "runnable" => pc'[q] = "runnable"
    BY <1>6, <1>r, <1>t, Names DEF Sleep, WaitSleep, Scanning, At, Goto
  <2>2. QED BY <1>0, <1>t, <2>1
<1>7. ASSUME NEW c \in CPUs, NEW p \in Slots, Kill(c, p) PROVE FamilyInv'
  <2>1. UNCHANGED <<np, parent>> /\ pc[p] = "kill" /\ pc' = [pc EXCEPT ![p] = "user"]
    BY <1>7 DEF Kill, At, Goto
  <2>2. \A q \in Slots : state'[q] = state[q] \/ (state[q] \in Live /\ state'[q] \in Live)
    BY <1>t, <1>7, KillEffect
  <2>3. QED BY <1>0, <1>t, <2>1, <2>2
<1>8. CASE Tick
  <2>1. \A q \in Slots : state'[q] = state[q] \/ (state[q] \in Live /\ state'[q] \in Live)
    BY <1>t, <1>8, Woken DEF Tick
  <2>2. QED BY <1>0, <1>8, <2>1 DEF Tick
<1>9. ASSUME NEW c \in CPUs, NEW p \in Slots, AllocProc(c, p) PROVE FamilyInv'
  <2>1. UNCHANGED parent /\ pc[p] = "fork" /\ state[p] = "RUNNING"
    BY <1>9, <1>r, Names DEF AllocProc, At
  <2>2. CASE Goto(p, "user") /\ UNCHANGED <<state, pid, np, nextpid>>
    BY <1>0, <1>t, <2>1, <2>2 DEF Goto
  <2>3. ASSUME NEW q \in Slots, state[q] = "UNUSED", state' = [state EXCEPT ![q] = "EMBRYO"],
               np' = [np EXCEPT ![p] = q], Goto(p, "copy")
        PROVE  FamilyInv'
    <3>1. \A r \in Slots : pc[r] = "runnable" => pc'[r] = "runnable" /\ np'[r] = np[r]
      BY <1>t, <2>1, <2>3 DEF Goto
    <3>2. QED BY <1>t, <2>1, <2>3, <3>1
  <2> HIDE DEF FamilyInv
  <2>4. QED BY Zenon, <1>9, <2>2, <2>3, AllocEffect
<1>10. ASSUME NEW c \in CPUs, NEW p \in Slots, ForkFails(c, p) PROVE FamilyInv'
  <2>1. pc[p] = "copy" /\ np[p] \in Slots /\ state[np[p]] = "EMBRYO" /\ parent[np[p]] = 0
    BY <1>t, <1>10 DEF ForkFails, At, ForkInv
  <2>2. \A q \in Slots : pc[q] = "runnable" => pc'[q] = "runnable" /\ np'[q] = np[q]
    BY <1>t, <1>10, <2>1 DEF ForkFails, Goto
  <2>3. UNCHANGED parent /\ state' = [state EXCEPT ![np[p]] = "UNUSED"]
    BY <1>10 DEF ForkFails
  <2>4. QED BY <1>t, <2>1, <2>2, <2>3
<1>11. ASSUME NEW c \in CPUs, NEW p \in Slots, CopyProc(c, p) PROVE FamilyInv'
  <2>1. /\ pc[p] = "copy" /\ np[p] \in Slots /\ state[np[p]] = "EMBRYO"
        /\ parent[np[p]] = 0 /\ np[p] # p
    BY <1>t, <1>11 DEF CopyProc, At, ForkInv
  <2>2. \A q \in Slots : pc[q] = "runnable" => pc'[q] = "runnable" /\ np'[q] = np[q]
    BY <1>t, <1>11, <2>1 DEF CopyProc, Goto
  <2>3. /\ UNCHANGED state /\ parent' = [parent EXCEPT ![np[p]] = p]
        /\ np'[p] = np[p] /\ pc'[p] = "runnable"
    BY <1>t, <1>11 DEF CopyProc, Goto
  <2>4. QED BY <1>t, <2>1, <2>2, <2>3
<1>12. ASSUME NEW c \in CPUs, NEW p \in Slots, ForkDone(c, p) PROVE FamilyInv'
  <2>1. /\ pc[p] = "runnable" /\ np[p] \in Slots /\ state[np[p]] = "EMBRYO"
        /\ parent[np[p]] = p /\ state[p] = "RUNNING" /\ pc[np[p]] # "runnable"
    BY <1>t, <1>12, <1>r, Names DEF ForkDone, At, ForkInv
  <2>2. /\ UNCHANGED parent /\ state' = [state EXCEPT ![np[p]] = "RUNNABLE"]
        /\ np' = [np EXCEPT ![p] = 0] /\ pc' = [pc EXCEPT ![p] = "user", ![np[p]] = "user"]
    BY <1>12 DEF ForkDone
  <2>3. \A q \in Slots : q # p /\ pc[q] = "runnable" => pc'[q] = "runnable" /\ np'[q] = np[q]
    BY <1>t, <2>1, <2>2
  <2>4. \A q \in Slots : state[q] = "EMBRYO" /\ parent[q] = p => q = np[p]
    BY <1>t, <2>1
  <2>5. QED BY <1>t, <2>1, <2>2, <2>3, <2>4, SMTT(30)
<1>13. ASSUME NEW c \in CPUs, NEW p \in Slots, Reap(c, p) PROVE FamilyInv'
  <2>1. UNCHANGED np /\ pc[p] = "scan" /\ pc' = [pc EXCEPT ![p] = "user"]
    BY <1>13 DEF Reap, Scanning, Goto
  <2>2. PICK q \in Slots : /\ state[q] = "ZOMBIE" /\ state' = [state EXCEPT ![q] = "UNUSED"]
                           /\ parent' = [parent EXCEPT ![q] = 0]
    BY <1>13, ReapEffect
  <2>3. \A r \in Slots : pc[r] = "runnable" => pc'[r] = "runnable" /\ state[r] # "ZOMBIE"
    BY <1>t, <2>1 DEF ForkInv
  <2>4. \A r \in Slots : parent[r] # q
    BY <1>t, <2>2, <2>3
  <2>5. QED BY <1>t, <2>1, <2>2, <2>3, <2>4
<1>14. ASSUME NEW c \in CPUs, NEW p \in Slots, Exit(c, p) PROVE FamilyInv'
  <2>1. /\ UNCHANGED <<np, pc>> /\ pc[p] = "exit" /\ state[p] = "RUNNING" /\ p # initproc
        /\ parent' = [q \in Slots |-> IF parent[q] = p THEN initproc ELSE parent[q]]
    BY <1>14, <1>r, Names DEF Exit, At
  <2>2. /\ state'[p] = "ZOMBIE"
        /\ \A q \in Slots \ {p} : state'[q] = state[q] \/ (state[q] \in Live /\ state'[q] \in Live)
    BY <1>14, ExitState
  <2>3. \A q \in Slots : state[q] = "EMBRYO" => parent[q] # p
    BY <1>t, <2>1
  <2>4. QED BY <1>t, <2>1, <2>2, <2>3
<1>15. CASE UNCHANGED vars
  BY <1>0, <1>15 DEF vars
<1>16. QED
  BY Zenon, <1>1, <1>2, <1>4, <1>5, <1>6, <1>7, <1>8, <1>9, <1>10, <1>11, <1>12, <1>13,
     <1>14, <1>15
  DEF Next, Scheduler, Switch, Kernel

\* Nobody sleeps in wait() with nothing to wait for.
LEMMA NoticedStep ==
  ASSUME TypeOK, CpuInv, ForkInv, FamilyInv, ExitNoticed, [Next]_vars
  PROVE  ExitNoticed'
<1> USE ProcConstants, SlotFacts DEF ExitNoticed, Zombies, Children
<1>t. /\ state \in [Slots -> States] /\ proc \in [CPUs -> 0 .. NPROC]
      /\ np \in [Slots -> 0 .. NPROC] /\ chan \in [Slots -> 0 .. NPROC + 1]
      /\ parent \in [Slots -> 0 .. NPROC] /\ killed \subseteq Slots
  BY DEF TypeOK
<1>r. \A c \in CPUs, p \in Slots, l \in Points : At(c, p, l) => state[p] = "RUNNING"
  BY AtRunning
\* Steps that put nobody to sleep, make no zombie and take no child away.
<1>0. ASSUME \A q \in Slots : state'[q] = "SLEEPING" =>
                /\ state[q] = "SLEEPING" /\ chan'[q] = chan[q]
                /\ q \in killed' => q \in killed,
             \A q \in Slots : state'[q] = "ZOMBIE" => state[q] = "ZOMBIE",
             \A q, r \in Slots : state[q] = "SLEEPING" =>
                (parent'[r] = q <=> parent[r] = q)
      PROVE  ExitNoticed'
  BY <1>t, <1>0
<1>1. CASE UNCHANGED <<state, chan, killed, parent>>
  BY <1>1
<1>2. ASSUME NEW c \in CPUs, SchedAcquire(c) \/ SchedPick(c) PROVE ExitNoticed'
  <2>1. CASE SchedAcquire(c)
    BY <1>1, <2>1 DEF SchedAcquire, table
  <2>2. CASE SchedPick(c)
    <3>1. UNCHANGED <<chan, killed, parent>>
      BY <2>2 DEF SchedPick
    <3>2. \A q \in Slots : state'[q] = state[q] \/ state'[q] = "RUNNING"
      BY <1>t, <2>2, PickEffect, SMTT(30)
    <3>3. QED BY <1>0, <3>1, <3>2
  <2>3. QED BY <1>2, <2>1, <2>2
<1>3. ASSUME NEW c \in CPUs, NEW p \in Slots,
             \/ Swtch(c, p) \/ Trap(c, p) \/ SleepReturn(c, p) \/ SleepCheck(c, p) \/ ExitInit(c, p)
             \/ WaitCall(c, p)
      PROVE  ExitNoticed'
  BY <1>1, <1>3 DEF Swtch, Trap, SleepReturn, SleepCheck, ExitInit, WaitCall, table
<1>4. ASSUME NEW c \in CPUs, NEW p \in Slots, Resume(c, p) \/ WaitFails(c, p)
      PROVE  ExitNoticed'
  <2>1. /\ UNCHANGED <<state, killed, parent>> /\ chan' = [chan EXCEPT ![p] = 0]
        /\ state[p] = "RUNNING"
    BY <1>4 DEF Resume, WaitFails, Scanning
  <2>2. QED BY <1>0, <1>t, <2>1
<1>5. ASSUME NEW c \in CPUs, NEW p \in Slots, Fault(c, p) PROVE ExitNoticed'
  <2>1. UNCHANGED <<state, chan, parent>> /\ killed' = killed \cup {p} /\ state[p] = "RUNNING"
    BY <1>5, <1>r, Names DEF Fault
  <2>2. QED BY <1>0, <2>1
<1>6. ASSUME NEW c \in CPUs, NEW p \in Slots, Yield(c, p) PROVE ExitNoticed'
  BY <1>0, <1>t, <1>6 DEF Yield
<1>7. ASSUME NEW c \in CPUs, NEW p \in Slots, Sleep(c, p) PROVE ExitNoticed'
  <2>1. /\ UNCHANGED <<killed, parent>> /\ chan' = [chan EXCEPT ![p] = Ticks]
        /\ state' = [state EXCEPT ![p] = "SLEEPING"] /\ state[p] = "RUNNING"
    BY <1>7, <1>r, Names DEF Sleep
  <2>2. QED BY <1>t, <2>1
<1>8. ASSUME NEW c \in CPUs, NEW p \in Slots, WaitSleep(c, p) PROVE ExitNoticed'
  <2>1. /\ UNCHANGED <<killed, parent>> /\ chan' = [chan EXCEPT ![p] = p]
        /\ state' = [state EXCEPT ![p] = "SLEEPING"] /\ state[p] = "RUNNING"
    BY <1>8 DEF WaitSleep, Scanning
  <2>2. Zombies(p) = {} /\ Children(p) # {} /\ p \notin killed
    BY <1>8 DEF WaitSleep
  <2>3. \A q \in Slots : Zombies(q)' \subseteq Zombies(q) /\ Children(q)' = Children(q)
    BY <1>t, <2>1
  <2>4. QED BY <1>t, <2>1, <2>2, <2>3
<1>9. ASSUME NEW c \in CPUs, NEW p \in Slots, Kill(c, p) PROVE ExitNoticed'
  <2>1. UNCHANGED <<chan, parent>>
    BY <1>9 DEF Kill
  <2>2. CASE UNCHANGED <<state, killed>>
    BY <1>1, <2>1, <2>2
  <2>3. ASSUME NEW q \in Slots, killed' = killed \cup {q},
               state' = [state EXCEPT ![q] = IF @ = "SLEEPING" THEN "RUNNABLE" ELSE @]
        PROVE  ExitNoticed'
    BY <1>0, <1>t, <2>1, <2>3
  <2> HIDE DEF ExitNoticed
  <2>4. QED BY Zenon, <1>9, <2>2, <2>3, KillEffect
<1>10. CASE Tick
  <2>1. \A q \in Slots : state'[q] = state[q] \/ state'[q] = "RUNNABLE"
    BY <1>t, <1>10, Woken DEF Tick
  <2>2. QED BY <1>0, <1>10, <2>1 DEF Tick
<1>11. ASSUME NEW c \in CPUs, NEW p \in Slots, AllocProc(c, p) PROVE ExitNoticed'
  <2>1. UNCHANGED <<chan, parent, killed>>
    BY <1>11 DEF AllocProc
  <2>2. \A q \in Slots : state'[q] = state[q] \/ state'[q] = "EMBRYO"
    BY <1>t, <1>11, AllocEffect
  <2>3. QED BY <1>0, <2>1, <2>2, SMTT(30)
<1>12. ASSUME NEW c \in CPUs, NEW p \in Slots, ForkFails(c, p) \/ ForkDone(c, p)
       PROVE  ExitNoticed'
  <2>1. UNCHANGED <<chan, parent, killed>>
    BY <1>12 DEF ForkFails, ForkDone
  <2>2. \A q \in Slots : state'[q] = state[q] \/ state'[q] \in {"UNUSED", "RUNNABLE"}
    BY <1>t, <1>12 DEF ForkFails, ForkDone
  <2>3. QED BY <1>0, <2>1, <2>2
<1>13. ASSUME NEW c \in CPUs, NEW p \in Slots, CopyProc(c, p) PROVE ExitNoticed'
  <2>1. /\ UNCHANGED <<state, chan, killed>> /\ parent' = [parent EXCEPT ![np[p]] = p]
        /\ state[p] = "RUNNING"
    BY <1>13, <1>r, Names DEF CopyProc
  <2>2. parent[np[p]] = 0
    BY <1>13 DEF CopyProc, At, ForkInv
  <2>3. QED BY <1>0, <1>t, <2>1, <2>2
<1>14. ASSUME NEW c \in CPUs, NEW p \in Slots, Reap(c, p) PROVE ExitNoticed'
  <2>1. chan' = [chan EXCEPT ![p] = 0] /\ state[p] = "RUNNING"
    BY <1>14 DEF Reap, Scanning
  <2>2. PICK q \in Slots : /\ state[q] = "ZOMBIE" /\ state' = [state EXCEPT ![q] = "UNUSED"]
                           /\ parent[q] = p /\ parent' = [parent EXCEPT ![q] = 0]
                           /\ killed' = killed \ {q}
    BY <1>14, ReapEffect
  <2>3. QED BY <1>0, <1>t, <2>1, <2>2
<1>15. ASSUME NEW c \in CPUs, NEW p \in Slots, Exit(c, p) PROVE ExitNoticed'
  <2>1. /\ UNCHANGED <<chan, killed>> /\ state[p] = "RUNNING" /\ p # initproc
        /\ parent' = [q \in Slots |-> IF parent[q] = p THEN initproc ELSE parent[q]]
    BY <1>15, <1>r, Names DEF Exit
  <2>2. /\ state'[p] = "ZOMBIE"
        /\ \A q \in Slots \ {p} : \/ state'[q] = state[q]
                                  \/ state[q] = "SLEEPING" /\ state'[q] = "RUNNABLE"
        /\ \A q \in Slots \ {p} : ~(state'[q] = "SLEEPING" /\ chan[q] = parent[p])
        /\ Zombies(p) # {} =>
              \A q \in Slots \ {p} : ~(state'[q] = "SLEEPING" /\ chan[q] = initproc)
    BY <1>15, ExitState
  <2>3. SUFFICES ASSUME NEW w \in Slots, state'[w] = "SLEEPING", chan'[w] = w
                 PROVE  Zombies(w)' = {} /\ Children(w)' # {} /\ w \notin killed'
    BY DEF ExitNoticed
  <2>4. /\ w # p /\ state[w] = "SLEEPING" /\ chan[w] = w /\ w # parent[p]
        /\ Zombies(w) = {} /\ Children(w) # {} /\ w \notin killed
    BY <2>1, <2>2, <2>3
  <2>5. Children(w) \subseteq Children(w)'
    BY <1>t, <2>1, <2>4
  <2>6. parent'[p] # w
    BY <1>t, <2>1, <2>4 DEF FamilyInv
  <2>7. \A q \in Slots : parent[q] = w => state'[q] # "ZOMBIE"
    BY <2>2, <2>4
  <2>8. \A q \in Slots : parent'[q] = w /\ parent[q] # w => state'[q] # "ZOMBIE"
    <3>1. SUFFICES ASSUME NEW q \in Slots, parent'[q] = w, parent[q] # w, state'[q] = "ZOMBIE"
                   PROVE  FALSE
      OBVIOUS
    <3>2. parent[q] = p /\ w = initproc /\ q # p
      BY <2>1, <2>6, <3>1
    <3>3. q \in Zombies(p)
      BY <2>2, <3>1, <3>2
    <3>4. QED BY <2>2, <2>3, <2>4, <3>2, <3>3
  <2>9. QED BY <2>1, <2>4, <2>5, <2>7, <2>8
<1>16. CASE UNCHANGED vars
  BY <1>1, <1>16 DEF vars
<1> HIDE DEF ExitNoticed
<1>17. QED
  BY Zenon, <1>2, <1>3, <1>4, <1>5, <1>6, <1>7, <1>8, <1>9, <1>10, <1>11, <1>12, <1>13,
     <1>14, <1>15, <1>16
  DEF Next, Scheduler, Switch, Kernel

\* allocproc() hands out a pid that no process has.
LEMMA PidStep ==
  ASSUME TypeOK, CpuInv, ForkInv, PidInv, [Next]_vars
  PROVE  PidInv'
<1> USE ProcConstants, SlotFacts DEF PidInv, UniquePids
<1>t. /\ state \in [Slots -> States] /\ pid \in [Slots -> Nat] /\ nextpid \in Nat
      /\ np \in [Slots -> 0 .. NPROC]
  BY DEF TypeOK
\* No slot comes into use.
<1>0. ASSUME UNCHANGED <<pid, nextpid>>,
             \A q \in Slots : state[q] = "UNUSED" => state'[q] = "UNUSED"
      PROVE  PidInv'
  BY <1>t, <1>0
<1>1. ASSUME NEW c \in CPUs, NEW p \in Slots, AllocProc(c, p) PROVE PidInv'
  <2>1. CASE Goto(p, "user") /\ UNCHANGED <<state, pid, np, nextpid>>
    BY <1>0, <2>1
  <2>2. ASSUME NEW q \in Slots, state' = [state EXCEPT ![q] = "EMBRYO"],
               pid' = [pid EXCEPT ![q] = nextpid], nextpid' = nextpid + 1
        PROVE  PidInv'
    BY <1>t, <2>2
  <2> HIDE DEF PidInv
  <2>3. QED BY Zenon, <1>1, <2>1, <2>2, AllocEffect
<1>2. ASSUME NEW c \in CPUs, NEW p \in Slots, Reap(c, p) PROVE PidInv'
  <2>1. PICK q \in Slots : /\ state' = [state EXCEPT ![q] = "UNUSED"]
                           /\ pid' = [pid EXCEPT ![q] = 0]
    BY <1>2, ReapEffect
  <2>2. UNCHANGED nextpid /\ 0 < nextpid
    BY <1>t, <1>2 DEF Reap
  <2>3. QED BY <1>t, <2>1, <2>2
<1>3. ASSUME NEW c \in CPUs, NEW p \in Slots, Exit(c, p) PROVE PidInv'
  <2>1. UNCHANGED <<pid, nextpid>> /\ state[p] = "RUNNING"
    BY <1>3, AtRunning DEF Exit
  <2>2. \A q \in Slots : state[q] = "UNUSED" => state'[q] = "UNUSED"
    BY <1>3, <2>1, ExitState
  <2>3. QED BY <1>0, <2>1, <2>2
<1>4. ASSUME NEW c \in CPUs, NEW p \in Slots, Kill(c, p) PROVE PidInv'
  <2>1. UNCHANGED <<pid, nextpid>>
    BY <1>4 DEF Kill
  <2>2. \A q \in Slots : state[q] = "UNUSED" => state'[q] = "UNUSED"
    BY <1>t, <1>4, KillEffect
  <2>3. QED BY SMTT(30), <1>0, <2>1, <2>2
<1>5. ASSUME NEW c \in CPUs, SchedAcquire(c) \/ SchedPick(c) PROVE PidInv'
  <2>1. UNCHANGED <<pid, nextpid>>
    BY <1>5 DEF SchedAcquire, SchedPick, table
  <2>2. CASE SchedAcquire(c)
    BY <1>0, <2>1, <2>2 DEF SchedAcquire, table
  <2>3. CASE SchedPick(c)
    <3>1. \A q \in Slots : state[q] = "UNUSED" => state'[q] = "UNUSED"
      BY <1>t, <2>3, PickEffect
    <3>2. QED BY <1>0, <2>1, <3>1
  <2>4. QED BY <1>5, <2>2, <2>3
<1>6. ASSUME NEW c \in CPUs, NEW p \in Slots, ForkFails(c, p) \/ CopyProc(c, p)
      PROVE  PidInv'
  <2>1. UNCHANGED <<pid, nextpid>>
    BY <1>6 DEF ForkFails, CopyProc
  <2>2. \A q \in Slots : state[q] = "UNUSED" => state'[q] = "UNUSED"
    BY <1>t, <1>6 DEF ForkFails, CopyProc
  <2>3. QED BY <1>0, <2>1, <2>2
<1>7. ASSUME NEW c \in CPUs, NEW p \in Slots, ForkDone(c, p) PROVE PidInv'
  <2>1. state[np[p]] = "EMBRYO"
    BY <1>7, SMTT(30) DEF ForkDone, At, ForkInv
  <2>2. QED BY <1>0, <1>t, <1>7, <2>1 DEF ForkDone
<1>8. ASSUME NEW c \in CPUs, NEW p \in Slots,
             Swtch(c, p) \/ Resume(c, p) \/ Trap(c, p) \/ Fault(c, p) \/ WaitCall(c, p)
             \/ WaitFails(c, p) \/ SleepReturn(c, p) \/ SleepCheck(c, p) \/ ExitInit(c, p)
      PROVE  PidInv'
  BY <1>0, <1>8 DEF Swtch, Resume, Trap, Fault, WaitCall, WaitFails, SleepReturn, SleepCheck,
     ExitInit, table
<1>9. ASSUME NEW c \in CPUs, NEW p \in Slots, Yield(c, p) \/ WaitSleep(c, p) \/ Sleep(c, p)
      PROVE  PidInv'
  <2>1. state[p] = "RUNNING" /\ UNCHANGED <<pid, nextpid>>
    BY <1>9, AtRunning DEF Yield, WaitSleep, Sleep, Scanning, CpuInv
  <2>2. \A q \in Slots : state[q] = "UNUSED" => state'[q] = "UNUSED"
    BY <1>t, <1>9, <2>1 DEF Yield, WaitSleep, Sleep
  <2>3. QED BY <1>0, <2>1, <2>2, SMTT(30)
<1>10. CASE Tick
  <2>1. \A q \in Slots : state[q] = "UNUSED" => state'[q] = "UNUSED"
    BY <1>t, <1>10, Woken DEF Tick
  <2>2. QED BY <1>0, <1>10, <2>1 DEF Tick
<1>11. CASE UNCHANGED vars
  BY <1>0, <1>11 DEF vars
<1> HIDE DEF PidInv
<1>12. QED
  BY Zenon, <1>1, <1>2, <1>3, <1>4, <1>5, <1>6, <1>7, <1>8, <1>9, <1>10, <1>11
  DEF Next, Scheduler, Switch, Kernel

\* The invariant holds in every state proc.c reaches.
LEMMA ProcInvariant == Spec => []ProcInv
<1>1. ProcInv /\ [Next]_vars => ProcInv'
  BY TypeStep, CpuStep, ForkStep, FamilyStep, NoticedStep, PidStep DEF ProcInv
<1>2. QED BY <1>1, ProcInit, PTL DEF Spec

\* Two CPUs never share a process or its stack, for any number of CPUs: this is
\* what holding ptable.lock across swtch is for.
THEOREM StackExclusiveHolds == Spec => []StackExclusive
<1>1. ProcInv => StackExclusive
  BY DEF ProcInv, CpuInv, StackExclusive
<1>2. QED BY <1>1, ProcInvariant, PTL

\* No process sleeps in wait() that has an exited child, no child, or was
\* killed: the wakeups of exit() and kill() are enough.
THEOREM ExitNoticedHolds == Spec => []ExitNoticed
<1>1. ProcInv => ExitNoticed
  BY DEF ProcInv
<1>2. QED BY <1>1, ProcInvariant, PTL

\* Reparenting in exit() gives every process a parent that can wait for it.
THEOREM ParentAliveHolds == Spec => []ParentAlive
<1>1. ProcInv => ParentAlive
  BY DEF ProcInv, FamilyInv, Live, ParentAlive
<1>2. QED BY <1>1, ProcInvariant, PTL

\* allocproc() never gives two processes the same pid.
THEOREM UniquePidsHolds == Spec => []UniquePids
<1>1. ProcInv => UniquePids
  BY DEF ProcInv, PidInv
<1>2. QED BY <1>1, ProcInvariant, PTL

\* The table stays sound through every fork(), exit(), wait() and kill().
THEOREM FamilySoundHolds == Spec => []FamilySound
<1>1. ProcInv => TypeOK
  BY DEF ProcInv
<1>2. TypeOK /\ ParentAlive /\ UniquePids /\ ExitNoticed => FamilySound
  BY DEF FamilySound
<1>3. QED BY <1>1, <1>2, ProcInvariant, ParentAliveHolds, UniquePidsHolds, ExitNoticedHolds, PTL

\* A step that takes a slot out of the zombie state is wait(), run by the
\* parent: nothing else writes the state of a process that has exited.
LEMMA ZombieStep ==
  ASSUME ProcInv, [Next]_vars, NEW z \in Slots, state[z] = "ZOMBIE", state'[z] # "ZOMBIE"
  PROVE  /\ state'[z] = "UNUSED"
         /\ \E c \in CPUs : proc[c] = parent[z] /\ pc[parent[z]] = "scan"
<1> DEFINE Freed == /\ state'[z] = "UNUSED"
                    /\ \E c \in CPUs : proc[c] = parent[z] /\ pc[parent[z]] = "scan"
<1> SUFFICES Freed
  OBVIOUS
<1>t. state \in [Slots -> States] /\ TypeOK /\ CpuInv
  BY DEF ProcInv, TypeOK
<1>r. \A c \in CPUs, p \in Slots, l \in Points : At(c, p, l) => state[p] = "RUNNING"
  BY <1>t, AtRunning
\* Steps that write the state of one slot, which is no zombie.
<1>1. ASSUME NEW q \in Slots, state[q] # "ZOMBIE",
             \E s \in States : state' = [state EXCEPT ![q] = s]
      PROVE  FALSE
  BY <1>1, <1>t
<1>2. ASSUME NEW c \in CPUs, SchedPick(c) PROVE FALSE
  BY <1>1, <1>2, <1>t, PickEffect, Names
<1>3. ASSUME NEW c \in CPUs, NEW p \in Slots, Yield(c, p) PROVE FALSE
  <2>1. state[p] = "RUNNING"
    BY <1>3, <1>t, ProcConstants, SlotFacts DEF Yield, CpuInv
  <2>2. QED BY <1>1, <1>3, <2>1, Names DEF Yield
<1>4. ASSUME NEW c \in CPUs, NEW p \in Slots, AllocProc(c, p) PROVE FALSE
  BY SMTT(30), <1>1, <1>4, <1>t, AllocEffect, Names
<1>5. ASSUME NEW c \in CPUs, NEW p \in Slots, ForkFails(c, p) \/ ForkDone(c, p) PROVE FALSE
  <2>1. np[p] \in Slots /\ state[np[p]] = "EMBRYO"
    BY SMTT(30), <1>5, SlotFacts DEF ForkFails, ForkDone, At, ProcInv, ForkInv, TypeOK
  <2>2. QED BY <1>1, <1>5, <2>1, Names DEF ForkFails, ForkDone
<1>6. ASSUME NEW c \in CPUs, NEW p \in Slots, Exit(c, p) PROVE FALSE
  BY <1>6, <1>t, ExitState
<1>7. ASSUME NEW c \in CPUs, NEW p \in Slots, Reap(c, p) PROVE Freed
  <2>1. PICK q \in Slots : /\ state[q] = "ZOMBIE" /\ parent[q] = p
                           /\ state' = [state EXCEPT ![q] = "UNUSED"]
    BY <1>7, ReapEffect
  <2>2. q = z /\ state'[z] = "UNUSED"
    BY <1>t, <2>1
  <2>3. QED BY <1>7, <2>1, <2>2 DEF Reap, Scanning
<1>8. ASSUME NEW c \in CPUs, NEW p \in Slots, WaitSleep(c, p) PROVE FALSE
  BY <1>1, <1>8, Names DEF WaitSleep, Scanning
<1>9. ASSUME NEW c \in CPUs, NEW p \in Slots, Kill(c, p) PROVE FALSE
  BY <1>9, <1>t, KillEffect
<1>10. ASSUME NEW c \in CPUs, NEW p \in Slots, Sleep(c, p) PROVE FALSE
  <2>1. state[p] = "RUNNING"
    BY SMTT(30), <1>10, <1>r, Names DEF Sleep
  <2>2. QED BY <1>1, <1>10, <2>1, Names DEF Sleep
<1>11. ASSUME Tick PROVE FALSE
  BY SMTT(30), <1>11, <1>t, Woken DEF Tick
<1>12. CASE UNCHANGED state
  BY <1>12
<1>13. ASSUME NEW c \in CPUs, NEW p \in Slots,
              \/ Swtch(c, p) \/ Resume(c, p) \/ CopyProc(c, p)
              \/ WaitCall(c, p) \/ WaitFails(c, p) \/ SleepReturn(c, p) \/ SleepCheck(c, p)
              \/ ExitInit(c, p) \/ Trap(c, p) \/ Fault(c, p)
       PROVE  UNCHANGED state
  BY <1>13, Zenon DEF Swtch, Resume, CopyProc, WaitCall, WaitFails, SleepReturn,
     SleepCheck, ExitInit, Trap, Fault, table
<1>14. ASSUME NEW c \in CPUs, SchedAcquire(c) PROVE UNCHANGED state
  BY <1>14 DEF SchedAcquire, table
<1>15. CASE UNCHANGED vars
  BY <1>12, <1>15 DEF vars
<1> HIDE DEF Freed
<1>16. QED
  BY Zenon, <1>2, <1>3, <1>4, <1>5, <1>6, <1>7, <1>8, <1>9, <1>10, <1>11, <1>12, <1>13, <1>14,
     <1>15 DEF Next, Scheduler, Switch, Kernel

\* An exited process remains a zombie until its parent calls wait().
THEOREM ZombieUntilWaitHolds == Spec => ZombieUntilWait
<1>1. ProcInv /\ [Next]_vars =>
        [\A p \in Slots : state[p] = "ZOMBIE" /\ state'[p] # "ZOMBIE" =>
            /\ state'[p] = "UNUSED"
            /\ \E c \in CPUs : proc[c] = parent[p] /\ pc[parent[p]] = "scan"]_vars
  BY ZombieStep
<1>2. QED BY <1>1, ProcInvariant, PTL DEF Spec, ZombieUntilWait
===========================================================================
