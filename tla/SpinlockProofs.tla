--------------------------- MODULE SpinlockProofs ---------------------------
(* Proofs about Spinlock, for any number of CPUs and threads: every step     *)
(* keeps an annotation of the code (SpinlockPaths, SpinlockSteps), and the   *)
(* annotation gives the properties.                                          *)
EXTENDS SpinlockSteps, WellFoundedInduction

\* The provers get more time than by default.
USE SMTT(30)

-----------------------------------------------------------------------------
(* The switches *)

\* CPU c leaves its context with steps u at levels M, and goes on with y.
Switches(c, lev, u, M, y) ==
  /\ M \in [Nat -> Level] /\ Good(run[c], u, M) /\ todo' = [todo EXCEPT ![run[c]] = u]
  /\ y \in Thread \cup {c} /\ y # run[c] /\ \A d \in Cpu : d # c => run[d] # y
  /\ run' = [run EXCEPT ![c] = y] /\ proc' \in [Cpu -> Thread \cup {None}]
  /\ UNCHANGED <<lockVars, cliVars>>
  /\ lev[y][1] = Switched /\ lev[run[c]][1].h = Switched.h /\ lev[run[c]][1].o = Switched.o
  /\ Fits(c, ncli[c], iflag[c], intena[c], todo[y], Switched)
  /\ Parked(run', proc', todo', [lev EXCEPT ![run[c]] = M])

LEMMA SwitchStep ==
  ASSUME SpinInv, NEW lev, Held(lev), NEW c \in Cpu, NEW u, NEW M, NEW y, Switches(c, lev, u, M, y)
  PROVE  SpinInv'
<1> DEFINE x == run[c]
           lev2 == [lev EXCEPT ![x] = M]
<1> USE DEF Switches
<1>1. /\ x \in Context /\ y \in Context /\ lev \in [Context -> [Nat -> Level]]
      /\ \A d \in Cpu : d # c => run[d] # x /\ run[d] \in Context
  BY Contexts, ZenonT(30) DEF Context
<1>2. /\ lev2 \in [Context -> [Nat -> Level]] /\ lev2[x] = M
      /\ \A z \in Context : z # x => lev2[z] = lev[z]
  BY <1>1
<1>3. /\ run \in [Cpu -> Context] /\ todo \in [Context -> Seq(Steps)] /\ u \in Seq(Steps)
      /\ \A z \in Context : Good(z, todo[z], lev[z])
      /\ \A d \in Cpu : Fits(d, ncli[d], iflag[d], intena[d], todo[run[d]], lev[run[d]][1])
  BY ZenonT(30) DEF SpinInv, Held, Levels, Matches, Good, Ann
<1>4. /\ todo'[x] = u /\ \A z \in Context : z # x => todo'[z] = todo[z]
      /\ todo' \in [Context -> Seq(Steps)]
  BY <1>1, <1>3
<1>5. /\ run'[c] = y /\ \A d \in Cpu : d # c => run'[d] = run[d]
      /\ run' \in [Cpu -> Context]
  BY <1>1, <1>3
<1>6. Levels(todo', lev2)
  <2>1. \A z \in Context : Good(z, todo'[z], lev2[z])
    BY <1>2, <1>3, <1>4
  <2>2. QED BY <1>2, <2>1 DEF Levels
<1>7. \A d \in Cpu : /\ lev2[run'[d]][1].h = lev[run[d]][1].h
                     /\ lev2[run'[d]][1].o = lev[run[d]][1].o
  BY <1>1, <1>2, <1>5
<1>8. ncli' = ncli /\ iflag' = iflag /\ intena' = intena /\ locked' = locked /\ owner' = owner
  BY DEF lockVars, cliVars
<1> HIDE DEF lev2
<1>9. Matches(ncli', iflag', intena', run', todo', lev2)
  <2>1. ASSUME NEW d \in Cpu
        PROVE  Fits(d, ncli[d], iflag[d], intena[d], todo'[run'[d]], lev2[run'[d]][1])
    <3>1. CASE d = c
      BY <1>1, <1>2, <1>4, <1>5, <3>1, ZenonT(30)
    <3>2. CASE d # c
      BY <1>1, <1>2, <1>3, <1>4, <1>5, <3>2
    <3>3. QED BY <3>1, <3>2
  <2>2. QED BY <1>8, <2>1 DEF Matches
<1>10. LocksMatch(locked', owner', run', lev2)
  <2>1. LocksMatch(locked, owner, run, lev)
    BY ZenonT(30) DEF Held
  <2>2. \A l \in Lock : locked'[l] <=> \E d \in Cpu : l \in lev2[run'[d]][1].h
    BY <1>7, <1>8, <2>1, ZenonT(30) DEF LocksMatch
  <2>3. \A l \in Lock : \A d, e \in Cpu :
          l \in lev2[run'[d]][1].h /\ l \in lev2[run'[e]][1].h => d = e
    BY <1>7, <2>1, ZenonT(30) DEF LocksMatch
  <2>4. \A l \in Lock : \A d \in Cpu : owner'[l] = d <=> l \in lev2[run'[d]][1].o
    BY <1>7, <1>8, <2>1 DEF LocksMatch
  <2>5. QED BY <2>2, <2>3, <2>4 DEF LocksMatch
<1>11. TypeOK'
  <2>1. \A d \in Cpu : run'[d] \in Thread \cup {d}
    BY <1>5 DEF SpinInv, TypeOK
  <2>2. QED BY <1>8, <2>1 DEF SpinInv, TypeOK
<1>12. Parked(run', proc', todo', lev2)
  BY DEF lev2
<1>13. QED BY <1>4, <1>5, <1>6, <1>9, <1>10, <1>11, <1>12, ZenonT(30) DEF SpinInv, Held

\* The scheduler that waits is at the level where swtch() arrives.
LEMMA WaitingScheduler ==
  ASSUME SpinInv, NEW lev, Held(lev), NEW c \in Cpu, run[c] # c
  PROVE  c \in Context /\ todo[c] # << >> /\ todo[c][1].op = "clear" /\ lev[c][1] = Switched
<1>1. c \in Context /\ todo[c] # << >> /\ todo[c][1].op = "clear"
  BY DEF Held, Parked, Context
<1>2. Ann(todo[c], lev[c], OpsOf(c))
  BY <1>1 DEF Held, Levels, Good
<1>3. todo[c] \in Seq(Steps) /\ 1 \in 1 .. Len(todo[c])
  BY <1>1, <1>2 DEF Ann
<1>4. Flow("clear", todo[c][1].lk, lev[c][1], lev[c][1 + 1])
  BY <1>1, <1>2, <1>3 DEF Ann
<1>5. QED BY <1>1, <1>4 DEF Flow

LEMMA SchedStep ==
  ASSUME SpinInv, NEW c \in Cpu, sched(c)
  PROVE  SpinInv'
<1>1. PICK lev : Held(lev)
  BY DEF SpinInv
<1> DEFINE x == run[c]
           s == todo[x]
           L == lev[x]
           M == Shift(L)
           u == Put(s, intena[c])
<1>2. At(c, "swtch")
  BY DEF sched
<1>3. /\ x \in Context /\ s # << >> /\ s[1].op = "swtch" /\ L \in [Nat -> Level] /\ Good(x, s, L)
      /\ "swtch" \in OpsOf(x)
      /\ Flow("swtch", s[1].lk, L[1], L[2]) /\ Fits(c, ncli[c], iflag[c], intena[c], s, L[1])
  BY <1>1, <1>2, AtHead
<1>4. x \notin Cpu /\ x \in Thread /\ x # c
  <2>1. "swtch" \notin CpuOps
    BY DEF CpuOps, LockOps
  <2>2. QED BY <1>3, <2>1 DEF OpsOf, Context
<1>5. /\ L[1].n = 1 /\ L[1].h = {"ptable"} /\ L[1].o = {"ptable"} /\ L[1].f \subseteq {FALSE}
      /\ L[2] = Switched
  BY <1>3, ZenonT(30) DEF Flow
<1>6. ncli[c] = L[1].n /\ iflag[c] \in L[1].f /\ intena[c] \in L[1].e
  BY <1>3 DEF Fits
<1>7. Reads(s, L, intena[c])
  BY <1>3, <1>6, SameCpu, ZenonT(30) DEF Reads
<1>8. Good(x, u, M) /\ u # << >> /\ u[1].op = "resume"
  BY <1>3, <1>7, GoodWith
<1>9. M \in [Nat -> Level] /\ M[1] = Switched
  <2>1. M \in [Nat -> Level] /\ M[1] = L[1 + 1] /\ 1 + 1 = 2
    BY <1>3, ShiftLevels
  <2>2. QED BY <1>5, <2>1
<1>10. todo' = [todo EXCEPT ![x] = u]
  BY DEF sched, AdvanceWith, Put
<1>11. run' = [run EXCEPT ![c] = c] /\ UNCHANGED <<lockVars, cliVars, proc>>
  BY DEF sched
<1>12. c \in Context /\ todo[c] # << >> /\ todo[c][1].op = "clear" /\ lev[c][1] = Switched
  BY <1>1, <1>4, WaitingScheduler
<1>13. Fits(c, ncli[c], iflag[c], intena[c], todo[c], Switched)
  <2>1. ncli[c] = Switched.n /\ intena[c] \in Switched.e
    BY <1>5, <1>6, SameCpu, BaseLevels
  <2>2. iflag[c] \in Switched.f
    BY <1>5, <1>6, BaseLevels, ZenonT(30)
  <2>3. QED BY <1>12, <2>1, <2>2, ZenonT(30) DEF Fits
<1> DEFINE lev2 == [lev EXCEPT ![x] = M]
<1> HIDE DEF M, u
<1>14. Parked(run', proc', todo', lev2)
  <2>1. /\ \A d, e \in Cpu : run[d] = run[e] => d = e
        /\ \A d \in Cpu : run[d] # d => proc[d] = run[d]
        /\ \A d \in Cpu : run[d] # d \/ proc[d] # None => todo[d] # << >> /\ todo[d][1].op = "clear"
        /\ \A t \in Thread : (\A d \in Cpu : run[d] # t) =>
             todo[t] # << >> /\ todo[t][1].op \in {"resume", "disown"} /\ lev[t][1] = Switched
    BY <1>1 DEF Held, Parked
  <2>2. /\ todo \in [Context -> Seq(Steps)] /\ run \in [Cpu -> Context] /\ lev \in [Context -> [Nat -> Level]]
        /\ \A d \in Cpu : run[d] \in Thread \cup {d}
    BY <1>1 DEF SpinInv, TypeOK, Held, Levels
  <2>3. /\ todo'[x] = u /\ \A z \in Context : z # x => todo'[z] = todo[z]
        /\ lev2[x] = M /\ \A z \in Context : z # x => lev2[z] = lev[z]
        /\ run'[c] = c /\ \A d \in Cpu : d # c => run'[d] = run[d]
        /\ proc' = proc
    BY <1>3, <1>10, <1>11, <2>2
  <2>4. Cpu \subseteq Context /\ Thread \subseteq Context /\ Cpu \cap Thread = {}
    BY SpinlockConstants DEF Context
  <2> HIDE DEF lev2, x
  <2>5. \A d, e \in Cpu : run'[d] = run'[e] => d = e
    <3>1. \A d \in Cpu : d # c => run[d] # c
      BY <2>2, <2>4
    <3>2. QED BY <2>1, <2>3, <3>1
  <2>6. \A d \in Cpu : run'[d] # d => proc'[d] = run'[d]
    BY <2>1, <2>3
  <2>7. \A d \in Cpu : run'[d] # d \/ proc'[d] # None => todo'[d] # << >> /\ todo'[d][1].op = "clear"
    BY SMTT(30), <1>4, <1>12, <2>1, <2>3, <2>4
  <2>8. ASSUME NEW t \in Thread, \A d \in Cpu : run'[d] # t
        PROVE  todo'[t] # << >> /\ todo'[t][1].op \in {"resume", "disown"} /\ lev2[t][1] = Switched
    <3>1. CASE t = x
      BY <1>8, <1>9, <2>3, <3>1, ZenonT(30)
    <3>2. CASE t # x
      <4>1. \A d \in Cpu : run[d] # t
        BY <2>3, <2>8, <3>2, ZenonT(30) DEF x
      <4>2. QED BY <2>1, <2>3, <2>4, <3>2, <4>1
    <3>3. QED BY <3>1, <3>2
  <2>9. QED BY <2>5, <2>6, <2>7, <2>8, ZenonT(30) DEF Parked
<1>15. /\ c \in Thread \cup {c} /\ \A d \in Cpu : d # c => run[d] # c
       /\ lev[x][1].h = Switched.h /\ lev[x][1].o = Switched.o
       /\ proc' \in [Cpu -> Thread \cup {None}]
  <2>1. \A d \in Cpu : d # c => run[d] # c
    BY SpinlockConstants DEF SpinInv, TypeOK
  <2>2. proc' \in [Cpu -> Thread \cup {None}]
    BY <1>11 DEF SpinInv, TypeOK
  <2>3. QED BY <1>5, <2>1, <2>2, BaseLevels
<1>16. Switches(c, lev, u, M, c)
  BY <1>4, <1>8, <1>9, <1>10, <1>11, <1>12, <1>13, <1>14, <1>15, ZenonT(30) DEF Switches
<1>17. QED BY <1>1, <1>16, SwitchStep

LEMMA SwtchStep ==
  ASSUME SpinInv, NEW c \in Cpu, NEW t \in Thread, SchedulerSwtch(c, t)
  PROVE  SpinInv'
<1>1. PICK lev : Held(lev)
  BY DEF SpinInv
<1> DEFINE s == Tail(todo[c])
           L == Shift(lev[c])
           u == << Step("clear") >> \o s
<1>2. At(c, "choose") /\ \A d \in Cpu : run[d] # t
  BY ZenonT(30) DEF SchedulerSwtch
<1>3. /\ run[c] = c /\ c \in Context /\ L \in [Nat -> Level] /\ L[1] = Switched /\ lev[c][1] = Switched
      /\ Good(c, s, L) /\ Fits(c, ncli[c], iflag[c], intena[c], todo[c], Switched)
      /\ s \in Seq(Steps)
  <2>1. "choose" \in {"choose", "clear"}
    OBVIOUS
  <2>2. QED BY <1>1, <1>2, <2>1, AtScheduler DEF Good, Ann
<1> HIDE DEF L
<1>4. PICK M \in [Nat -> Level] : Good(c, u, M) /\ M[1] = Switched
  BY <1>3, Replaced, ZenonT(30)
<1>5. u # << >> /\ u[1].op = "clear"
  <2>1. u # << >> /\ u[1] = Step("clear")
    BY <1>3
  <2>2. QED BY <2>1 DEF Step
<1>6. /\ proc' = [proc EXCEPT ![c] = t] /\ run' = [run EXCEPT ![c] = t]
      /\ todo' = [todo EXCEPT ![c] = u] /\ UNCHANGED <<lockVars, cliVars>>
  BY DEF SchedulerSwtch
<1> HIDE DEF u
<1>7. todo[t] # << >> /\ todo[t][1].op \in {"resume", "disown"} /\ lev[t][1] = Switched
  BY <1>1, <1>2, ZenonT(30) DEF Held, Parked
<1>8. Fits(c, ncli[c], iflag[c], intena[c], todo[t], Switched)
  BY <1>3, <1>7 DEF Fits
<1> DEFINE lev2 == [lev EXCEPT ![c] = M]
<1>9. Cpu \subseteq Context /\ Thread \subseteq Context /\ Cpu \cap Thread = {} /\ t \notin Cpu
  BY SpinlockConstants DEF Context
<1>10. proc \in [Cpu -> Thread \cup {None}] /\ proc' \in [Cpu -> Thread \cup {None}]
  BY <1>6 DEF SpinInv, TypeOK
<1>11. Parked(run', proc', todo', lev2)
  <2>1. /\ \A d, e \in Cpu : run[d] = run[e] => d = e
        /\ \A d \in Cpu : run[d] # d => proc[d] = run[d]
        /\ \A d \in Cpu : run[d] # d \/ proc[d] # None => todo[d] # << >> /\ todo[d][1].op = "clear"
        /\ \A z \in Thread : (\A d \in Cpu : run[d] # z) =>
             todo[z] # << >> /\ todo[z][1].op \in {"resume", "disown"} /\ lev[z][1] = Switched
    BY <1>1 DEF Held, Parked
  <2>2. todo \in [Context -> Seq(Steps)] /\ run \in [Cpu -> Context] /\ lev \in [Context -> [Nat -> Level]]
    BY <1>1, ZenonT(30) DEF SpinInv, Held, Levels
  <2>3. /\ todo'[c] = u /\ \A z \in Context : z # c => todo'[z] = todo[z]
        /\ \A z \in Context : z # c => lev2[z] = lev[z]
        /\ run'[c] = t /\ \A d \in Cpu : d # c => run'[d] = run[d]
        /\ proc'[c] = t /\ \A d \in Cpu : d # c => proc'[d] = proc[d]
    BY <1>3, <1>6, <1>10, <2>2
  <2> HIDE DEF lev2
  <2>4. \A d, e \in Cpu : run'[d] = run'[e] => d = e
    BY <1>2, <2>1, <2>3
  <2>5. \A d \in Cpu : run'[d] # d => proc'[d] = run'[d]
    BY <2>1, <2>3
  <2>6. \A d \in Cpu : run'[d] # d \/ proc'[d] # None => todo'[d] # << >> /\ todo'[d][1].op = "clear"
    BY <1>5, <1>9, <2>1, <2>3
  <2>7. ASSUME NEW z \in Thread, \A d \in Cpu : run'[d] # z
        PROVE  todo'[z] # << >> /\ todo'[z][1].op \in {"resume", "disown"} /\ lev2[z][1] = Switched
    <3>1. z # c /\ \A d \in Cpu : run[d] # z
      BY <1>3, <1>9, <2>3, <2>7, ZenonT(30)
    <3>2. QED BY <1>9, <2>1, <2>3, <3>1
  <2>8. QED BY <2>4, <2>5, <2>6, <2>7, ZenonT(30) DEF Parked
<1>12. Switches(c, lev, u, M, t)
  BY <1>2, <1>3, <1>4, <1>6, <1>7, <1>8, <1>9, <1>10, <1>11, ZenonT(30) DEF Switches
<1>13. QED BY <1>1, <1>12, SwitchStep

-----------------------------------------------------------------------------
(* The invariant *)

LEMMA SpinInit ==
  ASSUME Init
  PROVE  SpinInv
<1>1. ASSUME NEW x \in Context
      PROVE  \E M \in [Nat -> Level] : /\ Good(x, todo[x], M)
                                       /\ M[1] = IF x \in Cpu THEN Idle ELSE Switched
  <2>1. CASE x \in Cpu
    <3>1. Path(scheduler, Quiet(x), BOOLEAN, Idle, EndOf(x))
      BY <2>1, PathScheduler DEF Quiet, OpsOf, EndOf
    <3>2. todo[x] = scheduler
      BY <1>1, <2>1 DEF Init
    <3>3. QED BY <2>1, <3>1, <3>2, GoodPath
  <2>2. CASE x \notin Cpu
    <3>1. Path(forkret, Quiet(x), BOOLEAN, Switched, EndOf(x))
      BY <2>2, PathForkret DEF Quiet, OpsOf, EndOf
    <3>2. todo[x] = forkret
      BY <1>1, <2>2 DEF Init
    <3>3. QED BY <2>2, <3>1, <3>2, GoodPath
  <2>3. QED BY <2>1, <2>2
<1> DEFINE lev == [x \in Context |->
                     CHOOSE M \in [Nat -> Level] : /\ Good(x, todo[x], M)
                                                   /\ M[1] = IF x \in Cpu THEN Idle ELSE Switched]
<1>2. \A x \in Context : /\ lev[x] \in [Nat -> Level] /\ Good(x, todo[x], lev[x])
                         /\ lev[x][1] = IF x \in Cpu THEN Idle ELSE Switched
  BY <1>1, ZenonT(30)
<1>3. Levels(todo, lev)
  <2>1. lev \in [Context -> [Nat -> Level]]
    BY <1>2, ZenonT(30)
  <2>2. QED BY <1>2, <2>1, ZenonT(30) DEF Levels
<1> HIDE DEF lev
<1>4. Cpu \subseteq Context /\ Thread \subseteq Context /\ Cpu \cap Thread = {}
  BY SpinlockConstants DEF Context
<1>5. \A c \in Cpu : run[c] = c /\ proc[c] = None /\ ncli[c] = 0 /\ iflag[c] = FALSE /\ intena[c] = FALSE
  BY ZenonT(30) DEF Init
<1>6. ASSUME NEW c \in Cpu PROVE Fits(c, ncli[c], iflag[c], intena[c], todo[run[c]], lev[run[c]][1])
  <2>1. run[c] = c /\ lev[c][1] = Idle
    BY <1>2, <1>4, <1>5
  <2>2. todo[c] # << >> => todo[c][1].op # "cpuproc"
    BY <1>2, <1>4, CpuCode
  <2>3. ncli[c] = Idle.n /\ iflag[c] \in Idle.f /\ intena[c] \in Idle.e
    BY <1>5, BaseLevels, ZenonT(30)
  <2>4. QED BY <2>1, <2>2, <2>3 DEF Fits
<1>7. Parked(run, proc, todo, lev)
  <2>1. ASSUME NEW t \in Thread
        PROVE  todo[t] # << >> /\ todo[t][1].op \in {"resume", "disown"} /\ lev[t][1] = Switched
    <3>1. t \in Context /\ t \notin Cpu
      BY <1>4
    <3>2. todo[t] = release("ptable") \o << Step("newret") >>
      BY <3>1 DEF Init, forkret
    <3>3. todo[t] # << >> /\ todo[t][1] = On("disown", "ptable")
      BY <3>2 DEF release
    <3>4. todo[t][1].op = "disown"
      BY <3>3 DEF On
    <3>5. lev[t][1] = Switched
      BY <1>2, <3>1
    <3>6. QED BY <3>3, <3>4, <3>5
  <2>2. QED BY <1>5, <2>1 DEF Parked
<1>8. LocksMatch(locked, owner, run, lev)
  <2>1. \A c \in Cpu : lev[run[c]][1].h = {} /\ lev[run[c]][1].o = {}
    BY <1>2, <1>4, <1>5, BaseLevels, ZenonT(30)
  <2>2. \A l \in Lock : ~locked[l] /\ owner[l] = None /\ None \notin Cpu
    BY SpinlockConstants DEF Init
  <2>3. QED BY <2>1, <2>2 DEF LocksMatch
<1>9. TypeOK /\ run \in [Cpu -> Context]
  BY <1>4 DEF Init, TypeOK
<1>10. todo \in [Context -> Seq(Steps)]
  <2>1. \A x \in Context : todo[x] \in Seq(Steps)
    BY <1>2 DEF Good, Ann
  <2>2. todo = [x \in Context |-> todo[x]]
    BY DEF Init
  <2>3. QED BY <2>1, <2>2
<1>11. Held(lev)
  BY <1>3, <1>6, <1>7, <1>8 DEF Held, Matches
<1>12. QED BY <1>9, <1>10, <1>11 DEF SpinInv

LEMMA SpinNext ==
  ASSUME SpinInv, [Next]_vars
  PROVE  SpinInv'
<1>1. ASSUME UNCHANGED vars PROVE SpinInv'
  <2>1. /\ locked' = locked /\ owner' = owner /\ iflag' = iflag /\ ncli' = ncli /\ intena' = intena
        /\ proc' = proc /\ run' = run /\ todo' = todo
    BY <1>1 DEF vars
  <2>2. PICK lev : Held(lev)
    BY DEF SpinInv
  <2>3. /\ Levels(todo', lev) /\ Matches(ncli', iflag', intena', run', todo', lev)
        /\ Parked(run', proc', todo', lev) /\ LocksMatch(locked', owner', run', lev)
    BY <2>1, <2>2 DEF Held
  <2>4. TypeOK' /\ run' \in [Cpu -> Context] /\ todo' \in [Context -> Seq(Steps)]
    BY <2>1 DEF SpinInv, TypeOK
  <2>5. QED BY <2>3, <2>4 DEF SpinInv, Held
<1>2. ASSUME NEW c \in Cpu,
             \/ readeflags(c) \/ cli(c) \/ xchg(c) \/ own(c)
             \/ disown(c) \/ unlock(c) \/ popcli(c)
             \/ mycpu(c) \/ cpuproc(c)
             \/ sched(c) \/ resume(c)
             \/ sti(c) \/ (\E t \in Thread : SchedulerSwtch(c, t))
             \/ SchedulerReturn(c) \/ SchedulerDone(c)
             \/ syscall(c) \/ TimerInterrupt(c) \/ trapret(c)
      PROVE  SpinInv'
  BY <1>2, ReadStep, CliStep, LockOpStep, PopcliStep, QuietStep, EnableStep, SchedStep, SwtchStep,
     SchedulerStep, SyscallStep, TimerStep, ZenonT(30)
<1>3. QED BY <1>1, <1>2 DEF Next

\* The annotated code is the inductive invariant.
THEOREM SpinInvariant == Spec => []SpinInv
<1>1. Init => SpinInv
  BY SpinInit
<1>2. SpinInv /\ [Next]_vars => SpinInv'
  BY SpinNext
<1>3. QED BY <1>1, <1>2, PTL DEF Spec

-----------------------------------------------------------------------------
(* The locks that a context holds are those of its first level *)

LEMMA Least ==
  ASSUME NEW T \in SUBSET Nat, T # {}
  PROVE  \E k \in T : \A j \in T : k <= j
<1> DEFINE R == OpToRel(<, Nat)
<1>1. IsWellFoundedOn(R, Nat)
  BY NatLessThanWellFounded, ZenonT(30)
<1>2. \A j, k \in T : j < k => << j, k >> \in R
  BY DEF OpToRel
<1> HIDE DEF R
<1>3. PICK k \in T : \A j \in T : ~ (<< j, k >> \in R)
  BY <1>1, WFMin, ZenonT(30)
<1>4. \A j \in T : ~(j < k)
  BY <1>2, <1>3, ZenonT(30)
<1>5. QED BY <1>4

\* Only xchg and unlock change who holds a lock.
LEMMA FlowHolds ==
  ASSUME NEW A \in Level, NEW B \in Level, NEW op \in CpuOps \cup ThreadOps, NEW lk, Flow(op, lk, A, B),
         NEW l, ~(op \in {"xchg", "unlock"} /\ lk = l)
  PROVE  l \in A.h <=> l \in B.h
<1>1. CASE op \in {"readeflags", "mycpu", "cpuproc", "choose", "clear"}
  <2>1. B = A
    BY <1>1, ZenonT(30) DEF Flow
  <2>2. QED BY <2>1
<1>2. CASE op \in {"cli", "own", "disown", "popcli", "resume"}
  <2>1. B.h = A.h
    BY <1>2, ZenonT(30) DEF Flow
  <2>2. QED BY <2>1
<1>3. CASE op \in {"xchg", "unlock"}
  <2>1. (B.h = A.h \cup {lk} \/ B.h = A.h \ {lk}) /\ lk # l
    BY <1>3 DEF Flow
  <2>2. QED BY <2>1, ZenonT(30)
<1>4. CASE op = "swtch"
  <2>1. A.h = {"ptable"} /\ B.h = {"ptable"}
    BY <1>4, BaseLevels DEF Flow
  <2>2. QED BY <2>1, ZenonT(30)
<1>5. CASE op \in {"sti", "iret", "sysret", "newret"}
  <2>1. A.n = 0 /\ B.n = 0
    BY <1>5, ZenonT(30) DEF Flow
  <2>2. A.h = {} /\ B.h = {}
    BY <2>1, LevelOf, ZenonT(30)
  <2>3. QED BY <2>2
<1>6. QED BY <1>1, <1>2, <1>3, <1>4, <1>5, ZenonT(30) DEF CpuOps, ThreadOps, LockOps

\* The steps of s that take or free l.
Mine(s, l) == {i \in DOMAIN s : s[i].lk = l /\ s[i].op \in {"xchg", "unlock"}}
Frees(s, l) == \E i \in Mine(s, l) : s[i].op = "unlock" /\ \A j \in Mine(s, l) : i <= j

LEMMA HoldsLevel ==
  ASSUME NEW x, NEW s, NEW L, Good(x, s, L), NEW l \in Lock
  PROVE  Frees(s, l) <=> l \in L[1].h
<1>1. /\ s \in Seq(Steps) /\ L \in [Nat -> Level]
      /\ \A i \in 1 .. Len(s) : s[i].op \in OpsOf(x) /\ Flow(s[i].op, s[i].lk, L[i], L[i + 1])
      /\ L[Len(s) + 1] = EndOf(x)
  BY DEF Good, Ann
<1>2. PICK n \in Nat : n = Len(s)
  BY <1>1
<1>3. DOMAIN s = 1 .. n
  BY <1>1, <1>2
<1> DEFINE In(k) == l \in L[k].h
           Bad == {k \in 1 .. n + 1 : ~(In(k) <=> In(1))}
<1>4. ASSUME NEW i \in 1 .. n, i \notin Mine(s, l)
      PROVE  In(i) <=> In(i + 1)
  <2>1. /\ i \in Nat /\ i + 1 \in Nat /\ s[i].op \in OpsOf(x) /\ Flow(s[i].op, s[i].lk, L[i], L[i + 1])
        /\ L[i] \in Level /\ L[i + 1] \in Level
    BY <1>1, <1>2
  <2>2. ~(s[i].op \in {"xchg", "unlock"} /\ s[i].lk = l)
    BY <1>3, <1>4 DEF Mine
  <2>3. s[i].op \in CpuOps \cup ThreadOps
    BY <2>1, ZenonT(30) DEF OpsOf
  <2>4. QED BY <2>1, <2>2, <2>3, FlowHolds
<1>5. ASSUME NEW i \in Mine(s, l)
      PROVE  /\ i \in 1 .. n
             /\ s[i].op = "unlock" => In(i) /\ ~In(i + 1)
             /\ s[i].op # "unlock" => ~In(i) /\ In(i + 1)
  <2>1. i \in 1 .. n /\ s[i].lk = l /\ s[i].op \in {"xchg", "unlock"}
    BY <1>3, ZenonT(30) DEF Mine
  <2>2. Flow(s[i].op, l, L[i], L[i + 1])
    BY <1>1, <1>2, <2>1
  <2>3. QED BY <2>1, <2>2 DEF Flow
<1>6. ASSUME Bad # {}
      PROVE  \E i \in Mine(s, l) :
               /\ i + 1 \in Bad /\ \A j \in Bad : i + 1 <= j
               /\ \A j \in 1 .. i : In(j) <=> In(1)
  <2>1. Bad \in SUBSET Nat
    OBVIOUS
  <2>2. PICK k \in Bad : \A j \in Bad : k <= j
    BY <1>6, <2>1, Least, ZenonT(30)
  <2>3. k \in 1 .. n + 1 /\ ~(In(k) <=> In(1))
    OBVIOUS
  <2>4. k # 1
    BY <2>3
  <2>5. k - 1 \in 1 .. n /\ k - 1 + 1 = k
    BY <2>3, <2>4
  <2>6. ASSUME NEW j \in 1 .. k - 1 PROVE In(j) <=> In(1)
    <3>1. j \in 1 .. n + 1 /\ ~(k <= j)
      BY <2>3
    <3>2. j \notin Bad
      BY <2>2, <3>1
    <3>3. QED BY <3>1, <3>2
  <2>7. In(k - 1) <=> In(1)
    BY <2>5, <2>6
  <2>8. k - 1 \in Mine(s, l)
    <3>1. ASSUME k - 1 \notin Mine(s, l) PROVE FALSE
      <4>1. In(k - 1) <=> In(k - 1 + 1)
        BY <1>4, <2>5, <3>1
      <4>2. QED BY <2>3, <2>5, <2>7, <4>1, ZenonT(30)
    <3>2. QED BY <3>1
  <2> HIDE DEF Bad, In
  <2>9. QED BY <2>2, <2>5, <2>6, <2>8
<1>7. ASSUME In(1) PROVE Frees(s, l)
  <2>1. ~In(n + 1)
    BY <1>1, <1>2, BaseLevels DEF EndOf
  <2>2. n + 1 \in Bad
    BY <1>7, <2>1
  <2>3. PICK i \in Mine(s, l) : i + 1 \in Bad /\ (\A j \in 1 .. i : In(j) <=> In(1))
    BY <1>6, <2>2, ZenonT(30)
  <2>4. i \in 1 .. n /\ ~In(i + 1) /\ i \in 1 .. i
    BY <1>5, <1>7, <2>3
  <2> HIDE DEF In, Bad
  <2>5. s[i].op = "unlock"
    BY <1>5, <2>4
  <2>6. ASSUME NEW j \in Mine(s, l), ~(i <= j) PROVE FALSE
    <3>1. j \in 1 .. n
      BY <1>5
    <3>2. j \in 1 .. i /\ j + 1 \in 1 .. i
      BY <2>4, <2>6, <3>1
    <3>3. In(j) /\ In(j + 1)
      BY <1>7, <2>3, <3>2
    <3>4. QED BY <1>5, <3>3
  <2>7. \A j \in Mine(s, l) : i <= j
    BY <2>6
  <2>8. QED BY <2>5, <2>7, ZenonT(30) DEF Frees
<1>8. ASSUME Frees(s, l), ~In(1) PROVE FALSE
  <2>1. PICK i \in Mine(s, l) : s[i].op = "unlock" /\ \A j \in Mine(s, l) : i <= j
    BY <1>8 DEF Frees
  <2>2. In(i) /\ i \in 1 .. n
    BY <1>5, <2>1
  <2>3. i \in Bad
    BY <1>8, <2>2
  <2>4. PICK k \in Mine(s, l) : \A j \in Bad : k + 1 <= j
    BY <1>6, <2>3
  <2>5. k \in 1 .. n
    BY <1>5
  <2> HIDE DEF In, Bad
  <2>6. k + 1 <= i /\ i <= k
    BY <2>1, <2>3, <2>4
  <2>7. QED BY <2>2, <2>5, <2>6
<1>9. QED BY <1>7, <1>8

-----------------------------------------------------------------------------
(* The properties *)

\* Interrupts are off where the level says so.
LEMMA IfClear ==
  ASSUME NEW A \in Level, NEW fl, fl \in A.f, A.f \subseteq {FALSE}
  PROVE  ~fl
BY ZenonT(30)

LEMMA StepFails ==
  ASSUME SpinInv, NEW lev, Held(lev), NEW c \in Cpu, todo[run[c]] # << >>
  PROVE  Fails(c, Head(todo[run[c]])) = {}
<1> DEFINE x == run[c]
           s == todo[x]
           A == lev[x][1]
           B == lev[x][2]
           h == Head(s)
<1>1. /\ A \in Level /\ Flow(h.op, h.lk, A, B)
      /\ Fits(c, ncli[c], iflag[c], intena[c], s, A)
  BY RunHead, ZenonT(30)
<1>2. ncli[c] = A.n /\ iflag[c] \in A.f
  BY <1>1, ZenonT(30) DEF Fits
<1>3. \A l \in Lock : /\ l \in A.h => locked[l]
                      /\ owner[l] = c <=> l \in A.o
  BY DEF Held, LocksMatch
<1>4. A.n \in 0 .. 2 /\ A.h \subseteq Lock /\ A.o \subseteq A.h /\ (A.n > 0 => A.f \subseteq {FALSE})
  BY <1>1, LevelOf, ZenonT(30)
<1> SUFFICES Fails(c, h) = {}
  OBVIOUS
<1> HIDE DEF A, B, h
<1>5. CASE h.op = "xchg"
  <2>1. h.lk \in Lock \ A.h
    BY <1>1, <1>5, ZenonT(30) DEF Flow
  <2>2. ~holding(c, h.lk)
    BY <1>3, <1>4, <2>1 DEF holding
  <2>3. QED BY <1>5, <2>2 DEF Fails
<1>6. CASE h.op = "disown"
  <2>1. h.lk \in A.o
    BY <1>1, <1>6, ZenonT(30) DEF Flow
  <2>2. holding(c, h.lk)
    BY <1>3, <1>4, <2>1 DEF holding
  <2>3. QED BY <1>6, <2>2 DEF Fails
<1>7. CASE h.op = "mycpu"
  <2>1. A.f \subseteq {FALSE}
    BY <1>1, <1>7, ZenonT(30) DEF Flow
  <2>2. ~iflag[c]
    BY <1>1, <1>2, <2>1, IfClear, ZenonT(30)
  <2>3. QED BY <1>7, <2>2 DEF Fails
<1>8. CASE h.op = "popcli"
  <2>1. A.n > 0
    BY <1>1, <1>8, ZenonT(30) DEF Flow
  <2>2. ~iflag[c]
    BY <1>1, <1>2, <1>4, <2>1, IfClear, ZenonT(30)
  <2>3. ncli[c] # 0
    BY <1>2, <1>4, <2>1
  <2>4. QED BY <1>8, <2>2, <2>3 DEF Fails
<1>9. CASE h.op = "swtch"
  <2>1. A.n = 1 /\ A.h = {"ptable"} /\ A.o = {"ptable"} /\ A.f \subseteq {FALSE}
    BY <1>1, <1>9, ZenonT(30) DEF Flow
  <2>2. ~iflag[c]
    BY <1>1, <1>2, <2>1, IfClear, ZenonT(30)
  <2>3. holding(c, "ptable")
    BY <1>3, <1>4, <2>1 DEF holding
  <2>4. ncli[c] = 1
    BY <1>2, <2>1
  <2>5. QED BY <1>9, <2>2, <2>3, <2>4 DEF Fails
<1>10. CASE h.op \notin {"xchg", "disown", "mycpu", "popcli", "swtch"}
  BY <1>10, ZenonT(30) DEF Fails
<1>11. QED BY <1>5, <1>6, <1>7, <1>8, <1>9, <1>10, ZenonT(30)

\* No check of acquire(), release(), popcli(), mycpu() or sched() fails, on
\* any number of CPUs and threads, at any interleaving of their steps with the
\* interrupts and the switches.
THEOREM NoPanicHolds == Spec => []NoPanic
<1>1. SpinInv => NoPanic
  <2>1. SUFFICES ASSUME SpinInv PROVE NoPanic
    OBVIOUS
  <2>2. PICK lev : Held(lev)
    BY <2>1 DEF SpinInv
  <2>3. \A c \in Cpu : todo[run[c]] # << >> => Fails(c, Head(todo[run[c]])) = {}
    BY <2>1, <2>2, StepFails, ZenonT(30)
  <2>4. QED BY <2>1, <2>3, ZenonT(30) DEF SpinInv, NoPanic
<1>2. QED BY <1>1, SpinInvariant, PTL

\* What Holds() reads off the code is what the level says.
LEMMA RunHolds ==
  ASSUME SpinInv, NEW lev, Held(lev), NEW c \in Cpu, NEW l \in Lock
  PROVE  Holds(run[c], l) <=> l \in lev[run[c]][1].h
<1>1. run[c] \in Context
  BY Contexts, ZenonT(30)
<1>2. Good(run[c], todo[run[c]], lev[run[c]])
  BY <1>1 DEF Held, Levels
<1>3. Holds(run[c], l) <=> Frees(todo[run[c]], l)
  BY DEF Holds, Frees, Mine
<1>4. QED BY <1>2, <1>3, HoldsLevel

LEMMA OneHolderHolds ==
  ASSUME SpinInv, NEW lev, Held(lev)
  PROVE  OneHolder
<1> DEFINE H(l) == {c \in Cpu : Holds(run[c], l)}
<1>1. ASSUME NEW l \in Lock
      PROVE  IF locked[l] THEN \E c \in Cpu : H(l) = {c} ELSE H(l) = {}
  <2>1. \A c \in Cpu : c \in H(l) <=> l \in lev[run[c]][1].h
    BY RunHolds, ZenonT(30)
  <2>2. /\ locked[l] <=> \E c \in Cpu : c \in H(l)
        /\ \A c, d \in Cpu : c \in H(l) /\ d \in H(l) => c = d
    BY <2>1 DEF Held, LocksMatch
  <2>3. H(l) \subseteq Cpu
    OBVIOUS
  <2> HIDE DEF H
  <2>4. CASE locked[l]
    <3>1. PICK c \in Cpu : c \in H(l)
      BY <2>2, <2>4
    <3>2. H(l) = {c}
      BY <2>2, <2>3, <3>1
    <3>3. QED BY <2>4, <3>2
  <2>5. CASE ~locked[l]
    <3>1. H(l) = {}
      BY <2>2, <2>3, <2>5
    <3>2. QED BY <2>5, <3>1
  <2>6. QED BY <2>4, <2>5
<1>2. QED BY <1>1 DEF OneHolder

LEMMA InterruptsOffHolds ==
  ASSUME SpinInv, NEW lev, Held(lev)
  PROVE  InterruptsOff
<1>1. ASSUME NEW c \in Cpu, NEW l \in Lock, Holds(run[c], l)
      PROVE  ~iflag[c]
  <2>1. lev[run[c]][1] \in Level /\ l \in lev[run[c]][1].h
    BY <1>1, Contexts, RunHolds, ZenonT(30)
  <2>2. iflag[c] \in lev[run[c]][1].f
    BY DEF Held, Matches, Fits
  <2>3. lev[run[c]][1].n # 0 /\ lev[run[c]][1].n \in 0 .. 2
    BY <2>1, LevelOf, ZenonT(30)
  <2>4. lev[run[c]][1].n > 0
    BY <2>3
  <2>5. lev[run[c]][1].f \subseteq {FALSE}
    BY <2>1, <2>4, LevelOf, ZenonT(30)
  <2>6. QED BY <2>1, <2>2, <2>5, IfClear, ZenonT(30)
<1>2. QED BY <1>1 DEF InterruptsOff

LEMMA NotBefore ==
  ASSUME NEW x, NEW s, NEW L, Good(x, s, L), NEW i \in 1 .. Len(s), NEW j \in 1 .. Len(s), i < j,
         s[i].op = "iret"
  PROVE  s[j].op # "iret"
<1>1. s \in Seq(Steps) /\ Flow(s[i].op, s[i].lk, L[i], L[i + 1]) /\ Masked(s, L)
  BY DEF Good, Ann
<1>2. Open(L[i + 1])
  BY <1>1, ZenonT(30) DEF Flow, Open
<1>3. PICK n \in Nat : n = Len(s)
  BY <1>1
<1>4. i + 1 \in 1 .. j
  BY <1>3
<1>5. s[j].op = "iret" => L[i + 1].f \subseteq {FALSE}
  BY <1>1, <1>4, ZenonT(30) DEF Masked
<1>6. L[i + 1].f \subseteq {FALSE} => ~Open(L[i + 1])
  BY ZenonT(30) DEF Open
<1>7. QED BY <1>2, <1>5, <1>6, ZenonT(30)

LEMMA HandlersHold ==
  ASSUME SpinInv, NEW lev, Held(lev)
  PROVE  HandlersDoNotNest
<1>1. ASSUME NEW x \in Context, NEW i \in DOMAIN todo[x], NEW j \in DOMAIN todo[x],
             todo[x][i].op = "iret", todo[x][j].op = "iret"
      PROVE  i = j
  <2>1. todo[x] \in Seq(Steps) /\ Good(x, todo[x], lev[x])
    BY DEF SpinInv, Held, Levels
  <2>2. i \in 1 .. Len(todo[x]) /\ j \in 1 .. Len(todo[x])
    BY <2>1
  <2>3. ~(i < j) /\ ~(j < i)
    BY <1>1, <2>1, <2>2, NotBefore, ZenonT(30)
  <2>4. QED BY <2>2, <2>3
<1>2. QED BY <1>1 DEF HandlersDoNotNest

LEMMA SyscallHolds ==
  ASSUME SpinInv, NEW lev, Held(lev)
  PROVE  SyscallBalanced
<1>1. ASSUME NEW c \in Cpu, todo[run[c]] # << >>, Head(todo[run[c]]).op = "sysret"
      PROVE  iflag[c] /\ ncli[c] = 0
  <2> DEFINE A == lev[run[c]][1]
             B == lev[run[c]][2]
  <2>1. /\ A \in Level /\ Flow("sysret", todo[run[c]][1].lk, A, B)
        /\ Fits(c, ncli[c], iflag[c], intena[c], todo[run[c]], A)
    BY <1>1, RunHead
  <2> HIDE DEF A, B
  <2>2. A.n = 0 /\ A.f \subseteq {TRUE}
    BY <2>1, ZenonT(30) DEF Flow
  <2>3. ncli[c] = A.n /\ iflag[c] \in A.f
    BY <2>1 DEF Fits
  <2>4. iflag[c]
    BY <2>2, <2>3, ZenonT(30)
  <2>5. QED BY <2>2, <2>3, <2>4, ZenonT(30)
<1>2. QED BY <1>1 DEF SyscallBalanced

LEMMA MyprocHolds ==
  ASSUME SpinInv, NEW lev, Held(lev)
  PROVE  MyprocRight
<1>1. ASSUME NEW c \in Cpu, todo[run[c]] # << >>, Head(todo[run[c]]).op = "cpuproc"
      PROVE  proc[Head(todo[run[c]]).val] = run[c]
  <2>1. /\ Head(todo[run[c]]) = todo[run[c]][1] /\ "cpuproc" \in OpsOf(run[c])
        /\ Fits(c, ncli[c], iflag[c], intena[c], todo[run[c]], lev[run[c]][1])
        /\ run[c] # c => proc[c] = run[c]
    BY <1>1, RunHead, ZenonT(30)
  <2>2. run[c] # c
    BY <2>1 DEF OpsOf, CpuOps, LockOps
  <2>3. Head(todo[run[c]]).val = c
    BY <1>1, <2>1 DEF Fits
  <2>4. QED BY <2>1, <2>2, <2>3, ZenonT(30)
<1>2. QED BY <1>1 DEF MyprocRight

\* A taken lock has one holder among the contexts that run and a free one has
\* none, a holder takes no interrupt, handlers do not nest, a system call
\* returns with interrupts as it came, and myproc() reads the field of the CPU
\* it runs on: acquire(), release(), sched(), scheduler(), trap() and swtch(),
\* on any number of CPUs and threads.
THEOREM SwitchSafeHolds == Spec => []SwitchSafe
<1>1. SpinInv => SwitchSafe
  <2>1. SUFFICES ASSUME SpinInv PROVE SwitchSafe
    OBVIOUS
  <2>2. PICK lev : Held(lev)
    BY <2>1 DEF SpinInv
  <2>3. OneHolder /\ InterruptsOff /\ HandlersDoNotNest
    BY <2>1, <2>2, OneHolderHolds, InterruptsOffHolds, HandlersHold
  <2>4. SyscallBalanced /\ MyprocRight
    BY <2>1, <2>2, SyscallHolds, MyprocHolds
  <2>5. QED BY <2>3, <2>4 DEF SwitchSafe
<1>2. QED BY <1>1, SpinInvariant, PTL

=============================================================================
