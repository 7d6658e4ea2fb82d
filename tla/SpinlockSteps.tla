--------------------------- MODULE SpinlockSteps ----------------------------
(* The steps of Spinlock that stay with their context keep the annotation of *)
(* the code (SpinlockPaths), for any number of CPUs and threads.             *)
EXTENDS SpinlockPaths

\* The provers get more time than by default.
USE SMTT(30)

-----------------------------------------------------------------------------
(* A step of one CPU that stays with its context *)

\* CPU c goes on with steps t at levels M, and nc, fl, ie and pr for its ncli,
\* FL_IF, intena and proc.
Local(c, t, M, nc, fl, ie, pr) ==
  /\ run' = run /\ todo' = [todo EXCEPT ![run[c]] = t]
  /\ M \in [Nat -> Level] /\ Good(run[c], t, M) /\ Fits(c, nc, fl, ie, t, M[1])
  /\ ncli' = [ncli EXCEPT ![c] = nc] /\ iflag' = [iflag EXCEPT ![c] = fl]
  /\ intena' = [intena EXCEPT ![c] = ie] /\ proc' = [proc EXCEPT ![c] = pr]
  /\ pr \in Thread \cup {None}
  /\ run[c] # c => pr = run[c]
  /\ run[c] = c /\ pr # None => t # << >> /\ t[1].op = "clear"

\* What happens to the locks as its level changes from A to B.
LockStep(c, A, B) ==
  /\ locked' \in [Lock -> BOOLEAN] /\ owner' \in [Lock -> Cpu \cup {None}]
  /\ \A l \in Lock : /\ l \in B.h => locked'[l]
                     /\ l \in B.h \ A.h => ~locked[l]
                     /\ l \in A.h \ B.h => ~locked'[l]
                     /\ l \notin A.h \cup B.h => locked'[l] = locked[l]
                     /\ l \in B.o => owner'[l] = c
                     /\ l \in A.o \ B.o => owner'[l] = None
                     /\ l \notin A.o \cup B.o => owner'[l] = owner[l]

\* The contexts that run are different ones.
LEMMA Contexts ==
  ASSUME SpinInv, NEW lev, Held(lev), NEW c \in Cpu
  PROVE  /\ run[c] \in Context /\ run[c] \in Thread \cup {c}
         /\ \A d \in Cpu : d # c => run[d] # run[c] /\ d # run[c] /\ run[d] \in Context /\ d \in Context
         /\ lev \in [Context -> [Nat -> Level]]
         /\ \A d \in Cpu : lev[run[d]][1] \in Level
<1>1. /\ \A d \in Cpu : run[d] \in Thread \cup {d} /\ run[d] \in Context
      /\ \A d \in Cpu : run[d] = run[c] => d = c
      /\ lev \in [Context -> [Nat -> Level]]
  BY ZenonT(30) DEF SpinInv, TypeOK, Held, Parked, Levels
<1>2. \A d \in Cpu : d # c => d # run[c] /\ d \in Context
  BY <1>1, SpinlockConstants DEF Context
<1>3. \A d \in Cpu : lev[run[d]][1] \in Level
  BY <1>1, ZenonT(30)
<1>4. QED BY <1>1, <1>2, <1>3, ZenonT(30)

LEMMA LevelOf ==
  ASSUME NEW A \in Level
  PROVE  /\ A.n \in 0 .. 2 /\ A.h \subseteq Lock /\ A.o \subseteq A.h
         /\ A.f \subseteq BOOLEAN /\ A.e \subseteq BOOLEAN
         /\ A.n > 0 => A.f \subseteq {FALSE}
         /\ A.n = 0 => A.h = {} /\ A.e = BOOLEAN
BY ZenonT(30) DEF Level

\* The locks after it.
LEMMA LocksKept ==
  ASSUME SpinInv, NEW lev, Held(lev), NEW c \in Cpu, NEW M \in [Nat -> Level],
         LockStep(c, lev[run[c]][1], M[1]), run' = run
  PROVE  LocksMatch(locked', owner', run', [lev EXCEPT ![run[c]] = M])
<1> DEFINE A(d) == lev[run[d]][1]
           B(d) == [lev EXCEPT ![run[c]] = M][run[d]][1]
<1>1. /\ \A d \in Cpu : A(d) \in Level /\ d # c => B(d) = A(d)
      /\ B(c) = M[1] /\ M[1] \in Level /\ \A d \in Cpu : A(d) \in Level
  BY Contexts, ZenonT(30)
<1>2. /\ \A l \in Lock : locked[l] <=> \E d \in Cpu : l \in A(d).h
      /\ \A l \in Lock : \A d, g \in Cpu : l \in A(d).h /\ l \in A(g).h => d = g
      /\ \A l \in Lock : \A d \in Cpu : owner[l] = d <=> l \in A(d).o
  BY ZenonT(30) DEF Held, LocksMatch
<1>3. \A l \in Lock : /\ l \in B(c).h => locked'[l]
                      /\ l \in B(c).h \ A(c).h => ~locked[l]
                      /\ l \in A(c).h \ B(c).h => ~locked'[l]
                      /\ l \notin A(c).h \cup B(c).h => locked'[l] = locked[l]
                      /\ l \in B(c).o => owner'[l] = c
                      /\ l \in A(c).o \ B(c).o => owner'[l] = None
                      /\ l \notin A(c).o \cup B(c).o => owner'[l] = owner[l]
  BY <1>1, ZenonT(30) DEF LockStep
<1>4. \A d \in Cpu : d # c => B(d) = A(d)
  BY Contexts
<1>5. B(c).o \subseteq B(c).h /\ \A d \in Cpu : A(d).o \subseteq A(d).h
  BY <1>1, LevelOf, ZenonT(30)
<1>6. None \notin Cpu
  BY SpinlockConstants
<1> HIDE DEF A, B
<1>7. ASSUME NEW l \in Lock PROVE locked'[l] <=> \E d \in Cpu : l \in B(d).h
  <2>1. ASSUME locked'[l] PROVE \E d \in Cpu : l \in B(d).h
    <3>1. CASE l \in B(c).h
      BY <3>1
    <3>2. CASE l \notin B(c).h
      <4>1. l \notin A(c).h /\ locked[l]
        BY <1>3, <2>1, <3>2
      <4>2. PICK d \in Cpu : l \in A(d).h
        BY <1>2, <4>1
      <4>3. QED BY <1>4, <4>1, <4>2, ZenonT(30)
    <3>3. QED BY <3>1, <3>2
  <2>2. ASSUME NEW d \in Cpu, l \in B(d).h PROVE locked'[l]
    <3>1. CASE d = c
      BY <1>3, <2>2, <3>1, ZenonT(30)
    <3>2. CASE d # c
      <4>1. l \in A(d).h /\ l \notin A(c).h /\ locked[l]
        BY <1>2, <1>4, <2>2, <3>2, ZenonT(30)
      <4>2. QED BY <1>3, <4>1
    <3>3. QED BY <3>1, <3>2, ZenonT(30)
  <2>3. QED BY <2>1, <2>2
<1>8. ASSUME NEW l \in Lock, NEW d \in Cpu, d # c, l \in B(c).h PROVE l \notin A(d).h
  BY <1>2, <1>3, <1>8, ZenonT(30)
<1>9. ASSUME NEW l \in Lock, NEW d \in Cpu, NEW g \in Cpu, l \in B(d).h, l \in B(g).h PROVE d = g
  BY <1>2, <1>4, <1>8, <1>9
<1>10. ASSUME NEW l \in Lock, NEW d \in Cpu PROVE owner'[l] = d <=> l \in B(d).o
  <2>1. CASE d = c
    BY <1>2, <1>3, <1>6, <2>1
  <2>2. CASE d # c
    <3>1. CASE l \in B(c).o
      <4>1. l \notin A(d).o
        BY <1>5, <1>8, <2>2, <3>1, ZenonT(30)
      <4>2. QED BY <1>3, <1>4, <2>2, <3>1, <4>1, ZenonT(30)
    <3>2. CASE l \in A(c).o \ B(c).o
      <4>1. l \notin A(d).o
        BY <1>2, <1>5, <2>2, <3>2, ZenonT(30)
      <4>2. QED BY <1>3, <1>4, <1>6, <2>2, <3>2, <4>1, ZenonT(30)
    <3>3. CASE l \notin A(c).o \cup B(c).o
      BY <1>2, <1>3, <1>4, <2>2, <3>3
    <3>4. QED BY <3>1, <3>2, <3>3, ZenonT(30)
  <2>3. QED BY <2>1, <2>2, ZenonT(30)
<1>11. QED BY <1>7, <1>9, <1>10, ZenonT(30) DEF LocksMatch, B

\* The invariant after it.
LEMMA LocalStep ==
  ASSUME SpinInv, NEW lev, Held(lev), NEW c \in Cpu,
         NEW t, NEW M, NEW nc, NEW fl, NEW ie, NEW pr,
         Local(c, t, M, nc, fl, ie, pr), LockStep(c, lev[run[c]][1], M[1])
  PROVE  SpinInv'
<1> DEFINE x == run[c]
           lev2 == [lev EXCEPT ![x] = M]
<1>1. /\ x \in Context /\ x \in Thread \cup {c}
      /\ \A d \in Cpu : d # c => run[d] # x /\ d # x /\ run[d] \in Context /\ d \in Context
      /\ lev \in [Context -> [Nat -> Level]]
  BY Contexts, ZenonT(30)
<1>2. /\ run' = run /\ todo' = [todo EXCEPT ![x] = t]
      /\ M \in [Nat -> Level] /\ Good(x, t, M) /\ Fits(c, nc, fl, ie, t, M[1])
      /\ ncli' = [ncli EXCEPT ![c] = nc] /\ iflag' = [iflag EXCEPT ![c] = fl]
      /\ intena' = [intena EXCEPT ![c] = ie] /\ proc' = [proc EXCEPT ![c] = pr]
      /\ pr \in Thread \cup {None} /\ (x # c => pr = x)
      /\ x = c /\ pr # None => t # << >> /\ t[1].op = "clear"
  BY ZenonT(30) DEF Local
<1>3. LocksMatch(locked', owner', run', lev2)
  BY <1>2, LocksKept, ZenonT(30)
<1>4. /\ TypeOK /\ run \in [Cpu -> Context] /\ todo \in [Context -> Seq(Steps)]
      /\ Levels(todo, lev) /\ Matches(ncli, iflag, intena, run, todo, lev) /\ Parked(run, proc, todo, lev)
  BY ZenonT(30) DEF SpinInv, Held
<1>5. t \in Seq(Steps) /\ M[1] \in Level
  BY <1>2, ZenonT(30) DEF Good, Ann
<1>6. /\ lev2 \in [Context -> [Nat -> Level]] /\ lev2[x] = M
      /\ \A y \in Context : y # x => lev2[y] = lev[y]
  BY <1>1, <1>2, ZenonT(30)
<1>7. /\ todo' \in [Context -> Seq(Steps)] /\ todo'[x] = t
      /\ \A y \in Context : y # x => todo'[y] = todo[y]
  BY <1>1, <1>2, <1>4, <1>5, ZenonT(30)
<1> HIDE DEF lev2, x
<1>8. Levels(todo', lev2)
  BY <1>2, <1>4, <1>6, <1>7, ZenonT(30) DEF Levels
<1>9. Matches(ncli', iflag', intena', run', todo', lev2)
  <2>1. ASSUME NEW d \in Cpu PROVE Fits(d, ncli'[d], iflag'[d], intena'[d], todo'[run'[d]], lev2[run'[d]][1])
    <3>1. ncli \in [Cpu -> 0 .. 2] /\ iflag \in [Cpu -> BOOLEAN] /\ intena \in [Cpu -> BOOLEAN]
      BY <1>4, ZenonT(30) DEF TypeOK
    <3>2. CASE d = c
      <4>1. /\ ncli'[d] = nc /\ iflag'[d] = fl /\ intena'[d] = ie
            /\ todo'[run'[d]] = t /\ lev2[run'[d]] = M
        BY <1>2, <1>6, <1>7, <3>1, <3>2, ZenonT(30) DEF x
      <4>2. QED BY <1>2, <3>2, <4>1, ZenonT(30)
    <3>3. CASE d # c
      <4>1. /\ ncli'[d] = ncli[d] /\ iflag'[d] = iflag[d] /\ intena'[d] = intena[d]
            /\ todo'[run'[d]] = todo[run[d]] /\ lev2[run'[d]] = lev[run[d]]
        BY <1>1, <1>2, <1>6, <1>7, <3>1, <3>3, ZenonT(30)
      <4>2. Fits(d, ncli[d], iflag[d], intena[d], todo[run[d]], lev[run[d]][1])
        BY <1>4, ZenonT(30) DEF Matches
      <4>3. QED BY <4>1, <4>2, ZenonT(30)
    <3>4. QED BY <3>2, <3>3, ZenonT(30)
  <2>2. QED BY <2>1, ZenonT(30) DEF Matches
<1>10. Parked(run', proc', todo', lev2)
  <2>0. proc \in [Cpu -> Thread \cup {None}] /\ c \in Context
    BY <1>4, ZenonT(30) DEF TypeOK, Context
  <2>1. \A d, g \in Cpu : run'[d] = run'[g] => d = g
    BY <1>2, <1>4, ZenonT(30) DEF Parked
  <2>2. ASSUME NEW d \in Cpu
        PROVE  /\ run'[d] # d => proc'[d] = run'[d]
               /\ run'[d] # d \/ proc'[d] # None => todo'[d] # << >> /\ todo'[d][1].op = "clear"
    <3>1. /\ run[d] # d => proc[d] = run[d]
          /\ run[d] # d \/ proc[d] # None => todo[d] # << >> /\ todo[d][1].op = "clear"
      BY <1>4, ZenonT(30) DEF Parked
    <3>2. CASE d # c
      <4>1. proc'[d] = proc[d] /\ todo'[d] = todo[d]
        BY <1>1, <1>2, <1>7, <2>0, <3>2, ZenonT(30)
      <4>2. QED BY <1>2, <3>1, <4>1, ZenonT(30)
    <3>3. CASE d = c /\ x # c
      <4>1. proc'[c] = x /\ todo'[c] = todo[c] /\ run[c] = x
        BY <1>2, <1>7, <2>0, <3>3, ZenonT(30) DEF x
      <4>2. QED BY <1>2, <3>1, <3>3, <4>1, ZenonT(30)
    <3>4. CASE d = c /\ x = c
      <4>1. proc'[c] = pr /\ todo'[c] = t /\ run[c] = c
        BY <1>2, <1>7, <2>0, <3>4, ZenonT(30) DEF x
      <4>2. QED BY <1>2, <3>4, <4>1, ZenonT(30)
    <3>5. QED BY <3>2, <3>3, <3>4, ZenonT(30)
  <2>3. ASSUME NEW th \in Thread, \A d \in Cpu : run'[d] # th
        PROVE  todo'[th] # << >> /\ todo'[th][1].op \in {"resume", "disown"} /\ lev2[th][1] = Switched
    <3>1. th # x /\ th \in Context /\ \A d \in Cpu : run[d] # th
      BY <1>2, <2>3, ZenonT(30) DEF x, Context
    <3>2. todo[th] # << >> /\ todo[th][1].op \in {"resume", "disown"} /\ lev[th][1] = Switched
      BY <1>4, <3>1, ZenonT(30) DEF Parked
    <3>3. QED BY <1>6, <1>7, <3>1, <3>2, ZenonT(30)
  <2>4. QED BY <2>1, <2>2, <2>3, ZenonT(30) DEF Parked
<1>11. nc \in 0 .. 2 /\ fl \in BOOLEAN /\ ie \in BOOLEAN
  BY <1>2, <1>5, LevelOf, ZenonT(30) DEF Fits
<1>12. locked' \in [Lock -> BOOLEAN] /\ owner' \in [Lock -> Cpu \cup {None}]
  BY ZenonT(30) DEF LockStep
<1>13. TypeOK'
  BY <1>2, <1>4, <1>11, <1>12, ZenonT(30) DEF TypeOK
<1>14. run' \in [Cpu -> Context]
  BY <1>2, <1>4, ZenonT(30)
<1>15. QED BY <1>3, <1>7, <1>8, <1>9, <1>10, <1>13, <1>14, ZenonT(30) DEF SpinInv, Held

\* A CPU at a step.
LEMMA RunHead ==
  ASSUME SpinInv, NEW lev, Held(lev), NEW c \in Cpu, NEW op,
         todo[run[c]] # << >>, Head(todo[run[c]]).op = op
  PROVE  LET x == run[c]
             s == todo[x]
             L == lev[x]
         IN /\ x \in Context /\ s # << >> /\ s \in Seq(Steps) /\ Head(s) = s[1] /\ s[1] \in Steps /\ s[1].op = op
            /\ L \in [Nat -> Level] /\ L[1] \in Level /\ L[2] \in Level
            /\ Good(x, s, L) /\ op \in OpsOf(x)
            /\ Flow(op, s[1].lk, L[1], L[2]) /\ Given(s, L, 1)
            /\ Fits(c, ncli[c], iflag[c], intena[c], s, L[1])
            /\ x # c => proc[c] = x
            /\ x = c /\ op # "clear" => proc[c] = None
<1> DEFINE x == run[c]
           s == todo[x]
           L == lev[x]
<1>1. x \in Context /\ lev \in [Context -> [Nat -> Level]]
  BY Contexts
<1>2. s \in Seq(Steps) /\ s # << >> /\ Head(s).op = op
  BY <1>1, ZenonT(30) DEF SpinInv
<1>3. Good(x, s, L) /\ Fits(c, ncli[c], iflag[c], intena[c], s, L[1])
  BY <1>1, ZenonT(30) DEF Held, Levels, Matches
<1>4. /\ x # c => proc[c] = x
      /\ x # c \/ proc[c] # None => todo[c] # << >> /\ todo[c][1].op = "clear"
  BY ZenonT(30) DEF Held, Parked
<1>5. L \in [Nat -> Level] /\ L[1] \in Level /\ L[2] \in Level
  BY <1>1
<1> HIDE DEF L
<1>6. Head(s) = s[1] /\ s[1] \in Steps /\ 1 \in 1 .. Len(s) /\ 1 + 1 = 2
  BY <1>2, TailSeq
<1>7. s[1].op \in OpsOf(x) /\ Flow(s[1].op, s[1].lk, L[1], L[2]) /\ Given(s, L, 1)
  BY <1>3, <1>6, ZenonT(30) DEF Good, Ann
<1>8. x = c /\ op # "clear" => proc[c] = None
  BY <1>2, <1>4, <1>6, ZenonT(30)
<1>9. QED BY <1>1, <1>2, <1>3, <1>4, <1>5, <1>6, <1>7, <1>8, ZenonT(30) DEF L

\* The same where its check does not fail.
LEMMA AtHead ==
  ASSUME SpinInv, NEW lev, Held(lev), NEW c \in Cpu, NEW op, At(c, op)
  PROVE  LET x == run[c]
             s == todo[x]
             L == lev[x]
         IN /\ x \in Context /\ s # << >> /\ s \in Seq(Steps) /\ Head(s) = s[1] /\ s[1] \in Steps /\ s[1].op = op
            /\ L \in [Nat -> Level] /\ L[1] \in Level /\ L[2] \in Level
            /\ Good(x, s, L) /\ op \in OpsOf(x)
            /\ Flow(op, s[1].lk, L[1], L[2]) /\ Given(s, L, 1)
            /\ Fits(c, ncli[c], iflag[c], intena[c], s, L[1])
            /\ x # c => proc[c] = x
            /\ x = c /\ op # "clear" => proc[c] = None
BY RunHead, ZenonT(30) DEF At

\* A step that reads no value and does not return to the scheduler.
LEMMA PlainStep ==
  ASSUME SpinInv, NEW lev, Held(lev), NEW c \in Cpu, NEW op, At(c, op),
         op \notin {"readeflags", "mycpu", "swtch", "clear"},
         Advance(c), UNCHANGED <<proc, run>>, NEW nc, NEW fl, NEW ie,
         ncli' = [ncli EXCEPT ![c] = nc], iflag' = [iflag EXCEPT ![c] = fl],
         intena' = [intena EXCEPT ![c] = ie],
         nc = lev[run[c]][2].n, fl \in lev[run[c]][2].f, ie \in lev[run[c]][2].e,
         LockStep(c, lev[run[c]][1], lev[run[c]][2])
  PROVE  SpinInv'
<1> DEFINE x == run[c]
           s == todo[x]
           L == lev[x]
           t == Tail(s)
           M == Shift(L)
<1>1. /\ x \in Context /\ s # << >> /\ s \in Seq(Steps) /\ s[1].op = op
      /\ L \in [Nat -> Level] /\ Good(x, s, L)
      /\ x # c => proc[c] = x
      /\ x = c => proc[c] = None
  BY AtHead, ZenonT(30)
<1>2. M \in [Nat -> Level] /\ M[1] = L[2]
  <2>1. M \in [Nat -> Level] /\ M[1] = L[1 + 1]
    BY <1>1, ShiftLevels, ZenonT(30)
  <2>2. QED BY <2>1
<1>3. Good(x, t, M)
  BY <1>1, GoodTail, ZenonT(30)
<1>4. t # << >> => t[1].op # "cpuproc"
  <2>1. Ann(s, L, OpsOf(x))
    BY <1>1, ZenonT(30) DEF Good
  <2>2. PICK n \in Nat : n = Len(s)
    BY <1>1
  <2>3. t # << >> => 2 \in 1 .. n /\ t[1] = s[2]
    BY <1>1, <2>2
  <2>4. t # << >> => Given(s, L, 2)
    BY <2>1, <2>2, <2>3, ZenonT(30) DEF Ann
  <2>5. 2 - 1 = 1 /\ 2 # 1
    OBVIOUS
  <2>6. QED BY <1>1, <2>3, <2>4, <2>5, ZenonT(30) DEF Given
<1>5. Fits(c, nc, fl, ie, t, M[1])
  BY <1>2, <1>4, ZenonT(30) DEF Fits
<1>6. proc \in [Cpu -> Thread \cup {None}]
  BY ZenonT(30) DEF SpinInv, TypeOK
<1>7. proc' = [proc EXCEPT ![c] = proc[c]] /\ proc[c] \in Thread \cup {None}
  BY <1>6, ZenonT(30)
<1>8. todo' = [todo EXCEPT ![x] = t] /\ run' = run
  BY DEF Advance
<1> HIDE DEF M, t
<1>9. Local(c, t, M, nc, fl, ie, proc[c])
  BY <1>1, <1>2, <1>3, <1>5, <1>7, <1>8, ZenonT(30) DEF Local
<1>10. LockStep(c, lev[run[c]][1], M[1])
  BY <1>2
<1>11. QED BY <1>9, <1>10, LocalStep, ZenonT(30)

-----------------------------------------------------------------------------
(* The steps *)

LEMMA SameLocks ==
  ASSUME SpinInv, NEW lev, Held(lev), NEW c \in Cpu, UNCHANGED lockVars,
         NEW B, B.h = lev[run[c]][1].h, B.o = lev[run[c]][1].o
  PROVE  LockStep(c, lev[run[c]][1], B)
<1>1. /\ \A l \in Lock : locked[l] <=> \E d \in Cpu : l \in lev[run[d]][1].h
      /\ \A l \in Lock : \A d \in Cpu : owner[l] = d <=> l \in lev[run[d]][1].o
  BY DEF Held, LocksMatch
<1>2. locked' = locked /\ owner' = owner /\ locked \in [Lock -> BOOLEAN] /\ owner \in [Lock -> Cpu \cup {None}]
  BY DEF SpinInv, TypeOK, lockVars
<1>3. QED BY <1>1, <1>2 DEF LockStep

LEMMA SameCpu ==
  ASSUME SpinInv, NEW c \in Cpu
  PROVE  /\ ncli = [ncli EXCEPT ![c] = ncli[c]] /\ iflag = [iflag EXCEPT ![c] = iflag[c]]
         /\ intena = [intena EXCEPT ![c] = intena[c]] /\ proc = [proc EXCEPT ![c] = proc[c]]
         /\ ncli[c] \in 0 .. 2 /\ iflag[c] \in BOOLEAN /\ intena[c] \in BOOLEAN
         /\ proc[c] \in Thread \cup {None}
<1>1. /\ iflag \in [Cpu -> BOOLEAN] /\ ncli \in [Cpu -> 0 .. 2] /\ intena \in [Cpu -> BOOLEAN]
      /\ proc \in [Cpu -> Thread \cup {None}]
  BY DEF SpinInv, TypeOK
<1>2. QED BY <1>1

LEMMA CliStep ==
  ASSUME SpinInv, NEW c \in Cpu, cli(c)
  PROVE  SpinInv'
<1>1. PICK lev : Held(lev)
  BY DEF SpinInv
<1> DEFINE A == lev[run[c]][1]
           B == lev[run[c]][2]
           s == todo[run[c]]
           ie == IF ncli[c] = 0 THEN s[1].val ELSE intena[c]
<1>2. At(c, "cli")
  BY DEF cli
<1>3. /\ Head(s) = s[1] /\ s[1].op = "cli" /\ A \in Level
      /\ Flow("cli", s[1].lk, A, B) /\ Given(s, lev[run[c]], 1)
      /\ Fits(c, ncli[c], iflag[c], intena[c], s, A)
  BY <1>1, <1>2, AtHead
<1>4. /\ A.n < 2 /\ B.n = A.n + 1 /\ B.h = A.h /\ B.o = A.o
      /\ FALSE \in B.f /\ (IF A.n = 0 THEN A.f ELSE A.e) \subseteq B.e
  BY <1>3, ZenonT(30) DEF Flow
<1>5. s[1].val \in A.f
  <2>1. ~(1 > 1)
    OBVIOUS
  <2>2. QED BY <1>3, <2>1, Zenon DEF Given
<1>6. ncli[c] = A.n /\ intena[c] \in A.e
  BY <1>3 DEF Fits
<1>7. LockStep(c, A, B)
  BY <1>1, <1>4, SameLocks, ZenonT(30) DEF cli
<1>8. ie \in B.e /\ ncli[c] + 1 = B.n
  BY <1>4, <1>5, <1>6
<1>9. /\ ncli' = [ncli EXCEPT ![c] = ncli[c] + 1] /\ iflag' = [iflag EXCEPT ![c] = FALSE]
      /\ intena' = [intena EXCEPT ![c] = ie] /\ Advance(c) /\ UNCHANGED <<proc, run>>
  BY <1>3, SameCpu DEF cli
<1> HIDE DEF ie, A, B
<1>10. QED BY <1>1, <1>2, <1>4, <1>7, <1>8, <1>9, PlainStep, ZenonT(30) DEF A, B

LEMMA LockOpStep ==
  ASSUME SpinInv, NEW c \in Cpu, xchg(c) \/ own(c) \/ disown(c) \/ unlock(c)
  PROVE  SpinInv'
<1>1. PICK lev : Held(lev)
  BY DEF SpinInv
<1> DEFINE A == lev[run[c]][1]
           B == lev[run[c]][2]
           s == todo[run[c]]
           l == s[1].lk
<1>2. PICK op \in {"xchg", "own", "disown", "unlock"} :
        /\ At(c, op)
        /\ op = "xchg" => xchg(c)
        /\ op = "own" => own(c)
        /\ op = "disown" => disown(c)
        /\ op = "unlock" => unlock(c)
  BY ZenonT(30) DEF xchg, own, disown, unlock
<1>3. /\ Head(s) = s[1] /\ s[1] \in Steps /\ A \in Level /\ B \in Level /\ Flow(op, l, A, B)
      /\ Fits(c, ncli[c], iflag[c], intena[c], s, A)
  BY <1>1, <1>2, AtHead
<1>4. /\ B.n = A.n /\ B.f = A.f /\ B.e = A.e /\ l \in Lock
      /\ op = "xchg" => l \notin A.h /\ B.h = A.h \cup {l} /\ B.o = A.o
      /\ op = "own" => l \in A.h /\ B.h = A.h /\ B.o = A.o \cup {l}
      /\ op = "disown" => l \in A.o /\ B.h = A.h /\ B.o = A.o \ {l}
      /\ op = "unlock" => l \in A.h \ A.o /\ B.h = A.h \ {l} /\ B.o = A.o
  <2>1. A.h \subseteq Lock /\ A.o \subseteq A.h
    BY <1>3, LevelOf, ZenonT(30)
  <2>2. QED BY <1>2, <1>3, <2>1, ZenonT(30) DEF Flow
<1>5. ncli[c] = B.n /\ iflag[c] \in B.f /\ intena[c] \in B.e
  BY <1>3, <1>4, ZenonT(30) DEF Fits
<1>6. /\ \A m \in Lock : locked[m] <=> \E d \in Cpu : m \in lev[run[d]][1].h
      /\ \A m \in Lock : \A d \in Cpu : owner[m] = d <=> m \in lev[run[d]][1].o
  BY <1>1 DEF Held, LocksMatch
<1>7. /\ \A m \in A.h : locked[m]
      /\ \A m \in A.o : owner[m] = c
      /\ A.h \subseteq Lock /\ A.o \subseteq Lock
  BY <1>3, <1>6, LevelOf, ZenonT(30)
<1>8. locked \in [Lock -> BOOLEAN] /\ owner \in [Lock -> Cpu \cup {None}]
  BY DEF SpinInv, TypeOK
<1>9. Advance(c) /\ UNCHANGED <<cliVars, proc, run>>
  BY <1>2, ZenonT(30) DEF xchg, own, disown, unlock
<1>10. LockStep(c, A, B)
  <2>1. CASE op = "xchg"
    <3>1. ~locked[l] /\ locked' = [locked EXCEPT ![l] = TRUE] /\ owner' = owner
      BY <1>2, <1>3, <2>1 DEF xchg
    <3>2. QED
      <4> HIDE DEF A, B, l
      <4>1. QED BY <1>4, <1>7, <1>8, <2>1, <3>1, ZenonT(30) DEF LockStep
  <2>2. CASE op = "own"
    <3>1. owner' = [owner EXCEPT ![l] = c] /\ locked' = locked
      BY <1>2, <1>3, <2>2 DEF own
    <3>2. QED
      <4> HIDE DEF A, B, l
      <4>1. QED BY <1>4, <1>7, <1>8, <2>2, <3>1, ZenonT(30) DEF LockStep
  <2>3. CASE op = "disown"
    <3>1. owner' = [owner EXCEPT ![l] = None] /\ locked' = locked
      BY <1>2, <1>3, <2>3 DEF disown
    <3>2. QED
      <4> HIDE DEF A, B, l
      <4>1. QED BY <1>4, <1>7, <1>8, <2>3, <3>1, ZenonT(30) DEF LockStep
  <2>4. CASE op = "unlock"
    <3>1. locked' = [locked EXCEPT ![l] = FALSE] /\ owner' = owner
      BY <1>2, <1>3, <2>4 DEF unlock
    <3>2. QED
      <4> HIDE DEF A, B, l
      <4>1. QED BY <1>4, <1>7, <1>8, <2>4, <3>1, ZenonT(30) DEF LockStep
  <2>5. QED BY <2>1, <2>2, <2>3, <2>4
<1>11. /\ ncli' = [ncli EXCEPT ![c] = ncli[c]] /\ iflag' = [iflag EXCEPT ![c] = iflag[c]]
       /\ intena' = [intena EXCEPT ![c] = intena[c]] /\ UNCHANGED <<proc, run>>
  BY <1>9, SameCpu DEF cliVars
<1>12. op \notin {"readeflags", "mycpu", "swtch", "clear"}
  BY <1>2
<1> HIDE DEF A, B
<1>13. QED BY <1>1, <1>2, <1>5, <1>9, <1>10, <1>11, <1>12, PlainStep, ZenonT(30) DEF A, B

LEMMA PopcliStep ==
  ASSUME SpinInv, NEW c \in Cpu, popcli(c)
  PROVE  SpinInv'
<1>1. PICK lev : Held(lev)
  BY DEF SpinInv
<1> DEFINE A == lev[run[c]][1]
           B == lev[run[c]][2]
           s == todo[run[c]]
           fl == iflag[c] \/ (ncli[c] = 1 /\ intena[c])
<1>2. At(c, "popcli")
  BY DEF popcli
<1>3. /\ A \in Level /\ B \in Level /\ Flow("popcli", s[1].lk, A, B)
      /\ Fits(c, ncli[c], iflag[c], intena[c], s, A)
  BY <1>1, <1>2, AtHead
<1>4. /\ A.n > 0 /\ B.n = A.n - 1 /\ B.h = A.h /\ B.o = A.o /\ A.e \subseteq B.e
      /\ IF A.n = 1 THEN A.e \subseteq B.f ELSE FALSE \in B.f
  BY <1>3, ZenonT(30) DEF Flow
<1>5. ncli[c] = A.n /\ iflag[c] \in A.f /\ intena[c] \in A.e
  BY <1>3 DEF Fits
<1>6. ~iflag[c] /\ iflag[c] \in BOOLEAN /\ intena[c] \in BOOLEAN
  <2>1. A.f \subseteq {FALSE}
    BY <1>3, <1>4, LevelOf, ZenonT(30)
  <2>2. iflag[c] \in BOOLEAN /\ intena[c] \in BOOLEAN
    BY SameCpu
  <2>3. QED BY <1>5, <2>1, <2>2, Zenon
<1>7. fl = (ncli[c] = 1 /\ intena[c])
  BY <1>6
<1>8. fl \in B.f
  <2>1. CASE A.n = 1
    <3>1. fl = intena[c]
      BY <1>5, <1>6, <1>7, <2>1
    <3>2. QED BY <1>4, <1>5, <2>1, <3>1
  <2>2. CASE A.n # 1
    <3>1. fl = FALSE
      BY <1>5, <1>7, <2>2, ZenonT(30)
    <3>2. QED BY <1>4, <2>2, <3>1, ZenonT(30)
  <2>3. QED BY <2>1, <2>2
<1>9. LockStep(c, A, B)
  BY <1>1, <1>4, SameLocks DEF popcli
<1>10. /\ ncli' = [ncli EXCEPT ![c] = ncli[c] - 1] /\ iflag' = [iflag EXCEPT ![c] = fl]
       /\ intena' = [intena EXCEPT ![c] = intena[c]] /\ Advance(c) /\ UNCHANGED <<proc, run>>
  BY SameCpu DEF popcli
<1>11. ncli[c] - 1 = B.n /\ intena[c] \in B.e
  BY <1>4, <1>5
<1> HIDE DEF fl, A, B
<1>12. QED BY <1>1, <1>2, <1>8, <1>9, <1>10, <1>11, PlainStep, ZenonT(30) DEF A, B

LEMMA QuietStep ==
  ASSUME SpinInv, NEW c \in Cpu, cpuproc(c) \/ resume(c)
  PROVE  SpinInv'
<1>1. PICK lev : Held(lev)
  BY DEF SpinInv
<1> DEFINE A == lev[run[c]][1]
           B == lev[run[c]][2]
           s == todo[run[c]]
<1>2. PICK op \in {"cpuproc", "resume"} :
        At(c, op) /\ (op = "cpuproc" => cpuproc(c)) /\ (op = "resume" => resume(c))
  BY DEF cpuproc, resume
<1>3. /\ Head(s) = s[1] /\ s[1].op = op /\ Flow(op, s[1].lk, A, B) /\ Given(s, lev[run[c]], 1)
      /\ Fits(c, ncli[c], iflag[c], intena[c], s, A)
  BY <1>1, <1>2, AtHead
<1>4. /\ B.n = A.n /\ B.h = A.h /\ B.o = A.o /\ B.f = A.f
      /\ op = "cpuproc" => B.e = A.e
  BY <1>2, <1>3, BaseLevels, ZenonT(30) DEF Flow
<1>5. op = "resume" => s[1].val \in B.e
  <2>1. ~(1 > 1) /\ 1 + 1 = 2
    OBVIOUS
  <2>2. QED BY <1>3, <2>1, Zenon DEF Given
<1>6. ncli[c] = A.n /\ iflag[c] \in A.f /\ intena[c] \in A.e
  BY <1>3 DEF Fits
<1>7. UNCHANGED <<lockVars, iflag, ncli, proc, run>> /\ Advance(c)
  BY <1>2 DEF cpuproc, resume, cliVars
<1>8. PICK ie : ie \in B.e /\ intena' = [intena EXCEPT ![c] = ie]
  <2>1. CASE op = "cpuproc"
    <3>1. intena' = [intena EXCEPT ![c] = intena[c]]
      BY <1>2, <2>1, SameCpu DEF cpuproc, cliVars
    <3>2. QED BY <1>4, <1>6, <2>1, <3>1, ZenonT(30)
  <2>2. CASE op = "resume"
    <3>1. intena' = [intena EXCEPT ![c] = s[1].val]
      BY <1>2, <1>3, <2>2 DEF resume
    <3>2. QED BY <1>5, <2>2, <3>1, ZenonT(30)
  <2>3. QED BY <1>2, <2>1, <2>2
<1>9. LockStep(c, A, B)
  BY <1>1, <1>4, <1>7, SameLocks
<1>10. ncli' = [ncli EXCEPT ![c] = ncli[c]] /\ iflag' = [iflag EXCEPT ![c] = iflag[c]]
  BY <1>7, SameCpu
<1>11. ncli[c] = B.n /\ iflag[c] \in B.f /\ op \notin {"readeflags", "mycpu", "swtch", "clear"}
  BY <1>2, <1>4, <1>6
<1> HIDE DEF A, B
<1>12. QED BY <1>1, <1>2, <1>7, <1>8, <1>9, <1>10, <1>11, PlainStep, ZenonT(30) DEF A, B

LEMMA EnableStep ==
  ASSUME SpinInv, NEW c \in Cpu, sti(c) \/ trapret(c)
  PROVE  SpinInv'
<1>1. PICK lev : Held(lev)
  BY DEF SpinInv
<1> DEFINE A == lev[run[c]][1]
           B == lev[run[c]][2]
           s == todo[run[c]]
<1>2. PICK op \in {"sti", "iret", "sysret", "newret"} : At(c, op)
  BY DEF sti, trapret
<1>3. /\ A \in Level /\ B \in Level /\ Flow(op, s[1].lk, A, B)
      /\ Fits(c, ncli[c], iflag[c], intena[c], s, A)
  BY <1>1, <1>2, AtHead
<1>4. A.n = 0 /\ B.n = 0 /\ TRUE \in B.f
  BY <1>2, <1>3, ZenonT(30) DEF Flow
<1>5. A.h = {} /\ B.h = {} /\ A.o = {} /\ B.o = {} /\ B.e = BOOLEAN
  BY <1>3, <1>4, LevelOf, ZenonT(30)
<1>6. ncli[c] = B.n /\ intena[c] \in B.e
  BY <1>3, <1>4, <1>5, SameCpu DEF Fits
<1>7. /\ iflag' = [iflag EXCEPT ![c] = TRUE] /\ UNCHANGED <<lockVars, ncli, intena, proc, run>>
      /\ Advance(c)
  BY DEF sti, trapret
<1>8. LockStep(c, A, B)
  BY <1>1, <1>5, <1>7, SameLocks, ZenonT(30)
<1>9. ncli' = [ncli EXCEPT ![c] = ncli[c]] /\ intena' = [intena EXCEPT ![c] = intena[c]]
  BY <1>7, SameCpu
<1>10. op \notin {"readeflags", "mycpu", "swtch", "clear"} /\ Advance(c) /\ UNCHANGED <<proc, run>>
  BY <1>2, <1>7
<1>11. PICK fl : fl \in B.f /\ iflag' = [iflag EXCEPT ![c] = fl]
  BY <1>4, <1>7, ZenonT(30)
<1> HIDE DEF A, B
<1>12. QED BY <1>1, <1>2, <1>6, <1>8, <1>9, <1>10, <1>11, PlainStep, ZenonT(30) DEF A, B

LEMMA ReadStep ==
  ASSUME SpinInv, NEW c \in Cpu, readeflags(c) \/ mycpu(c)
  PROVE  SpinInv'
<1>1. PICK lev : Held(lev)
  BY DEF SpinInv
<1> DEFINE x == run[c]
           s == todo[x]
           L == lev[x]
           M == Shift(L)
<1>2. PICK op \in {"readeflags", "mycpu"} :
        At(c, op) /\ (op = "readeflags" => readeflags(c)) /\ (op = "mycpu" => mycpu(c))
  BY ZenonT(30) DEF readeflags, mycpu
<1>3. /\ x \in Context /\ s # << >> /\ s[1].op = op /\ L \in [Nat -> Level] /\ Good(x, s, L)
      /\ Flow(op, s[1].lk, L[1], L[2]) /\ Fits(c, ncli[c], iflag[c], intena[c], s, L[1])
      /\ x # c => proc[c] = x
      /\ x = c => proc[c] = None
  BY <1>1, <1>2, AtHead
<1>4. L[2] = L[1]
  BY <1>2, <1>3, ZenonT(30) DEF Flow
<1>5. ncli[c] = L[1].n /\ iflag[c] \in L[1].f /\ intena[c] \in L[1].e
  BY <1>3 DEF Fits
<1>6. UNCHANGED <<lockVars, cliVars, proc, run>>
  BY <1>2 DEF readeflags, mycpu
<1>7. PICK v : /\ Reads(s, L, v) /\ (op = "mycpu" => v = c)
               /\ todo' = [todo EXCEPT ![x] = Put(s, v)]
  <2>1. CASE op = "readeflags"
    <3>1. iflag[c] \in BOOLEAN /\ iflag[c] \in L[2].f
      BY <1>4, <1>5, SameCpu, ZenonT(30)
    <3>2. Reads(s, L, iflag[c])
      BY <1>3, <2>1, <3>1, ZenonT(30) DEF Reads
    <3>3. todo' = [todo EXCEPT ![x] = Put(s, iflag[c])]
      BY <1>2, <2>1 DEF readeflags, AdvanceWith, Put
    <3>4. QED BY <2>1, <3>2, <3>3, ZenonT(30)
  <2>2. CASE op = "mycpu"
    <3>1. Reads(s, L, c)
      BY <1>3, <2>2 DEF Reads
    <3>2. todo' = [todo EXCEPT ![x] = Put(s, c)]
      BY <1>2, <2>2, ZenonT(30) DEF mycpu, AdvanceWith, Put
    <3>3. QED BY <3>1, <3>2, ZenonT(30)
  <2>3. QED BY <1>2, <2>1, <2>2
<1> DEFINE t == Put(s, v)
<1>8. /\ Good(x, t, M) /\ t # << >> /\ t[1].val = v
      /\ op = "readeflags" => t[1].op = "cli"
  BY <1>3, <1>7, GoodWith
<1>9. M \in [Nat -> Level] /\ M[1] = L[1]
  <2>1. M \in [Nat -> Level] /\ M[1] = L[1 + 1] /\ 1 + 1 = 2
    BY <1>3, ShiftLevels
  <2>2. QED BY <1>4, <2>1
<1> HIDE DEF t, M
<1>10. Fits(c, ncli[c], iflag[c], intena[c], t, M[1])
  BY <1>2, <1>5, <1>7, <1>8, <1>9, ZenonT(30) DEF Fits
<1>11. Local(c, t, M, ncli[c], iflag[c], intena[c], proc[c])
  <2>1. /\ ncli' = [ncli EXCEPT ![c] = ncli[c]] /\ iflag' = [iflag EXCEPT ![c] = iflag[c]]
        /\ intena' = [intena EXCEPT ![c] = intena[c]] /\ proc' = [proc EXCEPT ![c] = proc[c]]
        /\ proc[c] \in Thread \cup {None}
    BY <1>6, SameCpu DEF cliVars
  <2>2. run' = run /\ todo' = [todo EXCEPT ![x] = t]
    BY <1>6, <1>7 DEF t
  <2>3. QED BY <1>3, <1>8, <1>9, <1>10, <2>1, <2>2 DEF Local
<1>12. LockStep(c, lev[run[c]][1], M[1])
  BY <1>1, <1>6, <1>9, SameLocks
<1>13. QED BY <1>1, <1>11, <1>12, LocalStep

\* The scheduler of a CPU.
LEMMA CpuCode ==
  ASSUME NEW c \in Cpu, NEW t, NEW M, Good(c, t, M)
  PROVE  t # << >> => t[1].op # "cpuproc"
<1>1. t \in Seq(Steps) /\ \A i \in 1 .. Len(t) : t[i].op \in CpuOps
  BY DEF Good, Ann, OpsOf
<1>2. t # << >> => 1 \in 1 .. Len(t)
  BY <1>1
<1>3. "cpuproc" \notin CpuOps
  BY DEF CpuOps, LockOps
<1>4. QED BY <1>1, <1>2, <1>3

LEMMA AtScheduler ==
  ASSUME SpinInv, NEW lev, Held(lev), NEW c \in Cpu, NEW op \in {"choose", "clear"}, At(c, op)
  PROVE  /\ run[c] = c /\ c \in Context /\ todo[c] # << >> /\ todo[c][1].op = op
         /\ todo[c] \in Seq(Steps) /\ lev[c] \in [Nat -> Level]
         /\ Good(c, todo[c], lev[c]) /\ lev[c][1] = Switched /\ lev[c][2] = Switched
         /\ Fits(c, ncli[c], iflag[c], intena[c], todo[c], Switched)
         /\ op = "choose" => proc[c] = None
         /\ Shift(lev[c]) \in [Nat -> Level] /\ Shift(lev[c])[1] = Switched
         /\ Good(c, Tail(todo[c]), Shift(lev[c]))
<1>1. op \in OpsOf(run[c]) /\ op \notin ThreadOps
  <2>1. op \notin ThreadOps
    BY DEF ThreadOps, LockOps
  <2>2. QED BY <2>1, AtHead
<1>2. run[c] = c
  BY <1>1, Contexts, SpinlockConstants, ZenonT(30) DEF OpsOf
<1>3. /\ c \in Context /\ todo[c] # << >> /\ todo[c][1].op = op
      /\ todo[c] \in Seq(Steps) /\ lev[c] \in [Nat -> Level] /\ Good(c, todo[c], lev[c])
      /\ Flow(op, todo[c][1].lk, lev[c][1], lev[c][2])
      /\ Fits(c, ncli[c], iflag[c], intena[c], todo[c], lev[c][1])
      /\ op # "clear" => proc[c] = None
  <2> DEFINE x == run[c]
  <2>1. /\ x \in Context /\ todo[x] # << >> /\ todo[x][1].op = op
        /\ todo[x] \in Seq(Steps) /\ lev[x] \in [Nat -> Level] /\ Good(x, todo[x], lev[x])
        /\ Flow(op, todo[x][1].lk, lev[x][1], lev[x][2])
        /\ Fits(c, ncli[c], iflag[c], intena[c], todo[x], lev[x][1])
        /\ x = c /\ op # "clear" => proc[c] = None
    BY AtHead, ZenonT(30)
  <2>2. QED BY <1>2, <2>1, ZenonT(30)
<1>4. lev[c][1] = Switched /\ lev[c][2] = Switched
  BY <1>3, ZenonT(30) DEF Flow
<1>5. Shift(lev[c]) \in [Nat -> Level] /\ Shift(lev[c])[1] = lev[c][1 + 1] /\ 1 + 1 = 2
  <2>1. 1 \in Nat /\ 1 + 1 = 2
    OBVIOUS
  <2>2. QED BY <1>3, <2>1, ShiftLevels, ZenonT(30)
<1>6. Good(c, Tail(todo[c]), Shift(lev[c]))
  <2>1. todo[c][1].op \notin {"readeflags", "mycpu", "swtch"}
    BY <1>3
  <2>2. QED BY <1>3, <2>1, GoodTail
<1>7. QED BY <1>2, <1>3, <1>4, <1>5, <1>6, ZenonT(30)

\* Its next step replaced.
LEMMA Replaced ==
  ASSUME NEW c \in Cpu, NEW s, NEW L, Good(c, s, L), L[1] = Switched, NEW op \in {"choose", "clear"}
  PROVE  \E M \in [Nat -> Level] : Good(c, << Step(op) >> \o s, M) /\ M[1] = Switched
<1> DEFINE p == << Step(op) >>
<1>1. Flow(op, None, Switched, Switched)
  BY ZenonT(30) DEF Flow
<1>2. op \in Plain /\ op \in Quiet(c) /\ Switched \in Level /\ Switched.f \subseteq Off
  BY PlainOps, BaseLevels DEF Quiet, OpsOf, Off
<1>3. Path(p, Quiet(c), Off, Switched, L[1])
  BY <1>1, <1>2, PathPlain
<1>4. s # << >> => s[1].op # "cpuproc"
  BY CpuCode
<1> HIDE DEF p
<1>5. Starts(c, p \o s, Switched)
  BY <1>3, <1>4, GoodJoin
<1>6. QED BY <1>5 DEF Starts, p

LEMMA SchedulerStep ==
  ASSUME SpinInv, NEW c \in Cpu, SchedulerReturn(c) \/ SchedulerDone(c)
  PROVE  SpinInv'
<1>1. PICK lev : Held(lev)
  BY DEF SpinInv
<1> DEFINE s == Tail(todo[c])
           L == Shift(lev[c])
<1>2. PICK op \in {"choose", "clear"} :
        At(c, op) /\ (op = "choose" => SchedulerDone(c)) /\ (op = "clear" => SchedulerReturn(c))
  BY ZenonT(30) DEF SchedulerReturn, SchedulerDone
<1>3. /\ run[c] = c /\ c \in Context /\ L \in [Nat -> Level] /\ L[1] = Switched /\ lev[c][1] = Switched
      /\ Good(c, s, L) /\ Fits(c, ncli[c], iflag[c], intena[c], todo[c], Switched)
      /\ op = "choose" => proc[c] = None
  BY <1>1, <1>2, AtScheduler
<1> HIDE DEF L
<1>4. \E t, M : /\ M \in [Nat -> Level] /\ Good(c, t, M) /\ M[1] = Switched
                /\ todo' = [todo EXCEPT ![c] = t]
  <2>1. CASE op = "choose"
    <3>1. Path(scheduler, Quiet(c), BOOLEAN, EndOf(c), EndOf(c))
      BY PathScheduler DEF Quiet, OpsOf, EndOf
    <3>2. PICK M \in [Nat -> Level] : Good(c, s \o scheduler, M) /\ M[1] = L[1]
      BY <1>3, <3>1, GoodAppend
    <3>3. todo' = [todo EXCEPT ![c] = s \o scheduler]
      BY <1>2, <2>1 DEF SchedulerDone
    <3>4. QED BY <1>3, <3>2, <3>3, ZenonT(30)
  <2>2. CASE op = "clear"
    <3>1. PICK M \in [Nat -> Level] : Good(c, << Step("choose") >> \o s, M) /\ M[1] = Switched
      BY <1>3, Replaced
    <3>2. todo' = [todo EXCEPT ![c] = << Step("choose") >> \o s]
      BY <1>2, <2>2 DEF SchedulerReturn
    <3>3. QED BY <3>1, <3>2, ZenonT(30)
  <2>3. QED BY <1>2, <2>1, <2>2
<1>5. PICK t, M : /\ M \in [Nat -> Level] /\ Good(c, t, M) /\ M[1] = Switched
                  /\ todo' = [todo EXCEPT ![c] = t]
  BY <1>4, ZenonT(30)
<1>6. UNCHANGED <<lockVars, cliVars, run>>
  BY <1>2 DEF SchedulerReturn, SchedulerDone
<1>7. proc' = [proc EXCEPT ![c] = None]
  <2>1. CASE op = "choose"
    BY <1>2, <1>3, <2>1, SameCpu DEF SchedulerDone
  <2>2. CASE op = "clear"
    BY <1>2, <2>2 DEF SchedulerReturn
  <2>3. QED BY <1>2, <2>1, <2>2
<1>8. Fits(c, ncli[c], iflag[c], intena[c], t, M[1])
  <2>1. t # << >> => t[1].op # "cpuproc"
    BY <1>5, CpuCode
  <2>2. QED BY <1>3, <1>5, <2>1 DEF Fits
<1>9. Local(c, t, M, ncli[c], iflag[c], intena[c], None)
  <2>1. /\ ncli' = [ncli EXCEPT ![c] = ncli[c]] /\ iflag' = [iflag EXCEPT ![c] = iflag[c]]
        /\ intena' = [intena EXCEPT ![c] = intena[c]] /\ run' = run
    BY <1>6, SameCpu, ZenonT(30) DEF cliVars
  <2>2. QED BY <1>3, <1>5, <1>7, <1>8, <2>1 DEF Local
<1>10. LockStep(c, lev[run[c]][1], M[1])
  BY <1>1, <1>3, <1>5, <1>6, SameLocks, ZenonT(30)
<1>11. QED BY <1>1, <1>9, <1>10, LocalStep, ZenonT(30)

LEMMA SyscallStep ==
  ASSUME SpinInv, NEW c \in Cpu, syscall(c)
  PROVE  SpinInv'
<1>1. PICK lev : Held(lev)
  BY DEF SpinInv
<1> DEFINE x == run[c]
<1>2. x \in Thread /\ todo[x] = << >> /\ x \in Context /\ x \notin Cpu
  BY SpinlockConstants DEF syscall, UserMode, Context
<1>3. Good(x, todo[x], lev[x]) /\ lev[x][1] = User
  <2>1. Good(x, todo[x], lev[x])
    BY <1>1, <1>2 DEF Held, Levels
  <2>2. Len(todo[x]) + 1 = 1
    BY <1>2
  <2>3. lev[x][Len(todo[x]) + 1] = EndOf(x)
    BY <2>1 DEF Good
  <2>4. EndOf(x) = User
    BY <1>2 DEF EndOf
  <2>5. QED BY <2>1, <2>2, <2>3, <2>4
<1>4. PICK body \in {nested, sleep, myproc} : todo' = [todo EXCEPT ![x] = body \o << Step("sysret") >>]
  BY ZenonT(30) DEF syscall
<1> DEFINE t == body \o << Step("sysret") >>
<1>5. Path(t, Quiet(x), BOOLEAN, User, EndOf(x))
  BY <1>2, PathSyscall DEF Quiet, OpsOf, EndOf
<1>6. todo' = [todo EXCEPT ![x] = t]
  BY <1>4
<1> HIDE DEF t
<1>7. PICK M \in [Nat -> Level] : Good(x, t, M) /\ M[1] = User
  BY <1>5, GoodPath
<1>8. t # << >> => t[1].op # "cpuproc"
  BY <1>5, GoodPath
<1>9. UNCHANGED <<lockVars, cliVars, proc, run>>
  BY DEF syscall
<1>10. Fits(c, ncli[c], iflag[c], intena[c], t, M[1])
  <2>1. Fits(c, ncli[c], iflag[c], intena[c], todo[x], lev[x][1])
    BY <1>1, ZenonT(30) DEF Held, Matches
  <2>2. QED BY <1>3, <1>7, <1>8, <2>1, ZenonT(30) DEF Fits
<1>11. x # c /\ proc[c] = x
  BY <1>1, <1>2 DEF Held, Parked
<1>12. Local(c, t, M, ncli[c], iflag[c], intena[c], proc[c])
  <2>1. /\ ncli' = [ncli EXCEPT ![c] = ncli[c]] /\ iflag' = [iflag EXCEPT ![c] = iflag[c]]
        /\ intena' = [intena EXCEPT ![c] = intena[c]] /\ proc' = [proc EXCEPT ![c] = proc[c]]
        /\ proc[c] \in Thread \cup {None} /\ run' = run
    BY <1>9, SameCpu, ZenonT(30) DEF cliVars
  <2>2. QED BY <1>6, <1>7, <1>10, <1>11, <2>1 DEF Local
<1>13. LockStep(c, lev[run[c]][1], M[1])
  BY <1>1, <1>3, <1>7, <1>9, SameLocks, ZenonT(30)
<1>14. QED BY <1>1, <1>12, <1>13, LocalStep

\* Where an interrupt is taken, the CPU holds no lock; the scheduler, whose
\* CPU has a process, takes none.
LEMMA Interrupted ==
  ASSUME SpinInv, NEW lev, Held(lev), NEW c \in Cpu, iflag[c]
  PROVE  /\ Good(run[c], todo[run[c]], lev[run[c]]) /\ Open(lev[run[c]][1])
         /\ lev[run[c]][1].n = 0 /\ lev[run[c]][1].h = {} /\ lev[run[c]][1].o = {} /\ ncli[c] = 0
         /\ run[c] # c => proc[c] = run[c]
         /\ run[c] = c => proc[c] = None
<1> DEFINE x == run[c]
           A == lev[x][1]
<1>1. Good(x, todo[x], lev[x]) /\ Fits(c, ncli[c], iflag[c], intena[c], todo[x], A) /\ A \in Level
  BY Contexts, ZenonT(30) DEF Held, Levels, Matches
<1>2. ncli[c] = A.n /\ iflag[c] \in A.f
  BY <1>1, ZenonT(30) DEF Fits
<1>3. Open(A)
  <2>1. iflag[c] = TRUE
    BY SameCpu
  <2>2. QED BY <1>2, <2>1, ZenonT(30) DEF Open
<1>4. ~(A.f \subseteq {FALSE})
  BY <1>3, Zenon DEF Open
<1>5. A.n = 0
  <2>1. A.n \in 0 .. 2 /\ ~(A.n > 0)
    BY <1>1, <1>4, LevelOf, ZenonT(30)
  <2>2. QED BY <2>1
<1>6. A.h = {} /\ A.o = {}
  BY <1>1, <1>5, LevelOf, ZenonT(30)
<1>7. x # c => proc[c] = x
  BY DEF Held, Parked
<1>8. ASSUME x = c, proc[c] # None PROVE FALSE
  <2>1. todo[c] # << >> /\ todo[c][1].op = "clear"
    BY <1>8 DEF Held, Parked
  <2>2. Ann(todo[c], lev[c], OpsOf(c))
    BY <1>1, <1>8 DEF Good
  <2>3. todo[c] \in Seq(Steps) /\ 1 \in 1 .. Len(todo[c]) /\ 1 + 1 = 2
    BY <2>1, <2>2 DEF Ann
  <2>4. Flow("clear", todo[c][1].lk, lev[c][1], lev[c][2])
    BY <2>1, <2>2, <2>3, ZenonT(30) DEF Ann
  <2>5. A = Switched
    BY <1>8, <2>4, ZenonT(30) DEF Flow
  <2>6. QED BY <1>5, <2>5, BaseLevels
<1>9. QED BY <1>1, <1>2, <1>3, <1>5, <1>6, <1>7, <1>8

LEMMA TimerStep ==
  ASSUME SpinInv, NEW c \in Cpu, TimerInterrupt(c)
  PROVE  SpinInv'
<1>1. PICK lev : Held(lev)
  BY DEF SpinInv
<1> DEFINE x == run[c]
           s == todo[x]
           i == << Step("iret") >>
           X == IF c = Cpu0 THEN wakeupTicks ELSE << >>
           Y == IF proc[c] # None THEN yield ELSE << >>
           t == X \o Y \o i \o s
<1>2. iflag[c]
  BY ZenonT(30) DEF TimerInterrupt
<1>3. /\ Good(x, s, lev[x]) /\ Open(lev[x][1])
      /\ lev[x][1].h = {} /\ lev[x][1].o = {} /\ ncli[c] = 0
      /\ x # c => proc[c] = x
      /\ x = c => proc[c] = None
  BY <1>1, <1>2, Interrupted
<1>4. x \in Thread \cup {c} /\ (x \in Cpu => x = c)
  BY <1>1, Contexts, SpinlockConstants
<1>5. PICK L \in [Nat -> Level] : Good(x, i \o s, L) /\ L[1] = Handler
  BY <1>3, GoodIret
<1>6. i \o s # << >> /\ (i \o s)[1].op # "cpuproc"
  BY <1>3, GoodIret
<1>7. Path(X \o Y, Quiet(x), Off, Handler, Handler)
  <2>1. X \in {wakeupTicks, << >>} /\ (Y = << >> \/ (Y = yield /\ x \notin Cpu))
    BY <1>3, <1>4
  <2> HIDE DEF X, Y
  <2>2. QED BY <2>1, PathHandler, Zenon
<1>8. t = (X \o Y) \o (i \o s)
  <2>1. X \o Y \in Seq(Steps)
    BY <1>7, ZenonT(30) DEF Path, Ann
  <2>2. s \in Seq(Steps)
    BY <1>3 DEF Good, Ann
  <2>3. i \in Seq(Steps)
    <3>1. "iret" \in CpuOps
      BY DEF CpuOps
    <3>2. Step("iret") \in Steps
      BY <3>1, StepTypes
    <3>3. QED BY <3>2
  <2> HIDE DEF X, Y, i, s
  <2> DEFINE p == X \o Y
  <2>0. p \in Seq(Steps)
    BY <2>1
  <2> HIDE DEF p
  <2>4. (p \o i) \o s = p \o (i \o s)
    BY SMTT(30), <2>0, <2>2, <2>3, JoinAssoc
  <2>5. QED BY <2>4 DEF t, p
<1>9. todo' = [todo EXCEPT ![x] = t] /\ UNCHANGED <<lockVars, ncli, intena, proc, run>>
  BY DEF TimerInterrupt
<1> HIDE DEF X, Y, i
<1>10. Starts(x, t, Handler)
  <2> DEFINE p == X \o Y
             u == i \o s
  <2>1. Path(p, Quiet(x), Off, Handler, L[1]) /\ Good(x, u, L) /\ u[1].op # "cpuproc"
    BY <1>5, <1>6, <1>7
  <2> HIDE DEF p, u
  <2>2. Starts(x, p \o u, Handler)
    BY <2>1, GoodJoin
  <2>3. QED BY <1>8, <2>2 DEF p, u
<1>11. PICK M \in [Nat -> Level] : Good(x, t, M) /\ M[1] = Handler
  BY <1>10 DEF Starts
<1>110. t # << >> => t[1].op # "cpuproc"
  BY <1>10, ZenonT(30) DEF Starts
<1> HIDE DEF t
<1>12. PICK fl : fl \in M[1].f /\ iflag' = [iflag EXCEPT ![c] = fl]
  <2>1. FALSE \in M[1].f
    BY <1>11, BaseLevels
  <2>2. iflag' = [iflag EXCEPT ![c] = FALSE]
    BY DEF TimerInterrupt
  <2>3. QED BY <2>1, <2>2, ZenonT(30)
<1>13. M[1].n = 0 /\ M[1].h = {} /\ M[1].o = {} /\ M[1].e = BOOLEAN
  BY <1>11, BaseLevels
<1>14. Fits(c, ncli[c], fl, intena[c], t, M[1])
  BY <1>3, <1>110, <1>12, <1>13, SameCpu DEF Fits
<1>15. Local(c, t, M, ncli[c], fl, intena[c], proc[c])
  <2>1. /\ ncli' = [ncli EXCEPT ![c] = ncli[c]] /\ intena' = [intena EXCEPT ![c] = intena[c]]
        /\ proc' = [proc EXCEPT ![c] = proc[c]] /\ proc[c] \in Thread \cup {None} /\ run' = run
    BY <1>9, SameCpu
  <2>2. QED BY <1>3, <1>9, <1>11, <1>12, <1>14, <2>1, ZenonT(30) DEF Local
<1>16. LockStep(c, lev[run[c]][1], M[1])
  BY <1>1, <1>3, <1>9, <1>13, SameLocks, ZenonT(30)
<1>17. QED BY <1>1, <1>15, <1>16, LocalStep, ZenonT(30)
=============================================================================
