---------------------------- MODULE SpinlockPaths ----------------------------
(* Proofs about Spinlock, for any number of CPUs and threads.                *)
(*                                                                           *)
(* The code of a context is annotated: every step still to be executed has a *)
(* level, what the context may count on when it gets there.  The annotation  *)
(* is a witness whose existence is the inductive invariant: a step drops the *)
(* first level, an interrupt puts the levels of the handler in front.        *)
EXTENDS Spinlock, TLAPS

\* The provers get more time than by default.
USE SMTT(30)

-----------------------------------------------------------------------------
(* Levels and annotations *)

LockOps == {"readeflags", "cli", "xchg", "own", "disown", "unlock", "popcli"}
CpuOps == LockOps \cup {"iret", "sti", "choose", "clear"}
ThreadOps == LockOps \cup {"iret", "mycpu", "cpuproc", "swtch", "resume", "sysret", "newret"}
OpsOf(x) == IF x \in Cpu THEN CpuOps ELSE ThreadOps
Quiet(x) == OpsOf(x) \ {"iret"}
Steps == [op : CpuOps \cup ThreadOps, lk : Lock \cup {None}, val : BOOLEAN \cup Cpu \cup {None}]

\* n: ncli of the CPU.  h: the locks held.  o: those of them that have the CPU
\* for an owner.  f and e: what FL_IF and intena may be.
Level ==
  {A \in [n : 0 .. 2, h : SUBSET Lock, o : SUBSET Lock, f : SUBSET BOOLEAN, e : SUBSET BOOLEAN] :
     /\ A.o \subseteq A.h
     /\ A.n > 0 => A.f \subseteq {FALSE}
     /\ A.n = 0 => A.h = {} /\ A.e = BOOLEAN}

\* No lock held; one; two, m inside l.
Base(f) == [n |-> 0, h |-> {}, o |-> {}, f |-> f, e |-> BOOLEAN]
One(l, e) == [n |-> 1, h |-> {l}, o |-> {l}, f |-> {FALSE}, e |-> e]
Two(l, m, e) == [n |-> 2, h |-> {l, m}, o |-> {l, m}, f |-> {FALSE}, e |-> e]

User == Base({TRUE})
Handler == Base({FALSE})
Idle == Base(BOOLEAN)
\* Where swtch() arrives.
Switched == One("ptable", BOOLEAN)
EndOf(x) == IF x \in Cpu THEN Idle ELSE User

\* Step op, on lock lk, is safe at level A and leads to level B.
Flow(op, lk, A, B) ==
  /\ op = "readeflags" => B = A
  /\ op = "cli" =>
       /\ A.n < 2 /\ B.n = A.n + 1 /\ B.h = A.h /\ B.o = A.o
       /\ FALSE \in B.f /\ (IF A.n = 0 THEN A.f ELSE A.e) \subseteq B.e
  /\ op = "xchg" =>
       /\ lk \in Lock \ A.h
       /\ B.n = A.n /\ B.h = A.h \cup {lk} /\ B.o = A.o /\ B.f = A.f /\ B.e = A.e
  /\ op = "own" =>
       /\ lk \in A.h
       /\ B.n = A.n /\ B.h = A.h /\ B.o = A.o \cup {lk} /\ B.f = A.f /\ B.e = A.e
  /\ op = "disown" =>
       /\ lk \in A.o
       /\ B.n = A.n /\ B.h = A.h /\ B.o = A.o \ {lk} /\ B.f = A.f /\ B.e = A.e
  /\ op = "unlock" =>
       /\ lk \in A.h \ A.o
       /\ B.n = A.n /\ B.h = A.h \ {lk} /\ B.o = A.o /\ B.f = A.f /\ B.e = A.e
  /\ op = "popcli" =>
       /\ A.n > 0 /\ B.n = A.n - 1 /\ B.h = A.h /\ B.o = A.o /\ A.e \subseteq B.e
       /\ IF A.n = 1 THEN A.e \subseteq B.f ELSE FALSE \in B.f
  /\ op \in {"mycpu", "cpuproc"} => A.f \subseteq {FALSE} /\ B = A
  /\ op = "swtch" =>
       A.n = 1 /\ A.h = {"ptable"} /\ A.o = {"ptable"} /\ A.f \subseteq {FALSE} /\ B = Switched
  /\ op = "resume" =>
       A = Switched /\ B.n = 1 /\ B.h = A.h /\ B.o = A.o /\ B.f = A.f
  /\ op \in {"choose", "clear"} => A = Switched /\ B = Switched
  /\ op \in {"sti", "iret", "sysret", "newret"} => A.n = 0 /\ B.n = 0 /\ TRUE \in B.f
  /\ op = "sysret" => A.f \subseteq {TRUE}

\* A step that uses a value has it, or comes after the step that reads it.
Given(s, L, i) ==
  /\ s[i].op = "readeflags" => i < Len(s) /\ s[i + 1].op = "cli"
  /\ s[i].op = "mycpu" => i < Len(s) /\ s[i + 1].op = "cpuproc"
  /\ s[i].op = "swtch" => i < Len(s) /\ s[i + 1].op = "resume" /\ L[i].e \subseteq L[i + 2].e
  /\ s[i].op = "cli" => s[i].val \in L[i].f \/ (i > 1 /\ s[i - 1].op = "readeflags")
  /\ s[i].op = "resume" => s[i].val \in L[i + 1].e \/ (i > 1 /\ s[i - 1].op = "swtch")
  /\ s[i].op = "cpuproc" => i = 1 \/ s[i - 1].op = "mycpu"

\* L annotates s, of which every operation is in K.
Ann(s, L, K) ==
  /\ s \in Seq(Steps) /\ L \in [Nat -> Level]
  /\ \A i \in 1 .. Len(s) : s[i].op \in K /\ Flow(s[i].op, s[i].lk, L[i], L[i + 1]) /\ Given(s, L, i)

\* No interrupt is taken between here and the return from the one before.
Masked(s, L) ==
  \A k \in 1 .. Len(s) : s[k].op = "iret" => \A i \in 1 .. k : L[i].f \subseteq {FALSE}

\* Some annotation of s starts at A, ends at B, and keeps FL_IF in F.
Path(s, K, F, A, B) ==
  \E L \in [Nat -> Level] :
    /\ Ann(s, L, K) /\ L[1] = A /\ L[Len(s) + 1] = B
    /\ \A i \in 1 .. Len(s) + 1 : L[i].f \subseteq F
    /\ s # << >> => s[1].op # "cpuproc"

-----------------------------------------------------------------------------
(* The inductive invariant *)

\* L annotates the steps s that context x has left.
Good(x, s, L) ==
  Ann(s, L, OpsOf(x)) /\ L[Len(s) + 1] = EndOf(x) /\ Masked(s, L)

\* CPU c, its ncli, FL_IF and intena as given, is as level A says, at steps s.
Fits(c, nc, fl, ie, s, A) ==
  /\ nc = A.n /\ fl \in A.f /\ ie \in A.e
  /\ s # << >> => (s[1].op = "cpuproc" => s[1].val = c)

\* What the levels say of every context, and of the CPU that runs it.
Levels(td, lev) ==
  lev \in [Context -> [Nat -> Level]] /\ \A x \in Context : Good(x, td[x], lev[x])

Matches(nc, fl, ie, rn, td, lev) ==
  \A c \in Cpu : Fits(c, nc[c], fl[c], ie[c], td[rn[c]], lev[rn[c]][1])

\* A scheduler that waits for its thread, and a thread that waits for a CPU.
Parked(rn, pr, td, lev) ==
  /\ \A c, d \in Cpu : rn[c] = rn[d] => c = d
  /\ \A c \in Cpu : rn[c] # c => pr[c] = rn[c]
  /\ \A c \in Cpu : rn[c] # c \/ pr[c] # None => td[c] # << >> /\ td[c][1].op = "clear"
  /\ \A t \in Thread : (\A c \in Cpu : rn[c] # t) =>
       td[t] # << >> /\ td[t][1].op \in {"resume", "disown"} /\ lev[t][1] = Switched

\* The locks are those of the contexts that run.
LocksMatch(lk, ow, rn, lev) ==
  /\ \A l \in Lock : lk[l] <=> \E c \in Cpu : l \in lev[rn[c]][1].h
  /\ \A l \in Lock : \A c, d \in Cpu : l \in lev[rn[c]][1].h /\ l \in lev[rn[d]][1].h => c = d
  /\ \A l \in Lock : \A c \in Cpu : ow[l] = c <=> l \in lev[rn[c]][1].o

Held(lev) ==
  /\ Levels(todo, lev)
  /\ Matches(ncli, iflag, intena, run, todo, lev)
  /\ Parked(run, proc, todo, lev)
  /\ LocksMatch(locked, owner, run, lev)

SpinInv ==
  /\ TypeOK /\ run \in [Cpu -> Context] /\ todo \in [Context -> Seq(Steps)]
  /\ \E lev : Held(lev)

-----------------------------------------------------------------------------
(* Annotations of parts *)

Shift(L) == [i \in Nat |-> L[i + 1]]
\* Levels L for n steps, then M.
Splice(L, n, M) == [i \in Nat |-> IF i <= n THEN L[i] ELSE M[i - n]]

\* What is left after the first step.
LEMMA TailSeq ==
  ASSUME NEW S, NEW s \in Seq(S), s # << >>
  PROVE  /\ Tail(s) \in Seq(S) /\ Len(Tail(s)) = Len(s) - 1 /\ Len(s) \in Nat \ {0}
         /\ Head(s) = s[1] /\ s[1] \in S
         /\ \A i \in 1 .. Len(s) - 1 : Tail(s)[i] = s[i + 1]
OBVIOUS

LEMMA FromThird ==
  ASSUME NEW S, NEW s \in Seq(S), NEW n \in Nat, n = Len(s), n >= 2
  PROVE  /\ SubSeq(s, 3, n) \in Seq(S) /\ Len(SubSeq(s, 3, n)) = n - 2
         /\ \A i \in 1 .. n - 2 : SubSeq(s, 3, n)[i] = s[i + 2]
OBVIOUS

\* What is left after the first step when it puts a value into the second one.
LEMMA WithSeq ==
  ASSUME NEW S, NEW s \in Seq(S), Len(s) >= 2, NEW e \in S
  PROVE  /\ << e >> \o SubSeq(s, 3, Len(s)) \in Seq(S)
         /\ Len(<< e >> \o SubSeq(s, 3, Len(s))) = Len(s) - 1
         /\ (<< e >> \o SubSeq(s, 3, Len(s)))[1] = e
         /\ \A i \in 2 .. Len(s) - 1 : (<< e >> \o SubSeq(s, 3, Len(s)))[i] = s[i + 1]
<1> DEFINE t == SubSeq(s, 3, Len(s))
<1>0. Len(s) \in Nat
  OBVIOUS
<1>1. t \in Seq(S) /\ Len(t) = Len(s) - 2 /\ \A i \in 1 .. Len(s) - 2 : t[i] = s[i + 2]
  BY <1>0, FromThird, ZenonT(30)
<1> HIDE DEF t
<1>2. << e >> \in Seq(S) /\ Len(<< e >>) = 1 /\ << e >>[1] = e
  OBVIOUS
<1>3. /\ << e >> \o t \in Seq(S) /\ Len(<< e >> \o t) = Len(s) - 1
      /\ (<< e >> \o t)[1] = e
      /\ \A i \in 2 .. Len(s) - 1 : (<< e >> \o t)[i] = t[i - 1]
  BY <1>1, <1>2
<1>4. QED BY <1>1, <1>3 DEF t

\* A concatenation step by step.
LEMMA JoinSeq ==
  ASSUME NEW S, NEW s \in Seq(S), NEW t \in Seq(S), NEW n \in Nat, n = Len(s), NEW k \in Nat, k = Len(t)
  PROVE  /\ s \o t \in Seq(S) /\ Len(s \o t) = n + k
         /\ \A i \in 1 .. n : (s \o t)[i] = s[i]
         /\ \A i \in 1 .. k : (s \o t)[n + i] = t[i]
OBVIOUS

LEMMA ShiftLevels ==
  ASSUME NEW L \in [Nat -> Level]
  PROVE  Shift(L) \in [Nat -> Level] /\ \A i \in Nat : Shift(L)[i] = L[i + 1]
BY DEF Shift

LEMMA SpliceLevels ==
  ASSUME NEW L \in [Nat -> Level], NEW M \in [Nat -> Level], NEW n \in Nat, L[n + 1] = M[1]
  PROVE  /\ Splice(L, n, M) \in [Nat -> Level]
         /\ \A i \in 1 .. n + 1 : Splice(L, n, M)[i] = L[i]
         /\ \A i \in Nat : i > 0 => Splice(L, n, M)[n + i] = M[i]
BY DEF Splice

\* After a step that reads no value.
LEMMA AnnTail ==
  ASSUME NEW s, NEW L, NEW K, Ann(s, L, K), s # << >>,
         s[1].op \notin {"readeflags", "mycpu", "swtch"}
  PROVE  Ann(Tail(s), Shift(L), K)
<1>1. /\ s \in Seq(Steps) /\ L \in [Nat -> Level]
      /\ \A i \in 1 .. Len(s) : s[i].op \in K /\ Flow(s[i].op, s[i].lk, L[i], L[i + 1]) /\ Given(s, L, i)
  BY DEF Ann
<1>2. /\ Tail(s) \in Seq(Steps) /\ Len(Tail(s)) = Len(s) - 1 /\ Len(s) \in Nat \ {0}
      /\ \A i \in 1 .. Len(s) - 1 : Tail(s)[i] = s[i + 1]
  BY <1>1, TailSeq
<1>3. Shift(L) \in [Nat -> Level] /\ \A i \in Nat : Shift(L)[i] = L[i + 1]
  BY <1>1, ShiftLevels
<1>4. ASSUME NEW i \in 1 .. Len(s) - 1
      PROVE  /\ Tail(s)[i].op \in K /\ Flow(Tail(s)[i].op, Tail(s)[i].lk, Shift(L)[i], Shift(L)[i + 1])
             /\ Given(Tail(s), Shift(L), i)
  <2>1. i \in Nat /\ i + 1 \in 1 .. Len(s) /\ i + 1 \in Nat
    BY <1>2
  <2>2. Tail(s)[i] = s[i + 1] /\ Shift(L)[i] = L[i + 1] /\ Shift(L)[i + 1] = L[i + 1 + 1]
    BY <1>2, <1>3, <2>1, ZenonT(30)
  <2>3. Tail(s)[i].op \in K /\ Flow(Tail(s)[i].op, Tail(s)[i].lk, Shift(L)[i], Shift(L)[i + 1])
    BY <1>1, <2>1, <2>2
  <2>4. Given(s, L, i + 1)
    BY <1>1, <2>1
  <2>5. i < Len(s) - 1 => Tail(s)[i + 1] = s[i + 1 + 1]
    BY <1>2, <2>1
  <2>9. Shift(L)[i + 2] = L[i + 1 + 2] /\ i + 1 - 1 = i /\ i + 1 > 1 /\ i + 1 # 1
        /\ (i + 1 < Len(s) <=> i < Len(s) - 1)
    <3>1. i + 2 \in Nat /\ i + 2 + 1 = i + 1 + 2
      BY <2>1
    <3>2. Shift(L)[i + 2] = L[i + 2 + 1]
      BY <1>3, <3>1, ZenonT(30)
    <3>3. i + 1 - 1 = i /\ i + 1 > 1 /\ i + 1 # 1
      BY <2>1
    <3>4. Len(s) \in Nat
      BY <1>2
    <3>5. i + 1 < Len(s) <=> i < Len(s) - 1
      BY <2>1, <3>4
    <3>6. QED BY <3>1, <3>2, <3>3, <3>5
  <2>6. s[i + 1].op = "cli" => s[i + 1].val \in L[i + 1].f \/ s[i].op = "readeflags"
    BY <2>4, <2>9 DEF Given
  <2>7. s[i + 1].op = "resume" => s[i + 1].val \in L[i + 1 + 1].e \/ s[i].op = "swtch"
    BY <2>4, <2>9 DEF Given
  <2>8. s[i + 1].op = "cpuproc" => s[i].op = "mycpu"
    BY <2>4, <2>9 DEF Given
  <2>10. i = 1 \/ (i > 1 /\ Tail(s)[i - 1] = s[i])
    <3>1. i > 1 => i - 1 \in 1 .. Len(s) - 1 /\ i - 1 + 1 = i
      BY <1>2, <2>1
    <3>2. i > 1 => Tail(s)[i - 1] = s[i]
      BY <1>2, <3>1
    <3>3. QED BY <2>1, <3>2
  <2>11. i < Len(Tail(s)) <=> i + 1 < Len(s)
    BY <1>2, <2>9
  <2>12. i + 1 < Len(s) => Tail(s)[i + 1].op = s[i + 1 + 1].op
    BY <2>5, <2>9
  <2>15. /\ s[i + 1].op = "readeflags" => i + 1 < Len(s) /\ s[i + 1 + 1].op = "cli"
         /\ s[i + 1].op = "mycpu" => i + 1 < Len(s) /\ s[i + 1 + 1].op = "cpuproc"
         /\ s[i + 1].op = "swtch" => i + 1 < Len(s) /\ s[i + 1 + 1].op = "resume" /\ L[i + 1].e \subseteq L[i + 1 + 2].e
    BY <2>4 DEF Given
  <2>16. /\ Tail(s)[i].op = "readeflags" => i < Len(Tail(s)) /\ Tail(s)[i + 1].op = "cli"
         /\ Tail(s)[i].op = "mycpu" => i < Len(Tail(s)) /\ Tail(s)[i + 1].op = "cpuproc"
         /\ Tail(s)[i].op = "swtch" => i < Len(Tail(s)) /\ Tail(s)[i + 1].op = "resume" /\ Shift(L)[i].e \subseteq Shift(L)[i + 2].e
    BY <2>2, <2>9, <2>11, <2>12, <2>15
  <2>13. Given(Tail(s), Shift(L), i)
    <3>1. /\ Tail(s)[i].op = "cli" => Tail(s)[i].val \in Shift(L)[i].f \/ (i > 1 /\ Tail(s)[i - 1].op = "readeflags")
          /\ Tail(s)[i].op = "resume" => Tail(s)[i].val \in Shift(L)[i + 1].e \/ (i > 1 /\ Tail(s)[i - 1].op = "swtch")
          /\ Tail(s)[i].op = "cpuproc" => i = 1 \/ Tail(s)[i - 1].op = "mycpu"
      BY <2>2, <2>6, <2>7, <2>8, <2>10
    <3>2. QED BY <2>16, <3>1, Zenon DEF Given
  <2>14. QED BY <2>3, <2>13
<1>5. QED BY <1>2, <1>3, <1>4 DEF Ann

\* What is left of s after its first step, the value v put into the second.
Put(s, v) == << [s[2] EXCEPT !.val = v] >> \o SubSeq(s, 3, Len(s))

\* At L, the first step of s may read v.
Reads(s, L, v) ==
  /\ s # << >> /\ s[1].op \in {"readeflags", "mycpu", "swtch"} /\ v \in BOOLEAN \cup Cpu \cup {None}
  /\ s[1].op = "readeflags" => v \in L[2].f
  /\ s[1].op = "swtch" => v \in L[1].e

\* And the rest is annotated by the levels that are left.
After(s, L, v, K) ==
  /\ Len(s) >= 2
  /\ Put(s, v) # << >>
  /\ Put(s, v)[1].op = s[2].op /\ Put(s, v)[1].val = v
  /\ s[2] \in Steps
  /\ s[1].op = "readeflags" => s[2].op = "cli"
  /\ s[1].op = "mycpu" => s[2].op = "cpuproc"
  /\ s[1].op = "swtch" => s[2].op = "resume"
  /\ Len(Put(s, v)) = Len(s) - 1
  /\ \A i \in 2 .. Len(s) - 1 : Put(s, v)[i] = s[i + 1]
  /\ Ann(Put(s, v), Shift(L), K)

\* After a step that reads a value for the next one.
LEMMA AnnWith ==
  ASSUME NEW s, NEW L, NEW K, NEW v, Ann(s, L, K), Reads(s, L, v)
  PROVE  After(s, L, v, K)
<1> DEFINE e == [s[2] EXCEPT !.val = v]
           t == << e >> \o SubSeq(s, 3, Len(s))
<1> USE DEF Reads
<1>1. /\ s \in Seq(Steps) /\ L \in [Nat -> Level]
      /\ \A i \in 1 .. Len(s) : s[i].op \in K /\ Flow(s[i].op, s[i].lk, L[i], L[i + 1]) /\ Given(s, L, i)
  BY DEF Ann
<1>2. /\ Len(s) \in Nat /\ Len(s) >= 2 /\ s[2] \in Steps
      /\ s[1].op = "readeflags" => s[2].op = "cli"
      /\ s[1].op = "mycpu" => s[2].op = "cpuproc"
      /\ s[1].op = "swtch" => s[2].op = "resume"
  BY <1>1 DEF Given
<1>3. e \in Steps /\ e.op = s[2].op /\ e.lk = s[2].lk /\ e.val = v
  BY <1>2 DEF Steps
<1> HIDE DEF e
<1>4. /\ t \in Seq(Steps) /\ Len(t) = Len(s) - 1 /\ t[1] = e
      /\ \A i \in 2 .. Len(s) - 1 : t[i] = s[i + 1]
  BY <1>1, <1>2, <1>3, WithSeq
<1> HIDE DEF t
<1>5. Shift(L) \in [Nat -> Level] /\ \A i \in Nat : Shift(L)[i] = L[i + 1]
  BY <1>1, ShiftLevels
<1>6. ASSUME NEW i \in 1 .. Len(s) - 1
      PROVE  t[i].op \in K /\ Flow(t[i].op, t[i].lk, Shift(L)[i], Shift(L)[i + 1]) /\ Given(t, Shift(L), i)
  <2>1. i \in Nat /\ i + 1 \in 1 .. Len(s) /\ i + 1 \in Nat
    BY <1>2
  <2>2. t[i].op = s[i + 1].op /\ t[i].lk = s[i + 1].lk
    <3>1. CASE i = 1
      BY <1>3, <1>4, <3>1
    <3>2. CASE i > 1
      BY <1>4, <2>1, <3>2
    <3>3. QED BY <2>1, <3>1, <3>2
  <2>3. Shift(L)[i] = L[i + 1] /\ Shift(L)[i + 1] = L[i + 1 + 1]
    BY <1>5, <2>1, ZenonT(30)
  <2>4. s[i + 1].op \in K /\ Flow(s[i + 1].op, s[i + 1].lk, L[i + 1], L[i + 1 + 1]) /\ Given(s, L, i + 1)
    BY <1>1, <2>1
  <2>5. t[i].op \in K /\ Flow(t[i].op, t[i].lk, Shift(L)[i], Shift(L)[i + 1])
    BY <2>2, <2>3, <2>4
  <2>6. i < Len(s) - 1 => t[i + 1] = s[i + 1 + 1]
    <3>1. i < Len(s) - 1 => i + 1 \in 2 .. Len(s) - 1
      BY <1>2, <2>1
    <3>2. QED BY <1>4, <3>1
  <2>10. Shift(L)[i + 2] = L[i + 1 + 2] /\ i + 1 - 1 = i /\ i + 1 > 1 /\ i + 1 # 1
        /\ (i + 1 < Len(s) <=> i < Len(s) - 1)
    <3>1. i + 2 \in Nat /\ i + 2 + 1 = i + 1 + 2
      BY <2>1
    <3>2. Shift(L)[i + 2] = L[i + 2 + 1]
      BY <1>5, <3>1, ZenonT(30)
    <3>3. i + 1 - 1 = i /\ i + 1 > 1 /\ i + 1 # 1
      BY <2>1
    <3>4. Len(s) \in Nat
      BY <1>2
    <3>5. i + 1 < Len(s) <=> i < Len(s) - 1
      BY <2>1, <3>4
    <3>6. QED BY <3>1, <3>2, <3>3, <3>5
  <2>11. i < Len(t) <=> i + 1 < Len(s)
    BY <1>4, <2>10
  <2>12. i + 1 < Len(s) => t[i + 1].op = s[i + 1 + 1].op
    BY <2>6, <2>10
  <2>13. /\ s[i + 1].op = "readeflags" => i + 1 < Len(s) /\ s[i + 1 + 1].op = "cli"
         /\ s[i + 1].op = "mycpu" => i + 1 < Len(s) /\ s[i + 1 + 1].op = "cpuproc"
         /\ s[i + 1].op = "swtch" => i + 1 < Len(s) /\ s[i + 1 + 1].op = "resume" /\ L[i + 1].e \subseteq L[i + 1 + 2].e
    BY <2>4 DEF Given
  <2>14. /\ t[i].op = "readeflags" => i < Len(t) /\ t[i + 1].op = "cli"
         /\ t[i].op = "mycpu" => i < Len(t) /\ t[i + 1].op = "cpuproc"
         /\ t[i].op = "swtch" => i < Len(t) /\ t[i + 1].op = "resume" /\ Shift(L)[i].e \subseteq Shift(L)[i + 2].e
    BY <2>2, <2>3, <2>10, <2>11, <2>12, <2>13
  <2>7. CASE i = 1
    <3>1. t[1] = e /\ Shift(L)[1] = L[2] /\ Shift(L)[2] = L[3]
      BY <1>4, <1>5
    <3>2. Given(s, L, 2) /\ Given(s, L, 1) /\ i + 1 = 2
      BY <1>1, <1>2, <2>7
    <3>3. e.op = "cli" => v \in L[2].f
      BY <1>2, <1>3
    <3>4. e.op = "resume" => v \in L[3].e
      <4>1. s[1].op = "swtch" => L[1].e \subseteq L[1 + 2].e /\ v \in L[1].e
        BY <3>2 DEF Given
      <4>2. e.op = "resume" => s[1].op = "swtch"
        BY <1>2, <1>3
      <4>3. QED BY <4>1, <4>2
    <3>5. /\ t[i].op = "cli" => t[i].val \in Shift(L)[i].f
          /\ t[i].op = "resume" => t[i].val \in Shift(L)[i + 1].e
      BY <1>3, <2>7, <3>1, <3>2, <3>3, <3>4
    <3>6. QED BY <2>5, <2>7, <2>14, <3>5, Zenon DEF Given
  <2>8. CASE i > 1
    <3>1. t[i] = s[i + 1] /\ i - 1 \in 1 .. Len(s) - 1
      BY <1>4, <2>1, <2>8
    <3>2. t[i - 1].op = s[i].op
      <4>1. CASE i - 1 = 1
        BY <1>3, <1>4, <2>1, <4>1
      <4>2. CASE i - 1 > 1
        <5>1. i - 1 \in 2 .. Len(s) - 1 /\ i - 1 + 1 = i
          BY <2>1, <3>1, <4>2
        <5>2. QED BY <1>4, <5>1
      <4>3. QED BY <3>1, <4>1, <4>2
    <3>3. /\ s[i + 1].op = "cli" => s[i + 1].val \in L[i + 1].f \/ s[i].op = "readeflags"
          /\ s[i + 1].op = "resume" => s[i + 1].val \in L[i + 1 + 1].e \/ s[i].op = "swtch"
          /\ s[i + 1].op = "cpuproc" => s[i].op = "mycpu"
      BY <2>4, <2>10 DEF Given
    <3>4. /\ t[i].op = "cli" => t[i].val \in Shift(L)[i].f \/ (i > 1 /\ t[i - 1].op = "readeflags")
          /\ t[i].op = "resume" => t[i].val \in Shift(L)[i + 1].e \/ (i > 1 /\ t[i - 1].op = "swtch")
          /\ t[i].op = "cpuproc" => i = 1 \/ t[i - 1].op = "mycpu"
      BY <2>3, <2>8, <3>1, <3>2, <3>3
    <3>5. QED BY <2>5, <2>14, <3>4, Zenon DEF Given
  <2>9. QED BY <2>1, <2>7, <2>8
<1>7. Ann(t, Shift(L), K)
  BY <1>4, <1>5, <1>6 DEF Ann
<1>8. t # << >>
  BY <1>2, <1>4
<1>9. t = Put(s, v)
  BY DEF t, e, Put
<1>10. t[1].op = s[2].op /\ t[1].val = v
  BY <1>2, <1>4 DEF e, Steps
<1>11. QED BY <1>2, <1>4, <1>7, <1>8, <1>9, <1>10 DEF After

\* One annotation after another.
LEMMA AnnJoin ==
  ASSUME NEW s, NEW L, NEW t, NEW M, NEW K, Ann(s, L, K), Ann(t, M, K),
         L[Len(s) + 1] = M[1], t # << >> => t[1].op # "cpuproc"
  PROVE  Ann(s \o t, Splice(L, Len(s), M), K)
<1> DEFINE u == s \o t
<1>0. L \in [Nat -> Level] /\ M \in [Nat -> Level]
  BY DEF Ann
<1>1. /\ s \in Seq(Steps) /\ L \in [Nat -> Level] /\ t \in Seq(Steps) /\ M \in [Nat -> Level]
      /\ \A i \in 1 .. Len(s) : s[i].op \in K /\ Flow(s[i].op, s[i].lk, L[i], L[i + 1]) /\ Given(s, L, i)
      /\ \A i \in 1 .. Len(t) : t[i].op \in K /\ Flow(t[i].op, t[i].lk, M[i], M[i + 1]) /\ Given(t, M, i)
  BY DEF Ann
<1>2. PICK n \in Nat : n = Len(s)
  BY <1>1
<1>3. PICK k \in Nat : k = Len(t)
  BY <1>1
<1> DEFINE N == Splice(L, n, M)
<1>4. /\ u \in Seq(Steps) /\ Len(u) = n + k
      /\ \A i \in 1 .. n : u[i] = s[i]
      /\ \A i \in 1 .. k : u[n + i] = t[i]
  BY <1>1, <1>2, <1>3, JoinSeq
<1>5. /\ N \in [Nat -> Level]
      /\ \A i \in 1 .. n + 1 : N[i] = L[i]
      /\ \A i \in Nat : i > 0 => N[n + i] = M[i]
  <2>1. L[n + 1] = M[1]
    BY <1>2
  <2>2. QED BY <1>0, <2>1, SpliceLevels, ZenonT(30)
<1>6. /\ \A i \in 1 .. n : s[i].op \in K /\ Flow(s[i].op, s[i].lk, L[i], L[i + 1]) /\ Given(s, L, i)
      /\ \A i \in 1 .. k : t[i].op \in K /\ Flow(t[i].op, t[i].lk, M[i], M[i + 1]) /\ Given(t, M, i)
  BY <1>1, <1>2, <1>3
<1> HIDE DEF u, N
<1>7. ASSUME NEW i \in 1 .. n
      PROVE  u[i].op \in K /\ Flow(u[i].op, u[i].lk, N[i], N[i + 1]) /\ Given(u, N, i)
  <2>1. s[i].op \in K /\ Flow(s[i].op, s[i].lk, L[i], L[i + 1]) /\ Given(s, L, i)
    BY <1>6
  <2>2. u[i] = s[i] /\ N[i] = L[i] /\ N[i + 1] = L[i + 1]
    <3>1. i \in 1 .. n + 1 /\ i + 1 \in 1 .. n + 1
      OBVIOUS
    <3>2. QED BY <1>4, <1>5, <3>1
  <2>3. i < n => u[i + 1] = s[i + 1] /\ N[i + 2] = L[i + 2] /\ i < n + k
    <3>1. i < n => i + 1 \in 1 .. n /\ i + 2 \in 1 .. n + 1 /\ i < n + k
      OBVIOUS
    <3>2. QED BY <1>4, <1>5, <3>1, ZenonT(30)
  <2>4. i = 1 \/ (i > 1 /\ u[i - 1] = s[i - 1])
    BY <1>4
  <2>5. /\ s[i].op = "readeflags" => i < n /\ s[i + 1].op = "cli"
        /\ s[i].op = "mycpu" => i < n /\ s[i + 1].op = "cpuproc"
        /\ s[i].op = "swtch" => i < n /\ s[i + 1].op = "resume" /\ L[i].e \subseteq L[i + 2].e
        /\ s[i].op = "cli" => s[i].val \in L[i].f \/ (i > 1 /\ s[i - 1].op = "readeflags")
        /\ s[i].op = "resume" => s[i].val \in L[i + 1].e \/ (i > 1 /\ s[i - 1].op = "swtch")
        /\ s[i].op = "cpuproc" => i = 1 \/ s[i - 1].op = "mycpu"
    BY <1>2, <2>1 DEF Given
  <2>6. /\ u[i].op = "readeflags" => i < Len(u) /\ u[i + 1].op = "cli"
        /\ u[i].op = "mycpu" => i < Len(u) /\ u[i + 1].op = "cpuproc"
        /\ u[i].op = "swtch" => i < Len(u) /\ u[i + 1].op = "resume" /\ N[i].e \subseteq N[i + 2].e
    BY <1>4, <2>2, <2>3, <2>5
  <2>7. /\ u[i].op = "cli" => u[i].val \in N[i].f \/ (i > 1 /\ u[i - 1].op = "readeflags")
        /\ u[i].op = "resume" => u[i].val \in N[i + 1].e \/ (i > 1 /\ u[i - 1].op = "swtch")
        /\ u[i].op = "cpuproc" => i = 1 \/ u[i - 1].op = "mycpu"
    BY <2>2, <2>4, <2>5
  <2>8. QED BY <2>1, <2>2, <2>6, <2>7, Zenon DEF Given
<1>8. ASSUME NEW j \in 1 .. k, NEW i \in Nat, i = n + j
      PROVE  u[i].op \in K /\ Flow(u[i].op, u[i].lk, N[i], N[i + 1]) /\ Given(u, N, i)
  <2>1. t[j].op \in K /\ Flow(t[j].op, t[j].lk, M[j], M[j + 1]) /\ Given(t, M, j)
    BY <1>6
  <2>2. u[i] = t[j] /\ N[i] = M[j]
    <3>1. j \in Nat /\ j > 0
      OBVIOUS
    <3>2. u[n + j] = t[j] /\ N[n + j] = M[j]
      BY <1>4, <1>5, <3>1, ZenonT(30)
    <3>3. QED BY <1>8, <3>2
  <2>3. N[i + 1] = M[j + 1]
    <3>1. j + 1 \in Nat /\ j + 1 > 0 /\ i + 1 = n + (j + 1)
      BY <1>8
    <3>2. QED BY <1>5, <3>1, ZenonT(30)
  <2>4. N[i + 2] = M[j + 2]
    <3>1. j + 2 \in Nat /\ j + 2 > 0 /\ i + 2 = n + (j + 2)
      BY <1>8
    <3>2. QED BY <1>5, <3>1, ZenonT(30)
  <2>5. (i < n + k <=> j < k) /\ (j < k => u[i + 1] = t[j + 1])
    <3>1. (i < n + k <=> j < k) /\ (j < k => j + 1 \in 1 .. k) /\ i + 1 = n + (j + 1)
      BY <1>8
    <3>2. QED BY <1>4, <3>1
  <2>6. j > 1 => i > 1 /\ u[i - 1] = t[j - 1]
    <3>1. j > 1 => i > 1 /\ j - 1 \in 1 .. k /\ i - 1 = n + (j - 1)
      BY <1>8
    <3>2. QED BY <1>4, <3>1, ZenonT(30)
  <2>7. j = 1 => t[j].op # "cpuproc"
    <3>1. k > 0 => t # << >>
      BY <1>1, <1>3
    <3>2. QED BY <3>1
  <2>8. /\ t[j].op = "readeflags" => j < k /\ t[j + 1].op = "cli"
        /\ t[j].op = "mycpu" => j < k /\ t[j + 1].op = "cpuproc"
        /\ t[j].op = "swtch" => j < k /\ t[j + 1].op = "resume" /\ M[j].e \subseteq M[j + 2].e
        /\ t[j].op = "cli" => t[j].val \in M[j].f \/ (j > 1 /\ t[j - 1].op = "readeflags")
        /\ t[j].op = "resume" => t[j].val \in M[j + 1].e \/ (j > 1 /\ t[j - 1].op = "swtch")
        /\ t[j].op = "cpuproc" => j = 1 \/ t[j - 1].op = "mycpu"
    BY <1>3, <2>1 DEF Given
  <2>9. /\ u[i].op = "readeflags" => i < Len(u) /\ u[i + 1].op = "cli"
        /\ u[i].op = "mycpu" => i < Len(u) /\ u[i + 1].op = "cpuproc"
        /\ u[i].op = "swtch" => i < Len(u) /\ u[i + 1].op = "resume" /\ N[i].e \subseteq N[i + 2].e
    BY <1>4, <2>2, <2>4, <2>5, <2>8, ZenonT(30)
  <2>10. /\ u[i].op = "cli" => u[i].val \in N[i].f \/ (i > 1 /\ u[i - 1].op = "readeflags")
         /\ u[i].op = "resume" => u[i].val \in N[i + 1].e \/ (i > 1 /\ u[i - 1].op = "swtch")
         /\ u[i].op = "cpuproc" => i = 1 \/ u[i - 1].op = "mycpu"
    <3>1. j = 1 \/ j > 1
      OBVIOUS
    <3>2. QED BY <2>2, <2>3, <2>6, <2>7, <2>8, <3>1
  <2>11. QED BY <2>1, <2>2, <2>3, <2>9, <2>10, Zenon DEF Given
<1>9. ASSUME NEW i \in 1 .. n + k
      PROVE  u[i].op \in K /\ Flow(u[i].op, u[i].lk, N[i], N[i + 1]) /\ Given(u, N, i)
  <2>1. i \in 1 .. n \/ (i - n \in 1 .. k /\ i \in Nat /\ i = n + (i - n))
    OBVIOUS
  <2>2. QED BY <1>7, <1>8, <2>1, ZenonT(30)
<1>10. Ann(u, N, K)
  BY <1>4, <1>5, <1>9, ZenonT(30) DEF Ann
<1>11. QED BY <1>2, <1>10 DEF u, N

-----------------------------------------------------------------------------
(* The routines *)

Plain == (CpuOps \cup ThreadOps) \ {"readeflags", "cli", "mycpu", "cpuproc", "swtch", "resume"}

LEMMA PathEmpty ==
  ASSUME NEW K, NEW F, NEW A \in Level, A.f \subseteq F
  PROVE  Path(<< >>, K, F, A, A)
<1> DEFINE L == [i \in Nat |-> A]
<1>1. L \in [Nat -> Level] /\ L[1] = A /\ Len(<< >>) = 0 /\ << >> \in Seq(Steps) /\ L[0 + 1] = A
  OBVIOUS
<1>2. Ann(<< >>, L, K)
  BY <1>1 DEF Ann
<1>3. QED BY <1>1, <1>2 DEF Path

LEMMA PathOne ==
  ASSUME NEW K, NEW F, NEW A \in Level, NEW B \in Level, A.f \subseteq F, B.f \subseteq F,
         NEW p \in Steps, p.op \in K, p.op \in Plain, Flow(p.op, p.lk, A, B)
  PROVE  Path(<< p >>, K, F, A, B)
<1> DEFINE L == [i \in Nat |-> IF i = 1 THEN A ELSE B]
           s == << p >>
<1>1. L \in [Nat -> Level] /\ L[1] = A /\ L[2] = B
  OBVIOUS
<1>2. s \in Seq(Steps) /\ Len(s) = 1 /\ s[1] = p
  OBVIOUS
<1> HIDE DEF L, s
<1>3. p.op \notin {"readeflags", "cli", "mycpu", "cpuproc", "swtch", "resume"}
  BY DEF Plain
<1>4. Given(s, L, 1)
  BY <1>2, <1>3 DEF Given
<1>5. Ann(s, L, K)
  <2>1. \A i \in 1 .. 1 : i = 1 /\ i + 1 = 2
    OBVIOUS
  <2>2. QED BY <1>1, <1>2, <1>4, <2>1 DEF Ann
<1>6. \A i \in 1 .. Len(s) + 1 : L[i].f \subseteq F
  <2>1. \A i \in 1 .. 1 + 1 : i = 1 \/ i = 2
    OBVIOUS
  <2>2. QED BY <1>1, <1>2, <2>1
<1>7. L[Len(s) + 1] = B /\ s[1].op # "cpuproc"
  BY <1>1, <1>2, <1>3
<1>8. Path(s, K, F, A, B)
  BY <1>1, <1>5, <1>6, <1>7 DEF Path
<1>9. QED BY <1>8 DEF s

LEMMA PathTwo ==
  ASSUME NEW K, NEW F, NEW A \in Level, NEW B \in Level, NEW C \in Level,
         A.f \subseteq F, B.f \subseteq F, C.f \subseteq F,
         NEW p \in Steps, NEW q \in Steps, p.op \in K, q.op \in K,
         Flow(p.op, p.lk, A, B), Flow(q.op, q.lk, B, C),
         \/ p.op \in Plain /\ q.op \in Plain
         \/ p.op = "readeflags" /\ q.op = "cli"
         \/ p.op = "swtch" /\ q.op = "resume" /\ A.e \subseteq C.e
         \/ p.op = "mycpu" /\ q.op = "cpuproc"
  PROVE  Path(<< p, q >>, K, F, A, C)
<1> DEFINE L == [i \in Nat |-> IF i = 1 THEN A ELSE IF i = 2 THEN B ELSE C]
           s == << p, q >>
<1>1. L \in [Nat -> Level] /\ L[1] = A /\ L[2] = B /\ L[3] = C
  OBVIOUS
<1>2. s \in Seq(Steps) /\ Len(s) = 2 /\ s[1] = p /\ s[2] = q
  OBVIOUS
<1> HIDE DEF L, s
<1>3. Plain \cap {"readeflags", "cli", "mycpu", "cpuproc", "swtch", "resume"} = {}
  BY DEF Plain
<1>4. 1 + 1 = 2 /\ 1 + 2 = 3 /\ 2 - 1 = 1 /\ 2 > 1 /\ 1 < 2 /\ 2 + 1 = 3
  OBVIOUS
<1>5. Given(s, L, 1)
  <2>1. CASE p.op \in Plain
    BY <1>2, <1>3, <2>1 DEF Given
  <2>2. CASE p.op = "readeflags" /\ q.op = "cli"
    BY <1>2, <1>4, <2>2 DEF Given
  <2>3. CASE p.op = "swtch" /\ q.op = "resume" /\ A.e \subseteq C.e
    BY <1>1, <1>2, <1>4, <2>3 DEF Given
  <2>4. CASE p.op = "mycpu" /\ q.op = "cpuproc"
    BY <1>2, <1>4, <2>4 DEF Given
  <2>5. QED BY <2>1, <2>2, <2>3, <2>4
<1>6. Given(s, L, 2)
  <2>1. CASE q.op \in Plain
    BY <1>2, <1>3, <2>1 DEF Given
  <2>2. CASE p.op = "readeflags" /\ q.op = "cli"
    BY <1>2, <1>4, <2>2 DEF Given
  <2>3. CASE p.op = "swtch" /\ q.op = "resume"
    BY <1>2, <1>4, <2>3 DEF Given
  <2>4. CASE p.op = "mycpu" /\ q.op = "cpuproc"
    BY <1>2, <1>4, <2>4 DEF Given
  <2>5. QED BY <2>1, <2>2, <2>3, <2>4
<1>7. Ann(s, L, K)
  <2>1. \A i \in 1 .. 2 : i = 1 \/ i = 2
    OBVIOUS
  <2>2. QED BY <1>1, <1>2, <1>4, <1>5, <1>6, <2>1 DEF Ann
<1>8. \A i \in 1 .. Len(s) + 1 : L[i].f \subseteq F
  <2>1. \A i \in 1 .. 2 + 1 : i = 1 \/ i = 2 \/ i = 3
    OBVIOUS
  <2>2. QED BY <1>1, <1>2, <2>1
<1>9. L[Len(s) + 1] = C /\ s[1].op # "cpuproc"
  BY <1>1, <1>2, <1>3, <1>4
<1>10. Path(s, K, F, A, C)
  BY <1>1, <1>7, <1>8, <1>9 DEF Path
<1>11. QED BY <1>10 DEF s

\* One routine after another.
LEMMA PathJoin ==
  ASSUME NEW s, NEW t, NEW K, NEW F, NEW A, NEW B, NEW C,
         Path(s, K, F, A, B), Path(t, K, F, B, C)
  PROVE  Path(s \o t, K, F, A, C)
<1>1. PICK L \in [Nat -> Level] :
        /\ Ann(s, L, K) /\ L[1] = A /\ L[Len(s) + 1] = B
        /\ \A i \in 1 .. Len(s) + 1 : L[i].f \subseteq F
        /\ s # << >> => s[1].op # "cpuproc"
  BY DEF Path
<1>2. PICK M \in [Nat -> Level] :
        /\ Ann(t, M, K) /\ M[1] = B /\ M[Len(t) + 1] = C
        /\ \A i \in 1 .. Len(t) + 1 : M[i].f \subseteq F
        /\ t # << >> => t[1].op # "cpuproc"
  BY DEF Path
<1>3. s \in Seq(Steps) /\ t \in Seq(Steps)
  BY <1>1, <1>2 DEF Ann
<1>4. PICK n \in Nat : n = Len(s)
  BY <1>3
<1>5. PICK k \in Nat : k = Len(t)
  BY <1>3
<1> DEFINE u == s \o t
           N == Splice(L, n, M)
<1>6. /\ u \in Seq(Steps) /\ Len(u) = n + k
      /\ \A i \in 1 .. n : u[i] = s[i]
      /\ \A i \in 1 .. k : u[n + i] = t[i]
  BY <1>3, <1>4, <1>5, JoinSeq
<1>7. L[n + 1] = M[1]
  BY <1>1, <1>2, <1>4
<1>8. /\ N \in [Nat -> Level]
      /\ \A i \in 1 .. n + 1 : N[i] = L[i]
      /\ \A i \in Nat : i > 0 => N[n + i] = M[i]
  BY <1>7, SpliceLevels
<1>9. Ann(u, N, K)
  BY <1>1, <1>2, <1>4, AnnJoin
<1> HIDE DEF u, N
<1>10. N[1] = A /\ N[n + k + 1] = C
  <2>1. 1 \in 1 .. n + 1 /\ k + 1 \in Nat /\ k + 1 > 0 /\ n + k + 1 = n + (k + 1)
    OBVIOUS
  <2>2. N[n + (k + 1)] = M[k + 1]
    BY <1>8, <2>1
  <2>3. QED BY <1>1, <1>2, <1>5, <1>8, <2>1, <2>2
<1>11. ASSUME NEW i \in 1 .. n + k + 1 PROVE N[i].f \subseteq F
  <2>1. CASE i <= n + 1
    <3>1. i \in 1 .. n + 1
      BY <2>1
    <3>2. QED BY <1>1, <1>4, <1>8, <3>1
  <2>2. CASE i > n + 1
    <3>1. i - n \in 1 .. k + 1 /\ i - n \in Nat /\ i - n > 0 /\ n + (i - n) = i
      BY <2>2
    <3>2. N[i] = M[i - n]
      BY <1>8, <3>1
    <3>3. QED BY <1>2, <1>5, <3>1, <3>2
  <2>3. QED BY <2>1, <2>2
<1>12. u # << >> => u[1].op # "cpuproc"
  <2>1. CASE n = 0
    <3>1. u # << >> => k > 0
      BY <1>6, <2>1
    <3>2. k > 0 => t # << >> /\ 1 \in 1 .. k /\ n + 1 = 1
      BY <1>3, <1>5, <2>1
    <3>3. k > 0 => u[1] = t[1]
      BY <1>6, <3>2
    <3>4. QED BY <1>2, <3>1, <3>2, <3>3
  <2>2. CASE n > 0
    <3>1. s # << >> /\ 1 \in 1 .. n
      BY <1>3, <1>4, <2>2
    <3>2. QED BY <1>1, <1>6, <3>1
  <2>3. QED BY <2>1, <2>2
<1>13. Path(u, K, F, A, C)
  BY <1>6, <1>8, <1>9, <1>10, <1>11, <1>12, ZenonT(30) DEF Path
<1>14. QED BY <1>13 DEF u

\* The steps are steps.
LEMMA StepTypes ==
  /\ \A op \in CpuOps \cup ThreadOps :
       /\ Step(op) \in Steps /\ Step(op).op = op /\ Step(op).lk = None
       /\ \A l \in Lock : On(op, l) \in Steps /\ On(op, l).op = op /\ On(op, l).lk = l
  /\ LockOps \subseteq CpuOps /\ LockOps \subseteq ThreadOps
<1>1. \A op \in CpuOps \cup ThreadOps :
       /\ Step(op) \in Steps /\ Step(op).op = op /\ Step(op).lk = None
  BY DEF Step, Steps
<1>2. \A op \in CpuOps \cup ThreadOps, l \in Lock :
        On(op, l) \in Steps /\ On(op, l).op = op /\ On(op, l).lk = l
  BY DEF On, Steps
<1>3. QED BY <1>1, <1>2 DEF CpuOps, ThreadOps

\* The levels after acquire() and release().
Acq(A, l) == [n |-> A.n + 1, h |-> A.h \cup {l}, o |-> A.o \cup {l}, f |-> {FALSE},
              e |-> IF A.n = 0 THEN A.f ELSE A.e]
Rel(A, l) == [n |-> A.n - 1, h |-> A.h \ {l}, o |-> A.o \ {l},
              f |-> IF A.n = 1 THEN A.e ELSE {FALSE}, e |-> IF A.n = 1 THEN BOOLEAN ELSE A.e]

LEMMA PathPushcli ==
  ASSUME NEW A \in Level, A.n < 2, NEW K, NEW F, LockOps \subseteq K, A.f \subseteq F, FALSE \in F
  PROVE  LET B == [n |-> A.n + 1, h |-> A.h, o |-> A.o, f |-> {FALSE},
                   e |-> IF A.n = 0 THEN A.f ELSE A.e]
         IN B \in Level /\ Path(pushcli, K, F, A, B)
<1> DEFINE B == [n |-> A.n + 1, h |-> A.h, o |-> A.o, f |-> {FALSE},
                 e |-> IF A.n = 0 THEN A.f ELSE A.e]
<1>1. /\ A.n \in 0 .. 2 /\ A.h \subseteq Lock /\ A.o \subseteq Lock /\ A.o \subseteq A.h
      /\ A.f \subseteq BOOLEAN /\ A.e \subseteq BOOLEAN
  BY DEF Level
<1>2. A.n + 1 \in 0 .. 2 /\ A.n + 1 > 0 /\ A.n + 1 # 0
  BY <1>1
<1>3. B \in Level
  BY <1>1, <1>2, ZenonT(30) DEF Level
<1>4. B.n = A.n + 1 /\ B.h = A.h /\ B.o = A.o /\ B.f = {FALSE} /\ B.e = IF A.n = 0 THEN A.f ELSE A.e
  OBVIOUS
<1> HIDE DEF B
<1>5. {"readeflags", "cli"} \subseteq LockOps
  BY DEF LockOps
<1>6. Flow("readeflags", None, A, A) /\ Flow("cli", None, A, B)
  BY <1>4 DEF Flow
<1>7. Path(<< Step("readeflags"), Step("cli") >>, K, F, A, B)
  <2> DEFINE p == Step("readeflags")
             q == Step("cli")
  <2>1. p \in Steps /\ p.op = "readeflags" /\ p.lk = None /\ q \in Steps /\ q.op = "cli" /\ q.lk = None
    BY <1>5, StepTypes
  <2> HIDE DEF p, q
  <2>2. p.op \in K /\ q.op \in K /\ Flow(p.op, p.lk, A, A) /\ Flow(q.op, q.lk, A, B) /\ B.f \subseteq F
    BY <1>4, <1>5, <1>6, <2>1, ZenonT(30)
  <2>3. Path(<< p, q >>, K, F, A, B)
    BY <1>3, <2>1, <2>2, PathTwo
  <2>4. QED BY <2>3 DEF p, q
<1>8. QED BY <1>3, <1>7 DEF pushcli, B

LEMMA PathAcquire ==
  ASSUME NEW A \in Level, NEW l \in Lock, A.n < 2, l \notin A.h,
         NEW K, NEW F, LockOps \subseteq K, A.f \subseteq F, FALSE \in F
  PROVE  Acq(A, l) \in Level /\ Path(acquire(l), K, F, A, Acq(A, l))
<1> DEFINE B == [n |-> A.n + 1, h |-> A.h, o |-> A.o, f |-> {FALSE},
                 e |-> IF A.n = 0 THEN A.f ELSE A.e]
           C == [B EXCEPT !.h = A.h \cup {l}]
           D == Acq(A, l)
<1>1. /\ A.n \in 0 .. 2 /\ A.h \subseteq Lock /\ A.o \subseteq Lock /\ A.o \subseteq A.h
      /\ A.f \subseteq BOOLEAN /\ A.e \subseteq BOOLEAN
  BY DEF Level
<1>2. A.n + 1 \in 0 .. 2 /\ A.n + 1 > 0 /\ A.n + 1 # 0
  BY <1>1
<1>3. C \in Level /\ D \in Level
  BY <1>1, <1>2, ZenonT(30) DEF Level, Acq
<1>4. /\ C.n = B.n /\ C.h = B.h \cup {l} /\ C.o = B.o /\ C.f = B.f /\ C.e = B.e
      /\ D.n = C.n /\ D.h = C.h /\ D.o = C.o \cup {l} /\ D.f = C.f /\ D.e = C.e
      /\ B.f = {FALSE} /\ B.h = A.h
  BY DEF Acq
<1>5. B \in Level /\ Path(pushcli, K, F, A, B)
  BY PathPushcli, ZenonT(30)
<1> HIDE DEF B, C, D
<1>6. {"xchg", "own"} \subseteq LockOps /\ {"xchg", "own"} \subseteq Plain
  BY DEF LockOps, Plain, CpuOps
<1>7. Flow("xchg", l, B, C) /\ Flow("own", l, C, D)
  BY <1>4 DEF Flow
<1>8. Path(<< On("xchg", l), On("own", l) >>, K, F, B, D)
  <2> DEFINE p == On("xchg", l)
             q == On("own", l)
  <2>1. p \in Steps /\ p.op = "xchg" /\ p.lk = l /\ q \in Steps /\ q.op = "own" /\ q.lk = l
    BY <1>6, StepTypes
  <2> HIDE DEF p, q
  <2>2. /\ p.op \in K /\ q.op \in K /\ Flow(p.op, p.lk, B, C) /\ Flow(q.op, q.lk, C, D)
        /\ B.f \subseteq F /\ C.f \subseteq F /\ D.f \subseteq F /\ p.op \in Plain /\ q.op \in Plain
    BY <1>4, <1>6, <1>7, <2>1, ZenonT(30)
  <2>3. Path(<< p, q >>, K, F, B, D)
    BY <1>3, <1>5, <2>1, <2>2, PathTwo, ZenonT(30)
  <2>4. QED BY <2>3 DEF p, q
<1>9. Path(acquire(l), K, F, A, D)
  BY <1>5, <1>8, PathJoin DEF acquire
<1>10. QED BY <1>3, <1>9 DEF D

LEMMA SeqEq ==
  ASSUME NEW S, NEW s \in Seq(S), NEW t \in Seq(S), Len(s) = Len(t), \A i \in 1 .. Len(s) : s[i] = t[i]
  PROVE s = t
<1>1. s \in [1 .. Len(s) -> S] /\ t \in [1 .. Len(s) -> S]
  OBVIOUS
<1>2. QED BY <1>1

LEMMA JoinThree ==
  ASSUME NEW a, NEW b, NEW c PROVE << a, b >> \o << c >> = << a, b, c >>
<1> DEFINE S == {a, b, c} s == << a, b >> \o << c >> t == << a, b, c >>
<1>1. << a, b >> \in Seq(S) /\ << c >> \in Seq(S) /\ t \in Seq(S) /\ Len(<< a, b >>) = 2 /\ Len(<< c >>) = 1 /\ Len(t) = 3
  OBVIOUS
<1>2. s \in Seq(S) /\ Len(s) = 3
  BY <1>1
<1>3. s[1] = a /\ s[2] = b /\ s[3] = c
  OBVIOUS
<1>4. t[1] = a /\ t[2] = b /\ t[3] = c
  OBVIOUS
<1> HIDE DEF s, t, S
<1>5. \A i \in 1 .. 3 : s[i] = t[i]
  BY <1>3, <1>4
<1>6. s = t
  BY <1>1, <1>2, <1>5, SeqEq
<1>7. QED BY <1>6 DEF s, t

LEMMA JoinAssoc ==
  ASSUME NEW S, NEW a \in Seq(S), NEW b \in Seq(S), NEW c \in Seq(S)
  PROVE  (a \o b) \o c = a \o (b \o c)
<1>1. PICK i \in Nat : i = Len(a)
  OBVIOUS
<1>2. PICK j \in Nat : j = Len(b)
  OBVIOUS
<1>3. PICK k \in Nat : k = Len(c)
  OBVIOUS
<1> DEFINE u == a \o b
           v == b \o c
           s == u \o c
           t == a \o v
<1>4. /\ u \in Seq(S) /\ Len(u) = i + j
      /\ \A q \in 1 .. i : u[q] = a[q]
      /\ \A q \in 1 .. j : u[i + q] = b[q]
  BY <1>1, <1>2, JoinSeq
<1>5. /\ v \in Seq(S) /\ Len(v) = j + k
      /\ \A q \in 1 .. j : v[q] = b[q]
      /\ \A q \in 1 .. k : v[j + q] = c[q]
  BY <1>2, <1>3, JoinSeq
<1> HIDE DEF u, v
<1>6. /\ s \in Seq(S) /\ Len(s) = i + j + k
      /\ \A q \in 1 .. i + j : s[q] = u[q]
      /\ \A q \in 1 .. k : s[i + j + q] = c[q]
  <2>1. PICK m \in Nat : m = i + j
    OBVIOUS
  <2>2. u \in Seq(S) /\ m = Len(u)
    BY <1>4, <2>1
  <2>3. /\ s \in Seq(S) /\ Len(s) = m + k
        /\ \A q \in 1 .. m : s[q] = u[q]
        /\ \A q \in 1 .. k : s[m + q] = c[q]
    BY <1>3, <2>2, JoinSeq
  <2>4. QED BY <2>1, <2>3
<1>7. /\ t \in Seq(S) /\ Len(t) = i + (j + k)
      /\ \A q \in 1 .. i : t[q] = a[q]
      /\ \A q \in 1 .. j + k : t[i + q] = v[q]
  <2>1. PICK m \in Nat : m = j + k
    OBVIOUS
  <2>2. v \in Seq(S) /\ m = Len(v)
    BY <1>5, <2>1
  <2>3. /\ t \in Seq(S) /\ Len(t) = i + m
        /\ \A q \in 1 .. i : t[q] = a[q]
        /\ \A q \in 1 .. m : t[i + q] = v[q]
    BY <1>1, <2>2, JoinSeq
  <2>4. QED BY <2>1, <2>3
<1> HIDE DEF s, t
<1>8. ASSUME NEW q \in 1 .. i + j + k PROVE s[q] = t[q]
  <2>1. CASE q <= i
    <3>1. q \in 1 .. i /\ q \in 1 .. i + j
      BY <2>1
    <3>2. QED BY <1>4, <1>6, <1>7, <3>1
  <2>2. CASE q > i /\ q <= i + j
    <3>1. q \in 1 .. i + j /\ q - i \in 1 .. j /\ q - i \in 1 .. j + k /\ i + (q - i) = q
      BY <2>2
    <3>2. s[q] = b[q - i]
      BY <1>4, <1>6, <3>1, ZenonT(30)
    <3>3. t[q] = b[q - i]
      BY SMTT(30), <1>5, <1>7, <3>1
    <3>4. QED BY <3>2, <3>3
  <2>3. CASE q > i + j
    <3>1. /\ q - (i + j) \in 1 .. k /\ q - i \in 1 .. j + k /\ i + (q - i) = q
          /\ i + j + (q - (i + j)) = q /\ j + (q - (i + j)) = q - i
      BY <2>3
    <3>2. s[q] = c[q - (i + j)]
      BY <1>6, <3>1, ZenonT(30)
    <3>3. t[q] = v[q - i]
      BY <1>7, <3>1
    <3>4. v[q - i] = c[q - (i + j)]
      BY <1>5, <3>1, ZenonT(30)
    <3>5. QED BY <3>2, <3>3, <3>4
  <2>4. QED BY <2>1, <2>2, <2>3
<1>9. i + (j + k) = i + j + k
  OBVIOUS
<1>10. s = t
  BY <1>6, <1>7, <1>8, <1>9, SeqEq, ZenonT(30)
<1>11. QED BY <1>10 DEF s, t, u, v

\* Records that are levels.
LEMMA MakeLevel ==
  ASSUME NEW n \in 0 .. 2, NEW h \in SUBSET Lock, NEW o \in SUBSET h, NEW f \in SUBSET BOOLEAN,
         NEW e \in SUBSET BOOLEAN, n > 0 => f \subseteq {FALSE}, n = 0 => h = {} /\ e = BOOLEAN
  PROVE  [n |-> n, h |-> h, o |-> o, f |-> f, e |-> e] \in Level
<1> DEFINE A == [n |-> n, h |-> h, o |-> o, f |-> f, e |-> e]
<1>1. A \in [n : 0 .. 2, h : SUBSET Lock, o : SUBSET Lock, f : SUBSET BOOLEAN, e : SUBSET BOOLEAN]
  <2>1. o \in SUBSET Lock
    OBVIOUS
  <2> QED BY <2>1
<1>2. A.n = n /\ A.h = h /\ A.o = o /\ A.f = f /\ A.e = e
  OBVIOUS
<1> HIDE DEF A
<1>3. A \in Level
  BY <1>1, <1>2, ZenonT(30) DEF Level
<1>4. QED BY <1>3 DEF A

LEMMA PathRelease ==
  ASSUME NEW A \in Level, NEW l \in Lock, A.n > 0, l \in A.o, A.n = 1 => A.h = {l},
         NEW K, NEW F, LockOps \subseteq K, FALSE \in F, A.n = 1 => A.e \subseteq F
  PROVE  Rel(A, l) \in Level /\ Path(release(l), K, F, A, Rel(A, l))
<1> DEFINE B == [n |-> A.n, h |-> A.h, o |-> A.o \ {l}, f |-> A.f, e |-> A.e]
           C == [n |-> A.n, h |-> A.h \ {l}, o |-> A.o \ {l}, f |-> A.f, e |-> A.e]
           D == Rel(A, l)
<1>1. /\ A \in [n : 0 .. 2, h : SUBSET Lock, o : SUBSET Lock, f : SUBSET BOOLEAN, e : SUBSET BOOLEAN]
      /\ A.n \in 0 .. 2 /\ A.h \subseteq Lock /\ A.o \subseteq Lock /\ A.o \subseteq A.h
      /\ A.f \subseteq {FALSE} /\ A.e \subseteq BOOLEAN
  BY ZenonT(30) DEF Level
<1>2. A.n = 1 \/ A.n = 2
  BY <1>1
<1>3. B \in Level /\ C \in Level
  <2>1. A.n # 0 /\ A.o \ {l} \subseteq A.h /\ A.o \ {l} \subseteq A.h \ {l} /\ A.h \ {l} \subseteq Lock
    BY <1>1, <1>2
  <2>2. QED BY <1>1, <2>1, MakeLevel, ZenonT(30)
<1>4. D \in Level
  <2>1. /\ A.n - 1 \in 0 .. 2 /\ (A.n - 1 = 0 <=> A.n = 1)
        /\ A.o \ {l} \subseteq A.h \ {l} /\ A.h \ {l} \subseteq Lock
        /\ A.n = 1 => A.h \ {l} = {}
    BY <1>1, <1>2
  <2>2. CASE A.n = 1
    <3>1. D = [n |-> A.n - 1, h |-> A.h \ {l}, o |-> A.o \ {l}, f |-> A.e, e |-> BOOLEAN]
      BY <2>2 DEF Rel
    <3>2. /\ A.n - 1 \in 0 .. 2 /\ A.h \ {l} \in SUBSET Lock /\ A.o \ {l} \in SUBSET (A.h \ {l})
          /\ A.e \in SUBSET BOOLEAN /\ ~(A.n - 1 > 0) /\ (A.n - 1 = 0 => A.h \ {l} = {})
      BY <1>1, <2>1, <2>2
    <3>3. QED BY <3>1, <3>2, MakeLevel
  <2>3. CASE A.n # 1
    <3> DEFINE f == {FALSE}
    <3>0. f \in SUBSET BOOLEAN /\ f \subseteq {FALSE}
      BY Zenon
    <3>1. D = [n |-> A.n - 1, h |-> A.h \ {l}, o |-> A.o \ {l}, f |-> f, e |-> A.e]
      BY <2>3 DEF Rel
    <3>2. /\ A.n - 1 \in 0 .. 2 /\ A.h \ {l} \in SUBSET Lock /\ A.o \ {l} \in SUBSET (A.h \ {l})
          /\ A.e \in SUBSET BOOLEAN /\ ~(A.n - 1 = 0)
      BY <1>1, <2>1, <2>3
    <3> DEFINE n == A.n - 1
               h == A.h \ {l}
               o == A.o \ {l}
    <3> HIDE DEF f, n, h, o
    <3>3. [n |-> n, h |-> h, o |-> o, f |-> f, e |-> A.e] \in Level
      BY <3>0, <3>2, MakeLevel, ZenonT(30) DEF n, h, o
    <3>4. QED BY <3>1, <3>3 DEF n, h, o
  <2>4. QED BY <2>2, <2>3
<1>5. /\ B.n = A.n /\ B.h = A.h /\ B.o = A.o \ {l} /\ B.f = A.f /\ B.e = A.e
      /\ C.n = B.n /\ C.h = B.h \ {l} /\ C.o = B.o /\ C.f = B.f /\ C.e = B.e
      /\ D.n = C.n - 1 /\ D.h = C.h /\ D.o = C.o
      /\ D.f = (IF A.n = 1 THEN A.e ELSE {FALSE}) /\ D.e = IF A.n = 1 THEN BOOLEAN ELSE A.e
  BY <1>1 DEF Rel
<1> HIDE DEF B, C, D
<1>6. {"disown", "unlock", "popcli"} \subseteq LockOps /\ {"disown", "unlock", "popcli"} \subseteq Plain
  BY DEF LockOps, Plain, CpuOps
<1>7. Flow("disown", l, A, B) /\ Flow("unlock", l, B, C) /\ Flow("popcli", None, C, D)
  <2>1. Flow("disown", l, A, B)
    BY <1>5 DEF Flow
  <2>2. Flow("unlock", l, B, C)
    BY <1>1, <1>5 DEF Flow
  <2>3. Flow("popcli", None, C, D)
    BY <1>1, <1>2, <1>5 DEF Flow
  <2>4. QED BY <2>1, <2>2, <2>3
<1>8. A.f \subseteq F /\ B.f \subseteq F /\ C.f \subseteq F /\ D.f \subseteq F
  BY <1>1, <1>5, ZenonT(30)
<1>9. Path(<< On("disown", l), On("unlock", l) >>, K, F, A, C)
  <2> DEFINE p == On("disown", l)
             q == On("unlock", l)
  <2>1. p \in Steps /\ p.op = "disown" /\ p.lk = l /\ q \in Steps /\ q.op = "unlock" /\ q.lk = l
    BY <1>6, StepTypes
  <2> HIDE DEF p, q
  <2>2. /\ p.op \in K /\ q.op \in K /\ Flow(p.op, p.lk, A, B) /\ Flow(q.op, q.lk, B, C)
        /\ p.op \in Plain /\ q.op \in Plain
    BY <1>6, <1>7, <2>1
  <2>3. Path(<< p, q >>, K, F, A, C)
    BY <1>3, <1>8, <2>1, <2>2, PathTwo
  <2>4. QED BY <2>3 DEF p, q
<1>10. Path(<< Step("popcli") >>, K, F, C, D)
  BY <1>3, <1>4, <1>6, <1>7, <1>8, StepTypes, PathOne
<1>11. release(l) = << On("disown", l), On("unlock", l) >> \o << Step("popcli") >>
  BY JoinThree DEF release
<1>12. Path(release(l), K, F, A, D)
  BY <1>9, <1>10, <1>11, PathJoin
<1>13. QED BY <1>4, <1>12 DEF D

\* The forms of the levels.
LEMMA Forms ==
  ASSUME NEW e, e \subseteq BOOLEAN, NEW l \in Lock, NEW m \in Lock, l # m
  PROVE  /\ Base(e) \in Level /\ One(l, e) \in Level /\ Two(l, m, e) \in Level
         /\ Acq(Base(e), l) = One(l, e) /\ Acq(One(l, e), m) = Two(l, m, e)
         /\ Rel(Two(l, m, e), m) = One(l, e) /\ Rel(Two(l, m, e), l) = One(m, e)
         /\ Rel(One(l, e), l) = Base(e)
<1>0. 0 \in 0 .. 2 /\ 1 \in 0 .. 2 /\ 2 \in 0 .. 2 /\ ~(0 > 0) /\ 1 # 0 /\ 2 # 0
  OBVIOUS
<1>1. Base(e) \in Level
  BY <1>0, MakeLevel, Zenon DEF Base
<1>2. One(l, e) \in Level
  BY <1>0, MakeLevel, Zenon DEF One
<1>3. Two(l, m, e) \in Level
  BY <1>0, MakeLevel, Zenon DEF Two
<1>4. Acq(Base(e), l) = One(l, e) /\ Acq(One(l, e), m) = Two(l, m, e)
  BY DEF Acq, Base, One, Two
<1>5. Rel(Two(l, m, e), m) = One(l, e) /\ Rel(Two(l, m, e), l) = One(m, e)
  <2> DEFINE T == Two(l, m, e)
  <2>1. T.n = 2 /\ T.h = {l, m} /\ T.o = {l, m} /\ T.f = {FALSE} /\ T.e = e
    BY DEF Two
  <2> HIDE DEF T
  <2>2. {l, m} \ {m} = {l} /\ {l, m} \ {l} = {m} /\ 2 - 1 = 1 /\ 2 # 1
    OBVIOUS
  <2>3. Rel(T, m) = One(l, e) /\ Rel(T, l) = One(m, e)
    BY <2>1, <2>2, ZenonT(30) DEF Rel, One
  <2>4. QED BY <2>3 DEF T
<1>6. Rel(One(l, e), l) = Base(e)
  BY DEF Rel, One, Base
<1>7. QED BY <1>1, <1>2, <1>3, <1>4, <1>5, <1>6

LEMMA LockPaths ==
  ASSUME NEW K, LockOps \subseteq K, NEW F, FALSE \in F, NEW e, e \subseteq BOOLEAN,
         NEW l \in Lock, NEW m \in Lock, l # m
  PROVE  /\ e \subseteq F => Path(acquire(l), K, F, Base(e), One(l, e))
         /\ Path(acquire(m), K, F, One(l, e), Two(l, m, e))
         /\ Path(release(m), K, F, Two(l, m, e), One(l, e))
         /\ Path(release(l), K, F, Two(l, m, e), One(m, e))
         /\ e \subseteq F => Path(release(l), K, F, One(l, e), Base(e))
<1>1. Base(e).n < 2 /\ l \notin Base(e).h /\ Base(e).f = e
  BY DEF Base
<1>2. /\ One(l, e).n < 2 /\ One(l, e).n > 0 /\ One(l, e).h = {l} /\ m \notin One(l, e).h
      /\ l \in One(l, e).o /\ One(l, e).f \subseteq F /\ One(l, e).e = e
  <2>1. /\ One(l, e).n = 1 /\ One(l, e).h = {l} /\ One(l, e).o = {l} /\ One(l, e).f = {FALSE}
        /\ One(l, e).e = e
    BY DEF One
  <2>2. m \notin {l} /\ l \in {l} /\ 1 < 2 /\ 1 > 0
    OBVIOUS
  <2>3. {FALSE} \subseteq F
    BY Zenon
  <2>4. QED BY <2>1, <2>2, <2>3, Zenon
<1>3. Two(l, m, e).n > 0 /\ Two(l, m, e).n # 1 /\ l \in Two(l, m, e).o /\ m \in Two(l, m, e).o
  BY DEF Two
<1>4. e \subseteq F => Path(acquire(l), K, F, Base(e), One(l, e))
  BY <1>1, Forms, PathAcquire, ZenonT(30)
<1>5. Path(acquire(m), K, F, One(l, e), Two(l, m, e))
  <2> DEFINE T == One(l, e)
  <2>1. T \in Level /\ T.n < 2 /\ m \notin T.h /\ T.f \subseteq F /\ Acq(T, m) = Two(l, m, e)
    BY <1>2, Forms
  <2> HIDE DEF T
  <2>2. Path(acquire(m), K, F, T, Acq(T, m))
    BY <2>1, PathAcquire, ZenonT(30)
  <2>3. QED BY <2>1, <2>2 DEF T
<1>6. Path(release(m), K, F, Two(l, m, e), One(l, e)) /\ Path(release(l), K, F, Two(l, m, e), One(m, e))
  <2> DEFINE T == Two(l, m, e)
  <2>1. /\ T \in Level /\ T.n > 0 /\ ~(T.n = 1) /\ l \in T.o /\ m \in T.o
        /\ Rel(T, m) = One(l, e) /\ Rel(T, l) = One(m, e)
    BY <1>3, Forms
  <2> HIDE DEF T
  <2>2. Path(release(m), K, F, T, Rel(T, m)) /\ Path(release(l), K, F, T, Rel(T, l))
    BY <2>1, PathRelease, ZenonT(30)
  <2>3. QED BY <2>1, <2>2 DEF T
<1>7. e \subseteq F => Path(release(l), K, F, One(l, e), Base(e))
  <2> DEFINE T == One(l, e)
  <2>1. T \in Level /\ T.n > 0 /\ T.h = {l} /\ l \in T.o /\ T.e = e /\ Rel(T, l) = Base(e)
    BY <1>2, Forms, ZenonT(30)
  <2> HIDE DEF T
  <2>2. e \subseteq F => Path(release(l), K, F, T, Rel(T, l))
    BY <2>1, PathRelease, ZenonT(30)
  <2>3. QED BY <2>1, <2>2 DEF T
<1>8. QED BY <1>4, <1>5, <1>6, <1>7

LEMMA PathSwitch ==
  ASSUME NEW e, e \subseteq BOOLEAN, NEW K, {"swtch", "resume"} \subseteq K, NEW F, FALSE \in F
  PROVE  Path(<< Step("swtch"), Step("resume") >>, K, F, One("ptable", e), One("ptable", e))
<1> DEFINE A == One("ptable", e)
<1>1. A \in Level /\ Switched \in Level
  <2>1. "ptable" \in Lock /\ "ticks" \in Lock
    BY DEF Lock
  <2>2. QED BY <2>1, Forms DEF Switched
<1>2. /\ A.n = 1 /\ A.h = {"ptable"} /\ A.o = {"ptable"} /\ A.f = {FALSE} /\ A.e = e
      /\ Switched.n = 1 /\ Switched.h = {"ptable"} /\ Switched.o = {"ptable"} /\ Switched.f = {FALSE}
  BY DEF Switched, One
<1> HIDE DEF A
<1>3. Flow("swtch", None, A, Switched) /\ Flow("resume", None, Switched, A)
  BY <1>2 DEF Flow
<1>4. "swtch" \in ThreadOps /\ "resume" \in ThreadOps
  BY DEF ThreadOps
<1>5. Path(<< Step("swtch"), Step("resume") >>, K, F, A, A)
  <2> DEFINE p == Step("swtch")
             q == Step("resume")
  <2>1. p \in Steps /\ p.op = "swtch" /\ p.lk = None /\ q \in Steps /\ q.op = "resume" /\ q.lk = None
    BY <1>4, StepTypes
  <2> HIDE DEF p, q
  <2>2. /\ p.op \in K /\ q.op \in K
        /\ Flow(p.op, p.lk, A, Switched) /\ Flow(q.op, q.lk, Switched, A)
        /\ A.f \subseteq F /\ Switched.f \subseteq F
    BY <1>2, <1>3, <2>1, ZenonT(30)
  <2>3. Path(<< p, q >>, K, F, A, A)
    BY <1>1, <2>1, <2>2, PathTwo
  <2>4. QED BY <2>3 DEF p, q
<1>6. QED BY <1>5 DEF A

\* Routines that take a lock and ptable.lock in it, and those that switch.
LEMMA PathNested ==
  ASSUME NEW e, e \subseteq BOOLEAN, NEW K, LockOps \subseteq K, NEW F, e \subseteq F, FALSE \in F,
         NEW l \in Lock, l # "ptable"
  PROVE  Path(acquire(l) \o acquire("ptable") \o release("ptable") \o release(l), K, F, Base(e), Base(e))
<1>1. "ptable" \in Lock
  BY DEF Lock
<1>2. /\ Path(acquire(l), K, F, Base(e), One(l, e))
      /\ Path(acquire("ptable"), K, F, One(l, e), Two(l, "ptable", e))
      /\ Path(release("ptable"), K, F, Two(l, "ptable", e), One(l, e))
      /\ Path(release(l), K, F, One(l, e), Base(e))
  BY <1>1, LockPaths, ZenonT(30)
<1>3. Path(acquire(l) \o acquire("ptable"), K, F, Base(e), Two(l, "ptable", e))
  BY <1>2, PathJoin
<1>4. Path(acquire(l) \o acquire("ptable") \o release("ptable"), K, F, Base(e), One(l, e))
  BY <1>2, <1>3, PathJoin
<1>5. QED BY <1>2, <1>4, PathJoin

LEMMA PathYield ==
  ASSUME NEW e, e \subseteq BOOLEAN, NEW K, LockOps \cup {"swtch", "resume"} \subseteq K,
         NEW F, e \subseteq F, FALSE \in F
  PROVE  Path(yield, K, F, Base(e), Base(e))
<1>1. "ptable" \in Lock /\ "ticks" \in Lock
  BY DEF Lock
<1>2. /\ Path(acquire("ptable"), K, F, Base(e), One("ptable", e))
      /\ Path(release("ptable"), K, F, One("ptable", e), Base(e))
  BY <1>1, LockPaths, ZenonT(30)
<1>3. Path(<< Step("swtch"), Step("resume") >>, K, F, One("ptable", e), One("ptable", e))
  BY PathSwitch, ZenonT(30)
<1>4. Path(acquire("ptable") \o << Step("swtch"), Step("resume") >>, K, F, Base(e), One("ptable", e))
  BY <1>2, <1>3, PathJoin
<1>5. QED BY <1>2, <1>4, PathJoin DEF yield

LEMMA PathSleep ==
  ASSUME NEW e, e \subseteq BOOLEAN, NEW K, LockOps \cup {"swtch", "resume"} \subseteq K,
         NEW F, e \subseteq F, FALSE \in F
  PROVE  Path(sleep, K, F, Base(e), Base(e))
<1> DEFINE P == One("ptable", e)
           T == One("ticks", e)
           B == Base(e)
           D == Two("ticks", "ptable", e)
           sw == << Step("swtch"), Step("resume") >>
<1>1. "ptable" \in Lock /\ "ticks" \in Lock
  BY DEF Lock
<1>2. /\ Path(acquire("ticks"), K, F, B, T) /\ Path(acquire("ptable"), K, F, T, D)
      /\ Path(release("ticks"), K, F, D, P) /\ Path(release("ptable"), K, F, P, B)
      /\ Path(release("ticks"), K, F, T, B)
  BY <1>1, LockPaths, ZenonT(30)
<1>3. Path(sw, K, F, P, P)
  BY PathSwitch, ZenonT(30)
<1> HIDE DEF P, T, B, D
<1>4. Path(acquire("ticks") \o acquire("ptable"), K, F, B, D)
  BY <1>2, PathJoin
<1>5. Path(acquire("ticks") \o acquire("ptable") \o release("ticks"), K, F, B, P)
  BY <1>2, <1>4, PathJoin
<1>6. Path(acquire("ticks") \o acquire("ptable") \o release("ticks") \o sw, K, F, B, P)
  BY <1>3, <1>5, PathJoin
<1>7. Path(acquire("ticks") \o acquire("ptable") \o release("ticks") \o sw \o release("ptable"), K, F, B, B)
  BY <1>2, <1>6, PathJoin
<1>8. Path(acquire("ticks") \o acquire("ptable") \o release("ticks") \o sw \o release("ptable")
           \o acquire("ticks"), K, F, B, T)
  BY <1>2, <1>7, PathJoin
<1>9. Path(sleep, K, F, B, B)
  BY <1>2, <1>8, PathJoin DEF sleep
<1>10. QED BY <1>9 DEF B

LEMMA PathMyproc ==
  ASSUME NEW e, e \subseteq BOOLEAN, NEW K, LockOps \cup {"mycpu", "cpuproc"} \subseteq K,
         NEW F, e \subseteq F, FALSE \in F
  PROVE  Path(myproc, K, F, Base(e), Base(e))
<1> DEFINE A == Base(e)
           B == [n |-> 1, h |-> {}, o |-> {}, f |-> {FALSE}, e |-> e]
           C == [n |-> A.n + 1, h |-> A.h, o |-> A.o, f |-> {FALSE}, e |-> IF A.n = 0 THEN A.f ELSE A.e]
<1>1. A \in Level
  <2>1. "ptable" \in Lock /\ "ticks" \in Lock /\ "ptable" # "ticks"
    BY DEF Lock
  <2>2. QED BY <2>1, Forms
<1>2. A.n = 0 /\ A.h = {} /\ A.o = {} /\ A.f = e /\ A.e = BOOLEAN
  BY DEF Base
<1>3. B.n = 1 /\ B.h = {} /\ B.o = {} /\ B.f = {FALSE} /\ B.e = e
  OBVIOUS
<1>4. C = B
  <2> HIDE DEF A
  <2>1. 0 + 1 = 1
    OBVIOUS
  <2>2. QED BY <1>2, <2>1
<1>5. B \in Level /\ Path(pushcli, K, F, A, B)
  <2> HIDE DEF A, B
  <2>1. C \in Level /\ Path(pushcli, K, F, A, C)
    <3>1. A.n < 2 /\ A.f \subseteq F /\ LockOps \subseteq K
      BY <1>2
    <3>2. QED BY <1>1, <3>1, PathPushcli, ZenonT(30)
  <2>2. QED BY <1>4, <2>1, ZenonT(30)
<1> HIDE DEF A, B
<1>6. {"popcli"} \subseteq LockOps /\ "popcli" \in Plain /\ {"mycpu", "cpuproc", "popcli"} \subseteq ThreadOps
  BY DEF LockOps, Plain, ThreadOps
<1>7. Flow("mycpu", None, B, B) /\ Flow("cpuproc", None, B, B)
  BY <1>3, ZenonT(30) DEF Flow
<1>8. Flow("popcli", None, B, A)
  BY <1>2, <1>3 DEF Flow
<1> DEFINE p == Step("mycpu")
           q == Step("cpuproc")
           z == Step("popcli")
<1>9. /\ p \in Steps /\ p.op = "mycpu" /\ p.lk = None /\ q \in Steps /\ q.op = "cpuproc" /\ q.lk = None
      /\ z \in Steps /\ z.op = "popcli" /\ z.lk = None
  BY <1>6, StepTypes
<1> HIDE DEF p, q, z
<1>10. /\ p.op \in K /\ q.op \in K /\ z.op \in K /\ z.op \in Plain
       /\ Flow(p.op, p.lk, B, B) /\ Flow(q.op, q.lk, B, B) /\ Flow(z.op, z.lk, B, A)
       /\ A.f \subseteq F /\ B.f \subseteq F
  BY <1>2, <1>3, <1>6, <1>7, <1>8, <1>9, ZenonT(30)
<1>11. Path(<< p, q >>, K, F, B, B)
  BY <1>5, <1>9, <1>10, PathTwo
<1>12. Path(<< z >>, K, F, B, A)
  BY <1>1, <1>5, <1>9, <1>10, PathOne
<1>13. Path(<< p, q, z >>, K, F, B, A)
  <2>1. Path(<< p, q >> \o << z >>, K, F, B, A)
    BY <1>11, <1>12, PathJoin
  <2>2. QED BY <2>1, JoinThree, ZenonT(30)
<1>14. Path(pushcli \o << p, q, z >>, K, F, A, A)
  BY <1>5, <1>13, PathJoin
<1>15. QED BY <1>14 DEF myproc, p, q, z, A

\* The scheduler's loop, a system call with its return, and a new process.
LEMMA PathPlain ==
  ASSUME NEW op \in Plain, NEW K, op \in K, NEW F, NEW A \in Level, NEW B \in Level,
         A.f \subseteq F, B.f \subseteq F, Flow(op, None, A, B)
  PROVE  Path(<< Step(op) >>, K, F, A, B)
<1> DEFINE p == Step(op)
<1>1. p \in Steps /\ p.op = op /\ p.lk = None
  BY StepTypes DEF Plain
<1> HIDE DEF p
<1>2. Path(<< p >>, K, F, A, B)
  BY <1>1, PathOne
<1>3. QED BY <1>2 DEF p

LEMMA BaseLevels ==
  /\ User \in Level /\ Handler \in Level /\ Idle \in Level /\ Switched \in Level
  /\ User.n = 0 /\ User.f = {TRUE} /\ Handler.n = 0 /\ Handler.f = {FALSE}
  /\ Idle.n = 0 /\ Idle.f = BOOLEAN
  /\ User.h = {} /\ Idle.h = {} /\ Handler.h = {} /\ User.o = {} /\ Idle.o = {} /\ Handler.o = {}
  /\ User.e = BOOLEAN /\ Idle.e = BOOLEAN /\ Handler.e = BOOLEAN /\ Switched.e = BOOLEAN
  /\ Switched.n = 1 /\ Switched.h = {"ptable"} /\ Switched.o = {"ptable"} /\ Switched.f = {FALSE}
<1>1. "ptable" \in Lock /\ "ticks" \in Lock
  BY DEF Lock
<1>2. User \in Level /\ Handler \in Level /\ Idle \in Level /\ Switched \in Level
  BY <1>1, Forms, ZenonT(30) DEF User, Handler, Idle, Switched
<1>3. QED BY <1>2 DEF User, Handler, Idle, Switched, Base, One

LEMMA PlainOps ==
  /\ {"sti", "choose", "clear"} \subseteq Plain /\ {"sysret", "newret", "iret"} \subseteq Plain
  /\ {"sti", "choose", "clear"} \cap LockOps = {}
  /\ LockOps \cup {"sti", "choose", "clear"} \subseteq CpuOps \ {"iret"}
  /\ LockOps \cup {"mycpu", "cpuproc", "swtch", "resume", "sysret", "newret"} \subseteq ThreadOps \ {"iret"}
BY DEF Plain, CpuOps, ThreadOps, LockOps

LEMMA PathScheduler == Path(scheduler, CpuOps \ {"iret"}, BOOLEAN, Idle, Idle)
<1> DEFINE K == CpuOps \ {"iret"}
<1>1. "ptable" \in Lock /\ "ticks" \in Lock /\ LockOps \subseteq K /\ {"sti", "choose"} \subseteq K
  BY PlainOps DEF Lock
<1> HIDE DEF K
<1>2. /\ Path(acquire("ptable"), K, BOOLEAN, Idle, Switched)
      /\ Path(release("ptable"), K, BOOLEAN, Switched, Idle)
  BY <1>1, LockPaths, ZenonT(30) DEF Idle, Switched
<1>3. Flow("sti", None, Idle, Idle) /\ Flow("choose", None, Switched, Switched)
  BY BaseLevels DEF Flow
<1>4. Path(<< Step("sti") >>, K, BOOLEAN, Idle, Idle)
  BY <1>1, <1>3, PlainOps, BaseLevels, PathPlain
<1>5. Path(<< Step("choose") >>, K, BOOLEAN, Switched, Switched)
  BY <1>1, <1>3, PlainOps, BaseLevels, PathPlain, ZenonT(30)
<1>6. Path(<< Step("sti") >> \o acquire("ptable"), K, BOOLEAN, Idle, Switched)
  BY <1>2, <1>4, PathJoin
<1>7. Path(<< Step("sti") >> \o acquire("ptable") \o << Step("choose") >>, K, BOOLEAN, Idle, Switched)
  BY <1>5, <1>6, PathJoin
<1>8. Path(scheduler, K, BOOLEAN, Idle, Idle)
  BY <1>2, <1>7, PathJoin DEF scheduler
<1>9. QED BY <1>8 DEF K

LEMMA PathForkret == Path(forkret, ThreadOps \ {"iret"}, BOOLEAN, Switched, User)
<1> DEFINE K == ThreadOps \ {"iret"}
<1>1. "ptable" \in Lock /\ "ticks" \in Lock /\ LockOps \subseteq K /\ "newret" \in K
  BY PlainOps DEF Lock
<1> HIDE DEF K
<1>2. Path(release("ptable"), K, BOOLEAN, Switched, Idle)
  BY <1>1, LockPaths, ZenonT(30) DEF Idle, Switched
<1>3. Flow("newret", None, Idle, User)
  BY BaseLevels DEF Flow
<1>4. Path(<< Step("newret") >>, K, BOOLEAN, Idle, User)
  BY <1>1, <1>3, PlainOps, BaseLevels, PathPlain, ZenonT(30)
<1>5. Path(forkret, K, BOOLEAN, Switched, User)
  BY <1>2, <1>4, PathJoin DEF forkret
<1>6. QED BY <1>5 DEF K

LEMMA PathSyscall ==
  ASSUME NEW body \in {nested, sleep, myproc}
  PROVE  Path(body \o << Step("sysret") >>, ThreadOps \ {"iret"}, BOOLEAN, User, User)
<1> DEFINE K == ThreadOps \ {"iret"}
<1>1. LockOps \cup {"mycpu", "cpuproc", "swtch", "resume"} \subseteq K /\ "sysret" \in K
  BY PlainOps
<1> HIDE DEF K
<1>2. "other" \in Lock /\ "other" # "ptable" /\ {TRUE} \subseteq BOOLEAN /\ FALSE \in BOOLEAN
  BY DEF Lock
<1>3. Path(nested, K, BOOLEAN, User, User)
  BY <1>1, <1>2, PathNested, ZenonT(30) DEF nested, User
<1>4. Path(sleep, K, BOOLEAN, User, User)
  BY <1>1, <1>2, PathSleep, ZenonT(30) DEF User
<1>5. Path(myproc, K, BOOLEAN, User, User)
  BY <1>1, <1>2, PathMyproc, ZenonT(30) DEF User
<1>6. Path(body, K, BOOLEAN, User, User)
  BY <1>3, <1>4, <1>5
<1>7. Flow("sysret", None, User, User)
  BY BaseLevels DEF Flow
<1>8. Path(<< Step("sysret") >>, K, BOOLEAN, User, User)
  BY <1>1, <1>7, PlainOps, BaseLevels, PathPlain, ZenonT(30)
<1>9. Path(body \o << Step("sysret") >>, K, BOOLEAN, User, User)
  BY <1>6, <1>8, PathJoin
<1>10. QED BY <1>9 DEF K

\* What an interrupt does before it returns.
\* FL_IF is clear.
Off == {FALSE}

LEMMA PathHandler ==
  ASSUME NEW x, NEW X \in {wakeupTicks, << >>}, NEW Y, Y = << >> \/ (Y = yield /\ x \notin Cpu)
  PROVE  Path(X \o Y, Quiet(x), Off, Handler, Handler)
<1> DEFINE K == Quiet(x)
<1>1. LockOps \subseteq K /\ (x \notin Cpu => {"swtch", "resume"} \subseteq K)
  BY PlainOps DEF Quiet, OpsOf
<1> HIDE DEF K
<1>2. "ticks" \in Lock /\ "ticks" # "ptable" /\ {FALSE} \subseteq BOOLEAN
  BY DEF Lock
<1>3. Path(wakeupTicks, K, {FALSE}, Handler, Handler)
  BY <1>1, <1>2, PathNested, ZenonT(30) DEF wakeupTicks, Handler
<1>4. x \notin Cpu => Path(yield, K, {FALSE}, Handler, Handler)
  BY <1>1, <1>2, PathYield, ZenonT(30) DEF Handler
<1>5. Path(<< >>, K, {FALSE}, Handler, Handler)
  BY BaseLevels, PathEmpty, ZenonT(30)
<1>6. Path(X, K, {FALSE}, Handler, Handler) /\ Path(Y, K, {FALSE}, Handler, Handler)
  BY <1>3, <1>4, <1>5
<1>7. Path(X \o Y, K, {FALSE}, Handler, Handler)
  BY <1>6, PathJoin
<1>8. QED BY <1>7 DEF K, Off

-----------------------------------------------------------------------------
(* Annotations of contexts *)

LEMMA AnnWider ==
  ASSUME NEW s, NEW L, NEW K, NEW K2, Ann(s, L, K), K \subseteq K2
  PROVE  Ann(s, L, K2)
BY DEF Ann

LEMMA MaskedShift ==
  ASSUME NEW L \in [Nat -> Level], NEW s, NEW t, NEW n \in Nat, n = Len(s), n > 0, Len(t) = n - 1,
         \A i \in 1 .. n - 1 : t[i].op = s[i + 1].op, Masked(s, L)
  PROVE  Masked(t, Shift(L)) /\ Shift(L)[Len(t) + 1] = L[Len(s) + 1]
<1>1. \A i \in Nat : Shift(L)[i] = L[i + 1]
  BY ShiftLevels
<1>2. ASSUME NEW k \in 1 .. n - 1, t[k].op = "iret", NEW i \in 1 .. k
      PROVE  Shift(L)[i].f \subseteq {FALSE}
  <2>1. k + 1 \in 1 .. n /\ i + 1 \in 1 .. k + 1 /\ i \in Nat
    OBVIOUS
  <2>2. s[k + 1].op = "iret"
    BY <1>2, ZenonT(30)
  <2>3. L[i + 1].f \subseteq {FALSE}
    BY <2>1, <2>2, ZenonT(30) DEF Masked
  <2>4. QED BY <1>1, <2>1, <2>3, ZenonT(30)
<1>3. Masked(t, Shift(L))
  BY <1>2, ZenonT(30) DEF Masked
<1>4. Shift(L)[Len(t) + 1] = L[Len(s) + 1]
  <2>1. n - 1 + 1 \in Nat /\ n - 1 + 1 + 1 = n + 1
    OBVIOUS
  <2>2. QED BY <1>1, <2>1
<1>5. QED BY <1>3, <1>4

\* A context after one of its steps.
LEMMA GoodTail ==
  ASSUME NEW x, NEW s, NEW L, Good(x, s, L), s # << >>, s[1].op \notin {"readeflags", "mycpu", "swtch"}
  PROVE  Good(x, Tail(s), Shift(L))
<1>1. Ann(s, L, OpsOf(x)) /\ L[Len(s) + 1] = EndOf(x) /\ Masked(s, L)
  BY ZenonT(30) DEF Good
<1>2. s \in Seq(Steps) /\ L \in [Nat -> Level]
  BY <1>1 DEF Ann
<1>3. Ann(Tail(s), Shift(L), OpsOf(x))
  BY <1>1, AnnTail
<1>4. PICK n \in Nat : n = Len(s)
  BY <1>2
<1>5. n > 0 /\ Len(Tail(s)) = n - 1 /\ \A i \in 1 .. n - 1 : Tail(s)[i].op = s[i + 1].op
  BY <1>2, <1>4, TailSeq
<1>6. Masked(Tail(s), Shift(L)) /\ Shift(L)[Len(Tail(s)) + 1] = L[Len(s) + 1]
  BY <1>1, <1>2, <1>4, <1>5, MaskedShift, ZenonT(60)
<1>7. QED BY <1>1, <1>3, <1>6 DEF Good

LEMMA GoodWith ==
  ASSUME NEW x, NEW s, NEW L, NEW v, Good(x, s, L), Reads(s, L, v)
  PROVE  LET t == Put(s, v)
         IN /\ Good(x, t, Shift(L)) /\ t # << >> /\ t[1].val = v
            /\ s[1].op = "readeflags" => t[1].op = "cli"
            /\ s[1].op = "mycpu" => t[1].op = "cpuproc"
            /\ s[1].op = "swtch" => t[1].op = "resume"
<1> DEFINE t == Put(s, v)
<1>1. Ann(s, L, OpsOf(x)) /\ L[Len(s) + 1] = EndOf(x) /\ Masked(s, L)
  BY DEF Good
<1>2. s \in Seq(Steps) /\ L \in [Nat -> Level]
  BY <1>1 DEF Ann
<1>3. /\ Len(s) >= 2 /\ t # << >> /\ t[1].op = s[2].op /\ t[1].val = v /\ s[2] \in Steps
      /\ s[1].op = "readeflags" => s[2].op = "cli"
      /\ s[1].op = "mycpu" => s[2].op = "cpuproc"
      /\ s[1].op = "swtch" => s[2].op = "resume"
      /\ Len(t) = Len(s) - 1 /\ \A i \in 2 .. Len(s) - 1 : t[i] = s[i + 1]
      /\ Ann(t, Shift(L), OpsOf(x))
  <2>1. After(s, L, v, OpsOf(x))
    BY <1>1, AnnWith
  <2>2. QED BY <2>1 DEF After
<1> HIDE DEF t
<1>4. t[1].op = s[2].op /\ t[1].val = v
  BY <1>3
<1>5. PICK n \in Nat : n = Len(s)
  BY SMTT(30), <1>2
<1>6. n > 0 /\ Len(t) = n - 1 /\ \A i \in 1 .. n - 1 : t[i].op = s[i + 1].op
  <2>1. n >= 2 /\ \A i \in 2 .. n - 1 : t[i] = s[i + 1]
    BY <1>3, <1>5
  <2>2. ASSUME NEW i \in 1 .. n - 1 PROVE t[i].op = s[i + 1].op
    <3>1. i = 1 \/ i \in 2 .. n - 1
      OBVIOUS
    <3>2. QED BY <1>4, <2>1, <3>1
  <2>3. QED BY <1>3, <1>5, <2>1, <2>2
<1>7. Masked(t, Shift(L)) /\ Shift(L)[Len(t) + 1] = L[Len(s) + 1]
  BY <1>1, <1>2, <1>5, <1>6, MaskedShift, ZenonT(30)
<1>8. Good(x, t, Shift(L))
  BY <1>1, <1>3, <1>7, ZenonT(30) DEF Good
<1>9. QED BY <1>3, <1>4, <1>8 DEF t

\* A context at the start of a routine, or with one in front of its steps.
LEMMA GoodPath ==
  ASSUME NEW x, NEW p, NEW F, NEW A, Path(p, Quiet(x), F, A, EndOf(x))
  PROVE  /\ \E M \in [Nat -> Level] : Good(x, p, M) /\ M[1] = A
         /\ p # << >> => p[1].op # "cpuproc"
<1>1. PICK L \in [Nat -> Level] :
        Ann(p, L, Quiet(x)) /\ L[1] = A /\ L[Len(p) + 1] = EndOf(x) /\ (p # << >> => p[1].op # "cpuproc")
  BY DEF Path
<1>2. Ann(p, L, OpsOf(x))
  BY <1>1, AnnWider DEF Quiet
<1>3. \A k \in 1 .. Len(p) : p[k].op # "iret"
  BY <1>1 DEF Ann, Quiet
<1>4. Masked(p, L)
  BY <1>3 DEF Masked
<1>5. QED BY <1>1, <1>2, <1>4 DEF Good

\* The code t of x starts at level A.
Starts(x, t, A) ==
  /\ \E M \in [Nat -> Level] : Good(x, t, M) /\ M[1] = A
  /\ t # << >> => t[1].op # "cpuproc"

LEMMA GoodJoin ==
  ASSUME NEW x, NEW p, NEW s, NEW L, NEW A, Good(x, s, L), Path(p, Quiet(x), Off, A, L[1]),
         s # << >> => s[1].op # "cpuproc"
  PROVE  Starts(x, p \o s, A)
<1>1. Ann(s, L, OpsOf(x)) /\ L[Len(s) + 1] = EndOf(x) /\ Masked(s, L)
  BY DEF Good
<1>2. PICK P \in [Nat -> Level] :
        /\ Ann(p, P, Quiet(x)) /\ P[1] = A /\ P[Len(p) + 1] = L[1]
        /\ \A i \in 1 .. Len(p) + 1 : P[i].f \subseteq {FALSE}
        /\ p # << >> => p[1].op # "cpuproc"
  BY ZenonT(30) DEF Path, Off
<1>3. s \in Seq(Steps) /\ p \in Seq(Steps) /\ L \in [Nat -> Level]
  BY <1>1, <1>2 DEF Ann
<1>4. Ann(p, P, OpsOf(x))
  BY <1>2, AnnWider DEF Quiet
<1>5. PICK n \in Nat : n = Len(p)
  BY <1>3
<1>6. PICK k \in Nat : k = Len(s)
  BY <1>3
<1> DEFINE u == p \o s
           M == Splice(P, n, L)
<1>7. /\ u \in Seq(Steps) /\ Len(u) = n + k
      /\ \A i \in 1 .. n : u[i] = p[i]
      /\ \A i \in 1 .. k : u[n + i] = s[i]
  BY <1>3, <1>5, <1>6, JoinSeq
<1>8. P[n + 1] = L[1]
  BY <1>2, <1>5
<1>9. /\ M \in [Nat -> Level]
      /\ \A i \in 1 .. n + 1 : M[i] = P[i]
      /\ \A i \in Nat : i > 0 => M[n + i] = L[i]
  BY <1>3, <1>8, SpliceLevels, ZenonT(30)
<1>10. Ann(u, M, OpsOf(x))
  BY <1>1, <1>2, <1>4, <1>5, AnnJoin
<1> HIDE DEF u, M
<1>11. M[1] = A /\ M[Len(u) + 1] = EndOf(x)
  <2>1. 1 \in 1 .. n + 1 /\ k + 1 \in Nat /\ k + 1 > 0 /\ n + k + 1 = n + (k + 1)
    OBVIOUS
  <2>2. M[n + (k + 1)] = L[k + 1]
    BY <1>9, <2>1
  <2>3. QED BY <1>1, <1>2, <1>6, <1>7, <1>9, <2>1, <2>2, ZenonT(30)
<1>12. ASSUME NEW j \in 1 .. n + k, u[j].op = "iret", NEW i \in 1 .. j PROVE M[i].f \subseteq {FALSE}
  <2>1. CASE i <= n + 1
    <3>1. i \in 1 .. n + 1
      BY <2>1
    <3>2. M[i] = P[i] /\ P[i].f \subseteq {FALSE}
      BY <1>2, <1>5, <1>9, <3>1, ZenonT(30)
    <3>3. QED BY <3>2, ZenonT(30)
  <2>2. CASE i > n + 1
    <3>1. i - n \in 1 .. j - n /\ j - n \in 1 .. k /\ n + (j - n) = j /\ n + (i - n) = i
          /\ i - n \in Nat /\ i - n > 0
      BY <2>2
    <3>2. s[j - n].op = "iret" /\ M[i] = L[i - n]
      BY <1>7, <1>9, <1>12, <3>1, ZenonT(30)
    <3>3. L[i - n].f \subseteq {FALSE}
      BY <1>1, <1>6, <3>1, <3>2, ZenonT(30) DEF Masked
    <3>4. QED BY <3>2, <3>3, ZenonT(30)
  <2>3. i <= n + 1 \/ i > n + 1
    OBVIOUS
  <2>4. QED BY <2>1, <2>2, <2>3, Zenon
<1>13. Masked(u, M)
  BY <1>7, <1>12, ZenonT(30) DEF Masked
<1>14. Good(x, u, M)
  BY <1>10, <1>11, <1>13 DEF Good
<1>15. u # << >> => u[1].op # "cpuproc"
  <2>1. CASE n = 0
    <3>1. u # << >> => k > 0
      BY <1>7, <2>1
    <3>2. k > 0 => s # << >> /\ 1 \in 1 .. k /\ n + 1 = 1
      BY SMTT(30), <1>3, <1>6, <2>1
    <3>3. k > 0 => u[1] = s[1]
      BY <1>7, <3>2
    <3>4. QED BY <3>1, <3>2, <3>3
  <2>2. CASE n > 0
    <3>1. p # << >> /\ 1 \in 1 .. n
      BY <1>3, <1>5, <2>2
    <3>2. QED BY <1>2, <1>7, <3>1
  <2>3. QED BY <2>1, <2>2
<1>16. QED BY <1>9, <1>11, <1>14, <1>15, ZenonT(30) DEF u, Starts

\* An interrupt may come at level A.
Open(A) == TRUE \in A.f

\* The code of x, interrupted where FL_IF may be set.
LEMMA GoodIret ==
  ASSUME NEW x, NEW s, NEW L, Good(x, s, L), Open(L[1])
  PROVE  /\ \E M \in [Nat -> Level] : Good(x, << Step("iret") >> \o s, M) /\ M[1] = Handler
         /\ << Step("iret") >> \o s # << >> /\ (<< Step("iret") >> \o s)[1].op # "cpuproc"
<1> DEFINE e == Step("iret")
           p == << e >>
           u == p \o s
<1>1. Ann(s, L, OpsOf(x)) /\ L[Len(s) + 1] = EndOf(x) /\ Masked(s, L)
  BY DEF Good
<1>2. s \in Seq(Steps) /\ L \in [Nat -> Level]
  BY <1>1 DEF Ann
<1>3. L[1] \in Level /\ L[1].n = 0 /\ L[1].f \subseteq BOOLEAN
  <2>1. L[1] \in Level
    BY <1>2
  <2>2. /\ L[1].n \in 0 .. 2 /\ L[1].f \subseteq BOOLEAN
        /\ L[1].n > 0 => L[1].f \subseteq {FALSE}
    BY <2>1, ZenonT(30) DEF Level
  <2>3. ~(L[1].f \subseteq {FALSE})
    BY Zenon DEF Open
  <2>4. ~(L[1].n > 0)
    BY <2>2, <2>3, Zenon
  <2>5. L[1].n = 0
    BY <2>2, <2>4
  <2>6. QED BY <2>1, <2>2, <2>5
<1>4. e \in Steps /\ e.op = "iret" /\ e.lk = None /\ "iret" \in OpsOf(x) /\ "iret" \in Plain
  <2>1. "iret" \in CpuOps /\ "iret" \in ThreadOps
    BY DEF CpuOps, ThreadOps
  <2>2. QED BY <2>1, StepTypes, PlainOps DEF OpsOf
<1>5. Flow("iret", None, Handler, L[1])
  BY <1>3, BaseLevels, ZenonT(30) DEF Flow, Open
<1> HIDE DEF e
<1>6. Path(p, OpsOf(x), BOOLEAN, Handler, L[1])
  BY <1>3, <1>4, <1>5, BaseLevels, PathOne, ZenonT(30)
<1>7. p \in Seq(Steps) /\ Len(p) = 1 /\ p[1] = e
  BY <1>4
<1> HIDE DEF p
<1>8. PICK P \in [Nat -> Level] : Ann(p, P, OpsOf(x)) /\ P[1] = Handler /\ P[Len(p) + 1] = L[1]
  BY <1>6 DEF Path
<1>9. PICK k \in Nat : k = Len(s)
  BY <1>2
<1> DEFINE M == Splice(P, 1, L)
<1>10. /\ u \in Seq(Steps) /\ Len(u) = 1 + k
       /\ \A i \in 1 .. 1 : u[i] = p[i]
       /\ \A i \in 1 .. k : u[1 + i] = s[i]
  <2>0. p \in Seq(Steps) /\ s \in Seq(Steps)
    BY <1>2, <1>7
  <2>1. PICK m \in Nat : m = Len(p)
    BY <1>7
  <2>2. /\ p \o s \in Seq(Steps) /\ Len(p \o s) = m + k
        /\ \A i \in 1 .. m : (p \o s)[i] = p[i]
        /\ \A i \in 1 .. k : (p \o s)[m + i] = s[i]
    BY <1>9, <2>0, <2>1, JoinSeq
  <2>3. m = 1
    BY <1>7, <2>1
  <2>4. QED BY <2>2, <2>3
<1>11. P[1 + 1] = L[1]
  BY <1>7, <1>8
<1>12. /\ M \in [Nat -> Level]
       /\ \A i \in 1 .. 1 + 1 : M[i] = P[i]
       /\ \A i \in Nat : i > 0 => M[1 + i] = L[i]
  <2>1. 1 \in Nat
    OBVIOUS
  <2>2. QED BY <1>2, <1>11, <2>1, SpliceLevels, Zenon
<1>13. \A i \in 1 .. k : s[i].op # "iret"
  <2>1. \A i \in 1 .. k : 1 \in 1 .. i
    OBVIOUS
  <2>2. QED BY <1>1, <1>9, <2>1, ZenonT(30) DEF Masked, Open
<1>14. s # << >> => s[1].op # "cpuproc"
  <2>1. s # << >> => 1 \in 1 .. Len(s)
    BY <1>2
  <2>2. s # << >> => Flow(s[1].op, s[1].lk, L[1], L[1 + 1])
    BY <1>1, <2>1 DEF Ann
  <2>3. QED BY <2>2, ZenonT(30) DEF Flow, Open
<1>15. Ann(u, M, OpsOf(x))
  BY <1>1, <1>7, <1>8, <1>14, AnnJoin, ZenonT(30)
<1> HIDE DEF M, u
<1>16. M[1] = Handler /\ M[Len(u) + 1] = EndOf(x)
  <2>1. 1 \in 1 .. 1 + 1 /\ k + 1 \in Nat /\ k + 1 > 0 /\ 1 + k + 1 = 1 + (k + 1)
    OBVIOUS
  <2>2. M[1 + (k + 1)] = L[k + 1]
    BY <1>12, <2>1
  <2>3. QED BY <1>1, <1>8, <1>9, <1>10, <1>12, <2>1, <2>2, ZenonT(30)
<1>17. u[1] = e
  <2>1. 1 \in 1 .. 1
    OBVIOUS
  <2>2. QED BY <1>7, <1>10, <2>1
<1>18. ASSUME NEW j \in 1 .. 1 + k, u[j].op = "iret", NEW i \in 1 .. j PROVE M[i].f \subseteq {FALSE}
  <2>1. j = 1 \/ (j - 1 \in 1 .. k /\ 1 + (j - 1) = j)
    OBVIOUS
  <2>2. j = 1
    BY <1>10, <1>13, <1>18, <2>1, ZenonT(30)
  <2>3. i = 1
    BY <2>2
  <2>4. QED BY <1>16, <2>3, BaseLevels, ZenonT(30)
<1>19. Masked(u, M)
  BY <1>10, <1>18, ZenonT(30) DEF Masked
<1>20. Good(x, u, M)
  BY <1>15, <1>16, <1>19, ZenonT(30) DEF Good
<1>21. u # << >> /\ u[1].op # "cpuproc"
  BY <1>4, <1>10, <1>17
<1>22. QED BY <1>12, <1>16, <1>20, <1>21, ZenonT(30) DEF u, p, e

\* A context that goes on with another routine.
LEMMA GoodAppend ==
  ASSUME NEW x, NEW p, NEW s, NEW L, NEW F, Good(x, s, L), Path(p, Quiet(x), F, EndOf(x), EndOf(x))
  PROVE  \E M \in [Nat -> Level] : Good(x, s \o p, M) /\ M[1] = L[1]
<1>1. Ann(s, L, OpsOf(x)) /\ L[Len(s) + 1] = EndOf(x) /\ Masked(s, L)
  BY DEF Good
<1>2. PICK P \in [Nat -> Level] :
        /\ Ann(p, P, Quiet(x)) /\ P[1] = EndOf(x) /\ P[Len(p) + 1] = EndOf(x)
        /\ p # << >> => p[1].op # "cpuproc"
  BY ZenonT(30) DEF Path
<1>3. s \in Seq(Steps) /\ p \in Seq(Steps) /\ L \in [Nat -> Level]
  BY <1>1, <1>2, ZenonT(30) DEF Ann
<1>4. Ann(p, P, OpsOf(x))
  BY <1>2, AnnWider DEF Quiet
<1>5. PICK n \in Nat : n = Len(s)
  BY <1>3
<1>6. PICK k \in Nat : k = Len(p)
  BY <1>3
<1> DEFINE u == s \o p
           M == Splice(L, n, P)
<1>7. /\ u \in Seq(Steps) /\ Len(u) = n + k
      /\ \A i \in 1 .. n : u[i] = s[i]
      /\ \A i \in 1 .. k : u[n + i] = p[i]
  BY <1>3, <1>5, <1>6, JoinSeq
<1>8. L[n + 1] = P[1]
  BY <1>1, <1>2, <1>5
<1>9. /\ M \in [Nat -> Level]
      /\ \A i \in 1 .. n + 1 : M[i] = L[i]
      /\ \A i \in Nat : i > 0 => M[n + i] = P[i]
  BY <1>3, <1>8, SpliceLevels, ZenonT(30)
<1>10. Ann(u, M, OpsOf(x))
  BY <1>1, <1>2, <1>4, <1>5, AnnJoin
<1> HIDE DEF u, M
<1>11. M[1] = L[1] /\ M[Len(u) + 1] = EndOf(x)
  <2>1. 1 \in 1 .. n + 1 /\ k + 1 \in Nat /\ k + 1 > 0 /\ n + k + 1 = n + (k + 1)
    OBVIOUS
  <2>2. M[n + (k + 1)] = P[k + 1]
    BY <1>9, <2>1
  <2>3. QED BY <1>2, <1>6, <1>7, <1>9, <2>1, <2>2, ZenonT(30)
<1>12. ASSUME NEW j \in 1 .. n + k, u[j].op = "iret", NEW i \in 1 .. j PROVE M[i].f \subseteq {FALSE}
  <2>1. \A m \in 1 .. k : p[m].op # "iret"
    BY <1>2, <1>6 DEF Ann, Quiet
  <2>2. j \in 1 .. n \/ (j - n \in 1 .. k /\ n + (j - n) = j)
    OBVIOUS
  <2>3. j \in 1 .. n
    BY <1>7, <1>12, <2>1, <2>2
  <2>4. s[j].op = "iret" /\ i \in 1 .. n + 1
    BY <1>7, <1>12, <2>3
  <2>5. L[i].f \subseteq {FALSE}
    BY <1>1, <1>5, <2>3, <2>4, ZenonT(30) DEF Masked
  <2>6. QED BY <1>9, <2>4, <2>5, ZenonT(30)
<1>13. Masked(u, M)
  BY <1>7, <1>12, ZenonT(30) DEF Masked
<1>14. Good(x, u, M)
  BY <1>10, <1>11, <1>13 DEF Good
<1>15. QED BY <1>9, <1>11, <1>14, ZenonT(30) DEF u
=============================================================================
