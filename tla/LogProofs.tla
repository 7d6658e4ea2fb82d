----------------------------- MODULE LogProofs ------------------------------
(***************************************************************************)
(* Proofs about the write-ahead log: the space begin_op reserves is enough *)
(* for every number of processes and every size of the log, and log.c      *)
(* implements the atomic disk.                                             *)
(***************************************************************************)
EXTENDS Log, FiniteSetTheorems, TLAPS

-----------------------------------------------------------------------------
(* Counting reservations: one credit for every block a call under way may  *)
(* still add to the log.                                                   *)

CreditSet(A, used) ==
  {c \in A \X (1..MAXOPBLOCKS) : c[2] > used[c[1]]}

Used == [p \in Procs |-> Cardinality(wrote[p])]
Credits == CreditSet(Active, Used)

\* The credits of finitely many calls are at most MAXOPBLOCKS for each, which
\* is what begin_op's test computes.
LEMMA CreditFinite ==
  ASSUME NEW A, IsFiniteSet(A), NEW used
  PROVE  /\ IsFiniteSet(CreditSet(A, used))
         /\ Cardinality(CreditSet(A, used)) \in Nat
         /\ Cardinality(CreditSet(A, used)) <= Cardinality(A) * MAXOPBLOCKS
<1>1. /\ IsFiniteSet(1..MAXOPBLOCKS)
      /\ Cardinality(1..MAXOPBLOCKS) = MAXOPBLOCKS
  BY FS_Interval, LogConstants
<1>2. /\ IsFiniteSet(A \X (1..MAXOPBLOCKS))
      /\ Cardinality(A \X (1..MAXOPBLOCKS)) = Cardinality(A) * MAXOPBLOCKS
  BY Zenon, <1>1, FS_Product
<1>3. CreditSet(A, used) \in SUBSET (A \X (1..MAXOPBLOCKS))
  BY DEF CreditSet
<1>4. QED
  BY <1>2, <1>3, FS_Subset, FS_CardinalityType

\* Ending calls and spending credits only lowers the count.
LEMMA CreditMono ==
  ASSUME NEW A, IsFiniteSet(A), NEW B \in SUBSET A,
         NEW used, NEW used2,
         \A p \in B : used[p] \in Nat /\ used2[p] \in Nat /\ used2[p] >= used[p]
  PROVE  Cardinality(CreditSet(B, used2)) <= Cardinality(CreditSet(A, used))
<1>1. CreditSet(B, used2) \in SUBSET CreditSet(A, used)
  BY LogConstants DEF CreditSet
<1>2. QED
  BY <1>1, CreditFinite, FS_Subset

\* Adding one block to the log spends exactly one credit of the call.
LEMMA CreditSpend ==
  ASSUME NEW A, IsFiniteSet(A), NEW p \in A,
         NEW used, NEW used2, \A q \in A : used[q] \in Nat,
         used[p] < MAXOPBLOCKS, used2[p] = used[p] + 1,
         \A q \in A \ {p} : used2[q] = used[q]
  PROVE  Cardinality(CreditSet(A, used2)) + 1 = Cardinality(CreditSet(A, used))
<1> DEFINE x == <<p, used[p] + 1>>
<1>1. x \in CreditSet(A, used)
  BY LogConstants DEF CreditSet
<1>2. CreditSet(A, used2) = CreditSet(A, used) \ {x}
  <2>1. ASSUME NEW q \in A, NEW k \in 1..MAXOPBLOCKS
        PROVE  <<q, k>> \in CreditSet(A, used2)
                 <=> <<q, k>> \in CreditSet(A, used) \ {x}
    <3>1. CASE q = p
      BY <3>1, LogConstants DEF CreditSet
    <3>2. CASE q # p
      BY <3>2, LogConstants DEF CreditSet
    <3>3. QED BY <3>1, <3>2
  <2>2. CreditSet(A, used2) \subseteq A \X (1..MAXOPBLOCKS)
        /\ CreditSet(A, used) \subseteq A \X (1..MAXOPBLOCKS)
    BY DEF CreditSet
  <2>3. \A y \in A \X (1..MAXOPBLOCKS) :
          y \in CreditSet(A, used2) <=> y \in CreditSet(A, used) \ {x}
    BY <2>1
  <2>4. QED BY <2>2, <2>3
<1>3. IsFiniteSet(CreditSet(A, used)) /\ Cardinality(CreditSet(A, used)) \in Nat
  BY CreditFinite
<1>4. Cardinality(CreditSet(A, used) \ {x}) = Cardinality(CreditSet(A, used)) - 1
  <2> HIDE DEF x
  <2> QED BY Zenon, <1>1, <1>3, FS_RemoveElement
<1>5. QED
  BY <1>2, <1>3, <1>4

\* A call under way still owns the credits it has not spent.
LEMMA CreditLower ==
  ASSUME NEW A, IsFiniteSet(A), NEW p \in A, NEW used, used[p] \in Nat,
         used[p] <= MAXOPBLOCKS
  PROVE  Cardinality(CreditSet(A, used)) >= MAXOPBLOCKS - used[p]
<1> DEFINE I == (used[p] + 1)..MAXOPBLOCKS
<1>1. IsFiniteSet(I) /\ Cardinality(I) = MAXOPBLOCKS - used[p]
  <2>1. used[p] + 1 \in Int /\ MAXOPBLOCKS \in Int
    BY LogConstants
  <2>2. /\ IsFiniteSet(I)
        /\ Cardinality(I) = IF used[p] + 1 > MAXOPBLOCKS THEN 0
                            ELSE MAXOPBLOCKS - (used[p] + 1) + 1
    BY Zenon, <2>1, FS_Interval
  <2>3. QED BY <2>2, LogConstants
<1>2. IsFiniteSet({p} \X I) /\ Cardinality({p} \X I) = MAXOPBLOCKS - used[p]
  <2>1. IsFiniteSet({p}) /\ Cardinality({p}) = 1
    BY Zenon, FS_Singleton
  <2> HIDE DEF I
  <2>2. IsFiniteSet({p} \X I) /\ Cardinality({p} \X I) = 1 * Cardinality(I)
    BY <1>1, <2>1, FS_Product
  <2>3. QED BY <1>1, <2>2, LogConstants
<1>3. {p} \X I \in SUBSET CreditSet(A, used)
  BY LogConstants DEF CreditSet
<1>4. QED
  BY <1>2, <1>3, CreditFinite, FS_Subset, LogConstants

-----------------------------------------------------------------------------
(* The inductive invariant of the control state.                           *)

\* Which stages go with recovery, with a commit and with normal running.
PhaseInv ==
  /\ recovering => /\ stage \in {"read_head", "install_trans"}
                   /\ ~committing
                   /\ \A p \in Procs : pc[p] = "idle"
  /\ ~recovering => /\ stage # "read_head"
                    /\ committing <=> stage # "none"
  /\ committing => outstanding = 0
  /\ tail <= Len(lh)

\* A process holds a buffer exactly while it is in log_write, and no two
\* processes hold the same one.
BufInv ==
  \A p \in Procs :
     /\ pc[p] = "log_write" <=> buf[p] # NoBlock
     /\ \A q \in Procs : buf[p] = buf[q] /\ buf[p] # NoBlock => p = q

\* What a call has written is in the log, and is within its bound.
WroteInv ==
  \A p \in Procs :
     /\ IsFiniteSet(wrote[p])
     /\ Cardinality(wrote[p]) <= OPBLOCKS
     /\ pc[p] = "log_write" => Cardinality(wrote[p] \cup {buf[p]}) <= OPBLOCKS
     /\ p \in Active => wrote[p] \subseteq Logged

\* The log and the credits of the calls under way fit in LOGSIZE.
SpaceInv ==
  /\ outstanding = Cardinality(Active)
  /\ Len(lh) + Cardinality(Credits) <= LOGSIZE
  /\ Len(lh) < nlog
  /\ Len(head) <= LOGSIZE /\ Len(head) < nlog
  /\ ~panicked

CtlInv == TypeOK /\ PhaseInv /\ BufInv /\ WroteInv /\ SpaceInv

\* The facts about the calls under way that the steps below use.
LEMMA ActiveFinite ==
  ASSUME WroteInv
  PROVE  /\ Active \in SUBSET Procs
         /\ IsFiniteSet(Active)
         /\ Cardinality(Active) \in Nat
         /\ Used \in [Procs -> Nat]
         /\ Cardinality(Credits) \in Nat
<1>1. Active \in SUBSET Procs
  BY DEF Active
<1>2. IsFiniteSet(Active) /\ Cardinality(Active) \in Nat
  BY <1>1, FS_Subset, FS_CardinalityType, LogConstants
<1>3. \A p \in Procs : Cardinality(wrote[p]) \in Nat
  BY Zenon, FS_CardinalityType DEF WroteInv
<1>4. Used \in [Procs -> Nat]
  BY <1>3 DEF Used
<1>5. QED
  BY <1>1, <1>2, <1>4, CreditFinite DEF Credits

\* The empty log is a sequence of block numbers.
LEMMA EmptyLog == <<>> \in Seq(Blocks) /\ Len(<<>>) = 0
  OBVIOUS

\* No step of log.c takes the state out of its types: outstanding never goes
\* below zero and no loop of commit() runs past the log area.
LEMMA TypeStep ==
  ASSUME CtlInv, [Next]_vars
  PROVE  TypeOK'
<1> USE LogConstants DEF CtlInv, TypeOK, PCs, Stages
<1>1. ASSUME NEW b \in Blocks, Bread(b) PROVE TypeOK'
  BY <1>1 DEF Bread, disk, logv, procs, comm
<1>2. ASSUME NEW b \in Blocks, Evict(b) PROVE TypeOK'
  BY <1>2 DEF Evict, disk, logv, procs, comm
<1>3. ASSUME NEW p \in Procs, Call(p) PROVE TypeOK'
  BY <1>3 DEF Call, disk, logv, cache, comm
<1>4. ASSUME NEW p \in Procs, BeginOp(p) PROVE TypeOK'
  BY <1>4 DEF BeginOp, disk, cache, comm
<1>5. ASSUME NEW p \in Procs, BeginOpSleep(p) PROVE TypeOK'
  BY <1>5 DEF BeginOpSleep, disk, logv, cache, comm
<1>6. ASSUME NEW p \in Procs, NEW b \in Blocks, NEW v \in Vals, Modify(p, b, v)
      PROVE  TypeOK'
  BY <1>6 DEF Modify, LogWritePanics, disk, logv, comm
<1>7. ASSUME NEW p \in Procs, Record(p) PROVE TypeOK'
  <2>1. buf[p] \in Blocks
    BY <1>7 DEF Record, BufInv
  <2>2. lh' \in Seq(Blocks)
    BY <1>7, <2>1 DEF Record
  <2>3. QED BY <1>7, <2>1, <2>2 DEF Record, disk, comm
<1>8. ASSUME NEW p \in Procs, EndOp(p) PROVE TypeOK'
  <2>1. outstanding' \in Nat
    <3>1. p \in Active
      BY <1>8 DEF EndOp, Active
    <3>2. outstanding # 0
      BY <3>1, ActiveFinite, FS_EmptySet DEF SpaceInv
    <3>3. QED BY <1>8, <3>2 DEF EndOp
  <2>2. QED BY <1>8, <2>1 DEF EndOp, Woken, disk, cache, comm
<1>9. ASSUME NEW p \in Procs, EndOpLast(p) PROVE TypeOK'
  BY <1>9 DEF EndOpLast, disk, cache
<1>10. CASE WriteLog
  <2>1. lh[tail + 1] \in Blocks
    BY <1>10 DEF WriteLog
  <2>2. View(lh[tail + 1]) \in Vals
    BY <2>1 DEF View
  <2>3. logblk' \in [1..(nlog - 1) -> Vals]
    BY Zenon, <1>10, <2>2 DEF WriteLog
  <2>4. cached' \in [Blocks -> Vals \cup {NotCached}]
    BY <1>10, <2>2 DEF WriteLog
  <2>5. QED BY <1>10, <2>3, <2>4 DEF WriteLog, logv, procs
<1>11. CASE WriteHead
  BY <1>11 DEF WriteHead, logv, cache, procs
<1>12. CASE ReadHead
  BY <1>12 DEF ReadHead, disk, cache, procs
<1>13. CASE InstallTrans
  <2>1. lh[tail + 1] \in Blocks
    BY <1>13 DEF InstallTrans
  <2>2. logblk[tail + 1] \in Vals
    BY <1>13 DEF InstallTrans, SpaceInv
  <2>3. QED BY <1>13, <2>1, <2>2 DEF InstallTrans, logv, procs
<1>14. CASE Erase
  BY Zenon, <1>14, EmptyLog DEF Erase, cache, procs
<1>15. ASSUME NEW p \in Procs, CommitDone(p) PROVE TypeOK'
  BY Zenon, <1>15 DEF CommitDone, Woken, disk, cache
<1>16. CASE Crash
  BY Zenon, <1>16, EmptyLog DEF Crash, disk
<1>17. CASE UNCHANGED vars
  BY <1>17 DEF vars, disk, logv, cache, procs, comm
<1>18. QED
  BY Zenon, <1>1, <1>2, <1>3, <1>4, <1>5, <1>6, <1>7, <1>8, <1>9, <1>10, <1>11,
     <1>12, <1>13, <1>14, <1>15, <1>16, <1>17
  DEF Next, Process, Committer, Cache

\* While a call is under way nothing commits and the kernel is up.
LEMMA ActiveRunning ==
  ASSUME CtlInv, NEW p \in Active
  PROVE  outstanding >= 1 /\ ~committing /\ ~recovering
<1>1. outstanding # 0
  BY ActiveFinite, FS_EmptySet DEF CtlInv, SpaceInv
<1>2. p \in Procs /\ pc[p] # "idle"
  BY DEF Active
<1>3. QED
  BY <1>1, <1>2 DEF CtlInv, TypeOK, PhaseInv

\* During recovery and during a commit no call is under way.
LEMMA NoneActive ==
  ASSUME CtlInv, recovering \/ committing
  PROVE  Active = {}
  BY ActiveRunning

\* What log_write does to the log: the block gets a slot unless it has one.
LEMMA RecordLog ==
  ASSUME CtlInv, NEW p \in Procs, Record(p)
  PROVE  /\ buf[p] \in Blocks
         /\ Logged' = Logged \cup {buf[p]}
         /\ buf[p] \in Logged => lh' = lh
         /\ buf[p] \notin Logged => Len(lh') = Len(lh) + 1
<1>1. buf[p] \in Blocks
  BY DEF Record, BufInv, CtlInv, TypeOK
<1>2. CASE buf[p] \in Logged
  BY <1>1, <1>2 DEF Record, Logged
<1>3. CASE buf[p] \notin Logged
  <2>1. lh' = Append(lh, buf[p]) /\ lh \in Seq(Blocks)
    BY <1>3 DEF Record, CtlInv, TypeOK
  <2>2. /\ Len(lh') = Len(lh) + 1
        /\ \A i \in 1..Len(lh) : lh'[i] = lh[i]
        /\ lh'[Len(lh) + 1] = buf[p]
    BY <2>1, <1>1
  <2>3. Logged' = {lh'[i] : i \in 1..(Len(lh) + 1)}
    BY SMTT(30), <2>2 DEF Logged
  <2>4. QED BY <1>1, <1>3, <2>1, <2>2, <2>3 DEF Logged
<1>4. QED BY <1>2, <1>3

\* Stages, the committing flag and the loop index stay in step.
LEMMA PhaseStep ==
  ASSUME CtlInv, [Next]_vars
  PROVE  PhaseInv'
<1> USE LogConstants DEF CtlInv, PhaseInv, TypeOK, PCs, Stages
<1>1. ASSUME NEW b \in Blocks, Bread(b) PROVE PhaseInv'
  BY <1>1 DEF Bread, disk, logv, procs, comm
<1>2. ASSUME NEW b \in Blocks, Evict(b) PROVE PhaseInv'
  BY <1>2 DEF Evict, disk, logv, procs, comm
<1>3. ASSUME NEW p \in Procs, Call(p) PROVE PhaseInv'
  BY <1>3 DEF Call, disk, logv, cache, comm
<1>4. ASSUME NEW p \in Procs, BeginOp(p) PROVE PhaseInv'
  BY <1>4 DEF BeginOp, MustWait, disk, cache, comm
<1>5. ASSUME NEW p \in Procs, BeginOpSleep(p) PROVE PhaseInv'
  BY <1>5 DEF BeginOpSleep, disk, logv, cache, comm
<1>6. ASSUME NEW p \in Procs, NEW b \in Blocks, NEW v \in Vals, Modify(p, b, v)
      PROVE  PhaseInv'
  BY <1>6 DEF Modify, disk, logv, comm
<1>7. ASSUME NEW p \in Procs, Record(p) PROVE PhaseInv'
  BY <1>7, RecordLog DEF Record, disk, comm
<1>8. ASSUME NEW p \in Procs, EndOp(p) PROVE PhaseInv'
  <2>1. p \in Active
    BY <1>8 DEF EndOp, Active
  <2>2. ~committing /\ ~recovering
    BY <2>1, ActiveRunning
  <2>3. QED BY <1>8, <2>2 DEF EndOp, disk, cache, comm
<1>9. ASSUME NEW p \in Procs, EndOpLast(p) PROVE PhaseInv'
  BY <1>9 DEF EndOpLast, disk, cache
<1>10. CASE WriteLog
  BY <1>10 DEF WriteLog, logv, procs
<1>11. CASE WriteHead
  BY <1>11 DEF WriteHead, logv, cache, procs
<1>12. CASE ReadHead
  BY <1>12 DEF ReadHead, disk, cache, procs
<1>13. CASE InstallTrans
  BY <1>13 DEF InstallTrans, logv, procs
<1>14. CASE Erase
  BY <1>14, EmptyLog DEF Erase, cache, procs
<1>15. ASSUME NEW p \in Procs, CommitDone(p) PROVE PhaseInv'
  BY <1>15 DEF CommitDone, disk, cache
<1>16. CASE Crash
  BY <1>16, EmptyLog DEF Crash, disk
<1>17. CASE UNCHANGED vars
  BY SMTT(30), <1>17 DEF vars, disk, logv, cache, procs, comm
<1> HIDE LogConstants DEF CtlInv, PhaseInv, TypeOK, PCs, Stages
<1>18. QED
  BY SMTT(30), <1>1, <1>2, <1>3, <1>4, <1>5, <1>6, <1>7, <1>8, <1>9, <1>10, <1>11,
     <1>12, <1>13, <1>14, <1>15, <1>16, <1>17
  DEF Next, Process, Committer, Cache

\* A buffer lock has one holder, who is in log_write.
LEMMA BufStep ==
  ASSUME CtlInv, [Next]_vars
  PROVE  BufInv'
<1> USE LogConstants DEF CtlInv, BufInv, TypeOK, PCs
<1>1. ASSUME NEW p \in Procs, Call(p) \/ BeginOp(p) \/ BeginOpSleep(p)
      PROVE  BufInv'
  BY <1>1 DEF Call, BeginOp, BeginOpSleep
<1>2. ASSUME NEW p \in Procs, NEW b \in Blocks, NEW v \in Vals, Modify(p, b, v)
      PROVE  BufInv'
  BY <1>2 DEF Modify, Locked
<1>3. ASSUME NEW p \in Procs, Record(p) PROVE BufInv'
  BY <1>3 DEF Record
<1>4. ASSUME NEW p \in Procs, EndOp(p) \/ EndOpLast(p) PROVE BufInv'
  BY <1>4 DEF EndOp, EndOpLast, Woken
<1>5. ASSUME NEW p \in Procs, CommitDone(p) PROVE BufInv'
  BY <1>5 DEF CommitDone, Woken
<1>6. CASE Crash
  BY <1>6 DEF Crash
<1>7. CASE UNCHANGED procs
  BY <1>7, SMTT(30) DEF procs
<1>8. ASSUME WriteLog \/ WriteHead \/ ReadHead \/ InstallTrans \/ Erase \/ Cache
              \/ UNCHANGED vars
      PROVE  UNCHANGED procs
  BY SMTT(30), <1>8 DEF WriteLog, WriteHead, ReadHead, InstallTrans, Erase, Cache, Bread,
              Evict, vars
<1>9. QED
  BY <1>1, <1>2, <1>3, <1>4, <1>5, <1>6, <1>7, <1>8
  DEF Next, Process, Committer

\* A step that starts no call, writes nothing and leaves the log alone.
LEMMA WroteKeep ==
  ASSUME WroteInv, wrote' = wrote, lh' = lh,
         \A q \in Procs : /\ pc'[q] \in {"inop", "log_write"} =>
                               pc[q] \in {"inop", "log_write"}
                          /\ pc'[q] = "log_write" =>
                               pc[q] = "log_write" /\ buf'[q] = buf[q]
  PROVE  WroteInv'
<1>1. Logged' = Logged
  BY DEF Logged
<1>2. Active' \subseteq Active
  BY DEF Active
<1>3. QED BY Zenon, <1>1, <1>2 DEF WroteInv

\* Every block a call has written is in the log until the group commits.
LEMMA WroteStep ==
  ASSUME CtlInv, [Next]_vars
  PROVE  WroteInv'
<1> USE LogConstants DEF CtlInv, WroteInv
<1>1. ASSUME NEW p \in Procs, Call(p) \/ BeginOpSleep(p) PROVE WroteInv'
  BY Zenon, <1>1, WroteKeep DEF Call, BeginOpSleep, logv, TypeOK
<1>2. ASSUME NEW p \in Procs, BeginOp(p) PROVE WroteInv'
  <2>1. IsFiniteSet({}) /\ Cardinality({}) <= OPBLOCKS
    BY FS_EmptySet
  <2>2. wrote'[p] = {} /\ pc'[p] = "inop" /\ lh' = lh
    BY <1>2 DEF BeginOp, TypeOK
  <2>3. ASSUME NEW q \in Procs, q # p
        PROVE  wrote'[q] = wrote[q] /\ pc'[q] = pc[q] /\ buf'[q] = buf[q]
    BY SMTT(30), <1>2, <2>3 DEF BeginOp, TypeOK
  <2>4. Logged' = Logged
    BY SMTT(30), <2>2 DEF Logged
  <2>5. QED BY Zenon, <2>1, <2>2, <2>3, <2>4 DEF Active
<1>3. ASSUME NEW p \in Procs, NEW b \in Blocks, NEW v \in Vals, Modify(p, b, v)
      PROVE  WroteInv'
  <2>1. /\ Cardinality(wrote[p] \cup {b}) <= OPBLOCKS
        /\ buf'[p] = b /\ wrote' = wrote /\ lh' = lh
        /\ p \in Active /\ pc'[p] = "log_write"
    BY <1>3 DEF Modify, logv, TypeOK, Active
  <2>2. ASSUME NEW q \in Procs, q # p
        PROVE  pc'[q] = pc[q] /\ buf'[q] = buf[q]
    BY SMTT(30), <1>3, <2>2 DEF Modify, TypeOK
  <2>3. Logged' = Logged
    BY <2>1 DEF Logged
  <2>4. QED BY Zenon, <2>1, <2>2, <2>3 DEF Active
<1>4. ASSUME NEW p \in Procs, Record(p) PROVE WroteInv'
  <2>1. /\ IsFiniteSet(wrote[p] \cup {buf[p]})
        /\ Cardinality(wrote[p] \cup {buf[p]}) <= OPBLOCKS
    BY Zenon, <1>4, FS_AddElement DEF Record
  <2>2. Logged' = Logged \cup {buf[p]}
    BY <1>4, RecordLog
  <2>3. ASSUME NEW q \in Procs, q # p
        PROVE  wrote'[q] = wrote[q] /\ pc'[q] = pc[q] /\ buf'[q] = buf[q]
    BY <1>4, <2>3 DEF Record, TypeOK
  <2>4. wrote'[p] = wrote[p] \cup {buf[p]} /\ pc'[p] = "inop" /\ p \in Active
    BY SMTT(30), <1>4 DEF Record, TypeOK, Active
  <2>5. QED BY Zenon, <2>1, <2>2, <2>3, <2>4 DEF Active
<1>5. ASSUME NEW p \in Procs, EndOp(p) \/ EndOpLast(p) PROVE WroteInv'
  BY Zenon, <1>5, WroteKeep DEF EndOp, EndOpLast, Woken, TypeOK
<1>6. ASSUME NEW p \in Procs, CommitDone(p) PROVE WroteInv'
  BY Zenon, <1>6, WroteKeep DEF CommitDone, Woken, TypeOK
<1>7. CASE Crash
  <2>1. \A q \in Procs : pc'[q] = "idle" /\ wrote'[q] = {}
    BY <1>7, SMTT(30) DEF Crash
  <2>2. Active' = {}
    BY <2>1 DEF Active
  <2>3. IsFiniteSet({}) /\ Cardinality({}) = 0 /\ 0 <= OPBLOCKS
    BY FS_EmptySet
  <2>4. ASSUME NEW q \in Procs
        PROVE  /\ IsFiniteSet(wrote'[q]) /\ Cardinality(wrote'[q]) <= OPBLOCKS
               /\ pc'[q] # "log_write" /\ q \notin Active'
    BY Zenon, <2>1, <2>2, <2>3, <2>4
  <2>5. QED BY Zenon, <2>4
<1>8. CASE ReadHead \/ Erase
  <2>1. recovering \/ committing
    BY <1>8 DEF ReadHead, Erase, PhaseInv
  <2>2. Active' = {} /\ UNCHANGED procs
    BY Zenon, <1>8, <2>1, NoneActive DEF ReadHead, Erase, Active, procs
  <2>3. QED BY <2>2, SMTT(30) DEF procs
<1>9. CASE UNCHANGED <<pc, buf, wrote, lh>>
  BY SMTT(30), <1>9 DEF Active, Logged
<1>10. ASSUME WriteLog \/ WriteHead \/ InstallTrans \/ Cache \/ UNCHANGED vars
       PROVE  UNCHANGED <<pc, buf, wrote, lh>>
  BY <1>10 DEF WriteLog, WriteHead, InstallTrans, Cache, Bread, Evict, vars,
               procs, logv
<1>11. QED
  BY Zenon, <1>1, <1>2, <1>3, <1>4, <1>5, <1>6, <1>7, <1>8, <1>9, <1>10
  DEF Next, Process, Committer

\* The log leaves room for every block that a call under way may still add,
\* so none of log_write's tests fires.
LEMMA RoomForCall ==
  ASSUME CtlInv, ReservationSuffices, NEW p \in Active
  PROVE  Len(lh) + MAXOPBLOCKS - Cardinality(wrote[p]) <= LOGSIZE
<1>1. /\ p \in Procs /\ Active \in SUBSET Procs /\ IsFiniteSet(Active)
      /\ Used \in [Procs -> Nat] /\ Cardinality(Credits) \in Nat
  BY ActiveFinite DEF CtlInv
<1>2. Used[p] = Cardinality(wrote[p]) /\ Used[p] <= MAXOPBLOCKS /\ Used[p] \in Nat
  <2>1. Used[p] \in Nat
    BY <1>1
  <2>2. Used[p] = Cardinality(wrote[p])
    BY <1>1 DEF Used
  <2>3. Cardinality(wrote[p]) <= OPBLOCKS
    BY Zenon, <1>1 DEF CtlInv, WroteInv
  <2>4. QED BY <2>1, <2>2, <2>3, LogConstants DEF ReservationSuffices
<1>3. Cardinality(Credits) >= MAXOPBLOCKS - Used[p]
  BY <1>1, <1>2, CreditLower DEF Credits
<1>4. Len(lh) \in Nat
  BY DEF CtlInv, TypeOK
<1>5. QED
  BY <1>1, <1>2, <1>3, <1>4, LogConstants DEF CtlInv, SpaceInv

\* A step that ends calls or leaves them alone keeps the log within LOGSIZE.
LEMMA CreditsShrink ==
  ASSUME CtlInv, WroteInv', Active' \subseteq Active, wrote' = wrote, lh' = lh
  PROVE  Len(lh') + Cardinality(Credits') <= LOGSIZE
<1>1. /\ Active \in SUBSET Procs /\ IsFiniteSet(Active)
      /\ Used \in [Procs -> Nat] /\ Cardinality(Credits) \in Nat
  BY ActiveFinite DEF CtlInv
<1>2. Used' = Used
  BY DEF Used
<1>3. Cardinality(CreditSet(Active', Used)) <= Cardinality(CreditSet(Active, Used))
  BY <1>1, CreditMono
<1>4. Cardinality(Credits') \in Nat
  BY <1>1, <1>2, FS_Subset, CreditFinite DEF Credits
<1>5. Len(lh) \in Nat
  BY DEF CtlInv, TypeOK
<1>6. QED
  BY <1>1, <1>2, <1>3, <1>4, <1>5, LogConstants DEF Credits, CtlInv, SpaceInv

\* The reservation made by begin_op covers every step of log.c.
LEMMA SpaceStep ==
  ASSUME CtlInv, [Next]_vars, ReservationSuffices, WroteInv'
  PROVE  SpaceInv'
<1> USE LogConstants
<1>1. /\ Active \in SUBSET Procs /\ IsFiniteSet(Active) /\ Cardinality(Active) \in Nat
      /\ Used \in [Procs -> Nat] /\ Cardinality(Credits) \in Nat
  BY ActiveFinite DEF CtlInv
<1>2. /\ Len(lh) \in Nat /\ Len(head) \in Nat /\ outstanding \in Nat
      /\ pc \in [Procs -> PCs] /\ wrote \in [Procs -> SUBSET Blocks]
      /\ panicked \in BOOLEAN /\ ~panicked
  BY DEF CtlInv, TypeOK, SpaceInv
<1>3. ASSUME Active' = Active, wrote' = wrote, lh' = lh, outstanding' = outstanding,
             ~panicked', head' \in {head, lh}
      PROVE  SpaceInv'
  <2>1. Len(lh') + Cardinality(Credits') <= LOGSIZE
    BY <1>3, CreditsShrink
  <2>2. Len(lh) <= LOGSIZE
    BY <1>1, <1>2 DEF CtlInv, SpaceInv
  <2>3. QED BY <1>2, <1>3, <2>1, <2>2 DEF CtlInv, SpaceInv
<1>4. ASSUME Active' = {}, outstanding' = 0, ~panicked',
             lh' \in {lh, head, <<>>}, head' \in {head, <<>>}
      PROVE  SpaceInv'
  <2>1. Cardinality(Active') = 0 /\ IsFiniteSet(Active')
    BY <1>4, FS_EmptySet
  <2>2. Credits' = {}
    BY <1>4 DEF Credits, CreditSet
  <2>3. Cardinality(Credits') = 0
    BY <2>2, FS_EmptySet
  <2>4. /\ Len(lh) <= LOGSIZE /\ Len(lh) < nlog
        /\ Len(head) <= LOGSIZE /\ Len(head) < nlog
    BY <1>1, <1>2 DEF CtlInv, SpaceInv
  <2>5. Len(<<>>) = 0 /\ Len(lh') \in Nat
    BY <1>2, <1>4, EmptyLog
  <2>6. QED BY <1>2, <1>4, <2>1, <2>3, <2>4, <2>5 DEF SpaceInv
<1>5. ASSUME NEW p \in Procs, Call(p) \/ BeginOpSleep(p) PROVE SpaceInv'
  <2>1. Active' = Active
    BY <1>2, <1>5 DEF Call, BeginOpSleep, Active
  <2>2. QED BY <1>2, <1>3, <1>5, <2>1 DEF Call, BeginOpSleep, logv, disk
<1>6. ASSUME NEW p \in Procs, BeginOp(p) PROVE SpaceInv'
  <2>1. Active' = Active \cup {p} /\ p \notin Active
    BY <1>2, <1>6 DEF BeginOp, Active
  <2>2. /\ IsFiniteSet(Active')
        /\ Cardinality(Active') = Cardinality(Active) + 1
    BY <1>1, <2>1, FS_AddElement
  <2>3. /\ Cardinality(Credits') \in Nat
        /\ Cardinality(Credits') <= Cardinality(Active') * MAXOPBLOCKS
    BY <2>2, CreditFinite DEF Credits
  <2>4. outstanding = Cardinality(Active)
    BY DEF CtlInv, SpaceInv
  <2>5. /\ outstanding' = outstanding + 1 /\ lh' = lh /\ head' = head /\ ~panicked'
        /\ ~(Len(lh) + (outstanding + 1) * MAXOPBLOCKS > LOGSIZE)
    BY <1>2, <1>6 DEF BeginOp, MustWait, disk
  <2>6. /\ (outstanding + 1) * MAXOPBLOCKS \in Nat
        /\ Len(lh) + (outstanding + 1) * MAXOPBLOCKS <= LOGSIZE
    BY <1>2, <2>5
  <2>7. Len(lh') + Cardinality(Credits') <= LOGSIZE
    BY SMTT(30), <1>2, <2>2, <2>3, <2>4, <2>5, <2>6
  <2>8. QED BY <2>2, <2>4, <2>5, <2>7 DEF CtlInv, SpaceInv
<1>7. ASSUME NEW p \in Procs, NEW b \in Blocks, NEW v \in Vals, Modify(p, b, v)
      PROVE  SpaceInv'
  <2>1. Active' = Active /\ p \in Active
    BY <1>2, <1>7 DEF Modify, Active
  <2>2. Len(lh) + MAXOPBLOCKS - Cardinality(wrote[p]) <= LOGSIZE
    BY <2>1, RoomForCall
  <2>3. Cardinality(wrote[p]) <= OPBLOCKS /\ Cardinality(wrote[p]) \in Nat
    BY Zenon, FS_CardinalityType DEF CtlInv, WroteInv
  <2>4. Len(lh) < LOGSIZE /\ Len(lh) < nlog - 1
    BY <1>2, <2>2, <2>3 DEF ReservationSuffices
  <2>5. outstanding >= 1
    BY <2>1, ActiveRunning
  <2>6. ~panicked'
    BY <1>2, <1>7, <2>4, <2>5 DEF Modify, LogWritePanics
  <2>7. QED BY <1>3, <1>7, <2>1, <2>6 DEF Modify, disk, logv
<1>8. ASSUME NEW p \in Procs, Record(p) PROVE SpaceInv'
  <2>1. Active' = Active /\ p \in Active
    BY <1>2, <1>8 DEF Record, Active
  <2>2. /\ wrote' = [wrote EXCEPT ![p] = wrote[p] \cup {buf[p]}]
        /\ head' = head /\ outstanding' = outstanding /\ ~panicked'
    BY SMTT(30), <1>2, <1>8 DEF Record, disk
  <2>3. /\ IsFiniteSet(wrote[p]) /\ Cardinality(wrote[p]) \in Nat
        /\ Cardinality(wrote[p] \cup {buf[p]}) <= OPBLOCKS
        /\ Cardinality(wrote[p] \cup {buf[p]}) =
             IF buf[p] \in wrote[p] THEN Cardinality(wrote[p])
             ELSE Cardinality(wrote[p]) + 1
    BY Zenon, <1>8, FS_AddElement, FS_CardinalityType DEF Record, CtlInv, WroteInv
  <2>4. \A q \in Procs : Used[q] \in Nat /\ Used[q] = Cardinality(wrote[q])
    <3>1. \A q \in Procs : Used[q] \in Nat
      BY <1>1
    <3>2. QED BY <3>1 DEF Used
  <2>5. \A q \in Procs : Used'[q] = Cardinality(wrote'[q])
    BY DEF Used
  <2>6. \A q \in Procs \ {p} : Used'[q] = Used[q]
    BY <1>2, <2>2, <2>4, <2>5
  <2>7. Used'[p] = Cardinality(wrote[p] \cup {buf[p]})
    BY ZenonT(40), <1>2, <2>2, <2>5
  <2>8. Len(lh') + Cardinality(Credits') <= LOGSIZE /\ Len(lh') < nlog
    <3>1. CASE buf[p] \in Logged
      <4>1. lh' = lh
        BY SMTT(30), <1>8, <3>1, RecordLog
      <4>2. \A q \in Active : Used'[q] \in Nat /\ Used'[q] >= Used[q]
        BY SMTT(30), <1>1, <2>3, <2>4, <2>6, <2>7
      <4>3. Cardinality(CreditSet(Active, Used')) <= Cardinality(CreditSet(Active, Used))
        BY <1>1, <2>4, <4>2, CreditMono
      <4>4. Cardinality(Credits') \in Nat
        BY <1>1, <2>1, CreditFinite DEF Credits
      <4>5. QED
        BY <1>1, <1>2, <2>1, <4>1, <4>3, <4>4 DEF Credits, CtlInv, SpaceInv
    <3>2. CASE buf[p] \notin Logged
      <4>1. Len(lh') = Len(lh) + 1
        BY SMTT(30), <1>8, <3>2, RecordLog
      <4>2. buf[p] \notin wrote[p]
        BY Zenon, <2>1, <3>2 DEF CtlInv, WroteInv
      <4>3. Used'[p] = Used[p] + 1 /\ Used[p] < OPBLOCKS
        BY <2>3, <2>4, <2>7, <4>2
      <4>4. Used[p] < MAXOPBLOCKS
        BY <2>4, <4>3, SMTT(30) DEF ReservationSuffices
      <4>5. Cardinality(CreditSet(Active, Used')) + 1 = Cardinality(CreditSet(Active, Used))
        BY <1>1, <2>1, <2>4, <2>6, <4>3, <4>4, CreditSpend, SMTT(30)
      <4>6. Cardinality(Credits') \in Nat
        BY <1>1, <2>1, CreditFinite DEF Credits
      <4>7. Len(lh) + MAXOPBLOCKS - Used[p] <= LOGSIZE
        BY SMTT(30), <2>1, <2>4, RoomForCall
      <4>8. Len(lh') < nlog
        BY SMTT(30), <1>2, <2>4, <4>1, <4>3, <4>7 DEF ReservationSuffices
      <4>9. QED
        BY <1>1, <1>2, <2>1, <4>1, <4>5, <4>6, <4>8 DEF Credits, CtlInv, SpaceInv
    <3>3. QED BY <3>1, <3>2
  <2>9. QED BY <2>1, <2>2, <2>8 DEF CtlInv, SpaceInv
<1>9. ASSUME NEW p \in Procs, EndOp(p) \/ EndOpLast(p) PROVE SpaceInv'
  <2>1. Active' = Active \ {p} /\ p \in Active
    BY <1>2, <1>9 DEF EndOp, EndOpLast, Woken, Active
  <2>2. /\ outstanding' = outstanding - 1 /\ lh' = lh /\ wrote' = wrote
        /\ head' = head
    BY <1>2, <1>9 DEF EndOp, EndOpLast, disk
  <2>3. ~panicked'
    BY <1>9, <2>1, ActiveRunning DEF EndOp, EndOpLast
  <2>4. Cardinality(Active') = Cardinality(Active) - 1
    BY Zenon, <1>1, <2>1, FS_RemoveElement
  <2>5. Len(lh') + Cardinality(Credits') <= LOGSIZE
    BY <2>1, <2>2, CreditsShrink
  <2>6. QED BY SMTT(30), <2>2, <2>3, <2>4, <2>5 DEF CtlInv, SpaceInv
<1>10. ASSUME NEW p \in Procs, CommitDone(p) PROVE SpaceInv'
  <2>1. Active' = Active
    BY <1>2, <1>10 DEF CommitDone, Woken, Active
  <2>2. QED BY <1>2, <1>3, <1>10, <2>1 DEF CommitDone, disk
<1>11. CASE Crash
  <2>1. Active' = {}
    BY <1>11 DEF Crash, Active
  <2>2. QED BY <1>4, <1>11, <2>1 DEF Crash, disk
<1>12. CASE ReadHead \/ Erase
  <2>1. recovering \/ committing
    BY <1>12 DEF ReadHead, Erase, CtlInv, PhaseInv
  <2>2. Active' = {} /\ outstanding' = outstanding /\ Active = {}
    BY <1>12, <2>1, NoneActive DEF ReadHead, Erase, Active, procs
  <2>3. outstanding' = 0
    BY SMTT(30), <2>2, FS_EmptySet DEF CtlInv, SpaceInv
  <2>4. QED BY <1>2, <1>4, <1>12, <2>2, <2>3 DEF ReadHead, Erase, disk
<1>13. CASE WriteLog \/ WriteHead \/ InstallTrans \/ Cache \/ UNCHANGED vars
  <2>1. Active' = Active
    BY <1>13 DEF WriteLog, WriteHead, InstallTrans, Cache, Bread, Evict, vars,
                 procs, Active
  <2>2. QED
    BY SMTT(30), <1>2, <1>3, <1>13, <2>1
    DEF WriteLog, WriteHead, InstallTrans, Cache, Bread, Evict, vars,
        procs, logv, disk
<1>14. QED
  BY <1>5, <1>6, <1>7, <1>8, <1>9, <1>10, <1>11, <1>12, <1>13
  DEF Next, Process, Committer

\* The boot state satisfies the control invariant.
LEMMA CtlInit ==
  ASSUME Init
  PROVE  CtlInv
<1> USE LogConstants DEF Init
<1>1. TypeOK
  BY Zenon, EmptyLog DEF TypeOK, PCs, Stages
<1>2. PhaseInv
  BY EmptyLog DEF PhaseInv
<1>3. BufInv
  BY DEF BufInv
<1>4. Active = {}
  BY DEF Active
<1>5. WroteInv
  BY <1>4, FS_EmptySet DEF WroteInv
<1>6. Credits = {}
  BY <1>4 DEF Credits, CreditSet
<1>7. SpaceInv
  BY <1>4, <1>6, EmptyLog, FS_EmptySet DEF SpaceInv
<1>8. QED BY <1>1, <1>2, <1>3, <1>5, <1>7 DEF CtlInv

\* The control invariant is inductive whenever the reservation suffices.
LEMMA CtlStep ==
  ASSUME CtlInv, [Next]_vars, ReservationSuffices
  PROVE  CtlInv'
  BY TypeStep, PhaseStep, BufStep, WroteStep, SpaceStep DEF CtlInv

\* The control invariant holds in every state log.c reaches.
LEMMA CtlInvariant ==
  ASSUME ReservationSuffices
  PROVE  Spec => []CtlInv
<1>1. Init => CtlInv
  BY CtlInit
<1>2. CtlInv /\ [Next]_vars => CtlInv'
  BY CtlStep
<1>3. QED BY <1>1, <1>2, PTL DEF Spec

\* Type correctness of the log, in particular that log.outstanding never drops
\* below zero in end_op.
THEOREM LogTypeCorrect ==
  ASSUME ReservationSuffices
  PROVE  Spec => []TypeOK
<1>1. CtlInv => TypeOK
  BY DEF CtlInv
<1>2. QED BY <1>1, CtlInvariant, PTL

\* For every number of processes and every log size: if each call leaves the
\* stated part of its reservation unused, log_write and end_op never panic and
\* the group fits the header and the log area.
THEOREM LogSpaceSafe ==
  ASSUME ReservationSuffices
  PROVE  Spec => []LogSpace
<1>1. CtlInv => LogSpace
  <2> SUFFICES ASSUME CtlInv PROVE LogSpace
    OBVIOUS
  <2>1. Cardinality(Credits) \in Nat /\ Len(lh) \in Nat
    BY ActiveFinite DEF CtlInv, TypeOK
  <2>2. QED BY <2>1, LogConstants DEF CtlInv, SpaceInv, LogSpace, NoPanic
<1>2. QED BY <1>1, CtlInvariant, PTL

\* log.outstanding is exactly the number of calls under way, and commit() runs
\* only when there is none.
THEOREM OutstandingCorrect ==
  ASSUME ReservationSuffices
  PROVE  Spec => []OutstandingExact
<1>1. CtlInv => OutstandingExact
  BY NoneActive DEF CtlInv, SpaceInv, OutstandingExact
<1>2. QED BY <1>1, CtlInvariant, PTL
=============================================================================
