--------------------------- MODULE LogRefinement ----------------------------
(***************************************************************************)
(* Proofs about the data of the log: what is where between the steps of    *)
(* commit() and of recovery, and from it that log.c implements AtomicDisk, *)
(* for every set of processes and blocks.                                  *)
(***************************************************************************)
EXTENDS LogProofs

-----------------------------------------------------------------------------
(* The inductive invariant of the data.  It extends the control invariant  *)
(* of LogProofs.                                                           *)

\* The header on disk is empty except while the group it names is installed.
HeadInv ==
  /\ stage \in {"none", "write_log", "end_op"} => head = <<>>
  /\ stage = "end_op" => lh = <<>>
  /\ stage = "install_trans" => head = lh

\* No block has two slots, in memory or on disk.
Distinct(s) == \A i, j \in 1..Len(s) : s[i] = s[j] => i = j
DistinctInv == Distinct(lh) /\ Distinct(head)

\* The pinned buffers are exactly those of the blocks still to be installed;
\* every other buffer nobody holds equals its disk block.
PinInv ==
  /\ \A p \in Procs : buf[p] # NoBlock => cached[buf[p]] # NotCached
  /\ ~recovering => /\ dirty = Uninstalled
                    /\ \A b \in dirty : cached[b] # NotCached
                    /\ \A b \in Blocks \ dirty :
                         ~Locked(b) => cached[b] \in {home[b], NotCached}
  /\ recovering => /\ dirty = {}
                   /\ \A b \in Blocks : cached[b] \in {home[b], NotCached}

\* How far write_log and install_trans have come.
CopyInv ==
  /\ stage = "write_log" => \A i \in 1..tail : logblk[i] = View(lh[i])
  /\ stage = "install_trans" => \A i \in 1..tail : home[lh[i]] = logblk[i]
  /\ stage = "install_trans" /\ ~recovering =>
       \A i \in 1..Len(lh) : logblk[i] = View(lh[i])

LogInv == CtlInv /\ HeadInv /\ DistinctInv /\ PinInv /\ CopyInv

\* A call under way means stage "none".
LEMMA ActiveStage ==
  ASSUME CtlInv, NEW p \in Procs, pc[p] \in {"inop", "log_write"}
  PROVE  stage = "none" /\ ~recovering /\ ~committing /\ p \in Active
<1>1. p \in Active
  BY DEF Active
<1>2. QED BY <1>1, ActiveRunning DEF CtlInv, PhaseInv

\* In a commit and in recovery no buffer is held by a call.
LEMMA NoneLocked ==
  ASSUME CtlInv, recovering \/ committing, NEW b \in Blocks
  PROVE  ~Locked(b)
<1>1. \A p \in Procs : buf[p] = NoBlock
  BY NoneActive DEF Active, CtlInv, BufInv
<1>2. QED BY <1>1, LogConstants DEF Locked

\* The header is rewritten only at the commit point and when it is erased.
LEMMA HeadStep ==
  ASSUME LogInv, [Next]_vars
  PROVE  HeadInv'
<1> USE DEF LogInv, CtlInv, HeadInv
<1>1. ASSUME NEW p \in Procs, Process(p) PROVE HeadInv'
  <2>1. ASSUME pc[p] \in {"inop", "log_write"} PROVE stage = "none"
    BY <2>1, ActiveStage
  <2>2. CASE Record(p)
    BY <2>1, <2>2 DEF Record, disk, comm
  <2>3. CASE EndOpLast(p)
    BY <2>1, <2>3 DEF EndOpLast, disk, TypeOK
  <2>4. CASE Call(p) \/ BeginOp(p) \/ BeginOpSleep(p) \/ EndOp(p)
    BY <2>4 DEF Call, BeginOp, BeginOpSleep, EndOp, disk, logv, comm
  <2>5. CASE \E b \in Blocks, v \in Vals : Modify(p, b, v)
    BY <2>5 DEF Modify, disk, logv, comm
  <2>6. QED BY <1>1, <2>2, <2>3, <2>4, <2>5 DEF Process
<1>2. CASE Committer
  BY Zenon, <1>2 DEF Committer, WriteLog, WriteHead, ReadHead, InstallTrans, Erase,
              CommitDone, disk, logv, PhaseInv
<1>3. CASE Cache
  BY <1>3 DEF Cache, Bread, Evict, disk, logv, comm
<1>4. CASE Crash
  BY <1>4 DEF Crash, disk
<1>5. CASE UNCHANGED vars
  BY <1>5 DEF vars, disk, logv, comm
<1>6. QED BY <1>1, <1>2, <1>3, <1>4, <1>5 DEF Next

\* Log absorption keeps the slots distinct.
LEMMA DistinctStep ==
  ASSUME LogInv, [Next]_vars
  PROVE  DistinctInv'
<1> USE DEF LogInv, CtlInv, DistinctInv
<1>1. ASSUME NEW p \in Procs, Record(p) PROVE DistinctInv'
  <2>1. CASE buf[p] \in Logged
    BY <1>1, <2>1, RecordLog DEF Record, disk
  <2>2. CASE buf[p] \notin Logged
    <3>1. /\ lh' = Append(lh, buf[p]) /\ lh \in Seq(Blocks) /\ buf[p] \in Blocks
          /\ head' = head
      BY Zenon, <1>1, <2>2, RecordLog DEF Record, TypeOK, disk
    <3>2. /\ Len(lh') = Len(lh) + 1
          /\ \A i \in 1..Len(lh) : lh'[i] = lh[i]
          /\ lh'[Len(lh) + 1] = buf[p]
      BY <3>1
    <3>3. \A i \in 1..Len(lh) : lh[i] # buf[p]
      BY <2>2 DEF Logged
    <3>4. Distinct(lh)'
      BY <3>1, <3>2, <3>3 DEF Distinct
    <3>5. QED BY <3>1, <3>4 DEF Distinct
  <2>3. QED BY <2>1, <2>2
<1>2. ASSUME lh' \in {lh, head, <<>>}, head' \in {head, lh, <<>>} PROVE DistinctInv'
  <2>1. Distinct(<<>>)
    BY EmptyLog DEF Distinct
  <2>2. Distinct(lh')
    BY <1>2, <2>1 DEF Distinct
  <2>3. Distinct(head')
    BY <1>2, <2>1 DEF Distinct
  <2>4. QED BY <2>2, <2>3 DEF Distinct
<1>3. ASSUME NEW p \in Procs, Process(p), ~Record(p)
      PROVE  lh' = lh /\ head' = head
  BY Zenon, <1>3 DEF Process, Call, BeginOp, BeginOpSleep, Modify, EndOp, EndOpLast,
              disk, logv
<1>4. ASSUME Committer \/ Cache \/ Crash \/ UNCHANGED vars
      PROVE  lh' \in {lh, head, <<>>} /\ head' \in {head, lh, <<>>}
  BY Zenon, <1>4 DEF Committer, WriteLog, WriteHead, ReadHead, InstallTrans, Erase,
              CommitDone, Cache, Bread, Evict, Crash, vars, disk, logv
<1>5. QED BY <1>1, <1>2, <1>3, <1>4 DEF Next

\* Outside install_trans the blocks to be installed are all that are logged.
LEMMA UninstalledLogged ==
  ASSUME stage # "install_trans"
  PROVE  Uninstalled = Logged
  BY DEF Uninstalled, Logged

\* Once every block is installed, or with nothing logged, no buffer is pinned.
LEMMA NothingPinned ==
  ASSUME LogInv,
         \/ stage = "install_trans" /\ tail = Len(lh)
         \/ stage = "end_op"
  PROVE  dirty = {}
<1>1. lh \in Seq(Blocks) /\ (stage = "end_op" => lh = <<>>)
  BY DEF LogInv, CtlInv, TypeOK, HeadInv
<1>2. Uninstalled = {}
  BY <1>1, EmptyLog DEF Uninstalled
<1>3. QED BY <1>2 DEF LogInv, PinInv

\* What install_trans has still to do, before and after one block.
LEMMA UninstalledNext ==
  ASSUME LogInv, stage = "install_trans", tail < Len(lh)
  PROVE  /\ lh[tail + 1] \in Uninstalled
         /\ {lh[i] : i \in (tail + 2)..Len(lh)} = Uninstalled \ {lh[tail + 1]}
<1>1. tail \in Nat /\ Len(lh) \in Nat
  BY DEF LogInv, CtlInv, TypeOK
<1>2. Uninstalled = {lh[i] : i \in (tail + 1)..Len(lh)}
  BY DEF Uninstalled
<1>3. \A i \in (tail + 2)..Len(lh) : lh[i] # lh[tail + 1]
  BY <1>1 DEF LogInv, DistinctInv, Distinct
<1>4. \A i \in (tail + 1)..Len(lh) : i = tail + 1 \/ i \in (tail + 2)..Len(lh)
  BY <1>1
<1>5. tail + 1 \in (tail + 1)..Len(lh)
      /\ (tail + 2)..Len(lh) \subseteq (tail + 1)..Len(lh)
  BY <1>1
<1>6. QED BY <1>2, <1>3, <1>4, <1>5

\* A logged block stays pinned until it is installed.
LEMMA PinStep ==
  ASSUME LogInv, [Next]_vars
  PROVE  PinInv'
<1> USE LogConstants DEF LogInv, CtlInv
<1>1. /\ cached \in [Blocks -> Vals \cup {NotCached}] /\ home \in [Blocks -> Vals]
      /\ dirty \subseteq Blocks /\ buf \in [Procs -> Blocks \cup {NoBlock}]
      /\ logblk \in [1..(nlog - 1) -> Vals] /\ lh \in Seq(Blocks) /\ tail \in Nat
      /\ recovering \in BOOLEAN
  BY DEF TypeOK
<1>2. ASSUME NEW b \in Blocks, Bread(b) PROVE PinInv'
  BY <1>1, <1>2 DEF Bread, PinInv, disk, logv, procs, comm, Uninstalled, Locked
<1>3. ASSUME NEW b \in Blocks, Evict(b) PROVE PinInv'
  BY SMTT(30), <1>1, <1>3 DEF Evict, PinInv, disk, logv, procs, comm, Uninstalled, Locked
<1>4. ASSUME NEW p \in Procs, Call(p) \/ BeginOp(p) \/ BeginOpSleep(p) \/ EndOp(p)
      PROVE  PinInv'
  BY <1>1, <1>4 DEF Call, BeginOp, BeginOpSleep, EndOp, PinInv, disk, logv,
                    cache, comm, Uninstalled, Locked
<1>5. ASSUME NEW p \in Procs, NEW b \in Blocks, NEW v \in Vals, Modify(p, b, v)
      PROVE  PinInv'
  <2>1. /\ cached' = [cached EXCEPT ![b] = v] /\ buf' = [buf EXCEPT ![p] = b]
        /\ dirty' = dirty /\ recovering' = recovering /\ home' = home
        /\ v # NotCached /\ ~recovering
    BY <1>5, ActiveStage DEF Modify, disk, comm
  <2>2. Uninstalled' = Uninstalled
    BY <1>5 DEF Modify, logv, comm, Uninstalled
  <2>3. buf[p] = NoBlock
    BY <1>5 DEF Modify, BufInv
  <2>4. \A c \in Blocks : c # b => (Locked(c)' <=> Locked(c))
    BY <1>1, <2>1, <2>3 DEF Locked
  <2>5. Locked(b)'
    BY <1>1, <2>1 DEF Locked
  <2>6. QED BY <1>1, <2>1, <2>2, <2>4, <2>5 DEF PinInv
<1>6. ASSUME NEW p \in Procs, Record(p) PROVE PinInv'
  <2>1. stage = "none" /\ ~recovering
    BY <1>6, ActiveStage DEF Record
  <2>2. /\ dirty' = dirty \cup {buf[p]} /\ buf' = [buf EXCEPT ![p] = NoBlock]
        /\ cached' = cached /\ home' = home /\ stage' = stage
        /\ recovering' = recovering
    BY <1>6 DEF Record, disk, comm
  <2>3. Uninstalled' = Uninstalled \cup {buf[p]}
    <3>1. Uninstalled = Logged
      BY <2>1, UninstalledLogged
    <3>2. Uninstalled' = Logged'
      BY <2>1, <2>2 DEF Uninstalled, Logged
    <3>3. QED BY <1>6, <3>1, <3>2, RecordLog
  <2>4. buf[p] # NoBlock /\ cached[buf[p]] # NotCached
    BY <1>6 DEF Record, BufInv, PinInv
  <2>5. \A c \in Blocks : c # buf[p] => (Locked(c)' <=> Locked(c))
    BY <1>1, <2>2 DEF Locked
  <2>6. QED BY <1>1, <2>1, <2>2, <2>3, <2>4, <2>5 DEF PinInv
<1>7. ASSUME NEW p \in Procs, EndOpLast(p) PROVE PinInv'
  <2>1. stage = "none" /\ ~recovering
    BY <1>7, ActiveStage DEF EndOpLast
  <2>2. Uninstalled' = Uninstalled
    BY <1>7, <2>1 DEF EndOpLast, Uninstalled
  <2>3. QED BY <1>7, <2>1, <2>2 DEF EndOpLast, PinInv, disk, cache, Locked
<1>8. CASE WriteLog
  <2> DEFINE b == lh[tail + 1]
  <2>1. b \in Blocks /\ b \in Logged /\ View(b) = cached[b]
    <3>1. b \in Blocks /\ b \in Logged
      BY <1>1, <1>8 DEF WriteLog, Logged
    <3>2. b \in dirty
      BY <1>8, <3>1, UninstalledLogged DEF WriteLog, PinInv, PhaseInv
    <3>3. ~recovering
      BY <1>8 DEF WriteLog, PhaseInv
    <3>4. QED BY <3>1, <3>2, <3>3 DEF PinInv, View
  <2>2. cached' = cached
    BY <1>1, <1>8, <2>1 DEF WriteLog
  <2>3. Uninstalled' = Uninstalled
    BY <1>8, ZenonT(30) DEF WriteLog, Uninstalled, logv
  <2>4. QED BY <1>8, <2>2, <2>3 DEF WriteLog, PinInv, Locked, procs
<1>9. CASE WriteHead
  <2>1. Uninstalled' = Uninstalled
    BY <1>9 DEF WriteHead, Uninstalled, logv
  <2>2. QED BY <1>9, <2>1 DEF WriteHead, PinInv, Locked, procs, cache
<1>10. CASE ReadHead
  <2>1. recovering
    BY <1>10 DEF ReadHead, PhaseInv
  <2>2. QED BY <1>10, <2>1 DEF ReadHead, PinInv, procs, cache, disk
<1>11. CASE InstallTrans
  <2> DEFINE b == lh[tail + 1]
  <2>1. /\ home' = [home EXCEPT ![b] = logblk[tail + 1]]
        /\ cached' = [cached EXCEPT ![b] = logblk[tail + 1]]
        /\ dirty' = dirty \ {b} /\ b \in Blocks /\ buf' = buf
        /\ recovering' = recovering
        /\ logblk[tail + 1] \in Vals
    BY <1>1, <1>11 DEF InstallTrans, procs, SpaceInv
  <2>2. Uninstalled' = Uninstalled \ {b}
    <3>1. Uninstalled' = {lh[i] : i \in (tail + 2)..Len(lh)}
      BY <1>1, <1>11 DEF InstallTrans, Uninstalled, logv
    <3>2. QED BY <1>11, <3>1, UninstalledNext DEF InstallTrans
  <2>3. \A c \in Blocks : Locked(c)' <=> Locked(c)
    BY <2>1 DEF Locked
  <2>4. QED
    <3> HIDE DEF b
    <3> QED BY <1>1, <2>1, <2>2, <2>3 DEF PinInv
<1>12. CASE Erase
  <2>1. Uninstalled = {} /\ dirty = {}
    <3>1. Uninstalled = {}
      BY <1>1, <1>12 DEF Erase, Uninstalled
    <3>2. QED BY <1>1, <3>1 DEF PinInv
  <2>2. Uninstalled' = {}
    BY <1>12, EmptyLog DEF Erase, Uninstalled
  <2>3. \A b \in Blocks : ~Locked(b) /\ ~Locked(b)'
    BY <1>12, NoneLocked DEF Erase, PhaseInv, Locked, procs
  <2>4. QED BY <1>12, <2>1, <2>2, <2>3 DEF Erase, PinInv, procs, cache
<1>13. ASSUME NEW p \in Procs, CommitDone(p) PROVE PinInv'
  <2>1. Uninstalled' = Uninstalled
    BY SMTT(30), <1>13 DEF CommitDone, Uninstalled
  <2>2. QED BY <1>13, <2>1 DEF CommitDone, PinInv, disk, cache, Locked
<1>14. CASE Crash
  BY SMTT(30), <1>14 DEF Crash, PinInv
<1>15. CASE UNCHANGED vars
  BY <1>15 DEF vars, disk, logv, cache, procs, comm, PinInv, Uninstalled, Locked
<1>16. QED
  BY SMTT(30), <1>2, <1>3, <1>4, <1>5, <1>6, <1>7, <1>8, <1>9, <1>10, <1>11, <1>12,
     <1>13, <1>14, <1>15, SMTT(30)
  DEF Next, Process, Committer, Cache

\* Reading a block into the cache or recycling a clean buffer changes nothing
\* that bread returns.
LEMMA CacheView ==
  ASSUME LogInv, Cache
  PROVE  \A c \in Blocks : View(c)' = View(c)
<1>1. cached \in [Blocks -> Vals \cup {NotCached}] /\ home \in [Blocks -> Vals]
  BY DEF LogInv, CtlInv, TypeOK
<1>2. ASSUME NEW b \in Blocks, Bread(b) PROVE \A c \in Blocks : View(c)' = View(c)
  BY <1>1, <1>2, LogConstants DEF Bread, View, disk
<1>3. ASSUME NEW b \in Blocks, Evict(b) PROVE \A c \in Blocks : View(c)' = View(c)
  <2>1. cached[b] = home[b]
    BY <1>1, <1>3 DEF Evict, LogInv, PinInv
  <2>2. QED BY <1>1, <1>3, <2>1 DEF Evict, View, disk
<1>4. QED BY <1>2, <1>3 DEF Cache

\* Nor do the copies of write_log and, in a commit, of install_trans.
LEMMA CopyView ==
  ASSUME LogInv, ~recovering, WriteLog \/ InstallTrans
  PROVE  \A c \in Blocks : View(c)' = View(c)
<1>1. /\ cached \in [Blocks -> Vals \cup {NotCached}] /\ home \in [Blocks -> Vals]
      /\ logblk \in [1..(nlog - 1) -> Vals] /\ lh \in Seq(Blocks) /\ tail \in Nat
  BY DEF LogInv, CtlInv, TypeOK
<1>2. CASE WriteLog
  <2>1. lh[tail + 1] \in Blocks
    BY <1>1, <1>2 DEF WriteLog
  <2>2. QED BY <1>1, <1>2, <2>1, LogConstants DEF WriteLog, View
<1>3. CASE InstallTrans
  <2>1. lh[tail + 1] \in Blocks /\ tail + 1 \in 1..Len(lh) /\ tail + 1 \in 1..(nlog - 1)
    BY <1>1, <1>3, LogConstants DEF InstallTrans, LogInv, CtlInv, SpaceInv
  <2>2. logblk[tail + 1] = View(lh[tail + 1]) /\ logblk[tail + 1] \in Vals
    BY <1>1, <1>3, <2>1 DEF InstallTrans, LogInv, CopyInv
  <2>3. QED BY <1>1, <1>3, <2>1, <2>2, LogConstants, SMTT(30) DEF InstallTrans, View
<1>4. QED BY <1>2, <1>3

\* write_log copies what bread returns, install_trans copies that home.
LEMMA CopyStep ==
  ASSUME LogInv, [Next]_vars
  PROVE  CopyInv'
<1> USE DEF LogInv, CtlInv
<1>1. /\ home \in [Blocks -> Vals] /\ logblk \in [1..(nlog - 1) -> Vals]
      /\ lh \in Seq(Blocks) /\ tail \in Nat /\ tail <= Len(lh) /\ Len(lh) < nlog
      /\ Len(lh) \in Nat /\ nlog \in Nat
  BY LogConstants DEF TypeOK, PhaseInv, SpaceInv
<1>2. \A i \in 1..Len(lh) : lh[i] \in Blocks
  BY <1>1
<1>3. ASSUME UNCHANGED <<home, logblk, lh, stage, tail, recovering>>,
             \A c \in Blocks : View(c)' = View(c)
      PROVE  CopyInv'
  <2>1. \A i \in 1..Len(lh) : View(lh[i])' = View(lh[i])
    BY <1>2, <1>3
  <2>2. QED BY <1>1, <1>3, <2>1 DEF CopyInv
<1>4. CASE Cache
  <2>1. UNCHANGED <<home, logblk, lh, stage, tail, recovering>>
    BY <1>4 DEF Cache, Bread, Evict, disk, logv, comm
  <2>2. QED BY <1>3, <1>4, <2>1, CacheView
<1>5. ASSUME NEW p \in Procs, Call(p) \/ BeginOp(p) \/ BeginOpSleep(p) \/ EndOp(p)
      PROVE  CopyInv'
  <2>1. UNCHANGED <<home, logblk, lh, stage, tail, recovering, cached>>
    BY SMTT(30), <1>5 DEF Call, BeginOp, BeginOpSleep, EndOp, disk, logv, comm, cache
  <2>2. QED BY <1>3, <2>1 DEF View
<1>6. ASSUME NEW p \in Procs, (\E b \in Blocks, v \in Vals : Modify(p, b, v)) \/ Record(p)
      PROVE  CopyInv'
  <2>1. stage = "none"
    BY Zenon, <1>6, ActiveStage DEF Modify, Record
  <2>2. stage' = "none"
    BY Zenon, <1>6, <2>1 DEF Modify, Record, comm
  <2>3. QED BY <2>2 DEF CopyInv
<1>7. ASSUME NEW p \in Procs, EndOpLast(p) PROVE CopyInv'
  BY <1>7 DEF EndOpLast, CopyInv
<1>8. CASE WriteLog
  <2>1. ~recovering
    BY <1>8 DEF WriteLog, PhaseInv
  <2>2. \A c \in Blocks : View(c)' = View(c)
    BY <1>8, <2>1, CopyView
  <2>3. /\ stage' = "write_log" /\ tail' = tail + 1 /\ lh' = lh /\ tail < Len(lh)
        /\ logblk' = [logblk EXCEPT ![tail + 1] = View(lh[tail + 1])]
    BY <1>8 DEF WriteLog, logv
  <2>4. ASSUME NEW i \in 1..(tail + 1) PROVE logblk'[i] = View(lh[i])
    <3>1. CASE i = tail + 1
      BY <1>1, <2>3, <3>1
    <3>2. CASE i # tail + 1
      <4>1. i \in 1..tail /\ i \in 1..(nlog - 1)
        BY <1>1, <2>3, <3>2
      <4>2. logblk[i] = View(lh[i])
        BY <1>8, <4>1 DEF WriteLog, CopyInv
      <4>3. QED BY <1>1, <2>3, <3>2, <4>1, <4>2
    <3>3. QED BY <3>1, <3>2
  <2>5. \A i \in 1..(tail + 1) : View(lh[i])' = View(lh[i])
    BY <1>1, <1>2, <2>2, <2>3
  <2>6. QED BY <2>3, <2>4, <2>5 DEF CopyInv
<1>9. CASE WriteHead
  <2>1. \A i \in 1..Len(lh) : logblk[i] = View(lh[i])
    BY <1>9 DEF WriteHead, CopyInv
  <2>2. \A c : View(c)' = View(c)
    BY <1>9 DEF WriteHead, View, cache
  <2>3. QED BY SMTT(30), <1>1, <1>9, <2>1, <2>2 DEF WriteHead, CopyInv, logv
<1>10. CASE ReadHead
  <2>1. recovering' /\ tail' = 0 /\ stage' = "install_trans"
    BY <1>10 DEF ReadHead, PhaseInv, TypeOK
  <2>2. QED BY <2>1 DEF CopyInv
<1>11. CASE InstallTrans
  <2> DEFINE b == lh[tail + 1]
  <2>1. /\ stage = "install_trans" /\ stage' = "install_trans" /\ tail' = tail + 1
        /\ lh' = lh /\ logblk' = logblk /\ recovering' = recovering /\ tail < Len(lh)
        /\ home' = [home EXCEPT ![b] = logblk[tail + 1]]
    BY <1>11 DEF InstallTrans, logv
  <2>2. ASSUME NEW i \in 1..(tail + 1) PROVE home'[lh[i]] = logblk[i]
    <3>1. CASE i = tail + 1
      BY <1>1, <1>2, <2>1, <3>1
    <3>2. CASE i # tail + 1
      <4>1. i \in 1..tail /\ i \in 1..Len(lh) /\ tail + 1 \in 1..Len(lh)
        BY <1>1, <2>1, <3>2
      <4>2. lh[i] # b
        BY <3>2, <4>1 DEF DistinctInv, Distinct
      <4>3. home[lh[i]] = logblk[i]
        BY <2>1, <4>1 DEF CopyInv
      <4>4. QED BY <1>1, <1>2, <2>1, <4>1, <4>2, <4>3
    <3>3. QED BY <3>1, <3>2
  <2>3. ASSUME ~recovering, NEW i \in 1..Len(lh) PROVE logblk[i] = View(lh[i])'
    <3>1. logblk[i] = View(lh[i])
      BY <2>1, <2>3 DEF CopyInv
    <3>2. \A c \in Blocks : View(c)' = View(c)
      BY <1>11, <2>3, CopyView
    <3>3. QED BY <1>2, <2>1, <3>1, <3>2
  <2>4. QED BY <2>1, <2>2, <2>3 DEF CopyInv
<1>12. CASE Erase
  BY <1>12 DEF Erase, CopyInv
<1>13. ASSUME NEW p \in Procs, CommitDone(p) PROVE CopyInv'
  BY <1>13 DEF CommitDone, CopyInv
<1>14. CASE Crash
  BY <1>14 DEF Crash, CopyInv
<1>15. CASE UNCHANGED vars
  BY <1>3, <1>15 DEF vars, disk, logv, cache, comm, View
<1>16. QED
  BY SMTT(30), <1>4, <1>5, <1>6, <1>7, <1>8, <1>9, <1>10, <1>11, <1>12, <1>13, <1>14, <1>15
  DEF Next, Process, Committer

\* At boot nothing is logged, so the data invariants hold.
LEMMA LogInit ==
  ASSUME Init
  PROVE  LogInv
<1>1. CtlInv
  BY CtlInit
<1>2. HeadInv
  BY DEF Init, HeadInv
<1>3. DistinctInv
  BY EmptyLog DEF Init, DistinctInv, Distinct
<1>4. PinInv
  BY DEF Init, PinInv
<1>5. CopyInv
  BY DEF Init, CopyInv
<1>6. QED BY <1>1, <1>2, <1>3, <1>4, <1>5 DEF LogInv

\* Control and data invariants together hold in every state log.c reaches.
LEMMA LogInvariant ==
  ASSUME ReservationSuffices
  PROVE  Spec => []LogInv
<1>1. Init => LogInv
  BY LogInit
<1>2. LogInv /\ [Next]_vars => LogInv'
  BY CtlStep, HeadStep, DistinctStep, PinStep, CopyStep DEF LogInv
<1>3. QED BY <1>1, <1>2, PTL DEF Spec

\* A block has one slot in the log, for every number of blocks and calls.
THEOREM AbsorptionCorrect ==
  ASSUME ReservationSuffices
  PROVE  Spec => []Absorbed
<1>1. LogInv => Absorbed
  BY DEF LogInv, DistinctInv, Distinct, Absorbed
<1>2. QED BY <1>1, LogInvariant, PTL

\* B_DIRTY pins every logged block until it is installed, and bget may recycle
\* every other buffer nobody holds.
THEOREM PinningCorrect ==
  ASSUME ReservationSuffices
  PROVE  Spec => []Pinned
<1>1. LogInv => Pinned
  BY DEF LogInv, PinInv, Pinned
<1>2. QED BY <1>1, LogInvariant, PTL

\* All of LogSafe together: exact counts, one slot per block, logged blocks pinned.
THEOREM LogSafeHolds ==
  ASSUME ReservationSuffices
  PROVE  Spec => []LogSafe
<1>1. TypeOK /\ OutstandingExact /\ Absorbed /\ Pinned => LogSafe
  BY DEF LogSafe
<1>2. QED BY <1>1, LogTypeCorrect, OutstandingCorrect, AbsorptionCorrect, PinningCorrect, PTL

-----------------------------------------------------------------------------
(* The refinement.  The durable contents are what recovery would restore;  *)
(* they change only in WriteHead, the commit point.  The contents the file *)
(* system works on change only in Modify and in Crash.                     *)

\* The contents recovery makes of home blocks hm, log blocks l and header hd.
Restored(hm, l, hd) ==
  [b \in Blocks |->
     IF \E i \in 1..Len(hd) : hd[i] = b
     THEN l[CHOOSE i \in 1..Len(hd) : hd[i] = b]
     ELSE hm[b]]

\* Recovery restores a block the header names from its slot.
LEMMA RestoredNamed ==
  ASSUME NEW hm, NEW l, NEW hd \in Seq(Blocks), Distinct(hd), NEW i \in 1..Len(hd)
  PROVE  Restored(hm, l, hd)[hd[i]] = l[i]
<1>1. hd[i] \in Blocks
  OBVIOUS
<1>2. (CHOOSE j \in 1..Len(hd) : hd[j] = hd[i]) = i
  BY DEF Distinct
<1>3. QED BY Zenon, <1>1, <1>2 DEF Restored

\* Recovery leaves every other block alone.
LEMMA RestoredOther ==
  ASSUME NEW hm, NEW l, NEW hd \in Seq(Blocks), NEW b \in Blocks,
         \A i \in 1..Len(hd) : hd[i] # b
  PROVE  Restored(hm, l, hd)[b] = hm[b]
  BY DEF Restored

\* With an empty header recovery changes nothing.
LEMMA RestoredEmpty ==
  ASSUME NEW hm \in [Blocks -> Vals], NEW l
  PROVE  Restored(hm, l, <<>>) = hm
  BY EmptyLog DEF Restored

\* Recovery of a log whose blocks all are home already changes nothing.
LEMMA RestoredInstalled ==
  ASSUME NEW hm \in [Blocks -> Vals], NEW l, NEW hd \in Seq(Blocks), Distinct(hd),
         \A i \in 1..Len(hd) : hm[hd[i]] = l[i]
  PROVE  Restored(hm, l, hd) = hm
<1>1. ASSUME NEW b \in Blocks PROVE Restored(hm, l, hd)[b] = hm[b]
  <2>1. CASE \E i \in 1..Len(hd) : hd[i] = b
    <3>1. PICK i \in 1..Len(hd) : hd[i] = b
      BY <2>1
    <3>2. QED BY <3>1, RestoredNamed
  <2>2. CASE \A i \in 1..Len(hd) : hd[i] # b
    BY <2>2, RestoredOther
  <2>3. QED BY <2>1, <2>2
<1>2. QED BY <1>1 DEF Restored

\* Installing a block the header names does not change what recovery restores.
LEMMA RestoredInstall ==
  ASSUME NEW hm \in [Blocks -> Vals], NEW l, NEW hd \in Seq(Blocks),
         NEW i \in 1..Len(hd), NEW v
  PROVE  Restored([hm EXCEPT ![hd[i]] = v], l, hd) = Restored(hm, l, hd)
<1>1. ASSUME NEW b \in Blocks, \A j \in 1..Len(hd) : hd[j] # b
      PROVE  [hm EXCEPT ![hd[i]] = v][b] = hm[b]
  BY <1>1
<1>2. QED BY <1>1 DEF Restored

\* What bread returns, as a function of the blocks.
ViewMap == [b \in Blocks |-> View(b)]

\* The actions of the atomic disk, with the log's state in place of its own.
LEMMA MapDefs ==
  /\ Recovered = Restored(home, logblk, head)
  /\ Recovered' = Restored(home', logblk', head')
  /\ CurrentView = IF recovering THEN Recovered ELSE ViewMap
  /\ CurrentView' = IF recovering' THEN Recovered' ELSE ViewMap'
  BY DEF Recovered, Restored, CurrentView, ViewMap

\* Once the group is installed, or before anything is logged, bread returns the
\* disk's contents.
LEMMA CleanView ==
  ASSUME LogInv, dirty = {}, \A b \in Blocks : ~Locked(b)
  PROVE  ViewMap = home
<1>1. home \in [Blocks -> Vals] /\ \A b \in Blocks : cached[b] \in {home[b], NotCached}
  BY DEF LogInv, CtlInv, TypeOK, PinInv
<1>2. \A b \in Blocks : View(b) = home[b]
  BY <1>1 DEF View
<1>3. QED BY <1>1, <1>2 DEF ViewMap

\* The boot state is an initial state of the atomic disk.
LEMMA RefineInit ==
  ASSUME Init
  PROVE  AD!AInit
<1>1. Recovered = home
  BY RestoredEmpty, MapDefs, LogConstants DEF Init
<1>2. Active = {}
  BY DEF Init, Active
<1>3. CurrentView = Recovered
  BY DEF Init, CurrentView
<1>4. QED BY <1>1, <1>2, <1>3 DEF AD!AInit, Init

\* Steps that touch neither the disk nor the contents bread returns stutter.
LEMMA StutterStep ==
  ASSUME UNCHANGED disk, UNCHANGED recovering, ViewMap' = ViewMap,
         Active' = Active, committing' = committing
  PROVE  UNCHANGED AD!avars
<1>1. Recovered' = Recovered
  BY DEF Recovered, disk
<1>2. CurrentView' = CurrentView
  BY <1>1, MapDefs
<1>3. QED BY <1>1, <1>2 DEF AD!avars

\* begin_op, log_write and end_op are Begin, Write and End of the atomic disk.
LEMMA RefineProcess ==
  ASSUME LogInv, NEW p \in Procs, Process(p)
  PROVE  AD!ANext \/ UNCHANGED AD!avars
<1>1. /\ pc \in [Procs -> PCs] /\ cached \in [Blocks -> Vals \cup {NotCached}]
      /\ home \in [Blocks -> Vals]
  BY DEF LogInv, CtlInv, TypeOK
<1>2. ASSUME UNCHANGED <<home, cached>> PROVE ViewMap' = ViewMap
  BY <1>2 DEF ViewMap, View
<1>3. ASSUME UNCHANGED disk, UNCHANGED recovering, ViewMap' = ViewMap
      PROVE  Recovered' = Recovered /\ CurrentView' = CurrentView
  <2>1. Recovered' = Recovered
    BY <1>3 DEF Recovered, disk
  <2>2. QED BY <1>3, <2>1, MapDefs
<1>4. CASE Call(p) \/ BeginOpSleep(p)
  <2>1. Active' = Active
    BY <1>1, <1>4 DEF Call, BeginOpSleep, Active
  <2>2. QED BY <1>2, <1>4, <2>1, StutterStep
            DEF Call, BeginOpSleep, disk, logv, cache, comm
<1>5. CASE BeginOp(p)
  <2>1. Active' = Active \cup {p} /\ p \notin Active
    BY <1>1, <1>5 DEF BeginOp, Active
  <2>2. Recovered' = Recovered /\ CurrentView' = CurrentView
    BY <1>2, <1>3, <1>5 DEF BeginOp, disk, cache, comm
  <2>3. ~committing /\ committing' = committing
    BY <1>5 DEF BeginOp, MustWait
  <2>4. QED BY <2>1, <2>2, <2>3 DEF AD!ANext, AD!Begin
<1>6. ASSUME NEW b \in Blocks, NEW v \in Vals, Modify(p, b, v) PROVE AD!ANext
  <2>1. Active' = Active /\ p \in Active
    BY <1>1, <1>6 DEF Modify, Active
  <2>2. ~recovering
    BY <2>1, ActiveRunning, ZenonT(30) DEF LogInv
  <2>3. /\ cached' = [cached EXCEPT ![b] = v] /\ UNCHANGED disk
        /\ recovering' = recovering /\ committing' = committing
    BY <1>6 DEF Modify, comm, logv
  <2>4. ViewMap' = [ViewMap EXCEPT ![b] = v]
    <3>1. \A c \in Blocks : View(c)' = IF c = b THEN v ELSE View(c)
      BY <1>1, <2>3, LogConstants DEF View, disk
    <3>2. QED BY Zenon, <3>1 DEF ViewMap
  <2>5. Recovered' = Recovered
    BY <2>3 DEF Recovered, disk
  <2>6. CurrentView' = [CurrentView EXCEPT ![b] = v]
    BY <2>2, <2>3, <2>4, MapDefs
  <2>7. QED BY Zenon, <2>1, <2>3, <2>5, <2>6 DEF AD!ANext, AD!Write
<1>7. CASE Record(p)
  <2>1. Active' = Active
    BY <1>1, <1>7 DEF Record, Active
  <2>2. QED BY <1>2, <1>7, <2>1, StutterStep DEF Record, disk, comm
<1>8. CASE EndOp(p) \/ EndOpLast(p)
  <2>1. Active' = Active \ {p} /\ p \in Active
    BY <1>1, <1>8 DEF EndOp, EndOpLast, Woken, Active
  <2>2. Recovered' = Recovered /\ CurrentView' = CurrentView
    BY <1>2, <1>3, <1>8 DEF EndOp, EndOpLast, disk, cache, comm
  <2>3. ~committing
    BY <2>1, ActiveRunning DEF LogInv
  <2>4. IsFiniteSet(Active) /\ outstanding = Cardinality(Active)
    BY ActiveFinite DEF LogInv, CtlInv, SpaceInv
  <2>5. IsFiniteSet(Active') /\ Cardinality(Active') = outstanding - 1
    BY <2>1, <2>4, FS_RemoveElement
  <2>6. Active' = {} <=> outstanding - 1 = 0
    BY Zenon, <2>5, FS_EmptySet
  <2>7. outstanding \in Nat
    BY DEF LogInv, CtlInv, TypeOK
  <2>8. committing' = (Active' = {})
    <3>1. committing = FALSE
      BY <2>3 DEF LogInv, CtlInv, TypeOK
    <3>2. CASE EndOp(p)
      <4>1. committing' = FALSE /\ outstanding - 1 # 0
        BY <2>7, <3>1, <3>2 DEF EndOp
      <4>2. (Active' = {}) = FALSE
        BY <2>6, <4>1
      <4>3. QED BY Zenon, <4>1, <4>2
    <3>3. CASE EndOpLast(p)
      <4>1. committing' = TRUE /\ outstanding - 1 = 0
        BY <2>7, <3>3 DEF EndOpLast
      <4>2. (Active' = {}) = TRUE
        BY <2>6, <4>1
      <4>3. QED BY Zenon, <4>1, <4>2
    <3>4. QED BY <1>8, <3>2, <3>3
  <2>9. QED BY <2>1, <2>2, <2>8 DEF AD!ANext, AD!End
<1>9. QED BY <1>4, <1>5, <1>6, <1>7, <1>8 DEF Process

\* Among the steps of commit() and recovery only write_head changes the durable
\* contents, from those before the group to those after it.
LEMMA RefineCommitter ==
  ASSUME LogInv, LogInv', Committer
  PROVE  AD!ANext \/ UNCHANGED AD!avars
<1>1. /\ home \in [Blocks -> Vals] /\ head \in Seq(Blocks) /\ lh \in Seq(Blocks)
      /\ Distinct(head) /\ Distinct(lh) /\ tail \in Nat
      /\ recovering \in BOOLEAN /\ committing \in BOOLEAN
  BY DEF LogInv, CtlInv, TypeOK, DistinctInv
<1>2. CASE WriteLog
  <2>1. ~recovering /\ head = <<>> /\ head' = <<>> /\ home' = home
    BY <1>2 DEF WriteLog, LogInv, CtlInv, PhaseInv, HeadInv
  <2>2. Recovered' = Recovered
    BY <1>1, <2>1, RestoredEmpty, MapDefs
  <2>3. ViewMap' = ViewMap
    BY <1>2, <2>1, CopyView DEF ViewMap
  <2>4. CurrentView' = CurrentView
    BY <1>2, <2>2, <2>3, MapDefs DEF WriteLog
  <2>5. Active' = Active /\ committing' = committing
    BY <1>2 DEF WriteLog, Active, procs, logv
  <2>6. QED BY <2>2, <2>4, <2>5, ZenonT(30) DEF AD!avars
<1>3. CASE WriteHead
  <2>1. ~recovering /\ committing /\ head = <<>>
    BY <1>3 DEF WriteHead, LogInv, CtlInv, PhaseInv, HeadInv
  <2>2. /\ head' = lh /\ UNCHANGED <<home, logblk, cached, recovering, committing>>
        /\ Active' = Active
    BY <1>3 DEF WriteHead, cache, logv, procs, Active
  <2>3. ViewMap' = ViewMap /\ CurrentView' = ViewMap /\ CurrentView = ViewMap
    <3>1. ViewMap' = ViewMap
      BY <2>2 DEF ViewMap, View
    <3>2. QED BY <2>1, <2>2, <3>1, MapDefs
  <2>4. Restored(home, logblk, lh) = ViewMap
    <3>1. ASSUME NEW b \in Blocks PROVE Restored(home, logblk, lh)[b] = View(b)
      <4>1. CASE \E i \in 1..Len(lh) : lh[i] = b
        <5>1. PICK i \in 1..Len(lh) : lh[i] = b
          BY <4>1, ZenonT(30)
        <5>2. logblk[i] = View(b)
          BY <1>3, <5>1, ZenonT(30) DEF WriteHead, LogInv, CopyInv
        <5>3. QED BY <1>1, <5>1, <5>2, RestoredNamed
      <4>2. CASE \A i \in 1..Len(lh) : lh[i] # b
        <5>1. b \notin dirty
          BY <1>3, <2>1, <4>2, UninstalledLogged DEF WriteHead, LogInv, PinInv, Logged
        <5>2. ~Locked(b)
          BY <2>1, NoneLocked, ZenonT(30) DEF LogInv
        <5>3. View(b) = home[b]
          BY <2>1, <5>1, <5>2 DEF LogInv, PinInv, View
        <5>4. QED BY <1>1, <4>2, <5>3, RestoredOther, ZenonT(30)
      <4>3. QED BY <4>1, <4>2, ZenonT(30)
    <3>2. QED BY SMTT(30), <3>1 DEF Restored, ViewMap
  <2>5. Recovered' = CurrentView
    BY <2>2, <2>3, <2>4, MapDefs
  <2>6. QED BY <2>1, <2>2, <2>3, <2>5, ZenonT(30) DEF AD!ANext, AD!Commit
<1>4. CASE ReadHead
  <2>1. recovering /\ recovering' /\ UNCHANGED disk
    BY <1>4 DEF ReadHead, LogInv, CtlInv, PhaseInv
  <2>2. Recovered' = Recovered
    BY <2>1 DEF Recovered, disk
  <2>3. Active' = Active /\ committing' = committing
    BY <1>4 DEF ReadHead, Active, procs
  <2>4. QED BY <2>1, <2>2, <2>3, MapDefs, ZenonT(30) DEF AD!avars
<1>5. CASE InstallTrans
  <2>1. /\ head = lh /\ UNCHANGED <<head, logblk, recovering, committing>>
        /\ tail + 1 \in 1..Len(head)
        /\ home' = [home EXCEPT ![head[tail + 1]] = logblk[tail + 1]]
        /\ Active' = Active
    BY <1>1, <1>5 DEF InstallTrans, LogInv, HeadInv, logv, procs, Active
  <2>2. Recovered' = Recovered
    <3>1. Restored([home EXCEPT ![head[tail + 1]] = logblk[tail + 1]], logblk, head)
            = Restored(home, logblk, head)
      <4>1. \A k \in 1..Len(head) : \A v :
              Restored([home EXCEPT ![head[k]] = v], logblk, head)
                = Restored(home, logblk, head)
        BY Zenon, <1>1, RestoredInstall
      <4>2. QED BY Zenon, <2>1, <4>1
    <3>2. QED BY <2>1, <3>1, MapDefs
  <2>3. ASSUME ~recovering PROVE ViewMap' = ViewMap
    BY <1>5, <2>3, CopyView, ZenonT(30) DEF ViewMap
  <2>4. CurrentView' = CurrentView
    BY <1>1, <2>1, <2>2, <2>3, MapDefs, ZenonT(30)
  <2>5. QED BY <2>1, <2>2, <2>4, ZenonT(30) DEF AD!avars
<1>6. CASE Erase
  <2>1. /\ head = lh /\ head' = <<>> /\ home' = home /\ committing' = committing
        /\ recovering' = FALSE /\ cached' = cached /\ Active' = Active
        /\ \A i \in 1..Len(head) : home[head[i]] = logblk[i]
        /\ recovering \/ committing
    BY <1>6, ZenonT(30) DEF Erase, LogInv, CtlInv, PhaseInv, HeadInv, CopyInv, cache, procs, Active
  <2>2. Recovered = home
    BY <1>1, <2>1, RestoredInstalled, MapDefs, ZenonT(30)
  <2>3. Recovered' = home
    BY <1>1, <2>1, RestoredEmpty, MapDefs
  <2>4. ViewMap' = ViewMap
    BY <2>1 DEF ViewMap, View
  <2>5. ViewMap = home
    <3>1. dirty = {}
      BY <1>6, NothingPinned, ZenonT(30) DEF Erase
    <3>2. \A b \in Blocks : ~Locked(b)
      BY <2>1, NoneLocked DEF LogInv
    <3>3. QED BY <3>1, <3>2, CleanView, ZenonT(30)
  <2>6. CurrentView' = CurrentView
    BY Zenon, <1>1, <2>1, <2>2, <2>3, <2>4, <2>5, MapDefs
  <2>7. QED BY SMTT(30), <2>1, <2>2, <2>3, <2>6 DEF AD!avars
<1>7. ASSUME NEW p \in Procs, CommitDone(p) PROVE AD!ANext
  <2>1. /\ committing /\ ~recovering /\ head = <<>> /\ lh = <<>>
        /\ committing' = FALSE /\ UNCHANGED disk /\ UNCHANGED <<cached, recovering>>
    BY <1>7, ZenonT(30) DEF CommitDone, LogInv, CtlInv, PhaseInv, HeadInv, cache
  <2>2. Active' = Active
    BY <1>7, ZenonT(30) DEF CommitDone, Woken, Active, LogInv, CtlInv, TypeOK
  <2>3. Recovered' = Recovered /\ ViewMap' = ViewMap
    BY <2>1, ZenonT(30) DEF Recovered, ViewMap, View, disk
  <2>4. dirty = {}
    BY <1>7, NothingPinned, ZenonT(30) DEF CommitDone
  <2>5. ViewMap = home
    BY <2>1, <2>4, NoneLocked, CleanView, ZenonT(30) DEF LogInv
  <2>6. Recovered = home
    BY <1>1, <2>1, RestoredEmpty, MapDefs
  <2>7. CurrentView' = CurrentView /\ CurrentView = Recovered
    BY Zenon, <2>1, <2>3, <2>5, <2>6, MapDefs
  <2>8. QED BY <2>1, <2>2, <2>3, <2>7, ZenonT(30) DEF AD!ANext, AD!Reopen
<1>8. QED BY <1>2, <1>3, <1>4, <1>5, <1>6, <1>7, ZenonT(30) DEF Committer

\* A crash loses exactly what is not durable.
LEMMA RefineCrash ==
  ASSUME Crash
  PROVE  AD!ANext
<1>1. Recovered' = Recovered
  BY DEF Crash, Recovered, disk
<1>2. CurrentView' = Recovered /\ Active' = {} /\ committing' = FALSE
  BY <1>1, MapDefs DEF Crash, Active
<1>3. QED BY <1>1, <1>2, ZenonT(30) DEF AD!ANext, AD!Crash

\* log.c implements the atomic disk, for every set of processes and blocks and
\* every log size: however crashes fall between the writes of commit() and of
\* recovery, the contents after a reboot are those of whole groups of calls.
THEOREM LogImplementsAtomicDisk ==
  ASSUME ReservationSuffices
  PROVE  Spec => ImplementsAtomicDisk
<1>1. Init => AD!AInit
  BY RefineInit
<1>2. LogInv /\ LogInv' /\ [Next]_vars => [AD!ANext]_(AD!avars)
  <2> SUFFICES ASSUME LogInv, LogInv', [Next]_vars
               PROVE  AD!ANext \/ UNCHANGED AD!avars
    OBVIOUS
  <2>1. CASE \E p \in Procs : Process(p)
    BY <2>1, RefineProcess
  <2>2. CASE Committer
    BY <2>2, RefineCommitter, ZenonT(30)
  <2>3. CASE Cache
    <3>1. ViewMap' = ViewMap
      BY <2>3, CacheView DEF ViewMap
    <3>2. QED BY <2>3, <3>1, StutterStep
              DEF Cache, Bread, Evict, disk, logv, procs, comm, Active
  <2>4. CASE Crash
    BY <2>4, RefineCrash
  <2>5. CASE UNCHANGED vars
    <3>1. ViewMap' = ViewMap /\ Active' = Active
      BY <2>5 DEF vars, disk, cache, procs, ViewMap, View, Active
    <3>2. QED BY <2>5, <3>1, StutterStep, ZenonT(30) DEF vars, logv, comm
  <2>6. QED BY <2>1, <2>2, <2>3, <2>4, <2>5 DEF Next
<1>3. QED
  BY <1>1, <1>2, LogInvariant, PTL DEF Spec, ImplementsAtomicDisk, AD!ASpec
=============================================================================
