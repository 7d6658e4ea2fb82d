----------------------------- MODULE BufProofs ------------------------------
(***************************************************************************)
(* Proofs about Buf, for any number of processes, buffers, blocks and      *)
(* pinned buffers: what each step keeps, the counts of the users of a      *)
(* buffer, and the invariants of the cache and of the disk queue.          *)
(***************************************************************************)
EXTENDS Buf, FiniteSetTheorems, TLAPS

-----------------------------------------------------------------------------
(* The inductive invariant *)

\* A process has a buffer from bget() to the end of brelse(), sleeps only for a
\* lock or for the disk, and a lock is held by a process that has the buffer.
UserInv ==
  /\ \A p \in Procs : /\ buf[p] # 0 <=> pc[p] \notin {"idle", "panic"}
                      /\ buf[p] # 0 => want[p] # None
                      /\ p \in asleep => pc[p] \in {"lock", "io"}
                      /\ pc[p] = "have" => buf[p] \in valid
  /\ \A b \in Bufs : holder[b] # None => buf[holder[b]] = b

\* A buffer with contents has a block.
BlockInv == \A b \in valid \cup dirty : blockno[b] # None

\* What the disk is doing for the first buffer of the queue.  A buffer that is
\* queued is to be read, or is dirty and keeps its contents.
DriveInv ==
  /\ ready => request # None
  /\ request # None /\ request.write =>
       /\ request.data = data[Head(idequeue)]
       /\ ready => disk[request.block] = data[Head(idequeue)]
  /\ \A i \in DOMAIN idequeue : idequeue[i] \in dirty \/ idequeue[i] \notin valid

BufInv ==
  /\ TypeOK /\ UserInv /\ BlockInv /\ DriveInv
  /\ RightBlock /\ RefcntExact /\ OneUser /\ Coherent /\ RequestsServed /\ WokenDone

-----------------------------------------------------------------------------
(* Facts the steps need *)

\* 0 stands for no buffer.
LEMMA NoBuffer == Bufs \subseteq Nat /\ 0 \notin Bufs
BY BufConstants DEF Bufs

\* The points of the code by name.
LEMMA PointNames ==
  /\ "idle" \in Points /\ "lock" \in Points /\ "check" \in Points /\ "io" \in Points
  /\ "have" \in Points /\ "unref" \in Points /\ "panic" \in Points
BY DEF Points

\* binit() and an idle disk establish the invariant.
LEMMA BufInit == Init => BufInv
<1> SUFFICES ASSUME Init PROVE BufInv
  OBVIOUS
<1> USE DEF Init
<1>1. TypeOK
  <2>1. lru \in [Bufs -> Bufs]
    BY BufConstants DEF Bufs
  <2>2. idequeue \in Seq(Bufs) /\ holder \in [Bufs -> Procs \cup {None}]
        /\ refcnt \in [Bufs -> Nat] /\ pc \in [Procs -> Points]
    BY PointNames
  <2>3. QED BY BufConstants, <2>1, <2>2, ZenonT(30) DEF TypeOK
<1>2. UserInv /\ BlockInv /\ DriveInv /\ RightBlock /\ OneUser /\ Coherent /\ WokenDone
  BY BufConstants DEF UserInv, BlockInv, DriveInv, RightBlock, OneUser, Coherent, WokenDone, Uses
<1>3. RefcntExact
  <2>1. \A b \in Bufs : {p \in Procs : buf[p] = b} = {}
    BY NoBuffer
  <2>2. \A b \in Bufs : \E i \in Bufs : lru[i] = b
    <3> TAKE b \in Bufs
    <3>1. NBUF + 1 - b \in Bufs /\ lru[NBUF + 1 - b] = b
      BY BufConstants DEF Bufs
    <3>2. QED BY <3>1
  <2>3. QED BY <2>1, <2>2, FS_EmptySet, ZenonT(30) DEF RefcntExact
<1>4. RequestsServed
  BY DEF RequestsServed
<1>5. QED BY <1>1, <1>2, <1>3, <1>4 DEF BufInv

\* A buffer without users is in nobody's hands.
LEMMA NoUsers ==
  ASSUME RefcntExact, NEW b \in Bufs
  PROVE  (refcnt[b] = 0) => \A p \in Procs : buf[p] # b
<1>1. IsFiniteSet({p \in Procs : buf[p] = b})
  BY BufConstants, FS_Subset
<1>2. (refcnt[b] = 0) => {p \in Procs : buf[p] = b} = {}
  BY <1>1, FS_EmptySet DEF RefcntExact
<1>3. QED BY <1>2

\* ToFront() keeps every buffer in the list.
LEMMA ToFrontKeeps ==
  ASSUME lru \in [Bufs -> Bufs], \A c \in Bufs : \E i \in Bufs : lru[i] = c,
         NEW b \in Bufs
  PROVE  /\ ToFront(b) \in [Bufs -> Bufs]
         /\ \A c \in Bufs : \E i \in Bufs : ToFront(b)[i] = c
<1> DEFINE k == CHOOSE j \in Bufs : lru[j] = b
<1>1. k \in Bufs /\ lru[k] = b
  OBVIOUS
<1>2. ToFront(b) = [i \in Bufs |-> IF i = 1 THEN b ELSE IF i <= k THEN lru[i - 1] ELSE lru[i]]
  BY DEF ToFront
<1> HIDE DEF k
<1>3. \A i \in Bufs : i # 1 => i - 1 \in Bufs
  BY BufConstants DEF Bufs
<1>4. ToFront(b) \in [Bufs -> Bufs]
  BY <1>2, <1>3
<1>5. ASSUME NEW c \in Bufs PROVE \E i \in Bufs : ToFront(b)[i] = c
  <2>1. PICK j \in Bufs : lru[j] = c
    OBVIOUS
  <2>2. CASE j < k
    <3>1. j + 1 \in Bufs /\ j + 1 # 1 /\ j + 1 <= k /\ (j + 1) - 1 = j
      BY <1>1, <2>2, BufConstants DEF Bufs
    <3>2. QED BY <1>2, <2>1, <3>1
  <2>3. CASE j = k
    <3>1. 1 \in Bufs
      BY BufConstants DEF Bufs
    <3>2. QED BY <1>1, <1>2, <2>1, <2>3, <3>1
  <2>4. CASE j > k
    <3>1. j # 1 /\ ~(j <= k)
      BY <1>1, <2>4, BufConstants DEF Bufs
    <3>2. QED BY <1>2, <2>1, <3>1
  <2>5. QED BY <1>1, <2>2, <2>3, <2>4, BufConstants DEF Bufs
<1>6. QED BY <1>4, <1>5

\* The queue after iderw() and after ideintr().
LEMMA QueueAppend ==
  ASSUME NEW q \in Seq(Bufs), NEW b \in Bufs
  PROVE  /\ Append(q, b) \in Seq(Bufs) /\ Append(q, b) # << >>
         /\ DOMAIN Append(q, b) = DOMAIN q \cup {Len(q) + 1}
         /\ Len(q) + 1 \notin DOMAIN q
         /\ Append(q, b)[Len(q) + 1] = b
         /\ \A i \in DOMAIN q : Append(q, b)[i] = q[i]
         /\ Head(Append(q, b)) = IF q = << >> THEN b ELSE Head(q)
         /\ q = << >> <=> DOMAIN q = {}
OBVIOUS

LEMMA QueueTail ==
  ASSUME NEW q \in Seq(Bufs), q # << >>
  PROVE  /\ Tail(q) \in Seq(Bufs) /\ Head(q) \in Bufs
         /\ Head(q) = q[1] /\ 1 \in DOMAIN q
         /\ \A i \in DOMAIN Tail(q) : i + 1 \in DOMAIN q /\ i + 1 # 1 /\ Tail(q)[i] = q[i + 1]
         /\ \A i \in DOMAIN q : i # 1 => i - 1 \in DOMAIN Tail(q) /\ Tail(q)[i - 1] = q[i]
         /\ \A i, j \in DOMAIN Tail(q) : i + 1 = j + 1 => i = j
         /\ Tail(q) = << >> <=> ~(Len(q) > 1)
         /\ Len(q) > 1 => 2 \in DOMAIN q /\ Head(Tail(q)) = q[2]
<1>1. /\ Tail(q) \in Seq(Bufs) /\ Head(q) \in Bufs /\ Head(q) = q[1] /\ 1 \in DOMAIN q
      /\ Len(q) \in Nat /\ Len(Tail(q)) = Len(q) - 1
      /\ DOMAIN q = 1 .. Len(q) /\ DOMAIN Tail(q) = 1 .. Len(q) - 1
  OBVIOUS
<1>2. \A i \in DOMAIN Tail(q) : i + 1 \in DOMAIN q /\ i + 1 # 1 /\ Tail(q)[i] = q[i + 1]
  BY <1>1
<1>3. \A i \in DOMAIN q : i # 1 => i - 1 \in DOMAIN Tail(q) /\ Tail(q)[i - 1] = q[i]
  BY <1>1
<1>4. \A i, j \in DOMAIN Tail(q) : i + 1 = j + 1 => i = j
  BY <1>1
<1>5. Tail(q) = << >> <=> ~(Len(q) > 1)
  <2>1. \A s \in Seq(Bufs) : s = << >> <=> Len(s) = 0
    OBVIOUS
  <2>2. Tail(q) = << >> <=> Len(Tail(q)) = 0
    BY <1>1, <2>1, ZenonT(30)
  <2>3. Len(q) # 0
    BY <2>1
  <2>4. QED BY <1>1, <2>2, <2>3
<1>6. Len(q) > 1 => 2 \in DOMAIN q /\ Head(Tail(q)) = q[2]
  BY <1>1
<1>7. QED BY <1>1, <1>2, <1>3, <1>4, <1>5, <1>6

\* What the steps use of RefcntExact: a buffer that refcnt says is unused is in
\* nobody's hands.
UsersCounted == \A b \in Bufs : refcnt[b] = 0 => \A p \in Procs : buf[p] # b

-----------------------------------------------------------------------------
(* The steps *)

\* What idestart() gives the disk is a request.
LEMMA Started ==
  ASSUME NEW b \in Bufs, idestart(b), blockno' \in [Bufs -> Blocks \cup {None}],
         blockno'[b] # None, data' \in [Bufs -> Vals]
  PROVE  request' \in Requests /\ request' # None /\ ready' = FALSE
<1>1. (b \in dirty') \in BOOLEAN /\ data'[b] \in Vals /\ blockno'[b] \in Blocks
  OBVIOUS
<1>2. [block |-> blockno'[b], write |-> b \in dirty', data |-> data'[b]] \in Requests
  BY Zenon, <1>1 DEF Requests
<1>3. QED BY Zenon, <1>2, BufConstants DEF idestart

\* Every step keeps the types.
LEMMA TypeStep ==
  ASSUME BufInv, UsersCounted, [Next]_vars
  PROVE  TypeOK'
<1> USE DEF TypeOK
<1>0. TypeOK /\ UserInv /\ BlockInv /\ RightBlock
  BY DEF BufInv
<1>b. ASSUME NEW p \in Procs, pc[p] \in {"lock", "check", "io", "have", "unref"}
      PROVE  buf[p] \in Bufs /\ blockno[buf[p]] \in Blocks
  BY <1>0, <1>b, NoBuffer DEF UserInv, RightBlock, Uses
<1>1. ASSUME NEW p \in Procs, NEW n \in Blocks, bgetHit(p, n) PROVE TypeOK'
  BY <1>0, <1>1, PointNames DEF bgetHit, Cached, drive, Go
<1>2. ASSUME NEW p \in Procs, NEW n \in Blocks, bgetMiss(p, n) PROVE TypeOK'
  BY <1>0, <1>2, PointNames DEF bgetMiss, Go
<1>3. ASSUME NEW p \in Procs, NEW n \in Blocks, bgetPanic(p, n) PROVE TypeOK'
  BY <1>0, <1>3, PointNames DEF bgetPanic, Go, bufs, drive
<1>4. ASSUME NEW p \in Procs, acquiresleep(p) PROVE TypeOK'
  <2>1. buf[p] \in Bufs /\ p \in Procs \cup {None}
    BY <1>b, <1>4 DEF acquiresleep, At
  <2>2. CASE holder' = [holder EXCEPT ![buf[p]] = p] /\ Go(p, "check") /\ UNCHANGED asleep
    BY <1>0, <1>4, <2>1, <2>2, PointNames DEF acquiresleep, Go, bufs, drive
  <2>3. CASE asleep' = asleep \cup {p} /\ UNCHANGED <<holder, pc>>
    BY <1>0, <1>4, <2>3 DEF acquiresleep, bufs, drive
  <2>4. QED BY <1>4, <2>2, <2>3 DEF acquiresleep

<1>r. ASSUME NEW p \in Procs, pc[p] \in {"check", "have"}, iderw(p), data' \in [Bufs -> Vals],
             dirty' \subseteq Bufs,
             UNCHANGED <<blockno, refcnt, valid, lru, holder, want, buf>>
      PROVE  TypeOK'
  <2>1. buf[p] \in Bufs /\ blockno'[buf[p]] # None
    BY <1>b, <1>r, BufConstants
  <2>2. request' \in Requests \cup {None} /\ ready' \in BOOLEAN
    BY <1>0, <1>r, <2>1, Started, ZenonT(30) DEF iderw
  <2>3. idequeue' \in Seq(Bufs) /\ asleep' \subseteq Procs /\ pc' \in [Procs -> Points]
        /\ UNCHANGED <<disk, failed>>
    BY <1>0, <1>r, <2>1, PointNames DEF iderw, Go
  <2>4. QED BY <1>0, <1>r, <2>2, <2>3
<1>5. ASSUME NEW p \in Procs, bread(p) PROVE TypeOK'
  <2>1. CASE iderw(p)
    BY <1>0, <1>5, <1>r, <2>1, ZenonT(30) DEF bread, At, bufs
  <2>2. CASE Go(p, "have") /\ UNCHANGED <<drive, asleep>>
    BY <1>0, <1>5, <2>2, PointNames DEF bread, Go, bufs, drive
  <2>3. QED BY <1>5, <2>1, <2>2 DEF bread
<1>6. ASSUME NEW p \in Procs, bwrite(p) PROVE TypeOK'
  <2>1. buf[p] \in Bufs /\ pc[p] = "have"
    BY <1>b, <1>6 DEF bwrite, At
  <2>2. data' \in [Bufs -> Vals] /\ dirty' \subseteq Bufs
    BY <1>0, <1>6, <2>1 DEF bwrite
  <2>3. QED BY <1>6, <1>r, <2>1, <2>2 DEF bwrite
<1>7. ASSUME NEW p \in Procs, log_write(p) PROVE TypeOK'
  <2>1. buf[p] \in Bufs
    BY <1>b, <1>7 DEF log_write, At
  <2>2. QED BY <1>0, <1>7, <2>1 DEF log_write, drive, procs
<1>8. ASSUME NEW p \in Procs, iderwDone(p) PROVE TypeOK'
  BY <1>0, <1>8, PointNames DEF iderwDone, Go, bufs, drive
<1>9. ASSUME NEW p \in Procs, brelse(p) PROVE TypeOK'
  BY <1>0, <1>9, PointNames, ZenonT(30) DEF brelse, Go, wakeup, bufs, drive
<1>10. ASSUME NEW p \in Procs, brelseUnref(p) PROVE TypeOK'
  <2>1. buf[p] \in Bufs
    BY <1>b, <1>10 DEF brelseUnref, At
  <2>2. refcnt[buf[p]] # 0
    BY <1>10, <2>1 DEF UsersCounted
  <2>3. refcnt' \in [Bufs -> Nat]
    BY <1>0, <1>10, <2>1, <2>2 DEF brelseUnref
  <2>4. ToFront(buf[p]) \in [Bufs -> Bufs]
    BY <1>0, <2>1, ToFrontKeeps DEF BufInv, RefcntExact
  <2>5. lru' \in [Bufs -> Bufs]
    BY <1>0, <1>10, <2>4 DEF brelseUnref
  <2>6. QED BY <1>0, <1>10, <2>3, <2>5, PointNames DEF brelseUnref, Go, drive
<1>11. CASE Disk
  BY <1>0, <1>11 DEF Disk, bufs, procs, Requests
<1>12. CASE ideintr
  <2>1. Head(idequeue) \in Bufs /\ Tail(idequeue) \in Seq(Bufs)
    BY <1>0, <1>12, QueueTail DEF ideintr
  <2>2. request # None /\ request.block \in Blocks
    BY <1>0, <1>12 DEF BufInv, DriveInv, ideintr, Requests
  <2>3. data' \in [Bufs -> Vals] /\ failed' \subseteq Bufs /\ asleep' \subseteq Procs
        /\ valid' \subseteq Bufs /\ dirty' \subseteq Bufs
        /\ idequeue' \in Seq(Bufs)
    BY <1>0, <1>12, <2>1, <2>2 DEF ideintr, wakeup
  <2>4. request' \in Requests \cup {None} /\ ready' \in BOOLEAN
    <3>1. CASE Len(idequeue) > 1
      <4>1. 2 \in DOMAIN idequeue /\ idequeue[2] \in Bufs
        BY <1>0, <1>12, <3>1 DEF ideintr
      <4>2. blockno[idequeue[2]] # None
        <5>1. idequeue[2] \in {buf[p] : p \in {q \in asleep : pc[q] = "io"}}
          BY <4>1, ZenonT(30) DEF BufInv, RequestsServed
        <5>2. QED BY <1>0, <1>b, <5>1, BufConstants
      <4>3. QED BY <1>0, <1>12, <2>3, <3>1, <4>1, <4>2, Started, ZenonT(30) DEF ideintr
    <3>2. QED BY <1>12, <3>1, ZenonT(30) DEF ideintr
  <2>5. QED BY <1>0, <1>12, <2>3, <2>4 DEF ideintr
<1>13. CASE UNCHANGED vars
  BY <1>0, <1>13 DEF vars
<1>14. QED
  BY <1>1, <1>2, <1>3, <1>4, <1>5, <1>6, <1>7, <1>8, <1>9, <1>10, <1>11, <1>12, <1>13, ZenonT(30)
  DEF Next, Step

\* The part of the invariant about buffers and the processes that use them.
UseInv == UserInv /\ BlockInv /\ RightBlock /\ OneUser /\ WokenDone

\* It depends on the driver only through what ideintr() does, so a step that
\* takes a process to another point is judged by that point.
LEMMA UseStep ==
  ASSUME BufInv, UsersCounted, [Next]_vars
  PROVE  UseInv'
<1> USE DEF UseInv, UserInv, BlockInv, RightBlock, OneUser, WokenDone, Uses
<1>0. TypeOK /\ UserInv /\ BlockInv /\ RightBlock /\ OneUser /\ WokenDone
  BY DEF BufInv
<1>t. /\ blockno \in [Bufs -> Blocks \cup {None}] /\ valid \subseteq Bufs /\ dirty \subseteq Bufs
      /\ holder \in [Bufs -> Procs \cup {None}]
      /\ pc \in [Procs -> Points] /\ want \in [Procs -> Blocks \cup {None}]
      /\ buf \in [Procs -> Bufs \cup {0}] /\ asleep \subseteq Procs
  BY <1>0 DEF TypeOK
<1>n. None \notin Blocks /\ None \notin Procs
  BY BufConstants
<1>b. ASSUME NEW p \in Procs, pc[p] \in {"lock", "check", "io", "have", "unref"}
      PROVE  buf[p] \in Bufs /\ blockno[buf[p]] \in Blocks
  BY <1>0, <1>t, <1>b, <1>n, NoBuffer
<1>1. ASSUME NEW p \in Procs, NEW n \in Blocks, bgetHit(p, n) PROVE UseInv'
  <2>1. PICK b \in Bufs : blockno[b] = n /\ buf' = [buf EXCEPT ![p] = b]
    BY <1>1, ZenonT(30) DEF bgetHit, Cached
  <2>2. /\ pc[p] = "idle" /\ p \notin asleep
        /\ want' = [want EXCEPT ![p] = n] /\ pc' = [pc EXCEPT ![p] = "lock"]
        /\ UNCHANGED <<blockno, valid, dirty, holder, asleep>>
    BY <1>1 DEF bgetHit, At, Go
  <2>3. buf[p] = 0 /\ \A c \in Bufs : holder[c] # p
    BY <1>0, <1>t, <1>n, <2>2, NoBuffer
  <2>4. QED BY <1>0, <1>t, <1>n, <2>1, <2>2, <2>3, NoBuffer
<1>2. ASSUME NEW p \in Procs, NEW n \in Blocks, bgetMiss(p, n) PROVE UseInv'
  <2>1. PICK b \in Bufs : /\ b \in Unused
                          /\ blockno' = [blockno EXCEPT ![b] = n]
                          /\ valid' = valid \ {b} /\ dirty' = dirty \ {b}
                          /\ buf' = [buf EXCEPT ![p] = b]
    BY <1>2, ZenonT(30) DEF bgetMiss, Oldest
  <2>2. /\ pc[p] = "idle" /\ p \notin asleep /\ \A c \in Bufs : blockno[c] # n
        /\ want' = [want EXCEPT ![p] = n] /\ pc' = [pc EXCEPT ![p] = "lock"]
        /\ UNCHANGED <<holder, asleep>>
    BY <1>2 DEF bgetMiss, At, Go, Cached
  <2>3. \A q \in Procs : buf[q] # b
    BY <2>1 DEF Unused, UsersCounted
  <2>4. buf[p] = 0 /\ holder[b] = None /\ \A c \in Bufs : holder[c] # p
    BY <1>0, <1>t, <1>n, <2>2, <2>3, NoBuffer
  <2>5. UserInv' /\ BlockInv'
    BY <1>0, <1>t, <1>n, <2>1, <2>2, <2>3, <2>4, NoBuffer
  <2>6. RightBlock'
    BY <1>0, <1>t, <1>n, <2>1, <2>2, <2>3, <2>4, NoBuffer
  <2>7. OneUser' /\ WokenDone'
    BY <1>0, <1>t, <1>n, <2>1, <2>2, <2>3, <2>4, NoBuffer
  <2>8. QED BY <2>5, <2>6, <2>7
<1>3. ASSUME NEW p \in Procs, NEW n \in Blocks, bgetPanic(p, n) PROVE UseInv'
  <2>1. /\ pc[p] = "idle" /\ pc' = [pc EXCEPT ![p] = "panic"] /\ p \notin asleep
        /\ UNCHANGED <<blockno, valid, dirty, holder, want, buf, asleep>>
    BY <1>3, SMTT(30) DEF bgetPanic, At, Go, bufs
  <2>2. QED BY <1>0, <1>t, <2>1
<1>4. ASSUME NEW p \in Procs, acquiresleep(p) PROVE UseInv'
  <2>1. /\ pc[p] = "lock" /\ p \notin asleep /\ buf[p] \in Bufs
        /\ UNCHANGED <<blockno, valid, dirty, want, buf>>
    BY <1>4, <1>b DEF acquiresleep, At, bufs
  <2>2. CASE /\ holder[buf[p]] = None /\ holder' = [holder EXCEPT ![buf[p]] = p]
             /\ pc' = [pc EXCEPT ![p] = "check"] /\ UNCHANGED asleep
    BY <1>0, <1>t, <1>n, <2>1, <2>2, NoBuffer
  <2>3. CASE holder[buf[p]] # None /\ asleep' = asleep \cup {p} /\ UNCHANGED <<holder, pc>>
    BY <1>0, <1>t, <2>1, <2>3, SMTT(30)
  <2>4. QED BY <1>4, <2>2, <2>3, ZenonT(30) DEF acquiresleep, Go
<1>r. ASSUME NEW p \in Procs, pc[p] \in {"check", "have"}, iderw(p),
             dirty' = dirty \/ dirty' = dirty \cup {buf[p]},
             UNCHANGED <<blockno, valid, holder, want, buf>>
      PROVE  UseInv'
  <2>1. asleep' = asleep \cup {p} /\ pc' = [pc EXCEPT ![p] = "io"] /\ buf[p] \in Bufs
        /\ blockno[buf[p]] # None
    BY <1>b, <1>n, <1>r DEF iderw, Go
  <2>2. \A q \in Procs : q \notin asleep /\ pc[q] = "io" => buf[q] # buf[p]
    BY <1>0, <1>t, <1>r
  <2>3. UserInv' /\ BlockInv' /\ RightBlock' /\ OneUser'
    BY <1>0, <1>t, <1>n, <1>r, <2>1
  <2>4. WokenDone'
    <3> HIDE DEF UserInv, BlockInv, RightBlock, OneUser, Uses
    <3>1. WokenDone
      BY SMTT(30), <1>0
    <3>2. QED BY <1>t, <1>r, <2>1, <2>2, <3>1
  <2>5. QED BY <2>3, <2>4, ZenonT(30)
<1>5. ASSUME NEW p \in Procs, bread(p) PROVE UseInv'
  <2>1. pc[p] = "check" /\ p \notin asleep /\ UNCHANGED <<blockno, valid, dirty, holder, want, buf>>
    BY <1>5 DEF bread, At, bufs
  <2>2. CASE buf[p] \in valid /\ Go(p, "have") /\ UNCHANGED <<drive, asleep>>
    BY <1>0, <1>t, <2>1, <2>2 DEF Go
  <2>3. CASE iderw(p)
    BY <1>r, <2>1, <2>3, SMTT(30)
  <2>4. QED BY <1>5, <2>2, <2>3 DEF bread
<1>6. ASSUME NEW p \in Procs, bwrite(p) PROVE UseInv'
  BY <1>6, <1>r DEF bwrite, At
<1>7. ASSUME NEW p \in Procs, log_write(p) PROVE UseInv'
  <2>1. /\ pc[p] = "have" /\ p \notin asleep /\ dirty' = dirty \cup {buf[p]}
        /\ UNCHANGED <<blockno, valid, holder, pc, want, buf, asleep>>
    BY <1>7 DEF log_write, At, procs
  <2>2. buf[p] \in Bufs /\ blockno[buf[p]] # None
    BY <1>b, <1>n, <2>1
  <2>3. \A q \in Procs : q \notin asleep /\ pc[q] = "io" => buf[q] # buf[p]
    BY <1>0, <1>t, <2>1
  <2>4. QED BY <1>0, <1>t, <2>1, <2>2, <2>3
<1>8. ASSUME NEW p \in Procs, iderwDone(p) PROVE UseInv'
  <2>1. /\ pc[p] = "io" /\ p \notin asleep /\ pc' = [pc EXCEPT ![p] = "have"] /\ buf[p] \in valid
        /\ UNCHANGED <<blockno, valid, dirty, holder, want, buf, asleep>>
    BY <1>8 DEF iderwDone, At, Go, bufs
  <2>2. QED BY <1>0, <1>t, <2>1
<1>9. ASSUME NEW p \in Procs, brelse(p) PROVE UseInv'
  <2>1. /\ pc[p] = "have" /\ p \notin asleep /\ pc' = [pc EXCEPT ![p] = "unref"]
        /\ holder' = [holder EXCEPT ![buf[p]] = None]
        /\ asleep' = {q \in asleep : ~(pc[q] = "lock" /\ buf[q] = buf[p])}
        /\ UNCHANGED <<blockno, valid, dirty, want, buf>>
    BY <1>9 DEF brelse, At, Go, wakeup, bufs
  <2>2. buf[p] \in Bufs /\ holder[buf[p]] = p
    BY <1>0, <1>b, <2>1
  <2>3. UserInv' /\ BlockInv' /\ RightBlock'
    BY <1>0, <1>t, <1>n, <2>1, <2>2
  <2>4. OneUser' /\ WokenDone'
    BY SMTT(30), <1>0, <1>t, <1>n, <2>1, <2>2
  <2>5. QED BY <2>3, <2>4
<1>10. ASSUME NEW p \in Procs, brelseUnref(p) PROVE UseInv'
  <2>1. /\ pc[p] = "unref" /\ p \notin asleep /\ pc' = [pc EXCEPT ![p] = "idle"]
        /\ buf' = [buf EXCEPT ![p] = 0] /\ want' = [want EXCEPT ![p] = None]
        /\ UNCHANGED <<blockno, valid, dirty, holder, asleep>>
    BY <1>10 DEF brelseUnref, At, Go
  <2>2. buf[p] \in Bufs /\ \A b \in Bufs : holder[b] # p
    BY <1>0, <1>t, <1>b, <1>n, <2>1
  <2>3. QED BY <1>0, <1>t, <1>n, <2>1, <2>2
<1>11. CASE Disk
  BY <1>0, <1>t, <1>11 DEF Disk, bufs, procs
<1>12. CASE ideintr
  <2> DEFINE b == Head(idequeue)
  <2>1. /\ b \in {buf[p] : p \in {q \in asleep : pc[q] = "io"}}
        /\ b \in Bufs
    <3>1. idequeue \in Seq(Bufs) /\ idequeue # << >>
      BY <1>0, <1>12 DEF ideintr, TypeOK
    <3>2. b = idequeue[1] /\ 1 \in DOMAIN idequeue /\ b \in Bufs
      BY <3>1, QueueTail
    <3>3. {idequeue[i] : i \in DOMAIN idequeue} = {buf[p] : p \in {q \in asleep : pc[q] = "io"}}
      BY ZenonT(30) DEF BufInv, RequestsServed
    <3>4. QED BY <3>2, <3>3, ZenonT(30)
  <2>2. /\ valid' = valid \cup {b} /\ dirty' = dirty \ {b}
        /\ asleep' = {q \in asleep : ~(pc[q] = "io" /\ buf[q] = b)}
        /\ UNCHANGED <<blockno, holder, pc, want, buf>>
    BY <1>12 DEF ideintr, wakeup
  <2> HIDE DEF b
  <2>3. blockno[b] # None
    BY <1>b, <1>n, <1>t, <2>1
  <2>4. QED BY <1>0, <1>t, <2>1, <2>2, <2>3
<1>13. CASE UNCHANGED vars
  BY <1>0, <1>13 DEF vars
<1> HIDE DEF UseInv
<1>14. QED
  BY <1>1, <1>2, <1>3, <1>4, <1>5, <1>6, <1>7, <1>8, <1>9, <1>10, <1>11, <1>12, <1>13, ZenonT(30)
  DEF Next, Step

\* The disk and its queue.
IoInv == DriveInv /\ RequestsServed /\ Coherent

\* A buffer in the queue is in use by one process, that sleeps in iderw().
LEMMA Queued ==
  ASSUME BufInv
  PROVE  /\ \A i \in DOMAIN idequeue :
              \E p \in asleep : pc[p] = "io" /\ buf[p] = idequeue[i] /\ holder[idequeue[i]] = p
         /\ \A i \in DOMAIN idequeue : idequeue[i] \in Bufs /\ blockno[idequeue[i]] \in Blocks
         /\ idequeue # << >> => Head(idequeue) = idequeue[1] /\ 1 \in DOMAIN idequeue
<1>0. TypeOK /\ UserInv /\ RightBlock /\ OneUser /\ RequestsServed
  BY DEF BufInv
<1>1. ASSUME NEW i \in DOMAIN idequeue
      PROVE  \E p \in asleep : pc[p] = "io" /\ buf[p] = idequeue[i] /\ holder[idequeue[i]] = p
  <2>1. idequeue[i] \in {buf[p] : p \in {q \in asleep : pc[q] = "io"}}
    BY <1>0, ZenonT(30) DEF RequestsServed
  <2>2. QED BY <1>0, <2>1 DEF TypeOK, OneUser
<1>2. ASSUME NEW i \in DOMAIN idequeue
      PROVE  idequeue[i] \in Bufs /\ blockno[idequeue[i]] \in Blocks
  BY <1>0, <1>1, NoBuffer DEF TypeOK, UserInv, RightBlock, Uses
<1>3. idequeue # << >> => Head(idequeue) = idequeue[1] /\ 1 \in DOMAIN idequeue
  BY <1>0, QueueTail DEF TypeOK
<1>4. QED BY <1>1, <1>2, <1>3

\* The processes asleep in iderw(), by their buffers.
Waiting == {buf[p] : p \in {q \in asleep : pc[q] = "io"}}

\* Every step keeps the disk and its queue in order.
LEMMA IoStep ==
  ASSUME BufInv, UsersCounted, [Next]_vars
  PROVE  IoInv'
<1>0. UserInv /\ BlockInv /\ RightBlock /\ OneUser
  BY DEF BufInv
<1>d. DriveInv
  BY DEF BufInv
<1>v. RequestsServed
  BY DEF BufInv
<1>c. Coherent
  BY DEF BufInv
<1>t. /\ blockno \in [Bufs -> Blocks \cup {None}] /\ valid \subseteq Bufs /\ dirty \subseteq Bufs
      /\ data \in [Bufs -> Vals] /\ idequeue \in Seq(Bufs) /\ disk \in [Blocks -> Vals]
      /\ pc \in [Procs -> Points] /\ buf \in [Procs -> Bufs \cup {0}] /\ asleep \subseteq Procs
      /\ request \in Requests \cup {None} /\ failed \subseteq Bufs
  BY DEF BufInv, TypeOK
<1>n. None \notin Blocks /\ None \notin Procs /\ None \notin Requests
  BY BufConstants
<1>w. Waiting = {idequeue[i] : i \in DOMAIN idequeue}
  BY Zenon, <1>v DEF Waiting, RequestsServed
<1>b. ASSUME NEW p \in Procs, pc[p] \in {"lock", "check", "io", "have", "unref"}
      PROVE  buf[p] \in Bufs /\ blockno[buf[p]] \in Blocks
  BY <1>0, <1>t, <1>b, <1>n, NoBuffer, ZenonT(30) DEF UserInv, RightBlock, Uses
<1>h. idequeue # << >> => Head(idequeue) = idequeue[1] /\ 1 \in DOMAIN idequeue
  BY Queued
<1>e. ASSUME UNCHANGED <<blockno, idequeue, request>>, Waiting' = Waiting,
             request # None => (Head(idequeue) \in dirty' <=> Head(idequeue) \in dirty)
      PROVE  RequestsServed'
  <2>1. {idequeue'[i] : i \in DOMAIN idequeue'} = Waiting'
    BY Zenon, <1>e, <1>w
  <2>2. request' # None => /\ request'.block = blockno'[Head(idequeue')]
                           /\ request'.write <=> Head(idequeue') \in dirty'
    BY Zenon, <1>e, <1>v DEF RequestsServed
  <2>3. /\ (request' = None) <=> (idequeue' = << >>)
        /\ \A i, j \in DOMAIN idequeue' : idequeue'[i] = idequeue'[j] => i = j
    BY Zenon, <1>e, <1>v DEF RequestsServed
  <2>4. QED BY Zenon, <2>1, <2>2, <2>3 DEF RequestsServed, Waiting
<1>s. ASSUME UNCHANGED <<blockno, data, valid, dirty, idequeue, request, ready, disk, failed>>,
             Waiting' = Waiting
      PROVE  IoInv'
  <2>1. DriveInv'
    BY Zenon, <1>d, <1>s DEF DriveInv
  <2>2. Coherent'
    BY Zenon, <1>c, <1>s DEF Coherent
  <2>3. RequestsServed'
    BY Zenon, <1>e, <1>s
  <2>4. QED BY <2>1, <2>2, <2>3 DEF IoInv
<1>1. ASSUME NEW p \in Procs, NEW n \in Blocks, bgetHit(p, n) \/ bgetPanic(p, n) PROVE IoInv'
  <2>1. /\ UNCHANGED <<blockno, data, valid, dirty, idequeue, request, ready, disk, failed, asleep>>
        /\ p \notin asleep /\ \A q \in Procs : q # p => pc'[q] = pc[q] /\ buf'[q] = buf[q]
    BY <1>1, <1>t, ZenonT(30) DEF bgetHit, bgetPanic, At, Go, drive, bufs
  <2>2. Waiting' = Waiting
    BY <1>t, <2>1 DEF Waiting
  <2>3. QED BY <1>s, <2>1, <2>2
<1>2. ASSUME NEW p \in Procs, NEW n \in Blocks, bgetMiss(p, n) PROVE IoInv'
  <2>1. PICK b \in Bufs : /\ b \in Unused
                          /\ blockno' = [blockno EXCEPT ![b] = n]
                          /\ valid' = valid \ {b} /\ dirty' = dirty \ {b} /\ failed' = failed \ {b}
    BY <1>2, ZenonT(30) DEF bgetMiss, Oldest
  <2>2. /\ UNCHANGED <<data, idequeue, request, ready, disk, asleep>>
        /\ p \notin asleep /\ \A q \in Procs : q # p => pc'[q] = pc[q] /\ buf'[q] = buf[q]
    BY <1>2, <1>t DEF bgetMiss, At, Go
  <2>3. Waiting' = Waiting
    BY <1>t, <2>2 DEF Waiting
  <2>4. \A q \in Procs : buf[q] # b
    BY <2>1 DEF Unused, UsersCounted
  <2>5. b \notin dirty /\ \A i \in DOMAIN idequeue : idequeue[i] # b
    BY <1>t, <2>1, <2>4, Queued DEF Unused
  <2>6. DriveInv'
    BY Zenon, <1>d, <2>1, <2>2, <2>5 DEF DriveInv
  <2>7. RequestsServed'
    <3>1. request' # None => /\ request'.block = blockno'[Head(idequeue')]
                             /\ request'.write <=> Head(idequeue') \in dirty'
      <4>1. request # None => idequeue # << >>
        BY Zenon, <1>v DEF RequestsServed
      <4>2. request # None => Head(idequeue) \in Bufs /\ Head(idequeue) # b
        BY <1>h, <2>5, <4>1, Queued, ZenonT(30)
      <4>3. QED BY <1>t, <1>v, <2>1, <2>2, <4>2 DEF RequestsServed
    <3>2. {idequeue'[i] : i \in DOMAIN idequeue'} = Waiting'
      BY <1>w, <2>2, <2>3, ZenonT(30)
    <3>3. QED BY Zenon, <1>v, <2>2, <3>1, <3>2 DEF Waiting, RequestsServed
  <2>8. Coherent'
    BY <1>c, <1>t, <2>1, <2>2 DEF Coherent
  <2>9. QED BY <2>6, <2>7, <2>8 DEF IoInv
<1>3. ASSUME NEW p \in Procs, acquiresleep(p) \/ iderwDone(p) \/ brelse(p) \/ brelseUnref(p)
      PROVE  IoInv'
  <2>1. UNCHANGED <<blockno, data, valid, dirty, idequeue, request, ready, disk, failed>>
    BY <1>3 DEF acquiresleep, iderwDone, brelse, brelseUnref, drive, bufs
  <2>2. \A q \in Procs : q \in asleep' /\ pc'[q] = "io" <=> q \in asleep /\ pc[q] = "io"
    BY <1>3, <1>t, ZenonT(30) DEF acquiresleep, iderwDone, brelse, brelseUnref, At, Go, wakeup
  <2>3. asleep' \subseteq Procs /\ \A q \in asleep : pc[q] = "io" => buf'[q] = buf[q]
    BY <1>3, <1>t, ZenonT(30) DEF acquiresleep, iderwDone, brelse, brelseUnref, At, wakeup
  <2>4. Waiting' = Waiting
    BY <1>t, <2>2, <2>3 DEF Waiting
  <2>5. QED BY <1>s, <2>1, <2>4, ZenonT(30)
<1>q. ASSUME NEW p \in Procs, p \notin asleep, pc[p] \in {"check", "have"}
      PROVE  \A i \in DOMAIN idequeue : idequeue[i] # buf[p]
  <2> SUFFICES ASSUME NEW i \in DOMAIN idequeue, idequeue[i] = buf[p] PROVE FALSE
    OBVIOUS
  <2>1. PICK q \in asleep : pc[q] = "io" /\ holder[buf[p]] = q
    BY Queued
  <2>2. holder[buf[p]] = p
    BY <1>0, <1>q DEF OneUser
  <2>3. QED BY <1>q, <2>1, <2>2

<1>a. ASSUME NEW p \in Procs, p \notin asleep, pc[p] \in {"check", "have"}, iderw(p),
             UNCHANGED <<blockno, valid, buf>>, buf[p] \in dirty' \/ buf[p] \notin valid,
             \A b \in Bufs : b # buf[p] => (b \in dirty' <=> b \in dirty) /\ data'[b] = data[b],
             dirty' \subseteq Bufs, data' \in [Bufs -> Vals], dirty \subseteq dirty'
      PROVE  IoInv'
  <2>1. buf[p] \in Bufs /\ blockno[buf[p]] \in Blocks
    BY <1>a, <1>b
  <2>2. \A i \in DOMAIN idequeue : idequeue[i] # buf[p]
    BY <1>a, <1>q
  <2>3. /\ idequeue' = Append(idequeue, buf[p]) /\ disk' = disk /\ failed' = failed
        /\ asleep' = asleep \cup {p} /\ pc' = [pc EXCEPT ![p] = "io"]
    BY <1>a DEF iderw, Go
  <2>4. /\ \A i \in DOMAIN idequeue : idequeue'[i] = idequeue[i]
        /\ DOMAIN idequeue' = DOMAIN idequeue \cup {Len(idequeue) + 1}
        /\ Len(idequeue) + 1 \notin DOMAIN idequeue
        /\ idequeue'[Len(idequeue) + 1] = buf[p]
        /\ idequeue' # << >>
        /\ Head(idequeue') = IF idequeue = << >> THEN buf[p] ELSE Head(idequeue)
    BY <1>t, <2>1, <2>3
  <2>5. Waiting' = Waiting \cup {buf[p]}
    BY <1>a, <1>t, <2>3 DEF Waiting
  <2>6. {idequeue'[i] : i \in DOMAIN idequeue'} = {idequeue[i] : i \in DOMAIN idequeue} \cup {buf[p]}
    BY <2>4
  <2>7. \A i, j \in DOMAIN idequeue' : idequeue'[i] = idequeue'[j] => i = j
    BY <1>v, <2>2, <2>4 DEF RequestsServed
  <2>8. \A i \in DOMAIN idequeue' : idequeue'[i] \in dirty' \/ idequeue'[i] \notin valid'
    BY <1>d, <1>a, <2>4, ZenonT(30) DEF DriveInv
  <2>9. /\ ready' => request' # None
        /\ request' # None
        /\ request'.block = blockno'[Head(idequeue')]
        /\ request'.write <=> Head(idequeue') \in dirty'
        /\ request'.write => /\ request'.data = data'[Head(idequeue')]
                             /\ ready' => disk'[request'.block] = data'[Head(idequeue')]
    <3>1. CASE idequeue = << >>
      <4>1. idestart(buf[p])
        BY <1>a, <3>1 DEF iderw
      <4>2. request' = [block |-> blockno'[buf[p]], write |-> buf[p] \in dirty',
                        data |-> data'[buf[p]]] /\ ready' = FALSE
        BY <4>1 DEF idestart
      <4>3. request' \in Requests
        <5>1. blockno' \in [Bufs -> Blocks \cup {None}] /\ blockno'[buf[p]] # None
          BY <1>a, <1>t, <1>n, <2>1
        <5>2. QED BY <1>a, <2>1, <4>1, <5>1, Started, ZenonT(30)
      <4>4. QED BY <1>n, <2>4, <3>1, <4>2, <4>3, ZenonT(30)
    <3>2. CASE idequeue # << >>
      <4>1. UNCHANGED <<request, ready>> /\ Head(idequeue') = Head(idequeue)
        BY <1>a, <2>4, <3>2 DEF iderw
      <4>2. Head(idequeue) \in Bufs /\ Head(idequeue) # buf[p]
        BY <1>h, <2>2, <3>2, Queued
      <4>3. UNCHANGED <<blockno, disk>> /\ data'[Head(idequeue)] = data[Head(idequeue)]
            /\ (Head(idequeue) \in dirty' <=> Head(idequeue) \in dirty)
        BY <1>a, <2>3, <4>2
      <4>4. QED BY Zenon, <1>d, <1>v, <3>2, <4>1, <4>3 DEF DriveInv, RequestsServed
    <3>3. QED BY <3>1, <3>2
  <2>10. Coherent'
    BY <1>c, <1>t, <1>a, <2>1, <2>3 DEF Coherent
  <2>11. DriveInv'
    BY Zenon, <2>8, <2>9 DEF DriveInv
  <2>12. RequestsServed'
    BY Zenon, <1>w, <2>4, <2>5, <2>6, <2>7, <2>9 DEF Waiting, RequestsServed
  <2>13. QED BY <2>10, <2>11, <2>12, ZenonT(30) DEF IoInv
<1>4. ASSUME NEW p \in Procs, bread(p) PROVE IoInv'
  <2>1. CASE buf[p] \in valid
    <3>1. /\ UNCHANGED <<blockno, data, valid, dirty, idequeue, request, ready, disk, failed, asleep, buf>>
          /\ p \notin asleep /\ pc' = [pc EXCEPT ![p] = "have"]
      BY <1>4, <2>1, ZenonT(30) DEF bread, At, Go, bufs, drive
    <3>2. Waiting' = Waiting
      BY <1>t, <3>1 DEF Waiting
    <3>3. QED BY <1>s, <3>1, <3>2
  <2>2. CASE buf[p] \notin valid
    <3>1. iderw(p) /\ UNCHANGED <<blockno, valid, buf, dirty, data>> /\ p \notin asleep /\ pc[p] = "check"
      BY <1>4, <2>2 DEF bread, At, bufs
    <3>2. QED BY <1>a, <1>t, <2>2, <3>1
  <2>3. QED BY <2>1, <2>2
<1>5. ASSUME NEW p \in Procs, bwrite(p) PROVE IoInv'
  <2>1. iderw(p) /\ UNCHANGED <<blockno, valid, buf>> /\ p \notin asleep /\ pc[p] = "have"
    BY <1>5 DEF bwrite, At
  <2>2. PICK v \in Vals : data' = [data EXCEPT ![buf[p]] = v] /\ dirty' = dirty \cup {buf[p]}
    BY <1>5, ZenonT(30) DEF bwrite
  <2>3. buf[p] \in Bufs
    BY <1>b, <2>1
  <2>4. QED BY SMTT(30), <1>a, <1>t, <2>1, <2>2, <2>3
<1>6. ASSUME NEW p \in Procs, log_write(p) PROVE IoInv'
  <2>1. /\ UNCHANGED <<blockno, valid, buf, pc, asleep, idequeue, request, ready, disk, failed>>
        /\ p \notin asleep /\ pc[p] = "have"
    BY <1>6 DEF log_write, At, drive, procs
  <2>2. PICK v \in Vals : data' = [data EXCEPT ![buf[p]] = v] /\ dirty' = dirty \cup {buf[p]}
    BY <1>6, ZenonT(30) DEF log_write
  <2>3. buf[p] \in Bufs /\ \A i \in DOMAIN idequeue : idequeue[i] # buf[p]
    BY <1>b, <1>q, <2>1
  <2>4. Waiting' = Waiting
    BY <2>1 DEF Waiting
  <2>5. \A b \in Bufs : b # buf[p] => (b \in dirty' <=> b \in dirty) /\ data'[b] = data[b]
    BY <1>t, <2>2, <2>3, SMTT(30)
  <2>6. idequeue # << >> => Head(idequeue) \in Bufs /\ Head(idequeue) # buf[p]
    BY <1>h, <2>3, Queued
  <2>h. request # None => idequeue # << >>
    BY Zenon, <1>v DEF RequestsServed
  <2>e. request # None => /\ data'[Head(idequeue)] = data[Head(idequeue)]
                          /\ Head(idequeue) \in dirty' <=> Head(idequeue) \in dirty
    BY Zenon, <2>5, <2>6, <2>h
  <2>i. \A i \in DOMAIN idequeue : idequeue[i] \in dirty' \/ idequeue[i] \notin valid'
    BY <1>d, <2>1, <2>2 DEF DriveInv
  <2>7. DriveInv'
    BY Zenon, <1>d, <2>1, <2>e, <2>i DEF DriveInv
  <2>8. RequestsServed'
    BY Zenon, <1>e, <2>1, <2>4, <2>e
  <2>9. Coherent'
    BY <1>c, <1>t, <2>1, <2>2, <2>3, <2>5 DEF Coherent
  <2>10. QED BY <2>7, <2>8, <2>9 DEF IoInv
<1>7. ASSUME Disk PROVE IoInv'
  <2>1. /\ UNCHANGED <<blockno, data, valid, dirty, idequeue, request, failed, pc, buf, asleep>>
        /\ request # None /\ ready' = TRUE
        /\ disk' = IF request.write THEN [disk EXCEPT ![request.block] = request.data] ELSE disk
    BY <1>7 DEF Disk, bufs, procs
  <2>2. idequeue # << >> /\ request.block = blockno[Head(idequeue)]
    BY Zenon, <1>v, <2>1 DEF RequestsServed
  <2>3. Head(idequeue) \in Bufs /\ blockno[Head(idequeue)] \in Blocks
    BY <1>h, <2>2, Queued
  <2>4. request.write => /\ Head(idequeue) \in dirty /\ request.data = data[Head(idequeue)]
                         /\ disk' = [disk EXCEPT ![request.block] = request.data]
    BY <1>d, <1>v, <2>1 DEF DriveInv, RequestsServed
  <2>d. request.write => disk'[request.block] = data[Head(idequeue)]
    BY <1>t, <2>2, <2>3, <2>4
  <2>5. DriveInv'
    BY Zenon, <1>d, <2>1, <2>4, <2>d DEF DriveInv
  <2>w. Waiting' = Waiting
    BY Zenon, <2>1 DEF Waiting
  <2>6. RequestsServed'
    BY Zenon, <1>e, <2>1, <2>w
  <2>7. ASSUME NEW b \in valid' \ (dirty' \cup failed') PROVE data'[b] = disk'[blockno'[b]]
    <3>1. b \in valid \ (dirty \cup failed) /\ data[b] = disk[blockno[b]]
      BY <1>c, <2>1, <2>7 DEF Coherent
    <3>2. CASE request.write
      <4>1. b \in Bufs /\ b # Head(idequeue) /\ blockno[b] # None
        BY <1>0, <1>t, <2>4, <3>1, <3>2 DEF BlockInv
      <4>2. blockno[b] # request.block /\ blockno[b] \in Blocks
        BY <1>0, <1>t, <2>2, <2>3, <4>1, SMTT(30) DEF RightBlock
      <4>3. QED BY <1>t, <2>1, <2>4, <3>1, <3>2, <4>2
    <3>3. CASE ~request.write
      BY <2>1, <3>1, <3>3
    <3>4. QED BY <3>2, <3>3, ZenonT(30)
  <2>8. Coherent'
    BY Zenon, <2>7 DEF Coherent
  <2>9. QED BY <2>5, <2>6, <2>8 DEF IoInv
<1>8. ASSUME ideintr PROVE IoInv'
  <2> DEFINE b == Head(idequeue)
  <2>1. ready /\ idequeue # << >> /\ b \in Bufs /\ b = idequeue[1] /\ 1 \in DOMAIN idequeue
        /\ blockno[b] \in Blocks
    BY <1>8, <1>h, Queued DEF ideintr
  <2>2. PICK error \in BOOLEAN :
          /\ b \in dirty => ~error
          /\ data' = [data EXCEPT ![b] = IF b \in dirty \/ error THEN @ ELSE disk[request.block]]
          /\ failed' = IF error THEN failed \cup {b} ELSE failed \ {b}
    BY <1>8, ZenonT(30) DEF ideintr
  <2>3. /\ valid' = valid \cup {b} /\ dirty' = dirty \ {b}
        /\ asleep' = {q \in asleep : ~(pc[q] = "io" /\ buf[q] = b)}
        /\ idequeue' = Tail(idequeue)
        /\ UNCHANGED <<blockno, disk, pc, buf>>
    BY <1>8 DEF ideintr, wakeup
  <2>4. IF Len(idequeue) > 1 THEN idestart(idequeue[2]) ELSE request' = None /\ ready' = FALSE
    BY <1>8 DEF ideintr
  <2>5. /\ request # None /\ request.block = blockno[b] /\ (request.write <=> b \in dirty)
        /\ request.write => disk[request.block] = data[b]
    BY <1>d, <1>v, <2>1 DEF DriveInv, RequestsServed
  <2> HIDE DEF b
  <2>6. data' \in [Bufs -> Vals] /\ \A c \in Bufs : c # b => data'[c] = data[c]
    BY <1>t, <2>1, <2>2, <2>5
  <2>7. ASSUME NEW c \in valid' \ (dirty' \cup failed') PROVE data'[c] = disk'[blockno'[c]]
    <3>1. CASE c = b
      <4>1. ~error
        BY <2>2, <2>7, <3>1
      <4>2. data'[b] = IF b \in dirty THEN data[b] ELSE disk[request.block]
        BY <1>t, <2>1, <2>2, <4>1, SMTT(30)
      <4>3. QED BY <2>3, <2>5, <3>1, <4>2
    <3>2. CASE c # b
      <4>1. c \in valid \ (dirty \cup failed) /\ c \in Bufs
        BY <1>t, <2>2, <2>3, <2>7, <3>2
      <4>2. QED BY <1>c, <2>3, <2>6, <3>2, <4>1 DEF Coherent
    <3>3. QED BY <3>1, <3>2, ZenonT(30)
  <2>c. Coherent'
    BY Zenon, <2>7 DEF Coherent
  <2>8. /\ \A i \in DOMAIN idequeue' : i + 1 \in DOMAIN idequeue /\ i + 1 # 1 /\ idequeue'[i] = idequeue[i + 1]
        /\ \A i \in DOMAIN idequeue : i # 1 => i - 1 \in DOMAIN idequeue' /\ idequeue'[i - 1] = idequeue[i]
        /\ \A i, j \in DOMAIN idequeue' : i + 1 = j + 1 => i = j
        /\ idequeue' = << >> <=> ~(Len(idequeue) > 1)
        /\ Len(idequeue) > 1 => 2 \in DOMAIN idequeue /\ Head(idequeue') = idequeue[2]
    BY <1>t, <2>1, <2>3, QueueTail
  <2>9. \A i, j \in DOMAIN idequeue : idequeue[i] = idequeue[j] => i = j
    BY Zenon, <1>v DEF RequestsServed
  <2>10. \A i, j \in DOMAIN idequeue' : idequeue'[i] = idequeue'[j] => i = j
    BY <2>8, <2>9
  <2>11. \A i \in DOMAIN idequeue : i # 1 => idequeue[i] # b /\ idequeue[i] \in Bufs
    BY <2>1, <2>9, Queued
  <2>12. \A i \in DOMAIN idequeue' : idequeue'[i] # b /\ idequeue'[i] \in Bufs
                                     /\ (idequeue'[i] \in dirty' \/ idequeue'[i] \notin valid')
    <3> SUFFICES ASSUME NEW i \in DOMAIN idequeue'
                 PROVE  /\ idequeue'[i] # b /\ idequeue'[i] \in Bufs
                        /\ idequeue'[i] \in dirty' \/ idequeue'[i] \notin valid'
      BY Zenon
    <3>1. i + 1 \in DOMAIN idequeue /\ i + 1 # 1 /\ idequeue'[i] = idequeue[i + 1]
      BY <2>8
    <3>2. idequeue[i + 1] # b /\ idequeue[i + 1] \in Bufs
      BY <2>11, <3>1
    <3>3. idequeue[i + 1] \in dirty \/ idequeue[i + 1] \notin valid
      BY <1>d, <3>1 DEF DriveInv
    <3>4. QED BY <2>3, <3>1, <3>2, <3>3
  <2>13. {idequeue'[i] : i \in DOMAIN idequeue'} = {idequeue[i] : i \in DOMAIN idequeue} \ {b}
    <3>1. \A i \in DOMAIN idequeue' : idequeue'[i] \in {idequeue[j] : j \in DOMAIN idequeue} \ {b}
      BY <2>8, <2>12
    <3>2. \A i \in DOMAIN idequeue : idequeue[i] # b => \E j \in DOMAIN idequeue' : idequeue'[j] = idequeue[i]
      BY <2>1, <2>8
    <3>3. QED BY <3>1, <3>2
  <2>14. Waiting' = Waiting \ {b}
    BY <2>3 DEF Waiting
  <2>15. CASE Len(idequeue) > 1
    <3>1. idequeue' # << >> /\ Head(idequeue') = idequeue[2] /\ 2 \in DOMAIN idequeue
      BY <2>8, <2>15
    <3>2. idequeue[2] \in Bufs /\ blockno[idequeue[2]] \in Blocks
      BY SMTT(30), <3>1, Queued
    <3>3. /\ request' = [block |-> blockno'[idequeue[2]], write |-> idequeue[2] \in dirty',
                         data |-> data'[idequeue[2]]]
          /\ ready' = FALSE
      BY <2>4, <2>15 DEF idestart
    <3>4. request' # None
      <4>1. blockno' \in [Bufs -> Blocks \cup {None}] /\ blockno'[idequeue[2]] # None
        BY <1>t, <1>n, <2>3, <3>2, ZenonT(30)
      <4>2. QED BY <2>4, <2>6, <2>15, <3>2, <4>1, Started, ZenonT(30)
    <3>5. request'.block = blockno'[Head(idequeue')] /\ request'.data = data'[Head(idequeue')]
          /\ request'.write = (Head(idequeue') \in dirty')
      BY <3>1, <3>3
    <3>6. DriveInv'
      BY Zenon, <2>12, <3>3, <3>4, <3>5 DEF DriveInv
    <3>7. RequestsServed'
      BY Zenon, <1>w, <2>10, <2>13, <2>14, <3>1, <3>4, <3>5 DEF Waiting, RequestsServed
    <3>8. QED BY <2>c, <3>6, <3>7 DEF IoInv
  <2>16. CASE ~(Len(idequeue) > 1)
    <3>1. request' = None /\ ready' = FALSE /\ idequeue' = << >>
      BY Zenon, <2>4, <2>8, <2>16
    <3>2. DriveInv'
      BY Zenon, <2>12, <3>1 DEF DriveInv
    <3>3. RequestsServed'
      BY Zenon, <1>w, <2>10, <2>13, <2>14, <3>1 DEF Waiting, RequestsServed
    <3>4. QED BY <2>c, <3>2, <3>3 DEF IoInv
  <2>17. QED BY <2>15, <2>16
<1>9. CASE UNCHANGED vars
  <2>1. UNCHANGED <<blockno, data, valid, dirty, idequeue, request, ready, disk, failed>> /\ Waiting' = Waiting
    BY <1>9 DEF vars, Waiting
  <2>2. QED BY <1>s, <2>1
<1>10. QED BY <1>1, <1>2, <1>3, <1>4, <1>5, <1>6, <1>7, <1>8, <1>9 DEF Next, Step


-----------------------------------------------------------------------------
(* Counting users *)

\* How many processes have buffer b, if f says which one each has.
Users(f, b) == Cardinality({q \in Procs : f[q] = b})

\* One process more uses b, or one less.
LEMMA UserAdded ==
  ASSUME NEW f \in [Procs -> Bufs \cup {0}], NEW p \in Procs, f[p] = 0, NEW b \in Bufs
  PROVE  \A c \in Bufs :
           /\ Users(f, c) \in Nat
           /\ Users([f EXCEPT ![p] = b], c) = Users(f, c) + (IF c = b THEN 1 ELSE 0)
<1> DEFINE g == [f EXCEPT ![p] = b]
<1> SUFFICES ASSUME NEW c \in Bufs
             PROVE  /\ Users(f, c) \in Nat
                    /\ Users(g, c) = Users(f, c) + (IF c = b THEN 1 ELSE 0)
  BY ZenonT(30)
<1> HIDE DEF g
<1>0. g \in [Procs -> Bufs \cup {0}] /\ \A q \in Procs : g[q] = IF q = p THEN b ELSE f[q]
  BY DEF g
<1>1. IsFiniteSet({q \in Procs : f[q] = c})
  BY BufConstants, FS_Subset
<1>2. Users(f, c) \in Nat
  BY <1>1, FS_CardinalityType DEF Users
<1>3. CASE c = b
  <2>1. {q \in Procs : g[q] = c} = {q \in Procs : f[q] = c} \cup {p}
    BY <1>0, <1>3
  <2>2. p \notin {q \in Procs : f[q] = c}
    BY NoBuffer
  <2>3. Users(g, c) = Users(f, c) + 1
    BY <1>1, <2>1, <2>2, FS_AddElement, ZenonT(30) DEF Users
  <2>4. QED BY <1>2, <1>3, <2>3
<1>4. CASE c # b
  <2>1. {q \in Procs : g[q] = c} = {q \in Procs : f[q] = c}
    BY <1>0, <1>4, NoBuffer
  <2>2. Users(g, c) = Users(f, c)
    BY <2>1 DEF Users
  <2>3. QED BY <1>2, <1>4, <2>2
<1>5. QED BY <1>2, <1>3, <1>4

LEMMA UserRemoved ==
  ASSUME NEW f \in [Procs -> Bufs \cup {0}], NEW p \in Procs, NEW b \in Bufs, f[p] = b
  PROVE  \A c \in Bufs : Users([f EXCEPT ![p] = 0], c) = Users(f, c) - (IF c = b THEN 1 ELSE 0)
<1> DEFINE g == [f EXCEPT ![p] = 0]
<1>1. g \in [Procs -> Bufs \cup {0}] /\ g[p] = 0 /\ [g EXCEPT ![p] = b] = f
  BY ZenonT(30)
<1> HIDE DEF g
<1>2. \A c \in Bufs : Users(g, c) \in Nat /\ Users(f, c) = Users(g, c) + (IF c = b THEN 1 ELSE 0)
  BY <1>1, UserAdded
<1>3. \A c \in Bufs : Users(g, c) = Users(f, c) - (IF c = b THEN 1 ELSE 0)
  BY <1>2
<1>4. QED BY Zenon, <1>3 DEF g

-----------------------------------------------------------------------------
(* The steps *)

\* The counts follow the processes that get and give back buffers.
LEMMA RefcntStep ==
  ASSUME BufInv, [Next]_vars
  PROVE  RefcntExact'
<1>0. TypeOK /\ UserInv /\ RefcntExact
  BY DEF BufInv
<1>t. refcnt \in [Bufs -> Nat] /\ buf \in [Procs -> Bufs \cup {0}] /\ lru \in [Bufs -> Bufs]
  BY <1>0, ZenonT(30) DEF TypeOK
<1>u. \A b \in Bufs : refcnt[b] = Users(buf, b)
  BY <1>0 DEF RefcntExact, Users
<1>1. ASSUME NEW p \in Procs, NEW n \in Blocks, bgetHit(p, n) PROVE RefcntExact'
  <2>1. PICK b \in Bufs : refcnt' = [refcnt EXCEPT ![b] = @ + 1] /\ buf' = [buf EXCEPT ![p] = b]
    BY <1>1, ZenonT(30) DEF bgetHit, Cached
  <2>2. buf[p] = 0 /\ UNCHANGED lru
    BY <1>0, <1>1, ZenonT(30) DEF bgetHit, At, UserInv
  <2>3. \A c \in Bufs : Users(buf', c) = Users(buf, c) + (IF c = b THEN 1 ELSE 0)
    BY <1>t, <2>1, <2>2, UserAdded, ZenonT(30)
  <2>4. \A c \in Bufs : refcnt'[c] = Users(buf', c)
    <3> TAKE c \in Bufs
    <3>1. Users(buf, c) = refcnt[c] /\ refcnt[c] \in Nat
      BY <1>t, <1>u
    <3>2. Users(buf', c) = refcnt[c] + (IF c = b THEN 1 ELSE 0)
      BY Zenon, <2>3, <3>1
    <3>3. refcnt'[c] = refcnt[c] + (IF c = b THEN 1 ELSE 0)
      BY <1>t, <2>1, <3>1
    <3>4. QED BY <3>2, <3>3, ZenonT(30)
  <2>5. QED BY <1>0, <2>2, <2>4, ZenonT(30) DEF RefcntExact, Users
<1>2. ASSUME NEW p \in Procs, NEW n \in Blocks, bgetMiss(p, n) PROVE RefcntExact'
  <2>1. PICK b \in Bufs : /\ refcnt[b] = 0
                          /\ refcnt' = [refcnt EXCEPT ![b] = 1] /\ buf' = [buf EXCEPT ![p] = b]
    BY <1>2, ZenonT(30) DEF bgetMiss, Oldest, Unused
  <2>2. buf[p] = 0 /\ UNCHANGED lru
    BY <1>0, <1>2, ZenonT(30) DEF bgetMiss, At, UserInv
  <2>3. \A c \in Bufs : Users(buf', c) = Users(buf, c) + (IF c = b THEN 1 ELSE 0)
    BY <1>t, <2>1, <2>2, UserAdded, ZenonT(30)
  <2>4. \A c \in Bufs : refcnt'[c] = Users(buf', c)
    <3> TAKE c \in Bufs
    <3>1. Users(buf, c) = refcnt[c] /\ refcnt[c] \in Nat
      BY <1>t, <1>u
    <3>2. Users(buf', c) = refcnt[c] + (IF c = b THEN 1 ELSE 0)
      BY Zenon, <2>3, <3>1
    <3>3. refcnt'[c] = refcnt[c] + (IF c = b THEN 1 ELSE 0)
      BY <1>t, <2>1, <3>1
    <3>4. QED BY <3>2, <3>3, ZenonT(30)
  <2>5. QED BY <1>0, <2>2, <2>4, ZenonT(30) DEF RefcntExact, Users
<1>3. ASSUME NEW p \in Procs, brelseUnref(p) PROVE RefcntExact'
  <2>1. buf[p] \in Bufs
    BY <1>0, <1>3, <1>t, ZenonT(30) DEF brelseUnref, At, UserInv
  <2>2. /\ refcnt' = [refcnt EXCEPT ![buf[p]] = @ - 1] /\ buf' = [buf EXCEPT ![p] = 0]
        /\ lru' = lru \/ lru' = ToFront(buf[p])
    BY <1>3 DEF brelseUnref
  <2>3. \A b \in Bufs : \E i \in Bufs : lru'[i] = b
    <3>1. \A b \in Bufs : \E i \in Bufs : lru[i] = b
      BY <1>0 DEF RefcntExact
    <3>2. \A b \in Bufs : \E i \in Bufs : ToFront(buf[p])[i] = b
      BY <1>t, <2>1, <3>1, ToFrontKeeps
    <3>3. QED BY Zenon, <2>2, <3>1, <3>2
  <2>4. \A b \in Bufs : refcnt'[b] = Cardinality({q \in Procs : buf'[q] = b})
    <3>1. \A c \in Bufs : Users(buf', c) = Users(buf, c) - (IF c = buf[p] THEN 1 ELSE 0)
      BY <1>t, <2>1, <2>2, UserRemoved, ZenonT(30)
    <3>2. \A c \in Bufs : refcnt'[c] = Users(buf', c)
      <4> TAKE c \in Bufs
      <4>1. Users(buf, c) = refcnt[c] /\ refcnt[c] \in Nat
        BY <1>t, <1>u
      <4>2. Users(buf', c) = refcnt[c] - (IF c = buf[p] THEN 1 ELSE 0)
        BY Zenon, <3>1, <4>1
      <4>3. refcnt'[c] = refcnt[c] - (IF c = buf[p] THEN 1 ELSE 0)
        BY <1>t, <2>1, <2>2, <4>1
      <4>4. QED BY <4>2, <4>3
    <3>3. QED BY <3>2 DEF Users
  <2>5. QED BY <2>3, <2>4, ZenonT(30) DEF RefcntExact
<1>4. CASE UNCHANGED <<refcnt, lru, buf>>
  BY <1>0, <1>4 DEF RefcntExact
<1>5. QED
  BY <1>1, <1>2, <1>3, <1>4
  DEF Next, Step, vars, bgetPanic, acquiresleep, bread, iderwDone, brelse, bwrite, log_write,
      Disk, ideintr, bufs, procs

\* The invariant holds in every state the buffer cache reaches.
LEMMA BufInvariant == Spec => []BufInv
<1>1. BufInv /\ [Next]_vars => BufInv'
  <2>1. BufInv => UsersCounted
    BY NoUsers DEF BufInv, UsersCounted
  <2>2. QED BY <2>1, TypeStep, UseStep, RefcntStep, IoStep DEF BufInv, UseInv, IoInv
<1>2. QED BY <1>1, BufInit, PTL DEF Spec

-----------------------------------------------------------------------------
(* The theorems *)

\* For any number of processes, buffers and blocks: a block is in one buffer at
\* most; bget() does not recycle a buffer a process has or has pinned; refcnt is
\* exact and the list loses no buffer; one process at a time has a buffer's lock;
\* and a buffer that is valid and clean holds what is on disk.
THEOREM BuffersExactHolds == Spec => []BuffersExact
BY BufInvariant, PTL DEF BufInv, BuffersExact

\* The queue of the driver and the processes asleep in iderw() match, the disk is
\* busy with the head of the queue, and neither brelse() nor ideintr() leaves a
\* process asleep that it should have woken.
THEOREM NoneForgottenHolds == Spec => []NoneForgotten
BY BufInvariant, PTL DEF BufInv, NoneForgotten

=============================================================================
