----------------------------- MODULE PipeProofs -----------------------------
(* Proofs about Pipe, for any number of processes, any buffer size and any   *)
(* width of the counters.                                                    *)
EXTENDS Pipe, TLAPS

-----------------------------------------------------------------------------
(* The inductive invariant *)

\* Who may be where in pipe.c: a reader or writer has its descriptor, an end
\* is open while somebody holds or closes it, and one process frees the page.
EndInv ==
  /\ \A p \in Procs : /\ pc[p] \in {"read", "rsleep", "copy"} => p \in rfd
                      /\ pc[p] \in {"write", "wsleep"} => p \in wfd
                      /\ pc[p] = "closer" => "read" \in open /\ rfd = {}
                      /\ pc[p] = "closew" => "write" \in open /\ wfd = {}
                      /\ pc[p] = "free" => open = {} /\ page = "pipe"
  /\ rfd # {} => "read" \in open
  /\ wfd # {} => "write" \in open
  /\ \A p, q \in Procs :
       pc[p] = pc[q] /\ pc[p] \in {"closer", "closew", "free"} => p = q
  /\ page = "free" => open = {} /\ \A p \in Procs : pc[p] # "free"

\* Why a process may sleep or go to sleep, also while another holds the lock:
\* a reader that copies will wake the writers, and a writer the readers.
SleepInv ==
  /\ \A p \in Procs :
       /\ pc[p] \in {"rsleep", "wsleep", "copy"} => lock = p
       /\ pc[p] = "wsleep" => Full /\ "read" \in open
       /\ pc[p] = "rsleep" => Empty /\ "write" \in open
       /\ lock = p => p \notin asleep /\ pc[p] \notin {"user", "free"}
  /\ \A p \in asleep :
       /\ pc[p] \in {"read", "write"}
       /\ pc[p] = "write" =>
            \/ Full /\ "read" \in open
            \/ \E q \in Procs : lock = q /\ pc[q] = "copy"
       /\ pc[p] = "read" =>
            /\ "write" \in open
            /\ \/ Empty
               \/ killed # {}
               \/ \E q \in Procs : lock = q /\ pc[q] \in {"write", "wsleep"}

PipeInv == TypeOK /\ EndInv /\ SleepInv

-----------------------------------------------------------------------------

\* The points of pipe.c by name.
LEMMA PointNames ==
  /\ "user" \in Points /\ "free" \in Points
  /\ "write" \in Points /\ "wsleep" \in Points /\ "closew" \in Points
  /\ "read" \in Points /\ "rsleep" \in Points /\ "closer" \in Points
  /\ "copy" \in Points
BY DEF Points

\* pipealloc() establishes the invariant.
LEMMA PipeInit == Init => PipeInv
<1> SUFFICES ASSUME Init PROVE PipeInv
  OBVIOUS
<1>1. TypeOK
  BY PipeConstants, PointNames DEF Init, TypeOK
<1>2. EndInv
  BY DEF Init, EndInv
<1>3. SleepInv
  BY PipeConstants DEF Init, SleepInv
<1>4. QED BY <1>1, <1>2, <1>3 DEF PipeInv

\* Every step of pipe.c keeps the types.
LEMMA TypeStep == TypeOK /\ [Next]_vars => TypeOK'
<1> SUFFICES ASSUME TypeOK, [Next]_vars PROVE TypeOK'
  OBVIOUS
<1> USE DEF TypeOK
<1>e. ASSUME NEW p \in Procs, NEW l \in Points, NEW n \in 0 .. MaxBytes, Enter(p, l, n),
             rfd' \subseteq Procs, wfd' \subseteq Procs, UNCHANGED killed
      PROVE  TypeOK'
  BY <1>e DEF Enter, pvars
<1>z. 0 \in 0 .. MaxBytes
  BY PipeConstants
<1>1. ASSUME NEW p \in Procs, Acquire(p) PROVE TypeOK'
  BY <1>1 DEF Acquire, pvars
<1>2. ASSUME NEW p \in Procs, NEW n \in 0 .. MaxBytes, Write(p, n) \/ Read(p, n)
      PROVE  TypeOK'
  <2>1. \E l \in Points : Enter(p, l, n)
    BY <1>2, PointNames DEF Write, Read
  <2>2. QED BY <1>2, <1>e, <2>1 DEF Write, Read
<1>3. ASSUME NEW p \in Procs, WriteByte(p) PROVE TypeOK'
  <2>1. nwrite % PIPESIZE \in 0 .. PIPESIZE - 1 /\ (nwrite + 1) % UintRange \in 0 .. UintRange - 1
    BY PipeConstants
  <2>2. data' \in [0 .. PIPESIZE - 1 -> Bytes]
    BY <1>3, <2>1 DEF WriteByte
  <2>3. left' \in [Procs -> 0 .. MaxBytes]
    BY <1>3, PipeConstants DEF WriteByte
  <2>4. QED BY <1>3, <2>1, <2>2, <2>3 DEF WriteByte
<1>4. ASSUME NEW p \in Procs, ReadByte(p) PROVE TypeOK'
  <2>1. (nread + 1) % UintRange \in 0 .. UintRange - 1
    BY PipeConstants
  <2>2. left' \in [Procs -> 0 .. MaxBytes]
    BY <1>4, PipeConstants DEF ReadByte
  <2>3. QED BY <1>4, <2>1, <2>2 DEF ReadByte
<1>5. ASSUME NEW p \in Procs,
             WriteFails(p) \/ WriteDone(p) \/ ReadFails(p) \/ ReadDone(p)
      PROVE  TypeOK'
  <2>1. Leave(p) /\ asleep' \subseteq Procs /\ UNCHANGED <<pvars, rfd, wfd, killed>>
    BY <1>5 DEF WriteFails, WriteDone, ReadFails, ReadDone, wakeup
  <2>2. QED BY <1>z, <2>1, PointNames DEF Leave, pvars
<1>6. ASSUME NEW p \in Procs, WriteCheck(p) \/ ReadCheck(p) \/ ReadStart(p) PROVE TypeOK'
  BY <1>6, PointNames, ZenonT(30) DEF WriteCheck, ReadCheck, ReadStart, Goto, pvars
<1>7. ASSUME NEW p \in Procs, WriteSleep(p) \/ ReadSleep(p) PROVE TypeOK'
  BY <1>7, PointNames, ZenonT(30) DEF WriteSleep, ReadSleep, SleepOn, pvars
<1>8. ASSUME NEW p \in Procs, CloseFd(p) PROVE TypeOK'
  <2>1. \E l \in Points : Enter(p, l, 0)
    BY <1>8, PointNames DEF CloseFd
  <2>2. QED BY <1>8, <1>e, <1>z, <2>1 DEF CloseFd
<1>9. ASSUME NEW p \in Procs, pipeclose(p) PROVE TypeOK'
  BY <1>9, PointNames DEF pipeclose, wakeup
<1>10. ASSUME NEW p \in Procs, FreePage(p) PROVE TypeOK'
  BY <1>10, PointNames DEF FreePage
<1>11. ASSUME NEW p \in Procs, NEW q \in Procs, Fork(p, q) PROVE TypeOK'
  BY <1>11 DEF Fork, pvars
<1>12. ASSUME NEW p \in Procs, Kill(p) PROVE TypeOK'
  BY <1>12 DEF Kill, pvars
<1>13. CASE UNCHANGED vars
  BY <1>13 DEF vars
<1> HIDE DEF TypeOK
<1>14. QED
  BY Zenon, <1>1, <1>2, <1>3, <1>4, <1>5, <1>6, <1>7, <1>8, <1>9, <1>10, <1>11, <1>12,
     <1>13 DEF Next, Call

\* Steps that stay between entry and return keep EndInv: readers have their
\* descriptor, and only pipeclose() changes the ends.
LEMMA EndStep == TypeOK /\ EndInv /\ SleepInv /\ [Next]_vars => EndInv'
<1> SUFFICES ASSUME TypeOK, EndInv, SleepInv, [Next]_vars PROVE EndInv'
  OBVIOUS
<1>t. pc \in [Procs -> Points] /\ open \subseteq {"read", "write"} /\ rfd \subseteq Procs
      /\ wfd \subseteq Procs /\ page \in {"pipe", "free"}
  BY DEF TypeOK
<1> USE DEF EndInv
<1>0. ASSUME UNCHANGED <<open, page, rfd, wfd, pc>> PROVE EndInv'
  BY <1>0
<1>1. ASSUME NEW p \in Procs, NEW l \in {"user", "write", "wsleep", "read", "rsleep", "copy"},
             pc' = [pc EXCEPT ![p] = l], UNCHANGED <<open, page, rfd, wfd>>,
             l \in {"write", "wsleep"} => p \in wfd,
             l \in {"read", "rsleep", "copy"} => p \in rfd
      PROVE  EndInv'
  BY <1>1, <1>t
<1>2. ASSUME NEW p \in Procs, NEW n \in 0 .. MaxBytes, Write(p, n) \/ Read(p, n)
      PROVE  EndInv'
  BY <1>1, <1>2 DEF Write, Read, Enter, pvars
<1>3. ASSUME NEW p \in Procs, Acquire(p) \/ Kill(p) \/ WriteByte(p) \/ ReadByte(p)
      PROVE  EndInv'
  BY <1>0, <1>3 DEF Acquire, Kill, WriteByte, ReadByte, pvars
<1>4. ASSUME NEW p \in Procs,
             WriteFails(p) \/ WriteDone(p) \/ ReadFails(p) \/ ReadDone(p)
      PROVE  EndInv'
  BY <1>1, <1>4 DEF WriteFails, WriteDone, ReadFails, ReadDone, Leave, pvars
<1>5. ASSUME NEW p \in Procs, WriteCheck(p) \/ ReadCheck(p) \/ ReadStart(p) PROVE EndInv'
  <2>1. \/ pc[p] = "write" /\ pc' = [pc EXCEPT ![p] = "wsleep"]
        \/ pc[p] = "read" /\ pc' = [pc EXCEPT ![p] = "rsleep"]
        \/ pc[p] = "read" /\ pc' = [pc EXCEPT ![p] = "copy"]
    BY <1>5 DEF WriteCheck, ReadCheck, ReadStart, Holds, Goto
  <2>2. UNCHANGED <<open, page, rfd, wfd>>
    BY <1>5 DEF WriteCheck, ReadCheck, ReadStart, Goto, pvars
  <2>3. QED BY <1>1, <2>1, <2>2
<1>6. ASSUME NEW p \in Procs, WriteSleep(p) \/ ReadSleep(p) PROVE EndInv'
  <2>1. \/ pc[p] = "wsleep" /\ pc' = [pc EXCEPT ![p] = "write"]
        \/ pc[p] = "rsleep" /\ pc' = [pc EXCEPT ![p] = "read"]
    BY <1>6 DEF WriteSleep, ReadSleep, Holds, SleepOn
  <2>2. UNCHANGED <<open, page, rfd, wfd>>
    BY <1>6 DEF WriteSleep, ReadSleep, SleepOn, pvars
  <2>3. QED BY <1>1, <2>1, <2>2
<1>7. ASSUME NEW p \in Procs, CloseFd(p) PROVE EndInv'
  <2>1. UNCHANGED <<open, page>> /\ pc[p] = "user"
    BY <1>7 DEF CloseFd, Enter, pvars
  <2>2. CASE p \in rfd /\ rfd' = rfd \ {p} /\ UNCHANGED wfd
             /\ pc' = [pc EXCEPT ![p] = IF rfd' = {} THEN "closer" ELSE "user"]
    BY <1>t, <2>1, <2>2
  <2>3. CASE p \in wfd /\ wfd' = wfd \ {p} /\ UNCHANGED rfd
             /\ pc' = [pc EXCEPT ![p] = IF wfd' = {} THEN "closew" ELSE "user"]
    BY <1>t, <2>1, <2>3
  <2>4. QED BY <1>7, <2>2, <2>3 DEF CloseFd, Enter
<1>8. ASSUME NEW p \in Procs, pipeclose(p) PROVE EndInv'
  <2>1. UNCHANGED <<page, rfd, wfd>>
        /\ pc' = [pc EXCEPT ![p] = IF open' = {} THEN "free" ELSE "user"]
    BY <1>8 DEF pipeclose
  <2>2. CASE pc[p] = "closer" /\ open' = open \ {"read"}
    BY <1>t, <2>1, <2>2
  <2>3. CASE pc[p] = "closew" /\ open' = open \ {"write"}
    BY <1>t, <2>1, <2>3
  <2>4. QED BY <1>8, <2>2, <2>3 DEF pipeclose, Holds
<1>9. ASSUME NEW p \in Procs, FreePage(p) PROVE EndInv'
  BY <1>9, <1>t DEF FreePage
<1>10. ASSUME NEW p \in Procs, NEW q \in Procs, Fork(p, q) PROVE EndInv'
  BY <1>10, <1>t DEF Fork, pvars
<1>11. CASE UNCHANGED vars
  BY <1>0, <1>11 DEF vars
<1> HIDE DEF EndInv
<1>12. QED
  BY Zenon, <1>2, <1>3, <1>4, <1>5, <1>6, <1>7, <1>8, <1>9, <1>10, <1>11 DEF Next, Call

\* Every step keeps the reasons to sleep: whoever makes a pipe non-empty or
\* non-full holds the lock until it has woken the other side.
LEMMA SleepStep == TypeOK /\ EndInv /\ SleepInv /\ [Next]_vars => SleepInv'
<1> SUFFICES ASSUME TypeOK, EndInv, SleepInv, [Next]_vars PROVE SleepInv'
  OBVIOUS
<1>t. pc \in [Procs -> Points] /\ asleep \subseteq Procs /\ lock \in Procs \cup {Free}
      /\ Free \notin Procs
  BY PipeConstants DEF TypeOK
<1> USE DEF SleepInv
<1>0. ASSUME UNCHANGED <<nread, nwrite, open, lock, asleep, pc>>, killed \subseteq killed'
      PROVE  SleepInv'
  BY <1>0, <1>t DEF Full, Empty
<1>1. ASSUME NEW p \in Procs, NEW n \in 0 .. MaxBytes, Write(p, n) \/ Read(p, n)
      PROVE  SleepInv'
  <2>1. UNCHANGED <<nread, nwrite, open, lock, asleep, killed>> /\ pc[p] = "user"
        /\ \E l \in {"read", "write"} : pc' = [pc EXCEPT ![p] = l]
    BY <1>1 DEF Write, Read, Enter, pvars
  <2>2. QED BY <1>t, <2>1 DEF Full, Empty
<1>2. ASSUME NEW p \in Procs, Acquire(p) PROVE SleepInv'
  <2>1. UNCHANGED <<nread, nwrite, open, asleep, killed, pc>> /\ lock = Free /\ lock' = p
        /\ pc[p] \notin {"user", "free"} /\ p \notin asleep
    BY <1>2 DEF Acquire, pvars
  <2>2. QED BY <1>t, <2>1 DEF Full, Empty
<1>3. ASSUME NEW p \in Procs, WriteByte(p) PROVE SleepInv'
  <2>1. UNCHANGED <<nread, open, lock, asleep, killed, pc>> /\ lock = p /\ pc[p] = "write"
        /\ ~Full
    BY <1>3 DEF WriteByte, Holds
  <2>2. QED BY <1>t, <2>1
<1>4. ASSUME NEW p \in Procs, ReadByte(p) PROVE SleepInv'
  <2>1. UNCHANGED <<nwrite, open, lock, asleep, killed, pc>> /\ lock = p /\ pc[p] = "copy"
        /\ ~Empty
    BY <1>4 DEF ReadByte, Holds
  <2>2. QED BY <1>t, <2>1
<1>5. ASSUME NEW p \in Procs, WriteFails(p) PROVE SleepInv'
  <2>1. UNCHANGED <<nread, nwrite, open, asleep, killed>> /\ lock = p /\ pc[p] = "write"
        /\ pc' = [pc EXCEPT ![p] = "user"] /\ lock' = Free
        /\ ("read" \notin open \/ p \in killed)
    BY <1>5 DEF WriteFails, Holds, Leave, pvars
  <2>2. \A q \in asleep : pc[q] = "read" => "read" \in open
    BY <1>t DEF EndInv
  <2>3. QED BY <1>t, <2>1, <2>2 DEF Full, Empty
<1>6. ASSUME NEW p \in Procs, WriteDone(p) PROVE SleepInv'
  <2>1. UNCHANGED <<nread, nwrite, open, killed>> /\ lock = p /\ pc[p] = "write"
        /\ pc' = [pc EXCEPT ![p] = "user"] /\ lock' = Free
        /\ asleep' = {q \in asleep : pc[q] # "read"}
    BY <1>6 DEF WriteDone, Holds, Leave, wakeup, pvars
  <2>2. QED BY <1>t, <2>1 DEF Full, Empty
<1>7. ASSUME NEW p \in Procs, ReadFails(p) PROVE SleepInv'
  <2>1. UNCHANGED <<nread, nwrite, open, asleep, killed>> /\ lock = p /\ pc[p] = "read"
        /\ pc' = [pc EXCEPT ![p] = "user"] /\ lock' = Free
    BY <1>7 DEF ReadFails, Holds, Leave, pvars
  <2>2. QED BY <1>t, <2>1 DEF Full, Empty
<1>8. ASSUME NEW p \in Procs, ReadDone(p) PROVE SleepInv'
  <2>1. UNCHANGED <<nread, nwrite, open, killed>> /\ lock = p /\ pc[p] = "copy"
        /\ pc' = [pc EXCEPT ![p] = "user"] /\ lock' = Free
        /\ asleep' = {q \in asleep : pc[q] # "write"}
    BY <1>8 DEF ReadDone, Holds, Leave, wakeup, pvars
  <2>2. QED BY <1>t, <2>1 DEF Full, Empty
<1>9. ASSUME NEW p \in Procs, WriteCheck(p) \/ ReadCheck(p) \/ ReadStart(p) PROVE SleepInv'
  <2>1. UNCHANGED <<nread, nwrite, open, asleep, killed, lock>> /\ lock = p
    BY <1>9 DEF WriteCheck, ReadCheck, ReadStart, Holds, Goto, pvars
  <2>2. \/ /\ pc[p] = "write" /\ pc' = [pc EXCEPT ![p] = "wsleep"]
           /\ Full /\ "read" \in open
        \/ /\ pc[p] = "read" /\ pc' = [pc EXCEPT ![p] = "rsleep"]
           /\ Empty /\ "write" \in open
        \/ pc[p] = "read" /\ pc' = [pc EXCEPT ![p] = "copy"]
    BY <1>9 DEF WriteCheck, ReadCheck, ReadStart, Holds, Goto
  <2>3. QED BY <1>t, <2>1, <2>2 DEF Full, Empty
<1>10. ASSUME NEW p \in Procs, WriteSleep(p) PROVE SleepInv'
  <2>1. UNCHANGED <<nread, nwrite, open, killed>> /\ lock = p /\ pc[p] = "wsleep"
        /\ pc' = [pc EXCEPT ![p] = "write"] /\ lock' = Free
        /\ asleep' = {q \in asleep : pc[q] # "read"} \cup {p}
    BY <1>10 DEF WriteSleep, Holds, SleepOn, pvars
  <2>2. QED BY <1>t, <2>1 DEF Full, Empty
<1>11. ASSUME NEW p \in Procs, ReadSleep(p) PROVE SleepInv'
  <2>1. UNCHANGED <<nread, nwrite, open, killed>> /\ lock = p /\ pc[p] = "rsleep"
        /\ pc' = [pc EXCEPT ![p] = "read"] /\ lock' = Free
        /\ asleep' = asleep \cup {p}
    BY <1>11 DEF ReadSleep, Holds, SleepOn, pvars
  <2>2. QED BY <1>t, <2>1 DEF Full, Empty
<1>12. ASSUME NEW p \in Procs, CloseFd(p) PROVE SleepInv'
  <2>1. UNCHANGED <<nread, nwrite, open, lock, asleep, killed>> /\ pc[p] = "user"
        /\ \E l \in {"user", "closer", "closew"} : pc' = [pc EXCEPT ![p] = l]
    BY <1>12 DEF CloseFd, Enter, pvars
  <2>2. QED BY <1>t, <2>1 DEF Full, Empty
<1>13. ASSUME NEW p \in Procs, pipeclose(p) PROVE SleepInv'
  <2>1. /\ UNCHANGED <<nread, nwrite, killed>> /\ lock = p /\ lock' = Free
        /\ \E l \in {"user", "free"} : pc' = [pc EXCEPT ![p] = l]
    BY <1>13, ZenonT(30) DEF pipeclose, Holds
  <2>2. CASE /\ pc[p] = "closer" /\ open' = open \ {"read"}
             /\ asleep' = {q \in asleep : pc[q] # "write"}
    BY <1>t, <2>1, <2>2 DEF Full, Empty
  <2>3. CASE /\ pc[p] = "closew" /\ open' = open \ {"write"}
             /\ asleep' = {q \in asleep : pc[q] # "read"}
    BY <1>t, <2>1, <2>3 DEF Full, Empty
  <2>4. QED BY <1>13, <2>2, <2>3 DEF pipeclose, Holds, wakeup
<1>14. ASSUME NEW p \in Procs, FreePage(p) PROVE SleepInv'
  <2>1. UNCHANGED <<nread, nwrite, open, lock, asleep, killed>> /\ pc[p] = "free"
        /\ pc' = [pc EXCEPT ![p] = "user"]
    BY <1>14 DEF FreePage
  <2>2. QED BY <1>t, <2>1 DEF Full, Empty
<1>15. ASSUME NEW p \in Procs, Kill(p) PROVE SleepInv'
  <2>1. UNCHANGED <<nread, nwrite, open, lock, pc>> /\ asleep' = asleep \ {p}
        /\ killed' # {}
    BY <1>15 DEF Kill, pvars
  <2>2. QED BY <1>t, <2>1 DEF Full, Empty
<1>16. ASSUME NEW p \in Procs, NEW q \in Procs, Fork(p, q) PROVE SleepInv'
  BY <1>0, <1>16 DEF Fork, pvars
<1>17. CASE UNCHANGED vars
  BY <1>0, <1>17 DEF vars
<1> HIDE DEF SleepInv
<1>18. QED
  BY Zenon, <1>1, <1>2, <1>3, <1>4, <1>5, <1>6, <1>7, <1>8, <1>9, <1>10, <1>11, <1>12,
     <1>13, <1>14, <1>15, <1>16, <1>17 DEF Next, Call

-----------------------------------------------------------------------------
(* Theorems *)

\* The invariant holds in every state pipe.c reaches.
LEMMA PipeInvariant == Spec => []PipeInv
<1>1. PipeInv /\ [Next]_vars => PipeInv'
  BY TypeStep, EndStep, SleepStep DEF PipeInv
<1>2. QED BY PipeInit, <1>1, PTL DEF Spec

\* pipe.c keeps its variables in range, counters included.
THEOREM PipeTypeCorrect == Spec => []TypeOK
<1>1. PipeInv => TypeOK
  BY DEF PipeInv
<1>2. QED BY PipeInvariant, <1>1, PTL

\* No process sleeps in pipewrite() or piperead() without a reason, however
\* many readers and writers there are.
THEOREM NoLostWakeup == Spec => []SleepersMustWait
<1>1. PipeInv => SleepersMustWait
  BY PipeConstants DEF PipeInv, SleepInv, SleepersMustWait
<1>2. QED BY PipeInvariant, <1>1, PTL

\* pipeclose() frees the page once, after the last use.
THEOREM PageSafe == Spec => []PageOutlivesUse
<1>1. PipeInv => PageOutlivesUse
  <2> SUFFICES ASSUME PipeInv PROVE PageOutlivesUse
    OBVIOUS
  <2>1. pc \in [Procs -> Points]
    BY DEF PipeInv, TypeOK
  <2>2. \A p \in Procs : open = {} /\ pc[p] # "free" => pc[p] = "user"
    BY <2>1 DEF PipeInv, EndInv, Points
  <2>3. QED BY <2>1, <2>2 DEF PipeInv, EndInv, PageOutlivesUse
<1>2. QED BY PipeInvariant, <1>1, PTL

\* The counters keep their width and the page is freed once, after the last use.
THEOREM PipeSoundHolds == Spec => []PipeSound
<1>1. TypeOK /\ PageOutlivesUse => PipeSound
  BY DEF PipeSound
<1>2. QED BY <1>1, PipeTypeCorrect, PageSafe, PTL
-----------------------------------------------------------------------------
(* The refinement: the ring holds the queue.                                 *)

\* A remainder is the one number in range that differs by a multiple.
LEMMA ModUnique ==
  ASSUME NEW P \in Nat \ {0}, NEW q \in Int, NEW r \in 0 .. P - 1
  PROVE  (q * P + r) % P = r
OBVIOUS

\* Adding less than P changes the remainder, whatever multiple is taken off.
LEMMA Distinct ==
  ASSUME NEW P \in Nat \ {0}, NEW m \in Int, NEW a \in Nat, NEW d \in 1 .. P - 1
  PROVE  (a + d - m * P) % P # a % P
<1> DEFINE r == a % P
           q == a \div P
<1>1. a = q * P + r /\ q \in Int /\ r \in 0 .. P - 1
  OBVIOUS
<1> HIDE DEF r, q
<1> SUFFICES (a + d - m * P) % P # r
  BY Zenon DEF r
<1>2. CASE r + d < P
  <2>1. q - m \in Int /\ r + d \in 0 .. P - 1
    BY <1>1, <1>2
  <2>2. a + d - m * P = (q - m) * P + (r + d)
    BY <1>1
  <2>3. QED BY <1>1, <2>1, <2>2, ModUnique
<1>3. CASE r + d >= P
  <2>1. q - m + 1 \in Int /\ r + d - P \in 0 .. P - 1
    BY <1>1, <1>3
  <2>2. a + d - m * P = (q - m + 1) * P + (r + d - P)
    BY <1>1
  <2>3. ((q - m + 1) * P + (r + d - P)) % P = r + d - P
    BY <2>1, ModUnique, Zenon
  <2>4. QED BY <1>1, <2>2, <2>3
<1>4. QED BY <1>1, <1>2, <1>3

\* The same without a multiple and with one that is natural.
LEMMA Apart ==
  ASSUME NEW P \in Nat \ {0}, NEW k \in Nat, NEW a \in Nat, NEW d \in 1 .. P - 1
  PROVE  (a + d) % P # a % P /\ (a + d - k * P) % P # a % P
<1>1. a + d - 0 * P = a + d /\ 0 \in Int /\ k \in Int
  OBVIOUS
<1>2. (a + d - 0 * P) % P # a % P /\ (a + d - k * P) % P # a % P
  BY <1>1, Distinct, Zenon
<1>3. QED BY <1>1, <1>2, Zenon

\* A sum of two counters cut to the width U, and the difference of two.
LEMMA CutSum ==
  ASSUME NEW U \in Nat \ {0}, NEW a \in 0 .. 2 * U - 1
  PROVE  a % U = IF a < U THEN a ELSE a - U
OBVIOUS

LEMMA CutDifference ==
  ASSUME NEW U \in Nat \ {0}, NEW a \in 1 - U .. U - 1
  PROVE  a % U = IF a < 0 THEN a + U ELSE a
OBVIOUS

\* The ring is never more than full, which the queue's bound and the order of
\* its bytes rest on.
RingInv == Used <= PIPESIZE

\* What the counters say of the number of bytes, on both sides of their wrap.
Counters ==
  /\ nread \in 0 .. UintRange - 1 /\ nwrite \in 0 .. UintRange - 1
  /\ Used \in 0 .. UintRange - 1
  /\ Used = IF nwrite - nread < 0 THEN nwrite - nread + UintRange ELSE nwrite - nread
  /\ Full <=> Used = PIPESIZE
  /\ Empty <=> Used = 0

\* The ring is smaller than the range of the counters.
LEMMA Widths ==
  UintRange \in Nat \ {0} /\ PIPESIZE \in Nat \ {0} /\ PIPESIZE < UintRange
<1>1. PICK k \in 2 .. UintRange : UintRange = k * PIPESIZE
  BY PipeConstants
<1>2. PIPESIZE \in Nat \ {0}
  BY PipeConstants
<1>3. QED BY <1>1, <1>2

\* So it is in every state, and in the next one.
LEMMA CountersHold == TypeOK => Counters
<1> SUFFICES ASSUME TypeOK PROVE Counters
  OBVIOUS
<1>2. nread \in 0 .. UintRange - 1 /\ nwrite \in 0 .. UintRange - 1
  BY DEF TypeOK
<1>3. Used = IF nwrite - nread < 0 THEN nwrite - nread + UintRange ELSE nwrite - nread
  <2>1. nwrite - nread \in 1 - UintRange .. UintRange - 1
    BY Widths, <1>2
  <2>2. QED BY Widths, <2>1, CutDifference, Zenon DEF Used
<1> DEFINE t == nread + PIPESIZE
           m == t % UintRange
<1>4. t \in 0 .. 2 * UintRange - 1 /\ t = nread + PIPESIZE
  BY Widths, <1>2
<1>5. m = IF t < UintRange THEN t ELSE t - UintRange
  <2> HIDE DEF t
  <2>1. QED BY Widths, <1>4, CutSum
<1>6. Full <=> nwrite = m
  BY Zenon DEF Full
<1> HIDE DEF m, t
<1>7. Used \in 0 .. UintRange - 1 /\ (Full <=> Used = PIPESIZE) /\ (Empty <=> Used = 0)
  BY Widths, <1>2, <1>3, <1>4, <1>5, <1>6 DEF Empty
<1>8. QED BY <1>2, <1>3, <1>7, Zenon DEF Counters

LEMMA CountersNext == TypeOK' => Counters'
BY CountersHold, PTL

\* pipewrite() adds a byte at the end of the queue, in a slot that holds none
\* of those that wait.
LEMMA PutByte ==
  ASSUME NEW p \in Procs, TypeOK, TypeOK', RingInv, WriteByte(p)
  PROVE  /\ Used < PIPESIZE /\ Used' = Used + 1
         /\ \E b \in Bytes : Waiting' = Append(Waiting, b)
<1>1. Counters /\ Counters'
  BY CountersHold, CountersNext
<1>2. Used < PIPESIZE
  BY <1>1, Widths DEF Counters, RingInv, WriteByte
<1>3. /\ nread' = nread
      /\ nwrite' = IF nwrite + 1 < UintRange THEN nwrite + 1 ELSE nwrite + 1 - UintRange
  <2> DEFINE t == nwrite + 1
  <2>1. t \in 0 .. 2 * UintRange - 1 /\ t = nwrite + 1
    BY <1>1, Widths DEF Counters
  <2>2. nread' = nread
    BY DEF WriteByte
  <2>3. nwrite' = t % UintRange
    BY DEF WriteByte
  <2> HIDE DEF t
  <2>4. nwrite' = IF t < UintRange THEN t ELSE t - UintRange
    BY <2>1, <2>3, Widths, CutSum
  <2>5. QED BY <1>1, <2>1, <2>2, <2>4, Widths DEF Counters
<1>4. Used' = Used + 1
  BY <1>1, <1>2, <1>3, Widths DEF Counters
<1>5. PICK b \in Bytes : data' = [data EXCEPT ![nwrite % PIPESIZE] = b]
  BY DEF WriteByte
<1> DEFINE slot(i) == ((nread + i - 1) % UintRange) % PIPESIZE
<1>6. ASSUME NEW i \in 1 .. Used PROVE slot(i) # nwrite % PIPESIZE
  <2> DEFINE t == nread + i - 1
             x == t % UintRange
             d == Used - (i - 1)
  <2>1. t \in 0 .. 2 * UintRange - 1 /\ t = nread + i - 1
    BY <1>1, Widths DEF Counters
  <2>2. d \in 1 .. PIPESIZE - 1 /\ d = Used - (i - 1)
    BY <1>1, <1>2, Widths DEF Counters
  <2> HIDE DEF t
  <2>3. x = IF t < UintRange THEN t ELSE t - UintRange
    BY <2>1, Widths, CutSum
  <2> HIDE DEF x, d
  <2>4. x \in Nat /\ (nwrite = x + d \/ nwrite = x + d - UintRange)
    BY <1>1, <2>1, <2>2, <2>3, Widths DEF Counters
  <2>5. PICK k \in 2 .. UintRange : UintRange = k * PIPESIZE
    BY PipeConstants
  <2>6. k \in Nat
    BY <2>5, Widths
  <2>7. (x + d) % PIPESIZE # x % PIPESIZE /\ (x + d - UintRange) % PIPESIZE # x % PIPESIZE
    BY <2>2, <2>4, <2>5, <2>6, Widths, Apart, Zenon
  <2>8. QED BY <2>4, <2>7, Zenon DEF x, t
<1>7. slot(Used + 1) = nwrite % PIPESIZE
  <2> DEFINE t == nread + (Used + 1) - 1
  <2>1. t \in 0 .. 2 * UintRange - 1 /\ t = nread + Used
    BY <1>1, Widths DEF Counters
  <2> HIDE DEF t
  <2>2. t % UintRange = IF t < UintRange THEN t ELSE t - UintRange
    BY <2>1, Widths, CutSum
  <2>3. (IF t < UintRange THEN t ELSE t - UintRange) = nwrite
    BY <1>1, <2>1, Widths DEF Counters
  <2>4. QED BY <2>2, <2>3, Zenon DEF t
<1>8. Waiting' = Append(Waiting, b)
  <2>1. Waiting = [i \in 1 .. Used |-> data[slot(i)]]
    BY DEF Waiting
  <2>2. Waiting' = [i \in 1 .. Used + 1 |-> data'[slot(i)]]
    BY <1>3, <1>4, Zenon DEF Waiting
  <2>3. \A i \in 1 .. Used + 1 : slot(i) \in 0 .. PIPESIZE - 1
    BY <1>1, Widths DEF Counters
  <2> HIDE DEF slot
  <2>4. Used \in Nat /\ data \in [0 .. PIPESIZE - 1 -> Bytes]
    BY <1>1 DEF Counters, TypeOK
  <2>5. \A i \in 1 .. Used : data'[slot(i)] = data[slot(i)]
    BY <1>5, <1>6, <2>3, <2>4
  <2>6. data'[slot(Used + 1)] = b
    BY <1>5, <1>7, <2>3, <2>4
  <2>7. QED BY <2>1, <2>2, <2>4, <2>5, <2>6
<1>9. QED BY <1>2, <1>4, <1>8

\* piperead() takes the byte at the head of the queue.
LEMMA GetByte ==
  ASSUME NEW p \in Procs, TypeOK, TypeOK', RingInv, ReadByte(p)
  PROVE  Used > 0 /\ Used' = Used - 1 /\ Waiting # <<>> /\ Waiting' = Tail(Waiting)
<1>1. Counters /\ Counters'
  BY CountersHold, CountersNext
<1>2. Used > 0 /\ data' = data
  BY <1>1, Widths DEF Counters, ReadByte
<1>3. /\ nwrite' = nwrite
      /\ nread' = IF nread + 1 < UintRange THEN nread + 1 ELSE nread + 1 - UintRange
  <2> DEFINE t == nread + 1
  <2>1. t \in 0 .. 2 * UintRange - 1 /\ t = nread + 1
    BY <1>1, Widths DEF Counters
  <2>2. nwrite' = nwrite
    BY DEF ReadByte
  <2>3. nread' = t % UintRange
    BY DEF ReadByte
  <2> HIDE DEF t
  <2>4. nread' = IF t < UintRange THEN t ELSE t - UintRange
    BY <2>1, <2>3, Widths, CutSum
  <2>5. QED BY <1>1, <2>1, <2>2, <2>4, Widths DEF Counters
<1>4. Used' = Used - 1 /\ Used \in Nat
  BY <1>1, <1>2, <1>3, Widths DEF Counters
<1> DEFINE slot(i) == ((nread + i - 1) % UintRange) % PIPESIZE
<1>5. ASSUME NEW i \in 1 .. Used - 1
      PROVE  ((nread' + i - 1) % UintRange) % PIPESIZE = slot(i + 1)
  <2> DEFINE t == nread' + i - 1
             u == nread + (i + 1) - 1
             tm == t % UintRange
             um == u % UintRange
  <2>1. /\ t \in 0 .. 2 * UintRange - 1 /\ u \in 0 .. 2 * UintRange - 1
        /\ t = u \/ t = u - UintRange
    BY <1>1, <1>3, <1>4, Widths DEF Counters
  <2> HIDE DEF t, u
  <2>2. /\ tm = IF t < UintRange THEN t ELSE t - UintRange
        /\ um = IF u < UintRange THEN u ELSE u - UintRange
    BY <2>1, Widths, CutSum
  <2> HIDE DEF tm, um
  <2>3. tm = um
    BY <2>1, <2>2, Widths
  <2>4. QED BY <2>3, Zenon DEF tm, um, t, u
<1>6. \A i \in 1 .. Used : slot(i) \in 0 .. PIPESIZE - 1
  BY <1>1, Widths DEF Counters
<1>7. /\ Waiting = [i \in 1 .. Used |-> data[slot(i)]]
      /\ Waiting' = [i \in 1 .. Used - 1 |-> data[((nread' + i - 1) % UintRange) % PIPESIZE]]
  BY <1>2, <1>4, Zenon DEF Waiting
<1> HIDE DEF slot
<1>8. Waiting' = [i \in 1 .. Used - 1 |-> data[slot(i + 1)]]
  BY <1>5, <1>7
<1>9. data \in [0 .. PIPESIZE - 1 -> Bytes]
  BY DEF TypeOK
<1>10. Waiting # <<>> /\ Waiting' = Tail(Waiting)
  <2>1. Waiting \in Seq(Bytes) /\ Len(Waiting) = Used
    BY <1>4, <1>7, <1>6, <1>9
  <2>2. \A i \in 1 .. Used : Waiting[i] = data[slot(i)]
    BY <1>7
  <2>3. /\ Tail(Waiting) \in Seq(Bytes) /\ Len(Tail(Waiting)) = Used - 1
        /\ \A i \in 1 .. Used - 1 : Tail(Waiting)[i] = Waiting[i + 1]
    BY <1>2, <1>4, <2>1
  <2>4. Waiting' \in Seq(Bytes) /\ Len(Waiting') = Used - 1
        /\ \A i \in 1 .. Used - 1 : Waiting'[i] = data[slot(i + 1)]
    BY <1>2, <1>4, <1>8, <1>6, <1>9
  <2>5. \A i \in 1 .. Used - 1 : Waiting'[i] = Tail(Waiting)[i]
    BY <1>4, <2>2, <2>3, <2>4
  <2>6. QED BY <1>2, <1>4, <2>1, <2>3, <2>4, <2>5
<1>11. QED BY <1>2, <1>4, <1>10

\* Every step of pipe.c is a step of the queue, or leaves it and its ends alone.
LEMMA FifoStep ==
  PipeInv /\ PipeInv' /\ RingInv /\ [Next]_vars => RingInv' /\ [F!FNext]_(F!fvars)
<1> SUFFICES ASSUME PipeInv, PipeInv', RingInv, [Next]_vars
             PROVE  RingInv' /\ [F!FNext]_(F!fvars)
  OBVIOUS
<1>t. TypeOK /\ TypeOK' /\ EndInv
  BY DEF PipeInv
<1>c. Counters /\ Counters'
  BY <1>t, CountersHold, CountersNext
<1>u. Used \in Nat /\ Used <= PIPESIZE
  BY <1>c, Widths DEF Counters, RingInv
<1>1. ASSUME NEW p \in Procs, WriteByte(p) PROVE RingInv' /\ F!Put
  <2>1. /\ Used < PIPESIZE /\ Used' = Used + 1
        /\ \E b \in Bytes : Waiting' = Append(Waiting, b)
    BY <1>1, <1>t, PutByte
  <2>2. "write" \in open /\ open' = open
    BY <1>1, <1>t DEF WriteByte, Holds, EndInv
  <2>3. Len(Waiting) = Used
    BY <1>c DEF Counters, Waiting
  <2>4. RingInv'
    BY <1>u, <2>1, Widths DEF RingInv
  <2>5. QED BY <2>1, <2>2, <2>3, <2>4 DEF F!Put
<1>2. ASSUME NEW p \in Procs, ReadByte(p) PROVE RingInv' /\ F!Get
  <2>1. Used' = Used - 1 /\ Waiting # <<>> /\ Waiting' = Tail(Waiting)
    BY <1>2, <1>t, GetByte
  <2>2. "read" \in open /\ open' = open
    BY <1>2, <1>t DEF ReadByte, Holds, EndInv
  <2>3. RingInv'
    BY <1>u, <2>1, Widths DEF RingInv
  <2>4. QED BY <2>1, <2>2, <2>3 DEF F!Get
<1>3. ASSUME UNCHANGED <<data, nread, nwrite>>
      PROVE  RingInv' /\ Waiting' = Waiting
  BY <1>3 DEF RingInv, Used, Waiting
<1>4. ASSUME NEW p \in Procs, pipeclose(p) PROVE RingInv' /\ F!Close
  <2>1. \E e \in open : open' = open \ {e}
    BY <1>4, <1>t DEF pipeclose, Holds, EndInv
  <2>2. QED BY <1>3, <1>4, <2>1 DEF pipeclose, F!Close
<1>5. ASSUME UNCHANGED <<data, nread, nwrite, open>>
      PROVE  RingInv' /\ UNCHANGED F!fvars
  BY <1>3, <1>5 DEF F!fvars
<1>6. ASSUME NEW p \in Procs,
             \/ WriteFails(p) \/ WriteCheck(p) \/ WriteSleep(p) \/ WriteDone(p)
             \/ ReadCheck(p) \/ ReadSleep(p) \/ ReadFails(p) \/ ReadStart(p)
             \/ ReadDone(p) \/ FreePage(p) \/ Acquire(p) \/ CloseFd(p) \/ Kill(p)
      PROVE  UNCHANGED <<data, nread, nwrite, open>>
  BY <1>6, Zenon DEF WriteFails, WriteCheck, WriteSleep, WriteDone, ReadCheck, ReadSleep,
     ReadFails, ReadStart, ReadDone, FreePage, Acquire, CloseFd, Kill, Goto, SleepOn,
     Enter, pvars
<1>7. ASSUME NEW p \in Procs, NEW n \in 0 .. MaxBytes, Write(p, n) \/ Read(p, n)
      PROVE  UNCHANGED <<data, nread, nwrite, open>>
  BY <1>7, Zenon DEF Write, Read, Enter, pvars
<1>8. ASSUME NEW p \in Procs, NEW q \in Procs, Fork(p, q)
      PROVE  UNCHANGED <<data, nread, nwrite, open>>
  BY <1>8, Zenon DEF Fork, pvars
<1>9. CASE UNCHANGED vars
  BY <1>5, <1>9 DEF vars
<1>10. QED
  BY Zenon, <1>1, <1>2, <1>4, <1>5, <1>6, <1>7, <1>8, <1>9 DEF Next, Call, F!FNext

\* The pipe is a bounded queue: bytes come out once and in order, at most
\* PIPESIZE wait, and no end is used after it was closed.
THEOREM FifoRefined == Spec => ImplementsFifo
<1>1. Init => RingInv /\ F!FInit
  <2> SUFFICES ASSUME Init PROVE RingInv /\ F!FInit
    OBVIOUS
  <2>1. Used = 0
    BY Widths DEF Init, Used
  <2>2. Waiting = <<>>
    BY <2>1 DEF Waiting
  <2>3. QED BY <2>1, <2>2, Widths DEF Init, RingInv, F!FInit
<1>2. QED BY PipeInvariant, FifoStep, <1>1, PTL DEF Spec, ImplementsFifo, F!FSpec

=============================================================================
