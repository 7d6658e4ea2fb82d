-------------------------------- MODULE Files --------------------------------
(***************************************************************************)
(* Open files: the descriptors of a process (src/sysfile.c), the file      *)
(* table they point into (src/file.c), the pipe ends made by pipe()        *)
(* (src/pipe.c) and the contents behind them (Contents).                   *)
(*                                                                         *)
(* A step is what a call does under one lock: ftable.lock for the file     *)
(* table, the inode's lock for contents.  A process's descriptors belong   *)
(* to it alone.  Names are left to Inode: an inode is linked or not.       *)
(***************************************************************************)
EXTENDS Contents

CONSTANTS Proc, initproc,
          NFILE, NOFILE,   \* sizes of the file table and of ofile[]
          Inum, PipePage,  \* inodes; the pages kalloc() has for pipes
          OpenMode,        \* values of omode: [wronly, rdwr], its two bits
          ReadLen, WriteLen,
          Fill,            \* the byte each process writes
          MaxCalls         \* bound on the calls made

File == 1 .. NFILE
Fd == 0 .. NOFILE - 1

VARIABLES disk,     \* the free map and the blocks
          ino,      \* link count, references and contents of each inode
          ftable,   \* ftable.file[]
          pipe,     \* the pipes: is the page in use, which ends are open
          ofile,    \* proc->ofile[]; 0 is a free descriptor
          call,     \* where each process is in a system call
          calls     \* how many calls have begun

vars == <<disk, ino, ftable, pipe, ofile, call, calls>>

User == [at |-> "user"]
Unused == [at |-> "unused"]

FreeFile == [ref |-> 0, type |-> "FD_NONE", obj |-> 0, off |-> 0,
             readable |-> FALSE, writable |-> FALSE]

Init ==
  /\ disk = Disk({}, [b \in Data |-> ZeroBlock])
  /\ ino = [i \in Inum |-> [nlink |-> 0, ref |-> 0, ip |-> NewInode]]
  /\ ftable = [f \in File |-> FreeFile]
  /\ pipe = [q \in PipePage |-> [page |-> FALSE, readopen |-> FALSE, writeopen |-> FALSE]]
  /\ ofile = [p \in Proc |-> [fd \in Fd |-> 0]]
  /\ call = [p \in Proc |-> IF p = initproc THEN User ELSE Unused]
  /\ calls = 0

Goto(p, c) == call' = [call EXCEPT ![p] = c]
Return(p) == Goto(p, User)
Begin(p) == call[p] = User /\ calls < MaxCalls /\ calls' = calls + 1

\* What a process still has to fileclose(), and where it goes then.
Closing(todo, then) == IF todo = << >> THEN then
                       ELSE [at |-> "close", todo |-> todo, then |-> then]

\* filealloc(): the first slot without references.
Slots == {f \in File : ftable[f].ref = 0}
filealloc == CHOOSE f \in Slots : \A g \in Slots : f <= g
Take(f) == ftable' = [ftable EXCEPT ![f].ref = 1]

\* fdalloc(): the first free descriptor of p.
FreeFds(p) == {fd \in Fd : ofile[p][fd] = 0}
fdalloc(p) == CHOOSE fd \in FreeFds(p) : \A g \in FreeFds(p) : fd <= g

\* iput() of an inode: the last reference to an unlinked one truncates it.  One step
\* here; that ip->lock is given up before ref is decremented is in Inode.
iputEager(i) ==
  IF ino[i].nlink = 0
  THEN LET t == itrunc(disk, ino[i].ip)
       IN /\ disk' = [t.d EXCEPT !.log = {}]
          /\ ino' = [ino EXCEPT ![i].ref = @ - 1, ![i].ip = t.ip]
  ELSE /\ ino' = [ino EXCEPT ![i].ref = @ - 1]
       /\ UNCHANGED disk

iput(i) ==
  IF ino[i].nlink = 0 /\ ino[i].ref = 1
  THEN LET t == itrunc(disk, ino[i].ip)
       IN /\ disk' = [t.d EXCEPT !.log = {}]
          /\ ino' = [ino EXCEPT ![i].ref = 0, ![i].ip = t.ip]
  ELSE /\ ino' = [ino EXCEPT ![i].ref = @ - 1]
       /\ UNCHANGED disk

-----------------------------------------------------------------------------
(* open().                                                                  *)

\* The inode is found, or the first free one is created.
ialloc ==
  LET free == {i \in Inum : ino[i].nlink = 0 /\ ino[i].ref = 0}
  IN IF free = {} THEN 0 ELSE CHOOSE i \in free : \A j \in free : i <= j

Lookups(p) ==
  /\ Begin(p)
  /\ \E i \in Inum, m \in OpenMode :
       /\ ino[i].nlink = 1 \/ i = ialloc
       /\ ino' = [ino EXCEPT ![i].nlink = 1, ![i].ref = @ + 1]
       /\ Goto(p, [at |-> "open_file", i |-> i, mode |-> m])
  /\ UNCHANGED <<disk, ftable, pipe, ofile>>

OpenFile(p) ==
  /\ call[p].at = "open_file"
  /\ \/ /\ Slots = {}
        /\ iput(call[p].i)
        /\ Return(p)
        /\ UNCHANGED ftable
     \/ /\ Slots # {}
        /\ Take(filealloc)
        /\ Goto(p, [at |-> "open_fd", i |-> call[p].i, mode |-> call[p].mode, f |-> filealloc])
        /\ UNCHANGED <<ino, disk>>
  /\ UNCHANGED <<pipe, ofile, calls>>

\* Without a descriptor the slot is closed, then the inode is put.
OpenFd(p) ==
  /\ call[p].at = "open_fd"
  /\ \/ /\ FreeFds(p) = {}
        /\ Goto(p, Closing(<<call[p].f>>, [at |-> "open_put", i |-> call[p].i]))
        /\ UNCHANGED ofile
     \/ /\ FreeFds(p) # {}
        /\ ofile' = [ofile EXCEPT ![p][fdalloc(p)] = call[p].f]
        /\ Goto(p, [call[p] EXCEPT !.at = "open_set"])
  /\ UNCHANGED <<disk, ino, ftable, pipe, calls>>

OpenPut(p) ==
  /\ call[p].at = "open_put"
  /\ iput(call[p].i)
  /\ Return(p)
  /\ UNCHANGED <<ftable, pipe, ofile, calls>>

\* The fields are filled in after the inode is unlocked, the transaction over.
OpenSet(p) ==
  LET m == call[p].mode IN
  /\ call[p].at = "open_set"
  /\ ftable' = [ftable EXCEPT ![call[p].f] =
       [@ EXCEPT !.type = "FD_INODE", !.obj = call[p].i, !.off = 0,
                 !.readable = ~m.wronly, !.writable = m.wronly \/ m.rdwr]]
  /\ Return(p)
  /\ UNCHANGED <<disk, ino, pipe, ofile, calls>>

\* unlink(): the name goes, and the contents with it when nothing is open.
Unlink(p) ==
  /\ Begin(p)
  /\ \E i \in Inum :
       /\ ino[i].nlink = 1
       /\ LET t == itrunc(disk, ino[i].ip)
          IN IF ino[i].ref = 0
             THEN /\ disk' = [t.d EXCEPT !.log = {}]
                  /\ ino' = [ino EXCEPT ![i].nlink = 0, ![i].ip = t.ip]
             ELSE /\ ino' = [ino EXCEPT ![i].nlink = 0]
                  /\ UNCHANGED disk
  /\ UNCHANGED <<ftable, pipe, ofile, call>>

-----------------------------------------------------------------------------
(* dup(), close(), fork() and exit().                                       *)

\* The descriptor first, the reference after.
Dup(p) ==
  /\ Begin(p)
  /\ \E fd \in Fd :
       /\ ofile[p][fd] # 0
       /\ FreeFds(p) # {}
       /\ ofile' = [ofile EXCEPT ![p][fdalloc(p)] = ofile[p][fd]]
       /\ Goto(p, [at |-> "dup", f |-> ofile[p][fd]])
  /\ UNCHANGED <<disk, ino, ftable, pipe>>

filedup(p) ==
  /\ call[p].at = "dup"
  /\ ftable' = [ftable EXCEPT ![call[p].f].ref = @ + 1]
  /\ Return(p)
  /\ UNCHANGED <<disk, ino, pipe, ofile, calls>>

Close(p) ==
  /\ Begin(p)
  /\ \E fd \in Fd :
       /\ ofile[p][fd] # 0
       /\ ofile' = [ofile EXCEPT ![p][fd] = 0]
       /\ Goto(p, Closing(<<ofile[p][fd]>>, User))
  /\ UNCHANGED <<disk, ino, ftable, pipe>>

\* fileclose(), under ftable.lock: the last reference frees the slot; what it
\* pointed to is released afterwards, from a copy.  The other fields of a free
\* slot keep their values in the code; they are set before they are read
\* (BlankSlots), and are cleared here to keep the states few.
fileclose(p) ==
  LET f == Head(call[p].todo)
      rest == Closing(Tail(call[p].todo), call[p].then)
  IN /\ call[p].at = "close"
     /\ CASE ftable[f].ref > 1 ->
               /\ ftable' = [ftable EXCEPT ![f].ref = @ - 1]
               /\ Goto(p, rest)
          [] ftable[f].ref = 1 ->
               /\ ftable' = [ftable EXCEPT ![f] = FreeFile]
               /\ Goto(p, IF ftable[f].type = "FD_NONE" THEN rest
                          ELSE [at |-> "put", ff |-> ftable[f], then |-> rest])
     /\ UNCHANGED <<disk, ino, pipe, ofile, calls>>

\* pipeclose(): one end, and the page with the second one.
pipeclose(q, writable) ==
  LET e == [pipe[q] EXCEPT !.writeopen = @ /\ ~writable, !.readopen = @ /\ writable]
  IN pipe' = [pipe EXCEPT ![q] = [e EXCEPT !.page = e.readopen \/ e.writeopen]]

FileclosePut(p) ==
  LET ff == call[p].ff IN
  /\ call[p].at = "put"
  /\ \/ /\ ff.type = "FD_PIPE"
        /\ pipeclose(ff.obj, ff.writable)
        /\ UNCHANGED <<ino, disk>>
     \/ /\ ff.type = "FD_INODE"
        /\ iput(ff.obj)
        /\ UNCHANGED pipe
  /\ Goto(p, call[p].then)
  /\ UNCHANGED <<ftable, ofile, calls>>

\* fork(): the child gets every descriptor, each with filedup(); the parent's
\* own references keep the files there meanwhile.
Refers(p, f) == Cardinality({fd \in Fd : ofile[p][fd] = f})
fork(p) ==
  /\ Begin(p)
  /\ \E q \in Proc :
       /\ call[q] = Unused
       /\ ofile' = [ofile EXCEPT ![q] = ofile[p]]
       /\ call' = [call EXCEPT ![q] = User]
  /\ ftable' = [f \in File |-> [ftable[f] EXCEPT !.ref = @ + Refers(p, f)]]
  /\ UNCHANGED <<disk, ino, pipe>>

\* exit() closes the descriptors in order.
exit(p) ==
  /\ Begin(p) /\ p # initproc
  /\ Goto(p, Closing(SelectSeq([k \in 1 .. NOFILE |-> ofile[p][k - 1]], LAMBDA f : f # 0), Unused))
  /\ ofile' = [ofile EXCEPT ![p] = [fd \in Fd |-> 0]]
  /\ UNCHANGED <<disk, ino, ftable, pipe>>

-----------------------------------------------------------------------------
(* pipe().                                                                  *)

\* pipealloc(): two slots, then a page; whatever fails, the slots are closed.
PipeFile0(p) ==
  /\ Begin(p)
  /\ Slots # {}
  /\ Take(filealloc)
  /\ Goto(p, [at |-> "pipe_file", f0 |-> filealloc])
  /\ UNCHANGED <<disk, ino, pipe, ofile>>

PipeFile1(p) ==
  /\ call[p].at = "pipe_file"
  /\ \/ /\ Slots = {}
        /\ Goto(p, Closing(<<call[p].f0>>, User))
        /\ UNCHANGED ftable
     \/ /\ Slots # {}
        /\ Take(filealloc)
        /\ Goto(p, [at |-> "pipe_page", f0 |-> call[p].f0, f1 |-> filealloc])
  /\ UNCHANGED <<disk, ino, pipe, ofile, calls>>

PipePages(p) ==
  LET c == call[p]
      End(q, w) == [ref |-> 1, type |-> "FD_PIPE", obj |-> q, off |-> 0,
                    readable |-> ~w, writable |-> w]
  IN /\ c.at = "pipe_page"
     /\ \/ /\ Goto(p, Closing(<<c.f0, c.f1>>, User))
           /\ UNCHANGED <<pipe, ftable>>
        \/ \E q \in PipePage :
             /\ ~pipe[q].page
             /\ pipe' = [pipe EXCEPT ![q] = [page |-> TRUE, readopen |-> TRUE, writeopen |-> TRUE]]
             /\ ftable' = [ftable EXCEPT ![c.f0] = End(q, FALSE), ![c.f1] = End(q, TRUE)]
             /\ Goto(p, [c EXCEPT !.at = "pipe_fd"])
     /\ UNCHANGED <<disk, ino, ofile, calls>>

\* Both descriptors or none.
PipeFdsKeepFirst(p) ==
  LET c == call[p]
      one == [ofile[p] EXCEPT ![fdalloc(p)] = c.f0]
      free == {fd \in Fd : one[fd] = 0}
      fd1 == CHOOSE fd \in free : \A g \in free : fd <= g
  IN /\ c.at = "pipe_fd"
     /\ \/ /\ FreeFds(p) = {}
           /\ Goto(p, Closing(<<c.f0, c.f1>>, User))
           /\ UNCHANGED ofile
        \/ /\ FreeFds(p) # {} /\ free = {}
           /\ Goto(p, Closing(<<c.f0, c.f1>>, User))
           /\ ofile' = [ofile EXCEPT ![p] = one]
        \/ /\ FreeFds(p) # {} /\ free # {}
           /\ ofile' = [ofile EXCEPT ![p] = [one EXCEPT ![fd1] = c.f1]]
           /\ Return(p)
     /\ UNCHANGED <<disk, ino, ftable, pipe, calls>>

PipeFds(p) ==
  LET c == call[p]
      one == [ofile[p] EXCEPT ![fdalloc(p)] = c.f0]
      free == {fd \in Fd : one[fd] = 0}
      fd1 == CHOOSE fd \in free : \A g \in free : fd <= g
  IN /\ c.at = "pipe_fd"
     /\ \/ /\ Cardinality(FreeFds(p)) < 2
           /\ Goto(p, Closing(<<c.f0, c.f1>>, User))
           /\ UNCHANGED ofile
        \/ /\ Cardinality(FreeFds(p)) >= 2
           /\ ofile' = [ofile EXCEPT ![p] = [one EXCEPT ![fd1] = c.f1]]
           /\ Return(p)
     /\ UNCHANGED <<disk, ino, ftable, pipe, calls>>

-----------------------------------------------------------------------------
(* read() and write() of a file.                                            *)

fileread(p) ==
  /\ Begin(p)
  /\ \E fd \in Fd, n \in ReadLen :
       LET f == ofile[p][fd]
           i == ftable[f].obj
           r == readi(disk, ino[i].ip, ftable[f].off, n)
       IN /\ f # 0
          /\ ftable[f].type = "FD_INODE" /\ ftable[f].readable
          /\ disk' = [r.d EXCEPT !.log = {}]
          /\ ino' = [ino EXCEPT ![i].ip = r.ip]
          /\ ftable' = [ftable EXCEPT ![f].off = IF r.r > 0 THEN @ + r.r ELSE @]
  /\ UNCHANGED <<pipe, ofile, call>>

filewrite(p) ==
  /\ Begin(p)
  /\ \E fd \in Fd, n \in WriteLen :
       LET f == ofile[p][fd]
       IN /\ f # 0
          /\ ftable[f].type = "FD_INODE" /\ ftable[f].writable
          /\ Goto(p, [at |-> "write", f |-> f, left |-> n])
  /\ UNCHANGED <<disk, ino, ftable, pipe, ofile>>

\* What one transaction takes of the bytes left.
pieceUnaligned(left) ==
  LET max == ((MAXOPBLOCKS - 1) \div 2 + 1) * BSIZE IN IF left > max THEN max ELSE left

piece(left) ==
  LET max == ((MAXOPBLOCKS - 1 - 1 - 2) \div 2) * BSIZE IN IF left > max THEN max ELSE left

Written(p) ==
  LET f == ftable[call[p].f]
  IN writei(disk, ino[f.obj].ip, [k \in 1 .. piece(call[p].left) |-> Fill[p]], f.off)

\* One piece, a transaction under the inode's lock.  A disk without a free
\* block is a panic, after which nothing happens.
WritePiece(p) ==
  LET w == Written(p)
      i == ftable[call[p].f].obj
  IN /\ call[p].at = "write"
     /\ ~w.d.stuck
     /\ disk' = [w.d EXCEPT !.log = {}]
     /\ ino' = [ino EXCEPT ![i].ip = w.ip]
     /\ IF w.r < 0
        THEN Return(p) /\ UNCHANGED ftable
        ELSE /\ ftable' = [ftable EXCEPT ![call[p].f].off = @ + w.r]
             /\ Goto(p, IF call[p].left = w.r THEN User ELSE [call[p] EXCEPT !.left = @ - w.r])
     /\ UNCHANGED <<pipe, ofile, calls>>

-----------------------------------------------------------------------------
Step(p) ==
  \/ Lookups(p) \/ OpenFile(p) \/ OpenFd(p) \/ OpenPut(p) \/ OpenSet(p) \/ Unlink(p)
  \/ Dup(p) \/ filedup(p) \/ Close(p) \/ fileclose(p) \/ FileclosePut(p)
  \/ fork(p) \/ exit(p)
  \/ PipeFile0(p) \/ PipeFile1(p) \/ PipePages(p) \/ PipeFds(p)
  \/ fileread(p) \/ filewrite(p) \/ WritePiece(p)

Next == \E p \in Proc : Step(p)
Spec == Init /\ [][Next]_vars

-----------------------------------------------------------------------------
(* Properties.                                                              *)

\* Types of the variables.
TypeOK ==
  /\ disk.used \subseteq Data /\ disk.log = {} /\ ~disk.stuck
  /\ ofile \in [Proc -> [Fd -> {0} \cup File]]
  /\ \A f \in File : ftable[f].type \in {"FD_NONE", "FD_INODE", "FD_PIPE"} /\ ftable[f].ref \in Nat
  /\ \A i \in Inum : ino[i].ref \in Nat /\ ino[i].nlink \in 0 .. 1
                     /\ ino[i].ip.size \in 0 .. MAXFILE * BSIZE

\* The files a call has in hand besides the descriptors: slots taken and not yet
\* given a descriptor, and slots on the way to fileclose().
InHand(c) ==
  CASE c.at = "open_fd" -> <<c.f>>
    [] c.at = "pipe_file" -> <<c.f0>>
    [] c.at \in {"pipe_page", "pipe_fd"} -> <<c.f0, c.f1>>
    [] c.at = "close" -> c.todo
    [] c.at = "put" /\ c.then.at = "close" -> c.then.todo
    [] OTHER -> << >>

\* The count in a slot of the file table is exactly the number of descriptors and
\* calls that hold it, whatever open(), dup(), pipe(), fork(), close() and exit()
\* are in the middle of and wherever they fail (filealloc, filedup, fileclose).
FileRefsExact ==
  LET hand == [p \in Proc |-> InHand(call[p])]
  IN \A f \in File :
       ftable[f].ref + Cardinality({p \in Proc : call[p].at = "dup" /\ call[p].f = f}) =
         Cardinality({x \in Proc \X Fd : ofile[x[1]][x[2]] = f})
         + Cardinality({x \in Proc \X (1 .. 2) : x[2] <= Len(hand[x[1]]) /\ hand[x[1]][x[2]] = f})

\* The inode's count is exactly the open files on it and the calls between taking
\* or dropping a reference and the file table saying so; each end of a pipe is
\* open exactly as long as a file or a close in progress has it, and the page is
\* allocated as long as an end is (sys_open, fileclose, pipealloc, pipeclose).
ObjectsHeld ==
  LET Opening(p, i) ==
        LET c == call[p]
        IN \/ c.at \in {"open_file", "open_fd", "open_set", "open_put"} /\ c.i = i
           \/ c.at = "close" /\ c.then.at = "open_put" /\ c.then.i = i
      Putting(p, t, o) == call[p].at = "put" /\ call[p].ff.type = t /\ call[p].ff.obj = o
      Has(q, w) == \/ \E f \in File : ftable[f].type = "FD_PIPE" /\ ftable[f].obj = q
                                      /\ ftable[f].writable = w
                   \/ \E p \in Proc : Putting(p, "FD_PIPE", q) /\ call[p].ff.writable = w
  IN /\ \A i \in Inum :
          ino[i].ref = Cardinality({f \in File : ftable[f].type = "FD_INODE" /\ ftable[f].obj = i})
                       + Cardinality({p \in Proc : Opening(p, i) \/ Putting(p, "FD_INODE", i)})
     /\ \A q \in PipePage :
          /\ pipe[q].readopen = Has(q, FALSE)
          /\ pipe[q].writeopen = Has(q, TRUE)
          /\ pipe[q].page = (pipe[q].readopen \/ pipe[q].writeopen)

\* A slot that is free, or taken and not yet filled in, says FD_NONE: the error
\* paths of open(), inside a transaction, and of pipe() close such a slot, and
\* fileclose() would start a second transaction or put somebody else's inode.
BlankSlots ==
  /\ \A f \in File : ftable[f].ref = 0 => ftable[f].type = "FD_NONE"
  /\ \A p \in Proc :
       /\ call[p].at \in {"open_fd", "open_set"} => ftable[call[p].f].type = "FD_NONE"
       /\ call[p].at = "close" /\ call[p].then.at = "open_put" =>
            ftable[Head(call[p].todo)].type = "FD_NONE"
       /\ call[p].at = "pipe_file" => ftable[call[p].f0].type = "FD_NONE"

\* The free map marks exactly the blocks that inodes hold, none is held twice, and
\* an inode that is neither linked nor open holds none (balloc, bmap, itrunc).
BlocksExact ==
  LET blocks == [i \in Inum |-> BlocksOf(disk, ino[i].ip)]
      held == {x \in Inum \X (1 .. NDIRECT + 1 + NINDIRECT) : x[2] \in DOMAIN blocks[x[1]]}
  IN /\ Cardinality(held) = Cardinality(disk.used)
     /\ {blocks[x[1]][x[2]] : x \in held} = disk.used
     /\ \A i \in Inum : ino[i].nlink = 0 /\ ino[i].ref = 0 => blocks[i] = << >>

\* Reading anywhere gives the bytes that are there, and finds every block of the
\* file: readi(), outside any transaction, never gets bmap() to allocate.
ReadsBack ==
  \A i \in Inum :
    LET ip == ino[i].ip
        all == Bytes(disk, ip)
    IN \A off \in 0 .. ip.size, n \in ReadLen :
         LET r == readi(disk, ip, off, n)
         IN /\ r.d = disk /\ r.ip = ip /\ r.r = Len(r.data)
            /\ r.data = SubSeq(all, off + 1, IF off + n > ip.size THEN ip.size ELSE off + n)

\* Each piece filewrite() is about to write, and each truncation, logs no more
\* blocks than begin_op() set aside for it.
TransactionFits ==
  /\ \A p \in Proc : call[p].at = "write" => Cardinality(Written(p).d.log) <= MAXOPBLOCKS
  /\ \A i \in Inum : Cardinality(itrunc(disk, ino[i].ip).d.log) <= MAXOPBLOCKS

\* The calls keep the promise of OpenFiles: bytes are written and read at the
\* offset, which processes that share the open file share; and a file is emptied
\* only when no one has it open.
Abstract == INSTANCE OpenFiles WITH
  Byte <- {Fill[p] : p \in Proc},
  MaxSize <- MAXFILE * BSIZE,
  contents <- [i \in Inum |-> Bytes(disk, ino[i].ip)],
  open <- [f \in File |-> IF ftable[f].type = "FD_INODE"
                          THEN [ino |-> ftable[f].obj, off |-> ftable[f].off]
                          ELSE [ino |-> 0, off |-> 0]]
ImplementsOpenFiles == Abstract!Spec

\* The counts of file table slots, inodes and pipe ends are exact in the middle of
\* every call and after every failure, and a slot that is not filled in says so.
TableExact == TypeOK /\ FileRefsExact /\ ObjectsHeld /\ BlankSlots

\* Over any writes and deletions the marked blocks are those of the linked and open
\* files, each in one place, and readi() finds every byte without allocating
\* (balloc, bfree, bmap, itrunc, readi).
ContentsSound == BlocksExact /\ ReadsBack
=============================================================================
