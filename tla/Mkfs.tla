-------------------------------- MODULE Mkfs --------------------------------
(***************************************************************************)
(* Making the file system image (src/mkfs.c), and what the kernel reads    *)
(* from it (readi of Contents).                                            *)
(*                                                                         *)
(* A byte and a directory entry are one word each, a directory entry being *)
(* the inode number.  The image has the blocks from nmeta on; inodes are a *)
(* function of their own, as IBLOCK() and IPB place each one apart.        *)
(***************************************************************************)
EXTENDS Integers, Sequences, FiniteSets, SequencesExt

CONSTANTS BSIZE, NDIRECT,
          nmeta, FSSIZE,   \* blocks nmeta .. FSSIZE - 1 are for data
          NINODES,
          HostFiles        \* the possible lists of files on the command line

VARIABLES img,         \* [inode, blk, used]: inodes, data blocks, free map
          freeinode, freeblock,
          argv, argi,  \* the files, and the next one
          copying,     \* what is left of the current file
          mkpc         \* "start", "files", "done", or "idle"

mkfsVars == <<img, freeinode, freeblock, argv, argi, copying, mkpc>>

DataBlocks == nmeta .. FSSIZE - 1
K == INSTANCE Contents WITH Data <- DataBlocks, BitmapBlock <- 0, InodeBlock <- 1, MAXOPBLOCKS <- 10

ROOTINO == 1
T_DIR == 1
T_FILE == 2
NoInode == [type |-> 0, nlink |-> 0, mode |-> 0, size |-> 0, addrs |-> K!NewInode.addrs]
dinode(type) == [NoInode EXCEPT !.type = type, !.nlink = 1, !.mode = 493]

Blank == [inode |-> [i \in 1 .. NINODES |-> NoInode],
          blk |-> [b \in DataBlocks |-> K!ZeroBlock],
          used |-> {}]

\* iappend() for one word: the block it goes to is allocated when it is the first
\* word there.  s is [din, blk, freeblock].
Direct(s, fbn) ==
  IF s.din.addrs[fbn] # 0 THEN s
  ELSE [s EXCEPT !.din.addrs[fbn] = s.freeblock, !.freeblock = @ + 1]
IndirectEntry(s, ind, i) ==
  IF s.blk[ind][i] # 0 THEN s
  ELSE [s EXCEPT !.blk[ind][i] = s.freeblock, !.freeblock = @ + 1]
Indirect(s, i) == IndirectEntry(s, s.din.addrs[NDIRECT], i)
\* No file given is so large that assert(fbn < MAXFILE) fails.
Mapped(s, fbn) == IF fbn < NDIRECT THEN Direct(s, fbn) ELSE Indirect(Direct(s, NDIRECT), fbn - NDIRECT)
Word(s, x, w) ==
  [s EXCEPT !.blk = IF x = 0 THEN @ ELSE [@ EXCEPT ![x][s.din.size % BSIZE] = w],
            !.din.size = @ + 1]
AppendTo(s, fbn, w) == Word(s, K!Lookup([blk |-> s.blk], s.din, fbn), w)
AppendWord(s, w) == AppendTo(Mapped(s, s.din.size \div BSIZE), s.din.size \div BSIZE, w)
iappend(m, fb, inum, words) ==
  FoldLeft(AppendWord, [din |-> m.inode[inum], blk |-> m.blk, freeblock |-> fb], words)

\* Appending, with winode() at the end.
Appended(inum, s) ==
  /\ img' = [img EXCEPT !.inode[inum] = s.din, !.blk = s.blk]
  /\ freeblock' = s.freeblock

\* ialloc(type), and then words appended to an inode.
ialloc(m, inum, type) == [m EXCEPT !.inode[inum] = dinode(type)]
AllocAppend(inum, type, to, s) ==
  /\ freeinode' = inum + 1
  /\ img' = [ialloc(img, inum, type) EXCEPT !.inode[to] = s.din, !.blk = s.blk]
  /\ freeblock' = s.freeblock

balloc(m, n) == [m EXCEPT !.used = nmeta .. n - 1]

\* The size of the root directory is rounded up to the next block, a full one too.
fixRootDown(size) == (size \div BSIZE) * BSIZE
fixRoot(size) == ((size \div BSIZE) + 1) * BSIZE

-----------------------------------------------------------------------------
MkfsInit ==
  /\ img = Blank /\ freeinode = 1 /\ freeblock = nmeta
  /\ argv \in HostFiles /\ argi = 1 /\ copying = << >> /\ mkpc = "start"

MkfsIdle ==
  /\ img = << >> /\ freeinode = 1 /\ freeblock = nmeta
  /\ argv = << >> /\ argi = 1 /\ copying = << >> /\ mkpc = "idle"

\* The root directory with . and .. in it.
MkRoot ==
  /\ mkpc = "start"
  /\ AllocAppend(freeinode, T_DIR, ROOTINO,
                 iappend(ialloc(img, freeinode, T_DIR), freeblock, ROOTINO, <<ROOTINO, ROOTINO>>))
  /\ mkpc' = "files"
  /\ UNCHANGED <<argv, argi, copying>>

\* The next file: an inode and a directory entry.
MkFile ==
  /\ mkpc = "files" /\ copying = << >> /\ argi <= Len(argv)
  /\ AllocAppend(freeinode, T_FILE, ROOTINO, iappend(img, freeblock, ROOTINO, <<freeinode>>))
  /\ copying' = argv[argi] /\ argi' = argi + 1
  /\ UNCHANGED <<argv, mkpc>>

\* One read() of at most a block from the host's file, appended.
Chunk == SubSeq(copying, 1, IF Len(copying) < BSIZE THEN Len(copying) ELSE BSIZE)
MkCopy ==
  /\ mkpc = "files" /\ copying # << >>
  /\ Appended(freeinode - 1, iappend(img, freeblock, freeinode - 1, Chunk))
  /\ copying' = SubSeq(copying, BSIZE + 1, Len(copying))
  /\ UNCHANGED <<freeinode, argv, argi, mkpc>>

MkFinish ==
  /\ mkpc = "files" /\ copying = << >> /\ argi > Len(argv)
  /\ img' = balloc([img EXCEPT !.inode[ROOTINO].size = fixRoot(@)], freeblock)
  /\ mkpc' = "done"
  /\ UNCHANGED <<freeinode, freeblock, argv, argi, copying>>

MkfsNext == MkRoot \/ MkFile \/ MkCopy \/ MkFinish
MkfsSpec == MkfsInit /\ [][MkfsNext]_mkfsVars

-----------------------------------------------------------------------------
(* The image as the kernel sees it, when mkfs is done.                      *)

KDisk == K!Disk(img.used, img.blk)
Inodes == {i \in 1 .. NINODES : img.inode[i].type # 0}
Blocks(i) == K!BlocksOf(KDisk, img.inode[i])

\* The free map is exact: every block an inode reaches is marked and in no other
\* place, and no other data block is marked.
ImageSound ==
  mkpc = "done" =>
    /\ \A i \in Inodes : IsInjective(Blocks(i)) /\ ToSet(Blocks(i)) \subseteq DataBlocks
    /\ \A i, j \in Inodes : i # j => ToSet(Blocks(i)) \cap ToSet(Blocks(j)) = {}
    /\ UNION {ToSet(Blocks(i)) : i \in Inodes} = img.used

\* The kernel's readi() gets from the image the bytes of the host's files in their
\* order, across direct and indirect blocks, and writes nothing to do so.
KernelReadsFiles ==
  mkpc = "done" =>
    \A k \in 1 .. Len(argv) :
      LET got == K!readi(KDisk, img.inode[k + 1], 0, Len(argv[k]) + 1)
      IN got.data = argv[k] /\ got.d = KDisk

\* The root directory lists . and .. and the files.  Unless its entries fill the last
\* block exactly, only free entries follow up to its size, and readi() finds them all
\* without allocating.
RootListed ==
  mkpc = "done" =>
    LET n == Cardinality(Inodes) + 1
        root == img.inode[ROOTINO]
        got == K!Bytes(KDisk, root)
    IN /\ n <= Len(got)
       /\ SubSeq(got, 1, n) = <<ROOTINO>> \o [k \in 1 .. n - 1 |-> k]
       /\ n % BSIZE # 0 =>
            /\ \A k \in n + 1 .. Len(got) : got[k] = 0
            /\ K!readi(KDisk, root, 0, root.size).d = KDisk

\* The kernel reads the root directory up to its size without allocating: sys_read()
\* opens no transaction.  The code does not ensure this when the entries fill the last
\* block: the size then takes in one more, which is not mapped.
RootReadable ==
  mkpc = "done" =>
    K!readi(KDisk, img.inode[ROOTINO], 0, img.inode[ROOTINO].size).d = KDisk

\* The image mkfs makes is consistent, and the kernel's readi() finds in it the
\* files as they were on the host, and their entries in the root directory.
ImageReadable == ImageSound /\ KernelReadsFiles /\ RootListed
=============================================================================
