------------------------------ MODULE Contents ------------------------------
(***************************************************************************)
(* File contents (src/fs.c): the free map, the blocks of an inode, and     *)
(* reading, writing and truncating it.  Each routine is an operator from   *)
(* the disk and the inode to what they are afterwards, because it runs     *)
(* under the inode's lock.                                                 *)
(*                                                                         *)
(* A disk d is a record: used is the set of blocks marked in the free map, *)
(* blk their contents, log the blocks given to log_write() so far, and     *)
(* stuck says that a panic was reached.  A block holds BSIZE words; a word *)
(* is a byte of data or a block number.                                    *)
(***************************************************************************)
EXTENDS Integers, Sequences, FiniteSets, SequencesExt

CONSTANTS BSIZE, NDIRECT,
          Data,         \* the blocks behind the metadata
          BitmapBlock, InodeBlock,
          MAXOPBLOCKS   \* blocks a transaction may write

NINDIRECT == BSIZE
MAXFILE == NDIRECT + NINDIRECT
ZeroBlock == [i \in 0 .. BSIZE - 1 |-> 0]

ASSUME ContentsAssumption ==
  /\ {BSIZE, NDIRECT, MAXOPBLOCKS} \subseteq Nat \ {0}
  /\ Data \subseteq Nat \ {0} /\ BitmapBlock \notin Data /\ InodeBlock \notin Data

Disk(used, blk) == [used |-> used, blk |-> blk, log |-> {}, stuck |-> FALSE]
NewInode == [size |-> 0, addrs |-> [i \in 0 .. NDIRECT |-> 0]]

log_write(d, b) == [d EXCEPT !.log = @ \cup {b}]
bzero(d, b) == log_write([d EXCEPT !.blk[b] = ZeroBlock], b)

\* balloc(): the first free block, zeroed; [d, addr].
balloc(d) ==
  LET free == Data \ d.used
      b == CHOOSE x \in free : \A y \in free : x <= y
  IN IF free = {} THEN [d |-> [d EXCEPT !.stuck = TRUE], addr |-> 0]
     ELSE [d |-> bzero(log_write([d EXCEPT !.used = @ \cup {b}], BitmapBlock), b), addr |-> b]

bfree(d, b) ==
  IF b \in d.used THEN log_write([d EXCEPT !.used = @ \ {b}], BitmapBlock)
                  ELSE [d EXCEPT !.stuck = TRUE]

\* bmap(ip, bn): the block, allocated if there is none; [d, ip, addr].
bmapNoLog(d, ip, bn) ==
  IF bn < NDIRECT
  THEN IF ip.addrs[bn] # 0 THEN [d |-> d, ip |-> ip, addr |-> ip.addrs[bn]]
       ELSE LET new == balloc(d)
            IN [d |-> new.d, ip |-> [ip EXCEPT !.addrs[bn] = new.addr], addr |-> new.addr]
  ELSE LET ind == IF ip.addrs[NDIRECT] # 0 THEN [d |-> d, addr |-> ip.addrs[NDIRECT]]
                  ELSE balloc(d)
           ip2 == [ip EXCEPT !.addrs[NDIRECT] = ind.addr]
           new == balloc(ind.d)
       IN [d |-> new.d, ip |-> ip2, addr |-> new.addr]

bmap(d, ip, bn) ==
  IF bn < NDIRECT
  THEN IF ip.addrs[bn] # 0 THEN [d |-> d, ip |-> ip, addr |-> ip.addrs[bn]]
       ELSE LET new == balloc(d)
            IN [d |-> new.d, ip |-> [ip EXCEPT !.addrs[bn] = new.addr], addr |-> new.addr]
  ELSE LET ind == IF ip.addrs[NDIRECT] # 0 THEN [d |-> d, addr |-> ip.addrs[NDIRECT]]
                  ELSE balloc(d)
           ip2 == [ip EXCEPT !.addrs[NDIRECT] = ind.addr]
           new == balloc(ind.d)
       IN CASE ind.d.stuck -> [d |-> ind.d, ip |-> ip2, addr |-> 0]
            [] ind.d.blk[ind.addr][bn - NDIRECT] # 0 ->
                 [d |-> ind.d, ip |-> ip2, addr |-> ind.d.blk[ind.addr][bn - NDIRECT]]
            [] OTHER ->
                 [d |-> log_write([new.d EXCEPT !.blk[ind.addr][bn - NDIRECT] = new.addr], ind.addr),
                  ip |-> ip2, addr |-> new.addr]

iupdate(d) == log_write(d, InodeBlock)

\* itrunc(): every block goes back to the free map; [d, ip].
itrunc(d, ip) ==
  LET direct == {ip.addrs[i] : i \in 0 .. NDIRECT - 1} \ {0}
      ind == ip.addrs[NDIRECT]
      indirect == IF ind = 0 THEN {}
                  ELSE {d.blk[ind][j] : j \in 0 .. NINDIRECT - 1} \ {0}
      all == direct \cup indirect \cup ({ind} \ {0})
  IN [d |-> iupdate(FoldSet(LAMBDA b, e : bfree(e, b), d, all)), ip |-> NewInode]

\* readi(): [d, ip, data, r]; n is cut at the end of the file.  No n here is so large
\* that off + n wraps, the other case of -1.
readi(d, ip, off, n) ==
  LET len == IF off + n > ip.size THEN ip.size - off ELSE n
      Read(s, k) == LET m == bmap(s.d, s.ip, (off + k) \div BSIZE)
                    IN [d |-> m.d, ip |-> m.ip,
                        data |-> Append(s.data, m.d.blk[m.addr][(off + k) % BSIZE])]
      done == FoldLeft(Read, [d |-> d, ip |-> ip, data |-> << >>], [k \in 1 .. len |-> k - 1])
  IN IF off > ip.size THEN [d |-> d, ip |-> ip, data |-> << >>, r |-> -1]
     ELSE [d |-> done.d, ip |-> done.ip, data |-> done.data, r |-> len]

\* writei(): [d, ip, r].
writei(d, ip, src, off) ==
  LET n == Len(src)
      Write(s, k) ==
        IF s.d.stuck THEN s
        ELSE LET m == bmap(s.d, s.ip, (off + k) \div BSIZE)
             IN [d |-> IF m.d.stuck THEN m.d
                       ELSE log_write([m.d EXCEPT !.blk[m.addr][(off + k) % BSIZE] = src[k + 1]], m.addr),
                 ip |-> m.ip]
      done == FoldLeft(Write, [d |-> d, ip |-> ip], [k \in 1 .. n |-> k - 1])
      grown == n > 0 /\ off + n > ip.size
  IN IF off > ip.size \/ off + n > MAXFILE * BSIZE THEN [d |-> d, ip |-> ip, r |-> -1]
     ELSE [d |-> IF grown THEN iupdate(done.d) ELSE done.d,
           ip |-> IF grown THEN [done.ip EXCEPT !.size = off + n] ELSE done.ip,
           r |-> n]

-----------------------------------------------------------------------------
(* What is said of a disk and its inodes.                                   *)

\* The blocks of an inode, its indirect block included, as a sequence in which
\* one that occurs twice is seen twice.
BlocksOf(d, ip) ==
  LET ind == ip.addrs[NDIRECT]
      direct == [i \in 1 .. NDIRECT + 1 |-> ip.addrs[i - 1]]
      indirect == IF ind = 0 THEN << >> ELSE [j \in 1 .. NINDIRECT |-> d.blk[ind][j - 1]]
  IN SelectSeq(direct \o indirect, LAMBDA b : b # 0)

\* The block that holds block bn of the file, 0 if there is none.
Lookup(d, ip, bn) ==
  IF bn < NDIRECT THEN ip.addrs[bn]
  ELSE IF ip.addrs[NDIRECT] = 0 THEN 0 ELSE d.blk[ip.addrs[NDIRECT]][bn - NDIRECT]

\* The contents as a sequence of bytes; a byte below the size that no block
\* holds is -1.
Bytes(d, ip) ==
  [k \in 1 .. ip.size |->
     LET b == Lookup(d, ip, (k - 1) \div BSIZE)
     IN IF b = 0 THEN -1 ELSE d.blk[b][(k - 1) % BSIZE]]
=============================================================================
