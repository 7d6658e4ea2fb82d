------------------------------- MODULE Malloc -------------------------------
(***************************************************************************)
(* The allocator of the user library (src/umalloc.c): a ring of free       *)
(* blocks in address order, from which malloc() takes the first that fits. *)
(*                                                                         *)
(* Addresses count header units.  mem has the headers in use, of free      *)
(* blocks and of blocks handed out; the header of a block that was merged  *)
(* into another is dropped, since nothing may read it again, and the ptr   *)
(* of a block handed out is 0, since free() sets it.                       *)
(***************************************************************************)
EXTENDS Integers, FiniteSets

CONSTANTS HEADER,     \* sizeof(Header)
          MORECORE,   \* units asked of sbrk() at least, 4096
          HeapTop,    \* the units sbrk() can give end here
          Request,    \* sizes given to malloc(), in bytes
          SbrkUnits   \* what the program itself takes with sbrk()

VARIABLES mem,     \* header -> [ptr, size]
          freep,   \* where the next search starts, 0 before the first malloc()
          brk,     \* the end of the heap
          core,    \* the units morecore() got
          held     \* [bp, nbytes]: blocks handed out and not freed

mallocVars == <<mem, freep, brk, core, held>>

Base == 1          \* &base, below the heap
HeapStart == 3

Put(h, p, ptr, size) == [q \in DOMAIN h \cup {p} |-> IF q = p THEN [ptr |-> ptr, size |-> size] ELSE h[q]]
Drop(h, p) == [q \in DOMAIN h \ {p} |-> h[q]]

\* The ring from p on.
Ring(h, p) ==
  LET f[n \in 0 .. Cardinality(DOMAIN h)] == IF n = 0 THEN p ELSE h[f[n - 1]].ptr IN f
Least(S) == CHOOSE n \in S : \A m \in S : n <= m

\* free(): the free block p after which bp belongs, seen from the block fp.
Place(h, ring, bp) ==
  ring[Least({n \in DOMAIN ring :
    \/ bp > ring[n] /\ bp < h[ring[n]].ptr
    \/ ring[n] >= h[ring[n]].ptr /\ (bp > ring[n] \/ bp < h[ring[n]].ptr)})]
JoinUpper(h, p, bp) ==
  IF bp + h[bp].size = h[p].ptr
  THEN Drop(Put(h, bp, h[h[p].ptr].ptr, h[bp].size + h[h[p].ptr].size), h[p].ptr)
  ELSE [h EXCEPT ![bp].ptr = h[p].ptr]
JoinLowerNot(h, p, bp) == [h EXCEPT ![p].ptr = bp]
JoinLower(h, p, bp) ==
  IF p + h[p].size = bp
  THEN Drop(Put(h, p, h[bp].ptr, h[p].size + h[bp].size), bp)
  ELSE [h EXCEPT ![p].ptr = bp]
free(h, p, bp) == JoinLower(JoinUpper(h, p, bp), p, bp)

\* malloc(): the first block from fp->ptr on with n units, as a place in the ring;
\* {} when the search is back at fp.
Fits(h, fp, ring, n) ==
  {k \in DOMAIN ring : /\ k > 0 /\ h[ring[k]].size >= n
                       /\ \A j \in 1 .. k - 1 : ring[j] # fp /\ h[ring[j]].size < n}
Taken(h, prevp, p, n) ==
  IF h[p].size = n THEN [at |-> p, mem |-> Put([h EXCEPT ![prevp].ptr = h[p].ptr], p, 0, n)]
  ELSE [at |-> p + h[p].size - n, mem |-> Put([h EXCEPT ![p].size = @ - n], p + h[p].size - n, 0, n)]

nunits(nbytes) == (nbytes + HEADER - 1) \div HEADER + 1
More(n) == IF n < MORECORE THEN MORECORE ELSE n

-----------------------------------------------------------------------------
MallocInit ==
  /\ mem = << >> /\ freep = 0 /\ brk = HeapStart /\ core = {} /\ held = {}

\* The first call makes the ring of base alone.
First == IF freep = 0 THEN Put(mem, Base, Base, 0) ELSE mem
FirstFree == IF freep = 0 THEN Base ELSE freep

Hand(t, prevp, nbytes) ==
  /\ mem' = t.mem /\ freep' = prevp
  /\ held' = held \cup {[bp |-> t.at, nbytes |-> nbytes]}

\* A search that finds a block.
TakeFrom(h, ring, ks, n, nbytes) ==
  /\ ks # {}
  /\ \E k \in ks : Hand(Taken(h, ring[k - 1], ring[k], n), ring[k - 1], nbytes)
Search(h, fp, ring, n, nbytes) == TakeFrom(h, ring, Fits(h, fp, ring, n), n, nbytes)

MallocFit(nbytes) ==
  /\ Search(First, FirstFree, Ring(First, FirstFree), nunits(nbytes), nbytes)
  /\ UNCHANGED <<brk, core>>

NoFit(n) == Fits(First, FirstFree, Ring(First, FirstFree), n) = {}

\* morecore(): what sbrk() gives is freed, and the search goes on from there.
Resume(h, fp, n, nbytes) == Search(h, fp, Ring(h, fp), n, nbytes)
Grown(h, p, n, nbytes) == Resume(free(h, p, brk), p, n, nbytes)
Grow(h, n, nbytes) == Grown(h, Place(h, Ring(h, FirstFree), brk), n, nbytes)
MallocMore(nbytes) ==
  /\ NoFit(nunits(nbytes))
  /\ brk + More(nunits(nbytes)) <= HeapTop
  /\ Grow(Put(First, brk, 0, More(nunits(nbytes))), nunits(nbytes), nbytes)
  /\ brk' = brk + More(nunits(nbytes))
  /\ core' = core \cup (brk .. brk' - 1)

MallocFails(nbytes) ==
  /\ NoFit(nunits(nbytes))
  /\ brk + More(nunits(nbytes)) > HeapTop
  /\ mem' = First /\ freep' = FirstFree
  /\ UNCHANGED <<brk, core, held>>

FreeAt(p, b) == mem' = free(mem, p, b.bp) /\ freep' = p
Free(b) ==
  /\ FreeAt(Place(mem, Ring(mem, freep), b.bp), b)
  /\ held' = held \ {b}
  /\ UNCHANGED <<brk, core>>

\* The program moves the end of the heap itself, so the blocks have gaps.
SbrkCall(n) ==
  /\ brk + n <= HeapTop
  /\ brk' = brk + n
  /\ UNCHANGED <<mem, freep, core, held>>

MallocNext ==
  \/ \E nbytes \in Request : MallocFit(nbytes) \/ MallocMore(nbytes) \/ MallocFails(nbytes)
  \/ \E b \in held : Free(b)
  \/ \E n \in SbrkUnits : SbrkCall(n)

-----------------------------------------------------------------------------
Units(p) == p .. p + mem[p].size - 1
HeldAt == {b.bp : b \in held}
FreeAts == DOMAIN mem \ HeldAt

\* No unit is in two blocks, and none that morecore() got is lost: the free
\* blocks and the ones handed out tile the heap after any sequence of malloc(),
\* free() and sbrk().
HeapTiled ==
  /\ \A p, q \in DOMAIN mem : p # q => Units(p) \cap Units(q) = {}
  /\ UNION {Units(p) : p \in DOMAIN mem} = core

\* The ring visits every free block, in address order but for one step back, and
\* no two free blocks touch: free() merges on both sides.
RingSound ==
  freep # 0 =>
    LET ring == Ring(mem, freep)
        n == Cardinality(FreeAts)
    IN /\ freep \in FreeAts /\ {ring[k] : k \in 0 .. n - 1} = FreeAts /\ ring[n] = freep
       /\ Cardinality({p \in FreeAts : mem[p].ptr <= p}) = 1
       /\ \A p, q \in FreeAts \ {Base} : p + mem[p].size # q

\* The bytes after the header of a block are as many as were asked for.
HeldFits == \A b \in held : (mem[b.bp].size - 1) * HEADER >= b.nbytes

\* Over any malloc(), free() and sbrk(), the heap is tiled by blocks, the free ones
\* are a ring in address order without neighbours, and what is handed out fits.
HeapSound == HeapTiled /\ RingSound /\ HeldFits
=============================================================================
