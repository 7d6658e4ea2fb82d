------------------------------- MODULE Memory -------------------------------
(***************************************************************************)
(* Physical pages and the address spaces of processes: kalloc() and        *)
(* kfree() (src/kalloc.c), page tables (src/vm.c), and what sbrk(), fork(),*)
(* exec(), exit() and wait() do with them (src/proc.c, src/exec.c).        *)
(*                                                                         *)
(* Every kalloc() is a step of its own, because it takes kmem.lock, other  *)
(* processes run in between, and it may fail.  What is freed together is   *)
(* freed in one step: freeing cannot fail.  The free list is a set: its    *)
(* pages differ only in their addresses, so kalloc gives the lowest.       *)
(*                                                                         *)
(* Addresses are counted in bytes and wrap at AddrMod as an unsigned int   *)
(* does.  An address space is a record: dir is the page of the directory,  *)
(* kpt the page tables of the kernel half, tab those of the user half by   *)
(* directory index, and pte the present entries by page number, each with  *)
(* its page and its PTE_U bit.                                             *)
(***************************************************************************)
EXTENDS Integers, Sequences, FiniteSets, Functions, TLC

CONSTANTS Proc,        \* process slots
          Initproc,    \* the one userinit() makes
          NPage,       \* physical pages
          PGSIZE, NPTENTRIES, KERNBASE, AddrMod,
          NKPT,        \* page tables of the kernel half
          Program,     \* executables: sequences of segments
          SbrkArg,     \* arguments of sbrk()
          ArgLen,      \* sizes of the arguments pushed by exec()
          None

ASSUME MemoryConstants ==
  /\ Initproc \in Proc /\ None \notin Proc
  /\ {NPage, PGSIZE, NPTENTRIES, NKPT} \subseteq Nat \ {0}
  /\ KERNBASE \in Nat /\ KERNBASE % PGSIZE = 0 /\ AddrMod = 2 * KERNBASE
  /\ SbrkArg \subseteq Int

VARIABLES freelist,  \* kmem.freelist
          st,        \* UNUSED, EMBRYO, RUNNING (or able to) and ZOMBIE
          parent,
          kstack,
          vm,        \* the address space at p->pgdir
          sz,        \* p->sz
          new,       \* the address space p is building, in exec() or fork()
          op         \* where p is in its system call

vars == <<freelist, st, parent, kstack, vm, sz, new, op>>

Page == 1 .. NPage
NoVm == [dir |-> None, kpt |-> {}, tab |-> << >>, pte |-> << >>]

\* A process in user mode; otherwise op says which call it is in, where, and
\* the local variables of exec(), allocuvm() and copyuvm().
User == [call |-> "none", at |-> "user", a |-> 0, end |-> 0, mem |-> None,
         child |-> None, prog |-> << >>, seg |-> 0, size |-> 0]

PGROUNDUP(a) == ((a + PGSIZE - 1) \div PGSIZE) * PGSIZE
PDX(n) == n \div NPTENTRIES
Vpn(a) == a \div PGSIZE
Add(a, b) == (a + b) % AddrMod

\* The function f without the elements of S in its domain.
Without(f, S) == [x \in DOMAIN f \ S |-> f[x]]
Put(f, x, y) == [z \in DOMAIN f \cup {x} |-> IF z = x THEN y ELSE f[z]]

UserPages(v) == {v.pte[n].page : n \in DOMAIN v.pte}
Tables(v) == v.kpt \cup {v.tab[d] : d \in DOMAIN v.tab}

-----------------------------------------------------------------------------
(* kalloc() and kfree().                                                    *)

kalloc == CHOOSE page \in freelist : \A other \in freelist : page <= other
OutOfMemory == freelist = {}
kfree(pages) == freelist \cup pages

\* The pages that kinit1() and kinit2() gave to kfree(), less the first ones,
\* which userinit() has taken.
freerange == (NKPT + 5) .. NPage

-----------------------------------------------------------------------------
(* Page tables.                                                             *)

\* The page numbers deallocuvm(pgdir, oldsz, newsz) clears.
Dealloc(v, oldsz, newsz) ==
  {n \in DOMAIN v.pte : PGROUNDUP(newsz) <= n * PGSIZE /\ n * PGSIZE < oldsz}

\* All that freevm() frees.
freevm(v) == UserPages(v) \cup Tables(v) \cup {v.dir}

\* copyout(): every page from va on is a user page.  A page without a page table,
\* which uva2ka() does not test for, cannot occur: exec() copies to the stack it has
\* just allocated, and the guard page below it has its entry in a table too.
copyout(v, va, len) ==
  \A n \in Vpn(va) .. Vpn(va + len - 1) : n \in DOMAIN v.pte /\ v.pte[n].u

\* The address space that the current call of p works on.
Target(p) == IF op[p].call = "sbrk" THEN vm[p] ELSE new[p]
SetTarget(p, v) ==
  IF op[p].call = "sbrk" THEN vm' = [vm EXCEPT ![p] = v] /\ UNCHANGED new
                         ELSE new' = [new EXCEPT ![p] = v] /\ UNCHANGED vm

-----------------------------------------------------------------------------
(* The way out of a call that fails: the caller of allocuvm(), copyuvm() or *)
(* setupkvm() frees what was made so far.  extra is a page the failing      *)
(* routine has in its hands and frees itself.                               *)

FailSbrk(p, extra) ==
  LET gone == Dealloc(vm[p], op[p].end, sz[p])
  IN /\ vm' = [vm EXCEPT ![p].pte = Without(@, gone)]
     /\ freelist' = kfree(extra \cup {vm[p].pte[n].page : n \in gone})
     /\ UNCHANGED <<st, parent, kstack, new>>

FailExec(p, extra) ==
  /\ freelist' = kfree(extra \cup (IF new[p] = NoVm THEN {} ELSE freevm(new[p])))
  /\ new' = [new EXCEPT ![p] = NoVm]
  /\ UNCHANGED <<st, parent, kstack, vm>>

FailForkKeepsStack(p, extra) ==
  /\ freelist' = kfree(extra \cup (IF new[p] = NoVm THEN {} ELSE freevm(new[p])))
  /\ kstack' = [kstack EXCEPT ![op[p].child] = None]
  /\ st' = [st EXCEPT ![op[p].child] = "unused"]
  /\ new' = [new EXCEPT ![p] = NoVm]
  /\ UNCHANGED <<parent, vm>>

FailFork(p, extra) ==
  /\ freelist' = kfree(extra \cup {kstack[op[p].child]}
                       \cup (IF new[p] = NoVm THEN {} ELSE freevm(new[p])))
  /\ kstack' = [kstack EXCEPT ![op[p].child] = None]
  /\ st' = [st EXCEPT ![op[p].child] = "unused"]
  /\ new' = [new EXCEPT ![p] = NoVm]
  /\ UNCHANGED <<parent, vm>>

Fail(p, extra) ==
  /\ CASE op[p].call = "sbrk" -> FailSbrk(p, extra)
       [] op[p].call = "exec" -> FailExec(p, extra)
       [] op[p].call = "fork" -> FailFork(p, extra)
  /\ op' = [op EXCEPT ![p] = User]
  /\ UNCHANGED sz

-----------------------------------------------------------------------------
(* setupkvm(): the directory, then the tables of the kernel half.           *)

setupkvmDir(p) ==
  /\ op[p].at = "dir"
  /\ \/ OutOfMemory /\ Fail(p, {})
     \/ /\ ~OutOfMemory
        /\ new' = [new EXCEPT ![p] = [NoVm EXCEPT !.dir = kalloc]]
        /\ freelist' = freelist \ {kalloc}
        /\ op' = [op EXCEPT ![p].at = "kpt"]
        /\ UNCHANGED <<st, parent, kstack, vm, sz>>

setupkvmMap(p) ==
  /\ op[p].at = "kpt"
  /\ \/ OutOfMemory /\ Fail(p, {})
     \/ /\ ~OutOfMemory
        /\ new' = [new EXCEPT ![p].kpt = @ \cup {kalloc}]
        /\ freelist' = freelist \ {kalloc}
        /\ op' = [op EXCEPT ![p].at =
                    IF Cardinality(new'[p].kpt) < NKPT THEN "kpt"
                    ELSE IF op[p].call = "fork" THEN "loop" ELSE "seg"]
        /\ UNCHANGED <<st, parent, kstack, vm, sz>>

-----------------------------------------------------------------------------
(* The loops of allocuvm() and copyuvm(): a page, then mappages(), which    *)
(* may need a page for a table.                                             *)

LoopKalloc(p) ==
  /\ op[p].at = "loop" /\ op[p].a < op[p].end
  /\ \/ OutOfMemory /\ Fail(p, {})
     \/ /\ ~OutOfMemory
        /\ op' = [op EXCEPT ![p].mem = kalloc, ![p].at = "map"]
        /\ freelist' = freelist \ {kalloc}
        /\ UNCHANGED <<st, parent, kstack, vm, sz, new>>

\* The flags of the new entry: PTE_U, or in copyuvm() those of the parent.
UserBitAlways(p) == TRUE

UserBit(p) == op[p].call = "fork" => vm[p].pte[Vpn(op[p].a)].u

mappages(p) ==
  /\ op[p].at = "map"
  /\ LET v == Target(p)
         n == Vpn(op[p].a)
         entry == Put(v.pte, n, [page |-> op[p].mem, u |-> UserBit(p)])
         next == [op EXCEPT ![p].mem = None, ![p].at = "loop", ![p].a = Add(@, PGSIZE)]
     IN \/ /\ PDX(n) \in DOMAIN v.tab
           /\ SetTarget(p, [v EXCEPT !.pte = entry])
           /\ op' = next
           /\ UNCHANGED <<freelist, st, parent, kstack, sz>>
        \/ /\ PDX(n) \notin DOMAIN v.tab /\ ~OutOfMemory
           /\ SetTarget(p, [v EXCEPT !.pte = entry, !.tab = Put(@, PDX(n), kalloc)])
           /\ freelist' = freelist \ {kalloc}
           /\ op' = next
           /\ UNCHANGED <<st, parent, kstack, sz>>
        \/ /\ PDX(n) \notin DOMAIN v.tab /\ OutOfMemory
           /\ Fail(p, {op[p].mem})

LoopDone(p) == op[p].at = "loop" /\ op[p].a >= op[p].end

-----------------------------------------------------------------------------
(* sbrk(): growproc().                                                      *)

CanCall(p) == st[p] = "running" /\ op[p] = User
              /\ 0 \in DOMAIN vm[p].pte /\ vm[p].pte[0].u

sbrkGrow(p, n) ==
  /\ CanCall(p) /\ n > 0
  /\ Add(sz[p], n) < KERNBASE
  /\ op' = [op EXCEPT ![p] = [User EXCEPT !.call = "sbrk", !.at = "loop",
                                !.a = PGROUNDUP(sz[p]), !.end = Add(sz[p], n)]]
  /\ UNCHANGED <<freelist, st, parent, kstack, vm, sz, new>>

sbrkGrown(p) ==
  /\ op[p].call = "sbrk" /\ LoopDone(p)
  /\ sz' = [sz EXCEPT ![p] = op[p].end]
  /\ op' = [op EXCEPT ![p] = User]
  /\ UNCHANGED <<freelist, st, parent, kstack, vm, new>>

\* deallocuvm() returns the new size; 0 is taken for a failure.
sbrkShrink(p, n) ==
  /\ CanCall(p) /\ n < 0
  /\ LET newsz == Add(sz[p], n)
         gone == IF newsz >= sz[p] THEN {} ELSE Dealloc(vm[p], sz[p], newsz)
     IN /\ vm' = [vm EXCEPT ![p].pte = Without(@, gone)]
        /\ freelist' = kfree({vm[p].pte[m].page : m \in gone})
        /\ sz' = [sz EXCEPT ![p] = IF newsz = 0 \/ newsz >= @ THEN @ ELSE newsz]
  /\ UNCHANGED <<st, parent, kstack, new, op>>

-----------------------------------------------------------------------------
(* fork(): allocproc(), copyuvm(), and the child can run.                   *)

fork(p, q) ==
  /\ CanCall(p) /\ st[q] = "unused" /\ ~OutOfMemory
  /\ st' = [st EXCEPT ![q] = "embryo"]
  /\ kstack' = [kstack EXCEPT ![q] = kalloc]
  /\ freelist' = freelist \ {kalloc}
  /\ op' = [op EXCEPT ![p] = [User EXCEPT !.call = "fork", !.at = "dir",
                                !.child = q, !.end = sz[p]]]
  /\ UNCHANGED <<parent, vm, sz, new>>

forkCopied(p) ==
  /\ op[p].call = "fork" /\ LoopDone(p)
  /\ LET q == op[p].child
     IN /\ vm' = [vm EXCEPT ![q] = new[p]]
        /\ sz' = [sz EXCEPT ![q] = sz[p]]
        /\ parent' = [parent EXCEPT ![q] = p]
        /\ st' = [st EXCEPT ![q] = "running"]
  /\ new' = [new EXCEPT ![p] = NoVm]
  /\ op' = [op EXCEPT ![p] = User]
  /\ UNCHANGED <<freelist, kstack>>

-----------------------------------------------------------------------------
(* exec().  A segment [vaddr, memsz, filesz, ok]: ok is whether its header  *)
(* and its contents can be read.                                            *)

exec(p, prog) ==
  /\ CanCall(p)
  /\ op' = [op EXCEPT ![p] = [User EXCEPT !.call = "exec", !.at = "dir",
                                !.prog = prog, !.seg = 1]]
  /\ UNCHANGED <<freelist, st, parent, kstack, vm, sz, new>>

\* allocuvm() from the size so far to size; the loop ends at once if it is less.
Allocuvm(p, size) ==
  /\ op' = [op EXCEPT ![p].at = "loop", ![p].a = PGROUNDUP(op[p].size), ![p].end = size,
                      ![p].size = IF size < @ THEN @ ELSE size]
  /\ UNCHANGED <<freelist, st, parent, kstack, vm, sz, new>>

execSegment(p) ==
  /\ op[p].at = "seg" /\ op[p].seg <= Len(op[p].prog)
  /\ LET s == op[p].prog[op[p].seg]
         size == Add(s.vaddr, s.memsz)
         bad == s.memsz < s.filesz \/ size < s.vaddr \/ size >= KERNBASE
                \/ (size = 0 /\ op[p].size = 0)
     IN (bad /\ Fail(p, {})) \/ (~bad /\ Allocuvm(p, size))

\* After allocuvm(): the alignment is checked and loaduvm() reads the file.
execLoad(p) ==
  /\ op[p].call = "exec" /\ LoopDone(p) /\ op[p].seg <= Len(op[p].prog)
  /\ LET s == op[p].prog[op[p].seg]
         good == s.vaddr % PGSIZE = 0 /\ s.ok
     IN \/ ~good /\ Fail(p, {})
        \/ /\ good
           /\ op' = [op EXCEPT ![p].at = "seg", ![p].seg = @ + 1]
           /\ UNCHANGED <<freelist, st, parent, kstack, vm, sz, new>>

\* Two more pages; seg one further than the end says that they are next.
execStack(p) ==
  /\ op[p].at = "seg" /\ op[p].seg = Len(op[p].prog) + 1
  /\ LET base == PGROUNDUP(op[p].size)
         size == Add(base, 2 * PGSIZE)
     IN \/ size >= KERNBASE /\ Fail(p, {})
        \/ /\ size < KERNBASE
           /\ op' = [op EXCEPT ![p].at = "loop", ![p].a = base, ![p].end = size,
                               ![p].size = size]
           /\ UNCHANGED <<freelist, st, parent, kstack, vm, sz, new>>

\* clearpteu() on the lower page, the arguments on the upper one, and the
\* process has its new address space; the old one is freed.
execCommit(p, len) ==
  /\ op[p].call = "exec" /\ LoopDone(p) /\ op[p].seg = Len(op[p].prog) + 1
  /\ LET guard == Vpn(op[p].size) - 2
         v == [new[p] EXCEPT !.pte[guard].u = FALSE]
     IN \/ ~copyout(v, op[p].size - len, len) /\ Fail(p, {})
        \/ /\ copyout(v, op[p].size - len, len)
           /\ vm' = [vm EXCEPT ![p] = v]
           /\ sz' = [sz EXCEPT ![p] = op[p].size]
           /\ freelist' = kfree(freevm(vm[p]))
           /\ new' = [new EXCEPT ![p] = NoVm]
           /\ op' = [op EXCEPT ![p] = User]
           /\ UNCHANGED <<st, parent, kstack>>

-----------------------------------------------------------------------------
(* exit() and wait().                                                       *)

\* By a call, or because the process cannot run its code any more.
exit(p) ==
  /\ p # Initproc /\ st[p] = "running" /\ op[p] = User
  /\ st' = [st EXCEPT ![p] = "zombie"]
  /\ parent' = [q \in Proc |-> IF parent[q] = p THEN Initproc ELSE parent[q]]
  /\ UNCHANGED <<freelist, kstack, vm, sz, new, op>>

\* What an unused slot still has in sz and pgdir is never looked at.
wait(p, q) ==
  /\ CanCall(p) /\ st[q] = "zombie" /\ parent[q] = p
  /\ freelist' = kfree({kstack[q]} \cup freevm(vm[q]))
  /\ st' = [st EXCEPT ![q] = "unused"]
  /\ parent' = [parent EXCEPT ![q] = None]
  /\ kstack' = [kstack EXCEPT ![q] = None]
  /\ vm' = [vm EXCEPT ![q] = NoVm]
  /\ sz' = [sz EXCEPT ![q] = 0]
  /\ UNCHANGED <<new, op>>

\* userinit(): the first process has one page, from inituvm().
Init ==
  /\ freelist = freerange
  /\ st = [p \in Proc |-> IF p = Initproc THEN "running" ELSE "unused"]
  /\ parent = [p \in Proc |-> None]
  /\ kstack = [p \in Proc |-> IF p = Initproc THEN 1 ELSE None]
  /\ vm = [p \in Proc |->
             IF p = Initproc
             THEN [dir |-> 2, kpt |-> 5 .. NKPT + 4, tab |-> (0 :> 3),
                   pte |-> (0 :> [page |-> 4, u |-> TRUE])]
             ELSE NoVm]
  /\ sz = [p \in Proc |-> IF p = Initproc THEN PGSIZE ELSE 0]
  /\ new = [p \in Proc |-> NoVm]
  /\ op = [p \in Proc |-> User]

Next ==
  \E p \in Proc :
    \/ \E n \in SbrkArg : sbrkGrow(p, n) \/ sbrkShrink(p, n)
    \/ \E q \in Proc : fork(p, q) \/ wait(p, q)
    \/ \E prog \in Program : exec(p, prog)
    \/ setupkvmDir(p) \/ setupkvmMap(p) \/ LoopKalloc(p) \/ mappages(p)
    \/ sbrkGrown(p) \/ forkCopied(p)
    \/ execSegment(p) \/ execLoad(p) \/ execStack(p)
    \/ \E len \in ArgLen : execCommit(p, len)
    \/ exit(p)

Spec == Init /\ [][Next]_vars

-----------------------------------------------------------------------------
(* The checks of system call arguments (src/syscall.c).                     *)

\* argptr(): the block of size bytes at i, unsigned, is inside the process.
argptrEndOnly(p, i, size) == size >= 0 /\ ((i % AddrMod) + size) % AddrMod <= sz[p]

argptr(p, i, size) ==
  size >= 0 /\ (i % AddrMod) < sz[p] /\ ((i % AddrMod) + size) % AddrMod <= sz[p]

\* fetchint(): the four bytes (here one page) at addr.
fetchint(p, addr) == addr < sz[p] /\ Add(addr, PGSIZE) <= sz[p]

-----------------------------------------------------------------------------
(* Properties.                                                              *)

\* The pages that belong to an address space.
CountVm(v) ==
  IF v = NoVm THEN 0 ELSE 1 + Cardinality(v.kpt) + Cardinality(DOMAIN v.tab) + Cardinality(DOMAIN v.pte)

PagesVm(v) == IF v = NoVm THEN {} ELSE freevm(v)

TypeOK ==
  /\ freelist \subseteq Page
  /\ st \in [Proc -> {"unused", "embryo", "running", "zombie"}]
  /\ parent \in [Proc -> Proc \cup {None}]
  /\ kstack \in [Proc -> Page \cup {None}]
  /\ sz \in [Proc -> 0 .. KERNBASE - 1]
  /\ \A p \in Proc : op[p].mem \in Page \cup {None} /\ op[p].a \in 0 .. AddrMod - 1

\* Every page has one owner: the free list, a kernel stack, one place in one
\* address space, or a routine that has just got it.  No failure of kalloc(),
\* at whatever step of exec(), fork() or sbrk(), loses a page or leaves one in
\* two places.
PagesConserved ==
  /\ Page = freelist
            \cup UNION {PagesVm(vm[p]) \cup PagesVm(new[p]) : p \in Proc}
            \cup (({kstack[p] : p \in Proc} \cup {op[p].mem : p \in Proc}) \ {None})
  /\ NPage = Cardinality(freelist)
             + FoldFunction(+, 0, [p \in Proc |-> CountVm(vm[p]) + CountVm(new[p])
                                   + Cardinality({kstack[p]} \ {None})
                                   + Cardinality({op[p].mem} \ {None})])

\* A process that can run has all the pages below its size and none above, and
\* no page without a page table: copyuvm() meets no entry that is missing.
\* sbrk(-sz) frees everything and reports a failure, with sz as it was; that
\* process can only exit.
SizeMapped ==
  \A p \in Proc :
    CanCall(p) \/ op[p].call \in {"fork", "exec"} =>
      /\ DOMAIN vm[p].pte = {n \in 0 .. Vpn(KERNBASE) : n * PGSIZE < sz[p]}
      /\ \A n \in DOMAIN vm[p].pte : PDX(n) \in DOMAIN vm[p].tab

\* What argptr() and fetchint() accept is mapped, also where the 32-bit sum of
\* address and size wraps: the kernel does not fault on a checked argument.
ArgumentsMapped ==
  \A p \in Proc : CanCall(p) =>
    /\ \A i \in -KERNBASE .. KERNBASE - 1, size \in -2 .. KERNBASE - 1 :
         argptr(p, i, size) => \A a \in i .. i + size - 1 : Vpn(a) \in DOMAIN vm[p].pte
    /\ \A a \in 0 .. AddrMod - 1 :
         fetchint(p, a) => {Vpn(a), Vpn(a + PGSIZE - 1)} \subseteq DOMAIN vm[p].pte

\* A child starts with the size and the page permissions of its parent, the
\* page without PTE_U under the stack included, in pages of its own.
ChildIsCopy ==
  [][\A p \in Proc : st[p] = "embryo" /\ st'[p] = "running"
                     => LET q == parent'[p] IN
                        /\ sz'[p] = sz[q] /\ DOMAIN vm'[p].pte = DOMAIN vm[q].pte
                        /\ \A n \in DOMAIN vm[q].pte :
                             vm'[p].pte[n].u = vm[q].pte[n].u
                             /\ vm'[p].pte[n].page # vm[q].pte[n].page]_vars

\* A process has exactly the pages below its size, after every success and failure
\* of sbrk(), fork() and exec(), and what argptr() and fetchint() accept is there.
AddressesMapped == TypeOK /\ SizeMapped /\ ArgumentsMapped
=============================================================================
