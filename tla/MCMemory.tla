------------------------------ MODULE MCMemory ------------------------------
(* An instance of Memory: four user pages and two user page tables, and so   *)
(* few physical pages that every kalloc() can fail.                          *)
EXTENDS Memory

MCSbrkArg == {1, 4, -1, -2, -3}

Seg(v, m, f, ok) == [vaddr |-> v, memsz |-> m, filesz |-> f, ok |-> ok]

\* A program that fits, and ones that do not: too large with its stack, a second
\* segment that lies lower and is not aligned, one that cannot be read, and one
\* whose end wraps.
MCProgram == { << Seg(0, 1, 1, TRUE) >>,
               << Seg(0, 5, 2, TRUE) >>,
               << Seg(2, 1, 1, TRUE), Seg(1, 1, 1, TRUE) >>,
               << Seg(0, 1, 1, TRUE), Seg(2, 1, 1, FALSE) >>,
               << Seg(14, 3, 0, TRUE) >> }
=============================================================================
