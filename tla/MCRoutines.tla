----------------------------- MODULE MCRoutines -----------------------------
(***************************************************************************)
(* Inputs for Routines: small ones for every routine, and the example      *)
(* `echo test | base64` of src/README.md with every way the five           *)
(* characters can arrive at the reader.                                    *)
(***************************************************************************)
EXTENDS Routines

UpTo(n, S) == UNION {[1 .. k -> S] : k \in 0 .. n}

OneRead(S) == UpTo(3, S) \ {<< >>}
MCReadSeq == UpTo(1, OneRead({0, 5, 127, 128, 255})) \cup UpTo(2, OneRead({77, 200})) \cup UpTo(3, OneRead({77}))
MCSuffix == UpTo(4, 0 .. 2)
MCChmodArg == UpTo(4, {0, 1, 6, 7, 8, Letter0})
MCWcText == UpTo(6, Space \cup {"a"})
MCCopyText == UpTo(4, {"a", "b"})
Ph(paddr, off, filesz, bss) == [paddr |-> paddr, off |-> off, filesz |-> filesz, memsz |-> filesz + bss]
MCElf ==
  {[img |-> [i \in 0 .. 15 |-> i + 1], mem |-> [i \in 0 .. 17 |-> 99], ph |-> <<p, q>>] :
     p \in {Ph(3, off, n, b) : off \in 0 .. 2, n \in {0, 3, 4}, b \in {0, 2}},
     q \in {Ph(a, off, n, b) : a \in 5 .. 9, off \in 4 .. 6, n \in {0, 2, 4}, b \in 0 .. 1}}

EchoTest == <<116, 101, 115, 116, 10>>
CutAt(s, ends) == [k \in 1 .. Len(ends) - 1 |-> SubSeq(s, ends[k] + 1, ends[k + 1])]
EchoReads ==
  {reads \in {CutAt(EchoTest, SetToSortSeq({0, 5} \cup C, <)) : C \in SUBSET (1 .. 4)} :
     \A i \in 1 .. Len(reads) : Len(reads[i]) <= 3}

\* A file of two bytes, the second above 127.
HighByte == {<< <<77, 200>> >>}
=============================================================================
