------------------------------ MODULE OpenFiles ------------------------------
(***************************************************************************)
(* What the file system calls promise about contents: a file is a sequence *)
(* of bytes, an open file is a position in one, reads and writes happen at *)
(* the position and move it, and a file that is open keeps its contents.   *)
(***************************************************************************)
EXTENDS Integers, Sequences

CONSTANTS File, Inum, Byte, MaxSize
VARIABLES contents,   \* the bytes of each file
          open        \* for each open file: which file, at which offset

Closed == [ino |-> 0, off |-> 0]
Init ==
  /\ contents = [i \in Inum |-> << >>]
  /\ open = [f \in File |-> Closed]

Open(f) ==
  /\ open[f] = Closed
  /\ \E i \in Inum : open' = [open EXCEPT ![f] = [ino |-> i, off |-> 0]]
  /\ UNCHANGED contents

Close(f) ==
  /\ open[f] # Closed
  /\ open' = [open EXCEPT ![f] = Closed]
  /\ UNCHANGED contents

Read(f) ==
  /\ open[f] # Closed
  /\ \E e \in open[f].off .. Len(contents[open[f].ino]) : open' = [open EXCEPT ![f].off = e]
  /\ UNCHANGED contents

\* n bytes at the offset, over what is there and beyond the end.
Write(f) ==
  LET i == open[f].ino
      o == open[f].off
      old == contents[i]
  IN /\ open[f] # Closed
     /\ \E n \in 1 .. MaxSize - o, v \in Byte :
          /\ contents' = [contents EXCEPT ![i] =
               [k \in 1 .. IF o + n > Len(old) THEN o + n ELSE Len(old) |->
                  IF k > o /\ k <= o + n THEN v ELSE old[k]]]
          /\ open' = [open EXCEPT ![f].off = o + n]

\* Only a file nobody has open loses its contents.
Delete(i) ==
  /\ \A f \in File : open[f].ino # i
  /\ contents' = [contents EXCEPT ![i] = << >>]
  /\ UNCHANGED open

Next == \/ \E f \in File : Open(f) \/ Close(f) \/ Read(f) \/ Write(f)
        \/ \E i \in Inum : Delete(i)
Spec == Init /\ [][Next]_<<contents, open>>
=============================================================================
