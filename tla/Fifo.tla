-------------------------------- MODULE Fifo --------------------------------
(* What a pipe promises: bytes come out once and in the order they went in,  *)
(* at most Size of them wait in it, and an end that was closed is not used   *)
(* again.                                                                    *)
EXTENDS Sequences, Naturals

CONSTANTS Bytes, Size

VARIABLES queue, ends
fvars == <<queue, ends>>

FInit == queue = <<>> /\ ends = {"read", "write"}

Put == /\ "write" \in ends /\ Len(queue) < Size
       /\ \E b \in Bytes : queue' = Append(queue, b)
       /\ UNCHANGED ends

Get == /\ "read" \in ends /\ queue # <<>>
       /\ queue' = Tail(queue)
       /\ UNCHANGED ends

Close == /\ \E e \in ends : ends' = ends \ {e}
         /\ UNCHANGED queue

FNext == Put \/ Get \/ Close
FSpec == FInit /\ [][FNext]_fvars
=============================================================================
