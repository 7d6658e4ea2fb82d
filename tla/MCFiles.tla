------------------------------- MODULE MCFiles -------------------------------
(***************************************************************************)
(* Two processes, two descriptors each, three slots, two files of at most  *)
(* four blocks of two bytes, and one page for pipes.                       *)
(***************************************************************************)
EXTENDS Files
CONSTANTS p1, p2

MCData == 1 .. 6
MCOpenMode == {[wronly |-> FALSE, rdwr |-> TRUE]}
MCFill == (p1 :> 1) @@ (p2 :> 2)
=============================================================================
