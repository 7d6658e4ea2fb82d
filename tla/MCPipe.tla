------------------------------- MODULE MCPipe -------------------------------
(* Instances of Pipe. *)
EXTENDS Pipe, TLC

Perms == Permutations(Procs)
=============================================================================
