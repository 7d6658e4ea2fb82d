------------------------------- MODULE MCProc -------------------------------
(* Instances of Proc: two CPUs for the safety properties, one CPU (no        *)
(* contention for ptable.lock) for the liveness properties.                  *)
EXTENDS Proc, TLC

Perms == Permutations(CPUs)
=============================================================================
