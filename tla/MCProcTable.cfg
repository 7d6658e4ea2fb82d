CONSTANTS
  NPROC = 3
  CPUs = {c1, c2}
  KillPids = {0, 1, 2, 3}
  InitOps = {"fork", "wait", "exit"}
  MaxPid = 3
  Free = Free
SPECIFICATION Spec
SYMMETRY Perms
INVARIANTS StackExclusive FamilySound
PROPERTY ZombieUntilWait
