CONSTANTS
  NPROC = 3
  CPUs = {c1}
  KillPids = {0, 2}
  InitOps = {"fork", "wait"}
  MaxPid = 3
  Free = Free
SPECIFICATION Spec
INVARIANTS KillsAProcess
