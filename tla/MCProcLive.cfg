CONSTANTS
  NPROC = 3
  CPUs = {c1}
  KillPids = {3}
  InitOps = {"fork", "wait"}
  MaxPid = 3
  Free = Free
SPECIFICATION FairSpec
PROPERTIES KilledExits ReadyRuns InheritedReaped
