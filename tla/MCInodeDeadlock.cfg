CONSTANTS
  p1 = p1
  p2 = p2
  Procs = {p1, p2}
  NInodes = 3
  NINODE = 3
  Names = {"a", "b"}
  Calls <- Mixed
  MaxLost = 1
  MaxLinks = 2
  Free = Free
SPECIFICATION Spec
VIEW View
INVARIANT NoDeadlock
CHECK_DEADLOCK FALSE
