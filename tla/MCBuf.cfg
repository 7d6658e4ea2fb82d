CONSTANTS
  Procs = {p1, p2}
  NBUF = 2
  Blocks = {n1, n2, n3}
  Vals = {v1, v2}
  Zero = v1
  MaxPinned = 1
  None = None
SPECIFICATION FairSpec
INVARIANTS BuffersExact NoneForgotten
PROPERTY IoFinishes
CHECK_DEADLOCK FALSE
