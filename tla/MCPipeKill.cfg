CONSTANTS
  Procs = {p1, p2}
  Readers = {p1, p2}
  Writers = {p1, p2}
  Bytes = {0}
  PIPESIZE = 2
  UintRange = 4
  MaxBytes = 3
  Free = Free
SPECIFICATION FairSpec
PROPERTY KilledReturns
CHECK_DEADLOCK FALSE
