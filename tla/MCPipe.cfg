CONSTANTS
  Procs = {p1, p2}
  Readers = {p1, p2}
  Writers = {p1, p2}
  Bytes = {0, 1}
  PIPESIZE = 2
  UintRange = 4
  MaxBytes = 3
  Free = Free
SPECIFICATION FairSpec
INVARIANTS SleepersMustWait PipeSound
PROPERTIES ImplementsFifo CallsReturn
CHECK_DEADLOCK FALSE
