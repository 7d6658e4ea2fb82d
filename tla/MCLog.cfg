SPECIFICATION FairSpec
CONSTANTS
  Procs = {p1, p2}
  Blocks = {b1, b2, b3}
  Vals = {0, 1}
  Zero = 0
  NotCached = NotCached
  NoBlock = NoBlock
  MAXOPBLOCKS = 2
  LOGSIZE = 4
  nlog = 4
  OPBLOCKS = 1
INVARIANTS LogSafe LogSpace
PROPERTIES ImplementsAtomicDisk WaiterWoken
