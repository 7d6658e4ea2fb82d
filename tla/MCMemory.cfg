CONSTANTS
  Proc = {p1, p2}
  Initproc = p1
  NPage = 13
  PGSIZE = 2
  NPTENTRIES = 2
  KERNBASE = 8
  AddrMod = 16
  NKPT = 1
  Program <- MCProgram
  SbrkArg <- MCSbrkArg
  ArgLen = {1, 3}
  None = None
SPECIFICATION Spec
INVARIANTS PagesConserved AddressesMapped
PROPERTY ChildIsCopy
CHECK_DEADLOCK FALSE
