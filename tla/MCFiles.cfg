SPECIFICATION Spec
CONSTANTS
  p1 = p1
  p2 = p2
  Proc = {p1, p2}
  initproc = p1
  BSIZE = 2
  NDIRECT = 2
  Data <- MCData
  BitmapBlock = 100
  InodeBlock = 101
  MAXOPBLOCKS = 6
  NFILE = 3
  NOFILE = 2
  Inum = {1, 2}
  PipePage = {1}
  OpenMode <- MCOpenMode
  ReadLen = {1}
  WriteLen = {6}
  Fill <- MCFill
  MaxCalls = 6
INVARIANTS TableExact ContentsSound TransactionFits
PROPERTY ImplementsOpenFiles

CHECK_DEADLOCK FALSE
