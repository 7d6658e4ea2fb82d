SPECIFICATION RoutinesSpec
INVARIANT EncodesInput
CONSTANTS
  INTBITS = 8
  ReadSeq <- HighByte
  Suffix = {}
  Letters = 3
  ChmodArg = {}
  WcText = {}
  WcBuf = 2
  MemSize = 0
  CopyText = {}
  Elf = {}
  Sector = 3
CHECK_DEADLOCK FALSE
