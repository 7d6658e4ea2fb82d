SPECIFICATION Spec
CONSTANTS
  ParseLine <- MCParseLine
  RunLine <- MCRunLine
  ShPid = {1, 2, 3, 4, 5, 6, 7}
  MAXARGS = 10
  HEADER = 8
  MORECORE = 4
  HeapTop = 14
  Request = {8, 9, 33}
  SbrkUnits = {1}
  BSIZE = 2
  NDIRECT = 2
  nmeta = 3
  FSSIZE = 24
  NINODES = 5
  HostFiles <- MCHostFiles
  BUFSIZE = 5
  GrepJob <- MCGrepJob
  DIRSIZ = 2
  DirInum = {1, 2, 3}
  FileInum = {4}
  Path <- MCPath
  Junk = {"a", "nul"}
  Device = {"kbd", "cga", "nap"}
  Key = {"lshift", "rctl", "home", "caps", "a"}
  MaxWire = 4
  ROWS = 4
  COLS = 3
  TickMod = 16
  SleepArg <- MCSleepArg
  MaxLag = 3
  INTBITS = 8
  ReadSeq <- MCReadSeq
  Suffix <- MCSuffix
  Letters = 3
  ChmodArg <- MCChmodArg
  WcText <- MCWcText
  WcBuf = 2
  MemSize = 5
  CopyText <- MCCopyText
  Elf <- MCElf
  Sector = 3
  Reader = {p1, p2}
  Killable = {p2}
  INPUT_BUF = 3
  Laps = 2
  MaxRead = 2
INVARIANTS ParsedRight RunsAsWritten HeapSound ImageReadable LinesRight NamesRight DevicesRight RoutinesRight InputSound
PROPERTIES ImplementsTerminal InputIsRead
CHECK_DEADLOCK FALSE
