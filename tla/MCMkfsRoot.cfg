SPECIFICATION MkfsSpec
CONSTANTS
  BSIZE = 2
  NDIRECT = 2
  nmeta = 3
  FSSIZE = 24
  NINODES = 5
  HostFiles <- FewFiles
INVARIANT RootReadable
CHECK_DEADLOCK FALSE
