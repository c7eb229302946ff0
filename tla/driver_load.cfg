SPECIFICATION LifeSpec
CONSTANTS
  p1 = p1
  b1 = b1
  b2 = b2
  b3 = b3
  x = x
  nl = nl
  nul = nul
  NULL = NULL
  ZeroPtr = ZeroPtr
  Wild = Wild
  Byte <- AllBytes
  NL = nl
  NUL = nul
  Garbage <- SomeGarbage
  MaxOps = 2
  MaxWriteSize = 3
  Procs <- OneProcess
  Writers <- OneProcess
  Readers <- OneProcess
  Blocks <- ThreeBlocks
  WriteData <- SomeLines
  ReadCounts = {2}
  Offsets = {}
  SeekOffsets = {}
  MaxPos = 0
  MaxLoads = 3
SYMMETRY BlockSymmetry
INVARIANTS
  DeviceSoundWhenReachable
  BooksAgree
PROPERTIES
  UnloadIsClean
  FailedLoad
  ImplementsLoadedLog
CHECK_DEADLOCK FALSE
