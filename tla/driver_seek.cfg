SPECIFICATION Spec
CONSTANTS
  w1 = w1
  w2 = w2
  r1 = r1
  b1 = b1
  b2 = b2
  b3 = b3
  b4 = b4
  x = x
  nl = nl
  nul = nul
  NULL = NULL
  ZeroPtr = ZeroPtr
  Byte <- AllBytes
  NL = nl
  NUL = nul
  Garbage <- MisleadingGarbage
  MaxOps = 3
  MaxWriteSize = 3
  Procs <- OneWriter
  Writers <- OneWriter
  Readers <- OneWriter
  Blocks <- FourBlocks
  WriteData <- TwoLines
  ReadCounts = {}
  Offsets = {}
  SeekOffsets = {0, 1}
  MaxPos = 0
SYMMETRY BlockSymmetry
INVARIANTS
  SeekToNamesCommand
