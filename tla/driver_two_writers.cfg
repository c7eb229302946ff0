SPECIFICATION Spec
CONSTANTS
  w1 = w1
  w2 = w2
  r1 = r1
  b1 = b1
  b2 = b2
  b3 = b3
  b4 = b4
  x = x
  nl = nl
  nul = nul
  NULL = NULL
  ZeroPtr = ZeroPtr
  Byte <- AllBytes
  NL = nl
  NUL = nul
  Garbage <- MisleadingGarbage
  MaxOps = 2
  MaxWriteSize = 4
  Procs <- TwoWriters
  Writers <- TwoWriters
  Readers <- Nobody
  Blocks <- ThreeBlocks
  WriteData <- Fragments
  ReadCounts = {}
  Offsets = {}
  SeekOffsets = {}
  MaxPos = 0
SYMMETRY BlockSymmetry
INVARIANTS
  WriteCountFresh
