SPECIFICATION Spec
CONSTANTS
  w1 = w1
  w2 = w2
  r1 = r1
  b1 = b1
  b2 = b2
  b3 = b3
  b4 = b4
  x = x
  nl = nl
  nul = nul
  NULL = NULL
  ZeroPtr = ZeroPtr
  Byte <- AllBytes
  NL = nl
  NUL = nul
  Garbage <- MisleadingGarbage
  MaxOps = 2
  MaxWriteSize = 3
  Procs <- WriterAndReader
  Writers <- OneWriter
  Readers <- OneReader
  Blocks <- ThreeBlocks
  WriteData <- AnyLines
  ReadCounts = {0, 2}
  Offsets <- Steps
  SeekOffsets = {0, 1}
  MaxPos = 3
SYMMETRY BlockSymmetry
INVARIANTS
  TypeOK
  HeapOwned
  LinesEndCommands
  WriteInBounds
  ReadsToTheEnd
  RingShape
  SeeksLand
PROPERTIES
  ErrorChangesNothing
  ImplementsCommandLog
