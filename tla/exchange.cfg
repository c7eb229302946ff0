SPECIFICATION ServerSpec
CONSTANTS
  c1 = c1
  c2 = c2
  c3 = c3
  o1 = o1
  b1 = b1
  b2 = b2
  b3 = b3
  x = x
  nl = nl
  nul = nul
  sk = sk
  co = co
  NULL = NULL
  ZeroPtr = ZeroPtr
  Byte <- AllBytes
  NL = nl
  NUL = nul
  SEEK = sk
  COMMA = co
  Garbage <- SomeGarbage
  MaxOps = 2
  MaxWriteSize = 4
  Clients <- ThreeClients
  Procs <- ThreeClients
  Writers <- ThreeClients
  Readers <- Nobody
  Blocks <- ThreeBlocks
  WriteData <- Written
  ReadCounts = {}
  Offsets = {}
  SeekOffsets = {0, 1}
  MaxPos = 0
  Sends <- SomeSends
  FSIZE = 7
SYMMETRY Symmetry
INVARIANTS
  ServerTypeOK
  EchoFits
  RepliesWhole
PROPERTIES
  ImplementsLineService
  ServerKeepsLog
CHECK_DEADLOCK FALSE
