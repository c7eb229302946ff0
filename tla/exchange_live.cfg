SPECIFICATION ServerSpec
CONSTANTS
  c1 = c1
  c2 = c2
  c3 = c3
  o1 = o1
  b1 = b1
  b2 = b2
  b3 = b3
  x = x
  nl = nl
  nul = nul
  sk = sk
  co = co
  NULL = NULL
  ZeroPtr = ZeroPtr
  Byte <- AllBytes
  NL = nl
  NUL = nul
  SEEK = sk
  COMMA = co
  Garbage <- SomeGarbage
  MaxOps = 1
  MaxWriteSize = 2
  Clients <- TwoClients
  Procs <- Everybody
  Writers <- Everybody
  Readers <- Nobody
  Blocks <- OneBlock
  WriteData <- OneLine
  ReadCounts = {}
  Offsets = {}
  SeekOffsets = {}
  MaxPos = 0
  Sends <- OneLine
  FSIZE = 2
PROPERTIES
  ClientsAnswered
  CallReturns
CHECK_DEADLOCK FALSE
