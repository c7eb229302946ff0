SPECIFICATION Spec
CONSTANTS
  Clients <- ThreeClients
  Main = Main
  Stamp = Stamp
  NULL = NULL
  MaxTicks = 2
  c1 = c1
  c2 = c2
  c3 = c3
INVARIANTS TypeOK OneUserOfFile
PROPERTIES ImplementsFileLog StuckForGood AllGetThrough
CHECK_DEADLOCK FALSE
