SPECIFICATION Spec
CONSTANTS
  c1 = c1
  c2 = c2
  c3 = c3
  NULL = NULL
  Clients <- ThreeClients
  Resetters <- NoClient
  MaxFds = 4
  MaySignal = FALSE
INVARIANTS
  OnlyMemoryLimits
CHECK_DEADLOCK FALSE
