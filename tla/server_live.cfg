SPECIFICATION PatientSpec
CONSTANTS
  c1 = c1
  c2 = c2
  c3 = c3
  NULL = NULL
  Clients <- TwoClients
  Resetters <- NoClient
  MaxFds = 4
  MaySignal = TRUE
PROPERTIES
  ClientsServed
  StopEndsUnlessSpinning
CHECK_DEADLOCK FALSE
