SPECIFICATION Spec
CONSTANTS
  c1 = c1
  c2 = c2
  c3 = c3
  NULL = NULL
  Clients <- ThreeClients
  Resetters <- OneClient
  MaxFds = 4
  MaySignal = TRUE
INVARIANTS
  TypeOK
  DeviceHasOneUser
  NoUseAfterFree
  SocketOutlivesThread
  ThreadsListedOnce
  ExitLosesNoWork
CHECK_DEADLOCK FALSE
