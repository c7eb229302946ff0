SPECIFICATION Spec
CONSTANTS
  first = first
  second = second
  third = third
  hello = hello
  Procs <- ThreeProcs
  First = first
  Lines <- OneLine
  ExitCodes = {0, 1}
  MaxCalls = 2
INVARIANTS
  TypeOK
  TrueMeansRan
  PrintedOnce
  NoZombieLeft
PROPERTIES
  SecondCallerByDup2
  CallEnds
CHECK_DEADLOCK FALSE
