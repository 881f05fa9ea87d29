SPECIFICATION Spec
CONSTANTS
  p1 = p1
  p2 = p2
  Process <- MCOneProcess
  Connector <- MCOkta
  MaxFaults = 1
INVARIANTS
  OrderlyEndIsLogged
CHECK_DEADLOCK FALSE
