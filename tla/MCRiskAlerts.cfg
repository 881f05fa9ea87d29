SPECIFICATION FairSpec
CONSTANTS
  None = None
  i1 = i1
  a1 = a1
  a2 = a2
  e1 = e1
  e2 = e2
  l1 = l1
  Identity <- MCIdentity
  Assess <- MCAssess
  Emit <- MCEmit
  List <- MCList
  Facts <- MCFacts
  Connectors = 1
  MaxConns = 2
  Hour = 0
  Window = 1
  MaxArrivals = 3
  MaxTime = 1
  MaxFaults = 1
INVARIANTS
  TypeOK
  ScoreMatchesFlags
  FlagsTellTheFacts
PROPERTIES
  OneAlertPerWindow
  RequestsEnd
CHECK_DEADLOCK FALSE
