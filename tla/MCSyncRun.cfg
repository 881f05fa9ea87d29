SPECIFICATION FairSpec
CONSTANTS
  p1 = p1
  p2 = p2
  Process <- MCProcess
  Connector <- MCConnector
  MaxFaults = 2
INVARIANTS
  TypeOK
  StatusTellsTruth
  StuckIsExplained
PROPERTIES
  HealthRecovers
  RunsClose
CHECK_DEADLOCK FALSE
