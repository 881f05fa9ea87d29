SPECIFICATION Spec
CONSTANTS
  a1 = a1
  h1 = h1
  h2 = h2
  h3 = h3
  Actions <- MCActions
  Handlers <- MCHandlers
  ActionTypes <- MCActionTypes
  KnownTypes <- MCKnownTypes
  SlackConfigured = TRUE
  MaxFaults = 1
INVARIANTS
  TypeOK
  ApprovalGate
  HistoryIsEarned
  SettledWhenQuiet
PROPERTIES
  DecisionStands
  ApiApprovalExecutes
CHECK_DEADLOCK FALSE
