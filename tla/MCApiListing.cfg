SPECIFICATION Spec
CONSTANTS
  None = None
  Item <- MCItem
  Start <- MCStart
  Undecodable <- MCUndecodable
  PageSizes <- MCPageSizes
  Throttle = 1
  Limit = 2
  Window = 3
  Backoff = 2
  MaxRetries = 2
  ProviderLimit = 3
  ProviderWindow = 3
  MaxTime = 6
  MaxFaults = 1
  MaxChanges = 1
  MaxLists = 3
INVARIANTS
  UnderProviderLimit
  ListsWhatStays
CHECK_DEADLOCK FALSE
