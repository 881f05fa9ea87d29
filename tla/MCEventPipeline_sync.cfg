SPECIFICATION Spec
CONSTANTS
  w1 = w1
  w2 = w2
  u1 = u1
  Webhooks <- MCWebhooks
  Users <- MCUsers
  MaxEvents = 1
  QueueCap = 2
  DequeueCount = 2
  MaxFaults = 0
PROPERTIES
  ResolvedOnNextSync
CHECK_DEADLOCK FALSE
