SPECIFICATION Spec
CONSTANTS
  w1 = w1
  w2 = w2
  u1 = u1
  Webhooks <- MCWebhooks
  Users <- MCUsers
  MaxEvents = 2
  QueueCap = 2
  DequeueCount = 2
  MaxFaults = 1
INVARIANTS
  TypeOK
  AckedIsStored
  StoredInOrder
  FreshResolution
CHECK_DEADLOCK FALSE
PROPERTIES
  ImplementsEventDelivery
  QueuesDrain
