SPECIFICATION Spec
CONSTANTS
  None = None
  u1 = u1
  u2 = u2
  g1 = g1
  r1 = r1
  r2 = r2
  r3 = r3
  p1 = p1
  x1 = x1
  s1 = s1
  s2 = s2
  d1 = d1
  okta = okta
  aws = aws
  User <- MCUser
  Group <- MCGroup
  Role <- MCRole
  Permission <- MCPermission
  Resource <- MCResource
  Active = {u1}
  Admin = {r1, r2}
  EngineAdmin = {r1, r2, r3}
  Limit = 2
  Writer = {}
  AWS = {aws}
  SystemOf <- MCSystemOf
  Readable <- MCReadable
  Nameless = {u2}
  Sync = {s1, s2}
  Reader = {d1}
  Tables <- MCTables
  IqlQuery <- MCIqlQuery
  MaxRequests = 2
  MaxFaults = 1
  MaxInserts = 1
INVARIANTS
  TypeOK
  LastClearerRebuilds
  
SYMMETRY Symmetry
CHECK_DEADLOCK FALSE
