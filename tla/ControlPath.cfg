SPECIFICATION SystemSpec
CONSTANTS
  b1 = b1  c1 = c1  r1 = r1  r2 = r2  i1 = i1  i2 = i2  s0 = s0  s1 = s1  s2 = s2  s3 = s3
  Socket = {b1, c1}
  Session = {}
  Request = {r1, r2}
  Id = {i1, i2}
  IdOf <- UniqueIds
  RoleOf <- ClientRoles
  Capabilities <- ControlOnly
  Subscribes <- InfoSubscriptions
  Messages = {}
  AuthTimeout = 1
  StaleAfter = 1
  ShotLimit = 1
  WindowLength = 1
  WindowLimit = 0
  None = None
  Consumer = c1
  Sub = {s0, s1}
  First = s0
  SubOf <- InfoForAll
  Limit = 1
  MaxEvents = 1
CHECK_DEADLOCK FALSE
INVARIANTS WaitingHaveTimers
PROPERTIES CallsSpec CallsEnd
