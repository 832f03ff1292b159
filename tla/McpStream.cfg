SPECIFICATION SystemSpec
CONSTANTS
  b1 = b1  c1 = c1  r1 = r1  r2 = r2  i1 = i1  i2 = i2  s0 = s0  s1 = s1  s2 = s2  s3 = s3
  Socket = {b1, c1}
  Session = {}
  Request = {}
  Id = {i1}
  IdOf <- NoIds
  RoleOf <- ClientRoles
  Capabilities <- ControlOnly
  Subscribes <- InfoSubscriptions
  Messages <- Infos
  AuthTimeout = 1
  StaleAfter = 1
  ShotLimit = 1
  WindowLength = 1
  WindowLimit = 0
  None = None
  Consumer = c1
  Sub = {s0, s1, s2, s3}
  First = s0
  SubOf <- InfoForAll
  Limit = 2
  MaxEvents = 3
INVARIANTS AckIsOwn BufferHoldsLatest
CHECK_DEADLOCK FALSE
