SPECIFICATION Spec
CONSTANTS
  b1 = b1  c1 = c1  c2 = c2
  h1 = h1  r1 = r1  r2 = r2  i1 = i1  i2 = i2
  Socket = {b1, c1}
  Session = {h1}
  Request = {r1, r2}
  Id = {i1, i2}
  IdOf <- UniqueIds
  RoleOf <- ClientRoles
  Capabilities <- ControlOrNothing
  Subscribes <- InfoSubscription
  Messages <- NoMessages
  AuthTimeout = 1
  StaleAfter = 1
  ShotLimit = 1
  WindowLength = 1
  WindowLimit = 0
  None = None
INVARIANTS TypeOK MembersConnected PendingRepliesConnected RoundTrip PolledOnce
