SPECIFICATION FairSpec
CONSTANTS
  b1 = b1  c1 = c1  c2 = c2
  h1 = h1  r1 = r1  r2 = r2  i1 = i1  i2 = i2
  Socket = {b1, c1}
  Session = {h1}
  Request = {}
  Id = {i1, i2}
  IdOf <- NoIds
  RoleOf <- ClientRoles
  Capabilities <- ScreenshotOnly
  Subscribes <- QuietSubscription
  Messages <- LogsAndShots
  AuthTimeout = 1
  StaleAfter = 1
  ShotLimit = 1
  WindowLength = 1
  WindowLimit = 2
  None = None
INVARIANTS SocketScreenshotsSpaced
PROPERTIES GuardWithinBounds SilentClientsLeave
