SPECIFICATION Spec
CONSTANTS
  b1 = b1  b2 = b2  b3 = b3  r1 = r1  r2 = r2
  Bridge = {b1, b2, b3}
  Navigating = {b1, b2}
  Networking = {b1, b2, b3}
  Request = {r1}
  Own <- OwnRequest
  Url = {u1, u2}
  MaxArriving = 1
CHECK_DEADLOCK FALSE
INVARIANTS TypeOK CapturesConnected SinksExact ReportedExactly NavigationCaughtUp
PROPERTY NodeSilentAfterStop
