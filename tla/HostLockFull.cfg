SPECIFICATION EnsureHistorySpec
CONSTANTS
  Proc = {p1, p2}
  w1 = w1
  w2 = w2
  Workspace = {w1}
  WorkspaceOf <- OneWorkspace
  Port = {1, 2}
  StaleTicks = 1
  NoFile = NoFile
  Torn = Torn
  None = None
  Client = {c1}
  HomeOf <- ClientsAtHome
INVARIANTS TypeOK ConfigOfOneHost
PROPERTY HostKeepsLock
PROPERTY CompleteLockReclaimable
