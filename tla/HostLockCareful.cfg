SPECIFICATION CarefulEnsureSpec
CONSTANTS
  Proc = {p1, p2, p3}
  w1 = w1
  w2 = w2
  Workspace = {w1}
  WorkspaceOf <- OneWorkspace
  Port = {1, 2}
  StaleTicks = 2
  NoFile = NoFile
  Torn = Torn
  None = None
  Client = {c1}
  HomeOf <- ClientsAtHome
SYMMETRY Symmetry
INVARIANT SingleHost
INVARIANT LockNamesHost
INVARIANT MetadataLeadsToHost
INVARIANT SecretOutlivesHost
