SPECIFICATION Spec
CONSTANTS
  Proc = {p1, p2}
  w1 = w1
  w2 = w2
  Workspace = {w1}
  WorkspaceOf <- OneWorkspace
  Port = {1, 2}
  StaleTicks = 2
  NoFile = NoFile
  Torn = Torn
  None = None
SYMMETRY Symmetry
INVARIANT SingleHost
