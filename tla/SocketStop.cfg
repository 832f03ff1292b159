SPECIFICATION Spec
CONSTANTS
  Sock = {s1, s2}
  Platform = "node"
  BufferLimit = 1
  HbInterval = 1
  HbTimeout = 2
  InitialDelay = 1
  MaxDelay = 2
  MaxEvents = 0
  None = None
SYMMETRY Symmetry
PROPERTY StoppedStaysStopped
