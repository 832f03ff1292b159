SPECIFICATION FairSpec
CONSTANTS
  a1 = a1
  Caller = {a1}
  MaxConns = 2
  MaxEvents = 3
  BufferLimit = 2
  None = None
CHECK_DEADLOCK FALSE
INVARIANTS TypeOK Accounted FlushInOrder OneReader
PROPERTIES RunGoesOn
