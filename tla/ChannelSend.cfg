CONSTANTS
  g1 = g1
  g2 = g2
  r1 = r1
  r2 = r2
  r3 = r3
  None = None
  Sender = {s1, s2}
  Receiver = {}
  Type = {A, B}
  Group = {g1}
  Request <- NoRequest
  Offset = "earliest"
  Methods = {"sync", "async"}
  MaxMsg = 4
  MaxList = 3
  MaxCrash = 1
  MaxMoves = 0
SYMMETRY Symmetry
SPECIFICATION Spec
INVARIANT SyncSendDurable
CHECK_DEADLOCK FALSE
