CONSTANTS
  g1 = g1
  g2 = g2
  r1 = r1
  r2 = r2
  r3 = r3
  None = None
  Sender = {s1}
  Receiver = {r1, r2, r3}
  Type = {A}
  Group = {g1, g2}
  Request <- Both
  Offset = "earliest"
  Methods = {"sync"}
  MaxMsg = 2
  MaxList = 1
  MaxCrash = 1
  MaxMoves = 1
SPECIFICATION FairSpec
INVARIANT AckedIsHandled
INVARIANT AtMostOneLostPerCrash
PROPERTY AllHandled
CHECK_DEADLOCK FALSE
