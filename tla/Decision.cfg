CONSTANTS
  r1 = r1
  r2 = r2
  Monitor = {m1, m2}
  Resource = {r1, r2}
  Group <- Groups
  Like <- Nested
  None = None
  Key <- Keys
  MaxAlerts = 2
  MaxCalls = 2
  MaxFaults = 1
SYMMETRY Symmetry
SPECIFICATION Spec
INVARIANT FailedAnswerTrue
INVARIANT FineAnswerTrue
INVARIANT AckClears
PROPERTY AckKeepsFailure
CHECK_DEADLOCK FALSE
