CONSTANTS
  Call = {c1, c2, c3, c4}
  None = None
  Failures = 2
SPECIFICATION Spec
INVARIANT CreatedOnce
PROPERTY ReturnsIfCreated
CHECK_DEADLOCK FALSE
