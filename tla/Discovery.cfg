SPECIFICATION Spec
CONSTANTS
  r1 = r1
  r2 = r2
  Request <- MCRequest
  Url <- MCUrl
  Parts <- MCParts
  Asked = {r1}
  Caller = Caller
  None = None
INVARIANT SuccessHasParts
PROPERTY Settles
CHECK_DEADLOCK FALSE
