CONSTANTS
  Proc = {p1, p2, p3}
  None = None
  Sleep = 2
  Delta = 1
  Duration <- MCDuration
  D = 4
  Short = {}
  ShortD = 0
  Unlockers = {}
  Forcers = {}
  Faulty = {p1, p2}
  Backends = {"consul"}
SPECIFICATION Spec
INVARIANT MutualExclusion
INVARIANT LockInv
PROPERTY LeaseLockSpec
