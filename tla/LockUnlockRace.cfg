CONSTANTS
  Proc = {p1, p2}
  None = None
  Sleep = 2
  Delta = 1
  Duration <- MCDuration
  D = 6
  Short = {}
  ShortD = 0
  Unlockers = {p1}
  Forcers = {}
  Faulty = {}
  Backends = {"consul"}
SPECIFICATION Spec
INVARIANT MutualExclusion
