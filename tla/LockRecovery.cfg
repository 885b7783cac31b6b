CONSTANTS
  Proc = {p1, p2, p3}
  None = None
  Sleep = 1
  Delta = 1
  Duration <- MCDuration
  D = 2
  Short = {}
  ShortD = 0
  Unlockers = {p1, p2}
  Forcers = {p1}
  Faulty = {p1, p3}
  Backends = {"consul", "dir"}
SPECIFICATION FairSpec
PROPERTY Recovers
