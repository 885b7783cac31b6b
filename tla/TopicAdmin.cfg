CONSTANTS
  th1 = th1
  th2 = th2
  pr1 = pr1
  pr2 = pr2
  Thread = {th1, th2}
  Process = {pr1, pr2}
  Home <- TwoProcesses
  Topic = {A, B}
  ClientId = {c1}
  None = None
  Default = 7
  Expiries = {3}
  MaxTries = 2
  MaxPolls = 1
  MaxParts = 2
  MaxFaults = 1
  KnownTypes = TRUE
SYMMETRY Symmetry
SPECIFICATION Spec
INVARIANT RestoredAfterDelete
PROPERTY EndsRestored
