\* The operation stack overflows, by one call more than it holds.
SPECIFICATION CSpec
CONSTANTS
  t1 = t1  t2 = t2  p1 = p1  p2 = p2  f1 = f1  o1 = o1  r1 = r1  r2 = r2
  Null = Null
  Thread <- MCThread
  Point <- MCPoint
  FaultSpecs <- MCFaultSpecs
  InitSize = 1
  MaxHits = 3
  FnTag <- MCFnTag
  TraceDepth = 3
  MaxTraced = 5
  OpDepth = 3
  MaxNest = 4
  MaxOpCalls = 7
  Starter <- MCStarter
  Fid <- MCFid
  Obj <- MCObj
  MotrKey <- MCMotrKey
  MotrPrefix <- MCMotrPrefix
  MaxWrites = 3
  Request <- MCRequest
  Controllers <- MCControllers
  Matches <- MCMatches
  Apis <- MCApis
  Methods = {"GET", "PUT"}
  MaxLength = 2
INVARIANTS
  TriggersAsSpecified
  OneStatePerPoint
  OperationsNamed
  MotrServes
  AnsweredOnce
CHECK_DEADLOCK FALSE
