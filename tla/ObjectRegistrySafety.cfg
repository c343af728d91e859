SPECIFICATION Spec
CONSTANTS
  p1 = p1
  p2 = p2
  p3 = p3
  x = x
  y = y
  Proc = {p1, p2, p3}
  NoProc = NoProc
  Path = {y}
  Serves <- OnePath
  Synchronous = {p2}
  Called = {p2}
  MaxVersion = 4
  MaxSignals = 2
  MaxRequests = 2
INVARIANTS
  TypeOK
  Agreement
  AcceptedSignalsApply
  EntriesBacked
  NoSelfCollision
PROPERTIES
  RefinesRegistryView
CHECK_DEADLOCK FALSE
