SPECIFICATION FairSpec
CONSTANTS
  p1 = p1
  p2 = p2
  p3 = p3
  x = x
  y = y
  Proc = {p1, p2}
  NoProc = NoProc
  Path = {x, y}
  Serves <- Shared
  Synchronous = {p2}
  Called = {p2}
  MaxVersion = 5
  MaxSignals = 3
  MaxRequests = 2
PROPERTIES
  SyncObjectsReturns
  EntriesBecomeKnown
  ServedGetRegistered
CHECK_DEADLOCK FALSE
