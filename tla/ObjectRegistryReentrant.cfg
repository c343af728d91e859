SPECIFICATION ReentrantSpec
CONSTANTS
  p1 = p1
  p2 = p2
  x = x
  y = y
  Proc = {p1, p2}
  NoProc = NoProc
  Path = {x, y}
  Serves <- OneEach
  Synchronous = {}
  Called = {}
  MaxVersion = 6
  MaxSignals = 2
  MaxRequests = 2
INVARIANTS
  ReplicasIdentifyServers
