SPECIFICATION Spec
CONSTANTS
  c1 = c1
  c2 = c2
  x = x
  y = y
  ready = ready
  Client = {c1, c2}
  Async = {c1}
  Plain = {x}
  Lazy = {ready}
  Writable = {x}
  Value = {0, 1}
  Default = 0
  MaxInbox = 3
  MaxCalls = 1
  MaxEvents = 1
INVARIANTS
  TypeOK
  AvailabilityFollows
  ValuesAgree
  ListenersUpToDate
  SignalsFollowValues
