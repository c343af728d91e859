SPECIFICATION FairSpec
CONSTANTS
  a = a
  b = b
  Value = {a, b}
  Placeholder = Placeholder
  Unread = Unread
  PrefetchCount = 1
  Capacity = 3
  InitialRows <- MCTwoRows
  MaxRows = 4
  MaxChanges = 2
  MaxShown = 1
  MaxInbox = 2
  MaxRequests = 2
INVARIANTS
  TypeOK
  RowsAgree
  CacheIsCurrent
  RequestsAnswered
PROPERTIES
  RowsArrive
CHECK_DEADLOCK FALSE
