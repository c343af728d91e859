SPECIFICATION Spec
CONSTANTS
  a = a
  b = b
  Value = {a, b}
  Placeholder = Placeholder
  Unread = Unread
  PrefetchCount = 1
  Capacity = 3
  InitialRows <- MCThreeRows
  MaxRows = 3
  MaxChanges = 1
  MaxShown = 1
  MaxInbox = 1
  MaxRequests = 1
INVARIANTS
  InvalidItemsReminded
CHECK_DEADLOCK FALSE
