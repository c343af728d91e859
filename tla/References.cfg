SPECIFICATION FairSpec
CONSTANTS
  c1 = c1
  a1 = a1
  a2 = a2
  Client = {c1}
  Address = {a1, a2}
  Null = Null
  MaxObjects = 3
  MaxMessages = 1
INVARIANTS
  TypeOK
  ReferencesAgree
PROPERTIES
  ReferencesReachable
