SPECIFICATION FairSpec
CONSTANTS
  sync = sync
  async = async
  async2 = async2
  zero = zero
  one = one
  c1 = c1
  FrontEnd = {sync, async}
  Asynchronous = {async}
  Value = {zero, one}
  Default = zero
  Call = {c1}
  MaxExports = 2
  MaxNews = 2
INVARIANTS
  TypeOK
  BestProviderInUse
  ValuesArrive
  ListenersUpToDate
  CallsHaveAdapter
PROPERTIES
  ServiceFound
  CallsEnd
CHECK_DEADLOCK FALSE
