SPECIFICATION Spec
CONSTANTS
  sync = sync
  async = async
  async2 = async2
  zero = zero
  one = one
  c1 = c1
  FrontEnd = {async, async2}
  Asynchronous = {async, async2}
  Value = {zero, one}
  Default = zero
  Call = {}
  MaxExports = 1
  MaxNews = 1
INVARIANTS
  SignalsCarryValues
CHECK_DEADLOCK FALSE
