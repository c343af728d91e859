SPECIFICATION FairSpec
CONSTANTS
  a = a
  b = b
  c = c
  Property = {a, b, c}
  Inputs <- MCInputs
  Result <- MCResult
  Flagged = {b}
  MaxValue = 2
  Reactions <- MCReactions
  MaxDepth = 8
INVARIANTS
  TypeOK
  BindingsHold
  ListenersCurrent
  GetterPresent
PROPERTIES
  Settles
CHECK_DEADLOCK FALSE
