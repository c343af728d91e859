SPECIFICATION Spec
CONSTANTS
  w1 = w1
  w2 = w2
  Wrapper = {w1, w2}
  NoWrapper = NoWrapper
  Value = {0, 1}
  Default = 0
  Fields = 2
  Gadget <- Gadgets
  MaxLength = 2
SYMMETRY WrapperSymmetry
INVARIANTS
  TypeOK
  StructureFollows
  ElementsFollow
  HandlersCurrent
CHECK_DEADLOCK FALSE
