\* Two handles and a C variable; matrices of one element.
SPECIFICATION Spec
CONSTANTS
  Handles = {h1, h2}
  CVariables = {x1}
  Size = 1
  Texts = {"s"}
  MaxBlocks = 4
INVARIANTS
  CountsAreHandles
  OwnedOnce
PROPERTY OthersUnchanged
CHECK_DEADLOCK FALSE
SYMMETRY HandleSymmetry
