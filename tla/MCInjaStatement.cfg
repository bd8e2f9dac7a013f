SPECIFICATION Spec
CONSTANTS
  b1 = b1
  b2 = b2
  BlockNames = {b1, b2}
  MaxNodes = 5
SYMMETRY Symmetry
INVARIANTS
  NothingIntoClosedBlocks
  AcceptedOfOneKindNests
PROPERTIES
  ImplementsNesting
CHECK_DEADLOCK FALSE
