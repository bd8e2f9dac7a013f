SPECIFICATION LexSpec
CONSTANTS
  Inputs <- MCInputs
  Characters <- MCCharacters
INVARIANTS
  LostTextIsAskedFor
  MinusFollowsOperand
PROPERTIES
  ScanAdvances
CHECK_DEADLOCK FALSE
