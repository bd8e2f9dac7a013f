SPECIFICATION ExprSpec
CONSTANTS
  Operators = {"or", "==", "+", "*", "^", "not"}
  CallArity = 2
  MaxTokens = 7
INVARIANTS
  ParsesAsGrammar
  GrammarAccepted
  NothingDropped
CHECK_DEADLOCK FALSE
