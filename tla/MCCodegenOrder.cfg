SPECIFICATION Spec
CONSTANTS
  S = S
  T = T
  FieldTypes = {"INT32", "MESSAGE"}
  MessageTypes = {S, T}
  MaxFields = 2
  MaxNumber = 2
  NumbersAscend = FALSE
  MaxLinks = 6
  IntHalf = 2
  LongHalf = 4
  NoDefault = NoDefault
  Unlinked = Unlinked
INVARIANTS
  SetSubMessageSucceeds
CHECK_DEADLOCK FALSE
