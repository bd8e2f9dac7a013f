SPECIFICATION Spec
CONSTANTS
  S = S
  T = T
  FieldTypes = {"INT32", "UINT32", "UINT64", "DOUBLE", "STRING", "GROUP", "MESSAGE"}
  MessageTypes = {S, T}
  MaxFields = 3
  MaxNumber = 3
  NumbersAscend = TRUE
  MaxLinks = 2
  IntHalf = 2
  LongHalf = 4
  NoDefault = NoDefault
  Unlinked = Unlinked
INVARIANTS
  LinksOwnTypes
  SetSubMessageSucceeds
  DefaultsReadBack
CHECK_DEADLOCK FALSE
