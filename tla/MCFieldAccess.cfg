SPECIFICATION FieldSpec
CONSTANTS
  foo = foo
  qux = qux
  bar = bar
  quux = quux
  submsg = submsg
  embedded = embedded
  IntFields <- MCIntFields
  LongFields <- MCLongFields
  MessageFields <- MCMessageFields
  Offset32 <- MCOffset32
  Offset64 <- MCOffset64
  Hasbit32 <- MCHasbit32
  Hasbit64 <- MCHasbit64
  Size <- MCSize
  Default <- MCDefault
  Ints <- MCInts
  Longs <- MCLongs
  Pointers <- MCPointers
  Unset = Unset
INVARIANTS
  GettersReturnWhatWasSet
  PointersReadBack
CHECK_DEADLOCK FALSE
