SPECIFICATION Spec
CONSTANTS
  BabySteps = BabySteps
  Submessage_ = Submessage_
  foo = foo
  baz = baz
  submsg = submsg
  Types = {BabySteps, Submessage_}
  Scalars = {foo, baz}
  Subs = {submsg}
  TypeOf <- MCTypeOf
  SubType <- MCSubType
  MaxDepth = 1
  Values = {0}
  Zero = 0
  b1 = b1
  b2 = b2
  Builders = {b1, b2}
  NoBuilder = NoBuilder
  a0 = a0
  a1 = a1
  Arenas = {a0, a1}
  DefaultArena = a0
  c1 = c1
  c2 = c2
  Calls = {c1, c2}
  Null = Null
  NoValue = NoValue
SYMMETRY Symmetry
INVARIANTS
  TypeOK
  ViewArenasFused
  DirtyInstanceIsPrivate
PROPERTIES
  MessagesFrozen
  ImplementsValueSemantics
CHECK_DEADLOCK FALSE
