SPECIFICATION Spec
CONSTANTS
  t1 = t1
  t2 = t2
  a1 = a1
  a2 = a2
  a3 = a3
  Threads = {t1, t2}
  Arenas = {a1, a2, a3}
  NoArena = NoArena
  FrameRoots = TRUE
INVARIANTS
  TypeOK
  ReachableMemoryKept
  NativeOperandsValid
  NoArenaLost
  OwnersCounted
PROPERTIES
  CollectedIsFreed
  RefsDrained
  ImplementsLifetime
CHECK_DEADLOCK FALSE
