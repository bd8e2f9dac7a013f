SPECIFICATION Spec
CONSTANTS
  t1 = t1
  t2 = t2
  a1 = a1
  a2 = a2
  Threads = {t1, t2}
  DefaultArena = DefaultArena
  Arenas = {DefaultArena, a1, a2}
  Depth = 1
  MaxCalls = 1
  FrameRoots = TRUE
  None = None
SYMMETRY Symmetry
INVARIANTS
  AccessesAlive
  ReadableKept
  NoDataRace
  AllocationExclusive
CHECK_DEADLOCK FALSE
