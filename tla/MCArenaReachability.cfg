SPECIFICATION SafetySpec
CONSTANTS
  t1 = t1
  t2 = t2
  a1 = a1
  a2 = a2
  a3 = a3
  Threads = {t1, t2}
  Arenas = {a1, a2, a3}
  NoArena = NoArena
  FrameRoots = FALSE
SYMMETRY Symmetry
INVARIANTS
  ReachableMemoryKept
CHECK_DEADLOCK FALSE
