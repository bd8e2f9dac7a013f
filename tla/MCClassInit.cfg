SPECIFICATION Spec
CONSTANTS
  BabySteps = BabySteps
  EmbeddedMessage = EmbeddedMessage
  Submessage = Submessage
  Tree = Tree
  Generated = {BabySteps, EmbeddedMessage, Submessage, Tree}
  EntryPoints <- MCEntryPoints
  LinksOf <- MCLinksOf
  t1 = t1
  t2 = t2
  Threads = {t1, t2}
  Reaper = Reaper
  NoThread = NoThread
  FindClassInitializes = TRUE
INVARIANTS
  NativesRegistered
  DefaultInstancesBuilt
  NoWaitCycle
PROPERTIES
  EveryUseReturns
CHECK_DEADLOCK FALSE
