SPECIFICATION MCSpec
CONSTANTS
  Names = {"message", "field"}
  DataNames = {"field"}
  Parameter = "message"
  Sizes = {0, 1, 2}
  MaxLoops = 2
  MaxRenderers = 2
  Trees <- MCTrees
  Inputs <- MCInputs
INVARIANTS
  LoopDataCurrent
  ElementVisible
  IncludeSeesLoops
  EvaluatesAsMeant
  MissingNamesConsumed
