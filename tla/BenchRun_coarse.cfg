\* A clock with a grain of 3 CPU units which then advances by 4 microseconds,
\* iterations cheaper and dearer than the grain.
SPECIFICATION Spec
CONSTANTS
  MinUsec = 13
  MinIterations = {0, 2}
  Grain = 3
  Tick = 4
  CostModels <- MCMixedCosts
  DummyCosts = {0, 1}
  References <- MCReferences
  NoReference = NoReference
  MaxInt64 = 20
INVARIANTS TypeOK CountedIsExecuted EndsForAReason DisplayDefined
  ExtrapolationFits
PROPERTIES NoStepInVain KeepsPromise Termination
\* The program ends after display.
CHECK_DEADLOCK FALSE
