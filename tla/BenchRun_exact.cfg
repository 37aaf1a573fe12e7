\* An exact clock: what is left to measure is only the extrapolation.
SPECIFICATION Spec
CONSTANTS
  MinUsec = 40
  MinIterations = {1, 3}
  Grain = 1
  Tick = 1
  CostModels <- MCSteadyCosts
  DummyCosts = {0, 2}
  References <- MCReferences
  NoReference = NoReference
  MaxInt64 = 1700
INVARIANTS OneExtrapolation
CHECK_DEADLOCK FALSE
