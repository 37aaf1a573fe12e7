SPECIFICATION Spec
CONSTANTS
  Null = Null
  Sizes <- MCSizes
  Gens <- MCGens
  SizeOrder <- MCSizeOrder
  Instances <- MCInstances
  MathDesc <- MCMathDesc
  Selections <- MCMbedOnly
INVARIANTS MbedSignsV15
CHECK_DEADLOCK FALSE
