\* Two key sizes, every library, one other run of the program.
SPECIFICATION Spec
CONSTANTS
  Null = Null
  Sizes <- MCSizes
  Gens <- MCGens
  SizeOrder <- MCSizeOrder
  Instances <- MCInstances
  MathDesc <- MCMathDesc
  Selections <- MCSelections
INVARIANTS TypeOK FreshContexts TimedInputsMatch AutoTestComplete NoKeyLeak BackendMatches
\* The program ends.
CHECK_DEADLOCK FALSE
