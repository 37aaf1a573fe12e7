SPECIFICATION Spec
CONSTANTS
  DataSizes = {16}
  Selections <- MCNettle
  Faults <- MCNoFault
  None = None
INVARIANTS ComputesAes
CHECK_DEADLOCK FALSE
