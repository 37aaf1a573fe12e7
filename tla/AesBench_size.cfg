SPECIFICATION Spec
CONSTANTS
  DataSizes = {16, 17}
  Selections <- MCOpenSSL
  Faults <- MCNoFault
  None = None
INVARIANTS CompleteBlocks
CHECK_DEADLOCK FALSE
