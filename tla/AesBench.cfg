\* Data sizes around the boundaries of a block, any single fault of a library.
SPECIFICATION Spec
CONSTANTS
  DataSizes = {15, 16, 17, 32}
  Selections <- MCSelections
  Faults <- MCFaults
  None = None
INVARIANTS TypeOK RatioLabel SameBytes RejectsOnlyPartialBlocks AutoTestGuards
           OutputFits ContextsReleased Arm64Computes
\* The program ends.
CHECK_DEADLOCK FALSE
