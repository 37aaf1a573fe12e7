\* Two report files, three libraries.
SPECIFICATION Spec
CONSTANTS
  Inputs <- MCInputs
  Libraries <- MCLibraries
  None = None
INVARIANTS TypeOK TableIsExact RatiosToReference
PROPERTY Finishes
\* The script ends.
CHECK_DEADLOCK FALSE
