\* The library fails to set a context.
SPECIFICATION Spec
CONSTANTS
  PemFiles <- MCOneFile
  KeyBits = 3
  None = None
INVARIANT ConstructorSetsModulus
CHECK_DEADLOCK FALSE
