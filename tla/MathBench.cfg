\* Key files cut anywhere, any failure of the library at any call.
SPECIFICATION Spec
CONSTANTS
  PemFiles <- MCPemFiles
  KeyBits = 3
  None = None
INVARIANTS TypeOK RightKey BitsExact OwnModulus FailuresNoticed
\* run_math() ends.
CHECK_DEADLOCK FALSE
