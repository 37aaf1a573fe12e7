\* Three objects, and one address more than they need.
SPECIFICATION Spec
CONSTANTS
  Objects = {a, b, c}
  Handles = {h1, h2, h3, h4}
  Values = {zero, one}
  Zero = zero
  Free = Free
  Absent = Absent
  Null = Null
INVARIANTS TypeOK SoleOwner NoLeakNoDangling
PROPERTIES ValueSemantics
