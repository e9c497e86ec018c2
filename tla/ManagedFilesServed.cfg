SPECIFICATION Spec
CONSTANTS
  Files = {f1, f2}
  Owners = {o1, o2}
  Calls = {c1, c2}
  None = None
CONSTRAINT OneParent
SYMMETRY FileSymmetry
CHECK_DEADLOCK FALSE
INVARIANTS AvailableHasObject
