SPECIFICATION Spec
CONSTANTS
  Requests = {r1, r2, r3}
  Calls = {c1, c2, c3}
  MaxOvertime = 2
  None = None
SYMMETRY PunchSymmetry
INVARIANTS TypeOK PunchesUsedOnce OvertimeIsRequested
CHECK_DEADLOCK FALSE
