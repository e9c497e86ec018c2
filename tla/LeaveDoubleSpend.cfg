SPECIFICATION Spec
CONSTANTS
  Grants = {1}
  Requests = {1, 2}
  Days <- TwoDaysEach
  Overlaps = {}
  Managers = {m1, m2}
  Processes = {p1}
  GrantedDays <- TwoDayGrants
INVARIANTS NeverDoubleSpent
CHECK_DEADLOCK FALSE
