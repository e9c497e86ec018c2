SPECIFICATION Spec
CONSTANTS
  Tasks = {t1, t2, t3}
  Calls = {c1, c2}
  MaxItems = 1
  TiesDown <- FloatTies
  Null = Null
  None = None
SYMMETRY FamilySymmetry
INVARIANTS TypeOK ProgressFollowsRule SomeoneProceeds
