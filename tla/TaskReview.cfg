SPECIFICATION Spec
CONSTANTS
  Users = {ann, max, eve}
  Managers = {max, eve}
  Creator = max
  NoOne = NoOne
  Items = {i1}
  Calls = {c1, c2}
  MaxSubmissions = 2
SYMMETRY CallSymmetry
INVARIANTS TypeOK SubmissionsDecided CompletedByApproval
PROPERTIES WorkFrozen
