SPECIFICATION Spec
CONSTANTS
  Users = {ann, max, eve}
  Managers = {max, eve}
  Creator = max
  NoOne = NoOne
  Items = {}
  Calls = {c1, c2}
  MaxSubmissions = 1
PROPERTIES DecidedByDesignated
