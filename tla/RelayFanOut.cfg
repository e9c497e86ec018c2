\* One delivery, two processes, and two recipients found by separate reads.
CONSTANTS
  Deliveries = {1}
  Users = {u1, u2}
  ReportTo = {u2}
  Processes = {p1, p2}
  MaxAttempts = 2
  BatchSize = 1
SPECIFICATION Spec
SYMMETRY Symmetry
INVARIANTS TypeOK SucceededReachedEveryone PushedAtMostOnce
PROPERTIES NeverResurfaces KeepsPromise
