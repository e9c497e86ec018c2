\* Two deliveries without recipients, so that only the queue moves.
CONSTANTS
  Deliveries = {1, 2}
  Users = {}
  ReportTo = {}
  Processes = {p1, p2}
  MaxAttempts = 3
  BatchSize = 2
SPECIFICATION FairSpec
INVARIANTS AttemptsBounded FailedOnlyWhenExhausted
PROPERTIES SettledStaysSettled EveryDeliverySettles
CHECK_DEADLOCK FALSE
