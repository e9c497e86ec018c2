SPECIFICATION FairSpec
CONSTANTS
  Grants = {1, 2}
  Requests = {1}
  Days <- TwoDaysEach
  Overlaps = {}
  Managers = {m1, m2}
  Processes = {p1, p2}
  GrantedDays <- GrowingGrants
INVARIANTS
  TypeOK ApprovedIsPaid OldestFirst LedgerReconciles OverdraftBounded
  EventsAreTrue LapsedWithinGrant
PROPERTIES DecisionsStand UnusedDaysLapse
CHECK_DEADLOCK FALSE
