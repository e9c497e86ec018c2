SPECIFICATION FairSpec
CONSTANTS
  Tasks = {t1}
  Schedulers = {s1, s2}
  MaxTime = 1
  MaxFailures = 2
INVARIANTS TypeOK AnnouncedOnce ClaimedIsAnnounced OverdueFollowsDue NeverEarly
PROPERTIES DeadlinesAreAnnounced
