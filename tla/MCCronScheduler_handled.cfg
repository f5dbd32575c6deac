SPECIFICATION FairSpec
CONSTANTS
  None = None
  Unborn = Unborn
  Deleted = Deleted
  s1 = s1
  s2 = s2
  Schedules = {s1, s2}
  Procs = {p1, p2}
  Matches <- Regular
  Horizon = 3
  MaxLag = 2
  AuditSharesDb = TRUE
  MaxTime = 2
  MaxCrashes = 1
INVARIANTS FewExecutionsPerFire
PROPERTIES DueRunIsHandled
CHECK_DEADLOCK FALSE
