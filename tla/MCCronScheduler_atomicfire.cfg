SPECIFICATION Spec
CONSTANTS
  None = None
  Unborn = Unborn
  Deleted = Deleted
  s1 = s1
  s2 = s2
  Schedules = {s1, s2}
  Procs = {p1}
  Matches <- Regular
  Horizon = 3
  MaxLag = 1
  AuditSharesDb = TRUE
  MaxTime = 3
  MaxCrashes = 0
INVARIANTS FireIsSavedWithItsJob
CHECK_DEADLOCK FALSE
