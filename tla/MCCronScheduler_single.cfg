SPECIFICATION Spec
CONSTANTS
  None = None
  Unborn = Unborn
  Deleted = Deleted
  s1 = s1
  s2 = s2
  Schedules = {s1, s2}
  Procs = {p1}
  Matches <- LeapDay
  Horizon = 3
  MaxLag = 1
  AuditSharesDb = FALSE
  MaxTime = 5
  MaxCrashes = 1
INVARIANTS TypeOK
PROPERTIES NoRunSkippedInTime
CHECK_DEADLOCK FALSE
