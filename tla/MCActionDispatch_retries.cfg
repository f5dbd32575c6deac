SPECIFICATION Spec
CONSTANTS
  None = None
  k1 = k1
  k2 = k2
  Keys = {k1, k2}
  Threads = {t1, t2, t3}
  SerialKeys <- FirstKey
  MaxVisits = 4
  MaxCrashes = 1
SYMMETRY Symmetry
INVARIANTS TypeOK EffectsAccounted ActionRunsOnce RepeatsAreBounded ReportedSuccessHappened
PROPERTIES RecordedActionIsNotRepeated
CHECK_DEADLOCK FALSE
