SPECIFICATION Spec
CONSTANTS
  None = None
  PolicyIds = {p1, p2}
  PolicyNames = {a}
  Definitions <- SomeDefinitions
  Priorities <- SomePriorities
  Editors = {e1, e2}
  Environments = {"STAGING", "PRODUCTION"}
  MayRename = FALSE
  Threads = {t1, t2}
  BundleNames = {b}
  TraceCount = 1
  MaxRequests = 3
SYMMETRY Symmetry
INVARIANTS TypeOK OneVersionInForce DeploymentsAreBacked PromotionsAreDeployed ArtifactsAreTraceable
PROPERTIES OverwritesAreRaces
CHECK_DEADLOCK FALSE
