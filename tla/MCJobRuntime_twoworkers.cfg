SPECIFICATION Spec
CONSTANTS
  None = None
  n1 = n1
  n2 = n2
  Execs = {1, 2}
  Workers = {w1, w2}
  Clients = {c1, c2}
  Nodes = {n1, n2}
  EntryNode = n1
  Edges <- ChainEdges
  Defaults <- ChainEdges
  Mode <- GatedAndAuto
  MaxAttempts = 2
  MaxNodes = 2
  AuditSharesDb = TRUE
  Ops = {"cancelJob", "callback"}
  MaxRequests = 2
  MaxCrashes = 1
SYMMETRY Symmetry
INVARIANTS HeldJobIsLocked GatedRunsAreGranted
CHECK_DEADLOCK FALSE
