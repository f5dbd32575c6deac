SPECIFICATION FairSpec
CONSTANTS
  None = None
  n1 = n1
  n2 = n2
  Execs = {1, 2}
  Workers = {w1}
  Clients = {c1}
  Nodes = {n1, n2}
  EntryNode = n1
  Edges <- ChainEdges
  Defaults <- NoEdges
  Mode <- AutoAndManual
  MaxAttempts = 2
  MaxNodes = 3
  AuditSharesDb = FALSE
  Ops = {"cancelJob", "cancelExec"}
  MaxRequests = 1
  MaxCrashes = 2
PROPERTIES EveryJobSettles ImplementsLifecycle
CHECK_DEADLOCK FALSE
