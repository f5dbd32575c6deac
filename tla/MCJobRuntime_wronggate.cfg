SPECIFICATION Spec
CONSTANTS
  None = None
  n1 = n1
  n2 = n2
  Execs = {1}
  Workers = {w1}
  Clients = {c1}
  Nodes = {n1, n2}
  EntryNode = n1
  Edges <- ChainEdges
  Defaults <- ChainEdges
  Mode <- AllGated
  MaxAttempts = 2
  MaxNodes = 3
  AuditSharesDb = TRUE
  Ops = {"resume", "callback"}
  MaxRequests = 2
  MaxCrashes = 0
SYMMETRY Symmetry
INVARIANTS CallbacksDecideTheirGate
CHECK_DEADLOCK FALSE
