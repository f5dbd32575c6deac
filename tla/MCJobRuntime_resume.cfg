SPECIFICATION Spec
CONSTANTS
  None = None
  n1 = n1
  n2 = n2
  Execs = {1}
  Workers = {w1}
  Clients = {c1, c2}
  Nodes = {n1, n2}
  EntryNode = n1
  Edges <- LoopEdges
  Defaults <- LoopEdges
  Mode <- AllGated
  MaxAttempts = 2
  MaxNodes = 2
  AuditSharesDb = FALSE
  Ops = {"resume"}
  MaxRequests = 3
  MaxCrashes = 1
INVARIANTS TypeOK CycleBound SuspendedIsResumable CompletedJobCompletedExecution NoGatePassesUnapproved
PROPERTIES RejectionIsFinal
CHECK_DEADLOCK FALSE
