SPECIFICATION Spec
CONSTANTS
  None = None
  Sources = {"auth", "security", "endpoint", "main"}
  Threads = {t1, t2}
  LlmProvider = "openrouter"
  Configured = {"openrouter", "gemini"}
  TTL = 0
  Interval = 1
  MaxTime = 1
  Runbooks <- ManyRunbooks
  MaxSteps = 3
SYMMETRY Symmetry
INVARIANTS TypeOK QueriesAreGrounded PlansAreSound
CHECK_DEADLOCK FALSE
