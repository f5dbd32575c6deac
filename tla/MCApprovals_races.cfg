SPECIFICATION Spec
CONSTANTS
  None = None
  Requests = {r1}
  Nonces = {n1, n2, n3}
  Handlers = {h1, h2}
  Lifetime = 2
  Timeouts <- Levels
  ReminderInterval = 1
  MaxTime = 3
SYMMETRY Symmetry
INVARIANTS TypeOK NonceDecidesOnce DecisionsAreBounded EscalationWaits StatusMatchesDecision RemindersAreBounded
