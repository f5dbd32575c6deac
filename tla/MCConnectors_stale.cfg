SPECIFICATION Spec
CONSTANTS
  None = None
  notifier = notifier
  request = request
  longlived = longlived
  perrequest = perrequest
  SecretNames = {token}
  Services = {longlived, perrequest}
  Admins = {a, b}
  VaultLimit = 2
  Window = 1
  TTL = 1
  DecisionTTL = 1
  MaxTime = 2
  MaxSecrets = 3
  ConnectorIds = {k}
  Callers = {notifier, request}
  ServiceOf <- OneServiceEach
  Renewed = {perrequest}
  Threshold = 2
  Cooldown = 1
  CallLimit = 2
  MaxRequests = 5
SYMMETRY Symmetry
INVARIANTS TypeOK BreakerOpensOnFailures StaleSecretsExpire ConfigurationsAreTraceable
PROPERTIES DeletionIsUndoneOnlyByRaces
CHECK_DEADLOCK FALSE
