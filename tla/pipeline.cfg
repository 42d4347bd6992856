SPECIFICATION MCSpec
CONSTANTS
  Confs <- MCConfs
  Requests = {1, 2, 3, 4}
  MaxTime = 6
  MaxKeyChanges = 2
  MaxRefreshes = 2
INVARIANTS
  ForwardedAsConfigured
  RateExact
  RetriesFaithful
  AnsweredOnce
PROPERTIES
  TokensCurrent
  EveryRequestAnswered
CHECK_DEADLOCK FALSE
