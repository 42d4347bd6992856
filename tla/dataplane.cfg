SPECIFICATION MCSpec
CONSTANTS
  Configs <- MCConfigs
  Ids = {"l1", "l2"}
  Reloaders = {"loop", "informer"}
  Requests = {r1}
  Messages <- MCMessages
  MaxReloads = 2
INVARIANTS
  CurrentTableOpen
  ComposedAsMeant
  ListenersReconciled
  GaugeExact
PROPERTIES
  LockReleased
  EventuallyListening
CHECK_DEADLOCK FALSE
