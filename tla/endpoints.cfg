SPECIFICATION MCSpec
CONSTANTS
  e1 = e1
  e2 = e2
  e3 = e3
  d1 = d1
  d2 = d2
  q1 = q1
  q2 = q2
  q3 = q3
  c1 = c1
  c2 = c2
  Nil = Nil
  WeightModulus = 256
  Requests <- MCRequests
  ClientOf <- MCClientOf
  Dests <- MCDests
  EndpointsOf <- MCEndpointsOf
  HealthChecked = {d2}
  Outliers = {d1}
  Balancing <- MCBalancing
  KeyHash <- MCKeyHash
  VnodeHash <- MCVnodeHash
  RingSize = 4
  Multiplier = 1
  MaglevSize = 3
  Offset <- MCOffset
  Skip <- MCSkip
  UnhealthyThreshold = 1
  HealthyThreshold = 1
  Threshold5xx = 2
  ThresholdGw = 1
  RequestTimeout = TRUE
  Reloaders = {"loop", "informer"}
  MaxReloads = 2
  MaxRounds = 1
INVARIANTS
  InflightExact
  OutIsEjected
  ClientsStay
PROPERTY
  EventuallyRestored
CHECK_DEADLOCK FALSE
