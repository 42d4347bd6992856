SPECIFICATION MCRetargetSpec
CONSTANTS
  k1 = k1
  k2 = k2
  d1 = d1
  d2 = d2
  d3 = d3
  n1 = n1
  n2 = n2
  n3 = n3
  l1 = l1
  b1 = b1
  NoBatch = NoBatch
  NoSnapshot = NoSnapshot
  NoJob = NoJob
  Absent = Absent
  Gone = Gone
  Keys <- MCKeys
  Supers <- MCSupers
  NamespaceOf <- MCNamespaceOf
  Grants <- MCGrants
  Dests <- MCDests
  RouteIds <- MCRouteIds
  MiddlewareIds <- MCMiddlewareIds
  Listeners <- MCListeners
  InputsOf <- MCRetargets
  Rejecting = TRUE
  RejectIncomplete = FALSE
  MaxBatch = 3
  MaxCallbacks = 1
  MaxChanges = 2
  MaxFaults = 0
PROPERTIES
  DeletedUnreferenced
