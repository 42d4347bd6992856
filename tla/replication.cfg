SPECIFICATION MCSpec
CONSTANTS
  n1 = n1
  n2 = n2
  q1 = q1
  q2 = q2
  q3 = q3
  absent = absent
  Nodes = {n1, n2}
  Requests = {q1, q2, q3}
  OperationsOf <- MCOperations
  Ids <- MCIds
  SnapshotIds <- MCSnapshotIds
  Values <- MCValues
  WeightModulus = 256
  AuthRequired = FALSE
  TLS = FALSE
  PrivateNetwork = TRUE
  SnapshotThreshold = 2
  MaxFaults = 1
  NoNode = NoNode
  Absent = absent
INVARIANTS
  Converged
  AnswersTrue
PROPERTIES
  ImplementsReplicatedStore
  EveryRequestAnswered
  EventuallyCaughtUp
CHECK_DEADLOCK FALSE
