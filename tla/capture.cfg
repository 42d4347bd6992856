SPECIFICATION Spec
CONSTANTS
  Kinds = {"listeners", "routes", "groups", "destinations", "middlewares", "secrets"}
  Ids = {e1}
  Values = {"plain", "full"}
  References <- MCReferences
  SnapshotIds = {s1}
  Capturers = {c1}
  Writers = {c1, w1}
  Subscribers = {}
  ChanCap = 1
  MaxWrites = 4
  Absent = Absent
INVARIANT
  LaterReferencesHeld
PROPERTY
  QuietCaptureExact
CHECK_DEADLOCK FALSE
