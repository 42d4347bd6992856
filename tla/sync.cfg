SPECIFICATION MCFairSpec
CONSTANTS
  Kinds = {"routes"}
  Ids = {e1}
  Values = {v1}
  SnapshotIds = {s1, s2, s3}
  Writers = {w1, w2}
  Subscribers = {p1}
  Proxies = {p1}
  Unbuildable = {s2}
  Oversized = {s3}
  ChanCap = 1
  StreamCap = 2
  MaxWrites = 4
  MaxFailures = 1
  Absent = Absent
INVARIANT
  SettledUnlessLost
PROPERTIES
  NeverBackwards
  EventuallySynced
CHECK_DEADLOCK FALSE
