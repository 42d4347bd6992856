SPECIFICATION MCSpec
CONSTANTS
  Kinds = {"listeners", "middlewares", "groups", "routes", "destinations", "secrets"}
  Ids = {e1}
  Values = {v1, bad}
  BadValues = {bad}
  SnapshotIds = {s1}
  Writers = {w1, w2}
  Subscribers = {"gateway"}
  Watchers = {g1}
  Dumps <- LeaderDumps
  ChanCap = 1
  MaxWrites = 2
  Absent = Absent
INVARIANT
  SerialUpToDate
PROPERTY
  EventuallyUpToDate
CHECK_DEADLOCK FALSE
