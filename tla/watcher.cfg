SPECIFICATION MCSpec
CONSTANTS
  Kinds = {"destinations", "routes"}
  Ids = {d1}
  Values <- MCValues
  SnapshotIds = {}
  Writers = {w1}
  Subscribers = {"watcher"}
  ChanCap = 1
  MaxWrites = 2
  Absent = Absent
  Services = {"s1", "s2"}
  Objects <- MCObjects
  NoHost = NoHost
  NoObject = NoObject
  Watcher = "watcher"
  MaxChanges = 2
INVARIANTS
  WatchesOwned
  WatchedAsStored
  FollowsCluster
PROPERTY
  EventuallyDiscovered
CHECK_DEADLOCK FALSE
