SPECIFICATION FairSpec
CONSTANTS
  Requests = {r1, r2}
  failThreshold = 2
  maxConn = 1
  maxReq = 1
  Outcomes = {"ok", "5xx", "unreachable", "aborted"}
  RequestTimeout = TRUE
  IntMax = 1
INVARIANTS
  Accounting
  HalfOpenAttended
PROPERTY
  HalfOpenSettlesUnlessStranded
