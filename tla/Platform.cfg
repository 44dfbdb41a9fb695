SPECIFICATION MCSpec
CONSTANTS
  j1 = j1
  j2 = j2
  j3 = j3
  id = id
  NoId = NoId
  Jobs = {j1, j2, j3}
  Handled = {j1, j2}
  JobId <- MCJobId
  Concurrency = 2
  MaxCrashes = 1
  MaxRetries = 1
  Callers = {c1, c2}
  Servers = {s1, s2}
  Limit = 2
  Window = 2
  MaxTroubles = 2
  Hosts = {s1, s2}
  Redis = redis
  Crawls = {r1, r2}
  FeedTtl = 2
  MaxChanges = 2
  MaxOutages = 1
INVARIANTS PlatformTypeOK OneLoop FeedFresh FeedPromise
PROPERTIES PromiseKept JobEnds BlockEnds
CHECK_DEADLOCK FALSE
