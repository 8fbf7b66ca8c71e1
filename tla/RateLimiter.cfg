\* Two clients; a bucket is full again just when it may be thrown away.
SPECIFICATION LimiterSpec
CONSTANTS
  c1 = c1
  c2 = c2
  Clients = {c1, c2}
  NoVerdict = NoVerdict
  Rate = 1
  Burst = 2
  Scale = 2
  CleanupInterval = 2
  MaxClock = 7
INVARIANTS WindowBound
PROPERTIES ImplementsTokenBucket StaleIsRemoved
