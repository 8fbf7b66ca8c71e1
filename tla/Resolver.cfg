\* Two calls, of two names and classes, prefetches and name server lookups.
SPECIFICATION Spec
CONSTANTS
  r1 = r1
  r2 = r2
  p1 = p1
  Requests = {r1, r2}
  Popular = {p1}
  Asked <- XOrCHOfY
  NSQuestions <- NSName
  None = None
  CanonicalName <- TwoNames
  TypeToString <- OneType
  ClassToString <- TwoClasses
  Responses <- OneResponse
  MaxSize = 2
  MinTTL = 0
  MaxTTL = 4
  NegativeTTL = 1
  PrefetchNum = 1
  PrefetchDen = 1
  DefaultTTL = 4
  ZeroTTL = 2
  TicksPerSecond = 1
  HitThreshold = 0
  MaxClock = 2
INVARIANTS SingleFlight InflightExact NoOrphanedWaiter WaitersAgree CachedWasAnswered
PROPERTIES EveryCallReturns ImplementsFlights
\* all calls may have returned
CHECK_DEADLOCK FALSE
