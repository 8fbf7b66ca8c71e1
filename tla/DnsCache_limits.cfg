\* Half-second ticks, every kind of message, three keys for two places:
\* which entries an eviction takes, and how long a hit may be kept.
SPECIFICATION Spec
CONSTANTS
  g1 = g1
  g2 = g2
  Goroutines = {g1}
  NoEntry = NoEntry
  Miss = Miss
  CanonicalName <- ThreeNames
  TypeToString <- OneType
  ClassToString <- OneClass
  Responses <- OneOfEach
  MaxSize = 2
  MinTTL = 1
  MaxTTL = 5
  NegativeTTL = 3
  PrefetchNum = 1
  PrefetchDen = 2
  DefaultTTL = 3
  ZeroTTL = 2
  TicksPerSecond = 2
  HitThreshold = 0
  MaxClock = 4
  MaxSets = 3
INVARIANTS CapacityBound RecordsNotExtended
PROPERTIES SetEvictsOldestOnly
