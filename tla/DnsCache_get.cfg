\* Two Gets at once, against Set, cleanup and the clock.
SPECIFICATION Spec
CONSTANTS
  g1 = g1
  g2 = g2
  Goroutines = {g1, g2}
  NoEntry = NoEntry
  Miss = Miss
  CanonicalName <- TwoNames
  TypeToString <- OneType
  ClassToString <- OneClass
  Responses <- OneResponse
  MaxSize = 1
  MinTTL = 0
  MaxTTL = 4
  NegativeTTL = 1
  PrefetchNum = 1
  PrefetchDen = 2
  DefaultTTL = 4
  ZeroTTL = 2
  TicksPerSecond = 1
  HitThreshold = 0
  MaxClock = 3
  MaxSets = 2
INVARIANTS NoExpiredAnswer
PROPERTIES ImplementsLossyStore ExpiredIsRemoved
