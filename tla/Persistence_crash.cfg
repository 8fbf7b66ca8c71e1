\* Saves, crashes and restarts.
SPECIFICATION Spec
CONSTANTS
  None = None
  DiskFails = TRUE
  CanonicalName <- TwoNames
  TypeToString <- OneType
  ClassToString <- TwoClasses
  Asked <- ThreeQuestions
  Responses <- OneResponse
  MaxSize = 2
  MinTTL = 0
  MaxTTL = 4
  NegativeTTL = 1
  PrefetchNum = 1
  PrefetchDen = 2
  DefaultTTL = 4
  ZeroTTL = 2
  TicksPerSecond = 1
  HitThreshold = 2
  MaxClock = 3
  MaxBoots = 3
INVARIANTS LifetimePerBoot
PROPERTIES RestartRestoresLastSave
\* the last process may be down
CHECK_DEADLOCK FALSE
