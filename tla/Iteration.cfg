\* One question; delegations and aliases that go in circles.
SPECIFICATION Spec
CONSTANTS
  Question = "q"
  Names <- WorldNames
  Address <- WorldAddresses
  RootServers <- Roots
  Says <- World
  CachedFor <- Remembered
  MaxDepth = 3
  MaxCNAMEChain = 1
  Retries = 1
  NSReserve = 1
  None = None
INVARIANTS DepthBounded AnswerFollowsChain
PROPERTIES WalkEnds FailsForAReason
\* the walk ends
CHECK_DEADLOCK FALSE
