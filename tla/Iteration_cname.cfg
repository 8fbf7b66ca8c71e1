\* An authoritative answer that ends in a CNAME is returned as it is.
SPECIFICATION Spec
CONSTANTS
  Question = "q"
  Names <- WorldNames
  Address <- WorldAddresses
  RootServers <- Roots
  Says <- World
  CachedFor <- Remembered
  MaxDepth = 3
  MaxCNAMEChain = 1
  Retries = 1
  NSReserve = 1
  None = None
PROPERTIES CnameIsFollowed
\* the walk ends
CHECK_DEADLOCK FALSE
