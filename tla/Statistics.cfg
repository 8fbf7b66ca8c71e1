\* Two handlers, a reader and the ticker; tables and ring at their limits.
SPECIFICATION Spec
CONSTANTS
  h1 = h1
  h2 = h2
  Handlers = {h1, h2}
  Queries <- FourQueries
  Canonical <- LowerCase
  TestDomains = {"ad"}
  MaxQueries = 3
  MaxTests = 1
  queryLogMax = 2
  NoEntry = "none"
  domainCountsMax = 2
  blockedMax = 1
  maxClients = 2
  topDomainsMax = 1
  qpsMax = 2
SYMMETRY HandlerSymmetry
INVARIANTS RecentIsExportBackwards EveryQueryCountedOnce AverageNotTooLow KeepsLatestClients TablesHold
PROPERTIES ImplementsBoundedLog
