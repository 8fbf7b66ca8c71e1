\* Two requests at a time, one handler of queries, one restart.
SPECIFICATION AreaSpec
CONSTANTS
  r1 = r1
  r2 = r2
  h1 = h1
  Names = {"nas"}
  Types = {"A", "CNAME"}
  Values = {"one", "two", "bad"}
  Malformed <- BadAddress
  Handlers = {h1}
  MaxCopies = 2
  Spellings = {"ads.test", "Ads.Test", "shop.test"}
  Canonical <- DomainOf
  FileDomains = {"shop.test."}
  Records <- RecordsOf
  Requests = {r1, r2}
  MaxRestarts = 1
SYMMETRY Symmetry
INVARIANTS ListedStaysListed LiveAgreesWithDatabase AddedIsAnswered
