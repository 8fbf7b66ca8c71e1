\* Two requests at a time, against loads, the updater and the start.
SPECIFICATION Spec
CONSTANTS
  h1 = h1
  h2 = h2
  l1 = l1
  u1 = u1
  u2 = u2
  boot = boot
  Domains <- DomainsOf
  Parents <- ParentsOf
  Sources = {"stored"}
  Content <- OneContent
  Local = {"local"}
  Loaders = {l1}
  Updaters = {u1, u2}
  Callers <- CallersOf
  AutoUpdate = TRUE
  Startup = boot
  Requests = {h1, h2}
  ConfigSources <- StoredOrNone
  StoredSources <- StoredOrNone
  ListDomains = {"sub.local"}
INVARIANTS OneUpdater
PROPERTIES BlockedStaysBlocked EnabledIsUpdated EnabledHasLists
