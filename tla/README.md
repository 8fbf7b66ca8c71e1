# dns-server-mandiri in TLA+

A verification project for the recursive DNS server in `src/`: TLA+ modules
translated from the Go code, TLC configurations that check them on small
instances, and theorems proved with TLAPS for every value of the constants.
`PROJECT.json` maps every definition to the lines it models and names, for
every property, a plausible bug of the code that the property catches.

## 1. The system

A query enters `server.handleDNS` in a goroutine of its own and passes the rate
limiter, the block list filter and the local records. If none of them answers
it, the recursive resolver does, through its cache; if the resolver fails,
the configured upstreams are asked. A dashboard changes settings over HTTP, a
SQLite database keeps them, and the cache is saved to a file.

```
  client -> server.handleDNS -> ratelimit.Allow
                             -> filter.IsBlocked      <- dashboard, admin API
                             -> localrecords.Lookup   <- admin API      |
                             -> resolver.Resolve      -> name servers   v
                                  |    ^ prefetch                    database
                                  v    |                                ^
                                cache  <-> persistence <-> file         |
                             -> failover.Resolve      -> upstreams      |
                             -> metrics, clientstats     server.New reads
```

| Component | State | Operations | What is hard |
|---|---|---|---|
| `cache` | map of entries under an RWMutex, `stopCh` | `Get`, `Set`, `cleanup` (ticker), `Stop`, `PrefetchCandidates`, `ExportEntries` | `Get` reads under one lock, decides without any, deletes under another, and reads the clock several times; eviction at the limit; rounding of TTLs |
| `resolver` | `inflight` map with a done channel per entry; the stack of nested walks | `Resolve`, `prefetch`, `resolveIterative`, `queryNameservers`, `followCNAME`, `extractReferral` | coalescing of identical questions; waiters depend on the leader; prefetches and name server lookups store into the same cache beside it; delegations and aliases that go in circles |
| `ratelimit` | map of token buckets | `Allow`, `cleanupStale` (ticker) | lazy refill with a cap; buckets are thrown away and made anew, full |
| `persistence` | cache file, temporary file, `stopChan` | `Save`, `Load`, `StartAutoSave`, `Stop` | death of the process between any two steps; the final save races with the end of main |
| `filter` | lists, `enabled`, `sources`, `autoUpdateRunning` | loads, `autoUpdate`, `SetEnabled`, `SetSources`, `ReloadIfNeeded`, manual lists, `IsBlocked`, `Stop` | fields read without the lock, overlapping loads, an updater that must run exactly once |
| `failover` | health per upstream | `Resolve`, `healthCheckLoop`, `markHealthy`, `markUnhealthy`, `Stop` | marks made on old evidence, retries under a context that has expired |
| `server` | the components, two listeners | `New`, `Start`, `Shutdown`, `handleDNS`, `prefetchLoop`, `warmupCache` | the order of the stages; the deadline shared by resolution and fallback |
| `dashboard`, `database` | settings, sources, manual lists, records | the HTTP handlers | live state and database changed one after the other, in different orders, by handlers that overlap; errors of the database are ignored; a restart trusts the database |
| `localrecords` | lists of records by name and type | `Lookup`, `AddRecord`, `RemoveRecord` | a lookup takes the lock twice |
| `metrics`, `clientstats` | atomic counters, ring of queries, bounded maps, points of the QPS history | `RecordQuery`, `RecordQueryDetail`, `trackQPS` (ticker), `GetSnapshot`, the readers of the log | limits, wrap-around, eviction; counters read and written one after the other |
| `ecs`, `config`, `cmd/*` | - | address masking, parsing, signals | `ecs` has no caller; main can end before `Shutdown` has done its work |

What makes each of them correct:

- cache: no expired answer is ever given, the limit is kept, eviction takes
  the oldest entries, no answer or authority record is kept by clients longer than its TTL
  allows, and a `Get` never mixes two entries whatever happens between its locks.
- resolver: at most one call works on a question; a waiter gets its leader's
  outcome; no waiter is left behind; what is cached was answered to a question of that name and type.
  Every walk ends, whatever the servers say, and gives records that were
  said of the name asked for or of one its aliases lead to, or an error for a reason of its own.
- ratelimit: in every window a client gets at most the burst plus rate times
  time, in spite of forgotten buckets; forgotten buckets do go away.
- persistence: the next start has what is still good of the last completed save, and nothing else.
- filter: one updater when it is on, lists when it is on, and nothing that is blocked
  gets through while lists are being read.
- server and failover: every query is answered, SERVFAIL only when all else
  has failed, healthy upstreams first, and a recovered upstream is used again.
- dashboard, database, local records: what was listed stays listed until it is
  removed, restarts that can read the database included; live state and database differ only where the code
  means them to; a local record is answered while it is there and the feature is on.
- statistics: the log is that of the latest queries, every query is counted once,
  and the tables keep their limits and the right members.

## 2. The modules

| Module | Models | Extends or uses |
|---|---|---|
| `CacheOps` | the pure parts of `cache.go`: keys, TTLs, expiry, eviction, cleanup | - |
| `DnsCache` | the cache with its goroutines | `CacheOps`, refines `LossyStore` |
| `LossyStore` | abstract: a map that may lose entries; a read returns what was there when it looked | - |
| `Resolver` | `Resolve`, `prefetch`, stores of name server addresses | `CacheOps`, refines `Flights` |
| `Flights` | abstract: for each question one flight at a time; who comes while it is under way gets its outcome | - |
| `Iteration` | the walk through the delegations, `resolveIterative` and what it calls | - |
| `RateLimiter` | `Allow`, `cleanupStale` | refines `TokenBucket` |
| `TokenBucket` | abstract: one bucket per client, refilled eagerly and never forgotten | - |
| `Persistence` | saving, loading, shutting down, dying | `CacheOps` |
| `Filter` | `filter.go`: loads, updater, `SetEnabled`, lists | - |
| `FilterAdmin` | `server.New` and the dashboard's handlers around `Filter` | `Filter` |
| `Failover` | `failover.go`: calls, marks, health check | - |
| `Server` | `handleDNS` around `Failover` | `Failover` |
| `LocalRecords` | `localrecords.go` | - |
| `AdminState` | the handlers that edit whitelist, switch and local records, live and in the database | `LocalRecords` |
| `QueryRing` | the ring of queries: writing, and the two readers' arithmetic | - |
| `BoundedLog` | abstract: the latest entries in their order, however many were made | - |
| `Statistics` | counters, tables, ticker and snapshots of `metrics`, `clientstats` and `filter` | `QueryRing`, refines `BoundedLog` |
| `MC*` | values of the constants for TLC | the module of that name |
| `*Proofs` | the theorems; `ServerProofs` has those of `Server` and of `RateLimiter` | the module of that name, `TLAPS` |

Operators introduced by the word "Mutant" in their comment are wrong on
purpose. No specification uses them; they document the bugs that the properties
have been shown to catch.

### Cache (`CacheOps`, `DnsCache`)

`entries` is the map. A message is reduced to its question, its rcode and the sets of TTLs
in its answer, authority and additional sections (the last without OPT, which `buildResponse` takes out), which is
all the cache looks at. `Set` is told the question asked, which is the key, and stores the message
with the question `NewRootQuery` gave it, whose class is IN; `PrefetchCandidates` and
`ExportEntries` read the latter. A `Get` is cut
where the code releases a lock or reads the clock: `Lookup` (read lock),
`CheckNothing` or `CheckExpired` (`IsExpired`, without a lock), `DeleteExpired`
(write lock), `CountTheHit` (write lock, `HitCount`), `WriteTTLs` (the clock
again, for the TTLs of the copy), `ReplyHit` (the clock a third time, for `ShouldPrefetch`). `Set`, `Cleanup` and `Tick` may come between any two.
`Set` on a full cache chooses among the sets `evictOldest` may leave when
several entries are equally old. Time counts in ticks of
1/`TicksPerSecond` seconds, because TTLs are truncated to seconds and the
rounding is one of the hazards.

One interleaving deserves a word. `Get` deletes the key that it found expired
under a new lock, by which time the entry may be a fresh one: the fresh answer
is lost. The step is in the model; `ImplementsLossyStore` shows that losing it
is all that happens.

### Resolver (`Resolver`)

A member of `Requests` is one goroutine that calls `Resolve` once, and also
names the `inflightEntry` it makes as a leader and the prefetch its hit may spawn. `pc`
follows `Resolve`: the cache, the inflight map under its lock (`Join`), the
resolution, then separately the write of the result (`ShareResult`), the
closing of the channel, the removal from the map and `cache.Set`. Waiters take
the leader's result or their own context's end. `resolveIterative` is one step
with an arbitrary outcome here, `Iteration` takes it apart; before it ends, any number of name server addresses
may be looked up and stored by the same goroutine. The inflight key has the name
as spelled, the cache key has it in lower case, and neither is the question in the message: servers are asked
without the class (`resolver.go:192`), so the answer to a question of any class is one of class IN. An
outcome therefore carries the question of its message (`Ok`, `Answers`), and `CachedWasAnswered` compares
that with the key it is stored under and with what the caller asked.

`Flights` is what callers are promised of it, without map, channels and cache: it adds to the invariants that
a call which comes after its predecessor has left the map never gets the predecessor's outcome, and that an outcome once
settled does not change while waiters are still to read it. It also says plainly that the outcome a
waiter gets may be that its leader's time was up.

### The walk (`Iteration`)

`stack` has one member for each call of `resolveIterative` under way; `ret` is
what a call returned, until its caller takes it. The `phase` of a call says where it
is: the check at its start, the loop, `queryNameservers` between two servers or
at one of them with its retries, or waiting for the inner call that resolves an alias
(`cname`) or the name of a server (`lookup`). `Receive` is the three cases of
the loop. What servers may say is the constant `Says`, what a hit in the cache may say is
`CachedFor`; the proofs hold for any. Messages are reduced to the authoritative
flag, the rcode and the records that matter: owner and target in the answer (whose order counts, since `extractCNAME` takes the
first alias), names of servers, and glue. A server may say anything: several records, whole chains of aliases and parts of
them, in any order. `followCNAME` repeats the aliases of the response and appends what the inner call answered (`CNAMERecords`, `CnameReturns`). A truncated response that TCP does not complete counts as lost. `why` and `forNS` are history: the reason of
an error, and whether a call served the search for a server.

`extractReferral` with glue for some names only, and names that are looked up
without success, are in the model: each costs its server and nothing else.
Without any address the referral itself becomes the answer, which is an empty NOERROR.

### Rate limiter (`RateLimiter`)

Levels are exact: one token is `Scale` units and a tick refills `Rate` units, where
the code has floating point. The specification is `LimiterSpec`, so that the module can stand beside `Server`. `since` and `granted` are history: they watch one
arbitrary window that starts whenever TLC (or the prover) likes.
`CleanupAssumption` says that a bucket left alone for two
cleanup intervals is full again, which is what makes it safe to drop. The defaults (100/s,
burst 200, 5 min) satisfy it by a factor of 300.

### Persistence (`Persistence`)

A save creates `tmp`, encodes into it and renames it, in three steps, each of
which may fail or be the last the process does. The death of the process is
modelled, that of the machine is not: `Save` does not sync, and the file system
would have to be a part of the model. `Exit` is possible as soon as the listeners are
shut, because `main` returns from `Start` then, without waiting for the
autosave goroutine that `Stop` has told to save. Of a process that has ended only the files are left.

A record of the file has the question of the message, not the key the entry had (`cache.go:325`). `lastSave` and the
files are functions from those keys to records, so that the model can say which entry a record came from; `Load` does not look
at the keys, but stores each record under the key of its question, in the order of the file, which is that of a walk over a Go map (`after`).

### Filter (`Filter`, `FilterAdmin`)

A load reads `f.sources` when its goroutine starts and publishes its lists
some time later. What it has read by then is any part of what its sources and the files of the
directory list (`Readable`), chosen when it starts: a source that cannot be fetched, a directory or file that cannot be opened
(`filter.go:357-370`) is skipped, and the list is replaced all the same. `SetEnabled` is three steps (read and write of `f.enabled` without
a lock, the look at the lists, `startAutoUpdate`), so that calls overlap as
they do in the code. A torn read of the slice `f.sources` is not modelled.
`FilterAdmin` adds `server.New` in its order (config, setting, sources, reload)
and the handlers. The start may find no database, no setting in it, or no sources. Of the database only the enabled sources are here;
the setting, and the order in which the handlers write it and the filter, is `AdminState`'s.

### Administration (`LocalRecords`, `AdminState`)

The same things are kept twice: a whitelist in the filter and in a table, a switch in the filter and
among the settings, local records in a map and in a table. `job` is what a
request has still to do after its first half. `PostDomain` and `ListDomain` are the two halves of the admin API's
POST, `DeleteDomain` and `UnlistDomain` those of its DELETE with a
domain (which, when it comes with an id, deletes the row of that id, whosever it is), `DeleteRow` is its DELETE by id alone; `Toggle` and `PersistToggle` change the
filter first, `SaveSetting` and `applySettings` the database first; `LiveWhitelist`,
`LiveRecord` and `LiveRemove` are the older handlers the page uses, which know no database.
A statement of the database may fail, and the handlers mostly do not look. `Restart` may come between
any two steps; it takes switch and whitelist from the database, the whitelist also from the file of the config
(`FileDomains`), and no local records, since
`server.New` reads none. It goes on in silence when the database does not open (then `dbOpen` is FALSE, and the admin API's requests have no database), a query fails, the rows end
early or the file cannot be read: `got`, `known` and `file` are what it could read. The switch may be stored as the empty string, which the start takes for no setting. `serving` is `local_records.enabled`,
without which `Lookup` answers nothing. Domains come in several spellings, of which the table keeps each and the filter one.

`alone`, `apart`, `listed`, `unread`, `added` and `present` are history. They carry the qualifications without
which the properties would be false of the code: two requests about one domain
that overlap, a failed statement, a deletion by id, a row left under another
spelling, a row the start could not read, a domain from the file. `present` has the records that were there all through a
look-up: `Lookup` and `LookupCNAME`, the two locks, are judged together. A precise list of them is half of what `LiveAgreesWithDatabase` says.
The blacklist has the same handlers as the whitelist and is not modelled again. `SetEnabled` is one step here and several in `Filter`.

### Statistics (`QueryRing`, `Statistics`)

A handler passes the stages of `handleDNS` that record something: the table of blocked domains, where the filter counts
the canonical name (`filter.go:172`), the
atomics of `RecordQuery` one by one in the code's order (`left`), the log, the
domain table, where the name counts as spelled (`metrics.go:184`), the client table, each under its own lock.
`FilterDebug` is the page that has the filter check any domain, blocked ones counted, which nobody asked for. `ReadCount` and `ReadLatency` are the two
readings of a snapshot that depend on each other. `TrackQPS` is one tick. Latencies are whole
milliseconds, the averages stay sums, and a point of the history is the number of
queries it was worked out from rather than a rate. The clock of `clientstats` never shows two equal times, so that the client
seen longest ago is one. `asked`, `checked`, `seen` and `logged` are history.

### Server and failover (`Server`, `Failover`)

`stage` follows `handleDNS`. The limiter, the filter, the local records and the
resolver may each say what they can say: their own modules are about when they do. The
fallback is the whole of `failover.Resolve` (order, retries, marks) under
the context of the resolution that has failed. An upstream is `up` when it
answers in time with something other than SERVFAIL, and comes and goes as it likes; the
health check probes one after the other and marks with what it saw, maybe late. A probe asks for
the root's name servers and wants NOERROR, a query is content with any rcode but
SERVFAIL: an upstream in `NoProbe` serves queries and never passes a probe.
Upstreams are distinct. `getOrderedUpstreams` is described by what its two loops return,
the one sequence that has the healthy upstreams first and each part in the configured order; an
assumption of `MCServer` has TLC compare it with the loops for every set of healthy ones. `lastCheck`, latencies and statistics are left out. `SetReply`
is the DNS library's, and resets the rcode, as it does there.

## 3. The runs

| Run | Question | Result |
|---|---|---|
| `DnsCache_get` | two `Get`s against `Set`, cleanup and clock | no expired answer, refines `LossyStore`, expired entries go |
| `DnsCache_limits` | every kind of message, three keys for two places, half-second ticks | limit kept, oldest evicted, answer and authority records not kept longer than they may |
| `Resolver` | two calls, one of them maybe in another class, prefetches, look-ups of a name server that spell a name differently | single flight, waiters agree, refines `Flights`, every call returns, cached and returned is what answers that name and type |
| `RateLimiter` | two clients; a bucket is full exactly when it may be dropped | window bound, refines `TokenBucket`, idle buckets go |
| `Persistence_crash` | saves, failures, crashes, restarts; two names, one of them in two classes | a restart has the last completed save, in class IN; a lifetime grows by one TTL per start |
| `Filter` | two administrators, loads that read any part of their lists, the start, the updater | one updater, what is blocked stays blocked while lists are read, on means updated and loaded |
| `Server` | two queries, two upstreams that come and go, health check | healthy first, SERVFAIL last, every query answered, recovery noticed |
| `Iteration` | one question, servers that refer and alias in circles, fail or stay silent | depth bounded, every walk ends, answers follow the aliases, errors have a reason |
| `Statistics` | two handlers, a reader, the ticker, the debug page, one domain in two spellings, every table at its limit | the log is the latest queries, one count per query, the right members kept |
| `AdminState` | two requests, failing writes, a restart that may read all, some or nothing of the database | listed stays listed, live and stored agree, what is there all through a look-up is answered |

Two more runs each take one statement of a comment or of a branch in the
code, and show a behaviour of the program that contradicts it:

| Run | The code says | What happens |
|---|---|---|
| `Server_rcode` | `metrics.go:126` "case 3: // NXDOMAIN" | `SetReply` resets the rcode after the resolution; clients are told NOERROR |
| `Iteration_cname` | `resolver.go:158` "Check for CNAME and follow it" | an authoritative response is returned before the check, a CNAME alone included |

### Deviations the models know of

The properties are stated so that these, which the models contain, are allowed.

- `cache.go:78` "generates a unique key": types and classes without a mnemonic
  share the empty one, so that their questions share an entry.
- `cache.go:189`: one record with TTL 0 in a message has all its records served as
  `ZeroTTL`; `Allowance` in `RecordsNotExtended` says so.
- `cache.go:121-125` writes the remaining time into the additional records too, whose TTLs `extractTTL`, which "gets the minimum TTL from
  a DNS message", never reads: such a record may be served for longer than its own TTL. `RecordsNotExtended` says of it what is true, that it goes with its message.
- `resolver.go:192`, `resolver.go:354`: servers are asked without the class. A question of another class is answered, and cached under its own class,
  with an answer of class IN; when the entry is popular, the prefetch loop refreshes the key of class IN in its place (`cache.go:280`).
- `cache.go:325`: for the same reason such an entry comes back from the file under the key of class IN, and takes the place of the entry that was there
  if it comes later in the file.
- `resolver.go:269-278`: a response that holds several aliases has those of the first one's target twice in the answer, once as it said them and once
  as the inner call found them.
- `persistence.go:171`: a restored entry gets its full TTL again (`LifetimePerBoot` bounds it).
- `persistence.go:86` "Final save on shutdown": nobody waits for it, the process may end before it is made.
- `filter.go:117`, `server.go:170` "these override config sources": the load of the config's sources may publish after
  the database's were set, and then keeps them from being loaded.
- `resolver.go:335`: when no server name can be looked up, also for lack of time, the walk ends with an empty NOERROR answer,
  which is cached like any other.
- `metrics.go:230`, `filter.go:486`: a full table of domains forgets counts, and a full table of blocked
  domains may evict the newcomer itself: the tops are approximate.
- Whitelist entries and local records edited on the page are in the live state only, and
  are gone after a restart; `local_records` rows are never read back; an admin DELETE or toggle of a
  local record leaves the live one; a record that does not parse is stored and answered with "added" but never live;
  deleting a row and posting it again makes the live record twice.
- A domain stored under two spellings and removed under one comes back with the next start, as does one removed that the whitelist file has.
- `server.go:123`, `server.go:154`: a start that cannot open the database, or not read the whitelist to its end, runs without what it
  could not read, and says so at most in the log: listed domains are not exempt until they are added again or a later start reads them.
- `server.go:147`: the empty value, which the API stores like any other, leaves the switch as the config has it.
- `admin_api.go:239`: a DELETE with an id and a domain takes the row of the one and the live entry of the other.
- `filter.go:357`: a load that could not read a source or a local file drops the names it could not read.
- `localrecords.go:71`: between its two locks a record of the type asked may be added and the CNAME removed, so that a name that has
  a record at every moment is answered by none.

### Bounds, and why they are enough

- Clocks stop (`MaxClock`) after the longest lifetime in the run, so that
  entries are stored, expire, are cleaned up and are stored again. `MaxSets`
  bounds the number of entries made: two suffice for "replaced in between",
  three for an eviction. In `DnsCache_limits` a single goroutine gets, since
  what it is about happens in `Set` and in the rounding.
- `Resolver`: two calls are a leader and a waiter, two leaders, or a leader and a late
  comer; one of them hitting an entry spawns a prefetch beside the other. One question is of class IN and the other of class CH, and the
  name server to be looked up is the first one's name in capitals, so that two spellings are resolved side by side and
  stored under one key. There is one response; messages differ in their question. The proofs cover any number of calls, questions and responses.
- `RateLimiter`: `Burst * Scale = Rate * 2 * CleanupInterval`, the tightest case
  the assumption allows, with a clock that lets a bucket be dropped and used again.
- `Persistence`: three starts, so that a crash in a save can be followed by another
  one and then by a start that has to make sense of both; two names, so that a save can
  be told from its predecessor, and a third question that differs from one of them in its class only; a cache of two.
- `Filter`: two requests that overlap besides the start, which is what the
  unlocked flag needs; two places for updaters, so that a second one would be
  seen; one load beside those of the updaters, with one stored source; a reload waits for the one
  place a `SetEnabled` under way is entitled to. A local name, a name under it and the name a source lists are what the lists have to tell apart.
- `Server`: two upstreams, one retry, two queries: one marks what the other
  relies on; one of the two never passes a probe. The verdicts before the resolver are folded into the rcodes they give.
- `Iteration`: four names, which can refer to each other and to themselves in every way the code
  tells apart; `MaxDepth` 3, `MaxCNAMEChain` 1 and `NSReserve` 1 stand for 30, 10 and 5 and keep their order, so that
  each of the three limits is met. The proofs have any values.
- `Statistics`: three queries in two handlers overflow each table (limits 1 and 2) and wrap the ring of two; one domain comes in two spellings, and
  the debug page checks one that is blocked (`MaxTests` times).
- `AdminState`: a request needs another beside it to go wrong, a crash and the start after it need one restart.
  Two domains, one in two spellings and the other in the whitelist file; one name with records that share a list, do not parse, or are aliases. The whitelist, the switch and
  the local records share no variable but the pool of requests, so that a behaviour in the run keeps to one of them; the
  theorems are about all of them at once.

### Fairness, and why the code justifies it

All fairness is weak and about steps the Go scheduler or a ticker keeps
enabled: goroutines that can run do run, tickers fire, exchanges and downloads end by
their timeouts. No context is required to expire, no client to ask, no name server to
answer, no administrator to do anything, and nothing relies on the
daily tick of the updater. `DnsCache`: `Cleanup` and the steps of a `Get`.
`Resolver`: the steps of each call after its look-up in the cache. `RateLimiter`: `CleanupStale`.
`FilterAdmin`: the start, handlers, `SetEnabled` calls, loads. `Server`: handlers and
health check. `Iteration`: the walk as a whole, since
a goroutine that can run runs, and an exchange ends by its timeout at the latest (`Lost`); that the context expires is not assumed. `Persistence`, `Statistics` and `AdminState` have
safety properties only and assume no fairness.

## 4. The proofs

All theorems are for arbitrary sets of goroutines, clients, names, types and
responses, and arbitrary limits that satisfy the named assumptions. Every safety invariant, every
action property and all four refinements that the runs check are proved.

- `DnsCacheProofs`. First, what the operators of the cache return and preserve: the bounds on the TTL an
  entry is made with and the TTL a hit is served with, types of entries and keys, and that making room only removes.
  `CacheInv` adds to the type invariant that a `Get` under way holds
  an entry, and that once it has decided for a hit that entry had not expired when
  it was called; the capacity part needs that `KeptBySet` leaves room for one.
  From it follow `TypeCorrect`, `NoExpiredAnswerHolds` and `CapacityBoundHolds`.
  `LifeInv` (every entry, in the map or held, expires within what its message allows of the time it was stored)
  gives `RecordsNotExtendedHolds`. `IdInv` (every entry, in the map or held by a `Get`, carries the
  id of a `Set` that has happened) makes the mapping into `LossyStore` well typed. Each step
  maps to `Put`, `Lose`, `Fetch`, `Reply` or a stutter; `Refinement` concludes. `SetEvictsOldestOnlyHolds` is about a
  single step: a `Set` on a full map drops the expired entries and then, if it is still full, one that is
  no newer than any it keeps (`EvictedIsOldest`).
- `ResolverProofs`. `FlightInv` ties the inflight map to the program counters: a key is in
  the map exactly while its leader is between registering and
  removing, the leader registered under the key of its own question, whoever waits joined such a leader, a closed
  channel has a result behind it. Single flight, the exact inflight map, the absence of
  orphaned waiters and the agreement of waiters with their leaders are its
  consequences; none of them is inductive without it. `BackgroundInv` (what a prefetch or a call has still to store or return
  was answered to its question) and `EntriesInv` (every entry fits the key it is under and is the message of someone who is through with it; it outlives
  the calls) together are inductive. `AnswersInv` says of each call that has returned that its answer is its own, which for a waiter needs from
  `FlightInv` that all who share a flight ask the same. The two give `CachedWasAnsweredHolds`.
  `Refinement`: registering takes off, joining boards, `resolveIterative` lands, the removal from the map closes the
  flight; sharing the result and closing the channel are hidden. `FinalInv` (no outcome and no answer before their
  time) is what the mapping needs besides `FlightInv`.
- `IterationProofs`. `IInv` joins the types of the calls on the stack to their depths, since the depth of a
  call is only known to be its place on the stack, and each kind of call has its own limit. `DepthBoundedHolds` follows, and from it `DepthCheckIsSpare`:
  with the defaults the check at `resolver.go:119` never acts. `Shape` says that a step updates, calls or returns, and
  what each does to the stack; the rest of the module argues from it. `PurposeInv` (below the innermost call all wait, and a call that follows an alias
  serves what its caller serves, so that an error that reaches the bottom came up the question's own chain of names) gives
  `FailsForAReasonHolds`. `ChainInv` (what a caller has put aside follows from its name, and
  leads to the name it waits for) gives `AnswerFollowsChainHolds`, whatever the servers say: every record in an answer comes from a response in which it was
  said of the name asked for or of one that the aliases in the answer lead to (`LedTo`, the least set closed under them). Only that
  the record is also *about* such a name is the servers' part, `ServersKeepToTopic`, which TLC finds true of the servers of the run; no
  shape of the answers is assumed. `ByNumber` and `CNAMEsKept` are about `CNAMERecords`, which is a fold over the response.
- `PersistenceProofs`. The two properties compare files and entries; what makes them inductive is what every step preserves of both.
  `FilesInv`: until it is renamed, a save has only the temporary file, so that `disk` is the last completed save
  whatever a crash cuts short. `EntriesInv` and `IsSaved`: every entry, in memory, in a save under way, in a file whole or
  not, has a question with the name and type of the key it is (or was) under and class IN, and expires within as many of its TTLs as there have been starts. A load adds a start and a TTL at once.
  `LoadRestores`: under each key the last good record of the file is loaded, and there is a last one (`LastOfIsOne`), whichever order the save wrote.
- `ServerProofs`, the limiter. The window bound is not inductive, since it says nothing of what
  is left in the bucket; `WindowInv` (granted plus what is at hand is at most burst plus refill) is. `CleanupAssumption`
  enters where a dropped bucket must be as full as the new one. `Refinement` to
  `TokenBucket` needs the type invariant only.
- `ServerProofs`, the handler. `Turns` is the loop of `failover.Resolve`: what has left the list has used up its retries, what is
  still to come has used none, the head as many as the loop counts. `IsOrdered` says that the list is still the order worked out from the
  marks at the call, which other handlers and the health check change meanwhile. Together they give
  `HealthyFirstHolds` for any number of upstreams; with the rcode a call ends with, `ServfailIsLastResortHolds`.
- `FilterProofs`. `UpdaterInv` gives the finite set of updaters its cardinality
  and `OneUpdaterHolds`, for any number of callers of `SetEnabled`. `TypeInv` types start, handlers, loads and setters together; `TypeCorrect` follows.
  `BlockedStaysBlockedHolds` rests on `BlockedChangesByPublish`: the names in use change only when a load ends, and then to what it has read, so that
  any other step that lets a blocked name through has switched the filter off or changed a manual list.
- `StatisticsProofs`. `RingInv` types the ring; `PushAppends` is the arithmetic of the wrap, that the export after a write is the
  export before with the new entry at its end and, of a full ring, the first one gone. `RingImplementsLog` and `RecentHolds` follow for every size of the ring.
  The counters: `LeftInv` fixes how far each handler is in the order of its additions. `GroupsInv` then says that
  a group of counters sums to the total less the handlers between the two, `LogInv` the same of the log, `ServfailInv` that
  `servfail` is ahead of `failed` by those between them, `LatencyInv` that the sum of the latencies is ahead of the count, by the handlers between the two too, `QpsInv`
  that the points of the history account for what the ticker has seen. `EveryQueryCountedOnceHolds` and `AverageNotTooLowHolds` follow. The tables:
  `TablesInv` adds to what `TablesHold` says that every domain counted was asked (or, by the filter, checked: `OneBlocked` is the step in which one
  canonical name gains what all its spellings were asked); `ClientsInv` says that the entries carry the
  times of the history, so that the one evicted is the one seen longest ago. The sums in these
  invariants are folds of the library over sets. That the recursion of such a fold defines something, and that
  the order of summation does not matter, comes first (`SumExists`, `SumUnfolds` and what follows), by
  well-founded induction over the subsets of a finite set, with the property given as a set (`BySize`).
- `AdminStateProofs`. `ListedStaysListed` and `LiveAgreesWithDatabase` say nothing of requests that
  are half done; `IInv` says of each such request, as long as it is alone with its matter, how far the two states have come. `AddedInv` says the
  same of local records, where a record posted is live only after the second half; `PresentInv` carries what was there at the first lock of a `Lookup`, less what
  has been removed since, to the second.

The type invariants are proved and, except that of `Server`, no longer checked by the runs.

Only model-checked: the liveness properties (`ExpiredIsRemoved`, `EveryCallReturns`,
`StaleIsRemoved`, `EnabledIsUpdated`, `EnabledHasLists`, `EveryQueryAnswered`,
`UpstreamRecovers`, `WalkEnds`), which TLAPS cannot do under fairness, and the two refuted
statements.

## 5. What is not modelled

- `ecs`: nothing calls it. `config` and `root_hints`: values, which are the constants here.
- The handlers of the failover upstreams: they edit a table that nothing reads back. The blacklist's: the whitelist's again.
- Readers that take one lock and change nothing (`GetTopDomains`, `GetTopClients`, `Stats`, most GET handlers), and authentication.
- The parsing of block lists and records, DNS messages below the level of what the code decides by.
- The listeners and `warmupCache`, which calls `Resolve` as a client would.
- The Windows service, the web page, build and installation: outside the program or outside what a model could say.
- Messages as objects in `Resolver`, where they are values. The leader returns the message its waiters copy, and
  `handleDNS` changes it (`SetReply`); the waiters' handlers replace the same fields of their copies,
  so that in the server as it is the clients cannot tell.
- Memory-level data races. Where the code reads a flag without a lock the model lets any interleaving
  happen, but a value is always one that was written.

## 6. Plan

Done first, because every query goes through them: cache, resolver, limiter,
then what outlives a query (persistence, filter), then the composition (server,
failover). Then the walk, the statistics and the administration, with the
abstract log and the proofs that go with them. Left, in this order:

1. In `Resolver`, an age of answers, for an older one that replaces a newer one, and messages shared by leader and waiters.
2. `Lifecycle`: `Start`, listeners, `Shutdown` of all components, both mains.
