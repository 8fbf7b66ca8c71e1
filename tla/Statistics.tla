----------------------------- MODULE Statistics -----------------------------
(***************************************************************************)
(* What the handlers of queries record on their way out: the counters, the *)
(* log and the domain table of internal/metrics, the client table of       *)
(* internal/clientstats, and the table of blocked domains of               *)
(* internal/filter.  Each counter is an atomic of its own and each table   *)
(* has its own lock, so that the steps of several handlers, of a reader    *)
(* (GetSnapshot) and of the 30 s ticker (trackQPS) mix.                    *)
(***************************************************************************)
EXTENDS QueryRing, FiniteSets, FiniteSetsExt, Functions, SequencesExt

CONSTANTS
  Handlers,        \* goroutines of handleDNS that are under way at once
  Queries,         \* what clients ask, with the outcome and the time it took
  Canonical,       \* domain as spelled |-> the filter's name for it
  TestDomains,     \* dashboard.go:505-514 has eight, as the filter names them
  MaxQueries,      \* bound: queries that arrive
  MaxTests,        \* bound: times a test domain is found blocked
  domainCountsMax, \* metrics.go:100 has 10000
  blockedMax,      \* filter.go:466 has 10000
  maxClients,      \* server.go makes it 10000
  topDomainsMax,   \* clientstats.go:85 has 100
  qpsMax           \* metrics.go:313 has 360

Clients == {q.client : q \in Queries}
Domains == {q.domain : q \in Queries}  \* as spelled
Names == {Canonical[d] : d \in Domains} \cup TestDomains

ASSUME StatisticsAssumption ==
  /\ Queries # {}
  /\ \A q \in Queries : /\ q.protocol \in {"udp", "tcp"} /\ q.rcode \in STRING
                        /\ q.latency \in Nat /\ q.blocked \in BOOLEAN
  /\ DOMAIN Canonical = Domains
  /\ MaxQueries \in Nat /\ MaxTests \in Nat
  /\ {domainCountsMax, blockedMax, maxClients, topDomainsMax, qpsMax} \subseteq Nat \ {0}

VARIABLES
  pc,            \* handler |-> what it records next
  query,         \* handler |-> its query
  left,          \* handler |-> counters it has still to add to
  counters,      \* counter |-> value
  ring,          \* the query log
  logged,        \* history: entries made in it so far
  domainCounts,  \* some domains, as spelled |-> count
  blockedCounts, \* some domains, by the filter's names |-> count
  clients,       \* some clients |-> ClientInfo
  now,           \* the clock: no two LastSeen are equal
  qps,           \* lastQPSCount and the queries counted by each point kept
  snap,          \* a GetSnapshot under way: the number it has read
  asked,         \* history: domain |-> queries for it that got an answer
  checked,       \* history: the filter's name |-> times it was found blocked
  seen           \* history: client |-> when it was last recorded

tableVars == <<domainCounts, blockedCounts, clients, now, asked, checked, seen>>
vars == <<pc, query, left, counters, ring, logged, tableVars, qps, snap>>

(* The histogram's bounds in ms, and its names as GetLatencyHistogram has them. *)
Bounds == <<1, 5, 10, 50, 100, 500, 1000>>
BucketNames == <<"<1ms", "1-5ms", "5-10ms", "10-50ms", "50-100ms", "100-500ms", "500-1000ms", ">1000ms">>
Bucket(ms) == BucketNames[1 + Cardinality({b \in DOMAIN Bounds : Bounds[b] <= ms})]

ByRcode(rcode) ==
  CASE rcode = "NOERROR"  -> <<"success">>
    [] rcode = "NXDOMAIN" -> <<"nxdomain">>
    [] rcode = "SERVFAIL" -> <<"servfail", "failed">>
    [] OTHER              -> <<"failed">>

(* Mutant: the query is counted before its latency is. *)
AddsCountFirst(q) ==
  <<"total", q.protocol>> \o ByRcode(q.rcode) \o <<"count", "latency", Bucket(q.latency)>>

(* Metrics.RecordQuery: the atomics it adds to, in its order. *)
Adds(q) ==
  <<"total", q.protocol>> \o ByRcode(q.rcode) \o <<"latency", "count", Bucket(q.latency)>>

Counter == {"total", "udp", "tcp", "success", "nxdomain", "servfail", "failed", "latency", "count"}
             \cup ToSet(BucketNames)

Empty == [x \in {} |-> 0]
Put(table, k, v) == [x \in DOMAIN table \cup {k} |-> IF x = k THEN v ELSE table[x]]

Init ==
  /\ pc = [h \in Handlers |-> "idle"]
  /\ query \in [Handlers -> {CHOOSE q \in Queries : TRUE}]
  /\ left = [h \in Handlers |-> <<>>]
  /\ counters = [c \in Counter |-> 0]
  /\ ring = EmptyRing /\ logged = 0
  /\ domainCounts = Empty /\ blockedCounts = Empty /\ clients = Empty
  /\ now = 0
  /\ qps = [last |-> 0, points |-> <<>>]
  /\ snap = [at |-> "idle", count |-> 0]
  /\ asked = [d \in Domains |-> 0]
  /\ checked = [n \in Names |-> 0]
  /\ seen = Empty

-----------------------------------------------------------------------------
(* handleDNS.  A query reaches the statistics when its answer is known. *)

Goto(h, label) == pc' = [pc EXCEPT ![h] = label]

Start(h) ==
  /\ pc[h] = "idle" /\ SumFunction(asked) < MaxQueries
  /\ \E q \in Queries :
       /\ query' = [query EXCEPT ![h] = q]
       /\ left' = [left EXCEPT ![h] = Adds(q)]
       /\ asked' = [asked EXCEPT ![q.domain] = @ + 1]
       /\ checked' = IF q.blocked THEN [checked EXCEPT ![Canonical[q.domain]] = @ + 1] ELSE checked
       /\ Goto(h, IF q.blocked THEN "blocked" ELSE "counters")
  /\ UNCHANGED <<counters, ring, logged, domainCounts, blockedCounts, clients, now, seen, qps, snap>>

(* The walks over the maps find one of the least, in no order. *)
Lowest(table) == {k \in DOMAIN table : \A j \in DOMAIN table : table[k] <= table[j]}
Without(table, k) == [x \in DOMAIN table \ {k} |-> table[x]]
CountOf(table, k) == IF k \in DOMAIN table THEN table[k] ELSE 0

(* Filter.recordBlocked: counted first, and then perhaps evicted itself. *)
recordBlocked(name) ==
  LET counted == Put(blockedCounts, name, CountOf(blockedCounts, name) + 1)
  IN  \/ Cardinality(DOMAIN counted) <= blockedMax /\ blockedCounts' = counted
      \/ /\ Cardinality(DOMAIN counted) > blockedMax
         /\ \E k \in Lowest(counted) : blockedCounts' = Without(counted, k)

(* IsBlocked, called by the handler: it counts the name in lower case.     *)
RecordBlocked(h) ==
  /\ pc[h] = "blocked"
  /\ recordBlocked(Canonical[query[h].domain])
  /\ Goto(h, "counters")
  /\ UNCHANGED <<query, left, counters, ring, logged, domainCounts, clients, now, asked, checked, seen, qps, snap>>

(* IsBlocked, called by handleFilterDebug for one of its domains, and that  *)
(* is blocked: counted like a query.                                       *)
FilterDebug ==
  /\ \E name \in TestDomains :
       /\ checked[name] < MaxTests
       /\ recordBlocked(name)
       /\ checked' = [checked EXCEPT ![name] = @ + 1]
  /\ UNCHANGED <<pc, query, left, counters, ring, logged, domainCounts, clients, now, asked, seen, qps, snap>>

(* Metrics.RecordQuery, one atomic after the other. *)
RecordQuery(h) ==
  LET c == Head(left[h])
  IN  /\ pc[h] = "counters" /\ left[h] # <<>>
      /\ counters' = [counters EXCEPT ![c] = @ + IF c = "latency" THEN query[h].latency ELSE 1]
      /\ left' = [left EXCEPT ![h] = Tail(@)]
      /\ IF Len(left[h]) = 1 THEN Goto(h, "log") ELSE UNCHANGED pc
      /\ UNCHANGED <<query, ring, logged, tableVars, qps, snap>>

(* RecordQueryDetail: the log under one lock, the domain under another. *)
LogQuery(h) ==
  /\ pc[h] = "log"
  /\ ring' = Push(ring, query[h]) /\ logged' = logged + 1
  /\ Goto(h, "domain")
  /\ UNCHANGED <<query, left, counters, tableVars, qps, snap>>

(* Mutant: the table is at its limit only when it has one too many. *)
CountDomainLate(h) ==
  LET d == query[h].domain
  IN  /\ pc[h] = "domain"
      /\ domainCounts' = Put(domainCounts, d, CountOf(domainCounts, d) + 1)
      /\ Goto(h, "client")
      /\ UNCHANGED <<query, left, counters, ring, logged, blockedCounts, clients, now, asked, checked, seen, qps, snap>>

CountDomain(h) ==
  LET d == query[h].domain
  IN  /\ pc[h] = "domain"
      /\ \/ /\ d \in DOMAIN domainCounts \/ Cardinality(DOMAIN domainCounts) < domainCountsMax
            /\ domainCounts' = Put(domainCounts, d, CountOf(domainCounts, d) + 1)
         \/ /\ d \notin DOMAIN domainCounts /\ Cardinality(DOMAIN domainCounts) >= domainCountsMax
            /\ \E k \in Lowest(domainCounts) :
                 domainCounts' = Put(Without(domainCounts, k), d, 1)
      /\ Goto(h, "client")
      /\ UNCHANGED <<query, left, counters, ring, logged, blockedCounts, clients, now, asked, checked, seen, qps, snap>>

(* clientstats.RecordQuery *)
NewClient == [TotalQueries |-> 0, BlockedCount |-> 0, LastSeen |-> 0, AvgLatency |-> 0,
              TopDomains |-> Empty]

(* Mutant: a client known already keeps the time it was first seen. *)
RecordedAsNew(info, q, at) ==
  [TotalQueries |-> info.TotalQueries + 1,
   BlockedCount |-> info.BlockedCount + IF q.blocked THEN 1 ELSE 0,
   LastSeen     |-> IF info.TotalQueries = 0 THEN at ELSE info.LastSeen,
   AvgLatency   |-> info.AvgLatency + q.latency,
   TopDomains   |-> info.TopDomains]

Recorded(info, q, at) ==
  [TotalQueries |-> info.TotalQueries + 1,
   BlockedCount |-> info.BlockedCount + IF q.blocked THEN 1 ELSE 0,
   LastSeen     |-> at,
   AvgLatency   |-> info.AvgLatency + q.latency,
   TopDomains   |-> IF \/ Cardinality(DOMAIN info.TopDomains) < topDomainsMax
                       \/ q.domain \in DOMAIN info.TopDomains
                    THEN Put(info.TopDomains, q.domain, CountOf(info.TopDomains, q.domain) + 1)
                    ELSE info.TopDomains]

Oldest(table) == {k \in DOMAIN table : \A j \in DOMAIN table : table[k].LastSeen <= table[j].LastSeen}

EvictOldest(table) == {Without(table, k) : k \in Oldest(table)}

CountClient(h) ==
  LET q == query[h]
      c == q.client
  IN  /\ pc[h] = "client"
      /\ now' = now + 1
      /\ \/ /\ c \in DOMAIN clients
            /\ clients' = Put(clients, c, Recorded(clients[c], q, now'))
         \/ /\ c \notin DOMAIN clients /\ Cardinality(DOMAIN clients) < maxClients
            /\ clients' = Put(clients, c, Recorded(NewClient, q, now'))
         \/ /\ c \notin DOMAIN clients /\ Cardinality(DOMAIN clients) >= maxClients
            /\ \E room \in EvictOldest(clients) :
                 clients' = Put(room, c, Recorded(NewClient, q, now'))
      /\ seen' = Put(seen, c, now')
      /\ Goto(h, "idle")
      /\ UNCHANGED <<query, left, counters, ring, logged, domainCounts, blockedCounts, asked, checked, qps, snap>>

-----------------------------------------------------------------------------
(* GetSnapshot reads the atomics one after the other; of those the average *)
(* needs, the number of queries first and the time they took next.         *)
ReadCount ==
  /\ snap.at = "idle"
  /\ snap' = [at |-> "latency", count |-> counters["count"]]
  /\ UNCHANGED <<pc, query, left, counters, ring, logged, tableVars, qps>>

ReadLatency ==
  /\ snap.at = "latency"
  /\ snap' = [at |-> "idle", count |-> 0]
  /\ UNCHANGED <<pc, query, left, counters, ring, logged, tableVars, qps>>

LastOf(points) == IF Len(points) > qpsMax THEN Tail(points) ELSE points

(* Mutant: the counter is read again for the next point's start. *)
TrackQPSTwice ==
  /\ \E again \in qps.last..counters["total"] :
       qps' = [last |-> again, points |-> LastOf(Append(qps.points, counters["total"] - qps.last))]
  /\ UNCHANGED <<pc, query, left, counters, ring, logged, tableVars, snap>>

(* trackQPS, one tick of its ticker. *)
TrackQPS ==
  /\ qps' = [last |-> counters["total"],
             points |-> LastOf(Append(qps.points, counters["total"] - qps.last))]
  /\ UNCHANGED <<pc, query, left, counters, ring, logged, tableVars, snap>>

Handle(h) ==
  \/ Start(h) \/ RecordBlocked(h) \/ RecordQuery(h)
  \/ LogQuery(h) \/ CountDomain(h) \/ CountClient(h)

Next == (\E h \in Handlers : Handle(h)) \/ FilterDebug \/ ReadCount \/ ReadLatency \/ TrackQPS

Spec == Init /\ [][Next]_vars

-----------------------------------------------------------------------------
(* Properties. *)

TypeOK ==
  /\ counters \in [Counter -> Nat]
  /\ ring.queryLogIdx \in Positions /\ ring.queryLogLen \in 0..queryLogMax
  /\ DOMAIN ring.queryLog = Positions
  /\ now \in Nat
  /\ \A h \in Handlers : pc[h] \in {"idle", "blocked", "counters", "log", "domain", "client"}

(* The export of the log is the latest queries in the order of logging, at  *)
(* every wrap of the ring (metrics.go:174-180,217-227).                     *)
Log == INSTANCE BoundedLog WITH Entry <- Queries, Size <- queryLogMax,
                                log <- GetAllQueryLogs(ring), added <- logged
ImplementsBoundedLog == Log!Spec

(* The newest entries first, cut at any limit, are the export backwards     *)
(* (metrics.go:210 and 224 do the same arithmetic twice).                   *)
RecentIsExportBackwards ==
  \A limit \in 0..queryLogMax + 1 :
    LET all == GetAllQueryLogs(ring)
        recent == GetRecentQueries(ring, limit)
    IN  /\ Len(recent) = IF limit = 0 \/ limit > Len(all) THEN Len(all) ELSE limit
        /\ \A i \in 1..Len(recent) : recent[i] = all[Len(all) + 1 - i]

Groups == {{"udp", "tcp"}, {"success", "nxdomain", "failed"}, {"count"}, ToSet(BucketNames)}
Busy == {h \in Handlers : pc[h] # "idle"}

(* However handlers and ticker mix, each query is counted once in each      *)
(* group of counters and in one point of the history: the groups lag the    *)
(* total by the handlers still on their way, and agree at rest              *)
(* (metrics.go:113-157,299-318).                                            *)
EveryQueryCountedOnce ==
  /\ \A g \in Groups : LET sum == SumFunctionOnSet(counters, g)
                        IN  sum <= counters["total"] /\ counters["total"] <= sum + Cardinality(Busy)
  /\ counters["servfail"] <= counters["failed"] + Cardinality(Busy)
  /\ Len(qps.points) <= qpsMax
  /\ LET kept == SumFunction(qps.points)
     IN  kept <= qps.last /\ (Len(qps.points) < qpsMax => kept = qps.last)
  /\ Busy = {} => ring.queryLogLen = Min({counters["total"], queryLogMax})

(* A snapshot taken in the middle of queries never shows an average below   *)
(* that of the fastest query: RecordQuery adds the time before it adds to   *)
(* the number, and GetSnapshot reads them the other way round               *)
(* (metrics.go:135-136,353-357).                                            *)
AverageNotTooLow ==
  snap.at = "latency" =>
    counters["latency"] >= snap.count * Min({q.latency : q \in Queries})

(* The client table keeps those seen last: nobody outside it was seen after *)
(* anyone in it, and it counts for a client no more than it asked           *)
(* (clientstats.go:62-66,195-211).                                          *)
KeepsLatestClients ==
  /\ Cardinality(DOMAIN clients) = Min({maxClients, Cardinality(DOMAIN seen)})
  /\ \A c \in DOMAIN clients : clients[c].LastSeen = seen[c]
  /\ \A c \in DOMAIN clients, d \in DOMAIN seen \ DOMAIN clients : seen[d] <= seen[c]
  /\ \A c \in DOMAIN clients :
       /\ clients[c].BlockedCount <= clients[c].TotalQueries
       /\ SumFunction(clients[c].TopDomains) <= clients[c].TotalQueries

(* The two tables of domains never pass their limits nor count anything     *)
(* twice, and as long as the limit was not met they have lost nothing: all  *)
(* that is missing is what handlers have still to add.  The one counts what *)
(* was asked, as spelled; the other what the filter found blocked, under    *)
(* one name for all spellings, for queries and for the debug page           *)
(* (metrics.go:183-195, filter.go:463-481, dashboard.go:515-522).           *)
Pending(d, labels) == Cardinality({h \in Handlers : pc[h] \in labels /\ query[h].domain = d})
PendingBlocked(n) ==
  Cardinality({h \in Handlers : pc[h] = "blocked" /\ Canonical[query[h].domain] = n})

TablesHold ==
  /\ Cardinality(DOMAIN domainCounts) <= domainCountsMax
  /\ \A d \in Domains : CountOf(domainCounts, d) + Pending(d, {"blocked", "counters", "log", "domain"}) <= asked[d]
  /\ Cardinality({d \in Domains : asked[d] > 0}) <= domainCountsMax =>
       \A d \in Domains : CountOf(domainCounts, d)
                          + Pending(d, {"blocked", "counters", "log", "domain"}) = asked[d]
  /\ Cardinality(DOMAIN blockedCounts) <= blockedMax
  /\ \A n \in Names : CountOf(blockedCounts, n) + PendingBlocked(n) <= checked[n]
  /\ Cardinality({n \in Names : checked[n] > 0}) <= blockedMax =>
       \A n \in Names : CountOf(blockedCounts, n) + PendingBlocked(n) = checked[n]
=============================================================================
