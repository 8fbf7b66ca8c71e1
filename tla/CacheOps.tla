------------------------------ MODULE CacheOps ------------------------------
(***************************************************************************)
(* The operations of internal/cache on the map of entries, as operators:   *)
(* how long an answer lives, when it is expired, what a hit is served      *)
(* with, which entries survive an eviction.  The modules that own a map of *)
(* entries (DnsCache, Resolver, Persistence) EXTEND this one.              *)
(*                                                                         *)
(* Times are natural numbers of ticks, record TTLs are seconds.  A message *)
(* is what the cache looks at: the question it carries, kept in a field of *)
(* its own, and what is in Responses: its rcode and the sets of TTLs of    *)
(* its answer, authority and additional records (OPT is none of them).     *)
(***************************************************************************)
EXTENDS Integers, FiniteSets, Functions

CONSTANTS
  CanonicalName,    \* spelling of a name |-> its canonical (lower-case) form
  TypeToString,     \* qtype |-> the name dns.TypeToString has for it
  ClassToString,    \* qclass |-> the name dns.ClassToString has for it
  MaxSize,          \* cfg.Cache.MaxSize
  MinTTL,           \* cfg.Cache.MinTTL, in ticks
  MaxTTL,           \* cfg.Cache.MaxTTL, in ticks
  NegativeTTL,      \* cfg.Cache.NegativeTTL, in ticks
  PrefetchNum,      \* the prefetch ratio is PrefetchNum / PrefetchDen
  PrefetchDen,
  DefaultTTL,       \* seconds for a message without records (3600 in the code)
  ZeroTTL,          \* seconds for a message with a zero TTL (30 in the code)
  TicksPerSecond,
  HitThreshold,     \* more hits than this make an entry popular (2 in the code)
  Responses         \* the messages a resolution may return

ASSUME SizeAssumption == MaxSize \in Nat

ASSUME TimesAssumption ==
  /\ MinTTL \in Nat /\ MaxTTL \in Nat /\ NegativeTTL \in Nat
  /\ DefaultTTL \in Nat \ {0} /\ ZeroTTL \in Nat
  /\ TicksPerSecond \in Nat \ {0}
  /\ PrefetchNum \in Nat /\ PrefetchDen \in Nat \ {0}
  /\ HitThreshold \in Nat

Question == [name : DOMAIN CanonicalName, qtype : DOMAIN TypeToString,
             qclass : DOMAIN ClassToString]

ASSUME QuestionAssumption == Question # {} /\ "IN" \in DOMAIN ClassToString

ASSUME ResponsesAssumption ==
  Responses \subseteq [rcode : {"NOERROR", "NXDOMAIN", "REFUSED"},
                       answer : SUBSET Nat, ns : SUBSET Nat, extra : SUBSET Nat]

(***************************************************************************)
(* The key of a question: the name is canonicalised, type and class are    *)
(* replaced by their mnemonics.                                            *)
(***************************************************************************)
cacheKey(q) ==
  <<CanonicalName[q.name], TypeToString[q.qtype], ClassToString[q.qclass]>>

(* The question in a message that answers q.  NewRootQuery is not told the *)
(* class, and dns.SetQuestion makes it IN.                                 *)
NewRootQuery(q) == [q EXCEPT !.qclass = "IN"]

Keys == {cacheKey(q) : q \in Question}

SmallestOf(S) == CHOOSE x \in S : \A y \in S : x <= y

(***************************************************************************)
(* The TTL of a message in seconds: the smallest of the TTLs of its answer *)
(* and authority records, at most the default; a zero is replaced.  The    *)
(* additional records are not looked at.                                   *)
(***************************************************************************)
extractTTL(m) ==
  LET lowest == SmallestOf(m.answer \cup m.ns \cup {DefaultTTL})
  IN  IF lowest = 0 THEN ZeroTTL ELSE lowest

(* NXDOMAIN or NODATA *)
IsNegative(m) ==
  \/ m.rcode = "NXDOMAIN"
  \/ m.rcode = "NOERROR" /\ m.answer = {}

(***************************************************************************)
(* The lifetime Set gives a message: raised to MinTTL, then cut to MaxTTL, *)
(* and for a negative answer NegativeTTL whatever the records say.         *)
(***************************************************************************)
EntryTTL(m) ==
  LET seconds == TicksPerSecond * extractTTL(m)
      raised  == IF seconds < MinTTL THEN MinTTL ELSE seconds
      cut     == IF raised > MaxTTL THEN MaxTTL ELSE raised
  IN  IF IsNegative(m) THEN NegativeTTL ELSE cut

(* Msg is in two fields: `question', which is Msg.Question[0], and `msg'.   *)
(* Entries are shared by pointer in the code: `id' tells two of them apart. *)
EntryWith(Ids) ==
  [question : Question, msg : Responses, created : Nat, expires : Int,
   ttl : Int, hits : Nat, negative : BOOLEAN, id : Ids]

NewEntry(q, m, id, at) ==
  [question |-> q, msg |-> m, created |-> at, expires |-> at + EntryTTL(m),
   ttl |-> EntryTTL(m), hits |-> 0, negative |-> IsNegative(m), id |-> id]

(* Only "more than HitThreshold hits" is ever asked of the counter. *)
CountHit(e) ==
  [e EXCEPT !.hits = IF @ > HitThreshold THEN @ ELSE @ + 1]

IsExpired(e, at) == at > e.expires

RemainingTTL(e, at) == IF e.expires < at THEN 0 ELSE e.expires - at

(* Mutant: the remaining time is rounded up to whole seconds. *)
ServedTTLRoundedUp(e, at) ==
  LET seconds == (RemainingTTL(e, at) + TicksPerSecond - 1) \div TicksPerSecond
  IN  IF seconds = 0 THEN 1 ELSE seconds

(* The TTL in seconds written into every record of a hit, the additional   *)
(* ones included.                                                          *)
ServedTTL(e, at) ==
  LET seconds == RemainingTTL(e, at) \div TicksPerSecond
  IN  IF seconds = 0 THEN 1 ELSE seconds

ShouldPrefetch(e, at) ==
  (at - e.created) * PrefetchDen > e.ttl * (PrefetchDen - PrefetchNum)

LiveKeys(es, at) == {k \in DOMAIN es : ~IsExpired(es[k], at)}

(* Mutant: the comparison is turned around and the newest entry goes. *)
EvictNewest(es, at) ==
  LET live   == LiveKeys(es, at)
      newest == {k \in live : \A j \in live : es[k].created >= es[j].created}
  IN  IF live # {} /\ Cardinality(live) >= MaxSize
      THEN {live \ {k} : k \in newest}
      ELSE {live}

(***************************************************************************)
(* The sets of keys evictOldest may leave.  The walk deletes every expired *)
(* entry; one of the entries that are then oldest follows if the map is    *)
(* still full.  Which of several equally old ones depends on the order of  *)
(* the walk over a Go map.                                                 *)
(***************************************************************************)
evictOldest(es, at) ==
  LET live   == LiveKeys(es, at)
      oldest == {k \in live : \A j \in live : es[k].created <= es[j].created}
  IN  IF live # {} /\ Cardinality(live) >= MaxSize
      THEN {live \ {k} : k \in oldest}
      ELSE {live}

(* Mutant: room is made only once the map is over its limit. *)
KeptWhenOverfull(es, at) ==
  IF Cardinality(DOMAIN es) > MaxSize THEN evictOldest(es, at) ELSE {DOMAIN es}

(* The sets of keys Set may keep before it stores its own. *)
KeptBySet(es, at) ==
  IF Cardinality(DOMAIN es) >= MaxSize THEN evictOldest(es, at) ELSE {DOMAIN es}

(* The map with only the keys of `kept', and then `e' under `key'. *)
Stored(es, kept, key, e) ==
  [k \in kept \cup {key} |-> IF k = key THEN e ELSE es[k]]

Without(es, key) == Restrict(es, DOMAIN es \ {key})

(* Mutant: the condition is turned around and what is still good goes. *)
CleanupInverted(es, at) == Restrict(es, DOMAIN es \ LiveKeys(es, at))

(* What cleanup leaves. *)
cleanup(es, at) == Restrict(es, LiveKeys(es, at))

(* Questions the prefetch loop refreshes: those in the messages of popular *)
(* entries near their end.                                                 *)
PrefetchCandidates(es, at) ==
  {es[k].question : k \in {j \in LiveKeys(es, at) :
                             /\ ShouldPrefetch(es[j], at)
                             /\ es[j].hits > HitThreshold}}
=============================================================================
