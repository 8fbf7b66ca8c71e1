--------------------------- MODULE DnsCacheProofs ---------------------------
(***************************************************************************)
(* DnsCache for any number of goroutines, names, types, messages and for   *)
(* any configuration: types, the capacity of the map, that only the oldest *)
(* entry makes room, no hit from an entry that had expired before the      *)
(* call, and the refinement to LossyStore.                                 *)
(***************************************************************************)
EXTENDS DnsCache, WellFoundedInduction, FiniteSetTheorems, TLAPS

(* The operations on the map of entries: what has which type, what is kept. *)

(* A set of TTLs has a smallest one. *)
LEMMA NatHasLeast ==
  ASSUME NEW S, S \subseteq Nat, S # {} PROVE \E x \in S : \A y \in S : x <= y
<1> DEFINE R == OpToRel(<, Nat)
<1>1. IsWellFoundedOn(R, Nat)
  BY NatLessThanWellFounded
<1>2. \A m, n \in Nat : m < n => <<m, n>> \in R
  BY Zenon DEF OpToRel
<1> HIDE DEF R
<1>3. PICK x \in S : \A y \in S : ~ (<<y, x>> \in R)
  BY <1>1, WFMin
<1>4. \A y \in S : ~ (y < x)
  BY <1>2, <1>3
<1> QED BY <1>4

(* It is the one SmallestOf chooses. *)
LEMMA SmallestType ==
  ASSUME NEW S, S \subseteq Nat, S # {}
  PROVE  SmallestOf(S) \in S /\ \A y \in S : SmallestOf(S) <= y
BY NatHasLeast DEF SmallestOf

(* Every message has a lifetime, and it is a number of ticks. *)
LEMMA EntryTTLType == ASSUME NEW m \in Responses PROVE EntryTTL(m) \in Nat
<1>1. m.answer \subseteq Nat /\ m.ns \subseteq Nat
  BY ResponsesAssumption
<1>2. m.answer \cup m.ns \cup {DefaultTTL} \subseteq Nat
  BY <1>1, TimesAssumption
<1>3. SmallestOf(m.answer \cup m.ns \cup {DefaultTTL}) \in Nat
  BY <1>2, SmallestType
<1>4. extractTTL(m) \in Nat
  BY <1>3, TimesAssumption DEF extractTTL
<1>5. TicksPerSecond * extractTTL(m) \in Nat
  BY <1>4, TimesAssumption
<1> QED BY <1>5, TimesAssumption DEF EntryTTL

(* No lifetime exceeds what MinTTL and any of the records allow. *)
LEMMA EntryTTLBound ==
  ASSUME NEW m \in Responses, NEW secs \in m.answer \cup m.ns, ~IsNegative(m)
  PROVE  LET ticks == TicksPerSecond * (IF 0 \in m.answer \cup m.ns THEN ZeroTTL ELSE secs)
         IN  EntryTTL(m) <= (IF ticks < MinTTL THEN MinTTL ELSE ticks)
<1> DEFINE records == m.answer \cup m.ns
           lowest == SmallestOf(records \cup {DefaultTTL})
<1>1. records \cup {DefaultTTL} \subseteq Nat
  BY ResponsesAssumption, TimesAssumption
<1>2. lowest \in records \cup {DefaultTTL} /\ \A y \in records \cup {DefaultTTL} : lowest <= y
  BY <1>1, SmallestType
<1>3. secs \in Nat /\ lowest \in Nat
  BY <1>1, <1>2
<1>4. extractTTL(m) = (IF lowest = 0 THEN ZeroTTL ELSE lowest)
  BY DEF extractTTL
<1> HIDE DEF lowest
<1>5. extractTTL(m) <= (IF 0 \in records THEN ZeroTTL ELSE secs) /\ extractTTL(m) \in Nat
  <2>1. CASE 0 \in records
    BY <1>2, <1>3, <1>4, <2>1, TimesAssumption
  <2>2. CASE 0 \notin records
    BY <1>2, <1>3, <1>4, <2>2, TimesAssumption
  <2> QED BY <2>1, <2>2
<1>6. ASSUME NEW a \in Nat, NEW b \in Nat, a <= b
      PROVE  TicksPerSecond * a <= TicksPerSecond * b /\ TicksPerSecond * a \in Nat
             /\ TicksPerSecond * b \in Nat
  BY <1>6, TimesAssumption
<1> DEFINE allowed == IF 0 \in records THEN ZeroTTL ELSE secs
<1>7. allowed \in Nat
  BY <1>3, TimesAssumption
<1>8. /\ TicksPerSecond * extractTTL(m) <= TicksPerSecond * allowed
      /\ TicksPerSecond * extractTTL(m) \in Nat /\ TicksPerSecond * allowed \in Nat
  BY <1>5, <1>6, <1>7
<1> HIDE DEF allowed
<1>9. EntryTTL(m) <= (IF TicksPerSecond * allowed < MinTTL THEN MinTTL
                      ELSE TicksPerSecond * allowed)
  BY <1>8, TimesAssumption DEF EntryTTL
<1> QED BY <1>9 DEF allowed

(* What is served is less than what remains, or one second. *)
LEMMA ServedTTLBound ==
  ASSUME NEW e, e.expires \in Int, NEW at \in Nat
  PROVE  /\ ServedTTL(e, at) \in Int /\ ServedTTL(e, at) >= 1
         /\ \/ ServedTTL(e, at) = 1
            \/ at + TicksPerSecond * ServedTTL(e, at) <= e.expires
<1> DEFINE left == RemainingTTL(e, at)
           seconds == left \div TicksPerSecond
<1>1. left \in Nat /\ (left > 0 => left = e.expires - at)
  BY DEF RemainingTTL
<1> HIDE DEF left
<1>2. seconds \in Nat /\ TicksPerSecond * seconds <= left
  BY <1>1, TimesAssumption
<1>3. ServedTTL(e, at) = (IF seconds = 0 THEN 1 ELSE seconds)
  BY DEF ServedTTL, left
<1> HIDE DEF seconds
<1>4. CASE seconds = 0
  BY <1>3, <1>4
<1>5. CASE seconds # 0
  <2>1. TicksPerSecond * seconds > 0 /\ TicksPerSecond * seconds \in Nat
    BY <1>2, <1>5, TimesAssumption
  <2> QED BY <1>1, <1>2, <1>3, <1>5, <2>1
<1> QED BY <1>4, <1>5

(* Set makes an entry. *)
LEMMA NewEntryType ==
  ASSUME NEW Made, NEW q \in Question, NEW m \in Responses, NEW id \in Made, NEW at \in Nat
  PROVE  NewEntry(q, m, id, at) \in EntryWith(Made)
<1>1. EntryTTL(m) \in Nat /\ IsNegative(m) \in BOOLEAN
  BY EntryTTLType DEF IsNegative
<1> QED BY <1>1 DEF NewEntry, EntryWith

(* A hit changes the counter of its entry only. *)
LEMMA CountHitType ==
  ASSUME NEW Made, NEW e \in EntryWith(Made)
  PROVE  /\ CountHit(e) \in EntryWith(Made)
         /\ CountHit(e).question = e.question /\ CountHit(e).msg = e.msg /\ CountHit(e).id = e.id
BY TimesAssumption DEF CountHit, EntryWith

LEMMA KeyType == \A q \in Question : cacheKey(q) \in Keys
BY DEF Keys

LEMMA RootQueryType == \A q \in Question : NewRootQuery(q) \in Question
BY QuestionAssumption DEF Question, NewRootQuery

LEMMA KeptIsSubset ==
  ASSUME NEW es, NEW at, NEW kept \in KeptBySet(es, at) PROVE kept \subseteq DOMAIN es
BY DEF KeptBySet, evictOldest, LiveKeys

-----------------------------------------------------------------------------

LEMMA NewEntryTyped ==
  ASSUME NEW q \in Question, NEW m \in Responses, NEW id \in Nat, NEW at \in Nat
  PROVE  NewEntry(NewRootQuery(q), m, id, at) \in Entry
BY NewEntryType, RootQueryType DEF Entry

LEMMA CountHitTyped == ASSUME NEW e \in Entry PROVE CountHit(e) \in Entry
BY CountHitType DEF Entry

LEMMA ServedTTLType ==
  ASSUME NEW e \in Entry, NEW at \in Nat PROVE ServedTTL(e, at) \in Int
<1>1. RemainingTTL(e, at) \in Int
  BY DEF RemainingTTL, Entry, EntryWith
<1> QED BY <1>1, TimesAssumption DEF ServedTTL

-----------------------------------------------------------------------------
(* A Get that is under way holds an entry, and once it has decided for a   *)
(* hit that entry had not expired when Get was called.                     *)
Holding(g) ==
  /\ pc[g] # "idle" => found[g] \in Entry
  /\ began[g] <= now
  /\ pc[g] \in {"count", "reply", "prefetch"} => began[g] <= found[g].expires
  /\ pc[g] = "prefetch" => reply[g] \in Hit /\ reply[g].entry = found[g]

GetInv == \A g \in Goroutines : Holding(g)

CacheInv == TypeOK /\ GetInv /\ NoExpiredAnswer

LEMMA CacheInit == ASSUME Init PROVE CacheInv
<1>1. (CHOOSE q \in Question : TRUE) \in Question
  BY QuestionAssumption
<1>2. asked \in [Goroutines -> Question]
  BY <1>1 DEF Init
<1>3. DOMAIN entries = {}
  BY DEF Init
<1>4. found \in [Goroutines -> Entry \cup {NoEntry}] /\ reply \in [Goroutines -> Hit \cup {Miss}]
  BY DEF Init
<1>5. /\ pc = [g \in Goroutines |-> "idle"] /\ began = [g \in Goroutines |-> 0]
      /\ now = 0 /\ sets = 0 /\ stopped = FALSE
      /\ \A g \in Goroutines : reply[g] = Miss
  BY DEF Init
<1>6. stopped \in BOOLEAN
  BY <1>5
<1>7. pc \in [Goroutines -> {"idle", "check", "delete", "count", "reply", "prefetch"}]
  BY <1>5
<1>8. began \in [Goroutines -> Nat]
  BY <1>5
<1>9. TypeOK
  BY <1>2, <1>3, <1>4, <1>5, <1>6, <1>7, <1>8 DEF TypeOK
<1> QED BY <1>5, <1>9 DEF CacheInv, GetInv, Holding, NoExpiredAnswer

LEMMA LookupPreserves ==
  ASSUME CacheInv, NEW g \in Goroutines, NEW q \in Question, Lookup(g, q)
  PROVE  CacheInv'
<1> DEFINE key == cacheKey(q)
<1>1. CASE key \in DOMAIN entries
  <2>1. entries[key] \in Entry
    BY <1>1 DEF CacheInv, TypeOK
  <2> QED BY <1>1, <2>1 DEF Lookup, CacheInv, TypeOK, GetInv, Holding, NoExpiredAnswer
<1>2. CASE key \notin DOMAIN entries
  BY <1>2 DEF Lookup, CacheInv, TypeOK, GetInv, Holding, NoExpiredAnswer
<1> QED BY <1>1, <1>2

LEMMA CheckExpiredPreserves ==
  ASSUME CacheInv, NEW g \in Goroutines, CheckExpired(g) PROVE CacheInv'
<1>1. CASE IsExpired(found[g], now)
  BY <1>1 DEF CheckExpired, CacheInv, TypeOK, GetInv, Holding, NoExpiredAnswer
<1>2. CASE ~IsExpired(found[g], now)
  <2>1. found[g] \in Entry
    BY DEF CheckExpired, CacheInv, GetInv, Holding
  <2>2. began[g] <= found[g].expires
    BY <1>2, <2>1 DEF IsExpired, CacheInv, TypeOK, GetInv, Holding, Entry, EntryWith
  <2> QED BY <1>2, <2>2 DEF CheckExpired, CacheInv, TypeOK, GetInv, Holding, NoExpiredAnswer
<1> QED BY <1>1, <1>2

LEMMA DeleteExpiredPreserves ==
  ASSUME CacheInv, NEW g \in Goroutines, DeleteExpired(g) PROVE CacheInv'
BY DEF DeleteExpired, Without, Restrict, CacheInv, TypeOK, GetInv, Holding, NoExpiredAnswer

LEMMA CountTheHitPreserves ==
  ASSUME CacheInv, NEW g \in Goroutines, CountTheHit(g) PROVE CacheInv'
<1>1. DOMAIN entries' \subseteq Keys /\ \A k \in DOMAIN entries' : entries'[k] \in Entry
  BY CountHitTyped DEF CountTheHit, CacheInv, TypeOK
<1>2. /\ pc' = [pc EXCEPT ![g] = "reply"] /\ pc[g] = "count"
      /\ UNCHANGED <<now, sets, stopped, asked, began, found, reply>>
  BY DEF CountTheHit
<1> QED BY <1>1, <1>2 DEF CacheInv, TypeOK, GetInv, Holding, NoExpiredAnswer

LEMMA WriteTTLsPreserves ==
  ASSUME CacheInv, NEW g \in Goroutines, WriteTTLs(g) PROVE CacheInv'
<1> DEFINE hit == [entry |-> found[g], at |-> now, ttl |-> ServedTTL(found[g], now),
                   prefetch |-> FALSE]
<1>1. found[g] \in Entry /\ began[g] <= found[g].expires /\ now \in Nat
  BY DEF WriteTTLs, CacheInv, TypeOK, GetInv, Holding
<1>2. hit \in Hit
  BY <1>1, ServedTTLType DEF Hit
<1>3. /\ reply' = [reply EXCEPT ![g] = hit]
      /\ pc' = [pc EXCEPT ![g] = "prefetch"]
      /\ UNCHANGED <<entries, now, sets, stopped, asked, began, found>>
  BY DEF WriteTTLs
<1>4. hit.entry = found[g]
  OBVIOUS
<1> HIDE DEF hit
<1> QED BY <1>1, <1>2, <1>3, <1>4 DEF CacheInv, TypeOK, GetInv, Holding, NoExpiredAnswer

(* The last step of a Get changes one field of its reply. *)
LEMMA AskedPrefetch ==
  ASSUME CacheInv, NEW g \in Goroutines, ReplyHit(g)
  PROVE  /\ reply[g] \in Hit /\ reply'[g] \in Hit /\ reply[g].entry = found[g]
         /\ reply'[g].entry = reply[g].entry
         /\ reply'[g].at = reply[g].at /\ reply'[g].ttl = reply[g].ttl
         /\ \A h \in Goroutines \ {g} : reply'[h] = reply[h]
         /\ reply' = [reply EXCEPT ![g] = reply'[g]]
<1>1. /\ reply \in [Goroutines -> Hit \cup {Miss}]
      /\ reply[g] \in Hit /\ reply[g].entry = found[g]
  BY DEF ReplyHit, CacheInv, TypeOK, GetInv, Holding
<1>2. reply' = [reply EXCEPT ![g].prefetch = ShouldPrefetch(found[g], now)]
  BY DEF ReplyHit
<1>3. ShouldPrefetch(found[g], now) \in BOOLEAN
  BY DEF ShouldPrefetch
<1> HIDE DEF ShouldPrefetch
<1>4. reply'[g] = [reply[g] EXCEPT !.prefetch = ShouldPrefetch(found[g], now)]
  BY <1>1, <1>2
<1>5. \A h \in Goroutines \ {g} : reply'[h] = reply[h]
  BY <1>1, <1>2
<1>6. reply' = [reply EXCEPT ![g] = reply'[g]]
  BY <1>1, <1>2, <1>4
<1>7. /\ reply'[g] \in Hit /\ reply'[g].entry = reply[g].entry
      /\ reply'[g].at = reply[g].at /\ reply'[g].ttl = reply[g].ttl
  BY <1>1, <1>3, <1>4 DEF Hit
<1> QED BY <1>1, <1>5, <1>6, <1>7

LEMMA ReplyHitPreserves ==
  ASSUME CacheInv, NEW g \in Goroutines, ReplyHit(g) PROVE CacheInv'
<1>1. /\ reply[g] \in Hit /\ reply'[g] \in Hit /\ reply'[g].entry = reply[g].entry
      /\ reply' = [reply EXCEPT ![g] = reply'[g]]
  BY AskedPrefetch
<1>2. /\ pc' = [pc EXCEPT ![g] = "idle"]
      /\ found' = [found EXCEPT ![g] = NoEntry]
      /\ UNCHANGED <<entries, now, sets, stopped, asked, began>>
  BY DEF ReplyHit
<1>3. reply[g] # Miss /\ reply'[g] # Miss
  BY <1>1, ValuesAssumption
<1>4. DOMAIN reply = Goroutines /\ \A h \in Goroutines \ {g} : reply'[h] = reply[h]
  BY <1>1 DEF CacheInv, TypeOK
<1>5. reply' \in [Goroutines -> Hit \cup {Miss}]
  BY <1>1 DEF CacheInv, TypeOK
<1>6. TypeOK'
  BY <1>2, <1>5 DEF CacheInv, TypeOK
<1>7. NoExpiredAnswer'
  BY <1>1, <1>2, <1>3, <1>4 DEF CacheInv, NoExpiredAnswer
<1>8. GetInv'
  BY <1>2, <1>4 DEF CacheInv, TypeOK, GetInv, Holding
<1> QED BY <1>6, <1>7, <1>8 DEF CacheInv

LEMMA SetPreserves ==
  ASSUME CacheInv, NEW q \in Question, NEW m \in Responses, Set(q, m) PROVE CacheInv'
<1>1. PICK kept \in KeptBySet(entries, now) :
        entries' = Stored(entries, kept, cacheKey(q), NewEntry(NewRootQuery(q), m, sets, now))
  BY DEF Set
<1>2. NewEntry(NewRootQuery(q), m, sets, now) \in Entry
  BY NewEntryTyped DEF CacheInv, TypeOK
<1>3. kept \subseteq DOMAIN entries /\ cacheKey(q) \in Keys
  BY KeptIsSubset, KeyType
<1>4. DOMAIN entries' \subseteq Keys /\ \A k \in DOMAIN entries' : entries'[k] \in Entry
  BY <1>1, <1>2, <1>3 DEF Stored, CacheInv, TypeOK
<1>5. /\ sets' = sets + 1
      /\ UNCHANGED <<now, stopped, pc, asked, began, found, reply>>
  BY DEF Set, getVars
<1> QED BY <1>4, <1>5 DEF CacheInv, TypeOK, GetInv, Holding, NoExpiredAnswer

THEOREM CacheInvariant == Spec => []CacheInv
<1>1. CacheInv /\ [Next]_vars => CacheInv'
  <2> SUFFICES ASSUME CacheInv, [Next]_vars PROVE CacheInv'
    OBVIOUS
  <2>1. ASSUME NEW g \in Goroutines, GetStep(g) PROVE CacheInv'
    BY <2>1, CheckExpiredPreserves, DeleteExpiredPreserves, CountTheHitPreserves,
       WriteTTLsPreserves, ReplyHitPreserves DEF GetStep
  <2>2. ASSUME NEW g \in Goroutines, NEW q \in Question, Lookup(g, q) PROVE CacheInv'
    BY <2>2, LookupPreserves
  <2>3. ASSUME NEW q \in Question, NEW m \in Responses, Set(q, m) PROVE CacheInv'
    BY <2>3, SetPreserves
  <2>4. CASE Cleanup
    BY <2>4 DEF Cleanup, cleanup, LiveKeys, Restrict, getVars, CacheInv, TypeOK,
       GetInv, Holding, NoExpiredAnswer
  <2>5. CASE Stop
    BY <2>5 DEF Stop, getVars, CacheInv, TypeOK, GetInv, Holding, NoExpiredAnswer
  <2>6. CASE Tick
    <3>1. now' = now + 1 /\ UNCHANGED <<entries, sets, stopped, pc, asked, began, found, reply>>
      BY <2>6 DEF Tick, getVars
    <3> QED BY <3>1 DEF CacheInv, TypeOK, GetInv, Holding, NoExpiredAnswer
  <2>7. CASE UNCHANGED vars
    BY <2>7 DEF vars, getVars, CacheInv, TypeOK, GetInv, Holding, NoExpiredAnswer
  <2> QED BY <2>1, <2>2, <2>3, <2>4, <2>5, <2>6, <2>7 DEF Next
<1> QED BY <1>1, CacheInit, PTL DEF Spec

(***************************************************************************)
(* Entries, clocks, replies: everything has its type.                      *)
(***************************************************************************)
THEOREM TypeCorrect == Spec => []TypeOK
<1>1. CacheInv => TypeOK
  BY DEF CacheInv
<1> QED BY <1>1, CacheInvariant, PTL

(***************************************************************************)
(* A Get is not answered from an entry that expired before it was called.  *)
(***************************************************************************)
THEOREM NoExpiredAnswerHolds == Spec => []NoExpiredAnswer
<1>1. CacheInv => NoExpiredAnswer
  BY DEF CacheInv
<1> QED BY <1>1, CacheInvariant, PTL

-----------------------------------------------------------------------------
(* Every entry, in the map, in the hands of a Get or behind a reply, lives *)
(* as long as Set decided, and a reply says what was left of that.         *)
Lived(e) == e.expires = e.created + EntryTTL(e.msg)

LifeInv ==
  /\ \A k \in DOMAIN entries : Lived(entries[k])
  /\ \A g \in Goroutines : pc[g] # "idle" => Lived(found[g])
  /\ \A g \in Goroutines : reply[g] # Miss =>
       /\ Lived(reply[g].entry)
       /\ reply[g].ttl = ServedTTL(reply[g].entry, reply[g].at)

LEMMA CountHitLives == ASSUME NEW e \in Entry, Lived(e) PROVE Lived(CountHit(e))
BY DEF CountHit, Entry, EntryWith, Lived

THEOREM LifeInvariant == Spec => []LifeInv
<1>1. Init => LifeInv
  BY DEF Init, LifeInv
<1>2. CacheInv /\ LifeInv /\ [Next]_vars => LifeInv'
  <2> SUFFICES ASSUME CacheInv, LifeInv, [Next]_vars PROVE LifeInv'
    OBVIOUS
  <2>1. ASSUME NEW g \in Goroutines, NEW q \in Question, Lookup(g, q) PROVE LifeInv'
    BY <2>1 DEF Lookup, LifeInv, CacheInv, TypeOK
  <2>2. ASSUME NEW g \in Goroutines, CheckExpired(g) \/ DeleteExpired(g) PROVE LifeInv'
    BY <2>2 DEF CheckExpired, DeleteExpired, Without, Restrict, LifeInv, CacheInv, TypeOK
  <2>3. ASSUME NEW g \in Goroutines, CountTheHit(g) PROVE LifeInv'
    <3>1. \A k \in DOMAIN entries' : Lived(entries'[k])
      BY <2>3, CountHitLives DEF CountTheHit, LifeInv, CacheInv, TypeOK
    <3> QED BY <2>3, <3>1 DEF CountTheHit, LifeInv, CacheInv, TypeOK
  <2>4. ASSUME NEW g \in Goroutines, WriteTTLs(g) PROVE LifeInv'
    <3>1. \A h \in Goroutines \ {g} : reply'[h] = reply[h]
      BY <2>4 DEF WriteTTLs, CacheInv, TypeOK
    <3>2. /\ reply'[g].entry = found[g] /\ reply'[g].at = now
          /\ reply'[g].ttl = ServedTTL(found[g], now) /\ entries' = entries /\ found' = found
          /\ \A h \in Goroutines : pc'[h] # "idle" => pc[h] # "idle"
      BY <2>4 DEF WriteTTLs, CacheInv, TypeOK
    <3>3. Lived(found[g])
      BY <2>4 DEF WriteTTLs, LifeInv
    <3> QED BY <3>1, <3>2, <3>3 DEF LifeInv
  <2>7. ASSUME NEW g \in Goroutines, ReplyHit(g) PROVE LifeInv'
    <3>1. /\ reply[g] \in Hit /\ reply'[g].entry = reply[g].entry
          /\ reply'[g].at = reply[g].at /\ reply'[g].ttl = reply[g].ttl
          /\ \A h \in Goroutines \ {g} : reply'[h] = reply[h]
      BY <2>7, AskedPrefetch
    <3>2. entries' = entries /\ pc'[g] = "idle"
          /\ \A h \in Goroutines \ {g} : pc'[h] = pc[h] /\ found'[h] = found[h]
      BY <2>7 DEF ReplyHit, CacheInv, TypeOK
    <3>3. reply[g] # Miss
      BY <3>1, ValuesAssumption
    <3> QED BY <3>1, <3>2, <3>3 DEF LifeInv
  <2>5. ASSUME NEW q \in Question, NEW m \in Responses, Set(q, m) PROVE LifeInv'
    <3>1. PICK kept \in KeptBySet(entries, now) :
            entries' = Stored(entries, kept, cacheKey(q), NewEntry(NewRootQuery(q), m, sets, now))
      BY <2>5 DEF Set
    <3>2. kept \subseteq DOMAIN entries /\ Lived(NewEntry(NewRootQuery(q), m, sets, now))
      BY KeptIsSubset DEF NewEntry, Lived
    <3>3. \A k \in DOMAIN entries' : Lived(entries'[k])
      BY <3>1, <3>2 DEF Stored, LifeInv
    <3> QED BY <2>5, <3>3 DEF Set, getVars, LifeInv
  <2>6. CASE Cleanup \/ Stop \/ Tick \/ UNCHANGED vars
    BY <2>6 DEF Cleanup, Stop, Tick, cleanup, LiveKeys, Restrict, getVars, vars, LifeInv
  <2> QED BY <2>1, <2>2, <2>3, <2>4, <2>5, <2>6, <2>7 DEF Next, GetStep
<1> QED BY <1>1, <1>2, CacheInvariant, PTL DEF Spec

(***************************************************************************)
(* No hit, however it is rounded, lets a downstream cache keep an answer   *)
(* or authority record longer than its own TTL and the configured limits   *)
(* allow, nor any record longer than the message it came with.             *)
(***************************************************************************)
THEOREM RecordsNotExtendedHolds == Spec => []RecordsNotExtended
<1>1. CacheInv /\ LifeInv => RecordsNotExtended
  <2> SUFFICES ASSUME CacheInv, LifeInv, NEW g \in Goroutines, reply[g] # Miss
               PROVE  LET r == reply[g]
                          downstreamEnd == r.at + TicksPerSecond * r.ttl
                      IN  /\ r.ttl >= 1
                          /\ \/ r.ttl = 1
                             \/ /\ downstreamEnd <= r.entry.created + EntryTTL(r.entry.msg)
                                /\ \A secs \in r.entry.msg.answer \cup r.entry.msg.ns :
                                     downstreamEnd <= r.entry.created + Allowance(r.entry.msg, secs)
    BY DEF RecordsNotExtended
  <2> DEFINE r == reply[g]
  <2>1. /\ r.entry \in Entry /\ r.at \in Nat /\ Lived(r.entry)
        /\ r.ttl = ServedTTL(r.entry, r.at)
    BY DEF CacheInv, TypeOK, Hit, LifeInv
  <2>2. r.entry.msg \in Responses /\ r.entry.created \in Nat /\ r.entry.expires \in Int
    BY <2>1 DEF Entry, EntryWith
  <2>3. EntryTTL(r.entry.msg) \in Nat
    BY <2>2, EntryTTLType
  <2>4. \A secs \in r.entry.msg.answer \cup r.entry.msg.ns :
           /\ EntryTTL(r.entry.msg) <= Allowance(r.entry.msg, secs)
           /\ Allowance(r.entry.msg, secs) \in Nat
    <3> TAKE secs \in r.entry.msg.answer \cup r.entry.msg.ns
    <3>1. secs \in Nat
      BY <2>2, ResponsesAssumption
    <3>2. CASE IsNegative(r.entry.msg)
      BY <2>3, <3>2 DEF EntryTTL, Allowance
    <3>3. CASE ~IsNegative(r.entry.msg)
      <4> DEFINE n == IF 0 \in r.entry.msg.answer \cup r.entry.msg.ns THEN ZeroTTL ELSE secs
      <4>1. n \in Nat
        BY <3>1, TimesAssumption
      <4>2. TicksPerSecond * n \in Nat
        BY <4>1, TimesAssumption
      <4>3. Allowance(r.entry.msg, secs) \in Nat
        BY <3>3, <4>2, TimesAssumption DEF Allowance
      <4> QED BY <2>2, <3>3, <4>3, EntryTTLBound DEF Allowance
    <3> QED BY <3>2, <3>3
  <2>5. \/ r.ttl = 1
        \/ r.at + TicksPerSecond * r.ttl <= r.entry.expires
    BY <2>1, <2>2, ServedTTLBound
  <2>6. r.ttl \in Int /\ r.ttl >= 1 /\ TicksPerSecond * r.ttl \in Int
    BY <2>1, <2>2, ServedTTLBound, TimesAssumption
  <2> QED BY <2>1, <2>2, <2>3, <2>4, <2>5, <2>6 DEF Lived
<1> QED BY <1>1, CacheInvariant, LifeInvariant, PTL

-----------------------------------------------------------------------------
Limit == IF MaxSize = 0 THEN 1 ELSE MaxSize

(* The capacity invariant counts, so it has to know the map is finite. *)
Fits(keys) == IsFiniteSet(keys) /\ Cardinality(keys) <= Limit

LEMMA SmallerFits == ASSUME NEW S, Fits(S), NEW T, T \subseteq S PROVE Fits(T)
<1>1. IsFiniteSet(T) /\ Cardinality(T) <= Cardinality(S)
  BY FS_Subset DEF Fits
<1>2. Cardinality(T) \in Nat /\ Cardinality(S) \in Nat /\ Limit \in Nat
  BY <1>1, FS_CardinalityType, SizeAssumption DEF Fits, Limit
<1> QED BY <1>1, <1>2 DEF Fits

LEMMA OneMoreFits ==
  ASSUME NEW S, NEW x, IsFiniteSet(S), Cardinality(S) < Limit PROVE Fits(S \cup {x})
<1>0. Cardinality(S) \in Nat
  BY FS_CardinalityType
<1>1. IsFiniteSet(S \cup {x}) /\ Cardinality(S \cup {x}) <= Cardinality(S) + 1
  <2>1. CASE x \in S
    <3>1. S \cup {x} = S
      BY <2>1
    <3> QED BY <3>1, <1>0
  <2>2. CASE x \notin S
    <3>1. IsFiniteSet(S \cup {x}) /\ Cardinality(S \cup {x}) = Cardinality(S) + 1
      BY <2>2, FS_AddElement, Zenon
    <3> QED BY <3>1, <1>0
  <2> QED BY <2>1, <2>2
<1>2. Cardinality(S) \in Nat /\ Cardinality(S \cup {x}) \in Nat /\ Limit \in Nat
  BY <1>1, FS_CardinalityType, SizeAssumption DEF Limit
<1> QED BY <1>1, <1>2 DEF Fits

(* What Set keeps, it keeps with room for one more. *)
LEMMA KeptLeavesRoom ==
  ASSUME NEW es, NEW at, Fits(DOMAIN es), NEW kept \in KeptBySet(es, at)
  PROVE  IsFiniteSet(kept) /\ Cardinality(kept) < Limit
<1> DEFINE live == LiveKeys(es, at)
<1>1. live \subseteq DOMAIN es
  BY DEF LiveKeys
<1>2. IsFiniteSet(live) /\ Cardinality(live) \in Nat /\ Fits(live)
  BY <1>1, SmallerFits, FS_CardinalityType DEF Fits
<1>3. Limit \in Nat \ {0} /\ MaxSize \in Nat /\ MaxSize <= Limit
  BY SizeAssumption DEF Limit
<1>4. CASE Cardinality(DOMAIN es) < MaxSize
  <2>1. kept = DOMAIN es
    BY <1>3, <1>4, FS_CardinalityType DEF KeptBySet, Fits
  <2> QED BY <1>3, <1>4, <2>1, FS_CardinalityType DEF Fits
<1>5. CASE ~(Cardinality(DOMAIN es) < MaxSize) /\ live = {}
  <2>1. kept = {}
    BY <1>3, <1>5, FS_CardinalityType DEF KeptBySet, Fits, evictOldest
  <2> QED BY <1>3, <2>1, FS_EmptySet
<1>6. CASE ~(Cardinality(DOMAIN es) < MaxSize) /\ live # {} /\ Cardinality(live) >= MaxSize
  <2>1. PICK k \in live : kept = live \ {k}
    BY <1>3, <1>6, FS_CardinalityType DEF KeptBySet, Fits, evictOldest
  <2>2. IsFiniteSet(kept) /\ Cardinality(kept) = Cardinality(live) - 1
    BY <1>2, <2>1, FS_RemoveElement
  <2> QED BY <1>2, <1>3, <2>2 DEF Fits
<1>7. CASE ~(Cardinality(DOMAIN es) < MaxSize) /\ Cardinality(live) < MaxSize
  <2>1. kept = live
    BY <1>2, <1>3, <1>7, FS_CardinalityType DEF KeptBySet, Fits, evictOldest
  <2> QED BY <1>2, <1>3, <1>7, <2>1
<1> QED BY <1>2, <1>3, <1>4, <1>5, <1>6, <1>7

(***************************************************************************)
(* The map never holds more entries than its limit.                        *)
(***************************************************************************)
THEOREM CapacityBoundHolds == Spec => []CapacityBound
<1> DEFINE Inv == Fits(DOMAIN entries)
<1>1. Init => Inv
  <2> SUFFICES ASSUME Init PROVE Inv
    OBVIOUS
  <2>1. DOMAIN entries = {}
    BY DEF Init
  <2> QED BY <2>1, FS_EmptySet, SizeAssumption DEF Fits, Limit
<1>2. Inv /\ [Next]_vars => Inv'
  <2> SUFFICES ASSUME Inv, [Next]_vars PROVE Inv'
    OBVIOUS
  <2>1. ASSUME NEW q \in Question, NEW m \in Responses, Set(q, m) PROVE Inv'
    <3>1. PICK kept \in KeptBySet(entries, now) :
            entries' = Stored(entries, kept, cacheKey(q), NewEntry(NewRootQuery(q), m, sets, now))
      BY <2>1 DEF Set
    <3>2. IsFiniteSet(kept) /\ Cardinality(kept) < Limit
      BY <3>1, KeptLeavesRoom
    <3>3. DOMAIN entries' = kept \cup {cacheKey(q)}
      BY <3>1 DEF Stored
    <3> QED BY <3>2, <3>3, OneMoreFits
  <2>2. CASE \A q \in Question, m \in Responses : ~Set(q, m)
    <3>1. DOMAIN entries' \subseteq DOMAIN entries
      BY <2>2 DEF Next, GetStep, Lookup, CheckExpired, DeleteExpired, CountTheHit, WriteTTLs, ReplyHit,
         Cleanup, Stop, Tick, Without, Restrict, cleanup, LiveKeys, vars
    <3> QED BY <3>1, SmallerFits
  <2> QED BY <2>1, <2>2
<1>3. Inv => CapacityBound
  BY DEF Fits, Limit, CapacityBound
<1> QED BY <1>1, <1>2, <1>3, PTL DEF Spec
-----------------------------------------------------------------------------
(* DnsCache implements LossyStore: every step of the cache is a step of    *)
(* the store, or changes nothing a client of the store could see.          *)

(* Ids are handed out once, and a call's answer is a miss until it replies. *)
IdInv ==
  /\ sets <= MaxSets
  /\ \A k \in DOMAIN entries : entries[k].id < sets
  /\ \A g \in Goroutines :
       /\ pc[g] # "idle" => found[g].id < sets
       /\ pc[g] \notin {"idle", "prefetch"} => reply[g] = Miss

LEMMA CountHitKeepsId == ASSUME NEW e \in Entry PROVE CountHit(e).id = e.id
BY CountHitType DEF Entry

LEMMA EntryIdType == \A e \in Entry : e.id \in Nat
BY DEF Entry, EntryWith

THEOREM IdInvariant == Spec => []IdInv
<1>1. Init => IdInv
  BY BoundsAssumption DEF Init, IdInv
<1>2. CacheInv /\ IdInv /\ [Next]_vars => IdInv'
  <2> SUFFICES ASSUME CacheInv, IdInv, [Next]_vars PROVE IdInv'
    OBVIOUS
  <2>1. ASSUME NEW g \in Goroutines, NEW q \in Question, Lookup(g, q) PROVE IdInv'
    BY <2>1 DEF Lookup, IdInv, CacheInv, TypeOK
  <2>2. ASSUME NEW g \in Goroutines, CheckExpired(g) PROVE IdInv'
    BY <2>2 DEF CheckExpired, IdInv, CacheInv, TypeOK
  <2>3. ASSUME NEW g \in Goroutines, DeleteExpired(g) PROVE IdInv'
    BY <2>3 DEF DeleteExpired, Without, Restrict, IdInv, CacheInv, TypeOK
  <2>4. ASSUME NEW g \in Goroutines, CountTheHit(g) PROVE IdInv'
    <3>1. \A k \in DOMAIN entries' : entries'[k].id < sets
      BY <2>4, CountHitKeepsId DEF CountTheHit, IdInv, CacheInv, TypeOK
    <3> QED BY <2>4, <3>1 DEF CountTheHit, IdInv, CacheInv, TypeOK
  <2>5. ASSUME NEW g \in Goroutines, WriteTTLs(g) \/ ReplyHit(g) PROVE IdInv'
    <3>1. /\ UNCHANGED <<sets, entries>>
          /\ \A h \in Goroutines \ {g} : pc'[h] = pc[h] /\ found'[h] = found[h] /\ reply'[h] = reply[h]
          /\ pc[g] # "idle"
          /\ \/ pc'[g] = "prefetch" /\ found'[g] = found[g]
             \/ pc'[g] = "idle"
      BY <2>5 DEF WriteTTLs, ReplyHit, CacheInv, TypeOK
    <3> QED BY <3>1 DEF IdInv
  <2>6. ASSUME NEW q \in Question, NEW m \in Responses, Set(q, m) PROVE IdInv'
    <3>1. PICK kept \in KeptBySet(entries, now) :
            entries' = Stored(entries, kept, cacheKey(q), NewEntry(NewRootQuery(q), m, sets, now))
      BY <2>6 DEF Set
    <3>2. kept \subseteq DOMAIN entries /\ NewEntry(NewRootQuery(q), m, sets, now).id = sets
      BY KeptIsSubset DEF NewEntry
    <3>3. /\ sets' = sets + 1 /\ sets < MaxSets /\ sets \in Nat /\ MaxSets \in Nat
          /\ UNCHANGED <<pc, found, reply>>
      BY <2>6, BoundsAssumption DEF Set, getVars, CacheInv, TypeOK
    <3>4. \A k \in DOMAIN entries' : entries'[k].id < sets'
      BY <3>1, <3>2, <3>3, EntryIdType DEF Stored, IdInv, CacheInv, TypeOK
    <3>5. \A g \in Goroutines : /\ pc'[g] # "idle" => found'[g].id < sets'
                                /\ pc'[g] \notin {"idle", "prefetch"} => reply'[g] = Miss
      BY <3>3, EntryIdType DEF IdInv, CacheInv, GetInv, Holding
    <3> QED BY <3>3, <3>4, <3>5 DEF IdInv
  <2>7. CASE Cleanup \/ Stop \/ Tick \/ UNCHANGED vars
    BY <2>7 DEF Cleanup, Stop, Tick, cleanup, LiveKeys, Restrict, getVars, vars, IdInv
  <2> QED BY <2>1, <2>2, <2>3, <2>4, <2>5, <2>6, <2>7 DEF Next, GetStep
<1> QED BY <1>1, <1>2, CacheInvariant, PTL DEF Spec

-----------------------------------------------------------------------------
(* What a Set of room leaves out: nothing, or what is expired and perhaps  *)
(* one of the oldest of the rest.                                          *)
LEMMA EvictedIsOldest ==
  ASSUME NEW es, NEW at, NEW kept \in KeptBySet(es, at),
         NEW k \in LiveKeys(es, at) \ kept
  PROVE  /\ kept = LiveKeys(es, at) \ {k}
         /\ \A j \in LiveKeys(es, at) : es[k].created <= es[j].created
<1> DEFINE live == LiveKeys(es, at)
           oldest == {j \in live : \A i \in live : es[j].created <= es[i].created}
<1>1. live \subseteq DOMAIN es
  BY DEF LiveKeys
<1>2. kept # live /\ kept # DOMAIN es
  BY <1>1
<1>3. kept \in evictOldest(es, at)
  BY <1>2 DEF KeptBySet
<1>4. kept \in {live \ {j} : j \in oldest}
  BY <1>2, <1>3 DEF evictOldest
<1>5. PICK j \in oldest : kept = live \ {j}
  BY <1>4
<1>6. j = k
  BY <1>5
<1> QED
  BY <1>5, <1>6

(***************************************************************************)
(* A Set pushes out at most one answer that was still good, never while an *)
(* expired one stays, and never a newer one than it keeps.  IdInv matters: *)
(* the entry the Set stores is none of those that stayed.                  *)
(***************************************************************************)
THEOREM SetEvictsOldestOnlyHolds == Spec => SetEvictsOldestOnly
<1> DEFINE Evicts ==
      sets' # sets =>
        LET evicted == LiveKeys(entries, now) \ DOMAIN entries'
            stayed  == {k \in DOMAIN entries' \cap DOMAIN entries :
                          entries'[k] = entries[k]}
        IN  evicted # {} =>
              /\ Cardinality(evicted) = 1
              /\ \A k \in stayed :
                   /\ ~IsExpired(entries[k], now)
                   /\ \A v \in evicted : entries[v].created <= entries[k].created
<1>1. CacheInv /\ IdInv /\ [Next]_vars => [Evicts]_vars
  <2> SUFFICES ASSUME CacheInv, IdInv, [Next]_vars, sets' # sets PROVE Evicts
    OBVIOUS
  <2> DEFINE live    == LiveKeys(entries, now)
             evicted == live \ DOMAIN entries'
             stayed  == {k \in DOMAIN entries' \cap DOMAIN entries :
                           entries'[k] = entries[k]}
  <2> SUFFICES ASSUME evicted # {}
               PROVE  /\ Cardinality(evicted) = 1
                      /\ \A k \in stayed :
                           /\ ~IsExpired(entries[k], now)
                           /\ \A v \in evicted : entries[v].created <= entries[k].created
    BY Zenon
  <2>1. PICK q \in Question, m \in Responses : Set(q, m)
    BY DEF Next, GetStep, Lookup, CheckExpired, DeleteExpired, CountTheHit, WriteTTLs, ReplyHit,
           Cleanup, Stop, Tick, vars
  <2> DEFINE key   == cacheKey(q)
             fresh == NewEntry(NewRootQuery(q), m, sets, now)
  <2>2. PICK kept \in KeptBySet(entries, now) : entries' = Stored(entries, kept, key, fresh)
    BY <2>1 DEF Set
  <2>3. DOMAIN entries' = kept \cup {key} /\ entries'[key] = fresh
    BY <2>2 DEF Stored
  <2>4. PICK v \in live : v \notin kept /\ v \in evicted
    BY <2>3
  <2>5. kept = live \ {v} /\ \A j \in live : entries[v].created <= entries[j].created
    BY <2>4, EvictedIsOldest
  <2>6. evicted = {v}
    BY <2>3, <2>4, <2>5
  <2>7. key \notin stayed
    <3>1. fresh.id = sets /\ sets \in Nat
      BY DEF NewEntry, CacheInv, TypeOK
    <3>2. \A k \in DOMAIN entries : entries[k].id < sets
      BY DEF IdInv
    <3> QED
      BY <2>3, <3>1, <3>2
  <2>8. stayed \subseteq live
    BY <2>3, <2>5, <2>7
  <2>9. \A k \in live : ~IsExpired(entries[k], now)
    BY DEF LiveKeys
  <2>10. Cardinality(evicted) = 1
    BY <2>6, FS_Singleton
  <2> QED
    BY <2>5, <2>6, <2>8, <2>9, <2>10
<1> QED
  BY <1>1, CacheInvariant, IdInvariant, PTL DEF Spec, SetEvictsOldestOnly

-----------------------------------------------------------------------------
(* The store as LossyStore sees it. *)
store  == [k \in DOMAIN entries |-> entries[k].id]
wanted == [g \in Goroutines |-> cacheKey(asked[g])]
held   == [g \in Goroutines |-> IF pc[g] \in {"idle", "prefetch"} THEN NoEntry ELSE found[g].id]
answer == [g \in Goroutines |-> IF reply[g] = Miss THEN Miss ELSE reply[g].entry.id]

LEMMA LookupRefines ==
  ASSUME CacheInv, IdInv, NEW g \in Goroutines, NEW q \in Question, Lookup(g, q)
  PROVE  Store!Fetch(g, cacheKey(q))
<1> DEFINE key == cacheKey(q)
<1>1. pc[g] = "idle" /\ held[g] = NoEntry
  BY DEF Lookup, held
<1>2. wanted' = [wanted EXCEPT ![g] = key]
  BY DEF Lookup, wanted, CacheInv, TypeOK
<1>3. held' = [held EXCEPT ![g] = IF key \in DOMAIN store THEN store[key] ELSE NoEntry]
  <2>1. CASE key \in DOMAIN entries
    BY <2>1 DEF Lookup, held, store, CacheInv, TypeOK
  <2>2. CASE key \notin DOMAIN entries
    BY <2>2 DEF Lookup, held, store, CacheInv, TypeOK
  <2> QED BY <2>1, <2>2
<1>4. answer' = [answer EXCEPT ![g] = Miss]
  BY DEF Lookup, answer, CacheInv, TypeOK
<1>5. store' = store
  BY DEF Lookup, store
<1> QED BY <1>1, <1>2, <1>3, <1>4, <1>5 DEF Store!Fetch, store, wanted, held, answer

(* The two ways a call that holds something ends. *)
LEMMA ReplyRefines ==
  ASSUME CacheInv, IdInv, NEW g \in Goroutines, DeleteExpired(g) \/ WriteTTLs(g)
  PROVE  Store!Reply(g)
<1>1. pc[g] \notin {"idle", "prefetch"} /\ found[g] \in Entry /\ reply[g] = Miss
  BY DEF DeleteExpired, WriteTTLs, CacheInv, GetInv, Holding, IdInv
<1>2. held[g] = found[g].id /\ held[g] # NoEntry
  BY <1>1, EntryIdType, ValuesAssumption DEF held
<1>3. held' = [held EXCEPT ![g] = NoEntry]
  BY DEF DeleteExpired, WriteTTLs, held, CacheInv, TypeOK
<1>4. wanted' = wanted
  BY DEF DeleteExpired, WriteTTLs, wanted
<1>5. \E kept \in SUBSET DOMAIN store : store' = Restrict(store, kept)
  <2>1. CASE DeleteExpired(g)
    <3> DEFINE kept == DOMAIN entries \ {cacheKey(asked[g])}
    <3>1. store' = Restrict(store, kept)
      BY <2>1 DEF DeleteExpired, Without, Restrict, store
    <3> QED BY <3>1 DEF store
  <2>2. CASE WriteTTLs(g)
    <3>1. store' = Restrict(store, DOMAIN store)
      BY <2>2 DEF WriteTTLs, Restrict, store
    <3> QED BY <3>1
  <2> QED BY <2>1, <2>2
<1>6. \E a \in {held[g], Miss} : answer' = [answer EXCEPT ![g] = a]
  <2>1. CASE DeleteExpired(g)
    <3>1. answer' = [answer EXCEPT ![g] = Miss]
      BY <1>1, <2>1 DEF DeleteExpired, answer
    <3> QED BY <3>1
  <2>2. CASE WriteTTLs(g)
    <3> DEFINE hit == [entry |-> found[g], at |-> now, ttl |-> ServedTTL(found[g], now),
                       prefetch |-> FALSE]
    <3>1. hit \in Hit
      BY <1>1, ServedTTLType DEF Hit, CacheInv, TypeOK
    <3>2. hit # Miss /\ hit.entry.id = found[g].id
      BY <3>1, ValuesAssumption
    <3>3. reply' = [reply EXCEPT ![g] = hit]
      BY <2>2 DEF WriteTTLs
    <3> HIDE DEF hit
    <3>4. answer' = [answer EXCEPT ![g] = held[g]]
      BY <1>2, <3>2, <3>3 DEF answer, CacheInv, TypeOK
    <3> QED BY <3>4
  <2> QED BY <2>1, <2>2
<1>7. Store!LoseSome
  BY <1>5 DEF Store!LoseSome, Store!Restrict, Restrict, store
<1> QED BY <1>2, <1>3, <1>4, <1>6, <1>7
        DEF Store!Reply, wanted, held, answer

LEMMA SetRefines ==
  ASSUME CacheInv, IdInv, NEW q \in Question, NEW m \in Responses, Set(q, m),
         NEW id, id = sets
  PROVE  id \in Ids /\ Store!Put(cacheKey(q), id)
<1>1. PICK kept \in KeptBySet(entries, now) :
        entries' = Stored(entries, kept, cacheKey(q), NewEntry(NewRootQuery(q), m, sets, now))
  BY DEF Set
<1>2. kept \subseteq DOMAIN entries /\ NewEntry(NewRootQuery(q), m, sets, now).id = sets
  BY KeptIsSubset DEF NewEntry
<1>3. store' = [j \in kept \cup {cacheKey(q)} |-> IF j = cacheKey(q) THEN id ELSE store[j]]
  BY <1>1, <1>2 DEF Stored, store
<1>4. UNCHANGED <<wanted, held, answer>>
  BY DEF Set, getVars, wanted, held, answer
<1>5. kept \in SUBSET DOMAIN store
  BY <1>2 DEF store
<1>6. id \in Ids
  BY BoundsAssumption DEF Set, Ids, CacheInv, TypeOK
<1> QED BY <1>3, <1>4, <1>5, <1>6 DEF Store!Put, store, wanted, held, answer

LEMMA CleanupRefines ==
  ASSUME Cleanup PROVE Store!Lose
<1>1. LiveKeys(entries, now) \in SUBSET DOMAIN store
  BY DEF LiveKeys, store
<1>2. store' = Restrict(store, LiveKeys(entries, now))
  BY <1>1 DEF Cleanup, cleanup, Restrict, store
<1>3. UNCHANGED <<wanted, held, answer>>
  BY DEF Cleanup, getVars, wanted, held, answer
<1>4. Store!LoseSome
  BY <1>1, <1>2 DEF Store!LoseSome, Store!Restrict, Restrict, store
<1> QED BY <1>3, <1>4 DEF Store!Lose, wanted, held, answer

LEMMA StutterRefines ==
  ASSUME CacheInv,
         \/ \E g \in Goroutines : CheckExpired(g) \/ CountTheHit(g) \/ ReplyHit(g)
         \/ Stop \/ Tick \/ UNCHANGED vars
  PROVE  UNCHANGED <<store, wanted, held, answer>>
<1>1. ASSUME NEW g \in Goroutines, CheckExpired(g)
      PROVE UNCHANGED <<store, wanted, held, answer>>
  BY <1>1 DEF CheckExpired, store, wanted, held, answer, CacheInv, TypeOK
<1>2. ASSUME NEW g \in Goroutines, CountTheHit(g)
      PROVE UNCHANGED <<store, wanted, held, answer>>
  <2>1. store' = store
    BY <1>2, CountHitKeepsId DEF CountTheHit, store, CacheInv, TypeOK
  <2>2. UNCHANGED <<wanted, held, answer>>
    BY <1>2 DEF CountTheHit, wanted, held, answer, CacheInv, TypeOK
  <2> QED BY <2>1, <2>2
<1>3. CASE Stop \/ Tick \/ UNCHANGED vars
  BY <1>3 DEF Stop, Tick, vars, getVars, store, wanted, held, answer
<1>4. ASSUME NEW g \in Goroutines, ReplyHit(g)
      PROVE UNCHANGED <<store, wanted, held, answer>>
  <2>1. UNCHANGED <<entries, asked>>
    BY <1>4 DEF ReplyHit
  <2>2. held' = held
    BY <1>4 DEF ReplyHit, held, CacheInv, TypeOK
  <2>3. /\ reply[g] # Miss /\ reply'[g] # Miss /\ reply'[g].entry = reply[g].entry
        /\ \A h \in Goroutines \ {g} : reply'[h] = reply[h]
    BY <1>4, AskedPrefetch, ValuesAssumption
  <2>4. answer' = answer
    BY <2>3 DEF answer
  <2> QED BY <2>1, <2>2, <2>4 DEF store, wanted
<1> QED BY <1>1, <1>2, <1>3, <1>4

(***************************************************************************)
(* The cache is a lossy store: a hit is the entry that was stored under    *)
(* the key when the call looked, whatever happened to the map since.       *)
(***************************************************************************)
THEOREM Refinement == Spec => ImplementsLossyStore
<1>1. Init => Store!Init
  <2> SUFFICES ASSUME Init PROVE Store!Init
    OBVIOUS
  <2>1. asked \in [Goroutines -> Question]
    BY CacheInit DEF CacheInv, TypeOK
  <2>2. wanted \in [Goroutines -> Keys]
    BY <2>1, KeyType DEF wanted
  <2> QED BY <2>2 DEF Init, Store!Init, wanted
<1>2. CacheInv /\ IdInv /\ [Next]_vars => [Store!Next]_(Store!vars)
  <2> SUFFICES ASSUME CacheInv, IdInv, [Next]_vars PROVE [Store!Next]_(Store!vars)
    OBVIOUS
  <2>1. ASSUME NEW g \in Goroutines, NEW q \in Question, Lookup(g, q) PROVE Store!Next
    BY <2>1, LookupRefines, KeyType DEF Store!Next
  <2>2. ASSUME NEW g \in Goroutines, DeleteExpired(g) \/ WriteTTLs(g) PROVE Store!Next
    BY <2>2, ReplyRefines DEF Store!Next
  <2>3. ASSUME NEW q \in Question, NEW m \in Responses, Set(q, m) PROVE Store!Next
    <3>1. PICK id : id = sets
      OBVIOUS
    <3>2. id \in Ids /\ Store!Put(cacheKey(q), id)
      BY <2>3, <3>1, SetRefines
    <3> QED BY <3>2, KeyType DEF Store!Next
  <2>4. CASE Cleanup
    BY <2>4, CleanupRefines DEF Store!Next
  <2>5. CASE \/ \E g \in Goroutines : CheckExpired(g) \/ CountTheHit(g) \/ ReplyHit(g)
             \/ Stop \/ Tick \/ UNCHANGED vars
    <3>1. UNCHANGED <<store, wanted, held, answer>>
      BY <2>5, StutterRefines
    <3> QED BY <3>1 DEF Store!vars, store, wanted, held, answer
  <2> QED BY <2>1, <2>2, <2>3, <2>4, <2>5 DEF Next, GetStep
<1> QED BY <1>1, <1>2, CacheInvariant, IdInvariant, PTL
        DEF Spec, Store!Spec, ImplementsLossyStore
=============================================================================
