------------------------------ MODULE DnsCache ------------------------------
(***************************************************************************)
(* internal/cache: the DNS cache shared by every goroutine of the server.  *)
(*                                                                         *)
(* Set, cleanup and PrefetchCandidates hold c.mu throughout and are one    *)
(* step each.  Get is not: it looks the entry up under RLock, lets go of   *)
(* the lock, reads the clock, takes the lock again to delete the key or to *)
(* count the hit, and reads the clock once more for the TTL it serves and  *)
(* again to see whether to prefetch.  Every one of these is a step here,   *)
(* so another goroutine's Set, cleanup or Get may fall between any two.    *)
(***************************************************************************)
EXTENDS CacheOps

CONSTANTS
  Goroutines,  \* callers of Get
  NoEntry,     \* a Get that holds no entry
  Miss,        \* the reply (nil, false, false)
  MaxClock,    \* bound: the clock stops here
  MaxSets      \* bound: calls of Set

ASSUME BoundsAssumption == MaxClock \in Nat /\ MaxSets \in Nat

VARIABLES
  entries,     \* some keys |-> the entry cached under it
  now,         \* the clock
  sets,        \* calls of Set so far; the id of the next entry
  stopped,     \* stopCleanup is closed
  pc,          \* goroutine |-> where it is in Get
  asked,       \* goroutine |-> the question of its last Get
  began,       \* goroutine |-> when that Get was called
  found,       \* goroutine |-> the entry it looked up
  reply        \* goroutine |-> what its last Get returned, or is about to

getVars == <<pc, asked, began, found, reply>>
vars == <<entries, now, sets, stopped, getVars>>

Entry == EntryWith(Nat)

Hit == [entry : Entry, at : Nat, ttl : Int, prefetch : BOOLEAN]

ASSUME ValuesAssumption == NoEntry \notin Nat /\ Miss \notin Hit

Init ==
  /\ entries = [k \in {} |-> NoEntry]
  /\ now = 0
  /\ sets = 0
  /\ stopped = FALSE
  /\ pc = [g \in Goroutines |-> "idle"]
  /\ asked = [g \in Goroutines |-> CHOOSE q \in Question : TRUE]
  /\ began = [g \in Goroutines |-> 0]
  /\ found = [g \in Goroutines |-> NoEntry]
  /\ reply = [g \in Goroutines |-> Miss]

-----------------------------------------------------------------------------
(* Get, one action per critical section or read of the clock. *)

Lookup(g, q) ==
  /\ pc[g] = "idle"
  /\ asked' = [asked EXCEPT ![g] = q]
  /\ began' = [began EXCEPT ![g] = now]
  /\ reply' = [reply EXCEPT ![g] = Miss]
  /\ IF cacheKey(q) \in DOMAIN entries
     THEN /\ found' = [found EXCEPT ![g] = entries[cacheKey(q)]]
          /\ pc' = [pc EXCEPT ![g] = "check"]
     ELSE UNCHANGED <<found, pc>>
  /\ UNCHANGED <<entries, now, sets, stopped>>

(* Mutant: Get does not look at the expiry. *)
CheckNothing(g) ==
  /\ pc[g] = "check"
  /\ pc' = [pc EXCEPT ![g] = "count"]
  /\ UNCHANGED <<entries, now, sets, stopped, asked, began, found, reply>>

CheckExpired(g) ==
  /\ pc[g] = "check"
  /\ pc' = [pc EXCEPT ![g] = IF IsExpired(found[g], now) THEN "delete" ELSE "count"]
  /\ UNCHANGED <<entries, now, sets, stopped, asked, began, found, reply>>

(* delete(c.entries, key): whatever is under the key by now *)
DeleteExpired(g) ==
  /\ pc[g] = "delete"
  /\ entries' = Without(entries, cacheKey(asked[g]))
  /\ pc' = [pc EXCEPT ![g] = "idle"]
  /\ found' = [found EXCEPT ![g] = NoEntry]
  /\ UNCHANGED <<now, sets, stopped, asked, began, reply>>

(* entry.HitCount++: through the pointer, so an entry that has left the map *)
(* meanwhile is counted where no one looks.                                 *)
CountTheHit(g) ==
  LET key == cacheKey(asked[g])
  IN  /\ pc[g] = "count"
      /\ entries' = IF key \in DOMAIN entries /\ entries[key].id = found[g].id
                    THEN [entries EXCEPT ![key] = CountHit(@)]
                    ELSE entries
      /\ pc' = [pc EXCEPT ![g] = "reply"]
      /\ UNCHANGED <<now, sets, stopped, asked, began, found, reply>>

(* Mutant: the reply is made from what is under the key by now. *)
WriteTTLsReread(g) ==
  LET key == cacheKey(asked[g])
      e   == IF key \in DOMAIN entries THEN entries[key] ELSE found[g]
  IN  /\ pc[g] = "reply"
      /\ reply' = [reply EXCEPT ![g] =
                     [entry |-> e, at |-> now, ttl |-> ServedTTL(e, now),
                      prefetch |-> FALSE]]
      /\ pc' = [pc EXCEPT ![g] = "prefetch"]
      /\ UNCHANGED <<entries, now, sets, stopped, asked, began, found>>

(* The copy of the message is made and its records get their TTL. *)
WriteTTLs(g) ==
  /\ pc[g] = "reply"
  /\ reply' = [reply EXCEPT ![g] =
                 [entry |-> found[g], at |-> now, ttl |-> ServedTTL(found[g], now),
                  prefetch |-> FALSE]]
  /\ pc' = [pc EXCEPT ![g] = "prefetch"]
  /\ UNCHANGED <<entries, now, sets, stopped, asked, began, found>>

ReplyHit(g) ==
  /\ pc[g] = "prefetch"
  /\ reply' = [reply EXCEPT ![g].prefetch = ShouldPrefetch(found[g], now)]
  /\ pc' = [pc EXCEPT ![g] = "idle"]
  /\ found' = [found EXCEPT ![g] = NoEntry]
  /\ UNCHANGED <<entries, now, sets, stopped, asked, began>>

GetStep(g) ==
  CheckExpired(g) \/ DeleteExpired(g) \/ CountTheHit(g) \/ WriteTTLs(g) \/ ReplyHit(g)

-----------------------------------------------------------------------------
(* What a resolution of q returned is stored under the key of q. *)
Set(q, m) ==
  /\ sets < MaxSets
  /\ \E kept \in KeptBySet(entries, now) :
       entries' = Stored(entries, kept, cacheKey(q),
                         NewEntry(NewRootQuery(q), m, sets, now))
  /\ sets' = sets + 1
  /\ UNCHANGED <<now, stopped, getVars>>

(* One tick of cleanupLoop; without expired entries it changes nothing. *)
Cleanup ==
  /\ ~stopped
  /\ LiveKeys(entries, now) # DOMAIN entries
  /\ entries' = cleanup(entries, now)
  /\ UNCHANGED <<now, sets, stopped, getVars>>

Stop ==
  /\ ~stopped
  /\ stopped' = TRUE
  /\ UNCHANGED <<entries, now, sets, getVars>>

Tick ==
  /\ now < MaxClock
  /\ now' = now + 1
  /\ UNCHANGED <<entries, sets, stopped, getVars>>

Next ==
  \/ \E g \in Goroutines : GetStep(g) \/ \E q \in Question : Lookup(g, q)
  \/ \E q \in Question, m \in Responses : Set(q, m)
  \/ Cleanup
  \/ Stop
  \/ Tick

(* The goroutines keep running and the ticker of cleanupLoop keeps firing.  *)
(* Nobody is obliged to call Get, Set or Stop.                              *)
Fairness ==
  /\ WF_vars(Cleanup)
  /\ \A g \in Goroutines : WF_vars(GetStep(g))

Spec == Init /\ [][Next]_vars /\ Fairness

-----------------------------------------------------------------------------
TypeOK ==
  /\ DOMAIN entries \subseteq Keys
  /\ \A k \in DOMAIN entries : entries[k] \in Entry
  /\ now \in Nat
  /\ sets \in Nat
  /\ stopped \in BOOLEAN
  /\ pc \in [Goroutines -> {"idle", "check", "delete", "count", "reply", "prefetch"}]
  /\ asked \in [Goroutines -> Question]
  /\ began \in [Goroutines -> Nat]
  /\ found \in [Goroutines -> Entry \cup {NoEntry}]
  /\ reply \in [Goroutines -> Hit \cup {Miss}]

(***************************************************************************)
(* The map never outgrows its limit, in whatever order Sets, cleanups and  *)
(* the deletes of Get come.  (Set makes room for one entry before it       *)
(* stores one; a limit of 0 therefore still leaves one entry.)             *)
(***************************************************************************)
CapacityBound ==
  Cardinality(DOMAIN entries) <= (IF MaxSize = 0 THEN 1 ELSE MaxSize)

(***************************************************************************)
(* A Set pushes out at most one answer that was still good, never while an *)
(* expired one is left in the map, and never a newer one than it keeps.    *)
(***************************************************************************)
SetEvictsOldestOnly ==
  [][ sets' # sets =>
        LET evicted == LiveKeys(entries, now) \ DOMAIN entries'
            stayed  == {k \in DOMAIN entries' \cap DOMAIN entries :
                          entries'[k] = entries[k]}
        IN  evicted # {} =>
              /\ Cardinality(evicted) = 1
              /\ \A k \in stayed :
                   /\ ~IsExpired(entries[k], now)
                   /\ \A v \in evicted : entries[v].created <= entries[k].created
    ]_vars

(***************************************************************************)
(* A Get that was called after an entry had expired is not answered from   *)
(* it, although Get reads the clock without the lock, and the entry it     *)
(* holds may be replaced, deleted or evicted while it works.               *)
(***************************************************************************)
NoExpiredAnswer ==
  \A g \in Goroutines : reply[g] # Miss => began[g] <= reply[g].entry.expires

(***************************************************************************)
(* No answer or authority record is kept alive past its own TTL: a         *)
(* downstream cache that obeys the TTL written into a hit drops it at most *)
(* a second after the TTL upstream gave it, raised to MinTTL, has run out; *)
(* with a negative answer, after NegativeTTL.  One record with a zero TTL  *)
(* gives all of its message ZeroTTL, those with less included.  A reply    *)
(* overtaken by the expiry while Get was running says one second.  The     *)
(* additional records are dropped with their message: neither later, nor   *)
(* any earlier if their own TTL was shorter.                               *)
(***************************************************************************)
Allowance(m, secs) ==
  IF IsNegative(m) THEN NegativeTTL
  ELSE LET ticks == TicksPerSecond * (IF 0 \in m.answer \cup m.ns THEN ZeroTTL ELSE secs)
       IN  IF ticks < MinTTL THEN MinTTL ELSE ticks

RecordsNotExtended ==
  \A g \in Goroutines : reply[g] # Miss =>
    LET r == reply[g]
        downstreamEnd == r.at + TicksPerSecond * r.ttl
    IN  /\ r.ttl >= 1
        /\ \/ r.ttl = 1
           \/ /\ downstreamEnd <= r.entry.created + EntryTTL(r.entry.msg)
              /\ \A secs \in r.entry.msg.answer \cup r.entry.msg.ns :
                   downstreamEnd <= r.entry.created + Allowance(r.entry.msg, secs)

(***************************************************************************)
(* An expired entry that nobody asks for again does not stay in memory for *)
(* ever: cleanupLoop gets it unless the cache has been stopped.            *)
(***************************************************************************)
Holds(k, id) == k \in DOMAIN entries /\ entries[k].id = id

ExpiredIsRemoved ==
  \A k \in Keys, id \in 0 .. MaxSets - 1 :
    (Holds(k, id) /\ IsExpired(entries[k], now)) ~> (~Holds(k, id) \/ stopped)

(***************************************************************************)
(* The cache is a lossy store: a Get returns the entry that was cached     *)
(* under its key at the moment of the lookup, or a miss.  Entries count    *)
(* by their identity; hit counters and clocks are below this level.  The   *)
(* answer is settled when its records have got their TTL.                  *)
(***************************************************************************)
Ids == 0 .. MaxSets - 1

Store == INSTANCE LossyStore WITH
  Clients <- Goroutines,
  Values  <- Ids,
  NoValue <- NoEntry,
  store   <- [k \in DOMAIN entries |-> entries[k].id],
  wanted  <- [g \in Goroutines |-> cacheKey(asked[g])],
  held    <- [g \in Goroutines |-> IF pc[g] \in {"idle", "prefetch"} THEN NoEntry ELSE found[g].id],
  answer  <- [g \in Goroutines |-> IF reply[g] = Miss THEN Miss ELSE reply[g].entry.id]

ImplementsLossyStore == Store!Spec
=============================================================================
