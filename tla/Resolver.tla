------------------------------ MODULE Resolver ------------------------------
(***************************************************************************)
(* internal/resolver, Resolve and prefetch: goroutines that ask the same   *)
(* questions at the same time share the cache, and through the inflight    *)
(* map one of them (the leader) resolves while the others wait for it.     *)
(*                                                                         *)
(* One member of Requests is one goroutine that calls Resolve once; it     *)
(* also names the inflightEntry it allocates when it becomes a leader, and *)
(* the prefetch goroutine its cache hit may spawn.  What the name servers  *)
(* say is the environment's choice: resolveIterative is one step with an   *)
(* arbitrary outcome, preceded by any number of lookups and stores of      *)
(* name server addresses in the same cache (extractReferral).              *)
(***************************************************************************)
EXTENDS CacheOps

CONSTANTS
  Requests,    \* goroutines that call Resolve
  Popular,     \* bound: prefetch goroutines the 30 s prefetch loop may spawn
  Asked,       \* the questions clients ask
  NSQuestions, \* the address questions (A, IN) of name servers without glue
  None,        \* no entry, no outcome
  MaxClock     \* bound: the clock stops here

ASSUME ResolverAssumption ==
  /\ Asked \subseteq Question /\ NSQuestions \subseteq Question
  /\ MaxClock \in Nat
  /\ Requests \cap Popular = {}
  /\ None \notin Requests

VARIABLES
  entries,     \* the cache
  now,         \* the clock
  pc,          \* request |-> where it is in Resolve
  question,    \* request |-> what it asks
  ctxDone,     \* request |-> its context has expired
  inflight,    \* some flight keys |-> the request whose inflightEntry it is
  joined,      \* request |-> the request whose inflightEntry it waits on
  local,       \* request |-> msg, err as resolveIterative returned them
  shared,      \* request |-> msg, err in its inflightEntry
  closed,      \* request |-> the done channel of its inflightEntry is closed
  answer,      \* request |-> what Resolve returned
  bg           \* request or Popular |-> the prefetch goroutine it names

flightVars == <<inflight, joined, local, shared, closed>>
vars == <<entries, now, pc, question, ctxDone, flightVars, answer, bg>>

(* cacheKey folds the case of the name, the inflight key does not. *)
flightKey(q) == <<q.name, q.qtype, q.qclass>>

Prefetchers == Requests \cup Popular

(* (msg, nil) or (nil, err); q is the question in the message *)
Ok(q, m) == [kind |-> "ok", question |-> q, msg |-> m]
Failed   == [kind |-> "error"]
TimedOut == [kind |-> "context"]

(* The messages a resolution of q may end with, and its outcomes. *)
Answers(q) == {Ok(NewRootQuery(q), m) : m \in Responses}
OutcomeOf(q) == Answers(q) \cup {Failed, TimedOut}

Outcome == UNION {OutcomeOf(q) : q \in Question}

ASSUME NoneAssumption == None \notin Outcome

CacheHit(e) == [kind |-> "hit", entry |-> e]

Idle == [state |-> "none"]
Resolving(q) == [state |-> "resolve", q |-> q]
Storing(q, o) == [state |-> "store", q |-> q, result |-> o]
Over(o) == [state |-> "over", result |-> o]

Init ==
  /\ entries = [k \in {} |-> None]
  /\ now = 0
  /\ pc = [r \in Requests |-> "start"]
  /\ question \in [Requests -> Asked]
  /\ ctxDone = [r \in Requests |-> FALSE]
  /\ inflight = [k \in {} |-> None]
  /\ joined = [r \in Requests |-> None]
  /\ local = [r \in Requests |-> None]
  /\ shared = [r \in Requests |-> None]
  /\ closed = [r \in Requests |-> FALSE]
  /\ answer = [r \in Requests |-> None]
  /\ bg = [p \in Prefetchers |-> Idle]

Return(r, a) ==
  /\ pc' = [pc EXCEPT ![r] = "done"]
  /\ answer' = [answer EXCEPT ![r] = a]

Goto(r, label) == pc' = [pc EXCEPT ![r] = label] /\ UNCHANGED answer

(* The message o is stored under the key of q. *)
CacheSet(q, o, by) ==
  \E kept \in KeptBySet(entries, now) :
    entries' = Stored(entries, kept, cacheKey(q), NewEntry(o.question, o.msg, by, now))

-----------------------------------------------------------------------------
(* Resolve.  cache.Get's lookup and its reads of the clock fall into one    *)
(* step here; DnsCache takes them apart.                                    *)

CheckCache(r) ==
  LET q   == question[r]
      key == cacheKey(q)
  IN  /\ pc[r] = "start"
      /\ \/ /\ key \notin DOMAIN entries
            /\ Goto(r, "join")
            /\ UNCHANGED <<entries, bg>>
         \/ /\ key \in DOMAIN entries
            /\ IsExpired(entries[key], now)
            /\ Goto(r, "drop")
            /\ UNCHANGED <<entries, bg>>
         \/ /\ key \in DOMAIN entries
            /\ ~IsExpired(entries[key], now)
            /\ Return(r, CacheHit(entries[key]))
            /\ entries' = [entries EXCEPT ![key] = CountHit(@)]
            /\ bg' = IF ShouldPrefetch(entries[key], now)
                     THEN [bg EXCEPT ![r] = Resolving(q)] ELSE bg
      /\ UNCHANGED <<now, question, ctxDone, flightVars>>

(* The expired entry Get saw is deleted, or whatever replaced it. *)
DropExpired(r) ==
  /\ pc[r] = "drop"
  /\ entries' = Without(entries, cacheKey(question[r]))
  /\ Goto(r, "join")
  /\ UNCHANGED <<now, question, ctxDone, flightVars, bg>>

(* Mutant: the map is not looked at before the entry is registered. *)
JoinUnchecked(r) ==
  LET key == flightKey(question[r])
  IN  /\ pc[r] = "join"
      /\ inflight' = [k \in DOMAIN inflight \cup {key} |->
                        IF k = key THEN r ELSE inflight[k]]
      /\ Goto(r, "resolve")
      /\ UNCHANGED <<entries, now, question, ctxDone, joined, local, shared, closed, bg>>

(* Under inflightMu: wait on the entry that is there, or become the leader. *)
Join(r) ==
  LET key == flightKey(question[r])
  IN  /\ pc[r] = "join"
      /\ IF key \in DOMAIN inflight
         THEN /\ joined' = [joined EXCEPT ![r] = inflight[key]]
              /\ Goto(r, "wait")
              /\ UNCHANGED inflight
         ELSE /\ inflight' = [k \in DOMAIN inflight \cup {key} |->
                                IF k = key THEN r ELSE inflight[k]]
              /\ Goto(r, "resolve")
              /\ UNCHANGED joined
      /\ UNCHANGED <<entries, now, question, ctxDone, local, shared, closed, bg>>

AwaitDone(r) ==
  /\ pc[r] = "wait"
  /\ closed[joined[r]]
  /\ Return(r, shared[joined[r]])
  /\ UNCHANGED <<entries, now, question, ctxDone, flightVars, bg>>

(* Mutant: who gives up takes the entry out of the map. *)
AwaitContextForgets(r) ==
  LET key == flightKey(question[r])
  IN  /\ pc[r] = "wait"
      /\ ctxDone[r]
      /\ Return(r, TimedOut)
      /\ inflight' = Restrict(inflight, DOMAIN inflight \ {key})
      /\ UNCHANGED <<entries, now, question, ctxDone, joined, local, shared, closed, bg>>

AwaitContext(r) ==
  /\ pc[r] = "wait"
  /\ ctxDone[r]
  /\ Return(r, TimedOut)
  /\ UNCHANGED <<entries, now, question, ctxDone, flightVars, bg>>

(* Any outcome, but the context's error only once the context has expired. *)
ResolveIterative(r) ==
  /\ pc[r] = "resolve"
  /\ \E o \in OutcomeOf(question[r]) :
       /\ o = TimedOut => ctxDone[r]
       /\ local' = [local EXCEPT ![r] = o]
  /\ Goto(r, "share")
  /\ UNCHANGED <<entries, now, question, ctxDone, inflight, joined, shared, closed, bg>>

(* Mutant: entry.err is not set. *)
ShareMessageOnly(r) ==
  /\ pc[r] = "share"
  /\ shared' = [shared EXCEPT ![r] = IF local[r].kind = "ok" THEN local[r] ELSE @]
  /\ Goto(r, "close")
  /\ UNCHANGED <<entries, now, question, ctxDone, inflight, joined, local, closed, bg>>

(* entry.msg = msg; entry.err = err *)
ShareResult(r) ==
  /\ pc[r] = "share"
  /\ shared' = [shared EXCEPT ![r] = local[r]]
  /\ Goto(r, "close")
  /\ UNCHANGED <<entries, now, question, ctxDone, inflight, joined, local, closed, bg>>

(* Mutant: a failed resolution does not close the channel. *)
CloseOnSuccess(r) ==
  /\ pc[r] = "close"
  /\ closed' = [closed EXCEPT ![r] = local[r].kind = "ok"]
  /\ Goto(r, "unregister")
  /\ UNCHANGED <<entries, now, question, ctxDone, inflight, joined, local, shared, bg>>

CloseDone(r) ==
  /\ pc[r] = "close"
  /\ closed' = [closed EXCEPT ![r] = TRUE]
  /\ Goto(r, "unregister")
  /\ UNCHANGED <<entries, now, question, ctxDone, inflight, joined, local, shared, bg>>

(* Mutant: a failed resolution returns before the entry is deleted. *)
UnregisterOnSuccess(r) ==
  LET key == flightKey(question[r])
  IN  /\ pc[r] = "unregister"
      /\ IF local[r].kind = "ok"
         THEN /\ inflight' = Restrict(inflight, DOMAIN inflight \ {key})
              /\ Goto(r, "cache")
         ELSE /\ UNCHANGED inflight
              /\ Return(r, local[r])
      /\ UNCHANGED <<entries, now, question, ctxDone, joined, local, shared, closed, bg>>

Unregister(r) ==
  LET key == flightKey(question[r])
  IN  /\ pc[r] = "unregister"
      /\ inflight' = Restrict(inflight, DOMAIN inflight \ {key})
      /\ IF local[r].kind = "ok"
         THEN Goto(r, "cache")
         ELSE Return(r, local[r])
      /\ UNCHANGED <<entries, now, question, ctxDone, joined, local, shared, closed, bg>>

CacheResult(r) ==
  /\ pc[r] = "cache"
  /\ CacheSet(question[r], local[r], r)
  /\ Return(r, local[r])
  /\ UNCHANGED <<now, question, ctxDone, flightVars, bg>>

-----------------------------------------------------------------------------
(* The goroutines of prefetch: not registered in inflight.                  *)

PrefetchPopular(p) ==
  /\ bg[p] = Idle
  /\ \E q \in PrefetchCandidates(entries, now) :
       bg' = [bg EXCEPT ![p] = Resolving(q)]
  /\ UNCHANGED <<entries, now, pc, question, ctxDone, flightVars, answer>>

PrefetchResolve(p) ==
  /\ bg[p].state = "resolve"
  /\ \E b \in {Over(Failed)} \cup {Storing(bg[p].q, o) : o \in Answers(bg[p].q)} :
       bg' = [bg EXCEPT ![p] = b]
  /\ UNCHANGED <<entries, now, pc, question, ctxDone, flightVars, answer>>

PrefetchStore(p) ==
  /\ bg[p].state = "store"
  /\ CacheSet(bg[p].q, bg[p].result, p)
  /\ bg' = [bg EXCEPT ![p] = Over(bg[p].result)]
  /\ UNCHANGED <<now, pc, question, ctxDone, flightVars, answer>>

-----------------------------------------------------------------------------
(* extractReferral, in the course of somebody's resolution: the address of  *)
(* a name server is looked up in the cache, and cached when it had to be    *)
(* resolved.                                                                *)
Busy(p) ==
  \/ p \in Requests /\ pc[p] = "resolve"
  \/ bg[p].state = "resolve"

LookupNS(p, q) ==
  LET key == cacheKey(q)
  IN  /\ Busy(p)
      /\ key \in DOMAIN entries
      /\ entries' = IF IsExpired(entries[key], now)
                    THEN Without(entries, key)
                    ELSE [entries EXCEPT ![key] = CountHit(@)]
      /\ UNCHANGED <<now, pc, question, ctxDone, flightVars, answer, bg>>

(* Mutant: the address is stored under the question being resolved. *)
StoreNSAsParent(p, q) ==
  /\ Busy(p)
  /\ \E o \in Answers(q) :
       CacheSet(IF p \in Requests /\ pc[p] = "resolve" THEN question[p] ELSE q, o, p)
  /\ UNCHANGED <<now, pc, question, ctxDone, flightVars, answer, bg>>

StoreNS(p, q) ==
  /\ Busy(p)
  /\ \E o \in Answers(q) : CacheSet(q, o, p)
  /\ UNCHANGED <<now, pc, question, ctxDone, flightVars, answer, bg>>

-----------------------------------------------------------------------------
(* The environment: the ticker of cleanupLoop, deadlines, time.             *)
Cleanup ==
  /\ LiveKeys(entries, now) # DOMAIN entries
  /\ entries' = cleanup(entries, now)
  /\ UNCHANGED <<now, pc, question, ctxDone, flightVars, answer, bg>>

ContextExpires(r) ==
  /\ ~ctxDone[r]
  /\ pc[r] # "done"
  /\ ctxDone' = [ctxDone EXCEPT ![r] = TRUE]
  /\ UNCHANGED <<entries, now, pc, question, flightVars, answer, bg>>

Tick ==
  /\ now < MaxClock
  /\ now' = now + 1
  /\ UNCHANGED <<entries, pc, question, ctxDone, flightVars, answer, bg>>

LeaderStep(r) ==
  \/ ResolveIterative(r) \/ ShareResult(r) \/ CloseDone(r)
  \/ Unregister(r) \/ CacheResult(r)

WaiterStep(r) == AwaitDone(r) \/ AwaitContext(r)

ResolveStep(r) ==
  CheckCache(r) \/ DropExpired(r) \/ Join(r) \/ WaiterStep(r) \/ LeaderStep(r)

PrefetchStep(p) == PrefetchResolve(p) \/ PrefetchStore(p)

Next ==
  \/ \E r \in Requests : ResolveStep(r) \/ ContextExpires(r)
  \/ \E p \in Popular : PrefetchPopular(p)
  \/ \E p \in Prefetchers :
       PrefetchStep(p) \/ \E q \in NSQuestions : LookupNS(p, q) \/ StoreNS(p, q)
  \/ Cleanup
  \/ Tick

(***************************************************************************)
(* Goroutines are scheduled, every exchange with a name server ends by     *)
(* its timeout and MaxDepth bounds their number, so a resolution ends.  No *)
(* deadline has to expire for a request to be answered, and nobody is      *)
(* obliged to ask, to prefetch or to clean up.                             *)
(***************************************************************************)
Fairness ==
  \A r \in Requests :
    WF_vars(DropExpired(r) \/ Join(r) \/ WaiterStep(r) \/ LeaderStep(r))

Spec == Init /\ [][Next]_vars /\ Fairness

-----------------------------------------------------------------------------
Entry == EntryWith(Prefetchers)

TypeOK ==
  /\ DOMAIN entries \subseteq Keys
  /\ \A k \in DOMAIN entries : entries[k] \in Entry
  /\ now \in Nat
  /\ pc \in [Requests -> {"start", "drop", "join", "wait", "resolve", "share",
                          "close", "unregister", "cache", "done"}]
  /\ question \in [Requests -> Question]
  /\ ctxDone \in [Requests -> BOOLEAN]
  /\ DOMAIN inflight \subseteq {flightKey(q) : q \in Question}
  /\ \A k \in DOMAIN inflight : inflight[k] \in Requests
  /\ joined \in [Requests -> Requests \cup {None}]
  /\ local \in [Requests -> Outcome \cup {None}]
  /\ shared \in [Requests -> Outcome \cup {None}]
  /\ closed \in [Requests -> BOOLEAN]
  /\ \A r \in Requests : answer[r] = None \/ answer[r].kind \in {"hit", "ok", "error", "context"}
  /\ \A p \in Prefetchers : bg[p].state \in {"none", "resolve", "store", "over"}

(* The leaders whose inflightEntry is, or should be, in the map. *)
Leading(r) == pc[r] \in {"resolve", "share", "close", "unregister"}

(***************************************************************************)
(* At no time do two calls of Resolve work on the same question: whoever   *)
(* comes while one is at it waits for it.                                  *)
(***************************************************************************)
SingleFlight ==
  \A r, s \in Requests :
    Leading(r) /\ Leading(s) /\ flightKey(question[r]) = flightKey(question[s])
      => r = s

(***************************************************************************)
(* The inflight map holds the entry of every working leader and nothing    *)
(* else: delete(r.inflight, key) never takes away another call's entry, no *)
(* entry leaks, and when all calls have returned the map is empty.         *)
(***************************************************************************)
InflightExact ==
  /\ \A k \in DOMAIN inflight :
       Leading(inflight[k]) /\ flightKey(question[inflight[k]]) = k
  /\ \A r \in Requests : Leading(r) =>
       /\ flightKey(question[r]) \in DOMAIN inflight
       /\ inflight[flightKey(question[r])] = r

(***************************************************************************)
(* Nobody waits on an entry whose leader is gone without having closed its *)
(* channel, and a channel is closed only over the final result.            *)
(***************************************************************************)
NoOrphanedWaiter ==
  \A r \in Requests : pc[r] = "wait" =>
    LET l == joined[r]
    IN  /\ l \in Requests \ {r}
        /\ flightKey(question[l]) = flightKey(question[r])
        /\ closed[l] \/ pc[l] \in {"resolve", "share", "close"}

(***************************************************************************)
(* Everyone who returned from waiting got what the leader of the same      *)
(* question obtained, or the error of its own expired context; in          *)
(* particular nobody returns the (nil, nil) an entry starts with.          *)
(***************************************************************************)
WaitersAgree ==
  \A r \in Requests : (pc[r] = "done" /\ joined[r] # None) =>
    LET l == joined[r]
    IN  /\ flightKey(question[l]) = flightKey(question[r])
        /\ \/ answer[r] = TimedOut /\ ctxDone[r]
           \/ /\ answer[r] = local[l]
              /\ local[l] \in Outcome
              /\ pc[l] = "done" => answer[l] = answer[r]

(***************************************************************************)
(* Only answers get into the cache, each under the key of a question that  *)
(* has its name and type, and a call returns an answer to its own question *)
(* whether it resolved it, waited for it or found it: what is cached is    *)
(* the message a call returned, a prefetch obtained or the look-up of a    *)
(* name server did, never the outcome of another question, however the     *)
(* calls, the prefetches and the look-ups that share it interleave.  (The  *)
(* class is IN in every message, whatever class was asked.)                *)
(***************************************************************************)
Fits(e, k) == \E q \in Question : cacheKey(q) = k /\ NewRootQuery(q) = e.question

CachedWasAnswered ==
  /\ \A k \in DOMAIN entries :
       LET e == entries[k]
           p == e.id
           o == Ok(e.question, e.msg)
       IN  /\ Fits(e, k)
           /\ \/ p \in Requests /\ pc[p] = "done" /\ answer[p] = o
              \/ bg[p] = Over(o)
              \/ \E q \in NSQuestions : o \in Answers(q)
  /\ \A r \in Requests : pc[r] = "done" =>
       /\ answer[r].kind = "ok" => answer[r] \in Answers(question[r])
       /\ answer[r].kind = "hit" => Fits(answer[r].entry, cacheKey(question[r]))

(***************************************************************************)
(* Channel, map and program counters keep the promise of Flights: whoever  *)
(* asks while a call works on his question gets that call's outcome, which *)
(* is settled once, before the channel is closed; whoever asks after it    *)
(* has left the map does not.  Hits in the cache are beside the flights.   *)
(***************************************************************************)
Shared == INSTANCE Flights WITH
  Callers  <- Requests,
  Keys     <- {flightKey(q) : q \in Question},
  Outcomes <- Outcome,
  Expired  <- TimedOut,
  Known    <- "hit",
  wanted   <- [r \in Requests |-> flightKey(question[r])],
  late     <- {r \in Requests : ctxDone[r]},
  flying   <- inflight,
  aboard   <- [r \in Requests |-> IF Leading(r) \/ local[r] # None THEN r ELSE joined[r]],
  landed   <- local,
  answer   <- [r \in Requests |-> IF pc[r] = "done" /\ answer[r].kind = "hit" THEN "hit" ELSE answer[r]]

ImplementsFlights == Shared!Spec

(***************************************************************************)
(* No lost wake-up, no deadlock between waiters and leaders: every call of *)
(* Resolve returns, although no context expires.                           *)
(***************************************************************************)
EveryCallReturns ==
  \A r \in Requests : pc[r] # "start" ~> pc[r] = "done"
=============================================================================
