--------------------------- MODULE ResolverProofs ---------------------------
(***************************************************************************)
(* Safety of Resolver, for any number of calls, prefetch goroutines and    *)
(* questions.  First the coalescing: who leads, who waits for whom, and    *)
(* what they return.  The cache plays no part in it: FlightInv does not    *)
(* mention entries, bg or the clock.  Then, with FlightInv, the cache the  *)
(* calls share: what is in it is an answer to the question it is under.    *)
(* Last, the refinement of Flights.                                        *)
(***************************************************************************)
EXTENDS Resolver, WellFoundedInduction, TLAPS

Labels == {"start", "drop", "join", "wait", "resolve", "share",
           "close", "unregister", "cache", "done"}

ControlOK ==
  /\ pc \in [Requests -> Labels]
  /\ ctxDone \in [Requests -> BOOLEAN]
  /\ question \in [Requests -> Question]
  /\ \A k \in DOMAIN inflight : inflight[k] \in Requests
  /\ joined \in [Requests -> Requests \cup {None}]
  /\ closed \in [Requests -> BOOLEAN]
  /\ local \in [Requests -> Outcome \cup {None}]
  /\ shared \in [Requests -> Outcome \cup {None}]
  /\ answer = [r \in Requests |-> answer[r]]

(* A call's own entry: joined by nobody before it leads, final when closed. *)
EntryOK(r) ==
  /\ pc[r] \in {"start", "drop", "join", "wait", "resolve", "share", "close"} => ~closed[r]
  /\ pc[r] \in {"unregister", "cache"} => closed[r]
  /\ pc[r] \notin {"wait", "done"} => joined[r] = None
  /\ pc[r] \in {"share", "close"} => local[r] \in Outcome
  /\ pc[r] = "close" => shared[r] = local[r]
  /\ closed[r] => local[r] \in Outcome /\ shared[r] = local[r] /\ joined[r] = None
  /\ closed[r] /\ pc[r] = "done" => answer[r] = local[r]

(* What a waiter that has returned brought home. *)
WaiterOK(r) ==
  (pc[r] = "done" /\ joined[r] # None) =>
    /\ flightKey(question[joined[r]]) = flightKey(question[r])
    /\ \/ answer[r] = TimedOut /\ ctxDone[r]
       \/ closed[joined[r]] /\ answer[r] = local[joined[r]]

FlightInv ==
  /\ ControlOK
  /\ InflightExact
  /\ \A r \in Requests : EntryOK(r)
  /\ NoOrphanedWaiter
  /\ \A r \in Requests : WaiterOK(r)

flight == <<pc, ctxDone, question, inflight, joined, closed, local, shared, answer>>

-----------------------------------------------------------------------------
(* A step that touches none of the variables of the invariant preserves it. *)
LEMMA FlightStutter == ASSUME FlightInv, UNCHANGED flight PROVE FlightInv'
BY DEF FlightInv, flight, ControlOK, InflightExact, EntryOK, NoOrphanedWaiter,
       WaiterOK, Leading

(* Every question has outcomes, and they are outcomes. *)
LEMMA OutcomeOfType ==
  /\ \A q \in Question : OutcomeOf(q) \subseteq Outcome
  /\ TimedOut \in Outcome
<1>1. \A q \in Question : OutcomeOf(q) \subseteq Outcome
  BY DEF Outcome
<1>2. \E q \in Question : TimedOut \in OutcomeOf(q)
  BY QuestionAssumption DEF OutcomeOf
<1> QED BY <1>1, <1>2

LEMMA FlightInit == ASSUME Init PROVE FlightInv
BY ResolverAssumption
   DEF Init, FlightInv, ControlOK, Labels, InflightExact, EntryOK, NoOrphanedWaiter,
       WaiterOK, Leading

LEMMA CheckCachePreserves ==
  ASSUME FlightInv, NEW r \in Requests, CheckCache(r) PROVE FlightInv'
<1>1. /\ pc[r] = "start"
      /\ UNCHANGED <<ctxDone, question, inflight, joined, closed, local, shared>>
  BY DEF CheckCache, flightVars
<1>2. CASE \E label \in {"join", "drop"} : Goto(r, label)
  BY <1>1, <1>2 DEF Goto, FlightInv, ControlOK, Labels,
     InflightExact, EntryOK, NoOrphanedWaiter, WaiterOK, Leading
<1>3. CASE \E a : Return(r, a)
  BY <1>1, <1>3 DEF Return, FlightInv, ControlOK, Labels,
     InflightExact, EntryOK, NoOrphanedWaiter, WaiterOK, Leading
<1> QED BY <1>2, <1>3 DEF CheckCache

LEMMA DropExpiredPreserves ==
  ASSUME FlightInv, NEW r \in Requests, DropExpired(r) PROVE FlightInv'
BY DEF DropExpired, Goto, flightVars, FlightInv, ControlOK, Labels,
       InflightExact, EntryOK, NoOrphanedWaiter, WaiterOK, Leading

-----------------------------------------------------------------------------
LEMMA JoinPreserves ==
  ASSUME FlightInv, NEW r \in Requests, Join(r) PROVE FlightInv'
<1> DEFINE key == flightKey(question[r])
<1> USE ResolverAssumption
<1>1. CASE key \in DOMAIN inflight
  <2>1. /\ pc' = [pc EXCEPT ![r] = "wait"]
        /\ joined' = [joined EXCEPT ![r] = inflight[key]]
        /\ UNCHANGED <<ctxDone, question, inflight, closed, local, shared, answer>>
    BY <1>1 DEF Join, Goto
  <2>2. inflight[key] \in Requests \ {r}
    BY <1>1 DEF Join, FlightInv, ControlOK, InflightExact, Leading
  <2> QED BY <1>1, <2>1, <2>2 DEF Join, FlightInv, ControlOK, Labels, InflightExact,
             EntryOK, NoOrphanedWaiter, WaiterOK, Leading
<1>2. CASE key \notin DOMAIN inflight
  <2>1. /\ pc' = [pc EXCEPT ![r] = "resolve"]
        /\ inflight' = [k \in DOMAIN inflight \cup {key} |->
                          IF k = key THEN r ELSE inflight[k]]
        /\ UNCHANGED <<ctxDone, question, joined, closed, local, shared, answer>>
    BY <1>2 DEF Join, Goto
  <2> QED BY <1>2, <2>1 DEF Join, FlightInv, ControlOK, Labels, InflightExact,
             EntryOK, NoOrphanedWaiter, WaiterOK, Leading
<1> QED BY <1>1, <1>2

LEMMA AwaitDonePreserves ==
  ASSUME FlightInv, NEW r \in Requests, AwaitDone(r) PROVE FlightInv'
<1> DEFINE l == joined[r]
<1>1. /\ pc[r] = "wait" /\ closed[l]
      /\ pc' = [pc EXCEPT ![r] = "done"]
      /\ answer' = [answer EXCEPT ![r] = shared[l]]
      /\ UNCHANGED <<ctxDone, question, inflight, joined, closed, local, shared>>
  BY DEF AwaitDone, Return, flightVars
<1>2. /\ l \in Requests \ {r}
      /\ flightKey(question[l]) = flightKey(question[r])
      /\ shared[l] = local[l] /\ joined[l] = None
  <2>1. l \in Requests \ {r} /\ flightKey(question[l]) = flightKey(question[r])
    BY <1>1 DEF FlightInv, NoOrphanedWaiter
  <2>2. EntryOK(l)
    BY <2>1 DEF FlightInv
  <2> QED BY <1>1, <2>1, <2>2 DEF EntryOK
<1> QED BY <1>1, <1>2, SMTT(60) DEF FlightInv, ControlOK, Labels, InflightExact, EntryOK,
           NoOrphanedWaiter, WaiterOK, Leading

LEMMA AwaitContextPreserves ==
  ASSUME FlightInv, NEW r \in Requests, AwaitContext(r) PROVE FlightInv'
<1>1. /\ pc[r] = "wait" /\ ctxDone[r]
      /\ pc' = [pc EXCEPT ![r] = "done"]
      /\ answer' = [answer EXCEPT ![r] = TimedOut]
      /\ UNCHANGED <<ctxDone, question, inflight, joined, closed, local, shared>>
  BY DEF AwaitContext, Return, flightVars
<1>2. joined[r] \in Requests /\ flightKey(question[joined[r]]) = flightKey(question[r])
  BY <1>1 DEF FlightInv, NoOrphanedWaiter
<1> QED BY <1>1, <1>2 DEF FlightInv, ControlOK, Labels, InflightExact, EntryOK,
           NoOrphanedWaiter, WaiterOK, Leading

LEMMA ResolveIterativePreserves ==
  ASSUME FlightInv, NEW r \in Requests, ResolveIterative(r) PROVE FlightInv'
<1>1. PICK o \in Outcome : local' = [local EXCEPT ![r] = o]
  BY OutcomeOfType DEF ResolveIterative, FlightInv, ControlOK
<1>2. /\ pc[r] = "resolve" /\ pc' = [pc EXCEPT ![r] = "share"]
      /\ UNCHANGED <<ctxDone, question, inflight, joined, closed, shared, answer>>
  BY DEF ResolveIterative, Goto
<1> QED BY <1>1, <1>2 DEF FlightInv, ControlOK, Labels, InflightExact, EntryOK,
           NoOrphanedWaiter, WaiterOK, Leading

LEMMA ShareResultPreserves ==
  ASSUME FlightInv, NEW r \in Requests, ShareResult(r) PROVE FlightInv'
BY DEF ShareResult, Goto, FlightInv, ControlOK, Labels, InflightExact, EntryOK,
       NoOrphanedWaiter, WaiterOK, Leading

LEMMA CloseDonePreserves ==
  ASSUME FlightInv, NEW r \in Requests, CloseDone(r) PROVE FlightInv'
BY DEF CloseDone, Goto, FlightInv, ControlOK, Labels, InflightExact, EntryOK,
       NoOrphanedWaiter, WaiterOK, Leading

LEMMA UnregisterPreserves ==
  ASSUME FlightInv, NEW r \in Requests, Unregister(r) PROVE FlightInv'
<1> DEFINE key == flightKey(question[r])
<1>1. /\ pc[r] = "unregister"
      /\ inflight' = [k \in DOMAIN inflight \ {key} |-> inflight[k]]
      /\ UNCHANGED <<ctxDone, question, joined, closed, local, shared>>
  BY DEF Unregister, Restrict
<1>2. \/ pc' = [pc EXCEPT ![r] = "cache"] /\ UNCHANGED answer
      \/ pc' = [pc EXCEPT ![r] = "done"] /\ answer' = [answer EXCEPT ![r] = local[r]]
  BY DEF Unregister, Goto, Return
<1>3. closed[r] /\ joined[r] = None
  BY <1>1 DEF FlightInv, EntryOK
<1>4. \A s \in Requests \ {r} : Leading(s) => flightKey(question[s]) # key
  BY <1>1 DEF FlightInv, InflightExact, Leading
<1> QED BY <1>1, <1>2, <1>3, <1>4 DEF FlightInv, ControlOK, Labels, InflightExact,
           EntryOK, NoOrphanedWaiter, WaiterOK, Leading

LEMMA CacheResultPreserves ==
  ASSUME FlightInv, NEW r \in Requests, CacheResult(r) PROVE FlightInv'
<1>1. /\ pc[r] = "cache"
      /\ pc' = [pc EXCEPT ![r] = "done"]
      /\ answer' = [answer EXCEPT ![r] = local[r]]
      /\ UNCHANGED <<ctxDone, question, inflight, joined, closed, local, shared>>
  BY DEF CacheResult, Return, flightVars
<1> QED BY <1>1 DEF FlightInv, ControlOK, Labels, InflightExact, EntryOK,
           NoOrphanedWaiter, WaiterOK, Leading

LEMMA ContextExpiresPreserves ==
  ASSUME FlightInv, NEW r \in Requests, ContextExpires(r) PROVE FlightInv'
BY DEF ContextExpires, flightVars, FlightInv, ControlOK, InflightExact, EntryOK,
       NoOrphanedWaiter, WaiterOK, Leading

-----------------------------------------------------------------------------
THEOREM FlightInvariant == Spec => []FlightInv
<1>1. Init => FlightInv
  BY FlightInit
<1>2. FlightInv /\ [Next]_vars => FlightInv'
  <2> SUFFICES ASSUME FlightInv, [Next]_vars PROVE FlightInv'
    OBVIOUS
  <2>1. ASSUME NEW r \in Requests, ResolveStep(r) PROVE FlightInv'
    BY <2>1, CheckCachePreserves, DropExpiredPreserves, JoinPreserves,
       AwaitDonePreserves, AwaitContextPreserves, ResolveIterativePreserves,
       ShareResultPreserves, CloseDonePreserves, UnregisterPreserves,
       CacheResultPreserves DEF ResolveStep, WaiterStep, LeaderStep
  <2>2. ASSUME NEW r \in Requests, ContextExpires(r) PROVE FlightInv'
    BY <2>2, ContextExpiresPreserves
  <2>3. ASSUME NEW p \in Popular, PrefetchPopular(p) PROVE UNCHANGED flight
    BY <2>3 DEF PrefetchPopular, flightVars, flight
  <2>4. ASSUME NEW p \in Prefetchers, PrefetchStep(p) PROVE UNCHANGED flight
    BY <2>4 DEF PrefetchStep, PrefetchResolve, PrefetchStore, flightVars, flight
  <2>5. ASSUME NEW p \in Prefetchers, NEW q \in NSQuestions,
               LookupNS(p, q) \/ StoreNS(p, q)
        PROVE UNCHANGED flight
    BY <2>5 DEF LookupNS, StoreNS, flightVars, flight
  <2>6. CASE Cleanup \/ Tick
    BY <2>6, FlightStutter DEF Cleanup, Tick, flightVars, flight
  <2>7. CASE UNCHANGED vars
    BY <2>7, FlightStutter DEF vars, flightVars, flight
  <2> QED BY <2>1, <2>2, <2>3, <2>4, <2>5, <2>6, <2>7, FlightStutter DEF Next
<1> QED BY <1>1, <1>2, PTL DEF Spec

(***************************************************************************)
(* No two calls of Resolve resolve the same question at the same time.     *)
(***************************************************************************)
THEOREM SingleFlightHolds == Spec => []SingleFlight
<1>1. FlightInv => SingleFlight
  BY DEF FlightInv, InflightExact, SingleFlight
<1> QED BY <1>1, FlightInvariant, PTL

(***************************************************************************)
(* The inflight map holds exactly the entries of the working leaders.      *)
(***************************************************************************)
THEOREM InflightExactHolds == Spec => []InflightExact
<1>1. FlightInv => InflightExact
  BY DEF FlightInv
<1> QED BY <1>1, FlightInvariant, PTL

(***************************************************************************)
(* Whoever waits, waits for a leader that will close the channel or has.   *)
(***************************************************************************)
THEOREM NoOrphanedWaiterHolds == Spec => []NoOrphanedWaiter
<1>1. FlightInv => NoOrphanedWaiter
  BY DEF FlightInv
<1> QED BY <1>1, FlightInvariant, PTL

(***************************************************************************)
(* Whoever waited returns its leader's outcome or its own context's error. *)
(***************************************************************************)
THEOREM WaitersAgreeHolds == Spec => []WaitersAgree
<1>1. FlightInv => WaitersAgree
  BY DEF FlightInv, ControlOK, EntryOK, WaiterOK, WaitersAgree
<1> QED BY <1>1, FlightInvariant, PTL

-----------------------------------------------------------------------------
(* The cache.  BackgroundInv has the types FlightInv leaves out and says   *)
(* that a request spawns its prefetch when it hits, caches only what it    *)
(* resolved successfully, and resolves its own question.                   *)

PrefetchTypes ==
  {Idle} \cup {Resolving(q) : q \in Question}
    \cup (UNION {{Storing(q, o) : o \in Answers(q)} : q \in Question})
    \cup {Over(o) : o \in Outcome}

Kinds == {"hit", "ok", "error", "context"}

BackgroundInv ==
  /\ now \in Nat
  /\ DOMAIN inflight \subseteq {flightKey(q) : q \in Question}
  /\ \A r \in Requests : answer[r] = None \/ answer[r].kind \in Kinds
  /\ bg \in [Prefetchers -> PrefetchTypes]
  /\ \A r \in Requests : pc[r] = "start" => bg[r] = Idle
  /\ \A r \in Requests : pc[r] = "cache" => local[r].kind = "ok"
  /\ \A r \in Requests : local[r] # None => local[r] \in OutcomeOf(question[r])

(* Whose outcome an entry is. *)
Message(e) == Ok(e.question, e.msg)

Backed(e) ==
  \/ e.id \in Requests /\ pc[e.id] = "done" /\ answer[e.id] = Message(e)
  \/ bg[e.id] = Over(Message(e))
  \/ \E q \in NSQuestions : Message(e) \in Answers(q)

EntriesInv ==
  /\ DOMAIN entries \subseteq Keys
  /\ \A k \in DOMAIN entries :
       entries[k] \in Entry /\ Fits(entries[k], k) /\ Backed(entries[k])

(* What has ended has ended. *)
Settled ==
  /\ UNCHANGED question
  /\ \A r \in Requests : pc[r] = "done" => pc'[r] = "done" /\ answer'[r] = answer[r]
  /\ \A p \in Prefetchers : bg[p].state = "over" => bg'[p] = bg[p]

(* Every message has a lifetime, for a set of TTLs has a smallest one. *)
LEMMA EntryTTLType == ASSUME NEW m \in Responses PROVE EntryTTL(m) \in Nat
<1> DEFINE R == OpToRel(<, Nat)
           TTLs == m.answer \cup m.ns \cup {DefaultTTL}
<1>1. \A i, j \in Nat : i < j => <<i, j>> \in R
  BY Zenon DEF OpToRel
<1>2. IsWellFoundedOn(R, Nat)
  BY NatLessThanWellFounded
<1>3. TTLs \subseteq Nat /\ TTLs # {}
  BY ResponsesAssumption, TimesAssumption
<1> HIDE DEF R, TTLs
<1>4. PICK x \in TTLs : \A y \in TTLs : ~ (<<y, x>> \in R)
  BY <1>2, <1>3, WFMin
<1>5. \E x1 \in TTLs : \A y \in TTLs : x1 <= y
  <2>1. \A y \in TTLs : ~ (y < x)
    BY <1>1, <1>3, <1>4
  <2> QED BY <1>3, <2>1
<1>6. SmallestOf(TTLs) \in Nat
  BY <1>3, <1>5 DEF SmallestOf
<1>7. extractTTL(m) \in Nat
  BY <1>6, TimesAssumption DEF extractTTL, TTLs
<1>8. TicksPerSecond * extractTTL(m) \in Nat
  BY <1>7, TimesAssumption
<1> QED BY <1>8, TimesAssumption DEF EntryTTL

(* Set makes an entry. *)
LEMMA NewEntryType ==
  ASSUME NEW Ids, NEW q \in Question, NEW m \in Responses, NEW id \in Ids, NEW at \in Nat
  PROVE  NewEntry(q, m, id, at) \in EntryWith(Ids)
<1>1. EntryTTL(m) \in Nat /\ IsNegative(m) \in BOOLEAN
  BY EntryTTLType DEF IsNegative
<1> QED BY <1>1 DEF NewEntry, EntryWith

(* A hit changes the counter of its entry only. *)
LEMMA CountHitType ==
  ASSUME NEW Ids, NEW e \in EntryWith(Ids)
  PROVE  /\ CountHit(e) \in EntryWith(Ids)
         /\ CountHit(e).question = e.question /\ CountHit(e).msg = e.msg
         /\ CountHit(e).id = e.id
BY TimesAssumption DEF CountHit, EntryWith

LEMMA KeyType == \A q \in Question : cacheKey(q) \in Keys
BY DEF Keys

LEMMA KeptIsSubset ==
  ASSUME NEW es, NEW at, NEW kept \in KeptBySet(es, at) PROVE kept \subseteq DOMAIN es
BY DEF KeptBySet, evictOldest, LiveKeys

LEMMA OutcomeKinds ==
  ASSUME NEW o \in Outcome
  PROVE  /\ o.kind \in Kinds
         /\ \A q \in Question : o \in OutcomeOf(q) /\ o.kind = "ok" => o \in Answers(q)
         /\ \A q \in Question : o \in Answers(q) => o.kind = "ok"
BY DEF Outcome, OutcomeOf, Answers, Ok, Failed, TimedOut, Kinds

(* The parts of a message that answers q. *)
LEMMA AnswerParts ==
  ASSUME NEW q \in Question, NEW o \in Answers(q)
  PROVE  /\ o = Ok(o.question, o.msg) /\ o.question = NewRootQuery(q)
         /\ o.question \in Question /\ o.msg \in Responses /\ o \in Outcome
<1>1. PICK m \in Responses : o = Ok(NewRootQuery(q), m)
  BY DEF Answers
<1>2. NewRootQuery(q) \in Question
  BY QuestionAssumption DEF NewRootQuery, Question
<1>3. o \in OutcomeOf(q)
  BY DEF OutcomeOf
<1>4. o \in Outcome
  BY <1>3, OutcomeOfType
<1>5. o.question = NewRootQuery(q) /\ o.msg = m
  BY <1>1 DEF Ok
<1> QED BY <1>1, <1>2, <1>4, <1>5

(* The states of a prefetch tell themselves apart. *)
LEMMA PrefetchStates ==
  /\ Idle.state = "none"
  /\ \A q : Resolving(q).state = "resolve" /\ Resolving(q).q = q
  /\ \A q, o : Storing(q, o).state = "store" /\ Storing(q, o).q = q /\ Storing(q, o).result = o
  /\ \A o : Over(o).state = "over" /\ Over(o).result = o
BY DEF Idle, Resolving, Storing, Over

LEMMA PrefetchCases ==
  ASSUME NEW t
  PROVE  t \in PrefetchTypes <=>
           \/ t = Idle
           \/ \E q \in Question : t = Resolving(q)
           \/ \E q \in Question : \E o \in Answers(q) : t = Storing(q, o)
           \/ \E o \in Outcome : t = Over(o)
<1> DEFINE new  == {Resolving(q) : q \in Question}
           one(q) == {Storing(q, o) : o \in Answers(q)}
           half == UNION {one(q) : q \in Question}
           past == {Over(o) : o \in Outcome}
<1>1. \A q : t \in one(q) <=> \E o \in Answers(q) : t = Storing(q, o)
  BY Zenon
<1>2. t \in new <=> \E q \in Question : t = Resolving(q)
  BY Zenon
<1>3. t \in past <=> \E o \in Outcome : t = Over(o)
  BY Zenon
<1>4. PrefetchTypes = {Idle} \cup new \cup half \cup past
  BY SMT DEF PrefetchTypes
<1> HIDE DEF new, past, one
<1>5. t \in half <=> \E q \in Question : t \in one(q)
  BY Zenon
<1> HIDE DEF half
<1>6. t \in PrefetchTypes <=> t = Idle \/ t \in new \/ t \in half \/ t \in past
  BY <1>4
<1> QED BY <1>1, <1>2, <1>3, <1>5, <1>6, Zenon

LEMMA PrefetchParts ==
  ASSUME NEW t \in PrefetchTypes
  PROVE  /\ t.state \in {"none", "resolve", "store", "over"}
         /\ t.state = "resolve" => t.q \in Question
         /\ t.state = "store" => t.q \in Question /\ t.result \in Answers(t.q)
<1>1. CASE t = Idle
  BY <1>1, PrefetchStates
<1>2. CASE \E q \in Question : t = Resolving(q)
  BY <1>2, PrefetchStates
<1>3. CASE \E q \in Question : \E o \in Answers(q) : t = Storing(q, o)
  BY <1>3, PrefetchStates
<1>4. CASE \E o \in Outcome : t = Over(o)
  BY <1>4, PrefetchStates
<1> QED BY <1>1, <1>2, <1>3, <1>4, PrefetchCases

LEMMA BackedStays ==
  ASSUME Settled PROVE \A e \in Entry : Backed(e) => Backed(e)'
<1>1. \A e \in Entry : e.id \in Prefetchers
  BY DEF Entry, EntryWith
<1>2. \A o : Over(o).state = "over"
  BY PrefetchStates
<1> QED BY <1>1, <1>2 DEF Settled, Backed

(* An entry may lose its place or be counted a hit. *)
LEMMA FewerEntries ==
  ASSUME EntriesInv, Settled,
         \A k \in DOMAIN entries' :
           k \in DOMAIN entries /\ entries'[k] \in {entries[k], CountHit(entries[k])}
  PROVE  EntriesInv'
<1>1. \A e \in Entry : Backed(e) => Backed(e)'
  BY BackedStays
<1>2. \A e \in Entry : /\ CountHit(e) \in Entry /\ CountHit(e).question = e.question
                       /\ Backed(e) => Backed(CountHit(e))
  BY CountHitType DEF Entry, Backed, Message
<1>3. ASSUME NEW k \in DOMAIN entries'
      PROVE  /\ k \in Keys /\ entries'[k] \in Entry
             /\ Fits(entries'[k], k) /\ Backed(entries'[k])
  BY <1>2, <1>3 DEF EntriesInv, Fits
<1>4. \A k \in DOMAIN entries' : Backed(entries[k])' 
  BY <1>1, <1>3 DEF Backed
<1> QED BY <1>3, <1>4 DEF EntriesInv

LEMMA OneMoreEntry ==
  ASSUME EntriesInv, Settled, now \in Nat,
         NEW q \in Question, NEW o \in Answers(q), NEW by \in Prefetchers, CacheSet(q, o, by),
         \A e \in Entry : Message(e) = o /\ e.id = by => Backed(e)'
  PROVE  EntriesInv'
<1> DEFINE new == NewEntry(o.question, o.msg, by, now)
<1>1. /\ new \in Entry /\ Message(new) = o /\ new.id = by
      /\ new.question = NewRootQuery(q)
  <2>1. /\ new.question = o.question /\ new.msg = o.msg /\ new.id = by
    BY DEF NewEntry
  <2>2. new \in Entry
    BY AnswerParts, NewEntryType DEF Entry
  <2> HIDE DEF new
  <2> QED BY <2>1, <2>2, AnswerParts DEF Message
<1>2. PICK kept \in KeptBySet(entries, now) : entries' = Stored(entries, kept, cacheKey(q), new)
  BY DEF CacheSet
<1>3. kept \subseteq DOMAIN entries /\ cacheKey(q) \in Keys
  BY KeptIsSubset, KeyType
<1>4. \A e \in Entry : Backed(e) => Backed(e)'
  BY BackedStays
<1> HIDE DEF new
<1>5. ASSUME NEW k \in DOMAIN entries'
      PROVE  /\ k \in Keys /\ entries'[k] \in Entry
             /\ Fits(entries'[k], k) /\ Backed(entries[k])'
  <2>1. CASE k = cacheKey(q)
    <3>1. entries'[k] = new
      BY <1>2, <2>1 DEF Stored
    <3>2. Backed(entries[k])'
      BY <1>1, <3>1 DEF Backed, Message
    <3>3. Fits(entries'[k], k)
      BY <1>1, <2>1, <3>1 DEF Fits
    <3> QED BY <1>1, <1>3, <2>1, <3>1, <3>2, <3>3
  <2>2. CASE k # cacheKey(q)
    <3>1. k \in DOMAIN entries /\ entries'[k] = entries[k]
      BY <1>2, <1>3, <2>2 DEF Stored
    <3> QED BY <1>4, <3>1 DEF EntriesInv, Backed, Message
  <2> QED BY <2>1, <2>2
<1> QED BY <1>5 DEF EntriesInv, Fits

-----------------------------------------------------------------------------
(* The steps of a call. *)
LEMMA CallKeepsBackground ==
  ASSUME FlightInv, BackgroundInv, NEW r \in Requests, ResolveStep(r)
  PROVE  BackgroundInv' /\ Settled
<1> USE DEF BackgroundInv
<1>0. now' = now /\ question' = question /\ r \in Prefetchers
  BY DEF ResolveStep, CheckCache, DropExpired, Join, WaiterStep, AwaitDone, AwaitContext,
         LeaderStep, ResolveIterative, ShareResult, CloseDone, Unregister, CacheResult,
         flightVars, Prefetchers
<1>1. pc \in [Requests -> Labels] /\ question \in [Requests -> Question]
  BY DEF FlightInv, ControlOK
<1>2. answer = [s \in Requests |-> answer[s]]
  BY DEF FlightInv, ControlOK
<1>3. ASSUME CheckCache(r)
      PROVE  BackgroundInv' /\ Settled
  <2>1. pc[r] = "start" /\ bg[r] = Idle /\ UNCHANGED <<inflight, local>>
    BY <1>3 DEF CheckCache, flightVars
  <2>2. bg' = bg \/ bg' = [bg EXCEPT ![r] = Resolving(question[r])]
    BY <1>3 DEF CheckCache
  <2>3. Resolving(question[r]) \in PrefetchTypes /\ Idle.state = "none"
    BY <1>1, PrefetchStates DEF PrefetchTypes
  <2>4. bg' \in [Prefetchers -> PrefetchTypes]
    BY <2>2, <2>3
  <2>5. \/ /\ pc' = [pc EXCEPT ![r] = "join"] \/ pc' = [pc EXCEPT ![r] = "drop"]
           /\ answer' = answer
        \/ /\ pc' = [pc EXCEPT ![r] = "done"]
           /\ \E e : answer' = [answer EXCEPT ![r] = CacheHit(e)]
    BY <1>3 DEF CheckCache, Goto, Return
  <2>6. \A s \in Requests : answer'[s] = None \/ answer'[s].kind \in Kinds
    BY <1>2, <2>5 DEF CacheHit, Kinds
  <2>7. \A s \in Requests : pc'[s] = "start" => s # r /\ pc[s] = "start" /\ bg'[s] = bg[s]
    BY <1>1, <2>2, <2>5 DEF Prefetchers
  <2>8. \A s \in Requests : pc'[s] = "cache" => pc[s] = "cache"
    BY <1>1, <2>5
  <2>9. Settled
    BY <1>0, <1>1, <1>2, <2>1, <2>2, <2>3, <2>5 DEF Settled
  <2> QED BY <1>0, <2>1, <2>4, <2>6, <2>7, <2>8, <2>9
<1>4. ASSUME DropExpired(r) \/ Join(r) \/ ResolveIterative(r) \/ ShareResult(r) \/ CloseDone(r)
      PROVE  BackgroundInv' /\ Settled
  <2>1. /\ bg' = bg /\ answer' = answer /\ pc[r] \notin {"start", "cache", "done"}
        /\ \E label \in {"join", "wait", "resolve", "share", "close", "unregister"} :
             pc' = [pc EXCEPT ![r] = label]
    BY <1>4 DEF DropExpired, Join, ResolveIterative, ShareResult, CloseDone, Goto
  <2>2. \A s \in Requests : s # r => local'[s] = local[s]
    BY <1>4 DEF DropExpired, Join, ResolveIterative, ShareResult, CloseDone, flightVars,
                FlightInv, ControlOK
  <2>4. local'[r] = local[r] \/ local'[r] \in OutcomeOf(question[r])
    BY <1>4 DEF DropExpired, Join, ResolveIterative, ShareResult, CloseDone, flightVars,
                FlightInv, ControlOK
  <2>3. DOMAIN inflight' \subseteq DOMAIN inflight \cup {flightKey(question[r])}
    BY <1>4 DEF DropExpired, Join, ResolveIterative, ShareResult, CloseDone, flightVars
  <2>5. \A s \in Requests : local'[s] # None => local'[s] \in OutcomeOf(question'[s])
    BY <1>0, <2>2, <2>4
  <2> QED BY <1>0, <1>1, <2>1, <2>2, <2>3, <2>5 DEF Settled
<1>5. ASSUME AwaitDone(r) \/ AwaitContext(r)
      PROVE  BackgroundInv' /\ Settled
  <2>1. /\ bg' = bg /\ inflight' = inflight /\ local' = local /\ pc[r] = "wait"
        /\ pc' = [pc EXCEPT ![r] = "done"]
        /\ \E o \in Outcome : answer' = [answer EXCEPT ![r] = o]
    <3>1. AwaitContext(r) => answer' = [answer EXCEPT ![r] = TimedOut]
      BY DEF AwaitContext, Return
    <3>2. AwaitDone(r) => /\ answer' = [answer EXCEPT ![r] = shared[joined[r]]]
                          /\ shared[joined[r]] \in Outcome
      BY DEF AwaitDone, Return, FlightInv, NoOrphanedWaiter, EntryOK
    <3>3. TimedOut \in Outcome
      BY OutcomeOfType
    <3> QED BY <1>5, <3>1, <3>2, <3>3 DEF AwaitDone, AwaitContext, Return, flightVars
  <2> QED BY <1>0, <1>1, <1>2, <2>1, OutcomeKinds DEF Settled
<1>6. ASSUME Unregister(r)
      PROVE  BackgroundInv' /\ Settled
  <2>1. bg' = bg /\ local' = local /\ pc[r] = "unregister" /\ local[r] \in Outcome
    BY <1>6 DEF Unregister, FlightInv, EntryOK
  <2>2. DOMAIN inflight' \subseteq DOMAIN inflight
    BY <1>6 DEF Unregister, Restrict
  <2>3. \/ local[r].kind = "ok" /\ pc' = [pc EXCEPT ![r] = "cache"] /\ answer' = answer
        \/ pc' = [pc EXCEPT ![r] = "done"] /\ answer' = [answer EXCEPT ![r] = local[r]]
    BY <1>6 DEF Unregister, Goto, Return
  <2> QED BY <1>0, <1>1, <1>2, <2>1, <2>2, <2>3, OutcomeKinds DEF Settled
<1>7. ASSUME CacheResult(r)
      PROVE  BackgroundInv' /\ Settled
  <2>1. /\ bg' = bg /\ inflight' = inflight /\ local' = local /\ pc[r] = "cache"
        /\ pc' = [pc EXCEPT ![r] = "done"]
        /\ answer' = [answer EXCEPT ![r] = local[r]]
    BY <1>7 DEF CacheResult, Return, flightVars
  <2>2. local[r].kind = "ok"
    BY <2>1
  <2> QED BY <1>0, <1>1, <1>2, <2>1, <2>2 DEF Settled, Kinds
<1> QED BY <1>3, <1>4, <1>5, <1>6, <1>7 DEF ResolveStep, WaiterStep, LeaderStep

(* Of the steps of a call, CacheResult alone stores. *)
LEMMA CallKeepsEntries ==
  ASSUME FlightInv, BackgroundInv, EntriesInv, NEW r \in Requests, ResolveStep(r)
  PROVE  EntriesInv'
<1>1. Settled
  BY CallKeepsBackground
<1>2. CASE CacheResult(r)
  <2>1. /\ pc[r] = "cache" /\ pc' = [pc EXCEPT ![r] = "done"]
        /\ answer' = [answer EXCEPT ![r] = local[r]] /\ question' = question
        /\ CacheSet(question[r], local[r], r)
    BY <1>2 DEF CacheResult, Return
  <2>2. local[r] \in Outcome /\ local[r].kind = "ok"
    BY <2>1 DEF FlightInv, EntryOK, BackgroundInv
  <2>3. question[r] \in Question /\ r \in Prefetchers /\ now \in Nat
    BY DEF FlightInv, ControlOK, Prefetchers, BackgroundInv
  <2>4. local[r] \in Answers(question[r])
    BY <2>2, <2>3, OutcomeKinds, NoneAssumption DEF BackgroundInv
  <2>5. pc'[r] = "done" /\ answer'[r] = local[r]
    BY <2>1 DEF FlightInv, ControlOK
  <2>6. \A e \in Entry : Message(e) = local[r] /\ e.id = r => Backed(e)'
    BY <2>5 DEF Backed, Message
  <2> QED BY <1>1, <2>1, <2>3, <2>4, <2>6, OneMoreEntry
<1>3. CASE ~CacheResult(r)
  <2>1. \A k \in DOMAIN entries' :
           k \in DOMAIN entries /\ entries'[k] \in {entries[k], CountHit(entries[k])}
    BY <1>3 DEF ResolveStep, CheckCache, DropExpired, Join, WaiterStep, AwaitDone, AwaitContext,
         LeaderStep, ResolveIterative, ShareResult, CloseDone, Unregister, Without, Restrict
  <2> QED BY <1>1, <2>1, FewerEntries
<1> QED BY <1>2, <1>3

-----------------------------------------------------------------------------
(* The steps of the prefetches and of the referrals. *)
calls == <<now, pc, question, flightVars, answer>>

LEMMA PrefetchKeepsBackground ==
  ASSUME BackgroundInv, UNCHANGED calls,
         NEW p \in Prefetchers, NEW t \in PrefetchTypes,
         bg[p].state # "over", bg[p] = Idle => p \in Popular,
         bg' = [bg EXCEPT ![p] = t]
  PROVE  BackgroundInv' /\ Settled
<1>1. bg' \in [Prefetchers -> PrefetchTypes]
  BY DEF BackgroundInv
<1>2. \A r \in Requests : bg[r] = Idle => bg'[r] = bg[r]
  BY ResolverAssumption DEF BackgroundInv, Prefetchers
<1>3. Settled
  BY DEF Settled, calls, BackgroundInv
<1> QED BY <1>1, <1>2, <1>3 DEF BackgroundInv, calls, flightVars

LEMMA BackgroundKeeps ==
  ASSUME BackgroundInv, EntriesInv, NEW p \in Prefetchers,
         (PrefetchPopular(p) /\ p \in Popular) \/ PrefetchStep(p)
  PROVE  BackgroundInv' /\ EntriesInv'
<1>0. bg \in [Prefetchers -> PrefetchTypes] /\ now \in Nat
  BY DEF BackgroundInv
<1>1. CASE PrefetchPopular(p) /\ p \in Popular
  <2>1. PICK q \in PrefetchCandidates(entries, now) : bg' = [bg EXCEPT ![p] = Resolving(q)]
    BY <1>1 DEF PrefetchPopular
  <2>2. q \in Question
    BY DEF PrefetchCandidates, LiveKeys, EntriesInv, Entry, EntryWith
  <2>3. Resolving(q) \in PrefetchTypes
    BY <2>2 DEF PrefetchTypes
  <2>4. UNCHANGED calls /\ bg[p].state # "over" /\ entries' = entries
    BY <1>1, PrefetchStates DEF PrefetchPopular, calls
  <2>5. BackgroundInv' /\ Settled
    BY <1>1, <2>1, <2>3, <2>4, PrefetchKeepsBackground
  <2> QED BY <2>4, <2>5, FewerEntries
<1>2. CASE PrefetchResolve(p)
  <2>1. PICK t \in {Over(Failed)} \cup {Storing(bg[p].q, o) : o \in Answers(bg[p].q)} :
          bg' = [bg EXCEPT ![p] = t]
    BY <1>2 DEF PrefetchResolve
  <2>2. bg[p].q \in Question /\ bg[p] # Idle /\ bg[p].state # "over"
    BY <1>0, <1>2, PrefetchStates, PrefetchParts DEF PrefetchResolve
  <2>3. t \in PrefetchTypes
    <3>1. Failed \in Outcome
      BY <2>2, OutcomeOfType DEF OutcomeOf
    <3> QED BY <2>2, <3>1, PrefetchCases
  <2>4. UNCHANGED calls /\ entries' = entries
    BY <1>2 DEF PrefetchResolve, calls
  <2>5. BackgroundInv' /\ Settled
    BY <2>1, <2>2, <2>3, <2>4, PrefetchKeepsBackground
  <2> QED BY <2>4, <2>5, FewerEntries
<1>3. CASE PrefetchStore(p)
  <2>1. /\ bg[p].q \in Question /\ bg[p].result \in Answers(bg[p].q)
        /\ bg[p] # Idle /\ bg[p].state # "over"
    BY <1>0, <1>3, PrefetchStates, PrefetchParts DEF PrefetchStore
  <2>2. Over(bg[p].result) \in PrefetchTypes
    BY <2>1, AnswerParts, PrefetchCases
  <2>3. /\ UNCHANGED calls /\ CacheSet(bg[p].q, bg[p].result, p)
        /\ bg' = [bg EXCEPT ![p] = Over(bg[p].result)]
    BY <1>3 DEF PrefetchStore, calls
  <2>4. BackgroundInv' /\ Settled
    BY <2>1, <2>2, <2>3, PrefetchKeepsBackground
  <2>5. bg'[p] = Over(bg[p].result)
    BY <1>0, <2>3
  <2>6. \A e \in Entry : Message(e) = bg[p].result /\ e.id = p => Backed(e)'
    BY <2>5 DEF Backed, Message
  <2> QED BY <1>0, <2>1, <2>3, <2>4, <2>6, OneMoreEntry
<1> QED BY <1>1, <1>2, <1>3 DEF PrefetchStep

LEMMA ReferralKeeps ==
  ASSUME BackgroundInv, EntriesInv, NEW p \in Prefetchers, NEW q \in NSQuestions,
         LookupNS(p, q) \/ StoreNS(p, q)
  PROVE  BackgroundInv' /\ EntriesInv'
<1>1. UNCHANGED <<calls, bg>>
  BY DEF LookupNS, StoreNS, calls
<1>2. BackgroundInv' /\ Settled
  BY <1>1 DEF BackgroundInv, calls, flightVars, Settled
<1>3. CASE LookupNS(p, q)
  BY <1>2, <1>3, FewerEntries DEF LookupNS, Without, Restrict
<1>4. CASE StoreNS(p, q)
  <2>1. PICK o \in Answers(q) : CacheSet(q, o, p)
    BY <1>4 DEF StoreNS
  <2>2. q \in Question /\ now \in Nat
    BY ResolverAssumption DEF BackgroundInv
  <2>3. \A e \in Entry : Message(e) = o => Backed(e)'
    BY DEF Backed, Message
  <2> QED BY <1>2, <2>1, <2>2, <2>3, OneMoreEntry
<1> QED BY <1>2, <1>3, <1>4

THEOREM CacheInvariant == Spec => [](BackgroundInv /\ EntriesInv)
<1> DEFINE Inv == BackgroundInv /\ EntriesInv
<1>1. Init => Inv
  <2> SUFFICES ASSUME Init PROVE Inv
    OBVIOUS
  <2>1. bg \in [Prefetchers -> PrefetchTypes] /\ \A r \in Requests : bg[r] = Idle
    BY DEF Init, PrefetchTypes, Prefetchers
  <2>2. DOMAIN entries = {} /\ DOMAIN inflight = {}
    BY DEF Init
  <2> QED BY <2>1, <2>2 DEF Init, BackgroundInv, EntriesInv
<1>2. FlightInv /\ Inv /\ [Next]_vars => Inv'
  <2> SUFFICES ASSUME FlightInv, Inv, [Next]_vars PROVE Inv'
    OBVIOUS
  <2>1. ASSUME NEW r \in Requests, ResolveStep(r) PROVE Inv'
    BY <2>1, CallKeepsBackground, CallKeepsEntries
  <2>2. ASSUME NEW p \in Popular, PrefetchPopular(p) PROVE Inv'
    <3>1. p \in Prefetchers
      BY DEF Prefetchers
    <3> QED BY <2>2, <3>1, BackgroundKeeps
  <2>3. ASSUME NEW p \in Prefetchers, PrefetchStep(p) PROVE Inv'
    BY <2>3, BackgroundKeeps
  <2>4. ASSUME NEW p \in Prefetchers, NEW q \in NSQuestions, LookupNS(p, q) \/ StoreNS(p, q)
        PROVE  Inv'
    BY <2>4, ReferralKeeps
  <2>5. ASSUME \/ \E r \in Requests : ContextExpires(r)
               \/ Cleanup \/ Tick \/ UNCHANGED vars
        PROVE  Inv'
    <3>1. UNCHANGED <<pc, question, inflight, local, answer, bg>> /\ now' \in Nat
      BY <2>5 DEF ContextExpires, Cleanup, Tick, vars, flightVars, BackgroundInv
    <3>2. \A k \in DOMAIN entries' : k \in DOMAIN entries /\ entries'[k] = entries[k]
      BY <2>5 DEF ContextExpires, Cleanup, Tick, vars, cleanup, LiveKeys, Restrict
    <3>3. BackgroundInv' /\ Settled
      BY <3>1 DEF BackgroundInv, Settled
    <3> QED BY <3>2, <3>3, FewerEntries
  <2> HIDE DEF Inv
  <2> QED BY <2>1, <2>2, <2>3, <2>4, <2>5 DEF Next
<1> QED BY <1>1, <1>2, FlightInvariant, PTL DEF Spec

(***************************************************************************)
(* Everything the calls share keeps its type.                              *)
(***************************************************************************)
THEOREM TypeCorrect == Spec => []TypeOK
<1>1. FlightInv /\ BackgroundInv /\ EntriesInv => TypeOK
  <2> SUFFICES ASSUME FlightInv, BackgroundInv, EntriesInv PROVE TypeOK
    OBVIOUS
  <2>1. \A p \in Prefetchers : bg[p].state \in {"none", "resolve", "store", "over"}
    BY PrefetchParts DEF BackgroundInv
  <2> QED BY <2>1 DEF FlightInv, ControlOK, Labels, BackgroundInv, Kinds, EntriesInv, TypeOK
<1> QED BY <1>1, FlightInvariant, CacheInvariant, PTL

(* What a call that has returned brought home, on each of the three ways. *)
OwnAnswer(r) ==
  pc[r] = "done" =>
    /\ answer[r].kind = "ok" => answer[r] \in Answers(question[r])
    /\ answer[r].kind = "hit" => Fits(answer[r].entry, cacheKey(question[r]))

AnswersInv == \A r \in Requests : OwnAnswer(r)

(* Another call's step leaves it alone, and so do all other steps. *)
LEMMA OwnAnswerStays ==
  ASSUME NEW r \in Requests, OwnAnswer(r),
         pc'[r] = "done" => pc[r] = "done" /\ answer'[r] = answer[r] /\ question'[r] = question[r]
  PROVE  OwnAnswer(r)'
BY DEF OwnAnswer, Fits

LEMMA OutcomeIsOwn ==
  ASSUME NEW q \in Question, NEW o \in OutcomeOf(q)
  PROVE  /\ o.kind = "ok" => o \in Answers(q)
         /\ o.kind # "hit"
BY DEF OutcomeOf, Answers, Ok, Failed, TimedOut

LEMMA ReturnedIsOwn ==
  ASSUME FlightInv, BackgroundInv, EntriesInv, AnswersInv, NEW r \in Requests, ResolveStep(r)
  PROVE  AnswersInv'
<1>1. /\ question' = question /\ question \in [Requests -> Question]
      /\ DOMAIN pc = Requests /\ DOMAIN answer = Requests
  BY DEF ResolveStep, CheckCache, DropExpired, Join, WaiterStep, AwaitDone, AwaitContext,
         LeaderStep, ResolveIterative, ShareResult, CloseDone, Unregister, CacheResult,
         flightVars, FlightInv, ControlOK
<1>2. ASSUME NEW s \in Requests \ {r} PROVE OwnAnswer(s)'
  <2>1. pc'[s] = pc[s] /\ answer'[s] = answer[s]
    BY <1>1 DEF ResolveStep, CheckCache, DropExpired, Join, WaiterStep, AwaitDone, AwaitContext,
         LeaderStep, ResolveIterative, ShareResult, CloseDone, Unregister, CacheResult, Goto, Return
  <2> QED BY <1>1, <2>1, OwnAnswerStays DEF AnswersInv
<1>3. ASSUME NEW o \in OutcomeOf(question[r]), Return(r, o) PROVE OwnAnswer(r)'
  BY <1>1, <1>3, OutcomeIsOwn DEF Return, OwnAnswer
<1>4. ASSUME NEW label, label # "done", Goto(r, label) PROVE OwnAnswer(r)'
  BY <1>1, <1>4 DEF Goto, OwnAnswer
<1>5. ASSUME CheckCache(r) PROVE OwnAnswer(r)'
  <2>1. ASSUME NEW e, Fits(e, cacheKey(question[r])), Return(r, CacheHit(e)) PROVE OwnAnswer(r)'
    <3>1. answer'[r] = CacheHit(e)
      BY <1>1, <2>1 DEF Return
    <3>2. answer'[r].kind = "hit" /\ answer'[r].entry = e
      BY <3>1 DEF CacheHit
    <3> QED BY <1>1, <2>1, <3>2 DEF OwnAnswer, Fits
  <2>2. \A k \in DOMAIN entries : Fits(entries[k], k)
    BY DEF EntriesInv
  <2> QED BY <1>4, <1>5, <2>1, <2>2 DEF CheckCache
<1>6. ASSUME WaiterStep(r) PROVE OwnAnswer(r)'
  <2>1. TimedOut \in OutcomeOf(question[r])
    BY DEF OutcomeOf
  <2>2. ASSUME AwaitDone(r) PROVE shared[joined[r]] \in OutcomeOf(question[r])
    <3> DEFINE l == joined[r]
    <3>1. /\ pc[r] = "wait" /\ closed[l] /\ l \in Requests
          /\ flightKey(question[l]) = flightKey(question[r])
      BY <2>2 DEF AwaitDone, FlightInv, NoOrphanedWaiter
    <3>2. shared[l] = local[l] /\ local[l] \in Outcome
      BY <3>1 DEF FlightInv, EntryOK
    <3>3. question[l] = question[r]
      BY <1>1, <3>1 DEF flightKey, Question
    <3> QED BY <3>1, <3>2, <3>3, NoneAssumption DEF BackgroundInv
  <2> QED BY <1>3, <1>6, <2>1, <2>2 DEF WaiterStep, AwaitDone, AwaitContext
<1>7. ASSUME Unregister(r) \/ CacheResult(r) PROVE OwnAnswer(r)'
  <2>1. local[r] \in Outcome
    BY <1>7 DEF Unregister, CacheResult, FlightInv, EntryOK
  <2>2. local[r] \in OutcomeOf(question[r])
    BY <2>1, NoneAssumption DEF BackgroundInv
  <2> QED BY <1>3, <1>4, <1>7, <2>2 DEF Unregister, CacheResult
<1>8. ASSUME DropExpired(r) \/ Join(r) \/ ResolveIterative(r) \/ ShareResult(r) \/ CloseDone(r)
      PROVE  OwnAnswer(r)'
  BY <1>4, <1>8 DEF DropExpired, Join, ResolveIterative, ShareResult, CloseDone
<1>9. OwnAnswer(r)'
  BY <1>5, <1>6, <1>7, <1>8 DEF ResolveStep, LeaderStep
<1> QED BY <1>2, <1>9 DEF AnswersInv

LEMMA AnswersHold == Spec => []AnswersInv
<1>1. Init => AnswersInv
  BY DEF Init, AnswersInv, OwnAnswer
<1>2. FlightInv /\ BackgroundInv /\ EntriesInv /\ AnswersInv /\ [Next]_vars => AnswersInv'
  <2> SUFFICES ASSUME FlightInv, BackgroundInv, EntriesInv, AnswersInv, [Next]_vars
               PROVE  AnswersInv'
    OBVIOUS
  <2>1. ASSUME NEW r \in Requests, ResolveStep(r) PROVE AnswersInv'
    BY <2>1, ReturnedIsOwn
  <2>2. CASE \A r \in Requests : ~ResolveStep(r)
    <3>1. UNCHANGED <<pc, answer, question>>
      BY <2>2 DEF Next, ContextExpires, PrefetchPopular, PrefetchStep, PrefetchResolve,
         PrefetchStore, LookupNS, StoreNS, Cleanup, Tick, vars
    <3> QED BY <3>1, OwnAnswerStays DEF AnswersInv
  <2> QED BY <2>1, <2>2
<1> QED BY <1>1, <1>2, FlightInvariant, CacheInvariant, PTL DEF Spec

(***************************************************************************)
(* Whatever is in the cache was obtained by a call, a prefetch or the      *)
(* look-up of a server name, for a question with the name and type it is   *)
(* under; and whoever calls gets an answer to what he asked, whether he    *)
(* found it, waited for it or resolved it.  The inductive part is that all *)
(* who share a flight ask the same question, and that EntriesInv outlives  *)
(* the calls whose outcomes were cached.                                   *)
(***************************************************************************)
THEOREM CachedWasAnsweredHolds == Spec => []CachedWasAnswered
<1>1. EntriesInv /\ AnswersInv => CachedWasAnswered
  BY DEF EntriesInv, Backed, Message, AnswersInv, OwnAnswer, CachedWasAnswered
<1> QED BY <1>1, CacheInvariant, AnswersHold, PTL

-----------------------------------------------------------------------------
(* The refinement of Flights.  What it needs besides FlightInv: a call has *)
(* an outcome of its own once it has resolved, and an answer at its end.   *)

Unresolved == {"start", "drop", "join", "wait", "resolve"}

FinalInv ==
  \A r \in Requests :
    /\ pc[r] \in Unresolved \/ joined[r] # None => local[r] = None
    /\ pc[r] # "done" => answer[r] = None

LEMMA FinalStep == ASSUME FlightInv, FinalInv, [Next]_vars PROVE FinalInv'
<1>1. ASSUME NEW r \in Requests, CheckCache(r) \/ DropExpired(r) \/ Join(r) PROVE FinalInv'
  <2>1. pc[r] \in {"start", "drop", "join"} /\ joined[r] = None /\ local[r] = None
    BY <1>1 DEF CheckCache, DropExpired, Join, FlightInv, EntryOK, FinalInv, Unresolved
  <2>2. /\ \A s \in Requests \ {r} : /\ pc'[s] = pc[s] /\ joined'[s] = joined[s]
                                     /\ local'[s] = local[s] /\ answer'[s] = answer[s]
        /\ local' = local
        /\ pc'[r] # "done" => answer'[r] = answer[r]
    BY <1>1 DEF CheckCache, DropExpired, Join, Goto, Return, flightVars, FlightInv, ControlOK
  <2> QED BY <2>1, <2>2 DEF FinalInv, Unresolved
<1>2. ASSUME NEW r \in Requests, WaiterStep(r) PROVE FinalInv'
  <2>1. pc[r] = "wait" /\ local[r] = None
    BY <1>2 DEF WaiterStep, AwaitDone, AwaitContext, FinalInv, Unresolved
  <2>2. UNCHANGED <<joined, local>> /\ \E a : Return(r, a)
    BY <1>2 DEF WaiterStep, AwaitDone, AwaitContext, flightVars
  <2> QED BY <2>1, <2>2 DEF Return, FinalInv, Unresolved, FlightInv, ControlOK
<1>3. ASSUME NEW r \in Requests, LeaderStep(r) PROVE FinalInv'
  <2>1. pc[r] \in {"resolve", "share", "close", "unregister", "cache"} /\ joined[r] = None
    BY <1>3 DEF LeaderStep, ResolveIterative, ShareResult, CloseDone, Unregister, CacheResult,
       FlightInv, EntryOK
  <2>2. /\ joined' = joined /\ \A s \in Requests \ {r} : local'[s] = local[s]
        /\ pc'[r] \notin Unresolved
        /\ \/ \E label : Goto(r, label)
           \/ \E a : Return(r, a)
    BY <1>3 DEF LeaderStep, ResolveIterative, ShareResult, CloseDone, Unregister, CacheResult,
       Goto, Return, flightVars, FlightInv, ControlOK, Unresolved
  <2> QED BY <2>1, <2>2 DEF Goto, Return, FinalInv, Unresolved, FlightInv, ControlOK
<1>4. ASSUME UNCHANGED <<pc, joined, local, answer>> PROVE FinalInv'
  BY <1>4 DEF FinalInv
<1>5. ASSUME NEW r \in Requests, ContextExpires(r) PROVE UNCHANGED <<pc, joined, local, answer>>
  BY <1>5 DEF ContextExpires, flightVars
<1>6. ASSUME NEW p \in Popular, PrefetchPopular(p) PROVE UNCHANGED <<pc, joined, local, answer>>
  BY <1>6 DEF PrefetchPopular, flightVars
<1>7. ASSUME NEW p \in Prefetchers, PrefetchStep(p) PROVE UNCHANGED <<pc, joined, local, answer>>
  BY <1>7 DEF PrefetchStep, PrefetchResolve, PrefetchStore, flightVars
<1>8. ASSUME NEW p \in Prefetchers, NEW q \in NSQuestions, LookupNS(p, q) \/ StoreNS(p, q)
      PROVE  UNCHANGED <<pc, joined, local, answer>>
  BY <1>8 DEF LookupNS, StoreNS, flightVars
<1>9. CASE Cleanup \/ Tick \/ UNCHANGED vars
  BY <1>4, <1>9 DEF Cleanup, Tick, vars, flightVars
<1> QED
  BY <1>1, <1>2, <1>3, <1>4, <1>5, <1>6, <1>7, <1>8, <1>9 DEF Next, ResolveStep

LEMMA FinalHolds == Spec => []FinalInv
<1>1. Init => FinalInv
  BY DEF Init, FinalInv
<1>2. FlightInv /\ FinalInv /\ [Next]_vars => FinalInv'
  BY FinalStep
<1> QED BY <1>1, <1>2, FlightInvariant, PTL DEF Spec

(* The variables of Flights. *)
Wanted == [r \in Requests |-> flightKey(question[r])]
Late   == {r \in Requests : ctxDone[r]}
Aboard == [r \in Requests |-> IF Leading(r) \/ local[r] # None THEN r ELSE joined[r]]
Told   == [r \in Requests |-> IF pc[r] = "done" /\ answer[r].kind = "hit" THEN "hit" ELSE answer[r]]

flights == <<Wanted, Late, inflight, Aboard, local, Told>>

(* Where a call is on its flight. *)
LEMMA Boarding ==
  ASSUME FlightInv, FinalInv, NEW r \in Requests
  PROVE  /\ pc[r] \in {"start", "drop", "join"} => Aboard[r] = None
         /\ pc[r] = "wait" => Aboard[r] = joined[r] /\ joined[r] \in Requests \ {r}
         /\ pc[r] \in {"resolve", "share", "close", "unregister", "cache"} => Aboard[r] = r
         /\ pc[r] \in {"share", "close", "unregister", "cache"} => local[r] \in Outcome
         /\ pc[r] # "done" => Told[r] = None
<1>1. EntryOK(r)
  BY DEF FlightInv
<1>2. pc[r] \in {"share", "close", "unregister", "cache"} => local[r] \in Outcome
  BY <1>1 DEF EntryOK
<1>3. pc[r] \in {"start", "drop", "join"} => Aboard[r] = None
  BY <1>1 DEF EntryOK, Aboard, Leading, FinalInv, Unresolved
<1>4. pc[r] = "wait" => Aboard[r] = joined[r] /\ joined[r] \in Requests \ {r}
  BY DEF FlightInv, NoOrphanedWaiter, Aboard, Leading, FinalInv, Unresolved
<1>5. pc[r] \in {"resolve", "share", "close", "unregister", "cache"} => Aboard[r] = r
  BY <1>2, NoneAssumption DEF Aboard, Leading
<1>6. pc[r] # "done" => Told[r] = None
  BY DEF FinalInv, Told
<1> QED BY <1>2, <1>3, <1>4, <1>5, <1>6

(* Steps of r that Flights does not see. *)
LEMMA HiddenStep ==
  ASSUME FlightInv, FinalInv, NEW r \in Requests,
         \/ pc[r] \in {"start", "drop"} /\ \E label \in {"drop", "join"} : Goto(r, label)
         \/ pc[r] = "share" /\ Goto(r, "close")
         \/ pc[r] = "close" /\ Goto(r, "unregister"),
         UNCHANGED <<question, ctxDone, inflight, joined, local>>
  PROVE  UNCHANGED flights
<1>1. /\ pc \in [Requests -> Labels] /\ answer' = answer /\ answer[r] = None
      /\ pc[r] # "done" /\ pc'[r] # "done" /\ \A s \in Requests \ {r} : pc'[s] = pc[s]
      /\ Leading(r)' = Leading(r)
  BY DEF Goto, FlightInv, ControlOK, FinalInv, Leading
<1>2. \A s \in Requests : Leading(s)' = Leading(s)
  BY <1>1 DEF Leading
<1>3. Aboard' = Aboard
  BY <1>2 DEF Aboard
<1>4. Told' = Told
  BY <1>1 DEF Told
<1> QED BY <1>3, <1>4 DEF flights, Wanted, Late

(* The answer of r, for a step that ends its call. *)
LEMMA ReturnTells ==
  ASSUME FlightInv, NEW r \in Requests, NEW a, Return(r, a)
  PROVE  Told' = [Told EXCEPT ![r] = IF a.kind = "hit" THEN "hit" ELSE a]
<1>1. /\ DOMAIN answer = Requests /\ DOMAIN pc = Requests
  BY DEF FlightInv, ControlOK
<1>2. /\ pc'[r] = "done" /\ answer'[r] = a
      /\ \A s \in Requests \ {r} : pc'[s] = pc[s] /\ answer'[s] = answer[s]
  BY <1>1 DEF Return
<1> QED BY <1>2 DEF Told

LEMMA OutcomeIsNoHit == ASSUME NEW o \in Outcome PROVE o.kind # "hit"
BY DEF Outcome, OutcomeOf, Answers, Ok, Failed, TimedOut

LEMMA CheckCacheFlies ==
  ASSUME FlightInv, FinalInv, NEW r \in Requests, CheckCache(r)
  PROVE  Shared!TellKnown(r) \/ UNCHANGED flights
<1>1. pc[r] = "start" /\ UNCHANGED <<question, ctxDone, inflight, joined, local>>
  BY DEF CheckCache, flightVars
<1>2. CASE \E label \in {"drop", "join"} : Goto(r, label)
  BY <1>1, <1>2, HiddenStep
<1>3. ASSUME NEW e, Return(r, CacheHit(e)) PROVE Shared!TellKnown(r)
  <2>1. Told' = [Told EXCEPT ![r] = "hit"]
    BY <1>3, ReturnTells DEF CacheHit
  <2>2. Aboard' = Aboard
    BY <1>1, <1>3 DEF Return, Aboard, Leading, FlightInv, ControlOK
  <2>3. Aboard[r] = None /\ Told[r] = None
    BY <1>1, Boarding
  <2> QED BY <1>1, <2>1, <2>2, <2>3 DEF Shared!TellKnown, Shared!Waits, Shared!Tell, Aboard, Told
<1> QED BY <1>2, <1>3 DEF CheckCache

LEMMA JoinFlies ==
  ASSUME FlightInv, FinalInv, NEW r \in Requests, Join(r)
  PROVE  Shared!Board(r) \/ Shared!TakeOff(r)
<1> DEFINE key == flightKey(question[r])
<1>1. /\ pc[r] = "join" /\ UNCHANGED <<question, ctxDone, local, answer>> /\ Wanted[r] = key
      /\ DOMAIN pc = Requests /\ DOMAIN joined = Requests
  BY DEF Join, Goto, Wanted, FlightInv, ControlOK
<1>2. local[r] = None /\ joined[r] = None /\ Aboard[r] = None /\ Told[r] = None
  BY <1>1, Boarding DEF FinalInv, Unresolved, FlightInv, EntryOK
<1>3. ASSUME NEW label \in {"wait", "resolve"}, Goto(r, label) PROVE Told' = Told
  BY <1>1, <1>3 DEF Goto, Told, FinalInv
<1>4. CASE key \in DOMAIN inflight
  <2>1. joined' = [joined EXCEPT ![r] = inflight[key]] /\ inflight' = inflight /\ Goto(r, "wait")
    BY <1>4 DEF Join
  <2>2. /\ ~Leading(r)' /\ joined'[r] = inflight[key]
        /\ \A s \in Requests \ {r} : Leading(s)' = Leading(s) /\ joined'[s] = joined[s]
    BY <1>1, <2>1 DEF Goto, Leading
  <2>3. Aboard' = [Aboard EXCEPT ![r] = inflight[key]]
    BY <1>1, <1>2, <2>2 DEF Aboard
  <2> QED BY <1>1, <1>2, <1>3, <1>4, <2>1, <2>3 DEF Shared!Board, Shared!Waits, Wanted, Aboard, Told
<1>5. CASE key \notin DOMAIN inflight
  <2>1. /\ joined' = joined /\ Goto(r, "resolve")
        /\ inflight' = [k \in DOMAIN inflight \cup {key} |-> IF k = key THEN r ELSE inflight[k]]
    BY <1>5 DEF Join
  <2>2. Leading(r)' /\ \A s \in Requests \ {r} : Leading(s)' = Leading(s)
    BY <1>1, <2>1 DEF Goto, Leading
  <2>3. Aboard' = [Aboard EXCEPT ![r] = r]
    BY <1>1, <2>1, <2>2 DEF Aboard
  <2> QED BY <1>1, <1>2, <1>3, <1>5, <2>1, <2>3 DEF Shared!TakeOff, Shared!Waits, Wanted, Aboard, Told
<1> QED BY <1>4, <1>5

LEMMA WaiterFlies ==
  ASSUME FlightInv, FinalInv, NEW r \in Requests, WaiterStep(r)
  PROVE  Shared!TellOutcome(r) \/ Shared!GiveUp(r)
<1>1. pc[r] = "wait" /\ UNCHANGED <<question, ctxDone, inflight, joined, local>>
  BY DEF WaiterStep, AwaitDone, AwaitContext, flightVars
<1>2. Aboard[r] = joined[r] /\ joined[r] \in Requests \ {r} /\ Told[r] = None
  BY <1>1, Boarding
<1>3. ASSUME NEW a, Return(r, a) PROVE Aboard' = Aboard
  BY <1>1, <1>3 DEF Return, Aboard, Leading, FlightInv, ControlOK
<1>4. CASE AwaitDone(r)
  <2>1. closed[joined[r]] /\ Return(r, shared[joined[r]])
    BY <1>4 DEF AwaitDone
  <2>2. shared[joined[r]] = local[joined[r]] /\ local[joined[r]] \in Outcome
    BY <1>2, <2>1 DEF FlightInv, EntryOK
  <2>3. Told' = [Told EXCEPT ![r] = local[joined[r]]]
    BY <2>1, <2>2, ReturnTells, OutcomeIsNoHit
  <2> QED BY <1>1, <1>2, <1>3, <2>1, <2>2, <2>3, ResolverAssumption, NoneAssumption
          DEF Shared!TellOutcome, Shared!Waits, Shared!Tell, Aboard, Told
<1>5. CASE AwaitContext(r)
  <2>1. ctxDone[r] /\ Return(r, TimedOut)
    BY <1>5 DEF AwaitContext
  <2>2. Told' = [Told EXCEPT ![r] = TimedOut]
    BY <2>1, ReturnTells, OutcomeIsNoHit, OutcomeOfType
  <2> QED BY <1>1, <1>2, <1>3, <2>1, <2>2, ResolverAssumption
          DEF Shared!GiveUp, Shared!Waits, Shared!Tell, Aboard, Told
<1> QED BY <1>4, <1>5 DEF WaiterStep

LEMMA ResolveIterativeFlies ==
  ASSUME FlightInv, FinalInv, NEW r \in Requests, ResolveIterative(r)
  PROVE  Shared!Land(r)
<1>1. PICK o \in Outcome : (o = TimedOut => ctxDone[r]) /\ local' = [local EXCEPT ![r] = o]
  BY OutcomeOfType DEF ResolveIterative, FlightInv, ControlOK
<1>2. /\ pc[r] = "resolve" /\ Goto(r, "share")
      /\ UNCHANGED <<question, ctxDone, inflight, joined>>
  BY DEF ResolveIterative
<1>3. Aboard[r] = r /\ local[r] = None
  BY <1>2, Boarding DEF FinalInv, Unresolved
<1>4. /\ Leading(r) /\ Leading(r)'
      /\ \A s \in Requests \ {r} : Leading(s)' = Leading(s) /\ local'[s] = local[s]
  BY <1>1, <1>2 DEF Goto, Leading, FlightInv, ControlOK
<1>5. Aboard' = Aboard
  BY <1>2, <1>4 DEF Aboard
<1>6. Told' = Told
  BY <1>2 DEF Goto, Told, FlightInv, ControlOK
<1> QED BY <1>1, <1>2, <1>3, <1>5, <1>6 DEF Shared!Land, Aboard, Told

LEMMA UnregisterFlies ==
  ASSUME FlightInv, FinalInv, NEW r \in Requests, Unregister(r)
  PROVE  Shared!Close(r)
<1> DEFINE key == flightKey(question[r])
<1>1. /\ pc[r] = "unregister" /\ UNCHANGED <<question, ctxDone, joined, local>>
      /\ inflight' = [k \in DOMAIN inflight \ {key} |-> inflight[k]]
  BY DEF Unregister, Restrict
<1>2. local[r] \in Outcome /\ local[r] # None
  BY <1>1, Boarding, NoneAssumption
<1>3. key \in DOMAIN inflight /\ inflight[key] = r
  BY <1>1 DEF FlightInv, InflightExact, Leading
<1>4. ASSUME NEW label, pc' = [pc EXCEPT ![r] = label], label \in {"cache", "done"}
      PROVE  Aboard' = Aboard
  <2>1. \A s \in Requests \ {r} : Leading(s)' = Leading(s)
    BY <1>4 DEF Leading, FlightInv, ControlOK
  <2> QED BY <1>1, <1>2, <2>1 DEF Aboard
<1>5. CASE Goto(r, "cache")
  <2>1. Told' = Told
    BY <1>1, <1>5 DEF Goto, Told, FlightInv, ControlOK
  <2>2. Aboard' = Aboard
    BY <1>4, <1>5 DEF Goto
  <2> QED BY <1>1, <1>2, <1>3, <2>1, <2>2 DEF Shared!Close, Shared!Restrict, Aboard, Told
<1>6. CASE Return(r, local[r])
  <2>1. Told' = [Told EXCEPT ![r] = local[r]]
    BY <1>2, <1>6, ReturnTells, OutcomeIsNoHit
  <2>2. Aboard' = Aboard
    BY <1>4, <1>6 DEF Return
  <2> QED BY <1>1, <1>2, <1>3, <2>1, <2>2
          DEF Shared!Close, Shared!Tell, Shared!Restrict, Aboard, Told
<1> QED BY <1>5, <1>6 DEF Unregister

LEMMA CacheResultFlies ==
  ASSUME FlightInv, FinalInv, NEW r \in Requests, CacheResult(r)
  PROVE  Shared!TellOutcome(r)
<1>1. /\ pc[r] = "cache" /\ Return(r, local[r])
      /\ UNCHANGED <<question, ctxDone, inflight, joined, local>>
  BY DEF CacheResult, flightVars
<1>2. Aboard[r] = r /\ local[r] \in Outcome /\ local[r] # None /\ Told[r] = None
  BY <1>1, Boarding, NoneAssumption
<1>3. Told' = [Told EXCEPT ![r] = local[r]]
  BY <1>1, <1>2, ReturnTells, OutcomeIsNoHit
<1>4. \A s \in Requests : Leading(s)' = Leading(s)
  BY <1>1 DEF Return, Leading, FlightInv, ControlOK
<1>5. Aboard' = Aboard
  BY <1>1, <1>4 DEF Aboard
<1>6. \A k \in DOMAIN inflight : inflight[k] # r
  BY <1>1 DEF FlightInv, InflightExact, Leading
<1>7. r # None
  BY ResolverAssumption
<1> QED BY <1>1, <1>2, <1>3, <1>5, <1>6, <1>7
        DEF Shared!TellOutcome, Shared!Waits, Shared!Tell, Aboard, Told

LEMMA ContextFlies ==
  ASSUME FlightInv, NEW r \in Requests, ContextExpires(r) PROVE Shared!TimeIsUp(r)
<1>1. /\ ctxDone' = [ctxDone EXCEPT ![r] = TRUE]
      /\ UNCHANGED <<pc, question, inflight, joined, local, answer>>
  BY DEF ContextExpires, flightVars
<1>2. Late' = Late \cup {r}
  BY <1>1 DEF Late, FlightInv, ControlOK
<1>3. Aboard' = Aboard /\ Told' = Told /\ Wanted' = Wanted
  BY <1>1 DEF Aboard, Told, Wanted, Leading
<1> QED BY <1>1, <1>2, <1>3 DEF Shared!TimeIsUp, Late, Aboard, Told, Wanted

(***************************************************************************)
(* Resolve with its map, its channels and its waiting implements Flights,  *)
(* for any number of calls of any questions: inflightEntry is a flight     *)
(* from its registration to its removal (resolver.go:75-115), and caching, *)
(* prefetching and the looking up of server names do not disturb it.       *)
(***************************************************************************)
THEOREM Refinement == Spec => ImplementsFlights
<1>1. Init => Shared!Init
  <2> SUFFICES ASSUME Init PROVE Shared!Init
    OBVIOUS
  <2>1. \A r \in Requests : question[r] \in Question
    BY ResolverAssumption DEF Init
  <2> QED BY <2>1 DEF Init, Shared!Init, Leading
<1>2. FlightInv /\ FinalInv /\ [Next]_vars => [Shared!Next]_(Shared!vars)
  <2> SUFFICES ASSUME FlightInv, FinalInv, [Next]_vars PROVE [Shared!Next]_(Shared!vars)
    OBVIOUS
  <2>1. UNCHANGED flights => UNCHANGED Shared!vars
    BY DEF flights, Shared!vars, Wanted, Late, Aboard, Told
  <2>2. ASSUME NEW r \in Requests, DropExpired(r) \/ ShareResult(r) \/ CloseDone(r)
        PROVE  UNCHANGED flights
    <3>1. /\ UNCHANGED <<question, ctxDone, inflight, joined, local>>
          /\ \/ pc[r] = "drop" /\ Goto(r, "join")
             \/ pc[r] = "share" /\ Goto(r, "close")
             \/ pc[r] = "close" /\ Goto(r, "unregister")
      BY <2>2 DEF DropExpired, ShareResult, CloseDone, flightVars
    <3> QED BY <3>1, HiddenStep
  <2>3. ASSUME NEW r \in Requests, ResolveStep(r) PROVE Shared!Next \/ UNCHANGED flights
    <3>1. CASE CheckCache(r)
      BY <3>1, CheckCacheFlies DEF Shared!Next
    <3>2. CASE Join(r)
      BY <3>2, JoinFlies DEF Shared!Next
    <3>3. CASE WaiterStep(r)
      BY <3>3, WaiterFlies DEF Shared!Next
    <3>4. CASE ResolveIterative(r)
      BY <3>4, ResolveIterativeFlies DEF Shared!Next
    <3>5. CASE Unregister(r)
      BY <3>5, UnregisterFlies DEF Shared!Next
    <3>6. CASE CacheResult(r)
      BY <3>6, CacheResultFlies DEF Shared!Next
    <3> QED BY <2>2, <2>3, <3>1, <3>2, <3>3, <3>4, <3>5, <3>6 DEF ResolveStep, LeaderStep
  <2>4. ASSUME NEW r \in Requests, ContextExpires(r) PROVE Shared!Next
    BY <2>4, ContextFlies DEF Shared!Next
  <2>5. ASSUME UNCHANGED <<question, ctxDone, pc, inflight, joined, local, answer>>
        PROVE  UNCHANGED flights
    BY <2>5 DEF flights, Wanted, Late, Aboard, Told, Leading
  <2>6. ASSUME NEW p \in Popular, PrefetchPopular(p) PROVE UNCHANGED flights
    BY <2>5, <2>6 DEF PrefetchPopular, flightVars
  <2>7. ASSUME NEW p \in Prefetchers,
               \/ PrefetchStep(p)
               \/ \E q \in NSQuestions : LookupNS(p, q) \/ StoreNS(p, q)
        PROVE  UNCHANGED flights
    BY <2>5, <2>7 DEF PrefetchStep, PrefetchResolve, PrefetchStore, LookupNS, StoreNS, flightVars
  <2>8. ASSUME Cleanup \/ Tick \/ UNCHANGED vars PROVE UNCHANGED flights
    BY <2>5, <2>8 DEF Cleanup, Tick, vars, flightVars
  <2> QED BY <2>1, <2>3, <2>4, <2>6, <2>7, <2>8 DEF Next
<1> QED BY <1>1, <1>2, FlightInvariant, FinalHolds, PTL
        DEF Spec, Shared!Spec, ImplementsFlights
=============================================================================
