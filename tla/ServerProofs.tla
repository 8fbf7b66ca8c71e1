---------------------------- MODULE ServerProofs ----------------------------
(***************************************************************************)
(* What stands between a client and the resolver.                          *)
(*                                                                         *)
(* The limiter, for every rate, burst, cleanup interval and set of clients *)
(* that satisfy the assumptions of RateLimiter: the window bound, and the  *)
(* refinement of the map of lazily refilled, discardable buckets to        *)
(* TokenBucket.                                                            *)
(*                                                                         *)
(* The handler, for every set of queries and sequence of upstreams and any *)
(* number of retries: the types, the order in which upstreams are tried    *)
(* while others mark them, and that SERVFAIL is the last resort.           *)
(***************************************************************************)
EXTENDS Server, RateLimiter, TLAPS


LEMMA FullIsNat == Full \in Nat
BY LimiterAssumption DEF Full

LEMMA Monotone == \A a, b, c \in Nat : a <= b => a * c <= b * c
OBVIOUS

(* The level is a number between empty and full. *)
LEMMA RefilledType ==
  ASSUME NEW b \in [tokens : 0 .. Full, lastTime : Nat], NEW at \in Nat,
         b.lastTime <= at
  PROVE  Refilled(b, at) \in 0 .. Full
<1>1. at - b.lastTime \in Nat
  OBVIOUS
<1>2. (at - b.lastTime) * Rate \in Nat
  BY <1>1, LimiterAssumption
<1> QED BY <1>2, FullIsNat DEF Refilled, Capped

(* Refilling lazily for a tick more is refilling for that tick. *)
LEMMA RefillOneMore ==
  ASSUME NEW b \in [tokens : 0 .. Full, lastTime : Nat], NEW at \in Nat,
         b.lastTime <= at
  PROVE  Refilled(b, at + 1) = Capped(Refilled(b, at) + Rate)
<1> DEFINE gone == at - b.lastTime
<1>1. gone \in Nat /\ Rate \in Nat /\ (at + 1) - b.lastTime = gone + 1
  BY LimiterAssumption
<1>2. (gone + 1) * Rate = gone * Rate + Rate /\ gone * Rate \in Nat
  BY <1>1
<1> QED BY <1>1, <1>2, FullIsNat DEF Refilled, Capped

(* What CleanupAssumption is for: a bucket is thrown away when it is full. *)
LEMMA StaleIsFull ==
  ASSUME NEW b \in [tokens : 0 .. Full, lastTime : Nat], NEW at \in Nat,
         b.lastTime <= at, IsStale(b, at)
  PROVE  Refilled(b, at) = Full
<1> DEFINE gone == at - b.lastTime
<1>1. gone \in Nat /\ 2 * CleanupInterval \in Nat /\ Rate \in Nat
  BY LimiterAssumption
<1>2. 2 * CleanupInterval <= gone
  BY <1>1 DEF IsStale
<1>3. (2 * CleanupInterval) * Rate <= gone * Rate
  <2> HIDE DEF gone
  <2> QED BY <1>1, <1>2, Monotone
<1>4. Full <= (2 * CleanupInterval) * Rate
  BY <1>1, CleanupAssumption DEF Full
<1>5. gone * Rate \in Nat /\ (2 * CleanupInterval) * Rate \in Nat
  BY <1>1
<1>6. Refilled(b, at) = Capped(b.tokens + gone * Rate)
  BY DEF Refilled
<1> HIDE DEF gone
<1>7. Full <= b.tokens + gone * Rate /\ b.tokens + gone * Rate \in Nat
  BY <1>3, <1>4, <1>5, FullIsNat
<1> QED BY <1>6, <1>7, FullIsNat DEF Capped

LEMMA NewIsFull == \A at \in Nat : Refilled(NewBucket(at), at) = Full
BY LimiterAssumption, FullIsNat DEF Refilled, NewBucket, Capped

-----------------------------------------------------------------------------
LEMMA LevelType == ASSUME LimiterTypeOK, NEW c \in Clients PROVE Level(c) \in 0 .. Full
<1>1. CASE c \in DOMAIN buckets
  BY <1>1, RefilledType, LimiterAssumption DEF LimiterTypeOK, Level, BucketOf
<1>2. CASE c \notin DOMAIN buckets
  BY <1>2, NewIsFull, FullIsNat DEF LimiterTypeOK, Level, BucketOf
<1> QED BY <1>1, <1>2

(* Who is kept at some level now is at that level. *)
LEMMA KeptLevel ==
  ASSUME LimiterTypeOK, NEW c \in Clients, NEW tokens \in 0 .. Full,
         Keep(c, tokens), now' = now
  PROVE  /\ Level(c)' = tokens
         /\ \A d \in Clients \ {c} : Level(d)' = Level(d)
<1>1. /\ c \in DOMAIN buckets' /\ buckets'[c] = [tokens |-> tokens, lastTime |-> now]
      /\ \A d \in Clients \ {c} : /\ d \in DOMAIN buckets' <=> d \in DOMAIN buckets
                                  /\ d \in DOMAIN buckets => buckets'[d] = buckets[d]
  BY DEF Keep
<1>2. Refilled([tokens |-> tokens, lastTime |-> now], now) = tokens
  BY LimiterAssumption, FullIsNat DEF LimiterTypeOK, Refilled, Capped
<1> QED BY <1>1, <1>2 DEF Level, BucketOf

LEMMA GrantLevels ==
  ASSUME LimiterTypeOK, NEW c \in Clients, Grant(c)
  PROVE  /\ Level(c) >= Scale
         /\ Level(c)' = Level(c) - Scale
         /\ \A d \in Clients \ {c} : Level(d)' = Level(d)
<1>1. Level(c) \in 0 .. Full /\ Level(c) >= Scale /\ Scale \in Nat
  BY LevelType, LimiterAssumption DEF Grant
<1>2. Level(c) - Scale \in 0 .. Full
  BY <1>1, FullIsNat
<1> QED BY <1>1, <1>2, KeptLevel DEF Grant

LEMMA BlockLevels ==
  ASSUME LimiterTypeOK, NEW c \in Clients, Block(c)
  PROVE  Level(c) < Scale /\ \A d \in Clients : Level(d)' = Level(d)
BY LevelType, KeptLevel DEF Block

LEMMA CleanupLevels ==
  ASSUME LimiterTypeOK, CleanupStale PROVE \A d \in Clients : Level(d)' = Level(d)
<1> SUFFICES ASSUME NEW d \in Clients PROVE Level(d)' = Level(d)
  OBVIOUS
<1>1. /\ now' = now
      /\ d \in DOMAIN buckets' <=> d \in DOMAIN buckets /\ ~IsStale(buckets[d], now)
      /\ d \in DOMAIN buckets' => buckets'[d] = buckets[d]
  BY DEF CleanupStale, Restrict
<1>2. CASE d \in DOMAIN buckets /\ IsStale(buckets[d], now)
  <2>1. Refilled(buckets[d], now) = Full
    BY <1>2, StaleIsFull DEF LimiterTypeOK
  <2>2. Level(d)' = Refilled(NewBucket(now), now)
    BY <1>1, <1>2 DEF Level, BucketOf, NewBucket
  <2> QED BY <1>2, <2>1, <2>2, NewIsFull DEF Level, BucketOf, LimiterTypeOK
<1>3. CASE ~(d \in DOMAIN buckets /\ IsStale(buckets[d], now))
  BY <1>1, <1>3 DEF Level, BucketOf, NewBucket
<1> QED BY <1>2, <1>3

LEMMA TickLevels ==
  ASSUME LimiterTypeOK, Tick
  PROVE  \A d \in Clients : Level(d)' = Capped(Level(d) + Rate)
<1> SUFFICES ASSUME NEW d \in Clients PROVE Level(d)' = Capped(Level(d) + Rate)
  OBVIOUS
<1>1. buckets' = buckets /\ now' = now + 1 /\ now \in Nat
  BY DEF Tick, LimiterTypeOK
<1>2. CASE d \in DOMAIN buckets
  BY <1>1, <1>2, RefillOneMore DEF LimiterTypeOK, Level, BucketOf
<1>3. CASE d \notin DOMAIN buckets
  <2>1. Level(d) = Full /\ Level(d)' = Full
    BY <1>1, <1>3, NewIsFull DEF Level, BucketOf
  <2> QED BY <2>1, FullIsNat, LimiterAssumption DEF Capped
<1> QED BY <1>2, <1>3

-----------------------------------------------------------------------------
LEMMA LimiterTypePreserved == ASSUME LimiterTypeOK, [LimiterNext]_limiterVars PROVE LimiterTypeOK'
<1>1. ASSUME NEW c \in Clients, NEW tokens \in 0 .. Full, Keep(c, tokens), now' = now
      PROVE  /\ DOMAIN buckets' \subseteq Clients
             /\ \A d \in DOMAIN buckets' :
                  buckets'[d] \in [tokens : 0 .. Full, lastTime : 0 .. now']
  BY <1>1 DEF Keep, LimiterTypeOK
<1>2. ASSUME NEW c \in Clients, Grant(c) PROVE LimiterTypeOK'
  <2>1. Level(c) - Scale \in 0 .. Full
    BY <1>2, LevelType, LimiterAssumption, FullIsNat DEF Grant
  <2>2. /\ DOMAIN buckets' \subseteq Clients
        /\ \A d \in DOMAIN buckets' :
             buckets'[d] \in [tokens : 0 .. Full, lastTime : 0 .. now']
    BY <1>1, <1>2, <2>1 DEF Grant
  <2>3. granted' \in [Clients -> Nat]
    BY <1>2 DEF Grant, LimiterTypeOK
  <2> QED BY <1>2, <2>2, <2>3 DEF Grant, LimiterTypeOK
<1>3. ASSUME NEW c \in Clients, Block(c) PROVE LimiterTypeOK'
  BY <1>1, <1>3, LevelType DEF Block, LimiterTypeOK
<1>4. CASE CleanupStale
  BY <1>4 DEF CleanupStale, Restrict, LimiterTypeOK
<1>5. CASE Tick
  BY <1>5 DEF Tick, LimiterTypeOK
<1>6. CASE WatchWindow
  BY <1>6 DEF WatchWindow, LimiterTypeOK
<1>7. CASE UNCHANGED limiterVars
  BY <1>7 DEF limiterVars, LimiterTypeOK
<1> QED BY <1>2, <1>3, <1>4, <1>5, <1>6, <1>7 DEF LimiterNext, Allow

(***************************************************************************)
(* Buckets hold between nothing and the burst, and come from the past.     *)
(***************************************************************************)
THEOREM LimiterTypeCorrect == LimiterSpec => []LimiterTypeOK
<1>1. LimiterInit => LimiterTypeOK
  BY DEF LimiterInit, LimiterTypeOK
<1> QED BY <1>1, LimiterTypePreserved, PTL DEF LimiterSpec

-----------------------------------------------------------------------------
(***************************************************************************)
(* The window bound with the tokens in hand added to what was granted:     *)
(* every step leaves the sum below the burst plus what the rate brought.   *)
(***************************************************************************)
THEOREM WindowInvHolds == LimiterSpec => []WindowInv
<1>1. LimiterInit /\ LimiterTypeOK => WindowInv
  <2> SUFFICES ASSUME LimiterInit, LimiterTypeOK, NEW c \in Clients
               PROVE  granted[c] * Scale + Level(c) <= Full + Rate * (now - since)
    BY DEF WindowInv
  <2>1. Level(c) \in 0 .. Full /\ granted[c] = 0 /\ now = 0 /\ since = 0
    BY LevelType DEF LimiterInit
  <2> QED BY <2>1, FullIsNat, LimiterAssumption
<1>2. LimiterTypeOK /\ WindowInv /\ [LimiterNext]_limiterVars => WindowInv'
  <2> SUFFICES ASSUME LimiterTypeOK, LimiterTypeOK', WindowInv,
                      [LimiterNext]_limiterVars, NEW c \in Clients
               PROVE  (granted[c] * Scale + Level(c) <= Full + Rate * (now - since))'
    BY LimiterTypePreserved DEF WindowInv
  <2> DEFINE spent == granted[c] * Scale
             due   == Rate * (now - since)
  <2>1. /\ granted[c] \in Nat /\ Scale \in Nat /\ Rate \in Nat /\ Full \in Nat
        /\ now - since \in Nat /\ Level(c) \in 0 .. Full
    BY LevelType, LimiterAssumption, FullIsNat DEF LimiterTypeOK
  <2>2. spent + Level(c) <= Full + due
    BY DEF WindowInv
  <2>3. spent \in Nat /\ due \in Nat
    BY <2>1
  <2>4. ASSUME NEW d \in Clients, Grant(d)
        PROVE  granted'[c] * Scale + Level(c)' <= Full + Rate * (now' - since')
    <3>1. due' = due
      BY <2>4 DEF Grant
    <3>2. CASE d = c
      <4>1. granted'[c] = granted[c] + 1 /\ Level(c)' = Level(c) - Scale
        BY <2>4, <3>2, GrantLevels DEF Grant, LimiterTypeOK
      <4>2. (granted[c] + 1) * Scale = spent + Scale
        BY <2>1
      <4> QED BY <2>1, <2>2, <2>3, <3>1, <4>1, <4>2
    <3>3. CASE d # c
      <4>1. granted'[c] = granted[c] /\ Level(c)' = Level(c)
        BY <2>4, <3>3, GrantLevels DEF Grant, LimiterTypeOK
      <4> QED BY <2>2, <3>1, <4>1
    <3> QED BY <3>2, <3>3
  <2>5. ASSUME NEW d \in Clients, Block(d)
        PROVE  granted'[c] * Scale + Level(c)' <= Full + Rate * (now' - since')
    <3>1. granted' = granted /\ now' = now /\ since' = since
      BY <2>5 DEF Block
    <3>2. Level(c)' = Level(c)
      BY <2>5, BlockLevels
    <3> QED BY <2>2, <3>1, <3>2
  <2>6. CASE CleanupStale
    BY <2>2, <2>6, CleanupLevels DEF CleanupStale
  <2>7. CASE Tick
    <3>1. Level(c)' <= Level(c) + Rate
      BY <2>1, <2>7, TickLevels DEF Capped
    <3>2. Rate * (now' - since') = due + Rate
      <4>1. now' - since' = (now - since) + 1
        BY <2>7 DEF Tick, LimiterTypeOK
      <4> QED BY <2>1, <4>1
    <3>3. granted' = granted
      BY <2>7 DEF Tick
    <3>4. granted'[c] * Scale = spent
      BY <3>3
    <3>5. Level(c)' \in Int
      BY <2>7, <2>1, TickLevels, FullIsNat DEF Capped
    <3> HIDE DEF spent, due
    <3> QED BY <2>1, <2>2, <2>3, <3>1, <3>2, <3>4, <3>5
  <2>8. CASE WatchWindow
    <3>1. granted'[c] = 0 /\ now' - since' = 0 /\ Level(c)' = Level(c)
      BY <2>8 DEF WatchWindow, LimiterTypeOK, Level, BucketOf, NewBucket
    <3> QED BY <2>1, <3>1
  <2>9. CASE UNCHANGED limiterVars
    BY <2>2, <2>9 DEF limiterVars, Level, BucketOf, NewBucket
  <2> QED BY <2>4, <2>5, <2>6, <2>7, <2>8, <2>9 DEF LimiterNext, Allow
<1> QED BY <1>1, <1>2, LimiterTypeCorrect, PTL DEF LimiterSpec

(***************************************************************************)
(* No client gets more than the burst and the rate's share of any window.  *)
(***************************************************************************)
THEOREM WindowBoundHolds == LimiterSpec => []WindowBound
<1>1. LimiterTypeOK /\ WindowInv => WindowBound
  <2> SUFFICES ASSUME LimiterTypeOK, WindowInv, NEW c \in Clients
               PROVE  granted[c] * Scale <= Full + Rate * (now - since)
    BY DEF WindowBound
  <2>1. /\ granted[c] * Scale \in Nat /\ Rate * (now - since) \in Nat
        /\ Full \in Nat /\ Level(c) \in Nat
    BY LevelType, LimiterAssumption, FullIsNat DEF LimiterTypeOK
  <2> QED BY <2>1 DEF WindowInv
<1> QED BY <1>1, LimiterTypeCorrect, WindowInvHolds, PTL

-----------------------------------------------------------------------------
(***************************************************************************)
(* Lazy refill and cleanup cannot be told from a bucket per client that is *)
(* refilled at every tick.                                                 *)
(***************************************************************************)
THEOREM Refinement == LimiterSpec => ImplementsTokenBucket
<1>1. LimiterInit => Bucket!Init
  BY NewIsFull DEF LimiterInit, Bucket!Init, Level, BucketOf, Bucket!Full, Full
<1>2. LimiterTypeOK /\ [LimiterNext]_limiterVars => [Bucket!Next]_(Bucket!vars)
  <2> SUFFICES ASSUME LimiterTypeOK, [LimiterNext]_limiterVars PROVE [Bucket!Next]_(Bucket!vars)
    OBVIOUS
  <2> DEFINE levels == [c \in Clients |-> Level(c)]
  <2>1. ASSUME NEW c \in Clients, Grant(c) PROVE Bucket!Pass(c)
    BY <2>1, GrantLevels DEF Grant, Bucket!Pass
  <2>2. ASSUME NEW c \in Clients, Block(c) PROVE Bucket!Refuse(c)
    BY <2>2, BlockLevels DEF Block, Bucket!Refuse
  <2>3. CASE CleanupStale
    BY <2>3, CleanupLevels DEF CleanupStale, Bucket!vars
  <2>4. CASE Tick
    BY <2>4, TickLevels DEF Tick, Bucket!Refill, Bucket!Next, Bucket!Capped, Bucket!Full,
       Capped, Full
  <2>5. CASE WatchWindow \/ UNCHANGED limiterVars
    BY <2>5 DEF WatchWindow, limiterVars, Bucket!vars, Level, BucketOf, NewBucket
  <2> QED BY <2>1, <2>2, <2>3, <2>4, <2>5 DEF LimiterNext, Allow, Bucket!Next
<1> QED BY <1>1, <1>2, LimiterTypeCorrect, PTL DEF LimiterSpec, Bucket!Spec, ImplementsTokenBucket

-----------------------------------------------------------------------------
(* The handler: the order of the upstreams. *)

(* No upstream is in an order twice, and none taken for ill is before one  *)
(* taken for well.                                                         *)
IsOrdered(s, well) ==
  /\ \A i, j \in DOMAIN s : i < j => s[i] # s[j]
  /\ \A i, j \in DOMAIN s : i < j /\ s[j] \in well => s[i] \in well

LEMMA PlaceType == \A u \in Servers : Place(u) \in Nat
<1> SUFFICES ASSUME NEW u \in Servers PROVE Place(u) \in Nat
  OBVIOUS
<1>1. \E i \in DOMAIN Upstreams : Upstreams[i] = u
  BY DEF Servers
<1>2. Place(u) \in DOMAIN Upstreams
  BY <1>1 DEF Place
<1>3. DOMAIN Upstreams = 1..Len(Upstreams) /\ Len(Upstreams) \in Nat
  BY FailoverAssumption
<1> QED BY <1>2, <1>3

(* What getOrderedUpstreams returns. *)
LEMMA OrderType ==
  ASSUME NEW well, NEW s \in getOrderedUpstreams(well)
  PROVE  /\ s \in Seq(Servers) /\ IsOrdered(s, well)
         /\ \A u \in Servers : \E i \in DOMAIN s : s[i] = u
<1>1. DOMAIN Upstreams = 1..Len(Upstreams) /\ Len(Upstreams) \in Nat
  BY FailoverAssumption
<1>2. s \in [DOMAIN Upstreams -> Servers] /\ \A u \in Servers : \E i \in DOMAIN s : s[i] = u
  BY DEF getOrderedUpstreams
<1>3. s \in Seq(Servers)
  BY <1>1, <1>2
<1>4. ASSUME NEW i \in DOMAIN s, NEW j \in DOMAIN s, i < j PROVE GoesBefore(s[i], s[j], well)
  BY <1>4 DEF getOrderedUpstreams
<1>5. ASSUME NEW i \in DOMAIN s, NEW j \in DOMAIN s, i < j PROVE s[i] # s[j]
  <2>1. Place(s[i]) \in Nat
    BY <1>2, PlaceType
  <2> QED BY <1>4, <1>5, <2>1 DEF GoesBefore
<1>6. ASSUME NEW i \in DOMAIN s, NEW j \in DOMAIN s, i < j, s[j] \in well PROVE s[i] \in well
  BY <1>4, <1>6 DEF GoesBefore
<1> QED BY <1>2, <1>3, <1>5, <1>6 DEF IsOrdered

(* What is left of an order is one. *)
LEMMA TailIsOrdered ==
  ASSUME NEW s \in Seq(Servers), NEW well, s # <<>>, IsOrdered(s, well)
  PROVE  /\ Tail(s) \in Seq(Servers) /\ IsOrdered(Tail(s), well) /\ Head(s) = s[1]
         /\ \A i \in DOMAIN Tail(s) : i + 1 \in DOMAIN s /\ Tail(s)[i] = s[i + 1]
         /\ \A i \in DOMAIN s : i = 1 \/ (i - 1 \in DOMAIN Tail(s) /\ s[i] = Tail(s)[i - 1])
<1>1. /\ Tail(s) \in Seq(Servers) /\ Head(s) = s[1]
      /\ DOMAIN s = 1..Len(s) /\ Len(s) \in Nat \ {0} /\ DOMAIN Tail(s) = 1..Len(s) - 1
      /\ \A i \in 1..Len(s) - 1 : Tail(s)[i] = s[i + 1]
  OBVIOUS
<1>2. \A i \in DOMAIN Tail(s) : i + 1 \in DOMAIN s /\ Tail(s)[i] = s[i + 1]
  BY <1>1
<1>3. \A i \in DOMAIN s : i = 1 \/ (i - 1 \in DOMAIN Tail(s) /\ s[i] = Tail(s)[i - 1])
  BY <1>1
<1>4. \A i, j \in DOMAIN Tail(s) : i < j => i + 1 < j + 1
  BY <1>1
<1>5. IsOrdered(Tail(s), well)
  BY <1>2, <1>4 DEF IsOrdered
<1> QED BY <1>1, <1>2, <1>3, <1>5

-----------------------------------------------------------------------------
(* The handler: one call of Resolve. *)

Calls ==
  [pc : {"off", "next", "exchange", "well", "ill", "end"}, todo : Seq(Servers),
   retry : 0..MaxRetries + 1, rcode : Rcodes \cup {None},
   tried : [Servers -> 0..MaxRetries + 1], first : SUBSET Servers]

RunOut(c, u) == c.tried[u] = MaxRetries + 1

(* What has left the list has used up its retries, what is still to come   *)
(* has used none, and the head as many as the loop has counted.            *)
Turns(c) ==
  /\ \A u \in Servers : RunOut(c, u) \/ \E i \in DOMAIN c.todo : c.todo[i] = u
  /\ \A i \in DOMAIN c.todo : i # 1 => c.tried[c.todo[i]] = 0
  /\ c.pc = "next" /\ c.todo # <<>> => c.tried[c.todo[1]] = 0
  /\ c.pc \in {"exchange", "ill"} => c.todo # <<>> /\ c.tried[c.todo[1]] = c.retry
  /\ c.pc = "exchange" => c.retry <= MaxRetries
  /\ c.pc = "ill" => c.retry = MaxRetries + 1

CallInv(c, late) ==
  /\ IsOrdered(c.todo, c.first)
  /\ c.pc \in {"next", "exchange", "ill"} => Turns(c) /\ c.rcode = None
  /\ c.pc = "well" => c.todo # <<>> /\ c.rcode # None
  /\ c.pc = "end" => c.rcode # None \/ late \/ \A u \in Servers : RunOut(c, u)

LEMMA NoCallType == NoCall \in Calls /\ \A late : CallInv(NoCall, late)
<1>1. MaxRetries + 1 \in Nat /\ 0 \in 0..MaxRetries + 1
  BY FailoverAssumption
<1>2. <<>> \in Seq(Servers) /\ DOMAIN <<>> = {}
  OBVIOUS
<1>3. NoCall \in Calls
  BY <1>1, <1>2 DEF NoCall, Calls
<1>4. NoCall.pc = "off" /\ NoCall.todo = <<>>
  BY DEF NoCall
<1> QED BY <1>2, <1>3, <1>4 DEF CallInv, IsOrdered

LEMMA BeginCall ==
  ASSUME call \in [Requests -> Calls], NEW r \in Requests, BeginResolve(r),
         healthy \subseteq Servers, NEW late
  PROVE  \E d \in Calls : /\ call' = [call EXCEPT ![r] = d]
                          /\ d.pc = "next" /\ CallInv(d, late)
<1>1. PICK order \in getOrderedUpstreams(healthy) :
        call' = [call EXCEPT ![r] = [NoCall EXCEPT !.pc = "next", !.todo = order,
                                                   !.first = healthy]]
  BY DEF BeginResolve
<1> DEFINE d == [NoCall EXCEPT !.pc = "next", !.todo = order, !.first = healthy]
<1>2. /\ order \in Seq(Servers) /\ IsOrdered(order, healthy)
      /\ \A u \in Servers : \E i \in DOMAIN order : order[i] = u
  BY OrderType
<1>3. d \in Calls
  BY <1>2, NoCallType DEF Calls
<1>4. /\ d.pc = "next" /\ d.todo = order /\ d.first = healthy
      /\ d.rcode = None /\ d.tried = [u \in Servers |-> 0]
  BY DEF NoCall
<1>5. \A i \in DOMAIN order : order[i] \in Servers /\ d.tried[order[i]] = 0
  BY <1>2, <1>4
<1>6. order # <<>> => 1 \in DOMAIN order
  BY <1>2
<1> HIDE DEF d
<1>7. Turns(d)
  BY <1>2, <1>4, <1>5, <1>6 DEF Turns
<1>8. CallInv(d, late)
  BY <1>2, <1>4, <1>7 DEF CallInv
<1> QED BY <1>1, <1>3, <1>4, <1>8 DEF d

(* The conclusion of the lemmas below. *)
MovesOn(r, late) ==
  \E d \in Calls : /\ call' = [call EXCEPT ![r] = d]
                   /\ d.pc # "off" /\ CallInv(d, late)

LEMMA GiveUpMoves ==
  ASSUME call \in [Requests -> Calls], NEW r \in Requests, NEW late,
         CallInv(call[r], late), GiveUp(r, late)
  PROVE  MovesOn(r, late)
<1> DEFINE c == call[r]
           d == [c EXCEPT !.pc = "end"]
<1>1. c \in Calls /\ c.pc = "next" /\ (c.todo = <<>> \/ late)
      /\ call' = [call EXCEPT ![r] = d]
  BY DEF GiveUp, CallAt
<1>2. CallInv(c, late)
  OBVIOUS
<1> HIDE DEF c
<1>3. /\ d \in Calls /\ d.pc = "end" /\ d.todo = c.todo /\ d.first = c.first
      /\ d.rcode = c.rcode /\ d.tried = c.tried
  BY <1>1 DEF Calls
<1> HIDE DEF d
<1>4. c.todo = <<>> => \A u \in Servers : RunOut(d, u)
  BY <1>1, <1>2, <1>3 DEF CallInv, Turns, RunOut
<1> QED BY <1>1, <1>2, <1>3, <1>4 DEF MovesOn, CallInv

LEMMA NextUpstreamMoves ==
  ASSUME call \in [Requests -> Calls], NEW r \in Requests, NEW late,
         CallInv(call[r], late), NextUpstream(r, late)
  PROVE  MovesOn(r, late)
<1> DEFINE c == call[r]
           d == [c EXCEPT !.pc = "exchange", !.retry = 0]
<1>1. c \in Calls /\ c.pc = "next" /\ c.todo # <<>> /\ call' = [call EXCEPT ![r] = d]
  BY DEF NextUpstream
<1>2. CallInv(c, late) /\ MaxRetries \in Nat /\ 0 \in 0..MaxRetries + 1
  BY FailoverAssumption
<1> HIDE DEF c
<1>3. /\ d \in Calls /\ d.pc = "exchange" /\ d.todo = c.todo /\ d.first = c.first
      /\ d.rcode = c.rcode /\ d.tried = c.tried /\ d.retry = 0
  BY <1>1, <1>2 DEF Calls
<1> HIDE DEF d
<1>4. Turns(d)
  BY <1>1, <1>2, <1>3 DEF CallInv, Turns, RunOut
<1> QED BY <1>1, <1>2, <1>3, <1>4 DEF MovesOn, CallInv

LEMMA AnsweredMoves ==
  ASSUME call \in [Requests -> Calls], NEW r \in Requests, NEW late,
         CallInv(call[r], late), Answered(r, late)
  PROVE  MovesOn(r, late)
<1> DEFINE c == call[r]
<1>1. PICK rcode \in Rcodes :
        call' = [call EXCEPT ![r].pc = "well", ![r].rcode = rcode]
  BY DEF Answered
<1> DEFINE d == [c EXCEPT !.pc = "well", !.rcode = rcode]
<1>2. c \in Calls /\ c.pc = "exchange" /\ call' = [call EXCEPT ![r] = d]
  BY <1>1 DEF Answered
<1>3. CallInv(c, late) /\ rcode # None
  BY FailoverAssumption
<1> HIDE DEF c
<1>4. /\ d \in Calls /\ d.pc = "well" /\ d.todo = c.todo /\ d.first = c.first
      /\ d.rcode = rcode
  BY <1>2 DEF Calls
<1> HIDE DEF d
<1> QED BY <1>2, <1>3, <1>4 DEF MovesOn, CallInv, Turns

LEMMA ExchangeFailsMoves ==
  ASSUME call \in [Requests -> Calls], NEW r \in Requests, NEW late,
         CallInv(call[r], late), ExchangeFails(r, late)
  PROVE  MovesOn(r, late)
<1> DEFINE c == call[r]
           pc == IF c.retry < MaxRetries THEN "exchange" ELSE "ill"
           tried == [c.tried EXCEPT ![Head(c.todo)] = @ + 1]
           d == [c EXCEPT !.tried = tried, !.retry = @ + 1, !.pc = pc]
<1>1. c \in Calls /\ c.pc = "exchange" /\ call' = [call EXCEPT ![r] = d]
  BY DEF ExchangeFails, CountFailure
<1>2. CallInv(c, late) /\ MaxRetries \in Nat
  BY FailoverAssumption
<1> HIDE DEF c
<1>3. /\ c.todo # <<>> /\ c.todo \in Seq(Servers) /\ Turns(c)
      /\ c.retry \in 0..MaxRetries /\ c.tried[c.todo[1]] = c.retry
      /\ c.tried \in [Servers -> 0..MaxRetries + 1]
  BY <1>1, <1>2 DEF CallInv, Turns, Calls
<1>4. /\ Head(c.todo) = c.todo[1] /\ 1 \in DOMAIN c.todo
      /\ \A i \in DOMAIN c.todo : c.todo[i] \in Servers
  BY <1>3
<1>5. /\ tried \in [Servers -> 0..MaxRetries + 1] /\ tried[c.todo[1]] = c.retry + 1
      /\ \A u \in Servers : u # c.todo[1] => tried[u] = c.tried[u]
  BY <1>2, <1>3, <1>4
<1> HIDE DEF tried
<1>6. /\ pc \in {"exchange", "ill"} /\ c.retry + 1 \in 0..MaxRetries + 1
      /\ pc = "exchange" => c.retry + 1 <= MaxRetries
      /\ pc = "ill" => c.retry + 1 = MaxRetries + 1
  BY <1>2, <1>3
<1> HIDE DEF pc
<1>7. /\ d \in Calls /\ d.pc = pc /\ d.todo = c.todo /\ d.first = c.first
      /\ d.rcode = c.rcode /\ d.tried = tried /\ d.retry = c.retry + 1
  BY <1>1, <1>5, <1>6 DEF Calls
<1> HIDE DEF d
<1>8. Turns(d)
  <2>1. ASSUME NEW u \in Servers
        PROVE  RunOut(d, u) \/ \E i \in DOMAIN d.todo : d.todo[i] = u
    BY <1>3, <1>4, <1>5, <1>7 DEF Turns, RunOut
  <2>2. ASSUME NEW i \in DOMAIN d.todo, i # 1 PROVE d.tried[d.todo[i]] = 0
    <3>1. i \in Nat /\ 1 < i
      BY <1>3, <1>7, <2>2
    <3>2. c.todo[i] # c.todo[1]
      BY <1>2, <1>4, <1>7, <3>1 DEF CallInv, IsOrdered
    <3> QED BY <1>3, <1>4, <1>5, <1>7, <2>2, <3>2 DEF Turns
  <2> QED BY <1>3, <1>5, <1>6, <1>7, <2>1, <2>2 DEF Turns
<1> QED BY <1>1, <1>2, <1>6, <1>7, <1>8 DEF MovesOn, CallInv

LEMMA MarkHealthyMoves ==
  ASSUME call \in [Requests -> Calls], NEW r \in Requests, NEW late,
         CallInv(call[r], late), markHealthy(r)
  PROVE  MovesOn(r, late)
<1> DEFINE c == call[r]
           d == [c EXCEPT !.pc = "end"]
<1>1. c \in Calls /\ c.pc = "well" /\ call' = [call EXCEPT ![r] = d]
  BY DEF markHealthy, CallAt
<1>2. CallInv(c, late)
  OBVIOUS
<1> HIDE DEF c
<1>3. /\ d \in Calls /\ d.pc = "end" /\ d.todo = c.todo /\ d.first = c.first
      /\ d.rcode = c.rcode
  BY <1>1 DEF Calls
<1> HIDE DEF d
<1> QED BY <1>1, <1>2, <1>3 DEF MovesOn, CallInv

LEMMA MarkUnhealthyMoves ==
  ASSUME call \in [Requests -> Calls], NEW r \in Requests, NEW late,
         CallInv(call[r], late), markUnhealthy(r)
  PROVE  MovesOn(r, late)
<1> DEFINE c == call[r]
           d == [c EXCEPT !.pc = "next", !.todo = Tail(@)]
<1>1. c \in Calls /\ c.pc = "ill" /\ call' = [call EXCEPT ![r] = d]
  BY DEF markUnhealthy
<1>2. CallInv(c, late)
  OBVIOUS
<1> HIDE DEF c
<1>3. /\ c.todo # <<>> /\ c.todo \in Seq(Servers) /\ Turns(c) /\ c.rcode = None
      /\ IsOrdered(c.todo, c.first) /\ RunOut(c, c.todo[1])
  BY <1>1, <1>2 DEF CallInv, Turns, Calls, RunOut
<1>4. /\ Tail(c.todo) \in Seq(Servers) /\ IsOrdered(Tail(c.todo), c.first)
      /\ \A i \in DOMAIN Tail(c.todo) :
           i + 1 \in DOMAIN c.todo /\ Tail(c.todo)[i] = c.todo[i + 1]
      /\ \A i \in DOMAIN c.todo :
           i = 1 \/ (i - 1 \in DOMAIN Tail(c.todo) /\ c.todo[i] = Tail(c.todo)[i - 1])
  BY <1>3, TailIsOrdered
<1>5. /\ d \in Calls /\ d.pc = "next" /\ d.todo = Tail(c.todo) /\ d.first = c.first
      /\ d.rcode = c.rcode /\ d.tried = c.tried
  BY <1>1, <1>4 DEF Calls
<1> HIDE DEF d
<1>6. ASSUME NEW u \in Servers
      PROVE  RunOut(d, u) \/ \E i \in DOMAIN d.todo : d.todo[i] = u
  <2>1. CASE RunOut(c, u)
    BY <1>5, <2>1 DEF RunOut
  <2>2. CASE \E i \in DOMAIN c.todo : c.todo[i] = u
    <3>1. PICK i \in DOMAIN c.todo : c.todo[i] = u
      BY <2>2
    <3>2. CASE i = 1
      BY <1>3, <1>5, <3>1, <3>2 DEF RunOut
    <3>3. CASE i # 1
      <4>1. i - 1 \in DOMAIN Tail(c.todo) /\ u = Tail(c.todo)[i - 1]
        BY <1>4, <3>1, <3>3
      <4> QED BY <1>5, <4>1
    <3> QED BY <3>2, <3>3
  <2> QED BY <1>3, <2>1, <2>2 DEF Turns
<1>7. ASSUME NEW i \in DOMAIN d.todo PROVE d.tried[d.todo[i]] = 0
  <2>1. i \in Nat /\ i # 0
    BY <1>4, <1>5
  <2>2. i + 1 \in DOMAIN c.todo /\ i + 1 # 1 /\ d.todo[i] = c.todo[i + 1]
    BY <1>4, <1>5, <2>1
  <2> QED BY <1>3, <1>5, <2>2 DEF Turns
<1>8. d.todo # <<>> => 1 \in DOMAIN d.todo
  BY <1>4, <1>5
<1>9. Turns(d)
  BY <1>5, <1>6, <1>7, <1>8 DEF Turns
<1> QED BY <1>1, <1>3, <1>4, <1>5, <1>9 DEF MovesOn, CallInv

LEMMA CallMoves ==
  ASSUME call \in [Requests -> Calls], NEW r \in Requests, NEW late,
         CallInv(call[r], late), CallStep(r, late)
  PROVE  MovesOn(r, late)
BY GiveUpMoves, NextUpstreamMoves, AnsweredMoves, ExchangeFailsMoves, MarkHealthyMoves,
   MarkUnhealthyMoves DEF CallStep

-----------------------------------------------------------------------------
(* The handler: the goroutine of a query. *)

Stages == {"idle", "begin", "resolve", "failover", "write", "done"}

Replies == {"NOERROR", "NXDOMAIN", "REFUSED", "FORMERR", "SERVFAIL"}

(* A query whose call of Resolve is c, at stage s. *)
QueryInv(c, s, late, res, rep) ==
  /\ c \in Calls /\ CallInv(c, late)
  /\ s \in Stages /\ late \in BOOLEAN
  /\ res \in Rcodes \cup {"error", None} /\ rep \in Replies \cup {None}
  /\ c.pc # "off" <=> s = "failover"
  /\ rep # None <=> s = "write"
  /\ s = "failover" => res = "error"

QueriesInv ==
  /\ call \in [Requests -> Calls] /\ stage \in [Requests -> Stages]
  /\ expired \in [Requests -> BOOLEAN]
  /\ resolved \in [Requests -> Rcodes \cup {"error", None}]
  /\ reply \in [Requests -> Replies \cup {None}]
  /\ \A r \in Requests : QueryInv(call[r], stage[r], expired[r], resolved[r], reply[r])

HealthInv ==
  /\ up \subseteq Servers /\ healthy \subseteq Servers /\ toCheck \subseteq Servers
  /\ recovered \in toCheck \cup {None}
  /\ stopped \in BOOLEAN

ServerInv == QueriesInv /\ HealthInv

LEMMA RepliesAreNotNone == None \notin Replies \cup {"error"}
BY ServerAssumption DEF Replies

LEMMA ServerInit == Init => ServerInv
<1> SUFFICES ASSUME Init PROVE ServerInv
  OBVIOUS
<1>1. HealthInv
  BY DEF Init, FailoverInit, HealthInv
<1>2. NoCall \in Calls /\ \A late : CallInv(NoCall, late)
  BY NoCallType
<1>3. NoCall.pc = "off"
  BY DEF NoCall
<1>4. /\ call = [r \in Requests |-> NoCall] /\ stage = [r \in Requests |-> "idle"]
      /\ expired = [r \in Requests |-> FALSE] /\ resolved = [r \in Requests |-> None]
      /\ reply = [r \in Requests |-> None]
  BY DEF Init, FailoverInit
<1>5. QueryInv(NoCall, "idle", FALSE, None, None)
  BY <1>2, <1>3 DEF QueryInv, Stages
<1>6. \A r \in Requests : QueryInv(call[r], stage[r], expired[r], resolved[r], reply[r])
  BY <1>4, <1>5
<1>7. QueriesInv
  BY <1>2, <1>4, <1>6 DEF QueriesInv, Stages
<1> QED BY <1>1, <1>7 DEF ServerInv

(* What a step of r alone makes of it. *)
Becomes(r, c, s, late, res, rep) ==
  /\ call' = [call EXCEPT ![r] = c] /\ stage' = [stage EXCEPT ![r] = s]
  /\ expired' = [expired EXCEPT ![r] = late]
  /\ resolved' = [resolved EXCEPT ![r] = res] /\ reply' = [reply EXCEPT ![r] = rep]

(* A step of one goroutine is good if it is for that one. *)
LEMMA QueryMoves ==
  ASSUME QueriesInv, NEW r \in Requests, NEW c, NEW s, NEW late, NEW res, NEW rep,
         QueryInv(c, s, late, res, rep), Becomes(r, c, s, late, res, rep)
  PROVE  QueriesInv'
<1>1. /\ call' \in [Requests -> Calls] /\ stage' \in [Requests -> Stages]
      /\ expired' \in [Requests -> BOOLEAN]
      /\ resolved' \in [Requests -> Rcodes \cup {"error", None}]
      /\ reply' \in [Requests -> Replies \cup {None}]
  BY DEF QueriesInv, QueryInv, Becomes
<1>2. ASSUME NEW q \in Requests
      PROVE  QueryInv(call'[q], stage'[q], expired'[q], resolved'[q], reply'[q])
  <2>1. CASE q = r
    <3>1. /\ call'[q] = c /\ stage'[q] = s /\ expired'[q] = late /\ resolved'[q] = res
          /\ reply'[q] = rep
      BY <2>1 DEF QueriesInv, Becomes
    <3> QED BY <3>1
  <2>2. CASE q # r
    <3>1. /\ call'[q] = call[q] /\ stage'[q] = stage[q] /\ expired'[q] = expired[q]
          /\ resolved'[q] = resolved[q] /\ reply'[q] = reply[q]
      BY <2>2 DEF QueriesInv, Becomes
    <3> QED BY <3>1 DEF QueriesInv
  <2> QED BY <2>1, <2>2
<1> QED BY <1>1, <1>2 DEF QueriesInv

(* What is not assigned to is assigned what it was. *)
LEMMA Unassigned ==
  ASSUME NEW S, NEW T, NEW f \in [S -> T], NEW x \in S PROVE f = [f EXCEPT ![x] = f[x]]
OBVIOUS

LEMMA QueriesUnassigned ==
  ASSUME QueriesInv, NEW r \in Requests
  PROVE  /\ call = [call EXCEPT ![r] = call[r]] /\ stage = [stage EXCEPT ![r] = stage[r]]
         /\ expired = [expired EXCEPT ![r] = expired[r]]
         /\ resolved = [resolved EXCEPT ![r] = resolved[r]]
         /\ reply = [reply EXCEPT ![r] = reply[r]]
         /\ QueryInv(call[r], stage[r], expired[r], resolved[r], reply[r])
BY Unassigned DEF QueriesInv

(* A lemma for each step of the goroutine. *)
LEMMA ArriveStep == ASSUME QueriesInv, NEW r \in Requests, Arrive(r) PROVE QueriesInv'
<1>1. /\ At(r, "idle") /\ GoTo(r, "begin") /\ UNCHANGED <<call, expired, resolved, reply>>
  BY DEF Arrive, failoverVars
<1>2. QueryInv(call[r], "begin", expired[r], resolved[r], reply[r])
  BY <1>1, QueriesUnassigned DEF QueryInv, At, Stages
<1>3. Becomes(r, call[r], "begin", expired[r], resolved[r], reply[r])
  BY <1>1, QueriesUnassigned DEF Becomes, GoTo
<1> QED BY <1>2, <1>3, QueryMoves

LEMMA AnswerHereStep == ASSUME QueriesInv, NEW r \in Requests, AnswerHere(r) PROVE QueriesInv'
<1>1. PICK rcode \in {"REFUSED", "FORMERR", BlockedRcode, "NOERROR"} : Say(r, rcode)
  BY DEF AnswerHere
<1>2. /\ At(r, "begin") /\ GoTo(r, "write") /\ UNCHANGED <<call, expired, resolved>>
  BY DEF AnswerHere, failoverVars
<1>3. rcode \in Replies /\ rcode # None
  BY RepliesAreNotNone, ServerAssumption DEF Replies
<1>4. QueryInv(call[r], "write", expired[r], resolved[r], rcode)
  BY <1>2, <1>3, QueriesUnassigned DEF QueryInv, At, Stages
<1>5. Becomes(r, call[r], "write", expired[r], resolved[r], rcode)
  BY <1>1, <1>2, QueriesUnassigned DEF Becomes, GoTo, Say
<1> QED BY <1>4, <1>5, QueryMoves

LEMMA BeginResolutionStep ==
  ASSUME QueriesInv, NEW r \in Requests, BeginResolution(r) PROVE QueriesInv'
<1>1. /\ At(r, "begin") /\ GoTo(r, "resolve")
      /\ UNCHANGED <<call, expired, resolved, reply>>
  BY DEF BeginResolution, failoverVars
<1>2. QueryInv(call[r], "resolve", expired[r], resolved[r], reply[r])
  BY <1>1, QueriesUnassigned DEF QueryInv, At, Stages
<1>3. Becomes(r, call[r], "resolve", expired[r], resolved[r], reply[r])
  BY <1>1, QueriesUnassigned DEF Becomes, GoTo
<1> QED BY <1>2, <1>3, QueryMoves

LEMMA ContextExpiresStep ==
  ASSUME QueriesInv, NEW r \in Requests, ContextExpires(r) PROVE QueriesInv'
<1>1. /\ expired' = [expired EXCEPT ![r] = TRUE] /\ expired[r] = FALSE
      /\ UNCHANGED <<call, stage, resolved, reply>>
  BY DEF ContextExpires, failoverVars, QueriesInv
<1>2. CallInv(call[r], TRUE)
  BY QueriesUnassigned DEF CallInv, QueryInv
<1>3. QueryInv(call[r], stage[r], TRUE, resolved[r], reply[r])
  BY <1>2, QueriesUnassigned DEF QueryInv
<1>4. Becomes(r, call[r], stage[r], TRUE, resolved[r], reply[r])
  BY <1>1, QueriesUnassigned DEF Becomes
<1> QED BY <1>3, <1>4, QueryMoves

LEMMA ResolvedStep == ASSUME QueriesInv, NEW r \in Requests, Resolved(r) PROVE QueriesInv'
<1>1. PICK rcode \in Rcodes : /\ resolved' = [resolved EXCEPT ![r] = rcode]
                              /\ Say(r, SetReply(rcode))
  BY DEF Resolved
<1>2. /\ At(r, "resolve") /\ GoTo(r, "write") /\ UNCHANGED <<call, expired>>
  BY DEF Resolved, failoverVars
<1>3. SetReply(rcode) \in Replies /\ SetReply(rcode) # None
  BY RepliesAreNotNone DEF Replies, SetReply
<1>4. QueryInv(call[r], "write", expired[r], rcode, SetReply(rcode))
  BY <1>2, <1>3, QueriesUnassigned DEF QueryInv, At, Stages
<1>5. Becomes(r, call[r], "write", expired[r], rcode, SetReply(rcode))
  BY <1>1, <1>2, QueriesUnassigned DEF Becomes, GoTo, Say
<1> QED BY <1>4, <1>5, QueryMoves

LEMMA ResolutionFailsStep ==
  ASSUME ServerInv, NEW r \in Requests, ResolutionFails(r) PROVE QueriesInv'
<1>1. /\ At(r, "resolve") /\ resolved' = [resolved EXCEPT ![r] = "error"]
      /\ UNCHANGED expired /\ QueriesInv /\ call \in [Requests -> Calls]
      /\ healthy \subseteq Servers
  BY DEF ResolutionFails, ServerInv, QueriesInv, HealthInv
<1>2. CASE Enabled
  <2>1. GoTo(r, "failover") /\ BeginResolve(r) /\ UNCHANGED reply
    BY <1>2 DEF ResolutionFails
  <2>2. PICK d \in Calls : /\ call' = [call EXCEPT ![r] = d]
                           /\ d.pc = "next" /\ CallInv(d, expired[r])
    BY <1>1, <2>1, BeginCall
  <2>3. QueryInv(d, "failover", expired[r], "error", reply[r])
    BY <1>1, <2>2, QueriesUnassigned DEF QueryInv, At, Stages
  <2>4. Becomes(r, d, "failover", expired[r], "error", reply[r])
    BY <1>1, <2>1, <2>2, QueriesUnassigned DEF Becomes, GoTo
  <2> QED BY <1>1, <2>3, <2>4, QueryMoves
<1>3. CASE ~Enabled
  <2>1. GoTo(r, "write") /\ Say(r, "SERVFAIL") /\ UNCHANGED call
    BY <1>3 DEF ResolutionFails
  <2>2. "SERVFAIL" \in Replies /\ "SERVFAIL" # None
    BY RepliesAreNotNone DEF Replies
  <2>3. QueryInv(call[r], "write", expired[r], "error", "SERVFAIL")
    BY <1>1, <2>2, QueriesUnassigned DEF QueryInv, At, Stages
  <2>4. Becomes(r, call[r], "write", expired[r], "error", "SERVFAIL")
    BY <1>1, <2>1, QueriesUnassigned DEF Becomes, GoTo, Say
  <2> QED BY <1>1, <2>3, <2>4, QueryMoves
<1> QED BY <1>2, <1>3

LEMMA FallbackStep == ASSUME QueriesInv, NEW r \in Requests, Fallback(r) PROVE QueriesInv'
<1>1. /\ At(r, "failover") /\ CallStep(r, expired[r])
      /\ UNCHANGED <<stage, expired, resolved, reply>>
  BY DEF Fallback, handlerVars
<1>2. PICK d : /\ call' = [call EXCEPT ![r] = d] /\ d.pc # "off" /\ CallInv(d, expired[r])
               /\ d \in Calls
  BY <1>1, QueriesUnassigned, CallMoves DEF MovesOn, QueriesInv, QueryInv
<1>3. QueryInv(d, stage[r], expired[r], resolved[r], reply[r])
  BY <1>1, <1>2, QueriesUnassigned DEF QueryInv, At
<1>4. Becomes(r, d, stage[r], expired[r], resolved[r], reply[r])
  BY <1>1, <1>2, QueriesUnassigned DEF Becomes
<1> QED BY <1>3, <1>4, QueryMoves

LEMMA AfterFallbackStep ==
  ASSUME QueriesInv, NEW r \in Requests, AfterFallback(r) PROVE QueriesInv'
<1> DEFINE rcode == IF call[r].rcode = None THEN "SERVFAIL" ELSE SetReply(call[r].rcode)
<1>1. /\ At(r, "failover") /\ GoTo(r, "write") /\ UNCHANGED <<expired, resolved>>
      /\ call' = [call EXCEPT ![r] = NoCall] /\ Say(r, rcode)
  BY DEF AfterFallback
<1>2. rcode \in Replies /\ rcode # None
  BY RepliesAreNotNone DEF Replies, SetReply
<1> HIDE DEF rcode
<1>3. NoCall.pc = "off"
  BY DEF NoCall
<1>4. QueryInv(NoCall, "write", expired[r], resolved[r], rcode)
  BY <1>1, <1>2, <1>3, NoCallType, QueriesUnassigned DEF QueryInv, At, Stages
<1>5. Becomes(r, NoCall, "write", expired[r], resolved[r], rcode)
  BY <1>1, QueriesUnassigned DEF Becomes, GoTo, Say
<1> QED BY <1>4, <1>5, QueryMoves

LEMMA WriteMsgStep == ASSUME QueriesInv, NEW r \in Requests, WriteMsg(r) PROVE QueriesInv'
<1>1. /\ At(r, "write") /\ GoTo(r, "done") /\ Say(r, None) /\ UNCHANGED call
      /\ expired' = [expired EXCEPT ![r] = FALSE]
      /\ resolved' = [resolved EXCEPT ![r] = None]
  BY DEF WriteMsg, failoverVars
<1>2. CallInv(call[r], FALSE)
  BY <1>1, QueriesUnassigned DEF QueryInv, CallInv, At
<1>3. QueryInv(call[r], "done", FALSE, None, None)
  BY <1>1, <1>2, QueriesUnassigned DEF QueryInv, At, Stages
<1>4. Becomes(r, call[r], "done", FALSE, None, None)
  BY <1>1, QueriesUnassigned DEF Becomes, GoTo, Say
<1> QED BY <1>3, <1>4, QueryMoves

(* The marks are of upstreams, and only what is to be checked recovers. *)
LEMMA FallbackMarks ==
  ASSUME ServerInv, NEW r \in Requests, Fallback(r) PROVE HealthInv'
<1>1. CallStep(r, expired[r]) /\ HealthInv
  BY DEF Fallback, ServerInv
<1>2. QueryInv(call[r], stage[r], expired[r], resolved[r], reply[r])
  BY DEF ServerInv, QueriesInv
<1>3. call[r].todo \in Seq(Servers)
  BY <1>2 DEF QueryInv, Calls
<1>4. call[r].pc \in {"well", "ill"} => call[r].todo # <<>>
  BY <1>2 DEF QueryInv, CallInv, Turns
<1>5. call[r].pc \in {"well", "ill"} => Head(call[r].todo) \in Servers
  BY <1>3, <1>4
<1>6. UNCHANGED <<up, toCheck, recovered, stopped>>
  BY <1>1 DEF CallStep, GiveUp, NextUpstream, Answered, ExchangeFails, markHealthy,
              markUnhealthy, healthVars
<1>7. healthy' \subseteq Servers
  BY <1>1, <1>5 DEF CallStep, GiveUp, NextUpstream, Answered, ExchangeFails, markHealthy,
                    markUnhealthy, HealthInv
<1> QED BY <1>1, <1>6, <1>7 DEF HealthInv

LEMMA HealthStep == ASSUME ServerInv, [Next]_vars PROVE HealthInv'
<1>1. HealthInv
  BY DEF ServerInv
<1>2. ASSUME NEW r \in Requests,
             Arrive(r) \/ AnswerHere(r) \/ BeginResolution(r) \/ Resolved(r)
               \/ ResolutionFails(r) \/ AfterFallback(r) \/ WriteMsg(r) \/ ContextExpires(r)
      PROVE  HealthInv'
  <2>1. UNCHANGED <<up, healthy, toCheck, recovered, stopped>>
    BY <1>2 DEF Arrive, AnswerHere, BeginResolution, Resolved, ResolutionFails,
                AfterFallback, WriteMsg, ContextExpires, failoverVars, healthVars
  <2> QED BY <1>1, <2>1 DEF HealthInv
<1>3. CASE HealthCheck
  <2>1. ASSUME BeginCheck PROVE HealthInv'
    BY <1>1, <2>1 DEF BeginCheck, HealthInv
  <2>2. ASSUME NEW u \in toCheck, ProbeAnswered(u) PROVE HealthInv'
    BY <1>1, <2>2 DEF ProbeAnswered, HealthInv
  <2>3. ASSUME NEW u \in toCheck, ProbeFails(u) PROVE HealthInv'
    BY <1>1, <2>3 DEF ProbeFails, HealthInv
  <2>4. ASSUME MarkRecovered PROVE HealthInv'
    BY <1>1, <2>4 DEF MarkRecovered, HealthInv
  <2> QED BY <1>3, <2>1, <2>2, <2>3, <2>4 DEF HealthCheck, CheckStep
<1>4. CASE Stop
  BY <1>1, <1>4 DEF Stop, HealthInv
<1>5. ASSUME NEW u \in Servers, UpstreamChanges(u) PROVE HealthInv'
  BY <1>1, <1>5 DEF UpstreamChanges, healthVars, HealthInv
<1>6. CASE UNCHANGED vars
  BY <1>1, <1>6 DEF vars, failoverVars, healthVars, HealthInv
<1> QED BY <1>2, <1>3, <1>4, <1>5, <1>6, FallbackMarks DEF Next, HandleStep

LEMMA QueriesStep == ASSUME ServerInv, [Next]_vars PROVE QueriesInv'
<1>1. QueriesInv
  BY DEF ServerInv
<1>2. ASSUME UNCHANGED <<call, stage, expired, resolved, reply>> PROVE QueriesInv'
  BY <1>1, <1>2 DEF QueriesInv
<1>3. CASE HealthCheck
  <2>1. UNCHANGED call
    BY <1>3 DEF HealthCheck, CheckStep, BeginCheck, MarkRecovered, ProbeAnswered, ProbeFails
  <2> QED BY <1>2, <1>3, <2>1 DEF HealthCheck, handlerVars
<1>4. CASE Stop /\ UNCHANGED handlerVars
  BY <1>2, <1>4 DEF Stop, handlerVars
<1>5. CASE \E u \in Servers : UpstreamChanges(u) /\ UNCHANGED handlerVars
  BY <1>2, <1>5 DEF UpstreamChanges, handlerVars
<1>6. CASE UNCHANGED vars
  BY <1>2, <1>6 DEF vars, failoverVars, handlerVars
<1> QED BY <1>1, <1>3, <1>4, <1>5, <1>6, ArriveStep, AnswerHereStep, BeginResolutionStep,
           ContextExpiresStep, ResolvedStep, ResolutionFailsStep, FallbackStep,
           AfterFallbackStep, WriteMsgStep DEF Next, HandleStep

LEMMA ServerInvHolds == Spec => []ServerInv
<1>1. ServerInv /\ [Next]_vars => ServerInv'
  BY HealthStep, QueriesStep DEF ServerInv
<1> QED BY <1>1, ServerInit, PTL DEF Spec

-----------------------------------------------------------------------------
(* The theorems about the handler. *)

(* A query is in the fallback exactly while its call of Resolve is under   *)
(* way, and has a reply exactly when it is to be written.                  *)
THEOREM TypeCorrect == Spec => []TypeOK
<1>1. ServerInv => TypeOK
  <2> SUFFICES ASSUME ServerInv PROVE TypeOK
    OBVIOUS
  <2>1. ASSUME NEW r \in Requests
        PROVE  /\ call[r] \in Calls
               /\ stage[r] \in {"idle", "begin", "resolve", "failover", "write", "done"}
               /\ call[r].pc # "off" <=> stage[r] = "failover"
               /\ reply[r] # None <=> stage[r] = "write"
               /\ resolved[r] \in Rcodes \cup {"error", None}
    BY DEF ServerInv, QueriesInv, QueryInv, Stages
  <2>2. ASSUME NEW c \in Calls
        PROVE  /\ c.pc \in {"off", "next", "exchange", "well", "ill", "end"}
               /\ \A i \in DOMAIN c.todo : c.todo[i] \in Servers
               /\ c.retry \in 0..MaxRetries + 1
               /\ c.tried \in [Servers -> 0..MaxRetries + 1]
               /\ c.rcode \in Rcodes \cup {None}
    BY DEF Calls
  <2> QED BY <2>1, <2>2 DEF TypeOK, ServerInv, QueriesInv, HealthInv
<1> QED BY <1>1, ServerInvHolds, PTL

(* Whatever other queries and the health check mark in the meantime, all   *)
(* upstreams that were taken for healthy when a query came have used up    *)
(* their retries before one that was not is asked.                         *)
THEOREM HealthyFirstHolds == Spec => []HealthyFirst
<1>1. ServerInv => HealthyFirst
  <2> SUFFICES ASSUME ServerInv, NEW r \in Requests, call[r].pc = "exchange",
                      Head(call[r].todo) \notin call[r].first, NEW u \in call[r].first
               PROVE  call[r].tried[u] = MaxRetries + 1
    BY DEF HealthyFirst
  <2> DEFINE c == call[r]
  <2>1. c \in Calls /\ CallInv(c, expired[r])
    BY DEF ServerInv, QueriesInv, QueryInv
  <2>2. c.pc = "exchange" /\ Head(c.todo) \notin c.first /\ u \in c.first
    OBVIOUS
  <2> HIDE DEF c
  <2>3. c.todo \in Seq(Servers) /\ c.todo # <<>> /\ Turns(c) /\ u \in Servers
    BY <2>1, <2>2 DEF Calls, CallInv, Turns
  <2>4. ASSUME NEW i \in DOMAIN c.todo PROVE c.todo[i] \notin c.first
    <3>1. 1 \in DOMAIN c.todo /\ c.todo[1] \notin c.first /\ (i = 1 \/ 1 < i)
      BY <2>2, <2>3
    <3> QED BY <2>1, <3>1 DEF CallInv, IsOrdered
  <2>5. RunOut(c, u)
    BY <2>2, <2>3, <2>4 DEF Turns
  <2> QED BY <2>5 DEF RunOut, c
<1> QED BY <1>1, ServerInvHolds, PTL

(* No query is answered SERVFAIL unless its resolution failed and its      *)
(* deadline has passed or all retries of all upstreams failed for it.      *)
THEOREM ServfailIsLastResortHolds == Spec => ServfailIsLastResort
<1> DEFINE LastResort ==
      \A r \in Requests : reply'[r] = "SERVFAIL" /\ reply[r] = None =>
        /\ resolved'[r] = "error"
        /\ \/ ~Enabled
           \/ expired[r]
           \/ \A u \in Servers : call[r].tried[u] = MaxRetries + 1
<1>1. ServerInv /\ [Next]_vars => [LastResort]_vars
  <2> SUFFICES ASSUME ServerInv, [Next]_vars, NEW q \in Requests,
                      reply'[q] = "SERVFAIL", reply[q] = None
               PROVE  /\ resolved'[q] = "error"
                      /\ \/ ~Enabled
                         \/ expired[q]
                         \/ \A u \in Servers : call[q].tried[u] = MaxRetries + 1
    OBVIOUS
  <2>1. "SERVFAIL" # None /\ BlockedRcode # "SERVFAIL"
    BY ServerAssumption
  <2>2. reply \in [Requests -> Replies \cup {None}] /\ reply' # reply
    BY <2>1 DEF ServerInv, QueriesInv
  <2>3. \E r \in Requests : AnswerHere(r) \/ Resolved(r) \/ ResolutionFails(r)
                              \/ AfterFallback(r) \/ WriteMsg(r)
    BY <2>2 DEF Next, HandleStep, Arrive, BeginResolution, Fallback, ContextExpires,
                HealthCheck, handlerVars, vars
  <2>4. PICK r \in Requests : AnswerHere(r) \/ Resolved(r) \/ ResolutionFails(r)
                                \/ AfterFallback(r) \/ WriteMsg(r)
    BY <2>3
  <2>5. \E rcode : Say(r, rcode)
    BY <2>2, <2>4 DEF AnswerHere, Resolved, ResolutionFails, AfterFallback, WriteMsg
  <2>6. r = q
    BY <2>1, <2>2, <2>5 DEF Say
  <2>7. ASSUME NEW rcode, Say(q, rcode) PROVE rcode = "SERVFAIL"
    BY <2>2, <2>7 DEF Say
  <2>8. ~AnswerHere(q) /\ ~Resolved(q) /\ ~WriteMsg(q)
    BY <2>1, <2>7 DEF AnswerHere, Resolved, SetReply, WriteMsg
  <2>9. CASE ResolutionFails(q)
    <3>1. resolved' = [resolved EXCEPT ![q] = "error"]
      BY <2>9 DEF ResolutionFails
    <3>2. resolved'[q] = "error"
      BY <3>1 DEF ServerInv, QueriesInv
    <3>3. ~Enabled
      BY <2>2, <2>9 DEF ResolutionFails
    <3> QED BY <3>2, <3>3
  <2>10. CASE AfterFallback(q)
    <3>1. /\ stage[q] = "failover" /\ call[q].pc = "end" /\ UNCHANGED resolved
          /\ Say(q, IF call[q].rcode = None THEN "SERVFAIL" ELSE SetReply(call[q].rcode))
      BY <2>10 DEF AfterFallback, At
    <3>2. call[q].rcode = None
      BY <2>7, <3>1 DEF SetReply
    <3>3. QueryInv(call[q], stage[q], expired[q], resolved[q], reply[q])
      BY DEF ServerInv, QueriesInv
    <3>4. CallInv(call[q], expired[q]) /\ resolved[q] = "error"
      BY <3>1, <3>3 DEF QueryInv
    <3> QED BY <3>1, <3>2, <3>4 DEF CallInv, RunOut
  <2> QED BY <2>4, <2>6, <2>8, <2>9, <2>10
<1> QED BY <1>1, ServerInvHolds, PTL DEF Spec, ServfailIsLastResort
=============================================================================
