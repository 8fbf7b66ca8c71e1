---------------------------- MODULE RateLimiter -----------------------------
(***************************************************************************)
(* internal/ratelimit: a map of token buckets, one per client address,     *)
(* refilled lazily when the client asks and thrown away when it has been   *)
(* silent for twice the cleanup interval.  Allow and cleanupStale hold the *)
(* mutex throughout and are one step each.                                 *)
(*                                                                         *)
(* Units as in TokenBucket: a tick is 1/Scale s, a level unit 1/Scale      *)
(* token.  The float64 arithmetic of the code is exact here.               *)
(***************************************************************************)
EXTENDS Integers, Functions

CONSTANTS
  Clients,         \* client addresses
  Rate,            \* tokens per second
  Burst,           \* tokens
  Scale,           \* ticks per second
  CleanupInterval, \* ticks
  NoVerdict,       \* nothing asked yet
  MaxClock         \* bound: the clock stops here

ASSUME LimiterAssumption ==
  /\ Rate \in Nat /\ Burst \in Nat /\ Scale \in Nat \ {0}
  /\ CleanupInterval \in Nat /\ MaxClock \in Nat

(***************************************************************************)
(* A silent client's bucket fills up before it may be thrown away.  The    *)
(* code does not check this; its defaults (100/s, 200, 5 min) satisfy it.  *)
(***************************************************************************)
ASSUME CleanupAssumption == Burst * Scale <= Rate * (2 * CleanupInterval)

VARIABLES
  buckets,   \* some clients |-> their bucket
  now,       \* the clock
  verdict,   \* the client Allow was called for last and its result
  since,     \* (history) the beginning of the window that is watched
  granted    \* (history) client |-> queries allowed in that window

limiterVars == <<buckets, now, verdict, since, granted>>

Full == Burst * Scale

Capped(units) == IF units > Full THEN Full ELSE units

(* What Allow finds in the bucket: the stored tokens and the refill. *)
Refilled(b, at) == Capped(b.tokens + (at - b.lastTime) * Rate)

NewBucket(at) == [tokens |-> Full, lastTime |-> at]

BucketOf(c) == IF c \in DOMAIN buckets THEN buckets[c] ELSE NewBucket(now)

Level(c) == Refilled(BucketOf(c), now)

(* Mutant: a bucket is thrown away after one interval instead of two. *)
IsStaleEarly(b, at) == b.lastTime < at - CleanupInterval

IsStale(b, at) == b.lastTime < at - 2 * CleanupInterval

LimiterInit ==
  /\ buckets = [c \in {} |-> NewBucket(0)]
  /\ now = 0
  /\ verdict = NoVerdict
  /\ since = 0
  /\ granted = [c \in Clients |-> 0]

Keep(c, tokens) ==
  buckets' = [d \in DOMAIN buckets \cup {c} |->
                IF d = c THEN [tokens |-> tokens, lastTime |-> now] ELSE buckets[d]]

Grant(c) ==
  /\ Level(c) >= Scale
  /\ Keep(c, Level(c) - Scale)
  /\ verdict' = <<c, TRUE>>
  /\ granted' = [granted EXCEPT ![c] = @ + 1]
  /\ UNCHANGED <<now, since>>

Block(c) ==
  /\ Level(c) < Scale
  /\ Keep(c, Level(c))
  /\ verdict' = <<c, FALSE>>
  /\ UNCHANGED <<now, since, granted>>

Allow(c) == Grant(c) \/ Block(c)

(* Mutant: the condition is turned around and the buckets in use go. *)
CleanupInUse ==
  /\ \E c \in DOMAIN buckets : IsStale(buckets[c], now)
  /\ buckets' = Restrict(buckets, {c \in DOMAIN buckets : IsStale(buckets[c], now)})
  /\ UNCHANGED <<now, verdict, since, granted>>

CleanupStale ==
  /\ \E c \in DOMAIN buckets : IsStale(buckets[c], now)
  /\ buckets' = Restrict(buckets, {c \in DOMAIN buckets : ~IsStale(buckets[c], now)})
  /\ UNCHANGED <<now, verdict, since, granted>>

Tick ==
  /\ now < MaxClock
  /\ now' = now + 1
  /\ UNCHANGED <<buckets, verdict, since, granted>>

(* Start to count afresh, at any time: the window of WindowBound. *)
WatchWindow ==
  /\ since' = now
  /\ granted' = [c \in Clients |-> 0]
  /\ UNCHANGED <<buckets, now, verdict>>

LimiterNext ==
  \/ \E c \in Clients : Allow(c)
  \/ CleanupStale
  \/ Tick
  \/ WatchWindow

(* The ticker of cleanupLoop keeps firing. *)
LimiterSpec == LimiterInit /\ [][LimiterNext]_limiterVars /\ WF_limiterVars(CleanupStale)

-----------------------------------------------------------------------------
LimiterTypeOK ==
  /\ DOMAIN buckets \subseteq Clients
  /\ \A c \in DOMAIN buckets : buckets[c] \in [tokens : 0 .. Full, lastTime : 0 .. now]
  /\ now \in Nat
  /\ verdict \in (Clients \X BOOLEAN) \cup {NoVerdict}
  /\ since \in 0 .. now
  /\ granted \in [Clients -> Nat]

(***************************************************************************)
(* Between any two moments a client gets at most the burst and what the    *)
(* rate brings in between, although its bucket may be thrown away and made *)
(* anew, full, in the meantime.                                            *)
(***************************************************************************)
WindowBound ==
  \A c \in Clients : granted[c] * Scale <= Full + Rate * (now - since)

(***************************************************************************)
(* The same with the tokens still at hand: what WindowBound needs to be    *)
(* preserved by every step.                                                *)
(***************************************************************************)
WindowInv ==
  \A c \in Clients : granted[c] * Scale + Level(c) <= Full + Rate * (now - since)

(***************************************************************************)
(* Lazy refill and cleanup are invisible: every verdict is the one a       *)
(* bucket per client that is refilled at each tick would give.             *)
(***************************************************************************)
Bucket == INSTANCE TokenBucket WITH level <- [c \in Clients |-> Level(c)]

ImplementsTokenBucket == Bucket!Spec

(***************************************************************************)
(* The bucket of a client that stays away does not stay in memory.         *)
(***************************************************************************)
StaleIsRemoved ==
  \A c \in Clients :
    (c \in DOMAIN buckets /\ IsStale(buckets[c], now))
      ~> (c \notin DOMAIN buckets \/ ~IsStale(buckets[c], now))
=============================================================================
