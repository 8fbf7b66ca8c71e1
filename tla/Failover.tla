------------------------------ MODULE Failover ------------------------------
(***************************************************************************)
(* internal/failover: a query that the resolver could not answer is put to *)
(* the configured upstreams in turn, those taken for healthy first, each   *)
(* up to MaxRetries + 1 times.  Queries and the goroutine of               *)
(* healthCheckLoop mark upstreams healthy and unhealthy, each after an     *)
(* exchange that was made without the lock.                                *)
(*                                                                         *)
(* The module has the steps of Resolve, for a set of calls at a time, and  *)
(* of the health check; Server composes them with the handler of queries.  *)
(***************************************************************************)
EXTENDS Sequences, Naturals

CONSTANTS
  Requests,    \* goroutines that handle a query
  Upstreams,   \* the sequence cfg.Upstreams
  MaxRetries,
  Rcodes,      \* the rcodes of an answer that is not SERVFAIL
  NoProbe,     \* upstreams that answer, but not the probe with NOERROR
  None         \* no rcode, no upstream

Servers == {Upstreams[i] : i \in DOMAIN Upstreams}

ASSUME FailoverAssumption ==
  /\ Upstreams \in Seq(Servers)
  /\ \A i, j \in DOMAIN Upstreams : Upstreams[i] = Upstreams[j] => i = j
  /\ MaxRetries \in Nat
  /\ Rcodes # {} /\ "SERVFAIL" \notin Rcodes
  /\ NoProbe \subseteq Servers
  /\ None \notin Rcodes \cup Servers

VARIABLES
  up,          \* (environment) the upstreams that answer, in time and not SERVFAIL
  healthy,     \* the upstreams f.healthy has TRUE for
  call,        \* request |-> its call of Resolve
  toCheck,     \* what the health check has still to probe
  recovered,   \* the upstream whose probe has just been answered
  stopped      \* stopChan is closed

healthVars == <<toCheck, recovered, stopped>>
failoverVars == <<up, healthy, call, healthVars>>

(* tried (history): upstream |-> the exchanges with it that failed;        *)
(* first (history): what was healthy when the call began.                  *)
NoCall == [pc |-> "off", todo |-> <<>>, retry |-> 0, rcode |-> None,
           tried |-> [u \in Servers |-> 0], first |-> {}]

FailoverInit ==
  /\ up \in SUBSET Servers
  /\ healthy = Servers
  /\ call = [r \in Requests |-> NoCall]
  /\ toCheck = {}
  /\ recovered = None
  /\ stopped = FALSE

Place(u) == CHOOSE i \in DOMAIN Upstreams : Upstreams[i] = u

GoesBefore(u, v, well) ==
  IF u \in well <=> v \in well THEN Place(u) < Place(v) ELSE u \in well

(* The upstreams in well, then the others, either in the order of the      *)
(* configuration: the set has this one sequence.                           *)
getOrderedUpstreams(well) ==
  {s \in [DOMAIN Upstreams -> Servers] :
     /\ \A u \in Servers : \E i \in DOMAIN s : s[i] = u
     /\ \A i, j \in DOMAIN s : i < j => GoesBefore(s[i], s[j], well)}

-----------------------------------------------------------------------------
(* Resolve. *)

CallAt(r, pc) == call' = [call EXCEPT ![r].pc = pc]

(* Mutant: the upstreams are tried in the order of the configuration. *)
BeginAsConfigured(r) ==
  call' = [call EXCEPT ![r] = [NoCall EXCEPT !.pc = "next", !.todo = Upstreams, !.first = healthy]]

BeginResolve(r) ==
  \E order \in getOrderedUpstreams(healthy) :
    call' = [call EXCEPT ![r] = [NoCall EXCEPT !.pc = "next", !.todo = order,
                                               !.first = healthy]]

(* All have been tried, or the context has expired. *)
GiveUp(r, expired) ==
  /\ call[r].pc = "next"
  /\ call[r].todo = <<>> \/ expired
  /\ CallAt(r, "end")
  /\ UNCHANGED <<up, healthy, healthVars>>

NextUpstream(r, expired) ==
  /\ call[r].pc = "next"
  /\ call[r].todo # <<>> /\ ~expired
  /\ call' = [call EXCEPT ![r].pc = "exchange", ![r].retry = 0]
  /\ UNCHANGED <<up, healthy, healthVars>>

Answered(r, expired) ==
  /\ call[r].pc = "exchange"
  /\ Head(call[r].todo) \in up /\ ~expired
  /\ \E rcode \in Rcodes :
       call' = [call EXCEPT ![r].pc = "well", ![r].rcode = rcode]
  /\ UNCHANGED <<up, healthy, healthVars>>

CountFailure(r) == [call[r].tried EXCEPT ![Head(call[r].todo)] = @ + 1]

(* Mutant: one retry less. *)
RetryLess(r, expired) ==
  /\ call[r].pc = "exchange"
  /\ Head(call[r].todo) \notin up \/ expired
  /\ call' = [call EXCEPT
       ![r].tried = CountFailure(r),
       ![r].retry = @ + 1,
       ![r].pc = IF call[r].retry + 1 < MaxRetries THEN "exchange" ELSE "ill"]
  /\ UNCHANGED <<up, healthy, healthVars>>

(* Mutant: one retry more. *)
RetryMore(r, expired) ==
  /\ call[r].pc = "exchange"
  /\ Head(call[r].todo) \notin up \/ expired
  /\ call' = [call EXCEPT
       ![r].tried = CountFailure(r),
       ![r].retry = @ + 1,
       ![r].pc = IF call[r].retry <= MaxRetries THEN "exchange" ELSE "ill"]
  /\ UNCHANGED <<up, healthy, healthVars>>

(* No answer, or SERVFAIL; with an expired context every exchange fails. *)
ExchangeFails(r, expired) ==
  /\ call[r].pc = "exchange"
  /\ Head(call[r].todo) \notin up \/ expired
  /\ call' = [call EXCEPT
       ![r].tried = CountFailure(r),
       ![r].retry = @ + 1,
       ![r].pc = IF call[r].retry < MaxRetries THEN "exchange" ELSE "ill"]
  /\ UNCHANGED <<up, healthy, healthVars>>

markHealthy(r) ==
  /\ call[r].pc = "well"
  /\ healthy' = healthy \cup {Head(call[r].todo)}
  /\ CallAt(r, "end")
  /\ UNCHANGED <<up, healthVars>>

(* Mutant: the upstream that failed is not left for the next one. *)
MarkAndStay(r) ==
  /\ call[r].pc = "ill"
  /\ healthy' = healthy \ {Head(call[r].todo)}
  /\ call' = [call EXCEPT ![r].pc = "next", ![r].tried = NoCall.tried]
  /\ UNCHANGED <<up, healthVars>>

markUnhealthy(r) ==
  /\ call[r].pc = "ill"
  /\ healthy' = healthy \ {Head(call[r].todo)}
  /\ call' = [call EXCEPT ![r].pc = "next", ![r].todo = Tail(@)]
  /\ UNCHANGED <<up, healthVars>>

CallStep(r, expired) ==
  \/ GiveUp(r, expired) \/ NextUpstream(r, expired)
  \/ Answered(r, expired) \/ ExchangeFails(r, expired)
  \/ markHealthy(r) \/ markUnhealthy(r)

-----------------------------------------------------------------------------
(* checkUnhealthy, on every tick: what is unhealthy is probed one by one,  *)
(* and only NOERROR counts, where a query is content with any other rcode. *)

BeginCheck ==
  /\ ~stopped
  /\ toCheck = {} /\ healthy # Servers
  /\ toCheck' = Servers \ healthy
  /\ UNCHANGED <<up, healthy, call, recovered, stopped>>

ProbeAnswered(u) ==
  /\ u \in toCheck /\ recovered = None
  /\ u \in up \ NoProbe
  /\ recovered' = u
  /\ UNCHANGED <<up, healthy, call, toCheck, stopped>>

ProbeFails(u) ==
  /\ u \in toCheck /\ recovered = None
  /\ u \notin up \ NoProbe
  /\ toCheck' = toCheck \ {u}
  /\ UNCHANGED <<up, healthy, call, recovered, stopped>>

(* Mutant: the answer to the probe is not made use of. *)
ForgetRecovered ==
  /\ recovered # None
  /\ toCheck' = toCheck \ {recovered}
  /\ recovered' = None
  /\ UNCHANGED <<up, healthy, call, stopped>>

MarkRecovered ==
  /\ recovered # None
  /\ healthy' = healthy \cup {recovered}
  /\ toCheck' = toCheck \ {recovered}
  /\ recovered' = None
  /\ UNCHANGED <<up, call, stopped>>

CheckStep == BeginCheck \/ MarkRecovered \/ \E u \in toCheck : ProbeAnswered(u) \/ ProbeFails(u)

Stop ==
  /\ ~stopped
  /\ stopped' = TRUE
  /\ UNCHANGED <<up, healthy, call, toCheck, recovered>>

(* Upstreams break down and come back. *)
UpstreamChanges(u) ==
  /\ up' = IF u \in up THEN up \ {u} ELSE up \cup {u}
  /\ UNCHANGED <<healthy, call, healthVars>>
=============================================================================
