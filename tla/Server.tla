------------------------------- MODULE Server -------------------------------
(***************************************************************************)
(* internal/server, handleDNS: what becomes of a query, from the limiter   *)
(* to the reply.  Limiter, filter, local records and resolver have modules *)
(* of their own; here each may say what it can say.  The fallback to the   *)
(* upstreams is that of Failover, under the deadline of the resolution     *)
(* that failed.  Statistics are left out.                                  *)
(*                                                                         *)
(* One member of Requests is the goroutine of one query.                   *)
(***************************************************************************)
EXTENDS Failover

CONSTANTS
  Enabled,       \* cfg.Failover.Enabled
  BlockedRcode   \* what cfg.Filter.BlockResponse makes of a blocked query

ASSUME ServerAssumption ==
  /\ Enabled \in BOOLEAN
  /\ BlockedRcode \in {"NOERROR", "NXDOMAIN", "REFUSED"}
  /\ None \notin {"NOERROR", "NXDOMAIN", "REFUSED", "FORMERR", "SERVFAIL", "error"}

VARIABLES
  stage,         \* request |-> where it is in handleDNS
  expired,       \* request |-> its 10 s context has expired
  resolved,      \* request |-> the rcode its resolution had, "error", or None
  reply          \* request |-> the rcode of its reply, or None

handlerVars == <<stage, expired, resolved, reply>>
vars == <<failoverVars, handlerVars>>

Init ==
  /\ FailoverInit
  /\ stage = [r \in Requests |-> "idle"]
  /\ expired = [r \in Requests |-> FALSE]
  /\ resolved = [r \in Requests |-> None]
  /\ reply = [r \in Requests |-> None]

At(r, s) == stage[r] = s
GoTo(r, s) == stage' = [stage EXCEPT ![r] = s]
Say(r, rcode) == reply' = [reply EXCEPT ![r] = rcode]

-----------------------------------------------------------------------------
Arrive(r) ==
  /\ At(r, "idle")
  /\ GoTo(r, "begin")
  /\ UNCHANGED <<failoverVars, expired, resolved, reply>>

(* Refused by the limiter, without a question, blocked by the filter, or   *)
(* found in the local records (rcode 0, which SetReply does not change).   *)
AnswerHere(r) ==
  /\ At(r, "begin")
  /\ \E rcode \in {"REFUSED", "FORMERR", BlockedRcode, "NOERROR"} : Say(r, rcode)
  /\ GoTo(r, "write")
  /\ UNCHANGED <<failoverVars, expired, resolved>>

BeginResolution(r) ==
  /\ At(r, "begin")
  /\ GoTo(r, "resolve")
  /\ UNCHANGED <<failoverVars, expired, resolved, reply>>

ContextExpires(r) ==
  /\ stage[r] \in {"resolve", "failover"}
  /\ ~expired[r]
  /\ expired' = [expired EXCEPT ![r] = TRUE]
  /\ UNCHANGED <<failoverVars, stage, resolved, reply>>

(* SetReply of the DNS library makes of a message the answer to a request, *)
(* and resets its rcode.                                                   *)
SetReply(rcode) == "NOERROR"

Resolved(r) ==
  /\ At(r, "resolve")
  /\ \E rcode \in Rcodes :
       /\ resolved' = [resolved EXCEPT ![r] = rcode]
       /\ Say(r, SetReply(rcode))
  /\ GoTo(r, "write")
  /\ UNCHANGED <<failoverVars, expired>>

ResolutionFails(r) ==
  /\ At(r, "resolve")
  /\ resolved' = [resolved EXCEPT ![r] = "error"]
  /\ IF Enabled
     THEN GoTo(r, "failover") /\ BeginResolve(r) /\ UNCHANGED reply
     ELSE GoTo(r, "write") /\ Say(r, "SERVFAIL") /\ UNCHANGED call
  /\ UNCHANGED <<up, healthy, healthVars, expired>>

Fallback(r) ==
  /\ At(r, "failover")
  /\ CallStep(r, expired[r])
  /\ UNCHANGED handlerVars

AfterFallback(r) ==
  /\ At(r, "failover")
  /\ call[r].pc = "end"
  /\ Say(r, IF call[r].rcode = None THEN "SERVFAIL" ELSE SetReply(call[r].rcode))
  /\ call' = [call EXCEPT ![r] = NoCall]
  /\ GoTo(r, "write")
  /\ UNCHANGED <<up, healthy, healthVars, expired, resolved>>

(* With the reply sent the goroutine, and what it knew, is gone. *)
WriteMsg(r) ==
  /\ At(r, "write")
  /\ GoTo(r, "done")
  /\ Say(r, None)
  /\ expired' = [expired EXCEPT ![r] = FALSE]
  /\ resolved' = [resolved EXCEPT ![r] = None]
  /\ UNCHANGED failoverVars

-----------------------------------------------------------------------------
HandleStep(r) ==
  \/ AnswerHere(r) \/ BeginResolution(r) \/ Resolved(r) \/ ResolutionFails(r)
  \/ Fallback(r) \/ AfterFallback(r) \/ WriteMsg(r)

HealthCheck == CheckStep /\ UNCHANGED handlerVars

Next ==
  \/ \E r \in Requests : Arrive(r) \/ HandleStep(r) \/ ContextExpires(r)
  \/ HealthCheck
  \/ Stop /\ UNCHANGED handlerVars
  \/ \E u \in Servers : UpstreamChanges(u) /\ UNCHANGED handlerVars

(* Goroutines are scheduled, the ticker fires, exchanges end by timeouts.  *)
Fairness ==
  /\ \A r \in Requests : WF_vars(HandleStep(r))
  /\ WF_vars(HealthCheck)

Spec == Init /\ [][Next]_vars /\ Fairness

-----------------------------------------------------------------------------
TypeOK ==
  /\ up \subseteq Servers /\ healthy \subseteq Servers /\ toCheck \subseteq Servers
  /\ recovered \in toCheck \cup {None}
  /\ stopped \in BOOLEAN
  /\ \A r \in Requests :
       /\ call[r].pc \in {"off", "next", "exchange", "well", "ill", "end"}
       /\ \A i \in DOMAIN call[r].todo : call[r].todo[i] \in Servers
       /\ call[r].retry \in 0..MaxRetries + 1
       /\ call[r].tried \in [Servers -> 0..MaxRetries + 1]
       /\ call[r].rcode \in Rcodes \cup {None}
       /\ stage[r] \in {"idle", "begin", "resolve", "failover", "write", "done"}
       /\ call[r].pc # "off" <=> stage[r] = "failover"
       /\ reply[r] # None <=> stage[r] = "write"
       /\ resolved[r] \in Rcodes \cup {"error", None}
  /\ expired \in [Requests -> BOOLEAN]

(***************************************************************************)
(* SERVFAIL is the last resort: a query gets it only when its resolution   *)
(* failed and either its deadline has passed or every upstream was given   *)
(* all its retries, whatever the health check and other queries marked.    *)
(***************************************************************************)
ServfailIsLastResort ==
  [][ \A r \in Requests : reply'[r] = "SERVFAIL" /\ reply[r] = None =>
        /\ resolved'[r] = "error"
        /\ \/ ~Enabled
           \/ expired[r]
           \/ \A u \in Servers : call[r].tried[u] = MaxRetries + 1 ]_vars

(***************************************************************************)
(* A query is put to an upstream that was marked unhealthy when it came    *)
(* only after all the healthy ones have used up their retries.             *)
(***************************************************************************)
HealthyFirst ==
  \A r \in Requests :
    call[r].pc = "exchange" /\ Head(call[r].todo) \notin call[r].first
      => \A u \in call[r].first : call[r].tried[u] = MaxRetries + 1

(***************************************************************************)
(* Every query gets a reply, whatever fails and whether or not a deadline  *)
(* expires.                                                                *)
(***************************************************************************)
EveryQueryAnswered ==
  \A r \in Requests : At(r, "begin") ~> At(r, "done")

(***************************************************************************)
(* An upstream that works again for good, the probe included, does not     *)
(* stay marked unhealthy, although a late failure may mark it once more,   *)
(* as long as health checks are made.                                      *)
(***************************************************************************)
UpstreamRecovers ==
  \A u \in Servers \ NoProbe : <>[](u \in up) => []<>(u \in healthy \/ stopped)

(***************************************************************************)
(* RecordQuery distinguishes "case 3: // NXDOMAIN" in the replies, so there *)
(* must be some: a client is told that a name does not exist when that is  *)
(* what its resolution found.                                              *)
(***************************************************************************)
RcodeReachesClient ==
  \A r \in Requests : resolved[r] \in Rcodes => reply[r] = resolved[r]
=============================================================================
