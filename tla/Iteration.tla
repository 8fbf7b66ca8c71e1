------------------------------ MODULE Iteration ------------------------------
(***************************************************************************)
(* internal/resolver, resolveIterative: the walk from the root servers     *)
(* down the delegations that answers one question.  It calls itself for    *)
(* the target of a CNAME and for the addresses of name servers that came   *)
(* without glue, and nothing but depth and loop counters ends it: servers  *)
(* may refer to each other for ever.  One member of the stack is one call. *)
(*                                                                         *)
(* In Resolver the whole walk is one step with an arbitrary outcome.  Here *)
(* it is taken apart for one question of a type other than CNAME.          *)
(***************************************************************************)
EXTENDS Naturals, Sequences, SequencesExt

CONSTANTS
  Question,      \* the name the client asks for
  Names,         \* names that are asked for on the way
  Address,       \* addresses of name servers and of anything else
  RootServers,
  Says(_),       \* name |-> the responses servers may give
  CachedFor(_),  \* name |-> what a hit in the cache may have for it
  MaxDepth, MaxCNAMEChain, Retries,
  NSReserve,     \* resolver.go:332 has 5
  None

Record == [owner : Names, target : Names \cup Address]
Answer == Seq(Record)

(* An rcode other than these and SERVFAIL is handled like NOERROR. *)
Response == [aa : BOOLEAN, rcode : {"NOERROR", "NXDOMAIN"}, answer : Answer,
             ns : Seq(Names), glue : SUBSET Address]

ASSUME IterationAssumption ==
  /\ Question \in Names
  /\ RootServers \subseteq Address /\ RootServers # {}
  /\ \A n \in Names : Says(n) \subseteq Response /\ CachedFor(n) \subseteq Answer
  /\ MaxDepth \in Nat /\ MaxCNAMEChain \in Nat /\ Retries \in Nat /\ NSReserve \in Nat
  /\ None \notin Names \cup Address

VARIABLES
  stack,    \* the calls of resolveIterative under way, the innermost last
  ret,      \* what a call returned and its caller has not taken yet
  ctxDone,  \* the context of the question has expired
  stored    \* the last message the walk put into the cache

vars == <<stack, ret, ctxDone, stored>>

(* (msg, nil) and (nil, err).  why and forNS are history. *)
Ok(a) == [kind |-> "ok", answer |-> a]
Error(why, forNS) == [kind |-> "error", why |-> why, forNS |-> forNS]

IsOk(r) == r # None /\ r.kind = "ok"
IsError(r) == r # None /\ r.kind = "error"

(* A call.  tried: servers of the current loop that have had their turn;   *)
(* nsNames: servers still to look up, the first of them by an inner call   *)
(* if the phase is "lookup"; alias: the answer with the CNAME whose target  *)
(* an inner call resolves; forNS (history): the call serves the search     *)
(* for a name server.                                                      *)
Call(n, depth, forNS) ==
  [name |-> n, depth |-> depth, forNS |-> forNS, phase |-> "enter", i |-> 0,
   nameservers |-> RootServers, tried |-> {}, ns |-> None, retry |-> 0,
   nsNames |-> <<>>, nsIPs |-> {}, alias |-> <<>>]

Init ==
  /\ stack = <<Call(Question, 0, FALSE)>>
  /\ ret = None
  /\ ctxDone = FALSE
  /\ stored = None

top == stack[Len(stack)]
Update(f) == stack' = [stack EXCEPT ![Len(stack)] = f]

Running(phase) == stack # <<>> /\ ret = None /\ top.phase = phase

Return(r) ==
  /\ stack' = SubSeq(stack, 1, Len(stack) - 1)
  /\ ret' = r

Fail(why) == Return(Error(why, top.forNS))

(* f is what becomes of the caller. *)
CallInner(f, n, forNS) ==
  /\ stack' = Append([stack EXCEPT ![Len(stack)] = f],
                     Call(n, top.depth + 1, forNS))
  /\ UNCHANGED ret

-----------------------------------------------------------------------------
(* The loop of resolveIterative. *)

Enter ==
  /\ Running("enter")
  /\ \/ top.depth > MaxDepth /\ Fail("depth")
     \/ top.depth <= MaxDepth /\ ctxDone /\ Fail("context")
     \/ /\ top.depth <= MaxDepth /\ ~ctxDone
        /\ Update([top EXCEPT !.phase = "loop"]) /\ UNCHANGED ret
  /\ UNCHANGED <<ctxDone, stored>>

Loop ==
  /\ Running("loop")
  /\ \/ top.i >= MaxDepth /\ Fail("loop")
     \/ top.i < MaxDepth /\ ctxDone /\ Fail("context")
     \/ /\ top.i < MaxDepth /\ ~ctxDone
        /\ Update([top EXCEPT !.phase = "query"]) /\ UNCHANGED ret
  /\ UNCHANGED <<ctxDone, stored>>

(* queryNameservers: the servers in random order, each with its retries. *)
NextServer ==
  /\ Running("query")
  /\ \/ top.tried = top.nameservers /\ Fail("servers")
     \/ top.tried # top.nameservers /\ ctxDone /\ Fail("context")
     \/ /\ top.tried # top.nameservers /\ ~ctxDone
        /\ \E s \in top.nameservers \ top.tried :
             Update([top EXCEPT !.phase = "exchange", !.ns = s, !.retry = 0])
        /\ UNCHANGED ret
  /\ UNCHANGED <<ctxDone, stored>>

GiveUpServer == [top EXCEPT !.phase = "query", !.ns = None, !.retry = 0,
                            !.tried = @ \cup {top.ns}]

(* No response over UDP, or a truncated one and none over TCP; after the   *)
(* context has expired there is none.                                      *)
Lost ==
  /\ Running("exchange")
  /\ Update(IF top.retry < Retries THEN [top EXCEPT !.retry = @ + 1] ELSE GiveUpServer)
  /\ UNCHANGED <<ret, ctxDone, stored>>

Servfail ==
  /\ Running("exchange") /\ ~ctxDone
  /\ Update(GiveUpServer)
  /\ UNCHANGED <<ret, ctxDone, stored>>

IsCNAME(r) == r.target \in Names

(* The target of the first alias of n, if there is one. *)
extractCNAME(resp, n) ==
  LET aliases == {k \in DOMAIN resp.answer : IsCNAME(resp.answer[k]) /\ resp.answer[k].owner = n}
  IN  {resp.answer[k].target : k \in {k \in aliases : \A j \in aliases : k <= j}}

CNAMERecords(a) ==
  LET kept[k \in 0..Len(a)] == IF k = 0 THEN <<>>
                               ELSE IF IsCNAME(a[k]) THEN Append(kept[k - 1], a[k])
                               ELSE kept[k - 1]
  IN  kept[Len(a)]

Answered == [top EXCEPT !.ns = None, !.retry = 0, !.tried = {}]

(* Mutant: the delegations are followed in a loop without a counter. *)
NextLoopUncounted(f) == [f EXCEPT !.phase = "loop"]

NextLoop(f) == [f EXCEPT !.phase = "loop", !.i = @ + 1]

(* A response that is an answer, as the three cases of the loop tell it. *)
Receive(resp) ==
  \/ /\ resp.aa \/ resp.rcode = "NXDOMAIN"
     /\ Return(Ok(resp.answer))
  \/ /\ ~resp.aa /\ resp.rcode # "NXDOMAIN"
     /\ resp.answer # <<>>
     /\ \/ extractCNAME(resp, top.name) = {} /\ Return(Ok(resp.answer))
        \/ extractCNAME(resp, top.name) # {} /\ top.depth > MaxCNAMEChain /\ Fail("chain")
        \/ /\ top.depth <= MaxCNAMEChain
           /\ \E target \in extractCNAME(resp, top.name) :
                CallInner([Answered EXCEPT !.phase = "cname", !.alias = resp.answer],
                          target, top.forNS)
  \/ /\ ~resp.aa /\ resp.rcode # "NXDOMAIN"
     /\ resp.answer = <<>>
     /\ \/ /\ resp.ns # <<>> /\ resp.glue # {}
           /\ Update(NextLoop([Answered EXCEPT !.nameservers = resp.glue]))
           /\ UNCHANGED ret
        \/ /\ resp.ns # <<>> /\ resp.glue = {}
           /\ Update([Answered EXCEPT !.phase = "names", !.nsNames = resp.ns])
           /\ UNCHANGED ret
        \/ resp.ns = <<>> /\ Return(Ok(<<>>))

Exchange ==
  /\ Running("exchange") /\ ~ctxDone
  /\ \E resp \in Says(top.name) : Receive(resp)
  /\ UNCHANGED <<ctxDone, stored>>

(* Mutant: the inner answer is returned without the CNAMEs before it. *)
CnameReturnsBare ==
  /\ stack # <<>> /\ ret # None /\ top.phase = "cname"
  /\ Return(ret)
  /\ UNCHANGED <<ctxDone, stored>>

(* followCNAME, when the inner call has returned. *)
CnameReturns ==
  /\ stack # <<>> /\ ret # None /\ top.phase = "cname"
  /\ Return(IF IsOk(ret) THEN Ok(CNAMERecords(top.alias) \o ret.answer) ELSE ret)
  /\ UNCHANGED <<ctxDone, stored>>

-----------------------------------------------------------------------------
(* extractReferral without glue: one server name after the other. *)

addresses(a) == {r.target : r \in {r \in ToSet(a) : r.target \in Address}}

Found(f, a) == [f EXCEPT !.phase = "names", !.nsNames = Tail(@), !.nsIPs = @ \cup addresses(a)]

(* Mutant: server names are looked up at every depth. *)
LookupNameAnyDepth ==
  /\ Running("names") /\ top.nsNames # <<>>
  /\ CallInner([top EXCEPT !.phase = "lookup"], Head(top.nsNames), TRUE)
  /\ UNCHANGED <<ctxDone, stored>>

LookupName ==
  /\ Running("names") /\ top.nsNames # <<>>
  /\ \/ /\ \E a \in CachedFor(Head(top.nsNames)) : Update(Found(top, a))
        /\ UNCHANGED ret
     \/ /\ top.depth + NSReserve < MaxDepth
        /\ CallInner([top EXCEPT !.phase = "lookup"], Head(top.nsNames), TRUE)
     \/ /\ top.depth + NSReserve >= MaxDepth
        /\ Update(Found(top, <<>>))
        /\ UNCHANGED ret
  /\ UNCHANGED <<ctxDone, stored>>

(* Mutant: the error of a lookup is returned, as followCNAME does. *)
NameReturnsError ==
  /\ stack # <<>> /\ ret # None /\ top.phase = "lookup"
  /\ \/ IsError(ret) /\ Return(ret) /\ UNCHANGED stored
     \/ /\ IsOk(ret)
        /\ Update(Found(top, ret.answer))
        /\ stored' = [name |-> Head(top.nsNames), answer |-> ret.answer]
        /\ ret' = None
  /\ UNCHANGED ctxDone

NameReturns ==
  /\ stack # <<>> /\ ret # None /\ top.phase = "lookup"
  /\ Update(Found(top, IF IsOk(ret) THEN ret.answer ELSE <<>>))
  /\ stored' = IF IsOk(ret) THEN [name |-> Head(top.nsNames), answer |-> ret.answer]
                            ELSE stored
  /\ ret' = None
  /\ UNCHANGED ctxDone

(* Without any address the referral itself is returned as the answer. *)
NamesDone ==
  /\ Running("names") /\ top.nsNames = <<>>
  /\ \/ /\ top.nsIPs # {}
        /\ Update(NextLoop([top EXCEPT !.nameservers = top.nsIPs, !.nsIPs = {}]))
        /\ UNCHANGED ret
     \/ top.nsIPs = {} /\ Return(Ok(<<>>))
  /\ UNCHANGED <<ctxDone, stored>>

Expire ==
  /\ ~ctxDone /\ stack # <<>>
  /\ ctxDone' = TRUE
  /\ UNCHANGED <<stack, ret, stored>>

Walk ==
  \/ Enter \/ Loop \/ NextServer
  \/ Lost \/ Servfail \/ Exchange
  \/ CnameReturns \/ LookupName \/ NameReturns \/ NamesDone

Next == Walk \/ Expire

Spec == Init /\ [][Next]_vars /\ WF_vars(Walk)

-----------------------------------------------------------------------------
(* Properties. *)

Phases == {"enter", "loop", "query", "exchange", "cname", "names", "lookup"}

Fields ==
  [name : Names, depth : Nat, forNS : BOOLEAN, phase : Phases, i : 0..MaxDepth,
   nameservers : SUBSET Address, tried : SUBSET Address, ns : Address \cup {None},
   retry : 0..Retries, nsNames : Seq(Names), nsIPs : SUBSET Address, alias : Answer]

Frame == {f \in Fields : /\ f.phase \notin {"enter", "loop"} => f.i < MaxDepth
                         /\ f.phase = "exchange" => f.ns \in Address
                         /\ f.phase = "lookup" => f.nsNames # <<>>}

TypeOK ==
  /\ stack \in Seq(Frame)
  /\ ret = None \/ ret.kind \in {"ok", "error"}
  /\ ctxDone \in BOOLEAN

(* Calls nest no deeper than the longest CNAME chain or the depth at which  *)
(* server names are still looked up, whichever is more, in spite of server  *)
(* names and CNAMEs that lead back to themselves (resolver.go:253,332).     *)
DepthLimit == IF MaxCNAMEChain + NSReserve + 1 > MaxDepth
              THEN MaxCNAMEChain + 1 ELSE MaxDepth - NSReserve

DepthBounded ==
  \A k \in 1..Len(stack) : stack[k].depth = k - 1 /\ stack[k].depth <= DepthLimit

(* Whatever the servers say, also with no deadline ever reached, the walk   *)
(* ends: delegations and CNAMEs that go in circles run into a counter       *)
(* (resolver.go:119,133,253,332).                                           *)
WalkEnds == <>(stack = <<>>)

(* What fails the question is an expired context or a failure on its own    *)
(* chain of names: a server name that cannot be looked up costs that server *)
(* only (resolver.go:335), and no call gives up before it has tried every   *)
(* server it knows, though one says SERVFAIL (resolver.go:227).             *)
FailsForAReason ==
  [][IsError(ret') =>
       /\ stack' = <<>> /\ ret'.why # "context" => ~ret'.forNS
       /\ ret' # ret /\ ret'.why = "servers" => top.tried = top.nameservers]_vars

(* The names that the aliases in a lead to from n. *)
Closed(S, a) == \A k \in DOMAIN a : a[k].owner \in S /\ IsCNAME(a[k]) => a[k].target \in S
LedTo(n, a) == {m \in Names : \A S \in SUBSET Names : n \in S /\ Closed(S, a) => m \in S}

(* Servers keep to the name they are asked for and to its aliases. *)
OnTopic(n, a) == \A k \in DOMAIN a : a[k].owner \in LedTo(n, a)
ServersKeepToTopic == \A n \in Names : \A resp \in Says(n) : OnTopic(n, resp.answer)

Follows(n, a) ==
  /\ \A k \in DOMAIN a : \E m \in LedTo(n, a) : \E resp \in Says(m) : a[k] \in ToSet(resp.answer)
  /\ ServersKeepToTopic => OnTopic(n, a)

(* Every record that the client gets was said of the name it asked for or   *)
(* of one that the aliases in the same answer lead to, across the inner     *)
(* calls that found the pieces, and of servers that keep to what they are   *)
(* asked it is about such a name.  So is every record stored for a name     *)
(* server.  Nothing says that a record comes once: followCNAME repeats the  *)
(* aliases that the inner answer has too (resolver.go:269-278,342).         *)
AnswerFollowsChain ==
  /\ stack = <<>> /\ IsOk(ret) => Follows(Question, ret.answer)
  /\ stored # None => Follows(stored.name, stored.answer)

(* "Check for CNAME and follow it" (resolver.go:158): no response that ends *)
(* in a CNAME is returned before its target has been resolved.              *)
CnameIsFollowed ==
  [][ Running("exchange") /\ IsOk(ret') /\ ret'.answer # <<>>
        => Last(ret'.answer).target \in Address ]_vars
=============================================================================
