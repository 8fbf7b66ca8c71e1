-------------------------- MODULE IterationProofs --------------------------
(***************************************************************************)
(* For every world of names and servers and every setting of the limits:   *)
(* the types of the walk; that its calls nest no deeper than DepthLimit,   *)
(* so that the check at the start of a call (resolver.go:119) is never     *)
(* what ends it when CNAME chains are shorter than MaxDepth; what makes    *)
(* the question fail; and that what the walk returns and stores follows the *)
(* name asked for and its aliases.                                         *)
(*                                                                         *)
(* A step does one of three things to the stack, and StepShape says of     *)
(* each action which, with what; the invariants follow from the shapes.    *)
(***************************************************************************)
EXTENDS Iteration, SequenceTheorems, WellFoundedInduction, TLAPS

LEMMA LimitsAreNat ==
  MaxDepth \in Nat /\ MaxCNAMEChain \in Nat /\ Retries \in Nat /\ NSReserve \in Nat
BY IterationAssumption

LEMMA TopIsFrame ==
  ASSUME TypeOK, stack # <<>>
  PROVE  /\ stack \in Seq(Frame) /\ Len(stack) \in Nat \ {0} /\ Len(stack) \in 1..Len(stack)
         /\ top \in Frame /\ top = stack[Len(stack)]
BY DEF TypeOK, top

Waiting(f) == f.phase \in {"cname", "lookup"}

(* f is what the innermost call becomes, still running. *)
Updates(f) ==
  /\ stack # <<>> /\ Update(f)
  /\ f \in Frame /\ f.depth = top.depth /\ f.name = top.name /\ f.forNS = top.forNS
  /\ ~Waiting(f)
  /\ ret' = None
  /\ \/ stored' = stored
     \/ /\ top.phase = "lookup" /\ IsOk(ret)
        /\ stored' = [name |-> Head(top.nsNames), answer |-> ret.answer]

(* What the innermost call returns is its own, or what it has waited for. *)
Returns(r) ==
  /\ stack # <<>> /\ Return(r) /\ UNCHANGED stored
  /\ \/ \E why : /\ r = Error(why, top.forNS)
                 /\ why = "servers" => top.tried = top.nameservers
     \/ \E a : r = Ok(a) /\ (a = <<>> \/ \E resp \in Says(top.name) : a = resp.answer)
     \/ top.phase = "cname" /\ ret # None /\ ~IsOk(ret) /\ r = ret
     \/ top.phase = "cname" /\ IsOk(ret) /\ r = Ok(CNAMERecords(top.alias) \o ret.answer)

(* f is what the innermost call becomes, waiting for one for n. *)
Calls(f, n, forNS) ==
  /\ stack # <<>> /\ CallInner(f, n, forNS) /\ UNCHANGED stored
  /\ ret = None
  /\ f \in Frame /\ f.depth = top.depth /\ f.name = top.name /\ f.forNS = top.forNS
  /\ n \in Names /\ forNS \in BOOLEAN /\ top.depth + 1 <= DepthLimit
  /\ \/ /\ f.phase = "cname" /\ forNS = top.forNS
        /\ \E resp \in Says(top.name) : f.alias = resp.answer /\ n \in extractCNAME(resp, top.name)
     \/ f.phase = "lookup" /\ n = Head(f.nsNames)

Shape ==
  /\ ctxDone' \in BOOLEAN
  /\ \/ \E f : Updates(f)
     \/ \E r : Returns(r)
     \/ \E f, n, forNS : Calls(f, n, forNS)
     \/ UNCHANGED <<stack, ret, stored>>

-----------------------------------------------------------------------------
(* The stack after each of the three. *)
LEMMA UpdatedStack ==
  ASSUME TypeOK, NEW f, Updates(f)
  PROVE  /\ stack' \in Seq(Frame) /\ Len(stack') = Len(stack)
         /\ \A k \in 1..Len(stack) : stack'[k] = IF k = Len(stack) THEN f ELSE stack[k]
BY TopIsFrame DEF Updates, Update

LEMMA ReturnedStack ==
  ASSUME TypeOK, NEW r, Returns(r)
  PROVE  /\ stack' \in Seq(Frame) /\ Len(stack') = Len(stack) - 1
         /\ \A k \in 1..Len(stack) - 1 : stack'[k] = stack[k]
         /\ ret' = r
<1>1. stack \in Seq(Frame) /\ Len(stack) \in Nat \ {0}
  BY TopIsFrame DEF Returns
<1> DEFINE n == Len(stack) - 1
<1>2. n \in Nat /\ \A k \in 1..n : stack[k] \in Frame
  BY <1>1
<1>3. stack' = SubSeq(stack, 1, n) /\ ret' = r
  BY DEF Returns, Return
<1> HIDE DEF n
<1>4. /\ SubSeq(stack, 1, n) \in Seq(Frame)
      /\ Len(SubSeq(stack, 1, n)) = IF 1 <= n THEN n - 1 + 1 ELSE 0
      /\ \A k \in 1..n - 1 + 1 : SubSeq(stack, 1, n)[k] = stack[1 + k - 1]
  BY <1>2, SubSeqProperties
<1>5. n - 1 + 1 = n /\ (1 <= n \/ n = 0) /\ \A k \in 1..n : 1 + k - 1 = k
  BY <1>2
<1>6. /\ SubSeq(stack, 1, n) \in Seq(Frame) /\ Len(SubSeq(stack, 1, n)) = n
      /\ \A k \in 1..n : SubSeq(stack, 1, n)[k] = stack[k]
  BY <1>4, <1>5
<1> QED BY <1>3, <1>6 DEF n

LEMMA CallIsFrame ==
  ASSUME NEW n \in Names, NEW depth \in Nat, NEW forNS \in BOOLEAN
  PROVE  /\ Call(n, depth, forNS) \in Frame
         /\ Call(n, depth, forNS).name = n /\ Call(n, depth, forNS).depth = depth
         /\ Call(n, depth, forNS).forNS = forNS /\ Call(n, depth, forNS).phase = "enter"
<1>1. <<>> \in Seq(Names) /\ <<>> \in Seq(Record)
  OBVIOUS
<1>2. 0 \in 0..MaxDepth /\ 0 \in 0..Retries
  BY LimitsAreNat
<1> QED BY <1>1, <1>2, IterationAssumption DEF Call, Frame, Fields, Phases, Answer

LEMMA CalledStack ==
  ASSUME TypeOK, NEW f, NEW n, NEW forNS, Calls(f, n, forNS)
  PROVE  LET inner == Call(n, top.depth + 1, forNS)
         IN  /\ stack' \in Seq(Frame) /\ Len(stack') = Len(stack) + 1
             /\ \A k \in 1..Len(stack) : stack'[k] = IF k = Len(stack) THEN f ELSE stack[k]
             /\ stack'[Len(stack) + 1] = inner
             /\ inner \in Frame /\ inner.name = n /\ inner.depth = top.depth + 1
             /\ inner.forNS = forNS /\ inner.phase = "enter"
             /\ ret' = None
<1> DEFINE inner == Call(n, top.depth + 1, forNS)
           caller == [stack EXCEPT ![Len(stack)] = f]
<1>1. /\ stack \in Seq(Frame) /\ Len(stack) \in Nat \ {0} /\ Len(stack) \in 1..Len(stack)
      /\ top \in Frame /\ f \in Frame /\ n \in Names /\ forNS \in BOOLEAN /\ ret' = None
  BY TopIsFrame DEF Calls, CallInner
<1>2. top.depth \in Nat
  BY <1>1 DEF Frame, Fields
<1>3. top.depth + 1 \in Nat
  BY <1>2
<1>4. /\ inner \in Frame /\ inner.name = n /\ inner.depth = top.depth + 1
      /\ inner.forNS = forNS /\ inner.phase = "enter"
  BY <1>1, <1>3, CallIsFrame
<1>5. /\ caller \in Seq(Frame) /\ Len(caller) = Len(stack)
      /\ \A k \in 1..Len(stack) : caller[k] = IF k = Len(stack) THEN f ELSE stack[k]
  BY <1>1
<1>6. stack' = Append(caller, inner)
  BY DEF Calls, CallInner
<1> HIDE DEF caller, inner
<1>7. /\ stack' \in Seq(Frame) /\ Len(stack') = Len(stack) + 1
      /\ \A k \in 1..Len(stack) : stack'[k] = IF k = Len(stack) THEN f ELSE stack[k]
      /\ stack'[Len(stack) + 1] = inner
  BY <1>1, <1>4, <1>5, <1>6, AppendProperties
<1> QED BY <1>1, <1>4, <1>7 DEF inner

-----------------------------------------------------------------------------
(* Which shape the step of each action has. *)

LEMMA RunningFacts ==
  ASSUME TypeOK, NEW ph \in Phases, stack # <<>>, top.phase = ph
  PROVE  /\ top \in Frame /\ top \in Fields /\ top.i \in 0..MaxDepth /\ MaxDepth \in Nat
         /\ ph \notin {"enter", "loop"} => top.i < MaxDepth
         /\ ctxDone \in BOOLEAN
<1>1. top \in Frame
  BY TopIsFrame
<1> QED BY <1>1, LimitsAreNat DEF TypeOK, Frame, Fields

LEMMA NextLoopIsFrame ==
  ASSUME NEW f \in Fields, f.i < MaxDepth
  PROVE  /\ NextLoop(f) \in Frame /\ NextLoop(f).depth = f.depth /\ NextLoop(f).name = f.name
         /\ NextLoop(f).forNS = f.forNS /\ NextLoop(f).phase = "loop"
<1>1. f.i + 1 \in 0..MaxDepth
  BY LimitsAreNat DEF Fields
<1> QED BY <1>1 DEF Frame, Fields, NextLoop, Phases

LEMMA FoundIsFrame ==
  ASSUME NEW f \in Frame, f.phase \in {"names", "lookup"}, f.nsNames # <<>>, NEW a
  PROVE  /\ Found(f, a) \in Frame /\ Found(f, a).depth = f.depth /\ Found(f, a).name = f.name
         /\ Found(f, a).forNS = f.forNS /\ Found(f, a).phase = "names"
<1>1. addresses(a) \subseteq Address
  BY DEF addresses
<1>2. Tail(f.nsNames) \in Seq(Names)
  BY DEF Frame, Fields
<1> QED BY <1>1, <1>2 DEF Frame, Fields, Found, Phases

LEMMA EnterShape == ASSUME TypeOK, Enter PROVE Shape
<1>1. /\ stack # <<>> /\ top \in Frame /\ ret = None /\ ctxDone' \in BOOLEAN
      /\ UNCHANGED stored
  BY RunningFacts DEF Enter, Running, Phases
<1>2. CASE \E why \in {"depth", "context"} : Fail(why)
  BY <1>1, <1>2 DEF Fail, Returns, Shape
<1>3. CASE Update([top EXCEPT !.phase = "loop"]) /\ UNCHANGED ret
  <2> DEFINE f == [top EXCEPT !.phase = "loop"]
  <2>1. /\ f \in Frame /\ f.depth = top.depth /\ f.name = top.name /\ f.forNS = top.forNS
        /\ f.phase = "loop"
    BY <1>1 DEF Frame, Fields, Phases
  <2> HIDE DEF f
  <2>2. Updates(f)
    BY <1>1, <1>3, <2>1 DEF Updates, Waiting, f
  <2> QED BY <1>1, <2>2 DEF Shape
<1> QED BY <1>2, <1>3 DEF Enter

LEMMA LoopShape == ASSUME TypeOK, Loop PROVE Shape
<1>1. /\ stack # <<>> /\ top \in Frame /\ ret = None /\ ctxDone' \in BOOLEAN
      /\ UNCHANGED stored
  BY RunningFacts DEF Loop, Running, Phases
<1>2. CASE \E why \in {"loop", "context"} : Fail(why)
  BY <1>1, <1>2 DEF Fail, Returns, Shape
<1>3. CASE top.i < MaxDepth /\ Update([top EXCEPT !.phase = "query"]) /\ UNCHANGED ret
  <2> DEFINE f == [top EXCEPT !.phase = "query"]
  <2>1. /\ f \in Frame /\ f.depth = top.depth /\ f.name = top.name /\ f.forNS = top.forNS
        /\ f.phase = "query"
    BY <1>1, <1>3 DEF Frame, Fields, Phases
  <2> HIDE DEF f
  <2>2. Updates(f)
    BY <1>1, <1>3, <2>1 DEF Updates, Waiting, f
  <2> QED BY <1>1, <2>2 DEF Shape
<1> QED BY <1>2, <1>3 DEF Loop

LEMMA NextServerShape == ASSUME TypeOK, NextServer PROVE Shape
<1>1. /\ stack # <<>> /\ top \in Frame /\ ret = None /\ ctxDone' \in BOOLEAN
      /\ UNCHANGED stored /\ top.i < MaxDepth
  BY RunningFacts DEF NextServer, Running, Phases
<1>2. CASE \/ top.tried = top.nameservers /\ Fail("servers")
           \/ Fail("context")
  BY <1>1, <1>2 DEF Fail, Returns, Shape
<1>3. CASE /\ \E s \in top.nameservers \ top.tried :
                Update([top EXCEPT !.phase = "exchange", !.ns = s, !.retry = 0])
           /\ UNCHANGED ret
  <2>1. PICK s \in top.nameservers \ top.tried :
               Update([top EXCEPT !.phase = "exchange", !.ns = s, !.retry = 0])
    BY <1>3
  <2> DEFINE f == [top EXCEPT !.phase = "exchange", !.ns = s, !.retry = 0]
  <2>2. 0 \in 0..Retries /\ s \in Address
    BY <1>1, LimitsAreNat DEF Frame, Fields
  <2>3. /\ f \in Frame /\ f.depth = top.depth /\ f.name = top.name /\ f.forNS = top.forNS
        /\ f.phase = "exchange"
    BY <1>1, <2>2 DEF Frame, Fields, Phases
  <2>4. Update(f)
    BY <2>1
  <2> HIDE DEF f
  <2>5. Updates(f)
    BY <1>1, <1>3, <2>3, <2>4 DEF Updates, Waiting
  <2> QED BY <1>1, <2>5 DEF Shape
<1> QED BY <1>2, <1>3 DEF NextServer

LEMMA LostShape == ASSUME TypeOK, Lost \/ Servfail PROVE Shape
<1>1. /\ stack # <<>> /\ top \in Frame /\ ret' = None /\ ctxDone' \in BOOLEAN
      /\ UNCHANGED stored /\ top.i < MaxDepth /\ top.phase = "exchange"
  BY RunningFacts DEF Lost, Servfail, Running, Phases
<1> DEFINE again == [top EXCEPT !.retry = @ + 1]
<1>2. /\ GiveUpServer \in Frame /\ GiveUpServer.depth = top.depth
      /\ GiveUpServer.name = top.name /\ GiveUpServer.forNS = top.forNS
      /\ GiveUpServer.phase = "query"
  <2>1. top.tried \cup {top.ns} \in SUBSET Address /\ 0 \in 0..Retries
    BY <1>1, LimitsAreNat DEF Frame, Fields
  <2> QED BY <1>1, <2>1 DEF Frame, Fields, Phases, GiveUpServer
<1>3. top.retry < Retries =>
        /\ again \in Frame /\ again.depth = top.depth
        /\ again.name = top.name /\ again.forNS = top.forNS /\ again.phase = "exchange"
  <2>1. top.retry < Retries => top.retry + 1 \in 0..Retries
    BY <1>1, LimitsAreNat DEF Frame, Fields
  <2> QED BY <1>1, <2>1 DEF Frame, Fields
<1>4. (Update(again) /\ top.retry < Retries) \/ Update(GiveUpServer)
  BY DEF Lost, Servfail
<1> HIDE DEF again
<1>5. Updates(again) \/ Updates(GiveUpServer)
  BY <1>1, <1>2, <1>3, <1>4 DEF Updates, Waiting
<1> QED BY <1>1, <1>5 DEF Shape

LEMMA ExchangeShape == ASSUME TypeOK, Exchange PROVE Shape
<1>1. /\ stack # <<>> /\ ret = None /\ top \in Frame /\ top \in Fields /\ top.i \in 0..MaxDepth
      /\ top.i < MaxDepth /\ ctxDone' \in BOOLEAN /\ UNCHANGED stored
  BY RunningFacts DEF Exchange, Running, Phases
<1>2. PICK resp \in Says(top.name) : Receive(resp)
  BY DEF Exchange
<1>3. resp \in Response /\ top.depth \in Nat /\ top.forNS \in BOOLEAN
  <2>1. top.name \in Names /\ top.depth \in Nat /\ top.forNS \in BOOLEAN
    BY <1>1 DEF Frame, Fields
  <2>2. Says(top.name) \subseteq Response
    BY <2>1, IterationAssumption
  <2> QED BY <2>1, <2>2
<1> DEFINE answered == [top EXCEPT !.ns = None, !.retry = 0, !.tried = {}]
<1>4. /\ answered \in Fields /\ answered.depth = top.depth /\ answered.i < MaxDepth
      /\ answered.name = top.name /\ answered.forNS = top.forNS
  <2>1. 0 \in 0..Retries /\ None \in Address \cup {None} /\ {} \in SUBSET Address
    BY LimitsAreNat
  <2> QED BY <1>1, <2>1 DEF Fields
<1> HIDE DEF answered
<1>5. CASE \E why \in {"chain"} : Fail(why)
  BY <1>1, <1>5 DEF Fail, Returns, Shape
<1>6. CASE Return(Ok(resp.answer)) \/ Return(Ok(<<>>))
  <2>1. \E r : Returns(r)
    BY <1>1, <1>6 DEF Returns
  <2> QED BY <1>1, <2>1 DEF Shape
<1>7. CASE /\ top.depth <= MaxCNAMEChain
           /\ \E target \in extractCNAME(resp, top.name) :
                CallInner([Answered EXCEPT !.phase = "cname", !.alias = resp.answer],
                          target, top.forNS)
  <2>1. PICK target \in extractCNAME(resp, top.name) :
          CallInner([answered EXCEPT !.phase = "cname", !.alias = resp.answer],
                    target, top.forNS)
    BY <1>7 DEF Answered, answered
  <2> DEFINE f == [answered EXCEPT !.phase = "cname", !.alias = resp.answer]
  <2>2. /\ f \in Frame /\ f.depth = top.depth /\ f.name = top.name /\ f.forNS = top.forNS
        /\ f.phase = "cname" /\ f.alias = resp.answer
    BY <1>1, <1>3, <1>4 DEF Frame, Fields, Phases, Response
  <2>3. target \in Names
    BY DEF extractCNAME, IsCNAME
  <2>4. top.depth + 1 <= DepthLimit
    BY <1>3, <1>7, LimitsAreNat DEF DepthLimit
  <2>5. CallInner(f, target, top.forNS)
    BY <2>1
  <2> HIDE DEF f
  <2>6. Calls(f, target, top.forNS)
    BY <1>1, <1>3, <2>2, <2>3, <2>4, <2>5 DEF Calls
  <2> QED BY <1>1, <2>6 DEF Shape
<1>8. CASE /\ Update(NextLoop([Answered EXCEPT !.nameservers = resp.glue]))
           /\ UNCHANGED ret
  <2> DEFINE g == [answered EXCEPT !.nameservers = resp.glue]
             f == NextLoop(g)
  <2>1. /\ g \in Fields /\ g.depth = top.depth /\ g.i < MaxDepth
        /\ g.name = top.name /\ g.forNS = top.forNS
    BY <1>1, <1>3, <1>4 DEF Fields, Response
  <2>2. Update(f)
    BY <1>8 DEF Answered, answered
  <2> HIDE DEF g
  <2>3. /\ f \in Frame /\ f.depth = top.depth /\ f.name = top.name /\ f.forNS = top.forNS
        /\ f.phase = "loop"
    BY <2>1, NextLoopIsFrame
  <2> HIDE DEF f
  <2>4. Updates(f)
    BY <1>1, <1>8, <2>2, <2>3 DEF Updates, Waiting
  <2> QED BY <1>1, <2>4 DEF Shape
<1>9. CASE /\ Update([Answered EXCEPT !.phase = "names", !.nsNames = resp.ns])
           /\ UNCHANGED ret
  <2> DEFINE f == [answered EXCEPT !.phase = "names", !.nsNames = resp.ns]
  <2>1. /\ f \in Frame /\ f.depth = top.depth /\ f.name = top.name /\ f.forNS = top.forNS
        /\ f.phase = "names"
    BY <1>1, <1>3, <1>4 DEF Frame, Fields, Phases, Response
  <2>2. Update(f)
    BY <1>9 DEF Answered, answered
  <2> HIDE DEF f
  <2>3. Updates(f)
    BY <1>1, <1>9, <2>1, <2>2 DEF Updates, Waiting
  <2> QED BY <1>1, <2>3 DEF Shape
<1> QED BY <1>2, <1>5, <1>6, <1>7, <1>8, <1>9 DEF Receive

LEMMA CnameReturnsShape == ASSUME TypeOK, CnameReturns PROVE Shape
<1>1. /\ stack # <<>> /\ ret # None /\ top.phase = "cname" /\ ctxDone' \in BOOLEAN
      /\ UNCHANGED stored
  BY DEF CnameReturns, TypeOK
<1>2. CASE IsOk(ret)
  <2>1. Returns(Ok(CNAMERecords(top.alias) \o ret.answer))
    BY <1>1, <1>2 DEF CnameReturns, Returns
  <2> QED BY <1>1, <2>1 DEF Shape
<1>3. CASE ~IsOk(ret)
  <2>1. Returns(ret)
    BY <1>1, <1>3 DEF CnameReturns, Returns
  <2> QED BY <1>1, <2>1 DEF Shape
<1> QED BY <1>2, <1>3

LEMMA LookupNameShape == ASSUME TypeOK, LookupName PROVE Shape
<1>1. /\ stack # <<>> /\ top \in Frame /\ top.phase = "names" /\ ret = None
      /\ ctxDone' \in BOOLEAN /\ top.nsNames # <<>> /\ UNCHANGED stored
  BY RunningFacts DEF LookupName, Running, Phases
<1>2. top.nsNames \in Seq(Names) /\ top.depth \in Nat
  BY <1>1 DEF Frame, Fields
<1>3. CASE (\E a : Update(Found(top, a))) /\ UNCHANGED ret
  <2>1. PICK a : Update(Found(top, a))
    BY <1>3
  <2>2. Updates(Found(top, a))
    BY <1>1, <1>3, <2>1, FoundIsFrame DEF Updates, Waiting
  <2> QED BY <1>1, <2>2 DEF Shape
<1>4. CASE /\ top.depth + NSReserve < MaxDepth
           /\ CallInner([top EXCEPT !.phase = "lookup"], Head(top.nsNames), TRUE)
  <2> DEFINE f == [top EXCEPT !.phase = "lookup"]
  <2>1. /\ f \in Frame /\ f.depth = top.depth /\ f.name = top.name /\ f.forNS = top.forNS
        /\ f.phase = "lookup" /\ f.nsNames = top.nsNames
    BY <1>1 DEF Frame, Fields, Phases
  <2>2. Head(top.nsNames) \in Names
    BY <1>1, <1>2
  <2>3. top.depth + 1 <= DepthLimit
    BY <1>2, <1>4, LimitsAreNat DEF DepthLimit
  <2>4. CallInner(f, Head(top.nsNames), TRUE)
    BY <1>4
  <2> HIDE DEF f
  <2>5. Calls(f, Head(top.nsNames), TRUE)
    BY <1>1, <2>1, <2>2, <2>3, <2>4 DEF Calls
  <2> QED BY <1>1, <2>5 DEF Shape
<1> QED BY <1>3, <1>4 DEF LookupName

LEMMA NameReturnsShape == ASSUME TypeOK, NameReturns PROVE Shape
<1>1. /\ stack # <<>> /\ top \in Frame /\ top.phase = "lookup" /\ ret' = None
      /\ ctxDone' \in BOOLEAN
  BY RunningFacts DEF NameReturns, Phases
<1>2. top.nsNames # <<>>
  BY <1>1 DEF Frame
<1> DEFINE a == IF IsOk(ret) THEN ret.answer ELSE <<>>
<1>3. Update(Found(top, a))
  BY DEF NameReturns
<1>4. \/ stored' = stored
      \/ IsOk(ret) /\ stored' = [name |-> Head(top.nsNames), answer |-> ret.answer]
  BY DEF NameReturns
<1> HIDE DEF a
<1>5. Updates(Found(top, a))
  BY <1>1, <1>2, <1>3, <1>4, FoundIsFrame DEF Updates, Waiting
<1> QED BY <1>1, <1>5 DEF Shape

LEMMA NamesDoneShape == ASSUME TypeOK, NamesDone PROVE Shape
<1>1. /\ stack # <<>> /\ top \in Frame /\ top \in Fields /\ top.phase = "names" /\ ret = None
      /\ ctxDone' \in BOOLEAN /\ top.i < MaxDepth /\ UNCHANGED stored
  BY RunningFacts DEF NamesDone, Running, Phases
<1>2. CASE Return(Ok(<<>>))
  <2>1. Returns(Ok(<<>>))
    BY <1>1, <1>2 DEF Returns
  <2> QED BY <1>1, <2>1 DEF Shape
<1>3. CASE /\ Update(NextLoop([top EXCEPT !.nameservers = top.nsIPs, !.nsIPs = {}]))
           /\ UNCHANGED ret
  <2> DEFINE g == [top EXCEPT !.nameservers = top.nsIPs, !.nsIPs = {}]
             f == NextLoop(g)
  <2>1. /\ g \in Fields /\ g.depth = top.depth /\ g.i < MaxDepth
        /\ g.name = top.name /\ g.forNS = top.forNS
    BY <1>1 DEF Fields
  <2>2. Update(f)
    BY <1>3
  <2> HIDE DEF g
  <2>3. /\ f \in Frame /\ f.depth = top.depth /\ f.name = top.name /\ f.forNS = top.forNS
        /\ f.phase = "loop"
    BY <2>1, NextLoopIsFrame
  <2> HIDE DEF f
  <2>4. Updates(f)
    BY <1>1, <1>3, <2>2, <2>3 DEF Updates, Waiting
  <2> QED BY <1>1, <2>4 DEF Shape
<1> QED BY <1>2, <1>3 DEF NamesDone

LEMMA StepShape == ASSUME TypeOK, [Next]_vars PROVE Shape
<1>1. CASE Expire \/ UNCHANGED vars
  BY <1>1 DEF Expire, vars, Shape, TypeOK
<1> QED
  BY <1>1, EnterShape, LoopShape, NextServerShape, LostShape, ExchangeShape,
     CnameReturnsShape, LookupNameShape, NameReturnsShape, NamesDoneShape DEF Next, Walk

-----------------------------------------------------------------------------
(* What a returned error says of the call that returns it. *)
LEMMA ReturnedError ==
  ASSUME TypeOK, NEW r, Returns(r)
  PROVE  /\ r.kind \in {"ok", "error"}
         /\ IsError(r) => \/ /\ r.forNS = top.forNS
                             /\ r.why = "servers" => top.tried = top.nameservers
                          \/ top.phase = "cname" /\ r = ret /\ IsError(ret)
<1> DEFINE Goal ==
      /\ r.kind \in {"ok", "error"}
      /\ IsError(r) => \/ /\ r.forNS = top.forNS
                          /\ r.why = "servers" => top.tried = top.nameservers
                       \/ top.phase = "cname" /\ r = ret /\ IsError(ret)
<1>1. ASSUME NEW why, r = Error(why, top.forNS),
             why = "servers" => top.tried = top.nameservers
      PROVE  Goal
  <2>1. r.kind = "error" /\ r.forNS = top.forNS /\ r.why = why
    BY <1>1 DEF Error
  <2> QED BY <1>1, <2>1 DEF IsError
<1>2. CASE \E a : r = Ok(a)
  <2>1. r.kind = "ok"
    BY <1>2 DEF Ok
  <2> QED BY <2>1 DEF IsError
<1>3. CASE top.phase = "cname" /\ ret # None /\ r = ret
  BY <1>3 DEF TypeOK, IsError
<1> QED BY <1>1, <1>2, <1>3 DEF Returns

(* Types and depth. *)

IInv == TypeOK /\ DepthBounded

LEMMA DepthInit == Init => IInv
<1> SUFFICES ASSUME Init PROVE IInv
  OBVIOUS
<1> DEFINE first == Call(Question, 0, FALSE)
<1>1. first \in Frame /\ first.depth = 0
  <2>1. Question \in Names /\ 0 \in Nat /\ FALSE \in BOOLEAN
    BY IterationAssumption
  <2> QED BY <2>1, CallIsFrame
<1>2. stack = <<first>>
  BY DEF Init
<1> HIDE DEF first
<1>3. stack \in Seq(Frame) /\ Len(stack) = 1 /\ stack[1] = first
  BY <1>1, <1>2
<1>4. DepthLimit >= 0
  BY LimitsAreNat DEF DepthLimit
<1>5. TypeOK
  BY <1>3 DEF Init, TypeOK
<1>6. DepthBounded
  BY <1>1, <1>3, <1>4 DEF DepthBounded
<1> QED BY <1>5, <1>6 DEF IInv

LEMMA DepthStep == ASSUME IInv, [Next]_vars PROVE IInv'
<1>1. TypeOK /\ Shape
  BY StepShape DEF IInv
<1>2. ASSUME NEW f, Updates(f) PROVE IInv'
  <2>1. f.depth = top.depth /\ ret' = None
    BY <1>2 DEF Updates
  <2> QED BY <1>1, <1>2, <2>1, UpdatedStack, TopIsFrame
          DEF IInv, TypeOK, DepthBounded, Shape, Updates
<1>3. ASSUME NEW r, Returns(r) PROVE IInv'
  <2>1. r.kind \in {"ok", "error"}
    BY <1>1, <1>3, ReturnedError
  <2>2. /\ stack' \in Seq(Frame) /\ Len(stack') = Len(stack) - 1 /\ ret' = r
        /\ \A k \in 1..Len(stack) - 1 : stack'[k] = stack[k]
        /\ Len(stack) \in Nat
    BY <1>1, <1>3, ReturnedStack, TopIsFrame DEF Returns
  <2>3. TypeOK'
    BY <1>1, <2>1, <2>2 DEF TypeOK, Shape
  <2>4. DepthBounded'
    BY <2>2 DEF IInv, DepthBounded, DepthLimit
  <2> QED BY <2>3, <2>4 DEF IInv
<1>4. ASSUME NEW f, NEW n, NEW forNS, Calls(f, n, forNS) PROVE IInv'
  <2>1. /\ f.depth = top.depth /\ top.depth + 1 <= DepthLimit /\ stack # <<>>
        /\ top.depth = Len(stack) - 1 /\ top.depth <= DepthLimit
        /\ Len(stack) \in Nat \ {0}
    BY <1>1, <1>4, TopIsFrame DEF Calls, IInv, DepthBounded
  <2> DEFINE inner == Call(n, top.depth + 1, forNS)
  <2>2. /\ stack' \in Seq(Frame) /\ Len(stack') = Len(stack) + 1
        /\ \A k \in 1..Len(stack) : stack'[k] = IF k = Len(stack) THEN f ELSE stack[k]
        /\ stack'[Len(stack) + 1] = inner /\ inner.depth = top.depth + 1 /\ ret' = None
    BY <1>1, <1>4, CalledStack
  <2> HIDE DEF inner
  <2>3. TypeOK'
    BY <1>1, <2>2 DEF TypeOK, Shape
  <2>4. DepthBounded'
    BY <2>1, <2>2 DEF IInv, DepthBounded, DepthLimit
  <2> QED BY <2>3, <2>4 DEF IInv
<1>5. CASE UNCHANGED <<stack, ret, stored>>
  BY <1>1, <1>5 DEF IInv, TypeOK, DepthBounded, Shape
<1> QED BY <1>1, <1>2, <1>3, <1>4, <1>5 DEF Shape

LEMMA WalkInv == Spec => []IInv
<1>1. IInv /\ [Next]_vars => IInv'
  BY DepthStep
<1> QED BY <1>1, DepthInit, PTL DEF Spec

(* Every call of the walk has the shape its phase requires. *)
THEOREM TypeCorrect == Spec => []TypeOK
BY WalkInv, PTL DEF IInv

(* However the servers refer to each other, calls nest no deeper than       *)
(* DepthLimit.                                                              *)
THEOREM DepthBoundedHolds == Spec => []DepthBounded
BY WalkInv, PTL DEF IInv

(* "max resolution depth exceeded" (resolver.go:119) is never the reason:   *)
(* the tests before the two recursive calls come first.                     *)
THEOREM DepthCheckIsSpare ==
  ASSUME MaxCNAMEChain < MaxDepth
  PROVE  Spec => [](\A k \in 1..Len(stack) : ~(stack[k].depth > MaxDepth))
<1>1. DepthLimit \in Int /\ DepthLimit <= MaxDepth
  BY LimitsAreNat DEF DepthLimit
<1>2. IInv => \A k \in 1..Len(stack) : ~(stack[k].depth > MaxDepth)
  BY <1>1, LimitsAreNat DEF IInv, DepthBounded
<1> QED BY <1>2, WalkInv, PTL

-----------------------------------------------------------------------------
(* What a call is for. *)

(* Only the calls on the question's own chain of names hand an error on to *)
(* the question: a call for a name server is below a "lookup".             *)
PurposeInv ==
  /\ stack # <<>> => ~stack[1].forNS
  /\ \A k \in 1..Len(stack) - 1 :
       /\ Waiting(stack[k])
       /\ stack[k].phase = "cname" => stack[k + 1].forNS = stack[k].forNS
  /\ ret # None /\ stack # <<>> => Waiting(top)
  /\ IsError(ret) /\ stack = <<>> => ~ret.forNS
  /\ IsError(ret) /\ stack # <<>> /\ top.phase = "cname" => ret.forNS = top.forNS

LEMMA PurposeInit == Init => PurposeInv
<1> SUFFICES ASSUME Init PROVE PurposeInv
  OBVIOUS
<1>1. stack = <<Call(Question, 0, FALSE)>> /\ ret = None
  BY DEF Init
<1>2. ~Call(Question, 0, FALSE).forNS
  BY DEF Call
<1>3. stack # <<>> /\ Len(stack) = 1 /\ ~stack[1].forNS /\ ~IsError(ret) /\ ret = None
  BY <1>1, <1>2 DEF IsError
<1>4. 1..Len(stack) - 1 = {}
  BY <1>3
<1> QED BY <1>3, <1>4 DEF PurposeInv

LEMMA PurposeStep == ASSUME TypeOK, PurposeInv, Shape PROVE PurposeInv'
<1>1. ASSUME NEW f, Updates(f) PROVE PurposeInv'
  <2>1. f.forNS = top.forNS /\ ~Waiting(f) /\ stack # <<>> /\ ret' = None
    BY <1>1 DEF Updates
  <2> QED BY <1>1, <2>1, UpdatedStack, TopIsFrame DEF PurposeInv, IsError, Waiting
<1>2. ASSUME NEW r, Returns(r) PROVE PurposeInv'
  <2>1. /\ stack \in Seq(Frame) /\ Len(stack) \in Nat \ {0} /\ top = stack[Len(stack)]
        /\ stack' \in Seq(Frame) /\ Len(stack') = Len(stack) - 1
        /\ \A k \in 1..Len(stack) - 1 : stack'[k] = stack[k]
        /\ ret' = r
    BY <1>2, ReturnedStack, TopIsFrame DEF Returns
  <2>2. IsError(r) => r.forNS = top.forNS
    BY <1>2, <2>1, ReturnedError DEF PurposeInv
  <2>3. /\ stack' # <<>> => stack'[1] = stack[1]
        /\ \A k \in 1..Len(stack') - 1 : stack'[k] = stack[k] /\ stack'[k + 1] = stack[k + 1]
    BY <2>1
  <2>4. ASSUME stack' # <<>>
        PROVE  top' = stack[Len(stack) - 1] /\ Len(stack) - 1 \in 1..Len(stack) - 1
    BY <2>1, <2>4 DEF top
  <2>5. CASE stack' = <<>>
    <3>1. top = stack[1] /\ stack # <<>>
      <4>1. Len(stack') = 0
        BY <2>5
      <4>2. Len(stack) = 1
        BY <2>1, <4>1
      <4> QED BY <1>2, <2>1, <4>2 DEF Returns
    <3>2. ~top.forNS
      BY <3>1 DEF PurposeInv
    <3> QED BY <2>1, <2>2, <2>5, <3>2 DEF PurposeInv
  <2>6. CASE stack' # <<>>
    <3>1. /\ Waiting(top') /\ (top'.phase = "cname" => top.forNS = top'.forNS)
      <4> DEFINE k == Len(stack) - 1
      <4>1. k \in 1..Len(stack) - 1 /\ top' = stack[k] /\ top = stack[k + 1]
        BY <2>1, <2>4, <2>6
      <4> HIDE DEF k
      <4> QED BY <4>1 DEF PurposeInv
    <3> QED BY <2>1, <2>2, <2>3, <2>6, <3>1 DEF PurposeInv
  <2> QED BY <2>5, <2>6
<1>3. ASSUME NEW f, NEW n, NEW forNS, Calls(f, n, forNS) PROVE PurposeInv'
  <2> DEFINE inner == Call(n, top.depth + 1, forNS)
  <2>1. /\ Len(stack) \in Nat \ {0} /\ top = stack[Len(stack)]
        /\ stack' \in Seq(Frame) /\ Len(stack') = Len(stack) + 1
        /\ \A k \in 1..Len(stack) : stack'[k] = IF k = Len(stack) THEN f ELSE stack[k]
        /\ stack'[Len(stack) + 1] = inner /\ inner.forNS = forNS /\ ret' = None
    BY <1>3, CalledStack, TopIsFrame DEF Calls
  <2>2. /\ f.forNS = top.forNS /\ Waiting(f) /\ (f.phase = "cname" => forNS = f.forNS)
        /\ stack # <<>>
    BY <1>3 DEF Calls, Waiting
  <2> HIDE DEF inner
  <2>3. ~stack'[1].forNS
    <3>1. 1 \in 1..Len(stack) /\ (Len(stack) = 1 => top = stack[1])
      BY <2>1
    <3> QED BY <2>1, <2>2, <3>1 DEF PurposeInv
  <2>4. ASSUME NEW k \in 1..Len(stack') - 1
        PROVE  /\ Waiting(stack'[k])
               /\ stack'[k].phase = "cname" => stack'[k + 1].forNS = stack'[k].forNS
    <3>1. CASE k = Len(stack)
      BY <2>1, <2>2, <3>1
    <3>2. CASE k # Len(stack)
      <4>1. k \in 1..Len(stack) - 1 /\ k + 1 \in 1..Len(stack)
        BY <2>1, <3>2
      <4>2. /\ Waiting(stack[k])
            /\ stack[k].phase = "cname" => stack[k + 1].forNS = stack[k].forNS
        BY <4>1 DEF PurposeInv
      <4>3. stack'[k] = stack[k] /\ stack'[k + 1].forNS = stack[k + 1].forNS
        BY <2>1, <2>2, <4>1
      <4> QED BY <4>2, <4>3
    <3> QED BY <3>1, <3>2
  <2> QED BY <2>1, <2>3, <2>4 DEF PurposeInv, IsError, Waiting
<1>4. CASE UNCHANGED <<stack, ret, stored>>
  BY <1>4 DEF PurposeInv, top, IsError
<1> QED BY <1>1, <1>2, <1>3, <1>4 DEF Shape

LEMMA PurposeHolds == Spec => []PurposeInv
<1>1. IInv /\ PurposeInv /\ [Next]_vars => PurposeInv'
  BY StepShape, PurposeStep DEF IInv
<1> QED BY <1>1, PurposeInit, WalkInv, PTL DEF Spec

(* The question fails for an expired context or for a failure on its own    *)
(* chain of names only, and a call only after it has tried all its servers. *)
THEOREM FailsForAReasonHolds == Spec => FailsForAReason
<1> DEFINE Reason ==
      IsError(ret') =>
        /\ stack' = <<>> /\ ret'.why # "context" => ~ret'.forNS
        /\ ret' # ret /\ ret'.why = "servers" => top.tried = top.nameservers
<1>1. IInv /\ PurposeInv /\ PurposeInv' /\ [Next]_vars => [Reason]_vars
  <2> SUFFICES ASSUME IInv, PurposeInv', [Next]_vars, IsError(ret') PROVE Reason
    OBVIOUS
  <2>1. Shape /\ TypeOK
    BY StepShape DEF IInv
  <2>2. stack' = <<>> => ~ret'.forNS
    BY DEF PurposeInv
  <2>3. ASSUME ret' # ret, ret'.why = "servers" PROVE top.tried = top.nameservers
    <3>1. PICK r : Returns(r)
      <4>0. ret' # None
        BY DEF IsError
      <4>1. ~\E f : Updates(f)
        BY <4>0 DEF Updates
      <4>2. ~\E f, n, forNS : Calls(f, n, forNS)
        BY <2>3 DEF Calls, CallInner
      <4> QED BY <2>1, <2>3, <4>1, <4>2 DEF Shape
    <3>2. ret' = r
      BY <2>1, <3>1, ReturnedStack
    <3>3. IsError(r) /\ r # ret
      BY <2>3, <3>2 DEF IsError
    <3> QED BY <2>1, <2>3, <3>1, <3>2, <3>3, ReturnedError
  <2> QED BY <2>2, <2>3
<1> QED BY <1>1, WalkInv, PurposeHolds, PTL DEF Spec, FailsForAReason

-----------------------------------------------------------------------------
(* What followCNAME keeps of a response. *)

(* Induction on the numbers, for a property given as a set. *)
LEMMA ByNumber ==
  ASSUME NEW P, 0 \in P, \A n \in Nat : n \in P => n + 1 \in P
  PROVE  \A n \in Nat : n \in P
<1> DEFINE R == OpToRel(<, Nat)
           Bad == {n \in Nat : n \notin P}
<1> SUFFICES ASSUME Bad # {} PROVE FALSE
  OBVIOUS
<1>1. IsWellFoundedOn(R, Nat)
  BY NatLessThanWellFounded
<1>2. \A m, n \in Nat : m < n => <<m, n>> \in R
  BY Zenon DEF OpToRel
<1> HIDE DEF R
<1>3. PICK n \in Bad : \A m \in Bad : ~ (<<m, n>> \in R)
  BY <1>1, WFMin
<1>4. n \in Nat /\ n # 0 /\ n - 1 \in Nat /\ n - 1 < n
  BY <1>3
<1>5. n - 1 \in P
  BY <1>2, <1>3, <1>4
<1>6. (n - 1) + 1 = n
  BY <1>4
<1> QED
  BY <1>3, <1>4, <1>5, <1>6

(* The loop over the records, and what it has after k of them. *)
IsKept(kept, a, n) ==
  kept = [k \in 0..n |-> IF k = 0 THEN <<>>
                         ELSE IF IsCNAME(a[k]) THEN Append(kept[k - 1], a[k])
                         ELSE kept[k - 1]]

Kept(a) == CHOOSE kept : IsKept(kept, a, Len(a))

LEMMA KeptExists == ASSUME NEW a PROVE \A n \in Nat : \E kept : IsKept(kept, a, n)
<1> DEFINE P == {n \in Nat : \E kept : IsKept(kept, a, n)}
<1>1. 0 \in P
  <2> DEFINE none == [k \in 0..0 |-> <<>>]
  <2>1. IsKept(none, a, 0)
    BY DEF IsKept
  <2> QED BY <2>1
<1>2. ASSUME NEW n \in Nat, n \in P PROVE n + 1 \in P
  <2>1. PICK kept : IsKept(kept, a, n)
    BY <1>2
  <2> DEFINE more == [k \in 0..(n + 1) |->
                        IF k = n + 1 THEN IF IsCNAME(a[n + 1]) THEN Append(kept[n], a[n + 1]) ELSE kept[n]
                                     ELSE kept[k]]
             next == [k \in 0..(n + 1) |-> IF k = 0 THEN <<>>
                                           ELSE IF IsCNAME(a[k]) THEN Append(more[k - 1], a[k])
                                           ELSE more[k - 1]]
  <2>2. \A k \in 0..n : kept[k] = IF k = 0 THEN <<>>
                                  ELSE IF IsCNAME(a[k]) THEN Append(kept[k - 1], a[k])
                                  ELSE kept[k - 1]
    BY <2>1 DEF IsKept
  <2>3. \A k \in 0..n : more[k] = kept[k]
    OBVIOUS
  <2>4. ASSUME NEW k \in 0..(n + 1) PROVE more[k] = next[k]
    <3>1. CASE k = n + 1
      <4>1. more[k - 1] = kept[n] /\ k # 0
        BY <2>3, <3>1
      <4> QED BY <3>1, <4>1
    <3>2. CASE k = 0
      BY <2>2, <2>3, <3>2
    <3>3. CASE k \in 1..n
      <4>1. k \in 0..n /\ k - 1 \in 0..n /\ k # 0
        BY <3>3
      <4>2. more[k] = kept[k] /\ more[k - 1] = kept[k - 1]
        BY <2>3, <4>1
      <4> QED BY <2>2, <4>1, <4>2
    <3> QED BY <3>1, <3>2, <3>3
  <2>5. more = next
    BY <2>4
  <2>6. IsKept(more, a, n + 1)
    BY <2>5 DEF IsKept
  <2> HIDE DEF more
  <2> QED BY <2>6
<1>3. \A n \in Nat : n \in P
  <2> HIDE DEF P
  <2> QED BY <1>1, <1>2, ByNumber
<1> QED BY <1>3

LEMMA CNAMEsKept ==
  ASSUME NEW a \in Answer
  PROVE  /\ CNAMERecords(a) \in Answer
         /\ ToSet(CNAMERecords(a)) = {a[k] : k \in {k \in DOMAIN a : IsCNAME(a[k])}}
<1> DEFINE kept == Kept(a)
           Upto(n) == {a[k] : k \in {k \in 1..n : IsCNAME(a[k])}}
           P == {n \in Nat : n <= Len(a) => kept[n] \in Seq(Record) /\ ToSet(kept[n]) = Upto(n)}
<1>1. Len(a) \in Nat /\ DOMAIN a = 1..Len(a) /\ \A k \in 1..Len(a) : a[k] \in Record
  BY DEF Answer
<1>2. CNAMERecords(a) = kept[Len(a)]
  BY Zenon DEF CNAMERecords, Kept, IsKept
<1>3. IsKept(kept, a, Len(a))
  BY <1>1, KeptExists DEF Kept
<1>4. \A k \in 0..Len(a) : kept[k] = IF k = 0 THEN <<>>
                                     ELSE IF IsCNAME(a[k]) THEN Append(kept[k - 1], a[k])
                                     ELSE kept[k - 1]
  <2> HIDE DEF kept
  <2> QED BY <1>3 DEF IsKept
<1> HIDE DEF kept
<1>5. 0 \in P
  <2>1. kept[0] = <<>> /\ 1..0 = {}
    BY <1>1, <1>4
  <2>2. Upto(0) = {}
    BY <2>1
  <2>3. ToSet(<<>>) = {} /\ <<>> \in Seq(Record)
    BY DEF ToSet
  <2> QED BY <2>1, <2>2, <2>3
<1>6. ASSUME NEW n \in Nat, n \in P PROVE n + 1 \in P
  <2> SUFFICES ASSUME n + 1 <= Len(a)
               PROVE  kept[n + 1] \in Seq(Record) /\ ToSet(kept[n + 1]) = Upto(n + 1)
    BY <1>6
  <2>1. kept[n] \in Seq(Record) /\ ToSet(kept[n]) = Upto(n)
    BY <1>1, <1>6
  <2>2. n + 1 \in 0..Len(a) /\ n + 1 # 0 /\ (n + 1) - 1 = n /\ n + 1 \in 1..Len(a)
    BY <1>1
  <2>3. 1..(n + 1) = (1..n) \cup {n + 1}
    OBVIOUS
  <2>4. CASE IsCNAME(a[n + 1])
    <3>1. kept[n + 1] = Append(kept[n], a[n + 1])
      BY <1>4, <2>2, <2>4
    <3>2. Upto(n + 1) = Upto(n) \cup {a[n + 1]}
      BY <2>3, <2>4
    <3>3. /\ Append(kept[n], a[n + 1]) \in Seq(Record)
          /\ ToSet(Append(kept[n], a[n + 1])) = ToSet(kept[n]) \cup {a[n + 1]}
      <4> DEFINE s == kept[n]
                 e == a[n + 1]
      <4>1. s \in Seq(Record) /\ e \in Record
        BY <1>1, <2>1, <2>2
      <4> HIDE DEF s, e
      <4>2. /\ Append(s, e) \in Seq(Record) /\ Len(s) \in Nat
            /\ DOMAIN s = 1..Len(s) /\ DOMAIN Append(s, e) = 1..(Len(s) + 1)
            /\ \A j \in 1..Len(s) : Append(s, e)[j] = s[j]
            /\ Append(s, e)[Len(s) + 1] = e
        BY <4>1
      <4>3. 1..(Len(s) + 1) = (1..Len(s)) \cup {Len(s) + 1}
        BY <4>2
      <4>4. ToSet(Append(s, e)) = ToSet(s) \cup {e}
        BY <4>2, <4>3 DEF ToSet
      <4> QED BY <4>2, <4>4 DEF s, e
    <3> QED BY <2>1, <3>1, <3>2, <3>3
  <2>5. CASE ~IsCNAME(a[n + 1])
    <3>1. kept[n + 1] = kept[n]
      BY <1>4, <2>2, <2>5
    <3>2. Upto(n + 1) = Upto(n)
      BY <2>3, <2>5
    <3> QED BY <2>1, <3>1, <3>2
  <2> QED BY <2>4, <2>5
<1>7. Len(a) \in P
  <2> HIDE DEF P
  <2> QED BY <1>1, <1>5, <1>6, ByNumber
<1>8. kept[Len(a)] \in Seq(Record) /\ ToSet(kept[Len(a)]) = Upto(Len(a))
  BY <1>1, <1>7
<1> QED BY <1>1, <1>2, <1>8 DEF Answer

-----------------------------------------------------------------------------
(* What an answer says of a name, and what the answer before an alias's     *)
(* says of the name that has the alias.                                     *)
LEMMA OwnName == ASSUME NEW n \in Names, NEW a PROVE n \in LedTo(n, a)
BY DEF LedTo

LEMMA ResponseFollows ==
  ASSUME NEW n \in Names, NEW resp \in Says(n)
  PROVE  resp.answer \in Answer /\ Follows(n, resp.answer)
<1>1. resp \in Response
  BY IterationAssumption
<1>2. n \in LedTo(n, resp.answer)
  BY OwnName
<1>3. ServersKeepToTopic => OnTopic(n, resp.answer)
  BY DEF ServersKeepToTopic
<1>4. \A k \in DOMAIN resp.answer : resp.answer[k] \in ToSet(resp.answer)
  BY DEF ToSet
<1> QED BY <1>1, <1>2, <1>3, <1>4 DEF Follows, Response

LEMMA NothingFollows == ASSUME NEW n \in Names PROVE <<>> \in Answer /\ Follows(n, <<>>)
BY DEF Answer, Follows, OnTopic

LEMMA AliasFollows ==
  ASSUME NEW n \in Names, NEW resp \in Says(n), NEW t \in extractCNAME(resp, n),
         NEW a \in Answer, Follows(t, a)
  PROVE  LET whole == CNAMERecords(resp.answer) \o a
         IN  whole \in Answer /\ Follows(n, whole)
<1> DEFINE said == resp.answer
           first == CNAMERecords(said)
           whole == first \o a
<1>1. said \in Answer
  BY IterationAssumption DEF Response
<1>2. PICK i \in DOMAIN said : IsCNAME(said[i]) /\ said[i].owner = n /\ said[i].target = t
  BY DEF extractCNAME
<1>3. first \in Answer /\ ToSet(first) = {said[k] : k \in {k \in DOMAIN said : IsCNAME(said[k])}}
  BY <1>1, CNAMEsKept
<1> HIDE DEF said, first
<1>4. /\ whole \in Answer /\ DOMAIN first \subseteq DOMAIN whole
      /\ \A k \in DOMAIN first : whole[k] = first[k]
      /\ \A k \in DOMAIN a : \E j \in DOMAIN whole : whole[j] = a[k]
      /\ \A j \in DOMAIN whole : \/ j \in DOMAIN first /\ whole[j] = first[j]
                                 \/ \E k \in DOMAIN a : whole[j] = a[k]
  <2>1. first \in Seq(Record) /\ a \in Seq(Record)
    BY <1>3 DEF Answer
  <2>2. /\ whole \in Seq(Record) /\ Len(first) \in Nat /\ Len(a) \in Nat
        /\ Len(whole) = Len(first) + Len(a)
        /\ DOMAIN first = 1..Len(first) /\ DOMAIN a = 1..Len(a) /\ DOMAIN whole = 1..(Len(first) + Len(a))
        /\ \A k \in 1..Len(first) : whole[k] = first[k]
        /\ \A k \in 1..Len(a) : whole[Len(first) + k] = a[k]
    BY <2>1
  <2> HIDE DEF whole
  <2>3. \A k \in DOMAIN a : \E j \in DOMAIN whole : whole[j] = a[k]
    <3> SUFFICES ASSUME NEW k \in 1..Len(a) PROVE \E j \in DOMAIN whole : whole[j] = a[k]
      BY <2>2
    <3>1. Len(first) + k \in DOMAIN whole
      BY <2>2
    <3> QED BY <2>2, <3>1
  <2>4. ASSUME NEW j \in DOMAIN whole, j \notin DOMAIN first
        PROVE  \E k \in DOMAIN a : whole[j] = a[k]
    <3>1. j - Len(first) \in 1..Len(a) /\ Len(first) + (j - Len(first)) = j
      BY <2>2, <2>4
    <3> QED BY <2>2, <3>1
  <2>5. DOMAIN first \subseteq DOMAIN whole
    BY <2>2
  <2> QED BY <2>2, <2>3, <2>4, <2>5 DEF Answer
<1> HIDE DEF whole
<1>5. ASSUME NEW S, Closed(S, whole)
      PROVE  Closed(S, said) /\ Closed(S, a)
  <2>1. ASSUME NEW k \in DOMAIN said, said[k].owner \in S, IsCNAME(said[k]) PROVE said[k].target \in S
    <3>1. said[k] \in ToSet(first)
      BY <1>3, <2>1
    <3>2. PICK j \in DOMAIN first : first[j] = said[k]
      BY <3>1 DEF ToSet
    <3> QED BY <1>4, <1>5, <2>1, <3>2 DEF Closed
  <2>2. ASSUME NEW k \in DOMAIN a, a[k].owner \in S, IsCNAME(a[k]) PROVE a[k].target \in S
    <3>1. PICK j \in DOMAIN whole : whole[j] = a[k]
      BY <1>4
    <3> QED BY <1>5, <2>2, <3>1 DEF Closed
  <2> QED BY <2>1, <2>2 DEF Closed
<1>6. LedTo(n, said) \subseteq LedTo(n, whole)
  <2> SUFFICES ASSUME NEW m \in LedTo(n, said), NEW S \in SUBSET Names, n \in S, Closed(S, whole)
               PROVE  m \in S
    BY DEF LedTo
  <2> QED BY <1>5 DEF LedTo
<1>7. LedTo(t, a) \subseteq LedTo(n, whole)
  <2> SUFFICES ASSUME NEW m \in LedTo(t, a), NEW S \in SUBSET Names, n \in S, Closed(S, whole)
               PROVE  m \in S
    BY DEF LedTo
  <2>1. Closed(S, said) /\ Closed(S, a)
    BY <1>5
  <2>2. t \in S
    BY <1>2, <2>1 DEF Closed
  <2> QED BY <2>1, <2>2 DEF LedTo
<1>8. ASSUME NEW j \in DOMAIN whole
      PROVE  \E m \in LedTo(n, whole) : \E r \in Says(m) : whole[j] \in ToSet(r.answer)
  <2>1. CASE j \in DOMAIN first /\ whole[j] = first[j]
    <3>1. whole[j] \in ToSet(first)
      BY <2>1 DEF ToSet
    <3>2. whole[j] \in ToSet(resp.answer)
      BY <1>3, <3>1 DEF ToSet, said
    <3>3. n \in LedTo(n, whole)
      BY OwnName
    <3> QED BY <3>2, <3>3
  <2>2. CASE \E k \in DOMAIN a : whole[j] = a[k]
    <3>1. PICK k \in DOMAIN a : whole[j] = a[k]
      BY <2>2
    <3>2. PICK m \in LedTo(t, a) : \E r \in Says(m) : a[k] \in ToSet(r.answer)
      BY DEF Follows
    <3> QED BY <1>7, <3>1, <3>2
  <2> QED BY <1>4, <2>1, <2>2
<1>9. ASSUME ServersKeepToTopic, NEW j \in DOMAIN whole
      PROVE  whole[j].owner \in LedTo(n, whole)
  <2>1. CASE j \in DOMAIN first /\ whole[j] = first[j]
    <3>1. whole[j] \in ToSet(first)
      BY <2>1 DEF ToSet
    <3>2. PICK k \in DOMAIN said : whole[j] = said[k]
      BY <1>3, <3>1
    <3>3. said[k].owner \in LedTo(n, said)
      BY <1>9 DEF ServersKeepToTopic, OnTopic, said
    <3> QED BY <1>6, <3>2, <3>3
  <2>2. CASE \E k \in DOMAIN a : whole[j] = a[k]
    <3>1. PICK k \in DOMAIN a : whole[j] = a[k]
      BY <2>2
    <3>2. a[k].owner \in LedTo(t, a)
      BY <1>9 DEF Follows, OnTopic
    <3> QED BY <1>7, <3>1, <3>2
  <2> QED BY <1>4, <2>1, <2>2
<1>10. Follows(n, whole)
  BY <1>8, <1>9 DEF Follows, OnTopic
<1> QED BY <1>4, <1>10 DEF whole, first, said

-----------------------------------------------------------------------------
(* What a call is about. *)

(* The names a waiting call may want to know about. *)
Wants(f, n) ==
  IF f.phase = "lookup" THEN n = Head(f.nsNames)
  ELSE \E resp \in Says(f.name) : f.alias = resp.answer /\ n \in extractCNAME(resp, f.name)

(* Each call is about what the one before it wants, and what has been      *)
(* returned is an answer for what the innermost one wants.                 *)
ChainInv ==
  /\ stack # <<>> => stack[1].name = Question
  /\ \A k \in 1..Len(stack) - 1 : Wants(stack[k], stack[k + 1].name)
  /\ IsOk(ret) => /\ ret.answer \in Answer
                  /\ stack = <<>> => Follows(Question, ret.answer)
                  /\ stack # <<>> => \E n \in Names : Wants(top, n) /\ Follows(n, ret.answer)
  /\ stored # None => Follows(stored.name, stored.answer)

LEMMA ChainInit == Init => ChainInv
<1> SUFFICES ASSUME Init PROVE ChainInv
  OBVIOUS
<1>1. stack = <<Call(Question, 0, FALSE)>> /\ ret = None /\ stored = None
  BY DEF Init
<1>2. Call(Question, 0, FALSE).name = Question
  BY DEF Call
<1>3. stack # <<>> /\ Len(stack) = 1 /\ stack[1].name = Question /\ ~IsOk(ret)
  BY <1>1, <1>2 DEF IsOk
<1>4. 1..Len(stack) - 1 = {}
  BY <1>3
<1> QED BY <1>1, <1>3, <1>4 DEF ChainInv

LEMMA ChainStep ==
  ASSUME TypeOK, PurposeInv, ChainInv, Shape PROVE ChainInv'
<1>1. ASSUME NEW f, Updates(f) PROVE ChainInv'
  <2>1. f.name = top.name /\ ~Waiting(f) /\ stack # <<>> /\ ret' = None
    BY <1>1 DEF Updates
  <2>2. stored' # None => Follows(stored'.name, stored'.answer)
    <3>1. CASE stored' = stored
      BY <3>1 DEF ChainInv
    <3>2. CASE /\ top.phase = "lookup" /\ IsOk(ret)
               /\ stored' = [name |-> Head(top.nsNames), answer |-> ret.answer]
      <4>1. PICK n \in Names : Wants(top, n) /\ Follows(n, ret.answer)
        BY <2>1, <3>2 DEF ChainInv
      <4>2. n = Head(top.nsNames)
        BY <3>2, <4>1 DEF Wants
      <4>3. stored'.name = n /\ stored'.answer = ret.answer
        BY <3>2, <4>2
      <4> QED BY <4>1, <4>3
    <3> QED BY <1>1, <3>1, <3>2 DEF Updates
  <2>3. /\ Len(stack) \in Nat \ {0} /\ top = stack[Len(stack)]
        /\ stack' \in Seq(Frame) /\ Len(stack') = Len(stack)
        /\ \A k \in 1..Len(stack) : stack'[k] = IF k = Len(stack) THEN f ELSE stack[k]
    BY <1>1, <2>1, UpdatedStack, TopIsFrame
  <2>4. \A k \in 1..Len(stack) : stack'[k].name = stack[k].name
    BY <2>1, <2>3
  <2>5. 1 \in 1..Len(stack) /\ stack[1].name = Question
    BY <2>1, <2>3 DEF ChainInv
  <2>6. ASSUME NEW k \in 1..Len(stack') - 1
        PROVE  Wants(stack'[k], stack'[k + 1].name)
    <3>1. k \in 1..Len(stack) - 1 /\ k + 1 \in 1..Len(stack) /\ stack'[k] = stack[k]
      BY <2>3
    <3>2. Wants(stack[k], stack[k + 1].name)
      BY <3>1 DEF ChainInv
    <3> QED BY <2>4, <3>1, <3>2
  <2>7. stack'[1].name = Question /\ ~IsOk(ret)'
    BY <2>1, <2>4, <2>5 DEF IsOk
  <2> QED BY <2>2, <2>6, <2>7 DEF ChainInv, Wants, IsOk
<1>2. ASSUME NEW r, Returns(r) PROVE ChainInv'
  <2>1. /\ stack \in Seq(Frame) /\ Len(stack) \in Nat \ {0} /\ top = stack[Len(stack)]
        /\ top \in Frame /\ Len(stack) \in 1..Len(stack) /\ stack # <<>>
        /\ stack' \in Seq(Frame) /\ Len(stack') = Len(stack) - 1
        /\ \A k \in 1..Len(stack) - 1 : stack'[k] = stack[k]
        /\ ret' = r /\ UNCHANGED stored
    BY <1>2, ReturnedStack, TopIsFrame DEF Returns
  <2>2. top.name \in Names
    BY <2>1 DEF Frame, Fields
  <2>3. ASSUME IsOk(r) PROVE r.answer \in Answer /\ Follows(top.name, r.answer)
    <3>1. CASE r = Ok(<<>>)
      <4>1. r.answer = <<>>
        BY <3>1 DEF Ok
      <4> QED BY <2>2, <4>1, NothingFollows
    <3>2. CASE \E resp \in Says(top.name) : r = Ok(resp.answer)
      <4>1. PICK resp \in Says(top.name) : r = Ok(resp.answer)
        BY <3>2
      <4>2. r.answer = resp.answer
        BY <4>1 DEF Ok
      <4> QED BY <2>2, <4>2, ResponseFollows
    <3>3. CASE /\ top.phase = "cname" /\ IsOk(ret)
               /\ r = Ok(CNAMERecords(top.alias) \o ret.answer)
      <4>1. PICK t \in Names : Wants(top, t) /\ Follows(t, ret.answer)
        BY <2>1, <3>3 DEF ChainInv
      <4>2. PICK resp \in Says(top.name) : top.alias = resp.answer /\ t \in extractCNAME(resp, top.name)
        BY <3>3, <4>1 DEF Wants
      <4>3. ret.answer \in Answer
        BY <3>3 DEF ChainInv
      <4>4. r.answer = CNAMERecords(resp.answer) \o ret.answer
        BY <3>3, <4>2 DEF Ok
      <4> QED BY <2>2, <4>1, <4>2, <4>3, <4>4, AliasFollows
    <3> QED BY <1>2, <2>3, <3>1, <3>2, <3>3 DEF Returns, IsOk, Error
  <2>4. /\ stack' # <<>> => stack'[1] = stack[1]
        /\ \A k \in 1..Len(stack') - 1 : stack'[k] = stack[k] /\ stack'[k + 1] = stack[k + 1]
    BY <2>1
  <2>5. stack' # <<>> => stack'[1].name = Question
    BY <2>1, <2>4 DEF ChainInv
  <2>6. ASSUME NEW k \in 1..Len(stack') - 1
        PROVE  Wants(stack'[k], stack'[k + 1].name)
    <3>1. k \in 1..Len(stack) - 1
      BY <2>1
    <3>2. Wants(stack[k], stack[k + 1].name)
      BY <3>1 DEF ChainInv
    <3> QED BY <2>4, <3>2
  <2>7. /\ stack' = <<>> => top.name = Question
        /\ stack' # <<>> => Wants(top', top.name)
    <3>1. CASE stack' = <<>>
      <4>1. Len(stack') = 0
        BY <3>1
      <4>2. top = stack[1]
        <5>1. Len(stack) = 1
          BY <2>1, <4>1
        <5> QED BY <2>1, <5>1
      <4> QED BY <2>1, <3>1, <4>2 DEF ChainInv
    <3>2. CASE stack' # <<>>
      <4> DEFINE k == Len(stack) - 1
      <4>1. k \in 1..Len(stack) - 1 /\ top' = stack[k] /\ top = stack[k + 1]
        BY <2>1, <3>2 DEF top
      <4> HIDE DEF k
      <4>2. Wants(stack[k], stack[k + 1].name)
        BY <4>1 DEF ChainInv
      <4> QED BY <3>2, <4>1, <4>2
    <3> QED BY <3>1, <3>2
  <2>8. IsOk(ret') => /\ ret'.answer \in Answer
                      /\ stack' = <<>> => Follows(Question, ret'.answer)
                      /\ stack' # <<>> => \E n \in Names : Wants(top', n) /\ Follows(n, ret'.answer)
    BY <2>1, <2>2, <2>3, <2>7
  <2>9. stored' # None => Follows(stored'.name, stored'.answer)
    BY <2>1 DEF ChainInv
  <2> QED BY <2>5, <2>6, <2>8, <2>9 DEF ChainInv, Wants, IsOk
<1>3. ASSUME NEW f, NEW n, NEW forNS, Calls(f, n, forNS) PROVE ChainInv'
  <2> DEFINE inner == Call(n, top.depth + 1, forNS)
  <2>1. /\ Len(stack) \in Nat \ {0} /\ top = stack[Len(stack)] /\ top \in Frame
        /\ stack' \in Seq(Frame) /\ Len(stack') = Len(stack) + 1
        /\ \A k \in 1..Len(stack) : stack'[k] = IF k = Len(stack) THEN f ELSE stack[k]
        /\ stack'[Len(stack) + 1] = inner /\ inner.name = n
        /\ ret' = None
    BY <1>3, CalledStack, TopIsFrame DEF Calls
  <2>2. f.name = top.name /\ stack # <<>> /\ UNCHANGED stored /\ n \in Names
    BY <1>3 DEF Calls
  <2>3. Wants(f, n)
    BY <1>3, <2>2 DEF Calls, Wants
  <2> HIDE DEF inner
  <2>4. stack'[1].name = Question
    <3>1. 1 \in 1..Len(stack) /\ (Len(stack) = 1 => top = stack[1])
      BY <2>1
    <3> QED BY <2>1, <2>2, <3>1 DEF ChainInv
  <2>5. ASSUME NEW k \in 1..Len(stack') - 1
        PROVE  Wants(stack'[k], stack'[k + 1].name)
    <3>1. CASE k = Len(stack)
      BY <2>1, <2>3, <3>1
    <3>2. CASE k # Len(stack)
      <4>1. k \in 1..Len(stack) - 1 /\ k + 1 \in 1..Len(stack)
        BY <2>1, <3>2
      <4>2. Wants(stack[k], stack[k + 1].name)
        BY <4>1 DEF ChainInv
      <4>3. stack'[k] = stack[k] /\ stack'[k + 1].name = stack[k + 1].name
        BY <2>1, <2>2, <4>1
      <4> QED BY <4>2, <4>3
    <3> QED BY <3>1, <3>2
  <2>6. stored' # None => Follows(stored'.name, stored'.answer)
    BY <2>2 DEF ChainInv
  <2>7. ~IsOk(ret)'
    BY <2>1 DEF IsOk
  <2> QED BY <2>4, <2>5, <2>6, <2>7 DEF ChainInv, Wants, IsOk
<1>4. CASE UNCHANGED <<stack, ret, stored>>
  BY <1>4 DEF ChainInv, top, IsOk, Wants
<1> QED BY <1>1, <1>2, <1>3, <1>4 DEF Shape

(* Whatever the servers say, every record the client gets was said of its   *)
(* question or of a name that the aliases in the answer lead to from it,    *)
(* whatever calls found the pieces, and so is every record stored for a     *)
(* name server; it is about such a name if servers keep to what they are    *)
(* asked.                                                                   *)
THEOREM AnswerFollowsChainHolds == Spec => []AnswerFollowsChain
<1>1. IInv /\ PurposeInv /\ ChainInv /\ [Next]_vars => ChainInv'
  BY StepShape, ChainStep DEF IInv
<1>2. ChainInv => AnswerFollowsChain
  BY DEF ChainInv, AnswerFollowsChain
<1> QED BY <1>1, <1>2, ChainInit, WalkInv, PurposeHolds, PTL DEF Spec
=============================================================================
