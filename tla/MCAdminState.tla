--------------------------- MODULE MCAdminState -----------------------------
(***************************************************************************)
(* A small instance of AdminState: one domain in two spellings and one     *)
(* that is in the whitelist file too; one name with two addresses, one     *)
(* that does not parse, and a CNAME.                                       *)
(*                                                                         *)
(* The whitelist, the switch and the local records share no variable but   *)
(* the pool of requests and the restart, so that a behaviour here keeps to *)
(* the requests of one of them, any one.                                   *)
(***************************************************************************)
EXTENDS AdminState, TLC

CONSTANTS r1, r2, h1

VARIABLE area

DomainOf == [s \in {"ads.test", "Ads.Test", "shop.test"} |->
               IF s = "shop.test" THEN "shop.test." ELSE "ads.test."]

Local(t, v) == [name |-> "nas", type |-> t, value |-> v]
RecordsOf   == {Local("A", "one"), Local("A", "two"), Local("A", "bad"), Local("CNAME", "one")}
BadAddress  == {<<"A", "bad">>}

Symmetry == Permutations(Requests)

(* What the area leaves alone a start leaves alone, too. *)
Still(a) == area = a \/ CASE a = "whitelist" -> UNCHANGED <<whitelist, unread>>
                         [] a = "switch" -> UNCHANGED enabled
                         [] a = "records" -> UNCHANGED serving
Areas == {"whitelist", "switch", "records"}

AreaInit ==
  /\ Init
  /\ area \in Areas
  /\ area = "whitelist" \/ whitelist = {}
  /\ area = "switch" \/ (setting = "true" /\ enabled)
  /\ area = "records" \/ ~serving

AreaNext ==
  /\ \/ area = "whitelist" /\ (ListAtOnce \/ \E r \in Requests : ListRequest(r))
     \/ area = "switch" /\ (SwitchAtOnce \/ \E r \in Requests : SwitchRequest(r))
     \/ area = "records" /\ (RecordAtOnce \/ \E r \in Requests : RecordRequest(r))
     \/ area = "records" /\ \E h \in Handlers : Resolve(h)
     \/ Restart /\ (\A a \in Areas : Still(a))
  /\ UNCHANGED area

AreaSpec == AreaInit /\ [][AreaNext]_<<vars, area>>
=============================================================================
