--------------------------- MODULE MCPersistence ----------------------------
(* Small instances of Persistence.                                         *)
EXTENDS Persistence

TwoNames == [n \in {"x", "y"} |-> n]
OneType  == [t \in {"A"} |-> "A"]
TwoClasses == [c \in {"IN", "CH"} |-> c]

(* One name in two classes, which a restart cannot tell apart, and another. *)
ThreeQuestions ==
  {[name |-> n, qtype |-> "A", qclass |-> "IN"] : n \in {"x", "y"}}
    \cup {[name |-> "x", qtype |-> "A", qclass |-> "CH"]}

OneResponse ==
  {[rcode |-> "NOERROR", answer |-> {2}, ns |-> {}, extra |-> {}]}
=============================================================================
