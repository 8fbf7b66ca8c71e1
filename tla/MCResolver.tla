----------------------------- MODULE MCResolver -----------------------------
(* Small instances of Resolver.                                            *)
EXTENDS Resolver

CONSTANTS r1, r2, p1

Q(n, c) == [name |-> n, qtype |-> "A", qclass |-> c]

TwoNames     == [n \in {"x", "X", "y"} |-> IF n = "X" THEN "x" ELSE n]
OneType      == [t \in {"A"} |-> "A"]

TwoClasses   == [c \in {"IN", "CH"} |-> c]

(* a client spells the name of y's name server in its own way *)
XOrCHOfY     == {Q("X", "IN"), Q("y", "CH")}
NSName       == {Q("x", "IN")}

OneResponse  == {[rcode |-> "NOERROR", answer |-> {1}, ns |-> {}, extra |-> {}]}
=============================================================================
