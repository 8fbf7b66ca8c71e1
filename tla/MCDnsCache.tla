----------------------------- MODULE MCDnsCache -----------------------------
(* Small instances of DnsCache.                                            *)
EXTENDS DnsCache

CONSTANTS g1, g2

TwoNames     == [n \in {"x", "y"} |-> n]
ThreeNames   == [n \in {"x", "y", "z"} |-> n]

OneType     == [t \in {"A"} |-> "A"]
OneClass    == [c \in {"IN"} |-> "IN"]

Positive(secs, extra) == [rcode |-> "NOERROR", answer |-> secs, ns |-> {}, extra |-> extra]
NxDomain == [rcode |-> "NXDOMAIN", answer |-> {}, ns |-> {3}, extra |-> {}]

OneResponse  == {Positive({1}, {})}
(* the first has an additional record that ought to be gone sooner *)
OneOfEach    == {Positive({2, 3}, {1}), Positive({0, 1}, {}), NxDomain}
=============================================================================
