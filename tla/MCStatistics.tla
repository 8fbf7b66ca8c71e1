---------------------------- MODULE MCStatistics ----------------------------
(* Four queries that differ in everything the tables tell apart, and one   *)
(* domain in two spellings.                                                *)
EXTENDS Statistics

CONSTANTS h1, h2

HandlerSymmetry == Permutations(Handlers)

Q(c, d, proto, rcode, ms, blocked) ==
  [client |-> c, domain |-> d, protocol |-> proto, rcode |-> rcode, latency |-> ms,
   blocked |-> blocked]

FourQueries == {Q("c1", "X", "udp", "NOERROR", 1, TRUE), Q("c2", "y", "tcp", "NXDOMAIN", 2, FALSE),
                Q("c3", "z", "udp", "SERVFAIL", 5, FALSE), Q("c1", "x", "udp", "NOERROR", 1, TRUE)}

LowerCase == [d \in {q.domain : q \in FourQueries} |-> IF d = "X" THEN "x" ELSE d]
=============================================================================
