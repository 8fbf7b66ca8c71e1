---------------------------- MODULE MCIteration ----------------------------
(* A small world of names for Iteration: q is the question, c an alias that *)
(* leads on or back to q, n1 and n2 name servers that may need each other.  *)
EXTENDS Iteration

RR(n, t) == [owner |-> n, target |-> t]
Final(a)   == [aa |-> TRUE, rcode |-> "NOERROR", answer |-> a, ns |-> <<>>, glue |-> {}]
NoSuchName == [aa |-> FALSE, rcode |-> "NXDOMAIN", answer |-> <<>>, ns |-> <<>>, glue |-> {}]
Hearsay(a) == [aa |-> FALSE, rcode |-> "NOERROR", answer |-> a, ns |-> <<>>, glue |-> {}]
Referral(ns, glue) ==
  [aa |-> FALSE, rcode |-> "NOERROR", answer |-> <<>>, ns |-> ns, glue |-> glue]

WorldNames == {"q", "c", "n1", "n2"}
WorldAddresses == {"a1", "a2"}
Roots == {"a1"}

World(n) ==
  CASE n = "q" -> {Final(<<RR("q", "a1"), RR("q", "a2")>>), Final(<<RR("q", "c")>>), Final(<<>>),
                   NoSuchName, Hearsay(<<RR("q", "c")>>), Hearsay(<<RR("c", "a1"), RR("q", "c")>>),
                   Hearsay(<<RR("q", "c"), RR("c", "q")>>), Hearsay(<<>>),
                   Referral(<<"n1">>, {"a1", "a2"}), Referral(<<"n1", "n2">>, {})}
    [] n = "c" -> {Final(<<RR("c", "a2")>>), Hearsay(<<RR("c", "a2")>>),
                   Hearsay(<<RR("c", "q")>>), Hearsay(<<RR("c", "q"), RR("q", "a1")>>),
                   Referral(<<"n2">>, {})}
    [] n = "n1" -> {Final(<<RR("n1", "a1")>>), Referral(<<"n1">>, {}),
                    Referral(<<"n2", "n1">>, {})}
    [] n = "n2" -> {Final(<<RR("n2", "a2")>>), NoSuchName, Hearsay(<<RR("n2", "c")>>),
                    Referral(<<"n1">>, {})}

ASSUME WorldKeepsToTopic == ServersKeepToTopic

Remembered(n) == IF n = "n2" THEN {<<RR("n2", "a2")>>, <<>>} ELSE {}
=============================================================================
