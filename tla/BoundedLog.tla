----------------------------- MODULE BoundedLog -----------------------------
(* The promise of the query log: it has the latest queries, at most Size of *)
(* them, in the order in which they were logged, and loses none on the way. *)
EXTENDS Naturals, Sequences

CONSTANTS Entry, Size

VARIABLES log, added

Latest(s) == IF Len(s) > Size THEN Tail(s) ELSE s

Init == log = <<>> /\ added = 0

Add(e) == log' = Latest(Append(log, e)) /\ added' = added + 1

Next == \E e \in Entry : Add(e)

Spec == Init /\ [][Next]_<<log, added>>
=============================================================================
