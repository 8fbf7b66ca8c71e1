------------------------------ MODULE QueryRing ------------------------------
(***************************************************************************)
(* internal/metrics, the circular log of queries: an array allocated once, *)
(* the position of the next write, and the number of entries written, up   *)
(* to the size of the array.                                               *)
(***************************************************************************)
EXTENDS Integers, Sequences

CONSTANTS queryLogMax, NoEntry

ASSUME RingAssumption == queryLogMax \in Nat \ {0}

Positions == 0..queryLogMax - 1

EmptyRing == [queryLog |-> [p \in Positions |-> NoEntry], queryLogIdx |-> 0, queryLogLen |-> 0]

(* Mutant: the position runs one past the end before it wraps. *)
PushLate(ring, e) ==
  [queryLog |-> [p \in Positions |-> IF p = ring.queryLogIdx THEN e ELSE ring.queryLog[p]],
   queryLogIdx |-> (ring.queryLogIdx + 1) % (queryLogMax + 1),
   queryLogLen |-> IF ring.queryLogLen < queryLogMax THEN ring.queryLogLen + 1
                                                   ELSE ring.queryLogLen]

Push(ring, e) ==
  [queryLog |-> [ring.queryLog EXCEPT ![ring.queryLogIdx] = e],
   queryLogIdx |-> (ring.queryLogIdx + 1) % queryLogMax,
   queryLogLen |-> IF ring.queryLogLen < queryLogMax THEN ring.queryLogLen + 1
                                                   ELSE ring.queryLogLen]

(* Oldest first. *)
GetAllQueryLogs(ring) ==
  [i \in 1..ring.queryLogLen |->
     ring.queryLog[(ring.queryLogIdx - ring.queryLogLen + (i - 1) + queryLogMax)
                     % queryLogMax]]

(* Mutant: the walk goes back from the last position, as if the ring had   *)
(* not wrapped.                                                            *)
GetRecentQueriesUnwrapped(ring, limit) ==
  [i \in 1..(IF limit <= 0 \/ limit > ring.queryLogLen THEN ring.queryLogLen ELSE limit) |->
     ring.queryLog[ring.queryLogLen - 1 - (i - 1)]]

(* Newest first. *)
GetRecentQueries(ring, limit) ==
  [i \in 1..(IF limit <= 0 \/ limit > ring.queryLogLen THEN ring.queryLogLen ELSE limit) |->
     ring.queryLog[(ring.queryLogIdx - 1 - (i - 1) + queryLogMax) % queryLogMax]]
=============================================================================
