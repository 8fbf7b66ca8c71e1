---------------------------- MODULE TokenBucket -----------------------------
(***************************************************************************)
(* What a rate limiter promises, without a map of buckets and without a    *)
(* cleanup: every client has a level of its own that rises with time up to *)
(* the burst; a query passes, for one token, exactly when there is one.    *)
(*                                                                         *)
(* A tick is 1/Scale of a second and levels are in units of 1/Scale of a   *)
(* token, so that a tick brings Rate units and a query costs Scale units.  *)
(***************************************************************************)
EXTENDS Integers

CONSTANTS
  Clients,
  Rate,      \* tokens per second
  Burst,     \* tokens
  Scale,     \* ticks per second
  NoVerdict  \* nothing asked yet

VARIABLES
  level,     \* client |-> what it may still spend
  verdict    \* the client that asked last and whether its query passed

vars == <<level, verdict>>

Full == Burst * Scale

Capped(units) == IF units > Full THEN Full ELSE units

Init ==
  /\ level = [c \in Clients |-> Full]
  /\ verdict = NoVerdict

Pass(c) ==
  /\ level[c] >= Scale
  /\ level' = [level EXCEPT ![c] = @ - Scale]
  /\ verdict' = <<c, TRUE>>

Refuse(c) ==
  /\ level[c] < Scale
  /\ verdict' = <<c, FALSE>>
  /\ UNCHANGED level

Refill ==
  /\ level' = [c \in Clients |-> Capped(level[c] + Rate)]
  /\ UNCHANGED verdict

Next == Refill \/ \E c \in Clients : Pass(c) \/ Refuse(c)

Spec == Init /\ [][Next]_vars
=============================================================================
