------------------------------- MODULE Flights -------------------------------
(***************************************************************************)
(* What callers that ask the same questions are promised, without cache,   *)
(* channels or a map that somebody has to clean up: for each question at   *)
(* most one flight is under way.  Who comes while it is boards it, and     *)
(* gets what its pilot brings home, unless his own time is up before.  A   *)
(* flight brings home one outcome, which never changes, and who comes      *)
(* after its end does not get it any more.                                 *)
(***************************************************************************)
EXTENDS Functions

CONSTANTS
  Callers,
  Keys,
  Outcomes,    \* what a flight may bring home
  Expired,     \* the outcome of a caller whose time is up
  Known,       \* an answer that took no flight
  None         \* no caller, no outcome, no answer

VARIABLES
  wanted,      \* caller |-> the key of its question
  late,        \* the callers whose time is up
  flying,      \* some keys |-> the pilot of the flight under way
  aboard,      \* caller |-> the pilot of the flight it is or was on
  landed,      \* pilot |-> what its flight brought home
  answer       \* caller |-> what it was told

vars == <<wanted, late, flying, aboard, landed, answer>>

Init ==
  /\ wanted \in [Callers -> Keys]
  /\ late = {}
  /\ flying = [k \in {} |-> None]
  /\ aboard = [c \in Callers |-> None]
  /\ landed = [c \in Callers |-> None]
  /\ answer = [c \in Callers |-> None]

Waits(c) == answer[c] = None

Tell(c, a) == answer' = [answer EXCEPT ![c] = a]

TellKnown(c) ==
  /\ Waits(c) /\ aboard[c] = None
  /\ Tell(c, Known)
  /\ UNCHANGED <<wanted, late, flying, aboard, landed>>

TakeOff(c) ==
  /\ Waits(c) /\ aboard[c] = None
  /\ wanted[c] \notin DOMAIN flying
  /\ flying' = [k \in DOMAIN flying \cup {wanted[c]} |-> IF k = wanted[c] THEN c ELSE flying[k]]
  /\ aboard' = [aboard EXCEPT ![c] = c]
  /\ UNCHANGED <<wanted, late, landed, answer>>

Board(c) ==
  /\ Waits(c) /\ aboard[c] = None
  /\ wanted[c] \in DOMAIN flying
  /\ aboard' = [aboard EXCEPT ![c] = flying[wanted[c]]]
  /\ UNCHANGED <<wanted, late, flying, landed, answer>>

(* Once, and without the pilot's time being up only with a proper outcome. *)
Land(c) ==
  /\ aboard[c] = c /\ landed[c] = None
  /\ \E o \in Outcomes :
       /\ o = Expired => c \in late
       /\ landed' = [landed EXCEPT ![c] = o]
  /\ UNCHANGED <<wanted, late, flying, aboard, answer>>

(* From now on another flight may take off.  The pilot may stay a while.   *)
Close(c) ==
  /\ wanted[c] \in DOMAIN flying /\ flying[wanted[c]] = c
  /\ landed[c] # None
  /\ flying' = Restrict(flying, DOMAIN flying \ {wanted[c]})
  /\ UNCHANGED answer \/ Tell(c, landed[c])
  /\ UNCHANGED <<wanted, late, aboard, landed>>

(* The pilot leaves after the flight is closed. *)
TellOutcome(c) ==
  /\ Waits(c) /\ aboard[c] # None /\ landed[aboard[c]] # None
  /\ aboard[c] = c => c \notin {flying[k] : k \in DOMAIN flying}
  /\ Tell(c, landed[aboard[c]])
  /\ UNCHANGED <<wanted, late, flying, aboard, landed>>

GiveUp(c) ==
  /\ Waits(c) /\ aboard[c] \notin {None, c} /\ c \in late
  /\ Tell(c, Expired)
  /\ UNCHANGED <<wanted, late, flying, aboard, landed>>

TimeIsUp(c) ==
  /\ late' = late \cup {c}
  /\ UNCHANGED <<wanted, flying, aboard, landed, answer>>

Next ==
  \E c \in Callers :
    \/ TellKnown(c) \/ TakeOff(c) \/ Board(c) \/ Land(c) \/ Close(c)
    \/ TellOutcome(c) \/ GiveUp(c) \/ TimeIsUp(c)

Spec == Init /\ [][Next]_vars
=============================================================================
