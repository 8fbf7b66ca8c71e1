----------------------------- MODULE LossyStore -----------------------------
(***************************************************************************)
(* What a cache promises its callers, without clock, capacity or locks: a  *)
(* store that may lose anything at any time, and whose clients get either  *)
(* a miss or the value that was stored under the key, and not replaced,    *)
(* at one moment during the call.  Values are never mixed up between keys  *)
(* and a lost or replaced value is never handed to a later call.           *)
(***************************************************************************)
EXTENDS Functions

CONSTANTS
  Clients,
  Keys,
  Values,
  NoValue,     \* the client holds nothing
  Miss         \* an answer: not in the store

VARIABLES
  store,       \* some keys |-> the value stored last
  wanted,      \* client |-> the key of its last call
  held,        \* client |-> what its call found, NoValue outside a call
  answer       \* client |-> the answer of its last call

vars == <<store, wanted, held, answer>>

StoreTypeOK ==
  /\ DOMAIN store \subseteq Keys
  /\ \A k \in DOMAIN store : store[k] \in Values
  /\ wanted \in [Clients -> Keys]
  /\ held \in [Clients -> Values \cup {NoValue}]
  /\ answer \in [Clients -> Values \cup {Miss}]

Init ==
  /\ store = [k \in {} |-> NoValue]
  /\ wanted \in [Clients -> Keys]
  /\ held = [c \in Clients |-> NoValue]
  /\ answer = [c \in Clients |-> Miss]

LoseSome == \E kept \in SUBSET DOMAIN store : store' = Restrict(store, kept)

Put(k, v) ==
  /\ \E kept \in SUBSET DOMAIN store :
       store' = [j \in kept \cup {k} |-> IF j = k THEN v ELSE store[j]]
  /\ UNCHANGED <<wanted, held, answer>>

Lose == LoseSome /\ UNCHANGED <<wanted, held, answer>>

(* The call starts out as a miss; holding a value it may still become a hit. *)
Fetch(c, k) ==
  /\ held[c] = NoValue
  /\ wanted' = [wanted EXCEPT ![c] = k]
  /\ held' = [held EXCEPT ![c] = IF k \in DOMAIN store THEN store[k] ELSE NoValue]
  /\ answer' = [answer EXCEPT ![c] = Miss]
  /\ UNCHANGED store

Reply(c) ==
  /\ held[c] # NoValue
  /\ \E a \in {held[c], Miss} : answer' = [answer EXCEPT ![c] = a]
  /\ held' = [held EXCEPT ![c] = NoValue]
  /\ LoseSome
  /\ UNCHANGED wanted

Next ==
  \/ Lose
  \/ \E k \in Keys, v \in Values : Put(k, v)
  \/ \E c \in Clients : Reply(c) \/ \E k \in Keys : Fetch(c, k)

Spec == Init /\ [][Next]_vars
=============================================================================
