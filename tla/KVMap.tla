------------------------------- MODULE KVMap -------------------------------
(***************************************************************************)
(* What src/src/core/kvstore_api.h promises of a key-value store, as one   *)
(* map: put sets the value of a key, del and reset remove values, and get, *)
(* scan and gc change nothing.  A call takes effect when it starts; the    *)
(* map does not change while the rest of it is running.  `Empty`, the      *)
(* empty string, is the answer for a key that has no value.                *)
(***************************************************************************)
CONSTANTS
  Key,     \* the keys
  Value,   \* the values clients store
  Empty    \* the empty string

VARIABLES
  kv,     \* the value of each key, or Empty
  busy    \* TRUE while a call is running

mapVars == <<kv, busy>>

Init == kv = [k \in Key |-> Empty] /\ busy = FALSE

Put(k, v) == kv' = [kv EXCEPT ![k] = v]

Del(k) == kv' = [kv EXCEPT ![k] = Empty]

Reset == kv' = [k \in Key |-> Empty]

Gc == UNCHANGED kv

Call ==
  /\ ~busy
  /\ \/ \E k \in Key, v \in Value : Put(k, v)
     \/ \E k \in Key : Del(k)
     \/ Reset
     \/ Gc
  /\ busy' \in BOOLEAN

Return ==
  /\ busy
  /\ busy' = FALSE
  /\ UNCHANGED kv

Next == Call \/ Return

Spec == Init /\ [][Next]_mapVars
=============================================================================
