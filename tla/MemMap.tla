------------------------------- MODULE MemMap -------------------------------
(***************************************************************************)
(* What the MemTable promises the store: a map from the keys that were put *)
(* to the string last put for each (src/src/memtable/memTable.cc as        *)
(* KVStore uses it).  KVStore's variable `memtable` is this map.           *)
(***************************************************************************)
CONSTANTS Key, Value

VARIABLE memtable

Init == memtable = [k \in {} |-> {}]

Put(k, v) ==
  memtable' = [j \in DOMAIN memtable \cup {k} |-> IF j = k THEN v ELSE memtable[j]]

Del(k) == memtable' = [j \in DOMAIN memtable \ {k} |-> memtable[j]]

Clean == memtable' = [k \in {} |-> {}]

Next == Clean \/ \E k \in Key : Del(k) \/ \E v \in Value : Put(k, v)

Spec == Init /\ [][Next]_memtable
=============================================================================
