----------------------------- MODULE MCKVStore -----------------------------
(* Instances of KVStore for TLC.                                           *)
EXTENDS KVStore

(* Every offset the code can compute within the bounds.                    *)
MCItem == [off : -1 .. MaxLog - 1, live : BOOLEAN]

MCHash == [k \in Key |-> {k % 2}]

MCLevelMax == [l \in 1 .. MaxLevel |-> 2 ^ (l - 1)]

=============================================================================
