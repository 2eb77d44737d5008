--------------------------- MODULE MCDurableStore ---------------------------
(* Instances of DurableStore for TLC, with the values of MCKVStore.        *)
EXTENDS DurableStore, MCKVStore
=============================================================================
