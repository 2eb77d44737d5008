------------------------------ MODULE MCKVScan ------------------------------
(* The instances of KVStore for TLC, with scan.                            *)
EXTENDS KVScan, MCKVStore
=============================================================================
