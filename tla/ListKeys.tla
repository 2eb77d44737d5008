------------------------------ MODULE ListKeys ------------------------------
(***************************************************************************)
(* The keys the MemTable and the tables made of it share: uint64_t.        *)
(***************************************************************************)
EXTENDS Naturals, FiniteSets

CONSTANT Key    \* the keys of the instance

ASSUME KeysAreNumbers == Key \subseteq Nat /\ IsFiniteSet(Key)
=============================================================================
