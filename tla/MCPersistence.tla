--------------------------- MODULE MCPersistence ---------------------------
(* Instances of Persistence for TLC.                                       *)
EXTENDS Persistence

MCItem == {[off |-> 1, live |-> TRUE], [off |-> 0, live |-> FALSE]}

MCHash == [k \in Key |-> {k % 2}]

MCLevelMax == [l \in 1 .. MaxLevel |-> 2 ^ (l - 1)]
=============================================================================
