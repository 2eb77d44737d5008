-------------------------- MODULE MCSSTableHandler --------------------------
(* Instances of SSTableHandler for TLC.                                    *)
EXTENDS SSTableHandler

MCItem == {[off |-> 1, live |-> TRUE], [off |-> 0, live |-> FALSE]}

(* One bit per key modulo 2: keys of the same parity collide, so the       *)
(* filter of a table says "maybe" for keys the table does not hold.        *)
MCHash == [k \in Key |-> {k % 2}]

(* The limits of the code, 1 << (l + 1), and a quarter of them, so that     *)
(* short runs reach level 3.                                               *)
CodeLevelMax == [l \in 1 .. MaxLevel |-> 2 ^ (l + 1)]

MCLevelMax == [l \in 1 .. MaxLevel |-> 2 ^ (l - 1)]

TightLevelMax == [l \in 1 .. MaxLevel |-> 1]

(* Bound: the mkdir for level 1 fails only while level 0 has one table too *)
(* many, so that level 0 does not grow for ever.                           *)
MCNext ==
  \/ TreeNext
  \/ \E l \in 0 .. MaxLevel : (l = 0 => Len(level0) <= Level0Max + 1) /\ MkdirFails(l)

MCSpec == TreeInit /\ [][MCNext]_treeVars
=============================================================================
