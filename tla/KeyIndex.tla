------------------------------ MODULE KeyIndex ------------------------------
(***************************************************************************)
(* What a caller may rely on from SSTableHandler: an index from keys to    *)
(* the item written last.  A flush overwrites the entries of the keys of   *)
(* one MemTable, a reset forgets all of them, and nothing else changes     *)
(* any: compaction is invisible.                                           *)
(***************************************************************************)
EXTENDS SSTable

VARIABLES
  index,    \* the live item of each key, or NoItem
  flushes   \* the number of flushes so far

NoItem == [off |-> -1, live |-> FALSE]

(* Deletions are indistinguishable from keys that were never written.      *)
Shown(item) == IF item.live THEN item ELSE NoItem

Init ==
  /\ index = [k \in Key |-> NoItem]
  /\ flushes = 0

Flush(items) ==
  /\ flushes' = flushes + 1
  /\ index' = [k \in Key |-> IF k \in DOMAIN items THEN Shown(items[k]) ELSE index[k]]

Reset ==
  /\ UNCHANGED flushes
  /\ index' = [k \in Key |-> NoItem]

Next == Reset \/ \E items \in MemtableRuns : Flush(items)

Spec == Init /\ [][Next]_<<index, flushes>>
=============================================================================
