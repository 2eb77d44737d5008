------------------------------- MODULE KVScan -------------------------------
(***************************************************************************)
(* KVStore::scan over the state of KVStore: SSTableHandler::scan followed  *)
(* by MemTable::scan.  A scan changes nothing, so it is an operator; the   *)
(* property states what its list looks like in every reachable state.      *)
(***************************************************************************)
EXTENDS KVStore

(* Where a table is: a level and, in level 0, its index, below it itself.  *)
Places ==
  {<<0, i>> : i \in DOMAIN level0}
    \cup UNION {{<<l, t>> : t \in deeper[l]} : l \in DOMAIN deeper}

TableAt(p) == IF p[1] = 0 THEN level0[p[2]] ELSE p[2]

(* SSTableHandler::scan visits the levels from above, and the tables of a  *)
(* level from the back.                                                    *)
BehindIt(p, q) ==
  IF p[1] = 0 THEN p[2] > q[2] ELSE Before(q[2], p[2])

VisitedDeepestFirst(p, q) ==
  p[1] > q[1] \/ (p[1] = q[1] /\ BehindIt(p, q))

VisitedBefore(p, q) ==
  p[1] < q[1] \/ (p[1] = q[1] /\ BehindIt(p, q))

(* A tuple of the list is its place and its key; std::list::sort by key    *)
(* keeps the order of visiting for equal keys.                             *)
Found(lo, hi) ==
  {x \in Places \X {k \in Key : lo <= k /\ k <= hi} : x[2] \in Keys(TableAt(x[1]))}

ListedBefore(x, y) ==
  x[2] < y[2] \/ (x[2] = y[2] /\ VisitedBefore(x[1], y[1]))

(* The tuples in their order, with the value of each read from the log.    *)
PairOf(x) == <<x[2], ReadItem(TableAt(x[1]).items[x[2]])>>

ScanTables(lo, hi) ==
  LET found == Found(lo, hi)
      at(i) == CHOOSE x \in found : Cardinality({y \in found : ListedBefore(y, x)}) = i - 1
  IN  [i \in 1 .. Cardinality(found) |-> PairOf(at(i))]

(* The pairs of the MemTable as they are, deletions included.              *)
ScanMemTable(lo, hi) ==
  LET keys  == {k \in DOMAIN memtable : lo <= k /\ k <= hi}
      at(i) == CHOOSE k \in keys : Rank(keys, k) = i - 1
  IN  [i \in 1 .. Cardinality(keys) |-> <<at(i), memtable[at(i)]>>]

Scan(lo, hi) == ScanTables(lo, hi) \o ScanMemTable(lo, hi)

----------------------------------------------------------------------------

(* What a string says when "~DELETED~" is read as a deletion.              *)
Told(value) == IF value = Deleted THEN Empty ELSE value

(* A scan and get agree: what get answers for a key between the bounds is  *)
(* the string of the pair that the MemTable's half of the list has for it, *)
(* unless there is none or it is empty; then it is the first pair of the   *)
(* key in the tables' half, or nothing when that has none.  The tables'    *)
(* half is in the order of the keys, and the sort being stable, what get   *)
(* finds comes first among the pairs of a key.                             *)
(*                                                                         *)
(* This is not what the comment on scan and kvstore_api.h promise          *)
(* (kvstore.cc:73-77): the list has a key once for every table and once    *)
(* more for the MemTable, it starts again at the border between the        *)
(* halves, and it shows deletions.  The list does not say where the border *)
(* is: <<1, a>>, <<1, b>> from two tables means a, and from a table and    *)
(* the MemTable it means b.                                                *)
ScanHalvesHoldAnswers ==
  pc = "ready" => \A lo, hi \in Key : \A k \in {j \in Key : lo <= j /\ j <= hi} :
    LET pairs  == Scan(lo, hi)
        border == Len(ScanTables(lo, hi))
        older  == {i \in 1 .. border : pairs[i][1] = k}
        newer  == {i \in border + 1 .. Len(pairs) : pairs[i][1] = k}
    IN  /\ \A i \in newer : pairs[i][2] # Empty => Get(k) = Told(pairs[i][2])
        /\ (\A i \in newer : pairs[i][2] = Empty) =>
             Get(k) = IF older = {} THEN Empty ELSE pairs[Min(older)][2]
=============================================================================
