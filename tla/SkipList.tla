------------------------------ MODULE SkipList ------------------------------
(***************************************************************************)
(* The skip list under the MemTable (src/src/memtable/skiplist.cc).        *)
(*                                                                         *)
(* A node is named by its key, which no two nodes share; the head is a     *)
(* node of its own with the full height.  forward[n] has one pointer per   *)
(* level of the node n, counted from 0.  A call runs to its end before the *)
(* next one starts, so each is one action.                                 *)
(***************************************************************************)
EXTENDS ListKeys, Integers, Sequences, FiniteSetsExt, Functions

CONSTANTS
  Value,      \* the strings put
  Empty,      \* ""
  HeadNode, NullPtr,  \* the head node and nullptr
  MaxHeight   \* max_level, the height of the head

ASSUME ListAssumption ==
  /\ MaxHeight \in Nat \ {0}
  /\ HeadNode \notin Key /\ NullPtr \notin Key /\ HeadNode # NullPtr

VARIABLES
  forward,    \* the nodes and their pointers
  value,      \* the strings of the nodes
  size        \* number of nodes, as the list counts them

listVars == <<forward, value, size>>

Levels == 0 .. MaxHeight - 1

Nodes == DOMAIN forward \ {HeadNode}

(* The nodes that reach level i.                                           *)
OnLevel(i) == {n \in DOMAIN forward : i \in DOMAIN forward[n]}

ListTypeOK ==
  /\ Nodes \subseteq Key
  /\ forward \in [{HeadNode} \cup Nodes -> UNION {[0 .. h - 1 -> Key \cup {NullPtr}] : h \in 1 .. MaxHeight}]
  /\ DOMAIN forward[HeadNode] = Levels
  /\ value \in [Nodes -> Value]
  /\ size \in Nat

EmptyList == [n \in {HeadNode} |-> [i \in Levels |-> NullPtr]]

ListInit ==
  /\ forward = EmptyList
  /\ value = [n \in {} |-> Empty]
  /\ size = 0

----------------------------------------------------------------------------
(* Walking.                                                                *)

(* Along level i from the node n to the last node before the key k.        *)
StopsAt(m, k, i) == forward[m][i] = NullPtr \/ forward[m][i] >= k

Along(k, i, n) ==
  LET step[m \in OnLevel(i)] == IF StopsAt(m, k, i) THEN m ELSE step[forward[m][i]]
  IN  step[n]

(* update[i]: down from the top level, each level from where the one above *)
(* has stopped.                                                            *)
Update(k) ==
  LET update[i \in Levels] ==
        Along(k, i, IF i = MaxHeight - 1 THEN HeadNode ELSE update[i + 1])
  IN  update

(* The first node whose key is not less than k.                            *)
AtOrAfter(k) == forward[Update(k)[0]][0]

Get(k) == IF AtOrAfter(k) = k THEN value[k] ELSE Empty

(* The nodes from n on level 0 while their keys are at most hi.            *)
PairsBefore(n, hi) ==
  LET list[m \in Nodes \cup {NullPtr}] ==
        IF m = NullPtr \/ m >= hi THEN <<>> ELSE <<<<m, value[m]>>>> \o list[forward[m][0]]
  IN  list[n]

PairsFrom(n, hi) ==
  LET list[m \in Nodes \cup {NullPtr}] ==
        IF m = NullPtr \/ m > hi THEN <<>> ELSE <<<<m, value[m]>>>> \o list[forward[m][0]]
  IN  list[n]

Scan(lo, hi) == PairsFrom(AtOrAfter(lo), hi)

GetList == PairsFrom(forward[HeadNode][0], Max(Key))

----------------------------------------------------------------------------
(* Changing the list.                                                      *)

OverwriteNext(k, v) ==
  /\ AtOrAfter(k) # NullPtr
  /\ value' = [value EXCEPT ![AtOrAfter(k)] = v]
  /\ UNCHANGED <<forward, size>>

OverwriteCounted(k, v) ==
  /\ AtOrAfter(k) = k
  /\ value' = [value EXCEPT ![k] = v]
  /\ size' = size + 1
  /\ UNCHANGED forward

Overwrite(k, v) ==
  /\ AtOrAfter(k) = k
  /\ value' = [value EXCEPT ![k] = v]
  /\ UNCHANGED <<forward, size>>

(* A new node of a random height h is linked after update[i] on each of    *)
(* its levels.                                                             *)
LinkedBelowTop(k, h) ==
  LET update == Update(k)
  IN  [n \in DOMAIN forward \cup {k} |->
         IF n = k THEN [i \in 0 .. h - 1 |-> forward[update[i]][i]]
         ELSE [i \in DOMAIN forward[n] |->
                 IF i < h - 1 /\ update[i] = n THEN k ELSE forward[n][i]]]

Linked(k, h) ==
  LET update == Update(k)
  IN  [n \in DOMAIN forward \cup {k} |->
         IF n = k THEN [i \in 0 .. h - 1 |-> forward[update[i]][i]]
         ELSE [i \in DOMAIN forward[n] |->
                 IF i < h /\ update[i] = n THEN k ELSE forward[n][i]]]

Insert(k, v, h) ==
  /\ AtOrAfter(k) # k
  /\ forward' = Linked(k, h)
  /\ value' = [n \in Nodes \cup {k} |-> IF n = k THEN v ELSE value[n]]
  /\ size' = size + 1

Put(k, v) == Overwrite(k, v) \/ \E h \in 1 .. MaxHeight : Insert(k, v, h)

(* The node is taken out level by level from below, up to the first level  *)
(* that does not lead to it.                                               *)
Unlinked(k) ==
  LET update == Update(k)
      top    == Min({MaxHeight} \cup {i \in Levels : forward[update[i]][i] # k})
  IN  [n \in DOMAIN forward \ {k} |->
         [i \in DOMAIN forward[n] |->
            IF i < top /\ update[i] = n THEN forward[k][i] ELSE forward[n][i]]]

DelKeepingValue(k) ==
  /\ AtOrAfter(k) = k
  /\ forward' = Unlinked(k)
  /\ size' = size - 1
  /\ UNCHANGED value

Del(k) ==
  /\ AtOrAfter(k) = k
  /\ forward' = Unlinked(k)
  /\ value' = Restrict(value, Nodes \ {k})
  /\ size' = size - 1

(* MemTable::clean makes a new list.                                       *)
Clean ==
  /\ forward' = EmptyList
  /\ value' = [n \in {} |-> Empty]
  /\ size' = 0

ListNext ==
  \/ \E k \in Key : Del(k) \/ \E v \in Value : Put(k, v)
  \/ Clean

ListSpec == ListInit /\ [][ListNext]_listVars

----------------------------------------------------------------------------
(* Properties.                                                             *)

(* Every level links exactly the nodes that reach it, in ascending order:  *)
(* the walk of put, get, scan and del never stands on a node that lacks    *)
(* the level it walks on, never meets a deleted node and never passes the  *)
(* node it looks for, whatever heights the nodes drew.                     *)
LevelsLinked ==
  \A i \in Levels : \A n \in OnLevel(i) :
    LET after == {m \in OnLevel(i) \ {HeadNode} : n = HeadNode \/ m > n}
    IN  forward[n][i] = IF after = {} THEN NullPtr ELSE Min(after)

(* The count that makes KVStore::put flush is the number of keys.          *)
SizeCounts == size = Cardinality(Nodes)

(* scan returns the pairs between two keys and getList all of them, once   *)
(* each and in ascending order, the order vLog::append and the binary      *)
(* searches of a table rely on.                                            *)
ScansAscend ==
  \A lo, hi \in Key :
    LET list == Scan(lo, hi)
    IN  /\ \A i, j \in DOMAIN list : i < j => list[i][1] < list[j][1]
        /\ Range(list) = {<<k, Get(k)>> : k \in {j \in Nodes : lo <= j /\ j <= hi}}
        /\ lo = Min(Key) /\ hi = Max(Key) => GetList = list

(* The list implements the map the store takes the MemTable for: a call    *)
(* changes the answer for its own key, as it should, and for no other.     *)
Mem == INSTANCE MemMap WITH memtable <- [k \in {j \in Key : AtOrAfter(j) = j} |-> Get(k)]

CallsTakeEffect ==
  [][/\ Clean => Mem!Clean
     /\ \A k \in Key :
          /\ Del(k) => Mem!Del(k)
          /\ \A v \in Value : Put(k, v) => Mem!Put(k, v)]_<<forward, value, size>>
=============================================================================
