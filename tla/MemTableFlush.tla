--------------------------- MODULE MemTableFlush ---------------------------
(***************************************************************************)
(* A MemTable and the table it is flushed into: the pairs getList reads    *)
(* off the skip list become the items the binary searches of the table     *)
(* work on (convertMemTableToSSTable in                                    *)
(* src/src/sstable/SSTableHandler.cc, then MemTable::clean).  What a tuple *)
(* holds besides its key stands for the value the pair had.                *)
(***************************************************************************)
EXTENDS TableSearch, SkipList

ASSUME FlushAssumption == Value \subseteq Payload

flushVars == <<searchVars, listVars>>

FlushInit == SearchInit /\ ListInit

(* keyOffsetTable has one tuple for each pair of the list, in its order.   *)
AllButLastPair ==
  [i \in 1 .. Len(GetList) - 1 |-> [key |-> GetList[i][1], payload |-> GetList[i][2]]]

KeyOffsetTable ==
  [i \in DOMAIN GetList |-> [key |-> GetList[i][1], payload |-> GetList[i][2]]]

FlushMemTable ==
  /\ Nodes # {}
  /\ Load(KeyOffsetTable)
  /\ Clean

(* Bound: one MemTable is filled and flushed, and then its table searched. *)
MemTableCall == item = <<>> /\ ListNext /\ UNCHANGED searchVars

TableCall == Ask /\ UNCHANGED listVars

SearchOnly == SearchStep /\ UNCHANGED listVars

FlushNext == MemTableCall \/ FlushMemTable \/ TableCall \/ SearchOnly

(* A search that has begun goes on; nobody has to begin one.               *)
FlushSpec == FlushInit /\ [][FlushNext]_flushVars /\ WF_flushVars(SearchOnly)

(* What the MemTable has answered, the table made of it answers: one tuple *)
(* for each of its keys, with the value get found there.                   *)
FlushKeepsPairs ==
  [][FlushMemTable =>
       /\ Len(item') = size
       /\ \A k \in Nodes : \E i \in DOMAIN item' :
            item'[i] = [key |-> k, payload |-> Get(k)]]_flushVars
=============================================================================
