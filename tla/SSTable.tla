------------------------------ MODULE SSTable ------------------------------
(***************************************************************************)
(* One sorted string table and the arithmetic of a compaction, without any *)
(* state: src/src/sstable/sstable.cc, src/src/utils/bloomFilter.cc and the *)
(* parts of src/src/sstable/SSTableHandler.cc that compute a merge.        *)
(*                                                                         *)
(* A table is the record of its timestamp and of its items, a function     *)
(* from its keys to the place of each value in the value log.  The header  *)
(* fields the code stores next to the items (pairNum, smallestKey,         *)
(* largestKey, bloomFilter) are always computed from the items when a      *)
(* table is built, so they are operators here.                             *)
(***************************************************************************)
EXTENDS Integers, FiniteSets, FiniteSetsExt, Functions

CONSTANTS
  Key,                \* the keys the instance uses
  KeySpace,           \* number of uint64_t values, 2^64 in the code
  HalfInt,            \* number of non-negative int values, 2^31 in the code
  Sentinel,           \* the key SSTable::getOffset returns for "absent" (INT64_MAX)
  Hash,               \* the Bloom filter positions of each key (MurmurHash3 per seed)
  Item,               \* the items of the instance, a subset of ItemType
  MemtableThreshold   \* MEMTABLE_THRESHOLD, most items of one table (408)

(* An item: the offset of the value in the log and whether vlen is not 0.  *)
(* A deletion has offset 0 and vlen 0 (vLog::append skips it).             *)
ItemType == [off : Int, live : BOOLEAN]

ASSUME KeyAssumption ==
  /\ KeySpace \in Nat
  /\ Key \subseteq 0 .. KeySpace - 1

ASSUME IntAssumption ==
  /\ HalfInt \in Nat \ {0}
  /\ 2 * HalfInt <= KeySpace

ASSUME ItemAssumption == Item \subseteq ItemType

ASSUME ThresholdAssumption == MemtableThreshold \in Nat \ {0}

(* What the second and third member of getOffset's answer are for an       *)
(* absent key.                                                             *)
AbsentItem == [off |-> 0, live |-> FALSE]

(* The non-empty item lists of tables.                                     *)
Runs == UNION {[D -> Item] : D \in (SUBSET Key) \ {{}}}

(* The item lists a MemTable can turn into: it is flushed as soon as it    *)
(* has MemtableThreshold keys.                                             *)
MemtableKeys ==
  {D \in (SUBSET Key) \ {{}} : Cardinality(D) <= MemtableThreshold}

MemtableRuns == UNION {[D -> Item] : D \in MemtableKeys}

Table == [time : Nat, items : Runs]

----------------------------------------------------------------------------
(* A single table.                                                         *)

Keys(t) == DOMAIN t.items

SmallestKey(t) == Min(Keys(t))

LargestKey(t) == Max(Keys(t))

Bloom(t) == UNION {Hash[k] : k \in Keys(t)}

(* check_bloom_filter: every position of the key is set.                   *)
CheckBloomFilter(t, k) == Hash[k] \subseteq Bloom(t)

(* The range and Bloom test every look-up makes before the binary search.  *)
MayHold(t, k) ==
  /\ SmallestKey(t) <= k
  /\ k <= LargestKey(t)
  /\ CheckBloomFilter(t, k)

(* The binary search answers with the tuple of the key, or with the tuple  *)
(* of Sentinel; the caller takes the answer for a hit when its first       *)
(* member is the key it asked for, which is also so for Sentinel itself.   *)
Stops(t, k) == MayHold(t, k) /\ (k \in Keys(t) \/ k = Sentinel)

ItemOf(t, k) == IF k \in Keys(t) THEN t.items[k] ELSE AbsentItem

----------------------------------------------------------------------------
(* Age of tables.                                                          *)

(* The comparison of every std::sort of tables: by timestamp, then by the  *)
(* smallest key.                                                           *)
Before(t, u) ==
  \/ t.time < u.time
  \/ t.time = u.time /\ SmallestKey(t) < SmallestKey(u)

BeforeReversed(t, u) ==
  \/ t.time > u.time
  \/ t.time = u.time /\ SmallestKey(t) < SmallestKey(u)

(* The last table of the sorted S.                                         *)
Youngest(S) == CHOOSE t \in S : \A u \in S \ {t} : Before(u, t)

(* The first n tables of the sorted S.                                     *)
OldestFromTheBack(S, n) == {t \in S : Cardinality({u \in S : Before(t, u)}) < n}

Oldest(S, n) == {t \in S : Cardinality({u \in S : Before(u, t)}) < n}

YoungestTime(S) == Max({t.time : t \in S})

----------------------------------------------------------------------------
(* The key interval of a compaction.                                       *)

(* `int j = getSmallestKey()` compared with a uint64_t: the key loses its  *)
(* upper bits and the sign of what is left is extended.                    *)
AsInt(k) ==
  LET low == k % (2 * HalfInt)
  IN  IF k < HalfInt THEN k
      ELSE IF low < HalfInt THEN low
      ELSE KeySpace - 2 * HalfInt + low

(* The keys for which AsInt changes nothing.                               *)
KeysFitInt == \A k \in Key : k < HalfInt

HullLow(S) == Min({AsInt(SmallestKey(t)) : t \in S})

HullHigh(S) == Max({AsInt(LargestKey(t)) : t \in S})

OverlapsStrictly(t, low, high) == SmallestKey(t) < high /\ LargestKey(t) > low

Overlaps(t, low, high) == SmallestKey(t) <= high /\ LargestKey(t) >= low

(* The tables of the level L that meet the key interval of `moved`.        *)
Meeting(L, moved) == {t \in L : Overlaps(t, HullLow(moved), HullHigh(moved))}

----------------------------------------------------------------------------
(* Merging and splitting.                                                  *)

Holders(S, k) == {t \in S : k \in Keys(t)}

MergedKeys(S) == UNION {Keys(t) : t \in S}

(* Writing the items of the sorted tables one after the other into a       *)
(* std::map: the last writer of a key wins.                                *)
MergeItems(S) ==
  [k \in MergedKeys(S) |-> Youngest(Holders(S, k)).items[k]]

(* The items of `upper` written over those of `lower`.                     *)
LowerWins(upper, lower) ==
  [k \in DOMAIN upper \cup DOMAIN lower |->
     IF k \in DOMAIN lower THEN lower[k] ELSE upper[k]]

Overlay(upper, lower) ==
  [k \in DOMAIN upper \cup DOMAIN lower |->
     IF k \in DOMAIN upper THEN upper[k] ELSE lower[k]]

(* Deletions (vlen = 0) are dropped when the target level is a new one.    *)
DropDeadAnywhere(items, isLastLevel) ==
  Restrict(items, {k \in DOMAIN items : items[k].live})

DropDead(items, isLastLevel) ==
  Restrict(items, {k \in DOMAIN items : isLastLevel => items[k].live})

Rank(K, k) == Cardinality({j \in K : j < k})

(* The keys in ascending order, cut after every MemtableThreshold keys; a  *)
(* last table takes the rest, and none is made when nothing is left.       *)
Block(K, k) == Rank(K, k) \div MemtableThreshold

Blocks(K) == {{j \in K : Block(K, j) = Block(K, k)} : k \in K}

BuildTablesAndEmptyTail(items, time) ==
  {[time |-> time, items |-> Restrict(items, B)] :
     B \in Blocks(DOMAIN items) \cup {{}}}

BuildTables(items, time) ==
  {[time |-> time, items |-> Restrict(items, B)] : B \in Blocks(DOMAIN items)}
=============================================================================
