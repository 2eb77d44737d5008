--------------------------- MODULE SSTable_proofs ---------------------------
(***************************************************************************)
(* Lemmas on the operators of SSTable: what the bounds of a table, a       *)
(* look-up, a merge and a split of its result are, for tables over any     *)
(* keys.                                                                   *)
(***************************************************************************)
EXTENDS SSTable, FiniteSetTheorems, WellFoundedInduction, TLAPS

(* The least element of a set of naturals.                                 *)
LEMMA MinExists ==
  ASSUME NEW S \in SUBSET Nat, S # {}
  PROVE  \E m \in S : \A x \in S : m <= x
<1> DEFINE R == OpToRel(<, Nat)
<1>1. IsWellFoundedOn(R, Nat)
  BY NatLessThanWellFounded
<1>2. ASSUME NEW x \in Nat, NEW y \in Nat, x < y
      PROVE  <<x, y>> \in R
  BY <1>2 DEF OpToRel
<1> HIDE DEF R
<1>3. PICK m \in S : \A x \in S : ~(<<x, m>> \in R)
  BY <1>1, WFMin
<1>4. ASSUME NEW x \in S
      PROVE  ~(x < m)
  BY <1>2, <1>3
<1> QED BY <1>4

LEMMA MinOfSet ==
  ASSUME NEW S \in SUBSET Nat, S # {}
  PROVE  Min(S) \in S /\ \A x \in S : Min(S) <= x
BY MinExists DEF Min

(* The greatest element of a bounded set of naturals.                      *)
LEMMA MaxExists ==
  ASSUME NEW S \in SUBSET Nat, S # {}, NEW b \in Nat, \A x \in S : x <= b
  PROVE  \E m \in S : \A x \in S : m >= x
<1> DEFINE T == {b - x : x \in S}
<1>1. T \in SUBSET Nat /\ T # {}
  <2>1. ASSUME NEW x \in S
        PROVE  b - x \in Nat
    OBVIOUS
  <2>2. T # {}
    OBVIOUS
  <2> QED BY <2>1, <2>2
<1>2. PICK m \in T : \A y \in T : m <= y
  <2> HIDE DEF T
  <2> QED BY <1>1, MinExists
<1>3. PICK x \in S : m = b - x
  OBVIOUS
<1>4. ASSUME NEW y \in S
      PROVE  x >= y
  <2>1. b - y \in T
    OBVIOUS
  <2> QED BY <2>1, <1>2, <1>3
<1> QED BY <1>4

LEMMA MaxOfSet ==
  ASSUME NEW S \in SUBSET Nat, S # {}, NEW b \in Nat, \A x \in S : x <= b
  PROVE  Max(S) \in S /\ \A x \in S : Max(S) >= x
BY MaxExists DEF Max

----------------------------------------------------------------------------
(* Keys and tables.                                                        *)

LEMMA KeysAreNat == Key \subseteq Nat /\ \A k \in Key : k <= KeySpace
BY KeyAssumption

(* A table has at least one key, and its bounds are the extreme ones.      *)
LEMMA TableKeys ==
  ASSUME NEW t \in Table
  PROVE  /\ Keys(t) \in SUBSET Key
         /\ Keys(t) # {}
         /\ t.time \in Nat
         /\ t.items \in [Keys(t) -> Item]
         /\ SmallestKey(t) \in Keys(t)
         /\ LargestKey(t) \in Keys(t)
         /\ \A k \in Keys(t) : SmallestKey(t) <= k /\ k <= LargestKey(t)
         /\ SmallestKey(t) \in Nat
         /\ LargestKey(t) \in Nat
<1>1. t.time \in Nat /\ t.items \in Runs
  BY DEF Table
<1>2. PICK D \in (SUBSET Key) \ {{}} : t.items \in [D -> Item]
  BY <1>1 DEF Runs
<1>3. Keys(t) = D
  BY <1>2 DEF Keys
<1>4. Keys(t) \in SUBSET Nat /\ \A x \in Keys(t) : x <= KeySpace
  BY <1>3, KeysAreNat
<1>5. SmallestKey(t) \in Keys(t) /\ \A x \in Keys(t) : SmallestKey(t) <= x
  BY <1>3, <1>4, MinOfSet DEF SmallestKey
<1>6. LargestKey(t) \in Keys(t) /\ \A x \in Keys(t) : LargestKey(t) >= x
  BY <1>3, <1>4, MaxOfSet, KeyAssumption DEF LargestKey
<1>7. \A k \in Keys(t) : SmallestKey(t) <= k /\ k <= LargestKey(t)
  BY <1>4, <1>5, <1>6
<1> QED BY <1>1, <1>2, <1>3, <1>4, <1>5, <1>6, <1>7

(* Among tables whose timestamps differ, Youngest is the newest.           *)
LEMMA YoungestOfDistinct ==
  ASSUME NEW S \in SUBSET Table, S # {},
         NEW b \in Nat, \A t \in S : t.time <= b,
         \A t, u \in S : t # u => t.time # u.time
  PROVE  Youngest(S) \in S /\ \A u \in S : u.time <= Youngest(S).time
<1> DEFINE T == {t.time : t \in S}
<1>1. T \in SUBSET Nat /\ T # {} /\ \A x \in T : x <= b
  BY TableKeys
<1>2. PICK m \in T : \A x \in T : m >= x
  <2> HIDE DEF T
  <2> QED BY <1>1, MaxExists
<1>3. PICK t \in S : t.time = m
  OBVIOUS
<1>4. ASSUME NEW u \in S
      PROVE  u.time <= m /\ (u # t => u.time < m)
  <2>1. u.time \in T /\ u.time \in Nat /\ m \in Nat
    BY <1>1
  <2>2. u # t => u.time # t.time
    OBVIOUS
  <2> QED BY <2>1, <2>2, <1>2, <1>3
<1>5. \A u \in S \ {t} : Before(u, t)
  BY <1>3, <1>4 DEF Before
<1>6. \A u \in S \ {Youngest(S)} : Before(u, Youngest(S))
  BY <1>5 DEF Youngest
<1>7. Youngest(S) \in S
  BY <1>5 DEF Youngest
<1>8. ASSUME NEW u \in S
      PROVE  u.time <= Youngest(S).time
  BY <1>6, <1>7, <1>8, TableKeys DEF Before
<1> QED BY <1>7, <1>8

(* A set of tables has a newest timestamp when they are bounded.           *)
LEMMA YoungestTimeOfSet ==
  ASSUME NEW S \in SUBSET Table, S # {}, NEW b \in Nat, \A t \in S : t.time <= b
  PROVE  /\ \E t \in S : YoungestTime(S) = t.time
         /\ \A t \in S : t.time <= YoungestTime(S)
         /\ YoungestTime(S) \in Nat
<1> DEFINE T == {t.time : t \in S}
<1>1. T \in SUBSET Nat /\ T # {} /\ \A x \in T : x <= b
  BY TableKeys
<1>2. Max(T) \in T /\ \A x \in T : Max(T) >= x
  <2> HIDE DEF T
  <2> QED BY <1>1, MaxOfSet
<1>3. YoungestTime(S) = Max(T)
  BY DEF YoungestTime
<1> HIDE DEF T
<1>4. YoungestTime(S) \in T /\ \A x \in T : x <= YoungestTime(S) /\ YoungestTime(S) \in Nat
  BY <1>1, <1>2, <1>3
<1> USE DEF T
<1> QED BY <1>4, TableKeys

(* A look-up takes a table for a holder of the key exactly when it is one: *)
(* the range and Bloom tests let every key of the table pass.              *)
LEMMA StopsIffHolds ==
  ASSUME Sentinel \notin Key, NEW t \in Table, NEW k \in Key
  PROVE  Stops(t, k) <=> k \in Keys(t)
<1>1. ASSUME k \in Keys(t)
      PROVE  MayHold(t, k)
  <2>1. Hash[k] \subseteq Bloom(t)
    BY <1>1 DEF Bloom
  <2> QED BY <1>1, <2>1, TableKeys DEF MayHold, CheckBloomFilter
<1> QED BY <1>1 DEF Stops

----------------------------------------------------------------------------
(* Ranks and blocks.                                                       *)

LEMMA KeySetFinite ==
  ASSUME NEW K \in SUBSET Key
  PROVE  IsFiniteSet(K)
BY FS_BoundedSetOfNaturals, KeysAreNat, KeyAssumption

LEMMA RankMonotone ==
  ASSUME NEW K \in SUBSET Key, NEW a \in K, NEW b \in K, a < b
  PROVE  Rank(K, a) < Rank(K, b)
<1> DEFINE A == {j \in K : j < a}
           B == {j \in K : j < b}
<1>1. A \in SUBSET B /\ A # B /\ B \in SUBSET K
  <2>1. \A j \in K : j \in Nat
    BY KeysAreNat
  <2>2. \A j \in A : j \in B
    BY <2>1
  <2>3. a \in B /\ a \notin A
    BY <2>1
  <2> QED BY <2>2, <2>3
<1>2. IsFiniteSet(B)
  BY <1>1, FS_Subset, KeySetFinite
<1>3. IsFiniteSet(A) /\ Cardinality(A) <= Cardinality(B) /\ Cardinality(A) # Cardinality(B)
  BY <1>1, <1>2, FS_Subset
<1>4. Cardinality(A) \in Nat /\ Cardinality(B) \in Nat
  BY <1>2, <1>3, FS_CardinalityType
<1> QED BY <1>3, <1>4 DEF Rank

LEMMA RankType ==
  ASSUME NEW K \in SUBSET Key, NEW a \in K
  PROVE  Rank(K, a) \in Nat
<1> DEFINE A == {j \in K : j < a}
<1>1. IsFiniteSet(A)
  BY FS_Subset, KeySetFinite
<1> QED BY <1>1, FS_CardinalityType DEF Rank

(* Blocks follow each other in key order.                                  *)
LEMMA BlockMonotone ==
  ASSUME NEW K \in SUBSET Key, NEW a \in K, NEW b \in K, Block(K, a) < Block(K, b)
  PROVE  a < b
<1> DEFINE n == MemtableThreshold
           r == Rank(K, a)
           s == Rank(K, b)
<1>1. r \in Nat /\ s \in Nat /\ n \in Nat \ {0} /\ a \in Nat /\ b \in Nat
  BY RankType, ThresholdAssumption, KeysAreNat
<1>2. r \div n < s \div n
  BY DEF Block
<1>3. r < s
  <2> HIDE DEF r, s, n
  <2>1. n * (r \div n) <= r /\ r < n * ((r \div n) + 1) /\ r \div n \in Nat
    BY <1>1
  <2>2. n * (s \div n) <= s /\ s \div n \in Nat
    BY <1>1
  <2>3. (r \div n) + 1 <= s \div n
    BY <1>2, <2>1, <2>2
  <2>4. n * ((r \div n) + 1) <= n * (s \div n)
    BY <2>1, <2>2, <2>3, <1>1
  <2> QED BY <2>1, <2>2, <2>4, <1>1
<1>4. a # b
  BY <1>3, <1>1
<1>5. ~(b < a)
  BY <1>1, <1>3, RankMonotone
<1> QED BY <1>1, <1>4, <1>5

----------------------------------------------------------------------------
(* Splitting the result of a merge.                                        *)

(* The tables made of `items` are tables with the given time; they hold    *)
(* the given items and nothing else, and their key ranges follow each      *)
(* other without overlap.                                                  *)
LEMMA BuiltTables ==
  ASSUME NEW D \in SUBSET Key, NEW items \in [D -> Item], NEW time \in Nat
  PROVE  LET made == BuildTables(items, time)
         IN  /\ made \in SUBSET Table
             /\ IsFiniteSet(made)
             /\ \A t \in made : t.time = time
             /\ \A t \in made : \A k \in Keys(t) : k \in D /\ t.items[k] = items[k]
             /\ \A k \in D : \E t \in made : k \in Keys(t)
             /\ \A t, u \in made : t # u =>
                  LargestKey(t) < SmallestKey(u) \/ LargestKey(u) < SmallestKey(t)
<1> DEFINE made == BuildTables(items, time)
           Cut(B) == [time |-> time, items |-> Restrict(items, B)]
           BlockOf(k) == {j \in D : Block(D, j) = Block(D, k)}
<1>1. made = {Cut(B) : B \in Blocks(D)}
  BY DEF BuildTables
<1>2. Blocks(D) = {BlockOf(k) : k \in D}
  BY DEF Blocks
<1>3. ASSUME NEW k \in D
      PROVE  /\ Cut(BlockOf(k)) \in Table
             /\ Keys(Cut(BlockOf(k))) = BlockOf(k)
             /\ \A j \in BlockOf(k) : Cut(BlockOf(k)).items[j] = items[j]
  <2> DEFINE B == BlockOf(k)
  <2>1. B \in (SUBSET Key) \ {{}} /\ B \subseteq D
    OBVIOUS
  <2> HIDE DEF B
  <2>2. Restrict(items, B) = [x \in B |-> items[x]]
    BY DEF Restrict
  <2>3. Restrict(items, B) \in [B -> Item]
    BY <2>1, <2>2
  <2>4. Restrict(items, B) \in Runs
    BY <2>1, <2>3 DEF Runs
  <2>5. Cut(B) \in Table
    BY <2>4 DEF Table
  <2>6. Keys(Cut(B)) = B /\ \A j \in B : Cut(B).items[j] = items[j]
    BY <2>2 DEF Keys
  <2> QED BY <2>5, <2>6 DEF B
<1>4. ASSUME NEW t \in made
      PROVE  \E k \in D : t = Cut(BlockOf(k))
  BY <1>1, <1>2
<1>5. IsFiniteSet(made)
  <2> DEFINE f == [k \in D |-> Cut(BlockOf(k))]
  <2>1. \A k \in D : f[k] \in made
    BY <1>1, <1>2
  <2>2. f \in Surjection(D, made)
    BY <2>1, <1>4 DEF Surjection
  <2> HIDE DEF f, made
  <2> QED BY <2>2, FS_Surjection, KeySetFinite
<1>6. \A t \in made : t.time = time
  <2>1. \A B : Cut(B).time = time
    OBVIOUS
  <2> QED BY <1>4, <2>1
<1>7. \A k \in D : \E t \in made : k \in Keys(t)
  <2> TAKE k \in D
  <2>1. k \in BlockOf(k) /\ Cut(BlockOf(k)) \in made
    BY <1>1, <1>2
  <2> QED BY <2>1, <1>3
<1>8. ASSUME NEW t \in made, NEW u \in made, t # u
      PROVE  LargestKey(t) < SmallestKey(u) \/ LargestKey(u) < SmallestKey(t)
  <2>1. PICK i \in D : t = Cut(BlockOf(i))
    BY <1>4
  <2>2. PICK j \in D : u = Cut(BlockOf(j))
    BY <1>4
  <2>3. Block(D, i) # Block(D, j)
    BY <1>8, <2>1, <2>2
  <2>4. Block(D, i) \in Int /\ Block(D, j) \in Int
    BY RankType, ThresholdAssumption DEF Block
  <2>5. t \in Table /\ u \in Table /\ Keys(t) = BlockOf(i) /\ Keys(u) = BlockOf(j)
    BY <1>3, <2>1, <2>2
  <2>6. /\ LargestKey(t) \in BlockOf(i) /\ SmallestKey(t) \in BlockOf(i)
        /\ LargestKey(u) \in BlockOf(j) /\ SmallestKey(u) \in BlockOf(j)
    BY <2>5, TableKeys
  <2> QED BY <2>3, <2>4, <2>6, BlockMonotone
<1>9. made \in SUBSET Table /\ \A t \in made : \A k \in Keys(t) : k \in D /\ t.items[k] = items[k]
  BY <1>3, <1>4
<1> QED BY <1>5, <1>6, <1>7, <1>8, <1>9

----------------------------------------------------------------------------
(* Merging.                                                                *)

(* Tables that share a key have different timestamps.                      *)
Ranked(S) ==
  \A t, u \in S : \A k \in Keys(t) : k \in Keys(u) /\ t # u => t.time # u.time

(* A merge takes each key from the newest table that holds it.             *)
LEMMA MergedItems ==
  ASSUME NEW S \in SUBSET Table, NEW b \in Nat, \A t \in S : t.time <= b, Ranked(S)
  PROVE  /\ MergedKeys(S) \in SUBSET Key
         /\ MergeItems(S) \in [MergedKeys(S) -> Item]
         /\ \A k \in MergedKeys(S) : \E t \in S :
              /\ k \in Keys(t)
              /\ MergeItems(S)[k] = t.items[k]
              /\ \A u \in S : k \in Keys(u) => u.time <= t.time
<1> DEFINE D == MergedKeys(S)
<1>1. D \in SUBSET Key
  BY TableKeys DEF MergedKeys
<1>2. ASSUME NEW k \in D
      PROVE  /\ Youngest(Holders(S, k)) \in S
             /\ k \in Keys(Youngest(Holders(S, k)))
             /\ \A u \in S : k \in Keys(u) => u.time <= Youngest(Holders(S, k)).time
  <2> DEFINE H == Holders(S, k)
  <2>1. H \in SUBSET Table /\ H # {} /\ \A t \in H : t.time <= b
    BY DEF Holders, MergedKeys
  <2>2. \A t, u \in H : t # u => t.time # u.time
    BY DEF Holders, Ranked
  <2>3. Youngest(H) \in H /\ \A u \in H : u.time <= Youngest(H).time
    <3> HIDE DEF H
    <3> QED BY <2>1, <2>2, YoungestOfDistinct
  <2> QED BY <2>3 DEF Holders
<1>3. MergeItems(S) = [k \in D |-> Youngest(Holders(S, k)).items[k]]
  BY DEF MergeItems
<1>4. ASSUME NEW k \in D
      PROVE  Youngest(Holders(S, k)).items[k] \in Item
  BY <1>2, TableKeys
<1>5. MergeItems(S) \in [D -> Item]
  BY <1>3, <1>4
<1> QED BY <1>1, <1>2, <1>3, <1>5

(* Overlay and DropDead keep items of their arguments.                     *)
LEMMA OverlaidItems ==
  ASSUME NEW D, NEW E, NEW f \in [D -> Item], NEW g \in [E -> Item]
  PROVE  /\ Overlay(f, g) \in [D \cup E -> Item]
         /\ \A k \in D : Overlay(f, g)[k] = f[k]
         /\ \A k \in E \ D : Overlay(f, g)[k] = g[k]
BY DEF Overlay

----------------------------------------------------------------------------
(* The tables a compaction selects.                                        *)

(* The hull of a set of tables bounds their keys, for keys that fit an     *)
(* int.                                                                    *)
LEMMA HullBounds ==
  ASSUME KeysFitInt, NEW S \in SUBSET Table, S # {}
  PROVE  /\ HullLow(S) \in Nat
         /\ HullHigh(S) \in Nat
         /\ \A t \in S : \A k \in Keys(t) : HullLow(S) <= k /\ k <= HullHigh(S)
<1> DEFINE A == {AsInt(SmallestKey(t)) : t \in S}
           B == {AsInt(LargestKey(t)) : t \in S}
<1>1. ASSUME NEW t \in S
      PROVE  /\ AsInt(SmallestKey(t)) = SmallestKey(t)
             /\ AsInt(LargestKey(t)) = LargestKey(t)
             /\ SmallestKey(t) \in Nat
             /\ LargestKey(t) \in Nat
             /\ LargestKey(t) <= KeySpace
  BY TableKeys, KeysAreNat DEF AsInt, KeysFitInt
<1>2. /\ A \in SUBSET Nat /\ A # {} /\ B \in SUBSET Nat /\ B # {}
      /\ \A x \in B : x <= KeySpace
  BY <1>1
<1>3. HullLow(S) = Min(A) /\ HullHigh(S) = Max(B)
  BY DEF HullLow, HullHigh
<1>4. \A t \in S : SmallestKey(t) \in A /\ LargestKey(t) \in B
  BY <1>1
<1>5. /\ HullLow(S) \in A /\ \A x \in A : HullLow(S) <= x
      /\ HullHigh(S) \in B /\ \A x \in B : HullHigh(S) >= x
  <2> HIDE DEF A, B
  <2> QED BY <1>2, <1>3, MinOfSet, MaxOfSet, KeyAssumption
<1>6. HullLow(S) \in Nat /\ HullHigh(S) \in Nat
  BY <1>2, <1>5
<1>7. ASSUME NEW t \in S, NEW k \in Keys(t)
      PROVE  HullLow(S) <= k /\ k <= HullHigh(S)
  <2>1. SmallestKey(t) <= k /\ k <= LargestKey(t) /\ k \in Nat
    BY TableKeys, KeysAreNat
  <2> HIDE DEF A, B
  <2>2. HullLow(S) <= SmallestKey(t) /\ LargestKey(t) <= HullHigh(S)
    BY <1>4, <1>5, <1>6, <1>1
  <2> QED BY <2>1, <2>2, <1>6, <1>1
<1> QED BY <1>6, <1>7

(* No two tables of a level share a part of the key range.                 *)
Disjoint(L) ==
  \A t, u \in L :
    t # u => LargestKey(t) < SmallestKey(u) \/ LargestKey(u) < SmallestKey(t)

(* In such a level, a key is in at most one table.                         *)
LEMMA DisjointHolder ==
  ASSUME NEW L \in SUBSET Table, Disjoint(L), NEW t \in L, NEW u \in L,
         NEW k \in Keys(t), k \in Keys(u)
  PROVE  t = u
<1>1. /\ SmallestKey(t) <= k /\ k <= LargestKey(t)
      /\ SmallestKey(u) <= k /\ k <= LargestKey(u)
      /\ k \in Nat
      /\ SmallestKey(t) \in Nat /\ LargestKey(t) \in Nat
      /\ SmallestKey(u) \in Nat /\ LargestKey(u) \in Nat
  BY TableKeys, KeysAreNat
<1> QED BY <1>1 DEF Disjoint

(* A table of a level that a compaction does not select lies on one side   *)
(* of all keys it merges.                                                  *)
LEMMA UnselectedApart ==
  ASSUME KeysFitInt,
         NEW moved \in SUBSET Table, moved # {},
         NEW L \in SUBSET Table, Disjoint(L),
         NEW t \in L, ~Overlaps(t, HullLow(moved), HullHigh(moved))
  PROVE  \/ \A u \in Meeting(L, moved) \cup moved : \A k \in Keys(u) : k < SmallestKey(t)
         \/ \A u \in Meeting(L, moved) \cup moved : \A k \in Keys(u) : k > LargestKey(t)
<1> DEFINE low  == HullLow(moved)
           high == HullHigh(moved)
           met  == {u \in L : Overlaps(u, low, high)}
<1>1. low \in Nat /\ high \in Nat /\ \A u \in moved : \A k \in Keys(u) : low <= k /\ k <= high
  BY HullBounds
<1>2. low <= high
  <2>1. PICK u \in moved : TRUE
    OBVIOUS
  <2>2. SmallestKey(u) \in Keys(u) /\ SmallestKey(u) \in Nat
    BY TableKeys
  <2> QED BY <1>1, <2>2
<1>3. SmallestKey(t) \in Nat /\ LargestKey(t) \in Nat /\ SmallestKey(t) <= LargestKey(t)
  BY TableKeys
<1> HIDE DEF low, high
<1>4. SmallestKey(t) > high \/ LargestKey(t) < low
  <2>1. ~Overlaps(t, low, high)
    BY DEF low, high
  <2> QED BY <2>1, <1>1, <1>3 DEF Overlaps
<1>5. ASSUME NEW u \in met
      PROVE  /\ SmallestKey(u) <= high /\ LargestKey(u) >= low
             /\ SmallestKey(u) \in Nat /\ LargestKey(u) \in Nat
             /\ SmallestKey(u) <= LargestKey(u)
             /\ LargestKey(t) < SmallestKey(u) \/ LargestKey(u) < SmallestKey(t)
             /\ \A k \in Keys(u) : SmallestKey(u) <= k /\ k <= LargestKey(u) /\ k \in Nat
  <2>1. u # t
    BY DEF low, high
  <2>2. \A k \in Keys(u) : k \in Nat
    BY TableKeys, KeysAreNat
  <2> QED BY <2>1, <2>2, TableKeys DEF Overlaps, Disjoint
<1>6. \A u \in moved : \A k \in Keys(u) : k \in Nat
  BY TableKeys, KeysAreNat
<1>7. CASE SmallestKey(t) > high
  <2>1. \A u \in moved : \A k \in Keys(u) : k < SmallestKey(t)
    BY <1>1, <1>3, <1>6, <1>7
  <2>2. ASSUME NEW u \in met, NEW k \in Keys(u)
        PROVE  k < SmallestKey(t)
    <3>1. LargestKey(u) < SmallestKey(t)
      BY <1>1, <1>3, <1>5, <1>7
    <3> QED BY <3>1, <1>3, <1>5
  <2>3. \A u \in met \cup moved : \A k \in Keys(u) : k < SmallestKey(t)
    BY <2>1, <2>2
  <2> QED BY <2>3 DEF low, high, Meeting
<1>8. CASE LargestKey(t) < low
  <2>1. \A u \in moved : \A k \in Keys(u) : k > LargestKey(t)
    BY <1>1, <1>3, <1>6, <1>8
  <2>2. ASSUME NEW u \in met, NEW k \in Keys(u)
        PROVE  k > LargestKey(t)
    <3>1. LargestKey(t) < SmallestKey(u)
      BY <1>1, <1>3, <1>5, <1>8
    <3> QED BY <3>1, <1>3, <1>5
  <2>3. \A u \in met \cup moved : \A k \in Keys(u) : k > LargestKey(t)
    BY <2>1, <2>2
  <2> QED BY <2>3 DEF low, high, Meeting
<1> QED BY <1>4, <1>7, <1>8

(* The oldest tables of a level are not newer than the rest of it, and     *)
(* there is one when at least one is asked for.                            *)
LEMMA BeforeTransitive ==
  ASSUME NEW t \in Table, NEW u \in Table, NEW v \in Table, Before(t, u), Before(u, v)
  PROVE  Before(t, v)
BY TableKeys DEF Before

LEMMA OldestFirstMoved ==
  ASSUME NEW S \in SUBSET Table, IsFiniteSet(S), NEW n \in Int,
         NEW t \in Oldest(S, n), NEW u \in S \ Oldest(S, n)
  PROVE  t.time <= u.time
<1> DEFINE A == {w \in S : Before(w, u)}
           B == {w \in S : Before(w, t)}
<1>1. t \in S /\ u \in S /\ Cardinality(B) < n /\ ~(Cardinality(A) < n)
  BY DEF Oldest
<1>2. IsFiniteSet(A) /\ IsFiniteSet(B)
  BY FS_Subset
<1>3. Cardinality(A) \in Nat /\ Cardinality(B) \in Nat
  BY <1>2, FS_CardinalityType
<1>4. SUFFICES ASSUME u.time < t.time
               PROVE  FALSE
  BY <1>1, TableKeys
<1>5. Before(u, t)
  BY <1>4 DEF Before
<1>6. A \in SUBSET B
  BY <1>1, <1>5, BeforeTransitive
<1>7. Cardinality(A) <= Cardinality(B)
  BY <1>2, <1>6, FS_Subset
<1> QED BY <1>1, <1>3, <1>7

LEMMA OldestNonEmpty ==
  ASSUME NEW S \in SUBSET Table, S # {}, NEW n \in Int, n > 0
  PROVE  Oldest(S, n) # {}
<1> DEFINE T == {t.time : t \in S}
<1>1. PICK m \in T : \A x \in T : m <= x
  <2>1. T \in SUBSET Nat /\ T # {}
    BY TableKeys
  <2> HIDE DEF T
  <2> QED BY <2>1, MinExists
<1> DEFINE R == {t \in S : t.time = m}
           K == {SmallestKey(t) : t \in R}
<1>2. PICK s \in K : \A x \in K : s <= x
  <2>1. K \in SUBSET Nat /\ K # {}
    BY TableKeys
  <2> HIDE DEF K
  <2> QED BY <2>1, MinExists
<1>3. PICK t \in R : SmallestKey(t) = s
  OBVIOUS
<1>4. ASSUME NEW u \in S
      PROVE  ~Before(u, t)
  <2>1. u.time \in Nat /\ m \in Nat /\ SmallestKey(u) \in Nat /\ s \in Nat /\ m <= u.time
    BY <1>1, <1>3, TableKeys
  <2>2. u.time = m => s <= SmallestKey(u)
    BY <1>2
  <2> QED BY <2>1, <2>2, <1>3 DEF Before
<1>5. {u \in S : Before(u, t)} = {}
  BY <1>4
<1>6. Cardinality({u \in S : Before(u, t)}) < n
  BY <1>5, FS_EmptySet
<1> QED BY <1>3, <1>6 DEF Oldest

(* A compaction leaves a level of b tables behind: the tables that are not *)
(* among the oldest n have different ranks from n on.                      *)
LEMMA OldestLeaves ==
  ASSUME NEW S \in SUBSET Table, IsFiniteSet(S), Disjoint(S),
         NEW b \in Nat, NEW n \in Nat, Cardinality(S) = n + b
  PROVE  Cardinality(S \ Oldest(S, n)) <= b
<1> DEFINE Below(t) == {u \in S : Before(u, t)}
           R        == S \ Oldest(S, n)
           rank     == [t \in R |-> Cardinality(Below(t))]
<1>1. \A t \in S : IsFiniteSet(Below(t)) /\ Cardinality(Below(t)) \in Nat
  <2> TAKE t \in S
  <2>1. Below(t) \in SUBSET S
    OBVIOUS
  <2> HIDE DEF Below
  <2> QED BY <2>1, FS_Subset, FS_CardinalityType
<1>2. \A t \in R : t \in S /\ Cardinality(Below(t)) >= n
  BY <1>1 DEF Oldest
<1>3. ASSUME NEW t \in S
      PROVE  Cardinality(Below(t)) <= n + b - 1
  <2>1. ~Before(t, t)
    BY TableKeys DEF Before
  <2>2. Below(t) \in SUBSET (S \ {t})
    BY <2>1
  <2>3. IsFiniteSet(S \ {t}) /\ Cardinality(S \ {t}) = n + b - 1
    BY FS_RemoveElement
  <2> HIDE DEF Below
  <2> QED BY <2>2, <2>3, FS_Subset
<1>4. ASSUME NEW t \in S, NEW u \in S, Before(t, u)
      PROVE  Cardinality(Below(t)) < Cardinality(Below(u))
  <2>1. ~Before(t, t)
    BY TableKeys DEF Before
  <2>2. Below(t) \cup {t} \in SUBSET Below(u)
    <3>1. \A v \in Below(t) : Before(v, u)
      BY <1>4, BeforeTransitive
    <3> QED BY <1>4, <3>1
  <2>3. t \notin Below(t)
    BY <2>1
  <2> HIDE DEF Below
  <2>4. Cardinality(Below(t) \cup {t}) = Cardinality(Below(t)) + 1
    BY <1>1, <2>3, FS_AddElement
  <2>5. Cardinality(Below(t) \cup {t}) <= Cardinality(Below(u))
    BY <1>1, <2>2, FS_Subset
  <2> QED BY <1>1, <2>4, <2>5
<1>5. ASSUME NEW t \in S, NEW u \in S, t # u
      PROVE  Cardinality(Below(t)) # Cardinality(Below(u))
  <2>1. Before(t, u) \/ Before(u, t)
    <3>1. /\ t.time \in Nat /\ u.time \in Nat
          /\ SmallestKey(t) \in Nat /\ SmallestKey(u) \in Nat
          /\ LargestKey(t) \in Nat /\ LargestKey(u) \in Nat
          /\ SmallestKey(t) <= LargestKey(t) /\ SmallestKey(u) <= LargestKey(u)
      BY TableKeys
    <3>2. LargestKey(t) < SmallestKey(u) \/ LargestKey(u) < SmallestKey(t)
      BY <1>5 DEF Disjoint
    <3> QED BY <3>1, <3>2 DEF Before
  <2>2. Cardinality(Below(t)) \in Nat /\ Cardinality(Below(u)) \in Nat
    BY <1>1
  <2> HIDE DEF Below
  <2> QED BY <1>4, <2>1, <2>2
<1> HIDE DEF Below, R
<1>6. rank \in [R -> n .. (n + b - 1)]
  BY <1>1, <1>2, <1>3
<1>7. \A t, u \in R : t # u => rank[t] # rank[u]
  BY <1>2, <1>5
<1> HIDE DEF rank
<1>8. IsFiniteSet(n .. (n + b - 1)) /\ Cardinality(n .. (n + b - 1)) = b
  BY FS_Interval
<1>9. IsFiniteSet(R) /\ Cardinality(R) \in Nat
  BY FS_Subset, FS_CardinalityType DEF R
<1>10. ~(Cardinality(n .. (n + b - 1)) < Cardinality(R))
  BY <1>6, <1>7, <1>8, <1>9, FS_PigeonHole
<1> QED BY <1>8, <1>9, <1>10 DEF R

(* What a compaction does to the level it writes to, given the merged      *)
(* items of the tables moved and of the tables met: it keeps every item    *)
(* but the deletions dropped in the last level, under its own timestamp,   *)
(* and the level stays free of overlaps.                                   *)
CompactionOutcome(L, moved, items, last, time) ==
  LET met  == Meeting(L, moved)
      D    == MergedKeys(met \cup moved)
      made == BuildTables(DropDead(items, last), time)
  IN  /\ (L \ met) \cup made \in SUBSET Table
      /\ IsFiniteSet((L \ met) \cup made)
      /\ Disjoint((L \ met) \cup made)
      /\ \A m \in made : m.time = time
      /\ \A m \in made : \A k \in Keys(m) : k \in D /\ m.items[k] = items[k]
      /\ \A k \in D : (last /\ ~items[k].live) \/ \E m \in made : k \in Keys(m)
      /\ \A t \in L \ met : \A k \in Keys(t) : k \notin D

(* This is so whenever the items cover exactly the keys of those tables.   *)
LEMMA CompactionResult ==
  ASSUME KeysFitInt,
         NEW moved \in SUBSET Table, moved # {},
         NEW L \in SUBSET Table, Disjoint(L), IsFiniteSet(L),
         NEW items \in [MergedKeys(Meeting(L, moved) \cup moved) -> Item],
         NEW last \in BOOLEAN,
         NEW time \in Nat
  PROVE  CompactionOutcome(L, moved, items, last, time)
<1> DEFINE met  == Meeting(L, moved)
           D    == MergedKeys(met \cup moved)
           made == BuildTables(DropDead(items, last), time)
           K == {k \in D : last => items[k].live}
           kept == DropDead(items, last)
<1>1. D \in SUBSET Key /\ items \in [D -> Item] /\ met \in SUBSET L
  BY TableKeys DEF MergedKeys, Meeting
<1> HIDE DEF met, D
<1>2. kept \in [K -> Item] /\ \A k \in K : kept[k] = items[k]
  BY <1>1 DEF DropDead, Restrict
<1>3. K \in SUBSET Key
  BY <1>1
<1>4. /\ made \in SUBSET Table
      /\ IsFiniteSet(made)
      /\ \A m \in made : m.time = time
      /\ \A m \in made : \A k \in Keys(m) : k \in K /\ m.items[k] = kept[k]
      /\ \A k \in K : \E m \in made : k \in Keys(m)
      /\ \A t, u \in made : t # u =>
           LargestKey(t) < SmallestKey(u) \/ LargestKey(u) < SmallestKey(t)
  <2>1. made = BuildTables(kept, time)
    OBVIOUS
  <2> HIDE DEF K, kept
  <2>2. LET M == BuildTables(kept, time)
        IN  /\ M \in SUBSET Table
            /\ IsFiniteSet(M)
            /\ \A m \in M : m.time = time
            /\ \A m \in M : \A k \in Keys(m) : k \in K /\ m.items[k] = kept[k]
            /\ \A k \in K : \E m \in M : k \in Keys(m)
            /\ \A t, u \in M : t # u =>
                 LargestKey(t) < SmallestKey(u) \/ LargestKey(u) < SmallestKey(t)
    BY <1>2, <1>3, BuiltTables
  <2> QED BY <2>1, <2>2
<1>5. ASSUME NEW t \in L \ met
      PROVE  \/ \A k \in D : k < SmallestKey(t)
             \/ \A k \in D : k > LargestKey(t)
  <2>1. ~Overlaps(t, HullLow(moved), HullHigh(moved))
    BY DEF met, Meeting
  <2>2. \/ \A u \in met \cup moved : \A k \in Keys(u) : k < SmallestKey(t)
        \/ \A u \in met \cup moved : \A k \in Keys(u) : k > LargestKey(t)
    BY <2>1, UnselectedApart DEF met
  <2> QED BY <2>2 DEF D, MergedKeys
<1>6. ASSUME NEW t \in L \ met, NEW m \in made
      PROVE  LargestKey(t) < SmallestKey(m) \/ LargestKey(m) < SmallestKey(t)
  <2>1. SmallestKey(m) \in D /\ LargestKey(m) \in D
    BY <1>4, TableKeys
  <2>2. /\ SmallestKey(t) \in Nat /\ LargestKey(t) \in Nat
        /\ SmallestKey(m) \in Nat /\ LargestKey(m) \in Nat
    BY <1>4, TableKeys
  <2> QED BY <2>1, <2>2, <1>5
<1>7. Disjoint((L \ met) \cup made)
  BY <1>4, <1>6 DEF Disjoint
<1>8. IsFiniteSet((L \ met) \cup made)
  BY <1>4, FS_Subset, FS_Union
<1>9. ASSUME NEW t \in L \ met, NEW k \in Keys(t)
      PROVE  k \notin D
  <2> SUFFICES ASSUME k \in D
               PROVE  FALSE
    OBVIOUS
  <2>1. SmallestKey(t) <= k /\ k <= LargestKey(t)
    BY TableKeys
  <2>2. k \in Nat /\ SmallestKey(t) \in Nat /\ LargestKey(t) \in Nat
    BY TableKeys, KeysAreNat
  <2> QED BY <2>1, <2>2, <1>5
<1>10. (L \ met) \cup made \in SUBSET Table
  BY <1>4
<1>11. \A m \in made : \A k \in Keys(m) : k \in D /\ m.items[k] = items[k]
  BY <1>2, <1>4
<1>12. \A k \in D : (last /\ ~items[k].live) \/ (\E m \in made : k \in Keys(m))
  BY <1>4
<1> QED BY <1>4, <1>7, <1>8, <1>9, <1>10, <1>11, <1>12 DEF CompactionOutcome, met, D
=============================================================================
