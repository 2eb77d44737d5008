--------------------------- MODULE KVStore_proofs ---------------------------
(***************************************************************************)
(* The store over the tree: garbage collection loses nothing, and the      *)
(* store implements the map of kvstore_api.h for clients that stay clear   *)
(* of what breaks gc (CarefulSpec).  The last two sections are about any   *)
(* client (KVSpec): the types, and what a scan tells.                      *)
(***************************************************************************)
EXTENDS KVScan, KeyIndex_proofs, SequenceTheorems

(* The keys are as in KeyIndex_proofs; clients put neither the empty       *)
(* string nor the string that marks a deletion.                            *)
PlainData ==
  /\ KeysFitInt
  /\ Sentinel \notin Key
  /\ Empty \notin Value
  /\ Deleted \notin Value

----------------------------------------------------------------------------
(* Flushing a MemTable.                                                    *)

(* The ranks of a finite set of keys are 0 .. Cardinality - 1, each taken  *)
(* by one key.                                                             *)
LEMMA RankInjective ==
  ASSUME NEW K \in SUBSET Key, NEW a \in K, NEW b \in K, Rank(K, a) = Rank(K, b)
  PROVE  a = b
<1>1. a \in Nat /\ b \in Nat
  BY KeysAreNat
<1>2. ~(a < b) /\ ~(b < a)
  BY RankMonotone, RankType
<1> QED BY <1>1, <1>2

LEMMA RankBelow ==
  ASSUME NEW K \in SUBSET Key, NEW a \in K
  PROVE  Rank(K, a) \in 0 .. Cardinality(K) - 1
<1> DEFINE B == {j \in K : j < a}
<1>1. IsFiniteSet(K) /\ Cardinality(K) \in Nat
  BY KeySetFinite, FS_CardinalityType
<1>2. B \in SUBSET (K \ {a})
  BY KeysAreNat
<1> HIDE DEF B
<1>3. IsFiniteSet(K \ {a}) /\ Cardinality(K \ {a}) = Cardinality(K) - 1
  BY <1>1, FS_RemoveElement
<1>4. Cardinality(B) <= Cardinality(K) - 1
  BY <1>2, <1>3, FS_Subset
<1>5. Rank(K, a) = Cardinality(B)
  BY DEF Rank, B
<1> QED BY <1>1, <1>4, <1>5, RankType

LEMMA RankTaken ==
  ASSUME NEW K \in SUBSET Key, NEW r \in 0 .. Cardinality(K) - 1
  PROVE  \E a \in K : Rank(K, a) = r
<1> DEFINE n    == Cardinality(K)
           rank == [a \in K |-> Rank(K, a)]
<1>1. IsFiniteSet(K) /\ n \in Nat
  BY KeySetFinite, FS_CardinalityType
<1>2. SUFFICES ASSUME \A a \in K : Rank(K, a) # r PROVE FALSE
  OBVIOUS
<1>3. rank \in [K -> (0 .. n - 1) \ {r}]
  BY <1>2, RankBelow
<1>4. \A a, b \in K : a # b => rank[a] # rank[b]
  BY RankInjective
<1>5. IsFiniteSet(0 .. n - 1) /\ Cardinality(0 .. n - 1) = n
  BY <1>1, FS_Interval
<1>6. /\ IsFiniteSet((0 .. n - 1) \ {r})
      /\ Cardinality((0 .. n - 1) \ {r}) = n - 1
  BY <1>5, FS_RemoveElement
<1> HIDE DEF rank
<1>7. Cardinality((0 .. n - 1) \ {r}) < Cardinality(K)
  BY <1>1, <1>6
<1> QED BY <1>1, <1>3, <1>4, <1>6, <1>7, FS_PigeonHole

LEMMA FunctionIsSequence ==
  ASSUME NEW S, NEW n \in Nat, NEW f \in [1 .. n -> S]
  PROVE  f \in Seq(S) /\ Len(f) = n
OBVIOUS

LEMMA Appending ==
  ASSUME NEW S, NEW s \in Seq(S), NEW t \in Seq(S)
  PROVE  /\ s \o t \in Seq(S)
         /\ Len(s \o t) = Len(s) + Len(t)
         /\ \A i \in DOMAIN s : (s \o t)[i] = s[i]
         /\ \A i \in DOMAIN t : (s \o t)[Len(s) + i] = t[i]
OBVIOUS

(* The entries appended for a MemTable m: one for each pair that is not a  *)
(* deletion, the pair of the key with rank r at position r + 1.            *)
LEMMA EntriesOfMemtable ==
  ASSUME NEW m, DOMAIN m \in SUBSET Key
  PROVE  /\ Len(NewEntries(m)) = Cardinality(Appended(m))
         /\ DOMAIN NewEntries(m) = 1 .. Cardinality(Appended(m))
         /\ Cardinality(Appended(m)) \in Nat
         /\ Cardinality(Appended(m)) <= Cardinality(DOMAIN m)
         /\ \A k \in Appended(m) :
              /\ Rank(Appended(m), k) \in 0 .. Cardinality(Appended(m)) - 1
              /\ NewEntries(m)[Rank(Appended(m), k) + 1] = [key |-> k, value |-> m[k]]
         /\ \A i \in 1 .. Cardinality(Appended(m)) : \E k \in Appended(m) :
              NewEntries(m)[i] = [key |-> k, value |-> m[k]]
         /\ NewEntries(m) = [i \in 1 .. Cardinality(Appended(m)) |-> NewEntries(m)[i]]
<1> DEFINE A     == Appended(m)
           n     == Cardinality(A)
           at(i) == CHOOSE j \in A : Rank(A, j) = i - 1
<1>1. A \in SUBSET DOMAIN m /\ A \in SUBSET Key
  BY DEF Appended
<1>2. IsFiniteSet(DOMAIN m) /\ n \in Nat /\ n <= Cardinality(DOMAIN m)
  BY <1>1, KeySetFinite, FS_Subset, FS_CardinalityType
<1>3. NewEntries(m) = [i \in 1 .. n |-> [key |-> at(i), value |-> m[at(i)]]]
  BY DEF NewEntries
<1> HIDE DEF A
<1>4. \A i \in 1 .. n : at(i) \in A /\ Rank(A, at(i)) = i - 1
  <2> TAKE i \in 1 .. n
  <2>1. i - 1 \in 0 .. Cardinality(A) - 1
    BY <1>2
  <2>2. \E j \in A : Rank(A, j) = i - 1
    BY <1>1, <2>1, RankTaken
  <2> QED BY <2>2
<1>5. \A k \in A : Rank(A, k) \in 0 .. n - 1 /\ at(Rank(A, k) + 1) = k
  <2> TAKE k \in A
  <2>1. Rank(A, k) \in 0 .. n - 1
    BY <1>1, RankBelow
  <2>2. Rank(A, k) + 1 \in 1 .. n
    BY <1>2, <2>1
  <2>3. at(Rank(A, k) + 1) \in A /\ Rank(A, at(Rank(A, k) + 1)) = Rank(A, k)
    BY <1>4, <2>1, <2>2
  <2> HIDE DEF at
  <2>4. at(Rank(A, k) + 1) = k
    BY <1>1, <2>3, RankInjective
  <2> QED BY <2>1, <2>4
<1> HIDE DEF at
<1>7. Len(NewEntries(m)) = n /\ DOMAIN NewEntries(m) = 1 .. n
  BY <1>2, <1>3
<1>8. \A k \in A : NewEntries(m)[Rank(A, k) + 1] = [key |-> k, value |-> m[k]]
  <2> TAKE k \in A
  <2>1. Rank(A, k) + 1 \in 1 .. n
    BY <1>2, <1>5
  <2> QED BY <1>3, <1>5, <2>1
<1>9. \A i \in 1 .. n : \E k \in A : NewEntries(m)[i] = [key |-> k, value |-> m[k]]
  BY <1>3, <1>4
<1>10. NewEntries(m) = [i \in 1 .. n |-> NewEntries(m)[i]]
  BY <1>3
<1> QED BY <1>2, <1>5, <1>7, <1>8, <1>9, <1>10 DEF A

LEMMA EntriesTyped ==
  ASSUME NEW V, NEW m, DOMAIN m \in SUBSET Key,
         \A k \in DOMAIN m : m[k] \in V \cup {Deleted}
  PROVE  NewEntries(m) \in Seq([key : Key, value : V])
<1> DEFINE S == [key : Key, value : V]
           n == Cardinality(Appended(m))
<1>1. /\ n \in Nat /\ DOMAIN NewEntries(m) = 1 .. n
      /\ \A i \in 1 .. n : \E k \in Appended(m) : NewEntries(m)[i] = [key |-> k, value |-> m[k]]
  BY EntriesOfMemtable
<1>0. NewEntries(m) = [i \in 1 .. n |-> NewEntries(m)[i]]
  BY EntriesOfMemtable
<1>2. \A k \in Appended(m) : [key |-> k, value |-> m[k]] \in S
  BY DEF Appended
<1>3. \A i \in 1 .. n : NewEntries(m)[i] \in S
  BY <1>1, <1>2
<1> HIDE DEF S, n
<1>4. NewEntries(m) \in [1 .. n -> S]
  BY <1>0, <1>3
<1> QED BY <1>1, <1>4, FunctionIsSequence DEF S

(* What a MemTable turns into.                                             *)
LEMMA ItemsOfMemtable ==
  ASSUME PlainData, streamOk, log \in Seq([key : Key, value : Value]),
         NEW m, DOMAIN m \in SUBSET Key, DOMAIN m # {},
         Cardinality(DOMAIN m) <= MemtableThreshold,
         \A k \in DOMAIN m : m[k] \in Value \cup {Deleted},
         Len(log) + Cardinality(DOMAIN m) <= MaxLog
  PROVE  /\ ItemsOf(m) \in MemtableRuns
         /\ DOMAIN ItemsOf(m) = DOMAIN m
         /\ \A k \in DOMAIN m : ItemsOf(m)[k] =
              IF m[k] = Deleted THEN [off |-> 0, live |-> FALSE]
              ELSE [off |-> Len(log) + Rank(Appended(m), k), live |-> TRUE]
<1>1. \A k \in DOMAIN m : ItemsOf(m)[k] =
        IF m[k] = Deleted THEN [off |-> 0, live |-> FALSE]
        ELSE [off |-> Len(log) + Rank(Appended(m), k), live |-> TRUE]
  BY DEF ItemsOf, Offset, LogEnd, PlainData
<1>2. DOMAIN ItemsOf(m) = DOMAIN m
  BY DEF ItemsOf
<1>3. Len(log) \in Nat /\ MaxLog \in Nat
  BY LogAssumption
<1>4. Cardinality(DOMAIN m) \in Nat \ {0}
  BY KeySetFinite, FS_CardinalityType, FS_EmptySet
<1>5. \A k \in DOMAIN m : m[k] # Deleted =>
        Rank(Appended(m), k) \in 0 .. Cardinality(DOMAIN m) - 1
  <2> TAKE k \in DOMAIN m
  <2> HAVE m[k] # Deleted
  <2>1. k \in Appended(m)
    BY DEF Appended
  <2>2. Rank(Appended(m), k) \in 0 .. Cardinality(Appended(m)) - 1
    BY <2>1, EntriesOfMemtable
  <2>3. Cardinality(Appended(m)) \in Nat /\ Cardinality(Appended(m)) <= Cardinality(DOMAIN m)
    BY EntriesOfMemtable
  <2> QED BY <1>4, <2>2, <2>3
<1>6. \A k \in DOMAIN m : ItemsOf(m)[k] \in Item
  <2> TAKE k \in DOMAIN m
  <2>1. [off : -1 .. MaxLog - 1, live : BOOLEAN] \subseteq Item
    BY LogAssumption
  <2>2. CASE m[k] = Deleted
    <3>1. 0 \in -1 .. MaxLog - 1
      BY <1>3, <1>4
    <3> QED BY <1>1, <2>1, <2>2, <3>1
  <2>3. CASE m[k] # Deleted
    <3>1. Len(log) + Rank(Appended(m), k) \in -1 .. MaxLog - 1
      BY <1>3, <1>4, <1>5, <2>3
    <3> QED BY <1>1, <2>1, <2>3, <3>1
  <2> QED BY <2>2, <2>3
<1>7. ItemsOf(m) \in [DOMAIN m -> Item]
  BY <1>6 DEF ItemsOf
<1>8. DOMAIN m \in MemtableKeys
  BY DEF MemtableKeys
<1> QED BY <1>1, <1>2, <1>7, <1>8 DEF MemtableRuns

(* The effect of a conversion on the log and on what the tables show.      *)
Converted(m) ==
  /\ log' \in Seq([key : Key, value : Value])
  /\ Len(log') \in Len(log) .. Len(log) + Cardinality(DOMAIN m)
  /\ \A i \in DOMAIN log : log'[i] = log[i]
  /\ \A k \in Key \ DOMAIN m : Visible(k)' = Visible(k)
  /\ \A k \in DOMAIN m :
       IF m[k] = Deleted THEN Visible(k)' = NotFound
       ELSE /\ Visible(k)'.live
            /\ Visible(k)'.off \in Len(log) .. Len(log') - 1
            /\ log'[Visible(k)'.off + 1] = [key |-> k, value |-> m[k]]

LEMMA ConvertSteps ==
  ASSUME PlainData, TreeInv, DeletionsAtZero,
         streamOk, log \in Seq([key : Key, value : Value]),
         NEW m, DOMAIN m \in SUBSET Key, DOMAIN m # {},
         Cardinality(DOMAIN m) <= MemtableThreshold,
         \A k \in DOMAIN m : m[k] \in Value \cup {Deleted},
         Len(log) + Cardinality(DOMAIN m) <= MaxLog,
         Convert(m)
  PROVE  TreeInv' /\ DeletionsAtZero' /\ Converted(m)
<1> DEFINE items   == ItemsOf(m)
           entries == NewEntries(m)
           A       == Appended(m)
<1>1. /\ items \in MemtableRuns
      /\ DOMAIN items = DOMAIN m
      /\ \A k \in DOMAIN m : items[k] =
           IF m[k] = Deleted THEN [off |-> 0, live |-> FALSE]
           ELSE [off |-> Len(log) + Rank(A, k), live |-> TRUE]
  BY ItemsOfMemtable
<1>2. /\ entries \in Seq([key : Key, value : Value])
      /\ Len(entries) = Cardinality(A)
      /\ Cardinality(A) \in Nat
      /\ Cardinality(A) <= Cardinality(DOMAIN m)
      /\ \A k \in A : /\ Rank(A, k) \in 0 .. Cardinality(A) - 1
                       /\ entries[Rank(A, k) + 1] = [key |-> k, value |-> m[k]]
  BY EntriesOfMemtable, EntriesTyped
<1>3. AddTable(items) /\ log' = log \o entries
  BY DEF Convert
<1>4. Cardinality(DOMAIN m) \in Nat
  BY KeySetFinite, FS_CardinalityType
<1>5. \A k \in DOMAIN m : m[k] # Deleted => k \in A
  BY DEF Appended
<1> HIDE DEF items, entries, A
<1>6. TreeInv'
  BY <1>1, <1>3, AddTablePreserves
<1>7. DeletionsAtZero'
  <2> DEFINE t == [time |-> timeId, items |-> items]
  <2>1. level0' = Append(level0, t) /\ deeper' = deeper
    BY <1>3 DEF AddTable
  <2>2. level0 \in Seq(Table)
    BY TreeShape
  <2>3. DeadAtZero(t)
    BY <1>1 DEF DeadAtZero, Keys
  <2>4. \A i \in DOMAIN level0 : DeadAtZero(level0[i])
    BY DEF DeletionsAtZero
  <2> HIDE DEF t
  <2>5. \A i \in DOMAIN level0' : 
          \/ level0'[i] = t
          \/ i \in DOMAIN level0 /\ level0'[i] = level0[i]
    BY <2>1, <2>2
  <2>6. \A i \in DOMAIN level0' : DeadAtZero(level0'[i])
    BY <2>3, <2>4, <2>5
  <2> QED BY <2>1, <2>6 DEF DeletionsAtZero, DeadAtZero, Keys
<1>0. Len(log) \in Nat
  BY LenProperties
<1>8. /\ log' \in Seq([key : Key, value : Value])
      /\ Len(log') = Len(log) + Len(entries)
      /\ \A i \in DOMAIN log : log'[i] = log[i]
      /\ \A i \in DOMAIN entries : log'[Len(log) + i] = entries[i]
  <2> DEFINE S == [key : Key, value : Value]
  <2>1. log \in Seq(S) /\ entries \in Seq(S)
    BY <1>2
  <2> HIDE DEF S
  <2>2. /\ log \o entries \in Seq(S)
        /\ Len(log \o entries) = Len(log) + Len(entries)
        /\ \A i \in DOMAIN log : (log \o entries)[i] = log[i]
        /\ \A i \in DOMAIN entries : (log \o entries)[Len(log) + i] = entries[i]
    BY <2>1, Appending
  <2> QED BY <1>3, <2>2 DEF S
<1>9. Len(log') \in Len(log) .. Len(log) + Cardinality(DOMAIN m)
  BY <1>0, <1>2, <1>4, <1>8
<1>10. \A k \in Key :
         Visible(k)' = IF k \in DOMAIN items THEN Display(items[k]) ELSE Visible(k)
  BY <1>1, <1>3, FlushSteps DEF PlainData
<1>11. ASSUME NEW k \in DOMAIN m, m[k] = Deleted
       PROVE  Visible(k)' = NotFound
  BY <1>1, <1>10, <1>11 DEF Display
<1>12. ASSUME NEW k \in DOMAIN m, m[k] # Deleted
       PROVE  /\ Visible(k)'.live
              /\ Visible(k)'.off \in Len(log) .. Len(log') - 1
              /\ log'[Visible(k)'.off + 1] = [key |-> k, value |-> m[k]]
  <2>1. Visible(k)' = [off |-> Len(log) + Rank(A, k), live |-> TRUE]
    BY <1>1, <1>10, <1>12 DEF Display
  <2>2. k \in A /\ Rank(A, k) \in 0 .. Cardinality(A) - 1
    BY <1>2, <1>5, <1>12
  <2>3. Rank(A, k) + 1 \in DOMAIN entries
    BY <1>2, <2>2
  <2>4. log'[Len(log) + Rank(A, k) + 1] = [key |-> k, value |-> m[k]]
    BY <1>0, <1>2, <1>8, <2>2, <2>3
  <2> QED BY <1>0, <1>2, <1>8, <2>1, <2>2, <2>4
<1>13. \A k \in Key \ DOMAIN m : Visible(k)' = Visible(k)
  BY <1>1, <1>10
<1> HIDE DEF Visible
<1> QED BY <1>6, <1>7, <1>8, <1>9, <1>11, <1>12, <1>13 DEF Converted

LEMMA ConvertedPair ==
  ASSUME NEW m, Converted(m), NEW k \in DOMAIN m
  PROVE  IF m[k] = Deleted THEN ~Visible(k)'.live
         ELSE /\ Visible(k)'.live
              /\ Visible(k)'.off \in Len(log) .. Len(log') - 1
              /\ log'[Visible(k)'.off + 1].value = m[k]
<1>1. CASE m[k] = Deleted
  <2>1. Visible(k)' = NotFound
    BY <1>1 DEF Converted
  <2> QED BY <1>1, <2>1 DEF NotFound
<1>2. CASE m[k] # Deleted
  <2>1. /\ Visible(k)'.live
        /\ Visible(k)'.off \in Len(log) .. Len(log') - 1
        /\ log'[Visible(k)'.off + 1] = [key |-> k, value |-> m[k]]
    BY <1>2 DEF Converted
  <2> QED BY <1>2, <2>1
<1> QED BY <1>1, <1>2

----------------------------------------------------------------------------
(* Compactions.                                                            *)

(* A table made of items that each are the item of some table.             *)
LEMMA DeadInMade ==
  ASSUME NEW S, \A t \in S : DeadAtZero(t),
         NEW m, \A k \in Keys(m) : \E t \in S : k \in Keys(t) /\ m.items[k] = t.items[k]
  PROVE  DeadAtZero(m)
BY DEF DeadAtZero

LEMMA DeadInLevel ==
  ASSUME TreeInv, DeletionsAtZero, NEW l \in Nat \ {0}, l <= Len(deeper) + 1
  PROVE  /\ \A t \in WithLevel(l)[l] : DeadAtZero(t)
         /\ \A t \in Level0Tables : DeadAtZero(t)
<1>1. WithLevel(l)[l] = IF l \in DOMAIN deeper THEN deeper[l] ELSE {}
  BY WithLevelFacts, TreeShape
<1>2. \A t \in WithLevel(l)[l] : DeadAtZero(t)
  BY <1>1 DEF DeletionsAtZero
<1>3. \A t \in Level0Tables : DeadAtZero(t)
  BY DEF DeletionsAtZero, Level0Tables, Range
<1> QED BY <1>2, <1>3

LEMMA CompactLevel0Dead ==
  ASSUME PlainData, TreeInv, DeletionsAtZero, CompactLevel0
  PROVE  DeletionsAtZero'
<1> DEFINE met   == Met(Level0Tables, 1)
           all   == met \cup Level0Tables
           D     == MergedKeys(all)
           items == MergeItems(all)
           made  == Made(items, 1, YoungestTime(all))
           kept  == WithLevel(1)[1] \ met
<1>1. job = 0 /\ level0' = <<>> /\ deeper' = [WithLevel(1) EXCEPT ![1] = kept \cup made]
  BY DEF CompactLevel0
<1>2. /\ \A m \in made : \A k \in Keys(m) : k \in D /\ m.items[k] = items[k]
      /\ \A k \in D : \E t \in all : k \in Keys(t) /\ items[k] = t.items[k]
  BY <1>1, Level0Result DEF PlainData
<1>3. deeper \in Seq(SUBSET Table) /\ Len(deeper) \in Nat
  BY TreeShape
<1>4. /\ \A t \in WithLevel(1)[1] : DeadAtZero(t)
      /\ \A t \in Level0Tables : DeadAtZero(t)
  BY <1>3, DeadInLevel
<1>5. met \subseteq WithLevel(1)[1]
  BY DEF Met, Meeting
<1> HIDE DEF met, D, items, made
<1>6. \A t \in all : DeadAtZero(t)
  BY <1>4, <1>5
<1>7. \A m \in made : DeadAtZero(m)
  <2> TAKE m \in made
  <2>1. \A k \in Keys(m) : \E t \in all : k \in Keys(t) /\ m.items[k] = t.items[k]
    BY <1>2
  <2> QED BY <1>6, <2>1, DeadInMade
<1>8. /\ DOMAIN WithLevel(1) = DOMAIN deeper \cup {1}
      /\ \A m \in DOMAIN deeper : WithLevel(1)[m] = deeper[m]
  <2>1. 1 \in Nat \ {0} /\ 1 <= Len(deeper) + 1
    BY <1>3
  <2> QED BY <1>3, <2>1, WithLevelFacts
<1>9. DOMAIN deeper' = DOMAIN deeper \cup {1}
  BY <1>1, <1>8
<1>10. ASSUME NEW l \in DOMAIN deeper', NEW t \in deeper'[l]
       PROVE  DeadAtZero(t)
  <2>1. CASE l = 1
    <3>1. t \in kept \cup made
      BY <1>1, <1>8, <1>9, <1>10, <2>1
    <3> QED BY <1>4, <1>7, <3>1
  <2>2. CASE l # 1
    <3>1. l \in DOMAIN deeper /\ t \in deeper[l]
      BY <1>1, <1>8, <1>9, <1>10, <2>2
    <3> QED BY <3>1 DEF DeletionsAtZero
  <2> QED BY <2>1, <2>2
<1>11. DOMAIN level0' = {}
  BY <1>1
<1> QED BY <1>10, <1>11 DEF DeletionsAtZero, DeadAtZero, Keys

LEMMA CompactDead ==
  ASSUME PlainData, TreeInv, DeletionsAtZero, NEW l \in 1 .. MaxLevel, Compact(l)
  PROVE  DeletionsAtZero'
<1> DEFINE n     == l + 1
           moved == Excess(l)
           met   == Met(moved, n)
           items == Overlay(MergeItems(moved), MergeItems(met))
           D     == MergedKeys(met \cup moved)
           made  == Made(items, n, YoungestTime(moved))
           kept  == WithLevel(n)[n] \ met
<1>1. /\ job = l /\ level0' = level0
      /\ deeper' = [WithLevel(n) EXCEPT ![l] = @ \ moved, ![n] = kept \cup made]
  BY DEF Compact
<1>2. /\ \A m \in made : \A k \in Keys(m) : k \in D /\ m.items[k] = items[k]
      /\ \A t \in moved : \A k \in Keys(t) : items[k] = t.items[k]
      /\ \A t \in met : \A k \in Keys(t) :
           (\A u \in moved : k \notin Keys(u)) => items[k] = t.items[k]
  BY <1>1, LevelResult DEF PlainData
<1>3. deeper \in Seq(SUBSET Table) /\ Len(deeper) \in Nat /\ DOMAIN deeper = 1 .. Len(deeper)
  BY TreeShape
<1>4. l \in DOMAIN deeper /\ moved \subseteq deeper[l]
  BY <1>1, ExcessFacts
<1>5. n \in Nat \ {0} /\ n <= Len(deeper) + 1 /\ l # n /\ l \in Nat
  BY <1>3, <1>4
<1> HIDE DEF n
<1>6. \A t \in WithLevel(n)[n] : DeadAtZero(t)
  BY <1>5, DeadInLevel
<1>7. met \subseteq WithLevel(n)[n]
  BY DEF Met, Meeting
<1> HIDE DEF met, moved, items, made
<1>8. \A t \in met \cup moved : DeadAtZero(t)
  BY <1>4, <1>6, <1>7 DEF DeletionsAtZero
<1>9. \A m \in made : DeadAtZero(m)
  <2> TAKE m \in made
  <2>1. \A k \in D : \E t \in met \cup moved : k \in Keys(t) /\ items[k] = t.items[k]
    BY <1>2 DEF MergedKeys
  <2> HIDE DEF D
  <2>2. \A k \in Keys(m) :
          \E t \in met \cup moved : k \in Keys(t) /\ m.items[k] = t.items[k]
    BY <1>2, <2>1
  <2> QED BY <1>8, <2>2, DeadInMade
<1>10. /\ DOMAIN WithLevel(n) = DOMAIN deeper \cup {n}
       /\ \A m \in DOMAIN deeper : WithLevel(n)[m] = deeper[m]
  BY <1>3, <1>5, WithLevelFacts
<1>11. DOMAIN deeper' = DOMAIN deeper \cup {n}
  BY <1>1, <1>10
<1>12. ASSUME NEW i \in DOMAIN deeper', NEW t \in deeper'[i]
       PROVE  DeadAtZero(t)
  <2>1. CASE i = n
    <3>1. t \in kept \cup made
      BY <1>1, <1>5, <1>10, <1>11, <1>12, <2>1
    <3> QED BY <1>6, <1>9, <3>1
  <2>2. CASE i # n
    <3>1. i \in DOMAIN deeper /\ t \in deeper[i]
      BY <1>1, <1>10, <1>11, <1>12, <2>2
    <3> QED BY <3>1 DEF DeletionsAtZero
  <2> QED BY <2>1, <2>2
<1> QED BY <1>1, <1>12 DEF DeletionsAtZero, DeadAtZero, Keys

(* A compaction changes nothing the store sees.                            *)
LEMMA CompactionSteps ==
  ASSUME PlainData, TreeInv, DeletionsAtZero, CompactStep
  PROVE  TreeInv' /\ DeletionsAtZero' /\ \A k \in Key : Visible(k)' = Visible(k)
<1>1. KeysFitInt /\ Sentinel \notin Key
  BY DEF PlainData
<1>2. CASE CompactLevel0
  <2>1. TreeInv'
    BY <1>1, <1>2, CompactLevel0Preserves
  <2> QED BY <1>1, <1>2, <2>1, CompactLevel0Dead, CompactLevel0Steps
<1>3. ASSUME NEW l \in 1 .. MaxLevel, Compact(l)
      PROVE  TreeInv' /\ DeletionsAtZero' /\ \A k \in Key : Visible(k)' = Visible(k)
  <2>1. TreeInv'
    BY <1>1, <1>3, CompactPreserves
  <2> QED BY <1>1, <1>3, <2>1, CompactDead, CompactSteps
<1> QED BY <1>2, <1>3 DEF CompactStep

----------------------------------------------------------------------------
(* The state of the store.                                                 *)

(* A deletion the tables answer with has offset 0, and a key no table has  *)
(* is shown at -1.                                                         *)
LEMMA DeadLookup ==
  ASSUME PlainData, TreeInv, DeletionsAtZero, NEW k \in Key, ~Lookup(k).live
  PROVE  Lookup(k).off \in {0, -1}
<1>1. Lookup(k) = LookupIn(level0, deeper, k)
  BY DEF Lookup, LookupIn, Level0Hits, LevelHits, Hits, DeepHits
<1>2. /\ level0 \in Seq(Table) /\ deeper \in Seq(SUBSET Table)
      /\ \A l \in DOMAIN deeper : Disjoint(deeper[l])
  BY TreeShape
<1>3. Sentinel \notin Key
  BY DEF PlainData
<1>4. CASE \E i \in DOMAIN level0 :
             /\ k \in Keys(level0[i])
             /\ \A j \in DOMAIN level0 : k \in Keys(level0[j]) => j <= i
  <2>1. PICK i \in DOMAIN level0 :
          /\ k \in Keys(level0[i])
          /\ \A j \in DOMAIN level0 : k \in Keys(level0[j]) => j <= i
    BY <1>4
  <2>2. Lookup(k) = level0[i].items[k]
    BY <1>1, <1>2, <1>3, <2>1, FromLevel0
  <2> QED BY <2>1, <2>2 DEF DeletionsAtZero, DeadAtZero
<1>5. CASE /\ \A i \in DOMAIN level0 : k \notin Keys(level0[i])
           /\ \E l \in DOMAIN deeper : \E t \in deeper[l] :
                /\ k \in Keys(t)
                /\ \A m \in DOMAIN deeper : m < l => \A u \in deeper[m] : k \notin Keys(u)
  <2>1. PICK l \in DOMAIN deeper : \E t \in deeper[l] :
          /\ k \in Keys(t)
          /\ \A m \in DOMAIN deeper : m < l => \A u \in deeper[m] : k \notin Keys(u)
    BY <1>5
  <2>2. PICK t \in deeper[l] :
          /\ k \in Keys(t)
          /\ \A m \in DOMAIN deeper : m < l => \A u \in deeper[m] : k \notin Keys(u)
    BY <2>1
  <2>3. Lookup(k) = t.items[k]
    BY <1>1, <1>2, <1>3, <1>5, <2>2, FromLevel
  <2> QED BY <2>2, <2>3 DEF DeletionsAtZero, DeadAtZero
<1>6. CASE /\ \A i \in DOMAIN level0 : k \notin Keys(level0[i])
           /\ \A l \in DOMAIN deeper : \A u \in deeper[l] : k \notin Keys(u)
  <2>1. Lookup(k) = NotFound
    BY <1>1, <1>2, <1>3, <1>6, FromNowhere
  <2> QED BY <2>1 DEF NotFound
<1> QED BY <1>2, <1>4, <1>5, <1>6, Answers

(* The types of MemTable and log without what clients may not put.         *)
Data ==
  /\ DOMAIN memtable \in SUBSET Key
  /\ memtable \in [DOMAIN memtable -> Value \cup {Deleted}]
  /\ log \in Seq([key : Key, value : Value])
  /\ hole \in 0 .. Len(log)
  /\ pc \in {"ready", "putFlush", "gc", "gcFlush", "lastFlush"}
  /\ gcPos \in Nat
  /\ gcLeft \in Int

LEMMA EntriesOfValues ==
  ASSUME NEW s \in Seq([key : Key, value : Written]),
         \A i \in DOMAIN s : s[i].value \in Value
  PROVE  s \in Seq([key : Key, value : Value])
<1>1. Len(s) \in Nat /\ DOMAIN s = 1 .. Len(s)
  OBVIOUS
<1>2. \A i \in 1 .. Len(s) : s[i] \in [key : Key, value : Value]
  <2> TAKE i \in 1 .. Len(s)
  <2>1. s[i] \in [key : Key, value : Written]
    BY ElementOfSeq
  <2>2. s[i].value \in Value
    BY <1>1
  <2> QED BY <2>1, <2>2
<1>3. s \in [1 .. Len(s) -> [key : Key, value : Value]]
  <2> DEFINE E == [key : Key, value : Value]
  <2>1. s = [i \in 1 .. Len(s) |-> s[i]]
    BY <1>1
  <2> QED BY <1>2, <2>1
<1> QED BY <1>1, <1>3, FunctionIsSequence

LEMMA DataHolds == KVTypeOK /\ OnlyValues => Data
<1> SUFFICES ASSUME KVTypeOK, OnlyValues PROVE Data
  OBVIOUS
<1>1. log \in Seq([key : Key, value : Value])
  BY EntriesOfValues DEF KVTypeOK, OnlyValues
<1>2. memtable \in [DOMAIN memtable -> Value \cup {Deleted}]
  BY DEF KVTypeOK, OnlyValues
<1> QED BY <1>1, <1>2 DEF Data, KVTypeOK

LEMMA TypesFromData == TreeInv /\ Data /\ streamOk = TRUE => KVTypeOK /\ OnlyValues
<1> SUFFICES ASSUME TreeInv, Data, streamOk = TRUE PROVE KVTypeOK /\ OnlyValues
  OBVIOUS
<1>1. [key : Key, value : Value] \subseteq [key : Key, value : Written]
  BY DEF Written
<1>2. log \in Seq([key : Key, value : Written])
  BY <1>1, SeqMonotonic DEF Data
<1>3. memtable \in [DOMAIN memtable -> Written]
  BY DEF Data, Written
<1>4. OnlyValues
  <2>1. \A i \in DOMAIN log : log[i] \in [key : Key, value : Value]
    <3>1. log \in Seq([key : Key, value : Value]) /\ DOMAIN log = 1 .. Len(log)
      BY DEF Data
    <3> QED BY <3>1, ElementOfSeq
  <2> QED BY <2>1 DEF Data, OnlyValues
<1> QED BY <1>2, <1>3, <1>4 DEF KVTypeOK, Data, TreeInv

LEMMA NextTypes == (TreeInv /\ Data /\ streamOk = TRUE)' => (KVTypeOK /\ OnlyValues)'
BY TypesFromData, PTL

(* The answer of get, with what the tables show taken as one.              *)
Shows(k) ==
  IF k \in DOMAIN memtable
  THEN IF memtable[k] = Deleted THEN Empty ELSE memtable[k]
  ELSE IF Visible(k).live THEN log[Visible(k).off + 1].value ELSE Empty

LEMMA GetShows ==
  PlainData /\ OnlyValues /\ PointersValid => \A k \in Key : Get(k) = Shows(k)
<1> SUFFICES ASSUME PlainData, OnlyValues, PointersValid, NEW k \in Key
             PROVE  Get(k) = Shows(k)
  OBVIOUS
<1>1. Empty # Deleted
  BY StringAssumption
<1>2. CASE k \in DOMAIN memtable
  <2>1. memtable[k] # Empty
    BY <1>1, <1>2 DEF OnlyValues, PlainData
  <2> QED BY <1>2, <2>1 DEF Get, MemGet, Shows
<1>3. CASE k \notin DOMAIN memtable
  <2>1. Get(k) = ReadItem(Lookup(k))
    BY <1>1, <1>3 DEF Get, MemGet
  <2>2. CASE Lookup(k).live
    <3>1. Visible(k) = Lookup(k)
      BY <2>2 DEF Visible
    <3>2. Readable(Lookup(k).off)
      BY <2>2, <3>1 DEF PointersValid
    <3> QED BY <1>3, <2>1, <2>2, <3>1, <3>2 DEF ReadItem, Shows
  <2>3. CASE ~Lookup(k).live
    <3>1. ~Visible(k).live
      BY <2>3 DEF Visible, NotFound
    <3> QED BY <1>3, <2>1, <2>3, <3>1 DEF ReadItem, Shows
  <2> QED BY <2>2, <2>3
<1> QED BY <1>2, <1>3

LEMMA NextGetShows ==
  (PlainData /\ OnlyValues /\ PointersValid)' => (\A k \in Key : Get(k) = Shows(k))'
BY GetShows, PTL

----------------------------------------------------------------------------
(* Steps that leave the tree alone, conversions, and calls of put.         *)

LEMMA SameTree ==
  ASSUME TreeInv, DeletionsAtZero, UNCHANGED treeVars
  PROVE  TreeInv' /\ DeletionsAtZero' /\ \A k : Visible(k)' = Visible(k)
<1>1. level0' = level0 /\ deeper' = deeper
  BY DEF treeVars
<1>2. \A k : Visible(k)' = Visible(k)
  BY <1>1, LookupArguments
<1>3. DeletionsAtZero'
  BY <1>1 DEF DeletionsAtZero, DeadAtZero, Keys
<1>4. TreeInv'
  BY StutterPreserves
<1> QED BY <1>2, <1>3, <1>4

LEMMA LogFacts ==
  ASSUME NEW s \in Seq([key : Key, value : Value])
  PROVE  /\ Len(s) \in Nat
         /\ DOMAIN s = 1 .. Len(s)
         /\ \A n \in 0 .. Len(s) - 1 : s[n + 1].key \in Key /\ s[n + 1].value \in Value
<1>1. Len(s) \in Nat /\ DOMAIN s = 1 .. Len(s)
  BY LenProperties
<1>2. ASSUME NEW n \in 0 .. Len(s) - 1
      PROVE  s[n + 1].key \in Key /\ s[n + 1].value \in Value
  <2>1. n + 1 \in 1 .. Len(s)
    BY <1>1
  <2>2. s[n + 1] \in [key : Key, value : Value]
    BY <2>1, ElementOfSeq
  <2> QED BY <2>2
<1> QED BY <1>1, <1>2

LEMMA PointersKept ==
  ASSUME Data, PointersValid, NEW m, DOMAIN m \in SUBSET Key, Converted(m),
         streamOk, streamOk' = streamOk, hole' = hole
  PROVE  PointersValid'
<1>1. /\ Len(log) \in Nat /\ DOMAIN log = 1 .. Len(log)
      /\ hole \in Nat /\ hole <= Len(log)
  BY LogFacts DEF Data
<1>2. /\ log' \in Seq([key : Key, value : Value])
      /\ Len(log') \in Nat /\ Len(log') >= Len(log)
  BY <1>1, LogFacts DEF Converted
<1>3. ASSUME NEW k \in Key, Visible(k)'.live
      PROVE  /\ Visible(k)'.off \in hole .. Len(log') - 1
             /\ log'[Visible(k)'.off + 1].key = k
  <2>1. CASE k \in DOMAIN m
    <3>1. m[k] = Deleted => Visible(k)' = NotFound
      BY <2>1 DEF Converted
    <3>2. m[k] # Deleted
      BY <1>3, <3>1 DEF NotFound
    <3>3. /\ Visible(k)'.off \in Len(log) .. Len(log') - 1
          /\ log'[Visible(k)'.off + 1] = [key |-> k, value |-> m[k]]
      BY <2>1, <3>2 DEF Converted
    <3> QED BY <1>1, <1>2, <3>3
  <2>2. CASE k \notin DOMAIN m
    <3>1. Visible(k)' = Visible(k)
      BY <2>2 DEF Converted
    <3>2. Visible(k).off \in hole .. Len(log) - 1 /\ log[Visible(k).off + 1].key = k
      BY <1>3, <3>1 DEF PointersValid, Readable
    <3>3. Visible(k).off + 1 \in DOMAIN log
      BY <1>1, <3>2
    <3>4. log'[Visible(k).off + 1] = log[Visible(k).off + 1]
      BY <3>3 DEF Converted
    <3> QED BY <1>1, <1>2, <3>1, <3>2, <3>4
  <2> QED BY <2>1, <2>2
<1> HIDE DEF Visible
<1> QED BY <1>3 DEF PointersValid, Readable

(* What a key that is not in the MemTable shows before and after.          *)
LEMMA ShownKept ==
  ASSUME Data, PointersValid, NEW k \in Key,
         k \notin DOMAIN memtable, k \notin DOMAIN memtable',
         Visible(k)' = Visible(k), \A i \in DOMAIN log : log'[i] = log[i]
  PROVE  Shows(k)' = Shows(k)
<1>1. Len(log) \in Nat /\ DOMAIN log = 1 .. Len(log) /\ hole \in Nat
  BY LogFacts DEF Data
<1>2. CASE Visible(k).live
  <2>1. Visible(k).off \in hole .. Len(log) - 1
    BY <1>2 DEF PointersValid, Readable
  <2>2. Visible(k).off + 1 \in DOMAIN log
    BY <1>1, <2>1
  <2> QED BY <1>2, <2>2 DEF Shows
<1>3. CASE ~Visible(k).live
  BY <1>3 DEF Shows
<1> QED BY <1>2, <1>3

(* What put does to MemTable, tables and log, for a client or for gc.      *)
Stored(k, v, flush, back) ==
  /\ DOMAIN memtable' = DOMAIN memtable \cup {k}
  /\ memtable' \in [DOMAIN memtable' -> Value \cup {Deleted}]
  /\ memtable'[k] = v
  /\ \A j \in DOMAIN memtable : j # k => memtable'[j] = memtable[j]
  /\ Cardinality(DOMAIN memtable') \in Nat
  /\ Cardinality(DOMAIN memtable') <= Cardinality(DOMAIN memtable) + 1
  /\ Cardinality(DOMAIN memtable') <= MemtableThreshold
  /\ TreeInv' /\ DeletionsAtZero'
  /\ \/ /\ pc' = back
        /\ log' = log
        /\ Cardinality(DOMAIN memtable') < MemtableThreshold
        /\ \A j : Visible(j)' = Visible(j)
     \/ /\ pc' = flush
        /\ Converted(memtable')

LEMMA StoreSteps ==
  ASSUME PlainData, KVInv, pc \in {"ready", "gc"},
         NEW k \in Key, NEW v \in Value \cup {Deleted}, NEW flush, NEW back,
         Store(k, v, flush, back),
         Len(log) + Cardinality(DOMAIN memtable) + 1 <= MaxLog
  PROVE  Stored(k, v, flush, back)
<1>1. Data /\ streamOk /\ TreeInv /\ DeletionsAtZero
  BY DataHolds DEF KVInv, GcWindow
<1>2. /\ DOMAIN memtable' = DOMAIN memtable \cup {k}
      /\ memtable' \in [DOMAIN memtable' -> Value \cup {Deleted}]
      /\ memtable'[k] = v
      /\ \A j \in DOMAIN memtable : j # k => memtable'[j] = memtable[j]
  <2>1. memtable' = [j \in DOMAIN memtable \cup {k} |-> IF j = k THEN v ELSE memtable[j]]
    BY DEF Store, With
  <2> QED BY <1>1, <2>1 DEF Data
<1>3. DOMAIN memtable' \in SUBSET Key /\ DOMAIN memtable' # {}
  BY <1>1, <1>2 DEF Data
<1>4. /\ IsFiniteSet(DOMAIN memtable) /\ Cardinality(DOMAIN memtable) \in Nat
      /\ Cardinality(DOMAIN memtable) < MemtableThreshold
  BY <1>1, KeySetFinite, FS_CardinalityType DEF Data, KVInv, MemtableHasRoom
<1>5. /\ Cardinality(DOMAIN memtable') \in Nat
      /\ Cardinality(DOMAIN memtable') <= Cardinality(DOMAIN memtable) + 1
      /\ Cardinality(DOMAIN memtable') <= MemtableThreshold
  <2>1. Cardinality(DOMAIN memtable') \in {Cardinality(DOMAIN memtable), Cardinality(DOMAIN memtable) + 1}
    BY <1>2, <1>4, FS_AddElement
  <2>2. MemtableThreshold \in Nat
    BY ThresholdAssumption
  <2> QED BY <1>4, <2>1, <2>2
<1>6. CASE Cardinality(DOMAIN memtable') >= MemtableThreshold
  <2>1. Convert(memtable') /\ pc' = flush
    BY <1>6 DEF Store
  <2>2. Len(log) + Cardinality(DOMAIN memtable') <= MaxLog
    <3>1. Len(log) \in Nat /\ MaxLog \in Nat
      BY <1>1, LogFacts, LogAssumption DEF Data
    <3> QED BY <1>4, <1>5, <3>1
  <2>3. log \in Seq([key : Key, value : Value])
    BY <1>1 DEF Data
  <2>4. \A j \in DOMAIN memtable' : memtable'[j] \in Value \cup {Deleted}
    BY <1>2
  <2>5. TreeInv' /\ DeletionsAtZero' /\ Converted(memtable')
    BY <1>1, <1>3, <1>5, <2>1, <2>2, <2>3, <2>4, ConvertSteps
  <2> QED BY <1>2, <1>5, <2>1, <2>5 DEF Stored
<1>7. CASE ~(Cardinality(DOMAIN memtable') >= MemtableThreshold)
  <2>1. pc' = back /\ UNCHANGED <<treeVars, log>>
    BY <1>7 DEF Store
  <2>2. TreeInv' /\ DeletionsAtZero' /\ \A j : Visible(j)' = Visible(j)
    BY <1>1, <2>1, SameTree
  <2>3. Cardinality(DOMAIN memtable') < MemtableThreshold
    BY <1>5, <1>7, ThresholdAssumption
  <2> QED BY <1>2, <1>5, <2>1, <2>2, <2>3 DEF Stored
<1> QED BY <1>6, <1>7

----------------------------------------------------------------------------
(* The invariant in parts, and get in the two states of a step.            *)

LEMMA InvFacts ==
  ASSUME PlainData, KVInv
  PROVE  /\ Data /\ streamOk = TRUE /\ TreeInv /\ DeletionsAtZero /\ PointersValid
         /\ Len(log) \in Nat /\ DOMAIN log = 1 .. Len(log)
         /\ hole \in Nat /\ hole <= Len(log) /\ gcPos \in Nat /\ gcLeft \in Int
         /\ MaxLog \in Nat
         /\ IsFiniteSet(DOMAIN memtable)
         /\ Cardinality(DOMAIN memtable) \in Nat
         /\ \A k \in DOMAIN memtable : memtable[k] \in Value \cup {Deleted} /\ memtable[k] # Empty
         /\ \A k : MemGet(k) # Empty <=> k \in DOMAIN memtable
         /\ \A k \in Key : Visible(k).live => Visible(k).off \in hole .. Len(log) - 1
<1>1. Data /\ TreeInv /\ DeletionsAtZero /\ PointersValid
  BY DataHolds DEF KVInv
<1>2. streamOk = TRUE
  BY DEF KVInv, KVTypeOK, GcWindow
<1>3. /\ Len(log) \in Nat /\ DOMAIN log = 1 .. Len(log)
      /\ hole \in Nat /\ hole <= Len(log) /\ gcPos \in Nat /\ gcLeft \in Int
  BY <1>1, LogFacts DEF Data
<1>4. MaxLog \in Nat
  BY LogAssumption
<1>5. IsFiniteSet(DOMAIN memtable) /\ Cardinality(DOMAIN memtable) \in Nat
  BY <1>1, KeySetFinite, FS_CardinalityType DEF Data
<1>6. \A k \in DOMAIN memtable : memtable[k] \in Value \cup {Deleted} /\ memtable[k] # Empty
  BY StringAssumption DEF KVInv, OnlyValues, PlainData
<1>7. \A k : MemGet(k) # Empty <=> k \in DOMAIN memtable
  BY <1>6 DEF MemGet
<1>8. \A k \in Key : Visible(k).live => Visible(k).off \in hole .. Len(log) - 1
  BY <1>1 DEF PointersValid, Readable
<1> QED BY <1>1, <1>2, <1>3, <1>4, <1>5, <1>6, <1>7, <1>8

LEMMA GetBoth ==
  ASSUME PlainData, KVInv, KVInv', NEW k \in Key
  PROVE  Get(k) = Shows(k) /\ Get(k)' = Shows(k)'
<1>1. Get(k) = Shows(k)
  BY GetShows DEF KVInv
<1>2. (PlainData /\ OnlyValues /\ PointersValid)'
  BY DEF KVInv, PlainData, KeysFitInt
<1>3. (\A j \in Key : Get(j) = Shows(j))'
  BY <1>2, NextGetShows
<1> QED BY <1>1, <1>3

(* The invariant after a step, from what the steps show one by one.        *)
LEMMA InvFromParts ==
  ASSUME TreeInv', Data', streamOk' = TRUE, DeletionsAtZero', PointersValid',
         MemtableHasRoom', GcWindow', GcProgress', FlushedAgrees'
  PROVE  KVInv'
<1>1. KVTypeOK' /\ OnlyValues'
  BY NextTypes
<1> QED BY <1>1 DEF KVInv

(* What every key shows after a put of v under k.                          *)
LEMMA ShownAfterStore ==
  ASSUME PlainData, KVInv, NEW k \in Key, NEW v, NEW flush, NEW back,
         Stored(k, v, flush, back), NEW j \in Key
  PROVE  Shows(j)' = IF j = k THEN IF v = Deleted THEN Empty ELSE v ELSE Shows(j)
<1>1. CASE j = k
  <2>1. j \in DOMAIN memtable' /\ memtable'[j] = v
    BY <1>1 DEF Stored
  <2> QED BY <1>1, <2>1 DEF Shows
<1>2. CASE j # k /\ j \in DOMAIN memtable
  <2>1. j \in DOMAIN memtable' /\ memtable'[j] = memtable[j]
    BY <1>2 DEF Stored
  <2> QED BY <1>2, <2>1 DEF Shows
<1>3. CASE j # k /\ j \notin DOMAIN memtable
  <2>1. j \notin DOMAIN memtable'
    BY <1>3 DEF Stored
  <2>2. Visible(j)' = Visible(j) /\ \A i \in DOMAIN log : log'[i] = log[i]
    BY <2>1 DEF Stored, Converted
  <2> QED BY <1>3, <2>1, <2>2, InvFacts, ShownKept
<1> QED BY <1>1, <1>2, <1>3

(* Types and pointers after a put.                                         *)
LEMMA StoredData ==
  ASSUME PlainData, KVInv, NEW k \in Key, NEW v, NEW flush, NEW back,
         Stored(k, v, flush, back),
         UNCHANGED <<hole, streamOk>>,
         pc' \in {"ready", "putFlush", "gc", "gcFlush", "lastFlush"},
         gcPos' \in Nat, gcLeft' \in Int
  PROVE  /\ Data' /\ PointersValid'
         /\ Len(log') \in Nat
         /\ Len(log) <= Len(log')
<1>1. /\ Data /\ streamOk /\ PointersValid /\ Len(log) \in Nat
      /\ hole \in Nat /\ hole <= Len(log)
  BY InvFacts
<1>2. DOMAIN memtable' \in SUBSET Key
  BY <1>1 DEF Data, Stored
<1>3. log' \in Seq([key : Key, value : Value]) /\ Len(log') \in Nat /\ Len(log) <= Len(log')
  <2>1. CASE log' = log
    BY <1>1, <2>1 DEF Data
  <2>2. CASE Converted(memtable')
    <3>1. Len(log') \in Len(log) .. Len(log) + Cardinality(DOMAIN memtable')
      BY <2>2 DEF Converted
    <3>2. Cardinality(DOMAIN memtable') \in Nat
      BY DEF Stored
    <3> QED BY <1>1, <2>2, <3>1, <3>2 DEF Converted
  <2> QED BY <2>1, <2>2 DEF Stored
<1>4. Data'
  BY <1>1, <1>2, <1>3 DEF Data, Stored
<1>5. PointersValid'
  <2>1. CASE log' = log /\ \A j : Visible(j)' = Visible(j)
    BY <1>1, <2>1 DEF PointersValid, Readable
  <2>2. CASE Converted(memtable')
    BY <1>1, <1>2, <2>2, PointersKept
  <2> QED BY <2>1, <2>2 DEF Stored
<1> QED BY <1>3, <1>4, <1>5

(* put and del.                                                            *)
LEMMA PutSteps ==
  ASSUME PlainData, KVInv, pc = "ready", Room(1, 0),
         NEW k \in Key, NEW v \in Value \cup {Deleted},
         Store(k, v, "putFlush", "ready"),
         UNCHANGED <<hole, streamOk, gcPos, gcLeft>>
  PROVE  /\ KVInv'
         /\ \A j \in Key :
              Get(j)' = IF j = k THEN IF v = Deleted THEN Empty ELSE v ELSE Get(j)
<1>1. /\ streamOk = TRUE /\ Len(log) \in Nat /\ Cardinality(DOMAIN memtable) \in Nat
      /\ gcPos \in Nat /\ gcLeft \in Int
  BY InvFacts
<1>2. Stored(k, v, "putFlush", "ready")
  <2>1. Len(log) + Cardinality(DOMAIN memtable) + 1 <= MaxLog
    BY <1>1, LogAssumption DEF Room
  <2> QED BY <2>1, StoreSteps
<1>3. pc' \in {"ready", "putFlush"} /\ TreeInv' /\ DeletionsAtZero'
  BY <1>2 DEF Stored
<1>4. Data' /\ PointersValid'
  BY <1>1, <1>2, <1>3, StoredData
<1>5. MemtableHasRoom'
  BY <1>2 DEF Stored, MemtableHasRoom
<1>6. GcWindow' /\ GcProgress'
  BY <1>1, <1>3 DEF GcWindow, GcProgress
<1>7. FlushedAgrees'
  <2>1. CASE pc' = "ready"
    BY <2>1 DEF FlushedAgrees
  <2>2. CASE pc' # "ready"
    <3>1. pc' = "putFlush" /\ Converted(memtable')
      BY <1>2, <2>2 DEF Stored
    <3>2. ASSUME NEW j \in DOMAIN memtable'
          PROVE  IF memtable'[j] = Deleted THEN ~Visible(j)'.live
                 ELSE /\ Visible(j)'.live
                      /\ log'[Visible(j)'.off + 1].value = memtable'[j]
      BY <3>1, ConvertedPair
    <3> QED BY <3>1, <3>2 DEF FlushedAgrees
  <2> QED BY <2>1, <2>2
<1>8. KVInv'
  BY <1>1, <1>3, <1>4, <1>5, <1>6, <1>7, InvFromParts
<1> QED BY <1>2, <1>8, ShownAfterStore, GetBoth

(* The compactions of a conversion.                                        *)
LEMMA CompactionKeeps ==
  ASSUME PlainData, KVInv, Compaction
  PROVE  KVInv' /\ \A k \in Key : Get(k)' = Get(k)
<1>1. /\ Data /\ streamOk = TRUE /\ TreeInv /\ DeletionsAtZero /\ PointersValid
  BY InvFacts
<1>2. /\ pc \in {"putFlush", "gcFlush", "lastFlush"}
      /\ CompactStep
      /\ UNCHANGED <<memtable, log, hole, streamOk, pc, gcPos, gcLeft>>
  BY DEF Compaction
<1>3. TreeInv' /\ DeletionsAtZero' /\ \A k \in Key : Visible(k)' = Visible(k)
  BY <1>1, <1>2, CompactionSteps
<1>4. Data'
  BY <1>1, <1>2 DEF Data
<1>5. PointersValid'
  BY <1>2, <1>3 DEF KVInv, PointersValid, Readable
<1>6. MemtableHasRoom' /\ GcWindow'
  BY <1>2 DEF KVInv, MemtableHasRoom, GcWindow
<1>7. GcProgress'
  BY <1>2, <1>3 DEF KVInv, GcProgress, MemGet
<1>8. FlushedAgrees'
  BY <1>1, <1>2, <1>3 DEF KVInv, FlushedAgrees, Data
<1>9. KVInv'
  BY <1>1, <1>2, <1>3, <1>4, <1>5, <1>6, <1>7, <1>8, InvFromParts
<1>10. ASSUME NEW k \in Key
       PROVE  Shows(k)' = Shows(k)
  BY <1>2, <1>3 DEF Shows
<1> QED BY <1>9, <1>10, GetBoth

(* An emptied MemTable.                                                    *)
LEMMA EmptyMemtable ==
  ASSUME memtable' = NoEntries
  PROVE  /\ DOMAIN memtable' = {}
         /\ memtable' \in [DOMAIN memtable' -> Value \cup {Deleted}]
         /\ Cardinality(DOMAIN memtable') = 0
         /\ \A k : MemGet(k)' = Empty
<1>1. DOMAIN memtable' = {} /\ memtable' \in [DOMAIN memtable' -> Value \cup {Deleted}]
  BY DEF NoEntries
<1>2. Cardinality(DOMAIN memtable') = 0
  BY <1>1, FS_EmptySet
<1> QED BY <1>1, <1>2 DEF MemGet

(* Cleaning a converted MemTable: get finds in the tables what it has      *)
(* found in the MemTable.                                                  *)
LEMMA ShownAfterClean ==
  ASSUME PlainData, KVInv, pc \in {"putFlush", "gcFlush", "lastFlush"},
         memtable' = NoEntries, log' = log, NEW k \in Key, Visible(k)' = Visible(k)
  PROVE  Shows(k)' = Shows(k)
<1>1. k \notin DOMAIN memtable'
  BY EmptyMemtable
<1>2. CASE k \in DOMAIN memtable
  <2>1. IF memtable[k] = Deleted THEN ~Visible(k).live
        ELSE Visible(k).live /\ log[Visible(k).off + 1].value = memtable[k]
    BY <1>2 DEF KVInv, FlushedAgrees
  <2> QED BY <1>1, <1>2, <2>1 DEF Shows
<1>3. CASE k \notin DOMAIN memtable
  BY <1>1, <1>3 DEF Shows
<1> QED BY <1>2, <1>3

(* At the end of a conversion in gc no table places a key before the scan. *)
LEMMA AllBehindScan ==
  ASSUME PlainData, KVInv, pc \in {"gcFlush", "lastFlush"}, NEW k \in Key, Visible(k).live
  PROVE  Visible(k).off \in gcPos .. Len(log) - 1
<1>1. /\ Visible(k).off \in hole .. Len(log) - 1 /\ hole \in Nat /\ gcPos \in Nat
      /\ Len(log) \in Nat
      /\ MemGet(k) # Empty <=> k \in DOMAIN memtable
  BY InvFacts
<1>2. CASE k \in DOMAIN memtable
  <2>1. Visible(k).off >= gcPos
    BY <1>2 DEF KVInv, FlushedAgrees
  <2> QED BY <1>1, <2>1
<1>3. CASE k \notin DOMAIN memtable
  <2>1. ~(Visible(k).off < gcPos)
    BY <1>1, <1>3 DEF KVInv, GcProgress
  <2> QED BY <1>1, <2>1
<1> QED BY <1>2, <1>3

LEMMA CleanKeeps ==
  ASSUME PlainData, KVInv, Clean
  PROVE  KVInv' /\ \A k \in Key : Get(k)' = Get(k)
<1>1. /\ Data /\ streamOk = TRUE /\ TreeInv /\ DeletionsAtZero /\ PointersValid
      /\ gcPos \in Nat /\ gcLeft \in Int /\ Len(log) \in Nat /\ MaxLog \in Nat
  BY InvFacts
<1>2. /\ pc \in {"putFlush", "gcFlush"}
      /\ memtable' = NoEntries
      /\ pc' = IF pc = "putFlush" THEN "ready" ELSE "gc"
      /\ UNCHANGED <<treeVars, log, hole, streamOk, gcPos, gcLeft>>
  BY DEF Clean
<1>3. TreeInv' /\ DeletionsAtZero' /\ \A k : Visible(k)' = Visible(k)
  BY <1>1, <1>2, SameTree
<1>4. /\ DOMAIN memtable' = {}
      /\ memtable' \in [DOMAIN memtable' -> Value \cup {Deleted}]
      /\ Cardinality(DOMAIN memtable') = 0
      /\ \A k : MemGet(k)' = Empty
  BY <1>2, EmptyMemtable
<1>5. Data'
  BY <1>1, <1>2, <1>4 DEF Data
<1>6. PointersValid'
  BY <1>1, <1>2, <1>3 DEF PointersValid, Readable
<1>7. MemtableHasRoom'
  BY <1>4, ThresholdAssumption DEF MemtableHasRoom
<1>8. GcWindow'
  <2>1. CASE pc = "putFlush"
    BY <1>1, <1>2, <2>1 DEF GcWindow
  <2>2. CASE pc = "gcFlush"
    BY <1>1, <1>2, <1>4, <2>2 DEF KVInv, GcWindow
  <2> QED BY <1>2, <2>1, <2>2
<1>9. GcProgress'
  <2>1. CASE pc = "putFlush"
    BY <1>2, <2>1 DEF GcProgress
  <2>2. CASE pc = "gcFlush"
    <3>1. \A k \in Key : Visible(k).live => Visible(k).off \in gcPos .. Len(log) - 1
      BY <2>2, AllBehindScan
    <3>2. \A k \in Key : Visible(k)'.live => ~(Visible(k)'.off < gcPos')
      BY <1>1, <1>2, <1>3, <3>1
    <3> QED BY <3>2 DEF GcProgress
  <2> QED BY <1>2, <2>1, <2>2
<1>10. FlushedAgrees'
  BY <1>2 DEF FlushedAgrees
<1>11. KVInv'
  BY <1>1, <1>2, <1>3, <1>5, <1>6, <1>7, <1>8, <1>9, <1>10, InvFromParts
<1>12. \A k \in Key : Shows(k)' = Shows(k)
  BY <1>2, <1>3, ShownAfterClean
<1> QED BY <1>11, <1>12, GetBoth

LEMMA ResetEmpties ==
  ASSUME PlainData, KVInv, Reset
  PROVE  KVInv' /\ \A k \in Key : Get(k)' = Empty
<1>1. /\ Data /\ TreeInv /\ gcPos \in Nat /\ gcLeft \in Int
  BY InvFacts
<1>2. /\ pc = "ready" /\ ResetTree
      /\ memtable' = NoEntries /\ log' = <<>> /\ hole' = 0 /\ streamOk' = TRUE
      /\ UNCHANGED <<pc, gcPos, gcLeft>>
  BY DEF Reset
<1>3. TreeInv' /\ \A k \in Key : Visible(k)' = NotFound
  BY <1>1, <1>2, ResetPreserves, ResetSteps DEF PlainData
<1>4. /\ DOMAIN memtable' = {}
      /\ memtable' \in [DOMAIN memtable' -> Value \cup {Deleted}]
      /\ Cardinality(DOMAIN memtable') = 0
  BY <1>2, EmptyMemtable
<1>5. Data'
  <2>1. log' \in Seq([key : Key, value : Value]) /\ hole' \in 0 .. Len(log')
    BY <1>2
  <2> QED BY <1>1, <1>2, <1>4, <2>1 DEF Data
<1>6. DeletionsAtZero'
  BY <1>2 DEF ResetTree, DeletionsAtZero
<1>7. PointersValid'
  BY <1>3 DEF PointersValid, NotFound
<1>8. MemtableHasRoom'
  BY <1>4, ThresholdAssumption DEF MemtableHasRoom
<1>9. GcWindow' /\ GcProgress' /\ FlushedAgrees'
  BY <1>2 DEF GcWindow, GcProgress, FlushedAgrees
<1>10. KVInv'
  BY <1>2, <1>3, <1>5, <1>6, <1>7, <1>8, <1>9, InvFromParts
<1>11. \A k \in Key : Shows(k)' = Empty
  BY <1>3, <1>4 DEF Shows, NotFound
<1> QED BY <1>10, <1>11, GetBoth

----------------------------------------------------------------------------
(* Garbage collection.                                                     *)

LEMMA SameLookups ==
  ASSUME UNCHANGED treeVars
  PROVE  \A k : Lookup(k)' = Lookup(k)
BY DEF treeVars, Lookup, Level0Hits, LevelHits

LEMMA GcStartKeeps ==
  ASSUME PlainData, KVInv, NEW chunk \in 0 .. MaxChunk,
         NoOvershoot(chunk), FirstEntryNotDeleted, GcStart(chunk)
  PROVE  KVInv' /\ \A k \in Key : Get(k)' = Get(k)
<1>1. /\ Data /\ streamOk = TRUE /\ TreeInv /\ DeletionsAtZero /\ PointersValid
      /\ hole \in Nat /\ Len(log) \in Nat /\ MaxLog \in Nat
      /\ Cardinality(DOMAIN memtable) \in Nat
      /\ \A k \in Key : Visible(k).live => Visible(k).off \in hole .. Len(log) - 1
  BY InvFacts
<1>2. chunk \in Nat /\ hole < Len(log) /\ hole + chunk <= Len(log)
  BY LogAssumption DEF NoOvershoot
<1>3. /\ pc = "ready" /\ Room(chunk, 1)
      /\ pc' = "gc" /\ gcLeft' = chunk
      /\ streamOk' = Readable(hole)
      /\ gcPos' = hole
      /\ UNCHANGED <<treeVars, memtable, log, hole>>
  BY <1>1 DEF GcStart
<1>4. streamOk' = TRUE
  <2>1. hole \in hole .. Len(log) - 1
    BY <1>1, <1>2
  <2>2. Readable(hole) = TRUE
    BY <1>1, <2>1 DEF Readable
  <2> QED BY <1>3, <2>2
<1>5. TreeInv' /\ DeletionsAtZero' /\ \A k : Visible(k)' = Visible(k)
  BY <1>1, <1>3, SameTree
<1>6. Data'
  BY <1>1, <1>2, <1>3 DEF Data
<1>7. PointersValid'
  BY <1>1, <1>3, <1>4, <1>5 DEF PointersValid, Readable
<1>8. MemtableHasRoom'
  BY <1>3 DEF KVInv, MemtableHasRoom
<1>9. GcWindow'
  <2>1. Len(log) + Cardinality(DOMAIN memtable) + chunk <= MaxLog
    BY <1>1, <1>2, <1>3 DEF Room
  <2>2. FirstEntryNotDeleted'
    <3>1. \A k : Lookup(k)' = Lookup(k)
      BY <1>3, SameLookups
    <3> QED BY <1>3, <3>1 DEF FirstEntryNotDeleted, MemGet
  <2> QED BY <1>1, <1>2, <1>3, <1>4, <2>1, <2>2 DEF GcWindow
<1>10. GcProgress'
  <2>1. \A k \in Key : Visible(k)'.live => ~(Visible(k)'.off < gcPos')
    BY <1>1, <1>3, <1>5
  <2> QED BY <2>1 DEF GcProgress
<1>11. FlushedAgrees'
  BY <1>3 DEF FlushedAgrees
<1>12. KVInv'
  BY <1>4, <1>5, <1>6, <1>7, <1>8, <1>9, <1>10, <1>11, InvFromParts
<1>13. \A k \in Key : Shows(k)' = Shows(k)
  BY <1>3, <1>5 DEF Shows
<1> QED BY <1>12, <1>13, GetBoth

(* The entry gc stands on, and the key it is current for, if any.          *)
LEMMA ScannedEntry ==
  ASSUME PlainData, KVInv, pc = "gc", gcLeft > 0
  PROVE  /\ Readable(gcPos)
         /\ log[gcPos + 1].key \in Key /\ log[gcPos + 1].value \in Value
         /\ gcPos + 1 + (gcLeft - 1) <= Len(log) /\ gcPos + 1 <= Len(log) /\ hole <= gcPos
         /\ \A k \in Key : Visible(k).live /\ Visible(k).off = gcPos => k = log[gcPos + 1].key
<1>1. /\ Data /\ streamOk = TRUE /\ PointersValid
      /\ hole \in Nat /\ Len(log) \in Nat /\ gcPos \in Nat /\ gcLeft \in Int
  BY InvFacts
<1>2. hole <= gcPos /\ gcPos + gcLeft <= Len(log)
  BY DEF KVInv, GcWindow
<1>3. gcPos \in hole .. Len(log) - 1 /\ gcPos \in 0 .. Len(log) - 1
  BY <1>1, <1>2
<1>4. log[gcPos + 1].key \in Key /\ log[gcPos + 1].value \in Value
  BY <1>1, <1>3, LogFacts DEF Data
<1>5. \A k \in Key : Visible(k).live /\ Visible(k).off = gcPos => k = log[gcPos + 1].key
  BY <1>1 DEF PointersValid
<1> QED BY <1>1, <1>2, <1>3, <1>4, <1>5 DEF Readable

(* gc never reads where there is no entry.                                 *)
LEMMA NoGcNoEntry ==
  ASSUME PlainData, KVInv
  PROVE  ~GcNoEntry
BY ScannedEntry DEF GcNoEntry

(* An entry that is not superseded is what get answers for its key.        *)
LEMMA CurrentEntry ==
  ASSUME PlainData, KVInv, pc = "gc", gcLeft > 0,
         ~Superseded(log[gcPos + 1].key)
  PROVE  LET k == log[gcPos + 1].key
         IN  /\ k \notin DOMAIN memtable
             /\ Visible(k).live /\ Visible(k).off = gcPos
<1> DEFINE k == log[gcPos + 1].key
<1>1. /\ TreeInv /\ DeletionsAtZero /\ gcPos \in Nat /\ hole \in Nat
      /\ MemGet(k) # Empty <=> k \in DOMAIN memtable
  BY InvFacts
<1>2. k \in Key /\ hole <= gcPos
  BY ScannedEntry
<1>3. MemGet(k) = Empty /\ Lookup(k).off = gcPos
  BY DEF Superseded
<1>4. Lookup(k).live
  <2>1. SUFFICES ASSUME ~Lookup(k).live PROVE FALSE
    OBVIOUS
  <2>2. gcPos \in {0, -1}
    BY <1>1, <1>2, <1>3, <2>1, DeadLookup
  <2>3. gcPos = 0 /\ hole = 0
    BY <1>1, <1>2, <2>2
  <2>4. FirstEntryNotDeleted
    BY <2>3 DEF KVInv, GcWindow
  <2>5. k = log[1].key
    BY <2>3
  <2> QED BY <1>3, <2>1, <2>3, <2>4, <2>5 DEF FirstEntryNotDeleted
<1>5. Visible(k) = Lookup(k)
  BY <1>4 DEF Visible
<1> QED BY <1>1, <1>3, <1>4, <1>5

LEMMA SkipKeeps ==
  ASSUME PlainData, KVInv, GcEntry, Superseded(log[gcPos + 1].key)
  PROVE  KVInv' /\ \A k \in Key : Get(k)' = Get(k)
<1> DEFINE e == log[gcPos + 1]
<1>1. /\ Data /\ streamOk = TRUE /\ TreeInv /\ DeletionsAtZero /\ PointersValid
      /\ hole \in Nat /\ Len(log) \in Nat /\ MaxLog \in Nat
      /\ gcPos \in Nat /\ gcLeft \in Int
      /\ Cardinality(DOMAIN memtable) \in Nat
      /\ \A k \in Key : Visible(k).live => Visible(k).off \in hole .. Len(log) - 1
  BY InvFacts
<1>2. /\ pc = "gc" /\ gcLeft > 0
      /\ gcPos' = gcPos + 1 /\ gcLeft' = gcLeft - 1
      /\ UNCHANGED <<hole, streamOk, treeVars, memtable, log, pc>>
  BY DEF GcEntry, Examine, Advance
<1>3. /\ gcPos + 1 <= Len(log) /\ hole <= gcPos
      /\ \A k \in Key : Visible(k).live /\ Visible(k).off = gcPos => k = e.key
  BY <1>2, ScannedEntry
<1>4. TreeInv' /\ DeletionsAtZero' /\ \A k : Visible(k)' = Visible(k)
  BY <1>1, <1>2, SameTree
<1>5. Data' /\ PointersValid' /\ MemtableHasRoom' /\ FlushedAgrees'
  BY <1>1, <1>2, <1>4
     DEF Data, KVInv, PointersValid, Readable, MemtableHasRoom, FlushedAgrees
<1>6. GcWindow'
  BY <1>1, <1>2, <1>3 DEF KVInv, GcWindow
<1>7. GcProgress'
  <2>1. ASSUME NEW k \in Key, Visible(k).live, Visible(k).off < gcPos + 1
        PROVE  MemGet(k) # Empty
    <3>1. Visible(k).off \in Int
      BY <1>1, <2>1
    <3>2. CASE Visible(k).off < gcPos
      BY <1>2, <2>1, <3>2 DEF KVInv, GcProgress
    <3>3. CASE Visible(k).off = gcPos
      <4>1. k = e.key
        BY <1>3, <2>1, <3>3
      <4>2. Visible(k) = Lookup(k)
        BY <2>1 DEF Visible, NotFound
      <4> QED BY <3>3, <4>1, <4>2 DEF Superseded
    <3> QED BY <1>1, <2>1, <3>1, <3>2, <3>3
  <2> QED BY <1>2, <1>4, <2>1 DEF GcProgress, MemGet
<1>8. KVInv'
  BY <1>1, <1>2, <1>4, <1>5, <1>6, <1>7, InvFromParts
<1>9. \A k \in Key : Shows(k)' = Shows(k)
  BY <1>2, <1>4 DEF Shows
<1> QED BY <1>8, <1>9, GetBoth

LEMMA MoveKeeps ==
  ASSUME PlainData, KVInv, GcEntry, ~Superseded(log[gcPos + 1].key)
  PROVE  KVInv' /\ \A k \in Key : Get(k)' = Get(k)
<1> DEFINE k == log[gcPos + 1].key
           v == log[gcPos + 1].value
<1>1. /\ Data /\ streamOk = TRUE /\ TreeInv /\ DeletionsAtZero /\ PointersValid
      /\ hole \in Nat /\ Len(log) \in Nat /\ MaxLog \in Nat
      /\ gcPos \in Nat /\ gcLeft \in Int
      /\ Cardinality(DOMAIN memtable) \in Nat
      /\ \A j : MemGet(j) # Empty <=> j \in DOMAIN memtable
      /\ \A j \in Key : Visible(j).live => Visible(j).off \in hole .. Len(log) - 1
  BY InvFacts
<1>2. /\ pc = "gc" /\ gcLeft > 0
      /\ gcPos' = gcPos + 1 /\ gcLeft' = gcLeft - 1
      /\ UNCHANGED <<hole, streamOk>>
      /\ Store(k, v, "gcFlush", "gc")
  BY DEF GcEntry, Examine, Advance
<1>3. /\ k \in Key /\ v \in Value
      /\ gcPos + 1 + (gcLeft - 1) <= Len(log) /\ gcPos + 1 <= Len(log) /\ hole <= gcPos
      /\ \A j \in Key : Visible(j).live /\ Visible(j).off = gcPos => j = k
  BY <1>2, ScannedEntry
<1>4. Len(log) + Cardinality(DOMAIN memtable) + gcLeft <= MaxLog
  BY <1>2 DEF KVInv, GcWindow
<1>5. Stored(k, v, "gcFlush", "gc")
  <2>1. Len(log) + Cardinality(DOMAIN memtable) + 1 <= MaxLog
    BY <1>1, <1>2, <1>4
  <2> HIDE DEF k, v
  <2> QED BY <1>2, <1>3, <2>1, StoreSteps
<1>6. k \notin DOMAIN memtable /\ Visible(k).live /\ Visible(k).off = gcPos
  BY <1>2, CurrentEntry
<1>7. v # Deleted /\ v = Shows(k)
  BY <1>3, <1>6 DEF PlainData, Shows
<1> HIDE DEF k, v
<1>8. pc' \in {"gc", "gcFlush"} /\ TreeInv' /\ DeletionsAtZero'
  BY <1>5 DEF Stored
<1>9. Data' /\ PointersValid' /\ Len(log') \in Nat /\ Len(log) <= Len(log')
  BY <1>1, <1>2, <1>3, <1>5, <1>8, StoredData
<1>10. /\ Cardinality(DOMAIN memtable') \in Nat
       /\ Cardinality(DOMAIN memtable') <= Cardinality(DOMAIN memtable) + 1
       /\ \A j \in DOMAIN memtable' : memtable'[j] # Empty
       /\ DOMAIN memtable' = DOMAIN memtable \cup {k}
  <2>1. \A j \in DOMAIN memtable' : memtable'[j] # Empty
    BY <1>5, StringAssumption DEF Stored, PlainData
  <2> QED BY <1>5, <2>1 DEF Stored
<1>11. MemtableHasRoom'
  <2>1. CASE pc' = "gc"
    BY <1>5, <2>1 DEF Stored, MemtableHasRoom
  <2>2. CASE pc' = "gcFlush"
    BY <1>5, <2>2 DEF Stored, MemtableHasRoom
  <2> QED BY <1>8, <2>1, <2>2
<1>12. GcWindow'
  <2>1. CASE pc' = "gc"
    <3>1. log' = log
      BY <1>5, <2>1 DEF Stored
    <3> QED BY <1>1, <1>2, <1>3, <1>4, <1>10, <2>1, <3>1 DEF GcWindow
  <2>2. CASE pc' = "gcFlush"
    <3>1. Len(log') \in Len(log) .. Len(log) + Cardinality(DOMAIN memtable')
      BY <1>5, <2>2 DEF Stored, Converted
    <3>2. Len(log') + (gcLeft - 1) <= MaxLog
      BY <1>1, <1>2, <1>4, <1>9, <1>10, <3>1
    <3> QED BY <1>1, <1>2, <1>3, <1>9, <2>2, <3>2 DEF GcWindow
  <2> QED BY <1>8, <2>1, <2>2
<1>13. GcProgress'
  <2>1. ASSUME NEW j \in Key, Visible(j)'.live, Visible(j)'.off < gcPos + 1,
               j \notin DOMAIN memtable'
        PROVE  FALSE
    <3>1. j # k /\ MemGet(j) = Empty
      BY <1>1, <1>10, <2>1
    <3>2. Visible(j)' = Visible(j)
      BY <1>5, <2>1 DEF Stored, Converted
    <3>3. Visible(j).off \in Int /\ Visible(j).off # gcPos
      BY <1>1, <1>3, <2>1, <3>1, <3>2
    <3>4. Visible(j).off < gcPos
      BY <1>1, <2>1, <3>2, <3>3
    <3> QED BY <1>2, <2>1, <3>1, <3>2, <3>4 DEF KVInv, GcProgress
  <2>2. \A j \in DOMAIN memtable' : MemGet(j)' # Empty
    BY <1>10 DEF MemGet
  <2> QED BY <1>2, <2>1, <2>2 DEF GcProgress
<1>14. FlushedAgrees'
  <2>1. CASE pc' = "gc"
    BY <2>1 DEF FlushedAgrees
  <2>2. CASE pc' = "gcFlush"
    <3>1. Converted(memtable')
      BY <1>5, <2>2 DEF Stored
    <3>2. ASSUME NEW j \in DOMAIN memtable', memtable'[j] # Deleted
          PROVE  Visible(j)'.off >= gcPos'
      <4>1. Visible(j)'.off \in Len(log) .. Len(log') - 1
        BY <3>1, <3>2, ConvertedPair
      <4> QED BY <1>1, <1>2, <1>3, <1>9, <4>1
    <3> QED BY <2>2, <3>1, <3>2, ConvertedPair DEF FlushedAgrees
  <2> QED BY <1>8, <2>1, <2>2
<1>15. KVInv'
  BY <1>1, <1>2, <1>8, <1>9, <1>11, <1>12, <1>13, <1>14, InvFromParts
<1>16. \A j \in Key : Shows(j)' = Shows(j)
  BY <1>3, <1>5, <1>7, ShownAfterStore
<1> QED BY <1>15, <1>16, GetBoth

LEMMA GcFinishKeeps ==
  ASSUME PlainData, KVInv, GcFinish
  PROVE  KVInv' /\ \A k \in Key : Get(k)' = Get(k)
<1>1. /\ Data /\ streamOk = TRUE /\ TreeInv /\ DeletionsAtZero /\ PointersValid
      /\ hole \in Nat /\ Len(log) \in Nat /\ MaxLog \in Nat
      /\ gcPos \in Nat /\ gcLeft \in Int
      /\ Cardinality(DOMAIN memtable) \in Nat
      /\ \A k : MemGet(k) # Empty <=> k \in DOMAIN memtable
  BY InvFacts
<1>2. /\ pc = "gc" /\ gcLeft <= 0 /\ pc' = "lastFlush"
      /\ UNCHANGED <<memtable, hole, streamOk, gcPos, gcLeft>>
      /\ IF DOMAIN memtable = {} THEN UNCHANGED <<treeVars, log>> ELSE Convert(memtable)
  BY DEF GcFinish
<1>3. /\ hole <= gcPos /\ 0 <= gcLeft /\ gcPos + gcLeft <= Len(log)
      /\ Len(log) + Cardinality(DOMAIN memtable) + gcLeft <= MaxLog
  BY <1>2 DEF KVInv, GcWindow
<1>4. MemtableHasRoom'
  BY <1>2 DEF KVInv, MemtableHasRoom
<1>5. CASE DOMAIN memtable = {}
  <2>1. TreeInv' /\ DeletionsAtZero' /\ \A k : Visible(k)' = Visible(k)
    BY <1>1, <1>2, <1>5, SameTree
  <2>2. log' = log
    BY <1>2, <1>5
  <2>3. Data' /\ PointersValid' /\ FlushedAgrees'
    BY <1>1, <1>2, <1>5, <2>1, <2>2 DEF Data, PointersValid, Readable, FlushedAgrees
  <2>4. GcWindow'
    BY <1>1, <1>2, <1>3, <2>2 DEF GcWindow
  <2>5. GcProgress'
    BY <1>2, <2>1 DEF KVInv, GcProgress, MemGet
  <2>6. KVInv'
    BY <1>1, <1>2, <1>4, <2>1, <2>3, <2>4, <2>5, InvFromParts
  <2>7. \A k \in Key : Shows(k)' = Shows(k)
    BY <1>2, <2>1, <2>2 DEF Shows
  <2> QED BY <2>6, <2>7, GetBoth
<1>6. CASE DOMAIN memtable # {}
  <2>1. DOMAIN memtable \in SUBSET Key
    BY <1>1 DEF Data
  <2>2. TreeInv' /\ DeletionsAtZero' /\ Converted(memtable)
    <3>1. Convert(memtable)
      BY <1>2, <1>6
    <3>2. Len(log) + Cardinality(DOMAIN memtable) <= MaxLog
      BY <1>1, <1>3
    <3>3. Cardinality(DOMAIN memtable) <= MemtableThreshold
      BY DEF KVInv, MemtableHasRoom
    <3>4. /\ log \in Seq([key : Key, value : Value])
          /\ \A k \in DOMAIN memtable : memtable[k] \in Value \cup {Deleted}
      BY <1>1 DEF Data
    <3> QED BY <1>1, <1>6, <2>1, <3>1, <3>2, <3>3, <3>4, ConvertSteps
  <2>3. /\ log' \in Seq([key : Key, value : Value])
        /\ Len(log') \in Len(log) .. Len(log) + Cardinality(DOMAIN memtable)
        /\ \A i \in DOMAIN log : log'[i] = log[i]
        /\ \A k \in Key \ DOMAIN memtable : Visible(k)' = Visible(k)
    BY <2>2 DEF Converted
  <2>4. Len(log') \in Nat /\ Len(log) <= Len(log')
    BY <1>1, <2>3
  <2>5. Data'
    BY <1>1, <1>2, <2>3, <2>4 DEF Data
  <2>6. PointersValid'
    BY <1>1, <1>2, <2>1, <2>2, PointersKept
  <2>7. GcWindow'
    BY <1>1, <1>2, <1>3, <2>4 DEF GcWindow
  <2>8. GcProgress'
    BY <1>1, <1>2, <2>3 DEF KVInv, GcProgress, MemGet
  <2>9. FlushedAgrees'
    <3>1. ASSUME NEW k \in DOMAIN memtable, memtable[k] # Deleted
          PROVE  Visible(k)'.off >= gcPos
      <4>1. Visible(k)'.off \in Len(log) .. Len(log') - 1
        BY <2>2, <3>1, ConvertedPair
      <4> QED BY <1>1, <1>3, <2>4, <4>1
    <3> QED BY <1>2, <2>2, <3>1, ConvertedPair DEF FlushedAgrees
  <2>10. KVInv'
    BY <1>1, <1>2, <1>4, <2>2, <2>5, <2>6, <2>7, <2>8, <2>9, InvFromParts
  <2>11. ASSUME NEW k \in Key
         PROVE  Shows(k)' = Shows(k)
    <3>1. CASE k \in DOMAIN memtable
      BY <1>2, <3>1 DEF Shows
    <3>2. CASE k \notin DOMAIN memtable
      BY <1>1, <1>2, <2>3, <3>2, ShownKept
    <3> QED BY <3>1, <3>2
  <2> QED BY <2>10, <2>11, GetBoth
<1> QED BY <1>5, <1>6

LEMMA GcEndKeeps ==
  ASSUME PlainData, KVInv, GcEnd
  PROVE  KVInv' /\ \A k \in Key : Get(k)' = Get(k)
<1>1. /\ Data /\ streamOk = TRUE /\ TreeInv /\ DeletionsAtZero /\ PointersValid
      /\ hole \in Nat /\ Len(log) \in Nat
      /\ gcPos \in Nat /\ gcLeft \in Int
      /\ \A k \in Key : Visible(k).live => Visible(k).off \in hole .. Len(log) - 1
  BY InvFacts
<1>2. /\ pc = "lastFlush" /\ memtable' = NoEntries
      /\ hole' \in {hole, Max({hole, Min({gcPos, Len(log)})})}
      /\ pc' = "ready" /\ gcPos' = 0 /\ gcLeft' = 0
      /\ UNCHANGED <<treeVars, log, streamOk>>
  BY DEF GcEnd
<1>3. hole <= gcPos /\ gcPos <= Len(log)
  BY <1>1, <1>2 DEF KVInv, GcWindow
<1>4. hole' \in {hole, gcPos}
  <2>1. Min({gcPos, Len(log)}) = gcPos
    <3>1. {gcPos, Len(log)} \in SUBSET Nat
      BY <1>1
    <3>2. /\ Min({gcPos, Len(log)}) \in {gcPos, Len(log)}
          /\ \A x \in {gcPos, Len(log)} : Min({gcPos, Len(log)}) <= x
      BY <3>1, MinOfSet
    <3> HIDE DEF Min
    <3> QED BY <1>1, <1>3, <3>2
  <2>2. Max({hole, gcPos}) = gcPos
    <3>1. {hole, gcPos} \in SUBSET Nat /\ \A x \in {hole, gcPos} : x <= gcPos
      BY <1>1, <1>3
    <3>2. /\ Max({hole, gcPos}) \in {hole, gcPos}
          /\ \A x \in {hole, gcPos} : Max({hole, gcPos}) >= x
      BY <1>1, <3>1, MaxOfSet
    <3> QED BY <1>1, <1>3, <3>2
  <2> QED BY <1>2, <2>1, <2>2
<1>5. hole' \in Nat /\ hole' <= gcPos /\ hole' <= Len(log)
  BY <1>1, <1>3, <1>4
<1>6. TreeInv' /\ DeletionsAtZero' /\ \A k : Visible(k)' = Visible(k)
  BY <1>1, <1>2, SameTree
<1>7. /\ DOMAIN memtable' = {}
      /\ memtable' \in [DOMAIN memtable' -> Value \cup {Deleted}]
      /\ Cardinality(DOMAIN memtable') = 0
  BY <1>2, EmptyMemtable
<1>8. Data'
  BY <1>1, <1>2, <1>5, <1>7 DEF Data
<1>9. PointersValid'
  <2>1. ASSUME NEW k \in Key, Visible(k).live
        PROVE  Visible(k).off \in hole' .. Len(log) - 1
    <3>1. Visible(k).off \in gcPos .. Len(log) - 1
      BY <1>2, <2>1, AllBehindScan
    <3> QED BY <1>1, <1>5, <3>1
  <2> QED BY <1>1, <1>2, <1>6, <2>1 DEF PointersValid, Readable
<1>10. MemtableHasRoom'
  BY <1>7, ThresholdAssumption DEF MemtableHasRoom
<1>11. GcWindow' /\ GcProgress' /\ FlushedAgrees'
  BY <1>1, <1>2 DEF GcWindow, GcProgress, FlushedAgrees
<1>12. KVInv'
  BY <1>1, <1>2, <1>6, <1>8, <1>9, <1>10, <1>11, InvFromParts
<1>13. \A k \in Key : Shows(k)' = Shows(k)
  BY <1>2, <1>6, ShownAfterClean
<1> QED BY <1>12, <1>13, GetBoth

----------------------------------------------------------------------------
(* Every step.                                                             *)

LEMMA CallKeeps ==
  ASSUME PlainData, KVInv, CallStep
  PROVE  KVInv' /\ \A k \in Key : Get(k)' = Get(k)
<1>1. CASE Compaction
  BY <1>1, CompactionKeeps
<1>2. CASE Clean
  BY <1>2, CleanKeeps
<1>3. CASE GcEntry
  BY <1>3, SkipKeeps, MoveKeeps
<1>4. CASE GcFinish
  BY <1>4, GcFinishKeeps
<1>5. CASE GcEnd
  BY <1>5, GcEndKeeps
<1> QED BY <1>1, <1>2, <1>3, <1>4, <1>5, NoGcNoEntry DEF CallStep

LEMMA PutKeeps ==
  ASSUME PlainData, KVInv, NEW k \in Key, NEW v \in Value, Put(k, v)
  PROVE  KVInv' /\ \A j \in Key : Get(j)' = IF j = k THEN v ELSE Get(j)
<1>1. v # Deleted
  BY DEF PlainData
<1> QED BY <1>1, PutSteps DEF Put

LEMMA DelKeeps ==
  ASSUME PlainData, KVInv, NEW k \in Key, Del(k)
  PROVE  KVInv' /\ \A j \in Key : Get(j)' = IF j = k THEN Empty ELSE Get(j)
BY PutSteps DEF Del

LEMMA StutterKeeps ==
  ASSUME KVInv, UNCHANGED vars
  PROVE  KVInv' /\ \A k \in Key : Get(k)' = Get(k)
<1>1. UNCHANGED <<treeVars, memtable, log, hole, streamOk, pc, gcPos, gcLeft>>
  BY DEF vars
<1>2. TreeInv' /\ DeletionsAtZero' /\ \A k : Visible(k)' = Visible(k)
  BY <1>1, SameTree DEF KVInv
<1>3. \A k : Lookup(k)' = Lookup(k)
  BY <1>1, SameLookups
<1>4. KVTypeOK' /\ OnlyValues'
  BY <1>1, <1>2 DEF KVInv, KVTypeOK, OnlyValues, TreeInv
<1>5. MemtableHasRoom' /\ PointersValid' /\ GcProgress' /\ FlushedAgrees'
  BY <1>1, <1>2 DEF KVInv, MemtableHasRoom, PointersValid, Readable, GcProgress,
                    MemGet, FlushedAgrees
<1>6. GcWindow'
  BY <1>1, <1>3 DEF KVInv, GcWindow, FirstEntryNotDeleted, MemGet
<1>7. \A k \in Key : Get(k)' = Get(k)
  BY <1>1, <1>3 DEF Get, MemGet, ReadItem, Readable
<1> QED BY <1>2, <1>4, <1>5, <1>6, <1>7 DEF KVInv

LEMMA InitKVInv == PlainData /\ KVInit => KVInv /\ \A k \in Key : Get(k) = Empty
<1> SUFFICES ASSUME PlainData, KVInit
             PROVE  KVInv /\ \A k \in Key : Get(k) = Empty
  OBVIOUS
<1>1. /\ TreeInit /\ memtable = NoEntries /\ log = <<>> /\ hole = 0 /\ streamOk = TRUE
      /\ pc = "ready" /\ gcPos = 0 /\ gcLeft = 0
  BY DEF KVInit
<1>2. TreeInv
  BY <1>1, InitTreeInv
<1>3. \A k \in Key : Lookup(k) = NotFound
  <2> TAKE k \in Key
  <2>1. Lookup(k) = LookupIn(level0, deeper, k)
    BY DEF Lookup, LookupIn, Level0Hits, LevelHits, Hits, DeepHits
  <2>2. DOMAIN <<>> = {} /\ <<>> \in Seq(Table) /\ <<>> \in Seq(SUBSET Table)
    OBVIOUS
  <2>3. level0 = <<>> /\ deeper = <<>> /\ Sentinel \notin Key
    BY <1>1 DEF TreeInit, PlainData
  <2> QED BY <2>1, <2>2, <2>3, FromNowhere
<1>4. \A k \in Key : ~Visible(k).live
  BY <1>3 DEF Visible, NotFound
<1>5. DOMAIN memtable = {} /\ memtable \in [DOMAIN memtable -> Value \cup {Deleted}]
  BY <1>1 DEF NoEntries
<1>6. Cardinality(DOMAIN memtable) = 0
  BY <1>5, FS_EmptySet
<1>7. Data
  <2>1. log \in Seq([key : Key, value : Value]) /\ hole \in 0 .. Len(log)
    BY <1>1
  <2> QED BY <1>1, <1>5, <2>1 DEF Data
<1>8. KVTypeOK /\ OnlyValues
  BY <1>1, <1>2, <1>7, TypesFromData
<1>9. MemtableHasRoom
  BY <1>6, ThresholdAssumption DEF MemtableHasRoom
<1>10. DeletionsAtZero
  BY <1>1 DEF TreeInit, DeletionsAtZero
<1>11. GcWindow /\ GcProgress /\ FlushedAgrees
  BY <1>1 DEF GcWindow, GcProgress, FlushedAgrees
<1>12. PointersValid
  BY <1>4 DEF PointersValid
<1>13. \A k \in Key : Get(k) = Empty
  <2>1. \A k \in Key : Shows(k) = Empty
    BY <1>4, <1>5 DEF Shows
  <2> QED BY <1>8, <1>12, <2>1, GetShows
<1> QED BY <1>2, <1>8, <1>9, <1>10, <1>11, <1>12, <1>13 DEF KVInv

LEMMA CarefulStepKeeps ==
  ASSUME PlainData, KVInv, [CarefulStep \/ CallStep]_vars
  PROVE  KVInv'
BY PutKeeps, DelKeeps, ResetEmpties, GcStartKeeps, CallKeeps, StutterKeeps DEF CarefulStep

(* The inductive invariant of the store, for every set of plain keys and   *)
(* values, every threshold, every limit of the levels and every length of  *)
(* the log, and clients that avoid the two defects of gc.                  *)
THEOREM StoreInvariant ==
  ASSUME PlainData
  PROVE  CarefulSpec => []KVInv
<1>1. KVInit => KVInv
  BY InitKVInv
<1>2. KVInv /\ [CarefulStep \/ CallStep]_vars => KVInv'
  BY CarefulStepKeeps
<1> QED BY <1>1, <1>2, PTL DEF CarefulSpec

(* What a flush appends fits the items it writes, and gc never leaves the  *)
(* log: the types of the store, its tree included.                         *)
THEOREM StoreTypeCorrect ==
  ASSUME PlainData
  PROVE  CarefulSpec => []KVTypeOK
<1>1. KVInv => KVTypeOK
  BY DEF KVInv
<1> QED BY <1>1, StoreInvariant, PTL

(* No table points into released log or at the entry of another key, in    *)
(* the middle of a gc, of a flush and of a compaction included.            *)
THEOREM ItemsNeverDangle ==
  ASSUME PlainData
  PROVE  CarefulSpec => []PointersValid
<1>1. KVInv => PointersValid
  BY DEF KVInv
<1> QED BY <1>1, StoreInvariant, PTL

(* gc has put into the MemTable whatever the tables still place before its *)
(* scan, flushes and compactions in the middle of the scan included.       *)
THEOREM GcLeavesNothingBehind ==
  ASSUME PlainData
  PROVE  CarefulSpec => []GcProgress
<1>1. KVInv => GcProgress
  BY DEF KVInv
<1> QED BY <1>1, StoreInvariant, PTL

----------------------------------------------------------------------------
(* The map.                                                                *)

LEMMA StepImplementsMap ==
  ASSUME PlainData, KVInv, [CarefulStep \/ CallStep]_vars
  PROVE  [Map!Next]_<<[k \in Key |-> Get(k)], pc # "ready">>
<1> DEFINE kv     == [k \in Key |-> Get(k)]
           unseen == UNCHANGED kv
<1>1. (pc # "ready") \in BOOLEAN /\ (pc # "ready")' \in BOOLEAN
  OBVIOUS
<1>2. ASSUME NEW k \in Key, NEW v \in Value, Put(k, v)
      PROVE  Map!Next
  <2>1. \A j \in Key : Get(j)' = IF j = k THEN v ELSE Get(j)
    BY <1>2, PutKeeps
  <2>2. Map!Put(k, v)
    BY <2>1 DEF Map!Put
  <2>3. pc = "ready"
    BY <1>2 DEF Put
  <2> QED BY <1>1, <2>2, <2>3 DEF Map!Next, Map!Call
<1>3. ASSUME NEW k \in Key, Del(k)
      PROVE  Map!Next
  <2>1. \A j \in Key : Get(j)' = IF j = k THEN Empty ELSE Get(j)
    BY <1>3, DelKeeps
  <2>2. Map!Del(k)
    BY <2>1 DEF Map!Del
  <2>3. pc = "ready"
    BY <1>3 DEF Del
  <2> QED BY <1>1, <2>2, <2>3 DEF Map!Next, Map!Call
<1>4. CASE Reset
  <2>1. \A j \in Key : Get(j)' = Empty
    BY <1>4, ResetEmpties
  <2>2. Map!Reset
    BY <2>1 DEF Map!Reset
  <2>3. pc = "ready"
    BY <1>4 DEF Reset
  <2> QED BY <1>1, <2>2, <2>3 DEF Map!Next, Map!Call
<1>5. ASSUME NEW chunk \in 0 .. MaxChunk,
             NoOvershoot(chunk), FirstEntryNotDeleted, GcStart(chunk)
      PROVE  Map!Next
  <2>1. \A j \in Key : Get(j)' = Get(j)
    BY <1>5, GcStartKeeps
  <2>2. Map!Gc
    BY <2>1 DEF Map!Gc
  <2>3. pc = "ready"
    BY <1>5 DEF GcStart
  <2> QED BY <1>1, <2>2, <2>3 DEF Map!Next, Map!Call
<1>6. CASE CallStep
  <2>1. \A j \in Key : Get(j)' = Get(j)
    BY <1>6, CallKeeps
  <2>2. unseen
    BY <2>1
  <2>3. pc # "ready"
    BY <1>6 DEF CallStep, Compaction, Clean, GcEntry, GcNoEntry, GcFinish, GcEnd
  <2>4. CASE pc' = "ready"
    BY <2>2, <2>3, <2>4 DEF Map!Next, Map!Return
  <2>5. CASE pc' # "ready"
    BY <2>2, <2>3, <2>5
  <2> QED BY <2>4, <2>5
<1>7. CASE UNCHANGED vars
  <2>1. unseen
    BY <1>7, StutterKeeps
  <2> QED BY <1>7, <2>1 DEF vars
<1> QED BY <1>2, <1>3, <1>4, <1>5, <1>6, <1>7 DEF CarefulStep

(* For all of these the store is the map of kvstore_api.h: put, del and    *)
(* reset change the value of their key when they are called, and gc, with  *)
(* the moves, flushes, compactions and the release it makes, changes none. *)
THEOREM StoreImplementsMap ==
  ASSUME PlainData
  PROVE  CarefulSpec => MapSpec
<1>1. KVInit => KVInv /\ \A k \in Key : Get(k) = Empty
  BY InitKVInv
<1>2. KVInit => Map!Init
  <2> SUFFICES ASSUME KVInit PROVE Map!Init
    OBVIOUS
  <2>1. pc = "ready"
    BY DEF KVInit
  <2> QED BY <1>1, <2>1 DEF Map!Init
<1>3. KVInv /\ [CarefulStep \/ CallStep]_vars => KVInv'
  BY CarefulStepKeeps
<1>4. KVInv /\ [CarefulStep \/ CallStep]_vars => [Map!Next]_(Map!mapVars)
  BY StepImplementsMap DEF Map!mapVars
<1> QED BY <1>1, <1>2, <1>3, <1>4, PTL DEF CarefulSpec, MapSpec, Map!Spec

(* A put or a del is what get answers next for its key, and for no other   *)
(* key does the answer change, whether the call filled the MemTable or not. *)
THEOREM PutsAndDelsTakeEffect ==
  ASSUME PlainData
  PROVE  CarefulSpec => PutDelTakeEffect
<1> DEFINE Effect ==
             \A k \in Key :
               /\ \A v \in Value :
                    Put(k, v) => \A j \in Key : Get(j)' = IF j = k THEN v ELSE Get(j)
               /\ Del(k) => \A j \in Key : Get(j)' = IF j = k THEN Empty ELSE Get(j)
<1>1. KVInit => KVInv
  BY InitKVInv
<1>2. KVInv /\ [CarefulStep \/ CallStep]_vars => KVInv'
  BY CarefulStepKeeps
<1>3. KVInv => [Effect]_vars
  BY PutKeeps, DelKeeps
<1> HIDE DEF Effect
<1>4. CarefulSpec => [][Effect]_vars
  BY <1>1, <1>2, <1>3, PTL DEF CarefulSpec
<1> QED BY <1>4 DEF PutDelTakeEffect, Effect

(* Under these clients get answers a value that was stored, or the empty   *)
(* string: it never reads the log where no entry of its key is.            *)
THEOREM GetsReturnValues ==
  ASSUME PlainData
  PROVE  CarefulSpec => []GetReturnsValues
<1>1. KVInv => GetReturnsValues
  <2> SUFFICES ASSUME KVInv, NEW k \in Key PROVE Get(k) \in Value \cup {Empty}
    BY DEF GetReturnsValues
  <2>1. Get(k) = Shows(k)
    BY GetShows DEF KVInv
  <2>2. CASE k \in DOMAIN memtable
    BY <2>1, <2>2 DEF Shows, KVInv, OnlyValues
  <2>3. CASE k \notin DOMAIN memtable /\ Visible(k).live
    <3> DEFINE off == Visible(k).off
    <3>1. off \in hole .. Len(log) - 1 /\ hole \in Nat /\ Len(log) \in Nat
      BY <2>3, LogFacts DEF KVInv, PointersValid, Readable, KVTypeOK
    <3>2. DOMAIN log = 1 .. Len(log)
      BY DEF KVInv, KVTypeOK
    <3> HIDE DEF off
    <3>3. off + 1 \in DOMAIN log
      BY <3>1, <3>2
    <3>4. log[off + 1].value \in Value
      BY <3>3 DEF KVInv, OnlyValues
    <3> QED BY <2>1, <2>3, <3>4 DEF Shows, off
  <2>4. CASE k \notin DOMAIN memtable /\ ~Visible(k).live
    BY <2>1, <2>4 DEF Shows
  <2> QED BY <2>2, <2>3, <2>4
<1> QED BY <1>1, StoreInvariant, PTL

(* And no step of a gc brings back a key that has no value.                *)
THEOREM GcRevivesNothing ==
  ASSUME PlainData
  PROVE  CarefulSpec => GcDiscardsInvalid
<1> DEFINE Discards ==
             \A k \in Key :
               pc \in {"gc", "gcFlush", "lastFlush"} /\ Get(k) = Empty => Get(k)' = Empty
<1>1. ASSUME KVInv, [CarefulStep \/ CallStep]_vars
      PROVE  [Discards]_vars
  <2>1. CASE CallStep
    BY <1>1, <2>1, CallKeeps
  <2>2. CASE CarefulStep
    <3>1. pc = "ready"
      BY <2>2 DEF CarefulStep, Put, Del, Reset, GcStart
    <3> QED BY <3>1
  <2> QED BY <1>1, <2>1, <2>2
<1>2. KVInit => KVInv
  BY InitKVInv
<1>3. KVInv /\ [CarefulStep \/ CallStep]_vars => KVInv'
  BY CarefulStepKeeps
<1> HIDE DEF Discards
<1>4. CarefulSpec => [][Discards]_vars
  BY <1>1, <1>2, <1>3, PTL DEF CarefulSpec
<1> QED BY <1>4 DEF GcDiscardsInvalid, Discards

----------------------------------------------------------------------------
(* The store uses the tree as TreeSpec says, so what KeyIndex_proofs       *)
(* shows of the tree holds in the store.                                   *)

LEMMA ConvertOnTree ==
  ASSUME PlainData, streamOk, log \in Seq([key : Key, value : Value]),
         NEW m, DOMAIN m \in SUBSET Key, DOMAIN m # {},
         Cardinality(DOMAIN m) <= MemtableThreshold,
         \A k \in DOMAIN m : m[k] \in Value \cup {Deleted},
         Len(log) + Cardinality(DOMAIN m) <= MaxLog,
         Convert(m)
  PROVE  TreeNext
BY ItemsOfMemtable DEF Convert, TreeNext

LEMMA StoreOnTree ==
  ASSUME PlainData, KVInv, pc \in {"ready", "gc"},
         NEW k \in Key, NEW v \in Value \cup {Deleted}, NEW flush, NEW back,
         Store(k, v, flush, back),
         Len(log) + Cardinality(DOMAIN memtable) + 1 <= MaxLog
  PROVE  [TreeNext]_treeVars
<1>1. CASE UNCHANGED treeVars
  BY <1>1
<1>2. CASE Convert(memtable')
  <2>1. /\ Data /\ streamOk /\ Len(log) \in Nat /\ MaxLog \in Nat
        /\ Cardinality(DOMAIN memtable) \in Nat
    BY InvFacts
  <2>2. Stored(k, v, flush, back)
    BY StoreSteps
  <2>3. DOMAIN memtable' \in SUBSET Key /\ DOMAIN memtable' # {}
    BY <2>1, <2>2 DEF Stored, Data
  <2>4. Len(log) + Cardinality(DOMAIN memtable') <= MaxLog
    BY <2>1, <2>2 DEF Stored
  <2>5. /\ \A j \in DOMAIN memtable' : memtable'[j] \in Value \cup {Deleted}
        /\ Cardinality(DOMAIN memtable') <= MemtableThreshold
    BY <2>2 DEF Stored
  <2>6. log \in Seq([key : Key, value : Value])
    BY <2>1 DEF Data
  <2> QED BY <1>2, <2>1, <2>3, <2>4, <2>5, <2>6, ConvertOnTree
<1> QED BY <1>1, <1>2 DEF Store

LEMMA StepOnTree ==
  ASSUME PlainData, KVInv, [CarefulStep \/ CallStep]_vars
  PROVE  [TreeNext]_treeVars
<1>1. /\ Data /\ streamOk /\ Len(log) \in Nat /\ MaxLog \in Nat
      /\ Cardinality(DOMAIN memtable) \in Nat /\ gcLeft \in Int
  BY InvFacts
<1>2. CASE pc = "ready" /\ Room(1, 0) /\
           \E k \in Key, v \in Value \cup {Deleted} : Store(k, v, "putFlush", "ready")
  <2>1. Len(log) + Cardinality(DOMAIN memtable) + 1 <= MaxLog
    BY <1>1, <1>2 DEF Room
  <2> QED BY <1>2, <2>1, StoreOnTree
<1>3. CASE GcEntry
  <2>1. CASE Superseded(log[gcPos + 1].key)
    BY <1>3, <2>1 DEF GcEntry, Examine
  <2>2. CASE ~Superseded(log[gcPos + 1].key)
    <3>1. /\ pc = "gc" /\ gcLeft > 0
          /\ Store(log[gcPos + 1].key, log[gcPos + 1].value, "gcFlush", "gc")
      BY <1>3, <2>2 DEF GcEntry, Examine
    <3>2. log[gcPos + 1].key \in Key /\ log[gcPos + 1].value \in Value
      BY <3>1, ScannedEntry
    <3>3. Len(log) + Cardinality(DOMAIN memtable) + gcLeft <= MaxLog
      BY <3>1 DEF KVInv, GcWindow
    <3>4. Len(log) + Cardinality(DOMAIN memtable) + 1 <= MaxLog
      BY <1>1, <3>1, <3>3
    <3> QED BY <3>1, <3>2, <3>4, StoreOnTree
  <2> QED BY <2>1, <2>2
<1>4. CASE GcFinish
  <2>1. CASE DOMAIN memtable = {}
    BY <1>4, <2>1 DEF GcFinish
  <2>2. CASE DOMAIN memtable # {}
    <3>1. pc = "gc" /\ Convert(memtable)
      BY <1>4, <2>2 DEF GcFinish
    <3>2. Len(log) + Cardinality(DOMAIN memtable) <= MaxLog
      BY <1>1, <3>1 DEF KVInv, GcWindow
    <3>3. Cardinality(DOMAIN memtable) <= MemtableThreshold
      BY DEF KVInv, MemtableHasRoom
    <3>4. /\ DOMAIN memtable \in SUBSET Key
          /\ log \in Seq([key : Key, value : Value])
          /\ \A k \in DOMAIN memtable : memtable[k] \in Value \cup {Deleted}
      BY <1>1 DEF Data
    <3> QED BY <1>1, <2>2, <3>1, <3>2, <3>3, <3>4, ConvertOnTree
  <2> QED BY <2>1, <2>2
<1>5. CASE Compaction
  BY <1>5 DEF Compaction, TreeNext
<1>6. CASE Reset
  BY <1>6 DEF Reset, TreeNext
<1>7. CASE Clean \/ GcEnd \/ UNCHANGED vars \/ \E chunk \in 0 .. MaxChunk : GcStart(chunk)
  BY <1>7 DEF Clean, GcEnd, vars, GcStart
<1>8. CASE \E k \in Key, v \in Value : Put(k, v)
  BY <1>2, <1>8 DEF Put
<1>9. CASE \E k \in Key : Del(k)
  BY <1>2, <1>9 DEF Del
<1> QED BY <1>3, <1>4, <1>5, <1>6, <1>7, <1>8, <1>9, NoGcNoEntry DEF CarefulStep, CallStep

(* Whatever the store does to its tree is a behaviour of the tree: the     *)
(* levels under the store are free of overlaps, in order of age and within *)
(* their limits, and the tables implement the index of the flushed data.   *)
THEOREM StoreUsesTree ==
  ASSUME PlainData
  PROVE  CarefulSpec =>
           IndexSpec /\ [](LevelsDisjoint /\ AgeOrder /\ LevelsWithinLimits)
<1>1. KVInit => KVInv /\ TreeInit
  BY InitKVInv DEF KVInit
<1>2. KVInv /\ [CarefulStep \/ CallStep]_vars => KVInv' /\ [TreeNext]_treeVars
  BY CarefulStepKeeps, StepOnTree
<1>3. CarefulSpec => TreeSpec
  BY <1>1, <1>2, PTL DEF CarefulSpec, TreeSpec
<1>4. KeysFitInt /\ Sentinel \notin Key
  BY DEF PlainData
<1>5. TreeSpec => IndexSpec
  BY <1>4, TreeImplementsIndex
<1>6. TreeSpec => [](LevelsDisjoint /\ AgeOrder /\ LevelsWithinLimits)
  BY <1>4, LevelsStayDisjoint, DataOnlySinks, LevelsKeepTheirLimits, PTL
<1> QED BY <1>3, <1>5, <1>6, PTL

----------------------------------------------------------------------------
(* Any client.                                                             *)

(* Whatever clients do, gc past the end of the log and values that are ""  *)
(* or "~DELETED~" included, the room a call was started with is enough for *)
(* all it adds, so every offset it hands to a table is one of an instance. *)
GcHasRoom ==
  /\ pc \in {"gc", "gcFlush", "lastFlush"} => 0 <= gcLeft
  /\ pc = "gcFlush" => Len(log) + gcLeft <= MaxLog
  /\ pc = "gc" => Len(log) + Cardinality(DOMAIN memtable) + gcLeft <= MaxLog

AnyClientInv == TreeInv /\ KVTypeOK /\ MemtableHasRoom /\ GcHasRoom

(* The state without the tree.                                             *)
AnyData ==
  /\ DOMAIN memtable \subseteq Key
  /\ memtable \in [DOMAIN memtable -> Written]
  /\ log \in Seq([key : Key, value : Written])
  /\ hole \in Nat /\ hole <= Len(log)
  /\ streamOk \in BOOLEAN
  /\ pc \in {"ready", "putFlush", "gc", "gcFlush", "lastFlush"}
  /\ gcPos \in Nat
  /\ gcLeft \in Int

LEMMA AnyFacts ==
  ASSUME AnyClientInv
  PROVE  /\ TreeInv /\ AnyData
         /\ Len(log) \in Nat /\ MaxLog \in Nat
         /\ IsFiniteSet(DOMAIN memtable)
         /\ Cardinality(DOMAIN memtable) \in Nat
         /\ Cardinality(DOMAIN memtable) <= MemtableThreshold
         /\ pc \in {"ready", "gc"} => Cardinality(DOMAIN memtable) < MemtableThreshold
<1>1. TreeInv /\ KVTypeOK /\ MemtableHasRoom
  BY DEF AnyClientInv
<1>2. log \in Seq([key : Key, value : Written])
  BY <1>1 DEF KVTypeOK
<1>3. Len(log) \in Nat
  <2> DEFINE S == [key : Key, value : Written]
  <2>1. log \in Seq(S)
    BY <1>2
  <2> HIDE DEF S
  <2> QED BY <2>1
<1>4. hole \in Nat /\ hole <= Len(log)
  BY <1>1, <1>3 DEF KVTypeOK
<1>5. AnyData
  BY <1>1, <1>4 DEF KVTypeOK, AnyData
<1>6. IsFiniteSet(DOMAIN memtable) /\ Cardinality(DOMAIN memtable) \in Nat
  BY <1>5, KeySetFinite, FS_CardinalityType DEF AnyData
<1> QED BY <1>1, <1>3, <1>5, <1>6, LogAssumption DEF MemtableHasRoom

LEMMA AnyTypes == TreeInv /\ AnyData => KVTypeOK
<1> SUFFICES ASSUME TreeInv, AnyData
             PROVE  KVTypeOK
  OBVIOUS
<1>1. Len(log) \in Nat
  <2> DEFINE S == [key : Key, value : Written]
  <2>1. log \in Seq(S)
    BY DEF AnyData
  <2> HIDE DEF S
  <2> QED BY <2>1
<1>2. hole \in 0 .. Len(log)
  BY <1>1 DEF AnyData
<1>3. TreeTypeOK
  BY DEF TreeInv
<1> QED BY <1>2, <1>3 DEF AnyData, KVTypeOK

LEMMA AnyFromParts ==
  ASSUME TreeInv', AnyData', MemtableHasRoom', GcHasRoom'
  PROVE  AnyClientInv'
<1>1. (TreeInv /\ AnyData)' => KVTypeOK'
  BY AnyTypes, PTL
<1> QED BY <1>1 DEF AnyClientInv

(* A conversion by any client.                                             *)
LEMMA AnyItems ==
  ASSUME log \in Seq([key : Key, value : Written]),
         NEW m, DOMAIN m \in SUBSET Key, DOMAIN m # {},
         Cardinality(DOMAIN m) <= MemtableThreshold,
         \A k \in DOMAIN m : m[k] \in Written,
         Len(log) + Cardinality(DOMAIN m) <= MaxLog
  PROVE  ItemsOf(m) \in MemtableRuns
<1>1. Len(log) \in Nat /\ MaxLog \in Nat
  <2> DEFINE S == [key : Key, value : Written]
  <2>1. log \in Seq(S)
    OBVIOUS
  <2> HIDE DEF S
  <2> QED BY <2>1, LogAssumption
<1>2. IsFiniteSet(DOMAIN m) /\ Cardinality(DOMAIN m) \in Nat \ {0}
  BY KeySetFinite, FS_CardinalityType, FS_EmptySet
<1>3. LogEnd \in {Len(log), -1}
  BY DEF LogEnd
<1>4. \A k \in DOMAIN m : Offset(m, k) \in -1 .. MaxLog - 1
  <2> TAKE k \in DOMAIN m
  <2>1. CASE m[k] = Deleted
    BY <1>1, <1>2, <2>1 DEF Offset
  <2>2. CASE m[k] # Deleted
    <3>1. k \in Appended(m) /\ Appended(m) \in SUBSET DOMAIN m
      BY <2>2 DEF Appended
    <3>2. Rank(Appended(m), k) \in 0 .. Cardinality(Appended(m)) - 1
      BY <3>1, RankBelow
    <3>3. Cardinality(Appended(m)) \in Nat /\ Cardinality(Appended(m)) <= Cardinality(DOMAIN m)
      BY <1>2, <3>1, FS_Subset, FS_CardinalityType
    <3>4. Offset(m, k) = LogEnd + Rank(Appended(m), k)
      BY <2>2 DEF Offset
    <3> QED BY <1>1, <1>2, <1>3, <3>2, <3>3, <3>4
  <2> QED BY <2>1, <2>2
<1>5. \A k \in DOMAIN m : ItemsOf(m)[k] \in Item
  <2> TAKE k \in DOMAIN m
  <2>1. ItemsOf(m)[k] = [off |-> Offset(m, k), live |-> m[k] \notin {Deleted, Empty}]
    BY DEF ItemsOf
  <2>2. (m[k] \notin {Deleted, Empty}) \in BOOLEAN
    OBVIOUS
  <2>3. ItemsOf(m)[k] \in [off : -1 .. MaxLog - 1, live : BOOLEAN]
    BY <1>4, <2>1, <2>2
  <2> QED BY <2>3, LogAssumption
<1>6. ItemsOf(m) \in [DOMAIN m -> Item]
  BY <1>5 DEF ItemsOf
<1>7. DOMAIN m \in MemtableKeys
  BY DEF MemtableKeys
<1> QED BY <1>6, <1>7 DEF MemtableRuns

LEMMA AnyConvert ==
  ASSUME TreeInv, log \in Seq([key : Key, value : Written]),
         NEW m, DOMAIN m \in SUBSET Key, DOMAIN m # {},
         Cardinality(DOMAIN m) <= MemtableThreshold,
         \A k \in DOMAIN m : m[k] \in Written,
         Len(log) + Cardinality(DOMAIN m) <= MaxLog,
         Convert(m)
  PROVE  /\ TreeInv'
         /\ log' \in Seq([key : Key, value : Written])
         /\ Len(log') \in Nat
         /\ Len(log') >= Len(log)
         /\ Len(log') <= Len(log) + Cardinality(DOMAIN m)
<1> DEFINE S == [key : Key, value : Written]
<1>1. AddTable(ItemsOf(m)) /\ log' = IF streamOk THEN log \o NewEntries(m) ELSE log
  BY DEF Convert
<1>2. TreeInv'
  BY <1>1, AnyItems, AddTablePreserves
<1>3. /\ NewEntries(m) \in Seq(S)
      /\ Len(NewEntries(m)) = Cardinality(Appended(m))
      /\ Cardinality(Appended(m)) \in Nat
      /\ Cardinality(Appended(m)) <= Cardinality(DOMAIN m)
  <2>1. \A k \in DOMAIN m : m[k] \in Written \cup {Deleted}
    OBVIOUS
  <2> QED BY <2>1, EntriesOfMemtable, EntriesTyped
<1>4. log \in Seq(S)
  OBVIOUS
<1>5. IsFiniteSet(DOMAIN m) /\ Cardinality(DOMAIN m) \in Nat
  BY KeySetFinite, FS_CardinalityType
<1> HIDE DEF S
<1>6. log \o NewEntries(m) \in Seq(S) /\ Len(log \o NewEntries(m)) = Len(log) + Len(NewEntries(m))
  BY <1>3, <1>4, Appending
<1>7. Len(log) \in Nat
  BY <1>4
<1>8. log' \in Seq(S)
  BY <1>1, <1>4, <1>6
<1>9. Len(log') \in {Len(log), Len(log) + Cardinality(Appended(m))}
  BY <1>1, <1>3, <1>6
<1> QED BY <1>2, <1>3, <1>5, <1>7, <1>8, <1>9 DEF S

LEMMA AnyStore ==
  ASSUME AnyClientInv, pc \in {"ready", "gc"},
         NEW k \in Key, NEW v \in Written, NEW flush, NEW back,
         Store(k, v, flush, back),
         Len(log) + Cardinality(DOMAIN memtable) + 1 <= MaxLog
  PROVE  /\ TreeInv'
         /\ DOMAIN memtable' \subseteq Key
         /\ memtable' \in [DOMAIN memtable' -> Written]
         /\ log' \in Seq([key : Key, value : Written])
         /\ Len(log') \in Nat /\ Len(log') >= Len(log)
         /\ Cardinality(DOMAIN memtable') \in Nat
         /\ Cardinality(DOMAIN memtable') <= Cardinality(DOMAIN memtable) + 1
         /\ Cardinality(DOMAIN memtable') <= MemtableThreshold
         /\ \/ /\ pc' = back
               /\ log' = log
               /\ Cardinality(DOMAIN memtable') < MemtableThreshold
            \/ /\ pc' = flush
               /\ Len(log') <= Len(log) + Cardinality(DOMAIN memtable) + 1
<1>1. /\ TreeInv /\ AnyData
      /\ Len(log) \in Nat /\ MaxLog \in Nat
      /\ IsFiniteSet(DOMAIN memtable) /\ Cardinality(DOMAIN memtable) \in Nat
      /\ Cardinality(DOMAIN memtable) < MemtableThreshold
  BY AnyFacts
<1>2. /\ DOMAIN memtable' = DOMAIN memtable \cup {k}
      /\ memtable' \in [DOMAIN memtable' -> Written]
  <2>1. memtable' = [j \in DOMAIN memtable \cup {k} |-> IF j = k THEN v ELSE memtable[j]]
    BY DEF Store, With
  <2> QED BY <1>1, <2>1 DEF AnyData
<1>3. DOMAIN memtable' \in SUBSET Key /\ DOMAIN memtable' # {}
  BY <1>1, <1>2 DEF AnyData
<1>4. /\ Cardinality(DOMAIN memtable') \in Nat
      /\ Cardinality(DOMAIN memtable') <= Cardinality(DOMAIN memtable) + 1
      /\ Cardinality(DOMAIN memtable') <= MemtableThreshold
  <2>1. Cardinality(DOMAIN memtable') \in {Cardinality(DOMAIN memtable), Cardinality(DOMAIN memtable) + 1}
    BY <1>1, <1>2, FS_AddElement
  <2> QED BY <1>1, <2>1, ThresholdAssumption
<1>5. log \in Seq([key : Key, value : Written])
  BY <1>1 DEF AnyData
<1>6. CASE Cardinality(DOMAIN memtable') >= MemtableThreshold
  <2>1. Convert(memtable') /\ pc' = flush
    BY <1>6 DEF Store
  <2>2. Len(log) + Cardinality(DOMAIN memtable') <= MaxLog
    BY <1>1, <1>4
  <2>3. \A j \in DOMAIN memtable' : memtable'[j] \in Written
    BY <1>2
  <2>4. /\ TreeInv'
        /\ log' \in Seq([key : Key, value : Written])
        /\ Len(log') \in Nat
        /\ Len(log') >= Len(log)
        /\ Len(log') <= Len(log) + Cardinality(DOMAIN memtable')
    BY <1>1, <1>3, <1>4, <1>5, <2>1, <2>2, <2>3, AnyConvert
  <2>5. Len(log') <= Len(log) + Cardinality(DOMAIN memtable) + 1
    BY <1>1, <1>4, <2>4
  <2> QED BY <1>2, <1>3, <1>4, <2>1, <2>4, <2>5
<1>7. CASE ~(Cardinality(DOMAIN memtable') >= MemtableThreshold)
  <2>1. pc' = back /\ UNCHANGED <<treeVars, log>>
    BY <1>7 DEF Store
  <2>2. TreeInv'
    BY <1>1, <2>1, StutterPreserves
  <2>3. Cardinality(DOMAIN memtable') < MemtableThreshold
    BY <1>4, <1>7, ThresholdAssumption
  <2>4. Len(log') \in Nat /\ Len(log') >= Len(log)
    BY <1>1, <2>1
  <2> QED BY <1>2, <1>3, <1>4, <1>5, <2>1, <2>2, <2>3, <2>4
<1> QED BY <1>6, <1>7

(* Put and Del add one pair.                                               *)
LEMMA AnyPut ==
  ASSUME AnyClientInv, pc = "ready", Room(1, 0), NEW k \in Key, NEW v \in Written,
         Store(k, v, "putFlush", "ready"), UNCHANGED <<hole, streamOk, gcPos, gcLeft>>
  PROVE  AnyClientInv'
<1>1. /\ AnyData /\ Len(log) \in Nat /\ MaxLog \in Nat
      /\ Cardinality(DOMAIN memtable) \in Nat
  BY AnyFacts
<1>2. Len(log) + Cardinality(DOMAIN memtable) + 1 <= MaxLog
  BY <1>1 DEF Room
<1>3. /\ TreeInv'
      /\ DOMAIN memtable' \subseteq Key
      /\ memtable' \in [DOMAIN memtable' -> Written]
      /\ log' \in Seq([key : Key, value : Written])
      /\ Len(log') \in Nat /\ Len(log') >= Len(log)
      /\ Cardinality(DOMAIN memtable') <= MemtableThreshold
      /\ \/ pc' = "ready" /\ Cardinality(DOMAIN memtable') < MemtableThreshold
         \/ pc' = "putFlush"
  BY <1>2, AnyStore
<1>4. AnyData'
  BY <1>1, <1>3 DEF AnyData
<1>5. MemtableHasRoom' /\ GcHasRoom'
  BY <1>3 DEF MemtableHasRoom, GcHasRoom
<1> QED BY <1>3, <1>4, <1>5, AnyFromParts

LEMMA AnyClean ==
  ASSUME memtable' = NoEntries
  PROVE  /\ DOMAIN memtable' \subseteq Key
         /\ memtable' \in [DOMAIN memtable' -> Written]
         /\ Cardinality(DOMAIN memtable') = 0
         /\ MemtableHasRoom'
<1>1. DOMAIN memtable' = {}
  BY DEF NoEntries
<1>2. Cardinality(DOMAIN memtable') = 0
  BY <1>1, FS_EmptySet
<1>3. memtable' \in [DOMAIN memtable' -> Written]
  BY <1>1 DEF NoEntries
<1> QED BY <1>1, <1>2, <1>3, ThresholdAssumption DEF MemtableHasRoom

(* The loop of gc passes n units of the rest of its scan and may move one  *)
(* pair.                                                                   *)
LEMMA AnyExamine ==
  ASSUME AnyClientInv, pc = "gc", gcLeft > 0, NEW k \in Key, NEW v \in Written,
         NEW n \in 1 .. gcLeft, Advance(n),
         Examine(k, v) \/ UNCHANGED <<treeVars, memtable, log, pc>>,
         hole' = hole, streamOk' \in BOOLEAN
  PROVE  AnyClientInv'
<1>1. /\ TreeInv /\ AnyData /\ Len(log) \in Nat /\ MaxLog \in Nat
      /\ Cardinality(DOMAIN memtable) \in Nat
      /\ Len(log) + Cardinality(DOMAIN memtable) + gcLeft <= MaxLog
      /\ gcPos \in Nat /\ gcLeft \in Int
  BY AnyFacts DEF AnyClientInv, GcHasRoom, AnyData
<1>2. gcPos' = gcPos + n /\ gcLeft' = gcLeft - n
  BY DEF Advance
<1>3. gcPos' \in Nat /\ gcLeft' \in Int /\ 0 <= gcLeft' /\ gcLeft' <= gcLeft - 1
  BY <1>1, <1>2
<1>4. CASE UNCHANGED <<treeVars, memtable, log, pc>>
  <2>1. TreeInv'
    BY <1>1, <1>4, StutterPreserves
  <2>2. AnyData'
    BY <1>1, <1>3, <1>4 DEF AnyData
  <2>3. MemtableHasRoom'
    BY <1>4 DEF AnyClientInv, MemtableHasRoom
  <2>4. GcHasRoom'
    BY <1>1, <1>3, <1>4 DEF GcHasRoom
  <2> QED BY <2>1, <2>2, <2>3, <2>4, AnyFromParts
<1>5. CASE Store(k, v, "gcFlush", "gc")
  <2>1. Len(log) + Cardinality(DOMAIN memtable) + 1 <= MaxLog
    BY <1>1
  <2>2. /\ TreeInv'
        /\ DOMAIN memtable' \subseteq Key
        /\ memtable' \in [DOMAIN memtable' -> Written]
        /\ log' \in Seq([key : Key, value : Written])
        /\ Len(log') \in Nat /\ Len(log') >= Len(log)
        /\ Cardinality(DOMAIN memtable') \in Nat
        /\ Cardinality(DOMAIN memtable') <= Cardinality(DOMAIN memtable) + 1
        /\ Cardinality(DOMAIN memtable') <= MemtableThreshold
        /\ \/ /\ pc' = "gc"
              /\ log' = log
              /\ Cardinality(DOMAIN memtable') < MemtableThreshold
           \/ /\ pc' = "gcFlush"
              /\ Len(log') <= Len(log) + Cardinality(DOMAIN memtable) + 1
    BY <1>5, <2>1, AnyStore
  <2>3. AnyData'
    BY <1>1, <1>3, <2>2 DEF AnyData
  <2>4. MemtableHasRoom'
    BY <2>2 DEF MemtableHasRoom
  <2>5. GcHasRoom'
    BY <1>1, <1>3, <2>2 DEF GcHasRoom
  <2> QED BY <2>2, <2>3, <2>4, <2>5, AnyFromParts
<1> QED BY <1>4, <1>5 DEF Examine

LEMMA AnyGcEntry ==
  ASSUME AnyClientInv, GcEntry
  PROVE  AnyClientInv'
<1>1. /\ AnyData /\ Len(log) \in Nat
  BY AnyFacts
<1>2. /\ pc = "gc" /\ gcLeft > 0 /\ Readable(gcPos)
      /\ Examine(log[gcPos + 1].key, log[gcPos + 1].value)
      /\ Advance(1)
      /\ UNCHANGED <<hole, streamOk>>
  BY DEF GcEntry
<1>3. gcPos + 1 \in 1 .. Len(log)
  BY <1>1, <1>2 DEF Readable, AnyData
<1>4. log[gcPos + 1] \in [key : Key, value : Written]
  <2> DEFINE S == [key : Key, value : Written]
  <2>1. log \in Seq(S)
    BY <1>1 DEF AnyData
  <2> HIDE DEF S
  <2>2. log[gcPos + 1] \in S
    BY <1>3, <2>1, ElementOfSeq
  <2> QED BY <2>2 DEF S
<1>5. 1 \in 1 .. gcLeft /\ streamOk' \in BOOLEAN
  BY <1>1, <1>2 DEF AnyData
<1> QED BY <1>2, <1>4, <1>5, AnyExamine

LEMMA AnyGcNoEntry ==
  ASSUME AnyClientInv, GcNoEntry
  PROVE  AnyClientInv'
<1>1. /\ pc = "gc" /\ gcLeft > 0
      /\ streamOk' = FALSE /\ hole' = hole
      /\ \/ UNCHANGED <<treeVars, memtable, log, pc>>
         \/ \E k \in Key : Examine(k, Empty)
  BY DEF GcNoEntry
<1>2. PICK n \in 1 .. gcLeft : Advance(n)
  BY DEF GcNoEntry
<1>3. Empty \in Written
  BY DEF Written
<1>4. CASE \E k \in Key : Examine(k, Empty)
  BY <1>1, <1>2, <1>3, <1>4, AnyExamine
<1>5. CASE UNCHANGED <<treeVars, memtable, log, pc>>
  <2>1. /\ TreeInv /\ AnyData /\ Len(log) \in Nat /\ MaxLog \in Nat
        /\ Cardinality(DOMAIN memtable) \in Nat
        /\ Len(log) + Cardinality(DOMAIN memtable) + gcLeft <= MaxLog
        /\ gcPos \in Nat /\ gcLeft \in Int
    BY <1>1, AnyFacts DEF AnyClientInv, GcHasRoom, AnyData
  <2>2. gcPos' \in Nat /\ gcLeft' \in Int /\ 0 <= gcLeft' /\ gcLeft' <= gcLeft - 1
    BY <1>2, <2>1 DEF Advance
  <2>3. TreeInv'
    BY <1>5, <2>1, StutterPreserves
  <2>4. AnyData'
    BY <1>1, <1>5, <2>1, <2>2 DEF AnyData
  <2>5. MemtableHasRoom'
    BY <1>5 DEF AnyClientInv, MemtableHasRoom
  <2>6. GcHasRoom'
    BY <1>1, <1>5, <2>1, <2>2 DEF GcHasRoom
  <2> QED BY <2>3, <2>4, <2>5, <2>6, AnyFromParts
<1> QED BY <1>1, <1>4, <1>5

LEMMA AnyGcStart ==
  ASSUME AnyClientInv, NEW chunk \in 0 .. MaxChunk, GcStart(chunk)
  PROVE  AnyClientInv'
<1>1. /\ TreeInv /\ AnyData /\ Len(log) \in Nat /\ MaxLog \in Nat /\ hole \in Nat
      /\ Cardinality(DOMAIN memtable) \in Nat
  BY AnyFacts DEF AnyData
<1>2. /\ pc = "ready" /\ Room(chunk, 1) /\ pc' = "gc" /\ gcLeft' = chunk
      /\ streamOk' = Readable(hole)
      /\ gcPos' \in IF streamOk THEN {hole} ELSE 0 .. hole
      /\ UNCHANGED <<treeVars, memtable, log, hole>>
  BY DEF GcStart
<1>3. gcPos' \in Nat /\ gcLeft' \in Nat
  BY <1>1, <1>2, LogAssumption
<1>4. streamOk' \in BOOLEAN
  BY <1>1, <1>2 DEF Readable, AnyData
<1>5. TreeInv'
  BY <1>1, <1>2, StutterPreserves
<1>6. AnyData'
  BY <1>1, <1>2, <1>3, <1>4 DEF AnyData
<1>7. MemtableHasRoom'
  BY <1>2 DEF AnyClientInv, MemtableHasRoom
<1>8. Len(log) + Cardinality(DOMAIN memtable) + chunk <= MaxLog
  BY <1>1, <1>2 DEF Room
<1>9. GcHasRoom'
  BY <1>2, <1>3, <1>8 DEF GcHasRoom
<1> QED BY <1>5, <1>6, <1>7, <1>9, AnyFromParts

LEMMA AnyGcFinish ==
  ASSUME AnyClientInv, GcFinish
  PROVE  AnyClientInv'
<1>1. /\ TreeInv /\ AnyData /\ Len(log) \in Nat /\ MaxLog \in Nat
      /\ Cardinality(DOMAIN memtable) \in Nat
      /\ Cardinality(DOMAIN memtable) <= MemtableThreshold
  BY AnyFacts
<1>2. /\ pc = "gc" /\ pc' = "lastFlush"
      /\ IF DOMAIN memtable = {} THEN UNCHANGED <<treeVars, log>> ELSE Convert(memtable)
      /\ UNCHANGED <<memtable, hole, streamOk, gcPos, gcLeft>>
  BY DEF GcFinish
<1>3. 0 <= gcLeft /\ Len(log) + Cardinality(DOMAIN memtable) + gcLeft <= MaxLog
  BY <1>2 DEF AnyClientInv, GcHasRoom
<1>4. /\ TreeInv' /\ log' \in Seq([key : Key, value : Written])
      /\ Len(log') \in Nat /\ Len(log') >= Len(log)
  <2>1. CASE DOMAIN memtable = {}
    BY <1>1, <1>2, <2>1, StutterPreserves DEF AnyData
  <2>2. CASE DOMAIN memtable # {}
    <3>1. Len(log) + Cardinality(DOMAIN memtable) <= MaxLog
      BY <1>1, <1>3 DEF AnyData
    <3>2. \A k \in DOMAIN memtable : memtable[k] \in Written
      BY <1>1 DEF AnyData
    <3>3. log \in Seq([key : Key, value : Written]) /\ DOMAIN memtable \in SUBSET Key
      BY <1>1 DEF AnyData
    <3> QED BY <1>1, <1>2, <2>2, <3>1, <3>2, <3>3, AnyConvert
  <2> QED BY <2>1, <2>2
<1>5. AnyData'
  BY <1>1, <1>2, <1>4 DEF AnyData
<1>6. MemtableHasRoom' /\ GcHasRoom'
  BY <1>1, <1>2, <1>3 DEF MemtableHasRoom, GcHasRoom
<1> QED BY <1>4, <1>5, <1>6, AnyFromParts

LEMMA AnyGcEnd ==
  ASSUME AnyClientInv, GcEnd
  PROVE  AnyClientInv'
<1>1. /\ TreeInv /\ AnyData /\ Len(log) \in Nat /\ hole \in Nat /\ hole <= Len(log)
      /\ gcPos \in Nat
  BY AnyFacts DEF AnyData
<1>2. /\ memtable' = NoEntries
      /\ hole' \in {hole, Max({hole, Min({gcPos, Len(log)})})}
      /\ pc' = "ready" /\ gcPos' = 0 /\ gcLeft' = 0
      /\ UNCHANGED <<treeVars, log, streamOk>>
  BY DEF GcEnd
<1>3. Min({gcPos, Len(log)}) \in Nat /\ Min({gcPos, Len(log)}) <= Len(log)
  <2>1. {gcPos, Len(log)} \in SUBSET Nat
    BY <1>1
  <2>2. /\ Min({gcPos, Len(log)}) \in {gcPos, Len(log)}
        /\ \A x \in {gcPos, Len(log)} : Min({gcPos, Len(log)}) <= x
    BY <2>1, MinOfSet
  <2> HIDE DEF Min
  <2> QED BY <1>1, <2>2
<1>4. Max({hole, Min({gcPos, Len(log)})}) \in {hole, Min({gcPos, Len(log)})}
  <2> DEFINE n == Min({gcPos, Len(log)})
  <2>1. {hole, n} \in SUBSET Nat /\ \A x \in {hole, n} : x <= Len(log)
    BY <1>1, <1>3
  <2> HIDE DEF n
  <2>2. Max({hole, n}) \in {hole, n}
    BY <1>1, <2>1, MaxOfSet
  <2> QED BY <2>2 DEF n
<1>5. hole' \in Nat /\ hole' <= Len(log)
  BY <1>1, <1>2, <1>3, <1>4
<1>6. TreeInv'
  BY <1>1, <1>2, StutterPreserves
<1>7. /\ DOMAIN memtable' \subseteq Key
      /\ memtable' \in [DOMAIN memtable' -> Written]
      /\ MemtableHasRoom'
  BY <1>2, AnyClean
<1>8. AnyData'
  BY <1>1, <1>2, <1>5, <1>7 DEF AnyData
<1>9. GcHasRoom'
  BY <1>2 DEF GcHasRoom
<1> QED BY <1>6, <1>7, <1>8, <1>9, AnyFromParts

LEMMA AnyCompaction ==
  ASSUME KeysFitInt, AnyClientInv, Compaction
  PROVE  AnyClientInv'
<1>1. TreeInv /\ AnyData
  BY AnyFacts
<1>2. CompactStep /\ UNCHANGED <<memtable, log, hole, streamOk, pc, gcPos, gcLeft>>
  BY DEF Compaction
<1>3. TreeInv'
  <2>1. FaultyNext
    BY <1>2 DEF FaultyNext, TreeNext
  <2> QED BY <1>1, <2>1, StepPreserves
<1>4. AnyData'
  BY <1>1, <1>2 DEF AnyData
<1>5. MemtableHasRoom' /\ GcHasRoom'
  BY <1>2 DEF AnyClientInv, MemtableHasRoom, GcHasRoom
<1> QED BY <1>3, <1>4, <1>5, AnyFromParts

LEMMA AnyReset ==
  ASSUME KeysFitInt, AnyClientInv, Reset
  PROVE  AnyClientInv'
<1>1. TreeInv /\ AnyData
  BY AnyFacts
<1>2. /\ pc = "ready" /\ ResetTree
      /\ memtable' = NoEntries /\ log' = <<>> /\ hole' = 0 /\ streamOk' = TRUE
      /\ UNCHANGED <<pc, gcPos, gcLeft>>
  BY DEF Reset
<1>3. TreeInv'
  <2>1. FaultyNext
    BY <1>2 DEF FaultyNext, TreeNext
  <2> QED BY <1>1, <2>1, StepPreserves
<1>4. log' \in Seq([key : Key, value : Written]) /\ hole' \in Nat /\ hole' <= Len(log')
  BY <1>2
<1>5. /\ DOMAIN memtable' \subseteq Key
      /\ memtable' \in [DOMAIN memtable' -> Written]
      /\ MemtableHasRoom'
  BY <1>2, AnyClean
<1>6. AnyData'
  BY <1>1, <1>2, <1>4, <1>5 DEF AnyData
<1>7. GcHasRoom'
  BY <1>2 DEF GcHasRoom
<1> QED BY <1>3, <1>5, <1>6, <1>7, AnyFromParts

LEMMA AnyCleanStep ==
  ASSUME AnyClientInv, Clean
  PROVE  AnyClientInv'
<1>1. TreeInv /\ AnyData /\ Len(log) \in Nat /\ gcLeft \in Int
  BY AnyFacts DEF AnyData
<1>2. /\ pc \in {"putFlush", "gcFlush"}
      /\ memtable' = NoEntries
      /\ pc' = IF pc = "putFlush" THEN "ready" ELSE "gc"
      /\ UNCHANGED <<treeVars, log, hole, streamOk, gcPos, gcLeft>>
  BY DEF Clean
<1>3. TreeInv'
  BY <1>1, <1>2, StutterPreserves
<1>4. /\ DOMAIN memtable' \subseteq Key
      /\ memtable' \in [DOMAIN memtable' -> Written]
      /\ Cardinality(DOMAIN memtable') = 0
      /\ MemtableHasRoom'
  BY <1>2, AnyClean
<1>5. AnyData'
  BY <1>1, <1>2, <1>4 DEF AnyData
<1>6. GcHasRoom'
  BY <1>1, <1>2, <1>4 DEF GcHasRoom, AnyClientInv
<1> QED BY <1>3, <1>4, <1>5, <1>6, AnyFromParts

LEMMA AnyStepKeeps ==
  ASSUME KeysFitInt, AnyClientInv, [KVNext]_vars
  PROVE  AnyClientInv'
<1>1. ASSUME NEW k \in Key, NEW v \in Value, Put(k, v)
      PROVE  AnyClientInv'
  BY <1>1, AnyPut DEF Put, Written
<1>2. ASSUME NEW k \in Key, Del(k)
      PROVE  AnyClientInv'
  BY <1>2, AnyPut DEF Del, Written
<1>3. CASE CallStep
  BY <1>3, AnyCompaction, AnyCleanStep, AnyGcEntry, AnyGcNoEntry, AnyGcFinish, AnyGcEnd
     DEF CallStep
<1>4. CASE UNCHANGED vars
  <2>1. TreeInv /\ AnyData
    BY AnyFacts
  <2>2. UNCHANGED <<treeVars, memtable, log, hole, streamOk, pc, gcPos, gcLeft>>
    BY <1>4 DEF vars
  <2>3. TreeInv'
    BY <2>1, <2>2, StutterPreserves
  <2>4. AnyData'
    BY <2>1, <2>2 DEF AnyData
  <2>5. MemtableHasRoom' /\ GcHasRoom'
    BY <2>2 DEF AnyClientInv, MemtableHasRoom, GcHasRoom
  <2> QED BY <2>3, <2>4, <2>5, AnyFromParts
<1> QED BY <1>1, <1>2, <1>3, <1>4, AnyReset, AnyGcStart DEF KVNext, ClientStep

LEMMA AnyInit == KVInit => AnyClientInv
<1> SUFFICES ASSUME KVInit
             PROVE  AnyClientInv
  OBVIOUS
<1>1. /\ TreeInit /\ memtable = NoEntries /\ log = <<>> /\ hole = 0 /\ streamOk = TRUE
      /\ pc = "ready" /\ gcPos = 0 /\ gcLeft = 0
  BY DEF KVInit
<1>2. TreeInv
  BY <1>1, InitTreeInv
<1>3. DOMAIN memtable = {} /\ memtable \in [DOMAIN memtable -> Written]
  BY <1>1 DEF NoEntries
<1>4. log \in Seq([key : Key, value : Written]) /\ hole \in Nat /\ hole <= Len(log)
  BY <1>1
<1>5. AnyData
  BY <1>1, <1>3, <1>4 DEF AnyData
<1>6. MemtableHasRoom
  <2>1. Cardinality(DOMAIN memtable) = 0
    BY <1>3, FS_EmptySet
  <2> QED BY <2>1, ThresholdAssumption DEF MemtableHasRoom
<1>7. GcHasRoom
  BY <1>1 DEF GcHasRoom
<1> QED BY <1>2, <1>5, <1>6, <1>7, AnyTypes DEF AnyClientInv

LEMMA AnyClientInvariant ==
  ASSUME KeysFitInt
  PROVE  KVSpec => []AnyClientInv
<1>1. AnyClientInv /\ [KVNext]_vars => AnyClientInv'
  BY AnyStepKeeps
<1> QED BY <1>1, AnyInit, PTL DEF KVSpec

(* Whatever clients do, a gc that runs past the end of the log included,   *)
(* the state of the store and its tree keep their types.                   *)
THEOREM AnyClientTypeCorrect ==
  ASSUME KeysFitInt
  PROVE  KVSpec => []KVTypeOK
<1>1. AnyClientInv => KVTypeOK
  BY DEF AnyClientInv
<1> QED BY <1>1, AnyClientInvariant, PTL

----------------------------------------------------------------------------
(* Scans.                                                                  *)

(* In a finite set under a strict total order, given as a set of pairs,    *)
(* the elements have 0, 1, ... elements before them, each in its order.    *)
Ahead(S, R, x) == Cardinality({y \in S : <<y, x>> \in R})

StrictOrder(S, R) ==
  /\ \A x \in S : <<x, x>> \notin R
  /\ \A x, y, z \in S : <<x, y>> \in R /\ <<y, z>> \in R => <<x, z>> \in R
  /\ \A x, y \in S : x # y => <<x, y>> \in R \/ <<y, x>> \in R

LEMMA AheadType ==
  ASSUME NEW S, IsFiniteSet(S), NEW R, StrictOrder(S, R), NEW x \in S
  PROVE  Cardinality(S) \in Nat /\ Ahead(S, R, x) \in 0 .. Cardinality(S) - 1
<1> DEFINE B == {y \in S : <<y, x>> \in R}
<1>1. B \in SUBSET (S \ {x})
  BY DEF StrictOrder
<1> HIDE DEF B
<1>2. /\ Cardinality(S) \in Nat
      /\ IsFiniteSet(S \ {x}) /\ Cardinality(S \ {x}) = Cardinality(S) - 1
  BY FS_RemoveElement, FS_CardinalityType
<1>3. IsFiniteSet(B) /\ Cardinality(B) <= Cardinality(S) - 1
  BY <1>1, <1>2, FS_Subset
<1>4. Cardinality(B) \in Nat
  BY <1>3, FS_CardinalityType
<1>5. Ahead(S, R, x) = Cardinality(B)
  BY DEF Ahead, B
<1> QED BY <1>2, <1>3, <1>4, <1>5

LEMMA AheadMonotone ==
  ASSUME NEW S, IsFiniteSet(S), NEW R, StrictOrder(S, R),
         NEW x \in S, NEW y \in S, <<x, y>> \in R
  PROVE  Ahead(S, R, x) < Ahead(S, R, y)
<1> DEFINE A == {z \in S : <<z, x>> \in R}
           B == {z \in S : <<z, y>> \in R}
<1>1. A \in SUBSET B /\ x \in B /\ x \notin A /\ B \in SUBSET S
  BY DEF StrictOrder
<1>2. Ahead(S, R, x) = Cardinality(A) /\ Ahead(S, R, y) = Cardinality(B)
  BY DEF Ahead
<1> HIDE DEF A, B
<1>3. IsFiniteSet(B)
  BY <1>1, FS_Subset
<1>4. IsFiniteSet(A) /\ Cardinality(A) <= Cardinality(B) /\ Cardinality(A) # Cardinality(B)
  BY <1>1, <1>3, FS_Subset
<1>5. Cardinality(A) \in Nat /\ Cardinality(B) \in Nat
  BY <1>3, <1>4, FS_CardinalityType
<1> QED BY <1>2, <1>4, <1>5

LEMMA AheadInjective ==
  ASSUME NEW S, IsFiniteSet(S), NEW R, StrictOrder(S, R),
         NEW x \in S, NEW y \in S, Ahead(S, R, x) = Ahead(S, R, y)
  PROVE  x = y
<1>1. SUFFICES ASSUME x # y PROVE FALSE
  OBVIOUS
<1>2. <<x, y>> \in R \/ <<y, x>> \in R
  BY <1>1 DEF StrictOrder
<1>3. Ahead(S, R, x) < Ahead(S, R, y) \/ Ahead(S, R, y) < Ahead(S, R, x)
  BY <1>2, AheadMonotone
<1>4. Ahead(S, R, x) \in Int /\ Ahead(S, R, y) \in Int
  BY AheadType
<1> QED BY <1>3, <1>4

LEMMA AheadTaken ==
  ASSUME NEW S, IsFiniteSet(S), NEW R, StrictOrder(S, R),
         NEW r \in 0 .. Cardinality(S) - 1
  PROVE  \E x \in S : Ahead(S, R, x) = r
<1> DEFINE n     == Cardinality(S)
           ahead == [x \in S |-> Ahead(S, R, x)]
<1>1. n \in Nat
  BY FS_CardinalityType
<1>2. SUFFICES ASSUME \A x \in S : Ahead(S, R, x) # r PROVE FALSE
  OBVIOUS
<1>3. ahead \in [S -> (0 .. n - 1) \ {r}]
  BY <1>2, AheadType
<1>4. \A x, y \in S : x # y => ahead[x] # ahead[y]
  BY AheadInjective
<1>5. IsFiniteSet(0 .. n - 1) /\ Cardinality(0 .. n - 1) = n
  BY <1>1, FS_Interval
<1>6. /\ IsFiniteSet((0 .. n - 1) \ {r})
      /\ Cardinality((0 .. n - 1) \ {r}) = n - 1
  BY <1>5, FS_RemoveElement
<1> HIDE DEF ahead
<1>7. Cardinality((0 .. n - 1) \ {r}) < Cardinality(S)
  BY <1>1, <1>6
<1> QED BY <1>1, <1>3, <1>4, <1>6, <1>7, FS_PigeonHole

(* Where a table is.                                                       *)
LEMMA PlaceFacts ==
  ASSUME level0 \in Seq(Table), deeper \in Seq(SUBSET Table), NEW p \in Places
  PROVE  /\ p = <<p[1], p[2]>>
         /\ p[1] \in Nat
         /\ TableAt(p) \in Table
         /\ \/ /\ p[1] = 0 /\ p[2] \in DOMAIN level0 /\ p[2] \in Nat
               /\ TableAt(p) = level0[p[2]]
            \/ /\ p[1] # 0 /\ p[1] \in DOMAIN deeper /\ p[2] \in deeper[p[1]]
               /\ TableAt(p) = p[2]
<1>1. CASE \E i \in DOMAIN level0 : p = <<0, i>>
  <2>1. PICK i \in DOMAIN level0 : p = <<0, i>>
    BY <1>1
  <2>2. p[1] = 0 /\ p[2] = i
    BY <2>1
  <2>3. i \in Nat /\ level0[i] \in Table
    OBVIOUS
  <2> QED BY <2>1, <2>2, <2>3 DEF TableAt
<1>2. CASE \E l \in DOMAIN deeper : \E t \in deeper[l] : p = <<l, t>>
  <2>1. PICK l \in DOMAIN deeper : \E t \in deeper[l] : p = <<l, t>>
    BY <1>2
  <2>2. PICK t \in deeper[l] : p = <<l, t>>
    BY <2>1
  <2>3. p[1] = l /\ p[2] = t
    BY <2>2
  <2>4. l \in Nat /\ l # 0 /\ t \in Table
    OBVIOUS
  <2> QED BY <2>2, <2>3, <2>4 DEF TableAt
<1> QED BY <1>1, <1>2 DEF Places

LEMMA FoundFacts ==
  ASSUME level0 \in Seq(Table), deeper \in Seq(SUBSET Table),
         NEW lo \in Key, NEW hi \in Key, NEW x \in Found(lo, hi)
  PROVE  /\ x = <<x[1], x[2]>>
         /\ x[1] \in Places /\ x[2] \in Key /\ x[2] \in Nat
         /\ lo <= x[2] /\ x[2] <= hi
         /\ x[2] \in Keys(TableAt(x[1]))
<1> DEFINE K == {k \in Key : lo <= k /\ k <= hi}
<1>1. x \in Places \X K /\ x[2] \in Keys(TableAt(x[1]))
  BY DEF Found
<1>2. x = <<x[1], x[2]>> /\ x[1] \in Places /\ x[2] \in K
  BY <1>1
<1> QED BY <1>1, <1>2, KeysAreNat

(* A tuple is known by its key, its level and, in level 0, its table's     *)
(* index: a deeper level has one table with the key at most.               *)
IndexAt(p) == IF p[1] = 0 THEN p[2] ELSE 0

LEMMA FoundKnown ==
  ASSUME TreeInv, NEW lo \in Key, NEW hi \in Key,
         NEW x \in Found(lo, hi), NEW y \in Found(lo, hi)
  PROVE  /\ x[1][1] \in Nat /\ IndexAt(x[1]) \in Nat
         /\ x[2] = y[2] /\ x[1][1] = y[1][1] /\ IndexAt(x[1]) = IndexAt(y[1]) => x = y
         /\ ListedBefore(x, y) <=>
              \/ x[2] < y[2]
              \/ /\ x[2] = y[2]
                 /\ \/ x[1][1] < y[1][1]
                    \/ x[1][1] = y[1][1] /\ IndexAt(x[1]) > IndexAt(y[1])
<1> DEFINE p == x[1]
           q == y[1]
<1>1. /\ level0 \in Seq(Table) /\ deeper \in Seq(SUBSET Table)
      /\ \A l \in DOMAIN deeper : Disjoint(deeper[l])
  BY TreeShape
<1>2. /\ x = <<p, x[2]>> /\ p \in Places /\ x[2] \in Key /\ x[2] \in Keys(TableAt(p))
      /\ y = <<q, y[2]>> /\ q \in Places /\ y[2] \in Key /\ y[2] \in Keys(TableAt(q))
  BY <1>1, FoundFacts
<1>3. ListedBefore(x, y) <=> x[2] < y[2] \/ (x[2] = y[2] /\ VisitedBefore(p, q))
  BY DEF ListedBefore
<1> HIDE DEF p, q
<1>4. /\ p = <<p[1], p[2]>> /\ p[1] \in Nat /\ TableAt(p) \in Table
      /\ \/ p[1] = 0 /\ p[2] \in DOMAIN level0 /\ p[2] \in Nat
         \/ /\ p[1] # 0 /\ p[1] \in DOMAIN deeper /\ p[2] \in deeper[p[1]]
            /\ TableAt(p) = p[2]
  BY <1>1, <1>2, PlaceFacts
<1>5. /\ q = <<q[1], q[2]>> /\ q[1] \in Nat /\ TableAt(q) \in Table
      /\ \/ q[1] = 0 /\ q[2] \in DOMAIN level0 /\ q[2] \in Nat
         \/ /\ q[1] # 0 /\ q[1] \in DOMAIN deeper /\ q[2] \in deeper[q[1]]
            /\ TableAt(q) = q[2]
  BY <1>1, <1>2, PlaceFacts
<1>6. IndexAt(p) \in Nat /\ IndexAt(q) \in Nat
  BY <1>4, <1>5 DEF IndexAt
<1>7. ASSUME x[2] = y[2], p[1] = q[1], p[1] # 0
      PROVE  p[2] = q[2]
  <2>1. /\ p[1] \in DOMAIN deeper /\ Disjoint(deeper[p[1]])
        /\ p[2] \in deeper[p[1]] /\ q[2] \in deeper[p[1]]
        /\ deeper[p[1]] \in SUBSET Table
        /\ x[2] \in Keys(p[2]) /\ x[2] \in Keys(q[2])
    BY <1>1, <1>2, <1>4, <1>5, <1>7
  <2> QED BY <2>1, DisjointHolder
<1>8. ASSUME x[2] = y[2], p[1] = q[1], IndexAt(p) = IndexAt(q)
      PROVE  x = y
  BY <1>2, <1>4, <1>5, <1>7, <1>8 DEF IndexAt
<1>9. ASSUME x[2] = y[2], p[1] = q[1], p[1] # 0
      PROVE  ~BehindIt(p, q)
  <2>1. p[2] = q[2] /\ p[2] \in Table
    BY <1>4, <1>7, <1>9
  <2>2. p[2].time \in Nat /\ SmallestKey(p[2]) \in Nat
    BY <2>1, TableKeys
  <2> QED BY <1>9, <2>1, <2>2 DEF BehindIt, Before
<1>10. x[2] = y[2] =>
         (VisitedBefore(p, q) <=>
            p[1] < q[1] \/ (p[1] = q[1] /\ IndexAt(p) > IndexAt(q)))
  <2>1. CASE p[1] = q[1] /\ p[1] = 0
    BY <1>4, <1>5, <2>1 DEF VisitedBefore, BehindIt, IndexAt
  <2>2. CASE p[1] = q[1] /\ p[1] # 0
    BY <1>4, <1>5, <1>9, <2>2 DEF VisitedBefore, IndexAt
  <2>3. CASE p[1] # q[1]
    BY <2>3 DEF VisitedBefore
  <2> QED BY <2>1, <2>2, <2>3
<1> QED BY <1>3, <1>4, <1>6, <1>8, <1>10 DEF p, q

Listing(lo, hi) ==
  {p \in Found(lo, hi) \X Found(lo, hi) : ListedBefore(p[1], p[2])}

LEMMA ListingOrders ==
  ASSUME TreeInv, NEW lo \in Key, NEW hi \in Key
  PROVE  StrictOrder(Found(lo, hi), Listing(lo, hi))
<1> DEFINE F == Found(lo, hi)
           R == Listing(lo, hi)
<1>1. \A x, y \in F : <<x, y>> \in R <=> ListedBefore(x, y)
  BY DEF Listing
<1>2. \A x \in F : x[2] \in Nat /\ x[1][1] \in Nat /\ IndexAt(x[1]) \in Nat
  BY FoundFacts, FoundKnown, TreeShape
<1>3. \A x, y \in F :
        x[2] = y[2] /\ x[1][1] = y[1][1] /\ IndexAt(x[1]) = IndexAt(y[1]) => x = y
  BY FoundKnown
<1>4. \A x, y \in F :
        <<x, y>> \in R <=>
              \/ x[2] < y[2]
              \/ /\ x[2] = y[2]
                 /\ \/ x[1][1] < y[1][1]
                    \/ x[1][1] = y[1][1] /\ IndexAt(x[1]) > IndexAt(y[1])
  BY <1>1, FoundKnown
<1> HIDE DEF F, R
<1>5. \A x \in F : <<x, x>> \notin R
  BY <1>2, <1>4
<1>6. \A x, y, z \in F : <<x, y>> \in R /\ <<y, z>> \in R => <<x, z>> \in R
  <2> TAKE x, y, z \in F
  <2> HAVE <<x, y>> \in R /\ <<y, z>> \in R
  <2> QED BY <1>2, <1>4
<1>7. \A x, y \in F : x # y => <<x, y>> \in R \/ <<y, x>> \in R
  <2> TAKE x, y \in F
  <2> HAVE x # y
  <2> QED BY <1>2, <1>3, <1>4
<1> QED BY <1>5, <1>6, <1>7 DEF StrictOrder, F, R

LEMMA FoundFinite ==
  ASSUME TreeInv, NEW lo \in Key, NEW hi \in Key
  PROVE  IsFiniteSet(Found(lo, hi))
<1> DEFINE F == Found(lo, hi)
           m == Len(level0)
           n == Len(deeper)
           T == (Key \X (0 .. n)) \X (0 .. m)
           f == [x \in F |-> <<<<x[2], x[1][1]>>, IndexAt(x[1])>>]
<1>1. /\ level0 \in Seq(Table) /\ deeper \in Seq(SUBSET Table) /\ m \in Nat /\ n \in Nat
      /\ DOMAIN level0 = 1 .. m /\ DOMAIN deeper = 1 .. n
  BY TreeShape
<1>2. ASSUME NEW x \in F
      PROVE  x[2] \in Key /\ x[1][1] \in 0 .. n /\ IndexAt(x[1]) \in 0 .. m
  <2>1. x[1] \in Places /\ x[2] \in Key
    BY <1>1, FoundFacts
  <2>2. \/ x[1][1] = 0 /\ x[1][2] \in 1 .. m
        \/ x[1][1] # 0 /\ x[1][1] \in 1 .. n
    BY <1>1, <2>1, PlaceFacts
  <2> HIDE DEF m, n, F
  <2> QED BY <1>1, <2>1, <2>2 DEF IndexAt
<1>3. \A x, y \in F :
        x[2] = y[2] /\ x[1][1] = y[1][1] /\ IndexAt(x[1]) = IndexAt(y[1]) => x = y
  BY FoundKnown
<1>4. IsFiniteSet(Key \X (0 .. n)) /\ IsFiniteSet(0 .. m)
  <2>1. IsFiniteSet(0 .. n) /\ IsFiniteSet(0 .. m)
    BY <1>1, FS_Interval
  <2>2. IsFiniteSet(Key)
    BY KeySetFinite
  <2> QED BY <2>1, <2>2, FS_Product
<1>5. IsFiniteSet(T)
  BY <1>4, FS_Product
<1> HIDE DEF F, m, n
<1>6. f \in [F -> T]
  BY <1>2
<1>7. \A x, y \in F : f[x] = f[y] => x = y
  BY <1>3
<1>8. f \in Injection(F, T)
  BY <1>6, <1>7 DEF Injection, IsInjective
<1> HIDE DEF f, T
<1> QED BY <1>5, <1>8, FS_Injection DEF F

(* The list of the tables' pairs: each tuple once, in the order of Listing. *)
LEMMA ScanTablesFacts ==
  ASSUME TreeInv, NEW lo \in Key, NEW hi \in Key
  PROVE  LET F    == Found(lo, hi)
             R    == Listing(lo, hi)
             list == ScanTables(lo, hi)
         IN  /\ Cardinality(F) \in Nat
             /\ list = [i \in 1 .. Cardinality(F) |-> list[i]]
             /\ \A i \in 1 .. Cardinality(F) : \E x \in F :
                  list[i] = PairOf(x) /\ Ahead(F, R, x) = i - 1
             /\ \A x \in F :
                  /\ Ahead(F, R, x) + 1 \in 1 .. Cardinality(F)
                  /\ list[Ahead(F, R, x) + 1] = PairOf(x)
<1> DEFINE F     == Found(lo, hi)
           R     == Listing(lo, hi)
           n     == Cardinality(F)
           at(i) == CHOOSE x \in F : Cardinality({y \in F : ListedBefore(y, x)}) = i - 1
<1>1. IsFiniteSet(F) /\ StrictOrder(F, R) /\ n \in Nat
  BY FoundFinite, ListingOrders, FS_CardinalityType
<1>2. \A x \in F : Cardinality({y \in F : ListedBefore(y, x)}) = Ahead(F, R, x)
  <2> TAKE x \in F
  <2>1. {y \in F : ListedBefore(y, x)} = {y \in F : <<y, x>> \in R}
    BY DEF Listing
  <2> QED BY <2>1 DEF Ahead
<1>3. ScanTables(lo, hi) = [i \in 1 .. n |-> PairOf(at(i))]
  BY DEF ScanTables
<1> HIDE DEF F, R
<1>4. \A i \in 1 .. n : at(i) \in F /\ Ahead(F, R, at(i)) = i - 1
  <2> TAKE i \in 1 .. n
  <2>1. i - 1 \in 0 .. Cardinality(F) - 1
    BY <1>1
  <2>2. \E x \in F : Ahead(F, R, x) = i - 1
    BY <1>1, <2>1, AheadTaken
  <2>3. \E x \in F : Cardinality({y \in F : ListedBefore(y, x)}) = i - 1
    BY <1>2, <2>2
  <2>4. at(i) \in F /\ Cardinality({y \in F : ListedBefore(y, at(i))}) = i - 1
    BY <2>3
  <2> HIDE DEF at
  <2> QED BY <1>2, <2>4
<1> HIDE DEF at
<1>5. \A x \in F : Ahead(F, R, x) + 1 \in 1 .. n /\ at(Ahead(F, R, x) + 1) = x
  <2> TAKE x \in F
  <2> DEFINE r == Ahead(F, R, x) + 1
  <2>1. Ahead(F, R, x) \in 0 .. n - 1
    BY <1>1, AheadType
  <2>2. r \in 1 .. n /\ r - 1 = Ahead(F, R, x)
    BY <1>1, <2>1
  <2> HIDE DEF r
  <2>3. at(r) \in F /\ Ahead(F, R, at(r)) = Ahead(F, R, x)
    BY <1>4, <2>2
  <2>4. at(r) = x
    BY <1>1, <2>3, AheadInjective
  <2> QED BY <2>2, <2>4 DEF r
<1> HIDE DEF n
<1>6. ScanTables(lo, hi) = [i \in 1 .. n |-> ScanTables(lo, hi)[i]]
  BY <1>3
<1>7. \A i \in 1 .. n : ScanTables(lo, hi)[i] = PairOf(at(i))
  BY <1>3
<1>8. \A i \in 1 .. n : \E x \in F :
        ScanTables(lo, hi)[i] = PairOf(x) /\ Ahead(F, R, x) = i - 1
  BY <1>4, <1>7
<1>9. \A x \in F :
        /\ Ahead(F, R, x) + 1 \in 1 .. n
        /\ ScanTables(lo, hi)[Ahead(F, R, x) + 1] = PairOf(x)
  BY <1>5, <1>7
<1> QED BY <1>1, <1>6, <1>8, <1>9 DEF F, R, n

InMemTable(lo, hi) == {k \in DOMAIN memtable : lo <= k /\ k <= hi}

LEMMA ScanMemTableFacts ==
  ASSUME DOMAIN memtable \in SUBSET Key, NEW lo \in Key, NEW hi \in Key
  PROVE  LET M    == InMemTable(lo, hi)
             list == ScanMemTable(lo, hi)
         IN  /\ Cardinality(M) \in Nat
             /\ list = [i \in 1 .. Cardinality(M) |-> list[i]]
             /\ \A i \in 1 .. Cardinality(M) : \E k \in M :
                  list[i] = <<k, memtable[k]>> /\ Rank(M, k) = i - 1
             /\ \A k \in M :
                  /\ Rank(M, k) + 1 \in 1 .. Cardinality(M)
                  /\ list[Rank(M, k) + 1] = <<k, memtable[k]>>
<1> DEFINE M     == InMemTable(lo, hi)
           n     == Cardinality(M)
           at(i) == CHOOSE k \in M : Rank(M, k) = i - 1
<1>1. M \in SUBSET Key /\ IsFiniteSet(M) /\ n \in Nat
  BY KeySetFinite, FS_Subset, FS_CardinalityType DEF InMemTable
<1>2. ScanMemTable(lo, hi) = [i \in 1 .. n |-> <<at(i), memtable[at(i)]>>]
  BY DEF ScanMemTable, InMemTable
<1> HIDE DEF M
<1>3. \A i \in 1 .. n : at(i) \in M /\ Rank(M, at(i)) = i - 1
  <2> TAKE i \in 1 .. n
  <2>1. i - 1 \in 0 .. Cardinality(M) - 1
    BY <1>1
  <2>2. \E k \in M : Rank(M, k) = i - 1
    BY <1>1, <2>1, RankTaken
  <2> QED BY <2>2
<1> HIDE DEF at
<1>4. \A k \in M : Rank(M, k) + 1 \in 1 .. n /\ at(Rank(M, k) + 1) = k
  <2> TAKE k \in M
  <2> DEFINE r == Rank(M, k) + 1
  <2>1. Rank(M, k) \in 0 .. n - 1
    BY <1>1, RankBelow
  <2>2. r \in 1 .. n /\ r - 1 = Rank(M, k)
    BY <1>1, <2>1
  <2> HIDE DEF r
  <2>3. at(r) \in M /\ Rank(M, at(r)) = Rank(M, k)
    BY <1>3, <2>2
  <2>4. at(r) = k
    BY <1>1, <2>3, RankInjective
  <2> QED BY <2>2, <2>4 DEF r
<1> HIDE DEF n
<1>5. ScanMemTable(lo, hi) = [i \in 1 .. n |-> ScanMemTable(lo, hi)[i]]
  BY <1>2
<1>6. \A i \in 1 .. n : ScanMemTable(lo, hi)[i] = <<at(i), memtable[at(i)]>>
  BY <1>2
<1>7. \A i \in 1 .. n : \E k \in M :
        ScanMemTable(lo, hi)[i] = <<k, memtable[k]>> /\ Rank(M, k) = i - 1
  BY <1>3, <1>6
<1>8. \A k \in M :
        /\ Rank(M, k) + 1 \in 1 .. n
        /\ ScanMemTable(lo, hi)[Rank(M, k) + 1] = <<k, memtable[k]>>
  BY <1>4, <1>6
<1> QED BY <1>1, <1>5, <1>7, <1>8 DEF M, n

(* The tables' pairs first, then the MemTable's.                           *)
LEMMA CommonRange ==
  ASSUME NEW n \in Nat, NEW m \in Nat, NEW s, NEW t,
         s = [i \in 1 .. n |-> s[i]], t = [i \in 1 .. m |-> t[i]]
  PROVE  \E S : s \in [1 .. n -> S] /\ t \in [1 .. m -> S]
<1> DEFINE S == {s[i] : i \in 1 .. n} \cup {t[i] : i \in 1 .. m}
<1>1. /\ \A i \in 1 .. n : s[i] \in S
      /\ \A i \in 1 .. m : t[i] \in S
  OBVIOUS
<1> HIDE DEF S
<1>2. s \in [1 .. n -> S] /\ t \in [1 .. m -> S]
  BY <1>1
<1> QED BY <1>2

LEMMA Concatenation ==
  ASSUME NEW n \in Nat, NEW m \in Nat, NEW S,
         NEW s \in [1 .. n -> S], NEW t \in [1 .. m -> S]
  PROVE  /\ DOMAIN (s \o t) = 1 .. n + m
         /\ \A i \in 1 .. n : (s \o t)[i] = s[i]
         /\ \A i \in 1 .. m : (s \o t)[n + i] = t[i]
<1>1. s \in Seq(S) /\ Len(s) = n /\ t \in Seq(S) /\ Len(t) = m
  BY FunctionIsSequence
<1>2. /\ s \o t \in Seq(S) /\ Len(s \o t) = Len(s) + Len(t)
      /\ \A i \in DOMAIN s : (s \o t)[i] = s[i]
      /\ \A i \in DOMAIN t : (s \o t)[Len(s) + i] = t[i]
  BY <1>1
<1>3. DOMAIN s = 1 .. n /\ DOMAIN t = 1 .. m
  OBVIOUS
<1>4. DOMAIN (s \o t) = 1 .. Len(s \o t)
  BY <1>2
<1> QED BY <1>1, <1>2, <1>3, <1>4

(* The tuple of a key that is visited first is the one a look-up finds.    *)
LEMMA FirstVisited ==
  ASSUME TreeInv, Sentinel \notin Key, NEW lo \in Key, NEW hi \in Key,
         NEW x \in Found(lo, hi),
         \A y \in Found(lo, hi) : y[2] = x[2] => ~ListedBefore(y, x)
  PROVE  TableAt(x[1]).items[x[2]] = Lookup(x[2])
<1> DEFINE F == Found(lo, hi)
           p == x[1]
           k == x[2]
<1>1. /\ level0 \in Seq(Table) /\ deeper \in Seq(SUBSET Table)
      /\ \A l \in DOMAIN deeper : Disjoint(deeper[l])
  BY TreeShape
<1>2. /\ p \in Places /\ k \in Key /\ k \in Nat /\ lo <= k /\ k <= hi
      /\ k \in Keys(TableAt(p))
  BY <1>1, FoundFacts
<1>3. /\ p[1] \in Nat
      /\ \/ /\ p[1] = 0 /\ p[2] \in DOMAIN level0 /\ p[2] \in Nat
            /\ TableAt(p) = level0[p[2]]
         \/ /\ p[1] # 0 /\ p[1] \in DOMAIN deeper /\ p[2] \in deeper[p[1]]
            /\ TableAt(p) = p[2]
  BY <1>1, <1>2, PlaceFacts
<1>4. Lookup(k) = LookupIn(level0, deeper, k)
  BY DEF Lookup, LookupIn, Level0Hits, LevelHits, Hits, DeepHits
<1>5. ASSUME NEW q \in Places, k \in Keys(TableAt(q))
      PROVE  ~VisitedBefore(q, p)
  <2> DEFINE y == <<q, k>>
  <2>1. y \in F /\ y[1] = q /\ y[2] = k
    BY <1>2, <1>5 DEF Found
  <2>2. ~ListedBefore(y, x)
    BY <2>1
  <2> HIDE DEF y
  <2> QED BY <2>1, <2>2 DEF ListedBefore
<1>6. \A j \in DOMAIN level0 : <<0, j>> \in Places /\ TableAt(<<0, j>>) = level0[j]
  BY DEF Places, TableAt
<1>7. \A m \in DOMAIN deeper : \A u \in deeper[m] :
        <<m, u>> \in Places /\ TableAt(<<m, u>>) = u
  <2> TAKE m \in DOMAIN deeper
  <2> TAKE u \in deeper[m]
  <2>1. m # 0
    BY <1>1
  <2>2. <<m, u>> \in {<<m, t>> : t \in deeper[m]}
    OBVIOUS
  <2> QED BY <2>1, <2>2 DEF Places, TableAt
<1>8. ASSUME NEW j \in DOMAIN level0, k \in Keys(level0[j])
      PROVE  p[1] = 0 /\ j <= p[2]
  <2> DEFINE q == <<0, j>>
  <2>1. ~VisitedBefore(q, p) /\ q[1] = 0 /\ q[2] = j
    BY <1>5, <1>6, <1>8
  <2>2. j \in Nat
    BY <1>1
  <2> HIDE DEF q, p
  <2> QED BY <1>3, <2>1, <2>2 DEF VisitedBefore, BehindIt
<1>9. ASSUME NEW m \in DOMAIN deeper, NEW u \in deeper[m], k \in Keys(u)
      PROVE  ~(m < p[1])
  <2> DEFINE q == <<m, u>>
  <2>1. ~VisitedBefore(q, p) /\ q[1] = m
    BY <1>5, <1>7, <1>9
  <2> HIDE DEF q, p
  <2> QED BY <2>1 DEF VisitedBefore
<1>10. CASE p[1] = 0
  <2>1. /\ p[2] \in DOMAIN level0 /\ TableAt(p) = level0[p[2]]
        /\ k \in Keys(level0[p[2]])
    BY <1>1, <1>2, <1>3, <1>10
  <2>2. \A j \in DOMAIN level0 : k \in Keys(level0[j]) => j <= p[2]
    BY <1>8
  <2> HIDE DEF p, k
  <2>3. LookupIn(level0, deeper, k) = level0[p[2]].items[k]
    BY <1>1, <1>2, <2>1, <2>2, FromLevel0
  <2> QED BY <1>4, <2>1, <2>3 DEF p, k
<1>11. CASE p[1] # 0
  <2>1. /\ p[1] \in DOMAIN deeper /\ p[2] \in deeper[p[1]]
        /\ TableAt(p) = p[2] /\ k \in Keys(p[2])
    BY <1>2, <1>3, <1>11
  <2>2. \A j \in DOMAIN level0 : k \notin Keys(level0[j])
    BY <1>8, <1>11
  <2>3. \A m \in DOMAIN deeper : m < p[1] => \A u \in deeper[m] : k \notin Keys(u)
    BY <1>9
  <2> HIDE DEF p, k
  <2>4. LookupIn(level0, deeper, k) = p[2].items[k]
    BY <1>1, <1>2, <2>1, <2>2, <2>3, FromLevel
  <2> QED BY <1>4, <2>1, <2>4 DEF p, k
<1> QED BY <1>10, <1>11

(* What the halves of the list of a scan tell about a key.                 *)
LEMMA ScanTells ==
  ASSUME AnyClientInv, Sentinel \notin Key,
         NEW lo \in Key, NEW hi \in Key, NEW k \in Key, lo <= k, k <= hi
  PROVE  LET pairs  == Scan(lo, hi)
             border == Len(ScanTables(lo, hi))
             older  == {i \in 1 .. border : pairs[i][1] = k}
             newer  == {i \in border + 1 .. Len(pairs) : pairs[i][1] = k}
         IN  /\ \A i \in newer : pairs[i][2] # Empty => Get(k) = Told(pairs[i][2])
             /\ (\A i \in newer : pairs[i][2] = Empty) =>
                  Get(k) = IF older = {} THEN Empty ELSE pairs[Min(older)][2]
<1> DEFINE pairs  == Scan(lo, hi)
           border == Len(ScanTables(lo, hi))
           older  == {i \in 1 .. border : pairs[i][1] = k}
           newer  == {i \in border + 1 .. Len(pairs) : pairs[i][1] = k}
           s     == ScanTables(lo, hi)
           t     == ScanMemTable(lo, hi)
           F     == Found(lo, hi)
           R     == Listing(lo, hi)
           M     == InMemTable(lo, hi)
           n     == Cardinality(F)
           m     == Cardinality(M)
<1>1. /\ TreeInv /\ DOMAIN memtable \in SUBSET Key
      /\ level0 \in Seq(Table) /\ deeper \in Seq(SUBSET Table)
  BY TreeShape DEF AnyClientInv, KVTypeOK
<1>2. /\ n \in Nat /\ s = [i \in 1 .. n |-> s[i]]
      /\ \A i \in 1 .. n : \E x \in F : s[i] = PairOf(x) /\ Ahead(F, R, x) = i - 1
      /\ \A x \in F : Ahead(F, R, x) + 1 \in 1 .. n /\ s[Ahead(F, R, x) + 1] = PairOf(x)
  BY <1>1, ScanTablesFacts
<1>3. /\ m \in Nat /\ t = [i \in 1 .. m |-> t[i]]
      /\ \A i \in 1 .. m : \E j \in M : t[i] = <<j, memtable[j]>> /\ Rank(M, j) = i - 1
      /\ \A j \in M : Rank(M, j) + 1 \in 1 .. m /\ t[Rank(M, j) + 1] = <<j, memtable[j]>>
  BY <1>1, ScanMemTableFacts
<1>4. IsFiniteSet(F) /\ StrictOrder(F, R)
  BY <1>1, FoundFinite, ListingOrders
<1>5. pairs = s \o t
  BY DEF Scan
<1>6. M \in SUBSET Key
  BY <1>1 DEF InMemTable
<1>7. k \in DOMAIN memtable <=> k \in M
  BY DEF InMemTable
<1>8. \A x, y \in F : <<x, y>> \in R <=> ListedBefore(x, y)
  BY DEF Listing
<1>9. \A x \in F : PairOf(x)[1] = x[2] /\ PairOf(x)[2] = ReadItem(TableAt(x[1]).items[x[2]])
  BY DEF PairOf
<1> HIDE DEF s, t, n, m, M, R
<1>10. /\ DOMAIN pairs = 1 .. n + m /\ Len(pairs) = n + m
       /\ border = n
       /\ \A i \in 1 .. n : pairs[i] = s[i]
       /\ \A i \in 1 .. m : pairs[n + i] = t[i]
  <2>1. PICK S : s \in [1 .. n -> S] /\ t \in [1 .. m -> S]
    BY <1>2, <1>3, CommonRange
  <2>2. Len(s) = n
    BY <1>2, <2>1
  <2>3. border = n
    BY <2>2 DEF s
  <2> HIDE DEF pairs, border
  <2>4. /\ DOMAIN pairs = 1 .. n + m
        /\ \A i \in 1 .. n : pairs[i] = s[i]
        /\ \A i \in 1 .. m : pairs[n + i] = t[i]
    BY <1>2, <1>3, <1>5, <2>1, Concatenation
  <2>5. Len(pairs) = n + m
    <3>1. s \in Seq(S) /\ t \in Seq(S) /\ Len(t) = m
      BY <1>2, <1>3, <2>1, FunctionIsSequence
    <3> QED BY <1>5, <2>2, <3>1, Appending
  <2> QED BY <2>3, <2>4, <2>5
<1> HIDE DEF pairs, border
<1>11. older = {i \in 1 .. n : pairs[i][1] = k} /\ newer = {i \in n + 1 .. n + m : pairs[i][1] = k}
  BY <1>10
<1>12. \A i \in newer : k \in M /\ pairs[i] = <<k, memtable[k]>>
  <2> TAKE i \in newer
  <2>1. i - n \in 1 .. m /\ n + (i - n) = i /\ pairs[i][1] = k
    BY <1>2, <1>3, <1>11
  <2>2. pairs[i] = t[i - n]
    BY <1>10, <2>1
  <2>3. PICK j \in M : t[i - n] = <<j, memtable[j]>>
    BY <1>3, <2>1
  <2> QED BY <2>1, <2>2, <2>3
<1>13. k \in DOMAIN memtable => \E i \in newer : pairs[i] = <<k, memtable[k]>>
  <2>1. SUFFICES ASSUME k \in DOMAIN memtable
                 PROVE  \E i \in newer : pairs[i] = <<k, memtable[k]>>
    OBVIOUS
  <2> DEFINE r == Rank(M, k) + 1
  <2>2. r \in 1 .. m /\ t[r] = <<k, memtable[k]>>
    BY <1>3, <1>7, <2>1
  <2> HIDE DEF r
  <2>3. n + r \in n + 1 .. n + m /\ pairs[n + r] = <<k, memtable[k]>>
    BY <1>2, <1>3, <1>10, <2>2
  <2> QED BY <1>11, <2>3
<1>14. ASSUME NEW i \in newer, pairs[i][2] # Empty
       PROVE  Get(k) = Told(pairs[i][2])
  <2>1. k \in DOMAIN memtable /\ pairs[i][2] = memtable[k]
    BY <1>7, <1>12
  <2> QED BY <1>14, <2>1 DEF Get, MemGet, Told
<1>15. ASSUME \A i \in newer : pairs[i][2] = Empty
       PROVE  Get(k) = IF older = {} THEN Empty ELSE pairs[Min(older)][2]
  <2>1. MemGet(k) = Empty
    BY <1>13, <1>15 DEF MemGet
  <2>2. Get(k) = ReadItem(Lookup(k))
    BY <2>1, StringAssumption DEF Get
  <2>3. ASSUME NEW x \in F, x[2] = k
        PROVE  Ahead(F, R, x) + 1 \in older
    <3> DEFINE r == Ahead(F, R, x) + 1
    <3>1. r \in 1 .. n /\ s[r] = PairOf(x)
      BY <1>2
    <3> HIDE DEF r
    <3>2. pairs[r] = PairOf(x)
      BY <1>10, <3>1
    <3> QED BY <1>9, <1>11, <2>3, <3>1, <3>2 DEF r
  <2>4. older = {} => Get(k) = Empty
    <3>1. SUFFICES ASSUME older = {} PROVE Get(k) = Empty
      OBVIOUS
    <3>2. \A p \in Places : k \notin Keys(TableAt(p))
      <4>1. SUFFICES ASSUME NEW p \in Places, k \in Keys(TableAt(p)) PROVE FALSE
        OBVIOUS
      <4>2. <<p, k>> \in F
        BY <4>1 DEF Found
      <4> QED BY <2>3, <3>1, <4>2
    <3>3. \A i \in DOMAIN level0 : k \notin Keys(level0[i])
      <4> TAKE i \in DOMAIN level0
      <4>1. <<0, i>> \in Places /\ TableAt(<<0, i>>) = level0[i]
        BY DEF Places, TableAt
      <4> QED BY <3>2, <4>1
    <3>4. \A l \in DOMAIN deeper : \A u \in deeper[l] : k \notin Keys(u)
      <4> TAKE l \in DOMAIN deeper
      <4> TAKE u \in deeper[l]
      <4>1. l # 0
        BY <1>1
      <4>2. <<l, u>> \in {<<l, v>> : v \in deeper[l]}
        OBVIOUS
      <4>3. <<l, u>> \in Places /\ TableAt(<<l, u>>) = u
        BY <4>1, <4>2 DEF Places, TableAt
      <4> QED BY <3>2, <4>3
    <3>5. LookupIn(level0, deeper, k) = NotFound
      BY <1>1, <3>3, <3>4, FromNowhere
    <3>6. Lookup(k) = NotFound
      BY <3>5 DEF Lookup, LookupIn, Level0Hits, LevelHits, Hits, DeepHits
    <3> QED BY <2>2, <3>6 DEF NotFound, ReadItem
  <2>5. ASSUME older # {}
        PROVE  pairs[Min(older)][2] = Get(k)
    <3> DEFINE i == Min(older)
    <3>0. older \in SUBSET Nat
      BY <1>11
    <3>1. i \in older /\ \A j \in older : i <= j
      <4> HIDE DEF older
      <4> QED BY <2>5, <3>0, MinOfSet
    <3> HIDE DEF i
    <3>2. i \in 1 .. n /\ pairs[i] = s[i] /\ pairs[i][1] = k
      BY <1>10, <1>11, <3>1
    <3>3. PICK x \in F : s[i] = PairOf(x) /\ Ahead(F, R, x) = i - 1
      BY <1>2, <3>2
    <3>4. x[2] = k
      BY <1>9, <3>2, <3>3
    <3>5. \A y \in F : y[2] = x[2] => ~ListedBefore(y, x)
      <4>1. SUFFICES ASSUME NEW y \in F, y[2] = x[2], ListedBefore(y, x) PROVE FALSE
        OBVIOUS
      <4>2. <<y, x>> \in R
        BY <1>8, <4>1
      <4> HIDE DEF F
      <4>3. Ahead(F, R, y) < Ahead(F, R, x)
        BY <1>4, <4>2, AheadMonotone
      <4>4. Ahead(F, R, y) + 1 \in older
        BY <2>3, <3>4, <4>1
      <4>5. i <= Ahead(F, R, y) + 1
        BY <3>1, <4>4
      <4>6. Ahead(F, R, y) \in Int /\ i \in Int
        BY <1>4, <3>2, AheadType
      <4> QED BY <3>3, <4>3, <4>5, <4>6
    <3>6. TableAt(x[1]).items[x[2]] = Lookup(x[2])
      BY <1>1, <3>5, FirstVisited
    <3>7. pairs[i][2] = ReadItem(Lookup(k))
      BY <1>9, <3>2, <3>3, <3>4, <3>6
    <3> QED BY <2>2, <3>7 DEF i
  <2> HIDE DEF older
  <2> QED BY <2>4, <2>5
<1> QED BY <1>14, <1>15 DEF pairs, border

(* In every reachable state, and whatever clients did before, what get     *)
(* answers for a key is in the list of every scan over it: the MemTable's  *)
(* half tells it, or the first pair of the key in the tables' half.        *)
THEOREM ScansHoldAnswers ==
  ASSUME KeysFitInt, Sentinel \notin Key
  PROVE  KVSpec => []ScanHalvesHoldAnswers
<1>1. AnyClientInv => ScanHalvesHoldAnswers
  BY ScanTells DEF ScanHalvesHoldAnswers
<1> QED BY <1>1, AnyClientInvariant, PTL
=============================================================================
