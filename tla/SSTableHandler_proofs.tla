------------------------ MODULE SSTableHandler_proofs ------------------------
(***************************************************************************)
(* Theorems about SSTableHandler, for every set of keys that fit an int,   *)
(* every limit of the levels and every number of tables: type correctness, *)
(* the disjointness of the levels and the order of ages, with and without  *)
(* failing mkdir.                                                          *)
(***************************************************************************)
EXTENDS SSTableHandler, SSTable_proofs

----------------------------------------------------------------------------
(* Levels.                                                                 *)

LEMMA WithLevelFacts ==
  ASSUME deeper \in Seq(SUBSET Table), NEW l \in Nat \ {0}, l <= Len(deeper) + 1
  PROVE  /\ WithLevel(l) \in Seq(SUBSET Table)
         /\ DOMAIN WithLevel(l) = DOMAIN deeper \cup {l}
         /\ WithLevel(l)[l] = IF l \in DOMAIN deeper THEN deeper[l] ELSE {}
         /\ \A m \in DOMAIN deeper : WithLevel(l)[m] = deeper[m]
         /\ Len(WithLevel(l)) = IF l \in DOMAIN deeper THEN Len(deeper) ELSE l
<1>1. DOMAIN deeper = 1 .. Len(deeper) /\ Len(deeper) \in Nat
  OBVIOUS
<1>2. CASE l <= Len(deeper)
  BY <1>1, <1>2 DEF WithLevel
<1>3. CASE l = Len(deeper) + 1
  BY <1>1, <1>3 DEF WithLevel
<1> QED BY <1>1, <1>2, <1>3

(* The facts about one level that the invariant gives, for a level that    *)
(* may be missing.                                                         *)
LEMMA LevelFacts ==
  ASSUME TreeInv, NEW l \in Nat \ {0}, l <= Len(deeper) + 1
  PROVE  /\ WithLevel(l)[l] \in SUBSET Table
         /\ IsFiniteSet(WithLevel(l)[l])
         /\ Disjoint(WithLevel(l)[l])
         /\ \A t \in WithLevel(l)[l] : t.time < timeId
         /\ \A i \in DOMAIN level0 : \A t \in WithLevel(l)[l] : t.time < level0[i].time
<1>1. deeper \in Seq(SUBSET Table)
  BY DEF TreeInv, TreeTypeOK
<1>2. CASE l \in DOMAIN deeper
  <2>1. WithLevel(l)[l] = deeper[l]
    BY <1>1, <1>2, WithLevelFacts
  <2>2. deeper[l] \in SUBSET Table
    BY <1>1, <1>2
  <2> QED BY <1>2, <2>1, <2>2 DEF TreeInv, LevelsFinite, LevelsDisjoint, Disjoint, AgeOrder
<1>3. CASE l \notin DOMAIN deeper
  <2>1. WithLevel(l)[l] = {}
    BY <1>1, <1>3, WithLevelFacts
  <2> QED BY <2>1, FS_EmptySet DEF Disjoint
<1> QED BY <1>2, <1>3

LEMMA Level0Facts ==
  ASSUME TreeInv
  PROVE  /\ Level0Tables \in SUBSET Table
         /\ job = 0 => Level0Tables # {}
         /\ \A t \in Level0Tables : t.time < timeId
         /\ \A t, u \in Level0Tables : t # u => t.time # u.time
         /\ timeId \in Nat
<1>1. level0 \in Seq(Table) /\ timeId \in Nat
  BY DEF TreeInv, TreeTypeOK
<1>2. Level0Tables = {level0[i] : i \in DOMAIN level0}
  BY DEF Level0Tables, Range
<1>3. job = 0 => Level0Tables # {}
  BY <1>1, <1>2 DEF TreeInv, JobHasTables
<1>4. \A t \in Level0Tables : t \in Table /\ t.time < timeId
  BY <1>1, <1>2 DEF TreeInv, AgeOrder
<1>5. ASSUME NEW i \in DOMAIN level0, NEW j \in DOMAIN level0, level0[i] # level0[j]
      PROVE  level0[i].time # level0[j].time
  <2>1. i \in Nat /\ j \in Nat /\ i # j
    BY <1>1, <1>5
  <2>2. level0[i].time \in Nat /\ level0[j].time \in Nat
    BY <1>1, TableKeys
  <2>3. CASE i < j
    BY <2>2, <2>3 DEF TreeInv, AgeOrder
  <2>4. CASE j < i
    BY <2>2, <2>4 DEF TreeInv, AgeOrder
  <2> QED BY <2>1, <2>3, <2>4
<1> QED BY <1>1, <1>2, <1>3, <1>4, <1>5

----------------------------------------------------------------------------
(* The outcome of the two compactions.                                     *)

LEMMA Level0Result ==
  ASSUME KeysFitInt, TreeInv, job = 0
  PROVE  LET met   == Met(Level0Tables, 1)
             all   == met \cup Level0Tables
             D     == MergedKeys(all)
             items == MergeItems(all)
             time  == YoungestTime(all)
             made  == Made(items, 1, time)
             next  == (WithLevel(1)[1] \ met) \cup made
         IN  /\ next \in SUBSET Table /\ IsFiniteSet(next) /\ Disjoint(next)
             /\ time \in Nat /\ time < timeId
             /\ \A t \in all : t.time <= time
             /\ \A m \in made : m.time = time
             /\ \A m \in made : \A k \in Keys(m) : k \in D /\ m.items[k] = items[k]
             /\ \A k \in D : \/ Len(deeper) < 1 /\ ~items[k].live
                             \/ \E m \in made : k \in Keys(m)
             /\ \A t \in WithLevel(1)[1] \ met : \A k \in Keys(t) : k \notin D
             /\ \A k \in D : \E t \in all :
                  /\ k \in Keys(t) /\ items[k] = t.items[k]
                  /\ \A u \in all : k \in Keys(u) => u.time <= t.time
<1> DEFINE L     == WithLevel(1)[1]
           met   == Met(Level0Tables, 1)
           all   == met \cup Level0Tables
           D     == MergedKeys(all)
           items == MergeItems(all)
           time  == YoungestTime(all)
           made  == Made(items, 1, time)
           last  == Len(deeper) < 1
<1>1. deeper \in Seq(SUBSET Table) /\ Len(deeper) \in Nat
  BY DEF TreeInv, TreeTypeOK
<1>2. /\ L \in SUBSET Table /\ IsFiniteSet(L) /\ Disjoint(L)
      /\ \A t \in L : t.time < timeId
      /\ \A i \in DOMAIN level0 : \A t \in L : t.time < level0[i].time
  BY <1>1, LevelFacts
<1>3. /\ Level0Tables \in SUBSET Table /\ Level0Tables # {}
      /\ \A t \in Level0Tables : t.time < timeId
      /\ \A t, u \in Level0Tables : t # u => t.time # u.time
      /\ timeId \in Nat
  BY Level0Facts
<1>4. met = Meeting(L, Level0Tables) /\ met \in SUBSET L
  BY DEF Met, Meeting
<1>5. all \in SUBSET Table /\ all # {} /\ \A t \in all : t.time < timeId /\ t.time \in Nat
  BY <1>2, <1>3, <1>4, TableKeys
<1>6. \A t \in L, u \in Level0Tables : t.time < u.time
  BY <1>2 DEF Level0Tables, Range
<1>7. Ranked(all)
  <2> SUFFICES ASSUME NEW t \in all, NEW u \in all, NEW k \in Keys(t), k \in Keys(u), t # u
               PROVE  t.time # u.time
    BY DEF Ranked
  <2>1. t.time \in Nat /\ u.time \in Nat
    BY <1>5
  <2>2. CASE t \in Level0Tables /\ u \in Level0Tables
    BY <2>2, <1>3
  <2>3. CASE t \in met /\ u \in Level0Tables
    BY <2>1, <2>3, <1>4, <1>6
  <2>4. CASE t \in Level0Tables /\ u \in met
    BY <2>1, <2>4, <1>4, <1>6
  <2>5. CASE t \in met /\ u \in met
    BY <2>5, <1>2, <1>4, DisjointHolder
  <2> QED BY <2>2, <2>3, <2>4, <2>5
<1>8. \A t \in all : t.time <= timeId
  BY <1>3, <1>5
<1>9. /\ D \in SUBSET Key
      /\ items \in [D -> Item]
      /\ \A k \in D : \E t \in all :
           /\ k \in Keys(t) /\ items[k] = t.items[k]
           /\ \A u \in all : k \in Keys(u) => u.time <= t.time
  <2> HIDE DEF all
  <2> QED BY <1>3, <1>5, <1>7, <1>8, MergedItems
<1>10. /\ time \in Nat /\ time < timeId
       /\ \A t \in all : t.time <= time
  <2>1. /\ \E t \in all : time = t.time
        /\ \A t \in all : t.time <= time
        /\ time \in Nat
    <3> HIDE DEF all
    <3> QED BY <1>3, <1>5, <1>8, YoungestTimeOfSet
  <2> QED BY <2>1, <1>5
<1>11. made = BuildTables(DropDead(items, last), time)
  BY DEF Made
<1>12. last \in BOOLEAN
  OBVIOUS
<1> HIDE DEF L, met, all, items, time, last
<1>13. items \in [MergedKeys(Meeting(L, Level0Tables) \cup Level0Tables) -> Item]
  BY <1>4, <1>9 DEF all
<1>14. CompactionOutcome(L, Level0Tables, items, last, time)
  BY <1>2, <1>3, <1>10, <1>12, <1>13, CompactionResult
<1>15. /\ (L \ met) \cup made \in SUBSET Table
       /\ IsFiniteSet((L \ met) \cup made)
       /\ Disjoint((L \ met) \cup made)
       /\ \A m \in made : m.time = time
       /\ \A m \in made : \A k \in Keys(m) : k \in D /\ m.items[k] = items[k]
       /\ \A k \in D : (last /\ ~items[k].live) \/ \E m \in made : k \in Keys(m)
       /\ \A t \in L \ met : \A k \in Keys(t) : k \notin D
  <2> HIDE DEF made
  <2> QED BY <1>4, <1>11, <1>14 DEF CompactionOutcome, all
<1> QED BY <1>9, <1>10, <1>15 DEF L, met, all, items, time, last

(* What compact(l) takes from level l.                                     *)
LEMMA ExcessFacts ==
  ASSUME TreeInv, NEW l \in 1 .. MaxLevel, job = l
  PROVE  /\ l \in DOMAIN deeper
         /\ Excess(l) \in SUBSET deeper[l]
         /\ Excess(l) # {}
         /\ \A t \in Excess(l), u \in deeper[l] \ Excess(l) : t.time <= u.time
         /\ deeper[l] \in SUBSET Table /\ IsFiniteSet(deeper[l]) /\ Disjoint(deeper[l])
<1> DEFINE S == deeper[l]
           n == Cardinality(S) - LevelMax[l]
<1>1. l \in DOMAIN deeper /\ Cardinality(S) > LevelMax[l] /\ LevelMax[l] \in Nat
  BY LevelAssumption DEF TreeInv, JobHasTables
<1>2. S \in SUBSET Table /\ IsFiniteSet(S) /\ Disjoint(S)
  BY <1>1 DEF TreeInv, TreeTypeOK, LevelsFinite, LevelsDisjoint, Disjoint
<1>3. Cardinality(S) \in Nat
  BY <1>2, FS_CardinalityType
<1>4. n \in Int /\ n > 0 /\ S # {}
  <2>1. Cardinality(S) # 0
    BY <1>1, <1>3
  <2>2. S # {}
    BY <2>1, FS_EmptySet
  <2> HIDE DEF S
  <2> QED BY <1>1, <1>3, <2>2
<1>5. Excess(l) = Oldest(S, n)
  BY DEF Excess
<1> HIDE DEF S, n
<1>6. Oldest(S, n) \in SUBSET S
  BY DEF Oldest
<1>7. Oldest(S, n) # {}
  BY <1>2, <1>4, OldestNonEmpty
<1>8. \A t \in Oldest(S, n), u \in S \ Oldest(S, n) : t.time <= u.time
  BY <1>2, <1>4, OldestFirstMoved
<1> QED BY <1>1, <1>2, <1>5, <1>6, <1>7, <1>8 DEF S

LEMMA LevelResult ==
  ASSUME KeysFitInt, TreeInv, NEW l \in 1 .. MaxLevel, job = l
  PROVE  LET moved == Excess(l)
             met   == Met(moved, l + 1)
             items == Overlay(MergeItems(moved), MergeItems(met))
             time  == YoungestTime(moved)
             D     == MergedKeys(met \cup moved)
             made  == Made(items, l + 1, time)
             next  == (WithLevel(l + 1)[l + 1] \ met) \cup made
         IN  /\ next \in SUBSET Table /\ IsFiniteSet(next) /\ Disjoint(next)
             /\ time \in Nat
             /\ \E t \in moved : time = t.time
             /\ \A m \in made : m.time = time
             /\ \A m \in made : \A k \in Keys(m) : k \in D /\ m.items[k] = items[k]
             /\ \A k \in D : \/ Len(deeper) < l + 1 /\ ~items[k].live
                             \/ \E m \in made : k \in Keys(m)
             /\ \A t \in WithLevel(l + 1)[l + 1] \ met : \A k \in Keys(t) : k \notin D
             /\ \A t \in moved : \A k \in Keys(t) : items[k] = t.items[k]
             /\ \A t \in met : \A k \in Keys(t) :
                  (\A u \in moved : k \notin Keys(u)) => items[k] = t.items[k]
<1> DEFINE L     == WithLevel(l + 1)[l + 1]
           moved == Excess(l)
           met   == Met(moved, l + 1)
           items == Overlay(MergeItems(moved), MergeItems(met))
           time  == YoungestTime(moved)
           D     == MergedKeys(met \cup moved)
           made  == Made(items, l + 1, time)
           last  == Len(deeper) < l + 1
<1>1. /\ deeper \in Seq(SUBSET Table) /\ Len(deeper) \in Nat /\ timeId \in Nat
      /\ DOMAIN deeper = 1 .. Len(deeper)
  BY DEF TreeInv, TreeTypeOK
<1>2. /\ l \in DOMAIN deeper
      /\ moved \in SUBSET deeper[l] /\ moved # {}
      /\ deeper[l] \in SUBSET Table /\ Disjoint(deeper[l])
  BY ExcessFacts
<1>3. /\ L \in SUBSET Table /\ IsFiniteSet(L) /\ Disjoint(L)
      /\ \A t \in L : t.time < timeId
  <2>1. l + 1 \in Nat \ {0} /\ l + 1 <= Len(deeper) + 1
    BY <1>1, <1>2
  <2> QED BY <2>1, LevelFacts
<1>4. met = Meeting(L, moved) /\ met \in SUBSET L
  BY DEF Met, Meeting
<1>5. moved \in SUBSET Table /\ \A t \in moved : t.time <= timeId
  <2>1. \A t \in moved : t.time < timeId /\ t.time \in Nat
    BY <1>2, TableKeys DEF TreeInv, AgeOrder
  <2> QED BY <1>1, <1>2, <2>1
<1>6. met \in SUBSET Table /\ \A t \in met : t.time <= timeId
  <2>1. \A t \in met : t.time < timeId /\ t.time \in Nat
    BY <1>3, <1>4, TableKeys
  <2> QED BY <1>1, <1>3, <1>4, <2>1
<1>7. Ranked(moved)
  <2> HIDE DEF moved
  <2> QED BY <1>2, DisjointHolder DEF Ranked
<1>8. Ranked(met)
  <2> HIDE DEF met, L
  <2> QED BY <1>3, <1>4, DisjointHolder DEF Ranked
<1> HIDE DEF L, moved, met
<1>9. /\ MergeItems(moved) \in [MergedKeys(moved) -> Item]
      /\ \A t \in moved : \A k \in Keys(t) : MergeItems(moved)[k] = t.items[k]
  <2>1. /\ MergeItems(moved) \in [MergedKeys(moved) -> Item]
        /\ \A k \in MergedKeys(moved) : \E t \in moved :
             k \in Keys(t) /\ MergeItems(moved)[k] = t.items[k]
    BY <1>1, <1>5, <1>7, MergedItems
  <2>2. ASSUME NEW t \in moved, NEW k \in Keys(t)
        PROVE  MergeItems(moved)[k] = t.items[k]
    <3>1. k \in MergedKeys(moved)
      BY DEF MergedKeys
    <3>2. PICK u \in moved : k \in Keys(u) /\ MergeItems(moved)[k] = u.items[k]
      BY <2>1, <3>1
    <3>3. u = t
      BY <1>2, <3>2, DisjointHolder
    <3> QED BY <3>2, <3>3
  <2> QED BY <2>1, <2>2
<1>10. /\ MergeItems(met) \in [MergedKeys(met) -> Item]
       /\ \A t \in met : \A k \in Keys(t) : MergeItems(met)[k] = t.items[k]
  <2>1. /\ MergeItems(met) \in [MergedKeys(met) -> Item]
        /\ \A k \in MergedKeys(met) : \E t \in met :
             k \in Keys(t) /\ MergeItems(met)[k] = t.items[k]
    BY <1>1, <1>6, <1>8, MergedItems
  <2>2. ASSUME NEW t \in met, NEW k \in Keys(t)
        PROVE  MergeItems(met)[k] = t.items[k]
    <3>1. k \in MergedKeys(met)
      BY DEF MergedKeys
    <3>2. PICK u \in met : k \in Keys(u) /\ MergeItems(met)[k] = u.items[k]
      BY <2>1, <3>1
    <3>3. u = t
      BY <1>3, <1>4, <3>2, DisjointHolder
    <3> QED BY <3>2, <3>3
  <2> QED BY <2>1, <2>2
<1>11. /\ items \in [MergedKeys(met \cup moved) -> Item]
       /\ \A t \in moved : \A k \in Keys(t) : items[k] = t.items[k]
       /\ \A t \in met : \A k \in Keys(t) :
            (\A u \in moved : k \notin Keys(u)) => items[k] = t.items[k]
  <2>1. MergedKeys(met \cup moved) = MergedKeys(moved) \cup MergedKeys(met)
    BY DEF MergedKeys
  <2>2. /\ items \in [MergedKeys(moved) \cup MergedKeys(met) -> Item]
        /\ \A k \in MergedKeys(moved) : items[k] = MergeItems(moved)[k]
        /\ \A k \in MergedKeys(met) \ MergedKeys(moved) : items[k] = MergeItems(met)[k]
    <3> DEFINE f == MergeItems(moved)
               g == MergeItems(met)
               A == MergedKeys(moved)
               B == MergedKeys(met)
    <3>1. f \in [A -> Item] /\ g \in [B -> Item] /\ items = Overlay(f, g)
      BY <1>9, <1>10
    <3> HIDE DEF f, g, A, B, items
    <3>2. /\ items \in [A \cup B -> Item]
          /\ \A k \in A : items[k] = f[k]
          /\ \A k \in B \ A : items[k] = g[k]
      BY <3>1, OverlaidItems
    <3> QED BY <3>2 DEF f, g, A, B
  <2> HIDE DEF items
  <2>3. \A t \in moved : \A k \in Keys(t) : k \in MergedKeys(moved)
    BY DEF MergedKeys
  <2>4. \A t \in met : \A k \in Keys(t) :
          (\A u \in moved : k \notin Keys(u)) => k \in MergedKeys(met) \ MergedKeys(moved)
    BY DEF MergedKeys
  <2> QED BY <1>9, <1>10, <2>1, <2>2, <2>3, <2>4
<1>12. /\ \E t \in moved : time = t.time
       /\ time \in Nat
  BY <1>1, <1>2, <1>5, YoungestTimeOfSet
<1>13. made = BuildTables(DropDead(items, last), time) /\ last \in BOOLEAN
  BY DEF Made
<1> HIDE DEF items, time, last
<1>14. CompactionOutcome(L, moved, items, last, time)
  <2>1. items \in [MergedKeys(Meeting(L, moved) \cup moved) -> Item]
    BY <1>4, <1>11
  <2> QED BY <1>2, <1>3, <1>5, <1>12, <1>13, <2>1, CompactionResult
<1>15. /\ (L \ met) \cup made \in SUBSET Table
       /\ IsFiniteSet((L \ met) \cup made)
       /\ Disjoint((L \ met) \cup made)
       /\ \A m \in made : m.time = time
       /\ \A m \in made : \A k \in Keys(m) : k \in D /\ m.items[k] = items[k]
       /\ \A k \in D : (last /\ ~items[k].live) \/ \E m \in made : k \in Keys(m)
       /\ \A t \in L \ met : \A k \in Keys(t) : k \notin D
  <2> HIDE DEF made
  <2> QED BY <1>4, <1>13, <1>14 DEF CompactionOutcome
<1> QED BY <1>11, <1>12, <1>15 DEF L, moved, met, items, time, last

(* The level a compaction announces next is too long.                      *)
LEMMA CascadeFacts ==
  ASSUME NEW l \in 1 .. MaxLevel, NEW n \in Nat
  PROVE  /\ Cascade(l, n) \in {Idle, l}
         /\ Cascade(l, n) = l => n > LevelMax[l]
<1>1. l # Idle
  BY DEF Idle
<1> QED BY <1>1 DEF Cascade

----------------------------------------------------------------------------
(* Every action preserves TreeInv.                                         *)

LEMMA InitTreeInv == TreeInit => TreeInv
<1> SUFFICES ASSUME TreeInit
             PROVE  TreeInv
  OBVIOUS
<1>1. Len(<<>>) = 0 /\ DOMAIN <<>> = {}
  OBVIOUS
<1>2. TreeTypeOK
  BY DEF TreeInit, TreeTypeOK
<1>3. JobHasTables
  BY DEF TreeInit, JobHasTables, Idle
<1> QED BY <1>1, <1>2, <1>3
        DEF TreeInit, TreeInv, LevelsFinite, DirsMatch, LevelsDisjoint, AgeOrder

LEMMA ResetPreserves == TreeInv /\ ResetTree => TreeInv'
<1> SUFFICES ASSUME TreeInv, ResetTree
             PROVE  TreeInv'
  OBVIOUS
<1>1. Len(<<>>) = 0 /\ DOMAIN <<>> = {}
  OBVIOUS
<1>2. TreeTypeOK'
  BY DEF ResetTree, TreeInv, TreeTypeOK
<1>3. JobHasTables'
  BY DEF ResetTree, JobHasTables, Idle
<1> QED BY <1>1, <1>2, <1>3
        DEF ResetTree, TreeInv, LevelsFinite, DirsMatch, LevelsDisjoint, AgeOrder

LEMMA AddTablePreserves ==
  ASSUME TreeInv, NEW items \in MemtableRuns, AddTable(items)
  PROVE  TreeInv'
<1> DEFINE t == [time |-> timeId, items |-> items]
<1>1. /\ level0 \in Seq(Table) /\ Len(level0) \in Nat /\ DOMAIN level0 = 1 .. Len(level0)
      /\ deeper \in Seq(SUBSET Table) /\ timeId \in Nat
      /\ dirs \subseteq 1 .. MaxLevel
  BY DEF TreeInv, TreeTypeOK
<1>2. items \in Runs
  BY DEF MemtableRuns, MemtableKeys, Runs
<1>3. t \in Table
  BY <1>1, <1>2 DEF Table
<1>4. /\ level0' = Append(level0, t) /\ timeId' = timeId + 1
      /\ deeper' = deeper /\ dirs' = dirs
      /\ job' = IF Len(level0') > Level0Max THEN 0 ELSE Idle
  BY DEF AddTable
<1> HIDE DEF t
<1>5. /\ level0' \in Seq(Table)
      /\ DOMAIN level0' = 1 .. Len(level0) + 1
      /\ \A i \in DOMAIN level0 : level0'[i] = level0[i]
      /\ level0'[Len(level0) + 1] = t
  BY <1>1, <1>3, <1>4
<1>6. TreeTypeOK'
  BY <1>1, <1>4, <1>5, LevelAssumption DEF TreeTypeOK, Idle
<1>7. JobHasTables'
  BY <1>4, <1>5, <1>1 DEF JobHasTables, Idle
<1>8. LevelsFinite' /\ DirsMatch' /\ LevelsDisjoint'
  BY <1>4 DEF TreeInv, LevelsFinite, DirsMatch, LevelsDisjoint
<1>9. AgeOrder'
  <2>1. \A i \in DOMAIN level0 : level0[i].time < timeId /\ level0[i].time \in Nat
    BY <1>1, TableKeys DEF TreeInv, AgeOrder
  <2>2. \A l \in DOMAIN deeper : \A u \in deeper[l] : u.time < timeId /\ u.time \in Nat
    BY <1>1, TableKeys DEF TreeInv, AgeOrder
  <2>3. t.time = timeId
    BY DEF t
  <2>4. \A i, j \in DOMAIN level0' : i < j => level0'[i].time < level0'[j].time
    <3> SUFFICES ASSUME NEW i \in 1 .. Len(level0) + 1, NEW j \in 1 .. Len(level0) + 1, i < j
                 PROVE  level0'[i].time < level0'[j].time
      BY <1>5
    <3>1. i \in DOMAIN level0
      BY <1>1
    <3>2. CASE j \in DOMAIN level0
      BY <1>5, <3>1, <3>2 DEF TreeInv, AgeOrder
    <3>3. CASE j = Len(level0) + 1
      BY <1>5, <2>1, <2>3, <3>1, <3>3
    <3> QED BY <1>1, <3>2, <3>3
  <2>5. \A i \in DOMAIN level0', l \in DOMAIN deeper' : \A u \in deeper'[l] :
          u.time < level0'[i].time
    <3> SUFFICES ASSUME NEW i \in 1 .. Len(level0) + 1, NEW l \in DOMAIN deeper,
                        NEW u \in deeper[l]
                 PROVE  u.time < level0'[i].time
      BY <1>4, <1>5
    <3>1. CASE i \in DOMAIN level0
      BY <1>5, <3>1 DEF TreeInv, AgeOrder
    <3>2. CASE i = Len(level0) + 1
      BY <1>5, <2>2, <2>3, <3>2
    <3> QED BY <1>1, <3>1, <3>2
  <2>6. \A l, m \in DOMAIN deeper' : l < m =>
          \A v \in deeper'[l], u \in deeper'[m] : u.time <= v.time
    BY <1>4 DEF TreeInv, AgeOrder
  <2>7. \A i \in DOMAIN level0' : level0'[i].time < timeId'
    <3> SUFFICES ASSUME NEW i \in 1 .. Len(level0) + 1
                 PROVE  level0'[i].time < timeId + 1
      BY <1>4, <1>5
    <3>1. CASE i \in DOMAIN level0
      BY <1>1, <1>5, <2>1, <3>1
    <3>2. CASE i = Len(level0) + 1
      BY <1>1, <1>5, <2>3, <3>2
    <3> QED BY <1>1, <3>1, <3>2
  <2>8. \A l \in DOMAIN deeper' : \A u \in deeper'[l] : u.time < timeId'
    BY <1>1, <1>4, <2>2
  <2> QED BY <2>4, <2>5, <2>6, <2>7, <2>8 DEF AgeOrder
<1> QED BY <1>6, <1>7, <1>8, <1>9 DEF TreeInv

(* What the parts of the invariant need of a step that rewrites level l    *)
(* below level 0 to `next` and may remove tables elsewhere.                *)
LEMMA RewrittenLevel ==
  ASSUME TreeInv, NEW l \in 1 .. MaxLevel,
         NEW next \in SUBSET Table, IsFiniteSet(next), Disjoint(next),
         DOMAIN deeper' = DOMAIN deeper \cup {l},
         deeper' \in Seq(SUBSET Table),
         deeper'[l] = next,
         \A m \in DOMAIN deeper \ {l} : deeper'[m] \subseteq deeper[m],
         job' = Cascade(l, Cardinality(next)),
         dirs' = dirs \cup {l},
         timeId' = timeId, level0' \in Seq(Table)
  PROVE  TreeTypeOK' /\ JobHasTables' /\ LevelsFinite' /\ DirsMatch' /\ LevelsDisjoint'
<1>1. /\ deeper \in Seq(SUBSET Table) /\ timeId \in Nat /\ dirs \subseteq 1 .. MaxLevel
  BY DEF TreeInv, TreeTypeOK
<1>2. Cardinality(next) \in Nat
  BY FS_CardinalityType
<1>3. job' \in {Idle, l} /\ (job' = l => Cardinality(next) > LevelMax[l])
  BY <1>2, CascadeFacts
<1>4. TreeTypeOK'
  BY <1>1, <1>3 DEF TreeTypeOK
<1>5. JobHasTables'
  BY <1>3 DEF JobHasTables, Idle
<1>6. LevelsFinite'
  <2> SUFFICES ASSUME NEW m \in DOMAIN deeper \cup {l}
               PROVE  IsFiniteSet(deeper'[m])
    BY DEF LevelsFinite
  <2>1. CASE m = l
    BY <2>1
  <2>2. CASE m # l
    <3>1. IsFiniteSet(deeper[m]) /\ deeper'[m] \in SUBSET deeper[m]
      BY <2>2 DEF TreeInv, LevelsFinite
    <3> QED BY <3>1, FS_Subset
  <2> QED BY <2>1, <2>2
<1>7. DirsMatch'
  <2>1. dirs' \subseteq DOMAIN deeper'
    BY DEF TreeInv, DirsMatch
  <2>2. \A m \in DOMAIN deeper' : m \notin dirs' => deeper'[m] = {}
    BY DEF TreeInv, DirsMatch
  <2> QED BY <2>1, <2>2 DEF DirsMatch
<1>8. LevelsDisjoint'
  <2> SUFFICES ASSUME NEW m \in DOMAIN deeper \cup {l},
                      NEW t \in deeper'[m], NEW u \in deeper'[m], t # u
               PROVE  LargestKey(t) < SmallestKey(u) \/ LargestKey(u) < SmallestKey(t)
    BY DEF LevelsDisjoint
  <2>1. CASE m = l
    BY <2>1 DEF Disjoint
  <2>2. CASE m # l
    <3>1. t \in deeper[m] /\ u \in deeper[m] /\ m \in DOMAIN deeper
      BY <2>2
    <3> QED BY <3>1 DEF TreeInv, LevelsDisjoint
  <2> QED BY <2>1, <2>2
<1> QED BY <1>4, <1>5, <1>6, <1>7, <1>8

LEMMA CompactLevel0Preserves ==
  ASSUME KeysFitInt, TreeInv, CompactLevel0
  PROVE  TreeInv'
<1> DEFINE L    == WithLevel(1)[1]
           met  == Met(Level0Tables, 1)
           all  == met \cup Level0Tables
           time == YoungestTime(all)
           made == Made(MergeItems(all), 1, time)
           next == (L \ met) \cup made
<1>1. /\ deeper \in Seq(SUBSET Table) /\ Len(deeper) \in Nat
      /\ DOMAIN deeper = 1 .. Len(deeper)
      /\ level0 \in Seq(Table) /\ timeId \in Nat
  BY DEF TreeInv, TreeTypeOK
<1>2. /\ job = 0
      /\ level0' = <<>>
      /\ deeper' = [WithLevel(1) EXCEPT ![1] = next]
      /\ job' = Cascade(1, Cardinality(next))
      /\ dirs' = dirs \cup {1}
      /\ timeId' = timeId
  BY DEF CompactLevel0
<1>3. /\ next \in SUBSET Table /\ IsFiniteSet(next) /\ Disjoint(next)
      /\ time \in Nat /\ time < timeId
      /\ \A t \in Level0Tables : t.time <= time
      /\ \A m \in made : m.time = time
  BY <1>2, Level0Result
<1>4. /\ WithLevel(1) \in Seq(SUBSET Table)
      /\ DOMAIN WithLevel(1) = DOMAIN deeper \cup {1}
      /\ \A m \in DOMAIN deeper : WithLevel(1)[m] = deeper[m]
      /\ L = IF 1 \in DOMAIN deeper THEN deeper[1] ELSE {}
      /\ \A t \in L : t.time < timeId
  <2>1. 1 \in Nat \ {0} /\ 1 <= Len(deeper) + 1
    BY <1>1
  <2>2. /\ WithLevel(1) \in Seq(SUBSET Table)
        /\ DOMAIN WithLevel(1) = DOMAIN deeper \cup {1}
        /\ L = IF 1 \in DOMAIN deeper THEN deeper[1] ELSE {}
        /\ \A m \in DOMAIN deeper : WithLevel(1)[m] = deeper[m]
    BY <1>1, <2>1, WithLevelFacts
  <2>3. \A t \in L : t.time < timeId
    BY <2>1, LevelFacts
  <2> QED BY <2>2, <2>3
<1>5. PICK i0 \in DOMAIN level0 : level0[i0].time <= time
  <2>1. Level0Tables # {}
    BY <1>2, Level0Facts
  <2> QED BY <1>3, <2>1 DEF Level0Tables, Range
<1>6. \A m \in DOMAIN deeper : \A u \in deeper[m] :
        u.time <= time /\ u.time < timeId /\ u.time \in Nat
  <2> SUFFICES ASSUME NEW m \in DOMAIN deeper, NEW u \in deeper[m]
               PROVE  u.time <= time /\ u.time < timeId /\ u.time \in Nat
    OBVIOUS
  <2>1. u.time \in Nat /\ level0[i0].time \in Nat
    BY <1>1, TableKeys
  <2>2. u.time < level0[i0].time /\ u.time < timeId
    BY DEF TreeInv, AgeOrder
  <2> HIDE DEF time
  <2> QED BY <1>3, <1>5, <2>1, <2>2
<1>7. \A t \in next : t.time < timeId
  <2> HIDE DEF L, made, met, time
  <2> QED BY <1>3, <1>4
<1>8. \A t \in next \ made : 1 \in DOMAIN deeper /\ t \in deeper[1]
  <2> HIDE DEF L, made, met
  <2> QED BY <1>4
<1> HIDE DEF next
<1>9. /\ deeper' \in Seq(SUBSET Table)
      /\ DOMAIN deeper' = DOMAIN deeper \cup {1}
      /\ deeper'[1] = next
      /\ \A m \in DOMAIN deeper \ {1} : deeper'[m] = deeper[m]
  BY <1>1, <1>2, <1>3, <1>4
<1>10. Len(<<>>) = 0 /\ DOMAIN <<>> = {} /\ level0' \in Seq(Table)
  BY <1>2
<1>11. 1 \in 1 .. MaxLevel
  BY LevelAssumption
<1>12. TreeTypeOK' /\ JobHasTables' /\ LevelsFinite' /\ DirsMatch' /\ LevelsDisjoint'
  BY <1>2, <1>3, <1>9, <1>10, <1>11, RewrittenLevel
<1>13. AgeOrder'
  <2>1. \A l \in DOMAIN deeper' : \A t \in deeper'[l] : t.time < timeId'
    BY <1>2, <1>6, <1>7, <1>9
  <2>2. \A l, m \in DOMAIN deeper' : l < m =>
          \A t \in deeper'[l], u \in deeper'[m] : u.time <= t.time
    <3> SUFFICES ASSUME NEW l \in DOMAIN deeper', NEW m \in DOMAIN deeper', l < m,
                        NEW t \in deeper'[l], NEW u \in deeper'[m]
                 PROVE  u.time <= t.time
      OBVIOUS
    <3>1. m \in DOMAIN deeper /\ u \in deeper[m]
      BY <1>1, <1>9
    <3>2. CASE l # 1
      BY <1>9, <3>1, <3>2 DEF TreeInv, AgeOrder
    <3>3. CASE l = 1 /\ t \notin made
      BY <1>8, <1>9, <3>1, <3>3 DEF TreeInv, AgeOrder
    <3>4. CASE t \in made
      <4> HIDE DEF made, time
      <4> QED BY <1>3, <1>6, <3>1, <3>4
    <3> QED BY <1>9, <3>2, <3>3, <3>4
  <2> QED BY <1>2, <1>10, <2>1, <2>2 DEF AgeOrder
<1> QED BY <1>12, <1>13 DEF TreeInv

LEMMA CompactPreserves ==
  ASSUME KeysFitInt, TreeInv, NEW l \in 1 .. MaxLevel, Compact(l)
  PROVE  TreeInv'
<1> DEFINE n     == l + 1
           L     == WithLevel(n)[n]
           moved == Excess(l)
           met   == Met(moved, n)
           items == Overlay(MergeItems(moved), MergeItems(met))
           time  == YoungestTime(moved)
           made  == Made(items, n, time)
           next  == (L \ met) \cup made
<1>1. /\ deeper \in Seq(SUBSET Table) /\ Len(deeper) \in Nat
      /\ DOMAIN deeper = 1 .. Len(deeper)
      /\ level0 \in Seq(Table) /\ timeId \in Nat
  BY DEF TreeInv, TreeTypeOK
<1>2. /\ job = l
      /\ l < MaxLevel
      /\ deeper' = [WithLevel(n) EXCEPT ![l] = @ \ moved, ![n] = next]
      /\ job' = Cascade(n, Cardinality(next))
      /\ dirs' = dirs \cup {n}
      /\ level0' = level0 /\ timeId' = timeId
  BY DEF Compact
<1>3. /\ next \in SUBSET Table /\ IsFiniteSet(next) /\ Disjoint(next)
      /\ time \in Nat
      /\ \E t \in moved : time = t.time
      /\ \A m \in made : m.time = time
  BY <1>2, LevelResult
<1>4. /\ l \in DOMAIN deeper
      /\ moved \in SUBSET deeper[l]
      /\ \A t \in moved, u \in deeper[l] \ moved : t.time <= u.time
      /\ deeper[l] \in SUBSET Table
  BY <1>2, ExcessFacts
<1>5. n \in 1 .. MaxLevel /\ n \in Nat \ {0} /\ n <= Len(deeper) + 1 /\ n # l
  <2>1. l \in Nat /\ MaxLevel \in Nat /\ l <= Len(deeper)
    BY <1>1, <1>4, LevelAssumption
  <2>2. l + 1 \in 1 .. MaxLevel
    BY <1>2, <2>1
  <2> QED BY <1>1, <2>1, <2>2
<1>6. /\ WithLevel(n) \in Seq(SUBSET Table)
      /\ DOMAIN WithLevel(n) = DOMAIN deeper \cup {n}
      /\ \A m \in DOMAIN deeper : WithLevel(n)[m] = deeper[m]
      /\ L = IF n \in DOMAIN deeper THEN deeper[n] ELSE {}
  BY <1>1, <1>5, WithLevelFacts
<1>7. \A t \in next \ made : n \in DOMAIN deeper /\ t \in deeper[n]
  <2> HIDE DEF L, made, met
  <2> QED BY <1>6
<1>8. PICK t0 \in deeper[l] :
        /\ time = t0.time
        /\ \A u \in deeper[l] \ moved : time <= u.time
  BY <1>3, <1>4
<1> HIDE DEF next, moved, n
<1>9. /\ deeper' \in Seq(SUBSET Table)
      /\ DOMAIN deeper' = DOMAIN deeper \cup {n}
      /\ deeper'[n] = next
      /\ deeper'[l] = deeper[l] \ moved
      /\ \A m \in DOMAIN deeper \ {n, l} : deeper'[m] = deeper[m]
  <2> DEFINE W == WithLevel(n)
             X == [W EXCEPT ![l] = @ \ moved]
  <2>1. W \in Seq(SUBSET Table) /\ l \in DOMAIN W /\ n \in DOMAIN W /\ W[l] = deeper[l]
    BY <1>4, <1>6
  <2> HIDE DEF W
  <2>2. X \in Seq(SUBSET Table) /\ DOMAIN X = DOMAIN W
    <3>1. deeper[l] \ moved \in SUBSET Table
      BY <1>4
    <3> QED BY <2>1, <3>1
  <2>3. deeper' = [X EXCEPT ![n] = next]
    BY <1>2 DEF W
  <2>4. X[l] = deeper[l] \ moved /\ \A m \in DOMAIN W \ {l} : X[m] = W[m]
    BY <2>1
  <2> HIDE DEF X
  <2>5. deeper' \in Seq(SUBSET Table) /\ DOMAIN deeper' = DOMAIN W
    BY <1>3, <2>1, <2>2, <2>3
  <2>6. /\ deeper'[n] = next /\ deeper'[l] = deeper[l] \ moved
        /\ \A m \in DOMAIN W \ {n, l} : deeper'[m] = W[m]
    BY <1>5, <2>1, <2>2, <2>3, <2>4
  <2> QED BY <1>6, <2>5, <2>6 DEF W
<1>10. \A m \in DOMAIN deeper \ {n} : deeper'[m] \subseteq deeper[m]
  BY <1>9
<1>11. TreeTypeOK' /\ JobHasTables' /\ LevelsFinite' /\ DirsMatch' /\ LevelsDisjoint'
  BY <1>1, <1>2, <1>3, <1>5, <1>9, <1>10, RewrittenLevel
<1>12. \A m \in DOMAIN deeper' : \A t \in deeper'[m] :
         \/ m \in DOMAIN deeper /\ t \in deeper[m]
         \/ m = n /\ t.time = time
  BY <1>3, <1>7, <1>9, <1>10
<1> HIDE DEF time, made
<1>13. AgeOrder'
  <2>1. /\ t0.time < timeId
        /\ \A i \in DOMAIN level0 : t0.time < level0[i].time
    BY <1>4 DEF TreeInv, AgeOrder
  <2>2. \A m \in DOMAIN deeper' : \A t \in deeper'[m] : t.time < timeId'
    BY <1>2, <1>8, <1>12, <2>1 DEF TreeInv, AgeOrder
  <2>3. \A i \in DOMAIN level0', m \in DOMAIN deeper' : \A t \in deeper'[m] :
          t.time < level0'[i].time
    BY <1>2, <1>8, <1>12, <2>1 DEF TreeInv, AgeOrder
  <2>4. \A j, m \in DOMAIN deeper' : j < m =>
          \A t \in deeper'[j], u \in deeper'[m] : u.time <= t.time
    <3> SUFFICES ASSUME NEW j \in DOMAIN deeper', NEW m \in DOMAIN deeper', j < m,
                        NEW t \in deeper'[j], NEW u \in deeper'[m]
                 PROVE  u.time <= t.time
      OBVIOUS
    <3>1. j \in Nat /\ m \in Nat /\ l \in Nat /\ n = l + 1
      BY <1>1, <1>5, <1>9 DEF n
    <3>2. CASE t \in deeper[j] /\ j \in DOMAIN deeper /\ u \in deeper[m] /\ m \in DOMAIN deeper
      BY <3>2 DEF TreeInv, AgeOrder
    <3>3. CASE /\ t \in deeper[j] /\ j \in DOMAIN deeper
               /\ m = n /\ u.time = time
      <4>1. CASE j < l
        BY <1>4, <1>8, <3>3, <4>1 DEF TreeInv, AgeOrder
      <4>2. CASE j = l
        BY <1>8, <1>9, <3>3, <4>2
      <4> QED BY <3>1, <3>3, <4>1, <4>2
    <3>4. CASE j = n /\ t.time = time
      <4>1. l < m /\ m # n
        BY <3>1, <3>4
      <4>2. m \in DOMAIN deeper /\ u \in deeper[m]
        BY <1>12, <4>1
      <4> QED BY <1>4, <1>8, <3>4, <4>1, <4>2 DEF TreeInv, AgeOrder
    <3> QED BY <1>12, <3>1, <3>2, <3>3, <3>4
  <2>5. /\ \A i, j \in DOMAIN level0' : i < j => level0'[i].time < level0'[j].time
        /\ \A i \in DOMAIN level0' : level0'[i].time < timeId'
    BY <1>2 DEF TreeInv, AgeOrder
  <2> QED BY <2>2, <2>3, <2>4, <2>5 DEF AgeOrder
<1> QED BY <1>11, <1>13 DEF TreeInv

(* A failed mkdir loses no table: the target level was empty.              *)
LEMMA MkdirFailsLeaves ==
  ASSUME TreeInv, NEW l \in 0 .. MaxLevel, MkdirFails(l)
  PROVE  /\ l \in Nat
         /\ deeper' \in Seq(SUBSET Table)
         /\ DOMAIN deeper' = DOMAIN deeper \cup {l + 1}
         /\ \A m \in DOMAIN deeper : deeper'[m] = deeper[m]
         /\ deeper'[l + 1] = {}
         /\ job' = Idle
<1> DEFINE n     == l + 1
           moved == IF l = 0 THEN Level0Tables ELSE Excess(l)
           next  == WithLevel(n)[n] \ Met(moved, n)
<1>1. /\ deeper \in Seq(SUBSET Table) /\ Len(deeper) \in Nat
      /\ DOMAIN deeper = 1 .. Len(deeper)
      /\ level0 \in Seq(Table) /\ timeId \in Nat /\ dirs \subseteq 1 .. MaxLevel
  BY DEF TreeInv, TreeTypeOK
<1>2. /\ job = l /\ l < MaxLevel /\ n \notin dirs
      /\ deeper' = [WithLevel(n) EXCEPT ![n] = next]
      /\ job' = IF l = 0 THEN Cascade(1, Cardinality(next)) ELSE Idle
      /\ level0' = level0 /\ timeId' = timeId /\ dirs' = dirs
  BY DEF MkdirFails
<1>3. l \in Nat /\ MaxLevel \in Nat /\ l <= Len(deeper)
  <2>1. CASE l = 0
    BY <1>1, <2>1, LevelAssumption
  <2>2. CASE l # 0
    <3>1. l \in 1 .. MaxLevel
      BY <2>2
    <3>2. l \in DOMAIN deeper
      BY <1>2, <3>1 DEF TreeInv, JobHasTables
    <3> QED BY <1>1, <3>2, LevelAssumption
  <2> QED BY <2>1, <2>2
<1>4. n \in Nat \ {0} /\ n <= Len(deeper) + 1
  BY <1>1, <1>3
<1>5. /\ WithLevel(n) \in Seq(SUBSET Table)
      /\ DOMAIN WithLevel(n) = DOMAIN deeper \cup {n}
      /\ WithLevel(n)[n] = IF n \in DOMAIN deeper THEN deeper[n] ELSE {}
      /\ \A m \in DOMAIN deeper : WithLevel(n)[m] = deeper[m]
  BY <1>1, <1>4, WithLevelFacts
<1>6. WithLevel(n)[n] = {}
  BY <1>2, <1>5 DEF TreeInv, DirsMatch
<1>7. next = {}
  BY <1>6
<1> HIDE DEF next, n
<1>8. /\ deeper' \in Seq(SUBSET Table)
      /\ DOMAIN deeper' = DOMAIN deeper \cup {n}
      /\ \A m \in DOMAIN deeper : deeper'[m] = deeper[m]
      /\ deeper'[n] = {}
  BY <1>2, <1>5, <1>6, <1>7
<1>9. job' = Idle
  <2>1. Cardinality({}) = 0
    BY FS_EmptySet
  <2>2. LevelMax[1] \in Nat
    BY LevelAssumption
  <2> QED BY <1>2, <1>7, <2>1, <2>2 DEF Cascade
<1> QED BY <1>3, <1>8, <1>9 DEF n

LEMMA MkdirFailsPreserves ==
  ASSUME TreeInv, NEW l \in 0 .. MaxLevel, MkdirFails(l)
  PROVE  TreeInv'
<1> DEFINE n == l + 1
<1>1. level0 \in Seq(Table) /\ timeId \in Nat /\ dirs \subseteq 1 .. MaxLevel
  BY DEF TreeInv, TreeTypeOK
<1>2. n \notin dirs /\ level0' = level0 /\ timeId' = timeId /\ dirs' = dirs
  BY DEF MkdirFails
<1>3. /\ deeper' \in Seq(SUBSET Table)
      /\ DOMAIN deeper' = DOMAIN deeper \cup {n}
      /\ \A m \in DOMAIN deeper : deeper'[m] = deeper[m]
      /\ deeper'[n] = {}
  BY MkdirFailsLeaves
<1>4. job' = Idle
  BY MkdirFailsLeaves
<1> HIDE DEF n
<1>5. TreeTypeOK'
  BY <1>1, <1>2, <1>3, <1>4 DEF TreeTypeOK
<1>6. JobHasTables'
  BY <1>4 DEF JobHasTables, Idle
<1>7. LevelsFinite'
  BY <1>3, FS_EmptySet DEF TreeInv, LevelsFinite
<1>8. DirsMatch'
  BY <1>2, <1>3 DEF TreeInv, DirsMatch
<1>9. LevelsDisjoint'
  BY <1>3 DEF TreeInv, LevelsDisjoint
<1>10. AgeOrder'
  <2>1. \A m \in DOMAIN deeper' : \A t \in deeper'[m] : m \in DOMAIN deeper /\ t \in deeper[m]
    BY <1>3
  <2> QED BY <1>2, <2>1 DEF TreeInv, AgeOrder
<1> QED BY <1>5, <1>6, <1>7, <1>8, <1>9, <1>10 DEF TreeInv

LEMMA StutterPreserves == TreeInv /\ UNCHANGED treeVars => TreeInv'
<1> SUFFICES ASSUME TreeInv, UNCHANGED treeVars
             PROVE  TreeInv'
  OBVIOUS
<1>1. TreeTypeOK' /\ JobHasTables' /\ LevelsFinite' /\ DirsMatch'
  BY DEF treeVars, TreeInv, TreeTypeOK, JobHasTables, LevelsFinite, DirsMatch
<1>2. LevelsDisjoint' /\ AgeOrder'
  BY DEF treeVars, TreeInv, LevelsDisjoint, AgeOrder
<1> QED BY <1>1, <1>2 DEF TreeInv

LEMMA StepPreserves ==
  ASSUME KeysFitInt, TreeInv, [FaultyNext]_treeVars
  PROVE  TreeInv'
<1>1. CASE ResetTree
  BY <1>1, ResetPreserves
<1>2. ASSUME NEW items \in MemtableRuns, AddTable(items)
      PROVE  TreeInv'
  BY <1>2, AddTablePreserves
<1>3. CASE CompactLevel0
  BY <1>3, CompactLevel0Preserves
<1>4. ASSUME NEW l \in 1 .. MaxLevel, Compact(l)
      PROVE  TreeInv'
  BY <1>4, CompactPreserves
<1>5. ASSUME NEW l \in 0 .. MaxLevel, MkdirFails(l)
      PROVE  TreeInv'
  BY <1>5, MkdirFailsPreserves
<1>6. CASE UNCHANGED treeVars
  BY <1>6, StutterPreserves
<1> QED BY <1>1, <1>2, <1>3, <1>4, <1>5, <1>6 DEF FaultyNext, TreeNext, CompactStep

(* Each finished step leaves at most one level too long, the one the call  *)
(* goes on with, unless a mkdir fails on the way.                          *)
LEMMA LimitsPreserved ==
  ASSUME KeysFitInt, TreeInv, OverlongLevelsLackDirectory, [FaultyNext]_treeVars
  PROVE  OverlongLevelsLackDirectory'
<1>1. /\ deeper \in Seq(SUBSET Table) /\ Len(deeper) \in Nat
      /\ DOMAIN deeper = 1 .. Len(deeper)
      /\ level0 \in Seq(Table)
      /\ Level0Max \in Nat \ {0} /\ MaxLevel \in Nat \ {0}
      /\ \A l \in 1 .. MaxLevel : LevelMax[l] \in Nat
  BY LevelAssumption DEF TreeInv, TreeTypeOK
<1>2. Len(<<>>) = 0 /\ DOMAIN <<>> = {}
  OBVIOUS
<1>3. CASE ResetTree
  BY <1>1, <1>2, <1>3 DEF ResetTree, OverlongLevelsLackDirectory, Unmakeable
<1>4. ASSUME NEW items \in MemtableRuns, AddTable(items)
      PROVE  OverlongLevelsLackDirectory'
  <2>1. /\ job = Idle /\ deeper' = deeper /\ dirs' = dirs
        /\ Len(level0') \in Nat
        /\ job' = IF Len(level0') > Level0Max THEN 0 ELSE Idle
    BY <1>1, <1>4 DEF AddTable
  <2>2. \A l \in DOMAIN deeper :
          l + 1 \notin Unmakeable => Cardinality(deeper[l]) <= LevelMax[l]
    BY <1>1, <2>1 DEF OverlongLevelsLackDirectory, Idle
  <2>3. Unmakeable' = Unmakeable
    BY <2>1 DEF Unmakeable
  <2> QED BY <1>1, <2>1, <2>2, <2>3 DEF OverlongLevelsLackDirectory
<1>5. CASE CompactLevel0
  <2> DEFINE all  == Met(Level0Tables, 1) \cup Level0Tables
             next == (WithLevel(1)[1] \ Met(Level0Tables, 1))
                       \cup Made(MergeItems(all), 1, YoungestTime(all))
  <2>1. /\ job = 0 /\ level0' = <<>>
        /\ deeper' = [WithLevel(1) EXCEPT ![1] = next]
        /\ job' = Cascade(1, Cardinality(next))
        /\ dirs' = dirs \cup {1}
    BY <1>5 DEF CompactLevel0
  <2>2. IsFiniteSet(next)
    BY <2>1, Level0Result
  <2> HIDE DEF next
  <2>3. Cardinality(next) \in Nat
    BY <2>2, FS_CardinalityType
  <2>4. /\ DOMAIN WithLevel(1) = DOMAIN deeper \cup {1}
        /\ \A m \in DOMAIN deeper : WithLevel(1)[m] = deeper[m]
    <3>1. 1 \in Nat \ {0} /\ 1 <= Len(deeper) + 1
      BY <1>1
    <3> QED BY <1>1, <3>1, WithLevelFacts
  <2>5. /\ DOMAIN deeper' = DOMAIN deeper \cup {1} /\ deeper'[1] = next
        /\ \A m \in DOMAIN deeper \ {1} : deeper'[m] = deeper[m]
    BY <2>1, <2>4
  <2>6. \A m \in DOMAIN deeper \ {1} :
          m + 1 \notin Unmakeable' => Cardinality(deeper'[m]) <= LevelMax[m]
    <3> SUFFICES ASSUME NEW m \in DOMAIN deeper \ {1}, m + 1 \notin Unmakeable'
                 PROVE  Cardinality(deeper'[m]) <= LevelMax[m]
      OBVIOUS
    <3>1. m + 1 # 1 /\ job # m
      BY <1>1, <2>1
    <3>2. m + 1 \notin Unmakeable
      BY <2>1, <2>5, <3>1 DEF Unmakeable
    <3> QED BY <2>5, <3>1, <3>2 DEF OverlongLevelsLackDirectory
  <2>7. job' # 1 => Cardinality(next) <= LevelMax[1]
    BY <1>1, <2>1, <2>3 DEF Cascade
  <2> QED BY <1>1, <1>2, <2>1, <2>5, <2>6, <2>7 DEF OverlongLevelsLackDirectory
<1>6. ASSUME NEW l \in 1 .. MaxLevel, Compact(l)
      PROVE  OverlongLevelsLackDirectory'
  <2> DEFINE n     == l + 1
             moved == Excess(l)
             met   == Met(moved, n)
             items == Overlay(MergeItems(moved), MergeItems(met))
             next  == (WithLevel(n)[n] \ met) \cup Made(items, n, YoungestTime(moved))
  <2>1. /\ job = l /\ l < MaxLevel /\ level0' = level0 /\ dirs' = dirs \cup {n}
        /\ deeper' = [WithLevel(n) EXCEPT ![l] = @ \ moved, ![n] = next]
        /\ job' = Cascade(n, Cardinality(next))
    BY <1>6 DEF Compact
  <2>2. IsFiniteSet(next)
    BY <2>1, LevelResult
  <2>3. l \in DOMAIN deeper /\ Cardinality(deeper[l] \ moved) <= LevelMax[l]
    <3> DEFINE S == deeper[l]
               b == LevelMax[l]
               x == Cardinality(S) - b
    <3>1. /\ l \in DOMAIN deeper /\ S \in SUBSET Table /\ IsFiniteSet(S) /\ Disjoint(S)
      BY <2>1, ExcessFacts
    <3>2. Cardinality(S) > b /\ b \in Nat /\ Cardinality(S) \in Nat
      BY <1>1, <2>1, <3>1, FS_CardinalityType DEF TreeInv, JobHasTables
    <3>3. moved = Oldest(S, x)
      BY DEF Excess
    <3> HIDE DEF S, b, moved
    <3>4. x \in Nat /\ Cardinality(S) = x + b
      BY <3>2
    <3> HIDE DEF x
    <3>5. Cardinality(S \ Oldest(S, x)) <= b
      BY <3>1, <3>2, <3>4, OldestLeaves
    <3> QED BY <3>1, <3>3, <3>5 DEF S, b
  <2>4. n \in Nat \ {0} /\ n <= Len(deeper) + 1 /\ n # l /\ n \in 1 .. MaxLevel
    BY <1>1, <2>1, <2>3
  <2>5. /\ DOMAIN WithLevel(n) = DOMAIN deeper \cup {n}
        /\ \A m \in DOMAIN deeper : WithLevel(n)[m] = deeper[m]
    BY <1>1, <2>4, WithLevelFacts
  <2> HIDE DEF next, n, moved
  <2>6. Cardinality(next) \in Nat
    BY <2>2, FS_CardinalityType
  <2>7. /\ DOMAIN deeper' = DOMAIN deeper \cup {n} /\ deeper'[n] = next
        /\ deeper'[l] = deeper[l] \ moved
        /\ \A m \in DOMAIN deeper \ {l, n} : deeper'[m] = deeper[m]
    BY <2>1, <2>3, <2>4, <2>5
  <2>12. \A m \in DOMAIN deeper' \ {l} : m + 1 \notin Unmakeable' => m + 1 \notin Unmakeable
    <3>1. \A m \in DOMAIN deeper' \ {l} : m + 1 # n
      BY <1>1, <2>4, <2>7 DEF n
    <3> QED BY <2>1, <2>7, <3>1 DEF Unmakeable
  <2>8. \A m \in DOMAIN deeper \ {l, n} :
          m + 1 \notin Unmakeable' => Cardinality(deeper'[m]) <= LevelMax[m]
    BY <2>1, <2>7, <2>12 DEF OverlongLevelsLackDirectory
  <2>9. job' # n => Cardinality(next) <= LevelMax[n]
    BY <1>1, <2>1, <2>4, <2>6 DEF Cascade
  <2>10. 1 \notin Unmakeable' => Len(level0') <= Level0Max
    <3>1. job # 0 /\ 1 # n
      BY <2>1, <2>4 DEF n
    <3>2. 1 \notin Unmakeable' => 1 \notin Unmakeable
      BY <2>1, <2>7, <3>1 DEF Unmakeable
    <3> QED BY <2>1, <3>1, <3>2 DEF OverlongLevelsLackDirectory
  <2>11. \A m \in DOMAIN deeper' :
           job' # m /\ m + 1 \notin Unmakeable' => Cardinality(deeper'[m]) <= LevelMax[m]
    BY <2>3, <2>7, <2>8, <2>9
  <2> QED BY <2>10, <2>11 DEF OverlongLevelsLackDirectory
<1>7. ASSUME NEW l \in 0 .. MaxLevel, MkdirFails(l)
      PROVE  OverlongLevelsLackDirectory'
  <2> DEFINE n == l + 1
  <2>1. /\ job = l /\ level0' = level0 /\ dirs' = dirs /\ n \notin dirs /\ l < MaxLevel
    BY <1>7 DEF MkdirFails
  <2>2. /\ DOMAIN deeper' = DOMAIN deeper \cup {n}
        /\ \A m \in DOMAIN deeper : deeper'[m] = deeper[m]
        /\ deeper'[n] = {}
        /\ l \in Nat
    BY <1>7, MkdirFailsLeaves
  <2>3. n \in Unmakeable' /\ Unmakeable \subseteq Unmakeable'
    BY <2>1, <2>2 DEF Unmakeable
  <2>4. 1 \notin Unmakeable' => Len(level0') <= Level0Max
    <3>1. CASE l = 0
      BY <2>3, <3>1
    <3>2. CASE l # 0
      BY <2>1, <2>3, <3>2 DEF OverlongLevelsLackDirectory
    <3> QED BY <3>1, <3>2
  <2>5. ASSUME NEW m \in DOMAIN deeper', m + 1 \notin Unmakeable'
        PROVE  Cardinality(deeper'[m]) <= LevelMax[m]
    <3>1. CASE m = n
      <4>1. Cardinality({}) = 0
        BY FS_EmptySet
      <4>2. m \in 1 .. MaxLevel
        <5>1. MaxLevel \in Nat /\ l \in Nat /\ l < MaxLevel
          BY <2>1, <2>2, LevelAssumption
        <5>2. l + 1 \in 1 .. MaxLevel
          BY <5>1
        <5> QED BY <3>1, <5>2
      <4>3. deeper'[m] = {}
        BY <2>2, <3>1
      <4>4. LevelMax[m] \in Nat
        BY <1>1, <4>2
      <4> QED BY <4>1, <4>3, <4>4
    <3>2. CASE m # n
      <4>1. m \in DOMAIN deeper /\ m # l /\ m + 1 \notin Unmakeable
        BY <1>1, <2>2, <2>3, <2>5, <3>2
      <4> QED BY <2>1, <2>2, <4>1 DEF OverlongLevelsLackDirectory
    <3> QED BY <3>1, <3>2
  <2> QED BY <2>4, <2>5 DEF OverlongLevelsLackDirectory
<1>8. CASE UNCHANGED treeVars
  BY <1>8 DEF treeVars, OverlongLevelsLackDirectory, Unmakeable
<1> QED BY <1>3, <1>4, <1>5, <1>6, <1>7, <1>8 DEF FaultyNext, TreeNext, CompactStep

(* Without failures every level of the tree has its directory.             *)
LEMMA LevelsHaveDirectories ==
  ASSUME KeysFitInt, TreeInv, DOMAIN deeper \subseteq dirs, [TreeNext]_treeVars
  PROVE  (DOMAIN deeper \subseteq dirs)'
<1>1. DOMAIN <<>> = {}
  OBVIOUS
<1>2. /\ deeper \in Seq(SUBSET Table) /\ Len(deeper) \in Nat
      /\ DOMAIN deeper = 1 .. Len(deeper)
  BY DEF TreeInv, TreeTypeOK
<1>3. CASE ResetTree
  BY <1>1, <1>3 DEF ResetTree
<1>4. ASSUME NEW items \in MemtableRuns, AddTable(items)
      PROVE  (DOMAIN deeper \subseteq dirs)'
  BY <1>4 DEF AddTable
<1>5. CASE CompactLevel0
  <2>1. DOMAIN deeper' = DOMAIN WithLevel(1) /\ dirs' = dirs \cup {1}
    BY <1>5 DEF CompactLevel0
  <2>2. 1 \in Nat \ {0} /\ 1 <= Len(deeper) + 1
    BY <1>2
  <2> QED BY <1>2, <2>1, <2>2, WithLevelFacts
<1>6. ASSUME NEW l \in 1 .. MaxLevel, Compact(l)
      PROVE  (DOMAIN deeper \subseteq dirs)'
  <2>1. DOMAIN deeper' = DOMAIN WithLevel(l + 1) /\ dirs' = dirs \cup {l + 1} /\ job = l
    BY <1>6 DEF Compact
  <2>2. l + 1 \in Nat \ {0} /\ l + 1 <= Len(deeper) + 1
    BY <1>2, <2>1 DEF TreeInv, JobHasTables
  <2> QED BY <1>2, <2>1, <2>2, WithLevelFacts
<1>7. CASE UNCHANGED treeVars
  BY <1>7 DEF treeVars
<1> QED BY <1>3, <1>4, <1>5, <1>6, <1>7 DEF TreeNext, CompactStep

----------------------------------------------------------------------------
(* The theorems.                                                           *)

(* Whatever the limits of the levels, the number of flushes and the order  *)
(* of flushes, compactions, failing mkdir and resets, the tree keeps its   *)
(* types, disjoint levels and order of ages, as long as every key is below *)
(* 2^31, the range in which the `int` of the compactions keeps it.         *)
THEOREM FaultyTreeInvariant ==
  ASSUME KeysFitInt
  PROVE  FaultySpec => []TreeInv
<1>1. TreeInit => TreeInv
  BY InitTreeInv
<1>2. TreeInv /\ [FaultyNext]_treeVars => TreeInv'
  BY StepPreserves
<1> QED BY <1>1, <1>2, PTL DEF FaultySpec

LEMMA InitLimits == TreeInit => OverlongLevelsLackDirectory
<1>1. Len(<<>>) = 0 /\ DOMAIN <<>> = {}
  OBVIOUS
<1> QED BY <1>1, LevelAssumption DEF TreeInit, OverlongLevelsLackDirectory

(* A call leaves a level over its limit only when it could not make the    *)
(* directory of the next one: the recursion of compact stops nowhere else, *)
(* and a level left too long by a failure gets no longer life than that.   *)
THEOREM LimitsSurviveFailures ==
  ASSUME KeysFitInt
  PROVE  FaultySpec => []OverlongLevelsLackDirectory
<1> DEFINE Inv == TreeInv /\ OverlongLevelsLackDirectory
<1>1. TreeInit => Inv
  BY InitTreeInv, InitLimits
<1>2. Inv /\ [FaultyNext]_treeVars => Inv'
  BY StepPreserves, LimitsPreserved
<1> QED BY <1>1, <1>2, PTL DEF FaultySpec

(* Without failing mkdir the limits of the levels hold besides.            *)
LEMMA TreeInvariant ==
  ASSUME KeysFitInt
  PROVE  TreeSpec => [](TreeInv /\ LevelsWithinLimits)
<1> DEFINE Inv == TreeInv /\ OverlongLevelsLackDirectory /\ DOMAIN deeper \subseteq dirs
<1>1. TreeInit => Inv
  <2>1. DOMAIN <<>> = {}
    OBVIOUS
  <2> QED BY <2>1, InitTreeInv, InitLimits DEF TreeInit
<1>2. Inv /\ [TreeNext]_treeVars => Inv'
  BY StepPreserves, LimitsPreserved, LevelsHaveDirectories DEF FaultyNext
<1>3. Inv => TreeInv /\ LevelsWithinLimits
  BY DEF OverlongLevelsLackDirectory, LevelsWithinLimits, Unmakeable
<1> QED BY <1>1, <1>2, <1>3, PTL DEF TreeSpec

(* The promises the runs check, each for every key set within int and      *)
(* whatever the limits of the levels and the number of flushes are.        *)

(* No operation of SSTableHandler makes a table without items, a level     *)
(* without tables or a timestamp that was not given out.                   *)
THEOREM TreeTypeCorrect ==
  ASSUME KeysFitInt
  PROVE  TreeSpec => []TreeTypeOK
<1>1. TreeInv => TreeTypeOK
  BY DEF TreeInv
<1> QED BY <1>1, TreeInvariant, PTL

(* Two tables of a level below level 0 never share a part of the key       *)
(* range, which SSTableHandler::get relies on to look into one of them.    *)
THEOREM LevelsStayDisjoint ==
  ASSUME KeysFitInt
  PROVE  TreeSpec => []LevelsDisjoint
<1>1. TreeInv => LevelsDisjoint
  BY DEF TreeInv
<1> QED BY <1>1, TreeInvariant, PTL

(* Data only sinks: what a look-up meets first for a key is the newest     *)
(* there is, whatever compact and compactLevel0 have moved.                *)
THEOREM DataOnlySinks ==
  ASSUME KeysFitInt
  PROVE  TreeSpec => []AgeOrder
<1>1. TreeInv => AgeOrder
  BY DEF TreeInv
<1> QED BY <1>1, TreeInvariant, PTL

(* No finished call leaves a level over its limit.                         *)
THEOREM LevelsKeepTheirLimits ==
  ASSUME KeysFitInt
  PROVE  TreeSpec => []LevelsWithinLimits
BY TreeInvariant, PTL

LEMMA MeetingIsIntersecting ==
  ASSUME KeysFitInt, NEW moved \in SUBSET Table, NEW l
  PROVE  Met(moved, l) = Intersecting(moved, l)
<1>1. \A t \in moved : AsInt(SmallestKey(t)) = SmallestKey(t)
                       /\ AsInt(LargestKey(t)) = LargestKey(t)
  BY TableKeys, KeysAreNat DEF AsInt, KeysFitInt
<1>2. /\ {AsInt(SmallestKey(t)) : t \in moved} = {SmallestKey(u) : u \in moved}
      /\ {AsInt(LargestKey(t)) : t \in moved} = {LargestKey(u) : u \in moved}
  BY <1>1
<1>3. /\ HullLow(moved) = Min({SmallestKey(u) : u \in moved})
      /\ HullHigh(moved) = Max({LargestKey(u) : u \in moved})
  BY <1>2 DEF HullLow, HullHigh
<1> QED BY <1>3 DEF Met, Meeting, Overlaps, Intersecting

(* Within int, a compaction takes from the next level exactly the tables   *)
(* that intersect the key interval of the tables it moves, as the comments *)
(* of compactLevel0 and compact say: the narrowing of keys to int is all   *)
(* that is wrong with that search.                                         *)
THEOREM CompactionsTakeIntersecting ==
  ASSUME KeysFitInt
  PROVE  TreeSpec => []CompactionTakesIntersecting
<1>1. TreeInv => CompactionTakesIntersecting
  <2> SUFFICES ASSUME TreeInv PROVE CompactionTakesIntersecting
    OBVIOUS
  <2>1. Level0Tables \in SUBSET Table
    BY Level0Facts
  <2>2. ASSUME NEW l \in 1 .. MaxLevel - 1, job = l
        PROVE  Excess(l) \in SUBSET Table
    <3>1. l \in 1 .. MaxLevel
      BY LevelAssumption
    <3>2. l \in DOMAIN deeper /\ deeper \in Seq(SUBSET Table)
      BY <2>2, <3>1 DEF TreeInv, JobHasTables, TreeTypeOK
    <3>3. deeper[l] \in SUBSET Table
      BY <3>2
    <3> QED BY <3>3 DEF Excess, Oldest
  <2> QED BY <2>1, <2>2, MeetingIsIntersecting DEF CompactionTakesIntersecting
<1> QED BY <1>1, TreeInvariant, PTL
=============================================================================
