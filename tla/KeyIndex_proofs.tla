--------------------------- MODULE KeyIndex_proofs ---------------------------
(***************************************************************************)
(* The tree of tables implements KeyIndex: no compaction, finished or cut  *)
(* short by a failing mkdir, changes what a look-up answers.               *)
(***************************************************************************)
EXTENDS SSTableHandler_proofs

(* Lookup and Visible with the levels as arguments, so that the facts      *)
(* about them can be used before and after a step.                         *)
Hits(L, k) == {i \in DOMAIN L : Stops(L[i], k)}

DeepHits(D, k) == {l \in DOMAIN D : \E t \in D[l] : Stops(t, k)}

LookupIn(L, D, k) ==
  IF Hits(L, k) # {} THEN ItemOf(L[Max(Hits(L, k))], k)
  ELSE IF DeepHits(D, k) # {}
       THEN ItemOf(Youngest({t \in D[Min(DeepHits(D, k))] : Stops(t, k)}), k)
       ELSE NotFound

Display(item) == IF item.live THEN item ELSE NotFound

LEMMA LookupArguments ==
  ASSUME NEW k
  PROVE  /\ Visible(k) = Display(LookupIn(level0, deeper, k))
         /\ Visible(k)' = Display(LookupIn(level0', deeper', k))
<1>1. Lookup(k) = LookupIn(level0, deeper, k)
  BY DEF Lookup, LookupIn, Level0Hits, LevelHits, Hits, DeepHits
<1>2. Lookup(k)' = LookupIn(level0', deeper', k)
  BY DEF Lookup, LookupIn, Level0Hits, LevelHits, Hits, DeepHits
<1> QED BY <1>1, <1>2 DEF Visible, Display

----------------------------------------------------------------------------
(* Which table answers.                                                    *)

(* The youngest table of level 0 that has the key.                         *)
LEMMA FromLevel0 ==
  ASSUME Sentinel \notin Key, NEW k \in Key,
         NEW L \in Seq(Table), NEW D,
         NEW i \in DOMAIN L, k \in Keys(L[i]),
         \A j \in DOMAIN L : k \in Keys(L[j]) => j <= i
  PROVE  LookupIn(L, D, k) = L[i].items[k]
<1> DEFINE H == Hits(L, k)
<1>1. H = {j \in DOMAIN L : k \in Keys(L[j])}
  BY StopsIffHolds DEF Hits
<1>2. i \in H /\ H \in SUBSET Nat /\ i \in Nat /\ \A j \in H : j <= i
  BY <1>1
<1> HIDE DEF H
<1>3. Max(H) \in H /\ Max(H) >= i
  BY <1>2, MaxOfSet
<1>4. Max(H) = i
  BY <1>2, <1>3
<1>5. LookupIn(L, D, k) = ItemOf(L[i], k)
  BY <1>2, <1>4 DEF LookupIn, H
<1> QED BY <1>5 DEF ItemOf

(* Otherwise the only table with the key of the first level that has one.  *)
LEMMA FromOnlyHolder ==
  ASSUME Sentinel \notin Key, NEW k \in Key,
         NEW L \in Seq(Table), NEW D \in Seq(SUBSET Table),
         \A i \in DOMAIN L : k \notin Keys(L[i]),
         NEW l \in DOMAIN D, NEW t \in D[l], k \in Keys(t),
         \A u \in D[l] : k \in Keys(u) => u = t,
         \A m \in DOMAIN D : m < l => \A u \in D[m] : k \notin Keys(u)
  PROVE  LookupIn(L, D, k) = t.items[k]
<1> DEFINE H == DeepHits(D, k)
           S == {u \in D[l] : Stops(u, k)}
<1>1. Hits(L, k) = {}
  BY StopsIffHolds DEF Hits
<1>2. \A m \in DOMAIN D : m \in Nat /\ D[m] \in SUBSET Table
  OBVIOUS
<1>3. H = {m \in DOMAIN D : \E u \in D[m] : k \in Keys(u)}
  BY <1>2, StopsIffHolds DEF DeepHits
<1>4. l \in H /\ H \in SUBSET Nat /\ \A m \in H : ~(m < l)
  BY <1>2, <1>3
<1> HIDE DEF H
<1>5. Min(H) \in H /\ Min(H) <= l
  BY <1>4, MinOfSet
<1>6. Min(H) = l
  BY <1>4, <1>5
<1>7. S = {t}
  <2>1. t \in Table /\ D[l] \in SUBSET Table
    BY <1>2
  <2>2. \A u \in D[l] : Stops(u, k) <=> k \in Keys(u)
    BY <2>1, StopsIffHolds
  <2> QED BY <2>2
<1>8. Youngest(S) = t
  <2>1. t \in Table /\ t.time \in Nat
    BY <1>2, TableKeys
  <2> HIDE DEF S
  <2>2. S \in SUBSET Table /\ S # {} /\ \A u \in S : u.time <= t.time
    BY <1>7, <2>1
  <2>3. Youngest(S) \in S
    BY <1>7, <2>1, <2>2, YoungestOfDistinct
  <2> QED BY <1>7, <2>3
<1>9. LookupIn(L, D, k) = ItemOf(Youngest(S), k)
  BY <1>1, <1>4, <1>6 DEF LookupIn, H
<1> QED BY <1>8, <1>9 DEF ItemOf

(* In a level of disjoint tables there is only one.                        *)
LEMMA FromLevel ==
  ASSUME Sentinel \notin Key, NEW k \in Key,
         NEW L \in Seq(Table), NEW D \in Seq(SUBSET Table),
         \A i \in DOMAIN L : k \notin Keys(L[i]),
         NEW l \in DOMAIN D, Disjoint(D[l]),
         NEW t \in D[l], k \in Keys(t),
         \A m \in DOMAIN D : m < l => \A u \in D[m] : k \notin Keys(u)
  PROVE  LookupIn(L, D, k) = t.items[k]
<1>1. D[l] \in SUBSET Table
  OBVIOUS
<1>2. \A u \in D[l] : k \in Keys(u) => u = t
  BY <1>1, DisjointHolder
<1> QED BY <1>2, FromOnlyHolder

LEMMA FromNowhere ==
  ASSUME Sentinel \notin Key, NEW k \in Key,
         NEW L \in Seq(Table), NEW D \in Seq(SUBSET Table),
         \A i \in DOMAIN L : k \notin Keys(L[i]),
         \A l \in DOMAIN D : \A u \in D[l] : k \notin Keys(u)
  PROVE  LookupIn(L, D, k) = NotFound
<1>1. Hits(L, k) = {}
  BY StopsIffHolds DEF Hits
<1>2. \A m \in DOMAIN D : D[m] \in SUBSET Table
  OBVIOUS
<1>3. DeepHits(D, k) = {}
  BY <1>2, StopsIffHolds DEF DeepHits
<1> QED BY <1>1, <1>3 DEF LookupIn

(* The three cases are all there are.                                      *)
LEMMA Answers ==
  ASSUME NEW k \in Key, NEW L \in Seq(Table), NEW D \in Seq(SUBSET Table)
  PROVE  \/ \E i \in DOMAIN L :
              /\ k \in Keys(L[i])
              /\ \A j \in DOMAIN L : k \in Keys(L[j]) => j <= i
         \/ /\ \A i \in DOMAIN L : k \notin Keys(L[i])
            /\ \E l \in DOMAIN D : \E t \in D[l] :
                 /\ k \in Keys(t)
                 /\ \A m \in DOMAIN D : m < l => \A u \in D[m] : k \notin Keys(u)
         \/ /\ \A i \in DOMAIN L : k \notin Keys(L[i])
            /\ \A l \in DOMAIN D : \A u \in D[l] : k \notin Keys(u)
<1> DEFINE H == {i \in DOMAIN L : k \in Keys(L[i])}
           G == {l \in DOMAIN D : \E t \in D[l] : k \in Keys(t)}
<1>1. CASE H # {}
  <2>1. H \in SUBSET Nat /\ Len(L) \in Nat /\ \A j \in H : j <= Len(L)
    OBVIOUS
  <2> HIDE DEF H
  <2>2. Max(H) \in H /\ \A j \in H : Max(H) >= j
    BY <1>1, <2>1, MaxOfSet
  <2>3. \A j \in H : j <= Max(H)
    BY <2>1, <2>2
  <2> QED BY <2>2, <2>3 DEF H
<1>2. CASE H = {} /\ G # {}
  <2>1. G \in SUBSET Nat
    OBVIOUS
  <2> HIDE DEF G
  <2>2. Min(G) \in G /\ \A m \in G : Min(G) <= m
    BY <1>2, <2>1, MinOfSet
  <2>3. \A m \in G : ~(m < Min(G))
    <3>1. Min(G) \in Nat /\ \A m \in G : m \in Nat /\ Min(G) <= m
      BY <2>1, <2>2
    <3> QED BY <3>1
  <2>4. PICK t \in D[Min(G)] : k \in Keys(t)
    BY <2>2 DEF G
  <2>5. \A m \in DOMAIN D : m < Min(G) => \A u \in D[m] : k \notin Keys(u)
    BY <2>3 DEF G
  <2>6. Min(G) \in DOMAIN D
    BY <2>2 DEF G
  <2> QED BY <1>2, <2>4, <2>5, <2>6
<1>3. CASE H = {} /\ G = {}
  BY <1>3
<1> QED BY <1>1, <1>2, <1>3

(* Two trees in which the same tables hold a key answer alike.             *)
LEMMA SameHolders ==
  ASSUME Sentinel \notin Key, NEW k \in Key,
         NEW L \in Seq(Table), NEW D \in Seq(SUBSET Table),
         NEW M \in Seq(Table), NEW E \in Seq(SUBSET Table),
         \A l \in DOMAIN D : Disjoint(D[l]), \A l \in DOMAIN E : Disjoint(E[l]),
         \/ M = L
         \/ /\ \A i \in DOMAIN L : k \notin Keys(L[i])
            /\ \A i \in DOMAIN M : k \notin Keys(M[i]),
         \A l \in DOMAIN D : \A t \in D[l] : k \in Keys(t) => l \in DOMAIN E /\ t \in E[l],
         \A l \in DOMAIN E : \A t \in E[l] : k \in Keys(t) => l \in DOMAIN D /\ t \in D[l]
  PROVE  LookupIn(M, E, k) = LookupIn(L, D, k)
<1>1. CASE \E i \in DOMAIN L :
             /\ k \in Keys(L[i])
             /\ \A j \in DOMAIN L : k \in Keys(L[j]) => j <= i
  <2>1. PICK i \in DOMAIN L :
          /\ k \in Keys(L[i])
          /\ \A j \in DOMAIN L : k \in Keys(L[j]) => j <= i
    BY <1>1
  <2>2. M = L
    BY <2>1
  <2>3. LookupIn(L, D, k) = L[i].items[k] /\ LookupIn(L, E, k) = L[i].items[k]
    BY <2>1, FromLevel0
  <2> QED BY <2>2, <2>3
<1>2. CASE /\ \A i \in DOMAIN L : k \notin Keys(L[i])
           /\ \E l \in DOMAIN D : \E t \in D[l] :
                /\ k \in Keys(t)
                /\ \A m \in DOMAIN D : m < l => \A u \in D[m] : k \notin Keys(u)
  <2>1. PICK l \in DOMAIN D : \E t \in D[l] :
          /\ k \in Keys(t)
          /\ \A m \in DOMAIN D : m < l => \A u \in D[m] : k \notin Keys(u)
    BY <1>2
  <2>2. PICK t \in D[l] :
          /\ k \in Keys(t)
          /\ \A m \in DOMAIN D : m < l => \A u \in D[m] : k \notin Keys(u)
    BY <2>1
  <2>3. LookupIn(L, D, k) = t.items[k]
    BY <1>2, <2>2, FromLevel
  <2>4. /\ \A i \in DOMAIN M : k \notin Keys(M[i])
        /\ l \in DOMAIN E /\ t \in E[l] /\ Disjoint(E[l])
        /\ \A m \in DOMAIN E : m < l => \A u \in E[m] : k \notin Keys(u)
    BY <1>2, <2>2
  <2>5. LookupIn(M, E, k) = t.items[k]
    BY <2>2, <2>4, FromLevel
  <2> QED BY <2>3, <2>5
<1>3. CASE /\ \A i \in DOMAIN L : k \notin Keys(L[i])
           /\ \A l \in DOMAIN D : \A u \in D[l] : k \notin Keys(u)
  <2>1. LookupIn(L, D, k) = NotFound
    BY <1>3, FromNowhere
  <2>2. /\ \A i \in DOMAIN M : k \notin Keys(M[i])
        /\ \A l \in DOMAIN E : \A u \in E[l] : k \notin Keys(u)
    BY <1>3
  <2>3. LookupIn(M, E, k) = NotFound
    BY <2>2, FromNowhere
  <2> QED BY <2>1, <2>3
<1> QED BY <1>1, <1>2, <1>3, Answers

(* A key that no table above level n holds shows the item level n has for  *)
(* it, also when that item was a deletion and has been dropped.            *)
LEMMA Settled ==
  ASSUME Sentinel \notin Key, NEW k \in Key,
         NEW L \in Seq(Table), NEW D \in Seq(SUBSET Table),
         NEW n \in DOMAIN D, Disjoint(D[n]),
         \A i \in DOMAIN L : k \notin Keys(L[i]),
         \A m \in DOMAIN D : m < n => \A u \in D[m] : k \notin Keys(u),
         NEW item,
         \/ \E t \in D[n] : k \in Keys(t) /\ t.items[k] = item
         \/ ~item.live /\ \A m \in DOMAIN D : m <= n /\ \A u \in D[n] : k \notin Keys(u)
  PROVE  Display(LookupIn(L, D, k)) = Display(item)
<1>1. CASE \E t \in D[n] : k \in Keys(t) /\ t.items[k] = item
  <2>1. PICK t \in D[n] : k \in Keys(t) /\ t.items[k] = item
    BY <1>1
  <2>2. LookupIn(L, D, k) = t.items[k]
    BY <2>1, FromLevel
  <2> QED BY <2>1, <2>2
<1>2. CASE ~item.live /\ \A m \in DOMAIN D : m <= n /\ \A u \in D[n] : k \notin Keys(u)
  <2>1. \A m \in DOMAIN D : m < n \/ m = n
    BY <1>2
  <2>2. \A m \in DOMAIN D : \A u \in D[m] : k \notin Keys(u)
    BY <1>2, <2>1
  <2>3. LookupIn(L, D, k) = NotFound
    BY <2>2, FromNowhere
  <2> QED BY <1>2, <2>3 DEF Display, NotFound
<1> QED BY <1>1, <1>2

----------------------------------------------------------------------------
(* The steps.                                                              *)

LEMMA FlushSteps ==
  ASSUME Sentinel \notin Key, TreeInv, NEW items \in MemtableRuns, AddTable(items),
         NEW k \in Key
  PROVE  Visible(k)' = IF k \in DOMAIN items THEN Display(items[k]) ELSE Visible(k)
<1> DEFINE t == [time |-> timeId, items |-> items]
           n == Len(level0) + 1
<1>1. /\ level0 \in Seq(Table) /\ Len(level0) \in Nat /\ DOMAIN level0 = 1 .. Len(level0)
      /\ deeper \in Seq(SUBSET Table) /\ timeId \in Nat
      /\ \A l \in DOMAIN deeper : Disjoint(deeper[l])
  BY DEF TreeInv, TreeTypeOK, LevelsDisjoint, Disjoint
<1>2. t \in Table
  <2>1. items \in Runs
    BY DEF MemtableRuns, MemtableKeys, Runs
  <2> QED BY <1>1, <2>1 DEF Table
<1>3. level0' = Append(level0, t) /\ deeper' = deeper
  BY DEF AddTable
<1>4. Keys(t) = DOMAIN items /\ t.items = items
  BY DEF Keys
<1> HIDE DEF t
<1>5. /\ level0' \in Seq(Table) /\ DOMAIN level0' = 1 .. n
      /\ \A i \in DOMAIN level0 : level0'[i] = level0[i]
      /\ level0'[n] = t
      /\ n \in DOMAIN level0'
  BY <1>1, <1>2, <1>3
<1>6. CASE k \in DOMAIN items
  <2>1. \A j \in DOMAIN level0' : j <= n
    BY <1>1, <1>5
  <2>2. LookupIn(level0', deeper, k) = items[k]
    BY <1>4, <1>5, <1>6, <2>1, FromLevel0
  <2> QED BY <1>3, <1>6, <2>2, LookupArguments
<1>7. CASE k \notin DOMAIN items
  <2>1. \A j \in DOMAIN level0' : k \in Keys(level0'[j]) =>
          j \in DOMAIN level0 /\ k \in Keys(level0[j])
    BY <1>1, <1>4, <1>5, <1>7
  <2>2. CASE \E i \in DOMAIN level0 :
               /\ k \in Keys(level0[i])
               /\ \A j \in DOMAIN level0 : k \in Keys(level0[j]) => j <= i
    <3>1. PICK i \in DOMAIN level0 :
            /\ k \in Keys(level0[i])
            /\ \A j \in DOMAIN level0 : k \in Keys(level0[j]) => j <= i
      BY <2>2
    <3>2. LookupIn(level0, deeper, k) = level0[i].items[k]
      BY <1>1, <3>1, FromLevel0
    <3>3. i \in DOMAIN level0' /\ level0'[i] = level0[i]
      BY <1>1, <1>5
    <3>4. LookupIn(level0', deeper, k) = level0'[i].items[k]
      BY <1>5, <2>1, <3>1, <3>3, FromLevel0
    <3> QED BY <1>3, <1>7, <3>2, <3>3, <3>4, LookupArguments
  <2>3. CASE /\ \A i \in DOMAIN level0 : k \notin Keys(level0[i])
             /\ \E l \in DOMAIN deeper : \E u \in deeper[l] :
                  /\ k \in Keys(u)
                  /\ \A m \in DOMAIN deeper : m < l => \A v \in deeper[m] : k \notin Keys(v)
    <3>1. PICK l \in DOMAIN deeper : \E u \in deeper[l] :
            /\ k \in Keys(u)
            /\ \A m \in DOMAIN deeper : m < l => \A v \in deeper[m] : k \notin Keys(v)
      BY <2>3
    <3>2. PICK u \in deeper[l] :
            /\ k \in Keys(u)
            /\ \A m \in DOMAIN deeper : m < l => \A v \in deeper[m] : k \notin Keys(v)
      BY <3>1
    <3>3. LookupIn(level0, deeper, k) = u.items[k]
      BY <1>1, <2>3, <3>2, FromLevel
    <3>4. LookupIn(level0', deeper, k) = u.items[k]
      BY <1>1, <1>5, <2>1, <2>3, <3>2, FromLevel
    <3> QED BY <1>3, <1>7, <3>3, <3>4, LookupArguments
  <2>4. CASE /\ \A i \in DOMAIN level0 : k \notin Keys(level0[i])
             /\ \A l \in DOMAIN deeper : \A u \in deeper[l] : k \notin Keys(u)
    <3>1. LookupIn(level0, deeper, k) = NotFound
      BY <1>1, <2>4, FromNowhere
    <3>2. LookupIn(level0', deeper, k) = NotFound
      BY <1>1, <1>5, <2>1, <2>4, FromNowhere
    <3> QED BY <1>3, <1>7, <3>1, <3>2, LookupArguments
  <2> QED BY <1>1, <2>2, <2>3, <2>4, Answers
<1> QED BY <1>6, <1>7

LEMMA ResetSteps ==
  ASSUME Sentinel \notin Key, ResetTree, NEW k \in Key
  PROVE  Visible(k)' = NotFound
<1>1. level0' = <<>> /\ deeper' = <<>>
  BY DEF ResetTree
<1>2. DOMAIN <<>> = {} /\ <<>> \in Seq(Table) /\ <<>> \in Seq(SUBSET Table)
  OBVIOUS
<1>3. LookupIn(level0', deeper', k) = NotFound
  BY <1>1, <1>2, FromNowhere
<1> QED BY <1>3, LookupArguments DEF Display

(* The types and the disjointness TreeInv gives, before and after a step.  *)
LEMMA TreeShape ==
  TreeInv => /\ level0 \in Seq(Table)
             /\ deeper \in Seq(SUBSET Table)
             /\ \A l \in DOMAIN deeper : Disjoint(deeper[l])
BY DEF TreeInv, TreeTypeOK, LevelsDisjoint, Disjoint

LEMMA NextTreeShape ==
  TreeInv' => /\ level0' \in Seq(Table)
              /\ deeper' \in Seq(SUBSET Table)
              /\ \A l \in DOMAIN deeper' : Disjoint(deeper'[l])
BY DEF TreeInv, TreeTypeOK, LevelsDisjoint, Disjoint

LEMMA CompactLevel0Steps ==
  ASSUME KeysFitInt, Sentinel \notin Key, TreeInv, TreeInv', CompactLevel0,
         NEW k \in Key
  PROVE  Visible(k)' = Visible(k)
<1> DEFINE L     == WithLevel(1)[1]
           met   == Met(Level0Tables, 1)
           all   == met \cup Level0Tables
           D     == MergedKeys(all)
           items == MergeItems(all)
           time  == YoungestTime(all)
           made  == Made(items, 1, time)
           next  == (L \ met) \cup made
<1>1. /\ level0 \in Seq(Table) /\ deeper \in Seq(SUBSET Table)
      /\ \A l \in DOMAIN deeper : Disjoint(deeper[l])
      /\ level0' \in Seq(Table) /\ deeper' \in Seq(SUBSET Table)
      /\ \A l \in DOMAIN deeper' : Disjoint(deeper'[l])
      /\ DOMAIN deeper = 1 .. Len(deeper) /\ Len(deeper) \in Nat
      /\ DOMAIN level0 \subseteq Nat
  BY TreeShape, NextTreeShape
<1>2. /\ job = 0 /\ level0' = <<>>
      /\ deeper' = [WithLevel(1) EXCEPT ![1] = next]
  BY DEF CompactLevel0
<1>3. /\ \A m \in made : \A j \in Keys(m) : j \in D /\ m.items[j] = items[j]
      /\ \A j \in D : \/ Len(deeper) < 1 /\ ~items[j].live
                      \/ \E m \in made : j \in Keys(m)
      /\ \A t \in L \ met : \A j \in Keys(t) : j \notin D
      /\ \A j \in D : \E t \in all :
           /\ j \in Keys(t) /\ items[j] = t.items[j]
           /\ \A u \in all : j \in Keys(u) => u.time <= t.time
  BY <1>2, Level0Result
<1>4. /\ DOMAIN WithLevel(1) = DOMAIN deeper \cup {1}
      /\ \A m \in DOMAIN deeper : WithLevel(1)[m] = deeper[m]
      /\ L = IF 1 \in DOMAIN deeper THEN deeper[1] ELSE {}
  <2>1. 1 \in Nat \ {0} /\ 1 <= Len(deeper) + 1
    BY <1>1
  <2> QED BY <1>1, <2>1, WithLevelFacts
<1>5. met \in SUBSET L
  BY DEF Met, Meeting
<1>6. /\ Level0Tables = {level0[i] : i \in DOMAIN level0}
      /\ \A i \in DOMAIN level0' : k \notin Keys(level0'[i])
  <2>1. DOMAIN <<>> = {}
    OBVIOUS
  <2> QED BY <1>2, <2>1 DEF Level0Tables, Range
<1>7. k \in D <=> \E t \in all : k \in Keys(t)
  BY DEF MergedKeys
<1>8. next = (L \ met) \cup made
  OBVIOUS
<1>9. all = met \cup Level0Tables
  OBVIOUS
<1> HIDE DEF L, met, all, D, items, made, next
<1>10. /\ DOMAIN deeper' = DOMAIN deeper \cup {1} /\ deeper'[1] = next
       /\ \A m \in DOMAIN deeper \ {1} : deeper'[m] = deeper[m]
  BY <1>2, <1>4
<1>11. CASE k \in D
  <2>1. PICK t \in all :
          /\ k \in Keys(t) /\ items[k] = t.items[k]
          /\ \A u \in all : k \in Keys(u) => u.time <= t.time
    BY <1>3, <1>11
  <2>2. LookupIn(level0, deeper, k) = items[k]
    <3>1. CASE t \in Level0Tables
      <4>1. PICK i \in DOMAIN level0 : t = level0[i]
        BY <1>6, <3>1
      <4>2. ASSUME NEW j \in DOMAIN level0, k \in Keys(level0[j]), ~(j <= i)
            PROVE  FALSE
        <5>1. level0[i].time < level0[j].time
          BY <1>1, <4>2 DEF TreeInv, AgeOrder
        <5>2. level0[j].time <= level0[i].time
          BY <1>6, <1>9, <2>1, <4>1, <4>2
        <5>3. level0[i].time \in Nat /\ level0[j].time \in Nat
          BY <1>1, TableKeys
        <5> QED BY <5>1, <5>2, <5>3
      <4>3. LookupIn(level0, deeper, k) = level0[i].items[k]
        BY <1>1, <2>1, <4>1, <4>2, FromLevel0
      <4> QED BY <2>1, <4>1, <4>3
    <3>2. CASE t \in met
      <4>1. PICK l \in DOMAIN deeper : l = 1 /\ t \in deeper[l]
        BY <1>4, <1>5, <3>2
      <4>2. ASSUME NEW i \in DOMAIN level0, k \in Keys(level0[i])
            PROVE  FALSE
        <5>1. t.time < level0[i].time
          BY <4>1 DEF TreeInv, AgeOrder
        <5>2. level0[i].time <= t.time
          BY <1>6, <1>9, <2>1, <4>2
        <5>3. level0[i].time \in Nat /\ t.time \in Nat
          BY <1>1, <4>1, TableKeys
        <5> QED BY <5>1, <5>2, <5>3
      <4>3. /\ \A i \in DOMAIN level0 : k \notin Keys(level0[i])
            /\ \A m \in DOMAIN deeper : m < l => \A u \in deeper[m] : k \notin Keys(u)
            /\ Disjoint(deeper[l]) /\ t \in deeper[l] /\ k \in Keys(t)
        BY <1>1, <2>1, <4>1, <4>2
      <4>4. LookupIn(level0, deeper, k) = t.items[k]
        <5>1. level0 \in Seq(Table) /\ deeper \in Seq(SUBSET Table)
          BY <1>1
        <5> QED BY <4>3, <5>1, FromLevel
      <4> QED BY <2>1, <4>4
    <3> QED BY <1>9, <3>1, <3>2
  <2>3. 1 \in DOMAIN deeper' /\ Disjoint(deeper'[1]) /\ \A m \in DOMAIN deeper' : ~(m < 1)
    BY <1>1, <1>10
  <2>4. \/ \E m \in deeper'[1] : k \in Keys(m) /\ m.items[k] = items[k]
        \/ /\ ~items[k].live
           /\ \A m \in DOMAIN deeper' : m <= 1 /\ \A u \in deeper'[1] : k \notin Keys(u)
    <3>1. CASE \E m \in made : k \in Keys(m)
      BY <1>3, <1>8, <1>10, <3>1
    <3>2. CASE ~ \E m \in made : k \in Keys(m)
      <4>1. ~items[k].live /\ Len(deeper) = 0
        BY <1>1, <1>3, <1>11, <3>2
      <4>2. \A m \in DOMAIN deeper' : m <= 1
        BY <1>1, <1>10, <4>1
      <4>3. \A u \in deeper'[1] : k \notin Keys(u)
        BY <1>3, <1>8, <1>10, <1>11, <3>2
      <4> QED BY <4>1, <4>2, <4>3
    <3> QED BY <3>1, <3>2
  <2>5. Display(LookupIn(level0', deeper', k)) = Display(items[k])
    BY <1>1, <1>6, <2>3, <2>4, Settled
  <2> QED BY <2>2, <2>5, LookupArguments
<1>12. CASE k \notin D
  <2>1. /\ \A i \in DOMAIN level0 : k \notin Keys(level0[i])
        /\ \A t \in met : k \notin Keys(t)
        /\ \A t \in made : k \notin Keys(t)
    BY <1>3, <1>6, <1>7, <1>9, <1>12
  <2>2. \A l \in DOMAIN deeper : \A t \in deeper[l] :
          k \in Keys(t) => l \in DOMAIN deeper' /\ t \in deeper'[l]
    BY <1>4, <1>8, <1>10, <2>1
  <2>3. \A l \in DOMAIN deeper' : \A t \in deeper'[l] :
          k \in Keys(t) => l \in DOMAIN deeper /\ t \in deeper[l]
    BY <1>4, <1>8, <1>10, <2>1
  <2>4. LookupIn(level0', deeper', k) = LookupIn(level0, deeper, k)
    BY <1>1, <1>6, <2>1, <2>2, <2>3, SameHolders
  <2> QED BY <2>4, LookupArguments
<1> QED BY <1>11, <1>12

LEMMA CompactSteps ==
  ASSUME KeysFitInt, Sentinel \notin Key, TreeInv, TreeInv',
         NEW l \in 1 .. MaxLevel, Compact(l),
         NEW k \in Key
  PROVE  Visible(k)' = Visible(k)
<1> DEFINE n     == l + 1
           L     == WithLevel(n)[n]
           moved == Excess(l)
           met   == Met(moved, n)
           items == Overlay(MergeItems(moved), MergeItems(met))
           D     == MergedKeys(met \cup moved)
           made  == Made(items, n, YoungestTime(moved))
           next  == (L \ met) \cup made
<1>1. /\ level0 \in Seq(Table) /\ deeper \in Seq(SUBSET Table)
      /\ \A m \in DOMAIN deeper : Disjoint(deeper[m])
      /\ level0' \in Seq(Table) /\ deeper' \in Seq(SUBSET Table)
      /\ \A m \in DOMAIN deeper' : Disjoint(deeper'[m])
  BY TreeShape, NextTreeShape
<1>2. DOMAIN deeper = 1 .. Len(deeper) /\ Len(deeper) \in Nat
  BY <1>1
<1>3. /\ job = l /\ l < MaxLevel /\ level0' = level0
      /\ deeper' = [WithLevel(n) EXCEPT ![l] = @ \ moved, ![n] = next]
  BY DEF Compact
<1>4. /\ \A m \in made : \A j \in Keys(m) : j \in D /\ m.items[j] = items[j]
      /\ \A j \in D : \/ Len(deeper) < n /\ ~items[j].live
                      \/ \E m \in made : j \in Keys(m)
      /\ \A t \in L \ met : \A j \in Keys(t) : j \notin D
      /\ \A t \in moved : \A j \in Keys(t) : items[j] = t.items[j]
      /\ \A t \in met : \A j \in Keys(t) :
           (\A u \in moved : j \notin Keys(u)) => items[j] = t.items[j]
  BY <1>3, LevelResult
<1>5. l \in DOMAIN deeper /\ moved \in SUBSET deeper[l]
  BY <1>3, ExcessFacts
<1>6. n \in Nat \ {0} /\ n <= Len(deeper) + 1 /\ n # l /\ l \in Nat /\ l < n
  <2>1. l \in Nat /\ l <= Len(deeper)
    BY <1>2, <1>5
  <2> QED BY <1>2, <2>1
<1>7. /\ DOMAIN WithLevel(n) = DOMAIN deeper \cup {n}
      /\ \A m \in DOMAIN deeper : WithLevel(n)[m] = deeper[m]
      /\ L = IF n \in DOMAIN deeper THEN deeper[n] ELSE {}
  BY <1>1, <1>6, WithLevelFacts
<1>8. met \in SUBSET L
  BY DEF Met, Meeting
<1>9. k \in D <=> \E t \in met \cup moved : k \in Keys(t)
  BY DEF MergedKeys
<1>10. next = (L \ met) \cup made
  OBVIOUS
<1>11. \A m \in Nat : m < l \/ m = l \/ m = n \/ m > n
  BY <1>6
<1> HIDE DEF L, moved, met, D, items, made, next, n
<1>12. /\ DOMAIN deeper' = DOMAIN deeper \cup {n} /\ deeper'[n] = next
       /\ deeper'[l] = deeper[l] \ moved
       /\ \A m \in DOMAIN deeper \ {n, l} : deeper'[m] = deeper[m]
  BY <1>3, <1>5, <1>6, <1>7
<1>13. /\ n \in DOMAIN deeper'
       /\ \A m \in DOMAIN deeper' : m \in Nat
       /\ \A m \in DOMAIN deeper' : m < l =>
            m \in DOMAIN deeper /\ deeper'[m] = deeper[m]
  BY <1>2, <1>6, <1>12
<1>14. ASSUME k \in D,
              \A i \in DOMAIN level0 : k \notin Keys(level0[i]),
              \A m \in DOMAIN deeper : m < l => \A u \in deeper[m] : k \notin Keys(u),
              \A u \in deeper[l] \ moved : k \notin Keys(u)
       PROVE  Display(LookupIn(level0', deeper', k)) = Display(items[k])
  <2>1. \A m \in DOMAIN deeper' : m < n => \A u \in deeper'[m] : k \notin Keys(u)
    <3>1. \A m \in DOMAIN deeper' : m < n => m < l \/ m = l
      BY <1>6, <1>11, <1>13
    <3> QED BY <1>12, <1>13, <1>14, <3>1
  <2>2. \/ \E m \in deeper'[n] : k \in Keys(m) /\ m.items[k] = items[k]
        \/ /\ ~items[k].live
           /\ \A m \in DOMAIN deeper' : m <= n /\ \A u \in deeper'[n] : k \notin Keys(u)
    <3>1. CASE \E m \in made : k \in Keys(m)
      BY <1>4, <1>10, <1>12, <3>1
    <3>2. CASE ~ \E m \in made : k \in Keys(m)
      <4>1. ~items[k].live /\ Len(deeper) < n
        BY <1>4, <1>14, <3>2
      <4>2. \A m \in DOMAIN deeper' : m <= n
        BY <1>2, <1>6, <1>12, <4>1
      <4>3. \A u \in deeper'[n] : k \notin Keys(u)
        BY <1>4, <1>10, <1>12, <1>14, <3>2
      <4> QED BY <4>1, <4>2, <4>3
    <3> QED BY <3>1, <3>2
  <2>3. Disjoint(deeper'[n]) /\ n \in DOMAIN deeper'
    BY <1>1, <1>13
  <2>4. level0 \in Seq(Table) /\ deeper' \in Seq(SUBSET Table)
    BY <1>1
  <2>5. Display(LookupIn(level0, deeper', k)) = Display(items[k])
    <3> DEFINE E    == deeper'
               item == items[k]
    <3>1. /\ E \in Seq(SUBSET Table) /\ n \in DOMAIN E /\ Disjoint(E[n])
          /\ \A m \in DOMAIN E : m < n => \A u \in E[m] : k \notin Keys(u)
          /\ \/ \E m \in E[n] : k \in Keys(m) /\ m.items[k] = item
             \/ ~item.live /\ \A m \in DOMAIN E : m <= n /\ \A u \in E[n] : k \notin Keys(u)
      BY <2>1, <2>2, <2>3, <2>4
    <3> HIDE DEF E, item
    <3>2. Display(LookupIn(level0, E, k)) = Display(item)
      BY <1>14, <2>4, <3>1, Settled
    <3> QED BY <3>2 DEF E, item
  <2> QED BY <1>3, <2>5
<1>15. CASE k \notin D
  <2>1. /\ \A t \in met : k \notin Keys(t)
        /\ \A t \in moved : k \notin Keys(t)
        /\ \A t \in made : k \notin Keys(t)
    BY <1>4, <1>9, <1>15
  <2>2. \A m \in DOMAIN deeper : \A t \in deeper[m] :
          k \in Keys(t) => m \in DOMAIN deeper' /\ t \in deeper'[m]
    BY <1>7, <1>10, <1>12, <2>1
  <2>3. \A m \in DOMAIN deeper' : \A t \in deeper'[m] :
          k \in Keys(t) => m \in DOMAIN deeper /\ t \in deeper[m]
    BY <1>5, <1>7, <1>10, <1>12, <2>1
  <2>4. LookupIn(level0, deeper', k) = LookupIn(level0, deeper, k)
    BY <1>1, <2>2, <2>3, SameHolders
  <2> QED BY <1>3, <2>4, LookupArguments
<1>16. CASE k \in D
  <2>1. CASE \E i \in DOMAIN level0 :
               /\ k \in Keys(level0[i])
               /\ \A j \in DOMAIN level0 : k \in Keys(level0[j]) => j <= i
    <3>1. PICK i \in DOMAIN level0 :
            /\ k \in Keys(level0[i])
            /\ \A j \in DOMAIN level0 : k \in Keys(level0[j]) => j <= i
      BY <2>1
    <3>2. /\ LookupIn(level0, deeper, k) = level0[i].items[k]
          /\ LookupIn(level0, deeper', k) = level0[i].items[k]
      BY <1>1, <3>1, FromLevel0
    <3> QED BY <1>3, <3>2, LookupArguments
  <2>2. CASE /\ \A i \in DOMAIN level0 : k \notin Keys(level0[i])
             /\ \E p \in DOMAIN deeper : \E t \in deeper[p] :
                  /\ k \in Keys(t)
                  /\ \A m \in DOMAIN deeper : m < p => \A u \in deeper[m] : k \notin Keys(u)
    <3>1. PICK p \in DOMAIN deeper : \E t \in deeper[p] :
            /\ k \in Keys(t)
            /\ \A m \in DOMAIN deeper : m < p => \A u \in deeper[m] : k \notin Keys(u)
      BY <2>2
    <3>2. PICK t \in deeper[p] :
            /\ k \in Keys(t)
            /\ \A m \in DOMAIN deeper : m < p => \A u \in deeper[m] : k \notin Keys(u)
      BY <3>1
    <3>3. LookupIn(level0, deeper, k) = t.items[k]
      <4>1. level0 \in Seq(Table) /\ deeper \in Seq(SUBSET Table) /\ Disjoint(deeper[p])
        BY <1>1
      <4> QED BY <2>2, <3>2, <4>1, FromLevel
    <3>4. p \in Nat /\ (p < l \/ p = l \/ p = n \/ p > n)
      BY <1>2, <1>11
    <3>5. CASE p < l \/ (p = l /\ t \notin moved)
      <4>1. p \in DOMAIN deeper' /\ t \in deeper'[p] /\ Disjoint(deeper'[p])
        BY <1>1, <1>6, <1>12, <3>4, <3>5
      <4>2. \A m \in DOMAIN deeper' : m < p => \A u \in deeper'[m] : k \notin Keys(u)
        <5>1. \A m \in DOMAIN deeper' : m < p => m < l
          BY <1>6, <1>13, <3>4, <3>5
        <5> QED BY <1>13, <3>2, <5>1
      <4>3. LookupIn(level0, deeper', k) = t.items[k]
        <5>1. level0 \in Seq(Table) /\ deeper' \in Seq(SUBSET Table)
          BY <1>1
        <5> QED BY <2>2, <3>2, <4>1, <4>2, <5>1, FromLevel
      <4> QED BY <1>3, <3>3, <4>3, LookupArguments
    <3>6. CASE p = l /\ t \in moved
      <4>1. \A u \in deeper[l] \ moved : k \notin Keys(u)
        <5>1. deeper[l] \in SUBSET Table /\ Disjoint(deeper[l])
          BY <1>1, <1>5
        <5> QED BY <1>5, <3>2, <3>6, <5>1, DisjointHolder
      <4>2. items[k] = t.items[k]
        BY <1>4, <3>2, <3>6
      <4>3. Display(LookupIn(level0', deeper', k)) = Display(items[k])
        BY <1>14, <1>16, <2>2, <3>2, <3>6, <4>1
      <4> QED BY <3>3, <4>2, <4>3, LookupArguments
    <3>7. CASE p = n
      <4>1. \A u \in deeper[l] : k \notin Keys(u)
        BY <1>5, <1>6, <3>2, <3>7
      <4>2. \A m \in DOMAIN deeper : m < l => \A u \in deeper[m] : k \notin Keys(u)
        <5>1. \A m \in DOMAIN deeper : m < l => m < p
          BY <1>2, <1>6, <3>7
        <5> QED BY <3>2, <5>1
      <4>3. t \in met
        BY <1>4, <1>7, <1>16, <3>2, <3>7
      <4>4. items[k] = t.items[k]
        BY <1>4, <1>5, <3>2, <4>1, <4>3
      <4>5. Display(LookupIn(level0', deeper', k)) = Display(items[k])
        BY <1>14, <1>16, <2>2, <4>1, <4>2
      <4> QED BY <3>3, <4>4, <4>5, LookupArguments
    <3>8. CASE p > n
      <4>1. \A u \in deeper[l] : k \notin Keys(u)
        BY <1>5, <1>6, <3>2, <3>4, <3>8
      <4>2. \A u \in L : k \notin Keys(u)
        BY <1>6, <1>7, <3>2, <3>4, <3>8
      <4>3. \A u \in met \cup moved : k \notin Keys(u)
        BY <1>5, <1>8, <4>1, <4>2
      <4> QED BY <1>9, <1>16, <4>3
    <3> QED BY <3>4, <3>5, <3>6, <3>7, <3>8
  <2>3. CASE /\ \A i \in DOMAIN level0 : k \notin Keys(level0[i])
             /\ \A m \in DOMAIN deeper : \A u \in deeper[m] : k \notin Keys(u)
    <3>1. \A u \in L : k \notin Keys(u)
      BY <1>7, <2>3
    <3>2. \A u \in met \cup moved : k \notin Keys(u)
      BY <1>5, <1>8, <2>3, <3>1
    <3> QED BY <1>9, <1>16, <3>2
  <2> QED BY <1>1, <2>1, <2>2, <2>3, Answers
<1> QED BY <1>15, <1>16

(* A failing mkdir leaves behind at most an empty level.                   *)
LEMMA MkdirFailsSteps ==
  ASSUME Sentinel \notin Key, TreeInv, TreeInv', NEW l \in 0 .. MaxLevel, MkdirFails(l),
         NEW k \in Key
  PROVE  Visible(k)' = Visible(k)
<1> DEFINE n     == l + 1
           moved == IF l = 0 THEN Level0Tables ELSE Excess(l)
           next  == WithLevel(n)[n] \ Met(moved, n)
<1>1. /\ level0 \in Seq(Table) /\ deeper \in Seq(SUBSET Table)
      /\ \A m \in DOMAIN deeper : Disjoint(deeper[m])
      /\ level0' \in Seq(Table) /\ deeper' \in Seq(SUBSET Table)
      /\ \A m \in DOMAIN deeper' : Disjoint(deeper'[m])
  BY TreeShape, NextTreeShape
<1>2. /\ job = l /\ n \notin dirs /\ level0' = level0
      /\ deeper' = [WithLevel(n) EXCEPT ![n] = next]
  BY DEF MkdirFails
<1>3. n \in Nat \ {0} /\ n <= Len(deeper) + 1
  <2>1. DOMAIN deeper = 1 .. Len(deeper) /\ Len(deeper) \in Nat
    BY <1>1
  <2>2. CASE l = 0
    BY <2>1, <2>2
  <2>3. CASE l # 0
    <3>1. l \in 1 .. MaxLevel
      BY <2>3, LevelAssumption
    <3>2. l \in DOMAIN deeper
      BY <1>2, <3>1 DEF TreeInv, JobHasTables
    <3> QED BY <2>1, <3>2
  <2> QED BY <2>2, <2>3
<1>4. /\ WithLevel(n)[n] = IF n \in DOMAIN deeper THEN deeper[n] ELSE {}
      /\ DOMAIN WithLevel(n) = DOMAIN deeper \cup {n}
      /\ \A m \in DOMAIN deeper : WithLevel(n)[m] = deeper[m]
  BY <1>1, <1>3, WithLevelFacts
<1>5. WithLevel(n)[n] = {}
  BY <1>2, <1>4 DEF TreeInv, DirsMatch
<1>6. next = {}
  BY <1>5
<1> HIDE DEF next, n
<1>7. /\ DOMAIN deeper' = DOMAIN deeper \cup {n} /\ deeper'[n] = {}
      /\ \A m \in DOMAIN deeper : deeper'[m] = deeper[m]
  BY <1>2, <1>4, <1>5, <1>6
<1>8. /\ \A m \in DOMAIN deeper : \A t \in deeper[m] :
           k \in Keys(t) => m \in DOMAIN deeper' /\ t \in deeper'[m]
      /\ \A m \in DOMAIN deeper' : \A t \in deeper'[m] :
           k \in Keys(t) => m \in DOMAIN deeper /\ t \in deeper[m]
  BY <1>7
<1>9. LookupIn(level0, deeper', k) = LookupIn(level0, deeper, k)
  BY <1>1, <1>8, SameHolders
<1> QED BY <1>2, <1>9, LookupArguments

----------------------------------------------------------------------------
(* The theorem.                                                            *)

LEMMA InitImplements == TreeInit /\ Sentinel \notin Key => Index!Init
<1> SUFFICES ASSUME TreeInit, Sentinel \notin Key
             PROVE  Index!Init
  OBVIOUS
<1>1. level0 = <<>> /\ deeper = <<>> /\ timeId = 0
  BY DEF TreeInit
<1>2. DOMAIN <<>> = {} /\ <<>> \in Seq(Table) /\ <<>> \in Seq(SUBSET Table)
  OBVIOUS
<1>3. ASSUME NEW k \in Key
      PROVE  Visible(k) = NotFound
  <2>1. LookupIn(level0, deeper, k) = NotFound
    BY <1>1, <1>2, FromNowhere
  <2> QED BY <2>1, LookupArguments DEF Display
<1> QED BY <1>1, <1>3 DEF Index!Init, Index!NoItem, NotFound

LEMMA StepImplements ==
  ASSUME KeysFitInt, Sentinel \notin Key, TreeInv, TreeInv', [FaultyNext]_treeVars
  PROVE  [Index!Next]_<<[k \in Key |-> Visible(k)], timeId>>
<1> DEFINE index   == [k \in Key |-> Visible(k)]
           unseen  == index' = index /\ timeId' = timeId
<1>1. CASE ResetTree
  <2>1. timeId' = timeId /\ \A k \in Key : Visible(k)' = NotFound
    BY <1>1, ResetSteps DEF ResetTree
  <2>2. Index!Reset
    BY <2>1 DEF Index!Reset, Index!NoItem, NotFound
  <2> QED BY <2>2 DEF Index!Next
<1>2. ASSUME NEW items \in MemtableRuns, AddTable(items)
      PROVE  Index!Next
  <2>1. timeId' = timeId + 1
    BY <1>2 DEF AddTable
  <2>2. \A k \in Key :
          Visible(k)' = IF k \in DOMAIN items THEN Display(items[k]) ELSE Visible(k)
    BY <1>2, FlushSteps
  <2>3. \A k \in DOMAIN items : Display(items[k]) = Index!Shown(items[k])
    BY DEF Display, NotFound, Index!Shown, Index!NoItem
  <2>4. Index!Flush(items)
    BY <2>1, <2>2, <2>3 DEF Index!Flush
  <2>5. items \in Index!MemtableRuns
    <3>1. MemtableKeys = Index!MemtableKeys
      BY DEF MemtableKeys, Index!MemtableKeys, Cardinality, Index!Cardinality
    <3>2. MemtableRuns = Index!MemtableRuns
      BY <3>1 DEF MemtableRuns, Index!MemtableRuns
    <3> QED BY <3>2
  <2> QED BY <2>4, <2>5 DEF Index!Next
<1>3. CASE CompactLevel0
  <2>1. timeId' = timeId /\ \A k \in Key : Visible(k)' = Visible(k)
    BY <1>3, CompactLevel0Steps DEF CompactLevel0
  <2> QED BY <2>1
<1>4. ASSUME NEW l \in 1 .. MaxLevel, Compact(l)
      PROVE  unseen
  <2>1. timeId' = timeId /\ \A k \in Key : Visible(k)' = Visible(k)
    BY <1>4, CompactSteps DEF Compact
  <2> QED BY <2>1
<1>5. ASSUME NEW l \in 0 .. MaxLevel, MkdirFails(l)
      PROVE  unseen
  <2>1. timeId' = timeId /\ \A k \in Key : Visible(k)' = Visible(k)
    BY <1>5, MkdirFailsSteps DEF MkdirFails
  <2> QED BY <2>1
<1>6. CASE UNCHANGED treeVars
  <2>1. timeId' = timeId /\ \A k \in Key : Visible(k)' = Visible(k)
    BY <1>6, LookupArguments DEF treeVars
  <2> QED BY <2>1
<1> QED BY <1>1, <1>2, <1>3, <1>4, <1>5, <1>6 DEF FaultyNext, TreeNext, CompactStep

(* For every set of keys that fit an int and do not contain the sentinel   *)
(* of the binary search, every limit of the levels and every history of    *)
(* flushes, compactions, failing mkdir and resets: SSTableHandler::get     *)
(* finds what the last flush of the key wrote, and no compaction that      *)
(* convertMemTableToSSTable runs changes the answer for any key.           *)
THEOREM TreeImplementsIndex ==
  ASSUME KeysFitInt, Sentinel \notin Key
  PROVE  (TreeSpec => IndexSpec) /\ (FaultySpec => IndexSpec)
<1>1. TreeInit => Index!Init
  BY InitImplements
<1>2. TreeInv /\ TreeInv' /\ [FaultyNext]_treeVars =>
        [Index!Next]_<<[k \in Key |-> Visible(k)], timeId>>
  BY StepImplements
<1>3. FaultySpec => []TreeInv
  BY FaultyTreeInvariant
<1>4. [TreeNext]_treeVars => [FaultyNext]_treeVars
  BY DEF FaultyNext
<1>5. FaultySpec => IndexSpec
  BY <1>1, <1>2, <1>3, PTL DEF FaultySpec, IndexSpec, Index!Spec
<1>6. TreeSpec => FaultySpec
  BY <1>4, PTL DEF TreeSpec, FaultySpec
<1> QED BY <1>5, <1>6
=============================================================================
