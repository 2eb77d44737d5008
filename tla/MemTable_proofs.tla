-------------------------- MODULE MemTable_proofs --------------------------
(***************************************************************************)
(* Proofs about the skip list under the MemTable and about its flush into  *)
(* a table, for every set of keys, every height of the list and whatever   *)
(* heights the nodes draw.                                                 *)
(***************************************************************************)
EXTENDS MemTableFlush, TableSearch_proofs, FiniteSetTheorems, WellFoundedInduction

(* The least and the greatest of some keys.                                *)
LEMMA LeastKey ==
  ASSUME NEW S \in SUBSET Nat, S # {}
  PROVE  \E m \in S : \A x \in S : m <= x
<1> DEFINE R == OpToRel(<, Nat)
<1>1. IsWellFoundedOn(R, Nat)
  BY NatLessThanWellFounded
<1>2. ASSUME NEW x \in Nat, NEW y \in Nat, x < y
      PROVE  <<x, y>> \in R
  BY <1>2 DEF OpToRel
<1> HIDE DEF R
<1>3. PICK m \in S : \A x \in S : ~(<<x, m>> \in R)
  BY <1>1, WFMin
<1>4. ASSUME NEW x \in S
      PROVE  ~(x < m)
  BY <1>2, <1>3
<1> QED BY <1>4

LEMMA GreatestBelow ==
  ASSUME NEW S \in SUBSET Nat, S # {}, NEW b \in Nat, \A x \in S : x <= b
  PROVE  \E m \in S : \A x \in S : m >= x
<1> DEFINE T == {b - x : x \in S}
<1>1. T \in SUBSET Nat /\ T # {}
  <2>1. ASSUME NEW x \in S
        PROVE  b - x \in Nat
    OBVIOUS
  <2>2. T # {}
    OBVIOUS
  <2> QED BY <2>1, <2>2
<1>2. PICK m \in T : \A y \in T : m <= y
  <2> HIDE DEF T
  <2> QED BY <1>1, LeastKey
<1>3. PICK x \in S : m = b - x
  OBVIOUS
<1>4. ASSUME NEW y \in S
      PROVE  x >= y
  <2>1. b - y \in T
    OBVIOUS
  <2> QED BY <2>1, <1>2, <1>3
<1> QED BY <1>4

LEMMA MinOf ==
  ASSUME NEW S \in SUBSET Nat, S # {}
  PROVE  Min(S) \in S /\ \A x \in S : Min(S) <= x
BY LeastKey DEF Min

LEMMA MaxOf ==
  ASSUME NEW S \in SUBSET Nat, S # {}, NEW b \in Nat, \A x \in S : x <= b
  PROVE  Max(S) \in S /\ \A x \in S : Max(S) >= x
BY GreatestBelow DEF Max

----------------------------------------------------------------------------
(* The nodes and the levels they reach.                                    *)

LEMMA NodeFacts ==
  ASSUME ListTypeOK
  PROVE  /\ HeadNode \in DOMAIN forward /\ HeadNode \notin Nodes /\ NullPtr \notin Nodes
         /\ DOMAIN forward = {HeadNode} \cup Nodes
         /\ Nodes \subseteq Key /\ Nodes \subseteq Nat
         /\ \A n \in DOMAIN forward : \E h \in 1 .. MaxHeight :
              forward[n] \in [0 .. h - 1 -> Key \cup {NullPtr}]
<1>1. /\ forward \in [{HeadNode} \cup Nodes ->
                       UNION {[0 .. h - 1 -> Key \cup {NullPtr}] : h \in 1 .. MaxHeight}]
      /\ Nodes \subseteq Key
  BY DEF ListTypeOK
<1>2. HeadNode \notin Nodes
  BY DEF Nodes
<1>3. Key \subseteq Nat
  BY KeysAreNumbers
<1>4. ASSUME NEW n \in DOMAIN forward
      PROVE  \E h \in 1 .. MaxHeight : forward[n] \in [0 .. h - 1 -> Key \cup {NullPtr}]
  <2>1. forward[n] \in UNION {[0 .. h - 1 -> Key \cup {NullPtr}] : h \in 1 .. MaxHeight}
    BY <1>1
  <2> QED BY <2>1
<1>5. DOMAIN forward = {HeadNode} \cup Nodes
  BY <1>1
<1> QED BY <1>1, <1>2, <1>3, <1>4, <1>5, ListAssumption

LEMMA LevelFacts ==
  ASSUME ListTypeOK, NEW i \in Levels
  PROVE  /\ HeadNode \in OnLevel(i)
         /\ OnLevel(i) \subseteq {HeadNode} \cup Nodes
         /\ OnLevel(0) = {HeadNode} \cup Nodes
         /\ \A j \in Levels : j <= i => OnLevel(i) \subseteq OnLevel(j)
         /\ \A n \in OnLevel(i) : forward[n][i] \in Key \cup {NullPtr}
<1>1. HeadNode \in OnLevel(i)
  BY NodeFacts DEF ListTypeOK, OnLevel
<1>2. ASSUME NEW n \in DOMAIN forward
      PROVE  /\ 0 \in DOMAIN forward[n]
             /\ i \in DOMAIN forward[n] => /\ forward[n][i] \in Key \cup {NullPtr}
                                          /\ \A j \in Levels : j <= i => j \in DOMAIN forward[n]
  <2>1. PICK h \in 1 .. MaxHeight : forward[n] \in [0 .. h - 1 -> Key \cup {NullPtr}]
    BY NodeFacts
  <2>2. h \in Nat /\ h >= 1
    BY <2>1, ListAssumption
  <2>3. DOMAIN forward[n] = 0 .. h - 1
    BY <2>1
  <2> QED BY <2>1, <2>2, <2>3 DEF Levels
<1>3. DOMAIN forward = {HeadNode} \cup Nodes
  BY NodeFacts
<1> QED BY <1>1, <1>2, <1>3 DEF OnLevel

(* LevelsLinked, one pointer at a time: a pointer of level i leads to the  *)
(* first of the nodes that are on the level and behind its own.            *)
After(n, i) == {m \in OnLevel(i) \ {HeadNode} : n = HeadNode \/ m > n}

PointsRight(n, i) ==
  IF forward[n][i] = NullPtr THEN After(n, i) = {}
  ELSE forward[n][i] \in After(n, i) /\ \A m \in After(n, i) : forward[n][i] <= m

AllPointRight == \A i \in Levels : \A n \in OnLevel(i) : PointsRight(n, i)

LEMMA AfterIsNat ==
  ASSUME ListTypeOK, NEW i \in Levels, NEW n
  PROVE  After(n, i) \in SUBSET Nat /\ After(n, i) \subseteq Nodes /\ NullPtr \notin After(n, i)
BY NodeFacts, LevelFacts DEF After

LEMMA LinkedPointsRight == ListTypeOK => (LevelsLinked <=> AllPointRight)
<1> SUFFICES ASSUME ListTypeOK PROVE LevelsLinked <=> AllPointRight
  OBVIOUS
<1>1. ASSUME NEW i \in Levels, NEW n \in OnLevel(i)
      PROVE  forward[n][i] = (IF After(n, i) = {} THEN NullPtr ELSE Min(After(n, i)))
               <=> PointsRight(n, i)
  <2>1. After(n, i) \in SUBSET Nat /\ NullPtr \notin After(n, i)
    BY AfterIsNat
  <2>2. CASE After(n, i) = {}
    BY <2>2 DEF PointsRight
  <2>3. CASE After(n, i) # {}
    <3>1. Min(After(n, i)) \in After(n, i) /\ \A x \in After(n, i) : Min(After(n, i)) <= x
      BY <2>1, <2>3, MinOf
    <3> QED BY <2>1, <2>3, <3>1 DEF PointsRight
  <2> QED BY <2>2, <2>3
<1> QED BY <1>1 DEF LevelsLinked, AllPointRight, After

----------------------------------------------------------------------------
(* Walking.                                                                *)

(* What the walk of a call for key k should stop at on level i: the last   *)
(* node of the level before k.                                             *)
Earlier(k, i) == {m \in OnLevel(i) \ {HeadNode} : m < k}

Pred(k, i) == IF Earlier(k, i) = {} THEN HeadNode ELSE Max(Earlier(k, i))

IsBefore(n, k) == n = HeadNode \/ n < k

LEMMA PredFacts ==
  ASSUME ListTypeOK, NEW i \in Levels, NEW k \in Key
  PROVE  /\ Pred(k, i) \in OnLevel(i) /\ IsBefore(Pred(k, i), k)
         /\ \A m \in OnLevel(i) \ {HeadNode} :
              m < k => Pred(k, i) # HeadNode /\ m <= Pred(k, i)
<1>1. Earlier(k, i) \in SUBSET Nat /\ k \in Nat
  BY NodeFacts, LevelFacts, KeysAreNumbers DEF Earlier
<1>2. \A x \in Earlier(k, i) : x <= k
  BY <1>1 DEF Earlier
<1>3. CASE Earlier(k, i) = {}
  BY <1>3, LevelFacts DEF Pred, IsBefore, Earlier
<1>4. CASE Earlier(k, i) # {}
  <2>1. Max(Earlier(k, i)) \in Earlier(k, i) /\ \A x \in Earlier(k, i) : Max(Earlier(k, i)) >= x
    BY <1>1, <1>2, <1>4, MaxOf
  <2>2. Pred(k, i) \in OnLevel(i) \ {HeadNode} /\ Pred(k, i) < k
    BY <1>4, <2>1 DEF Pred, Earlier
  <2>3. \A m \in OnLevel(i) \ {HeadNode} : m < k => m <= Pred(k, i)
    <3> TAKE m \in OnLevel(i) \ {HeadNode}
    <3> HAVE m < k
    <3>1. m \in Earlier(k, i)
      BY DEF Earlier
    <3> QED BY <1>1, <1>4, <2>1, <3>1 DEF Pred
  <2> QED BY <2>2, <2>3 DEF IsBefore
<1> QED BY <1>3, <1>4

(* One step of the walk: it stops at Pred(k, i), or comes nearer to it.    *)
LEMMA WalkStep ==
  ASSUME ListTypeOK, AllPointRight, NEW i \in Levels, NEW k \in Key,
         NEW n \in OnLevel(i), IsBefore(n, k)
  PROVE  IF StopsAt(n, k, i) THEN n = Pred(k, i)
         ELSE /\ forward[n][i] \in After(n, i)
              /\ IsBefore(forward[n][i], k) /\ forward[n][i] < k
<1>1. PointsRight(n, i)
  BY DEF AllPointRight
<1>2. Key \subseteq Nat /\ HeadNode \notin Key
  BY KeysAreNumbers, ListAssumption
<1>3. OnLevel(i) \subseteq {HeadNode} \cup Nodes /\ Nodes \subseteq Nat /\ HeadNode \notin Nodes
  BY NodeFacts, LevelFacts
<1>4. CASE StopsAt(n, k, i)
  <2>1. \A m \in After(n, i) : m >= k
    <3> TAKE m \in After(n, i)
    <3>1. forward[n][i] # NullPtr /\ forward[n][i] <= m /\ forward[n][i] >= k
      BY <1>1, <1>4 DEF PointsRight, StopsAt
    <3>2. forward[n][i] \in Nat /\ m \in Nat /\ k \in Nat
      BY <1>1, <1>2, <3>1, AfterIsNat DEF PointsRight
    <3> QED BY <3>1, <3>2
  <2> DEFINE p == Pred(k, i)
  <2>2. p \in OnLevel(i) /\ IsBefore(p, k)
        /\ \A m \in OnLevel(i) \ {HeadNode} : m < k => p # HeadNode /\ m <= p
    BY PredFacts
  <2> HIDE DEF p
  <2>3. CASE p = HeadNode
    BY <1>4, <2>2, <2>3 DEF IsBefore, p
  <2>4. CASE p # HeadNode
    <3>1. p \in Nat /\ k \in Nat /\ p < k
      BY <1>2, <1>3, <2>2, <2>4 DEF IsBefore
    <3>2. p \notin After(n, i)
      BY <2>1, <3>1
    <3>3. n # HeadNode /\ ~(p > n)
      BY <2>2, <2>4, <3>2 DEF After
    <3>4. n \in Nat /\ n < k
      BY <1>3, <3>3 DEF IsBefore
    <3>5. n <= p
      BY <2>2, <3>3, <3>4
    <3>6. n = p
      BY <3>1, <3>3, <3>4, <3>5
    <3> QED BY <1>4, <3>6 DEF p
  <2> QED BY <2>3, <2>4
<1>5. CASE ~StopsAt(n, k, i)
  <2>1. forward[n][i] # NullPtr /\ ~(forward[n][i] >= k)
    BY <1>5 DEF StopsAt
  <2>2. forward[n][i] \in After(n, i)
    BY <1>1, <2>1 DEF PointsRight
  <2>3. forward[n][i] \in Nat /\ k \in Nat
    BY <1>2, <2>2, AfterIsNat
  <2>4. forward[n][i] < k
    BY <2>1, <2>3
  <2> QED BY <1>5, <2>2, <2>4 DEF IsBefore
<1> QED BY <1>4, <1>5

(* Along: the walk on one level ends at Pred(k, i).                        *)
WalkEnd(n, k, i) == IF IsBefore(n, k) THEN Pred(k, i) ELSE n

IsWalk(f, k, i) ==
  f = [m \in OnLevel(i) |-> IF StopsAt(m, k, i) THEN m ELSE f[forward[m][i]]]

LEMMA WalkExists ==
  ASSUME ListTypeOK, AllPointRight, NEW i \in Levels, NEW k \in Key
  PROVE  IsWalk([m \in OnLevel(i) |-> WalkEnd(m, k, i)], k, i)
<1> DEFINE f == [m \in OnLevel(i) |-> WalkEnd(m, k, i)]
<1>1. ASSUME NEW m \in OnLevel(i)
      PROVE  f[m] = IF StopsAt(m, k, i) THEN m ELSE f[forward[m][i]]
  <2>1. CASE IsBefore(m, k)
    <3>1. CASE StopsAt(m, k, i)
      BY <2>1, <3>1, WalkStep DEF WalkEnd
    <3>2. CASE ~StopsAt(m, k, i)
      <4>1. forward[m][i] \in OnLevel(i) /\ IsBefore(forward[m][i], k)
        BY <2>1, <3>2, WalkStep DEF After
      <4> QED BY <2>1, <3>2, <4>1 DEF WalkEnd
    <3> QED BY <3>1, <3>2
  <2>2. CASE ~IsBefore(m, k)
    <3>1. m # HeadNode /\ ~(m < k) /\ m \in Nat /\ k \in Nat
      BY <2>2, NodeFacts, LevelFacts, KeysAreNumbers DEF IsBefore
    <3>2. forward[m][i] # NullPtr => forward[m][i] \in Nat /\ forward[m][i] > m
      BY <3>1, AfterIsNat DEF AllPointRight, PointsRight, After
    <3>3. StopsAt(m, k, i)
      BY <3>1, <3>2 DEF StopsAt
    <3> QED BY <2>2, <3>3 DEF WalkEnd
  <2> QED BY <2>1, <2>2
<1> HIDE DEF f
<1>2. f = [m \in OnLevel(i) |-> f[m]]
  BY DEF f
<1>3. f = [m \in OnLevel(i) |-> IF StopsAt(m, k, i) THEN m ELSE f[forward[m][i]]]
  BY <1>1, <1>2
<1> QED BY <1>3 DEF IsWalk, f

LEMMA WalkUnique ==
  ASSUME ListTypeOK, AllPointRight, NEW i \in Levels, NEW k \in Key,
         NEW f, IsWalk(f, k, i),
         NEW n \in OnLevel(i), IsBefore(n, k)
  PROVE  f[n] = Pred(k, i)
<1> DEFINE bad == {m \in OnLevel(i) \ {HeadNode} : m < k /\ f[m] # Pred(k, i)}
<1>1. /\ OnLevel(i) \subseteq {HeadNode} \cup Nodes /\ Nodes \subseteq Nat
      /\ k \in Nat
  BY NodeFacts, LevelFacts, KeysAreNumbers
<1>2. \A m \in OnLevel(i) : f[m] = IF StopsAt(m, k, i) THEN m ELSE f[forward[m][i]]
  BY DEF IsWalk
<1>3. ASSUME NEW m \in OnLevel(i), IsBefore(m, k), f[m] # Pred(k, i)
      PROVE  forward[m][i] \in bad /\ (m # HeadNode => forward[m][i] > m)
  <2>1. ~StopsAt(m, k, i)
    BY <1>2, <1>3, WalkStep
  <2>2. forward[m][i] \in After(m, i) /\ forward[m][i] < k
    BY <1>3, <2>1, WalkStep
  <2>3. f[forward[m][i]] # Pred(k, i)
    BY <1>2, <1>3, <2>1
  <2> QED BY <2>2, <2>3 DEF After
<1>4. bad = {}
  <2> SUFFICES ASSUME bad # {} PROVE FALSE
    OBVIOUS
  <2>1. bad \in SUBSET Nat /\ \A x \in bad : x <= k
    <3>1. \A x \in bad : x \in Nat /\ x < k
      BY <1>1
    <3> HIDE DEF bad
    <3> QED BY <1>1, <3>1
  <2>2. PICK m \in bad : \A x \in bad : m >= x
    <3> HIDE DEF bad
    <3> QED BY <1>1, <2>1, GreatestBelow
  <2>3. m \in OnLevel(i) /\ m # HeadNode /\ IsBefore(m, k) /\ f[m] # Pred(k, i) /\ m \in Nat
    BY <2>1 DEF IsBefore
  <2>4. forward[m][i] \in bad /\ forward[m][i] > m
    BY <1>3, <2>3
  <2> HIDE DEF bad
  <2>5. forward[m][i] \in Nat /\ m >= forward[m][i]
    BY <2>1, <2>2, <2>4
  <2> QED BY <2>3, <2>4, <2>5
<1> QED BY <1>3, <1>4

LEMMA AlongIsPred ==
  ASSUME ListTypeOK, AllPointRight, NEW i \in Levels, NEW k \in Key,
         NEW n \in OnLevel(i), IsBefore(n, k)
  PROVE  Along(k, i, n) = Pred(k, i)
<1>1. \E f : IsWalk(f, k, i)
  BY WalkExists
<1>2. PICK f : IsWalk(f, k, i) /\ Along(k, i, n) = f[n]
  <2>1. Along(k, i, n) = (CHOOSE f : IsWalk(f, k, i))[n]
    BY DEF Along, IsWalk
  <2>2. IsWalk(CHOOSE f : IsWalk(f, k, i), k, i)
    BY <1>1
  <2> QED BY <2>1, <2>2
<1> QED BY <1>2, WalkUnique

(* Update: what the walks of a call collect, level by level.               *)
IsUpdate(u, k) ==
  u = [i \in Levels |-> Along(k, i, IF i = MaxHeight - 1 THEN HeadNode ELSE u[i + 1])]

LEMMA FromAbove ==
  ASSUME ListTypeOK, AllPointRight, NEW i \in Levels, NEW k \in Key,
         NEW n, n = IF i = MaxHeight - 1 THEN HeadNode ELSE Pred(k, i + 1)
  PROVE  Along(k, i, n) = Pred(k, i)
<1>1. n \in OnLevel(i) /\ IsBefore(n, k)
  <2>1. CASE i = MaxHeight - 1
    BY <2>1, LevelFacts DEF IsBefore
  <2>2. CASE i # MaxHeight - 1
    <3>1. i + 1 \in Levels /\ i <= i + 1
      BY <2>2, ListAssumption DEF Levels
    <3>2. Pred(k, i + 1) \in OnLevel(i + 1) /\ IsBefore(Pred(k, i + 1), k)
      BY <3>1, PredFacts
    <3>3. OnLevel(i + 1) \subseteq OnLevel(i)
      BY <3>1, LevelFacts
    <3> QED BY <2>2, <3>2, <3>3
  <2> QED BY <2>1, <2>2
<1> QED BY <1>1, AlongIsPred

LEMMA UpdateUnique ==
  ASSUME ListTypeOK, AllPointRight, NEW k \in Key, NEW u, IsUpdate(u, k)
  PROVE  u = [i \in Levels |-> Pred(k, i)]
<1> DEFINE bad == {i \in Levels : u[i] # Pred(k, i)}
<1>1. \A i \in Levels : u[i] = Along(k, i, IF i = MaxHeight - 1 THEN HeadNode ELSE u[i + 1])
  BY DEF IsUpdate
<1>2. ASSUME NEW i \in bad
      PROVE  i + 1 \in bad
  <2>1. CASE i = MaxHeight - 1
    BY <1>1, <2>1, FromAbove
  <2>2. CASE i # MaxHeight - 1
    <3>1. i + 1 \in Levels
      BY <2>2, ListAssumption DEF Levels
    <3>2. u[i + 1] # Pred(k, i + 1)
      BY <1>1, <2>2, FromAbove
    <3> QED BY <3>1, <3>2
  <2> QED BY <2>1, <2>2
<1>3. bad = {}
  <2> SUFFICES ASSUME bad # {} PROVE FALSE
    OBVIOUS
  <2>1. bad \in SUBSET Nat /\ MaxHeight \in Nat /\ \A x \in bad : x <= MaxHeight
    BY ListAssumption DEF Levels
  <2> HIDE DEF bad
  <2>2. PICK i \in bad : \A x \in bad : i >= x
    BY <2>1, GreatestBelow
  <2>3. i + 1 \in bad
    BY <1>2
  <2> QED BY <2>1, <2>2, <2>3
<1>4. \A i \in Levels : u[i] = Pred(k, i)
  BY <1>3
<1>5. u = [i \in Levels |-> u[i]]
  BY DEF IsUpdate
<1> HIDE DEF bad
<1> QED BY <1>4, <1>5

LEMMA UpdateIsPred ==
  ASSUME ListTypeOK, AllPointRight, NEW k \in Key
  PROVE  Update(k) = [i \in Levels |-> Pred(k, i)]
<1> DEFINE u == [i \in Levels |-> Pred(k, i)]
<1>1. IsUpdate(u, k)
  <2>1. ASSUME NEW i \in Levels
        PROVE  u[i] = Along(k, i, IF i = MaxHeight - 1 THEN HeadNode ELSE u[i + 1])
    <3>1. i # MaxHeight - 1 => u[i + 1] = Pred(k, i + 1)
      BY ListAssumption DEF Levels
    <3> QED BY <3>1, FromAbove
  <2>2. u = [i \in Levels |-> u[i]]
    OBVIOUS
  <2> HIDE DEF u
  <2>3. u = [i \in Levels |-> Along(k, i, IF i = MaxHeight - 1 THEN HeadNode ELSE u[i + 1])]
    BY <2>1, <2>2
  <2> QED BY <2>3 DEF IsUpdate
<1>2. Update(k) = CHOOSE w : IsUpdate(w, k)
  BY DEF Update, IsUpdate
<1>3. IsUpdate(Update(k), k)
  BY <1>1, <1>2
<1> QED BY <1>3, UpdateUnique

(* The node a call finds is the first one with a key not below k.          *)
LEMMA AtOrAfterFacts ==
  ASSUME ListTypeOK, AllPointRight, NEW k \in Key
  PROVE  /\ AtOrAfter(k) = forward[Pred(k, 0)][0]
         /\ AtOrAfter(k) # NullPtr => AtOrAfter(k) \in Nodes /\ AtOrAfter(k) >= k
         /\ \A m \in Nodes : m >= k => AtOrAfter(k) # NullPtr /\ AtOrAfter(k) <= m
         /\ AtOrAfter(k) = k <=> k \in Nodes
<1> DEFINE p == Pred(k, 0)
<1>1. 0 \in Levels
  BY ListAssumption DEF Levels
<1>2. AtOrAfter(k) = forward[p][0]
  BY <1>1, UpdateIsPred DEF AtOrAfter
<1>3. /\ p \in OnLevel(0) /\ IsBefore(p, k)
      /\ \A m \in OnLevel(0) \ {HeadNode} : m < k => p # HeadNode /\ m <= p
  BY <1>1, PredFacts
<1> HIDE DEF p
<1>4. PointsRight(p, 0)
  BY <1>1, <1>3 DEF AllPointRight
<1>5. /\ OnLevel(0) = {HeadNode} \cup Nodes /\ HeadNode \notin Nodes /\ NullPtr \notin Nodes
      /\ Nodes \subseteq Nat /\ k \in Nat /\ k # NullPtr
  BY <1>1, NodeFacts, LevelFacts, KeysAreNumbers, ListAssumption
<1>6. After(p, 0) = {m \in Nodes : m >= k}
  <2>1. ASSUME NEW m \in Nodes
        PROVE  (p = HeadNode \/ m > p) <=> m >= k
    <3>1. m \in Nat /\ (p # HeadNode => p \in Nat /\ p < k)
      BY <1>3, <1>5 DEF IsBefore
    <3>2. m < k => p # HeadNode /\ m <= p
      BY <1>3, <1>5
    <3> QED BY <1>5, <3>1, <3>2
  <2> QED BY <1>5, <2>1 DEF After
<1>7. /\ AtOrAfter(k) # NullPtr => AtOrAfter(k) \in Nodes /\ AtOrAfter(k) >= k
      /\ \A m \in Nodes : m >= k => AtOrAfter(k) # NullPtr /\ AtOrAfter(k) <= m
  BY <1>2, <1>4, <1>6 DEF PointsRight
<1>8. AtOrAfter(k) = k <=> k \in Nodes
  <2>1. ASSUME k \in Nodes PROVE AtOrAfter(k) = k
    <3>1. k >= k
      BY <1>5
    <3>2. AtOrAfter(k) # NullPtr /\ AtOrAfter(k) <= k
      BY <1>7, <2>1, <3>1
    <3>3. AtOrAfter(k) \in Nat /\ AtOrAfter(k) >= k
      BY <1>5, <1>7, <3>2
    <3> HIDE DEF p
    <3> QED BY <1>5, <3>2, <3>3
  <2> QED BY <1>5, <1>7, <2>1
<1> QED BY <1>2, <1>7, <1>8 DEF p

----------------------------------------------------------------------------
(* Every call keeps the levels linked.                                     *)

ListInv == ListTypeOK /\ LevelsLinked /\ SizeCounts

LEMMA NodesAreFinite ==
  ASSUME NEW S \in SUBSET Key
  PROVE  IsFiniteSet(S) /\ Cardinality(S) \in Nat
BY KeysAreNumbers, FS_Subset, FS_CardinalityType

(* Linked and Unlinked with Pred for what the walk has collected.          *)
LEMMA LinkedNodes ==
  ASSUME ListTypeOK, AllPointRight, NEW k \in Key, NEW h \in 1 .. MaxHeight
  PROVE  /\ DOMAIN Linked(k, h) = DOMAIN forward \cup {k}
         /\ Linked(k, h)[k] = [i \in 0 .. h - 1 |-> forward[Pred(k, i)][i]]
         /\ \A n \in DOMAIN forward \ {k} :
              Linked(k, h)[n] =
                [i \in DOMAIN forward[n] |->
                   IF i < h /\ Pred(k, i) = n THEN k ELSE forward[n][i]]
<1> DEFINE u == Update(k)
<1>1. /\ \A i \in Levels : u[i] = Pred(k, i)
      /\ \A i \in 0 .. h - 1 : i \in Levels
  BY UpdateIsPred, ListAssumption DEF Levels
<1>2. \A n \in DOMAIN forward : \A i \in DOMAIN forward[n] : i \in Levels
  BY NodeFacts, ListAssumption DEF Levels
<1> HIDE DEF u
<1>3. Linked(k, h) = [n \in DOMAIN forward \cup {k} |->
         IF n = k THEN [i \in 0 .. h - 1 |-> forward[u[i]][i]]
         ELSE [i \in DOMAIN forward[n] |-> IF i < h /\ u[i] = n THEN k ELSE forward[n][i]]]
  BY DEF Linked, u
<1>4. [i \in 0 .. h - 1 |-> forward[u[i]][i]] = [i \in 0 .. h - 1 |-> forward[Pred(k, i)][i]]
  BY <1>1
<1>5. ASSUME NEW n \in DOMAIN forward
      PROVE  [i \in DOMAIN forward[n] |-> IF i < h /\ u[i] = n THEN k ELSE forward[n][i]]
               = [i \in DOMAIN forward[n] |-> IF i < h /\ Pred(k, i) = n THEN k ELSE forward[n][i]]
  BY <1>1, <1>2
<1> QED BY <1>3, <1>4, <1>5

WithLinks(f, k, h) ==
  /\ DOMAIN f = DOMAIN forward \cup {k}
  /\ f[k] = [i \in 0 .. h - 1 |-> f[k][i]]
  /\ DOMAIN f[k] = 0 .. h - 1
  /\ \A i \in 0 .. h - 1 : f[k][i] = forward[Pred(k, i)][i]
  /\ \A n \in DOMAIN forward \ {k} :
       /\ DOMAIN f[n] = DOMAIN forward[n]
       /\ f[n] = [i \in DOMAIN forward[n] |-> f[n][i]]
       /\ \A i \in DOMAIN forward[n] :
            f[n][i] = IF i < h /\ Pred(k, i) = n THEN k ELSE forward[n][i]

LEMMA LinkedForward ==
  ASSUME ListTypeOK, AllPointRight, NEW k \in Key, NEW h \in 1 .. MaxHeight,
         forward' = Linked(k, h)
  PROVE  WithLinks(forward', k, h)
<1> DEFINE f == forward'
<1>1. /\ DOMAIN f = DOMAIN forward \cup {k}
      /\ f[k] = [i \in 0 .. h - 1 |-> forward[Pred(k, i)][i]]
      /\ \A n \in DOMAIN forward \ {k} :
           f[n] = [i \in DOMAIN forward[n] |->
                     IF i < h /\ Pred(k, i) = n THEN k ELSE forward[n][i]]
  <2> HIDE DEF f
  <2>1. f = Linked(k, h)
    BY DEF f
  <2> QED BY <2>1, LinkedNodes
<1> HIDE DEF f
<1>2. ASSUME NEW n \in DOMAIN forward \ {k}
      PROVE  /\ DOMAIN f[n] = DOMAIN forward[n]
             /\ f[n] = [i \in DOMAIN forward[n] |-> f[n][i]]
             /\ \A i \in DOMAIN forward[n] :
                  f[n][i] = IF i < h /\ Pred(k, i) = n THEN k ELSE forward[n][i]
  <2>1. f[n] = [i \in DOMAIN forward[n] |->
                  IF i < h /\ Pred(k, i) = n THEN k ELSE forward[n][i]]
    BY <1>1
  <2> QED BY <2>1
<1>3. /\ f[k] = [i \in 0 .. h - 1 |-> f[k][i]] /\ DOMAIN f[k] = 0 .. h - 1
      /\ \A i \in 0 .. h - 1 : f[k][i] = forward[Pred(k, i)][i]
  <2>1. f[k] = [i \in 0 .. h - 1 |-> forward[Pred(k, i)][i]]
    BY <1>1
  <2> QED BY <2>1
<1>4. WithLinks(f, k, h)
  BY <1>1, <1>2, <1>3 DEF WithLinks
<1> QED BY <1>4 DEF f

LEMMA InsertTypes ==
  ASSUME ListTypeOK, AllPointRight, NEW k \in Key, NEW v \in Value, NEW h \in 1 .. MaxHeight,
         Insert(k, v, h), size \in Nat
  PROVE  ListTypeOK' /\ Nodes' = Nodes \cup {k}
<1>1. WithLinks(forward', k, h)
  BY LinkedForward DEF Insert
<1>2. Nodes' = Nodes \cup {k}
  BY <1>1, NodeFacts, ListAssumption DEF Nodes, WithLinks
<1>3. ASSUME NEW i \in 0 .. h - 1
      PROVE  forward[Pred(k, i)][i] \in Key \cup {NullPtr}
  <2>1. i \in Levels
    BY ListAssumption DEF Levels
  <2>2. Pred(k, i) \in OnLevel(i)
    BY <2>1, PredFacts
  <2> QED BY <2>1, <2>2, LevelFacts
<1>4. ASSUME NEW n \in DOMAIN forward \cup {k}
      PROVE  \E g \in 1 .. MaxHeight : forward'[n] \in [0 .. g - 1 -> Key \cup {NullPtr}]
  <2>1. CASE n = k
    BY <1>1, <1>3, <2>1 DEF WithLinks
  <2>2. CASE n # k
    <3>1. n \in DOMAIN forward \ {k}
      BY <2>2
    <3>2. PICK g \in 1 .. MaxHeight : forward[n] \in [0 .. g - 1 -> Key \cup {NullPtr}]
      BY <3>1, NodeFacts
    <3>3. DOMAIN forward[n] = 0 .. g - 1
      BY <3>2
    <3>4. /\ forward'[n] = [i \in 0 .. g - 1 |-> forward'[n][i]]
          /\ \A i \in 0 .. g - 1 : forward'[n][i] \in {k, forward[n][i]}
      BY <1>1, <3>1, <3>3 DEF WithLinks
    <3>5. forward'[n] \in [0 .. g - 1 -> Key \cup {NullPtr}]
      BY <3>2, <3>4
    <3> QED BY <3>5
  <2> QED BY <2>1, <2>2
<1>5. DOMAIN forward' = {HeadNode} \cup Nodes'
  BY <1>1, <1>2, NodeFacts DEF WithLinks
<1>6. forward' \in [{HeadNode} \cup Nodes' ->
                      UNION {[0 .. g - 1 -> Key \cup {NullPtr}] : g \in 1 .. MaxHeight}]
  <2>1. forward' = [n \in {HeadNode} \cup Nodes' |-> forward'[n]]
    BY <1>5, LinkedForward DEF Insert, Linked
  <2>2. \A n \in {HeadNode} \cup Nodes' :
          forward'[n] \in UNION {[0 .. g - 1 -> Key \cup {NullPtr}] : g \in 1 .. MaxHeight}
    BY <1>4, <1>5, <1>1 DEF WithLinks
  <2> QED BY <2>1, <2>2
<1>7. DOMAIN forward'[HeadNode] = Levels
  <2>1. HeadNode \in DOMAIN forward \ {k}
    BY NodeFacts, ListAssumption
  <2>2. DOMAIN forward[HeadNode] = Levels
    BY DEF ListTypeOK
  <2> QED BY <1>1, <2>1, <2>2 DEF WithLinks
<1>8. value' \in [Nodes' -> Value]
  <2>1. value \in [Nodes -> Value]
    BY DEF ListTypeOK
  <2>2. value' = [n \in Nodes \cup {k} |-> IF n = k THEN v ELSE value[n]]
    BY DEF Insert
  <2> QED BY <1>2, <2>1, <2>2
<1>9. size' \in Nat
  BY DEF Insert
<1>10. Nodes' \subseteq Key
  BY <1>2, NodeFacts
<1> QED BY <1>2, <1>6, <1>7, <1>8, <1>9, <1>10 DEF ListTypeOK, Levels

LEMMA InsertedLevels ==
  ASSUME ListTypeOK, AllPointRight, NEW k \in Key, NEW h \in 1 .. MaxHeight, NEW i \in Levels,
         k \notin Nodes, forward' = Linked(k, h)
  PROVE  OnLevel(i)' = OnLevel(i) \cup (IF i < h THEN {k} ELSE {})
<1>0. WithLinks(forward', k, h)
  BY LinkedForward
<1>1. k \notin DOMAIN forward
  BY NodeFacts, ListAssumption
<1>2. \A n \in DOMAIN forward : DOMAIN forward'[n] = DOMAIN forward[n]
  BY <1>0, <1>1 DEF WithLinks
<1>3. DOMAIN forward'[k] = 0 .. h - 1
  BY <1>0 DEF WithLinks
<1>4. i \in 0 .. h - 1 <=> i < h
  BY ListAssumption DEF Levels
<1>5. DOMAIN forward' = DOMAIN forward \cup {k}
  BY <1>0 DEF WithLinks
<1> QED BY <1>1, <1>2, <1>3, <1>4, <1>5 DEF OnLevel

LEMMA InsertLinks ==
  ASSUME ListTypeOK, AllPointRight, NEW k \in Key, NEW h \in 1 .. MaxHeight,
         k \notin Nodes, forward' = Linked(k, h)
  PROVE  AllPointRight'
<1> SUFFICES ASSUME NEW i \in Levels, NEW n \in OnLevel(i)'
             PROVE  PointsRight(n, i)'
  BY DEF AllPointRight, Levels
<1> DEFINE p == Pred(k, i)
           M == OnLevel(i) \ {HeadNode}
<1>0. WithLinks(forward', k, h)
  BY LinkedForward
<1>1. /\ p \in OnLevel(i) /\ IsBefore(p, k)
      /\ \A m \in M : m < k => p # HeadNode /\ m <= p
  BY PredFacts
<1>2. /\ M \in SUBSET Nat /\ k \in Nat /\ k # NullPtr /\ k # HeadNode /\ k \notin OnLevel(i)
      /\ HeadNode \in OnLevel(i) /\ NullPtr \notin M
  BY NodeFacts, LevelFacts, KeysAreNumbers, ListAssumption
<1>3. i \in Nat /\ h \in Nat
  BY ListAssumption DEF Levels
<1>4. \A m \in OnLevel(i) : PointsRight(m, i)
  BY DEF AllPointRight
<1>5. OnLevel(i) \subseteq DOMAIN forward \ {k} /\ \A m \in OnLevel(i) : i \in DOMAIN forward[m]
  BY <1>2 DEF OnLevel
<1> HIDE DEF p
<1>6. \A m \in OnLevel(i) :
        forward'[m][i] = IF i < h /\ p = m THEN k ELSE forward[m][i]
  <2> TAKE m \in OnLevel(i)
  <2> QED BY <1>0, <1>5 DEF p, WithLinks
<1>7. \A m : After(m, i) = {x \in M : m = HeadNode \/ x > m}
  BY DEF After
<1>8. \A m \in M : m # k /\ (m > k => m \in After(p, i)) /\ (m \in After(p, i) => m > k)
  <2> TAKE m \in M
  <2>1. m \in Nat /\ m # k
    BY <1>2
  <2>2. p # HeadNode => p \in Nat /\ p < k
    BY <1>1, <1>2 DEF IsBefore
  <2>3. m < k => p # HeadNode /\ m <= p
    BY <1>1
  <2>4. m \in After(p, i) <=> (p = HeadNode \/ m > p)
    BY <1>7
  <2> QED BY <1>2, <2>1, <2>2, <2>3, <2>4
<1>9. CASE ~(i < h)
  <2>1. OnLevel(i)' = OnLevel(i)
    BY <1>9, InsertedLevels
  <2>2. After(n, i)' = After(n, i)
    BY <2>1 DEF After
  <2>3. forward'[n][i] = forward[n][i]
    BY <1>6, <1>9, <2>1
  <2> QED BY <1>4, <2>1, <2>2, <2>3 DEF PointsRight
<1>10. CASE i < h
  <2>1. OnLevel(i)' = OnLevel(i) \cup {k}
    BY <1>10, InsertedLevels
  <2>2. After(n, i)' = {x \in M \cup {k} : n = HeadNode \/ x > n}
    BY <1>2, <2>1 DEF After
  <2>3. CASE n = k
    <3>1. forward'[n][i] = forward[p][i]
      <4>1. i \in 0 .. h - 1
        BY <1>3, <1>10
      <4> QED BY <1>0, <2>3, <4>1 DEF p, WithLinks
    <3>2. After(n, i)' = After(p, i)
      <4>1. ~(k > k)
        BY <1>2
      <4> QED BY <1>2, <1>7, <1>8, <2>2, <2>3, <4>1
    <3> QED BY <1>1, <1>4, <3>1, <3>2 DEF PointsRight
  <2>4. CASE n = p
    <3>1. forward'[n][i] = k
      BY <1>1, <1>6, <1>10, <2>4
    <3>2. k \in After(n, i)'
      BY <1>1, <1>2, <2>2, <2>4 DEF IsBefore
    <3>3. \A x \in After(n, i)' : k <= x
      <4> TAKE x \in After(n, i)'
      <4>1. x = k \/ x \in After(p, i)
        BY <1>7, <2>2, <2>4
      <4>2. x \in Nat
        BY <1>2, <1>7, <4>1
      <4> QED BY <1>2, <1>7, <1>8, <4>1, <4>2
    <3> QED BY <1>2, <3>1, <3>2, <3>3 DEF PointsRight
  <2>5. CASE n # k /\ n # p
    <3>1. n \in OnLevel(i) /\ forward'[n][i] = forward[n][i] /\ PointsRight(n, i)
      BY <1>4, <1>6, <2>1, <2>5
    <3>2. CASE n = HeadNode \/ k > n
      <4>1. p \in After(n, i) /\ p \in Nat /\ p < k
        <5>1. p \in M
          BY <1>1, <1>2, <2>5, <3>1, <3>2
        <5>2. n # HeadNode => n \in Nat /\ n <= p
          BY <1>1, <1>2, <3>1, <3>2
        <5>3. p \in Nat /\ p < k
          BY <1>1, <1>2, <5>1 DEF IsBefore
        <5> QED BY <1>7, <2>5, <5>1, <5>2, <5>3
      <4>2. forward[n][i] \in After(n, i) /\ forward[n][i] <= p
            /\ \A m \in After(n, i) : forward[n][i] <= m
        BY <3>1, <4>1 DEF PointsRight
      <4>3. forward[n][i] \in M /\ forward[n][i] \in Nat /\ forward[n][i] <= k
        BY <1>2, <1>7, <4>1, <4>2
      <4>4. forward[n][i] \in After(n, i)'
        BY <1>7, <2>2, <4>2
      <4>5. \A x \in After(n, i)' : x = k \/ x \in After(n, i)
        BY <1>7, <2>2
      <4> QED BY <1>2, <3>1, <4>2, <4>3, <4>4, <4>5 DEF PointsRight
    <3>3. CASE ~(n = HeadNode \/ k > n)
      <4>1. After(n, i)' = After(n, i)
        BY <1>7, <2>2, <3>3
      <4> QED BY <3>1, <4>1 DEF PointsRight
    <3> QED BY <3>2, <3>3
  <2> QED BY <2>3, <2>4, <2>5
<1> QED BY <1>9, <1>10

(* A pointer of level i that leads to k is the one of Pred(k, i), and      *)
(* there is one on exactly the levels k reaches: del stops at its height.  *)
LEMMA PointersTo ==
  ASSUME ListTypeOK, AllPointRight, NEW k \in Nodes, NEW i \in Levels
  PROVE  /\ forward[Pred(k, i)][i] = k <=> k \in OnLevel(i)
         /\ \A n \in OnLevel(i) : forward[n][i] = k => n = Pred(k, i)
<1> DEFINE p == Pred(k, i)
           M == OnLevel(i) \ {HeadNode}
<1>1. k \in Key /\ k \in Nat /\ k # NullPtr /\ k # HeadNode
  BY NodeFacts, KeysAreNumbers, ListAssumption
<1>2. /\ p \in OnLevel(i) /\ IsBefore(p, k)
      /\ \A m \in M : m < k => p # HeadNode /\ m <= p
  BY <1>1, PredFacts
<1>3. M \in SUBSET Nat /\ NullPtr \notin M
  BY NodeFacts, LevelFacts
<1>4. \A m \in OnLevel(i) : PointsRight(m, i)
  BY DEF AllPointRight
<1>5. \A m : After(m, i) = {x \in M : m = HeadNode \/ x > m}
  BY DEF After
<1> HIDE DEF p
<1>6. ASSUME k \in OnLevel(i)
      PROVE  forward[p][i] = k
  <2>1. k \in After(p, i)
    BY <1>1, <1>2, <1>5, <1>6 DEF IsBefore
  <2>2. forward[p][i] \in After(p, i) /\ forward[p][i] <= k
    BY <1>2, <1>4, <2>1 DEF PointsRight
  <2> DEFINE x == forward[p][i]
  <2>3. x \in M /\ x \in Nat /\ (p = HeadNode \/ x > p) /\ x <= k
    BY <1>3, <1>5, <2>2
  <2> HIDE DEF x
  <2>4. ~(x < k)
    <3>1. x < k => p # HeadNode /\ x <= p
      BY <1>2, <2>3
    <3>2. p # HeadNode => p \in Nat
      BY <1>2, <1>3
    <3> QED BY <2>3, <3>1, <3>2
  <2> QED BY <1>1, <2>3, <2>4 DEF x
<1>7. ASSUME NEW n \in OnLevel(i), forward[n][i] = k
      PROVE  k \in OnLevel(i) /\ n = p
  <2>1. k \in After(n, i) /\ \A m \in After(n, i) : k <= m
    BY <1>1, <1>4, <1>7 DEF PointsRight
  <2>2. k \in M /\ (n = HeadNode \/ k > n)
    BY <1>5, <2>1
  <2>3. n = p
    <3> SUFFICES ASSUME n # p PROVE FALSE
      OBVIOUS
    <3>1. n # HeadNode => n \in Nat /\ n < k /\ p # HeadNode /\ n <= p
      BY <1>1, <1>2, <1>3, <2>2
    <3>2. p # HeadNode => p \in M /\ p \in Nat /\ p < k
      BY <1>2, <1>3 DEF IsBefore
    <3>3. p # HeadNode /\ p \in After(n, i)
      BY <1>5, <3>1, <3>2
    <3>4. k <= p
      BY <2>1, <3>3
    <3> QED BY <1>1, <3>2, <3>3, <3>4
  <2> QED BY <2>2, <2>3
<1> QED BY <1>2, <1>6, <1>7 DEF p

WithoutLinks(f, k) ==
  /\ DOMAIN f = DOMAIN forward \ {k}
  /\ \A n \in DOMAIN forward \ {k} :
       /\ DOMAIN f[n] = DOMAIN forward[n]
       /\ f[n] = [i \in DOMAIN forward[n] |-> f[n][i]]
       /\ \A i \in DOMAIN forward[n] :
            f[n][i] = IF k \in OnLevel(i) /\ Pred(k, i) = n THEN forward[k][i] ELSE forward[n][i]

LEMMA UnlinkedNodes ==
  ASSUME ListTypeOK, AllPointRight, NEW k \in Nodes
  PROVE  WithoutLinks(Unlinked(k), k)
<1> DEFINE u   == Update(k)
           off == {i \in Levels : forward[u[i]][i] # k}
           top == Min({MaxHeight} \cup off)
           f   == [n \in DOMAIN forward \ {k} |->
                     [i \in DOMAIN forward[n] |->
                        IF i < top /\ u[i] = n THEN forward[k][i] ELSE forward[n][i]]]
<1>1. k \in Key
  BY NodeFacts
<1>2. \A i \in Levels : u[i] = Pred(k, i)
  BY <1>1, UpdateIsPred
<1>3. \A n \in DOMAIN forward : \A i \in DOMAIN forward[n] : i \in Levels
  BY NodeFacts, ListAssumption DEF Levels
<1>4. Unlinked(k) = f
  BY DEF Unlinked
<1> HIDE DEF u
<1>5. off = {i \in Levels : k \notin OnLevel(i)}
  BY <1>2, PointersTo
<1>6. \A i \in Levels : i < top <=> k \in OnLevel(i)
  <2>1. {MaxHeight} \cup off \in SUBSET Nat /\ Levels \subseteq Nat
    BY ListAssumption DEF Levels
  <2> HIDE DEF off
  <2>2. /\ top \in {MaxHeight} \cup off /\ top \in Nat
        /\ \A x \in {MaxHeight} \cup off : top <= x
    <3>1. {MaxHeight} \cup off # {}
      OBVIOUS
    <3> QED BY <2>1, <3>1, MinOf
  <2> HIDE DEF top
  <2> TAKE i \in Levels
  <2>3. ASSUME k \notin OnLevel(i) PROVE ~(i < top)
    <3>1. top <= i
      BY <1>5, <2>2, <2>3
    <3> QED BY <2>1, <2>2, <3>1
  <2>4. ASSUME k \in OnLevel(i), top <= i PROVE FALSE
    <3>1. i \in Nat /\ MaxHeight \in Nat /\ i < MaxHeight
      BY ListAssumption DEF Levels
    <3>2. top \in off
      BY <2>2, <2>4, <3>1
    <3>3. top \in Levels /\ k \notin OnLevel(top)
      BY <1>5, <3>2
    <3>4. k \in OnLevel(top)
      BY <2>4, <3>3, LevelFacts
    <3> QED BY <3>3, <3>4
  <2> QED BY <2>1, <2>2, <2>3, <2>4
<1> HIDE DEF top
<1>7. ASSUME NEW n \in DOMAIN forward \ {k}
      PROVE  /\ DOMAIN f[n] = DOMAIN forward[n]
             /\ f[n] = [i \in DOMAIN forward[n] |-> f[n][i]]
             /\ \A i \in DOMAIN forward[n] :
                  f[n][i] = IF k \in OnLevel(i) /\ Pred(k, i) = n
                            THEN forward[k][i] ELSE forward[n][i]
  <2>1. f[n] = [i \in DOMAIN forward[n] |->
                  IF i < top /\ u[i] = n THEN forward[k][i] ELSE forward[n][i]]
    OBVIOUS
  <2> HIDE DEF f
  <2>2. DOMAIN f[n] = DOMAIN forward[n]
    BY <2>1
  <2>3. f[n] = [i \in DOMAIN forward[n] |-> f[n][i]]
    BY <2>1
  <2>4. ASSUME NEW i \in DOMAIN forward[n]
        PROVE  f[n][i] = IF k \in OnLevel(i) /\ Pred(k, i) = n
                         THEN forward[k][i] ELSE forward[n][i]
    <3>1. i \in Levels
      BY <1>3
    <3>2. (i < top <=> k \in OnLevel(i)) /\ u[i] = Pred(k, i)
      BY <1>2, <1>6, <3>1
    <3>3. f[n][i] = IF i < top /\ u[i] = n THEN forward[k][i] ELSE forward[n][i]
      BY <2>1
    <3> QED BY <3>2, <3>3
  <2> QED BY <2>2, <2>3, <2>4
<1>8. DOMAIN f = DOMAIN forward \ {k}
  OBVIOUS
<1> HIDE DEF f
<1>9. WithoutLinks(f, k)
  BY <1>7, <1>8 DEF WithoutLinks
<1> QED BY <1>4, <1>9

LEMMA DelTypes ==
  ASSUME ListTypeOK, AllPointRight, NEW k \in Nodes, Del(k), size - 1 \in Nat
  PROVE  ListTypeOK' /\ Nodes' = Nodes \ {k}
<1>1. WithoutLinks(forward', k)
  BY UnlinkedNodes DEF Del
<1>2. k \in Key /\ k # HeadNode /\ HeadNode \in DOMAIN forward
  BY NodeFacts, ListAssumption
<1>3. Nodes' = Nodes \ {k}
  BY <1>1 DEF Nodes, WithoutLinks
<1>4. DOMAIN forward' = {HeadNode} \cup Nodes'
  BY <1>1, <1>2, <1>3, NodeFacts DEF WithoutLinks
<1>5. ASSUME NEW n \in DOMAIN forward'
      PROVE  \E g \in 1 .. MaxHeight : forward'[n] \in [0 .. g - 1 -> Key \cup {NullPtr}]
  <2>1. n \in DOMAIN forward \ {k}
    BY <1>1 DEF WithoutLinks
  <2>2. PICK g \in 1 .. MaxHeight : forward[n] \in [0 .. g - 1 -> Key \cup {NullPtr}]
    BY <2>1, NodeFacts
  <2>3. DOMAIN forward[n] = 0 .. g - 1
    BY <2>2
  <2>4. /\ forward'[n] = [i \in 0 .. g - 1 |-> forward'[n][i]]
        /\ \A i \in 0 .. g - 1 :
             forward'[n][i] = IF k \in OnLevel(i) /\ Pred(k, i) = n
                              THEN forward[k][i] ELSE forward[n][i]
    BY <1>1, <2>1, <2>3 DEF WithoutLinks
  <2>5. ASSUME NEW i \in 0 .. g - 1
        PROVE  forward'[n][i] \in Key \cup {NullPtr}
    <3>1. i \in Levels
      BY ListAssumption DEF Levels
    <3>2. k \in OnLevel(i) => forward[k][i] \in Key \cup {NullPtr}
      BY <3>1, LevelFacts
    <3>3. forward[n][i] \in Key \cup {NullPtr}
      BY <2>2
    <3> QED BY <2>4, <3>2, <3>3
  <2>6. forward'[n] \in [0 .. g - 1 -> Key \cup {NullPtr}]
    BY <2>4, <2>5
  <2> QED BY <2>6
<1>6. forward' \in [{HeadNode} \cup Nodes' ->
                      UNION {[0 .. g - 1 -> Key \cup {NullPtr}] : g \in 1 .. MaxHeight}]
  <2>1. forward' = [n \in {HeadNode} \cup Nodes' |-> forward'[n]]
    BY <1>4 DEF Del, Unlinked
  <2>2. \A n \in {HeadNode} \cup Nodes' :
          forward'[n] \in UNION {[0 .. g - 1 -> Key \cup {NullPtr}] : g \in 1 .. MaxHeight}
    BY <1>4, <1>5
  <2> QED BY <2>1, <2>2
<1>7. DOMAIN forward'[HeadNode] = Levels
  BY <1>1, <1>2 DEF ListTypeOK, WithoutLinks
<1>8. value' \in [Nodes' -> Value]
  <2>1. value \in [Nodes -> Value]
    BY DEF ListTypeOK
  <2>2. value' = [n \in Nodes \ {k} |-> value[n]]
    BY DEF Del, Restrict
  <2> QED BY <1>3, <2>1, <2>2
<1>9. size' \in Nat
  BY DEF Del
<1>10. Nodes' \subseteq Key
  BY <1>3, NodeFacts
<1> QED BY <1>3, <1>6, <1>7, <1>8, <1>9, <1>10 DEF ListTypeOK, Levels

LEMMA DelLinks ==
  ASSUME ListTypeOK, AllPointRight, NEW k \in Nodes, forward' = Unlinked(k)
  PROVE  AllPointRight'
<1> SUFFICES ASSUME NEW i \in Levels, NEW n \in OnLevel(i)'
             PROVE  PointsRight(n, i)'
  BY DEF AllPointRight, Levels
<1> DEFINE p == Pred(k, i)
           M == OnLevel(i) \ {HeadNode}
<1>0. WithoutLinks(forward', k)
  <2>1. WithoutLinks(Unlinked(k), k)
    BY UnlinkedNodes
  <2> QED BY <2>1
<1>1. OnLevel(i)' = OnLevel(i) \ {k}
  BY <1>0 DEF OnLevel, WithoutLinks
<1>2. /\ M \in SUBSET Nat /\ k \in Nat /\ k \in Key /\ k # NullPtr /\ k # HeadNode
      /\ NullPtr \notin M
  BY NodeFacts, LevelFacts, KeysAreNumbers, ListAssumption
<1>3. /\ p \in OnLevel(i) /\ IsBefore(p, k)
      /\ \A m \in M : m < k => p # HeadNode /\ m <= p
  BY <1>2, PredFacts
<1>4. \A m \in OnLevel(i) : PointsRight(m, i)
  BY DEF AllPointRight
<1>5. \A m : After(m, i) = {x \in M : m = HeadNode \/ x > m}
  BY DEF After
<1>6. After(n, i)' = {x \in M \ {k} : n = HeadNode \/ x > n}
  BY <1>1 DEF After
<1>7. n \in OnLevel(i) /\ n # k
  BY <1>1
<1> HIDE DEF p
<1>8. forward'[n][i] = IF k \in OnLevel(i) /\ p = n THEN forward[k][i] ELSE forward[n][i]
  BY <1>0, <1>7 DEF p, WithoutLinks, OnLevel
<1>9. k \in OnLevel(i) <=> k \in M
  BY <1>2
<1>10. CASE k \in OnLevel(i) /\ p = n
  <2>1. forward'[n][i] = forward[k][i] /\ PointsRight(k, i)
    BY <1>4, <1>8, <1>10
  <2>2. After(n, i)' = After(k, i)
    <3>1. ASSUME NEW x \in M
          PROVE  x # k /\ (n = HeadNode \/ x > n) <=> x > k
      <4>1. x \in Nat /\ (n # HeadNode => n \in Nat /\ n < k)
        BY <1>2, <1>3, <1>7, <1>10 DEF IsBefore
      <4>2. x < k => n # HeadNode /\ x <= n
        BY <1>3, <1>10
      <4> QED BY <1>2, <4>1, <4>2
    <3> QED BY <1>2, <1>5, <1>6, <3>1
  <2> QED BY <2>1, <2>2 DEF PointsRight
<1>11. CASE k \in OnLevel(i) /\ p # n
  <2>1. forward'[n][i] = forward[n][i] /\ PointsRight(n, i)
    BY <1>4, <1>7, <1>8, <1>11
  <2>2. forward[n][i] # k
    BY <1>7, <1>11, PointersTo DEF p
  <2>3. After(n, i)' = After(n, i) \ {k}
    BY <1>5, <1>6
  <2>4. CASE forward[n][i] = NullPtr
    BY <2>1, <2>3, <2>4 DEF PointsRight
  <2>5. CASE forward[n][i] # NullPtr
    BY <2>1, <2>2, <2>3, <2>5 DEF PointsRight
  <2> QED BY <2>4, <2>5
<1>12. CASE k \notin OnLevel(i)
  <2>1. After(n, i)' = After(n, i)
    BY <1>5, <1>6, <1>12
  <2>2. forward'[n][i] = forward[n][i] /\ PointsRight(n, i)
    BY <1>4, <1>7, <1>8, <1>12
  <2> QED BY <2>1, <2>2 DEF PointsRight
<1> QED BY <1>10, <1>11, <1>12

LEMMA InvFactsOfList ==
  ASSUME ListInv
  PROVE  /\ ListTypeOK /\ AllPointRight
         /\ IsFiniteSet(Nodes) /\ size = Cardinality(Nodes) /\ size \in Nat
BY LinkedPointsRight, NodesAreFinite, NodeFacts DEF ListInv, SizeCounts

LEMMA ListInvFrom == ListTypeOK /\ AllPointRight /\ size = Cardinality(Nodes) => ListInv
BY LinkedPointsRight DEF ListInv, SizeCounts

LEMMA EmptyListInv ==
  ASSUME ListInit
  PROVE  ListInv /\ Nodes = {}
<1> USE DEF ListInit, EmptyList
<1>1. Nodes = {} /\ DOMAIN forward = {HeadNode}
  BY DEF Nodes
<1>2. Levels = 0 .. MaxHeight - 1 /\ MaxHeight \in 1 .. MaxHeight
  BY ListAssumption DEF Levels
<1>3. forward[HeadNode] \in [0 .. MaxHeight - 1 -> Key \cup {NullPtr}]
  BY <1>2
<1>4. forward \in [{HeadNode} \cup Nodes ->
                     UNION {[0 .. h - 1 -> Key \cup {NullPtr}] : h \in 1 .. MaxHeight}]
  BY <1>1, <1>2, <1>3
<1>5. ListTypeOK
  BY <1>1, <1>2, <1>4 DEF ListTypeOK
<1>6. ASSUME NEW i \in Levels, NEW n \in OnLevel(i)
      PROVE  PointsRight(n, i)
  <2>1. n = HeadNode /\ forward[n][i] = NullPtr /\ OnLevel(i) \subseteq {HeadNode}
    BY <1>1 DEF OnLevel
  <2> QED BY <2>1 DEF PointsRight, After
<1>7. Cardinality({}) = 0
  BY FS_EmptySet
<1> QED BY <1>1, <1>5, <1>6, <1>7, ListInvFrom DEF AllPointRight

LEMMA InitAgain == ListInit => ListInv /\ Nodes = {}
BY EmptyListInv

LEMMA CleanKeepsList ==
  ASSUME Clean
  PROVE  ListInv' /\ Nodes' = {}
<1>1. ListInit'
  BY DEF Clean, ListInit, EmptyList, Levels
<1>2. ListInit' => (ListInv /\ Nodes = {})'
  BY InitAgain, PTL
<1> QED BY <1>1, <1>2

LEMMA ListInvNext ==
  ASSUME ListTypeOK', AllPointRight', size' = Cardinality(Nodes')
  PROVE  ListInv'
<1>1. (ListTypeOK /\ AllPointRight /\ size = Cardinality(Nodes))' => ListInv'
  BY ListInvFrom, PTL
<1> QED BY <1>1

LEMMA InsertKeeps ==
  ASSUME ListInv, NEW k \in Key, NEW v \in Value, NEW h \in 1 .. MaxHeight, Insert(k, v, h)
  PROVE  ListInv' /\ Nodes' = Nodes \cup {k} /\ k \notin Nodes
<1>1. ListTypeOK /\ AllPointRight /\ IsFiniteSet(Nodes) /\ size = Cardinality(Nodes) /\ size \in Nat
  BY InvFactsOfList
<1>2. k \notin Nodes
  BY <1>1, AtOrAfterFacts DEF Insert
<1>3. ListTypeOK' /\ Nodes' = Nodes \cup {k}
  BY <1>1, InsertTypes
<1>4. AllPointRight'
  BY <1>1, <1>2, InsertLinks DEF Insert
<1>5. size' = Cardinality(Nodes')
  BY <1>1, <1>2, <1>3, FS_AddElement DEF Insert
<1> QED BY <1>2, <1>3, <1>4, <1>5, ListInvNext

LEMMA DelKeepsList ==
  ASSUME ListInv, NEW k \in Key, Del(k)
  PROVE  ListInv' /\ k \in Nodes /\ Nodes' = Nodes \ {k}
<1>1. ListTypeOK /\ AllPointRight /\ IsFiniteSet(Nodes) /\ size = Cardinality(Nodes) /\ size \in Nat
  BY InvFactsOfList
<1>2. k \in Nodes
  BY <1>1, AtOrAfterFacts DEF Del
<1>3. Cardinality(Nodes \ {k}) = size - 1 /\ size - 1 \in Nat
  <2>1. IsFiniteSet(Nodes \ {k}) /\ Cardinality(Nodes \ {k}) = Cardinality(Nodes) - 1
    BY <1>1, <1>2, FS_RemoveElement
  <2>2. Cardinality(Nodes \ {k}) \in Nat
    BY <2>1, FS_CardinalityType
  <2> QED BY <1>1, <2>1, <2>2
<1>4. ListTypeOK' /\ Nodes' = Nodes \ {k}
  BY <1>1, <1>2, <1>3, DelTypes
<1>5. AllPointRight'
  BY <1>1, <1>2, DelLinks DEF Del
<1>6. size' = Cardinality(Nodes')
  BY <1>1, <1>3, <1>4 DEF Del
<1> QED BY <1>2, <1>4, <1>5, <1>6, ListInvNext

LEMMA OverwriteKeeps ==
  ASSUME ListInv, NEW k \in Key, NEW v \in Value, Overwrite(k, v)
  PROVE  ListInv' /\ k \in Nodes /\ Nodes' = Nodes
<1>1. ListTypeOK /\ AllPointRight /\ size = Cardinality(Nodes) /\ size \in Nat
  BY InvFactsOfList
<1>2. k \in Nodes
  BY <1>1, AtOrAfterFacts DEF Overwrite
<1>3. forward' = forward /\ size' = size /\ value' = [value EXCEPT ![k] = v]
  BY DEF Overwrite
<1>4. Nodes' = Nodes
  BY <1>3 DEF Nodes
<1>5. ListTypeOK'
  BY <1>1, <1>3, <1>4 DEF ListTypeOK, Levels
<1>6. AllPointRight'
  BY <1>1, <1>3 DEF AllPointRight, PointsRight, After, OnLevel, Levels
<1> QED BY <1>1, <1>2, <1>3, <1>4, <1>5, <1>6, ListInvNext

LEMMA SameList ==
  ASSUME ListInv, UNCHANGED listVars
  PROVE  ListInv' /\ Nodes' = Nodes
BY DEF ListInv, listVars, ListTypeOK, LevelsLinked, SizeCounts, OnLevel, Nodes, Levels

LEMMA ListStepKeeps ==
  ASSUME ListInv, [ListNext]_listVars
  PROVE  ListInv'
BY CleanKeepsList, InsertKeeps, DelKeepsList, OverwriteKeeps, SameList DEF ListNext, Put

(* The inductive invariant of the skip list.                               *)
LEMMA ListInvariant == ListSpec => []ListInv
<1>1. ListInit => ListInv
  BY EmptyListInv
<1>2. ListInv /\ [ListNext]_listVars => ListInv'
  BY ListStepKeeps
<1> QED BY <1>1, <1>2, PTL DEF ListSpec

----------------------------------------------------------------------------
(* What the calls promise.                                                 *)

LEMMA GetFacts ==
  ASSUME ListInv, NEW k \in Key
  PROVE  /\ AtOrAfter(k) = k <=> k \in Nodes
         /\ Get(k) = IF k \in Nodes THEN value[k] ELSE Empty
BY InvFactsOfList, AtOrAfterFacts DEF Get

(* The map the list stands for is the function of its values.              *)
AnswersOfList == [k \in {j \in Key : AtOrAfter(j) = j} |-> Get(k)]

LEMMA ListIsMap == ListInv => AnswersOfList = value
<1> SUFFICES ASSUME ListInv PROVE AnswersOfList = value
  OBVIOUS
<1>1. Nodes \subseteq Key /\ value \in [Nodes -> Value]
  BY InvFactsOfList, NodeFacts DEF ListTypeOK
<1>2. {j \in Key : AtOrAfter(j) = j} = Nodes
  BY <1>1, GetFacts
<1>3. \A k \in Nodes : Get(k) = value[k]
  BY <1>1, GetFacts
<1>4. AnswersOfList = [k \in Nodes |-> Get(k)]
  BY <1>2 DEF AnswersOfList
<1> QED BY <1>1, <1>3, <1>4

LEMMA CallsAct ==
  ASSUME ListInv, ListInv'
  PROVE  /\ Clean => Mem!Clean
         /\ \A k \in Key : Del(k) => Mem!Del(k)
         /\ \A k \in Key, v \in Value : Put(k, v) => Mem!Put(k, v)
<1>1. AnswersOfList = value
  BY ListIsMap
<1>2. AnswersOfList' = value'
  <2>1. ListInv' => (AnswersOfList = value)'
    BY ListIsMap, PTL
  <2> QED BY <2>1
<1>3. value \in [Nodes -> Value]
  BY DEF ListInv, ListTypeOK
<1>4. ASSUME Clean PROVE Mem!Clean
  <2>1. value' = [n \in {} |-> Empty]
    BY <1>4 DEF Clean
  <2>2. value' = [n \in {} |-> {}]
    BY <2>1
  <2> QED BY <1>2, <2>2 DEF Mem!Clean, AnswersOfList
<1>5. ASSUME NEW k \in Key, Del(k) PROVE Mem!Del(k)
  <2>1. value' = [n \in DOMAIN value \ {k} |-> value[n]]
    BY <1>3, <1>5 DEF Del, Restrict
  <2> QED BY <1>1, <1>2, <2>1 DEF Mem!Del, AnswersOfList
<1>6. ASSUME NEW k \in Key, NEW v \in Value, Put(k, v) PROVE Mem!Put(k, v)
  <2>1. value' = [n \in DOMAIN value \cup {k} |-> IF n = k THEN v ELSE value[n]]
    <3>1. CASE Overwrite(k, v)
      <4>1. k \in Nodes /\ value' = [value EXCEPT ![k] = v]
        BY <3>1, OverwriteKeeps DEF Overwrite
      <4> QED BY <1>3, <4>1
    <3>2. CASE \E h \in 1 .. MaxHeight : Insert(k, v, h)
      BY <1>3, <3>2 DEF Insert
    <3> QED BY <1>6, <3>1, <3>2 DEF Put
  <2> QED BY <1>1, <1>2, <2>1 DEF Mem!Put, AnswersOfList
<1> QED BY <1>4, <1>5, <1>6

----------------------------------------------------------------------------
(* Reading the list.                                                       *)

LEMMA FiniteHasGreatest ==
  ASSUME NEW S \in SUBSET Key
  PROVE  \E b \in Nat : \A x \in S : x <= b
<1> DEFINE Bounded(T) == \E b \in Nat : \A x \in T : x <= b
           bad == {n \in Nat : \E T \in SUBSET Key : Cardinality(T) = n /\ ~Bounded(T)}
<1>1. SUFFICES ASSUME ~Bounded(S) PROVE FALSE
  OBVIOUS
<1>2. Cardinality(S) \in bad
  BY <1>1, NodesAreFinite
<1> HIDE DEF Bounded
<1>3. PICK n \in bad : \A m \in bad : n <= m
  <2>1. bad \in SUBSET Nat /\ bad # {}
    BY <1>2
  <2> HIDE DEF bad
  <2> QED BY <2>1, LeastKey
<1>4. PICK T \in SUBSET Key : Cardinality(T) = n /\ ~Bounded(T)
  OBVIOUS
<1>5. PICK x \in T : TRUE
  <2>1. T # {}
    BY <1>4 DEF Bounded
  <2> QED BY <2>1
<1>6. T \ {x} \in SUBSET Key /\ Cardinality(T \ {x}) = n - 1 /\ n - 1 \in Nat /\ n \in Nat
  <2>1. IsFiniteSet(T) /\ IsFiniteSet(T \ {x})
    BY NodesAreFinite
  <2>2. Cardinality(T \ {x}) = n - 1
    BY <1>4, <1>5, <2>1, FS_RemoveElement
  <2> QED BY <2>1, <2>2, FS_CardinalityType
<1>7. Bounded(T \ {x})
  <2>1. n - 1 \notin bad
    <3> HIDE DEF bad
    <3> QED BY <1>3, <1>6
  <2> QED BY <1>6, <2>1
<1>8. PICK b \in Nat : \A y \in T \ {x} : y <= b
  BY <1>7 DEF Bounded
<1>9. x \in Nat
  BY KeysAreNumbers
<1>10. Bounded(T)
  <2>1. \A y \in T : y \in Nat
    BY KeysAreNumbers
  <2>2. \A y \in T : y <= b + x
    BY <1>8, <1>9, <2>1
  <2>3. b + x \in Nat
    BY <1>9
  <2> QED BY <2>2, <2>3 DEF Bounded
<1> QED BY <1>4, <1>10

(* The function PairsFrom defines, on the nodes from the key c on.         *)
From(c) == {m \in Nodes : m >= c} \cup {NullPtr}

IsReader(f, D, top) ==
  f = [m \in D |-> IF m = NullPtr \/ m > top THEN <<>>
                   ELSE <<<<m, value[m]>>>> \o f[forward[m][0]]]

LEMMA NextOfNode ==
  ASSUME ListInv, NEW m \in Nodes
  PROVE  LET next == forward[m][0]
         IN  /\ next # NullPtr => next \in Nodes /\ next > m
             /\ \A k \in Nodes : k > m => next # NullPtr /\ next <= k
<1>1. ListTypeOK /\ AllPointRight /\ 0 \in Levels
  BY InvFactsOfList, ListAssumption DEF Levels
<1>2. OnLevel(0) = {HeadNode} \cup Nodes /\ HeadNode \notin Nodes
  BY <1>1, NodeFacts, LevelFacts
<1>3. PointsRight(m, 0) /\ m # HeadNode
  BY <1>1, <1>2 DEF AllPointRight
<1>4. After(m, 0) = {k \in Nodes : k > m}
  BY <1>2, <1>3 DEF After
<1> QED BY <1>3, <1>4 DEF PointsRight

LEMMA ReaderBelow ==
  ASSUME ListInv, NEW top \in Key, NEW c \in Nat, NEW f, IsReader(f, From(c + 1), top)
  PROVE  \E g : IsReader(g, From(c), top)
<1>1. Nodes \subseteq Nat /\ NullPtr \notin Nodes
  BY InvFactsOfList, NodeFacts
<1>2. From(c) = From(c + 1) \cup (IF c \in Nodes THEN {c} ELSE {})
  <2>1. \A m \in Nodes : m >= c <=> m >= c + 1 \/ m = c
    BY <1>1
  <2>2. c >= c
    OBVIOUS
  <2> QED BY <2>1, <2>2 DEF From
<1>3. CASE c \notin Nodes
  BY <1>2, <1>3
<1>4. CASE c \in Nodes
  <2>1. c \notin From(c + 1) /\ c # NullPtr
    BY <1>1, <1>4 DEF From
  <2>2. forward[c][0] \in From(c + 1)
    <3> DEFINE x == forward[c][0]
    <3>1. x # NullPtr => x \in Nodes /\ x > c
      BY <1>4, NextOfNode
    <3> HIDE DEF x
    <3>2. ASSUME x # NullPtr PROVE x \in Nodes /\ x >= c + 1
      <4>1. x \in Nat /\ c \in Nat
        BY <1>1, <3>1, <3>2
      <4> QED BY <3>1, <3>2, <4>1
    <3> QED BY <3>2 DEF From, x
  <2> DEFINE s == IF c > top THEN <<>> ELSE <<<<c, value[c]>>>> \o f[forward[c][0]]
             g == [m \in From(c) |-> IF m = c THEN s ELSE f[m]]
  <2>3. ASSUME NEW m \in From(c)
        PROVE  g[m] = IF m = NullPtr \/ m > top THEN <<>>
                      ELSE <<<<m, value[m]>>>> \o g[forward[m][0]]
    <3>1. CASE m = c
      <4>1. g[forward[m][0]] = f[forward[m][0]]
        BY <1>2, <2>1, <2>2, <3>1
      <4> QED BY <2>1, <3>1, <4>1
    <3>2. CASE m # c
      <4>1. m \in From(c + 1)
        BY <1>2, <3>2
      <4>2. f[m] = IF m = NullPtr \/ m > top THEN <<>>
                   ELSE <<<<m, value[m]>>>> \o f[forward[m][0]]
        BY <4>1 DEF IsReader
      <4>3. m # NullPtr => forward[m][0] \in From(c) /\ forward[m][0] # c
        <5> SUFFICES ASSUME m # NullPtr PROVE forward[m][0] \in From(c) /\ forward[m][0] # c
          OBVIOUS
        <5>1. m \in Nodes /\ m \in Nat /\ m >= c + 1
          BY <1>1, <4>1 DEF From
        <5>2. forward[m][0] # NullPtr => forward[m][0] \in Nodes /\ forward[m][0] > m
          BY <5>1, NextOfNode
        <5>3. CASE forward[m][0] = NullPtr
          BY <2>1, <5>3 DEF From
        <5>4. CASE forward[m][0] # NullPtr
          <6> DEFINE x == forward[m][0]
          <6>1. x \in Nodes /\ x \in Nat /\ x > m
            BY <1>1, <5>2, <5>4
          <6> HIDE DEF x
          <6>2. x >= c /\ x # c
            BY <5>1, <6>1
          <6> QED BY <6>1, <6>2 DEF From, x
        <5> QED BY <5>3, <5>4
      <4>4. g[m] = f[m] /\ (m # NullPtr => g[forward[m][0]] = f[forward[m][0]])
        BY <3>2, <4>3
      <4> HIDE DEF g
      <4> QED BY <4>2, <4>4
    <3> QED BY <3>1, <3>2
  <2>4. g = [m \in From(c) |-> g[m]]
    OBVIOUS
  <2> HIDE DEF g
  <2>5. g = [m \in From(c) |-> IF m = NullPtr \/ m > top THEN <<>>
                               ELSE <<<<m, value[m]>>>> \o g[forward[m][0]]]
    BY <2>3, <2>4
  <2> QED BY <2>5 DEF IsReader
<1> QED BY <1>3, <1>4

LEMMA ReaderExists ==
  ASSUME ListInv, NEW top \in Key
  PROVE  \E f : IsReader(f, Nodes \cup {NullPtr}, top)
<1> DEFINE bad == {c \in Nat : ~ \E f : IsReader(f, From(c), top)}
<1>1. Nodes \subseteq Nat /\ Nodes \subseteq Key /\ NullPtr \notin Nodes
  BY InvFactsOfList, NodeFacts
<1>2. PICK b \in Nat : \A x \in Nodes : x <= b
  BY <1>1, FiniteHasGreatest
<1>3. \A c \in bad : c <= b
  <2> SUFFICES ASSUME NEW c \in Nat, c > b PROVE c \notin bad
    OBVIOUS
  <2>1. From(c) = {NullPtr}
    <3>1. \A m \in Nodes : ~(m >= c)
      <4> TAKE m \in Nodes
      <4>1. m \in Nat /\ m <= b
        BY <1>1, <1>2
      <4> QED BY <4>1
    <3> QED BY <3>1 DEF From
  <2> DEFINE f == [m \in From(c) |-> <<>>]
  <2>2. f = [m \in From(c) |-> IF m = NullPtr \/ m > top THEN <<>>
                               ELSE <<<<m, value[m]>>>> \o f[forward[m][0]]]
    BY <2>1
  <2>3. IsReader(f, From(c), top)
    BY <2>2 DEF IsReader
  <2> QED BY <2>3
<1>4. bad = {}
  <2> SUFFICES ASSUME bad # {} PROVE FALSE
    OBVIOUS
  <2>1. bad \in SUBSET Nat
    OBVIOUS
  <2>2. PICK c \in bad : \A x \in bad : c >= x
    <3> HIDE DEF bad
    <3> QED BY <1>3, <2>1, GreatestBelow
  <2>3. c \in Nat /\ c + 1 \in Nat /\ ~(c >= c + 1)
    OBVIOUS
  <2>4. c + 1 \notin bad
    <3> HIDE DEF bad
    <3> QED BY <2>2, <2>3
  <2>5. PICK f : IsReader(f, From(c + 1), top)
    BY <2>3, <2>4
  <2>6. \E g : IsReader(g, From(c), top)
    BY <2>3, <2>5, ReaderBelow
  <2> QED BY <2>6
<1>5. From(0) = Nodes \cup {NullPtr}
  <2>1. \A m \in Nodes : m >= 0
    BY <1>1
  <2> QED BY <2>1 DEF From
<1>6. 0 \notin bad
  <2> HIDE DEF bad
  <2> QED BY <1>4
<1> QED BY <1>5, <1>6

(* What is read from the node n on: each pair up to the key top once, in   *)
(* ascending order.                                                        *)
Reads(s, n, top) ==
  /\ s \in Seq(Nodes \X Value)
  /\ \A i, j \in 1 .. Len(s) : i < j => s[i][1] < s[j][1]
  /\ \A i \in 1 .. Len(s) :
       /\ s[i] = <<s[i][1], value[s[i][1]]>>
       /\ n # NullPtr /\ n <= s[i][1] /\ s[i][1] <= top
  /\ n # NullPtr => \A k \in Nodes : n <= k /\ k <= top => \E i \in 1 .. Len(s) : s[i] = <<k, value[k]>>

LEMMA Prepended ==
  ASSUME NEW S, NEW a \in S, NEW t \in Seq(S)
  PROVE  LET s == <<a>> \o t
         IN  /\ s \in Seq(S) /\ Len(s) = Len(t) + 1 /\ s[1] = a
             /\ \A i \in 1 .. Len(t) : s[i + 1] = t[i]
             /\ \A i \in 1 .. Len(s) : i = 1 \/ (i - 1 \in 1 .. Len(t) /\ s[i] = t[i - 1])
OBVIOUS

LEMMA ReadsOne ==
  ASSUME ListInv, NEW top \in Key, NEW n \in Nodes, n <= top,
         NEW t, Reads(t, forward[n][0], top)
  PROVE  Reads(<<<<n, value[n]>>>> \o t, n, top)
<1> DEFINE s    == <<<<n, value[n]>>>> \o t
           next == forward[n][0]
<1>1. /\ Nodes \subseteq Nat /\ NullPtr \notin Nodes /\ top \in Nat
      /\ value \in [Nodes -> Value]
  BY InvFactsOfList, NodeFacts, KeysAreNumbers DEF ListTypeOK
<1>2. /\ next # NullPtr => next \in Nodes /\ next > n
      /\ \A k \in Nodes : k > n => next # NullPtr /\ next <= k
  BY NextOfNode
<1>3. t \in Seq(Nodes \X Value) /\ <<n, value[n]>> \in Nodes \X Value
  BY <1>1 DEF Reads
<1>4. /\ s \in Seq(Nodes \X Value) /\ Len(s) = Len(t) + 1 /\ s[1] = <<n, value[n]>>
      /\ \A i \in 1 .. Len(t) : s[i + 1] = t[i]
      /\ \A i \in 1 .. Len(s) : i = 1 \/ (i - 1 \in 1 .. Len(t) /\ s[i] = t[i - 1])
  BY <1>3, Prepended
<1>5. Len(t) \in Nat /\ n \in Nat
  BY <1>1, <1>3
<1> HIDE DEF s, next
<1>6. \A i \in 1 .. Len(t) :
        /\ t[i] = <<t[i][1], value[t[i][1]]>>
        /\ t[i][1] \in Nat /\ next # NullPtr /\ next <= t[i][1] /\ t[i][1] <= top
        /\ n < t[i][1]
  <2> TAKE i \in 1 .. Len(t)
  <2>1. /\ t[i] = <<t[i][1], value[t[i][1]]>>
        /\ next # NullPtr /\ next <= t[i][1] /\ t[i][1] <= top
    BY DEF Reads, next
  <2>2. t[i] \in Nodes \X Value
    BY <1>3
  <2>3. t[i][1] \in Nat /\ next \in Nat /\ next > n
    BY <1>1, <1>2, <2>1, <2>2
  <2> QED BY <1>5, <2>1, <2>3
<1>7. \A i \in 1 .. Len(s) :
        /\ s[i] = <<s[i][1], value[s[i][1]]>>
        /\ n # NullPtr /\ n <= s[i][1] /\ s[i][1] <= top
        /\ s[i][1] \in Nat /\ (i # 1 => n < s[i][1])
  <2> TAKE i \in 1 .. Len(s)
  <2>1. CASE i = 1
    BY <1>1, <1>4, <1>5, <2>1
  <2>2. CASE i # 1
    BY <1>1, <1>4, <1>5, <1>6, <2>2
  <2> QED BY <2>1, <2>2
<1>8. \A i, j \in 1 .. Len(s) : i < j => s[i][1] < s[j][1]
  <2> TAKE i, j \in 1 .. Len(s)
  <2> HAVE i < j
  <2>1. j # 1 /\ j - 1 \in 1 .. Len(t) /\ s[j] = t[j - 1]
    BY <1>4, <1>5
  <2>2. CASE i = 1
    BY <1>4, <1>7, <2>1, <2>2
  <2>3. CASE i # 1
    <3>1. i - 1 \in 1 .. Len(t) /\ s[i] = t[i - 1] /\ i - 1 < j - 1
      BY <1>4, <1>5, <2>3
    <3> QED BY <2>1, <3>1 DEF Reads
  <2> QED BY <2>2, <2>3
<1>9. ASSUME NEW k \in Nodes, n <= k, k <= top
      PROVE  \E i \in 1 .. Len(s) : s[i] = <<k, value[k]>>
  <2>1. CASE k = n
    <3>1. 1 \in 1 .. Len(s)
      BY <1>4, <1>5
    <3> QED BY <1>4, <2>1, <3>1
  <2>2. CASE k # n
    <3>1. k > n
      BY <1>1, <1>5, <1>9, <2>2
    <3>2. next # NullPtr /\ next <= k
      BY <1>2, <3>1
    <3>3. PICK i \in 1 .. Len(t) : t[i] = <<k, value[k]>>
      BY <1>9, <3>2 DEF Reads, next
    <3>4. i + 1 \in 1 .. Len(s) /\ s[i + 1] = <<k, value[k]>>
      BY <1>4, <1>5, <3>3
    <3> QED BY <3>4
  <2> QED BY <2>1, <2>2
<1>10. Reads(s, n, top)
  BY <1>4, <1>7, <1>8, <1>9 DEF Reads
<1> QED BY <1>10 DEF s

LEMMA ReaderReads ==
  ASSUME ListInv, NEW top \in Key, NEW f, IsReader(f, Nodes \cup {NullPtr}, top),
         NEW n \in Nodes \cup {NullPtr}
  PROVE  Reads(f[n], n, top)
<1> DEFINE bad == {m \in Nodes : ~Reads(f[m], m, top)}
<1>1. Nodes \subseteq Nat /\ Nodes \subseteq Key /\ NullPtr \notin Nodes /\ top \in Nat
  BY InvFactsOfList, NodeFacts, KeysAreNumbers
<1>2. PICK b \in Nat : \A x \in Nodes : x <= b
  BY <1>1, FiniteHasGreatest
<1>3. \A m \in Nodes \cup {NullPtr} :
        f[m] = IF m = NullPtr \/ m > top THEN <<>>
               ELSE <<<<m, value[m]>>>> \o f[forward[m][0]]
  BY DEF IsReader
<1>4. Reads(f[NullPtr], NullPtr, top)
  <2>1. f[NullPtr] = <<>>
    BY <1>3
  <2> QED BY <2>1 DEF Reads
<1>5. bad = {}
  <2> SUFFICES ASSUME bad # {} PROVE FALSE
    OBVIOUS
  <2>1. bad \in SUBSET Nat /\ \A x \in bad : x <= b
    BY <1>1, <1>2
  <2>2. PICK m \in bad : \A x \in bad : m >= x
    <3> HIDE DEF bad
    <3> QED BY <2>1, GreatestBelow
  <2>3. m \in Nodes /\ m \in Nat /\ ~Reads(f[m], m, top)
    BY <1>1
  <2>4. CASE m > top
    <3>1. f[m] = <<>>
      BY <1>3, <2>3, <2>4
    <3>2. \A k \in Nodes : ~(m <= k /\ k <= top)
      BY <1>1, <2>3, <2>4
    <3>3. Reads(f[m], m, top)
      BY <3>1, <3>2 DEF Reads
    <3> QED BY <2>3, <3>3
  <2>5. CASE ~(m > top)
    <3>1. f[m] = <<<<m, value[m]>>>> \o f[forward[m][0]] /\ m <= top
      <4>1. m \in Nodes \cup {NullPtr} /\ m # NullPtr
        BY <1>1, <2>3
      <4>2. f[m] = <<<<m, value[m]>>>> \o f[forward[m][0]]
        BY <1>3, <2>5, <4>1
      <4>3. m <= top
        BY <1>1, <2>3, <2>5
      <4> QED BY <4>2, <4>3
    <3>2. Reads(f[forward[m][0]], forward[m][0], top)
      <4>1. forward[m][0] # NullPtr => forward[m][0] \in Nodes /\ forward[m][0] > m
        BY <2>3, NextOfNode
      <4>2. forward[m][0] # NullPtr => forward[m][0] \notin bad
        <5> DEFINE x == forward[m][0]
        <5>1. x # NullPtr => x \in Nat /\ x > m
          BY <1>1, <4>1
        <5> HIDE DEF bad, x
        <5>2. x # NullPtr => ~(m >= x)
          BY <2>3, <5>1
        <5>3. x # NullPtr => x \notin bad
          BY <2>2, <5>2
        <5> QED BY <5>3 DEF x
      <4> QED BY <1>4, <4>1, <4>2
    <3>3. Reads(f[m], m, top)
      BY <2>3, <3>1, <3>2, ReadsOne
    <3> QED BY <2>3, <3>3
  <2> QED BY <2>4, <2>5
<1> QED BY <1>4, <1>5

LEMMA PairsFromReads ==
  ASSUME ListInv, NEW top \in Key, NEW n \in Nodes \cup {NullPtr}
  PROVE  Reads(PairsFrom(n, top), n, top)
<1> DEFINE D == Nodes \cup {NullPtr}
<1>1. \E f : IsReader(f, D, top)
  BY ReaderExists
<1>2. PairsFrom(n, top) = (CHOOSE f : IsReader(f, D, top))[n]
  BY DEF PairsFrom, IsReader
<1>3. IsReader(CHOOSE f : IsReader(f, D, top), D, top)
  BY <1>1
<1> QED BY <1>2, <1>3, ReaderReads

----------------------------------------------------------------------------
(* Scans.                                                                  *)

LEMMA ScanReads ==
  ASSUME ListInv, NEW a \in Key, NEW b \in Key
  PROVE  LET s == Scan(a, b)
         IN  /\ s \in Seq(Nodes \X Value)
             /\ \A i, j \in 1 .. Len(s) : i < j => s[i][1] < s[j][1]
             /\ Range(s) = {<<k, Get(k)>> : k \in {j \in Nodes : a <= j /\ j <= b}}
<1> DEFINE n == AtOrAfter(a)
           s == Scan(a, b)
           K == {j \in Nodes : a <= j /\ j <= b}
<1>1. /\ ListTypeOK /\ AllPointRight
      /\ Nodes \subseteq Nat /\ Nodes \subseteq Key /\ a \in Nat /\ b \in Nat /\ NullPtr \notin Nodes
  BY InvFactsOfList, NodeFacts, KeysAreNumbers
<1>2. /\ n # NullPtr => n \in Nodes /\ n >= a
      /\ \A m \in Nodes : m >= a => n # NullPtr /\ n <= m
  BY <1>1, AtOrAfterFacts
<1> HIDE DEF n
<1>3. Reads(s, n, b)
  BY <1>2, PairsFromReads DEF Scan, n
<1> HIDE DEF s
<1>4. \A k \in Nodes : Get(k) = value[k]
  BY <1>1, GetFacts
<1>5. DOMAIN s = 1 .. Len(s) /\ s \in Seq(Nodes \X Value)
  BY <1>3 DEF Reads
<1>6. ASSUME NEW i \in DOMAIN s
      PROVE  s[i] \in {<<k, Get(k)>> : k \in K}
  <2>1. s[i] \in Nodes \X Value
    BY <1>5
  <2>2. s[i] = <<s[i][1], value[s[i][1]]>> /\ n # NullPtr /\ n <= s[i][1] /\ s[i][1] <= b
    BY <1>3, <1>5 DEF Reads
  <2> DEFINE k == s[i][1]
  <2>3. k \in Nodes
    BY <2>1
  <2>4. s[i] = <<k, Get(k)>> /\ n \in Nodes /\ n >= a /\ n <= k /\ k <= b
    BY <1>2, <1>4, <2>2, <2>3
  <2> HIDE DEF k
  <2>5. k \in K
    <3>1. n \in Nat /\ k \in Nat
      BY <1>1, <2>3, <2>4
    <3> QED BY <1>1, <2>3, <2>4, <3>1
  <2> QED BY <2>4, <2>5
<1>7. ASSUME NEW k \in K
      PROVE  \E i \in DOMAIN s : s[i] = <<k, Get(k)>>
  <2>1. k \in Nodes /\ k \in Nat /\ a <= k /\ k <= b
    BY <1>1
  <2>2. n # NullPtr /\ n <= k
    BY <1>1, <1>2, <2>1
  <2>3. \E i \in 1 .. Len(s) : s[i] = <<k, value[k]>>
    BY <1>3, <2>1, <2>2 DEF Reads
  <2> QED BY <1>4, <1>5, <2>1, <2>3
<1>8. Range(s) = {<<k, Get(k)>> : k \in K}
  BY <1>6, <1>7 DEF Range
<1>9. \A i, j \in 1 .. Len(s) : i < j => s[i][1] < s[j][1]
  BY <1>3 DEF Reads
<1> QED BY <1>5, <1>8, <1>9 DEF s

(* getList is the scan of everything.                                      *)
LEMMA AllKeys ==
  ASSUME Key # {}
  PROVE  /\ Min(Key) \in Key /\ Max(Key) \in Key
         /\ \A k \in Key : Min(Key) <= k /\ k <= Max(Key)
<1>1. PICK b \in Nat : \A k \in Key : k <= b
  BY FiniteHasGreatest
<1>2. Key \in SUBSET Nat
  BY KeysAreNumbers
<1>3. /\ Min(Key) \in Key /\ \A k \in Key : Min(Key) <= k
  BY <1>2, MinOf
<1>4. Max(Key) \in Key /\ \A k \in Key : Max(Key) >= k
  BY <1>1, <1>2, MaxOf
<1>5. \A k \in Key : k \in Nat
  BY <1>2
<1> QED BY <1>3, <1>4, <1>5

LEMMA GetListScans ==
  ASSUME ListInv, Key # {}
  PROVE  GetList = Scan(Min(Key), Max(Key))
<1> DEFINE least == Min(Key)
<1>1. least \in Key /\ \A k \in Key : least <= k
  BY AllKeys
<1>2. ListTypeOK /\ AllPointRight /\ 0 \in Levels
  BY InvFactsOfList, ListAssumption DEF Levels
<1> HIDE DEF least
<1>3. Pred(least, 0) = HeadNode
  <2>1. OnLevel(0) = {HeadNode} \cup Nodes /\ Nodes \subseteq Key
    BY <1>2, NodeFacts, LevelFacts
  <2>2. \A m \in Nodes : ~(m < least)
    <3> TAKE m \in Nodes
    <3>1. m \in Nat /\ least \in Nat /\ least <= m
      BY <1>1, <2>1, KeysAreNumbers
    <3> QED BY <3>1
  <2>3. Earlier(least, 0) = {}
    BY <2>1, <2>2 DEF Earlier
  <2> QED BY <2>3 DEF Pred
<1>4. AtOrAfter(least) = forward[HeadNode][0]
  BY <1>1, <1>2, <1>3, AtOrAfterFacts
<1> QED BY <1>4 DEF GetList, Scan, least

LEMMA ScansAreRight == ListInv => ScansAscend
<1> SUFFICES ASSUME ListInv, NEW a \in Key, NEW b \in Key
             PROVE  LET list == Scan(a, b)
                    IN  /\ \A i, j \in DOMAIN list : i < j => list[i][1] < list[j][1]
                        /\ Range(list) = {<<k, Get(k)>> : k \in {j \in Nodes : a <= j /\ j <= b}}
                        /\ a = Min(Key) /\ b = Max(Key) => GetList = list
  BY DEF ScansAscend
<1> DEFINE list == Scan(a, b)
<1>1. /\ list \in Seq(Nodes \X Value)
      /\ \A i, j \in 1 .. Len(list) : i < j => list[i][1] < list[j][1]
      /\ Range(list) = {<<k, Get(k)>> : k \in {j \in Nodes : a <= j /\ j <= b}}
  BY ScanReads
<1>2. a = Min(Key) /\ b = Max(Key) => GetList = list
  BY GetListScans
<1> HIDE DEF list
<1>3. DOMAIN list = 1 .. Len(list)
  BY <1>1
<1> QED BY <1>1, <1>2, <1>3 DEF list

----------------------------------------------------------------------------
(* Flushing.                                                               *)

(* The list getList reads has one pair for each node, and the tuples made  *)
(* of it are a table the binary searches can work on.                      *)
LEMMA FlushedTable ==
  ASSUME ListInv, Key # {}
  PROVE  /\ KeyOffsetTable \in Seq(Tuple) /\ Sorted(KeyOffsetTable)
         /\ Len(KeyOffsetTable) = size
         /\ \A k \in Nodes : \E i \in DOMAIN KeyOffsetTable :
              KeyOffsetTable[i] = [key |-> k, payload |-> Get(k)]
<1> DEFINE s == GetList
           n == Len(s)
           f == [i \in 1 .. n |-> s[i][1]]
<1>1. /\ Nodes \subseteq Key /\ Nodes \subseteq Nat /\ IsFiniteSet(Nodes)
      /\ size = Cardinality(Nodes) /\ value \in [Nodes -> Value]
  BY InvFactsOfList, NodeFacts DEF ListTypeOK
<1>2. /\ s \in Seq(Nodes \X Value)
      /\ \A i, j \in 1 .. Len(s) : i < j => s[i][1] < s[j][1]
      /\ Range(s) = {<<k, Get(k)>> : k \in Nodes}
  <2>1. Min(Key) \in Key /\ Max(Key) \in Key
    BY AllKeys
  <2>2. {j \in Nodes : Min(Key) <= j /\ j <= Max(Key)} = Nodes
    BY <1>1, AllKeys
  <2> QED BY <2>1, <2>2, GetListScans, ScanReads
<1> HIDE DEF s
<1>3. n \in Nat /\ DOMAIN s = 1 .. n /\ \A i \in 1 .. n : s[i] \in Nodes \X Value
  BY <1>2
<1>4. \A i \in 1 .. n : s[i][1] \in Nodes /\ s[i][2] \in Value
  BY <1>3
<1>5. \A k \in Nodes : \E i \in 1 .. n : s[i] = <<k, Get(k)>>
  BY <1>2, <1>3 DEF Range
<1>6. f \in Bijection(1 .. n, Nodes)
  <2>1. f \in [1 .. n -> Nodes]
    BY <1>4
  <2>2. \A i, j \in 1 .. n : f[i] = f[j] => i = j
    <3> TAKE i, j \in 1 .. n
    <3>1. i < j => f[i] < f[j]
      BY <1>2
    <3>2. j < i => f[j] < f[i]
      BY <1>2
    <3>3. f[i] \in Nat /\ f[j] \in Nat
      BY <1>1, <1>4
    <3> HIDE DEF f
    <3> QED BY <3>1, <3>2, <3>3
  <2>3. \A k \in Nodes : \E i \in 1 .. n : f[i] = k
    BY <1>5
  <2> HIDE DEF f
  <2>4. f \in Surjection(1 .. n, Nodes)
    BY <2>1, <2>3 DEF Surjection
  <2>5. f \in Injection(1 .. n, Nodes)
    BY <2>1, <2>2 DEF Injection, IsInjective
  <2> QED BY <2>4, <2>5 DEF Bijection
<1>7. n = size
  <2>1. ExistsBijection(1 .. n, Nodes)
    BY <1>6 DEF ExistsBijection
  <2>2. IsFiniteSet(1 .. n) /\ Cardinality(1 .. n) = n
    BY <1>3, FS_Interval
  <2> QED BY <1>1, <2>1, <2>2, FS_Bijection
<1>8. KeyOffsetTable = [i \in 1 .. n |-> [key |-> s[i][1], payload |-> s[i][2]]]
  BY <1>3 DEF KeyOffsetTable, s
<1>9. \A i \in 1 .. n : [key |-> s[i][1], payload |-> s[i][2]] \in Tuple
  BY <1>1, <1>4, FlushAssumption DEF Tuple
<1> DEFINE t == KeyOffsetTable
<1>10. /\ t \in Seq(Tuple) /\ Len(t) = n /\ DOMAIN t = 1 .. n
       /\ \A i \in 1 .. n : t[i] = [key |-> s[i][1], payload |-> s[i][2]]
  BY <1>3, <1>8, <1>9
<1> HIDE DEF t, n
<1>11. Sorted(t)
  <2>1. \A i \in 1 .. n : t[i].key = s[i][1]
    BY <1>10
  <2> QED BY <1>2, <1>10, <2>1 DEF Sorted, n
<1>12. ASSUME NEW k \in Nodes
       PROVE  \E i \in DOMAIN t : t[i] = [key |-> k, payload |-> Get(k)]
  <2>1. PICK i \in 1 .. n : s[i] = <<k, Get(k)>>
    BY <1>5
  <2>2. t[i] = [key |-> k, payload |-> Get(k)]
    BY <1>10, <2>1
  <2> QED BY <1>10, <2>2
<1> QED BY <1>7, <1>10, <1>11, <1>12 DEF t

LEMMA ListUnderFlush == FlushNext => [ListNext]_listVars
BY DEF FlushNext, MemTableCall, FlushMemTable, TableCall, SearchOnly, ListNext

LEMMA SearchUnderFlush ==
  ASSUME ListInv, SearchTypeOK, [FlushNext]_flushVars
  PROVE  [SearchNext]_searchVars
<1>1. CASE FlushMemTable
  <2>1. Key # {}
    BY DEF SearchTypeOK
  <2>2. KeyOffsetTable \in Seq(Tuple) /\ Sorted(KeyOffsetTable)
    BY <2>1, FlushedTable
  <2> QED BY <1>1, <2>2 DEF FlushMemTable, SearchNext
<1>2. CASE TableCall \/ SearchOnly
  BY <1>2 DEF TableCall, SearchOnly, SearchNext
<1>3. CASE MemTableCall \/ UNCHANGED flushVars
  BY <1>3 DEF MemTableCall, flushVars
<1> QED BY <1>1, <1>2, <1>3 DEF FlushNext

(* The MemTable and the table it is flushed into are a skip list and a     *)
(* searched table: what is shown of either holds of the two together.      *)
LEMMA FlushInvariant == FlushSpec => [](ListInv /\ SearchTypeOK)
<1> DEFINE Inv == ListInv /\ SearchTypeOK
<1>1. FlushInit => Inv
  BY EmptyListInv, TypeInit DEF FlushInit
<1>2. Inv /\ [FlushNext]_flushVars => Inv'
  <2> SUFFICES ASSUME Inv, [FlushNext]_flushVars PROVE Inv'
    OBVIOUS
  <2>1. [ListNext]_listVars
    BY ListUnderFlush DEF flushVars
  <2>2. [SearchNext]_searchVars
    BY SearchUnderFlush
  <2> QED BY <2>1, <2>2, ListStepKeeps, TypeStep
<1> QED BY <1>1, <1>2, PTL DEF FlushSpec

----------------------------------------------------------------------------
(* The theorems.                                                           *)

(* No call of the skip list loses the value of a node, leaves a pointer to *)
(* a node that is gone or changes the height of the head.                  *)
THEOREM ListTypeCorrect == ListSpec => []ListTypeOK
<1>1. ListInv => ListTypeOK
  BY DEF ListInv
<1> QED BY <1>1, ListInvariant, PTL

(* put and del keep every level a chain of exactly the nodes that reach    *)
(* it, in ascending order, for every set of keys, every height of the list *)
(* and whatever heights the nodes draw.                                    *)
THEOREM LevelsStayLinked == ListSpec => []LevelsLinked
<1>1. ListInv => LevelsLinked
  BY DEF ListInv
<1> QED BY <1>1, ListInvariant, PTL

(* The size that makes KVStore::put flush is the number of keys.           *)
THEOREM SizeIsRight == ListSpec => []SizeCounts
<1>1. ListInv => SizeCounts
  BY DEF ListInv
<1> QED BY <1>1, ListInvariant, PTL

(* scan and getList read each pair they should once and in ascending       *)
(* order.                                                                  *)
THEOREM ScansAreComplete == ListSpec => []ScansAscend
BY ScansAreRight, ListInvariant, PTL

(* The skip list implements the map the store takes its MemTable for: put, *)
(* del and clean change the answers of get and of no other key.            *)
THEOREM ListImplementsMap == ListSpec => CallsTakeEffect
<1> DEFINE Effect == /\ Clean => Mem!Clean
                     /\ \A k \in Key :
                          /\ Del(k) => Mem!Del(k)
                          /\ \A v \in Value : Put(k, v) => Mem!Put(k, v)
<1>1. ListInit => ListInv
  BY EmptyListInv
<1>2. ListInv /\ [ListNext]_listVars => ListInv'
  BY ListStepKeeps
<1>3. ListInv /\ ListInv' => [Effect]_<<forward, value, size>>
  BY CallsAct
<1> HIDE DEF Effect
<1>4. ListSpec => [][Effect]_<<forward, value, size>>
  BY <1>1, <1>2, <1>3, PTL DEF ListSpec
<1> QED BY <1>4 DEF CallsTakeEffect, Effect

(* A flush writes one tuple for each key of the MemTable, with the value   *)
(* get found there, and nothing else.                                      *)
THEOREM FlushesAreComplete == FlushSpec => FlushKeepsPairs
<1> DEFINE Kept == FlushMemTable =>
                     /\ Len(item') = size
                     /\ \A k \in Nodes : \E i \in DOMAIN item' :
                          item'[i] = [key |-> k, payload |-> Get(k)]
<1>1. ListInv /\ SearchTypeOK => [Kept]_flushVars
  <2> SUFFICES ASSUME ListInv, SearchTypeOK, FlushMemTable
               PROVE  Kept
    OBVIOUS
  <2>1. Key # {}
    BY DEF SearchTypeOK
  <2>2. item' = KeyOffsetTable
    BY DEF FlushMemTable, Load
  <2> QED BY <2>1, <2>2, FlushedTable
<1> HIDE DEF Kept
<1>2. FlushSpec => [][Kept]_flushVars
  BY <1>1, FlushInvariant, PTL DEF FlushSpec
<1> QED BY <1>2 DEF FlushKeepsPairs, Kept

(* So the tables flushes make are tables getOffset and scanOffset search   *)
(* as the theorems on them say.                                            *)
THEOREM FlushedTablesAreSearched == FlushSpec => ListSpec /\ SearchSpec /\ [](GetCorrect /\ ScanCorrect)
<1>1. FlushInit => ListInit /\ SearchInit
  BY DEF FlushInit
<1>2. [FlushNext]_flushVars => [ListNext]_listVars
  BY ListUnderFlush DEF flushVars
<1>3. ListInv /\ SearchTypeOK /\ [FlushNext]_flushVars => [SearchNext]_searchVars
  BY SearchUnderFlush
<1>4. FlushSpec => ListSpec
  BY <1>1, <1>2, PTL DEF FlushSpec, ListSpec
<1>5. FlushSpec => SearchSpec
  BY <1>1, <1>3, FlushInvariant, PTL DEF FlushSpec, SearchSpec
<1> QED BY <1>4, <1>5, GetIsCorrect, ScanIsCorrect, PTL
=============================================================================
