------------------------- MODULE Persistence_proofs -------------------------
(***************************************************************************)
(* Theorems about Persistence.                                             *)
(***************************************************************************)
EXTENDS Persistence, KeyIndex_proofs

----------------------------------------------------------------------------
(* Sorted sets of tables.                                                  *)

(* Sorted(S) lists every table of S once, in the order of Before.          *)
LEMMA SortedFacts ==
  ASSUME NEW S \in SUBSET Table, IsFiniteSet(S), Comparable(S)
  PROVE  /\ Cardinality(S) \in Nat
         /\ \A i \in 1 .. Cardinality(S) : Sorted(S)[i] \in S
         /\ \A t \in S : \E i \in 1 .. Cardinality(S) : Sorted(S)[i] = t
         /\ \A i, j \in 1 .. Cardinality(S) :
              i < j => Before(Sorted(S)[i], Sorted(S)[j])
         /\ \A i, j \in 1 .. Cardinality(S) : Sorted(S)[i] = Sorted(S)[j] => i = j
<1> DEFINE n        == Cardinality(S)
           Below(t) == {u \in S : Before(u, t)}
           rank(t)  == Cardinality(Below(t))
           at(i)    == CHOOSE t \in S : rank(t) = i - 1
<1>1. n \in Nat
  BY FS_CardinalityType
<1>2. \A t \in S : IsFiniteSet(Below(t)) /\ rank(t) \in Nat
  <2> TAKE t \in S
  <2>1. Below(t) \in SUBSET S
    OBVIOUS
  <2> HIDE DEF Below
  <2> QED BY <2>1, FS_Subset, FS_CardinalityType
<1>3. \A t \in S : ~Before(t, t)
  BY TableKeys DEF Before
<1>4. ASSUME NEW t \in S
      PROVE  rank(t) \in 0 .. n - 1
  <2>1. Below(t) \in SUBSET (S \ {t})
    BY <1>3
  <2>2. IsFiniteSet(S \ {t}) /\ Cardinality(S \ {t}) = n - 1
    BY FS_RemoveElement
  <2> HIDE DEF Below
  <2>3. rank(t) <= n - 1
    BY <2>1, <2>2, FS_Subset
  <2> QED BY <1>1, <1>2, <2>3
<1>5. ASSUME NEW t \in S, NEW u \in S, Before(t, u)
      PROVE  rank(t) < rank(u)
  <2>1. Below(t) \cup {t} \in SUBSET Below(u)
    <3>1. \A v \in Below(t) : Before(v, u)
      BY <1>5, BeforeTransitive
    <3> QED BY <1>5, <3>1
  <2>2. t \notin Below(t)
    BY <1>3
  <2> HIDE DEF Below
  <2>3. Cardinality(Below(t) \cup {t}) = rank(t) + 1
    BY <1>2, <2>2, FS_AddElement
  <2>4. Cardinality(Below(t) \cup {t}) <= rank(u)
    BY <1>2, <2>1, FS_Subset
  <2> QED BY <1>2, <2>3, <2>4
<1> HIDE DEF Below
<1>6. ASSUME NEW t \in S, NEW u \in S, rank(t) = rank(u)
      PROVE  t = u
  <2>1. t = u \/ Before(t, u) \/ Before(u, t)
    BY DEF Comparable
  <2>2. rank(t) \in Nat /\ rank(u) \in Nat
    BY <1>2
  <2> HIDE DEF rank
  <2> QED BY <1>5, <1>6, <2>1, <2>2
<1>7. ASSUME NEW r \in 0 .. n - 1
      PROVE  \E t \in S : rank(t) = r
  <2> DEFINE place == [t \in S |-> rank(t)]
  <2>1. SUFFICES ASSUME \A t \in S : rank(t) # r PROVE FALSE
    OBVIOUS
  <2> HIDE DEF rank
  <2>2. place \in [S -> (0 .. n - 1) \ {r}]
    BY <1>4, <2>1
  <2>3. \A t, u \in S : t # u => place[t] # place[u]
    BY <1>6
  <2>4. IsFiniteSet(0 .. n - 1) /\ Cardinality(0 .. n - 1) = n
    BY <1>1, FS_Interval
  <2>5. /\ IsFiniteSet((0 .. n - 1) \ {r})
        /\ Cardinality((0 .. n - 1) \ {r}) = n - 1
    BY <2>4, FS_RemoveElement
  <2> HIDE DEF place
  <2>6. Cardinality((0 .. n - 1) \ {r}) < Cardinality(S)
    BY <1>1, <2>5
  <2> QED BY <2>2, <2>3, <2>5, <2>6, FS_PigeonHole
<1>8. \A i \in 1 .. n : Sorted(S)[i] = at(i)
  BY DEF Sorted, rank, Below
<1> HIDE DEF rank
<1>9. \A i \in 1 .. n : at(i) \in S /\ rank(at(i)) = i - 1
  <2> TAKE i \in 1 .. n
  <2>1. i - 1 \in 0 .. n - 1
    BY <1>1
  <2>2. \E t \in S : rank(t) = i - 1
    BY <1>7, <2>1
  <2> QED BY <2>2
<1>10. \A t \in S : rank(t) + 1 \in 1 .. n /\ at(rank(t) + 1) = t
  <2> TAKE t \in S
  <2>1. rank(t) \in 0 .. n - 1
    BY <1>4
  <2>2. rank(t) + 1 \in 1 .. n /\ (rank(t) + 1) - 1 = rank(t)
    BY <1>1, <2>1
  <2>3. at(rank(t) + 1) \in S /\ rank(at(rank(t) + 1)) = rank(t)
    BY <1>9, <2>2
  <2> HIDE DEF at
  <2> QED BY <1>6, <2>2, <2>3
<1> HIDE DEF at
<1>11. ASSUME NEW i \in 1 .. n, NEW j \in 1 .. n, i < j
       PROVE  Before(at(i), at(j))
  <2>1. at(i) \in S /\ at(j) \in S /\ rank(at(i)) < rank(at(j))
    BY <1>1, <1>9, <1>11
  <2>2. rank(at(i)) \in Nat /\ rank(at(j)) \in Nat
    BY <1>2, <2>1
  <2>3. at(i) = at(j) \/ Before(at(i), at(j)) \/ Before(at(j), at(i))
    BY <2>1 DEF Comparable
  <2> QED BY <1>5, <2>1, <2>2, <2>3
<1>12. \A i, j \in 1 .. n : at(i) = at(j) => i = j
  BY <1>1, <1>9
<1> QED BY <1>1, <1>8, <1>9, <1>10, <1>11, <1>12

(* A finite set of comparable tables has a youngest one.                   *)
LEMMA YoungestOfComparable ==
  ASSUME NEW S \in SUBSET Table, S # {}, IsFiniteSet(S), Comparable(S)
  PROVE  Youngest(S) \in S /\ \A u \in S \ {Youngest(S)} : Before(u, Youngest(S))
<1> DEFINE n == Cardinality(S)
<1>1. n \in Nat /\ n # 0
  BY FS_CardinalityType, FS_EmptySet
<1>2. n \in 1 .. n
  BY <1>1
<1>3. Sorted(S)[n] \in S
  BY <1>2, SortedFacts
<1>4. \A u \in S \ {Sorted(S)[n]} : Before(u, Sorted(S)[n])
  <2> TAKE u \in S \ {Sorted(S)[n]}
  <2>1. PICK i \in 1 .. n : Sorted(S)[i] = u
    BY SortedFacts
  <2>2. i < n
    BY <1>1, <2>1
  <2> QED BY <1>2, <2>1, <2>2, SortedFacts
<1> QED BY <1>3, <1>4 DEF Youngest

LEMMA SubsetComparable ==
  ASSUME NEW S, Comparable(S), NEW R \in SUBSET S
  PROVE  Comparable(R)
BY DEF Comparable
----------------------------------------------------------------------------
(* Sequences of operations.                                                *)

LEMMA Concatenated ==
  ASSUME NEW S, NEW a \in Seq(S), NEW b \in Seq(S)
  PROVE  /\ a \o b \in Seq(S)
         /\ Range(a \o b) = Range(a) \cup Range(b)
         /\ Len(a \o b) = Len(a) + Len(b)
         /\ \A i \in DOMAIN a : (a \o b)[i] = a[i]
         /\ \A i \in DOMAIN (a \o b) \ DOMAIN a : i - Len(a) \in DOMAIN b /\ (a \o b)[i] = b[i - Len(a)]
<1> DEFINE c == a \o b
<1>1. /\ Len(a) \in Nat /\ DOMAIN a = 1 .. Len(a)
      /\ Len(b) \in Nat /\ DOMAIN b = 1 .. Len(b)
      /\ c \in Seq(S) /\ Len(c) = Len(a) + Len(b) /\ DOMAIN c = 1 .. Len(a) + Len(b)
  OBVIOUS
<1>2. \A i \in DOMAIN a : i \in DOMAIN c /\ c[i] = a[i]
  BY <1>1
<1>3. ASSUME NEW i \in DOMAIN c \ DOMAIN a
      PROVE  i - Len(a) \in DOMAIN b /\ c[i] = b[i - Len(a)]
  BY <1>1
<1>4. ASSUME NEW j \in DOMAIN b
      PROVE  j + Len(a) \in DOMAIN c /\ c[j + Len(a)] = b[j]
  BY <1>1
<1> HIDE DEF c
<1>5. Range(c) = Range(a) \cup Range(b)
  BY <1>2, <1>3, <1>4 DEF Range
<1> QED BY <1>1, <1>2, <1>3, <1>5 DEF c

Injective(s) == \A i, j \in DOMAIN s : s[i] = s[j] => i = j

LEMMA ConcatenatedInjective ==
  ASSUME NEW S, NEW a \in Seq(S), NEW b \in Seq(S),
         Injective(a), Injective(b), Range(a) \cap Range(b) = {}
  PROVE  Injective(a \o b)
<1> DEFINE c == a \o b
<1>1. /\ Len(a) \in Nat /\ DOMAIN a = 1 .. Len(a)
      /\ DOMAIN c = 1 .. Len(c) /\ Len(c) \in Nat
      /\ \A i \in DOMAIN a : c[i] = a[i]
      /\ \A i \in DOMAIN c \ DOMAIN a : i - Len(a) \in DOMAIN b /\ c[i] = b[i - Len(a)]
  BY Concatenated
<1> HIDE DEF c
<1>2. SUFFICES ASSUME NEW i \in DOMAIN c, NEW j \in DOMAIN c, c[i] = c[j]
               PROVE  i = j
  BY DEF Injective, c
<1>3. CASE i \in DOMAIN a /\ j \in DOMAIN a
  BY <1>1, <1>2, <1>3 DEF Injective
<1>7. /\ \A x \in DOMAIN a : a[x] \in Range(a)
      /\ \A x \in DOMAIN b : b[x] \in Range(b)
  BY DEF Range
<1>4. CASE i \in DOMAIN a /\ j \notin DOMAIN a
  <2>1. c[i] \in Range(a) /\ c[j] \in Range(b)
    BY <1>1, <1>7, <1>4
  <2> QED BY <1>2, <2>1
<1>5. CASE i \notin DOMAIN a /\ j \in DOMAIN a
  <2>1. c[i] \in Range(b) /\ c[j] \in Range(a)
    BY <1>1, <1>7, <1>5
  <2> QED BY <1>2, <2>1
<1>6. CASE i \notin DOMAIN a /\ j \notin DOMAIN a
  <2>1. i - Len(a) = j - Len(a)
    BY <1>1, <1>2, <1>6 DEF Injective
  <2> QED BY <1>1, <2>1
<1> QED BY <1>3, <1>4, <1>5, <1>6

LEMMA TailFacts ==
  ASSUME NEW S, NEW s \in Seq(S), s # <<>>
  PROVE  /\ Head(s) \in S /\ Head(s) = s[1] /\ Head(s) \in Range(s)
         /\ Tail(s) \in Seq(S)
         /\ \A i \in DOMAIN Tail(s) : i + 1 \in DOMAIN s /\ Tail(s)[i] = s[i + 1]
         /\ Injective(s) => Range(Tail(s)) = Range(s) \ {Head(s)}
<1> DEFINE r == Tail(s)
<1>1. /\ Len(s) \in Nat /\ Len(s) > 0 /\ DOMAIN s = 1 .. Len(s)
      /\ r \in Seq(S) /\ DOMAIN r = 1 .. Len(s) - 1
      /\ Head(s) = s[1] /\ Head(s) \in S
  OBVIOUS
<1>2. \A i \in DOMAIN r : i + 1 \in DOMAIN s /\ r[i] = s[i + 1]
  BY <1>1
<1>3. ASSUME Injective(s)
      PROVE  Range(r) = Range(s) \ {s[1]}
  <2> HIDE DEF r
  <2>1. ASSUME NEW i \in DOMAIN r
        PROVE  r[i] \in Range(s) /\ r[i] # s[1]
    <3>1. i + 1 \in DOMAIN s /\ 1 \in DOMAIN s /\ i + 1 # 1
      BY <1>1, <1>2
    <3> QED BY <1>2, <1>3, <3>1 DEF Injective, Range
  <2>2. ASSUME NEW i \in DOMAIN s, s[i] # s[1]
        PROVE  s[i] \in Range(r)
    <3>1. i # 1
      BY <2>2
    <3>2. i - 1 \in DOMAIN r /\ (i - 1) + 1 = i
      BY <1>1, <3>1
    <3> QED BY <1>2, <3>2 DEF Range
  <2> QED BY <2>1, <2>2 DEF Range
<1>4. Head(s) \in Range(s)
  BY <1>1 DEF Range
<1> QED BY <1>1, <1>2, <1>3, <1>4

LEMMA Operations ==
  ASSUME NEW l \in 0 .. MaxLevel, NEW n \in Nat, NEW t \in Table
  PROVE  /\ Mkdir(l) \in Operation
         /\ Write(l, n, t) \in Operation
         /\ Rmfile(l, n) \in Operation
         /\ RmrfAll \in Operation
BY DEF Mkdir, Write, Rmfile, RmrfAll, Operation

LEMMA MakingDirectory ==
  ASSUME NEW l \in 0 .. MaxLevel
  PROVE  /\ EnsureDirectory(l) \in Seq(Operation)
         /\ Injective(EnsureDirectory(l))
         /\ Len(EnsureDirectory(l)) <= 1
         /\ Range(EnsureDirectory(l)) = IF l \in DOMAIN disk THEN {} ELSE {Mkdir(l)}
<1>1. Mkdir(l) \in Operation
  BY DEF Mkdir, Operation
<1>2. DOMAIN <<>> = {} /\ Len(<<>>) = 0 /\ <<>> \in Seq(Operation)
  OBVIOUS
<1>3. /\ <<Mkdir(l)>> \in Seq(Operation) /\ Len(<<Mkdir(l)>>) = 1
      /\ DOMAIN <<Mkdir(l)>> = {1} /\ <<Mkdir(l)>>[1] = Mkdir(l)
  BY <1>1
<1> QED BY <1>2, <1>3 DEF EnsureDirectory, Injective, Range

(* What is needed of the directories in every lemma on operations.         *)
DiskTyped ==
  /\ DOMAIN disk \subseteq 0 .. MaxLevel
  /\ \A l \in DOMAIN disk :
       /\ DOMAIN disk[l] \subseteq Nat
       /\ IsFiniteSet(DOMAIN disk[l])
       /\ \A n \in DOMAIN disk[l] : disk[l][n] \in Table

LEMMA FilesTyped ==
  ASSUME DiskTyped, NEW l \in 0 .. MaxLevel
  PROVE  /\ DOMAIN Files(l) \subseteq Nat
         /\ IsFiniteSet(DOMAIN Files(l))
         /\ \A n \in DOMAIN Files(l) : Files(l)[n] \in Table
         /\ FileTables(l) \in SUBSET Table
         /\ IsFiniteSet(FileTables(l))
<1>1. DOMAIN Nothing = {}
  BY DEF Nothing
<1>2. /\ DOMAIN Files(l) \subseteq Nat
      /\ IsFiniteSet(DOMAIN Files(l))
      /\ \A n \in DOMAIN Files(l) : Files(l)[n] \in Table
  BY <1>1, FS_EmptySet DEF DiskTyped, Files
<1>3. FileTables(l) = {Files(l)[n] : n \in DOMAIN Files(l)}
  BY DEF FileTables, Range
<1> DEFINE f == [n \in DOMAIN Files(l) |-> Files(l)[n]]
<1>4. f \in Surjection(DOMAIN Files(l), FileTables(l))
  BY <1>3 DEF Surjection
<1> HIDE DEF f
<1>5. IsFiniteSet(FileTables(l))
  BY <1>2, <1>4, FS_Surjection
<1> QED BY <1>2, <1>3, <1>5

(* A finite set of naturals has a bound.                                   *)
LEMMA FiniteBound ==
  ASSUME NEW S \in SUBSET Nat, IsFiniteSet(S)
  PROVE  \E b \in Nat : \A x \in S : x <= b
<1> DEFINE Bounded(T) == \E b \in Nat : \A x \in T : x <= b
           bad == {n \in Nat : \E T \in SUBSET Nat :
                     IsFiniteSet(T) /\ Cardinality(T) = n /\ ~Bounded(T)}
<1>1. SUFFICES ASSUME ~Bounded(S) PROVE FALSE
  OBVIOUS
<1>2. Cardinality(S) \in bad
  BY <1>1, FS_CardinalityType
<1> HIDE DEF Bounded
<1>3. PICK n \in bad : \A m \in bad : n <= m
  <2>1. bad \in SUBSET Nat /\ bad # {}
    BY <1>2
  <2> HIDE DEF bad
  <2> QED BY <2>1, MinExists
<1>4. PICK T \in SUBSET Nat : IsFiniteSet(T) /\ Cardinality(T) = n /\ ~Bounded(T)
  OBVIOUS
<1>5. PICK x \in T : TRUE
  <2>1. T # {}
    BY <1>4 DEF Bounded
  <2> QED BY <2>1
<1>6. IsFiniteSet(T \ {x}) /\ Cardinality(T \ {x}) = n - 1 /\ n - 1 \in Nat
  <2>1. IsFiniteSet(T \ {x}) /\ Cardinality(T \ {x}) = n - 1
    BY <1>4, FS_RemoveElement
  <2> QED BY <2>1, FS_CardinalityType
<1>7. Bounded(T \ {x})
  <2>1. n - 1 \notin bad
    BY <1>3, <1>6
  <2> QED BY <1>6, <2>1
<1>8. PICK b \in Nat : \A y \in T \ {x} : y <= b
  BY <1>7 DEF Bounded
<1>9. x \in Nat /\ b + x \in Nat /\ \A y \in T : y <= b + x
  BY <1>8
<1> QED BY <1>4, <1>9 DEF Bounded

LEMMA LastNumberBounds ==
  ASSUME DiskTyped, NEW l \in 0 .. MaxLevel
  PROVE  LastNumber(l) \in Nat /\ \A n \in DOMAIN Files(l) : n <= LastNumber(l)
<1> DEFINE S == {0} \cup DOMAIN Files(l)
<1>1. DOMAIN Files(l) \subseteq Nat /\ IsFiniteSet(DOMAIN Files(l))
  BY FilesTyped
<1>2. S \in SUBSET Nat /\ S # {} /\ IsFiniteSet(S)
  <2>1. IsFiniteSet({0})
    BY FS_Singleton
  <2>2. IsFiniteSet(S)
    BY <1>1, <2>1, FS_Union
  <2> QED BY <1>1, <2>2
<1>3. LastNumber(l) = Max(S)
  BY DEF LastNumber
<1> HIDE DEF S
<1>4. PICK b \in Nat : \A x \in S : x <= b
  BY <1>2, FiniteBound
<1>5. Max(S) \in S /\ \A x \in S : Max(S) >= x
  BY <1>2, <1>4, MaxOfSet
<1>6. \A n \in DOMAIN Files(l) : n \in S
  BY DEF S
<1> QED BY <1>1, <1>2, <1>3, <1>5, <1>6

----------------------------------------------------------------------------
(* The operations of a compaction.                                         *)

(* One write for every table, to numbers that no file has.                 *)
LEMMA WritesFacts ==
  ASSUME DiskTyped, NEW l \in 0 .. MaxLevel,
         NEW T \in SUBSET Table, IsFiniteSet(T), Comparable(T)
  PROVE  LET W == Writes(l, T)
         IN  /\ W \in Seq(Operation)
             /\ Injective(W)
             /\ \A o \in Range(W) :
                  /\ o.op = "write" /\ o.level = l /\ o.table \in T
                  /\ o.number \notin DOMAIN Files(l)
             /\ \A t \in T : \E o \in Range(W) : o.table = t
             /\ \A o, p \in Range(W) : o.number = p.number \/ o.table = p.table => o = p
<1> DEFINE n == Cardinality(T)
           W == Writes(l, T)
           last == LastNumber(l)
<1>1. n \in Nat /\ last \in Nat /\ \A m \in DOMAIN Files(l) : m <= last
  BY LastNumberBounds, SortedFacts
<1>2. DOMAIN W = 1 .. n /\ \A i \in 1 .. n : W[i] = Write(l, last + i, Sorted(T)[i])
  BY DEF Writes
<1>3. \A i \in 1 .. n : Sorted(T)[i] \in T
  BY SortedFacts
<1>4. \A t \in T : \E i \in 1 .. n : Sorted(T)[i] = t
  BY SortedFacts
<1>5. \A i, j \in 1 .. n : Sorted(T)[i] = Sorted(T)[j] => i = j
  BY SortedFacts
<1> HIDE DEF W, n, last
<1>6. \A i \in 1 .. n : /\ W[i] \in Operation
                        /\ W[i].op = "write" /\ W[i].level = l
                        /\ W[i].number = last + i /\ W[i].table = Sorted(T)[i]
  <2> TAKE i \in 1 .. n
  <2>1. last + i \in Nat /\ Sorted(T)[i] \in Table
    BY <1>1, <1>3
  <2>2. W[i] \in Operation
    BY <1>2, <2>1, Operations
  <2> QED BY <1>2, <2>2 DEF Write
<1>7. W \in Seq(Operation)
  <2>1. W = [i \in 1 .. n |-> W[i]]
    BY <1>2 DEF W, Writes
  <2> QED BY <1>1, <1>6, <2>1
<1>8. Injective(W)
  BY <1>2, <1>5, <1>6 DEF Injective
<1>9. ASSUME NEW i \in 1 .. n
      PROVE  W[i].number \notin DOMAIN Files(l)
  <2>1. ~(last + i <= last)
    BY <1>1
  <2> QED BY <1>1, <1>6, <2>1
<1>10. \A o \in Range(W) : \E i \in 1 .. n : o = W[i]
  BY <1>2 DEF Range
<1>11. \A i \in 1 .. n : W[i] \in Range(W)
  BY <1>2 DEF Range
<1>12. \A o \in Range(W) :
          /\ o.op = "write" /\ o.level = l /\ o.table \in T
          /\ o.number \notin DOMAIN Files(l)
  BY <1>3, <1>6, <1>9, <1>10
<1>13. \A t \in T : \E o \in Range(W) : o.table = t
  BY <1>4, <1>6, <1>11
<1>14. ASSUME NEW o \in Range(W), NEW p \in Range(W), o.number = p.number \/ o.table = p.table
       PROVE  o = p
  <2>1. PICK i \in 1 .. n : o = W[i]
    BY <1>10
  <2>2. PICK j \in 1 .. n : p = W[j]
    BY <1>10
  <2>3. /\ o.number = last + i /\ p.number = last + j
        /\ o.table = Sorted(T)[i] /\ p.table = Sorted(T)[j]
    BY <1>6, <2>1, <2>2
  <2>4. i = j
    BY <1>1, <1>5, <1>14, <2>3
  <2> QED BY <2>1, <2>2, <2>4
<1> QED BY <1>7, <1>8, <1>12, <1>13, <1>14 DEF W

(* One deletion for every table that has a file under its own name.        *)
LEMMA DeletionsFacts ==
  ASSUME DiskTyped, NEW l \in 1 .. MaxLevel,
         NEW T \in SUBSET Table, IsFiniteSet(T), Comparable(T),
         T \ loaded[l] \subseteq FileTables(l),
         \A m, n \in DOMAIN Files(l) : Files(l)[m] = Files(l)[n] => m = n
  PROVE  LET D == Deletions(l, T)
         IN  /\ D \in Seq(Operation)
             /\ Injective(D)
             /\ \A o \in Range(D) : o.op = "rmfile" /\ o.level = l
             /\ {o.number : o \in Range(D)} =
                  {m \in DOMAIN Files(l) : Files(l)[m] \in T \ loaded[l]}
<1> DEFINE named == T \ loaded[l]
           n == Cardinality(named)
           D == Deletions(l, T)
           number(t) == CHOOSE m \in DOMAIN disk[l] : disk[l][m] = t
           S == Sorted(named)
<1>1. named \in SUBSET Table /\ IsFiniteSet(named) /\ Comparable(named)
  BY FS_Subset, SubsetComparable
<1> HIDE DEF named
<1>2. /\ n \in Nat
      /\ \A i \in 1 .. n : S[i] \in named
      /\ \A t \in named : \E i \in 1 .. n : S[i] = t
      /\ \A i, j \in 1 .. n : S[i] = S[j] => i = j
  BY <1>1, SortedFacts
<1>3. DOMAIN D = 1 .. n /\ \A i \in 1 .. n : D[i] = Rmfile(l, number(S[i]))
  BY DEF Deletions, named
<1>4. ASSUME NEW t \in named
      PROVE  /\ number(t) \in DOMAIN Files(l) /\ Files(l)[number(t)] = t
  <2>1. PICK m \in DOMAIN Files(l) : Files(l)[m] = t
    BY <1>4 DEF named, FileTables, Range
  <2>2. l \in DOMAIN disk /\ Files(l) = disk[l]
    BY <2>1 DEF Files, Nothing
  <2> QED BY <2>1, <2>2
<1>5. \A m \in DOMAIN Files(l) : m \in Nat
  BY FilesTyped
<1> HIDE DEF D, n, number, S
<1>6. \A i \in 1 .. n : /\ D[i] \in Operation
                        /\ D[i].op = "rmfile" /\ D[i].level = l
                        /\ D[i].number = number(S[i])
  <2> TAKE i \in 1 .. n
  <2>1. number(S[i]) \in Nat
    BY <1>2, <1>4, <1>5
  <2>2. D[i] \in Operation
    BY <1>3, <2>1 DEF Rmfile, Operation
  <2> QED BY <1>3, <2>2 DEF Rmfile
<1>7. D \in Seq(Operation)
  <2>1. D = [i \in 1 .. n |-> D[i]]
    BY <1>3 DEF D, Deletions
  <2> QED BY <1>2, <1>6, <2>1
<1>8. Injective(D)
  <2> SUFFICES ASSUME NEW i \in 1 .. n, NEW j \in 1 .. n, D[i] = D[j]
               PROVE  i = j
    BY <1>3 DEF Injective
  <2>1. number(S[i]) = number(S[j])
    BY <1>6
  <2>2. S[i] = S[j]
    BY <1>2, <1>4, <2>1
  <2> QED BY <1>2, <2>2
<1>9. \A o \in Range(D) : \E i \in 1 .. n : o = D[i]
  BY <1>3 DEF Range
<1>10. \A i \in 1 .. n : D[i] \in Range(D)
  BY <1>3 DEF Range
<1>11. ASSUME NEW o \in Range(D)
       PROVE  /\ o.op = "rmfile" /\ o.level = l
              /\ o.number \in DOMAIN Files(l) /\ Files(l)[o.number] \in named
  <2>1. PICK i \in 1 .. n : o = D[i]
    BY <1>9
  <2> QED BY <1>2, <1>4, <1>6, <2>1
<1>12. ASSUME NEW m \in DOMAIN Files(l), Files(l)[m] \in named
       PROVE  \E o \in Range(D) : o.number = m
  <2>1. PICK i \in 1 .. n : S[i] = Files(l)[m]
    BY <1>2, <1>12
  <2>2. number(S[i]) = m
    BY <1>4, <1>12, <2>1
  <2> QED BY <1>6, <1>10, <2>2
<1>13. {o.number : o \in Range(D)} = {m \in DOMAIN Files(l) : Files(l)[m] \in named}
  BY <1>11, <1>12
<1> QED BY <1>7, <1>8, <1>11, <1>13 DEF D, named

(* When nothing is left to do, the files are one for each table of S.      *)
LEMMA SettledFiles ==
  ASSUME NEW l, NEW S, FilesSettle(disk, {}, l, S)
  PROVE  /\ FileTables(l) = S
         /\ \A m \in DOMAIN Files(l) : Files(l)[m] \in S
         /\ \A t \in S : \E m \in DOMAIN Files(l) : Files(l)[m] = t
         /\ \A m, n \in DOMAIN Files(l) : Files(l)[m] = Files(l)[n] => m = n
<1> DEFINE files == Files(l)
<1>1. files = FilesOf(disk, l)
  BY DEF Files, FilesOf
<1>2. Unwritten({}, l) = {} /\ Doomed({}, l) = {}
  BY DEF Unwritten, Doomed
<1>3. FilePairs(disk, {}, l) = {<<m, files[m]>> : m \in DOMAIN files}
  BY <1>1, <1>2 DEF FilePairs
<1>4. \A m \in DOMAIN files : files[m] \in S
  <2>1. \A m \in DOMAIN files : <<m, files[m]>> \in FilePairs(disk, {}, l)
    BY <1>3
  <2>2. \A q \in FilePairs(disk, {}, l) : q[2] \in S
    BY DEF FilesSettle
  <2> HIDE DEF files
  <2>3. ASSUME NEW m \in DOMAIN files PROVE <<m, files[m]>>[2] \in S
    BY <2>1, <2>2
  <2> QED BY <2>3
<1>5. \A t \in S : \E m \in DOMAIN files : files[m] = t
  <2> TAKE t \in S
  <2>1. PICK q \in FilePairs(disk, {}, l) : q[2] = t
    BY DEF FilesSettle
  <2> QED BY <1>3, <2>1
<1>6. ASSUME NEW m \in DOMAIN files, NEW n \in DOMAIN files, files[m] = files[n]
      PROVE  m = n
  <2>1. <<m, files[m]>> \in FilePairs(disk, {}, l) /\ <<n, files[n]>> \in FilePairs(disk, {}, l)
    BY <1>3
  <2>2. \A p, q \in FilePairs(disk, {}, l) : p[2] = q[2] => p[1] = q[1]
    BY DEF FilesSettle
  <2> HIDE DEF files
  <2>3. <<m, files[m]>>[1] = <<n, files[n]>>[1]
    BY <1>6, <2>1, <2>2
  <2> QED BY <2>3
<1>7. FileTables(l) = {files[m] : m \in DOMAIN files}
  BY DEF FileTables, Range
<1> HIDE DEF files
<1>8. FileTables(l) = S
  BY <1>4, <1>5, <1>7
<1> QED BY <1>4, <1>5, <1>6, <1>8 DEF files

(* Operations that delete the files of the tables G of a level and write   *)
(* the tables T to it: what the level's files are in the end.              *)
LEMMA Planned ==
  ASSUME NEW l \in 1 .. MaxLevel, NEW S, NEW G, NEW T, NEW ops,
         FilesSettle(disk, {}, l, S),
         T \cap (S \ G) = {},
         Doomed(ops, l) = {m \in DOMAIN Files(l) : Files(l)[m] \in G},
         \A o \in Unwritten(ops, l) : o.table \in T /\ o.number \notin DOMAIN Files(l),
         \A t \in T : \E o \in Unwritten(ops, l) : o.table = t,
         \A o, p \in Unwritten(ops, l) : o.number = p.number \/ o.table = p.table => o = p
  PROVE  FilesSettle(disk, ops, l, (S \ G) \cup T)
<1> DEFINE files == Files(l)
           kept  == {m \in DOMAIN files : files[m] \notin G}
           new   == {<<o.number, o.table>> : o \in Unwritten(ops, l)}
           pairs == FilePairs(disk, ops, l)
<1>1. files = FilesOf(disk, l)
  BY DEF Files, FilesOf
<1>4. /\ \A m \in DOMAIN files : files[m] \in S
      /\ \A t \in S : \E m \in DOMAIN files : files[m] = t
      /\ \A m, n \in DOMAIN files : files[m] = files[n] => m = n
  BY SettledFiles
<1>7. pairs = {<<m, files[m]>> : m \in kept} \cup new
  <2>1. kept = DOMAIN files \ Doomed(ops, l)
    OBVIOUS
  <2> QED BY <1>1, <2>1 DEF FilePairs
<1> HIDE DEF files
<1>8. \A q \in pairs : \/ \E m \in kept : q = <<m, files[m]>>
                       \/ \E o \in Unwritten(ops, l) : q = <<o.number, o.table>>
  BY <1>7
<1>9. \A m \in kept : <<m, files[m]>> \in pairs
  BY <1>7
<1>10. \A o \in Unwritten(ops, l) : <<o.number, o.table>> \in pairs
  BY <1>7
<1> HIDE DEF pairs
<1>11. {q[2] : q \in pairs} = (S \ G) \cup T
  <2>1. ASSUME NEW q \in pairs
        PROVE  q[2] \in (S \ G) \cup T
    BY <1>4, <1>8
  <2>2. ASSUME NEW t \in S \ G
        PROVE  \E q \in pairs : q[2] = t
    <3>1. PICK m \in DOMAIN files : files[m] = t
      BY <1>4
    <3>2. <<m, files[m]>> \in pairs
      BY <1>9, <3>1
    <3>3. <<m, files[m]>>[2] = t
      BY <3>1
    <3> QED BY <3>2, <3>3
  <2>3. ASSUME NEW t \in T
        PROVE  \E q \in pairs : q[2] = t
    <3>1. PICK o \in Unwritten(ops, l) : o.table = t
      OBVIOUS
    <3>2. <<o.number, o.table>> \in pairs
      BY <1>10
    <3>3. <<o.number, o.table>>[2] = t
      BY <3>1
    <3> QED BY <3>2, <3>3
  <2> QED BY <2>1, <2>2, <2>3
<1>12. ASSUME NEW p \in pairs, NEW q \in pairs, p[2] = q[2]
       PROVE  p[1] = q[1]
  <2>1. \A m \in kept : files[m] \in S \ G
    BY <1>4
  <2>2. \A o \in Unwritten(ops, l) : o.table \notin S \ G
    OBVIOUS
  <2>3. CASE (\E m \in kept : p = <<m, files[m]>>) /\ \E m \in kept : q = <<m, files[m]>>
    BY <1>4, <1>12, <2>3
  <2>4. CASE /\ \E o \in Unwritten(ops, l) : p = <<o.number, o.table>>
             /\ \E o \in Unwritten(ops, l) : q = <<o.number, o.table>>
    BY <1>12, <2>4
  <2>5. CASE /\ \E m \in kept : p = <<m, files[m]>>
             /\ \E o \in Unwritten(ops, l) : q = <<o.number, o.table>>
    BY <1>12, <2>1, <2>2, <2>5
  <2>6. CASE /\ \E m \in kept : q = <<m, files[m]>>
             /\ \E o \in Unwritten(ops, l) : p = <<o.number, o.table>>
    BY <1>12, <2>1, <2>2, <2>6
  <2> QED BY <1>8, <2>3, <2>4, <2>5, <2>6
<1>13. \A o \in Unwritten(ops, l) :
         /\ o.number \notin DOMAIN FilesOf(disk, l) \cup Doomed(ops, l)
         /\ \A p \in Unwritten(ops, l) : o.number = p.number => o = p
  <2>1. DOMAIN FilesOf(disk, l) = DOMAIN Files(l)
    BY DEF Files, FilesOf
  <2> QED BY <2>1
<1> QED BY <1>11, <1>12, <1>13 DEF FilesSettle, pairs

----------------------------------------------------------------------------
(* One operation brings the files closer to the end of the call.           *)

(* An operation of a plan can be done: its directory exists, or does not   *)
(* exist yet when it makes it.                                             *)
Possible(o) ==
  /\ o \in Operation
  /\ o.op # "rmrf"
  /\ o.op = "mkdir" => o.level \notin DOMAIN disk
  /\ o.op = "write" => o.level \in DOMAIN disk

LEMMA OperationKinds ==
  ASSUME NEW o \in Operation
  PROVE  /\ o.op \in {"mkdir", "write", "rmfile", "rmrf"}
         /\ o.op # "rmrf" => o.level \in 0 .. MaxLevel
         /\ o.op = "write" => o.number \in Nat /\ o.table \in Table
         /\ o.op = "rmfile" => o.number \in Nat
BY DEF Operation

LEMMA FilesAfter ==
  ASSUME NEW o, Possible(o), NEW l
  PROVE  LET after == AfterOperation(disk, o)
         IN  /\ DOMAIN after = DOMAIN disk \cup Unmade({o})
             /\ ~(o.op = "write" /\ o.level = l) /\ ~(o.op = "rmfile" /\ o.level = l) =>
                  FilesOf(after, l) = FilesOf(disk, l)
             /\ o.op = "write" /\ o.level = l =>
                  FilesOf(after, l) = Extended(FilesOf(disk, l), o.number, o.table)
             /\ o.op = "rmfile" /\ o.level = l =>
                  FilesOf(after, l)
                    = Restrict(FilesOf(disk, l), DOMAIN FilesOf(disk, l) \ {o.number})
<1> DEFINE after == AfterOperation(disk, o)
<1>1. o.op \in {"mkdir", "write", "rmfile"}
  BY OperationKinds DEF Possible
<1>2. Unmade({o}) = IF o.op = "mkdir" THEN {o.level} ELSE {}
  BY DEF Unmade
<1>3. CASE o.op = "mkdir"
  <2>1. after = Extended(disk, o.level, Nothing)
    BY <1>3 DEF AfterOperation
  <2>2. /\ DOMAIN after = DOMAIN disk \cup {o.level}
        /\ after[o.level] = Nothing
        /\ \A m \in DOMAIN disk : after[m] = IF m = o.level THEN Nothing ELSE disk[m]
    BY <2>1 DEF Extended
  <2>3. FilesOf(after, l) = FilesOf(disk, l)
    BY <1>3, <2>2 DEF FilesOf, Possible
  <2> QED BY <1>2, <1>3, <2>2, <2>3
<1>4. CASE o.op = "write"
  <2>1. after = [disk EXCEPT ![o.level] = Extended(@, o.number, o.table)]
    BY <1>4 DEF AfterOperation
  <2>2. /\ DOMAIN after = DOMAIN disk
        /\ o.level \in DOMAIN disk
        /\ after[o.level] = Extended(disk[o.level], o.number, o.table)
        /\ \A m \in DOMAIN disk : m # o.level => after[m] = disk[m]
    BY <1>4, <2>1 DEF Possible
  <2>3. o.level # l => FilesOf(after, l) = FilesOf(disk, l)
    BY <2>2 DEF FilesOf
  <2>4. o.level = l => FilesOf(after, l) = Extended(FilesOf(disk, l), o.number, o.table)
    BY <2>2 DEF FilesOf
  <2> QED BY <1>2, <1>4, <2>2, <2>3, <2>4
<1>5. CASE o.op = "rmfile"
  <2>1. after = [disk EXCEPT ![o.level] = Restrict(@, DOMAIN @ \ {o.number})]
    BY <1>5 DEF AfterOperation
  <2>2. /\ DOMAIN after = DOMAIN disk
        /\ o.level \in DOMAIN disk =>
             after[o.level] = Restrict(disk[o.level], DOMAIN disk[o.level] \ {o.number})
        /\ \A m \in DOMAIN disk : m # o.level => after[m] = disk[m]
    BY <2>1
  <2>3. o.level # l => FilesOf(after, l) = FilesOf(disk, l)
    BY <2>2 DEF FilesOf
  <2>4. ASSUME o.level = l
        PROVE  FilesOf(after, l)
                 = Restrict(FilesOf(disk, l), DOMAIN FilesOf(disk, l) \ {o.number})
    <3>1. CASE l \in DOMAIN disk
      BY <2>2, <2>4, <3>1 DEF FilesOf
    <3>2. CASE l \notin DOMAIN disk
      <4>1. FilesOf(after, l) = Nothing /\ FilesOf(disk, l) = Nothing
        BY <2>2, <3>2 DEF FilesOf
      <4>2. Restrict(Nothing, DOMAIN Nothing \ {o.number}) = Nothing
        BY DEF Restrict, Nothing
      <4> QED BY <4>1, <4>2
    <3> QED BY <3>1, <3>2
  <2> QED BY <1>2, <1>5, <2>2, <2>3, <2>4
<1> QED BY <1>1, <1>3, <1>4, <1>5

(* The pairs of numbers and tables of the end do not change.               *)
LEMMA OperationSettles ==
  ASSUME NEW ops, NEW o \in ops, Possible(o), NEW l, NEW S, FilesSettle(disk, ops, l, S)
  PROVE  FilesSettle(AfterOperation(disk, o), ops \ {o}, l, S)
<1> DEFINE after == AfterOperation(disk, o)
           rest  == ops \ {o}
           f     == FilesOf(disk, l)
           g     == FilesOf(after, l)
           D     == Doomed(ops, l)
           E     == Doomed(rest, l)
           U     == Unwritten(ops, l)
           V     == Unwritten(rest, l)
<1>1. \A p \in U : /\ p.number \notin DOMAIN f \cup D
                   /\ \A q \in U : p.number = q.number => p = q
  BY DEF FilesSettle
<1>2. V = U \ {o}
  BY DEF Unwritten
<1>3. D = E \cup {p.number : p \in {q \in {o} : q.op = "rmfile" /\ q.level = l}}
  BY DEF Doomed
<1>4. CASE ~(o.op = "write" /\ o.level = l) /\ ~(o.op = "rmfile" /\ o.level = l)
  <2>1. g = f
    BY <1>4, FilesAfter
  <2>2. V = U /\ E = D
    BY <1>4, <1>2, <1>3 DEF Unwritten
  <2>3. FilePairs(after, rest, l) = FilePairs(disk, ops, l)
    BY <2>1, <2>2 DEF FilePairs
  <2> QED BY <2>1, <2>2, <2>3 DEF FilesSettle
<1>5. CASE o.op = "write" /\ o.level = l
  <2>1. g = Extended(f, o.number, o.table)
    BY <1>5, FilesAfter
  <2>2. o \in U /\ E = D
    BY <1>3, <1>5 DEF Unwritten
  <2> HIDE DEF f, g, D, E, U, V
  <2>3. o.number \notin DOMAIN f \cup D
    BY <1>1, <2>2
  <2>4. /\ DOMAIN g = DOMAIN f \cup {o.number}
        /\ g[o.number] = o.table
        /\ \A m \in DOMAIN f : g[m] = f[m]
    BY <2>1, <2>3 DEF Extended
  <2>5. {<<m, g[m]>> : m \in DOMAIN g \ E}
          = {<<m, f[m]>> : m \in DOMAIN f \ D} \cup {<<o.number, o.table>>}
    BY <2>2, <2>3, <2>4
  <2>6. {<<p.number, p.table>> : p \in U}
          = {<<p.number, p.table>> : p \in V} \cup {<<o.number, o.table>>}
    BY <1>2, <2>2
  <2>7. FilePairs(after, rest, l) = FilePairs(disk, ops, l)
    BY <2>5, <2>6 DEF FilePairs, f, g, D, E, U, V
  <2>8. \A p \in V : /\ p.number \notin DOMAIN g \cup E
                     /\ \A q \in V : p.number = q.number => p = q
    BY <1>1, <1>2, <2>2, <2>4
  <2> QED BY <2>7, <2>8 DEF FilesSettle, g, E, V
<1>6. CASE o.op = "rmfile" /\ o.level = l
  <2>1. g = Restrict(f, DOMAIN f \ {o.number})
    BY <1>6, FilesAfter
  <2>2. V = U /\ D = E \cup {o.number}
    BY <1>2, <1>3, <1>6 DEF Unwritten
  <2> HIDE DEF f, g, D, E, U, V
  <2>3. DOMAIN g = DOMAIN f \ {o.number} /\ \A m \in DOMAIN g : g[m] = f[m]
    BY <2>1 DEF Restrict
  <2>4. DOMAIN g \ E = DOMAIN f \ D
    BY <2>2, <2>3
  <2>5. {<<m, g[m]>> : m \in DOMAIN g \ E} = {<<m, f[m]>> : m \in DOMAIN f \ D}
    BY <2>3, <2>4
  <2>6. FilePairs(after, rest, l) = FilePairs(disk, ops, l)
    BY <2>2, <2>5 DEF FilePairs, f, g, D, E, U, V
  <2>7. \A p \in V : /\ p.number \notin DOMAIN g \cup E
                     /\ \A q \in V : p.number = q.number => p = q
    BY <1>1, <2>2, <2>3
  <2> QED BY <2>6, <2>7 DEF FilesSettle, g, E, V
<1> QED BY <1>4, <1>5, <1>6

(* What is on the disk afterwards was there before or was in the operation.*)
LEMMA OperationTyped ==
  ASSUME DiskTyped, NEW o, Possible(o)
  PROVE  LET after == AfterOperation(disk, o)
         IN  /\ DOMAIN after \subseteq 0 .. MaxLevel
             /\ \A l \in DOMAIN after :
                  /\ DOMAIN after[l] \subseteq Nat
                  /\ IsFiniteSet(DOMAIN after[l])
                  /\ \A n \in DOMAIN after[l] :
                       /\ after[l][n] \in Table
                       /\ \/ l \in DOMAIN disk /\ n \in DOMAIN disk[l] /\ after[l][n] = disk[l][n]
                          \/ o.op = "write" /\ after[l][n] = o.table
<1> DEFINE after == AfterOperation(disk, o)
<1>1. /\ o.level \in 0 .. MaxLevel
      /\ o.op = "write" => o.number \in Nat /\ o.table \in Table
  BY OperationKinds DEF Possible
<1>2. DOMAIN after \subseteq 0 .. MaxLevel
  <2>1. DOMAIN after = DOMAIN disk \cup Unmade({o})
    BY FilesAfter
  <2>2. Unmade({o}) \subseteq {o.level}
    BY DEF Unmade
  <2> QED BY <1>1, <2>1, <2>2 DEF DiskTyped
<1>3. ASSUME NEW l \in DOMAIN after
      PROVE  /\ DOMAIN after[l] \subseteq Nat
             /\ IsFiniteSet(DOMAIN after[l])
             /\ \A n \in DOMAIN after[l] :
                  /\ after[l][n] \in Table
                  /\ \/ l \in DOMAIN disk /\ n \in DOMAIN disk[l] /\ after[l][n] = disk[l][n]
                     \/ o.op = "write" /\ after[l][n] = o.table
  <2> DEFINE f == FilesOf(disk, l)
             g == FilesOf(after, l)
  <2>1. g = after[l]
    BY DEF FilesOf
  <2>2. /\ DOMAIN f \subseteq Nat /\ IsFiniteSet(DOMAIN f)
        /\ \A n \in DOMAIN f : f[n] \in Table /\ l \in DOMAIN disk /\ n \in DOMAIN disk[l] /\ f[n] = disk[l][n]
    <3>1. DOMAIN Nothing = {}
      BY DEF Nothing
    <3> QED BY <3>1, FS_EmptySet DEF DiskTyped, FilesOf
  <2>3. \/ g = f
        \/ o.op = "write" /\ g = Extended(f, o.number, o.table)
        \/ g = Restrict(f, DOMAIN f \ {o.number})
    BY FilesAfter
  <2> HIDE DEF after, f, g
  <2>4. CASE g = f
    BY <2>1, <2>2, <2>4
  <2>5. CASE o.op = "write" /\ g = Extended(f, o.number, o.table)
    <3>1. /\ DOMAIN g = DOMAIN f \cup {o.number}
          /\ \A n \in DOMAIN g : g[n] = IF n = o.number THEN o.table ELSE f[n]
      BY <2>5 DEF Extended
    <3>2. IsFiniteSet(DOMAIN g)
      BY <2>2, <3>1, FS_AddElement
    <3> QED BY <1>1, <2>1, <2>2, <2>5, <3>1, <3>2
  <2>6. CASE g = Restrict(f, DOMAIN f \ {o.number})
    <3>1. DOMAIN g = DOMAIN f \ {o.number} /\ \A n \in DOMAIN g : g[n] = f[n]
      BY <2>6 DEF Restrict
    <3>2. IsFiniteSet(DOMAIN g)
      BY <2>2, <3>1, FS_Subset
    <3> QED BY <2>1, <2>2, <3>1, <3>2
  <2> QED BY <2>3, <2>4, <2>5, <2>6
<1> QED BY <1>2, <1>3 DEF after

----------------------------------------------------------------------------
(* What the compactions make.                                              *)

(* A merge of comparable tables keeps to their keys and items.             *)
LEMMA MergedTyped ==
  ASSUME NEW S \in SUBSET Table, IsFiniteSet(S), Comparable(S)
  PROVE  MergedKeys(S) \in SUBSET Key /\ MergeItems(S) \in [MergedKeys(S) -> Item]
<1>1. MergedKeys(S) \in SUBSET Key
  BY TableKeys DEF MergedKeys
<1>2. ASSUME NEW k \in MergedKeys(S)
      PROVE  Youngest(Holders(S, k)).items[k] \in Item
  <2> DEFINE H == Holders(S, k)
  <2>1. H \in SUBSET S /\ H # {} /\ \A t \in H : k \in Keys(t)
    BY DEF Holders, MergedKeys
  <2> HIDE DEF H
  <2>2. IsFiniteSet(H) /\ Comparable(H) /\ H \in SUBSET Table
    BY <2>1, FS_Subset, SubsetComparable
  <2>3. Youngest(H) \in H
    BY <2>1, <2>2, YoungestOfComparable
  <2>4. k \in Keys(Youngest(H)) /\ Youngest(H) \in Table
    BY <2>1, <2>2, <2>3
  <2> QED BY <2>4, TableKeys DEF H
<1> QED BY <1>1, <1>2 DEF MergeItems

(* The tables made hold the items, except for the deletions that a new     *)
(* last level does not take, and each key is in one of them.               *)
LEMMA MadeTyped ==
  ASSUME NEW D \in SUBSET Key, NEW items \in [D -> Item], NEW l, NEW time \in Nat
  PROVE  LET made == Made(items, l, time)
         IN  /\ made \in SUBSET Table
             /\ IsFiniteSet(made)
             /\ \A t \in made : t.time = time
             /\ \A t \in made : \A k \in Keys(t) : t.items[k] = items[k]
             /\ \A k \in D : \/ Len(deeper) < l /\ ~items[k].live
                             \/ \E t \in made : k \in Keys(t)
             /\ Disjoint(made)
<1> DEFINE last == Len(deeper) < l
           K    == {k \in D : last => items[k].live}
           kept == DropDead(items, last)
<1>1. kept = [k \in K |-> items[k]]
  BY DEF DropDead, Restrict
<1>2. /\ K \in SUBSET Key /\ kept \in [K -> Item]
      /\ \A k \in K : kept[k] = items[k]
      /\ \A k \in D : k \in K \/ (last /\ ~items[k].live)
  BY <1>1
<1>3. Made(items, l, time) = BuildTables(kept, time)
  BY DEF Made
<1> HIDE DEF K, kept, last
<1>4. LET made == BuildTables(kept, time)
      IN  /\ made \in SUBSET Table
          /\ IsFiniteSet(made)
          /\ \A t \in made : t.time = time
          /\ \A t \in made : \A k \in Keys(t) : k \in K /\ t.items[k] = kept[k]
          /\ \A k \in K : \E t \in made : k \in Keys(t)
          /\ \A t, u \in made : t # u =>
               LargestKey(t) < SmallestKey(u) \/ LargestKey(u) < SmallestKey(t)
  BY <1>2, BuiltTables
<1> QED BY <1>2, <1>3, <1>4 DEF Disjoint, last

(* The parts of the invariant that the lemmas on compactions use.          *)
LEMMA InvLevels ==
  ASSUME FilesInv
  PROVE  /\ deeper \in Seq(SUBSET Table) /\ Len(deeper) \in Nat
         /\ DOMAIN deeper = 1 .. Len(deeper) /\ Len(deeper) <= MaxLevel
         /\ level0 \in Seq(Table) /\ timeId \in Nat /\ MaxLevel \in Nat \ {0}
         /\ Level0Tables \in SUBSET Table /\ IsFiniteSet(Level0Tables)
         /\ DiskTyped
         /\ \A l \in 1 .. MaxLevel :
              /\ Level(l) \in SUBSET Table /\ IsFiniteSet(Level(l))
              /\ Comparable(Level(l))
              /\ loaded[l] \subseteq Level(l)
              /\ up => \A t \in Level(l) : t.time <= timeId
         /\ Comparable(Level0Tables \cup Level(1))
         /\ up => \A t \in Level0Tables : t.time <= timeId
<1>1. TreeTypeOK /\ PersistTypeOK
  BY DEF FilesInv, PersistTypeOK
<1>2. /\ deeper \in Seq(SUBSET Table) /\ level0 \in Seq(Table) /\ timeId \in Nat
      /\ MaxLevel \in Nat \ {0} /\ Len(deeper) <= MaxLevel
  BY <1>1, LevelAssumption DEF FilesInv, TreeTypeOK
<1>3. Len(deeper) \in Nat /\ DOMAIN deeper = 1 .. Len(deeper)
  BY <1>2
<1>4. DiskTyped
  BY <1>1 DEF PersistTypeOK, DiskTyped
<1>5. Level0Tables = {level0[i] : i \in 1 .. Len(level0)} /\ Len(level0) \in Nat
  BY <1>2 DEF Level0Tables, Range
<1>6. Level0Tables \in SUBSET Table
  BY <1>2, <1>5
<1>7. IsFiniteSet(Level0Tables)
  <2> DEFINE f == [i \in 1 .. Len(level0) |-> level0[i]]
  <2>1. f \in Surjection(1 .. Len(level0), Level0Tables)
    BY <1>5 DEF Surjection
  <2>2. IsFiniteSet(1 .. Len(level0))
    BY <1>5, FS_Interval
  <2> HIDE DEF f
  <2> QED BY <2>1, <2>2, FS_Surjection
<1>8. Comparable({})
  BY DEF Comparable
<1>9. AllComparable
  BY DEF FilesInv
<1>10. ASSUME NEW l \in 1 .. MaxLevel
       PROVE  /\ Level(l) \in SUBSET Table /\ IsFiniteSet(Level(l))
              /\ Comparable(Level(l))
              /\ loaded[l] \subseteq Level(l)
              /\ up => \A t \in Level(l) : t.time <= timeId
  <2>1. CASE l \in DOMAIN deeper
    <3>1. Level(l) = deeper[l] /\ deeper[l] \in SUBSET Table
      BY <1>2, <2>1 DEF Level
    <3> QED BY <2>1, <3>1, <1>9 DEF FilesInv, LevelsFinite, AllComparable, Dated
  <2>2. CASE l \notin DOMAIN deeper
    <3>1. Level(l) = {}
      BY <2>2 DEF Level
    <3> QED BY <3>1, <1>8, FS_EmptySet DEF FilesInv
  <2> QED BY <2>1, <2>2
<1>11. Comparable(Level0Tables \cup Level(1))
  <2>1. Level(1) = IF deeper = <<>> THEN {} ELSE deeper[1]
    <3>1. deeper = <<>> <=> 1 \notin DOMAIN deeper
      BY <1>2, <1>3
    <3> QED BY <3>1 DEF Level
  <2> QED BY <1>9, <2>1 DEF AllComparable
<1>12. up => \A t \in Level0Tables : t.time <= timeId
  BY DEF FilesInv, Dated
<1> QED BY <1>2, <1>3, <1>4, <1>6, <1>7, <1>10, <1>11, <1>12

(* The level a compaction writes to is there afterwards.                   *)
LEMMA TargetLevel ==
  ASSUME FilesInv, NEW l \in 1 .. MaxLevel, l <= Len(deeper) + 1
  PROVE  /\ WithLevel(l) \in Seq(SUBSET Table)
         /\ WithLevel(l)[l] = Level(l)
         /\ DOMAIN WithLevel(l) = DOMAIN deeper \cup {l}
         /\ Len(WithLevel(l)) \in Nat /\ Len(WithLevel(l)) <= MaxLevel
         /\ DOMAIN WithLevel(l) = 1 .. Len(WithLevel(l))
         /\ \A m \in DOMAIN deeper : WithLevel(l)[m] = deeper[m]
         /\ \A S : Met(S, l) \in SUBSET Level(l)
<1>1. deeper \in Seq(SUBSET Table) /\ Len(deeper) <= MaxLevel /\ Len(deeper) \in Nat
  BY InvLevels
<1>2. /\ WithLevel(l) \in Seq(SUBSET Table)
      /\ DOMAIN WithLevel(l) = DOMAIN deeper \cup {l}
      /\ WithLevel(l)[l] = IF l \in DOMAIN deeper THEN deeper[l] ELSE {}
      /\ \A m \in DOMAIN deeper : WithLevel(l)[m] = deeper[m]
      /\ Len(WithLevel(l)) = IF l \in DOMAIN deeper THEN Len(deeper) ELSE l
  <2>1. l \in Nat \ {0}
    BY InvLevels
  <2> QED BY <1>1, <2>1, WithLevelFacts
<1>3. WithLevel(l)[l] = Level(l)
  BY <1>2 DEF Level
<1>4. \A S : Met(S, l) \in SUBSET Level(l)
  BY <1>3 DEF Met, Meeting
<1>5. Len(WithLevel(l)) \in Nat /\ DOMAIN WithLevel(l) = 1 .. Len(WithLevel(l))
  BY <1>2
<1> QED BY <1>1, <1>2, <1>3, <1>4, <1>5

(* A compaction into level t takes from every level l the tables gone[l]   *)
(* and adds `made` to level t.                                             *)
Rewrites(t, gone, made) ==
  /\ deeper' \in Seq(SUBSET Table)
  /\ DOMAIN deeper' = DOMAIN deeper \cup {t}
  /\ Len(deeper') <= MaxLevel
  /\ \A l \in DOMAIN deeper' :
       deeper'[l] = (Level(l) \ gone[l]) \cup IF l = t THEN made ELSE {}

LEMMA MergeLevel0Makes ==
  ASSUME FilesInv, up, CompactLevel0
  PROVE  LET met  == Met(Level0Tables, 1)
             gone == [l \in 1 .. MaxLevel |-> IF l = 1 THEN met ELSE {}]
         IN  /\ met \in SUBSET Level(1)
             /\ job' = Cascade(1, Cardinality(deeper'[1]))
             /\ \E made \in SUBSET Table :
                  /\ IsFiniteSet(made)
                  /\ \A m \in made : m.time <= timeId
                  /\ Rewrites(1, gone, made)
<1> DEFINE met   == Met(Level0Tables, 1)
           gone  == [l \in 1 .. MaxLevel |-> IF l = 1 THEN met ELSE {}]
           all   == met \cup Level0Tables
           made  == Made(MergeItems(all), 1, YoungestTime(all))
           W     == WithLevel(1)
           next  == (W[1] \ met) \cup made
<1>1. /\ 1 \in 1 .. MaxLevel /\ Len(deeper) \in Nat
      /\ W \in Seq(SUBSET Table) /\ W[1] = Level(1)
      /\ DOMAIN W = DOMAIN deeper \cup {1}
      /\ Len(W) \in Nat /\ Len(W) <= MaxLevel /\ DOMAIN W = 1 .. Len(W)
      /\ \A m \in DOMAIN deeper : W[m] = deeper[m]
      /\ met \in SUBSET Level(1)
  <2>1. 1 \in 1 .. MaxLevel /\ Len(deeper) \in Nat /\ 1 <= Len(deeper) + 1
    BY InvLevels
  <2> QED BY <2>1, TargetLevel
<1>2. /\ Level(1) \in SUBSET Table /\ IsFiniteSet(Level(1))
      /\ Level0Tables \in SUBSET Table /\ IsFiniteSet(Level0Tables)
      /\ Comparable(Level0Tables \cup Level(1))
      /\ \A t \in Level(1) : t.time <= timeId
      /\ \A t \in Level0Tables : t.time <= timeId
      /\ timeId \in Nat
  BY <1>1, InvLevels
<1>3. Level0Tables # {}
  <2>1. level0 # <<>> /\ level0 \in Seq(Table)
    BY InvLevels DEF CompactLevel0, FilesInv, JobHasTables
  <2>2. 1 \in DOMAIN level0
    BY <2>1
  <2> QED BY <2>2 DEF Level0Tables, Range
<1> HIDE DEF met, W
<1>4. all \in SUBSET Table /\ all # {} /\ \A t \in all : t.time <= timeId
  BY <1>1, <1>2, <1>3
<1>5. Comparable(all)
  BY <1>1, <1>2, SubsetComparable
<1>6. IsFiniteSet(all)
  <2>1. IsFiniteSet(met)
    BY <1>1, <1>2, FS_Subset
  <2> QED BY <1>2, <2>1, FS_Union
<1> HIDE DEF all
<1>7. YoungestTime(all) \in Nat /\ YoungestTime(all) <= timeId
  BY <1>2, <1>4, YoungestTimeOfSet
<1>8. MergedKeys(all) \in SUBSET Key /\ MergeItems(all) \in [MergedKeys(all) -> Item]
  BY <1>4, <1>5, <1>6, MergedTyped
<1>9. /\ made \in SUBSET Table /\ IsFiniteSet(made)
      /\ \A m \in made : m.time = YoungestTime(all)
  BY <1>7, <1>8, MadeTyped
<1>10. deeper' = [W EXCEPT ![1] = next]
  BY DEF CompactLevel0, W, met, all
<1> HIDE DEF made
<1>11. next \in SUBSET Table
  BY <1>1, <1>2, <1>9
<1>12. /\ deeper' \in Seq(SUBSET Table) /\ DOMAIN deeper' = DOMAIN W
       /\ Len(deeper') = Len(W)
  <2>1. DOMAIN deeper' = 1 .. Len(W) /\ \A l \in 1 .. Len(W) : deeper'[l] \in SUBSET Table
    BY <1>1, <1>10, <1>11
  <2>2. deeper' = [l \in 1 .. Len(W) |-> deeper'[l]]
    BY <1>1, <1>10
  <2> QED BY <1>1, <2>1, <2>2
<1>16. job' = Cascade(1, Cardinality(deeper'[1]))
  <2>1. deeper'[1] = next
    BY <1>1, <1>10
  <2>2. job' = Cascade(1, Cardinality(next))
    BY DEF CompactLevel0, W, met, all, made
  <2> QED BY <2>1, <2>2
<1>13. ASSUME NEW l \in DOMAIN deeper'
       PROVE  deeper'[l] = (Level(l) \ gone[l]) \cup IF l = 1 THEN made ELSE {}
  <2>1. l \in 1 .. MaxLevel
    BY <1>1, <1>12, InvLevels
  <2>2. CASE l = 1
    BY <1>1, <1>10, <1>12, <2>1, <2>2
  <2>3. CASE l # 1
    <3>1. l \in DOMAIN deeper /\ deeper'[l] = W[l] /\ Level(l) = deeper[l]
      BY <1>1, <1>10, <1>12, <2>3 DEF Level
    <3> QED BY <1>1, <2>1, <2>3, <3>1
  <2> QED BY <2>2, <2>3
<1>14. Rewrites(1, gone, made)
  BY <1>1, <1>12, <1>13 DEF Rewrites
<1>15. \A m \in made : m.time <= timeId
  BY <1>7, <1>9
<1> QED BY <1>1, <1>9, <1>14, <1>15, <1>16 DEF met

LEMMA MergeDownMakes ==
  ASSUME FilesInv, up, NEW l \in 1 .. MaxLevel, Compact(l)
  PROVE  LET moved == Excess(l)
             met   == Met(moved, l + 1)
             gone  == [m \in 1 .. MaxLevel |-> IF m = l THEN moved
                                              ELSE IF m = l + 1 THEN met ELSE {}]
         IN  /\ l \in DOMAIN deeper /\ l + 1 \in 1 .. MaxLevel /\ l + 1 <= Len(deeper) + 1
             /\ moved \in SUBSET Level(l)
             /\ met \in SUBSET Level(l + 1)
             /\ job' = Cascade(l + 1, Cardinality(deeper'[l + 1]))
             /\ \E made \in SUBSET Table :
                  /\ IsFiniteSet(made)
                  /\ \A m \in made : m.time <= timeId /\ \E u \in Level(l) : m.time = u.time
                  /\ Rewrites(l + 1, gone, made)
<1> DEFINE moved == Excess(l)
           t     == l + 1
           met   == Met(moved, t)
           gone  == [m \in 1 .. MaxLevel |-> IF m = l THEN moved
                                            ELSE IF m = t THEN met ELSE {}]
           items == Overlay(MergeItems(moved), MergeItems(met))
           made  == Made(items, t, YoungestTime(moved))
           W     == WithLevel(t)
           next  == (W[t] \ met) \cup made
<1>0. /\ l \in DOMAIN deeper /\ t \in 1 .. MaxLevel /\ t <= Len(deeper) + 1
      /\ Cardinality(deeper[l]) > LevelMax[l] /\ LevelMax[l] \in Nat
      /\ Level(l) = deeper[l]
  <2>1. job = l /\ l < MaxLevel
    BY DEF Compact
  <2>2. l \in DOMAIN deeper /\ Cardinality(deeper[l]) > LevelMax[l]
    BY <2>1 DEF FilesInv, JobHasTables
  <2> QED BY <2>1, <2>2, InvLevels, LevelAssumption DEF Level
<1>1. /\ W \in Seq(SUBSET Table) /\ W[t] = Level(t)
      /\ DOMAIN W = DOMAIN deeper \cup {t}
      /\ Len(W) \in Nat /\ Len(W) <= MaxLevel /\ DOMAIN W = 1 .. Len(W)
      /\ \A m \in DOMAIN deeper : W[m] = deeper[m]
      /\ met \in SUBSET Level(t)
  BY <1>0, TargetLevel
<1>2. /\ \A m \in {l, t} :
           /\ Level(m) \in SUBSET Table /\ IsFiniteSet(Level(m)) /\ Comparable(Level(m))
           /\ \A u \in Level(m) : u.time <= timeId
      /\ timeId \in Nat
  BY <1>0, InvLevels
<1>3. moved \in SUBSET Level(l) /\ moved # {}
  <2> DEFINE S == deeper[l]
             n == Cardinality(S) - LevelMax[l]
  <2>1. Cardinality(S) \in Nat
    BY <1>0, <1>2, FS_CardinalityType
  <2>2. n \in Int /\ n > 0
    BY <1>0, <2>1
  <2>3. S # {}
    <3>1. Cardinality(S) # 0
      BY <1>0, <2>1
    <3> QED BY <3>1, FS_EmptySet
  <2>4. moved = Oldest(S, n)
    BY DEF Excess
  <2>5. S \in SUBSET Table /\ S = Level(l)
    BY <1>0, <1>2
  <2> HIDE DEF S, n, moved
  <2>6. Oldest(S, n) # {}
    BY <2>2, <2>3, <2>5, OldestNonEmpty
  <2> QED BY <2>4, <2>5, <2>6 DEF Oldest
<1> HIDE DEF met, W, moved
<1>4. /\ moved \in SUBSET Table /\ IsFiniteSet(moved) /\ Comparable(moved)
      /\ \A u \in moved : u.time <= timeId
      /\ met \in SUBSET Table /\ IsFiniteSet(met) /\ Comparable(met)
  BY <1>1, <1>2, <1>3, FS_Subset, SubsetComparable
<1>5. /\ YoungestTime(moved) \in Nat /\ YoungestTime(moved) <= timeId
      /\ \E u \in Level(l) : YoungestTime(moved) = u.time
  BY <1>2, <1>3, <1>4, YoungestTimeOfSet
<1>6. /\ MergedKeys(moved) \in SUBSET Key /\ MergeItems(moved) \in [MergedKeys(moved) -> Item]
      /\ MergedKeys(met) \in SUBSET Key /\ MergeItems(met) \in [MergedKeys(met) -> Item]
  BY <1>4, MergedTyped
<1>7. items \in [MergedKeys(moved) \cup MergedKeys(met) -> Item]
  BY <1>6, OverlaidItems
<1> HIDE DEF items
<1>8. /\ made \in SUBSET Table /\ IsFiniteSet(made)
      /\ \A m \in made : m.time = YoungestTime(moved)
  <2> DEFINE D    == MergedKeys(moved) \cup MergedKeys(met)
             time == YoungestTime(moved)
  <2>1. D \in SUBSET Key /\ items \in [D -> Item] /\ time \in Nat
    BY <1>5, <1>6, <1>7
  <2> HIDE DEF D, time
  <2>2. /\ Made(items, t, time) \in SUBSET Table
        /\ IsFiniteSet(Made(items, t, time))
        /\ \A m \in Made(items, t, time) : m.time = time
    BY <2>1, MadeTyped
  <2> QED BY <2>2 DEF made, time
<1>9. deeper' = [W EXCEPT ![l] = @ \ moved, ![t] = next]
  BY DEF Compact, W, met, moved, items
<1> HIDE DEF made
<1>10. next \in SUBSET Table
  BY <1>1, <1>2, <1>8
<1>11. /\ DOMAIN deeper' = DOMAIN W
       /\ deeper'[t] = next
       /\ deeper'[l] = W[l] \ moved
       /\ \A m \in DOMAIN W : m # l /\ m # t => deeper'[m] = W[m]
  <2>1. l # t /\ l \in DOMAIN W /\ t \in DOMAIN W
    BY <1>0, <1>1
  <2> HIDE DEF t, next
  <2> QED BY <1>9, <2>1
<1>12. deeper' \in Seq(SUBSET Table) /\ Len(deeper') = Len(W)
  <2>1. \A m \in 1 .. Len(W) : W[m] \in SUBSET Table
    BY <1>1
  <2>2. \A m \in 1 .. Len(W) : deeper'[m] \in SUBSET Table
    BY <1>1, <1>10, <1>11, <2>1
  <2>3. deeper' = [m \in 1 .. Len(W) |-> deeper'[m]]
    BY <1>1, <1>9, <1>11
  <2> QED BY <1>1, <2>2, <2>3
<1>16. job' = Cascade(t, Cardinality(deeper'[t]))
  <2>1. job' = Cascade(t, Cardinality(next))
    BY DEF Compact, W, met, moved, items, made
  <2> QED BY <1>11, <2>1
<1>13. ASSUME NEW m \in DOMAIN deeper'
       PROVE  deeper'[m] = (Level(m) \ gone[m]) \cup IF m = t THEN made ELSE {}
  <2>1. m \in 1 .. MaxLevel
    BY <1>1, <1>11, InvLevels
  <2>2. m # t => m \in DOMAIN deeper /\ W[m] = deeper[m] /\ Level(m) = deeper[m]
    BY <1>1, <1>11 DEF Level
  <2>3. l # t
    BY <1>0
  <2>4. gone[m] = IF m = l THEN moved ELSE IF m = t THEN met ELSE {}
    BY <2>1
  <2> HIDE DEF gone, t
  <2>5. CASE m = t
    BY <1>1, <1>11, <2>3, <2>4, <2>5
  <2>6. CASE m = l
    BY <1>11, <2>2, <2>3, <2>4, <2>6
  <2>7. CASE m # l /\ m # t
    BY <1>11, <2>2, <2>4, <2>7
  <2> QED BY <2>5, <2>6, <2>7
<1>14. Rewrites(t, gone, made)
  BY <1>1, <1>11, <1>12, <1>13 DEF Rewrites
<1>15. \A m \in made : m.time <= timeId /\ \E u \in Level(l) : m.time = u.time
  BY <1>5, <1>8
<1> QED BY <1>0, <1>1, <1>3, <1>8, <1>14, <1>15, <1>16 DEF met, moved

----------------------------------------------------------------------------
(* A compaction leaves the right operations behind.                        *)

LEMMA NothingToDo ==
  ASSUME FilesInv, Idling
  PROVE  /\ dirs = DOMAIN disk \ {0}
         /\ \A l \in 1 .. MaxLevel : FilesSettle(disk, {}, l, Level(l) \ loaded[l])
<1>1. Range(todo) = {} /\ up
  BY DEF Idling, Range
<1>2. DirsSettle(disk, {}, dirs)
      /\ \A l \in 1 .. MaxLevel : FilesSettle(disk, {}, l, Level(l) \ loaded[l])
  BY <1>1 DEF FilesInv, CallEndsWithFiles
<1> QED BY <1>2 DEF DirsSettle, Unmade

LEMMA CompactionPlan ==
  ASSUME FilesInv, Idling, NEW t \in 1 .. MaxLevel,
         NEW gone \in [1 .. MaxLevel -> SUBSET Table],
         \A l \in 1 .. MaxLevel : gone[l] \subseteq Level(l),
         NEW made \in SUBSET Table, IsFiniteSet(made),
         \A m \in made : m.time <= timeId,
         Rewrites(t, gone, made), AllComparable',
         NEW del \in Seq(Operation), Injective(del),
         \A o \in Range(del) : o.op = "rmfile",
         \A l \in 1 .. MaxLevel :
           Doomed(Range(del), l) = {n \in DOMAIN Files(l) : Files(l)[n] \in gone[l] \ loaded[l]},
         todo' = EnsureDirectory(t)
                   \o (Writes(t, deeper'[t] \ (Level(t) \ gone[t])) \o del),
         \A l \in 1 .. MaxLevel : loaded'[l] = loaded[l] \ gone[l],
         disk' = disk, up' = up, dirs' = dirs \cup {t}
  PROVE  /\ todo' \in Seq(Operation)
         /\ TodoOrdered'
         /\ CallEndsWithFiles'
         /\ \A l \in 1 .. MaxLevel : (loaded[l] \subseteq Level(l))'
         /\ \A o \in Range(todo') : o.op = "write" => o.table.time <= timeId
<1> DEFINE A == deeper'[t] \ (Level(t) \ gone[t])
           W == Writes(t, A)
           E == EnsureDirectory(t)
           ops == Range(todo')
           NewLevel(l) == IF l \in DOMAIN deeper' THEN deeper'[l] ELSE {}
<1>1. /\ t \in DOMAIN deeper' /\ deeper'[t] = (Level(t) \ gone[t]) \cup made
      /\ deeper' \in Seq(SUBSET Table)
  BY DEF Rewrites
<1>2. A \in SUBSET made /\ A \cap (Level(t) \ gone[t]) = {}
      /\ deeper'[t] = (Level(t) \ gone[t]) \cup A
  BY <1>1
<1>3. \A l \in 1 .. MaxLevel :
        NewLevel(l) = (Level(l) \ gone[l]) \cup IF l = t THEN A ELSE {}
  <2> TAKE l \in 1 .. MaxLevel
  <2>1. CASE l \in DOMAIN deeper'
    BY <1>2, <2>1 DEF Rewrites
  <2>2. CASE l \notin DOMAIN deeper'
    BY <1>1, <2>2 DEF Rewrites, Level
  <2> QED BY <2>1, <2>2
<1>4. A \in SUBSET Table /\ IsFiniteSet(A) /\ Comparable(A)
  <2>1. Comparable(deeper'[t])
    BY <1>1 DEF AllComparable, Comparable, Before
  <2>2. A \in SUBSET deeper'[t]
    OBVIOUS
  <2> HIDE DEF A
  <2> QED BY <1>2, <2>1, <2>2, FS_Subset, SubsetComparable
<1> HIDE DEF A
<1>5. DiskTyped /\ t \in 0 .. MaxLevel /\ MaxLevel \in Nat
  BY InvLevels
<1>6. /\ W \in Seq(Operation)
      /\ Injective(W)
      /\ \A o \in Range(W) :
           /\ o.op = "write" /\ o.level = t /\ o.table \in A
           /\ o.number \notin DOMAIN Files(t)
      /\ \A u \in A : \E o \in Range(W) : o.table = u
      /\ \A o, p \in Range(W) : o.number = p.number \/ o.table = p.table => o = p
  BY <1>4, <1>5, WritesFacts
<1>7. /\ E \in Seq(Operation)
      /\ Injective(E)
      /\ Len(E) <= 1
      /\ Range(E) = IF t \in DOMAIN disk THEN {} ELSE {Mkdir(t)}
  BY <1>5, MakingDirectory
<1>8. todo' = E \o (W \o del)
  BY DEF A
<1> HIDE DEF E, W
<1>9. W \o del \in Seq(Operation) /\ Range(W \o del) = Range(W) \cup Range(del)
      /\ Injective(W \o del)
  <2>1. Range(W) \cap Range(del) = {}
    <3> SUFFICES ASSUME NEW o \in Range(W), o \in Range(del) PROVE FALSE
      OBVIOUS
    <3>1. o.op = "write" /\ o.op = "rmfile"
      BY <1>6
    <3> QED BY <3>1
  <2> QED BY <1>6, <2>1, Concatenated, ConcatenatedInjective
<1>10. /\ Mkdir(t).op = "mkdir" /\ Mkdir(t).level = t
       /\ RmrfAll.op = "rmrf"
  BY DEF Mkdir, RmrfAll
<1>11. /\ todo' \in Seq(Operation)
       /\ ops = Range(E) \cup (Range(W) \cup Range(del))
       /\ Injective(todo')
       /\ \A i \in DOMAIN todo' \ DOMAIN E : todo'[i] \in Range(W) \cup Range(del)
  <2> DEFINE R == W \o del
  <2>1. Range(E) \cap Range(R) = {}
    <3> SUFFICES ASSUME NEW o \in Range(E), o \in Range(R) PROVE FALSE
      OBVIOUS
    <3>1. o.op = "mkdir"
      BY <1>7, <1>10
    <3>2. o.op = "write" \/ o.op = "rmfile"
      BY <1>6, <1>9
    <3> QED BY <3>1, <3>2
  <2> HIDE DEF R
  <2>2. R \in Seq(Operation) /\ Injective(R) /\ Range(R) = Range(W) \cup Range(del)
    BY <1>9 DEF R
  <2>3. /\ E \o R \in Seq(Operation) /\ Range(E \o R) = Range(E) \cup Range(R)
        /\ \A i \in DOMAIN (E \o R) \ DOMAIN E :
             i - Len(E) \in DOMAIN R /\ (E \o R)[i] = R[i - Len(E)]
    BY <1>7, <2>2, Concatenated
  <2>4. Injective(E \o R)
    BY <1>7, <2>1, <2>2, ConcatenatedInjective
  <2>5. \A i \in DOMAIN R : R[i] \in Range(R)
    BY DEF Range
  <2> QED BY <1>8, <2>2, <2>3, <2>4, <2>5 DEF R
<1> HIDE DEF ops
<1>12. /\ RmrfAll \notin ops
       /\ Unmade(ops) = IF t \in DOMAIN disk THEN {} ELSE {t}
       /\ \A o \in ops : o.op = "write" => o \in Range(W)
  <2>1. \A o \in ops : \/ o = Mkdir(t) /\ t \notin DOMAIN disk
                       \/ o.op = "write" /\ o \in Range(W)
                       \/ o.op = "rmfile"
    <3> TAKE o \in ops
    <3>1. o \in Range(E) => o = Mkdir(t) /\ t \notin DOMAIN disk
      BY <1>7
    <3> QED BY <1>6, <1>11, <3>1
  <2>2. t \notin DOMAIN disk => Mkdir(t) \in ops
    BY <1>7, <1>11
  <2>3. RmrfAll \notin ops
    BY <1>10, <2>1
  <2>4. Unmade(ops) = IF t \in DOMAIN disk THEN {} ELSE {t}
    BY <1>10, <2>1, <2>2 DEF Unmade
  <2>5. \A o \in ops : o.op = "write" => o \in Range(W)
    BY <1>10, <2>1
  <2> QED BY <2>3, <2>4, <2>5
<1>13. TodoOrdered'
  <2>1. ASSUME NEW i \in DOMAIN todo', todo'[i].op = "mkdir"
        PROVE  i = 1
    <3>1. i \in DOMAIN E
      BY <1>6, <1>11, <2>1
    <3>2. DOMAIN E = 1 .. Len(E) /\ Len(E) \in Nat
      BY <1>7
    <3> QED BY <1>7, <3>1, <3>2
  <2> QED BY <1>11, <1>12, <2>1 DEF TodoOrdered, Injective, ops
<1>14. DirsSettle(disk, ops, dirs')
  <2>1. dirs = DOMAIN disk \ {0}
    BY NothingToDo
  <2>2. \A o \in ops : o.op = "write" => o.level \in DOMAIN disk \cup Unmade(ops)
    <3> TAKE o \in ops
    <3>1. o.op = "write" => o.level = t
      BY <1>6, <1>12
    <3> QED BY <1>12, <3>1
  <2>3. t # 0
    BY <1>5
  <2> QED BY <1>12, <2>1, <2>2, <2>3 DEF DirsSettle
<1>15. ASSUME NEW l \in 1 .. MaxLevel
       PROVE  /\ FilesSettle(disk, ops, l, NewLevel(l) \ loaded'[l])
              /\ loaded'[l] \subseteq NewLevel(l)
  <2> DEFINE S == Level(l) \ loaded[l]
             G == gone[l] \ loaded[l]
             T == IF l = t THEN A ELSE {}
  <2>1. FilesSettle(disk, {}, l, S)
    BY NothingToDo
  <2>2. loaded[l] \subseteq Level(l) /\ loaded'[l] = loaded[l] \ gone[l]
    BY InvLevels
  <2>3. T \cap (Level(l) \ gone[l]) = {} /\ NewLevel(l) = (Level(l) \ gone[l]) \cup T
    BY <1>2, <1>3
  <2>4. T \cap (S \ G) = {} /\ (S \ G) \cup T = NewLevel(l) \ loaded'[l]
        /\ loaded'[l] \subseteq NewLevel(l)
    BY <2>2, <2>3
  <2>5. Unwritten(ops, l) = IF l = t THEN Range(W) ELSE {}
    <3>1. \A o \in ops : o.op = "write" <=> o \in Range(W)
      BY <1>6, <1>12
    <3>2. Range(W) \subseteq ops /\ \A o \in Range(W) : o.level = t
      BY <1>6, <1>11
    <3> QED BY <3>1, <3>2 DEF Unwritten
  <2>6. Doomed(ops, l) = Doomed(Range(del), l)
    <3>1. \A o \in ops : o.op = "rmfile" <=> o \in Range(del)
      <4> TAKE o \in ops
      <4>1. o \in Range(E) => o.op = "mkdir"
        BY <1>7, <1>10
      <4> QED BY <1>6, <1>11, <4>1
    <3>2. Range(del) \subseteq ops
      BY <1>11
    <3> QED BY <3>1, <3>2 DEF Doomed
  <2>7. Doomed(ops, l) = {n \in DOMAIN Files(l) : Files(l)[n] \in G}
    BY <2>6
  <2>8. \A o \in Unwritten(ops, l) : o.table \in T /\ o.number \notin DOMAIN Files(l)
    BY <1>6, <2>5
  <2>9. \A u \in T : \E o \in Unwritten(ops, l) : o.table = u
    BY <1>6, <2>5
  <2>10. \A o, p \in Unwritten(ops, l) : o.number = p.number \/ o.table = p.table => o = p
    BY <1>6, <2>5
  <2>11. FilesSettle(disk, ops, l, (S \ G) \cup T)
    <3> HIDE DEF S, G, T
    <3> QED BY <2>1, <2>4, <2>7, <2>8, <2>9, <2>10, Planned
  <2> QED BY <2>4, <2>11
<1>16. CallEndsWithFiles' /\ \A l \in 1 .. MaxLevel : (loaded[l] \subseteq Level(l))'
  BY <1>12, <1>14, <1>15 DEF CallEndsWithFiles, Level, ops
<1>17. \A o \in ops : o.op = "write" => o.table.time <= timeId
  BY <1>2, <1>6, <1>12
<1> QED BY <1>11, <1>13, <1>16, <1>17 DEF ops

----------------------------------------------------------------------------
(* Every action preserves FilesInv.                                        *)

LEMMA RewrittenLevels ==
  ASSUME FilesInv, up, NEW t, NEW gone,
         NEW made \in SUBSET Table, IsFiniteSet(made),
         \A m \in made : m.time <= timeId,
         Rewrites(t, gone, made)
  PROVE  /\ deeper' \in Seq(SUBSET Table) /\ Len(deeper') <= MaxLevel
         /\ t \in DOMAIN deeper'
         /\ \A l \in DOMAIN deeper' :
              /\ IsFiniteSet(deeper'[l])
              /\ \A u \in deeper'[l] : u.time <= timeId
<1>1. /\ deeper' \in Seq(SUBSET Table) /\ Len(deeper') <= MaxLevel
      /\ t \in DOMAIN deeper'
      /\ \A l \in DOMAIN deeper' :
           deeper'[l] = (Level(l) \ gone[l]) \cup IF l = t THEN made ELSE {}
  BY DEF Rewrites
<1>2. DOMAIN deeper' = 1 .. Len(deeper') /\ Len(deeper') \in Nat /\ MaxLevel \in Nat
  BY <1>1, LevelAssumption
<1>3. ASSUME NEW l \in DOMAIN deeper'
      PROVE  /\ IsFiniteSet(deeper'[l])
             /\ \A u \in deeper'[l] : u.time <= timeId
  <2> DEFINE old == Level(l) \ gone[l]
             new == IF l = t THEN made ELSE {}
  <2>1. l \in 1 .. MaxLevel
    BY <1>1, <1>2
  <2>2. IsFiniteSet(Level(l)) /\ \A u \in Level(l) : u.time <= timeId
    BY <2>1, InvLevels
  <2>3. old \in SUBSET Level(l) /\ deeper'[l] = old \cup new
    BY <1>1
  <2>4. IsFiniteSet(new) /\ \A u \in new : u.time <= timeId
    BY FS_EmptySet
  <2> HIDE DEF old, new
  <2>5. IsFiniteSet(old)
    BY <2>2, <2>3, FS_Subset
  <2>6. IsFiniteSet(old \cup new)
    BY <2>4, <2>5, FS_Union
  <2> QED BY <2>2, <2>3, <2>4, <2>6
<1> QED BY <1>1, <1>3

LEMMA CascadeKeepsJob ==
  ASSUME NEW t \in 1 .. MaxLevel, t \in DOMAIN deeper',
         Cardinality(deeper'[t]) \in Nat,
         job' = Cascade(t, Cardinality(deeper'[t]))
  PROVE  job' \in {Idle} \cup 0 .. MaxLevel /\ JobHasTables'
<1>1. /\ job' \in {Idle, t}
      /\ job' = t => Cardinality(deeper'[t]) > LevelMax[t]
  BY CascadeFacts
<1>2. MaxLevel \in Nat
  BY LevelAssumption
<1>3. job' # 0 /\ \A l \in 1 .. MaxLevel : job' = l => l = t
  BY <1>1, <1>2 DEF Idle
<1>4. job' \in {Idle} \cup 0 .. MaxLevel
  BY <1>1, <1>2
<1> QED BY <1>1, <1>3, <1>4 DEF JobHasTables

LEMMA CompactionKeepsFiles ==
  ASSUME FilesInv, Idling, NEW t \in 1 .. MaxLevel,
         NEW gone \in [1 .. MaxLevel -> SUBSET Table],
         \A l \in 1 .. MaxLevel : gone[l] \subseteq Level(l),
         NEW made \in SUBSET Table, IsFiniteSet(made),
         \A m \in made : m.time <= timeId,
         Rewrites(t, gone, made), AllComparable',
         NEW del \in Seq(Operation), Injective(del),
         \A o \in Range(del) : o.op = "rmfile",
         \A l \in 1 .. MaxLevel :
           Doomed(Range(del), l) = {n \in DOMAIN Files(l) : Files(l)[n] \in gone[l] \ loaded[l]},
         todo' = EnsureDirectory(t)
                   \o (Writes(t, deeper'[t] \ (Level(t) \ gone[t])) \o del),
         loaded' \in [0 .. MaxLevel -> SUBSET Table],
         \A l \in 1 .. MaxLevel : loaded'[l] = loaded[l] \ gone[l],
         job' = Cascade(t, Cardinality(deeper'[t])),
         level0' \in {<<>>, level0}, timeId' = timeId,
         disk' = disk, up' = up, dirs' = dirs \cup {t}
  PROVE  FilesInv'
<1>1. /\ todo' \in Seq(Operation)
      /\ TodoOrdered'
      /\ CallEndsWithFiles'
      /\ \A l \in 1 .. MaxLevel : (loaded[l] \subseteq Level(l))'
      /\ \A o \in Range(todo') : o.op = "write" => o.table.time <= timeId
  BY CompactionPlan
<1>2. /\ deeper' \in Seq(SUBSET Table) /\ Len(deeper') <= MaxLevel
      /\ t \in DOMAIN deeper'
      /\ \A l \in DOMAIN deeper' :
           /\ IsFiniteSet(deeper'[l])
           /\ \A u \in deeper'[l] : u.time <= timeId
  BY RewrittenLevels DEF Idling
<1>3. TreeTypeOK /\ dirs' \subseteq 1 .. MaxLevel
  BY DEF FilesInv, PersistTypeOK, TreeTypeOK
<1>4. Cardinality(deeper'[t]) \in Nat
  BY <1>2, FS_CardinalityType
<1>5. job' \in {Idle} \cup 0 .. MaxLevel /\ JobHasTables'
  BY <1>2, <1>4, CascadeKeepsJob
<1>6. TreeTypeOK'
  <2>1. level0' \in Seq(Table)
    <3>1. <<>> \in Seq(Table)
      OBVIOUS
    <3>2. level0 \in Seq(Table)
      BY <1>3 DEF TreeTypeOK
    <3> QED BY <3>1, <3>2
  <2>2. timeId' \in Nat
    BY <1>3 DEF TreeTypeOK
  <2> QED BY <1>2, <1>3, <1>5, <2>1, <2>2 DEF TreeTypeOK
<1>8. PersistTypeOK'
  BY <1>1, <1>6 DEF FilesInv, PersistTypeOK
<1>9. Dated(timeId)'
  <2>1. \A u \in Level0Tables' : u.time <= timeId
    <3>1. Level0Tables' \subseteq Level0Tables
      BY DEF Level0Tables, Range
    <3> QED BY <3>1, InvLevels DEF Idling
  <2> QED BY <1>1, <1>2, <2>1 DEF FilesInv, Dated, Idling
<1>10. LevelsFinite' /\ up'
  BY <1>2 DEF LevelsFinite, Idling
<1> QED BY <1>1, <1>2, <1>5, <1>8, <1>9, <1>10 DEF FilesInv

LEMMA FilesOfLevel ==
  ASSUME FilesInv, Idling, NEW l \in 1 .. MaxLevel, NEW T \in SUBSET Level(l)
  PROVE  LET D == Deletions(l, T)
         IN  /\ D \in Seq(Operation)
             /\ Injective(D)
             /\ \A o \in Range(D) : o.op = "rmfile" /\ o.level = l
             /\ Doomed(Range(D), l) = {m \in DOMAIN Files(l) : Files(l)[m] \in T \ loaded[l]}
             /\ \A k : k # l => Doomed(Range(D), k) = {}
<1> DEFINE D == Deletions(l, T)
<1>1. /\ DiskTyped /\ T \in SUBSET Table /\ IsFiniteSet(T) /\ Comparable(T)
  BY InvLevels, FS_Subset, SubsetComparable
<1>2. FilesSettle(disk, {}, l, Level(l) \ loaded[l])
  BY NothingToDo
<1>3. /\ T \ loaded[l] \subseteq FileTables(l)
      /\ \A m, n \in DOMAIN Files(l) : Files(l)[m] = Files(l)[n] => m = n
  BY <1>2, SettledFiles
<1>4. /\ D \in Seq(Operation)
      /\ Injective(D)
      /\ \A o \in Range(D) : o.op = "rmfile" /\ o.level = l
      /\ {o.number : o \in Range(D)} = {m \in DOMAIN Files(l) : Files(l)[m] \in T \ loaded[l]}
  BY <1>1, <1>3, DeletionsFacts
<1> HIDE DEF D
<1>5. Doomed(Range(D), l) = {o.number : o \in Range(D)}
  BY <1>4 DEF Doomed
<1>6. \A k : k # l => Doomed(Range(D), k) = {}
  BY <1>4 DEF Doomed
<1> QED BY <1>4, <1>5, <1>6 DEF D

LEMMA MergeLevel0Keeps ==
  ASSUME FilesInv, MergeLevel0, AllComparable'
  PROVE  FilesInv'
<1> DEFINE met  == Met(Level0Tables, 1)
           gone == [l \in 1 .. MaxLevel |-> IF l = 1 THEN met ELSE {}]
           del  == Deletions(1, met)
<1>1. /\ Idling /\ up /\ CompactLevel0 /\ 1 \in 1 .. MaxLevel
      /\ todo' = EnsureDirectory(1) \o Replace(Writes(1, Added(1, met)), del)
      /\ loaded' = [loaded EXCEPT ![0] = {}, ![1] = @ \ met]
      /\ up' = up /\ disk' = disk
  BY InvLevels DEF MergeLevel0, Idling
<1>2. /\ met \in SUBSET Level(1)
      /\ job' = Cascade(1, Cardinality(deeper'[1]))
  BY <1>1, MergeLevel0Makes
<1>3. PICK made \in SUBSET Table :
        /\ IsFiniteSet(made)
        /\ \A m \in made : m.time <= timeId
        /\ Rewrites(1, gone, made)
  BY <1>1, MergeLevel0Makes
<1>4. /\ level0' = <<>> /\ timeId' = timeId /\ dirs' = dirs \cup {1}
  BY <1>1 DEF CompactLevel0
<1> HIDE DEF met
<1>5. /\ Level(1) \in SUBSET Table
      /\ gone \in [1 .. MaxLevel -> SUBSET Table]
      /\ gone[1] = met
      /\ \A l \in 1 .. MaxLevel : gone[l] \subseteq Level(l)
  BY <1>1, <1>2, InvLevels
<1>6. /\ loaded' \in [0 .. MaxLevel -> SUBSET Table]
      /\ \A l \in 1 .. MaxLevel : loaded'[l] = loaded[l] \ gone[l]
  <2>1. loaded \in [0 .. MaxLevel -> SUBSET Table] /\ MaxLevel \in Nat
    BY LevelAssumption DEF FilesInv, PersistTypeOK
  <2> QED BY <1>1, <2>1
<1>7. /\ del \in Seq(Operation) /\ Injective(del)
      /\ \A o \in Range(del) : o.op = "rmfile"
      /\ \A l \in 1 .. MaxLevel :
           Doomed(Range(del), l) = {n \in DOMAIN Files(l) : Files(l)[n] \in gone[l] \ loaded[l]}
  <2>1. /\ del \in Seq(Operation) /\ Injective(del)
        /\ \A o \in Range(del) : o.op = "rmfile" /\ o.level = 1
        /\ Doomed(Range(del), 1) = {n \in DOMAIN Files(1) : Files(1)[n] \in met \ loaded[1]}
        /\ \A k : k # 1 => Doomed(Range(del), k) = {}
    BY <1>1, <1>2, FilesOfLevel
  <2> HIDE DEF del
  <2> QED BY <1>5, <2>1
<1>8. todo' = EnsureDirectory(1) \o (Writes(1, deeper'[1] \ (Level(1) \ gone[1])) \o del)
  <2>1. WithLevel(1)[1] = Level(1)
    <3>1. 1 <= Len(deeper) + 1
      BY InvLevels
    <3> QED BY <1>1, <3>1, TargetLevel
  <2>2. Added(1, met) = deeper'[1] \ (Level(1) \ gone[1])
    BY <1>5, <2>1 DEF Added
  <2> HIDE DEF gone, del
  <2> QED BY <1>1, <2>2 DEF Replace
<1> HIDE DEF gone, del
<1> QED BY <1>1, <1>2, <1>3, <1>4, <1>5, <1>6, <1>7, <1>8, CompactionKeepsFiles

LEMMA MergeDownKeeps ==
  ASSUME FilesInv, NEW l \in 1 .. MaxLevel, MergeDown(l), AllComparable'
  PROVE  FilesInv'
<1> DEFINE t     == l + 1
           moved == Excess(l)
           met   == Met(moved, t)
           gone  == [m \in 1 .. MaxLevel |-> IF m = l THEN moved
                                            ELSE IF m = t THEN met ELSE {}]
           delA  == Deletions(l, moved)
           delB  == Deletions(t, met)
           del   == delA \o delB
<1>1. /\ Idling /\ up /\ Compact(l)
      /\ todo' = EnsureDirectory(t) \o Replace(Writes(t, Added(t, met)), del)
      /\ loaded' = [loaded EXCEPT ![l] = @ \ moved, ![t] = @ \ met]
      /\ up' = up /\ disk' = disk
  BY DEF MergeDown, Idling
<1>2. /\ t \in 1 .. MaxLevel /\ t <= Len(deeper) + 1
      /\ moved \in SUBSET Level(l)
      /\ met \in SUBSET Level(t)
      /\ job' = Cascade(t, Cardinality(deeper'[t]))
  BY <1>1, MergeDownMakes
<1>3. PICK made \in SUBSET Table :
        /\ IsFiniteSet(made)
        /\ \A m \in made : m.time <= timeId
        /\ Rewrites(t, gone, made)
  BY <1>1, MergeDownMakes
<1>4. level0' = level0 /\ timeId' = timeId /\ dirs' = dirs \cup {t} /\ l # t
  BY <1>1 DEF Compact
<1> HIDE DEF met, moved, t
<1>5. /\ gone \in [1 .. MaxLevel -> SUBSET Table]
      /\ gone[t] = met /\ gone[l] = moved
      /\ \A m \in 1 .. MaxLevel : gone[m] \subseteq Level(m)
      /\ \A m \in 1 .. MaxLevel : m # l /\ m # t => gone[m] = {}
  <2>1. Level(l) \in SUBSET Table /\ Level(t) \in SUBSET Table
    BY <1>2, InvLevels
  <2> QED BY <1>2, <1>4, <2>1
<1>6. /\ loaded' \in [0 .. MaxLevel -> SUBSET Table]
      /\ loaded'[0] = loaded[0]
      /\ \A m \in 1 .. MaxLevel : loaded'[m] = loaded[m] \ gone[m]
  <2>1. loaded \in [0 .. MaxLevel -> SUBSET Table] /\ MaxLevel \in Nat
    BY LevelAssumption DEF FilesInv, PersistTypeOK
  <2> QED BY <1>1, <1>2, <1>4, <1>5, <2>1
<1> HIDE DEF gone
<1>7. /\ del \in Seq(Operation) /\ Injective(del)
      /\ \A o \in Range(del) : o.op = "rmfile"
      /\ \A m \in 1 .. MaxLevel :
           Doomed(Range(del), m) = {n \in DOMAIN Files(m) : Files(m)[n] \in gone[m] \ loaded[m]}
  <2>1. /\ delA \in Seq(Operation) /\ Injective(delA)
        /\ \A o \in Range(delA) : o.op = "rmfile" /\ o.level = l
        /\ Doomed(Range(delA), l) = {n \in DOMAIN Files(l) : Files(l)[n] \in moved \ loaded[l]}
        /\ \A k : k # l => Doomed(Range(delA), k) = {}
    BY <1>1, <1>2, FilesOfLevel
  <2>2. /\ delB \in Seq(Operation) /\ Injective(delB)
        /\ \A o \in Range(delB) : o.op = "rmfile" /\ o.level = t
        /\ Doomed(Range(delB), t) = {n \in DOMAIN Files(t) : Files(t)[n] \in met \ loaded[t]}
        /\ \A k : k # t => Doomed(Range(delB), k) = {}
    BY <1>1, <1>2, FilesOfLevel
  <2> HIDE DEF delA, delB
  <2>3. Range(delA) \cap Range(delB) = {}
    BY <1>4, <2>1, <2>2
  <2>4. /\ del \in Seq(Operation) /\ Injective(del)
        /\ Range(del) = Range(delA) \cup Range(delB)
    BY <2>1, <2>2, <2>3, Concatenated, ConcatenatedInjective
  <2> HIDE DEF del
  <2>5. \A m : Doomed(Range(del), m) = Doomed(Range(delA), m) \cup Doomed(Range(delB), m)
    BY <2>4 DEF Doomed
  <2>6. ASSUME NEW m \in 1 .. MaxLevel
        PROVE  Doomed(Range(del), m) = {n \in DOMAIN Files(m) : Files(m)[n] \in gone[m] \ loaded[m]}
    <3>1. CASE m = l
      BY <1>4, <1>5, <2>1, <2>2, <2>5, <3>1
    <3>2. CASE m = t
      BY <1>4, <1>5, <2>1, <2>2, <2>5, <3>2
    <3>3. CASE m # l /\ m # t
      BY <1>5, <2>1, <2>2, <2>5, <3>3
    <3> QED BY <3>1, <3>2, <3>3
  <2> QED BY <2>1, <2>2, <2>4, <2>6
<1> HIDE DEF del
<1>8. todo' = EnsureDirectory(t) \o (Writes(t, deeper'[t] \ (Level(t) \ gone[t])) \o del)
  <2>1. WithLevel(t)[t] = Level(t)
    BY <1>2, TargetLevel
  <2>2. Added(t, met) = deeper'[t] \ (Level(t) \ gone[t])
    BY <1>5, <2>1 DEF Added
  <2> QED BY <1>1, <2>2 DEF Replace
<1> QED BY <1>1, <1>2, <1>3, <1>4, <1>5, <1>6, <1>7, <1>8, CompactionKeepsFiles

LEMMA FlushKeeps ==
  ASSUME FilesInv, NEW items \in MemtableRuns, FlushTable(items), AllComparable'
  PROVE  FilesInv'
<1> DEFINE t == [time |-> timeId, items |-> items]
           n == Len(level0) + 1
           w == Write(0, n, t)
           E == EnsureDirectory(0)
           ops == Range(todo')
<1>1. /\ level0 \in Seq(Table) /\ Len(level0) \in Nat /\ timeId \in Nat
      /\ deeper \in Seq(SUBSET Table) /\ dirs \subseteq 1 .. MaxLevel
      /\ MaxLevel \in Nat /\ up /\ Idling
  BY InvLevels DEF FilesInv, PersistTypeOK, TreeTypeOK, FlushTable, Idling
<1>2. t \in Table
  BY <1>1 DEF Table, MemtableRuns, MemtableKeys, Runs
<1>3. /\ level0' = Append(level0, t) /\ timeId' = timeId + 1
      /\ deeper' = deeper /\ dirs' = dirs
      /\ job' = IF Len(level0') > Level0Max THEN 0 ELSE Idle
      /\ up' = up /\ disk' = disk /\ loaded' = loaded
      /\ todo' = IF FirstFlush \/ Len(level0') > Level0Max THEN <<>>
                 ELSE E \o <<Write(0, Len(level0'), level0'[Len(level0')])>>
  BY DEF FlushTable, AddTable
<1> HIDE DEF t
<1>4. /\ level0' \in Seq(Table) /\ Len(level0') = n /\ level0'[n] = t
      /\ DOMAIN level0' = 1 .. n
      /\ \A i \in DOMAIN level0 : level0'[i] = level0[i]
  BY <1>1, <1>2, <1>3
<1>5. TreeTypeOK'
  BY <1>1, <1>3, <1>4, LevelAssumption DEF TreeTypeOK, Idle
<1>6. JobHasTables'
  <2>1. level0' # <<>>
    BY <1>1, <1>4
  <2>2. \A l \in 1 .. MaxLevel : job' # l
    BY <1>1, <1>3 DEF Idle
  <2> QED BY <2>1, <2>2 DEF JobHasTables
<1>7. /\ E \in Seq(Operation)
      /\ Injective(E)
      /\ Len(E) <= 1
      /\ Range(E) = IF 0 \in DOMAIN disk THEN {} ELSE {Mkdir(0)}
  BY <1>1, MakingDirectory
<1>8. /\ w \in Operation /\ w.op = "write" /\ w.level = 0 /\ w.table = t
      /\ Mkdir(0).op = "mkdir" /\ Mkdir(0).level = 0
      /\ RmrfAll.op = "rmrf"
  <2>1. n \in Nat /\ 0 \in 0 .. MaxLevel
    BY <1>1
  <2> HIDE DEF n
  <2> QED BY <1>2, <2>1, Operations DEF Write, Mkdir, RmrfAll
<1> HIDE DEF w, E
<1>9. /\ todo' \in Seq(Operation)
      /\ Injective(todo')
      /\ \A i \in DOMAIN todo' : todo'[i] \in ops
      /\ \/ ops = {}
         \/ ops = {w} /\ 0 \in DOMAIN disk
         \/ ops = {Mkdir(0), w} /\ 0 \notin DOMAIN disk
      /\ \A i \in DOMAIN todo' : todo'[i].op = "mkdir" => i = 1
  <2>1. CASE todo' = <<>>
    <3>1. DOMAIN todo' = {} /\ todo' \in Seq(Operation)
      BY <2>1
    <3> QED BY <3>1 DEF Injective, Range
  <2>2. CASE todo' = E \o <<w>>
    <3> DEFINE v == <<w>>
    <3>1. v \in Seq(Operation) /\ Len(v) = 1 /\ DOMAIN v = {1} /\ v[1] = w
      BY <1>8
    <3> HIDE DEF v
    <3>2. Range(v) = {w} /\ Injective(v)
      BY <3>1 DEF Range, Injective
    <3>3. Range(E) \cap Range(v) = {}
      BY <1>7, <1>8, <3>2
    <3>4. /\ E \o v \in Seq(Operation) /\ Range(E \o v) = Range(E) \cup Range(v)
          /\ \A i \in DOMAIN (E \o v) \ DOMAIN E :
               i - Len(E) \in DOMAIN v /\ (E \o v)[i] = v[i - Len(E)]
          /\ Injective(E \o v)
      BY <1>7, <3>1, <3>2, <3>3, Concatenated, ConcatenatedInjective
    <3>5. todo' = E \o v
      BY <2>2 DEF v
    <3>6. ops = IF 0 \in DOMAIN disk THEN {w} ELSE {Mkdir(0), w}
      BY <1>7, <3>2, <3>4, <3>5
    <3>7. ASSUME NEW i \in DOMAIN todo', todo'[i].op = "mkdir"
          PROVE  i = 1
      <4>1. i \in DOMAIN E
        BY <1>8, <3>1, <3>4, <3>5, <3>7
      <4>2. DOMAIN E = 1 .. Len(E) /\ Len(E) \in Nat
        BY <1>7
      <4> QED BY <1>7, <4>1, <4>2
    <3>8. \A i \in DOMAIN todo' : todo'[i] \in ops
      BY DEF Range
    <3> QED BY <3>4, <3>5, <3>6, <3>7, <3>8
  <2> QED BY <1>3, <1>4, <2>1, <2>2 DEF w
<1> HIDE DEF ops
<1>10. \A o \in ops : /\ o = w \/ o = Mkdir(0)
                      /\ o.op # "rmfile" /\ o.op # "rmrf" /\ o.level = 0
                      /\ o.op = "write" => o = w
  BY <1>8, <1>9
<1>11. TodoOrdered'
  BY <1>8, <1>9, <1>10 DEF TodoOrdered, Injective, ops
<1>12. \A l \in 1 .. MaxLevel : Unwritten(ops, l) = {} /\ Doomed(ops, l) = {}
  BY <1>1, <1>10 DEF Unwritten, Doomed
<1>13. \A l \in 1 .. MaxLevel : FilesSettle(disk, ops, l, Level(l) \ loaded[l])
  <2> TAKE l \in 1 .. MaxLevel
  <2>1. FilesSettle(disk, {}, l, Level(l) \ loaded[l])
    BY <1>1, NothingToDo
  <2>2. Unwritten({}, l) = {} /\ Doomed({}, l) = {}
    BY DEF Unwritten, Doomed
  <2>3. FilePairs(disk, {}, l) = FilePairs(disk, ops, l)
    BY <1>12, <2>2 DEF FilePairs
  <2> QED BY <1>12, <2>1, <2>3 DEF FilesSettle
<1>14. DirsSettle(disk, ops, dirs)
  <2>1. dirs = DOMAIN disk \ {0}
    BY <1>1, NothingToDo
  <2>2. \/ Unmade(ops) = {} /\ ops = {}
        \/ Unmade(ops) = {} /\ 0 \in DOMAIN disk
        \/ Unmade(ops) = {0} /\ 0 \notin DOMAIN disk
    <3>1. CASE ops = {}
      BY <3>1 DEF Unmade
    <3>2. CASE ops = {w} /\ 0 \in DOMAIN disk
      BY <1>8, <3>2 DEF Unmade
    <3>3. CASE ops = {Mkdir(0), w} /\ 0 \notin DOMAIN disk
      BY <1>8, <3>3 DEF Unmade
    <3> QED BY <1>9, <3>1, <3>2, <3>3
  <2>3. \A o \in ops : o.level = 0
    BY <1>10
  <2> QED BY <2>1, <2>2, <2>3 DEF DirsSettle
<1>15. CallEndsWithFiles'
  <2>1. RmrfAll \notin ops
    BY <1>8, <1>10
  <2>2. \A l \in 1 .. MaxLevel : Level(l)' = Level(l)
    BY <1>3 DEF Level
  <2> QED BY <1>3, <1>13, <1>14, <2>1, <2>2 DEF CallEndsWithFiles, ops
<1>16. Dated(timeId)'
  <2>1. Dated(timeId)
    BY <1>1 DEF FilesInv
  <2>2. t.time = timeId
    BY DEF t
  <2>3. ASSUME NEW u, u \in Level0Tables', u \in Table
        PROVE  u.time <= timeId'
    <3>1. PICK i \in 1 .. n : u = level0'[i]
      BY <1>4, <2>3 DEF Level0Tables, Range
    <3>2. CASE i = n
      BY <1>1, <1>3, <1>4, <2>2, <3>1, <3>2
    <3>3. CASE i # n
      <4>1. i \in DOMAIN level0 /\ u = level0[i]
        BY <1>1, <1>4, <3>1, <3>3
      <4>2. u.time <= timeId
        BY <2>1, <4>1 DEF Dated, Level0Tables, Range
      <4>3. u.time \in Nat
        BY <2>3, TableKeys
      <4> QED BY <1>1, <1>3, <4>2, <4>3
    <3> QED BY <3>2, <3>3
  <2>4. ASSUME NEW l \in DOMAIN deeper', NEW u \in deeper'[l]
        PROVE  u.time <= timeId'
    <3>1. u \in Table /\ u.time <= timeId
      BY <1>1, <1>3, <2>1, <2>4 DEF Dated
    <3> QED BY <1>1, <1>3, <3>1, TableKeys
  <2>5. ASSUME NEW l \in DOMAIN disk', NEW m \in DOMAIN disk'[l]
        PROVE  disk'[l][m].time <= timeId'
    <3>1. disk[l][m] \in Table /\ disk[l][m].time <= timeId
      BY <1>3, <2>1, <2>5 DEF Dated, FilesInv, PersistTypeOK
    <3> QED BY <1>1, <1>3, <3>1, TableKeys
  <2>6. \A o \in ops : o.op = "write" => o.table.time <= timeId'
    BY <1>1, <1>3, <1>8, <1>10, <2>2
  <2>7. \A u \in Level0Tables' : u \in Table
    BY <1>4 DEF Level0Tables, Range
  <2> QED BY <2>3, <2>4, <2>5, <2>6, <2>7 DEF Dated, ops
<1>17. PersistTypeOK'
  BY <1>3, <1>5, <1>9 DEF FilesInv, PersistTypeOK
<1>18. LevelsFinite' /\ Len(deeper') <= MaxLevel /\ \A l \in 1 .. MaxLevel : (loaded[l] \subseteq Level(l))'
  BY <1>3 DEF FilesInv, LevelsFinite, Level
<1> QED BY <1>1, <1>3, <1>6, <1>11, <1>15, <1>16, <1>17, <1>18 DEF FilesInv

(* A tree without tables satisfies the parts on the tree.                  *)
LEMMA EmptyTree ==
  /\ <<>> \in Seq(Table) /\ <<>> \in Seq(SUBSET Table) /\ <<>> \in Seq(Operation)
  /\ DOMAIN <<>> = {} /\ Len(<<>>) = 0 /\ Range(<<>>) = {}
  /\ NothingLoaded \in [0 .. MaxLevel -> SUBSET Table]
  /\ \A l \in 0 .. MaxLevel : NothingLoaded[l] = {}
  /\ \A l \in 1 .. MaxLevel : l \in 0 .. MaxLevel
  /\ Idle # 0 /\ \A l \in 1 .. MaxLevel : Idle # l
<1>1. Idle # 0 /\ \A l \in 1 .. MaxLevel : Idle # l
  BY LevelAssumption DEF Idle
<1>2. DOMAIN <<>> = {} /\ Range(<<>>) = {}
  BY DEF Range
<1>3. \A l \in 1 .. MaxLevel : l \in 0 .. MaxLevel
  BY LevelAssumption
<1> QED BY <1>1, <1>2, <1>3 DEF NothingLoaded

LEMMA EndKeeps ==
  ASSUME FilesInv, Crash, AllComparable'
  PROVE  FilesInv'
<1>1. /\ up' = FALSE /\ level0' = <<>> /\ deeper' = <<>> /\ timeId' = 0 /\ job' = Idle
      /\ dirs' = {} /\ todo' = <<>> /\ loaded' = NothingLoaded /\ disk' = disk
  BY DEF Crash
<1>2. PersistTypeOK'
  BY <1>1, EmptyTree DEF FilesInv, PersistTypeOK, TreeTypeOK
<1>3. JobHasTables' /\ LevelsFinite' /\ Len(deeper') <= MaxLevel
  BY <1>1, EmptyTree, LevelAssumption DEF JobHasTables, LevelsFinite
<1>4. \A l \in 1 .. MaxLevel : (loaded[l] \subseteq Level(l))'
  BY <1>1, EmptyTree
<1>5. TodoOrdered'
  BY <1>1, EmptyTree DEF TodoOrdered
<1> QED BY <1>1, <1>2, <1>3, <1>4, <1>5 DEF FilesInv

LEMMA ResetKeeps ==
  ASSUME FilesInv, ResetFiles, AllComparable'
  PROVE  FilesInv'
<1>1. /\ up /\ up' = up /\ level0' = <<>> /\ deeper' = <<>> /\ timeId' = timeId /\ job' = job
      /\ job = Idle
      /\ dirs' = {} /\ todo' = <<RmrfAll>> /\ loaded' = NothingLoaded /\ disk' = disk
  BY DEF ResetFiles, ResetTree, Idling
<1>2. /\ <<RmrfAll>> \in Seq(Operation) /\ DOMAIN <<RmrfAll>> = {1} /\ <<RmrfAll>>[1] = RmrfAll
      /\ Range(<<RmrfAll>>) = {RmrfAll} /\ RmrfAll.op = "rmrf"
  <2>1. RmrfAll \in Operation /\ RmrfAll.op = "rmrf"
    BY DEF RmrfAll, Operation
  <2> QED BY <2>1 DEF Range
<1>3. PersistTypeOK'
  BY <1>1, <1>2, EmptyTree DEF FilesInv, PersistTypeOK, TreeTypeOK
<1>4. JobHasTables' /\ LevelsFinite' /\ Len(deeper') <= MaxLevel
  BY <1>1, EmptyTree, LevelAssumption DEF JobHasTables, LevelsFinite
<1>5. \A l \in 1 .. MaxLevel : (loaded[l] \subseteq Level(l))'
  BY <1>1, EmptyTree
<1>6. TodoOrdered'
  BY <1>1, <1>2 DEF TodoOrdered
<1>7. CallEndsWithFiles'
  <2>1. \A l \in 1 .. MaxLevel : Level(l)' = {}
    BY <1>1, EmptyTree DEF Level
  <2> QED BY <1>1, <1>2, <2>1 DEF CallEndsWithFiles
<1>8. Dated(timeId)'
  <2>1. Level0Tables' = {}
    BY <1>1, EmptyTree DEF Level0Tables
  <2> QED BY <1>1, <1>2, <2>1, EmptyTree DEF FilesInv, Dated
<1> QED BY <1>1, <1>3, <1>4, <1>5, <1>6, <1>7, <1>8 DEF FilesInv

LEMMA OperationKeeps ==
  ASSUME FilesInv, FileStep, AllComparable'
  PROVE  FilesInv'
<1> DEFINE o    == Head(todo)
           ops  == Range(todo)
           rest == Range(todo')
<1>1. /\ todo # <<>> /\ todo \in Seq(Operation)
      /\ disk' = AfterOperation(disk, o) /\ todo' = Tail(todo)
      /\ level0' = level0 /\ deeper' = deeper /\ timeId' = timeId /\ job' = job
      /\ dirs' = dirs /\ up' = up /\ loaded' = loaded
  BY DEF FileStep, treeVars, FilesInv, PersistTypeOK
<1>2. up /\ TodoOrdered /\ CallEndsWithFiles /\ Dated(timeId)
  BY <1>1 DEF FilesInv
<1>3. /\ o \in Operation /\ o = todo[1] /\ o \in ops
      /\ todo' \in Seq(Operation)
      /\ \A i \in DOMAIN todo' : i + 1 \in DOMAIN todo /\ todo'[i] = todo[i + 1]
      /\ rest = ops \ {o}
  BY <1>1, <1>2, TailFacts DEF TodoOrdered, Injective
<1>4. RmrfAll.op = "rmrf" /\ \A p \in Operation : p.op = "rmrf" => p = RmrfAll
  BY DEF RmrfAll, Operation
<1>5. DOMAIN todo' = 1 .. Len(todo') /\ Len(todo') \in Nat /\ DOMAIN todo = 1 .. Len(todo)
      /\ Len(todo) \in Nat /\ Len(todo) > 0
  BY <1>1, <1>3
<1>6. \A p \in rest : p.op # "mkdir"
  <2> SUFFICES ASSUME NEW i \in DOMAIN todo', todo'[i].op = "mkdir"
               PROVE  FALSE
    BY DEF Range
  <2>1. i + 1 = 1
    BY <1>2, <1>3 DEF TodoOrdered
  <2> QED BY <1>5, <2>1
<1>7. TodoOrdered'
  <2>1. Injective(todo')
    <3> SUFFICES ASSUME NEW i \in DOMAIN todo', NEW j \in DOMAIN todo', todo'[i] = todo'[j]
                 PROVE  i = j
      BY DEF Injective
    <3>1. i + 1 = j + 1
      BY <1>2, <1>3 DEF TodoOrdered
    <3> QED BY <1>5, <3>1
  <2>2. \A i \in DOMAIN todo' : todo'[i].op # "mkdir"
    BY <1>6 DEF Range
  <2>3. RmrfAll \notin rest
    <3> SUFFICES ASSUME RmrfAll \in rest PROVE FALSE
      OBVIOUS
    <3>1. todo = <<RmrfAll>>
      BY <1>2, <1>3 DEF TodoOrdered
    <3>2. o = RmrfAll
      BY <1>3, <3>1
    <3> QED BY <1>3, <3>2
  <2> QED BY <2>1, <2>2, <2>3 DEF TodoOrdered, Injective
<1>8. PersistTypeOK' /\ CallEndsWithFiles' /\ Dated(timeId)'
  <2>1. CASE o.op = "rmrf"
    <3>1. o = RmrfAll /\ todo = <<RmrfAll>>
      BY <1>2, <1>3, <1>4, <2>1 DEF TodoOrdered
    <3>2. rest = {} /\ disk' = Nothing
      <4>1. ops = {RmrfAll}
        BY <3>1 DEF Range
      <4>2. AfterOperation(disk, o) = Nothing
        BY <2>1 DEF AfterOperation
      <4> QED BY <1>1, <1>3, <3>1, <4>1, <4>2
    <3>3. dirs = {} /\ \A l \in 1 .. MaxLevel : Level(l) \subseteq loaded[l]
      BY <1>2, <1>3, <3>1 DEF CallEndsWithFiles
    <3>4. DOMAIN Nothing = {}
      BY DEF Nothing
    <3>5. PersistTypeOK'
      BY <1>1, <1>3, <3>2, <3>4 DEF FilesInv, PersistTypeOK, TreeTypeOK
    <3>6. \A l \in 1 .. MaxLevel : FilesSettle(Nothing, {}, l, Level(l) \ loaded[l])
      <4> TAKE l \in 1 .. MaxLevel
      <4>1. FilesOf(Nothing, l) = Nothing /\ Unwritten({}, l) = {}
        BY <3>4 DEF FilesOf, Unwritten
      <4>2. FilePairs(Nothing, {}, l) = {}
        BY <3>4, <4>1 DEF FilePairs
      <4>3. Level(l) \ loaded[l] = {}
        BY <3>3
      <4> QED BY <4>1, <4>2, <4>3 DEF FilesSettle
    <3>7. DirsSettle(Nothing, {}, {})
      BY <3>4 DEF DirsSettle, Unmade
    <3>8. \A l \in 1 .. MaxLevel : Level(l)' = Level(l)
      BY <1>1 DEF Level
    <3>9. CallEndsWithFiles'
      BY <1>1, <3>2, <3>3, <3>6, <3>7, <3>8 DEF CallEndsWithFiles
    <3>10. Dated(timeId)'
      BY <1>1, <1>2, <3>2, <3>4 DEF Dated, Level0Tables
    <3> QED BY <3>5, <3>9, <3>10
  <2>2. CASE o.op # "rmrf"
    <3>1. RmrfAll \notin ops
      <4> SUFFICES ASSUME RmrfAll \in ops PROVE FALSE
        OBVIOUS
      <4>1. todo = <<RmrfAll>>
        BY <1>2 DEF TodoOrdered
      <4> QED BY <1>3, <1>4, <2>2, <4>1
    <3>2. /\ DirsSettle(disk, ops, dirs)
          /\ \A l \in 1 .. MaxLevel : FilesSettle(disk, ops, l, Level(l) \ loaded[l])
      BY <1>2, <3>1 DEF CallEndsWithFiles
    <3>3. o.op = "mkdir" => ops = {o} \cup rest
      BY <1>3
    <3>4. Unmade(ops) = Unmade({o}) /\ Unmade(rest) = {}
      <4> HIDE DEF rest, ops, o
      <4> QED BY <1>3, <1>6 DEF Unmade
    <3>5. Possible(o)
      <4>1. o.op = "mkdir" => o.level \in Unmade(ops)
        BY <1>3 DEF Unmade
      <4>2. o.op = "write" => Unmade({o}) = {}
        BY DEF Unmade
      <4> QED BY <1>3, <2>2, <3>2, <3>4, <4>1, <4>2 DEF DirsSettle, Possible
    <3>6. DOMAIN disk' = DOMAIN disk \cup Unmade({o})
      BY <1>1, <3>5, FilesAfter
    <3>7. DirsSettle(disk', rest, dirs')
      <4> HIDE DEF rest, ops
      <4> QED BY <1>1, <1>3, <3>2, <3>4, <3>6 DEF DirsSettle
    <3>8. \A l \in 1 .. MaxLevel : FilesSettle(disk', rest, l, Level(l) \ loaded[l])
      <4> TAKE l \in 1 .. MaxLevel
      <4>1. FilesSettle(disk, ops, l, Level(l) \ loaded[l]) /\ o \in ops
        BY <1>3, <3>2
      <4> HIDE DEF o, ops, rest
      <4>2. FilesSettle(AfterOperation(disk, o), ops \ {o}, l, Level(l) \ loaded[l])
        BY <3>5, <4>1, OperationSettles
      <4> QED BY <1>1, <1>3, <4>2
    <3>9. RmrfAll \notin rest
      BY <1>3, <3>1
    <3>10. \A l \in 1 .. MaxLevel : Level(l)' = Level(l)
      BY <1>1 DEF Level
    <3>11. CallEndsWithFiles'
      BY <1>1, <3>7, <3>8, <3>9, <3>10 DEF CallEndsWithFiles
    <3>12. DiskTyped
      BY InvLevels
    <3>13. /\ DOMAIN disk' \subseteq 0 .. MaxLevel
           /\ \A l \in DOMAIN disk' :
                /\ DOMAIN disk'[l] \subseteq Nat
                /\ IsFiniteSet(DOMAIN disk'[l])
                /\ \A n \in DOMAIN disk'[l] :
                     /\ disk'[l][n] \in Table
                     /\ \/ l \in DOMAIN disk /\ n \in DOMAIN disk[l] /\ disk'[l][n] = disk[l][n]
                        \/ o.op = "write" /\ disk'[l][n] = o.table
      BY <1>1, <3>5, <3>12, OperationTyped
    <3>14. PersistTypeOK'
      BY <1>1, <1>3, <3>13 DEF FilesInv, PersistTypeOK, TreeTypeOK
    <3>15. Dated(timeId)'
      BY <1>1, <1>2, <1>3, <3>13 DEF Dated, Level0Tables
    <3> QED BY <3>11, <3>14, <3>15
  <2> QED BY <2>1, <2>2
<1>9. JobHasTables' /\ LevelsFinite' /\ Len(deeper') <= MaxLevel
      /\ \A l \in 1 .. MaxLevel : (loaded[l] \subseteq Level(l))'
  BY <1>1 DEF FilesInv, JobHasTables, LevelsFinite, Level
<1> QED BY <1>1, <1>2, <1>7, <1>8, <1>9 DEF FilesInv

(* What a start reads.                                                     *)
LEMMA FilesRead ==
  ASSUME FilesInv
  PROVE  /\ FileLevel0 \in Seq(Table)
         /\ \A t \in Range(FileLevel0) : t \in FileTables(0)
         /\ FileDeeper \in Seq(SUBSET Table) /\ Len(FileDeeper) <= MaxLevel
         /\ \A l \in DOMAIN FileDeeper : l \in 1 .. MaxLevel /\ FileDeeper[l] = FileTables(l)
         /\ \A l \in 1 .. MaxLevel : l \notin DOMAIN FileDeeper => FileTables(l) = {}
<1> DEFINE used == {0} \cup {m \in DOMAIN disk : disk[m] # Nothing}
           d == Max(used)
           n == Cardinality(FileTables(0))
<1>1. DiskTyped /\ MaxLevel \in Nat
  BY InvLevels
<1>2. \A l \in 0 .. MaxLevel : FileTables(l) \in SUBSET Table /\ IsFiniteSet(FileTables(l))
  BY <1>1, FilesTyped
<1>3. used \in SUBSET Nat /\ used # {} /\ \A m \in used : m <= MaxLevel
  BY <1>1 DEF DiskTyped
<1> HIDE DEF used
<1>4. d \in used /\ \A m \in used : d >= m
  BY <1>1, <1>3, MaxOfSet
<1>5. d \in Nat /\ d <= MaxLevel
  BY <1>3, <1>4
<1>6. FileDeeper = [l \in 1 .. d |-> FileTables(l)]
  BY DEF FileDeeper, used
<1> HIDE DEF d
<1>7. /\ FileDeeper \in Seq(SUBSET Table) /\ Len(FileDeeper) <= MaxLevel
      /\ \A l \in DOMAIN FileDeeper : l \in 1 .. MaxLevel /\ FileDeeper[l] = FileTables(l)
  <2>1. \A l \in 1 .. d : FileTables(l) \in SUBSET Table
    BY <1>1, <1>2, <1>5
  <2> QED BY <1>1, <1>5, <1>6, <2>1
<1>8. ASSUME NEW l \in 1 .. MaxLevel, l \notin DOMAIN FileDeeper
      PROVE  FileTables(l) = {}
  <2>1. l \notin used
    BY <1>1, <1>3, <1>4, <1>5, <1>6, <1>8
  <2>2. Files(l) = Nothing
    BY <2>1 DEF used, Files
  <2> QED BY <2>2 DEF FileTables, Range, Nothing
<1>9. Comparable(FileTables(0))
  <2>1. CASE 0 \in DOMAIN disk
    BY <2>1 DEF FilesInv, AllComparable
  <2>2. CASE 0 \notin DOMAIN disk
    BY <2>2 DEF FileTables, Files, Nothing, Range, Comparable
  <2> QED BY <2>1, <2>2
<1>10. FileTables(0) \in SUBSET Table /\ IsFiniteSet(FileTables(0))
  BY <1>1, <1>2
<1>11. n \in Nat /\ \A i \in 1 .. n : FileLevel0[i] \in FileTables(0)
  BY <1>9, <1>10, SortedFacts DEF FileLevel0
<1>12. DOMAIN FileLevel0 = 1 .. n /\ FileLevel0 = [i \in 1 .. n |-> FileLevel0[i]]
  BY DEF FileLevel0, Sorted
<1> HIDE DEF n
<1>13. FileLevel0 \in Seq(Table)
  BY <1>10, <1>11, <1>12
<1>14. \A t \in Range(FileLevel0) : t \in FileTables(0)
  BY <1>11, <1>12 DEF Range
<1> QED BY <1>7, <1>8, <1>13, <1>14

LEMMA FileTimeBounds ==
  ASSUME FilesInv
  PROVE  /\ FileTime \in Nat
         /\ \A l \in 0 .. MaxLevel : \A t \in FileTables(l) : t.time <= FileTime
<1> DEFINE timesOf(l) == {t.time : t \in FileTables(l)}
           sets  == {timesOf(l) : l \in DOMAIN disk}
           times == {0} \cup UNION sets
<1>1. DiskTyped /\ MaxLevel \in Nat
  BY InvLevels
<1>2. ASSUME NEW l \in 0 .. MaxLevel
      PROVE  timesOf(l) \in SUBSET Nat /\ IsFiniteSet(timesOf(l))
  <2>1. FileTables(l) \in SUBSET Table /\ IsFiniteSet(FileTables(l))
    BY <1>1, FilesTyped
  <2> DEFINE f == [t \in FileTables(l) |-> t.time]
  <2>2. f \in Surjection(FileTables(l), timesOf(l))
    BY DEF Surjection
  <2>3. timesOf(l) \in SUBSET Nat
    BY <2>1, TableKeys
  <2> HIDE DEF f
  <2>4. IsFiniteSet(timesOf(l))
    <3> HIDE DEF timesOf
    <3> QED BY <2>1, <2>2, FS_Surjection
  <2> QED BY <2>3, <2>4
<1>3. IsFiniteSet(DOMAIN disk)
  <2>1. IsFiniteSet(0 .. MaxLevel)
    BY <1>1, FS_Interval
  <2> QED BY <1>1, <2>1, FS_Subset DEF DiskTyped
<1>4. \A T \in sets : IsFiniteSet(T) /\ T \in SUBSET Nat
  <2> HIDE DEF timesOf
  <2> QED BY <1>1, <1>2 DEF DiskTyped
<1>5. IsFiniteSet(sets)
  <2> DEFINE f == [l \in DOMAIN disk |-> timesOf(l)]
  <2> HIDE DEF timesOf
  <2>1. f \in Surjection(DOMAIN disk, sets)
    BY DEF Surjection
  <2> HIDE DEF f, sets
  <2> QED BY <1>3, <2>1, FS_Surjection
<1>6. FileTime = Max(times)
  BY DEF FileTime
<1> HIDE DEF sets
<1>7. IsFiniteSet(UNION sets)
  BY <1>4, <1>5, FS_UNION
<1>8. times \in SUBSET Nat /\ times # {} /\ IsFiniteSet(times)
  <2>1. IsFiniteSet({0})
    BY FS_Singleton
  <2>2. IsFiniteSet(times)
    BY <1>7, <2>1, FS_Union
  <2> QED BY <1>4, <2>2
<1> HIDE DEF times
<1>9. PICK b \in Nat : \A x \in times : x <= b
  BY <1>8, FiniteBound
<1>10. Max(times) \in times /\ \A x \in times : Max(times) >= x
  BY <1>8, <1>9, MaxOfSet
<1>11. ASSUME NEW l \in 0 .. MaxLevel, NEW t \in FileTables(l)
       PROVE  t.time \in times /\ t.time \in Nat
  <2>1. l \in DOMAIN disk
    BY DEF FileTables, Files, Nothing, Range
  <2>2. t.time \in timesOf(l)
    OBVIOUS
  <2> HIDE DEF timesOf
  <2> QED BY <1>2, <2>1, <2>2 DEF times, sets
<1> QED BY <1>6, <1>8, <1>10, <1>11

LEMMA StartKeeps ==
  ASSUME FilesInv, Start, AllComparable'
  PROVE  FilesInv'
<1>1. /\ up' = TRUE /\ level0' = FileLevel0 /\ deeper' = FileDeeper /\ timeId' = FileTime
      /\ loaded' = [l \in 0 .. MaxLevel |-> FileTables(l)]
      /\ todo' = <<RmrfAll>> /\ disk' = disk /\ job' = job /\ dirs' = dirs
      /\ job = Idle /\ dirs = {}
  BY DEF Start, FilesInv
<1>2. /\ FileLevel0 \in Seq(Table)
      /\ \A t \in Range(FileLevel0) : t \in FileTables(0)
      /\ FileDeeper \in Seq(SUBSET Table) /\ Len(FileDeeper) <= MaxLevel
      /\ \A l \in DOMAIN FileDeeper : l \in 1 .. MaxLevel /\ FileDeeper[l] = FileTables(l)
      /\ \A l \in 1 .. MaxLevel : l \notin DOMAIN FileDeeper => FileTables(l) = {}
  BY FilesRead
<1>3. /\ FileTime \in Nat
      /\ \A l \in 0 .. MaxLevel : \A t \in FileTables(l) : t.time <= FileTime
  BY FileTimeBounds
<1>4. DiskTyped /\ MaxLevel \in Nat
  BY InvLevels
<1>5. \A l \in 0 .. MaxLevel : FileTables(l) \in SUBSET Table /\ IsFiniteSet(FileTables(l))
  BY <1>4, FilesTyped
<1>6. /\ <<RmrfAll>> \in Seq(Operation) /\ DOMAIN <<RmrfAll>> = {1} /\ <<RmrfAll>>[1] = RmrfAll
      /\ Range(<<RmrfAll>>) = {RmrfAll} /\ RmrfAll.op = "rmrf"
  <2>1. RmrfAll \in Operation /\ RmrfAll.op = "rmrf"
    BY DEF RmrfAll, Operation
  <2> QED BY <2>1 DEF Range
<1>7. loaded' \in [0 .. MaxLevel -> SUBSET Table]
  BY <1>1, <1>4, <1>5
<1>8. PersistTypeOK'
  BY <1>1, <1>2, <1>3, <1>6, <1>7 DEF FilesInv, PersistTypeOK, TreeTypeOK
<1>9. JobHasTables'
  BY <1>1, EmptyTree DEF JobHasTables
<1>10. LevelsFinite'
  BY <1>1, <1>2, <1>4, <1>5 DEF LevelsFinite
<1>11. ASSUME NEW l \in 1 .. MaxLevel
       PROVE  Level(l)' = loaded'[l]
  <2>1. l \in 0 .. MaxLevel
    BY <1>4
  <2>2. loaded'[l] = FileTables(l)
    BY <1>1, <2>1
  <2>3. Level(l)' = FileTables(l)
    BY <1>1, <1>2 DEF Level
  <2> QED BY <2>2, <2>3
<1>12. TodoOrdered'
  BY <1>1, <1>6 DEF TodoOrdered
<1>13. CallEndsWithFiles'
  BY <1>1, <1>6, <1>11 DEF CallEndsWithFiles
<1>14. Dated(timeId)'
  <2>1. \A u \in Level0Tables' : u.time <= FileTime
    BY <1>1, <1>2, <1>3, <1>4 DEF Level0Tables
  <2>2. \A l \in DOMAIN deeper' : \A u \in deeper'[l] : u.time <= FileTime
    BY <1>1, <1>2, <1>3, <1>4
  <2>3. ASSUME NEW l \in DOMAIN disk, NEW m \in DOMAIN disk[l]
        PROVE  disk[l][m].time <= FileTime
    <3>1. l \in 0 .. MaxLevel /\ disk[l][m] \in FileTables(l)
      BY <1>4 DEF DiskTyped, FileTables, Files, Range
    <3> QED BY <1>3, <3>1
  <2>4. \A o \in Range(todo') : o.op # "write"
    BY <1>1, <1>6
  <2> QED BY <1>1, <2>1, <2>2, <2>3, <2>4 DEF Dated
<1> QED BY <1>1, <1>2, <1>8, <1>9, <1>10, <1>11, <1>12, <1>13, <1>14 DEF FilesInv

LEMMA StayKeeps == FilesInv /\ UNCHANGED persistVars => FilesInv'
BY DEF persistVars, treeVars, FilesInv, PersistTypeOK, TreeTypeOK, AllComparable, Comparable,
       Before, Level0Tables, FileTables, Files, JobHasTables, LevelsFinite, Level, TodoOrdered,
       Dated, CallEndsWithFiles

LEMMA InitFilesInv == PersistInit => FilesInv
<1> SUFFICES ASSUME PersistInit
             PROVE  FilesInv
  OBVIOUS
<1>1. /\ level0 = <<>> /\ deeper = <<>> /\ timeId = 0 /\ job = Idle /\ dirs = {}
      /\ up = FALSE /\ disk = Nothing /\ todo = <<>> /\ loaded = NothingLoaded
  BY DEF PersistInit, TreeInit
<1>2. DOMAIN Nothing = {}
  BY DEF Nothing
<1>3. PersistTypeOK
  BY <1>1, <1>2, EmptyTree DEF PersistTypeOK, TreeTypeOK
<1>4. AllComparable
  <2>1. Level0Tables = {} /\ FileTables(0) = {} /\ FileTables(1) = {}
    BY <1>1, <1>2, EmptyTree DEF Level0Tables, FileTables, Files, Range
  <2>2. DOMAIN deeper = {} /\ DOMAIN disk = {}
    BY <1>1, <1>2, EmptyTree
  <2> QED BY <1>1, <2>1, <2>2 DEF AllComparable, Comparable
<1>5. JobHasTables /\ LevelsFinite /\ Len(deeper) <= MaxLevel
  BY <1>1, EmptyTree, LevelAssumption DEF JobHasTables, LevelsFinite
<1>6. \A l \in 1 .. MaxLevel : loaded[l] \subseteq Level(l)
  BY <1>1, EmptyTree
<1>7. TodoOrdered
  BY <1>1, EmptyTree DEF TodoOrdered
<1> QED BY <1>1, <1>3, <1>4, <1>5, <1>6, <1>7 DEF FilesInv

LEMMA PersistStepKeeps == FilesInv /\ [PersistNext]_persistVars => FilesInv'
<1> SUFFICES ASSUME FilesInv, [PersistNext]_persistVars
             PROVE  FilesInv'
  OBVIOUS
<1>1. CASE PersistNext
  <2>1. PersistStep /\ AllComparable'
    BY <1>1 DEF PersistNext
  <2>2. CASE \E items \in MemtableRuns : FlushTable(items)
    BY <2>1, <2>2, FlushKeeps
  <2>3. CASE MergeLevel0
    BY <2>1, <2>3, MergeLevel0Keeps
  <2>4. CASE \E l \in 1 .. MaxLevel : MergeDown(l)
    BY <2>1, <2>4, MergeDownKeeps
  <2>5. CASE ResetFiles
    BY <2>1, <2>5, ResetKeeps
  <2>6. CASE FileStep
    BY <2>1, <2>6, OperationKeeps
  <2>7. CASE Crash
    BY <2>1, <2>7, EndKeeps
  <2>8. CASE Start
    BY <2>1, <2>8, StartKeeps
  <2> QED BY <2>1, <2>2, <2>3, <2>4, <2>5, <2>6, <2>7, <2>8 DEF PersistStep, MergeStep
<1>2. CASE UNCHANGED persistVars
  BY <1>2, StayKeeps
<1> QED BY <1>1, <1>2

----------------------------------------------------------------------------
(* A table this process has flushed stays the newest of what it covers.    *)

LEMMA FlushKeepsNewest ==
  ASSUME PersistInv, NEW items \in MemtableRuns, FlushTable(items)
  PROVE  FlushedIsNewest'
<1> DEFINE t == [time |-> timeId, items |-> items]
           n == Len(level0) + 1
<1>1. /\ level0 \in Seq(Table) /\ Len(level0) \in Nat
      /\ Dated(timeId) /\ level0' = Append(level0, t)
      /\ deeper' = deeper /\ loaded' = loaded
  BY InvLevels DEF PersistInv, FilesInv, FlushTable, AddTable, Idling
<1>2. /\ DOMAIN level0' = 1 .. n /\ DOMAIN level0 = 1 .. Len(level0)
      /\ level0'[n] = t
      /\ \A i \in DOMAIN level0 : level0'[i] = level0[i]
  BY <1>1
<1>3. t.time = timeId /\ \A i \in DOMAIN level0 : level0[i].time <= timeId
  BY <1>1 DEF Dated, Level0Tables, Range
<1> HIDE DEF t
<1>4. ASSUME NEW i \in DOMAIN level0', level0'[i] \notin loaded'[0]
      PROVE  /\ \A j \in DOMAIN level0' : j < i => level0'[j].time <= level0'[i].time
             /\ \A l \in DOMAIN deeper' : \A u \in deeper'[l] : u.time <= level0'[i].time
  <2>1. CASE i = n
    <3>1. \A j \in DOMAIN level0' : j < i => j \in DOMAIN level0
      BY <1>1, <1>2, <2>1
    <3>2. \A l \in DOMAIN deeper : \A u \in deeper[l] : u.time <= timeId
      BY <1>1 DEF Dated
    <3> QED BY <1>1, <1>2, <1>3, <2>1, <3>1, <3>2
  <2>2. CASE i # n
    <3>1. i \in DOMAIN level0 /\ \A j \in DOMAIN level0' : j < i => j \in DOMAIN level0
      BY <1>1, <1>2, <2>2
    <3>2. level0[i] \notin loaded[0]
      BY <1>1, <1>2, <1>4, <3>1
    <3> QED BY <1>1, <1>2, <3>1, <3>2 DEF PersistInv, FlushedIsNewest
  <2> QED BY <2>1, <2>2
<1> QED BY <1>4 DEF FlushedIsNewest

LEMMA MergeDownKeepsNewest ==
  ASSUME PersistInv, NEW l \in 1 .. MaxLevel, MergeDown(l)
  PROVE  FlushedIsNewest'
<1> DEFINE gone == [m \in 1 .. MaxLevel |-> IF m = l THEN Excess(l)
                                            ELSE IF m = l + 1 THEN Met(Excess(l), l + 1) ELSE {}]
<1>1. FilesInv /\ up /\ Compact(l) /\ MaxLevel \in Nat
  BY LevelAssumption DEF PersistInv, MergeDown, Idling
<1>2. PICK made \in SUBSET Table :
        /\ \A m \in made : \E u \in Level(l) : m.time = u.time
        /\ Rewrites(l + 1, gone, made)
  BY <1>1, MergeDownMakes
<1> HIDE DEF gone
<1>3. /\ level0' = level0 /\ loaded'[0] = loaded[0]
      /\ \A m \in DOMAIN deeper' : \A u \in deeper'[m] : u \in Level(m) \/ u \in made
  <2>1. loaded \in [0 .. MaxLevel -> SUBSET Table] /\ 0 \in 0 .. MaxLevel /\ l # 0 /\ l + 1 # 0
    BY <1>1 DEF FilesInv, PersistTypeOK
  <2>2. loaded'[0] = loaded[0]
    BY <2>1 DEF MergeDown
  <2>3. level0' = level0
    BY <1>1 DEF Compact
  <2>4. \A m \in DOMAIN deeper' : \A u \in deeper'[m] : u \in Level(m) \/ u \in made
    BY <1>2 DEF Rewrites
  <2> QED BY <2>2, <2>3, <2>4
<1>4. ASSUME NEW i \in DOMAIN level0, level0[i] \notin loaded[0]
      PROVE  \A m : \A u \in Level(m) : u.time <= level0[i].time
  BY <1>4 DEF PersistInv, FlushedIsNewest, Level
<1>5. ASSUME NEW i \in DOMAIN level0, level0[i] \notin loaded[0],
             NEW m \in DOMAIN deeper', NEW u \in deeper'[m]
      PROVE  u.time <= level0[i].time
  <2>1. CASE u \in Level(m)
    BY <1>4, <1>5, <2>1
  <2>2. CASE u \in made
    <3>1. PICK v \in Level(l) : u.time = v.time
      BY <1>2, <2>2
    <3> QED BY <1>4, <1>5, <3>1
  <2> QED BY <1>3, <2>1, <2>2
<1> QED BY <1>3, <1>5 DEF PersistInv, FlushedIsNewest

LEMMA NewestKept ==
  ASSUME PersistInv, [PersistNext]_persistVars
  PROVE  FlushedIsNewest'
<1>1. CASE level0' = <<>>
  BY <1>1 DEF FlushedIsNewest
<1>2. CASE \E items \in MemtableRuns : FlushTable(items)
  BY <1>2, FlushKeepsNewest
<1>3. CASE \E l \in 1 .. MaxLevel : MergeDown(l)
  BY <1>3, MergeDownKeepsNewest
<1>4. CASE level0' = level0 /\ deeper' = deeper /\ loaded' = loaded
  BY <1>4 DEF PersistInv, FlushedIsNewest
<1>5. CASE Start
  <2>1. /\ level0' = FileLevel0 /\ loaded'[0] = FileTables(0)
    BY <1>5, LevelAssumption DEF Start
  <2>2. \A t \in Range(FileLevel0) : t \in FileTables(0)
    BY FilesRead DEF PersistInv
  <2>3. \A i \in DOMAIN level0' : level0'[i] \in loaded'[0]
    BY <2>1, <2>2 DEF Range
  <2> QED BY <2>3 DEF FlushedIsNewest
<1>6. MergeLevel0 \/ ResetFiles \/ Crash => level0' = <<>>
  BY DEF MergeLevel0, CompactLevel0, ResetFiles, ResetTree, Crash
<1>7. FileStep \/ UNCHANGED persistVars => level0' = level0 /\ deeper' = deeper /\ loaded' = loaded
  BY DEF FileStep, persistVars, treeVars
<1> QED BY <1>1, <1>2, <1>3, <1>4, <1>5, <1>6, <1>7 DEF PersistNext, PersistStep, MergeStep

(* The inductive invariant holds whatever crashes and restarts there are,  *)
(* for any keys, also those that do not fit an int.                        *)
THEOREM PersistInvariant == PersistSpec => []PersistInv
<1>1. PersistInit => PersistInv
  <2>1. PersistInit => level0 = <<>>
    BY DEF PersistInit, TreeInit
  <2>2. level0 = <<>> => FlushedIsNewest
    BY DEF FlushedIsNewest
  <2> QED BY <2>1, <2>2, InitFilesInv DEF PersistInv
<1>2. PersistInv /\ [PersistNext]_persistVars => PersistInv'
  BY PersistStepKeeps, NewestKept DEF PersistInv
<1> QED BY <1>1, <1>2, PTL DEF PersistSpec

LEMMA FilesInvariant == PersistSpec => []FilesInv
<1>1. PersistInv => FilesInv
  BY DEF PersistInv
<1> QED BY <1>1, PersistInvariant, PTL

(* What the program holds in memory, on the file system and still to do is *)
(* of the right type across crashes and restarts: above all, no level is   *)
(* read or written beyond those that exist.                                *)
THEOREM PersistTypeCorrect == PersistSpec => []PersistTypeOK
<1>1. FilesInv => PersistTypeOK
  BY DEF FilesInv
<1> QED BY <1>1, FilesInvariant, PTL

LEMMA InvMatchesFiles == FilesInv => FilesMatchLevels
<1> SUFFICES ASSUME FilesInv, Idling
             PROVE  /\ dirs = DOMAIN disk \ {0}
                    /\ \A l \in DOMAIN deeper :
                         /\ FileTables(l) = deeper[l] \ loaded[l]
                         /\ Cardinality(DOMAIN Files(l)) = Cardinality(FileTables(l))
  BY DEF FilesMatchLevels
<1>1. /\ dirs = DOMAIN disk \ {0}
      /\ \A l \in 1 .. MaxLevel : FilesSettle(disk, {}, l, Level(l) \ loaded[l])
  BY NothingToDo
<1>2. ASSUME NEW l \in DOMAIN deeper
      PROVE  /\ FileTables(l) = deeper[l] \ loaded[l]
             /\ Cardinality(DOMAIN Files(l)) = Cardinality(FileTables(l))
  <2>1. l \in 1 .. MaxLevel /\ l \in 0 .. MaxLevel /\ DiskTyped
    BY InvLevels
  <2>2. FileTables(l) = deeper[l] \ loaded[l]
    BY <1>1, <2>1, SettledFiles DEF Level
  <2>3. \A m, n \in DOMAIN Files(l) : Files(l)[m] = Files(l)[n] => m = n
    BY <1>1, <2>1, SettledFiles
  <2> DEFINE D == DOMAIN Files(l)
             f == [n \in D |-> Files(l)[n]]
  <2>4. \A t \in FileTables(l) : \E n \in D : Files(l)[n] = t
    BY DEF FileTables, Range
  <2>5. \A n \in D : Files(l)[n] \in FileTables(l)
    BY DEF FileTables, Range
  <2>6. f \in Bijection(D, FileTables(l))
    BY <2>3, <2>4, <2>5 DEF Bijection, Injection, Surjection, IsInjective
  <2>7. IsFiniteSet(D)
    BY <2>1, FilesTyped
  <2> HIDE DEF f, D
  <2>8. Cardinality(D) = Cardinality(FileTables(l))
    BY <2>6, <2>7, FS_Bijection DEF ExistsBijection
  <2> QED BY <2>2, <2>8 DEF D
<1> QED BY <1>1, <1>2

(* Between calls, in every session, whatever crashes came before, a level  *)
(* below level 0 has one file for every table the process made itself and  *)
(* no other: no write replaces a file that is needed, no file of a merged  *)
(* table is left behind.                                                   *)
THEOREM FilesAlwaysMatch == PersistSpec => []FilesMatchLevels
BY FilesInvariant, InvMatchesFiles, PTL

----------------------------------------------------------------------------
(* What a process has flushed is not taken for older.                      *)

(* An only newest table is the youngest.                                   *)
LEMMA YoungestOfNewest ==
  ASSUME NEW S \in SUBSET Table, NEW t \in S, \A u \in S \ {t} : u.time < t.time
  PROVE  Youngest(S) = t
<1>1. \A u \in S \ {t} : Before(u, t)
  BY DEF Before
<1>2. Youngest(S) \in S /\ \A u \in S \ {Youngest(S)} : Before(u, Youngest(S))
  BY <1>1 DEF Youngest
<1>3. ~(t.time < Youngest(S).time) \/ Youngest(S) = t
  BY <1>2, TableKeys
<1> QED BY <1>1, <1>2, <1>3, TableKeys DEF Before

LEMMA MergeKeepsFlushed ==
  ASSUME KeysFitInt, Sentinel \notin Key, PersistInv, MergeLevel0,
         NEW k \in Key, NEW i \in DOMAIN level0,
         AnswersWithFlushed(k, i), ~Tied(k, level0[i])
  PROVE  Visible(k)' = Visible(k)
<1> DEFINE t     == level0[i]
           met   == Met(Level0Tables, 1)
           all   == met \cup Level0Tables
           items == MergeItems(all)
           made  == Made(items, 1, YoungestTime(all))
           L     == WithLevel(1)[1]
           next  == (L \ met) \cup made
<1>1. FilesInv /\ up /\ CompactLevel0
  BY DEF PersistInv, MergeLevel0, Idling
<1>2. /\ 1 \in 1 .. MaxLevel /\ level0 \in Seq(Table) /\ deeper \in Seq(SUBSET Table)
      /\ Len(deeper) \in Nat /\ DOMAIN deeper = 1 .. Len(deeper) /\ 1 <= Len(deeper) + 1
      /\ Level0Tables \in SUBSET Table /\ IsFiniteSet(Level0Tables)
      /\ Level(1) \in SUBSET Table /\ IsFiniteSet(Level(1))
      /\ Comparable(Level0Tables \cup Level(1))
      /\ timeId \in Nat
      /\ \A u \in Level0Tables \cup Level(1) : u.time <= timeId
  BY <1>1, InvLevels
<1>3. /\ L = Level(1) /\ met \in SUBSET Level(1) /\ met = Meeting(L, Level0Tables)
      /\ WithLevel(1) \in Seq(SUBSET Table)
      /\ DOMAIN WithLevel(1) = DOMAIN deeper \cup {1}
  <2>1. /\ L = Level(1) /\ met \in SUBSET Level(1)
        /\ WithLevel(1) \in Seq(SUBSET Table)
        /\ DOMAIN WithLevel(1) = DOMAIN deeper \cup {1}
    BY <1>1, <1>2, TargetLevel
  <2> QED BY <2>1 DEF Met
<1>4. /\ t \in Level0Tables /\ t \in Table /\ k \in Keys(t) /\ t \notin loaded[0]
      /\ \A j \in DOMAIN level0 : k \in Keys(level0[j]) => j <= i
  BY <1>2 DEF AnswersWithFlushed, Level0Tables, Range
<1>5. LookupIn(level0, deeper, k) = t.items[k]
  BY <1>2, <1>4, FromLevel0
<1>6. /\ all \in SUBSET Table /\ all # {} /\ IsFiniteSet(all) /\ Comparable(all)
      /\ \A u \in all : u.time <= timeId
  <2>1. IsFiniteSet(met)
    BY <1>2, <1>3, FS_Subset
  <2>2. IsFiniteSet(all)
    BY <1>2, <2>1, FS_Union
  <2>3. all \in SUBSET (Level0Tables \cup Level(1))
    BY <1>3
  <2>4. Comparable(all)
    BY <1>2, <2>3, SubsetComparable
  <2> QED BY <1>2, <1>3, <1>4, <2>2, <2>4
<1>7. ASSUME NEW u \in all, k \in Keys(u), u # t
      PROVE  u.time < t.time
  <2>1. u.time # t.time
    BY <1>7 DEF Tied
  <2>2. u.time <= t.time
    <3>1. CASE u \in Level0Tables
      <4>1. PICK j \in DOMAIN level0 : u = level0[j]
        BY <3>1 DEF Level0Tables, Range
      <4>2. j <= i /\ j # i /\ j \in Nat /\ i \in Nat
        BY <1>2, <1>4, <1>7, <4>1
      <4>3. j < i
        BY <4>2
      <4> QED BY <1>4, <4>1, <4>3 DEF PersistInv, FlushedIsNewest
    <3>2. CASE u \in Level(1)
      BY <1>4, <3>2 DEF PersistInv, FlushedIsNewest, Level
    <3> QED BY <1>3, <1>7, <3>1, <3>2
  <2>3. u.time \in Nat /\ t.time \in Nat
    BY <1>4, <1>6, TableKeys
  <2> QED BY <2>1, <2>2, <2>3
<1>8. k \in MergedKeys(all) /\ items[k] = t.items[k]
  <2> DEFINE H == Holders(all, k)
  <2>1. H \in SUBSET Table /\ t \in H /\ \A u \in H \ {t} : u.time < t.time
    BY <1>4, <1>6, <1>7 DEF Holders
  <2>2. k \in MergedKeys(all)
    BY <1>4 DEF MergedKeys
  <2> HIDE DEF H, t
  <2>3. Youngest(H) = t
    BY <2>1, YoungestOfNewest
  <2> HIDE DEF all
  <2> QED BY <2>2, <2>3 DEF MergeItems, H
<1>9. \A u \in L \ met : k \notin Keys(u)
  <2> SUFFICES ASSUME NEW u \in L, k \in Keys(u)
               PROVE  u \in met
    OBVIOUS
  <2>1. /\ HullLow(Level0Tables) \in Nat /\ HullHigh(Level0Tables) \in Nat
        /\ HullLow(Level0Tables) <= k /\ k <= HullHigh(Level0Tables)
    BY <1>2, <1>4, HullBounds
  <2>2. /\ SmallestKey(u) <= k /\ k <= LargestKey(u) /\ k \in Nat
        /\ SmallestKey(u) \in Nat /\ LargestKey(u) \in Nat
    BY <1>2, <1>3, TableKeys, KeysAreNat
  <2>3. Overlaps(u, HullLow(Level0Tables), HullHigh(Level0Tables))
    BY <2>1, <2>2 DEF Overlaps
  <2> QED BY <1>3, <2>3 DEF Meeting
<1>10. deeper' = [WithLevel(1) EXCEPT ![1] = next] /\ level0' = <<>>
  BY <1>1 DEF CompactLevel0
<1> HIDE DEF t, met, all, L
<1>11. /\ made \in SUBSET Table /\ Disjoint(made)
       /\ \A m \in made : \A j \in Keys(m) : m.items[j] = items[j]
       /\ \/ Len(deeper) < 1 /\ ~items[k].live
          \/ \E m \in made : k \in Keys(m)
  <2>1. YoungestTime(all) \in Nat
    BY <1>2, <1>6, YoungestTimeOfSet
  <2>2. MergedKeys(all) \in SUBSET Key /\ items \in [MergedKeys(all) -> Item]
    BY <1>6, MergedTyped
  <2> HIDE DEF items
  <2> QED BY <1>8, <2>1, <2>2, MadeTyped
<1> HIDE DEF items, made
<1>12. next \in SUBSET Table
  BY <1>2, <1>3, <1>11
<1>13. /\ deeper' \in Seq(SUBSET Table) /\ deeper'[1] = next
       /\ DOMAIN deeper' = DOMAIN deeper \cup {1}
       /\ level0' \in Seq(Table) /\ DOMAIN level0' = {}
  BY <1>3, <1>10, <1>12
<1>14. CASE \E m \in made : k \in Keys(m)
  <2>1. PICK m \in made : k \in Keys(m)
    BY <1>14
  <2>2. m \in deeper'[1] /\ m.items[k] = t.items[k]
    BY <1>8, <1>11, <1>13, <2>1
  <2>3. \A u \in deeper'[1] : k \in Keys(u) => u = m
    BY <1>9, <1>11, <1>13, <2>1, DisjointHolder
  <2>4. \A n \in DOMAIN deeper' : ~(n < 1)
    BY <1>2, <1>13
  <2>5. LookupIn(level0', deeper', k) = m.items[k]
    <3> DEFINE M == level0'
               E == deeper'
    <3>1. /\ M \in Seq(Table) /\ E \in Seq(SUBSET Table)
          /\ \A n \in DOMAIN M : k \notin Keys(M[n])
          /\ 1 \in DOMAIN E /\ m \in E[1] /\ k \in Keys(m)
          /\ \A u \in E[1] : k \in Keys(u) => u = m
          /\ \A n \in DOMAIN E : n < 1 => \A u \in E[n] : k \notin Keys(u)
      BY <1>13, <2>1, <2>2, <2>3, <2>4
    <3> HIDE DEF M, E
    <3>2. LookupIn(M, E, k) = m.items[k]
      BY <3>1, FromOnlyHolder
    <3> QED BY <3>2 DEF M, E
  <2> QED BY <1>5, <2>2, <2>5, LookupArguments
<1>15. CASE ~ \E m \in made : k \in Keys(m)
  <2>1. Len(deeper) < 1 /\ ~items[k].live
    BY <1>11, <1>15
  <2>2. DOMAIN deeper' = {1}
    BY <1>2, <1>13, <2>1
  <2>3. \A n \in DOMAIN deeper' : \A u \in deeper'[n] : k \notin Keys(u)
    BY <1>9, <1>13, <1>15, <2>2
  <2>4. LookupIn(level0', deeper', k) = NotFound
    <3> DEFINE M == level0'
               E == deeper'
    <3>1. /\ M \in Seq(Table) /\ E \in Seq(SUBSET Table)
          /\ \A n \in DOMAIN M : k \notin Keys(M[n])
          /\ \A n \in DOMAIN E : \A u \in E[n] : k \notin Keys(u)
      BY <1>13, <2>3
    <3> HIDE DEF M, E
    <3>2. LookupIn(M, E, k) = NotFound
      BY <3>1, FromNowhere
    <3> QED BY <3>2 DEF M, E
  <2> QED BY <1>5, <1>8, <2>1, <2>4, LookupArguments DEF Display, NotFound
<1> QED BY <1>14, <1>15

(* For keys that fit an int: whatever crashes and starts came before, and  *)
(* although the first flush after a start has the timestamp of the newest  *)
(* table the start has read, the compaction of level 0 keeps every answer  *)
(* that comes from a table flushed by the running process, unless another  *)
(* table of that compaction has the same timestamp and a value of the key. *)
THEOREM FlushedDataWins ==
  ASSUME KeysFitInt, Sentinel \notin Key
  PROVE  PersistSpec => FlushedWins
<1>1. PersistInv /\ [PersistNext]_persistVars =>
        [MergeLevel0 => \A k \in Key, i \in DOMAIN level0 :
           AnswersWithFlushed(k, i) /\ ~Tied(k, level0[i]) =>
             Visible(k)' = Visible(k)]_persistVars
  BY MergeKeepsFlushed
<1> QED BY <1>1, PersistInvariant, PTL DEF PersistSpec, FlushedWins
=============================================================================
