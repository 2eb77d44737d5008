--------------------------- MODULE VLogFile_proofs --------------------------
(***************************************************************************)
(* Proofs about VLogFile, for every set of entries, page size and length   *)
(* of the file: its inductive invariant VLogInv, and from it that gc       *)
(* stands on entries, what it gives back, and that the file implements the *)
(* queue of ValueLog.                                                      *)
(***************************************************************************)
EXTENDS VLogFile, FiniteSetTheorems, WellFoundedInduction, TLAPS

----------------------------------------------------------------------------
(* Pages.                                                                  *)

(* Multiples of the page size are as far apart as a page at least.         *)
LEMMA PagesApart ==
  ASSUME NEW P \in Nat \ {0}, NEW m \in Nat, NEW n \in Nat
  PROVE  /\ m * P \in Nat
         /\ (m + 1) * P = m * P + P
         /\ m < n => m * P + P <= n * P
         /\ m <= n => m * P <= n * P
<1>1. m * P \in Nat /\ (m + 1) * P = m * P + P
  OBVIOUS
<1>2. m <= n => m * P <= n * P
  OBVIOUS
<1>3. m < n => m * P + P <= n * P
  OBVIOUS
<1> QED
  BY <1>1, <1>2, <1>3

(* A position lies in the page its division names.                         *)
LEMMA PageOf ==
  ASSUME NEW P \in Nat \ {0}, NEW x \in Nat
  PROVE  /\ x \div P \in Nat
         /\ (x \div P) * P <= x
         /\ x < (x \div P) * P + P
         /\ x % P \in Nat
         /\ x = (x \div P) * P + (x % P)
<1> DEFINE q == x \div P
<1>1. q \in Nat /\ x % P \in Nat
  OBVIOUS
<1>2. q * P <= x
  OBVIOUS
<1>3. x < q * P + P
  OBVIOUS
<1> HIDE DEF q
<1>4. q * P \in Nat
  BY <1>1, PagesApart
<1>5. PICK r \in Nat : r < P /\ x = q * P + r
  <2>1. x - q * P \in Nat
    BY <1>2, <1>4
  <2> QED
    BY <1>2, <1>3, <1>4, <2>1
<1>6. x % P = r
  BY <1>1, <1>5
<1> QED
  BY <1>1, <1>2, <1>3, <1>5, <1>6 DEF q

LEMMA PageStart ==
  ASSUME NEW P \in Nat \ {0}, NEW m \in Nat
  PROVE  (m * P) \div P = m /\ (m * P) % P = 0
<1> DEFINE q == (m * P) \div P
<1>1. q \in Nat /\ q * P <= m * P /\ m * P < q * P + P /\ m * P = q * P + ((m * P) % P)
      /\ (m * P) % P \in Nat
  BY PageOf
<1>2. ~ q < m
  BY <1>1, PagesApart
<1>3. ~ m < q
  BY <1>1, PagesApart
<1> QED
  BY <1>1, <1>2, <1>3

----------------------------------------------------------------------------
(* Numbers.                                                                *)

LEMMA LeastNumber ==
  ASSUME NEW S \in SUBSET Nat, S # {}
  PROVE  \E m \in S : \A x \in S : m <= x
<1> DEFINE R == OpToRel(<, Nat)
<1>1. IsWellFoundedOn(R, Nat)
  BY NatLessThanWellFounded
<1>2. ASSUME NEW x \in Nat, NEW y \in Nat, x < y
      PROVE  <<x, y>> \in R
  BY <1>2 DEF OpToRel
<1> HIDE DEF R
<1>3. PICK m \in S : \A x \in S : ~(<<x, m>> \in R)
  BY <1>1, WFMin
<1>4. ASSUME NEW x \in S
      PROVE  ~(x < m)
  BY <1>2, <1>3
<1> QED BY <1>4

LEMMA MinOfNumbers ==
  ASSUME NEW S \in SUBSET Nat, S # {}
  PROVE  Min(S) \in S /\ \A x \in S : Min(S) <= x
BY LeastNumber DEF Min

LEMMA MaxOfTwo ==
  ASSUME NEW m \in Nat, NEW n \in Nat
  PROVE  Max({m, n}) = IF m <= n THEN n ELSE m
<1> DEFINE x == IF m <= n THEN n ELSE m
<1>1. x \in {m, n} /\ \A y \in {m, n} : x >= y
  OBVIOUS
<1>2. ASSUME NEW z \in {m, n}, \A y \in {m, n} : z >= y
      PROVE  z = x
  BY <1>1, <1>2
<1> QED BY <1>1, <1>2 DEF Max

(* A set of positive numbers that has, with a number, all smaller ones     *)
(* consists of the numbers up to its cardinality.                          *)
LEMMA InitialSegment ==
  ASSUME NEW n \in Nat, NEW S \in SUBSET (1 .. n),
         \A i \in S : \A j \in 1 .. n : j < i => j \in S
  PROVE  /\ Cardinality(S) \in 0 .. n
         /\ S = 1 .. Cardinality(S)
<1>1. PICK c \in 0 .. n : S = 1 .. c
  <2> DEFINE T == {m \in 1 .. n + 1 : m \notin S}
  <2>1. n + 1 \in T /\ T \in SUBSET Nat
    OBVIOUS
  <2>2. PICK m \in T : \A x \in T : m <= x
    BY <2>1, LeastNumber
  <2>3. S = 1 .. m - 1
    <3>1. ASSUME NEW i \in S
          PROVE  i \in 1 .. m - 1
      <4>1. ~ m < i
        BY <2>2
      <4>2. m # i
        BY <2>2
      <4> QED
        BY <4>1, <4>2, <2>2
    <3>2. ASSUME NEW i \in 1 .. m - 1
          PROVE  i \in S
      BY <2>2
    <3> QED BY <3>1, <3>2
  <2> QED BY <2>2, <2>3
<1>2. Cardinality(1 .. c) = c
  <2>1. Cardinality(1 .. c) = IF 1 > c THEN 0 ELSE c - 1 + 1
    BY FS_Interval
  <2> QED BY <2>1
<1> QED BY <1>1, <1>2

----------------------------------------------------------------------------
(* Entries in a file f, unit by unit.                                      *)

LEMMA Images ==
  ASSUME NEW e \in Entry
  PROVE  /\ Image(e) \in Seq(Unit)
         /\ Size(e) \in Nat /\ Size(e) > 0
         /\ Len(Image(e)) = Size(e)
         /\ DOMAIN Image(e) = 1 .. Size(e)
         /\ Image(e)[1] = e
<1>1. e.body \in Seq(Unit) /\ <<e>> \in Seq(Unit) /\ Len(<<e>>) = 1 /\ <<e>>[1] = e
  BY EntryAssumption DEF Unit
<1>2. Len(e.body) \in Nat
  BY <1>1
<1> HIDE DEF Unit
<1>3. Image(e) \in Seq(Unit) /\ Len(Image(e)) = 1 + Len(e.body)
  BY <1>1 DEF Image
<1>4. Image(e)[1] = e
  BY <1>1 DEF Image
<1> QED
  BY <1>2, <1>3, <1>4 DEF Size

Holds(f, off, e) ==
  /\ off + Size(e) <= Len(f)
  /\ \A j \in 1 .. Size(e) : f[off + j] = Image(e)[j]

ReadsIn(f, p) ==
  /\ p.off < Len(f)
  /\ f[p.off + 1] \in Entry
  /\ p.off + Size(f[p.off + 1]) <= Len(f)
  /\ SubSeq(f, p.off + 1, p.off + Size(f[p.off + 1])) = Image(f[p.off + 1])
  /\ f[p.off + 1] = p.entry

(* What the tables read at an offset is there when its units are.          *)
LEMMA ReadsUnits ==
  ASSUME NEW f \in Seq(Unit), NEW p \in Placed
  PROVE  ReadsIn(f, p) <=> Holds(f, p.off, p.entry)
<1> DEFINE e == p.entry
           off == p.off
<1>1. e \in Entry /\ off \in Nat
  BY DEF Placed
<1>2. /\ Image(e) \in Seq(Unit) /\ Size(e) \in Nat /\ Size(e) > 0
      /\ Len(Image(e)) = Size(e) /\ Image(e)[1] = e /\ DOMAIN Image(e) = 1 .. Size(e)
  BY <1>1, Images
<1> HIDE DEF e, off
<1>3. ASSUME off + Size(e) <= Len(f), NEW j \in 1 .. Size(e)
      PROVE  SubSeq(f, off + 1, off + Size(e))[j] = f[off + j]
  BY <1>1, <1>2, <1>3
<1>4. ASSUME off + Size(e) <= Len(f)
      PROVE  /\ SubSeq(f, off + 1, off + Size(e)) \in Seq(Unit)
             /\ Len(SubSeq(f, off + 1, off + Size(e))) = Size(e)
  BY <1>1, <1>2, <1>4
<1>5. ASSUME Holds(f, off, e)
      PROVE  /\ off < Len(f) /\ f[off + 1] = e /\ off + Size(e) <= Len(f)
             /\ SubSeq(f, off + 1, off + Size(e)) = Image(e)
  <2>1. off + Size(e) <= Len(f)
    BY <1>5 DEF Holds
  <2>2. \A j \in 1 .. Size(e) : f[off + j] = Image(e)[j]
    BY <1>5 DEF Holds
  <2>3. f[off + 1] = e
    BY <2>2, <1>2
  <2>4. SubSeq(f, off + 1, off + Size(e)) = Image(e)
    <3> DEFINE s == SubSeq(f, off + 1, off + Size(e))
    <3>1. s \in Seq(Unit) /\ Len(s) = Len(Image(e))
      BY <1>2, <1>4, <2>1
    <3>2. \A j \in 1 .. Len(s) : s[j] = Image(e)[j]
      BY <1>2, <1>3, <1>4, <2>1, <2>2
    <3> HIDE DEF s
    <3>3. s = Image(e)
      BY <1>2, <3>1, <3>2
    <3> QED BY <3>3 DEF s
  <2> QED BY <1>1, <1>2, <2>1, <2>3, <2>4
<1>6. ASSUME off + Size(e) <= Len(f), SubSeq(f, off + 1, off + Size(e)) = Image(e)
      PROVE  Holds(f, off, e)
  BY <1>3, <1>6 DEF Holds
<1>7. ReadsIn(f, p) <=> /\ off < Len(f) /\ f[off + 1] = e /\ off + Size(e) <= Len(f)
                        /\ SubSeq(f, off + 1, off + Size(e)) = Image(e)
  BY <1>1 DEF ReadsIn, e, off
<1>8. Holds(f, p.off, p.entry) <=> Holds(f, off, e)
  BY DEF off, e
<1> QED
  BY <1>5, <1>6, <1>7, <1>8

LEMMA ReadsArgument ==
  ASSUME NEW p
  PROVE  (Reads(p) <=> ReadsIn(file, p)) /\ (Reads(p)' <=> ReadsIn(file', p))
BY DEF Reads, ReadsIn, IsValidEntry, IsMagic

----------------------------------------------------------------------------
(* What an append writes.                                                  *)

(* w is the file f after each of the first m entries of a batch.           *)
Writes(f, entries, w, m) ==
  w = [i \in 0 .. m |-> IF i = 0 THEN f ELSE w[i - 1] \o Image(entries[i])]

LEMMA WritesExist ==
  ASSUME NEW f, NEW entries, NEW n \in Nat
  PROVE  \E w : Writes(f, entries, w, n)
<1> DEFINE Bad == {m \in 0 .. n : ~ \E w : Writes(f, entries, w, m)}
<1>1. SUFFICES ASSUME Bad # {} PROVE FALSE
  OBVIOUS
<1>2. PICK m \in Bad : \A x \in Bad : m <= x
  <2>1. Bad \in SUBSET Nat
    OBVIOUS
  <2> QED BY <1>1, <2>1, LeastNumber
<1>3. CASE m = 0
  <2> DEFINE w == [i \in 0 .. 0 |-> f]
  <2>1. w = [i \in 0 .. 0 |-> IF i = 0 THEN f ELSE w[i - 1] \o Image(entries[i])]
    OBVIOUS
  <2> HIDE DEF w
  <2>2. Writes(f, entries, w, 0)
    BY <2>1 DEF Writes
  <2> QED BY <1>3, <2>2
<1>4. CASE m > 0
  <2>1. m - 1 \in 0 .. n /\ m \in Nat /\ m - 1 \notin Bad
    BY <1>2, <1>4
  <2>2. PICK g : Writes(f, entries, g, m - 1)
    BY <2>1
  <2> DEFINE w == [i \in 0 .. m |-> IF i = m THEN g[m - 1] \o Image(entries[m]) ELSE g[i]]
  <2>3. ASSUME NEW i \in 0 .. m
        PROVE  w[i] = IF i = 0 THEN f ELSE w[i - 1] \o Image(entries[i])
    <3>1. \A x \in 0 .. m - 1 : g[x] = IF x = 0 THEN f ELSE g[x - 1] \o Image(entries[x])
      BY <2>2 DEF Writes
    <3>2. CASE i = m
      <4>1. w[i] = g[m - 1] \o Image(entries[m]) /\ w[m - 1] = g[m - 1]
        BY <3>2, <2>1, <1>4
      <4> HIDE DEF w
      <4>2. w[i - 1] = g[m - 1]
        BY <4>1, <3>2
      <4>3. i # 0
        BY <3>2, <1>4
      <4>4. w[i] = g[m - 1] \o Image(entries[i])
        BY <4>1, <3>2
      <4> QED BY <4>2, <4>3, <4>4
    <3>3. CASE i # m
      <4>1. w[i] = g[i] /\ i \in 0 .. m - 1
        BY <3>3, <2>1
      <4>2. i # 0 => i - 1 \in 0 .. m /\ i - 1 # m /\ w[i - 1] = g[i - 1]
        BY <4>1, <2>1
      <4> HIDE DEF w
      <4> QED BY <4>1, <4>2, <3>1
    <3> QED BY <3>2, <3>3
  <2>4. w = [i \in 0 .. m |-> w[i]]
    OBVIOUS
  <2> HIDE DEF w
  <2>5. [i \in 0 .. m |-> w[i]] =
        [i \in 0 .. m |-> IF i = 0 THEN f ELSE w[i - 1] \o Image(entries[i])]
    BY <2>3
  <2>6. Writes(f, entries, w, m)
    BY <2>4, <2>5 DEF Writes
  <2> QED BY <2>6
<1> QED BY <1>2, <1>3, <1>4

LEMMA FileWithWrites ==
  ASSUME NEW entries, Len(entries) \in Nat
  PROVE  Writes(file, entries, FileWith(entries), Len(entries))
<1> DEFINE n == Len(entries)
           F == FileWith(entries)
<1>1. F = CHOOSE w : w = [i \in 0 .. n |-> IF i = 0 THEN file ELSE w[i - 1] \o Image(entries[i])]
  BY DEF FileWith
<1>2. \E w : w = [i \in 0 .. n |-> IF i = 0 THEN file ELSE w[i - 1] \o Image(entries[i])]
  <2>1. PICK w : Writes(file, entries, w, n)
    BY WritesExist
  <2>2. w = [i \in 0 .. n |-> IF i = 0 THEN file ELSE w[i - 1] \o Image(entries[i])]
    BY <2>1 DEF Writes
  <2> QED BY <2>2
<1> HIDE DEF F
<1>3. F = [i \in 0 .. n |-> IF i = 0 THEN file ELSE F[i - 1] \o Image(entries[i])]
  BY <1>1, <1>2
<1> QED BY <1>3 DEF Writes, F

(* g begins with f.                                                        *)
Begins(f, g) == Len(f) <= Len(g) /\ \A p \in 1 .. Len(f) : g[p] = f[p]

LEMMA BeginsSteps ==
  ASSUME NEW f \in Seq(Unit), NEW g \in Seq(Unit), NEW e \in Entry, Begins(f, g)
  PROVE  /\ g \o Image(e) \in Seq(Unit)
         /\ Len(g \o Image(e)) = Len(g) + Size(e)
         /\ Begins(f, g \o Image(e))
         /\ Begins(g, g \o Image(e))
         /\ Holds(g \o Image(e), Len(g), e)
<1>1. /\ Image(e) \in Seq(Unit) /\ Size(e) \in Nat /\ Len(Image(e)) = Size(e)
  BY Images
<1>2. g \o Image(e) \in Seq(Unit) /\ Len(g \o Image(e)) = Len(g) + Size(e)
  BY <1>1
<1>3. \A p \in 1 .. Len(g) : (g \o Image(e))[p] = g[p]
  BY <1>1
<1>4. \A j \in 1 .. Size(e) : (g \o Image(e))[Len(g) + j] = Image(e)[j]
  BY <1>1
<1> QED
  BY <1>1, <1>2, <1>3, <1>4 DEF Begins, Holds

(* Each entry of a batch is written behind what was there before.          *)
LEMMA Written ==
  ASSUME NEW f \in Seq(Unit), NEW n \in Nat, NEW entries \in [1 .. n -> Entry],
         NEW w, Writes(f, entries, w, n)
  PROVE  /\ w[0] = f
         /\ \A i \in 0 .. n : w[i] \in Seq(Unit)
         /\ \A i \in 1 .. n : /\ Len(w[i]) = Len(w[i - 1]) + Size(entries[i])
                              /\ Holds(w[i], Len(w[i - 1]), entries[i])
         /\ \A i \in 0 .. n : \A j \in 0 .. n : i <= j => Begins(w[i], w[j])
<1>1. \A i \in 0 .. n : w[i] = IF i = 0 THEN f ELSE w[i - 1] \o Image(entries[i])
  BY DEF Writes
<1>2. \A i \in 0 .. n : w[i] \in Seq(Unit)
  <2> DEFINE Bad == {m \in 0 .. n : w[m] \notin Seq(Unit)}
  <2>1. SUFFICES ASSUME Bad # {} PROVE FALSE
    OBVIOUS
  <2>2. PICK m \in Bad : \A x \in Bad : m <= x
    <3>1. Bad \in SUBSET Nat
      OBVIOUS
    <3> QED BY <2>1, <3>1, LeastNumber
  <2>3. m # 0
    BY <1>1, <2>2
  <2>4. m - 1 \in 0 .. n /\ m - 1 \notin Bad /\ m \in 1 .. n
    BY <2>2, <2>3
  <2>5. w[m] = w[m - 1] \o Image(entries[m]) /\ w[m - 1] \in Seq(Unit)
    BY <1>1, <2>3, <2>4
  <2>6. Image(entries[m]) \in Seq(Unit)
    BY <2>4, Images
  <2>7. w[m] \in Seq(Unit)
    BY <2>5, <2>6
  <2> QED BY <2>2, <2>7
<1>3. ASSUME NEW f0 \in Seq(Unit), NEW i \in 1 .. n, Begins(f0, w[i - 1])
      PROVE  /\ Len(w[i]) = Len(w[i - 1]) + Size(entries[i])
             /\ Holds(w[i], Len(w[i - 1]), entries[i])
             /\ Begins(f0, w[i])
  <2>0. i \in 0 .. n /\ i # 0 /\ i - 1 \in 0 .. n
    OBVIOUS
  <2>1. w[i] = w[i - 1] \o Image(entries[i]) /\ w[i - 1] \in Seq(Unit) /\ entries[i] \in Entry
    BY <1>1, <1>2, <2>0
  <2> DEFINE g == w[i - 1]
             e == entries[i]
  <2>2. g \in Seq(Unit) /\ e \in Entry /\ Begins(f0, g)
    BY <2>1, <1>3
  <2> HIDE DEF g, e
  <2>3. /\ Len(g \o Image(e)) = Len(g) + Size(e)
        /\ Holds(g \o Image(e), Len(g), e)
        /\ Begins(f0, g \o Image(e))
    BY <2>2, BeginsSteps
  <2> QED BY <2>1, <2>3 DEF g, e
<1>4. \A g \in Seq(Unit) : Begins(g, g)
  BY DEF Begins
<1>5. \A i \in 1 .. n : /\ Len(w[i]) = Len(w[i - 1]) + Size(entries[i])
                        /\ Holds(w[i], Len(w[i - 1]), entries[i])
  <2> TAKE i \in 1 .. n
  <2>1. w[i - 1] \in Seq(Unit) /\ Begins(w[i - 1], w[i - 1])
    BY <1>2, <1>4
  <2> QED BY <2>1, <1>3
<1>6. ASSUME NEW i \in 0 .. n
      PROVE  \A j \in 0 .. n : i <= j => Begins(w[i], w[j])
  <2> DEFINE Bad == {j \in 0 .. n : i <= j /\ ~ Begins(w[i], w[j])}
  <2>1. SUFFICES ASSUME Bad # {} PROVE FALSE
    OBVIOUS
  <2>2. PICK m \in Bad : \A x \in Bad : m <= x
    <3>1. Bad \in SUBSET Nat
      OBVIOUS
    <3> QED BY <2>1, <3>1, LeastNumber
  <2>3. m # i
    BY <1>2, <1>4, <2>2
  <2>4. m - 1 \in 0 .. n /\ m - 1 \notin Bad /\ m \in 1 .. n /\ i <= m - 1
    BY <2>2, <2>3
  <2>5. Begins(w[i], w[m - 1]) /\ w[i] \in Seq(Unit)
    BY <1>2, <2>4
  <2>6. Begins(w[i], w[m])
    BY <1>3, <2>4, <2>5
  <2> QED BY <2>2, <2>6
<1> QED
  BY <1>1, <1>2, <1>5, <1>6

LEMMA ConcatParts ==
  ASSUME NEW S, NEW s \in Seq(S), NEW t \in Seq(S)
  PROVE  /\ s \o t \in Seq(S)
         /\ Len(s \o t) = Len(s) + Len(t)
         /\ \A i \in 1 .. Len(s) : (s \o t)[i] = s[i]
         /\ \A i \in 1 .. Len(t) : (s \o t)[Len(s) + i] = t[i]
OBVIOUS

(* What an append of n entries writes and where it places them.            *)
Appends(entries, n) ==
  LET at(i) == OffsetOf(entries, i) IN
  /\ file' \in Seq(Unit)
  /\ Begins(file, file')
  /\ Len(file) < Len(file')
  /\ at(1) = Len(file)
  /\ \A i \in 1 .. n :
       /\ at(i) \in Nat /\ Len(file) <= at(i) /\ at(i) < Len(file')
       /\ at(i) + Size(entries[i]) = IF i = n THEN Len(file') ELSE at(i + 1)
       /\ Holds(file', at(i), entries[i])
  /\ placed' \in Seq(Placed)
  /\ Len(placed') = Len(placed) + n
  /\ \A i \in 1 .. Len(placed) : placed'[i] = placed[i]
  /\ \A i \in 1 .. n : placed'[Len(placed) + i] = [off |-> at(i), entry |-> entries[i]]

LEMMA AppendAppends ==
  ASSUME VLogTypeOK, NEW n \in Nat \ {0}, NEW entries \in [1 .. n -> Entry],
         AppendEntries(entries)
  PROVE  Appends(entries, n)
<1> DEFINE w == FileWith(entries)
           at(i) == OffsetOf(entries, i)
           added == [i \in 1 .. n |-> [off |-> at(i), entry |-> entries[i]]]
<1>1. entries \in Seq(Entry) /\ Len(entries) = n /\ DOMAIN entries = 1 .. n
  OBVIOUS
<1>2. Writes(file, entries, w, n)
  BY <1>1, FileWithWrites
<1>3. file \in Seq(Unit) /\ placed \in Seq(Placed)
  BY DEF VLogTypeOK
<1>4. file' = w[n] /\ placed' = placed \o added
  BY <1>1 DEF AppendEntries
<1>5. \A i \in 1 .. n : at(i) = Len(w[i - 1])
  BY DEF OffsetOf
<1> HIDE DEF w, at
<1>6. /\ w[0] = file
      /\ \A i \in 0 .. n : w[i] \in Seq(Unit)
      /\ \A i \in 1 .. n : /\ Len(w[i]) = Len(w[i - 1]) + Size(entries[i])
                           /\ Holds(w[i], Len(w[i - 1]), entries[i])
      /\ \A i \in 0 .. n : \A j \in 0 .. n : i <= j => Begins(w[i], w[j])
  BY <1>2, <1>3, Written
<1>7. \A i \in 0 .. n : Begins(file, w[i]) /\ Begins(w[i], file') /\ Len(w[i]) \in Nat
  BY <1>4, <1>6
<1>8. at(1) = Len(file)
  BY <1>5, <1>6
<1>9. ASSUME NEW i \in 1 .. n
      PROVE  /\ at(i) \in Nat /\ Len(file) <= at(i) /\ at(i) < Len(file')
             /\ at(i) + Size(entries[i]) = IF i = n THEN Len(file') ELSE at(i + 1)
             /\ Holds(file', at(i), entries[i])
  <2> DEFINE a == at(i)
             e == entries[i]
             size == Size(e)
             end == w[i]
  <2>1. i - 1 \in 0 .. n /\ i \in 0 .. n /\ e \in Entry
    OBVIOUS
  <2>2. size \in Nat /\ size > 0
    BY <2>1, Images
  <2>3. a = Len(w[i - 1])
    BY <1>5
  <2>4. /\ a \in Nat /\ Len(file) <= a
        /\ Len(end) = a + size
        /\ Len(end) <= Len(file') /\ Len(end) \in Nat
        /\ Holds(end, a, e) /\ Begins(end, file')
    <3>1. Begins(file, w[i - 1]) /\ Begins(end, file') /\ Len(w[i - 1]) \in Nat /\ Len(end) \in Nat
      BY <1>7, <2>1
    <3>2. Len(end) = Len(w[i - 1]) + size /\ Holds(end, Len(w[i - 1]), e)
      BY <1>6
    <3> QED BY <2>3, <3>1, <3>2 DEF Begins
  <2>5. i # n => at(i + 1) = Len(end)
    <3>1. i # n => i + 1 \in 1 .. n /\ (i + 1) - 1 = i
      OBVIOUS
    <3> QED BY <1>5, <3>1
  <2>6. i = n => Len(file') = Len(end)
    BY <1>4
  <2> HIDE DEF a, size, end, e
  <2>7. Holds(file', a, e)
    <3>1. ASSUME NEW j \in 1 .. size
          PROVE  file'[a + j] = Image(e)[j]
      <4>1. a + j \in 1 .. Len(end)
        BY <2>2, <2>4
      <4>2. file'[a + j] = end[a + j]
        BY <2>4, <4>1 DEF Begins
      <4>3. end[a + j] = Image(e)[j]
        BY <2>4 DEF Holds, size
      <4> QED BY <4>2, <4>3
    <3>2. Len(file') \in Nat
      BY <1>4, <1>7
    <3>3. a + size <= Len(file')
      BY <2>2, <2>4, <3>2
    <3> QED BY <3>1, <3>3 DEF Holds, size
  <2>8. Len(file) \in Nat /\ Len(file') \in Nat
    BY <1>3, <1>4, <1>7
  <2>9. a < Len(file') /\ a + size = IF i = n THEN Len(file') ELSE at(i + 1)
    BY <2>2, <2>4, <2>5, <2>6, <2>8
  <2> QED
    BY <2>4, <2>7, <2>9 DEF a, e, size
<1>10. added \in Seq(Placed) /\ Len(added) = n
  <2>1. \A i \in 1 .. n : [off |-> at(i), entry |-> entries[i]] \in Placed
    BY <1>9 DEF Placed
  <2>2. added \in [1 .. n -> Placed]
    BY <2>1
  <2> HIDE DEF added
  <2> QED BY <2>2
<1>11. \A i \in 1 .. n : added[i] = [off |-> at(i), entry |-> entries[i]]
  OBVIOUS
<1> HIDE DEF added
<1>12. /\ placed' \in Seq(Placed)
       /\ Len(placed') = Len(placed) + n
       /\ \A i \in 1 .. Len(placed) : placed'[i] = placed[i]
       /\ \A i \in 1 .. n : placed'[Len(placed) + i] = added[i]
  <2>1. placed \in Seq(Placed) /\ added \in Seq(Placed)
    BY <1>3, <1>10
  <2>2. placed \o added \in Seq(Placed)
    BY <2>1, ConcatParts
  <2>3. Len(placed \o added) = Len(placed) + Len(added)
    BY <2>1, ConcatParts
  <2>4. \A i \in 1 .. Len(placed) : (placed \o added)[i] = placed[i]
    BY <2>1, ConcatParts
  <2>5. \A i \in 1 .. Len(added) : (placed \o added)[Len(placed) + i] = added[i]
    BY <2>1, ConcatParts
  <2> QED BY <1>4, <1>10, <2>2, <2>3, <2>4, <2>5
<1>13. Len(file) < Len(file')
  <2>1. 1 \in 1 .. n
    OBVIOUS
  <2>2. Len(file) \in Nat /\ Len(file') \in Nat
    BY <1>3, <1>4, <1>6
  <2> QED BY <1>9, <2>1, <2>2
<1>14. file' \in Seq(Unit) /\ Begins(file, file')
  BY <1>4, <1>6, <1>7
<1> QED
  <2>1. \A i \in 1 .. n : placed'[Len(placed) + i] = [off |-> at(i), entry |-> entries[i]]
    BY <1>11, <1>12
  <2>2. Appends(entries, n) <=>
          /\ file' \in Seq(Unit)
          /\ Begins(file, file')
          /\ Len(file) < Len(file')
          /\ at(1) = Len(file)
          /\ \A i \in 1 .. n :
               /\ at(i) \in Nat /\ Len(file) <= at(i) /\ at(i) < Len(file')
               /\ at(i) + Size(entries[i]) = IF i = n THEN Len(file') ELSE at(i + 1)
               /\ Holds(file', at(i), entries[i])
          /\ placed' \in Seq(Placed)
          /\ Len(placed') = Len(placed) + n
          /\ \A i \in 1 .. Len(placed) : placed'[i] = placed[i]
          /\ \A i \in 1 .. n : placed'[Len(placed) + i] = [off |-> at(i), entry |-> entries[i]]
    BY DEF Appends, at
  <2> QED
    BY <1>8, <1>9, <1>12, <1>13, <1>14, <2>1, <2>2

----------------------------------------------------------------------------
(* The inductive invariant.                                                *)

LEMMA Places ==
  ASSUME VLogTypeOK
  PROVE  /\ file \in Seq(Unit) /\ Len(file) \in Nat /\ Len(file) <= MaxUnits
         /\ placed \in Seq(Placed) /\ Len(placed) \in Nat /\ DOMAIN placed = 1 .. Len(placed)
         /\ \A i \in DOMAIN placed :
              /\ placed[i] \in Placed
              /\ placed[i].off \in Nat /\ placed[i].off < Len(file)
              /\ placed[i].entry \in Entry
              /\ Size(placed[i].entry) \in Nat /\ Size(placed[i].entry) > 0
<1>1. file \in Seq(Unit) /\ Len(file) \in Nat /\ Len(file) <= MaxUnits
  BY DEF VLogTypeOK
<1>2. placed \in Seq(Placed) /\ Len(placed) \in Nat /\ DOMAIN placed = 1 .. Len(placed)
  BY DEF VLogTypeOK
<1>3. ASSUME NEW i \in DOMAIN placed
      PROVE  /\ placed[i] \in Placed
             /\ placed[i].off \in Nat /\ placed[i].off < Len(file)
             /\ placed[i].entry \in Entry
             /\ Size(placed[i].entry) \in Nat /\ Size(placed[i].entry) > 0
  <2>1. placed[i] \in Placed
    BY <1>2
  <2>2. placed[i].off \in Nat /\ placed[i].entry \in Entry
    BY <2>1 DEF Placed
  <2>3. placed[i].off < Len(file)
    BY DEF VLogTypeOK
  <2> QED BY <2>1, <2>2, <2>3, Images
<1> QED BY <1>1, <1>2, <1>3

(* While reads succeed there is an entry at a boundary that is not behind  *)
(* what is released, unless it is the end of the file; before that there   *)
(* is none.                                                                *)
LEMMA EntryAtBoundary ==
  ASSUME VLogTypeOK, NEW r \in 0 .. Len(file), ReleasedUpTo(r), NEW x \in Nat
  PROVE  /\ Boundary(x) /\ x >= r =>
              x = Len(file) \/ \E i \in DOMAIN placed : placed[i].off = x /\ Reads(placed[i])
         /\ Boundary(x) /\ x >= r /\ x < Len(file) => IsValidEntry(x)
         /\ x < r => ~ IsValidEntry(x)
<1>1. Boundary(x) /\ x >= r =>
        x = Len(file) \/ \E i \in DOMAIN placed : placed[i].off = x /\ Reads(placed[i])
  BY DEF Boundary, ReleasedUpTo
<1>2. Boundary(x) /\ x >= r /\ x < Len(file) => IsValidEntry(x)
  <2>1. Len(file) \in Nat
    BY Places
  <2>2. Boundary(x) /\ x >= r /\ x < Len(file) =>
          \E i \in DOMAIN placed : placed[i].off = x /\ Reads(placed[i])
    BY <1>1, <2>1
  <2> QED BY <2>2 DEF Reads
<1>3. x < r => ~ IsValidEntry(x)
  <2>1. x < r => x + 1 \in 1 .. r
    BY Places
  <2>2. x < r => file[x + 1] = Zero
    BY <2>1 DEF ReleasedUpTo
  <2> QED BY <2>2, EntryAssumption DEF IsValidEntry, IsMagic
<1> QED BY <1>1, <1>2, <1>3

LEMMA InitInv == VLogInit => VLogInv
<1> SUFFICES ASSUME VLogInit PROVE VLogInv
  OBVIOUS
<1>1. Len(file) = 0 /\ Len(placed) = 0 /\ DOMAIN placed = {} /\ file \in Seq(Unit) /\ placed \in Seq(Placed)
  BY DEF VLogInit
<1>2. VLogTypeOK
  BY <1>1, FileAssumption DEF VLogInit, VLogTypeOK
<1>3. Chained
  BY <1>1 DEF VLogInit, Chained
<1>4. ReleasedUpTo(0)
  <2>1. HolesPassed(0)
    <3>1. \A n \in 0 .. 0 : ~ n * PageSize < 0
      BY FileAssumption
    <3> QED BY <1>1, <3>1 DEF HolesPassed, VLogInit
  <2> QED BY <1>1, <2>1 DEF ReleasedUpTo, Boundary, VLogInit
<1>5. GcGoesOn
  BY DEF GcGoesOn, VLogInit
<1>6. 0 \in 0 .. Len(file)
  BY <1>1
<1> QED
  BY <1>2, <1>3, <1>4, <1>5, <1>6 DEF VLogInv

LEMMA ResetInv == VLogInv /\ Reset => VLogInv'
<1> SUFFICES ASSUME VLogInv, Reset PROVE VLogInv'
  OBVIOUS
<1>1. /\ Len(file') = 0 /\ Len(placed') = 0 /\ DOMAIN placed' = {}
      /\ file' \in Seq(Unit) /\ placed' \in Seq(Placed) /\ placed' = <<>> /\ file' = <<>>
      /\ data' = {} /\ pc' = "ready" /\ ok' = TRUE
  BY DEF Reset, gcVars
<1>2. VLogTypeOK'
  BY <1>1, FileAssumption DEF VLogInv, VLogTypeOK, Reset, gcVars
<1>3. Chained'
  BY <1>1 DEF Chained
<1>4. ReleasedUpTo(0)'
  <2>1. HolesPassed(0)'
    <3>1. \A n \in 0 .. 0 : ~ n * PageSize < 0
      BY FileAssumption
    <3> QED BY <1>1, <3>1 DEF HolesPassed
  <2> QED BY <1>1, <2>1 DEF ReleasedUpTo, Boundary
<1>5. GcGoesOn'
  BY <1>1 DEF GcGoesOn
<1>6. 0 \in 0 .. Len(file')
  BY <1>1
<1> QED
  BY <1>2, <1>3, <1>4, <1>5, <1>6 DEF VLogInv

(* An append leaves what could be read readable, and nothing else; what it *)
(* writes can be read.                                                     *)
LEMMA AppendReads ==
  ASSUME VLogTypeOK, Chained, NEW n \in Nat \ {0}, NEW entries \in [1 .. n -> Entry],
         Appends(entries, n)
  PROVE  /\ \A i \in 1 .. Len(placed) : ReadsIn(file', placed'[i]) <=> Reads(placed[i])
         /\ \A i \in 1 .. n : ReadsIn(file', placed'[Len(placed) + i])
<1> DEFINE at(i) == OffsetOf(entries, i)
           N == Len(placed)
           L == Len(file)
           M == Len(file')
<1>1. /\ file \in Seq(Unit) /\ DOMAIN placed = 1 .. N /\ N \in Nat /\ L \in Nat
      /\ \A i \in 1 .. N : /\ placed[i] \in Placed
                           /\ placed[i].off \in Nat /\ placed[i].off < L
                           /\ placed[i].entry \in Entry
                           /\ Size(placed[i].entry) \in Nat
  BY Places
<1>2. /\ file' \in Seq(Unit) /\ Begins(file, file') /\ L < M
      /\ placed' \in Seq(Placed) /\ Len(placed') = N + n
      /\ \A i \in 1 .. N : placed'[i] = placed[i]
  BY DEF Appends
<1>3. \A i \in 1 .. n :
         /\ Holds(file', at(i), entries[i])
         /\ placed'[N + i] = [off |-> at(i), entry |-> entries[i]]
  BY DEF Appends
<1>4. M \in Nat
  BY <1>2
<1>5. ASSUME NEW i \in 1 .. N
      PROVE  ReadsIn(file', placed'[i]) <=> Reads(placed[i])
  <2> DEFINE p == placed[i]
             e == p.entry
             a == p.off
  <2>1. p \in Placed /\ e \in Entry /\ Size(e) \in Nat /\ a \in Nat
    BY <1>1
  <2>2. placed'[i] = p
    BY <1>2
  <2>3. a + Size(e) <= L
    <3>1. a + Size(e) = EndOf(i)
      BY <1>1 DEF Chained
    <3>2. CASE i = N
      BY <1>1, <3>1, <3>2 DEF EndOf
    <3>3. CASE i # N
      <4>1. i + 1 \in 1 .. N
        <5>1. N \in Nat /\ i \in 1 .. N
          BY <1>1
        <5> HIDE DEF N
        <5> QED BY <3>3, <5>1
      <4>2. EndOf(i) = placed[i + 1].off
        BY <3>3 DEF EndOf
      <4>3. placed[i + 1].off \in Nat /\ placed[i + 1].off < L
        BY <1>1, <4>1
      <4> QED BY <3>1, <4>2, <4>3, <1>1
    <3> QED BY <3>2, <3>3
  <2> HIDE DEF p, L, M, N, at
  <2>4. Reads(p) <=> Holds(file, a, e)
    BY <1>1, <2>1, ReadsUnits, ReadsArgument
  <2>5. ReadsIn(file', p) <=> Holds(file', a, e)
    BY <1>2, <2>1, ReadsUnits
  <2> HIDE DEF e, a
  <2>6. a + Size(e) <= M
    BY <1>1, <1>2, <1>4, <2>1, <2>3
  <2>7. \A j \in 1 .. Size(e) : file'[a + j] = file[a + j]
    <3> TAKE j \in 1 .. Size(e)
    <3>1. a + j \in 1 .. Len(file)
      BY <1>1, <2>1, <2>3 DEF L
    <3> QED BY <1>2, <3>1 DEF Begins
  <2>8. Holds(file', a, e) <=> Holds(file, a, e)
    BY <2>3, <2>6, <2>7 DEF Holds, L, M
  <2>9. ReadsIn(file', p) <=> Reads(p)
    BY <2>4, <2>5, <2>8
  <2>10. ReadsIn(file', placed'[i]) <=> Reads(p)
    BY <2>2, <2>9
  <2> QED BY <2>10 DEF p
<1>6. ASSUME NEW i \in 1 .. n
      PROVE  ReadsIn(file', placed'[N + i])
  <2> DEFINE p == placed'[N + i]
  <2>1. p \in Placed
    <3>1. N + i \in 1 .. N + n /\ DOMAIN placed' = 1 .. N + n
      BY <1>1, <1>2
    <3> QED BY <1>2, <3>1
  <2>2. p = [off |-> at(i), entry |-> entries[i]]
    BY <1>3
  <2> HIDE DEF p, at
  <2>3. p.off = at(i) /\ p.entry = entries[i]
    BY <2>2
  <2>4. Holds(file', p.off, p.entry)
    BY <1>3, <2>3
  <2>5. ReadsIn(file', p)
    BY <2>1, <2>4, <1>2, ReadsUnits
  <2> QED BY <2>5 DEF p
<1> QED
  BY <1>5, <1>6

LEMMA AppendInv ==
  ASSUME VLogInv, NEW n \in Nat \ {0}, NEW entries \in [1 .. n -> Entry],
         AppendEntries(entries)
  PROVE  VLogInv'
<1> DEFINE at(i) == OffsetOf(entries, i)
           N == Len(placed)
           L == Len(file)
           M == Len(file')
           after(x) == x = M \/ \E i \in 1 .. N + n : placed'[i].off = x
<1>1. VLogTypeOK /\ Chained /\ GcGoesOn
  BY DEF VLogInv
<1>2. PICK r \in 0 .. L : ReleasedUpTo(r)
  BY DEF VLogInv
<1>3. /\ file \in Seq(Unit) /\ DOMAIN placed = 1 .. N
      /\ \A i \in 1 .. N : /\ placed[i] \in Placed
                           /\ placed[i].off \in Nat /\ placed[i].off < L
                           /\ placed[i].entry \in Entry
                           /\ Size(placed[i].entry) \in Nat /\ Size(placed[i].entry) > 0
  BY <1>1, Places
<1>4. Appends(entries, n)
  BY <1>1, AppendAppends
<1>5. /\ file' \in Seq(Unit) /\ Begins(file, file') /\ L < M
      /\ at(1) = L
      /\ placed' \in Seq(Placed) /\ Len(placed') = N + n
      /\ \A i \in 1 .. N : placed'[i] = placed[i]
  BY <1>4 DEF Appends
<1>6. \A i \in 1 .. n :
         /\ at(i) \in Nat /\ L <= at(i) /\ at(i) < M
         /\ at(i) + Size(entries[i]) = IF i = n THEN M ELSE at(i + 1)
         /\ Holds(file', at(i), entries[i])
         /\ placed'[N + i] = [off |-> at(i), entry |-> entries[i]]
  BY <1>4 DEF Appends
<1>7. /\ ok /\ ok' = ok /\ pc \in {"ready", "scan"} /\ pc' = pc
      /\ chunk' = chunk /\ start' = start /\ pos' = pos /\ scanned' = scanned
      /\ M <= MaxUnits
      /\ data' = data \cup {(p - 1) \div PageSize : p \in L + 1 .. M}
  BY DEF AppendEntries, gcVars
<1>8. /\ L \in Nat /\ M \in Nat /\ L < M /\ N \in Nat /\ r \in Nat /\ r <= L /\ n \in Nat /\ n > 0
      /\ DOMAIN placed' = 1 .. N + n
  <2>1. L \in Nat /\ N \in Nat
    BY <1>1, Places
  <2>2. M \in Nat
    BY <1>5
  <2>3. DOMAIN placed' = 1 .. N + n
    BY <1>5
  <2> QED BY <1>2, <1>5, <2>1, <2>2, <2>3
<1>9. Boundary(pos)' = after(pos') /\ Boundary(r)' = after(r)
  BY <1>8 DEF Boundary
<1>10. \A x : Boundary(x) = (x = L \/ \E i \in 1 .. N : placed[i].off = x)
  BY <1>3 DEF Boundary
<1>11. \A i \in 1 .. n : /\ placed'[N + i].off = at(i)
                         /\ placed'[N + i].entry = entries[i]
  <2> TAKE i \in 1 .. n
  <2>1. placed'[N + i] = [off |-> at(i), entry |-> entries[i]]
    BY <1>6
  <2> HIDE DEF at, N
  <2> QED BY <2>1
<1>12. \A i \in 1 .. N + n : i \notin 1 .. N => i - N \in 1 .. n /\ N + (i - N) = i
  BY <1>8
<1>13. /\ \A i \in 1 .. N : Reads(placed[i]) => ReadsIn(file', placed'[i])
       /\ \A i \in 1 .. n : ReadsIn(file', placed'[N + i])
  BY <1>1, <1>4, AppendReads
<1>15. \A i : Reads(placed[i])' = ReadsIn(file', placed'[i])
  BY DEF ReadsIn, Reads, IsValidEntry, IsMagic
<1> HIDE DEF at, N, L, M, after
<1>16. ASSUME NEW p \in L + 1 .. M, NEW q, q = (p - 1) \div PageSize
       PROVE  /\ q \in Nat /\ q <= p - 1 /\ q * PageSize \in Nat
              /\ q * PageSize <= p - 1 /\ p - 1 < q * PageSize + PageSize
  <2>1. p - 1 \in Nat
    BY <1>8
  <2>2. q \in Nat /\ q * PageSize <= p - 1 /\ p - 1 < q * PageSize + PageSize
    BY <1>16, <2>1, FileAssumption, PageOf
  <2>3. q * PageSize \in Nat /\ q <= q * PageSize
    BY <2>2, FileAssumption
  <2>4. q <= p - 1
    BY <2>1, <2>2, <2>3
  <2> QED BY <2>2, <2>3, <2>4
<1>17. ASSUME NEW m \in data', m \notin data
       PROVE  \E p \in L + 1 .. M : m = (p - 1) \div PageSize
  BY <1>7, <1>17
<1>18. VLogTypeOK'
  <2>1. data' \subseteq 0 .. M
    <3> SUFFICES ASSUME NEW m \in data' PROVE m \in 0 .. M
      OBVIOUS
    <3>1. CASE m \in data
      <4>1. m \in 0 .. L
        BY <1>1, <3>1 DEF VLogTypeOK, L
      <4> QED BY <1>8, <4>1
    <3>2. CASE m \notin data
      <4>1. PICK p \in L + 1 .. M : m = (p - 1) \div PageSize
        BY <1>17, <3>2
      <4>2. m \in Nat /\ m <= p - 1
        BY <1>16, <4>1
      <4> QED BY <1>8, <4>1, <4>2
    <3> QED BY <3>1, <3>2
  <2>2. \A i \in 1 .. N + n : placed'[i].off < M
    <3> TAKE i \in 1 .. N + n
    <3>1. CASE i \in 1 .. N
      <4>1. placed'[i] = placed[i] /\ placed[i].off \in Nat /\ placed[i].off < L
        BY <1>3, <1>5, <3>1
      <4> QED BY <1>8, <4>1
    <3>2. CASE i \notin 1 .. N
      <4>1. i - N \in 1 .. n /\ N + (i - N) = i
        BY <1>12, <3>2
      <4>2. placed'[N + (i - N)].off = at(i - N) /\ at(i - N) < M
        BY <1>6, <1>11, <4>1
      <4> QED BY <4>1, <4>2
    <3> QED BY <3>1, <3>2
  <2>3. \A i \in DOMAIN placed' : placed'[i].off < Len(file')
    BY <2>2, <1>8 DEF M
  <2> QED BY <1>1, <1>5, <1>7, <2>1, <2>3 DEF VLogTypeOK, M
<1>19. Chained'
  <2>1. placed' # <<>>
    BY <1>5, <1>8
  <2>2. placed'[1].off = 0
    <3>1. CASE N = 0
      <4>1. L = 0
        <5>1. placed = <<>>
          BY <1>1, <3>1 DEF N, VLogTypeOK
        <5> QED BY <1>1, <5>1 DEF Chained, L
      <4>2. 1 \in 1 .. n /\ N + 1 = 1
        BY <1>8, <3>1
      <4> QED BY <1>5, <1>11, <4>1, <4>2
    <3>2. CASE N # 0
      <4>1. 1 \in 1 .. N
        BY <1>8, <3>2
      <4>2. placed # <<>>
        BY <3>2 DEF N
      <4> QED BY <1>1, <1>5, <4>1, <4>2 DEF Chained
    <3> QED BY <3>1, <3>2
  <2>3. ASSUME NEW i \in 1 .. N + n
        PROVE  placed'[i].off + Size(placed'[i].entry) =
                 IF i = N + n THEN M ELSE placed'[i + 1].off
    <3>1. CASE i \in 1 .. N
      <4>1. placed'[i] = placed[i] /\ i # N + n
        BY <1>5, <1>8, <3>1
      <4>2. placed[i].off + Size(placed[i].entry) = IF i = N THEN L ELSE placed[i + 1].off
        BY <1>1, <1>3, <3>1 DEF Chained, EndOf, N, L
      <4>3. CASE i = N
        <5>1. 1 \in 1 .. n
          BY <1>8
        <5>2. placed'[i + 1].off = L
          BY <1>5, <1>11, <4>3, <5>1
        <5> QED BY <4>1, <4>2, <4>3, <5>2
      <4>4. CASE i # N
        <5>1. i + 1 \in 1 .. N
          BY <1>8, <3>1, <4>4
        <5>2. placed'[i + 1] = placed[i + 1]
          BY <1>5, <5>1
        <5> QED BY <4>1, <4>2, <4>4, <5>2
      <4> QED BY <4>3, <4>4
    <3>2. CASE i \notin 1 .. N
      <4> DEFINE j == i - N
      <4>1. j \in 1 .. n /\ N + j = i
        BY <1>12, <3>2
      <4>2. N + (j + 1) = i + 1 /\ (i = N + n <=> j = n) /\ (j # n => j + 1 \in 1 .. n)
        BY <1>8, <4>1
      <4> HIDE DEF j
      <4>3. placed'[i].off = at(j) /\ placed'[i].entry = entries[j]
        BY <1>11, <4>1
      <4>4. j # n => placed'[i + 1].off = at(j + 1)
        <5>1. j # n => placed'[N + (j + 1)].off = at(j + 1)
          BY <1>11, <4>2
        <5> QED BY <4>2, <5>1
      <4> QED BY <1>6, <4>1, <4>2, <4>3, <4>4
    <3> QED BY <3>1, <3>2
  <2> QED BY <1>5, <1>8, <2>1, <2>2, <2>3 DEF Chained, EndOf, M
<1>20. ASSUME NEW x, Boundary(x)
       PROVE  after(x)
  <2>1. CASE x = L
    <3>1. 1 \in 1 .. n /\ N + 1 \in 1 .. N + n
      BY <1>8
    <3> QED BY <1>5, <1>11, <2>1, <3>1 DEF after
  <2>2. CASE x # L
    <3>1. PICK i \in 1 .. N : placed[i].off = x
      BY <1>10, <1>20, <2>2
    <3>2. i \in 1 .. N + n /\ placed'[i] = placed[i]
      BY <1>5, <1>8
    <3> QED BY <3>1, <3>2 DEF after
  <2> QED BY <2>1, <2>2
<1>21. ReleasedUpTo(r)'
  <2>1. \A p \in 1 .. r : file'[p] = Zero
    <3> TAKE p \in 1 .. r
    <3>1. p \in 1 .. Len(file)
      BY <1>8 DEF L
    <3> QED BY <1>2, <1>5, <3>1 DEF ReleasedUpTo, Begins
  <2>2. \A i \in DOMAIN placed' : placed'[i].off >= r => Reads(placed[i])'
    <3> SUFFICES ASSUME NEW i \in 1 .. N + n, placed'[i].off >= r PROVE ReadsIn(file', placed'[i])
      BY <1>8, <1>15
    <3>1. CASE i \in 1 .. N
      <4>1. Reads(placed[i])
        BY <1>2, <1>3, <1>5, <3>1 DEF ReleasedUpTo
      <4> QED BY <1>13, <3>1, <4>1
    <3>2. CASE i \notin 1 .. N
      BY <1>12, <1>13, <3>2
    <3> QED BY <3>1, <3>2
  <2>3. Boundary(r)'
    BY <1>2, <1>7, <1>9, <1>20 DEF ReleasedUpTo
  <2>4. HolesPassed(r)'
    <3>1. HolesPassed(r)
      BY <1>2 DEF ReleasedUpTo
    <3>2. ASSUME NEW m \in data' PROVE m * PageSize < M
      <4>1. CASE m \in data
        <5>1. m * PageSize < L /\ m \in Nat
          BY <3>1, <4>1, <1>1 DEF HolesPassed, VLogTypeOK, L
        <5>2. m * PageSize \in Nat
          BY <5>1, FileAssumption, PagesApart
        <5> QED BY <5>1, <5>2, <1>8
      <4>2. CASE m \notin data
        <5>1. PICK p \in L + 1 .. M : m = (p - 1) \div PageSize
          BY <1>17, <4>2
        <5>2. m * PageSize \in Nat /\ m * PageSize <= p - 1
          BY <5>1, <1>16
        <5> QED BY <5>1, <5>2, <1>8
      <4> QED BY <4>1, <4>2
    <3>3. ASSUME NEW m \in 0 .. M, m \notin data', m * PageSize < M
          PROVE  (m + 1) * PageSize <= r
      <4>1. m \in Nat /\ m \notin data
        BY <1>7, <1>8, <3>3
      <4>2. m * PageSize \in Nat /\ m <= m * PageSize
        BY <4>1, FileAssumption
      <4>3. CASE m * PageSize < L
        <5>1. m \in 0 .. L
          BY <4>1, <4>2, <4>3, <1>8
        <5>2. (m + 1) * PageSize <= r \/ (r = L /\ ~ok)
          BY <3>1, <4>1, <4>3, <5>1 DEF HolesPassed, L
        <5> QED BY <5>2, <1>7
      <4>4. CASE ~ m * PageSize < L
        <5>1. m * PageSize + 1 \in L + 1 .. M
          BY <3>3, <4>2, <4>4, <1>8
        <5>2. ((m * PageSize + 1) - 1) \div PageSize = m
          <6>1. (m * PageSize + 1) - 1 = m * PageSize
            BY <4>2
          <6> QED BY <6>1, <4>1, FileAssumption, PageStart
        <5>3. m \in data'
          BY <5>1, <5>2, <1>7
        <5> QED BY <3>3, <5>3
      <4> QED BY <4>3, <4>4
    <3> QED BY <3>2, <3>3 DEF HolesPassed, M
  <2>5. /\ pc' # "ready" => start' <= r
        /\ pc' = "search" => pos' <= r
        /\ pc' = "scan" /\ ok' => pos' >= r
    BY <1>2, <1>7 DEF ReleasedUpTo
  <2> QED BY <2>1, <2>2, <2>3, <2>4, <2>5 DEF ReleasedUpTo
<1>22. GcGoesOn'
  <2>1. pc' # "ready" => \A m \in data' : start' <= m * PageSize
    <3> SUFFICES ASSUME pc # "ready", NEW m \in data' PROVE start <= m * PageSize
      BY <1>7
    <3>1. CASE m \in data
      BY <3>1, <1>1 DEF GcGoesOn
    <3>2. CASE m \notin data
      <4>1. PICK p \in L + 1 .. M : m = (p - 1) \div PageSize
        BY <1>17, <3>2
      <4>2. m \in Nat /\ m * PageSize \in Nat /\ p - 1 < m * PageSize + PageSize
        BY <4>1, <1>16
      <4>3. PICK s \in Nat : start = s * PageSize
        BY <1>1, FileAssumption DEF GcGoesOn
      <4>4. start <= L /\ start \in Nat
        BY <1>1, <1>2, <1>8 DEF ReleasedUpTo, VLogTypeOK
      <4>5. PageSize \in Nat
        BY FileAssumption
      <4>6. m < s => m * PageSize + PageSize <= start
        BY <4>2, <4>3, FileAssumption, PagesApart
      <4>7. s <= m => start <= m * PageSize
        BY <4>2, <4>3, FileAssumption, PagesApart
      <4>8. ~ m < s
        BY <4>1, <4>2, <4>4, <4>5, <4>6, <1>8
      <4> QED BY <4>2, <4>3, <4>7, <4>8
    <3> QED BY <3>1, <3>2
  <2>2. pc' = "scan" /\ ok' => Boundary(pos)'
    <3>1. pc = "scan" => Boundary(pos)
      BY <1>1, <1>7 DEF GcGoesOn
    <3> QED BY <3>1, <1>7, <1>9, <1>20
  <2> QED BY <1>1, <1>7, <2>1, <2>2 DEF GcGoesOn
<1>23. r \in 0 .. Len(file')
  BY <1>8 DEF M
<1> QED
  BY <1>18, <1>19, <1>21, <1>22, <1>23 DEF VLogInv

(* gc starts at a page that is not behind what is released.                *)
LEMMA StartsInTime ==
  ASSUME VLogTypeOK, NEW r \in 0 .. Len(file), HolesPassed(r), data # {}
  PROVE  /\ Min(data) \in data
         /\ \A n \in data : Min(data) <= n
         /\ SeekDataBlock = Min(data) * PageSize
         /\ SeekDataBlock \in Nat
         /\ SeekDataBlock <= r
         /\ Min(data) \in 0 .. MaxUnits
         /\ \A n \in data : SeekDataBlock <= n * PageSize
<1> DEFINE m == Min(data)
           q == r \div PageSize
           L == Len(file)
<1>1. L \in Nat /\ L <= MaxUnits /\ MaxUnits \in Nat /\ r \in Nat /\ r <= L /\ PageSize \in Nat
  BY Places, FileAssumption
<1>2. data \subseteq 0 .. L /\ data \in SUBSET Nat
  BY <1>1 DEF VLogTypeOK
<1>3. m \in data /\ \A n \in data : m <= n
  BY <1>2, MinOfNumbers
<1>4. SeekDataBlock = PageSize * m
  BY DEF SeekDataBlock
<1> HIDE DEF m, L
<1>5. m \in Nat /\ m * PageSize \in Nat /\ m \in 0 .. MaxUnits
  BY <1>1, <1>2, <1>3, FileAssumption, PagesApart
<1>6. SeekDataBlock = m * PageSize
  BY <1>1, <1>4, <1>5
<1>7. m * PageSize < L
  BY <1>3 DEF HolesPassed, L
<1>8. q \in Nat /\ q * PageSize <= r /\ r < q * PageSize + PageSize
  BY <1>1, FileAssumption, PageOf
<1> HIDE DEF q
<1>9. /\ q * PageSize \in Nat /\ (q + 1) * PageSize = q * PageSize + PageSize
      /\ m <= q => m * PageSize <= q * PageSize
  BY <1>5, <1>8, FileAssumption, PagesApart
<1>10. q <= q * PageSize
  BY <1>8, FileAssumption
<1>11. m * PageSize <= r
  <2> SUFFICES ASSUME r < m * PageSize PROVE FALSE
    BY <1>1, <1>5
  <2>1. q < m
    BY <1>1, <1>5, <1>8, <1>9
  <2>2. q \notin data
    BY <1>2, <1>3, <1>5, <1>8, <2>1
  <2>3. q \in 0 .. L /\ q * PageSize < L
    BY <1>1, <1>5, <1>7, <1>8, <1>9, <1>10
  <2>4. (q + 1) * PageSize <= r \/ r = L
    BY <2>2, <2>3 DEF HolesPassed, L
  <2> QED BY <1>1, <1>5, <1>7, <1>8, <1>9, <2>4
<1>12. \A n \in data : m * PageSize <= n * PageSize
  <2> TAKE n \in data
  <2>1. n \in Nat /\ m <= n
    BY <1>2, <1>3
  <2> QED BY <1>5, <2>1, FileAssumption, PagesApart
<1> QED
  BY <1>3, <1>5, <1>6, <1>11, <1>12 DEF m

(* The steps of a gc before its release leave file and tables alone.       *)
LEMMA Untouched ==
  ASSUME UNCHANGED fileVars
  PROVE  /\ Chained => Chained'
         /\ \A x : Boundary(x) => x = Len(file') \/ \E i \in DOMAIN placed' : placed'[i].off = x
         /\ \A i : Reads(placed[i])' = Reads(placed[i])
<1>1. file' = file /\ placed' = placed
  BY DEF fileVars
<1> QED
  BY <1>1 DEF Chained, EndOf, Boundary, Reads, IsValidEntry, IsMagic

LEMMA GcStartInv == ASSUME VLogInv, NEW n \in 0 .. MaxChunk, GcStart(n) PROVE VLogInv'
<1>1. VLogTypeOK /\ Chained
  BY DEF VLogInv
<1>2. PICK r \in 0 .. Len(file) : ReleasedUpTo(r)
  BY DEF VLogInv
<1>3. /\ UNCHANGED <<file, data, placed, ok>> /\ data # {} /\ pc' = "search" /\ chunk' = n
      /\ start' = SeekDataBlock /\ pos' = SeekDataBlock /\ scanned' = 0
      /\ UNCHANGED fileVars
  BY DEF GcStart, fileVars
<1>4. /\ SeekDataBlock = Min(data) * PageSize
      /\ SeekDataBlock \in Nat
      /\ SeekDataBlock <= r
      /\ Min(data) \in 0 .. MaxUnits
      /\ \A m \in data : SeekDataBlock <= m * PageSize
  BY <1>1, <1>2, <1>3, StartsInTime DEF ReleasedUpTo
<1>5. VLogTypeOK'
  BY <1>1, <1>3, <1>4 DEF VLogTypeOK
<1>6. Chained'
  BY <1>1, <1>3, Untouched
<1>7. ReleasedUpTo(r)'
  BY <1>2, <1>3, <1>4 DEF ReleasedUpTo, HolesPassed, Boundary, Reads, IsValidEntry, IsMagic
<1>8. GcGoesOn'
  BY <1>3, <1>4 DEF GcGoesOn
<1> QED
  BY <1>2, <1>3, <1>5, <1>6, <1>7, <1>8 DEF VLogInv

(* The search passes zeros until it stands on the oldest entry left or,    *)
(* when none is left, at the end of the file.                              *)
LEMMA SearchInv == ASSUME VLogInv, SearchOn \/ SearchFound \/ SearchFails PROVE VLogInv'
<1>1. VLogTypeOK /\ Chained /\ GcGoesOn
  BY DEF VLogInv
<1>2. PICK r \in 0 .. Len(file) : ReleasedUpTo(r)
  BY DEF VLogInv
<1>3. /\ UNCHANGED fileVars /\ UNCHANGED <<file, data, placed, chunk, start, scanned>>
      /\ pc = "search"
  BY DEF SearchOn, SearchFound, SearchFails, fileVars
<1>4. pos \in Nat /\ start \in Nat /\ scanned = 0 /\ start <= pos /\ pos <= r /\ r \in Nat /\ Len(file) \in Nat
  <2>1. scanned = 0 /\ start + scanned <= pos /\ pos <= r
    BY <1>1, <1>2, <1>3 DEF GcGoesOn, ReleasedUpTo
  <2> QED BY <1>1, <2>1, Places DEF VLogTypeOK
<1>5. Chained'
  BY <1>1, <1>3, Untouched
<1>6. ASSUME ok
      PROVE  /\ pos < Len(file) /\ ~ IsValidEntry(pos) => pos < r
             /\ IsValidEntry(pos) => pos >= r
  <2>1. Boundary(r)
    BY <1>2, <1>6 DEF ReleasedUpTo
  <2>2. r < Len(file) => IsValidEntry(r)
    BY <1>1, <1>2, <1>4, <2>1, EntryAtBoundary
  <2>3. pos < r => ~ IsValidEntry(pos)
    BY <1>1, <1>2, <1>4, EntryAtBoundary
  <2> QED BY <1>4, <2>2, <2>3
<1>7. CASE SearchOn
  <2>1. ok /\ pos < Len(file) /\ ~ IsValidEntry(pos) /\ pos' = pos + 1 /\ pc' = "search" /\ ok' = ok
    BY <1>7 DEF SearchOn, SearchReads
  <2>2. pos' <= r /\ pos' \in Nat /\ start + scanned <= pos'
    BY <1>4, <1>6, <2>1
  <2>3. VLogTypeOK'
    BY <1>1, <1>3, <2>1, <2>2 DEF VLogTypeOK
  <2>4. ReleasedUpTo(r)'
    BY <1>2, <1>3, <2>1, <2>2 DEF ReleasedUpTo, HolesPassed, Boundary, Reads, IsValidEntry, IsMagic
  <2>5. GcGoesOn'
    BY <1>1, <1>3, <2>1, <2>2 DEF GcGoesOn
  <2> QED
    BY <1>2, <1>3, <1>5, <2>3, <2>4, <2>5 DEF VLogInv
<1>8. CASE SearchFound
  <2>1. ok /\ IsValidEntry(pos) /\ pc' = "scan" /\ ok' = ok /\ pos' = pos
    BY <1>8 DEF SearchFound, SearchReads
  <2>2. pos = r /\ Boundary(r)
    BY <1>2, <1>4, <1>6, <2>1 DEF ReleasedUpTo
  <2>3. VLogTypeOK'
    BY <1>1, <1>3, <2>1 DEF VLogTypeOK
  <2>4. ReleasedUpTo(r)'
    BY <1>2, <1>3, <1>4, <2>1, <2>2 DEF ReleasedUpTo, HolesPassed, Boundary, Reads, IsValidEntry, IsMagic
  <2>5. GcGoesOn'
    BY <1>1, <1>3, <2>1, <2>2 DEF GcGoesOn, Boundary
  <2> QED
    BY <1>2, <1>3, <1>5, <2>3, <2>4, <2>5 DEF VLogInv
<1>9. CASE SearchFails
  <2>1. pc' = "scan" /\ ok' = FALSE /\ pos' = pos
    BY <1>9 DEF SearchFails
  <2>2. VLogTypeOK'
    BY <1>1, <1>3, <2>1 DEF VLogTypeOK
  <2>3. ReleasedUpTo(r)'
    BY <1>2, <1>3, <2>1 DEF ReleasedUpTo, HolesPassed, Boundary, Reads, IsValidEntry, IsMagic
  <2>4. GcGoesOn'
    BY <1>1, <1>3, <2>1 DEF GcGoesOn
  <2> QED
    BY <1>2, <1>3, <1>5, <2>2, <2>3, <2>4 DEF VLogInv
<1> QED
  BY <1>7, <1>8, <1>9

(* While reads succeed, the scan stands on an entry that is left or at the *)
(* end of the file.                                                        *)
LEMMA ScanStands ==
  ASSUME VLogInv, pc = "scan", ok
  PROVE  \/ pos = Len(file)
         \/ \E i \in DOMAIN placed : placed[i].off = pos /\ Reads(placed[i])
<1>1. VLogTypeOK /\ GcGoesOn
  BY DEF VLogInv
<1>2. PICK r \in 0 .. Len(file) : ReleasedUpTo(r)
  BY DEF VLogInv
<1>3. pos \in Nat /\ pos >= r /\ Boundary(pos)
  BY <1>1, <1>2 DEF VLogTypeOK, ReleasedUpTo, GcGoesOn
<1> QED
  BY <1>1, <1>2, <1>3, EntryAtBoundary

LEMMA ScanInv == ASSUME VLogInv, ScanEntry \/ ScanNoEntry PROVE VLogInv'
<1>1. VLogTypeOK /\ Chained /\ GcGoesOn
  BY DEF VLogInv
<1>2. PICK r \in 0 .. Len(file) : ReleasedUpTo(r)
  BY DEF VLogInv
<1>3. /\ UNCHANGED fileVars /\ UNCHANGED <<file, data, placed, chunk, start, pc>>
      /\ pc = "scan"
  BY DEF ScanEntry, ScanNoEntry, fileVars
<1>4. /\ pos \in Nat /\ start \in Nat /\ scanned \in Nat /\ start + scanned <= pos
      /\ start <= r /\ (ok => pos >= r)
      /\ r \in Nat /\ Len(file) \in Nat
  <2>1. start + scanned <= pos /\ start <= r /\ (ok => pos >= r)
    BY <1>1, <1>2, <1>3 DEF GcGoesOn, ReleasedUpTo
  <2> QED BY <1>1, <2>1, Places DEF VLogTypeOK
<1>5. Chained'
  BY <1>1, <1>3, Untouched
<1>6. CASE ScanEntry
  <2> DEFINE e == file[pos + 1]
  <2>1. ok /\ IsValidEntry(pos) /\ ok' = ok /\ pos' = pos + Size(e) /\ scanned' = scanned + Size(e)
    BY <1>6 DEF ScanEntry, Advance
  <2>2. pos < Len(file) /\ e \in Entry
    BY <2>1 DEF IsValidEntry, IsMagic
  <2>3. Size(e) \in Nat
    BY <2>2, Images
  <2>4. PICK i \in DOMAIN placed : placed[i].off = pos /\ Reads(placed[i])
    BY <1>3, <1>4, <2>1, <2>2, ScanStands
  <2>5. placed[i].entry = e
    BY <2>4 DEF Reads
  <2>6. pos + Size(e) = EndOf(i)
    BY <1>1, <2>4, <2>5 DEF Chained
  <2> HIDE DEF e
  <2>7. Boundary(pos + Size(e))
    <3>1. DOMAIN placed = 1 .. Len(placed) /\ Len(placed) \in Nat
      BY <1>1, Places
    <3>2. CASE i = Len(placed)
      BY <2>6, <3>2 DEF Boundary, EndOf
    <3>3. CASE i # Len(placed)
      <4>1. i + 1 \in DOMAIN placed
        BY <3>1, <3>3
      <4> QED BY <2>6, <3>3, <4>1 DEF Boundary, EndOf
    <3> QED BY <3>2, <3>3
  <2>8. Boundary(pos)'
    BY <1>3, <2>1, <2>7 DEF Boundary
  <2>9. pos' \in Nat /\ scanned' \in Nat /\ pos' >= r /\ start + scanned' <= pos'
    BY <1>4, <2>1, <2>3
  <2>10. VLogTypeOK'
    BY <1>1, <1>3, <2>1, <2>9 DEF VLogTypeOK
  <2>11. ReleasedUpTo(r)'
    BY <1>2, <1>3, <2>1, <2>9 DEF ReleasedUpTo, HolesPassed, Boundary, Reads, IsValidEntry, IsMagic
  <2>12. GcGoesOn'
    BY <1>1, <1>3, <2>8, <2>9 DEF GcGoesOn
  <2> QED
    BY <1>2, <1>3, <1>5, <2>10, <2>11, <2>12 DEF VLogInv
<1>7. CASE ScanNoEntry
  <2>1. PICK n \in LengthOfNoEntry : pos' = pos + n /\ scanned' = scanned + n
    BY <1>7 DEF ScanNoEntry, Advance
  <2>2. pos' \in Nat /\ scanned' \in Nat /\ start + scanned' <= pos'
    BY <1>4, <2>1 DEF LengthOfNoEntry
  <2>3. ok' = FALSE
    <3>1. (~ ok \/ ~ IsValidEntry(pos)) /\ ok' = (ok /\ pos < Len(file))
      BY <1>7 DEF ScanNoEntry
    <3>2. ok /\ pos < Len(file) => IsValidEntry(pos)
      BY <1>3, <1>4, ScanStands DEF Reads
    <3> QED BY <3>1, <3>2
  <2>4. VLogTypeOK'
    BY <1>1, <1>3, <2>2, <2>3 DEF VLogTypeOK
  <2>5. ReleasedUpTo(r)'
    BY <1>2, <1>3, <2>3 DEF ReleasedUpTo, HolesPassed, Boundary, Reads, IsValidEntry, IsMagic
  <2>6. GcGoesOn'
    BY <1>1, <1>3, <2>2, <2>3 DEF GcGoesOn
  <2> QED
    BY <1>2, <1>3, <1>5, <2>4, <2>5, <2>6 DEF VLogInv
<1> QED
  BY <1>6, <1>7

(* What a release gives back: the units up to the end of the scan, and the *)
(* pages that lie wholly before it.                                        *)
LEMMA ReleasePunches ==
  ASSUME VLogInv, pc = "scan", ReleasePassed
  PROVE  /\ file' = [p \in DOMAIN file |-> IF start < p /\ p <= pos THEN Zero ELSE file[p]]
         /\ data' = {n \in data : n * PageSize < start \/ (n + 1) * PageSize > pos}
<1>1. VLogTypeOK /\ GcGoesOn
  BY DEF VLogInv
<1>2. pos \in Nat /\ start \in Nat /\ scanned \in Nat /\ start <= pos
  BY <1>1 DEF GcGoesOn, VLogTypeOK
<1>3. PICK m \in 0 .. MaxUnits : start = m * PageSize
  BY <1>1 DEF GcGoesOn
<1>4. m \in Nat
  BY FileAssumption
<1>5. start \div PageSize = m /\ start % PageSize = 0
  BY <1>3, <1>4, FileAssumption, PageStart
<1>6. DeAlloc(start, pos - start)
  BY DEF ReleasePassed
<1> DEFINE len == pos - start
<1>7. Punch(m * PageSize, m * PageSize + len + (start % PageSize))
  BY <1>5, <1>6 DEF DeAlloc
<1>8. m * PageSize + len + (start % PageSize) = pos
  BY <1>2, <1>3, <1>5
<1>9. Punch(start, pos)
  BY <1>3, <1>7, <1>8
<1> QED
  BY <1>9 DEF Punch

(* After a release the units before the end of the scan are free as well.  *)
FreeAfter(r) ==
  IF pos <= r THEN r ELSE IF pos <= Len(file) THEN pos ELSE Len(file)

LEMMA ReleaseFrees ==
  ASSUME VLogInv, pc = "scan", ReleasePassed, pc' = "ready", UNCHANGED <<placed, ok>>,
         NEW r \in 0 .. Len(file), ReleasedUpTo(r), NEW s, s = FreeAfter(r)
  PROVE  /\ file' \in Seq(Unit) /\ Len(file') = Len(file)
         /\ s \in 0 .. Len(file')
         /\ ReleasedUpTo(s)'
         /\ data' \subseteq data
<1> DEFINE L == Len(file)
<1>1. VLogTypeOK /\ GcGoesOn
  BY DEF VLogInv
<1>2. /\ pos \in Nat /\ start \in Nat /\ start <= r /\ r \in Nat /\ r <= L /\ L \in Nat
      /\ file \in Seq(Unit) /\ DOMAIN file = 1 .. L
  <2>1. start <= r
    BY DEF ReleasedUpTo
  <2> QED BY <1>1, <2>1, Places DEF VLogTypeOK
<1>3. /\ file' = [p \in DOMAIN file |-> IF start < p /\ p <= pos THEN Zero ELSE file[p]]
      /\ data' = {n \in data : n * PageSize < start \/ (n + 1) * PageSize > pos}
  BY ReleasePunches
<1>4. ok => pos <= L /\ pos >= r /\ Boundary(pos)
  <2>1. ok => Boundary(pos) /\ pos >= r
    BY <1>1 DEF GcGoesOn, ReleasedUpTo
  <2>2. ok => pos <= L
    <3> SUFFICES ASSUME ok PROVE pos <= L
      OBVIOUS
    <3>1. pos = L \/ \E i \in DOMAIN placed : placed[i].off = pos
      BY ScanStands
    <3>2. \A i \in DOMAIN placed : placed[i].off \in Nat /\ placed[i].off < L
      BY <1>1, Places
    <3>3. L \in Nat
      BY <1>2
    <3> HIDE DEF L
    <3>4. CASE pos = L
      BY <3>3, <3>4
    <3>5. ASSUME NEW i \in DOMAIN placed, placed[i].off = pos
          PROVE  pos <= L
      BY <3>2, <3>3, <3>5
    <3> QED BY <3>1, <3>4, <3>5
  <2> QED BY <2>1, <2>2
<1>5. \A p \in 1 .. L : file'[p] = IF start < p /\ p <= pos THEN Zero ELSE file[p]
  BY <1>2, <1>3
<1>6. file' \in Seq(Unit) /\ Len(file') = L
  <2>1. \A p \in 1 .. L : file[p] \in Unit /\ Zero \in Unit
    BY <1>2 DEF Unit
  <2>2. file' \in [1 .. L -> Unit]
    BY <1>2, <1>3, <2>1
  <2> QED BY <1>2, <2>2
<1>7. /\ s \in Nat /\ s <= L /\ r <= s
      /\ s = L \/ pos <= s
      /\ ok => s = pos
      /\ \A p \in 1 .. s : p <= r \/ p <= pos
  <2>1. s = IF pos <= r THEN r ELSE IF pos <= L THEN pos ELSE L
    BY DEF FreeAfter
  <2> HIDE DEF L
  <2>2. s \in Nat /\ s <= L /\ r <= s /\ (s = L \/ pos <= s)
    BY <1>2, <2>1
  <2>3. ok => s = pos
    BY <1>2, <1>4, <2>1
  <2>4. \A p \in 1 .. s : p <= r \/ p <= pos
    BY <1>2, <2>1
  <2> QED BY <2>2, <2>3, <2>4
<1> HIDE DEF L
<1>8. \A p \in 1 .. s : file'[p] = Zero
  <2> TAKE p \in 1 .. s
  <2>1. p \in 1 .. L
    BY <1>2, <1>7
  <2>2. CASE p <= r
    <3>1. file[p] = Zero
      BY <1>2, <2>2 DEF ReleasedUpTo
    <3> QED BY <1>5, <2>1, <3>1
  <2>3. CASE ~ p <= r
    BY <1>2, <1>5, <1>7, <2>1, <2>3
  <2> QED BY <2>2, <2>3
<1>9. ASSUME NEW i \in DOMAIN placed, placed[i].off >= s
      PROVE  ReadsIn(file', placed[i])
  <2> DEFINE p == placed[i]
             a == p.off
             e == p.entry
  <2>1. /\ p \in Placed /\ a \in Nat /\ a < L /\ e \in Entry /\ Size(e) \in Nat
    BY <1>1, Places DEF L
  <2>2. Reads(p)
    BY <1>2, <1>7, <1>9, <2>1 DEF ReleasedUpTo
  <2>3. a >= pos
    BY <1>2, <1>7, <1>9, <2>1
  <2> HIDE DEF p
  <2>4. Holds(file, a, e)
    BY <1>2, <2>1, <2>2, ReadsUnits, ReadsArgument
  <2> HIDE DEF a, e
  <2>5. a + Size(e) <= L
    BY <2>4 DEF Holds, L
  <2>6. ASSUME NEW j \in 1 .. Size(e)
        PROVE  file'[a + j] = Image(e)[j]
    <3>1. a + j \in 1 .. L /\ ~ a + j <= pos
      BY <1>2, <2>1, <2>3, <2>5
    <3>2. file'[a + j] = file[a + j]
      BY <1>5, <3>1
    <3> QED BY <2>4, <3>2 DEF Holds
  <2>7. Holds(file', a, e)
    BY <1>6, <2>5, <2>6 DEF Holds
  <2>8. ReadsIn(file', p)
    BY <1>6, <2>1, <2>7, ReadsUnits DEF a, e
  <2> QED BY <2>8 DEF p
<1>10. ASSUME NEW i \in DOMAIN placed', placed'[i].off >= s
       PROVE  Reads(placed[i])'
  BY <1>9, <1>10 DEF ReadsIn, Reads, IsValidEntry, IsMagic
<1>11. ASSUME ok'
       PROVE  s = Len(file') \/ \E i \in DOMAIN placed' : placed'[i].off = s
  BY <1>4, <1>6, <1>7, <1>11 DEF Boundary, L
<1>12. \A n \in data' : n * PageSize < Len(file')
  BY <1>3, <1>6 DEF ReleasedUpTo, HolesPassed, L
<1>13. ASSUME NEW n \in 0 .. Len(file'), n \notin data', n * PageSize < Len(file')
       PROVE  (n + 1) * PageSize <= s \/ (s = Len(file') /\ ~ ok')
  <2>1. n \in Nat /\ n \in 0 .. L /\ (n + 1) * PageSize \in Nat /\ n * PageSize \in Nat
    <3>1. n + 1 \in Nat /\ n \in Nat /\ n \in 0 .. L
      BY <1>2, <1>6
    <3> QED BY <3>1, FileAssumption, PagesApart
  <2>2. CASE n \notin data
    <3>1. (n + 1) * PageSize <= r \/ (r = L /\ ~ok)
      BY <1>6, <1>13, <2>1, <2>2 DEF ReleasedUpTo, HolesPassed, L
    <3> QED BY <1>2, <1>6, <1>7, <2>1, <3>1
  <2>3. CASE n \in data
    <3>1. (n + 1) * PageSize <= pos
      BY <1>2, <1>3, <1>13, <2>1, <2>3
    <3> QED BY <1>2, <1>4, <1>6, <1>7, <2>1, <3>1
  <2> QED BY <2>2, <2>3
<1>14. s \in 0 .. Len(file')
  BY <1>2, <1>6, <1>7
<1>15. data' \subseteq data
  BY <1>3
<1> QED
  BY <1>6, <1>8, <1>10, <1>11, <1>12, <1>13, <1>14, <1>15
     DEF ReleasedUpTo, HolesPassed, Boundary, L

LEMMA GcEndInv == ASSUME VLogInv, GcEnd PROVE VLogInv'
<1>1. VLogTypeOK /\ Chained /\ GcGoesOn
  BY DEF VLogInv
<1>2. PICK r \in 0 .. Len(file) : ReleasedUpTo(r)
  BY DEF VLogInv
<1>3. /\ pc = "scan" /\ pc' = "ready" /\ UNCHANGED <<placed, ok>>
      /\ chunk' = 0 /\ start' = 0 /\ pos' = 0 /\ scanned' = 0
      /\ ReleasePassed \/ UNCHANGED <<file, data>>
  BY DEF GcEnd
<1>4. PICK s : /\ file' \in Seq(Unit) /\ Len(file') = Len(file)
               /\ s \in 0 .. Len(file') /\ ReleasedUpTo(s)' /\ data' \subseteq data
  <2>1. CASE ReleasePassed
    <3>1. PICK t : t = FreeAfter(r)
      OBVIOUS
    <3> QED BY <1>2, <1>3, <2>1, <3>1, ReleaseFrees
  <2>2. CASE UNCHANGED <<file, data>>
    <3>1. file' \in Seq(Unit)
      BY <1>1, <2>2 DEF VLogTypeOK
    <3>2. ReleasedUpTo(r)'
      BY <1>2, <1>3, <2>2 DEF ReleasedUpTo, HolesPassed, Boundary, Reads, IsValidEntry, IsMagic
    <3> QED BY <1>2, <2>2, <3>1, <3>2
  <2> QED BY <1>3, <2>1, <2>2
<1>5. VLogTypeOK'
  <2>1. Len(file') <= MaxUnits /\ data' \subseteq 0 .. Len(file')
    BY <1>1, <1>4 DEF VLogTypeOK
  <2>2. placed' \in Seq(Placed) /\ \A i \in DOMAIN placed' : placed'[i].off < Len(file')
    BY <1>1, <1>3, <1>4 DEF VLogTypeOK
  <2>3. ok' \in BOOLEAN
    BY <1>1, <1>3 DEF VLogTypeOK
  <2> QED BY <1>3, <1>4, <2>1, <2>2, <2>3, FileAssumption DEF VLogTypeOK
<1>6. Chained'
  <2>1. Len(placed') = Len(placed) /\ DOMAIN placed' = DOMAIN placed
    BY <1>3
  <2>2. placed' = <<>> => file' = <<>>
    BY <1>1, <1>3, <1>4 DEF Chained
  <2> QED BY <1>1, <1>3, <1>4, <2>1, <2>2 DEF Chained, EndOf
<1>7. GcGoesOn'
  BY <1>3 DEF GcGoesOn
<1> QED
  BY <1>4, <1>5, <1>6, <1>7 DEF VLogInv

LEMMA NextInv == VLogInv /\ [VLogNext]_vars => VLogInv'
<1> SUFFICES ASSUME VLogInv, [VLogNext]_vars PROVE VLogInv'
  OBVIOUS
<1>1. ASSUME NEW n \in 1 .. MaxBatch, NEW entries \in [1 .. n -> Entry], AppendEntries(entries)
      PROVE  VLogInv'
  <2>1. n \in Nat \ {0}
    BY FileAssumption
  <2> QED BY <1>1, <2>1, AppendInv
<1>2. CASE Reset
  BY <1>2, ResetInv
<1>3. ASSUME NEW n \in 0 .. MaxChunk, GcStart(n)
      PROVE  VLogInv'
  BY <1>3, GcStartInv
<1>4. CASE GcStep
  BY <1>4, SearchInv, ScanInv, GcEndInv DEF GcStep
<1>5. CASE UNCHANGED vars
  <2>1. UNCHANGED <<file, data, placed, ok, pc, chunk, start, pos, scanned>>
    BY <1>5 DEF vars, fileVars, gcVars
  <2> QED
    BY <2>1 DEF VLogInv, VLogTypeOK, Chained, EndOf, ReleasedUpTo, HolesPassed, Boundary, Reads,
                IsValidEntry, IsMagic, GcGoesOn
<1> QED
  BY <1>1, <1>2, <1>3, <1>4, <1>5 DEF VLogNext

(* The inductive invariant of the log's file: entries end to end, zeros up *)
(* to what is left of them, and a gc on its way between them.              *)
THEOREM LogFileInvariant == VLogSpec => []VLogInv
<1>1. VLogInit => VLogInv
  BY InitInv
<1>2. VLogInv /\ [VLogNext]_vars => VLogInv'
  BY NextInv
<1> QED
  BY <1>1, <1>2, PTL DEF VLogSpec

(* Type correctness: every offset given to a table lies in the file.       *)
THEOREM LogFileTypeCorrect == VLogSpec => []VLogTypeOK
<1>1. VLogInv => VLogTypeOK
  BY DEF VLogInv
<1> QED
  BY <1>1, LogFileInvariant, PTL

(* As long as reads succeed, gc is never misled by a value that looks like *)
(* an entry or by what a release has left: for every page size and all     *)
(* values, it stands on an entry or at the end of the file.                *)
THEOREM ScansStayAligned == VLogSpec => []ScanAligned
<1>1. VLogInv => ScanAligned
  BY ScanStands DEF ScanAligned
<1> QED
  BY <1>1, LogFileInvariant, PTL

(* A gc that is asked for whole pages and whose release succeeds leaves    *)
(* none of that many behind.                                               *)
THEOREM GcGivesBackPages == VLogSpec => GcRecycles
<1> DEFINE A == GcEnd /\ ReleasePassed /\ chunk % PageSize = 0 =>
                  \A n \in data' : n * PageSize >= start + chunk
<1>1. VLogInv /\ [VLogNext]_vars => [A]_vars
  <2> SUFFICES ASSUME VLogInv, GcEnd, ReleasePassed, chunk % PageSize = 0,
                      NEW n \in data'
               PROVE  n * PageSize >= start + chunk
    OBVIOUS
  <2>1. VLogTypeOK /\ GcGoesOn /\ pc = "scan" /\ ~ Scans
    BY DEF VLogInv, GcEnd
  <2>2. n \in data /\ (n * PageSize < start \/ (n + 1) * PageSize > pos)
    BY <2>1, ReleasePunches
  <2>3. /\ chunk \in Nat /\ start \in Nat /\ pos \in Nat /\ scanned \in Nat
        /\ start <= n * PageSize /\ start + scanned <= pos /\ chunk <= scanned
        /\ n \in Nat
    <3>1. chunk \in Nat /\ start \in Nat /\ pos \in Nat /\ scanned \in Nat /\ n \in Nat
      <4>1. chunk \in 0 .. MaxChunk /\ data \subseteq 0 .. Len(file)
        BY <2>1 DEF VLogTypeOK
      <4> QED BY <2>1, <2>2, <4>1 DEF VLogTypeOK
    <3>2. start <= n * PageSize /\ start + scanned <= pos
      BY <2>1, <2>2 DEF GcGoesOn
    <3> QED BY <2>1, <3>1, <3>2 DEF Scans
  <2>4. PICK m \in Nat : start = m * PageSize
    BY <2>1, FileAssumption DEF GcGoesOn
  <2> DEFINE c == chunk \div PageSize
             x == m + c
  <2>5. c \in Nat /\ chunk = c * PageSize
    <3>1. c \in Nat /\ chunk = c * PageSize + (chunk % PageSize)
      BY <2>3, FileAssumption, PageOf
    <3> HIDE DEF c
    <3>2. c * PageSize \in Nat
      BY <3>1, FileAssumption, PagesApart
    <3> QED BY <3>1, <3>2
  <2> HIDE DEF c
  <2>6. x \in Nat /\ x * PageSize = start + chunk
    BY <2>4, <2>5, FileAssumption
  <2> HIDE DEF x
  <2>7. /\ n * PageSize \in Nat /\ (n + 1) * PageSize = n * PageSize + PageSize
        /\ n < x => n * PageSize + PageSize <= x * PageSize
        /\ x <= n => x * PageSize <= n * PageSize
        /\ PageSize \in Nat
    BY <2>3, <2>6, FileAssumption, PagesApart
  <2>8. ~ n < x
    BY <2>2, <2>3, <2>6, <2>7
  <2>9. x * PageSize <= n * PageSize
    BY <2>3, <2>6, <2>7, <2>8
  <2> QED BY <2>3, <2>6, <2>7, <2>9
<1>2. VLogSpec => [][A]_vars
  BY <1>1, LogFileInvariant, PTL DEF VLogSpec
<1> QED
  BY <1>2 DEF GcRecycles

----------------------------------------------------------------------------
(* The file implements the queue of ValueLog.                              *)

(* The entries placed before an offset.                                    *)
Before(x) == {i \in DOMAIN placed : placed[i].off < x}

LEMMA OffsetsRise ==
  ASSUME VLogTypeOK, Chained, NEW i \in DOMAIN placed, NEW j \in DOMAIN placed, i < j
  PROVE  placed[i].off < placed[j].off
<1> DEFINE N == Len(placed)
           off(x) == placed[x].off
           Bad == {x \in 1 .. N : i < x /\ ~ off(i) < off(x)}
<1>1. N \in Nat /\ DOMAIN placed = 1 .. N
  BY Places
<1>2. \A x \in 1 .. N : off(x) \in Nat /\ Size(placed[x].entry) \in Nat /\ Size(placed[x].entry) > 0
  BY <1>1, Places
<1>3. \A x \in 1 .. N : x # N => off(x) + Size(placed[x].entry) = off(x + 1)
  BY <1>1 DEF Chained, EndOf
<1> HIDE DEF N, off
<1>4. \A x \in 1 .. N : x # N => off(x) < off(x + 1)
  <2> TAKE x \in 1 .. N
  <2> HAVE x # N
  <2>1. x + 1 \in 1 .. N
    BY <1>1
  <2> QED BY <1>2, <1>3, <2>1
<1>5. Bad = {}
  <2> SUFFICES ASSUME Bad # {} PROVE FALSE
    OBVIOUS
  <2>1. Bad \in SUBSET Nat
    OBVIOUS
  <2>2. PICK m \in Bad : \A x \in Bad : m <= x
    BY <2>1, LeastNumber
  <2>3. m \in 1 .. N /\ i < m /\ ~ off(i) < off(m) /\ i \in 1 .. N /\ i \in Nat /\ m \in Nat
    BY <1>1, <2>2
  <2>4. m - 1 \in 1 .. N /\ m - 1 # N /\ (m - 1) + 1 = m /\ m - 1 \notin Bad
    BY <1>1, <2>2, <2>3
  <2>5. off(m - 1) < off(m)
    BY <1>4, <2>4
  <2>6. off(i) = off(m - 1) \/ off(i) < off(m - 1)
    BY <2>3, <2>4
  <2>7. off(i) \in Nat /\ off(m - 1) \in Nat /\ off(m) \in Nat
    BY <1>2, <2>3, <2>4
  <2> QED BY <2>3, <2>5, <2>6, <2>7
<1>6. j \in 1 .. N /\ j \notin Bad
  BY <1>1, <1>5
<1>7. off(i) < off(j)
  BY <1>6
<1> QED
  BY <1>7 DEF off

(* Which are the first ones.                                               *)
LEMMA BeforeIsFirst ==
  ASSUME VLogTypeOK, Chained, NEW x \in Nat
  PROVE  /\ Cardinality(Before(x)) \in 0 .. Len(placed)
         /\ Before(x) = 1 .. Cardinality(Before(x))
<1>1. Len(placed) \in Nat /\ DOMAIN placed = 1 .. Len(placed)
      /\ \A i \in DOMAIN placed : placed[i].off \in Nat
  BY Places
<1>2. Before(x) \in SUBSET (1 .. Len(placed))
  BY <1>1 DEF Before
<1>3. ASSUME NEW i \in Before(x), NEW j \in 1 .. Len(placed), j < i
      PROVE  j \in Before(x)
  <2>1. i \in DOMAIN placed /\ j \in DOMAIN placed /\ placed[i].off < x
    BY <1>1 DEF Before
  <2>2. placed[j].off < placed[i].off
    BY <1>3, <2>1, OffsetsRise
  <2>3. placed[j].off \in Nat /\ placed[i].off \in Nat
    BY <1>1, <2>1
  <2>4. placed[j].off < x
    BY <2>1, <2>2, <2>3
  <2> QED BY <2>1, <2>4 DEF Before
<1> HIDE DEF Before
<1> QED
  BY <1>1, <1>2, <1>3, InitialSegment

LEMMA BeforeCounts ==
  ASSUME VLogTypeOK, Chained
  PROVE  /\ \A x \in Nat : x >= Len(file) => Cardinality(Before(x)) = Len(placed)
         /\ \A i \in DOMAIN placed : Cardinality(Before(placed[i].off)) = i - 1
         /\ \A x \in Nat : \A y \in Nat :
              x <= y => Cardinality(Before(x)) <= Cardinality(Before(y))
<1> DEFINE N == Len(placed)
           c(x) == Cardinality(Before(x))
<1>1. N \in Nat /\ DOMAIN placed = 1 .. N /\ Len(file) \in Nat
      /\ \A i \in 1 .. N : placed[i].off \in Nat /\ placed[i].off < Len(file)
  BY Places
<1>2. \A x \in Nat : c(x) \in 0 .. N /\ Before(x) = 1 .. c(x)
  BY BeforeIsFirst
<1>3. \A x : \A i : i \in Before(x) <=> i \in 1 .. N /\ placed[i].off < x
  BY <1>1 DEF Before
<1>4. \A i \in 1 .. N : \A j \in 1 .. N : i < j => placed[i].off < placed[j].off
  BY <1>1, OffsetsRise
<1> HIDE DEF N, c
<1>5. ASSUME NEW x \in Nat, x >= Len(file)
      PROVE  c(x) = N
  <2>1. c(x) \in 0 .. N /\ Before(x) = 1 .. c(x)
    BY <1>2
  <2>2. ASSUME NEW i \in 1 .. N
        PROVE  i \in 1 .. c(x)
    <3>1. placed[i].off \in Nat /\ placed[i].off < Len(file) /\ Len(file) \in Nat
      BY <1>1
    <3>2. placed[i].off < x
      BY <1>5, <3>1
    <3> QED BY <1>3, <2>1, <3>2
  <2>3. N # 0 => N \in 1 .. N /\ N \in 1 .. c(x)
    <3>1. N # 0 => N \in 1 .. N
      BY <1>1
    <3> QED BY <2>2, <3>1
  <2>4. N \in Nat /\ c(x) \in 0 .. N
    BY <1>1, <2>1
  <2> QED BY <2>3, <2>4
<1>6. ASSUME NEW i \in 1 .. N
      PROVE  c(placed[i].off) = i - 1
  <2> DEFINE x == placed[i].off
  <2>1. x \in Nat
    BY <1>1
  <2>2. ~ x < x
    BY <2>1
  <2>3. i \notin Before(x)
    BY <1>3, <2>2
  <2>4. i # 1 => i - 1 \in Before(x)
    <3>1. i # 1 => i - 1 \in 1 .. N /\ i - 1 < i
      BY <1>1
    <3> QED BY <1>3, <1>4, <3>1
  <2> HIDE DEF x
  <2>5. c(x) \in 0 .. N /\ Before(x) = 1 .. c(x)
    BY <1>2, <2>1
  <2>6. c(x) = i - 1
    BY <1>1, <2>3, <2>4, <2>5
  <2> QED BY <2>6 DEF x
<1>7. ASSUME NEW x \in Nat, NEW y \in Nat, x <= y
      PROVE  c(x) <= c(y)
  <2>1. \A i \in Before(x) : i \in Before(y)
    <3> TAKE i \in Before(x)
    <3>1. i \in 1 .. N /\ placed[i].off < x /\ placed[i].off \in Nat
      BY <1>1, <1>3
    <3>2. placed[i].off < y
      BY <1>7, <3>1
    <3> QED BY <1>3, <3>1, <3>2
  <2>2. c(x) \in 0 .. N /\ c(y) \in 0 .. N /\ \A i \in 1 .. c(x) : i \in 1 .. c(y)
    BY <1>2, <2>1
  <2>3. c(x) # 0 => c(x) \in 1 .. c(y)
    BY <1>1, <2>2
  <2> QED BY <1>1, <2>2, <2>3
<1> QED
  BY <1>1, <1>5, <1>6, <1>7 DEF c, N

(* What ValueLog's variables stand for here.                               *)
Log == [i \in DOMAIN placed |-> placed[i].entry]

Hole == Cardinality({i \in DOMAIN placed : ~ Reads(placed[i])})

GcPos == IF pc = "scan" THEN Cardinality(Before(pos)) ELSE -1

(* What can be read is what is not before the released part.               *)
LEMMA LeftToRead ==
  ASSUME VLogTypeOK, NEW r \in 0 .. Len(file), ReleasedUpTo(r)
  PROVE  {i \in DOMAIN placed : ~ Reads(placed[i])} = Before(r)
<1>1. ASSUME NEW i \in DOMAIN placed
      PROVE  ~ Reads(placed[i]) <=> placed[i].off < r
  <2>1. placed[i].off \in Nat /\ r \in Nat
    BY Places
  <2>2. placed[i].off < r => ~ IsValidEntry(placed[i].off)
    BY <2>1, EntryAtBoundary
  <2>3. placed[i].off >= r => Reads(placed[i])
    BY DEF ReleasedUpTo
  <2> QED BY <2>1, <2>2, <2>3 DEF Reads
<1> QED
  BY <1>1 DEF Before

(* The same after a release.                                               *)
LEMMA LeftToReadAfter ==
  ASSUME VLogTypeOK, placed' = placed, NEW s \in Nat,
         ReleasedUpTo(s)'
  PROVE  {i \in DOMAIN placed' : ~ Reads(placed[i])'} = Before(s)
<1>1. ASSUME NEW i \in DOMAIN placed
      PROVE  ~ Reads(placed[i])' <=> placed[i].off < s
  <2>1. placed[i].off \in Nat
    BY Places
  <2>2. ASSUME placed[i].off < s PROVE ~ Reads(placed[i])'
    <3> DEFINE a == placed[i].off
    <3>1. a + 1 \in 1 .. s
      BY <2>1, <2>2
    <3>2. file'[a + 1] = Zero
      BY <3>1 DEF ReleasedUpTo
    <3> QED BY <3>2, EntryAssumption DEF Reads, IsValidEntry, IsMagic
  <2>3. placed[i].off >= s => Reads(placed[i])'
    BY DEF ReleasedUpTo
  <2> QED BY <2>1, <2>2, <2>3
<1> QED
  BY <1>1 DEF Before

LEMMA QueueInit == VLogInit => Queue!LogInit
<1> SUFFICES ASSUME VLogInit PROVE Queue!LogInit
  OBVIOUS
<1>1. placed = <<>> /\ ok = TRUE /\ pc = "ready"
  BY DEF VLogInit
<1>2. DOMAIN placed = {}
  BY <1>1
<1>3. [i \in DOMAIN placed |-> placed[i].entry] = <<>>
  BY <1>1
<1>4. Cardinality({i \in DOMAIN placed : ~ Reads(placed[i])}) = 0
  BY <1>2, FS_EmptySet
<1> QED
  BY <1>1, <1>3, <1>4 DEF Queue!LogInit

LEMMA QueueShape ==
  ASSUME VLogTypeOK, Chained, NEW r \in 0 .. Len(file), ReleasedUpTo(r)
  PROVE  /\ Len(placed) \in Nat /\ Len(Log) = Len(placed)
         /\ Hole = Cardinality(Before(r)) /\ Hole \in 0 .. Len(placed)
         /\ r \in Nat /\ pos \in Nat /\ Len(file) \in Nat
         /\ pc = "scan" => GcPos \in 0 .. Len(placed)
<1>1. /\ Len(placed) \in Nat /\ DOMAIN placed = 1 .. Len(placed) /\ Len(file) \in Nat /\ r \in Nat
  BY Places
<1>2. Len(Log) = Len(placed)
  BY <1>1 DEF Log
<1>3. Hole = Cardinality(Before(r))
  BY LeftToRead DEF Hole
<1>4. pos \in Nat
  BY DEF VLogTypeOK
<1>5. \A x \in Nat : Cardinality(Before(x)) \in 0 .. Len(placed)
  BY BeforeIsFirst
<1> QED
  BY <1>1, <1>2, <1>3, <1>4, <1>5 DEF GcPos

(* Steps that leave the file alone leave log and hole alone.               *)
LEMMA QueueUntouched ==
  ASSUME UNCHANGED fileVars
  PROVE  Log' = Log /\ Hole' = Hole /\ \A x : Before(x) = {i \in DOMAIN placed' : placed'[i].off < x}
<1>1. file' = file /\ placed' = placed
  BY DEF fileVars
<1> QED
  BY <1>1 DEF Log, Hole, Before, Reads, IsValidEntry, IsMagic

LEMMA GcPosNext ==
  ASSUME placed' = placed, pc' = "scan"
  PROVE  GcPos' = Cardinality(Before(pos'))
BY DEF GcPos, Before

LEMMA QueueAppend ==
  ASSUME VLogInv, NEW n \in Nat \ {0}, NEW entries \in [1 .. n -> Entry],
         AppendEntries(entries)
  PROVE  Log' = Log \o entries /\ Hole' = Hole /\ GcPos' = GcPos
<1> DEFINE N == Len(placed)
           at(i) == OffsetOf(entries, i)
<1>1. VLogTypeOK /\ Chained /\ GcGoesOn
  BY DEF VLogInv
<1>2. PICK r \in 0 .. Len(file) : ReleasedUpTo(r)
  BY DEF VLogInv
<1>3. Appends(entries, n)
  BY <1>1, AppendAppends
<1>4. /\ N \in Nat /\ DOMAIN placed = 1 .. N /\ Len(file) \in Nat
      /\ \A i \in 1 .. N : placed[i].entry \in Entry
  BY <1>1, Places
<1>5. /\ placed' \in Seq(Placed) /\ Len(placed') = N + n /\ DOMAIN placed' = 1 .. N + n
      /\ \A i \in 1 .. N : placed'[i] = placed[i]
  BY <1>3 DEF Appends
<1>6. \A i \in 1 .. n : /\ placed'[N + i] = [off |-> at(i), entry |-> entries[i]]
                        /\ at(i) \in Nat /\ Len(file) <= at(i)
  BY <1>3 DEF Appends
<1>7. \A i \in 1 .. N + n : i \notin 1 .. N => i - N \in 1 .. n /\ N + (i - N) = i
  BY <1>4
<1>8. /\ \A i \in 1 .. N : ReadsIn(file', placed'[i]) <=> Reads(placed[i])
      /\ \A i \in 1 .. n : ReadsIn(file', placed'[N + i])
  BY <1>1, <1>3, AppendReads
<1>9. \A i : Reads(placed[i])' = ReadsIn(file', placed'[i])
  BY DEF ReadsIn, Reads, IsValidEntry, IsMagic
<1>10. ok /\ pc' = pc /\ pos' = pos
  BY DEF AppendEntries, gcVars
<1> HIDE DEF N, at
<1>11. {i \in DOMAIN placed' : ~ Reads(placed[i])'} = {i \in DOMAIN placed : ~ Reads(placed[i])}
  <2>1. ASSUME NEW i \in 1 .. N + n
        PROVE  ~ Reads(placed[i])' <=> i \in 1 .. N /\ ~ Reads(placed[i])
    <3>1. CASE i \in 1 .. N
      BY <1>8, <1>9, <3>1
    <3>2. CASE i \notin 1 .. N
      <4>1. ReadsIn(file', placed'[N + (i - N)]) /\ N + (i - N) = i
        BY <1>7, <1>8, <3>2
      <4> QED BY <1>9, <3>2, <4>1
    <3> QED BY <3>1, <3>2
  <2>2. 1 .. N \subseteq 1 .. N + n
    BY <1>4
  <2> QED BY <1>4, <1>5, <2>1, <2>2
<1>12. Hole' = Hole
  BY <1>11 DEF Hole
<1>13. ASSUME NEW x \in Nat, x <= Len(file)
       PROVE  {i \in DOMAIN placed' : placed'[i].off < x} = Before(x)
  <2>1. ASSUME NEW i \in 1 .. N + n
        PROVE  placed'[i].off < x <=> i \in 1 .. N /\ placed[i].off < x
    <3>1. CASE i \in 1 .. N
      BY <1>5, <3>1
    <3>2. CASE i \notin 1 .. N
      <4> DEFINE j == i - N
      <4>1. j \in 1 .. n /\ N + j = i
        BY <1>7, <3>2
      <4> HIDE DEF j
      <4>2. placed'[i] = [off |-> at(j), entry |-> entries[j]] /\ at(j) \in Nat /\ Len(file) <= at(j)
        BY <1>6, <4>1
      <4>3. placed'[i].off = at(j)
        BY <4>2
      <4> QED BY <1>4, <1>13, <3>2, <4>2, <4>3
    <3> QED BY <3>1, <3>2
  <2>2. 1 .. N \subseteq 1 .. N + n
    BY <1>4
  <2> QED BY <1>4, <1>5, <2>1, <2>2 DEF Before
<1>14. GcPos' = GcPos
  <2>1. pc = "scan" => pos \in Nat /\ pos <= Len(file)
    <3> SUFFICES ASSUME pc = "scan" PROVE pos \in Nat /\ pos <= Len(file)
      OBVIOUS
    <3>1. pos = Len(file) \/ \E i \in DOMAIN placed : placed[i].off = pos
      BY <1>10, ScanStands
    <3>2. \A i \in DOMAIN placed : placed[i].off \in Nat /\ placed[i].off < Len(file)
      BY <1>1, Places
    <3>3. pos \in Nat
      BY <1>1 DEF VLogTypeOK
    <3>4. CASE pos = Len(file)
      BY <1>4, <3>4
    <3>5. ASSUME NEW i \in DOMAIN placed, placed[i].off = pos
          PROVE  pos <= Len(file)
      BY <1>4, <3>2, <3>5
    <3> QED BY <3>1, <3>3, <3>4, <3>5
  <2>2. pc = "scan" => {i \in DOMAIN placed' : placed'[i].off < pos'} = Before(pos)
    BY <1>10, <1>13, <2>1
  <2> QED BY <1>10, <2>2 DEF GcPos, Before
<1>15. Log' = Log \o entries
  <2>1. Log \in Seq(Entry) /\ Len(Log) = N /\ entries \in Seq(Entry) /\ Len(entries) = n
    <3>1. Log \in [1 .. N -> Entry]
      BY <1>4 DEF Log
    <3>2. N \in Nat
      BY <1>4
    <3> HIDE DEF N
    <3> QED BY <3>1, <3>2
  <2>2. /\ Log \o entries \in Seq(Entry) /\ Len(Log \o entries) = N + n
        /\ \A i \in 1 .. N : (Log \o entries)[i] = Log[i]
        /\ \A i \in 1 .. n : (Log \o entries)[N + i] = entries[i]
    <3>1. Log \o entries \in Seq(Entry)
      BY <2>1, ConcatParts
    <3>2. Len(Log \o entries) = Len(Log) + Len(entries)
      BY <2>1, ConcatParts
    <3>3. \A i \in 1 .. Len(Log) : (Log \o entries)[i] = Log[i]
      BY <2>1, ConcatParts
    <3>4. \A i \in 1 .. Len(entries) : (Log \o entries)[Len(Log) + i] = entries[i]
      BY <2>1, ConcatParts
    <3> QED BY <2>1, <3>1, <3>2, <3>3, <3>4
  <2>3. Log' = [i \in 1 .. N + n |-> placed'[i].entry]
    BY <1>5 DEF Log
  <2>4. ASSUME NEW i \in 1 .. N + n
        PROVE  placed'[i].entry = (Log \o entries)[i]
    <3>1. CASE i \in 1 .. N
      <4>1. placed'[i].entry = Log[i]
        BY <1>4, <1>5, <3>1 DEF Log
      <4> QED BY <2>2, <3>1, <4>1
    <3>2. CASE i \notin 1 .. N
      <4> DEFINE j == i - N
      <4>1. j \in 1 .. n /\ N + j = i
        BY <1>7, <3>2
      <4> HIDE DEF j
      <4>2. placed'[i] = [off |-> at(j), entry |-> entries[j]]
        BY <1>6, <4>1
      <4>3. placed'[i].entry = entries[j]
        BY <4>2
      <4> QED BY <2>2, <4>1, <4>3
    <3> QED BY <3>1, <3>2
  <2> DEFINE w == Log \o entries
  <2>5. w \in Seq(Entry) /\ Len(w) = N + n /\ \A i \in 1 .. N + n : placed'[i].entry = w[i]
    BY <2>2, <2>4
  <2> HIDE DEF w
  <2>6. w = [i \in 1 .. N + n |-> w[i]]
    BY <1>4, <2>5
  <2>7. [i \in 1 .. N + n |-> w[i]] = [i \in 1 .. N + n |-> placed'[i].entry]
    BY <2>5
  <2> QED BY <2>3, <2>6, <2>7 DEF w
<1> QED
  BY <1>12, <1>14, <1>15

LEMMA QueueStart ==
  ASSUME VLogInv, SearchFound \/ SearchFails
  PROVE  Queue!GcStart
<1>1. VLogTypeOK /\ Chained /\ GcGoesOn
  BY DEF VLogInv
<1>2. PICK r \in 0 .. Len(file) : ReleasedUpTo(r)
  BY DEF VLogInv
<1>3. /\ UNCHANGED fileVars /\ placed' = placed /\ pos' = pos /\ pc = "search" /\ pc' = "scan"
  BY DEF SearchFound, SearchFails, fileVars
<1>4. /\ Len(placed) \in Nat /\ Len(Log) = Len(placed) /\ Hole = Cardinality(Before(r))
      /\ Hole \in 0 .. Len(placed) /\ r \in Nat /\ pos \in Nat /\ Len(file) \in Nat
  BY <1>1, <1>2, QueueShape
<1>5. pos <= r
  BY <1>2, <1>3 DEF ReleasedUpTo
<1>6. Log' = Log /\ Hole' = Hole
  BY <1>3, QueueUntouched
<1>7. GcPos = -1 /\ GcPos' = Cardinality(Before(pos))
  BY <1>3, GcPosNext DEF GcPos
<1>8. /\ \A x \in Nat : x >= Len(file) => Cardinality(Before(x)) = Len(placed)
      /\ \A i \in DOMAIN placed : Cardinality(Before(placed[i].off)) = i - 1
      /\ \A x \in Nat : \A y \in Nat : x <= y => Cardinality(Before(x)) <= Cardinality(Before(y))
  BY <1>1, BeforeCounts
<1>9. Cardinality(Before(pos)) \in 0 .. Len(placed)
  BY <1>1, <1>4, BeforeIsFirst
<1>10. GcPos' \in 0 .. Hole
  BY <1>4, <1>5, <1>7, <1>8, <1>9
<1>11. ok => GcPos' = Hole /\ ok' = (Hole < Len(Log))
  <2> SUFFICES ASSUME ok PROVE GcPos' = Hole /\ ok' = (Hole < Len(Log))
    OBVIOUS
  <2>1. Boundary(r)
    BY <1>2 DEF ReleasedUpTo
  <2>2. r < Len(file) => IsValidEntry(r)
    BY <1>1, <1>2, <1>4, <2>1, EntryAtBoundary
  <2>3. pos < r => ~ IsValidEntry(pos)
    BY <1>1, <1>2, <1>4, EntryAtBoundary
  <2>4. CASE SearchFound
    <3>1. IsValidEntry(pos) /\ ok' = TRUE /\ pos < Len(file)
      BY <2>4 DEF SearchFound, SearchReads
    <3>2. pos = r
      BY <1>4, <1>5, <2>3, <3>1
    <3>3. PICK i \in DOMAIN placed : placed[i].off = r
      BY <1>4, <2>1, <3>1, <3>2 DEF Boundary
    <3>4. Hole = i - 1 /\ i \in 1 .. Len(placed)
      BY <1>1, <1>4, <1>8, <3>3, Places
    <3>5. GcPos' = Hole
      BY <1>7, <1>4, <3>2
    <3>6. Hole < Len(Log)
      BY <1>4, <3>4
    <3> QED BY <3>1, <3>5, <3>6
  <2>5. CASE SearchFails
    <3>1. ok' = FALSE /\ pos >= Len(file)
      BY <1>4, <2>5 DEF SearchFails, SearchReads
    <3>2. pos = r /\ r >= Len(file)
      BY <1>2, <1>4, <1>5, <3>1
    <3>3. Hole = Len(placed)
      BY <1>4, <1>8, <3>2
    <3>4. GcPos' = Hole
      BY <1>7, <1>4, <3>2
    <3>5. (Hole < Len(Log)) = FALSE
      BY <1>4, <3>3
    <3> QED BY <3>1, <3>4, <3>5
  <2> QED BY <2>4, <2>5
<1>12. ~ ok => ok' = FALSE
  BY DEF SearchFound, SearchReads, SearchFails
<1>13. ok' = (ok /\ Hole < Len(Log)) /\ GcPos' \in IF ok THEN {Hole} ELSE 0 .. Hole
  <2>1. CASE ok
    BY <1>11, <2>1
  <2>2. CASE ~ ok
    BY <1>10, <1>12, <2>2
  <2> QED BY <2>1, <2>2
<1> QED
  BY <1>6, <1>7, <1>13 DEF Queue!GcStart, Log, Hole, GcPos, Before

LEMMA QueueEntry ==
  ASSUME VLogInv, ScanEntry
  PROVE  Queue!GcEntry
<1>1. VLogTypeOK /\ Chained
  BY DEF VLogInv
<1>2. PICK r \in 0 .. Len(file) : ReleasedUpTo(r)
  BY DEF VLogInv
<1>3. /\ UNCHANGED fileVars /\ placed' = placed /\ pc = "scan" /\ pc' = "scan" /\ ok /\ ok' = ok
      /\ IsValidEntry(pos) /\ pos' = pos + Size(file[pos + 1])
  BY DEF ScanEntry, Advance, fileVars
<1>4. /\ Len(placed) \in Nat /\ Len(Log) = Len(placed) /\ pos \in Nat /\ Len(file) \in Nat
  BY <1>1, <1>2, QueueShape
<1>5. pos < Len(file)
  BY <1>3 DEF IsValidEntry, IsMagic
<1>6. PICK i \in DOMAIN placed : placed[i].off = pos /\ Reads(placed[i])
  BY <1>3, <1>4, <1>5, ScanStands
<1>7. placed[i].entry = file[pos + 1]
  BY <1>6 DEF Reads
<1>8. pos' = EndOf(i)
  BY <1>1, <1>3, <1>6, <1>7 DEF Chained
<1>9. /\ \A x \in Nat : x >= Len(file) => Cardinality(Before(x)) = Len(placed)
      /\ \A j \in DOMAIN placed : Cardinality(Before(placed[j].off)) = j - 1
  BY <1>1, BeforeCounts
<1>10. i \in 1 .. Len(placed) /\ DOMAIN placed = 1 .. Len(placed)
  BY <1>1, Places
<1>11. GcPos = i - 1
  BY <1>3, <1>6, <1>9 DEF GcPos
<1>12. GcPos' = i
  <2>1. GcPos' = Cardinality(Before(pos'))
    BY <1>3, GcPosNext
  <2>2. CASE i = Len(placed)
    <3>1. pos' = Len(file)
      BY <1>8, <2>2 DEF EndOf
    <3> QED BY <1>4, <1>9, <2>1, <2>2, <3>1
  <2>3. CASE i # Len(placed)
    <3>1. i + 1 \in 1 .. Len(placed) /\ (i + 1) - 1 = i
      BY <1>4, <1>10, <2>3
    <3>2. pos' = placed[i + 1].off
      BY <1>8, <2>3 DEF EndOf
    <3> QED BY <1>9, <1>10, <2>1, <3>1, <3>2
  <2> QED BY <2>2, <2>3
<1>13. Log' = Log /\ Hole' = Hole
  BY <1>3, QueueUntouched
<1>14. GcPos \in 0 .. Len(Log) - 1 /\ GcPos' = GcPos + 1
  BY <1>4, <1>10, <1>11, <1>12
<1> QED
  BY <1>3, <1>13, <1>14 DEF Queue!GcEntry, Log, Hole, GcPos, Before

LEMMA QueueNoEntry ==
  ASSUME VLogInv, ScanNoEntry
  PROVE  Queue!GcNoEntry
<1>1. VLogTypeOK /\ Chained
  BY DEF VLogInv
<1>2. PICK r \in 0 .. Len(file) : ReleasedUpTo(r)
  BY DEF VLogInv
<1>3. /\ UNCHANGED fileVars /\ placed' = placed /\ pc = "scan" /\ pc' = "scan"
      /\ ok' = (ok /\ pos < Len(file)) /\ (~ ok \/ ~ IsValidEntry(pos))
  BY DEF ScanNoEntry, fileVars
<1>4. PICK n \in LengthOfNoEntry : pos' = pos + n
  BY DEF ScanNoEntry, Advance
<1>5. /\ Len(placed) \in Nat /\ Len(Log) = Len(placed) /\ pos \in Nat /\ Len(file) \in Nat
      /\ GcPos \in 0 .. Len(placed)
  BY <1>1, <1>2, <1>3, QueueShape
<1>6. pos' \in Nat /\ pos <= pos'
  BY <1>4, <1>5 DEF LengthOfNoEntry
<1>7. /\ \A x \in Nat : x >= Len(file) => Cardinality(Before(x)) = Len(placed)
      /\ \A x \in Nat : \A y \in Nat : x <= y => Cardinality(Before(x)) <= Cardinality(Before(y))
  BY <1>1, BeforeCounts
<1>8. ok => pos = Len(file)
  BY <1>3, ScanStands DEF Reads
<1>9. ok' = FALSE
  <2>1. CASE ok
    <3>1. ~ pos < Len(file)
      BY <1>5, <1>8, <2>1
    <3> QED BY <1>3, <3>1
  <2>2. CASE ~ ok
    BY <1>3, <2>2
  <2> QED BY <2>1, <2>2
<1>10. GcPos = Cardinality(Before(pos))
  BY <1>3 DEF GcPos
<1>11. GcPos' = Cardinality(Before(pos'))
  BY <1>3, GcPosNext
<1>12. Cardinality(Before(pos')) \in 0 .. Len(placed)
  BY <1>1, <1>6, BeforeIsFirst
<1>13. GcPos' \in GcPos .. Len(Log)
  BY <1>5, <1>6, <1>7, <1>10, <1>11, <1>12
<1>14. ~ ok \/ GcPos = Len(Log)
  BY <1>5, <1>7, <1>8, <1>10
<1>15. Log' = Log /\ Hole' = Hole
  BY <1>3, QueueUntouched
<1>16. GcPos >= 0
  BY <1>5
<1> QED
  BY <1>9, <1>13, <1>14, <1>15, <1>16 DEF Queue!GcNoEntry, Log, Hole, GcPos, Before

LEMMA QueueEnd ==
  ASSUME VLogInv, GcEnd
  PROVE  Queue!GcEnd
<1>1. VLogTypeOK /\ Chained
  BY DEF VLogInv
<1>2. PICK r \in 0 .. Len(file) : ReleasedUpTo(r)
  BY DEF VLogInv
<1>3. /\ pc = "scan" /\ pc' = "ready" /\ UNCHANGED <<placed, ok>> /\ placed' = placed
      /\ ReleasePassed \/ UNCHANGED <<file, data>>
  BY DEF GcEnd
<1>4. /\ Len(placed) \in Nat /\ Hole = Cardinality(Before(r)) /\ Hole \in 0 .. Len(placed)
      /\ r \in Nat /\ pos \in Nat /\ Len(file) \in Nat /\ GcPos \in 0 .. Len(placed)
      /\ r <= Len(file)
  BY <1>1, <1>2, <1>3, QueueShape
<1>5. GcPos = Cardinality(Before(pos))
  BY <1>3 DEF GcPos
<1>6. /\ \A x \in Nat : x >= Len(file) => Cardinality(Before(x)) = Len(placed)
      /\ \A x \in Nat : \A y \in Nat : x <= y => Cardinality(Before(x)) <= Cardinality(Before(y))
  BY <1>1, BeforeCounts
<1>7. Max({Hole, GcPos}) = IF Hole <= GcPos THEN GcPos ELSE Hole
  BY <1>4, MaxOfTwo
<1>8. Log' = Log /\ GcPos' = -1
  BY <1>3 DEF Log, GcPos
<1>9. Hole' \in {Hole, Max({Hole, GcPos})}
  <2>1. CASE ReleasePassed
    <3> DEFINE s == FreeAfter(r)
    <3>1. PICK t : t = s
      OBVIOUS
    <3>2. ReleasedUpTo(t)' /\ t \in 0 .. Len(file') /\ Len(file') = Len(file)
      BY <1>2, <1>3, <2>1, <3>1, ReleaseFrees
    <3>3. t \in Nat
      BY <1>4, <3>2
    <3>4. Hole' = Cardinality(Before(t))
      BY <1>1, <1>3, <3>2, <3>3, LeftToReadAfter DEF Hole
    <3>5. t = IF pos <= r THEN r ELSE IF pos <= Len(file) THEN pos ELSE Len(file)
      BY <3>1 DEF FreeAfter
    <3>6. CASE pos <= r
      <4>1. Hole' = Hole
        BY <1>4, <3>4, <3>5, <3>6
      <4> QED BY <4>1
    <3>7. CASE ~ pos <= r
      <4>1. Hole' = GcPos
        BY <1>4, <1>5, <1>6, <3>4, <3>5, <3>7
      <4>2. Hole <= GcPos
        BY <1>4, <1>5, <1>6, <3>7
      <4> QED BY <1>7, <4>1, <4>2
    <3> QED BY <3>6, <3>7
  <2>2. CASE UNCHANGED <<file, data>>
    <3>1. UNCHANGED fileVars
      BY <1>3, <2>2 DEF fileVars
    <3> QED BY <3>1, QueueUntouched
  <2> QED BY <1>3, <2>1, <2>2
<1>10. GcPos >= 0 /\ ok' = ok
  BY <1>3, <1>4
<1> QED
  BY <1>8, <1>9, <1>10 DEF Queue!GcEnd, Queue!Max, Max, Log, Hole, GcPos, Before

LEMMA QueueReset ==
  ASSUME Reset
  PROVE  Queue!Reset
<1>1. placed' = <<>> /\ ok' = TRUE /\ pc = "ready" /\ pc' = pc
  BY DEF Reset, gcVars
<1>2. DOMAIN placed' = {}
  BY <1>1
<1>3. [i \in DOMAIN placed' |-> placed'[i].entry] = <<>>
  BY <1>1
<1>4. Cardinality({i \in DOMAIN placed' : ~ Reads(placed[i])'}) = 0
  BY <1>2, FS_EmptySet
<1> QED
  BY <1>1, <1>3, <1>4 DEF Queue!Reset

LEMMA QueueStutters ==
  ASSUME \/ \E n \in 0 .. MaxChunk : GcStart(n)
         \/ SearchOn
         \/ UNCHANGED vars
  PROVE  Log' = Log /\ Hole' = Hole /\ GcPos' = GcPos /\ ok' = ok
<1>1. UNCHANGED fileVars /\ ok' = ok
  BY DEF GcStart, SearchOn, vars, fileVars
<1>2. Log' = Log /\ Hole' = Hole
  BY <1>1, QueueUntouched
<1>3. \/ pc # "scan" /\ pc' # "scan"
      \/ pc' = pc /\ pos' = pos /\ placed' = placed
  BY DEF GcStart, SearchOn, vars, fileVars, gcVars
<1>4. GcPos' = GcPos
  BY <1>3 DEF GcPos, Before
<1> QED
  BY <1>1, <1>2, <1>4

LEMMA QueueNext ==
  ASSUME VLogInv, [VLogNext]_vars
  PROVE  [Queue!LogNext]_<<Log, Hole, ok, GcPos>>
<1>1. ASSUME NEW n \in 1 .. MaxBatch, NEW entries \in [1 .. n -> Entry], AppendEntries(entries)
      PROVE  Queue!LogNext
  <2>1. n \in Nat \ {0}
    BY FileAssumption
  <2>2. Log' = Log \o entries /\ Hole' = Hole /\ GcPos' = GcPos /\ ok /\ ok' = ok
    BY <1>1, <2>1, QueueAppend DEF AppendEntries
  <2>3. Queue!AppendEntries(entries)
    BY <2>2 DEF Queue!AppendEntries, Log, Hole, GcPos, Before
  <2> QED BY <2>3 DEF Queue!LogNext
<1>2. CASE Reset
  BY <1>2, QueueReset DEF Queue!LogNext
<1>3. CASE SearchFound \/ SearchFails
  BY <1>3, QueueStart DEF Queue!LogNext
<1>4. CASE ScanEntry
  BY <1>4, QueueEntry DEF Queue!LogNext
<1>5. CASE ScanNoEntry
  BY <1>5, QueueNoEntry DEF Queue!LogNext
<1>6. CASE GcEnd
  BY <1>6, QueueEnd DEF Queue!LogNext
<1>7. CASE (\E n \in 0 .. MaxChunk : GcStart(n)) \/ SearchOn \/ UNCHANGED vars
  BY <1>7, QueueStutters
<1> QED
  BY <1>1, <1>2, <1>3, <1>4, <1>5, <1>6, <1>7 DEF VLogNext, GcStep

(* The file with its pages, its search and its releases is the queue that  *)
(* KVStore takes the value log for: gc starts at the oldest entry that is  *)
(* left, passes the entries one by one and gives back those it has passed, *)
(* and the tables can read all others.                                     *)
THEOREM LogFileIsQueue == VLogSpec => QueueSpec
<1>1. VLogInit => Queue!LogInit
  BY QueueInit
<1>2. VLogInv /\ [VLogNext]_vars => [Queue!LogNext]_<<Log, Hole, ok, GcPos>>
  BY QueueNext
<1>3. [Queue!LogNext]_<<Log, Hole, ok, GcPos>> => [Queue!LogNext]_(Queue!logVars)
  BY DEF Queue!logVars, Log, Hole, GcPos, Before
<1>4. VLogInv /\ [VLogNext]_vars => [Queue!LogNext]_(Queue!logVars)
  BY <1>2, <1>3
<1> QED
  BY <1>1, <1>4, LogFileInvariant, PTL DEF VLogSpec, QueueSpec, Queue!LogSpec
=============================================================================
