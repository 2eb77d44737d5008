------------------------- MODULE TableSearch_proofs -------------------------
(***************************************************************************)
(* Proofs about the binary searches of a table, for tables of every length *)
(* and every set of keys.  The inductive invariant is SearchTypeOK and     *)
(* SearchBounds with the answers of the calls that have returned.          *)
(***************************************************************************)
EXTENDS TableSearch, TLAPS

SearchInv == SearchTypeOK /\ SearchBounds /\ GetCorrect /\ ScanCorrect

(* The middle of two positions lies between them.                          *)
LEMMA MidBetween ==
  ASSUME left \in Int, right \in Int, left <= right
  PROVE  Mid \in Int /\ left <= Mid /\ Mid <= right
BY DEF Mid

(* A search that is under way reads an item of the table.                  *)
LEMMA MidInTable ==
  ASSUME SearchTypeOK, left <= right
  PROVE  /\ Mid \in 0 .. Len(item) - 1 /\ left <= Mid /\ Mid <= right
         /\ Mid + 1 \in DOMAIN item
         /\ KeyAt(Mid) \in Nat
         /\ item[Mid + 1] \in Tuple
<1>1. /\ left \in Nat /\ right \in Int /\ right <= Len(item) - 1 /\ Len(item) \in Nat
      /\ DOMAIN item = 1 .. Len(item)
      /\ item \in Seq(Tuple)
  BY DEF SearchTypeOK
<1>2. Mid \in Int /\ left <= Mid /\ Mid <= right
  BY <1>1, MidBetween
<1>3. Mid + 1 \in DOMAIN item
  BY <1>1, <1>2
<1>4. item[Mid + 1] \in Tuple
  BY <1>1, <1>3
<1>5. KeyAt(Mid) \in Nat
  BY <1>4, SearchAssumption, KeysAreNumbers DEF KeyAt, Tuple
<1> QED
  BY <1>1, <1>2, <1>3, <1>4, <1>5

(* The keys of a table are numbers and ascend with their positions.        *)
LEMMA KeysAscend ==
  ASSUME SearchTypeOK
  PROVE  /\ \A p \in 0 .. Len(item) - 1 : KeyAt(p) \in Nat
         /\ \A p, q \in 0 .. Len(item) - 1 : p < q => KeyAt(p) < KeyAt(q)
<1>1. item \in Seq(Tuple) /\ Sorted(item) /\ Len(item) \in Nat /\ DOMAIN item = 1 .. Len(item)
  BY DEF SearchTypeOK
<1>2. ASSUME NEW p \in 0 .. Len(item) - 1
      PROVE  p + 1 \in DOMAIN item /\ KeyAt(p) \in Nat
  <2>1. p + 1 \in DOMAIN item
    BY <1>1
  <2>2. item[p + 1] \in Tuple
    BY <1>1, <2>1
  <2> QED
    BY <2>1, <2>2, SearchAssumption, KeysAreNumbers DEF KeyAt, Tuple
<1>3. ASSUME NEW p \in 0 .. Len(item) - 1, NEW q \in 0 .. Len(item) - 1, p < q
      PROVE  KeyAt(p) < KeyAt(q)
  <2>1. p + 1 < q + 1
    BY <1>1, <1>3
  <2> QED
    BY <1>1, <1>2, <1>3, <2>1 DEF KeyAt, Sorted
<1> QED
  BY <1>2, <1>3

----------------------------------------------------------------------------
(* Type correctness.                                                       *)

LEMMA TypeInit == SearchInit => SearchTypeOK
BY DEF SearchInit, SearchTypeOK, Sorted

LEMMA TypeStep ==
  ASSUME SearchTypeOK, [SearchNext]_searchVars
  PROVE  SearchTypeOK'
<1> USE DEF SearchTypeOK
<1>1. CASE \E list \in Seq(Tuple) : Sorted(list) /\ Load(list)
  <2>1. PICK list \in Seq(Tuple) : Sorted(list) /\ Load(list)
    BY <1>1
  <2> QED
    BY <2>1 DEF Load, Sorted
<1>2. ASSUME NEW k \in Key, AskKey(k) PROVE SearchTypeOK'
  BY <1>2 DEF AskKey, WholeTable, Sorted
<1>3. ASSUME NEW a \in Key, NEW b \in Key, AskRange(a, b) PROVE SearchTypeOK'
  BY <1>3 DEF AskRange, WholeTable, Sorted
<1>4. ASSUME Searching, GoRight, UNCHANGED item
      PROVE  left' \in 0 .. Len(item') /\ right' \in -1 .. Len(item') - 1
  BY <1>4, MidInTable DEF Searching, GoRight
<1>5. ASSUME Searching, GoLeft, UNCHANGED item
      PROVE  left' \in 0 .. Len(item') /\ right' \in -1 .. Len(item') - 1
  BY <1>5, MidInTable DEF Searching, GoLeft
<1>6. CASE GetStep
  BY <1>6, <1>4, <1>5 DEF GetStep, Sorted
<1>7. CASE GetEnd
  BY <1>7 DEF GetEnd, Sorted
<1>8. CASE StartStep
  BY <1>8, <1>4, <1>5 DEF StartStep, Sorted
<1>9. CASE StartEnd
  BY <1>9 DEF StartEnd, WholeTable, Sorted
<1>10. CASE EndStep
  BY <1>10, <1>4, <1>5 DEF EndStep, Sorted
<1>11. CASE EndEnd
  BY <1>11 DEF EndEnd, Sorted
<1>12. CASE Return
  BY <1>12 DEF Return, Sorted
<1>13. CASE UNCHANGED searchVars
  BY <1>13 DEF searchVars, Sorted
<1> QED
  BY <1>1, <1>2, <1>3, <1>6, <1>7, <1>8, <1>9, <1>10, <1>11, <1>12, <1>13
     DEF SearchNext, Ask, SearchStep

----------------------------------------------------------------------------
(* What a search has ruled out.                                            *)

LEMMA BoundsInit == SearchInit => SearchBounds
BY DEF SearchInit, SearchBounds

(* Two halves of SearchBounds: a search reads inside the table, and what   *)
(* it says of the positions on either side.                                *)
MidInside == left <= right => Mid \in 0 .. Len(item) - 1

Ruled ==
  /\ call = "get" => \A p \in 0 .. Len(item) - 1 :
       (p < left => KeyAt(p) < lo) /\ (p > right => KeyAt(p) > lo)
  /\ call = "scanStart" => \A p \in 0 .. Len(item) - 1 :
       (p < left => KeyAt(p) < lo) /\ (p > right => KeyAt(p) >= lo)
  /\ call = "scanEnd" => \A p \in 0 .. Len(item) - 1 :
       /\ (p < left => KeyAt(p) <= hi) /\ (p > right => KeyAt(p) > hi)
       /\ p < startIdx <=> KeyAt(p) < lo

LEMMA BoundsAreBoth == SearchBounds <=> MidInside /\ Ruled
BY Zenon DEF SearchBounds, MidInside, Ruled

LEMMA MidInsideHolds == SearchTypeOK => MidInside
BY MidInTable DEF MidInside

LEMMA RuledStep ==
  ASSUME SearchTypeOK, Ruled, [SearchNext]_searchVars
  PROVE  Ruled'
<1> DEFINE P == 0 .. Len(item) - 1
<1>t. /\ left \in Int /\ right \in Int /\ startIdx \in Int /\ Len(item) \in Nat
      /\ lo \in Nat /\ hi \in Nat
  BY SearchAssumption, KeysAreNumbers DEF SearchTypeOK
<1>k. /\ \A p \in P : KeyAt(p) \in Nat
      /\ \A p, q \in P : p < q => KeyAt(p) < KeyAt(q)
  BY KeysAscend
<1>s. ASSUME UNCHANGED item PROVE P' = P /\ \A p \in P : KeyAt(p)' = KeyAt(p)
  BY <1>s DEF KeyAt
<1>m. ASSUME Searching PROVE Mid \in P /\ KeyAt(Mid) \in Nat
  BY <1>m, MidInTable DEF Searching
<1>1. CASE \E list \in Seq(Tuple) : Sorted(list) /\ Load(list)
  BY <1>1 DEF Load, Ruled
<1>2. ASSUME NEW k \in Key, AskKey(k) PROVE Ruled'
  BY <1>2, <1>t DEF AskKey, WholeTable, Ruled
<1>3. ASSUME NEW a \in Key, NEW b \in Key, AskRange(a, b) PROVE Ruled'
  <2>1. CASE Outside(a, b)
    BY <1>3, <2>1 DEF AskRange, Ruled
  <2>2. CASE ~Outside(a, b)
    BY <1>3, <2>2, <1>t DEF AskRange, WholeTable, Ruled
  <2> QED
    BY <2>1, <2>2
<1>4. CASE GetStep
  <2>1. UNCHANGED <<item, lo>> /\ call = "get" /\ Searching
    BY <1>4 DEF GetStep
  <2>2. CASE call' = "got"
    BY <2>2 DEF Ruled
  <2>3. CASE KeyAt(Mid) < lo /\ GoRight /\ UNCHANGED call
    <3>1. \A p \in P : p < Mid + 1 => KeyAt(p) < lo
      BY <1>t, <1>k, <1>m, <2>1, <2>3
    <3> QED
      BY <1>s, <2>1, <2>3, <3>1 DEF GoRight, Ruled
  <2>4. CASE KeyAt(Mid) > lo /\ GoLeft /\ UNCHANGED call
    <3>1. \A p \in P : p > Mid - 1 => KeyAt(p) > lo
      BY <1>t, <1>k, <1>m, <2>1, <2>4
    <3> QED
      BY <1>s, <2>1, <2>4, <3>1 DEF GoLeft, Ruled
  <2> QED
    BY <1>4, <2>2, <2>3, <2>4 DEF GetStep
<1>5. CASE GetEnd
  BY <1>5 DEF GetEnd, Ruled
<1>6. CASE StartStep
  <2>1. UNCHANGED <<item, lo, call>> /\ call = "scanStart" /\ Searching
    BY <1>6 DEF StartStep
  <2>2. CASE KeyAt(Mid) < lo /\ GoRight
    <3>1. \A p \in P : p < Mid + 1 => KeyAt(p) < lo
      BY <1>t, <1>k, <1>m, <2>1, <2>2
    <3> QED
      BY <1>s, <2>1, <2>2, <3>1 DEF GoRight, Ruled
  <2>3. CASE ~(KeyAt(Mid) < lo) /\ GoLeft
    <3>1. ASSUME NEW p \in P, p > Mid - 1 PROVE KeyAt(p) >= lo
      <4>1. CASE p = Mid
        BY <1>t, <1>m, <2>1, <2>3, <4>1
      <4>2. CASE p > Mid
        BY <1>t, <1>k, <1>m, <2>1, <2>3, <4>2
      <4> QED
        BY <1>m, <2>1, <3>1, <4>1, <4>2
    <3> QED
      BY <1>s, <2>1, <2>3, <3>1 DEF GoLeft, Ruled
  <2> QED
    BY <1>6, <2>2, <2>3 DEF StartStep
<1>7. CASE StartEnd
  <2>1. \A p \in P : p < left <=> KeyAt(p) < lo
    BY <1>7, <1>t, <1>k DEF StartEnd, Searching, Ruled
  <2> QED
    BY <1>7, <1>s, <1>t, <2>1 DEF StartEnd, WholeTable, Ruled
<1>8. CASE EndStep
  <2>1. UNCHANGED <<item, lo, hi, startIdx, call>> /\ call = "scanEnd" /\ Searching
    BY <1>8 DEF EndStep
  <2>2. CASE ~(KeyAt(Mid) > hi) /\ GoRight
    <3>1. \A p \in P : p < Mid + 1 => KeyAt(p) <= hi
      BY <1>t, <1>k, <1>m, <2>1, <2>2
    <3> QED
      BY <1>s, <2>1, <2>2, <3>1 DEF GoRight, Ruled
  <2>3. CASE KeyAt(Mid) > hi /\ GoLeft
    <3>1. \A p \in P : p > Mid - 1 => KeyAt(p) > hi
      BY <1>t, <1>k, <1>m, <2>1, <2>3
    <3> QED
      BY <1>s, <2>1, <2>3, <3>1 DEF GoLeft, Ruled
  <2> QED
    BY <1>8, <2>2, <2>3 DEF EndStep, Beyond
<1>9. CASE EndEnd
  BY <1>9 DEF EndEnd, Ruled
<1>10. CASE Return
  BY <1>10 DEF Return, Ruled
<1>11. CASE UNCHANGED searchVars
  BY <1>11 DEF searchVars, Ruled, KeyAt
<1> QED
  BY <1>1, <1>2, <1>3, <1>4, <1>5, <1>6, <1>7, <1>8, <1>9, <1>10, <1>11
     DEF SearchNext, Ask, SearchStep

----------------------------------------------------------------------------
(* The answers.                                                            *)

LEMMA AnswersInit == SearchInit => GetCorrect /\ ScanCorrect
BY DEF SearchInit, GetCorrect, ScanCorrect

(* A search that returns: what it has ruled out decides the answer.        *)
LEMMA GetReturns ==
  ASSUME SearchTypeOK, Ruled, GetStep \/ GetEnd
  PROVE  GetCorrect'
<1>t. left \in Int /\ right \in Int /\ Len(item) \in Nat /\ DOMAIN item = 1 .. Len(item)
      /\ item \in Seq(Tuple) /\ lo \in Nat
  BY SearchAssumption, KeysAreNumbers DEF SearchTypeOK
<1>1. CASE GetStep
  <2>1. CASE KeyAt(Mid) = lo /\ call' = "got" /\ answer' = <<item[Mid + 1]>>
    <3>1. Mid + 1 \in DOMAIN item
      BY <1>1, MidInTable DEF GetStep, Searching
    <3> QED
      BY <1>1, <2>1, <3>1 DEF GetStep, GetCorrect, KeyAt
  <2>2. CASE UNCHANGED call
    BY <1>1, <2>2 DEF GetStep, GetCorrect
  <2> QED
    BY <1>1, <2>1, <2>2 DEF GetStep
<1>2. CASE GetEnd
  <2>1. ASSUME NEW p \in 0 .. Len(item) - 1 PROVE KeyAt(p) # lo
    <3>1. KeyAt(p) \in Nat
      BY KeysAscend
    <3>2. KeyAt(p) < lo \/ KeyAt(p) > lo
      BY <1>2, <1>t DEF GetEnd, Searching, Ruled
    <3> QED
      BY <1>t, <3>1, <3>2
  <2>2. ASSUME NEW i \in DOMAIN item PROVE item[i].key # lo
    <3>1. i - 1 \in 0 .. Len(item) - 1 /\ (i - 1) + 1 = i
      BY <1>t
    <3> QED
      BY <2>1, <3>1 DEF KeyAt
  <2> QED
    BY <1>2, <2>2 DEF GetEnd, GetCorrect
<1> QED
  BY <1>1, <1>2

LEMMA ScanReturns ==
  ASSUME SearchTypeOK, Ruled, EndEnd
  PROVE  ScanCorrect'
<1>t. /\ left \in Nat /\ right \in Int /\ startIdx \in 0 .. Len(item) /\ Len(item) \in Nat
      /\ right \in -1 .. Len(item) - 1
      /\ DOMAIN item = 1 .. Len(item) /\ lo \in Nat /\ hi \in Nat
  BY SearchAssumption, KeysAreNumbers DEF SearchTypeOK
<1>1. ASSUME NEW i \in DOMAIN item
      PROVE  startIdx + 1 <= i /\ i <= right + 1 <=> lo <= item[i].key /\ item[i].key <= hi
  <2>1. i - 1 \in 0 .. Len(item) - 1 /\ (i - 1) + 1 = i
    BY <1>t
  <2>2. KeyAt(i - 1) = item[i].key /\ KeyAt(i - 1) \in Nat
    BY <2>1, KeysAscend DEF KeyAt
  <2>3. i - 1 < startIdx <=> KeyAt(i - 1) < lo
    BY <2>1 DEF EndEnd, Ruled
  <2>4. i - 1 > right <=> KeyAt(i - 1) > hi
    BY <1>t, <2>1, <2>2 DEF EndEnd, Searching, Ruled
  <2> QED
    BY <1>t, <2>2, <2>3, <2>4
<1>2. startIdx + 1 \in 1 .. Len(item) + 1 /\ right + 1 \in 0 .. Len(item)
  BY <1>t
<1> QED
  BY <1>1, <1>2 DEF EndEnd, ScanCorrect

(* A range that lies outside the table has no tuples in it.                *)
LEMMA OutsideReturns ==
  ASSUME SearchTypeOK, NEW a \in Key, NEW b \in Key, AskRange(a, b), Outside(a, b)
  PROVE  ScanCorrect'
<1>t. /\ Len(item) \in Nat /\ DOMAIN item = 1 .. Len(item) /\ a \in Nat /\ b \in Nat
      /\ item \in Seq(Tuple) /\ item # <<>>
  BY SearchAssumption, KeysAreNumbers DEF SearchTypeOK, AskRange
<1>l. Len(item) > 0
  BY <1>t
<1>1. ASSUME NEW i \in DOMAIN item PROVE ~(a <= item[i].key /\ item[i].key <= b)
  <2>1. i - 1 \in 0 .. Len(item) - 1 /\ (i - 1) + 1 = i
        /\ 0 \in 0 .. Len(item) - 1 /\ Len(item) - 1 \in 0 .. Len(item) - 1
    BY <1>t, <1>l
  <2>2. KeyAt(i - 1) = item[i].key
    BY <2>1 DEF KeyAt
  <2>3. /\ KeyAt(i - 1) \in Nat /\ KeyAt(0) \in Nat /\ KeyAt(Len(item) - 1) \in Nat
        /\ KeyAt(0) <= KeyAt(i - 1) /\ KeyAt(i - 1) <= KeyAt(Len(item) - 1)
    <3>1. /\ KeyAt(i - 1) \in Nat /\ KeyAt(0) \in Nat /\ KeyAt(Len(item) - 1) \in Nat
      BY <2>1, KeysAscend
    <3>2. i - 1 = 0 \/ 0 < i - 1
      BY <1>t
    <3>3. i - 1 = Len(item) - 1 \/ i - 1 < Len(item) - 1
      BY <1>t
    <3>4. KeyAt(0) <= KeyAt(i - 1)
      BY <2>1, <3>1, <3>2, KeysAscend
    <3>5. KeyAt(i - 1) <= KeyAt(Len(item) - 1)
      BY <2>1, <3>1, <3>3, KeysAscend
    <3> QED
      BY <3>1, <3>4, <3>5
  <2> QED
    BY <1>t, <2>2, <2>3 DEF Outside
<1>2. SubSeq(item, 1, 0) = <<>>
  BY <1>t
<1>3. 1 \in 1 .. Len(item) + 1 /\ 0 \in 0 .. Len(item)
  BY <1>t
<1>4. item' = item /\ lo' = a /\ hi' = b /\ answer' = <<>>
  BY DEF AskRange
<1>5. \A i \in DOMAIN item : 1 <= i /\ i <= 0 <=> a <= item[i].key /\ item[i].key <= b
  BY <1>1, <1>t
<1> QED
  BY <1>2, <1>3, <1>4, <1>5 DEF ScanCorrect

LEMMA AnswersStep ==
  ASSUME SearchInv, [SearchNext]_searchVars
  PROVE  GetCorrect' /\ ScanCorrect'
<1>r. SearchTypeOK /\ Ruled
  BY BoundsAreBoth DEF SearchInv
<1>1. CASE \E list \in Seq(Tuple) : Sorted(list) /\ Load(list)
  BY <1>1 DEF Load, GetCorrect, ScanCorrect
<1>2. ASSUME NEW k \in Key, AskKey(k) PROVE GetCorrect' /\ ScanCorrect'
  BY <1>2 DEF AskKey, GetCorrect, ScanCorrect
<1>3. ASSUME NEW a \in Key, NEW b \in Key, AskRange(a, b) PROVE GetCorrect' /\ ScanCorrect'
  <2>1. CASE Outside(a, b)
    BY <1>3, <1>r, <2>1, OutsideReturns DEF AskRange, GetCorrect
  <2>2. CASE ~Outside(a, b)
    BY <1>3, <2>2 DEF AskRange, GetCorrect, ScanCorrect
  <2> QED
    BY <2>1, <2>2
<1>4. CASE GetStep \/ GetEnd
  <2>1. call' # "scanned"
    BY <1>4 DEF GetStep, GetEnd
  <2> QED
    BY <1>4, <1>r, <2>1, GetReturns DEF ScanCorrect
<1>5. CASE StartStep \/ StartEnd \/ EndStep
  BY <1>5 DEF StartStep, StartEnd, EndStep, GetCorrect, ScanCorrect
<1>6. CASE EndEnd
  BY <1>6, <1>r, ScanReturns DEF EndEnd, GetCorrect
<1>7. CASE Return
  BY <1>7 DEF Return, GetCorrect, ScanCorrect
<1>8. CASE UNCHANGED searchVars
  BY <1>8, Zenon DEF searchVars, SearchInv, GetCorrect, ScanCorrect
<1> QED
  BY <1>1, <1>2, <1>3, <1>4, <1>5, <1>6, <1>7, <1>8 DEF SearchNext, Ask, SearchStep

----------------------------------------------------------------------------
(* The theorems.                                                           *)

LEMMA SearchInvHolds == SearchSpec => []SearchInv
<1>1. SearchInit => SearchInv
  BY TypeInit, BoundsInit, AnswersInit DEF SearchInv
<1>2. SearchInv /\ [SearchNext]_searchVars => SearchInv'
  <2> SUFFICES ASSUME SearchInv, [SearchNext]_searchVars PROVE SearchInv'
    OBVIOUS
  <2>1. SearchTypeOK'
    BY TypeStep DEF SearchInv
  <2>2. Ruled'
    BY RuledStep, BoundsAreBoth DEF SearchInv
  <2>3. MidInside'
    BY <2>1, MidInsideHolds, PTL
  <2>4. SearchBounds'
    BY <2>2, <2>3, BoundsAreBoth, PTL
  <2>5. GetCorrect' /\ ScanCorrect'
    BY AnswersStep
  <2> QED
    BY <2>1, <2>4, <2>5 DEF SearchInv
<1> QED
  BY <1>1, <1>2, PTL DEF SearchSpec

(* The searches keep the types of their variables: no position is read     *)
(* outside of the table and no answer is anything but one of its tuples.   *)
THEOREM SearchTypeCorrect == SearchSpec => []SearchTypeOK
<1>1. SearchInv => SearchTypeOK
  BY DEF SearchInv
<1> QED
  BY <1>1, SearchInvHolds, PTL

(* A search keeps within the items of the table and never rules out a      *)
(* position that could hold its key, in a table of any length: the loops   *)
(* of SSTable::getOffset and SSTable::scanOffset.                          *)
THEOREM SearchesStayInside == SearchSpec => []SearchBounds
<1>1. SearchInv => SearchBounds
  BY DEF SearchInv
<1> QED
  BY <1>1, SearchInvHolds, PTL

(* SSTable::getOffset answers the tuple of the key it is asked for, or     *)
(* that the table has none, for every table and key.                       *)
THEOREM GetIsCorrect == SearchSpec => []GetCorrect
<1>1. SearchInv => GetCorrect
  BY DEF SearchInv
<1> QED
  BY <1>1, SearchInvHolds, PTL

(* SSTable::scanOffset answers exactly the tuples between its two keys, in *)
(* the order of the table, for every table and every two keys.             *)
THEOREM ScanIsCorrect == SearchSpec => []ScanCorrect
<1>1. SearchInv => ScanCorrect
  BY DEF SearchInv
<1> QED
  BY <1>1, SearchInvHolds, PTL
=============================================================================
