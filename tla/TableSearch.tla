---------------------------- MODULE TableSearch ----------------------------
(***************************************************************************)
(* The binary searches over the sorted items of one table                  *)
(* (src/src/sstable/sstable.cc): getOffset, and the two searches of        *)
(* scanOffset that find where the items between two keys begin and end.    *)
(*                                                                         *)
(* One step is one pass of a loop.  Positions count from 0, as in the      *)
(* code; a table has at most 408 items, so they stay far within int.       *)
(***************************************************************************)
EXTENDS ListKeys, Integers, Sequences

CONSTANTS
  Payload,    \* what a tuple holds besides its key
  Sentinel,   \* INT64_MAX, the key of the answer for an absent key
  Nothing     \* the rest of that answer

ASSUME SearchAssumption == Sentinel \in Nat

VARIABLES
  item,       \* the tuples of the table
  call,       \* which loop the running call is in, or what it has returned from
  lo, hi,     \* its arguments: the key, or the first and last key
  left, right,
  startIdx,
  answer      \* what it returns, as a list of tuples

searchVars == <<item, call, lo, hi, left, right, startIdx, answer>>

Tuple == [key : Key, payload : Payload]

Absent == [key |-> Sentinel, payload |-> Nothing]

Sorted(list) == \A i, j \in DOMAIN list : i < j => list[i].key < list[j].key

SearchTypeOK ==
  /\ item \in Seq(Tuple)
  /\ Sorted(item)
  /\ call \in {"none", "get", "scanStart", "scanEnd", "got", "scanned"}
  /\ lo \in Key /\ hi \in Key
  /\ left \in 0 .. Len(item)
  /\ right \in -1 .. Len(item) - 1
  /\ startIdx \in 0 .. Len(item)

SearchInit ==
  /\ item = <<>>
  /\ call = "none"
  /\ lo \in Key /\ hi = lo
  /\ left = 0
  /\ right = -1
  /\ startIdx = 0
  /\ answer = <<>>

(* A new table is built.                                                   *)
Load(list) ==
  /\ call = "none"
  /\ item' = list
  /\ left' = 0
  /\ right' = -1
  /\ startIdx' = 0
  /\ UNCHANGED <<call, lo, hi, answer>>

KeyAt(position) == item[position + 1].key

(* The condition of the three loops.                                       *)
SearchingWhileLess == left < right

Searching == left <= right

Mid == left + (right - left) \div 2

(* left = mid + 1 and right = mid - 1.                                     *)
GoRightTooFar == left' = Mid + 2 /\ UNCHANGED right

GoRight == left' = Mid + 1 /\ UNCHANGED right

GoLeftKeepingMid == right' = Mid /\ UNCHANGED left

GoLeft == right' = Mid - 1 /\ UNCHANGED left

WholeTableAndOneMore == left' = 0 /\ right' = Len(item)

WholeTable == left' = 0 /\ right' = Len(item) - 1

----------------------------------------------------------------------------
(* getOffset.                                                              *)

AskKey(k) ==
  /\ call = "none"
  /\ item # <<>>
  /\ call' = "get"
  /\ lo' = k /\ hi' = k
  /\ WholeTable
  /\ UNCHANGED <<item, startIdx, answer>>

GetStep ==
  /\ call = "get"
  /\ Searching
  /\ \/ /\ KeyAt(Mid) = lo
        /\ call' = "got"
        /\ answer' = <<item[Mid + 1]>>
        /\ UNCHANGED <<left, right>>
     \/ KeyAt(Mid) < lo /\ GoRight /\ UNCHANGED <<call, answer>>
     \/ KeyAt(Mid) > lo /\ GoLeft /\ UNCHANGED <<call, answer>>
  /\ UNCHANGED <<item, lo, hi, startIdx>>

GetEnd ==
  /\ call = "get"
  /\ ~Searching
  /\ call' = "got"
  /\ answer' = <<Absent>>
  /\ UNCHANGED <<item, lo, hi, left, right, startIdx>>

----------------------------------------------------------------------------
(* scanOffset.                                                             *)

OutsideOrAtLargest(a, b) == a >= KeyAt(Len(item) - 1) \/ b < KeyAt(0)

(* The early return when the table has no key between the two.             *)
Outside(a, b) == a > KeyAt(Len(item) - 1) \/ b < KeyAt(0)

AskRange(a, b) ==
  /\ call = "none"
  /\ item # <<>>
  /\ lo' = a /\ hi' = b
  /\ IF Outside(a, b)
     THEN call' = "scanned" /\ answer' = <<>> /\ UNCHANGED <<left, right>>
     ELSE call' = "scanStart" /\ WholeTable /\ UNCHANGED answer
  /\ UNCHANGED <<item, startIdx>>

StartStep ==
  /\ call = "scanStart"
  /\ Searching
  /\ IF KeyAt(Mid) < lo THEN GoRight ELSE GoLeft
  /\ UNCHANGED <<item, call, lo, hi, startIdx, answer>>

StartEnd ==
  /\ call = "scanStart"
  /\ ~Searching
  /\ startIdx' = left
  /\ call' = "scanEnd"
  /\ WholeTable
  /\ UNCHANGED <<item, lo, hi, answer>>

BeyondOrAt(key) == key >= hi

Beyond(key) == key > hi

EndStep ==
  /\ call = "scanEnd"
  /\ Searching
  /\ IF Beyond(KeyAt(Mid)) THEN GoLeft ELSE GoRight
  /\ UNCHANGED <<item, call, lo, hi, startIdx, answer>>

EndEnd ==
  /\ call = "scanEnd"
  /\ ~Searching
  /\ call' = "scanned"
  /\ answer' = SubSeq(item, startIdx + 1, right + 1)
  /\ UNCHANGED <<item, lo, hi, left, right, startIdx>>

----------------------------------------------------------------------------

Return ==
  /\ call \in {"got", "scanned"}
  /\ call' = "none"
  /\ UNCHANGED <<item, lo, hi, left, right, startIdx, answer>>

Ask ==
  \/ \E k \in Key : AskKey(k)
  \/ \E a, b \in Key : AskRange(a, b)

SearchStep == GetStep \/ GetEnd \/ StartStep \/ StartEnd \/ EndStep \/ EndEnd \/ Return

SearchNext ==
  \/ \E list \in Seq(Tuple) : Sorted(list) /\ Load(list)
  \/ Ask
  \/ SearchStep

SearchSpec == SearchInit /\ [][SearchNext]_searchVars

----------------------------------------------------------------------------
(* Properties.                                                             *)

(* getOffset answers the tuple of the key when the table has one, and      *)
(* otherwise an answer no caller takes for the key, unless the key is      *)
(* Sentinel itself.                                                        *)
GetCorrect ==
  call = "got" =>
    \/ \E i \in DOMAIN item : item[i].key = lo /\ answer = <<item[i]>>
    \/ /\ \A i \in DOMAIN item : item[i].key # lo
       /\ answer = <<Absent>>

(* scanOffset answers the tuples between the two keys, in their order.     *)
ScanCorrect ==
  call = "scanned" =>
    \E first \in 1 .. Len(item) + 1, last \in 0 .. Len(item) :
      /\ answer = SubSeq(item, first, last)
      /\ \A i \in DOMAIN item :
           first <= i /\ i <= last <=> lo <= item[i].key /\ item[i].key <= hi

(* A search reads only items the table has, and the positions it has ruled *)
(* out hold no key it could be looking for.                                *)
SearchBounds ==
  /\ left <= right => Mid \in 0 .. Len(item) - 1
  /\ call = "get" => \A p \in 0 .. Len(item) - 1 :
       (p < left => KeyAt(p) < lo) /\ (p > right => KeyAt(p) > lo)
  /\ call = "scanStart" => \A p \in 0 .. Len(item) - 1 :
       (p < left => KeyAt(p) < lo) /\ (p > right => KeyAt(p) >= lo)
  /\ call = "scanEnd" => \A p \in 0 .. Len(item) - 1 :
       /\ (p < left => KeyAt(p) <= hi) /\ (p > right => KeyAt(p) > hi)
       /\ p < startIdx <=> KeyAt(p) < lo

(* Every search comes to an end: each pass of a loop moves a bound.        *)
SearchEnds == call \in {"get", "scanStart", "scanEnd"} ~> call \in {"got", "scanned"}
=============================================================================
