------------------------------ MODULE KVStore ------------------------------
(***************************************************************************)
(* The store itself (src/src/core/kvstore.cc) over the tree of tables, the *)
(* MemTable and the value log, as one process uses it between a start on   *)
(* an empty directory and its end.  Restarts are another module's.         *)
(*                                                                         *)
(* A call runs to its end before the next one starts; `pc` says where the  *)
(* running call is.  A put that fills the MemTable and every step of a     *)
(* garbage collection are steps of their own, with the compactions they    *)
(* start in between.                                                       *)
(*                                                                         *)
(* The value log is a sequence of entries; an offset counts the entries    *)
(* before an entry (the code counts their bytes).                          *)
(***************************************************************************)
EXTENDS SSTableHandler

CONSTANTS
  Value,      \* the strings clients pass to put
  Empty,      \* ""
  Deleted,    \* "~DELETED~"
  Junk,       \* what a read yields that does not deliver an entry
  MaxLog,     \* bound: the most entries the log may have
  MaxChunk    \* bound: the most entries one gc call asks for

ASSUME StringAssumption ==
  /\ Empty # Deleted
  /\ Junk \notin Value \cup {Empty, Deleted}

ASSUME LogAssumption ==
  /\ MaxLog \in Nat
  /\ MaxChunk \in Nat
  /\ [off : -1 .. MaxLog - 1, live : BOOLEAN] \subseteq Item

VARIABLES
  memtable,   \* the MemTable: a function from its keys to their strings
  log,        \* the entries appended to the value log
  hole,       \* the number of entries gc has punched out of its front
  streamOk,   \* FALSE when failbit of sstables.vlogFile is set
  pc,         \* where the running call is; "ready" when none runs
  gcPos,      \* offset, in KVStore::gc
  gcLeft      \* chunk_size - scan_size, in KVStore::gc

vars == <<treeVars, memtable, log, hole, streamOk, pc, gcPos, gcLeft>>

Written == Value \cup {Empty, Deleted}

NoEntries == [k \in {} |-> Empty]

KVTypeOK ==
  /\ TreeTypeOK
  /\ DOMAIN memtable \subseteq Key
  /\ memtable \in [DOMAIN memtable -> Written]
  /\ log \in Seq([key : Key, value : Written])
  /\ hole \in 0 .. Len(log)
  /\ streamOk \in BOOLEAN
  /\ pc \in {"ready", "putFlush", "gc", "gcFlush", "lastFlush"}
  /\ gcPos \in Nat
  /\ gcLeft \in Int

KVInit ==
  /\ TreeInit
  /\ memtable = NoEntries
  /\ log = <<>>
  /\ hole = 0
  /\ streamOk = TRUE
  /\ pc = "ready"
  /\ gcPos = 0
  /\ gcLeft = 0

----------------------------------------------------------------------------
(* Reading.                                                                *)

MemGet(k) == IF k \in DOMAIN memtable THEN memtable[k] ELSE Empty

(* Reading the entry at offset `off` of the log delivers it.               *)
Readable(off) == streamOk /\ off \in hole .. Len(log) - 1

(* SSTableHandler::get: the value an item points at; an item with vlen 0   *)
(* has none.  What get prints for key 1 and a value of two blanks (:132)   *)
(* is left out; it reads the log from its start and changes nothing unless *)
(* the log is shorter than the 32 bytes it asks for.                       *)
ReadItem(item) ==
  IF ~item.live THEN Empty
  ELSE IF Readable(item.off) THEN log[item.off + 1].value
  ELSE Junk

(* KVStore::get                                                            *)
GetFromTablesFirst(k) ==
  IF Lookup(k).live THEN ReadItem(Lookup(k))
  ELSE IF MemGet(k) = Deleted THEN Empty ELSE MemGet(k)

Get(k) ==
  IF MemGet(k) = Deleted THEN Empty
  ELSE IF MemGet(k) # Empty THEN MemGet(k)
  ELSE ReadItem(Lookup(k))

----------------------------------------------------------------------------
(* Flushing a MemTable m: vLog::append and the tuples of the new table.    *)

(* vLog::append skips deletions.                                           *)
Appended(m) == {k \in DOMAIN m : m[k] # Deleted}

NewEntries(m) ==
  [i \in 1 .. Cardinality(Appended(m)) |->
     LET k == CHOOSE j \in Appended(m) : Rank(Appended(m), j) = i - 1
     IN  [key |-> k, value |-> m[k]]]

(* tellp answers -1 when the stream has failed, and the entries are then   *)
(* counted from there.                                                     *)
LogEnd == IF streamOk THEN Len(log) ELSE -1

OffsetCountingDeletions(m, k) ==
  IF m[k] = Deleted THEN 0 ELSE LogEnd + Rank(DOMAIN m, k)

OffsetAlsoOfDeletions(m, k) == LogEnd + Rank(Appended(m), k)

Offset(m, k) == IF m[k] = Deleted THEN 0 ELSE LogEnd + Rank(Appended(m), k)

ItemsOf(m) ==
  [k \in DOMAIN m |->
     [off |-> Offset(m, k), live |-> m[k] \notin {Deleted, Empty}]]

(* convertMemTableToSSTable, up to its first compaction.                   *)
Convert(m) ==
  /\ AddTable(ItemsOf(m))
  /\ log' = IF streamOk THEN log \o NewEntries(m) ELSE log

With(k, v) == [j \in DOMAIN memtable \cup {k} |-> IF j = k THEN v ELSE memtable[j]]

(* KVStore::put, called by a client or by gc: `flush` and `back` are where *)
(* the caller is while the MemTable is converted and afterwards.           *)
Store(k, v, flush, back) ==
  /\ memtable' = With(k, v)
  /\ IF Cardinality(DOMAIN memtable') >= MemtableThreshold
     THEN Convert(memtable') /\ pc' = flush
     ELSE pc' = back /\ UNCHANGED <<treeVars, log>>

----------------------------------------------------------------------------
(* Client calls.                                                           *)

(* Bound: a call that adds n pairs to the MemTable flushes it whenever it  *)
(* is full, and gc once more at its end; it only starts when the instance  *)
(* has room for that.                                                      *)
Room(n, atEnd) ==
  LET pairs == Cardinality(DOMAIN memtable) + n
  IN  /\ timeId + pairs \div MemtableThreshold + atEnd <= MaxTime
      /\ Len(log) + pairs <= MaxLog

Put(k, v) ==
  /\ pc = "ready"
  /\ Room(1, 0)
  /\ Store(k, v, "putFlush", "ready")
  /\ UNCHANGED <<hole, streamOk, gcPos, gcLeft>>

(* KVStore::del; it changes nothing and returns FALSE when get answers "". *)
Del(k) ==
  /\ pc = "ready"
  /\ Room(1, 0)
  /\ Get(k) # Empty
  /\ Store(k, Deleted, "putFlush", "ready")
  /\ UNCHANGED <<hole, streamOk, gcPos, gcLeft>>

(* The compactions convertMemTableToSSTable runs.                          *)
Compaction ==
  /\ pc \in {"putFlush", "gcFlush", "lastFlush"}
  /\ CompactStep
  /\ UNCHANGED <<memtable, log, hole, streamOk, pc, gcPos, gcLeft>>

(* memtable.clean() after a conversion.                                    *)
Clean ==
  /\ pc \in {"putFlush", "gcFlush"}
  /\ job = Idle
  /\ memtable' = NoEntries
  /\ pc' = IF pc = "putFlush" THEN "ready" ELSE "gc"
  /\ UNCHANGED <<treeVars, log, hole, streamOk, gcPos, gcLeft>>

(* reset() closes the stream, removes the log and opens it anew, which     *)
(* also clears failbit.  timeId keeps its value.                           *)
Reset ==
  /\ pc = "ready"
  /\ ResetTree
  /\ memtable' = NoEntries
  /\ log' = <<>>
  /\ hole' = 0
  /\ streamOk' = TRUE
  /\ UNCHANGED <<pc, gcPos, gcLeft>>

----------------------------------------------------------------------------
(* Garbage collection.                                                     *)

(* seek_data_block finds nothing in an empty log.  It finds the page of    *)
(* the first entry that is left, and the search for a magic byte finds     *)
(* that entry; when no entry is left but the last page has a tail of       *)
(* zeros, the search runs into the end of the file and sets failbit; when  *)
(* failbit is set it cannot leave the start of the page.                   *)
GcStart(chunk) ==
  /\ pc = "ready"
  /\ Room(chunk, 1)
  /\ log # <<>>
  /\ pc' = "gc"
  /\ gcLeft' = chunk
  /\ streamOk' = Readable(hole)
  /\ gcPos' \in IF streamOk THEN {hole} ELSE 0 .. hole
  /\ UNCHANGED <<treeVars, memtable, log, hole>>

(* The tests of gc on an entry with key k found at gcPos.                  *)
SupersededAfterAdvance(k) == MemGet(k) # Empty \/ Lookup(k).off # gcPos + 1

SupersededInTablesOnly(k) == Lookup(k).off # gcPos

Superseded(k) == MemGet(k) # Empty \/ Lookup(k).off # gcPos

(* The entry is skipped or moved; both advance by its length.              *)
AdvanceWhenMoved(n) ==
  IF memtable' = memtable
  THEN UNCHANGED <<gcPos, gcLeft>>
  ELSE gcPos' = gcPos + n /\ gcLeft' = gcLeft - n

Advance(n) == gcPos' = gcPos + n /\ gcLeft' = gcLeft - n

Examine(k, v) ==
  IF Superseded(k) THEN UNCHANGED <<treeVars, memtable, log, pc>>
  ELSE Store(k, v, "gcFlush", "gc")

(* One pass of the loop of gc over an entry of the log.                    *)
GcEntry ==
  /\ pc = "gc"
  /\ gcLeft > 0
  /\ Readable(gcPos)
  /\ Examine(log[gcPos + 1].key, log[gcPos + 1].value)
  /\ Advance(1)
  /\ UNCHANGED <<hole, streamOk>>

(* The same where there is no entry: the read sets failbit and getEntry    *)
(* returns an entry with an empty value, a key and a length that nobody    *)
(* has set; a key no table has is skipped.                                 *)
GcNoEntry ==
  /\ pc = "gc"
  /\ gcLeft > 0
  /\ ~Readable(gcPos)
  /\ \/ UNCHANGED <<treeVars, memtable, log, pc>>
     \/ \E k \in Key : Examine(k, Empty)
  /\ \E n \in 1 .. gcLeft : Advance(n)
  /\ streamOk' = FALSE
  /\ UNCHANGED hole

(* The scan is over: what is left in the MemTable is converted.            *)
GcFinish ==
  /\ pc = "gc"
  /\ gcLeft <= 0
  /\ pc' = "lastFlush"
  /\ IF DOMAIN memtable = {} THEN UNCHANGED <<treeVars, log>> ELSE Convert(memtable)
  /\ UNCHANGED <<memtable, hole, streamOk, gcPos, gcLeft>>

(* The MemTable is cleaned and the scanned entries are punched out of the  *)
(* log.  fallocate may fail (gc ignores the answer), and cannot release    *)
(* what is beyond the end of the file.                                     *)
GcEnd ==
  /\ pc = "lastFlush"
  /\ job = Idle
  /\ memtable' = NoEntries
  /\ hole' \in {hole, Max({hole, Min({gcPos, Len(log)})})}
  /\ pc' = "ready"
  /\ gcPos' = 0
  /\ gcLeft' = 0
  /\ UNCHANGED <<treeVars, log, streamOk>>

----------------------------------------------------------------------------

ClientStep ==
  \/ \E k \in Key, v \in Value : Put(k, v)
  \/ \E k \in Key : Del(k)
  \/ Reset
  \/ \E chunk \in 0 .. MaxChunk : GcStart(chunk)

CallStep == Compaction \/ Clean \/ GcEntry \/ GcNoEntry \/ GcFinish \/ GcEnd

KVNext == ClientStep \/ CallStep

KVSpec == KVInit /\ [][KVNext]_vars

(* A running call goes on: the process is single-threaded and its loops    *)
(* do not block.                                                           *)
FairKVSpec == KVSpec /\ WF_vars(CallStep)

----------------------------------------------------------------------------
(* Clients that avoid what breaks the store.                               *)

(* gc is asked for no more than the log has left.                          *)
NoOvershoot(chunk) == hole < Len(log) /\ hole + chunk <= Len(log)

(* No deletion in the tables shares its offset 0 with the first entry.     *)
FirstEntryNotDeleted ==
  hole = 0 =>
    \/ Lookup(log[1].key).live
    \/ Lookup(log[1].key).off # 0
    \/ MemGet(log[1].key) # Empty

CarefulStep ==
  \/ \E k \in Key, v \in Value : Put(k, v)
  \/ \E k \in Key : Del(k)
  \/ Reset
  \/ \E chunk \in 0 .. MaxChunk :
       NoOvershoot(chunk) /\ FirstEntryNotDeleted /\ GcStart(chunk)

CarefulSpec == KVInit /\ [][CarefulStep \/ CallStep]_vars

NoOvershootStep ==
  \/ \E k \in Key, v \in Value : Put(k, v)
  \/ \E k \in Key : Del(k)
  \/ \E chunk \in 0 .. MaxChunk : NoOvershoot(chunk) /\ GcStart(chunk)

NoOvershootSpec == KVInit /\ [][NoOvershootStep \/ CallStep]_vars

----------------------------------------------------------------------------
(* Properties.                                                             *)

(* The store implements the map of kvstore_api.h: what get answers for     *)
(* each key changes only as put, del and reset say, and flushes,           *)
(* compactions and garbage collections change no answer.                   *)
Map == INSTANCE KVMap WITH kv <- [k \in Key |-> Get(k)], busy <- pc # "ready"

MapSpec == Map!Spec

(* Items never dangle: what the tables answer for a key is an entry of the *)
(* log that is still there and was written for that key.  gc releases the  *)
(* log only after the tables have stopped pointing into it.                *)
PointersValid ==
  \A k \in Key :
    LET item == Visible(k)
    IN  item.live => Readable(item.off) /\ log[item.off + 1].key = k

(* While gc scans, a key that the tables still place before the scan is    *)
(* in the MemTable, whose conversion will move it.                         *)
GcProgress ==
  pc \in {"gc", "gcFlush", "lastFlush"} =>
    \A k \in Key : Visible(k).live /\ Visible(k).off < gcPos => MemGet(k) # Empty

(* The inductive invariant behind MapSpec, for clients that take           *)
(* CarefulStep.  MemTable and log hold values of clients and nothing else, *)
(* and a MemTable that is not being converted has room for a pair.         *)
OnlyValues ==
  /\ \A k \in DOMAIN memtable : memtable[k] \in Value \cup {Deleted}
  /\ \A i \in DOMAIN log : log[i].value \in Value

MemtableHasRoom ==
  /\ Cardinality(DOMAIN memtable) <= MemtableThreshold
  /\ pc \in {"ready", "gc"} => Cardinality(DOMAIN memtable) < MemtableThreshold

(* Every deletion in the tables has offset 0.                              *)
DeadAtZero(t) == \A k \in Keys(t) : t.items[k].live \/ t.items[k].off = 0

DeletionsAtZero ==
  /\ \A i \in DOMAIN level0 : DeadAtZero(level0[i])
  /\ \A l \in DOMAIN deeper : \A t \in deeper[l] : DeadAtZero(t)

(* gc reads entries only: it starts behind what is released and the rest   *)
(* of its scan is in the log, where there is room for all it may append.   *)
GcWindow ==
  /\ streamOk
  /\ pc \in {"gc", "gcFlush", "lastFlush"} =>
       hole <= gcPos /\ 0 <= gcLeft /\ gcPos + gcLeft <= Len(log)
  /\ pc = "gcFlush" => gcPos > 0 /\ Len(log) + gcLeft <= MaxLog
  /\ pc = "gc" =>
       /\ Len(log) + Cardinality(DOMAIN memtable) + gcLeft <= MaxLog
       /\ gcPos = 0 => FirstEntryNotDeleted

(* While a converted MemTable has not been cleaned, the tables tell the    *)
(* same, from behind the scan.                                             *)
FlushedAgrees ==
  pc \in {"putFlush", "gcFlush", "lastFlush"} =>
    \A k \in DOMAIN memtable :
      IF memtable[k] = Deleted THEN ~Visible(k).live
      ELSE /\ Visible(k).live
           /\ log[Visible(k).off + 1].value = memtable[k]
           /\ pc # "putFlush" => Visible(k).off >= gcPos

KVInv ==
  /\ TreeInv
  /\ KVTypeOK
  /\ OnlyValues
  /\ MemtableHasRoom
  /\ DeletionsAtZero
  /\ GcWindow
  /\ PointersValid
  /\ GcProgress
  /\ FlushedAgrees

(* A put makes get answer its value, and a del the empty string, at once   *)
(* and for their key only, whether the call fills the MemTable and starts  *)
(* a flush or not: the comments on put and del.  (KVMap does not say which *)
(* call changes which key.)                                                *)
PutDelTakeEffect ==
  [][\A k \in Key :
       /\ \A v \in Value :
            Put(k, v) => \A j \in Key : Get(j)' = IF j = k THEN v ELSE Get(j)
       /\ Del(k) => \A j \in Key : Get(j)' = IF j = k THEN Empty ELSE Get(j)]_vars

(* gc discards invalid values (its comment): a key without a value has     *)
(* none after any step of a gc.                                            *)
GcDiscardsInvalid ==
  [][\A k \in Key :
       pc \in {"gc", "gcFlush", "lastFlush"} /\ Get(k) = Empty => Get(k)' = Empty]_vars

(* get returns a value somebody stored, or the empty string: its comment.  *)
GetReturnsValues == \A k \in Key : Get(k) \in Value \cup {Empty}

(* Every call comes to its end.                                            *)
CallsEnd == pc # "ready" ~> pc = "ready"
=============================================================================
