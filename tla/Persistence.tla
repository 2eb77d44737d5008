---------------------------- MODULE Persistence ----------------------------
(***************************************************************************)
(* The tree of tables with its files, the end of the process at any moment *)
(* and the next start: what SSTableHandler.cc writes to and deletes from   *)
(* <dir>/sstable, and SSTableHandler::init, which reads it.                *)
(*                                                                         *)
(* Faults covered: the process ends (a crash, a kill, or its normal end,   *)
(* which does nothing that matters here) between any two operations on the *)
(* file system.  Writing one file and removing the directory are single    *)
(* operations; torn files, and a mkdir that fails (SSTableHandler has it), *)
(* are left out, and so is the MemTable, which every end loses.            *)
(*                                                                         *)
(* A call changes the tree in memory and leaves in `todo` the operations   *)
(* on files it makes, in their order; nothing else happens in the process  *)
(* until they are done.                                                    *)
(***************************************************************************)
EXTENDS SSTableHandler

VARIABLES
  up,      \* a process has the store open
  disk,    \* the level directories: for each its files, a function from their numbers to tables
  todo,    \* the operations on files the running call still has to do
  loaded   \* per level, the tables init has read: their file names have no directory

persistVars == <<treeVars, up, disk, todo, loaded>>

NothingLoaded == [l \in 0 .. MaxLevel |-> {}]

(* A directory without files, and a file system without directories.       *)
Nothing == [n \in {} |-> {}]

Files(l) == IF l \in DOMAIN disk THEN disk[l] ELSE Nothing

(* The operations on the file system.                                      *)
Operation ==
  [op : {"mkdir"}, level : 0 .. MaxLevel]
    \cup [op : {"write"}, level : 0 .. MaxLevel, number : Nat, table : Table]
    \cup [op : {"rmfile"}, level : 0 .. MaxLevel, number : Nat]
    \cup [op : {"rmrf"}]

PersistTypeOK ==
  /\ TreeTypeOK
  /\ up \in BOOLEAN
  /\ DOMAIN disk \subseteq 0 .. MaxLevel
  /\ \A l \in DOMAIN disk :
       /\ DOMAIN disk[l] \subseteq Nat
       /\ IsFiniteSet(DOMAIN disk[l])
       /\ \A n \in DOMAIN disk[l] : disk[l][n] \in Table
  /\ todo \in Seq(Operation)
  /\ loaded \in [0 .. MaxLevel -> SUBSET Table]

PersistInit ==
  /\ TreeInit
  /\ up = FALSE
  /\ disk = Nothing
  /\ todo = <<>>
  /\ loaded = NothingLoaded

----------------------------------------------------------------------------
(* Operations on the file system.                                          *)

Mkdir(l) == [op |-> "mkdir", level |-> l]
Write(l, n, t) == [op |-> "write", level |-> l, number |-> n, table |-> t]
Rmfile(l, n) == [op |-> "rmfile", level |-> l, number |-> n]
RmrfAll == [op |-> "rmrf"]

Extended(f, x, y) == [z \in DOMAIN f \cup {x} |-> IF z = x THEN y ELSE f[z]]

AfterOperation(d, o) ==
  CASE o.op = "mkdir"  -> Extended(d, o.level, Nothing)
    [] o.op = "write"  -> [d EXCEPT ![o.level] = Extended(@, o.number, o.table)]
    [] o.op = "rmfile" -> [d EXCEPT ![o.level] = Restrict(@, DOMAIN @ \ {o.number})]
    [] o.op = "rmrf"   -> Nothing

(* A directory is made before the first file goes into it.                 *)
EnsureDirectory(l) == IF l \in DOMAIN disk THEN <<>> ELSE <<Mkdir(l)>>

(* The largest number among the files of a level, and their count.         *)
LastNumberIsCount(l) == Cardinality(DOMAIN Files(l))

LastNumber(l) == Max({0} \cup DOMAIN Files(l))

(* std::sort of tables that Before orders.                                 *)
Sorted(S) ==
  [i \in 1 .. Cardinality(S) |->
     CHOOSE t \in S : Cardinality({u \in S : Before(u, t)}) = i - 1]

(* New tables, all of one timestamp, go to files numbered from there, in   *)
(* the order of their keys.                                                *)
Writes(l, tables) ==
  [i \in 1 .. Cardinality(tables) |-> Write(l, LastNumber(l) + i, Sorted(tables)[i])]

(* The files of merged tables are deleted by name, oldest table first.  A  *)
(* table read by init has a name without its directory: rmfile fails and   *)
(* its answer is ignored.                                                  *)
Deletions(l, tables) ==
  LET named == tables \ loaded[l]
      number(t) == CHOOSE n \in DOMAIN disk[l] : disk[l][n] = t
  IN  [i \in 1 .. Cardinality(named) |-> Rmfile(l, number(Sorted(named)[i]))]

(* Both compactions write first and delete afterwards.                     *)
ReplaceDeletingFirst(writes, deletions) == deletions \o writes

Replace(writes, deletions) == writes \o deletions

----------------------------------------------------------------------------
(* What a start reads.                                                     *)

FileTables(l) == Range(Files(l))

FileLevel0 == Sorted(FileTables(0))

FileDeeper ==
  [l \in 1 .. Max({0} \cup {m \in DOMAIN disk : disk[m] # Nothing}) |-> FileTables(l)]

(* init continues with the largest timestamp it has read.                  *)
FileTimeLost == 0

FileTimeUnset ==
  Max({-1} \cup UNION {{t.time : t \in FileTables(l)} : l \in DOMAIN disk})

FileTime == Max({0} \cup UNION {{t.time : t \in FileTables(l)} : l \in DOMAIN disk})

(* The store a start would give now.                                       *)
AfterStart == INSTANCE SSTableHandler WITH
  level0 <- FileLevel0, deeper <- FileDeeper, timeId <- FileTime, job <- Idle, dirs <- {}

(* Bound: two tables that are sorted together, or would be after a start,  *)
(* differ in timestamp or smallest key.  std::sort leaves the order of     *)
(* equal tables open; they can only arise from the timestamp a start uses  *)
(* a second time.                                                          *)
Comparable(S) == \A t, u \in S : t = u \/ Before(t, u) \/ Before(u, t)

AllComparable ==
  /\ \A l \in DOMAIN deeper : Comparable(deeper[l])
  /\ Comparable(Level0Tables \cup IF deeper = <<>> THEN {} ELSE deeper[1])
  /\ \A l \in DOMAIN disk : Comparable(FileTables(l))
  /\ Comparable(FileTables(0) \cup FileTables(1))

----------------------------------------------------------------------------
(* The calls, on the tree and on the files.                                *)

Idling == up /\ todo = <<>>

(* sstables.size() == 0: no table has ever been in any level.              *)
FirstFlushOfLevel0 == level0 = <<>>

FirstFlush == level0 = <<>> /\ deeper = <<>>

(* The table of the first flush is not written, and neither is one that    *)
(* makes level 0 too long: a compaction follows.  A file of level 0 is     *)
(* named by the length of the level.                                       *)
FlushTable(items) ==
  /\ Idling
  /\ AddTable(items)
  /\ todo' = IF FirstFlush \/ Len(level0') > Level0Max THEN <<>>
             ELSE EnsureDirectory(0) \o <<Write(0, Len(level0'), level0'[Len(level0')])>>
  /\ UNCHANGED <<up, disk, loaded>>

(* The tables a compaction has added to level l.                           *)
Added(l, met) == deeper'[l] \ (WithLevel(l)[l] \ met)

(* The files of level 0 are deleted under names that do not exist (without *)
(* their suffix .sst): they stay.                                          *)
MergeLevel0 ==
  LET met == Met(Level0Tables, 1)
  IN  /\ Idling
      /\ CompactLevel0
      /\ todo' = EnsureDirectory(1) \o Replace(Writes(1, Added(1, met)), Deletions(1, met))
      /\ loaded' = [loaded EXCEPT ![0] = {}, ![1] = @ \ met]
      /\ UNCHANGED <<up, disk>>

MergeDown(l) ==
  LET moved == Excess(l)
      met   == Met(moved, l + 1)
  IN  /\ Idling
      /\ Compact(l)
      /\ todo' = EnsureDirectory(l + 1) \o
                 Replace(Writes(l + 1, Added(l + 1, met)),
                         Deletions(l, moved) \o Deletions(l + 1, met))
      /\ loaded' = [loaded EXCEPT ![l] = @ \ moved, ![l + 1] = @ \ met]
      /\ UNCHANGED <<up, disk>>

ResetFiles ==
  /\ Idling
  /\ ResetTree
  /\ todo' = <<RmrfAll>>
  /\ loaded' = NothingLoaded
  /\ UNCHANGED <<up, disk>>

(* The next operation of the running call.                                 *)
FileStep ==
  /\ todo # <<>>
  /\ disk' = AfterOperation(disk, Head(todo))
  /\ todo' = Tail(todo)
  /\ UNCHANGED <<treeVars, up, loaded>>

(* The process ends: what it had in memory is gone.                        *)
Crash ==
  /\ up
  /\ up' = FALSE
  /\ level0' = <<>>
  /\ deeper' = <<>>
  /\ timeId' = 0
  /\ job' = Idle
  /\ dirs' = {}
  /\ todo' = <<>>
  /\ loaded' = NothingLoaded
  /\ UNCHANGED disk

(* The constructor of KVStore: init reads every file and then removes the  *)
(* whole directory.  It sorts sstables[l] for every level directory, also  *)
(* for one without files: when no file has been read before, the vector is *)
(* empty, init dereferences a null pointer and the process dies without a  *)
(* trace.  Otherwise the read beyond the vector may go unnoticed.          *)
Start ==
  /\ ~up
  /\ DOMAIN disk # {} => \E l \in DOMAIN disk : disk[l] # Nothing
  /\ up' = TRUE
  /\ level0' = FileLevel0
  /\ deeper' = FileDeeper
  /\ timeId' = FileTime
  /\ loaded' = [l \in 0 .. MaxLevel |-> FileTables(l)]
  /\ todo' = <<RmrfAll>>
  /\ UNCHANGED <<disk, job, dirs>>

MergeStep == MergeLevel0 \/ \E l \in 1 .. MaxLevel : MergeDown(l)

PersistStep ==
  \/ \E items \in MemtableRuns : FlushTable(items)
  \/ MergeStep
  \/ ResetFiles
  \/ FileStep
  \/ Crash
  \/ Start

PersistNext == PersistStep /\ AllComparable'

PersistSpec == PersistInit /\ [][PersistNext]_persistVars

----------------------------------------------------------------------------
(* Properties.                                                             *)

(* Between calls the files of every level below level 0 are exactly the    *)
(* tables of that level the process has made itself; the others are those  *)
(* init has read, whose files are gone.  No new file ever replaces one     *)
(* that is still needed, and no file outlives its table, whatever crashes  *)
(* came before.                                                            *)
FilesMatchLevels ==
  Idling =>
    /\ dirs = DOMAIN disk \ {0}
    /\ \A l \in DOMAIN deeper :
         /\ FileTables(l) = deeper[l] \ loaded[l]
         /\ Cardinality(DOMAIN Files(l)) = Cardinality(FileTables(l))

(* A process that ends in the middle of a call leaves files that answer    *)
(* for a key what they answered before the operation it did last, or what  *)
(* the process answers: compactions write before they delete, and old and  *)
(* new files together tell the same.  Only the removals of the whole       *)
(* directory are no such operations.  compact(l) gives its output the      *)
(* timestamp of what it moves, which a table it meets may have, too; while *)
(* both are on disk, std::sort puts the one with the larger smallest key   *)
(* last, which need not be the new one.  Such keys are not covered.        *)
TiedKeys ==
  {k \in Key : \E l \in DOMAIN disk : \E t, u \in Holders(FileTables(l), k) :
     t # u /\ t.time = u.time}

CrashLosesNothingMore ==
  [][FileStep /\ Head(todo).op # "rmrf" =>
       \A k \in Key \ (MergedKeys(UNION Range(loaded)) \cup TiedKeys') :
         AfterStart!Visible(k)' \in {AfterStart!Visible(k), Visible(k)}]_persistVars

(* Level 0 answers for key k with its table i, which this process has      *)
(* flushed itself.                                                         *)
AnswersWithFlushed(k, i) ==
  /\ k \in Keys(level0[i])
  /\ \A j \in DOMAIN level0 : k \in Keys(level0[j]) => j <= i
  /\ level0[i] \notin loaded[0]

(* Another table of the merge has the timestamp of t and a value of k.     *)
Tied(k, t) ==
  \E u \in Level0Tables \cup Met(Level0Tables, 1) :
    u # t /\ k \in Keys(u) /\ u.time = t.time

(* What a process has flushed is not taken for older than what it read at  *)
(* its start: the compaction of level 0 changes no answer it gives from a  *)
(* table of its own, unless a second table has the same timestamp.  Whole  *)
(* files that a start reads may be older than deeper ones and must lose;   *)
(* nothing is said of these.                                               *)
FlushedWins ==
  [][MergeLevel0 => \A k \in Key, i \in DOMAIN level0 :
       AnswersWithFlushed(k, i) /\ ~Tied(k, level0[i]) =>
         Visible(k)' = Visible(k)]_persistVars

(* A put updates its pair, says its comment, and a compaction takes        *)
(* nothing of that back.  init goes on with the largest timestamp it has   *)
(* read, not with the one after it, so the first flush of a process ties   *)
(* with the newest tables it has read, and the sort by smallest key lets   *)
(* the old value win.                                                      *)
FlushedAlwaysWins ==
  [][MergeLevel0 => \A k \in Key, i \in DOMAIN level0 :
       AnswersWithFlushed(k, i) => Visible(k)' = Visible(k)]_persistVars

(* A store that is opened again may have lost flushed data (the table of   *)
(* the first flush has no file, and init removes what it reads), but it    *)
(* answers for no key with what has been overwritten or deleted since:     *)
(* compactLevel0 deletes the files of level 0, as its comment says, and no *)
(* other file outlives what replaced it.                                   *)
StartRevivesNothing ==
  Idling /\ job = Idle =>
    \A k \in Key : AfterStart!Visible(k) \in {Visible(k), NotFound}

----------------------------------------------------------------------------
(* The inductive invariant behind the properties of files.  While a call   *)
(* runs, the files of a level below level 0 together with the operations   *)
(* still to do come to what FilesMatchLevels says of the files at the end  *)
(* of the call: what a file holds is looked at as a pair of its number and *)
(* its table.                                                              *)
Level(l) == IF l \in DOMAIN deeper THEN deeper[l] ELSE {}

FilesOf(d, l) == IF l \in DOMAIN d THEN d[l] ELSE Nothing

Doomed(ops, l) == {o.number : o \in {p \in ops : p.op = "rmfile" /\ p.level = l}}

Unwritten(ops, l) == {o \in ops : o.op = "write" /\ o.level = l}

Unmade(ops) == {o.level : o \in {p \in ops : p.op = "mkdir"}}

FilePairs(d, ops, l) ==
  {<<n, FilesOf(d, l)[n]>> : n \in DOMAIN FilesOf(d, l) \ Doomed(ops, l)}
    \cup {<<o.number, o.table>> : o \in Unwritten(ops, l)}

(* At the end there is one file for each table of S, and no write on the   *)
(* way replaces a file or takes the number of another one.                 *)
FilesSettle(d, ops, l, S) ==
  /\ {pair[2] : pair \in FilePairs(d, ops, l)} = S
  /\ \A p, q \in FilePairs(d, ops, l) : p[2] = q[2] => p[1] = q[1]
  /\ \A o \in Unwritten(ops, l) :
       /\ o.number \notin DOMAIN FilesOf(d, l) \cup Doomed(ops, l)
       /\ \A p \in Unwritten(ops, l) : o.number = p.number => o = p

(* At the end the directories are those of ds and perhaps that of level 0; *)
(* every write finds its directory.                                        *)
DirsSettle(d, ops, ds) ==
  /\ ds = (DOMAIN d \cup Unmade(ops)) \ {0}
  /\ Unmade(ops) \cap DOMAIN d = {}
  /\ \A o \in ops : o.op = "write" => o.level \in DOMAIN d \cup Unmade(ops)

(* No operation is to be done twice, and a directory is made before all    *)
(* else.                                                                   *)
TodoOrdered ==
  /\ \A i, j \in DOMAIN todo : todo[i] = todo[j] => i = j
  /\ \A i \in DOMAIN todo : todo[i].op = "mkdir" => i = 1
  /\ RmrfAll \in Range(todo) => todo = <<RmrfAll>>

CallEndsWithFiles ==
  IF RmrfAll \in Range(todo)
  THEN dirs = {} /\ \A l \in 1 .. MaxLevel : Level(l) \subseteq loaded[l]
  ELSE /\ DirsSettle(disk, Range(todo), dirs)
       /\ \A l \in 1 .. MaxLevel :
            FilesSettle(disk, Range(todo), l, Level(l) \ loaded[l])

(* What is about to be written counts, too.                                *)
Dated(time) ==
  /\ \A t \in Level0Tables : t.time <= time
  /\ \A l \in DOMAIN deeper : \A t \in deeper[l] : t.time <= time
  /\ \A l \in DOMAIN disk : \A n \in DOMAIN disk[l] : disk[l][n].time <= time
  /\ \A o \in Range(todo) : o.op = "write" => o.table.time <= time

FilesInv ==
  /\ PersistTypeOK
  /\ AllComparable
  /\ JobHasTables
  /\ LevelsFinite
  /\ Len(deeper) <= MaxLevel
  /\ \A l \in 1 .. MaxLevel : loaded[l] \subseteq Level(l)
  /\ TodoOrdered
  /\ IF up THEN Dated(timeId) /\ CallEndsWithFiles
     ELSE todo = <<>> /\ job = Idle /\ dirs = {}

(* A table this process has flushed is not older than what lies below it   *)
(* or before it in level 0.                                                *)
FlushedIsNewest ==
  \A i \in DOMAIN level0 : level0[i] \notin loaded[0] =>
    /\ \A j \in DOMAIN level0 : j < i => level0[j].time <= level0[i].time
    /\ \A l \in DOMAIN deeper : \A t \in deeper[l] : t.time <= level0[i].time

PersistInv == FilesInv /\ FlushedIsNewest
=============================================================================
