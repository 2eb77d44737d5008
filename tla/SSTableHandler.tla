--------------------------- MODULE SSTableHandler ---------------------------
(***************************************************************************)
(* The tree of sorted string tables kept by class SSTableHandler           *)
(* (src/src/sstable/SSTableHandler.cc), in memory and without restarts:    *)
(* adding the table of a flushed MemTable, the compaction of level 0, the  *)
(* recursive compaction of deeper levels, look-ups and reset.              *)
(*                                                                         *)
(* The call convertMemTableToSSTable is one action per compaction it runs: *)
(* AddTable, then CompactLevel0 when level 0 is too long, then Compact(l)  *)
(* for each level left too long.  `job` says which compaction the running  *)
(* call has to do next.                                                    *)
(***************************************************************************)
EXTENDS SSTable, Sequences

CONSTANTS
  Level0Max,   \* most tables level 0 keeps (2)
  MaxLevel,    \* bound: the deepest level an instance may reach
  LevelMax,    \* most tables level l keeps, 1 << (l + 1), for l \in 1 .. MaxLevel
  MaxTime      \* bound: the most tables that are ever flushed

ASSUME LevelAssumption ==
  /\ Level0Max \in Nat \ {0}
  /\ MaxLevel \in Nat \ {0}
  /\ LevelMax \in [1 .. MaxLevel -> Nat]
  /\ MaxTime \in Nat

VARIABLES
  level0,   \* sstables[0], oldest table first
  deeper,   \* deeper[l] = sstables[l], as a set: the code keeps it sorted by Before
  timeId,   \* the timestamp of the next table
  job,      \* the level to compact next, or Idle
  dirs      \* the levels below level 0 whose directory exists

treeVars == <<level0, deeper, timeId, job, dirs>>

Idle == -1

TreeTypeOK ==
  /\ level0 \in Seq(Table)
  /\ deeper \in Seq(SUBSET Table)
  /\ timeId \in Nat
  /\ job \in {Idle} \cup 0 .. MaxLevel
  /\ dirs \subseteq 1 .. MaxLevel

TreeInit ==
  /\ level0 = <<>>
  /\ deeper = <<>>
  /\ timeId = 0
  /\ job = Idle
  /\ dirs = {}

Level0Tables == Range(level0)

----------------------------------------------------------------------------
(* Look-ups.                                                               *)

NotFound == [off |-> -1, live |-> FALSE]

Level0Hits(k) == {i \in DOMAIN level0 : Stops(level0[i], k)}

LevelHits(k) == {l \in DOMAIN deeper : \E t \in deeper[l] : Stops(t, k)}

(* Level by level, in each level the newest table first; the first table   *)
(* that takes the key for its own decides.                                 *)
LookupOldestFirst(k) ==
  IF Level0Hits(k) # {} THEN ItemOf(level0[Min(Level0Hits(k))], k)
  ELSE IF LevelHits(k) # {}
       THEN ItemOf(Youngest({t \in deeper[Min(LevelHits(k))] : Stops(t, k)}), k)
       ELSE NotFound

Lookup(k) ==
  IF Level0Hits(k) # {} THEN ItemOf(level0[Max(Level0Hits(k))], k)
  ELSE IF LevelHits(k) # {}
       THEN ItemOf(Youngest({t \in deeper[Min(LevelHits(k))] : Stops(t, k)}), k)
       ELSE NotFound

(* The answer of SSTableHandler::get up to reading the log: vlen 0 is the  *)
(* same answer as "no table has the key".                                  *)
Visible(k) == IF Lookup(k).live THEN Lookup(k) ELSE NotFound

----------------------------------------------------------------------------
(* Compaction.                                                             *)

(* Level l when it has n tables: compact it next, or the call is over.     *)
CascadeOneTooLate(l, n) == IF n > LevelMax[l] + 1 THEN l ELSE Idle

Cascade(l, n) == IF n > LevelMax[l] THEN l ELSE Idle

(* sstables.push_back({}) when level l does not exist yet.                 *)
WithLevel(l) == IF Len(deeper) < l THEN Append(deeper, {}) ELSE deeper

AddTable(items) ==
  /\ job = Idle
  /\ timeId < MaxTime
  /\ level0' = Append(level0, [time |-> timeId, items |-> items])
  /\ timeId' = timeId + 1
  /\ job' = IF Len(level0') > Level0Max THEN 0 ELSE Idle
  /\ UNCHANGED <<deeper, dirs>>

(* The tables of level l that meet the key interval of `moved`.            *)
Met(moved, l) == Meeting(WithLevel(l)[l], moved)

(* The tables made of `items` for level l; a level that did not exist is   *)
(* the last one.                                                           *)
Made(items, l, time) == BuildTables(DropDead(items, Len(deeper) < l), time)

(* compactLevel0: all of level 0 and the tables of level 1 that meet its   *)
(* key interval are merged, newest timestamp last.                         *)
CompactLevel0 ==
  LET met  == Met(Level0Tables, 1)
      all  == met \cup Level0Tables
      next == (WithLevel(1)[1] \ met) \cup Made(MergeItems(all), 1, YoungestTime(all))
  IN  /\ job = 0
      /\ level0' = <<>>
      /\ deeper' = [WithLevel(1) EXCEPT ![1] = next]
      /\ job' = Cascade(1, Cardinality(next))
      /\ dirs' = dirs \cup {1}
      /\ UNCHANGED timeId

(* The tables compact(l) takes from level l: the oldest beyond its limit.  *)
Excess(l) == Oldest(deeper[l], Cardinality(deeper[l]) - LevelMax[l])

(* compact(l): the excess of level l is merged over the tables of level    *)
(* l + 1 that meet its key interval.                                       *)
Compact(l) ==
  LET moved == Excess(l)
      met   == Met(moved, l + 1)
      items == Overlay(MergeItems(moved), MergeItems(met))
      next  == (WithLevel(l + 1)[l + 1] \ met) \cup Made(items, l + 1, YoungestTime(moved))
  IN  /\ job = l
      /\ l < MaxLevel
      /\ deeper' = [WithLevel(l + 1) EXCEPT ![l] = @ \ moved, ![l + 1] = next]
      /\ job' = Cascade(l + 1, Cardinality(next))
      /\ dirs' = dirs \cup {l + 1}
      /\ UNCHANGED <<level0, timeId>>

(* Both compactions give up when the directory of the target level is      *)
(* missing and mkdir fails: they have created the level and erased the     *)
(* tables they met from it, and have not touched the level above.  Then    *)
(* the caller of compactLevel0 still looks at level 1; compact(l) returns. *)
MkdirFails(l) ==
  LET moved == IF l = 0 THEN Level0Tables ELSE Excess(l)
      next  == WithLevel(l + 1)[l + 1] \ Met(moved, l + 1)
  IN  /\ job = l
      /\ l < MaxLevel
      /\ l + 1 \notin dirs
      /\ deeper' = [WithLevel(l + 1) EXCEPT ![l + 1] = next]
      /\ job' = IF l = 0 THEN Cascade(1, Cardinality(next)) ELSE Idle
      /\ UNCHANGED <<level0, timeId, dirs>>

CompactStep == CompactLevel0 \/ \E l \in 1 .. MaxLevel : Compact(l)

ResetTree ==
  /\ job = Idle
  /\ level0' = <<>>
  /\ deeper' = <<>>
  /\ dirs' = {}
  /\ UNCHANGED <<timeId, job>>

TreeNext == ResetTree \/ CompactStep \/ \E items \in MemtableRuns : AddTable(items)

TreeSpec == TreeInit /\ [][TreeNext]_treeVars

(* The same with a file system on which mkdir may fail.                    *)
FaultyNext == TreeNext \/ \E l \in 0 .. MaxLevel : MkdirFails(l)

FaultySpec == TreeInit /\ [][FaultyNext]_treeVars

----------------------------------------------------------------------------
(* Properties.                                                             *)

(* Two tables of one level below level 0 never share a part of the key     *)
(* range, so that a look-up has one table per level to read: the promise   *)
(* of the comment on the output of both compactions.                       *)
LevelsDisjoint ==
  \A l \in DOMAIN deeper : \A t, u \in deeper[l] :
    t # u => LargestKey(t) < SmallestKey(u) \/ LargestKey(u) < SmallestKey(t)

(* Data only sinks: every table of level 0 is newer than its predecessors  *)
(* and than all deeper tables, no table of a level is older than one of a  *)
(* deeper level, and the next flush gets a timestamp newer than all.  The  *)
(* merges order tables by timestamp alone and rely on it.                  *)
AgeOrder ==
  /\ \A i, j \in DOMAIN level0 : i < j => level0[i].time < level0[j].time
  /\ \A i \in DOMAIN level0, l \in DOMAIN deeper : \A t \in deeper[l] :
       t.time < level0[i].time
  /\ \A l, m \in DOMAIN deeper : l < m =>
       \A t \in deeper[l], u \in deeper[m] : u.time <= t.time
  /\ \A i \in DOMAIN level0 : level0[i].time < timeId
  /\ \A l \in DOMAIN deeper : \A t \in deeper[l] : t.time < timeId

(* The shape of the tree between calls: only the level the running call is *)
(* about to compact may be too long, so a finished call leaves level 0     *)
(* with at most Level0Max tables and level l with at most LevelMax[l].     *)
LevelsWithinLimits ==
  /\ job # 0 => Len(level0) <= Level0Max
  /\ \A l \in DOMAIN deeper : job # l => Cardinality(deeper[l]) <= LevelMax[l]

(* The same with a mkdir that may fail: a finished call leaves a level too *)
(* long only above a level that a compaction has created and whose         *)
(* directory it could not make; the next compaction that can makes up for  *)
(* it.  Without failures there is no such level.                           *)
Unmakeable == DOMAIN deeper \ dirs

OverlongLevelsLackDirectory ==
  /\ job # 0 /\ 1 \notin Unmakeable => Len(level0) <= Level0Max
  /\ \A l \in DOMAIN deeper :
       job # l /\ l + 1 \notin Unmakeable => Cardinality(deeper[l]) <= LevelMax[l]

(* The inductive invariant behind LevelsDisjoint and AgeOrder: a level     *)
(* about to be compacted has tables to move, and a level that never got    *)
(* its directory is empty.                                                 *)
JobHasTables ==
  /\ job = 0 => level0 # <<>>
  /\ \A l \in 1 .. MaxLevel :
       job = l => l \in DOMAIN deeper /\ Cardinality(deeper[l]) > LevelMax[l]

LevelsFinite == \A l \in DOMAIN deeper : IsFiniteSet(deeper[l])

DirsMatch ==
  /\ dirs \subseteq DOMAIN deeper
  /\ \A l \in DOMAIN deeper : l \notin dirs => deeper[l] = {}

TreeInv ==
  /\ TreeTypeOK
  /\ JobHasTables
  /\ LevelsFinite
  /\ DirsMatch
  /\ LevelsDisjoint
  /\ AgeOrder

(* The tree implements the index: AddTable is its flush, and no compaction *)
(* changes what any look-up answers.                                       *)
Index == INSTANCE KeyIndex WITH index <- [k \in Key |-> Visible(k)], flushes <- timeId

IndexSpec == Index!Spec

(* The comment on the search of both compactions: the tables taken from    *)
(* the next level are those that intersect the key interval of the tables  *)
(* to compact.                                                             *)
Intersecting(moved, l) ==
  {t \in WithLevel(l)[l] :
     /\ SmallestKey(t) <= Max({LargestKey(u) : u \in moved})
     /\ LargestKey(t) >= Min({SmallestKey(u) : u \in moved})}

CompactionTakesIntersecting ==
  /\ job = 0 => Met(Level0Tables, 1) = Intersecting(Level0Tables, 1)
  /\ \A l \in 1 .. MaxLevel - 1 :
       job = l => Met(Excess(l), l + 1) = Intersecting(Excess(l), l + 1)
=============================================================================
