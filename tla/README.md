# Verification of the LSM-tree key-value store

TLA+ models, model-checking runs and machine-checked proofs for the key-value
store in this repository (`src/src`). Paths below are relative to the
verification root, so `src/src/core/kvstore.cc` is the repository's
`src/core/kvstore.cc`.

## 1. The system

One process, one thread. `README.md` of the repository speaks of a write-ahead
log and of compaction as if they ran on their own; in the code every
compaction runs inside the `put` or `gc` call that makes a table, and the log is
a value log that no start replays.

| Component | State | Operations | Interacts with |
|---|---|---|---|
| `KVStore` (`core/kvstore.cc`) | MemTable, `SSTableHandler` | `put`, `get`, `del`, `reset`, `scan`, `gc` | calls the other two; `gc` calls `put` |
| `MemTable`/`SkipList` (`memtable/`) | keys to strings, at most 408 | `put`, `get`, `scan`, `getList`, `clean` | turned into a table when full |
| `SSTableHandler` (`sstable/SSTableHandler.cc`) | levels of tables, next timestamp, the log's stream | `convertMemTableToSSTable`, `compactLevel0`, `compact`, `get`, `getOffset`, `scan`, `reset`, `init` | appends to the log, writes and deletes files |
| `SSTable` (`sstable/sstable.cc`) | timestamp, sorted `(key, offset, vlen)` | `getOffset`, `scanOffset`, `output` | Bloom filter |
| Bloom filter (`utils/bloomFilter.cc`) | bits per table | `gen_bloom_filter`, `check_bloom_filter` | MurmurHash3 |
| Value log (`vlog/vLog.cc`) | file of `(magic, crc, key, vlen, value)` | `append`, `getEntry`, `isValidEntry`, `get` | one stream shared by all calls |
| Utilities (`utils/utils.h`) | the file system | `mkdir`, `rmfile`, `de_alloc_file`, `seek_data_block` | |

What makes it hard:

* **Order.** Which value of a key is current is decided by the position of
  tables in levels and by timestamps, and compaction moves both.
* **Deletions** are items with `vlen` 0 that must shadow older values until
  these are gone.
* **`gc`** moves values while it scans them, with `put`, flushes and
  compactions in between, and then releases a part of the log that tables
  pointed into a moment ago.
* **Failures**: a `mkdir` that fails in the middle of a compaction, an
  `fallocate` that fails, a stream whose `failbit` is never cleared.
* **Special values**: the empty string, `"~DELETED~"`, `INT64_MAX`, offset 0,
  and keys that do not fit an `int`.
* **Restarts**: what is on disk is not what is in memory; a process may end
  between any two operations on files.
* **Searches**: off-by-one errors in two binary searches, in the links of a skip
  list, and in the walk through a log whose values may look like entries.

What makes each part correct: the tree answers for a key what was flushed last
for it (`IndexSpec`), its levels are free of overlaps (`LevelsDisjoint`), data
only sinks (`AgeOrder`) and levels keep their size (`LevelsWithinLimits`, and
`OverlongLevelsLackDirectory` when a `mkdir` may fail); the
store is the map of `kvstore_api.h` (`MapSpec`, `PutDelTakeEffect`), tables never
point into released log (`PointersValid`, `GcProgress`), calls end
(`CallsEnd`), a scan has the answers of `get` in its list (`ScanHalvesHoldAnswers`);
files and levels agree (`FilesMatchLevels`), what a process has flushed is not taken
for older than what it read at its start (`FlushedWins`) and a process that ends in
the middle of a compaction or a garbage collection loses nothing by it
(`CrashLosesNothingMore`, `ReleasedIsUnneeded`); the skip list is an ordered map
(`LevelsLinked`, `CallsTakeEffect`), the searches find what is there
(`GetCorrect`, `ScanCorrect`), and the file of the log is a queue of entries
(`ScanAligned`, `QueueSpec`).

The headers of the repository disagree with the `.cc` files in places
(`std::vector<SSTable*>`, two values of `MEMTABLE_THRESHOLD`, `vLogEntry`
without the constructors and the checksum the `.cc` files use); the `.cc` files
are taken for the implementation.

## 2. Modules

| Module | Models | Needs |
|---|---|---|
| `SSTable` | tables, look-up in one table, the arithmetic of a compaction; no state | community modules |
| `KeyIndex` | what a caller may rely on from the tree (abstract) | `SSTable` |
| `SSTableHandler` | the tree in memory | `SSTable`; implements `KeyIndex` |
| `KVMap` | `kvstore_api.h` as one map (abstract) | |
| `KVStore` | MemTable, value log, `put`/`get`/`del`/`reset`/`gc` over the tree | `SSTableHandler`; implements `KVMap` |
| `KVScan` | `scan` over the state of `KVStore` | `KVStore` |
| `Persistence` | the tree with its files, the end of the process, `init` | `SSTableHandler` |
| `DurableStore` | the store, its log and its files together, through ends and starts | `KVStore`, `Persistence` |
| `ListKeys` | the assumption on keys the MemTable and its tables share | |
| `MemMap` | what the MemTable promises (abstract): the function `KVStore` has | |
| `SkipList` | the nodes and pointers under the MemTable | implements `MemMap` |
| `TableSearch` | the three loops of the binary searches over one table | |
| `MemTableFlush` | a skip list turned into a table and then searched | `SkipList`, `TableSearch` |
| `ValueLog` | the log as a queue of entries (abstract): what `KVStore` has | |
| `VLogFile` | the log as a file with pages, `gc`'s search and walk | implements `ValueLog` |
| `*_proofs` | lemmas and theorems about `SSTable`, `SSTableHandler`, `KeyIndex`, `KVStore` with `KVScan`, `Persistence`, `TableSearch`, `SkipList` with `MemTableFlush` (`MemTable_proofs`), `VLogFile` | TLAPS |
| `MC*` | values of the constants for TLC | |

### `SSTable`

A table is `[time, items]`; `items` is a function from keys to
`[off, live]`, the offset in the log and whether `vlen` is not 0. Header fields
(`pairNum`, `smallestKey`, `largestKey`, the filter) are computed from the items
whenever the code builds a table, so they are operators. `Before` is the
comparison of every `std::sort` of tables; since the code keeps every level
below level 0 sorted by it, such a level is a *set* here, and "the last",
"the first n" are `Youngest` and `Oldest`. `AsInt` is what `int j =
getSmallestKey()` compared with a `uint64_t` does to a key. `Stops` is "the table
answers for this key", which is also so for the sentinel `INT64_MAX`.
The Bloom filter is a set of positions per key (`Hash`), arbitrary but for
being a function; instances let keys collide.

### `SSTableHandler`

| Variable | Code |
|---|---|
| `level0` | `sstables[0]` (a sequence, in order of flushes) |
| `deeper` | `sstables[1..]` |
| `timeId` | `timeId` |
| `job` | the compaction the running call does next: 0, a level, or `Idle` |
| `dirs` | which level directories exist |

`convertMemTableToSSTable` is `AddTable` followed by `CompactLevel0` when level 0
has more than `Level0Max` tables, then `Compact(l)` for each level left over its
limit, as the recursion in the code does. `MkdirFails(l)` is the early return of
either compaction. `ResetTree` is `reset`. `TreeSpec` has no failing `mkdir`,
`FaultySpec` has, and so has `MCSpec` of the run, where the one for level 1 fails
only while level 0 is one table too long. `LevelMax` is a parameter, so that short runs reach level 3; the
code's limits are those of `MCSSTableHandler!CodeLevelMax`, and the theorems hold
for all.

### `KVStore`

`memtable`, `log` (entries, an offset counts the entries before it), `hole`
(entries released), `streamOk` (no `failbit`), and the position of the running
call: `pc`, `gcPos` (`offset`), `gcLeft` (`chunk_size - scan_size`). `Put`, `Del`,
`Reset` and `GcStart` are what a client may call; `Compaction`, `Clean`,
`GcEntry`, `GcNoEntry`, `GcFinish`, `GcEnd` carry a call on. `get` and `scan`
change nothing and are operators; `KVScan` has `scan`, whose list is given by the
order in which tables are visited (`VisitedBefore`) and by the stable sort by key
(`ListedBefore`). `ScanHalvesHoldAnswers` says where in the two halves of the list, the
tables' and the MemTable's, the answer of `get` is; a caller does not see the border
between them (see the known divergences). `ReadItem` leaves out what `get` prints for key 1
and a value of two blanks (`SSTableHandler.cc:132-142`): it reads 32 bytes from the
start of the log, which changes nothing unless the log is shorter than that, and would
then set `failbit`. Choices left open: `fallocate` may fail, and a
read beyond the log yields a key and a length nobody has set. `gc` starts
at the first entry left; the search for a page and a magic byte that finds it is
one step.

`KVSpec` lets clients do anything. `CarefulSpec` keeps clear of the two defects
of `gc` described below, to show that nothing else is wrong; `NoOvershootSpec`
keeps clear of one.

### `Persistence`

The state of `SSTableHandler` and

| Variable | Code |
|---|---|
| `disk` | the level directories and the tables in their numbered files |
| `todo` | the operations on files the running call still has to make, in order |
| `loaded` | for each level, level 0 included, the tables `init` has read: their `filename` has no directory |
| `up` | a process has the store open |

A flush, a compaction or a reset changes the tree and leaves its `mkdir`s, writes
and removals in `todo`; `FileStep` makes the next one and `Crash` may come before
any. `Start` is the constructor: `init` and `input`. The code's peculiarities are
in the model: the table of the first flush and the one that makes level 0 too
long are not written, the files of level 0 are removed under names they do not
have, tables read by `init` cannot be removed by name, `init` goes on with the
largest timestamp it has read and then removes the whole directory, and it dies
on a directory without files when it has read none before.

A start uses a timestamp a second time: `init` keeps the largest it has read, and
the next flush gets that one. Two tables that differ neither in timestamp nor in
smallest key have no order for `std::sort`; `AllComparable` leaves such states out. Tables
that have a timestamp in common and differ in the smallest key are in the model, sorted
as the code sorts them (`Before`, `Sorted`): the one with the larger smallest key counts as
the newer. That is wrong for the first flush of a process, which `FlushedAlwaysWins` and the
run `restart_ties` show. `FlushedWins` says that without a tie (`Tied`) the compaction of
level 0 changes no answer that level 0 gives from a table of this process
(`AnswersWithFlushed`). It is about that compaction because it orders tables of two
levels by their timestamps alone; `compact` lays what it moves over what it meets.
`CrashLosesNothingMore` leaves out the keys (`TiedKeys`) for which two files have one
timestamp (see the known divergences).

### `DurableStore`

Every step of `KVStore` conjoined with what it does to the files (`OnFiles`);
a call goes on only when `todo` is empty. The log outlives the process
(`convertMemTableToSSTable` flushes the stream before it makes the table), the
MemTable and `failbit` do not. `DurableSpec` has clients that stay clear of
the two defects of `gc`. `reset` removes the log before the directory of the tables;
a process that ends in between leaves tables that point behind the end of the
next log, and a read of such an item (`FailingGet`) sets `failbit`.
`ReleasedIsUnneeded` compares the files with the process as if `compactLevel0` deleted
the files it means to delete (`AfterCleanStart`), because those that stay are a
defect of their own (`restart_revives`).

### `SkipList`, `TableSearch`, `MemTableFlush`

`forward[n]` are the pointers of node `n`, one per level; `Update` is the array
`update` that `put` and `del` collect on the way down. A call is one action, the
height of a new node any from 1 to `MaxHeight`. `TableSearch` has one action per
pass of a loop of `getOffset` and `scanOffset`, with `left`, `right` and `mid` as in the
code. `MemTableFlush` fills a list, flushes it as `convertMemTableToSSTable` does
and searches the table. `KVStore`'s variable `memtable` is the function of
`MemMap`, and the items of `SSTable` are the tuples these searches find.

### `VLogFile`

A file is a sequence of units: a zero, a byte of a value, or the 15 bytes before
a value, which are one unit. `data` are the pages that are not holes (what
`SEEK_DATA` finds), `placed` the entries with the offsets given to the tables,
`start`, `pos`, `scanned`, `chunk` the variables of `gc`. `DeAlloc` has the rounding of
`de_alloc_file`; `FileWith` is the file after each entry a flush appends (at most
`MaxBatch`); `Punch` is `fallocate`, which frees whole pages and writes zeros
into the rest. Values may contain units that look like entries. The queue of
`ValueLog` has the variables `log`, `hole`, `streamOk` and `gcPos` of `KVStore` with
the same meaning.

## 3. Runs

| Run | Specification and instance | Checks | Result |
|---|---|---|---|
| `tree` | `MCSpec` (`TreeSpec` with failing `mkdir`s), keys 0, 1, 3, tables of up to 2, one table per level, 6 flushes | `TreeTypeOK`, `LevelsDisjoint`, `AgeOrder`, `OverlongLevelsLackDirectory`, `TreeInv`, `IndexSpec` | hold |
| `store` | `CarefulSpec`, 2 keys, 2 values, 4 flushes, log of 5 entries | `PointersValid`, `GcProgress`, `ScanHalvesHoldAnswers`, `KVInv`, `MapSpec`, `PutDelTakeEffect` | hold |
| `store_anyclient` | `FairKVSpec` | `KVTypeOK`, `CallsEnd` | hold |
| `files` | `PersistSpec`, keys 0, 1, 3, tables of up to 2, one table in level 0, timestamps up to 4 | `PersistTypeOK`, `FilesMatchLevels`, `FlushedWins`, `PersistInv`, `CrashLosesNothingMore` | hold |
| `crash_gc` | `DurableSpec`, 2 keys, tables of up to 2, log of 4 entries, timestamps up to 4 | `ReleasedIsUnneeded` | holds |
| `memtable` | `FlushSpec`, 4 keys, 2 values, heights 1 and 2 | `SearchTypeOK`, `ListTypeOK`, `LevelsLinked`, `SizeCounts`, `ScansAscend`, `SearchBounds`, `GetCorrect`, `ScanCorrect`, `CallsTakeEffect`, `FlushKeepsPairs`, `SearchEnds` | hold |
| `log_file` | `VLogSpec`, pages of 2 units, file of 10, entries of 1, 2 and 3 units | `VLogTypeOK`, `ScanAligned`, `VLogInv`, `GcRecycles`, `QueueSpec`, `GcEnds` | hold |
| `tree_intkeys` | `TreeSpec`, keys beyond `int` | `CompactionTakesIntersecting` | violated |
| `store_tombstone` | `NoOvershootSpec` | `GcDiscardsInvalid` | violated |
| `store_overshoot` | `KVSpec` | `GetReturnsValues` | violated |
| `restart_revives` | `PersistSpec` | `StartRevivesNothing` | violated |
| `restart_ties` | `PersistSpec`, keys 0, 1, 3, tables of up to 2 | `FlushedAlwaysWins` | violated |

`IndexSpec`, `MapSpec` and `QueueSpec` are refinements: the detailed
specification implements `KeyIndex`, `KVMap` and `ValueLog`. `CallsTakeEffect`
says the same of the skip list and `MemMap`, call by call.

### Bounds

* `MaxTime` (timestamps), `MaxLog` (log entries), `MaxUnits` (units of the log file), `MaxBatch` (entries of one flush in it),
  `MaxChunk` (what one `gc` is asked for) and `MaxLevel` bound the instances. `Room`
  starts a call only when the instance can hold all it may add, so no call is
  stuck half-way for want of room.
* With one table allowed per level, six flushes compact level 0 again and again,
  create levels 1 to 4 and merge into each of them; tables of up to two of
  three keys overlap in part, and outputs are cut into several tables. Deletions,
  overwriting and absent keys occur on every level. Keys 1 and 3 share their
  filter position, so the filters have false positives.
* In the store runs a MemTable holds two keys, so a `gc` may flush in the middle
  of its scan and once more at its end; the log of five entries lets a second `gc`
  start behind the part a first one has released.
* `restart_revives`, `restart_ties` and `crash_gc` keep the code's two tables in level 0;
  `files` has one, so that its four timestamps go through several compactions. The
  number of ends and starts is not bounded, and every start uses a timestamp again:
  with tables of two keys, tables of one timestamp that share a key and are sorted by
  their smallest keys do occur. The properties of `files` also hold with two tables in
  level 0, and with six timestamps, two tables in level 0 and tables of one key (checks not
  among the runs); `FlushedDataWins` proves `FlushedWins` for all bounds.
* `crash_gc` has a log of four entries and timestamps up to 4: two flushes by the
  client and a third by `gc`, which compacts level 0, with an end of the process before
  any of the operations on files, and the calls of the next process on what is left.
  It also holds with one table in level 0, so that four flushes compact it twice (a
  check too long to be among the runs).
* In `log_file` entries lie across pages, several share a page, and one is longer
  than a page and ends in the image of another; `gc` runs several times over what
  earlier ones have left.
* `memtable` has the sentinel among the keys (key 2), so `GetCorrect` also says what
  an absent sentinel looks like; `MaxHeight` 2 makes nodes differ in height.
* `tree_intkeys` gives `int` four non-negative values and `uint64_t` 32.

Deadlock is not checked: a client may stop calling at any time, and the bounds
stop it.

### Fairness

A call or loop that has been started goes on, because the process is
single-threaded and its loops do not block: `WF_vars(CallStep)` in `FairKVSpec`,
`WF(SearchOnly)` in `FlushSpec`, `WF(GcStep)` in `VLogSpec`. Nothing is assumed of
clients, and no crash is assumed to happen or not to happen.

### What the violated properties show

1. `store_tombstone`: a deletion has offset 0 in the tables, and the first entry
   of the log is at offset 0; `gc` takes the entry for current and puts the
   deleted value back.
2. `store_overshoot`: `gc` with a `chunk_size` beyond what the log has left reads
   past its end; `failbit` of the only stream stays set, and reads answer
   blanks until `reset`.
3. `tree_intkeys`: keys from 2^31 on lose bits in the key interval of a
   compaction, which then takes other tables of the next level than its comment
   says; levels then overlap, and a level may hold two tables with the same
   timestamp and smallest key, whose order `std::sort` leaves open.
4. `restart_revives`: the files of level 0 are removed under names without their
   suffix, stay, and hide after a restart what was written over them: a deleted
   key comes back.
5. `restart_ties`: an update is lost. In the trace a process flushes two tables, the
   second, (1, {1}) of timestamp 1 and key 1, into a file, and ends. The next one
   reads it, keeps 1 as its clock, and flushes (1, {0, 1}); a third table makes
   level 0 too long. `compactLevel0` sorts the two tables of timestamp 1 by their
   smallest key and lets the last one win: key 1 gets back what it had before
   the restart. The same happens with a deeper table that has the largest timestamp
   on disk, as (1, {1, 3}) in level 1.

Known divergences without a run, on restarts: the table of the first flush is never
written, and `init` deletes the files it has read, so flushed data may be gone after
one start or two; a process that ends between making its first level directory
and writing the first file leaves a store that no start can open, because `init`
then indexes an empty vector; a process that ends inside `reset` leaves tables whose
log is gone, and `get` answers blanks. The models contain all three (`FirstFlush`,
the guard of `Start`, `FailingGet`). `compact(l)` gives its output the newest timestamp
of the tables it moves, which a table it meets in the next level may have as well; a
process that ends before that one's file is deleted leaves both files, and the
next start puts the one with the larger smallest key last, old or new. Eight flushes of
the keys {1,3}, {1,3}, {0}, {0}, {0,1}, {2,3}, {0}, {0}, with one table in level 0 and
tables of two keys, lead there. The runs `files` and `crash_gc` do not say anything
of such keys: `files` leaves them out (`TiedKeys`), `crash_gc` has too few flushes. What a
process has read and not rewritten in a compaction is lost when it ends, because `init`
has removed the files; `CrashLosesNothingMore` says nothing of such keys either.

On a running store: `put(k, "")` leaves the value `k` has in the
tables; for the key `INT64_MAX` a table in whose range and filter it falls answers
even without it; deletions that reach the last level later are kept there.

`scan` is not what `kvstore_api.h` and the comment on it promise (`kvstore.cc:73-77`: all
pairs between the keys, keys ascending, the empty string for not found). Its list has
a pair for every table that holds a key, then, from the smallest key again, the
pairs of the MemTable: keys repeat, with values that were overwritten, deletions
appear as empty strings from the tables and as `"~DELETED~"` from the MemTable, and keys
do not ascend across the border of the halves. Nor can a caller repair it: after
`put(1, b)`, a flush, `put(1, a)` and another flush the list of `scan(1, 1)` is
`(1, a), (1, b)` and `get(1)` answers `a`; after `put(1, a)`, a flush and
`put(1, b)` the list is the same and `get(1)` answers `b`.
`ScanHalvesHoldAnswers` holds because it is told where the tables' half ends.

## 4. Proofs

Checked by `tlapm`, in the eight modules `*_proofs`. The first column is the module
without that ending.

| Module | Theorem | States |
|---|---|---|
| `SSTableHandler` | `FaultyTreeInvariant` | `FaultySpec => []TreeInv` |
| | `TreeInvariant` | `TreeSpec => [](TreeTypeOK /\ LevelsDisjoint /\ AgeOrder /\ LevelsWithinLimits)` |
| | `LimitsSurviveFailures` | `FaultySpec => []OverlongLevelsLackDirectory` |
| | `TreeTypeCorrect`, `LevelsStayDisjoint`, `DataOnlySinks`, `LevelsKeepTheirLimits` | the same, one invariant each |
| | `CompactionsTakeIntersecting` | `TreeSpec => []CompactionTakesIntersecting` |
| `KeyIndex` | `TreeImplementsIndex` | `(TreeSpec => IndexSpec) /\ (FaultySpec => IndexSpec)` |
| `KVStore` | `StoreInvariant` | `CarefulSpec => []KVInv` |
| | `StoreTypeCorrect`, `ItemsNeverDangle`, `GcLeavesNothingBehind` | `KVTypeOK`, `PointersValid`, `GcProgress` under `CarefulSpec` |
| | `StoreImplementsMap` | `CarefulSpec => MapSpec` |
| | `PutsAndDelsTakeEffect` | `CarefulSpec => PutDelTakeEffect` |
| | `StoreUsesTree` | `CarefulSpec => IndexSpec /\ [](LevelsDisjoint /\ AgeOrder /\ LevelsWithinLimits)` |
| | `GetsReturnValues`, `GcRevivesNothing` | `GetReturnsValues`, `GcDiscardsInvalid` under `CarefulSpec` |
| | `AnyClientTypeCorrect` | `KVSpec => []KVTypeOK` |
| | `ScansHoldAnswers` | `KVSpec => []ScanHalvesHoldAnswers` |
| `Persistence` | `PersistInvariant` | `PersistSpec => []PersistInv` |
| | `PersistTypeCorrect`, `FilesAlwaysMatch` | `PersistTypeOK`, `FilesMatchLevels` under `PersistSpec` |
| | `FlushedDataWins` | `PersistSpec => FlushedWins` |
| `TableSearch` | `SearchTypeCorrect`, `SearchesStayInside` | `SearchSpec => []SearchTypeOK`, `SearchSpec => []SearchBounds` |
| | `GetIsCorrect`, `ScanIsCorrect` | `SearchSpec => []GetCorrect`, `SearchSpec => []ScanCorrect` |
| `MemTable` | `ListTypeCorrect`, `LevelsStayLinked`, `SizeIsRight`, `ScansAreComplete` | `ListTypeOK`, `LevelsLinked`, `SizeCounts`, `ScansAscend` under `ListSpec` |
| | `ListImplementsMap` | `ListSpec => CallsTakeEffect` |
| | `FlushesAreComplete` | `FlushSpec => FlushKeepsPairs` |
| | `FlushedTablesAreSearched` | `FlushSpec => ListSpec /\ SearchSpec /\ [](GetCorrect /\ ScanCorrect)` |
| `VLogFile` | `LogFileInvariant` | `VLogSpec => []VLogInv` |
| | `LogFileTypeCorrect`, `ScansStayAligned` | `VLogTypeOK`, `ScanAligned` under `VLogSpec` |
| | `GcGivesBackPages` | `VLogSpec => GcRecycles` |
| | `LogFileIsQueue` | `VLogSpec => QueueSpec` |

### The tree

Assumptions: the named ones on constants (keys are `uint64_t` values, limits are
naturals, the threshold is positive, items have an offset and a flag), and
`KeysFitInt`, every key below 2^31. Without it `LevelsDisjoint` is
false, as `tree_intkeys` shows. `TreeImplementsIndex` also needs that the sentinel
of the binary search is no key: a table stops the look-up of the sentinel without
having it. (In the code the first implies the second, INT64_MAX being above
2^31; the constants are independent.) Everything else is arbitrary: the keys, the
filter positions, the threshold, the limits, the number of flushes and levels.

`LevelsDisjoint` is not inductive alone: that the output of a
compaction does not overlap what it leaves in the level needs that the tables
*not* selected lie outside the whole merged range. `UnselectedApart` shows that
they do: a table is not selected when it is outside the hull of the moved tables,
and it cannot lie inside a selected one because the level was disjoint. The
hull of nothing is undefined, so the invariant carries that a compaction has
tables to move (`JobHasTables`); counting them needs finite levels
(`LevelsFinite`). That `Oldest` is not empty, holds the oldest tables and leaves a
level at its limit is `OldestNonEmpty`, `OldestFirstMoved` and `OldestLeaves`
(a pigeonhole argument over ranks). `BuiltTables` shows that cutting the
merged keys into blocks gives disjoint tables holding exactly the merged items;
`MergedItems` that a merge takes each key from its newest holder, for which no
two holders may have one timestamp: in level 0 timestamps differ, below it a
level has one holder per key. `AgeOrder` follows since an output has the
timestamp of one of the moved tables. With a failing `mkdir` it matters that a
level without a directory is empty (`DirsMatch`): then no table is lost.

For `TreeImplementsIndex`, three lemmas say which table answers a look-up
(`FromLevel0`, `FromLevel`, `FromNowhere`) and two say when a step cannot change the
answer: the same tables hold the key before and after (`SameHolders`), or the step
settles the key in the first level that can still have it (`Settled`, which also
covers the deletion dropped in a new last level). The compaction of level 0 needs
`AgeOrder` here: the item its merge keeps is the newest by timestamp, the one a
look-up finds is the first by level, and only the order of ages makes them one.

### The store

`PlainData` adds that clients put neither `""` nor `"~DELETED~"`. Values, thresholds,
limits and the length of the log are arbitrary; the clients are those of
`CarefulSpec`, and the violated runs show what happens to others.

The inductive invariant is `KVInv`. A `gc` compares the offset a look-up gives
with the offset it scans, and a deletion has offset 0; so that a deletion is
never taken for the entry scanned, the invariant says that the deletions in all
tables are at offset 0 (`DeletionsAtZero`, kept by merges since these only
choose among items) and that `gc` stands at offset 0 only when the key there is
no deletion (`GcWindow`, from the condition of `CarefulSpec`, which the scan's
other steps cannot reach again). `GcWindow` also holds the account that keeps the
scan within the log and the log within its bound. `GcProgress` says that what
the tables place before the scan is in the MemTable; when the MemTable is
cleaned this must not be lost, which is `FlushedAgrees`: until then the tables
answer for its keys what it answers, with entries behind the scan.
`NewEntries` and `Offset` are tied together by `EntriesOfMemtable` and
`ItemsOfMemtable`: the entry at the offset of an item is the pair of its key, by the
ranks of keys (`RankTaken`). The compactions in the middle of a call change no
`Visible` by the refinement of the tree, which is why `StepOnTree` shows that the
store moves its tree only as `TreeSpec` allows. `NoGcNoEntry` shows that under
these clients `gc` never reads where there is no entry.

`CompactionsTakeIntersecting`, `GetsReturnValues` and `GcRevivesNothing` are about the
properties of three violated runs: with keys within `int`, and for the clients of
`CarefulSpec`, they hold, so the conditions the runs break are the only cause.

### Any client

`AnyClientTypeCorrect` and `ScansHoldAnswers` are about `KVSpec`: clients may put `""` and
`"~DELETED~"` and ask `gc` for more than the log has. Of `KVInv` there remains
`AnyClientInv`: the invariant of the tree, the types, the size of the MemTable, and
`GcHasRoom`, the account of what a running `gc` may still append. A `gc` that reads
behind the end makes entries with any key and an empty value; it counts them as
scanned, so that the room it was started with is still enough.

A scan lists tuples of a key and a place. `ListingOrders` shows that `ListedBefore` is a
strict total order on them: a deeper level has at most one table with a key, so that
a tuple is known by its key, its level and, in level 0, its index. In a finite set
with such an order the numbers of predecessors are 0, 1, ... (`AheadTaken`, a pigeonhole
argument), which says where in the list each tuple is. `FirstVisited` is the point:
the first tuple of a key is in the table in which a look-up stops, because the scan
visits tables in the order look-ups do and the sort is stable. Besides `KeysFitInt` this
needs that the sentinel is no key, as for the tree.

### Files and restarts

`PersistInvariant` needs no assumption on keys: levels may overlap. The invariant
`PersistInv` speaks of the middle of a call by what its files come to: the pairs of a
number and a table that the files *and* the operations in `todo` will leave
(`FilePairs`) are one for each table of the level that the process has made
(`FilesSettle`). An operation only moves a pair from `todo` to `disk` or removes one
that was doomed, so the set does not change (`OperationSettles`); a compaction changes
it as it changes the level (`Planned`, `CompactionPlan`). For this numbers must be
fresh (`LastNumber` is above all files, `LastNumberBounds`), no operation may occur
twice, and each write must find its directory (`DirsSettle`). A crash empties `todo` and
the tree, so nothing is to be shown of files then; a start counts what it has read
as `loaded`, for which the code finds no file. `AllComparable` is a part of `PersistInv` because `PersistSpec`
is restricted to such states; `SortedFacts` needs it.

`FlushedDataWins` does need `KeysFitInt`, and that the sentinel is no key, as for the
tree. `PersistInv` has two more parts for it. `Dated`: no table in memory, on disk or
about to be written is newer than the clock, so a flush is at least as new as all
of them, and newer than all but those with the timestamp of the start.
`FlushedIsNewest`: so it stays for a table of this process as long as it is in level 0
(`FlushKeepsNewest`, `MergeDownKeepsNewest`). Among the tables of the merge that hold a key without
a tie, the table of this process that answers for the key is then the only newest one
and its value is kept (`MergeKeepsFlushed`), in the one table of the output with the key, below which
`FromOnlyHolder` finds it although nothing is known of the order of ages or of overlaps
in a tree that was read from files.

### The MemTable

Assumption: keys are natural numbers, finitely many. `Along`, the walk of a call on
one level, is the function that a recursive equation defines. The function that takes
every node to the last one before the key solves the equation (`WalkExists`), and no
other does: of the nodes on which another would differ the greatest leads to a greater
one (`WalkUnique`). So the walk ends at the last node before the key (`AlongIsPred`), and
the array `update` holds these nodes on all levels (`UpdateIsPred`). `LevelsLinked` is restated one pointer at a time (`AllPointRight`): a
pointer leads to the first node of its level behind its own. `InsertLinks` and
`DelLinks` show that mending the pointers `update` names keeps this for every level,
and that `del` stops at the height of the node (`PointersTo`). `ReaderReads` is the
same for the walk along level 0 that `scan` and `getList` make. `FlushedTable` ties the
list to the searches: what `getList` delivers is a table they can work on.

### The searches

The inductive invariant `SearchInv` is the conjunction of the type invariant, of
`SearchBounds` and of the two statements about answers. `SearchBounds` carries the
argument: no position outside of `left` and `right` can hold what is looked for, and
between the loops of a range search the first bound found stays right. Tables and
keys are arbitrary; only their order matters.

### The file of the log

Assumptions: an entry begins with a unit that is no zero, and the page size is
positive; values are arbitrary and may contain images of entries. In `VLogInv` the
entries lie end to end from 0 to the end of the file (`Chained`), and for some `r` the
first `r` units are zeros, every entry from there on can be read and every hole lies
before `r` (`ReleasedUpTo`). `gc` starts at the first page that is not a hole, which is
at or before `r`; it passes zeros until `r` and stands on the entry there, so it meets
neither the inside of a value nor the rest of a released entry. From there it goes
from entry to entry, and its release makes its position the new `r`: `fallocate` frees
the whole pages and zeroes the rest (`ReleaseFrees`). The arithmetic of pages, which the
provers do not do by themselves, is in `PagesApart` and `PageOf`. For `QueueSpec`, the
entries that have been passed are an initial part of `placed` (`BeforeIsFirst`), so
that their number is the `hole` of the queue. `GcRecycles` is read off the positions:
a chunk of whole pages that starts at a page ends with whole pages passed.

### Only model-checked

* `CrashLosesNothingMore` and `ReleasedIsUnneeded`: what the next start makes of the files
  in the middle of a call. `PersistInv` says what the files come to, not what
  look-ups find in the tree that a start would load from half of them.
* `CallsEnd`, `SearchEnds`, `GcEnds`: liveness under fairness is beyond the prover.
* The tree for keys beyond `int`, where `LevelsDisjoint` is false.

## 5. Not modelled, and the plan

Not modelled, and why:

* Files and appends that are torn by a crash, and operations the disk reorders:
  the code checks nothing a model could follow. A file is written whole or not.
* Collisions of the checksum and of MurmurHash3: a value that looks like an
  entry *and* has its checksum is taken for one; `Hash` is an arbitrary function.
* The MemTable at a crash: it is lost, always. No property can hold of it.
* A `mkdir` that fails together with crashes; `SSTableHandler` has the failures,
  `Persistence` the crashes.
* The tests and the plotting tool.

Next, in this order:

1. `CrashLosesNothingMore` as a theorem: that the tree a start loads before and after an
   operation answers alike, from the order in which a compaction writes before it
   deletes.
2. `ReleasedIsUnneeded` from that and from `KVInv`.

## 6. Running

    tlc -config MCSSTableHandler.cfg MCSSTableHandler.tla
    tlc -config MCKVScan.cfg MCKVScan.tla
    tlc -config MCDurableStore.cfg MCDurableStore.tla
    tlapm KVStore_proofs.tla

Each run of `PROJECT.json` names its module and its `.cfg`.
