------------------------------ MODULE VLogFile ------------------------------
(***************************************************************************)
(* The file of the value log (src/src/vlog/vLog.cc) and how gc             *)
(* (src/src/core/kvstore.cc) finds its way through it: the pages of the    *)
(* file that still hold data, the search for the first entry in them, the  *)
(* walk from entry to entry and the release of what has been passed.       *)
(*                                                                         *)
(* The file is a sequence of units.  A unit is Zero, a byte of a value, or *)
(* the 15 bytes before a value, which are one unit here: magic, checksum,  *)
(* key and vlen.  The checksum covers key, vlen and value; it is taken to  *)
(* be free of collisions, so the unit simply has the value it belongs to.  *)
(* A value may contain any bytes, also those of such a unit.               *)
(***************************************************************************)
EXTENDS Integers, Sequences, FiniteSetsExt

CONSTANTS
  Entry,      \* the pairs [key, body]; a body is a sequence of units
  Zero,       \* a byte of a released part of the file
  Byte,       \* a byte of a value
  PageSize,   \* PAGE_SIZE, in units
  MaxBatch,   \* bound: the most entries one flush appends
  MaxUnits,   \* bound: the longest file
  MaxChunk    \* bound: the most units one gc call asks for

ASSUME FileAssumption ==
  /\ PageSize \in Nat \ {0}
  /\ MaxBatch \in Nat
  /\ MaxUnits \in Nat
  /\ MaxChunk \in Nat

VARIABLES
  file,       \* the file, as long as it ever was
  data,       \* the numbers of the pages that are not holes
  placed,     \* the entries appended, with the offsets given to the tables
  ok,         \* FALSE when failbit of sstables.vlogFile is set
  pc,         \* where the running gc is; "ready" when none runs
  chunk,      \* chunk_size
  start,      \* start_offset
  pos,        \* offset
  scanned     \* scan_size

fileVars == <<file, data, placed>>

gcVars == <<pc, chunk, start, pos, scanned>>

vars == <<fileVars, ok, gcVars>>

Unit == {Zero, Byte} \cup Entry

ASSUME EntryAssumption ==
  /\ Zero \notin Entry
  /\ \A e \in Entry : e.body \in Seq(Unit)

Placed == [off : Nat, entry : Entry]

VLogTypeOK ==
  /\ file \in Seq(Unit) /\ Len(file) <= MaxUnits
  /\ data \subseteq 0 .. Len(file)
  /\ placed \in Seq(Placed)
  /\ \A i \in DOMAIN placed : placed[i].off < Len(file)
  /\ ok \in BOOLEAN
  /\ pc \in {"ready", "search", "scan"}
  /\ chunk \in 0 .. MaxChunk
  /\ start \in Nat /\ pos \in Nat /\ scanned \in Nat

VLogInit ==
  /\ file = <<>> /\ data = {} /\ placed = <<>>
  /\ ok = TRUE
  /\ pc = "ready"
  /\ chunk = 0 /\ start = 0 /\ pos = 0 /\ scanned = 0

----------------------------------------------------------------------------
(* Entries in the file.                                                    *)

(* What an entry takes: vlen + 15.                                         *)
Size(e) == Len(e.body) + 1

Image(e) == <<e>> \o e.body

(* The entry that getEntry reads at an offset is there: its magic byte and *)
(* its checksum are right.                                                 *)
IsMagic(off) == off < Len(file) /\ file[off + 1] \in Entry

IsValidEntry(off) ==
  /\ IsMagic(off)
  /\ off + Size(file[off + 1]) <= Len(file)
  /\ SubSeq(file, off + 1, off + Size(file[off + 1])) = Image(file[off + 1])

(* The file after each of the entries of a batch.                          *)
FileWith(entries) ==
  LET after[i \in 0 .. Len(entries)] ==
        IF i = 0 THEN file ELSE after[i - 1] \o Image(entries[i])
  IN  after

(* The offsets of a batch: ss.tellp() + filePos before each entry.         *)
OffsetAfterEntry(entries, i) == Len(FileWith(entries)[i])

OffsetOf(entries, i) == Len(FileWith(entries)[i - 1])

(* vLog::append, called by a put that fills the MemTable or by gc; the     *)
(* deletions it skips are not in `entries`.  It writes nothing when the    *)
(* stream has failed.                                                      *)
AppendEntries(entries) ==
  /\ pc \in {"ready", "scan"}
  /\ ok
  /\ file' = FileWith(entries)[Len(entries)]
  /\ Len(file') <= MaxUnits
  /\ data' = data \cup {(p - 1) \div PageSize : p \in Len(file) + 1 .. Len(file')}
  /\ placed' = placed \o
       [i \in DOMAIN entries |-> [off |-> OffsetOf(entries, i), entry |-> entries[i]]]
  /\ UNCHANGED <<ok, gcVars>>

(* reset removes the file and opens a new one.                             *)
Reset ==
  /\ pc = "ready"
  /\ file' = <<>> /\ data' = {} /\ placed' = <<>>
  /\ ok' = TRUE
  /\ UNCHANGED gcVars

----------------------------------------------------------------------------
(* The file system.                                                        *)

(* seek_data_block; gc returns when there is no page.                      *)
SeekDataBlock == PageSize * Min(data)

(* fallocate frees the pages that lie wholly in the range from `off` to    *)
(* before `end`, and fills with zeros what else is in it.                  *)
Punch(off, end) ==
  /\ file' = [p \in DOMAIN file |-> IF off < p /\ p <= end THEN Zero ELSE file[p]]
  /\ data' = {n \in data : n * PageSize < off \/ (n + 1) * PageSize > end}

(* de_alloc_file rounds the offset down and lengthens the range by that.   *)
DeAllocWholePages(off, len) ==
  LET first == off \div PageSize IN
  Punch(first * PageSize, PageSize * ((off + len + PageSize - 1) \div PageSize))

DeAlloc(off, len) ==
  LET first == off \div PageSize IN
  Punch(first * PageSize, first * PageSize + len + (off % PageSize))

----------------------------------------------------------------------------
(* gc.                                                                     *)

GcStart(n) ==
  /\ pc = "ready"
  /\ data # {}
  /\ pc' = "search"
  /\ chunk' = n
  /\ start' = SeekDataBlock /\ pos' = SeekDataBlock
  /\ scanned' = 0
  /\ UNCHANGED <<fileVars, ok>>

(* The loop that looks for the first entry, one unit at a time.            *)
SearchReads == ok /\ pos < Len(file)

SearchOn ==
  /\ pc = "search" /\ SearchReads
  /\ ~IsValidEntry(pos)
  /\ pos' = pos + 1
  /\ UNCHANGED <<fileVars, ok, pc, chunk, start, scanned>>

SearchFound ==
  /\ pc = "search" /\ SearchReads
  /\ IsValidEntry(pos)
  /\ pc' = "scan"
  /\ UNCHANGED <<fileVars, ok, chunk, start, pos, scanned>>

(* A read that fails ends it too, and sets failbit.                        *)
SearchFails ==
  /\ pc = "search" /\ ~SearchReads
  /\ ok' = FALSE
  /\ pc' = "scan"
  /\ UNCHANGED <<fileVars, chunk, start, pos, scanned>>

(* The loop over the entries.                                              *)
ScansButOne == scanned + 1 < chunk

Scans == scanned < chunk

AdvanceOneShort(n) == pos' = pos + n - 1 /\ scanned' = scanned + n - 1

Advance(n) == pos' = pos + n /\ scanned' = scanned + n

ScanEntry ==
  /\ pc = "scan" /\ Scans
  /\ ok /\ IsValidEntry(pos)
  /\ Advance(Size(file[pos + 1]))
  /\ UNCHANGED <<fileVars, ok, pc, chunk, start>>

(* getEntry returns an entry whose vlen nobody has set.                    *)
LengthOfNothing == {0}

LengthOfNoEntry == 1 .. 2

ScanNoEntry ==
  /\ pc = "scan" /\ Scans
  /\ ~ok \/ ~IsValidEntry(pos)
  /\ \E n \in LengthOfNoEntry : Advance(n)
  /\ ok' = (ok /\ pos < Len(file))
  /\ UNCHANGED <<fileVars, pc, chunk, start>>

(* What has been passed is released, from the start of the first page; gc  *)
(* ignores it when fallocate fails.                                        *)
ReleasePassed == DeAlloc(start, pos - start)

GcEnd ==
  /\ pc = "scan" /\ ~Scans
  /\ ReleasePassed \/ UNCHANGED <<file, data>>
  /\ pc' = "ready"
  /\ chunk' = 0 /\ start' = 0 /\ pos' = 0 /\ scanned' = 0
  /\ UNCHANGED <<placed, ok>>

GcStep == SearchOn \/ SearchFound \/ SearchFails \/ ScanEntry \/ ScanNoEntry \/ GcEnd

VLogNext ==
  \/ \E n \in 1 .. MaxBatch : \E entries \in [1 .. n -> Entry] : AppendEntries(entries)
  \/ Reset
  \/ \E n \in 0 .. MaxChunk : GcStart(n)
  \/ GcStep

(* A gc that has started goes on.                                          *)
VLogSpec == VLogInit /\ [][VLogNext]_vars /\ WF_vars(GcStep)

----------------------------------------------------------------------------
(* Properties.                                                             *)

(* A table that was given an offset can read its entry there.              *)
Reads(p) == IsValidEntry(p.off) /\ file[p.off + 1] = p.entry

(* While reads succeed, gc stands on an entry the tables may still point   *)
(* to, or at the end of the file: its search is not misled by a value that *)
(* looks like an entry, nor by what a release has left of one, and its     *)
(* steps lead from each entry to the next.                                 *)
ScanAligned ==
  pc = "scan" /\ ok =>
    \/ pos = Len(file)
    \/ \E i \in DOMAIN placed : placed[i].off = pos /\ Reads(placed[i])

(* A gc that is asked for whole pages gives back as many, counted as       *)
(* check_gc in the tests counts them, by the first page that is not a hole.*)
GcRecycles ==
  [][GcEnd /\ ReleasePassed /\ chunk % PageSize = 0 =>
       \A n \in data' : n * PageSize >= start + chunk]_vars

(* The file implements the queue that KVStore takes the log for: gc starts *)
(* at the oldest entry left, passes the entries one by one, and gives back *)
(* exactly those it has passed; the tables can read all others.            *)
Queue ==
  INSTANCE ValueLog WITH
    log <- [i \in DOMAIN placed |-> placed[i].entry],
    hole <- Cardinality({i \in DOMAIN placed : ~Reads(placed[i])}),
    streamOk <- ok,
    gcPos <- IF pc = "scan" THEN Cardinality({i \in DOMAIN placed : placed[i].off < pos}) ELSE -1

QueueSpec == Queue!LogSpec

(* The inductive invariant behind ScanAligned, GcRecycles and QueueSpec.   *)
(* The entries lie end to end.                                             *)
EndOf(i) == IF i = Len(placed) THEN Len(file) ELSE placed[i + 1].off

Chained ==
  /\ placed = <<>> => file = <<>>
  /\ placed # <<>> => placed[1].off = 0
  /\ \A i \in DOMAIN placed : placed[i].off + Size(placed[i].entry) = EndOf(i)

Boundary(off) ==
  off = Len(file) \/ \E i \in DOMAIN placed : placed[i].off = off

(* A page that is a hole has been passed as a whole, or is the last one    *)
(* and was passed before reads began to fail.                              *)
HolesPassed(r) ==
  /\ \A n \in data : n * PageSize < Len(file)
  /\ \A n \in 0 .. Len(file) :
       n \notin data /\ n * PageSize < Len(file) =>
         (n + 1) * PageSize <= r \/ (r = Len(file) /\ ~ok)

(* The first r units are what has been released, and nothing else has: so  *)
(* a search that starts at or before r finds zeros up to the oldest entry  *)
(* that is left.                                                           *)
ReleasedUpTo(r) ==
  /\ \A p \in 1 .. r : file[p] = Zero
  /\ \A i \in DOMAIN placed : placed[i].off >= r => Reads(placed[i])
  /\ ok => Boundary(r)
  /\ HolesPassed(r)
  /\ pc # "ready" => start <= r
  /\ pc = "search" => pos <= r
  /\ pc = "scan" /\ ok => pos >= r

(* A gc starts at a page with no data before it and goes forward, from     *)
(* entry to entry as long as reads succeed.                                *)
GcGoesOn ==
  /\ pc # "ready" =>
       /\ \E m \in 0 .. MaxUnits : start = m * PageSize
       /\ \A n \in data : start <= n * PageSize
       /\ start + scanned <= pos
  /\ pc = "search" => scanned = 0
  /\ pc = "scan" /\ ok => Boundary(pos)

VLogInv ==
  /\ VLogTypeOK
  /\ Chained
  /\ \E r \in 0 .. Len(file) : ReleasedUpTo(r)
  /\ GcGoesOn

(* Every gc comes to its end.                                              *)
GcEnds == pc # "ready" ~> pc = "ready"
=============================================================================
