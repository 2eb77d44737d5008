---------------------------- MODULE DurableStore ----------------------------
(***************************************************************************)
(* The store with everything it leaves behind when its process ends: the   *)
(* files of its tables (Persistence) and the value log (KVStore).  Each    *)
(* step of a call of the store is taken together with what it does to the  *)
(* files, and the call goes on when the operations on files it has left    *)
(* are done, so the process may end before any of them.                    *)
(*                                                                         *)
(* What a call has appended to the log stays when the process ends:        *)
(* convertMemTableToSSTable flushes the stream before it makes the table.  *)
(***************************************************************************)
EXTENDS KVStore, Persistence

fileVars == <<up, disk, todo, loaded>>

callVars == <<memtable, streamOk, pc, gcPos, gcLeft>>

durableVars == <<vars, fileVars>>

DurableInit == KVInit /\ PersistInit

(* What a step of the store does to the files.                             *)
OnFiles ==
  IF UNCHANGED treeVars THEN UNCHANGED fileVars
  ELSE FlushTable(ItemsOf(memtable')) \/ MergeStep

(* A process that has ended inside reset leaves tables that point behind   *)
(* the end of the next log.  A read there sets failbit for all later       *)
(* calls.  Del reads first; a read of its own stands for that one.         *)
ReadsBehindEnd(k) ==
  streamOk /\ MemGet(k) = Empty /\ Lookup(k).live /\ Lookup(k).off >= Len(log)

FailingGet(k) ==
  /\ Idling
  /\ pc = "ready"
  /\ ReadsBehindEnd(k)
  /\ streamOk' = FALSE
  /\ UNCHANGED <<treeVars, fileVars, memtable, log, hole, pc, gcPos, gcLeft>>

CarefulCall ==
  \/ \E k \in Key, v \in Value : Put(k, v)
  \/ \E k \in Key : ~ReadsBehindEnd(k) /\ Del(k)
  \/ \E chunk \in 0 .. MaxChunk :
       NoOvershoot(chunk) /\ FirstEntryNotDeleted /\ GcStart(chunk)

StoreStep == Idling /\ (CarefulCall \/ CallStep) /\ OnFiles

(* reset removes the log, then the directory of the tables.                *)
ResetStore == Reset /\ ResetFiles

FilesGoOn == FileStep /\ UNCHANGED <<callVars, log, hole>>

(* The process ends, and with it the MemTable and the running call.        *)
EndProcess ==
  /\ Crash
  /\ memtable' = NoEntries
  /\ streamOk' = TRUE
  /\ pc' = "ready"
  /\ gcPos' = 0
  /\ gcLeft' = 0
  /\ UNCHANGED <<log, hole>>

(* The constructor opens the log as it is; only the tables are read.       *)
StartStore == Start /\ UNCHANGED <<callVars, log, hole>>

DurableStep ==
  \/ StoreStep
  \/ \E k \in Key : FailingGet(k)
  \/ ResetStore
  \/ FilesGoOn
  \/ EndProcess
  \/ StartStore

DurableSpec == DurableInit /\ [][DurableStep /\ AllComparable']_durableVars

----------------------------------------------------------------------------
(* Properties.                                                             *)

(* An item points at an entry of its key that is still in the log.         *)
Sound(item, k) ==
  item.live => item.off \in hole .. Len(log) - 1 /\ log[item.off + 1].key = k

(* The store a start would give, had compactLevel0 deleted the files it    *)
(* means to delete, which is after it has written the tables of level 1.   *)
Level1Unwritten == \E i \in DOMAIN todo : todo[i].op = "write" /\ todo[i].level = 1

CurrentLevel0 ==
  Sorted(IF Level1Unwritten THEN FileTables(0) ELSE FileTables(0) \cap Level0Tables)

AfterCleanStart == INSTANCE SSTableHandler WITH
  level0 <- CurrentLevel0, deeper <- FileDeeper, timeId <- FileTime, job <- Idle, dirs <- {}

(* gc never takes from the log what a start would still need: no step of a *)
(* put, a flush, a compaction or a garbage collection turns an item that   *)
(* the files answer with and that can be read into one that cannot, unless *)
(* the process itself cannot read its own item of the key.                 *)
ReleasedIsUnneeded ==
  [][StoreStep \/ FilesGoOn => \A k \in Key :
       Sound(AfterCleanStart!Visible(k), k) /\ Sound(Visible(k), k)' =>
         Sound(AfterCleanStart!Visible(k), k)']_durableVars
=============================================================================
