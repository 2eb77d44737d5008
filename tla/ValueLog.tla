------------------------------ MODULE ValueLog ------------------------------
(***************************************************************************)
(* The value log as KVStore takes it: a queue of entries, of which gc      *)
(* walks over the oldest ones that are left, one at a time, and gives back *)
(* those it has passed.  The variables have the names and the meaning they *)
(* have in KVStore; gcPos is -1 when no gc is past its search.             *)
(***************************************************************************)
EXTENDS Integers, Sequences, FiniteSetsExt

CONSTANTS
  Entry,
  MaxBatch    \* bound: the most entries one flush appends

VARIABLES log, hole, streamOk, gcPos

logVars == <<log, hole, streamOk, gcPos>>

LogInit == log = <<>> /\ hole = 0 /\ streamOk = TRUE /\ gcPos = -1

AppendEntries(entries) ==
  /\ streamOk
  /\ log' = log \o entries
  /\ UNCHANGED <<hole, streamOk, gcPos>>

GcStart ==
  /\ gcPos = -1
  /\ gcPos' \in IF streamOk THEN {hole} ELSE 0 .. hole
  /\ streamOk' = (streamOk /\ hole < Len(log))
  /\ UNCHANGED <<log, hole>>

GcEntry ==
  /\ gcPos \in 0 .. Len(log) - 1
  /\ gcPos' = gcPos + 1
  /\ UNCHANGED <<log, hole, streamOk>>

GcNoEntry ==
  /\ gcPos >= 0
  /\ ~streamOk \/ gcPos = Len(log)
  /\ gcPos' \in gcPos .. Len(log)
  /\ streamOk' = FALSE
  /\ UNCHANGED <<log, hole>>

GcEnd ==
  /\ gcPos >= 0
  /\ hole' \in {hole, Max({hole, gcPos})}
  /\ gcPos' = -1
  /\ UNCHANGED <<log, streamOk>>

Reset ==
  /\ gcPos = -1
  /\ log' = <<>> /\ hole' = 0 /\ streamOk' = TRUE
  /\ UNCHANGED gcPos

LogNext ==
  \/ \E n \in 1 .. MaxBatch : \E entries \in [1 .. n -> Entry] : AppendEntries(entries)
  \/ GcStart \/ GcEntry \/ GcNoEntry \/ GcEnd \/ Reset

LogSpec == LogInit /\ [][LogNext]_logVars
=============================================================================
