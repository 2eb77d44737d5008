-------------------------- MODULE MCMemTableFlush --------------------------
(* An instance of MemTableFlush for TLC.                                   *)
EXTENDS MemTableFlush
=============================================================================
