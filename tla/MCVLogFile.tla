----------------------------- MODULE MCVLogFile -----------------------------
(* An instance of VLogFile for TLC: an entry with an empty value, one with *)
(* a value of one byte, and one longer than a page whose value ends in     *)
(* what looks like the first.                                              *)
EXTENDS VLogFile

CONSTANTS k1, k2

Small == [key |-> k1, body |-> <<>>]

MCEntry ==
  {Small, [key |-> k1, body |-> <<Byte>>], [key |-> k2, body |-> <<Byte, Small>>]}
=============================================================================
