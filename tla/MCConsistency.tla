---------------------------- MODULE MCConsistency -----------------------------
(***************************************************************************)
(* An instance of Consistency for TLC: a read, a write and another read of *)
(* up to two sessions.                                                     *)
(***************************************************************************)
EXTENDS Consistency

MCTypOf(n) == IF n = 2 THEN "WRITE" ELSE "READ"
==============================================================================
