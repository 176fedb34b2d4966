------------------------------ MODULE MCRefFuzz -------------------------------
(***************************************************************************)
(* Instances of RefFuzz for TLC.                                           *)
(***************************************************************************)
EXTENDS RefFuzz, TLC

MCReplies(call) == { Ref!handle_kv_call(call, st) : st \in [Keys -> OptValues] }

MCSharedPool == [c \in Clients |-> Keys]
==============================================================================
