---------------------------- MODULE FuzzerRefines -----------------------------
(***************************************************************************)
(* The two abstract specifications that meet in the fuzzer: the oracle its *)
(* checker stands for, and the contract of the client handles it uses.     *)
(***************************************************************************)
EXTENDS Fuzzer

O == INSTANCE Oracle WITH hist <- acked,
                          pending <- { queue[i] : i \in DOMAIN queue },
                          Allowed <- Permitted

L(c) == INSTANCE Link WITH link <- link[c], Calls <- KvCall, Answers <- Replies

(***************************************************************************)
(* History (add_to_queue, apply_update and check_call) implements the      *)
(* oracle: though it trims its spans and judges a response as soon as      *)
(* maxtr lets it, each verdict is that of the whole history, is given in   *)
(* the order of the responses and is never turned by a later update.       *)
(***************************************************************************)
CheckerIsOracle == O!OracleSpec

(***************************************************************************)
(* The fuzzer keeps to the contract that proc.rs is written for and that   *)
(* ClientProc implements: it never calls a client that has not answered    *)
(* yet, takes each response once, and stops only a client at rest.  This   *)
(* is LinkSpec of every L(c), with the quantifier inside.                  *)
(***************************************************************************)
LinksKept ==
    /\ \A c \in Clients : L(c)!LinkInit
    /\ [][\A c \in Clients : [L(c)!LinkNext]_(link[c])]_link
==============================================================================
