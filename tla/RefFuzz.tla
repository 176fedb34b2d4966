------------------------------- MODULE RefFuzz --------------------------------
(***************************************************************************)
(* The fuzzer run against the repository's own reference client: every     *)
(* client process is a refcli with a map of its own (module RefCli).       *)
(***************************************************************************)
EXTENDS Fuzzer

VARIABLE state      \* per client process, its sorted map

rvars == <<vars, state>>

Ref == INSTANCE RefCli

RInit == Init /\ state = [c \in Clients |-> Ref!EmptyState]

\* One iteration of refcli's loop: read a call, handle it, write the response.
RefAnswer(c) ==
    /\ link[c].st = "called"
    /\ LET call == link[c].call
       IN  /\ link' = [link EXCEPT ![c] =
                         [st |-> "replied", resp |-> Ref!handle_kv_call(call, state[c])]]
           /\ state' = [state EXCEPT ![c] = Ref!StateAfter(call, state[c])]
    /\ UNCHANGED <<flying, timestamp, call_memo, hvars, ops_called, ops_waited,
                   waiting, outcome, acked, decided>>

RNext ==
    \/ FuzzerStep /\ UNCHANGED state
    \/ \E c \in Clients : RefAnswer(c)
    \/ Done /\ UNCHANGED state

RSpec == RInit /\ [][RNext]_rvars

(***************************************************************************)
(* The reference client, which "demonstrates the stdin/out workloads       *)
(* interface" (README.md), is never accused by check_call: on keys nobody  *)
(* else uses it answers as the interface asks.                             *)
(***************************************************************************)
RefNeverAccused == outcome \notin {"violation", "bad_key", "stop_resp"}
==============================================================================
