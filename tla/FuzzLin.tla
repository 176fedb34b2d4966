------------------------------- MODULE FuzzLin --------------------------------
(***************************************************************************)
(* The fuzzer against a correct system: the client processes of Fuzzer     *)
(* speak to one linearizable key-value service.  The service is not part   *)
(* of the repository (students write it); all that is assumed is that each *)
(* call takes effect at one instant between being sent and being answered, *)
(* and that its response then tells the truth about the store.             *)
(***************************************************************************)
EXTENDS Fuzzer

CONSTANT ServiceResp(_, _)   \* the response to a call on a given store

VARIABLE store               \* the value of each key, Null where absent

lvars == <<vars, store>>

Stores == [Keys -> OptValues]

(***************************************************************************)
(* A response that tells the truth about the store it was computed on: the *)
(* present keys of a Scan's range, both ends included, are listed once     *)
(* each.  Nothing here is taken from the checker of module History.        *)
(***************************************************************************)
Present(st, from, to) ==
    { e \in Entry : from <= e.key /\ e.key <= to /\ e.value = st[e.key] }

Truthful(call, st, resp) ==
    /\ resp \in KvResp
    /\ resp.op = call.op
    /\ IF call.op = "Scan"
       THEN /\ resp.key_start = call.key_start
            /\ resp.key_end = call.key_end
            /\ { resp.entries[n] : n \in DOMAIN resp.entries }
                 = Present(st, call.key_start, call.key_end)
            /\ Len(resp.entries) = Cardinality(Present(st, call.key_start, call.key_end))
       ELSE /\ resp.key = call.key
            /\ call.op \in {"Put", "Delete"} => resp.found = (st[call.key] # Null)
            /\ call.op \in {"Swap", "Get"} => resp.value = st[call.key]

ASSUME ServiceAssumption ==
    \A call \in KvCall, st \in Stores : Truthful(call, st, ServiceResp(call, st))

\* What the service answers is among the responses Fuzzer reckons with.
ASSUME ServiceReplies ==
    \A call \in KvCall, st \in Stores : ServiceResp(call, st) \in Replies(call)

StoreAfter(call, st) ==
    [k \in Keys |->
        IF call.op \in {"Put", "Swap"} /\ call.key = k THEN call.value
        ELSE IF call.op = "Delete" /\ call.key = k THEN Null
        ELSE st[k]]

------------------------------------------------------------------------------
LInit == Init /\ store = [k \in Keys |-> Null]

\* The service executes the call of a client and its response travels back.
Serve(c) ==
    /\ link[c].st = "called"
    /\ link' = [link EXCEPT ![c] =
                  [st |-> "replied", resp |-> ServiceResp(link[c].call, store)]]
    /\ store' = StoreAfter(link[c].call, store)
    /\ UNCHANGED <<flying, timestamp, call_memo, hvars, ops_called, ops_waited,
                   waiting, outcome, acked, decided>>

\* The client process dies before or after its call took effect.
ClientDies(c) ==
    /\ DriverDies(c)
    /\ store' \in {store, StoreAfter(link[c].call, store)}

LNext ==
    \/ FuzzerStep /\ UNCHANGED store
    \/ \E c \in Clients : Serve(c) \/ ClientDies(c)
    \/ Done /\ UNCHANGED store

LSpec == LInit /\ [][LNext]_lvars

(***************************************************************************)
(* Runs without faults: no client process dies and every answer comes      *)
(* before its timeout.                                                     *)
(***************************************************************************)
FuzzerProgress ==
    \/ \E c \in Clients : Call(c) \/ BeginWait(c) \/ Harvest(c) \/ StopClient(c)
    \/ Report

HealthyNext ==
    \/ FuzzerProgress /\ UNCHANGED store
    \/ \E c \in Clients : Serve(c)
    \/ Done /\ UNCHANGED store

(***************************************************************************)
(* The fuzzer's thread is scheduled and the service answers every call.    *)
(***************************************************************************)
HealthySpec ==
    /\ LInit /\ [][HealthyNext]_lvars
    /\ WF_lvars(FuzzerProgress /\ UNCHANGED store)
    /\ \A c \in Clients : WF_lvars(Serve(c))

------------------------------------------------------------------------------
(***************************************************************************)
(* No false alarm: whatever the interleaving, and even if client processes *)
(* die, the fuzzer never reports a linearizable service as inconsistent    *)
(* (fuzz_test's "Consistency violation!", "Unexpected update key found"    *)
(* and "Unexpected stop response").                                        *)
(***************************************************************************)
NoFalseAlarm == outcome \notin {"violation", "bad_key", "stop_resp"}

\* With a healthy service the run ends, and main reports no failure.
CompletesHealthy == <>(outcome \in {"PASSED", "UNFAIR"})
==============================================================================
