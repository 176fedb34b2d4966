-------------------------------- MODULE RefCli --------------------------------
(***************************************************************************)
(* The reference client (refcli/src/main.rs): a dummy client that answers  *)
(* the calls it reads from a sorted map of its own, without any server.    *)
(* The map is a function from keys to values, Null where a key is absent.  *)
(* handle_kv_call is given by the response it returns and the map it       *)
(* leaves behind.                                                          *)
(***************************************************************************)
EXTENDS KvApi, SequencesExt

EmptyState == [k \in Keys |-> Null]

\* The present keys among ks with their values, in the order of the map.
EntriesOf(state, ks) ==
    LET present == SetToSortSeq({ k \in ks : state[k] # Null }, LAMBDA a, b : a < b)
    IN  [n \in DOMAIN present |-> [key |-> present[n], value |-> state[present[n]]]]

ScanResp(call, entries) ==
    [op |-> "Scan", key_start |-> call.key_start, key_end |-> call.key_end,
     entries |-> entries]

PointResp(call, state) ==
    IF call.op \in {"Put", "Delete"}
    THEN [op |-> call.op, key |-> call.key, found |-> state[call.key] # Null]
    ELSE [op |-> call.op, key |-> call.key, value |-> state[call.key]]

\* BTreeMap::range(key_start..key_end): the end is not part of the range.
RefScan(call, state) ==
    ScanResp(call, EntriesOf(state, { k \in Keys : call.key_start <= k /\ k < call.key_end }))

handle_kv_call(call, state) ==
    IF call.op = "Scan" THEN RefScan(call, state) ELSE PointResp(call, state)

StateAfter(call, state) ==
    CASE call.op \in {"Put", "Swap"} -> [state EXCEPT ![call.key] = call.value]
      [] call.op = "Delete"          -> [state EXCEPT ![call.key] = Null]
      [] OTHER                       -> state
==============================================================================
