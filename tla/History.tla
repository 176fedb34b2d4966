------------------------------- MODULE History -------------------------------
(***************************************************************************)
(* The fuzzer's approximate real-time causal consistency checker           *)
(* (runner/src/bin/fuzzer/history.rs).  A History is three pieces of       *)
(* state, kept as variables by the modules that use these operators:       *)
(*                                                                         *)
(*   queue   the responses still to check, in order of their timestamps    *)
(*   spans   per key and client, the acknowledged updates not yet trimmed  *)
(*   maxtr   per client, the timestamp of its last acknowledged update     *)
(*                                                                         *)
(* The operators below are the methods of History as functions of that     *)
(* state.  The five check loops of the code differ only in the values they *)
(* look for, so they share one operator, CheckSpans.                       *)
(***************************************************************************)
EXTENDS KvApi, FiniteSetsExt

Span == [ts_call : Nat, ts_resp : Nat, value : OptValues]

QueuedSpan == [ts_call : Nat, ts_resp : Nat, resp : KvResp]

\* The "dummy Delete" every client starts with on every key of the pool.
DummySpan == [ts_call |-> 0, ts_resp |-> 0, value |-> Null]

\* Mutant: histories start out without the dummy spans.
InitialSpans_Empty(pool, clients) == [k \in pool |-> <<>>]

InitialSpans(pool, clients) == [k \in pool |-> [c \in clients |-> <<DummySpan>>]]

------------------------------------------------------------------------------
\* Mutant: the most recent client decides instead of the least recent one.
BeforeComing_Max(ts, maxtr) == \E c \in DOMAIN maxtr : ts < maxtr[c]

(***************************************************************************)
(* ts is below min_coming_ts, the least entry of maxtr: every client has   *)
(* had an update acknowledged after ts.                                    *)
(***************************************************************************)
BeforeComing(ts, maxtr) == \A c \in DOMAIN maxtr : ts < maxtr[c]

(***************************************************************************)
(* ts is below min_queued_ts, the least call timestamp in the check queue  *)
(* (u64::MAX when the queue is empty).                                     *)
(***************************************************************************)
BeforeQueued(ts, queue) == \A i \in DOMAIN queue : ts < queue[i].ts_call

\* Mutant: requests in the check queue are not compared with.
Settled_ComingOnly(cli_spans, queue, maxtr) ==
    { i \in DOMAIN cli_spans : BeforeComing(cli_spans[i].ts_resp, maxtr) }

(***************************************************************************)
(* Spans at the head of a client's history are discarded when they ended   *)
(* before keep_ts, the call of the latest span that is fully ahead of      *)
(* every request that can still come and every request in the queue.  The  *)
(* last span always stays.                                                 *)
(***************************************************************************)
Settled(cli_spans, queue, maxtr) ==
    { i \in DOMAIN cli_spans : /\ BeforeComing(cli_spans[i].ts_resp, maxtr)
                               /\ BeforeQueued(cli_spans[i].ts_resp, queue) }

keep_ts(cli_spans, queue, maxtr) ==
    LET settled == Settled(cli_spans, queue, maxtr)
    IN  IF settled = {} THEN 0 ELSE cli_spans[Max(settled)].ts_call

Trim(cli_spans, queue, maxtr) ==
    LET kept == { i \in DOMAIN cli_spans :
                    \/ i = Len(cli_spans)
                    \/ cli_spans[i].ts_resp >= keep_ts(cli_spans, queue, maxtr) }
    IN  SubSeq(cli_spans, Min(kept), Len(cli_spans))

------------------------------------------------------------------------------
\* Mutant: the walk back does not stop at a span that ended before the call.
CheckSpans_NoBreak(key_spans, ts_call, ts_resp, wanted) ==
    \E c \in DOMAIN key_spans : \E i \in DOMAIN key_spans[c] :
        key_spans[c][i].ts_call < ts_resp /\ key_spans[c][i].value \in wanted

\* Mutant: updates concurrent with the call are not considered.
CheckSpans_NoConcurrent(key_spans, ts_call, ts_resp, wanted) ==
    \E c \in DOMAIN key_spans : \E i \in DOMAIN key_spans[c] :
        /\ key_spans[c][i].ts_resp < ts_call
        /\ key_spans[c][i].value \in wanted
        /\ \A j \in (i + 1)..Len(key_spans[c]) : key_spans[c][j].ts_resp >= ts_call

(***************************************************************************)
(* The loop shared by check_put, check_swap, check_get and check_delete:   *)
(* some client has a span that began before the response and holds one of  *)
(* the wanted values, and walking back to it from the client's latest span *)
(* meets no span that ended before the call.                               *)
(***************************************************************************)
CheckSpans(key_spans, ts_call, ts_resp, wanted) ==
    \E c \in DOMAIN key_spans : \E i \in DOMAIN key_spans[c] :
        /\ key_spans[c][i].ts_call < ts_resp
        /\ key_spans[c][i].value \in wanted
        /\ \A j \in (i + 1)..Len(key_spans[c]) : key_spans[c][j].ts_resp >= ts_call

\* The values that make a Put or a Delete report "found" or "not found".
ValuesFor(found) == IF found THEN Values ELSE {Null}

\* The value the entries of a Scan response give to a key (Null if none).
EntryValues(entries, k) ==
    LET given == { n \in DOMAIN entries : entries[n].key = k }
    IN  IF given = {} THEN {Null} ELSE { entries[n].value : n \in given }

\* Mutant: the end of the range is not part of it.
WellFormedScan_EndExclusive(resp) ==
    /\ \A n \in DOMAIN resp.entries :
         resp.key_start <= resp.entries[n].key /\ resp.entries[n].key < resp.key_end
    /\ \A m, n \in DOMAIN resp.entries :
         resp.entries[m].key = resp.entries[n].key => m = n

\* Entries in range and without duplicates: what check_scan insists on first.
WellFormedScan(resp) ==
    /\ \A n \in DOMAIN resp.entries :
         resp.key_start <= resp.entries[n].key /\ resp.entries[n].key <= resp.key_end
    /\ \A m, n \in DOMAIN resp.entries :
         resp.entries[m].key = resp.entries[n].key => m = n

(***************************************************************************)
(* What a response claims: the values one of which the key must have had.  *)
(***************************************************************************)
Claim(resp, k) ==
    CASE resp.op \in {"Put", "Delete"} -> ValuesFor(resp.found)
      [] resp.op \in {"Swap", "Get"}   -> {resp.value}
      [] OTHER                         -> EntryValues(resp.entries, k)

(***************************************************************************)
(* check_call.  A Scan is held to every key of the pool in its range, its  *)
(* end included, another response to its one key, which has to be in the   *)
(* pool; a Stop response never passes.                                     *)
(***************************************************************************)
KeysOf(resp, pool) ==
    IF resp.op = "Scan"
    THEN { k \in pool : resp.key_start <= k /\ k <= resp.key_end }
    ELSE { resp.key }

check_call(spans, e) ==
    /\ e.resp.op # "Stop"
    /\ e.resp.op = "Scan" => WellFormedScan(e.resp)
    /\ \A k \in KeysOf(e.resp, DOMAIN spans) :
         /\ k \in DOMAIN spans
         /\ CheckSpans(spans[k], e.ts_call, e.ts_resp, Claim(e.resp, k))

------------------------------------------------------------------------------
\* Mutant: the response of a Get is not queued.
add_to_queue_UpdatesOnly(queue, ts_call, ts_resp, resp) ==
    IF resp.op = "Get" THEN queue
    ELSE Append(queue, [ts_call |-> ts_call, ts_resp |-> ts_resp, resp |-> resp])

add_to_queue(queue, ts_call, ts_resp, resp) ==
    Append(queue, [ts_call |-> ts_call, ts_resp |-> ts_resp, resp |-> resp])

(***************************************************************************)
(* apply_update, for an update of a key in the pool, in its three parts:   *)
(* the spans after the push and the trim of every client's history of the  *)
(* key; the entries popped off the queue, up to and including the first    *)
(* that fails its check; and whether one failed.                           *)
(***************************************************************************)
SpansAfter(spans, queue, maxtr, cidx, u, ts_call, ts_resp) ==
    LET span   == [ts_call |-> ts_call, ts_resp |-> ts_resp, value |-> u.value]
        pushed == [spans[u.key] EXCEPT ![cidx] = Append(@, span)]
    IN  [spans EXCEPT ![u.key] =
            [c \in DOMAIN pushed |-> Trim(pushed[c], queue, maxtr)]]

\* Mutant: one response is popped per update instead of all that can be.
Poppable_FirstOnly(queue, maxtr) ==
    { i \in DOMAIN queue : i = 1 /\ BeforeComing(queue[i].ts_resp, maxtr) }

Poppable(queue, maxtr) ==
    { i \in DOMAIN queue : \A j \in 1..i : BeforeComing(queue[j].ts_resp, maxtr) }

Failing(spans, queue, maxtr) ==
    { i \in Poppable(queue, maxtr) : ~check_call(spans, queue[i]) }

NumPopped(spans, queue, maxtr) ==
    LET failing == Failing(spans, queue, maxtr)
    IN  IF failing = {} THEN Max(Poppable(queue, maxtr) \cup {0}) ELSE Min(failing)
==============================================================================
