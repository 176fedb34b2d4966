-------------------------------- MODULE Fuzzer --------------------------------
(***************************************************************************)
(* The fuzz tester (runner/src/bin/fuzzer/main.rs and random.rs): one      *)
(* thread issues random calls to several client processes, harvests their  *)
(* responses and feeds them to the consistency checker of module History.  *)
(* Each client process sits behind a driver thread and a pair of channels  *)
(* (runner/src/proc.rs), which here is one link per client; module         *)
(* ClientProc looks inside a link.  What a client process answers is the   *)
(* business of the system under test: any response of Replies(call).       *)
(***************************************************************************)
EXTENDS History, FiniteSets

CONSTANTS
    Clients,        \* the client processes (cidx of the code)
    KeyPool,        \* per client, the keys it is given (keys[cidx])
    OpKinds,        \* the kinds of calls generated
    TotalOps,       \* total_ops
    REMAIN_THRESH,  \* unchecked responses that make a run UNFAIR
    Replies(_)      \* per call, the responses the client process may print

ASSUME ClientsAssumption == Clients # {} /\ IsFiniteSet(Clients)
ASSUME PoolAssumption == /\ KeyPool \in [Clients -> SUBSET Keys]
                         /\ \A c \in Clients : KeyPool[c] # {}
ASSUME BoundsAssumption == TotalOps \in Nat /\ REMAIN_THRESH \in Nat
ASSUME RepliesAssumption == \A call \in KvCall : Replies(call) \subseteq KvResp

VARIABLES
    flying,      \* per client, whether a request is on the fly
    timestamp,   \* the logical clock
    call_memo,   \* per client, the start and the update of its last call
    queue, spans, maxtr,     \* the History
    ops_called, ops_waited,
    waiting,     \* the client whose response the thread is blocked on, if any
    link,        \* per client, the channels and the driver thread behind them
    outcome,     \* what the run ended with
    acked,       \* ghost: every update acknowledged so far, never trimmed
    decided      \* ghost: the responses popped off the queue, with the verdict

hvars == <<queue, spans, maxtr>>
vars == <<flying, timestamp, call_memo, hvars, ops_called, ops_waited, waiting,
          link, outcome, acked, decided>>

Pool == UNION { KeyPool[c] : c \in Clients }

\* "running", still calling and harvesting; "stopping", all responses are in;
\* the rest are final.
Outcomes == {"running", "stopping", "PASSED", "UNFAIR",
             "violation", "bad_key", "stop_resp", "error"}

Link == [st : {"idle", "dead", "stopped"}]
          \cup [st : {"called"}, call : KvCall]
          \cup [st : {"replied"}, resp : KvResp]

Idle == [st |-> "idle"]

Memo == [ts : Nat, upd : SUBSET Update]
EmptyMemo == [ts |-> 0, upd |-> {}]

\* An acknowledged update in full: who made it, to which key.
Acked == [cli : Clients, key : Pool, ts_call : Nat, ts_resp : Nat, value : OptValues]

------------------------------------------------------------------------------
Init ==
    /\ flying = [c \in Clients |-> FALSE]
    /\ timestamp = 0
    /\ call_memo = [c \in Clients |-> EmptyMemo]
    /\ queue = <<>>
    /\ spans = InitialSpans(Pool, Clients)
    /\ maxtr = [c \in Clients |-> 0]
    /\ ops_called = 0
    /\ ops_waited = 0
    /\ waiting = {}
    /\ link = [c \in Clients |-> Idle]
    /\ outcome = IF TotalOps = 0 THEN "stopping" ELSE "running"
    /\ acked = [cli : Clients, key : Pool, ts_call : {0}, ts_resp : {0}, value : {Null}]
    /\ decided = {}

------------------------------------------------------------------------------
\* The top of the loop: the thread is not blocked and the run goes on.
AtTop == outcome = "running" /\ waiting = {}

(***************************************************************************)
(* gen_call_vs_wait: forced when all calls are made or all clients are     *)
(* busy, forced the other way when none is, a coin toss otherwise.         *)
(***************************************************************************)
MayCall == ops_called # TotalOps /\ \E c \in Clients : ~flying[c]
MayWait == ~MayCall \/ \E c \in Clients : flying[c]

(***************************************************************************)
(* The calls gen_rand_kvcall may produce for a client.  The bounds of a    *)
(* Scan are two keys of the pool, put in order.                            *)
(***************************************************************************)
RandCalls(c) ==
    { call \in KvCall :
        /\ call.op \in OpKinds
        /\ IF call.op = "Scan"
           THEN /\ {call.key_start, call.key_end} \subseteq KeyPool[c]
                /\ call.key_start <= call.key_end
           ELSE call.key \in KeyPool[c] }

\* Mutant: a client may be called again before it answered.
Call_Busy(c) ==
    /\ AtTop
    /\ MayCall
    /\ timestamp' = timestamp + 1
    /\ \E call \in RandCalls(c) :
         /\ call_memo' = [call_memo EXCEPT ![c] =
                            [ts |-> timestamp + 1, upd |-> update_info(call)]]
         /\ link' = [link EXCEPT ![c] = [st |-> "called", call |-> call]]
    /\ flying' = [flying EXCEPT ![c] = TRUE]
    /\ ops_called' = ops_called + 1
    /\ UNCHANGED <<hvars, ops_waited, waiting, outcome, acked, decided>>

\* Make a new call: the call is remembered, then handed to the driver thread.
Call(c) ==
    /\ AtTop
    /\ MayCall
    /\ ~flying[c]
    /\ timestamp' = timestamp + 1
    /\ \E call \in RandCalls(c) :
         /\ call_memo' = [call_memo EXCEPT ![c] =
                            [ts |-> timestamp + 1, upd |-> update_info(call)]]
         /\ link' = [link EXCEPT ![c] = [st |-> "called", call |-> call]]
    /\ flying' = [flying EXCEPT ![c] = TRUE]
    /\ ops_called' = ops_called + 1
    /\ UNCHANGED <<hvars, ops_waited, waiting, outcome, acked, decided>>

(***************************************************************************)
(* Decide to harvest from a client.  The clock ticks before the thread     *)
(* blocks in wait_resp, so the response is stamped with the start of the   *)
(* wait.                                                                   *)
(***************************************************************************)
BeginWait(c) ==
    /\ AtTop
    /\ MayWait
    /\ flying[c]
    /\ timestamp' = timestamp + 1
    /\ waiting' = {c}
    /\ UNCHANGED <<flying, call_memo, hvars, ops_called, ops_waited, link,
                   outcome, acked, decided>>

\* Mutant: the wait is tried again.
HarvestErr_Retry(c) ==
    /\ outcome = "running"
    /\ waiting = {c}
    /\ link[c].st # "replied"
    /\ UNCHANGED vars

\* wait_resp fails: RESP_TIMEOUT passed, or the driver thread is gone.
HarvestErr(c) ==
    /\ outcome = "running"
    /\ waiting = {c}
    /\ link[c].st # "replied"
    /\ outcome' = "error"
    /\ UNCHANGED <<flying, timestamp, call_memo, hvars, ops_called, ops_waited,
                   waiting, link, acked, decided>>

\* The client process confirmed a stop nobody asked for.
HarvestStop(c) ==
    /\ outcome = "running"
    /\ waiting = {c}
    /\ link[c].st = "replied"
    /\ link[c].resp.op = "Stop"
    /\ link' = [link EXCEPT ![c] = Idle]
    /\ outcome' = "stop_resp"
    /\ UNCHANGED <<flying, timestamp, call_memo, hvars, ops_called, ops_waited,
                   waiting, acked, decided>>

------------------------------------------------------------------------------
\* The response is in and its request is over; the loop ends with the last one.
EndOp(c) ==
    /\ flying' = [flying EXCEPT ![c] = FALSE]
    /\ ops_waited' = ops_waited + 1
    /\ waiting' = {}
    /\ outcome' = IF ops_waited + 1 < TotalOps THEN "running" ELSE "stopping"

\* The loop is left at once: the request stays marked as on the fly.
BreakOut(reason) ==
    /\ outcome' = reason
    /\ UNCHANGED <<flying, ops_waited, waiting>>

\* Entries 1..n of the queue got their verdict; only the last may be a failure.
Decide(q, n, failed) ==
    decided \cup { [entry |-> q[i], ok |-> ~(failed /\ i = n)] : i \in 1..n }

\* What every harvest of an ordinary response does first.
TakeResponse(c) ==
    /\ outcome = "running"
    /\ waiting = {c}
    /\ link[c].st = "replied"
    /\ link[c].resp.op # "Stop"
    /\ link' = [link EXCEPT ![c] = Idle]
    /\ call_memo' = [call_memo EXCEPT ![c] = EmptyMemo]
    /\ UNCHANGED <<timestamp, ops_called>>

Enqueued(c) == add_to_queue(queue, call_memo[c].ts, timestamp, link[c].resp)

\* The response of a read-only call is only queued for its check.
HarvestRead(c) ==
    /\ TakeResponse(c)
    /\ call_memo[c].upd = {}
    /\ queue' = Enqueued(c)
    /\ EndOp(c)
    /\ UNCHANGED <<spans, maxtr, acked, decided>>

(***************************************************************************)
(* The response of an update is queued, then apply_update pushes the       *)
(* update to the history, trims the histories of its key and checks the    *)
(* responses that became decidable.  An update of a key the history does   *)
(* not know is refused.                                                    *)
(***************************************************************************)
HarvestUpdate(c) ==
    /\ TakeResponse(c)
    /\ \E u \in call_memo[c].upd :
         LET ts_call == call_memo[c].ts
             ts_resp == timestamp
             known   == u.key \in DOMAIN spans
             q       == Enqueued(c)
             failed  == known /\ Failing(spans', q, maxtr') # {}
             n       == IF known THEN NumPopped(spans', q, maxtr') ELSE 0
         IN  /\ maxtr' = IF known THEN [maxtr EXCEPT ![c] = ts_resp] ELSE maxtr
             /\ spans' = IF known THEN SpansAfter(spans, q, maxtr', c, u, ts_call, ts_resp)
                                  ELSE spans
             /\ queue' = SubSeq(q, n + 1, Len(q))
             /\ acked' = acked \cup { [cli |-> c, key |-> u.key, value |-> u.value,
                                       ts_call |-> ts_call, ts_resp |-> ts_resp] }
             /\ decided' = Decide(q, n, failed)
             /\ IF known /\ ~failed
                THEN EndOp(c)
                ELSE BreakOut(IF failed THEN "violation" ELSE "bad_key")

------------------------------------------------------------------------------
\* Mutant: the stop is never confirmed, and waited for again and again.
StopClient_Unconfirmed(c) ==
    /\ outcome = "stopping"
    /\ link[c] = Idle
    /\ UNCHANGED vars

(***************************************************************************)
(* After the loop every client is stopped.  The code goes through them in  *)
(* the order of their indices; clients are interchangeable here.           *)
(***************************************************************************)
StopClient(c) ==
    /\ outcome = "stopping"
    /\ link[c] = Idle
    /\ link' = [link EXCEPT ![c] = [st |-> "stopped"]]
    /\ UNCHANGED <<flying, timestamp, call_memo, hvars, ops_called, ops_waited,
                   waiting, outcome, acked, decided>>

\* The first stop that fails ends the run with its error.
StopErr(c) ==
    /\ outcome = "stopping"
    /\ link[c].st # "stopped"
    /\ outcome' = "error"
    /\ UNCHANGED <<flying, timestamp, call_memo, hvars, ops_called, ops_waited,
                   waiting, link, acked, decided>>

\* main prints the result of a run in which no check failed.
Report ==
    /\ outcome = "stopping"
    /\ \A c \in Clients : link[c].st = "stopped"
    /\ outcome' = IF Len(queue) >= REMAIN_THRESH THEN "UNFAIR" ELSE "PASSED"
    /\ UNCHANGED <<flying, timestamp, call_memo, hvars, ops_called, ops_waited,
                   waiting, link, acked, decided>>

------------------------------------------------------------------------------
\* The client process prints a response and the driver thread passes it on.
Answer(c) ==
    /\ link[c].st = "called"
    /\ \E resp \in Replies(link[c].call) :
         link' = [link EXCEPT ![c] = [st |-> "replied", resp |-> resp]]
    /\ UNCHANGED <<flying, timestamp, call_memo, hvars, ops_called, ops_waited,
                   waiting, outcome, acked, decided>>

\* The client process prints a malformed line, or exited before the call was
\* written to it: its driver gives up.  (A client process that exits before it
\* answers leaves the driver reading for ever, and the link as it is.)
DriverDies(c) ==
    /\ link[c].st = "called"
    /\ link' = [link EXCEPT ![c] = [st |-> "dead"]]
    /\ UNCHANGED <<flying, timestamp, call_memo, hvars, ops_called, ops_waited,
                   waiting, outcome, acked, decided>>

\* The fuzzer returned: nothing more is done.
Done ==
    /\ outcome \notin {"running", "stopping"}
    /\ UNCHANGED vars

Harvest(c) == HarvestRead(c) \/ HarvestUpdate(c) \/ HarvestStop(c)

FuzzerStep ==
    \/ \E c \in Clients : Call(c) \/ BeginWait(c) \/ Harvest(c) \/ HarvestErr(c)
    \/ \E c \in Clients : StopClient(c) \/ StopErr(c)
    \/ Report

Next ==
    \/ FuzzerStep
    \/ \E c \in Clients : Answer(c) \/ DriverDies(c)
    \/ Done

Spec == Init /\ [][Next]_vars

(***************************************************************************)
(* The fuzzer's thread is scheduled, and a wait never outlasts its         *)
(* timeout; nothing is assumed of the client processes.                    *)
(***************************************************************************)
FairSpec == Spec /\ WF_vars(FuzzerStep)

------------------------------------------------------------------------------
(***************************************************************************)
(* What a response may claim, said of all acknowledged updates at once and *)
(* without any trimming: some update to the key that began before the      *)
(* response holds a wanted value, and the same client made no later update *)
(* to the key that was over before the call.                               *)
(***************************************************************************)
Admissible(hist, k, ts_call, ts_resp, wanted) ==
    \E u \in hist :
        /\ u.key = k
        /\ u.ts_call < ts_resp
        /\ u.value \in wanted
        /\ \A w \in hist : (w.cli = u.cli /\ w.key = k /\ w.ts_call > u.ts_resp)
                             => w.ts_resp >= ts_call

Permitted(hist, e) ==
    /\ e.resp.op # "Stop"
    /\ e.resp.op = "Scan" => WellFormedScan(e.resp)
    /\ \A k \in KeysOf(e.resp, Pool) :
         /\ k \in Pool
         /\ Admissible(hist, k, e.ts_call, e.ts_resp, Claim(e.resp, k))

\* The types of the fuzzer's state (fuzz_test) and of the History.
TypeOK ==
    /\ flying \in [Clients -> BOOLEAN]
    /\ timestamp \in Nat
    /\ call_memo \in [Clients -> Memo]
    /\ queue \in Seq(QueuedSpan)
    /\ spans \in [Pool -> [Clients -> Seq(Span)]]
    /\ maxtr \in [Clients -> Nat]
    /\ ops_called \in Nat
    /\ ops_waited \in Nat
    /\ waiting \in SUBSET Clients
    /\ link \in [Clients -> Link]
    /\ outcome \in Outcomes
    /\ acked \subseteq Acked
    /\ decided \subseteq [entry : QueuedSpan, ok : BOOLEAN]

(***************************************************************************)
(* A verdict is final: the check of a popped response (check_call, run     *)
(* when its timestamp falls below min_coming_ts) says what the untrimmed   *)
(* history of all updates says, at that moment and at every later one, and *)
(* no update still on the fly began before the response.                   *)
(***************************************************************************)
VerdictsFinal ==
    \A d \in decided :
        /\ d.ok <=> Permitted(acked, d.entry)
        /\ \A c \in Clients :
             flying[c] /\ call_memo[c].upd # {} => call_memo[c].ts > d.entry.ts_resp

\* The calls whose check is still to come: queued, or on the fly.
PendingCalls ==
    { [ts_call |-> queue[i].ts_call, ts_resp |-> queue[i].ts_resp] : i \in DOMAIN queue }
      \cup { [ts_call |-> call_memo[c].ts, ts_resp |-> timestamp + 1] :
               c \in { x \in Clients : flying[x] } }

(***************************************************************************)
(* Trimming (the keep_ts loop of apply_update) loses nothing: for every    *)
(* check still to come, the trimmed spans and the full history give the    *)
(* same answer, whatever value is looked for.                              *)
(***************************************************************************)
TrimInvisible ==
    outcome \in {"running", "stopping"} =>
      \A p \in PendingCalls, k \in Pool,
         wanted \in { {v} : v \in OptValues } \cup {Values} :
           CheckSpans(spans[k], p.ts_call, p.ts_resp, wanted)
             <=> Admissible(acked, k, p.ts_call, p.ts_resp, wanted)

(***************************************************************************)
(* The pop loop of apply_update leaves no decidable response behind: while *)
(* the test goes on, each queued response still has a client that could    *)
(* yet acknowledge an update that began before it.                         *)
(***************************************************************************)
NoOverdueCheck ==
    outcome # "violation" =>
      \A i \in DOMAIN queue : ~BeforeComing(queue[i].ts_resp, maxtr)

(***************************************************************************)
(* Every harvested response is checked exactly once or still queued: the   *)
(* number main compares with REMAIN_THRESH is the number never checked.    *)
(***************************************************************************)
ResponsesAccounted ==
    outcome # "violation" =>
      Cardinality(decided) + Len(queue) = ops_waited

\* The value a key had before ts, and the one that a call of its own gave it.
LastValue(k, ts) ==
    LET past == { u \in acked : u.key = k /\ u.ts_resp < ts }
    IN  (CHOOSE u \in past : \A w \in past : w.ts_resp <= u.ts_resp).value

OwnValue(k, ts) == { u.value : u \in { w \in acked : w.key = k /\ w.ts_call = ts } }

TrueOrOwn(e) ==
    /\ e.resp.op = "Scan" => WellFormedScan(e.resp)
    /\ \A k \in KeysOf(e.resp, Pool) :
         /\ k \in Pool
         /\ Claim(e.resp, k)
              \cap ({LastValue(k, e.ts_call)} \cup OwnValue(k, e.ts_call)) # {}

(***************************************************************************)
(* With a single client the approximation is exact for reads: a Get passes *)
(* if and only if it returned the value of the client's last update to the *)
(* key, and a Scan if and only if it lists just the present keys of its    *)
(* range with those values.  For updates it is not: the update's own span  *)
(* is in the history when its response is checked (apply_update pushes it  *)
(* before it pops), so that a Put may always claim to have found the key,  *)
(* a Delete not to, and a Swap may return the value it wrote; no more than *)
(* that gets through.  A response is judged by what it says, whatever the  *)
(* call was that it came in answer to.                                     *)
(***************************************************************************)
SoloExact ==
    Cardinality(Clients) = 1 => \A d \in decided : d.ok <=> TrueOrOwn(d.entry)

\* The fuzzer always returns, whatever the client processes do.
Terminates == <>(outcome \notin {"running", "stopping"})
==============================================================================
