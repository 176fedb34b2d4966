# A TLA+ verification of madkv

madkv is a course framework for key-value stores.  Students write the store and
its client program; the repository holds everything that drives and judges
them: a fuzz tester with a consistency checker (`runner/src/bin/fuzzer`), a YCSB
bencher (`runner/src/bin/bencher`), the process handles both are built on
(`runner/src/proc.rs`, `ioapi.rs`), a reference client (`refcli`), and a
consistency model checker written in P (`pmodel`).  This directory models
those parts, checks the models with TLC and proves the central results about
the checker, the fuzzer, the process handle, the bencher and the pool monitor with
TLAPS.

Paths below are relative to the repository root.

## 1. The system

### Components, their state and their operations

| Component | State | Operations | Module |
|---|---|---|---|
| Workload interface types, `runner/src/ioapi.rs` | none | `KvCall`, `KvResp`, the update a call makes | `KvApi` |
| Wire format, `ioapi.rs`, `refcli/src/main.rs` | none | `into_write`, `parse_input_call`, `write_response`, `from_read` | `Wire` |
| Consistency checker, `fuzzer/history.rs` | queue of unchecked responses, per key and client a deque of update spans, per client the latest response time | `add_to_queue`, `apply_update` (push, trim, pop loop), `check_call` and its five checks | `History`, abstractly `Oracle` |
| Fuzzer, `fuzzer/main.rs`, `random.rs` | clock, requests on the fly, memo per client, counters | call, wait, harvest, stop, report | `Fuzzer` |
| Reference client, `refcli/src/main.rs` | a sorted map | one answer per call | `RefCli`, with the fuzzer `RefFuzz` |
| Client process handle, `runner/src/proc.rs` | two channels, a driver thread, the child and its pipes | `send_call`, `wait_resp`, `stop`, the driver's loop | `ClientProc`, abstractly `Link` |
| YCSB feeder, `bencher/ycsb.rs` | keys inserted so far, statistics | `feed_a_line`, `feeder_thread`, `exec`, `wait` | `Bencher` (and the owner of `ClientProc`) |
| Bencher, `bencher/main.rs` | phase, drivers, merged statistics | `ycsb_bench`, `Stats::merge` | `Bencher` |
| Ordering graph, convergence level, `pmodel/PSpec/Consistency.p` | stack, colours, reachability, parents | one iteration of the coloured traversal | `Convergence` |
| Ordering graph, relationship level, same file | the level found so far | one pair of nodes | `Relationship` |
| Consistency models, same file | the two levels | `SatisfiedConstraints`, six `Assert` functions | `Consistency` |
| Object pool and its monitor, `pmodel/PSrc`, `PSpec/RefObjPool.p` | machines with queues; the monitor's history | request, serve, announce | `ObjPool` |

`PROJECT.json` lists every component, those left out included (section 7).

### How they interact

The fuzzer and the bencher own one `ClientProc` per client.  A call goes through
a channel to the driver thread, as a line to the child, and the response comes
back the same way; the owner waits with a timeout.  The fuzzer's single thread
multiplexes all its clients: it has at most one request per client on the fly,
stamps calls and responses with a logical clock, and feeds both to the `History`,
which decides about a response as soon as no client can still acknowledge an
update that began before it.  The bencher runs one feeder thread per client and
joins them in order, twice.  In `pmodel`, client machines send requests to the
service and announce what they see to a monitor, which keeps an ordering graph
and applies `ConvergenceConformity` and `RelationshipConformity` to it.

### What is hard, and what makes each part correct

* **Checker.**  It forgets: spans are trimmed and a response is checked once, at
  a moment chosen from a timestamp bound.  Both must be invisible: the verdict
  has to be the one the full history gives, then and for ever
  (`VerdictsFinal`, `TrimInvisible`), no decidable response may be left
  (`NoOverdueCheck`), none dropped or counted twice (`ResponsesAccounted`).
  In one sentence: it is a checker that keeps everything (`CheckerIsOracle`).
* **Fuzzer.**  Calls overlap, and a response is stamped with the time its *wait*
  began, although the answer may take effect later.  It must not accuse a
  linearizable store (`NoFalseAlarm`), must be exact where no
  concurrency excuses an approximation (`SoloExact`), may not use a client in a
  way its handle is not made for (`LinksKept`), and must end whatever its clients
  do (`Terminates`, `CompletesHealthy`).
* **Process handle.**  Timeouts race late answers; the child can die, hang or
  print garbage at any step, in the middle of a listing too.  An answer must
  never be credited to the wrong call (`ResponseMatchesCall`), what is printed must
  be what is read (`ReadBack`), a successful stop must leave nothing behind
  (`CleanStop`, `DriverEnds`), and the owner must get out (`OwnerReturns`) and see
  no more than calls and their answers (`ImplementsLink`).
* **Bencher.**  Some feeders fail while others go on; the keys of the load phase
  have to reach every feeder of the run phase (`KeysCarriedOver`), a failure has
  to fail the benchmark (`NoFailureMasked`), phases must not overlap
  (`NothingLeftBehind`).
* **Ordering graphs.**  P leaves the order of set iteration open, and the
  algorithms are single-pass.  Their answers must not depend on the order
  (`LevelRight`, `LevelExact`), what one hands the other must be what it relies on
  (`HandOver`), together they must mean the consistency model they are named for
  (`TotalOrdersMean`, `PartialOrdersMean`), and they have to return.
* **Object pool.**  Responses are announced in another order than they were
  served in (`MonitorAccepts`, `MonitorPoolCatchesUp`).

The full list, with source lines, is under `hazards` in `PROJECT.json`.

## 2. The modules

    KvApi -- History -- Fuzzer -+- FuzzLin     fuzzer + a linearizable service
                                +- RefFuzz     fuzzer + RefCli
                                +- FuzzerRefines   implements Oracle, uses Link
    Wire -- ClientProc                          implements Link
    Bencher                                     what happens around ClientProc
    Convergence, Relationship -- Consistency    pmodel, the ordering graphs
    ObjPool                                     pmodel, the demonstration
    HistoryProofs -- FuzzerProofs -- FuzzerRefinesProofs -- FuzzLinProofs
    ClientProcProofs,   BencherProofs,   ConsistencyProofs,   ObjPoolProofs
    MCFuzzer, MCFuzzLin, MCRefFuzz, MCClientProc, MCConsistency   for TLC

Three refinements tie the parts together.  `Oracle` is the checker without its
bookkeeping: it keeps the whole history and judges the oldest responses when an
update is acknowledged; `History`, as the fuzzer uses it, implements it
(`CheckerIsOracle`).  `Link` is the contract of a client handle: one call at a
time, answered by a response to that call or never.  `ClientProc` implements it
(`ImplementsLink`), and the fuzzer, which models a client as such a link, takes
only its steps (`LinksKept`): so the fuzzer's model of a client is what
`proc.rs` provides.

Definitions whose comment begins with "Mutant:" are plausible mistakes in the
code; `PROJECT.json` says which definition each stands in for and which
property it breaks.

**KvApi, History.**  Pure operators.  Keys are naturals (only their order
matters), values are opaque.  `add_to_queue` inserts by response time;
`SpansAfter` is the push and the trim of `apply_update`; the pop loop, which
checks from the front of the queue while the front is older than
`min_coming_ts` and stops at the first failure, is described by how far it gets
(`NumPopped`) and whether it failed (`Failing`).  `CheckSpans` is the loop shared by the
five `check_*` functions; the wanted values are what the response claims of a key
(`Claim`).

**Fuzzer.**  One action per thing the thread can do at the top of its loop
(`Call`, `BeginWait`) and per way a wait can end (`HarvestRead`,
`HarvestUpdate`, `HarvestStop`, `HarvestErr`).  `HarvestUpdate` is the whole
handler: queueing, push, trim, all the checks and the exit.  Waiting is split
in two because the clock ticks before the thread blocks and clients
act in between.  What a client process says is `Replies(call)`, a parameter.  The
ghosts `acked` (all acknowledged updates, never trimmed) and `decided` (popped
responses with their verdicts) are only written.  Counters that are only
printed are left out.

**FuzzLin** replaces the arbitrary answers by those of a store in which each call
takes effect at one instant.  The service is external to the repository; what is
assumed of it is `ServiceAssumption`, written without reference to the checker.
Its steps of the fuzzer are those of `Fuzzer`, and its service answers with
`Replies` (`ServiceReplies`), so what is shown of `Fuzzer` carries over.  **RefFuzz** gives every
client a `refcli` of its own, answering as `handle_kv_call` does.

**Wire** has the text of the interface.  A line is the sequence of its segments
and whether they are one space apart, which only the test for `SCAN END` can
tell.  `from_read` is called line by line, with the listing read so far.  Blank
lines, which both readers skip, are left out.

**ClientProc** has three actors: the owner, the driver thread and the child,
which reads and prints lines like the reference client.  What it answers is a
parameter (`Answers`).  The owner makes calls until one fails, then stops the
client in any case (the feeder of the bencher) or drops the handle (the fuzzer
after an error or a failed check).  A receive with a timeout may fail whenever the
channel is empty.  A child that exits leaves a driver in `from_read` reading blank
lines for ever (`read_next_line` does not tell end of file from an empty line);
such a driver is simply never able to take another step.  The child confirms a
STOP only when it read one; what the fuzzer makes of an unasked STOP
(`fuzzer/main.rs:118`) is in `Fuzzer` (`HarvestStop`, run `solo`).  The ghosts `served`
and `said` record what the child has read and answered.

**Bencher** abstracts a call to success or failure.  Of the statistics it has
the operation counts (a sum) and the average latencies (the weighted mean).  The
end of a scan is computed as in `interpret_ycsb_call`, from the keys the feeder
knows.  A YCSB process may end without its statistics, or with those of some
kinds of operations only: for the feeder that is the end of the workload all the
same.

**Convergence** takes one iteration of the traversal's loop per step, with every
graph, head and set of explained edges as an initial state and every order of
pushing neighbours.  **Relationship** takes one pair of nodes per step, in any
order, over every assignment of sessions, timings and reachability.
**Consistency** is `SatisfiedConstraints`: the steps of the one, then, unless the
graph is malformed, of the other, over the map the first leaves, and the six
`Assert` functions as predicates on the result.  The assertions inside the
functions (`Consistency.p:99`, `122`) are kept: `ChildrenDone` is the first, and a
failure of the second would be a level of its own, `FAILED`, which `LevelRight`
excludes.  Sessions and timestamps belong to
the graph from the start; since only the second part reads them, they are chosen
when it begins, which leaves the first part with far fewer states.
**ObjPool** is the P program with its FIFO queues; the monitor runs inside
`announce`, thus in the step of the announcing client.  Its graph has the nodes
and the `next` edges of `RefObjPool.p`.  `AssertLinearizability` is the whole
assertion: no dangling edge, no cycle, every node reached from the head, each pool
made from a parent's by the operation (else NPO), one edge out of each node (else
CPO), and no pair of nodes against real time.  `ConvergenceConformity` and
`RelationshipConformity` are given there by what they return, not by their loops:
that is what `LevelRight`, `HandOver` and `LevelExact` establish of the loops in
`Consistency`.  `GetTimestamp` is a wall clock that may stand still from one
call to the next and is not set back.

## 3. What TLC checks

| Run | Configuration | What it shows |
|---|---|---|
| `race` | 2 clients, 1 key, 1 value, Put/Get/Delete, 4 calls | The checker's bookkeeping under every interleaving, with clients that answer anything and drivers that die: `TypeOK VerdictsFinal TrimInvisible NoOverdueCheck ResponsesAccounted`; the refinements `CheckerIsOracle` and `LinksKept` |
| `solo` | 1 client, 2 keys, all five operations, 3 calls, ill-formed scans, answers to other questions and unasked stops | The approximation is exact for reads of a single client, and for updates lets only their own value through besides (`SoloExact`); the fuzzer returns (`Terminates`) |
| `lin_alarm` | linearizable service, 2 clients, 1 key, Swap/Get/Delete, 5 calls | `NoFalseAlarm`, with client deaths |
| `lin_healthy` | linearizable service without faults, 2 clients, 2 keys, Put/Scan/Delete, 3 calls | `NoFalseAlarm` for scans; `CompletesHealthy` without timeouts |
| `client_proc` | Put, Get and Scan with listings of up to 2 entries, 2 calls | `ResponseMatchesCall ReadBack CleanStop OneInFlight ImplementsLink OwnerReturns DriverEnds` |
| `bencher` | 2 clients, 2 keys, 2 calls per feeder and phase, scans of 1 or 2 | `KeysCarriedOver NothingLeftBehind NoFailureMasked ScanCovers OpsSummed BenchReturns` |
| `consistency` | all graphs on 3 nodes from one head, plus a dangling ID; 2 sessions, timestamps to 2 | `LevelRight ChildrenDone HandOver LevelExact TotalOrdersMean PartialOrdersMean TerminatesOnTrees` |
| `objpool` | 2 clients, 1 key, 2 requests each, timestamps to 2 | `MonitorAccepts MonitorPoolCatchesUp AllFinish` |
| `ref_scan` | reference client, 2 keys, 4 calls | *violated*: finding 1 |
| `dfs_spins` | 3 nodes | *violated*: finding 2 |
| `merge_average` | 3 clients, one call each | *violated*: finding 3 |
| `spaces` | as `client_proc`, with a client that may print more spaces | *violated*: finding 4 |

Why the bounds are enough for the cases to happen.  Trimming needs two finished
updates of one client to one key and a queued or later call that still needs
the older one; a wrong bound for the pop loop needs an update of one client
overlapping a checked response of another.  Three calls make either
possible, and the fourth (fifth in `lin_alarm`) lets the checker act on it.
`REMAIN_THRESH` is small so that both `PASSED` and `UNFAIR` are reported.  One
value suffices for point operations, since absent is a second one.  Two keys are
needed only for scans.  Two clients are enough for the checker: its spans of
different clients meet only through minima over all of them, and the theorems of
section 5 hold for any number.  Symmetry under permutation of clients is
used only in runs without liveness properties; values and keys are never
permuted.  In
`client_proc` the second call, or the STOP, shows what the late answer of an
earlier one can do; two entries make a listing that can be cut at its beginning,
in the middle and before its end.  Three nodes contain the DAG on which the
traversal spins, all cycles and all kinds of unreachable nodes.  The traversal
treats all nodes alike, so the head is fixed in `consistency`; it is a read, and
of the other two operations one is a write, so that a read before a write, the
exception of FIFO, is possible.
The relationship levels speak about pairs; a third operation makes the order of
pairs matter, and timestamps to 2 are enough for two operations of a session in
a row, one of another session during both.  In `objpool` the pool starts with
a value other than the 0 that is written, so that the order of a write and a
read shows in the pools, for which one key is enough; with timestamps to 2 calls
fall into the same tick and into different ones.

Deadlock is checked in every run: each specification ends in an explicit step
of the finished program (`Done`, `Returned`, `SCDone`, `Quiet`), so a state in which
everyone waits would be reported.

## 4. Fairness

* `Fuzzer!FairSpec`: weak fairness of the fuzzer's thread as a whole.  It is a
  running thread, and every `wait_resp` ends by `RESP_TIMEOUT`; `HarvestErr` is
  that end.  Nothing is assumed of clients.
* `FuzzLin!HealthySpec`: the fuzzer's thread, and that the service answers every call
  before its timeout.  This is the assumption of a healthy service, not a
  property of the code; deaths and timeouts are left out of this specification.
* `ClientProc`: the owner's thread (whose receives time out) and the driver
  thread.  The child may hang for ever.
* `Bencher`: the main thread, whose wait ends by `YCSB_TIMEOUT`.  Feeders may
  hang.
* `Convergence`, `Consistency`: a P function that was called runs to its end.  `Spin` is a step of the loop that changes
  nothing, so fairness does not help a traversal that reached it.
* `ObjPool`: each P machine with an event to handle is scheduled, as P's fair
  schedules do.

## 5. What is proved

All theorems hold for every value of the constants that satisfies the named
assumptions: keys are naturals and `Null` is no value (`KvApi`); there are finitely many
clients and at least one, every client has keys, `TotalOps` and `REMAIN_THRESH` are naturals and clients
answer with responses of the interface (`Fuzzer`); the service answers as a
linearizable store does (`ServiceAssumption`), with responses the fuzzer reckons with
(`ServiceReplies` of `FuzzLin`); the calls and answers of a client process are
those of the interface, without a value `null` and without an entry `SCAN END`
(`WorkloadAssumption` of `ClientProc`; its comment says why the workloads have
neither); there is a client to bench, keys are naturals, and counts and latencies
are what they are called (`BencherAssumption`); there is a key in the pool, its
values, the number of requests and the bound on timestamps are naturals
(`PoolAssumption`).  TLC evaluates all of them on
the instances of section 3.

**FuzzerProofs.**  For any number of clients, keys and operations, and client
processes that answer anything:

* `TypeCorrect`: `Spec => []TypeOK`;
* `VerdictsAreFinal`: `Spec => []VerdictsFinal`;
* `NoCheckOverdue`: `Spec => []NoOverdueCheck`;
* `TrimLosesNothing`: `Spec => []TrimInvisible`.

None of these is inductive.  The invariant `IndInv` adds

* `Stamps`: recorded times are not in the future, a request on the fly began
  after the last acknowledged update of its client, and only requests on the fly
  are waited for;
* the queue is sorted by response time (`QueueOrdered`) and lies in the past;
* `AckedBefore`: no acknowledged update is later than `maxtr` of its client;
* `DecidedBefore`: what has been decided lies before everything that can still be
  acknowledged; this is what makes verdicts final, and it is here that the
  minimum in `min_coming_ts` is needed;
* `MirrorsAll`: for each key and client the spans in the deque are one after the
  other, and are exactly the client's acknowledged updates to the key but for
  those over before the first span began; and if there are any of those, that
  first span was itself over before every check still to come.

The clauses after `VerdictsFinal` are only asked for while no violation was
found: the loop is left in the middle of the pops then.

The argument has three layers.  `HistoryProofs` characterises the trim and the
pop loop as operators on sequences (`TrimSuffix`, `PopLoop`); then it
relates a deque to the untrimmed record: it is kept by a push, by
another client's push and by a trim (`PushMirrors`, `OtherMirrors`,
`TrimMirrors`), and a deque that mirrors the record gives the same answer to
every check still to come (`CheckExact`, `CheckCallExact`); `VerdictStable`
says that later updates do not change an answer.  `FuzzerProofs` then has one
lemma per action.

**FuzzerRefinesProofs.**  The fuzzer against its two abstract specifications,
from `IndInv` and further invariants:

* `FuzzerKeepsLinks`: `Spec => LinksKept`.  `LinksTied`: while the loop runs, a
  request is on the fly exactly where the link is not at rest.
* `AllResponsesAccounted`: `Spec => []ResponsesAccounted`.  Response times in the
  queue strictly increase (`QueueStrict`), and a new one is later than all that
  were decided, so the pop loop adds as many elements to the set `decided` as it
  takes off the queue; `Tally` has the sum.
* `CheckerImplementsOracle`: `Spec => CheckerIsOracle`.  Each handler maps to the
  step of `Oracle` that judges the same responses; the verdicts agree because the
  deques mirror the record (`CheckCallExact`), the set of responses judged
  because the queue is sorted.
* `SoloChecksExact`: `Spec => []SoloExact`.  `SoloInv`: the calls of a single
  client follow one another, so each response harvested so far is before, after or
  in answer to each acknowledged update (`InTurn`), the updates of a key come one
  after the other, and the call on the fly began after all responses.  With
  `VerdictsFinal` it remains to show that an admissible update is the last one
  over before the call, or the call's own (`SoloAdmissible`).

**FuzzLinProofs.**  `NeverAFalseAlarm`: `LSpec => []NoFalseAlarm`.  The invariant
of `Fuzzer` holds with the service too, since each step of the composition is a
step of `Fuzzer` (`LNextIsNext`).  A call takes effect when it is answered, or when
its client dies, and is acknowledged later or never.  The invariant `LinInv` says
that what is in the store was written by a call that took effect and is not
acknowledged yet, or by an acknowledged update that its client has not replaced
since (`StoreWritten`); and that each reply under way, and each response in the
queue, claims of a key only what an acknowledged update makes admissible, or
a call that took effect and began before the response (`RepliesBacked`,
`QueueBacked`).  Such a call can only become acknowledged, with the newest stamp
there is, which supports the claim as well (`Grows`).  When the response is
checked, by the minimum in `min_coming_ts` no call still on the fly began before
it, so the claim rests on acknowledged updates alone, and the check passes.

**ClientProcProofs.**  For any workload, any answers and any length of listings:
`ClientProcTypes`, `OneRequestAtATime`, `ResponsesMatch`, `StopsClean`,
`AnswersReadBack` and the refinement `ProcImplementsLink` (the properties `TypeOK`,
`OneInFlight`, `ResponseMatchesCall`, `CleanStop`, `ReadBack`, `ImplementsLink`).
The invariant `ProcInv` follows a request on its way:

* `Channels` and `Replied`: the call channel holds the open call until the driver
  takes it, then at most the STOP; the response channel an answer to the open
  call, then the confirmation of the STOP, and never the one in the place of
  the other;
* `Counted`: the child has read just the calls sent as long as the owner goes
  on, so what it said last is what it said to the last call;
* `Pipes`: while the driver reads, the request is in the pipe, or the lines of
  its answer are split between what was read (as a partial listing), what is in
  the pipe and what the child is still to print (`ReadSoFar`, `UnderWay`).

The lemmas before it are about the text: `CallParsed` (the child parses what
`into_write` wrote), `OneLine`, `FirstRead`, `EntryRead`, `EndRead` and, as their
sum, `ReadLine`: each line `write_response` prints takes `from_read` from one partial
listing to the next, and the last one to the response.  No induction over
listings is needed, since the invariant has a position in them.  Everything but
`AnswersReadBack` holds for clients that print more than one space as well: a
listing whose end goes unrecognised (`Overrun`) is never completed, so no wrong
answer comes of it.  `AnswersReadBack` needs `~Wide`; the run `spaces` shows
that it does.

**BencherProofs.**  For any number of clients, keys and calls: first `BencherTypes`,
`NoKeyForgotten`, `PhasesApart` and `FailuresReported` (the properties `TypeOK`,
`KeysCarriedOver`, `NothingLeftBehind`, `NoFailureMasked`), which speak of the
boundary between the phases.  `BenchInv` says what holds on the way there: the
drivers waited for have returned at the end of their lines (`WaitedEnded`), only
the others have processes (`UpNow`), a feeder that gave up has not come to the
end of its lines (`LostNow`), and each stored key was handed back or is with a
feeder still to be waited for (`StoredKept`).

`ScansCoverTheirCount` (`ScanCovers`): the keys a feeder knows are finitely many
(`KeysBounded`), and the number of keys up to a key, counted from the start of
the Scan on, goes up by one from key to key, so that some key has just the
number asked for if there are that many (`RankTaken`).

`MergedCountsAddUp` (`OpsSummed`): `ReportsInv` says who has reported in which phase
and that the statistics are the totals of the clients merged so far; `MergeTotals`
is the step of `Stats::merge`, for the kinds both sides have and for those only one
has.  Under it are facts about `MapThenSumSet`: its recursive function exists
(`SumExists`), and adding one element adds its count whatever order the function
chooses (`SumOfAdd`).  Both argue by a smallest counterexample among the subsets
of a finite set (`SmallestBad`), where induction is out of reach.

**ObjPoolProofs.**  For any number of clients, keys and requests: `PoolTypes`,
`AlwaysAccepted` and `CatchesUp` (the properties `TypeOK`, `MonitorAccepts`,
`MonitorPoolCatchesUp`).  The graph is `Chained`: each node but the last has one
edge, to the next (`OneEdge`), each pool is what the node's operation makes of the
pool before it (`PoolFollows`), and no node began after a later one was answered.
`AppendResponse` keeps it so (`ChainGrows`), for what it appends is stamped no
earlier than everything in the graph began (`Stamped`).  In a chain a node reaches
exactly the later ones (`ChainReaches`, by a least counterexample), hence it is
well-formed, at level SO, and no pair is against real time (`ChainAccepted`).  Its
pool catches up because all values are 0: a key once written stays 0 at the
service, and where the monitor's pool differs a write of that key is still to be
announced (`Behind`).

**ConsistencyProofs.**  For any finite set of nodes with a head, any edges (also
out of the graph), any order in which P lists neighbours and pairs, and any
sessions and timestamps (`GraphAssumption`, `OpsAssumption`, `TsAssumption`):

* `SCTypes`, `LevelsRight`, `AssertionHolds`, `HandedOver`: the traversal
  (`SCTypeOK`, `LevelRight`, `ChildrenDone`, `HandOver`);
* `PassExact` and `ConstraintsExact`: the pass alone, and the pass over the
  map the traversal leaves (`LevelExact`);
* `PartialOrders` and `TotalOrdersRight`: what the six assertions mean
  (`PartialOrdersMean`, `TotalOrdersMean`).

The reference for reachability has no path and no recursion: `Reachable(n)` is what
every closed set with the neighbours of `n` contains.  The traversal's invariant
`Traversed` says of each node in progress that it is on the stack, that what is
above it is reached from it, and that each of its neighbours is finished or above it
(`GrayAbove`).  Hence an edge back to a node in progress closes a cycle
(`RejectRight`), and a node in progress that is on top has only finished neighbours
(`FinishKeeps`).  Finished nodes have the right map and stay among themselves
(`BlackDone`); with the head at the bottom of the stack (`HeadFirst`) and the count
of finished nodes (`LocalsRight`) this decides `WellFormed` when the stack is
empty (`CountRight`).  The pass is exact because the violations nest
(`ViolationsNest`): a pair that violates FIFO violates CASL, and one that violates
CASL violates RT, so a pair that passed a test need not be looked at again when
the level is lowered.  For the total orders, `OrderReaches` shows that a position
reaches exactly the later ones and `ChainHasOrder` builds the order of a chain,
whose positions are the numbers of nodes reached (`RankOneToOne`); both argue by
a least counterexample (`Upward`).

That the traversal ends is another matter: it need not (finding 2 below), and
these theorems are about what it returns when it does.

### Only model-checked

Liveness (`Terminates`, `CompletesHealthy`, `OwnerReturns`, `DriverEnds`,
`BenchReturns`, `AllFinish`, `TerminatesOnTrees`) is out of the prover's reach.
Every invariant and every refinement the runs check is proved as well.

## 6. Disagreements found

1. **Reference client and scans** (`ref_scan`).  `refcli/src/main.rs:110` lists
   `state.range(key_start..key_end)`, without the end key.  `README.md:411-415`
   shows the end key in the output, and `check_scan` (`history.rs:297`) expects it.
   The fuzzer reports its own reference client as inconsistent.
2. **The traversal does not return on some DAGs** (`dfs_spins`).
   A node on the stack twice is never popped the second time
   (`pmodel/PSpec/Consistency.p:95-110`): `0 -> {1, 2}`, `2 -> 1` loops for ever.
   On trees, among them the chains of the object pool monitor, it returns.
3. **Merged average latency** (`merge_average`).  `Stats::merge` never increases
   `merged` (`bencher/main.rs:92`), so that from the third client on the average
   depends on the order: 0, 0 and 12 give 6.
4. **The end of a listing** (`spaces`).  `ioapi.rs:169` compares the trimmed line
   with `"SCAN END"`, while `README.md:421` says that the number of spaces does not
   matter.  A client that prints more of them has the end taken for an entry, and
   its Scan times out.

Seen in the code, without a run of their own:

* `ClientProc::stop` kills the child only after the wait for its confirmation
  succeeded (`proc.rs:99-110`); on a timeout the child and the driver thread
  are left behind.  `CleanStop` is therefore about successful stops.
* `numVals` of the P client is never assigned (`PSrc/Client.p:17`), so all written
  values are 0.  `MonitorPoolCatchesUp` rests on that.
* The assertions of the weaker consistency models compare levels with `==`
  (`Consistency.p:228`): a history that is stronger than asked for fails.  With an
  RT or CASL level and a convergence level that no model combines it with (CPO
  with RT, NPO with CASL), all six fail.  `TotalOrdersMean` and
  `PartialOrdersMean` state the exact meaning.
* A value `null` reads back as absent, and an entry `SCAN END` ends a listing
  (`ioapi.rs:149`, `169`); neither text occurs in the workloads, and `Answers` has
  neither.
* The end of YCSB's output counts as the end of the workload even if YCSB died
  (`bencher/ycsb.rs:241`): the benchmark then succeeds without its statistics.
* `refcli` and the driver thread loop for ever at end of file
  (`refcli/src/main.rs:195`, `ioapi.rs:84`).
* `PForeign/Timestamp.cs:14` returns the wall clock, while `Timestamp.p:2` assumes
  unique, increasing values.  Equal values do no harm (`MonitorAccepts` allows
  them); a clock that is set back would make the monitor fail, and is left to that
  assumption.

## 7. Not modelled

* The text of the lines YCSB prints (`interpret_ycsb_call`, `record_ycsb_perf`):
  `Bencher` has what they lead to.  Of the statistics, total time, throughput,
  minima, maxima and percentiles are left out; they go through the same `merge`
  as the counts and averages that are modelled, combined by sum, minimum or
  maximum.
* The handcrafted P tests: fixed graphs, covered by the runs over all graphs.
* The service launcher and `ServerProc`: they spawn a process and wait.
* `error.rs`: conversions of error types.
* `sumgen/`, the `Justfile` and `justmod/`: text processing and shell recipes.

## 8. Plan

The modules were written in the order of importance: `KvApi`, `History`,
`Fuzzer`; then the compositions `FuzzLin` and `RefFuzz`; `ClientProc`; the two
levels of the ordering graph; `ObjPool`; `Bencher`; then `Wire`, the abstract
specifications `Oracle` and `Link`, and the composition `Consistency`.  The proofs
follow the same order: the checker in `Fuzzer`, its refinements, the linearizable
service, `ClientProc`, `Bencher`, `ObjPool`, `Consistency`.  Still to do:

1. The index arithmetic of `justmod/xtract.py` (partitions, replicas, peers).
