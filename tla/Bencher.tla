------------------------------- MODULE Bencher --------------------------------
(***************************************************************************)
(* The YCSB bencher (runner/src/bin/bencher/main.rs and ycsb.rs): a load   *)
(* phase and a run phase, each with one YCSB process, one feeder thread    *)
(* and one client process per client.  A feeder turns the lines of its     *)
(* YCSB process into calls, remembers the keys it inserted and, at the end *)
(* of the lines, hands them over with its statistics.  The main thread     *)
(* waits for the feeders in order, merges what they return and gives the   *)
(* keys of the load phase to the feeders of the run phase.                 *)
(*                                                                         *)
(* What happens inside a call is module ClientProc; here it succeeds or    *)
(* fails.  Keys are naturals, for their order.  Of the statistics there    *)
(* are the number of operations and the average latency of each kind; the  *)
(* other fields are merged alike, by a sum, a minimum or a maximum.        *)
(***************************************************************************)
EXTENDS Naturals, FiniteSetsExt

CONSTANTS NumClis,   \* num_clis
          Keys,      \* keys YCSB may use
          Counts,    \* the lengths of its scans
          MaxOps,    \* calls of one feeder in one phase
          Latencies  \* average latencies a YCSB process may report

ASSUME BencherAssumption ==
    /\ NumClis \in Nat \ {0}
    /\ Keys \subseteq Nat
    /\ Counts \subseteq Nat \ {0}
    /\ MaxOps \in Nat
    /\ Latencies \subseteq Nat

VARIABLES
    phase,    \* "load" or "run"
    pc,       \* main: "launch" or "wait" within a phase; "ok" or "failed" at the end
    cur,      \* the client whose driver main is launching or waiting for
    given,    \* the keys handed to the feeders of the phase
    ikeys,    \* the keys handed back so far
    stats,    \* per phase, the merged statistics
    up,       \* the YCSB processes running, as pairs of a phase and a client
    feeder,   \* per client, "none", "feeding", "stopping" or "returned"
    ended,    \* per client, whether its lines came to their end
    fkeys,    \* per client, the feeder's own ikeys
    num_ops,  \* per client, the calls it made, by kind
    scan,     \* the Scan of the last step, if it made one
    reports,  \* per phase, the statistics its feeders returned
    stored,   \* ghost: the keys whose INSERT was answered in the load phase
    lost      \* ghost: the feeders that gave up, like up

mvars == <<phase, pc, cur, given, ikeys, stats, up>>
fvars == <<feeder, ended, fkeys, num_ops, scan, reports, stored, lost>>
vars == <<mvars, fvars>>

Clients == 1..NumClis
Phases == {"load", "run"}
OpsOf(ph) == IF ph = "load" THEN {"INSERT"} ELSE {"INSERT", "UPDATE", "READ", "SCAN"}
NoOps == [op \in OpsOf("run") |-> 0]

\* Statistics: merged is the number of clients in them, the rest is by kind.
NewStats == [merged |-> 0, num_ops |-> <<>>, lat_avg |-> <<>>]

Init ==
    /\ phase = "load" /\ pc = "launch" /\ cur = 1
    /\ given = {} /\ ikeys = {} /\ up = {}
    /\ stats = [ph \in Phases |-> NewStats]
    /\ feeder = [c \in Clients |-> "none"]
    /\ ended = [c \in Clients |-> FALSE]
    /\ fkeys = [c \in Clients |-> {}]
    /\ num_ops = [c \in Clients |-> NoOps]
    /\ scan = {}
    /\ reports = [ph \in Phases |-> <<>>]
    /\ stored = {} /\ lost = {}

------------------------------------------------------------------------------
(***************************************************************************)
(* The feeder of a client.  It acts while the bencher runs.                *)
(***************************************************************************)
Feeding(c) == pc \in {"launch", "wait"} /\ feeder[c] = "feeding"

\* Stands for "zzzzzzzz", which comes after every key.
Top == Max(Keys) + 1

\* Mutant: the entry after the one asked for.
ScanEnd_OffByOne(known, start, count) ==
    LET from == { k \in known : k >= start }
        nth  == { k \in from : Cardinality({ j \in from : j <= k }) = count + 1 }
    IN  IF known = {} THEN Top ELSE IF nth = {} THEN Max(known) ELSE Max(nth)

(***************************************************************************)
(* The end of a Scan of so many entries: the count-th known key from the   *)
(* start on, the last known key if there are fewer.                        *)
(***************************************************************************)
ScanEnd(known, start, count) ==
    LET from == { k \in known : k >= start }
        nth  == { k \in from : Cardinality({ j \in from : j <= k }) = count }
    IN  IF known = {} THEN Top ELSE IF nth = {} THEN Max(known) ELSE Max(nth)

\* interpret_ycsb_call: an INSERT is remembered before the call is made.
KnownAfter(c, op, k) == IF op = "INSERT" THEN fkeys[c] \cup {k} ELSE fkeys[c]

ScanFrom(c, k, n) ==
    [known |-> fkeys[c], start |-> k, count |-> n, end |-> ScanEnd(fkeys[c], k, n)]

CallsMade(c) ==
    num_ops[c]["INSERT"] + num_ops[c]["UPDATE"] + num_ops[c]["READ"] + num_ops[c]["SCAN"]

\* A call line: the call is made and answered.
FeedCall(c) ==
    /\ Feeding(c)
    /\ CallsMade(c) < MaxOps
    /\ \E op \in OpsOf(phase), k \in Keys :
         /\ fkeys' = [fkeys EXCEPT ![c] = KnownAfter(c, op, k)]
         /\ num_ops' = [num_ops EXCEPT ![c][op] = @ + 1]
         /\ scan' \in IF op = "SCAN" THEN { {ScanFrom(c, k, n)} : n \in Counts } ELSE {{}}
         /\ stored' = IF phase = "load" THEN stored \cup {k} ELSE stored
    /\ UNCHANGED <<mvars, feeder, ended, reports, lost>>

\* A call that fails, or a line that is no good, ends the feeding.
FeedErr(c) ==
    /\ Feeding(c)
    /\ feeder' = [feeder EXCEPT ![c] = "stopping"]
    /\ lost' = lost \cup {<<phase, c>>}
    /\ fkeys' \in {fkeys} \cup { [fkeys EXCEPT ![c] = @ \cup {k}] : k \in Keys }
    /\ scan' = {}
    /\ UNCHANGED <<mvars, ended, num_ops, reports, stored>>

\* The end of the lines: YCSB is through, or died on the way.
EndOfFile(c) ==
    /\ Feeding(c)
    /\ feeder' = [feeder EXCEPT ![c] = "stopping"]
    /\ ended' = [ended EXCEPT ![c] = TRUE]
    /\ scan' = {}
    /\ UNCHANGED <<mvars, fkeys, num_ops, reports, stored, lost>>

\* What record_ycsb_perf gathered of these kinds, merged set to 1 by feeder_thread.
PerfOf(c, kinds, lat) ==
    [merged |-> 1,
     num_ops |-> [op \in kinds |-> num_ops[c][op]],
     lat_avg |-> [op \in kinds |-> lat]]

\* The kinds YCSB prints statistics of, at the end of its lines: those it did, or
\* only part of them, if it died before or while it printed.
KindsReported(c) == SUBSET { op \in OpsOf(phase) : num_ops[c][op] > 0 }

\* The client is stopped, successfully or not, the signal sent, and the thread
\* returns its statistics if its lines came to their end.
FeederReturns(c) ==
    /\ pc \in {"launch", "wait"}
    /\ feeder[c] = "stopping"
    /\ feeder' = [feeder EXCEPT ![c] = "returned"]
    /\ IF ended[c]
       THEN \E kinds \in KindsReported(c), lat \in Latencies :
              reports' = [reports EXCEPT ![phase] =
                 [d \in DOMAIN @ \cup {c} |-> IF d = c THEN PerfOf(c, kinds, lat) ELSE @[d]]]
       ELSE UNCHANGED reports
    /\ scan' = {}
    /\ UNCHANGED <<mvars, ended, fkeys, num_ops, stored, lost>>

------------------------------------------------------------------------------
\* Stats::merge_map: both gives the merged values of the kinds both sides have;
\* a kind only one side has is taken over as it is.
merge_map(f, g, both) ==
    [op \in DOMAIN f \cup DOMAIN g |->
        IF op \in DOMAIN both THEN both[op] ELSE IF op \in DOMAIN f THEN f[op] ELSE g[op]]

\* Mutant: what was merged before is overwritten.
merge_Replace(s, other) == other

\* Stats::merge, which leaves merged as it is.
merge(s, other) ==
    LET common  == DOMAIN s.num_ops \cap DOMAIN other.num_ops
        sum     == [op \in common |-> s.num_ops[op] + other.num_ops[op]]
        average == [op \in common |->
                      (s.lat_avg[op] * s.merged + other.lat_avg[op] * other.merged)
                        \div (s.merged + other.merged)]
    IN  IF s.merged = 0 THEN other
        ELSE [merged  |-> s.merged,
              num_ops |-> merge_map(s.num_ops, other.num_ops, sum),
              lat_avg |-> merge_map(s.lat_avg, other.lat_avg, average)]

\* A driver is launched for the next client; feeders of earlier ones already run.
Launch ==
    /\ pc = "launch"
    /\ up' = up \cup {<<phase, cur>>}
    /\ feeder' = [feeder EXCEPT ![cur] = "feeding"]
    /\ ended' = [ended EXCEPT ![cur] = FALSE]
    /\ fkeys' = [fkeys EXCEPT ![cur] = given]
    /\ num_ops' = [num_ops EXCEPT ![cur] = NoOps]
    /\ pc' = IF cur = NumClis THEN "wait" ELSE "launch"
    /\ cur' = IF cur = NumClis THEN 1 ELSE cur + 1
    /\ scan' = {}
    /\ UNCHANGED <<phase, given, ikeys, stats, reports, stored, lost>>

\* A client or a YCSB process cannot be started: the bencher returns the error.
LaunchErr ==
    /\ pc = "launch"
    /\ pc' = "failed"
    /\ scan' = {}
    /\ UNCHANGED <<phase, cur, given, ikeys, stats, up, feeder, ended, fkeys, num_ops,
                   reports, stored, lost>>

\* Mutant: the count of clients goes on from phase to phase.
NextPhase_NoReset(keys) ==
    /\ cur' = cur + 1
    /\ given' = keys /\ ikeys' = keys
    /\ phase' = IF cur < NumClis THEN phase ELSE "run"
    /\ pc' = IF cur < NumClis THEN pc ELSE IF phase = "load" THEN "launch" ELSE "ok"

\* After the last driver, the next phase begins with the keys of this one.
NextPhase(keys) ==
    IF cur < NumClis
    THEN cur' = cur + 1 /\ ikeys' = keys /\ UNCHANGED <<phase, pc, given>>
    ELSE /\ cur' = 1
         /\ given' = keys /\ ikeys' = {}
         /\ phase' = "run"
         /\ pc' = IF phase = "load" THEN "launch" ELSE "ok"

Returned == pc = "wait" /\ feeder[cur] = "returned"

\* Mutant: the keys of one client replace those of the others.
Extended_Replace(c) == fkeys[c]

Extended(c) == ikeys \cup fkeys[c]

\* Mutant: the YCSB process is not killed.
Killed_Not(c) == up

Killed(c) == up \ {<<phase, c>>}

\* YcsbDriver::wait: the feeder is joined and the YCSB process killed; what the
\* feeder returned is merged.
WaitDriver ==
    /\ Returned
    /\ ended[cur]
    /\ up' = Killed(cur)
    /\ stats' = [stats EXCEPT ![phase] = merge(@, reports[phase][cur])]
    /\ NextPhase(Extended(cur))
    /\ scan' = {}
    /\ UNCHANGED <<feeder, ended, fkeys, num_ops, reports, stored, lost>>

\* Mutant: a feeder that returned nothing is passed over.
WaitFailed_Skip ==
    /\ Returned
    /\ ~ended[cur]
    /\ up' = Killed(cur)
    /\ NextPhase(ikeys)
    /\ scan' = {}
    /\ UNCHANGED <<stats, feeder, ended, fkeys, num_ops, reports, stored, lost>>

\* The feeder returned nothing: the bencher returns an error, and leaves the
\* drivers after this one as they are.
WaitFailed ==
    /\ Returned
    /\ ~ended[cur]
    /\ up' = Killed(cur)
    /\ pc' = "failed"
    /\ scan' = {}
    /\ UNCHANGED <<phase, cur, given, ikeys, stats, feeder, ended, fkeys, num_ops, reports,
                   stored, lost>>

\* Mutant: the wait starts over.
WaitTimeout_Retry ==
    /\ pc = "wait"
    /\ feeder[cur] # "returned"
    /\ UNCHANGED vars

\* YCSB_TIMEOUT passed: the error is returned, nothing is joined or killed.
WaitTimeout ==
    /\ pc = "wait"
    /\ feeder[cur] # "returned"
    /\ pc' = "failed"
    /\ scan' = {}
    /\ UNCHANGED <<phase, cur, given, ikeys, stats, up, feeder, ended, fkeys, num_ops,
                   reports, stored, lost>>

\* main returned.
Done == pc \in {"ok", "failed"} /\ UNCHANGED vars

MainStep == Launch \/ LaunchErr \/ WaitDriver \/ WaitFailed \/ WaitTimeout
FeederStep(c) == FeedCall(c) \/ FeedErr(c) \/ EndOfFile(c) \/ FeederReturns(c)

Next == MainStep \/ (\E c \in Clients : FeederStep(c)) \/ Done

\* The main thread is scheduled and its timeouts expire.
Spec == Init /\ [][Next]_vars /\ WF_vars(MainStep)

------------------------------------------------------------------------------
\* The types of main's and the feeders' state.
TypeOK ==
    /\ phase \in Phases
    /\ pc \in {"launch", "wait", "ok", "failed"}
    /\ cur \in Clients
    /\ given \subseteq Keys /\ ikeys \subseteq Keys
    /\ up \subseteq Phases \X Clients /\ lost \subseteq Phases \X Clients
    /\ feeder \in [Clients -> {"none", "feeding", "stopping", "returned"}]
    /\ ended \in [Clients -> BOOLEAN]
    /\ fkeys \in [Clients -> SUBSET Keys]
    /\ \A c \in Clients : CallsMade(c) \in 0..MaxOps
    /\ stored \subseteq Keys

(***************************************************************************)
(* No key is forgotten between the phases: every key stored by any client  *)
(* in the load phase is known to every feeder of the run phase, which      *)
(* computes the ends of its Scans from the keys it knows.                  *)
(***************************************************************************)
KeysCarriedOver ==
    phase = "run" =>
      /\ stored \subseteq given
      /\ \A c \in Clients : (pc = "wait" \/ c < cur) => given \subseteq fkeys[c]

(***************************************************************************)
(* The phases do not overlap: when the run phase begins, no YCSB process   *)
(* of the load phase is left, and when the bencher ends well none is left  *)
(* at all and every feeder has returned.                                   *)
(***************************************************************************)
NothingLeftBehind ==
    /\ phase = "run" => \A c \in Clients : <<"load", c>> \notin up
    /\ pc = "ok" => up = {} /\ \A c \in Clients : feeder[c] = "returned"

\* A feeder that gave up is never papered over: the bencher does not go on to
\* the run phase, or end well, with the rest.
NoFailureMasked ==
    /\ phase = "run" => \A c \in Clients : <<"load", c>> \notin lost
    /\ pc = "ok" => lost = {}

(***************************************************************************)
(* A Scan that asks for so many entries covers just so many of the known   *)
(* keys, or all of them from its start on if there are fewer.              *)
(***************************************************************************)
ScanCovers ==
    \A s \in scan :
        LET from == { k \in s.known : s.start <= k }
        IN  Cardinality({ k \in from : k <= s.end })
              = Min({s.count, Cardinality(from)})

\* The sum over the clients merged so far of a number each of them reported.
Merged(ph) == IF ph = phase /\ pc = "wait" THEN 1..(cur - 1) ELSE DOMAIN reports[ph]
Having(ph, op) == { c \in Merged(ph) : op \in DOMAIN reports[ph][c].num_ops }

(***************************************************************************)
(* The operations in the merged statistics are those of all clients        *)
(* together, of kinds that only some of them had, too, and whether or not  *)
(* a YCSB process died without any, which feed_a_line takes for the end.   *)
(***************************************************************************)
OpsSummed ==
    \A ph \in Phases : pc \in {"wait", "ok"} =>
        /\ DOMAIN stats[ph].num_ops = { op \in OpsOf("run") : Having(ph, op) # {} }
        /\ \A op \in DOMAIN stats[ph].num_ops :
             stats[ph].num_ops[op]
               = MapThenSumSet(LAMBDA c : reports[ph][c].num_ops[op], Having(ph, op))

\* The bencher always returns, however its YCSB processes and clients behave.
BenchReturns == <>(pc \in {"ok", "failed"})

\* A phase whose feeders all returned and were merged.
Over(ph) == pc = "ok" \/ (ph = "load" /\ phase = "run")

(***************************************************************************)
(* "take overall average of avg latency" (Stats::merge): the merged        *)
(* average of a kind is the average over the clients that have the kind.   *)
(***************************************************************************)
OverallAverage ==
    \A ph \in Phases, op \in OpsOf("run") :
        LET have == Having(ph, op)
        IN  Over(ph) /\ have # {} =>
              stats[ph].lat_avg[op] * Cardinality(have)
                = MapThenSumSet(LAMBDA c : reports[ph][c].lat_avg[op], have)
==============================================================================
