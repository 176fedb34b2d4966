----------------------------- MODULE BencherProofs -----------------------------
(***************************************************************************)
(* What module Bencher promises, for every number of clients, every set of *)
(* keys and every length of the workload: the types, the keys handed from  *)
(* the load phase to the run phase, the processes left behind and the      *)
(* failures reported; then the ends of Scans; then the merged counts.      *)
(*                                                                         *)
(* The first properties speak of the boundary between the phases and of    *)
(* the end.  The invariant BenchInv says what must hold on the way: the    *)
(* drivers waited for so far have returned at the end of their lines with  *)
(* their process dead and their keys taken over, and the feeders not       *)
(* launched yet do nothing.                                                *)
(***************************************************************************)
EXTENDS Bencher, FiniteSetTheorems, WellFoundedInduction, TLAPS

\* The clients whose driver main has launched, and has waited for, in the phase.
Launched(c) == pc \in {"wait", "ok"} \/ (pc = "launch" /\ c < cur)
Waited(c) == pc = "ok" \/ (pc = "wait" /\ c < cur)

\* TypeOK, and the counts by kind that CallsMade adds up.
Types ==
    /\ TypeOK
    /\ num_ops \in [Clients -> [OpsOf("run") -> Nat]]

\* A driver not launched yet has a feeder that does nothing.
QuietBefore ==
    pc = "launch" => \A c \in Clients : c >= cur => feeder[c] \in {"none", "returned"}

\* A feeder that goes on has not seen the end of its lines.
FeedingNotEnded == \A c \in Clients : feeder[c] = "feeding" => ~ended[c]

\* Waiting for a driver succeeds only after the end of its lines.
WaitedEnded == \A c \in Clients : Waited(c) => feeder[c] = "returned" /\ ended[c]

\* The processes up are those of this phase that main has not waited for.
UpNow == \A ph \in Phases, c \in Clients : <<ph, c>> \in up => ph = phase /\ ~Waited(c)

\* A feeder that gave up has not come to the end of its lines since.
LostNow ==
    \A ph \in Phases, c \in Clients :
        <<ph, c>> \in lost =>
          /\ ph = phase
          /\ ~ended[c]
          /\ feeder[c] \in {"stopping", "returned"}
          /\ pc = "launch" => c < cur

\* While the load phase lasts, a stored key has been handed back, or is with a
\* feeder that main will wait for.
StoredKept ==
    phase = "load" /\ pc # "failed" =>
      \A k \in stored : \/ k \in ikeys
                        \/ \E c \in Clients : Launched(c) /\ ~Waited(c) /\ k \in fkeys[c]

BenchInv ==
    /\ Types /\ QuietBefore /\ WaitedEnded /\ UpNow /\ LostNow
    /\ StoredKept /\ KeysCarriedOver /\ FeedingNotEnded

------------------------------------------------------------------------------
\* The invariant holds when the load phase begins.
LEMMA InitBench == Init => BenchInv
<1> SUFFICES ASSUME Init PROVE BenchInv
    OBVIOUS
<1> USE BencherAssumption DEF Init
<1>1. Types
    BY DEF Types, TypeOK, CallsMade, NoOps, OpsOf, Phases, Clients
<1>2. /\ QuietBefore /\ WaitedEnded /\ UpNow /\ LostNow /\ StoredKept
      /\ KeysCarriedOver /\ FeedingNotEnded
    BY DEF FeedingNotEnded, QuietBefore, WaitedEnded, Waited, UpNow, LostNow, StoredKept,
        KeysCarriedOver
<1> QED
    BY <1>1, <1>2 DEF BenchInv

\* Starting a client touches only its own feeder, with the keys handed to the phase.
LEMMA LaunchKeeps ==
    ASSUME BenchInv, Launch
    PROVE  BenchInv'
<1> USE BencherAssumption
<1>1 Types'
  <2> USE DEF BenchInv, Types, TypeOK
  <2>1. cur' \in Clients /\ pc' \in {"launch", "wait", "ok", "failed"}
      BY DEF Launch, Clients
  <2>2. up' \subseteq Phases \X Clients
      BY DEF Launch
  <2>3. num_ops' \in [Clients -> [OpsOf("run") -> Nat]]
      BY DEF Launch, NoOps
  <2>4. \A c \in Clients : CallsMade(c)' \in 0..MaxOps
      BY DEF Launch, NoOps, CallsMade, OpsOf
  <2> QED
      BY <2>1, <2>2, <2>3, <2>4 DEF Launch
<1>2. QuietBefore'
    BY DEF BenchInv, Types, TypeOK, Clients, Launch, QuietBefore
<1>3. WaitedEnded'
    BY DEF Clients, Launch, WaitedEnded, Waited
<1>4. UpNow'
    BY DEF BenchInv, Clients, Launch, UpNow, Waited
<1>5. LostNow'
    BY DEF BenchInv, Types, TypeOK, Clients, Launch, LostNow
<1>6. StoredKept'
    BY DEF BenchInv, Types, TypeOK, Clients, Launch, StoredKept, Launched, Waited
<1>7. KeysCarriedOver'
    BY DEF BenchInv, Types, TypeOK, Clients, Launch, KeysCarriedOver
<1>8. FeedingNotEnded'
    BY DEF FeedingNotEnded, Launch, BenchInv, Types, TypeOK
<1> QED
    BY <1>1, <1>2, <1>3, <1>4, <1>5, <1>6, <1>7, <1>8 DEF BenchInv

\* A client that cannot be started ends the bencher and nothing else.
LEMMA LaunchErrKeeps ==
    ASSUME BenchInv, LaunchErr
    PROVE  BenchInv'
<1> USE BencherAssumption
<1>1. Types'
    BY DEF BenchInv, Types, TypeOK, LaunchErr, CallsMade
<1>2. QuietBefore'
    BY DEF LaunchErr, QuietBefore
<1>3. WaitedEnded'
    BY DEF LaunchErr, WaitedEnded, Waited
<1>4. UpNow'
    BY DEF BenchInv, LaunchErr, UpNow, Waited
<1>5. LostNow'
    BY DEF BenchInv, LaunchErr, LostNow
<1>6. StoredKept'
    BY DEF LaunchErr, StoredKept
<1>7. KeysCarriedOver'
    BY DEF BenchInv, LaunchErr, KeysCarriedOver
<1>8. FeedingNotEnded'
    BY DEF FeedingNotEnded, LaunchErr, BenchInv, Types, TypeOK
<1> QED
    BY <1>1, <1>2, <1>3, <1>4, <1>5, <1>6, <1>7, <1>8 DEF BenchInv

\* A feeder waited for hands its keys over; the last one ends the phase.
LEMMA WaitDriverKeeps ==
    ASSUME BenchInv, WaitDriver
    PROVE  BenchInv'
<1> USE BencherAssumption
<1>1 Types'
  <2> USE DEF BenchInv, Types, TypeOK
  <2>1. Extended(cur) \subseteq Keys /\ Killed(cur) \subseteq Phases \X Clients
      BY DEF Extended, Killed
  <2>2. cur < NumClis => cur + 1 \in Clients
      BY DEF Clients
  <2>3. 1 \in Clients
      BY DEF Clients
  <2>4. CallsMade(1)' = CallsMade(1) /\ \A c \in Clients : CallsMade(c)' = CallsMade(c)
      BY DEF WaitDriver, CallsMade
  <2> HIDE DEF Extended, Killed, CallsMade, Clients
  <2>5. cur' \in Clients /\ phase' \in Phases /\ pc' \in {"launch", "wait", "ok", "failed"}
      BY <2>2, <2>3 DEF WaitDriver, NextPhase, Phases
  <2>6. given' \subseteq Keys /\ ikeys' \subseteq Keys
      BY <2>1 DEF WaitDriver, NextPhase
  <2> QED
      BY <2>1, <2>4, <2>5, <2>6 DEF WaitDriver
<1>2. QuietBefore'
    BY DEF BenchInv, Types, TypeOK, Clients, WaitDriver, Returned, NextPhase, QuietBefore,
        WaitedEnded, Waited
<1>3. WaitedEnded'
  <2>1. cur \in Clients /\ feeder' = feeder /\ ended' = ended /\ pc = "wait"
        /\ feeder[cur] = "returned" /\ ended[cur]
      BY DEF WaitDriver, Returned, BenchInv, Types, TypeOK
  <2>2. CASE cur < NumClis
    <3>1. pc' = "wait" /\ cur' = cur + 1
        BY <2>1, <2>2 DEF WaitDriver, NextPhase
    <3>2. \A c \in Clients : Waited(c)' => Waited(c) \/ c = cur
        BY <2>1, <3>1 DEF Waited, Clients
    <3> QED
        BY <2>1, <3>2 DEF BenchInv, WaitedEnded
  <2>3. CASE ~(cur < NumClis)
    <3>1. \A c \in Clients : Waited(c) \/ c = cur
        BY <2>1, <2>3 DEF Waited, Clients
    <3> QED
        BY <2>1, <3>1 DEF BenchInv, WaitedEnded
  <2> QED
      BY <2>2, <2>3
<1>4. UpNow'
    BY DEF BenchInv, Types, TypeOK, Clients, WaitDriver, Returned, NextPhase, Killed, UpNow, Waited
<1>5. LostNow'
    BY DEF BenchInv, Types, TypeOK, Clients, WaitDriver, Returned, NextPhase, LostNow,
        WaitedEnded, Waited
<1>6 StoredKept'
  <2> SUFFICES ASSUME phase' = "load", pc' # "failed", NEW k \in stored
               PROVE  k \in ikeys' \/ \E c \in Clients : /\ Launched(c)' /\ ~Waited(c)'
                                                         /\ k \in fkeys'[c]
      BY DEF WaitDriver, StoredKept
  <2>1. cur < NumClis /\ cur' = cur + 1 /\ ikeys' = ikeys \cup fkeys[cur] /\ fkeys' = fkeys
        /\ phase = "load" /\ pc = "wait" /\ pc' = "wait" /\ cur \in Nat
      BY DEF WaitDriver, NextPhase, Extended, Returned, BenchInv, Types, TypeOK, Clients
  <2>2. k \in ikeys \/ \E c \in Clients : Launched(c) /\ ~Waited(c) /\ k \in fkeys[c]
      BY <2>1 DEF BenchInv, StoredKept
  <2>3. ASSUME NEW c \in Clients, ~Waited(c), c # cur
        PROVE  Launched(c)' /\ ~Waited(c)'
      BY <2>1, <2>3 DEF Launched, Waited, Clients
  <2> QED
      BY <2>1, <2>2, <2>3
<1>7 KeysCarriedOver'
  <2>1. CASE cur < NumClis
      BY <2>1 DEF WaitDriver, NextPhase, Returned, BenchInv, KeysCarriedOver
  <2>2. CASE ~(cur < NumClis)
    <3>1. cur = NumClis /\ cur' = 1 /\ pc' # "wait" /\ pc = "wait" /\ cur \in Clients
          /\ given' = ikeys \cup fkeys[cur] /\ stored' = stored
        BY <2>2 DEF WaitDriver, NextPhase, Returned, Extended, BenchInv, Types, TypeOK, Clients
    <3>2. \A c \in Clients : ~(pc' = "wait" \/ c < cur')
        BY <3>1 DEF Clients
    <3>3. stored \subseteq given'
      <4>1. CASE phase = "run"
          BY <3>1, <4>1 DEF BenchInv, KeysCarriedOver
      <4>2. CASE phase = "load"
        <5>1. \A c \in Clients : ~Waited(c) => c = cur
            BY <3>1 DEF Waited, Clients
        <5> QED
            BY <3>1, <4>2, <5>1 DEF BenchInv, StoredKept
      <4> QED
          BY <4>1, <4>2 DEF BenchInv, Types, TypeOK, Phases
    <3> QED
        BY <3>1, <3>2, <3>3 DEF KeysCarriedOver
  <2> QED
      BY <2>1, <2>2
<1>8. FeedingNotEnded'
    BY DEF FeedingNotEnded, WaitDriver, BenchInv, Types, TypeOK
<1> QED
    BY <1>1, <1>2, <1>3, <1>4, <1>5, <1>6, <1>7, <1>8 DEF BenchInv

\* A feeder that failed ends the bencher, its client killed.
LEMMA WaitFailedKeeps ==
    ASSUME BenchInv, WaitFailed
    PROVE  BenchInv'
<1> USE BencherAssumption
<1>1. Types'
    BY DEF BenchInv, Types, TypeOK, WaitFailed, Killed, CallsMade
<1>2. QuietBefore'
    BY DEF WaitFailed, QuietBefore
<1>3. WaitedEnded'
    BY DEF WaitFailed, WaitedEnded, Waited
<1>4. UpNow'
    BY DEF BenchInv, WaitFailed, Killed, UpNow, Waited
<1>5. LostNow'
    BY DEF BenchInv, WaitFailed, LostNow
<1>6. StoredKept'
    BY DEF WaitFailed, StoredKept
<1>7. KeysCarriedOver'
    BY DEF BenchInv, WaitFailed, KeysCarriedOver
<1>8. FeedingNotEnded'
    BY DEF FeedingNotEnded, WaitFailed, BenchInv, Types, TypeOK
<1> QED
    BY <1>1, <1>2, <1>3, <1>4, <1>5, <1>6, <1>7, <1>8 DEF BenchInv

\* A feeder that does not end in time ends the bencher.
LEMMA WaitTimeoutKeeps ==
    ASSUME BenchInv, WaitTimeout
    PROVE  BenchInv'
<1> USE BencherAssumption
<1>1. Types'
    BY DEF BenchInv, Types, TypeOK, WaitTimeout, CallsMade
<1>2. QuietBefore'
    BY DEF WaitTimeout, QuietBefore
<1>3. WaitedEnded'
    BY DEF WaitTimeout, WaitedEnded, Waited
<1>4. UpNow'
    BY DEF BenchInv, WaitTimeout, UpNow, Waited
<1>5. LostNow'
    BY DEF BenchInv, WaitTimeout, LostNow
<1>6. StoredKept'
    BY DEF WaitTimeout, StoredKept
<1>7. KeysCarriedOver'
    BY DEF BenchInv, WaitTimeout, KeysCarriedOver
<1>8. FeedingNotEnded'
    BY DEF FeedingNotEnded, WaitTimeout, BenchInv, Types, TypeOK
<1> QED
    BY <1>1, <1>2, <1>3, <1>4, <1>5, <1>6, <1>7, <1>8 DEF BenchInv

\* A call of a feeder adds at most its own key, to itself and to what is stored.
LEMMA FeedCallKeeps ==
    ASSUME BenchInv, NEW c \in Clients, FeedCall(c)
    PROVE  BenchInv'
<1> USE BencherAssumption
<1>1 Types'
  <2> PICK op \in OpsOf(phase), k \in Keys :
            /\ fkeys' = [fkeys EXCEPT ![c] = KnownAfter(c, op, k)]
            /\ num_ops' = [num_ops EXCEPT ![c][op] = @ + 1]
            /\ stored' = IF phase = "load" THEN stored \cup {k} ELSE stored
      BY DEF FeedCall
  <2> USE DEF BenchInv, Types, TypeOK
  <2>1. op \in OpsOf("run") /\ KnownAfter(c, op, k) \subseteq Keys
      BY DEF OpsOf, KnownAfter
  <2>2. num_ops' \in [Clients -> [OpsOf("run") -> Nat]]
    <3>1. num_ops[c] \in [OpsOf("run") -> Nat]
        OBVIOUS
    <3>2. [num_ops[c] EXCEPT ![op] = @ + 1] \in [OpsOf("run") -> Nat]
        BY <2>1, <3>1
    <3> QED
        BY <3>2
  <2>3. \A d \in Clients : CallsMade(d)' \in 0..MaxOps
    <3> SUFFICES ASSUME NEW d \in Clients PROVE CallsMade(d)' \in 0..MaxOps
        OBVIOUS
    <3>1. CASE d # c
      <4>1. num_ops'[d] = num_ops[d]
          BY <3>1
      <4> QED
          BY <4>1 DEF CallsMade
    <3>2. CASE d = c
      <4> DEFINE n == num_ops[c]
      <4>1. n \in [OpsOf("run") -> Nat] /\ num_ops'[d] = [n EXCEPT ![op] = @ + 1]
          BY <3>2
      <4>2. n["INSERT"] + n["UPDATE"] + n["READ"] + n["SCAN"] \in 0..MaxOps - 1
          BY BencherAssumption, <4>1 DEF FeedCall, CallsMade, OpsOf
      <4> HIDE DEF n
      <4> QED
          BY BencherAssumption, <2>1, <4>1, <4>2 DEF CallsMade, OpsOf
    <3> QED
        BY <3>1, <3>2
  <2> QED
      BY <2>1, <2>2, <2>3 DEF FeedCall, mvars
<1>2. QuietBefore'
    BY DEF BenchInv, mvars, FeedCall, QuietBefore
<1>3. WaitedEnded'
    BY DEF BenchInv, mvars, FeedCall, WaitedEnded, Waited
<1>4. UpNow'
    BY DEF BenchInv, mvars, FeedCall, UpNow, Waited
<1>5. LostNow'
    BY DEF BenchInv, mvars, FeedCall, LostNow
<1>6 StoredKept'
  <2> PICK op \in OpsOf(phase), k \in Keys :
            /\ fkeys' = [fkeys EXCEPT ![c] = KnownAfter(c, op, k)]
            /\ num_ops' = [num_ops EXCEPT ![c][op] = @ + 1]
            /\ stored' = IF phase = "load" THEN stored \cup {k} ELSE stored
      BY DEF FeedCall
  <2>1. fkeys \in [Clients -> SUBSET Keys] /\ feeder[c] = "feeding" /\ pc \in {"launch", "wait"}
        /\ phase' = phase /\ pc' = pc /\ cur' = cur /\ ikeys' = ikeys
      BY DEF FeedCall, Feeding, BenchInv, Types, TypeOK, mvars
  <2>2. Launched(c) /\ ~Waited(c)
      BY <2>1 DEF BenchInv, QuietBefore, WaitedEnded, Launched, Types, TypeOK, Clients
  <2>3. phase = "load" => k \in fkeys'[c]
      BY <2>1 DEF OpsOf, KnownAfter
  <2>4. \A d \in Clients : fkeys[d] \subseteq fkeys'[d]
      BY <2>1 DEF KnownAfter
  <2>5. \A d : Launched(d)' = Launched(d) /\ Waited(d)' = Waited(d)
      BY <2>1 DEF Launched, Waited
  <2> QED
      BY <2>1, <2>2, <2>3, <2>4, <2>5 DEF BenchInv, StoredKept
<1>7. KeysCarriedOver'
    BY DEF BenchInv, mvars, FeedCall, KnownAfter, KeysCarriedOver
<1>8. FeedingNotEnded'
    BY DEF FeedingNotEnded, FeedCall, BenchInv, Types, TypeOK
<1> QED
    BY <1>1, <1>2, <1>3, <1>4, <1>5, <1>6, <1>7, <1>8 DEF BenchInv

\* A call of a feeder fails: its key may be noted, and the failure is.
LEMMA FeedErrKeeps ==
    ASSUME BenchInv, NEW c \in Clients, FeedErr(c)
    PROVE  BenchInv'
<1> USE BencherAssumption
<1>1 Types'
  <2> USE DEF BenchInv, Types, TypeOK
  <2>1. fkeys' \in [Clients -> SUBSET Keys]
      BY DEF FeedErr
  <2>2. lost' \subseteq Phases \X Clients
      BY DEF FeedErr
  <2>3. \A d \in Clients : CallsMade(d)' = CallsMade(d)
      BY DEF FeedErr, CallsMade
  <2> QED
      BY <2>1, <2>2, <2>3 DEF FeedErr, mvars
<1>2. QuietBefore'
    BY DEF BenchInv, mvars, FeedErr, Feeding, QuietBefore
<1>3. WaitedEnded'
    BY DEF BenchInv, mvars, FeedErr, Feeding, WaitedEnded, Waited
<1>4. UpNow'
    BY DEF BenchInv, mvars, FeedErr, UpNow, Waited
<1>5 LostNow'
  <2> SUFFICES ASSUME NEW ph \in Phases, NEW d \in Clients, <<ph, d>> \in lost'
               PROVE  /\ ph = phase' /\ ~ended'[d]
                      /\ feeder'[d] \in {"stopping", "returned"}
                      /\ pc' = "launch" => d < cur'
      BY DEF LostNow
  <2>1. phase' = phase /\ pc' = pc /\ cur' = cur /\ ended' = ended
        /\ feeder' = [feeder EXCEPT ![c] = "stopping"] /\ feeder[c] = "feeding"
        /\ feeder \in [Clients -> {"none", "feeding", "stopping", "returned"}]
        /\ lost' = lost \cup {<<phase, c>>}
      BY DEF FeedErr, Feeding, mvars, BenchInv, Types, TypeOK
  <2>2. CASE <<ph, d>> \in lost
      BY <2>1, <2>2 DEF BenchInv, LostNow
  <2>3. CASE ph = phase /\ d = c
    <3>1. ~ended[c]
        BY <2>1 DEF BenchInv, FeedingNotEnded
    <3>3. pc = "launch" => c < cur
      <4>1. pc = "launch" => ~(c >= cur)
          BY <2>1 DEF BenchInv, QuietBefore
      <4> QED
          BY <4>1 DEF BenchInv, Types, TypeOK, Clients
    <3>2. feeder'[c] = "stopping"
        BY <2>1
    <3> QED
        BY <2>1, <2>3, <3>1, <3>2, <3>3
  <2>4. <<ph, d>> \in lost \/ (ph = phase /\ d = c)
      BY <2>1
  <2> QED
      BY <2>2, <2>3, <2>4
<1>6. StoredKept'
    BY DEF BenchInv, Types, TypeOK, mvars, FeedErr, StoredKept, Launched, Waited
<1>7. KeysCarriedOver'
    BY DEF BenchInv, Types, TypeOK, mvars, FeedErr, KeysCarriedOver
<1>8. FeedingNotEnded'
    BY DEF FeedingNotEnded, FeedErr, BenchInv, Types, TypeOK
<1> QED
    BY <1>1, <1>2, <1>3, <1>4, <1>5, <1>6, <1>7, <1>8 DEF BenchInv

\* The end of the workload file is noted.
LEMMA EndOfFileKeeps ==
    ASSUME BenchInv, NEW c \in Clients, EndOfFile(c)
    PROVE  BenchInv'
<1> USE BencherAssumption
<1>1. Types'
    BY DEF BenchInv, Types, TypeOK, mvars, EndOfFile, CallsMade
<1>2. QuietBefore'
    BY DEF BenchInv, mvars, EndOfFile, Feeding, QuietBefore
<1>3. WaitedEnded'
    BY DEF BenchInv, mvars, EndOfFile, Feeding, WaitedEnded, Waited
<1>4. UpNow'
    BY DEF BenchInv, mvars, EndOfFile, UpNow, Waited
<1>5. LostNow'
    BY DEF BenchInv, mvars, EndOfFile, Feeding, LostNow
<1>6. StoredKept'
    BY DEF BenchInv, mvars, EndOfFile, StoredKept, Launched, Waited
<1>7. KeysCarriedOver'
    BY DEF BenchInv, mvars, EndOfFile, KeysCarriedOver
<1>8. FeedingNotEnded'
    BY DEF FeedingNotEnded, EndOfFile, BenchInv, Types, TypeOK
<1> QED
    BY <1>1, <1>2, <1>3, <1>4, <1>5, <1>6, <1>7, <1>8 DEF BenchInv

\* A feeder thread returns, with a report if its workload ended.
LEMMA FeederReturnsKeeps ==
    ASSUME BenchInv, NEW c \in Clients, FeederReturns(c)
    PROVE  BenchInv'
<1> USE BencherAssumption
<1>1. Types'
    BY DEF BenchInv, Types, TypeOK, mvars, FeederReturns, CallsMade
<1>2. QuietBefore'
    BY DEF BenchInv, mvars, FeederReturns, QuietBefore
<1>3. WaitedEnded'
    BY DEF BenchInv, mvars, FeederReturns, WaitedEnded, Waited
<1>4. UpNow'
    BY DEF BenchInv, mvars, FeederReturns, UpNow, Waited
<1>5. LostNow'
    BY DEF BenchInv, mvars, FeederReturns, LostNow
<1>6. StoredKept'
    BY DEF BenchInv, mvars, FeederReturns, StoredKept, Launched, Waited
<1>7. KeysCarriedOver'
    BY DEF BenchInv, mvars, FeederReturns, KeysCarriedOver
<1>8. FeedingNotEnded'
    BY DEF FeedingNotEnded, FeederReturns, BenchInv, Types, TypeOK
<1> QED
    BY <1>1, <1>2, <1>3, <1>4, <1>5, <1>6, <1>7, <1>8 DEF BenchInv

\* Every step of main and of the feeders keeps the invariant.
LEMMA NextBench == BenchInv /\ [Next]_vars => BenchInv'
<1> SUFFICES ASSUME BenchInv, [Next]_vars PROVE BenchInv'
    OBVIOUS
<1>1. CASE UNCHANGED vars
    BY <1>1 DEF vars, mvars, fvars, BenchInv, Types, TypeOK, CallsMade, QuietBefore,
                FeedingNotEnded, WaitedEnded, UpNow, LostNow, StoredKept, KeysCarriedOver,
                Launched, Waited
<1>2. CASE MainStep
    BY <1>2, LaunchKeeps, LaunchErrKeeps, WaitDriverKeeps, WaitFailedKeeps,
       WaitTimeoutKeeps DEF MainStep
<1>3. ASSUME NEW c \in Clients, FeederStep(c) PROVE BenchInv'
    BY <1>3, FeedCallKeeps, FeedErrKeeps, EndOfFileKeeps, FeederReturnsKeeps DEF FeederStep
<1> QED
    BY <1>1, <1>2, <1>3 DEF Next, Done

\* The drivers are launched, waited for and merged as BenchInv says.
THEOREM BenchInvariant == Spec => []BenchInv
<1>1. Init => BenchInv
    BY InitBench
<1>2. BenchInv /\ [Next]_vars => BenchInv'
    BY NextBench
<1> QED
    BY <1>1, <1>2, PTL DEF Spec

(***************************************************************************)
(* The bencher's state keeps its types: launching a driver resets what its *)
(* feeder counts, and the client waited for is always one of them.         *)
(***************************************************************************)
THEOREM BencherTypes == Spec => []TypeOK
<1>1. BenchInv => TypeOK
    BY DEF BenchInv, Types
<1> QED
    BY <1>1, BenchInvariant, PTL

(***************************************************************************)
(* Every key stored in the load phase is given to every feeder of the run  *)
(* phase: ikeys is extended by each driver waited for, and a driver that   *)
(* is passed over ends the bencher (bencher/main.rs).                      *)
(***************************************************************************)
THEOREM NoKeyForgotten == Spec => []KeysCarriedOver
<1>1. BenchInv => KeysCarriedOver
    BY DEF BenchInv
<1> QED
    BY <1>1, BenchInvariant, PTL

(***************************************************************************)
(* YcsbDriver::wait kills each YCSB process it waited for, so none is left *)
(* of the load phase in the run phase, and none at all after a good end.   *)
(***************************************************************************)
THEOREM PhasesApart == Spec => []NothingLeftBehind
<1>1. BenchInv => NothingLeftBehind
  <2> SUFFICES ASSUME BenchInv PROVE NothingLeftBehind
      OBVIOUS
  <2>1. phase = "run" => \A c \in Clients : <<"load", c>> \notin up
      BY DEF BenchInv, UpNow, Phases
  <2>2. ASSUME pc = "ok" PROVE up = {} /\ \A c \in Clients : feeder[c] = "returned"
    <3>1. \A c \in Clients : Waited(c)
        BY <2>2 DEF Waited
    <3>2. \A q \in up : \E ph \in Phases, c \in Clients : q = <<ph, c>>
        BY DEF BenchInv, Types, TypeOK
    <3> QED
        BY <3>1, <3>2 DEF BenchInv, UpNow, WaitedEnded
  <2> QED
      BY <2>1, <2>2 DEF NothingLeftBehind
<1> QED
    BY <1>1, BenchInvariant, PTL

(***************************************************************************)
(* A feeder that gave up returns nothing, on which the bencher fails: it   *)
(* neither begins the run phase nor ends well without that client.         *)
(***************************************************************************)
THEOREM FailuresReported == Spec => []NoFailureMasked
<1>1. BenchInv => NoFailureMasked
  <2> SUFFICES ASSUME BenchInv PROVE NoFailureMasked
      OBVIOUS
  <2>1. phase = "run" => \A c \in Clients : <<"load", c>> \notin lost
      BY DEF BenchInv, LostNow, Phases
  <2>2. ASSUME pc = "ok" PROVE lost = {}
    <3>1. \A c \in Clients : ended[c]
        BY <2>2 DEF BenchInv, WaitedEnded, Waited
    <3>2. \A q \in lost : \E ph \in Phases, c \in Clients : q = <<ph, c>>
        BY DEF BenchInv, Types, TypeOK
    <3> QED
        BY <3>1, <3>2 DEF BenchInv, LostNow
  <2> QED
      BY <2>1, <2>2 DEF NoFailureMasked
<1> QED
    BY <1>1, BenchInvariant, PTL
------------------------------------------------------------------------------
(***************************************************************************)
(* The ends of Scans.  A feeder knows only finitely many keys, which is    *)
(* kept here as a bound on them; then the ranks of the keys from the start *)
(* on leave out no number up to how many there are.                        *)
(***************************************************************************)
\* Every non-empty set of naturals has a least element.
LEMMA LeastNat ==
    ASSUME NEW S, S \subseteq Nat, S # {}
    PROVE  \E x \in S : \A y \in S : x <= y
<1> DEFINE R == OpToRel(<, Nat)
<1>1. IsWellFoundedOn(R, Nat)
    BY NatLessThanWellFounded
<1>2. \A x, y \in Nat : y < x => <<y, x>> \in R
    BY DEF OpToRel
<1> HIDE DEF R
<1>3. PICK x \in S : \A y \in S : ~(<<y, x>> \in R)
    BY <1>1, WFMin
<1>4. \A y \in S : ~(y < x)
    BY <1>2, <1>3
<1> QED
    BY <1>4

\* A non-empty bounded set of naturals has a greatest element, which Max returns.
LEMMA GreatestKey ==
    ASSUME NEW S, NEW n \in Nat, S \subseteq 0..n, S # {}
    PROVE  Max(S) \in S /\ \A y \in S : y <= Max(S)
<1> DEFINE T == { t \in 0..n : n - t \in S }
<1>1. \A y \in S : n - y \in T /\ y \in 0..n
    OBVIOUS
<1>2. \A t \in T : n - t \in S /\ t \in 0..n
    OBVIOUS
<1> HIDE DEF T
<1>3. T # {} /\ T \subseteq Nat
  <2>1. PICK y \in S : TRUE
      OBVIOUS
  <2>2. T # {}
      BY <1>1, <2>1
  <2>3. 0..n \subseteq Nat
      OBVIOUS
  <2> QED
      BY <1>2, <2>2, <2>3
<1>4. PICK t \in T : \A y \in T : t <= y
    BY <1>3, LeastNat
<1>5. \A y \in S : n - t >= y
    BY <1>1, <1>2, <1>4
<1>6. \E x \in S : \A y \in S : x >= y
    BY <1>2, <1>5
<1> DEFINE m == Max(S)
<1>7. m \in S /\ \A y \in S : m >= y
    BY <1>6 DEF Max
<1> HIDE DEF m
<1>8. m \in S /\ \A y \in S : y <= m
    BY <1>7
<1> QED
    BY <1>8 DEF m

UpTo(S, k) == { j \in S : j <= k }

\* What holds of the counts of UpTo for a bounded set.
LEMMA UpToCounts ==
    ASSUME NEW S, NEW n \in Nat, S \subseteq 0..n, NEW k
    PROVE  /\ IsFiniteSet(S) /\ IsFiniteSet(UpTo(S, k))
           /\ Cardinality(S) \in Nat /\ Cardinality(UpTo(S, k)) \in Nat
           /\ Cardinality(UpTo(S, k)) <= Cardinality(S)
<1>1. IsFiniteSet(0..n)
    BY FS_Interval
<1>2. IsFiniteSet(S)
    BY <1>1, FS_Subset
<1>3. UpTo(S, k) \in SUBSET S
    BY DEF UpTo
<1> QED
    BY <1>2, <1>3, FS_Subset, FS_CardinalityType

\* No rank is left out: some key has exactly m keys up to it.
LEMMA RankTaken ==
    ASSUME NEW S, NEW n \in Nat, S \subseteq 0..n,
           NEW m \in Nat \ {0}, m <= Cardinality(S)
    PROVE  \E k \in S : Cardinality(UpTo(S, k)) = m
<1> DEFINE H == { k \in S : Cardinality(UpTo(S, k)) >= m }
<1>1. IsFiniteSet(S) /\ Cardinality(S) \in Nat /\ S # {}
  <2>1. IsFiniteSet(S) /\ Cardinality(S) \in Nat
      BY UpToCounts
  <2> QED
      BY <2>1, FS_EmptySet
<1>2. Max(S) \in S /\ \A y \in S : y <= Max(S)
    BY <1>1, GreatestKey
<1>3. UpTo(S, Max(S)) = S
    BY <1>2 DEF UpTo
<1>4. H # {} /\ H \subseteq Nat
  <2>1. Cardinality(UpTo(S, Max(S))) >= m
      BY <1>1, <1>3
  <2>2. Max(S) \in H
      BY <1>2, <2>1
  <2>3. H \subseteq S /\ 0..n \subseteq Nat
      OBVIOUS
  <2> HIDE DEF H
  <2> QED
      BY <2>2, <2>3
<1>5. PICK k \in H : \A y \in H : k <= y
  <2> HIDE DEF H
  <2> QED
      BY <1>4, LeastNat
<1>6. k \in S /\ k \in Nat /\ Cardinality(UpTo(S, k)) >= m
    BY <1>5
<1>7. \A y \in S : y < k => ~(Cardinality(UpTo(S, y)) >= m)
    BY <1>5
<1> HIDE DEF H
<1> DEFINE B == UpTo(S, k) \ {k}
<1>8. /\ IsFiniteSet(B) /\ Cardinality(B) \in Nat
      /\ Cardinality(UpTo(S, k)) = Cardinality(B) + 1
  <2>1. IsFiniteSet(UpTo(S, k)) /\ Cardinality(UpTo(S, k)) \in Nat
      BY UpToCounts
  <2>2. k \in UpTo(S, k)
      BY <1>6 DEF UpTo
  <2>3. IsFiniteSet(B) /\ Cardinality(B) = Cardinality(UpTo(S, k)) - 1
      BY <2>1, <2>2, FS_RemoveElement
  <2>4. Cardinality(B) \in Nat
      BY <2>3, FS_CardinalityType
  <2> QED
      BY <2>1, <2>3, <2>4
<1>9. \A y \in B : y \in S /\ y < k /\ y \in 0..n
    BY <1>6 DEF UpTo
<1>10. \A y \in S : y < k => y \in B
    BY <1>6 DEF UpTo
<1> HIDE DEF B
<1>11. Cardinality(B) < m
  <2>1. CASE B = {}
      BY <2>1, FS_EmptySet
  <2>2. CASE B # {}
    <3>1. Max(B) \in B /\ \A y \in B : y <= Max(B)
        BY <1>9, <2>2, GreatestKey
    <3> DEFINE p == Max(B)
    <3>2. p \in S /\ p < k /\ p \in Nat
        BY <1>9, <3>1
    <3> HIDE DEF p
    <3>3. \A y \in B : y <= p
        BY <3>1 DEF p
    <3>4. \A y \in S : y <= p => y < k
        BY <1>6, <3>2
    <3>5. UpTo(S, p) = B
        BY <1>9, <1>10, <3>3, <3>4 DEF UpTo
    <3>6. ~(Cardinality(B) >= m)
        BY <1>7, <3>2, <3>5
    <3> QED
        BY <1>8, <3>6
  <2> QED
      BY <2>1, <2>2
<1>12. Cardinality(UpTo(S, k)) = m
    BY <1>6, <1>8, <1>11
<1> QED
    BY <1>6, <1>12

\* The least of two numbers.
LEMMA MinOfTwo ==
    ASSUME NEW a \in Nat, NEW b \in Nat
    PROVE  Min({a, b}) = IF a <= b THEN a ELSE b
BY DEF Min

From(known, start) == { k \in known : k >= start }

\* ScanEnd finds the end of a Scan of count entries among finitely many keys.
LEMMA ScanEndCovers ==
    ASSUME NEW known, NEW n \in Nat, known \subseteq 0..n,
           NEW start, NEW count \in Nat \ {0}
    PROVE  Cardinality(UpTo(From(known, start), ScanEnd(known, start, count)))
             = Min({count, Cardinality(From(known, start))})
<1> DEFINE from == From(known, start)
           nth  == { k \in from : Cardinality(UpTo(from, k)) = count }
           end  == ScanEnd(known, start, count)
<1>1. from \subseteq 0..n /\ from \subseteq known
    BY DEF From
<1>2. end = IF known = {} THEN Top ELSE IF nth = {} THEN Max(known) ELSE Max(nth)
    BY DEF ScanEnd, UpTo, From
<1>3. nth \subseteq from /\ \A k \in nth : Cardinality(UpTo(from, k)) = count
    OBVIOUS
<1>4. \A k \in from : Cardinality(UpTo(from, k)) = count => k \in nth
    OBVIOUS
<1> HIDE DEF from, nth, end
<1>5. Cardinality(from) \in Nat /\ IsFiniteSet(from)
    BY <1>1, UpToCounts
<1>6. Min({count, Cardinality(from)}) = IF count <= Cardinality(from) THEN count ELSE Cardinality(from)
    BY <1>5, MinOfTwo
<1>7. CASE nth # {}
  <2>1. nth \subseteq 0..n
      BY <1>1, <1>3
  <2>2. Max(nth) \in nth
      BY <1>7, <2>1, GreatestKey
  <2>3. end = Max(nth)
      BY <1>1, <1>2, <1>3, <1>7
  <2>4. Cardinality(UpTo(from, end)) = count
      BY <1>3, <2>2, <2>3
  <2>5. Cardinality(UpTo(from, end)) <= Cardinality(from)
      BY <1>1, UpToCounts
  <2> QED
      BY <1>6, <2>4, <2>5 DEF from, end
<1>8. CASE nth = {}
  <2>1. ~(count <= Cardinality(from))
      BY <1>1, <1>4, <1>8, RankTaken
  <2>2. UpTo(from, end) = from
    <3>1. CASE known = {}
        BY <1>1, <3>1 DEF UpTo
    <3>2. CASE known # {}
      <4>1. end = Max(known)
          BY <1>2, <1>8, <3>2
      <4>2. \A y \in known : y <= Max(known)
          BY <3>2, GreatestKey
      <4> QED
          BY <1>1, <4>1, <4>2 DEF UpTo
    <3> QED
        BY <3>1, <3>2
  <2> QED
      BY <1>6, <2>1, <2>2 DEF from, end
<1> QED
    BY <1>7, <1>8
\* The keys are bounded wherever main and the feeders keep them.
Bounded(S) == \E n \in Nat : S \subseteq 0..n

KeysBounded ==
    /\ Bounded(given) /\ Bounded(ikeys)
    /\ \A c \in Clients : Bounded(fkeys[c])

LEMMA BoundsAdd ==
    ASSUME NEW S, NEW T, Bounded(S), Bounded(T)
    PROVE  Bounded(S \cup T)
<1>1. PICK m \in Nat : S \subseteq 0..m
    BY DEF Bounded
<1>2. PICK n \in Nat : T \subseteq 0..n
    BY DEF Bounded
<1>3. 0..m \subseteq 0..(m + n) /\ 0..n \subseteq 0..(m + n) /\ m + n \in Nat
    OBVIOUS
<1>4. S \cup T \subseteq 0..(m + n)
    BY <1>1, <1>2, <1>3
<1> QED
    BY <1>3, <1>4 DEF Bounded

LEMMA BoundsKey ==
    ASSUME NEW k \in Keys
    PROVE  Bounded({k}) /\ Bounded({})
<1>1. k \in Nat /\ {k} \subseteq 0..k
    BY BencherAssumption
<1> QED
    BY <1>1 DEF Bounded

\* Keys come in one at a time, or by a union of what is bounded.
LEMMA KeysBoundedStep ==
    ASSUME BenchInv, KeysBounded, [Next]_vars
    PROVE  KeysBounded'
<1>0. fkeys \in [Clients -> SUBSET Keys] /\ cur \in Clients
    BY DEF BenchInv, Types, TypeOK
<1>1. ASSUME UNCHANGED <<given, ikeys, fkeys>> PROVE KeysBounded'
    BY <1>1 DEF KeysBounded
<1>2. ASSUME Launch PROVE KeysBounded'
  <2>1. UNCHANGED <<given, ikeys>> /\ fkeys' = [fkeys EXCEPT ![cur] = given]
      BY <1>2 DEF Launch
  <2> QED
      BY <1>0, <2>1 DEF KeysBounded
<1>3. ASSUME WaitDriver PROVE KeysBounded'
  <2>1. Bounded(Extended(cur))
      BY <1>0, BoundsAdd DEF KeysBounded, Extended
  <2>2. Bounded({})
    <3>1. {} \subseteq 0..0
        OBVIOUS
    <3> QED
        BY <3>1 DEF Bounded
  <2>3. fkeys' = fkeys /\ (given' = given \/ given' = Extended(cur))
        /\ (ikeys' = Extended(cur) \/ ikeys' = {})
      BY <1>3 DEF WaitDriver, NextPhase
  <2> QED
      BY <2>1, <2>2, <2>3 DEF KeysBounded
<1>4. ASSUME NEW c \in Clients, NEW k \in Keys, UNCHANGED <<given, ikeys>>,
             fkeys' = [fkeys EXCEPT ![c] = @ \cup {k}]
      PROVE  KeysBounded'
  <2>1. Bounded(fkeys[c] \cup {k})
      BY BoundsAdd, BoundsKey DEF KeysBounded
  <2>2. fkeys'[c] = fkeys[c] \cup {k} /\ \A d \in Clients : d # c => fkeys'[d] = fkeys[d]
      BY <1>0, <1>4
  <2> QED
      BY <1>4, <2>1, <2>2 DEF KeysBounded
<1>5. ASSUME NEW c \in Clients, FeedCall(c) PROVE KeysBounded'
  <2>1. UNCHANGED <<given, ikeys>>
      BY <1>5 DEF FeedCall, mvars
  <2>2. PICK op \in OpsOf(phase), k \in Keys : fkeys' = [fkeys EXCEPT ![c] = KnownAfter(c, op, k)]
      BY <1>5 DEF FeedCall
  <2>3. CASE op = "INSERT"
    <3>1. fkeys' = [fkeys EXCEPT ![c] = @ \cup {k}]
        BY <1>0, <2>2, <2>3 DEF KnownAfter
    <3> QED
        BY <1>4, <2>1, <3>1
  <2>4. CASE op # "INSERT"
    <3>1. fkeys' = fkeys
        BY <1>0, <2>2, <2>4 DEF KnownAfter
    <3> QED
        BY <1>1, <2>1, <3>1
  <2> QED
      BY <2>3, <2>4
<1>6. ASSUME NEW c \in Clients, FeedErr(c) PROVE KeysBounded'
  <2>1. UNCHANGED <<given, ikeys>>
      BY <1>6 DEF FeedErr, mvars
  <2>2. fkeys' = fkeys \/ \E k \in Keys : fkeys' = [fkeys EXCEPT ![c] = @ \cup {k}]
      BY <1>6 DEF FeedErr
  <2> QED
      BY <1>1, <1>4, <2>1, <2>2
<1>7. ASSUME \/ LaunchErr \/ WaitFailed \/ WaitTimeout \/ Done \/ UNCHANGED vars
             \/ \E c \in Clients : EndOfFile(c) \/ FeederReturns(c)
      PROVE  UNCHANGED <<given, ikeys, fkeys>>
    BY <1>7 DEF LaunchErr, WaitFailed, WaitTimeout, Done, EndOfFile, FeederReturns, vars, mvars,
        fvars
<1> QED
    BY <1>1, <1>2, <1>3, <1>5, <1>6, <1>7 DEF Next, MainStep, FeederStep

\* Of each Scan, the end is the one ScanEnd finds.
LEMMA ScanCoversStep ==
    ASSUME BenchInv, KeysBounded, ScanCovers, [Next]_vars
    PROVE  ScanCovers'
<1>1. ASSUME UNCHANGED scan \/ scan' = {} PROVE ScanCovers'
    BY <1>1 DEF ScanCovers
<1>2. ASSUME NEW c \in Clients, FeedCall(c) PROVE ScanCovers'
  <2>1. scan' = {} \/ \E k \in Keys, m \in Counts : scan' = {ScanFrom(c, k, m)}
      BY <1>2 DEF FeedCall
  <2>2. ASSUME NEW k \in Keys, NEW m \in Counts, scan' = {ScanFrom(c, k, m)}
        PROVE  ScanCovers'
    <3> DEFINE end == ScanEnd(fkeys[c], k, m)
    <3>1. PICK n \in Nat : fkeys[c] \subseteq 0..n
        BY DEF KeysBounded, Bounded
    <3>2. m \in Nat \ {0}
        BY BencherAssumption
    <3>3. Cardinality(UpTo(From(fkeys[c], k), end)) = Min({m, Cardinality(From(fkeys[c], k))})
        BY <3>1, <3>2, ScanEndCovers
    <3>4. \A s \in scan' : s.known = fkeys[c] /\ s.start = k /\ s.count = m /\ s.end = end
        BY <2>2 DEF ScanFrom
    <3> HIDE DEF end
    <3>5. { j \in fkeys[c] : k <= j } = From(fkeys[c], k)
      <4>1. k \in Nat /\ fkeys[c] \subseteq Nat
          BY BencherAssumption, <3>1
      <4> QED
          BY <4>1 DEF From
    <3>6. \A s \in scan' :
            LET from == { j \in s.known : s.start <= j }
            IN  Cardinality({ j \in from : j <= s.end }) = Min({s.count, Cardinality(from)})
      <4> SUFFICES ASSUME NEW s \in scan'
                   PROVE  Cardinality({ j \in { i \in s.known : s.start <= i } : j <= s.end })
                            = Min({s.count, Cardinality({ i \in s.known : s.start <= i })})
          OBVIOUS
      <4>1. { i \in s.known : s.start <= i } = From(fkeys[c], k) /\ s.count = m /\ s.end = end
          BY <3>4, <3>5
      <4> QED
          BY <3>3, <4>1 DEF UpTo
    <3> QED
        BY <3>6 DEF ScanCovers
  <2> QED
      BY <1>1, <2>1, <2>2
<1>3. ASSUME MainStep \/ Done \/ UNCHANGED vars
             \/ \E c \in Clients : FeedErr(c) \/ EndOfFile(c) \/ FeederReturns(c)
      PROVE  UNCHANGED scan \/ scan' = {}
    BY <1>3 DEF MainStep, Launch, LaunchErr, WaitDriver, WaitFailed, WaitTimeout, Done, FeedErr,
        EndOfFile, FeederReturns, vars, fvars
<1> QED
    BY <1>1, <1>2, <1>3 DEF Next, FeederStep

(***************************************************************************)
(* A SCAN line that asks for so many entries becomes a Scan that covers    *)
(* just so many of the keys the feeder knows, or all from its start on if  *)
(* there are fewer (interpret_ycsb_call), for any keys and any counts.     *)
(***************************************************************************)
THEOREM ScansCoverTheirCount == Spec => []ScanCovers
<1>1. Init => KeysBounded /\ ScanCovers
  <2> SUFFICES ASSUME Init PROVE KeysBounded /\ ScanCovers
      OBVIOUS
  <2>1. {} \subseteq 0..0 /\ given = {} /\ ikeys = {} /\ scan = {} /\ \A c \in Clients : fkeys[c] = {}
      BY DEF Init
  <2> QED
      BY <2>1 DEF KeysBounded, Bounded, ScanCovers
<1>2. BenchInv /\ KeysBounded /\ ScanCovers /\ [Next]_vars => KeysBounded' /\ ScanCovers'
    BY KeysBoundedStep, ScanCoversStep
<1> QED
    BY <1>1, <1>2, InitBench, NextBench, PTL DEF Spec
------------------------------------------------------------------------------
(***************************************************************************)
(* Sums.  MapThenSumSet adds up in an order of its own choosing; that the  *)
(* order does not matter is shown by least counterexamples among the       *)
(* subsets of a finite set.                                                *)
(***************************************************************************)
Count(r, op, c) == r[c].num_ops[op]
SumOf(r, op, S) == MapThenSumSet(LAMBDA c : r[c].num_ops[op], S)

Pick(s) == CHOOSE x \in s : TRUE
SumStep(f, r, op, s) == IF s = {} THEN 0 ELSE Count(r, op, Pick(s)) + f[s \ {Pick(s)}]
Sums(f, r, op, S) == \A s \in SUBSET S : f[s] = SumStep(f, r, op, s)
SumFcn(r, op, S) == CHOOSE f : f = [s \in SUBSET S |-> SumStep(f, r, op, s)]

LEMMA SumIsFcn ==
    ASSUME NEW r, NEW op, NEW S
    PROVE  SumOf(r, op, S) = SumFcn(r, op, S)[S]
BY DEF SumOf, MapThenSumSet, MapThenFoldSet, SumFcn, SumStep, Pick, Count

LEMMA PickIn ==
    ASSUME NEW S, IsFiniteSet(S), NEW s \in SUBSET S, s # {}
    PROVE  /\ Pick(s) \in s
           /\ s \ {Pick(s)} \in SUBSET S
           /\ Cardinality(s) \in Nat
           /\ Cardinality(s \ {Pick(s)}) \in Nat
           /\ Cardinality(s \ {Pick(s)}) = Cardinality(s) - 1
<1>1. Pick(s) \in s
    BY DEF Pick
<1>2. IsFiniteSet(s)
    BY FS_Subset
<1> QED
    BY <1>1, <1>2, FS_RemoveElement, FS_CardinalityType

\* Among bad subsets there is one with fewest elements.
LEMMA SmallestBad ==
    ASSUME NEW S, IsFiniteSet(S), NEW Bad, Bad \subseteq SUBSET S, Bad # {}
    PROVE  \E s \in Bad : \A t \in Bad : Cardinality(s) <= Cardinality(t)
<1> DEFINE N == { Cardinality(s) : s \in Bad }
<1>1. \A s \in Bad : Cardinality(s) \in Nat
    BY FS_Subset, FS_CardinalityType
<1>2. \A s \in Bad : Cardinality(s) \in N
    OBVIOUS
<1>3. \A n \in N : \E s \in Bad : n = Cardinality(s)
    OBVIOUS
<1> HIDE DEF N
<1>4. N # {} /\ N \subseteq Nat
    BY <1>1, <1>2, <1>3
<1>5. PICK n \in N : \A m \in N : n <= m
    BY <1>4, LeastNat
<1> QED
    BY <1>2, <1>3, <1>5

\* The function MapThenSumSet is defined by exists, level by level.
LEMMA SumExists ==
    ASSUME NEW r, NEW op, NEW S, IsFiniteSet(S)
    PROVE  \E f : f = [s \in SUBSET S |-> SumStep(f, r, op, s)]
<1> DEFINE Small(n) == { s \in SUBSET S : Cardinality(s) <= n }
           Good(n)  == \E f : f = [s \in Small(n) |-> SumStep(f, r, op, s)]
           Bad      == { n \in Nat : ~Good(n) }
<1>1. \A s \in SUBSET S : IsFiniteSet(s) /\ Cardinality(s) \in Nat /\ Cardinality(s) <= Cardinality(S)
    BY FS_Subset, FS_CardinalityType
<1>2. Cardinality(S) \in Nat
    BY FS_CardinalityType
<1>3. Good(0)
  <2>1. \A s \in Small(0) : s = {}
    <3> SUFFICES ASSUME NEW s \in SUBSET S, Cardinality(s) <= 0 PROVE s = {}
        OBVIOUS
    <3>1. Cardinality(s) = 0 /\ IsFiniteSet(s)
        BY <1>1
    <3> QED
        BY <3>1, FS_EmptySet
  <2> DEFINE f == [s \in Small(0) |-> 0]
  <2>2. f = [s \in Small(0) |-> SumStep(f, r, op, s)]
      BY <2>1 DEF SumStep
  <2> HIDE DEF f, Small
  <2> QED
      BY <2>2
<1>4. ASSUME NEW n \in Nat, Good(n) PROVE Good(n + 1)
  <2>1. PICK h : h = [s \in Small(n) |-> SumStep(h, r, op, s)]
      BY <1>4
  <2> DEFINE f == [s \in Small(n + 1) |-> SumStep(h, r, op, s)]
  <2>2. \A s \in Small(n) : s \in Small(n + 1)
      BY <1>1
  <2>3. \A s \in Small(n + 1) : s # {} => s \ {Pick(s)} \in Small(n)
    <3> SUFFICES ASSUME NEW s \in SUBSET S, Cardinality(s) <= n + 1, s # {}
                 PROVE  s \ {Pick(s)} \in SUBSET S /\ Cardinality(s \ {Pick(s)}) <= n
        OBVIOUS
    <3> QED
        BY PickIn
  <2> HIDE DEF Small
  <2>4. \A s \in Small(n) : f[s] = h[s]
      BY <2>1, <2>2
  <2>5. \A s \in Small(n + 1) : SumStep(h, r, op, s) = SumStep(f, r, op, s)
    <3> HIDE DEF f
    <3> QED
        BY <2>3, <2>4 DEF SumStep
  <2>6. f = [s \in Small(n + 1) |-> SumStep(f, r, op, s)]
    <3> DEFINE F == f
    <3>1. \A s \in Small(n + 1) : SumStep(h, r, op, s) = SumStep(F, r, op, s)
        BY <2>5
    <3>2. F = [s \in Small(n + 1) |-> SumStep(h, r, op, s)]
        OBVIOUS
    <3> HIDE DEF F
    <3>3. F = [s \in Small(n + 1) |-> SumStep(F, r, op, s)]
        BY <3>1, <3>2
    <3> QED
        BY <3>3 DEF F
  <2> HIDE DEF f
  <2> QED
      BY <2>6
<1> HIDE DEF Good
<1>5. Good(Cardinality(S))
  <2>1. CASE Bad = {}
      BY <1>2, <2>1
  <2>2. CASE Bad # {}
    <3>1. Bad \subseteq Nat /\ \A n \in Bad : ~Good(n)
        OBVIOUS
    <3>2. \A n \in Nat : n \notin Bad => Good(n)
        OBVIOUS
    <3> HIDE DEF Bad
    <3>3. PICK n \in Bad : \A m \in Bad : n <= m
        BY <2>2, <3>1, LeastNat
    <3>4. n \in Nat /\ n # 0 /\ ~Good(n)
        BY <1>3, <3>1, <3>3
    <3>5. n - 1 \in Nat /\ ~(n <= n - 1) /\ (n - 1) + 1 = n
        BY <3>4
    <3>6. Good(n - 1)
        BY <3>2, <3>3, <3>5
    <3>7. Good((n - 1) + 1)
        BY <1>4, <3>5, <3>6
    <3> QED
        BY <3>4, <3>5, <3>7
  <2> QED
      BY <2>1, <2>2
<1>6. Small(Cardinality(S)) = SUBSET S
    BY <1>1
<1> QED
    BY <1>5, <1>6 DEF Good

LEMMA SumFcnSums ==
    ASSUME NEW r, NEW op, NEW S, IsFiniteSet(S)
    PROVE  Sums(SumFcn(r, op, S), r, op, S)
<1> DEFINE F == SumFcn(r, op, S)
<1>1. F = [s \in SUBSET S |-> SumStep(F, r, op, s)]
    BY SumExists DEF SumFcn
<1> HIDE DEF F
<1>2. \A s \in SUBSET S : F[s] = SumStep(F, r, op, s)
    BY <1>1
<1> QED
    BY <1>2 DEF Sums, F
\* Two such functions agree where their summands do.
LEMMA SumsAgree ==
    ASSUME NEW S, NEW T, IsFiniteSet(T), S \subseteq T, NEW op,
           NEW r, NEW f, Sums(f, r, op, S),
           NEW r2, NEW f2, Sums(f2, r2, op, T),
           \A c \in S : Count(r, op, c) = Count(r2, op, c)
    PROVE  \A s \in SUBSET S : f[s] = f2[s]
<1> DEFINE Bad == { s \in SUBSET S : f[s] # f2[s] }
<1> SUFFICES ASSUME Bad # {} PROVE FALSE
    OBVIOUS
<1>1. IsFiniteSet(S)
    BY FS_Subset
<1>2. Bad \subseteq SUBSET S /\ \A s \in Bad : f[s] # f2[s]
    OBVIOUS
<1>3. \A s \in SUBSET S : s \notin Bad => f[s] = f2[s]
    OBVIOUS
<1> HIDE DEF Bad
<1>4. PICK s \in Bad : \A t \in Bad : Cardinality(s) <= Cardinality(t)
    BY <1>1, <1>2, SmallestBad
<1>5. s \in SUBSET S /\ s \in SUBSET T /\ f[s] # f2[s]
    BY <1>2, <1>4
<1>6. f[s] = SumStep(f, r, op, s) /\ f2[s] = SumStep(f2, r2, op, s)
    BY <1>5 DEF Sums
<1>7. s # {}
    BY <1>5, <1>6 DEF SumStep
<1> DEFINE x == Pick(s)
           t == s \ {Pick(s)}
<1>8. /\ x \in s /\ t \in SUBSET S /\ Cardinality(s) \in Nat /\ Cardinality(t) \in Nat
      /\ Cardinality(t) = Cardinality(s) - 1
    BY <1>1, <1>5, <1>7, PickIn
<1>9. f[s] = Count(r, op, x) + f[t] /\ f2[s] = Count(r2, op, x) + f2[t]
    BY <1>6, <1>7 DEF SumStep
<1> HIDE DEF x, t
<1>10. ~(Cardinality(s) <= Cardinality(t))
    BY <1>8
<1>11. f[t] = f2[t]
    BY <1>3, <1>4, <1>8, <1>10
<1>12. Count(r, op, x) = Count(r2, op, x)
    BY <1>5, <1>8
<1> QED
    BY <1>5, <1>9, <1>11, <1>12

\* A sum of naturals is one.
LEMMA SumsNat ==
    ASSUME NEW S, IsFiniteSet(S), NEW op, NEW r, NEW f, Sums(f, r, op, S),
           \A c \in S : Count(r, op, c) \in Nat
    PROVE  \A s \in SUBSET S : f[s] \in Nat
<1> DEFINE Bad == { s \in SUBSET S : f[s] \notin Nat }
<1> SUFFICES ASSUME Bad # {} PROVE FALSE
    OBVIOUS
<1>2. Bad \subseteq SUBSET S /\ \A s \in Bad : f[s] \notin Nat
    OBVIOUS
<1>3. \A s \in SUBSET S : s \notin Bad => f[s] \in Nat
    OBVIOUS
<1> HIDE DEF Bad
<1>4. PICK s \in Bad : \A t \in Bad : Cardinality(s) <= Cardinality(t)
    BY <1>2, SmallestBad
<1>5. s \in SUBSET S /\ f[s] \notin Nat
    BY <1>2, <1>4
<1>6. f[s] = SumStep(f, r, op, s)
    BY <1>5 DEF Sums
<1>7. s # {}
    BY <1>5, <1>6 DEF SumStep
<1> DEFINE x == Pick(s)
           t == s \ {Pick(s)}
<1>8. /\ x \in s /\ t \in SUBSET S /\ Cardinality(s) \in Nat /\ Cardinality(t) \in Nat
      /\ Cardinality(t) = Cardinality(s) - 1
    BY <1>5, <1>7, PickIn
<1>9. f[s] = Count(r, op, x) + f[t]
    BY <1>6, <1>7 DEF SumStep
<1> HIDE DEF x, t
<1>10. ~(Cardinality(s) <= Cardinality(t))
    BY <1>8
<1>11. f[t] \in Nat /\ Count(r, op, x) \in Nat
    BY <1>3, <1>4, <1>5, <1>8, <1>10
<1> QED
    BY <1>5, <1>9, <1>11

\* Any element may be taken last, whichever one Pick takes.
AnyOrder(f, r, op, S) ==
    \A s \in SUBSET S : \A c \in s : f[s] = f[s \ {c}] + Count(r, op, c)

LEMMA SumsAdd ==
    ASSUME NEW S, IsFiniteSet(S), NEW op, NEW r, NEW f, Sums(f, r, op, S),
           \A c \in S : Count(r, op, c) \in Nat
    PROVE  AnyOrder(f, r, op, S)
<1> DEFINE Adds(s) == \A c \in s : f[s] = f[s \ {c}] + Count(r, op, c)
           Bad == { s \in SUBSET S : ~Adds(s) }
<1> SUFFICES ASSUME Bad # {} PROVE FALSE
    BY DEF AnyOrder
<1>1. \A s \in SUBSET S : f[s] \in Nat
    BY SumsNat
<1>2. Bad \subseteq SUBSET S /\ \A s \in Bad : ~Adds(s)
    OBVIOUS
<1>3. \A s \in SUBSET S : s \notin Bad => Adds(s)
    OBVIOUS
<1> HIDE DEF Bad
<1>4. PICK s \in Bad : \A t \in Bad : Cardinality(s) <= Cardinality(t)
    BY <1>2, SmallestBad
<1>5. PICK c \in s : f[s] # f[s \ {c}] + Count(r, op, c)
    BY <1>2, <1>4
<1>6. s \in SUBSET S /\ s # {} /\ c \in S
    BY <1>2, <1>4, <1>5
<1> DEFINE x == Pick(s)
<1>7. /\ x \in s /\ s \ {x} \in SUBSET S /\ Cardinality(s) \in Nat
      /\ Cardinality(s \ {x}) = Cardinality(s) - 1
    BY <1>6, PickIn
<1>8. f[s] = Count(r, op, x) + f[s \ {x}]
    BY <1>6 DEF Sums, SumStep
<1> HIDE DEF x
<1>9. /\ s \ {c} \in SUBSET S /\ (s \ {x}) \ {c} \in SUBSET S
      /\ Count(r, op, x) \in Nat /\ Count(r, op, c) \in Nat
    BY <1>6, <1>7
<1>10. x # c
  <2> SUFFICES ASSUME x = c PROVE FALSE
      OBVIOUS
  <2>1. f[s] = Count(r, op, c) + f[s \ {c}] /\ f[s \ {c}] \in Nat
      BY <1>1, <1>8, <1>9
  <2>2. Count(r, op, c) + f[s \ {c}] = f[s \ {c}] + Count(r, op, c)
      BY <1>9, <2>1
  <2> QED
      BY <1>5, <2>1, <2>2
<1>11. Cardinality(s \ {c}) = Cardinality(s) - 1
  <2>1. IsFiniteSet(s)
      BY <1>6, FS_Subset
  <2> QED
      BY <1>5, <2>1, FS_RemoveElement
<1>12. s \ {x} \notin Bad /\ s \ {c} \notin Bad
  <2>1. ~(Cardinality(s) <= Cardinality(s \ {x})) /\ ~(Cardinality(s) <= Cardinality(s \ {c}))
      BY <1>7, <1>11
  <2> QED
      BY <1>4, <2>1
<1>13. f[s \ {x}] = f[(s \ {x}) \ {c}] + Count(r, op, c)
    BY <1>3, <1>5, <1>7, <1>10, <1>12
<1>14. f[s \ {c}] = f[(s \ {c}) \ {x}] + Count(r, op, x)
    BY <1>3, <1>7, <1>9, <1>10, <1>12
<1>15. (s \ {c}) \ {x} = (s \ {x}) \ {c}
    OBVIOUS
<1> DEFINE a == Count(r, op, x)
           b == Count(r, op, c)
           z == f[(s \ {x}) \ {c}]
<1>16. a \in Nat /\ b \in Nat /\ z \in Nat /\ f[s] = a + (z + b) /\ f[s \ {c}] = z + a
    BY <1>1, <1>8, <1>9, <1>13, <1>14, <1>15
<1>17. f[s] # f[s \ {c}] + b
    BY <1>5
<1> HIDE DEF a, b, z
<1> QED
    BY <1>16, <1>17

\* What MapThenSumSet returns for the empty set and for one more element.
LEMMA SumOfEmpty ==
    ASSUME NEW r, NEW op
    PROVE  SumOf(r, op, {}) = 0
<1>1. Sums(SumFcn(r, op, {}), r, op, {})
    BY FS_EmptySet, SumFcnSums
<1>2. {} \in SUBSET {}
    OBVIOUS
<1> QED
    BY <1>1, <1>2, SumIsFcn DEF Sums, SumStep

LEMMA SumOfSame ==
    ASSUME NEW r, NEW r2, NEW op, NEW S, IsFiniteSet(S),
           \A c \in S : Count(r, op, c) = Count(r2, op, c)
    PROVE  SumOf(r, op, S) = SumOf(r2, op, S)
<1>1. Sums(SumFcn(r, op, S), r, op, S) /\ Sums(SumFcn(r2, op, S), r2, op, S)
    BY SumFcnSums
<1>2. SumFcn(r, op, S)[S] = SumFcn(r2, op, S)[S]
  <2> DEFINE f == SumFcn(r, op, S)
             f2 == SumFcn(r2, op, S)
  <2>1. Sums(f, r, op, S) /\ Sums(f2, r2, op, S)
      BY <1>1
  <2> HIDE DEF f, f2
  <2>2. \A s \in SUBSET S : f[s] = f2[s]
      BY <2>1, SumsAgree
  <2>3. f[S] = f2[S]
      BY <2>2
  <2> QED
      BY <2>3 DEF f, f2
<1> QED
    BY <1>2, SumIsFcn

LEMMA SumOfAdd ==
    ASSUME NEW r, NEW op, NEW S, IsFiniteSet(S), NEW c, c \notin S,
           \A x \in S \cup {c} : Count(r, op, x) \in Nat
    PROVE  SumOf(r, op, S \cup {c}) = SumOf(r, op, S) + Count(r, op, c)
<1> DEFINE T  == S \cup {c}
           f  == SumFcn(r, op, S)
           f2 == SumFcn(r, op, T)
<1>1. IsFiniteSet(T) /\ S \subseteq T /\ T \ {c} = S /\ c \in T
    BY FS_AddElement
<1> HIDE DEF T
<1>2. Sums(f, r, op, S) /\ Sums(f2, r, op, T)
    BY <1>1, SumFcnSums
<1> HIDE DEF f, f2
<1>3. \A s \in SUBSET S : f[s] = f2[s]
    BY <1>1, <1>2, SumsAgree
<1>4. \A x \in T : Count(r, op, x) \in Nat
    BY DEF T
<1>5. AnyOrder(f2, r, op, T)
    BY <1>1, <1>2, <1>4, SumsAdd
<1>6. f2[T] = f2[T \ {c}] + Count(r, op, c)
    BY <1>1, <1>5 DEF AnyOrder
<1>7. f2[T] = f[S] + Count(r, op, c)
    BY <1>1, <1>3, <1>6
<1>8. SumOf(r, op, T) = f2[T] /\ SumOf(r, op, S) = f[S]
    BY SumIsFcn DEF f, f2
<1> QED
    BY <1>7, <1>8 DEF T
------------------------------------------------------------------------------
(***************************************************************************)
(* The merged statistics st are those of the clients M that reported r.    *)
(***************************************************************************)
Have(r, op, M) == { c \in M : op \in DOMAIN r[c].num_ops }

Totals(st, r, M) ==
    /\ st.merged \in Nat /\ (st.merged = 0 <=> M = {})
    /\ DOMAIN st.num_ops = { op \in OpsOf("run") : Have(r, op, M) # {} }
    /\ \A op \in DOMAIN st.num_ops : st.num_ops[op] = SumOf(r, op, Have(r, op, M))

\* What a feeder returns.
IsReport(x) ==
    /\ x.merged = 1
    /\ DOMAIN x.num_ops \subseteq OpsOf("run")
    /\ \A op \in DOMAIN x.num_ops : x.num_ops[op] \in Nat

\* Reports of other clients do not matter.
LEMMA TotalsSame ==
    ASSUME NEW st, NEW r, NEW r2, NEW M, IsFiniteSet(M), Totals(st, r, M),
           \A c \in M : r2[c] = r[c]
    PROVE  Totals(st, r2, M)
<1>1. \A op : Have(r2, op, M) = Have(r, op, M) /\ Have(r, op, M) \subseteq M
    BY DEF Have
<1>2. ASSUME NEW op PROVE SumOf(r2, op, Have(r2, op, M)) = SumOf(r, op, Have(r, op, M))
  <2> DEFINE S == Have(r, op, M)
  <2>1. IsFiniteSet(S) /\ Have(r2, op, M) = S /\ S \subseteq M
      BY <1>1, FS_Subset
  <2> HIDE DEF S
  <2>2. \A c \in S : Count(r2, op, c) = Count(r, op, c)
      BY <2>1 DEF Count
  <2>3. SumOf(r2, op, S) = SumOf(r, op, S)
      BY <2>1, <2>2, SumOfSame
  <2> QED
      BY <2>1, <2>3 DEF S
<1> QED
    BY <1>1, <1>2 DEF Totals

\* Stats::merge adds one client's report to the totals.
LEMMA MergeTotals ==
    ASSUME NEW st, NEW r, NEW M, IsFiniteSet(M), Totals(st, r, M),
           NEW c, c \notin M, \A d \in M \cup {c} : IsReport(r[d])
    PROVE  Totals(merge(st, r[c]), r, M \cup {c})
<1> DEFINE N == M \cup {c}
           new == merge(st, r[c])
<1>1. IsReport(r[c]) /\ r[c].merged = 1
    BY DEF IsReport
<1>2. \A op : /\ op \in DOMAIN r[c].num_ops => Have(r, op, N) = Have(r, op, M) \cup {c}
              /\ op \notin DOMAIN r[c].num_ops => Have(r, op, N) = Have(r, op, M)
    BY DEF Have
<1>3. ASSUME NEW op PROVE Have(r, op, M) \subseteq M /\ c \notin Have(r, op, M) /\ IsFiniteSet(Have(r, op, M))
  <2>1. Have(r, op, M) \subseteq M
      BY DEF Have
  <2> QED
      BY <2>1, FS_Subset
<1>4. ASSUME NEW op \in DOMAIN r[c].num_ops
      PROVE  SumOf(r, op, Have(r, op, N)) = SumOf(r, op, Have(r, op, M)) + r[c].num_ops[op]
  <2> DEFINE S == Have(r, op, M)
  <2>1. \A x \in S \cup {c} : x \in M \cup {c} /\ op \in DOMAIN r[x].num_ops
      BY <1>3 DEF Have
  <2>2. \A x \in S \cup {c} : Count(r, op, x) \in Nat
      BY <2>1 DEF Count, IsReport
  <2>3. c \notin S /\ IsFiniteSet(S) /\ Have(r, op, N) = S \cup {c}
      BY <1>2, <1>3
  <2> HIDE DEF S, N
  <2>4. SumOf(r, op, S \cup {c}) = SumOf(r, op, S) + Count(r, op, c)
      BY <2>2, <2>3, SumOfAdd
  <2> QED
      BY <2>3, <2>4 DEF S, Count
<1>5. \A op \in DOMAIN r[c].num_ops : r[c].num_ops[op] \in Nat /\ op \in OpsOf("run")
    BY <1>1 DEF IsReport
<1>6. ASSUME NEW op \in DOMAIN r[c].num_ops, Have(r, op, M) = {}
      PROVE  SumOf(r, op, Have(r, op, N)) = r[c].num_ops[op]
    BY <1>4, <1>5, <1>6, SumOfEmpty
<1>7. N # {}
    OBVIOUS
<1> HIDE DEF N
<1>8. CASE st.merged = 0
  <2>1. M = {} /\ new = r[c]
      BY <1>8 DEF Totals, merge
  <2>2. \A op : Have(r, op, M) = {}
      BY <2>1 DEF Have
  <2> HIDE DEF new
  <2>3. \A op : Have(r, op, N) # {} <=> op \in DOMAIN r[c].num_ops
      BY <1>2, <2>2
  <2>4. DOMAIN new.num_ops = { op \in OpsOf("run") : Have(r, op, N) # {} }
      BY <1>5, <2>1, <2>3
  <2>5. \A op \in DOMAIN new.num_ops : new.num_ops[op] = SumOf(r, op, Have(r, op, N))
      BY <1>6, <2>1, <2>2
  <2>6. new.merged \in Nat /\ new.merged # 0
      BY <1>1, <2>1
  <2> QED
      BY <1>7, <2>4, <2>5, <2>6 DEF Totals, new, N
<1>9. CASE st.merged # 0
  <2> DEFINE a == st.num_ops
             b == r[c].num_ops
             sum == [op \in DOMAIN a \cap DOMAIN b |-> a[op] + b[op]]
  <2>1. new.merged = st.merged /\ new.num_ops = merge_map(a, b, sum)
      BY <1>9 DEF merge
  <2>2. DOMAIN sum = DOMAIN a \cap DOMAIN b /\ \A op \in DOMAIN a \cap DOMAIN b : sum[op] = a[op] + b[op]
      OBVIOUS
  <2>3. /\ DOMAIN a = { op \in OpsOf("run") : Have(r, op, M) # {} }
        /\ \A op \in DOMAIN a : a[op] = SumOf(r, op, Have(r, op, M))
        /\ st.merged \in Nat
      BY DEF Totals
  <2>4. \A op \in DOMAIN b : b[op] \in Nat /\ op \in OpsOf("run")
      BY <1>5
  <2>5. \A op \in DOMAIN b : Have(r, op, N) # {} /\ SumOf(r, op, Have(r, op, N)) = SumOf(r, op, Have(r, op, M)) + b[op]
      BY <1>2, <1>4
  <2>6. \A op \in DOMAIN b : op \notin DOMAIN a => SumOf(r, op, Have(r, op, N)) = b[op]
    <3> SUFFICES ASSUME NEW op \in DOMAIN b, op \notin DOMAIN a
                 PROVE  SumOf(r, op, Have(r, op, N)) = b[op]
        OBVIOUS
    <3>1. Have(r, op, M) = {}
        BY <2>3, <2>4
    <3> QED
        BY <1>6, <3>1
  <2>7. \A op : op \notin DOMAIN b => Have(r, op, N) = Have(r, op, M)
      BY <1>2
  <2> HIDE DEF a, b, sum, new
  <2>8. DOMAIN new.num_ops = DOMAIN a \cup DOMAIN b
      BY <2>1 DEF merge_map
  <2>9. DOMAIN a \cup DOMAIN b = { op \in OpsOf("run") : Have(r, op, N) # {} }
      BY <1>2, <2>3, <2>4, <2>5, <2>7
  <2>10. ASSUME NEW op \in DOMAIN a \cup DOMAIN b PROVE new.num_ops[op] = SumOf(r, op, Have(r, op, N))
    <3>1. CASE op \in DOMAIN a \cap DOMAIN b
      <4>1. new.num_ops[op] = a[op] + b[op]
          BY <2>1, <2>2, <3>1 DEF merge_map
      <4> QED
          BY <2>3, <2>5, <3>1, <4>1
    <3>2. CASE op \in DOMAIN a /\ op \notin DOMAIN b
      <4>1. new.num_ops[op] = a[op]
          BY <2>1, <2>2, <3>2 DEF merge_map
      <4> QED
          BY <2>3, <2>7, <3>2, <4>1
    <3>3. CASE op \notin DOMAIN a
      <4>1. new.num_ops[op] = b[op]
          BY <2>1, <2>2, <2>10, <3>3 DEF merge_map
      <4> QED
          BY <2>6, <2>10, <3>3, <4>1
    <3> QED
        BY <2>10, <3>1, <3>2, <3>3
  <2>11. DOMAIN new.num_ops = { op \in OpsOf("run") : Have(r, op, N) # {} }
      BY <2>8, <2>9
  <2>12. \A op \in DOMAIN new.num_ops : new.num_ops[op] = SumOf(r, op, Have(r, op, N))
      BY <2>8, <2>10
  <2>13. new.merged \in Nat /\ new.merged # 0
      BY <1>9, <2>1, <2>3
  <2> QED
      BY <1>7, <2>11, <2>12, <2>13 DEF Totals, new, N
<1> QED
    BY <1>8, <1>9
\* The clients of a phase whose reports were merged.
MergedIn(ph) ==
    IF ph = phase
    THEN IF pc = "wait" THEN 1..(cur - 1) ELSE IF pc = "ok" THEN Clients ELSE {}
    ELSE IF ph = "load" THEN Clients ELSE {}

ReportsTyped ==
    /\ DOMAIN reports = Phases /\ DOMAIN stats = Phases
    /\ reports = [ph \in Phases |-> reports[ph]] /\ stats = [ph \in Phases |-> stats[ph]]
    /\ \A ph \in Phases : \A c \in DOMAIN reports[ph] : c \in Clients /\ IsReport(reports[ph][c])

\* In this phase, those who returned at the end of their lines have reported;
\* the other phase is over, or has not begun.
ReportsIn ==
    /\ \A c \in Clients : c \in DOMAIN reports[phase]
                            <=> (Launched(c) /\ feeder[c] = "returned" /\ ended[c])
    /\ \A ph \in Phases : ph # phase => DOMAIN reports[ph] = MergedIn(ph)

TotalsIn == \A ph \in Phases : Totals(stats[ph], reports[ph], MergedIn(ph))

ReportsInv ==
    /\ ReportsTyped
    /\ pc # "failed" => ReportsIn /\ TotalsIn

\* Only clients that reported are merged.
LEMMA MergedReported ==
    ASSUME BenchInv, ReportsInv, pc # "failed", NEW ph \in Phases
    PROVE  /\ MergedIn(ph) \subseteq Clients /\ MergedIn(ph) \subseteq DOMAIN reports[ph]
           /\ IsFiniteSet(MergedIn(ph))
<1>0. cur \in Clients /\ NumClis \in Nat
    BY BencherAssumption DEF BenchInv, Types, TypeOK
<1>1. MergedIn(ph) \subseteq Clients
  <2>1. 1..(cur - 1) \subseteq Clients
      BY <1>0 DEF Clients
  <2> QED
      BY <2>1 DEF MergedIn
<1>2. IsFiniteSet(Clients)
    BY <1>0, FS_Interval DEF Clients
<1>3. CASE ph # phase
    BY <1>1, <1>2, <1>3, FS_Subset DEF ReportsInv, ReportsIn
<1>4. CASE ph = phase
  <2>1. \A c \in MergedIn(ph) : Waited(c) /\ Launched(c)
      BY <1>0, <1>4 DEF MergedIn, Waited, Launched, Clients
  <2>2. \A c \in MergedIn(ph) : c \in DOMAIN reports[ph]
      BY <1>1, <1>4, <2>1 DEF ReportsInv, ReportsIn, BenchInv, WaitedEnded
  <2> QED
      BY <1>1, <1>2, <2>2, FS_Subset
<1> QED
    BY <1>3, <1>4

\* The feeders go on, or main launches one: what is merged stays as it is.
LEMMA ReportsFrame ==
    ASSUME BenchInv, ReportsInv, UNCHANGED <<reports, stats, phase>>, pc # "failed",
           \A ph \in Phases : MergedIn(ph)' = MergedIn(ph),
           \A c \in Clients : (Launched(c) /\ feeder[c] = "returned" /\ ended[c])'
                                <=> (Launched(c) /\ feeder[c] = "returned" /\ ended[c])
    PROVE  ReportsInv'
<1>1. ReportsTyped'
    BY DEF ReportsInv, ReportsTyped
<1>2. ReportsIn'
    BY DEF ReportsInv, ReportsIn
<1>3. TotalsIn'
  <2> SUFFICES ASSUME NEW ph \in Phases PROVE Totals(stats[ph], reports[ph], MergedIn(ph)')
      BY DEF TotalsIn
  <2> QED
      BY DEF ReportsInv, TotalsIn
<1> QED
    BY <1>1, <1>2, <1>3 DEF ReportsInv

LEMMA LaunchReports ==
    ASSUME BenchInv, ReportsInv, Launch
    PROVE  ReportsInv'
<1> USE BencherAssumption
<1>1. /\ pc = "launch" /\ pc' \in {"launch", "wait"} /\ cur \in Clients /\ cur \in Nat
      /\ pc' = "wait" => cur = NumClis /\ cur' = 1
      /\ pc' = "launch" => cur' = cur + 1
      /\ UNCHANGED <<reports, stats, phase>>
    BY DEF Launch, BenchInv, Types, TypeOK, Clients
<1>2. \A ph \in Phases : MergedIn(ph)' = MergedIn(ph)
  <2>1. pc' = "wait" => 1..(cur' - 1) = {}
      BY <1>1
  <2> QED
      BY <1>1, <2>1 DEF MergedIn
<1>3. ASSUME NEW c \in Clients
      PROVE  (Launched(c) /\ feeder[c] = "returned" /\ ended[c])'
               <=> (Launched(c) /\ feeder[c] = "returned" /\ ended[c])
  <2>1. CASE c = cur
    <3>1. feeder'[c] = "feeding"
        BY <1>1, <2>1 DEF Launch, BenchInv, Types, TypeOK
    <3>2. ~Launched(c)
        BY <1>1, <2>1 DEF Launched
    <3> QED
        BY <3>1, <3>2
  <2>2. CASE c # cur
    <3>1. feeder'[c] = feeder[c] /\ ended'[c] = ended[c]
        BY <1>1, <2>2 DEF Launch, BenchInv, Types, TypeOK
    <3>2. Launched(c)' <=> Launched(c)
        BY <1>1, <2>2 DEF Launched, Clients
    <3> QED
        BY <3>1, <3>2
  <2> QED
      BY <2>1, <2>2
<1> QED
    BY <1>1, <1>2, <1>3, ReportsFrame

LEMMA FeedReports ==
    ASSUME BenchInv, ReportsInv, NEW c \in Clients, FeedCall(c) \/ FeedErr(c) \/ EndOfFile(c)
    PROVE  ReportsInv'
<1>1. /\ UNCHANGED <<reports, stats, phase, pc, cur>> /\ pc # "failed" /\ feeder[c] = "feeding"
      /\ (feeder' = feeder \/ feeder' = [feeder EXCEPT ![c] = "stopping"])
      /\ (ended' = ended \/ ended' = [ended EXCEPT ![c] = TRUE])
    BY DEF FeedCall, FeedErr, EndOfFile, Feeding, mvars
<1>2. \A ph \in Phases : MergedIn(ph)' = MergedIn(ph)
    BY <1>1 DEF MergedIn
<1>3. \A d \in Clients : Launched(d)' <=> Launched(d)
    BY <1>1 DEF Launched
<1>4. \A d \in Clients : d # c => feeder'[d] = feeder[d] /\ ended'[d] = ended[d]
    BY <1>1 DEF BenchInv, Types, TypeOK
<1>5. feeder[c] # "returned" /\ feeder'[c] # "returned"
    BY <1>1 DEF BenchInv, Types, TypeOK
<1> QED
    BY <1>1, <1>2, <1>3, <1>4, <1>5, ReportsFrame

\* A report comes in for a client that is not merged yet.
LEMMA ReturnReports ==
    ASSUME BenchInv, ReportsInv, NEW c \in Clients, FeederReturns(c)
    PROVE  ReportsInv'
<1>1. /\ UNCHANGED <<stats, phase, pc, cur, ended>> /\ pc # "failed" /\ feeder[c] = "stopping"
      /\ pc \in {"launch", "wait"} /\ feeder' = [feeder EXCEPT ![c] = "returned"]
      /\ phase \in Phases /\ cur \in Clients
      /\ ReportsTyped /\ ReportsIn /\ TotalsIn
    BY DEF FeederReturns, mvars, BenchInv, Types, TypeOK, ReportsInv
<1>2. \A ph \in Phases : MergedIn(ph)' = MergedIn(ph)
    BY <1>1 DEF MergedIn
<1>3. \A d \in Clients : Launched(d)' <=> Launched(d)
    BY <1>1 DEF Launched
<1>4. Launched(c)
    BY <1>1 DEF Launched, BenchInv, QuietBefore, Clients
<1>5. feeder'[c] = "returned" /\ \A d \in Clients : d # c => feeder'[d] = feeder[d]
    BY <1>1 DEF BenchInv, Types, TypeOK
<1>6. c \notin DOMAIN reports[phase]
    BY <1>1 DEF ReportsIn
<1>7. CASE ~ended[c]
    BY <1>1, <1>2, <1>3, <1>5, <1>7, ReportsFrame DEF FeederReturns
<1>8. CASE ended[c]
  <2> DEFINE rep == reports[phase]
  <2>1. PICK kinds \in KindsReported(c), lat \in Latencies :
          reports' = [reports EXCEPT ![phase] =
             [d \in DOMAIN @ \cup {c} |-> IF d = c THEN PerfOf(c, kinds, lat) ELSE @[d]]]
      BY <1>8 DEF FeederReturns
  <2>2. /\ DOMAIN reports' = Phases
        /\ reports'[phase] = [d \in DOMAIN rep \cup {c} |-> IF d = c THEN PerfOf(c, kinds, lat) ELSE rep[d]]
        /\ \A ph \in Phases : ph # phase => reports'[ph] = reports[ph]
        /\ reports' = [ph \in Phases |-> reports'[ph]]
      BY <1>1, <2>1 DEF ReportsTyped
  <2>3. /\ DOMAIN reports'[phase] = DOMAIN rep \cup {c}
        /\ reports'[phase][c] = PerfOf(c, kinds, lat)
        /\ \A d \in DOMAIN rep : reports'[phase][d] = rep[d]
      BY <1>6, <2>2
  <2>4. IsReport(PerfOf(c, kinds, lat))
    <3>1. num_ops[c] \in [OpsOf("run") -> Nat]
        BY DEF BenchInv, Types
    <3>2. kinds \subseteq OpsOf("run")
        BY DEF KindsReported, OpsOf
    <3> QED
        BY <3>1, <3>2 DEF IsReport, PerfOf
  <2>5. ReportsTyped'
    <3>1. \A ph \in Phases : \A d \in DOMAIN reports'[ph] : d \in Clients /\ IsReport(reports'[ph][d])
      <4> SUFFICES ASSUME NEW ph \in Phases, NEW d \in DOMAIN reports'[ph]
                   PROVE  d \in Clients /\ IsReport(reports'[ph][d])
          OBVIOUS
      <4>1. CASE ph # phase
          BY <1>1, <2>2, <4>1 DEF ReportsTyped
      <4>2. CASE ph = phase
          BY <1>1, <2>3, <2>4, <4>2 DEF ReportsTyped
      <4> QED
          BY <4>1, <4>2
    <3> QED
        BY <1>1, <2>2, <3>1 DEF ReportsTyped
  <2>6. ReportsIn'
    <3>1. ASSUME NEW d \in Clients
          PROVE  d \in DOMAIN reports'[phase] <=> (Launched(d) /\ feeder[d] = "returned" /\ ended[d])'
        BY <1>1, <1>3, <1>4, <1>5, <1>8, <2>3 DEF ReportsIn
    <3>2. \A ph \in Phases : ph # phase => DOMAIN reports'[ph] = MergedIn(ph)'
        BY <1>1, <1>2, <2>2 DEF ReportsIn
    <3> QED
        BY <1>1, <3>1, <3>2 DEF ReportsIn
  <2>7. TotalsIn'
    <3> SUFFICES ASSUME NEW ph \in Phases PROVE Totals(stats[ph], reports'[ph], MergedIn(ph))
        BY <1>1, <1>2 DEF TotalsIn
    <3>1. Totals(stats[ph], reports[ph], MergedIn(ph))
        BY <1>1 DEF TotalsIn
    <3>2. MergedIn(ph) \subseteq DOMAIN reports[ph] /\ IsFiniteSet(MergedIn(ph))
        BY <1>1, MergedReported
    <3>3. \A d \in MergedIn(ph) : reports'[ph][d] = reports[ph][d]
        BY <2>2, <2>3, <3>2
    <3> QED
        BY <3>1, <3>2, <3>3, TotalsSame
  <2> QED
      BY <2>5, <2>6, <2>7 DEF ReportsInv
<1> QED
    BY <1>7, <1>8

\* The driver waited for has reported, and its report is merged.
LEMMA WaitReports ==
    ASSUME BenchInv, ReportsInv, WaitDriver
    PROVE  ReportsInv'
<1> USE BencherAssumption
<1>1. /\ UNCHANGED <<reports, feeder, ended>> /\ pc = "wait" /\ cur \in Clients /\ cur \in Nat
      /\ phase \in Phases /\ feeder[cur] = "returned" /\ ended[cur]
      /\ ReportsTyped /\ ReportsIn /\ TotalsIn
      /\ stats' = [stats EXCEPT ![phase] = merge(@, reports[phase][cur])]
    BY DEF WaitDriver, Returned, BenchInv, Types, TypeOK, Clients, ReportsInv
<1> DEFINE M == 1..(cur - 1)
<1>2. M = MergedIn(phase) /\ cur \notin M
    BY <1>1 DEF MergedIn
<1>3. M \cup {cur} = 1..cur
    BY <1>1 DEF Clients
<1> HIDE DEF M
<1>4. IsFiniteSet(M) /\ M \subseteq DOMAIN reports[phase]
    BY <1>1, <1>2, MergedReported
<1>5. cur \in DOMAIN reports[phase]
    BY <1>1 DEF ReportsIn, Launched
<1>6. Totals(merge(stats[phase], reports[phase][cur]), reports[phase], M \cup {cur})
  <2>1. \A d \in M \cup {cur} : IsReport(reports[phase][d])
      BY <1>1, <1>4, <1>5 DEF ReportsTyped
  <2>2. Totals(stats[phase], reports[phase], M)
      BY <1>1, <1>2 DEF TotalsIn
  <2> QED
      BY <1>2, <1>4, <2>1, <2>2, MergeTotals
<1>7. /\ Totals(stats'[phase], reports[phase], 1..cur)
      /\ \A ph \in Phases : ph # phase => stats'[ph] = stats[ph]
      /\ DOMAIN stats' = Phases /\ stats' = [ph \in Phases |-> stats'[ph]]
    BY <1>1, <1>3, <1>6 DEF ReportsTyped
<1>8. ReportsTyped'
    BY <1>1, <1>7 DEF ReportsTyped
<1>9. CASE cur < NumClis
  <2>1. UNCHANGED <<phase, pc>> /\ cur' = cur + 1
      BY <1>9 DEF WaitDriver, NextPhase
  <2>2. /\ MergedIn(phase)' = 1..cur
        /\ \A ph \in Phases : ph # phase => MergedIn(ph)' = MergedIn(ph)
    <3>1. (cur + 1) - 1 = cur
        BY <1>1
    <3> QED
        BY <1>1, <2>1, <3>1 DEF MergedIn
  <2>3. ReportsIn'
    <3>1. \A c \in Clients : Launched(c)' <=> Launched(c)
        BY <1>1, <2>1 DEF Launched
    <3> QED
        BY <1>1, <2>1, <2>2, <3>1 DEF ReportsIn
  <2>4. TotalsIn'
    <3> SUFFICES ASSUME NEW ph \in Phases PROVE Totals(stats'[ph], reports[ph], MergedIn(ph)')
        BY <1>1 DEF TotalsIn
    <3> QED
        BY <1>1, <1>7, <2>1, <2>2 DEF TotalsIn
  <2> QED
      BY <1>8, <2>3, <2>4 DEF ReportsInv
<1>10. CASE ~(cur < NumClis)
  <2>1. cur' = 1 /\ phase' = "run" /\ pc' = IF phase = "load" THEN "launch" ELSE "ok"
      BY <1>10 DEF WaitDriver, NextPhase
  <2>2. 1..cur = Clients
      BY <1>1, <1>10 DEF Clients
  <2>3. DOMAIN reports[phase] = Clients
    <3>1. \A c \in Clients : c = cur \/ Waited(c)
        BY <1>1, <1>10 DEF Waited, Clients
    <3>2. \A c \in Clients : Launched(c) /\ feeder[c] = "returned" /\ ended[c]
        BY <1>1, <3>1 DEF Launched, BenchInv, WaitedEnded
    <3> QED
        BY <1>1, <3>2 DEF ReportsIn, ReportsTyped
  <2>4. CASE phase = "run"
    <3>1. pc' = "ok" /\ phase' = "run" /\ "run" \in Phases
        BY <2>1, <2>4 DEF Phases
    <3>2. MergedIn("run")' = Clients /\ \A ph \in Phases : ph # "run" => MergedIn(ph)' = MergedIn(ph)
        BY <1>1, <2>1, <2>4, <3>1 DEF MergedIn
    <3>3. ReportsIn'
      <4>1. \A c \in Clients : Launched(c)' <=> Launched(c)
          BY <1>1, <3>1 DEF Launched
      <4> QED
          BY <1>1, <2>4, <3>1, <3>2, <4>1 DEF ReportsIn
    <3>4. TotalsIn'
      <4> SUFFICES ASSUME NEW ph \in Phases PROVE Totals(stats'[ph], reports[ph], MergedIn(ph)')
          BY <1>1 DEF TotalsIn
      <4> QED
          BY <1>1, <1>7, <2>2, <2>4, <3>2 DEF TotalsIn
    <3> QED
        BY <1>8, <3>3, <3>4 DEF ReportsInv
  <2>5. CASE phase = "load"
    <3>1. pc' = "launch" /\ phase' = "run" /\ "run" \in Phases /\ "load" \in Phases /\ "run" # "load"
        BY <2>1, <2>5 DEF Phases
    <3>2. MergedIn("run")' = {} /\ MergedIn("load")' = Clients /\ MergedIn("run") = {}
        BY <1>1, <2>1, <2>5, <3>1 DEF MergedIn
    <3>3. DOMAIN reports["run"] = {}
        BY <1>1, <2>5, <3>1, <3>2 DEF ReportsIn
    <3>4. ReportsIn'
      <4>1. \A c \in Clients : ~Launched(c)'
          BY <2>1, <3>1 DEF Launched, Clients
      <4>2. \A ph \in Phases : ph # "run" => ph = "load"
          BY DEF Phases
      <4> QED
          BY <1>1, <2>3, <2>5, <3>1, <3>2, <3>3, <4>1, <4>2 DEF ReportsIn
    <3>5. TotalsIn'
      <4>1. Totals(stats'["load"], reports["load"], Clients)
          BY <1>7, <2>2, <2>5
      <4>2. Totals(stats'["run"], reports["run"], {})
          BY <1>1, <1>7, <2>5, <3>1, <3>2 DEF TotalsIn
      <4> QED
          BY <1>1, <3>2, <4>1, <4>2 DEF TotalsIn, Phases
    <3> QED
        BY <1>8, <3>4, <3>5 DEF ReportsInv
  <2> QED
      BY <1>1, <2>4, <2>5 DEF Phases
<1> QED
    BY <1>9, <1>10

LEMMA ReportsStep ==
    ASSUME BenchInv, ReportsInv, [Next]_vars
    PROVE  ReportsInv'
<1>1. ASSUME LaunchErr \/ WaitFailed \/ WaitTimeout PROVE ReportsInv'
  <2>1. pc' = "failed" /\ UNCHANGED <<reports, stats>>
      BY <1>1 DEF LaunchErr, WaitFailed, WaitTimeout
  <2> QED
      BY <2>1 DEF ReportsInv, ReportsTyped
<1>2. ASSUME Done \/ UNCHANGED vars PROVE ReportsInv'
  <2>1. UNCHANGED <<reports, stats, phase, pc, cur, feeder, ended>>
      BY <1>2 DEF Done, vars, mvars, fvars
  <2> QED
      BY <2>1 DEF ReportsInv, ReportsTyped, ReportsIn, TotalsIn, MergedIn, Launched
<1> QED
    BY <1>1, <1>2, LaunchReports, WaitReports, FeedReports, ReturnReports
       DEF Next, MainStep, FeederStep

LEMMA InitReports == Init => ReportsInv
<1> SUFFICES ASSUME Init PROVE ReportsInv
    OBVIOUS
<1>1. /\ DOMAIN reports = Phases /\ DOMAIN stats = Phases
      /\ reports = [ph \in Phases |-> reports[ph]] /\ stats = [ph \in Phases |-> stats[ph]]
      /\ \A ph \in Phases : reports[ph] = <<>> /\ stats[ph] = NewStats
      /\ phase = "load" /\ pc = "launch" /\ cur = 1
    BY DEF Init
<1>2. DOMAIN <<>> = {}
    OBVIOUS
<1>3. ReportsTyped
    BY <1>1, <1>2 DEF ReportsTyped
<1>4. \A ph \in Phases : MergedIn(ph) = {}
    BY <1>1 DEF MergedIn, Phases
<1>5. \A c \in Clients : ~Launched(c)
    BY <1>1 DEF Launched, Clients
<1>6. ReportsIn
  <2>1. phase \in Phases
      BY <1>1 DEF Phases
  <2> QED
      BY <1>1, <1>2, <1>4, <1>5, <2>1 DEF ReportsIn
<1>7. TotalsIn
  <2> SUFFICES ASSUME NEW ph \in Phases PROVE Totals(NewStats, <<>>, {})
      BY <1>1, <1>4 DEF TotalsIn
  <2>1. \A op : Have(<<>>, op, {}) = {}
      BY DEF Have
  <2>2. NewStats.merged = 0 /\ DOMAIN NewStats.num_ops = {}
      BY <1>2 DEF NewStats
  <2> QED
      BY <2>1, <2>2 DEF Totals
<1> QED
    BY <1>3, <1>6, <1>7 DEF ReportsInv

(***************************************************************************)
(* Stats::merge loses and doubles no operation: the merged counts of each  *)
(* kind are the sums over all clients that reported the kind, in whatever  *)
(* combination of kinds the clients report and in both phases.             *)
(***************************************************************************)
THEOREM MergedCountsAddUp == Spec => []OpsSummed
<1>1. BenchInv /\ ReportsInv => OpsSummed
  <2> SUFFICES ASSUME BenchInv, ReportsInv, NEW ph \in Phases, pc \in {"wait", "ok"}
               PROVE  /\ DOMAIN stats[ph].num_ops = { op \in OpsOf("run") : Having(ph, op) # {} }
                      /\ \A op \in DOMAIN stats[ph].num_ops :
                           stats[ph].num_ops[op]
                             = MapThenSumSet(LAMBDA c : reports[ph][c].num_ops[op], Having(ph, op))
      BY DEF OpsSummed
  <2>1. ReportsTyped /\ ReportsIn /\ TotalsIn
      BY DEF ReportsInv
  <2>2. Merged(ph) = MergedIn(ph)
    <3>1. CASE ph # phase
        BY <2>1, <3>1 DEF Merged, MergedIn, ReportsIn
    <3>2. CASE ph = phase /\ pc = "wait"
        BY <3>2 DEF Merged, MergedIn
    <3>3. CASE ph = phase /\ pc = "ok"
      <4>1. \A c \in Clients : Launched(c) /\ feeder[c] = "returned" /\ ended[c]
          BY <3>3 DEF Launched, Waited, BenchInv, WaitedEnded
      <4>2. DOMAIN reports[ph] = Clients
          BY <2>1, <3>3, <4>1 DEF ReportsIn, ReportsTyped
      <4> QED
          BY <3>3, <4>2 DEF Merged, MergedIn
    <3> QED
        BY <3>1, <3>2, <3>3
  <2>3. Totals(stats[ph], reports[ph], MergedIn(ph))
      BY <2>1 DEF TotalsIn
  <2>4. \A op : Having(ph, op) = Have(reports[ph], op, MergedIn(ph))
      BY <2>2 DEF Having, Have
  <2>5. \A op \in DOMAIN stats[ph].num_ops :
           stats[ph].num_ops[op] = SumOf(reports[ph], op, Having(ph, op))
      BY <2>3, <2>4 DEF Totals
  <2>6. DOMAIN stats[ph].num_ops = { op \in OpsOf("run") : Having(ph, op) # {} }
      BY <2>3, <2>4 DEF Totals
  <2> HIDE DEF Having
  <2> QED
      BY <2>5, <2>6 DEF SumOf
<1>2. BenchInv /\ ReportsInv /\ [Next]_vars => ReportsInv'
    BY ReportsStep
<1> QED
    BY <1>1, <1>2, InitReports, InitBench, NextBench, PTL DEF Spec
==============================================================================
