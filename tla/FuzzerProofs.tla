----------------------------- MODULE FuzzerProofs -----------------------------
(***************************************************************************)
(* The fuzzer's checker gives final verdicts, for every number of clients, *)
(* keys and operations and whatever the client processes answer.           *)
(***************************************************************************)
EXTENDS HistoryProofs

(***************************************************************************)
(* The inductive invariant.  A stamp is past when it was taken before the  *)
(* one a response harvested now would get.                                 *)
(***************************************************************************)
Past(ts) == ts <= timestamp /\ (waiting # {} => ts < timestamp)

\* Stamps come from one clock, and a client's calls follow one another.
Stamps ==
    /\ \A c \in Clients : Past(maxtr[c]) /\ Past(call_memo[c].ts)
    /\ \A c \in Clients : flying[c] => maxtr[c] < call_memo[c].ts
    /\ \A c \in waiting : flying[c]
    /\ \A c \in Clients : \A u \in call_memo[c].upd : u.key \in Pool

\* The queue is in the order of the responses.
QueueOrdered(q) ==
    /\ \A i \in 1..Len(q) : q[i].ts_call < q[i].ts_resp
    /\ \A i, j \in 1..Len(q) : i < j => q[i].ts_resp <= q[j].ts_resp

AckedBefore ==
    \A u \in acked : u.ts_call <= u.ts_resp /\ u.ts_resp <= maxtr[u.cli]

DecidedBefore ==
    \A d \in decided : BeforeComing(d.entry.ts_resp, maxtr)

Bookkeeping ==
    /\ Stamps
    /\ \A i \in 1..Len(queue) : Past(queue[i].ts_resp)
    /\ QueueOrdered(queue)
    /\ AckedBefore
    /\ DecidedBefore
    /\ MirrorsAll(spans, acked, queue, maxtr)
    /\ NoOverdueCheck

DecidedOrdered == \A d \in decided : d.entry.ts_call < d.entry.ts_resp

IndInv ==
    /\ TypeOK
    /\ DecidedOrdered
    /\ VerdictsFinal
    /\ outcome # "violation" => Bookkeeping

------------------------------------------------------------------------------
\* The initial history mirrors the dummy updates.
LEMMA InitMirrors == Init => MirrorsAll(spans, acked, queue, maxtr)
  <1>0. DummySpan \in Span
    BY DEF DummySpan, Span, OptValues
  <1> SUFFICES ASSUME Init, NEW k \in Pool, NEW c \in Clients
               PROVE  /\ Mirrors(spans[k][c], acked, c, k)
                      /\ Discarded(spans[k][c], acked, c, k) = {}
    <2>1. Init => spans \in [Pool -> [Clients -> Seq(Span)]]
      BY <1>0 DEF Init, InitialSpans
    <2> QED BY <2>1 DEF MirrorsAll
  <1> DEFINE s == spans[k][c]
  <1>1. s = <<DummySpan>>
    BY DEF Init, InitialSpans
  <1>3. s \in Seq(Span) /\ Len(s) = 1 /\ s[1] = DummySpan
    BY <1>0, <1>1
  <1>4. Record(c, k, s[1]) = [cli |-> c, key |-> k, ts_call |-> 0, ts_resp |-> 0, value |-> Null]
    BY <1>3 DEF Record, DummySpan
  <1>5. Record(c, k, s[1]) \in acked /\ \A u \in acked : u.cli = c /\ u.key = k => u = Record(c, k, s[1])
    BY <1>4 DEF Init
  <1>6. Sequential(s)
    BY <1>3 DEF Sequential, DummySpan
  <1>7. Discarded(s, acked, c, k) = {}
    BY <1>3 DEF Discarded, DummySpan, Init
  <1> HIDE DEF s
  <1>8. Mirrors(s, acked, c, k)
    <2>1. 1 \in 1..Len(s) /\ \A i \in 1..Len(s) : i = 1
      BY <1>3
    <2> QED BY <1>5, <1>6, <2>1 DEF Mirrors
  <1> QED BY <1>7, <1>8 DEF s

LEMMA InitInd == Init => IndInv
  <1> SUFFICES ASSUME Init PROVE IndInv
    OBVIOUS
  <1>1. TypeOK
    <2>1. spans \in [Pool -> [Clients -> Seq(Span)]]
      <3>1. DummySpan \in Span
        BY DEF DummySpan, Span, OptValues
      <3> QED BY <3>1 DEF Init, InitialSpans
    <2>2. /\ flying \in [Clients -> BOOLEAN] /\ timestamp \in Nat
          /\ call_memo \in [Clients -> Memo] /\ maxtr \in [Clients -> Nat]
          /\ ops_called \in Nat /\ ops_waited \in Nat /\ waiting \in SUBSET Clients
          /\ outcome \in Outcomes
      BY DEF Init, Memo, EmptyMemo, Outcomes
    <2>3. queue \in Seq(QueuedSpan) /\ decided \subseteq [entry : QueuedSpan, ok : BOOLEAN]
      BY DEF Init
    <2>4. link \in [Clients -> Link]
      BY DEF Init, Link, Idle
    <2>5. acked \subseteq Acked
      BY DEF Init, Acked, OptValues
    <2> QED BY <2>1, <2>2, <2>3, <2>4, <2>5 DEF TypeOK
  <1>2. DecidedOrdered /\ VerdictsFinal /\ DecidedBefore
    BY DEF Init, DecidedOrdered, VerdictsFinal, DecidedBefore
  <1>3. Stamps
    BY DEF Init, Stamps, Past, EmptyMemo
  <1>4. Len(queue) = 0
    BY DEF Init
  <1>5. QueueOrdered(queue) /\ NoOverdueCheck /\ \A i \in 1..Len(queue) : Past(queue[i].ts_resp)
    BY <1>4 DEF Init, QueueOrdered, NoOverdueCheck
  <1>6. AckedBefore
    BY DEF Init, AckedBefore
  <1> QED BY <1>1, <1>2, <1>3, <1>5, <1>6, InitMirrors DEF IndInv, Bookkeeping

------------------------------------------------------------------------------
(***************************************************************************)
(* Steps that leave the clock, the calls and the history alone.            *)
(***************************************************************************)
LEMMA FrameInd ==
    ASSUME IndInv,
           UNCHANGED <<flying, timestamp, call_memo, hvars, ops_called, ops_waited,
                       waiting, acked, decided>>,
           link' \in [Clients -> Link], outcome' \in Outcomes,
           outcome' # "violation" => outcome # "violation"
    PROVE  IndInv'
  <1> USE DEF hvars
  <1>1. TypeOK'
    BY DEF IndInv, TypeOK
  <1>2. DecidedOrdered' /\ VerdictsFinal'
    BY DEF IndInv, DecidedOrdered, VerdictsFinal
  <1>3. ASSUME outcome' # "violation" PROVE Bookkeeping'
    <2>1. Bookkeeping
      BY <1>3 DEF IndInv
    <2>2. Stamps' /\ \A i \in 1..Len(queue') : Past(queue[i].ts_resp)'
      BY <2>1 DEF Bookkeeping, Stamps, Past
    <2>3. QueueOrdered(queue)' /\ MirrorsAll(spans, acked, queue, maxtr)'
      BY <2>1 DEF Bookkeeping
    <2>4. AckedBefore' /\ DecidedBefore'
      BY <2>1 DEF Bookkeeping, AckedBefore, DecidedBefore
    <2>5. NoOverdueCheck'
      BY <1>3, <2>1 DEF Bookkeeping, NoOverdueCheck
    <2> QED BY <2>2, <2>3, <2>4, <2>5 DEF Bookkeeping
  <1> QED BY <1>1, <1>2, <1>3 DEF IndInv

LEMMA LinkTypes ==
    ASSUME link \in [Clients -> Link], NEW c \in Clients
    PROVE  /\ Idle \in Link /\ [st |-> "stopped"] \in Link /\ [st |-> "dead"] \in Link
           /\ \A call \in KvCall : [st |-> "called", call |-> call] \in Link
           /\ \A resp \in KvResp : [st |-> "replied", resp |-> resp] \in Link
           /\ link[c].st = "called" => link[c].call \in KvCall
           /\ link[c].st = "replied" => link[c].resp \in KvResp
  BY DEF Link, Idle

LEMMA QuietSteps ==
    ASSUME IndInv,
           \/ \E c \in Clients : HarvestErr(c) \/ HarvestStop(c) \/ StopClient(c) \/ StopErr(c)
                                   \/ Answer(c) \/ DriverDies(c)
           \/ Report
           \/ Done
           \/ UNCHANGED vars
    PROVE  IndInv'
  <1>0. link \in [Clients -> Link] /\ outcome \in Outcomes
    BY DEF IndInv, TypeOK
  <1>1. ASSUME NEW c \in Clients, HarvestErr(c) \/ StopErr(c)
        PROVE  IndInv'
    <2>1. outcome' \in Outcomes /\ link' \in [Clients -> Link] /\ outcome # "violation"
      BY <1>0, <1>1 DEF HarvestErr, StopErr, Outcomes
    <2> QED BY <1>1, <2>1, FrameInd DEF HarvestErr, StopErr
  <1>2. ASSUME NEW c \in Clients, HarvestStop(c)
        PROVE  IndInv'
    <2>1. outcome' \in Outcomes /\ link' \in [Clients -> Link] /\ outcome # "violation"
      BY <1>0, <1>2, LinkTypes DEF HarvestStop, Outcomes
    <2> QED BY <1>2, <2>1, FrameInd DEF HarvestStop
  <1>3. ASSUME NEW c \in Clients, StopClient(c) \/ DriverDies(c)
        PROVE  IndInv'
    <2>1. outcome' = outcome /\ link' \in [Clients -> Link]
      BY <1>0, <1>3, LinkTypes DEF StopClient, DriverDies
    <2> QED BY <1>0, <1>3, <2>1, FrameInd DEF StopClient, DriverDies
  <1>4. ASSUME NEW c \in Clients, Answer(c)
        PROVE  IndInv'
    <2>1. link[c].call \in KvCall
      BY <1>0, <1>4, LinkTypes DEF Answer
    <2>2. PICK resp \in Replies(link[c].call) : link' = [link EXCEPT ![c] = [st |-> "replied", resp |-> resp]]
      BY <1>4 DEF Answer
    <2>3. resp \in KvResp
      BY <2>1, <2>2, RepliesAssumption
    <2>4. outcome' = outcome /\ link' \in [Clients -> Link]
      BY <1>0, <1>4, <2>2, <2>3, LinkTypes DEF Answer
    <2> QED BY <1>0, <1>4, <2>4, FrameInd DEF Answer
  <1>5. ASSUME Report PROVE IndInv'
    <2>1. outcome' \in Outcomes /\ link' \in [Clients -> Link] /\ outcome # "violation"
      BY <1>0, <1>5 DEF Report, Outcomes
    <2> QED BY <1>5, <2>1, FrameInd DEF Report
  <1>6. ASSUME Done \/ UNCHANGED vars PROVE IndInv'
    <2>1. UNCHANGED vars
      BY <1>6 DEF Done
    <2> QED BY <1>0, <2>1, FrameInd DEF vars
  <1> QED BY <1>1, <1>2, <1>3, <1>4, <1>5, <1>6

------------------------------------------------------------------------------
\* A new call gets a stamp above everything stamped so far.
LEMMA CallInd ==
    ASSUME IndInv, NEW c \in Clients, Call(c)
    PROVE  IndInv'
  <1> USE DEF hvars
  <1>1. /\ TypeOK /\ DecidedOrdered /\ VerdictsFinal /\ Bookkeeping
        /\ outcome' = outcome /\ outcome = "running" /\ waiting = {}
    BY DEF IndInv, Call, AtTop
  <1>2. PICK call \in RandCalls(c) :
          /\ call_memo' = [call_memo EXCEPT ![c] =
                             [ts |-> timestamp + 1, upd |-> update_info(call)]]
          /\ link' = [link EXCEPT ![c] = [st |-> "called", call |-> call]]
    BY DEF Call
  <1>3. call \in KvCall /\ update_info(call) \subseteq Update
    BY DEF RandCalls, update_info
  <1>4. \A u \in update_info(call) : u.key \in Pool
    <2>1. \A u \in update_info(call) : u.key = call.key /\ call.op # "Scan"
      BY DEF update_info
    <2>2. call.op # "Scan" => call.key \in KeyPool[c]
      BY <1>2 DEF RandCalls
    <2> QED BY <2>1, <2>2 DEF Pool
  <1>5. /\ flying \in [Clients -> BOOLEAN] /\ timestamp \in Nat
        /\ call_memo \in [Clients -> Memo] /\ maxtr \in [Clients -> Nat]
        /\ ops_called \in Nat /\ link \in [Clients -> Link]
    BY <1>1 DEF TypeOK
  <1>6. /\ timestamp' = timestamp + 1 /\ flying' = [flying EXCEPT ![c] = TRUE]
        /\ ops_called' = ops_called + 1
        /\ UNCHANGED <<hvars, ops_waited, waiting, outcome, acked, decided>>
    BY DEF Call
  <1>7. TypeOK'
    <2>1. call_memo' \in [Clients -> Memo]
      BY <1>2, <1>3, <1>5 DEF Memo
    <2>2. link' \in [Clients -> Link]
      BY <1>2, <1>3, <1>5, LinkTypes
    <2>3. timestamp' \in Nat /\ flying' \in [Clients -> BOOLEAN] /\ ops_called' \in Nat
      BY <1>5, <1>6
    <2> QED BY <1>1, <1>6, <2>1, <2>2, <2>3 DEF TypeOK
  <1>8. \A x \in Clients : maxtr[x] <= timestamp /\ maxtr[x] \in Nat
    BY <1>1, <1>5 DEF Bookkeeping, Stamps, Past
  <1>9. /\ call_memo'[c].ts = timestamp + 1 /\ call_memo'[c].upd = update_info(call)
        /\ flying'[c]
        /\ \A x \in Clients : x # c => call_memo'[x] = call_memo[x] /\ flying'[x] = flying[x]
    BY <1>2, <1>5, <1>6
  <1>10. VerdictsFinal'
    <2>1. ASSUME NEW d \in decided
          PROVE  call_memo'[c].ts > d.entry.ts_resp
      <3>1. d.entry.ts_resp \in Nat
        BY <1>1 DEF TypeOK, QueuedSpan
      <3>2. d.entry.ts_resp < maxtr[c]
        BY <1>1, <1>5 DEF Bookkeeping, DecidedBefore, BeforeComing
      <3> QED BY <1>5, <1>8, <1>9, <3>1, <3>2
    <2> QED BY <1>1, <1>6, <1>9, <2>1 DEF VerdictsFinal
  <1>11. Stamps'
    <2>1. \A x \in Clients : Past(maxtr[x])' /\ Past(call_memo[x].ts)'
      <3> SUFFICES ASSUME NEW x \in Clients
                   PROVE  maxtr[x] <= timestamp + 1 /\ call_memo'[x].ts <= timestamp + 1
        BY <1>1, <1>6 DEF Past
      <3>1. call_memo[x].ts \in Nat /\ call_memo[x].ts <= timestamp
        BY <1>1, <1>5 DEF Bookkeeping, Stamps, Past, Memo
      <3> QED BY <1>5, <1>8, <1>9, <3>1
    <2>2. \A x \in Clients : flying'[x] => maxtr'[x] < call_memo'[x].ts
      BY <1>1, <1>5, <1>6, <1>8, <1>9 DEF Bookkeeping, Stamps
    <2>3. \A x \in waiting' : flying'[x]
      BY <1>1, <1>6
    <2>4. \A x \in Clients : \A u \in call_memo'[x].upd : u.key \in Pool
      BY <1>1, <1>4, <1>9 DEF Bookkeeping, Stamps
    <2> QED BY <2>1, <2>2, <2>3, <2>4 DEF Stamps
  <1>12. \A i \in 1..Len(queue') : Past(queue[i].ts_resp)'
    <2> SUFFICES ASSUME NEW i \in 1..Len(queue)
                 PROVE  queue[i].ts_resp <= timestamp + 1
      BY <1>1, <1>6 DEF Past
    <2>1. queue[i] \in QueuedSpan /\ queue[i].ts_resp <= timestamp
      BY <1>1 DEF TypeOK, Bookkeeping, Past
    <2> QED BY <1>5, <2>1 DEF QueuedSpan
  <1>13. QueueOrdered(queue)' /\ MirrorsAll(spans, acked, queue, maxtr)'
    BY <1>1, <1>6 DEF Bookkeeping
  <1>14. AckedBefore' /\ DecidedBefore' /\ NoOverdueCheck' /\ DecidedOrdered'
    BY <1>1, <1>6 DEF Bookkeeping, AckedBefore, DecidedBefore, NoOverdueCheck, DecidedOrdered
  <1> QED BY <1>7, <1>10, <1>11, <1>12, <1>13, <1>14 DEF IndInv, Bookkeeping

\* The wait for a response moves the clock past every stamp.
LEMMA BeginWaitInd ==
    ASSUME IndInv, NEW c \in Clients, BeginWait(c)
    PROVE  IndInv'
  <1> USE DEF hvars
  <1>1. /\ TypeOK /\ DecidedOrdered /\ VerdictsFinal /\ Bookkeeping
        /\ outcome = "running" /\ waiting = {}
    BY DEF IndInv, BeginWait, AtTop
  <1>2. /\ flying[c] /\ timestamp' = timestamp + 1 /\ waiting' = {c}
        /\ UNCHANGED <<flying, call_memo, hvars, ops_called, ops_waited, link,
                       outcome, acked, decided>>
    BY DEF BeginWait
  <1>3. timestamp \in Nat /\ maxtr \in [Clients -> Nat] /\ call_memo \in [Clients -> Memo]
    BY <1>1 DEF TypeOK
  <1>4. TypeOK'
    BY <1>1, <1>2, <1>3 DEF TypeOK
  <1>5. DecidedOrdered' /\ VerdictsFinal'
    BY <1>1, <1>2 DEF DecidedOrdered, VerdictsFinal
  <1>6. \A ts \in Nat : Past(ts) => ts < timestamp'
    BY <1>1, <1>2, <1>3 DEF Past
  <1>7. \A ts \in Nat : ts < timestamp' => Past(ts)'
    BY <1>2, <1>3 DEF Past
  <1>8. Stamps'
    <2>1. \A x \in Clients : maxtr[x] < timestamp' /\ call_memo[x].ts < timestamp'
      BY <1>1, <1>3, <1>6 DEF Bookkeeping, Stamps, Memo
    <2>2. \A x \in Clients : Past(maxtr[x])' /\ Past(call_memo[x].ts)'
      <3> SUFFICES ASSUME NEW x \in Clients
                   PROVE  /\ maxtr[x] <= timestamp' /\ maxtr[x] < timestamp'
                          /\ call_memo[x].ts <= timestamp' /\ call_memo[x].ts < timestamp'
        BY <1>2 DEF Past
      <3>1. maxtr[x] \in Nat /\ call_memo[x].ts \in Nat
        BY <1>3 DEF Memo
      <3> QED BY <1>2, <1>3, <2>1, <3>1
    <2> QED BY <1>1, <1>2, <2>2 DEF Bookkeeping, Stamps
  <1>9. \A i \in 1..Len(queue') : Past(queue[i].ts_resp)'
    <2> SUFFICES ASSUME NEW i \in 1..Len(queue)
                 PROVE  queue[i].ts_resp <= timestamp' /\ queue[i].ts_resp < timestamp'
      BY <1>2 DEF Past
    <2>1. queue[i] \in QueuedSpan /\ Past(queue[i].ts_resp)
      BY <1>1 DEF TypeOK, Bookkeeping
    <2>2. queue[i].ts_resp \in Nat
      BY <2>1 DEF QueuedSpan
    <2> QED BY <1>2, <1>3, <1>6, <2>1, <2>2
  <1>10. QueueOrdered(queue)' /\ MirrorsAll(spans, acked, queue, maxtr)'
    BY <1>1, <1>2 DEF Bookkeeping
  <1>11. AckedBefore' /\ DecidedBefore' /\ NoOverdueCheck'
    BY <1>1, <1>2 DEF Bookkeeping, AckedBefore, DecidedBefore, NoOverdueCheck
  <1> QED BY <1>4, <1>5, <1>8, <1>9, <1>10, <1>11 DEF IndInv, Bookkeeping

------------------------------------------------------------------------------
\* What a harvest finds, and the queue with the new response at its end.
LEMMA TakeFacts ==
    ASSUME IndInv, NEW c \in Clients, TakeResponse(c)
    PROVE  /\ TypeOK /\ DecidedOrdered /\ VerdictsFinal /\ Bookkeeping
           /\ outcome = "running" /\ waiting = {c} /\ flying[c]
           /\ timestamp \in Nat /\ call_memo[c].ts \in Nat
           /\ \A x \in Clients : maxtr[x] \in Nat /\ maxtr[x] < timestamp
           /\ maxtr[c] < call_memo[c].ts /\ call_memo[c].ts < timestamp
           /\ link' \in [Clients -> Link]
           /\ call_memo' \in [Clients -> Memo]
           /\ call_memo'[c] = EmptyMemo /\ \A x \in Clients : x # c => call_memo'[x] = call_memo[x]
           /\ timestamp' = timestamp /\ ops_called' = ops_called
  <1>1. outcome = "running" /\ waiting = {c} /\ link[c].st = "replied"
    BY DEF TakeResponse
  <1>2. TypeOK /\ DecidedOrdered /\ VerdictsFinal /\ Bookkeeping
    BY <1>1 DEF IndInv
  <1>3. /\ link \in [Clients -> Link] /\ call_memo \in [Clients -> Memo]
        /\ maxtr \in [Clients -> Nat] /\ timestamp \in Nat
    BY <1>2 DEF TypeOK
  <1>4. call_memo[c].ts \in Nat
    BY <1>3 DEF Memo
  <1>5. flying[c] /\ maxtr[c] < call_memo[c].ts
    BY <1>1, <1>2 DEF Bookkeeping, Stamps
  <1>6. call_memo[c].ts < timestamp /\ \A x \in Clients : maxtr[x] \in Nat /\ maxtr[x] < timestamp
    BY <1>1, <1>2, <1>3 DEF Bookkeeping, Stamps, Past
  <1>7. link' \in [Clients -> Link]
    BY <1>3, LinkTypes DEF TakeResponse
  <1>8. EmptyMemo \in Memo
    BY DEF EmptyMemo, Memo
  <1>9. /\ call_memo' \in [Clients -> Memo]
        /\ call_memo'[c] = EmptyMemo /\ \A x \in Clients : x # c => call_memo'[x] = call_memo[x]
    BY <1>3, <1>8 DEF TakeResponse
  <1>10. timestamp' = timestamp /\ ops_called' = ops_called
    BY DEF TakeResponse
  <1> QED BY <1>1, <1>2, <1>3, <1>4, <1>5, <1>6, <1>7, <1>9, <1>10

LEMMA EnqueueFacts ==
    ASSUME IndInv, NEW c \in Clients, TakeResponse(c),
           NEW q, q = Enqueued(c)
    PROVE  /\ q \in Seq(QueuedSpan)
           /\ Len(q) \in Nat /\ DOMAIN q = 1..Len(q) /\ Len(queue) \in Nat /\ Len(q) = Len(queue) + 1
           /\ \A i \in 1..Len(q) : /\ q[i] \in QueuedSpan
                                   /\ q[i].ts_call \in Nat /\ q[i].ts_resp \in Nat
                                   /\ q[i].ts_resp <= timestamp
           /\ \A i \in 1..Len(queue) : q[i] = queue[i]
           /\ q[Len(q)].ts_resp = timestamp
           /\ QueueOrdered(q)
           /\ \A ts \in Nat : BeforeComing(ts, maxtr) /\ BeforeQueued(ts, queue) => BeforeQueued(ts, q)
  <1> DEFINE e == [ts_call |-> call_memo[c].ts, ts_resp |-> timestamp, resp |-> link[c].resp]
             n == Len(queue)
  <1>1. /\ TypeOK /\ Bookkeeping /\ waiting = {c}
        /\ timestamp \in Nat /\ call_memo[c].ts \in Nat /\ maxtr[c] \in Nat
        /\ maxtr[c] < call_memo[c].ts /\ call_memo[c].ts < timestamp
    BY TakeFacts
  <1>2. link[c].resp \in KvResp
    BY <1>1, LinkTypes DEF TypeOK, TakeResponse
  <1>3. e \in QueuedSpan /\ e.ts_call = call_memo[c].ts /\ e.ts_resp = timestamp
    BY <1>1, <1>2 DEF QueuedSpan
  <1>4. queue \in Seq(QueuedSpan) /\ n \in Nat /\ DOMAIN queue = 1..n
    BY <1>1 DEF TypeOK
  <1>5. q = Append(queue, e)
    BY DEF Enqueued, add_to_queue
  <1> HIDE DEF e
  <1>6. /\ q \in Seq(QueuedSpan) /\ Len(q) = n + 1
        /\ \A i \in 1..n : q[i] = queue[i]
        /\ q[n + 1] = e
    BY <1>3, <1>4, <1>5, AppendProperties
  <1>7. DOMAIN q = 1..(n + 1)
    BY <1>4, <1>6
  <1> HIDE DEF n
  <1>8. \A i \in 1..(n + 1) : i \in 1..n \/ i = n + 1
    BY <1>4
  <1>9. \A i \in 1..n : /\ queue[i] \in QueuedSpan /\ queue[i].ts_call \in Nat /\ queue[i].ts_resp \in Nat
                        /\ queue[i].ts_resp < timestamp /\ queue[i].ts_call < queue[i].ts_resp
    <2>1. \A i \in 1..n : queue[i] \in QueuedSpan
      BY <1>4
    <2>2. \A i \in 1..n : queue[i].ts_call < queue[i].ts_resp /\ queue[i].ts_resp < timestamp
      BY <1>1 DEF n, Bookkeeping, QueueOrdered, Past
    <2> QED BY <2>1, <2>2 DEF QueuedSpan
  <1>10. \A i \in 1..(n + 1) : /\ q[i] \in QueuedSpan
                               /\ q[i].ts_call \in Nat /\ q[i].ts_resp \in Nat
                               /\ q[i].ts_resp <= timestamp
                               /\ q[i].ts_call < q[i].ts_resp
    <2> TAKE i \in 1..(n + 1)
    <2>1. CASE i \in 1..n
      BY <1>1, <1>6, <1>9, <2>1
    <2>2. CASE i = n + 1
      BY <1>1, <1>3, <1>6, <2>2
    <2> QED BY <1>8, <2>1, <2>2
  <1>11. QueueOrdered(q)
    <2>1. ASSUME NEW i \in 1..(n + 1), NEW j \in 1..(n + 1), i < j
          PROVE  q[i].ts_resp <= q[j].ts_resp
      <3>1. i \in 1..n
        BY <1>4, <2>1
      <3>2. CASE j \in 1..n
        BY <1>1, <1>6, <2>1, <3>1, <3>2 DEF n, Bookkeeping, QueueOrdered
      <3>3. CASE j = n + 1
        BY <1>3, <1>6, <1>10, <3>3
      <3> QED BY <1>8, <3>2, <3>3
    <2> QED BY <1>6, <1>10, <2>1 DEF QueueOrdered
  <1>12. ASSUME NEW ts \in Nat, BeforeComing(ts, maxtr), BeforeQueued(ts, queue)
         PROVE  BeforeQueued(ts, q)
    <2>1. ts < maxtr[c]
      BY <1>1, <1>12 DEF BeforeComing, TypeOK
    <2>2. ts < e.ts_call
      BY <1>1, <1>3, <2>1
    <2>3. \A i \in 1..n : ts < q[i].ts_call
      BY <1>4, <1>6, <1>12 DEF BeforeQueued
    <2> QED BY <1>6, <1>7, <1>8, <2>2, <2>3 DEF BeforeQueued
  <1>13. n + 1 \in Nat /\ Len(q) \in Nat /\ q[Len(q)].ts_resp = timestamp
    BY <1>3, <1>4, <1>6
  <1> QED BY <1>4, <1>6, <1>7, <1>10, <1>11, <1>12, <1>13 DEF n

\* The stamps after a harvest that goes on, with maxtr at most as recent.
LEMMA EndOpStamps ==
    ASSUME IndInv, NEW c \in Clients, TakeResponse(c), EndOp(c),
           \A x \in Clients : /\ maxtr'[x] \in Nat /\ maxtr'[x] <= timestamp
                              /\ x # c => maxtr'[x] = maxtr[x]
    PROVE  /\ Stamps'
           /\ flying' \in [Clients -> BOOLEAN] /\ ops_waited' \in Nat
           /\ waiting' = {} /\ outcome' \in {"running", "stopping"}
           /\ ~flying'[c] /\ \A x \in Clients : x # c => flying'[x] = flying[x]
  <1>1. flying \in [Clients -> BOOLEAN] /\ ops_waited \in Nat /\ Bookkeeping
        /\ call_memo \in [Clients -> Memo] /\ timestamp \in Nat
    BY TakeFacts DEF TypeOK
  <1>2. /\ flying' \in [Clients -> BOOLEAN] /\ ops_waited' \in Nat
        /\ waiting' = {} /\ outcome' \in {"running", "stopping"}
        /\ ~flying'[c] /\ \A x \in Clients : x # c => flying'[x] = flying[x]
    BY <1>1 DEF EndOp
  <1>3. /\ call_memo'[c] = EmptyMemo /\ \A x \in Clients : x # c => call_memo'[x] = call_memo[x]
        /\ timestamp' = timestamp /\ waiting = {c}
    BY TakeFacts
  <1>4. EmptyMemo.ts = 0 /\ EmptyMemo.upd = {}
    BY DEF EmptyMemo
  <1>5. \A x \in Clients : call_memo'[x].ts <= timestamp
    <2> TAKE x \in Clients
    <2>1. call_memo[x].ts \in Nat /\ call_memo[x].ts < timestamp
      BY <1>1, <1>3 DEF Bookkeeping, Stamps, Past, Memo
    <2>2. CASE x = c
      BY <1>1, <1>3, <1>4, <2>2
    <2>3. CASE x # c
      BY <1>1, <1>3, <2>1, <2>3
    <2> QED BY <2>2, <2>3
  <1>6. \A x \in Clients : Past(maxtr[x])' /\ Past(call_memo[x].ts)'
    BY <1>2, <1>3, <1>5 DEF Past
  <1>7. \A x \in Clients : flying'[x] => maxtr'[x] < call_memo'[x].ts
    <2> SUFFICES ASSUME NEW x \in Clients, x # c, flying[x] PROVE maxtr[x] < call_memo[x].ts
      BY <1>2, <1>3
    <2> QED BY <1>1 DEF Bookkeeping, Stamps
  <1>8. \A x \in Clients : \A u \in call_memo'[x].upd : u.key \in Pool
    BY <1>1, <1>3, <1>4 DEF Bookkeeping, Stamps
  <1> QED BY <1>2, <1>6, <1>7, <1>8 DEF Stamps

\* A read-only response joins the queue.
LEMMA HarvestReadInd ==
    ASSUME IndInv, NEW c \in Clients, HarvestRead(c)
    PROVE  IndInv'
  <1>1. TakeResponse(c) /\ EndOp(c) /\ queue' = Enqueued(c) /\ UNCHANGED <<spans, maxtr, acked, decided>>
    BY DEF HarvestRead
  <1>2. /\ TypeOK /\ DecidedOrdered /\ VerdictsFinal /\ Bookkeeping
        /\ timestamp \in Nat /\ timestamp' = timestamp /\ ops_called' = ops_called
        /\ \A x \in Clients : maxtr[x] \in Nat /\ maxtr[x] < timestamp
        /\ link' \in [Clients -> Link] /\ call_memo' \in [Clients -> Memo]
        /\ \A x \in Clients : x # c => call_memo'[x] = call_memo[x]
    BY <1>1, TakeFacts
  <1>3. /\ Stamps'
        /\ flying' \in [Clients -> BOOLEAN] /\ ops_waited' \in Nat
        /\ waiting' = {} /\ outcome' \in {"running", "stopping"}
        /\ ~flying'[c] /\ \A x \in Clients : x # c => flying'[x] = flying[x]
    BY <1>1, <1>2, EndOpStamps
  <1>4. /\ queue' \in Seq(QueuedSpan)
        /\ DOMAIN queue' = 1..Len(queue') /\ Len(queue) \in Nat /\ Len(queue') = Len(queue) + 1
        /\ \A i \in 1..Len(queue') : queue'[i].ts_resp \in Nat /\ queue'[i].ts_resp <= timestamp
        /\ \A i \in 1..Len(queue) : queue'[i] = queue[i]
        /\ queue'[Len(queue')].ts_resp = timestamp
        /\ QueueOrdered(queue')
        /\ \A ts \in Nat : BeforeComing(ts, maxtr) /\ BeforeQueued(ts, queue) => BeforeQueued(ts, queue')
    BY <1>1, EnqueueFacts
  <1>5. TypeOK'
    <2>1. outcome' \in Outcomes /\ waiting' \in SUBSET Clients
      BY <1>3 DEF Outcomes
    <2> QED BY <1>1, <1>2, <1>3, <1>4, <2>1 DEF TypeOK
  <1>6. VerdictsFinal' /\ DecidedOrdered'
    BY <1>1, <1>2, <1>3 DEF VerdictsFinal, DecidedOrdered
  <1>7. \A i \in 1..Len(queue') : Past(queue[i].ts_resp)'
    BY <1>2, <1>3, <1>4 DEF Past
  <1>8. MirrorsAll(spans', acked', queue', maxtr')
    <2>1. MirrorsAll(spans, acked, queue, maxtr)
      BY <1>2 DEF Bookkeeping
    <2>2. \A k \in Pool, x \in Clients : spans[k][x][1].ts_resp \in Nat
      BY <2>1, SequentialFacts DEF MirrorsAll, Mirrors
    <2> QED BY <1>1, <1>4, <2>1, <2>2 DEF MirrorsAll
  <1>9. AckedBefore' /\ DecidedBefore'
    BY <1>1, <1>2 DEF Bookkeeping, AckedBefore, DecidedBefore
  <1>10. NoOverdueCheck'
    <2> SUFFICES ASSUME NEW i \in 1..Len(queue') PROVE ~BeforeComing(queue'[i].ts_resp, maxtr)
      BY <1>1, <1>4 DEF NoOverdueCheck
    <2>1. CASE i \in 1..Len(queue)
      <3>1. ~BeforeComing(queue[i].ts_resp, maxtr)
        <4>1. outcome # "violation" /\ DOMAIN queue = 1..Len(queue)
          BY <1>1, <1>2 DEF TypeOK, TakeResponse
        <4> QED BY <1>2, <2>1, <4>1 DEF Bookkeeping, NoOverdueCheck
      <3> QED BY <1>4, <2>1, <3>1
    <2>2. CASE i = Len(queue')
      <3>1. PICK x \in Clients : TRUE
        BY ClientsAssumption
      <3>2. DOMAIN maxtr = Clients
        BY <1>2 DEF TypeOK
      <3>3. ~(timestamp < maxtr[x])
        BY <1>2
      <3> QED BY <1>4, <2>2, <3>2, <3>3 DEF BeforeComing
    <2> QED BY <1>4, <2>1, <2>2
  <1> QED BY <1>3, <1>4, <1>5, <1>6, <1>7, <1>8, <1>9, <1>10 DEF IndInv, Bookkeeping

(***************************************************************************)
(* The harvest of an update: the history takes it in, the responses that   *)
(* became decidable get their verdicts, and what stays in the queue is     *)
(* still undecidable.                                                      *)
(***************************************************************************)
LEMMA HarvestUpdateInd ==
    ASSUME IndInv, NEW c \in Clients, HarvestUpdate(c)
    PROVE  IndInv'
  <1>1. TakeResponse(c)
    BY DEF HarvestUpdate
  <1>2. /\ TypeOK /\ DecidedOrdered /\ VerdictsFinal /\ Bookkeeping
        /\ flying[c]
        /\ timestamp \in Nat /\ call_memo[c].ts \in Nat
        /\ \A x \in Clients : maxtr[x] \in Nat /\ maxtr[x] < timestamp
        /\ maxtr[c] < call_memo[c].ts /\ call_memo[c].ts < timestamp
        /\ link' \in [Clients -> Link] /\ call_memo' \in [Clients -> Memo]
        /\ call_memo'[c] = EmptyMemo /\ \A x \in Clients : x # c => call_memo'[x] = call_memo[x]
        /\ timestamp' = timestamp /\ ops_called' = ops_called
    BY <1>1, TakeFacts
  <1>3. /\ spans \in [Pool -> [Clients -> Seq(Span)]] /\ maxtr \in [Clients -> Nat]
        /\ acked \subseteq Acked /\ call_memo \in [Clients -> Memo]
        /\ decided \subseteq [entry : QueuedSpan, ok : BOOLEAN]
        /\ flying \in [Clients -> BOOLEAN] /\ ops_waited \in Nat /\ waiting \in SUBSET Clients
    BY <1>2 DEF TypeOK
  <1> DEFINE tc == call_memo[c].ts
             q  == Enqueued(c)
             tr == [maxtr EXCEPT ![c] = timestamp]
  <1>4. PICK u \in call_memo[c].upd :
          LET sp     == SpansAfter(spans, q, tr, c, u, tc, timestamp)
              n      == NumPopped(sp, q, tr)
              failed == Failing(sp, q, tr) # {}
          IN  /\ spans' = sp
              /\ maxtr' = tr
              /\ queue' = SubSeq(q, n + 1, Len(q))
              /\ acked' = acked \cup { [cli |-> c, key |-> u.key, value |-> u.value,
                                        ts_call |-> tc, ts_resp |-> timestamp] }
              /\ decided' = Decide(q, n, failed)
              /\ IF ~failed THEN EndOp(c) ELSE BreakOut("violation")
    <2>1. \A u \in call_memo[c].upd : u.key \in DOMAIN spans
      BY <1>2, <1>3 DEF Bookkeeping, Stamps
    <2> QED BY <2>1 DEF HarvestUpdate
  <1>5. u \in Update /\ u.key \in Pool
    BY <1>2, <1>3, <1>4 DEF Memo, Bookkeeping, Stamps
  <1> DEFINE sp     == SpansAfter(spans, q, tr, c, u, tc, timestamp)
             n      == NumPopped(sp, q, tr)
             failed == Failing(sp, q, tr) # {}
             r      == [cli |-> c, key |-> u.key, value |-> u.value,
                        ts_call |-> tc, ts_resp |-> timestamp]
  <1>6. /\ spans' = sp /\ maxtr' = tr /\ queue' = SubSeq(q, n + 1, Len(q))
        /\ acked' = acked \cup {r} /\ decided' = Decide(q, n, failed)
        /\ ~failed => EndOp(c)
        /\ failed => BreakOut("violation")
    BY <1>4
  <1>7. /\ r \in Acked /\ r.cli = c /\ r.ts_call = tc /\ r.ts_resp = timestamp
        /\ r.ts_call <= r.ts_resp
    BY <1>2, <1>5 DEF Acked, Update
  <1>8. /\ q \in Seq(QueuedSpan)
        /\ Len(q) \in Nat /\ DOMAIN q = 1..Len(q)
        /\ \A i \in 1..Len(q) : /\ q[i] \in QueuedSpan
                                /\ q[i].ts_call \in Nat /\ q[i].ts_resp \in Nat
                                /\ q[i].ts_resp <= timestamp
        /\ QueueOrdered(q)
        /\ \A ts \in Nat : BeforeComing(ts, maxtr) /\ BeforeQueued(ts, queue) => BeforeQueued(ts, q)
    BY <1>1, EnqueueFacts
  <1>9. /\ tr \in [Clients -> Nat] /\ DOMAIN maxtr = Clients /\ DOMAIN tr = Clients
        /\ tr[c] = timestamp /\ \A x \in Clients : x # c => tr[x] = maxtr[x]
        /\ \A x \in Clients : tr[x] \in Nat /\ maxtr[x] \in Nat /\ maxtr[x] <= tr[x] /\ tr[x] <= timestamp
    BY <1>2, <1>3
  <1> HIDE DEF q, tr, r
  <1>10. \A ts \in Nat : BeforeComing(ts, maxtr) => BeforeComing(ts, tr)
    <2> SUFFICES ASSUME NEW ts \in Nat, NEW x \in Clients, ts < maxtr[x] PROVE ts < tr[x]
      BY <1>9 DEF BeforeComing
    <2> QED BY <1>9
  <1>11. sp \in [Pool -> [Clients -> Seq(Span)]] /\ MirrorsAll(sp, acked \cup {r}, q, tr)
    <2>1. MirrorsAll(spans, acked, queue, maxtr)
      BY <1>2 DEF Bookkeeping
    <2>2. \A h \in acked : h.cli = c => h.ts_resp < tc
      <3> SUFFICES ASSUME NEW h \in acked, h.cli = c PROVE h.ts_resp < tc
        OBVIOUS
      <3>1. h.ts_resp \in Nat /\ h.ts_resp <= maxtr[c]
        BY <1>2, <1>3 DEF Acked, Bookkeeping, AckedBefore
      <3> QED BY <1>2, <1>9, <3>1
    <2>3. tc \in Nat /\ tc <= timestamp
      BY <1>2
    <2>4. r = [cli |-> c, key |-> u.key, value |-> u.value, ts_call |-> tc, ts_resp |-> timestamp]
      BY DEF r
    <2>5. \A ts \in Nat : BeforeComing(ts, maxtr) /\ BeforeQueued(ts, queue)
                            => BeforeComing(ts, tr) /\ BeforeQueued(ts, q)
      BY <1>8, <1>10
    <2> DEFINE H == acked \cup {r}
    <2>6. H = acked \cup {r} /\ sp = SpansAfter(spans, q, tr, c, u, tc, timestamp)
      OBVIOUS
    <2> HIDE DEF tc, sp, H
    <2>7. MirrorsAll(sp, H, q, tr)
      BY <1>2, <1>3, <1>5, <2>1, <2>2, <2>3, <2>4, <2>5, <2>6, SpansAfterMirrors
    <2> QED BY <2>7 DEF H, MirrorsAll
  <1> HIDE DEF sp
  <1>12. acked \cup {r} \subseteq Acked /\ \A h \in acked \cup {r} : h.ts_call <= h.ts_resp
    BY <1>2, <1>3, <1>7 DEF Bookkeeping, AckedBefore
  <1>13. \A i \in 1..Len(q) : check_call(sp, q[i]) <=> Permitted(acked \cup {r}, q[i])
    <2> SUFFICES ASSUME NEW i \in DOMAIN q
                 PROVE  check_call(sp, q[i]) <=> Permitted(acked \cup {r}, q[i])
      BY <1>8
    <2>1. q[i] \in QueuedSpan
      BY <1>8
    <2> DEFINE H == acked \cup {r}
    <2>2. H \subseteq Acked /\ (\A h \in H : h.ts_call <= h.ts_resp) /\ MirrorsAll(sp, H, q, tr)
      BY <1>11, <1>12
    <2> HIDE DEF H
    <2>3. check_call(sp, q[i]) <=> Permitted(H, q[i])
      BY <1>11, <2>1, <2>2, CheckCallExact
    <2> QED BY <2>3 DEF H
  <1>14. /\ n \in 0..Len(q)
         /\ \A i \in 1..n : BeforeComing(q[i].ts_resp, tr)
         /\ failed => n \in 1..Len(q) /\ ~check_call(sp, q[n])
         /\ failed => \A i \in 1..(n - 1) : check_call(sp, q[i])
         /\ ~failed => \A i \in 1..n : check_call(sp, q[i])
         /\ ~failed /\ n < Len(q) => ~BeforeComing(q[n + 1].ts_resp, tr)
    BY <1>8, PopLoop
  <1> HIDE DEF n, failed
  <1>15. \A i \in 1..n : i \in 1..Len(q) /\ (~(failed /\ i = n) <=> Permitted(acked \cup {r}, q[i]))
    <2> TAKE i \in 1..n
    <2>1. i \in 1..Len(q)
      BY <1>8, <1>14
    <2>2. ~(failed /\ i = n) <=> check_call(sp, q[i])
      <3>1. i = n \/ i \in 1..(n - 1)
        BY <1>8, <1>14
      <3> QED BY <1>14, <3>1
    <2> QED BY <1>13, <2>1, <2>2
  <1>16. \A d \in decided' : \/ d \in decided
                             \/ \E i \in 1..n : d.entry = q[i] /\ d.ok = ~(failed /\ i = n)
                                                /\ d = [entry |-> q[i], ok |-> ~(failed /\ i = n)]
    BY <1>6 DEF Decide
  <1>17. flying'[c] => call_memo'[c].upd = {}
    BY <1>2 DEF EmptyMemo
  <1>18. \A x \in Clients : x # c => flying'[x] = flying[x]
    BY <1>3, <1>6 DEF EndOp, BreakOut
  <1>19. VerdictsFinal' /\ DecidedOrdered'
    <2> SUFFICES ASSUME NEW d \in decided'
                 PROVE  /\ d.ok <=> Permitted(acked \cup {r}, d.entry)
                        /\ d.entry.ts_call < d.entry.ts_resp
                        /\ \A x \in Clients : flying'[x] /\ call_memo'[x].upd # {}
                                                => call_memo'[x].ts > d.entry.ts_resp
      BY <1>6 DEF VerdictsFinal, DecidedOrdered
    <2>1. CASE d \in decided
      <3>1. /\ d.entry \in QueuedSpan /\ d.entry.ts_call < d.entry.ts_resp
            /\ d.ok <=> Permitted(acked, d.entry)
        BY <1>2, <1>3, <2>1 DEF DecidedOrdered, VerdictsFinal
      <3>2. tc > d.entry.ts_resp
        BY <1>2, <1>4, <2>1 DEF VerdictsFinal
      <3>3. Permitted(acked \cup {r}, d.entry) <=> Permitted(acked, d.entry)
        BY <1>7, <3>1, <3>2, VerdictStable
      <3>4. \A x \in Clients : flying'[x] /\ call_memo'[x].upd # {}
                                 => call_memo'[x].ts > d.entry.ts_resp
        BY <1>2, <1>17, <1>18, <2>1 DEF VerdictsFinal
      <3> QED BY <3>1, <3>3, <3>4
    <2>2. CASE \E i \in 1..n : d.entry = q[i] /\ d.ok = ~(failed /\ i = n)
      <3>1. PICK i \in 1..n : d.entry = q[i] /\ d.ok = ~(failed /\ i = n)
        BY <2>2
      <3>2. i \in 1..Len(q) /\ (d.ok <=> Permitted(acked \cup {r}, q[i]))
        BY <1>15, <3>1
      <3>3. q[i].ts_call < q[i].ts_resp
        BY <1>8, <3>2 DEF QueueOrdered
      <3>4. ASSUME NEW x \in Clients, flying'[x], call_memo'[x].upd # {}
            PROVE  call_memo'[x].ts > q[i].ts_resp
        <4>1. x # c
          BY <1>17, <3>4
        <4>2. flying[x] /\ call_memo'[x] = call_memo[x] /\ tr[x] = maxtr[x]
          BY <1>2, <1>9, <1>18, <3>4, <4>1
        <4>3. maxtr[x] < call_memo[x].ts
          BY <1>2, <4>2 DEF Bookkeeping, Stamps
        <4>4. q[i].ts_resp < maxtr[x]
          BY <1>9, <1>14, <3>1, <4>2 DEF BeforeComing
        <4>5. q[i].ts_resp \in Nat /\ maxtr[x] \in Nat /\ call_memo[x].ts \in Nat
          BY <1>3, <1>8, <1>9, <3>2 DEF Memo
        <4> QED BY <4>2, <4>3, <4>4, <4>5
      <3> QED BY <3>1, <3>2, <3>3, <3>4
    <2> QED BY <1>16, <2>1, <2>2
  <1>20. /\ queue' \in Seq(QueuedSpan) /\ Len(queue') = Len(q) - n
         /\ \A i \in 1..Len(queue') : n + i \in 1..Len(q) /\ queue'[i] = q[n + i]
         /\ DOMAIN queue' = 1..Len(queue')
    <2>1. n \in Nat /\ Len(q) \in Nat /\ n <= Len(q)
      BY <1>8, <1>14
    <2>2. \A i \in (n + 1)..Len(q) : q[i] \in QueuedSpan
      BY <1>8, <2>1
    <2>3. /\ queue' \in Seq(QueuedSpan)
          /\ Len(queue') = IF n + 1 <= Len(q) THEN Len(q) - (n + 1) + 1 ELSE 0
          /\ \A i \in 1..(Len(q) - (n + 1) + 1) : queue'[i] = q[(n + 1) + i - 1]
      BY <1>6, <2>1, <2>2, SubSeqProperties
    <2>4. Len(queue') = Len(q) - n
      BY <2>1, <2>3
    <2>5. \A i \in 1..(Len(q) - n) : n + i \in 1..Len(q) /\ (n + 1) + i - 1 = n + i /\ i \in 1..(Len(q) - (n + 1) + 1)
      BY <2>1
    <2>6. \A i \in 1..Len(queue') : n + i \in 1..Len(q) /\ queue'[i] = q[n + i]
      BY <2>3, <2>4, <2>5
    <2>7. DOMAIN queue' = 1..Len(queue')
      BY <2>3
    <2> QED BY <2>3, <2>4, <2>6, <2>7
  <1>21. TypeOK'
    <2>1. decided' \subseteq [entry : QueuedSpan, ok : BOOLEAN]
      <3> SUFFICES ASSUME NEW d \in decided' PROVE d \in [entry : QueuedSpan, ok : BOOLEAN]
        OBVIOUS
      <3>1. CASE d \in decided
        BY <1>3, <3>1
      <3>2. ASSUME NEW i \in 1..n, d = [entry |-> q[i], ok |-> ~(failed /\ i = n)]
            PROVE  d \in [entry : QueuedSpan, ok : BOOLEAN]
        <4>1. q[i] \in QueuedSpan
          BY <1>8, <1>15
        <4> QED BY <3>2, <4>1
      <3> QED BY <1>16, <3>1, <3>2
    <2>2. flying' \in [Clients -> BOOLEAN] /\ ops_waited' \in Nat
          /\ waiting' \in SUBSET Clients /\ outcome' \in Outcomes
      <3>1. CASE failed
        BY <1>3, <1>6, <3>1 DEF BreakOut, Outcomes
      <3>2. CASE ~failed
        <4>1. maxtr' = tr /\ EndOp(c)
          BY <1>6, <3>2
        <4>2. /\ flying' \in [Clients -> BOOLEAN] /\ ops_waited' \in Nat
              /\ waiting' = {} /\ outcome' \in {"running", "stopping"}
          BY <1>1, <1>9, <4>1, EndOpStamps
        <4> QED BY <4>2 DEF Outcomes
      <3> QED BY <3>1, <3>2
    <2>3. maxtr' \in [Clients -> Nat] /\ acked' \subseteq Acked
          /\ spans' \in [Pool -> [Clients -> Seq(Span)]]
      BY <1>6, <1>9, <1>11, <1>12
    <2>4. timestamp' \in Nat /\ ops_called' \in Nat
      BY <1>2 DEF TypeOK
    <2> QED BY <1>2, <1>20, <2>1, <2>2, <2>3, <2>4 DEF TypeOK
  <1>22. ASSUME outcome' # "violation" PROVE Bookkeeping'
    <2>1. ~failed /\ EndOp(c)
      BY <1>6, <1>22 DEF BreakOut
    <2>2. Stamps' /\ waiting' = {}
      BY <1>1, <1>6, <1>9, <2>1, EndOpStamps
    <2>3. \A i \in 1..Len(queue') : Past(queue[i].ts_resp)'
      BY <1>2, <1>8, <1>20, <2>2 DEF Past
    <2>4. QueueOrdered(queue')
      <3>1. \A i \in 1..Len(queue') : queue'[i].ts_call < queue'[i].ts_resp
        BY <1>8, <1>20 DEF QueueOrdered
      <3>2. ASSUME NEW i \in 1..Len(queue'), NEW j \in 1..Len(queue'), i < j
            PROVE  queue'[i].ts_resp <= queue'[j].ts_resp
        <4>1. n + i < n + j
          BY <1>14, <3>2
        <4> QED BY <1>8, <1>20, <4>1 DEF QueueOrdered
      <3> QED BY <3>1, <3>2 DEF QueueOrdered
    <2>5. AckedBefore'
      <3> SUFFICES ASSUME NEW h \in acked \cup {r}
                   PROVE  h.ts_call <= h.ts_resp /\ h.ts_resp <= tr[h.cli]
        BY <1>6 DEF AckedBefore
      <3>1. CASE h = r
        BY <1>7, <1>9, <1>2, <3>1
      <3>2. CASE h \in acked
        <4>1. h.cli \in Clients /\ h.ts_resp \in Nat
          BY <1>3, <3>2 DEF Acked
        <4>2. h.ts_call <= h.ts_resp /\ h.ts_resp <= maxtr[h.cli]
          BY <1>2, <3>2 DEF Bookkeeping, AckedBefore
        <4> QED BY <1>9, <4>1, <4>2
      <3> QED BY <3>1, <3>2
    <2>6. DecidedBefore'
      <3> SUFFICES ASSUME NEW d \in decided' PROVE BeforeComing(d.entry.ts_resp, tr)
        BY <1>6 DEF DecidedBefore
      <3>1. CASE d \in decided
        <4>1. d.entry.ts_resp \in Nat /\ BeforeComing(d.entry.ts_resp, maxtr)
          BY <1>2, <1>3, <3>1 DEF QueuedSpan, Bookkeeping, DecidedBefore
        <4> QED BY <1>10, <4>1
      <3>2. CASE \E i \in 1..n : d.entry = q[i]
        BY <1>14, <3>2
      <3> QED BY <1>16, <3>1, <3>2
    <2>7. MirrorsAll(spans', acked', queue', maxtr')
      <3>1. \A ts : BeforeQueued(ts, q) => BeforeQueued(ts, queue')
        BY <1>8, <1>20 DEF BeforeQueued
      <3> QED BY <1>6, <1>11, <3>1 DEF MirrorsAll
    <2>8. NoOverdueCheck'
      <3> SUFFICES ASSUME NEW i \in 1..Len(queue'), BeforeComing(queue'[i].ts_resp, tr)
                   PROVE  FALSE
        BY <1>6, <1>20 DEF NoOverdueCheck
      <3>1. /\ n \in Nat /\ Len(q) \in Nat /\ n < Len(q) /\ n + 1 \in 1..Len(q)
            /\ n + i \in 1..Len(q) /\ n + 1 <= n + i /\ queue'[i] = q[n + i]
        BY <1>8, <1>14, <1>20
      <3>2. q[n + 1].ts_resp <= q[n + i].ts_resp
        <4>1. CASE i = 1
          BY <1>8, <3>1, <4>1
        <4>2. CASE i # 1
          <5>1. n + 1 < n + i
            BY <3>1, <4>2
          <5> QED BY <1>8, <3>1, <5>1 DEF QueueOrdered
        <4> QED BY <4>1, <4>2
      <3>3. BeforeComing(q[n + 1].ts_resp, tr)
        <4> SUFFICES ASSUME NEW x \in Clients PROVE q[n + 1].ts_resp < tr[x]
          BY <1>9 DEF BeforeComing
        <4>1. q[n + i].ts_resp < tr[x]
          BY <1>9, <3>1 DEF BeforeComing
        <4>2. q[n + 1].ts_resp \in Nat /\ q[n + i].ts_resp \in Nat /\ tr[x] \in Nat
          BY <1>8, <1>9, <3>1
        <4> QED BY <3>2, <4>1, <4>2
      <3> QED BY <1>14, <2>1, <3>1, <3>3
    <2> QED BY <2>2, <2>3, <2>4, <2>5, <2>6, <2>7, <2>8 DEF Bookkeeping
  <1> QED BY <1>19, <1>21, <1>22 DEF IndInv

------------------------------------------------------------------------------
\* The invariant is inductive: every step of the fuzzer and of the links keeps it.
LEMMA Inductive == IndInv /\ [Next]_vars => IndInv'
  <1> SUFFICES ASSUME IndInv, [Next]_vars PROVE IndInv'
    OBVIOUS
  <1>1. ASSUME NEW c \in Clients, Call(c) PROVE IndInv'
    BY <1>1, CallInd
  <1>2. ASSUME NEW c \in Clients, BeginWait(c) PROVE IndInv'
    BY <1>2, BeginWaitInd
  <1>3. ASSUME NEW c \in Clients, HarvestRead(c) PROVE IndInv'
    BY <1>3, HarvestReadInd
  <1>4. ASSUME NEW c \in Clients, HarvestUpdate(c) PROVE IndInv'
    BY <1>4, HarvestUpdateInd
  <1>5. ASSUME \/ \E c \in Clients : HarvestErr(c) \/ HarvestStop(c) \/ StopClient(c)
                                       \/ StopErr(c) \/ Answer(c) \/ DriverDies(c)
               \/ Report
               \/ Done
               \/ UNCHANGED vars
        PROVE  IndInv'
    BY <1>5, QuietSteps
  <1> QED BY <1>1, <1>2, <1>3, <1>4, <1>5 DEF Next, FuzzerStep, Harvest

(***************************************************************************)
(* The trimmed spans answer every check still to come like the untrimmed   *)
(* history does.                                                           *)
(***************************************************************************)
LEMMA IndTrimInvisible == IndInv => TrimInvisible
  <1> SUFFICES ASSUME IndInv, outcome \in {"running", "stopping"},
                      NEW p \in PendingCalls, NEW k \in Pool, NEW wanted
               PROVE  CheckSpans(spans[k], p.ts_call, p.ts_resp, wanted)
                        <=> Admissible(acked, k, p.ts_call, p.ts_resp, wanted)
    BY DEF TrimInvisible
  <1>1. TypeOK /\ Bookkeeping
    BY DEF IndInv
  <1>2. MirrorsAll(spans, acked, queue, maxtr)
    BY <1>1 DEF Bookkeeping
  <1>3. acked \subseteq Acked /\ \A u \in acked : u.ts_call <= u.ts_resp
    BY <1>1 DEF TypeOK, Bookkeeping, AckedBefore
  <1>4. /\ timestamp \in Nat /\ call_memo \in [Clients -> Memo]
        /\ queue \in Seq(QueuedSpan) /\ DOMAIN maxtr = Clients /\ maxtr \in [Clients -> Nat]
    BY <1>1 DEF TypeOK
  <1>5. ASSUME NEW i \in DOMAIN queue,
               p = [ts_call |-> queue[i].ts_call, ts_resp |-> queue[i].ts_resp]
        PROVE  /\ p.ts_call \in Nat /\ p.ts_resp \in Nat
               /\ \A ts \in Nat : BeforeComing(ts, maxtr) /\ BeforeQueued(ts, queue) => ts < p.ts_call
    <2>1. queue[i] \in QueuedSpan
      BY <1>4
    <2>2. p.ts_call = queue[i].ts_call /\ p.ts_resp = queue[i].ts_resp
      BY <1>5
    <2> QED BY <2>1, <2>2 DEF QueuedSpan, BeforeQueued
  <1>6. ASSUME NEW c \in Clients, flying[c],
               p = [ts_call |-> call_memo[c].ts, ts_resp |-> timestamp + 1]
        PROVE  /\ p.ts_call \in Nat /\ p.ts_resp \in Nat
               /\ \A ts \in Nat : BeforeComing(ts, maxtr) /\ BeforeQueued(ts, queue) => ts < p.ts_call
    <2>1. p.ts_call = call_memo[c].ts /\ p.ts_resp = timestamp + 1
      BY <1>6
    <2>2. call_memo[c].ts \in Nat /\ maxtr[c] \in Nat /\ maxtr[c] < call_memo[c].ts
      BY <1>1, <1>4, <1>6 DEF Memo, Bookkeeping, Stamps
    <2> QED BY <1>4, <2>1, <2>2 DEF BeforeComing
  <1>7. /\ p.ts_call \in Nat /\ p.ts_resp \in Nat
        /\ \A ts \in Nat : BeforeComing(ts, maxtr) /\ BeforeQueued(ts, queue) => ts < p.ts_call
    BY <1>5, <1>6 DEF PendingCalls
  <1>8. DOMAIN spans[k] = Clients /\ \A c \in Clients : Mirrors(spans[k][c], acked, c, k)
    BY <1>2 DEF MirrorsAll
  <1>9. ASSUME NEW c \in Clients, Discarded(spans[k][c], acked, c, k) # {}
        PROVE  spans[k][c][1].ts_resp < p.ts_call
    <2>1. spans[k][c][1].ts_resp \in Nat
      BY <1>8, SequentialFacts DEF Mirrors
    <2>2. BeforeComing(spans[k][c][1].ts_resp, maxtr) /\ BeforeQueued(spans[k][c][1].ts_resp, queue)
      BY <1>2, <1>9 DEF MirrorsAll
    <2> QED BY <1>7, <2>1, <2>2
  <1> QED BY <1>3, <1>7, <1>8, <1>9, CheckExact

(***************************************************************************)
(* The state of the fuzzer keeps its types, whatever the client processes  *)
(* answer.                                                                 *)
(***************************************************************************)
THEOREM TypeCorrect == Spec => []TypeOK
  <1>1. IndInv => TypeOK
    BY DEF IndInv
  <1> QED BY <1>1, InitInd, Inductive, PTL DEF Spec

(***************************************************************************)
(* The verdicts of check_call on the responses popped by apply_update are  *)
(* those of the full history, and no later update changes them.            *)
(***************************************************************************)
THEOREM VerdictsAreFinal == Spec => []VerdictsFinal
  <1>1. IndInv => VerdictsFinal
    BY DEF IndInv
  <1> QED BY <1>1, InitInd, Inductive, PTL DEF Spec

\* The pop loop of apply_update leaves no decidable response in the queue.
THEOREM NoCheckOverdue == Spec => []NoOverdueCheck
  <1>1. IndInv => NoOverdueCheck
    BY DEF IndInv, Bookkeeping, NoOverdueCheck
  <1> QED BY <1>1, InitInd, Inductive, PTL DEF Spec

(***************************************************************************)
(* The trim loop of apply_update discards no update that a check still to  *)
(* come could tell from its absence.                                       *)
(***************************************************************************)
THEOREM TrimLosesNothing == Spec => []TrimInvisible
  BY IndTrimInvisible, InitInd, Inductive, PTL DEF Spec
==============================================================================
