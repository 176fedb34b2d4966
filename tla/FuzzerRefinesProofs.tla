------------------------- MODULE FuzzerRefinesProofs --------------------------
(***************************************************************************)
(* The fuzzer against the two abstract specifications of FuzzerRefines:    *)
(* its checker implements the oracle, and it keeps the contract of the     *)
(* client handles; and no response is lost between the two.                *)
(***************************************************************************)
EXTENDS FuzzerRefines, FuzzerProofs, FiniteSetTheorems

------------------------------------------------------------------------------
(***************************************************************************)
(* The contract of the handles.  While the loop runs, a request is on the  *)
(* fly exactly where the link is not at rest.                              *)
(***************************************************************************)
LinksTied ==
    outcome = "running" => \A c \in Clients : ~flying[c] <=> link[c] = Idle

\* A step that moves one link, by the contract, is a step of the contract.
LEMMA OneLinkMoves ==
    ASSUME link \in [Clients -> Link], NEW c \in Clients, NEW l,
           link' = [link EXCEPT ![c] = l], L(c)!LinkNext \/ link'[c] = link[c]
    PROVE  \A x \in Clients : [L(x)!LinkNext]_(link[x])
  <1> SUFFICES ASSUME NEW x \in Clients PROVE [L(x)!LinkNext]_(link[x])
    OBVIOUS
  <1>1. CASE x = c
    BY <1>1
  <1>2. CASE x # c
    BY <1>2
  <1> QED BY <1>1, <1>2

LEMMA LinksStep ==
    ASSUME IndInv, LinksTied, [Next]_vars
    PROVE  /\ LinksTied'
           /\ [\A c \in Clients : [L(c)!LinkNext]_(link[c])]_link
  <1> DEFINE Kept == \A x \in Clients : [L(x)!LinkNext]_(link[x])
  <1>0. link \in [Clients -> Link] /\ flying \in [Clients -> BOOLEAN]
    BY DEF IndInv, TypeOK
  <1>1. ASSUME NEW c \in Clients, Call(c) PROVE LinksTied' /\ Kept
    <2>1. PICK call \in RandCalls(c) : link' = [link EXCEPT ![c] = [st |-> "called", call |-> call]]
      BY <1>1 DEF Call
    <2>2. /\ outcome = "running" /\ ~flying[c] /\ outcome' = outcome
          /\ flying' = [flying EXCEPT ![c] = TRUE]
      BY <1>1 DEF Call, AtTop
    <2>3. link[c] = Idle /\ call \in KvCall
      BY <2>2 DEF LinksTied, RandCalls
    <2>4. link'[c] = [st |-> "called", call |-> call] /\ flying'[c]
      BY <1>0, <2>1, <2>2
    <2>5. L(c)!LinkNext
      BY <2>3, <2>4 DEF L!LinkNext, L!MakeCall, L!Idle, Idle
    <2>6. link'[c] # Idle
      BY <2>4 DEF Idle
    <2>7. LinksTied'
      BY <1>0, <2>1, <2>2, <2>4, <2>6 DEF LinksTied
    <2> QED BY <1>0, <2>1, <2>5, <2>7, OneLinkMoves
  <1>2. ASSUME NEW c \in Clients, TakeResponse(c), EndOp(c) \/ BreakOut("violation") \/ BreakOut("bad_key")
        PROVE  LinksTied' /\ Kept
    <2>1. link' = [link EXCEPT ![c] = Idle] /\ link[c].st = "replied" /\ outcome = "running"
      BY <1>2 DEF TakeResponse
    <2>2. L(c)!LinkNext
      BY <1>0, <2>1 DEF L!LinkNext, L!TakeReply, L!Idle, Idle
    <2>3. LinksTied'
      <3>1. CASE EndOp(c)
        <4>1. link'[c] = Idle /\ ~flying'[c] /\ \A x \in Clients : x # c => link'[x] = link[x] /\ flying'[x] = flying[x]
          BY <1>0, <2>1, <3>1 DEF EndOp
        <4> QED BY <2>1, <4>1 DEF LinksTied
      <3>2. CASE ~EndOp(c)
        BY <1>2, <3>2 DEF BreakOut, LinksTied
      <3> QED BY <3>1, <3>2
    <2> QED BY <1>0, <2>1, <2>2, <2>3, OneLinkMoves
  <1>3. ASSUME NEW c \in Clients, HarvestRead(c) \/ HarvestUpdate(c) PROVE LinksTied' /\ Kept
    <2>1. TakeResponse(c)
      BY <1>3 DEF HarvestRead, HarvestUpdate
    <2>2. EndOp(c) \/ BreakOut("violation") \/ BreakOut("bad_key")
      BY <1>3 DEF HarvestRead, HarvestUpdate
    <2> QED BY <1>2, <2>1, <2>2
  <1>4. ASSUME NEW c \in Clients, HarvestStop(c) PROVE LinksTied' /\ Kept
    <2>1. link' = [link EXCEPT ![c] = Idle] /\ link[c].st = "replied" /\ outcome' = "stop_resp"
      BY <1>4 DEF HarvestStop
    <2>2. L(c)!LinkNext
      BY <1>0, <2>1 DEF L!LinkNext, L!TakeReply, L!Idle, Idle
    <2> QED BY <1>0, <2>1, <2>2, OneLinkMoves DEF LinksTied
  <1>5. ASSUME NEW c \in Clients, StopClient(c) PROVE LinksTied' /\ Kept
    <2>1. link' = [link EXCEPT ![c] = [st |-> "stopped"]] /\ link[c] = Idle /\ outcome' = "stopping"
      BY <1>5 DEF StopClient
    <2>2. L(c)!LinkNext
      BY <1>0, <2>1 DEF L!LinkNext, L!Stop, L!Idle, Idle
    <2> QED BY <1>0, <2>1, <2>2, OneLinkMoves DEF LinksTied
  <1>6. ASSUME NEW c \in Clients, Answer(c) PROVE LinksTied' /\ Kept
    <2>1. PICK resp \in Replies(link[c].call) : link' = [link EXCEPT ![c] = [st |-> "replied", resp |-> resp]]
      BY <1>6 DEF Answer
    <2>2. link[c].st = "called" /\ UNCHANGED <<flying, outcome>>
      BY <1>6 DEF Answer
    <2>3. link'[c] = [st |-> "replied", resp |-> resp] /\ link[c] # Idle
      BY <1>0, <2>1, <2>2 DEF Idle
    <2>4. L(c)!LinkNext
      BY <2>1, <2>2, <2>3 DEF L!LinkNext, L!Reply
    <2>5. link'[c] # Idle
      BY <2>3 DEF Idle
    <2>6. LinksTied'
      BY <1>0, <2>1, <2>2, <2>3, <2>5 DEF LinksTied
    <2> QED BY <1>0, <2>1, <2>4, <2>6, OneLinkMoves
  <1>7. ASSUME NEW c \in Clients, DriverDies(c) PROVE LinksTied' /\ Kept
    <2>1. link[c].st = "called" /\ UNCHANGED <<flying, outcome>> /\ link' = [link EXCEPT ![c] = [st |-> "dead"]]
      BY <1>7 DEF DriverDies
    <2>2. link'[c] = [st |-> "dead"] /\ link[c] # Idle
      BY <1>0, <2>1 DEF Idle
    <2>3. L(c)!LinkNext
      BY <2>1, <2>2 DEF L!LinkNext, L!Break
    <2>4. link'[c] # Idle
      BY <2>2 DEF Idle
    <2>5. LinksTied'
      BY <1>0, <2>1, <2>2, <2>4 DEF LinksTied
    <2> QED BY <1>0, <2>1, <2>3, <2>5, OneLinkMoves
  <1>8. ASSUME UNCHANGED link, UNCHANGED <<flying, outcome>> \/ outcome' # "running"
        PROVE  LinksTied' /\ UNCHANGED link
    BY <1>8 DEF LinksTied
  <1>9. ASSUME \/ \E c \in Clients : BeginWait(c) \/ HarvestErr(c) \/ StopErr(c)
               \/ Report \/ Done \/ UNCHANGED vars
        PROVE  UNCHANGED link /\ (UNCHANGED <<flying, outcome>> \/ outcome' # "running")
    BY <1>9 DEF BeginWait, HarvestErr, StopErr, Report, Done, vars
  <1> HIDE DEF Kept
  <1>10. LinksTied' /\ (Kept \/ UNCHANGED link)
    BY <1>1, <1>3, <1>4, <1>5, <1>6, <1>7, <1>8, <1>9 DEF Next, FuzzerStep, Harvest
  <1> QED BY <1>10 DEF Kept

(***************************************************************************)
(* The fuzzer keeps to the contract of ClientProc: a client is called only *)
(* when it has answered (send_call), its response is taken once            *)
(* (wait_resp), and it is stopped only at rest.                            *)
(***************************************************************************)
THEOREM FuzzerKeepsLinks == Spec => LinksKept
  <1>1. Init => LinksTied /\ \A c \in Clients : L(c)!LinkInit
    BY DEF Init, LinksTied, L!LinkInit, L!Idle, Idle
  <1>2. IndInv /\ LinksTied /\ [Next]_vars => LinksTied'
    BY LinksStep
  <1>3. IndInv /\ LinksTied /\ [Next]_vars => [\A c \in Clients : [L(c)!LinkNext]_(link[c])]_link
    BY LinksStep
  <1> QED BY <1>1, <1>2, <1>3, InitInd, Inductive, PTL DEF Spec, LinksKept

------------------------------------------------------------------------------
(***************************************************************************)
(* The responses.  No two are harvested at the same time, every verdict    *)
(* before the one that ends the test is a pass, and each response is       *)
(* queued or decided.                                                      *)
(***************************************************************************)
QueueStrict(q) == \A i, j \in 1..Len(q) : i < j => q[i].ts_resp < q[j].ts_resp

Tally ==
    /\ IsFiniteSet(decided)
    /\ outcome # "violation" =>
         /\ QueueStrict(queue)
         /\ \A d \in decided : d.ok
         /\ Cardinality(decided) + Len(queue) = ops_waited

\* The response a harvest puts at the end of the queue.
NewEntry(c) == [ts_call |-> call_memo[c].ts, ts_resp |-> timestamp, resp |-> link[c].resp]

\* The queue with the new response is in strict order, and the response is new.
LEMMA ArrivalFacts ==
    ASSUME IndInv, Tally, NEW c \in Clients, TakeResponse(c),
           NEW q, q = Enqueued(c)
    PROVE  /\ QueueStrict(q)
           /\ Len(q) \in Nat /\ DOMAIN q = 1..Len(q) /\ Len(q) = Len(queue) + 1
           /\ Len(queue) \in Nat /\ DOMAIN queue = 1..Len(queue)
           /\ \A i \in 1..Len(queue) : q[i] = queue[i]
           /\ q[Len(q)] = NewEntry(c)
           /\ \A i \in 1..Len(q) : q[i].ts_resp \in Nat
           /\ \A i \in 1..Len(queue) : queue[i] # NewEntry(c)
           /\ \A d \in decided : d.entry # NewEntry(c)
           /\ \A d \in decided : \A i \in 1..Len(q) : d.entry # q[i]
  <1>1. /\ TypeOK /\ Bookkeeping /\ outcome = "running" /\ waiting = {c}
        /\ timestamp \in Nat /\ \A x \in Clients : maxtr[x] \in Nat /\ maxtr[x] < timestamp
    BY TakeFacts
  <1>2. /\ Len(q) \in Nat /\ DOMAIN q = 1..Len(q) /\ Len(queue) \in Nat /\ Len(q) = Len(queue) + 1
        /\ \A i \in 1..Len(q) : q[i].ts_resp \in Nat
        /\ \A i \in 1..Len(queue) : q[i] = queue[i]
    BY EnqueueFacts
  <1>3. queue \in Seq(QueuedSpan) /\ DOMAIN queue = 1..Len(queue)
    BY <1>1 DEF TypeOK
  <1>4. q[Len(q)] = NewEntry(c) /\ NewEntry(c).ts_resp = timestamp
    BY <1>2, <1>3 DEF Enqueued, add_to_queue, NewEntry
  <1>5. \A i \in 1..Len(queue) : queue[i].ts_resp < timestamp
    BY <1>1 DEF Bookkeeping, Past
  <1>6. \A i \in 1..Len(queue) : queue[i] # NewEntry(c)
    BY <1>1, <1>4, <1>5
  <1>7. QueueStrict(q)
    <2> SUFFICES ASSUME NEW i \in 1..Len(q), NEW j \in 1..Len(q), i < j
                 PROVE  q[i].ts_resp < q[j].ts_resp
      BY DEF QueueStrict
    <2>1. i \in 1..Len(queue)
      BY <1>2
    <2>2. CASE j \in 1..Len(queue)
      <3>1. QueueStrict(queue)
        BY <1>1 DEF Tally
      <3> QED BY <1>2, <2>1, <2>2, <3>1 DEF QueueStrict
    <2>3. CASE j = Len(q)
      BY <1>2, <1>4, <1>5, <2>1, <2>3
    <2>4. j \in 1..Len(queue) \/ j = Len(q)
      <3>1. Len(queue) \in Nat /\ Len(q) = Len(queue) + 1
        BY <1>2
      <3> QED BY <3>1
    <2> QED BY <2>2, <2>3, <2>4
  <1>8. \A d \in decided : BeforeComing(d.entry.ts_resp, maxtr) /\ d.entry.ts_resp \in Nat
    BY <1>1 DEF Bookkeeping, DecidedBefore, TypeOK, QueuedSpan
  <1>9. \A d \in decided : d.entry # NewEntry(c)
    <2> SUFFICES ASSUME NEW d \in decided PROVE d.entry.ts_resp # timestamp
      BY <1>4
    <2>1. d.entry.ts_resp < maxtr[c] /\ d.entry.ts_resp \in Nat
      BY <1>1, <1>8 DEF BeforeComing, TypeOK
    <2> QED BY <1>1, <2>1
  <1>10. \A d \in decided : \A i \in 1..Len(queue) : d.entry # queue[i]
    BY <1>1, <1>3, <1>8 DEF Bookkeeping, NoOverdueCheck
  <1>11. \A i \in 1..Len(q) : i \in 1..Len(queue) \/ i = Len(q)
    BY <1>2
  <1> QED BY <1>2, <1>3, <1>4, <1>6, <1>7, <1>9, <1>10, <1>11

(***************************************************************************)
(* What the harvest of an update does to the queue and the verdicts: the   *)
(* first n responses are decided, the rest stay.                           *)
(***************************************************************************)
Pops(c, q, n, failed) ==
    /\ n \in 0..Len(q)
    /\ failed => n \in 1..Len(q)
    /\ Len(queue') = Len(q) - n
    /\ DOMAIN queue' = 1..Len(queue')
    /\ \A i \in 1..Len(queue') : queue'[i] = q[n + i]
    /\ decided' = Decide(q, n, failed)
    /\ IF failed THEN BreakOut("violation") ELSE EndOp(c)

LEMMA UpdatePops ==
    ASSUME IndInv, NEW c \in Clients, HarvestUpdate(c), NEW q, q = Enqueued(c)
    PROVE  \E n \in Nat, failed \in BOOLEAN, u \in call_memo[c].upd :
              /\ Pops(c, q, n, failed)
              /\ maxtr' = [maxtr EXCEPT ![c] = timestamp]
              /\ \A i \in 1..n : BeforeComing(q[i].ts_resp, maxtr')
              /\ acked' = acked \cup { [cli |-> c, key |-> u.key, value |-> u.value,
                                        ts_call |-> call_memo[c].ts, ts_resp |-> timestamp] }
  <1>1. TakeResponse(c)
    BY DEF HarvestUpdate
  <1>2. TypeOK /\ Bookkeeping
    BY <1>1, TakeFacts
  <1>3. q \in Seq(QueuedSpan) /\ Len(q) \in Nat /\ DOMAIN q = 1..Len(q)
    BY <1>1, EnqueueFacts
  <1>4. PICK u \in call_memo[c].upd :
          LET n      == NumPopped(spans', q, maxtr')
              failed == Failing(spans', q, maxtr') # {}
          IN  /\ maxtr' = [maxtr EXCEPT ![c] = timestamp]
              /\ queue' = SubSeq(q, n + 1, Len(q))
              /\ acked' = acked \cup { [cli |-> c, key |-> u.key, value |-> u.value,
                                        ts_call |-> call_memo[c].ts, ts_resp |-> timestamp] }
              /\ decided' = Decide(q, n, failed)
              /\ IF failed THEN BreakOut("violation") ELSE EndOp(c)
    <2>1. \A u \in call_memo[c].upd : u.key \in DOMAIN spans
      BY <1>2 DEF TypeOK, Bookkeeping, Stamps
    <2> QED BY <2>1 DEF HarvestUpdate
  <1> DEFINE n      == NumPopped(spans', q, maxtr')
             failed == Failing(spans', q, maxtr') # {}
  <1>5. /\ n \in 0..Len(q)
        /\ \A i \in 1..n : BeforeComing(q[i].ts_resp, maxtr')
        /\ failed => n \in 1..Len(q)
    BY <1>3, PopLoop
  <1> HIDE DEF n, failed
  <1>6. queue' = SubSeq(q, n + 1, Len(q))
    BY <1>4 DEF n
  <1>7. /\ Len(queue') = Len(q) - n
        /\ DOMAIN queue' = 1..Len(queue')
        /\ \A i \in 1..Len(queue') : queue'[i] = q[n + i]
    <2>1. n \in Nat /\ n <= Len(q)
      BY <1>3, <1>5
    <2>2. \A i \in (n + 1)..Len(q) : q[i] \in QueuedSpan
      BY <1>3, <2>1
    <2>3. /\ queue' \in Seq(QueuedSpan)
          /\ Len(queue') = IF n + 1 <= Len(q) THEN Len(q) - (n + 1) + 1 ELSE 0
          /\ \A i \in 1..(Len(q) - (n + 1) + 1) : queue'[i] = q[(n + 1) + i - 1]
      BY <1>3, <1>6, <2>1, <2>2, SubSeqProperties
    <2>4. Len(queue') = Len(q) - n
      BY <1>3, <2>1, <2>3
    <2>5. \A i \in 1..(Len(q) - n) : (n + 1) + i - 1 = n + i /\ i \in 1..(Len(q) - (n + 1) + 1)
      BY <1>3, <2>1
    <2>6. \A i \in 1..Len(queue') : queue'[i] = q[n + i]
      BY <2>3, <2>4, <2>5
    <2> QED BY <2>3, <2>4, <2>6
  <1>8. decided' = Decide(q, n, failed) /\ IF failed THEN BreakOut("violation") ELSE EndOp(c)
    BY <1>4 DEF n, failed
  <1>9. Pops(c, q, n, failed)
    BY <1>5, <1>7, <1>8 DEF Pops
  <1>10. n \in Nat /\ failed \in BOOLEAN
    BY <1>3, <1>5 DEF failed
  <1> QED BY <1>4, <1>5, <1>9, <1>10

\* A set numbered from 1 to n has n elements.
LEMMA Numbered ==
    ASSUME NEW n \in Nat, NEW T, NEW f, f \in Bijection(1..n, T)
    PROVE  IsFiniteSet(T) /\ Cardinality(T) = n
  <1>1. ExistsBijection(1..n, T)
    BY DEF ExistsBijection
  <1>2. IsFiniteSet(1..n) /\ Cardinality(1..n) = n
    BY FS_Interval
  <1> QED BY <1>1, <1>2, FS_Bijection

\* The tally survives every step.
LEMMA TallyStep ==
    ASSUME IndInv, Tally, [Next]_vars
    PROVE  Tally'
  <1>1. ASSUME NEW c \in Clients, HarvestRead(c) PROVE Tally'
    <2>1. /\ TakeResponse(c) /\ queue' = Enqueued(c) /\ UNCHANGED decided
          /\ ops_waited' = ops_waited + 1 /\ outcome = "running"
      BY <1>1 DEF HarvestRead, EndOp, TakeResponse
    <2>2. QueueStrict(queue') /\ Len(queue') = Len(queue) + 1 /\ Len(queue) \in Nat
      BY <2>1, ArrivalFacts
    <2>3. IsFiniteSet(decided) /\ (\A d \in decided : d.ok) /\ Cardinality(decided) + Len(queue) = ops_waited
      BY <2>1 DEF Tally
    <2>4. Cardinality(decided) \in Nat
      BY <2>3, FS_CardinalityType
    <2>5. Cardinality(decided) + (Len(queue) + 1) = ops_waited + 1
      BY <2>2, <2>3, <2>4
    <2> QED BY <2>1, <2>2, <2>3, <2>5 DEF Tally
  <1>2. ASSUME NEW c \in Clients, HarvestUpdate(c) PROVE Tally'
    <2> DEFINE q == Enqueued(c)
    <2>1. TakeResponse(c) /\ outcome = "running"
      BY <1>2 DEF HarvestUpdate, TakeResponse
    <2>2. /\ QueueStrict(q) /\ Len(q) \in Nat /\ Len(q) = Len(queue) + 1 /\ Len(queue) \in Nat
          /\ \A i \in 1..Len(q) : q[i].ts_resp \in Nat
          /\ \A d \in decided : \A i \in 1..Len(q) : d.entry # q[i]
      BY <2>1, ArrivalFacts
    <2>3. PICK n \in Nat, failed \in BOOLEAN : Pops(c, q, n, failed)
      BY <1>2, UpdatePops
    <2> HIDE DEF q
    <2> DEFINE T == { [entry |-> q[i], ok |-> ~(failed /\ i = n)] : i \in 1..n }
    <2>4. n <= Len(q) /\ decided' = decided \cup T
      BY <2>2, <2>3 DEF Pops, Decide
    <2>5. IsFiniteSet(T) /\ Cardinality(T) = n
      <3> DEFINE f == [i \in 1..n |-> [entry |-> q[i], ok |-> ~(failed /\ i = n)]]
      <3>1. ASSUME NEW i \in 1..n, NEW j \in 1..n, f[i] = f[j] PROVE i = j
        <4>1. i \in 1..Len(q) /\ j \in 1..Len(q) /\ q[i] = q[j]
          BY <2>2, <2>4, <3>1
        <4>2. ~(q[i].ts_resp < q[j].ts_resp) /\ ~(q[j].ts_resp < q[i].ts_resp)
          BY <2>2, <4>1
        <4>3. ~(i < j) /\ ~(j < i)
          BY <2>2, <4>1, <4>2 DEF QueueStrict
        <4> QED BY <4>3
      <3>2. f \in [1..n -> T] /\ \A t \in T : \E i \in 1..n : t = f[i]
        OBVIOUS
      <3> HIDE DEF T, f
      <3>3. f \in Bijection(1..n, T)
        BY <3>1, <3>2 DEF Bijection, Injection, Surjection, IsInjective
      <3> QED BY <3>3, Numbered
    <2>6. /\ IsFiniteSet(decided) /\ (\A d \in decided : d.ok)
          /\ Cardinality(decided) + Len(queue) = ops_waited
      BY <2>1 DEF Tally
    <2>7. decided \cap T = {}
      <3> SUFFICES ASSUME NEW i \in 1..n, [entry |-> q[i], ok |-> ~(failed /\ i = n)] \in decided
                   PROVE  FALSE
        OBVIOUS
      <3>1. i \in 1..Len(q)
        BY <2>2, <2>4
      <3> QED BY <2>2, <3>1
    <2>8. ASSUME ~failed, NEW t \in T PROVE t.ok
      <3>1. PICK i \in 1..n : t = [entry |-> q[i], ok |-> ~(failed /\ i = n)]
        OBVIOUS
      <3>2. t.ok = ~(failed /\ i = n)
        BY <3>1
      <3> QED BY <2>8, <3>2
    <2> HIDE DEF T
    <2>9. Cardinality(decided) \in Nat /\ Cardinality({}) = 0
      BY <2>6, FS_CardinalityType, FS_EmptySet
    <2>10. IsFiniteSet(decided') /\ Cardinality(decided') = Cardinality(decided) + n
      <3>1. /\ IsFiniteSet(decided \cup T)
            /\ Cardinality(decided \cup T) = Cardinality(decided) + Cardinality(T) - Cardinality(decided \cap T)
        BY <2>5, <2>6, FS_Union
      <3>2. Cardinality(decided \cup T) = Cardinality(decided) + n - 0
        BY <2>5, <2>7, <2>9, <3>1
      <3> QED BY <2>4, <2>9, <3>1, <3>2
    <2>11. ASSUME outcome' # "violation" PROVE
              /\ QueueStrict(queue') /\ (\A d \in decided' : d.ok)
              /\ Cardinality(decided') + Len(queue') = ops_waited'
      <3>1. ~failed /\ ops_waited' = ops_waited + 1
        BY <2>3, <2>11 DEF Pops, BreakOut, EndOp
      <3>2. Len(queue') = Len(q) - n /\ \A i \in 1..Len(queue') : queue'[i] = q[n + i]
        BY <2>3 DEF Pops
      <3>3. Cardinality(decided') + Len(queue') = ops_waited'
        BY <2>2, <2>4, <2>6, <2>9, <2>10, <3>1, <3>2
      <3>4. QueueStrict(queue')
        <4> SUFFICES ASSUME NEW i \in 1..Len(queue'), NEW j \in 1..Len(queue'), i < j
                     PROVE  q[n + i].ts_resp < q[n + j].ts_resp
          BY <3>2 DEF QueueStrict
        <4>1. n + i \in 1..Len(q) /\ n + j \in 1..Len(q) /\ n + i < n + j
          BY <2>2, <2>4, <3>2
        <4> QED BY <2>2, <4>1 DEF QueueStrict
      <3> QED BY <2>4, <2>6, <2>8, <3>1, <3>3, <3>4
    <2> QED BY <2>10, <2>11 DEF Tally
  <1>3. ASSUME UNCHANGED <<queue, decided, ops_waited>>, outcome' # "violation" => outcome # "violation"
        PROVE  Tally'
    BY <1>3 DEF Tally
  <1>4. ASSUME \/ \E c \in Clients : Call(c) \/ BeginWait(c) \/ HarvestErr(c) \/ HarvestStop(c)
               \/ \E c \in Clients : StopClient(c) \/ StopErr(c) \/ Answer(c) \/ DriverDies(c)
               \/ Report \/ Done \/ UNCHANGED vars
        PROVE  /\ UNCHANGED <<queue, decided, ops_waited>>
               /\ outcome' # "violation" => outcome # "violation"
    BY <1>4 DEF Call, BeginWait, HarvestErr, HarvestStop, StopClient, StopErr, Answer,
                DriverDies, Report, Done, AtTop, vars, hvars
  <1> QED BY <1>1, <1>2, <1>3, <1>4 DEF Next, FuzzerStep, Harvest

LEMMA InitTally == Init => Tally
  <1> SUFFICES ASSUME Init PROVE Tally
    OBVIOUS
  <1>1. queue = <<>> /\ decided = {} /\ ops_waited = 0
    BY DEF Init
  <1>2. Len(queue) = 0
    BY <1>1
  <1> QED BY <1>1, <1>2, FS_EmptySet DEF Tally, QueueStrict

(***************************************************************************)
(* Every response harvested by fuzz_test is checked by apply_update once,  *)
(* or is still in the queue that main measures.                            *)
(***************************************************************************)
THEOREM AllResponsesAccounted == Spec => []ResponsesAccounted
  <1>1. Tally => ResponsesAccounted
    BY DEF Tally, ResponsesAccounted
  <1>2. IndInv /\ Tally /\ [Next]_vars => Tally'
    BY TallyStep
  <1> QED BY <1>1, <1>2, InitTally, InitInd, Inductive, PTL DEF Spec

------------------------------------------------------------------------------
(***************************************************************************)
(* The oracle.  A harvest brings in one new response; what it pops is      *)
(* judged by the full history, oldest first; nothing else moves.           *)
(***************************************************************************)
LEMMA ReadArrives ==
    ASSUME IndInv, Tally, NEW c \in Clients, HarvestRead(c)
    PROVE  O!OracleNext
  <1> DEFINE e == NewEntry(c)
  <1>1. /\ TakeResponse(c) /\ queue' = Enqueued(c) /\ UNCHANGED <<acked, decided>>
        /\ outcome = "running"
    BY DEF HarvestRead, TakeResponse
  <1>2. /\ Len(queue) \in Nat /\ DOMAIN queue = 1..Len(queue)
        /\ Len(queue') = Len(queue) + 1 /\ DOMAIN queue' = 1..Len(queue')
        /\ \A i \in 1..Len(queue) : queue'[i] = queue[i]
        /\ queue'[Len(queue')] = e
        /\ \A i \in 1..Len(queue) : queue[i] # e
        /\ \A d \in decided : d.entry # e
    BY <1>1, ArrivalFacts
  <1> HIDE DEF e
  <1>3. e \notin O!Seen
    BY <1>2 DEF O!Seen
  <1>4. \A i \in 1..Len(queue') : i \in 1..Len(queue) \/ i = Len(queue')
    <2>1. Len(queue) \in Nat /\ Len(queue') = Len(queue) + 1
      BY <1>2
    <2> QED BY <2>1
  <1>5. Len(queue') \in 1..Len(queue') /\ \A i \in 1..Len(queue) : i \in 1..Len(queue')
    <2>1. Len(queue) \in Nat /\ Len(queue') = Len(queue) + 1
      BY <1>2
    <2> QED BY <2>1
  <1>6. { queue'[i] : i \in DOMAIN queue' } = { queue[i] : i \in DOMAIN queue } \cup {e}
    BY <1>2, <1>4, <1>5
  <1>7. O!Seen' = O!Seen \cup {e}
    BY <1>1, <1>6 DEF O!Seen
  <1>8. O!Read
    BY <1>1, <1>3, <1>7 DEF O!Read, O!Arrives
  <1>9. \A d \in decided : d.ok
    BY <1>1 DEF Tally
  <1> QED BY <1>8, <1>9 DEF O!OracleNext

LEMMA UpdateJudges ==
    ASSUME IndInv, IndInv', Tally, NEW c \in Clients, HarvestUpdate(c)
    PROVE  O!OracleNext
  <1> DEFINE e == NewEntry(c)
             q == Enqueued(c)
  <1>1. TakeResponse(c) /\ outcome = "running"
    BY DEF HarvestUpdate, TakeResponse
  <1>2. /\ QueueStrict(q) /\ Len(q) \in Nat /\ Len(q) = Len(queue) + 1
        /\ Len(queue) \in Nat /\ DOMAIN queue = 1..Len(queue)
        /\ \A i \in 1..Len(queue) : q[i] = queue[i]
        /\ q[Len(q)] = e
        /\ \A i \in 1..Len(q) : q[i].ts_resp \in Nat
        /\ \A i \in 1..Len(queue) : queue[i] # e
        /\ \A d \in decided : d.entry # e
    BY <1>1, ArrivalFacts
  <1>3. PICK n \in Nat, failed \in BOOLEAN, u \in call_memo[c].upd :
          /\ Pops(c, q, n, failed)
          /\ acked' = acked \cup { [cli |-> c, key |-> u.key, value |-> u.value,
                                    ts_call |-> call_memo[c].ts, ts_resp |-> timestamp] }
    BY UpdatePops
  <1> HIDE DEF e, q
  <1> DEFINE A == { q[i] : i \in 1..n }
             B == { q[i] : i \in (n + 1)..Len(q) }
             old == { queue[i] : i \in DOMAIN queue }
             new == { queue'[i] : i \in DOMAIN queue' }
             verdict(i) == [entry |-> q[i], ok |-> ~(failed /\ i = n)]
             r == [cli |-> c, key |-> u.key, value |-> u.value,
                   ts_call |-> call_memo[c].ts, ts_resp |-> timestamp]
  <1>4. /\ n <= Len(q) /\ Len(queue') = Len(q) - n /\ DOMAIN queue' = 1..Len(queue')
        /\ \A i \in 1..Len(queue') : queue'[i] = q[n + i]
    BY <1>2, <1>3 DEF Pops
  <1>5. decided' = decided \cup { verdict(i) : i \in 1..n }
    BY <1>3 DEF Pops, Decide
  <1>6. old \cup {e} = { q[i] : i \in 1..Len(q) }
    <2>1. Len(queue) \in Nat /\ Len(q) = Len(queue) + 1
      BY <1>2
    <2>2. \A i \in 1..Len(q) : i \in 1..Len(queue) \/ i = Len(q)
      BY <2>1
    <2>3. Len(q) \in 1..Len(q) /\ \A i \in 1..Len(queue) : i \in 1..Len(q)
      BY <2>1
    <2> QED BY <1>2, <2>2, <2>3
  <1>7. new = B
    <2>1. \A i \in 1..Len(queue') : n + i \in (n + 1)..Len(q)
      BY <1>2, <1>4
    <2>2. \A j \in (n + 1)..Len(q) : j - n \in 1..Len(queue') /\ n + (j - n) = j
      BY <1>2, <1>4
    <2>3. \A j \in (n + 1)..Len(q) : q[j] = queue'[j - n] /\ j - n \in 1..Len(queue')
      BY <1>4, <2>2
    <2>4. new \subseteq B
      BY <1>4, <2>1
    <2>5. B \subseteq new
      BY <1>4, <2>3
    <2> QED BY <2>4, <2>5
  <1>8. \A x \in A, y \in B : x.ts_resp < y.ts_resp
    <2> SUFFICES ASSUME NEW i \in 1..n, NEW j \in (n + 1)..Len(q)
                 PROVE  q[i].ts_resp < q[j].ts_resp
      OBVIOUS
    <2>1. i \in 1..Len(q) /\ j \in 1..Len(q) /\ i < j
      BY <1>2, <1>4
    <2> QED BY <1>2, <2>1 DEF QueueStrict
  <1>9. \A x \in A : x.ts_resp \in Nat /\ x \notin B
    <2>1. \A x \in A : x.ts_resp \in Nat
      <3> SUFFICES ASSUME NEW i \in 1..n PROVE q[i].ts_resp \in Nat
        OBVIOUS
      <3>1. i \in 1..Len(q)
        BY <1>2, <1>4
      <3> QED BY <1>2, <3>1
    <2>2. \A x \in A : ~(x.ts_resp < x.ts_resp)
      BY <2>1
    <2> HIDE DEF A, B
    <2> QED BY <1>8, <2>1, <2>2
  <1>10. { q[i] : i \in 1..Len(q) } = A \cup B
    <2>1. \A i \in 1..Len(q) : i \in 1..n \/ i \in (n + 1)..Len(q)
      BY <1>2, <1>4
    <2>2. \A i \in (n + 1)..Len(q) : i \in 1..Len(q)
      BY <1>2, <1>4
    <2>3. \A i \in 1..n : i \in 1..Len(q)
      BY <1>2, <1>4
    <2> QED BY <2>1, <2>2, <2>3
  <1>11. (old \cup {e}) \ new = A
    <2> HIDE DEF A, B, old, new
    <2>1. old \cup {e} = A \cup B
      BY <1>6, <1>10
    <2>2. \A x \in A : x \notin B
      BY <1>9
    <2> QED BY <1>7, <2>1, <2>2
  <1>12. { d.entry : d \in decided' } = { d.entry : d \in decided } \cup A
    <2>1. \A i \in 1..n : verdict(i).entry = q[i]
      OBVIOUS
    <2> HIDE DEF verdict
    <2> QED BY <1>5, <2>1
  <1>13. O!Seen' = O!Seen \cup {e} /\ e \notin O!Seen
    <2>1. O!Seen = old \cup { d.entry : d \in decided }
      BY DEF O!Seen
    <2>2. O!Seen' = new \cup { d.entry : d \in decided' }
      BY DEF O!Seen
    <2>3. e \notin O!Seen
      BY <1>2, <2>1
    <2> HIDE DEF A, B, old, new
    <2> QED BY <1>6, <1>7, <1>10, <1>12, <2>1, <2>2, <2>3
  <1>14. \A d \in decided' : d.ok <=> Permitted(acked', d.entry)
    BY DEF IndInv, VerdictsFinal
  <1>15. \A d \in decided : d.ok /\ Permitted(acked', d.entry)
    <2>1. \A d \in decided : d.ok /\ d \in decided'
      BY <1>1, <1>5 DEF Tally
    <2> QED BY <1>14, <2>1
  <1>16. { verdict(i) : i \in 1..n } = { [entry |-> x, ok |-> Permitted(acked', x)] : x \in A }
    <2>1. ASSUME NEW i \in 1..n
          PROVE  verdict(i) = [entry |-> q[i], ok |-> Permitted(acked', q[i])]
      <3>1. verdict(i) \in decided'
        BY <1>5
      <3>2. verdict(i).ok = ~(failed /\ i = n) /\ verdict(i).entry = q[i]
        OBVIOUS
      <3>3. ~(failed /\ i = n) <=> Permitted(acked', q[i])
        BY <1>14, <3>1, <3>2
      <3>4. Permitted(acked', q[i]) \in BOOLEAN
        BY DEF Permitted
      <3> QED BY <3>3, <3>4
    <2> HIDE DEF verdict
    <2> QED BY <2>1
  <1>17. O!Acknowledge
    <2>1. e \in O!Seen' /\ r \in acked' /\ O!Arrives(e) /\ acked' = acked \cup {r}
      BY <1>3, <1>13 DEF O!Arrives
    <2>2. \A x \in A, y \in new : x.ts_resp < y.ts_resp
      BY <1>7, <1>8
    <2>3. decided' = decided \cup { [entry |-> x, ok |-> Permitted(acked', x)] : x \in A }
      BY <1>5, <1>16
    <2> HIDE DEF A, r
    <2> QED BY <1>11, <1>15, <2>1, <2>2, <2>3 DEF O!Acknowledge
  <1> QED BY <1>15, <1>17 DEF O!OracleNext

(***************************************************************************)
(* The checker of history.rs implements the oracle: the verdict on every   *)
(* response is that of the whole untrimmed history, given in the order of  *)
(* the responses, and no later update turns it.                            *)
(***************************************************************************)
THEOREM CheckerImplementsOracle == Spec => CheckerIsOracle
  <1>1. Init => O!OracleInit
    <2>1. Init => queue = <<>> /\ decided = {}
      BY DEF Init
    <2> QED BY <2>1 DEF O!OracleInit
  <1>2. IndInv /\ IndInv' /\ Tally /\ [Next]_vars => [O!OracleNext]_(O!ovars)
    <2> SUFFICES ASSUME IndInv, IndInv', Tally, [Next]_vars PROVE [O!OracleNext]_(O!ovars)
      OBVIOUS
    <2>1. ASSUME NEW c \in Clients, HarvestRead(c) PROVE O!OracleNext
      BY <2>1, ReadArrives
    <2>2. ASSUME NEW c \in Clients, HarvestUpdate(c) PROVE O!OracleNext
      BY <2>2, UpdateJudges
    <2>3. ASSUME UNCHANGED <<acked, queue, decided>> PROVE UNCHANGED O!ovars
      BY <2>3 DEF O!ovars
    <2>4. ASSUME \/ \E c \in Clients : Call(c) \/ BeginWait(c) \/ HarvestErr(c) \/ HarvestStop(c)
                 \/ \E c \in Clients : StopClient(c) \/ StopErr(c) \/ Answer(c) \/ DriverDies(c)
                 \/ Report \/ Done \/ UNCHANGED vars
          PROVE  UNCHANGED <<acked, queue, decided>>
      BY <2>4 DEF Call, BeginWait, HarvestErr, HarvestStop, StopClient, StopErr, Answer,
                  DriverDies, Report, Done, vars, hvars
    <2> QED BY <2>1, <2>2, <2>3, <2>4 DEF Next, FuzzerStep, Harvest
  <1>3. IndInv /\ Tally /\ [Next]_vars => Tally'
    BY TallyStep
  <1> QED BY <1>1, <1>2, <1>3, InitTally, InitInd, Inductive, PTL DEF Spec, CheckerIsOracle, O!OracleSpec
------------------------------------------------------------------------------
(***************************************************************************)
(* A single client.  Its calls follow one another, so that every response  *)
(* is before, after or in answer to each update, and the updates of a key  *)
(* come one after the other.                                               *)
(***************************************************************************)
InTurn(e, u) ==
    \/ u.ts_resp < e.ts_call
    \/ u.ts_call = e.ts_call /\ u.ts_resp = e.ts_resp
    \/ e.ts_resp < u.ts_call

ResponsesInTurn(resps, hist) ==
    \A e \in resps : e.resp.op # "Stop" /\ e.ts_call > 0 /\ \A u \in hist : InTurn(e, u)

UpdatesInTurn(hist) ==
    /\ \A u \in hist : u.ts_call <= u.ts_resp
    /\ \A u, w \in hist : u.key = w.key => u = w \/ u.ts_resp < w.ts_call \/ w.ts_resp < u.ts_call
    /\ \A k \in Pool : \E u \in hist : u.key = k /\ u.ts_resp = 0

\* The responses harvested so far.
Harvested(q, verdicts) == { q[i] : i \in 1..Len(q) } \cup { d.entry : d \in verdicts }

\* The call on the fly began after all of them.
AllOver(resps) ==
    outcome = "running" =>
      \A c \in Clients : flying[c] => \A e \in resps : e.ts_resp < call_memo[c].ts

SoloInv ==
    Cardinality(Clients) = 1 =>
      /\ UpdatesInTurn(acked)
      /\ ResponsesInTurn(Harvested(queue, decided), acked)
      /\ AllOver(Harvested(queue, decided))

LEMMA OnlyClient ==
    ASSUME Cardinality(Clients) = 1
    PROVE  \A c, x \in Clients : c = x
  BY ClientsAssumption, FS_Singleton

\* Of some updates over before ts, one ended last.
LEMMA LastOfPast ==
    ASSUME NEW past, past # {}, NEW ts \in Nat,
           \A u \in past : u.ts_resp \in Nat /\ u.ts_resp < ts
    PROVE  \E u \in past : \A w \in past : w.ts_resp <= u.ts_resp
  <1> DEFINE S == { u.ts_resp : u \in past }
  <1>1. S # {} /\ S \subseteq 0..ts
    OBVIOUS
  <1>2. \A u \in past : u.ts_resp \in S
    OBVIOUS
  <1>3. \A x \in S : \E u \in past : x = u.ts_resp
    OBVIOUS
  <1> HIDE DEF S
  <1>4. Max(S) \in S /\ \A x \in S : x <= Max(S)
    BY <1>1, MaxOfNats
  <1> QED BY <1>2, <1>3, <1>4

\* For one client, what is admissible is the last value or the own one.
LEMMA SoloAdmissible ==
    ASSUME Cardinality(Clients) = 1, acked \subseteq Acked, UpdatesInTurn(acked),
           NEW e \in QueuedSpan, e.ts_call < e.ts_resp, e.ts_call > 0,
           \A u \in acked : InTurn(e, u),
           NEW k \in Pool, NEW W
    PROVE  Admissible(acked, k, e.ts_call, e.ts_resp, W)
             <=> W \cap ({LastValue(k, e.ts_call)} \cup OwnValue(k, e.ts_call)) # {}
  <1> DEFINE tc   == e.ts_call
             tr   == e.ts_resp
             past == { u \in acked : u.key = k /\ u.ts_resp < tc }
             m    == CHOOSE u \in past : \A w \in past : w.ts_resp <= u.ts_resp
  <1>1. tc \in Nat /\ tr \in Nat /\ tc < tr /\ 0 < tc
    BY DEF QueuedSpan
  <1>2. \A u \in acked : /\ u.ts_call \in Nat /\ u.ts_resp \in Nat
                         /\ u.ts_call <= u.ts_resp
                         /\ u.cli \in Clients
    BY DEF Acked, UpdatesInTurn
  <1>3. \A u \in acked : u.ts_resp < tc \/ (u.ts_call = tc /\ u.ts_resp = tr) \/ tr < u.ts_call
    BY DEF InTurn
  <1>4. \A u, w \in acked : u.cli = w.cli
    BY <1>2, OnlyClient
  <1>5. \A u, w \in acked : u.key = w.key => u = w \/ u.ts_resp < w.ts_call \/ w.ts_resp < u.ts_call
    BY DEF UpdatesInTurn
  <1>6. m \in past /\ \A w \in past : w.ts_resp <= m.ts_resp
    <2>1. PICK u \in acked : u.key = k /\ u.ts_resp = 0
      BY DEF UpdatesInTurn
    <2>2. u \in past
      BY <1>1, <2>1
    <2>3. \A w \in past : w.ts_resp \in Nat /\ w.ts_resp < tc
      BY <1>2
    <2> HIDE DEF past, tc
    <2>4. \E w \in past : \A x \in past : x.ts_resp <= w.ts_resp
      BY <1>1, <2>2, <2>3, LastOfPast
    <2> QED BY <2>4
  <1>7. LastValue(k, e.ts_call) = m.value
    BY DEF LastValue
  <1>8. \A u \in past : u \in acked /\ u.key = k /\ u.ts_resp < tc
    OBVIOUS
  <1>9. \A u \in acked : u.key = k /\ u.ts_resp < tc => u \in past
    OBVIOUS
  <1>10. \A v : v \in OwnValue(k, e.ts_call) <=> \E u \in acked : u.key = k /\ u.ts_call = tc /\ u.value = v
    BY DEF OwnValue
  <1> DEFINE Stands(u) == \A w \in acked : (w.cli = u.cli /\ w.key = k /\ w.ts_call > u.ts_resp)
                                             => w.ts_resp >= tc
  <1>11. Admissible(acked, k, e.ts_call, e.ts_resp, W)
           <=> \E u \in acked : u.key = k /\ u.ts_call < tr /\ u.value \in W /\ Stands(u)
    BY DEF Admissible
  <1> HIDE DEF tc, tr, past, m
  <1>12. ASSUME NEW u \in acked, u.key = k, u.ts_call < tr, Stands(u)
         PROVE  u = m \/ u.ts_call = tc
    <2>1. CASE u.ts_resp < tc
      <3>1. u \in past /\ u.ts_resp <= m.ts_resp /\ m \in acked /\ m.key = k /\ m.ts_resp < tc
        BY <1>6, <1>8, <1>9, <1>12, <2>1
      <3>2. u = m \/ u.ts_resp < m.ts_call \/ m.ts_resp < u.ts_call
        BY <1>5, <1>12, <3>1
      <3>3. ~(u.ts_resp < m.ts_call)
        BY <1>1, <1>2, <1>4, <1>12, <3>1
      <3>4. ~(m.ts_resp < u.ts_call)
        BY <1>2, <3>1
      <3> QED BY <3>2, <3>3, <3>4
    <2>2. CASE ~(u.ts_resp < tc)
      BY <1>1, <1>2, <1>3, <1>12, <2>2
    <2> QED BY <2>1, <2>2
  <1>13. m \in acked /\ m.key = k /\ m.ts_call < tr /\ Stands(m)
    <2>1. m \in acked /\ m.key = k /\ m.ts_resp < tc
      BY <1>6, <1>8
    <2>2. m.ts_call < tr
      BY <1>1, <1>2, <2>1
    <2>3. Stands(m)
      <3> SUFFICES ASSUME NEW w \in acked, w.key = k, w.ts_call > m.ts_resp, w.ts_resp < tc
                   PROVE  FALSE
        BY <1>1, <1>2
      <3>1. w.ts_resp <= m.ts_resp
        BY <1>6, <1>9
      <3> QED BY <1>2, <2>1, <3>1
    <2> QED BY <2>1, <2>2, <2>3
  <1>14. ASSUME NEW u \in acked, u.key = k, u.ts_call = tc
         PROVE  u.ts_call < tr /\ Stands(u)
    BY <1>1, <1>2, <1>14
  <1> HIDE DEF Stands
  <1>15. ASSUME NEW u \in acked, u.key = k, u.ts_call < tr, u.value \in W, Stands(u)
         PROVE  u.value \in {m.value} \cup OwnValue(k, e.ts_call)
    BY <1>10, <1>12, <1>15
  <1>16. ASSUME NEW v \in W, v \in {m.value} \cup OwnValue(k, e.ts_call)
         PROVE  \E u \in acked : u.key = k /\ u.ts_call < tr /\ u.value \in W /\ Stands(u)
    BY <1>10, <1>13, <1>14, <1>16
  <1> QED BY <1>7, <1>11, <1>15, <1>16

\* So the verdict of the untrimmed history is the exact one.
LEMMA SoloPermitted ==
    ASSUME IndInv, SoloInv, Cardinality(Clients) = 1, NEW d \in decided
    PROVE  d.ok <=> TrueOrOwn(d.entry)
  <1> DEFINE e == d.entry
  <1>1. e \in Harvested(queue, decided)
    BY DEF Harvested
  <1>2. /\ e.resp.op # "Stop" /\ e.ts_call > 0 /\ \A u \in acked : InTurn(e, u)
        /\ UpdatesInTurn(acked)
    BY <1>1 DEF SoloInv, ResponsesInTurn
  <1>3. acked \subseteq Acked /\ e \in QueuedSpan /\ e.ts_call < e.ts_resp
    BY DEF IndInv, TypeOK, DecidedOrdered
  <1>4. d.ok <=> Permitted(acked, e)
    BY DEF IndInv, VerdictsFinal
  <1> HIDE DEF e
  <1>5. \A k \in Pool : Admissible(acked, k, e.ts_call, e.ts_resp, Claim(e.resp, k))
                          <=> Claim(e.resp, k)
                                \cap ({LastValue(k, e.ts_call)} \cup OwnValue(k, e.ts_call)) # {}
    BY <1>2, <1>3, SoloAdmissible
  <1>6. Permitted(acked, e) <=> TrueOrOwn(e)
    BY <1>2, <1>5 DEF Permitted, TrueOrOwn
  <1> QED BY <1>4, <1>6 DEF e
\* Nothing that is harvested or acknowledged changes, nor the call on the fly.
LEMMA SoloFrame ==
    ASSUME SoloInv, UNCHANGED <<queue, acked, decided, flying, call_memo>>,
           outcome' = "running" => outcome = "running"
    PROVE  SoloInv'
  <1>1. Harvested(queue, decided)' = Harvested(queue, decided)
    OBVIOUS
  <1>2. AllOver(Harvested(queue, decided)) => AllOver(Harvested(queue, decided))'
    BY <1>1 DEF AllOver
  <1> QED BY <1>1, <1>2 DEF SoloInv

\* A new call begins after every response.
LEMMA SoloCall ==
    ASSUME IndInv, SoloInv, Cardinality(Clients) = 1, NEW c \in Clients, Call(c)
    PROVE  SoloInv'
  <1>1. /\ TypeOK /\ Bookkeeping /\ outcome = "running" /\ waiting = {}
    BY DEF IndInv, Call, AtTop
  <1>2. UNCHANGED <<queue, acked, decided>>
    BY DEF Call, hvars
  <1>3. call_memo'[c].ts = timestamp + 1 /\ timestamp \in Nat
    BY <1>1 DEF Call, TypeOK
  <1>4. ASSUME NEW e \in Harvested(queue, decided)
        PROVE  e.ts_resp < timestamp + 1
    <2>1. CASE \E i \in 1..Len(queue) : e = queue[i]
      <3>1. PICK i \in 1..Len(queue) : e = queue[i]
        BY <2>1
      <3>2. queue[i] \in QueuedSpan /\ queue[i].ts_resp <= timestamp
        BY <1>1 DEF TypeOK, Bookkeeping, Past
      <3> QED BY <1>3, <3>1, <3>2 DEF QueuedSpan
    <2>2. CASE \E d \in decided : e = d.entry
      <3>1. PICK d \in decided : e = d.entry
        BY <2>2
      <3>2. d.entry.ts_resp \in Nat /\ d.entry.ts_resp < maxtr[c]
        BY <1>1 DEF TypeOK, QueuedSpan, Bookkeeping, DecidedBefore, BeforeComing
      <3>3. maxtr[c] \in Nat /\ maxtr[c] <= timestamp
        BY <1>1 DEF TypeOK, Bookkeeping, Stamps, Past
      <3> QED BY <1>3, <3>1, <3>2, <3>3
    <2> QED BY <2>1, <2>2 DEF Harvested
  <1>5. \A x \in Clients : x = c
    BY OnlyClient
  <1>6. Harvested(queue, decided)' = Harvested(queue, decided)
    BY <1>2
  <1>7. \A x \in Clients : \A e \in Harvested(queue, decided) : e.ts_resp < call_memo'[x].ts
    BY <1>3, <1>4, <1>5
  <1>8. AllOver(Harvested(queue, decided))'
    BY <1>6, <1>7 DEF AllOver
  <1> QED BY <1>2, <1>6, <1>8 DEF SoloInv

\* A harvest adds one response to those harvested.
LEMMA HarvestAdds ==
    ASSUME IndInv, NEW c \in Clients, HarvestRead(c) \/ HarvestUpdate(c)
    PROVE  Harvested(queue', decided') \subseteq Harvested(queue, decided) \cup {NewEntry(c)}
  <1> DEFINE q == Enqueued(c)
  <1>1. TakeResponse(c)
    BY DEF HarvestRead, HarvestUpdate
  <1>2. /\ Len(q) \in Nat /\ Len(queue) \in Nat /\ Len(q) = Len(queue) + 1
        /\ \A i \in 1..Len(queue) : q[i] = queue[i]
    BY <1>1, EnqueueFacts
  <1>3. q[Len(q)] = NewEntry(c)
    <2>1. queue \in Seq(QueuedSpan)
      BY DEF IndInv, TypeOK
    <2> QED BY <1>2, <2>1 DEF Enqueued, add_to_queue, NewEntry
  <1>4. \A i \in 1..Len(q) : i \in 1..Len(queue) \/ i = Len(q)
    BY <1>2
  <1>5. \A i \in 1..Len(q) : q[i] \in Harvested(queue, decided) \cup {NewEntry(c)}
    BY <1>2, <1>3, <1>4 DEF Harvested
  <1> HIDE DEF q
  <1>6. CASE HarvestRead(c)
    <2>1. queue' = q /\ decided' = decided
      BY <1>6 DEF HarvestRead, q
    <2> QED BY <1>5, <2>1 DEF Harvested
  <1>7. CASE HarvestUpdate(c)
    <2>1. PICK n \in Nat, failed \in BOOLEAN : Pops(c, q, n, failed)
      BY <1>7, UpdatePops DEF q
    <2>2. n \in 0..Len(q) /\ Len(queue') = Len(q) - n
      BY <2>1 DEF Pops
    <2>3. \A i \in 1..Len(queue') : queue'[i] = q[n + i]
      BY <2>1 DEF Pops
    <2>4. \A i \in 1..Len(queue') : n + i \in 1..Len(q)
      BY <1>2, <2>2
    <2>5. \A i \in 1..n : i \in 1..Len(q)
      BY <1>2, <2>2
    <2>6. \A i \in 1..Len(queue') : queue'[i] \in Harvested(queue, decided) \cup {NewEntry(c)}
      BY <1>5, <2>3, <2>4
    <2>7. \A d \in decided' : d \in decided \/ \E i \in 1..n : d.entry = q[i]
      BY <2>1 DEF Pops, Decide
    <2>8. \A d \in decided' : d.entry \in Harvested(queue, decided) \cup {NewEntry(c)}
      BY <1>5, <2>5, <2>7 DEF Harvested
    <2>9. \A e \in Harvested(queue', decided') :
             (\E i \in 1..Len(queue') : e = queue'[i]) \/ \E d \in decided' : e = d.entry
      BY DEF Harvested
    <2> QED BY <2>6, <2>8, <2>9
  <1> QED BY <1>6, <1>7

\* The update r acknowledged with the response e comes after all the others.
LEMMA SoloAcknowledge ==
    ASSUME NEW hist, NEW resps, NEW hist2, NEW resps2, NEW r, NEW e,
           UpdatesInTurn(hist), ResponsesInTurn(resps, hist),
           hist \subseteq hist2, hist2 \subseteq hist \cup {r}, resps2 \subseteq resps \cup {e},
           e.resp.op # "Stop", e.ts_call > 0,
           r.ts_call = e.ts_call, r.ts_resp = e.ts_resp, r.ts_call <= r.ts_resp,
           \A u \in hist : u.ts_resp < e.ts_call,
           \A x \in resps : x.ts_resp < e.ts_call
    PROVE  UpdatesInTurn(hist2) /\ ResponsesInTurn(resps2, hist2)
  <1>1. \A u \in hist2 : u \in hist \/ u = r
    OBVIOUS
  <1>2. \A x \in resps2 : x \in resps \/ x = e
    OBVIOUS
  <1>3. \A u \in hist2 : u.ts_call <= u.ts_resp
    BY <1>1 DEF UpdatesInTurn
  <1>4. \A u, w \in hist2 : u.key = w.key => u = w \/ u.ts_resp < w.ts_call \/ w.ts_resp < u.ts_call
    BY <1>1 DEF UpdatesInTurn
  <1>5. \A k \in Pool : \E u \in hist2 : u.key = k /\ u.ts_resp = 0
    BY DEF UpdatesInTurn
  <1>6. \A x \in resps2, u \in hist2 : InTurn(x, u)
    BY <1>1, <1>2 DEF ResponsesInTurn, InTurn
  <1>7. \A x \in resps2 : x.resp.op # "Stop" /\ x.ts_call > 0
    BY <1>2 DEF ResponsesInTurn
  <1> QED BY <1>3, <1>4, <1>5, <1>6, <1>7 DEF UpdatesInTurn, ResponsesInTurn

LEMMA SoloHarvest ==
    ASSUME IndInv, SoloInv, Cardinality(Clients) = 1, NEW c \in Clients,
           HarvestRead(c) \/ HarvestUpdate(c)
    PROVE  SoloInv'
  <1> DEFINE e == NewEntry(c)
             resps == Harvested(queue, decided)
             resps2 == Harvested(queue', decided')
  <1>1. TakeResponse(c)
    BY DEF HarvestRead, HarvestUpdate
  <1>2. /\ TypeOK /\ Bookkeeping /\ outcome = "running" /\ flying[c]
        /\ timestamp \in Nat /\ call_memo[c].ts \in Nat /\ maxtr[c] \in Nat
        /\ maxtr[c] < call_memo[c].ts /\ call_memo[c].ts < timestamp
    BY <1>1, TakeFacts
  <1>3. resps2 \subseteq resps \cup {e}
    BY HarvestAdds
  <1>4. UpdatesInTurn(acked) /\ ResponsesInTurn(resps, acked) /\ \A x \in resps : x.ts_resp < call_memo[c].ts
    BY <1>2 DEF SoloInv, AllOver
  <1>5. e.resp.op # "Stop" /\ e.ts_call = call_memo[c].ts /\ e.ts_resp = timestamp
    BY <1>1 DEF TakeResponse, NewEntry
  <1>6. e.ts_call > 0 /\ e.ts_call <= e.ts_resp
    BY <1>2, <1>5
  <1>7. \A u \in acked : u.ts_resp < e.ts_call
    <2> SUFFICES ASSUME NEW u \in acked PROVE u.ts_resp < call_memo[c].ts
      BY <1>5
    <2>1. u.ts_resp \in Nat /\ u.cli = c
      BY <1>2, OnlyClient DEF TypeOK, Acked
    <2>2. u.ts_resp <= maxtr[c]
      BY <1>2, <2>1 DEF Bookkeeping, AckedBefore
    <2> QED BY <1>2, <2>1, <2>2
  <1>8. \E r : /\ acked \subseteq acked' /\ acked' \subseteq acked \cup {r}
               /\ r.ts_call = e.ts_call /\ r.ts_resp = e.ts_resp
    <2>1. CASE HarvestRead(c)
      <3>1. acked' = acked
        BY <2>1 DEF HarvestRead
      <3> QED BY <3>1
    <2>2. CASE HarvestUpdate(c)
      <3>1. PICK n \in Nat, failed \in BOOLEAN, u \in call_memo[c].upd :
              acked' = acked \cup { [cli |-> c, key |-> u.key, value |-> u.value,
                                     ts_call |-> call_memo[c].ts, ts_resp |-> timestamp] }
        BY <2>2, UpdatePops
      <3> DEFINE r == [cli |-> c, key |-> u.key, value |-> u.value,
                       ts_call |-> call_memo[c].ts, ts_resp |-> timestamp]
      <3>2. r.ts_call = e.ts_call /\ r.ts_resp = e.ts_resp /\ acked' = acked \cup {r}
        BY <1>5, <3>1
      <3> HIDE DEF r, e
      <3> QED BY <3>2
    <2> QED BY <2>1, <2>2
  <1> HIDE DEF e, resps, resps2
  <1>9. PICK r : /\ acked \subseteq acked' /\ acked' \subseteq acked \cup {r}
                 /\ r.ts_call = e.ts_call /\ r.ts_resp = e.ts_resp
    BY <1>8
  <1>10. UpdatesInTurn(acked') /\ ResponsesInTurn(resps2, acked')
    BY <1>3, <1>4, <1>5, <1>6, <1>7, <1>9, SoloAcknowledge
  <1>11. outcome' = "running" => \A x \in Clients : ~flying'[x]
    <2>1. EndOp(c) \/ BreakOut("violation") \/ BreakOut("bad_key")
      BY DEF HarvestRead, HarvestUpdate
    <2>2. EndOp(c) => ~flying'[c]
      BY <1>2 DEF EndOp, TypeOK
    <2> QED BY <2>1, <2>2, OnlyClient DEF BreakOut
  <1>12. AllOver(Harvested(queue, decided))'
    BY <1>11 DEF AllOver
  <1> QED BY <1>10, <1>12 DEF SoloInv, resps2

LEMMA SoloStep ==
    ASSUME IndInv, SoloInv, [Next]_vars
    PROVE  SoloInv'
  <1> SUFFICES ASSUME Cardinality(Clients) = 1 PROVE SoloInv'
    BY DEF SoloInv
  <1>1. ASSUME NEW c \in Clients, Call(c) PROVE SoloInv'
    BY <1>1, SoloCall
  <1>2. ASSUME NEW c \in Clients, HarvestRead(c) \/ HarvestUpdate(c) PROVE SoloInv'
    BY <1>2, SoloHarvest
  <1>3. ASSUME \/ \E c \in Clients : BeginWait(c) \/ HarvestErr(c) \/ HarvestStop(c)
               \/ \E c \in Clients : StopClient(c) \/ StopErr(c) \/ Answer(c) \/ DriverDies(c)
               \/ Report \/ Done \/ UNCHANGED vars
        PROVE  /\ UNCHANGED <<queue, acked, decided, flying, call_memo>>
               /\ outcome' = "running" => outcome = "running"
    BY <1>3 DEF BeginWait, HarvestErr, HarvestStop, StopClient, StopErr, Answer,
                DriverDies, Report, Done, vars, hvars
  <1> QED BY <1>1, <1>2, <1>3, SoloFrame DEF Next, FuzzerStep, Harvest

\* The dummy updates are over before anything begins.
LEMMA InitSolo == Init => SoloInv
  <1> SUFFICES ASSUME Init, Cardinality(Clients) = 1 PROVE SoloInv
    BY DEF SoloInv
  <1>1. \A e : e \notin Harvested(queue, decided)
    <2>1. Len(queue) = 0 /\ decided = {}
      BY DEF Init
    <2> QED BY <2>1 DEF Harvested
  <1>2. acked = [cli : Clients, key : Pool, ts_call : {0}, ts_resp : {0}, value : {Null}]
    BY DEF Init
  <1>3. \A u \in acked : u.ts_call <= u.ts_resp
    BY <1>2
  <1>4. ASSUME NEW u \in acked, NEW w \in acked, u.key = w.key PROVE u = w
    <2>1. u.cli = w.cli
      BY <1>2, OnlyClient
    <2> QED BY <1>2, <1>4, <2>1
  <1>5. ASSUME NEW k \in Pool PROVE \E u \in acked : u.key = k /\ u.ts_resp = 0
    <2>1. PICK c \in Clients : TRUE
      BY ClientsAssumption
    <2>2. [cli |-> c, key |-> k, ts_call |-> 0, ts_resp |-> 0, value |-> Null] \in acked
      BY <1>2
    <2> QED BY <2>2
  <1> QED BY <1>1, <1>3, <1>4, <1>5 DEF SoloInv, UpdatesInTurn, ResponsesInTurn, AllOver

(***************************************************************************)
(* With a single client the checker is exact for reads: check_call passes  *)
(* a response if and only if it claims the value the key had when the call *)
(* began, or the one its own call gave the key.                            *)
(***************************************************************************)
THEOREM SoloChecksExact == Spec => []SoloExact
  <1>1. IndInv /\ SoloInv => SoloExact
    BY SoloPermitted DEF SoloExact
  <1>2. IndInv /\ SoloInv /\ [Next]_vars => SoloInv'
    BY SoloStep
  <1> QED BY <1>1, <1>2, InitSolo, InitInd, Inductive, PTL DEF Spec
==============================================================================
