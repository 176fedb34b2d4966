---------------------------- MODULE FuzzLinProofs -----------------------------
(***************************************************************************)
(* The fuzzer never accuses a linearizable service, for every number of    *)
(* clients, keys and operations, whichever client processes die and when.  *)
(***************************************************************************)
EXTENDS FuzzLin, FuzzerRefinesProofs

------------------------------------------------------------------------------
(***************************************************************************)
(* The service is one of the systems Fuzzer allows for.                    *)
(***************************************************************************)
LEMMA StoreType ==
    ASSUME NEW call \in KvCall, NEW st \in Stores
    PROVE  StoreAfter(call, st) \in Stores
  <1>1. ASSUME NEW k \in Keys
        PROVE  (IF call.op \in {"Put", "Swap"} /\ call.key = k THEN call.value
                ELSE IF call.op = "Delete" /\ call.key = k THEN Null
                ELSE st[k]) \in OptValues
    <2>1. call.op \in {"Put", "Swap"} => call.value \in Values
      BY DEF KvCall
    <2> QED BY <2>1 DEF OptValues, Stores
  <1> QED BY <1>1 DEF StoreAfter, Stores

LEMMA ServeAnswers ==
    ASSUME store \in Stores, link \in [Clients -> Link], NEW c \in Clients,
           Serve(c) \/ ClientDies(c)
    PROVE  /\ Answer(c) \/ DriverDies(c)
           /\ store' \in Stores
           /\ link[c].st = "called" /\ link[c].call \in KvCall
  <1>1. link[c].st = "called" /\ link[c].call \in KvCall
    BY LinkTypes DEF Serve, ClientDies, DriverDies
  <1>2. store' \in Stores
    BY <1>1, StoreType DEF Serve, ClientDies
  <1>3. Serve(c) => Answer(c)
    BY <1>1, ServiceReplies DEF Serve, Answer
  <1> QED BY <1>1, <1>2, <1>3 DEF ClientDies

LEMMA LNextIsNext ==
    ASSUME store \in Stores, link \in [Clients -> Link], [LNext]_lvars
    PROVE  [Next]_vars /\ store' \in Stores
  <1>1. CASE \E c \in Clients : Serve(c) \/ ClientDies(c)
    BY <1>1, ServeAnswers DEF Next
  <1>2. CASE FuzzerStep /\ UNCHANGED store
    BY <1>2 DEF Next
  <1>3. CASE Done /\ UNCHANGED store
    BY <1>3 DEF Next
  <1>4. CASE UNCHANGED lvars
    BY <1>4 DEF lvars
  <1> QED BY <1>1, <1>2, <1>3, <1>4 DEF LNext

LEMMA InitStore == LInit => store \in Stores
  BY DEF LInit, Stores, OptValues

------------------------------------------------------------------------------
(***************************************************************************)
(* A call of the fuzzer is on keys of the pool; the response to it is then *)
(* well formed and on keys of the pool.                                    *)
(***************************************************************************)
InPool(call) == call.op # "Scan" => call.key \in Pool

WellPut(resp) ==
    /\ resp.op # "Stop"
    /\ resp.op = "Scan" => WellFormedScan(resp)
    /\ KeysOf(resp, Pool) \subseteq Pool

\* A list as long as the set of its elements has no element twice.
LEMMA ListedOnce ==
    ASSUME NEW s, NEW n \in Nat, DOMAIN s = 1..n, NEW S,
           \A i \in 1..n : s[i] \in S, \A x \in S : \E i \in 1..n : s[i] = x,
           Cardinality(S) = n
    PROVE  \A i, j \in 1..n : s[i] = s[j] => i = j
  <1> DEFINE f == [i \in 1..n |-> s[i]]
  <1>1. f \in Surjection(1..n, S)
    BY DEF Surjection
  <1>2. IsFiniteSet(1..n) /\ Cardinality(1..n) = n
    BY FS_Interval
  <1>3. f \in Injection(1..n, S)
    BY <1>1, <1>2, FS_Surjection
  <1>4. \A i, j \in 1..n : f[i] = f[j] => i = j
    BY <1>3 DEF Injection, IsInjective
  <1> QED BY <1>4

\* A truthful response claims of every key the value it has in the store.
LEMMA TruthfulClaims ==
    ASSUME NEW call \in KvCall, InPool(call), NEW st \in Stores, NEW resp,
           Truthful(call, st, resp)
    PROVE  /\ resp \in KvResp /\ WellPut(resp)
           /\ \A k \in KeysOf(resp, Pool) : st[k] \in Claim(resp, k)
  <1>1. resp \in KvResp /\ resp.op = call.op
    BY DEF Truthful
  <1>2. call.op \in {"Put", "Swap", "Get", "Delete", "Scan"}
    BY DEF KvCall
  <1>3. Pool \subseteq Keys
    BY PoolAssumption DEF Pool
  <1>4. ASSUME call.op # "Scan"
        PROVE  WellPut(resp) /\ \A k \in KeysOf(resp, Pool) : st[k] \in Claim(resp, k)
    <2>1. resp.key = call.key /\ call.key \in Pool /\ KeysOf(resp, Pool) = {call.key}
      BY <1>1, <1>4 DEF Truthful, InPool, KeysOf
    <2>2. WellPut(resp)
      BY <1>1, <1>2, <1>4, <2>1 DEF WellPut
    <2>3. st[call.key] \in OptValues
      BY <1>3, <2>1 DEF Stores
    <2>4. CASE call.op \in {"Put", "Delete"}
      <3>1. Claim(resp, call.key) = ValuesFor(resp.found) /\ resp.found = (st[call.key] # Null)
        BY <1>1, <1>4, <2>4 DEF Claim, Truthful
      <3>2. CASE st[call.key] = Null
        <4>1. ValuesFor(resp.found) = {Null}
          BY <3>1, <3>2 DEF ValuesFor
        <4> QED BY <2>1, <2>2, <3>1, <3>2, <4>1
      <3>3. CASE st[call.key] # Null
        <4>1. ValuesFor(resp.found) = Values
          BY <3>1, <3>3 DEF ValuesFor
        <4>2. st[call.key] \in Values
          BY <2>3, <3>3 DEF OptValues
        <4> QED BY <2>1, <2>2, <3>1, <4>1, <4>2
      <3> QED BY <3>2, <3>3
    <2>5. CASE call.op \in {"Swap", "Get"}
      <3>1. Claim(resp, call.key) = {resp.value} /\ resp.value = st[call.key]
        BY <1>1, <1>4, <2>5 DEF Claim, Truthful
      <3> QED BY <2>1, <2>2, <3>1
    <2> QED BY <1>2, <1>4, <2>4, <2>5
  <1>5. ASSUME call.op = "Scan"
        PROVE  WellPut(resp) /\ \A k \in KeysOf(resp, Pool) : st[k] \in Claim(resp, k)
    <2> DEFINE es == resp.entries
               P  == Present(st, call.key_start, call.key_end)
               n  == Len(es)
    <2>1. es \in Seq(Entry)
      BY <1>1, <1>5 DEF KvResp
    <2>2. n \in Nat /\ DOMAIN es = 1..n
      BY <2>1
    <2>3. /\ resp.key_start = call.key_start /\ resp.key_end = call.key_end
          /\ { es[i] : i \in DOMAIN es } = P /\ n = Cardinality(P)
      BY <1>5 DEF Truthful
    <2>4. \A e \in P : /\ e \in Entry /\ e.value = st[e.key]
                       /\ call.key_start <= e.key /\ e.key <= call.key_end
      BY DEF Present
    <2>5. (\A i \in 1..n : es[i] \in P) /\ \A e \in P : \E i \in 1..n : es[i] = e
      BY <2>2, <2>3
    <2> HIDE DEF es, n, P
    <2>6. \A i, j \in 1..n : es[i] = es[j] => i = j
      BY <2>2, <2>3, <2>5, ListedOnce
    <2>7. \A i, j \in 1..n : es[i].key = es[j].key => i = j
      <3> SUFFICES ASSUME NEW i \in 1..n, NEW j \in 1..n, es[i].key = es[j].key PROVE es[i] = es[j]
        BY <2>6
      <3>1. es[i] \in Entry /\ es[j] \in Entry /\ es[i].value = es[j].value
        BY <2>4, <2>5
      <3> QED BY <3>1 DEF Entry
    <2>8. WellFormedScan(resp)
      <3>1. \A i \in 1..n : call.key_start <= es[i].key /\ es[i].key <= call.key_end
        BY <2>4, <2>5
      <3> QED BY <2>2, <2>3, <2>7, <3>1 DEF WellFormedScan, es
    <2>9. KeysOf(resp, Pool) = { k \in Pool : call.key_start <= k /\ k <= call.key_end }
      BY <1>1, <1>5, <2>3 DEF KeysOf
    <2>10. ASSUME NEW k \in KeysOf(resp, Pool) PROVE st[k] \in Claim(resp, k)
      <3>1. k \in Keys /\ call.key_start <= k /\ k <= call.key_end
        BY <1>3, <2>9, <2>10
      <3>2. st[k] \in OptValues
        BY <3>1 DEF Stores
      <3>3. Claim(resp, k) = EntryValues(es, k)
        BY <1>1, <1>5 DEF Claim, es
      <3> DEFINE given == { i \in DOMAIN es : es[i].key = k }
      <3>4. CASE given = {}
        <4>1. st[k] = Null
          <5> SUFFICES ASSUME st[k] # Null PROVE FALSE
            OBVIOUS
          <5> DEFINE e == [key |-> k, value |-> st[k]]
          <5>1. e \in Entry /\ e.key = k /\ e.value = st[k]
            BY <3>1, <3>2 DEF Entry, OptValues
          <5>2. e \in P
            BY <3>1, <5>1 DEF P, Present
          <5>3. PICK i \in 1..n : es[i] = e
            BY <2>5, <5>2
          <5> QED BY <2>2, <3>4, <5>1, <5>3
        <4> QED BY <3>3, <3>4, <4>1 DEF EntryValues
      <3>5. CASE given # {}
        <4>1. PICK i \in given : TRUE
          BY <3>5
        <4>2. i \in 1..n /\ es[i].key = k /\ es[i].value = st[k]
          BY <2>2, <2>4, <2>5, <4>1
        <4>3. es[i].value \in { es[m].value : m \in given }
          BY <4>1
        <4>4. EntryValues(es, k) = { es[m].value : m \in given }
          BY <3>5 DEF EntryValues
        <4> QED BY <3>3, <4>2, <4>3, <4>4
      <3> QED BY <3>4, <3>5
    <2>11. WellPut(resp)
      BY <1>1, <1>5, <2>8, <2>9 DEF WellPut
    <2> QED BY <2>10, <2>11
  <1> QED BY <1>1, <1>4, <1>5

------------------------------------------------------------------------------
(***************************************************************************)
(* The invariant.  A call may have taken effect when it was answered, or   *)
(* when its client died.  A claim is supported by an acknowledged update   *)
(* or by one that took effect and is not acknowledged yet.                 *)
(***************************************************************************)
TookEffect(lk, memo, d, k, wanted) ==
    /\ lk[d].st \in {"replied", "dead"}
    /\ \E u \in memo[d].upd : u.key = k /\ u.value \in wanted

Supported(hist, lk, memo, k, ts_call, ts_resp, wanted) ==
    \/ Admissible(hist, k, ts_call, ts_resp, wanted)
    \/ \E d \in Clients : TookEffect(lk, memo, d, k, wanted) /\ memo[d].ts < ts_resp

Backed(hist, lk, memo, e) ==
    /\ WellPut(e.resp)
    /\ \A k \in KeysOf(e.resp, Pool) :
         Supported(hist, lk, memo, k, e.ts_call, e.ts_resp, Claim(e.resp, k))

(***************************************************************************)
(* The value of a key was written by an acknowledged update that its       *)
(* client did not follow by another one that took effect, or by an update  *)
(* that is not acknowledged yet.                                           *)
(***************************************************************************)
Replacing(lk, memo, d, k) == lk[d].st = "replied" /\ \E x \in memo[d].upd : x.key = k

LastOf(hist, lk, memo, u) ==
    /\ \A w \in hist : w.cli = u.cli /\ w.key = u.key => ~(w.ts_call > u.ts_resp)
    /\ ~Replacing(lk, memo, u.cli, u.key)

Written(hist, lk, memo, k, v) ==
    \/ \E u \in hist : u.key = k /\ u.value = v /\ LastOf(hist, lk, memo, u)
    \/ \E d \in Clients : TookEffect(lk, memo, d, k, {v})

\* The response of a client before it is harvested, stamped later than all so far.
Coming(lk, memo, ts, c) ==
    [ts_call |-> memo[c].ts, ts_resp |-> ts + 1, resp |-> lk[c].resp]

CallsKnown ==
    \A c \in Clients : link[c].st = "called" =>
        InPool(link[c].call) /\ call_memo[c].upd = update_info(link[c].call)

OneUpdate == \A c \in Clients : \A x, y \in call_memo[c].upd : x = y

RepliesBacked ==
    \A c \in Clients : link[c].st = "replied" =>
        Backed(acked, link, call_memo, Coming(link, call_memo, timestamp, c))

StoreWritten == \A k \in Pool : Written(acked, link, call_memo, k, store[k])

QueueBacked == \A i \in 1..Len(queue) : Backed(acked, link, call_memo, queue[i])

LinInv ==
    /\ store \in Stores
    /\ NoFalseAlarm
    /\ CallsKnown
    /\ OneUpdate
    /\ RepliesBacked
    /\ StoreWritten
    /\ QueueBacked

------------------------------------------------------------------------------
(***************************************************************************)
(* A claim stays supported while updates in effect stay so, or are         *)
(* acknowledged with the newest stamp there is.                            *)
(***************************************************************************)
Grows(H, lk, memo, H2, lk2, memo2, now) ==
    /\ H \subseteq H2
    /\ \A w \in H2 : w \in H \/ w.ts_resp = now
    /\ \A w \in H2 : w.ts_call \in Nat /\ w.ts_resp \in Nat /\ w.ts_call <= now
    /\ \A d \in Clients, k \in Keys, v \in OptValues :
         TookEffect(lk, memo, d, k, {v}) =>
           \/ TookEffect(lk2, memo2, d, k, {v}) /\ memo2[d].ts = memo[d].ts
           \/ \E r \in H2 : /\ r.cli = d /\ r.key = k /\ r.value = v
                            /\ r.ts_call = memo[d].ts /\ r.ts_resp = now

LEMMA SupportKept ==
    ASSUME NEW H, NEW lk, NEW memo \in [Clients -> Memo], NEW H2, NEW lk2, NEW memo2,
           NEW now \in Nat, Grows(H, lk, memo, H2, lk2, memo2, now),
           NEW k, NEW tc \in Nat, tc <= now, NEW tr \in Nat, NEW wanted,
           Supported(H, lk, memo, k, tc, tr, wanted)
    PROVE  Supported(H2, lk2, memo2, k, tc, tr, wanted)
  <1>1. CASE Admissible(H, k, tc, tr, wanted)
    <2>1. PICK u \in H : /\ u.key = k /\ u.ts_call < tr /\ u.value \in wanted
                         /\ \A w \in H : (w.cli = u.cli /\ w.key = k /\ w.ts_call > u.ts_resp)
                                           => w.ts_resp >= tc
      BY <1>1 DEF Admissible
    <2>2. u \in H2
      BY <2>1 DEF Grows
    <2>3. ASSUME NEW w \in H2, w.cli = u.cli, w.key = k, w.ts_call > u.ts_resp
          PROVE  w.ts_resp >= tc
      BY <2>1, <2>3 DEF Grows
    <2>4. Admissible(H2, k, tc, tr, wanted)
      BY <2>1, <2>2, <2>3 DEF Admissible
    <2> QED BY <2>4 DEF Supported
  <1>2. CASE \E d \in Clients : TookEffect(lk, memo, d, k, wanted) /\ memo[d].ts < tr
    <2>1. PICK d \in Clients : TookEffect(lk, memo, d, k, wanted) /\ memo[d].ts < tr
      BY <1>2
    <2>2. PICK x \in memo[d].upd : x.key = k /\ x.value \in wanted
      BY <2>1 DEF TookEffect
    <2> DEFINE v == x.value
    <2>3. k \in Keys /\ v \in OptValues /\ v \in wanted
      BY <2>2 DEF Memo, Update
    <2>4. TookEffect(lk, memo, d, k, {v})
      BY <2>1, <2>2 DEF TookEffect
    <2> HIDE DEF v
    <2>5. CASE TookEffect(lk2, memo2, d, k, {v}) /\ memo2[d].ts = memo[d].ts
      <3>1. TookEffect(lk2, memo2, d, k, wanted)
        BY <2>3, <2>5 DEF TookEffect
      <3> QED BY <2>1, <2>5, <3>1 DEF Supported
    <2>6. CASE \E r \in H2 : /\ r.cli = d /\ r.key = k /\ r.value = v
                             /\ r.ts_call = memo[d].ts /\ r.ts_resp = now
      <3>1. PICK r \in H2 : /\ r.cli = d /\ r.key = k /\ r.value = v
                            /\ r.ts_call = memo[d].ts /\ r.ts_resp = now
        BY <2>6
      <3>2. \A w \in H2 : ~(w.ts_call > r.ts_resp)
        BY <3>1 DEF Grows
      <3>3. Admissible(H2, k, tc, tr, wanted)
        BY <2>1, <2>3, <3>1, <3>2 DEF Admissible
      <3> QED BY <3>3 DEF Supported
    <2>7. \/ TookEffect(lk2, memo2, d, k, {v}) /\ memo2[d].ts = memo[d].ts
          \/ \E r \in H2 : /\ r.cli = d /\ r.key = k /\ r.value = v
                           /\ r.ts_call = memo[d].ts /\ r.ts_resp = now
      BY <2>3, <2>4 DEF Grows
    <2> QED BY <2>5, <2>6, <2>7
  <1> QED BY <1>1, <1>2 DEF Supported

LEMMA BackedKept ==
    ASSUME NEW H, NEW lk, NEW memo \in [Clients -> Memo], NEW H2, NEW lk2, NEW memo2,
           NEW now \in Nat, Grows(H, lk, memo, H2, lk2, memo2, now),
           NEW e, e.ts_call \in Nat, e.ts_call <= now, e.ts_resp \in Nat,
           Backed(H, lk, memo, e)
    PROVE  Backed(H2, lk2, memo2, e)
  BY SupportKept DEF Backed

\* A later stamp does not hurt.
LEMMA BackedLater ==
    ASSUME NEW H, \A w \in H : w.ts_call \in Nat, NEW lk, NEW memo \in [Clients -> Memo],
           NEW e, NEW e2, e2.resp = e.resp, e2.ts_call = e.ts_call,
           e.ts_resp \in Nat, e2.ts_resp \in Nat,
           \/ e.ts_resp <= e2.ts_resp
           \/ (\A w \in H : w.ts_call < e2.ts_resp) /\ (\A d \in Clients : memo[d].ts < e2.ts_resp),
           Backed(H, lk, memo, e)
    PROVE  Backed(H, lk, memo, e2)
  <1>1. \A d \in Clients : memo[d].ts \in Nat
    BY DEF Memo
  <1>2. \A w \in H : w.ts_call < e.ts_resp => w.ts_call < e2.ts_resp
    OBVIOUS
  <1>3. \A d \in Clients : memo[d].ts < e.ts_resp => memo[d].ts < e2.ts_resp
    BY <1>1
  <1>4. ASSUME NEW k, NEW wanted, Admissible(H, k, e.ts_call, e.ts_resp, wanted)
        PROVE  Admissible(H, k, e2.ts_call, e2.ts_resp, wanted)
    BY <1>2, <1>4 DEF Admissible
  <1>5. ASSUME NEW k, NEW wanted, Supported(H, lk, memo, k, e.ts_call, e.ts_resp, wanted)
        PROVE  Supported(H, lk, memo, k, e2.ts_call, e2.ts_resp, wanted)
    BY <1>3, <1>4, <1>5 DEF Supported
  <1> QED BY <1>5 DEF Backed

------------------------------------------------------------------------------
\* The stamps and types that the steps below rely on.
LEMMA LinFacts ==
    ASSUME IndInv, LinInv
    PROVE  /\ TypeOK /\ Bookkeeping /\ timestamp \in Nat
           /\ call_memo \in [Clients -> Memo] /\ link \in [Clients -> Link]
           /\ \A w \in acked : /\ w.ts_call \in Nat /\ w.ts_resp \in Nat
                               /\ w.ts_call <= timestamp /\ w.ts_call < timestamp + 1
                               /\ waiting # {} => w.ts_call < timestamp
           /\ \A d \in Clients : /\ call_memo[d].ts \in Nat /\ call_memo[d].ts <= timestamp
                                 /\ call_memo[d].ts < timestamp + 1
                                 /\ waiting # {} => call_memo[d].ts < timestamp
           /\ Len(queue) \in Nat /\ DOMAIN queue = 1..Len(queue)
           /\ \A i \in 1..Len(queue) : /\ queue[i].ts_call \in Nat /\ queue[i].ts_resp \in Nat
                                       /\ queue[i].ts_call <= timestamp
  <1>1. TypeOK /\ Bookkeeping
    BY DEF IndInv, LinInv, NoFalseAlarm
  <1>2. /\ timestamp \in Nat /\ call_memo \in [Clients -> Memo] /\ link \in [Clients -> Link]
        /\ queue \in Seq(QueuedSpan) /\ acked \subseteq Acked /\ maxtr \in [Clients -> Nat]
    BY <1>1 DEF TypeOK
  <1>3. ASSUME NEW w \in acked
        PROVE  /\ w.ts_call \in Nat /\ w.ts_resp \in Nat
               /\ w.ts_call <= timestamp /\ w.ts_call < timestamp + 1
               /\ waiting # {} => w.ts_call < timestamp
    <2>1. w.ts_call \in Nat /\ w.ts_resp \in Nat /\ w.cli \in Clients
      BY <1>2 DEF Acked
    <2>2. w.ts_call <= w.ts_resp /\ w.ts_resp <= maxtr[w.cli] /\ Past(maxtr[w.cli])
      BY <1>1, <2>1 DEF Bookkeeping, AckedBefore, Stamps
    <2>3. maxtr[w.cli] \in Nat
      BY <1>2, <2>1
    <2> QED BY <1>2, <2>1, <2>2, <2>3 DEF Past
  <1>4. ASSUME NEW d \in Clients
        PROVE  /\ call_memo[d].ts \in Nat /\ call_memo[d].ts <= timestamp
               /\ call_memo[d].ts < timestamp + 1
               /\ waiting # {} => call_memo[d].ts < timestamp
    <2>1. call_memo[d].ts \in Nat /\ Past(call_memo[d].ts)
      BY <1>1, <1>2 DEF Bookkeeping, Stamps, Memo
    <2> QED BY <1>2, <2>1 DEF Past
  <1>5. Len(queue) \in Nat /\ DOMAIN queue = 1..Len(queue) /\ \A i \in 1..Len(queue) : queue[i] \in QueuedSpan
    BY <1>2
  <1>6. ASSUME NEW i \in 1..Len(queue)
        PROVE  /\ queue[i].ts_call \in Nat /\ queue[i].ts_resp \in Nat
               /\ queue[i].ts_call <= timestamp
    <2>1. queue[i].ts_call \in Nat /\ queue[i].ts_resp \in Nat
      BY <1>5 DEF QueuedSpan
    <2>2. queue[i].ts_call < queue[i].ts_resp /\ Past(queue[i].ts_resp)
      BY <1>1 DEF Bookkeeping, QueueOrdered
    <2> QED BY <1>2, <2>1, <2>2 DEF Past
  <1> QED BY <1>1, <1>2, <1>3, <1>4, <1>5, <1>6

\* The queue stays backed.
LEMMA KeepQueue ==
    ASSUME IndInv, LinInv, Grows(acked, link, call_memo, acked', link', call_memo', timestamp)
    PROVE  \A i \in 1..Len(queue) : Backed(acked', link', call_memo', queue[i])
  <1> TAKE i \in 1..Len(queue)
  <1>1. /\ timestamp \in Nat /\ call_memo \in [Clients -> Memo]
        /\ queue[i].ts_call \in Nat /\ queue[i].ts_resp \in Nat /\ queue[i].ts_call <= timestamp
    BY LinFacts
  <1>2. Backed(acked, link, call_memo, queue[i])
    BY DEF LinInv, QueueBacked
  <1> QED BY <1>1, <1>2, BackedKept

\* So does the response of a client that the step leaves alone.
LEMMA KeepReply ==
    ASSUME IndInv, LinInv, IndInv',
           Grows(acked, link, call_memo, acked', link', call_memo', timestamp),
           timestamp <= timestamp',
           NEW x \in Clients, link'[x] = link[x], call_memo'[x] = call_memo[x],
           link[x].st = "replied"
    PROVE  Backed(acked', link', call_memo', Coming(link', call_memo', timestamp', x))
  <1> DEFINE e  == Coming(link, call_memo, timestamp, x)
             e2 == Coming(link', call_memo', timestamp', x)
  <1>1. /\ timestamp \in Nat /\ call_memo \in [Clients -> Memo]
        /\ call_memo[x].ts \in Nat /\ call_memo[x].ts <= timestamp
    BY LinFacts
  <1>2. timestamp' \in Nat /\ call_memo' \in [Clients -> Memo] /\ acked' \subseteq Acked
    BY DEF IndInv, TypeOK
  <1>3. /\ e.ts_call = call_memo[x].ts /\ e.ts_resp = timestamp + 1 /\ e.resp = link[x].resp
        /\ e2.ts_call = call_memo[x].ts /\ e2.ts_resp = timestamp' + 1 /\ e2.resp = link[x].resp
    BY DEF Coming
  <1>4. Backed(acked, link, call_memo, e)
    BY DEF LinInv, RepliesBacked
  <1> HIDE DEF e, e2
  <1>5. Backed(acked', link', call_memo', e)
    <2>1. e.ts_call \in Nat /\ e.ts_call <= timestamp /\ e.ts_resp \in Nat
      BY <1>1, <1>3
    <2> QED BY <1>1, <1>4, <2>1, BackedKept
  <1>6. \A w \in acked' : w.ts_call \in Nat
    BY <1>2 DEF Acked
  <1>7. /\ e2.resp = e.resp /\ e2.ts_call = e.ts_call
        /\ e.ts_resp \in Nat /\ e2.ts_resp \in Nat /\ e.ts_resp <= e2.ts_resp
    <2>1. \A m, n \in Nat : m <= n => m + 1 \in Nat /\ n + 1 \in Nat /\ m + 1 <= n + 1
      OBVIOUS
    <2>2. timestamp + 1 \in Nat /\ timestamp' + 1 \in Nat /\ timestamp + 1 <= timestamp' + 1
      BY <1>1, <1>2, <2>1
    <2> QED BY <1>3, <2>2
  <1>8. Backed(acked', link', call_memo', e2)
    BY <1>2, <1>5, <1>6, <1>7, BackedLater
  <1> QED BY <1>8 DEF e2

\* A value stays written while nobody who wrote or may replace it moves.
LEMMA KeepWritten ==
    ASSUME NEW H, NEW lk, NEW memo, NEW lk2, NEW memo2, NEW k, NEW v,
           H \subseteq Acked,
           Written(H, lk, memo, k, v),
           \A d \in Clients : TookEffect(lk, memo, d, k, {v}) => TookEffect(lk2, memo2, d, k, {v}),
           \A d \in Clients : Replacing(lk2, memo2, d, k) => Replacing(lk, memo, d, k)
    PROVE  Written(H, lk2, memo2, k, v)
  <1>1. CASE \E d \in Clients : TookEffect(lk, memo, d, k, {v})
    BY <1>1 DEF Written
  <1>2. ASSUME NEW u \in H, u.key = k, u.value = v, LastOf(H, lk, memo, u)
        PROVE  Written(H, lk2, memo2, k, v)
    <2>1. u.cli \in Clients
      BY DEF Acked
    <2>2. LastOf(H, lk2, memo2, u)
      BY <1>2, <2>1 DEF LastOf
    <2> QED BY <1>2, <2>2 DEF Written
  <1> QED BY <1>1, <1>2 DEF Written

(***************************************************************************)
(* Steps that move only the clock, the end of the run, or a link at rest.  *)
(***************************************************************************)
LEMMA QuietLin ==
    ASSUME IndInv, IndInv', LinInv,
           UNCHANGED <<call_memo, acked, queue, store>>, timestamp <= timestamp', NoFalseAlarm',
           \A c \in Clients : \/ link'[c] = link[c]
                              \/ /\ link[c].st \notin {"replied", "dead"}
                                 /\ link'[c].st \notin {"called", "replied"}
    PROVE  LinInv'
  <1>1. /\ timestamp \in Nat /\ call_memo \in [Clients -> Memo]
        /\ \A w \in acked : w.ts_call \in Nat /\ w.ts_resp \in Nat /\ w.ts_call <= timestamp
    BY LinFacts
  <1>2. \A d \in Clients : \A k, wanted :
          TookEffect(link, call_memo, d, k, wanted) => TookEffect(link', call_memo', d, k, wanted)
    BY DEF TookEffect
  <1>3. Grows(acked, link, call_memo, acked', link', call_memo', timestamp)
    BY <1>1, <1>2 DEF Grows
  <1>4. RepliesBacked'
    <2> SUFFICES ASSUME NEW x \in Clients, link'[x].st = "replied"
                 PROVE  Backed(acked', link', call_memo', Coming(link', call_memo', timestamp', x))
      BY DEF RepliesBacked
    <2>1. link'[x] = link[x]
      OBVIOUS
    <2> QED BY <1>3, <2>1, KeepReply
  <1>5. QueueBacked'
    BY <1>3, KeepQueue DEF QueueBacked
  <1>6. StoreWritten'
    <2> SUFFICES ASSUME NEW k \in Pool PROVE Written(acked, link', call_memo, k, store[k])
      BY DEF StoreWritten
    <2>1. Written(acked, link, call_memo, k, store[k]) /\ acked \subseteq Acked
      BY DEF LinInv, StoreWritten, IndInv, TypeOK
    <2> DEFINE v == store[k]
    <2>2. \A d \in Clients : TookEffect(link, call_memo, d, k, {v}) => TookEffect(link', call_memo, d, k, {v})
      BY <1>2
    <2>3. \A d \in Clients : Replacing(link', call_memo, d, k) => Replacing(link, call_memo, d, k)
      BY DEF Replacing
    <2>4. Written(acked, link, call_memo, k, v)
      BY <2>1
    <2> HIDE DEF v
    <2>5. Written(acked, link', call_memo, k, v)
      BY <2>1, <2>2, <2>3, <2>4, KeepWritten
    <2> QED BY <2>5 DEF v
  <1>7. CallsKnown' /\ OneUpdate' /\ store' \in Stores
    BY DEF LinInv, CallsKnown, OneUpdate
  <1> QED BY <1>4, <1>5, <1>6, <1>7 DEF LinInv

\* A new call has no effect yet.
LEMMA CallLin ==
    ASSUME IndInv, IndInv', LinksTied, LinInv, NEW c \in Clients, Call(c), UNCHANGED store
    PROVE  LinInv'
  <1>1. PICK call \in RandCalls(c) :
          /\ call_memo' = [call_memo EXCEPT ![c] =
                             [ts |-> timestamp + 1, upd |-> update_info(call)]]
          /\ link' = [link EXCEPT ![c] = [st |-> "called", call |-> call]]
    BY DEF Call
  <1>2. /\ UNCHANGED <<acked, queue, outcome>> /\ timestamp' = timestamp + 1
        /\ outcome = "running" /\ ~flying[c]
    BY DEF Call, AtTop, hvars
  <1>3. link[c] = Idle
    BY <1>2 DEF LinksTied
  <1>4. /\ timestamp \in Nat /\ call_memo \in [Clients -> Memo] /\ link \in [Clients -> Link]
        /\ \A w \in acked : w.ts_call \in Nat /\ w.ts_resp \in Nat /\ w.ts_call <= timestamp
    BY LinFacts
  <1>5. /\ link'[c] = [st |-> "called", call |-> call]
        /\ call_memo'[c] = [ts |-> timestamp + 1, upd |-> update_info(call)]
        /\ \A x \in Clients : x # c => link'[x] = link[x] /\ call_memo'[x] = call_memo[x]
    BY <1>1, <1>4
  <1>6. \A d \in Clients : \A k, wanted : TookEffect(link, call_memo, d, k, wanted) =>
            /\ TookEffect(link', call_memo', d, k, wanted)
            /\ call_memo'[d].ts = call_memo[d].ts
    BY <1>3, <1>5 DEF TookEffect, Idle
  <1>7. Grows(acked, link, call_memo, acked', link', call_memo', timestamp)
    BY <1>2, <1>4, <1>6 DEF Grows
  <1>8. RepliesBacked'
    <2> SUFFICES ASSUME NEW x \in Clients, link'[x].st = "replied"
                 PROVE  Backed(acked', link', call_memo', Coming(link', call_memo', timestamp', x))
      BY DEF RepliesBacked
    <2>1. link'[x] = link[x] /\ call_memo'[x] = call_memo[x]
      BY <1>5
    <2>2. timestamp <= timestamp'
      BY <1>2, <1>4
    <2> QED BY <1>7, <2>1, <2>2, KeepReply
  <1>9. QueueBacked'
    BY <1>2, <1>7, KeepQueue DEF QueueBacked
  <1>10. StoreWritten'
    <2> SUFFICES ASSUME NEW k \in Pool PROVE Written(acked, link', call_memo', k, store[k])
      BY <1>2 DEF StoreWritten
    <2> DEFINE v == store[k]
    <2>1. Written(acked, link, call_memo, k, v) /\ acked \subseteq Acked
      BY DEF LinInv, StoreWritten, IndInv, TypeOK
    <2> HIDE DEF v
    <2>2. \A d \in Clients : TookEffect(link, call_memo, d, k, {v}) => TookEffect(link', call_memo', d, k, {v})
      BY <1>6
    <2>3. \A d \in Clients : Replacing(link', call_memo', d, k) => Replacing(link, call_memo, d, k)
      BY <1>5 DEF Replacing
    <2>4. Written(acked, link', call_memo', k, v)
      BY <2>1, <2>2, <2>3, KeepWritten
    <2> QED BY <2>4 DEF v
  <1>11. CallsKnown'
    <2>1. InPool(call)
      BY <1>1 DEF InPool, RandCalls, Pool
    <2> QED BY <1>5, <2>1 DEF LinInv, CallsKnown
  <1>12. OneUpdate'
    <2>1. \A x, y \in update_info(call) : x = y
      BY DEF update_info, Update
    <2> QED BY <1>5, <2>1 DEF LinInv, OneUpdate
  <1> QED BY <1>2, <1>8, <1>9, <1>10, <1>11, <1>12 DEF LinInv, NoFalseAlarm

------------------------------------------------------------------------------
(***************************************************************************)
(* The service executes a call, or its client dies before or after that.   *)
(***************************************************************************)
LEMMA ServeLin ==
    ASSUME IndInv, IndInv', LinInv, NEW c \in Clients, Serve(c) \/ ClientDies(c)
    PROVE  LinInv'
  <1> DEFINE call == link[c].call
  <1>1. /\ timestamp \in Nat /\ call_memo \in [Clients -> Memo] /\ link \in [Clients -> Link]
        /\ \A w \in acked : /\ w.ts_call \in Nat /\ w.ts_resp \in Nat /\ w.ts_call <= timestamp
                            /\ w.ts_call < timestamp + 1
        /\ \A d \in Clients : /\ call_memo[d].ts \in Nat /\ call_memo[d].ts <= timestamp
                              /\ call_memo[d].ts < timestamp + 1
    BY LinFacts
  <1>2. store \in Stores
    BY DEF LinInv
  <1>3. link[c].st = "called" /\ call \in KvCall /\ store' \in Stores
    BY <1>1, <1>2, ServeAnswers
  <1>4. /\ UNCHANGED <<timestamp, call_memo, acked, queue, outcome>>
        /\ store' \in {store, StoreAfter(call, store)}
    BY DEF Serve, ClientDies, DriverDies, hvars
  <1>5. PICK l : /\ link' = [link EXCEPT ![c] = l]
                 /\ \/ l = [st |-> "replied", resp |-> ServiceResp(call, store)] /\ store' = StoreAfter(call, store)
                    \/ l = [st |-> "dead"]
    BY DEF Serve, ClientDies, DriverDies
  <1>6. link'[c] = l /\ l.st \in {"replied", "dead"} /\ \A x \in Clients : x # c => link'[x] = link[x]
    BY <1>1, <1>5
  <1>7. InPool(call) /\ call_memo[c].upd = update_info(call)
    BY <1>3 DEF LinInv, CallsKnown
  <1> HIDE DEF call
  <1>8. \A d \in Clients : \A k, wanted :
          TookEffect(link, call_memo, d, k, wanted) => TookEffect(link', call_memo', d, k, wanted)
    BY <1>3, <1>4, <1>6 DEF TookEffect
  <1>9. Grows(acked, link, call_memo, acked', link', call_memo', timestamp)
    BY <1>1, <1>4, <1>8 DEF Grows
  <1>10. ASSUME link'[c].st = "replied"
         PROVE  Backed(acked', link', call_memo', Coming(link', call_memo', timestamp', c))
    <2> DEFINE resp == ServiceResp(call, store)
    <2>1. l = [st |-> "replied", resp |-> resp] /\ store' = StoreAfter(call, store)
      BY <1>5, <1>6, <1>10
    <2>2. Truthful(call, store, resp)
      BY <1>2, <1>3, ServiceAssumption
    <2> HIDE DEF resp
    <2>3. WellPut(resp) /\ resp \in KvResp /\ \A k \in KeysOf(resp, Pool) : store[k] \in Claim(resp, k)
      BY <1>2, <1>3, <1>7, <2>2, TruthfulClaims
    <2> DEFINE e == Coming(link', call_memo', timestamp', c)
               tc == call_memo[c].ts
               tr == timestamp + 1
    <2>4. e.ts_call = tc /\ e.ts_resp = tr /\ e.resp = resp
      BY <1>4, <1>6, <2>1 DEF Coming
    <2>5. tc \in Nat /\ tr \in Nat /\ tc <= timestamp
      BY <1>1
    <2> HIDE DEF tc
    <2>6. ASSUME NEW k \in KeysOf(resp, Pool)
          PROVE  Supported(acked', link', call_memo', k, tc, tr, Claim(resp, k))
      <3> DEFINE v == store[k]
                 wanted == Claim(resp, k)
      <3>1. k \in Pool /\ v \in wanted
        BY <2>3 DEF WellPut
      <3>2. Written(acked, link, call_memo, k, v)
        BY <3>1 DEF LinInv, StoreWritten
      <3> HIDE DEF v, wanted
      <3>3. Supported(acked, link, call_memo, k, tc, tr, wanted)
        <4>1. ASSUME NEW u \in acked, u.key = k, u.value = v, LastOf(acked, link, call_memo, u)
              PROVE  Supported(acked, link, call_memo, k, tc, tr, wanted)
          <5>1. u.ts_call < tr /\ \A w \in acked : w.cli = u.cli /\ w.key = k => ~(w.ts_call > u.ts_resp)
            BY <1>1, <4>1 DEF LastOf
          <5>2. Admissible(acked, k, tc, tr, wanted)
            BY <3>1, <4>1, <5>1 DEF Admissible
          <5> QED BY <5>2 DEF Supported
        <4>2. ASSUME NEW d \in Clients, TookEffect(link, call_memo, d, k, {v})
              PROVE  Supported(acked, link, call_memo, k, tc, tr, wanted)
          <5>1. TookEffect(link, call_memo, d, k, wanted) /\ call_memo[d].ts < tr
            BY <1>1, <3>1, <4>2 DEF TookEffect
          <5> QED BY <5>1 DEF Supported
        <4> QED BY <3>2, <4>1, <4>2 DEF Written
      <3> HIDE DEF tr
      <3>4. Supported(acked', link', call_memo', k, tc, tr, wanted)
        BY <1>1, <1>9, <2>5, <3>3, SupportKept
      <3> QED BY <3>4 DEF wanted
    <2> HIDE DEF e, tr
    <2>7. Backed(acked', link', call_memo', e)
      BY <2>3, <2>4, <2>6 DEF Backed
    <2> QED BY <2>7 DEF e
  <1>11. RepliesBacked'
    <2> SUFFICES ASSUME NEW x \in Clients, link'[x].st = "replied", x # c
                 PROVE  Backed(acked', link', call_memo', Coming(link', call_memo', timestamp', x))
      BY <1>10 DEF RepliesBacked
    <2>1. link'[x] = link[x] /\ call_memo'[x] = call_memo[x] /\ timestamp <= timestamp'
      BY <1>1, <1>4, <1>6
    <2> QED BY <1>9, <2>1, KeepReply
  <1>12. QueueBacked'
    BY <1>4, <1>9, KeepQueue DEF QueueBacked
  <1>13. StoreWritten'
    <2> SUFFICES ASSUME NEW k \in Pool PROVE Written(acked, link', call_memo, k, store'[k])
      BY <1>4 DEF StoreWritten
    <2>0. k \in Keys
      BY PoolAssumption DEF Pool
    <2> DEFINE v == store'[k]
    <2>1. CASE call.op \in {"Put", "Swap", "Delete"} /\ call.key = k /\ store' = StoreAfter(call, store)
      <3> DEFINE u == [key |-> k, value |-> v]
      <3>1. v = IF call.op = "Delete" THEN Null ELSE call.value
        BY <2>0, <2>1 DEF StoreAfter
      <3>2. u \in Update
        BY <1>3, <2>0 DEF Update, Stores
      <3>3. u \in update_info(call)
        BY <2>1, <3>1, <3>2 DEF update_info
      <3>4. TookEffect(link', call_memo, c, k, {v})
        BY <1>6, <1>7, <3>3 DEF TookEffect
      <3> QED BY <3>4 DEF Written
    <2>2. CASE ~(call.op \in {"Put", "Swap", "Delete"} /\ call.key = k /\ store' = StoreAfter(call, store))
      <3>1. v = store[k]
        BY <1>4, <2>0, <2>2 DEF StoreAfter
      <3>2. Written(acked, link, call_memo, k, v) /\ acked \subseteq Acked
        BY <3>1 DEF LinInv, StoreWritten, IndInv, TypeOK
      <3>3. \A d \in Clients : TookEffect(link, call_memo, d, k, {v}) => TookEffect(link', call_memo, d, k, {v})
        BY <1>4, <1>8
      <3>4. \A d \in Clients : Replacing(link', call_memo, d, k) => Replacing(link, call_memo, d, k)
        <4> SUFFICES ASSUME Replacing(link', call_memo, c, k) PROVE FALSE
          BY <1>6 DEF Replacing
        <4>1. link'[c].st = "replied" /\ \E x \in update_info(call) : x.key = k
          BY <1>7 DEF Replacing
        <4>2. store' = StoreAfter(call, store)
          BY <1>5, <1>6, <4>1
        <4>3. call.op \in {"Put", "Swap", "Delete"} /\ call.key = k
          BY <4>1 DEF update_info
        <4> QED BY <2>2, <4>2, <4>3
      <3> HIDE DEF v
      <3>5. Written(acked, link', call_memo, k, v)
        BY <3>2, <3>3, <3>4, KeepWritten
      <3> QED BY <3>5 DEF v
    <2> QED BY <2>1, <2>2
  <1>14. CallsKnown' /\ OneUpdate'
    BY <1>4, <1>6 DEF LinInv, CallsKnown, OneUpdate
  <1> QED BY <1>3, <1>4, <1>11, <1>12, <1>13, <1>14 DEF LinInv, NoFalseAlarm

------------------------------------------------------------------------------
\* A harvested response is backed with the stamp it gets.
LEMMA NewEntryBacked ==
    ASSUME IndInv, LinInv, NEW c \in Clients, TakeResponse(c)
    PROVE  /\ Backed(acked, link, call_memo, NewEntry(c))
           /\ NewEntry(c).ts_call \in Nat /\ NewEntry(c).ts_call <= timestamp
           /\ NewEntry(c).ts_resp = timestamp
  <1> DEFINE e  == Coming(link, call_memo, timestamp, c)
             e2 == NewEntry(c)
  <1>1. link[c].st = "replied" /\ waiting # {}
    BY DEF TakeResponse
  <1>2. /\ timestamp \in Nat /\ call_memo \in [Clients -> Memo]
        /\ \A w \in acked : w.ts_call \in Nat /\ w.ts_call < timestamp
        /\ \A d \in Clients : call_memo[d].ts \in Nat /\ call_memo[d].ts < timestamp
    BY <1>1, LinFacts
  <1>3. /\ e.ts_call = call_memo[c].ts /\ e.ts_resp = timestamp + 1 /\ e.resp = link[c].resp
        /\ e2.ts_call = call_memo[c].ts /\ e2.ts_resp = timestamp /\ e2.resp = link[c].resp
    BY DEF Coming, NewEntry
  <1>4. Backed(acked, link, call_memo, e)
    BY <1>1 DEF LinInv, RepliesBacked
  <1> HIDE DEF e, e2
  <1>5. e.ts_resp \in Nat /\ e2.ts_resp \in Nat /\ e2.resp = e.resp /\ e2.ts_call = e.ts_call
    BY <1>2, <1>3
  <1>6. Backed(acked, link, call_memo, e2)
    BY <1>2, <1>3, <1>4, <1>5, BackedLater
  <1>7. e2.ts_call \in Nat /\ e2.ts_call <= timestamp
    BY <1>2, <1>3
  <1> QED BY <1>3, <1>6, <1>7 DEF e2

\* What all harvests share, given how the history grew.
LEMMA HarvestLin ==
    ASSUME IndInv, IndInv', LinInv, Tally, NEW c \in Clients, TakeResponse(c), UNCHANGED store,
           Grows(acked, link, call_memo, acked', link', call_memo', timestamp)
    PROVE  /\ RepliesBacked' /\ CallsKnown' /\ OneUpdate' /\ store' \in Stores
           /\ \A i \in 1..Len(Enqueued(c)) : Backed(acked', link', call_memo', Enqueued(c)[i])
  <1> DEFINE q == Enqueued(c)
  <1>1. /\ link[c].st = "replied" /\ timestamp' = timestamp
        /\ link' = [link EXCEPT ![c] = Idle] /\ call_memo' = [call_memo EXCEPT ![c] = EmptyMemo]
    BY DEF TakeResponse
  <1>2. timestamp \in Nat /\ call_memo \in [Clients -> Memo] /\ link \in [Clients -> Link]
    BY LinFacts
  <1>3. /\ link'[c] = Idle /\ call_memo'[c] = EmptyMemo
        /\ \A x \in Clients : x # c => link'[x] = link[x] /\ call_memo'[x] = call_memo[x]
    BY <1>1, <1>2
  <1>4. RepliesBacked'
    <2> SUFFICES ASSUME NEW x \in Clients, link'[x].st = "replied"
                 PROVE  Backed(acked', link', call_memo', Coming(link', call_memo', timestamp', x))
      BY DEF RepliesBacked
    <2>1. x # c
      BY <1>3 DEF Idle
    <2>2. link'[x] = link[x] /\ call_memo'[x] = call_memo[x] /\ timestamp <= timestamp'
      BY <1>1, <1>2, <1>3, <2>1
    <2> QED BY <2>2, KeepReply
  <1>5. CallsKnown' /\ OneUpdate'
    BY <1>3 DEF LinInv, CallsKnown, OneUpdate, Idle, EmptyMemo
  <1>6. /\ Len(q) \in Nat /\ Len(q) = Len(queue) + 1 /\ Len(queue) \in Nat
        /\ (\A i \in 1..Len(queue) : q[i] = queue[i]) /\ q[Len(q)] = NewEntry(c)
    BY ArrivalFacts
  <1>7. \A i \in 1..Len(queue) : Backed(acked', link', call_memo', queue[i])
    BY KeepQueue
  <1>8. Backed(acked', link', call_memo', NewEntry(c))
    <2> DEFINE e == NewEntry(c)
    <2>1. Backed(acked, link, call_memo, e) /\ e.ts_call \in Nat /\ e.ts_call <= timestamp /\ e.ts_resp = timestamp
      BY NewEntryBacked
    <2> HIDE DEF e
    <2>2. e.ts_resp \in Nat
      BY <1>2, <2>1
    <2>3. Backed(acked', link', call_memo', e)
      BY <1>2, <2>1, <2>2, BackedKept
    <2> QED BY <2>3 DEF e
  <1> HIDE DEF q
  <1>9. \A i \in 1..Len(q) : i \in 1..Len(queue) \/ i = Len(q)
    <2>1. Len(queue) \in Nat /\ Len(q) = Len(queue) + 1
      BY <1>6
    <2> QED BY <2>1
  <1>10. \A i \in 1..Len(q) : Backed(acked', link', call_memo', q[i])
    BY <1>6, <1>7, <1>8, <1>9
  <1>11. store' \in Stores
    BY DEF LinInv
  <1> QED BY <1>4, <1>5, <1>10, <1>11 DEF q

LEMMA HarvestReadLin ==
    ASSUME IndInv, IndInv', LinInv, Tally, NEW c \in Clients, HarvestRead(c), UNCHANGED store
    PROVE  LinInv'
  <1>1. /\ TakeResponse(c) /\ EndOp(c) /\ queue' = Enqueued(c) /\ UNCHANGED acked
        /\ call_memo[c].upd = {}
    BY DEF HarvestRead
  <1>2. /\ timestamp \in Nat /\ call_memo \in [Clients -> Memo] /\ link \in [Clients -> Link]
        /\ \A w \in acked : w.ts_call \in Nat /\ w.ts_resp \in Nat /\ w.ts_call <= timestamp
    BY LinFacts
  <1>3. /\ link'[c] = Idle /\ call_memo'[c] = EmptyMemo
        /\ \A x \in Clients : x # c => link'[x] = link[x] /\ call_memo'[x] = call_memo[x]
    BY <1>1, <1>2 DEF TakeResponse
  <1>4. \A d \in Clients : \A k, wanted : TookEffect(link, call_memo, d, k, wanted) =>
            /\ TookEffect(link', call_memo', d, k, wanted)
            /\ call_memo'[d].ts = call_memo[d].ts
    BY <1>1, <1>3 DEF TookEffect
  <1>5. Grows(acked, link, call_memo, acked', link', call_memo', timestamp)
    BY <1>1, <1>2, <1>4 DEF Grows
  <1>6. /\ RepliesBacked' /\ CallsKnown' /\ OneUpdate' /\ store' \in Stores
        /\ \A i \in 1..Len(queue') : Backed(acked', link', call_memo', queue'[i])
    BY <1>1, <1>5, HarvestLin
  <1>7. StoreWritten'
    <2> SUFFICES ASSUME NEW k \in Pool PROVE Written(acked, link', call_memo', k, store[k])
      BY <1>1 DEF StoreWritten
    <2> DEFINE v == store[k]
    <2>1. Written(acked, link, call_memo, k, v) /\ acked \subseteq Acked
      BY DEF LinInv, StoreWritten, IndInv, TypeOK
    <2> HIDE DEF v
    <2>2. \A d \in Clients : TookEffect(link, call_memo, d, k, {v}) => TookEffect(link', call_memo', d, k, {v})
      BY <1>4
    <2>3. \A d \in Clients : Replacing(link', call_memo', d, k) => Replacing(link, call_memo, d, k)
      BY <1>3 DEF Replacing, Idle
    <2>4. Written(acked, link', call_memo', k, v)
      BY <2>1, <2>2, <2>3, KeepWritten
    <2> QED BY <2>4 DEF v
  <1>8. NoFalseAlarm'
    BY <1>1 DEF EndOp, NoFalseAlarm
  <1> QED BY <1>6, <1>7, <1>8 DEF LinInv, QueueBacked

(***************************************************************************)
(* The harvest of an update turns an update in effect into an acknowledged *)
(* one.  A response it pops is older than every call still on the fly, so  *)
(* it is backed by acknowledged updates alone and passes its check.        *)
(***************************************************************************)
LEMMA HarvestUpdateLin ==
    ASSUME IndInv, IndInv', LinksTied, Tally, LinInv, NEW c \in Clients, HarvestUpdate(c),
           UNCHANGED store
    PROVE  LinInv'
  <1> DEFINE q == Enqueued(c)
             tc == call_memo[c].ts
  <1>1. TakeResponse(c) /\ outcome = "running" /\ link[c].st = "replied"
    BY DEF HarvestUpdate, TakeResponse
  <1>2. /\ Bookkeeping /\ timestamp \in Nat /\ call_memo \in [Clients -> Memo]
        /\ link \in [Clients -> Link]
        /\ \A w \in acked : w.ts_call \in Nat /\ w.ts_resp \in Nat /\ w.ts_call <= timestamp
        /\ tc \in Nat /\ tc <= timestamp
    BY LinFacts
  <1>3. PICK n \in Nat, failed \in BOOLEAN, u \in call_memo[c].upd :
          /\ Pops(c, q, n, failed)
          /\ maxtr' = [maxtr EXCEPT ![c] = timestamp]
          /\ \A i \in 1..n : BeforeComing(q[i].ts_resp, maxtr')
          /\ acked' = acked \cup { [cli |-> c, key |-> u.key, value |-> u.value,
                                    ts_call |-> tc, ts_resp |-> timestamp] }
    BY UpdatePops
  <1> DEFINE r == [cli |-> c, key |-> u.key, value |-> u.value, ts_call |-> tc, ts_resp |-> timestamp]
  <1>4. /\ acked' = acked \cup {r} /\ r \in acked' /\ r.cli = c /\ r.key = u.key /\ r.value = u.value
        /\ r.ts_call = tc /\ r.ts_resp = timestamp
    BY <1>3
  <1>5. \A x \in call_memo[c].upd : x = u
    BY <1>3 DEF LinInv, OneUpdate
  <1>6. /\ link'[c] = Idle /\ call_memo'[c] = EmptyMemo
        /\ \A x \in Clients : x # c => link'[x] = link[x] /\ call_memo'[x] = call_memo[x]
    BY <1>1, <1>2 DEF TakeResponse
  <1> HIDE DEF q, tc, r
  <1>7. \A d \in Clients : \A k, v : TookEffect(link, call_memo, d, k, {v}) /\ d # c =>
            /\ TookEffect(link', call_memo', d, k, {v})
            /\ call_memo'[d].ts = call_memo[d].ts
    BY <1>6 DEF TookEffect
  <1>8. \A k, v : TookEffect(link, call_memo, c, k, {v}) => k = u.key /\ v = u.value
    BY <1>5 DEF TookEffect
  <1>9. Grows(acked, link, call_memo, acked', link', call_memo', timestamp)
    <2>1. \A w \in acked' : w \in acked \/ w = r
      BY <1>4
    <2>2. \A w \in acked' : w \in acked \/ w.ts_resp = timestamp
      BY <1>4, <2>1
    <2>3. \A w \in acked' : w.ts_call \in Nat /\ w.ts_resp \in Nat /\ w.ts_call <= timestamp
      BY <1>2, <1>4, <2>1
    <2>4. ASSUME NEW d \in Clients, NEW k \in Keys, NEW v \in OptValues,
                 TookEffect(link, call_memo, d, k, {v})
          PROVE  \/ TookEffect(link', call_memo', d, k, {v}) /\ call_memo'[d].ts = call_memo[d].ts
                 \/ \E z \in acked' : /\ z.cli = d /\ z.key = k /\ z.value = v
                                      /\ z.ts_call = call_memo[d].ts /\ z.ts_resp = timestamp
      <3>1. CASE d # c
        BY <1>7, <2>4, <3>1
      <3>2. CASE d = c
        BY <1>4, <1>8, <2>4, <3>2 DEF tc
      <3> QED BY <3>1, <3>2
    <2> QED BY <1>4, <2>2, <2>3, <2>4 DEF Grows
  <1>10. /\ RepliesBacked' /\ CallsKnown' /\ OneUpdate' /\ store' \in Stores
         /\ \A i \in 1..Len(q) : Backed(acked', link', call_memo', q[i])
    BY <1>1, <1>9, HarvestLin DEF q
  <1>11. /\ Len(q) \in Nat /\ \A i \in 1..Len(q) : q[i].ts_resp \in Nat
    BY <1>1, ArrivalFacts DEF q
  <1>12. /\ n \in 0..Len(q) /\ (failed => n \in 1..Len(q))
         /\ Len(queue') = Len(q) - n /\ \A i \in 1..Len(queue') : queue'[i] = q[n + i]
         /\ decided' = Decide(q, n, failed)
         /\ IF failed THEN BreakOut("violation") ELSE EndOp(c)
    BY <1>3 DEF Pops
  <1>13. ASSUME NEW i \in 1..n PROVE Permitted(acked', q[i])
    <2>1. i \in 1..Len(q)
      BY <1>11, <1>12
    <2>2. WellPut(q[i].resp) /\ \A k \in KeysOf(q[i].resp, Pool) :
             Supported(acked', link', call_memo', k, q[i].ts_call, q[i].ts_resp, Claim(q[i].resp, k))
      BY <1>10, <2>1 DEF Backed
    <2>3. ASSUME NEW d \in Clients, NEW k, NEW wanted, TookEffect(link', call_memo', d, k, wanted),
                 call_memo'[d].ts < q[i].ts_resp
          PROVE  FALSE
      <3>1. d # c
        BY <1>6, <2>3 DEF TookEffect, Idle
      <3>2. link[d].st \in {"replied", "dead"} /\ call_memo'[d] = call_memo[d]
        BY <1>6, <2>3, <3>1 DEF TookEffect
      <3>3. flying[d]
        BY <1>1, <3>2 DEF LinksTied, Idle
      <3>4. maxtr \in [Clients -> Nat] /\ maxtr' = [maxtr EXCEPT ![c] = timestamp]
        BY <1>3 DEF IndInv, TypeOK
      <3>5. maxtr[d] < call_memo[d].ts /\ q[i].ts_resp < maxtr[d]
        BY <1>2, <1>3, <3>1, <3>3, <3>4 DEF Bookkeeping, Stamps, BeforeComing
      <3>6. maxtr[d] \in Nat /\ call_memo[d].ts \in Nat /\ q[i].ts_resp \in Nat
        BY <1>2, <1>11, <2>1, <3>4 DEF Memo
      <3> QED BY <2>3, <3>2, <3>5, <3>6
    <2>4. \A k \in KeysOf(q[i].resp, Pool) :
             Admissible(acked', k, q[i].ts_call, q[i].ts_resp, Claim(q[i].resp, k))
      BY <2>2, <2>3 DEF Supported
    <2> QED BY <2>2, <2>4 DEF Permitted, WellPut
  <1>14. ~failed
    <2> SUFFICES ASSUME failed PROVE FALSE
      OBVIOUS
    <2> DEFINE d == [entry |-> q[n], ok |-> ~(failed /\ n = n)]
    <2>1. n \in 1..n
      BY <1>11, <1>12
    <2>2. d \in decided'
      BY <1>12, <2>1 DEF Decide
    <2>3. d.entry = q[n] /\ ~d.ok
      OBVIOUS
    <2>4. \A x \in decided' : x.ok <=> Permitted(acked', x.entry)
      BY DEF IndInv, VerdictsFinal
    <2> HIDE DEF d
    <2> QED BY <1>13, <2>1, <2>2, <2>3, <2>4
  <1>15. NoFalseAlarm'
    BY <1>12, <1>14 DEF EndOp, NoFalseAlarm
  <1>16. QueueBacked'
    <2> SUFFICES ASSUME NEW i \in 1..Len(queue') PROVE Backed(acked', link', call_memo', queue'[i])
      BY DEF QueueBacked
    <2>1. n + i \in 1..Len(q) /\ queue'[i] = q[n + i]
      BY <1>11, <1>12
    <2> QED BY <1>10, <2>1
  <1>17. StoreWritten'
    <2> SUFFICES ASSUME NEW k \in Pool PROVE Written(acked', link', call_memo', k, store[k])
      BY DEF StoreWritten
    <2> DEFINE v == store[k]
    <2>1. Written(acked, link, call_memo, k, v) /\ acked \subseteq Acked
      BY DEF LinInv, StoreWritten, IndInv, TypeOK
    <2> HIDE DEF v
    <2>2. ASSUME NEW d \in Clients, TookEffect(link, call_memo, d, k, {v}), d # c
          PROVE  Written(acked', link', call_memo', k, v)
      BY <1>7, <2>2 DEF Written
    <2>3. ASSUME TookEffect(link, call_memo, c, k, {v})
          PROVE  Written(acked', link', call_memo', k, v)
      <3>1. r.key = k /\ r.value = v
        BY <1>4, <1>8, <2>3
      <3>2. \A w \in acked' : ~(w.ts_call > r.ts_resp)
        BY <1>2, <1>4, <1>9 DEF Grows
      <3>3. ~Replacing(link', call_memo', r.cli, r.key)
        BY <1>4, <1>6 DEF Replacing, Idle
      <3> QED BY <1>4, <3>1, <3>2, <3>3 DEF Written, LastOf
    <2>4. ASSUME NEW z \in acked, z.key = k, z.value = v, LastOf(acked, link, call_memo, z)
          PROVE  Written(acked', link', call_memo', k, v)
      <3>1. z.cli \in Clients
        BY <2>1 DEF Acked
      <3>2. ~(r.cli = z.cli /\ r.key = z.key)
        BY <1>1, <1>3, <1>4, <2>4 DEF LastOf, Replacing
      <3>3. \A w \in acked' : w.cli = z.cli /\ w.key = z.key => ~(w.ts_call > z.ts_resp)
        BY <1>4, <2>4, <3>2 DEF LastOf
      <3>4. ~Replacing(link', call_memo', z.cli, z.key)
        BY <1>6, <2>4, <3>1 DEF LastOf, Replacing, Idle
      <3> QED BY <1>4, <2>4, <3>3, <3>4 DEF Written, LastOf
    <2>5. Written(acked', link', call_memo', k, v)
      BY <2>1, <2>2, <2>3, <2>4 DEF Written
    <2> QED BY <2>5 DEF v
  <1> QED BY <1>10, <1>15, <1>16, <1>17 DEF LinInv

------------------------------------------------------------------------------
LEMMA LinStep ==
    ASSUME IndInv, IndInv', LinksTied, Tally, LinInv, [LNext]_lvars
    PROVE  LinInv'
  <1>0. /\ link \in [Clients -> Link] /\ timestamp \in Nat
        /\ outcome \notin {"violation", "bad_key", "stop_resp"}
    BY LinFacts DEF LinInv, NoFalseAlarm
  <1>1. ASSUME NEW c \in Clients, Serve(c) \/ ClientDies(c) PROVE LinInv'
    BY <1>1, ServeLin
  <1>2. ASSUME NEW c \in Clients, Call(c), UNCHANGED store PROVE LinInv'
    BY <1>2, CallLin
  <1>3. ASSUME NEW c \in Clients, HarvestRead(c), UNCHANGED store PROVE LinInv'
    BY <1>3, HarvestReadLin
  <1>4. ASSUME NEW c \in Clients, HarvestUpdate(c), UNCHANGED store PROVE LinInv'
    BY <1>4, HarvestUpdateLin
  <1>5. ASSUME NEW c \in Clients, HarvestStop(c) PROVE FALSE
    <2>1. link[c].st = "replied" /\ link[c].resp.op = "Stop"
      BY <1>5 DEF HarvestStop
    <2>2. WellPut(link[c].resp)
      BY <2>1 DEF LinInv, RepliesBacked, Backed, Coming
    <2> QED BY <2>1, <2>2 DEF WellPut
  <1>6. ASSUME NEW c \in Clients, BeginWait(c), UNCHANGED store PROVE LinInv'
    <2>1. UNCHANGED <<call_memo, acked, queue, store, link, outcome>> /\ timestamp' = timestamp + 1
      BY <1>6 DEF BeginWait, hvars
    <2>2. timestamp <= timestamp' /\ NoFalseAlarm'
      BY <1>0, <2>1 DEF NoFalseAlarm
    <2> QED BY <2>1, <2>2, QuietLin
  <1>7. ASSUME NEW c \in Clients, HarvestErr(c) \/ StopErr(c), UNCHANGED store PROVE LinInv'
    <2>1. UNCHANGED <<call_memo, acked, queue, store, link, timestamp>> /\ outcome' = "error"
      BY <1>7 DEF HarvestErr, StopErr, hvars
    <2>2. timestamp <= timestamp' /\ NoFalseAlarm'
      BY <1>0, <2>1 DEF NoFalseAlarm
    <2> QED BY <2>1, <2>2, QuietLin
  <1>8. ASSUME NEW c \in Clients, StopClient(c), UNCHANGED store PROVE LinInv'
    <2>1. /\ UNCHANGED <<call_memo, acked, queue, store, timestamp, outcome>>
          /\ link' = [link EXCEPT ![c] = [st |-> "stopped"]] /\ link[c] = Idle
      BY <1>8 DEF StopClient, hvars
    <2>2. timestamp <= timestamp' /\ NoFalseAlarm'
      BY <1>0, <2>1 DEF NoFalseAlarm
    <2>3. \A x \in Clients : \/ link'[x] = link[x]
                             \/ /\ link[x].st \notin {"replied", "dead"}
                                /\ link'[x].st \notin {"called", "replied"}
      BY <1>0, <2>1 DEF Idle
    <2> QED BY <2>1, <2>2, <2>3, QuietLin
  <1>9. ASSUME Report, UNCHANGED store PROVE LinInv'
    <2>1. UNCHANGED <<call_memo, acked, queue, store, link, timestamp>> /\ outcome' \in {"UNFAIR", "PASSED"}
      BY <1>9 DEF Report, hvars
    <2>2. timestamp <= timestamp' /\ NoFalseAlarm'
      BY <1>0, <2>1 DEF NoFalseAlarm
    <2> QED BY <2>1, <2>2, QuietLin
  <1>10. ASSUME (Done /\ UNCHANGED store) \/ UNCHANGED lvars PROVE LinInv'
    <2>1. UNCHANGED <<call_memo, acked, queue, store, link, timestamp, outcome>>
      BY <1>10 DEF Done, lvars, vars, hvars
    <2>2. timestamp <= timestamp' /\ NoFalseAlarm'
      BY <1>0, <2>1 DEF NoFalseAlarm
    <2> QED BY <2>1, <2>2, QuietLin
  <1> QED BY <1>1, <1>2, <1>3, <1>4, <1>5, <1>6, <1>7, <1>8, <1>9, <1>10
          DEF LNext, FuzzerStep, Harvest

LEMMA InitLin == LInit => LinInv
  <1> SUFFICES ASSUME LInit PROVE LinInv
    OBVIOUS
  <1>1. /\ link = [c \in Clients |-> Idle] /\ call_memo = [c \in Clients |-> EmptyMemo]
        /\ queue = <<>> /\ outcome \in {"running", "stopping"} /\ store = [k \in Keys |-> Null]
        /\ acked = [cli : Clients, key : Pool, ts_call : {0}, ts_resp : {0}, value : {Null}]
    BY DEF LInit, Init
  <1>2. CallsKnown /\ OneUpdate /\ RepliesBacked /\ NoFalseAlarm
    BY <1>1 DEF CallsKnown, OneUpdate, RepliesBacked, NoFalseAlarm, Idle, EmptyMemo
  <1>3. QueueBacked
    <2>1. Len(queue) = 0
      BY <1>1
    <2> QED BY <2>1 DEF QueueBacked
  <1>4. StoreWritten
    <2> SUFFICES ASSUME NEW k \in Pool PROVE Written(acked, link, call_memo, k, store[k])
      BY DEF StoreWritten
    <2>1. PICK c \in Clients : TRUE
      BY ClientsAssumption
    <2> DEFINE u == [cli |-> c, key |-> k, ts_call |-> 0, ts_resp |-> 0, value |-> Null]
    <2>2. u \in acked /\ u.cli = c /\ u.key = k /\ u.value = Null /\ u.ts_resp = 0
      BY <1>1
    <2>3. k \in Keys /\ store[k] = Null
      BY <1>1, PoolAssumption DEF Pool
    <2>4. \A w \in acked : ~(w.ts_call > 0)
      BY <1>1
    <2>5. ~Replacing(link, call_memo, c, k)
      BY <1>1 DEF Replacing, Idle
    <2> HIDE DEF u
    <2>6. LastOf(acked, link, call_memo, u)
      BY <2>2, <2>4, <2>5 DEF LastOf
    <2> QED BY <2>2, <2>3, <2>6 DEF Written
  <1> QED BY <1>2, <1>3, <1>4, InitStore DEF LinInv

(***************************************************************************)
(* Whatever the interleaving of calls, responses and deaths of clients,    *)
(* fuzz_test never reports a linearizable service as inconsistent.         *)
(***************************************************************************)
THEOREM NeverAFalseAlarm == LSpec => []NoFalseAlarm
  <1>1. LInit => IndInv /\ LinksTied /\ Tally /\ LinInv
    <2>1. LInit => Init
      BY DEF LInit
    <2>2. Init => LinksTied
      BY DEF Init, LinksTied, Idle
    <2> QED BY <2>1, <2>2, InitInd, InitTally, InitLin
  <1>2. IndInv /\ LinksTied /\ Tally /\ LinInv /\ [LNext]_lvars
          => IndInv' /\ LinksTied' /\ Tally' /\ LinInv'
    <2> SUFFICES ASSUME IndInv, LinksTied, Tally, LinInv, [LNext]_lvars
                 PROVE  IndInv' /\ LinksTied' /\ Tally' /\ LinInv'
      OBVIOUS
    <2>1. [Next]_vars
      BY LNextIsNext DEF IndInv, TypeOK, LinInv
    <2>2. IndInv' /\ LinksTied' /\ Tally'
      BY <2>1, Inductive, LinksStep, TallyStep
    <2> QED BY <2>2, LinStep
  <1>3. LinInv => NoFalseAlarm
    BY DEF LinInv
  <1> QED BY <1>1, <1>2, <1>3, PTL DEF LSpec
==============================================================================
