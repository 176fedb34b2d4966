---------------------------- MODULE ObjPoolProofs -----------------------------
(***************************************************************************)
(* The object pool and its monitor, for any number of clients, keys and    *)
(* requests: the types, the monitor's assertion, and that the monitor's    *)
(* pool catches up with the service's.                                     *)
(*                                                                         *)
(* The monitor's graph is a chain, which its assertion accepts.            *)
(*                                                                         *)
(* All values written are 0 (numVals), so a key of the service's pool that *)
(* was ever written stays 0, and the order of announcements cannot matter: *)
(* where the monitor's pool differs, a write of that key is still to be    *)
(* announced.                                                              *)
(***************************************************************************)
EXTENDS ObjPool, SequenceTheorems, WellFoundedInduction, TLAPS

\* Requests and responses on their way: stamped by now, and of value 0.
Due(now) == { r \in Request : r.op.val = 0 /\ r.tsReq <= now }

AnyNode == Node \cup Dummy

MonitorPool == history[Len(history)].pool

\* A response to a write of the key is on its way to a client.
WriteComing(k) ==
    \E c \in Clients : \E i \in 1..Len(replies[c]) :
        replies[c][i].op.typ = "WRITE" /\ replies[c][i].op.key = k

\* The queues and the history hold what was stamped by now.
Stamped ==
    /\ inbox \in Seq(Due(clock))
    /\ replies \in [Clients -> Seq(Due(clock))]
    /\ \A i \in 1..Len(history) : history[i].tsReq <= clock

\* A client that waits has a request to count off.
OneLeft == \A c \in Clients : cstate[c] = "waiting" => numReqs[c] # 0

\* A write that was served has left a 0, and where the monitor differs from the
\* service it has a write still to see.
Behind ==
    \A k \in Keys : /\ WriteComing(k) => pool[k] = 0
                    /\ WriteComing(k) \/ MonitorPool[k] = pool[k]

\* One edge from each node to the next, pools that follow from one another, and
\* no node over before one ahead of it began.
OneEdge(h, i) == h[i].next = IF i = Len(h) THEN {} ELSE {i + 1}
PoolFollows(h, i) == h[i].pool = ApplyOpToPool(h[i].op, h[i - 1].pool)
Chained(h) ==
    /\ \A i \in 1..Len(h) : OneEdge(h, i)
    /\ \A i \in 1..Len(h) : i # 1 => PoolFollows(h, i)
    /\ \A i, j \in 1..Len(h) : i < j => h[i].tsReq <= h[j].tsResp

PoolInv == TypeOK /\ Stamped /\ OneLeft /\ Chained(history) /\ Behind

------------------------------------------------------------------------------
(***************************************************************************)
(* Sequences, stamps and operations.                                       *)
(***************************************************************************)
\* What was stamped by now was stamped by any later time.
LEMMA StillStamped ==
    ASSUME NEW now \in Nat, NEW later \in Nat, now <= later
    PROVE  Due(now) \subseteq Due(later)
<1>1. ASSUME NEW r \in Due(now) PROVE r \in Due(later)
  <2>1. r \in Request /\ r.op.val = 0 /\ r.tsReq \in Nat /\ r.tsReq <= now
      BY DEF Due, Request
  <2> QED
      BY <2>1 DEF Due
<1> QED
    BY <1>1

\* An operation of value 0 sets a key to 0 or leaves the pool alone.
LEMMA ApplyZero ==
    ASSUME NEW op \in Operation, op.val = 0, NEW p \in Pools
    PROVE  /\ ApplyOpToPool(op, p) \in Pools
           /\ \A k \in Keys : ApplyOpToPool(op, p)[k] =
                IF op.typ = "WRITE" /\ op.key = k THEN 0 ELSE p[k]
<1>1. op.typ \in OpTypes /\ op.key \in Keys
    BY DEF Operation
<1>2. CASE op.typ = "READ"
    BY <1>2 DEF ApplyOpToPool
<1>3. CASE op.typ = "WRITE"
    BY <1>1, <1>3 DEF ApplyOpToPool, Pools
<1>4. CASE op.typ = "RADDW"
  <2>1. p[op.key] \in Nat /\ p[op.key] + 0 = p[op.key]
      BY <1>1 DEF Pools
  <2>2. ApplyOpToPool(op, p) = [p EXCEPT ![op.key] = p[op.key] + 0]
      BY <1>4 DEF ApplyOpToPool
  <2> QED
      BY <1>1, <1>4, <2>1, <2>2 DEF Pools
<1> QED
    BY <1>1, <1>2, <1>3, <1>4 DEF OpTypes

\* What is known of the nodes of the history.
LEMMA NodeType ==
    ASSUME NEW n \in AnyNode
    PROVE  /\ n.tsReq \in Nat /\ n.tsResp \in Nat /\ n.pool \in Pools
           /\ n.next \in SUBSET Nat
    BY DEF AnyNode, Node, Dummy

LEMMA MonitorType ==
    ASSUME TypeOK
    PROVE  /\ Len(history) \in Nat \ {0} /\ MonitorPool \in Pools
           /\ \A i \in 1..Len(history) : history[i] \in AnyNode
<1>1. history \in Seq(AnyNode) /\ history # <<>>
    BY DEF TypeOK, AnyNode
<1>2. Len(history) \in Nat \ {0}
    BY <1>1, EmptySeq, LenProperties
<1>3. \A i \in 1..Len(history) : history[i] \in AnyNode
    BY <1>1, ElementOfSeq
<1>4. Len(history) \in 1..Len(history)
    BY <1>2
<1> QED
    BY <1>2, <1>3, <1>4, NodeType DEF MonitorPool

------------------------------------------------------------------------------
(***************************************************************************)
(* Chains.  On a chain a node reaches just those behind it, so it passes   *)
(* every test of AssertLinearizability; and AppendResponse keeps a chain.  *)
(***************************************************************************)
\* A set that has a number and, up to a bound, with each number the next.
LEMMA Upward ==
    ASSUME NEW a \in Nat, NEW b \in Nat, NEW T, a \in T,
           \A k \in Nat : k >= a /\ k < b /\ k \in T => k + 1 \in T
    PROVE  \A k \in a..b : k \in T
<1> DEFINE S == { k \in Nat : k >= a /\ k <= b /\ k \notin T }
           R == OpToRel(<, Nat)
<1>1. SUFFICES ASSUME S # {} PROVE FALSE
    OBVIOUS
<1>2. IsWellFoundedOn(R, Nat) /\ S \subseteq Nat
    BY NatLessThanWellFounded
<1>3. \E x \in S : \A y \in S : ~(<<y, x>> \in R)
  <2> HIDE DEF R, S
  <2> QED
      BY <1>1, <1>2, WFMin
<1>4. PICK x \in S : \A y \in S : ~(<<y, x>> \in R)
    BY <1>3
<1>5. \A y \in S : ~(y < x)
    BY <1>4 DEF OpToRel
<1>6. x \in Nat /\ x > a /\ x <= b /\ x \notin T
  <2>1. x \in Nat /\ x >= a /\ x <= b /\ x \notin T
      BY <1>4
  <2>2. x # a
      BY <2>1
  <2> QED
      BY <2>1, <2>2
<1>7. x - 1 \in Nat /\ x - 1 < x /\ x - 1 >= a /\ x - 1 < b
    BY <1>6
<1>8. x - 1 \notin S
    BY <1>5, <1>7
<1>9. x - 1 \in T
    BY <1>7, <1>8
<1> QED
    BY <1>6, <1>7, <1>9

\* A position of a chain reaches exactly the later ones.
LEMMA ChainReaches ==
    ASSUME NEW n \in Nat, NEW h, DOMAIN h = 1..n, Len(h) = n,
           \A i \in 1..n : OneEdge(h, i),
           NEW a \in 1..n, NEW b \in 1..n
    PROVE  <<a, b>> \in Reachable(h) <=> a < b
<1>1. <<a, b>> \in Reachable(h) <=> \A S \in Closed(h) : h[a].next \subseteq S => b \in S
    BY DEF Reachable
<1>2. /\ \A i \in 1..n : i = n => h[i].next = {}
      /\ \A i \in 1..n : i # n => h[i].next = {i + 1}
    BY DEF OneEdge
<1>3. ASSUME <<a, b>> \in Reachable(h) PROVE a < b
  <2> DEFINE T == { x \in 1..n : a < x }
  <2>1. ASSUME NEW x \in 1..n, a <= x PROVE h[x].next \subseteq T
    <3>1. CASE x = n
        BY <1>2, <3>1
    <3>2. CASE x # n
      <4>1. h[x].next = {x + 1}
          BY <1>2, <3>2
      <4>2. x + 1 \in T
          BY <2>1, <3>2
      <4> QED
          BY <4>1, <4>2
    <3> QED
        BY <3>1, <3>2
  <2>2. T \in Closed(h)
      BY <2>1 DEF Closed
  <2>3. h[a].next \subseteq T
      BY <2>1
  <2>4. b \in T
    <3> HIDE DEF T
    <3> QED
        BY <1>1, <1>3, <2>2, <2>3
  <2> QED
      BY <2>4
<1>4. ASSUME a < b, NEW S \in Closed(h), h[a].next \subseteq S PROVE b \in S
  <2>1. S \in SUBSET (1..n) /\ \A x \in S : h[x].next \subseteq S
      BY DEF Closed
  <2>2. a + 1 \in S
    <3>1. a # n
        BY <1>4
    <3>2. h[a].next = {a + 1}
        BY <1>2, <3>1
    <3> QED
        BY <1>4, <3>2
  <2>3. ASSUME NEW k \in Nat, k >= a + 1, k < n, k \in S PROVE k + 1 \in S
    <3>1. k \in 1..n /\ k # n
        BY <2>3
    <3>2. h[k].next = {k + 1}
        BY <1>2, <3>1
    <3> QED
        BY <2>1, <2>3, <3>2
  <2>4. \A k \in (a + 1)..n : k \in S
    <3>1. a + 1 \in Nat
        OBVIOUS
    <3> QED
        BY <2>2, <2>3, <3>1, Upward
  <2> QED
      BY <1>4, <2>4
<1> QED
    BY <1>1, <1>3, <1>4

\* Whatever is chained is accepted.
LEMMA ChainAccepted ==
    ASSUME NEW h \in Seq(AnyNode), h # <<>>, Chained(h)
    PROVE  AssertLinearizability(h)
<1> DEFINE n == Len(h)
           r == Reachable(h)
<1>1. n \in Nat \ {0} /\ DOMAIN h = 1..n /\ \A i \in 1..n : h[i] \in AnyNode
    BY EmptySeq, LenProperties, ElementOfSeq
<1>2. /\ \A i \in 1..n : OneEdge(h, i)
      /\ \A i \in 1..n : i # 1 => PoolFollows(h, i)
      /\ \A i, j \in 1..n : i < j => h[i].tsReq <= h[j].tsResp
    BY DEF Chained
<1>3. /\ \A i \in 1..n : i = n => h[i].next = {}
      /\ \A i \in 1..n : i # n => h[i].next = {i + 1}
    BY <1>2 DEF OneEdge
<1>4. \A a, b \in 1..n : <<a, b>> \in r <=> a < b
  <2> TAKE a, b \in 1..n
  <2> QED
      BY <1>1, <1>2, ChainReaches
<1> HIDE DEF r, n
<1>5. WellFormed(h, r)
  <2>1. ASSUME NEW i \in 1..n PROVE h[i].next \subseteq 1..n
    <3>1. CASE i = n
        BY <1>3, <3>1
    <3>2. CASE i # n
      <4>1. h[i].next = {i + 1} /\ i + 1 \in 1..n
          BY <1>1, <1>3, <3>2
      <4> QED
          BY <4>1
    <3> QED
        BY <3>1, <3>2
  <2>2. \A i \in 1..n : <<i, i>> \notin r
      BY <1>4
  <2>3. \A i \in (1..n) \ {1} : <<1, i>> \in r
      BY <1>1, <1>4
  <2> QED
      BY <1>1, <2>1, <2>2, <2>3 DEF WellFormed
<1>6. ASSUME NEW i \in 1..n PROVE ValidTransition(h, i)
  <2>1. CASE i = 1
    <3>1. ASSUME NEW k \in 1..n PROVE 1 \notin h[k].next
      <4>1. CASE k = n
          BY <1>3, <4>1
      <4>2. CASE k # n
        <5>1. h[k].next = {k + 1} /\ k + 1 # 1
            BY <1>1, <1>3, <4>2
        <5> QED
            BY <5>1
      <4> QED
          BY <4>1, <4>2
    <3>2. Parents(h, i) = {}
        BY <1>1, <2>1, <3>1 DEF Parents
    <3> QED
        BY <3>2 DEF ValidTransition
  <2>2. CASE i # 1
    <3>1. i - 1 \in 1..n /\ i - 1 # n /\ (i - 1) + 1 = i
        BY <1>1, <2>2
    <3>2. i \in h[i - 1].next
        BY <1>3, <3>1
    <3>3. i - 1 \in Parents(h, i)
        BY <1>1, <3>1, <3>2 DEF Parents
    <3>4. h[i].pool = ApplyOpToPool(h[i].op, h[i - 1].pool)
        BY <1>2, <2>2 DEF PoolFollows
    <3> QED
        BY <3>3, <3>4 DEF ValidTransition
  <2> QED
      BY <2>1, <2>2
<1>7. \A i \in 1..n : \A x, y \in h[i].next : x = y
    BY <1>3
<1>8. ConvergenceConformity(h, r) = "SO"
    BY <1>1, <1>5, <1>6, <1>7 DEF ConvergenceConformity
<1>9. ConformsToRT(h, r)
  <2> SUFFICES ASSUME NEW na \in 1..n, NEW nb \in 1..n, na # nb, h[na].tsResp < h[nb].tsReq
               PROVE  <<na, nb>> \in r
      BY <1>1 DEF ConformsToRT
  <2>1. h[na].tsResp \in Nat /\ h[nb].tsReq \in Nat
      BY <1>1, NodeType
  <2>2. ~(nb < na)
      BY <1>2, <2>1
  <2>3. na < nb
      BY <2>2
  <2> QED
      BY <1>4, <2>3
<1> QED
    BY <1>8, <1>9 DEF AssertLinearizability, r

\* The edge from the last node leaves everything else of it alone.
LEMMA LastLinked ==
    ASSUME NEW n \in Nat, NEW x \in AnyNode, NEW y, y = [x EXCEPT !.next = x.next \cup {n}]
    PROVE  /\ y \in AnyNode /\ (y \in Dummy <=> x \in Dummy)
           /\ y.next = x.next \cup {n}
           /\ y.tsReq = x.tsReq /\ y.tsResp = x.tsResp /\ y.pool = x.pool
           /\ x \notin Dummy => y.op = x.op
<1>1. x.next \cup {n} \in SUBSET Nat
    BY NodeType
<1>2. CASE x \in Dummy
  <2>1. y \in Dummy
      BY <1>1, <1>2 DEF Dummy
  <2> QED
      BY <1>2, <2>1 DEF Dummy, AnyNode
<1>3. CASE x \in Node
  <2>1. y \in Node
      BY <1>1, <1>3 DEF Node
  <2>2. \A z \in Node : z \notin Dummy
    <3>1. \A z \in Node : "op" \in DOMAIN z
        BY DEF Node
    <3>2. \A z \in Dummy : "op" \notin DOMAIN z
        BY DEF Dummy
    <3> QED
        BY <3>1, <3>2
  <2> QED
      BY <1>3, <2>1, <2>2 DEF Node, AnyNode
<1> QED
    BY <1>2, <1>3 DEF AnyNode

\* What AppendResponse makes of a chain: its edges, its pools and its stamps.
LEMMA ChainGrows ==
    ASSUME NEW h \in Seq(AnyNode), h # <<>>, Chained(h),
           \A i \in 1..Len(h) : h[i] \in Dummy <=> i = 1,
           NEW resp \in Request, resp.op.val = 0,
           NEW ts \in Nat, \A i \in 1..Len(h) : h[i].tsReq <= ts,
           NEW g, g = AppendResponse(h, resp, ts)
    PROVE  /\ g \in Seq(AnyNode) /\ g # <<>> /\ Chained(g)
           /\ \A i \in 1..Len(g) : g[i] \in Dummy <=> i = 1
           /\ Len(g) = Len(h) + 1
           /\ \A i \in 1..Len(h) : g[i].tsReq = h[i].tsReq
           /\ g[Len(g)].tsReq = resp.tsReq
           /\ g[Len(g)].pool = ApplyOpToPool(resp.op, h[Len(h)].pool)
<1> DEFINE n == Len(h)
           x == h[n]
           y == [x EXCEPT !.next = x.next \cup {n + 1}]
           l == [h EXCEPT ![n] = y]
           node == NewNode(resp, ts, ApplyOpToPool(resp.op, x.pool))
<1>1. n \in Nat \ {0} /\ n \in 1..n /\ DOMAIN h = 1..n /\ h \in [1..n -> AnyNode]
      /\ x \in AnyNode
  <2>1. n \in Nat \ {0} /\ DOMAIN h = 1..n /\ h \in [1..n -> AnyNode]
      BY EmptySeq, LenProperties
  <2> QED
      BY <2>1
<1>2. g = Append(l, node)
    BY DEF AppendResponse, Linked
<1>chain. /\ h[n].next = {} /\ \A k \in 1..n : k # n => h[k].next = {k + 1}
          /\ \A i \in 1..n : i # 1 => PoolFollows(h, i)
          /\ \A i, j \in 1..n : i < j => h[i].tsReq <= h[j].tsResp
          /\ \A i \in 1..n : h[i].tsReq <= ts
          /\ \A i \in 1..n : h[i] \in Dummy <=> i = 1
    BY <1>1 DEF Chained, OneEdge
<1>3. /\ y \in AnyNode /\ (y \in Dummy <=> x \in Dummy) /\ y.next = x.next \cup {n + 1}
      /\ y.tsReq = x.tsReq /\ y.tsResp = x.tsResp /\ y.pool = x.pool
      /\ x \notin Dummy => y.op = x.op
  <2> HIDE DEF x
  <2>1. n + 1 \in Nat
      BY <1>1
  <2> QED
      BY <1>1, <2>1, LastLinked
<1> HIDE DEF y
<1>4. /\ l \in [1..n -> AnyNode] /\ l[n] = y /\ \A i \in 1..n : i # n => l[i] = h[i]
    BY <1>1, <1>3
<1>5. l \in Seq(AnyNode) /\ Len(l) = n
  <2> HIDE DEF l
  <2>1. l \in Seq(AnyNode)
    <3> HIDE DEF n
    <3> QED
        BY <1>1, <1>4
  <2>2. Len(l) \in Nat /\ DOMAIN l = 1..Len(l) /\ DOMAIN l = 1..n
      BY <1>4, <2>1, LenProperties
  <2> HIDE DEF n
  <2>3. Len(l) = n
    <3>1. n \in 1..Len(l)
        BY <1>1, <2>2
    <3>2. Len(l) \in 1..Len(l)
        BY <2>2, <3>1
    <3>3. Len(l) \in 1..n
        BY <2>2, <3>2
    <3>4. n \in Nat /\ Len(l) \in Nat /\ n <= Len(l) /\ Len(l) <= n
        BY <1>1, <3>1, <3>3
    <3> QED
        BY <3>4
  <2> QED
      BY <2>1, <2>3
<1>6. /\ node \in Node /\ node \in AnyNode /\ node.next = {} /\ node.tsReq = resp.tsReq
      /\ node.tsResp = ts /\ node.op = resp.op
      /\ node.pool = ApplyOpToPool(resp.op, x.pool)
  <2>1. resp.op \in Operation /\ resp.cId \in Clients /\ resp.tsReq \in Nat
      BY DEF Request
  <2>2. x.pool \in Pools
    <3> HIDE DEF x
    <3> QED
        BY <1>1, NodeType
  <2>3. ApplyOpToPool(resp.op, x.pool) \in Pools
    <3> HIDE DEF x
    <3> QED
        BY <2>1, <2>2, ApplyZero
  <2> HIDE DEF x
  <2> QED
      BY <2>1, <2>3 DEF Node, AnyNode, NewNode
<1>7. node \notin Dummy
  <2>1. "op" \in DOMAIN node
      BY DEF NewNode
  <2>2. \A z \in Dummy : "op" \notin DOMAIN z
      BY DEF Dummy
  <2> HIDE DEF node
  <2> QED
      BY <2>1, <2>2
<1> HIDE DEF node, l
<1> HIDE DEF n
<1>8. /\ g \in Seq(AnyNode) /\ g # <<>> /\ Len(g) = n + 1 /\ g[n + 1] = node
      /\ \A i \in 1..n : g[i] = l[i]
    BY <1>2, <1>5, <1>6, AppendProperties
<1>9. g[n] = y /\ \A i \in 1..n : i # n => g[i] = h[i]
    BY <1>1, <1>4, <1>8
<1>10. ASSUME NEW i \in 1..n
       PROVE  /\ g[i].tsReq = h[i].tsReq /\ g[i].tsResp = h[i].tsResp
              /\ g[i].pool = h[i].pool
              /\ g[i] \in Dummy <=> i = 1
              /\ i # 1 => g[i].op = h[i].op
  <2>1. CASE i # n
    <3>1. g[i] = h[i]
        BY <1>9, <2>1
    <3>2. h[i] \in Dummy <=> i = 1
        BY <1>chain
    <3> QED
        BY <3>1, <3>2
  <2>2. CASE i = n
    <3>1. x \in Dummy <=> i = 1
        BY <1>1, <1>chain, <2>2 DEF x
    <3> QED
        BY <1>3, <1>9, <2>2, <3>1 DEF x
  <2> QED
      BY <2>1, <2>2
<1> HIDE DEF x
<1>11. \A i \in 1..(n + 1) : i = n + 1 \/ i \in 1..n
    BY <1>1
<1>12. ASSUME NEW i \in 1..Len(g) PROVE OneEdge(g, i)
  <2>2. CASE i = n + 1
      BY <1>6, <1>8, <2>2 DEF OneEdge
  <2>3. CASE i = n
    <3>1. g[i].next = {n + 1}
        BY <1>3, <1>9, <1>chain, <2>3 DEF x
    <3>2. i # Len(g)
        BY <1>1, <1>8, <2>3
    <3> QED
        BY <2>3, <3>1, <3>2 DEF OneEdge
  <2>4. CASE i \in 1..n /\ i # n
    <3>1. g[i].next = {i + 1} /\ i # n + 1
        BY <1>1, <1>9, <1>chain, <2>4
    <3> QED
        BY <1>8, <3>1 DEF OneEdge
  <2> QED
      BY <1>8, <1>11, <2>2, <2>3, <2>4
<1>13. ASSUME NEW i \in 1..Len(g), i # 1 PROVE PoolFollows(g, i)
  <2>1. CASE i = n + 1
    <3>1. i - 1 = n /\ g[n].pool = x.pool
        BY <1>1, <1>3, <1>9, <2>1
    <3> QED
        BY <1>6, <1>8, <2>1, <3>1 DEF PoolFollows
  <2>2. CASE i \in 1..n
    <3>1. i - 1 \in 1..n
        BY <1>1, <1>13, <2>2
    <3>2. h[i].pool = ApplyOpToPool(h[i].op, h[i - 1].pool)
        BY <1>13, <1>chain, <2>2 DEF PoolFollows
    <3>3. g[i].pool = h[i].pool /\ g[i].op = h[i].op /\ g[i - 1].pool = h[i - 1].pool
        BY <1>10, <1>13, <2>2, <3>1
    <3> QED
        BY <3>2, <3>3 DEF PoolFollows
  <2> QED
      BY <1>8, <1>11, <2>1, <2>2
<1>14. ASSUME NEW i \in 1..Len(g), NEW j \in 1..Len(g), i < j PROVE g[i].tsReq <= g[j].tsResp
  <2>1. i \in 1..n
      BY <1>1, <1>8, <1>14
  <2>2. CASE j = n + 1
    <3>1. g[i].tsReq = h[i].tsReq /\ g[j].tsResp = ts
        BY <1>6, <1>8, <1>10, <2>1, <2>2
    <3> QED
        BY <1>chain, <2>1, <3>1
  <2>3. CASE j \in 1..n
    <3>1. h[i].tsReq <= h[j].tsResp
        BY <1>14, <1>chain, <2>1, <2>3
    <3> QED
        BY <1>10, <2>1, <2>3, <3>1
  <2> QED
      BY <1>8, <1>11, <2>2, <2>3
<1>15. Chained(g)
    BY <1>12, <1>13, <1>14 DEF Chained
<1>16. \A i \in 1..Len(g) : g[i] \in Dummy <=> i = 1
  <2> TAKE i \in 1..Len(g)
  <2>1. CASE i = n + 1
      BY <1>1, <1>7, <1>8, <2>1
  <2>2. CASE i \in 1..n
      BY <1>10, <1>chain, <2>2
  <2> QED
      BY <1>8, <1>11, <2>1, <2>2
<1> QED
    BY <1>6, <1>8, <1>10, <1>15, <1>16 DEF x, n

------------------------------------------------------------------------------
(***************************************************************************)
(* The steps.                                                              *)
(***************************************************************************)
\* At first nothing is on its way, and the history is the dummy node.
LEMMA InitPool == Init => PoolInv
<1> SUFFICES ASSUME Init PROVE PoolInv
    OBVIOUS
<1>1. pool \in Pools
    BY PoolAssumption DEF Init, Pools
<1> DEFINE d == DummyNode(pool)
<1>2. d \in Dummy /\ d.pool = pool /\ d.next = {} /\ d.tsReq = 0
    BY <1>1 DEF Dummy, DummyNode
<1>3. history = <<d>> /\ clock = 0
    BY DEF Init
<1> HIDE DEF d
<1>4. history \in Seq(AnyNode) /\ Len(history) = 1 /\ history[1] = d
      /\ history # <<>> /\ DOMAIN history = 1..1
    BY <1>2, <1>3 DEF AnyNode
<1>5. <<>> \in Seq(Request) /\ <<>> \in Seq(Due(0)) /\ Len(<<>>) = 0
    BY EmptySeq
<1>6. TypeOK
  <2>1. \A i \in DOMAIN history : history[i] \in Dummy <=> i = 1
      BY <1>2, <1>4
  <2> QED
      BY <1>1, <1>3, <1>4, <1>5, <2>1, PoolAssumption DEF TypeOK, Init, AnyNode
<1>7. Stamped
    BY <1>2, <1>3, <1>4, <1>5 DEF Stamped, Init
<1>8. OneLeft
    BY DEF OneLeft, Init
<1>9. Chained(history)
    BY <1>2, <1>4 DEF Chained, OneEdge
<1>10. Behind
  <2>1. MonitorPool = pool
      BY <1>2, <1>4 DEF MonitorPool
  <2>2. \A k \in Keys : ~WriteComing(k)
      BY <1>5 DEF WriteComing, Init
  <2> QED
      BY <2>1, <2>2 DEF Behind
<1> QED
    BY <1>6, <1>7, <1>8, <1>9, <1>10 DEF PoolInv

\* A request is stamped as it goes into the service's queue.
LEMMA MakeRequestKeeps ==
    ASSUME PoolInv, NEW c \in Clients, MakeRequest(c)
    PROVE  PoolInv'
<1>1. PICK now \in clock..MaxTs : clock' = now
    BY DEF MakeRequest, GetTimestamp
<1>2. /\ numReqs[c] > 0 /\ cstate' = [cstate EXCEPT ![c] = "waiting"]
      /\ UNCHANGED <<numReqs, replies, pool, history>>
    BY DEF MakeRequest
<1>3. TypeOK /\ Stamped /\ clock \in Nat /\ now \in Nat /\ clock <= now
    BY PoolAssumption DEF PoolInv, TypeOK
<1>4. PICK op \in GenerateOp : inbox' = Append(inbox, [op |-> op, cId |-> c, tsReq |-> now])
    BY <1>1 DEF MakeRequest
<1> DEFINE r == [op |-> op, cId |-> c, tsReq |-> now]
<1>5. r \in Due(now) /\ r \in Request
  <2>1. op.val = 0 /\ op \in Operation
      BY DEF GenerateOp, Choose, numVals, Operation
  <2> QED
      BY <1>3, <2>1 DEF Due, Request
<1> HIDE DEF r
<1>6. inbox' = Append(inbox, r)
    BY <1>4 DEF r
<1>7. TypeOK'
  <2>1. inbox' \in Seq(Request)
      BY <1>3, <1>5, <1>6, AppendProperties DEF TypeOK
  <2> QED
      BY <1>1, <1>2, <1>3, <2>1 DEF TypeOK
<1>8. Stamped'
  <2>1. Due(clock) \subseteq Due(now)
      BY <1>3, StillStamped
  <2>2. inbox \in Seq(Due(now)) /\ replies \in [Clients -> Seq(Due(now))]
      BY <1>3, <2>1, SeqMonotonic DEF Stamped
  <2>3. inbox' \in Seq(Due(now))
      BY <1>5, <1>6, <2>2, AppendProperties
  <2>4. \A i \in 1..Len(history) : history[i].tsReq <= now
    <3>1. \A i \in 1..Len(history) : history[i].tsReq \in Nat /\ history[i].tsReq <= clock
        BY <1>3, MonitorType, NodeType DEF Stamped
    <3> QED
        BY <1>3, <3>1
  <2> QED
      BY <1>1, <1>2, <2>2, <2>3, <2>4 DEF Stamped
<1>9. OneLeft'
    BY <1>2, <1>3 DEF PoolInv, OneLeft, TypeOK
<1>10. Chained(history)' /\ Behind'
    BY <1>2 DEF PoolInv, Chained, OneEdge, PoolFollows, Behind, WriteComing, MonitorPool
<1> QED
    BY <1>7, <1>8, <1>9, <1>10 DEF PoolInv

\* A client without requests left stops.
LEMMA FinishClientKeeps ==
    ASSUME PoolInv, NEW c \in Clients, FinishClient(c)
    PROVE  PoolInv'
<1>1. cstate' = [cstate EXCEPT ![c] = "finished"]
      /\ UNCHANGED <<numReqs, inbox, replies, pool, clock, history>>
    BY DEF FinishClient
<1>2. TypeOK' /\ Stamped' /\ OneLeft'
    BY <1>1 DEF PoolInv, TypeOK, Stamped, OneLeft
<1>3. Chained(history)' /\ Behind'
    BY <1>1 DEF PoolInv, Chained, OneEdge, PoolFollows, Behind, WriteComing, MonitorPool
<1> QED
    BY <1>2, <1>3 DEF PoolInv

\* The service applies a request and answers it: a write leaves its key 0 and a
\* response on its way, anything else leaves the pool alone.
LEMMA ServeRequestKeeps ==
    ASSUME PoolInv, ServeRequest
    PROVE  PoolInv'
<1> DEFINE req == Head(inbox)
           resp == [op |-> [typ |-> req.op.typ, key |-> req.op.key,
                            val |-> 0, ret |-> RetVal(req.op, pool)],
                    cId |-> req.cId, tsReq |-> req.tsReq]
           c == req.cId
<1>1. /\ inbox # <<>> /\ inbox' = Tail(inbox)
      /\ replies' = [replies EXCEPT ![c] = Append(replies[c], resp)]
      /\ pool' = ApplyOpToPool(req.op, pool)
      /\ UNCHANGED <<cstate, numReqs, clock, history>>
    BY DEF ServeRequest
<1>2. TypeOK /\ Stamped /\ OneLeft /\ Chained(history) /\ Behind
    BY DEF PoolInv
<1>3. req \in Due(clock) /\ inbox' \in Seq(Due(clock)) /\ inbox' \in Seq(Request)
    BY <1>1, <1>2, HeadTailProperties DEF Stamped, TypeOK
<1>4. req \in Request /\ req.op \in Operation /\ req.op.val = 0 /\ c \in Clients
    BY <1>3 DEF Due, Request
<1>5. /\ pool' \in Pools
      /\ \A k \in Keys : pool'[k] = IF req.op.typ = "WRITE" /\ req.op.key = k THEN 0 ELSE pool[k]
    BY <1>1, <1>2, <1>4, ApplyZero DEF TypeOK
<1>6. resp \in Due(clock) /\ resp \in Request
      /\ resp.op.typ = req.op.typ /\ resp.op.key = req.op.key
  <2>1. RetVal(req.op, pool) \in Nat
      BY <1>2, <1>4 DEF RetVal, TypeOK, Pools, Operation
  <2>2. resp \in Request
      BY <1>4, <2>1 DEF Request, Operation
  <2>3. req.tsReq <= clock
      BY <1>3 DEF Due
  <2> QED
      BY <2>2, <2>3 DEF Due
<1> HIDE DEF req, resp, c
<1>7. replies' \in [Clients -> Seq(Due(clock))] /\ replies' \in [Clients -> Seq(Request)]
  <2>1. Append(replies[c], resp) \in Seq(Due(clock)) /\ Append(replies[c], resp) \in Seq(Request)
      BY <1>2, <1>4, <1>6, AppendProperties DEF Stamped, TypeOK
  <2> QED
      BY <1>1, <1>2, <1>4, <2>1 DEF Stamped, TypeOK
<1>8. \A k \in Keys : WriteComing(k)' <=>
        WriteComing(k) \/ (req.op.typ = "WRITE" /\ req.op.key = k)
  <2>1. /\ Len(replies[c]) \in Nat /\ Len(replies'[c]) = Len(replies[c]) + 1
        /\ replies'[c][Len(replies[c]) + 1] = resp
        /\ \A i \in 1..Len(replies[c]) : replies'[c][i] = replies[c][i]
        /\ \A x \in Clients : x # c => replies'[x] = replies[x]
    <3>1. replies'[c] = Append(replies[c], resp) /\ replies[c] \in Seq(Due(clock))
          /\ \A x \in Clients : x # c => replies'[x] = replies[x]
        BY <1>1, <1>2, <1>4 DEF Stamped
    <3> QED
        BY <1>6, <3>1, AppendProperties, LenProperties
  <2> TAKE k \in Keys
  <2> DEFINE W(s, i) == s[i].op.typ = "WRITE" /\ s[i].op.key = k
  <2>2. ASSUME NEW x \in Clients, NEW i \in 1..Len(replies[x]), W(replies[x], i)
        PROVE  WriteComing(k)'
    <3>1. i \in 1..Len(replies'[x]) /\ replies'[x][i] = replies[x][i]
        BY <2>1
    <3> QED
        BY <2>2, <3>1 DEF WriteComing
  <2>3. ASSUME req.op.typ = "WRITE" /\ req.op.key = k PROVE WriteComing(k)'
    <3>1. Len(replies[c]) + 1 \in 1..Len(replies'[c])
        BY <2>1
    <3> QED
        BY <1>4, <1>6, <2>1, <2>3, <3>1 DEF WriteComing
  <2>4. ASSUME NEW x \in Clients, NEW i \in 1..Len(replies'[x]), W(replies'[x], i)
        PROVE  WriteComing(k) \/ (req.op.typ = "WRITE" /\ req.op.key = k)
    <3>1. CASE x # c
        BY <2>1, <2>4, <3>1 DEF WriteComing
    <3>2. CASE x = c /\ i = Len(replies[c]) + 1
        BY <1>6, <2>1, <2>4, <3>2
    <3>3. CASE x = c /\ i # Len(replies[c]) + 1
      <4>1. i \in 1..Len(replies[c])
          BY <2>1, <3>3
      <4> QED
          BY <2>1, <2>4, <3>3, <4>1 DEF WriteComing
    <3> QED
        BY <3>1, <3>2, <3>3
  <2> QED
      BY <2>2, <2>3, <2>4 DEF WriteComing
<1>9. TypeOK' /\ Stamped' /\ OneLeft' /\ Chained(history)'
  <2>1. TypeOK'
      BY <1>1, <1>2, <1>3, <1>5, <1>7 DEF TypeOK
  <2>2. Stamped'
      BY <1>1, <1>2, <1>3, <1>7 DEF Stamped
  <2>3. OneLeft' /\ Chained(history)'
      BY <1>1, <1>2 DEF OneLeft, Chained, OneEdge, PoolFollows
  <2> QED
      BY <2>1, <2>2, <2>3
<1>10. Behind'
  <2>1. MonitorPool' = MonitorPool
      BY <1>1 DEF MonitorPool
  <2> QED
      BY <1>2, <1>5, <1>8, <2>1 DEF Behind
<1> QED
    BY <1>9, <1>10 DEF PoolInv

\* The response seen is stamped after everything in the history began and makes
\* it a longer chain, and the monitor makes up for the write it announces.
LEMMA SeeResponseKeeps ==
    ASSUME PoolInv, NEW c \in Clients, SeeResponse(c)
    PROVE  PoolInv'
<1> DEFINE resp == Head(replies[c])
<1>1. PICK now \in clock..MaxTs : clock' = now
    BY DEF SeeResponse, GetTimestamp
<1>2. TypeOK /\ Stamped /\ OneLeft /\ Chained(history) /\ Behind /\ clock \in Nat
      /\ now \in Nat /\ clock <= now
    BY PoolAssumption DEF PoolInv, TypeOK
<1>3. /\ cstate[c] = "waiting" /\ replies[c] # <<>>
      /\ history' = AppendResponse(history, resp, now)
      /\ replies' = [replies EXCEPT ![c] = Tail(replies[c])]
      /\ numReqs' = [numReqs EXCEPT ![c] = numReqs[c] - 1]
      /\ cstate' = [cstate EXCEPT ![c] = "entry"]
      /\ UNCHANGED <<inbox, pool>>
    BY <1>1 DEF SeeResponse
<1>4. /\ resp \in Due(clock) /\ Tail(replies[c]) \in Seq(Due(clock))
      /\ Tail(replies[c]) \in Seq(Request) /\ replies[c] \in Seq(Due(clock))
  <2>1. replies[c] \in Seq(Due(clock)) /\ replies[c] \in Seq(Request)
      BY <1>2 DEF Stamped, TypeOK
  <2> QED
      BY <1>3, <2>1, HeadTailProperties
<1>5. resp \in Request /\ resp.op \in Operation /\ resp.op.val = 0 /\ resp.tsReq \in Nat
      /\ resp.tsReq <= clock
    BY <1>4 DEF Due, Request
<1>6. MonitorPool \in Pools
    BY <1>2, MonitorType
<1> HIDE DEF resp
<1> DEFINE g == AppendResponse(history, resp, now)
           n == Len(history)
<1>7. /\ \A i \in 1..n : history[i].tsReq \in Nat /\ history[i].tsReq <= now
      /\ history \in Seq(AnyNode) /\ history # <<>> /\ n \in Nat \ {0}
      /\ \A i \in 1..n : history[i] \in Dummy <=> i = 1
  <2>1. \A i \in 1..n : history[i].tsReq \in Nat /\ history[i].tsReq <= clock
      BY <1>2, MonitorType, NodeType DEF Stamped
  <2>2. history \in Seq(AnyNode) /\ history # <<>> /\ n \in Nat \ {0}
      BY <1>2, MonitorType DEF TypeOK, AnyNode
  <2>3. DOMAIN history = 1..n
      BY <2>2, LenProperties
  <2>4. \A i \in 1..n : history[i] \in Dummy <=> i = 1
      BY <1>2, <2>3 DEF TypeOK
  <2> QED
      BY <1>2, <2>1, <2>2, <2>4
<1>8. /\ g \in Seq(AnyNode) /\ g # <<>> /\ Chained(g)
      /\ \A i \in 1..Len(g) : g[i] \in Dummy <=> i = 1
      /\ Len(g) = n + 1
      /\ \A i \in 1..n : g[i].tsReq = history[i].tsReq
      /\ g[Len(g)].tsReq = resp.tsReq
      /\ g[Len(g)].pool = ApplyOpToPool(resp.op, MonitorPool)
    BY <1>2, <1>5, <1>7, ChainGrows DEF MonitorPool
<1>9. history' = g
    BY <1>3
<1> HIDE DEF g, n
<1>10. Stamped'
  <2>1. Due(clock) \subseteq Due(now)
      BY <1>2, StillStamped
  <2>2. /\ inbox \in Seq(Due(now)) /\ replies \in [Clients -> Seq(Due(now))]
        /\ Tail(replies[c]) \in Seq(Due(now))
      BY <1>2, <1>4, <2>1, SeqMonotonic DEF Stamped
  <2>3. replies' \in [Clients -> Seq(Due(now))]
      BY <1>3, <2>2
  <2>4. ASSUME NEW i \in 1..Len(g) PROVE g[i].tsReq <= now
    <3>1. CASE i = n + 1
        BY <1>2, <1>5, <1>8, <3>1
    <3>2. CASE i # n + 1
      <4>1. i \in 1..n
          BY <1>7, <1>8, <3>2
      <4> QED
          BY <1>7, <1>8, <4>1
    <3> QED
        BY <3>1, <3>2
  <2> QED
      BY <1>1, <1>3, <1>9, <2>2, <2>3, <2>4 DEF Stamped
<1>11. TypeOK'
  <2>1. DOMAIN g = 1..Len(g)
      BY <1>8, LenProperties
  <2>2. /\ history' \in Seq(Node \cup Dummy) /\ history' # <<>>
        /\ \A i \in DOMAIN history' : history'[i] \in Dummy <=> i = 1
      BY <1>8, <1>9, <2>1 DEF AnyNode
  <2>3. numReqs[c] - 1 \in 0..NumReqs
      BY <1>2, <1>3, PoolAssumption DEF OneLeft, TypeOK
  <2>4. numReqs' \in [Clients -> 0..NumReqs]
      BY <1>2, <1>3, <2>3 DEF TypeOK
  <2>5. replies' \in [Clients -> Seq(Request)]
      BY <1>2, <1>3, <1>4 DEF TypeOK
  <2>6. clock' \in Nat /\ pool' \in Pools /\ inbox' \in Seq(Request)
      BY <1>1, <1>2, <1>3 DEF TypeOK
  <2>7. cstate' \in [Clients -> {"entry", "waiting", "finished"}]
      BY <1>2, <1>3 DEF TypeOK
  <2> QED
      BY <2>2, <2>4, <2>5, <2>6, <2>7 DEF TypeOK
<1>12. OneLeft'
    BY <1>2, <1>3 DEF OneLeft, TypeOK
<1>13. Chained(history)'
    BY <1>8, <1>9
<1>14. MonitorPool' = g[Len(g)].pool
    BY <1>9 DEF MonitorPool
<1>15. \A k \in Keys : MonitorPool'[k] =
         IF resp.op.typ = "WRITE" /\ resp.op.key = k THEN 0 ELSE MonitorPool[k]
    BY <1>5, <1>6, <1>8, <1>14, ApplyZero
<1>16. /\ Len(replies[c]) \in Nat \ {0} /\ replies[c][1] = resp
       /\ Len(replies'[c]) = Len(replies[c]) - 1
       /\ \A i \in 1..Len(replies'[c]) : replies'[c][i] = replies[c][i + 1]
       /\ \A x \in Clients : x # c => replies'[x] = replies[x]
  <2>1. replies'[c] = Tail(replies[c]) /\ \A x \in Clients : x # c => replies'[x] = replies[x]
      BY <1>2, <1>3 DEF TypeOK
  <2>2. Len(replies[c]) \in Nat \ {0}
      BY <1>3, <1>4, EmptySeq, LenProperties
  <2>3. /\ replies[c][1] = resp /\ Len(Tail(replies[c])) = Len(replies[c]) - 1
        /\ \A i \in 1..Len(Tail(replies[c])) : Tail(replies[c])[i] = replies[c][i + 1]
      BY <1>3, <1>4, HeadTailProperties DEF resp
  <2> QED
      BY <2>1, <2>2, <2>3
<1>17. ASSUME NEW k \in Keys
       PROVE  /\ WriteComing(k)' => WriteComing(k)
              /\ WriteComing(k) => \/ WriteComing(k)'
                                   \/ resp.op.typ = "WRITE" /\ resp.op.key = k
              /\ resp.op.typ = "WRITE" /\ resp.op.key = k => WriteComing(k)
  <2> DEFINE W(s, i) == s[i].op.typ = "WRITE" /\ s[i].op.key = k
  <2>1. ASSUME NEW x \in Clients, NEW i \in 1..Len(replies'[x]), W(replies'[x], i)
        PROVE  WriteComing(k)
    <3>1. CASE x # c
        BY <1>16, <2>1, <3>1 DEF WriteComing
    <3>2. CASE x = c
      <4>1. i + 1 \in 1..Len(replies[c]) /\ replies'[c][i] = replies[c][i + 1]
          BY <1>16, <3>2
      <4> QED
          BY <2>1, <3>2, <4>1 DEF WriteComing
    <3> QED
        BY <3>1, <3>2
  <2>2. ASSUME NEW x \in Clients, NEW i \in 1..Len(replies[x]), W(replies[x], i)
        PROVE  WriteComing(k)' \/ (resp.op.typ = "WRITE" /\ resp.op.key = k)
    <3>1. CASE x # c
      <4>1. i \in 1..Len(replies'[x]) /\ replies'[x][i] = replies[x][i]
          BY <1>16, <3>1
      <4> QED
          BY <2>2, <4>1 DEF WriteComing
    <3>2. CASE x = c /\ i = 1
        BY <1>16, <2>2, <3>2
    <3>3. CASE x = c /\ i # 1
      <4> DEFINE j == i - 1
      <4>1. j \in 1..Len(replies'[c]) /\ i = j + 1
          BY <1>16, <3>3
      <4> HIDE DEF j
      <4>2. replies'[c][j] = replies[c][i]
          BY <1>16, <4>1
      <4> QED
          BY <2>2, <3>3, <4>1, <4>2 DEF WriteComing
    <3> QED
        BY <3>1, <3>2, <3>3
  <2>3. ASSUME resp.op.typ = "WRITE" /\ resp.op.key = k PROVE WriteComing(k)
    <3>1. 1 \in 1..Len(replies[c])
        BY <1>16
    <3> QED
        BY <1>16, <2>3, <3>1 DEF WriteComing
  <2> QED
      BY <2>1, <2>2, <2>3 DEF WriteComing
<1>18. Behind'
  <2> SUFFICES ASSUME NEW k \in Keys
               PROVE  /\ WriteComing(k)' => pool[k] = 0
                      /\ WriteComing(k)' \/ MonitorPool'[k] = pool[k]
      BY <1>3 DEF Behind
  <2>1. /\ WriteComing(k) => pool[k] = 0
        /\ WriteComing(k) \/ MonitorPool[k] = pool[k]
      BY <1>2 DEF Behind
  <2> QED
      BY <1>15, <1>17, <2>1
<1> QED
    BY <1>10, <1>11, <1>12, <1>13, <1>18 DEF PoolInv

\* Every step of the machines keeps the invariant.
LEMMA NextPool == PoolInv /\ [Next]_vars => PoolInv'
<1> SUFFICES ASSUME PoolInv, [Next]_vars PROVE PoolInv'
    OBVIOUS
<1>1. ASSUME NEW c \in Clients, ClientStep(c) PROVE PoolInv'
    BY <1>1, MakeRequestKeeps, SeeResponseKeeps, FinishClientKeeps DEF ClientStep
<1>2. CASE ServeRequest
    BY <1>2, ServeRequestKeeps
<1>3. CASE Quiet \/ UNCHANGED vars
  <2>1. UNCHANGED <<cstate, numReqs, inbox, replies, pool, clock, history>>
      BY <1>3 DEF Quiet, vars
  <2>2. TypeOK' /\ Stamped' /\ OneLeft'
      BY <2>1 DEF PoolInv, TypeOK, Stamped, OneLeft
  <2>3. Chained(history)' /\ Behind'
      BY <2>1 DEF PoolInv, Chained, OneEdge, PoolFollows, Behind, WriteComing, MonitorPool
  <2> QED
      BY <2>2, <2>3 DEF PoolInv
<1> QED
    BY <1>1, <1>2, <1>3 DEF Next

\* The invariant holds of the machines and the monitor.
THEOREM PoolInvariant == Spec => []PoolInv
<1> QED
    BY InitPool, NextPool, PTL DEF Spec

(***************************************************************************)
(* The machines, their queues and the monitor keep their types.            *)
(***************************************************************************)
THEOREM PoolTypes == Spec => []TypeOK
<1>1. PoolInv => TypeOK
    BY DEF PoolInv
<1> QED
    BY <1>1, PoolInvariant, PTL

(***************************************************************************)
(* The monitor's AssertLinearizability never fails, in whichever order the *)
(* clients announce what they see and however often the clock stands       *)
(* still: the graph is one chain of valid transitions (SO), and keeps real *)
(* time (RT).                                                              *)
(***************************************************************************)
THEOREM AlwaysAccepted == Spec => []MonitorAccepts
<1>1. PoolInv => MonitorAccepts
  <2> SUFFICES ASSUME PoolInv PROVE AssertLinearizability(history)
      BY DEF MonitorAccepts
  <2>1. history \in Seq(AnyNode) /\ history # <<>> /\ Chained(history)
      BY DEF PoolInv, TypeOK, AnyNode
  <2> QED
      BY <2>1, ChainAccepted
<1> QED
    BY <1>1, PoolInvariant, PTL

(***************************************************************************)
(* Whenever nothing is on its way, the monitor's pool is the service's.    *)
(***************************************************************************)
THEOREM CatchesUp == Spec => []MonitorPoolCatchesUp
<1>1. PoolInv => MonitorPoolCatchesUp
  <2> SUFFICES ASSUME PoolInv, inbox = <<>>, \A c \in Clients : replies[c] = <<>>
               PROVE  MonitorPool = pool
      BY DEF MonitorPoolCatchesUp, MonitorPool
  <2>1. \A c \in Clients : Len(replies[c]) = 0
      BY EmptySeq DEF PoolInv, TypeOK
  <2>2. \A k \in Keys : ~WriteComing(k)
      BY <2>1 DEF WriteComing
  <2>3. \A k \in Keys : MonitorPool[k] = pool[k]
      BY <2>2 DEF PoolInv, Behind
  <2>4. MonitorPool \in Pools /\ pool \in Pools
      BY MonitorType DEF PoolInv, TypeOK
  <2> QED
      BY <2>3, <2>4 DEF Pools
<1> QED
    BY <1>1, PoolInvariant, PTL
==============================================================================
