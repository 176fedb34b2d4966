------------------------------- MODULE ObjPool --------------------------------
(***************************************************************************)
(* The object pool demonstration of pmodel/: Client machines send requests *)
(* to one ObjectPool machine and announce its responses to the monitor     *)
(* ServiceIsLinearizable, which strings them into a linear ordering graph  *)
(* and asserts linearizability after each.  Machines run concurrently and  *)
(* receive events through FIFO queues; a monitor runs inside announce.     *)
(*                                                                         *)
(* The nodes of the monitor's graph are kept as a sequence in order of     *)
(* their IDs, of which the first is the head; their edges are in next.     *)
(***************************************************************************)
EXTENDS Naturals, Sequences

CONSTANTS Clients, Keys, NumReqs, InitVals,
          MaxTs     \* bound on timestamps

ASSUME PoolAssumption ==
    Keys # {} /\ NumReqs \in Nat /\ InitVals \subseteq Nat /\ MaxTs \in Nat

VARIABLES
    cstate,     \* per client, "entry" of MakeRequests, "waiting" or "finished"
    numReqs,    \* per client, requests left
    inbox,      \* queue of the ObjectPool machine
    replies,    \* per client, its queue
    pool,       \* the state of the ObjectPool machine
    clock,      \* the last timestamp given out by GetTimestamp
    history     \* the monitor's ordering graph

vars == <<cstate, numReqs, inbox, replies, pool, clock, history>>

OpTypes == {"READ", "WRITE", "RADDW"}
Pools == [Keys -> Nat]
Operation == [typ : OpTypes, key : Keys, val : Nat, ret : Nat]
Request == [op : Operation, cId : Clients, tsReq : Nat]
Node == [op : Operation, cId : Clients, tsReq : Nat, tsResp : Nat,
         pool : Pools, next : SUBSET Nat]
Dummy == [tsReq : {0}, tsResp : {0}, pool : Pools, next : SUBSET Nat]

\* The dummy first node is a response nobody sent, with the initial pool.
DummyNode(initPool) == [tsReq |-> 0, tsResp |-> 0, pool |-> initPool, next |-> {}]

Init ==
    /\ cstate = [c \in Clients |-> "entry"]
    /\ numReqs = [c \in Clients |-> NumReqs]
    /\ inbox = <<>>
    /\ replies = [c \in Clients |-> <<>>]
    /\ pool \in [Keys -> InitVals]
    /\ clock = 0
    /\ history = <<DummyNode(pool)>>

------------------------------------------------------------------------------
\* choose(n) of P: a value below n, and 0 when there is none.
Choose(n) == { i \in 0..n : i < n \/ i = 0 }

(***************************************************************************)
(* The wall clock: it need not have advanced from one call to the next.    *)
(* That it is never set back is what Timestamp.p assumes.                  *)
(***************************************************************************)
GetTimestamp == clock..MaxTs

\* The machine's variable numVals is never assigned: it has P's default.
numVals == 0

GenerateOp ==
    [typ : OpTypes, key : Keys, val : Choose(numVals), ret : {0}]

\* Mutant: requests are made when none is left.
MakeRequest_OneMore(c) ==
    /\ cstate[c] = "entry"
    /\ clock' \in GetTimestamp
    /\ \E op \in GenerateOp :
         inbox' = Append(inbox, [op |-> op, cId |-> c, tsReq |-> clock'])
    /\ cstate' = [cstate EXCEPT ![c] = "waiting"]
    /\ UNCHANGED <<numReqs, replies, pool, history>>

(***************************************************************************)
(* The entry of MakeRequests.  The timestamp is taken just before the      *)
(* request is sent; the two are one step, for nothing depends on how       *)
(* timestamps and the order of the service's queue compare.                *)
(***************************************************************************)
MakeRequest(c) ==
    /\ cstate[c] = "entry"
    /\ numReqs[c] > 0
    /\ clock' \in GetTimestamp
    /\ \E op \in GenerateOp :
         inbox' = Append(inbox, [op |-> op, cId |-> c, tsReq |-> clock'])
    /\ cstate' = [cstate EXCEPT ![c] = "waiting"]
    /\ UNCHANGED <<numReqs, replies, pool, history>>

\* Mutant: the client without requests left does not leave its state.
FinishClient_Stay(c) ==
    /\ cstate[c] = "entry"
    /\ numReqs[c] = 0
    /\ UNCHANGED vars

FinishClient(c) ==
    /\ cstate[c] = "entry"
    /\ numReqs[c] = 0
    /\ cstate' = [cstate EXCEPT ![c] = "finished"]
    /\ UNCHANGED <<numReqs, inbox, replies, pool, clock, history>>

\* What an operation does to a pool: ApplyOpToPool, and the service's own code.
ApplyOpToPool(op, p) ==
    CASE op.typ = "READ"  -> p
      [] op.typ = "WRITE" -> [p EXCEPT ![op.key] = op.val]
      [] op.typ = "RADDW" -> [p EXCEPT ![op.key] = @ + op.val]

RetVal(op, p) == IF op.typ = "WRITE" THEN 0 ELSE p[op.key]

\* The service takes a request off its queue; its response carries no value.
ServeRequest ==
    /\ inbox # <<>>
    /\ LET req    == Head(inbox)
           respOp == [typ |-> req.op.typ, key |-> req.op.key,
                      val |-> 0, ret |-> RetVal(req.op, pool)]
       IN  /\ replies' = [replies EXCEPT ![req.cId] =
                            Append(@, [op |-> respOp, cId |-> req.cId, tsReq |-> req.tsReq])]
           /\ pool' = ApplyOpToPool(req.op, pool)
    /\ inbox' = Tail(inbox)
    /\ UNCHANGED <<cstate, numReqs, clock, history>>

NewNode(resp, tsResp, newPool) ==
    [op |-> resp.op, cId |-> resp.cId, tsReq |-> resp.tsReq, tsResp |-> tsResp,
     pool |-> newPool, next |-> {}]

\* The edge from the last node so far to the one that follows.
Linked(h) == [h EXCEPT ![Len(h)].next = @ \cup {Len(h) + 1}]

\* Mutant: the pool is derived from the first node's instead of the last one's.
AppendResponse_FromHead(h, resp, tsResp) ==
    Append(Linked(h), NewNode(resp, tsResp, ApplyOpToPool(resp.op, h[1].pool)))

\* Mutant: the operation is not applied to the pool.
AppendResponse_Stale(h, resp, tsResp) ==
    Append(Linked(h), NewNode(resp, tsResp, h[Len(h)].pool))

\* AppendResponse: the node goes to the end of the history.
AppendResponse(h, resp, tsResp) ==
    Append(Linked(h), NewNode(resp, tsResp, ApplyOpToPool(resp.op, h[Len(h)].pool)))

------------------------------------------------------------------------------
(***************************************************************************)
(* AssertLinearizability on the graph.  The functions it calls are those   *)
(* of modules Convergence and Relationship, which have their loops; here   *)
(* they are by what they return (LevelRight, HandOver and LevelExact of    *)
(* module Consistency).                                                    *)
(***************************************************************************)
\* The pairs of nodes of which the first reaches the second: whatever set is
\* closed under the edges and has the neighbours of the first has the second.
Closed(h) == { S \in SUBSET DOMAIN h : \A x \in S : h[x].next \subseteq S }

Reachable(h) ==
    LET closed == Closed(h)
    IN  { e \in (DOMAIN h) \X (DOMAIN h) :
            \A S \in closed : h[e[1]].next \subseteq S => e[2] \in S }

\* No edge out of the graph, no cycle, and all nodes visited from the head.
WellFormed(h, reachable) ==
    /\ \A n \in DOMAIN h : h[n].next \subseteq DOMAIN h /\ <<n, n>> \notin reachable
    /\ \A n \in DOMAIN h \ {1} : <<1, n>> \in reachable

Parents(h, n) == { p \in DOMAIN h : n \in h[p].next }

\* The pool of a node with parents is what its operation makes of one of theirs.
ValidTransition(h, n) ==
    Parents(h, n) # {} =>
      \E p \in Parents(h, n) : h[n].pool = ApplyOpToPool(h[n].op, h[p].pool)

ConvergenceConformity(h, reachable) ==
    IF ~WellFormed(h, reachable) THEN "INVALID"
    ELSE IF \E n \in DOMAIN h : ~ValidTransition(h, n) THEN "NPO"
    ELSE IF \E n \in DOMAIN h : \E x, y \in h[n].next : x # y THEN "CPO"
    ELSE "SO"

\* RelationshipConformity does not lower the level from RT.
ConformsToRT(h, reachable) ==
    \A na, nb \in DOMAIN h :
      na # nb /\ h[na].tsResp < h[nb].tsReq => <<na, nb>> \in reachable

AssertLinearizability(h) ==
    LET reachable == Reachable(h)
    IN  ConvergenceConformity(h, reachable) = "SO" /\ ConformsToRT(h, reachable)

\* The client sees a response and announces it to the monitor.
SeeResponse(c) ==
    /\ cstate[c] = "waiting"
    /\ replies[c] # <<>>
    /\ clock' \in GetTimestamp
    /\ history' = AppendResponse(history, Head(replies[c]), clock')
    /\ replies' = [replies EXCEPT ![c] = Tail(@)]
    /\ numReqs' = [numReqs EXCEPT ![c] = @ - 1]
    /\ cstate' = [cstate EXCEPT ![c] = "entry"]
    /\ UNCHANGED <<inbox, pool>>

\* All machines are done.
Quiet ==
    /\ \A c \in Clients : cstate[c] = "finished"
    /\ UNCHANGED vars

ClientStep(c) == MakeRequest(c) \/ SeeResponse(c) \/ FinishClient(c)

Next == (\E c \in Clients : ClientStep(c)) \/ ServeRequest \/ Quiet

\* Every machine with something to do is scheduled.
Spec ==
    /\ Init /\ [][Next]_vars
    /\ \A c \in Clients : WF_vars(ClientStep(c))
    /\ WF_vars(ServeRequest)

------------------------------------------------------------------------------
\* The types of the machines' variables and of their queues.
TypeOK ==
    /\ cstate \in [Clients -> {"entry", "waiting", "finished"}]
    /\ numReqs \in [Clients -> 0..NumReqs]
    /\ inbox \in Seq(Request)
    /\ replies \in [Clients -> Seq(Request)]
    /\ pool \in Pools
    /\ clock \in Nat
    /\ history \in Seq(Node \cup Dummy) /\ history # <<>>
    /\ \A i \in DOMAIN history : history[i] \in Dummy <=> i = 1

(***************************************************************************)
(* The monitor's AssertLinearizability never fails: although clients       *)
(* announce their responses in another order than they were served in, and *)
(* the clock may stand still, each response extends the graph to a single  *)
(* chain whose pools follow from each other and which keeps real time.     *)
(***************************************************************************)
MonitorAccepts == AssertLinearizability(history)

(***************************************************************************)
(* The monitor ends up with the service's own state: when nothing is on    *)
(* its way, the pool of the last node is the pool of the service, although *)
(* responses are announced out of the order they were served in, and do    *)
(* not carry the value written.  It rests on GenerateOp drawing no value   *)
(* but 0.                                                                  *)
(***************************************************************************)
MonitorPoolCatchesUp ==
    (inbox = <<>> /\ \A c \in Clients : replies[c] = <<>>)
      => history[Len(history)].pool = pool

\* Every client gets all its responses and finishes.
AllFinish == <>(\A c \in Clients : cstate[c] = "finished")
==============================================================================
