----------------------------- MODULE Relationship -----------------------------
(***************************************************************************)
(* RelationshipConformity of pmodel/PSpec/Consistency.p: the relationship  *)
(* level of an ordering graph (real-time, causal, FIFO or none), found in  *)
(* one pass over all pairs of nodes that lowers the level as it goes.  P   *)
(* does not say in which order keys(...) lists the nodes, so the pass      *)
(* takes the pairs in any order.                                           *)
(***************************************************************************)
EXTENDS Naturals

CONSTANTS Nodes, CIds, TypOf(_)   \* TypOf: the type of a node's operation

OpTypes == {"READ", "WRITE", "RADDW"}

ASSUME OpsAssumption == \A n \in Nodes : TypOf(n) \in OpTypes

CONSTANT MaxTs     \* bound on timestamps
ASSUME TsAssumption == MaxTs \in Nat

VARIABLES cId, tsReq, tsResp,  \* per node of the graph
          reachable,           \* per node, as ConvergenceConformity returned it
          todo,                \* pairs of nodes not looked at yet
          level,
          returned

graph == <<cId, tsReq, tsResp, reachable>>
vars == <<graph, todo, level, returned>>

Levels == {"RT", "CASL", "FIFO", "NONE"}

Pairs == { p \in Nodes \X Nodes : p[1] # p[2] }

(***************************************************************************)
(* The map comes from a graph that was not INVALID: a DAG all of whose     *)
(* nodes are reachable from the head.                                      *)
(***************************************************************************)
ReachedFromHead(r) ==
    /\ \A n \in Nodes : n \notin r[n] /\ \A m \in r[n] : r[m] \subseteq r[n]
    /\ \E h \in Nodes : r[h] = Nodes \ {h}

Init ==
    /\ cId \in [Nodes -> CIds]
    /\ tsReq \in [Nodes -> 0..MaxTs]
    /\ tsResp \in [Nodes -> 0..MaxTs]
    /\ \A n \in Nodes : tsReq[n] <= tsResp[n]
    /\ reachable \in { r \in [Nodes -> SUBSET Nodes] : ReachedFromHead(r) }
    /\ todo = Pairs
    /\ level = "RT"
    /\ returned = FALSE

------------------------------------------------------------------------------
\* na was over before nb began, yet nb is not ordered after it.
RTViolation(p) == tsResp[p[1]] < tsReq[p[2]] /\ p[2] \notin reachable[p[1]]

\* The same within one session.
CASLViolation(p) == cId[p[1]] = cId[p[2]] /\ RTViolation(p)

\* The same, unless it is a write following a read.
FIFOViolation(p) ==
    /\ ~(TypOf(p[1]) = "READ" /\ TypOf(p[2]) = "WRITE")
    /\ CASLViolation(p)

(***************************************************************************)
(* The three tests one iteration makes in a row, each on the level the one *)
(* before it left.                                                         *)
(***************************************************************************)
AfterRT(l, p) == IF l = "RT" /\ RTViolation(p) THEN "CASL" ELSE l
AfterCASL(l, p) == IF l = "CASL" /\ CASLViolation(p) THEN "FIFO" ELSE l

AfterFIFO(l, p) == IF l = "FIFO" /\ FIFOViolation(p) THEN "NONE" ELSE l

\* Mutant: the tests exclude each other, so a pair lowers the level once.
Lowered_Once(l, p) ==
    IF l = "RT" THEN AfterRT(l, p)
    ELSE IF l = "CASL" THEN AfterCASL(l, p)
    ELSE AfterFIFO(l, p)

Lowered(l, p) == AfterFIFO(AfterCASL(AfterRT(l, p), p), p)

\* One iteration; the last test returns at once when it fails.
CheckPair ==
    /\ ~returned
    /\ \E p \in todo :
         /\ todo' = todo \ {p}
         /\ level' = Lowered(level, p)
         /\ returned' = (level' = "NONE")
    /\ UNCHANGED graph

EndPass ==
    /\ ~returned
    /\ todo = {}
    /\ returned' = TRUE
    /\ UNCHANGED <<graph, todo, level>>

Returned == returned /\ UNCHANGED vars

Next == CheckPair \/ EndPass \/ Returned

Spec == Init /\ [][Next]_vars

------------------------------------------------------------------------------
(***************************************************************************)
(* The level by its definition: each constraint holds of all pairs or not. *)
(***************************************************************************)
Conforming(ps) ==
    IF \A p \in ps : ~RTViolation(p) THEN "RT"
    ELSE IF \A p \in ps : ~CASLViolation(p) THEN "CASL"
    ELSE IF \A p \in ps : ~FIFOViolation(p) THEN "FIFO"
    ELSE "NONE"

\* The types of the function's arguments and locals.
TypeOK ==
    /\ cId \in [Nodes -> CIds]
    /\ tsReq \in [Nodes -> Nat]
    /\ tsResp \in [Nodes -> Nat]
    /\ reachable \in [Nodes -> SUBSET Nodes]
    /\ todo \subseteq Pairs
    /\ level \in Levels
    /\ returned \in BOOLEAN

(***************************************************************************)
(* The single pass is exact whatever order the pairs come in: when it      *)
(* returns, the level is the highest whose constraint no pair violates.  A *)
(* pair looked at before the level was lowered needs no second look.       *)
(***************************************************************************)
LevelExact == returned => level = Conforming(Pairs)

\* The pass in progress: the level is exact for the pairs looked at so far.
LevelSoFar ==
    /\ level = Conforming(Pairs \ todo)
    /\ returned => (todo = {} \/ level = "NONE")
==============================================================================
