----------------------------- MODULE Convergence ------------------------------
(***************************************************************************)
(* ConvergenceConformity of pmodel/PSpec/Consistency.p: a coloured         *)
(* depth-first traversal of an ordering graph that finds its convergence   *)
(* level and, on the way, the nodes reachable from each node.  One step is *)
(* one iteration of the traversal's loop; the order in which P iterates    *)
(* over a set is left open.                                                *)
(*                                                                         *)
(* The operations and the pool states of the nodes matter only through the *)
(* test whether a node's pool follows from a parent's: explains is the set *)
(* of edges for which it does.                                             *)
(***************************************************************************)
EXTENDS Naturals, FiniteSets, SequencesExt

CONSTANTS Nodes,     \* the node IDs of the graph
          Dangling,  \* node IDs edges may lead to that are not in the graph
          Heads      \* nodes that may be the head

VARIABLES next, head, explains,                   \* the ordering graph
          stack, color, reachable, parents, done, \* the locals of the function
          level, result                           \* result: "none" until it returns

graph == <<next, head, explains>>
vars == <<graph, stack, color, reachable, parents, done, level, result>>

Levels == {"SO", "CPO", "NPO", "INVALID"}

Graphs == [Nodes -> SUBSET (Nodes \cup Dangling)]

Init ==
    /\ next \in Graphs
    /\ head \in Heads
    /\ explains \in SUBSET { e \in Nodes \X Nodes : e[2] \in next[e[1]] }
    /\ stack = <<head>>
    /\ color = [n \in Nodes |-> 0]
    /\ reachable = [n \in Nodes |-> {}]
    /\ parents = [n \in Nodes |-> {}]
    /\ done = 0
    /\ level = "SO"
    /\ result = "none"

curr == Last(stack)

\* The nodes an edge from the current node may lead to: the current node, too,
\* is in progress.
Acceptable == { n \in Nodes \ {curr} : color[n] # 1 }

Running == result = "none" /\ stack # <<>>

------------------------------------------------------------------------------
\* First visit of a node with an edge out of the graph or back to a node in
\* progress (itself included): the function returns at once.
Reject ==
    /\ Running
    /\ color[curr] = 0
    /\ ~(next[curr] \subseteq Acceptable)
    /\ result' = "INVALID"
    /\ UNCHANGED <<graph, stack, color, reachable, parents, done, level>>

\* Mutant: the node is marked as done when it is first visited.
Visit_Done ==
    /\ Running
    /\ color[curr] = 0
    /\ next[curr] \subseteq Acceptable
    /\ color' = [color EXCEPT ![curr] = 2]
    /\ \E pushed \in SetToSeqs({ n \in next[curr] : color[n] = 0 }) :
         stack' = stack \o pushed
    /\ UNCHANGED <<graph, reachable, parents, done, level, result>>

\* First visit of a node: its unvisited neighbours are pushed in some order.
Visit ==
    /\ Running
    /\ color[curr] = 0
    /\ next[curr] \subseteq Acceptable
    /\ color' = [color EXCEPT ![curr] = 1]
    /\ level' = IF level = "SO" /\ Cardinality(next[curr]) > 1 THEN "CPO" ELSE level
    /\ parents' = [n \in Nodes |-> IF n \in next[curr] THEN parents[n] \cup {curr}
                                                      ELSE parents[n]]
    /\ \E pushed \in SetToSeqs({ n \in next[curr] : color[n] = 0 }) :
         stack' = stack \o pushed
    /\ UNCHANGED <<graph, reachable, done, result>>

\* Mutant: the neighbours are counted as done with the node.
Finish_CountAll ==
    /\ Running
    /\ color[curr] = 1
    /\ color' = [color EXCEPT ![curr] = 2]
    /\ done' = done + 1 + Cardinality(next[curr])
    /\ stack' = Front(stack)
    /\ UNCHANGED <<graph, reachable, parents, level, result>>

\* Mutant: only what the neighbours reach is added, not the neighbours.
Finish_NoNeighbours ==
    /\ Running
    /\ color[curr] = 1
    /\ reachable' = [reachable EXCEPT ![curr] = UNION { reachable[n] : n \in next[curr] }]
    /\ color' = [color EXCEPT ![curr] = 2]
    /\ done' = done + 1
    /\ stack' = Front(stack)
    /\ UNCHANGED <<graph, parents, level, result>>

\* Mutant: the finished node stays on the stack.
Finish_NoPop ==
    /\ Running
    /\ color[curr] = 1
    /\ color' = [color EXCEPT ![curr] = 2]
    /\ done' = done + 1
    /\ UNCHANGED <<graph, stack, reachable, parents, level, result>>

\* A node in progress is on top again: its subtree is fully visited.
Finish ==
    /\ Running
    /\ color[curr] = 1
    /\ reachable' = [reachable EXCEPT ![curr] =
                       next[curr] \cup UNION { reachable[n] : n \in next[curr] }]
    /\ color' = [color EXCEPT ![curr] = 2]
    /\ done' = done + 1
    /\ stack' = Front(stack)
    /\ UNCHANGED <<graph, parents, level, result>>

\* A fully visited node is on top: the iteration changes nothing.
Spin ==
    /\ Running
    /\ color[curr] = 2
    /\ UNCHANGED vars

\* Mutant: nodes the traversal never met go unnoticed.
Conclude_NoCount ==
    /\ result = "none"
    /\ stack = <<>>
    /\ result' = IF \A n \in Nodes : parents[n] # {} =>
                       \E p \in parents[n] : <<p, n>> \in explains
                  THEN level
                  ELSE "NPO"
    /\ UNCHANGED <<graph, stack, color, reachable, parents, done, level>>

(***************************************************************************)
(* After the loop: all nodes visited, and every pool explained by some     *)
(* parent.  FAILED is the assertion there that only the head has none.     *)
(***************************************************************************)
Conclude ==
    /\ result = "none"
    /\ stack = <<>>
    /\ result' =
         IF done < Cardinality(Nodes) THEN "INVALID"
         ELSE IF \E n \in Nodes \ {head} : parents[n] = {} THEN "FAILED"
         ELSE IF \A n \in Nodes : parents[n] # {} =>
                   \E p \in parents[n] : <<p, n>> \in explains
              THEN level
              ELSE "NPO"
    /\ UNCHANGED <<graph, stack, color, reachable, parents, done, level>>

Returned == result # "none" /\ UNCHANGED vars

Loop == Reject \/ Visit \/ Finish \/ Spin \/ Conclude

Next == Loop \/ Returned

Spec == Init /\ [][Next]_vars /\ WF_vars(Loop)

------------------------------------------------------------------------------
(***************************************************************************)
(* The reference: what a node reaches, without a traversal.  A set closed  *)
(* under the edges that has the node's neighbours has all of it.           *)
(***************************************************************************)
InGraph(n) == next[n] \cap Nodes

Closed(S) == \A m \in S : InGraph(m) \subseteq S

Reachable(n) ==
    { m \in Nodes : \A S \in SUBSET Nodes : InGraph(n) \subseteq S /\ Closed(S) => m \in S }

\* A DAG all of whose nodes are reached from the head.
WellFormed ==
    /\ \A n \in Nodes : next[n] \subseteq Nodes /\ n \notin Reachable(n)
    /\ Nodes = {head} \cup Reachable(head)

\* The graph is a single chain of nodes.
Chain == \A n \in Nodes : Cardinality(next[n]) <= 1

\* Every node but the head has a parent whose pool leads to its own.
Explained == \A n \in Nodes \ {head} : \E p \in Nodes : <<p, n>> \in explains

\* The types of the traversal's locals.
TypeOK ==
    /\ stack \in Seq(Nodes)
    /\ color \in [Nodes -> 0..2]
    /\ reachable \in [Nodes -> SUBSET Nodes]
    /\ parents \in [Nodes -> SUBSET Nodes]
    /\ done \in 0..Cardinality(Nodes)
    /\ level \in {"SO", "CPO"}
    /\ result \in Levels \cup {"none"}

(***************************************************************************)
(* A level the traversal returns is the right one: INVALID for exactly the *)
(* graphs that are not a connected DAG from the head, NPO when some pool   *)
(* follows from no parent, SO for chains and CPO for the others.  The      *)
(* assertion after the loop does not fail.                                 *)
(***************************************************************************)
LevelRight ==
    result # "none" =>
      result = IF ~WellFormed THEN "INVALID"
               ELSE IF ~Explained THEN "NPO"
               ELSE IF Chain THEN "SO" ELSE "CPO"

(***************************************************************************)
(* The map returned with a level is exact: it holds for every node the     *)
(* nodes it reaches, no matter in which order neighbours were pushed.      *)
(***************************************************************************)
ReachableRight ==
    result \in {"SO", "CPO", "NPO"} => \A n \in Nodes : reachable[n] = Reachable(n)

\* The assertion of line 99: a finished node's neighbours are all finished.
ChildrenDone ==
    \A n \in Nodes : color[n] = 2 => \A m \in next[n] : color[m] = 2

\* No node has two parents.
Tree == \A n \in Nodes : Cardinality({ p \in Nodes : n \in next[p] }) <= 1

(***************************************************************************)
(* The traversal terminates on every graph: fully visited nodes are        *)
(* ignored, as its comments say.                                           *)
(***************************************************************************)
Terminates == <>(result # "none")
==============================================================================
