----------------------------- MODULE Consistency ------------------------------
(***************************************************************************)
(* SatisfiedConstraints of pmodel/PSpec/Consistency.p and the assertions   *)
(* of the consistency models that rest on it: the traversal of module      *)
(* Convergence, then, unless the graph is malformed, the pass of module    *)
(* Relationship over the reachability map that the traversal leaves.       *)
(*                                                                         *)
(* A graph has its sessions and timestamps from the start; since only the  *)
(* pass looks at them, they are chosen when it begins.                     *)
(***************************************************************************)
EXTENDS Relationship, FiniteSets, Sequences

CONSTANTS Dangling,   \* node IDs edges may lead to that are not in the graph
          Heads       \* nodes that may be the head

ASSUME GraphAssumption == /\ Nodes # {} /\ IsFiniteSet(Nodes)
                          /\ Nodes \cap Dangling = {}
                          /\ CIds # {} /\ Heads \subseteq Nodes

VARIABLES next, head, explains,         \* the rest of the graph
          stack, color, parents, done,  \* the locals of ConvergenceConformity
          clevel, result,
          passing                       \* whether RelationshipConformity was called

Dfs == INSTANCE Convergence WITH level <- clevel

dvars == <<next, head, explains, stack, color, parents, done, clevel, result>>
pvars == <<cId, tsReq, tsResp, todo, level, returned>>
scvars == <<dvars, pvars, reachable, passing>>

SCInit ==
    /\ Dfs!Init
    /\ cId = [n \in Nodes |-> CHOOSE c \in CIds : TRUE]
    /\ tsReq = [n \in Nodes |-> 0]
    /\ tsResp = [n \in Nodes |-> 0]
    /\ todo = Pairs
    /\ level = "RT"
    /\ returned = FALSE
    /\ passing = FALSE

------------------------------------------------------------------------------
ConvergenceStep ==
    /\ Dfs!Loop
    /\ UNCHANGED <<pvars, passing>>

\* "for each client (i.e., session), its operations are strictly single-threaded"
SingleThreaded(cid, req, resp) ==
    \A p \in Pairs : cid[p[1]] = cid[p[2]] =>
                       resp[p[1]] < req[p[2]] \/ resp[p[2]] < req[p[1]]

\* The graph is not INVALID: its relationship level is looked for.
BeginPass ==
    /\ ~passing
    /\ result \in {"SO", "CPO", "NPO"}
    /\ cId' \in [Nodes -> CIds]
    /\ tsReq' \in [Nodes -> 0..MaxTs]
    /\ tsResp' \in [Nodes -> 0..MaxTs]
    /\ \A n \in Nodes : tsReq'[n] <= tsResp'[n]
    /\ SingleThreaded(cId', tsReq', tsResp')
    /\ passing' = TRUE
    /\ UNCHANGED <<dvars, reachable, todo, level, returned>>

RelationshipStep ==
    /\ passing
    /\ CheckPair \/ EndPass
    /\ UNCHANGED <<dvars, passing>>

Finished == result = "INVALID" \/ returned

SCDone == Finished /\ UNCHANGED scvars

SCLoop == ConvergenceStep \/ BeginPass \/ RelationshipStep

SCNext == SCLoop \/ SCDone

\* A function of P runs to its end.
SCSpec == SCInit /\ [][SCNext]_scvars /\ WF_scvars(SCLoop)

------------------------------------------------------------------------------
\* What the function returns.
SatisfiedConstraints ==
    IF result = "INVALID" THEN <<"INVALID", "NONE">> ELSE <<result, level>>

\* Mutant: CASL is good enough, as in the models below.
AssertLinearizability_Casl == SatisfiedConstraints \in {"SO"} \X {"RT", "CASL"}

AssertLinearizability == SatisfiedConstraints = <<"SO", "RT">>

AssertSequentialConsistency == SatisfiedConstraints = <<"SO", "CASL">>

AssertCausalConsistency == SatisfiedConstraints = <<"CPO", "CASL">>

\* Mutant: the convergence level is not asserted.
AssertPRAMConsistency_Any == SatisfiedConstraints[2] = "FIFO"

AssertPRAMConsistency == SatisfiedConstraints = <<"NPO", "FIFO">>

AssertEventualConsistency == SatisfiedConstraints = <<"CPO", "NONE">>

AssertWeakConsistency == SatisfiedConstraints = <<"NPO", "NONE">>

------------------------------------------------------------------------------
\* The types of both functions' arguments and locals.
SCTypeOK == TypeOK /\ Dfs!TypeOK /\ passing \in BOOLEAN

(***************************************************************************)
(* The level ConvergenceConformity returns is the right one: INVALID for   *)
(* exactly the graphs that are not a connected DAG from the head, NPO when *)
(* some pool follows from no parent, SO for chains and CPO for the others; *)
(* nor does its assertion fail that only the head has no parents.          *)
(***************************************************************************)
LevelRight == ~passing => Dfs!LevelRight

\* The assertion of line 99: a finished node's neighbours are all finished.
ChildrenDone == Dfs!ChildrenDone

(***************************************************************************)
(* The map handed from one function to the other is exact, and is all that *)
(* RelationshipConformity assumes of it (Init of module Relationship).     *)
(***************************************************************************)
HandOver ==
    result \in {"SO", "CPO", "NPO"} /\ ~passing =>
      Dfs!ReachableRight /\ ReachedFromHead(reachable)

(***************************************************************************)
(* The operations in one sequence from the head, each following from the   *)
(* one before it.                                                          *)
(***************************************************************************)
Follows(s) ==
    /\ s[1] = head
    /\ \A i \in DOMAIN s :
         IF i = Len(s) THEN next[s[i]] = {}
         ELSE next[s[i]] = {s[i + 1]} /\ <<s[i], s[i + 1]>> \in explains

TotalOrders == { s \in [1..Cardinality(Nodes) -> Nodes] :
                   (\A i, j \in DOMAIN s : i # j => s[i] # s[j]) /\ Follows(s) }

\* No operation comes before another that was over when it began.
KeepsRealTime(s) ==
    \A i, j \in DOMAIN s : i < j => ~(tsResp[s[j]] < tsReq[s[i]])
KeepsSessions(s) ==
    \A i, j \in DOMAIN s : i < j /\ cId[s[i]] = cId[s[j]] => ~(tsResp[s[j]] < tsReq[s[i]])

(***************************************************************************)
(* What the two strong models assert: the operations are in one sequence,  *)
(* each following from the one before it, and the sequence respects real   *)
(* time (linearizability), or the sessions and not real time (sequential   *)
(* consistency: the assertion compares levels with ==, and so refuses a    *)
(* history that is linearizable as well).                                  *)
(***************************************************************************)
TotalOrdersMean ==
    Finished =>
      /\ AssertLinearizability <=> \E s \in TotalOrders : KeepsRealTime(s)
      /\ AssertSequentialConsistency <=>
           \E s \in TotalOrders : KeepsSessions(s) /\ ~KeepsRealTime(s)

\* The pairs of operations a model may ask to be ordered, by paths of the graph.
Ordered(ps) == \A p \in ps : tsResp[p[1]] < tsReq[p[2]] => p[2] \in Dfs!Reachable(p[1])

InSession == { p \in Pairs : cId[p[1]] = cId[p[2]] }
NotWriteAfterRead == { p \in InSession : ~(TypOf(p[1]) = "READ" /\ TypOf(p[2]) = "WRITE") }

Converges == Dfs!Explained /\ ~Dfs!Chain

(***************************************************************************)
(* What the four weaker models assert of a graph without cycles all of     *)
(* whose operations are reached: its pools converge (causal, eventual) or  *)
(* not (PRAM, weak), and it orders what the model asks for and not what    *)
(* the next stronger one does.                                             *)
(***************************************************************************)
PartialOrdersMean ==
    Finished =>
      /\ AssertCausalConsistency <=> /\ Dfs!WellFormed /\ Converges
                                     /\ Ordered(InSession) /\ ~Ordered(Pairs)
      /\ AssertPRAMConsistency <=> /\ Dfs!WellFormed /\ ~Dfs!Explained
                                   /\ Ordered(NotWriteAfterRead) /\ ~Ordered(InSession)
      /\ AssertEventualConsistency <=> /\ Dfs!WellFormed /\ Converges
                                       /\ ~Ordered(NotWriteAfterRead)
      /\ AssertWeakConsistency <=> /\ Dfs!WellFormed /\ ~Dfs!Explained
                                   /\ ~Ordered(NotWriteAfterRead)

(***************************************************************************)
(* The check terminates on trees, the linear histories that the monitor of *)
(* PSpec/RefObjPool.p builds among them.                                   *)
(***************************************************************************)
TerminatesOnTrees == Dfs!Tree ~> Finished
==============================================================================
