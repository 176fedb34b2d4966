--------------------------- MODULE ConsistencyProofs ---------------------------
(***************************************************************************)
(* The consistency check of pmodel/PSpec/Consistency.p, for every finite   *)
(* graph, every order in which P lists neighbours and pairs, and any       *)
(* sessions and timestamps: what the traversal returns with its map is     *)
(* right, the pass over the pairs is exact, and the assertions mean what   *)
(* they are named for.                                                     *)
(***************************************************************************)
EXTENDS Consistency, SequenceTheorems, FiniteSetTheorems, WellFoundedInduction, TLAPS

(***************************************************************************)
(* A violation of a weaker constraint is one of every stronger constraint. *)
(* This is why lowering the level never calls for a second look at a pair. *)
(***************************************************************************)
LEMMA ViolationsNest ==
    ASSUME NEW p
    PROVE  /\ FIFOViolation(p) => CASLViolation(p)
           /\ CASLViolation(p) => RTViolation(p)
  BY DEF FIFOViolation, CASLViolation

(***************************************************************************)
(* One iteration of the loop keeps the level exact for the pairs seen.     *)
(***************************************************************************)
LEMMA LoweredExact ==
    ASSUME NEW ps, NEW p
    PROVE  Lowered(Conforming(ps), p) = Conforming(ps \cup {p})
  <1>1. CASE \A q \in ps : ~RTViolation(q)
    <2>1. Conforming(ps) = "RT" /\ \A q \in ps : ~CASLViolation(q) /\ ~FIFOViolation(q)
      BY <1>1, ViolationsNest DEF Conforming
    <2> QED
      BY <1>1, <2>1, ViolationsNest DEF Conforming, Lowered, AfterRT, AfterCASL, AfterFIFO
  <1>2. CASE /\ \E q \in ps : RTViolation(q)
             /\ \A q \in ps : ~CASLViolation(q)
    <2>1. Conforming(ps) = "CASL" /\ \A q \in ps : ~FIFOViolation(q)
      BY <1>2, ViolationsNest DEF Conforming
    <2> QED
      BY <1>2, <2>1, ViolationsNest DEF Conforming, Lowered, AfterRT, AfterCASL, AfterFIFO
  <1>3. CASE /\ \E q \in ps : CASLViolation(q)
             /\ \A q \in ps : ~FIFOViolation(q)
    <2>1. Conforming(ps) = "FIFO" /\ \E q \in ps : RTViolation(q)
      BY <1>3, ViolationsNest DEF Conforming
    <2> QED
      BY <1>3, <2>1, ViolationsNest DEF Conforming, Lowered, AfterRT, AfterCASL, AfterFIFO
  <1>4. CASE \E q \in ps : FIFOViolation(q)
    <2>1. /\ Conforming(ps) = "NONE"
          /\ \E q \in ps : RTViolation(q)
          /\ \E q \in ps : CASLViolation(q)
      BY <1>4, ViolationsNest DEF Conforming
    <2> QED
      BY <1>4, <2>1, ViolationsNest DEF Conforming, Lowered, AfterRT, AfterCASL, AfterFIFO
  <1> QED
    BY <1>1, <1>2, <1>3, <1>4

\* One step of the pass keeps the level exact for the pairs looked at.
LEMMA PassKeeps ==
    ASSUME todo \subseteq Pairs, LevelSoFar, CheckPair \/ EndPass
    PROVE  (todo \subseteq Pairs /\ LevelSoFar)'
<1>1. CASE CheckPair
  <2>1. PICK p \in todo : /\ todo' = todo \ {p}
                          /\ level' = Lowered(level, p)
                          /\ returned' = (level' = "NONE")
      BY <1>1 DEF CheckPair
  <2>2. (Pairs \ todo) \cup {p} = Pairs \ (todo \ {p})
      BY <2>1
  <2>3. Lowered(level, p) = Conforming(Pairs \ (todo \ {p}))
      BY <2>2, LoweredExact DEF LevelSoFar
  <2>4. UNCHANGED graph /\ Pairs' = Pairs
      BY <1>1 DEF CheckPair, Pairs
  <2>5. level' = Conforming(Pairs \ todo)'
      BY <2>1, <2>3, <2>4 DEF graph, Conforming, FIFOViolation, CASLViolation, RTViolation
  <2> QED
      BY <2>1, <2>4, <2>5 DEF LevelSoFar
<1>2. CASE EndPass
    BY <1>2 DEF EndPass, LevelSoFar, graph, Conforming, Pairs, FIFOViolation,
                CASLViolation, RTViolation
<1> QED
    BY <1>1, <1>2

\* When the pass returns, no pair it has not looked at can change the level.
LEMMA PassDone ==
    ASSUME todo \subseteq Pairs, LevelSoFar
    PROVE  LevelExact
<1>1. CASE todo = {}
    BY <1>1 DEF LevelSoFar, LevelExact
<1>2. CASE level = "NONE"
  <2>1. ~\A p \in Pairs \ todo : ~FIFOViolation(p)
      BY <1>2 DEF LevelSoFar, Conforming
  <2>2. PICK p \in Pairs : FIFOViolation(p)
      BY <2>1
  <2> QED
      BY <1>2, <2>2, ViolationsNest DEF LevelExact, Conforming
<1> QED
    BY <1>1, <1>2 DEF LevelSoFar, LevelExact

(***************************************************************************)
(* The level is exact for the pairs looked at so far, at every point of    *)
(* the pass of RelationshipConformity.                                     *)
(***************************************************************************)
THEOREM PassExactSoFar == Spec => [](todo \subseteq Pairs /\ LevelSoFar)
<1> DEFINE Inv == todo \subseteq Pairs /\ LevelSoFar
<1>1. Init => Inv
    BY DEF Init, LevelSoFar, Conforming
<1>2. Inv /\ [Next]_vars => Inv'
  <2> SUFFICES ASSUME Inv, [Next]_vars PROVE Inv'
      OBVIOUS
  <2>1. CASE CheckPair \/ EndPass
      BY <2>1, PassKeeps
  <2>2. CASE Returned \/ UNCHANGED vars
      BY <2>2 DEF Returned, LevelSoFar, vars, graph, Conforming, Pairs, FIFOViolation,
                  CASLViolation, RTViolation
  <2> QED
      BY <2>1, <2>2 DEF Next
<1> QED
    BY <1>1, <1>2, PTL DEF Spec

(***************************************************************************)
(* RelationshipConformity returns the level of the definition, for any     *)
(* graph and any order of the pairs.                                       *)
(***************************************************************************)
THEOREM PassExact == Spec => []LevelExact
    BY PassDone, PassExactSoFar, PTL

------------------------------------------------------------------------------
(***************************************************************************)
(* The traversal.  A node is in progress from its first visit until it is  *)
(* on top of the stack again.  The stack above it holds only nodes it      *)
(* reaches, and among them all its neighbours that are not finished.  A    *)
(* node that is finished has the right map, of nodes that are finished.    *)
(***************************************************************************)
Blacks == { n \in Nodes : color[n] = 2 }

\* A node g with neighbours to, and what is on the stack above it.
InProgress(stk, col, g, to, reached) ==
    \E i \in 1..Len(stk) :
      /\ stk[i] = g
      /\ \A j \in 1..Len(stk) : j > i => stk[j] # g /\ stk[j] \in reached
      /\ \A m \in to : col[m] = 2 \/ \E j \in 1..Len(stk) : j > i /\ stk[j] = m

GrayAbove ==
    \A g \in Nodes : color[g] = 1 =>
      InProgress(stack, color, g, next[g], Dfs!Reachable(g))

BlackDone ==
    \A n \in Nodes : color[n] = 2 =>
      /\ next[n] \subseteq Blacks
      /\ reachable[n] = Dfs!Reachable(n)
      /\ reachable[n] \subseteq Blacks \ {n}

\* Every node met so far is the head or reached from it, and has its edges inside.
Met == {head} \cup Dfs!Reachable(head)

FromHead ==
    /\ \A i \in 1..Len(stack) : stack[i] \in Met
    /\ \A n \in Nodes : color[n] # 0 => n \in Met /\ next[n] \subseteq Nodes

\* The head is at the bottom of the stack until it is finished.
HeadFirst == IF stack = <<>> THEN color[head] = 2 ELSE stack[1] = head

\* The other locals, as functions of the colours.
Wide(n) == Cardinality(next[n]) > 1

LocalsRight ==
    /\ done = Cardinality(Blacks)
    /\ clevel = IF \E n \in Nodes : color[n] # 0 /\ Wide(n) THEN "CPO" ELSE "SO"
    /\ \A n \in Nodes : parents[n] = { p \in Nodes : color[p] # 0 /\ n \in next[p] }

\* The graph, which does not change.
Graph ==
    /\ next \in Dfs!Graphs
    /\ head \in Nodes
    /\ explains \subseteq Nodes \X Nodes
    /\ \A a, b \in Nodes : <<a, b>> \in explains => b \in next[a]

\* A level is returned when all nodes are finished.
AllDone == result \in {"SO", "CPO", "NPO"} => Blacks = Nodes

Traversed ==
    /\ Graph /\ Dfs!TypeOK
    /\ GrayAbove /\ BlackDone
    /\ FromHead /\ HeadFirst /\ LocalsRight

DfsInv == Traversed /\ AllDone /\ Dfs!LevelRight

------------------------------------------------------------------------------
(***************************************************************************)
(* Reachability.                                                           *)
(***************************************************************************)
\* A closed set with the neighbours of a node has all it reaches.
LEMMA ReachLeast ==
    ASSUME NEW n \in Nodes, NEW S \in SUBSET Nodes, next[n] \cap Nodes \subseteq S,
           \A m \in S : next[m] \cap Nodes \subseteq S
    PROVE  Dfs!Reachable(n) \subseteq S
    BY DEF Dfs!Reachable, Dfs!InGraph, Dfs!Closed

\* A node reaches its neighbours, and theirs.
LEMMA ReachSteps ==
    ASSUME NEW n \in Nodes
    PROVE  /\ Dfs!Reachable(n) \subseteq Nodes
           /\ next[n] \cap Nodes \subseteq Dfs!Reachable(n)
           /\ \A m \in Dfs!Reachable(n) : next[m] \cap Nodes \subseteq Dfs!Reachable(n)
<1>1. Dfs!Reachable(n) \subseteq Nodes
    BY DEF Dfs!Reachable
<1>2. next[n] \cap Nodes \subseteq Dfs!Reachable(n)
    BY DEF Dfs!Reachable, Dfs!InGraph
<1>3. ASSUME NEW m \in Dfs!Reachable(n), NEW x \in next[m] \cap Nodes
      PROVE  x \in Dfs!Reachable(n)
  <2>1. ASSUME NEW S \in SUBSET Nodes, Dfs!InGraph(n) \subseteq S, Dfs!Closed(S)
        PROVE  x \in S
    <3>1. m \in S
        BY <1>3, <2>1 DEF Dfs!Reachable
    <3> QED
        BY <1>3, <2>1, <3>1 DEF Dfs!Closed, Dfs!InGraph
  <2> QED
      BY <2>1 DEF Dfs!Reachable
<1> QED
    BY <1>1, <1>2, <1>3

\* What a reached node reaches is reached.
LEMMA ReachFurther ==
    ASSUME NEW n \in Nodes, NEW m \in Nodes, m \in Dfs!Reachable(n) \/ m \in next[n]
    PROVE  m \in Dfs!Reachable(n) /\ Dfs!Reachable(m) \subseteq Dfs!Reachable(n)
<1>1. m \in Dfs!Reachable(n)
    BY ReachSteps
<1>2. next[m] \cap Nodes \subseteq Dfs!Reachable(n)
    BY <1>1, ReachSteps
<1> DEFINE S == Dfs!Reachable(n)
<1>3. S \in SUBSET Nodes /\ \A x \in S : next[x] \cap Nodes \subseteq S
    BY ReachSteps
<1> HIDE DEF S
<1>4. Dfs!Reachable(m) \subseteq S
    BY <1>2, <1>3, ReachLeast DEF S
<1> QED
    BY <1>1, <1>4 DEF S

\* It is a matter of the edges alone.
LEMMA ReachSame ==
    ASSUME next' = next, NEW n
    PROVE  Dfs!Reachable(n)' = Dfs!Reachable(n)
    BY DEF Dfs!Reachable, Dfs!InGraph, Dfs!Closed

\* The traversal counts as this module does.
LEMMA SameCount ==
    ASSUME NEW S
    PROVE  Dfs!Cardinality(S) = Cardinality(S)
    BY DEF Cardinality, Dfs!Cardinality

\* The neighbours pushed: each of them is somewhere in the sequence.
LEMMA Pushed ==
    ASSUME NEW W \in SUBSET Nodes, NEW pushed \in Dfs!SetToSeqs(W)
    PROVE  /\ pushed \in Seq(Nodes)
           /\ \A i \in 1..Len(pushed) : pushed[i] \in W
           /\ \A m \in W : \E i \in 1..Len(pushed) : pushed[i] = m
<1> DEFINE k == Cardinality(W)
<1>1. IsFiniteSet(W) /\ k \in Nat
    BY GraphAssumption, FS_Subset, FS_CardinalityType
<1>2. /\ pushed \in [1..k -> W]
      /\ \A i, j \in 1..k : i # j => pushed[i] # pushed[j]
    BY SameCount DEF Dfs!SetToSeqs
<1> HIDE DEF k
<1>3. pushed \in Injection(1..k, W)
    BY <1>2 DEF Injection, IsInjective
<1>4. Cardinality(1..k) = k
  <2>1. k \in Int /\ 1 \in Int
      BY <1>1
  <2>2. Cardinality(1..k) = IF 1 > k THEN 0 ELSE k - 1 + 1
      BY <2>1, FS_Interval
  <2> QED
      BY <1>1, <2>2
<1>5. pushed \in Surjection(1..k, W)
    BY <1>1, <1>3, <1>4, FS_Injection DEF k
<1>6. pushed \in Seq(Nodes) /\ Len(pushed) = k
    BY <1>1, <1>2
<1> QED
    BY <1>2, <1>5, <1>6 DEF Surjection

\* The top of the stack.
LEMMA Top ==
    ASSUME Dfs!TypeOK, stack # <<>>
    PROVE  /\ Len(stack) \in Nat \ {0}
           /\ Dfs!curr = stack[Len(stack)]
           /\ Dfs!curr \in Nodes
    BY DEF Dfs!TypeOK, Dfs!curr, Dfs!Last

------------------------------------------------------------------------------
(***************************************************************************)
(* One lemma per step of the traversal.                                    *)
(***************************************************************************)
LEMMA VisitKeeps ==
    ASSUME Traversed, Dfs!Visit
    PROVE  Traversed'
<1> DEFINE c == Dfs!curr
           n == Len(stack)
           W == { m \in next[c] : color[m] = 0 }
<1>1. /\ Graph /\ Dfs!TypeOK /\ GrayAbove /\ BlackDone
      /\ FromHead /\ HeadFirst /\ LocalsRight
    BY DEF Traversed
<1>2. /\ n \in Nat \ {0} /\ c = stack[n] /\ c \in Nodes
      /\ color[c] = 0
      /\ next[c] \subseteq Nodes \ {c}
      /\ \A m \in next[c] : color[m] # 1
      /\ stack \in Seq(Nodes) /\ color \in [Nodes -> 0..2]
    BY <1>1, Top DEF Dfs!Visit, Dfs!Running, Dfs!Acceptable, Dfs!TypeOK
<1>3. /\ color' = [color EXCEPT ![c] = 1]
      /\ clevel' = IF clevel = "SO" /\ Cardinality(next[c]) > 1 THEN "CPO" ELSE clevel
      /\ parents' = [m \in Nodes |-> IF m \in next[c] THEN parents[m] \cup {c} ELSE parents[m]]
      /\ UNCHANGED <<next, head, explains, reachable, done, result>>
    BY SameCount DEF Dfs!Visit, Dfs!graph
<1>4. PICK pushed \in Dfs!SetToSeqs(W) : stack' = stack \o pushed
    BY DEF Dfs!Visit
<1>w. W \in SUBSET Nodes
    BY <1>2
<1> HIDE DEF c, W
<1>5. /\ pushed \in Seq(Nodes)
      /\ \A i \in 1..Len(pushed) : pushed[i] \in W
      /\ \A m \in W : \E i \in 1..Len(pushed) : pushed[i] = m
    BY <1>w, Pushed
<1> DEFINE stk == stack \o pushed
<1>6. stk \in Seq(Nodes) /\ Len(stk) = n + Len(pushed) /\ Len(pushed) \in Nat
    BY <1>2, <1>5
<1>7. \A j \in 1..n : j \in 1..Len(stk) /\ stk[j] = stack[j]
    BY <1>2, <1>5
<1>8. ASSUME NEW j \in 1..Len(stk), j > n
      PROVE  stk[j] \in W
  <2>1. stk[j] = pushed[j - n] /\ j - n \in 1..Len(pushed)
      BY <1>2, <1>5, <1>8
  <2> QED
      BY <2>1, <1>5
<1>9. ASSUME NEW m \in W
      PROVE  \E j \in 1..Len(stk) : j > n /\ stk[j] = m
  <2>1. PICK i \in 1..Len(pushed) : pushed[i] = m
      BY <1>5, <1>9
  <2>2. n + i \in 1..Len(stk) /\ n + i > n /\ stk[n + i] = pushed[i]
      BY <1>2, <1>5
  <2> QED
      BY <2>1, <2>2
<1>10. stack' = stk
    BY <1>4
<1> HIDE DEF stk, n
<1> DEFINE col == [color EXCEPT ![c] = 1]
<1>11. ASSUME NEW g \in Nodes, col[g] = 1
       PROVE  InProgress(stk, col, g, next[g], Dfs!Reachable(g))
  <2>1. CASE g = c
    <3>1. n \in 1..Len(stk) /\ stk[n] = c
        BY <1>2, <1>7
    <3>2. ASSUME NEW j \in 1..Len(stk), j > n
          PROVE  stk[j] # c /\ stk[j] \in Dfs!Reachable(c)
        BY <1>2, <1>8, <3>2, ReachFurther DEF W
    <3>3. ASSUME NEW m \in next[c]
          PROVE  col[m] = 2 \/ \E j \in 1..Len(stk) : j > n /\ stk[j] = m
        BY <1>2, <1>9, <3>3 DEF W
    <3> QED
        BY <2>1, <3>1, <3>2, <3>3 DEF InProgress
  <2>2. CASE g # c
    <3>1. color[g] = 1
        BY <2>2, <1>11, <1>2
    <3>2. PICK i \in 1..n :
            /\ stack[i] = g
            /\ \A j \in 1..n : j > i => stack[j] # g /\ stack[j] \in Dfs!Reachable(g)
            /\ \A m \in next[g] : color[m] = 2 \/ \E j \in 1..n : j > i /\ stack[j] = m
        BY <3>1, <1>1 DEF GrayAbove, InProgress, n
    <3>3. i < n /\ n \in 1..n
        BY <3>2, <2>2, <1>2
    <3>4. c \in Dfs!Reachable(g)
        BY <3>2, <3>3, <1>2
    <3>5. i \in 1..Len(stk) /\ stk[i] = g
        BY <3>2, <1>7
    <3>6. ASSUME NEW j \in 1..Len(stk), j > i
          PROVE  stk[j] # g /\ stk[j] \in Dfs!Reachable(g)
      <4>1. CASE j \in 1..n
          BY <4>1, <3>2, <3>6, <1>7
      <4>2. CASE j > n
        <5>1. stk[j] \in next[c] /\ color[stk[j]] = 0 /\ stk[j] \in Nodes
            BY <4>2, <1>8, <1>w DEF W
        <5>2. next[c] \cap Nodes \subseteq Dfs!Reachable(g)
            BY <3>4, ReachSteps
        <5> QED
            BY <5>1, <5>2, <3>1
      <4> QED
          BY <4>1, <4>2, <1>2, <1>6
    <3>7. ASSUME NEW m \in next[g]
          PROVE  col[m] = 2 \/ \E j \in 1..Len(stk) : j > i /\ stk[j] = m
      <4>1. CASE color[m] = 2
        <5>1. m # c
            BY <4>1, <1>2
        <5> QED
            BY <4>1, <5>1, <1>2
      <4>2. CASE \E j \in 1..n : j > i /\ stack[j] = m
          BY <4>2, <1>7
      <4> QED
          BY <4>1, <4>2, <3>2
    <3> QED
        BY <3>5, <3>6, <3>7 DEF InProgress
  <2> QED
      BY <2>1, <2>2
<1>12. color' = col /\ \A m \in Nodes : (col[m] = 2 <=> color[m] = 2) /\ (col[m] # 0 <=> m = c \/ color[m] # 0)
    BY <1>2, <1>3
<1>13. \A m : Dfs!Reachable(m)' = Dfs!Reachable(m)
    BY <1>3, ReachSame
<1> HIDE DEF col
<1>14. GrayAbove'
    BY <1>3, <1>10, <1>11, <1>12, <1>13 DEF GrayAbove
<1>15. Blacks' = Blacks
    BY <1>12 DEF Blacks
<1>16. BlackDone'
    BY <1>1, <1>3, <1>12, <1>13, <1>15 DEF BlackDone
<1>17. FromHead'
  <2>1. Met' = Met
      BY <1>3, <1>13 DEF Met
  <2>2. c \in Met
      BY <1>1, <1>2 DEF FromHead, n
  <2>3. next[c] \subseteq Met
      BY <1>1, <1>2, <2>2, ReachSteps DEF Met, Graph
  <2>4. \A i \in 1..Len(stk) : stk[i] \in Met
    <3> SUFFICES ASSUME NEW i \in 1..Len(stk) PROVE stk[i] \in Met
        OBVIOUS
    <3>1. CASE i \in 1..n
        BY <3>1, <1>1, <1>7 DEF FromHead, n
    <3>2. CASE i > n
        BY <3>2, <1>8, <2>3 DEF W
    <3> QED
        BY <3>1, <3>2, <1>2, <1>6
  <2>5. \A m \in Nodes : col[m] # 0 => m \in Met /\ next[m] \subseteq Nodes
      BY <1>1, <1>2, <1>12, <2>2 DEF FromHead
  <2> QED
      BY <2>1, <2>4, <2>5, <1>3, <1>10, <1>12 DEF FromHead
<1>18. HeadFirst'
  <2>1. stk # <<>> /\ stk[1] = stack[1] /\ stack # <<>>
      BY <1>2, <1>6, <1>7 DEF n
  <2> QED
      BY <2>1, <1>1, <1>3, <1>10 DEF HeadFirst
<1>19. LocalsRight'
  <2>1. done' = Cardinality(Blacks)'
      BY <1>1, <1>3, <1>15 DEF LocalsRight
  <2>2. \A m : Wide(m)' = Wide(m)
      BY <1>3 DEF Wide
  <2>3. clevel' = IF \E m \in Nodes : col[m] # 0 /\ Wide(m) THEN "CPO" ELSE "SO"
      BY <1>1, <1>2, <1>3, <1>12 DEF LocalsRight, Wide
  <2>4. \A m \in Nodes : parents'[m] = { p \in Nodes : col[p] # 0 /\ m \in next[p] }
    <3> SUFFICES ASSUME NEW m \in Nodes
                 PROVE  parents'[m] = { p \in Nodes : col[p] # 0 /\ m \in next[p] }
        OBVIOUS
    <3>1. parents[m] = { p \in Nodes : color[p] # 0 /\ m \in next[p] }
        BY <1>1 DEF LocalsRight
    <3>2. parents'[m] = IF m \in next[c] THEN parents[m] \cup {c} ELSE parents[m]
        BY <1>3
    <3> QED
        BY <3>1, <3>2, <1>2, <1>12
  <2> QED
      BY <2>1, <2>2, <2>3, <2>4, <1>3, <1>12 DEF LocalsRight
<1>20. Graph' /\ Dfs!TypeOK'
  <2>1. Graph'
      BY <1>1, <1>3 DEF Graph, Dfs!Graphs
  <2>2. stack' \in Seq(Nodes) /\ color' \in [Nodes -> 0..2]
      BY <1>2, <1>3, <1>6, <1>10
  <2>3. parents' \in [Nodes -> SUBSET Nodes] /\ clevel' \in {"SO", "CPO"}
      BY <1>1, <1>2, <1>3 DEF Dfs!TypeOK
  <2> QED
      BY <2>1, <2>2, <2>3, <1>1, <1>3 DEF Dfs!TypeOK
<1> QED
    BY <1>14, <1>16, <1>17, <1>18, <1>19, <1>20 DEF Traversed

LEMMA FinishKeeps ==
    ASSUME Traversed, Dfs!Finish
    PROVE  Traversed'
<1> DEFINE c == Dfs!curr
           n == Len(stack)
           R == next[c] \cup UNION { reachable[m] : m \in next[c] }
<1>1. /\ Graph /\ Dfs!TypeOK /\ GrayAbove /\ BlackDone
      /\ FromHead /\ HeadFirst /\ LocalsRight
    BY DEF Traversed
<1>2. /\ n \in Nat \ {0} /\ c = stack[n] /\ c \in Nodes
      /\ color[c] = 1
      /\ stack \in Seq(Nodes) /\ color \in [Nodes -> 0..2]
      /\ reachable \in [Nodes -> SUBSET Nodes]
    BY <1>1, Top DEF Dfs!Finish, Dfs!Running, Dfs!TypeOK
<1>3. /\ color' = [color EXCEPT ![c] = 2]
      /\ reachable' = [reachable EXCEPT ![c] = R]
      /\ done' = done + 1
      /\ UNCHANGED <<next, head, explains, parents, clevel, result>>
    BY DEF Dfs!Finish, Dfs!graph
<1> DEFINE stk == SubSeq(stack, 1, n - 1)
<1>4. stack' = stk
    BY DEF Dfs!Finish, Dfs!Front
<1>5. /\ stk \in Seq(Nodes) /\ Len(stk) = n - 1
      /\ \A j \in 1..(n - 1) : j \in 1..n /\ stk[j] = stack[j]
  <2>1. \A j \in 1..(n - 1) : j \in 1..n
      BY <1>2
  <2> DEFINE k == n - 1
  <2>2. k \in Int /\ k \in Nat /\ 1 \in Int /\ \A j \in 1..k : stack[j] \in Nodes
      BY <1>2, <2>1
  <2> HIDE DEF k
  <2>3. /\ SubSeq(stack, 1, k) \in Seq(Nodes)
        /\ Len(SubSeq(stack, 1, k)) = IF 1 <= k THEN k - 1 + 1 ELSE 0
        /\ \A j \in 1..(k - 1 + 1) : SubSeq(stack, 1, k)[j] = stack[1 + j - 1]
      BY <2>2, SubSeqProperties
  <2>4. /\ Len(SubSeq(stack, 1, k)) = k
        /\ \A j \in 1..k : SubSeq(stack, 1, k)[j] = stack[j]
      BY <2>2, <2>3
  <2> QED
      BY <2>1, <2>3, <2>4 DEF k
<1> HIDE DEF c, R, stk, n
<1>6. /\ next[c] \subseteq Nodes
      /\ \A m \in next[c] : color[m] = 2
  <2>1. PICK i \in 1..n :
          /\ stack[i] = c
          /\ \A j \in 1..n : j > i => stack[j] # c /\ stack[j] \in Dfs!Reachable(c)
          /\ \A m \in next[c] : color[m] = 2 \/ \E j \in 1..n : j > i /\ stack[j] = m
      BY <1>1, <1>2 DEF GrayAbove, InProgress, n
  <2>2. i = n
      BY <2>1, <1>2
  <2>3. next[c] \subseteq Nodes
      BY <1>1, <1>2 DEF FromHead
  <2> QED
      BY <2>1, <2>2, <2>3, <1>2
<1>7. ASSUME NEW m \in next[c]
      PROVE  /\ m \in Nodes /\ next[m] \subseteq Nodes
             /\ reachable[m] = Dfs!Reachable(m)
             /\ reachable[m] \subseteq Blacks /\ m \in Blacks
    BY <1>1, <1>6, <1>7 DEF BlackDone, FromHead, Blacks
<1>8. R \subseteq Blacks /\ R \subseteq Nodes /\ c \notin R
    BY <1>2, <1>7 DEF R, Blacks
<1>9. R = Dfs!Reachable(c)
  <2>1. \A x \in R : next[x] \cap Nodes \subseteq R
    <3> SUFFICES ASSUME NEW x \in R PROVE next[x] \cap Nodes \subseteq R
        OBVIOUS
    <3>1. CASE x \in next[c]
        BY <3>1, <1>7, ReachSteps DEF R
    <3>2. CASE \E m \in next[c] : x \in reachable[m]
        BY <3>2, <1>7, ReachSteps DEF R
    <3> QED
        BY <3>1, <3>2 DEF R
  <2>2. next[c] \cap Nodes \subseteq R
      BY DEF R
  <2>3. Dfs!Reachable(c) \subseteq R
      BY <1>2, <1>8, <2>1, <2>2, ReachLeast
  <2>4. ASSUME NEW m \in next[c]
        PROVE  m \in Dfs!Reachable(c) /\ reachable[m] \subseteq Dfs!Reachable(c)
      BY <1>2, <1>7, <2>4, ReachFurther
  <2> QED
      BY <2>3, <2>4 DEF R
<1> DEFINE col == [color EXCEPT ![c] = 2]
<1>10. color' = col /\ \A m \in Nodes : (col[m] = 2 <=> m = c \/ color[m] = 2)
                                     /\ (col[m] # 0 <=> color[m] # 0)
                                     /\ (col[m] = 1 <=> m # c /\ color[m] = 1)
    BY <1>2, <1>3
<1>11. \A m : Dfs!Reachable(m)' = Dfs!Reachable(m)
    BY <1>3, ReachSame
<1> HIDE DEF col
<1>12. ASSUME NEW g \in Nodes, col[g] = 1
       PROVE  InProgress(stk, col, g, next[g], Dfs!Reachable(g))
  <2>1. color[g] = 1 /\ g # c
      BY <1>10, <1>12
  <2>2. PICK i \in 1..n :
          /\ stack[i] = g
          /\ \A j \in 1..n : j > i => stack[j] # g /\ stack[j] \in Dfs!Reachable(g)
          /\ \A m \in next[g] : color[m] = 2 \/ \E j \in 1..n : j > i /\ stack[j] = m
      BY <2>1, <1>1 DEF GrayAbove, InProgress, n
  <2>3. i \in 1..(n - 1)
      BY <2>1, <2>2, <1>2
  <2>4. ASSUME NEW m \in next[g]
        PROVE  col[m] = 2 \/ \E j \in 1..(n - 1) : j > i /\ stk[j] = m
    <3>1. m \in Nodes
        BY <2>1, <1>1 DEF FromHead
    <3>2. CASE color[m] = 2 \/ m = c
        BY <3>1, <3>2, <1>10
    <3>3. CASE m # c /\ \E j \in 1..n : j > i /\ stack[j] = m
      <4>1. PICK j \in 1..n : j > i /\ stack[j] = m
          BY <3>3
      <4>2. j \in 1..(n - 1)
          BY <4>1, <3>3, <1>2
      <4> QED
          BY <4>1, <4>2, <1>5
    <3> QED
        BY <3>2, <3>3, <2>2
  <2> QED
      BY <2>2, <2>3, <2>4, <1>5 DEF InProgress
<1>13. GrayAbove'
    BY <1>3, <1>4, <1>10, <1>11, <1>12 DEF GrayAbove
<1>14. Blacks' = Blacks \cup {c}
    BY <1>2, <1>10 DEF Blacks
<1>15. BlackDone'
  <2> SUFFICES ASSUME NEW m \in Nodes, color'[m] = 2
               PROVE  (/\ next[m] \subseteq Blacks
                       /\ reachable[m] = Dfs!Reachable(m)
                       /\ reachable[m] \subseteq Blacks \ {m})'
      BY DEF BlackDone
  <2>1. CASE m = c
    <3>1. reachable'[m] = R /\ next[m] \subseteq Blacks
        BY <2>1, <1>2, <1>3, <1>7
    <3> QED
        BY <2>1, <3>1, <1>3, <1>8, <1>9, <1>11, <1>14
  <2>2. CASE m # c
    <3>1. color[m] = 2 /\ reachable'[m] = reachable[m]
        BY <2>2, <1>2, <1>3
    <3> QED
        BY <3>1, <1>1, <1>3, <1>11, <1>14 DEF BlackDone
  <2> QED
      BY <2>1, <2>2
<1>16. FromHead'
  <2>1. Met' = Met
      BY <1>3, <1>11 DEF Met
  <2>2. \A i \in 1..Len(stk) : stk[i] \in Met
      BY <1>1, <1>5 DEF FromHead, n
  <2> QED
      BY <2>1, <2>2, <1>1, <1>3, <1>4, <1>10 DEF FromHead
<1>17. HeadFirst'
  <2>1. stack[1] = head
      BY <1>1, <1>2 DEF HeadFirst, n
  <2>2. CASE n = 1
    <3>1. stk = <<>> /\ col[head] = 2
        BY <2>1, <2>2, <1>2, <1>5, <1>10
    <3> QED
        BY <3>1, <1>3, <1>4, <1>10 DEF HeadFirst
  <2>3. CASE n > 1
    <3>1. stk # <<>> /\ stk[1] = head
        BY <2>1, <2>3, <1>2, <1>5
    <3> QED
        BY <3>1, <1>3, <1>4 DEF HeadFirst
  <2> QED
      BY <2>2, <2>3, <1>2
<1>18. /\ done + 1 = Cardinality(Blacks \cup {c})
       /\ Cardinality(Blacks \cup {c}) \in 0..Cardinality(Nodes)
  <2>1. IsFiniteSet(Blacks) /\ c \notin Blacks /\ Blacks \cup {c} \subseteq Nodes
      BY <1>2, GraphAssumption, FS_Subset DEF Blacks
  <2>2. Cardinality(Blacks \cup {c}) = Cardinality(Blacks) + 1
      BY <2>1, FS_AddElement
  <2>3. /\ Cardinality(Blacks \cup {c}) <= Cardinality(Nodes)
        /\ IsFiniteSet(Blacks \cup {c})
      BY <2>1, GraphAssumption, FS_Subset
  <2>4. Cardinality(Nodes) \in Nat /\ Cardinality(Blacks \cup {c}) \in Nat
      BY <2>3, GraphAssumption, FS_CardinalityType
  <2> QED
      BY <2>2, <2>3, <2>4, <1>1 DEF LocalsRight
<1>19. LocalsRight'
  <2>1. done' = Cardinality(Blacks)'
      BY <1>3, <1>14, <1>18
  <2>2. \A m : Wide(m)' = Wide(m)
      BY <1>3 DEF Wide
  <2> QED
      BY <2>1, <2>2, <1>1, <1>3, <1>10 DEF LocalsRight
<1>20. Graph' /\ Dfs!TypeOK'
  <2>1. Graph'
      BY <1>1, <1>3 DEF Graph, Dfs!Graphs
  <2>2. stack' \in Seq(Nodes) /\ color' \in [Nodes -> 0..2]
      BY <1>2, <1>3, <1>4, <1>5
  <2>3. reachable' \in [Nodes -> SUBSET Nodes]
      BY <1>2, <1>3, <1>8
  <2>4. done' \in 0..Dfs!Cardinality(Nodes)
      BY <1>3, <1>18, SameCount
  <2> QED
      BY <2>1, <2>2, <2>3, <2>4, <1>1, <1>3 DEF Dfs!TypeOK
<1> QED
    BY <1>13, <1>15, <1>16, <1>17, <1>19, <1>20 DEF Traversed

\* A graph is rejected for an edge out of it or for a cycle.
LEMMA RejectRight ==
    ASSUME Traversed, Dfs!Reject
    PROVE  ~Dfs!WellFormed
<1> DEFINE c == Dfs!curr
           n == Len(stack)
<1>1. Dfs!TypeOK /\ GrayAbove
    BY DEF Traversed
<1>2. /\ n \in Nat \ {0} /\ c = stack[n] /\ c \in Nodes
      /\ color[c] = 0
    BY <1>1, Top DEF Dfs!Reject, Dfs!Running
<1>3. PICK m \in next[c] : ~(m \in Nodes \ {c} /\ color[m] # 1)
    BY DEF Dfs!Reject, Dfs!Acceptable
<1> HIDE DEF c, n
<1>4. CASE m \notin Nodes
    BY <1>2, <1>3, <1>4 DEF Dfs!WellFormed
<1>5. CASE m = c
    BY <1>2, <1>3, <1>5, ReachFurther DEF Dfs!WellFormed
<1>6. CASE m \in Nodes /\ color[m] = 1
  <2>1. PICK i \in 1..n :
          /\ stack[i] = m
          /\ \A j \in 1..n : j > i => stack[j] # m /\ stack[j] \in Dfs!Reachable(m)
      BY <1>1, <1>6 DEF GrayAbove, InProgress, n
  <2>2. i < n /\ n \in 1..n
      BY <2>1, <1>2, <1>6
  <2>3. c \in Dfs!Reachable(m)
      BY <2>1, <2>2, <1>2
  <2>4. m \in Dfs!Reachable(m)
      BY <2>3, <1>3, <1>6, ReachSteps
  <2> QED
      BY <2>4, <1>6 DEF Dfs!WellFormed
<1> QED
    BY <1>3, <1>4, <1>5, <1>6

\* When the stack is empty, what the head reaches is finished.
LEMMA EmptyStack ==
    ASSUME Traversed, stack = <<>>
    PROVE  /\ \A m \in Nodes : color[m] = 0 \/ color[m] = 2
           /\ Met \subseteq Blacks
<1>1. /\ Dfs!TypeOK /\ GrayAbove /\ BlackDone /\ HeadFirst
      /\ head \in Nodes
    BY DEF Traversed, Graph
<1>2. \A m \in Nodes : color[m] # 1
    BY <1>1 DEF GrayAbove, InProgress
<1>3. color[head] = 2
    BY <1>1 DEF HeadFirst
<1>4. \A m \in Nodes : color[m] \in 0..2
    BY <1>1 DEF Dfs!TypeOK
<1> QED
    BY <1>1, <1>2, <1>3, <1>4 DEF BlackDone, Met, Blacks

\* All nodes are counted exactly if the graph is well formed.
LEMMA CountRight ==
    ASSUME Traversed, stack = <<>>
    PROVE  /\ done < Cardinality(Nodes) => ~Dfs!WellFormed
           /\ ~(done < Cardinality(Nodes)) => Dfs!WellFormed /\ Blacks = Nodes
<1>1. Graph /\ BlackDone /\ FromHead /\ LocalsRight
    BY DEF Traversed
<1>2. Blacks \in SUBSET Nodes
    BY DEF Blacks
<1>3. /\ done = Cardinality(Blacks)
      /\ Cardinality(Blacks) <= Cardinality(Nodes)
      /\ Cardinality(Nodes) = Cardinality(Blacks) => Nodes = Blacks
      /\ Cardinality(Nodes) \in Nat /\ Cardinality(Blacks) \in Nat
    BY <1>1, <1>2, GraphAssumption, FS_Subset, FS_CardinalityType DEF LocalsRight
<1>4. CASE done < Cardinality(Nodes)
  <2>1. Blacks # Nodes
      BY <1>3, <1>4
  <2>2. Nodes # Met
      BY <2>1, <1>2, EmptyStack
  <2> QED
      BY <2>2, <1>4 DEF Dfs!WellFormed, Met
<1>5. CASE ~(done < Cardinality(Nodes))
  <2>1. Blacks = Nodes
      BY <1>3, <1>5
  <2>2. \A m \in Nodes : color[m] = 2
      BY <2>1 DEF Blacks
  <2>3. \A m \in Nodes : next[m] \subseteq Nodes /\ m \notin Dfs!Reachable(m)
      BY <2>1, <2>2, <1>1 DEF BlackDone
  <2>4. Nodes \subseteq Met
      BY <2>2, <1>1 DEF FromHead
  <2>5. Met \subseteq Nodes
      BY <1>1, ReachSteps DEF Met, Graph
  <2> QED
      BY <2>1, <2>3, <2>4, <2>5, <1>5 DEF Dfs!WellFormed, Met
<1> QED
    BY <1>4, <1>5

\* In a well-formed graph the nodes with a parent are all but the head.
LEMMA OnlyHeadFirst ==
    ASSUME Graph, Dfs!WellFormed, NEW n \in Nodes
    PROVE  n = head <=> \A p \in Nodes : n \notin next[p]
<1>1. head \in Nodes /\ Nodes = {head} \cup Dfs!Reachable(head)
    BY DEF Graph, Dfs!WellFormed
<1>2. head \notin Dfs!Reachable(head)
    BY <1>1 DEF Dfs!WellFormed
<1>3. ASSUME NEW p \in Nodes, head \in next[p]
      PROVE  FALSE
  <2>1. CASE p = head
      BY <2>1, <1>1, <1>2, <1>3, ReachSteps
  <2>2. CASE p \in Dfs!Reachable(head)
      BY <2>2, <1>1, <1>2, <1>3, ReachSteps
  <2> QED
      BY <2>1, <2>2, <1>1
<1> DEFINE S == { m \in Nodes : \E p \in Nodes : m \in next[p] }
<1>4. /\ S \in SUBSET Nodes
      /\ next[head] \cap Nodes \subseteq S
      /\ \A m \in S : next[m] \cap Nodes \subseteq S
    BY <1>1
<1>5. ASSUME n # head
      PROVE  n \in S
  <2> HIDE DEF S
  <2>1. Dfs!Reachable(head) \subseteq S
      BY <1>1, <1>4, ReachLeast
  <2> QED
      BY <2>1, <1>1, <1>5
<1> QED
    BY <1>3, <1>5

\* The level of a graph all of whose nodes are finished.
LEMMA ConcludeRight ==
    ASSUME Traversed, Dfs!WellFormed, Blacks = Nodes
    PROVE  /\ Dfs!Explained <=> \A n \in Nodes : parents[n] # {} =>
                                  \E p \in parents[n] : <<p, n>> \in explains
           /\ clevel = IF Dfs!Chain THEN "SO" ELSE "CPO"
           /\ \A n \in Nodes \ {head} : parents[n] # {}
<1>1. Graph /\ LocalsRight
    BY DEF Traversed
<1>2. \A n \in Nodes : color[n] = 2
    BY DEF Blacks
<1>3. ASSUME NEW n \in Nodes
      PROVE  parents[n] = { p \in Nodes : n \in next[p] }
  <2>1. parents[n] = { p \in Nodes : color[p] # 0 /\ n \in next[p] }
      BY <1>1 DEF LocalsRight
  <2> QED
      BY <2>1, <1>2
<1>4. \A n \in Nodes : n = head <=> parents[n] = {}
    BY <1>1, <1>3, OnlyHeadFirst
<1>5. \A n, p \in Nodes : <<p, n>> \in explains => p \in parents[n]
    BY <1>1, <1>3 DEF Graph
<1>6. \A n \in Nodes : parents[n] \subseteq Nodes
    BY <1>3
<1>7. \A n \in Nodes : ~Wide(n) <=> Cardinality(next[n]) <= 1
  <2> SUFFICES ASSUME NEW n \in Nodes PROVE ~Wide(n) <=> Cardinality(next[n]) <= 1
      OBVIOUS
  <2>1. next[n] \in SUBSET Nodes
      BY DEF Dfs!WellFormed
  <2>2. Cardinality(next[n]) \in Nat
      BY <2>1, GraphAssumption, FS_Subset, FS_CardinalityType
  <2> QED
      BY <2>2 DEF Wide
<1>8. Dfs!Chain <=> \A n \in Nodes : ~Wide(n)
    BY <1>7, SameCount DEF Dfs!Chain
<1>9. clevel = IF Dfs!Chain THEN "SO" ELSE "CPO"
    BY <1>1, <1>2, <1>8 DEF LocalsRight
<1>10. Dfs!Explained <=> \A n \in Nodes : parents[n] # {} =>
                           \E p \in parents[n] : <<p, n>> \in explains
    BY <1>4, <1>5, <1>6 DEF Dfs!Explained
<1> QED
    BY <1>4, <1>9, <1>10

\* What the graph is like does not change.
LEMMA SameGraph ==
    ASSUME UNCHANGED <<next, head, explains>>
    PROVE  /\ Graph' <=> Graph
           /\ Dfs!WellFormed' <=> Dfs!WellFormed
           /\ Dfs!Explained' <=> Dfs!Explained
           /\ Dfs!Chain' <=> Dfs!Chain
<1>1. \A m : Dfs!Reachable(m)' = Dfs!Reachable(m)
    BY ReachSame
<1> QED
    BY <1>1 DEF Graph, Dfs!Graphs, Dfs!WellFormed, Dfs!Explained, Dfs!Chain

\* Nor does what the traversal has found, when only the result is set.
LEMMA TraversedSame ==
    ASSUME Traversed,
           UNCHANGED <<next, head, explains, stack, color, reachable, parents, done, clevel>>,
           result' \in Dfs!Levels \cup {"none"}
    PROVE  Traversed'
<1>1. \A m : Dfs!Reachable(m)' = Dfs!Reachable(m)
    BY ReachSame
<1>2. Graph' /\ Dfs!TypeOK'
    BY SameGraph DEF Traversed, Dfs!TypeOK
<1>3. Blacks' = Blacks /\ Met' = Met
    BY <1>1 DEF Blacks, Met
<1>4. GrayAbove' /\ BlackDone'
    BY <1>1, <1>3 DEF Traversed, GrayAbove, BlackDone
<1>5. FromHead' /\ HeadFirst'
    BY <1>3 DEF Traversed, FromHead, HeadFirst
<1>6. LocalsRight'
    BY <1>3 DEF Traversed, LocalsRight, Wide
<1> QED
    BY <1>2, <1>4, <1>5, <1>6 DEF Traversed

\* Every step of the traversal keeps its invariant.
LEMMA LoopKeeps ==
    ASSUME DfsInv, Dfs!Loop
    PROVE  DfsInv'
<1>2. UNCHANGED <<next, head, explains>>
    BY DEF Dfs!Loop, Dfs!Reject, Dfs!Visit, Dfs!Finish, Dfs!Spin, Dfs!Conclude,
           Dfs!graph, Dfs!vars
<1>3. CASE Dfs!Visit \/ Dfs!Finish
  <2>1. result' = "none"
      BY <1>3 DEF Dfs!Visit, Dfs!Finish, Dfs!Running
  <2>2. Traversed'
      BY <1>3, VisitKeeps, FinishKeeps DEF DfsInv
  <2> QED
      BY <2>1, <2>2 DEF DfsInv, AllDone, Dfs!LevelRight
<1>4. CASE Dfs!Spin
  <2>1. UNCHANGED <<next, head, explains, stack, color, reachable, parents, done, clevel, result>>
      BY <1>4 DEF Dfs!Spin, Dfs!vars, Dfs!graph
  <2>2. result \in Dfs!Levels \cup {"none"}
      BY DEF DfsInv, Traversed, Dfs!TypeOK
  <2>3. Traversed'
      BY <2>1, <2>2, TraversedSame DEF DfsInv
  <2>4. Dfs!LevelRight'
      BY <2>1, SameGraph DEF DfsInv, Dfs!LevelRight
  <2> QED
      BY <2>1, <2>3, <2>4 DEF DfsInv, AllDone, Blacks
<1>5. CASE Dfs!Reject
  <2>1. /\ UNCHANGED <<next, head, explains, stack, color, reachable, parents, done, clevel>>
        /\ result' = "INVALID"
      BY <1>5 DEF Dfs!Reject, Dfs!graph
  <2>2. Traversed'
      BY <2>1, TraversedSame DEF DfsInv, Dfs!Levels
  <2>3. ~Dfs!WellFormed'
      BY <1>2, <1>5, RejectRight, SameGraph DEF DfsInv
  <2> QED
      BY <2>1, <2>2, <2>3 DEF DfsInv, AllDone, Dfs!LevelRight
<1>6. CASE Dfs!Conclude
  <2>1. /\ UNCHANGED <<next, head, explains, stack, color, reachable, parents, done, clevel>>
        /\ stack = <<>>
        /\ result' = IF done < Cardinality(Nodes) THEN "INVALID"
                     ELSE IF \E n \in Nodes \ {head} : parents[n] = {} THEN "FAILED"
                     ELSE IF \A n \in Nodes : parents[n] # {} =>
                               \E p \in parents[n] : <<p, n>> \in explains
                          THEN clevel ELSE "NPO"
      BY <1>6, SameCount DEF Dfs!Conclude, Dfs!graph
  <2>2. Traversed /\ Dfs!TypeOK
      BY DEF DfsInv, Traversed
  <2>3. clevel \in {"SO", "CPO"}
      BY <2>2 DEF Dfs!TypeOK
  <2>4. CASE done < Cardinality(Nodes)
    <3>1. result' = "INVALID" /\ ~Dfs!WellFormed'
        BY <2>1, <2>2, <2>4, CountRight, SameGraph
    <3>2. Traversed'
        BY <2>1, <2>2, <3>1, TraversedSame DEF Dfs!Levels
    <3> QED
        BY <3>1, <3>2 DEF DfsInv, AllDone, Dfs!LevelRight
  <2>5. CASE ~(done < Cardinality(Nodes))
    <3>1. Dfs!WellFormed /\ Blacks = Nodes
        BY <2>1, <2>2, <2>5, CountRight
    <3>2. result' = IF ~Dfs!Explained THEN "NPO" ELSE IF Dfs!Chain THEN "SO" ELSE "CPO"
        BY <2>1, <2>2, <2>5, <3>1, ConcludeRight
    <3>3. Traversed'
        BY <2>1, <2>2, <3>2, TraversedSame DEF Dfs!Levels
    <3>4. Blacks' = Nodes
        BY <2>1, <3>1 DEF Blacks
    <3>5. Dfs!LevelRight'
        BY <2>1, <3>1, <3>2, SameGraph DEF Dfs!LevelRight
    <3> QED
        BY <3>3, <3>4, <3>5 DEF DfsInv, AllDone
  <2> QED
      BY <2>4, <2>5
<1> QED
    BY <1>3, <1>4, <1>5, <1>6 DEF Dfs!Loop

------------------------------------------------------------------------------
(***************************************************************************)
(* The two functions one after the other.  Nothing of the pass has         *)
(* happened before it is called, and it is called with the traversal over. *)
(***************************************************************************)
InTurn ==
    IF passing THEN result \in {"SO", "CPO", "NPO"}
               ELSE todo = Pairs /\ level = "RT" /\ ~returned

SCInv ==
    /\ DfsInv
    /\ TypeOK /\ passing \in BOOLEAN
    /\ InTurn /\ LevelSoFar

LEMMA SCInitInv == SCInit => SCInv
<1> SUFFICES ASSUME SCInit PROVE SCInv
    OBVIOUS
<1>1. /\ next \in Dfs!Graphs /\ head \in Nodes
      /\ explains \in SUBSET { e \in Nodes \X Nodes : e[2] \in next[e[1]] }
      /\ stack = <<head>>
      /\ color = [n \in Nodes |-> 0]
      /\ reachable = [n \in Nodes |-> {}]
      /\ parents = [n \in Nodes |-> {}]
      /\ done = 0 /\ clevel = "SO" /\ result = "none"
    BY GraphAssumption DEF SCInit, Dfs!Init
<1>2. Graph
    BY <1>1 DEF Graph
<1>3. Blacks = {}
    BY <1>1 DEF Blacks
<1>4. done = Cardinality(Blacks) /\ done \in 0..Dfs!Cardinality(Nodes)
    BY <1>1, <1>3, GraphAssumption, FS_EmptySet, FS_CardinalityType, SameCount
<1>5. Dfs!TypeOK
    BY <1>1, <1>4 DEF Dfs!TypeOK
<1>6. Traversed
    BY <1>1, <1>2, <1>4, <1>5 DEF Traversed, GrayAbove, BlackDone, FromHead, Met,
       HeadFirst, LocalsRight
<1>7. DfsInv
    BY <1>1, <1>6 DEF DfsInv, AllDone, Dfs!LevelRight
<1>8. (CHOOSE c \in CIds : TRUE) \in CIds
    BY GraphAssumption
<1>9. TypeOK /\ passing \in BOOLEAN
    BY <1>1, <1>8 DEF SCInit, TypeOK, Levels
<1>10. InTurn /\ LevelSoFar
    BY DEF SCInit, InTurn, LevelSoFar, Conforming
<1> QED
    BY <1>7, <1>9, <1>10 DEF SCInv

LEMMA SCStep ==
    ASSUME SCInv, [SCNext]_scvars
    PROVE  SCInv'
<1>1. /\ DfsInv /\ TypeOK /\ passing \in BOOLEAN /\ InTurn /\ LevelSoFar
    BY DEF SCInv
<1>2. CASE ConvergenceStep
  <2>1. /\ Dfs!Loop /\ result = "none"
        /\ UNCHANGED <<cId, tsReq, tsResp, todo, level, returned, passing>>
      BY <1>2 DEF ConvergenceStep, pvars, Dfs!Loop, Dfs!Reject, Dfs!Visit, Dfs!Finish,
                  Dfs!Spin, Dfs!Conclude, Dfs!Running
  <2>2. DfsInv'
      BY <2>1, <1>1, LoopKeeps
  <2>3. ~passing /\ todo = Pairs /\ level = "RT" /\ ~returned
      BY <2>1, <1>1 DEF InTurn
  <2>4. InTurn' /\ LevelSoFar'
      BY <2>1, <2>3 DEF InTurn, LevelSoFar, Conforming, Pairs
  <2>5. TypeOK'
    <3>1. reachable' \in [Nodes -> SUBSET Nodes]
        BY <2>2 DEF DfsInv, Traversed, Dfs!TypeOK
    <3> QED
        BY <3>1, <2>1, <1>1 DEF TypeOK, Pairs
  <2> QED
      BY <2>1, <2>2, <2>4, <2>5, <1>1 DEF SCInv
<1>3. CASE BeginPass \/ RelationshipStep \/ SCDone \/ UNCHANGED scvars
  <2>1. UNCHANGED <<next, head, explains, stack, color, reachable, parents, done, clevel, result>>
      BY <1>3 DEF BeginPass, RelationshipStep, SCDone, scvars, dvars, CheckPair, EndPass, graph
  <2>2. result \in Dfs!Levels \cup {"none"}
      BY <1>1 DEF DfsInv, Traversed, Dfs!TypeOK
  <2>3. Traversed'
      BY <2>1, <2>2, <1>1, TraversedSame DEF DfsInv
  <2>4. Dfs!LevelRight'
      BY <2>1, <1>1, SameGraph DEF DfsInv, Dfs!LevelRight
  <2>5. DfsInv'
      BY <2>1, <2>3, <2>4, <1>1 DEF DfsInv, AllDone, Blacks
  <2>6. CASE BeginPass
    <3>1. /\ passing' = TRUE /\ result \in {"SO", "CPO", "NPO"} /\ ~passing
          /\ UNCHANGED <<todo, level, returned>>
          /\ cId' \in [Nodes -> CIds]
          /\ tsReq' \in [Nodes -> 0..MaxTs] /\ tsResp' \in [Nodes -> 0..MaxTs]
        BY <2>6 DEF BeginPass
    <3>2. todo = Pairs /\ level = "RT" /\ ~returned
        BY <3>1, <1>1 DEF InTurn
    <3>3. InTurn' /\ LevelSoFar'
        BY <2>1, <3>1, <3>2 DEF InTurn, LevelSoFar, Conforming, Pairs
    <3>4. tsReq' \in [Nodes -> Nat] /\ tsResp' \in [Nodes -> Nat]
        BY <3>1, TsAssumption
    <3>5. TypeOK'
        BY <2>1, <3>1, <3>4, <1>1 DEF TypeOK, Pairs
    <3> QED
        BY <2>5, <3>1, <3>3, <3>5 DEF SCInv
  <2>7. CASE RelationshipStep
    <3>1. passing /\ passing' = passing /\ (CheckPair \/ EndPass)
        BY <2>7 DEF RelationshipStep
    <3>2. todo \subseteq Pairs
        BY <1>1 DEF TypeOK
    <3>3. (todo \subseteq Pairs)' /\ LevelSoFar'
        BY <3>1, <3>2, <1>1, PassKeeps
    <3>4. InTurn'
        BY <2>1, <3>1, <1>1 DEF InTurn
    <3>5. level' \in Levels /\ returned' \in BOOLEAN
        BY <3>1, <1>1 DEF TypeOK, CheckPair, EndPass, Lowered, AfterRT, AfterCASL,
                          AfterFIFO, Levels
    <3>6. UNCHANGED <<cId, tsReq, tsResp, reachable>>
        BY <3>1 DEF CheckPair, EndPass, graph
    <3>7. TypeOK'
        BY <3>3, <3>5, <3>6, <1>1 DEF TypeOK
    <3> QED
        BY <2>5, <3>1, <3>3, <3>4, <3>7, <1>1 DEF SCInv
  <2>8. CASE SCDone \/ UNCHANGED scvars
    <3>1. UNCHANGED <<cId, tsReq, tsResp, todo, level, returned, passing>>
        BY <2>8 DEF SCDone, scvars, pvars
    <3>2. InTurn' /\ TypeOK'
        BY <2>1, <3>1, <1>1 DEF InTurn, TypeOK, Pairs
    <3>3. LevelSoFar'
        BY <2>1, <3>1, <1>1 DEF LevelSoFar, Conforming, Pairs, FIFOViolation,
                                CASLViolation, RTViolation
    <3> QED
        BY <2>5, <3>1, <3>2, <3>3, <1>1 DEF SCInv
  <2> QED
      BY <1>3, <2>6, <2>7, <2>8
<1> QED
    BY <1>2, <1>3 DEF SCNext, SCLoop

LEMMA SCAlways == SCSpec => []SCInv
    BY SCInitInv, SCStep, PTL DEF SCSpec

(***************************************************************************)
(* The locals of both functions keep their types.                          *)
(***************************************************************************)
THEOREM SCTypes == SCSpec => []SCTypeOK
<1>1. SCInv => SCTypeOK
    BY DEF SCInv, SCTypeOK, DfsInv, Traversed
<1> QED
    BY <1>1, SCAlways, PTL

(***************************************************************************)
(* ConvergenceConformity returns the right level for every graph: INVALID  *)
(* exactly for a graph that is not a DAG reached from its head, NPO when a *)
(* pool follows from no parent, SO for a chain, CPO otherwise.             *)
(***************************************************************************)
THEOREM LevelsRight == SCSpec => []LevelRight
<1>1. SCInv => LevelRight
    BY DEF SCInv, LevelRight, DfsInv
<1> QED
    BY <1>1, SCAlways, PTL

(***************************************************************************)
(* The assertion inside the traversal's loop never fails: when a node is   *)
(* finished, so are all its neighbours.                                    *)
(***************************************************************************)
THEOREM AssertionHolds == SCSpec => []ChildrenDone
<1>1. SCInv => ChildrenDone
    BY DEF SCInv, ChildrenDone, Dfs!ChildrenDone, DfsInv, Traversed, BlackDone, Blacks
<1> QED
    BY <1>1, SCAlways, PTL

\* A map that is returned is exact.
LEMMA MapExact ==
    ASSUME DfsInv, result \in {"SO", "CPO", "NPO"}
    PROVE  /\ Dfs!WellFormed
           /\ \A n \in Nodes : reachable[n] = Dfs!Reachable(n)
<1>1. \A n \in Nodes : color[n] = 2
    BY DEF DfsInv, AllDone, Blacks
<1>2. \A n \in Nodes : reachable[n] = Dfs!Reachable(n)
    BY <1>1 DEF DfsInv, Traversed, BlackDone
<1>3. Dfs!WellFormed
    BY DEF DfsInv, Dfs!LevelRight
<1> QED
    BY <1>2, <1>3

(***************************************************************************)
(* The map that ConvergenceConformity returns holds for every node exactly *)
(* the nodes it reaches, and is a map RelationshipConformity may be given. *)
(***************************************************************************)
THEOREM HandedOver == SCSpec => []HandOver
<1>1. SCInv => HandOver
  <2> SUFFICES ASSUME SCInv, result \in {"SO", "CPO", "NPO"}
               PROVE  Dfs!ReachableRight /\ ReachedFromHead(reachable)
      BY DEF HandOver
  <2>1. /\ Dfs!WellFormed /\ head \in Nodes
        /\ \A n \in Nodes : reachable[n] = Dfs!Reachable(n)
      BY MapExact DEF SCInv, DfsInv, Traversed, Graph
  <2>2. \A n \in Nodes : n \notin reachable[n]
      BY <2>1 DEF Dfs!WellFormed
  <2>3. ASSUME NEW n \in Nodes, NEW m \in reachable[n]
        PROVE  reachable[m] \subseteq reachable[n]
      BY <2>1, <2>3, ReachFurther, ReachSteps
  <2>4. reachable[head] = Nodes \ {head}
      BY <2>1, <2>2 DEF Dfs!WellFormed
  <2> QED
      BY <2>1, <2>2, <2>3, <2>4 DEF Dfs!ReachableRight, ReachedFromHead
<1> QED
    BY <1>1, SCAlways, PTL

(***************************************************************************)
(* SatisfiedConstraints returns the relationship level of the definition.  *)
(***************************************************************************)
THEOREM ConstraintsExact == SCSpec => []LevelExact
<1>1. SCInv => LevelExact
    BY PassDone DEF SCInv, TypeOK
<1> QED
    BY <1>1, SCAlways, PTL

------------------------------------------------------------------------------
(***************************************************************************)
(* What the assertions mean.                                               *)
(***************************************************************************)
\* The function is over: either way, its result is that of the definitions.
LEMMA OverRight ==
    ASSUME SCInv, Finished
    PROVE  /\ ~Dfs!WellFormed => result = "INVALID"
           /\ Dfs!WellFormed =>
                /\ result = IF ~Dfs!Explained THEN "NPO" ELSE IF Dfs!Chain THEN "SO" ELSE "CPO"
                /\ level = Conforming(Pairs)
                /\ \A n \in Nodes : reachable[n] = Dfs!Reachable(n)
<1>1. DfsInv /\ InTurn /\ LevelExact /\ Dfs!LevelRight
    BY PassDone DEF SCInv, TypeOK, DfsInv
<1>2. result # "none"
    BY <1>1 DEF Finished, InTurn
<1>3. CASE ~Dfs!WellFormed
    BY <1>1, <1>2, <1>3 DEF Dfs!LevelRight
<1>4. CASE Dfs!WellFormed
  <2>1. result = IF ~Dfs!Explained THEN "NPO" ELSE IF Dfs!Chain THEN "SO" ELSE "CPO"
      BY <1>1, <1>2, <1>4 DEF Dfs!LevelRight
  <2>2. result \in {"SO", "CPO", "NPO"} /\ returned
      BY <2>1 DEF Finished
  <2>3. level = Conforming(Pairs)
      BY <2>2, <1>1 DEF LevelExact
  <2> QED
      BY <1>1, <1>4, <2>1, <2>2, <2>3, MapExact
<1> QED
    BY <1>3, <1>4

\* The levels, by what the graph orders.
LEMMA OrderedLevels ==
    ASSUME \A n \in Nodes : reachable[n] = Dfs!Reachable(n)
    PROVE  Conforming(Pairs) = IF Ordered(Pairs) THEN "RT"
                               ELSE IF Ordered(InSession) THEN "CASL"
                               ELSE IF Ordered(NotWriteAfterRead) THEN "FIFO"
                               ELSE "NONE"
<1>1. \A p \in Pairs : p[1] \in Nodes /\ p[2] \in Nodes
    BY DEF Pairs
<1>2. ASSUME NEW p \in Pairs
      PROVE  RTViolation(p) <=> ~(tsResp[p[1]] < tsReq[p[2]] => p[2] \in Dfs!Reachable(p[1]))
    BY <1>1 DEF RTViolation
<1>3. Ordered(Pairs) <=> \A p \in Pairs : ~RTViolation(p)
    BY <1>2 DEF Ordered
<1>4. Ordered(InSession) <=> \A p \in Pairs : ~CASLViolation(p)
    BY <1>2 DEF Ordered, InSession, CASLViolation
<1>5. Ordered(NotWriteAfterRead) <=> \A p \in Pairs : ~FIFOViolation(p)
    BY <1>2 DEF Ordered, NotWriteAfterRead, InSession, CASLViolation, FIFOViolation
<1> QED
    BY <1>3, <1>4, <1>5 DEF Conforming

\* What is asked for nests.
LEMMA OrderedNest ==
    /\ Ordered(Pairs) => Ordered(InSession)
    /\ Ordered(InSession) => Ordered(NotWriteAfterRead)
    BY DEF Ordered, InSession, NotWriteAfterRead

(***************************************************************************)
(* The four weaker assertions hold of exactly the graphs they are named    *)
(* for, whatever the order in which the two functions look at them.        *)
(***************************************************************************)
THEOREM PartialOrders == SCSpec => []PartialOrdersMean
<1>1. SCInv => PartialOrdersMean
  <2> SUFFICES ASSUME SCInv, Finished
               PROVE  PartialOrdersMean
      BY DEF PartialOrdersMean
  <2>1. CASE ~Dfs!WellFormed
    <3>1. SatisfiedConstraints = <<"INVALID", "NONE">>
        BY <2>1, OverRight DEF SatisfiedConstraints
    <3> QED
        BY <2>1, <3>1 DEF PartialOrdersMean, AssertCausalConsistency, AssertPRAMConsistency,
                          AssertEventualConsistency, AssertWeakConsistency
  <2>2. CASE Dfs!WellFormed
    <3>1. /\ result = IF ~Dfs!Explained THEN "NPO" ELSE IF Dfs!Chain THEN "SO" ELSE "CPO"
          /\ level = IF Ordered(Pairs) THEN "RT"
                     ELSE IF Ordered(InSession) THEN "CASL"
                     ELSE IF Ordered(NotWriteAfterRead) THEN "FIFO"
                     ELSE "NONE"
        BY <2>2, OverRight, OrderedLevels
    <3>2. SatisfiedConstraints = <<result, level>>
        BY <3>1 DEF SatisfiedConstraints
    <3>3. \A l, r : SatisfiedConstraints = <<l, r>> <=> result = l /\ level = r
        BY <3>2
    <3>4. /\ AssertCausalConsistency <=> result = "CPO" /\ level = "CASL"
          /\ AssertPRAMConsistency <=> result = "NPO" /\ level = "FIFO"
          /\ AssertEventualConsistency <=> result = "CPO" /\ level = "NONE"
          /\ AssertWeakConsistency <=> result = "NPO" /\ level = "NONE"
        BY <3>3 DEF AssertCausalConsistency, AssertPRAMConsistency,
                    AssertEventualConsistency, AssertWeakConsistency
    <3>5. /\ result = "CPO" <=> Converges
          /\ result = "NPO" <=> ~Dfs!Explained
        BY <3>1 DEF Converges
    <3>6. /\ level = "CASL" <=> Ordered(InSession) /\ ~Ordered(Pairs)
          /\ level = "FIFO" <=> Ordered(NotWriteAfterRead) /\ ~Ordered(InSession)
          /\ level = "NONE" <=> ~Ordered(NotWriteAfterRead)
        BY <3>1, OrderedNest
    <3> QED
        BY <2>2, <3>4, <3>5, <3>6 DEF PartialOrdersMean
  <2> QED
      BY <2>1, <2>2
<1> QED
    BY <1>1, SCAlways, PTL

------------------------------------------------------------------------------
(***************************************************************************)
(* Total orders.  Since the provers do not do induction, what holds of an  *)
(* interval is shown by its least counterexample.                          *)
(***************************************************************************)
LEMMA Upward ==
    ASSUME NEW a \in Nat, NEW b \in Nat, NEW T, a \in T,
           \A k \in Nat : k >= a /\ k < b /\ k \in T => k + 1 \in T
    PROVE  \A k \in a..b : k \in T
<1> DEFINE S == { k \in Nat : k >= a /\ k <= b /\ k \notin T }
           R == OpToRel(<, Nat)
<1>1. SUFFICES ASSUME S # {} PROVE FALSE
    OBVIOUS
<1>2. IsWellFoundedOn(R, Nat) /\ S \subseteq Nat
    BY NatLessThanWellFounded
<1>3. \E x \in S : \A y \in S : ~(<<y, x>> \in R)
  <2> HIDE DEF R, S
  <2> QED
      BY <1>1, <1>2, WFMin
<1>4. PICK x \in S : \A y \in S : ~(<<y, x>> \in R)
    BY <1>3
<1>5. \A y \in S : ~(y < x)
    BY <1>4 DEF OpToRel
<1>6. x \in Nat /\ x > a /\ x <= b /\ x \notin T
  <2>1. x \in Nat /\ x >= a /\ x <= b /\ x \notin T
      BY <1>4
  <2>2. x # a
      BY <2>1
  <2> QED
      BY <2>1, <2>2
<1>7. x - 1 \in Nat /\ x - 1 < x /\ x - 1 >= a /\ x - 1 < b
    BY <1>6
<1>8. x - 1 \notin S
    BY <1>5, <1>7
<1>9. x - 1 \in T
    BY <1>7, <1>8
<1> QED
    BY <1>6, <1>7, <1>9

N == Cardinality(Nodes)

LEMMA CountNodes == N \in Nat /\ N > 0
<1>1. N \in Nat /\ N # 0
    BY GraphAssumption, FS_CardinalityType, FS_EmptySet DEF N
<1> QED
    BY <1>1

\* A total order goes through all nodes, each reaching those after it.
LEMMA AlongOrder ==
    ASSUME Graph, NEW s \in TotalOrders
    PROVE  /\ s \in [1..N -> Nodes]
           /\ \A i, j \in 1..N : i # j => s[i] # s[j]
           /\ \A n \in Nodes : \E i \in 1..N : s[i] = n
           /\ s[1] = head
           /\ next[s[N]] = {}
           /\ \A i \in 1..N : i < N => next[s[i]] = {s[i + 1]} /\ <<s[i], s[i + 1]>> \in explains
<1>1. /\ s \in [1..N -> Nodes]
      /\ \A i, j \in DOMAIN s : i # j => s[i] # s[j]
      /\ Follows(s)
    BY DEF TotalOrders, N
<1>2. DOMAIN s = 1..N /\ Len(s) = N
    BY <1>1, CountNodes
<1>3. s \in Injection(1..N, Nodes)
    BY <1>1, <1>2 DEF Injection, IsInjective
<1>4. Cardinality(1..N) = N
  <2>1. N \in Int /\ 1 \in Int /\ ~(1 > N) /\ N - 1 + 1 = N
      BY CountNodes
  <2> QED
      BY <2>1, FS_Interval
<1>5. s \in Surjection(1..N, Nodes)
    BY <1>3, <1>4, GraphAssumption, FS_Injection DEF N
<1>6. \A n \in Nodes : \E i \in 1..N : s[i] = n
    BY <1>5 DEF Surjection
<1>7. N \in 1..N
    BY CountNodes
<1>8. next[s[N]] = {}
    BY <1>1, <1>2, <1>7 DEF Follows
<1>9. ASSUME NEW i \in 1..N, i < N
      PROVE  next[s[i]] = {s[i + 1]} /\ <<s[i], s[i + 1]>> \in explains
  <2>1. i # N
      BY <1>9, CountNodes
  <2> QED
      BY <1>1, <1>2, <1>9, <2>1 DEF Follows
<1> QED
    BY <1>1, <1>2, <1>6, <1>8, <1>9 DEF Follows

LEMMA OrderReaches ==
    ASSUME Graph, NEW s \in TotalOrders, NEW i \in 1..N, NEW j \in 1..N
    PROVE  s[j] \in Dfs!Reachable(s[i]) <=> i < j
<1>1. /\ s \in [1..N -> Nodes]
      /\ \A k, l \in 1..N : k # l => s[k] # s[l]
      /\ next[s[N]] = {}
      /\ \A k \in 1..N : k < N => next[s[k]] = {s[k + 1]}
    BY AlongOrder
<1>2. N \in Nat /\ i \in Nat /\ j \in Nat
    BY CountNodes
<1> DEFINE After == { s[k] : k \in { l \in 1..N : i < l } }
<1>3. ASSUME NEW k \in 1..N, k >= i
      PROVE  next[s[k]] \cap Nodes \subseteq After
  <2>1. CASE k = N
      BY <2>1, <1>1
  <2>2. CASE k < N
    <3>1. k + 1 \in { l \in 1..N : i < l }
        BY <2>2, <1>2, <1>3
    <3>2. next[s[k]] = {s[k + 1]}
        BY <2>2, <1>1
    <3> QED
        BY <3>1, <3>2
  <2> QED
      BY <2>1, <2>2, <1>2
<1>4. Dfs!Reachable(s[i]) \subseteq After
  <2>1. After \in SUBSET Nodes
      BY <1>1
  <2>2. \A m \in After : next[m] \cap Nodes \subseteq After
      BY <1>2, <1>3
  <2>3. next[s[i]] \cap Nodes \subseteq After
      BY <1>2, <1>3
  <2>4. s[i] \in Nodes
      BY <1>1
  <2> HIDE DEF After
  <2> QED
      BY <2>1, <2>2, <2>3, <2>4, ReachLeast
<1>5. ASSUME i < j
      PROVE  s[j] \in Dfs!Reachable(s[i])
  <2> DEFINE T == { k \in 1..N : s[k] \in Dfs!Reachable(s[i]) }
  <2>1. i < N /\ s[i] \in Nodes /\ i + 1 \in 1..N
      BY <1>1, <1>2, <1>5
  <2>2. i + 1 \in T
    <3>1. next[s[i]] = {s[i + 1]} /\ s[i + 1] \in Nodes
        BY <1>1, <2>1
    <3>2. s[i + 1] \in Dfs!Reachable(s[i])
        BY <2>1, <3>1, ReachSteps
    <3> QED
        BY <2>1, <3>2
  <2>3. ASSUME NEW k \in Nat, k >= i + 1, k < j, k \in T
        PROVE  k + 1 \in T
    <3>1. k \in 1..N /\ k + 1 \in 1..N /\ k < N /\ s[k] \in Dfs!Reachable(s[i])
        BY <1>2, <2>3
    <3>2. next[s[k]] = {s[k + 1]} /\ s[k + 1] \in Nodes
        BY <3>1, <1>1
    <3>3. s[k + 1] \in Dfs!Reachable(s[i])
        BY <2>1, <3>1, <3>2, ReachSteps
    <3> QED
        BY <3>1, <3>3
  <2>4. i + 1 \in Nat /\ j \in (i + 1)..j
      BY <1>2, <1>5
  <2> HIDE DEF T
  <2>5. \A k \in (i + 1)..j : k \in T
      BY <1>2, <2>2, <2>3, <2>4, Upward
  <2> QED
      BY <2>4, <2>5 DEF T
<1>6. ASSUME s[j] \in After
      PROVE  i < j
    BY <1>1, <1>6
<1> QED
    BY <1>4, <1>5, <1>6

\* A graph with a total order is a chain, explained from its head.
LEMMA OrderIsChain ==
    ASSUME Graph, NEW s \in TotalOrders
    PROVE  Dfs!WellFormed /\ Dfs!Explained /\ Dfs!Chain
<1>1. /\ s \in [1..N -> Nodes]
      /\ \A n \in Nodes : \E i \in 1..N : s[i] = n
      /\ s[1] = head
      /\ next[s[N]] = {}
      /\ \A i \in 1..N : i < N => next[s[i]] = {s[i + 1]} /\ <<s[i], s[i + 1]>> \in explains
    BY AlongOrder
<1>2. N \in Nat /\ N > 0 /\ 1 \in 1..N
    BY CountNodes
<1>3. ASSUME NEW n \in Nodes
      PROVE  /\ next[n] \subseteq Nodes /\ n \notin Dfs!Reachable(n)
             /\ Cardinality(next[n]) <= 1
  <2>1. PICK i \in 1..N : s[i] = n
      BY <1>1
  <2>2. n \notin Dfs!Reachable(n)
    <3>1. ~(i < i)
        BY <1>2
    <3> QED
        BY <2>1, <3>1, OrderReaches
  <2>3. CASE i = N
    <3>1. next[n] = {} /\ Cardinality({}) = 0
        BY <2>1, <2>3, <1>1, FS_EmptySet
    <3> QED
        BY <2>2, <3>1
  <2>4. CASE i < N
    <3>0. i + 1 \in 1..N
        BY <2>4, <1>2
    <3>1. next[n] = {s[i + 1]} /\ s[i + 1] \in Nodes
        BY <2>1, <2>4, <3>0, <1>1
    <3>2. Cardinality({s[i + 1]}) = 1
        BY FS_Singleton
    <3> QED
        BY <2>2, <3>1, <3>2
  <2> QED
      BY <2>3, <2>4, <1>2
<1>4. ASSUME NEW n \in Nodes, n # head
      PROVE  n \in Dfs!Reachable(head) /\ \E p \in Nodes : <<p, n>> \in explains
  <2>1. PICK i \in 1..N : s[i] = n
      BY <1>1
  <2>2. 1 < i /\ i - 1 \in 1..N /\ i - 1 < N /\ (i - 1) + 1 = i
      BY <2>1, <1>1, <1>2, <1>4
  <2>3. n \in Dfs!Reachable(head)
      BY <2>1, <2>2, <1>1, <1>2, OrderReaches
  <2>4. <<s[i - 1], n>> \in explains /\ s[i - 1] \in Nodes
      BY <2>1, <2>2, <1>1
  <2> QED
      BY <2>3, <2>4
<1>5. head \in Nodes /\ Dfs!Reachable(head) \subseteq Nodes
    BY ReachSteps DEF Graph
<1>6. Dfs!WellFormed
    BY <1>3, <1>4, <1>5 DEF Dfs!WellFormed
<1>7. Dfs!Explained
    BY <1>4 DEF Dfs!Explained
<1>8. Dfs!Chain
    BY <1>3, SameCount DEF Dfs!Chain
<1> QED
    BY <1>6, <1>7, <1>8

\* The position of a node in a chain, from the end: how many it reaches.
Rank(n) == Cardinality(Dfs!Reachable(n))

LEMMA RankStep ==
    ASSUME Graph, Dfs!WellFormed, Dfs!Chain, NEW n \in Nodes
    PROVE  /\ Rank(n) \in 0..(N - 1)
           /\ next[n] = {} => Rank(n) = 0
           /\ next[n] # {} => \E m \in Nodes : next[n] = {m} /\ Rank(n) = Rank(m) + 1
<1>1. \A m \in Nodes : next[m] \subseteq Nodes /\ m \notin Dfs!Reachable(m)
    BY DEF Dfs!WellFormed
<1>2. \A m \in Nodes : Dfs!Reachable(m) \in SUBSET (Nodes \ {m})
    BY <1>1, ReachSteps
<1>3. \A m \in Nodes : IsFiniteSet(Dfs!Reachable(m)) /\ Rank(m) \in Nat
  <2> SUFFICES ASSUME NEW m \in Nodes
               PROVE  IsFiniteSet(Dfs!Reachable(m)) /\ Rank(m) \in Nat
      OBVIOUS
  <2>1. Dfs!Reachable(m) \in SUBSET Nodes
      BY ReachSteps
  <2> QED
      BY <2>1, GraphAssumption, FS_Subset, FS_CardinalityType DEF Rank
<1>4. Rank(n) \in 0..(N - 1)
  <2>1. IsFiniteSet(Nodes \ {n}) /\ Cardinality(Nodes \ {n}) = N - 1
      BY GraphAssumption, FS_RemoveElement DEF N
  <2>2. Rank(n) <= Cardinality(Nodes \ {n})
      BY <1>2, <2>1, FS_Subset DEF Rank
  <2> QED
      BY <1>3, <2>1, <2>2, CountNodes
<1>5. ASSUME next[n] = {}
      PROVE  Rank(n) = 0
  <2>1. {} \in SUBSET Nodes /\ next[n] \cap Nodes \subseteq {}
      BY <1>5
  <2>2. Dfs!Reachable(n) \subseteq {}
      BY <2>1, ReachLeast
  <2>3. Dfs!Reachable(n) = {}
      BY <2>2
  <2> QED
      BY <2>3, FS_EmptySet DEF Rank
<1>6. ASSUME next[n] # {}
      PROVE  \E m \in Nodes : next[n] = {m} /\ Rank(n) = Rank(m) + 1
  <2>1. IsFiniteSet(next[n]) /\ Cardinality(next[n]) \in Nat
      BY <1>1, GraphAssumption, FS_Subset, FS_CardinalityType
  <2>2. Cardinality(next[n]) # 0 /\ Cardinality(next[n]) <= 1
      BY <1>6, <2>1, FS_EmptySet, SameCount DEF Dfs!Chain
  <2>3. Cardinality(next[n]) = 1
      BY <2>1, <2>2
  <2>4. PICK m : next[n] = {m}
      BY <2>1, <2>3, FS_Singleton
  <2>5. m \in Nodes
      BY <2>4, <1>1
  <2> DEFINE S == Dfs!Reachable(m) \cup {m}
  <2>6. /\ S \in SUBSET Nodes
        /\ next[n] \cap Nodes \subseteq S
        /\ \A x \in S : next[x] \cap Nodes \subseteq S
      BY <2>4, <2>5, ReachSteps
  <2>7. S \subseteq Dfs!Reachable(n)
      BY <2>4, <2>5, ReachFurther
  <2>8. Dfs!Reachable(n) \subseteq S
    <3> HIDE DEF S
    <3> QED
        BY <2>6, ReachLeast
  <2>9. Dfs!Reachable(n) = Dfs!Reachable(m) \cup {m}
      BY <2>7, <2>8
  <2>10. Cardinality(Dfs!Reachable(m) \cup {m}) = Cardinality(Dfs!Reachable(m)) + 1
      BY <1>1, <1>3, <2>5, FS_AddElement
  <2>11. Rank(n) = Rank(m) + 1
      BY <2>9, <2>10 DEF Rank
  <2> QED
      BY <2>4, <2>5, <2>11
<1> QED
    BY <1>4, <1>5, <1>6

\* The head of a chain reaches all others.
LEMMA RankHead ==
    ASSUME Graph, Dfs!WellFormed
    PROVE  head \in Nodes /\ Rank(head) = N - 1
<1>1. head \in Nodes /\ head \notin Dfs!Reachable(head)
    BY DEF Graph, Dfs!WellFormed
<1>2. Dfs!Reachable(head) = Nodes \ {head}
    BY <1>1 DEF Dfs!WellFormed
<1>3. Cardinality(Nodes \ {head}) = N - 1
    BY <1>1, GraphAssumption, FS_RemoveElement DEF N
<1> QED
    BY <1>1, <1>2, <1>3 DEF Rank

\* Every position of a chain is taken by one node.
LEMMA RankOneToOne ==
    ASSUME Graph, Dfs!WellFormed, Dfs!Chain
    PROVE  /\ \A k \in 0..(N - 1) : \E n \in Nodes : Rank(n) = k
           /\ \A m, n \in Nodes : Rank(m) = Rank(n) => m = n
<1>1. \A n \in Nodes : Rank(n) \in 0..(N - 1)
    BY RankStep
<1>n. N \in Nat /\ N > 0 /\ N - 1 \in Nat /\ 0 \in Nat
    BY CountNodes
<1> DEFINE T == { k \in 0..(N - 1) : \E n \in Nodes : Rank(n) = (N - 1) - k }
<1>2. 0 \in T
  <2>1. Rank(head) = (N - 1) - 0 /\ head \in Nodes
      BY RankHead, <1>n
  <2> QED
      BY <2>1, <1>n
<1>3. ASSUME NEW k \in Nat, k >= 0, k < N - 1, k \in T
      PROVE  k + 1 \in T
  <2>1. PICK n \in Nodes : Rank(n) = (N - 1) - k
      BY <1>3
  <2>2. Rank(n) # 0
      BY <2>1, <1>3, <1>n
  <2>3. PICK m \in Nodes : Rank(n) = Rank(m) + 1
      BY <2>2, RankStep
  <2>4. Rank(m) = (N - 1) - (k + 1) /\ k + 1 \in 0..(N - 1)
      BY <2>1, <2>3, <1>1, <1>3, <1>n
  <2> QED
      BY <2>4
<1>4. \A k \in 0..(N - 1) : k \in T
  <2> DEFINE b == N - 1
  <2>1. b \in Nat /\ \A k \in Nat : k >= 0 /\ k < b /\ k \in T => k + 1 \in T
      BY <1>3, <1>n
  <2> HIDE DEF T, b
  <2>2. \A k \in 0..b : k \in T
      BY <2>1, <1>2, Upward
  <2> QED
      BY <2>2 DEF b
<1>5. ASSUME NEW k \in 0..(N - 1)
      PROVE  \E n \in Nodes : Rank(n) = k
  <2>1. (N - 1) - k \in 0..(N - 1)
      BY <1>n
  <2>2. PICK n \in Nodes : Rank(n) = (N - 1) - ((N - 1) - k)
      BY <2>1, <1>4
  <2>3. (N - 1) - ((N - 1) - k) = k
      BY <1>n
  <2> QED
      BY <2>2, <2>3
<1> DEFINE f == [n \in Nodes |-> Rank(n)]
           K == 0..(N - 1)
<1>6. f \in [Nodes -> K] /\ \A k \in K : \E n \in Nodes : f[n] = k
    BY <1>1, <1>5
<1>7. Cardinality(K) = N
  <2> DEFINE b == N - 1
  <2>1. b \in Int /\ 0 \in Int /\ ~(0 > b) /\ b - 0 + 1 = N
      BY <1>n
  <2> HIDE DEF b
  <2>2. Cardinality(0..b) = N
      BY <2>1, FS_Interval
  <2> QED
      BY <2>2 DEF b
<1>8. f \in Injection(Nodes, K)
  <2> HIDE DEF f, K
  <2>1. f \in Surjection(Nodes, K)
      BY <1>6 DEF Surjection
  <2> QED
      BY <2>1, <1>7, GraphAssumption, FS_Surjection DEF N
<1>9. \A m, n \in Nodes : Rank(m) = Rank(n) => m = n
    BY <1>8 DEF Injection, IsInjective
<1> QED
    BY <1>5, <1>9

\* A chain explained from its head has a total order.
LEMMA ChainHasOrder ==
    ASSUME Graph, Dfs!WellFormed, Dfs!Chain, Dfs!Explained
    PROVE  \E s : s \in TotalOrders
<1> DEFINE At(i) == CHOOSE n \in Nodes : Rank(n) = N - i
           s == [i \in 1..N |-> At(i)]
<1>n. N \in Nat /\ N > 0
    BY CountNodes
<1>1. ASSUME NEW i \in 1..N
      PROVE  s[i] \in Nodes /\ Rank(s[i]) = N - i
  <2>1. N - i \in 0..(N - 1)
      BY <1>n
  <2>2. \E n \in Nodes : Rank(n) = N - i
      BY <2>1, RankOneToOne
  <2> QED
      BY <2>2
<1>2. s \in [1..N -> Nodes] /\ DOMAIN s = 1..N /\ Len(s) = N
  <2> HIDE DEF At
  <2>1. s \in [1..N -> Nodes] /\ DOMAIN s = 1..N
      BY <1>1
  <2> HIDE DEF s
  <2> QED
      BY <2>1, <1>n
<1> HIDE DEF s
<1>3. \A m, n \in Nodes : Rank(m) = Rank(n) => m = n
    BY RankOneToOne
<1>4. ASSUME NEW i \in 1..N, NEW j \in 1..N, i # j
      PROVE  s[i] # s[j]
  <2>1. N - i # N - j
      BY <1>4, <1>n
  <2> QED
      BY <2>1, <1>1
<1>5. s[1] = head
  <2>1. 1 \in 1..N
      BY <1>n
  <2> QED
      BY <2>1, <1>1, <1>3, RankHead
<1>6. ASSUME NEW i \in 1..N, i = N
      PROVE  next[s[i]] = {}
  <2>1. Rank(s[i]) = 0 /\ s[i] \in Nodes
      BY <1>1, <1>6, <1>n
  <2>2. SUFFICES ASSUME next[s[i]] # {} PROVE FALSE
      OBVIOUS
  <2>3. PICK m \in Nodes : Rank(s[i]) = Rank(m) + 1
      BY <2>1, <2>2, RankStep
  <2>4. Rank(m) \in 0..(N - 1)
      BY RankStep
  <2> QED
      BY <2>1, <2>3, <2>4, <1>n
<1>7. ASSUME NEW i \in 1..N, i # N
      PROVE  next[s[i]] = {s[i + 1]} /\ <<s[i], s[i + 1]>> \in explains
  <2>1. s[i] \in Nodes /\ Rank(s[i]) = N - i /\ N - i # 0 /\ i + 1 \in 1..N
      BY <1>1, <1>7, <1>n
  <2>2. PICK m \in Nodes : next[s[i]] = {m} /\ Rank(s[i]) = Rank(m) + 1
      BY <2>1, RankStep
  <2>3. Rank(m) \in 0..(N - 1)
      BY RankStep
  <2>4. Rank(m) = N - (i + 1)
      BY <2>1, <2>2, <2>3, <1>n
  <2>5. m = s[i + 1]
      BY <2>1, <2>4, <1>1, <1>3
  <2>6. m # head
      BY <2>1, <2>2, OnlyHeadFirst
  <2>7. PICK p \in Nodes : <<p, m>> \in explains
      BY <2>6 DEF Dfs!Explained
  <2>8. m \in next[p]
      BY <2>7 DEF Graph
  <2>9. PICK q \in Nodes : next[p] = {q} /\ Rank(p) = Rank(q) + 1
      BY <2>8, RankStep
  <2>10. Rank(p) = Rank(s[i])
      BY <2>2, <2>8, <2>9
  <2>11. p = s[i]
      BY <2>1, <2>10, <1>3
  <2> QED
      BY <2>2, <2>5, <2>7, <2>11
<1>8. Follows(s)
    BY <1>2, <1>5, <1>6, <1>7 DEF Follows
<1>9. s \in TotalOrders
    BY <1>2, <1>4, <1>8 DEF TotalOrders, N
<1> QED
    BY <1>9

\* The order of a chain keeps what no pair violates.
LEMMA OrderKeeps ==
    ASSUME Graph, NEW s \in TotalOrders, \A n \in Nodes : reachable[n] = Dfs!Reachable(n)
    PROVE  /\ KeepsRealTime(s) <=> \A p \in Pairs : ~RTViolation(p)
           /\ KeepsSessions(s) <=> \A p \in Pairs : ~CASLViolation(p)
<1>1. /\ s \in [1..N -> Nodes] /\ DOMAIN s = 1..N
      /\ \A n \in Nodes : \E i \in 1..N : s[i] = n
      /\ \A i, j \in 1..N : i # j => s[i] # s[j]
    BY AlongOrder
<1>n. N \in Nat
    BY CountNodes
<1>2. ASSUME NEW i \in 1..N, NEW j \in 1..N, i < j
      PROVE  /\ <<s[j], s[i]>> \in Pairs
             /\ s[i] \notin reachable[s[j]]
  <2>1. i # j /\ ~(j < i)
      BY <1>2, <1>n
  <2>2. s[i] \notin Dfs!Reachable(s[j])
      BY <2>1, OrderReaches
  <2> QED
      BY <2>1, <2>2, <1>1 DEF Pairs
<1>3. ASSUME NEW p \in Pairs, p[2] \notin reachable[p[1]]
      PROVE  \E i, j \in 1..N : i < j /\ s[i] = p[2] /\ s[j] = p[1]
  <2>1. p[1] \in Nodes /\ p[2] \in Nodes /\ p[1] # p[2]
      BY DEF Pairs
  <2>2. PICK j \in 1..N : s[j] = p[1]
      BY <1>1, <2>1
  <2>3. PICK i \in 1..N : s[i] = p[2]
      BY <1>1, <2>1
  <2>4. s[i] \notin Dfs!Reachable(s[j])
      BY <1>3, <2>1, <2>2, <2>3
  <2>5. ~(j < i)
      BY <2>4, OrderReaches
  <2>6. i # j
      BY <2>1, <2>2, <2>3
  <2>7. i < j
      BY <2>5, <2>6, <1>n
  <2> QED
      BY <2>2, <2>3, <2>7
<1>4. KeepsRealTime(s) => \A p \in Pairs : ~RTViolation(p)
    BY <1>1, <1>3 DEF KeepsRealTime, RTViolation
<1>5. (\A p \in Pairs : ~RTViolation(p)) => KeepsRealTime(s)
  <2> SUFFICES ASSUME \A p \in Pairs : ~RTViolation(p),
                      NEW i \in 1..N, NEW j \in 1..N, i < j
               PROVE  ~(tsResp[s[j]] < tsReq[s[i]])
      BY <1>1 DEF KeepsRealTime
  <2>1. ~RTViolation(<<s[j], s[i]>>)
      BY <1>2
  <2> QED
      BY <2>1, <1>2 DEF RTViolation
<1>6. KeepsSessions(s) => \A p \in Pairs : ~CASLViolation(p)
    BY <1>1, <1>3 DEF KeepsSessions, CASLViolation, RTViolation
<1>7. (\A p \in Pairs : ~CASLViolation(p)) => KeepsSessions(s)
  <2> SUFFICES ASSUME \A p \in Pairs : ~CASLViolation(p),
                      NEW i \in 1..N, NEW j \in 1..N, i < j, cId[s[i]] = cId[s[j]]
               PROVE  ~(tsResp[s[j]] < tsReq[s[i]])
      BY <1>1 DEF KeepsSessions
  <2>1. ~CASLViolation(<<s[j], s[i]>>)
      BY <1>2
  <2> QED
      BY <2>1, <1>2 DEF CASLViolation, RTViolation
<1> QED
    BY <1>4, <1>5, <1>6, <1>7

(***************************************************************************)
(* The two strong assertions: linearizability is asserted exactly when     *)
(* there is a total order of all operations along the edges, each          *)
(* explained by the one before, that keeps real time, and sequential       *)
(* consistency when it keeps the sessions and not real time.               *)
(***************************************************************************)
THEOREM TotalOrdersRight == SCSpec => []TotalOrdersMean
<1>1. SCInv => TotalOrdersMean
  <2> SUFFICES ASSUME SCInv, Finished
               PROVE  TotalOrdersMean
      BY DEF TotalOrdersMean
  <2>1. Graph
      BY DEF SCInv, DfsInv, Traversed
  <2>2. /\ AssertLinearizability <=> result = "SO" /\ level = "RT"
        /\ AssertSequentialConsistency <=> result = "SO" /\ level = "CASL"
    <3>1. CASE result = "INVALID"
        BY <3>1 DEF AssertLinearizability, AssertSequentialConsistency, SatisfiedConstraints
    <3>2. CASE result # "INVALID"
      <4>1. \A l, r : SatisfiedConstraints = <<l, r>> <=> result = l /\ level = r
          BY <3>2 DEF SatisfiedConstraints
      <4> QED
          BY <4>1 DEF AssertLinearizability, AssertSequentialConsistency
    <3> QED
        BY <3>1, <3>2
  <2>3. ASSUME NEW s \in TotalOrders
        PROVE  /\ result = "SO"
               /\ level = "RT" <=> KeepsRealTime(s)
               /\ level = "CASL" <=> KeepsSessions(s) /\ ~KeepsRealTime(s)
    <3>1. Dfs!WellFormed /\ Dfs!Explained /\ Dfs!Chain
        BY <2>1, OrderIsChain
    <3>2. /\ result = "SO" /\ level = Conforming(Pairs)
          /\ \A n \in Nodes : reachable[n] = Dfs!Reachable(n)
        BY <3>1, OverRight
    <3>3. /\ KeepsRealTime(s) <=> \A p \in Pairs : ~RTViolation(p)
          /\ KeepsSessions(s) <=> \A p \in Pairs : ~CASLViolation(p)
        BY <2>1, <3>2, OrderKeeps
    <3> QED
        BY <3>2, <3>3 DEF Conforming
  <2>4. ASSUME result = "SO"
        PROVE  \E s : s \in TotalOrders
    <3>1. Dfs!WellFormed /\ Dfs!Explained /\ Dfs!Chain
        BY <2>4, OverRight
    <3> QED
        BY <2>1, <3>1, ChainHasOrder
  <2>5. AssertLinearizability <=> \E s \in TotalOrders : KeepsRealTime(s)
      BY <2>2, <2>3, <2>4
  <2>6. AssertSequentialConsistency <=>
          \E s \in TotalOrders : KeepsSessions(s) /\ ~KeepsRealTime(s)
      BY <2>2, <2>3, <2>4
  <2> QED
      BY <2>5, <2>6 DEF TotalOrdersMean
<1> QED
    BY <1>1, SCAlways, PTL
==============================================================================
