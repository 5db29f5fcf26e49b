------------------------------ MODULE GraphWalk ------------------------------
(***************************************************************************)
(* What one graph invocation promises, with no gate, no concurrency and no *)
(* observation: it publishes a walk through the graph, one node or one     *)
(* whole region at a time, within the step budget, and it is done only     *)
(* where an edge leads to END.                                             *)
(***************************************************************************)
EXTENDS Naturals, FiniteSets, Sequences

CONSTANTS START, END

VARIABLES
  graph,   \* the graph walked
  walk,    \* what was published: nodes, and regions with their admitted branches
  spent,   \* node executions completed
  ending   \* "running", "done", or "cut" for every other end

walkVars == <<graph, walk, spent, ending>>

Position == IF walk = <<>> THEN START ELSE walk[Len(walk)].node
Edge == graph.edge[Position]

\* A region is owed after a node whose edge fans out.
RegionOwed == /\ Edge.kind = "fanout"
              /\ walk[Len(walk)].kind = "node"

Members == {Edge.branches[i] : i \in DOMAIN Edge.branches}

\* What a join of each kind can admit, whatever its branches did.
Admissible(A) ==
  /\ A # {} /\ A \subseteq Members
  /\ Edge.join = "all" => A = Members
  /\ Edge.join = "first_success" => Cardinality(A) = 1
  /\ Edge.join = "quorum" => Cardinality(A) >= Edge.quorum

Init == walk = <<>> /\ spent = 0 /\ ending = "running"

Publish(kind, n, nodes, cost) ==
  /\ ending = "running"
  /\ spent' = spent + cost
  /\ spent' <= graph.maxSteps
  /\ walk' = Append(walk, [kind |-> kind, node |-> n, nodes |-> nodes])
  /\ UNCHANGED <<graph, ending>>

Visit(n) ==
  /\ ~RegionOwed
  /\ n \in Edge.targets \cap graph.nodes
  /\ Publish("node", n, {n}, 1)

\* Every successful branch costs a step, admitted or not.
CrossRegion(A) ==
  /\ RegionOwed
  /\ Admissible(A)
  /\ \E cost \in Cardinality(A) .. Len(Edge.branches) :
       Publish("region", Position, A, cost)

Complete ==
  /\ ending = "running"
  /\ ~RegionOwed
  /\ END \in Edge.targets
  /\ ending' = "done"
  /\ UNCHANGED <<graph, walk, spent>>

Abandon ==
  /\ ending = "running"
  /\ ending' = "cut"
  /\ UNCHANGED <<graph, walk, spent>>

Next ==
  \/ \E n \in graph.nodes : Visit(n)
  \/ \E A \in SUBSET Members : CrossRegion(A)
  \/ Complete
  \/ Abandon

WalkSpec == Init /\ [][Next]_walkVars
=============================================================================
