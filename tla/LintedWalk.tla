----------------------------- MODULE LintedWalk -----------------------------
(***************************************************************************)
(* What static validation says of a graph, and then what a run of that     *)
(* graph does, as after compile_validated: the loop of lint, composed with *)
(* the walk that the scheduler is shown to implement (modules Engine,      *)
(* GraphWalk).                                                             *)
(***************************************************************************)
EXTENDS Worklist

CONSTANT Cases   \* pairs of a description and the graph it describes

\* _describe_topology: what the description of a registered edge says of it.
\* targets are a router's possible answers, about which it says nothing.
Says(e, edge) ==
  /\ e.kind = edge.kind
  /\ e.kind # "conditional" => edge.targets = {e.target}
  /\ e.kind = "fanout" => ToSet(edge.branches) = e.declared

\* A source without an edge leads to END; sentinels are never run as nodes,
\* and add_edge refuses a region at START.
Describes(s, g) ==
  /\ \A e \in ToSet(s.edges) : EdgeConstructs(e)
  /\ g.nodes = NodeNames(s) \ {START, END}
  /\ DOMAIN g.edge = g.nodes \cup {START}
  /\ g.edge[START].kind # "fanout"
  /\ \A n \in DOMAIN g.edge :
       \/ n \notin Sources(s) /\ g.edge[n].kind = "static" /\ g.edge[n].targets = {END}
       \/ \E e \in ToSet(s.edges) : e.source = n /\ Says(e, g.edge[n])

ASSUME CasesAssumption == \A c \in Cases : Describes(c.spec, c.graph)

VARIABLES graph, walk, spent, ending

Walk == INSTANCE GraphWalk

walked == <<graph, walk, spent, ending>>
lintedVars == <<loop, walked>>

LintedWalkInit ==
  /\ \E c \in Cases : spec = c.spec /\ graph = c.graph
  /\ LoopInit
  /\ Walk!Init

LintedWalkNext ==
  \/ LoopStep /\ UNCHANGED walked
  \/ LoopEnded /\ Walk!Next /\ UNCHANGED loop

\* The loop has no await: nothing else runs until it ends.
LintedWalkSpec == LintedWalkInit /\ [][LintedWalkNext]_lintedVars /\ WF_loop(LoopStep)

-----------------------------------------------------------------------------
\* Every router answers with one of the targets declared for it.
RoutersKeepDeclared ==
  \A e \in Edges(spec, "conditional") :
    e.declared # {} /\ e.source \in DOMAIN graph.edge => graph.edge[e.source].targets \subseteq e.declared

Entered == UNION {{walk[i].node} \cup walk[i].nodes : i \in DOMAIN walk}

\* Nodes that lint calls definitely unreachable (lint.py:284-294) are never
\* entered, as nodes or as branches, while routers keep to their declared
\* targets.
UnreachableIsNeverEntered == RoutersKeepDeclared => Entered \cap Unreachable(spec) = {}

\* A graph without a definite path to END (lint.py:296-303) is done only by
\* stopping at a node that has no edge of its own (engine.py:525).
EndlessIsNeverDone ==
  RoutersKeepDeclared /\ Endless(spec) /\ ending = "done" => Walk!Position \notin Sources(spec)

\* The two warnings about reachability are never contradicted by a run of the
\* graph they are about (lint.py:257-303).
WarningsHold == UnreachableIsNeverEntered /\ EndlessIsNeverDone

\* A router without declared targets may name anything.
Resolvable ==
  \/ Walk!Edge.kind = "conditional" /\ Walk!Position \in Opaque(spec)
  \/ /\ Walk!Edge.targets \subseteq graph.nodes \cup {END}
     /\ Walk!Edge.kind = "fanout" => Walk!Members \subseteq graph.nodes

\* A validated graph never meets a name that is not registered, in an edge or
\* among the branches of a region (engine.py:661-664, 993-1012 raise only for
\* graphs that compile_validated refuses, engine.py:1058-1064).
ValidatedNeverBreaks == Valid(spec) /\ RoutersKeepDeclared /\ ending = "running" => Resolvable

=============================================================================
