------------------------------ MODULE Worklist ------------------------------
(***************************************************************************)
(* The loop by which lint_graph_spec finds the nodes reachable from START. *)
(* The list it pops from holds no place twice, and the targets of a place  *)
(* come in the order of a hash set: any place of the frontier may be next. *)
(***************************************************************************)
EXTENDS Lint

VARIABLES spec, reachable, frontier

loop == <<spec, reachable, frontier>>

LoopInit == reachable = {START} /\ frontier = {START}

Targets(p) == {t \in Places(spec) : <<p, t>> \in Arcs(spec)}
Fresh(p) == Targets(p) \ reachable

\* Mutants: the rest of the frontier is lost; a place is queued again.
OnlyFresh(p) == Fresh(p)
Revisited(p) == (frontier \ {p}) \cup Targets(p)
Queued(p) == (frontier \ {p}) \cup Fresh(p)

Expand(p) ==
  /\ p \in frontier
  /\ reachable' = reachable \cup Fresh(p)
  /\ frontier' = Queued(p)
  /\ UNCHANGED spec

LoopStep == \E p \in frontier : Expand(p)
LoopEnded == frontier = {}

-----------------------------------------------------------------------------
\* When the loop ends it has found what Lint takes for reachable, the least
\* set that holds START and is closed under the edges, in whatever order the
\* places were expanded (lint.py:275-282): no reachable node is called
\* unreachable, and no unreachable one is missed.
ExactWhenDone == LoopEnded => reachable = Reachable(spec)

\* The loop ends on every graph, cycles and self-loops included (lint.py:277).
WorklistEnds == <>LoopEnded
=============================================================================
