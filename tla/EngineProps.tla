----------------------------- MODULE EngineProps -----------------------------
(***************************************************************************)
(* What the scheduler of Engine must guarantee.                            *)
(***************************************************************************)
EXTENDS Engine

\* Every variable holds a value of its kind; the content of deltas and
\* fields is left to Reducers.
TypeOK ==
  /\ GateTypeOK
  /\ BranchTypeOK
  /\ graph \in Graphs
  /\ pc \in PcSet
  /\ held \in Seq(EventKind)
  /\ req \in RequestType
  /\ node \in Node \cup {START}
  /\ target \in Node \cup {END}
  /\ steps \in Nat
  /\ admitted \subseteq Node
  /\ field \in Nat
  /\ outcome \in Ending \cup {"running"}
  /\ entered \in Seq(Node)

\* Under a gate, every callable that received control - a router, a node, a
\* branch, a join, a custom reducer - was allowed by a decision that covers
\* it (gate.py:10-16), and a gate with start markers also holds its marker.
EveryCallAuthorised ==
  gate.present => \A c \in calls : Authorised(c) /\ (gate.start => c \in marked)

\* A dispatch request the gate allowed is never put to it again: an external
\* ledger keyed by requests charges every callable once, even when a cycle
\* or a region brings the scheduler back to the same node.
AuthorityIsSpentOnce ==
  [][/\ pc # "ask" /\ pc' = "ask" => req' \notin allowed
     /\ \A b \in Node : bpc[b] = "ask" /\ bpc'[b] = "mark" =>
                        BranchRequest(b) \notin allowed]_vars

\* gate.py:22-24: once a stop is recorded while the consumer holds an
\* observation, no further callable receives control and nothing is published.
StopHonoured ==
  [][latch /\ gate.present => calls' = calls /\ log' = log]_vars

\* What is published is byte for byte what the gate allowed to be committed,
\* even if node code wrote to the delta while the gate was awaited
\* (engine.py:497-500 and 783-784).
PublishedWasApproved ==
  gate.present => \A i \in DOMAIN log : log[i] \in approved

\* A region's commit depends on which branches were admitted and on nothing
\* else, in particular not on the order in which the tasks completed:
\* contributions fold in ascending branch name (reducers.py:3-6).
CanonicalContent(A) ==
  LET writers(f) == WritersAmong(graph, Edge.branches, A, f)
  IN [f \in {g \in Field : writers(g) # <<>>} |->
        ReduceField(graph.reducer[f], state.fields[f], Contributions(writers(f), f))]

CommitIsCanonical ==
  [][log' # log /\ InRegion =>
       LET last == log'[Len(log')]
       IN last.content = CanonicalContent(last.nodes)]_vars

\* A region publishes only when no branch asked for a human, was stopped,
\* refused, cancelled, or left with an uncertain start marker.
RegionIsAllOrNothing ==
  [][log' # log /\ InRegion =>
       \A b \in Names(Edge.branches) : result[b] \in {"ok", "error"}]_vars

\* What a region publishes: all that its admitted branches wrote, folded in
\* their order, or nothing (engine.py:679-800).
RegionCommits == CommitIsCanonical /\ RegionIsAllOrNothing

\* engine.py:705-706: a failed start marker is never hidden behind a
\* cooperative stop or a human-in-the-loop interrupt of a sibling branch.
MarkerFailureSurfaces ==
  outcome \in {"stopped", "interrupted", "done"} =>
    With({"markrefused", "markfailed"}) = {}

\* Structured concurrency: the generator never yields, publishes, raises or
\* is closed while a branch task of its region is still alive.
NoOrphanBranch ==
  pc \notin {"settle", "reap"} => \A n \in Node : bpc[n] \in {"idle", "done"}

\* The step budget holds at every point, counting a region's branches before
\* any of them has run and its successes once they have.
BudgetKept ==
  /\ steps <= graph.maxSteps
  /\ pc \in {"settle", "reap"} => steps + Len(Edge.branches) <= graph.maxSteps
  /\ InRegion /\ pc \in {"fold", "commit", "after"} => Completed <= graph.maxSteps

\* Whatever happens to the settlement hook or to the task, a publication has
\* reached the consumer when the invocation is over (engine.py:509-523,
\* 801-831): the state ainvoke returns holds every published field.
PublishedIsObserved == pc # "after" => seen.fields = state.fields

\* A run that ends by itself reports exactly the nodes it announced, in order.
VisitsAreAnnounced ==
  outcome \in {"done", "interrupted"} => seen.visited = entered

\* How a run ends is the truth about what happened in it, to its nodes and to
\* its start markers.
EndsTruthfully == VisitsAreAnnounced /\ MarkerFailureSurfaces

\* Every invocation ends, under a fair event loop and a consumer that keeps
\* pulling, in every graph, cyclic ones included.
Termination == <>(pc = "ended" /\ Idle)

-----------------------------------------------------------------------------
(* The scheduler implements GraphWalk.  An entry of the log is a step of   *)
(* the walk; steps is brought up to date after after_commit returns.       *)

Walk == [i \in DOMAIN log |->
           [kind |-> log[i].kind, node |-> log[i].node, nodes |-> log[i].nodes]]

Spent == IF pc # "after" THEN steps ELSE IF InRegion THEN Completed ELSE steps + 1

End == IF outcome \in {"running", "done"} THEN outcome ELSE "cut"

Abstract == INSTANCE GraphWalk WITH walk <- Walk, spent <- Spent, ending <- End

RefinesGraphWalk == Abstract!WalkSpec

-----------------------------------------------------------------------------
\* What the docstring of MaxStepsExceeded says of last_node (engine.py:214):
\* the most recently entered node, or START when the budget is zero.
LastNodeIsMostRecent ==
  outcome = "exhausted" =>
    node = IF entered = <<>> THEN START ELSE entered[Len(entered)]
=============================================================================
