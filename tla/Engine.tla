------------------------------- MODULE Engine -------------------------------
(***************************************************************************)
(* The canonical scheduler: CompiledGraph._run and _run_region of          *)
(* graph/engine.py, an async generator driven by one consumer.             *)
(*                                                                         *)
(* The generator moves only while the consumer waits for it (held is       *)
(* empty).  What runs beside it: the consumer between two observations,    *)
(* the gate while it is awaited, the branch tasks of a region, node code   *)
(* that kept a reference to the delta it returned, and whoever cancels the *)
(* task the generator runs in.                                             *)
(***************************************************************************)
EXTENDS Branches, Reducers

CONSTANTS
  Graphs,   \* the compiled graphs an invocation may run
  NFields   \* state fields are numbered in the order their names sort

Field == 1 .. NFields

EdgeType == [kind : {"static", "router", "fanout"},
             targets : SUBSET (Node \cup {END}),  \* then of a fanout; a router's answers
             branches : Seq(Node), join : JoinKind, quorum : Nat]

\* A graph a MiniGraph can compile to.  A source without an edge has the
\* static edge to END; writes[n] is the delta that n returns; base the field
\* values of the initial state; a name outside nodes is not registered.
IsGraph(g) ==
  /\ g.nodes \subseteq Node
  /\ g.edge \in [Node \cup {START} -> EdgeType]
  /\ g.edge[START].kind # "fanout"
  /\ \A n \in DOMAIN g.edge : g.edge[n].kind # "router" => Cardinality(g.edge[n].targets) = 1
  /\ \A n \in DOMAIN g.edge :
       g.edge[n].kind = "fanout" => \A i, j \in DOMAIN g.edge[n].branches :
                                      i # j => g.edge[n].branches[i] # g.edge[n].branches[j]
  /\ \A n \in Node : DOMAIN g.writes[n] \subseteq Field
  /\ DOMAIN g.base = Field
  /\ g.reducer \in [Field -> ReducerKind \cup {"undeclared"}]
  /\ g.maxSteps \in Nat

ASSUME GraphsAssumption ==
  /\ NFields \in Nat
  /\ IsFiniteSet(Node)
  /\ \A g \in Graphs : IsGraph(g)

VARIABLES
  graph,     \* the compiled graph of this invocation
  pc,        \* where the generator is suspended or about to continue
  held,      \* observations yielded and not yet taken; the head is the consumer's
  req,       \* the request being asked, marked, executed or committed
  node,      \* current_node, last_node and a region's source; START at first
  target,    \* the node the last edge resolved to
  steps,     \* completed node executions
  state,     \* the PerpetuaState of the generator
  seen,      \* the state of the last observation: what ainvoke would return
  admitted,  \* branches admitted by the join
  field,     \* the next field the fold looks at
  delta,     \* the delta on its way to publication
  outcome,   \* how the invocation ended
  log,       \* history: what was published, in order
  approved,  \* history: commit requests the gate allowed, with their digests
  entered    \* history: nodes announced by node.start, in order

runVars == <<node, target, steps, state>>
foldVars == <<admitted, field>>
histVars == <<log, approved, entered>>
rest == <<graph, held, runVars, seen, foldVars, delta, outcome, histVars>>
peers == <<gateVars, branchVars>>
vars == <<peers, pc, req, rest>>

PcSet == {"edge", "then", "ask", "mark", "call", "settle", "reap", "fold",
          "commit", "after", "loop", "raise", "ended"}

Ending == {"done", "interrupted", "stopped", "refused", "failed", "exhausted",
           "unsettled", "cancelled", "closed"}

EventKind == {"edge.selected", "node.start", "node.end", "superstep.start",
              "superstep.commit", "done", "interrupt", "stopped"}

\* The generator runs on only when every observation has been taken.
Idle == held = <<>>
Reached(place) == pc = place
At(place) == Reached(place) /\ Idle

Edge == graph.edge[node]
InRegion == req.batch # 0

\* Deltas.  shared: the delta still is the object node code holds a
\* reference to; changed: node code has written to that object since.
NewDelta(content) == [content |-> content, shared |-> TRUE, changed |-> FALSE]
NoDelta == NewDelta([f \in {} |-> NoValue])

\* copy.deepcopy of a delta before it is hashed; only with a gate.
Alias(d) == d
Detach(d) == [d EXCEPT !.shared = ~gate.present]

\* What a delta holds when it is read.
Content(d) ==
  IF d.shared /\ d.changed
  THEN [f \in DOMAIN d.content |-> [tag |-> "changed", items |-> <<d.content[f]>>]]
  ELSE d.content

MergeFields(fields, d) == [f \in Field |-> IF f \in DOMAIN d THEN d[f] ELSE fields[f]]

\* PerpetuaState.merge for the updates the scheduler makes.
Visited(st, names) == [st EXCEPT !.visited = @ \o names]
Halted(st, status, n) == [st EXCEPT !.status = status, !.halt = n]

\* What a stopped region falls back to, and what its branches see.
BeforeRegion == state
Snapshot == Visited(BeforeRegion, Edge.branches)

-----------------------------------------------------------------------------
(* How the generator gives up control.                                     *)

Yield(kinds, view) == held' = kinds /\ seen' = view

\* An exception leaves the generator.
Raise(how) ==
  /\ pc' = "ended"
  /\ outcome' = how
  /\ UNCHANGED <<held, seen, req, runVars, foldVars, delta, histVars, graph, peers>>

\* A terminal observation, after which the generator returns.
Terminate(how, kind, final) ==
  /\ pc' = "ended"
  /\ outcome' = how
  /\ state' = final
  /\ Yield(<<kind>>, final)
  /\ UNCHANGED <<req, node, target, steps, foldVars, delta, histVars, graph, peers>>

\* _dispatch: the gate is asked about r when the generator runs next.
Dispatch(r) == pc' = "ask" /\ req' = r

Batch == steps
NodeRequest(n) == Request("node", {n}, steps, None, 0, 0)
RouterRequest == Request("router", {node}, steps, node, 0, 0)
RegionRequest(boundary, names, done, key) == Request(boundary, names, done, node, Batch, key)
BranchRequest(b) == RegionRequest("node", {b}, steps, 0)

-----------------------------------------------------------------------------
\* The caller's own state, which no graph has run on.
FreshState == [visited |-> <<>>, fields |-> graph.base, status |-> "idle", halt |-> START]

Init ==
  /\ GateInit
  /\ BranchInit
  /\ graph \in Graphs
  /\ pc = "edge"
  /\ held = <<>>
  /\ req = Request("router", {START}, 0, START, 0, 0)
  /\ node = START
  /\ target = END
  /\ steps = 0
  /\ state = FreshState
  /\ seen = state
  /\ admitted = {}
  /\ field = 1
  /\ delta = NoDelta
  /\ outcome = "running"
  /\ log = <<>>
  /\ approved = {}
  /\ entered = <<>>

-----------------------------------------------------------------------------
(* Edges.  From START, after a node and after a region the same code       *)
(* resolves an edge: a callable one is guarded, a static target is not.    *)

Known(t) == t = END \/ t \in graph.nodes

Select(t) ==
  /\ target' = t
  /\ pc' = "loop"
  /\ Yield(<<"edge.selected">>, state)
  /\ UNCHANGED <<req, node, steps, state, foldVars, delta, outcome, histVars, graph, peers>>

Resolve(t) == IF Known(t) THEN Select(t) ELSE Raise("failed")

AskRouter ==
  /\ At("edge")
  /\ Edge.kind = "router"
  /\ Dispatch(RouterRequest)
  /\ UNCHANGED <<rest, peers>>

FollowStatic ==
  /\ \/ At("edge") /\ Edge.kind = "static"
     \/ At("then")
  /\ \E t \in Edge.targets : Resolve(t)

RouterReturns ==
  /\ At("call") /\ req.boundary = "router"
  /\ \E t \in Edge.targets : Resolve(t)

-----------------------------------------------------------------------------
(* The loop head of _run, after edge.selected was taken.                   *)

Always == TRUE
LoopsOn == target # END
NodeFits == steps < graph.maxSteps

Finish ==
  /\ At("loop")
  /\ ~LoopsOn
  /\ Terminate("done", "done", [state EXCEPT !.status = "done"])

Exhaust ==
  /\ At("loop")
  /\ LoopsOn /\ ~NodeFits
  /\ Raise("exhausted")

EnterNode ==
  /\ At("loop")
  /\ LoopsOn /\ NodeFits
  /\ node' = target
  /\ state' = Visited(state, <<target>>)
  /\ entered' = Append(entered, target)
  /\ Yield(<<"node.start">>, Visited(state, <<target>>))
  /\ Dispatch(NodeRequest(target))
  /\ UNCHANGED <<target, steps, foldVars, delta, outcome, log, approved, graph, peers>>

-----------------------------------------------------------------------------
(* The gate's answers, and the start marker.                               *)

\* The callable that req names runs: at once, or after its start marker.
CallNow == pc' = "call" /\ Transfer(req)
StartCallable ==
  IF gate.start THEN pc' = "mark" /\ UNCHANGED calls ELSE CallNow

\* An allowed boundary is passed.  A fanout request starts the branches and
\* the batch request of the reducers the fold; the others a callable.
Pass ==
  CASE req.boundary = "fanout" ->
         pc' = "settle" /\ Launch(Edge.branches) /\ UNCHANGED calls
    [] req.boundary = "reducer" /\ req.key = 0 ->
         pc' = "fold" /\ UNCHANGED <<calls, branchVars>>
    [] OTHER ->
         StartCallable /\ UNCHANGED branchVars

DispatchAllowed ==
  /\ At("ask")
  /\ MayAllow
  /\ Grant(req)
  /\ Pass
  /\ UNCHANGED <<gate, latch, marked, req, rest>>

MarkerWritten ==
  /\ At("mark")
  /\ Mark(req)
  /\ CallNow
  /\ UNCHANGED <<gate, latch, allowed, branchVars, req, rest>>

\* A verdict, or GateRefused out of the start marker.
GateRefuses ==
  /\ At("ask") \/ At("commit") \/ At("mark")
  /\ MayRefuse
  /\ Raise("refused")

\* The state is the one before the boundary; inside a region that is the
\* state before the region, without the visits of its branches.
GateStops ==
  /\ At("ask") \/ At("commit")
  /\ MayStop
  /\ Terminate("stopped", "stopped", Halted(state, "stopped", node))

\* The gate raises, answers with something else than a decision, or fails
\* to write the marker.
GateFails ==
  /\ At("ask") \/ At("commit") \/ At("mark")
  /\ MayFail
  /\ Raise("failed")

-----------------------------------------------------------------------------
(* A node, and what every callable of the scheduler may do.                *)

\* The deepcopy of a gated delta and its digest; then before_commit.
Offer(request, d) ==
  /\ pc' = "commit"
  /\ req' = request
  /\ delta' = Detach(d)
  /\ UNCHANGED <<held, runVars, seen, outcome, histVars, graph, peers>>

NodeReturns ==
  /\ At("call") /\ req.boundary = "node"
  /\ Offer(NodeRequest(node), NewDelta(graph.writes[node]))
  /\ UNCHANGED foldVars

NodeInterrupts ==
  /\ At("call") /\ req.boundary = "node"
  /\ Terminate("interrupted", "interrupt", Halted(state, "interrupted", node))

\* A node, router, join or custom reducer raises or returns what the
\* scheduler rejects; for a gated node also a delta that is not JSON.
CallableFails ==
  /\ At("call")
  /\ Raise("failed")

-----------------------------------------------------------------------------
(* Publication: synchronous after an allowed commit, then after_commit,    *)
(* then the observations of what was published.                            *)

Uncounted == steps
NodeCompleted == steps + 1
Completed == steps + Cardinality(With({"ok"}))

\* node.end for every admitted branch, then superstep.commit.
RegionEvents ==
  [i \in 1 .. Cardinality(admitted) + 1 |->
     IF i <= Cardinality(admitted) THEN "node.end" ELSE "superstep.commit"]

\* Where the generator goes on after the last of them: a region leaves
\* through the then of its edge.
OwnEdge(next) == next
Onward(next) == IF InRegion /\ next = "edge" THEN "then" ELSE next

Show(published, next) ==
  /\ steps' = IF InRegion THEN Completed ELSE NodeCompleted
  /\ Yield(IF InRegion THEN RegionEvents ELSE <<"node.end">>, published)
  /\ pc' = Onward(next)

Entry(content) ==
  [kind |-> req.boundary, node |-> node, nodes |-> req.nodes, steps |-> req.steps,
   content |-> content]

Published ==
  [(IF InRegion THEN Snapshot ELSE state) EXCEPT !.fields = MergeFields(@, Content(delta))]

CommitAllowed ==
  /\ At("commit")
  /\ MayAllow
  /\ approved' = IF gate.present THEN approved \cup {Entry(delta.content)} ELSE approved
  /\ log' = Append(log, Entry(Content(delta)))
  /\ state' = Published
  /\ IF gate.settle
     THEN pc' = "after" /\ UNCHANGED <<held, seen, steps>>
     ELSE Show(Published, "edge")
  /\ UNCHANGED <<peers, graph, req, node, target, foldVars, delta,
                 outcome, entered>>

\* after_commit returns, or fails or is cancelled: then the failure is
\* raised once the publication has been observed.
Settlement(next) ==
  /\ At("after")
  /\ Show(state, next)
  /\ UNCHANGED <<peers, graph, req, node, target, state, foldVars,
                 delta, outcome, histVars>>

SettlementReturns == Settlement("edge")

\* The variant that raises before it has shown what it published.
LoseSettlement == At("after") /\ Raise("unsettled")
SettlementFails == Settlement("raise")

RaiseSettlement ==
  /\ At("raise")
  /\ Raise("unsettled")

-----------------------------------------------------------------------------
(* A region.                                                               *)

RegionFits == steps + Len(Edge.branches) <= graph.maxSteps
RegionKnown == /\ Names(Edge.branches) \subseteq graph.nodes
               /\ \A t \in Edge.targets : Known(t)

AtRegion == At("edge") /\ Edge.kind = "fanout"

RegionExhausts ==
  /\ AtRegion
  /\ ~RegionFits
  /\ Raise("exhausted")

RegionUnknown ==
  /\ AtRegion
  /\ RegionFits /\ ~RegionKnown
  /\ Raise("failed")

\* superstep.start and a node.start per branch, then one batch decision.
EnterRegion ==
  /\ AtRegion
  /\ RegionFits /\ RegionKnown
  /\ entered' = entered \o Edge.branches
  /\ Yield(<<"superstep.start">> \o [i \in DOMAIN Edge.branches |-> "node.start"], Snapshot)
  /\ Dispatch(RegionRequest("fanout", Names(Edge.branches), steps, 0))
  /\ UNCHANGED <<runVars, foldVars, delta, outcome, log, approved, graph, peers>>

Branch ==
  /\ \E b \in Names(Edge.branches) :
       \/ At("settle") /\ BranchBegins(b, BranchRequest(b))
       \/ (At("settle") \/ At("reap")) /\ BranchStep(b, BranchRequest(b))
  /\ UNCHANGED <<pc, req, rest>>

RegionSettled == At("settle") /\ AllDone

\* task.result() raises the CancelledError of a cancelled branch.
RegionCancelled ==
  /\ RegionSettled
  /\ With({"cancelled"}) # {}
  /\ Raise("cancelled")

\* What ends the region beside a cancellation, the first in this order.
Inadmissible == With({"refused", "gatefailed"})
RefusedMarkers == With({"markrefused"})
Unmarked == With({"markrefused", "markfailed"})
NoFailures == With({"cancelled"}) \cup Inadmissible \cup Unmarked = {}
Uncontrolled == NoFailures /\ With({"stopped"}) = {}

RegionInadmissible ==
  /\ RegionSettled /\ With({"cancelled"}) = {}
  /\ \E b \in Inadmissible :
       /\ IsFirst(b, Inadmissible, Edge.branches)
       /\ Raise(IF result[b] = "refused" THEN "refused" ELSE "failed")

RegionUnmarked ==
  /\ RegionSettled /\ With({"cancelled"}) \cup Inadmissible = {}
  /\ Unmarked # {}
  /\ Raise(IF RefusedMarkers # {} THEN "refused" ELSE "failed")

RegionStopped ==
  /\ RegionSettled /\ NoFailures
  /\ With({"stopped"}) # {}
  /\ Terminate("stopped", "stopped", Halted(BeforeRegion, "stopped", node))

RegionInterrupted ==
  /\ RegionSettled /\ Uncontrolled
  /\ \E b \in With({"interrupt"}) :
       /\ IsFirst(b, With({"interrupt"}), Edge.branches)
       /\ Terminate("interrupted", "interrupt", Halted(Snapshot, "interrupted", b))

\* Only successes and ordinary failures are left: the join decides.
Joinable == RegionSettled /\ Uncontrolled /\ With({"interrupt"}) = {}

AskJoin ==
  /\ Joinable
  /\ Edge.join = "custom"
  /\ Dispatch(RegionRequest("join", Names(Edge.branches), Completed, 0))
  /\ UNCHANGED <<rest, peers>>

Join ==
  /\ \/ Joinable /\ Edge.join # "custom"
     \/ At("call") /\ req.boundary = "join"
  /\ \E A \in SUBSET Names(Edge.branches) :
       /\ A # {}
       /\ Admits(Edge, A)
       /\ admitted' = A
       /\ field' = 1
       /\ delta' = NoDelta
       /\ Dispatch(RegionRequest("reducer", A, Completed, 0))
  /\ UNCHANGED <<held, runVars, seen, outcome, histVars, graph, peers>>

JoinRefuses ==
  /\ Joinable /\ Edge.join # "custom"
  /\ \A A \in SUBSET Names(Edge.branches) : A # {} => ~Admits(Edge, A)
  /\ Raise("failed")

-----------------------------------------------------------------------------
(* _fold: one field at a time in sorted order, each from the contributions *)
(* in the order of the settled branches.                                   *)

WritersAmong(g, order, A, f) ==
  SelectSeq(order, LAMBDA b : b \in A /\ f \in DOMAIN g.writes[b])

Contributions(writers, f) == [i \in DOMAIN writers |-> graph.writes[writers[i]][f]]

Writers(f) == WritersAmong(graph, Settled(Edge.branches), admitted, f)
Folded(f) == ReduceField(graph.reducer[f], state.fields[f], Contributions(Writers(f), f))

Keep(f, v) ==
  /\ delta' = NewDelta([g \in DOMAIN delta.content \cup {f} |->
                          IF g = f THEN v ELSE delta.content[g]])
  /\ field' = f + 1

AtField == At("fold") /\ field \in Field

SkipField ==
  /\ AtField
  /\ Writers(field) = <<>>
  /\ field' = field + 1
  /\ UNCHANGED <<peers, graph, pc, held, req, runVars, seen, admitted,
                 delta, outcome, histVars>>

FoldField ==
  /\ AtField
  /\ Writers(field) # <<>>
  /\ graph.reducer[field] # "custom"
  /\ IF Refused(Folded(field))
     THEN Raise("failed")
     ELSE /\ Keep(field, Folded(field))
          /\ UNCHANGED <<peers, graph, pc, held, req, runVars, seen, admitted, outcome, histVars>>

\* A custom reducer is dispatched and marked for itself only by a gate with
\* start markers; under any other it is covered by the batch decision.
StartReducer ==
  /\ AtField
  /\ Writers(field) # <<>>
  /\ graph.reducer[field] = "custom"
  /\ req' = RegionRequest("reducer", admitted, Completed, field)
  /\ IF gate.start THEN pc' = "ask" /\ UNCHANGED calls
                   ELSE pc' = "call" /\ Transfer(req')
  /\ UNCHANGED <<gate, latch, allowed, marked, branchVars, rest>>

\* The inputs of a custom reducer are copied before it is claimed as
\* started, and with a gate the merged delta must be JSON: both may fail.
FoldFails ==
  /\ \/ /\ AtField
        /\ Writers(field) # <<>>
        /\ graph.reducer[field] = "custom"
     \/ At("fold") /\ field \notin Field /\ gate.present
  /\ Raise("failed")

ReducerReturns ==
  /\ At("call") /\ req.boundary = "reducer"
  /\ Keep(field, Folded(field))
  /\ pc' = "fold"
  /\ UNCHANGED <<peers, graph, held, req, runVars, seen, admitted,
                 outcome, histVars>>

OfferRegion ==
  /\ At("fold")
  /\ field \notin Field
  /\ Offer(RegionRequest("region", admitted, Completed, 0), delta)
  /\ UNCHANGED foldVars

-----------------------------------------------------------------------------
(* What happens around the generator.                                      *)

ConsumerPulls ==
  /\ ~Idle
  /\ held' = Tail(held)
  /\ UNCHANGED <<peers, graph, pc, req, runVars, seen, foldVars, delta,
                 outcome, histVars>>

\* aclose() while the generator is suspended at a yield.
ConsumerCloses ==
  /\ ~Idle
  /\ outcome = "running"
  /\ held' = <<>>
  /\ pc' = "ended"
  /\ outcome' = "closed"
  /\ UNCHANGED <<peers, graph, req, runVars, seen, foldVars, delta, histVars>>

\* A stop is recorded while the consumer holds the iterator.
StopWhileHeld ==
  /\ ~Idle
  /\ outcome = "running"
  /\ RecordStop
  /\ UNCHANGED <<branchVars, graph, pc, held, req, runVars, seen, foldVars, delta,
                 outcome, histVars>>

\* Node code writes to the object it returned while the gate is awaited.
SharedWrite ==
  /\ At("commit")
  /\ gate.present
  /\ ~delta.changed
  /\ delta' = [delta EXCEPT !.changed = TRUE]
  /\ UNCHANGED <<peers, graph, pc, held, req, runVars, seen, foldVars,
                 outcome, histVars>>

\* The task is cancelled at an await of the generator itself.
Cancel ==
  /\ \/ gate.present /\ (At("ask") \/ At("mark") \/ At("commit"))
     \/ At("call") /\ req.boundary = "node"
  /\ Raise("cancelled")

\* Cancelled inside the task group: every branch is cancelled and awaited.
CancelRegion ==
  /\ At("settle")
  /\ pc' = "reap"
  /\ UNCHANGED <<peers, req, rest>>

\* The variant that swallows the cancellation once the branches are gone.
ResumeGroup ==
  /\ At("reap")
  /\ AllDone
  /\ pc' = "settle"
  /\ UNCHANGED <<peers, req, rest>>

LeaveGroup ==
  /\ At("reap")
  /\ AllDone
  /\ Raise("cancelled")

-----------------------------------------------------------------------------
\* The generator's own steps, with the gate it awaits and the callables.
Scheduler ==
  \/ AskRouter \/ FollowStatic \/ RouterReturns
  \/ Finish \/ Exhaust \/ EnterNode
  \/ DispatchAllowed \/ MarkerWritten \/ GateRefuses \/ GateStops \/ GateFails
  \/ NodeReturns \/ NodeInterrupts \/ CallableFails
  \/ CommitAllowed \/ SettlementReturns \/ SettlementFails \/ RaiseSettlement
  \/ RegionExhausts \/ RegionUnknown \/ EnterRegion
  \/ RegionCancelled \/ RegionInadmissible \/ RegionUnmarked \/ RegionStopped
  \/ RegionInterrupted \/ AskJoin \/ Join \/ JoinRefuses
  \/ SkipField \/ FoldField \/ StartReducer \/ FoldFails \/ ReducerReturns
  \/ OfferRegion \/ LeaveGroup

Environment ==
  ConsumerCloses \/ StopWhileHeld \/ SharedWrite \/ Cancel \/ CancelRegion

Ended == pc = "ended" /\ Idle /\ UNCHANGED vars

Next == Scheduler \/ Branch \/ ConsumerPulls \/ Environment \/ Ended

\* The event loop runs what is ready, awaited code returns, and the consumer
\* keeps asking for the next observation.
Fairness == WF_vars(Scheduler) /\ WF_vars(Branch) /\ WF_vars(ConsumerPulls)

Spec == Init /\ [][Next]_vars /\ Fairness
=============================================================================
