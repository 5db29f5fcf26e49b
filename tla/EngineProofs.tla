---------------------------- MODULE EngineProofs ----------------------------
(***************************************************************************)
(* The scheduler is type correct, keeps its step budget, and works only as *)
(* far as it was allowed to, for every graph, gate and step budget.        *)
(***************************************************************************)
EXTENDS EngineProps, FiniteSetTheorems, SequenceTheorems, TLAPS

-----------------------------------------------------------------------------
(* Types: one lemma per way of giving up control, then one per part of Next.*)
(* After it the step budget, which every later proof builds on too.        *)


\* The edge the scheduler stands at is an edge of a compiled graph.
LEMMA EdgeTyped ==
  ASSUME TypeOK
  PROVE  /\ IsGraph(graph)
         /\ Edge \in EdgeType
         /\ Edge.branches \in Seq(Node)
         /\ Names(Edge.branches) \subseteq Node
         /\ Edge.targets \subseteq Node \cup {END}
         /\ graph.nodes \subseteq Node
<1>1. IsGraph(graph) /\ node \in Node \cup {START}
  BY GraphsAssumption DEF TypeOK
<1>2. Edge \in EdgeType /\ graph.nodes \subseteq Node
  BY <1>1 DEF IsGraph, Edge
<1>3. Edge.branches \in Seq(Node) /\ Edge.targets \subseteq Node \cup {END}
  BY <1>2 DEF EdgeType
<1>4. Names(Edge.branches) \subseteq Node
  BY <1>3, ElementOfSeq DEF Names
<1>. QED BY <1>1, <1>2, <1>3, <1>4

\* The step count a region would reach is a natural number.
LEMMA CompletedTyped ==
  ASSUME TypeOK
  PROVE  Completed \in Nat
<1>1. With({"ok"}) \subseteq Node
  BY DEF With
<1>2. Cardinality(With({"ok"})) \in Nat
  BY <1>1, GraphsAssumption, FS_Subset, FS_CardinalityType
<1>. QED BY <1>2 DEF TypeOK, Completed

\* An exception leaves every variable well typed.
LEMMA RaiseTyped ==
  ASSUME TypeOK, NEW how \in Ending, Raise(how)
  PROVE  TypeOK'
BY DEF TypeOK, GateTypeOK, BranchTypeOK, Raise, PcSet,
       peers, gateVars, branchVars, runVars, foldVars, histVars

\* So does a terminal observation.
LEMMA TerminateTyped ==
  ASSUME TypeOK, NEW how \in Ending, NEW kind \in EventKind, NEW final,
         Terminate(how, kind, final)
  PROVE  TypeOK'
BY DEF TypeOK, GateTypeOK, BranchTypeOK, Terminate, Yield, PcSet,
       peers, gateVars, branchVars, foldVars, histVars

\* Following an edge to one of its targets keeps the types.
LEMMA ResolveTyped ==
  ASSUME TypeOK, NEW t \in Edge.targets, Resolve(t)
  PROVE  TypeOK'
<1>1. CASE Known(t)
  <2>1. Select(t) /\ t \in Node \cup {END}
    BY <1>1, EdgeTyped DEF Resolve
  <2>2. held' \in Seq(EventKind)
    BY <2>1 DEF Select, Yield, EventKind
  <2>. QED
    BY <2>1, <2>2 DEF TypeOK, GateTypeOK, BranchTypeOK, Select, PcSet,
       peers, gateVars, branchVars, foldVars, histVars
<1>2. CASE ~Known(t)
  BY <1>2, RaiseTyped DEF Resolve, Ending
<1>. QED BY <1>1, <1>2

\* Requests the scheduler forms are requests of the gate seam.
LEMMA RequestsTyped ==
  ASSUME TypeOK
  PROVE  /\ \A n \in Node \cup {START} : NodeRequest(n) \in RequestType
         /\ RouterRequest \in RequestType
         /\ \A boundary \in Boundary, names \in SUBSET Node, done \in Nat, key \in Nat :
              RegionRequest(boundary, names, done, key) \in RequestType
BY DEF TypeOK, RequestType, NodeRequest, RouterRequest, RegionRequest, Request,
       Boundary, Batch

\* The observations of a published region are events.
LEMMA RegionEventsTyped ==
  ASSUME TypeOK
  PROVE  RegionEvents \in Seq(EventKind)
<1>1. Cardinality(admitted) \in Nat
  BY GraphsAssumption, FS_Subset, FS_CardinalityType DEF TypeOK
<1>2. RegionEvents \in [1 .. Cardinality(admitted) + 1 -> EventKind]
  BY <1>1 DEF RegionEvents, EventKind
<1>. QED BY <1>1, <1>2, SeqDef

\* Publication shows natural numbers of steps and goes on at an edge or not at all.
LEMMA ShowTyped ==
  ASSUME TypeOK, NEW published, NEW next \in {"edge", "raise"}, Show(published, next)
  PROVE  steps' \in Nat /\ held' \in Seq(EventKind) /\ pc' \in PcSet
<1>1. steps' \in Nat
  BY CompletedTyped DEF Show, NodeCompleted, TypeOK
<1>2. held' \in Seq(EventKind)
  <2>1. "node.end" \in EventKind
    BY DEF EventKind
  <2>. QED BY <2>1, RegionEventsTyped DEF Show, Yield
<1>3. pc' \in PcSet
  BY DEF Show, Onward, PcSet
<1>. QED BY <1>1, <1>2, <1>3

\* An allowed boundary is passed: the ledger stays a set of requests.
LEMMA DispatchAllowedTyped ==
  ASSUME TypeOK, DispatchAllowed
  PROVE  TypeOK'
<1>1. allowed' \subseteq RequestType
  BY DEF TypeOK, GateTypeOK, DispatchAllowed, Grant
<1>2. calls' \subseteq RequestType /\ pc' \in PcSet
  BY DEF TypeOK, GateTypeOK, DispatchAllowed, Pass, StartCallable, CallNow, Transfer, PcSet
<1>3. BranchTypeOK'
  <2>1. CASE UNCHANGED branchVars
    BY <2>1 DEF TypeOK, BranchTypeOK, branchVars
  <2>2. CASE Launch(Edge.branches)
    BY <2>2 DEF Launch, BranchTypeOK, BranchPc, Outcome
  <2>. QED BY <2>1, <2>2 DEF DispatchAllowed, Pass
<1>. QED
  BY <1>1, <1>2, <1>3 DEF TypeOK, GateTypeOK, DispatchAllowed, rest, runVars, foldVars, histVars

\* A committed delta is published, at once observed or first settled.
LEMMA CommitAllowedTyped ==
  ASSUME TypeOK, CommitAllowed
  PROVE  TypeOK'
<1>1. steps' \in Nat /\ held' \in Seq(EventKind) /\ pc' \in PcSet
  <2>1. CASE gate.settle
    BY <2>1 DEF CommitAllowed, TypeOK, PcSet
  <2>2. CASE ~gate.settle
    BY <2>2, ShowTyped DEF CommitAllowed
  <2>. QED BY <2>1, <2>2
<1>. QED
  BY <1>1 DEF TypeOK, GateTypeOK, BranchTypeOK, CommitAllowed,
     peers, gateVars, branchVars, foldVars

\* So is a publication whose settlement has returned or failed.
LEMMA SettlementTyped ==
  ASSUME TypeOK, NEW next \in {"edge", "raise"}, Settlement(next)
  PROVE  TypeOK'
<1>1. steps' \in Nat /\ held' \in Seq(EventKind) /\ pc' \in PcSet
  BY ShowTyped DEF Settlement
<1>. QED
  BY <1>1 DEF TypeOK, GateTypeOK, BranchTypeOK, Settlement,
     peers, gateVars, branchVars, foldVars, histVars

\* Every step of the generator keeps the types.
LEMMA SchedulerTyped ==
  ASSUME TypeOK, Scheduler
  PROVE  TypeOK'
<1>. USE DEF Ending
<1>1. CASE AskRouter
  BY <1>1, RequestsTyped DEF AskRouter, Dispatch, TypeOK, GateTypeOK, BranchTypeOK, PcSet,
     peers, gateVars, branchVars, rest, runVars, foldVars, histVars
<1>2. CASE FollowStatic \/ RouterReturns
  BY <1>2, ResolveTyped DEF FollowStatic, RouterReturns
<1>3. CASE Finish
  BY <1>3, TerminateTyped DEF Finish, EventKind
<1>4. CASE EnterNode
  <2>1. target \in Node
    BY <1>4 DEF EnterNode, LoopsOn, TypeOK
  <2>2. req' \in RequestType /\ held' \in Seq(EventKind)
    BY <1>4, <2>1, RequestsTyped DEF EnterNode, Dispatch, Yield, EventKind
  <2>3. entered' \in Seq(Node)
    BY <1>4, <2>1 DEF EnterNode, TypeOK
  <2>. QED
    BY <1>4, <2>1, <2>2, <2>3 DEF EnterNode, Dispatch, TypeOK, GateTypeOK, BranchTypeOK, PcSet,
       peers, gateVars, branchVars, foldVars
<1>5. CASE DispatchAllowed
  BY <1>5, DispatchAllowedTyped
<1>6. CASE MarkerWritten
  BY <1>6 DEF MarkerWritten, CallNow, Mark, Transfer, TypeOK, GateTypeOK, BranchTypeOK, PcSet,
     branchVars, rest, runVars, foldVars, histVars
<1>7. CASE GateStops
  BY <1>7, TerminateTyped DEF GateStops, EventKind
<1>8. CASE GateRefuses \/ GateFails \/ CallableFails \/ Exhaust \/ RaiseSettlement
  BY <1>8, RaiseTyped DEF GateRefuses, GateFails, CallableFails, Exhaust, RaiseSettlement
<1>9. CASE NodeReturns
  <2>1. node \in Node \cup {START}
    BY DEF TypeOK
  <2>. QED
    BY <1>9, <2>1, RequestsTyped DEF NodeReturns, Offer, TypeOK, GateTypeOK, BranchTypeOK, PcSet,
       peers, gateVars, branchVars, runVars, foldVars, histVars
<1>10. CASE NodeInterrupts
  BY <1>10, TerminateTyped DEF NodeInterrupts, EventKind
<1>11. CASE CommitAllowed
  BY <1>11, CommitAllowedTyped
<1>12. CASE SettlementReturns \/ SettlementFails
  BY <1>12, SettlementTyped DEF SettlementReturns, SettlementFails
<1>13. CASE \/ RegionExhausts \/ RegionUnknown \/ RegionCancelled \/ RegionInadmissible
            \/ RegionUnmarked \/ JoinRefuses \/ FoldFails \/ LeaveGroup
  BY <1>13, RaiseTyped DEF RegionExhausts, RegionUnknown, RegionCancelled, RegionInadmissible,
     RegionUnmarked, JoinRefuses, FoldFails, LeaveGroup
<1>14. CASE EnterRegion
  <2>1. Names(Edge.branches) \in SUBSET Node /\ Edge.branches \in Seq(Node)
    BY EdgeTyped
  <2>2. req' \in RequestType
    BY <1>14, <2>1, RequestsTyped DEF EnterRegion, Dispatch, TypeOK, Boundary
  <2>3. entered' \in Seq(Node)
    BY <1>14, <2>1, ConcatProperties DEF EnterRegion, TypeOK
  <2>4. held' \in Seq(EventKind)
    <3>1. [i \in DOMAIN Edge.branches |-> "node.start"] \in [1 .. Len(Edge.branches) -> EventKind]
      BY <2>1, LenProperties DEF EventKind
    <3>2. [i \in DOMAIN Edge.branches |-> "node.start"] \in Seq(EventKind)
      <4>. DEFINE starts == [i \in DOMAIN Edge.branches |-> "node.start"]
      <4>1. Len(Edge.branches) \in Nat /\ starts \in [1 .. Len(Edge.branches) -> EventKind]
        BY <2>1, <3>1, LenProperties
      <4>. HIDE DEF starts
      <4>2. starts \in Seq(EventKind)
        BY <4>1, SeqDef
      <4>. QED BY <4>2 DEF starts
    <3>3. <<"superstep.start">> \in Seq(EventKind)
      BY DEF EventKind
    <3>. QED BY <1>14, <3>2, <3>3, ConcatProperties DEF EnterRegion, Yield
  <2>. QED
    BY <1>14, <2>2, <2>3, <2>4 DEF EnterRegion, Dispatch, TypeOK, GateTypeOK, BranchTypeOK, PcSet,
       peers, gateVars, branchVars, runVars, foldVars
<1>15. CASE RegionStopped \/ RegionInterrupted
  BY <1>15, TerminateTyped DEF RegionStopped, RegionInterrupted, EventKind
<1>16. CASE AskJoin
  BY <1>16, RequestsTyped, EdgeTyped, CompletedTyped DEF AskJoin, Dispatch, Boundary,
     TypeOK, GateTypeOK, BranchTypeOK, PcSet,
     peers, gateVars, branchVars, rest, runVars, foldVars, histVars
<1>17. CASE Join
  <2>1. PICK A \in SUBSET Names(Edge.branches) :
          /\ admitted' = A
          /\ field' = 1
          /\ Dispatch(RegionRequest("reducer", A, Completed, 0))
    BY <1>17 DEF Join
  <2>2. A \in SUBSET Node
    BY EdgeTyped
  <2>3. req' \in RequestType
    BY <2>1, <2>2, RequestsTyped, CompletedTyped DEF Dispatch, Boundary
  <2>. QED
    BY <1>17, <2>1, <2>2, <2>3 DEF Join, Dispatch, TypeOK, GateTypeOK, BranchTypeOK, PcSet,
       peers, gateVars, branchVars, runVars, histVars
<1>18. CASE SkipField
  BY <1>18 DEF SkipField, TypeOK, GateTypeOK, BranchTypeOK,
     peers, gateVars, branchVars, runVars, histVars
<1>19. CASE FoldField
  <2>1. CASE Refused(Folded(field))
    BY <1>19, <2>1, RaiseTyped DEF FoldField
  <2>2. CASE ~Refused(Folded(field))
    BY <1>19, <2>2 DEF FoldField, Keep, TypeOK, GateTypeOK, BranchTypeOK,
       peers, gateVars, branchVars, runVars, histVars
  <2>. QED BY <2>1, <2>2
<1>20. CASE StartReducer
  <2>1. req' \in RequestType
    BY <1>20, RequestsTyped, CompletedTyped DEF StartReducer, Boundary, TypeOK
  <2>2. calls' \subseteq RequestType /\ pc' \in PcSet
    BY <1>20, <2>1 DEF StartReducer, Transfer, TypeOK, GateTypeOK, PcSet
  <2>. QED
    BY <1>20, <2>1, <2>2 DEF StartReducer, TypeOK, GateTypeOK, BranchTypeOK,
       branchVars, rest, runVars, foldVars, histVars
<1>21. CASE ReducerReturns
  BY <1>21 DEF ReducerReturns, Keep, TypeOK, GateTypeOK, BranchTypeOK, PcSet,
     peers, gateVars, branchVars, runVars, histVars
<1>22. CASE OfferRegion
  BY <1>22, RequestsTyped, CompletedTyped DEF OfferRegion, Offer, Boundary,
     TypeOK, GateTypeOK, BranchTypeOK, PcSet,
     peers, gateVars, branchVars, runVars, foldVars, histVars
<1>. QED
  BY <1>1, <1>2, <1>3, <1>4, <1>5, <1>6, <1>7, <1>8, <1>9, <1>10, <1>11, <1>12, <1>13, <1>14,
     <1>15, <1>16, <1>17, <1>18, <1>19, <1>20, <1>21, <1>22
  DEF Scheduler

\* Every step of a branch task keeps the types.
LEMMA SettleTyped ==
  ASSUME TypeOK, NEW b \in Node, NEW how \in Outcome, Settle(b, how)
  PROVE  BranchTypeOK'
<1>1. finished' \in Seq(Node)
  BY DEF Settle, TypeOK, BranchTypeOK
<1>. QED BY <1>1 DEF Settle, TypeOK, BranchTypeOK, BranchPc

LEMMA BranchTyped ==
  ASSUME TypeOK, Branch
  PROVE  TypeOK'
<1>1. PICK b \in Names(Edge.branches) :
        BranchBegins(b, BranchRequest(b)) \/ BranchStep(b, BranchRequest(b))
  BY DEF Branch
<1>2. b \in Node /\ BranchRequest(b) \in RequestType
  BY EdgeTyped, RequestsTyped DEF BranchRequest, Boundary, TypeOK
<1>3. GateTypeOK' /\ BranchTypeOK'
  <2>. USE DEF TypeOK, GateTypeOK, gateVars
  <2>1. CASE BranchBegins(b, BranchRequest(b))
    BY <1>2, <2>1 DEF BranchBegins, Transfer, MoveTo, BranchTypeOK, BranchPc
  <2>2. CASE BranchAllowed(b, BranchRequest(b))
    BY <1>2, <2>2 DEF BranchAllowed, Grant, MoveTo, BranchTypeOK, BranchPc
  <2>3. CASE BranchDenied(b)
    BY <1>2, <2>3, SettleTyped DEF BranchDenied, Outcome
  <2>4. CASE BranchMarked(b, BranchRequest(b))
    BY <1>2, <2>4 DEF BranchMarked, Mark, Transfer, MoveTo, BranchTypeOK, BranchPc
  <2>5. CASE BranchMarkFails(b)
    BY <1>2, <2>5, SettleTyped DEF BranchMarkFails, Outcome
  <2>6. CASE BranchReturns(b)
    BY <1>2, <2>6, SettleTyped DEF BranchReturns, Outcome
  <2>7. CASE BranchCancelled(b)
    BY <1>2, <2>7, SettleTyped DEF BranchCancelled, Outcome
  <2>. QED BY <1>1, <2>1, <2>2, <2>3, <2>4, <2>5, <2>6, <2>7 DEF BranchStep
<1>. QED
  BY <1>3 DEF Branch, TypeOK, rest, runVars, foldVars, histVars

\* Every step around the generator keeps the types.
LEMMA AroundTyped ==
  ASSUME TypeOK, ConsumerPulls \/ Environment \/ UNCHANGED vars
  PROVE  TypeOK'
<1>. USE DEF TypeOK, GateTypeOK, BranchTypeOK, peers, gateVars, branchVars,
             runVars, foldVars, histVars
<1>1. CASE ConsumerPulls
  <2>1. held' \in Seq(EventKind)
    BY <1>1, HeadTailProperties DEF ConsumerPulls, Idle
  <2>. QED BY <1>1, <2>1 DEF ConsumerPulls
<1>2. CASE ConsumerCloses
  BY <1>2 DEF ConsumerCloses, PcSet, Ending
<1>3. CASE StopWhileHeld
  BY <1>3 DEF StopWhileHeld, RecordStop
<1>4. CASE SharedWrite
  BY <1>4 DEF SharedWrite
<1>5. CASE Cancel
  BY <1>5, RaiseTyped DEF Cancel, Ending
<1>6. CASE CancelRegion
  BY <1>6 DEF CancelRegion, rest, PcSet
<1>7. CASE UNCHANGED vars
  BY <1>7 DEF vars, rest
<1>. QED BY <1>1, <1>2, <1>3, <1>4, <1>5, <1>6, <1>7 DEF Environment

LEMMA NextTyped ==
  ASSUME TypeOK, [Next]_vars
  PROVE  TypeOK'
BY SchedulerTyped, BranchTyped, AroundTyped DEF Next, Ended

LEMMA InitTyped ==
  ASSUME Init
  PROVE  TypeOK
<1>1. IsGraph(graph)
  BY GraphsAssumption DEF Init
<1>2. req \in RequestType
  BY DEF Init, Request, RequestType, Boundary
<1>3. GateTypeOK
  BY GatesAssumption DEF Init, GateInit, GateTypeOK
<1>4. BranchTypeOK
  BY EmptySeq DEF Init, BranchInit, BranchTypeOK, BranchPc
<1>. QED BY <1>2, <1>3, <1>4, EmptySeq DEF Init, TypeOK, PcSet

\* Every variable of the scheduler keeps to its type.
THEOREM TypeCorrect == Spec => []TypeOK
BY InitTyped, NextTyped, PTL DEF Spec

-----------------------------------------------------------------------------
(* The step budget, for every graph, gate and maxSteps.  The guards are    *)
(* evaluated when a node or a region is entered and the steps are counted  *)
(* when it is published, many steps of the gate and the branches later;    *)
(* the inductive invariant BudgetInv carries the guard there.              *)

RegionBoundary == {"fanout", "join", "reducer", "region"}
Carrying == {"ask", "mark", "call", "commit", "after"}

AtNode == pc \in Carrying /\ req.boundary = "node"
AcrossRegion == \/ pc \in {"settle", "reap", "fold"}
                \/ pc \in Carrying /\ req.boundary \in RegionBoundary
Launched == AcrossRegion /\ ~(pc = "ask" /\ req.boundary = "fanout")

BudgetCarried ==
  /\ steps <= graph.maxSteps
  /\ AtNode => steps < graph.maxSteps /\ req.batch = 0
  /\ AcrossRegion => /\ steps > 0 /\ req.batch = steps
                     /\ steps + Len(Edge.branches) <= graph.maxSteps
  /\ Launched => With({"ok"}) \subseteq Names(Edge.branches)
  /\ pc = "edge" /\ node # START => steps > 0
  /\ pc \in {"commit", "after"} => req.boundary \in {"node", "region"}

BudgetInv == TypeOK /\ BudgetCarried

\* An interval from 1 has as many members as its last.
LEMMA IntervalSize ==
  ASSUME NEW n \in Nat
  PROVE  IsFiniteSet(1 .. n) /\ Cardinality(1 .. n) = n
<1>1. /\ IsFiniteSet(1 .. n)
      /\ Cardinality(1 .. n) = IF 1 > n THEN 0 ELSE n - 1 + 1
  BY FS_Interval
<1>. QED BY <1>1

\* A sequence names at most as many nodes as it is long.
LEMMA NamesAreFew ==
  ASSUME NEW branches \in Seq(Node)
  PROVE  Cardinality(Names(branches)) <= Len(branches)
<1>1. /\ Len(branches) \in Nat
      /\ branches \in [1 .. Len(branches) -> Names(branches)]
      /\ \A n \in Names(branches) : \E i \in 1 .. Len(branches) : branches[i] = n
  BY LenProperties DEF Names
<1>2. branches \in Surjection(1 .. Len(branches), Names(branches))
  BY <1>1 DEF Surjection
<1>3. /\ IsFiniteSet(1 .. Len(branches))
      /\ Cardinality(1 .. Len(branches)) = Len(branches)
  BY <1>1, IntervalSize
<1>. QED BY <1>2, <1>3, FS_Surjection

\* Once the branches run, their successes fit the budget their number fitted.
LEMMA RegionFitsWhenCommitted ==
  ASSUME BudgetInv, Launched
  PROVE  Completed \in Nat /\ Completed <= graph.maxSteps
<1>1. /\ With({"ok"}) \subseteq Names(Edge.branches)
      /\ steps + Len(Edge.branches) <= graph.maxSteps
  BY DEF BudgetInv, BudgetCarried, Launched
<1>2. Edge.branches \in Seq(Node) /\ Names(Edge.branches) \subseteq Node /\ graph.maxSteps \in Nat
  BY EdgeTyped DEF BudgetInv, IsGraph
<1>3. IsFiniteSet(Names(Edge.branches))
  BY <1>2, GraphsAssumption, FS_Subset
<1>4. Cardinality(With({"ok"})) <= Cardinality(Names(Edge.branches))
  BY <1>1, <1>3, FS_Subset
<1>5. Cardinality(With({"ok"})) \in Nat /\ Cardinality(Names(Edge.branches)) \in Nat
  BY <1>1, <1>3, FS_Subset, FS_CardinalityType
<1>6. Len(Edge.branches) \in Nat /\ steps \in Nat
  BY <1>2, LenProperties DEF BudgetInv, TypeOK
<1>. QED BY <1>1, <1>2, <1>4, <1>5, <1>6, NamesAreFew DEF Completed

\* Leaving a node or a region.
LEMMA BudgetLeft ==
  ASSUME BudgetInv, graph' = graph, steps' <= graph.maxSteps,
         pc' \in {"edge", "then", "loop", "raise", "ended"}, pc' = "edge" => steps' > 0
  PROVE  BudgetCarried'
BY DEF BudgetCarried, AtNode, AcrossRegion, Launched, Carrying

\* Going on inside a region.
LEMMA BudgetInRegion ==
  ASSUME BudgetInv, Launched, UNCHANGED <<graph, node, steps, result>>, req'.batch = req.batch,
         pc' \in {"reap", "fold"} \cup Carrying,
         pc' \in Carrying => req'.boundary \in {"join", "reducer", "region"},
         pc' \in {"commit", "after"} => req'.boundary = "region"
  PROVE  BudgetCarried'
<1>1. /\ Edge' = Edge
      /\ With({"ok"})' = With({"ok"})
  BY DEF Edge, With
<1>. QED
  BY <1>1 DEF BudgetInv, BudgetCarried, AtNode, AcrossRegion, Launched, Carrying, RegionBoundary

\* Publication spends what was carried.
LEMMA BudgetSpent ==
  ASSUME BudgetInv, pc \in {"commit", "after"}, graph' = graph,
         NEW published, NEW next \in {"edge", "raise"}, Show(published, next)
  PROVE  BudgetCarried'
<1>1. CASE req.boundary = "node"
  <2>1. steps < graph.maxSteps /\ ~InRegion /\ steps \in Nat /\ graph.maxSteps \in Nat
    BY <1>1, EdgeTyped DEF BudgetInv, BudgetCarried, AtNode, Carrying, InRegion, TypeOK, IsGraph
  <2>. QED BY <2>1, BudgetLeft DEF Show, NodeCompleted, Onward
<1>2. CASE req.boundary = "region"
  <2>1. Launched /\ InRegion
    BY <1>2 DEF BudgetInv, BudgetCarried, Launched, AcrossRegion, Carrying, RegionBoundary,
       InRegion, TypeOK
  <2>2. steps' <= graph.maxSteps
    BY <2>1, RegionFitsWhenCommitted DEF Show
  <2>3. pc' \in {"then", "raise"}
    BY <2>1 DEF Show, Onward
  <2>. QED BY <2>2, <2>3, BudgetLeft
<1>. QED BY <1>1, <1>2 DEF BudgetInv, BudgetCarried

LEMMA BudgetScheduler ==
  ASSUME BudgetInv, Scheduler
  PROVE  BudgetCarried'
<1>. USE DEF At, Reached
<1>. steps <= graph.maxSteps /\ steps \in Nat /\ graph.maxSteps \in Nat
  BY EdgeTyped DEF BudgetInv, BudgetCarried, TypeOK, IsGraph
<1>1. CASE \/ FollowStatic \/ RouterReturns \/ Finish \/ Exhaust \/ GateRefuses \/ GateStops
           \/ GateFails \/ NodeInterrupts \/ CallableFails \/ RaiseSettlement
           \/ RegionExhausts \/ RegionUnknown \/ RegionCancelled \/ RegionInadmissible
           \/ RegionUnmarked \/ RegionStopped \/ RegionInterrupted \/ JoinRefuses
           \/ FoldFails \/ LeaveGroup
  <2>1. \/ \E how : Raise(how)
        \/ \E how, kind, final : Terminate(how, kind, final)
        \/ \E t : Resolve(t)
    BY <1>1 DEF FollowStatic, RouterReturns, Finish, Exhaust, GateRefuses, GateStops,
       GateFails, NodeInterrupts, CallableFails, RaiseSettlement,
       RegionExhausts, RegionUnknown, RegionCancelled, RegionInadmissible, RegionUnmarked,
       RegionStopped, RegionInterrupted, JoinRefuses, FoldFails, LeaveGroup
  <2>2. graph' = graph /\ steps' = steps /\ pc' \in {"loop", "ended"}
    BY <2>1 DEF Raise, Terminate, Resolve, Select, runVars
  <2>. QED BY <2>2, BudgetLeft
<1>2. CASE AskRouter
  BY <1>2 DEF AskRouter, Dispatch, RouterRequest, Request, rest, runVars, BudgetInv, BudgetCarried,
     AtNode, AcrossRegion, Launched, Carrying, RegionBoundary
<1>3. CASE EnterNode
  <2>1. graph' = graph /\ steps' = steps /\ steps < graph.maxSteps /\ pc' = "ask"
        /\ req'.boundary = "node" /\ req'.batch = 0
    BY <1>3 DEF EnterNode, NodeFits, Dispatch, NodeRequest, Request
  <2>. QED BY <2>1 DEF BudgetCarried, AtNode, AcrossRegion, Launched, Carrying, RegionBoundary
<1>4. CASE DispatchAllowed
  <2>1. /\ pc = "ask" /\ UNCHANGED <<graph, node, steps, req>>
        /\ Edge' = Edge
    BY <1>4 DEF DispatchAllowed, rest, runVars, Edge
  <2>2. CASE req.boundary = "fanout"
    <3>1. pc' = "settle" /\ With({"ok"})' = {}
      BY <1>4, <2>2 DEF DispatchAllowed, Pass, Launch, With
    <3>. QED
      BY <2>1, <2>2, <3>1
      DEF BudgetInv, BudgetCarried, AtNode, AcrossRegion, Launched, Carrying, RegionBoundary
  <2>3. CASE req.boundary # "fanout"
    <3>1. pc' \in {"fold", "mark", "call"} /\ result' = result
      BY <1>4, <2>3 DEF DispatchAllowed, Pass, StartCallable, CallNow, branchVars
    <3>2. pc' = "fold" => req.boundary = "reducer"
      BY <1>4, <2>3 DEF DispatchAllowed, Pass, StartCallable, CallNow
    <3>3. With({"ok"})' = With({"ok"})
      BY <3>1 DEF With
    <3>. QED
      BY <2>1, <2>3, <3>1, <3>2, <3>3
      DEF BudgetInv, BudgetCarried, AtNode, AcrossRegion, Launched, Carrying, RegionBoundary
  <2>. QED BY <2>2, <2>3
<1>5. CASE MarkerWritten
  <2>1. /\ pc = "mark" /\ pc' = "call" /\ UNCHANGED <<graph, node, steps, req, result>>
        /\ Edge' = Edge /\ With({"ok"})' = With({"ok"})
    BY <1>5 DEF MarkerWritten, CallNow, rest, runVars, branchVars, Edge, With
  <2>. QED
    BY <2>1 DEF BudgetInv, BudgetCarried, AtNode, AcrossRegion, Launched, Carrying, RegionBoundary
<1>6. CASE NodeReturns
  <2>1. pc = "call" /\ req.boundary = "node" /\ pc' = "commit" /\ UNCHANGED <<graph, steps>>
        /\ req'.boundary = "node" /\ req'.batch = 0
    BY <1>6 DEF NodeReturns, Offer, NodeRequest, Request, runVars
  <2>. QED
    BY <2>1 DEF BudgetInv, BudgetCarried, AtNode, AcrossRegion, Launched, Carrying, RegionBoundary
<1>7. CASE CommitAllowed
  <2>1. CASE gate.settle
    <3>1. /\ pc = "commit" /\ pc' = "after" /\ UNCHANGED <<graph, node, steps, req, result>>
          /\ Edge' = Edge /\ With({"ok"})' = With({"ok"})
      BY <1>7, <2>1 DEF CommitAllowed, peers, branchVars, Edge, With
    <3>. QED
      BY <3>1 DEF BudgetInv, BudgetCarried, AtNode, AcrossRegion, Launched, Carrying, RegionBoundary
  <2>2. CASE ~gate.settle
    BY <1>7, <2>2, BudgetSpent DEF CommitAllowed
  <2>. QED BY <2>1, <2>2
<1>8. CASE SettlementReturns \/ SettlementFails
  BY <1>8, BudgetSpent DEF SettlementReturns, SettlementFails, Settlement
<1>9. CASE EnterRegion
  <2>1. /\ pc = "edge" /\ pc' = "ask" /\ UNCHANGED <<graph, node, steps>> /\ Edge' = Edge
        /\ steps + Len(Edge.branches) <= graph.maxSteps
        /\ req'.boundary = "fanout" /\ req'.batch = steps
    BY <1>9 DEF EnterRegion, AtRegion, RegionFits, Dispatch, RegionRequest, Request, Batch,
       runVars, Edge
  <2>2. node # START
    BY <1>9, EdgeTyped DEF BudgetInv, IsGraph, EnterRegion, AtRegion, Edge
  <2>. QED
    BY <2>1, <2>2
    DEF BudgetInv, BudgetCarried, AtNode, AcrossRegion, Launched, Carrying, RegionBoundary
<1>10. CASE AskJoin \/ Join \/ StartReducer \/ OfferRegion
  <2>1. Launched
    BY <1>10 DEF AskJoin, Join, StartReducer, OfferRegion, AtField, Joinable, RegionSettled,
       Launched, AcrossRegion, Carrying, RegionBoundary
  <2>2. UNCHANGED <<graph, node, steps, result>>
    BY <1>10 DEF AskJoin, Join, StartReducer, OfferRegion, Offer, rest, runVars, peers, branchVars
  <2>3. /\ pc' \in Carrying /\ req'.batch = steps
        /\ req'.boundary \in {"join", "reducer", "region"}
        /\ pc' \in {"commit", "after"} => req'.boundary = "region"
    BY <1>10 DEF AskJoin, Join, StartReducer, OfferRegion, Offer, Dispatch, RegionRequest, Request,
       Batch, Carrying
  <2>4. req.batch = steps
    BY <2>1 DEF BudgetInv, BudgetCarried, Launched
  <2>. QED BY <2>1, <2>2, <2>3, <2>4, BudgetInRegion
<1>11. CASE SkipField \/ FoldField \/ ReducerReturns
  <2>1. CASE FoldField /\ Refused(Folded(field))
    BY <2>1, BudgetLeft DEF FoldField, Raise, runVars
  <2>2. CASE ~(FoldField /\ Refused(Folded(field)))
    <3>1. /\ UNCHANGED <<graph, node, steps, result, req>> /\ pc' = "fold"
          /\ pc = "fold" \/ (pc = "call" /\ req.boundary = "reducer")
      BY <1>11, <2>2 DEF SkipField, FoldField, ReducerReturns, AtField, runVars, peers, branchVars
    <3>2. Launched
      BY <3>1 DEF Launched, AcrossRegion, Carrying, RegionBoundary
    <3>. QED BY <3>1, <3>2, BudgetInRegion DEF Carrying
  <2>. QED BY <2>1, <2>2
<1>. QED
  BY <1>1, <1>2, <1>3, <1>4, <1>5, <1>6, <1>7, <1>8, <1>9, <1>10, <1>11 DEF Scheduler

LEMMA BudgetInductive ==
  ASSUME BudgetInv, [Next]_vars
  PROVE  BudgetInv'
<1>1. TypeOK'
  BY NextTyped DEF BudgetInv
<1>2. CASE Scheduler
  BY <1>1, <1>2, BudgetScheduler DEF BudgetInv
<1>3. CASE Branch
  <2>1. PICK b \in Names(Edge.branches) :
          BranchBegins(b, BranchRequest(b)) \/ BranchStep(b, BranchRequest(b))
    BY <1>3 DEF Branch
  <2>2. /\ pc \in {"settle", "reap"} /\ UNCHANGED <<pc, req, graph, node, steps>> /\ Edge' = Edge
    BY <1>3 DEF Branch, At, Reached, rest, runVars, Edge
  <2>3. \A n \in Node : n # b => result'[n] = result[n]
    BY <2>1 DEF BranchBegins, BranchStep, BranchAllowed, BranchDenied, BranchMarked,
       BranchMarkFails, BranchReturns, BranchCancelled, MoveTo, Settle, BudgetInv, TypeOK,
       BranchTypeOK
  <2>4. With({"ok"})' \subseteq With({"ok"}) \cup {b}
    BY <2>3 DEF With
  <2>5. BudgetCarried'
    BY <2>2, <2>4
    DEF BudgetInv, BudgetCarried, AtNode, AcrossRegion, Launched, Carrying, RegionBoundary
  <2>. QED BY <1>1, <2>5 DEF BudgetInv
<1>4. CASE ConsumerCloses \/ Cancel
  BY <1>1, <1>4, BudgetLeft
  DEF ConsumerCloses, Cancel, Raise, runVars, BudgetInv, BudgetCarried
<1>5. CASE ConsumerPulls \/ StopWhileHeld \/ SharedWrite \/ CancelRegion \/ UNCHANGED vars
  <2>1. UNCHANGED <<req, graph, node, steps, result>> /\ Edge' = Edge
        /\ With({"ok"})' = With({"ok"}) /\ (pc' = pc \/ (pc = "settle" /\ pc' = "reap"))
    BY <1>5 DEF ConsumerPulls, StopWhileHeld, SharedWrite, CancelRegion, At, Reached,
       vars, rest, runVars, peers, branchVars, Edge, With
  <2>. QED
    BY <1>1, <2>1
    DEF BudgetInv, BudgetCarried, AtNode, AcrossRegion, Launched, Carrying, RegionBoundary
<1>. QED BY <1>2, <1>3, <1>4, <1>5 DEF Next, Environment, Ended

LEMMA BudgetInitially ==
  ASSUME Init
  PROVE  BudgetInv
<1>1. BudgetCarried
  BY GraphsAssumption DEF Init, Request, IsGraph, BudgetCarried, AtNode, AcrossRegion, Launched,
     Carrying, RegionBoundary
<1>. QED BY <1>1, InitTyped DEF BudgetInv

\* The budget is never overdrawn, not even by a region whose branches were
\* admitted many steps before they are counted.
THEOREM BudgetIsKept == Spec => []BudgetKept
<1>1. ASSUME BudgetInv
      PROVE  BudgetKept
  <2>1. /\ steps <= graph.maxSteps
        /\ pc \in {"settle", "reap"} => steps + Len(Edge.branches) <= graph.maxSteps
    BY <1>1 DEF BudgetInv, BudgetCarried, AcrossRegion
  <2>2. ASSUME InRegion, pc \in {"fold", "commit", "after"}
        PROVE  Completed <= graph.maxSteps
    <3>1. Launched
      BY <1>1, <2>2 DEF BudgetInv, BudgetCarried, InRegion, AtNode, AcrossRegion, Launched,
         Carrying, RegionBoundary
    <3>. QED BY <1>1, <3>1, RegionFitsWhenCommitted
  <2>. QED BY <2>1, <2>2 DEF BudgetKept
<1>. QED BY <1>1, BudgetInitially, BudgetInductive, PTL DEF Spec

-----------------------------------------------------------------------------
(* Authority, structured concurrency and stops.  Whether a call is covered *)
(* depends on what was allowed one or many steps earlier, so the inductive *)
(* invariant IInv says for every place of the generator what must already  *)
(* be in the gate's ledger.                                                *)


\* Places at which the consumer may hold an observation.
Waiting == {"edge", "then", "loop", "ask", "raise", "ended"}

\* What the decisions a region has passed were about.
FanoutGrant == RegionRequest("fanout", Names(Edge.branches), steps, 0)
FoldGrant == RegionRequest("reducer", admitted, Completed, 0)
FoldingOne == req.boundary = "reducer" /\ req.key # 0

\* The request on its way to the gate is the one this place asks for, and no
\* whole batch of reducers is ever called.
AskedFor ==
  /\ pc = "ask" /\ req.boundary = "fanout" => req = FanoutGrant
  /\ pc = "ask" /\ req.boundary = "reducer" /\ req.key = 0 => req = FoldGrant
  /\ pc \in {"mark", "call"} /\ req.boundary = "reducer" => req.key # 0

\* A start marker is written only for an allowed request.
MarkedAreAllowed ==
  gate.present => /\ pc = "mark" => req \in allowed
                  /\ \A b \in Node : bpc[b] = "mark" => BranchRequest(b) \in allowed

\* A region's branches run, and its fold goes on, under one batch decision.
RegionGranted ==
  gate.present => /\ pc \in {"settle", "reap"} => FanoutGrant \in allowed
                  /\ pc = "fold" => FoldGrant \in allowed
                  /\ pc \in {"ask", "mark", "call"} /\ FoldingOne => FoldGrant \in allowed

\* Observations are held, and a stop is on record, only at a Waiting place.
StopsHold ==
  /\ ~Idle => pc \in Waiting
  /\ latch => gate.present /\ pc \in Waiting

Control ==
  NoOrphanBranch /\ AskedFor /\ MarkedAreAllowed /\ RegionGranted /\ StopsHold

IInv == TypeOK /\ EveryCallAuthorised /\ Control

\* Nothing is published, ended or asked for while a branch is alive, so a step
\* to one of these places owes the ledger nothing.
Quiet == {"edge", "then", "loop", "commit", "after", "raise", "ended"}

LEMMA QuietStep ==
  ASSUME IInv, UNCHANGED peers, AllDone, pc' \in Quiet,
         held' # <<>> \/ latch => pc' \in Waiting
  PROVE  Control'
<1>1. NoOrphanBranch'
  BY DEF AllDone, NoOrphanBranch, peers, branchVars
<1>2. AskedFor' /\ MarkedAreAllowed' /\ RegionGranted'
  BY <1>1, Zenon DEF IInv, NoOrphanBranch, AskedFor, MarkedAreAllowed, RegionGranted, Quiet, peers, branchVars
<1>3. StopsHold'
  BY DEF IInv, Control, StopsHold, Idle, peers, gateVars
<1>. QED BY <1>1, <1>2, <1>3 DEF Control

LEMMA RaiseControl ==
  ASSUME IInv, AllDone, NEW how, Raise(how)
  PROVE  Control'
BY QuietStep DEF Raise, Quiet, Waiting

LEMMA TerminateControl ==
  ASSUME IInv, AllDone, NEW how, NEW kind, NEW final, Terminate(how, kind, final)
  PROVE  Control'
BY QuietStep DEF Terminate, Quiet, Waiting

LEMMA ResolveControl ==
  ASSUME IInv, AllDone, NEW t, Resolve(t)
  PROVE  Control'
BY QuietStep DEF Resolve, Select, Raise, Quiet, Waiting

\* A step that calls nothing keeps every call authorised: the ledger grows only.
LEMMA NoCall ==
  ASSUME IInv, gate' = gate, allowed \subseteq allowed', marked \subseteq marked', calls' = calls
  PROVE  EveryCallAuthorised'
BY DEF IInv, EveryCallAuthorised, Authorised, BatchCovers

\* So does a step whose one call is covered and, where it has to be, marked.
LEMMA OneCall ==
  ASSUME IInv, gate' = gate, allowed \subseteq allowed', marked \subseteq marked',
         NEW c, calls' = calls \cup {c},
         gate.present => /\ \/ c \in allowed'
                            \/ ~gate.start /\ \E r \in allowed' : BatchCovers(r, c)
                         /\ gate.start => c \in marked'
  PROVE  EveryCallAuthorised'
BY DEF IInv, EveryCallAuthorised, Authorised, BatchCovers

\* Only four steps of the generator or its gate change the ledger.
LEMMA OthersCallNothing ==
  ASSUME IInv, UNCHANGED <<gate, allowed, marked, calls>>
  PROVE  EveryCallAuthorised'
BY NoCall

\* The answer that lets a boundary pass.
LEMMA DispatchAllowedSafe ==
  ASSUME IInv, DispatchAllowed
  PROVE  EveryCallAuthorised' /\ Control'
<1>. USE DEF DispatchAllowed, At, Reached
<1>1. /\ ~latch /\ latch' = latch /\ gate' = gate /\ Idle /\ held' = held /\ req' = req
      /\ UNCHANGED <<node, graph, steps, admitted, marked>>
      /\ pc = "ask" /\ AllDone /\ GateTypeOK
  BY DEF IInv, Control, NoOrphanBranch, AllDone, StopsHold, MayAllow, rest, runVars, foldVars,
         TypeOK, Idle
<1>2. allowed \subseteq allowed' /\ (gate.present => req \in allowed')
  BY DEF Grant
<1>3. CASE req.boundary = "fanout"
  <2>1. pc' = "settle" /\ Launch(Edge.branches) /\ calls' = calls
    BY <1>3 DEF Pass
  <2>2. req = FanoutGrant /\ FanoutGrant' = FanoutGrant
    BY <1>1, <1>3 DEF IInv, Control, AskedFor, FanoutGrant, RegionRequest, Batch, Edge
  <2>3. \A b \in Node : bpc'[b] # "mark"
    BY <2>1 DEF Launch
  <2>4. Control'
    BY <1>1, <1>2, <2>1, <2>2, <2>3
    DEF Control, NoOrphanBranch, AskedFor, MarkedAreAllowed, RegionGranted, StopsHold, Idle
  <2>. QED BY <1>1, <1>2, <2>1, <2>4, NoCall
<1>4. CASE req.boundary = "reducer" /\ req.key = 0
  <2>1. pc' = "fold" /\ UNCHANGED <<calls, branchVars>>
    BY <1>4 DEF Pass
  <2>2. req = FoldGrant /\ FoldGrant' = FoldGrant
    BY <1>1, <1>4, <2>1 DEF IInv, Control, AskedFor, FoldGrant, RegionRequest, Batch, Completed,
       With, branchVars
  <2>3. \A b \in Node : bpc'[b] # "mark"
    BY <1>1, <2>1 DEF AllDone, branchVars
  <2>4. NoOrphanBranch'
    BY <1>1, <2>1 DEF AllDone, NoOrphanBranch, branchVars
  <2>5. Control'
    BY <1>1, <1>2, <2>1, <2>2, <2>3, <2>4
    DEF Control, AskedFor, MarkedAreAllowed, RegionGranted, StopsHold, Idle
  <2>. QED BY <1>1, <1>2, <2>1, <2>5, NoCall
<1>5. CASE req.boundary # "fanout" /\ ~(req.boundary = "reducer" /\ req.key = 0)
  <2>1. StartCallable /\ UNCHANGED branchVars
    BY <1>5 DEF Pass
  <2>2. FoldGrant' = FoldGrant
    BY <1>1, <2>1 DEF FoldGrant, RegionRequest, Batch, Completed, With, branchVars
  <2>3. pc' \in {"mark", "call"}
    BY <2>1 DEF StartCallable, CallNow
  <2>4. NoOrphanBranch' /\ \A b \in Node : bpc'[b] # "mark"
    BY <1>1, <2>1 DEF AllDone, NoOrphanBranch, branchVars
  <2>5. RegionGranted'
    BY <1>1, <1>2, <2>2, <2>3 DEF IInv, Control, RegionGranted, FoldingOne
  <2>6. Control'
    BY <1>1, <1>2, <1>5, <2>3, <2>4, <2>5
    DEF Control, AskedFor, MarkedAreAllowed, StopsHold, Idle
  <2>7. EveryCallAuthorised'
    <3>1. CASE gate.start
      BY <1>1, <1>2, <2>1, <3>1, NoCall DEF StartCallable
    <3>2. CASE ~gate.start
      BY <1>1, <1>2, <2>1, <3>2, OneCall DEF StartCallable, CallNow, Transfer
    <3>. QED BY <3>1, <3>2
  <2>. QED BY <2>6, <2>7
<1>. QED BY <1>3, <1>4, <1>5

\* A step that puts a request to the gate while no region is being folded.
LEMMA DispatchSafe ==
  ASSUME IInv, UNCHANGED <<peers, node, graph, steps>>, AllDone, NEW r, Dispatch(r),
         ~(r.boundary = "reducer" /\ r.key # 0),
         r.boundary = "fanout" => r = FanoutGrant',
         r.boundary = "reducer" => r = FoldGrant'
  PROVE  Control'
<1>. USE DEF Dispatch
<1>1. NoOrphanBranch' /\ \A b \in Node : bpc'[b] # "mark"
  BY DEF AllDone, NoOrphanBranch, peers, branchVars
<1>2. AskedFor' /\ MarkedAreAllowed' /\ RegionGranted'
  BY <1>1 DEF AskedFor, MarkedAreAllowed, RegionGranted, FoldingOne
<1>3. StopsHold'
  BY DEF IInv, Control, StopsHold, Waiting, Idle, peers, gateVars
<1>. QED BY <1>1, <1>2, <1>3 DEF Control

\* Between regions the ledger of the fold is untouched while a field is folded.
LEMMA FoldSafe ==
  ASSUME IInv, UNCHANGED <<peers, graph, held, req, runVars, admitted>>,
         pc = "fold" \/ (pc = "call" /\ req.boundary = "reducer"), pc' = "fold"
  PROVE  Control'
<1>1. FoldGrant' = FoldGrant
  BY DEF FoldGrant, RegionRequest, Batch, Completed, With, peers, branchVars, runVars
<1>2. gate.present => FoldGrant \in allowed
  BY DEF IInv, Control, AskedFor, RegionGranted, FoldingOne
<1>3. NoOrphanBranch' /\ \A b \in Node : bpc'[b] # "mark"
  BY DEF IInv, Control, NoOrphanBranch, peers, branchVars
<1>4. AskedFor' /\ MarkedAreAllowed' /\ RegionGranted'
  BY <1>1, <1>2, <1>3 DEF AskedFor, MarkedAreAllowed, RegionGranted, peers, gateVars
<1>5. StopsHold'
  BY DEF IInv, Control, StopsHold, Waiting, Idle, peers, gateVars
<1>. QED BY <1>3, <1>4, <1>5 DEF Control

\* A custom reducer is asked for, or called under the batch decision.
LEMMA StartReducerSafe ==
  ASSUME IInv, StartReducer
  PROVE  EveryCallAuthorised' /\ Control'
<1>. USE DEF StartReducer, AtField, At, Reached
<1>1. /\ pc = "fold" /\ field \in Field /\ field # 0
      /\ UNCHANGED <<gate, latch, allowed, marked, branchVars, held>>
      /\ UNCHANGED <<node, graph, steps, admitted>>
  BY GraphsAssumption DEF Field, rest, runVars, foldVars
<1>2. FoldGrant' = FoldGrant
  BY <1>1 DEF FoldGrant, RegionRequest, Batch, Completed, With, branchVars
<1>3. gate.present => FoldGrant \in allowed
  BY <1>1 DEF IInv, Control, RegionGranted
<1>4. req' = RegionRequest("reducer", admitted, Completed, field)
  OBVIOUS
<1>5. req'.boundary = "reducer" /\ req'.key # 0
  BY <1>1, <1>4 DEF RegionRequest, Request
<1>6. NoOrphanBranch' /\ \A b \in Node : bpc'[b] # "mark"
  BY <1>1 DEF IInv, Control, NoOrphanBranch, branchVars
<1>7. pc' \in {"ask", "call"} /\ Idle' /\ latch' = FALSE
  BY <1>1 DEF IInv, Control, StopsHold, Waiting, TypeOK, GateTypeOK, Idle
<1>8. Control'
  BY <1>1, <1>2, <1>3, <1>5, <1>6, <1>7
  DEF Control, AskedFor, MarkedAreAllowed, RegionGranted, StopsHold
<1>9. EveryCallAuthorised'
  <2>1. CASE gate.start
    BY <1>1, <2>1, NoCall
  <2>2. CASE ~gate.start
    <3>1. BatchCovers(FoldGrant, req')
      BY <1>1, <1>4 DEF BatchCovers, FoldGrant, RegionRequest, Request
    <3>2. calls' = calls \cup {req'}
      BY <2>2 DEF Transfer
    <3>. QED BY <1>1, <1>3, <2>2, <3>1, <3>2, OneCall
  <2>. QED BY <2>1, <2>2
<1>. QED BY <1>8, <1>9

\* A written marker gives its callable control at once.
LEMMA MarkerWrittenSafe ==
  ASSUME IInv, MarkerWritten
  PROVE  EveryCallAuthorised' /\ Control'
<1>. USE DEF MarkerWritten, At, Reached, CallNow
<1>1. /\ pc = "mark" /\ pc' = "call" /\ gate' = gate /\ latch' = latch /\ allowed' = allowed
      /\ UNCHANGED <<branchVars, req, held, node, graph, steps, admitted>>
  BY DEF rest, runVars, foldVars
<1>2. FoldGrant' = FoldGrant
  BY <1>1 DEF FoldGrant, RegionRequest, Batch, Completed, With, branchVars
<1>3. NoOrphanBranch' /\ \A b \in Node : bpc'[b] # "mark"
  BY <1>1 DEF IInv, Control, NoOrphanBranch, branchVars
<1>4. Control'
  BY <1>1, <1>2, <1>3 DEF IInv, Control, AskedFor, MarkedAreAllowed, RegionGranted, FoldingOne,
     StopsHold, Waiting, Idle
<1>5. gate.present => req \in allowed
  BY <1>1 DEF IInv, Control, MarkedAreAllowed
<1>6. marked' = marked \cup {req} /\ calls' = calls \cup {req}
  BY DEF Mark, Transfer
<1>. QED BY <1>1, <1>4, <1>5, <1>6, OneCall

\* Every step of the generator.
LEMMA SchedulerSafe ==
  ASSUME IInv, Scheduler
  PROVE  EveryCallAuthorised' /\ Control'
<1>. USE DEF At, Reached
<1>1. pc \notin {"settle", "reap"} => AllDone
  BY DEF IInv, Control, NoOrphanBranch, AllDone
<1>2. CASE DispatchAllowed \/ MarkerWritten \/ StartReducer
  BY <1>2, DispatchAllowedSafe, MarkerWrittenSafe, StartReducerSafe
<1>3. CASE \/ FollowStatic \/ RouterReturns \/ Finish \/ Exhaust \/ GateRefuses \/ GateStops
           \/ GateFails \/ NodeInterrupts \/ CallableFails \/ RaiseSettlement
           \/ RegionExhausts \/ RegionUnknown \/ RegionCancelled \/ RegionInadmissible
           \/ RegionUnmarked \/ RegionStopped \/ RegionInterrupted \/ JoinRefuses
           \/ FoldFails \/ LeaveGroup
  <2>1. AllDone
    BY <1>1, <1>3 DEF FollowStatic, RouterReturns, Finish, Exhaust, GateRefuses, GateStops,
       GateFails, NodeInterrupts, CallableFails, RaiseSettlement, AtRegion, RegionSettled, Joinable,
       RegionExhausts, RegionUnknown, RegionCancelled, RegionInadmissible, RegionUnmarked,
       RegionStopped, RegionInterrupted, JoinRefuses, AtField, FoldFails, LeaveGroup
  <2>2. \/ \E how : Raise(how)
        \/ \E how, kind, final : Terminate(how, kind, final)
        \/ \E t : Resolve(t)
    BY <1>3 DEF FollowStatic, RouterReturns, Finish, Exhaust, GateRefuses, GateStops,
       GateFails, NodeInterrupts, CallableFails, RaiseSettlement,
       RegionExhausts, RegionUnknown, RegionCancelled, RegionInadmissible, RegionUnmarked,
       RegionStopped, RegionInterrupted, JoinRefuses, FoldFails, LeaveGroup
  <2>3. Control'
    BY <2>1, <2>2, RaiseControl, TerminateControl, ResolveControl
  <2>4. UNCHANGED peers
    BY <2>2 DEF Raise, Terminate, Resolve, Select
  <2>. QED BY <2>3, <2>4, OthersCallNothing DEF peers, gateVars
<1>4. CASE AskRouter \/ EnterNode \/ EnterRegion \/ AskJoin \/ Join
  <2>1. AllDone /\ UNCHANGED peers
    BY <1>1, <1>4 DEF AskRouter, EnterNode, AtRegion, EnterRegion, RegionSettled, Joinable,
       AskJoin, Join
  <2>2. Control'
    <3>. USE DEF Dispatch
    <3>1. CASE AskRouter
      BY <2>1, <3>1, DispatchSafe DEF AskRouter, RouterRequest, Request, rest, runVars
    <3>2. CASE EnterNode
      <4>1. req'.boundary = "node" /\ pc' = "ask"
        BY <3>2 DEF EnterNode, NodeRequest, Request
      <4>. QED
        BY <2>1, <4>1 DEF IInv, Control, NoOrphanBranch, AllDone, AskedFor, MarkedAreAllowed,
           RegionGranted, FoldingOne, StopsHold, Waiting, Idle, peers, gateVars, branchVars
    <3>3. CASE EnterRegion
      <4>1. FanoutGrant' = FanoutGrant
        BY <3>3 DEF EnterRegion, FanoutGrant, RegionRequest, Batch, Edge, runVars
      <4>. QED
        BY <2>1, <3>3, <4>1, DispatchSafe
        DEF EnterRegion, FanoutGrant, RegionRequest, Request, runVars
    <3>4. CASE AskJoin
      BY <2>1, <3>4, DispatchSafe DEF AskJoin, RegionRequest, Request, rest, runVars
    <3>5. CASE Join
      <4>1. PICK A : admitted' = A /\ Dispatch(RegionRequest("reducer", A, Completed, 0))
        BY <3>5 DEF Join
      <4>2. RegionRequest("reducer", A, Completed, 0) = FoldGrant'
        BY <2>1, <3>5, <4>1 DEF Join, FoldGrant, RegionRequest, Batch, Completed, With,
           peers, branchVars, runVars
      <4>. QED
        BY <2>1, <3>5, <4>1, <4>2, DispatchSafe DEF Join, RegionRequest, Request, runVars
    <3>. QED BY <1>4, <3>1, <3>2, <3>3, <3>4, <3>5
  <2>. QED BY <2>1, <2>2, OthersCallNothing DEF peers, gateVars
<1>5. CASE NodeReturns \/ OfferRegion \/ CommitAllowed \/ SettlementReturns \/ SettlementFails
  <2>1. AllDone /\ UNCHANGED peers
    BY <1>1, <1>5 DEF NodeReturns, OfferRegion, Offer, CommitAllowed, SettlementReturns,
       SettlementFails, Settlement
  <2>2. pc' \in Quiet
    BY <1>5 DEF NodeReturns, OfferRegion, Offer, CommitAllowed, SettlementReturns,
       SettlementFails, Settlement, Show, Onward, Quiet
  <2>3. ~latch
    BY <1>5 DEF IInv, Control, StopsHold, Waiting, NodeReturns, OfferRegion, CommitAllowed,
       SettlementReturns, SettlementFails, Settlement
  <2>4. held' # <<>> => pc' \in Waiting
    BY <1>5 DEF NodeReturns, OfferRegion, Offer, CommitAllowed, SettlementReturns,
       SettlementFails, Settlement, Show, Onward, Waiting, Idle
  <2>. QED BY <2>1, <2>2, <2>3, <2>4, QuietStep, OthersCallNothing DEF peers, gateVars
<1>6. CASE SkipField \/ FoldField \/ ReducerReturns
  <2>1. CASE FoldField /\ Refused(Folded(field))
    BY <1>1, <2>1, RaiseControl, OthersCallNothing DEF FoldField, AtField, Raise, peers, gateVars
  <2>2. CASE ~(FoldField /\ Refused(Folded(field)))
    <3>1. /\ UNCHANGED <<peers, graph, held, req, runVars, admitted>>
          /\ pc = "fold" \/ (pc = "call" /\ req.boundary = "reducer")
          /\ pc' = "fold"
      BY <1>6, <2>2 DEF SkipField, FoldField, ReducerReturns, AtField
    <3>. QED BY <3>1, FoldSafe, OthersCallNothing DEF peers, gateVars
  <2>. QED BY <2>1, <2>2
<1>. QED BY <1>2, <1>3, <1>4, <1>5, <1>6 DEF Scheduler

\* Every step of a branch task: under the region's grant, or its own.
LEMMA BranchSafe ==
  ASSUME IInv, Branch
  PROVE  EveryCallAuthorised' /\ Control'
<1>1. PICK b \in Names(Edge.branches) :
        BranchBegins(b, BranchRequest(b)) \/ BranchStep(b, BranchRequest(b))
  BY DEF Branch
<1>2. /\ pc \in {"settle", "reap"} /\ pc' = pc /\ req' = req /\ held' = held /\ b \in Node
      /\ UNCHANGED <<graph, node, steps>>
  BY <1>1, EdgeTyped DEF Branch, At, Reached, rest, runVars, IInv
<1>3. ~latch /\ latch' = latch /\ gate' = gate
  BY <1>1, <1>2 DEF IInv, Control, StopsHold, Waiting, BranchStep, BranchBegins, BranchAllowed,
     BranchDenied, BranchMarked, BranchMarkFails, BranchReturns, BranchCancelled, gateVars
<1>4. FanoutGrant' = FanoutGrant /\ \A n \in Node : BranchRequest(n)' = BranchRequest(n)
  BY <1>2 DEF FanoutGrant, BranchRequest, RegionRequest, Batch, Edge
<1>5. gate.present => FanoutGrant \in allowed
  BY <1>2 DEF IInv, Control, RegionGranted
<1>6. NoOrphanBranch' /\ AskedFor' /\ StopsHold'
  BY <1>2, <1>3 DEF IInv, Control, NoOrphanBranch, AskedFor, StopsHold, Idle
<1>7. ASSUME allowed \subseteq allowed',
             \A n \in Node : bpc'[n] = "mark" => bpc[n] = "mark" \/ BranchRequest(n) \in allowed'
      PROVE  Control'
  BY <1>2, <1>3, <1>4, <1>5, <1>6, <1>7
  DEF IInv, Control, MarkedAreAllowed, RegionGranted
<1>8. \A place \in BranchPc : MoveTo(b, place) =>
        \A n \in Node : bpc'[n] = IF n = b THEN place ELSE bpc[n]
  BY <1>2 DEF MoveTo, IInv, TypeOK, BranchTypeOK
<1>9. CASE BranchBegins(b, BranchRequest(b))
  <2>1. BatchCovers(FanoutGrant, BranchRequest(b))
    BY DEF BatchCovers, FanoutGrant, BranchRequest, RegionRequest, Request
  <2>2. EveryCallAuthorised'
    BY <1>5, <1>9, <2>1, OneCall DEF BranchBegins, Transfer
  <2>3. Control'
    BY <1>7, <1>8, <1>9 DEF BranchBegins, BranchPc
  <2>. QED BY <2>2, <2>3
<1>10. CASE BranchAllowed(b, BranchRequest(b))
  <2>1. allowed \subseteq allowed' /\ (gate.present => BranchRequest(b) \in allowed')
    BY <1>10 DEF BranchAllowed, Grant
  <2>2. gate.present
    BY <1>10 DEF BranchAllowed, IInv, TypeOK, GateTypeOK, GateKind
  <2>3. EveryCallAuthorised'
    BY <1>10, <2>1, NoCall DEF BranchAllowed
  <2>4. Control'
    BY <1>7, <1>8, <1>10, <2>1, <2>2 DEF BranchAllowed, BranchPc
  <2>. QED BY <2>3, <2>4
<1>11. CASE BranchMarked(b, BranchRequest(b))
  <2>1. gate.present => BranchRequest(b) \in allowed
    BY <1>2, <1>11 DEF BranchMarked, IInv, Control, MarkedAreAllowed
  <2>2. EveryCallAuthorised'
    BY <1>11, <2>1, OneCall DEF BranchMarked, Mark, Transfer
  <2>3. Control'
    BY <1>7, <1>8, <1>11 DEF BranchMarked, BranchPc
  <2>. QED BY <2>2, <2>3
<1>12. CASE BranchDenied(b) \/ BranchMarkFails(b) \/ BranchReturns(b) \/ BranchCancelled(b)
  <2>1. UNCHANGED gateVars /\ \E how : Settle(b, how)
    BY <1>12 DEF BranchDenied, BranchMarkFails, BranchReturns, BranchCancelled
  <2>2. \A n \in Node : bpc'[n] = "mark" => bpc[n] = "mark"
    BY <1>2, <2>1 DEF Settle, IInv, TypeOK, BranchTypeOK
  <2>. QED BY <1>7, <2>1, <2>2, OthersCallNothing DEF gateVars
<1>. QED BY <1>1, <1>9, <1>10, <1>11, <1>12 DEF BranchStep

\* Every step of the consumer, the gate's owner, node code and cancellation.
LEMMA AroundSafe ==
  ASSUME IInv, ConsumerPulls \/ Environment \/ UNCHANGED vars
  PROVE  EveryCallAuthorised' /\ Control'
<1>1. UNCHANGED <<gate, allowed, marked, calls>>
  BY DEF ConsumerPulls, Environment, ConsumerCloses, StopWhileHeld, RecordStop, SharedWrite,
     Cancel, Raise, CancelRegion, vars, peers, gateVars
<1>2. pc \notin {"settle", "reap"} => AllDone
  BY DEF IInv, Control, NoOrphanBranch, AllDone
<1>3. CASE ConsumerCloses \/ SharedWrite \/ Cancel
  <2>1. AllDone
    BY <1>2, <1>3 DEF IInv, Control, StopsHold, Waiting, ConsumerCloses, SharedWrite, Cancel,
       At, Reached
  <2>2. UNCHANGED peers /\ pc' \in Quiet /\ (held' # <<>> \/ latch => pc' \in Waiting)
    BY <1>3 DEF IInv, Control, StopsHold, ConsumerCloses, SharedWrite, Cancel, Raise, At, Reached,
       Idle, Quiet, Waiting
  <2>. QED BY <1>1, <2>1, <2>2, QuietStep, OthersCallNothing
<1>4. CASE ConsumerPulls \/ StopWhileHeld \/ CancelRegion \/ UNCHANGED vars
  <2>1. UNCHANGED <<bpc, result, graph, req, node, steps, admitted>>
    BY <1>4 DEF ConsumerPulls, StopWhileHeld, CancelRegion, vars, rest, runVars, foldVars, peers,
       branchVars
  <2>2. /\ FanoutGrant' = FanoutGrant /\ FoldGrant' = FoldGrant
        /\ \A n \in Node : BranchRequest(n)' = BranchRequest(n)
    BY <2>1 DEF FanoutGrant, FoldGrant, BranchRequest, RegionRequest, Batch, Edge, Completed, With
  <2>3. pc' = pc \/ (pc = "settle" /\ pc' = "reap")
    BY <1>4 DEF ConsumerPulls, StopWhileHeld, CancelRegion, vars, At, Reached
  <2>4. NoOrphanBranch' /\ AskedFor'
    BY <2>1, <2>2, <2>3 DEF IInv, Control, NoOrphanBranch, AskedFor
  <2>5. MarkedAreAllowed' /\ RegionGranted'
    BY <1>1, <2>1, <2>2, <2>3 DEF IInv, Control, MarkedAreAllowed, RegionGranted, FoldingOne
  <2>6. StopsHold'
    BY <1>1, <1>4 DEF IInv, Control, StopsHold, Waiting, ConsumerPulls, StopWhileHeld, RecordStop,
       CancelRegion, At, Reached, Idle, vars, rest, peers, gateVars
  <2>. QED BY <1>1, <2>4, <2>5, <2>6, OthersCallNothing DEF Control
<1>. QED BY <1>3, <1>4 DEF Environment

LEMMA IInvInductive ==
  ASSUME IInv, [Next]_vars
  PROVE  IInv'
<1>1. TypeOK'
  BY NextTyped DEF IInv
<1>2. EveryCallAuthorised' /\ Control'
  BY SchedulerSafe, BranchSafe, AroundSafe DEF Next, Ended
<1>. QED BY <1>1, <1>2 DEF IInv

LEMMA IInvInitially ==
  ASSUME Init
  PROVE  IInv
<1>1. EveryCallAuthorised
  BY DEF Init, GateInit, EveryCallAuthorised
<1>2. Control
  BY DEF Init, GateInit, BranchInit, Control, NoOrphanBranch, AskedFor, MarkedAreAllowed,
     RegionGranted, StopsHold, Idle
<1>. QED BY <1>1, <1>2, InitTyped DEF IInv

\* Whatever the gate decides and however branches, cancellations and the
\* consumer interleave, every callable that received control was allowed, and
\* for a gate with start markers marked before it started.
THEOREM CallsAreAuthorised == Spec => []EveryCallAuthorised
<1>1. IInv => EveryCallAuthorised
  BY DEF IInv
<1>. QED BY <1>1, IInvInitially, IInvInductive, PTL DEF Spec

\* No branch task outlives its region.
THEOREM BranchesAreStructured == Spec => []NoOrphanBranch
<1>1. IInv => NoOrphanBranch
  BY DEF IInv, Control
<1>. QED BY <1>1, IInvInitially, IInvInductive, PTL DEF Spec

\* After a recorded stop nothing is called and nothing published.
THEOREM StopsAreHonoured == Spec => StopHonoured
<1>1. ASSUME IInv, [Next]_vars, latch, gate.present
      PROVE  calls' = calls /\ log' = log
  <2>1. pc \in Waiting
    BY <1>1 DEF IInv, Control, StopsHold
  <2>2. CASE Scheduler
    BY <1>1, <2>1, <2>2 DEF Scheduler, At, Reached, Waiting, MayAllow,
       AskRouter, FollowStatic, RouterReturns, Resolve, Select, Finish, Exhaust, EnterNode,
       DispatchAllowed, MarkerWritten, GateRefuses, GateStops, GateFails, NodeReturns,
       NodeInterrupts, CallableFails, CommitAllowed, SettlementReturns, SettlementFails,
       Settlement, RaiseSettlement, AtRegion, RegionExhausts, RegionUnknown, EnterRegion,
       RegionSettled, RegionCancelled, RegionInadmissible, RegionUnmarked, RegionStopped,
       RegionInterrupted, Joinable, AskJoin, Join, JoinRefuses, AtField, SkipField, FoldField,
       StartReducer, FoldFails, ReducerReturns, OfferRegion, LeaveGroup,
       Raise, Terminate, rest, peers, gateVars, histVars
  <2>3. CASE Branch
    BY <2>1, <2>3 DEF Branch, At, Reached, Waiting
  <2>4. CASE ConsumerPulls \/ Environment \/ UNCHANGED vars
    BY <2>4 DEF ConsumerPulls, Environment, ConsumerCloses, StopWhileHeld, RecordStop,
       SharedWrite, Cancel, Raise, CancelRegion, vars, rest, peers, gateVars, histVars
  <2>. QED BY <1>1, <2>2, <2>3, <2>4 DEF Next, Ended
<1>2. ASSUME IInv, [Next]_vars
      PROVE  [latch /\ gate.present => calls' = calls /\ log' = log]_vars
  BY <1>1, <1>2
<1>. QED BY <1>2, IInvInitially, IInvInductive, PTL DEF Spec, StopHonoured

-----------------------------------------------------------------------------
(***************************************************************************)
(* Requests are spent once.  A request names the steps completed when it   *)
(* was made, so one could only be asked again at the same count: OnceKept  *)
(* says that whatever was allowed is older than what can still be asked at *)
(* this place of the generator.                                            *)
(***************************************************************************)
\* A request at the gate, or in the hands of its callable.
Asking(boundary) == pc = "ask" /\ req.boundary = boundary
Running(boundary) == pc \in {"mark", "call"} /\ req.boundary = boundary

\* The node that steps counts next has been allowed.
NodeAllowed == pc = "ended" \/ (pc \in {"mark", "call", "commit", "after"} /\ req.boundary = "node")

\* How far a region has come whose requests name the present batch.
RegionAt(r) ==
  /\ pc # "edge" /\ ~Asking("fanout")
  /\ pc \in {"settle", "reap"} \/ Asking("join") => r.boundary \in {"fanout", "node"}
  /\ Running("join") \/ (Asking("reducer") /\ req.key = 0) => r.boundary \in {"fanout", "node", "join"}
  /\ pc = "fold" \/ (Asking("reducer") /\ req.key # 0) => (r.boundary = "reducer" => r.key < field)
  /\ Running("reducer") => (r.boundary = "reducer" => r.key <= field)

\* What has been allowed is older than what can still be asked.
Older(r) ==
  /\ r.boundary = "router" => r.steps <= steps /\ (pc = "edge" \/ Asking("router") => r.steps < steps)
  /\ r.boundary = "node" /\ r.batch = 0 => r.steps <= steps /\ (~NodeAllowed => r.steps < steps)
  /\ r.batch # 0 => r.batch <= steps /\ (r.batch = steps => RegionAt(r))

\* What is on its way to the gate carries the present step count.
Asked ==
  /\ pc = "ask" => req.boundary # "region"
  /\ pc = "ask" /\ req.boundary \in {"router", "node"} => req.steps = steps /\ req.batch = 0
  /\ pc = "fold" \/ Asking("reducer") \/ Running("reducer") => field > 0
  /\ Asking("reducer") /\ req.key # 0 => req.key = field

OnceKept ==
  /\ \A r \in allowed : Older(r)
  /\ Asked
  /\ pc \in {"settle", "reap"} => \A b \in Node : bpc[b] = "ask" => BranchRequest(b) \notin allowed

OnceInv == BudgetInv /\ OnceKept

\* Nothing is asked any more at the end.
LEMMA OnceEnds ==
  ASSUME OnceInv, pc' = "ended", UNCHANGED <<allowed, steps>>
  PROVE  OnceKept'
BY DEF OnceInv, OnceKept, Older, Asked, RegionAt, NodeAllowed, Asking, Running

\* A step inside a node or a region that grants nothing.
LEMMA OnceStays ==
  ASSUME OnceInv, UNCHANGED <<allowed, steps>>, pc' \notin {"settle", "reap"}, Asked',
         pc' = "edge" \/ Asking("router")' => pc = "edge" \/ Asking("router"),
         NodeAllowed => NodeAllowed',
         \A r \in allowed : r.batch = steps /\ RegionAt(r) => RegionAt(r)'
  PROVE  OnceKept'
BY DEF OnceInv, OnceKept, Older

\* A publication makes everything allowed so far old: the steps grow.
LEMMA OncePublished ==
  ASSUME OnceInv, pc \in {"commit", "after"}, UNCHANGED <<allowed, graph, req>>, NEW published, NEW next \in {"edge", "raise"},
         Show(published, next)
  PROVE  OnceKept'
<1>. steps \in Nat /\ allowed \subseteq RequestType
  BY DEF OnceInv, BudgetInv, TypeOK, GateTypeOK
<1>1. CASE ~InRegion
  <2>1. steps' = steps + 1 /\ pc' \in {"edge", "raise"}
    BY <1>1 DEF Show, NodeCompleted, Onward
  <2>. QED BY <2>1 DEF OnceInv, OnceKept, Older, Asked, RegionAt, NodeAllowed, Asking,
              Running, RequestType
<1>2. CASE InRegion
  <2>1. Cardinality(With({"ok"})) \in Nat
    <3>1. With({"ok"}) \subseteq Node
      BY DEF With
    <3>. QED BY <3>1, GraphsAssumption, FS_Subset, FS_CardinalityType
  <2>2. steps' >= steps /\ pc' \in {"then", "raise"} /\ steps' \in Nat
    BY <1>2, <2>1 DEF Show, Completed, Onward
  <2>3. ~NodeAllowed
    BY <1>2 DEF OnceInv, BudgetInv, BudgetCarried, AtNode, Carrying, NodeAllowed, InRegion
  <2>. QED BY <2>2, <2>3 DEF OnceInv, OnceKept, Older, Asked, RegionAt, NodeAllowed,
              Asking, Running, RequestType
<1>. QED BY <1>1, <1>2

\* The steps of the generator: those that end the walk, those that ask or
\* call, those that publish, and the decision of the gate.
LEMMA OnceScheduler ==
  ASSUME OnceInv, Scheduler
  PROVE  OnceKept'
<1>. USE DEF At, Reached
<1>. steps \in Nat /\ allowed \subseteq RequestType /\ field \in Nat
  BY DEF OnceInv, BudgetInv, TypeOK, GateTypeOK
<1>1. CASE \/ Exhaust \/ GateRefuses \/ GateFails \/ CallableFails \/ RaiseSettlement
           \/ RegionExhausts \/ RegionUnknown \/ RegionCancelled \/ RegionInadmissible
           \/ RegionUnmarked \/ JoinRefuses \/ FoldFails \/ LeaveGroup
  <2>1. \E how : Raise(how)
    BY <1>1 DEF Exhaust, GateRefuses, GateFails, CallableFails, RaiseSettlement,
       RegionExhausts, RegionUnknown, RegionCancelled, RegionInadmissible,
       RegionUnmarked, JoinRefuses, FoldFails, LeaveGroup
  <2>. QED BY <2>1, OnceEnds DEF Raise, runVars, peers, gateVars
<1>2. CASE Finish \/ GateStops \/ NodeInterrupts \/ RegionStopped \/ RegionInterrupted
  BY <1>2, OnceEnds DEF Finish, GateStops, NodeInterrupts, RegionStopped,
     RegionInterrupted, Terminate,
     peers, gateVars
<1>3. CASE FollowStatic \/ RouterReturns
  <2>1. (\E t : Select(t)) \/ Raise("failed")
    BY <1>3 DEF FollowStatic, RouterReturns, Resolve
  <2>2. ~NodeAllowed
    BY <1>3 DEF FollowStatic, RouterReturns, NodeAllowed
  <2>3. CASE \E t : Select(t)
    BY <2>2, <2>3, OnceStays DEF Select, peers, gateVars, Asked, Asking, Running,
       NodeAllowed, RegionAt
  <2>4. CASE Raise("failed")
    BY <2>4, OnceEnds DEF Raise, runVars, peers, gateVars
  <2>. QED BY <2>1, <2>3, <2>4
<1>4. CASE AskRouter \/ EnterNode \/ NodeReturns
  BY <1>4, OnceStays DEF AskRouter, EnterNode, NodeReturns, Offer, Dispatch, RouterRequest,
     NodeRequest, Request, rest, runVars,
     peers, gateVars, Asked, Asking, Running, NodeAllowed, RegionAt
<1>5. CASE EnterRegion
  <2>1. /\ pc = "edge" /\ pc' = "ask" /\ req'.boundary = "fanout" /\ UNCHANGED <<allowed, steps>>
    BY <1>5 DEF EnterRegion, AtRegion, Dispatch, RegionRequest, Request, runVars, peers,
       gateVars
  <2>. QED BY <2>1, OnceStays DEF Asked, Asking, Running, NodeAllowed, RegionAt
<1>6. CASE AskJoin \/ Join
  <2>1. /\ pc \in {"settle", "call"} /\ UNCHANGED <<allowed, steps>> /\ ~NodeAllowed /\ pc' = "ask"
        /\ pc = "call" => Running("join")
        /\ \/ pc = "settle" /\ req'.boundary = "join"
           \/ req'.boundary = "reducer" /\ req'.key = 0 /\ field' = 1
    BY <1>6 DEF AskJoin, Join, Joinable, RegionSettled, Dispatch, RegionRequest, Request,
       rest, runVars, peers, gateVars,
       NodeAllowed, Running
  <2>. QED BY <2>1, OnceStays DEF Asked, Asking, Running, NodeAllowed, RegionAt
<1>7. CASE MarkerWritten
  <2>1. pc = "mark" /\ pc' = "call" /\ UNCHANGED <<allowed, steps, req, field>>
    BY <1>7 DEF MarkerWritten, CallNow, rest, runVars, foldVars
  <2>. QED BY <2>1, OnceStays DEF OnceInv, OnceKept, Asked, Asking, Running, NodeAllowed,
              RegionAt
<1>8. CASE SkipField \/ ReducerReturns \/ (FoldField /\ ~Refused(Folded(field)))
  <2>1. /\ pc = "fold" \/ Running("reducer")
        /\ pc' = "fold" /\ field' = field + 1 /\ UNCHANGED <<allowed, steps, req>>
    BY <1>8 DEF SkipField, ReducerReturns, FoldField, AtField, Keep, Running, runVars,
       peers, gateVars
  <2>. QED BY <2>1, OnceStays DEF OnceInv, OnceKept, Asked, Asking, Running, NodeAllowed,
              RegionAt, RequestType
<1>9. CASE FoldField /\ Refused(Folded(field))
  BY <1>9, OnceEnds DEF FoldField, Raise, runVars, peers, gateVars
<1>10. CASE StartReducer
  <2>1. /\ pc = "fold" /\ pc' \in {"ask", "call"} /\ req'.boundary = "reducer" /\ req'.key = field /\ field # 0
        /\ UNCHANGED <<allowed, steps, field>>
    BY <1>10 DEF StartReducer, AtField, RegionRequest, Request, Field, rest, runVars,
       foldVars
  <2>. QED BY <2>1, OnceStays DEF OnceInv, OnceKept, Asked, Asking, Running, NodeAllowed,
              RegionAt, RequestType
<1>11. CASE OfferRegion
  <2>1. pc = "fold" /\ pc' = "commit" /\ req'.boundary = "region" /\ UNCHANGED <<allowed, steps>>
    BY <1>11 DEF OfferRegion, Offer, RegionRequest, Request, runVars, peers, gateVars
  <2>. QED BY <2>1, OnceStays DEF Asked, Asking, Running, NodeAllowed, RegionAt
<1>12. CASE CommitAllowed
  <2>1. CASE gate.settle
    <3>1. pc = "commit" /\ pc' = "after" /\ UNCHANGED <<allowed, steps, req>>
      BY <1>12, <2>1 DEF CommitAllowed, peers, gateVars
    <3>. QED BY <3>1, OnceStays DEF Asked, Asking, Running, NodeAllowed, RegionAt
  <2>2. CASE ~gate.settle
    BY <1>12, <2>2, OncePublished DEF CommitAllowed, peers, gateVars
  <2>. QED BY <2>1, <2>2
<1>13. CASE SettlementReturns \/ SettlementFails
  BY <1>13, OncePublished DEF SettlementReturns, SettlementFails, Settlement, peers,
     gateVars
<1>14. CASE DispatchAllowed
  <2>1. /\ pc = "ask" /\ UNCHANGED <<steps, req, field, graph, node>> /\ allowed' \subseteq allowed \cup {req}
        /\ allowed \subseteq allowed'
    BY <1>14 DEF DispatchAllowed, Grant, rest, runVars, foldVars
  <2>2. CASE req.boundary = "fanout"
    <3>1. pc' = "settle" /\ req.batch = steps /\ steps > 0
      BY <1>14, <2>1, <2>2 DEF DispatchAllowed, Pass, OnceInv, BudgetInv, BudgetCarried,
         AcrossRegion, Carrying, RegionBoundary
    <3>2. \A r \in allowed' : Older(r)'
      BY <2>1, <2>2, <3>1 DEF OnceInv, OnceKept, Older, RegionAt, NodeAllowed, Asking,
         Running
    <3>3. \A b \in Node : BranchRequest(b)' \notin allowed'
      <4>1. \A b \in Node : BranchRequest(b)'.boundary = "node" /\ BranchRequest(b)'.batch = steps
        BY <2>1 DEF BranchRequest, RegionRequest, Request, Batch
      <4>2. \A r \in allowed' : r.batch = steps => r.boundary = "fanout"
        BY <2>1, <2>2, <3>1 DEF OnceInv, OnceKept, Older, RegionAt, Asking
      <4>. QED BY <4>1, <4>2
    <3>. QED BY <3>1, <3>2, <3>3 DEF OnceKept, Asked, Asking, Running
  <2>3. CASE req.boundary \in {"router", "node"}
    <3>1. pc' \in {"mark", "call"} /\ req.steps = steps /\ req.batch = 0
      BY <1>14, <2>1, <2>3 DEF DispatchAllowed, Pass, StartCallable, CallNow, OnceInv,
         OnceKept, Asked
    <3>. QED BY <2>1, <2>3, <3>1 DEF OnceInv, OnceKept, Older, Asked, RegionAt,
                NodeAllowed, Asking, Running, RequestType
  <2>4. CASE req.boundary \in {"join", "reducer"}
    <3>1. /\ req.batch = steps /\ steps > 0
          /\ \/ pc' \in {"mark", "call"} /\ ~(req.boundary = "reducer" /\ req.key = 0)
             \/ pc' = "fold" /\ req.boundary = "reducer" /\ req.key = 0
      BY <1>14, <2>1, <2>4 DEF DispatchAllowed, Pass, StartCallable, CallNow, OnceInv,
         BudgetInv, BudgetCarried, AcrossRegion,
         Carrying, RegionBoundary
    <3>. QED BY <2>1, <2>4, <3>1 DEF OnceInv, OnceKept, Older, Asked, RegionAt,
                NodeAllowed, Asking, Running, RequestType
  <2>5. req.boundary \in Boundary
    BY DEF OnceInv, BudgetInv, TypeOK, RequestType
  <2>. QED BY <2>1, <2>2, <2>3, <2>4, <2>5 DEF OnceInv, OnceKept, Asked, Boundary
<1>. QED BY <1>1, <1>2, <1>3, <1>4, <1>5, <1>6, <1>7, <1>8, <1>9, <1>10, <1>11, <1>12,
            <1>13, <1>14 DEF Scheduler

\* A branch task spends the request of its own name, which no other branch has.
LEMMA OnceBranch ==
  ASSUME OnceInv, Branch
  PROVE  /\ OnceKept'
         /\ \A b \in Node : bpc[b] = "ask" /\ bpc'[b] = "mark" => BranchRequest(b) \notin allowed
<1>1. PICK b \in Names(Edge.branches) :
        BranchBegins(b, BranchRequest(b)) \/ BranchStep(b, BranchRequest(b))
  BY DEF Branch
<1>2. /\ pc \in {"settle", "reap"} /\ UNCHANGED <<pc, req, steps, graph, node, field>> /\ b \in Node
      /\ bpc \in [Node -> BranchPc]
  BY <1>1, EdgeTyped DEF Branch, At, Reached, rest, runVars, foldVars, OnceInv, BudgetInv,
     TypeOK, BranchTypeOK
<1>3. /\ allowed' \in {allowed, allowed \cup {BranchRequest(b)}}
      /\ BranchRequest(b) \in allowed' \ allowed => bpc'[b] = "mark"
      /\ \A n \in Node : bpc'[n] = "ask" => bpc[n] = "ask"
      /\ \A n \in Node : n # b => bpc'[n] = bpc[n]
  BY <1>1, <1>2 DEF BranchBegins, BranchStep, BranchAllowed, BranchDenied, BranchMarked,
     BranchMarkFails,
     BranchReturns, BranchCancelled, MoveTo, Settle, Grant, gateVars
<1>4. BranchRequest(b).boundary = "node" /\ BranchRequest(b).batch = steps /\ steps > 0 /\ steps \in Nat
  BY <1>2 DEF BranchRequest, RegionRequest, Request, Batch, OnceInv, BudgetInv,
     BudgetCarried, AcrossRegion, TypeOK
<1>5. \A r \in allowed' : Older(r)'
  BY <1>2, <1>3, <1>4 DEF OnceInv, OnceKept, Older, RegionAt, NodeAllowed, Asking, Running
<1>6. \A n \in Node : BranchRequest(n)' = BranchRequest(n) /\ (n # b => BranchRequest(n) # BranchRequest(b))
  BY <1>2 DEF BranchRequest, RegionRequest, Request, Batch
<1>7. \A n \in Node : bpc'[n] = "ask" => BranchRequest(n)' \notin allowed'
  BY <1>2, <1>3, <1>6 DEF OnceInv, OnceKept
<1>8. \A n \in Node : bpc[n] = "ask" /\ bpc'[n] = "mark" => BranchRequest(n) \notin allowed
  BY <1>2 DEF OnceInv, OnceKept
<1>. QED BY <1>2, <1>5, <1>7, <1>8 DEF OnceInv, OnceKept, Asked, Asking, Running

\* OnceInv is inductive.
LEMMA OnceNext ==
  ASSUME OnceInv, [Next]_vars
  PROVE  OnceInv'
<1>1. ASSUME ConsumerCloses \/ Cancel
      PROVE  OnceKept'
  BY <1>1, OnceEnds DEF ConsumerCloses, Cancel, Raise, runVars, peers, gateVars
<1>2. ASSUME ConsumerPulls \/ StopWhileHeld \/ SharedWrite \/ CancelRegion \/ UNCHANGED vars
      PROVE  OnceKept'
  <2>1. /\ UNCHANGED <<req, steps, allowed, bpc, graph, node, field>>
        /\ pc' = pc \/ (pc = "settle" /\ pc' = "reap")
    BY <1>2 DEF ConsumerPulls, StopWhileHeld, RecordStop, SharedWrite, CancelRegion, At,
       Reached,
       vars, rest, runVars, foldVars, peers, gateVars, branchVars
  <2>2. \A n \in Node : BranchRequest(n)' = BranchRequest(n)
    BY <2>1 DEF BranchRequest, RegionRequest, Request, Batch
  <2>. QED BY <2>1, <2>2 DEF OnceInv, OnceKept, Older, Asked, RegionAt, NodeAllowed,
              Asking, Running
<1>3. OnceKept'
  BY <1>1, <1>2, OnceScheduler, OnceBranch DEF Next, Environment, Ended
<1>4. BudgetInv'
  BY BudgetInductive DEF OnceInv
<1>. QED BY <1>3, <1>4 DEF OnceInv

\* What is about to be asked is younger than all that was allowed.
LEMMA AskedIsNew ==
  ASSUME OnceInv, [Next]_vars, pc # "ask", pc' = "ask"
  PROVE  req' \notin allowed
<1>. steps \in Nat /\ field \in Nat
  BY DEF OnceInv, BudgetInv, TypeOK
<1>1. CASE AskRouter
  <2>1. pc = "edge" /\ req'.boundary = "router" /\ req'.steps = steps
    BY <1>1 DEF AskRouter, At, Reached, Dispatch, RouterRequest, Request
  <2>. QED BY <2>1 DEF OnceInv, OnceKept, Older
<1>2. CASE EnterNode
  <2>1. pc = "loop" /\ req'.boundary = "node" /\ req'.steps = steps /\ req'.batch = 0
    BY <1>2 DEF EnterNode, At, Reached, Dispatch, NodeRequest, Request
  <2>. QED BY <2>1 DEF OnceInv, OnceKept, Older, NodeAllowed
<1>3. CASE EnterRegion \/ AskJoin \/ Join \/ StartReducer
  <2>1. /\ req'.batch = steps
        /\ \/ pc = "edge" /\ steps > 0
           \/ /\ AcrossRegion
              /\ \/ pc = "settle" /\ req'.boundary \in {"join", "reducer"}
                 \/ Running("join") /\ req'.boundary = "reducer"
                 \/ pc = "fold" /\ req'.boundary = "reducer" /\ req'.key = field
    <3>1. CASE EnterRegion
      BY <3>1, EdgeTyped DEF EnterRegion, AtRegion, At, Reached, Dispatch, RegionRequest,
         Request, Batch, Edge, IsGraph, OnceInv,
         BudgetInv, BudgetCarried
    <3>2. CASE AskJoin \/ Join \/ StartReducer
      BY <3>2 DEF AskJoin, Join, StartReducer, Joinable, RegionSettled, AtField, At,
         Reached, Dispatch, RegionRequest, Request, Batch,
         AcrossRegion, Carrying, RegionBoundary, Running
    <3>. QED BY <1>3, <3>1, <3>2
  <2>2. steps > 0
    BY <2>1 DEF OnceInv, BudgetInv, BudgetCarried
  <2>. QED BY <2>1, <2>2 DEF OnceInv, OnceKept, Older, RegionAt
<1>4. CASE Scheduler /\ ~(AskRouter \/ EnterNode \/ EnterRegion \/ AskJoin \/ Join \/ StartReducer)
  <2>. USE DEF At, Reached
  <2>1. CASE \/ Exhaust \/ GateRefuses \/ GateFails \/ CallableFails \/ RaiseSettlement
             \/ RegionExhausts \/ RegionUnknown \/ RegionCancelled \/ RegionInadmissible
             \/ RegionUnmarked \/ JoinRefuses \/ FoldFails \/ LeaveGroup \/ FollowStatic \/ RouterReturns
    BY <2>1 DEF Exhaust, GateRefuses, GateFails, CallableFails, RaiseSettlement,
       RegionExhausts, RegionUnknown, RegionCancelled, RegionInadmissible,
       RegionUnmarked, JoinRefuses, FoldFails, LeaveGroup, FollowStatic, RouterReturns,
       Resolve, Select, Raise
  <2>2. CASE \/ Finish \/ GateStops \/ NodeInterrupts \/ RegionStopped \/ RegionInterrupted
    BY <2>2 DEF Finish, GateStops, NodeInterrupts, RegionStopped, RegionInterrupted,
       Terminate
  <2>3. CASE \/ DispatchAllowed \/ MarkerWritten \/ NodeReturns \/ CommitAllowed \/ SettlementReturns
             \/ SettlementFails \/ SkipField \/ FoldField \/ ReducerReturns \/ OfferRegion
    BY <2>3 DEF DispatchAllowed, MarkerWritten, CallNow, NodeReturns, Offer, CommitAllowed,
       SettlementReturns,
       SettlementFails, Settlement, Show, Onward, SkipField, FoldField, AtField, Raise,
       ReducerReturns, OfferRegion
  <2>. QED BY <1>4, <2>1, <2>2, <2>3 DEF Scheduler
<1>5. CASE Branch \/ ConsumerPulls \/ Environment \/ UNCHANGED vars
  BY <1>5 DEF Branch, ConsumerPulls, Environment, ConsumerCloses, StopWhileHeld,
     SharedWrite, Cancel, Raise,
     CancelRegion, vars, rest
<1>. QED BY <1>1, <1>2, <1>3, <1>4, <1>5 DEF Next, Ended

\* Likewise for the requests of the branches.
LEMMA BranchAskedIsNew ==
  ASSUME OnceInv, [Next]_vars
  PROVE  \A b \in Node : bpc[b] = "ask" /\ bpc'[b] = "mark" => BranchRequest(b) \notin allowed
<1>1. ASSUME Scheduler
      PROVE  bpc' = bpc \/ \A b \in Node : bpc'[b] # "mark"
  <2>1. CASE DispatchAllowed
    BY <2>1 DEF DispatchAllowed, Pass, Launch, branchVars
  <2>2. CASE ~DispatchAllowed
    BY <1>1, <2>2 DEF Scheduler, AskRouter, FollowStatic, RouterReturns, Resolve, Select,
       Finish, Exhaust, EnterNode,
       MarkerWritten, GateRefuses, GateStops, GateFails, NodeReturns, NodeInterrupts,
       CallableFails, CommitAllowed,
       SettlementReturns, SettlementFails, Settlement, RaiseSettlement, RegionExhausts,
       RegionUnknown, EnterRegion,
       RegionCancelled, RegionInadmissible, RegionUnmarked, RegionStopped,
       RegionInterrupted, AskJoin, Join, JoinRefuses,
       SkipField, FoldField, StartReducer, FoldFails, ReducerReturns, OfferRegion,
       LeaveGroup, Offer, Raise, Terminate,
       peers, branchVars
  <2>. QED BY <2>1, <2>2
<1>2. ASSUME ConsumerPulls \/ Environment \/ UNCHANGED vars
      PROVE  bpc' = bpc
  BY <1>2 DEF ConsumerPulls, Environment, ConsumerCloses, StopWhileHeld, SharedWrite,
     Cancel, Raise,
     CancelRegion, vars, peers, branchVars
<1>. QED BY <1>1, <1>2, OnceBranch DEF Next, Ended

\* At the start nothing has been allowed.
LEMMA OnceInitially ==
  ASSUME Init
  PROVE  OnceInv
<1>1. OnceKept
  BY DEF Init, GateInit, OnceKept, Asked, Asking, Running
<1>. QED BY <1>1, BudgetInitially DEF OnceInv

\* No request that was allowed is put to the gate again, in any graph and
\* whatever cycles or regions bring the scheduler back.
THEOREM RequestsAreSpentOnce == Spec => AuthorityIsSpentOnce
<1>1. OnceInv /\ [Next]_vars =>
        [/\ pc # "ask" /\ pc' = "ask" => req' \notin allowed
         /\ \A b \in Node : bpc[b] = "ask" /\ bpc'[b] = "mark" =>
                            BranchRequest(b) \notin allowed]_vars
  BY AskedIsNew, BranchAskedIsNew
<1>. QED BY <1>1, OnceInitially, OnceNext, PTL DEF Spec, AuthorityIsSpentOnce
=============================================================================
