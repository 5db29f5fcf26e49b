------------------------- MODULE EnginePublication --------------------------
(***************************************************************************)
(* What is published, and what the consumer is told, for every graph and   *)
(* gate.                                                                   *)
(*   Observed       the state last observed holds every published field,   *)
(*                  unless after_commit is still being awaited;            *)
(*   ResultsKept    a region is published, and a run ends by itself, only if*)
(*                  no branch ended in a way that forbids it;              *)
(*   VisitsKept     a run reports the nodes it announced;                  *)
(*   FoldKept       a region's delta is, field by field, the fold of what  *)
(*                  its admitted branches wrote, in branch order;          *)
(*   DeltaKept      a delta is read as the gate was shown it;              *)
(*   PublishedKept  what was published was approved;                       *)
(*   WalkKept       the scheduler stands where the walk read off the log   *)
(*                  stands, and goes where GraphWalk may go.               *)
(***************************************************************************)
EXTENDS EngineProofs

\* A node.end is among the observations not yet taken.
Showing == \E i \in DOMAIN held : held[i] = "node.end"

\* A region on its way from the join to its commit has admitted a branch.
RegionAdmits ==
  /\ pc = "fold" => admitted # {}
  /\ pc \in {"ask", "mark", "call"} /\ req.boundary = "reducer" => admitted # {}
  /\ pc \in {"commit", "after"} /\ InRegion => admitted # {}

Observed ==
  /\ "fields" \in DOMAIN state /\ "fields" \in DOMAIN seen
  /\ PublishedIsObserved
  /\ outcome # "running" => pc = "ended" /\ ~Showing
  /\ pc = "ended" => outcome # "running"
  /\ pc = "after" => Idle

PublicationInv == TypeOK /\ RegionAdmits /\ Observed

\* What every step of the scheduler does that neither publishes nor shows
\* what was published.
OtherStep ==
  /\ Idle
  /\ pc \notin {"after", "ended"} /\ pc' # "after"
  /\ ~Showing'
  /\ "fields" \in DOMAIN state' /\ "fields" \in DOMAIN seen'
  /\ state'.fields = state.fields
  /\ seen'.fields = state.fields
  /\ log' = log
  /\ outcome' # "running" <=> pc' = "ended"

LEMMA RaiseOther ==
  ASSUME PublicationInv, Idle, pc \notin {"after", "ended"},
         NEW how \in Ending, Raise(how)
  PROVE  OtherStep
BY DEF PublicationInv, Observed, PublishedIsObserved, Raise, OtherStep, Idle, Showing, runVars,
   histVars,
   Ending

LEMMA TerminateOther ==
  ASSUME PublicationInv, Idle, pc \notin {"after", "ended"},
         NEW how \in Ending, NEW kind, kind # "node.end",
         NEW final, Terminate(how, kind, final),
         "fields" \in DOMAIN final, final.fields = state.fields
  PROVE  OtherStep
BY DEF PublicationInv, Terminate, Yield, OtherStep, Showing, histVars, Ending

LEMMA ResolveOther ==
  ASSUME PublicationInv, Idle, pc \notin {"after", "ended"}, NEW t, Resolve(t)
  PROVE  OtherStep
<1>1. CASE Known(t)
  BY <1>1 DEF PublicationInv, Observed, PublishedIsObserved, Resolve, Select, Yield, OtherStep,
     Showing,
     histVars
<1>2. CASE ~Known(t)
  BY <1>2, RaiseOther DEF Resolve, Ending
<1>. QED BY <1>1, <1>2

LEMMA SchedulerOther ==
  ASSUME PublicationInv, Scheduler, ~CommitAllowed, ~SettlementReturns, ~SettlementFails
  PROVE  OtherStep
<1>. USE DEF At, Reached
<1>1. CASE \/ Exhaust \/ GateRefuses \/ GateFails \/ CallableFails \/ RaiseSettlement
           \/ RegionExhausts \/ RegionUnknown \/ RegionCancelled \/ RegionInadmissible
           \/ RegionUnmarked \/ JoinRefuses \/ FoldFails \/ LeaveGroup
  <2>1. Idle /\ pc \notin {"after", "ended"}
    BY <1>1 DEF Exhaust, GateRefuses, GateFails, CallableFails, RaiseSettlement, AtRegion,
       RegionExhausts, RegionUnknown, RegionSettled, RegionCancelled, RegionInadmissible,
       RegionUnmarked, Joinable, JoinRefuses, AtField, FoldFails, LeaveGroup
  <2>2. \E how \in Ending : Raise(how)
    BY <1>1 DEF Exhaust, GateRefuses, GateFails, CallableFails, RaiseSettlement,
       RegionExhausts, RegionUnknown, RegionCancelled, RegionInadmissible,
       RegionUnmarked, JoinRefuses, FoldFails, LeaveGroup, Ending
  <2>. QED BY <2>1, <2>2, RaiseOther
<1>2. CASE Finish \/ GateStops \/ NodeInterrupts \/ RegionStopped \/ RegionInterrupted
  <2>1. Idle /\ pc \notin {"after", "ended"}
    BY <1>2 DEF Finish, GateStops, NodeInterrupts, RegionSettled, RegionStopped, RegionInterrupted
  <2>2. "fields" \in DOMAIN state
    BY DEF PublicationInv, Observed
  <2>3. /\ "fields" \in DOMAIN Snapshot /\ Snapshot.fields = state.fields
        /\ "fields" \in DOMAIN BeforeRegion /\ BeforeRegion.fields = state.fields
    BY <2>2 DEF Snapshot, BeforeRegion, Visited
  <2>4. \A st, status, n : "fields" \in DOMAIN st =>
          "fields" \in DOMAIN Halted(st, status, n) /\ Halted(st, status, n).fields = st.fields
    BY DEF Halted
  <2>5. \E how \in Ending, kind \in {"done", "interrupt", "stopped"} : \E final :
          /\ Terminate(how, kind, final)
          /\ "fields" \in DOMAIN final /\ final.fields = state.fields
    <3>1. CASE Finish
      BY <3>1, <2>2 DEF Finish, Ending
    <3>2. CASE GateStops
      BY <3>2, <2>2, <2>4 DEF GateStops, Ending
    <3>3. CASE NodeInterrupts
      BY <3>3, <2>2, <2>4 DEF NodeInterrupts, Ending
    <3>4. CASE RegionStopped
      BY <3>4, <2>3, <2>4 DEF RegionStopped, Ending
    <3>5. CASE RegionInterrupted
      BY <3>5, <2>3, <2>4 DEF RegionInterrupted, Ending
    <3>. QED BY <1>2, <3>1, <3>2, <3>3, <3>4, <3>5
  <2>. QED BY <2>1, <2>5, TerminateOther
<1>3. CASE FollowStatic \/ RouterReturns
  BY <1>3, ResolveOther DEF FollowStatic, RouterReturns
<1>4. CASE \/ AskRouter \/ DispatchAllowed \/ MarkerWritten \/ NodeReturns \/ AskJoin \/ Join
           \/ SkipField \/ StartReducer \/ ReducerReturns \/ OfferRegion
  <2>1. /\ Idle /\ UNCHANGED <<held, seen, state, outcome, log>>
        /\ pc \notin {"after", "ended"} /\ pc' \notin {"after", "ended"}
    BY <1>4 DEF AskRouter, DispatchAllowed, Pass, StartCallable, CallNow, MarkerWritten,
       NodeReturns,
       AskJoin, Joinable, RegionSettled, Join, AtField, SkipField, StartReducer, ReducerReturns,
       OfferRegion, Offer, Dispatch, rest, runVars, histVars
  <2>. QED
    BY <2>1 DEF PublicationInv, Observed, PublishedIsObserved, OtherStep, Showing, Idle
<1>5. CASE FoldField
  <2>1. Idle /\ pc \notin {"after", "ended"}
    BY <1>5 DEF FoldField, AtField
  <2>2. CASE Refused(Folded(field))
    BY <1>5, <2>1, <2>2, RaiseOther DEF FoldField, Ending
  <2>3. CASE ~Refused(Folded(field))
    BY <1>5, <2>1, <2>3 DEF FoldField, AtField, PublicationInv, Observed, PublishedIsObserved,
       OtherStep,
       Showing, Idle, runVars, histVars
  <2>. QED BY <2>2, <2>3
<1>6. CASE EnterNode
  BY <1>6 DEF EnterNode, Visited, Dispatch, Yield, OtherStep, Showing, PublicationInv, Observed,
     PublishedIsObserved
<1>7. CASE EnterRegion
  <2>1. Edge.branches \in Seq(Node)
    BY EdgeTyped DEF PublicationInv
  <2>2. \A i \in DOMAIN held' : held'[i] # "node.end"
    BY <1>7, <2>1 DEF EnterRegion, Yield
  <2>. QED
    BY <1>7, <2>2 DEF EnterRegion, AtRegion, Snapshot, BeforeRegion, Visited, Dispatch, Yield,
       OtherStep,
       Showing, PublicationInv, Observed, PublishedIsObserved, runVars
<1>. QED BY <1>1, <1>2, <1>3, <1>4, <1>5, <1>6, <1>7 DEF Scheduler

\* Publication: with after_commit to come, or shown at once.
LEMMA CommitObserved ==
  ASSUME PublicationInv, CommitAllowed
  PROVE  Observed'
<1>1. pc = "commit" /\ Idle /\ state' = Published /\ outcome' = outcome
  BY DEF CommitAllowed, At, Reached
<1>2. "fields" \in DOMAIN Published
  BY DEF PublicationInv, Observed, Published, Snapshot, BeforeRegion, Visited
<1>3. CASE gate.settle
  BY <1>1, <1>2, <1>3 DEF CommitAllowed, PublicationInv, Observed, PublishedIsObserved, Idle
<1>4. CASE ~gate.settle
  <2>1. seen' = Published /\ pc' \in {"edge", "then"}
    BY <1>4 DEF CommitAllowed, Show, Yield, Onward
  <2>. QED BY <1>1, <1>2, <2>1 DEF PublicationInv, Observed, PublishedIsObserved
<1>. QED BY <1>3, <1>4

LEMMA SettlementObserved ==
  ASSUME PublicationInv, SettlementReturns \/ SettlementFails
  PROVE  Observed'
<1>1. /\ pc = "after" /\ seen' = state /\ state' = state /\ outcome' = outcome
      /\ pc' \in {"edge", "then", "raise"}
  BY DEF SettlementReturns, SettlementFails, Settlement, At, Reached, Show, Yield, Onward
<1>. QED BY <1>1 DEF PublicationInv, Observed, PublishedIsObserved

LEMMA AroundObserved ==
  ASSUME PublicationInv, Branch \/ ConsumerPulls \/ Environment \/ UNCHANGED vars
  PROVE  Observed'
<1>1. CASE Branch \/ StopWhileHeld \/ SharedWrite \/ CancelRegion \/ UNCHANGED vars
  <2>1. UNCHANGED <<held, seen, state, outcome>> /\ (pc' = pc \/ (pc = "settle" /\ pc' = "reap"))
    BY <1>1 DEF Branch, StopWhileHeld, SharedWrite, CancelRegion, vars, rest, runVars, At, Reached
  <2>. QED BY <2>1 DEF PublicationInv, Observed, PublishedIsObserved, Showing, Idle
<1>2. CASE Cancel
  BY <1>2 DEF Cancel, Raise, At, Reached, runVars, PublicationInv, Observed, PublishedIsObserved,
     Showing, Idle
<1>3. CASE ConsumerPulls
  <2>1. held \in Seq(EventKind) /\ held # <<>>
    BY <1>3 DEF ConsumerPulls, Idle, PublicationInv, TypeOK
  <2>2. Showing' => Showing
    BY <1>3, <2>1, HeadTailProperties DEF ConsumerPulls, Showing
  <2>. QED BY <1>3, <2>2 DEF ConsumerPulls, runVars, PublicationInv, Observed,
              PublishedIsObserved, Idle
<1>4. CASE ConsumerCloses
  BY <1>4 DEF ConsumerCloses, runVars, PublicationInv, Observed, PublishedIsObserved, Showing,
     Idle
<1>. QED BY <1>1, <1>2, <1>3, <1>4 DEF Environment

\* What a region admits stays until its commit.
LEMMA SchedulerAdmits ==
  ASSUME PublicationInv, Scheduler
  PROVE  RegionAdmits'
<1>. USE DEF At, Reached, RegionAdmits, InRegion
<1>1. CASE \/ Exhaust \/ GateRefuses \/ GateFails \/ CallableFails \/ RaiseSettlement
           \/ RegionExhausts \/ RegionUnknown \/ RegionCancelled \/ RegionInadmissible
           \/ RegionUnmarked \/ JoinRefuses \/ FoldFails \/ LeaveGroup
           \/ Finish \/ GateStops \/ NodeInterrupts \/ RegionStopped \/ RegionInterrupted
           \/ FollowStatic \/ RouterReturns \/ SettlementReturns \/ SettlementFails
  <2>1. pc' \in {"ended", "loop", "edge", "then", "raise"}
    BY <1>1 DEF Exhaust, GateRefuses, GateFails, CallableFails, RaiseSettlement, RegionExhausts,
       RegionUnknown, RegionCancelled, RegionInadmissible, RegionUnmarked, JoinRefuses, FoldFails,
       LeaveGroup, Finish, GateStops, NodeInterrupts, RegionStopped, RegionInterrupted,
       FollowStatic,
       RouterReturns, Resolve, Select, SettlementReturns, SettlementFails, Settlement, Show,
       Onward,
       Raise, Terminate
  <2>. QED BY <2>1
<1>2. CASE AskRouter \/ EnterNode \/ NodeReturns \/ EnterRegion \/ AskJoin
  BY <1>2 DEF AskRouter, EnterNode, NodeReturns, Offer, EnterRegion, AskJoin, Dispatch,
     RouterRequest,
     NodeRequest, RegionRequest, Request
<1>3. CASE Join
  BY <1>3 DEF Join, Dispatch
<1>4. CASE DispatchAllowed
  <2>1. UNCHANGED <<req, admitted>> /\ pc = "ask"
    BY <1>4 DEF DispatchAllowed, rest, foldVars
  <2>2. \/ pc' \in {"settle", "mark", "call"}
        \/ pc' = "fold" /\ req.boundary = "reducer"
    BY <1>4 DEF DispatchAllowed, Pass, StartCallable, CallNow
  <2>. QED BY <2>1, <2>2 DEF PublicationInv
<1>5. CASE MarkerWritten \/ SkipField \/ StartReducer \/ ReducerReturns \/ OfferRegion \/ FoldField
  BY <1>5 DEF MarkerWritten, CallNow, AtField, SkipField, StartReducer, ReducerReturns,
     OfferRegion, Offer,
     FoldField, Raise, Keep, rest, foldVars, PublicationInv
<1>6. CASE CommitAllowed
  BY <1>6 DEF CommitAllowed, Show, Onward, foldVars, PublicationInv
<1>. QED BY <1>1, <1>2, <1>3, <1>4, <1>5, <1>6 DEF Scheduler

LEMMA AroundAdmits ==
  ASSUME PublicationInv, Branch \/ ConsumerPulls \/ Environment \/ UNCHANGED vars
  PROVE  RegionAdmits'
<1>1. UNCHANGED <<req, admitted>> /\ pc' \in {pc, "ended", "reap"}
  BY DEF Branch, ConsumerPulls, Environment, ConsumerCloses, StopWhileHeld, SharedWrite, Cancel,
     Raise,
     CancelRegion, vars, rest, foldVars
<1>. QED BY <1>1 DEF PublicationInv, RegionAdmits, InRegion

LEMMA PublicationInvInductive ==
  ASSUME PublicationInv, [Next]_vars
  PROVE  PublicationInv'
<1>1. TypeOK'
  BY NextTyped DEF PublicationInv
<1>2. RegionAdmits'
  BY SchedulerAdmits, AroundAdmits DEF Next, Ended
<1>3. ASSUME Scheduler, ~CommitAllowed, ~SettlementReturns, ~SettlementFails
      PROVE  Observed'
  BY <1>3, SchedulerOther DEF OtherStep, Observed, PublishedIsObserved
<1>4. Observed'
  BY <1>3, CommitObserved, SettlementObserved, AroundObserved DEF Next, Ended
<1>. QED BY <1>1, <1>2, <1>4 DEF PublicationInv

LEMMA PublicationInvInitially ==
  ASSUME Init
  PROVE  PublicationInv
<1>1. RegionAdmits /\ Observed
  BY DEF Init, FreshState, RegionAdmits, InRegion, Observed, PublishedIsObserved, Showing, Idle
<1>. QED BY <1>1, InitTyped DEF PublicationInv

\* However the settlement hook ends and wherever the run is cancelled or
\* closed, every published field has been observed.
THEOREM PublicationsAreObserved == Spec => []PublishedIsObserved
<1>1. PublicationInv => PublishedIsObserved
  BY DEF PublicationInv, Observed
<1>. QED BY <1>1, PublicationInvInitially, PublicationInvInductive, PTL DEF Spec

-----------------------------------------------------------------------------
(* How the branches of a region ended, until it is published.              *)

\* What the parts below build on.
GroundInv == PublicationInv /\ BudgetInv

\* All branches have ended, and only a join and a fold are left to do.
Judged ==
  \/ pc = "fold"
  \/ pc \in {"ask", "mark", "call"} /\ req.boundary \in {"join", "reducer"}
  \/ pc = "commit" /\ req.boundary = "region"

\* Inside the task group.
InGroup == pc \in {"settle", "reap"}

\* A branch of a launched region has an outcome when its task is done; past
\* the join there are only successes and failures; an uncertain start marker
\* is never left behind.
ResultsKept ==
  /\ InGroup => \A b \in Names(Edge.branches) : bpc[b] # "idle"
  /\ \A b \in Node : bpc[b] = "done" => result[b] # "none"
  /\ Judged => \A b \in Names(Edge.branches) : result[b] \in {"ok", "error"}
  /\ ~InGroup /\ outcome \in {"running", "stopped", "interrupted", "done"} => Unmarked = {}

\* A run that is cut short claims nothing.
LEMMA ResultsRaise ==
  ASSUME ResultsKept, NEW how \in {"refused", "failed", "cancelled", "exhausted", "unsettled"}, Raise(how)
  PROVE  ResultsKept'
BY DEF ResultsKept, Raise, Judged, InGroup, peers, branchVars

\* Outside the task group outcomes stay.
LEMMA ResultsStill ==
  ASSUME GroundInv, ResultsKept, ~InGroup, pc # "ended", UNCHANGED <<bpc, result, graph>>,
         pc' \notin {"settle", "reap"}, Judged' => Judged /\ node' = node
  PROVE  ResultsKept'
<1>1. outcome = "running" /\ Unmarked = {}
  BY DEF GroundInv, PublicationInv, Observed, ResultsKept
<1>2. Unmarked' = {} /\ (node' = node => Names(Edge.branches)' = Names(Edge.branches))
  BY <1>1 DEF Unmarked, With, Names, Edge
<1>. QED BY <1>2 DEF ResultsKept, InGroup

\* The checks of a settled region leave the join only these outcomes.
LEMMA ResultsJoined ==
  ASSUME GroundInv, ResultsKept, Joinable, UNCHANGED <<bpc, result, graph, node>>, pc' = "ask"
  PROVE  ResultsKept'
<1>1. \A b \in Names(Edge.branches) : result[b] \in {"ok", "error"}
  <2>1. /\ InGroup /\ AllDone /\ Names(Edge.branches) \subseteq Node
        /\ result \in [Node -> Outcome \cup {"none"}] /\ bpc \in [Node -> BranchPc]
    BY EdgeTyped DEF GroundInv, BudgetInv, TypeOK, BranchTypeOK, Joinable, RegionSettled, At,
       Reached, InGroup
  <2>2. \A b \in Names(Edge.branches) : bpc[b] = "done" /\ result[b] # "none"
    BY <2>1 DEF ResultsKept, AllDone
  <2>3. \A b \in Node : result[b] \notin {"cancelled", "refused", "gatefailed", "markrefused",
                                          "markfailed", "stopped", "interrupt"}
    BY DEF Joinable, Uncontrolled, NoFailures, Inadmissible, Unmarked, With
  <2>. QED BY <2>1, <2>2, <2>3 DEF Outcome
<1>2. Unmarked = {}
  BY DEF Joinable, Uncontrolled, NoFailures
<1>3. Unmarked' = {} /\ Names(Edge.branches)' = Names(Edge.branches)
  BY <1>2 DEF Unmarked, With, Names, Edge
<1>. QED BY <1>1, <1>3 DEF ResultsKept, InGroup

LEMMA ResultsScheduler ==
  ASSUME GroundInv, ResultsKept, Scheduler
  PROVE  ResultsKept'
<1>. USE DEF At, Reached
<1>1. CASE \/ Exhaust \/ GateRefuses \/ GateFails \/ CallableFails \/ RaiseSettlement
           \/ RegionExhausts \/ RegionUnknown \/ RegionCancelled \/ RegionInadmissible
           \/ RegionUnmarked \/ JoinRefuses \/ FoldFails \/ LeaveGroup
  <2>1. \E how \in {"refused", "failed", "cancelled", "exhausted", "unsettled"} : Raise(how)
    BY <1>1 DEF Exhaust, GateRefuses, GateFails, CallableFails, RaiseSettlement,
       RegionExhausts, RegionUnknown, RegionCancelled, RegionInadmissible,
       RegionUnmarked, JoinRefuses, FoldFails, LeaveGroup
  <2>. QED BY <2>1, ResultsRaise
<1>2. CASE Finish \/ GateStops \/ NodeInterrupts
  BY <1>2, ResultsStill DEF Finish, GateStops, NodeInterrupts, Terminate, InGroup, Judged, peers,
     branchVars
<1>3. CASE RegionStopped \/ RegionInterrupted
  <2>1. /\ NoFailures /\ pc' = "ended" /\ UNCHANGED <<bpc, result>>
    BY <1>3 DEF RegionStopped, RegionInterrupted, Uncontrolled, Terminate, peers, branchVars
  <2>2. Unmarked' = {}
    BY <2>1 DEF NoFailures, Unmarked, With
  <2>. QED BY <2>1, <2>2 DEF ResultsKept, InGroup, Judged
<1>4. CASE FollowStatic \/ RouterReturns
  <2>1. \/ \E t : Select(t)
        \/ Raise("failed")
    BY <1>4 DEF FollowStatic, RouterReturns, Resolve
  <2>2. ~InGroup /\ pc # "ended"
    BY <1>4 DEF FollowStatic, RouterReturns, InGroup
  <2>. QED BY <2>1, <2>2, ResultsRaise, ResultsStill DEF Select, Judged, peers, branchVars
<1>5. CASE AskJoin \/ Join
  <2>1. CASE Joinable
    BY <1>5, <2>1, ResultsJoined DEF AskJoin, Join, Dispatch, rest, runVars, peers, branchVars
  <2>2. CASE ~Joinable
    BY <1>5, <2>2, ResultsStill DEF AskJoin, Join, Dispatch, RegionRequest, Request, runVars,
       peers, branchVars,
       InGroup, Judged
  <2>. QED BY <2>1, <2>2
<1>6. CASE DispatchAllowed
  <2>1. pc = "ask" /\ UNCHANGED <<req, outcome, graph, node>>
    BY <1>6 DEF DispatchAllowed, rest, runVars
  <2>2. CASE req.boundary = "fanout"
    <3>1. pc' = "settle" /\ Launch(Edge.branches)
      BY <1>6, <2>2 DEF DispatchAllowed, Pass
    <3>2. Names(Edge.branches) \subseteq Node /\ Names(Edge.branches)' = Names(Edge.branches)
      BY <2>1, EdgeTyped DEF GroundInv, BudgetInv, Names, Edge
    <3>. QED BY <3>1, <3>2 DEF ResultsKept, Launch, InGroup, Judged
  <2>3. CASE req.boundary # "fanout"
    BY <1>6, <2>1, <2>3, ResultsStill DEF DispatchAllowed, Pass, StartCallable, CallNow,
       branchVars, InGroup,
       Judged
  <2>. QED BY <2>2, <2>3
<1>7. CASE AskRouter \/ EnterNode \/ NodeReturns \/ EnterRegion
  BY <1>7, ResultsStill DEF AskRouter, EnterNode, NodeReturns, EnterRegion, AtRegion, Offer,
     Dispatch,
     RouterRequest, NodeRequest, RegionRequest, Request, rest, peers, branchVars, InGroup, Judged
<1>8. CASE MarkerWritten \/ SkipField \/ StartReducer \/ ReducerReturns \/ OfferRegion
  BY <1>8, ResultsStill DEF MarkerWritten, CallNow, AtField, SkipField, StartReducer,
     ReducerReturns,
     OfferRegion, Offer, RegionRequest, Request, rest, runVars, peers, branchVars, InGroup, Judged
<1>9. CASE FoldField
  BY <1>9, ResultsStill, ResultsRaise DEF FoldField, AtField, runVars, peers, branchVars,
     InGroup, Judged
<1>10. CASE CommitAllowed \/ SettlementReturns \/ SettlementFails
  <2>1. pc' \in {"after", "edge", "then", "raise"} /\ UNCHANGED <<bpc, result, graph>> /\ pc \in {"commit", "after"}
    BY <1>10 DEF CommitAllowed, SettlementReturns, SettlementFails, Settlement, Show, Onward,
       peers, branchVars
  <2>. QED BY <2>1, ResultsStill DEF InGroup, Judged
<1>. QED BY <1>1, <1>2, <1>3, <1>4, <1>5, <1>6, <1>7, <1>8, <1>9, <1>10 DEF Scheduler

LEMMA ResultsBranch ==
  ASSUME GroundInv, ResultsKept, Branch
  PROVE  ResultsKept'
<1>1. PICK b \in Names(Edge.branches) :
        BranchBegins(b, BranchRequest(b)) \/ BranchStep(b, BranchRequest(b))
  BY DEF Branch
<1>2. /\ InGroup /\ InGroup' /\ UNCHANGED <<pc, graph, node>> /\ b \in Node
      /\ bpc \in [Node -> BranchPc] /\ result \in [Node -> Outcome \cup {"none"}]
  BY <1>1, EdgeTyped DEF Branch, At, Reached, rest, runVars, InGroup, GroundInv, BudgetInv,
     TypeOK, BranchTypeOK
<1>3. \/ \E place \in {"run", "mark"} : MoveTo(b, place)
      \/ \E how \in Outcome : Settle(b, how)
  BY <1>1 DEF BranchBegins, BranchStep, BranchAllowed, BranchDenied, BranchMarked,
     BranchMarkFails,
     BranchReturns, BranchCancelled, Outcome
<1>4. \A n \in Node : (bpc[n] # "idle" => bpc'[n] # "idle") /\ (bpc'[n] = "done" => result'[n] # "none")
  BY <1>2, <1>3 DEF ResultsKept, MoveTo, Settle, Outcome
<1>5. Names(Edge.branches) \subseteq Node /\ Names(Edge.branches)' = Names(Edge.branches)
  BY <1>2, EdgeTyped DEF GroundInv, BudgetInv, Names, Edge
<1>. QED BY <1>2, <1>4, <1>5 DEF ResultsKept, InGroup, Judged

LEMMA ResultsInductive ==
  ASSUME GroundInv, ResultsKept, [Next]_vars
  PROVE  ResultsKept'
<1>1. CASE Cancel
  BY <1>1, ResultsRaise DEF Cancel
<1>2. CASE ConsumerCloses
  <2>. UNCHANGED <<bpc, result>> /\ pc' = "ended" /\ outcome' = "closed"
    BY <1>2 DEF ConsumerCloses, peers, branchVars
  <2>. QED BY DEF ResultsKept, InGroup, Judged
<1>3. CASE ConsumerPulls \/ StopWhileHeld \/ SharedWrite \/ CancelRegion \/ UNCHANGED vars
  <2>1. /\ UNCHANGED <<req, graph, node, result, bpc, outcome>>
        /\ pc' = pc \/ (pc = "settle" /\ pc' = "reap")
    BY <1>3 DEF ConsumerPulls, StopWhileHeld, SharedWrite, CancelRegion, At, Reached,
       vars, rest, runVars, peers, branchVars
  <2>2. Names(Edge.branches)' = Names(Edge.branches) /\ Unmarked' = Unmarked
    BY <2>1 DEF Names, Edge, Unmarked, With
  <2>. QED BY <2>1, <2>2 DEF ResultsKept, InGroup, Judged
<1>. QED BY <1>1, <1>2, <1>3, ResultsScheduler, ResultsBranch DEF Next, Environment, Ended

-----------------------------------------------------------------------------
(* What a run reports to have visited.                                     *)

\* Announced, and not in the state before the region is published.
Ahead == AcrossRegion /\ pc # "after"

\* The state, with the branches announced and not yet in it, has visited
\* what was announced.
VisitsKept ==
  /\ "visited" \in DOMAIN state
  /\ outcome = "running" =>
       entered = IF Ahead THEN state.visited \o Edge.branches ELSE state.visited
  /\ outcome \in {"done", "interrupted"} => seen.visited = entered

LEMMA VisitsRaise ==
  ASSUME VisitsKept, NEW how \in {"refused", "failed", "cancelled", "exhausted", "unsettled"}, Raise(how)
  PROVE  VisitsKept'
BY DEF VisitsKept, Raise, runVars, histVars

\* What neither announces nor publishes.
LEMMA VisitsStill ==
  ASSUME GroundInv, VisitsKept, pc # "ended", UNCHANGED <<state, entered, outcome>>, Ahead' <=> Ahead,
         Ahead => UNCHANGED <<graph, node>>
  PROVE  VisitsKept'
<1>1. outcome = "running"
  BY DEF GroundInv, PublicationInv, Observed
<1>. QED BY <1>1 DEF VisitsKept, Edge

\* Publication takes the branches into the state, and observations follow.
LEMMA VisitsShown ==
  ASSUME GroundInv, VisitsKept, CommitAllowed \/ SettlementReturns \/ SettlementFails
  PROVE  VisitsKept'
<1>1. outcome' = outcome /\ entered' = entered /\ pc \in {"commit", "after"} /\ outcome = "running"
  BY DEF CommitAllowed, SettlementReturns, SettlementFails, Settlement, At, Reached, histVars,
     GroundInv, PublicationInv, Observed
<1>2. ~Ahead'
  BY DEF CommitAllowed, SettlementReturns, SettlementFails, Settlement, At, Reached, Show, Onward,
     Ahead, AcrossRegion, Carrying
<1>3. CASE SettlementReturns \/ SettlementFails
  BY <1>1, <1>2, <1>3 DEF SettlementReturns, SettlementFails, Settlement, At, Reached, Ahead,
     VisitsKept
<1>4. CASE CommitAllowed
  <2>1. pc = "commit" /\ state' = Published
    BY <1>4 DEF CommitAllowed, At, Reached
  <2>2. InRegion <=> Ahead
    BY <2>1 DEF GroundInv, BudgetInv, BudgetCarried, TypeOK, InRegion, Ahead, AtNode,
       AcrossRegion, Carrying, RegionBoundary
  <2>3. "visited" \in DOMAIN Published
        /\ Published.visited = IF InRegion THEN state.visited \o Edge.branches ELSE state.visited
    BY DEF VisitsKept, Published, Snapshot, BeforeRegion, Visited
  <2>. QED BY <1>1, <1>2, <2>1, <2>2, <2>3 DEF VisitsKept
<1>. QED BY <1>3, <1>4

LEMMA VisitsScheduler ==
  ASSUME GroundInv, VisitsKept, Scheduler
  PROVE  VisitsKept'
<1>. USE DEF At, Reached
<1>1. CASE \/ Exhaust \/ GateRefuses \/ GateFails \/ CallableFails \/ RaiseSettlement
           \/ RegionExhausts \/ RegionUnknown \/ RegionCancelled \/ RegionInadmissible
           \/ RegionUnmarked \/ JoinRefuses \/ FoldFails \/ LeaveGroup
  <2>1. \E how \in {"refused", "failed", "cancelled", "exhausted", "unsettled"} : Raise(how)
    BY <1>1 DEF Exhaust, GateRefuses, GateFails, CallableFails, RaiseSettlement,
       RegionExhausts, RegionUnknown, RegionCancelled, RegionInadmissible,
       RegionUnmarked, JoinRefuses, FoldFails, LeaveGroup
  <2>. QED BY <2>1, VisitsRaise
<1>2. CASE Finish \/ NodeInterrupts \/ RegionInterrupted
  <2>1. entered' = entered /\ pc' = "ended" /\ outcome = "running" /\ outcome' \in {"done", "interrupted"}
        /\ seen' = state'
    BY <1>2 DEF Finish, NodeInterrupts, RegionInterrupted, RegionSettled, Terminate, Yield,
       histVars,
       GroundInv, PublicationInv, Observed
  <2>2. CASE Finish \/ NodeInterrupts
    <3>1. ~Ahead
      BY <2>2 DEF Finish, NodeInterrupts, Ahead, AcrossRegion, Carrying, RegionBoundary
    <3>2. "visited" \in DOMAIN state' /\ state'.visited = state.visited
      BY <2>2 DEF Finish, NodeInterrupts, Terminate, Halted, VisitsKept
    <3>. QED BY <2>1, <3>1, <3>2 DEF VisitsKept
  <2>3. CASE RegionInterrupted
    <3>1. Ahead
      BY <2>3 DEF RegionInterrupted, RegionSettled, Ahead, AcrossRegion
    <3>2. PICK n \in Node : state' = Halted(Snapshot, "interrupted", n)
      BY <2>3 DEF RegionInterrupted, Terminate, With
    <3>3. "visited" \in DOMAIN state' /\ state'.visited = state.visited \o Edge.branches
      BY <3>2 DEF Halted, Snapshot, BeforeRegion, Visited, VisitsKept
    <3>. QED BY <2>1, <3>1, <3>3 DEF VisitsKept
  <2>. QED BY <1>2, <2>2, <2>3
<1>3. CASE GateStops \/ RegionStopped
  <2>1. outcome' = "stopped" /\ \E n : state' = Halted(state, "stopped", n)
    BY <1>3 DEF GateStops, RegionStopped, BeforeRegion, Terminate
  <2>. QED BY <2>1 DEF Halted, VisitsKept
<1>4. CASE FollowStatic \/ RouterReturns
  <2>1. \/ \E t : Select(t)
        \/ Raise("failed")
    BY <1>4 DEF FollowStatic, RouterReturns, Resolve
  <2>2. pc # "ended" /\ ~Ahead
    BY <1>4 DEF FollowStatic, RouterReturns, Ahead, AcrossRegion, Carrying, RegionBoundary
  <2>. QED BY <2>1, <2>2, VisitsRaise, VisitsStill DEF Select, histVars, Ahead, AcrossRegion,
              Carrying
<1>5. CASE EnterNode
  <2>1. /\ "visited" \in DOMAIN state' /\ state'.visited = state.visited \o <<target>>
        /\ entered' = Append(entered, target) /\ outcome' = outcome /\ outcome = "running"
    BY <1>5 DEF EnterNode, Visited, VisitsKept, GroundInv, PublicationInv, Observed
  <2>2. ~Ahead /\ ~Ahead'
    BY <1>5 DEF EnterNode, Dispatch, NodeRequest, Request, Ahead, AcrossRegion, Carrying,
       RegionBoundary
  <2>3. entered \in Seq(Node) /\ target \in Node
    BY <1>5 DEF EnterNode, LoopsOn, GroundInv, PublicationInv, TypeOK
  <2>4. entered' = entered \o <<target>>
    BY <2>1, <2>3
  <2>. QED BY <2>1, <2>2, <2>4 DEF VisitsKept
<1>6. CASE EnterRegion
  <2>1. /\ UNCHANGED <<state, graph, node>> /\ pc' = "ask" /\ req'.boundary = "fanout"
        /\ entered' = entered \o Edge.branches /\ outcome' = outcome /\ outcome = "running"
    BY <1>6 DEF EnterRegion, AtRegion, Dispatch, RegionRequest, Request, runVars, GroundInv,
       PublicationInv, Observed
  <2>2. ~Ahead /\ Ahead' /\ Edge' = Edge
    BY <1>6, <2>1 DEF EnterRegion, AtRegion, Ahead, AcrossRegion, Carrying, RegionBoundary, Edge
  <2>. QED BY <2>1, <2>2 DEF VisitsKept
<1>7. CASE AskRouter \/ NodeReturns
  BY <1>7, VisitsStill DEF AskRouter, NodeReturns, Offer, Dispatch, NodeRequest, RouterRequest,
     Request, rest,
     runVars, histVars, Ahead, AcrossRegion, Carrying, RegionBoundary
<1>8. CASE \/ AskJoin \/ Join \/ SkipField \/ StartReducer \/ ReducerReturns \/ OfferRegion
  BY <1>8, VisitsStill DEF AskJoin, Join, Joinable, RegionSettled, SkipField, AtField,
     StartReducer, ReducerReturns, OfferRegion, Offer,
     Dispatch, RegionRequest, Request, rest, runVars, histVars, Ahead, AcrossRegion, Carrying,
     RegionBoundary
<1>9. CASE FoldField
  BY <1>9, VisitsStill, VisitsRaise DEF FoldField, AtField, runVars, histVars, Ahead, AcrossRegion
<1>10. CASE MarkerWritten
  BY <1>10, VisitsStill DEF MarkerWritten, CallNow, rest, runVars, histVars, Ahead, AcrossRegion,
     Carrying
<1>11. CASE DispatchAllowed
  <2>1. pc = "ask" /\ UNCHANGED <<req, outcome, graph, node, state, entered>>
    BY <1>11 DEF DispatchAllowed, rest, runVars, histVars
  <2>2. \/ req.boundary = "fanout" /\ pc' = "settle"
        \/ req.boundary = "reducer" /\ pc' = "fold"
        \/ req.boundary # "fanout" /\ pc' \in {"mark", "call"}
    BY <1>11 DEF DispatchAllowed, Pass, StartCallable, CallNow
  <2>. QED BY <2>1, <2>2, VisitsStill DEF Ahead, AcrossRegion, Carrying, RegionBoundary
<1>12. CASE CommitAllowed \/ SettlementReturns \/ SettlementFails
  BY <1>12, VisitsShown
<1>. QED BY <1>1, <1>2, <1>3, <1>4, <1>5, <1>6, <1>7, <1>8, <1>9, <1>10, <1>11, <1>12
            DEF Scheduler

LEMMA VisitsInductive ==
  ASSUME GroundInv, VisitsKept, [Next]_vars
  PROVE  VisitsKept'
<1>1. CASE Cancel
  BY <1>1, VisitsRaise DEF Cancel
<1>2. CASE ConsumerCloses
  BY <1>2 DEF ConsumerCloses, runVars, histVars, VisitsKept
<1>3. CASE Branch \/ ConsumerPulls \/ StopWhileHeld \/ SharedWrite \/ CancelRegion \/ UNCHANGED vars
  <2>1. /\ UNCHANGED <<req, graph, node, state, seen, entered, outcome>>
        /\ pc' = pc \/ (pc = "settle" /\ pc' = "reap")
    BY <1>3 DEF Branch, ConsumerPulls, StopWhileHeld, SharedWrite, CancelRegion, At, Reached,
       vars, rest, runVars, histVars
  <2>. QED BY <2>1 DEF VisitsKept, Ahead, AcrossRegion, Carrying, Edge
<1>. QED BY <1>1, <1>2, <1>3, VisitsScheduler DEF Next, Environment, Ended

EndInv == GroundInv /\ ResultsKept /\ VisitsKept

LEMMA EndInvInitially ==
  ASSUME Init
  PROVE  EndInv
<1>1. ResultsKept
  BY DEF Init, BranchInit, ResultsKept, Judged, InGroup, Unmarked, With
<1>2. VisitsKept
  BY DEF Init, FreshState, VisitsKept, Ahead, AcrossRegion, Carrying
<1>. QED BY <1>1, <1>2, PublicationInvInitially, BudgetInitially DEF EndInv, GroundInv

LEMMA EndInvInductive ==
  ASSUME EndInv, [Next]_vars
  PROVE  EndInv'
BY PublicationInvInductive, BudgetInductive, ResultsInductive, VisitsInductive DEF EndInv,
   GroundInv

\* A run that ends by itself reports exactly the nodes it announced, and no
\* stop, interrupt or end hides a start marker that failed.
THEOREM RunsEndTruthfully == Spec => []EndsTruthfully
<1>1. EndInv => EndsTruthfully
  BY DEF EndInv, ResultsKept, InGroup, VisitsKept, GroundInv, PublicationInv, Observed, Unmarked,
     EndsTruthfully, VisitsAreAnnounced, MarkerFailureSurfaces
<1>. QED BY <1>1, EndInvInitially, EndInvInductive, PTL DEF Spec

-----------------------------------------------------------------------------
(* The fold of a region, and what becomes of its delta.                    *)

\* The fields before f, each folded.
FoldedBefore(f) == [g \in {h \in Field : h < f /\ Writers(h) # <<>>} |-> Folded(g)]

Reducing == pc \in {"ask", "mark", "call"} /\ req.boundary = "reducer"
Folding == pc = "fold" \/ Reducing

\* While the fold is under way the delta holds the fields before the one it
\* is at, and at the commit of the region all of them.
FoldKept ==
  /\ Folding => field > 0 /\ delta = NewDelta(FoldedBefore(field))
  /\ Reducing /\ pc # "ask" => req.key # 0
  /\ Reducing /\ req.key # 0 => field \in Field /\ Writers(field) # <<>>
  /\ pc = "commit" /\ req.boundary = "region" =>
       req.nodes = admitted /\ delta.content = FoldedBefore(NFields + 1)

\* Read at publication, a delta is what the gate was shown.
DeltaKept ==
  /\ DOMAIN delta = {"content", "shared", "changed"}
  /\ pc = "commit" => IF gate.present THEN ~delta.shared ELSE ~delta.changed

\* What was published so far.
PublishedKept == (\E S : log \in Seq(S)) /\ PublishedWasApproved

FoldInv == FoldKept /\ DeltaKept

LEMMA FoldRaise ==
  ASSUME FoldInv, NEW how, Raise(how)
  PROVE  FoldInv'
BY DEF FoldInv, FoldKept, DeltaKept, Folding, Reducing, Raise

\* Away from a fold and from a commit.
LEMMA FoldAway ==
  ASSUME FoldInv, delta' = delta, pc' # "commit", ~Folding'
  PROVE  FoldInv'
BY DEF FoldInv, FoldKept, DeltaKept, Folding, Reducing

\* Who wrote a field, and to what it folds, is settled when the join is.
LEMMA WritersStay ==
  ASSUME UNCHANGED <<graph, node, state, admitted>>
  PROVE  /\ \A f \in Field : Writers(f)' = Writers(f) /\ Folded(f)' = Folded(f)
         /\ \A f : FoldedBefore(f)' = FoldedBefore(f)
<1>1. \A f \in Field : Writers(f)' = Writers(f)
  BY DEF Writers, Settled, Edge
<1>2. \A f \in Field : Folded(f)' = Folded(f)
  BY <1>1 DEF Folded, Contributions
<1>3. ASSUME NEW f
      PROVE  FoldedBefore(f)' = FoldedBefore(f)
  <2>1. {h \in Field : h < f /\ Writers(h)' # <<>>} = {h \in Field : h < f /\ Writers(h) # <<>>}
    BY <1>1
  <2>. QED BY <2>1, <1>2 DEF FoldedBefore
<1>. QED BY <1>1, <1>2, <1>3

\* The steps that neither fold a field nor publish.
LEMMA FoldStill ==
  ASSUME FoldInv, UNCHANGED <<graph, gate, node, state, admitted, field, req>>,
         delta' = delta, pc' # "commit", Folding' => Folding,
         Reducing' => Reducing, Reducing' /\ pc' # "ask" => req.key # 0
  PROVE  FoldInv'
<1>1. /\ \A f \in Field : Writers(f)' = Writers(f)
      /\ \A f : FoldedBefore(f)' = FoldedBefore(f)
  BY WritersStay
<1>2. Folding' => NewDelta(FoldedBefore(field))' = NewDelta(FoldedBefore(field))
  BY <1>1 DEF NewDelta
<1>3. DeltaKept'
  BY DEF FoldInv, DeltaKept
<1>4. Folding' => field' > 0 /\ delta' = NewDelta(FoldedBefore(field))'
  BY <1>2 DEF FoldInv, FoldKept
<1>5. Reducing' /\ req'.key # 0 => field' \in Field /\ Writers(field)' # <<>>
  <2>1. ASSUME Reducing', req'.key # 0
        PROVE  field \in Field /\ Writers(field) # <<>>
    BY <2>1 DEF FoldInv, FoldKept, Folding, Reducing
  <2>. QED BY <2>1, <1>1
<1>. QED BY <1>3, <1>4, <1>5 DEF FoldInv, FoldKept, Reducing

\* A field nobody wrote adds nothing.
LEMMA FieldSkipped ==
  ASSUME field \in Field, Writers(field) = <<>>
  PROVE  FoldedBefore(field + 1) = FoldedBefore(field)
<1>1. {h \in Field : h < field + 1 /\ Writers(h) # <<>>} = {h \in Field : h < field /\ Writers(h) # <<>>}
  BY GraphsAssumption DEF Field
<1>. QED BY <1>1 DEF FoldedBefore

\* One that was written adds its fold.
LEMMA FieldFolded ==
  ASSUME field \in Field, Writers(field) # <<>>, DOMAIN delta = {"content", "shared", "changed"},
         delta = NewDelta(FoldedBefore(field))
  PROVE  [g \in DOMAIN delta.content \cup {field} |->
            IF g = field THEN Folded(field) ELSE delta.content[g]] = FoldedBefore(field + 1)
<1>1. delta.content = FoldedBefore(field)
  BY DEF NewDelta
<1>2. {h \in Field : h < field + 1 /\ Writers(h) # <<>>}
        = {h \in Field : h < field /\ Writers(h) # <<>>} \cup {field}
  BY GraphsAssumption DEF Field
<1>3. field \notin {h \in Field : h < field /\ Writers(h) # <<>>}
  BY GraphsAssumption DEF Field
<1>4. ASSUME NEW g \in {h \in Field : h < field /\ Writers(h) # <<>>}
      PROVE  g # field /\ FoldedBefore(field)[g] = Folded(g)
  BY <1>3 DEF FoldedBefore
<1>. QED BY <1>1, <1>2, <1>3, <1>4 DEF FoldedBefore

\* A field has been folded.
LEMMA FoldOn ==
  ASSUME FoldInv, Folding, field \in Field, Writers(field) # <<>>, Keep(field, Folded(field)),
         pc' = "fold", UNCHANGED <<graph, node, state, admitted>>
  PROVE  FoldInv'
<1>1. /\ delta = NewDelta(FoldedBefore(field)) /\ DOMAIN delta = {"content", "shared", "changed"}
      /\ field > 0
  BY DEF FoldInv, FoldKept, DeltaKept
<1>2. delta' = NewDelta(FoldedBefore(field + 1)) /\ field' = field + 1
  BY <1>1, FieldFolded DEF Keep
<1>4. \A f : FoldedBefore(f)' = FoldedBefore(f)
  BY WritersStay
<1>5. delta' = NewDelta(FoldedBefore(field)')
  BY <1>2, <1>4
<1>6. field' > 0
  BY <1>1, <1>2, GraphsAssumption DEF Field
<1>7. DOMAIN delta' = {"content", "shared", "changed"}
  BY <1>2 DEF NewDelta
<1>. QED BY <1>5, <1>6, <1>7 DEF FoldInv, FoldKept, DeltaKept, Folding, Reducing, NewDelta

LEMMA FoldScheduler ==
  ASSUME GroundInv, FoldInv, Scheduler
  PROVE  FoldInv'
<1>. USE DEF At, Reached
<1>. field \in Nat /\ NFields \in Nat
  BY GraphsAssumption DEF GroundInv, PublicationInv, TypeOK
<1>1. CASE \/ Exhaust \/ GateRefuses \/ GateFails \/ CallableFails \/ RaiseSettlement
           \/ RegionExhausts \/ RegionUnknown \/ RegionCancelled \/ RegionInadmissible
           \/ RegionUnmarked \/ JoinRefuses \/ FoldFails \/ LeaveGroup
  <2>1. \E how : Raise(how)
    BY <1>1 DEF Exhaust, GateRefuses, GateFails, CallableFails, RaiseSettlement,
       RegionExhausts, RegionUnknown, RegionCancelled, RegionInadmissible,
       RegionUnmarked, JoinRefuses, FoldFails, LeaveGroup
  <2>. QED BY <2>1, FoldRaise
<1>2. CASE FollowStatic \/ RouterReturns
  <2>1. \/ \E t : Select(t)
        \/ Raise("failed")
    BY <1>2 DEF FollowStatic, RouterReturns, Resolve
  <2>. QED BY <2>1, FoldRaise, FoldAway DEF Select, Folding, Reducing
<1>3. CASE \/ Finish \/ GateStops \/ NodeInterrupts \/ RegionStopped \/ RegionInterrupted
  BY <1>3, FoldAway DEF Finish, GateStops, NodeInterrupts, RegionStopped, RegionInterrupted,
     Terminate,
     Folding, Reducing
<1>4. CASE AskRouter \/ EnterNode \/ EnterRegion \/ AskJoin
  BY <1>4, FoldAway DEF AskRouter, EnterNode, EnterRegion, AskJoin, Dispatch, NodeRequest,
     RouterRequest,
     RegionRequest, Request, rest, Folding, Reducing
<1>5. CASE SettlementReturns \/ SettlementFails
  BY <1>5, FoldAway DEF SettlementReturns, SettlementFails, Settlement, Show, Onward, Folding,
     Reducing
<1>6. CASE CommitAllowed
  BY <1>6, FoldAway DEF CommitAllowed, Show, Onward, Folding, Reducing
<1>7. CASE DispatchAllowed
  <2>1. pc = "ask" /\ UNCHANGED <<graph, gate, node, state, admitted, field, req>> /\ delta' = delta
    BY <1>7 DEF DispatchAllowed, rest, runVars, foldVars
  <2>2. \/ req.boundary = "fanout" /\ pc' = "settle"
        \/ req.boundary = "reducer" /\ pc' = "fold"
        \/ ~(req.boundary = "reducer" /\ req.key = 0) /\ pc' \in {"mark", "call"}
    BY <1>7 DEF DispatchAllowed, Pass, StartCallable, CallNow
  <2>. QED BY <2>1, <2>2, FoldStill DEF Folding, Reducing
<1>8. CASE MarkerWritten
  <2>1. pc = "mark" /\ pc' = "call" /\ UNCHANGED <<graph, gate, node, state, admitted, field, req>> /\ delta' = delta
    BY <1>8 DEF MarkerWritten, CallNow, rest, runVars, foldVars
  <2>. QED BY <2>1, FoldStill DEF Folding, Reducing, FoldInv, FoldKept
<1>9. CASE SkipField
  <2>1. /\ Folding /\ field \in Field /\ Writers(field) = <<>> /\ field' = field + 1 /\ delta' = delta
        /\ pc' = "fold" /\ UNCHANGED <<graph, node, state, admitted>>
    BY <1>9 DEF SkipField, AtField, Folding, runVars
  <2>2. \A f : FoldedBefore(f)' = FoldedBefore(f)
    BY <2>1, WritersStay
  <2>3. delta' = NewDelta(FoldedBefore(field)')
    BY <2>1, <2>2, FieldSkipped DEF FoldInv, FoldKept
  <2>. QED BY <2>1, <2>3 DEF FoldInv, FoldKept, DeltaKept, Folding, Reducing, NewDelta
<1>10. CASE FoldField
  <2>1. CASE Refused(Folded(field))
    BY <1>10, <2>1, FoldRaise DEF FoldField
  <2>2. CASE ~Refused(Folded(field))
    BY <1>10, <2>2, FoldOn DEF FoldField, AtField, Folding, runVars
  <2>. QED BY <2>1, <2>2
<1>11. CASE ReducerReturns
  <2>1. Reducing /\ field \in Field /\ Writers(field) # <<>>
    BY <1>11 DEF ReducerReturns, FoldInv, FoldKept, Reducing
  <2>. QED BY <1>11, <2>1, FoldOn DEF ReducerReturns, Folding, runVars
<1>12. CASE StartReducer
  <2>1. /\ Folding /\ field \in Field /\ Writers(field) # <<>> /\ field' = field /\ delta' = delta
        /\ pc' \in {"ask", "call"} /\ UNCHANGED <<graph, node, state, admitted>>
        /\ req'.key = field
    BY <1>12 DEF StartReducer, AtField, Folding, rest, runVars, foldVars, RegionRequest, Request
  <2>2. /\ \A f \in Field : Writers(f)' = Writers(f)
        /\ \A f : FoldedBefore(f)' = FoldedBefore(f)
    BY <2>1, WritersStay
  <2>3. delta' = NewDelta(FoldedBefore(field)') /\ field > 0
    BY <2>1, <2>2 DEF FoldInv, FoldKept
  <2>4. field' \in Field /\ Writers(field)' # <<>>
    BY <2>1, <2>2
  <2>. QED BY <2>1, <2>3, <2>4 DEF FoldInv, FoldKept, DeltaKept, Folding, Reducing, NewDelta
<1>13. CASE Join
  <2>1. /\ pc' = "ask" /\ field' = 1 /\ delta' = NoDelta /\ req'.key = 0
    BY <1>13 DEF Join, Dispatch, RegionRequest, Request
  <2>2. FoldedBefore(1)' = [f \in {} |-> NoValue]
    <3>1. \A h \in Field : ~(h < 1)
      BY DEF Field
    <3>2. {h \in Field : h < 1 /\ Writers(h)' # <<>>} = {}
      BY <3>1
    <3>. QED BY <3>2 DEF FoldedBefore
  <2>3. delta' = NewDelta(FoldedBefore(field)')
    BY <2>1, <2>2 DEF NoDelta
  <2>4. DOMAIN delta' = {"content", "shared", "changed"}
    BY <2>3 DEF NewDelta
  <2>. QED BY <2>1, <2>3, <2>4 DEF FoldInv, FoldKept, DeltaKept, Reducing, NewDelta
<1>14. CASE NodeReturns
  <2>1. /\ pc' = "commit" /\ req'.boundary = "node" /\ gate' = gate
        /\ delta' = Detach(NewDelta(graph.writes[node]))
    BY <1>14 DEF NodeReturns, Offer, NodeRequest, Request, peers, gateVars
  <2>. QED BY <2>1 DEF FoldInv, FoldKept, DeltaKept, Folding, Reducing, Detach, NewDelta
<1>15. CASE OfferRegion
  <2>1. /\ pc = "fold" /\ pc' = "commit" /\ req'.boundary = "region" /\ gate' = gate /\ field \notin Field
        /\ delta' = Detach(delta) /\ UNCHANGED <<graph, node, state, admitted>> /\ req'.nodes = admitted
    BY <1>15 DEF OfferRegion, Offer, RegionRequest, Request, peers, gateVars, runVars, foldVars
  <2>2. delta = NewDelta(FoldedBefore(field)) /\ field > 0
    BY <2>1 DEF FoldInv, FoldKept, Folding
  <2>3. FoldedBefore(field) = FoldedBefore(NFields + 1)
    <3>1. \A h \in Field : h < field /\ h < NFields + 1
      BY <2>1, <2>2 DEF Field
    <3>2. {h \in Field : h < field /\ Writers(h) # <<>>} = {h \in Field : h < NFields + 1 /\ Writers(h) # <<>>}
      BY <3>1
    <3>. QED BY <3>2 DEF FoldedBefore
  <2>4. delta'.content = FoldedBefore(NFields + 1) /\ DOMAIN delta' = {"content", "shared", "changed"}
        /\ delta'.changed = FALSE /\ delta'.shared = ~gate.present
    BY <2>1, <2>2, <2>3 DEF Detach, NewDelta
  <2>5. FoldedBefore(NFields + 1)' = FoldedBefore(NFields + 1)
    BY <2>1, WritersStay
  <2>. QED BY <2>1, <2>4, <2>5 DEF FoldInv, FoldKept, DeltaKept, Folding, Reducing
<1>. QED BY <1>1, <1>2, <1>3, <1>4, <1>5, <1>6, <1>7, <1>8, <1>9, <1>10, <1>11, <1>12, <1>13,
            <1>14, <1>15 DEF Scheduler

LEMMA FoldInductive ==
  ASSUME GroundInv, FoldInv, [Next]_vars
  PROVE  FoldInv'
<1>1. CASE Cancel
  BY <1>1, FoldRaise DEF Cancel
<1>2. CASE ConsumerCloses \/ CancelRegion
  BY <1>2, FoldAway DEF ConsumerCloses, CancelRegion, rest, Folding, Reducing
<1>3. CASE Branch
  BY <1>3, FoldAway DEF Branch, At, Reached, rest, Folding, Reducing
<1>4. CASE ConsumerPulls \/ StopWhileHeld \/ SharedWrite \/ UNCHANGED vars
  <2>1. /\ UNCHANGED <<req, graph, gate, node, state, admitted, field, pc>>
        /\ \/ delta' = delta
           \/ pc = "commit" /\ gate.present /\ delta' = [delta EXCEPT !.changed = TRUE]
    BY <1>4 DEF ConsumerPulls, StopWhileHeld, RecordStop, SharedWrite, At, Reached, vars, rest,
       runVars,
       foldVars, peers, gateVars
  <2>2. /\ \A f \in Field : Writers(f)' = Writers(f)
        /\ \A f : FoldedBefore(f)' = FoldedBefore(f)
    BY <2>1, WritersStay
  <2>3. DeltaKept' /\ delta'.content = delta.content
    BY <2>1 DEF FoldInv, DeltaKept
  <2>4. Folding' => field' > 0 /\ delta' = NewDelta(FoldedBefore(field))'
    <3>1. ASSUME Folding'
          PROVE  Folding /\ delta' = delta
      BY <2>1, <3>1 DEF Folding, Reducing
    <3>2. NewDelta(FoldedBefore(field))' = NewDelta(FoldedBefore(field))
      BY <2>1, <2>2 DEF NewDelta
    <3>. QED BY <2>1, <3>1, <3>2 DEF FoldInv, FoldKept
  <2>5. Reducing' /\ req'.key # 0 => field' \in Field /\ Writers(field)' # <<>>
    <3>1. ASSUME Reducing', req'.key # 0
          PROVE  field \in Field /\ Writers(field) # <<>>
      BY <2>1, <3>1 DEF FoldInv, FoldKept, Reducing
    <3>. QED BY <2>1, <2>2, <3>1
  <2>6. pc' = "commit" /\ req'.boundary = "region" =>
          req'.nodes = admitted' /\ delta'.content = FoldedBefore(NFields + 1)'
    BY <2>1, <2>2, <2>3 DEF FoldInv, FoldKept
  <2>7. Reducing' /\ pc' # "ask" => req'.key # 0
    BY <2>1 DEF FoldInv, FoldKept, Reducing
  <2>. QED BY <2>3, <2>4, <2>5, <2>6, <2>7 DEF FoldInv, FoldKept
<1>. QED BY <1>1, <1>2, <1>3, <1>4, FoldScheduler DEF Next, Environment, Ended

\* An entry is last, and no other changes.
LEMMA LogAppended ==
  ASSUME NEW S, log \in Seq(S), NEW e, log' = Append(log, e)
  PROVE  /\ log' \in Seq(S \cup {e})
         /\ log'[Len(log')] = e
         /\ \A i \in DOMAIN log' : log'[i] = e \/ (i \in DOMAIN log /\ log'[i] = log[i])
<1>1. log \in Seq(S \cup {e}) /\ Len(log) \in Nat
  BY SeqDef, LenProperties
<1>. QED BY <1>1, AppendProperties, LenProperties

\* Only an allowed commit publishes.
LEMMA OnlyCommitPublishes ==
  ASSUME GroundInv, [Next]_vars, ~CommitAllowed
  PROVE  UNCHANGED <<log, approved, gate>>
<1>1. CASE Scheduler
  <2>. USE DEF At, Reached
  <2>1. CASE \/ Exhaust \/ GateRefuses \/ GateFails \/ CallableFails \/ RaiseSettlement
             \/ RegionExhausts \/ RegionUnknown \/ RegionCancelled \/ RegionInadmissible
             \/ RegionUnmarked \/ JoinRefuses \/ FoldFails \/ LeaveGroup
             \/ FollowStatic \/ RouterReturns
    <3>1. (\E how : Raise(how)) \/ \E t : Select(t)
      BY <2>1 DEF Exhaust, GateRefuses, GateFails, CallableFails, RaiseSettlement,
         RegionExhausts, RegionUnknown, RegionCancelled, RegionInadmissible,
         RegionUnmarked, JoinRefuses, FoldFails, LeaveGroup, FollowStatic, RouterReturns, Resolve
    <3>. QED BY <3>1 DEF Raise, Select, histVars, peers, gateVars
  <2>2. CASE \/ Finish \/ GateStops \/ NodeInterrupts \/ RegionStopped \/ RegionInterrupted
    BY <2>2 DEF Finish, GateStops, NodeInterrupts, RegionStopped, RegionInterrupted, Terminate,
       histVars, peers, gateVars
  <2>3. CASE \/ AskRouter \/ EnterNode \/ EnterRegion \/ AskJoin \/ SettlementReturns \/ SettlementFails
    BY <2>3 DEF AskRouter, EnterNode, EnterRegion, AskJoin, SettlementReturns, SettlementFails,
       Settlement,
       rest, histVars, peers, gateVars
  <2>4. CASE \/ DispatchAllowed \/ MarkerWritten \/ SkipField \/ FoldField \/ ReducerReturns \/ StartReducer
             \/ Join \/ NodeReturns \/ OfferRegion
    BY <2>4 DEF DispatchAllowed, MarkerWritten, SkipField, FoldField, ReducerReturns,
       StartReducer, Raise,
       Join, NodeReturns, OfferRegion, Offer, rest, histVars, peers, gateVars
  <2>. QED BY <1>1, <2>1, <2>2, <2>3, <2>4 DEF Scheduler
<1>2. CASE Branch
  <2>1. PICK b \in Names(Edge.branches) :
          BranchBegins(b, BranchRequest(b)) \/ BranchStep(b, BranchRequest(b))
    BY <1>2 DEF Branch
  <2>. QED BY <1>2, <2>1 DEF Branch, rest, histVars, BranchBegins, BranchStep, BranchAllowed,
              BranchDenied,
       BranchMarked, BranchMarkFails, BranchReturns, BranchCancelled, gateVars
<1>3. CASE ConsumerPulls \/ Environment \/ UNCHANGED vars
  BY <1>3 DEF ConsumerPulls, Environment, ConsumerCloses, StopWhileHeld, RecordStop, SharedWrite,
     Cancel, Raise,
     CancelRegion, rest, histVars, peers, gateVars, vars
<1>. QED BY <1>1, <1>2, <1>3 DEF Next, Ended

LEMMA PublishedInductive ==
  ASSUME GroundInv, FoldInv, PublishedKept, [Next]_vars
  PROVE  PublishedKept'
<1>1. CASE CommitAllowed
  <2>1. pc = "commit" /\ log' = Append(log, Entry(Content(delta))) /\ gate' = gate
        /\ approved' = IF gate.present THEN approved \cup {Entry(delta.content)} ELSE approved
    BY <1>1 DEF CommitAllowed, At, Reached, peers, gateVars
  <2>2. PICK S : log \in Seq(S)
    BY DEF PublishedKept
  <2>3. gate.present => Content(delta) = delta.content
    BY <2>1 DEF FoldInv, DeltaKept, Content
  <2>4. /\ log' \in Seq(S \cup {Entry(Content(delta))})
        /\ \A i \in DOMAIN log' : log'[i] = Entry(Content(delta)) \/ (i \in DOMAIN log /\ log'[i] = log[i])
    BY <2>1, <2>2, LogAppended
  <2>. QED BY <2>1, <2>3, <2>4 DEF PublishedKept, PublishedWasApproved
<1>2. CASE ~CommitAllowed
  BY <1>2, OnlyCommitPublishes DEF PublishedKept, PublishedWasApproved
<1>. QED BY <1>1, <1>2

\* A region publishes all that its admitted branches wrote, or nothing.
LEMMA RegionStep ==
  ASSUME GroundInv, FoldInv, ResultsKept, PublishedKept, [Next]_vars, log' # log, InRegion
  PROVE  /\ log'[Len(log')].content = CanonicalContent(log'[Len(log')].nodes)
         /\ \A b \in Names(Edge.branches) : result[b] \in {"ok", "error"}
<1>1. CommitAllowed
  BY OnlyCommitPublishes
<1>2. pc = "commit" /\ log' = Append(log, Entry(Content(delta)))
  BY <1>1 DEF CommitAllowed, At, Reached
<1>3. req.boundary = "region"
  BY <1>2 DEF GroundInv, BudgetInv, BudgetCarried, InRegion, AtNode, Carrying
<1>4. log'[Len(log')] = Entry(Content(delta))
  BY <1>2, LogAppended DEF PublishedKept
<1>5. Content(delta) = FoldedBefore(NFields + 1) /\ req.nodes = admitted
  BY <1>2, <1>3 DEF FoldInv, FoldKept, DeltaKept, Content
<1>6. FoldedBefore(NFields + 1) = CanonicalContent(admitted)
  <2>1. {h \in Field : h < NFields + 1 /\ Writers(h) # <<>>} = {h \in Field : Writers(h) # <<>>}
    BY GraphsAssumption DEF Field
  <2>. QED BY <2>1 DEF FoldedBefore, CanonicalContent, Folded, Writers, Settled
<1>. QED BY <1>2, <1>3, <1>4, <1>5, <1>6 DEF Entry, ResultsKept, Judged

-----------------------------------------------------------------------------
(* The walk that publication is.                                           *)

\* Where the walk stands: at the node or the region published last.
Here == IF log = <<>> THEN START ELSE log[Len(log)].node
LastKind == IF log = <<>> THEN "none" ELSE log[Len(log)].kind
Owed == graph.edge[Here].kind = "fanout" /\ LastKind = "node"

\* A node was announced, and is not published yet.
Visiting == pc \in {"ask", "mark", "call", "commit"} /\ req.boundary = "node"
Routing == pc \in {"ask", "mark", "call"} /\ req.boundary = "router"
Admitted == Folding \/ (pc = "commit" /\ req.boundary = "region")

\* What the join admitted it could admit.
JoinKept ==
  /\ admitted \subseteq Names(Edge.branches) \cap With({"ok"})
  /\ Edge.join = "all" => admitted = Names(Edge.branches)
  /\ Edge.join = "first_success" => Cardinality(admitted) = 1
  /\ Edge.join = "quorum" => Cardinality(admitted) >= Edge.quorum

\* The scheduler stands where the walk does, and from there goes where the
\* walk may go.
WalkKept ==
  /\ Here \in Node \cup {START}
  /\ LastKind \in {"none", "node", "region"} /\ (LastKind = "none" => Here = START)
  /\ outcome = "running" => IF Visiting THEN node \in graph.edge[Here].targets \cap graph.nodes /\ ~Owed
                                        ELSE node = Here
  /\ pc = "loop" => target \in Edge.targets /\ Known(target) /\ ~Owed
  /\ Routing => Edge.kind = "router"
  /\ pc = "commit" /\ req.boundary = "node" => req.nodes = {node}
  /\ pc = "edge" => LastKind # "region"
  /\ pc = "then" => LastKind = "region"
  /\ pc = "after" => LastKind = req.boundary
  /\ Ahead => Owed
  /\ Admitted => JoinKept

\* All of it together.
RunInv == EndInv /\ FoldInv /\ PublishedKept /\ WalkKept

\* Nothing published, nothing counted.
WalkStutter == UNCHANGED <<graph, log, outcome, steps>> /\ pc # "after" /\ pc' # "after"

LEMMA WalkIdles ==
  ASSUME WalkStutter
  PROVE  UNCHANGED Abstract!walkVars
BY DEF WalkStutter, Abstract!walkVars, Walk, Spent, End

LEMMA RunIsCut ==
  ASSUME GroundInv, pc \notin {"after", "ended"}, UNCHANGED <<graph, log, steps>>, pc' = "ended",
         outcome' \in Ending \ {"done"}
  PROVE  Abstract!Next
<1>1. Abstract!Abandon
  BY DEF GroundInv, PublicationInv, Observed, Abstract!Abandon, Walk, Spent, End, Ending
<1>. QED BY <1>1 DEF Abstract!Next

\* The abstract walk, read off the log.
LEMMA WalkReads ==
  ASSUME NEW S, log \in Seq(S)
  PROVE  /\ Walk \in Seq({Walk[i] : i \in DOMAIN log}) /\ Len(Walk) = Len(log)
         /\ DOMAIN Walk = DOMAIN log
         /\ Walk = <<>> <=> log = <<>>
         /\ log # <<>> => Walk[Len(Walk)].node = Here /\ Walk[Len(Walk)].kind = LastKind
<1>1. DOMAIN log = 1 .. Len(log) /\ Len(log) \in Nat
  BY LenProperties
<1>2. Walk \in [1 .. Len(log) -> {Walk[i] : i \in DOMAIN log}]
  BY <1>1 DEF Walk
<1>3. /\ Walk \in Seq({Walk[i] : i \in DOMAIN log}) /\ Len(Walk) = Len(log)
  BY <1>1, <1>2, SeqDef, LenProperties
<1>4. Walk = <<>> <=> log = <<>>
  BY <1>3, EmptySeq, LenProperties
<1>5. ASSUME log # <<>>
      PROVE  Len(log) \in DOMAIN log
  BY <1>1, <1>5, LenProperties, EmptySeq
<1>. QED BY <1>1, <1>2, <1>3, <1>4, <1>5 DEF Walk, Here, LastKind

LEMMA WalkStands ==
  ASSUME RunInv
  PROVE  /\ Abstract!Position = Here
         /\ Abstract!Edge = graph.edge[Here]
         /\ Abstract!RegionOwed <=> Owed
<1>1. PICK S : log \in Seq(S)
  BY DEF RunInv, EndInv, PublishedKept
<1>2. Abstract!Position = Here
  BY <1>1, WalkReads DEF Abstract!Position, Here
<1>3. graph.edge[START].kind # "fanout"
  BY EdgeTyped DEF RunInv, EndInv, GroundInv, BudgetInv, IsGraph
<1>4. CASE log = <<>>
  BY <1>2, <1>3, <1>4 DEF Abstract!Edge, Abstract!RegionOwed, Owed, Here, LastKind
<1>5. CASE log # <<>>
  BY <1>1, <1>2, <1>5, WalkReads DEF Abstract!Edge, Abstract!RegionOwed, Owed
<1>. QED BY <1>2, <1>4, <1>5 DEF Abstract!Edge

LEMMA RunIsDone ==
  ASSUME RunInv, Finish
  PROVE  Abstract!Next
<1>1. /\ pc = "loop" /\ target = END /\ UNCHANGED <<graph, log, steps>> /\ pc' = "ended"
      /\ outcome = "running" /\ outcome' = "done"
  BY DEF Finish, LoopsOn, Terminate, At, Reached, histVars, RunInv, EndInv, GroundInv,
     PublicationInv, Observed
<1>2. node = Here /\ END \in Edge.targets /\ ~Owed
  BY <1>1 DEF RunInv, EndInv, WalkKept, Visiting
<1>3. Abstract!Complete
  BY <1>1, <1>2, WalkStands DEF Abstract!Complete, Walk, Spent, End, Edge
<1>. QED BY <1>3 DEF Abstract!Next

LEMMA EntryAppended ==
  ASSUME RunInv, NEW e, log' = Append(log, e)
  PROVE  /\ Walk' = Append(Walk, [kind |-> e.kind, node |-> e.node, nodes |-> e.nodes])
         /\ Here' = e.node /\ LastKind' = e.kind
<1>1. PICK S : log \in Seq(S)
  BY DEF RunInv, EndInv, PublishedKept
<1>. DEFINE T == S \cup {e}
            row == [kind |-> e.kind, node |-> e.node, nodes |-> e.nodes]
            R == {Walk[i] : i \in DOMAIN log} \cup {row}
<1>2. log \in Seq(T) /\ Len(log) \in Nat /\ DOMAIN log = 1 .. Len(log)
  BY <1>1, SeqDef, LenProperties
<1>3. /\ log' \in Seq(T) /\ Len(log') = Len(log) + 1 /\ log'[Len(log) + 1] = e
      /\ \A i \in 1 .. Len(log) : log'[i] = log[i]
      /\ DOMAIN log' = 1 .. Len(log) + 1
  BY <1>2, AppendProperties, LenProperties
<1>4. log' # <<>>
  BY <1>2, <1>3, EmptySeq
<1>5. Here' = e.node /\ LastKind' = e.kind
  BY <1>3, <1>4 DEF Here, LastKind
<1>6. Walk \in Seq(R) /\ Len(Walk) = Len(log) /\ DOMAIN Walk = 1 .. Len(log)
  BY <1>1, <1>2, WalkReads, SeqMonotonic, LenProperties
<1>7. /\ Append(Walk, row) \in Seq(R) /\ Len(Append(Walk, row)) = Len(log) + 1
      /\ Append(Walk, row)[Len(log) + 1] = row
      /\ \A i \in 1 .. Len(log) : Append(Walk, row)[i] = Walk[i]
  BY <1>2, <1>6, AppendProperties
<1>8. \A i \in 1 .. Len(log) + 1 : Walk'[i] = Append(Walk, row)[i]
  <2>1. \A i \in 1 .. Len(log) : Walk'[i] = Walk[i]
    BY <1>2, <1>3 DEF Walk
  <2>2. Walk'[Len(log) + 1] = row
    BY <1>2, <1>3 DEF Walk
  <2>. QED BY <1>2, <1>7, <2>1, <2>2
<1>9. Walk' \in [1 .. Len(log) + 1 -> R]
  <2>1. Walk' = [i \in 1 .. Len(log) + 1 |-> Walk'[i]]
    BY <1>3 DEF Walk
  <2>2. \A i \in 1 .. Len(log) + 1 : Append(Walk, row)[i] \in R
    BY <1>7, ElementOfSeq
  <2>. QED BY <2>1, <2>2, <1>8
<1>10. Walk' \in Seq(R) /\ Len(Walk') = Len(log) + 1
  BY <1>2, <1>9, SeqDef, LenProperties
<1>11. Walk' = Append(Walk, row)
  BY <1>7, <1>8, <1>10, SeqEqual
<1>. QED BY <1>5, <1>11

\* GraphWalk counts as the scheduler does.
LEMMA CountsAgree ==
  \A S : Abstract!Cardinality(S) = Cardinality(S)
BY Zenon DEF Abstract!Cardinality, Cardinality

\* What publication leaves.
LEMMA WalkPublished ==
  ASSUME RunInv, CommitAllowed
  PROVE  /\ Walk' = Append(Walk, [kind |-> req.boundary, node |-> node, nodes |-> req.nodes])
         /\ Here' = node /\ LastKind' = req.boundary
         /\ Spent' = (IF InRegion THEN Completed ELSE steps + 1) /\ Spent = steps
         /\ pc = "commit" /\ outcome = "running" /\ UNCHANGED <<graph, node, outcome, req>>
         /\ pc' \in {"after", "edge", "then"}
         /\ pc' = "edge" => ~InRegion
         /\ pc' = "then" => InRegion
<1>1. /\ pc = "commit" /\ outcome = "running" /\ log' = Append(log, Entry(Content(delta)))
      /\ UNCHANGED <<graph, node, outcome, req, result>>
  BY DEF CommitAllowed, At, Reached, peers, branchVars, RunInv, EndInv, GroundInv,
     PublicationInv, Observed
<1>2. /\ Walk' = Append(Walk, [kind |-> req.boundary, node |-> node, nodes |-> req.nodes])
      /\ Here' = node /\ LastKind' = req.boundary
  BY <1>1, EntryAppended DEF Entry
<1>3. InRegion' = InRegion
  BY <1>1 DEF InRegion
<1>4. CASE gate.settle
  <2>1. pc' = "after" /\ steps' = steps
    BY <1>4 DEF CommitAllowed
  <2>2. Completed' = Completed
    BY <1>1, <2>1 DEF Completed, With
  <2>. QED BY <1>1, <1>2, <1>3, <2>1, <2>2 DEF Spent
<1>5. CASE ~gate.settle
  <2>1. /\ steps' = IF InRegion THEN Completed ELSE steps + 1
        /\ pc' = IF InRegion THEN "then" ELSE "edge"
    BY <1>5 DEF CommitAllowed, Show, NodeCompleted, Onward
  <2>. QED BY <1>1, <1>2, <2>1 DEF Spent
<1>. QED BY <1>4, <1>5

LEMMA PublishingWalks ==
  ASSUME RunInv, CommitAllowed
  PROVE  Abstract!Next
<1>. DEFINE row == [kind |-> req.boundary, node |-> node, nodes |-> req.nodes]
<1>1. /\ Walk' = Append(Walk, row) /\ Spent = steps /\ pc = "commit"
      /\ Spent' = (IF InRegion THEN Completed ELSE steps + 1)
      /\ End = "running" /\ UNCHANGED <<graph, End>>
  BY WalkPublished DEF End
<1>2. req.boundary \in {"node", "region"}
  BY <1>1 DEF RunInv, EndInv, GroundInv, BudgetInv, BudgetCarried
<1>3. CASE req.boundary = "node"
  <2>1. ~InRegion /\ steps + 1 <= graph.maxSteps
    BY <1>1, <1>3, EdgeTyped DEF RunInv, EndInv, GroundInv, BudgetInv, BudgetCarried, TypeOK,
       IsGraph, AtNode, Carrying, InRegion
  <2>2. node \in graph.edge[Here].targets \cap graph.nodes /\ ~Owed /\ req.nodes = {node}
    BY <1>1, <1>3 DEF RunInv, EndInv, WalkKept, Visiting, GroundInv, PublicationInv, Observed
  <2>3. Abstract!Visit(node)
    BY <1>1, <1>3, <2>1, <2>2, WalkStands DEF Abstract!Visit, Abstract!Publish
  <2>. QED BY <2>2, <2>3 DEF Abstract!Next
<1>4. CASE req.boundary = "region"
  <2>1. /\ AcrossRegion /\ Launched /\ Ahead /\ InRegion
        /\ With({"ok"}) \subseteq Names(Edge.branches)
    BY <1>1, <1>4 DEF RunInv, EndInv, GroundInv, BudgetInv, BudgetCarried, TypeOK, AcrossRegion,
       Launched, Carrying,
       RegionBoundary, Ahead, InRegion
  <2>2. node = Here /\ Owed /\ req.nodes = admitted /\ admitted # {} /\ JoinKept
    BY <1>1, <1>4, <2>1 DEF RunInv, EndInv, WalkKept, Visiting, Admitted, GroundInv,
       PublicationInv, Observed, RegionAdmits,
       FoldInv, FoldKept
  <2>3. Completed <= graph.maxSteps
    BY <2>1, RegionFitsWhenCommitted DEF RunInv, EndInv, GroundInv
  <2>4. Abstract!Members = Names(Edge.branches) /\ Abstract!Edge = Edge /\ Abstract!Position = node
    BY <2>2, WalkStands DEF Abstract!Members, Names, Edge
  <2>5. Abstract!Admissible(admitted) /\ admitted \in SUBSET Abstract!Members
    BY <2>2, <2>4, CountsAgree DEF Abstract!Admissible, JoinKept
  <2>. DEFINE cost == Cardinality(With({"ok"}))
  <2>6. cost \in Cardinality(admitted) .. Len(Edge.branches)
    <3>1. Edge.branches \in Seq(Node) /\ Names(Edge.branches) \subseteq Node
      BY EdgeTyped DEF RunInv, EndInv, GroundInv, BudgetInv
    <3>2. IsFiniteSet(Names(Edge.branches)) /\ IsFiniteSet(With({"ok"}))
      BY <2>1, <3>1, GraphsAssumption, FS_Subset
    <3>3. admitted \subseteq With({"ok"})
      BY <2>2 DEF JoinKept
    <3>4. Cardinality(admitted) <= cost /\ IsFiniteSet(admitted)
      BY <3>2, <3>3, FS_Subset
    <3>5. cost <= Cardinality(Names(Edge.branches)) /\ Cardinality(Names(Edge.branches)) <= Len(Edge.branches)
      BY <2>1, <3>1, <3>2, FS_Subset, NamesAreFew
    <3>6. /\ cost \in Nat /\ Cardinality(admitted) \in Nat
          /\ Cardinality(Names(Edge.branches)) \in Nat /\ Len(Edge.branches) \in Nat
      BY <3>1, <3>2, <3>4, FS_CardinalityType, LenProperties
    <3>. QED BY <3>4, <3>5, <3>6
  <2>7. Abstract!Publish("region", node, admitted, cost)
    BY <1>1, <1>4, <2>1, <2>2, <2>3 DEF Abstract!Publish, Completed
  <2>8. Abstract!CrossRegion(admitted)
    <3>. HIDE DEF cost
    <3>. QED BY <2>2, <2>4, <2>5, <2>6, <2>7, WalkStands, CountsAgree DEF Abstract!CrossRegion
  <2>. QED BY <2>5, <2>8 DEF Abstract!Next
<1>. QED BY <1>2, <1>3, <1>4

\* A run that has ended goes nowhere.
LEMMA WalkEnds ==
  ASSUME RunInv, UNCHANGED <<graph, log>>, pc' = "ended", outcome' # "running"
  PROVE  WalkKept'
<1>1. Here' = Here /\ LastKind' = LastKind
  BY DEF Here, LastKind
<1>. QED BY <1>1 DEF RunInv, EndInv, WalkKept, Visiting, Routing, Ahead, AcrossRegion, Admitted,
            Folding, Reducing, Carrying

\* A step of the scheduler from where it stands.
LEMMA WalkStays ==
  ASSUME RunInv, UNCHANGED <<graph, log, node, outcome>>, pc \notin {"ended", "after"},
         pc' \notin {"edge", "then", "loop", "after"},
         Visiting' <=> Visiting, Routing' => Edge.kind = "router", Ahead' => Ahead,
         Admitted' => JoinKept', pc' = "commit" /\ req'.boundary = "node" => req'.nodes = {node}
  PROVE  WalkKept'
<1>1. Here' = Here /\ LastKind' = LastKind /\ Owed' = Owed /\ Edge' = Edge
  BY DEF Here, LastKind, Owed, Edge
<1>. QED BY <1>1 DEF RunInv, EndInv, WalkKept

LEMMA JoinStays ==
  ASSUME JoinKept, UNCHANGED <<graph, node, admitted, result>>
  PROVE  JoinKept'
<1>1. Edge' = Edge /\ Names(Edge.branches)' = Names(Edge.branches) /\ With({"ok"})' = With({"ok"})
  BY DEF Edge, Names, With
<1>. QED BY <1>1 DEF JoinKept

LEMMA WalkResolved ==
  ASSUME RunInv, FollowStatic \/ RouterReturns
  PROVE  WalkKept'
<1>1. PICK t \in Edge.targets : Resolve(t)
  BY DEF FollowStatic, RouterReturns
<1>2. CASE Known(t)
  <2>1. /\ target' = t /\ pc' = "loop" /\ UNCHANGED <<graph, log, node, outcome>>
    BY <1>1, <1>2 DEF Resolve, Select, histVars
  <2>2. pc \in {"edge", "then", "call"} /\ outcome = "running" /\ ~Visiting
    BY DEF FollowStatic, RouterReturns, At, Reached, Visiting, RunInv, EndInv, GroundInv,
       PublicationInv, Observed
  <2>3. node = Here
    BY <2>2 DEF RunInv, EndInv, WalkKept
  <2>4. ~Owed
    BY <2>3 DEF FollowStatic, RouterReturns, At, Reached, Routing, RunInv, EndInv, WalkKept,
       Owed, Edge
  <2>5. Here' = Here /\ LastKind' = LastKind /\ Owed' = Owed /\ Edge' = Edge
    BY <2>1 DEF Here, LastKind, Owed, Edge
  <2>6. Known(t)' = Known(t)
    BY <2>1 DEF Known
  <2>. QED BY <1>2, <2>1, <2>3, <2>4, <2>5, <2>6 DEF RunInv, EndInv, WalkKept, Known, Visiting,
              Routing, Ahead, AcrossRegion, Carrying,
         Admitted, Folding, Reducing
<1>3. CASE ~Known(t)
  BY <1>1, <1>3, WalkEnds DEF Resolve, Raise, histVars
<1>. QED BY <1>2, <1>3

LEMMA WalkEntered ==
  ASSUME RunInv, EnterNode
  PROVE  WalkKept'
<1>1. /\ pc = "loop" /\ target # END /\ node' = target /\ pc' = "ask" /\ req'.boundary = "node"
      /\ UNCHANGED <<graph, log, outcome>>
  BY DEF EnterNode, At, Reached, LoopsOn, Dispatch, NodeRequest, Request
<1>2. node = Here /\ target \in Edge.targets /\ Known(target) /\ ~Owed
  BY <1>1 DEF RunInv, EndInv, WalkKept, Visiting, GroundInv, PublicationInv, Observed
<1>3. target \in graph.edge[Here].targets \cap graph.nodes
  BY <1>1, <1>2 DEF Known, Edge
<1>4. Here' = Here /\ LastKind' = LastKind /\ Owed' = Owed
  BY <1>1 DEF Here, LastKind, Owed
<1>. QED BY <1>1, <1>2, <1>3, <1>4 DEF RunInv, EndInv, WalkKept, Visiting, Routing, Ahead,
            AcrossRegion, Carrying, RegionBoundary,
       Admitted, Folding, Reducing

LEMMA WalkRegionEntered ==
  ASSUME RunInv, EnterRegion
  PROVE  WalkKept'
<1>1. /\ pc = "edge" /\ Edge.kind = "fanout" /\ pc' = "ask" /\ req'.boundary = "fanout"
      /\ UNCHANGED <<graph, log, outcome, node>>
  BY DEF EnterRegion, AtRegion, At, Reached, Dispatch, RegionRequest, Request, runVars
<1>2. node = Here /\ LastKind # "region" /\ outcome = "running"
  BY <1>1 DEF RunInv, EndInv, WalkKept, Visiting, GroundInv, PublicationInv, Observed
<1>3. node # START
  BY <1>1, EdgeTyped DEF RunInv, EndInv, GroundInv, BudgetInv, IsGraph, Edge
<1>4. Owed
  BY <1>1, <1>2, <1>3 DEF RunInv, EndInv, WalkKept, Owed, Edge
<1>5. Here' = Here /\ LastKind' = LastKind /\ Owed' = Owed
  BY <1>1 DEF Here, LastKind, Owed
<1>. QED BY <1>1, <1>2, <1>4, <1>5 DEF RunInv, EndInv, WalkKept, Visiting, Routing, Ahead,
            AcrossRegion, Carrying, RegionBoundary,
       Admitted, Folding, Reducing

LEMMA WalkJoined ==
  ASSUME RunInv, Join
  PROVE  WalkKept'
<1>1. PICK A \in SUBSET Names(Edge.branches) : A # {} /\ Admits(Edge, A) /\ admitted' = A
  BY DEF Join
<1>2. /\ pc' = "ask" /\ req'.boundary = "reducer" /\ UNCHANGED <<graph, node, result, outcome, log>>
      /\ pc = "settle" \/ (pc = "call" /\ req.boundary = "join")
  BY DEF Join, Joinable, RegionSettled, At, Reached, Dispatch, RegionRequest, Request, runVars,
     histVars, peers, branchVars
<1>3. A \subseteq With({"ok"}) /\ (Edge.join = "all" => A = Names(Edge.branches))
      /\ (Edge.join = "quorum" => Cardinality(A) >= Edge.quorum)
  <2>1. Edge.join \in JoinKind
    BY EdgeTyped DEF RunInv, EndInv, GroundInv, BudgetInv, EdgeType
  <2>. QED BY <1>1, <2>1 DEF Admits, JoinKind
<1>4. Edge.join = "first_success" => Cardinality(A) = 1
  BY <1>1, FS_Singleton DEF Admits
<1>5. Edge' = Edge /\ Names(Edge.branches)' = Names(Edge.branches) /\ With({"ok"})' = With({"ok"})
  BY <1>2 DEF Edge, Names, With
<1>6. JoinKept'
  BY <1>1, <1>3, <1>4, <1>5 DEF JoinKept
<1>. QED BY <1>2, <1>6, WalkStays DEF Visiting, Routing, Ahead, AcrossRegion, Carrying,
            RegionBoundary

LEMMA WalkShown ==
  ASSUME RunInv, CommitAllowed \/ SettlementReturns \/ SettlementFails
  PROVE  WalkKept'
<1>1. CASE CommitAllowed
  <2>1. /\ Here' = node /\ LastKind' = req.boundary /\ pc = "commit"
        /\ UNCHANGED <<graph, node, outcome, req>> /\ pc' \in {"after", "edge", "then"}
        /\ pc' = "edge" => ~InRegion
        /\ pc' = "then" => InRegion
    BY <1>1, WalkPublished
  <2>2. /\ req.boundary \in {"node", "region"} /\ (InRegion <=> req.boundary = "region")
        /\ node \in Node \cup {START}
    BY <2>1 DEF RunInv, EndInv, GroundInv, BudgetInv, BudgetCarried, TypeOK, InRegion, AtNode,
       AcrossRegion, Carrying,
       RegionBoundary
  <2>. QED BY <2>1, <2>2 DEF WalkKept, Visiting, Routing, Ahead, AcrossRegion, Carrying,
              Admitted, Folding, Reducing
<1>2. CASE SettlementReturns \/ SettlementFails
  <2>1. /\ pc = "after" /\ UNCHANGED <<graph, node, outcome, req, log>> /\ pc' \in {"edge", "then", "raise"}
        /\ pc' = "edge" => ~InRegion
        /\ pc' = "then" => InRegion
    BY <1>2 DEF SettlementReturns, SettlementFails, Settlement, At, Reached, Show, Onward,
       histVars
  <2>2. /\ req.boundary \in {"node", "region"} /\ (InRegion <=> req.boundary = "region")
        /\ LastKind = req.boundary /\ outcome = "running"
    BY <2>1 DEF RunInv, EndInv, WalkKept, GroundInv, BudgetInv, BudgetCarried, TypeOK, InRegion,
       AtNode, AcrossRegion, Carrying,
       RegionBoundary, PublicationInv, Observed
  <2>3. Here' = Here /\ LastKind' = LastKind
    BY <2>1 DEF Here, LastKind
  <2>. QED BY <2>1, <2>2, <2>3 DEF RunInv, EndInv, WalkKept, Visiting, Routing, Ahead,
              AcrossRegion, Carrying, Admitted, Folding,
         Reducing
<1>. QED BY <1>1, <1>2

LEMMA WalkScheduler ==
  ASSUME RunInv, Scheduler
  PROVE  WalkKept' /\ (Abstract!Next \/ UNCHANGED Abstract!walkVars)
<1>. USE DEF At, Reached
<1>1. CASE \/ Exhaust \/ GateRefuses \/ GateFails \/ CallableFails \/ RaiseSettlement
           \/ RegionExhausts \/ RegionUnknown \/ RegionCancelled \/ RegionInadmissible
           \/ RegionUnmarked \/ JoinRefuses \/ FoldFails \/ LeaveGroup
  <2>1. \E how \in Ending \ {"done"} : Raise(how)
    BY <1>1 DEF Exhaust, GateRefuses, GateFails, CallableFails, RaiseSettlement,
       RegionExhausts, RegionUnknown, RegionCancelled, RegionInadmissible,
       RegionUnmarked, JoinRefuses, FoldFails, LeaveGroup, Ending
  <2>2. pc \notin {"after", "ended"}
    BY <1>1 DEF Exhaust, GateRefuses, GateFails, CallableFails, RaiseSettlement, AtRegion,
       RegionExhausts, RegionUnknown, RegionSettled, RegionCancelled, RegionInadmissible,
       RegionUnmarked, Joinable, JoinRefuses, AtField, FoldFails, LeaveGroup
  <2>3. UNCHANGED <<graph, log, steps>> /\ pc' = "ended" /\ outcome' \in Ending \ {"done"} /\ outcome' # "running"
    BY <2>1 DEF Raise, runVars, histVars, Ending
  <2>. QED BY <2>2, <2>3, WalkEnds, RunIsCut DEF RunInv, EndInv
<1>2. CASE GateStops \/ NodeInterrupts \/ RegionStopped \/ RegionInterrupted
  <2>1. /\ UNCHANGED <<graph, log, steps>> /\ pc' = "ended" /\ outcome' \in {"stopped", "interrupted"}
        /\ pc \notin {"after", "ended"}
    BY <1>2 DEF GateStops, NodeInterrupts, RegionStopped, RegionInterrupted, RegionSettled,
       Terminate, histVars
  <2>. QED BY <2>1, WalkEnds, RunIsCut DEF RunInv, EndInv, Ending
<1>3. CASE Finish
  <2>1. UNCHANGED <<graph, log>> /\ pc' = "ended" /\ outcome' = "done"
    BY <1>3 DEF Finish, Terminate, histVars
  <2>. QED BY <1>3, <2>1, WalkEnds, RunIsDone
<1>4. CASE FollowStatic \/ RouterReturns
  <2>1. PICK t \in Edge.targets : Resolve(t)
    BY <1>4 DEF FollowStatic, RouterReturns
  <2>2. pc \notin {"after", "ended"}
    BY <1>4 DEF FollowStatic, RouterReturns
  <2>3. CASE Known(t)
    BY <1>4, <2>1, <2>2, <2>3, WalkResolved, WalkIdles DEF Resolve, Select, WalkStutter, histVars
  <2>4. CASE ~Known(t)
    BY <1>4, <2>1, <2>2, <2>4, WalkResolved, RunIsCut DEF Resolve, Raise, runVars, histVars,
       RunInv, EndInv, Ending
  <2>. QED BY <2>3, <2>4
<1>5. CASE EnterNode
  BY <1>5, WalkEntered, WalkIdles DEF EnterNode, Dispatch, WalkStutter
<1>6. CASE EnterRegion
  BY <1>6, WalkRegionEntered, WalkIdles DEF EnterRegion, AtRegion, Dispatch, WalkStutter, runVars
<1>7. CASE Join
  BY <1>7, WalkJoined, WalkIdles DEF Join, Joinable, RegionSettled, Dispatch, WalkStutter,
     runVars, histVars
<1>8. CASE CommitAllowed
  BY <1>8, WalkShown, PublishingWalks
<1>9. CASE SettlementReturns \/ SettlementFails
  <2>1. pc = "after" /\ pc' # "after" /\ steps' = (IF InRegion THEN Completed ELSE steps + 1)
        /\ UNCHANGED <<graph, log, outcome>>
    BY <1>9 DEF SettlementReturns, SettlementFails, Settlement, Show, Onward, NodeCompleted,
       histVars
  <2>2. UNCHANGED Abstract!walkVars
    BY <2>1 DEF Abstract!walkVars, Walk, Spent, End
  <2>. QED BY <1>9, <2>2, WalkShown
<1>10. CASE AskRouter
  <2>1. /\ pc = "edge" /\ pc' = "ask" /\ req'.boundary = "router" /\ Edge.kind = "router"
        /\ UNCHANGED <<graph, log, node, outcome, steps>>
    BY <1>10 DEF AskRouter, Dispatch, RouterRequest, Request, rest, runVars, histVars
  <2>. QED BY <2>1, WalkStays, WalkIdles DEF WalkStutter, Visiting, Routing, Ahead, AcrossRegion,
              Carrying,
         RegionBoundary, Admitted, Folding, Reducing
<1>11. CASE NodeReturns
  <2>1. /\ pc = "call" /\ req.boundary = "node" /\ pc' = "commit" /\ req'.boundary = "node" /\ req'.nodes = {node}
        /\ UNCHANGED <<graph, log, node, outcome, steps>>
    BY <1>11 DEF NodeReturns, Offer, NodeRequest, Request, runVars, histVars
  <2>. QED BY <2>1, WalkStays, WalkIdles DEF WalkStutter, Visiting, Routing, Ahead, AcrossRegion,
              Carrying,
         RegionBoundary, Admitted, Folding, Reducing
<1>12. CASE AskJoin
  <2>1. /\ pc = "settle" /\ pc' = "ask" /\ req'.boundary = "join"
        /\ UNCHANGED <<graph, log, node, outcome, steps>>
    BY <1>12 DEF AskJoin, Joinable, RegionSettled, Dispatch, RegionRequest, Request, rest,
       runVars, histVars
  <2>. QED BY <2>1, WalkStays, WalkIdles DEF WalkStutter, Visiting, Routing, Ahead, AcrossRegion,
              Carrying,
         RegionBoundary, Admitted, Folding, Reducing
<1>13. CASE DispatchAllowed
  <2>1. /\ pc = "ask" /\ UNCHANGED <<graph, log, node, outcome, steps, req, admitted>>
    BY <1>13 DEF DispatchAllowed, rest, runVars, foldVars, histVars
  <2>2. \/ req.boundary = "fanout" /\ pc' = "settle"
        \/ req.boundary = "reducer" /\ pc' = "fold" /\ result' = result
        \/ req.boundary # "fanout" /\ pc' \in {"mark", "call"} /\ result' = result
    BY <1>13 DEF DispatchAllowed, Pass, StartCallable, CallNow, branchVars
  <2>3. Admitted' => JoinKept'
    BY <2>1, <2>2, JoinStays DEF Admitted, Folding, Reducing, RunInv, EndInv, WalkKept
  <2>. QED BY <2>1, <2>2, <2>3, WalkStays, WalkIdles DEF RunInv, EndInv, WalkKept, WalkStutter,
              Visiting, Routing, Ahead,
         AcrossRegion, Carrying, RegionBoundary
<1>14. CASE MarkerWritten
  <2>1. pc = "mark" /\ pc' = "call" /\ UNCHANGED <<graph, log, node, outcome, steps, req, admitted, result>>
    BY <1>14 DEF MarkerWritten, CallNow, rest, runVars, foldVars, histVars, branchVars
  <2>2. Admitted' => JoinKept'
    BY <2>1, JoinStays DEF Admitted, Folding, Reducing, RunInv, EndInv, WalkKept
  <2>. QED BY <2>1, <2>2, WalkStays, WalkIdles DEF RunInv, EndInv, WalkKept, WalkStutter,
              Visiting, Routing, Ahead,
         AcrossRegion, Carrying, RegionBoundary
<1>15. CASE FoldField /\ Refused(Folded(field))
  BY <1>15, WalkEnds, RunIsCut DEF FoldField, AtField, Raise, runVars, histVars, RunInv, EndInv,
     Ending
<1>16. CASE SkipField \/ (FoldField /\ ~Refused(Folded(field))) \/ StartReducer \/ ReducerReturns \/ OfferRegion
  <2>1. /\ Folding /\ UNCHANGED <<graph, log, node, outcome, steps, admitted, result>>
        /\ \/ pc' = "fold"
           \/ pc' \in {"ask", "call"} /\ req'.boundary = "reducer"
           \/ pc' = "commit" /\ req'.boundary = "region"
    BY <1>16 DEF SkipField, FoldField, AtField, StartReducer, ReducerReturns, OfferRegion, Offer,
       RegionRequest, Request,
       Folding, Reducing, rest, runVars, foldVars, histVars, peers, branchVars
  <2>2. JoinKept'
    BY <2>1, JoinStays DEF Admitted, RunInv, EndInv, WalkKept
  <2>. QED BY <2>1, <2>2, WalkStays, WalkIdles DEF WalkStutter, Visiting, Routing, Ahead,
         AcrossRegion, Carrying, RegionBoundary, Folding, Reducing
<1>. QED BY <1>1, <1>2, <1>3, <1>4, <1>5, <1>6, <1>7, <1>8, <1>9, <1>10, <1>11, <1>12, <1>13,
            <1>14, <1>15, <1>16
         DEF Scheduler

LEMMA WalkNext ==
  ASSUME RunInv, [Next]_vars
  PROVE  WalkKept' /\ (Abstract!Next \/ UNCHANGED Abstract!walkVars)
<1>1. CASE Cancel \/ ConsumerCloses
  <2>1. /\ UNCHANGED <<graph, log, steps>> /\ pc' = "ended" /\ outcome' \in {"cancelled", "closed"}
        /\ pc \notin {"after", "ended"}
    BY <1>1 DEF Cancel, ConsumerCloses, At, Reached, Raise, runVars, histVars, RunInv, EndInv,
       GroundInv, PublicationInv, Observed
  <2>. QED BY <2>1, WalkEnds, RunIsCut DEF RunInv, EndInv, Ending
<1>2. CASE Branch
  <2>1. /\ pc \in {"settle", "reap"} /\ UNCHANGED <<pc, req, graph, log, node, target, outcome, steps>>
    BY <1>2 DEF Branch, At, Reached, rest, runVars, histVars
  <2>. QED BY <2>1, WalkStays, WalkIdles DEF WalkStutter, Visiting, Routing, Ahead, AcrossRegion,
              Carrying,
         Admitted, Folding, Reducing
<1>3. CASE CancelRegion
  <2>1. pc = "settle" /\ pc' = "reap" /\ UNCHANGED <<req, graph, log, node, target, outcome, steps>>
    BY <1>3 DEF CancelRegion, At, Reached, rest, runVars, histVars
  <2>. QED BY <2>1, WalkStays, WalkIdles DEF WalkStutter, Visiting, Routing, Ahead, AcrossRegion,
              Carrying,
         Admitted, Folding, Reducing
<1>4. CASE ConsumerPulls \/ StopWhileHeld \/ SharedWrite \/ UNCHANGED vars
  <2>1. UNCHANGED <<pc, req, graph, log, node, target, outcome, steps, admitted, result>>
    BY <1>4 DEF ConsumerPulls, StopWhileHeld, SharedWrite, vars, rest, runVars, foldVars,
       histVars, peers, branchVars
  <2>2. /\ Here' = Here /\ LastKind' = LastKind /\ Owed' = Owed /\ Edge' = Edge /\ With({"ok"})' = With({"ok"})
        /\ Names(Edge.branches)' = Names(Edge.branches) /\ Known(target)' = Known(target)
    BY <2>1 DEF Here, LastKind, Owed, Edge, With, Names, Known
  <2>3. WalkKept'
    BY <2>1, <2>2, JoinStays DEF RunInv, EndInv, WalkKept, Visiting, Routing, Ahead,
       AcrossRegion, Carrying, Admitted, Folding,
       Reducing
  <2>4. Spent' = Spent
    BY <2>1, <2>2 DEF Spent, InRegion, Completed
  <2>. QED BY <2>1, <2>3, <2>4 DEF Abstract!walkVars, Walk, End
<1>. QED BY <1>1, <1>2, <1>3, <1>4, WalkScheduler DEF Next, Environment, Ended

LEMMA RunInvInitially ==
  ASSUME Init
  PROVE  RunInv /\ Abstract!Init
<1>1. FoldInv
  BY DEF Init, FoldInv, FoldKept, DeltaKept, Folding, Reducing, NoDelta, NewDelta
<1>2. log = <<>>
  BY DEF Init
<1>3. PublishedKept
  BY <1>2 DEF PublishedKept, PublishedWasApproved
<1>4. WalkKept
  BY DEF Init, Request, WalkKept, Here, LastKind, Visiting, Routing, Ahead, AcrossRegion,
     Carrying, Admitted,
     Folding, Reducing
<1>5. Abstract!Init
  BY DEF Init, Abstract!Init, Walk, Spent, End
<1>. QED BY <1>1, <1>3, <1>4, <1>5, EndInvInitially DEF RunInv

LEMMA RunInvInductive ==
  ASSUME RunInv, [Next]_vars
  PROVE  RunInv'
BY EndInvInductive, FoldInductive, PublishedInductive, WalkNext DEF RunInv, EndInv

\* Whatever node code does to a delta it returned, what is published is what
\* the gate allowed.
THEOREM PublicationsAreApproved == Spec => []PublishedWasApproved
<1>1. RunInv => PublishedWasApproved
  BY DEF RunInv, PublishedKept
<1>. QED BY <1>1, RunInvInitially, RunInvInductive, PTL DEF Spec

\* A region publishes the fold of all its admitted branches, in their order
\* and however their tasks finished, or nothing.
THEOREM RegionsCommitWhole == Spec => RegionCommits
<1>1. RunInv /\ [Next]_vars =>
        [log' # log /\ InRegion =>
           LET last == log'[Len(log')] IN last.content = CanonicalContent(last.nodes)]_vars
  BY RegionStep DEF RunInv, EndInv
<1>2. RunInv /\ [Next]_vars =>
        [log' # log /\ InRegion => \A b \in Names(Edge.branches) : result[b] \in {"ok", "error"}]_vars
  BY RegionStep DEF RunInv, EndInv
<1>. QED BY <1>1, <1>2, RunInvInitially, RunInvInductive, PTL
         DEF Spec, RegionCommits, CommitIsCanonical, RegionIsAllOrNothing

\* What is published, in every graph and under every gate, is a walk through
\* the graph within its budget, and the run is done only where it ends.
THEOREM EngineImplementsGraphWalk == Spec => RefinesGraphWalk
<1>1. Init => RunInv /\ Abstract!Init
  BY RunInvInitially
<1>2. RunInv /\ [Next]_vars => RunInv' /\ [Abstract!Next]_(Abstract!walkVars)
  BY RunInvInductive, WalkNext
<1>. QED BY <1>1, <1>2, PTL DEF Spec, RefinesGraphWalk, Abstract!WalkSpec
=============================================================================
