--------------------------- MODULE DeliveryProofs ---------------------------
(***************************************************************************)
(* Delivery is fail-closed, the checkpoints keep up with what is published *)
(* and the rows are one history, for any number of listeners, crashes and  *)
(* repeated runs.                                                          *)
(***************************************************************************)
EXTENDS Delivery, EnginePublication

\* The checkpointer has yet to see a node.end.
Pending ==
  \E i \in DOMAIN held : held[i] = "node.end" /\ (i = 1 => turn <= Checkpointer)

RowsAreSeq == \E S : rows \in Seq(S)

\* A row holds nothing that JSON changes.
RowsAreRead == \A i \in DOMAIN rows : ReadBack(rows[i]) = rows[i]

\* The newest row is what JSON makes of the last publication.
UpToDate == SameAsRow(last, LoadLatest)

\* What holds while the run goes on.
InStep ==
  /\ Idle => turn = 1
  /\ pc = "after" => state = last
  /\ Showing => seen = last
  /\ pc # "after" /\ ~Pending => UpToDate
  /\ log # <<>> => state.fields = last.fields

DeliveryInv ==
  /\ PublicationInv
  /\ turn \in Nat
  /\ RowsAreSeq /\ RowsAreRead
  /\ missed # {} => driver = "raised"
  /\ Driving => InStep
  /\ CheckpointLag
  /\ CheckpointComplete
  /\ "fields" \in DOMAIN last /\ "fields" \in DOMAIN before /\ "fields" \in DOMAIN LoadLatest

-----------------------------------------------------------------------------
\* Reading back changes the fields only, and nothing the second time.
LEMMA ReadBackOnce ==
  ASSUME NEW st
  PROVE  /\ DOMAIN ReadBack(st) = DOMAIN st
         /\ "fields" \in DOMAIN st => ReadBack(ReadBack(st)) = ReadBack(st)
         /\ "visited" \in DOMAIN st => ReadBack(st).visited = st.visited
<1>. DEFINE Back(fields) ==
       [f \in DOMAIN fields |->
          IF <<f, fields[f]>> \in DOMAIN Altered THEN Altered[<<f, fields[f]>>] ELSE fields[f]]
<1>1. \A x : ReadBack(x) = [x EXCEPT !.fields = Back(x.fields)]
  BY DEF ReadBack
<1>2. \A fields : Back(Back(fields)) = Back(fields)
  BY AlteredAssumption
<1>. HIDE DEF Back
<1>3. DOMAIN ReadBack(st) = DOMAIN st
  BY <1>1
<1>4. "visited" \in DOMAIN st => ReadBack(st).visited = st.visited
  BY <1>1
<1>5. "fields" \in DOMAIN st => ReadBack(ReadBack(st)) = ReadBack(st)
  BY <1>1, <1>2
<1>. QED BY <1>3, <1>4, <1>5

\* A row that is written is the newest.
LEMMA RowAppended ==
  ASSUME RowsAreSeq, RowsAreRead, NEW st, "fields" \in DOMAIN st, rows' = Append(rows, ReadBack(st))
  PROVE  /\ RowsAreSeq' /\ RowsAreRead'
         /\ LoadLatest' = ReadBack(st) /\ SameAsRow(st, LoadLatest')
         /\ "fields" \in DOMAIN LoadLatest'
<1>1. PICK S : rows \in Seq(S)
  BY DEF RowsAreSeq
<1>a. /\ ReadBack(ReadBack(st)) = ReadBack(st)
      /\ "fields" \in DOMAIN ReadBack(st)
  BY ReadBackOnce
<1>b. PICK text : text = ReadBack(st)
  OBVIOUS
<1>2. rows \in Seq(S \cup {text}) /\ Len(rows) \in Nat /\ DOMAIN rows = 1 .. Len(rows)
  BY <1>1, SeqDef, LenProperties
<1>3. /\ rows' \in Seq(S \cup {text})
      /\ Len(rows') = Len(rows) + 1
      /\ rows'[Len(rows) + 1] = text
      /\ \A i \in 1 .. Len(rows) : rows'[i] = rows[i]
  BY <1>b, <1>2, AppendProperties
<1>4. rows' # <<>> /\ DOMAIN rows' = 1 .. Len(rows) + 1
  BY <1>2, <1>3, LenProperties
<1>5. RowsAreRead'
  <2>1. SUFFICES ASSUME NEW i \in DOMAIN rows'
                 PROVE  ReadBack(rows'[i]) = rows'[i]
    BY DEF RowsAreRead
  <2>2. CASE i \in 1 .. Len(rows)
    BY <1>2, <1>3, <2>2 DEF RowsAreRead
  <2>3. CASE i = Len(rows) + 1
    BY <1>a, <1>b, <1>3, <2>3
  <2>. QED BY <1>2, <1>4, <2>2, <2>3
<1>6. LoadLatest' = text
  BY <1>3, <1>4 DEF LoadLatest
<1>. QED BY <1>a, <1>b, <1>3, <1>5, <1>6 DEF RowsAreSeq, SameAsRow

\* Publishing shows a node.end first.
LEMMA ShownFirst ==
  ASSUME PublicationInv, pc \in {"commit", "after"}, NEW st, NEW next, Show(st, next)
  PROVE  1 \in DOMAIN held' /\ held'[1] = "node.end" /\ seen' = st
<1>1. CASE ~InRegion
  BY <1>1 DEF Show, Yield
<1>2. CASE InRegion
  <2>1. admitted # {} /\ IsFiniteSet(admitted)
    BY <1>2, GraphsAssumption, FS_Subset DEF PublicationInv, RegionAdmits, TypeOK
  <2>2. Cardinality(admitted) \in Nat \ {0}
    BY <2>1, FS_CardinalityType, FS_EmptySet
  <2>. QED BY <1>2, <2>2 DEF Show, Yield, RegionEvents
<1>. QED BY <1>1, <1>2

\* The graph of an invocation never changes.
LEMMA GraphFixed ==
  ASSUME Scheduler \/ Branch \/ ConsumerPulls \/ Environment
  PROVE  graph' = graph
BY DEF Scheduler, Branch, ConsumerPulls, Environment, ConsumerCloses, StopWhileHeld, SharedWrite, Cancel,
   CancelRegion, AskRouter, FollowStatic, RouterReturns, Resolve, Select, Finish, Exhaust, EnterNode,
   DispatchAllowed, MarkerWritten, GateRefuses, GateStops, GateFails, NodeReturns, NodeInterrupts,
   CallableFails, CommitAllowed, SettlementReturns, SettlementFails, Settlement, RaiseSettlement,
   RegionExhausts, RegionUnknown, EnterRegion, RegionCancelled, RegionInadmissible, RegionUnmarked,
   RegionStopped, RegionInterrupted, AskJoin, Join, JoinRefuses, SkipField, FoldField, StartReducer,
   FoldFails, ReducerReturns, OfferRegion, Offer, LeaveGroup, Raise, Terminate, rest

\* The steps that neither publish nor show what was published.
Beside ==
  /\ UNCHANGED <<graph, log>>
  /\ \/ OtherStep
     \/ /\ UNCHANGED <<held, seen, state>>
        /\ pc' = pc \/ (pc = "settle" /\ pc' = "reap")

LEMMA GraphBeside ==
  ASSUME PublicationInv,
         Scheduler \/ Branch \/ StopWhileHeld \/ SharedWrite \/ Cancel \/ CancelRegion,
         ~CommitAllowed, ~SettlementReturns, ~SettlementFails
  PROVE  Beside
<1>1. CASE Scheduler
  BY <1>1, SchedulerOther, GraphFixed DEF Beside, OtherStep
<1>2. CASE Cancel
  <2>1. Idle /\ pc \notin {"after", "ended"} /\ Raise("cancelled")
    BY <1>2 DEF Cancel, At, Reached
  <2>. QED BY <1>2, <2>1, RaiseOther, GraphFixed DEF Beside, OtherStep, Ending, Environment
<1>3. CASE Branch \/ StopWhileHeld \/ SharedWrite \/ CancelRegion
  BY <1>3 DEF Beside, Branch, StopWhileHeld, SharedWrite, CancelRegion, rest, runVars, histVars, At, Reached
<1>. QED BY <1>1, <1>2, <1>3

\* The graph's own steps keep the checkpoints in step.
LEMMA GraphRunsInStep ==
  ASSUME DeliveryInv, GraphRuns
  PROVE  InStep' /\ CheckpointLag'
<1>1. InStep /\ PublicationInv /\ Driving
  BY DEF DeliveryInv, GraphRuns
<1>2. LoadLatest' = LoadLatest
  BY GraphFixed DEF GraphRuns, LoadLatest, FreshState, Environment
<1>3. CASE CommitAllowed
  <2>1. pc = "commit" /\ Idle /\ turn' = turn /\ last' = state' /\ before' = last
    BY <1>3 DEF GraphRuns, CommitAllowed, At, Reached
  <2>2. turn = 1 /\ UpToDate
    BY <1>1, <2>1 DEF InStep, Pending, Idle
  <2>3. CheckpointLag'
    BY <1>2, <2>1, <2>2 DEF CheckpointLag, UpToDate, SameAsRow
  <2>4. CASE gate.settle
    <3>1. pc' = "after" /\ held' = <<>>
      BY <1>3, <2>1, <2>4 DEF CommitAllowed, Idle
    <3>. QED BY <2>1, <2>2, <2>3, <3>1 DEF InStep, Showing
  <2>5. CASE ~gate.settle
    <3>1. Show(Published, "edge") /\ state' = Published
      BY <1>3, <2>5 DEF CommitAllowed
    <3>2. pc' # "after" /\ 1 \in DOMAIN held' /\ held'[1] = "node.end" /\ seen' = last'
      BY <1>1, <2>1, <3>1, ShownFirst DEF Show, Onward
    <3>3. Pending'
      BY <2>1, <2>2, <3>2, DeliveryAssumption DEF Pending
    <3>. QED BY <2>1, <2>2, <2>3, <3>2, <3>3 DEF InStep
  <2>. QED BY <2>4, <2>5
<1>4. CASE ~CommitAllowed /\ (SettlementReturns \/ SettlementFails)
  <2>1. /\ pc = "after" /\ Idle /\ turn' = turn /\ UNCHANGED <<last, before, state, log>>
        /\ \E next \in {"edge", "raise"} : Show(state, next)
    BY <1>4 DEF GraphRuns, published, SettlementReturns, SettlementFails, Settlement, At, Reached, histVars
  <2>2. turn = 1 /\ state = last
    BY <1>1, <2>1 DEF InStep
  <2>3. pc' # "after" /\ 1 \in DOMAIN held' /\ held'[1] = "node.end" /\ seen' = last'
    BY <1>1, <2>1, <2>2, ShownFirst DEF Show, Onward
  <2>4. Pending'
    BY <2>1, <2>2, <2>3, DeliveryAssumption DEF Pending
  <2>. QED BY <1>1, <1>2, <2>1, <2>2, <2>3, <2>4 DEF DeliveryInv, InStep, CheckpointLag, SameAsRow
<1>5. CASE ~CommitAllowed /\ ~SettlementReturns /\ ~SettlementFails
  <2>1. Beside /\ UNCHANGED <<turn, last, before>>
    BY <1>1, <1>5, GraphBeside DEF GraphRuns, published
  <2>2. CASE OtherStep
    <3>1. turn = 1 /\ UpToDate /\ ~Showing' /\ pc' # "after" /\ state'.fields = state.fields
      BY <1>1, <2>2 DEF InStep, OtherStep, Pending, Idle
    <3>. QED BY <1>1, <1>2, <2>1, <3>1 DEF InStep, CheckpointLag, Beside, UpToDate, SameAsRow
  <2>3. CASE ~OtherStep
    <3>1. UNCHANGED <<held, seen, state, log>> /\ (pc' = "after" <=> pc = "after")
      BY <2>1, <2>3 DEF Beside
    <3>2. Idle' = Idle /\ Showing' = Showing /\ Pending' = Pending
      BY <2>1, <3>1 DEF Idle, Showing, Pending
    <3>. QED
      BY <1>1, <1>2, <2>1, <3>1, <3>2 DEF DeliveryInv, InStep, CheckpointLag, UpToDate, SameAsRow
  <2>. QED BY <2>2, <2>3
<1>. QED BY <1>3, <1>4, <1>5

\* Saving a node.end brings the rows up to date.
LEMMA SaveKeeps ==
  ASSUME DeliveryInv, AtListener, Save, UNCHANGED <<graph, last, before>>
  PROVE  /\ RowsAreSeq' /\ RowsAreRead' /\ CheckpointLag' /\ "fields" \in DOMAIN LoadLatest'
         /\ LoadLatest' \in {LoadLatest, ReadBack(last)}
         /\ UpToDate => UpToDate'
         /\ turn = Checkpointer /\ Head(held) = "node.end" => UpToDate'
<1>1. held \in Seq(EventKind) /\ held # <<>> /\ InStep
  BY DEF DeliveryInv, PublicationInv, TypeOK, AtListener, Unserved, Idle
<1>2. CASE turn = Checkpointer /\ Head(held) = "node.end"
  <2>1. Showing
    BY <1>1, <1>2, HeadTailProperties, LenProperties DEF Showing
  <2>2. seen = last
    BY <1>1, <2>1 DEF InStep
  <2>3. rows' = Append(rows, ReadBack(last))
    BY <1>2, <2>2 DEF Save, SavedKind, Detached
  <2>4. /\ RowsAreSeq' /\ RowsAreRead' /\ LoadLatest' = ReadBack(last)
        /\ SameAsRow(last, LoadLatest') /\ "fields" \in DOMAIN LoadLatest'
    BY <2>3, RowAppended DEF DeliveryInv
  <2>. QED BY <2>4 DEF CheckpointLag, UpToDate, SameAsRow
<1>3. CASE ~(turn = Checkpointer /\ Head(held) = "node.end")
  <2>1. rows' = rows
    BY <1>3 DEF Save, SavedKind
  <2>2. LoadLatest' = LoadLatest
    BY <2>1 DEF LoadLatest, FreshState
  <2>. QED
    BY <1>3, <2>1, <2>2 DEF DeliveryInv, RowsAreSeq, RowsAreRead, CheckpointLag, UpToDate, SameAsRow
<1>. QED BY <1>2, <1>3

LEMMA GraphRunsKeeps ==
  ASSUME DeliveryInv, GraphRuns
  PROVE  DeliveryInv'
<1>1. PublicationInv'
  BY PublicationInvInductive DEF DeliveryInv, GraphRuns, Next, Environment
<1>2. "fields" \in DOMAIN last' /\ "fields" \in DOMAIN before'
  BY <1>1 DEF DeliveryInv, GraphRuns, published, PublicationInv, Observed
<1>3. LoadLatest' = LoadLatest
  BY GraphFixed DEF GraphRuns, LoadLatest, FreshState, Environment
<1>. QED
  BY <1>1, <1>2, <1>3, GraphRunsInStep
     DEF DeliveryInv, GraphRuns, RowsAreSeq, RowsAreRead, CheckpointComplete, Driving

LEMMA DeliverKeeps ==
  ASSUME DeliveryInv, Deliver
  PROVE  DeliveryInv'
<1>1. /\ AtListener /\ Save /\ InStep /\ UNCHANGED <<vars, driver, missed, last, before>>
      /\ turn' = turn + 1 /\ turn \in Nat
  BY DEF Deliver, DeliveryInv, AtListener, published
<1>2. PublicationInv' /\ UNCHANGED <<graph, held, pc, state, seen, log>>
  BY <1>1, PublicationInvInductive DEF DeliveryInv, vars, rest, runVars, histVars
<1>3. held \in Seq(EventKind) /\ held # <<>> /\ Head(held) = held[1]
  BY <1>1, HeadTailProperties DEF DeliveryInv, PublicationInv, TypeOK, AtListener, Unserved, Idle
<1>4. pc # "after" /\ ~Pending' => UpToDate'
  <2>1. CASE turn = Checkpointer /\ Head(held) = "node.end"
    BY <1>1, <1>2, <2>1, SaveKeeps
  <2>2. CASE ~(turn = Checkpointer /\ Head(held) = "node.end")
    <3>1. Pending => Pending'
      BY <1>1, <1>2, <1>3, <2>2, DeliveryAssumption DEF Pending
    <3>. QED BY <1>1, <1>2, <3>1, SaveKeeps DEF InStep
  <2>. QED BY <2>1, <2>2
<1>5. InStep'
  BY <1>1, <1>2, <1>3, <1>4 DEF InStep, Idle, Showing
<1>. QED
  BY <1>1, <1>2, <1>5, SaveKeeps DEF DeliveryInv, CheckpointComplete, Driving, AtListener

LEMMA NextObservationKeeps ==
  ASSUME DeliveryInv, NextObservation
  PROVE  DeliveryInv'
<1>1. /\ Driving /\ ConsumerPulls /\ InStep /\ turn > Listeners /\ turn' = 1 /\ turn \in Nat
      /\ UNCHANGED <<driver, rows, last, before>>
      /\ missed' = missed \cup turn .. Listeners
  BY DEF NextObservation, AllServed, DeliveryInv, published
<1>2. PublicationInv' /\ UNCHANGED <<graph, pc, state, seen, log>>
  BY <1>1, PublicationInvInductive DEF DeliveryInv, Next, ConsumerPulls, runVars, histVars
<1>3. missed' = missed
  BY <1>1, DeliveryAssumption
<1>4. /\ held \in Seq(EventKind) /\ held # <<>> /\ held' = Tail(held)
      /\ Len(held') = Len(held) - 1
      /\ \A i \in 1 .. Len(held) - 1 : held'[i] = held[i + 1]
  BY <1>1, HeadTailProperties DEF DeliveryInv, PublicationInv, TypeOK, ConsumerPulls, Idle
<1>5. held' \in Seq(EventKind) /\ Len(held) \in Nat
  BY <1>4, HeadTailProperties, LenProperties
<1>6. DOMAIN held = 1 .. Len(held) /\ DOMAIN held' = 1 .. Len(held) - 1
  BY <1>4, <1>5, LenProperties
<1>7. Showing' => Showing
  BY <1>4, <1>5, <1>6 DEF Showing
<1>8. Pending => Pending'
  <2>1. SUFFICES ASSUME Pending PROVE Pending'
    OBVIOUS
  <2>2. PICK i \in DOMAIN held : held[i] = "node.end" /\ (i = 1 => turn <= Checkpointer)
    BY <2>1 DEF Pending
  <2>3. i \in 2 .. Len(held)
    BY <1>1, <1>5, <1>6, <2>2, DeliveryAssumption
  <2>4. i - 1 \in DOMAIN held' /\ held'[i - 1] = "node.end"
    BY <1>4, <1>5, <1>6, <2>2, <2>3
  <2>. QED BY <1>1, <2>4, DeliveryAssumption DEF Pending
<1>9. LoadLatest' = LoadLatest
  BY <1>1, <1>2 DEF LoadLatest, FreshState
<1>10. InStep'
  BY <1>1, <1>2, <1>7, <1>8, <1>9 DEF InStep, UpToDate, SameAsRow
<1>. QED
  BY <1>1, <1>2, <1>3, <1>9, <1>10
     DEF DeliveryInv, RowsAreSeq, RowsAreRead, CheckpointLag, CheckpointComplete, SameAsRow, Driving

\* Closing a generator that is over only drops its terminal observation.
LEMMA CloseKeeps ==
  ASSUME PublicationInv, Close
  PROVE  /\ PublicationInv' /\ graph' = graph
         /\ outcome' # "closed" => outcome # "running"
<1>1. CASE ConsumerCloses
  BY <1>1, PublicationInvInductive DEF Next, Environment, ConsumerCloses
<1>2. CASE ~ConsumerCloses
  <2>1. /\ outcome # "running" /\ held' = <<>>
        /\ UNCHANGED <<peers, graph, pc, req, runVars, seen, foldVars, delta, outcome, histVars>>
    BY <1>2 DEF Close
  <2>2. TypeOK'
    BY <2>1, EmptySeq DEF PublicationInv, TypeOK, GateTypeOK, BranchTypeOK, peers, gateVars, branchVars,
       runVars, foldVars, histVars
  <2>3. RegionAdmits'
    BY <2>1 DEF PublicationInv, RegionAdmits, InRegion, foldVars
  <2>4. Observed'
    BY <2>1 DEF PublicationInv, Observed, PublishedIsObserved, Showing, Idle, runVars
  <2>. QED BY <2>1, <2>2, <2>3, <2>4 DEF PublicationInv
<1>. QED BY <1>1, <1>2

LEMMA ListenerFailsKeeps ==
  ASSUME DeliveryInv, ListenerFails
  PROVE  DeliveryInv'
<1>1. /\ AtListener /\ Close /\ InStep /\ driver' = "raised"
      /\ UNCHANGED <<turn, last, before>>
      /\ Save \/ rows' = rows
  BY DEF ListenerFails, DeliveryInv, AtListener, published
<1>2. PublicationInv' /\ graph' = graph /\ (outcome' # "closed" => outcome # "running")
  BY <1>1, CloseKeeps DEF DeliveryInv
<1>3. /\ RowsAreSeq' /\ RowsAreRead' /\ CheckpointLag' /\ "fields" \in DOMAIN LoadLatest'
      /\ UpToDate => UpToDate'
  <2>1. CASE Save
    BY <1>1, <1>2, <2>1, SaveKeeps
  <2>2. CASE rows' = rows
    <3>1. LoadLatest' = LoadLatest
      BY <1>2, <2>2 DEF LoadLatest, FreshState
    <3>. QED
      BY <1>1, <2>2, <3>1 DEF DeliveryInv, RowsAreSeq, RowsAreRead, CheckpointLag, UpToDate, SameAsRow
  <2>. QED BY <1>1, <2>1, <2>2
<1>4. outcome # "running" => UpToDate
  BY <1>1 DEF InStep, DeliveryInv, PublicationInv, Observed, Showing, Pending
<1>5. CheckpointComplete'
  BY <1>1, <1>2, <1>3, <1>4 DEF CheckpointComplete, UpToDate, SameAsRow
<1>. QED BY <1>1, <1>2, <1>3, <1>5 DEF DeliveryInv, Driving

LEMMA EndKeeps ==
  ASSUME DeliveryInv, Return \/ GraphFails
  PROVE  DeliveryInv'
<1>1. /\ InStep /\ pc = "ended" /\ Idle /\ driver' \in {"returned", "raised"}
      /\ UNCHANGED <<vars, turn, rows, missed, last, before>> /\ missed = {}
  BY DEF Return, GraphFails, Exhausted, Driving, DeliveryInv, published
<1>2. PublicationInv' /\ UNCHANGED <<graph, seen, outcome, log>>
  BY <1>1, PublicationInvInductive DEF DeliveryInv, vars, rest, histVars
<1>3. UpToDate /\ LoadLatest' = LoadLatest
  BY <1>1, <1>2 DEF InStep, Pending, Idle, LoadLatest, FreshState
<1>4. log # <<>> => seen.fields = last.fields
  BY <1>1 DEF InStep, DeliveryInv, PublicationInv, Observed, PublishedIsObserved
<1>5. log # <<>> => ReadBack(seen).fields = ReadBack(LoadLatest).fields
  <2>1. SUFFICES ASSUME log # <<>>
                 PROVE  ReadBack(seen).fields = ReadBack(last).fields
    BY <1>3 DEF UpToDate, SameAsRow
  <2>2. "fields" \in DOMAIN seen /\ "fields" \in DOMAIN last /\ seen.fields = last.fields
    BY <1>4, <2>1 DEF DeliveryInv, PublicationInv, Observed
  <2>. QED BY <2>2 DEF ReadBack
<1>6. CheckpointComplete' /\ CheckpointLag'
  BY <1>1, <1>2, <1>3, <1>5 DEF CheckpointComplete, CheckpointLag, UpToDate, SameAsRow
<1>. QED BY <1>1, <1>2, <1>3, <1>6 DEF DeliveryInv, RowsAreSeq, RowsAreRead, Driving

\* A new invocation on a state that has fields starts as the first one did.
LEMMA InvokeStarts ==
  ASSUME PublicationInv, NEW st, "fields" \in DOMAIN st, Invoke(st)
  PROVE  PublicationInv' /\ graph' = graph
<1>1. GateTypeOK'
  BY GatesAssumption DEF Invoke, GateTypeOK
<1>2. BranchTypeOK'
  BY EmptySeq DEF Invoke, BranchTypeOK, BranchPc, Outcome
<1>3. req' \in RequestType
  BY DEF Invoke, Request, RequestType, Boundary
<1>4. TypeOK'
  BY <1>1, <1>2, <1>3, EmptySeq DEF Invoke, PublicationInv, TypeOK, PcSet
<1>5. RegionAdmits' /\ Observed'
  BY DEF Invoke, RegionAdmits, InRegion, Observed, PublishedIsObserved, Showing, Idle
<1>. QED BY <1>4, <1>5 DEF Invoke, PublicationInv

LEMMA RestartKeeps ==
  ASSUME DeliveryInv, Restart
  PROVE  DeliveryInv'
<1>1. /\ driver' = "driving" /\ turn' = 1 /\ missed' = {} /\ rows' = rows
      /\ last' = LoadLatest /\ before' = LoadLatest
  BY DEF Restart
<1>2. "fields" \in DOMAIN LoadLatest /\ "fields" \in DOMAIN seen
  BY DEF DeliveryInv, PublicationInv, Observed
<1>3. PICK st \in {LoadLatest, seen} : Invoke(st)
  BY DEF Restart, Resumable
<1>4. PublicationInv' /\ graph' = graph
  BY <1>2, <1>3, InvokeStarts DEF DeliveryInv
<1>5. LoadLatest' = LoadLatest
  BY <1>1, <1>4 DEF LoadLatest, FreshState
<1>6. held' = <<>> /\ pc' = "edge" /\ log' = <<>>
  BY <1>3 DEF Invoke
<1>7. InStep'
  BY <1>1, <1>5, <1>6 DEF InStep, Showing, UpToDate, SameAsRow
<1>8. CheckpointLag'
  BY <1>1, <1>5 DEF CheckpointLag, SameAsRow
<1>. QED
  BY <1>1, <1>2, <1>4, <1>5, <1>7, <1>8
     DEF DeliveryInv, RowsAreSeq, RowsAreRead, CheckpointComplete, Driving

LEMMA DeliveryInvInductive ==
  ASSUME DeliveryInv, [DeliveryNext]_dvars
  PROVE  DeliveryInv'
<1>1. CASE UNCHANGED dvars
  <2>1. PublicationInv'
    BY <1>1, PublicationInvInductive DEF DeliveryInv, dvars
  <2>2. UNCHANGED <<graph, pc, held, state, seen, outcome, log>> /\ UNCHANGED deliveryVars
    BY <1>1 DEF dvars, vars, rest, runVars, histVars
  <2>3. LoadLatest' = LoadLatest
    BY <2>2 DEF deliveryVars, LoadLatest, FreshState
  <2>. QED
    BY <2>1, <2>2, <2>3 DEF DeliveryInv, deliveryVars, RowsAreSeq, RowsAreRead, Driving, InStep, Idle,
       Showing, Pending, UpToDate, SameAsRow, CheckpointLag, CheckpointComplete
<1>. QED
  BY <1>1, GraphRunsKeeps, DeliverKeeps, NextObservationKeeps, ListenerFailsKeeps, EndKeeps,
     RestartKeeps DEF DeliveryNext, Drive, Over

LEMMA DeliveryInvInitially ==
  ASSUME DeliveryInit
  PROVE  DeliveryInv
<1>1. PublicationInv /\ state = FreshState /\ "fields" \in DOMAIN state /\ held = <<>> /\ log = <<>>
      /\ pc = "edge"
  BY PublicationInvInitially DEF DeliveryInit, Init, FreshState
<1>2. RowsAreSeq /\ RowsAreRead /\ LoadLatest = state
  BY <1>1, EmptySeq DEF DeliveryInit, RowsAreSeq, RowsAreRead, LoadLatest
<1>. QED
  BY <1>1, <1>2 DEF DeliveryInit, DeliveryInv, InStep, Showing, UpToDate, SameAsRow, CheckpointLag,
     CheckpointComplete, Driving

\* A crash or a failure at any moment costs at most the last publication.
THEOREM CheckpointsKeepUp == DeliverySpec => []CheckpointLag
<1>1. DeliveryInv => CheckpointLag
  BY DEF DeliveryInv
<1>. QED BY <1>1, DeliveryInvInitially, DeliveryInvInductive, PTL DEF DeliverySpec

\* A run no listener cut short has checkpointed all it published, as far as
\* JSON can hold it.
THEOREM CheckpointsAreComplete == DeliverySpec => []CheckpointComplete
<1>1. DeliveryInv => CheckpointComplete
  BY DEF DeliveryInv
<1>. QED BY <1>1, DeliveryInvInitially, DeliveryInvInductive, PTL DEF DeliverySpec

\* After an observation has passed a listener by, nothing runs on.
THEOREM DeliveryFailsClosed == DeliverySpec => FailClosed
<1>1. ASSUME DeliveryInv, [DeliveryNext]_dvars, missed # {}
      PROVE  calls' \subseteq calls /\ log' \in {log, <<>>} /\ driver' # "returned"
  <2>1. driver = "raised" /\ ~Driving
    BY <1>1 DEF DeliveryInv, Driving
  <2>2. CASE Restart
    BY <2>2 DEF Restart, Invoke
  <2>3. CASE UNCHANGED dvars
    BY <2>1, <2>3 DEF dvars, deliveryVars, vars, peers, gateVars, rest, histVars
  <2>. QED
    BY <1>1, <2>1, <2>2, <2>3 DEF DeliveryNext, Drive, Over, GraphRuns, Deliver, NextObservation,
       ListenerFails, AtListener, Return, GraphFails, Exhausted
<1>2. ASSUME DeliveryInv, [DeliveryNext]_dvars
      PROVE  [missed # {} => /\ calls' \subseteq calls
                             /\ log' \in {log, <<>>}
                             /\ driver' # "returned"]_dvars
  BY <1>1, <1>2
<1>. QED BY <1>2, DeliveryInvInitially, DeliveryInvInductive, PTL DEF DeliverySpec, FailClosed

-----------------------------------------------------------------------------
(* The rows are one history: how far the states of a run have come.        *)

\* t is s and possibly more; t is s and more.
Grows(s, t) == Len(s) <= Len(t) /\ \A i \in 1 .. Len(s) : t[i] = s[i]
Grown(s, t) == Grows(s, t) /\ Len(s) < Len(t)

\* A state with a list of the nodes it has visited.
Walked(st) == "visited" \in DOMAIN st /\ st.visited \in Seq(Node)

\* A join has admitted branches of the region, which has some then.
Joined ==
  \/ pc = "fold"
  \/ pc \in {"ask", "mark", "call"} /\ req.boundary = "reducer"
  \/ pc = "commit" /\ req.boundary = "region"

\* Where a run is, against the state it published last and the newest row.
Trail ==
  /\ Grows(last.visited, state.visited)
  /\ pc # "after" => Grows(last.visited, seen.visited)
  /\ Visiting => Grown(last.visited, state.visited)
  /\ Joined => Edge.branches # <<>>
  /\ UpToDate \/ Grown(LoadLatest.visited, last.visited)

RowsFollow ==
  \A i \in 1 .. Len(rows) - 1 :
    rows[i] = rows[i + 1] \/ Grown(rows[i].visited, rows[i + 1].visited)

AllWalked ==
  /\ Walked(state) /\ Walked(seen) /\ Walked(last)
  /\ \A i \in DOMAIN rows : Walked(rows[i])

TrailInv ==
  /\ DeliveryInv /\ BudgetInv
  /\ AllWalked
  /\ Driving => Trail
  /\ driver = "returned" => Grows(LoadLatest.visited, seen.visited)
  /\ RowsFollow

\* Growth carries over, and growth by something in either step shows.
LEMMA GrowsOn ==
  ASSUME NEW r \in Seq(Node), NEW s \in Seq(Node), NEW t \in Seq(Node), Grows(r, s), Grows(s, t)
  PROVE  Grows(r, t) /\ (Len(r) < Len(s) \/ Len(s) < Len(t) => Grown(r, t))
<1>1. Len(r) \in Nat /\ Len(s) \in Nat /\ Len(t) \in Nat
  BY LenProperties
<1>. QED BY <1>1 DEF Grows, Grown

\* A list of visits is a history of itself.
LEMMA GrowsFromItself ==
  ASSUME NEW s \in Seq(Node)
  PROVE  Grows(s, s)
BY LenProperties DEF Grows

\* What is appended to the visits makes them grow.
LEMMA GrowsBy ==
  ASSUME NEW s \in Seq(Node), NEW u \in Seq(Node)
  PROVE  /\ s \o u \in Seq(Node) /\ Grows(s, s \o u)
         /\ u # <<>> => Grown(s, s \o u)
<1>1. /\ s \o u \in Seq(Node) /\ Len(s \o u) = Len(s) + Len(u)
      /\ \A i \in 1 .. Len(s) + Len(u) :
           (s \o u)[i] = IF i <= Len(s) THEN s[i] ELSE u[i - Len(s)]
  BY ConcatProperties
<1>2. Len(s) \in Nat /\ Len(u) \in Nat /\ (u # <<>> => Len(u) > 0)
  BY LenProperties, EmptySeq
<1>. QED BY <1>1, <1>2 DEF Grows, Grown

\* What a step of the graph that does not publish does to the visits.
Stride ==
  /\ Walked(state)' /\ Walked(seen)'
  /\ Grows(state.visited, state'.visited)
  /\ (pc # "after" /\ seen' = seen) \/ Grows(state.visited, seen'.visited)
  /\ Visiting' => (Visiting /\ state' = state) \/ Grown(state.visited, state'.visited)
  /\ Joined /\ Joined' => Edge' = Edge
  /\ Joined' /\ ~Joined => Edge'.branches # <<>>

\* Updates of a state that leave its fields alone.
LEMMA UpdatesWalk ==
  ASSUME NEW st, Walked(st)
  PROVE  /\ \A u \in Seq(Node) : Walked(Visited(st, u)) /\ Visited(st, u).visited = st.visited \o u
         /\ \A status, n : Walked(Halted(st, status, n)) /\ Halted(st, status, n).visited = st.visited
         /\ Walked([st EXCEPT !.status = "done"]) /\ [st EXCEPT !.status = "done"].visited = st.visited
BY GrowsBy DEF Walked, Visited, Halted

\* The scheduler loses no visit, and every node or region it enters adds some.
LEMMA SchedulerStrides ==
  ASSUME GroundInv, Walked(state), Walked(seen), Scheduler, ~CommitAllowed
  PROVE  Stride
<1>. USE DEF At, Reached
<1>a. Edge.branches \in Seq(Node) /\ Grows(state.visited, state.visited)
  BY EdgeTyped, GrowsFromItself DEF GroundInv, PublicationInv, Walked
<1>1. CASE \/ Exhaust \/ GateRefuses \/ GateFails \/ CallableFails \/ RaiseSettlement
           \/ RegionExhausts \/ RegionUnknown \/ RegionCancelled \/ RegionInadmissible
           \/ RegionUnmarked \/ JoinRefuses \/ FoldFails \/ LeaveGroup
  <2>1. pc # "after" /\ \E how : Raise(how)
    BY <1>1 DEF Exhaust, GateRefuses, GateFails, CallableFails, RaiseSettlement, AtRegion,
       RegionExhausts, RegionUnknown, RegionSettled, RegionCancelled, RegionInadmissible,
       RegionUnmarked, Joinable, JoinRefuses, AtField, FoldFails, LeaveGroup
  <2>. QED BY <1>a, <2>1 DEF Raise, runVars, Stride, Visiting, Joined
<1>2. CASE Finish \/ GateStops \/ NodeInterrupts \/ RegionStopped \/ RegionInterrupted
  <2>1. \E st \in {state, Snapshot} : \E final :
          /\ Walked(st) /\ Grows(state.visited, st.visited)
          /\ \/ final = [st EXCEPT !.status = "done"]
             \/ \E status, n : final = Halted(st, status, n)
          /\ pc' = "ended" /\ state' = final /\ seen' = final
    <3>1. Walked(Snapshot) /\ Grows(state.visited, Snapshot.visited)
      BY <1>a, UpdatesWalk, GrowsBy DEF Snapshot, BeforeRegion, Walked
    <3>2. CASE Finish
      BY <1>a, <3>2 DEF Finish, Terminate, Yield
    <3>3. CASE GateStops \/ NodeInterrupts \/ RegionStopped
      BY <1>a, <3>3 DEF GateStops, NodeInterrupts, RegionStopped, BeforeRegion, Terminate, Yield
    <3>4. CASE RegionInterrupted
      BY <3>1, <3>4 DEF RegionInterrupted, Terminate, Yield
    <3>. QED BY <1>2, <3>2, <3>3, <3>4
  <2>2. PICK st \in {state, Snapshot} : \E final :
          /\ Walked(st) /\ Grows(state.visited, st.visited)
          /\ \/ final = [st EXCEPT !.status = "done"]
             \/ \E status, n : final = Halted(st, status, n)
          /\ pc' = "ended" /\ state' = final /\ seen' = final
    BY <2>1
  <2>3. /\ \A status, n : Walked(Halted(st, status, n)) /\ Halted(st, status, n).visited = st.visited
        /\ Walked([st EXCEPT !.status = "done"]) /\ [st EXCEPT !.status = "done"].visited = st.visited
    BY <2>2, UpdatesWalk
  <2>4. Walked(state') /\ state'.visited = st.visited /\ seen' = state' /\ pc' = "ended"
    <3>1. PICK final :
            /\ \/ final = [st EXCEPT !.status = "done"]
               \/ \E status, n : final = Halted(st, status, n)
            /\ pc' = "ended" /\ state' = final /\ seen' = final
      BY <2>2
    <3>2. Walked(final) /\ final.visited = st.visited
      BY <2>3, <3>1
    <3>. QED BY <3>1, <3>2
  <2>. QED BY <2>2, <2>4 DEF Stride, Walked, Visiting, Joined
<1>3. CASE FollowStatic \/ RouterReturns
  <2>1. pc # "after" /\ (Raise("failed") \/ \E t : Select(t))
    BY <1>3 DEF FollowStatic, RouterReturns, Resolve
  <2>2. CASE Raise("failed")
    BY <1>a, <2>1, <2>2 DEF Raise, runVars, Stride, Visiting, Joined
  <2>3. CASE \E t : Select(t)
    BY <1>a, <2>3 DEF Select, Yield, Stride, Walked, Visiting, Joined
  <2>. QED BY <2>1, <2>2, <2>3
<1>4. CASE EnterNode
  <2>1. /\ target \in Node /\ pc' = "ask" /\ req'.boundary = "node"
        /\ state' = Visited(state, <<target>>) /\ seen' = state'
    BY <1>4 DEF EnterNode, LoopsOn, GroundInv, PublicationInv, TypeOK, Yield, Dispatch,
       NodeRequest, Request
  <2>2. <<target>> \in Seq(Node) /\ <<target>> # <<>>
    BY <2>1
  <2>3. Walked(state)' /\ Grown(state.visited, state'.visited)
    <3>1. /\ Walked(Visited(state, <<target>>))
          /\ Visited(state, <<target>>).visited = state.visited \o <<target>>
      BY <2>2, UpdatesWalk
    <3>2. state.visited \in Seq(Node)
      BY DEF Walked
    <3>. QED BY <2>1, <2>2, <3>1, <3>2, GrowsBy
  <2>. QED BY <2>1, <2>3 DEF Stride, Grown, Walked, Joined
<1>5. CASE EnterRegion
  <2>1. /\ pc' = "ask" /\ req'.boundary = "fanout" /\ state' = state /\ seen' = Snapshot
    BY <1>5 DEF EnterRegion, runVars, Yield, Dispatch, RegionRequest, Request
  <2>2. Walked(Snapshot) /\ Grows(state.visited, Snapshot.visited)
    BY <1>a, UpdatesWalk, GrowsBy DEF Snapshot, BeforeRegion, Walked
  <2>. QED BY <1>a, <2>1, <2>2 DEF Stride, Walked, Visiting, Joined
<1>6. CASE Join
  <2>1. /\ pc # "after" /\ pc' = "ask" /\ req'.boundary = "reducer" /\ UNCHANGED <<state, seen>>
        /\ Edge' = Edge
    BY <1>6 DEF Join, Joinable, RegionSettled, runVars, Dispatch, RegionRequest, Request, Edge
  <2>2. Names(Edge.branches) # {}
    BY <1>6 DEF Join
  <2>3. Edge.branches # <<>>
    BY <2>2 DEF Names
  <2>. QED BY <1>a, <2>1, <2>3 DEF Stride, Visiting
<1>7. CASE SettlementReturns \/ SettlementFails
  <2>1. /\ pc = "after" /\ state' = state /\ seen' = state /\ pc' \in {"edge", "then", "raise"}
    BY <1>7 DEF SettlementReturns, SettlementFails, Settlement, Show, Yield, Onward
  <2>. QED BY <1>a, <2>1 DEF Stride, Walked, Visiting, Joined
<1>8. CASE FoldField
  <2>1. pc = "fold" /\ (Raise("failed") \/ (pc' = "fold" /\ UNCHANGED <<seen, state, graph, node>>))
    BY <1>8 DEF FoldField, AtField, runVars
  <2>2. CASE Raise("failed")
    BY <1>a, <2>1, <2>2 DEF Raise, runVars, Stride, Visiting, Joined
  <2>3. CASE pc' = "fold" /\ UNCHANGED <<seen, state, graph, node>>
    BY <1>a, <2>1, <2>3 DEF Stride, Visiting, Joined, Edge
  <2>. QED BY <2>1, <2>2, <2>3
<1>9. CASE \/ AskRouter \/ DispatchAllowed \/ MarkerWritten \/ NodeReturns \/ AskJoin
           \/ SkipField \/ StartReducer \/ ReducerReturns \/ OfferRegion
  <2>1. pc # "after" /\ UNCHANGED <<state, seen, graph, node>>
    BY <1>9 DEF AskRouter, DispatchAllowed, MarkerWritten, NodeReturns,
       AskJoin, Joinable, RegionSettled, AtField, SkipField, StartReducer, ReducerReturns,
       OfferRegion, Offer, rest, runVars
  <2>2. (Visiting' => Visiting) /\ (Joined' => Joined)
    <3>1. CASE DispatchAllowed
      <4>1. pc = "ask" /\ req' = req
        BY <3>1 DEF DispatchAllowed
      <4>2. \/ pc' = "settle"
            \/ pc' = "fold" /\ req.boundary = "reducer"
            \/ pc' \in {"mark", "call"}
        BY <3>1 DEF DispatchAllowed, Pass, StartCallable, CallNow
      <4>. QED BY <4>1, <4>2 DEF Visiting, Joined
    <3>2. CASE AskRouter \/ MarkerWritten \/ NodeReturns \/ AskJoin
      BY <3>2 DEF AskRouter, MarkerWritten, CallNow, NodeReturns, Offer, AskJoin, Dispatch,
         RouterRequest, NodeRequest, RegionRequest, Request, Visiting, Joined
    <3>3. CASE SkipField \/ StartReducer \/ ReducerReturns \/ OfferRegion
      BY <3>3 DEF AtField, SkipField, StartReducer, ReducerReturns, OfferRegion, Offer,
         RegionRequest, Request, Visiting, Joined
    <3>. QED BY <1>9, <3>1, <3>2, <3>3
  <2>. QED BY <1>a, <2>1, <2>2 DEF Stride, Edge
<1>. QED BY <1>1, <1>2, <1>3, <1>4, <1>5, <1>6, <1>7, <1>8, <1>9 DEF Scheduler

\* The newest row stays while neither the rows nor the graph change.
LEMMA NewestStays ==
  ASSUME UNCHANGED <<rows, graph>>
  PROVE  LoadLatest' = LoadLatest
BY DEF LoadLatest, FreshState

\* There is a newest state also when there is no row.
LEMMA NewestWalked ==
  ASSUME AllWalked, RowsAreSeq
  PROVE  Walked(LoadLatest)
<1>1. CASE rows = <<>>
  BY <1>1, EmptySeq DEF LoadLatest, FreshState, Walked
<1>2. CASE rows # <<>>
  <2>1. PICK S : rows \in Seq(S)
    BY DEF RowsAreSeq
  <2>2. Len(rows) \in DOMAIN rows
    BY <1>2, <2>1, LenProperties, EmptySeq
  <2>. QED BY <1>2, <2>2 DEF LoadLatest, AllWalked
<1>. QED BY <1>1, <1>2

\* What was published last does not change, and the run gets on.
LEMMA TrailGetsOn ==
  ASSUME TrailInv, Driving, Stride, UNCHANGED <<rows, last, graph>>
  PROVE  AllWalked' /\ Trail' /\ RowsFollow'
<1>1. Trail /\ Walked(state) /\ Walked(seen) /\ Walked(last) /\ Walked(state') /\ Walked(seen')
  BY DEF TrailInv, AllWalked, Stride
<1>2. LoadLatest' = LoadLatest
  BY NewestStays
<1>3. Grows(last.visited, state'.visited)
  BY <1>1, GrowsOn DEF Trail, Stride, Walked
<1>4. \/ pc # "after" /\ seen' = seen
      \/ Grows(last.visited, seen'.visited)
  BY <1>1, GrowsOn DEF Trail, Stride, Walked
<1>5. Visiting' => Grown(last.visited, state'.visited)
  BY <1>1, GrowsOn DEF Trail, Stride, Walked, Grown
<1>6. Joined' => Edge'.branches # <<>>
  BY <1>1 DEF Trail, Stride
<1>7. Trail'
  BY <1>1, <1>2, <1>3, <1>4, <1>5, <1>6 DEF Trail, UpToDate, SameAsRow
<1>. QED BY <1>1, <1>7 DEF TrailInv, AllWalked, RowsFollow

\* Publication adds a visit to what was published before.
LEMMA TrailPublishes ==
  ASSUME TrailInv, GraphRuns, CommitAllowed
  PROVE  AllWalked' /\ Trail' /\ RowsFollow'
<1>. USE DEF At, Reached
<1>1. /\ InStep /\ Trail /\ Walked(state) /\ Walked(last) /\ AllWalked /\ TypeOK /\ BudgetCarried
      /\ RowsAreSeq
  BY DEF TrailInv, DeliveryInv, AllWalked, GraphRuns, BudgetInv
<1>2. /\ pc = "commit" /\ Idle /\ last' = state' /\ state' = Published
      /\ UNCHANGED <<rows, graph>>
  BY DEF GraphRuns, CommitAllowed
<1>3. UpToDate /\ LoadLatest' = LoadLatest
  BY <1>1, <1>2, NewestStays DEF InStep, Pending, Idle
<1>3a. LoadLatest.visited = last.visited
  BY <1>1, <1>3, NewestWalked, ReadBackOnce DEF UpToDate, SameAsRow, Walked
<1>4. Edge.branches \in Seq(Node)
  BY <1>1, EdgeTyped
<1>5. Walked(Published) /\ Grown(last.visited, Published.visited)
  <2>1. CASE InRegion
    <3>1. req.boundary = "region"
      BY <1>1, <1>2, <2>1 DEF BudgetCarried, AtNode, Carrying, InRegion
    <3>2. Edge.branches # <<>>
      BY <1>1, <1>2, <3>1 DEF Trail, Joined
    <3>3. Walked(Snapshot) /\ Grown(state.visited, Snapshot.visited)
      BY <1>1, <1>4, <3>2, UpdatesWalk, GrowsBy DEF Snapshot, BeforeRegion, Walked
    <3>4. Published = [Snapshot EXCEPT !.fields = MergeFields(@, Content(delta))]
      BY <2>1 DEF Published
    <3>5. Walked(Published) /\ Published.visited = Snapshot.visited
      BY <3>3, <3>4 DEF Walked
    <3>. QED BY <1>1, <3>3, <3>5, GrowsOn DEF Trail, Grown, Walked
  <2>2. CASE ~InRegion
    <3>1. req.boundary = "node"
      BY <1>1, <1>2, <2>2 DEF BudgetCarried, AcrossRegion, Carrying, RegionBoundary, InRegion, TypeOK
    <3>2. Grown(last.visited, state.visited)
      BY <1>1, <1>2, <3>1 DEF Trail, Visiting
    <3>3. Published = [state EXCEPT !.fields = MergeFields(@, Content(delta))]
      BY <2>2 DEF Published
    <3>4. Walked(Published) /\ Published.visited = state.visited
      BY <1>1, <3>3 DEF Walked
    <3>. QED BY <3>2, <3>4
  <2>. QED BY <2>1, <2>2
<1>6. Grows(Published.visited, Published.visited)
  BY <1>5, GrowsFromItself DEF Walked
<1>7. (pc' = "after" /\ seen' = seen) \/ (pc' \in {"edge", "then"} /\ seen' = Published)
  BY DEF CommitAllowed, Show, Yield, Onward
<1>8. AllWalked'
  BY <1>1, <1>2, <1>5, <1>7 DEF AllWalked
<1>9. Trail'
  BY <1>2, <1>3, <1>3a, <1>5, <1>6, <1>7 DEF Trail, Visiting, Joined
<1>. QED BY <1>2, <1>8, <1>9 DEF TrailInv, RowsFollow

\* The steps of the graph, of delivery, and of a crash keep the trail.
LEMMA TrailGraphRuns ==
  ASSUME TrailInv, GraphRuns
  PROVE  TrailInv'
<1>1. DeliveryInv' /\ BudgetInv'
  BY GraphRunsKeeps, BudgetInductive DEF TrailInv, GraphRuns, Next, Environment
<1>2. GroundInv /\ Walked(state) /\ Walked(seen) /\ Driving /\ Driving' /\ driver' = driver
  BY DEF TrailInv, DeliveryInv, GroundInv, AllWalked, GraphRuns, Driving
<1>3. ASSUME ~CommitAllowed
      PROVE  Stride /\ UNCHANGED <<rows, last, graph>>
  <2>1. UNCHANGED <<rows, last, graph>>
    BY <1>3, GraphFixed DEF GraphRuns, published, Environment
  <2>2. CASE Scheduler
    BY <1>2, <1>3, <2>1, <2>2, SchedulerStrides
  <2>3. CASE ~Scheduler
    <3>1. /\ UNCHANGED <<state, seen, node>> /\ pc # "after"
          /\ \/ req' = req /\ (pc' = pc \/ (pc = "settle" /\ pc' = "reap"))
             \/ pc' = "ended"
      BY <1>2, <2>3 DEF GroundInv, PublicationInv, Observed, GraphRuns, Branch, StopWhileHeld,
         SharedWrite, Cancel, Raise, CancelRegion, At, Reached, rest, runVars
    <3>2. Grows(state.visited, state.visited)
      BY <1>2, GrowsFromItself DEF Walked
    <3>. QED BY <1>2, <2>1, <3>1, <3>2 DEF Stride, Visiting, Joined, Edge
  <2>. QED BY <2>1, <2>2, <2>3
<1>4. AllWalked' /\ Trail' /\ RowsFollow'
  BY <1>2, <1>3, TrailGetsOn, TrailPublishes
<1>. QED BY <1>1, <1>2, <1>4 DEF TrailInv, Driving

\* A row that is saved follows the newest one.
LEMMA SavedFollows ==
  ASSUME TrailInv, AtListener, Save
  PROVE  RowsFollow' /\ \A i \in DOMAIN rows' : Walked(rows'[i])
<1>1. held \in Seq(EventKind) /\ held # <<>> /\ InStep /\ Trail /\ AllWalked
  BY DEF TrailInv, DeliveryInv, PublicationInv, TypeOK, AtListener, Unserved, Idle
<1>2. CASE turn = Checkpointer /\ Head(held) = "node.end"
  <2>1. Showing
    BY <1>1, <1>2, HeadTailProperties, LenProperties DEF Showing
  <2>a. PICK text : text = ReadBack(last)
    OBVIOUS
  <2>b. Walked(text) /\ text.visited = last.visited
    BY <1>1, <2>a, ReadBackOnce DEF AllWalked, Walked
  <2>2. rows' = Append(rows, text)
    BY <1>1, <1>2, <2>1, <2>a DEF Save, SavedKind, Detached, InStep
  <2>3. PICK S : rows \in Seq(S)
    BY DEF TrailInv, DeliveryInv, RowsAreSeq
  <2>4. rows \in Seq(S \cup {text}) /\ Len(rows) \in Nat /\ DOMAIN rows = 1 .. Len(rows)
    BY <2>3, SeqDef, LenProperties
  <2>5. Len(rows) \in Nat /\ Len(rows') = Len(rows) + 1
    BY <2>2, <2>4, AppendProperties
  <2>6. DOMAIN rows' = DOMAIN rows \cup {Len(rows) + 1}
    BY <2>2, <2>4, AppendProperties, LenProperties
  <2>7. (\A i \in 1 .. Len(rows) : rows'[i] = rows[i]) /\ rows'[Len(rows) + 1] = text
    BY <2>2, <2>4, AppendProperties
  <2>8. \A i \in DOMAIN rows' : Walked(rows'[i])
    BY <1>1, <2>b, <2>4, <2>6, <2>7 DEF AllWalked
  <2>9. ASSUME NEW i \in 1 .. Len(rows)
        PROVE  rows'[i] = rows'[i + 1] \/ Grown(rows'[i].visited, rows'[i + 1].visited)
    <3>1. CASE i \in 1 .. Len(rows) - 1
      <4>1. i + 1 \in 1 .. Len(rows)
        BY <2>5, <3>1
      <4>. QED BY <2>7, <3>1, <4>1 DEF TrailInv, RowsFollow
    <3>2. CASE i = Len(rows)
      <4>1. LoadLatest = rows[i] /\ ReadBack(rows[i]) = rows[i]
        BY <2>4, <2>5, <3>2, EmptySeq DEF LoadLatest, TrailInv, DeliveryInv, RowsAreRead
      <4>2. UpToDate => rows[i] = text
        BY <2>a, <4>1 DEF UpToDate, SameAsRow
      <4>. QED BY <1>1, <2>b, <2>7, <3>2, <4>1, <4>2 DEF Trail
    <3>. QED BY <2>5, <3>1, <3>2
  <2>. QED BY <2>5, <2>8, <2>9 DEF RowsFollow
<1>3. CASE ~(turn = Checkpointer /\ Head(held) = "node.end")
  BY <1>1, <1>3 DEF Save, SavedKind, TrailInv, RowsFollow, AllWalked
<1>. QED BY <1>2, <1>3

LEMMA TrailDeliver ==
  ASSUME TrailInv, Deliver
  PROVE  TrailInv'
<1>1. /\ AtListener /\ Save /\ Driving /\ UNCHANGED <<vars, driver, last, before>>
  BY DEF Deliver, AtListener, published
<1>2. UNCHANGED <<graph, node, pc, req, state, seen>>
  BY <1>1 DEF vars, rest, runVars
<1>3. DeliveryInv' /\ BudgetInv'
  BY <1>1, DeliverKeeps, BudgetInductive DEF TrailInv
<1>4. LoadLatest' = LoadLatest \/ UpToDate'
  <2>1. LoadLatest' \in {LoadLatest, ReadBack(last)} /\ "fields" \in DOMAIN last
    BY <1>1, <1>2, SaveKeeps DEF TrailInv, DeliveryInv
  <2>. QED BY <1>1, <2>1, ReadBackOnce DEF UpToDate, SameAsRow
<1>5. Trail /\ Trail'
  BY <1>1, <1>2, <1>4 DEF TrailInv, Trail, Visiting, Joined, Edge, UpToDate, SameAsRow
<1>. QED BY <1>1, <1>2, <1>3, <1>5, SavedFollows DEF TrailInv, AllWalked, Driving

LEMMA TrailNextObservation ==
  ASSUME TrailInv, NextObservation
  PROVE  TrailInv'
<1>1. Driving /\ ConsumerPulls /\ UNCHANGED <<driver, rows, last>>
  BY DEF NextObservation, published
<1>2. UNCHANGED <<graph, node, pc, req, state, seen>>
  BY <1>1 DEF ConsumerPulls, runVars
<1>3. DeliveryInv' /\ BudgetInv'
  BY <1>1, NextObservationKeeps, BudgetInductive DEF TrailInv, Next
<1>4. LoadLatest' = LoadLatest
  BY <1>1, <1>2, NewestStays
<1>. QED
  BY <1>1, <1>2, <1>3, <1>4 DEF TrailInv, AllWalked, Trail, RowsFollow, Visiting, Joined, Edge,
     UpToDate, SameAsRow, Driving

LEMMA TrailListenerFails ==
  ASSUME TrailInv, ListenerFails
  PROVE  TrailInv'
<1>1. /\ AtListener /\ Close /\ driver' = "raised" /\ UNCHANGED <<last, before>>
      /\ Save \/ rows' = rows
  BY DEF ListenerFails, published
<1>2. DeliveryInv'
  BY ListenerFailsKeeps DEF TrailInv
<1>3. UNCHANGED <<graph, node, state, seen>>
  BY <1>1 DEF Close, ConsumerCloses, runVars
<1>4. BudgetInv'
  <2>1. CASE ConsumerCloses
    BY <2>1, BudgetInductive DEF TrailInv, Next, Environment
  <2>2. CASE ~ConsumerCloses
    <3>1. UNCHANGED <<graph, node, pc, req, steps, result>>
      BY <1>1, <2>2 DEF Close, runVars, peers, branchVars
    <3>2. BudgetCarried'
      BY <3>1 DEF TrailInv, BudgetInv, BudgetCarried, AtNode, AcrossRegion, Launched, Carrying, Edge, With
    <3>. QED BY <1>2, <3>2 DEF BudgetInv, DeliveryInv, PublicationInv
  <2>. QED BY <2>1, <2>2
<1>5. RowsFollow' /\ \A i \in DOMAIN rows' : Walked(rows'[i])
  <2>1. CASE Save
    BY <1>1, <2>1, SavedFollows
  <2>2. CASE rows' = rows
    BY <2>2 DEF TrailInv, AllWalked, RowsFollow
  <2>. QED BY <1>1, <2>1, <2>2
<1>. QED BY <1>1, <1>2, <1>3, <1>4, <1>5 DEF TrailInv, AllWalked, Driving

LEMMA TrailEnds ==
  ASSUME TrailInv, Return \/ GraphFails
  PROVE  TrailInv'
<1>1. /\ Driving /\ pc = "ended" /\ Idle /\ driver' \in {"returned", "raised"}
      /\ UNCHANGED <<vars, rows, last>>
  BY DEF Return, GraphFails, Exhausted, published
<1>2. UNCHANGED <<graph, state, seen>>
  BY <1>1 DEF vars, rest, runVars
<1>3. DeliveryInv' /\ BudgetInv'
  BY <1>1, EndKeeps, BudgetInductive DEF TrailInv
<1>4. LoadLatest' = LoadLatest /\ UpToDate
  BY <1>1, <1>2, NewestStays DEF TrailInv, DeliveryInv, InStep, Pending, Idle
<1>5. LoadLatest.visited = last.visited
  BY <1>4, NewestWalked, ReadBackOnce DEF UpToDate, SameAsRow, Walked, TrailInv, DeliveryInv, AllWalked
<1>. QED BY <1>1, <1>2, <1>3, <1>4, <1>5 DEF TrailInv, AllWalked, Trail, RowsFollow, Driving

LEMMA TrailRestarts ==
  ASSUME TrailInv, Restart
  PROVE  TrailInv'
<1>1. driver' = "driving" /\ rows' = rows /\ last' = LoadLatest
  BY DEF Restart
<1>2. DeliveryInv'
  BY RestartKeeps DEF TrailInv
<1>3. Walked(LoadLatest) /\ Walked(seen) /\ AllWalked
  BY NewestWalked DEF TrailInv, DeliveryInv, AllWalked
<1>4. PICK st \in {LoadLatest} \cup (IF driver = "returned" THEN {seen} ELSE {}) : Invoke(st)
  BY DEF Restart, Resumable
<1>5. Walked(st) /\ Grows(LoadLatest.visited, st.visited)
  BY <1>3, <1>4, GrowsFromItself DEF TrailInv, Walked
<1>6. /\ state' = st /\ seen' = st /\ pc' = "edge" /\ graph' = graph /\ node' = START /\ steps' = 0
  BY <1>4 DEF Invoke
<1>7. LoadLatest' = LoadLatest
  BY <1>1, <1>6, NewestStays
<1>8. BudgetInv'
  <2>1. TypeOK'
    BY <1>2 DEF DeliveryInv, PublicationInv
  <2>2. graph'.maxSteps \in Nat
    BY <2>1, <1>6, EdgeTyped DEF TrailInv, BudgetInv, IsGraph
  <2>. QED BY <1>6, <2>1, <2>2 DEF BudgetInv, BudgetCarried, AtNode, AcrossRegion, Launched, Carrying
<1>9. Trail'
  BY <1>1, <1>5, <1>6, <1>7 DEF Trail, Visiting, Joined, UpToDate, SameAsRow
<1>10. AllWalked'
  BY <1>1, <1>3, <1>5, <1>6 DEF AllWalked
<1>. QED BY <1>1, <1>2, <1>8, <1>9, <1>10 DEF TrailInv, RowsFollow

LEMMA TrailInvInductive ==
  ASSUME TrailInv, [DeliveryNext]_dvars
  PROVE  TrailInv'
<1>1. CASE UNCHANGED dvars
  <2>1. DeliveryInv' /\ BudgetInv'
    BY <1>1, DeliveryInvInductive, BudgetInductive DEF TrailInv, dvars
  <2>2. UNCHANGED <<graph, node, pc, req, state, seen>> /\ UNCHANGED <<driver, rows, last>>
    BY <1>1 DEF dvars, vars, rest, runVars, deliveryVars
  <2>3. LoadLatest' = LoadLatest
    BY <2>2, NewestStays
  <2>. QED
    BY <2>1, <2>2, <2>3 DEF TrailInv, AllWalked, Trail, RowsFollow, Visiting, Joined, Edge,
       UpToDate, SameAsRow, Driving
<1>. QED
  BY <1>1, TrailGraphRuns, TrailDeliver, TrailNextObservation, TrailListenerFails, TrailEnds,
     TrailRestarts DEF DeliveryNext, Drive, Over

LEMMA TrailInvInitially ==
  ASSUME DeliveryInit
  PROVE  TrailInv
<1>1. DeliveryInv /\ BudgetInv
  BY DeliveryInvInitially, BudgetInitially DEF DeliveryInit
<1>2. /\ driver = "driving" /\ rows = <<>> /\ last = state /\ seen = state /\ pc = "edge"
      /\ state = FreshState
  BY DEF DeliveryInit, Init
<1>3. Walked(state) /\ Grows(state.visited, state.visited)
  BY <1>2, EmptySeq, GrowsFromItself DEF FreshState, Walked
<1>4. LoadLatest = state
  BY <1>2 DEF LoadLatest
<1>. QED
  BY <1>1, <1>2, <1>3, <1>4 DEF TrailInv, AllWalked, Trail, RowsFollow, Visiting, Joined, UpToDate,
     SameAsRow

\* Over crashes and repeated invocations the table is one history: every row
\* has visited what the row before it has, in the same order, and more
\* unless both are rows of one region.
THEOREM RowsFollowOneAnother == DeliverySpec => []RowsAreOneHistory
<1>1. TrailInv => RowsAreOneHistory
  <2>1. SUFFICES ASSUME TrailInv, NEW i \in 1 .. Len(rows) - 1
                 PROVE  /\ IsPrefix(rows[i].visited, rows[i + 1].visited)
                        /\ rows[i].visited = rows[i + 1].visited => rows[i] = rows[i + 1]
    BY DEF RowsAreOneHistory
  <2>2. PICK S : rows \in Seq(S)
    BY <2>1 DEF TrailInv, DeliveryInv, RowsAreSeq
  <2>3. i \in DOMAIN rows /\ i + 1 \in DOMAIN rows
    BY <2>2, LenProperties
  <2>4. rows[i].visited \in Seq(Node) /\ rows[i + 1].visited \in Seq(Node)
    BY <2>1, <2>3 DEF TrailInv, AllWalked, Walked
  <2>5. CASE rows[i] = rows[i + 1]
    BY <2>4, <2>5 DEF IsPrefix
  <2>6. CASE Grown(rows[i].visited, rows[i + 1].visited)
    <3>1. \A s \in Seq(Node), t \in Seq(Node) : Grows(s, t) => IsPrefix(s, t)
      <4>1. SUFFICES ASSUME NEW s \in Seq(Node), NEW t \in Seq(Node), Grows(s, t)
                     PROVE  Len(s) <= Len(t) /\ SubSeq(s, 1, Len(s)) = SubSeq(t, 1, Len(s))
        BY DEF IsPrefix
      <4>2. Len(s) \in Nat /\ Len(t) \in Nat
        BY LenProperties
      <4>. QED BY <4>1, <4>2 DEF Grows
    <3>2. Len(rows[i].visited) < Len(rows[i + 1].visited)
      BY <2>6 DEF Grown
    <3>3. Len(rows[i].visited) \in Nat
      BY <2>4, LenProperties
    <3>. QED BY <2>4, <2>6, <3>1, <3>2, <3>3 DEF Grown
  <2>. QED BY <2>1, <2>5, <2>6 DEF TrailInv, RowsFollow
<1>. QED BY <1>1, TrailInvInitially, TrailInvInductive, PTL DEF DeliverySpec
=============================================================================
