------------------------------ MODULE Delivery ------------------------------
(***************************************************************************)
(* run_with_plugins of graph/plugins/observer.py: the consumer that hands  *)
(* every observation of the scheduler to its listeners, one after the      *)
(* other, with the SqliteCheckpointer among them; and a process that may   *)
(* crash, load the newest checkpoint and run the graph again.              *)
(***************************************************************************)
EXTENDS Engine

CONSTANTS
  Listeners,     \* how many: delivery first, then the plugins as registered
  Checkpointer,  \* which of them is the checkpointer
  Altered,       \* what <<field, value>> comes back as, where JSON changes it
  Unreadable,    \* what a value is on the way back that its field refuses
  MaxRestarts    \* bound on the invocations after the first

ASSUME DeliveryAssumption ==
  /\ Listeners \in Nat
  /\ Checkpointer \in 1 .. Listeners
  /\ MaxRestarts \in Nat

\* What has been through JSON once is not changed by it again.
ASSUME AlteredAssumption ==
  \A p \in DOMAIN Altered : <<p[1], Altered[p]>> \notin DOMAIN Altered

VARIABLES
  driver,    \* what run_with_plugins is doing, or how it ended
  turn,      \* the next listener for the observation at the head of held
  scrap,     \* a listener has written into its payload of that observation
  rows,      \* the table checkpoints, each text as the state it reads as;
             \* they survive a crash
  missed,    \* history: listeners that some observation was not delivered to
  last,      \* history: the state published last, at first the newest row
  before,    \* history: the one published before it
  restarts   \* history: invocations begun after the first

deliveryVars == <<driver, turn, scrap, rows, missed, last, before, restarts>>
published == <<last, before>>
dvars == <<vars, deliveryVars>>

Driving == driver = "driving"

\* The variant that orders by ascending id.
LoadOldest == IF rows = <<>> THEN FreshState ELSE rows[1]

\* load_latest, or the caller's own initial state when there is no row.
LoadLatest == IF rows = <<>> THEN FreshState ELSE rows[Len(rows)]

DeliveryInit ==
  /\ Init
  /\ driver = "driving"
  /\ turn = 1
  /\ scrap = FALSE
  /\ rows = <<>>
  /\ missed = {}
  /\ last = state
  /\ before = state
  /\ restarts = 0

\* The variant that hands the same object to every listener.
Shared(st) == IF scrap THEN [st EXCEPT !.fields = [f \in Field |-> NoValue]] ELSE st

\* The state in a listener's payload: a deep copy of its own.
Detached(st) == st

\* model_dump_json and back.  A field of type Any, or inside one, may hold
\* what JSON has no form for: a tuple comes back as a list, a datetime as a
\* string.  merge does not validate, so a field may also hold what its type
\* refuses on the way back.  Visits and status are literal.
ReadBack(st) ==
  [st EXCEPT !.fields =
     [f \in DOMAIN @ |-> IF <<f, @[f]>> \in DOMAIN Altered THEN Altered[<<f, @[f]>>] ELSE @[f]]]

\* load_latest returns the state, where it does not raise.
Readable(st) == \A f \in DOMAIN st.fields : st.fields[f] # Unreadable

-----------------------------------------------------------------------------
\* The generator runs on, once its last observation has been delivered.
GraphRuns ==
  /\ Driving
  /\ Scheduler \/ Branch \/ StopWhileHeld \/ SharedWrite \/ Cancel \/ CancelRegion
  /\ IF CommitAllowed THEN last' = state' /\ before' = last
                      ELSE UNCHANGED published
  /\ UNCHANGED <<driver, turn, scrap, rows, missed, restarts>>

AllServed == turn > Listeners

\* The variant that saves when the next node is known.
LateKind == "edge.selected"

\* SqliteCheckpointer.on_observation: a row for every node.end.  What
\* JSON refuses to write makes the listener fail.
SavedKind == "node.end"
Save == rows' = IF turn = Checkpointer /\ Head(held) = SavedKind
                THEN Append(rows, ReadBack(Detached(seen))) ELSE rows

\* A listener has not been given the observation that is held.
Unserved == ~Idle /\ turn <= Listeners
AtListener == Driving /\ Unserved

Deliver ==
  /\ AtListener
  /\ Save
  /\ turn' = turn + 1
  /\ scrap' \in {scrap, TRUE}
  /\ UNCHANGED <<vars, driver, missed, published, restarts>>

\* The rest of the listeners never see the observation.
NextObservation ==
  /\ Driving
  /\ AllServed
  /\ ConsumerPulls
  /\ turn' = 1
  /\ scrap' = FALSE
  /\ missed' = missed \cup turn .. Listeners
  /\ UNCHANGED <<driver, rows, published, restarts>>

\* The variant that raises without closing the iterator.
LeaveOpen == UNCHANGED vars

\* aclose: a suspended generator ends; one that has yielded its terminal
\* observation was over.
Close ==
  \/ ConsumerCloses
  \/ /\ ~Idle /\ outcome # "running"
     /\ held' = <<>>
     /\ UNCHANGED <<peers, graph, pc, req, runVars, seen, foldVars, delta, outcome, histVars>>

\* The variant that logs the failure and serves the others.
SkipListener ==
  /\ AtListener
  /\ rows' = rows
  /\ turn' = turn + 1
  /\ missed' = missed \cup {turn}
  /\ UNCHANGED <<vars, driver, scrap, published, restarts>>

\* A listener raises or is cancelled while it is awaited, the checkpointer
\* before or after its row is committed.
ListenerFails ==
  /\ AtListener
  /\ Save \/ rows' = rows
  /\ Close
  /\ driver' = "raised"
  /\ missed' = missed \cup turn .. Listeners
  /\ UNCHANGED <<turn, scrap, published, restarts>>

Completing == {"done", "interrupted", "stopped"}
Exhausted == Driving /\ pc = "ended" /\ Idle

\* The iterator is exhausted: the last state is returned.
Return ==
  /\ Exhausted
  /\ outcome \in Completing
  /\ driver' = "returned"
  /\ UNCHANGED <<vars, turn, scrap, rows, missed, published, restarts>>

GraphFails ==
  /\ Exhausted
  /\ outcome \notin Completing
  /\ driver' = "raised"
  /\ UNCHANGED <<vars, turn, scrap, rows, missed, published, restarts>>

\* aobserve on a state: a new generator, and no gate or branch of the old one.
Invoke(st) ==
  /\ gate' \in Gates
  /\ latch' = FALSE /\ allowed' = {} /\ marked' = {} /\ calls' = {}
  /\ bpc' = [n \in Node |-> "idle"] /\ result' = [n \in Node |-> "none"] /\ finished' = <<>>
  /\ graph' = graph
  /\ pc' = "edge" /\ held' = <<>> /\ outcome' = "running"
  /\ req' = Request("router", {START}, 0, START, 0, 0)
  /\ node' = START /\ target' = END /\ steps' = 0
  /\ state' = st /\ seen' = st
  /\ admitted' = {} /\ field' = 1 /\ delta' = NoDelta
  /\ log' = <<>> /\ approved' = {} /\ entered' = <<>>

\* A crash loses everything but the rows.  The caller runs the graph again,
\* from the newest row if it can be read or, after a return, from the state
\* it was given.
Resumable ==
  {st \in {LoadLatest} : Readable(st)} \cup (IF driver = "returned" THEN {seen} ELSE {})

Restart ==
  /\ restarts < MaxRestarts
  /\ restarts' = restarts + 1
  /\ \E st \in Resumable : Invoke(st)
  /\ driver' = "driving"
  /\ turn' = 1
  /\ scrap' = FALSE
  /\ missed' = {}
  /\ last' = LoadLatest /\ before' = LoadLatest
  /\ rows' = rows

Over == ~Driving /\ UNCHANGED dvars

Drive == GraphRuns \/ Deliver \/ NextObservation \/ ListenerFails \/ Return \/ GraphFails

DeliveryNext == Drive \/ Restart \/ Over

\* A listener that is awaited returns or raises, and so does the graph.
DeliveryFairness ==
  /\ WF_dvars(Driving /\ Scheduler /\ GraphRuns)
  /\ WF_dvars(Driving /\ Branch /\ GraphRuns)
  /\ WF_dvars(Deliver) /\ WF_dvars(NextObservation)
  /\ WF_dvars(Return) /\ WF_dvars(GraphFails)

DeliverySpec == DeliveryInit /\ [][DeliveryNext]_dvars /\ DeliveryFairness

-----------------------------------------------------------------------------
\* Delivery is fail-closed (observer.py:59-61): once an observation has
\* passed a listener by, no callable receives control, nothing is published
\* and the run does not return, whatever the graph is in the middle of.
FailClosed ==
  [][missed # {} => /\ calls' \subseteq calls
                    /\ log' \in {log, <<>>}
                    /\ driver' # "returned"]_dvars

\* Two states that JSON does not tell apart.
SameAsRow(st, row) == ReadBack(st) = ReadBack(row)

\* At any moment a crash or failure costs at most the last publication: the
\* newest row is the last state published, or the one before it, but for
\* what JSON changes in a value.  A row never holds what another listener
\* made of its own payload.
CheckpointLag ==
  \E st \in {last, before} : SameAsRow(st, LoadLatest)

\* A run that was not cut short by a listener has checkpointed all it
\* published, also when the graph fails, is refused or cancelled: the newest
\* row is what JSON makes of the last state.  What run_with_plugins returns
\* then agrees with it in every field, up to the same round trip, though
\* not in its status and visits.
CheckpointComplete ==
  ~Driving /\ outcome # "closed" =>
    /\ SameAsRow(last, LoadLatest)
    /\ driver = "returned" /\ log # <<>> => ReadBack(seen).fields = ReadBack(LoadLatest).fields

\* The table is one history, over crashes and repeated invocations: every
\* row has visited what the row before it has, in the same order, and more
\* unless both are rows of one region.
RowsAreOneHistory ==
  \A i \in 1 .. Len(rows) - 1 :
    /\ IsPrefix(rows[i].visited, rows[i + 1].visited)
    /\ rows[i].visited = rows[i + 1].visited => rows[i] = rows[i + 1]

\* The run ends, and the generator with it: a failure leaves no suspended
\* scheduler behind.
DriverEnds == <>[](~Driving /\ pc = "ended" /\ Idle)
=============================================================================
