# A TLA+ model of perpetua-core

`perpetua-core` is the kernel that runs an agent graph: an asynchronous
generator walks the graph, asks an external gate at every boundary, runs node
code and fan-out branches, folds their results with reducers and publishes
observations to whoever iterates it. Around it are a serialisable description
of graphs with a static validator, plugins (checkpoints, interrupts, subgraphs,
tools, validation, parallel dispatch), adapters, and small services (backend
discovery, a hardware policy, a gossip log). This directory models the kernel
and the parts around it, checks them with TLC and proves the most important
properties with TLAPS.

Paths below are relative to `src/src/perpetua_core/`.

## 1. Inventory

| part | source | state it keeps | operations |
|---|---|---|---|
| Graph scheduler | `graph/engine.py` `CompiledGraph._run`, `_run_region` | current node, target, steps, the state, one delta in flight, pending settlement error | enter a node, resolve an edge, run a region, commit, settle, yield, raise |
| Fan-out branches and joins | `graph/engine.py` `_settle_gated`, `_admit`, `FanOut`, `Join` | one task per branch, one outcome per task | dispatch, mark, run, cancel, wait for the group, admit |
| Dispatch gate seam | `graph/gate.py`, `_dispatch`, `_before_start`, `_commit`, `_after_commit` | none of its own; the gate is supplied per invocation | `before_dispatch`, `before_start`, `before_commit`, `after_commit` |
| Reducers | `graph/reducers.py`, `_fold` | none | fold one field's contributions |
| Graph state | `state.py` | visited nodes, status, fields, metadata | `merge` |
| GraphSpec and identity | `graph/spec.py`, `MiniGraph`, `_describe_topology` | the builder's registrations | register, describe, canonical order, dump, load, hash |
| Static validation | `graph/lint.py` | none | reachability, region, router checks |
| Observer fan-out, delivery, streaming | `graph/plugins/observer.py`, `graph/delivery.py`, `graph/plugins/streaming.py` | listeners, the iterator | drive, deliver, close, aggregate failures |
| Checkpointer, interrupts, resume guard | `graph/plugins/checkpointer.py`, `interrupts.py`, `interrupt_guard.py` | append-only rows per run | save, load the newest, resume |
| Subgraphs | `graph/plugins/subgraphs.py` | none | a whole invocation as one node |
| Parallel dispatch, batches | `graph/plugins/parallel.py`, `graph/adapters/langchain_adapter.py` | a semaphore | gather, bounded batch |
| Tool node, structured output, validator | `graph/plugins/` | a child process, an attempt count | run with a timeout, retry, check before and after a node |
| Backend discovery | `discovery/` | newest observation per backend | observe, select |
| Hardware policy | `policy.py`, `config/` | a loaded table | verdict per tier, route with fallback |
| Gossip log | `gossip.py` | append-only rows | append, tail |
| Export, routing label, tool schema, streaming | `graph/adapters/`, `graph/plugins/` | none | projections |
| LLM client, messages | `llm.py`, `message.py` | none | HTTP, data classes |

**Interactions.** The consumer (`ainvoke`, `asteps`, or `run_with_plugins`)
pulls observations from the generator; while it holds one, the generator is
suspended at a `yield` and the consumer may do anything, including closing the
iterator or telling the gate's owner to stop. The generator awaits the gate,
node code, the region's task group and nothing else. The branches of a region
are tasks of one `asyncio.TaskGroup`; they share the gate and each gets its own
copy of the state. Reducers are pure. The gate is code of another repository.
`as_node` runs a whole invocation inside a node; `resume_policy` edits the
state between two invocations. `parallel_dispatch` and `abatch` use plain
`asyncio.gather`, so their tasks have no group that would hold them together.
The validator reads a description and never the graph; discovery, policy and
gossip are called by the composition around the kernel and share no state with
it.

**What is hard.** Branch tasks interleave with each other and with a
cancellation of the whole run. The gate and node code run between a check and
its use: a delta is hashed, the gate is awaited, then the delta is merged. Two
different authorities exist (one decision for the whole region, or one per
branch and reducer), chosen by which hooks the gate implements. Several things
can go wrong in one region at once and exactly one must surface. The settlement
hook may fail after publication. The step budget is tested before a region and
charged after it. A graph may have cycles. An interrupted state starts again at
START with the status and prompt of the earlier invocation. What a node
returns as its scratchpad replaces the old one as a whole. Children of a tool
node may hang, may leave descendants behind and may be abandoned. Observations
of a backend and rows of the gossip log arrive in another order than the one
they were made in. `PROJECT.json` lists each of these
hazards at its line.

**What makes each part correct.**
- Scheduler: no callable runs without authority; what is published is what was
  committed; a publication is always observed; the budget holds; every
  invocation ends; the sequence of publications is a walk of the graph.
- Regions: no task outlives its region; all or nothing; the commit depends only
  on what was admitted, never on completion order; a failed start marker is
  never masked.
- Reducers: `union` and `concat` lose nothing; the order-independent kinds are.
- Observer and checkpointer: every listener sees every observation of a clean
  run in order; a reload returns a published state; resuming does not lose or
  repeat a publication unnoticed.
- Validation: the worklist finds exactly the reachable nodes; what is reported
  unreachable is never entered; a validated graph meets no unknown name.
- GraphSpec: a dump reads back, a description cannot change behind its id, and
  the id depends on the content and not on the order of registration.
- Sessions: `nodes_visited`, status and prompt tell the truth at every depth of
  nesting and after every resumption; an answer lasts from the row that holds it.
- Parallel dispatch: the bound on concurrency; what may be left behind; every
  task settles; no output of a branch is lost.
- Tool node: no child outlives its node; the timeout ends the wait.
- Discovery, policy, gossip: a choice follows the last word that came of each
  backend; what resolve answers for a model that some tier admits passes the
  affinity check; a poller is given
  nothing twice and loses events for known reasons only.

## 2. Modules

| module | models |
|---|---|
| `Gate` | The gate seam: which hooks a gate has, requests, the answers it may give, and its ledger (`allowed`, `marked`, `calls`). |
| `Branches` | The branch tasks of one region (`bpc`, `result`, `finished`), the task group, the joins. Extends `Gate`. |
| `Reducers` | `reduce_field` and its six kinds, as operators on tagged values. |
| `Folding` | One call of `reduce_field`, and what each kind of reducer promises. Extends `Reducers`. |
| `Engine` | The generator with its consumer, cancellation, and node code that keeps a reference to its delta. Extends `Branches` and `Reducers`. |
| `EngineProps` | Type invariant, safety, action and liveness properties, and the refinement mapping to `GraphWalk`. |
| `GraphWalk` | The abstract specification of an invocation. |
| `GraphSpec` | The data of a description, its canonical order, identity, creation and loading. |
| `Lint` | `lint_graph_spec`: each error and warning. Extends `GraphSpec`. |
| `Worklist` | The loop that finds the reachable nodes. Extends `Lint`. |
| `Builder` | `MiniGraph` and `_describe_topology`. Extends `Lint`. |
| `Exchange` | The life of a description from the builder's calls to its reader. Extends `Builder`. |
| `LintedWalk` | `compile_validated` and then a run: the loop of `Worklist`, then an instance of `GraphWalk` for the described graph. Extends `Worklist`. |
| `Sessions` | A caller's session: nested graphs, interrupts, `resume_policy`, `load_latest`. |
| `Gather` | `asyncio.gather` with and without the semaphore of `abatch`. |
| `ToolNodes` | Tasks of `Gather` that run tool nodes with child processes, and the merge of `parallel_dispatch`. Extends `Gather`. |
| `Validated` | Nodes wrapped by `Validated`, as the scheduler runs them. |
| `Structured` | The retry loop of `chat_structured`. |
| `Discovery`, `Policy`, `Gossip` | The three services. |
| `Export` | A native walk beside the walk of the exported topology. |
| `Delivery` | `run_with_plugins` with its listeners and the checkpointer, over `Engine`; crashes and repeated invocations. |
| `Dicts` | Python's dict displays, written out for the proofs. Used by `Sessions`, `ToolNodes` and `Validated`. |
| `EngineProofs` | Proofs of the type invariant, of the step budget, and about authority, structured concurrency and stops. |
| `EnginePublication` | Proofs about what is published: it is observed, runs end truthfully, it was approved, regions commit whole, and the log is a walk of `GraphWalk`. Extends `EngineProofs`. |
| `DeliveryProofs` | Proofs about delivery and checkpoints, over `EnginePublication`. |
| `DescriptionProofs` | Sorting and canonical order; one description for what is registered; what a reader gets; the worklist is exact; static validation is sound. Extends `Exchange` and `LintedWalk`. |
| `ToolNodesProofs` | Proofs about `Gather`, then about `ToolNodes`. |
| `SessionsProofs` | Proofs about `Sessions`. |
| `ServicesProofs` | Proofs about the services and the plugins that stand alone: `Discovery`, `Policy`, `Gossip`, `Export`, `Validated`, `Structured`, and about `Folding`. |
| `Induction` | Facts that those proofs share: induction over sets of numbers, the ranks of an order on a finite set, and folds from the left. |
| `MCServices` | Instance of `Discovery`, `Policy` and `Gossip`, which share no state: a behaviour moves one of them. |
| `MCParts` | The same for `Folding`, `Validated`, `Structured` and `Export`. |
| `MC...` (others) | Instances for TLC of the module named. |

### How `Engine` corresponds to the code

`pc` is the place the coroutine is at:

| `pc` | place in `engine.py` |
|---|---|
| `edge`, `then` | about to resolve the edge of `current_node` (525-552), or the `then` of a region (527-535) |
| `ask`, `mark` | awaiting `before_dispatch` (560-581), `before_start` (583-595) |
| `call` | awaiting a router, a node, a custom join or a custom reducer |
| `loop` | the `while` of `_run`, after `edge.selected` (447) |
| `settle`, `reap` | inside the task group (887), and inside it after a cancellation |
| `fold` | `_fold`, one field at a time (932-982) |
| `commit`, `after` | awaiting `before_commit` (597-620), `after_commit` (622-639) |
| `raise` | about to raise the settlement error, all observations shown (521-523, 829-831) |
| `ended` | returned, raised or closed; `outcome` says which |

`held` is the queue of observations that were yielded and not yet pulled. The
code yields one observation at a time; several `yield`s with nothing between
them that another process could notice are one step that queues them all, and
the generator moves on only when `held` is empty (`At`). Consumer, gate owner
and `aclose()` act while it is not.

`req` is the current `DispatchRequest` or `CommitRequest`. `Gate` gives a
request the fields the code gives it; `batch_id`, a fresh random id per region,
is represented by the step count the region starts from. `allowed` and `marked` are what
an accounting gate could record; `calls` records the callables that really
received control. None of the three is ever read by a guard, so they observe
the scheduler without constraining it. `log`, `approved` and `entered` are
history in the same sense.

A delta is its content with two flags: `shared`, whether node code still holds
the object, and `changed`, whether it has written to it since. `Detach` is
`copy.deepcopy`, which the code does only under a gate (497-500, 783-784).

A graph is data: `Graphs` is a set of records with nodes, edges, what each node
writes, reducers, initial fields and `maxSteps`. `IsGraph` states what
`MiniGraph` and `compile` guarantee. Names that no node is registered under are
allowed, since the code resolves edges at run time.

The field `reducer` has the value `"undeclared"` for a field without a reducer,
which folds as `DEFAULT_REDUCER`. Values are tagged tuples; a custom fold is
opaque and named by its inputs.

A gate may answer anything at any await: allow, refuse, stop, raise. The only
rule is that a gate whose owner has recorded a stop never allows again, and
without a gate `_dispatch` and `_commit` pass at once.

### How `Delivery` corresponds to the code

`Delivery` takes every action of `Engine` but replaces its free consumer by
`run_with_plugins`. The observation at the head of `held` is the one the `async
for` is working on; `turn` is the next listener for it, `delivery` first and then
the plugins as registered. `Deliver` is one `on_observation` that returns,
`ListenerFails` one that raises or is cancelled, with the `aclose` of the `except`
clause (89-98), which runs without another await: the generator is suspended at
a `yield` or over. `NextObservation` is the next turn of the loop, `Return` and
`GraphFails` its two ends. Between two listeners the gate's owner may record a
stop.

The checkpointer is one of the listeners. It writes a row for each `node.end`; a
listener that fails may have written it or not, since the `commit` of SQLite and
the await that waits for it are two moments. The row is `model_dump_json` (41)
and `load_latest` is `model_validate_json` (68), and the two are not inverse:
a scratchpad, a message or metadata may hold any value, and JSON writes a
tuple, a set or a datetime without complaint and reads a list or a string back.
`merge` does not validate either, so a row may also hold what its field refuses
on reading. `ReadBack` is that round trip: `Altered` names the fields and values it
changes, and `Unreadable` a value `load_latest` raises for. `rows` holds each text
as the state it reads as. What JSON refuses to write makes the listener fail.
Two states are the same as rows if the round trip makes them equal (`SameAsRow`);
`nodes_visited` and the statuses the scheduler writes are strings and come back
as they were. Each listener is given a copy; `scrap` says that one has written into its
own. `rows` holds one session and survives `Restart`, which may come at any
moment: everything else is lost, and the caller runs the graph again from
`load_latest` if that row can be read, from its own initial state when there is no
row, or, after a return, from the state it was given (`Resumable`). `last` and `before`, the two states published
last, and `missed`, the listeners that some observation has passed by, are
history.

### How `GraphWalk` relates

`GraphWalk` knows no gate, no branch task and no observation: an invocation
publishes nodes and whole regions along the edges, spends steps within the
budget and is *done* only where an edge leads to END; it may be cut short at
any time. `EngineProps` maps the scheduler's `log` to the walk and its `steps`
(brought forward while `after_commit` is awaited) to what was spent.

### Descriptions and validation

A name is a number that orders as its string does; `Empty` is the empty string,
`Nothing` is `None`, and the two sort alike (`OrEmpty`). Static edges and declared
targets may name `Empty`: `EdgeSpec` refuses only `None` (`spec.py:107`), so such an
edge is described and is lint's to report (GS005). A `FanOut` refuses empty names
itself (`engine.py:150-153`). `add_reducer` and `Reducer` do not look at the field
(`engine.py:1037-1046`, `reducers.py:40-46`) while `ReducerSpec` does
(`spec.py:156`): a builder with a reducer for the empty field cannot be
described, and `describe` and `compile_validated` raise (`Describe` is `Raised`).
`Create`, `ToDict` and `FromDict` are `GraphSpec.create`, `to_dict` and
`from_dict`; `Raised` is any of their exceptions. A hash is the payload it is
computed from, so two ids are equal exactly when the canonical payloads are.
`Put` is an assignment to a Python dict, which keeps the place of a key written
before; `Describe` is `_describe_topology`. An issue of `Lint` is its code with
the names it is about. `Reachable` is stated as the least closed set, and
`Worklist` shows that the code's loop computes it for every order in which
the frontier is popped and a hash set is iterated.

`Exchange` begins with a builder, or with a call of `create`, and `Send` ends the
author's part. The wire is what `to_dict` wrote; `Swapped`, `Rewrite`, `Relabel`
and `Stray` are what can happen to it outside the repository. `Load` is
`from_dict`; `Admit` builds the dataclass directly and validates it.
`LintedWalk` relates a description to a graph by `Describes`, what
`_describe_topology` guarantees. It runs the loop to its end, which nothing in the
code interrupts, and then lets the graph walk by `GraphWalk`, which `Engine`
implements.

### Sessions

A graph is a sequence of nodes; routers, gates and regions are `Engine`'s
business. `stack` holds the invocations in progress, the innermost last.
`Publish` is the commit of a node with its `node.end`, which writes a row when
the graph is the outermost; `Return` is the end of `ainvoke`, whose state
becomes the caller's or, in a nested graph, the delta of the node around it
(`ModelDump`). `ResumeMerge` and `ResumeDrop` are `resume_policy` followed by
`ainvoke`; `Reload` is a crash or a caller that asks `load_latest`. A scratchpad
says for each key whether a node or the caller wrote it; what JSON does to its
values is `Delivery`'s business. A write node either
keeps the old scratchpad or returns one of its own. Of the history, `answered`
holds the answers given, `saved` those among them that the newest row holds and
`unsaved` those that no row was written after; `Reload` goes back to `saved`.

### Tasks, tools and wrapped nodes

`Gather` has one variable for each object: the tasks, the semaphore's value and
waiters, gather's future and the caller. A released permit is handed to the
first waiter (`WakeNext`), which holds it before it runs (`granted`); a task
cancelled at that moment gives it on (`Forfeit`). `Notice` is gather's callback:
the first task that did not return decides. `Cancel` reaches the tasks only
while gather's future is pending. These rules are asyncio's, as of CPython
3.12, and are marked external. In `ToolNodes` the work of a task is `Spawn`,
then `Read`, `Timeout` and `Reap`, or `Leave`. Without a bound the tasks are the
branches of a `parallel_dispatch`, whose result is merged; with one they are the
graphs of an `abatch`. `held` says that some descendant
keeps the child's pipes open, without which `communicate` does not end.

`Validated` fixes for every node its kind (function, coroutine function, other
awaitable), how often it is wrapped, and what it returns; `Result` is the node
as the scheduler sees it, `Merge` is `PerpetuaState.merge`. In `Structured` a
message is a number and the caller's list may grow while a chat is awaited.

### Services and export

`Discovery` separates the moment an observation is made (`Observe`, stamped by
`with_health`) from the one it is recorded; the registry is a sequence because a
dict keeps its order, and `Selected` scans it as `select_backend` does. `Policy`
ranges over every normalised mapping and every routing table; `Nowhere` is an
error of `resolve`. In `Gossip` the clock is read before the row is inserted,
and the row id is given at the insert. `Export` moves a native walk and a walk
of the exported edges with the same router answers; LangGraph follows a static
edge, or looks an answer up in a path map, and is external.

## 3. Checked runs

| run | instance | what it shows |
|---|---|---|
| `engine_safety` | diamond graphs with two branches under each join and mixed reducers, a cycle with a router, unregistered names; every kind of gate and none | types; every call is authorised and marked; what is published is what the gate approved; the budget; a publication is observed; a stop is honoured |
| `engine_region` | three branches, a quorum of two, a router at START, a region left to END; every kind of gate | no task outlives its region; a run ends truthfully: visits match announcements and a marker failure is never hidden; a region's commit depends only on what was admitted, and is all or nothing |
| `engine_walk` | the diamonds, a cycle, and a region inside a cycle | no request is put twice; every invocation ends; the scheduler implements `GraphWalk` |
| `delivery` | a region with an `any` join and a cycle with a router, with every hook of the gate and without a gate; three listeners, the checkpointer between the two others; values that JSON changes in each field, one of them beyond reading; one restart | delivery fails closed; the newest row is what JSON makes of the last publication or of the one before it; a run that no listener cut short has saved everything; the rows of both invocations are one history; the driver ends and leaves no suspended generator |
| `descriptions` | five calls of a builder on three nodes, eight edges and three reducers, one edge to the empty name and one reducer for the empty field among them, or seven created descriptions with implied, explicit, orphaned and duplicate joins; two edits on the way | the id and the description follow the content and not the order of calls; a builder can be described unless a reducer has no name, and only its author's errors are left; a snapshot reads back; loading gives the author's description or raises, and so does validation of one built directly; untouched and reordered ones load |
| `linted_walk` | descriptions of three nodes and an unknown name, with every kind of edge | the loop ends with exactly the reachable places; reachability, END and unknown names: what lint concludes holds in every walk whose routers keep to their declared targets |
| `sessions` | every outermost graph of up to three nodes, nested ones of up to two; three invocations | visits, status and prompt are true at every depth; an answered question comes up again only if its answer had not reached a row or a node replaced the scratchpad; the newest row lacks only answers |
| `tool_nodes` | two tools, on one key or two, and a plain task that writes under one of their keys or none; a bound of one, of two, refused, or none; failures and a cancellation | the bound; what is left behind; no child outlives its node unless cancelled; outputs survive; everything settles once the timers fire |
| `services` | four backends and three observations in any order of arrival; every policy over two models and every routing table; two writers, four rows, a clock of three values and pages of two | no mirror is chosen, a backend is taken as its last word described it, renewals do not change the choice; what `resolve` answers for a hint or an admitted model passes `check_affinity`; nothing is polled twice and a loss has one of two causes |
| `parts` | up to three writers of lists, dicts and atoms, with and without a base; every graph of one or two wrapped nodes over two keys; retries from -1 to 2; 448 graphs of two nodes | `union` of dicts and lists against reference definitions; `concat` keeps everything; `reject_conflict` and `union` of dicts do not depend on the order of writers; the post model refuses only what is invalid and passes what is valid when the scratchpad is carried on; hints leave no trace and attempts are used up exactly; the exported topology takes the native path, or is refused |
| `engine_last_node` | one diamond with a tight budget, no gate | **violation**: the `last_node` of `MaxStepsExceeded` is not the most recently entered node after a region |
| `policy_fallback` | the policies and routing tables of `services` | **violation**: `resolve` places a routed model that is NEVER on every tier |

A question with several answers that stand or fall together is one property with
named parts:

| property | parts |
|---|---|
| `EndsTruthfully` | `VisitsAreAnnounced`, `MarkerFailureSurfaces` |
| `RegionCommits` | `CommitIsCanonical`, `RegionIsAllOrNothing` |
| `FoldsAreRight` | `UnionOfDicts`, `UnionOfLists`, `ConcatKeepsAll` |
| `DescriptionIsCanonical` | `OrderIsIrrelevant`, `OnlyAuthorErrors`, `SnapshotReloads` |
| `ReaderGetsOrigin` | `LoadedIsOrigin`, `AdmittedIsOrigin`, `DeliveryIsAccepted` |
| `WarningsHold` | `UnreachableIsNeverEntered`, `EndlessIsNeverDone` |
| `ReturnIsTruthful` | `VisitsAreHistory`, `ReturnTellsTheEnd`, `RowLacksOnlyAnswers` |
| `ChoiceIsJustified` | `ChoiceFits`, `LastWordDecides` |
| `ResolveAgrees` | `PlacementsPass`, `PolicyDecides` |
| `TailIsAccountable` | `NothingTwice`, `LossHasACause` |
| `PostModelDecides` | `CarriedIsValid`, `RefusedIsInvalid` |
| `RetriesAreFair` | `HintsLeaveNoTrace`, `AttemptsAreUsedUp` |

**Bounds.** Six names: a source, three branches, a successor and one that is
never registered. Three branches let one settle first, between and last, and
let two of them fail in different ways beside a third. Two fields let a reducer
see one field written by every branch and another by some, and a fold fail
after it has produced something. Budgets from 2 to 8 are below, at and above
what each graph needs: the tight diamond has no room for its last node, the
quorum of two none for its region. Nothing else is bounded: cycles end by
`maxSteps`, a variable of the code. For the reducers two items, two keys and
three writers are enough for a duplicate, a disagreement, and a disagreement
across a writer that does not mention the key. The set of gates is complete:
every combination of hooks. In the delivery run the two extremes of them are
enough, since hooks only decide how long a publication is on its way; three
listeners give one before and one after the checkpointer, and one restart
relates the rows of two invocations (`MaxRestarts` bounds nothing of the code).
`Altered` has a value that is changed when it stands alone and inside a list, one
of the other field, and one whose row cannot be read: a run can return, crash
and go on from each.

Two edits of a description are the fewest with which one change could hide
another (a record with a version); three invocations of a session give one that
interrupts, one that resumes and one that follows a resumption; two levels of
graphs are enough because a nested run is a frame like any other. Three tasks
under a bound of one have two that wait, so a permit can pass to a waiter that
is cancelled while another one stands behind it; a bound of two lets two run
beside a third. Two tools and a plain task can overwrite each other on either
side. Three observations let one be overtaken and a third come
between; four rows and pages of two let a page drop an event. `MaxCalls`,
`MaxEdits`, `MaxRuns`, `MaxObservations`, `MaxTime`, `MaxRows` and `MaxMessages`
bound nothing of the code and are tested in guards only. `services` is checked
up to a renaming of the models and of the writers, which nothing tells apart.
Its three parts, and those of `parts`, share no state and never call each
other, so that a state of one beside any state of the others would show
nothing more.

**Fairness.** Weak fairness of `Scheduler`, `Branch` and `ConsumerPulls`. The
first two are the event loop: a task that is ready is run, and what the task
awaits (gate, node code) returns, raises or is cancelled. The third is the
consumer's `async for`, which `ainvoke` and `run_with_plugins` are. A consumer
that abandons the iterator never pulls again, and a node that hangs hangs the
invocation: the code has no timeout of its own, so termination is claimed only
under these assumptions. Nothing is assumed about closing, stopping,
cancelling or writing to a shared delta. `Delivery` has in place of the third
weak fairness of `Deliver`, `NextObservation`, `Return` and `GraphFails`: a listener
that is awaited returns or raises.

`Gather` assumes that the event loop runs every task that is ready, calls
gather's callbacks, and that each task ends by itself (`LoopFairness`, and weak
fairness of a running task's end). `ToolNodes` keeps the loop's fairness but not
the last: a child need not exit, since the timer of `wait_for` fires;
`TimeoutsRelease` adds only that descendants do not hold the pipes for ever.
`LintedWalk` assumes that the worklist's loop goes on. The other modules state no liveness.

`CHECK_DEADLOCK FALSE` is set where the system really stops: a finished batch,
session, walk, validation or retry loop, a description that was delivered, a fold
that has returned, or the bounds on calls and observations. The scheduler has an explicit stuttering step
(`Ended`) for an invocation that is over, and every other state must have a
successor.

### Disagreements between code and documentation

`MaxStepsExceeded` documents `last_node` as *the most recently entered node*
(`graph/engine.py:214`). It is the `current_node` of `_run` (449), which a
region never assigns: if the budget is used up right after a region, the error
names the region's source although a `node.start` was announced for each
branch after it. `LastNodeIsMostRecent` states the documentation and run
`engine_last_node` finds the counterexample.

`resolve` takes a routed model's first PREFER tier, then its first ALLOW tier, then
the literal `"shared"` (`policy.py:164-170`), also when the model is NEVER there. A
test's docstring calls this *a dangerous fallback in which Core might manufacture
an executable placement after the policy authority has prohibited every placement*
and says that *No compatibility path may convert universal NEVER into a permissive
default* (`tests/test_policy.py:130-133`); the test itself asks `check_affinity`
only. `NeverIsNeverPlaced` states the docstring and run `policy_fallback` finds the
placement. `ResolveAgrees` says what does hold: a placement for a hint, or for a
model that some tier admits, passes `check_affinity`.

Some properties carry an exception because the code does. They are stated so
that the exception is as narrow as the run shows it to be:

- GS101 calls a node *definitely unreachable* (`graph/lint.py:291`) from
  declared targets, which the scheduler treats as metadata
  (`graph/engine.py:80`): `UnreachableIsNeverEntered` assumes that routers keep
  to them (`RoutersKeepDeclared`).
- GS102 sees *no definite path from START to END* (`graph/lint.py:301`) although
  a node without an edge leads to END (`graph/engine.py:525`):
  `EndlessIsNeverDone` excepts such a node.
- A nested interrupt becomes a delta and the outer graph runs on
  (`subgraphs.py:10`): `ReturnTellsTheEnd` asks `interrupted` only for a node of
  the outermost graph.
- The post model is shown a merged scratchpad while `merge` replaces it
  (`validator.py:33`, `state.py:42`): `CarriedIsValid` is about nodes that carry
  the old one on. A wrapped object with an async `__call__`, such as `Validated`
  itself, is not awaited and ends the run (`validator.py:29`): `Result` has it.
- An answer that no node of the outermost graph has followed is in no row, and a
  crash or `load_latest` loses it (`checkpointer.py:57`): `AnsweredOnce` claims
  nothing for it, and `RowLacksOnlyAnswers` says that nothing else is missing.
- A value that JSON changes is not in the row as it was published
  (`checkpointer.py:41`): `CheckpointLag` and `CheckpointComplete` compare states by
  what JSON makes of them.
- A tool's output under a key that held a value before is overwritten with the
  old value by a later tool of another key (`tool_node.py:49`): `OutputsSurvive`
  names the case.
- An observation that overtook a newer one is the last word all the same
  (`registry.py:30`): `LastWordDecides` goes by arrival. A row stamped before a
  poll and inserted after it (`gossip.py:40`) is an exception of `LossHasACause`.

## 4. Proved theorems

The theorems about the kernel are about `Spec` of `Engine` and `DeliverySpec` of
`Delivery` for every finite set of names, every set of graphs satisfying
`IsGraph`, any number of fields, branches and steps, every gate, and any number
of listeners and restarts. They assume `GatesAssumption` and `NamesAssumption`
(`Gate`), `GraphsAssumption` (`Engine`), `DeliveryAssumption` and
`AlteredAssumption` (`Delivery`): the round trip through JSON may change any values of
any fields, and what has been through it once is not changed by it again.
Those about validation are for every finite graph (`PlaceAssumption`) and every
pair of a description and a graph it describes (`CasesAssumption`), those about
building and reading descriptions for registries, created descriptions and edits of any size and number, where
records have the types of their dataclasses and an edge has a target, which may be
the empty name
(`RegistriesAssumption` of `Builder`, `DescriptionsAssumption` of `Exchange`), those about
`Gather` and `ToolNodes` for every number of inputs, all bounds and any choice of
tools (`InputsAssumption`, `BoundsAssumption`, `ToolsAssumption`). Those about
`Sessions` are for graphs of any size, nested to any depth (`CodesAssumption`); those
about the services and the plugins for any backends, models, policies, writers, chains,
retries and exported graphs; those about the reducers for any base and any number of
contributions, any items, and dicts with any number of keys (`ValuesAssumption`, which
only says that what is called a list or a dict is one). What they assume of those is what the constructors
check or the types say: `NoHintAssumption`, that no model is called like the absent
hint; that bounds are numbers (`MaxAssumption`, `RetriesAssumption`, `BoundsAssumption` of
`Gossip`); that a model outside the policy is not in it (`StrangerAssumption`); and in
`Export` that no framework's START is an END, and that a graph has an entry and uses
its own names, as LangGraph demands when it compiles one (`SentinelsAssumption`,
`GraphsAssumption`).

| theorem | states | argument |
|---|---|---|
| `TypeCorrect` | `TypeOK` | inductive as it stands; one lemma for each way of giving up control (`RaiseTyped`, `TerminateTyped`, `ResolveTyped`), then one step per action |
| `CallsAreAuthorised` | `EveryCallAuthorised` | `IInv` |
| `BranchesAreStructured` | `NoOrphanBranch` | `IInv` |
| `StopsAreHonoured` | `StopHonoured` | `IInv`, and one case per part of `Next` |
| `RequestsAreSpentOnce` | `AuthorityIsSpentOnce` | `OnceInv` |
| `BudgetIsKept` | `BudgetKept` | `BudgetInv` |
| `PublicationsAreObserved` | `PublishedIsObserved` | `PublicationInv` |
| `RunsEndTruthfully` | `EndsTruthfully` | `EndInv`, which is `PublicationInv`, `BudgetInv`, `ResultsKept` and `VisitsKept` |
| `PublicationsAreApproved` | `PublishedWasApproved` | `RunInv`: `EndInv`, `FoldKept`, `DeltaKept`, `PublishedKept` and `WalkKept` |
| `RegionsCommitWhole` | `RegionCommits` | `RunInv`, in `RegionStep` |
| `EngineImplementsGraphWalk` | `RefinesGraphWalk` | `RunInv`, and a step simulation in `WalkNext` |
| `CheckpointsKeepUp` | `CheckpointLag` | `DeliveryInv`, up to the round trip through JSON |
| `CheckpointsAreComplete` | `CheckpointComplete` | `DeliveryInv`, up to the round trip through JSON |
| `DeliveryFailsClosed` | `FailClosed` | `DeliveryInv`, and one case per part of `DeliveryNext` |
| `RowsFollowOneAnother` | `RowsAreOneHistory` | `TrailInv`: how far the run, what was shown and the newest row have come |
| `DescriptionsAreCanonical` | `DescriptionIsCanonical` | `ExchangeInv`, in `DescribeIsCanonical`, `DescribedErrors` and `LoadingIsExact`; `Named` says which registries have a description |
| `IdsFollowContent` | `IdFollowsContent` | `ExchangeInv`; a description tells all of what was registered (`DescriptionTellsAll`) |
| `ReadersGetTheOrigin` | `ReaderGetsOrigin` | `ExchangeInv`, in `LoadingIsExact`, `AdmittingIsExact` and `ReorderedLoads` |
| `WorklistIsExact` | `ExactWhenDone` | `WInv`: what was expanded has its targets, and every closed set holds what was found |
| `WarningsAreSound` | `WarningsHold` | `LInv`, in `UnreachableIsSound` and `EndlessIsSound` |
| `ValidatedIsSafe` | `ValidatedNeverBreaks` | `LInv`, and what each of GS001 to GS206 rules out (`ValidNames`) |
| `BoundIsKept` | `BoundKept` | `PInv` |
| `NothingElseIsLeft` | `LeftBehind` | `OInv`, beside `PInv` |
| `ToolsKeepTheBound` | `BoundKept`, `LeftBehind` | a step of `ToolNodes` is a step of `Gather` or none (`ToolStep`) |
| `ChildrenEnd` | `ChildEndsWithNode` | `CInv`, and that what a task has come to is final (`OutcomesStay`) |
| `OutputsReachTheState` | `OutputsSurvive` | `DInv`, and that the last delta with a key decides the merge (`LastCarrierWins`) |
| `ReturnsAreTruthful` | `ReturnIsTruthful` | `HistoryInv`, `OwnInv` and `RowInv` |
| `AnswersAreKept` | `AnsweredOnce` | `AnsweredInv` |
| `ChoicesAreJustified` | `ChoiceIsJustified` | `RInv`: an entry of the registry is the last word of its name |
| `ChoicesAreStable` | `OnlyRivalsChangeTheChoice` | `RInv`, and that a choice depends on where the loops stop (`WhereItStops`, `StopsOnce`) |
| `ResolveAndCheckAgree` | `ResolveAgrees` | `PInv` of `ServicesProofs` |
| `TailLosesOnlyForACause` | `TailIsAccountable` | `GInv`, and what a page holds and leaves out (`PageHolds`) |
| `ExportKeepsThePath` | `SamePath` | `EInv`: the two walks stand at the same place after each step (`SameStep`) |
| `PostModelStopsTheInvalid` | `PostModelDecides` | what the post model is shown is what the merge keeps (`PostInputIsMerged`) |
| `ChatsAreFair` | `RetriesAreFair` | `AInv`: chats, replies and attempts are counted alike |
| `FoldsMeanWhatTheySay` | `FoldsAreRight` | what each fold holds after each contribution (`Covers`, `Accounted`) |
| `OrderDoesNotMatter` | `OrderIndependence` | what a merge or a union holds depends on what was written only (`MergesAreOne`, `UnionIsMirrored`) |

`EveryCallAuthorised` is not inductive: a callable may start many steps after
the decision that covers it. `IInv` says for each place of the generator what
the ledger already holds. `AskedFor`: a fanout or fold request on its way to the
gate names exactly the region's branches or the admitted set. `MarkedAreAllowed`:
a marker is written only for an allowed request. `RegionGranted`: while branches
run, and while fields fold, the batch decision is in the ledger under the
present source and step count. `NoOrphanBranch` is needed for the last, because
the source changes when the next node is entered and a branch still alive would
then lose its cover. `StopsHold` confines a recorded stop to the places where
nothing is being called.

`BudgetInv` carries the test made on entry to the place where the steps are
counted, and needs that only members of the region can have succeeded
(`Launched => With({"ok"}) \subseteq Names(Edge.branches)`), that a region has a
node behind it (`steps > 0`, so that its requests are told from a node's), and
that a sequence names no more nodes than it is long (`NamesAreFew`).

`PublicationInv` sorts the scheduler's steps into those that publish, those that
show what `after_commit` has delayed, and the rest, which neither touch the fields
nor show a `node.end` (`OtherStep`). It needs that a region on its way to its commit
has admitted a branch: otherwise its commit would show no `node.end` at all.

`OnceInv` is about time. A request names the number of steps completed when it was
made, and several are made at the same number: the router's and the node's, or
those of one region. `Older` says for each kind where the scheduler must be for an
allowed request to carry the present number: a node's only until its step is
counted (`NodeAllowed`), a region's only while the region is past it, its reducers
in the order of the fields (`RegionAt`). A branch has its own name in its
request, so branches cannot spend each other's.

`ResultsKept` follows the outcomes of a region's branches from the join, which
rules out all but results and ordinary errors, to the commit, where nothing else
remembers that they were checked. `VisitsKept` relates three records of the
nodes visited, which are updated at different steps: what was announced, what the
state holds and what a run that ended by itself has shown last; between a region's
entry and its commit the state lacks the branches (`Ahead`).

`FoldKept` says that while a region folds, its delta holds the fold of every field
before the present one; `WritersStay` is needed because who wrote a field depends
on the branches' source and on the state the fold started from, and neither may
move before the commit. `DeltaKept` says that at a commit the delta is the gate's
own copy or, with no gate, one that nobody else wrote to. `PublishedKept` carries
the approval of each publication in the log.

`EngineImplementsGraphWalk` maps the entries of the log to the steps of
`GraphWalk`, and its variables to the last entry and the outcome (`EngineProps`).
A step that publishes is a step of the walk, a step that ends the run is one too
(`RunIsCut`, `WalkEnds`), every other is a stutter (`WalkIdles`). `WalkKept` says where
the scheduler stands relative to the walk: it is where the last entry of the log
left the walk, except that inside a node it stands one step ahead, and remembers
that an edge leads there and that no region is owed. `JoinKept` carries what the
join may admit from the join to the commit. `steps` lags behind the log
while `after_commit` is awaited, and `BudgetInv` lets the walk take its step
within the budget.

`DeliveryInv` says when the checkpointer is behind. `Pending`: it has yet to be
given a `node.end`. While the run goes on, the newest row is what JSON makes of the
last publication (`UpToDate`)
unless `after_commit` is awaited or a `node.end` is pending; and whatever `node.end`
is shown carries the last publication. So at a publication the rows are up to
date, and they lag by one state until the checkpointer's turn. The steps are the
three kinds of `PublicationInv` and one lemma for each action of the driver. Since the
round trip changes nothing twice (`ReadBackOnce`), a row is what it reads as
(`RowsAreRead`), and a state that was read from a row and is published again gives that
row once more. A row
sequence has no type of its own here, since fields hold values of any kind:
`RowsAreSeq` only says that it is a sequence.

A sort is described by rank, as a page of `Gossip` is: the stable order of `list.sort`
is an order of the places (`TurnsAreLinear`), `RankIsExact` gives each place its
own rank, so the result has every entry once and in order (`SortIsPermutation`), and
is determined by the set of entries wherever the key tells them apart
(`SortIsCanonical`). That is where the tie of joins and reducers under their one-field key
would bite: no two *kept* joins of a described graph have one source, while for a list
with a duplicate the result depends on the order, which `Made` allows since sorting
twice is sorting once. `CreatedIsMade` gives `create` its postcondition `Made`;
`MadeIsFixed` and `IdIsContent` turn the equality of two ids into that of the specs.
`ExchangeInv` says that what is sent was made, that what is on its way carries its id
and typed lists whatever was edited, that before the first edit it is the dump of the
origin and before the first rewriting it has its records; and that each reader has
read nothing, an exception or the origin. The last is the property itself: `Load`
and `Admit` restore it from the others (`LoadingIsExact`, `AdmittingIsExact`), because the
id is computed again from the lists that arrived. For a schema "1" id, which says nothing of
reducers and joins, `VersionFits` on loading and GS211 on validation say that
there are none.

`LInv` of `DescriptionProofs` keeps the walk among the places lint found, as long
as lint is definite (`Tame`): the description's arcs cover every step of a
graph it describes (`EdgesAreArcs`), and the reachable places are closed under
arcs. `PInv` of `ToolNodesProofs` is a conservation law: permits left and permits held, by
tasks that run or were just granted one, add up to the bound (`WakeKeeps`, `ReleaseKeeps`); it
needs that nobody waits twice and that only queued tasks wait, and that waiters
are never among the cancelled. `OInv` relates gather's future to the tasks: a
result means that all of them returned, an error that one of those noticed did not,
and whoever was told to stop was told while the future was pending.

`TrailInv` compares lists of visited nodes: the state of the run continues that of
the last publication, and that one is the newest row or continues it. Between the
announcement of a node and its commit the state is strictly ahead (`Visiting`), which
is why two rows differ unless they are the rows of one region. After a crash the next
run continues the newest row, so nothing is left to prove there.

`LastCarrierWins` is an induction over the branches. The fold is written as the
function of its prefixes, which exists (`StepsExist`), and the statement about every
prefix is put as membership in a set of numbers, so that it needs no operator as a
parameter (`NatsByInduction`). `DInv` adds only that a task that returned has handed
over what it says it did.

In `Sessions`, `HistoryInv` follows the state of the innermost graph, or the caller's
when none runs; a nested graph begins with its node's state and gives back its own, so
the list of visits moves along with the log. `OwnInv` says that the outermost graph has
entered its nodes one after the other up to the one it is at, whatever the nested
ones did. `RowInv` needs a second case: behind a run that failed, the row may lack
keys the caller has, but then the first node is one that the next run passes before
it can stop, so a row is written first (`Passes`). `AnsweredInv` says that whatever was
answered is in the scratchpad of every state the session can go on from, and that
what is `saved` is in the newest row's: each step either leaves the row alone or
writes the state the session moves to, with all that is answered then (`Saves`).

In `Discovery`, a step replaces one entry or adds one. `LastWordsJustify` reads the
choice off the registry; `OtherNewsKeepsTheChoice` shows that the loops of
`select_backend` stop at the same place. In `Gossip`, a page is described by rank: its
*k*-th row has *k - 1* rows of the page's kind after it, and `RankIsExact` says that
each rank is taken by exactly one row. So what a page leaves out has a full page of
rows after it (`LeftOutIsCrowded`). The other three need no strengthening
beyond counting and types.

A fold of the community modules runs on subsets of an interval and is chosen, not
computed. `FoldsExist` gives every fold from the left its values after each prefix and
`RunsAgree` says that these are the ones chosen, so that each reducer's fold can be
reasoned about step by step (`ConcatFolds`, `NewFolds`, `UnionFolds`, `EntriesFolds`; one lemma each,
since the function that is folded cannot be a parameter). For a union of lists the
invariant is `Covers`: the result begins with the base, holds exactly the items seen so
far, and those after the base stand once each in the order of their first
occurrence (`OneMoreItem`, `OneMoreList`). For a union of dicts it is `Accounted`: for each key
the first item written and the last one are among what was written, and `clash` says that two
items written to one key differ (`OneMoreDict`), although the code compares each only
with the first. `TwoOrMore` turns that into the property's cardinality.

TLC checked the invariants named here on the instances of their runs before they
were proved.

**Only model-checked.** `Termination`, `DriverEnds`, `WorklistEnds` and
`TimeoutsRelease` (liveness and ENABLED are beyond the prover).

## 5. Not modelled

- The LLM client and the message classes: HTTP and data without rules of their
  own. The `tool` decorator (a schema from type hints), `LabelRouter` (a table
  lookup whose result is a router's answer to `Engine`), `streaming.astream` and
  the projections and synchronous bridges of the LangChain adapter: each is one
  call that forwards to modelled code, with no state and no order of its own.
- Loading a policy file and the verdicts behind it, which belong to agate.
- `BaseException` other than a cancellation (`KeyboardInterrupt`, `SystemExit`).
- Hashing and JSON: a digest stands for the content it was computed from; that a
  delta cannot be serialised is a nondeterministic failure under a gate. Which
  values JSON changes in a checkpoint is a parameter (`Altered`), and rows that cannot
  be read are left out of `Sessions`.
- Provenance of folded fields, durations, logging, event wording.
- What a node writes is fixed per node and graph; it does not depend on the
  state the node was given. A node that overwrites `status`, `metadata` or
  `nodes_visited` through its delta is outside `Engine`; `Sessions` has the one
  case the repository itself builds, a nested graph.
- A consumer other than `run_with_plugins` reads observations, it does not write
  to the states in them.
- Two processes writing to one session's rows at once; failure of `aclose`
  itself, which no generator of the scheduler can cause.

## 6. Plan

The parts with state or order of their own are modelled. What is left:

1. A session of `Sessions` over `Delivery`'s rows, two sessions in one table, and
   regions whose branches are nested graphs.
2. A property for the one hazard that has none yet: a listener's failure hides a
   pending settlement error (`graph/plugins/observer.py:92`). It contradicts no
   document; the model has the behaviour.
3. Every safety and action property of the passing runs is a theorem. Still worth
   stating: that a `Delivery` run implements a simpler journal of published states,
   and that `Gather` bounded by one is a sequence.
