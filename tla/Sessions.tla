------------------------------ MODULE Sessions ------------------------------
(***************************************************************************)
(* A session of an agent graph: graphs used as nodes of other graphs       *)
(* (graph/plugins/subgraphs.py), nodes that interrupt, and a caller that   *)
(* answers with resume_policy (graph/plugins/interrupt_guard.py) or starts *)
(* again from the newest checkpoint.  Invocations have no gate, as_node    *)
(* gives none to the graph it runs.                                        *)
(*                                                                         *)
(* A graph is a sequence of nodes, the walk of GraphWalk when no router    *)
(* chooses; it may run itself again.  A scratchpad maps keys to who wrote  *)
(* them.  log, own, input, answered, saved and unsaved are history:        *)
(* answered are the answers given, saved those that the newest row holds   *)
(* and unsaved those that no row has been written after.                   *)
(***************************************************************************)
EXTENDS Integers, Sequences, FiniteSets, SequencesExt, Dicts

CONSTANTS
  Codes,     \* sets of graphs: functions from names to sequences of nodes
  Keys,      \* the scratchpad keys a caller may give
  Root,      \* the graph the caller invokes
  MaxRuns    \* bound on the invocations

ASSUME CodesAssumption ==
  \A code \in Codes :
    /\ Root \in DOMAIN code
    /\ \A g \in DOMAIN code :
         /\ code[g] \in Seq(ToSet(code[g]))
         /\ \A i \in DOMAIN code[g] : code[g][i].does = "run" => code[g][i].graph \in DOMAIN code
ASSUME RunsAssumption == MaxRuns \in Nat

VARIABLES code, stack, held, row, outcome, runs, log, own, input, answered, saved, unsaved

vars == <<code, stack, held, row, outcome, runs, log, own, input, answered, saved, unsaved>>

Nowhere == <<"none", 0>>
NewState == [pad |-> <<>>, status |-> "idle", prompt |-> Nowhere, visited |-> <<>>]
Frame(g, s) == [graph |-> g, at |-> 1, state |-> s]

Init ==
  /\ code \in Codes
  /\ stack = <<>>        \* the invocations in progress, the innermost last
  /\ held = NewState     \* the state the caller has
  /\ row = NewState      \* the newest checkpoint, or what the session began with
  /\ outcome = "none"
  /\ runs = 0
  /\ log = <<>> /\ own = <<>> /\ input = NewState
  /\ answered = {} /\ saved = {} /\ unsaved = {}

Top == Last(stack)
Below == Front(stack)
Here(f) == <<f.graph, f.at>>
Ready(does) ==
  /\ stack # <<>> /\ Top.at \in DOMAIN code[Top.graph]
  /\ code[Top.graph][Top.at].does = does
Node == code[Top.graph][Top.at]
Visited(f) == [f.state EXCEPT !.visited = Append(@, Here(f))]

\* A node is entered; own are the places of the outermost graph's nodes.
Enter ==
  /\ log' = Append(log, Here(Top))
  /\ own' = IF Below = <<>> THEN Append(own, Len(log')) ELSE own

\* The commit of a node and its node.end, which the checkpointer of the
\* outermost run stores.
\* Mutants: the state before the commit is stored; the first row is kept.
StateBefore(f, s) == f.state
FirstRow(f, s) == IF row = NewState THEN s ELSE row
Stored(f, s) == s

Publish(below, f, s) ==
  /\ stack' = Append(below, [f EXCEPT !.state = s, !.at = @ + 1])
  /\ IF below = <<>>
     THEN row' = Stored(f, s) /\ saved' = answered' /\ unsaved' = {}
     ELSE UNCHANGED <<row, saved, unsaved>>

\* as_node: the whole state of the inner run is the delta.
\* Mutant: only the scratchpad.
PadOnly(inner, outer) == [outer EXCEPT !.pad = inner.pad]
ModelDump(inner, outer) == inner

\* The end of ainvoke.
Return(s) ==
  IF Below = <<>>
  THEN stack' = <<>> /\ held' = s /\ outcome' = "returned" /\ UNCHANGED <<row, saved, unsaved>>
  ELSE LET p == Last(Below)
       IN Publish(Front(Below), p, ModelDump(s, p.state)) /\ UNCHANGED <<held, outcome>>

Write ==
  /\ Ready("write")
  /\ answered' = IF Node.keeps THEN answered ELSE {}
  /\ LET s == Visited(Top)
         kept == IF Node.keeps THEN s.pad ELSE <<>>
     IN  Publish(Below, Top, [s EXCEPT !.pad = Updated(kept, Pair(Node.key, "node"))])
  /\ Enter
  /\ UNCHANGED <<code, held, outcome, runs, input>>

\* A node that needs an answer: it goes on if it has one.
Answered ==
  /\ Ready("ask") /\ Node.key \in DOMAIN Top.state.pad
  /\ answered' = answered
  /\ Publish(Below, Top, Visited(Top))
  /\ Enter
  /\ UNCHANGED <<code, held, outcome, runs, input>>

Interrupt ==
  /\ Ready("ask") /\ Node.key \notin DOMAIN Top.state.pad
  /\ answered' = answered
  /\ Return([Visited(Top) EXCEPT !.status = "interrupted", !.prompt = Here(Top)])
  /\ Enter
  /\ UNCHANGED <<code, runs, input>>

RunGraph ==
  /\ Ready("run")
  /\ LET f == [Top EXCEPT !.state = Visited(Top)]
     IN  stack' = Below \o <<f, Frame(Node.graph, f.state)>>
  /\ Enter
  /\ UNCHANGED <<code, held, row, outcome, runs, input, answered, saved, unsaved>>

\* Mutant: an interrupted state stays interrupted.
DoneUnlessInterrupted(s) == IF s.status = "interrupted" THEN s ELSE [s EXCEPT !.status = "done"]
Done(s) == [s EXCEPT !.status = "done"]

Complete ==
  /\ stack # <<>> /\ Top.at \notin DOMAIN code[Top.graph]
  /\ answered' = answered
  /\ Return(Done(Top.state))
  /\ UNCHANGED <<code, runs, log, own, input>>

\* An exception of a node, or MaxStepsExceeded: it passes through all graphs.
Raise ==
  /\ stack # <<>> /\ Top.at \in DOMAIN code[Top.graph]
  /\ stack' = <<>> /\ outcome' = "raised" /\ held' = input
  /\ UNCHANGED <<code, row, runs, log, own, input, answered, saved, unsaved>>

-----------------------------------------------------------------------------
\* ainvoke starts at START, whatever state it is given.
Invoke(s, given) ==
  /\ stack = <<>> /\ runs < MaxRuns
  /\ stack' = <<Frame(Root, s)>> /\ input' = s
  /\ outcome' = "running" /\ runs' = runs + 1
  /\ log' = <<>> /\ own' = <<>>
  /\ answered' = answered \cup given /\ unsaved' = unsaved \cup given
  /\ UNCHANGED <<code, held, row, saved>>

Start == Invoke(held, {})

\* resume_policy.  MERGE takes every value, DROP one of them.
\* Mutant: DROP keeps nothing else.
OnlyThat(pad, values, k) == Pair(k, values[k])
DropIn(pad, values, k) == Updated(pad, Pair(k, values[k]))

ResumeMerge ==
  \E K \in SUBSET Keys :
    LET values == [k \in K |-> "caller"]
    IN  Invoke([held EXCEPT !.pad = Updated(held.pad, values)], K)

ResumeDrop ==
  \E K \in SUBSET Keys : \E k \in K :
    LET values == [j \in K |-> "caller"]
    IN  Invoke([held EXCEPT !.pad = DropIn(held.pad, values, k)], {k})

\* A crash, or a caller that prefers load_latest.
Reload ==
  /\ stack' = <<>> /\ held' = row /\ outcome' = "none"
  /\ log' = <<>> /\ own' = <<>> /\ answered' = saved /\ unsaved' = {}
  /\ UNCHANGED <<code, row, runs, input, saved>>

Invocation == Write \/ Answered \/ Interrupt \/ RunGraph \/ Complete \/ Raise
Next == Invocation \/ Start \/ ResumeMerge \/ ResumeDrop \/ Reload

Spec == Init /\ [][Next]_vars

-----------------------------------------------------------------------------
\* nodes_visited is the true history of the session at every depth: what the
\* invocation began with and then each node entered since, those of nested
\* graphs in their place (subgraphs.py:9-10).
VisitsAreHistory ==
  /\ stack # <<>> => Top.state.visited = input.visited \o log
  /\ outcome = "returned" => held.visited = input.visited \o log

\* What ainvoke returns tells how this invocation ended, although it may have
\* begun with the status and prompt of an earlier one or have merged those of a
\* nested graph (engine.py:554-558, interrupt_guard.py:22-24): interrupted by a
\* node of the outermost graph, the last one entered, or done after all.
ReturnTellsTheEnd ==
  outcome = "returned" =>
    \/ held.status = "interrupted" /\ held.prompt = Last(held.visited) /\ Last(own) = Len(log)
    \/ held.status = "done" /\ [i \in DOMAIN own |-> log[own[i]]] = [i \in DOMAIN code[Root] |-> <<Root, i>>]

\* A question that was answered is not asked again in the session, however
\* often it starts over at START (interrupt_guard.py:26-33) and also behind a
\* crash or load_latest, if the newest row was written after the answer
\* (checkpointer.py:36-43).  Two answers are lost and may be asked for again:
\* one that no node of the outermost graph has followed when the session goes
\* back to its row, and one that a node has replaced by a scratchpad of its own.
AnsweredOnce ==
  [][Interrupt => Node.key \notin answered]_vars

\* What load_latest gives after an interrupt or at the end lacks only the
\* answers that no node has followed yet (checkpointer.py:57).
RowLacksOnlyAnswers ==
  outcome = "returned" =>
    \A k \in Keys \ unsaved :
      /\ k \in DOMAIN held.pad <=> k \in DOMAIN row.pad
      /\ k \in DOMAIN held.pad => held.pad[k] = row.pad[k]

\* What an invocation returns is the truth: about the nodes that ran at every
\* depth, about how it ended, and beside the row that is left of it.
ReturnIsTruthful == VisitsAreHistory /\ ReturnTellsTheEnd /\ RowLacksOnlyAnswers
=============================================================================
