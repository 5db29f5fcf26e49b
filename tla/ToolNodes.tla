----------------------------- MODULE ToolNodes -----------------------------
(***************************************************************************)
(* Module Gather where the work of some tasks is a tool node's: a child    *)
(* process with a timeout (graph/plugins/tool_node.py).  The tasks are the *)
(* graphs of an abatch or, without a bound, the branches of a              *)
(* parallel_dispatch, whose result is the merge of the deltas in branch    *)
(* order (graph/plugins/parallel.py).                                      *)
(*                                                                         *)
(* A delta is a function from fields to values; a scratchpad is a function *)
(* from keys to values: 0 is a value from before, i one written by branch  *)
(* i.  Every scratchpad is a dict.  Output, stderr and argv are left out.  *)
(***************************************************************************)
EXTENDS Gather, Dicts

CONSTANTS
  Tools,        \* the branches that are tool nodes
  OutputKeys,   \* the ways to give each an output_key
  Scratchpads,  \* the scratchpads the node may be entered with
  PlainDeltas   \* what the other branches may return

ASSUME ToolsAssumption == Tools \subseteq Inputs /\ OutputKeys \subseteq [Tools -> STRING]

VARIABLES outputKey, prior, phase, child, held, delta, merged

tools == <<outputKey, prior, phase, child, held, delta>>
running == <<gvars, tools>>
tvars == <<running, merged>>

Pad == "scratchpad"

\* Mutant: a later scratchpad replaces an earlier one.
ReplacePad(into, d) == Updated(into, d)

MergeDelta(into, d) ==
  IF Pad \in DOMAIN d /\ Pad \in DOMAIN into
  THEN [Updated(into, d) EXCEPT ![Pad] = Updated(into[Pad], d[Pad])]
  ELSE Updated(into, d)

Merge(deltas) == LET Into(acc, d) == MergeDelta(acc, d) IN FoldLeft(Into, <<>>, deltas)

\* "scratchpad": {**state.scratchpad, output_key: stdout}
ToolDelta(i) == Pair(Pad, Updated(prior, Pair(outputKey[i], i)))

ToolInit ==
  /\ GatherInit
  /\ outputKey \in OutputKeys /\ prior \in Scratchpads
  /\ phase = [i \in Inputs |-> "idle"]
  /\ child = [i \in Inputs |-> "none"]
  /\ held = [i \in Inputs |-> FALSE]
  /\ delta = [i \in Inputs |-> <<>>]
  /\ merged = <<>>

Ends(i, how) ==
  /\ Settle(i, how)
  /\ phase' = [phase EXCEPT ![i] = "ended"]
  /\ UNCHANGED <<outputKey, prior, child, held>>

\* create_subprocess_exec; what the child starts may hold its pipes open.
Spawn(i) ==
  /\ task[i] = "running" /\ phase[i] = "idle"
  /\ phase' = [phase EXCEPT ![i] = "reading"]
  /\ child' = [child EXCEPT ![i] = "running"]
  /\ \E h \in BOOLEAN : held' = [held EXCEPT ![i] = h]
  /\ UNCHANGED <<gvars, outputKey, prior, delta>>

SpawnFails(i) == phase[i] = "idle" /\ Ends(i, "failed") /\ UNCHANGED delta

Gone(i) == child[i] \in {"succeeded", "failed", "killed"}

\* communicate ends with the process and its pipes.
Communicated(i) == Gone(i) /\ ~held[i]

Read(i) ==
  /\ phase[i] = "reading" /\ Communicated(i)
  /\ \/ child[i] = "succeeded" /\ Ends(i, "returned") /\ delta' = [delta EXCEPT ![i] = ToolDelta(i)]
     \/ child[i] = "failed" /\ Ends(i, "failed") /\ UNCHANGED delta

\* wait_for gives up; the child may have exited in the meantime.
\* Mutant: the child is not killed.
Spared(i) == child[i]
Killed(i) == IF child[i] = "running" THEN "killed" ELSE child[i]

\* Mutant: the node raises at once.
GiveUp(i) == phase[i] = "reading" /\ Ends(i, "failed") /\ UNCHANGED delta

Timeout(i) ==
  /\ phase[i] = "reading"
  /\ phase' = [phase EXCEPT ![i] = "reaping"]
  /\ child' = [child EXCEPT ![i] = Killed(i)]
  /\ UNCHANGED <<gvars, outputKey, prior, held, delta>>

\* kill() of a process whose transport is already closed raises.
KillMisses(i) ==
  /\ phase[i] = "reading" /\ Communicated(i)
  /\ Ends(i, "failed") /\ UNCHANGED delta

Reap(i) == phase[i] = "reaping" /\ Communicated(i) /\ Ends(i, "failed") /\ UNCHANGED delta

\* A cancellation is not a timeout: nothing kills the child.
Leave(i) == i \in asked /\ Ends(i, "cancelled") /\ UNCHANGED delta

Tool(i) == Spawn(i) \/ SpawnFails(i) \/ Read(i) \/ Timeout(i) \/ KillMisses(i) \/ Reap(i) \/ Leave(i)

Plain(i) ==
  \/ \E d \in PlainDeltas : Ends(i, "returned") /\ delta' = [delta EXCEPT ![i] = d]
  \/ Ends(i, "failed") /\ UNCHANGED delta
  \/ Leave(i)

\* The child and its descendants.
Exit(i) ==
  /\ child[i] = "running"
  /\ \E how \in {"succeeded", "failed"} : child' = [child EXCEPT ![i] = how]
  /\ UNCHANGED <<gvars, outputKey, prior, phase, held, delta>>

LetGo(i) ==
  /\ held[i]
  /\ held' = [held EXCEPT ![i] = FALSE]
  /\ UNCHANGED <<gvars, outputKey, prior, phase, child, delta>>

Branch(i) == IF i \in Tools THEN Tool(i) ELSE Plain(i)

ToolNext ==
  \/ Loop /\ UNCHANGED <<tools, merged>>
  \/ /\ Collect /\ UNCHANGED tools
     /\ merged' = IF bound = Unbounded /\ caller' = "returned" THEN Merge(delta) ELSE merged
  \/ \E i \in Inputs : (Branch(i) \/ Exit(i) \/ LetGo(i)) /\ UNCHANGED merged

\* The timer of wait_for fires; the child need not exit by itself.
ToolSpec ==
  /\ ToolInit /\ [][ToolNext]_tvars
  /\ LoopFairness /\ WF_gvars(Collect)
  /\ \A i \in Inputs : WF_running(Branch(i))

-----------------------------------------------------------------------------
\* A node that ends leaves no running child, whether the child answered,
\* failed or ran out of time, and whatever its siblings did; only a
\* cancellation from outside abandons it (tool_node.py:39-47).
ChildEndsWithNode ==
  \A i \in Tools : phase[i] = "ended" /\ child[i] = "running" => task[i] = "cancelled"

\* The keys of the merged scratchpad that branch j writes; the values a tool
\* carries over from the scratchpad it was entered with are not its own.
Writes(j, k) ==
  IF j \in Tools THEN outputKey[j] = k ELSE Pad \in DOMAIN delta[j] /\ k \in DOMAIN delta[j][Pad]

\* What a branch wrote under the key of a tool is what the state gets: the last
\* branch that writes the key wins, whatever the order of completion.  The one
\* exception is a key that held a value before: a later tool of another key was
\* built on the old scratchpad and brings the old value back (tool_node.py:49,
\* parallel.py:27).
OutputsSurvive ==
  bound = Unbounded /\ caller = "returned" =>
    \A k \in {outputKey[i] : i \in Tools} :
      LET w == Max({j \in Inputs : Writes(j, k)})
          shadowed == k \in DOMAIN prior /\ w < Max(Tools)
      IN  /\ k \in DOMAIN merged[Pad]
          /\ merged[Pad][k] = (IF shadowed THEN prior[k] ELSE IF w \in Tools THEN w ELSE delta[w][Pad][k])

\* Everything settles although children hang: the timeout kills them and their
\* permits go on.  A timeout does wait for descendants that keep the pipes open
\* (tool_node.py:42-43).
TimeoutsRelease == (\A i \in Tools : []<>(~held[i])) => EverythingSettles
=============================================================================
