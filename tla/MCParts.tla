------------------------------- MODULE MCParts -------------------------------
(***************************************************************************)
(* Four parts that share no state: the reducers, the Validated wrapper,    *)
(* the retry loop of chat_structured and the export to LangGraph.  A       *)
(* behaviour moves the one it begins with.                                 *)
(***************************************************************************)
EXTENDS Folding, Validated, Structured, Export

VARIABLE part

\* Every base and every one to three contributions from a few values.
MCItems == {"x", "y"}
MCLists == {<<>>, <<"x">>, <<"y">>, <<"x", "y">>, <<"x", "x">>}
MCDicts == {<<Absent, Absent>>, <<"x", Absent>>, <<"y", Absent>>, <<Absent, "x">>, <<"x", "y">>}
MCAtoms == {<<"x">>}

\* Every graph of one or two nodes over two scratchpad keys.
Pads == {NoPad, Empty} \cup [{"a"} -> {"good", "bad"}] \cup {[x \in {"b"} |-> "good"]}
          \cup {[x \in {"a", "b"} |-> IF x = "b" THEN "good" ELSE v] : v \in {"good", "bad"}}

Nodes == [shape : {"def", "async def", "object"}, wraps : 0 .. 2, pre : BOOLEAN,
          post : {{}, {"a"}}, pad : Pads, hint : {"keep", "clear"}]

MCChains == {<<n>> : n \in Nodes}
              \cup {<<m, n>> : m \in {n \in Nodes : n.wraps < 2}, n \in {n \in Nodes : n.shape = "async def"}}

\* A negative number, no retries, the default, and more.
SomeRetries == -1 .. 2

\* All graphs of two nodes, each source with any kind of edge; a router may
\* answer with an unregistered name.
Edge(kind, declared, targets) == [kind |-> kind, declared |-> declared, targets |-> targets]

Names == {"a", "b", "stray", END}
Some == {Edge("static", {}, {t}) : t \in Names \ {"stray"}}
          \cup {Edge("conditional", d, Names) : d \in {{}, {"a"}, {"b", END}}}
          \cup {Edge("fanout", {"a", "b"}, {END})}

Ways(S) == [S -> Some]
MCGraphs == {[nodes |-> {"a", "b"}, edge |-> e] :
               e \in UNION {Ways(S \cup {START}) : S \in SUBSET {"a", "b"}}}

EmptyGraph == [nodes |-> {}, edge |-> [s \in {START} |-> Edge("static", {}, {END})]]

-----------------------------------------------------------------------------
vars == <<part, foldVars, wrapped, dialogue, walks>>

NoFold == reducer = "union" /\ base = NoValue /\ contributions = <<>> /\ folded = NoValue
NoChain == Walks(<<>>, [hint |-> FALSE, pad |-> Empty])
NoDialogue == Begins(0)
NoExport == Exports(EmptyGraph)

Init ==
  \/ part = "reducers" /\ FoldInit /\ NoChain /\ NoDialogue /\ NoExport
  \/ part = "validator" /\ NoFold /\ ValidatedInit /\ NoDialogue /\ NoExport
  \/ part = "structured_output" /\ NoFold /\ NoChain /\ StructuredInit /\ NoExport
  \/ part = "langgraph_adapter" /\ NoFold /\ NoChain /\ NoDialogue /\ ExportInit

Next ==
  /\ UNCHANGED part
  /\ \/ part = "reducers" /\ Fold /\ UNCHANGED <<wrapped, dialogue, walks>>
     \/ part = "validator" /\ ValidatedNext /\ UNCHANGED <<foldVars, dialogue, walks>>
     \/ part = "structured_output" /\ StructuredNext /\ UNCHANGED <<foldVars, wrapped, walks>>
     \/ part = "langgraph_adapter" /\ ExportNext /\ UNCHANGED <<foldVars, wrapped, dialogue>>

Spec == Init /\ [][Next]_vars
=============================================================================
