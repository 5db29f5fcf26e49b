------------------------------ MODULE Exchange ------------------------------
(***************************************************************************)
(* The life of a graph description: it is built with MiniGraph and         *)
(* validated, or created from records directly, and serialised for someone *)
(* who loads it.  On the way anyone may reorder its lists, rewrite, add or *)
(* drop records, change the version or slip in a field no record has; the  *)
(* graph_id stays what the author computed.  The reader loads it with      *)
(* GraphSpec.from_dict, or builds the dataclass and validates it with lint.*)
(***************************************************************************)
EXTENDS Builder

CONSTANTS
  Authored,  \* the keyword arguments create is called with, as records
  Records,   \* what an editor may write into the list of each field
  MaxEdits   \* bound on the edits of one description

Lists == {"nodes", "edges", "reducers", "joins"}

\* Records are typed; create is given constructed objects, an editor is not
\* held to what the constructors check.
RecordsOf == [f \in Lists |-> CASE f = "nodes" -> NodeSpecs [] f = "edges" -> EdgeSpecs
                                [] f = "reducers" -> ReducerSpecs [] f = "joins" -> Joins]

IsArguments(a) ==
  /\ a.version \in SupportedVersions \cup {"inferred"}
  /\ a.nodes \in Seq(NodeSpecs)
  /\ a.edges \in Seq({e \in EdgeSpecs : EdgeConstructs(e)})
  /\ a.reducers \in Seq({r \in ReducerSpecs : ReducerConstructs(r)})
  /\ a.joins \in Seq({j \in Joins : JoinConstructs(j)})

ASSUME DescriptionsAssumption ==
  /\ \A a \in Authored : IsArguments(a)
  /\ \A f \in Lists : Records[f] \subseteq RecordsOf[f]

VARIABLES origin, wire, edits, rewritten, loaded, admitted

sent == <<origin, wire, edits, rewritten, loaded, admitted>>
vars == <<built, sent>>

Unread == [version |-> "unread"]

Unsent == [version |-> "unsent"]

Init ==
  /\ BuilderInit
  /\ origin = Unsent /\ wire = Unsent
  /\ edits = 0 /\ rewritten = FALSE
  /\ loaded = Unread /\ admitted = Unread

\* to_json; the author then forgets the builder.
Send(s) ==
  /\ origin = Unsent
  /\ origin' = s /\ wire' = ToDict(s)
  /\ nodes' = <<>> /\ edges' = <<>> /\ reducers' = <<>> /\ compiled' = Raised
  /\ UNCHANGED <<calls, edits, rewritten, loaded, admitted>>

SendBuilt == IsSpec(compiled) /\ Valid(compiled) /\ Send(compiled)

SendCreated ==
  \E a \in Authored :
    LET s == Create(a.version, a.maxSteps, a.nodes, a.edges, a.reducers, a.joins)
    IN  calls = 0 /\ IsSpec(s) /\ Send(s)

Edit(d, changes) ==
  /\ edits' = edits + 1
  /\ wire' = d
  /\ rewritten' = (rewritten \/ changes)
  /\ UNCHANGED <<built, origin, loaded, admitted>>

Swapped(s, i) == [s EXCEPT ![i] = s[i + 1], ![i + 1] = s[i]]

Reorder(f) ==
  \E i \in 1 .. Len(wire.payload[f]) - 1 :
    Edit([wire EXCEPT !.payload[f] = Swapped(@, i)], FALSE)

Rewrite(f) ==
  \/ \E i \in DOMAIN wire.payload[f], x \in Records[f] :
       Edit([wire EXCEPT !.payload[f] = ReplaceAt(@, i, x)], TRUE)
  \/ \E x \in Records[f] : Edit([wire EXCEPT !.payload[f] = Append(@, x)], TRUE)
  \/ \E i \in DOMAIN wire.payload[f] : Edit([wire EXCEPT !.payload[f] = RemoveAt(@, i)], TRUE)

Relabel == \E v \in SupportedVersions \cup {"3"} : Edit([wire EXCEPT !.payload.version = v], TRUE)
Stray(kind) == Edit([wire EXCEPT !.strays = @ \cup {kind}], TRUE)

Load ==
  /\ origin # Unsent /\ loaded = Unread
  /\ loaded' = FromDict(wire)
  /\ UNCHANGED <<built, origin, wire, edits, rewritten, admitted>>

\* The records construct one by one; then GraphSpec(...) and validate_graph_spec.
Admit ==
  LET p == wire.payload
  IN  /\ origin # Unsent /\ admitted = Unread
      /\ \A e \in ToSet(p.edges) : EdgeConstructs(e)
      /\ \A r \in ToSet(p.reducers) : ReducerConstructs(r)
      /\ \A j \in ToSet(p.joins) : JoinConstructs(j)
      /\ admitted' = Validated(Construct(p.version, wire.id, p.maxSteps, p.nodes, p.edges,
                                         p.reducers, p.joins))
      /\ UNCHANGED <<built, origin, wire, edits, rewritten, loaded>>

Next ==
  \/ origin = Unsent /\ BuilderNext /\ UNCHANGED sent
  \/ SendBuilt \/ SendCreated
  \/ /\ origin # Unsent /\ edits < MaxEdits
     /\ \/ \E f \in Lists : Reorder(f) \/ Rewrite(f)
        \/ Relabel
        \/ \E kind \in {"graph", "node", "edge", "reducer", "join"} : Stray(kind)
  \/ Load
  \/ Admit

Spec == Init /\ [][Next]_vars

-----------------------------------------------------------------------------
\* from_dict returns the author's spec or raises, whatever happened to the
\* lists, the version or the fields on the way (spec.py:390-480).
LoadedIsOrigin == loaded \in {Unread, Raised, origin}

\* A spec built directly that carries the author's graph_id and passes lint
\* is the author's spec (lint.py:91-109 with 318-337: the id of a schema "1"
\* spec covers neither reducers nor joins).
AdmittedIsOrigin == admitted \in {Unread, Raised, origin}

\* An untouched description loads, and so does one of a valid graph whose
\* lists were reordered (spec.py:235-238 sorts reducers and joins by one
\* field, which is a total order only when lint finds no duplicate).
DeliveryIsAccepted ==
  origin # Unsent /\ (edits = 0 \/ (~rewritten /\ Valid(origin))) => FromDict(wire) = origin

\* Whoever reads a description under the author's graph_id gets what the author
\* sent or an exception, and gets it unless somebody changed more than order.
ReaderGetsOrigin == LoadedIsOrigin /\ AdmittedIsOrigin /\ DeliveryIsAccepted
=============================================================================
