------------------------------ MODULE Builder ------------------------------
(***************************************************************************)
(* MiniGraph of graph/engine.py: the mutable builder whose registrations   *)
(* are Python dicts, kept in insertion order, and its description as a     *)
(* GraphSpec.  A registered edge carries what _describe_topology reads of  *)
(* a target name, a router, a ConditionalEdge or a FanOut with its Join.   *)
(***************************************************************************)
EXTENDS Lint

CONSTANTS
  Nodes,     \* the [name, ref] pairs add_node may be called with
  Routes,    \* the edges add_edge may be called with
  Reducers,  \* the [field, kind, ref] triples of add_reducer
  Limit,     \* max_steps
  MaxCalls   \* bound on the calls of one builder

\* _describe_topology: an edge, and the join nobody gave.
EdgeSpecOf(e) == [source |-> e.source, kind |-> e.kind, target |-> e.target,
                  router |-> e.router, declared |-> e.declared]
DefaultJoin(source) == [source |-> source, kind |-> "all", quorum |-> Nothing, ref |-> Nothing]

\* What add_edge may be given; only a fan-out has a join, under the name of
\* its source.
IsRoute(e) ==
  /\ EdgeSpecOf(e) \in EdgeSpecs
  /\ e = [source |-> e.source, kind |-> e.kind, target |-> e.target, router |-> e.router,
          declared |-> e.declared, join |-> e.join]
  /\ e.join \in Joins /\ e.join.source = e.source
  /\ IF e.kind = "fanout" THEN e.router = Nothing
     ELSE EdgeConstructs(EdgeSpecOf(e)) /\ e.join = DefaultJoin(e.source)

ASSUME RegistriesAssumption ==
  Nodes \subseteq NodeSpecs /\ (\A e \in Routes : IsRoute(e)) /\ Reducers \subseteq ReducerSpecs

VARIABLES nodes, edges, reducers, compiled, calls

built == <<nodes, edges, reducers, compiled, calls>>

\* Mutant: a registration that always comes last.
PutLast(d, item, key) == Append(d, item)

\* A registration under item[key]: an existing key keeps its place.
Put(d, item, key) ==
  IF \E i \in DOMAIN d : d[i][key] = item[key]
  THEN [i \in DOMAIN d |-> IF d[i][key] = item[key] THEN item ELSE d[i]]
  ELSE Append(d, item)

\* The constructors of FanOut and Join, and the one of Reducer, which does not
\* look at the field.
FanOutConstructs(e) ==
  e.kind = "fanout" => /\ Cardinality(e.declared) >= 2 /\ Empty \notin e.declared
                       /\ e.target \notin {Nothing, Empty}
                       /\ JoinConstructs(e.join)
                       /\ e.join.kind = "quorum" => e.join.quorum <= Cardinality(e.declared)

ReducerBinds(r) == r.ref # Nothing => r.kind = "custom"

\* _describe_topology.
IsFanout(e) == e.kind = "fanout"
JoinSpecs(es) == LET regions == Picked(es, {i \in DOMAIN es : IsFanout(es[i])})
                 IN  [i \in DOMAIN regions |-> regions[i].join]

\* ReducerSpec refuses what add_reducer accepted: an empty field name.
Describe(ns, es, rs) ==
  IF \A r \in ToSet(rs) : ReducerConstructs(r)
  THEN Create("inferred", Limit, ns, [i \in DOMAIN es |-> EdgeSpecOf(es[i])], rs, JoinSpecs(es))
  ELSE Raised

Description == Describe(nodes, edges, reducers)

-----------------------------------------------------------------------------
BuilderInit == nodes = <<>> /\ edges = <<>> /\ reducers = <<>> /\ compiled = Raised /\ calls = 0

Call == calls < MaxCalls /\ calls' = calls + 1

AddNode(n) ==
  /\ Call
  /\ nodes' = Put(nodes, n, "name")
  /\ UNCHANGED <<edges, reducers, compiled>>

\* add_edge and set_entry; a region cannot start at START.
AddEdge(e) ==
  /\ Call
  /\ FanOutConstructs(e)
  /\ ~(e.kind = "fanout" /\ e.source = START)
  /\ edges' = Put(edges, e, "source")
  /\ UNCHANGED <<nodes, reducers, compiled>>

AddReducer(r) ==
  /\ Call
  /\ ReducerBinds(r)
  /\ reducers' = Put(reducers, r, "field")
  /\ UNCHANGED <<nodes, edges, compiled>>

\* compile and compile_validated; the snapshot is kept as its description, or
\* as Raised if it has none.
Compile ==
  /\ Call
  /\ compiled' = Description
  /\ UNCHANGED <<nodes, edges, reducers>>

CompileValidated ==
  /\ Call
  /\ IsSpec(Description) /\ Valid(Description)
  /\ compiled' = Description
  /\ UNCHANGED <<nodes, edges, reducers>>

BuilderNext ==
  \/ \E n \in Nodes : AddNode(n)
  \/ \E e \in Routes : AddEdge(e)
  \/ \E r \in Reducers : AddReducer(r)
  \/ Compile
  \/ CompileValidated

-----------------------------------------------------------------------------
Orders(s) == SetToSeqs(ToSet(s))
Content == <<ToSet(nodes), ToSet(edges), ToSet(reducers)>>

\* The description, and with it the graph_id, does not depend on the order of
\* registration (engine.py:139-140): for every order of each registry it is
\* the same.
OrderIsIrrelevant ==
  /\ \A ns \in Orders(nodes) : Describe(ns, edges, reducers) = Description
  /\ \A es \in Orders(edges) : Describe(nodes, es, reducers) = Description
  /\ \A rs \in Orders(reducers) : Describe(nodes, edges, rs) = Description

\* A call gives a graph that is described before and after another graph_id
\* exactly when it changes what is registered (spec.py:216-252 with
\* engine.py:228-292).
IdFollowsContent ==
  [][IsSpec(Description) /\ IsSpec(Describe(nodes', edges', reducers')) =>
       (Content' = Content <=> Describe(nodes', edges', reducers').id = Description.id)]_built

\* What only an author can get wrong: the entry, the names edges use, the
\* budget, and the use of branches.
AuthorErrors == {"GS002", "GS003", "GS004", "GS005", "GS006", "GS007", "GS010", "GS011",
                 "GS201", "GS202", "GS203", "GS204", "GS205", "GS206"}

\* A builder can be described exactly when its reducers all name a field:
\* nothing else it accepts makes describe raise (engine.py:1037-1046 with
\* spec.py:156).  The description then never has an error of identity, shape,
\* version, duplication or join, which create and the registries rule out
\* (spec.py:313-349, engine.py:1025-1046): compile_validated refuses a graph
\* for its author's errors only.
OnlyAuthorErrors ==
  IF \E r \in ToSet(reducers) : r.field = Empty THEN ~IsSpec(Description)
  ELSE IsSpec(Description) /\ {issue.code : issue \in Errors(Description)} \subseteq AuthorErrors

\* The latest snapshot reads back from its serialised form (spec.py:384-480).
SnapshotReloads == IsSpec(compiled) => FromDict(ToDict(compiled)) = compiled

\* Whatever was registered, and in whatever order, there is one description of
\* it, or none because of an unnamed reducer; its identity, shape and joins are
\* in order and it survives being stored.
DescriptionIsCanonical == OrderIsIrrelevant /\ OnlyAuthorErrors /\ SnapshotReloads
=============================================================================
