----------------------------- MODULE GraphSpec -----------------------------
(***************************************************************************)
(* Graph descriptions: the data types, canonical order, identity, creation *)
(* and loading of graph/spec.py.                                           *)
(*                                                                         *)
(* A name or reference is a number that stands for a string and orders as  *)
(* the strings do, Empty being the empty one; Nothing stands for None,     *)
(* which every sort key reads as the empty string.  declared_targets is a  *)
(* set, because the constructor sorts and deduplicates it.  JSON metadata, *)
(* names of blanks only and the refusal of ill-typed JSON are left out.  A *)
(* hash is the payload it is computed from.                                *)
(***************************************************************************)
EXTENDS Integers, FiniteSets, Sequences, SequencesExt

CONSTANTS START, END   \* the sentinel names of graph/engine.py

Empty == 0
Nothing == -1

ASSUME SentinelsAssumption ==
  START \in Nat /\ END \in Nat /\ START # END /\ Empty \notin {START, END}

Optional == Nat \cup {Nothing}
OrEmpty(x) == IF x = Nothing THEN Empty ELSE x

SupportedVersions == {"1", "2"}
JoinKinds == {"all", "any", "first_success", "quorum", "custom"}
ReducerKinds == {"reject_conflict", "first", "last", "concat", "union", "custom"}
EdgeKindOrder == [k \in {"conditional", "fanout", "static"} |->
                    CASE k = "conditional" -> 1 [] k = "fanout" -> 2 [] k = "static" -> 3]
JoinKindOrder == [k \in JoinKinds |->
                    CASE k = "all" -> 1 [] k = "any" -> 2 [] k = "custom" -> 3
                      [] k = "first_success" -> 4 [] k = "quorum" -> 5]

\* The records of a description, as the JSON readers and type hints have them.
NodeSpecs == [name : Nat, ref : Optional]
EdgeSpecs == {e \in [source : Nat, kind : DOMAIN EdgeKindOrder, target : Optional, router : Optional,
                     declared : SUBSET Nat] : IsFiniteSet(e.declared)}
ReducerSpecs == [field : Nat, kind : ReducerKinds, ref : Optional]
Joins == [source : Nat, kind : JoinKinds, quorum : Optional, ref : Optional]

\* The checks of the constructors of EdgeSpec, ReducerSpec and JoinSpec.
EdgeConstructs(e) ==
  \/ e.kind = "static" /\ e.target # Nothing /\ e.router = Nothing /\ e.declared = {}
  \/ e.kind = "conditional" /\ e.target = Nothing
  \/ e.kind = "fanout" /\ e.target # Nothing /\ e.router = Nothing /\ Cardinality(e.declared) >= 2

ReducerConstructs(r) ==
  r.field # Empty /\ r.kind \in ReducerKinds /\ (r.ref # Nothing => r.kind = "custom")

JoinConstructs(j) ==
  /\ j.kind \in JoinKinds
  /\ IF j.kind = "quorum" THEN j.quorum >= 1 ELSE j.quorum = Nothing
  /\ j.ref # Nothing => j.kind = "custom"

IsDefault(j) == j.kind = "all"

\* Lexicographic order of keys, and the stable sort of a sequence whose
\* elements have the given keys.
Precedes(a, b) ==
  \E i \in 1 .. Len(b) : /\ i > Len(a) \/ (i <= Len(a) /\ a[i] < b[i])
                         /\ \A k \in 1 .. i - 1 : k <= Len(a) /\ a[k] = b[k]

\* Mutant: no sort.
AsGiven(s, keys) == s

SortBy(s, keys) ==
  LET comesFirst(i, j) == \/ Precedes(keys[i], keys[j])
                          \/ ~Precedes(keys[j], keys[i]) /\ i <= j
      place(j) == Cardinality({i \in DOMAIN s : comesFirst(i, j)})
  IN  [k \in DOMAIN s |-> s[CHOOSE j \in DOMAIN s : place(j) = k]]

\* The members of S in ascending order, and the entries of s at the places I.
Ascending(S) ==
  CHOOSE q \in [1 .. Cardinality(S) -> S] : \A i, j \in DOMAIN q : i < j => q[i] < q[j]
Picked(s, I) == LET at == Ascending(I) IN [k \in DOMAIN at |-> s[at[k]]]

ByName(ns) == SortBy(ns, [i \in DOMAIN ns |-> <<ns[i].name, OrEmpty(ns[i].ref)>>])
EdgeKey(e) == <<e.source, EdgeKindOrder[e.kind], OrEmpty(e.target), OrEmpty(e.router)>>
                \o Ascending(e.declared)
ByEdge(es) == SortBy(es, [i \in DOMAIN es |-> EdgeKey(es[i])])
ByField(rs) == SortBy(rs, [i \in DOMAIN rs |-> <<rs[i].field>>])
BySource(js) == SortBy(js, [i \in DOMAIN js |-> <<js[i].source>>])
ByJoin(js) == SortBy(js, [i \in DOMAIN js |-> <<js[i].source, JoinKindOrder[js[i].kind]>>])

-----------------------------------------------------------------------------
(* canonical_graph_payload.  The schema "1" payload has no field for       *)
(* reducers and joins, which from_dict reads as empty lists.               *)

\* Mutant: identity without the joins.
JoinlessPayload(version, maxSteps, nodes, edges, reducers, joins) ==
  [version |-> version, maxSteps |-> maxSteps,
   nodes |-> ByName(nodes), edges |-> ByEdge(edges),
   reducers |-> IF version = "1" THEN <<>> ELSE ByField(reducers), joins |-> <<>>]

Payload(version, maxSteps, nodes, edges, reducers, joins) ==
  [version |-> version, maxSteps |-> maxSteps,
   nodes |-> ByName(nodes), edges |-> ByEdge(edges),
   reducers |-> IF version = "1" THEN <<>> ELSE ByField(reducers),
   joins |-> IF version = "1" THEN <<>> ELSE BySource(joins)]

\* Mutant: a serialised form without the joins.
PayloadSansJoins(s) == Payload(s.version, s.maxSteps, s.nodes, s.edges, s.reducers, <<>>)
PayloadOf(s) == Payload(s.version, s.maxSteps, s.nodes, s.edges, s.reducers, s.joins)
GraphId(payload) == payload

\* The dataclass constructor GraphSpec(...), with whatever id it is given.
Construct(version, id, maxSteps, nodes, edges, reducers, joins) ==
  [version |-> version, id |-> id, maxSteps |-> maxSteps,
   nodes |-> ByName(nodes), edges |-> ByEdge(edges),
   reducers |-> ByField(reducers), joins |-> BySource(joins)]

\* What a constructor or loader returns when it raises.
Raised == [version |-> "raised"]
IsSpec(s) == s # Raised

FanoutSources(edges) == {e.source : e \in {f \in ToSet(edges) : f.kind = "fanout"}}

SoleJoin(joins, j) == Cardinality({i \in DOMAIN joins : joins[i].source = j.source}) = 1

\* A join create leaves out: the default one, alone at a fan-out source.
IsImplied(j, edges, joins) ==
  IsDefault(j) /\ j.source \in FanoutSources(edges) /\ SoleJoin(joins, j)

UsesR3(edges, reducers, joins) ==
  reducers # <<>> \/ joins # <<>> \/ FanoutSources(edges) # {}

\* GraphSpec.create; version "inferred" is an omitted schema_version.
\* Mutant: schema "1" is not checked.
AnyFirstVersion(version, r3) == version = "2" => r3
VersionFits(version, r3) == (version = "1" => ~r3) /\ (version = "2" => r3)

Create(version, maxSteps, nodes, edges, reducers, joins) ==
  LET kept == ByJoin(Picked(joins, {i \in DOMAIN joins : ~IsImplied(joins[i], edges, joins)}))
      r3 == UsesR3(edges, reducers, kept)
      chosen == IF version = "inferred" THEN (IF r3 THEN "2" ELSE "1") ELSE version
  IN  IF VersionFits(version, r3)
      THEN Construct(chosen, GraphId(Payload(chosen, maxSteps, nodes, edges, reducers, kept)),
                     maxSteps, nodes, edges, reducers, kept)
      ELSE Raised

\* A serialised spec; strays are the kinds of record with an unknown field.
ToDict(s) == [id |-> s.id, payload |-> PayloadOf(s), strays |-> {}]

\* GraphSpec.from_dict.
Loadable(d) ==
  /\ d.strays = {}
  /\ d.payload.version \in SupportedVersions
  /\ \A e \in ToSet(d.payload.edges) : EdgeConstructs(e)
  /\ \A r \in ToSet(d.payload.reducers) : ReducerConstructs(r)
  /\ \A j \in ToSet(d.payload.joins) : JoinConstructs(j)

FromDict(d) ==
  LET p == d.payload
      s == Create(p.version, p.maxSteps, p.nodes, p.edges, p.reducers, p.joins)
  IN  IF Loadable(d) /\ IsSpec(s) /\ d.id = s.id THEN s ELSE Raised
=============================================================================
