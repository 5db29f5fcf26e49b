-------------------------------- MODULE Lint --------------------------------
(***************************************************************************)
(* Static validation of a graph description: lint_graph_spec of            *)
(* graph/lint.py.  An issue is its code and the names it is about; the     *)
(* order and the wording of issues are left out.  Codes GS0xx and GS2xx    *)
(* are errors, GS1xx, GS213 and GS214 warnings.                            *)
(***************************************************************************)
EXTENDS GraphSpec

Issue(code, at, to) == [code |-> code, at |-> at, to |-> to]
When(condition, code, at, to) == IF condition THEN {Issue(code, at, to)} ELSE {}

\* The values of a field that a sequence of records holds more than once.
Repeated(s, key) == {s[i][key] : i \in {j \in DOMAIN s : \E k \in 1 .. j - 1 : s[k][key] = s[j][key]}}

NodeNames(s) == {n.name : n \in ToSet(s.nodes)}
Edges(s, kind) == {e \in ToSet(s.edges) : e.kind = kind}
Fanouts(s) == Edges(s, "fanout")
Sources(s) == {e.source : e \in ToSet(s.edges)}

IdentityErrors(s) ==
  When(s.version \notin SupportedVersions, "GS013", Nothing, Nothing)
    \cup When(s.id # GraphId(PayloadOf(s)), "GS014", Nothing, Nothing)

NodeErrors(s) ==
  {Issue("GS001", n, Nothing) : n \in Repeated(s.nodes, "name")}
    \cup {Issue("GS002", n, Nothing) : n \in NodeNames(s) \cap {Empty}}
    \cup {Issue("GS011", n, Nothing) : n \in NodeNames(s) \cap {START, END}}
    \cup When(s.maxSteps <= 0, "GS010", Nothing, Nothing)

BadShape(e) ==
  CASE e.kind = "static" -> e.target = Nothing \/ e.router # Nothing \/ e.declared # {}
    [] e.kind = "conditional" -> e.target # Nothing
    [] e.kind = "fanout" -> FALSE

\* Where an edge may start and lead.
Startable(s, n) == n = START \/ n \in NodeNames(s)
Enterable(s, n) == n = END \/ n \in NodeNames(s)

StaticErrors(s, e) ==
  When(BadShape(e), "GS008", e.source, e.target)
    \cup When(~Startable(s, e.source), "GS004", e.source, e.target)
    \cup When(e.target # Nothing /\ ~Enterable(s, e.target), "GS005", e.source, e.target)

ConditionalErrors(s, e) ==
  When(BadShape(e), "GS009", e.source, e.target)
    \cup When(~Startable(s, e.source), "GS006", e.source, Nothing)
    \cup {Issue("GS007", e.source, t) : t \in {u \in e.declared : ~Enterable(s, u)}}

EdgeErrors(s) ==
  When(START \notin Sources(s), "GS003", START, Nothing)
    \cup {Issue("GS012", n, Nothing) : n \in Repeated(s.edges, "source")}
    \cup (UNION {StaticErrors(s, e) : e \in Edges(s, "static")})
    \cup (UNION {ConditionalErrors(s, e) : e \in Edges(s, "conditional")})

-----------------------------------------------------------------------------
(* _lint_regions.                                                          *)

\* Mutant: no GS211.
NotUsedErrors(s) ==
  When(~UsesR3(s.edges, s.reducers, s.joins) /\ s.version = "2", "GS212", Nothing, Nothing)

VersionErrors(s) ==
  LET r3 == UsesR3(s.edges, s.reducers, s.joins)
  IN  When(r3 /\ s.version = "1", "GS211", Nothing, Nothing)
        \cup When(~r3 /\ s.version = "2", "GS212", Nothing, Nothing)

\* Mutant: no GS202.
PlacedErrors(s, e, b) ==
  When(b \in {e.source, e.target, START, END}, "GS203", e.source, b)
    \cup When(b \in Sources(s), "GS204", e.source, b)

BranchErrors(s, e, b) ==
  IF b \notin NodeNames(s) THEN {Issue("GS202", e.source, b)}
  ELSE When(b \in {e.source, e.target, START, END}, "GS203", e.source, b)
         \cup When(b \in Sources(s), "GS204", e.source, b)
         \cup When(\E f \in Fanouts(s) : f.source # e.source /\ b \in f.declared,
                   "GS206", Nothing, b)

RegionErrors(s, e) ==
  When(e.source \notin NodeNames(s), "GS201", e.source, Nothing)
    \cup When(~Enterable(s, e.target), "GS205", e.source, e.target)
    \cup (UNION {BranchErrors(s, e, b) : b \in e.declared})

\* branch_counts keeps the last edge of a source.
BranchCount(s, source) ==
  LET last == CHOOSE i \in DOMAIN s.edges :
                /\ s.edges[i].kind = "fanout" /\ s.edges[i].source = source
                /\ \A k \in i + 1 .. Len(s.edges) : s.edges[k].source = source => s.edges[k].kind # "fanout"
  IN  Cardinality(s.edges[last].declared)

JoinErrors(s) ==
  {Issue("GS207", j.source, Nothing) : j \in {k \in ToSet(s.joins) : k.source \notin FanoutSources(s.edges)}}
    \cup {Issue("GS208", n, Nothing) : n \in Repeated(s.joins, "source")}
    \cup {Issue("GS209", j.source, Nothing) :
            j \in {k \in ToSet(s.joins) : /\ k.kind = "quorum" /\ k.source \in FanoutSources(s.edges)
                                          /\ k.quorum > BranchCount(s, k.source)}}

\* Mutant: no GS210.
NoReducerErrors(s) == {}
ReducerErrors(s) == {Issue("GS210", f, Nothing) : f \in Repeated(s.reducers, "field")}

Errors(s) ==
  IdentityErrors(s) \cup NodeErrors(s) \cup EdgeErrors(s) \cup VersionErrors(s)
    \cup JoinErrors(s) \cup ReducerErrors(s)
    \cup (UNION {RegionErrors(s, e) : e \in Fanouts(s)})

Valid(s) == Errors(s) = {}

\* validate_graph_spec.
Validated(s) == IF Valid(s) THEN s ELSE Raised

-----------------------------------------------------------------------------
(* Reachability over the edges as declared: lint_graph_spec, second half.  *)

\* Mutant: the branches of a region are forgotten.
ArcsToTarget(e) ==
  {<<e.source, t>> : t \in IF e.kind = "conditional" THEN e.declared ELSE {e.target}}

ArcsOf(e) ==
  CASE e.kind = "static"      -> {<<e.source, e.target>>}
    [] e.kind = "conditional" -> {<<e.source, t>> : t \in e.declared}
    [] e.kind = "fanout"      -> {<<e.source, t>> : t \in e.declared \cup {e.target}}
                                   \cup {<<b, e.target>> : b \in e.declared}

Arcs(s) == UNION {ArcsOf(e) : e \in ToSet(s.edges)}
Places(s) == {START} \cup {arc[2] : arc \in Arcs(s)}
Closed(S, arcs) == \A arc \in arcs : arc[1] \in S => arc[2] \in S

\* What the worklist loop computes (module Worklist): the least closed set.
Reachable(s) ==
  {n \in Places(s) : \A S \in SUBSET Places(s) : START \in S /\ Closed(S, Arcs(s)) => n \in S}

\* Conditional sources without declared targets may lead anywhere.
Opaque(s) == {e.source : e \in {f \in Edges(s, "conditional") : f.declared = {}}}
\* Mutant: routers without declared targets are ignored.
Ignored(s) == FALSE
ReachesOpaque(s) == Reachable(s) \cap Opaque(s) # {}

\* GS101: the nodes called definitely unreachable.
Unreachable(s) == IF ReachesOpaque(s) THEN {} ELSE NodeNames(s) \ Reachable(s)

\* GS102: no definite path from START to END.
Endless(s) == END \notin Reachable(s) /\ ~ReachesOpaque(s)

Unreferenced(s) ==
  {Issue("GS104", n.name, Nothing) : n \in {m \in ToSet(s.nodes) : m.ref = Nothing}}
    \cup {Issue("GS105", e.source, Nothing) : e \in {f \in Edges(s, "conditional") : f.router = Nothing}}
    \cup {Issue("GS213", x.source, Nothing) : x \in {j \in ToSet(s.joins) : j.kind = "custom" /\ j.ref = Nothing}}
    \cup {Issue("GS213", r.field, Nothing) : r \in {q \in ToSet(s.reducers) : q.kind = "custom" /\ q.ref = Nothing}}

Warnings(s) ==
  {Issue("GS101", n, Nothing) : n \in Unreachable(s)}
    \cup When(Endless(s), "GS102", Nothing, Nothing)
    \cup {Issue("GS103", n, Nothing) : n \in Opaque(s)}
    \cup Unreferenced(s)
    \cup When(s.reducers # <<>> /\ Fanouts(s) = {}, "GS214", Nothing, Nothing)
=============================================================================
