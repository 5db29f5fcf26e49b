------------------------------- MODULE Export -------------------------------
(***************************************************************************)
(* The topology export to LangGraph (graph/adapters/langgraph_adapter.py): *)
(* a native walk of a graph, beside the walk of what was exported, with    *)
(* the same answers of the routers.  What a router answers may depend on   *)
(* anything; that both sides see the same state is not claimed here.       *)
(* LangGraph is external: static edges are followed, a router's answer is  *)
(* looked up in its path map if it has one, a node without an edge is last.*)
(***************************************************************************)
EXTENDS Integers

CONSTANTS
  Graphs,       \* [nodes, edge]; DOMAIN edge holds the sources with an edge
  START, END,   \* the native sentinels
  LgStart, LgEnd

\* Where a walk stops that has no node to go to.
Broken == "broken"

\* The two pairs of sentinels may be the same strings or not.
ASSUME SentinelsAssumption ==
  {START, LgStart} \cap {END, LgEnd} = {} /\ Broken \notin {START, END, LgStart, LgEnd}

\* LangGraph compiles a graph only with an entry point and with edges between
\* its nodes, and keeps its own sentinels for itself.
ASSUME GraphsAssumption ==
  \A g \in Graphs :
    /\ START \in DOMAIN g.edge /\ DOMAIN g.edge \subseteq g.nodes \cup {START}
    /\ g.nodes \cap {START, END, LgStart, LgEnd, Broken} = {}
    /\ \A s \in DOMAIN g.edge : LgEnd \in g.edge[s].targets => LgEnd = END

VARIABLES graph, exported, native, foreign

walks == <<graph, exported, native, foreign>>

\* NotImplementedError: nothing is exported.
Unsupported == [refused |-> TRUE, edges |-> {}]

Sentinel(t) == IF t = END THEN LgEnd ELSE t
Source(s) == IF s = START THEN LgStart ELSE s

NoMap == [t \in {} |-> t]

\* path_map covers every native destination.
\* Mutant: only the declared ones.
DeclaredMap(g, e) == [t \in {Sentinel(d) : d \in e.declared} |-> t]
PathMap(g, e) == [t \in g.nodes \cup {LgEnd} |-> t]

\* The call that the exporter makes for an edge.
Added(g, s) ==
  LET e == g.edge[s]
  IN  [source |-> Source(s),
       map |-> IF e.kind = "conditional" /\ e.declared # {} THEN PathMap(g, e) ELSE NoMap]

ToLanggraph(g) ==
  IF \E s \in DOMAIN g.edge : g.edge[s].kind = "fanout" THEN Unsupported
  ELSE [refused |-> FALSE, edges |-> {Added(g, s) : s \in DOMAIN g.edge}]

Exports(g) ==
  /\ graph = g /\ exported = ToLanggraph(g)
  /\ native = START /\ foreign = LgStart

ExportInit == \E g \in Graphs : Exports(g)

\* A source without an edge leads to END (engine.py:525).
Answers(g, s) == IF s \in DOMAIN g.edge THEN g.edge[s].targets ELSE {END}
NativeNext(g, t) == IF t \in g.nodes \cup {END} THEN t ELSE Broken

\* LangGraph's step: the answer passes through _route and the path map.
ForeignNext(g, lg, s, t) ==
  LET added == {e \in lg.edges : e.source = s}
      routed == Sentinel(t)
      known == routed \in g.nodes \cup {LgEnd}
  IN  IF added = {} THEN LgEnd
      ELSE LET e == CHOOSE e \in added : TRUE
           IN  IF e.map = NoMap THEN (IF known THEN routed ELSE Broken)
               ELSE IF routed \in DOMAIN e.map THEN e.map[routed] ELSE Broken

ExportNext ==
  /\ exported # Unsupported
  /\ native \notin {END, Broken}
  /\ \E t \in Answers(graph, native) :
       native' = NativeNext(graph, t) /\ foreign' = ForeignNext(graph, exported, foreign, t)
  /\ UNCHANGED <<graph, exported>>

ExportSpec == ExportInit /\ [][ExportNext]_walks

-----------------------------------------------------------------------------
\* The exported graph takes the native path for every answer a router may
\* give, declared or not, to its end and where the path breaks; what cannot be
\* told in LangGraph's terms is refused, not exported as something else
\* (langgraph_adapter.py:80-104).
SamePath ==
  \/ exported = Unsupported /\ \E s \in DOMAIN graph.edge : graph.edge[s].kind = "fanout"
  \/ /\ exported # Unsupported
     /\ foreign = (IF native = Broken THEN Broken ELSE Source(Sentinel(native)))
     /\ \A s \in DOMAIN graph.edge : graph.edge[s].kind # "fanout"
=============================================================================
