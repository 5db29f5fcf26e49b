----------------------------- MODULE MCExchange -----------------------------
(***************************************************************************)
(* Small registries and small descriptions for model checking Exchange.    *)
(***************************************************************************)
EXTENDS Exchange

RJoin(source, kind, quorum) == [source |-> source, kind |-> kind, quorum |-> quorum, ref |-> Nothing]
ToRegion(source, bs, then, kind, quorum) ==
  [source |-> source, kind |-> "fanout", target |-> then, router |-> Nothing, declared |-> bs,
   join |-> RJoin(source, kind, quorum)]
ToNode(source, kind, target, router, declared) ==
  [source |-> source, kind |-> kind, target |-> target, router |-> router, declared |-> declared,
   join |-> RJoin(source, "all", Nothing)]

\* 1 and 2 are nodes, 3 is registered by no call, 2 has two implementations;
\* an edge leads to the empty name and a reducer is for the empty field.
MCNodes == {[name |-> 1, ref |-> 5], [name |-> 2, ref |-> Nothing], [name |-> 2, ref |-> 6]}
MCRoutes ==
  {ToNode(START, "static", 1, Nothing, {}),
   ToNode(1, "static", END, Nothing, {}),
   ToNode(1, "static", Empty, Nothing, {}),
   ToNode(1, "conditional", Nothing, 7, {2, END}),
   ToRegion(1, {2, 3}, END, "all", Nothing),
   ToRegion(1, {2, 3}, END, "quorum", 1),
   ToRegion(1, {2, 3}, END, "quorum", 2),
   ToRegion(START, {1, 2}, END, "any", Nothing)}
MCReducers == {[field |-> 1, kind |-> "concat", ref |-> Nothing],
               [field |-> 2, kind |-> "custom", ref |-> 4],
               [field |-> Empty, kind |-> "union", ref |-> Nothing]}

-----------------------------------------------------------------------------
N(name, ref) == [name |-> name, ref |-> ref]
E(source, kind, target, router, declared) ==
  [source |-> source, kind |-> kind, target |-> target, router |-> router, declared |-> declared]
R(field, kind, ref) == [field |-> field, kind |-> kind, ref |-> ref]
J(source, kind, quorum) == [source |-> source, kind |-> kind, quorum |-> quorum, ref |-> Nothing]

Entry == E(START, "static", 1, Nothing, {})
Route == E(1, "conditional", Nothing, 7, {2, END})
Region == E(1, "fanout", END, Nothing, {2, 3})

Args(version, es, rs, js) ==
  [version |-> version, maxSteps |-> 3, nodes |-> <<N(2, Nothing), N(1, 5), N(3, Nothing)>>,
   edges |-> es, reducers |-> rs, joins |-> js]

\* Plain and region graphs; joins that are implied, explicit, orphaned and
\* duplicated; duplicate reducers; versions given and inferred.
MCAuthored ==
  {Args("inferred", <<Entry, Route>>, <<>>, <<>>),
   Args("1", <<Route, Entry>>, <<>>, <<J(1, "all", Nothing)>>),
   Args("1", <<Entry, Route>>, <<R(1, "last", Nothing)>>, <<>>),
   Args("inferred", <<Region, Entry>>, <<R(2, "custom", 4), R(1, "concat", Nothing)>>, <<J(1, "all", Nothing)>>),
   Args("2", <<Entry, Region>>, <<>>, <<J(1, "quorum", 2)>>),
   Args("2", <<Entry, Region>>, <<>>, <<J(1, "quorum", 2), J(1, "all", Nothing)>>),
   Args("2", <<Entry, Region>>, <<R(1, "last", Nothing), R(1, "first", Nothing)>>, <<>>)}

MCRecords ==
  [f \in Lists |->
     CASE f = "nodes" -> {N(2, 6)}
       [] f = "edges" -> {Region, E(1, "static", Empty, Nothing, {}), E(2, "static", Nothing, Nothing, {})}
       [] f = "reducers" -> {R(1, "first", Nothing), R(2, "union", 4)}
       [] f = "joins" -> {J(1, "all", Nothing), J(1, "quorum", 1), J(2, "quorum", Nothing)}]
=============================================================================
