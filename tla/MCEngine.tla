------------------------------ MODULE MCEngine ------------------------------
(***************************************************************************)
(* Small graphs and gates for model checking Engine.                       *)
(***************************************************************************)
EXTENDS EngineProps

MCNode == {"a", "b", "c", "p", "z", "ghost"}
MCNFields == 2

MCGates == GateKind
MCNoGate == {[present |-> FALSE, start |-> FALSE, settle |-> FALSE]}

Static(t) == [kind |-> "static", targets |-> {t}, branches |-> <<>>, join |-> "all", quorum |-> 0]
Router(ts) == [kind |-> "router", targets |-> ts, branches |-> <<>>, join |-> "all", quorum |-> 0]
FanOut(bs, then, join, quorum) ==
  [kind |-> "fanout", targets |-> {then}, branches |-> bs, join |-> join, quorum |-> quorum]

L(x) == ListOf(<<x>>)

\* p writes field 1, a and c both fields, b field 2, z nothing.
MCWrites(agree) ==
  [n \in MCNode |->
     CASE n = "p" -> [f \in {1} |-> L("p")]
       [] n = "a" -> [f \in {1, 2} |-> L("a")]
       [] n = "b" -> [f \in {2} |-> IF agree THEN L("a") ELSE L("b")]
       [] n = "c" -> [f \in {1, 2} |-> L("c")]
       [] OTHER   -> [f \in {} |-> NoValue]]

MCBase == [f \in 1 .. 2 |-> IF f = 1 THEN L("base") ELSE NoValue]

Graph(edges, r1, r2, max, agree) ==
  [nodes |-> MCNode \ {"ghost"},
   edge |-> [n \in MCNode \cup {START} |->
               IF n \in DOMAIN edges THEN edges[n] ELSE Static(END)],
   writes |-> MCWrites(agree), base |-> MCBase,
   reducer |-> [f \in 1 .. 2 |-> IF f = 1 THEN r1 ELSE r2], maxSteps |-> max]

\* START -> p -> region of a and b -> z -> END
Diamond(join, quorum, r1, r2, max, agree) ==
  Graph([n \in {START, "p"} |->
           IF n = START THEN Static("p") ELSE FanOut(<<"a", "b">>, "z", join, quorum)],
        r1, r2, max, agree)

Diamonds ==
  {Diamond("all", 0, "concat", "undeclared", 4, TRUE),
   Diamond("all", 0, "concat", "undeclared", 4, FALSE),
   Diamond("any", 0, "first", "last", 4, FALSE),
   Diamond("first_success", 0, "union", "custom", 4, FALSE),
   Diamond("quorum", 1, "custom", "concat", 3, FALSE),
   Diamond("quorum", 2, "reject_conflict", "custom", 2, FALSE),
   Diamond("custom", 0, "last", "custom", 4, FALSE)}

\* a region that is left through END, whose source is reached by a router
Trident ==
  Graph([n \in {START, "p"} |->
           IF n = START THEN Router({"p", END})
           ELSE FanOut(<<"a", "b", "c">>, END, "quorum", 2)],
        "concat", "first", 5, FALSE)

\* p may go round through z, or come to its end
Loop ==
  Graph([n \in {START, "p", "z"} |->
           CASE n = START -> Static("p") [] n = "p" -> Router({"z", END}) [] n = "z" -> Router({"p", "ghost"})],
        "first", "first", 4, FALSE)

\* a region inside a cycle: its source is entered again
RegionLoop ==
  Graph([n \in {START, "p", "z"} |->
           CASE n = START -> Static("p") [] n = "p" -> FanOut(<<"a", "b">>, "z", "any", 0)
             [] n = "z" -> Router({"p"})],
        "union", "last", 8, FALSE)

\* names that are not registered: after a node, and among the branches
Ghosts ==
  {Graph([n \in {START, "p"} |-> IF n = START THEN Static("p") ELSE Static("ghost")],
         "first", "first", 3, FALSE),
   Graph([n \in {START, "p"} |-> IF n = START THEN Static("p")
                                 ELSE FanOut(<<"a", "ghost">>, END, "all", 0)],
         "first", "first", 3, FALSE)}

MCGraphs == Diamonds \cup Ghosts \cup {Loop}
MCWide == {Trident}
MCCycles == Diamonds \cup {Loop, RegionLoop}
MCTightBudget == {Diamond("quorum", 1, "first", "concat", 3, FALSE)}
=============================================================================
