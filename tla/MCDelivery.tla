----------------------------- MODULE MCDelivery -----------------------------
(***************************************************************************)
(* Small instances for model checking Delivery.                            *)
(***************************************************************************)
EXTENDS Delivery, MCEngine

MCDeliveryGates ==
  {g \in GateKind : g.start = g.settle /\ (g.present => g.settle)}

MCDeliveryGraphs ==
  {Diamond("any", 0, "union", "last", 4, FALSE),
   Graph([n \in {START, "p", "z"} |->
            CASE n = START -> Static("p") [] n = "p" -> Router({"z", END}) [] n = "z" -> Static("p")],
         "first", "first", 3, FALSE)}

\* JSON changes the value p writes, alone and in a list with another, and
\* what b writes; the type of field 2 refuses on reading what a writes.
MCUnreadable == [tag |-> "unreadable", items |-> <<>>]
MCAltered ==
  <<1, L("p")>> :> L("p as text") @@
  <<1, ListOf(<<"p", "a">>)>> :> ListOf(<<"p as text", "a">>) @@
  <<2, L("b")>> :> L("b as text") @@
  <<2, L("a")>> :> MCUnreadable
=============================================================================
