----------------------------- MODULE MCSessions -----------------------------
(***************************************************************************)
(* Every outermost graph of at most three nodes and every nested graph of  *)
(* at most two.                                                            *)
(***************************************************************************)
EXTENDS Sessions

Put(key, keeps) == [does |-> "write", key |-> key, keeps |-> keeps]
Ask(key) == [does |-> "ask", key |-> key]
Run(graph) == [does |-> "run", graph |-> graph]

OuterNodes == {Put("a", TRUE), Put("b", FALSE), Ask("a"), Ask("b"), Run("inner")}
InnerNodes == {Put("b", TRUE), Ask("a")}

UpTo(S, n) == UNION {[1 .. k -> S] : k \in 1 .. n}
MCCodes == {"outer" :> o @@ "inner" :> i : o \in UpTo(OuterNodes, 3), i \in UpTo(InnerNodes, 2)}
=============================================================================
