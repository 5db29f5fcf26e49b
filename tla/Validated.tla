------------------------------ MODULE Validated ------------------------------
(***************************************************************************)
(* Nodes wrapped by Validated (graph/plugins/validator.py), as the         *)
(* scheduler calls them and merges what they return.  A node is a function *)
(* ("def"), a coroutine function ("async def") or anything else that       *)
(* returns an awaitable ("object"): an object with an async __call__, as   *)
(* Validated is itself, or a lambda.                                       *)
(*                                                                         *)
(* The pre model asks for a model_hint, the post model for good values of  *)
(* some scratchpad keys.                                                   *)
(***************************************************************************)
EXTENDS Integers, Sequences, FiniteSets, SequencesExt, Dicts

CONSTANT Chains   \* the graphs: sequences of nodes, one edge to the next

VARIABLES chain, at, state, outcome

wrapped == <<chain, at, state, outcome>>

NoPad == [x \in {"no scratchpad in the delta"} |-> "good"]
Empty == [x \in {} |-> "good"]

Walks(c, s) == chain = c /\ at = 1 /\ state = s /\ outcome = "running"

FirstStates == [hint : BOOLEAN, pad : {Empty, [x \in {"a"} |-> "good"]}]
ValidatedInit == \E c \in Chains, s \in FirstStates : Walks(c, s)

Node == chain[at]

\* PerpetuaState.merge: a field of the delta takes the place of the old one.
Merge(s, n) == [hint |-> IF n.hint = "keep" THEN s.hint ELSE n.hint = "set",
                pad |-> IF n.pad = NoPad THEN s.pad ELSE n.pad]

\* {**state.scratchpad, **(delta.get("scratchpad") or {})}.
\* Mutants: the old values win; the delta alone is checked.
NewOnly(s, n) == IF n.pad = NoPad THEN Empty ELSE n.pad
OldOverNew(s, n) == IF n.pad = NoPad THEN s.pad ELSE Updated(n.pad, s.pad)
PostInput(s, n) == IF n.pad = NoPad THEN s.pad ELSE Updated(s.pad, n.pad)

Good(pad, post) == \A k \in post : k \in DOMAIN pad /\ pad[k] = "good"
PreFails(s, n) == n.pre /\ ~s.hint

\* Validated awaits the node it wraps only if that is a coroutine function,
\* which another Validated is not.
Awaited(n) == n.wraps = 1 /\ n.shape # "object"

\* What the scheduler makes of the node: it awaits whatever is awaitable once
\* and wants a dict.
Result(s, n) ==
  CASE n.wraps = 0 -> "delta"
    [] n.wraps > 0 /\ PreFails(s, n) -> "pre"
    [] n.wraps > 0 /\ ~PreFails(s, n) /\ ~Awaited(n) -> IF n.post # {} THEN "AttributeError" ELSE "TypeError"
    [] OTHER -> IF Good(PostInput(s, n), n.post) THEN "delta" ELSE "post"

Run ==
  /\ outcome = "running" /\ at <= Len(chain)
  /\ IF Result(state, Node) = "delta"
     THEN state' = Merge(state, Node) /\ at' = at + 1 /\ UNCHANGED outcome
     ELSE outcome' = Result(state, Node) /\ UNCHANGED <<state, at>>
  /\ UNCHANGED chain

Complete ==
  /\ outcome = "running" /\ at = Len(chain) + 1
  /\ outcome' = "done"
  /\ UNCHANGED <<chain, at, state>>

ValidatedNext == Run \/ Complete

ValidatedSpec == ValidatedInit /\ [][ValidatedNext]_wrapped

-----------------------------------------------------------------------------
\* After a wrapped node that carries the scratchpad on, as the nodes of this
\* repository do, the state that is published satisfies the post model
\* (validator.py:33-34, engine.py:509).
CarriedIsValid ==
  [][LET n == Node
         carries == n.pad = NoPad \/ DOMAIN state.pad \subseteq DOMAIN n.pad
     IN  at' = at + 1 /\ n.wraps > 0 /\ carries => Good(state'.pad, n.post)]_wrapped

\* The post model never stops a node whose result would have satisfied it
\* (validator.py:31-36).
RefusedIsInvalid ==
  [][outcome' = "post" => ~Good(Merge(state, Node).pad, Node.post)]_wrapped

\* The post model stops what is not valid and, where the scratchpad is carried
\* on, nothing else passes.
PostModelDecides == CarriedIsValid /\ RefusedIsInvalid
=============================================================================
