------------------------------- MODULE Dicts -------------------------------
(***************************************************************************)
(* Python's dict displays over functions: {key: value} and {**old, **new}. *)
(* They are :> and @@ of module TLC, written out for the proofs, which     *)
(* cannot look inside those.                                               *)
(***************************************************************************)

Pair(key, value) == [x \in {key} |-> value]

Updated(old, new) ==
  [x \in DOMAIN old \cup DOMAIN new |-> IF x \in DOMAIN new THEN new[x] ELSE old[x]]
=============================================================================
