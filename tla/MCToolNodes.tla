---------------------------- MODULE MCToolNodes ----------------------------
(***************************************************************************)
(* Two tools, with keys of their own or one for both, and between them a   *)
(* plain node that may write to a key of theirs; the scratchpad holds a    *)
(* value of one key.                                                       *)
(***************************************************************************)
EXTENDS ToolNodes

MCOutputKeys == {1 :> "a" @@ 3 :> "b", 1 :> "a" @@ 3 :> "a", 1 :> "b" @@ 3 :> "a"}
MCScratchpads == {"a" :> 0}
MCPlainDeltas == {<<>>, Pad :> ("a" :> 2), Pad :> ("b" :> 2)}
=============================================================================
