----------------------------- MODULE MCServices -----------------------------
(***************************************************************************)
(* The three services beside the graphs: discovery, policy and gossip.     *)
(* They share no state and call nobody, so that checking them one at a     *)
(* time is checking them all: a behaviour moves the service it begins with.*)
(***************************************************************************)
EXTENDS Discovery, Policy, Gossip

VARIABLE service

MCKindOf == "ollama-local" :> "ollama" @@ "lmstudio-win" :> "lmstudio"
              @@ "lmstudio-mac" :> "lmstudio" @@ "router" :> "openrouter"
MCModelSets == {{}, {"m"}}

\* Neither the models nor the writers are told apart.
Symmetric == Permutations(Models) \cup Permutations(Writers)

vars == <<service, sightings, wrapper, log>>

Init ==
  /\ DiscoveryInit /\ GossipInit
  /\ \/ service \in {"discovery", "gossip"} /\ Wraps(<<>>, [key \in RouteKeys |-> Nothing])
     \/ service = "policy" /\ PolicyInit

Next ==
  /\ UNCHANGED service
  /\ \/ service = "discovery" /\ DiscoveryNext /\ UNCHANGED <<wrapper, log>>
     \/ service = "policy" /\ PolicyNext /\ UNCHANGED <<sightings, log>>
     \/ service = "gossip" /\ GossipNext /\ UNCHANGED <<sightings, wrapper>>

Spec == Init /\ [][Next]_vars
=============================================================================
