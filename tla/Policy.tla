------------------------------- MODULE Policy -------------------------------
(***************************************************************************)
(* The hardware policy wrapper of policy.py: a caller asks resolve for a   *)
(* placement and then check_affinity whether it may spawn there.  The      *)
(* store belongs to agate; what the wrapper reads of it is a verdict per   *)
(* model and tier and a routing table.                                     *)
(***************************************************************************)
EXTENDS Integers, FiniteSetsExt

CONSTANTS
  Models,     \* the models a policy may describe
  Stranger,   \* a model it does not
  Task,       \* the task_type of a request
  Hint        \* the optimize_for of a request

ASSUME StrangerAssumption == Stranger \notin Models

Tiers == <<"mac", "windows", "shared">>
TierNames == {Tiers[k] : k \in 1 .. 3}
Verdicts == {"ALLOW", "PREFER", "NEVER"}
Nothing == ""   \* None and the empty string, which are both false in Python

\* A legacy mapping may leave tiers out.
RawSpecs == UNION {[S -> Verdicts] : S \in SUBSET TierNames}
RouteKeys == {<<Task, Hint>>, <<Task, "default">>, <<"default">>}
Routings == [RouteKeys -> Models \cup {Stranger, Nothing}]   \* a missing key reads as None

Normalize(raw) ==
  [m \in DOMAIN raw |-> [t \in TierNames |-> IF t \in DOMAIN raw[m] THEN raw[m][t] ELSE "NEVER"]]

VARIABLES models, routing, asked, placement, verdict

wrapper == <<models, routing, asked, placement, verdict>>

Place(m, tier) == [model |-> m, tier |-> tier]
Nowhere == Place(Nothing, Nothing)

Wraps(raw, table) ==
  /\ models = Normalize(raw) /\ routing = table
  /\ asked = "nothing" /\ placement = Nowhere /\ verdict = "unknown"

PolicyInit ==
  \E M \in SUBSET Models : \E raw \in [M -> RawSpecs], table \in Routings : Wraps(raw, table)

\* The first tier with PREFER, else the first with ALLOW.
TiersWith(spec, v) == {k \in 1 .. 3 : spec[Tiers[k]] = v}

\* Mutant: only a preferred tier counts.
LastResort(spec, otherwise) ==
  IF TiersWith(spec, "PREFER") = {} THEN otherwise ELSE Tiers[Min(TiersWith(spec, "PREFER"))]

Preferred(spec, otherwise) ==
  LET best == IF TiersWith(spec, "PREFER") = {} THEN TiersWith(spec, "ALLOW")
                                                ELSE TiersWith(spec, "PREFER")
  IN  IF best = {} THEN otherwise ELSE Tiers[Min(best)]

\* resolve with a model_hint, and by the routing table.  Nowhere is an error:
\* HardwareAffinityError, or a KeyError of the tables.
\* Mutant: a model the policy does not know is placed.
ByTrustedHint(m) ==
  IF m \in DOMAIN models THEN Place(m, Preferred(models[m], Nothing)) ELSE Place(m, "shared")

ByHint(m) ==
  IF m \notin DOMAIN models \/ Preferred(models[m], Nothing) = Nothing
  THEN Nowhere ELSE Place(m, Preferred(models[m], Nothing))

\* The most specific route that names a model.
Route(optimizeFor) ==
  LET keys == <<<<Task, optimizeFor>>, <<Task, "default">>, <<"default">>>>
      found == {k \in 1 .. 3 : routing[keys[k]] # Nothing}
  IN  IF found = {} THEN Nothing ELSE routing[keys[Min(found)]]

ByRoute(optimizeFor) ==
  LET m == Route(optimizeFor)
  IN  IF m \in DOMAIN models THEN Place(m, Preferred(models[m], "shared")) ELSE Nowhere

Ask(kind, p) ==
  /\ asked = "nothing"
  /\ asked' = kind /\ placement' = p
  /\ UNCHANGED <<models, routing, verdict>>

ResolveHint == \E m \in Models \cup {Stranger} : Ask("hint", ByHint(m))
ResolveRoute == \E optimizeFor \in {Hint, "default"} : Ask("route", ByRoute(optimizeFor))

\* A caller may also ask about a placement of its own.
Choose == \E m \in Models \cup {Stranger}, t \in TierNames : Ask("own", Place(m, t))

Affinity(m, t) == IF m \in DOMAIN models THEN models[m][t] ELSE "ALLOW"

CheckAffinity ==
  /\ placement # Nowhere /\ verdict = "unknown"
  /\ verdict' = Affinity(placement.model, placement.tier)
  /\ UNCHANGED <<models, routing, asked, placement>>

PolicyNext == ResolveHint \/ ResolveRoute \/ Choose \/ CheckAffinity

PolicySpec == PolicyInit /\ [][PolicyNext]_wrapper

-----------------------------------------------------------------------------
Resolved == asked \in {"hint", "route"} /\ placement # Nowhere

Admitted(m) == \E t \in TierNames : models[m][t] # "NEVER"

\* What resolve answers for a model that some tier admits, or for a hint, the
\* gate before the spawn admits too (policy.py:114-123).
PlacementsPass ==
  Resolved /\ (asked = "hint" \/ Admitted(placement.model)) => verdict # "NEVER"

\* A tier that prefers the model is never passed over for one that only allows
\* it, and what the policy does not describe is spawned only where the caller
\* chose it (policy.py:115-117, 138-141).
PolicyDecides ==
  /\ Resolved => placement.model \in DOMAIN models
  /\ Resolved /\ verdict = "ALLOW" =>
       \A t \in TierNames : models[placement.model][t] # "PREFER"

\* resolve and check_affinity agree on what the policy says of a placement.
ResolveAgrees == PlacementsPass /\ PolicyDecides

\* resolve makes no placement for a model that is NEVER on every tier: "No
\* compatibility path may convert universal NEVER into a permissive default"
\* (tests/test_policy.py:132-133).
NeverIsNeverPlaced == Resolved => Admitted(placement.model)
=============================================================================
