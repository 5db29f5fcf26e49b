----------------------------- MODULE Discovery -----------------------------
(***************************************************************************)
(* Backend observations and the choice of one (discovery/): the registry   *)
(* keeps one observation per name, in the order in which the names first   *)
(* arrived, as a dict does.  Probing belongs to the callers: an observation*)
(* is made at one moment and recorded at another, or never.  Addresses     *)
(* are left out.  arrived is history: what was recorded, in order.         *)
(***************************************************************************)
EXTENDS Integers, Sequences, FiniteSetsExt, SequencesExt

CONSTANTS
  KindOf,           \* the backends that exist, and the kind of each
  Healths,          \* the health it may be seen in; only "online" matters
  ModelSets,        \* what a backend may say it serves
  Hints,            \* the model_hint of a request; NoHint stands for None
  NoHint,
  MaxObservations   \* bound on the observations made

ASSUME MaxAssumption == MaxObservations \in Nat
ASSUME NoHintAssumption == \A models \in ModelSets : NoHint \notin models

VARIABLES registry, underway, clock, arrived

sightings == <<registry, underway, clock, arrived>>

Mirrors == {"lmstudio-mac"}

TierPref(tier, task) ==
  CASE tier = "mac" /\ task \in {"coding", "reasoning"} -> <<"ollama">>
    [] tier = "windows" /\ task \in {"coding", "reasoning"} -> <<"lmstudio">>
    [] tier = "shared" /\ task \in {"coding", "research"} -> <<"lmstudio", "ollama">>
    [] OTHER -> <<"ollama", "lmstudio">>

TierHosts == [mac |-> {"ollama-local"}, windows |-> {"lmstudio-win"}, shared |-> {}]

Requests == [hint : Hints \cup {NoHint}, task : {"coding", "reasoning", "research", "ops"},
             tier : {"mac", "windows", "shared"}]

DiscoveryInit == registry = <<>> /\ underway = {} /\ clock = 0 /\ arrived = <<>>

\* with_health stamps the observation.
Observe(name, models, health) ==
  /\ clock < MaxObservations
  /\ clock' = clock + 1
  /\ underway' = underway \cup
       {[name |-> name, kind |-> KindOf[name], models |-> models, health |-> health, seen |-> clock']}
  /\ UNCHANGED <<registry, arrived>>

\* A dict keeps the place of a key that is written again.
\* Mutants: the entry is removed and added; the first word is kept.
Renewed(reg, o) == Append(SelectSeq(reg, LAMBDA b : b.name # o.name), o)

Kept(reg, o) == IF \E i \in DOMAIN reg : reg[i].name = o.name THEN reg ELSE Append(reg, o)

Stored(reg, o) ==
  IF \E i \in DOMAIN reg : reg[i].name = o.name
  THEN [i \in DOMAIN reg |-> IF reg[i].name = o.name THEN o ELSE reg[i]]
  ELSE Append(reg, o)

Record(o) ==
  /\ registry' = Stored(registry, o)
  /\ underway' = underway \ {o}
  /\ arrived' = Append(arrived, o)
  /\ UNCHANGED clock

\* Places of the registry, in the order in which it lists the backends.
Online(reg) == {i \in DOMAIN reg : reg[i].health = "online"}

\* Mutant: a mirror serves what it is asked for.
AnyServing(reg, model) == {i \in Online(reg) : model \in reg[i].models}
Serving(reg, model) == {i \in Online(reg) : model \in reg[i].models /\ reg[i].name \notin Mirrors}

Candidates(reg, tier) ==
  {i \in Online(reg) : /\ TierHosts[tier] = {} \/ reg[i].name \in TierHosts[tier]
                       /\ reg[i].name \notin Mirrors}

\* Where loop k of select_backend may return: loop 0 is the hint's, the others
\* are those of the preferred kinds.
Stops(reg, q, k) ==
  IF k = 0
  THEN IF q.hint = NoHint THEN {} ELSE Serving(reg, q.hint)
  ELSE {i \in Candidates(reg, q.tier) : reg[i].kind = TierPref(q.tier, q.task)[k]}

\* select_backend; the empty sequence is NoBackendAvailableError.
Selected(reg, q) ==
  LET loops == {k \in 0 .. Len(TierPref(q.tier, q.task)) : Stops(reg, q, k) # {}}
  IN  IF loops = {} THEN <<>> ELSE <<reg[Min(Stops(reg, q, Min(loops)))]>>

DiscoveryNext ==
  \/ \E name \in DOMAIN KindOf, models \in ModelSets, health \in Healths : Observe(name, models, health)
  \/ \E o \in underway : Record(o)

DiscoverySpec == DiscoveryInit /\ [][DiscoveryNext]_sightings

-----------------------------------------------------------------------------
\* A mirror never serves, and the model that was asked for is served whenever
\* a usable backend has it (selector.py:46-57); otherwise the tier decides.
ChoiceFits ==
  \A b \in ToSet(registry), q \in Requests : Selected(registry, q) = <<b>> =>
    /\ b.name # "lmstudio-mac"
    /\ \/ q.hint \in b.models
       \/ /\ b.kind # "openrouter"
          /\ q.tier # "shared" => b.name = (IF q.tier = "mac" THEN "ollama-local" ELSE "lmstudio-win")
          /\ \A i \in DOMAIN registry :
               registry[i].health = "online" /\ q.hint \in registry[i].models =>
                 registry[i].name = "lmstudio-mac"

\* Renewed observations do not make requests flap between equal backends: as
\* long as the chosen backend stays online with the same models, only another
\* one that is online can take its place (registry.py:30).
OnlyRivalsChangeTheChoice ==
  [][\A q \in Requests, o \in underway :
       LET was == Selected(registry, q)
           now == Selected(registry', q)
           same == was # <<>> /\ o.name = was[1].name /\ o.models = was[1].models
           news == o.health = "online" /\ ~same
           lost == was # <<>> /\ o.name = was[1].name /\ o.health # "online"
       IN  Record(o) /\ ~news /\ ~lost =>
             [i \in DOMAIN was |-> was[i].name] = [i \in DOMAIN now |-> now[i].name]]_sightings

\* A request goes to a backend as its last word described it, and that word was
\* that it is online, however the words of the others came in between
\* (registry.py:30, 33; selector.py:43).
LastWordDecides ==
  \A b \in ToSet(registry), q \in Requests : Selected(registry, q) = <<b>> =>
    /\ b.health = "online"
    /\ arrived[Max({i \in DOMAIN arrived : arrived[i].name = b.name})] = b

\* A request goes to a backend that fits it and was online when last heard of.
ChoiceIsJustified == ChoiceFits /\ LastWordDecides
=============================================================================
