--------------------------- MODULE ServicesProofs ---------------------------
(***************************************************************************)
(* What stands alone: the services discovery, policy and gossip, then the  *)
(* export to LangGraph, the Validated wrapper, the retry loop of           *)
(* chat_structured, and the reducers.  They share no state, and nothing    *)
(* here depends on what another of them does.                              *)
(***************************************************************************)
EXTENDS Discovery, Policy, Gossip, Validated, Structured, Export, Folding, Induction,
        FiniteSetTheorems, FunctionTheorems, SequenceTheorems

-----------------------------------------------------------------------------
(* Backend discovery.                                                      *)


Kinds == {"ollama", "lmstudio"}

\* The table prefers local backends, and knows no other kind.
LEMMA PreferenceType ==
  ASSUME NEW tier, NEW task
  PROVE  /\ Len(TierPref(tier, task)) \in Nat
         /\ \A k \in 1 .. Len(TierPref(tier, task)) : TierPref(tier, task)[k] \in Kinds
<1>1. \/ TierPref(tier, task) = <<"ollama">> \/ TierPref(tier, task) = <<"lmstudio">>
      \/ TierPref(tier, task) = <<"lmstudio", "ollama">>
      \/ TierPref(tier, task) = <<"ollama", "lmstudio">>
  BY DEF TierPref
<1>2. TierPref(tier, task) \in Seq(Kinds)
  <2>1. {<<"ollama">>, <<"lmstudio">>, <<"lmstudio", "ollama">>, <<"ollama", "lmstudio">>}
          \subseteq Seq(Kinds)
    BY DEF Kinds
  <2> HIDE DEF Kinds
  <2> QED  BY <1>1, <2>1
<1> HIDE DEF Kinds
<1>3. \A s \in Seq(Kinds) : Len(s) \in Nat /\ \A k \in 1 .. Len(s) : s[k] \in Kinds
  OBVIOUS
<1> QED  BY <1>2, <1>3

\* The loops of select_backend stop at places of the registry.
LEMMA StopsArePlaces ==
  ASSUME NEW reg, DOMAIN reg \subseteq Nat, NEW q, NEW k
  PROVE  Stops(reg, q, k) \subseteq Nat /\ \A i \in Stops(reg, q, k) : i \in Online(reg)
  BY DEF Stops, Serving, Candidates, Online

\* c is where loop k of select_backend stops, and no loop before it does.
StopsAt(reg, q, k, c) ==
  /\ k \in 0 .. Len(TierPref(q.tier, q.task))
  /\ c \in Stops(reg, q, k) /\ \A i \in Stops(reg, q, k) : c <= i
  /\ \A j \in 0 .. Len(TierPref(q.tier, q.task)) : j < k => Stops(reg, q, j) = {}

NeverStops(reg, q) == \A k \in 0 .. Len(TierPref(q.tier, q.task)) : Stops(reg, q, k) = {}

\* What select_backend answers is where it stops first.
LEMMA WhereItStops ==
  ASSUME NEW reg, DOMAIN reg \subseteq Nat, NEW q
  PROVE  \/ NeverStops(reg, q) /\ Selected(reg, q) = <<>>
         \/ \E k, c \in Nat : StopsAt(reg, q, k, c) /\ Selected(reg, q) = <<reg[c]>>
<1> DEFINE K == 0 .. Len(TierPref(q.tier, q.task))
           loops == {k \in K : Stops(reg, q, k) # {}}
<1>1. loops \subseteq Nat
  OBVIOUS
<1>2. Selected(reg, q) = IF loops = {} THEN <<>> ELSE <<reg[Min(Stops(reg, q, Min(loops)))]>>
  BY DEF Selected
<1>3. CASE loops = {}
  BY <1>2, <1>3 DEF NeverStops
<1>4. CASE loops # {}
  <2> DEFINE k == Min(loops)
             c == Min(Stops(reg, q, k))
  <2>1. k \in loops /\ \A j \in loops : k <= j
    <3> HIDE DEF loops
    <3> QED  BY <1>1, <1>4, LeastNat DEF Min
  <2>2. Stops(reg, q, k) # {} /\ k \in K /\ k \in Nat
    <3> HIDE DEF k
    <3> QED  BY <1>1, <2>1
  <2>3. Stops(reg, q, k) \subseteq Nat
    BY StopsArePlaces
  <2>4. c \in Stops(reg, q, k) /\ \A i \in Stops(reg, q, k) : c <= i
    <3> HIDE DEF k
    <3> QED  BY <2>2, <2>3, LeastNat DEF Min
  <2>5. Selected(reg, q) = <<reg[c]>>
    BY <1>2, <1>4
  <2>6. ASSUME NEW j \in K, j < k PROVE Stops(reg, q, j) = {}
    <3>1. j \in Nat
      OBVIOUS
    <3>2. ~(k <= j)
      <4> HIDE DEF k
      <4> QED  BY <2>2, <2>6, <3>1
    <3> QED  BY <2>1, <3>2
  <2> HIDE DEF k, c, loops
  <2>7. StopsAt(reg, q, k, c)
    BY <2>2, <2>4, <2>6 DEF StopsAt
  <2>8. c \in Nat
    BY <2>3, <2>4
  <2> QED  BY <2>2, <2>5, <2>7, <2>8
<1> QED  BY <1>3, <1>4

\* It stops in one place.
LEMMA StopsOnce ==
  ASSUME NEW reg, DOMAIN reg \subseteq Nat, NEW q,
         NEW k \in Nat, NEW c \in Nat, StopsAt(reg, q, k, c)
  PROVE  Selected(reg, q) = <<reg[c]>>
<1>1. k \in 0 .. Len(TierPref(q.tier, q.task)) /\ Stops(reg, q, k) # {}
  BY DEF StopsAt
<1>2. ~NeverStops(reg, q)
  BY <1>1 DEF NeverStops
<1>3. PICK l, d \in Nat : StopsAt(reg, q, l, d) /\ Selected(reg, q) = <<reg[d]>>
  BY <1>2, WhereItStops
<1>4. l \in 0 .. Len(TierPref(q.tier, q.task)) /\ Stops(reg, q, l) # {}
  BY <1>3 DEF StopsAt
<1>5. ~(k < l) /\ ~(l < k)
  BY <1>1, <1>3, <1>4 DEF StopsAt
<1>6. k = l
  BY <1>3, <1>5
<1>7. c <= d /\ d <= c
  BY <1>3, <1>6 DEF StopsAt
<1>8. c = d
  BY <1>3, <1>7
<1> QED  BY <1>3, <1>8

\* If every backend that is online was online before with the same models, and
\* the chosen one still is, the choice is the same.
LEMMA SameChoice ==
  ASSUME NEW reg, DOMAIN reg \subseteq Nat, NEW new, DOMAIN new \subseteq Nat, NEW q,
         \A i \in Online(new) : /\ i \in Online(reg) /\ new[i].name = reg[i].name
                                /\ new[i].kind = reg[i].kind /\ new[i].models = reg[i].models,
         \A c \in DOMAIN reg : Selected(reg, q) = <<reg[c]>> => c \in Online(new)
  PROVE  [i \in DOMAIN Selected(reg, q) |-> Selected(reg, q)[i].name]
           = [i \in DOMAIN Selected(new, q) |-> Selected(new, q)[i].name]
<1>1. ASSUME NEW k PROVE Stops(new, q, k) \subseteq Stops(reg, q, k)
  BY DEF Stops, Serving, Candidates, Online
<1>2. ASSUME NEW k, NEW c \in Online(new), c \in Stops(reg, q, k) PROVE c \in Stops(new, q, k)
  BY <1>2 DEF Stops, Serving, Candidates, Online
<1>3. CASE NeverStops(reg, q) /\ Selected(reg, q) = <<>>
  <2>1. NeverStops(new, q)
    BY <1>1, <1>3 DEF NeverStops
  <2>2. ~ \E k, c \in Nat : StopsAt(new, q, k, c)
    BY <2>1 DEF NeverStops, StopsAt
  <2>3. Selected(new, q) = <<>>
    BY <2>2, WhereItStops
  <2> QED  BY <1>3, <2>3
<1>4. ASSUME NEW k \in Nat, NEW c \in Nat, StopsAt(reg, q, k, c), Selected(reg, q) = <<reg[c]>>
      PROVE  [i \in DOMAIN Selected(reg, q) |-> Selected(reg, q)[i].name]
               = [i \in DOMAIN Selected(new, q) |-> Selected(new, q)[i].name]
  <2>1. c \in Stops(reg, q, k)
    BY <1>4 DEF StopsAt
  <2>2. c \in DOMAIN reg
    BY <2>1, StopsArePlaces DEF Online
  <2>3. c \in Online(new) /\ new[c].name = reg[c].name
    BY <1>4, <2>2
  <2>4. StopsAt(new, q, k, c)
    BY <1>1, <1>2, <1>4, <2>1, <2>3 DEF StopsAt
  <2>5. Selected(new, q) = <<new[c]>>
    BY <2>4, StopsOnce
  <2> QED  BY <1>4, <2>3, <2>5
<1> QED  BY <1>3, <1>4, WhereItStops

-----------------------------------------------------------------------------
Words == [name : DOMAIN KindOf, kind : {KindOf[n] : n \in DOMAIN KindOf}, models : ModelSets,
          health : Healths, seen : Nat]

Sane(o) == o \in Words /\ o.kind = KindOf[o.name]

RTypes ==
  /\ registry \in Seq(Words) /\ arrived \in Seq(Words)
  /\ \A i \in DOMAIN registry : Sane(registry[i])
  /\ \A o \in underway : Sane(o)
  /\ clock \in Nat

\* A name has one entry, and it is the last word that came of it.
NamesDiffer == \A i, j \in DOMAIN registry : registry[i].name = registry[j].name => i = j

LastWord(i, p) ==
  /\ p \in DOMAIN arrived /\ arrived[p] = registry[i]
  /\ \A j \in DOMAIN arrived : j > p => arrived[j].name # registry[i].name

LastWords == \A i \in DOMAIN registry : \E p \in DOMAIN arrived : LastWord(i, p)

RInv == RTypes /\ NamesDiffer /\ LastWords

\* A registry of last words makes choices that are justified.
LEMMA LastWordsJustify ==
  RInv => ChoiceIsJustified
<1> SUFFICES ASSUME RInv, NEW b \in ToSet(registry), NEW q \in Requests,
                    Selected(registry, q) = <<b>>
             PROVE  /\ /\ b.name # "lmstudio-mac"
                       /\ \/ q.hint \in b.models
                          \/ /\ b.kind # "openrouter"
                             /\ q.tier # "shared" =>
                                  b.name = (IF q.tier = "mac" THEN "ollama-local" ELSE "lmstudio-win")
                             /\ \A i \in DOMAIN registry :
                                  registry[i].health = "online" /\ q.hint \in registry[i].models =>
                                    registry[i].name = "lmstudio-mac"
                    /\ b.health = "online"
                    /\ arrived[Max({i \in DOMAIN arrived : arrived[i].name = b.name})] = b
  BY DEF ChoiceIsJustified, ChoiceFits, LastWordDecides
<1>1. registry \in Seq(Words) /\ arrived \in Seq(Words) /\ DOMAIN registry \subseteq Nat
  BY DEF RInv, RTypes
<1>2. PICK k, c \in Nat : StopsAt(registry, q, k, c) /\ Selected(registry, q) = <<registry[c]>>
  <2>1. <<b>> # <<>>
    OBVIOUS
  <2> QED  BY <1>1, <2>1, WhereItStops
<1>3. registry[c] = b
  BY <1>2
<1>4. k \in 0 .. Len(TierPref(q.tier, q.task)) /\ c \in Stops(registry, q, k)
  BY <1>2 DEF StopsAt
<1>5. c \in DOMAIN registry /\ b.health = "online"
  BY <1>1, <1>3, <1>4, StopsArePlaces DEF Online
<1>6. b.name \notin Mirrors
  BY <1>3, <1>4 DEF Stops, Serving, Candidates
<1>7. ASSUME k = 0 PROVE q.hint \in b.models
  BY <1>3, <1>4, <1>7 DEF Stops, Serving
<1>8. ASSUME k # 0
      PROVE  /\ b.kind # "openrouter"
             /\ q.tier # "shared" =>
                  b.name = (IF q.tier = "mac" THEN "ollama-local" ELSE "lmstudio-win")
             /\ \A i \in DOMAIN registry :
                  registry[i].health = "online" /\ q.hint \in registry[i].models =>
                    registry[i].name = "lmstudio-mac"
  <2>1. k \in 1 .. Len(TierPref(q.tier, q.task)) /\ 0 < k
    BY <1>2, <1>4, <1>8, PreferenceType
  <2>2. b.kind = TierPref(q.tier, q.task)[k] /\ c \in Candidates(registry, q.tier)
    BY <1>3, <1>4, <1>8 DEF Stops
  <2>3. b.kind \in Kinds
    BY <2>1, <2>2, PreferenceType
  <2>4. q.tier \in {"mac", "windows", "shared"}
    BY DEF Requests
  <2>5. TierHosts[q.tier] = {} \/ b.name \in TierHosts[q.tier]
    BY <1>3, <2>2 DEF Candidates
  <2>6. ASSUME NEW i \in DOMAIN registry, registry[i].health = "online",
               q.hint \in registry[i].models
        PROVE  registry[i].name = "lmstudio-mac"
    <3>1. registry[i].models \in ModelSets
      BY DEF RInv, RTypes, Sane, Words
    <3>2. q.hint # NoHint
      BY <2>6, <3>1, NoHintAssumption
    <3>3. 0 \in 0 .. Len(TierPref(q.tier, q.task))
      BY PreferenceType
    <3>4. Stops(registry, q, 0) = {}
      BY <1>2, <2>1, <3>3 DEF StopsAt
    <3>5. i \notin Serving(registry, q.hint)
      BY <3>2, <3>4 DEF Stops
    <3> QED  BY <2>6, <3>5 DEF Serving, Online, Mirrors
  <2> QED  BY <2>3, <2>4, <2>5, <2>6 DEF Kinds, TierHosts
<1>9. arrived[Max({i \in DOMAIN arrived : arrived[i].name = b.name})] = b
  <2> DEFINE P == {i \in DOMAIN arrived : arrived[i].name = b.name}
  <2>1. PICK p \in DOMAIN arrived : LastWord(c, p)
    BY <1>5 DEF RInv, LastWords
  <2>2. arrived[p] = b /\ p \in P /\ \A j \in P : ~(j > p)
    BY <1>3, <2>1 DEF LastWord
  <2>3. P \subseteq Nat /\ p \in Nat
    BY <1>1
  <2>4. \A j \in P : j <= p
    BY <2>2, <2>3
  <2> HIDE DEF P
  <2>5. Max(P) \in P /\ \A j \in P : j <= Max(P)
    BY <2>2, <2>3, <2>4, GreatestNat
  <2>6. Max(P) = p
    BY <2>2, <2>3, <2>4, <2>5
  <2> QED  BY <2>2, <2>6 DEF P
<1> QED  BY <1>5, <1>6, <1>7, <1>8, <1>9 DEF Mirrors

\* Nothing is known at first.
LEMMA InitRInv ==
  DiscoveryInit => RInv
<1> SUFFICES ASSUME DiscoveryInit PROVE RInv
  OBVIOUS
<1> USE DEF DiscoveryInit
<1> QED  BY DEF RInv, RTypes, NamesDiffer, LastWords

\* What record does to the entry it finds, and to a name it does not find.
LEMMA StoredEntries ==
  ASSUME RInv, NEW o \in Words
  PROVE  /\ Stored(registry, o) \in Seq(Words)
         /\ DOMAIN registry \subseteq DOMAIN Stored(registry, o)
         /\ \A i \in DOMAIN registry :
              Stored(registry, o)[i] = IF registry[i].name = o.name THEN o ELSE registry[i]
         /\ \A i \in DOMAIN Stored(registry, o) \ DOMAIN registry :
              /\ Stored(registry, o)[i] = o /\ i = Len(registry) + 1
              /\ \A j \in DOMAIN registry : registry[j].name # o.name
<1>1. registry \in Seq(Words)
  BY DEF RInv, RTypes
<1>2. CASE \E i \in DOMAIN registry : registry[i].name = o.name
  <2>1. Stored(registry, o)
          = [i \in DOMAIN registry |-> IF registry[i].name = o.name THEN o ELSE registry[i]]
    BY <1>2 DEF Stored
  <2>2. DOMAIN registry = 1 .. Len(registry) /\ Len(registry) \in Nat
    BY <1>1
  <2>3. Stored(registry, o) \in [1 .. Len(registry) -> Words]
    BY <1>1, <2>1, <2>2
  <2>4. Stored(registry, o) \in Seq(Words)
    BY <2>2, <2>3
  <2> QED  BY <2>1, <2>4
<1>3. CASE ~ \E i \in DOMAIN registry : registry[i].name = o.name
  <2>1. Stored(registry, o) = Append(registry, o)
    BY <1>3 DEF Stored
  <2> QED  BY <1>1, <1>3, <2>1
<1> QED  BY <1>2, <1>3

\* A word that comes becomes the last of its name, and of no other.
LEMMA RecordKeepsRInv ==
  ASSUME RInv, NEW o \in underway, Record(o)
  PROVE  RInv'
<1>1. /\ registry' = Stored(registry, o) /\ underway' = underway \ {o}
      /\ arrived' = Append(arrived, o) /\ clock' = clock
  BY DEF Record
<1>2. /\ registry \in Seq(Words) /\ arrived \in Seq(Words) /\ Sane(o) /\ o \in Words
      /\ \A i \in DOMAIN registry : Sane(registry[i])
  BY DEF RInv, RTypes, Sane
<1>3. /\ registry' \in Seq(Words) /\ DOMAIN registry \subseteq DOMAIN registry'
      /\ \A i \in DOMAIN registry : registry'[i] = IF registry[i].name = o.name THEN o ELSE registry[i]
      /\ \A i \in DOMAIN registry' \ DOMAIN registry :
           /\ registry'[i] = o /\ i = Len(registry) + 1
           /\ \A j \in DOMAIN registry : registry[j].name # o.name
  BY <1>1, <1>2, StoredEntries
<1> DEFINE n == Len(arrived)
<1>4. /\ n \in Nat /\ DOMAIN arrived = 1 .. n /\ arrived' \in Seq(Words)
      /\ DOMAIN arrived' = 1 .. n + 1 /\ arrived'[n + 1] = o
      /\ \A p \in 1 .. n : arrived'[p] = arrived[p]
  BY <1>1, <1>2
<1> HIDE DEF n
<1>5. RTypes'
  <2>1. \A i \in DOMAIN registry' : Sane(registry'[i])
    BY <1>2, <1>3
  <2>2. \A w \in underway' : Sane(w)
    BY <1>1 DEF RInv, RTypes
  <2>3. clock' \in Nat
    BY <1>1 DEF RInv, RTypes
  <2>4. \A w : Sane(w)' <=> w \in Words /\ w.kind = KindOf[w.name]
    BY DEF Sane, Words
  <2>5. Words' = Words
    BY DEF Words
  <2> QED  BY <1>3, <1>4, <2>1, <2>2, <2>3, <2>5 DEF RTypes, Sane
<1>6. NamesDiffer'
  <2>1. ASSUME NEW i \in DOMAIN registry PROVE registry'[i].name = registry[i].name
    BY <1>3
  <2>2. \A i, j \in DOMAIN registry : registry[i].name = registry[j].name => i = j
    BY DEF RInv, NamesDiffer
  <2> QED  BY <1>3, <2>1, <2>2 DEF NamesDiffer
<1>7. LastWords'
  <2>1. \A p \in 1 .. n : p \in 1 .. n + 1 /\ ~(p > n) /\ n + 1 \in 1 .. n + 1
    BY <1>4
  <2>2. n + 1 \in 1 .. n + 1 /\ \A p \in 1 .. n + 1 : ~(p > n + 1) /\ (p \in 1 .. n \/ p = n + 1)
    BY <1>4
  <2>3. ASSUME NEW i \in DOMAIN registry', registry'[i] = o PROVE \E p \in DOMAIN arrived' : LastWord(i, p)'
    BY <1>4, <2>2, <2>3 DEF LastWord
  <2>4. ASSUME NEW i \in DOMAIN registry, registry[i].name # o.name
        PROVE  \E p \in DOMAIN arrived' : LastWord(i, p)'
    <3>1. PICK p \in DOMAIN arrived : LastWord(i, p)
      BY DEF RInv, LastWords
    <3>2. registry'[i] = registry[i] /\ arrived[p] = registry[i] /\ p \in 1 .. n
      BY <1>3, <1>4, <2>4, <3>1 DEF LastWord
    <3>3. \A j \in 1 .. n : j > p => arrived[j].name # registry[i].name
      BY <1>4, <3>1 DEF LastWord
    <3>4. \A j \in 1 .. n + 1 : j > p => arrived'[j].name # registry'[i].name
      BY <1>4, <2>2, <2>4, <3>2, <3>3
    <3>5. p \in 1 .. n + 1 /\ arrived'[p] = registry'[i]
      BY <1>4, <2>1, <3>2
    <3>6. LastWord(i, p)'
      BY <1>4, <3>4, <3>5 DEF LastWord
    <3> QED  BY <1>4, <3>5, <3>6
  <2>5. ASSUME NEW i \in DOMAIN registry' PROVE \E p \in DOMAIN arrived' : LastWord(i, p)'
    BY <1>3, <2>3, <2>4
  <2> QED  BY <2>5 DEF LastWords
<1> QED  BY <1>5, <1>6, <1>7 DEF RInv

\* Every step keeps it.
LEMMA NextRInv ==
  RInv /\ [DiscoveryNext]_sightings => RInv'
<1> SUFFICES ASSUME RInv, [DiscoveryNext]_sightings PROVE RInv'
  OBVIOUS
<1>1. ASSUME NEW name \in DOMAIN KindOf, NEW served \in ModelSets, NEW health \in Healths,
             Observe(name, served, health)
      PROVE  RInv'
  <2> DEFINE w == [name |-> name, kind |-> KindOf[name], models |-> served, health |-> health,
                   seen |-> clock']
  <2>1. /\ registry' = registry /\ arrived' = arrived /\ clock' = clock + 1
        /\ underway' = underway \cup {w}
    BY <1>1 DEF Observe
  <2>2. clock' \in Nat
    BY <2>1 DEF RInv, RTypes
  <2>3. Sane(w)
    BY <2>2 DEF Sane, Words
  <2> HIDE DEF w
  <2>4. RTypes'
    BY <2>1, <2>2, <2>3 DEF RInv, RTypes, Sane, Words
  <2> QED  BY <2>1, <2>4 DEF RInv, NamesDiffer, LastWords, LastWord
<1>2. CASE UNCHANGED sightings
  BY <1>2 DEF sightings, RInv, RTypes, NamesDiffer, LastWords, LastWord, Sane, Words
<1> QED  BY <1>1, <1>2, RecordKeepsRInv DEF DiscoveryNext

\* Every choice of a backend is justified by what was last heard of it.
THEOREM ChoicesAreJustified ==
  DiscoverySpec => []ChoiceIsJustified
<1>1. DiscoveryInit => RInv
  BY InitRInv
<1>2. RInv /\ [DiscoveryNext]_sightings => RInv'
  BY NextRInv
<1>3. RInv => ChoiceIsJustified
  BY LastWordsJustify
<1> QED  BY <1>1, <1>2, <1>3, PTL DEF DiscoverySpec

\* News of another backend that is not online, or the same news of the chosen
\* one, leaves the choice as it was.
LEMMA OtherNewsKeepsTheChoice ==
  ASSUME RInv, NEW q \in Requests, NEW o \in underway, Record(o),
         LET was == Selected(registry, q)
             same == was # <<>> /\ o.name = was[1].name /\ o.models = was[1].models
         IN  ~(o.health = "online" /\ ~same) /\ ~(was # <<>> /\ o.name = was[1].name /\ o.health # "online")
  PROVE  [i \in DOMAIN Selected(registry, q) |-> Selected(registry, q)[i].name]
           = [i \in DOMAIN Selected(registry', q) |-> Selected(registry', q)[i].name]
<1> DEFINE was == Selected(registry, q)
<1>1. registry' = Stored(registry, o) /\ Sane(o) /\ o \in Words
  BY DEF Record, RInv, RTypes, Sane
<1>2. /\ registry' \in Seq(Words) /\ DOMAIN registry \subseteq DOMAIN registry'
      /\ \A i \in DOMAIN registry : registry'[i] = IF registry[i].name = o.name THEN o ELSE registry[i]
      /\ \A i \in DOMAIN registry' \ DOMAIN registry :
           registry'[i] = o /\ \A j \in DOMAIN registry : registry[j].name # o.name
  BY <1>1, StoredEntries
<1>3. /\ registry \in Seq(Words) /\ \A i \in DOMAIN registry : Sane(registry[i])
      /\ \A i, j \in DOMAIN registry : registry[i].name = registry[j].name => i = j
  BY DEF RInv, RTypes, NamesDiffer
<1>4. DOMAIN registry \subseteq Nat /\ DOMAIN registry' \subseteq Nat
  BY <1>2, <1>3
<1>5. \/ was = <<>>
      \/ \E c \in DOMAIN registry : was = <<registry[c]>> /\ registry[c].health = "online"
  <2>1. ASSUME NEW k \in Nat, NEW c \in Nat, StopsAt(registry, q, k, c), was = <<registry[c]>>
        PROVE  c \in DOMAIN registry /\ registry[c].health = "online"
    BY <1>4, <2>1, StopsArePlaces DEF StopsAt, Online
  <2> QED  BY <1>4, <2>1, WhereItStops
<1>6. \/ was = <<>> /\ o.health # "online"
      \/ \E c \in DOMAIN registry :
           /\ was = <<registry[c]>> /\ registry[c].health = "online"
           /\ \/ o.name = registry[c].name /\ o.models = registry[c].models /\ o.health = "online"
              \/ o.name # registry[c].name /\ o.health # "online"
  <2> HIDE DEF was
  <2>1. ASSUME NEW c \in DOMAIN registry, was = <<registry[c]>> PROVE was # <<>> /\ was[1] = registry[c]
    BY <2>1
  <2> QED  BY <1>5, <2>1 DEF was
<1>7. \A i \in Online(registry') : /\ i \in Online(registry) /\ registry'[i].name = registry[i].name
                                   /\ registry'[i].kind = registry[i].kind
                                   /\ registry'[i].models = registry[i].models
  <2> HIDE DEF was
  <2>1. CASE o.health # "online"
    BY <1>2, <2>1 DEF Online
  <2>2. ASSUME NEW c \in DOMAIN registry, registry[c].health = "online", o.name = registry[c].name,
               o.models = registry[c].models
        PROVE  \A i \in Online(registry') : /\ i \in Online(registry) /\ registry'[i].name = registry[i].name
                                            /\ registry'[i].kind = registry[i].kind
                                            /\ registry'[i].models = registry[i].models
    <3>1. o.kind = registry[c].kind
      BY <1>1, <1>3, <2>2 DEF Sane
    <3>2. DOMAIN registry' \ DOMAIN registry = {}
      BY <1>2, <2>2
    <3>3. \A i \in DOMAIN registry : registry[i].name = o.name => i = c
      BY <1>3, <2>2
    <3> QED  BY <1>2, <2>2, <3>1, <3>2, <3>3 DEF Online
  <2> QED  BY <1>6, <2>1, <2>2
<1>8. ASSUME NEW c \in DOMAIN registry, was = <<registry[c]>> PROVE c \in Online(registry')
  <2> HIDE DEF was
  <2>1. /\ registry[c].health = "online"
        /\ \/ o.name = registry[c].name /\ o.health = "online"
           \/ o.name # registry[c].name
    <3>1. was # <<>>
      BY <1>8
    <3>2. PICK d \in DOMAIN registry :
            /\ was = <<registry[d]>> /\ registry[d].health = "online"
            /\ \/ o.name = registry[d].name /\ o.models = registry[d].models /\ o.health = "online"
               \/ o.name # registry[d].name /\ o.health # "online"
      BY <1>6, <3>1
    <3>3. registry[c] = registry[d]
      BY <1>8, <3>2
    <3> QED  BY <3>2, <3>3
  <2> QED  BY <1>2, <2>1 DEF Online
<1> QED  BY <1>4, <1>7, <1>8, SameChoice

\* As long as the chosen backend stays online with the same models, only
\* another one that is online can take its place, in every step.
THEOREM ChoicesAreStable ==
  DiscoverySpec => OnlyRivalsChangeTheChoice
<1> DEFINE Quiet(q, o) ==
      LET was == Selected(registry, q)
          same == was # <<>> /\ o.name = was[1].name /\ o.models = was[1].models
      IN  ~(o.health = "online" /\ ~same) /\ ~(was # <<>> /\ o.name = was[1].name /\ o.health # "online")
<1>1. DiscoveryInit => RInv
  BY InitRInv
<1>2. RInv /\ [DiscoveryNext]_sightings => RInv'
  BY NextRInv
<1>3. RInv /\ [DiscoveryNext]_sightings =>
        [\A q \in Requests, o \in underway :
           LET was == Selected(registry, q)
               now == Selected(registry', q)
               same == was # <<>> /\ o.name = was[1].name /\ o.models = was[1].models
               news == o.health = "online" /\ ~same
               lost == was # <<>> /\ o.name = was[1].name /\ o.health # "online"
           IN  Record(o) /\ ~news /\ ~lost =>
                 [i \in DOMAIN was |-> was[i].name] = [i \in DOMAIN now |-> now[i].name]]_sightings
  <2>1. ASSUME RInv, NEW q \in Requests, NEW o \in underway, Record(o), Quiet(q, o)
        PROVE  [i \in DOMAIN Selected(registry, q) |-> Selected(registry, q)[i].name]
                 = [i \in DOMAIN Selected(registry', q) |-> Selected(registry', q)[i].name]
    BY <2>1, OtherNewsKeepsTheChoice
  <2> QED  BY <2>1
<1> QED  BY <1>1, <1>2, <1>3, PTL DEF DiscoverySpec, OnlyRivalsChangeTheChoice

-----------------------------------------------------------------------------
(* The hardware policy.                                                    *)


\* What resolve prefers is a tier with PREFER, else one with ALLOW, and the
\* fallback if there is neither.
LEMMA PreferredTier ==
  ASSUME NEW spec \in [TierNames -> Verdicts], NEW otherwise
  PROVE  \/ /\ Preferred(spec, otherwise) = otherwise
            /\ \A t \in TierNames : spec[t] = "NEVER"
         \/ /\ Preferred(spec, otherwise) \in TierNames
            /\ spec[Preferred(spec, otherwise)] = "PREFER"
         \/ /\ Preferred(spec, otherwise) \in TierNames
            /\ spec[Preferred(spec, otherwise)] = "ALLOW"
            /\ \A t \in TierNames : spec[t] # "PREFER"
<1> DEFINE best == IF TiersWith(spec, "PREFER") = {} THEN TiersWith(spec, "ALLOW")
                                                     ELSE TiersWith(spec, "PREFER")
<1>1. Preferred(spec, otherwise) = IF best = {} THEN otherwise ELSE Tiers[Min(best)]
  BY DEF Preferred
<1>2. \A t \in TierNames : \E k \in 1 .. 3 : t = Tiers[k]
  BY DEF TierNames
<1>3. \A k \in 1 .. 3 : Tiers[k] \in TierNames
  BY DEF TierNames
<1>4. best \subseteq Nat
  BY DEF TiersWith
<1>5. CASE best = {}
  <2>1. TiersWith(spec, "PREFER") = {} /\ TiersWith(spec, "ALLOW") = {}
    BY <1>5
  <2>2. \A k \in 1 .. 3 : spec[Tiers[k]] # "PREFER" /\ spec[Tiers[k]] # "ALLOW"
    BY <2>1 DEF TiersWith
  <2>3. \A t \in TierNames : spec[t] \in Verdicts
    OBVIOUS
  <2> QED  BY <1>1, <1>2, <1>5, <2>2, <2>3 DEF Verdicts
<1>6. CASE best # {}
  <2>1. Min(best) \in best
    BY <1>4, <1>6, LeastNat DEF Min
  <2>2. Preferred(spec, otherwise) = Tiers[Min(best)]
    BY <1>1, <1>6
  <2>3. CASE TiersWith(spec, "PREFER") # {}
    <3>1. Min(best) \in TiersWith(spec, "PREFER")
      BY <2>1, <2>3
    <3>2. Min(best) \in 1 .. 3 /\ spec[Tiers[Min(best)]] = "PREFER"
      BY <3>1 DEF TiersWith
    <3> QED  BY <1>3, <2>2, <3>2
  <2>4. CASE TiersWith(spec, "PREFER") = {}
    <3>1. Min(best) \in TiersWith(spec, "ALLOW")
      BY <2>1, <2>4
    <3>2. Min(best) \in 1 .. 3 /\ spec[Tiers[Min(best)]] = "ALLOW"
      BY <3>1 DEF TiersWith
    <3>3. \A k \in 1 .. 3 : spec[Tiers[k]] # "PREFER"
      BY <2>4 DEF TiersWith
    <3> QED  BY <1>2, <1>3, <2>2, <3>2, <3>3
  <2> QED  BY <2>3, <2>4
<1> QED  BY <1>5, <1>6

\* The wrapped models have a verdict for every tier.
FullSpecs == \A m \in DOMAIN models : models[m] \in [TierNames -> Verdicts]

\* A placement is what resolve said, and a verdict what the table says of it.
Answered ==
  /\ asked = "hint" /\ placement # Nowhere =>
       \E m \in DOMAIN models : /\ placement = Place(m, Preferred(models[m], Nothing))
                                /\ Preferred(models[m], Nothing) # Nothing
  /\ asked = "route" /\ placement # Nowhere =>
       \E m \in DOMAIN models : placement = Place(m, Preferred(models[m], "shared"))
  /\ verdict # "unknown" => verdict = Affinity(placement.model, placement.tier)
  /\ asked = "nothing" => placement = Nowhere
  /\ placement = Nowhere => verdict = "unknown"

PInv == FullSpecs /\ Answered

\* An answer that obeys the tables makes the two halves of the wrapper agree.
LEMMA AnsweredAgrees ==
  PInv => ResolveAgrees
<1> SUFFICES ASSUME PInv PROVE ResolveAgrees
  OBVIOUS
<1> USE DEF PInv
<1>1. ASSUME asked = "hint", placement # Nowhere
      PROVE  PlacementsPass /\ PolicyDecides
  <2>1. PICK m \in DOMAIN models : /\ placement = Place(m, Preferred(models[m], Nothing))
                                   /\ Preferred(models[m], Nothing) # Nothing
    BY <1>1 DEF Answered
  <2>2. models[m] \in [TierNames -> Verdicts]
    BY DEF FullSpecs
  <2>3. placement.model = m /\ placement.tier = Preferred(models[m], Nothing)
    BY <2>1 DEF Place
  <2>4. verdict # "unknown" => verdict = models[m][Preferred(models[m], Nothing)]
    BY <2>3 DEF Answered, Affinity
  <2>5. \/ models[m][Preferred(models[m], Nothing)] = "PREFER"
        \/ /\ models[m][Preferred(models[m], Nothing)] = "ALLOW"
           /\ \A t \in TierNames : models[m][t] # "PREFER"
    BY <2>1, <2>2, PreferredTier
  <2> QED  BY <1>1, <2>3, <2>4, <2>5 DEF PlacementsPass, PolicyDecides, Resolved, Admitted
<1>2. ASSUME asked = "route", placement # Nowhere
      PROVE  PlacementsPass /\ PolicyDecides
  <2>1. PICK m \in DOMAIN models : placement = Place(m, Preferred(models[m], "shared"))
    BY <1>2 DEF Answered
  <2>2. models[m] \in [TierNames -> Verdicts]
    BY DEF FullSpecs
  <2>3. placement.model = m /\ placement.tier = Preferred(models[m], "shared")
    BY <2>1 DEF Place
  <2>4. verdict # "unknown" => verdict = models[m][Preferred(models[m], "shared")]
    BY <2>3 DEF Answered, Affinity
  <2>5. "shared" \in TierNames
    BY DEF TierNames, Tiers
  <2>6. \/ /\ Preferred(models[m], "shared") = "shared"
           /\ \A t \in TierNames : models[m][t] = "NEVER"
        \/ models[m][Preferred(models[m], "shared")] = "PREFER"
        \/ /\ models[m][Preferred(models[m], "shared")] = "ALLOW"
           /\ \A t \in TierNames : models[m][t] # "PREFER"
    BY <2>2, PreferredTier
  <2> QED  BY <1>2, <2>3, <2>4, <2>5, <2>6 DEF PlacementsPass, PolicyDecides, Resolved, Admitted
<1>3. ASSUME ~Resolved PROVE PlacementsPass /\ PolicyDecides
  BY <1>3 DEF PlacementsPass, PolicyDecides
<1> QED  BY <1>1, <1>2, <1>3 DEF Resolved, ResolveAgrees

\* Whatever the store holds, the wrapper starts with a verdict for every tier.
LEMMA InitPInv ==
  PolicyInit => PInv
<1> SUFFICES ASSUME PolicyInit PROVE PInv
  OBVIOUS
<1>1. PICK M \in SUBSET Models : \E raw \in [M -> RawSpecs], table \in Routings : Wraps(raw, table)
  BY DEF PolicyInit
<1>2. PICK raw \in [M -> RawSpecs], table \in Routings : Wraps(raw, table)
  BY <1>1
<1>3. models = Normalize(raw)
  BY <1>2 DEF Wraps
<1>4. ASSUME NEW m \in M, NEW t \in TierNames, t \in DOMAIN raw[m] PROVE raw[m][t] \in Verdicts
  <2>1. raw[m] \in RawSpecs
    OBVIOUS
  <2>2. PICK S \in SUBSET TierNames : raw[m] \in [S -> Verdicts]
    BY <2>1 DEF RawSpecs
  <2> QED  BY <1>4, <2>2
<1>5. FullSpecs
  BY <1>3, <1>4 DEF FullSpecs, Normalize, Verdicts
<1>6. Answered
  BY <1>2 DEF Wraps, Answered
<1> QED  BY <1>5, <1>6 DEF PInv

\* Every request of a caller keeps that.
LEMMA NextPInv ==
  PInv /\ [PolicyNext]_wrapper => PInv'
<1> SUFFICES ASSUME PInv, [PolicyNext]_wrapper PROVE PInv'
  OBVIOUS
<1> USE DEF PInv
<1>1. CASE ResolveHint
  <2>1. PICK m \in Models \cup {Stranger} : Ask("hint", ByHint(m))
    BY <1>1 DEF ResolveHint
  <2>2. models' = models /\ asked' = "hint" /\ placement' = ByHint(m) /\ verdict' = verdict
    BY <2>1 DEF Ask
  <2>3. asked = "nothing" /\ verdict = "unknown"
    BY <2>1 DEF Ask, Answered
  <2>4. placement' # Nowhere =>
          /\ m \in DOMAIN models /\ Preferred(models[m], Nothing) # Nothing
          /\ placement' = Place(m, Preferred(models[m], Nothing))
    BY <2>2 DEF ByHint
  <2> QED  BY <2>2, <2>3, <2>4 DEF FullSpecs, Answered
<1>2. CASE ResolveRoute
  <2>1. PICK optimizeFor \in {Hint, "default"} : Ask("route", ByRoute(optimizeFor))
    BY <1>2 DEF ResolveRoute
  <2>2. models' = models /\ asked' = "route" /\ placement' = ByRoute(optimizeFor) /\ verdict' = verdict
    BY <2>1 DEF Ask
  <2>3. asked = "nothing" /\ verdict = "unknown"
    BY <2>1 DEF Ask, Answered
  <2> DEFINE m == Route(optimizeFor)
  <2>4. placement' # Nowhere =>
          m \in DOMAIN models /\ placement' = Place(m, Preferred(models[m], "shared"))
    BY <2>2 DEF ByRoute
  <2> HIDE DEF m
  <2> QED  BY <2>2, <2>3, <2>4 DEF FullSpecs, Answered
<1>3. CASE Choose
  <2>1. PICK m \in Models \cup {Stranger}, t \in TierNames : Ask("own", Place(m, t))
    BY <1>3 DEF Choose
  <2>2. models' = models /\ asked' = "own" /\ verdict' = verdict /\ verdict = "unknown"
    BY <2>1 DEF Ask, Answered
  <2> QED  BY <2>2 DEF FullSpecs, Answered
<1>4. CASE CheckAffinity
  <2>1. /\ models' = models /\ asked' = asked /\ placement' = placement
        /\ placement # Nowhere /\ verdict' = Affinity(placement.model, placement.tier)
    BY <1>4 DEF CheckAffinity
  <2>2. Affinity(placement.model, placement.tier)' = Affinity(placement.model, placement.tier)
    BY <2>1 DEF Affinity
  <2> QED  BY <2>1, <2>2 DEF FullSpecs, Answered
<1>5. CASE UNCHANGED wrapper
  BY <1>5 DEF wrapper, FullSpecs, Answered, Affinity
<1> QED  BY <1>1, <1>2, <1>3, <1>4, <1>5 DEF PolicyNext

\* resolve and check_affinity agree on what the policy says of a placement,
\* for every policy, every routing table and every request.
THEOREM ResolveAndCheckAgree ==
  PolicySpec => []ResolveAgrees
<1>1. PolicyInit => PInv
  BY InitPInv
<1>2. PInv /\ [PolicyNext]_wrapper => PInv'
  BY NextPInv
<1>3. PInv => ResolveAgrees
  BY AnsweredAgrees
<1> QED  BY <1>1, <1>2, <1>3, PTL DEF PolicySpec

-----------------------------------------------------------------------------
(* The gossip log.                                                         *)

\* The lesser of two numbers.
LEMMA MinOfTwo ==
  ASSUME NEW a \in Nat, NEW b \in Nat
  PROVE  /\ Min({a, b}) \in Nat /\ Min({a, b}) <= a /\ Min({a, b}) <= b
         /\ Min({a, b}) = a \/ Min({a, b}) = b
<1>1. {a, b} \subseteq Nat /\ {a, b} # {}
  OBVIOUS
<1>2. Min({a, b}) \in {a, b} /\ \A y \in {a, b} : Min({a, b}) <= y
  BY <1>1, LeastNat DEF Min
<1> QED  BY <1>2

-----------------------------------------------------------------------------
Stamps == 1 .. MaxTime + 1

\* Times are positive, and every row that was handed over is known.
GTypes ==
  /\ wall \in Stamps
  /\ stamp \in [Writers -> Stamps \cup {Idle}]
  /\ rows \in Seq(Stamps)
  /\ since \in 0 .. MaxTime + 1
  /\ seen \in Seq(DOMAIN rows)
  /\ sinceThen \in Seq(0 .. MaxTime + 1) /\ Len(sinceThen) = Len(rows)

\* What was handed over is not newer than the poller's since.
SeenIsPast == \A k \in DOMAIN seen : rows[seen[k]] <= since

GInv == GTypes /\ SeenIsPast /\ TailIsAccountable

\* A page holds rows that are newer than t, none twice; it leaves out only
\* rows with limit newer rows after them.
LEMMA PageHolds ==
  ASSUME rows \in Seq(Stamps), NEW t \in Nat, NEW limit \in Nat
  PROVE  /\ Page(t, limit) \in Seq(Newer(t))
         /\ \A i, k \in DOMAIN Page(t, limit) : Page(t, limit)[i] = Page(t, limit)[k] => i = k
         /\ \A id \in Newer(t) : \/ \E k \in DOMAIN Page(t, limit) : Page(t, limit)[k] = id
                                 \/ Cardinality(Above(Newer(t), id)) >= limit
<1> DEFINE T == Newer(t)
           m == Min({limit, Cardinality(T)})
           page == Page(t, limit)
<1>1. T \subseteq 1 .. Len(rows) /\ Len(rows) \in Nat
  BY DEF Newer
<1>2. T \subseteq Nat /\ IsFiniteSet(T)
  <2>1. IsFiniteSet(1 .. Len(rows))
    BY <1>1, FS_Interval
  <2>2. T \in SUBSET (1 .. Len(rows))
    BY <1>1
  <2>3. IsFiniteSet(T)
    <3> HIDE DEF T
    <3> QED  BY <2>1, <2>2, FS_Subset
  <2> QED  BY <1>1, <2>3
<1>3. /\ Cardinality(T) \in Nat
      /\ \A x \in T : Cardinality(Above(T, x)) \in 0 .. Cardinality(T) - 1
      /\ \A x, y \in T : Cardinality(Above(T, x)) = Cardinality(Above(T, y)) => x = y
      /\ \A r \in 0 .. Cardinality(T) - 1 : \E x \in T : Cardinality(Above(T, x)) = r
  <2> HIDE DEF T
  <2> QED  BY <1>2, NumbersAreRanked
<1>4. m \in Nat /\ m <= Cardinality(T) /\ (m = limit \/ m = Cardinality(T))
  <2> HIDE DEF T
  <2> QED  BY <1>3, MinOfTwo
<1>5. page = [k \in 1 .. m |-> CHOOSE id \in T : Cardinality(Above(T, id)) = k - 1]
  BY DEF Page, Above
<1> HIDE DEF T, m, page
<1>6. ASSUME NEW k \in 1 .. m PROVE page[k] \in T /\ Cardinality(Above(T, page[k])) = k - 1
  <2>1. k - 1 \in 0 .. Cardinality(T) - 1
    BY <1>3, <1>4
  <2>2. \E x \in T : Cardinality(Above(T, x)) = k - 1
    BY <1>3, <2>1
  <2>3. page[k] = CHOOSE id \in T : Cardinality(Above(T, id)) = k - 1
    BY <1>5
  <2> QED  BY <2>2, <2>3
<1>7. page \in [1 .. m -> T]
  BY <1>5, <1>6
<1>8. page \in Seq(T) /\ DOMAIN page = 1 .. m
  BY <1>4, <1>7
<1>9. ASSUME NEW i \in 1 .. m, NEW k \in 1 .. m, page[i] = page[k] PROVE i = k
  <2>1. i - 1 = k - 1
    BY <1>6, <1>9
  <2> QED  BY <1>4, <2>1
<1>10. ASSUME NEW id \in T
       PROVE  (\E k \in 1 .. m : page[k] = id) \/ Cardinality(Above(T, id)) >= limit
  <2> DEFINE r == Cardinality(Above(T, id))
  <2>1. r \in 0 .. Cardinality(T) - 1
    BY <1>3
  <2> HIDE DEF r
  <2>2. CASE r < m
    <3>1. r + 1 \in 1 .. m /\ (r + 1) - 1 = r
      BY <1>4, <2>1, <2>2
    <3>2. page[r + 1] \in T /\ Cardinality(Above(T, page[r + 1])) = r
      BY <1>6, <3>1
    <3>3. page[r + 1] = id
      BY <1>3, <3>2 DEF r
    <3> QED  BY <3>1, <3>3
  <2>3. CASE ~(r < m)
    <3>1. r >= limit
      BY <1>3, <1>4, <2>1, <2>3
    <3> QED  BY <3>1 DEF r
  <2> QED  BY <2>2, <2>3
<1> QED  BY <1>8, <1>9, <1>10 DEF T, page

\* A row that a page leaves out is one the code's limit cut off.
LEMMA LeftOutIsCrowded ==
  ASSUME rows \in Seq(Stamps), since \in 0 .. MaxTime + 1, NEW id \in Newer(since),
         Cardinality(Above(Newer(since), id)) >= Limit
  PROVE  Crowded(id)
<1>1. Len(rows) \in Nat /\ DOMAIN rows = 1 .. Len(rows)
  OBVIOUS
<1>2. id \in 1 .. Len(rows) /\ rows[id] > since
  BY <1>1 DEF Newer
<1>3. \A j : j \in Above(Newer(since), id) <=> j \in id + 1 .. Len(rows) /\ rows[j] > since
  <2>1. \A j \in 1 .. Len(rows) : j > id <=> j \in id + 1 .. Len(rows)
    BY <1>1, <1>2
  <2>2. \A j \in id + 1 .. Len(rows) : j \in 1 .. Len(rows)
    BY <1>1, <1>2
  <2> QED  BY <1>1, <2>1, <2>2 DEF Above, Newer
<1>4. Above(Newer(since), id) = {j \in id + 1 .. Len(rows) : rows[j] > since}
  BY <1>3
<1> QED  BY <1>2, <1>4 DEF Crowded

\* A new log has lost nothing.
LEMMA InitGInv ==
  GossipInit => GInv
<1> SUFFICES ASSUME GossipInit PROVE GInv
  OBVIOUS
<1> USE DEF GossipInit
<1>1. MaxTime \in Nat
  BY BoundsAssumption
<1>2. GTypes
  BY <1>1 DEF GTypes, Stamps
<1>3. SeenIsPast /\ TailIsAccountable
  BY DEF SeenIsPast, TailIsAccountable, NothingTwice, IsInjective, LossHasACause
<1> QED  BY <1>2, <1>3 DEF GInv

\* A row that comes late is one that came when its time was past.
LEMMA InsertKeepsGInv ==
  ASSUME GInv, NEW w \in Writers, Insert(w)
  PROVE  GInv'
<1> DEFINE n == Len(rows)
<1>1. /\ stamp \in [Writers -> Stamps \cup {Idle}] /\ rows \in Seq(Stamps)
      /\ since \in 0 .. MaxTime + 1 /\ seen \in Seq(DOMAIN rows)
      /\ sinceThen \in Seq(0 .. MaxTime + 1) /\ Len(sinceThen) = n
  BY DEF GInv, GTypes
<1>2. /\ stamp[w] \in Stamps /\ rows' = Append(rows, stamp[w])
      /\ sinceThen' = Append(sinceThen, since) /\ stamp' = [stamp EXCEPT ![w] = Idle]
      /\ wall' = wall /\ since' = since /\ seen' = seen /\ cut' = cut
  BY <1>1 DEF Insert
<1>3. n \in Nat /\ n + 1 \in Nat /\ DOMAIN rows = 1 .. n
  BY <1>1
<1>4. /\ rows' \in Seq(Stamps) /\ Len(rows') = n + 1 /\ DOMAIN rows' = 1 .. n + 1
      /\ rows'[n + 1] = stamp[w] /\ \A i \in 1 .. n : rows'[i] = rows[i]
  BY <1>1, <1>2
<1>5. /\ sinceThen' \in Seq(0 .. MaxTime + 1) /\ Len(sinceThen') = n + 1
      /\ sinceThen'[n + 1] = since /\ \A i \in 1 .. n : sinceThen'[i] = sinceThen[i]
  BY <1>1, <1>2
<1>6. \A i \in 1 .. n + 1 : i \in 1 .. n \/ i = n + 1
  BY <1>3
<1>7. 1 .. n \subseteq 1 .. n + 1
  BY <1>3
<1> HIDE DEF n
<1>8. GTypes'
  <2>1. seen' \in Seq(DOMAIN rows')
    BY <1>1, <1>2, <1>3, <1>4, <1>7
  <2>2. stamp' \in [Writers -> Stamps \cup {Idle}]
    BY <1>1, <1>2
  <2>3. wall' \in Stamps /\ since' \in 0 .. MaxTime + 1
    BY <1>2 DEF GInv, GTypes
  <2>4. Stamps' = Stamps
    BY DEF Stamps
  <2> QED  BY <1>4, <1>5, <2>1, <2>2, <2>3, <2>4 DEF GTypes
<1>9. SeenIsPast'
  <2>1. \A k \in DOMAIN seen : seen[k] \in 1 .. n /\ rows[seen[k]] <= since
    BY <1>1, <1>3 DEF GInv, SeenIsPast
  <2> QED  BY <1>2, <1>4, <2>1 DEF SeenIsPast
<1>10. NothingTwice'
  BY <1>2 DEF GInv, TailIsAccountable, NothingTwice, IsInjective
<1>11. LossHasACause'
  <2>1. ASSUME NEW id \in 1 .. n, rows'[id] <= since', id \notin ToSet(seen')
        PROVE  rows'[id] <= sinceThen'[id] \/ id \in cut'
    <3>1. rows[id] <= since /\ id \notin ToSet(seen)
      BY <1>2, <1>4, <2>1 DEF ToSet
    <3>2. rows[id] <= sinceThen[id] \/ id \in cut
      BY <1>3, <3>1 DEF GInv, TailIsAccountable, LossHasACause
    <3> QED  BY <1>2, <1>4, <1>5, <3>2
  <2>2. rows'[n + 1] <= since' => rows'[n + 1] <= sinceThen'[n + 1]
    BY <1>2, <1>5
  <2> QED  BY <1>4, <1>6, <2>1, <2>2 DEF LossHasACause
<1> QED  BY <1>8, <1>9, <1>10, <1>11 DEF GInv, TailIsAccountable

\* A poll hands over what is new, and notes what it has no room for.
LEMMA PollKeepsGInv ==
  ASSUME GInv, Poll
  PROVE  GInv'
<1> DEFINE page == Page(since, Limit)
           times == {since} \cup {rows[page[k]] : k \in DOMAIN page}
           b == MaxTime + 1
<1>1. /\ rows \in Seq(Stamps) /\ since \in 0 .. b /\ seen \in Seq(DOMAIN rows)
  BY DEF GInv, GTypes
<1>2. /\ rows' = rows /\ wall' = wall /\ stamp' = stamp /\ sinceThen' = sinceThen
      /\ seen' = seen \o page /\ since' = Max(times)
      /\ cut' = cut \cup {id \in DOMAIN rows : Crowded(id)}
  BY DEF Poll
<1>3. b \in Nat /\ Limit \in Nat /\ since \in Nat
  BY <1>1, BoundsAssumption
<1>4. /\ page \in Seq(Newer(since))
      /\ \A i, k \in DOMAIN page : page[i] = page[k] => i = k
      /\ \A id \in Newer(since) : \/ \E k \in DOMAIN page : page[k] = id
                                  \/ Cardinality(Above(Newer(since), id)) >= Limit
  BY <1>1, <1>3, PageHolds
<1>5. \A id \in Newer(since) : id \in DOMAIN rows /\ rows[id] > since
  BY DEF Newer
<1> HIDE DEF page, b
<1>6. \A k \in DOMAIN page : page[k] \in DOMAIN rows /\ rows[page[k]] > since
  BY <1>4, <1>5
<1>7. \A id \in DOMAIN rows : rows[id] \in Nat /\ rows[id] <= b
  BY <1>1, <1>3 DEF Stamps, b
<1>8. times \subseteq Nat /\ times # {} /\ \A x \in times : x <= b
  BY <1>1, <1>3, <1>6, <1>7
<1>9. since' \in times /\ \A x \in times : x <= since'
  <2> HIDE DEF times
  <2> QED  BY <1>2, <1>3, <1>8, GreatestNat
<1>10. /\ since' \in 0 .. b /\ since <= since'
       /\ \A k \in DOMAIN page : rows[page[k]] <= since'
  BY <1>3, <1>8, <1>9
<1> HIDE DEF times
<1> DEFINE n == Len(seen)
<1>11. /\ n \in Nat /\ Len(page) \in Nat
       /\ seen' \in Seq(DOMAIN rows) /\ DOMAIN seen' = 1 .. n + Len(page)
       /\ DOMAIN seen = 1 .. n /\ DOMAIN page = 1 .. Len(page)
       /\ \A i \in 1 .. n : seen'[i] = seen[i]
       /\ \A i \in 1 .. Len(page) : seen'[n + i] = page[i]
  <2>1. page \in Seq(DOMAIN rows)
    BY <1>4, <1>6
  <2> QED  BY <1>1, <1>2, <2>1
<1>12. \A i \in 1 .. n + Len(page) : i \in 1 .. n \/ (i - n \in 1 .. Len(page) /\ n + (i - n) = i)
  BY <1>11
<1> HIDE DEF n
<1>13. ASSUME NEW i \in DOMAIN seen'
       PROVE  \/ i \in 1 .. n /\ seen'[i] = seen[i] /\ rows[seen'[i]] <= since
              \/ /\ i - n \in 1 .. Len(page) /\ seen'[i] = page[i - n]
                 /\ rows[seen'[i]] > since
  <2>1. CASE i \in 1 .. n
    BY <1>11, <2>1 DEF GInv, SeenIsPast
  <2>2. CASE i - n \in 1 .. Len(page) /\ n + (i - n) = i
    BY <1>6, <1>11, <2>2
  <2> QED  BY <1>11, <1>12, <2>1, <2>2
<1>14. GTypes'
  <2>1. wall \in Stamps /\ stamp \in [Writers -> Stamps \cup {Idle}] /\ Len(sinceThen) = Len(rows)
          /\ sinceThen \in Seq(0 .. MaxTime + 1)
    BY DEF GInv, GTypes
  <2>2. Stamps' = Stamps
    BY DEF Stamps
  <2> QED  BY <1>1, <1>2, <1>10, <1>11, <2>1, <2>2 DEF GTypes, b
<1>15. SeenIsPast'
  <2>1. ASSUME NEW i \in DOMAIN seen' PROVE rows[seen'[i]] <= since'
    <3>1. seen'[i] \in DOMAIN rows
      BY <1>11
    <3>2. rows[seen'[i]] \in Nat /\ since' \in Nat
      BY <1>3, <1>7, <1>10, <3>1
    <3>3. CASE rows[seen'[i]] <= since
      BY <1>3, <1>10, <3>2, <3>3
    <3>4. CASE i - n \in 1 .. Len(page) /\ seen'[i] = page[i - n]
      BY <1>10, <1>11, <3>4
    <3> QED  BY <1>13, <3>3, <3>4
  <2> QED  BY <1>2, <2>1 DEF SeenIsPast
<1>16. NothingTwice'
  <2>1. ASSUME NEW i \in DOMAIN seen', NEW k \in DOMAIN seen', seen'[i] = seen'[k] PROVE i = k
    <3>1. rows[seen'[i]] \in Nat
      BY <1>7, <1>11
    <3>2. ~(rows[seen'[i]] <= since /\ rows[seen'[k]] > since)
      BY <1>3, <2>1, <3>1
    <3>3. ~(rows[seen'[k]] <= since /\ rows[seen'[i]] > since)
      BY <1>3, <2>1, <3>1
    <3>4. CASE i \in 1 .. n /\ k \in 1 .. n
      <4>1. seen[i] = seen[k]
        BY <1>11, <2>1, <3>4
      <4> QED  BY <1>11, <3>4, <4>1 DEF GInv, TailIsAccountable, NothingTwice, IsInjective
    <3>5. CASE /\ i - n \in 1 .. Len(page) /\ seen'[i] = page[i - n]
               /\ k - n \in 1 .. Len(page) /\ seen'[k] = page[k - n]
      <4>1. i - n = k - n
        BY <1>4, <1>11, <2>1, <3>5
      <4>2. i \in Int /\ k \in Int
        BY <1>11
      <4> QED  BY <1>11, <4>1, <4>2
    <3> QED  BY <1>13, <3>2, <3>3, <3>4, <3>5
  <2> QED  BY <2>1 DEF NothingTwice, IsInjective
<1>17. LossHasACause'
  <2>1. ASSUME NEW id \in DOMAIN rows, rows[id] <= since', id \notin ToSet(seen')
        PROVE  rows[id] <= sinceThen[id] \/ id \in cut'
    <3>1. \A i \in DOMAIN seen' : seen'[i] # id
      BY <2>1 DEF ToSet
    <3>2. CASE rows[id] <= since
      <4>1. \A i \in DOMAIN seen : seen[i] # id
        <5>1. ASSUME NEW i \in 1 .. n PROVE i \in 1 .. n + Len(page)
          BY <1>11
        <5> QED  BY <1>11, <3>1, <5>1
      <4>2. id \notin ToSet(seen)
        BY <4>1 DEF ToSet
      <4> QED  BY <1>2, <3>2, <4>2 DEF GInv, TailIsAccountable, LossHasACause
    <3>3. CASE rows[id] > since
      <4>1. id \in Newer(since)
        BY <3>3 DEF Newer
      <4>2. ASSUME NEW k \in DOMAIN page PROVE page[k] # id
        <5>1. n + k \in 1 .. n + Len(page) /\ seen'[n + k] = page[k]
          BY <1>11
        <5> QED  BY <1>11, <3>1, <5>1
      <4>3. Cardinality(Above(Newer(since), id)) >= Limit
        BY <1>4, <4>1, <4>2
      <4>4. Crowded(id)
        BY <1>1, <4>1, <4>3, LeftOutIsCrowded DEF b
      <4> QED  BY <1>2, <4>4
    <3> QED  BY <1>3, <1>7, <3>2, <3>3
  <2> QED  BY <1>2, <2>1 DEF LossHasACause
<1> QED  BY <1>14, <1>15, <1>16, <1>17 DEF GInv, TailIsAccountable

\* Every step keeps it.
LEMMA NextGInv ==
  GInv /\ [GossipNext]_log => GInv'
<1> SUFFICES ASSUME GInv, [GossipNext]_log PROVE GInv'
  OBVIOUS
<1> DEFINE Still == /\ rows' = rows /\ since' = since /\ seen' = seen
                    /\ sinceThen' = sinceThen /\ cut' = cut
<1>1. ASSUME Still, wall' \in Stamps, stamp' \in [Writers -> Stamps \cup {Idle}] PROVE GInv'
  <2>1. Stamps' = Stamps
    BY DEF Stamps
  <2>2. GTypes'
    BY <1>1, <2>1 DEF GInv, GTypes
  <2>3. SeenIsPast' /\ NothingTwice'
    BY <1>1 DEF GInv, TailIsAccountable, SeenIsPast, NothingTwice, IsInjective
  <2>4. LossHasACause'
    BY <1>1 DEF GInv, TailIsAccountable, LossHasACause, ToSet
  <2> QED  BY <2>2, <2>3, <2>4 DEF GInv, TailIsAccountable
<1>2. wall \in Stamps /\ stamp \in [Writers -> Stamps \cup {Idle}]
  BY DEF GInv, GTypes
<1>3. CASE Tick
  <2>1. PICK t \in 1 .. MaxTime : wall' = t
    BY <1>3 DEF Tick
  <2>2. wall' \in Stamps
    BY <2>1, BoundsAssumption DEF Stamps
  <2> QED  BY <1>1, <1>2, <1>3, <2>2 DEF Tick
<1>4. ASSUME NEW w \in Writers, Emit(w) PROVE GInv'
  <2>1. stamp' \in [Writers -> Stamps \cup {Idle}] /\ wall' = wall
    BY <1>2, <1>4 DEF Emit
  <2> QED  BY <1>1, <1>2, <1>4, <2>1 DEF Emit
<1>5. ASSUME NEW w \in Writers, Fail(w) PROVE GInv'
  <2>1. stamp' \in [Writers -> Stamps \cup {Idle}] /\ wall' = wall
    BY <1>2, <1>5 DEF Fail
  <2> QED  BY <1>1, <1>2, <1>5, <2>1 DEF Fail
<1>6. CASE UNCHANGED log
  BY <1>1, <1>2, <1>6 DEF log
<1> QED  BY <1>3, <1>4, <1>5, <1>6, InsertKeepsGInv, PollKeepsGInv DEF GossipNext

\* A poller gets every event once, but for events stamped before a time it had
\* seen and pages with no room, whatever the clock does and however many emit.
THEOREM TailLosesOnlyForACause ==
  GossipSpec => []TailIsAccountable
<1>1. GossipInit => GInv
  BY InitGInv
<1>2. GInv /\ [GossipNext]_log => GInv'
  BY NextGInv
<1>3. GInv => TailIsAccountable
  BY DEF GInv
<1> QED  BY <1>1, <1>2, <1>3, PTL DEF GossipSpec

-----------------------------------------------------------------------------
(* The plugins.                                                            *)


\* The export makes one call for an edge, and finds it again by its source.
LEMMA OneCallPerEdge ==
  ASSUME NEW g \in Graphs, NEW s \in DOMAIN g.edge
  PROVE  {e \in {Added(g, t) : t \in DOMAIN g.edge} : e.source = Source(s)} = {Added(g, s)}
<1>1. \A t \in DOMAIN g.edge : Source(t) = Source(s) => t = s
  BY GraphsAssumption, SentinelsAssumption DEF Source
<1>2. \A t \in DOMAIN g.edge : Added(g, t).source = Source(t)
  BY DEF Added
<1> HIDE DEF Source, Added
<1> QED  BY <1>1, <1>2

\* Where the native walk is, in LangGraph's terms.
Over(t) == IF t = Broken THEN Broken ELSE Source(Sentinel(t))

EInv ==
  /\ graph \in Graphs /\ exported = ToLanggraph(graph)
  /\ native \in graph.nodes \cup {START, END, Broken}
  /\ foreign = Over(native)

\* A graph is refused exactly if it has a fan-out.
LEMMA RefusedIfFanout ==
  ASSUME NEW g \in Graphs
  PROVE  ToLanggraph(g) = Unsupported <=> \E s \in DOMAIN g.edge : g.edge[s].kind = "fanout"
<1>1. [refused |-> FALSE, edges |-> {Added(g, s) : s \in DOMAIN g.edge}] # Unsupported
  <2>1. [refused |-> FALSE, edges |-> {Added(g, s) : s \in DOMAIN g.edge}].refused = FALSE
          /\ Unsupported.refused = TRUE
    BY DEF Unsupported
  <2> QED  BY <2>1
<1> QED  BY <1>1 DEF ToLanggraph

\* From the same place, the same answer leads to the same place.
LEMMA SameStep ==
  ASSUME NEW g \in Graphs, ToLanggraph(g) # Unsupported,
         NEW s \in g.nodes \cup {START}, NEW t \in Answers(g, s)
  PROVE  /\ NativeNext(g, t) \in g.nodes \cup {END, Broken}
         /\ ForeignNext(g, ToLanggraph(g), Over(s), t) = Over(NativeNext(g, t))
<1> DEFINE edges == {Added(g, u) : u \in DOMAIN g.edge}
           known == Sentinel(t) \in g.nodes \cup {LgEnd}
           added == {e \in edges : e.source = Over(s)}
<1>1. ToLanggraph(g).edges = edges
  <2>1. ToLanggraph(g) = [refused |-> FALSE, edges |-> edges]
    BY DEF ToLanggraph
  <2> HIDE DEF edges
  <2> QED  BY <2>1
<1>2. Over(s) = Source(s)
  BY GraphsAssumption, SentinelsAssumption DEF Over, Sentinel
<1>3. NativeNext(g, t) \in g.nodes \cup {END, Broken}
  BY DEF NativeNext
<1>4. LgEnd = Over(END)
  BY SentinelsAssumption DEF Over, Source, Sentinel
<1>5. CASE s \notin DOMAIN g.edge
  <2>1. t = END /\ NativeNext(g, t) = END
    BY <1>5 DEF Answers, NativeNext
  <2>2. added = {}
    <3>1. \A u \in DOMAIN g.edge : Added(g, u).source = Source(u)
      BY DEF Added
    <3>2. \A u \in DOMAIN g.edge : Source(u) # Source(s)
      BY <1>5, GraphsAssumption, SentinelsAssumption DEF Source
    <3> HIDE DEF Source, Added
    <3> QED  BY <1>2, <3>1, <3>2
  <2> QED  BY <1>1, <1>3, <1>4, <2>1, <2>2 DEF ForeignNext
<1>6. CASE s \in DOMAIN g.edge
  <2>1. t \in g.edge[s].targets
    BY <1>6 DEF Answers
  <2>2. (IF known THEN Sentinel(t) ELSE Broken) = Over(NativeNext(g, t))
    <3>1. LgEnd \in g.edge[s].targets => LgEnd = END
      BY <1>6, GraphsAssumption
    <3>2. g.nodes \cap {START, END, LgStart, LgEnd, Broken} = {}
      BY GraphsAssumption
    <3>3. CASE t = END
      BY <1>4, <3>3 DEF Sentinel, NativeNext
    <3>4. CASE t \in g.nodes
      BY <3>2, <3>4 DEF Sentinel, NativeNext, Over, Source
    <3>5. CASE t \notin g.nodes \cup {END}
      BY <2>1, <3>1, <3>5 DEF Sentinel, NativeNext, Over
    <3> QED  BY <3>3, <3>4, <3>5
  <2>3. added = {Added(g, s)}
    BY <1>2, <1>6, OneCallPerEdge
  <2>4. (CHOOSE e \in added : TRUE) = Added(g, s)
    <3> HIDE DEF added
    <3> QED  BY <2>3
  <2>5. \/ Added(g, s).map = NoMap
        \/ Added(g, s).map = PathMap(g, g.edge[s])
    BY DEF Added
  <2>6. /\ DOMAIN PathMap(g, g.edge[s]) = g.nodes \cup {LgEnd}
        /\ \A u \in g.nodes \cup {LgEnd} : PathMap(g, g.edge[s])[u] = u
        /\ DOMAIN NoMap = {}
    BY DEF PathMap, NoMap
  <2>7. PathMap(g, g.edge[s]) # NoMap
    BY <2>6
  <2>8. ForeignNext(g, ToLanggraph(g), Over(s), t) =
          IF Added(g, s).map = NoMap THEN (IF known THEN Sentinel(t) ELSE Broken)
          ELSE IF Sentinel(t) \in DOMAIN Added(g, s).map THEN Added(g, s).map[Sentinel(t)] ELSE Broken
    <3>1. added # {}
      <4> HIDE DEF added
      <4> QED  BY <2>3
    <3>2. ForeignNext(g, ToLanggraph(g), Over(s), t) =
            IF added = {} THEN LgEnd
            ELSE LET e == CHOOSE e \in added : TRUE
                 IN  IF e.map = NoMap THEN (IF known THEN Sentinel(t) ELSE Broken)
                     ELSE IF Sentinel(t) \in DOMAIN e.map THEN e.map[Sentinel(t)] ELSE Broken
      BY <1>1 DEF ForeignNext
    <3> HIDE DEF added
    <3> QED  BY <2>4, <3>1, <3>2
  <2>9. ForeignNext(g, ToLanggraph(g), Over(s), t) = IF known THEN Sentinel(t) ELSE Broken
    <3> HIDE DEF NoMap, PathMap, Added
    <3> QED  BY <2>5, <2>6, <2>7, <2>8
  <2> QED  BY <1>3, <2>2, <2>9
<1> QED  BY <1>5, <1>6

\* The exported graph takes the native path, for every graph that LangGraph
\* compiles and every answer of its routers.
THEOREM ExportKeepsThePath ==
  ExportSpec => []SamePath
<1>1. ExportInit => EInv
  <2> SUFFICES ASSUME ExportInit PROVE EInv
    OBVIOUS
  <2>1. PICK g \in Graphs : Exports(g)
    BY DEF ExportInit
  <2>2. LgStart = Over(START)
    BY SentinelsAssumption DEF Over, Source, Sentinel
  <2> QED  BY <2>1, <2>2 DEF Exports, EInv
<1>2. EInv /\ [ExportNext]_walks => EInv'
  <2> SUFFICES ASSUME EInv, [ExportNext]_walks PROVE EInv'
    OBVIOUS
  <2>1. CASE ExportNext
    <3>1. PICK t \in Answers(graph, native) :
            native' = NativeNext(graph, t) /\ foreign' = ForeignNext(graph, exported, foreign, t)
      BY <2>1 DEF ExportNext
    <3>2. /\ graph' = graph /\ exported' = exported /\ exported # Unsupported
          /\ native \in graph.nodes \cup {START}
      BY <2>1 DEF ExportNext, EInv
    <3>3. /\ NativeNext(graph, t) \in graph.nodes \cup {END, Broken}
          /\ ForeignNext(graph, ToLanggraph(graph), Over(native), t) = Over(NativeNext(graph, t))
      BY <3>2, SameStep DEF EInv
    <3>4. Over(native)' = Over(native')
      BY DEF Over
    <3>5. ToLanggraph(graph)' = ToLanggraph(graph)
      BY <3>2 DEF ToLanggraph, Added, Source, PathMap, Sentinel, NoMap, Unsupported
    <3> QED  BY <3>1, <3>2, <3>3, <3>4, <3>5 DEF EInv
  <2>2. CASE UNCHANGED walks
    BY <2>2 DEF walks, EInv, Over, ToLanggraph, Added, Source, PathMap, Sentinel, NoMap, Unsupported
  <2> QED  BY <2>1, <2>2
<1>3. EInv => SamePath
  <2> SUFFICES ASSUME EInv PROVE SamePath
    OBVIOUS
  <2>1. exported = Unsupported <=> \E s \in DOMAIN graph.edge : graph.edge[s].kind = "fanout"
    BY RefusedIfFanout DEF EInv
  <2> QED  BY <2>1 DEF EInv, Over, SamePath
<1> QED  BY <1>1, <1>2, <1>3, PTL DEF ExportSpec

-----------------------------------------------------------------------------
\* What the post model is given satisfies it if and where the state that is
\* published does.
LEMMA PostInputIsMerged ==
  ASSUME NEW s, NEW n
  PROVE  /\ Good(Merge(s, n).pad, n.post) => Good(PostInput(s, n), n.post)
         /\ (n.pad = NoPad \/ DOMAIN s.pad \subseteq DOMAIN n.pad) /\ Good(PostInput(s, n), n.post)
              => Good(Merge(s, n).pad, n.post)
<1>1. Merge(s, n).pad = IF n.pad = NoPad THEN s.pad ELSE n.pad
  BY DEF Merge
<1>2. CASE n.pad = NoPad
  BY <1>1, <1>2 DEF PostInput
<1>3. CASE n.pad # NoPad
  <2>1. PostInput(s, n) = Updated(s.pad, n.pad)
    BY <1>3 DEF PostInput
  <2>2. /\ DOMAIN Updated(s.pad, n.pad) = DOMAIN s.pad \cup DOMAIN n.pad
        /\ \A k \in DOMAIN n.pad : Updated(s.pad, n.pad)[k] = n.pad[k]
    BY DEF Updated
  <2> HIDE DEF NoPad
  <2> QED  BY <1>1, <1>3, <2>1, <2>2 DEF Good
<1> QED  BY <1>2, <1>3

\* The post model stops exactly what is not valid, where the scratchpad is
\* carried on, whatever the nodes are and wherever they stand.
THEOREM PostModelStopsTheInvalid ==
  ValidatedSpec => PostModelDecides
<1> DEFINE VInv == at \in Nat
           Carried == LET n == Node
                          carries == n.pad = NoPad \/ DOMAIN state.pad \subseteq DOMAIN n.pad
                      IN  at' = at + 1 /\ n.wraps > 0 /\ carries => Good(state'.pad, n.post)
           Refuses == outcome' = "post" => ~Good(Merge(state, Node).pad, Node.post)
<1>1. ValidatedInit => VInv
  BY DEF ValidatedInit, Walks
<1>2. VInv /\ [ValidatedNext]_wrapped => VInv'
  BY DEF ValidatedNext, Run, Complete, wrapped
<1>3. VInv /\ [ValidatedNext]_wrapped => [Carried]_wrapped
  <2> SUFFICES ASSUME VInv, ValidatedNext, at' = at + 1, Node.wraps > 0,
                      Node.pad = NoPad \/ DOMAIN state.pad \subseteq DOMAIN Node.pad
               PROVE  Good(state'.pad, Node.post)
    OBVIOUS
  <2>1. at' # at
    OBVIOUS
  <2>2. Run /\ Result(state, Node) = "delta" /\ state' = Merge(state, Node)
    BY <2>1 DEF ValidatedNext, Run, Complete
  <2>3. Node.wraps # 0
    OBVIOUS
  <2>4. Good(PostInput(state, Node), Node.post)
    BY <2>2, <2>3 DEF Result
  <2> QED  BY <2>2, <2>4, PostInputIsMerged
<1>4. [ValidatedNext]_wrapped => [Refuses]_wrapped
  <2> SUFFICES ASSUME ValidatedNext, outcome' = "post"
               PROVE  ~Good(Merge(state, Node).pad, Node.post)
    OBVIOUS
  <2>1. Result(state, Node) = "post"
    BY DEF ValidatedNext, Run, Complete
  <2>2. ~Good(PostInput(state, Node), Node.post)
    BY <2>1 DEF Result
  <2> QED  BY <2>2, PostInputIsMerged
<1> QED  BY <1>1, <1>2, <1>3, <1>4, PTL DEF ValidatedSpec, PostModelDecides, CarriedIsValid, RefusedIsInvalid

-----------------------------------------------------------------------------
\* A list of which another repeats every entry is a prefix of it.
LEMMA PrefixByEntries ==
  ASSUME NEW s \in Seq(Nat), NEW t \in Seq(Nat), NEW n \in 0 .. Len(s), n <= Len(t),
         \A k \in 1 .. n : s[k] = t[k]
  PROVE  IsPrefix(SubSeq(s, 1, n), t)
<1>1. n \in Nat /\ Len(s) \in Nat /\ Len(t) \in Nat /\ n <= Len(s)
  OBVIOUS
<1>2. ASSUME NEW r \in Seq(Nat), n <= Len(r)
      PROVE  /\ SubSeq(r, 1, n) \in Seq(Nat) /\ Len(SubSeq(r, 1, n)) = n
             /\ \A k \in 1 .. n : SubSeq(r, 1, n)[k] = r[k]
  <2>1. ASSUME NEW k \in 1 .. n PROVE r[k] \in Nat
    <3>1. k \in 1 .. Len(r)
      BY <1>1, <1>2
    <3> QED  BY <3>1, ElementOfSeq
  <2>2. SubSeq(r, 1, n) = [k \in 1 .. n |-> r[k]]
    BY <1>1, <1>2
  <2> QED  BY <1>1, <2>1, <2>2
<1> DEFINE u == SubSeq(s, 1, n)
<1>3. u \in Seq(Nat) /\ Len(u) = n /\ \A k \in 1 .. n : u[k] = s[k]
  BY <1>1, <1>2
<1> HIDE DEF u
<1>4. SubSeq(u, 1, n) \in Seq(Nat) /\ Len(SubSeq(u, 1, n)) = n
        /\ \A k \in 1 .. n : SubSeq(u, 1, n)[k] = u[k]
  BY <1>1, <1>2, <1>3
<1>5. SubSeq(t, 1, n) \in Seq(Nat) /\ Len(SubSeq(t, 1, n)) = n
        /\ \A k \in 1 .. n : SubSeq(t, 1, n)[k] = t[k]
  BY <1>1, <1>2
<1>6. SubSeq(u, 1, n) = SubSeq(t, 1, n)
  <2>1. \A k \in 1 .. n : SubSeq(u, 1, n)[k] = SubSeq(t, 1, n)[k]
    BY <1>3, <1>4, <1>5
  <2> DEFINE a == SubSeq(u, 1, n)
             b == SubSeq(t, 1, n)
  <2>2. a \in Seq(Nat) /\ b \in Seq(Nat) /\ Len(a) = Len(b) /\ \A k \in 1 .. Len(a) : a[k] = b[k]
    BY <1>4, <1>5, <2>1
  <2> HIDE DEF a, b
  <2>3. a = b
    BY <2>2, SeqEqual
  <2> QED  BY <2>3 DEF a, b
<1> QED  BY <1>1, <1>3, <1>6 DEF IsPrefix, u

\* What one chat was given: the caller's list so far, and the hint if it is a
\* retry.
Asked(i) ==
  LET said == IF i = 1 THEN Len(sent[i]) ELSE Len(sent[i]) - 1
  IN  /\ said \in 0 .. Len(sent[i]) /\ said <= Len(messages)
      /\ \A k \in 1 .. said : sent[i][k] = messages[k]
      /\ i > 1 => sent[i][Len(sent[i])] = SchemaHint

ReplyKinds == {"valid", "invalid", "error"}

STypes ==
  /\ retries \in Int /\ attempt \in Nat
  /\ messages \in Seq(Nat \ {0}) /\ sent \in Seq(Seq(Nat))
  /\ replies \in Seq(ReplyKinds)

Allowed == IF retries < 0 THEN 0 ELSE retries + 1

\* Chats, replies and attempts are counted alike.
Counted ==
  /\ phase \in {"ready", "waiting", "returned", "chat failed", "gave up"}
  /\ phase \in {"ready", "gave up"} =>
       /\ Len(replies) = attempt /\ Len(sent) = attempt /\ attempt <= Allowed
       /\ \A i \in 1 .. attempt : replies[i] = "invalid"
  /\ phase = "gave up" => attempt = Allowed
  /\ phase = "waiting" =>
       /\ Len(replies) = attempt /\ Len(sent) = attempt + 1 /\ attempt + 1 <= Allowed
       /\ \A i \in 1 .. attempt : replies[i] = "invalid"
  /\ phase \in {"returned", "chat failed"} =>
       /\ Len(replies) = attempt + 1 /\ Len(sent) = attempt + 1 /\ attempt + 1 <= Allowed
       /\ \A i \in 1 .. attempt : replies[i] = "invalid"

AInv == STypes /\ Counted /\ \A i \in DOMAIN sent : Asked(i)

\* Counted replies are used up, and lists of that kind hold no other hint.
LEMMA CountedIsFair ==
  AInv => RetriesAreFair
<1> SUFFICES ASSUME AInv PROVE RetriesAreFair
  OBVIOUS
<1> USE DEF AInv
<1>1. /\ messages \in Seq(Nat) /\ sent \in Seq(Seq(Nat)) /\ retries \in Int /\ attempt \in Nat
      /\ replies \in Seq(ReplyKinds) /\ messages \in Seq(Nat \ {0})
  <2>1. messages \in Seq(Nat \ {0})
    BY DEF STypes
  <2>2. messages \in Seq(Nat)
    BY <2>1
  <2> QED  BY <2>1, <2>2 DEF STypes
<1>2. SchemaHint \notin ToSet(messages)
  BY <1>1 DEF ToSet, SchemaHint
<1>3. ASSUME NEW i \in DOMAIN sent
      PROVE  LET said == IF i = 1 THEN sent[i] ELSE Front(sent[i])
             IN  /\ IsPrefix(said, messages)
                 /\ i > 1 => Last(sent[i]) = SchemaHint
  <2>1. sent[i] \in Seq(Nat) /\ Len(sent[i]) \in Nat
    BY <1>1
  <2>2. CASE i = 1
    <3>1. IsPrefix(SubSeq(sent[i], 1, Len(sent[i])), messages)
      <4>1. Len(sent[i]) \in 0 .. Len(sent[i]) /\ Len(sent[i]) <= Len(messages)
              /\ \A k \in 1 .. Len(sent[i]) : sent[i][k] = messages[k]
        BY <2>1, <2>2 DEF Asked
      <4> QED  BY <1>1, <2>1, <4>1, PrefixByEntries
    <3>2. SubSeq(sent[i], 1, Len(sent[i])) = sent[i]
      BY <2>1, SubSeqFull
    <3>3. IsPrefix(sent[i], messages)
      BY <3>1, <3>2
    <3> QED  BY <2>2, <3>3
  <2>3. CASE i # 1
    <3>1. IsPrefix(SubSeq(sent[i], 1, Len(sent[i]) - 1), messages)
      <4>1. Len(sent[i]) - 1 \in 0 .. Len(sent[i]) /\ Len(sent[i]) - 1 <= Len(messages)
              /\ \A k \in 1 .. Len(sent[i]) - 1 : sent[i][k] = messages[k]
        BY <2>1, <2>3 DEF Asked
      <4> QED  BY <1>1, <2>1, <4>1, PrefixByEntries
    <3>2. i > 1 => Last(sent[i]) = SchemaHint
      BY DEF Asked, Last
    <3> QED  BY <2>3, <3>1, <3>2 DEF Front
  <2> QED  BY <2>2, <2>3
<1>4. HintsLeaveNoTrace
  BY <1>2, <1>3 DEF HintsLeaveNoTrace
<1>5. Len(sent) <= Allowed
  BY <1>1 DEF Counted
<1>6. phase = "gave up" => (\A i \in DOMAIN replies : replies[i] = "invalid") /\ Len(replies) = Allowed
  <2>1. DOMAIN replies = 1 .. Len(replies)
    BY <1>1
  <2>2. phase = "gave up" => Len(replies) = attempt /\ attempt = Allowed
                             /\ \A i \in 1 .. attempt : replies[i] = "invalid"
    BY DEF Counted
  <2> QED  BY <2>1, <2>2
<1>7. ASSUME phase \in {"returned", "chat failed"}
      PROVE  \A i \in DOMAIN Front(replies) : replies[i] = "invalid"
  <2>1. Len(replies) = attempt + 1 /\ \A i \in 1 .. attempt : replies[i] = "invalid"
    BY <1>7 DEF Counted
  <2>2. DOMAIN Front(replies) = 1 .. attempt
    <3>1. attempt <= Len(replies) /\ Len(replies) - 1 = attempt
      BY <1>1, <2>1
    <3>2. SubSeq(replies, 1, attempt) = [k \in 1 .. attempt |-> replies[k]]
      BY <1>1, <3>1
    <3> QED  BY <3>1, <3>2 DEF Front
  <2> QED  BY <2>1, <2>2
<1>8. AttemptsAreUsedUp
  BY <1>5, <1>6, <1>7 DEF AttemptsAreUsedUp, Allowed
<1> QED  BY <1>4, <1>8 DEF RetriesAreFair

\* Nothing was asked at first.
LEMMA InitAInv ==
  StructuredInit => AInv
<1> SUFFICES ASSUME StructuredInit PROVE AInv
  OBVIOUS
<1>1. PICK n \in MaxRetries : Begins(n)
  BY DEF StructuredInit
<1>2. n \in Int
  BY RetriesAssumption
<1>3. STypes
  BY <1>1, <1>2 DEF Begins, STypes
<1>4. Counted
  BY <1>1, <1>2 DEF Begins, Counted, Allowed
<1>5. \A i \in DOMAIN sent : Asked(i)
  BY <1>1 DEF Begins
<1> QED  BY <1>3, <1>4, <1>5 DEF AInv

\* Every step of the loop and of its caller keeps it.
LEMMA NextAInv ==
  AInv /\ [StructuredNext]_dialogue => AInv'
<1> SUFFICES ASSUME AInv, [StructuredNext]_dialogue PROVE AInv'
  OBVIOUS
<1>1. /\ messages \in Seq(Nat \ {0}) /\ sent \in Seq(Seq(Nat)) /\ retries \in Int /\ attempt \in Nat
      /\ replies \in Seq(ReplyKinds)
  BY DEF AInv, STypes
<1>2. Allowed \in Nat
  BY <1>1 DEF Allowed
<1>3. CASE Chat
  <2> DEFINE msgs == IF attempt > 0 THEN Append(messages, SchemaHint) ELSE messages
             n == Len(sent)
  <2>1. /\ phase = "ready" /\ attempt < retries + 1 /\ sent' = Append(sent, msgs) /\ messages' = messages
        /\ phase' = "waiting" /\ retries' = retries /\ attempt' = attempt /\ replies' = replies
    BY <1>3 DEF Chat, MoreAttempts, Copied
  <2>2. /\ msgs \in Seq(Nat) /\ Len(messages) \in Nat
        /\ Len(msgs) = IF attempt > 0 THEN Len(messages) + 1 ELSE Len(messages)
        /\ \A k \in 1 .. Len(messages) : msgs[k] = messages[k]
        /\ attempt > 0 => msgs[Len(messages) + 1] = SchemaHint
    <3>1. messages \in Seq(Nat) /\ SchemaHint \in Nat
      BY <1>1 DEF SchemaHint
    <3> HIDE DEF SchemaHint
    <3> QED  BY <1>1, <3>1
  <2> HIDE DEF msgs
  <2>3. /\ sent' \in Seq(Seq(Nat)) /\ n \in Nat /\ Len(sent') = n + 1 /\ sent'[n + 1] = msgs
        /\ DOMAIN sent = 1 .. n /\ DOMAIN sent' = 1 .. n + 1 /\ \A i \in 1 .. n : sent'[i] = sent[i]
    BY <1>1, <2>1, <2>2
  <2>4. n = attempt /\ Len(replies) = attempt /\ \A i \in 1 .. attempt : replies[i] = "invalid"
    BY <2>1 DEF AInv, Counted
  <2> HIDE DEF n
  <2>5. STypes'
    BY <1>1, <2>1, <2>3 DEF STypes
  <2>6. Counted'
    <3>1. Allowed' = Allowed /\ attempt + 1 <= Allowed
      BY <1>1, <2>1 DEF Allowed
    <3> QED  BY <2>1, <2>3, <2>4, <3>1 DEF Counted
  <2>7. ASSUME NEW i \in 1 .. n PROVE Asked(i)'
    <3>1. sent'[i] = sent[i] /\ Asked(i)
      BY <2>3, <2>7 DEF AInv
    <3> QED  BY <2>1, <3>1 DEF Asked
  <2>8. ASSUME NEW i \in DOMAIN sent', i = n + 1 PROVE Asked(i)'
    <3>1. CASE n = 0
      <4>1. n + 1 = 1 /\ ~(n + 1 > 1) /\ Len(msgs) = Len(messages)
        BY <2>2, <2>4, <3>1
      <4> QED  BY <2>1, <2>2, <2>3, <2>8, <4>1 DEF Asked
    <3>2. CASE n # 0
      <4>1. n + 1 # 1 /\ attempt > 0 /\ Len(msgs) = Len(messages) + 1 /\ Len(msgs) - 1 = Len(messages)
              /\ Len(messages) \in 0 .. Len(msgs)
        BY <1>1, <2>2, <2>3, <2>4, <3>2
      <4> QED  BY <2>1, <2>2, <2>3, <2>8, <4>1 DEF Asked
    <3> QED  BY <3>1, <3>2
  <2>9. \A i \in DOMAIN sent' : i \in 1 .. n \/ i = n + 1
    BY <2>3
  <2> QED  BY <2>5, <2>6, <2>7, <2>8, <2>9 DEF AInv
<1>4. CASE CallerAppends
  <2> DEFINE m == Len(messages)
  <2>1. /\ phase = "waiting" /\ messages' = Append(messages, m + 1) /\ phase' = phase
        /\ retries' = retries /\ attempt' = attempt /\ sent' = sent /\ replies' = replies
    BY <1>4 DEF CallerAppends
  <2>2. /\ m \in Nat /\ m + 1 \in Nat \ {0} /\ messages' \in Seq(Nat \ {0}) /\ Len(messages') = m + 1
        /\ \A k \in 1 .. m : messages'[k] = messages[k]
    BY <1>1, <2>1
  <2> HIDE DEF m
  <2>3. STypes'
    BY <1>1, <2>1, <2>2 DEF STypes
  <2>4. Counted'
    BY <2>1 DEF AInv, Counted, Allowed
  <2>5. ASSUME NEW i \in DOMAIN sent PROVE Asked(i)'
    <3> DEFINE said == IF i = 1 THEN Len(sent[i]) ELSE Len(sent[i]) - 1
    <3>1. /\ said \in 0 .. Len(sent[i]) /\ said <= m /\ \A k \in 1 .. said : sent[i][k] = messages[k]
          /\ i > 1 => sent[i][Len(sent[i])] = SchemaHint
      BY DEF AInv, Asked, m
    <3>2. Len(sent[i]) \in Nat
      BY <1>1
    <3> HIDE DEF said
    <3>3. said \in Nat /\ said <= m + 1 /\ \A k \in 1 .. said : k \in 1 .. m
      BY <2>2, <3>1, <3>2
    <3>4. \A k \in 1 .. said : sent[i][k] = messages'[k]
      BY <2>2, <3>1, <3>3
    <3> QED  BY <2>1, <2>2, <3>1, <3>3, <3>4 DEF Asked, said
  <2> QED  BY <2>1, <2>3, <2>4, <2>5 DEF AInv
<1>5. ASSUME NEW kind \in ReplyKinds, Reply(kind) PROVE AInv'
  <2> DEFINE n == Len(replies)
  <2>1. /\ phase = "waiting" /\ replies' = Append(replies, kind)
        /\ retries' = retries /\ messages' = messages /\ sent' = sent
        /\ \/ kind = "valid" /\ phase' = "returned" /\ attempt' = attempt
           \/ kind = "invalid" /\ phase' = "ready" /\ attempt' = attempt + 1
           \/ kind = "error" /\ phase' = "chat failed" /\ attempt' = attempt
    BY <1>5 DEF Reply, ReplyKinds
  <2>2. /\ replies' \in Seq(ReplyKinds) /\ n \in Nat /\ Len(replies') = n + 1
        /\ replies'[n + 1] = kind /\ \A i \in 1 .. n : replies'[i] = replies[i]
    <3>1. replies \in Seq(ReplyKinds) /\ replies' = Append(replies, kind)
      BY <1>1, <2>1
    <3> QED  BY <3>1, AppendProperties
  <2>3. /\ n = attempt /\ Len(sent) = attempt + 1 /\ attempt + 1 <= Allowed
        /\ \A i \in 1 .. attempt : replies[i] = "invalid"
    BY <2>1 DEF AInv, Counted
  <2> HIDE DEF n
  <2>4. STypes'
    <3>1. attempt' \in Nat
      <4>1. attempt' = attempt \/ attempt' = attempt + 1
        BY <2>1
      <4>2. attempt \in Nat
        BY <1>1
      <4> QED  BY <4>1, <4>2
    <3>2. retries' = retries /\ messages' = messages /\ sent' = sent /\ replies' \in Seq(ReplyKinds)
      BY <2>1, <2>2
    <3>3. ReplyKinds' = ReplyKinds
      BY DEF ReplyKinds
    <3> QED  BY <1>1, <3>1, <3>2, <3>3 DEF STypes
  <2>5. \A i \in 1 .. attempt + 1 : i \in 1 .. attempt \/ i = attempt + 1
    BY <1>1
  <2>6. Counted'
    <3>1. Allowed' = Allowed
      BY <2>1 DEF Allowed
    <3>2. CASE kind = "invalid" /\ phase' = "ready" /\ attempt' = attempt + 1
      BY <2>1, <2>2, <2>3, <2>5, <3>1, <3>2 DEF Counted
    <3>3. CASE phase' \in {"returned", "chat failed"} /\ attempt' = attempt
      BY <2>1, <2>2, <2>3, <3>1, <3>3 DEF Counted
    <3> QED  BY <2>1, <3>2, <3>3
  <2>7. ASSUME NEW i \in DOMAIN sent PROVE Asked(i)'
    BY <2>1 DEF AInv, Asked
  <2> QED  BY <2>1, <2>4, <2>6, <2>7 DEF AInv
<1>6. CASE GiveUp
  <2>1. /\ phase = "ready" /\ ~(attempt < retries + 1) /\ phase' = "gave up"
        /\ UNCHANGED <<retries, messages, attempt, sent, replies>>
    BY <1>6 DEF GiveUp, MoreAttempts
  <2>2. attempt = Allowed
    <3>1. attempt <= Allowed
      BY <2>1 DEF AInv, Counted
    <3>2. retries < 0 => Allowed = 0
      BY DEF Allowed
    <3>3. ~(retries < 0) => Allowed = retries + 1
      BY DEF Allowed
    <3>4. retries \in Int /\ attempt \in Nat /\ ~(attempt < retries + 1)
      BY <1>1, <2>1
    <3> HIDE DEF Allowed
    <3> QED  BY <3>1, <3>2, <3>3, <3>4
  <2>3. Counted'
    BY <2>1, <2>2 DEF AInv, Counted, Allowed
  <2> QED  BY <2>1, <2>3 DEF AInv, STypes, Asked
<1>7. CASE UNCHANGED dialogue
  BY <1>7 DEF dialogue, AInv, STypes, Counted, Allowed, Asked
<1> QED  BY <1>3, <1>4, <1>5, <1>6, <1>7 DEF StructuredNext, ReplyKinds

\* Every attempt is the same question with at most one hint, and there are as
\* many as allowed, for every number of retries and whatever the caller adds.
THEOREM ChatsAreFair ==
  StructuredSpec => []RetriesAreFair
<1>1. StructuredInit => AInv
  BY InitAInv
<1>2. AInv /\ [StructuredNext]_dialogue => AInv'
  BY NextAInv
<1>3. AInv => RetriesAreFair
  BY CountedIsFair
<1> QED  BY <1>1, <1>2, <1>3, PTL DEF StructuredSpec

-----------------------------------------------------------------------------
(* The reducers.  What each fold is, prefix by prefix.                     *)

ListValues == {ListOf(x) : x \in Lists}
DictValues == {DictOf(x) : x \in Dicts}
ItemLists == Seq(Items)
ConcatFold(b, vs) == FoldLeft(LAMBDA acc, v : acc \o v.items, b, vs)
UnionFold(b, vs) == FoldLeft(LAMBDA acc, v : AddNew(acc, v.items), b, vs)

LEMMA ListsOfItems == \A v \in ListValues : v.items \in ItemLists
  BY ValuesAssumption DEF ListValues, ListOf, ItemLists

\* The function that the fold of Concat runs on.
ConcatRun(f, b, vs, D) ==
  [S \in SUBSET D |-> IF S = {} THEN b ELSE f[S \ {Max(S)}] \o vs[Max(S)].items]

\* One more list.
ConcatStep == [p \in ItemLists \X ListValues |-> p[1] \o p[2].items]

LEMMA ConcatStepType == ConcatStep \in [ItemLists \X ListValues -> ItemLists]
<1>1. ASSUME NEW p \in ItemLists \X ListValues PROVE p[1] \o p[2].items \in ItemLists
  <2>1. p[1] \in ItemLists /\ p[2].items \in ItemLists
    BY ListsOfItems
  <2> QED  BY <2>1, ConcatProperties DEF ItemLists
<1> QED  BY <1>1 DEF ConcatStep

\* concat appends one list after the other (reducers.py:122-124).
LEMMA ConcatFolds ==
  ASSUME NEW b \in ItemLists, NEW n \in Nat, NEW vs \in [1 .. n -> ListValues]
  PROVE  \E g \in [0 .. n -> ItemLists] :
           /\ g[0] = b /\ \A m \in 0 .. n - 1 : g[m + 1] = g[m] \o vs[m + 1].items
           /\ ConcatFold(b, vs) = g[n]
<1> DEFINE A == ItemLists
           fold == ConcatFold(b, vs)
<1>1. ConcatStep \in [A \X ListValues -> A] /\ b \in A
  BY ConcatStepType
<1>2. ASSUME NEW a \in A, NEW v \in ListValues PROVE ConcatStep[<<a, v>>] = a \o v.items
  <2>1. <<a, v>> \in A \X ListValues
    OBVIOUS
  <2>2. ConcatStep = [p \in A \X ListValues |-> p[1] \o p[2].items]
    BY DEF ConcatStep
  <2> HIDE DEF A
  <2> QED  BY <2>1, <2>2
<1>3. fold = (CHOOSE f : f = ConcatRun(f, b, vs, 1 .. n))[1 .. n]
  BY DEF FoldLeft, MapThenFoldSet, ConcatRun, ConcatFold
<1> HIDE DEF A, fold
<1>4. PICK h, g : FoldedBy(h, g, A, ConcatStep, b, vs, n)
  BY <1>1, FoldsExist
<1>5. ASSUME NEW S \in SUBSET (1 .. n), S # {} PROVE h[S] = h[S \ {Max(S)}] \o vs[Max(S)].items
  <2>1. h[S \ {Max(S)}] \in A /\ vs[Max(S)] \in ListValues
    BY <1>4, <1>5, TopOfPart DEF FoldedBy
  <2> QED  BY <1>2, <1>4, <1>5, <2>1 DEF FoldedBy, FoldRun
<1>6. h[{}] = b /\ {} \in SUBSET (1 .. n)
  BY <1>4 DEF FoldedBy, FoldRun
<1>7. h = ConcatRun(h, b, vs, 1 .. n)
  <2>1. h = [S \in SUBSET (1 .. n) |-> h[S]]
    BY <1>4 DEF FoldedBy
  <2> QED  BY <1>5, <1>6, <2>1 DEF ConcatRun
<1>8. PICK f : f = ConcatRun(f, b, vs, 1 .. n) /\ fold = f[1 .. n]
  BY <1>3, <1>7
<1>9. fold = g[n]
  <2>1. f[{}] = h[{}]
    BY <1>6, <1>8 DEF ConcatRun
  <2>2. ASSUME NEW S \in SUBSET (1 .. n), S # {}, f[S \ {Max(S)}] = h[S \ {Max(S)}] PROVE f[S] = h[S]
    BY <1>5, <1>8, <2>2 DEF ConcatRun
  <2>3. f[1 .. n] = h[1 .. n]
    BY <2>1, <2>2, RunsAgree
  <2> QED  BY <1>4, <1>8, <2>3 DEF FoldedBy
<1>10. ASSUME NEW m \in 0 .. n - 1 PROVE g[m + 1] = g[m] \o vs[m + 1].items
  <2>1. m \in 0 .. n /\ m + 1 \in 1 .. n
    OBVIOUS
  <2>2. g[m] \in A /\ vs[m + 1] \in ListValues
    BY <1>4, <2>1 DEF FoldedBy
  <2> QED  BY <1>2, <1>4, <2>2 DEF FoldedBy, Stepwise
<1> QED  BY <1>4, <1>9, <1>10 DEF A, fold, FoldedBy, Stepwise

\* The function that the fold of AddNew runs on.
NewRun(f, b, vs, D) ==
  [S \in SUBSET D |-> IF S = {} THEN b ELSE IF Contains(f[S \ {Max(S)}], vs[Max(S)]) THEN f[S \ {Max(S)}] ELSE Append(f[S \ {Max(S)}], vs[Max(S)])]

\* One more item.
NewStep == [p \in ItemLists \X Items |-> IF Contains(p[1], p[2]) THEN p[1] ELSE Append(p[1], p[2])]

LEMMA NewStepType == NewStep \in [ItemLists \X Items -> ItemLists]
<1>1. ASSUME NEW p \in ItemLists \X Items
      PROVE  (IF Contains(p[1], p[2]) THEN p[1] ELSE Append(p[1], p[2])) \in ItemLists
  <2>1. p[1] \in ItemLists /\ p[2] \in Items
    OBVIOUS
  <2> QED  BY <2>1, AppendProperties DEF ItemLists
<1> QED  BY <1>1 DEF NewStep

\* union adds one item after the other (reducers.py:134-136).
LEMMA NewFolds ==
  ASSUME NEW b \in ItemLists, NEW n \in Nat, NEW vs \in [1 .. n -> Items]
  PROVE  \E g \in [0 .. n -> ItemLists] :
           /\ g[0] = b /\ \A m \in 0 .. n - 1 : g[m + 1] = IF Contains(g[m], vs[m + 1]) THEN g[m] ELSE Append(g[m], vs[m + 1])
           /\ AddNew(b, vs) = g[n]
<1> DEFINE A == ItemLists
           fold == AddNew(b, vs)
<1>1. NewStep \in [A \X Items -> A] /\ b \in A
  BY NewStepType
<1>2. ASSUME NEW a \in A, NEW v \in Items PROVE NewStep[<<a, v>>] = IF Contains(a, v) THEN a ELSE Append(a, v)
  <2>1. <<a, v>> \in A \X Items
    OBVIOUS
  <2>2. NewStep = [p \in A \X Items |-> IF Contains(p[1], p[2]) THEN p[1] ELSE Append(p[1], p[2])]
    BY DEF NewStep
  <2> HIDE DEF A
  <2> QED  BY <2>1, <2>2
<1>3. fold = (CHOOSE f : f = NewRun(f, b, vs, 1 .. n))[1 .. n]
  BY DEF FoldLeft, MapThenFoldSet, NewRun, AddNew
<1> HIDE DEF A, fold
<1>4. PICK h, g : FoldedBy(h, g, A, NewStep, b, vs, n)
  BY <1>1, FoldsExist
<1>5. ASSUME NEW S \in SUBSET (1 .. n), S # {} PROVE h[S] = IF Contains(h[S \ {Max(S)}], vs[Max(S)]) THEN h[S \ {Max(S)}] ELSE Append(h[S \ {Max(S)}], vs[Max(S)])
  <2>1. h[S \ {Max(S)}] \in A /\ vs[Max(S)] \in Items
    BY <1>4, <1>5, TopOfPart DEF FoldedBy
  <2> QED  BY <1>2, <1>4, <1>5, <2>1 DEF FoldedBy, FoldRun
<1>6. h[{}] = b /\ {} \in SUBSET (1 .. n)
  BY <1>4 DEF FoldedBy, FoldRun
<1>7. h = NewRun(h, b, vs, 1 .. n)
  <2>1. h = [S \in SUBSET (1 .. n) |-> h[S]]
    BY <1>4 DEF FoldedBy
  <2> QED  BY <1>5, <1>6, <2>1 DEF NewRun
<1>8. PICK f : f = NewRun(f, b, vs, 1 .. n) /\ fold = f[1 .. n]
  BY <1>3, <1>7
<1>9. fold = g[n]
  <2>1. f[{}] = h[{}]
    BY <1>6, <1>8 DEF NewRun
  <2>2. ASSUME NEW S \in SUBSET (1 .. n), S # {}, f[S \ {Max(S)}] = h[S \ {Max(S)}] PROVE f[S] = h[S]
    BY <1>5, <1>8, <2>2 DEF NewRun
  <2>3. f[1 .. n] = h[1 .. n]
    BY <2>1, <2>2, RunsAgree
  <2> QED  BY <1>4, <1>8, <2>3 DEF FoldedBy
<1>10. ASSUME NEW m \in 0 .. n - 1 PROVE g[m + 1] = IF Contains(g[m], vs[m + 1]) THEN g[m] ELSE Append(g[m], vs[m + 1])
  <2>1. m \in 0 .. n /\ m + 1 \in 1 .. n
    OBVIOUS
  <2>2. g[m] \in A /\ vs[m + 1] \in Items
    BY <1>4, <2>1 DEF FoldedBy
  <2> QED  BY <1>2, <1>4, <2>2 DEF FoldedBy, Stepwise
<1> QED  BY <1>4, <1>9, <1>10 DEF A, fold, FoldedBy, Stepwise

\* union adds the items of a list to a list.
LEMMA AddNewType ==
  ASSUME NEW items \in ItemLists, NEW new \in ItemLists
  PROVE  AddNew(items, new) \in ItemLists
<1>1. Len(new) \in Nat /\ new \in [1 .. Len(new) -> Items]
  BY LenProperties DEF ItemLists
<1>2. PICK g \in [0 .. Len(new) -> ItemLists] : AddNew(items, new) = g[Len(new)]
  BY <1>1, NewFolds
<1>3. Len(new) \in 0 .. Len(new)
  BY <1>1
<1> QED  BY <1>2, <1>3

\* The function that the fold of UnionList runs on.
UnionRun(f, b, vs, D) ==
  [S \in SUBSET D |-> IF S = {} THEN b ELSE AddNew(f[S \ {Max(S)}], vs[Max(S)].items)]

\* One more list.
UnionStep == [p \in ItemLists \X ListValues |-> AddNew(p[1], p[2].items)]

LEMMA UnionStepType == UnionStep \in [ItemLists \X ListValues -> ItemLists]
<1>1. ASSUME NEW p \in ItemLists \X ListValues PROVE AddNew(p[1], p[2].items) \in ItemLists
  <2>1. p[1] \in ItemLists /\ p[2].items \in ItemLists
    BY ListsOfItems
  <2> QED  BY <2>1, AddNewType
<1> QED  BY <1>1 DEF UnionStep

\* union takes one list after the other (reducers.py:131-137).
LEMMA UnionFolds ==
  ASSUME NEW b \in ItemLists, NEW n \in Nat, NEW vs \in [1 .. n -> ListValues]
  PROVE  \E g \in [0 .. n -> ItemLists] :
           /\ g[0] = b /\ \A m \in 0 .. n - 1 : g[m + 1] = AddNew(g[m], vs[m + 1].items)
           /\ UnionFold(b, vs) = g[n]
<1> DEFINE A == ItemLists
           fold == UnionFold(b, vs)
<1>1. UnionStep \in [A \X ListValues -> A] /\ b \in A
  BY UnionStepType
<1>2. ASSUME NEW a \in A, NEW v \in ListValues PROVE UnionStep[<<a, v>>] = AddNew(a, v.items)
  <2>1. <<a, v>> \in A \X ListValues
    OBVIOUS
  <2>2. UnionStep = [p \in A \X ListValues |-> AddNew(p[1], p[2].items)]
    BY DEF UnionStep
  <2> HIDE DEF A
  <2> QED  BY <2>1, <2>2
<1>3. fold = (CHOOSE f : f = UnionRun(f, b, vs, 1 .. n))[1 .. n]
  BY DEF FoldLeft, MapThenFoldSet, UnionRun, UnionFold
<1> HIDE DEF A, fold
<1>4. PICK h, g : FoldedBy(h, g, A, UnionStep, b, vs, n)
  BY <1>1, FoldsExist
<1>5. ASSUME NEW S \in SUBSET (1 .. n), S # {} PROVE h[S] = AddNew(h[S \ {Max(S)}], vs[Max(S)].items)
  <2>1. h[S \ {Max(S)}] \in A /\ vs[Max(S)] \in ListValues
    BY <1>4, <1>5, TopOfPart DEF FoldedBy
  <2> QED  BY <1>2, <1>4, <1>5, <2>1 DEF FoldedBy, FoldRun
<1>6. h[{}] = b /\ {} \in SUBSET (1 .. n)
  BY <1>4 DEF FoldedBy, FoldRun
<1>7. h = UnionRun(h, b, vs, 1 .. n)
  <2>1. h = [S \in SUBSET (1 .. n) |-> h[S]]
    BY <1>4 DEF FoldedBy
  <2> QED  BY <1>5, <1>6, <2>1 DEF UnionRun
<1>8. PICK f : f = UnionRun(f, b, vs, 1 .. n) /\ fold = f[1 .. n]
  BY <1>3, <1>7
<1>9. fold = g[n]
  <2>1. f[{}] = h[{}]
    BY <1>6, <1>8 DEF UnionRun
  <2>2. ASSUME NEW S \in SUBSET (1 .. n), S # {}, f[S \ {Max(S)}] = h[S \ {Max(S)}] PROVE f[S] = h[S]
    BY <1>5, <1>8, <2>2 DEF UnionRun
  <2>3. f[1 .. n] = h[1 .. n]
    BY <2>1, <2>2, RunsAgree
  <2> QED  BY <1>4, <1>8, <2>3 DEF FoldedBy
<1>10. ASSUME NEW m \in 0 .. n - 1 PROVE g[m + 1] = AddNew(g[m], vs[m + 1].items)
  <2>1. m \in 0 .. n /\ m + 1 \in 1 .. n
    OBVIOUS
  <2>2. g[m] \in A /\ vs[m + 1] \in ListValues
    BY <1>4, <2>1 DEF FoldedBy
  <2> QED  BY <1>2, <1>4, <2>2 DEF FoldedBy, Stepwise
<1> QED  BY <1>4, <1>9, <1>10 DEF A, fold, FoldedBy, Stepwise

\* What a dict maps its keys to, and what _union_dict keeps track of.
Mappings == [1 .. Keys -> Items \cup {Absent}]
EntriesFold(b, vs) == FoldLeft(AddEntries, b, vs)
Accounts == [written : Mappings, result : Mappings, clash : BOOLEAN]

LEMMA DictsMapKeys == \A v \in DictValues : v.items \in Mappings
  BY ValuesAssumption DEF DictValues, DictOf, Mappings

\* The function that the fold of UnionDict runs on.
EntriesRun(f, b, vs, D) ==
  [S \in SUBSET D |-> IF S = {} THEN b ELSE AddEntries(f[S \ {Max(S)}], vs[Max(S)])]

\* One more dict.
EntriesStep == [p \in Accounts \X DictValues |-> AddEntries(p[1], p[2])]

LEMMA EntriesStepType == EntriesStep \in [Accounts \X DictValues -> Accounts]
<1>1. ASSUME NEW acc \in Accounts, NEW v \in DictValues PROVE AddEntries(acc, v) \in Accounts
  <2>1. acc.written \in Mappings /\ acc.result \in Mappings /\ v.items \in Mappings /\ acc.clash \in BOOLEAN
    BY DictsMapKeys DEF Accounts
  <2>2. ASSUME NEW under \in Mappings, NEW over \in Mappings PROVE Overlay(under, over) \in Mappings
    BY DEF Overlay, Mappings
  <2>3. Overlay(v.items, acc.written) \in Mappings /\ Overlay(acc.result, v.items) \in Mappings
    BY <2>1, <2>2
  <2>4. (acc.clash \/ Clash(acc.written, v.items)) \in BOOLEAN
    BY <2>1 DEF Clash
  <2> QED  BY <2>3, <2>4 DEF AddEntries, Accounts
<1>2. \A p \in Accounts \X DictValues : AddEntries(p[1], p[2]) \in Accounts
  BY <1>1
<1> QED  BY <1>2 DEF EntriesStep

\* union takes one dict after the other (reducers.py:151-160).
LEMMA EntriesFolds ==
  ASSUME NEW b \in Accounts, NEW n \in Nat, NEW vs \in [1 .. n -> DictValues]
  PROVE  \E g \in [0 .. n -> Accounts] :
           /\ g[0] = b /\ \A m \in 0 .. n - 1 : g[m + 1] = AddEntries(g[m], vs[m + 1])
           /\ EntriesFold(b, vs) = g[n]
<1> DEFINE A == Accounts
           fold == EntriesFold(b, vs)
<1>1. EntriesStep \in [A \X DictValues -> A] /\ b \in A
  BY EntriesStepType
<1>2. ASSUME NEW a \in A, NEW v \in DictValues PROVE EntriesStep[<<a, v>>] = AddEntries(a, v)
  <2>1. <<a, v>> \in A \X DictValues
    OBVIOUS
  <2>2. EntriesStep = [p \in A \X DictValues |-> AddEntries(p[1], p[2])]
    BY DEF EntriesStep
  <2> HIDE DEF A
  <2> QED  BY <2>1, <2>2
<1>3. fold = (CHOOSE f : f = EntriesRun(f, b, vs, 1 .. n))[1 .. n]
  BY DEF FoldLeft, MapThenFoldSet, EntriesRun, EntriesFold
<1> HIDE DEF A, fold
<1>4. PICK h, g : FoldedBy(h, g, A, EntriesStep, b, vs, n)
  BY <1>1, FoldsExist
<1>5. ASSUME NEW S \in SUBSET (1 .. n), S # {} PROVE h[S] = AddEntries(h[S \ {Max(S)}], vs[Max(S)])
  <2>1. h[S \ {Max(S)}] \in A /\ vs[Max(S)] \in DictValues
    BY <1>4, <1>5, TopOfPart DEF FoldedBy
  <2> QED  BY <1>2, <1>4, <1>5, <2>1 DEF FoldedBy, FoldRun
<1>6. h[{}] = b /\ {} \in SUBSET (1 .. n)
  BY <1>4 DEF FoldedBy, FoldRun
<1>7. h = EntriesRun(h, b, vs, 1 .. n)
  <2>1. h = [S \in SUBSET (1 .. n) |-> h[S]]
    BY <1>4 DEF FoldedBy
  <2> QED  BY <1>5, <1>6, <2>1 DEF EntriesRun
<1>8. PICK f : f = EntriesRun(f, b, vs, 1 .. n) /\ fold = f[1 .. n]
  BY <1>3, <1>7
<1>9. fold = g[n]
  <2>1. f[{}] = h[{}]
    BY <1>6, <1>8 DEF EntriesRun
  <2>2. ASSUME NEW S \in SUBSET (1 .. n), S # {}, f[S \ {Max(S)}] = h[S \ {Max(S)}] PROVE f[S] = h[S]
    BY <1>5, <1>8, <2>2 DEF EntriesRun
  <2>3. f[1 .. n] = h[1 .. n]
    BY <2>1, <2>2, RunsAgree
  <2> QED  BY <1>4, <1>8, <2>3 DEF FoldedBy
<1>10. ASSUME NEW m \in 0 .. n - 1 PROVE g[m + 1] = AddEntries(g[m], vs[m + 1])
  <2>1. m \in 0 .. n /\ m + 1 \in 1 .. n
    OBVIOUS
  <2>2. g[m] \in A /\ vs[m + 1] \in DictValues
    BY <1>4, <2>1 DEF FoldedBy
  <2> QED  BY <1>2, <1>4, <2>2 DEF FoldedBy, Stepwise
<1> QED  BY <1>4, <1>9, <1>10 DEF A, fold, FoldedBy, Stepwise

-----------------------------------------------------------------------------
(* union on lists.                                                         *)

\* r is the list b, then the other items of flat, each once and in the order
\* of their first occurrence.
InOrderOnce(b, flat, r) ==
  \A i, j \in 1 .. Len(r) : i < j /\ j > Len(b) =>
    /\ r[i] # r[j]
    /\ \E m \in 1 .. Len(flat) : flat[m] = r[i] /\ \A n \in 1 .. m : flat[n] # r[j]

Covers(b, flat, r) ==
  /\ b \in ItemLists /\ flat \in ItemLists /\ r \in ItemLists
  /\ \A i \in 1 .. Len(r) : \E j \in 1 .. Len(flat) : flat[j] = r[i]
  /\ \A j \in 1 .. Len(flat) : \E i \in 1 .. Len(r) : r[i] = flat[j]
  /\ Len(b) <= Len(r) /\ \A i \in 1 .. Len(b) : r[i] = b[i]
  /\ InOrderOnce(b, flat, r)

\* An item that the result lacks is appended, one that it holds is not.
LEMMA OneMoreItem ==
  ASSUME NEW b, NEW flat, NEW r, Covers(b, flat, r), NEW x \in Items
  PROVE  Covers(b, Append(flat, x), IF Contains(r, x) THEN r ELSE Append(r, x))
<1> DEFINE more == Append(flat, x)
           p == Append(r, x)
<1>1. /\ b \in ItemLists /\ flat \in ItemLists /\ r \in ItemLists
      /\ Len(b) \in Nat /\ Len(flat) \in Nat /\ Len(r) \in Nat /\ Len(b) <= Len(r)
  BY LenProperties DEF Covers, ItemLists
<1>2. /\ more \in ItemLists /\ Len(more) = Len(flat) + 1 /\ more[Len(flat) + 1] = x
      /\ \A i \in 1 .. Len(flat) : more[i] = flat[i]
  BY <1>1, AppendProperties DEF ItemLists
<1>3. /\ p \in ItemLists /\ Len(p) = Len(r) + 1 /\ p[Len(r) + 1] = x
      /\ \A i \in 1 .. Len(r) : p[i] = r[i]
  BY <1>1, AppendProperties DEF ItemLists
<1> HIDE DEF more, p
<1>4. /\ \A i \in 1 .. Len(r) : \E j \in 1 .. Len(flat) : flat[j] = r[i]
      /\ \A j \in 1 .. Len(flat) : \E i \in 1 .. Len(r) : r[i] = flat[j]
      /\ \A i \in 1 .. Len(b) : r[i] = b[i]
      /\ InOrderOnce(b, flat, r)
  BY DEF Covers
<1>5. ASSUME NEW i \in 1 .. Len(r), NEW j \in 1 .. Len(r), i < j, j > Len(b)
      PROVE  /\ r[i] # r[j]
             /\ \E m \in 1 .. Len(more) : more[m] = r[i] /\ \A n \in 1 .. m : more[n] # r[j]
  <2>1. PICK m \in 1 .. Len(flat) : flat[m] = r[i] /\ \A n \in 1 .. m : flat[n] # r[j]
    BY <1>4, <1>5 DEF InOrderOnce
  <2>2. m \in 1 .. Len(more) /\ more[m] = r[i]
    BY <1>1, <1>2, <2>1
  <2>3. ASSUME NEW n \in 1 .. m PROVE more[n] # r[j]
    <3>1. n \in 1 .. Len(flat)
      BY <1>1
    <3> QED  BY <1>2, <2>1, <3>1
  <2> QED  BY <1>4, <1>5, <2>2, <2>3 DEF InOrderOnce
<1>6. CASE Contains(r, x)
  <2>1. PICK k \in 1 .. Len(r) : r[k] = x
    BY <1>6 DEF Contains
  <2>2. \A i \in 1 .. Len(r) : \E j \in 1 .. Len(more) : more[j] = r[i]
    <3>1. \A j \in 1 .. Len(flat) : j \in 1 .. Len(more) /\ more[j] = flat[j]
      BY <1>1, <1>2
    <3> QED  BY <1>4, <3>1
  <2>3. ASSUME NEW j \in 1 .. Len(more) PROVE \E i \in 1 .. Len(r) : r[i] = more[j]
    <3>1. CASE j = Len(flat) + 1
      BY <1>2, <2>1, <3>1
    <3>2. CASE j # Len(flat) + 1
      <4>1. j \in 1 .. Len(flat) /\ more[j] = flat[j]
        BY <1>1, <1>2, <3>2
      <4> QED  BY <1>4, <4>1
    <3> QED  BY <3>1, <3>2
  <2>4. InOrderOnce(b, more, r)
    BY <1>5 DEF InOrderOnce
  <2>5. Covers(b, more, r)
    BY <1>1, <1>2, <1>4, <2>2, <2>3, <2>4 DEF Covers
  <2> QED  BY <1>6, <2>5 DEF more
<1>7. CASE ~Contains(r, x)
  <2>1. \A i \in 1 .. Len(r) : r[i] # x
    BY <1>7 DEF Contains
  <2>2. \A j \in 1 .. Len(flat) : flat[j] # x
    BY <1>4, <2>1
  <2>3. ASSUME NEW i \in 1 .. Len(p) PROVE \E j \in 1 .. Len(more) : more[j] = p[i]
    <3>1. CASE i = Len(r) + 1
      <4>1. Len(flat) + 1 \in 1 .. Len(more)
        BY <1>1, <1>2
      <4> QED  BY <1>2, <1>3, <3>1, <4>1
    <3>2. CASE i # Len(r) + 1
      <4>1. i \in 1 .. Len(r) /\ p[i] = r[i]
        BY <1>1, <1>3, <3>2
      <4>2. PICK j \in 1 .. Len(flat) : flat[j] = r[i]
        BY <1>4, <4>1
      <4>3. j \in 1 .. Len(more) /\ more[j] = flat[j]
        BY <1>1, <1>2
      <4> QED  BY <4>1, <4>2, <4>3
    <3> QED  BY <3>1, <3>2
  <2>4. ASSUME NEW j \in 1 .. Len(more) PROVE \E i \in 1 .. Len(p) : p[i] = more[j]
    <3>1. CASE j = Len(flat) + 1
      <4>1. Len(r) + 1 \in 1 .. Len(p)
        BY <1>1, <1>3
      <4> QED  BY <1>2, <1>3, <3>1, <4>1
    <3>2. CASE j # Len(flat) + 1
      <4>1. j \in 1 .. Len(flat) /\ more[j] = flat[j]
        BY <1>1, <1>2, <3>2
      <4>2. PICK i \in 1 .. Len(r) : r[i] = flat[j]
        BY <1>4, <4>1
      <4>3. i \in 1 .. Len(p) /\ p[i] = r[i]
        BY <1>1, <1>3
      <4> QED  BY <4>1, <4>2, <4>3
    <3> QED  BY <3>1, <3>2
  <2>5. Len(b) <= Len(p) /\ \A i \in 1 .. Len(b) : p[i] = b[i]
    BY <1>1, <1>3, <1>4
  <2>6. ASSUME NEW i \in 1 .. Len(p), NEW j \in 1 .. Len(p), i < j, j > Len(b)
        PROVE  /\ p[i] # p[j]
               /\ \E m \in 1 .. Len(more) : more[m] = p[i] /\ \A n \in 1 .. m : more[n] # p[j]
    <3>1. i \in 1 .. Len(r) /\ p[i] = r[i]
      BY <1>1, <1>3, <2>6
    <3>2. CASE j = Len(r) + 1
      <4>1. p[j] = x /\ p[i] # x
        BY <1>3, <2>1, <3>1, <3>2
      <4>2. PICK m \in 1 .. Len(flat) : flat[m] = r[i]
        BY <1>4, <3>1
      <4>3. m \in 1 .. Len(more) /\ more[m] = p[i]
        BY <1>1, <1>2, <3>1, <4>2
      <4>4. ASSUME NEW n \in 1 .. m PROVE more[n] # p[j]
        <5>1. n \in 1 .. Len(flat)
          BY <1>1
        <5> QED  BY <1>2, <2>2, <4>1, <5>1
      <4> QED  BY <4>1, <4>3, <4>4
    <3>3. CASE j # Len(r) + 1
      <4>1. j \in 1 .. Len(r) /\ p[j] = r[j]
        BY <1>1, <1>3, <3>3
      <4> QED  BY <1>5, <2>6, <3>1, <4>1
    <3> QED  BY <3>2, <3>3
  <2>7. InOrderOnce(b, more, p)
    BY <2>6 DEF InOrderOnce
  <2>8. Covers(b, more, p)
    BY <1>1, <1>2, <1>3, <2>3, <2>4, <2>5, <2>7 DEF Covers
  <2> QED  BY <1>7, <2>8 DEF more, p
<1> QED  BY <1>6, <1>7

\* So are all items of a list.
LEMMA OneMoreList ==
  ASSUME NEW b, NEW flat, NEW r, Covers(b, flat, r), NEW new \in ItemLists
  PROVE  Covers(b, flat \o new, AddNew(r, new))
<1> DEFINE n == Len(new)
           upto(m) == flat \o SubSeq(new, 1, m)
<1>1. /\ n \in Nat /\ new \in [1 .. n -> Items] /\ flat \in ItemLists /\ r \in ItemLists
      /\ n \in 0 .. n
  <2>1. n \in Nat /\ new \in [1 .. n -> Items]
    BY LenProperties DEF ItemLists
  <2> HIDE DEF n
  <2> QED  BY <2>1 DEF Covers
<1>2. upto(0) = flat /\ upto(n) = flat \o new
  <2>1. SubSeq(new, 1, 0) = <<>> /\ SubSeq(new, 1, n) = new
    BY SubSeqEmpty, SubSeqFull DEF ItemLists
  <2>2. flat \o <<>> = flat
    BY <1>1, ConcatEmptySeq DEF ItemLists
  <2> QED  BY <2>1, <2>2
<1>3. ASSUME NEW m \in 0 .. n - 1 PROVE upto(m + 1) = Append(upto(m), new[m + 1])
  <2>1. m \in Nat /\ m + 1 \in 1 .. n /\ 1 <= m + 1 /\ m + 1 - 1 = m /\ 1 \in Int /\ m + 1 \in Int
    BY <1>1
  <2>2. \A i \in 1 .. m + 1 : i \in 1 .. n /\ new[i] \in Items
    BY <1>1, <2>1
  <2>3. SubSeq(new, 1, m + 1) = SubSeq(new, 1, m) \o <<new[m + 1]>>
    BY <2>1, <2>2, SubSeqRecursiveSecond
  <2>4. SubSeq(new, 1, m) \in ItemLists /\ new[m + 1] \in Items
    <3>1. \A i \in 1 .. m : new[i] \in Items
      BY <2>1, <2>2
    <3> QED  BY <2>1, <2>2, <3>1, SubSeqProperties DEF ItemLists
  <2>5. <<new[m + 1]>> \in ItemLists
    BY <2>4 DEF ItemLists
  <2>6. flat \o (SubSeq(new, 1, m) \o <<new[m + 1]>>) = (flat \o SubSeq(new, 1, m)) \o <<new[m + 1]>>
    BY <1>1, <2>4, <2>5, ConcatAssociative DEF ItemLists
  <2>7. flat \o SubSeq(new, 1, m) \in ItemLists
    BY <1>1, <2>4, ConcatProperties DEF ItemLists
  <2> QED  BY <2>3, <2>4, <2>6, <2>7, AppendIsConcat DEF ItemLists
<1> HIDE DEF n, upto
<1>4. PICK g \in [0 .. n -> ItemLists] :
        /\ g[0] = r /\ \A m \in 0 .. n - 1 : g[m + 1] = IF Contains(g[m], new[m + 1]) THEN g[m]
                                                        ELSE Append(g[m], new[m + 1])
        /\ AddNew(r, new) = g[n]
  BY <1>1, NewFolds
<1> DEFINE T == {m \in Nat : Covers(b, upto(m), g[m])}
<1>5. 0 \in T
  BY <1>2, <1>4
<1>6. ASSUME NEW m \in 0 .. n - 1, m \in T PROVE m + 1 \in T
  <2>1. m + 1 \in Nat /\ m + 1 \in 1 .. n /\ new[m + 1] \in Items /\ Covers(b, upto(m), g[m])
    BY <1>1, <1>6
  <2>2. Covers(b, upto(m + 1), g[m + 1])
    BY <1>3, <1>4, <2>1, OneMoreItem
  <2> QED  BY <2>1, <2>2
<1>7. n \in T
  <2> HIDE DEF T
  <2> QED  BY <1>1, <1>5, <1>6, UpTo
<1> QED  BY <1>2, <1>4, <1>7

-----------------------------------------------------------------------------
(* All items of a call, and the kinds on lists.                            *)

\* The function that FlattenSeq runs on.
Flattening(f, seqs) == [i \in 1 .. Len(seqs) |-> IF i = 1 THEN seqs[i] ELSE f[i - 1] \o seqs[i]]

LEMMA FlattenSeqChooses ==
  ASSUME NEW seqs, Len(seqs) # 0
  PROVE  FlattenSeq(seqs) = (CHOOSE f : f = Flattening(f, seqs))[Len(seqs)]
  BY DEF FlattenSeq, Flattening

\* A list and n more, one after the other.
OneAfterTheOther(g, b, n, vs) ==
  g \in [0 .. n -> ItemLists] /\ g[0] = b /\ \A m \in 0 .. n - 1 : g[m + 1] = g[m] \o vs[m + 1].items

LEMMA JoinedExists ==
  ASSUME NEW b \in ItemLists, NEW n \in Nat, NEW vs \in [1 .. n -> ListValues]
  PROVE  \E g : OneAfterTheOther(g, b, n, vs) /\ ConcatFold(b, vs) = g[n]
<1>1. PICK g \in [0 .. n -> ItemLists] :
        /\ g[0] = b /\ \A m \in 0 .. n - 1 : g[m + 1] = g[m] \o vs[m + 1].items
        /\ ConcatFold(b, vs) = g[n]
  BY ConcatFolds
<1>2. OneAfterTheOther(g, b, n, vs)
  BY <1>1 DEF OneAfterTheOther
<1> QED  BY <1>1, <1>2

Together(b, n, vs) == FlattenSeq(<<b>> \o [i \in 1 .. n |-> vs[i].items])

\* The items of the base and of every contribution are what concat folds to.
LEMMA TogetherIsTheLast ==
  ASSUME NEW b \in ItemLists, NEW n \in Nat, NEW vs \in [1 .. n -> ListValues],
         NEW g, OneAfterTheOther(g, b, n, vs)
  PROVE  Together(b, n, vs) = g[n]
<1> DEFINE tail == [i \in 1 .. n |-> vs[i].items]
           seqs == <<b>> \o tail
<1>1. Len(seqs) = n + 1 /\ seqs[1] = b /\ \A m \in 1 .. n : seqs[m + 1] = vs[m].items
  <2>1. tail \in Seq(ItemLists) /\ Len(tail) = n
    <3>1. \A i \in 1 .. n : vs[i].items \in ItemLists
      BY ListsOfItems
    <3> HIDE DEF ItemLists
    <3> QED  BY <3>1
  <2>2. <<b>> \in Seq(ItemLists) /\ Len(<<b>>) = 1 /\ <<b>>[1] = b
    BY DEF ItemLists
  <2>3. \A m \in 1 .. n : tail[m] = vs[m].items
    OBVIOUS
  <2> HIDE DEF tail, ItemLists
  <2>4. /\ Len(<<b>> \o tail) = 1 + n
        /\ \A i \in 1 .. 1 + n : (<<b>> \o tail)[i] = IF i <= 1 THEN <<b>>[i] ELSE tail[i - 1]
    BY <2>1, <2>2, ConcatProperties
  <2>5. seqs[1] = b
    BY <2>2, <2>4
  <2>6. ASSUME NEW m \in 1 .. n PROVE seqs[m + 1] = vs[m].items
    <3>1. m + 1 \in 1 .. 1 + n /\ ~(m + 1 <= 1) /\ m + 1 - 1 = m
      OBVIOUS
    <3> QED  BY <2>3, <2>4, <3>1
  <2> QED  BY <2>4, <2>5, <2>6
<1>2. Together(b, n, vs) = FlattenSeq(seqs)
  BY DEF Together
<1> HIDE DEF seqs
<1>3. g[0] = b /\ \A m \in 0 .. n - 1 : g[m + 1] = g[m] \o vs[m + 1].items
  BY DEF OneAfterTheOther
<1> DEFINE h == [i \in 1 .. n + 1 |-> g[i - 1]]
<1>4. h = Flattening(h, seqs)
  <2>1. ASSUME NEW i \in 1 .. n + 1 PROVE h[i] = IF i = 1 THEN seqs[i] ELSE h[i - 1] \o seqs[i]
    <3>1. CASE i = 1
      BY <1>1, <1>3, <3>1
    <3>2. CASE i # 1
      <4>1. i - 2 \in 0 .. n - 1 /\ i - 1 \in 1 .. n /\ i - 1 \in 1 .. n + 1 /\ i - 2 + 1 = i - 1 /\ i - 1 + 1 = i
            /\ i - 1 - 1 = i - 2
        BY <3>2
      <4>2. g[i - 1] = g[i - 2] \o vs[i - 1].items
        BY <1>3, <4>1
      <4>3. h[i] = g[i - 1] /\ h[i - 1] = g[i - 2]
        BY <4>1
      <4>4. seqs[i] = vs[i - 1].items
        BY <1>1, <4>1
      <4> QED  BY <3>2, <4>2, <4>3, <4>4
    <3> QED  BY <3>1, <3>2
  <2> QED  BY <1>1, <2>1 DEF Flattening
<1>5. PICK f : f = Flattening(f, seqs) /\ FlattenSeq(seqs) = f[n + 1]
  BY <1>1, <1>4, FlattenSeqChooses
<1>10. \A i \in 1 .. n + 1 : f[i] = IF i = 1 THEN seqs[i] ELSE f[i - 1] \o seqs[i]
  BY <1>1, <1>5 DEF Flattening
<1> DEFINE T == {m \in Nat : f[m + 1] = g[m]}
<1>6. 0 \in T
  BY <1>1, <1>3, <1>5 DEF Flattening
<1>7. ASSUME NEW m \in 0 .. n - 1, m \in T PROVE m + 1 \in T
  <2>1. m + 2 \in 2 .. n + 1 /\ m + 2 - 1 = m + 1 /\ m + 1 \in 1 .. n /\ m + 1 + 1 = m + 2
          /\ m + 1 \in Nat
    OBVIOUS
  <2>2. f[m + 2] = f[m + 1] \o seqs[m + 2]
    <3> DEFINE i == m + 2
    <3>1. i \in 1 .. n + 1 /\ i # 1 /\ i - 1 = m + 1
      BY <2>1
    <3> HIDE DEF i
    <3>2. f[i] = f[m + 1] \o seqs[i]
      BY <1>10, <3>1
    <3> QED  BY <3>2 DEF i
  <2>3. seqs[m + 2] = vs[m + 1].items
    <3>1. seqs[m + 1 + 1] = vs[m + 1].items
      BY <1>1, <2>1
    <3> QED  BY <2>1, <3>1
  <2>4. f[m + 1] = g[m]
    BY <1>7
  <2>5. f[m + 2] = g[m + 1]
    BY <1>3, <2>2, <2>3, <2>4
  <2>6. f[m + 1 + 1] = g[m + 1]
    BY <2>1, <2>5
  <2> QED  BY <2>1, <2>6
<1>8. n \in 0 .. n
  OBVIOUS
<1>9. n \in T
  <2> HIDE DEF T
  <2> QED  BY <1>6, <1>7, <1>8, UpTo
<1> QED  BY <1>2, <1>5, <1>9

\* An item is in all items iff it is in the base or in a contribution.
LEMMA TogetherHolds ==
  ASSUME NEW b \in ItemLists, NEW n \in Nat, NEW vs \in [1 .. n -> ListValues]
  PROVE  /\ Together(b, n, vs) \in ItemLists
         /\ ToSet(Together(b, n, vs)) = ToSet(b) \cup UNION {ToSet(vs[i].items) : i \in 1 .. n}
<1>1. PICK g : OneAfterTheOther(g, b, n, vs)
  BY JoinedExists
<1> DEFINE held(m) == ToSet(b) \cup UNION {ToSet(vs[i].items) : i \in 1 .. m}
           T == {m \in Nat : ToSet(g[m]) = held(m)}
<1>2. g \in [0 .. n -> ItemLists] /\ g[0] = b /\ \A m \in 0 .. n - 1 : g[m + 1] = g[m] \o vs[m + 1].items
  BY <1>1 DEF OneAfterTheOther
<1>3. 0 \in T
  BY <1>2
<1>4. ASSUME NEW m \in 0 .. n - 1, m \in T PROVE m + 1 \in T
  <2>1. m \in 0 .. n /\ m + 1 \in 1 .. n /\ m + 1 \in Nat
    OBVIOUS
  <2>2. g[m] \in ItemLists /\ vs[m + 1].items \in ItemLists
    BY <1>2, <2>1, ListsOfItems
  <2>3. ASSUME NEW p \in ItemLists, NEW q \in ItemLists PROVE ToSet(p \o q) = ToSet(p) \cup ToSet(q)
    <3>1. /\ Len(p) \in Nat /\ Len(q) \in Nat /\ DOMAIN p = 1 .. Len(p) /\ DOMAIN q = 1 .. Len(q)
          /\ DOMAIN (p \o q) = 1 .. Len(p) + Len(q)
          /\ \A i \in 1 .. Len(p) + Len(q) : (p \o q)[i] = IF i <= Len(p) THEN p[i] ELSE q[i - Len(p)]
      BY LenProperties, ConcatProperties DEF ItemLists
    <3>2. ASSUME NEW i \in 1 .. Len(p) PROVE i \in 1 .. Len(p) + Len(q) /\ (p \o q)[i] = p[i]
      BY <3>1
    <3>3. ASSUME NEW i \in 1 .. Len(q)
          PROVE  Len(p) + i \in 1 .. Len(p) + Len(q) /\ (p \o q)[Len(p) + i] = q[i]
      <4>1. Len(p) + i \in 1 .. Len(p) + Len(q) /\ ~(Len(p) + i <= Len(p)) /\ Len(p) + i - Len(p) = i
        BY <3>1
      <4> QED  BY <3>1, <4>1
    <3>4. ASSUME NEW i \in 1 .. Len(p) + Len(q)
          PROVE  (p \o q)[i] \in ToSet(p) \cup ToSet(q)
      <4>1. CASE i <= Len(p)
        <5>1. i \in DOMAIN p /\ (p \o q)[i] = p[i]
          BY <3>1, <4>1
        <5> QED  BY <5>1 DEF ToSet
      <4>2. CASE ~(i <= Len(p))
        <5>1. i - Len(p) \in DOMAIN q /\ (p \o q)[i] = q[i - Len(p)]
          BY <3>1, <4>2
        <5> QED  BY <5>1 DEF ToSet
      <4> QED  BY <4>1, <4>2
    <3>5. ToSet(p \o q) \subseteq ToSet(p) \cup ToSet(q)
      BY <3>1, <3>4 DEF ToSet
    <3>6. ToSet(p) \cup ToSet(q) \subseteq ToSet(p \o q)
      <4>1. ASSUME NEW i \in 1 .. Len(p) PROVE p[i] \in ToSet(p \o q)
        BY <3>1, <3>2 DEF ToSet
      <4>2. ASSUME NEW i \in 1 .. Len(q) PROVE q[i] \in ToSet(p \o q)
        <5>1. Len(p) + i \in DOMAIN (p \o q) /\ (p \o q)[Len(p) + i] = q[i]
          BY <3>1, <3>3
        <5> QED  BY <5>1 DEF ToSet
      <4>3. ToSet(p) = {p[i] : i \in 1 .. Len(p)} /\ ToSet(q) = {q[i] : i \in 1 .. Len(q)}
        BY <3>1 DEF ToSet
      <4> QED  BY <4>1, <4>2, <4>3
    <3> QED  BY <3>5, <3>6
  <2>4. ToSet(g[m + 1]) = held(m) \cup ToSet(vs[m + 1].items)
    <3>1. ToSet(g[m]) = held(m)
      BY <1>4
    <3> HIDE DEF held
    <3> QED  BY <1>2, <2>2, <2>3, <3>1
  <2>5. 1 .. m + 1 = (1 .. m) \cup {m + 1}
    OBVIOUS
  <2>6. held(m + 1) = held(m) \cup ToSet(vs[m + 1].items)
    BY <2>5
  <2> HIDE DEF held
  <2> QED  BY <2>1, <2>4, <2>6
<1>5. n \in 0 .. n
  OBVIOUS
<1>6. n \in T
  <2> HIDE DEF T
  <2> QED  BY <1>3, <1>4, <1>5, UpTo
<1>7. Together(b, n, vs) = g[n] /\ g[n] \in ItemLists
  BY <1>1, <1>2, <1>5, TogetherIsTheLast
<1> QED  BY <1>6, <1>7

\* What union folds to covers all items.
LEMMA UnionCovers ==
  ASSUME NEW b \in ItemLists, NEW n \in Nat, NEW vs \in [1 .. n -> ListValues]
  PROVE  Covers(b, Together(b, n, vs), UnionFold(b, vs))
<1>1. PICK g : OneAfterTheOther(g, b, n, vs)
  BY JoinedExists
<1>2. PICK u \in [0 .. n -> ItemLists] :
        /\ u[0] = b /\ \A m \in 0 .. n - 1 : u[m + 1] = AddNew(u[m], vs[m + 1].items)
        /\ UnionFold(b, vs) = u[n]
  BY UnionFolds
<1> DEFINE T == {m \in Nat : Covers(b, g[m], u[m])}
<1>3. 0 \in T
  <2>1. InOrderOnce(b, b, b)
    <3>1. Len(b) \in Nat
      BY LenProperties DEF ItemLists
    <3> QED  BY <3>1 DEF InOrderOnce
  <2>2. Covers(b, b, b)
    <3>1. Len(b) \in Nat
      BY LenProperties DEF ItemLists
    <3> QED  BY <2>1, <3>1 DEF Covers
  <2> QED  BY <1>1, <1>2, <2>2 DEF OneAfterTheOther
<1>4. ASSUME NEW m \in 0 .. n - 1, m \in T PROVE m + 1 \in T
  <2>1. m + 1 \in 1 .. n /\ m + 1 \in Nat /\ Covers(b, g[m], u[m])
    BY <1>4
  <2>2. vs[m + 1].items \in ItemLists
    BY <2>1, ListsOfItems
  <2>3. g[m + 1] = g[m] \o vs[m + 1].items /\ u[m + 1] = AddNew(u[m], vs[m + 1].items)
    BY <1>1, <1>2 DEF OneAfterTheOther
  <2>4. Covers(b, g[m] \o vs[m + 1].items, AddNew(u[m], vs[m + 1].items))
    BY <2>1, <2>2, OneMoreList
  <2> QED  BY <2>1, <2>3, <2>4
<1>5. n \in 0 .. n
  OBVIOUS
<1>6. n \in T
  <2> HIDE DEF T
  <2> QED  BY <1>3, <1>4, <1>5, UpTo
<1>7. Together(b, n, vs) = g[n]
  BY <1>1, TogetherIsTheLast
<1> QED  BY <1>2, <1>6, <1>7

\* A call of reduce_field: a base, or none, and what n branches contributed.
IsCall(bs, n, vs) == bs \in Values \cup {NoValue} /\ n \in Nat \ {0} /\ vs \in [1 .. n -> Values]
AllLists(bs, n, vs) == (bs = NoValue \/ IsList(bs)) /\ \A i \in 1 .. n : IsList(vs[i])

\* What a call on lists folds.
LEMMA CallsOnLists ==
  ASSUME NEW bs, NEW n, NEW vs, IsCall(bs, n, vs), AllLists(bs, n, vs)
  PROVE  bs.items \in ItemLists /\ ListBase(bs).items = bs.items /\ vs \in [1 .. n -> ListValues]
<1>1. ASSUME NEW v \in Values, IsList(v) PROVE v \in ListValues
  <2>1. \A x \in Dicts : DictOf(x).tag = "dict"
    BY DEF DictOf
  <2>2. \A x \in Atoms : [tag |-> "atom", items |-> x].tag = "atom"
    OBVIOUS
  <2>3. v \notin {DictOf(x) : x \in Dicts} /\ v \notin {[tag |-> "atom", items |-> x] : x \in Atoms}
    BY <1>1, <2>1, <2>2 DEF IsList
  <2> QED  BY <2>3 DEF Values, ListValues
<1>2. vs \in [1 .. n -> ListValues]
  BY <1>1 DEF IsCall, AllLists
<1>3. CASE bs = NoValue
  <2>1. bs.items = <<>> /\ ListBase(bs).items = <<>>
    BY <1>3 DEF NoValue, ListBase, ListOf
  <2> QED  BY <1>2, <2>1 DEF ItemLists
<1>4. CASE bs # NoValue
  <2>1. bs \in ListValues /\ ListBase(bs) = bs
    BY <1>1, <1>4 DEF IsCall, AllLists, ListBase
  <2> QED  BY <1>2, <2>1, ListsOfItems
<1> QED  BY <1>3, <1>4

\* The two kinds on lists refuse the same calls.
LEMMA ListKinds ==
  ASSUME NEW bs, NEW n, NEW vs, IsCall(bs, n, vs)
  PROVE  /\ Concat(bs, vs) = IF AllLists(bs, n, vs) THEN ListOf(ConcatFold(bs.items, vs)) ELSE TypeError
         /\ UnionList(bs, vs) = IF AllLists(bs, n, vs) THEN ListOf(UnionFold(bs.items, vs)) ELSE TypeError
<1> DEFINE lists == IsList(ListBase(bs)) /\ \A i \in DOMAIN vs : IsList(vs[i])
<1>1. lists <=> AllLists(bs, n, vs)
  <2>1. DOMAIN vs = 1 .. n
    BY DEF IsCall
  <2>2. IsList(ListBase(bs)) <=> bs = NoValue \/ IsList(bs)
    BY DEF ListBase, ListOf, IsList
  <2> QED  BY <2>1, <2>2 DEF AllLists
<1>2. Concat(bs, vs) = IF lists THEN ListOf(ConcatFold(ListBase(bs).items, vs)) ELSE TypeError
  BY DEF Concat, ConcatFold
<1>3. UnionList(bs, vs) = IF lists THEN ListOf(UnionFold(ListBase(bs).items, vs)) ELSE TypeError
  BY DEF UnionList, UnionFold
<1> HIDE DEF lists
<1>4. CASE AllLists(bs, n, vs)
  BY <1>1, <1>2, <1>3, <1>4, CallsOnLists
<1>5. CASE ~AllLists(bs, n, vs)
  BY <1>1, <1>2, <1>3, <1>5
<1> QED  BY <1>4, <1>5

\* Which fold union is, and when it refuses to be one.
LEMMA UnionKinds ==
  ASSUME NEW bs, NEW n, NEW vs, IsCall(bs, n, vs)
  PROVE  /\ (\A i \in 1 .. n : IsDict(vs[i])) => Union(bs, vs) = UnionDict(bs, vs)
         /\ ~(\A i \in 1 .. n : IsDict(vs[i])) =>
              Union(bs, vs) = IF AllLists(bs, n, vs) THEN ListOf(UnionFold(bs.items, vs)) ELSE TypeError
<1>1. DOMAIN vs = 1 .. n /\ 1 \in 1 .. n
  BY DEF IsCall
<1>2. CASE \A i \in 1 .. n : IsDict(vs[i])
  <2>1. Union(bs, vs) = UnionDict(bs, vs)
    <3>1. ~ \A i \in 1 .. n : ~IsDict(vs[i])
      BY <1>1, <1>2
    <3> QED  BY <1>1, <1>2, <3>1 DEF Union
  <2> QED  BY <1>2, <2>1
<1>3. CASE \A i \in 1 .. n : ~IsDict(vs[i])
  <2>1. ~ \A i \in 1 .. n : IsDict(vs[i])
    BY <1>1, <1>3
  <2>2. Union(bs, vs) = UnionList(bs, vs)
    BY <1>1, <1>3, <2>1 DEF Union
  <2> QED  BY <2>1, <2>2, ListKinds
<1>4. CASE ~(\A i \in 1 .. n : IsDict(vs[i])) /\ ~(\A i \in 1 .. n : ~IsDict(vs[i]))
  <2>1. Union(bs, vs) = TypeError
    BY <1>1, <1>4 DEF Union
  <2>2. ~AllLists(bs, n, vs)
    <3>1. \A i \in 1 .. n : IsList(vs[i]) => ~IsDict(vs[i])
      BY DEF IsList, IsDict
    <3> QED  BY <1>4, <3>1 DEF AllLists
  <2> QED  BY <1>4, <2>1, <2>2
<1> QED  BY <1>2, <1>3, <1>4

\* What covers all items has the parts of UnionOfLists.
LEMMA CoveringIsUnion ==
  ASSUME NEW b, NEW flat, NEW r, Covers(b, flat, r)
  PROVE  /\ ToSet(r) = ToSet(flat) /\ IsPrefix(b, r)
         /\ \A i, j \in DOMAIN r : i < j /\ j > Len(b) =>
              /\ r[i] # r[j]
              /\ \E m \in DOMAIN flat : flat[m] = r[i] /\ \A n \in 1 .. m : flat[n] # r[j]
<1>1. /\ b \in ItemLists /\ Len(b) \in Nat /\ Len(r) \in Nat /\ Len(b) <= Len(r)
      /\ DOMAIN flat = 1 .. Len(flat) /\ DOMAIN r = 1 .. Len(r)
  BY LenProperties DEF Covers, ItemLists
<1>2. ToSet(r) = ToSet(flat)
  <2>1. ToSet(r) = {r[i] : i \in 1 .. Len(r)} /\ ToSet(flat) = {flat[i] : i \in 1 .. Len(flat)}
    BY <1>1 DEF ToSet
  <2>2. /\ \A i \in 1 .. Len(r) : \E j \in 1 .. Len(flat) : flat[j] = r[i]
        /\ \A j \in 1 .. Len(flat) : \E i \in 1 .. Len(r) : r[i] = flat[j]
    BY DEF Covers
  <2> QED  BY <2>1, <2>2
<1>3. IsPrefix(b, r)
  <2>1. Len(b) \in 0 .. Len(b) /\ Len(b) \in 0 .. Len(r) /\ r \in ItemLists
    BY <1>1 DEF Covers
  <2>2. SubSeq(b, 1, Len(b)) = Restrict(b, 1 .. Len(b)) /\ SubSeq(r, 1, Len(b)) = Restrict(r, 1 .. Len(b))
    BY <1>1, <2>1, SubSeqRestrict DEF ItemLists
  <2>3. \A i \in 1 .. Len(b) : r[i] = b[i]
    BY DEF Covers
  <2> QED  BY <1>1, <2>2, <2>3 DEF IsPrefix, Restrict
<1>4. InOrderOnce(b, flat, r)
  BY DEF Covers
<1> QED  BY <1>1, <1>2, <1>3, <1>4 DEF InOrderOnce

-----------------------------------------------------------------------------
(* union on dicts.                                                         *)

\* What the first m branches write to key k, and whether two of them differ.
Written(vs, m, k) == {vs[i].items[k] : i \in 1 .. m} \ {Absent}
Differ(S) == \E x, y \in S : x # y

\* What the fold has kept track of after m branches.
Accounted(acc, vs, m, b) ==
  /\ \A k \in 1 .. Keys :
       IF Written(vs, m, k) = {} THEN acc.written[k] = Absent /\ acc.result[k] = b.result[k]
       ELSE acc.written[k] \in Written(vs, m, k) /\ acc.result[k] \in Written(vs, m, k)
  /\ acc.clash <=> \E k \in 1 .. Keys : Differ(Written(vs, m, k))

\* One more branch is accounted for.
LEMMA OneMoreDict ==
  ASSUME NEW b \in Accounts, NEW n \in Nat, NEW vs \in [1 .. n -> DictValues],
         NEW acc \in Accounts, NEW m \in 0 .. n - 1, Accounted(acc, vs, m, b)
  PROVE  Accounted(AddEntries(acc, vs[m + 1]), vs, m + 1, b)
<1> DEFINE over == vs[m + 1].items
           new == AddEntries(acc, vs[m + 1])
           W(k) == Written(vs, m, k)
           V(k) == Written(vs, m + 1, k)
<1>1. /\ over \in Mappings /\ acc.written \in Mappings /\ acc.result \in Mappings /\ acc.clash \in BOOLEAN
      /\ DOMAIN over = 1 .. Keys /\ DOMAIN acc.written = 1 .. Keys /\ DOMAIN acc.result = 1 .. Keys
  <2>1. over \in Mappings
    BY DictsMapKeys
  <2> QED  BY <2>1 DEF Accounts, Mappings
<1>2. /\ new.written = Overlay(over, acc.written) /\ new.result = Overlay(acc.result, over)
      /\ new.clash <=> acc.clash \/ Clash(acc.written, over)
  BY DEF AddEntries
<1>3. \A k \in 1 .. Keys : V(k) = W(k) \cup ({over[k]} \ {Absent})
  <2>1. 1 .. m + 1 = (1 .. m) \cup {m + 1}
    OBVIOUS
  <2> QED  BY <2>1 DEF Written
<1>4. \A k \in 1 .. Keys : IF W(k) = {} THEN acc.written[k] = Absent /\ acc.result[k] = b.result[k]
                           ELSE acc.written[k] \in W(k) /\ acc.result[k] \in W(k)
  BY DEF Accounted
<1>5. acc.clash <=> \E k \in 1 .. Keys : Differ(W(k))
  BY DEF Accounted
<1>6. \A k \in 1 .. Keys : Absent \notin W(k)
  BY DEF Written
<1> HIDE DEF over, new, W, V
<1>7. \A k \in 1 .. Keys : /\ new.written[k] = IF acc.written[k] # Absent THEN acc.written[k] ELSE over[k]
                           /\ new.result[k] = IF over[k] # Absent THEN over[k] ELSE acc.result[k]
  BY <1>1, <1>2 DEF Overlay
<1>8. ASSUME NEW k \in 1 .. Keys
      PROVE  IF V(k) = {} THEN new.written[k] = Absent /\ new.result[k] = b.result[k]
             ELSE new.written[k] \in V(k) /\ new.result[k] \in V(k)
  <2>1. CASE over[k] = Absent
    <3>1. V(k) = W(k)
      BY <1>3, <2>1
    <3> QED  BY <1>4, <1>6, <1>7, <2>1, <3>1
  <2>2. CASE over[k] # Absent
    <3>1. over[k] \in V(k) /\ W(k) \subseteq V(k)
      BY <1>3, <2>2
    <3> QED  BY <1>4, <1>6, <1>7, <2>2, <3>1
  <2> QED  BY <2>1, <2>2
<1>9. Clash(acc.written, over) <=>
        \E k \in 1 .. Keys : acc.written[k] # Absent /\ over[k] # Absent /\ acc.written[k] # over[k]
  BY <1>1 DEF Clash
<1>10. ASSUME new.clash PROVE \E k \in 1 .. Keys : Differ(V(k))
  <2>1. CASE acc.clash
    <3>1. PICK k \in 1 .. Keys : Differ(W(k))
      BY <1>5, <2>1
    <3>2. Differ(V(k))
      BY <1>3, <3>1 DEF Differ
    <3> QED  BY <3>2
  <2>2. CASE Clash(acc.written, over)
    <3>1. PICK k \in 1 .. Keys : acc.written[k] # Absent /\ over[k] # Absent /\ acc.written[k] # over[k]
      BY <1>9, <2>2
    <3>2. acc.written[k] \in V(k) /\ over[k] \in V(k)
      BY <1>3, <1>4, <3>1
    <3>3. Differ(V(k))
      BY <3>1, <3>2 DEF Differ
    <3> QED  BY <3>3
  <2> QED  BY <1>2, <1>10, <2>1, <2>2
<1>11. ASSUME NEW k \in 1 .. Keys, Differ(V(k)) PROVE new.clash
  <2>1. CASE Differ(W(k))
    BY <1>2, <1>5, <2>1
  <2>2. CASE ~Differ(W(k))
    <3>1. PICK x \in V(k), y \in V(k) : x # y
      BY <1>11 DEF Differ
    <3>2. over[k] # Absent /\ W(k) # {}
      BY <1>3, <2>2, <3>1 DEF Differ
    <3>3. acc.written[k] \in W(k) /\ acc.written[k] # Absent
      BY <1>4, <1>6, <3>2
    <3>4. acc.written[k] # over[k]
      <4>1. SUFFICES ASSUME acc.written[k] = over[k] PROVE FALSE
        OBVIOUS
      <4>2. V(k) = W(k)
        BY <1>3, <3>2, <3>3, <4>1
      <4> QED  BY <2>2, <3>1, <4>2 DEF Differ
    <3>5. Clash(acc.written, over)
      BY <1>9, <3>2, <3>3, <3>4
    <3> QED  BY <1>2, <3>5
  <2> QED  BY <2>1, <2>2
<1>12. new.clash <=> \E k \in 1 .. Keys : Differ(V(k))
  BY <1>10, <1>11
<1> QED  BY <1>8, <1>12 DEF Accounted, new, V

\* A finite set has more than one element iff two of them differ.
LEMMA TwoOrMore ==
  ASSUME NEW S, IsFiniteSet(S)
  PROVE  Cardinality(S) > 1 <=> Differ(S)
<1>1. Cardinality(S) \in Nat
  BY FS_CardinalityType
<1>2. Cardinality(S) = 0 <=> S = {}
  BY FS_EmptySet
<1>3. Cardinality(S) = 1 <=> \E x : S = {x}
  BY FS_Singleton
<1>4. ~Differ(S) <=> S = {} \/ \E x : S = {x}
  BY DEF Differ
<1> QED  BY <1>1, <1>2, <1>3, <1>4

\* The branches write finitely many items to a key.
LEMMA WrittenIsFinite ==
  ASSUME NEW n \in Nat, NEW vs, NEW k
  PROVE  IsFiniteSet(Written(vs, n, k))
<1> DEFINE I == 1 .. n
           T == {vs[i].items[k] : i \in I}
           f == [i \in I |-> vs[i].items[k]]
<1>1. IsFiniteSet(I)
  BY FS_Interval
<1>2. f \in Surjection(I, T)
  BY DEF Surjection
<1> HIDE DEF f
<1>3. IsFiniteSet(T)
  BY <1>1, <1>2, FS_Surjection
<1>4. Written(vs, n, k) = T \ {Absent}
  BY DEF Written
<1> QED  BY <1>3, <1>4, FS_RemoveElement

\* What union on dicts returns (reducers.py:141-161).
Blank == [k \in 1 .. Keys |-> Absent]
Merged(bs, n, vs, r) ==
  IF \E k \in 1 .. Keys : Differ(Written(vs, n, k)) THEN r = Conflict
  ELSE \E f \in Mappings :
         /\ r = DictOf(f)
         /\ \A k \in 1 .. Keys :
              IF Written(vs, n, k) # {} THEN f[k] \in Written(vs, n, k)
              ELSE f[k] = IF IsDict(bs) THEN bs.items[k] ELSE Absent

LEMMA UnionMerges ==
  ASSUME NEW bs, NEW n, NEW vs, IsCall(bs, n, vs), \A i \in 1 .. n : IsDict(vs[i])
  PROVE  IF bs.tag \notin {"none", "dict"} THEN UnionDict(bs, vs) = TypeError
         ELSE Merged(bs, n, vs, UnionDict(bs, vs))
<1> DEFINE start == [written |-> Blank, clash |-> FALSE,
                     result |-> IF bs = NoValue THEN Blank ELSE bs.items]
           fold == EntriesFold(start, vs)
<1>1. ASSUME NEW v \in Values, IsDict(v) PROVE v \in DictValues
  <2>1. \A x \in Lists : ListOf(x).tag = "list"
    BY DEF ListOf
  <2>2. \A x \in Atoms : [tag |-> "atom", items |-> x].tag = "atom"
    OBVIOUS
  <2>3. v \notin {ListOf(x) : x \in Lists} /\ v \notin {[tag |-> "atom", items |-> x] : x \in Atoms}
    BY <1>1, <2>1, <2>2 DEF IsDict
  <2> QED  BY <2>3 DEF Values, DictValues
<1>2. n \in Nat /\ n \in 0 .. n /\ 1 \in 1 .. n /\ vs \in [1 .. n -> DictValues]
  BY <1>1 DEF IsCall
<1>3. DOMAIN vs[1].items = 1 .. Keys
  BY <1>2, DictsMapKeys DEF Mappings
<1>4. UnionDict(bs, vs) = IF bs # NoValue /\ ~IsDict(bs) THEN TypeError
                          ELSE IF fold.clash THEN Conflict ELSE DictOf(fold.result)
  BY <1>3 DEF UnionDict, Blank, EntriesFold
<1>5. bs.tag \notin {"none", "dict"} <=> bs # NoValue /\ ~IsDict(bs)
  <2>1. \A v \in Values : v.tag \in {"list", "dict", "atom"}
    BY DEF Values, ListOf, DictOf
  <2> QED  BY <2>1 DEF IsCall, NoValue, IsDict
<1>6. CASE bs # NoValue /\ ~IsDict(bs)
  BY <1>4, <1>5, <1>6
<1>7. CASE ~(bs # NoValue /\ ~IsDict(bs))
  <2>1. /\ start \in Accounts
        /\ start.written = Blank /\ start.clash = FALSE
        /\ \A k \in 1 .. Keys : start.result[k] = IF IsDict(bs) THEN bs.items[k] ELSE Absent
    <3>1. Blank \in Mappings
      BY DEF Blank, Mappings
    <3>2. CASE bs = NoValue
      BY <3>1, <3>2 DEF Accounts, IsDict, NoValue, Blank
    <3>3. CASE bs # NoValue
      <4>1. IsDict(bs) /\ bs \in DictValues
        BY <1>1, <1>7, <3>3 DEF IsCall
      <4>2. bs.items \in Mappings
        BY <4>1, DictsMapKeys
      <4> QED  BY <3>1, <3>3, <4>1, <4>2 DEF Accounts
    <3> QED  BY <3>2, <3>3
  <2> HIDE DEF start
  <2>2. PICK g \in [0 .. n -> Accounts] :
          /\ g[0] = start /\ \A m \in 0 .. n - 1 : g[m + 1] = AddEntries(g[m], vs[m + 1])
          /\ EntriesFold(start, vs) = g[n]
    <3> HIDE DEF fold
    <3>1. start \in Accounts /\ n \in Nat /\ vs \in [1 .. n -> DictValues]
      BY <1>2, <2>1
    <3> QED  BY <3>1, EntriesFolds
  <2>9. fold = g[n]
    BY <2>2
  <2> HIDE DEF fold
  <2> DEFINE T == {m \in Nat : Accounted(g[m], vs, m, start)}
  <2>3. 0 \in T
    <3>1. \A k \in 1 .. Keys : Written(vs, 0, k) = {}
      BY DEF Written
    <3>2. Accounted(start, vs, 0, start)
      BY <2>1, <3>1 DEF Accounted, Differ, Blank
    <3> QED  BY <2>2, <3>2
  <2>4. ASSUME NEW m \in 0 .. n - 1, m \in T PROVE m + 1 \in T
    <3>1. m \in 0 .. n /\ m + 1 \in Nat /\ g[m] \in Accounts /\ Accounted(g[m], vs, m, start)
      BY <1>2, <2>2, <2>4
    <3>2. Accounted(AddEntries(g[m], vs[m + 1]), vs, m + 1, start)
      BY <1>2, <2>1, <3>1, OneMoreDict
    <3> QED  BY <2>2, <3>1, <3>2
  <2>5. n \in T
    <3> HIDE DEF T
    <3> QED  BY <1>2, <2>3, <2>4, UpTo
  <2>6. Accounted(fold, vs, n, start) /\ fold \in Accounts
    BY <1>2, <2>2, <2>5, <2>9
  <2>7. fold.result \in Mappings
    BY <2>6 DEF Accounts
  <2>8. Merged(bs, n, vs, UnionDict(bs, vs))
    <3>1. CASE fold.clash
      BY <1>4, <1>7, <2>6, <3>1 DEF Merged, Accounted
    <3>2. CASE ~fold.clash
      <4>1. UnionDict(bs, vs) = DictOf(fold.result)
        BY <1>4, <1>7, <3>2
      <4>2. ~ \E k \in 1 .. Keys : Differ(Written(vs, n, k))
        BY <2>6, <3>2 DEF Accounted
      <4>3. \A k \in 1 .. Keys :
              IF Written(vs, n, k) # {} THEN fold.result[k] \in Written(vs, n, k)
              ELSE fold.result[k] = IF IsDict(bs) THEN bs.items[k] ELSE Absent
        BY <2>1, <2>6 DEF Accounted
      <4> QED  BY <2>7, <4>1, <4>2, <4>3 DEF Merged
    <3> QED  BY <3>1, <3>2
  <2> QED  BY <1>5, <1>7, <2>8
<1> QED  BY <1>6, <1>7

-----------------------------------------------------------------------------
(* The calls of the specification.                                         *)

FoldInv ==
  /\ reducer \in {"reject_conflict", "concat", "union"}
  /\ \E n \in Nat : IsCall(base, n, contributions)
  /\ folded \in {NoValue, ReduceField(reducer, base, contributions)}

LEMMA FoldInvHolds == FoldSpec => []FoldInv
<1>1. FoldInit => FoldInv
  <2>1. SUFFICES ASSUME FoldInit PROVE FoldInv
    OBVIOUS
  <2>2. reducer \in {"reject_conflict", "concat", "union"}
    BY <2>1 DEF FoldInit, ReducerKind
  <2>3. PICK n \in 1 .. MaxWriters : contributions \in [1 .. n -> Values]
    BY <2>1 DEF FoldInit
  <2>4. n \in Nat /\ IsCall(base, n, contributions)
    BY <2>1, <2>3, ValuesAssumption DEF FoldInit, IsCall
  <2> QED  BY <2>1, <2>2, <2>4 DEF FoldInit, FoldInv
<1>2. FoldInv /\ [Fold]_foldVars => FoldInv'
  BY DEF FoldInv, Fold, foldVars, IsCall
<1> QED  BY <1>1, <1>2, PTL DEF FoldSpec

\* What the state says of the call, in the terms of the lemmas above.
LEMMA CallOfState ==
  ASSUME FoldInv
  PROVE  \E n \in Nat \ {0} :
           /\ IsCall(base, n, contributions)
           /\ Dictionaries <=> \A i \in 1 .. n : IsDict(contributions[i])
           /\ ListsOnly <=> AllLists(base, n, contributions)
           /\ AllItems = Together(base.items, n, contributions)
           /\ \A k : Entries(k) = Written(contributions, n, k)
<1>1. PICK n \in Nat : IsCall(base, n, contributions)
  BY DEF FoldInv
<1>2. n \in Nat \ {0} /\ DOMAIN contributions = 1 .. n
  BY <1>1 DEF IsCall
<1>3. /\ Dictionaries <=> \A i \in 1 .. n : IsDict(contributions[i])
      /\ ListsOnly <=> AllLists(base, n, contributions)
  BY <1>2 DEF Dictionaries, ListsOnly, AllLists
<1>4. AllItems = Together(base.items, n, contributions)
  BY <1>2 DEF AllItems, Together
<1>5. \A k : Entries(k) = Written(contributions, n, k)
  BY <1>2 DEF Entries, Written
<1> QED  BY <1>1, <1>2, <1>3, <1>4, <1>5

LEMMA ConcatKeeps == FoldInv => ConcatKeepsAll
<1>1. SUFFICES ASSUME FoldInv, Returned("concat")
               PROVE  folded = IF ListsOnly THEN ListOf(AllItems) ELSE TypeError
  BY DEF ConcatKeepsAll
<1>2. folded = Concat(base, contributions)
  BY <1>1 DEF FoldInv, Returned, ReduceField
<1>3. PICK n \in Nat \ {0} :
        /\ IsCall(base, n, contributions)
        /\ ListsOnly <=> AllLists(base, n, contributions)
        /\ AllItems = Together(base.items, n, contributions)
  BY <1>1, CallOfState
<1>4. Concat(base, contributions) =
        IF AllLists(base, n, contributions) THEN ListOf(ConcatFold(base.items, contributions)) ELSE TypeError
  BY <1>3, ListKinds
<1>5. CASE AllLists(base, n, contributions)
  <2>1. base.items \in ItemLists /\ contributions \in [1 .. n -> ListValues] /\ n \in Nat
    BY <1>3, <1>5, CallsOnLists
  <2>2. PICK g : OneAfterTheOther(g, base.items, n, contributions) /\ ConcatFold(base.items, contributions) = g[n]
    BY <2>1, JoinedExists
  <2>3. AllItems = g[n]
    BY <1>3, <2>1, <2>2, TogetherIsTheLast
  <2> QED  BY <1>2, <1>3, <1>4, <1>5, <2>2, <2>3
<1>6. CASE ~AllLists(base, n, contributions)
  BY <1>2, <1>3, <1>4, <1>6
<1> QED  BY <1>5, <1>6

LEMMA ListsUnite == FoldInv => UnionOfLists
<1>1. SUFFICES ASSUME FoldInv, Returned("union"), ~Dictionaries PROVE UnionOfLists
  BY DEF UnionOfLists
<1>2. folded = Union(base, contributions)
  BY <1>1 DEF FoldInv, Returned, ReduceField
<1>3. PICK n \in Nat \ {0} :
        /\ IsCall(base, n, contributions)
        /\ Dictionaries <=> \A i \in 1 .. n : IsDict(contributions[i])
        /\ ListsOnly <=> AllLists(base, n, contributions)
        /\ AllItems = Together(base.items, n, contributions)
  BY <1>1, CallOfState
<1>4. folded = IF ListsOnly THEN ListOf(UnionFold(base.items, contributions)) ELSE TypeError
  BY <1>1, <1>2, <1>3, UnionKinds
<1>5. CASE ListsOnly
  <2> DEFINE r == UnionFold(base.items, contributions)
  <2>1. base.items \in ItemLists /\ contributions \in [1 .. n -> ListValues] /\ n \in Nat
    BY <1>3, <1>5, CallsOnLists
  <2>2. Covers(base.items, AllItems, r)
    BY <1>3, <2>1, UnionCovers
  <2>3. IsList(folded) /\ folded.items = r
    BY <1>4, <1>5 DEF ListOf, IsList
  <2> HIDE DEF r
  <2> QED  BY <1>5, <2>2, <2>3, CoveringIsUnion DEF UnionOfLists
<1>6. CASE ~ListsOnly
  BY <1>4, <1>6 DEF UnionOfLists
<1> QED  BY <1>5, <1>6

LEMMA DictsUnite == FoldInv => UnionOfDicts
<1>1. SUFFICES ASSUME FoldInv, Returned("union"), Dictionaries PROVE UnionOfDicts
  BY DEF UnionOfDicts
<1>2. folded = Union(base, contributions)
  BY <1>1 DEF FoldInv, Returned, ReduceField
<1>3. PICK n \in Nat \ {0} :
        /\ IsCall(base, n, contributions)
        /\ Dictionaries <=> \A i \in 1 .. n : IsDict(contributions[i])
        /\ \A k : Entries(k) = Written(contributions, n, k)
  BY <1>1, CallOfState
<1>4. folded = UnionDict(base, contributions)
  BY <1>1, <1>2, <1>3, UnionKinds
<1>5. IF base.tag \notin {"none", "dict"} THEN folded = TypeError ELSE Merged(base, n, contributions, folded)
  BY <1>1, <1>3, <1>4, UnionMerges
<1>6. \A k \in 1 .. Keys : Cardinality(Entries(k)) > 1 <=> Differ(Written(contributions, n, k))
  BY <1>3, TwoOrMore, WrittenIsFinite
<1>7. CASE base.tag \notin {"none", "dict"}
  BY <1>5, <1>7 DEF UnionOfDicts
<1>8. CASE ~(base.tag \notin {"none", "dict"})
  <2>1. Merged(base, n, contributions, folded)
    BY <1>5, <1>8
  <2>2. CASE \E k \in 1 .. Keys : Differ(Written(contributions, n, k))
    BY <1>6, <1>8, <2>1, <2>2 DEF UnionOfDicts, Merged
  <2>3. CASE ~ \E k \in 1 .. Keys : Differ(Written(contributions, n, k))
    <3>1. PICK f \in Mappings :
            /\ folded = DictOf(f)
            /\ \A k \in 1 .. Keys :
                 IF Written(contributions, n, k) # {} THEN f[k] \in Written(contributions, n, k)
                 ELSE f[k] = IF IsDict(base) THEN base.items[k] ELSE Absent
      BY <2>1, <2>3 DEF Merged
    <3>2. IsDict(folded) /\ folded.items = f
      BY <3>1 DEF IsDict, DictOf
    <3>3. ~ \E k \in 1 .. Keys : Cardinality(Entries(k)) > 1
      BY <1>6, <2>3
    <3>4. \A k \in 1 .. Keys :
            IF Entries(k) # {} THEN folded.items[k] \in Entries(k)
            ELSE folded.items[k] = IF IsDict(base) THEN base.items[k] ELSE Absent
      BY <1>3, <3>1, <3>2
    <3> QED  BY <1>8, <3>2, <3>3, <3>4 DEF UnionOfDicts
  <2> QED  BY <2>2, <2>3
<1> QED  BY <1>7, <1>8

\* Each kind of reducer returns what it means, for every base and any number
\* of contributions, and refuses exactly what it cannot fold: concat keeps
\* every item in branch order, union on lists keeps the base and adds each new
\* item once, union on dicts merges what the branches agree on
\* (reducers.py:56-161).
THEOREM FoldsMeanWhatTheySay == FoldSpec => []FoldsAreRight
<1>1. FoldInv => FoldsAreRight
  BY ConcatKeeps, ListsUnite, DictsUnite DEF FoldsAreRight
<1> QED  BY <1>1, FoldInvHolds, PTL

\* The same branches in the opposite order.
InReverse(n, vs, ws) ==
  \A i \in 1 .. n : n - i + 1 \in 1 .. n /\ ws[i] = vs[n - i + 1] /\ vs[i] = ws[n - i + 1]

LEMMA Mirrored ==
  ASSUME NEW bs, NEW n, NEW vs, IsCall(bs, n, vs)
  PROVE  IsCall(bs, n, Reverse(vs)) /\ InReverse(n, vs, Reverse(vs))
<1>1. n \in Nat \ {0} /\ vs \in [1 .. n -> Values] /\ vs \in Seq(Values)
  BY DEF IsCall
<1>2. Len(vs) = n
  BY <1>1
<1>3. Reverse(vs) = [i \in 1 .. n |-> vs[n - i + 1]]
  BY <1>2 DEF Reverse
<1>4. \A i \in 1 .. n : n - i + 1 \in 1 .. n /\ n - (n - i + 1) + 1 = i
  BY <1>1
<1>5. \A i \in 1 .. n : Reverse(vs)[i] = vs[n - i + 1]
  BY <1>3
<1>6. \A i \in 1 .. n : vs[i] = Reverse(vs)[n - i + 1]
  BY <1>4, <1>5
<1>7. Reverse(vs) \in [1 .. n -> Values]
  BY <1>1, <1>3, <1>4
<1>8. IsCall(bs, n, Reverse(vs))
  BY <1>7 DEF IsCall
<1> QED  BY <1>4, <1>5, <1>6, <1>8 DEF InReverse

\* A merge depends on what is written to each key only.
LEMMA MergesAreOne ==
  ASSUME NEW bs, NEW n, NEW vs, NEW ws, NEW r, NEW s, \A k : Written(vs, n, k) = Written(ws, n, k),
         Merged(bs, n, vs, r), Merged(bs, n, ws, s)
  PROVE  r = s /\ ~IsList(r)
<1>1. CASE \E k \in 1 .. Keys : Differ(Written(vs, n, k))
  BY <1>1 DEF Merged, Conflict, IsList
<1>2. CASE ~ \E k \in 1 .. Keys : Differ(Written(vs, n, k))
  <2>1. PICK f \in Mappings :
          /\ r = DictOf(f)
          /\ \A k \in 1 .. Keys : IF Written(vs, n, k) # {} THEN f[k] \in Written(vs, n, k)
                                  ELSE f[k] = IF IsDict(bs) THEN bs.items[k] ELSE Absent
    BY <1>2 DEF Merged
  <2>2. PICK g \in Mappings :
          /\ s = DictOf(g)
          /\ \A k \in 1 .. Keys : IF Written(vs, n, k) # {} THEN g[k] \in Written(vs, n, k)
                                  ELSE g[k] = IF IsDict(bs) THEN bs.items[k] ELSE Absent
    BY <1>2 DEF Merged
  <2>3. \A k \in 1 .. Keys : f[k] = g[k]
    BY <1>2, <2>1, <2>2 DEF Differ
  <2>4. f = g
    <3>1. f = [k \in 1 .. Keys |-> f[k]] /\ g = [k \in 1 .. Keys |-> g[k]]
      BY DEF Mappings
    <3> QED  BY <2>3, <3>1
  <2> QED  BY <2>1, <2>2, <2>4 DEF DictOf, IsList
<1> QED  BY <1>1, <1>2

LEMMA UnionIsMirrored ==
  ASSUME NEW bs, NEW n, NEW vs, IsCall(bs, n, vs)
  PROVE  LET r == Union(bs, vs)
             s == Union(bs, Reverse(vs))
         IN  IF IsList(r) THEN ToSet(s.items) = ToSet(r.items) ELSE s = r
<1> DEFINE ws == Reverse(vs)
<1>1. IsCall(bs, n, ws) /\ InReverse(n, vs, ws)
  BY Mirrored
<1> HIDE DEF ws
<1>2. \A i \in 1 .. n : n - i + 1 \in 1 .. n /\ ws[i] = vs[n - i + 1] /\ vs[i] = ws[n - i + 1]
  BY <1>1 DEF InReverse
<1>3. /\ (\A i \in 1 .. n : IsDict(vs[i])) <=> \A i \in 1 .. n : IsDict(ws[i])
      /\ AllLists(bs, n, vs) <=> AllLists(bs, n, ws)
  BY <1>2 DEF AllLists
<1>4. CASE \A i \in 1 .. n : IsDict(vs[i])
  <2>1. Union(bs, vs) = UnionDict(bs, vs) /\ Union(bs, ws) = UnionDict(bs, ws)
    BY <1>1, <1>3, <1>4, UnionKinds
  <2>2. CASE bs.tag \notin {"none", "dict"}
    <3>1. Union(bs, vs) = TypeError /\ Union(bs, ws) = TypeError
      BY <1>1, <1>3, <1>4, <2>1, <2>2, UnionMerges
    <3> QED  BY <3>1 DEF TypeError, IsList, ws
  <2>3. CASE ~(bs.tag \notin {"none", "dict"})
    <3>1. Merged(bs, n, vs, Union(bs, vs)) /\ Merged(bs, n, ws, Union(bs, ws))
      BY <1>1, <1>3, <1>4, <2>1, <2>3, UnionMerges
    <3>2. \A k : {vs[i].items[k] : i \in 1 .. n} = {ws[i].items[k] : i \in 1 .. n}
      BY <1>2
    <3>3. \A k : Written(vs, n, k) = Written(ws, n, k)
      BY <3>2 DEF Written
    <3>4. Union(bs, vs) = Union(bs, ws) /\ ~IsList(Union(bs, vs))
      BY <3>1, <3>3, MergesAreOne
    <3> QED  BY <3>4 DEF ws
  <2> QED  BY <2>2, <2>3
<1>5. CASE ~ \A i \in 1 .. n : IsDict(vs[i])
  <2>1. /\ Union(bs, vs) = IF AllLists(bs, n, vs) THEN ListOf(UnionFold(bs.items, vs)) ELSE TypeError
        /\ Union(bs, ws) = IF AllLists(bs, n, ws) THEN ListOf(UnionFold(bs.items, ws)) ELSE TypeError
    BY <1>1, <1>3, <1>5, UnionKinds
  <2>2. CASE AllLists(bs, n, vs)
    <3>1. /\ n \in Nat /\ bs.items \in ItemLists
          /\ vs \in [1 .. n -> ListValues] /\ ws \in [1 .. n -> ListValues]
      BY <1>1, <1>3, <2>2, CallsOnLists DEF IsCall
    <3>2. /\ ToSet(UnionFold(bs.items, vs)) = ToSet(Together(bs.items, n, vs))
          /\ ToSet(UnionFold(bs.items, ws)) = ToSet(Together(bs.items, n, ws))
      BY <3>1, UnionCovers, CoveringIsUnion
    <3>3. /\ ToSet(Together(bs.items, n, vs)) = ToSet(bs.items) \cup UNION {ToSet(vs[i].items) : i \in 1 .. n}
          /\ ToSet(Together(bs.items, n, ws)) = ToSet(bs.items) \cup UNION {ToSet(ws[i].items) : i \in 1 .. n}
      BY <3>1, TogetherHolds
    <3>4. {ToSet(vs[i].items) : i \in 1 .. n} = {ToSet(ws[i].items) : i \in 1 .. n}
      BY <1>2
    <3>5. /\ Union(bs, vs).items = UnionFold(bs.items, vs) /\ Union(bs, ws).items = UnionFold(bs.items, ws)
          /\ IsList(Union(bs, vs))
      BY <1>3, <2>1, <2>2 DEF ListOf, IsList
    <3> QED  BY <3>2, <3>3, <3>4, <3>5 DEF ws
  <2>3. CASE ~AllLists(bs, n, vs)
    <3>1. Union(bs, vs) = TypeError /\ Union(bs, ws) = TypeError
      BY <1>3, <2>1, <2>3
    <3> QED  BY <3>1 DEF TypeError, IsList, ws
  <2> QED  BY <2>2, <2>3
<1> QED  BY <1>4, <1>5

\* reject_conflict and union, which only accept agreement, do not care who is
\* first: in the opposite order the branches fold to the same value or are
\* refused alike, and a union of lists has the same members, for every base
\* and any number of branches (reducers.py:85-98, 127-161).
THEOREM OrderDoesNotMatter == FoldSpec => []OrderIndependence
<1>1. FoldInv => OrderIndependence
  <2>1. SUFFICES ASSUME FoldInv, folded # NoValue, reducer # "concat"
                 PROVE  LET mirrored == ReduceField(reducer, base, Reverse(contributions))
                        IN IF IsList(folded) THEN ToSet(mirrored.items) = ToSet(folded.items)
                           ELSE mirrored = folded
    BY DEF OrderIndependence
  <2>2. PICK n \in Nat : IsCall(base, n, contributions)
    BY <2>1 DEF FoldInv
  <2>3. folded = ReduceField(reducer, base, contributions)
    BY <2>1 DEF FoldInv
  <2>4. CASE reducer = "union"
    <3>1. folded = Union(base, contributions)
      BY <2>3, <2>4 DEF ReduceField
    <3>2. ReduceField(reducer, base, Reverse(contributions)) = Union(base, Reverse(contributions))
      BY <2>4 DEF ReduceField
    <3> QED  BY <2>2, <3>1, <3>2, UnionIsMirrored
  <2>5. CASE reducer = "reject_conflict"
    <3> DEFINE ws == Reverse(contributions)
    <3>1. folded = IF Agree(contributions) THEN contributions[1] ELSE Conflict
      BY <2>3, <2>5 DEF ReduceField
    <3>2. ReduceField(reducer, base, ws) = IF Agree(ws) THEN ws[1] ELSE Conflict
      BY <2>5 DEF ReduceField
    <3>8. IsCall(base, n, ws) /\ InReverse(n, contributions, ws)
      BY <2>2, Mirrored
    <3> HIDE DEF ws
    <3>3. \A i \in 1 .. n : n - i + 1 \in 1 .. n /\ ws[i] = contributions[n - i + 1] /\ contributions[i] = ws[n - i + 1]
      BY <3>8 DEF InReverse
    <3>4. DOMAIN contributions = 1 .. n /\ DOMAIN ws = 1 .. n /\ 1 \in 1 .. n
      BY <2>2, <3>8 DEF IsCall
    <3>5. Agree(contributions) <=> Agree(ws)
      BY <3>3, <3>4 DEF Agree
    <3>6. Agree(contributions) => ws[1] = contributions[1]
      BY <3>3, <3>4 DEF Agree
    <3>7. ReduceField(reducer, base, ws) = folded
      BY <3>1, <3>2, <3>5, <3>6
    <3> QED  BY <3>7 DEF ws
  <2> QED  BY <2>1, <2>4, <2>5 DEF FoldInv
<1> QED  BY <1>1, FoldInvHolds, PTL
=============================================================================
