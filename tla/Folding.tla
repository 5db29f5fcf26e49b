------------------------------ MODULE Folding ------------------------------
(***************************************************************************)
(* reduce_field against independent definitions of what each kind means.   *)
(* A state is one call: folded is NoValue until it has returned.           *)
(***************************************************************************)
EXTENDS Reducers

CONSTANTS
  Items,      \* what lists hold and dicts map to
  Keys,       \* the number of keys a dict may have
  Lists, Dicts, Atoms,
  MaxWriters

ASSUME ValuesAssumption ==
  /\ Absent \notin Items /\ Keys \in Nat /\ MaxWriters \in Nat
  /\ Lists \subseteq Seq(Items) /\ Dicts \subseteq [1 .. Keys -> Items \cup {Absent}]

VARIABLES reducer, base, contributions, folded

foldVars == <<reducer, base, contributions, folded>>

Values == {ListOf(x) : x \in Lists} \cup {DictOf(x) : x \in Dicts}
          \cup {[tag |-> "atom", items |-> x] : x \in Atoms}

FoldInit ==
  /\ reducer \in ReducerKind \ {"custom", "first", "last"}
  /\ base \in Values \cup {NoValue}
  /\ \E n \in 1 .. MaxWriters : contributions \in [1 .. n -> Values]
  /\ folded = NoValue

Fold ==
  /\ folded = NoValue
  /\ folded' = ReduceField(reducer, base, contributions)
  /\ UNCHANGED <<reducer, base, contributions>>

FoldSpec == FoldInit /\ [][Fold]_foldVars

-----------------------------------------------------------------------------
Returned(kind) == reducer = kind /\ folded # NoValue

Dictionaries == \A i \in DOMAIN contributions : IsDict(contributions[i])
ListsOnly ==
  /\ base = NoValue \/ IsList(base)
  /\ \A i \in DOMAIN contributions : IsList(contributions[i])

\* The items of the base and of every contribution, one after the other.
AllItems == FlattenSeq(<<base.items>> \o [i \in DOMAIN contributions |-> contributions[i].items])

Entries(k) == {contributions[i].items[k] : i \in DOMAIN contributions} \ {Absent}

\* union on dicts refuses exactly when two branches give one key different
\* items, however far apart; the base is overridden by what was written and
\* otherwise kept (reducers.py:141-161).
UnionOfDicts ==
  Returned("union") /\ Dictionaries =>
    IF base.tag \notin {"none", "dict"} THEN folded = TypeError
    ELSE IF \E k \in 1 .. Keys : Cardinality(Entries(k)) > 1 THEN folded = Conflict
    ELSE /\ IsDict(folded)
         /\ \A k \in 1 .. Keys :
              IF Entries(k) # {} THEN folded.items[k] \in Entries(k)
              ELSE folded.items[k] = IF IsDict(base) THEN base.items[k] ELSE Absent

\* union on lists is the base as it is, then each new item once, at its first
\* occurrence (reducers.py:127-137); any other mix of values is refused.
UnionOfLists ==
  Returned("union") /\ ~Dictionaries =>
    IF ~ListsOnly THEN folded = TypeError
    ELSE /\ IsList(folded)
         /\ ToSet(folded.items) = ToSet(AllItems)
         /\ IsPrefix(base.items, folded.items)
         /\ \A i, j \in DOMAIN folded.items :
              i < j /\ j > Len(base.items) =>
                /\ folded.items[i] # folded.items[j]
                /\ \E m \in DOMAIN AllItems :
                     /\ AllItems[m] = folded.items[i]
                     /\ \A n \in 1 .. m : AllItems[n] # folded.items[j]

\* concat keeps everything, in branch order (reducers.py:120-124).
ConcatKeepsAll ==
  Returned("concat") =>
    folded = IF ListsOnly THEN ListOf(AllItems) ELSE TypeError

\* Each kind returns what it means, for every base and contributions, and
\* refuses what it cannot fold.
FoldsAreRight == UnionOfDicts /\ UnionOfLists /\ ConcatKeepsAll

\* The kinds that only accept agreement do not care who is first: reversing
\* the branches changes neither a refusal nor the value (a list union keeps
\* its members).
OrderIndependence ==
  \/ folded = NoValue
  \/ reducer = "concat"
  \/ LET mirrored == ReduceField(reducer, base, Reverse(contributions))
     IN IF IsList(folded) THEN ToSet(mirrored.items) = ToSet(folded.items)
        ELSE mirrored = folded
=============================================================================
