------------------------------ MODULE Reducers ------------------------------
(***************************************************************************)
(* The pure folds of graph/reducers.py.  A Python value is its tag and its *)
(* items: a list is its items in order, a dict is a tuple indexed by key   *)
(* number with Absent where a key is missing, anything else is one item.   *)
(***************************************************************************)
EXTENDS SequencesExt

Absent == "absent"
NoValue == [tag |-> "none", items |-> <<>>]
ListOf(items) == [tag |-> "list", items |-> items]
DictOf(items) == [tag |-> "dict", items |-> items]

\* The two ways a fold refuses: ReducerConflict and TypeError.
Conflict  == [tag |-> "conflict", items |-> <<>>]
TypeError == [tag |-> "type_error", items |-> <<>>]
Refused(v) == v.tag \in {"conflict", "type_error"}

ReducerKind == {"reject_conflict", "first", "last", "concat", "union", "custom"}

IsList(v) == v.tag = "list"
IsDict(v) == v.tag = "dict"

\* "base if base is not None else []"
AnyBase(base) == base
ListBase(base) == IF base = NoValue THEN ListOf(<<>>) ELSE base

FirstTwoAgree(values) == Len(values) = 1 \/ values[1] = values[2]
Agree(values) == \A i \in DOMAIN values : values[i] = values[1]

Concat(base, values) ==
  IF IsList(ListBase(base)) /\ \A i \in DOMAIN values : IsList(values[i])
  THEN ListOf(FoldLeft(LAMBDA acc, v : acc \o v.items, ListBase(base).items, values))
  ELSE TypeError

\* Append the items of a contribution that the result does not hold yet.
AddAll(items, new) == items \o new
AddNew(items, new) ==
  FoldLeft(LAMBDA acc, x : IF Contains(acc, x) THEN acc ELSE Append(acc, x), items, new)

UnionList(base, values) ==
  IF IsList(ListBase(base)) /\ \A i \in DOMAIN values : IsList(values[i])
  THEN ListOf(FoldLeft(LAMBDA acc, v : AddNew(acc, v.items), ListBase(base).items, values))
  ELSE TypeError

(***************************************************************************)
(* _union_dict folds the branches left to right.  written holds the first  *)
(* branch's item of every key; a later branch that disagrees with it       *)
(* raises, whatever the base holds.                                        *)
(***************************************************************************)
Overlay(under, over) ==
  [k \in DOMAIN over |-> IF over[k] # Absent THEN over[k]
                         ELSE IF k \in DOMAIN under THEN under[k] ELSE Absent]

Clash(written, over) ==
  \E k \in DOMAIN over : /\ k \in DOMAIN written
                         /\ Absent \notin {written[k], over[k]}
                         /\ written[k] # over[k]

AddLatest(acc, v) ==
  [written |-> v.items,
   result  |-> Overlay(acc.result, v.items),
   clash   |-> acc.clash \/ Clash(acc.written, v.items)]

AddEntries(acc, v) ==
  [written |-> Overlay(v.items, acc.written),
   result  |-> Overlay(acc.result, v.items),
   clash   |-> acc.clash \/ Clash(acc.written, v.items)]

UnionDict(base, values) ==
  LET blank == [k \in DOMAIN values[1].items |-> Absent]
      start == [written |-> blank, clash |-> FALSE,
                result |-> IF base = NoValue THEN blank ELSE base.items]
      last  == FoldLeft(AddEntries, start, values)
  IN IF base # NoValue /\ ~IsDict(base) THEN TypeError
     ELSE IF last.clash THEN Conflict
     ELSE DictOf(last.result)

UnionByFirst(base, values) ==
  IF IsDict(values[1]) THEN UnionDict(base, values) ELSE UnionList(base, values)

Union(base, values) ==
  CASE \A i \in DOMAIN values : IsDict(values[i])  -> UnionDict(base, values)
    [] \A i \in DOMAIN values : ~IsDict(values[i]) -> UnionList(base, values)
    [] OTHER                                       -> TypeError

\* A custom fold is opaque: its result is named by the inputs it is given.
Custom(base, values) == [tag |-> "custom", items |-> <<base, values>>]

(***************************************************************************)
(* reduce_field, for a nonempty sequence of contributed values.  A field   *)
(* without a declared reducer folds as reject_conflict (DEFAULT_REDUCER).  *)
(***************************************************************************)
ReduceField(kind, base, values) ==
  CASE kind = "first"  -> values[1]
    [] kind = "last"   -> values[Len(values)]
    [] kind = "concat" -> Concat(base, values)
    [] kind = "union"  -> Union(base, values)
    [] kind = "custom" -> Custom(base, values)
    [] OTHER           -> IF Agree(values) THEN values[1] ELSE Conflict
=============================================================================
