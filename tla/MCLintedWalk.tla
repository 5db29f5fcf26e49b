---------------------------- MODULE MCLintedWalk ----------------------------
(***************************************************************************)
(* All graphs of a small shape for model checking LintedWalk: what each    *)
(* source registers is chosen independently.                               *)
(***************************************************************************)
EXTENDS LintedWalk

CONSTANTS MaxSteps

\* A registered edge: its description and what it does.
Option(kind, target, declared, targets) ==
  [kind |-> kind, target |-> target, declared |-> declared, targets |-> targets]
ToOne(t) == Option("static", t, {}, {t})
Routed(declared, targets) == Option("conditional", Nothing, declared, targets)
Forked(branches, then) == Option("fanout", then, branches, {then})
Absent == Option("absent", Nothing, {}, {END})

\* 1, 2 and 3 are nodes, 4 is not registered.
StartOptions == {Absent, ToOne(1), Routed({1, 3}, {1, 3}), Routed({}, {2, END}), ToOne(4)}
Options(n) ==
  {Absent, ToOne(END), ToOne(2), ToOne(3), Routed({1, END}, {1, END}), Routed({2}, {3, END}),
   Routed({}, {3, 4}), Forked({2, 3}, END), Forked({1, 3}, 2), Forked({2, 4}, 3)}

Registries ==
  {[n \in {START, 1, 2, 3} |-> CASE n = START -> s [] n = 1 -> a [] n = 2 -> b [] n = 3 -> c] :
     s \in StartOptions, a \in Options(1), b \in Options(2), c \in {Absent, ToOne(4), ToOne(2), Routed({1, END}, {1, END})}}

Written(ch) == {n \in DOMAIN ch : ch[n].kind # "absent"}
EdgeOf(ch, n) == [source |-> n, kind |-> ch[n].kind, target |-> ch[n].target, router |-> Nothing,
                  declared |-> ch[n].declared]
SpecOf(ch) ==
  Create("inferred", MaxSteps, <<[name |-> 1, ref |-> 5], [name |-> 2, ref |-> 5], [name |-> 3, ref |-> 5]>>,
         SetToSeq({EdgeOf(ch, n) : n \in Written(ch)}), <<>>, <<>>)
GraphOf(ch) ==
  [nodes |-> {1, 2, 3}, maxSteps |-> MaxSteps,
   edge |-> [n \in DOMAIN ch |->
               [kind |-> IF ch[n].kind = "absent" THEN "static" ELSE ch[n].kind,
                targets |-> ch[n].targets, branches |-> SetToSortSeq(ch[n].declared, <),
                join |-> "any", quorum |-> 0]]]

MCCases == {[spec |-> SpecOf(ch), graph |-> GraphOf(ch)] : ch \in Registries}
=============================================================================
