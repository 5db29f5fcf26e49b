--------------------------- MODULE SessionsProofs ---------------------------
(***************************************************************************)
(* Proofs about module Sessions, for any graphs, nested to any depth, any  *)
(* keys and any number of invocations: what an invocation returns is true  *)
(* of the nodes that ran, of its end and of the row it leaves, and a       *)
(* question that was answered is not asked again.                          *)
(***************************************************************************)
EXTENDS Sessions, SequenceTheorems, TLAPS

Places == (DOMAIN code) \X (Nat \ {0})
NodesOf(g) == {n \in ToSet(code[g]) : n.does # "run"}
AllKeys == Keys \cup UNION {{n.key : n \in NodesOf(g)} : g \in DOMAIN code}
Pads == UNION {[K -> {"node", "caller"}] : K \in SUBSET AllKeys}
States == [pad : Pads, status : {"idle", "interrupted", "done"}, prompt : Places \cup {Nowhere},
           visited : Seq(Places)]
Frames == [graph : DOMAIN code, at : Nat \ {0}, state : States]

TypeInv ==
  /\ code \in Codes
  /\ stack \in Seq(Frames)
  /\ held \in States /\ row \in States /\ input \in States
  /\ log \in Seq(Places) /\ own \in Seq(Nat)
  /\ stack # <<>> <=> outcome = "running"

\* The state the session is in: that of the innermost graph, or the caller's.
Current == IF stack # <<>> THEN Top.state ELSE held

-----------------------------------------------------------------------------
\* Scratchpads stay scratchpads when they are updated.
LEMMA PadsUpdate ==
  ASSUME NEW p \in Pads, NEW q \in Pads
  PROVE  Updated(p, q) \in Pads /\ DOMAIN Updated(p, q) = DOMAIN p \cup DOMAIN q
<1>1. PICK K \in SUBSET AllKeys : p \in [K -> {"node", "caller"}]
  BY DEF Pads
<1>2. PICK L \in SUBSET AllKeys : q \in [L -> {"node", "caller"}]
  BY DEF Pads
<1>3. Updated(p, q) \in [K \cup L -> {"node", "caller"}]
  BY <1>1, <1>2 DEF Updated
<1>4. K \cup L \in SUBSET AllKeys
  OBVIOUS
<1> QED  BY <1>1, <1>2, <1>3, <1>4 DEF Pads

LEMMA PadsExist ==
  /\ <<>> \in Pads
  /\ \A k \in AllKeys, v \in {"node", "caller"} : Pair(k, v) \in Pads
  /\ \A K \in SUBSET AllKeys : [k \in K |-> "caller"] \in Pads
<1>1. <<>> \in [{} -> {"node", "caller"}]
  OBVIOUS
<1>2. ASSUME NEW k \in AllKeys, NEW v \in {"node", "caller"} PROVE Pair(k, v) \in Pads
  <2>1. Pair(k, v) \in [{k} -> {"node", "caller"}] /\ {k} \in SUBSET AllKeys
    BY DEF Pair
  <2> QED  BY <2>1 DEF Pads
<1>3. ASSUME NEW K \in SUBSET AllKeys PROVE [k \in K |-> "caller"] \in Pads
  <2>1. [k \in K |-> "caller"] \in [K -> {"node", "caller"}]
    OBVIOUS
  <2> QED  BY <2>1 DEF Pads
<1> QED  BY <1>1, <1>2, <1>3 DEF Pads

\* The outermost frame is one of those below another.
LEMMA FirstIsBelow ==
  \A n \in Nat \ {0} : n # 1 => 1 \in 1 .. n - 1 /\ (n # 2 => 1 \in 1 .. n - 2)
  OBVIOUS

\* All but the last.
LEMMA FrontShape ==
  ASSUME NEW S, NEW s \in Seq(S), s # <<>>
  PROVE  /\ Front(s) \in Seq(S) /\ Len(Front(s)) = Len(s) - 1
         /\ \A i \in 1 .. Len(s) - 1 : Front(s)[i] = s[i]
<1>1. Len(s) \in Nat \ {0} /\ \A i \in 1 .. Len(s) - 1 : s[i] \in S
  OBVIOUS
<1>2. /\ SubSeq(s, 1, Len(s) - 1) \in Seq(S)
      /\ Len(SubSeq(s, 1, Len(s) - 1)) = IF 1 <= Len(s) - 1 THEN Len(s) - 1 - 1 + 1 ELSE 0
      /\ \A i \in 1 .. Len(s) - 1 - 1 + 1 : SubSeq(s, 1, Len(s) - 1)[i] = s[1 + i - 1]
  BY <1>1, SubSeqProperties
<1> DEFINE t == SubSeq(s, 1, Len(s) - 1)
           n == Len(s) - 1
<1>3. n \in Nat /\ t \in Seq(S) /\ Len(t) = n
  <2>1. n \in Nat
    BY <1>1
  <2>2. (IF 1 <= n THEN n - 1 + 1 ELSE 0) = n
    <3> HIDE DEF n
    <3> QED  BY <2>1
  <2>3. t \in Seq(S) /\ Len(t) = IF 1 <= n THEN n - 1 + 1 ELSE 0
    BY <1>2, Zenon
  <2> HIDE DEF n, t
  <2> QED  BY <2>1, <2>2, <2>3
<1>4. ASSUME NEW i \in 1 .. n PROVE t[i] = s[i]
  <2>1. i \in 1 .. n - 1 + 1 /\ 1 + i - 1 = i
    BY <1>3
  <2> QED  BY <1>2, <2>1
<1> QED  BY <1>3, <1>4 DEF Front

\* The innermost invocation and those around it.
LEMMA StackShape ==
  ASSUME TypeInv, stack # <<>>
  PROVE  /\ Len(stack) \in Nat \ {0} /\ Top = stack[Len(stack)] /\ Top \in Frames
         /\ Below \in Seq(Frames) /\ Len(Below) = Len(stack) - 1
         /\ \A i \in 1 .. Len(stack) - 1 : Below[i] = stack[i]
         /\ Below = <<>> <=> Len(stack) = 1
<1>1. stack \in Seq(Frames) /\ Len(stack) \in Nat \ {0}
  BY DEF TypeInv
<1>2. Top = stack[Len(stack)] /\ Top \in Frames
  BY <1>1 DEF Top, Last
<1>3. /\ Below \in Seq(Frames) /\ Len(Below) = Len(stack) - 1
      /\ \A i \in 1 .. Len(stack) - 1 : Below[i] = stack[i]
  BY <1>1, FrontShape DEF Below
<1> QED  BY <1>1, <1>2, <1>3

\* A commit: the frame moves on with its new state.
LEMMA PublishEffect ==
  ASSUME NEW below \in Seq(Frames), NEW f \in Frames, NEW s \in States, Publish(below, f, s)
  PROVE  /\ stack' \in Seq(Frames) /\ Len(stack') = Len(below) + 1
         /\ \A i \in 1 .. Len(below) : stack'[i] = below[i]
         /\ LET g == stack'[Len(below) + 1]
            IN  g.graph = f.graph /\ g.at = f.at + 1 /\ g.state = s
         /\ below = <<>> => row' = s /\ saved' = answered' /\ unsaved' = {}
         /\ below # <<>> => UNCHANGED <<row, saved, unsaved>>
<1> DEFINE g == [f EXCEPT !.state = s, !.at = @ + 1]
<1>1. g = [graph |-> f.graph, at |-> f.at + 1, state |-> s] /\ g \in Frames
  <2>1. /\ f = [graph |-> f.graph, at |-> f.at, state |-> f.state]
        /\ f.graph \in DOMAIN code /\ f.at \in Nat \ {0}
    BY DEF Frames
  <2>2. DOMAIN g = {"graph", "at", "state"} /\ g.graph = f.graph /\ g.at = f.at + 1 /\ g.state = s
    BY <2>1
  <2>3. g = [x \in {"graph", "at", "state"} |-> g[x]]
    BY <2>2
  <2>4. g = [graph |-> f.graph, at |-> f.at + 1, state |-> s]
    <3> HIDE DEF g
    <3> QED  BY <2>2, <2>3
  <2> QED  BY <2>1, <2>4 DEF Frames
<1>2. stack' = Append(below, g)
  BY DEF Publish
<1>3. /\ stack' \in Seq(Frames) /\ Len(stack') = Len(below) + 1
      /\ \A i \in 1 .. Len(below) : stack'[i] = below[i]
      /\ stack'[Len(below) + 1] = g
  <2> HIDE DEF g
  <2> QED  BY <1>1, <1>2
<1> QED  BY <1>1, <1>3 DEF Publish, Stored

\* The end of a run: the caller has its state, or the node around it commits it.
LEMMA ReturnEffect ==
  ASSUME TypeInv, stack # <<>>, NEW s \in States, Return(s)
  PROVE  /\ Len(stack) = 1 => /\ stack' = <<>> /\ held' = s /\ outcome' = "returned"
                              /\ UNCHANGED <<row, saved, unsaved>>
         /\ Len(stack) # 1 =>
              /\ UNCHANGED <<held, outcome>>
              /\ stack' \in Seq(Frames) /\ Len(stack') = Len(stack) - 1
              /\ \A i \in 1 .. Len(stack) - 2 : stack'[i] = stack[i]
              /\ LET f == stack[Len(stack) - 1]
                     g == stack'[Len(stack) - 1]
                 IN  g.graph = f.graph /\ g.at = f.at + 1 /\ g.state = s
              /\ Len(stack) = 2 => row' = s /\ saved' = answered' /\ unsaved' = {}
              /\ Len(stack) # 2 => UNCHANGED <<row, saved, unsaved>>
<1>1. CASE Len(stack) = 1
  BY <1>1, StackShape DEF Return
<1>2. CASE Len(stack) # 1
  <2>1. Below # <<>> /\ Len(Below) = Len(stack) - 1 /\ Below \in Seq(Frames) /\ Len(stack) \in Nat
    BY <1>2, StackShape
  <2>2. Publish(Front(Below), Last(Below), s) /\ UNCHANGED <<held, outcome>>
    BY <2>1 DEF Return, ModelDump
  <2>3. /\ Front(Below) \in Seq(Frames) /\ Len(Front(Below)) = Len(stack) - 2
        /\ \A i \in 1 .. Len(stack) - 2 : Front(Below)[i] = Below[i]
        /\ Last(Below) = Below[Len(stack) - 1] /\ Last(Below) \in Frames
    BY <2>1 DEF Front, Last
  <2>4. \A i \in 1 .. Len(stack) - 1 : Below[i] = stack[i]
    BY StackShape
  <2>5. Last(Below) = stack[Len(stack) - 1] /\ \A i \in 1 .. Len(stack) - 2 : Front(Below)[i] = stack[i]
    BY <1>2, <2>1, <2>3, <2>4
  <2>6. Front(Below) = <<>> <=> Len(stack) = 2
    BY <2>3
  <2>7. /\ stack' \in Seq(Frames) /\ Len(stack') = Len(stack) - 2 + 1
        /\ \A i \in 1 .. Len(stack) - 2 : stack'[i] = Front(Below)[i]
        /\ stack'[Len(stack) - 2 + 1].graph = Last(Below).graph
        /\ stack'[Len(stack) - 2 + 1].at = Last(Below).at + 1
        /\ stack'[Len(stack) - 2 + 1].state = s
        /\ Front(Below) = <<>> => row' = s /\ saved' = answered' /\ unsaved' = {}
        /\ Front(Below) # <<>> => UNCHANGED <<row, saved, unsaved>>
    BY <2>2, <2>3, PublishEffect
  <2>8. Len(stack) - 2 + 1 = Len(stack) - 1
    BY <2>1
  <2> QED  BY <1>2, <2>2, <2>5, <2>6, <2>7, <2>8
<1> QED  BY <1>1, <1>2

-----------------------------------------------------------------------------
\* A node is entered: what Visited and Here make of the innermost frame.
LEMMA VisitedState ==
  ASSUME TypeInv, stack # <<>>
  PROVE  /\ Here(Top) \in Places
         /\ Visited(Top) = [pad |-> Top.state.pad, status |-> Top.state.status,
                            prompt |-> Top.state.prompt,
                            visited |-> Append(Top.state.visited, Here(Top))]
         /\ Visited(Top) \in States
<1>1. Top \in Frames
  BY StackShape
<1>2. Top.graph \in DOMAIN code /\ Top.at \in Nat \ {0} /\ Top.state \in States
  BY <1>1 DEF Frames
<1>3. Here(Top) \in Places
  BY <1>2 DEF Here, Places
<1>4. Append(Top.state.visited, Here(Top)) \in Seq(Places)
  BY <1>2, <1>3 DEF States
<1> DEFINE v == Append(Top.state.visited, Here(Top))
<1>5. Visited(Top) = [Top.state EXCEPT !.visited = v]
  BY DEF Visited
<1>6. Visited(Top) = [pad |-> Top.state.pad, status |-> Top.state.status,
                      prompt |-> Top.state.prompt, visited |-> v]
  <2> HIDE DEF v
  <2> QED  BY <1>2, <1>5 DEF States
<1> QED  BY <1>2, <1>3, <1>4, <1>6 DEF States

\* Entering a node lengthens the log, and the list of the outermost's places.
LEMMA EnterEffect ==
  ASSUME TypeInv, stack # <<>>, Enter
  PROVE  /\ log' \in Seq(Places) /\ Len(log') = Len(log) + 1 /\ log' = Append(log, Here(Top))
         /\ log'[Len(log) + 1] = Here(Top)
         /\ \A i \in 1 .. Len(log) : log'[i] = log[i]
         /\ own' \in Seq(Nat)
         /\ Len(stack) = 1 => own' = Append(own, Len(log) + 1)
         /\ Len(stack) # 1 => own' = own
<1>1. log \in Seq(Places) /\ own \in Seq(Nat) /\ Here(Top) \in Places /\ log' = Append(log, Here(Top))
  BY VisitedState DEF TypeInv, Enter
<1>2. /\ log' \in Seq(Places) /\ Len(log') = Len(log) + 1 /\ log'[Len(log) + 1] = Here(Top)
      /\ \A i \in 1 .. Len(log) : log'[i] = log[i]
  BY <1>1
<1>3. own' = IF Len(stack) = 1 THEN Append(own, Len(log) + 1) ELSE own
  BY <1>2, StackShape DEF Enter
<1>4. Len(log) + 1 \in Nat
  BY <1>1
<1> QED  BY <1>1, <1>2, <1>3, <1>4

\* The four ways in which an invocation goes on, and what the state becomes.
Commits(s) ==   \* the innermost frame has passed its node
  /\ Publish(Below, Top, s) /\ UNCHANGED <<code, held, outcome, runs, input>> /\ Enter
Ends(s) ==      \* the innermost run is over
  /\ Return(s) /\ answered' = answered /\ UNCHANGED <<code, runs, input>>

\* A published state is one of the states.
LEMMA CommitKeepsType == ASSUME TypeInv, stack # <<>>, NEW s \in States, Commits(s) PROVE TypeInv'
<1>1. /\ stack' \in Seq(Frames) /\ Len(stack') = Len(Below) + 1
      /\ row' = s \/ row' = row
  <2>1. Below \in Seq(Frames) /\ Top \in Frames /\ Publish(Below, Top, s)
    BY StackShape DEF Commits
  <2> QED  BY <2>1, PublishEffect
<1>2. stack' # <<>>
  BY <1>1, StackShape
<1>3. /\ UNCHANGED <<code, held, outcome, input>> /\ Frames' = Frames /\ States' = States /\ Places' = Places
      /\ log' \in Seq(Places) /\ own' \in Seq(Nat)
  BY EnterEffect DEF Commits, Frames, States, Places, Pads, AllKeys, NodesOf
<1> QED  BY <1>1, <1>2, <1>3 DEF TypeInv

\* So is the one with which a graph ends.
LEMMA EndKeepsType ==
  ASSUME TypeInv, stack # <<>>, NEW s \in States, Ends(s), log' \in Seq(Places), own' \in Seq(Nat)
  PROVE  TypeInv'
<1>1. UNCHANGED <<code, input>> /\ Frames' = Frames /\ States' = States /\ Places' = Places
  BY DEF Ends, Frames, States, Places, Pads, AllKeys, NodesOf
<1>2. Return(s) /\ Len(stack) \in Nat \ {0}
  BY StackShape DEF Ends
<1>3. CASE Len(stack) = 1
  <2>1. stack' = <<>> /\ held' = s /\ outcome' = "returned" /\ row' = row
    BY <1>2, <1>3, ReturnEffect
  <2> QED  BY <1>1, <2>1 DEF TypeInv
<1>4. CASE Len(stack) # 1
  <2>1. UNCHANGED <<held, outcome>> /\ stack' \in Seq(Frames) /\ Len(stack') = Len(stack) - 1
        /\ (row' = s \/ row' = row)
    BY <1>2, <1>4, ReturnEffect
  <2>2. stack' # <<>>
    BY <1>2, <1>4, <2>1
  <2> QED  BY <1>1, <2>1, <2>2 DEF TypeInv
<1> QED  BY <1>3, <1>4

\* Each action of an invocation is one of them, or the start of a nested run.
Written == [Visited(Top) EXCEPT !.pad = Updated(IF Node.keeps THEN Visited(Top).pad ELSE <<>>,
                                                Pair(Node.key, "node"))]
Asked == [Visited(Top) EXCEPT !.status = "interrupted", !.prompt = Here(Top)]

\* What a node that writes publishes.
LEMMA WriteEffect ==
  ASSUME TypeInv, Write
  PROVE  /\ Written \in States /\ Commits(Written)
         /\ Written.visited = Visited(Top).visited
         /\ Node.keeps => DOMAIN Written.pad = DOMAIN Top.state.pad \cup {Node.key}
<1>1. stack # <<>> /\ Top.at \in DOMAIN code[Top.graph] /\ Top \in Frames /\ Node.does = "write"
  BY StackShape DEF Write, Ready, Node
<1>2. Top.graph \in DOMAIN code /\ Top.state \in States
  BY <1>1 DEF Frames
<1>3. Node.key \in AllKeys
  <2>1. code[Top.graph] \in Seq(ToSet(code[Top.graph]))
    BY <1>2, CodesAssumption DEF TypeInv
  <2>2. Node \in NodesOf(Top.graph)
    BY <1>1, <2>1 DEF Node, NodesOf, ToSet
  <2> QED  BY <1>2, <2>2 DEF AllKeys
<1> DEFINE q == IF Node.keeps THEN Visited(Top).pad ELSE <<>>
           p == Updated(q, Pair(Node.key, "node"))
<1>4. q \in Pads /\ Pair(Node.key, "node") \in Pads
  BY <1>1, <1>3, PadsExist, VisitedState DEF States
<1>5. p \in Pads /\ DOMAIN p = DOMAIN q \cup {Node.key}
  <2>1. DOMAIN Pair(Node.key, "node") = {Node.key}
    BY DEF Pair
  <2> HIDE DEF q
  <2> QED  BY <1>4, <2>1, PadsUpdate
<1>6. Node.keeps => q = Top.state.pad
  BY <1>1, VisitedState
<1>7. Written = [pad |-> p, status |-> Top.state.status, prompt |-> Top.state.prompt,
                 visited |-> Visited(Top).visited]
  <2>1. Written = [Visited(Top) EXCEPT !.pad = p]
    BY DEF Written
  <2> HIDE DEF p
  <2> QED  BY <1>1, <2>1, VisitedState
<1>8. Written \in States
  <2> HIDE DEF p
  <2> QED  BY <1>1, <1>2, <1>5, <1>7, VisitedState DEF States
<1>9. Commits(Written)
  BY DEF Write, Commits, Written
<1> QED  BY <1>5, <1>6, <1>7, <1>8, <1>9

\* What a node that asks publishes.
LEMMA AskedState ==
  ASSUME TypeInv, stack # <<>>
  PROVE  /\ Asked = [pad |-> Top.state.pad, status |-> "interrupted", prompt |-> Here(Top),
                     visited |-> Visited(Top).visited]
         /\ Asked \in States
<1>1. Asked = [pad |-> Top.state.pad, status |-> "interrupted", prompt |-> Here(Top),
               visited |-> Visited(Top).visited]
  <2> DEFINE h == Here(Top)
  <2>1. Asked = [Visited(Top) EXCEPT !.status = "interrupted", !.prompt = h]
    BY DEF Asked
  <2> HIDE DEF h
  <2>2. /\ DOMAIN Asked = {"pad", "status", "prompt", "visited"}
        /\ Asked.pad = Top.state.pad /\ Asked.status = "interrupted" /\ Asked.prompt = h
        /\ Asked.visited = Visited(Top).visited
    BY <2>1, VisitedState
  <2>3. Asked = [x \in {"pad", "status", "prompt", "visited"} |-> Asked[x]]
    BY <2>1, <2>2
  <2> QED  BY <2>2, <2>3 DEF h
<1> QED  BY <1>1, VisitedState DEF States

\* What a tool node publishes when it is done.
LEMMA DoneState ==
  ASSUME NEW s \in States
  PROVE  /\ Done(s) = [pad |-> s.pad, status |-> "done", prompt |-> s.prompt, visited |-> s.visited]
         /\ Done(s) \in States
  BY DEF Done, States

\* A node that runs a graph: one frame more, with the state it was entered with.
LEMMA RunEffect ==
  ASSUME TypeInv, RunGraph
  PROVE  /\ stack # <<>> /\ stack' \in Seq(Frames) /\ Len(stack') = Len(stack) + 1
         /\ \A i \in 1 .. Len(stack) - 1 : stack'[i] = stack[i]
         /\ LET f == stack'[Len(stack)]
            IN  f.graph = Top.graph /\ f.at = Top.at /\ f.state = Visited(Top)
         /\ stack'[Len(stack) + 1].state = Visited(Top)
<1>1. /\ stack # <<>> /\ Top.at \in DOMAIN code[Top.graph] /\ Top \in Frames
      /\ code[Top.graph][Top.at].does = "run"
  BY StackShape DEF RunGraph, Ready
<1>2. Node.graph \in DOMAIN code
  BY <1>1, CodesAssumption DEF TypeInv, Frames, Node
<1> DEFINE f == [Top EXCEPT !.state = Visited(Top)]
           g == Frame(Node.graph, f.state)
<1>3. f.graph = Top.graph /\ f.at = Top.at /\ f.state = Visited(Top) /\ f \in Frames
  <2> DEFINE v == Visited(Top)
  <2>1. v \in States
    BY <1>1, VisitedState
  <2> HIDE DEF v
  <2>2. [Top EXCEPT !.state = v] = [graph |-> Top.graph, at |-> Top.at, state |-> v]
    BY <1>1 DEF Frames
  <2> QED  BY <1>1, <2>1, <2>2 DEF v, Frames
<1>4. g.state = Visited(Top) /\ g \in Frames
  BY <1>1, <1>2, <1>3, VisitedState DEF Frame, Frames
<1>5. stack' = Below \o <<f, g>>
  BY DEF RunGraph
<1>6. /\ Below \in Seq(Frames) /\ Len(Below) = Len(stack) - 1 /\ Len(stack) \in Nat \ {0}
      /\ \A i \in 1 .. Len(stack) - 1 : Below[i] = stack[i]
  BY <1>1, StackShape
<1> HIDE DEF f, g
<1>7. <<f, g>> \in Seq(Frames) /\ Len(<<f, g>>) = 2 /\ <<f, g>>[1] = f /\ <<f, g>>[2] = g
  BY <1>3, <1>4
<1>8. /\ stack' \in Seq(Frames) /\ Len(stack') = Len(stack) - 1 + 2
      /\ \A i \in 1 .. Len(stack) - 1 + 2 :
           stack'[i] = IF i <= Len(stack) - 1 THEN Below[i] ELSE <<f, g>>[i - (Len(stack) - 1)]
  BY <1>5, <1>6, <1>7, ConcatProperties
<1>9. /\ Len(stack) - 1 + 2 = Len(stack) + 1
      /\ Len(stack) \in 1 .. Len(stack) + 1 /\ Len(stack) + 1 \in 1 .. Len(stack) + 1
      /\ ~(Len(stack) <= Len(stack) - 1) /\ ~(Len(stack) + 1 <= Len(stack) - 1)
      /\ Len(stack) - (Len(stack) - 1) = 1 /\ Len(stack) + 1 - (Len(stack) - 1) = 2
      /\ \A i \in 1 .. Len(stack) - 1 : i \in 1 .. Len(stack) + 1 /\ i <= Len(stack) - 1
  BY <1>6
<1>10. stack'[Len(stack)] = f /\ stack'[Len(stack) + 1] = g
  BY <1>7, <1>8, <1>9
<1>11. \A i \in 1 .. Len(stack) - 1 : stack'[i] = stack[i]
  BY <1>6, <1>8, <1>9
<1> QED  BY <1>1, <1>3, <1>4, <1>8, <1>9, <1>10, <1>11

\* An invocation begins with one frame.
LEMMA InvokeEffect ==
  ASSUME TypeInv, NEW s \in States, NEW given, Invoke(s, given)
  PROVE  /\ stack' \in Seq(Frames) /\ Len(stack') = 1
         /\ stack'[1].graph = Root /\ stack'[1].at = 1 /\ stack'[1].state = s
<1> DEFINE f == Frame(Root, s)
<1>1. f \in Frames /\ f.graph = Root /\ f.at = 1 /\ f.state = s
  BY CodesAssumption DEF Frame, Frames, TypeInv
<1>2. stack' = <<f>>
  BY DEF Invoke
<1> HIDE DEF f
<1> QED  BY <1>1, <1>2

\* The three ways to begin one, with more in the scratchpad than there was.
Begins(s, given) ==
  /\ s \in States /\ Invoke(s, given)
  /\ s.visited = held.visited
  /\ given \subseteq DOMAIN s.pad /\ DOMAIN held.pad \subseteq DOMAIN s.pad
  /\ \A k \in DOMAIN s.pad : k \notin given => k \in DOMAIN held.pad /\ s.pad[k] = held.pad[k]

\* A scratchpad that is taken over is one.
LEMMA PadTaken ==
  ASSUME TypeInv, NEW p \in Pads
  PROVE  /\ [held EXCEPT !.pad = p] \in States
         /\ [held EXCEPT !.pad = p].visited = held.visited /\ [held EXCEPT !.pad = p].pad = p
<1>1. held \in States
  BY DEF TypeInv
<1>2. [held EXCEPT !.pad = p] = [pad |-> p, status |-> held.status, prompt |-> held.prompt,
                                 visited |-> held.visited]
  BY <1>1 DEF States
<1> QED  BY <1>1, <1>2 DEF States

LEMMA Beginnings ==
  ASSUME TypeInv, Start \/ ResumeMerge \/ ResumeDrop
  PROVE  \E s, given : Begins(s, given)
<1>1. held \in States /\ held.pad \in Pads
  BY DEF TypeInv, States
<1>2. CASE Start
  <2>1. Begins(held, {})
    BY <1>1, <1>2 DEF Start, Begins
  <2> QED  BY <2>1
<1>3. CASE ResumeMerge
  <2>1. PICK K \in SUBSET Keys : Invoke([held EXCEPT !.pad = Updated(held.pad, [k \in K |-> "caller"])], K)
    BY <1>3 DEF ResumeMerge
  <2> DEFINE q == [k \in K |-> "caller"]
             p == Updated(held.pad, q)
             s == [held EXCEPT !.pad = p]
  <2>2. q \in Pads /\ DOMAIN q = K
    <3>1. K \in SUBSET AllKeys
      BY DEF AllKeys
    <3> QED  BY <3>1, PadsExist
  <2>3. p \in Pads /\ DOMAIN p = DOMAIN held.pad \cup K
    <3> HIDE DEF q
    <3> QED  BY <1>1, <2>2, PadsUpdate
  <2>4. \A k \in DOMAIN p : k \notin K => p[k] = held.pad[k]
    BY <2>3 DEF Updated
  <2>5. s \in States /\ s.visited = held.visited /\ s.pad = p
    <3> HIDE DEF p
    <3> QED  BY <2>3, PadTaken
  <2>6. Invoke(s, K)
    BY <2>1
  <2> HIDE DEF s, p
  <2>7. Begins(s, K)
    BY <2>3, <2>4, <2>5, <2>6 DEF Begins
  <2> QED  BY <2>7
<1>4. CASE ResumeDrop
  <2>1. PICK K \in SUBSET Keys : \E k \in K :
          Invoke([held EXCEPT !.pad = DropIn(held.pad, [j \in K |-> "caller"], k)], {k})
    BY <1>4 DEF ResumeDrop
  <2>2. PICK k0 \in K :
          Invoke([held EXCEPT !.pad = DropIn(held.pad, [k \in K |-> "caller"], k0)], {k0})
    BY <2>1
  <2> DEFINE q == Pair(k0, "caller")
             p == Updated(held.pad, q)
             s == [held EXCEPT !.pad = p]
  <2>3. q \in Pads /\ DOMAIN q = {k0}
    <3>1. k0 \in AllKeys /\ DOMAIN q = {k0}
      BY DEF AllKeys, Pair
    <3> QED  BY <3>1, PadsExist
  <2>4. p \in Pads /\ DOMAIN p = DOMAIN held.pad \cup {k0}
    <3> HIDE DEF q
    <3> QED  BY <1>1, <2>3, PadsUpdate
  <2>5. \A k \in DOMAIN p : k \notin {k0} => p[k] = held.pad[k]
    BY <2>3, <2>4 DEF Updated
  <2>6. s \in States /\ s.visited = held.visited /\ s.pad = p
    <3> HIDE DEF p
    <3> QED  BY <2>4, PadTaken
  <2>7. Invoke(s, {k0})
    <3>1. DropIn(held.pad, [k \in K |-> "caller"], k0) = p
      BY DEF DropIn
    <3> QED  BY <2>2, <3>1
  <2> HIDE DEF s, p
  <2>8. Begins(s, {k0})
    BY <2>4, <2>5, <2>6, <2>7 DEF Begins
  <2> QED  BY <2>8
<1> QED  BY <1>2, <1>3, <1>4

\* What a step can be: the cases of the proofs below.
LEMMA StepCases ==
  ASSUME TypeInv, [Next]_vars
  PROVE  \/ UNCHANGED vars
         \/ Write \/ Answered \/ Interrupt \/ RunGraph \/ Complete \/ Raise \/ Reload
         \/ \E s, given : Begins(s, given)
  BY Beginnings DEF Next, Invocation

\* A session begins typed.
LEMMA InitTypeInv == Init => TypeInv
<1> SUFFICES ASSUME Init PROVE TypeInv
  OBVIOUS
<1>1. NewState \in States
  BY PadsExist DEF NewState, States
<1> QED  BY <1>1 DEF Init, TypeInv

\* And stays so.
LEMMA NextTypeInv == TypeInv /\ [Next]_vars => TypeInv'
<1> SUFFICES ASSUME TypeInv, [Next]_vars PROVE TypeInv'
  OBVIOUS
<1> USE DEF TypeInv
<1>1. ASSUME UNCHANGED code
      PROVE  /\ Frames' = Frames /\ States' = States /\ Places' = Places
  BY <1>1 DEF Frames, States, Places, Pads, AllKeys, NodesOf
<1>2. CASE UNCHANGED vars
  BY <1>1, <1>2 DEF vars
<1>3. CASE Write
  BY <1>3, WriteEffect, CommitKeepsType DEF Write, Ready
<1>4. CASE Answered
  <2>1. stack # <<>> /\ Visited(Top) \in States /\ Commits(Visited(Top))
    BY <1>4, VisitedState DEF Answered, Ready, Commits
  <2> QED  BY <2>1, CommitKeepsType
<1>5. CASE Interrupt
  <2>1. stack # <<>> /\ Asked \in States /\ Ends(Asked) /\ log' \in Seq(Places) /\ own' \in Seq(Nat)
    BY <1>5, AskedState, EnterEffect DEF Interrupt, Ready, Ends, Asked
  <2> QED  BY <2>1, EndKeepsType
<1>6. CASE RunGraph
  <2>1. UNCHANGED <<code, held, row, outcome, input>> /\ log' \in Seq(Places) /\ own' \in Seq(Nat)
    BY <1>6, EnterEffect DEF RunGraph, Ready
  <2>2. stack' \in Seq(Frames) /\ stack' # <<>> /\ stack # <<>>
    BY <1>6, RunEffect
  <2> QED  BY <1>1, <2>1, <2>2
<1>7. CASE Complete
  <2>1. stack # <<>> /\ Top.state \in States
    BY <1>7, StackShape DEF Complete, Frames
  <2>2. Done(Top.state) \in States /\ Ends(Done(Top.state)) /\ log' = log /\ own' = own
    BY <1>7, <2>1, DoneState DEF Complete, Ends
  <2> QED  BY <2>1, <2>2, EndKeepsType
<1>8. CASE Raise
  BY <1>1, <1>8 DEF Raise
<1>9. CASE Reload
  BY <1>1, <1>9 DEF Reload
<1>10. ASSUME NEW s, NEW given, Begins(s, given) PROVE TypeInv'
  <2>1. s \in States /\ Invoke(s, given)
    BY <1>10 DEF Begins
  <2>2. stack' \in Seq(Frames) /\ Len(stack') = 1
    <3> HIDE DEF TypeInv
    <3> QED  BY <2>1, InvokeEffect
  <2>3. stack' # <<>>
    <3> HIDE DEF TypeInv
    <3>1. Len(<<>>) = 0 /\ Len(stack') = 1
      BY <2>2
    <3> QED  BY <3>1
  <2> QED  BY <1>1, <2>1, <2>2, <2>3 DEF Invoke
<1> QED  BY <1>2, <1>3, <1>4, <1>5, <1>6, <1>7, <1>8, <1>9, <1>10, StepCases

-----------------------------------------------------------------------------
\* The state moves with the session: a commit and the end of a run hand it on.
LEMMA CommitMoves == ASSUME TypeInv, stack # <<>>, NEW s \in States, Commits(s) PROVE Current' = s
<1>1. /\ stack' \in Seq(Frames) /\ Len(stack') = Len(Below) + 1
      /\ stack'[Len(Below) + 1].state = s
  <2>1. Below \in Seq(Frames) /\ Top \in Frames /\ Publish(Below, Top, s)
    BY StackShape DEF Commits
  <2> QED  BY <2>1, PublishEffect
<1>2. Len(Below) + 1 > 0
  BY StackShape
<1>3. stack' # <<>> /\ Last(stack') = stack'[Len(Below) + 1]
  BY <1>1, <1>2 DEF Last
<1> QED  BY <1>1, <1>3 DEF Current, Top

\* Where the outermost graph ends, with that state.
LEMMA EndMoves == ASSUME TypeInv, stack # <<>>, NEW s \in States, Ends(s) PROVE Current' = s
<1>1. Return(s) /\ Len(stack) \in Nat \ {0}
  BY StackShape DEF Ends
<1>2. CASE Len(stack) = 1
  BY <1>1, <1>2, ReturnEffect DEF Current
<1>3. CASE Len(stack) # 1
  <2>1. /\ stack' \in Seq(Frames) /\ Len(stack') = Len(stack) - 1
        /\ stack'[Len(stack) - 1].state = s
    BY <1>1, <1>3, ReturnEffect
  <2>2. stack' # <<>> /\ Last(stack') = stack'[Len(stack) - 1]
    BY <1>1, <1>3, <2>1 DEF Last
  <2> QED  BY <2>1, <2>2 DEF Current, Top
<1> QED  BY <1>2, <1>3

\* A nested graph begins with the state of the node that runs it.
LEMMA RunMoves == ASSUME TypeInv, RunGraph PROVE stack' # <<>> /\ Current' = Visited(Top)
<1>1. /\ stack' \in Seq(Frames) /\ Len(stack') = Len(stack) + 1 /\ stack # <<>>
      /\ stack'[Len(stack) + 1].state = Visited(Top)
  BY RunEffect
<1>2. Len(stack) \in Nat
  BY <1>1, StackShape
<1>3. stack' # <<>> /\ Last(stack') = stack'[Len(stack) + 1]
  BY <1>1, <1>2 DEF Last
<1> QED  BY <1>1, <1>3 DEF Current, Top

LEMMA BeginMoves ==
  ASSUME TypeInv, NEW s, NEW given, Begins(s, given)
  PROVE  stack = <<>> /\ stack' # <<>> /\ outcome' = "running" /\ Current = held /\ Current' = s
<1>1. s \in States /\ Invoke(s, given)
  BY DEF Begins
<1>2. stack' \in Seq(Frames) /\ Len(stack') = 1 /\ stack'[1].state = s
  BY <1>1, InvokeEffect
<1>3. stack' # <<>> /\ Last(stack') = stack'[1]
  <2>1. Len(<<>>) = 0 /\ Len(stack') = 1
    BY <1>2
  <2> QED  BY <2>1 DEF Last
<1> QED  BY <1>1, <1>2, <1>3 DEF Current, Top, Invoke

\* nodes_visited of the current state is the history of the session.
HistoryInv == outcome \in {"running", "returned"} => Current.visited = input.visited \o log

LEMMA VisitsLengthen ==
  ASSUME TypeInv, HistoryInv, stack # <<>>, Enter, UNCHANGED input
  PROVE  Visited(Top).visited = input'.visited \o log'
<1>1. Current.visited = input.visited \o log /\ Current = Top.state
  BY DEF TypeInv, HistoryInv, Current
<1>2. Visited(Top).visited = Append(Top.state.visited, Here(Top)) /\ Here(Top) \in Places
  BY VisitedState
<1>3. input.visited \in Seq(Places) /\ log \in Seq(Places) /\ log' = Append(log, Here(Top))
  BY DEF TypeInv, States, Enter
<1>4. Append(input.visited \o log, Here(Top)) = input.visited \o Append(log, Here(Top))
  <2> DEFINE h == Here(Top)
             v == input.visited
  <2> HIDE DEF h, v
  <2>1. v \in Seq(Places) /\ log \in Seq(Places)
    BY <1>3 DEF v
  <2>2. h \in Places /\ <<h>> \in Seq(Places) /\ v \o log \in Seq(Places)
    BY <1>2, <2>1 DEF h
  <2>3. Append(v \o log, h) = (v \o log) \o <<h>> /\ Append(log, h) = log \o <<h>>
    BY <2>1, <2>2, AppendIsConcat
  <2>4. (v \o log) \o <<h>> = v \o (log \o <<h>>)
    BY <2>1, <2>2, ConcatAssociative
  <2> QED  BY <2>3, <2>4 DEF h, v
<1> QED  BY <1>1, <1>2, <1>3, <1>4

\* Every step keeps it.
LEMMA NextHistoryInv == TypeInv /\ HistoryInv /\ [Next]_vars => HistoryInv'
<1> SUFFICES ASSUME TypeInv, HistoryInv, [Next]_vars PROVE HistoryInv'
  OBVIOUS
<1>1. CASE UNCHANGED vars
  BY <1>1 DEF vars, HistoryInv, Current, Top
<1>2. CASE Write \/ Answered
  <2>1. /\ stack # <<>> /\ Enter /\ UNCHANGED input
        /\ \E s \in States : Commits(s) /\ s.visited = Visited(Top).visited
    BY <1>2, WriteEffect, VisitedState DEF Write, Answered, Ready, Commits
  <2> QED  BY <2>1, CommitMoves, VisitsLengthen DEF HistoryInv
<1>3. CASE Interrupt
  <2>1. /\ stack # <<>> /\ Enter /\ UNCHANGED input /\ Asked \in States /\ Ends(Asked)
        /\ Asked.visited = Visited(Top).visited
    BY <1>3, AskedState DEF Interrupt, Ready, Ends, Asked
  <2> QED  BY <2>1, EndMoves, VisitsLengthen DEF HistoryInv
<1>4. CASE RunGraph
  <2>1. stack # <<>> /\ Enter /\ UNCHANGED input
    BY <1>4 DEF RunGraph, Ready
  <2> QED  BY <1>4, <2>1, RunMoves, VisitsLengthen DEF HistoryInv
<1>5. CASE Complete
  <2>1. stack # <<>> /\ Top.state \in States /\ UNCHANGED <<input, log>>
    BY <1>5, StackShape DEF Complete, Frames
  <2>2. /\ Done(Top.state) \in States /\ Ends(Done(Top.state))
        /\ Done(Top.state).visited = Top.state.visited
    BY <1>5, <2>1, DoneState DEF Complete, Ends
  <2>3. Top.state.visited = input.visited \o log
    BY <2>1 DEF HistoryInv, Current, TypeInv
  <2> QED  BY <2>1, <2>2, <2>3, EndMoves DEF HistoryInv
<1>6. CASE Raise \/ Reload
  BY <1>6 DEF Raise, Reload, HistoryInv
<1>7. ASSUME NEW s, NEW given, Begins(s, given) PROVE HistoryInv'
  <2>1. input' = s /\ log' = <<>> /\ s.visited \in Seq(Places) /\ Current' = s
    BY <1>7, BeginMoves DEF Begins, Invoke, States
  <2>2. s.visited \o <<>> = s.visited
    BY <2>1
  <2> QED  BY <2>1, <2>2 DEF HistoryInv
<1> QED  BY <1>1, <1>2, <1>3, <1>4, <1>5, <1>6, <1>7, StepCases

\* A row is written with the state the session moves to, or not at all.
Saves == UNCHANGED <<row, saved>> \/ (row' = Current' /\ saved' = answered')

LEMMA CommitSaves == ASSUME TypeInv, stack # <<>>, NEW s \in States, Commits(s) PROVE Saves
<1>1. Below \in Seq(Frames) /\ Top \in Frames /\ Publish(Below, Top, s)
  BY StackShape DEF Commits
<1>2. UNCHANGED <<row, saved>> \/ (row' = s /\ saved' = answered')
  BY <1>1, PublishEffect
<1> QED  BY <1>2, CommitMoves DEF Saves

\* The end of a nested run is a commit of the node around it.
LEMMA EndSaves == ASSUME TypeInv, stack # <<>>, NEW s \in States, Ends(s) PROVE Saves
<1>1. Return(s)
  BY DEF Ends
<1>2. UNCHANGED <<row, saved>> \/ (row' = s /\ saved' = answered')
  BY <1>1, ReturnEffect
<1> QED  BY <1>2, EndMoves DEF Saves

\* What was answered is in the scratchpad, wherever the session is, and was in
\* the one the invocation began with.
AnswersHere ==
  /\ answered \subseteq DOMAIN Current.pad
  /\ stack # <<>> => answered \subseteq DOMAIN input.pad

\* And what the session would find in its newest row, if it had to go back.
AnsweredInv == AnswersHere /\ saved \subseteq DOMAIN row.pad

\* Every step keeps it.
LEMMA NextAnsweredInv == TypeInv /\ AnsweredInv /\ [Next]_vars => AnsweredInv'
<1> SUFFICES ASSUME TypeInv, AnsweredInv, [Next]_vars PROVE AnsweredInv'
  OBVIOUS
<1> USE DEF AnswersHere
<1>0. ASSUME AnswersHere', Saves PROVE AnsweredInv'
  BY <1>0 DEF AnsweredInv, Saves
<1>1. CASE UNCHANGED vars
  BY <1>1 DEF vars, Current, Top, AnsweredInv
<1>2. CASE Write
  <2>1. /\ stack # <<>> /\ UNCHANGED input /\ Current' = Written /\ Saves
        /\ answered' = IF Node.keeps THEN answered ELSE {}
        /\ Node.keeps => DOMAIN Written.pad = DOMAIN Top.state.pad \cup {Node.key}
    BY <1>2, WriteEffect, CommitMoves, CommitSaves DEF Write, Ready
  <2>2. AnswersHere'
    BY <2>1 DEF Current, AnsweredInv
  <2> QED  BY <1>0, <2>1, <2>2
<1>3. CASE Answered
  <2>1. stack # <<>> /\ UNCHANGED <<input, answered>> /\ Visited(Top) \in States /\ Commits(Visited(Top))
    BY <1>3, VisitedState DEF Answered, Ready, Commits
  <2>2. Current' = Visited(Top) /\ Visited(Top).pad = Top.state.pad /\ Saves
    BY <2>1, CommitMoves, CommitSaves, VisitedState
  <2>3. AnswersHere'
    BY <2>1, <2>2 DEF Current, AnsweredInv
  <2> QED  BY <1>0, <2>2, <2>3
<1>4. CASE Interrupt
  <2>1. stack # <<>> /\ UNCHANGED <<input, answered>> /\ Asked \in States /\ Ends(Asked)
    BY <1>4, AskedState DEF Interrupt, Ready, Ends, Asked
  <2>2. Current' = Asked /\ Asked.pad = Top.state.pad /\ Saves
    BY <2>1, EndMoves, EndSaves, AskedState
  <2>3. AnswersHere'
    BY <2>1, <2>2 DEF Current, AnsweredInv
  <2> QED  BY <1>0, <2>2, <2>3
<1>5. CASE RunGraph
  <2>1. stack # <<>> /\ UNCHANGED <<input, answered, row, saved>>
    BY <1>5 DEF RunGraph, Ready
  <2>2. Current' = Visited(Top) /\ Visited(Top).pad = Top.state.pad
    BY <1>5, <2>1, RunMoves, VisitedState
  <2> QED  BY <2>1, <2>2 DEF Current, AnsweredInv
<1>6. CASE Complete
  <2>1. stack # <<>> /\ Top.state \in States /\ UNCHANGED <<input, answered>>
    BY <1>6, StackShape DEF Complete, Frames
  <2>2. Done(Top.state) \in States /\ Ends(Done(Top.state)) /\ Done(Top.state).pad = Top.state.pad
    BY <1>6, <2>1, DoneState DEF Complete, Ends
  <2>3. Current' = Done(Top.state) /\ Saves
    BY <2>1, <2>2, EndMoves, EndSaves
  <2>4. AnswersHere'
    BY <2>1, <2>2, <2>3 DEF Current, AnsweredInv
  <2> QED  BY <1>0, <2>3, <2>4
<1>7. CASE Raise \/ Reload
  BY <1>7 DEF Raise, Reload, Current, AnsweredInv
<1>8. ASSUME NEW s, NEW given, Begins(s, given) PROVE AnsweredInv'
  <2>1. input' = s /\ answered' = answered \cup given /\ Current' = s /\ Current = held
        /\ UNCHANGED <<row, saved>>
    BY <1>8, BeginMoves DEF Begins, Invoke
  <2> QED  BY <1>8, <2>1 DEF Begins, AnsweredInv
<1> QED  BY <1>1, <1>2, <1>3, <1>4, <1>5, <1>6, <1>7, <1>8, StepCases

\* For any graphs, keys and invocations: a question that was answered is not
\* asked again, not behind a crash or load_latest either if a row was written
\* after the answer, unless a node has since returned a scratchpad of its own.
THEOREM AnswersAreKept == Spec => AnsweredOnce
<1>1. Init => TypeInv /\ AnsweredInv
  BY InitTypeInv DEF Init, AnsweredInv, AnswersHere
<1>2. TypeInv /\ AnsweredInv /\ [Next]_vars => (TypeInv /\ AnsweredInv)'
  BY NextTypeInv, NextAnsweredInv
<1>3. TypeInv /\ AnsweredInv => [Interrupt => Node.key \notin answered]_vars
  BY DEF AnsweredInv, AnswersHere, Interrupt, Ready, Current
<1> QED  BY <1>1, <1>2, <1>3, PTL DEF Spec, AnsweredOnce

-----------------------------------------------------------------------------
\* The outermost graph has entered its nodes one after the other, up to the one
\* it is at: that is the last entry of own while a nested graph runs.
Size == Len(code[Root])
OwnPlaces == \A i \in 1 .. Len(own) : own[i] \in 1 .. Len(log) /\ log[own[i]] = <<Root, i>>
OutermostAt(f, depth) ==
  /\ f.graph = Root /\ f.at \in 1 .. Size + 1
  /\ depth = 1 => Len(own) = f.at - 1
  /\ depth # 1 => Len(own) = f.at /\ f.at <= Size /\ code[Root][f.at].does = "run"

OwnInv ==
  /\ OwnPlaces
  /\ stack # <<>> => OutermostAt(stack[1], Len(stack))
  /\ ReturnTellsTheEnd

\* The outermost graph is a sequence of nodes.
LEMMA RootSize == TypeInv => Size \in Nat /\ DOMAIN code[Root] = 1 .. Size
<1> SUFFICES ASSUME TypeInv PROVE Size \in Nat /\ DOMAIN code[Root] = 1 .. Size
  OBVIOUS
<1>1. code[Root] \in Seq(ToSet(code[Root]))
  BY CodesAssumption DEF TypeInv
<1> QED  BY <1>1 DEF Size

\* What entering a node does to the list of places.
LEMMA PlacesFollow ==
  ASSUME TypeInv, OwnInv, stack # <<>>, Enter
  PROVE  /\ OwnPlaces'
         /\ Len(stack) = 1 => /\ Len(own') = Top.at /\ own'[Len(own')] = Len(log')
                              /\ Here(Top) = <<Root, Top.at>>
         /\ Len(stack) # 1 => own' = own
<1>1. /\ log' \in Seq(Places) /\ Len(log') = Len(log) + 1 /\ log'[Len(log) + 1] = Here(Top)
      /\ \A i \in 1 .. Len(log) : log'[i] = log[i]
      /\ Len(stack) = 1 => own' = Append(own, Len(log) + 1)
      /\ Len(stack) # 1 => own' = own
  BY EnterEffect
<1>2. own \in Seq(Nat) /\ Len(own) \in Nat /\ Len(log) \in Nat /\ Len(log) + 1 \in Nat
  BY DEF TypeInv
<1>3. \A i \in 1 .. Len(own) : own[i] \in 1 .. Len(log') /\ log'[own[i]] = <<Root, i>>
  <2> SUFFICES ASSUME NEW i \in 1 .. Len(own) PROVE own[i] \in 1 .. Len(log') /\ log'[own[i]] = <<Root, i>>
    OBVIOUS
  <2>1. own[i] \in 1 .. Len(log) /\ log[own[i]] = <<Root, i>>
    BY DEF OwnInv, OwnPlaces
  <2> QED  BY <1>1, <1>2, <2>1
<1>4. CASE Len(stack) # 1
  BY <1>1, <1>3, <1>4 DEF OwnPlaces
<1>5. CASE Len(stack) = 1
  <2>1. Top = stack[1] /\ Top.graph = Root /\ Len(own) = Top.at - 1 /\ Top.at \in Nat
    BY <1>5, StackShape, RootSize DEF OwnInv, OutermostAt
  <2>2. Here(Top) = <<Root, Top.at>>
    BY <2>1 DEF Here
  <2>3. /\ Len(own') = Len(own) + 1 /\ own'[Len(own) + 1] = Len(log) + 1
        /\ \A i \in 1 .. Len(own) : own'[i] = own[i]
    BY <1>1, <1>2, <1>5
  <2>4. Len(own') = Top.at
    BY <1>2, <2>1, <2>3
  <2>5. ASSUME NEW i \in 1 .. Len(own') PROVE own'[i] \in 1 .. Len(log') /\ log'[own'[i]] = <<Root, i>>
    <3>1. i \in 1 .. Len(own) \/ (i = Len(own) + 1 /\ i = Top.at)
      BY <1>2, <2>3, <2>4
    <3>2. CASE i \in 1 .. Len(own)
      BY <1>3, <2>3, <3>2
    <3>3. CASE i = Len(own) + 1 /\ i = Top.at
      <4>1. own'[i] = Len(log) + 1 /\ Len(log) + 1 \in 1 .. Len(log')
        BY <1>1, <1>2, <2>3, <3>3
      <4> QED  BY <1>1, <2>2, <3>3, <4>1
    <3> QED  BY <3>1, <3>2, <3>3
  <2> QED  BY <1>1, <1>5, <2>2, <2>3, <2>4, <2>5 DEF OwnPlaces
<1> QED  BY <1>4, <1>5

\* A nested run that ends: the node around it has committed.
LEMMA NestedEnds ==
  ASSUME TypeInv, OwnInv, stack # <<>>, Len(stack) # 1, NEW s \in States, Ends(s), own' = own, OwnPlaces'
  PROVE  OwnInv'
<1>1. Return(s) /\ Len(stack) \in Nat \ {0} /\ UNCHANGED code
  BY StackShape DEF Ends
<1>2. /\ UNCHANGED <<held, outcome>>
      /\ stack' \in Seq(Frames) /\ Len(stack') = Len(stack) - 1
      /\ \A i \in 1 .. Len(stack) - 2 : stack'[i] = stack[i]
      /\ stack'[Len(stack) - 1].graph = stack[Len(stack) - 1].graph
      /\ stack'[Len(stack) - 1].at = stack[Len(stack) - 1].at + 1
  BY <1>1, ReturnEffect
<1>3. OutermostAt(stack[1], Len(stack)) /\ outcome = "running"
  BY DEF OwnInv, TypeInv
<1>4. Size' = Size /\ Size \in Nat
  BY <1>1, RootSize DEF Size
<1>5. OutermostAt(stack[1], Len(stack))'
  <2>1. CASE Len(stack) = 2
    <3>1. /\ stack'[1].graph = Root /\ stack'[1].at = stack[1].at + 1 /\ Len(stack') = 1
          /\ Len(own) = stack[1].at /\ stack[1].at \in 1 .. Size
      BY <1>2, <1>3, <1>4, <2>1 DEF OutermostAt
    <3> QED  BY <1>4, <3>1 DEF OutermostAt
  <2>2. CASE Len(stack) # 2
    <3>1. 1 \in 1 .. Len(stack) - 2 /\ Len(stack') # 1
      BY <1>1, <1>2, <2>2
    <3>2. stack'[1] = stack[1]
      BY <1>2, <3>1
    <3> QED  BY <1>1, <1>3, <1>4, <3>1, <3>2 DEF OutermostAt
  <2> QED  BY <2>1, <2>2
<1>6. ReturnTellsTheEnd'
  BY <1>2, <1>3 DEF ReturnTellsTheEnd
<1> QED  BY <1>5, <1>6 DEF OwnInv

\* Every step keeps it.
LEMMA NextOwnInv == TypeInv /\ OwnInv /\ [Next]_vars => OwnInv'
<1> SUFFICES ASSUME TypeInv, OwnInv, [Next]_vars PROVE OwnInv'
  OBVIOUS
<1>0. UNCHANGED code => Size' = Size
  BY DEF Size
<1>1. CASE UNCHANGED vars
  BY <1>1 DEF vars, OwnInv, OwnPlaces, OutermostAt, Size, ReturnTellsTheEnd
<1>2. CASE Write \/ Answered
  <2>1. /\ stack # <<>> /\ Enter /\ UNCHANGED <<code, outcome>> /\ Top.at \in DOMAIN code[Top.graph]
        /\ \E s \in States : Commits(s)
    BY <1>2, WriteEffect, VisitedState DEF Write, Answered, Ready, Commits
  <2>2. PICK s \in States : Publish(Below, Top, s)
    BY <2>1 DEF Commits
  <2>3. /\ Below \in Seq(Frames) /\ Len(Below) = Len(stack) - 1 /\ Len(stack) \in Nat \ {0} /\ Top \in Frames
        /\ \A i \in 1 .. Len(stack) - 1 : Below[i] = stack[i]
        /\ Top = stack[Len(stack)]
    BY <2>1, StackShape
  <2>4. /\ stack' \in Seq(Frames) /\ Len(stack') = Len(Below) + 1
        /\ \A i \in 1 .. Len(Below) : stack'[i] = Below[i]
        /\ stack'[Len(Below) + 1].graph = Top.graph
        /\ stack'[Len(Below) + 1].at = Top.at + 1
    BY <2>2, <2>3, PublishEffect
  <2>5. Len(stack') = Len(stack)
    BY <2>3, <2>4
  <2>6. /\ OutermostAt(stack[1], Len(stack)) /\ outcome' = "running"
        /\ Size \in Nat /\ DOMAIN code[Root] = 1 .. Size
    BY <2>1, RootSize DEF OwnInv, TypeInv
  <2>7. OutermostAt(stack[1], Len(stack))'
    <3>1. CASE Len(stack) = 1
      <4>1. stack'[1].graph = Root /\ stack'[1].at = Top.at + 1 /\ Len(own') = Top.at /\ Top.at \in 1 .. Size
        BY <2>1, <2>3, <2>4, <2>6, <3>1, PlacesFollow DEF OutermostAt
      <4> QED  BY <1>0, <2>1, <2>5, <2>6, <3>1, <4>1 DEF OutermostAt
    <3>2. CASE Len(stack) # 1
      <4>1. 1 \in 1 .. Len(Below) /\ 1 \in 1 .. Len(stack) - 1
        BY <2>3, <3>2
      <4>2. stack'[1] = stack[1] /\ own' = own
        BY <2>1, <2>3, <2>4, <3>2, <4>1, PlacesFollow
      <4> QED  BY <1>0, <2>1, <2>5, <2>6, <3>2, <4>2 DEF OutermostAt
    <3> QED  BY <3>1, <3>2
  <2> QED  BY <2>1, <2>6, <2>7, PlacesFollow DEF OwnInv, ReturnTellsTheEnd
<1>3. CASE Interrupt
  <2>1. stack # <<>> /\ Enter /\ Asked \in States /\ Ends(Asked)
    BY <1>3, AskedState DEF Interrupt, Ready, Ends, Asked
  <2>2. OwnPlaces'
    BY <2>1, PlacesFollow
  <2>3. CASE Len(stack) = 1
    <3>1. stack' = <<>> /\ held' = Asked
      BY <2>1, <2>3, ReturnEffect DEF Ends
    <3>2. Asked.status = "interrupted" /\ Asked.prompt = Here(Top) /\ Last(Asked.visited) = Here(Top)
      <4>1. Asked.visited = Append(Top.state.visited, Here(Top)) /\ Here(Top) \in Places
        BY <2>1, AskedState, VisitedState
      <4>2. Top.state.visited \in Seq(Places)
        BY <2>1, StackShape DEF Frames, States
      <4>3. \A v \in Seq(Places), h \in Places : Last(Append(v, h)) = h
        BY DEF Last
      <4> QED  BY <2>1, <4>1, <4>2, <4>3, AskedState
    <3>3. Last(own') = Len(log')
      BY <2>1, <2>3, PlacesFollow DEF Last
    <3> QED  BY <2>2, <3>1, <3>2, <3>3 DEF OwnInv, ReturnTellsTheEnd
  <2>4. CASE Len(stack) # 1
    BY <2>1, <2>2, <2>4, NestedEnds, PlacesFollow
  <2> QED  BY <2>3, <2>4
<1>4. CASE RunGraph
  <2>1. /\ stack # <<>> /\ Enter /\ UNCHANGED <<code, outcome>> /\ Top.at \in DOMAIN code[Top.graph]
        /\ code[Top.graph][Top.at].does = "run"
    BY <1>4 DEF RunGraph, Ready
  <2>2. /\ Len(stack') = Len(stack) + 1
        /\ \A i \in 1 .. Len(stack) - 1 : stack'[i] = stack[i]
        /\ stack'[Len(stack)].graph = Top.graph /\ stack'[Len(stack)].at = Top.at
    BY <1>4, RunEffect
  <2>3. Len(stack) \in Nat \ {0} /\ Top = stack[Len(stack)]
    BY <2>1, StackShape
  <2>4. /\ OutermostAt(stack[1], Len(stack)) /\ outcome' = "running"
        /\ Size \in Nat /\ DOMAIN code[Root] = 1 .. Size
    BY <2>1, RootSize DEF OwnInv, TypeInv
  <2>5. Len(stack') # 1
    BY <2>2, <2>3
  <2>6. OutermostAt(stack[1], Len(stack))'
    <3>1. CASE Len(stack) = 1
      <4>1. stack'[1].graph = Root /\ stack'[1].at = Top.at /\ Len(own') = Top.at /\ Top.at \in 1 .. Size
        BY <2>1, <2>2, <2>3, <2>4, <3>1, PlacesFollow DEF OutermostAt
      <4>2. code[Root][Top.at].does = "run"
        BY <2>1, <2>3, <2>4, <3>1 DEF OutermostAt
      <4> QED  BY <1>0, <2>1, <2>4, <2>5, <4>1, <4>2 DEF OutermostAt
    <3>2. CASE Len(stack) # 1
      <4>1. 1 \in 1 .. Len(stack) - 1
        <5>1. Len(stack) \in Nat \ {0}
          BY <2>3
        <5> QED  BY <3>2, <5>1, FirstIsBelow
      <4>2. stack'[1] = stack[1] /\ own' = own
        BY <2>1, <2>2, <3>2, <4>1, PlacesFollow
      <4> QED  BY <1>0, <2>1, <2>4, <2>5, <3>2, <4>2 DEF OutermostAt
    <3> QED  BY <3>1, <3>2
  <2> QED  BY <2>1, <2>4, <2>6, PlacesFollow DEF OwnInv, ReturnTellsTheEnd
<1>5. CASE Complete
  <2>1. /\ stack # <<>> /\ Top.state \in States /\ Top.at \notin DOMAIN code[Top.graph]
        /\ UNCHANGED <<log, own, code>>
    BY <1>5, StackShape DEF Complete, Frames
  <2>2. Done(Top.state) \in States /\ Ends(Done(Top.state)) /\ Done(Top.state).status = "done"
    BY <1>5, <2>1, DoneState DEF Complete, Ends
  <2>3. OwnPlaces'
    BY <2>1 DEF OwnInv, OwnPlaces
  <2>4. CASE Len(stack) = 1
    <3>1. stack' = <<>> /\ held' = Done(Top.state)
      BY <2>1, <2>2, <2>4, ReturnEffect DEF Ends
    <3>2. Top = stack[1] /\ OutermostAt(stack[1], 1) /\ Size \in Nat /\ DOMAIN code[Root] = 1 .. Size
      BY <2>1, <2>4, StackShape, RootSize DEF OwnInv
    <3>3. Len(own) = Size
      BY <2>1, <3>2 DEF OutermostAt
    <3>4. DOMAIN own = DOMAIN code[Root]
      BY <3>2, <3>3 DEF TypeInv
    <3>5. \A i \in DOMAIN own : log[own[i]] = <<Root, i>>
      BY <3>2, <3>3, <3>4 DEF OwnInv, OwnPlaces
    <3>6. [i \in DOMAIN own |-> log[own[i]]] = [i \in DOMAIN code[Root] |-> <<Root, i>>]
      BY <3>4, <3>5
    <3> QED  BY <2>1, <2>2, <2>3, <3>1, <3>6 DEF OwnInv, ReturnTellsTheEnd
  <2>5. CASE Len(stack) # 1
    BY <2>1, <2>2, <2>3, <2>5, NestedEnds
  <2> QED  BY <2>4, <2>5
<1>6. CASE Raise \/ Reload
  <2>1. stack' = <<>> /\ outcome' # "returned" /\ (UNCHANGED <<log, own>> \/ own' = <<>>)
    BY <1>6 DEF Raise, Reload
  <2> QED  BY <2>1 DEF OwnInv, OwnPlaces, ReturnTellsTheEnd
<1>7. ASSUME NEW s, NEW given, Begins(s, given) PROVE OwnInv'
  <2>1. UNCHANGED code /\ own' = <<>> /\ outcome' = "running" /\ s \in States /\ Invoke(s, given)
    BY <1>7 DEF Begins, Invoke
  <2>2. Len(stack') = 1 /\ stack'[1].graph = Root /\ stack'[1].at = 1
    BY <2>1, InvokeEffect
  <2>3. Size \in Nat
    BY RootSize
  <2>4. OutermostAt(stack[1], Len(stack))'
    BY <1>0, <2>1, <2>2, <2>3 DEF OutermostAt
  <2> QED  BY <2>1, <2>4 DEF OwnInv, OwnPlaces, ReturnTellsTheEnd
<1> QED  BY <1>1, <1>2, <1>3, <1>4, <1>5, <1>6, <1>7, StepCases

-----------------------------------------------------------------------------
\* The scratchpad of the row agrees with that of the outermost graph, up to the
\* answers nobody has followed; or, behind a run that failed, the first node is
\* one that the session passes again before it can stop.
Agree(pad) ==
  \A k \in Keys \ unsaved :
    /\ k \in DOMAIN pad <=> k \in DOMAIN row.pad
    /\ k \in DOMAIN pad => pad[k] = row.pad[k]

Passes(pad) ==
  /\ 1 \in DOMAIN code[Root]
  /\ code[Root][1].does = "ask" => code[Root][1].key \in DOMAIN pad

RowInv ==
  /\ stack = <<>> => Agree(held.pad) \/ Passes(held.pad)
  /\ outcome = "returned" => Agree(held.pad)
  /\ stack # <<>> =>
       /\ Agree(input.pad) \/ Passes(input.pad)
       /\ IF stack[1].at = 1 THEN stack[1].state.pad = input.pad
                             ELSE Passes(input.pad) /\ Agree(stack[1].state.pad)

\* What the outermost graph commits is what the row says.
LEMMA OuterCommits ==
  ASSUME TypeInv, OwnInv, RowInv, stack # <<>>, NEW s \in States, UNCHANGED <<code, input, outcome>>,
         Len(stack') = 1, stack' # <<>>, stack'[1].state = s, stack'[1].at = stack[1].at + 1,
         row' = s, unsaved' = {},
         stack[1].at = 1 => Passes(stack[1].state.pad)
  PROVE  RowInv'
<1>1. stack[1].at \in Nat \ {0} /\ stack'[1].at # 1 /\ outcome' = "running"
  <2>1. stack[1].at \in 1 .. Size + 1 /\ Size \in Nat
    BY RootSize DEF OwnInv, OutermostAt
  <2> QED  BY <2>1 DEF TypeInv
<1>2. Passes(input.pad)
  BY DEF RowInv
<1>3. Passes(input.pad)'
  BY <1>2 DEF Passes
<1>4. Agree(stack[1].state.pad)'
  BY DEF Agree
<1> QED  BY <1>1, <1>3, <1>4 DEF RowInv

\* Where the outermost graph does not commit, nothing it knows changes.
LEMMA OuterWaits ==
  ASSUME RowInv, stack # <<>>, stack' # <<>>, outcome' # "returned",
         UNCHANGED <<code, input, row, unsaved>>,
         stack'[1].at = stack[1].at, stack'[1].state.pad = stack[1].state.pad
  PROVE  RowInv'
<1>1. Agree(stack[1].state.pad)' <=> Agree(stack[1].state.pad)
  BY DEF Agree
<1>2. (Agree(input.pad)' <=> Agree(input.pad)) /\ (Passes(input.pad)' <=> Passes(input.pad))
  BY DEF Agree, Passes
<1> QED  BY <1>1, <1>2 DEF RowInv

\* The end of a run hands its scratchpad on.
LEMMA EndKeepsRow ==
  ASSUME TypeInv, OwnInv, RowInv, stack # <<>>, NEW s \in States, Ends(s), s.pad = Top.state.pad,
         Len(stack) = 1 /\ Top.at = 1 => ~Passes(Top.state.pad)
  PROVE  RowInv'
<1>1. Return(s) /\ Len(stack) \in Nat \ {0} /\ UNCHANGED <<code, input>> /\ Top = stack[Len(stack)]
  BY StackShape DEF Ends
<1>2. OutermostAt(stack[1], Len(stack)) /\ outcome = "running"
  BY DEF OwnInv, TypeInv
<1>3. CASE Len(stack) = 1
  <2>1. stack' = <<>> /\ held' = s /\ UNCHANGED <<row, unsaved>>
    BY <1>1, <1>3, ReturnEffect
  <2>2. Top = stack[1] /\ Agree(Top.state.pad)
    BY <1>1, <1>3 DEF RowInv
  <2>3. Agree(held.pad)'
    BY <2>1, <2>2 DEF Agree
  <2> QED  BY <2>1, <2>3 DEF RowInv
<1>4. CASE Len(stack) # 1
  <2>1. /\ UNCHANGED <<held, outcome>>
        /\ Len(stack') = Len(stack) - 1
        /\ \A i \in 1 .. Len(stack) - 2 : stack'[i] = stack[i]
        /\ stack'[Len(stack) - 1].at = stack[Len(stack) - 1].at + 1
        /\ stack'[Len(stack) - 1].state = s
        /\ Len(stack) = 2 => row' = s /\ unsaved' = {}
        /\ Len(stack) # 2 => UNCHANGED <<row, unsaved>>
    BY <1>1, <1>4, ReturnEffect
  <2>2. stack' # <<>>
    <3>1. Len(stack') # 0
      BY <1>1, <1>4, <2>1
    <3> QED  BY <3>1
  <2>3. CASE Len(stack) = 2
    <3>1. /\ Len(stack') = 1 /\ stack'[1].at = stack[1].at + 1 /\ stack'[1].state = s
          /\ row' = s /\ unsaved' = {}
      BY <2>1, <2>3
    <3>2. stack[1].at = 1 => Passes(stack[1].state.pad)
      BY <1>2, <1>4, RootSize DEF OutermostAt, Passes
    <3> QED  BY <1>1, <2>1, <2>2, <3>1, <3>2, OuterCommits
  <2>4. CASE Len(stack) # 2
    <3>1. 1 \in 1 .. Len(stack) - 2
      BY <1>1, <1>4, <2>4, FirstIsBelow
    <3>2. stack'[1] = stack[1]
      BY <2>1, <3>1
    <3> QED  BY <1>1, <1>2, <2>1, <2>2, <2>4, <3>2, OuterWaits
  <2> QED  BY <2>3, <2>4
<1> QED  BY <1>3, <1>4

\* Publishing keeps the row and the stack together.
LEMMA CommitKeepsRow ==
  ASSUME TypeInv, OwnInv, RowInv, stack # <<>>, NEW s \in States, Commits(s),
         Len(stack) = 1 /\ Top.at = 1 => Passes(Top.state.pad)
  PROVE  RowInv'
<1>1. /\ Below \in Seq(Frames) /\ Len(Below) = Len(stack) - 1 /\ Len(stack) \in Nat \ {0} /\ Top \in Frames
      /\ \A i \in 1 .. Len(stack) - 1 : Below[i] = stack[i]
      /\ Top = stack[Len(stack)] /\ (Below = <<>> <=> Len(stack) = 1)
  BY StackShape
<1>2. Publish(Below, Top, s) /\ UNCHANGED <<code, held, outcome, input>> /\ outcome = "running"
  BY DEF Commits, TypeInv
<1>3. /\ Len(stack') = Len(Below) + 1
      /\ \A i \in 1 .. Len(Below) : stack'[i] = Below[i]
      /\ stack'[Len(Below) + 1].at = Top.at + 1
      /\ stack'[Len(Below) + 1].state = s
      /\ Below = <<>> => row' = s /\ unsaved' = {}
      /\ Below # <<>> => UNCHANGED <<row, unsaved>>
  BY <1>1, <1>2, PublishEffect
<1>4. stack' # <<>>
  <2>1. Len(stack') # 0
    BY <1>1, <1>3
  <2> QED  BY <2>1
<1>5. CASE Len(stack) = 1
  <2>1. /\ Len(stack') = 1 /\ stack'[1].state = s /\ stack'[1].at = stack[1].at + 1
        /\ row' = s /\ unsaved' = {} /\ Top = stack[1]
    BY <1>1, <1>3, <1>5
  <2> QED  BY <1>2, <1>4, <1>5, <2>1, OuterCommits
<1>6. CASE Len(stack) # 1
  <2>1. 1 \in 1 .. Len(Below) /\ 1 \in 1 .. Len(stack) - 1
    BY <1>1, <1>6
  <2>2. stack'[1] = stack[1] /\ UNCHANGED <<row, unsaved>>
    BY <1>1, <1>3, <1>6, <2>1
  <2> QED  BY <1>2, <1>4, <2>2, OuterWaits
<1> QED  BY <1>5, <1>6

\* Every step keeps it.
LEMMA NextRowInv == TypeInv /\ OwnInv /\ RowInv /\ [Next]_vars => RowInv'
<1> SUFFICES ASSUME TypeInv, OwnInv, RowInv, [Next]_vars PROVE RowInv'
  OBVIOUS
<1>1. CASE UNCHANGED vars
  BY <1>1 DEF vars, RowInv, Agree, Passes
<1>2. ASSUME stack # <<>>, Len(stack) = 1 PROVE Top = stack[1] /\ Top.graph = Root
  BY <1>2, StackShape DEF OwnInv, OutermostAt
<1>3. CASE Write
  <2>1. stack # <<>> /\ Top.at \in DOMAIN code[Top.graph] /\ code[Top.graph][Top.at].does = "write"
    BY <1>3 DEF Write, Ready
  <2>2. Len(stack) = 1 /\ Top.at = 1 => Passes(Top.state.pad)
    BY <1>2, <2>1 DEF Passes
  <2> QED  BY <1>3, <2>1, <2>2, WriteEffect, CommitKeepsRow
<1>4. CASE Answered
  <2>1. /\ stack # <<>> /\ Top.at \in DOMAIN code[Top.graph] /\ Node.key \in DOMAIN Top.state.pad
        /\ Visited(Top) \in States /\ Commits(Visited(Top))
    BY <1>4, VisitedState DEF Answered, Ready, Commits
  <2>2. Len(stack) = 1 /\ Top.at = 1 => Passes(Top.state.pad)
    BY <1>2, <2>1 DEF Passes, Node
  <2> QED  BY <2>1, <2>2, CommitKeepsRow
<1>5. CASE Interrupt
  <2>1. /\ stack # <<>> /\ Asked \in States /\ Ends(Asked) /\ Asked.pad = Top.state.pad
        /\ code[Top.graph][Top.at].does = "ask" /\ Node.key \notin DOMAIN Top.state.pad
    BY <1>5, AskedState DEF Interrupt, Ready, Ends, Asked
  <2>2. Len(stack) = 1 /\ Top.at = 1 => ~Passes(Top.state.pad)
    BY <1>2, <2>1 DEF Passes, Node
  <2> QED  BY <2>1, <2>2, EndKeepsRow
<1>6. CASE RunGraph
  <2>1. stack # <<>> /\ UNCHANGED <<code, outcome, input, row, unsaved>> /\ outcome = "running"
    BY <1>6 DEF RunGraph, Ready, TypeInv
  <2>2. /\ \A i \in 1 .. Len(stack) - 1 : stack'[i] = stack[i]
        /\ stack'[Len(stack)].at = Top.at /\ stack'[Len(stack)].state = Visited(Top) /\ stack' # <<>>
    BY <1>6, RunEffect, RunMoves
  <2>3. Len(stack) \in Nat \ {0} /\ Top = stack[Len(stack)] /\ Visited(Top).pad = Top.state.pad
    BY <2>1, StackShape, VisitedState
  <2>4. stack'[1].at = stack[1].at /\ stack'[1].state.pad = stack[1].state.pad
    <3>1. CASE Len(stack) = 1
      BY <2>2, <2>3, <3>1
    <3>2. CASE Len(stack) # 1
      <4>1. Len(stack) \in Nat \ {0}
        BY <2>3
      <4>2. 1 \in 1 .. Len(stack) - 1
        BY <3>2, <4>1, FirstIsBelow
      <4> QED  BY <2>2, <4>2
    <3> QED  BY <3>1, <3>2
  <2> QED  BY <2>1, <2>2, <2>4, OuterWaits
<1>7. CASE Complete
  <2>1. stack # <<>> /\ Top.state \in States /\ Top.at \notin DOMAIN code[Top.graph]
    BY <1>7, StackShape DEF Complete, Frames
  <2>2. /\ Done(Top.state) \in States /\ Ends(Done(Top.state)) /\ Done(Top.state).pad = Top.state.pad
    BY <1>7, <2>1, DoneState DEF Complete, Ends
  <2>3. Len(stack) = 1 /\ Top.at = 1 => ~Passes(Top.state.pad)
    BY <1>2, <2>1 DEF Passes
  <2> QED  BY <2>1, <2>2, <2>3, EndKeepsRow
<1>8. CASE Raise
  <2>1. /\ stack # <<>> /\ stack' = <<>> /\ outcome' = "raised" /\ held' = input
        /\ UNCHANGED <<code, row, unsaved>>
    BY <1>8 DEF Raise
  <2> QED  BY <2>1 DEF RowInv, Agree, Passes
<1>9. CASE Reload
  BY <1>9 DEF Reload, RowInv, Agree
<1>10. ASSUME NEW s, NEW given, Begins(s, given) PROVE RowInv'
  <2>1. /\ s \in States /\ Invoke(s, given) /\ stack = <<>> /\ UNCHANGED <<code, row>> /\ input' = s
        /\ outcome' = "running" /\ unsaved' = unsaved \cup given
    BY <1>10 DEF Begins, Invoke
  <2>2. Len(stack') = 1 /\ stack'[1].at = 1 /\ stack'[1].state = s /\ stack' # <<>>
    BY <1>10, <2>1, InvokeEffect, BeginMoves
  <2>3. Agree(held.pad) => Agree(input.pad)'
    <3> SUFFICES ASSUME Agree(held.pad), NEW k \in Keys \ unsaved'
                 PROVE  /\ k \in DOMAIN s.pad <=> k \in DOMAIN row.pad
                        /\ k \in DOMAIN s.pad => s.pad[k] = row.pad[k]
      BY <2>1 DEF Agree
    <3>1. k \in Keys \ unsaved /\ k \notin given
      BY <2>1
    <3>2. (k \in DOMAIN s.pad <=> k \in DOMAIN held.pad) /\ (k \in DOMAIN s.pad => s.pad[k] = held.pad[k])
      BY <1>10, <3>1 DEF Begins
    <3> QED  BY <3>1, <3>2 DEF Agree
  <2>4. Passes(held.pad) => Passes(input.pad)'
    BY <1>10, <2>1 DEF Begins, Passes
  <2> QED  BY <2>1, <2>2, <2>3, <2>4 DEF RowInv
<1> QED  BY <1>1, <1>3, <1>4, <1>5, <1>6, <1>7, <1>8, <1>9, <1>10, StepCases

\* For any graphs at any depth, keys and invocations: what an invocation returns
\* is the truth about the nodes that ran, about its end, and beside the row.
THEOREM ReturnsAreTruthful == Spec => []ReturnIsTruthful
<1> DEFINE IInv == TypeInv /\ HistoryInv /\ OwnInv /\ RowInv
<1>1. Init => IInv
  <2> SUFFICES ASSUME Init PROVE HistoryInv /\ OwnInv /\ RowInv
    BY InitTypeInv
  <2>1. outcome = "none" /\ stack = <<>> /\ own = <<>> /\ held = row
    BY DEF Init
  <2> QED  BY <2>1 DEF HistoryInv, OwnInv, OwnPlaces, ReturnTellsTheEnd, RowInv, Agree
<1>2. IInv /\ [Next]_vars => IInv'
  BY NextTypeInv, NextHistoryInv, NextOwnInv, NextRowInv
<1>3. IInv => ReturnIsTruthful
  <2> SUFFICES ASSUME IInv PROVE ReturnIsTruthful
    OBVIOUS
  <2>1. VisitsAreHistory
    BY DEF TypeInv, HistoryInv, Current, VisitsAreHistory
  <2>2. RowLacksOnlyAnswers
    BY DEF RowInv, Agree, RowLacksOnlyAnswers
  <2> QED  BY <2>1, <2>2 DEF OwnInv, ReturnIsTruthful
<1> QED  BY <1>1, <1>2, <1>3, PTL DEF Spec
=============================================================================
