-------------------------- MODULE ToolNodesProofs --------------------------
(***************************************************************************)
(* Proofs about modules Gather and ToolNodes, for any number of branches   *)
(* and tools and any bound.  First Gather alone: permits are conserved, so *)
(* the bound is kept, and a caller that has resumed leaves behind only what*)
(* LeftBehind allows.  Then its use for tools, whose steps are steps of    *)
(* Gather: no child process outlives its node unless the node was          *)
(* cancelled, and what a tool wrote is in the merged result.               *)
(***************************************************************************)
EXTENDS ToolNodes, Induction, FiniteSetTheorems

States == {"new", "queued", "granted", "running", "returned", "failed", "cancelled"}
Hold(t) == {i \in Inputs : t[i] \in {"granted", "running"}}

\* Nobody waits twice, and only queued tasks wait.
Queue(t, w) ==
  /\ w \in Seq(Inputs)
  /\ \A k \in 1 .. Len(w) : t[w[k]] = "queued"
  /\ \A k, l \in 1 .. Len(w) : w[k] = w[l] => k = l

\* Nobody who waits was told to stop.
Untold == \A k \in 1 .. Len(waiting) : waiting[k] \notin asked

PInv ==
  /\ bound \in Bounds
  /\ task \in [Inputs -> States]
  /\ permits \in Nat
  /\ Queue(task, waiting)
  /\ permits + Cardinality(Hold(task)) = Limit
  /\ Untold

\* The inputs are finitely many, and so are the holders of a permit.
LEMMA HoldFinite == ASSUME NEW t PROVE IsFiniteSet(Hold(t)) /\ Cardinality(Hold(t)) \in Nat
<1>1. IsFiniteSet(Inputs)
  BY FS_Interval, InputsAssumption DEF Inputs
<1>2. Hold(t) \subseteq Inputs
  BY DEF Hold
<1> QED  BY <1>1, <1>2, FS_Subset, FS_CardinalityType

\* The limit is a number.
LEMMA LimitType == bound \in Bounds => Limit \in Nat
  BY InputsAssumption, BoundsAssumption DEF Limit

\* One task more, and one task less, among the holders.
LEMMA HoldMore ==
  ASSUME NEW t \in [Inputs -> States], NEW i \in Inputs, t[i] \notin {"granted", "running"},
         NEW s \in {"granted", "running"}
  PROVE  Cardinality(Hold([t EXCEPT ![i] = s])) = Cardinality(Hold(t)) + 1
<1>1. Hold([t EXCEPT ![i] = s]) = Hold(t) \cup {i} /\ i \notin Hold(t)
  BY DEF Hold
<1> QED  BY <1>1, HoldFinite, FS_AddElement

LEMMA HoldLess ==
  ASSUME NEW t \in [Inputs -> States], NEW i \in Inputs, t[i] \in {"granted", "running"},
         NEW s \in States \ {"granted", "running"}
  PROVE  Cardinality(Hold([t EXCEPT ![i] = s])) = Cardinality(Hold(t)) - 1
<1>1. Hold([t EXCEPT ![i] = s]) = Hold(t) \ {i} /\ i \in Hold(t)
  BY DEF Hold
<1> QED  BY <1>1, HoldFinite, FS_RemoveElement

LEMMA HoldSame ==
  ASSUME NEW t \in [Inputs -> States], NEW i \in Inputs, NEW s \in States,
         t[i] \in {"granted", "running"} <=> s \in {"granted", "running"}
  PROVE  Hold([t EXCEPT ![i] = s]) = Hold(t)
  BY DEF Hold

\* _wake_up_next neither makes nor loses a permit.
LEMMA WakeKeeps ==
  ASSUME NEW t \in [Inputs -> States], NEW p \in Nat, Queue(t, waiting), WakeNext(t, p)
  PROVE  /\ task' \in [Inputs -> States] /\ permits' \in Nat /\ Queue(task', waiting')
         /\ permits' + Cardinality(Hold(task')) = p + Cardinality(Hold(t))
         /\ \A k \in 1 .. Len(waiting') : \E l \in 1 .. Len(waiting) : waiting'[k] = waiting[l]
         /\ \A i \in Inputs : task'[i] = t[i] \/ (t[i] = "queued" /\ task'[i] = "granted")
<1>1. CASE waiting # <<>> /\ p > 0
  <2>1. /\ task' = [t EXCEPT ![Head(waiting)] = "granted"]
        /\ waiting' = Tail(waiting) /\ permits' = p - 1
    BY <1>1 DEF WakeNext
  <2>2. waiting \in Seq(Inputs) /\ Len(waiting) > 0
    BY <1>1 DEF Queue
  <2>3. Head(waiting) = waiting[1] /\ waiting[1] \in Inputs /\ t[waiting[1]] = "queued"
    BY <2>2 DEF Queue
  <2>4. Cardinality(Hold(task')) = Cardinality(Hold(t)) + 1
    BY <2>1, <2>3, HoldMore
  <2>5. /\ waiting' \in Seq(Inputs) /\ Len(waiting') = Len(waiting) - 1
        /\ \A k \in 1 .. Len(waiting') : waiting'[k] = waiting[k + 1]
    BY <2>1, <2>2
  <2>6. Queue(task', waiting')
    <3>1. ASSUME NEW k \in 1 .. Len(waiting') PROVE task'[waiting'[k]] = "queued"
      <4>1. k + 1 \in 1 .. Len(waiting) /\ k + 1 # 1 /\ 1 \in 1 .. Len(waiting)
        BY <2>2, <2>5
      <4>2. waiting[k + 1] # waiting[1] /\ t[waiting[k + 1]] = "queued" /\ waiting[k + 1] \in Inputs
        BY <4>1, <2>2 DEF Queue
      <4> QED  BY <4>2, <2>1, <2>3, <2>5
    <3>2. ASSUME NEW k \in 1 .. Len(waiting'), NEW l \in 1 .. Len(waiting'), waiting'[k] = waiting'[l]
          PROVE  k = l
      <4>1. k + 1 \in 1 .. Len(waiting) /\ l + 1 \in 1 .. Len(waiting) /\ waiting[k + 1] = waiting[l + 1]
        BY <3>2, <2>2, <2>5
      <4> QED  BY <4>1 DEF Queue
    <3> QED  BY <2>5, <3>1, <3>2 DEF Queue
  <2>7. task' \in [Inputs -> States] /\ permits' \in Nat
    BY <1>1, <2>1, <2>3 DEF States
  <2>8. p \in Nat /\ Cardinality(Hold(t)) \in Nat
    BY HoldFinite
  <2>9. \A k \in 1 .. Len(waiting') : k + 1 \in 1 .. Len(waiting) /\ waiting'[k] = waiting[k + 1]
    BY <2>2, <2>5
  <2>10. \A i \in Inputs : task'[i] = t[i] \/ (t[i] = "queued" /\ task'[i] = "granted")
    BY <2>1, <2>3
  <2> QED  BY <2>1, <2>3, <2>4, <2>6, <2>7, <2>8, <2>9, <2>10
<1>2. CASE ~(waiting # <<>> /\ p > 0)
  BY <1>2 DEF WakeNext
<1> QED  BY <1>1, <1>2

\* A task that gives its permit back: the end of a graph, and a cancellation
\* between the grant and the start.
LEMMA ReleaseKeeps ==
  ASSUME PInv, NEW i \in Inputs, task[i] \in {"granted", "running"},
         NEW s \in {"returned", "failed", "cancelled"},
         WakeNext([task EXCEPT ![i] = s], permits + 1), UNCHANGED <<bound, asked>>
  PROVE  PInv'
<1> DEFINE t == [task EXCEPT ![i] = s]
<1>1. t \in [Inputs -> States] /\ permits + 1 \in Nat
  BY DEF PInv, States
<1>2. Cardinality(Hold(t)) = Cardinality(Hold(task)) - 1
  BY HoldLess DEF PInv, States
<1>3. Queue(t, waiting)
  BY DEF PInv, Queue
<1>4. /\ task' \in [Inputs -> States] /\ permits' \in Nat /\ Queue(task', waiting')
      /\ permits' + Cardinality(Hold(task')) = permits + 1 + Cardinality(Hold(t))
      /\ \A k \in 1 .. Len(waiting') : \E l \in 1 .. Len(waiting) : waiting'[k] = waiting[l]
  <2> HIDE DEF t
  <2> QED  BY <1>1, <1>3, WakeKeeps DEF t
<1>5. permits' + Cardinality(Hold(task')) = Limit
  BY <1>2, <1>4, HoldFinite DEF PInv
<1>6. Limit' = Limit /\ Untold'
  BY <1>4 DEF Limit, PInv, Untold
<1> QED  BY <1>4, <1>5, <1>6 DEF PInv

-----------------------------------------------------------------------------
\* No permit is out at first.
LEMMA InitPInv == GatherInit => PInv
<1> SUFFICES ASSUME GatherInit PROVE PInv
  OBVIOUS
<1>1. Hold(task) = {}
  BY DEF Hold, GatherInit
<1>2. Limit \in Nat /\ Cardinality({}) = 0
  BY LimitType, FS_EmptySet DEF GatherInit
<1>3. Queue(task, waiting) /\ Untold
  BY DEF Queue, GatherInit, Untold
<1>4. permits = Limit /\ permits + Cardinality(Hold(task)) = Limit
  <2>1. Cardinality(Hold(task)) = 0
    BY <1>1, <1>2
  <2>2. permits = Limit
    BY DEF GatherInit
  <2> QED  BY <2>1, <2>2, <1>2
<1>5. bound \in Bounds /\ task \in [Inputs -> States]
  BY DEF GatherInit, States
<1> QED  BY <1>2, <1>3, <1>4, <1>5 DEF PInv

\* A task that changes its state without touching the semaphore.
LEMMA MoveKeeps ==
  ASSUME PInv, NEW i \in Inputs, NEW s \in States \ {"granted", "running"},
         task[i] \notin {"granted", "running"},
         task' = [task EXCEPT ![i] = s], UNCHANGED <<bound, permits, waiting, asked>>,
         \A k \in 1 .. Len(waiting) : waiting[k] # i
  PROVE  PInv'
<1>1. Hold(task') = Hold(task) /\ Limit' = Limit
  BY HoldSame DEF PInv, States, Limit
<1>2. Queue(task', waiting') /\ Untold'
  BY DEF PInv, Queue, Untold
<1> QED  BY <1>1, <1>2 DEF PInv, States

\* Permits are conserved by every step of the tasks and of the semaphore.
LEMMA BeginKeeps == ASSUME PInv, NEW i \in Inputs, Begin(i) PROVE PInv'
<1> USE DEF PInv, Begin, Startable, Untold
<1>1. Limit' = Limit /\ \A k \in 1 .. Len(waiting) : waiting[k] # i
  BY DEF Limit, Queue
<1>2. CASE Free
  <2>1. Cardinality(Hold(task')) = Cardinality(Hold(task)) + 1
    BY <1>2, HoldMore
  <2>2. Queue(task', waiting')
    BY <1>1, <1>2 DEF Queue
  <2>3. permits' = permits - 1 /\ permits > 0
    BY <1>2 DEF Free
  <2> QED  BY <1>1, <1>2, <2>1, <2>2, <2>3, HoldFinite DEF States
<1>3. CASE ~Free
  <2>1. Hold(task') = Hold(task)
    <3>1. task' = [task EXCEPT ![i] = "queued"] /\ task[i] = "new" /\ task \in [Inputs -> States]
      BY <1>3
    <3> QED  BY <3>1 DEF Hold
  <2>2. Queue(task', waiting')
    <3>1. waiting' \in Seq(Inputs) /\ Len(waiting') = Len(waiting) + 1
      BY <1>3 DEF Queue
    <3>2. \A k \in 1 .. Len(waiting') : waiting'[k] = IF k = Len(waiting) + 1 THEN i ELSE waiting[k]
      BY <1>3 DEF Queue
    <3>3. \A k \in 1 .. Len(waiting') : k = Len(waiting) + 1 \/ k \in 1 .. Len(waiting)
      BY <3>1 DEF Queue
    <3>4. \A k \in 1 .. Len(waiting') : task'[waiting'[k]] = "queued"
      BY <1>1, <1>3, <3>2, <3>3 DEF Queue
    <3>5. \A k, l \in 1 .. Len(waiting') : waiting'[k] = waiting'[l] => k = l
      BY <1>1, <3>2, <3>3 DEF Queue
    <3> QED  BY <3>1, <3>4, <3>5 DEF Queue
  <2>3. Untold'
    BY <1>3 DEF Queue
  <2> QED  BY <1>1, <1>3, <2>1, <2>2, <2>3 DEF States
<1> QED  BY <1>2, <1>3

\* A task that resumes has its permit already.
LEMMA ResumeKeeps == ASSUME PInv, NEW i \in Inputs, Resume(i) PROVE PInv'
<1> DEFINE t == [task EXCEPT ![i] = "running"]
<1>1. t \in [Inputs -> States] /\ permits \in Nat /\ task[i] = "granted"
  BY DEF PInv, States, Resume
<1>2. Hold(t) = Hold(task)
  BY <1>1, HoldSame DEF PInv, States
<1>3. Queue(t, waiting)
  BY <1>1 DEF PInv, Queue
<1>4. /\ task' \in [Inputs -> States] /\ permits' \in Nat /\ Queue(task', waiting')
      /\ permits' + Cardinality(Hold(task')) = permits + Cardinality(Hold(t))
      /\ \A k \in 1 .. Len(waiting') : \E l \in 1 .. Len(waiting) : waiting'[k] = waiting[l]
  <2>1. WakeNext(t, permits)
    BY DEF Resume
  <2> HIDE DEF t
  <2> QED  BY <1>1, <1>3, <2>1, WakeKeeps
<1> QED  BY <1>2, <1>4 DEF PInv, Limit, Resume, Untold

\* Every step keeps it.
LEMMA NextPInv == PInv /\ [GatherNext]_gvars => PInv'
<1> SUFFICES ASSUME PInv, [GatherNext]_gvars PROVE PInv'
  OBVIOUS
<1>1. ASSUME UNCHANGED <<bound, task, permits, waiting, asked>> PROVE PInv'
  BY <1>1 DEF PInv, Queue, Limit, Hold, Untold
<1>2. CASE Call \/ Notice \/ Collect \/ UNCHANGED gvars
  BY <1>1, <1>2 DEF Call, Notice, Collect, gvars
<1>3. CASE Cancel
  <2>1. UNCHANGED <<bound, task, permits>> /\ (waiting' = <<>> \/ waiting' = waiting)
    BY <1>3 DEF Cancel
  <2>2. Queue(task', waiting')
    <3>1. CASE waiting' = <<>>
      BY <3>1 DEF Queue
    <3>2. CASE waiting' = waiting
      BY <3>2, <2>1 DEF PInv, Queue
    <3> QED  BY <2>1, <3>1, <3>2
  <2>3. Untold'
    BY <1>3 DEF PInv, Untold, Cancel
  <2>4. Limit' = Limit /\ Hold(task') = Hold(task)
    BY <2>1 DEF Limit, Hold
  <2> QED  BY <2>1, <2>2, <2>3, <2>4 DEF PInv
<1>4. ASSUME NEW i \in Inputs, Begin(i) PROVE PInv'
  BY <1>4, BeginKeeps
<1>5. ASSUME NEW i \in Inputs, Resume(i) PROVE PInv'
  BY <1>5, ResumeKeeps
<1>6. ASSUME NEW i \in Inputs, Withdraw(i) PROVE PInv'
  <2>1. task[i] \in {"new", "queued"} /\ i \in asked
    BY <1>6 DEF Withdraw, Startable
  <2>2. \A k \in 1 .. Len(waiting) : waiting[k] # i
    BY <2>1 DEF PInv, Untold
  <2>3. task' = [task EXCEPT ![i] = "cancelled"] /\ UNCHANGED <<bound, permits, waiting, asked>>
    BY <1>6 DEF Withdraw, Finish
  <2> QED  BY <2>1, <2>2, <2>3, MoveKeeps DEF States
<1>7. ASSUME NEW i \in Inputs, Forfeit(i) PROVE PInv'
  BY <1>7, ReleaseKeeps DEF Forfeit, Finish
<1>8. ASSUME NEW i \in Inputs, NEW how \in Outcomes, Settle(i, how) PROVE PInv'
  BY <1>8, ReleaseKeeps DEF Settle, Finish, Outcomes
<1> QED  BY <1>2, <1>3, <1>4, <1>5, <1>6, <1>7, <1>8 DEF GatherNext, Loop, Work

\* Whoever runs holds a permit.
LEMMA PInvBound == PInv => BoundKept
<1> SUFFICES ASSUME PInv, bound # Unbounded PROVE Cardinality(Running) <= bound
  BY DEF BoundKept
<1>1. Running \subseteq Hold(task)
  BY DEF Running, Hold
<1>2. Cardinality(Running) <= Cardinality(Hold(task)) /\ Cardinality(Running) \in Nat
  BY <1>1, HoldFinite, FS_Subset, FS_CardinalityType
<1>3. Limit = bound /\ bound \in Nat
  BY BoundsAssumption DEF Limit, PInv
<1> QED  BY <1>2, <1>3, HoldFinite DEF PInv

\* For any number of inputs and any bound: no more graphs run at once than
\* max_concurrency allows.
THEOREM BoundIsKept == GatherSpec => []BoundKept
<1> QED  BY InitPInv, NextPInv, PInvBound, PTL DEF GatherSpec

-----------------------------------------------------------------------------
LiveStates == {"new", "queued", "granted", "running"}
Settled(t) == {i \in Inputs : t[i] \in Outcomes}

\* The results gather has collected, and what its future knows of them.
OInv ==
  /\ asked \subseteq Inputs
  /\ finished \in Seq(Inputs) /\ noticed \in 0 .. Len(finished)
  /\ \A k \in 1 .. Len(finished) : finished[k] \in Settled(task)
  /\ \A i \in Settled(task) : \E k \in 1 .. Len(finished) : finished[k] = i
  /\ Cardinality(Settled(task)) = Len(finished)
  /\ outer \in {"pending", "result", "error"}
  /\ outer # "error" => \A k \in 1 .. noticed : task[finished[k]] = "returned"
  /\ outer = "result" => noticed = N
  /\ outer = "error" => \E i \in Inputs : task[i] \in {"failed", "cancelled"}
  /\ \A i \in Inputs : task[i] = "cancelled" => i \in asked
  /\ asked # {} => \A i \in Inputs : Live(i) => i \in asked
  /\ asked # {} => cancelling
  /\ caller = "calling" => \A i \in Inputs : task[i] = "new"
  /\ caller = "returned" => outer = "result"
  /\ LeftBehind

\* The inputs that settled can be counted.
LEMMA SettledFinite == ASSUME NEW t PROVE IsFiniteSet(Settled(t)) /\ Cardinality(Settled(t)) \in 0 .. N
<1>1. IsFiniteSet(Inputs) /\ Cardinality(Inputs) = N
  BY FS_Interval, InputsAssumption DEF Inputs
<1>2. Settled(t) \subseteq Inputs
  BY DEF Settled
<1> QED  BY <1>1, <1>2, FS_Subset, FS_CardinalityType, InputsAssumption

\* Once as many tasks have finished as there are, none is left.
LEMMA AllSettled ==
  ASSUME OInv, outer = "result" PROVE \A i \in Inputs : task[i] = "returned"
<1>1. Len(finished) = N /\ noticed = N
  BY SettledFinite, InputsAssumption DEF OInv
<1>2. IsFiniteSet(Inputs) /\ Cardinality(Inputs) = N
  BY FS_Interval, InputsAssumption DEF Inputs
<1>3. Settled(task) \subseteq Inputs /\ Cardinality(Settled(task)) = Cardinality(Inputs)
  BY <1>1, <1>2 DEF OInv, Settled
<1>4. Settled(task) = Inputs
  BY <1>2, <1>3, FS_Subset
<1> SUFFICES ASSUME NEW i \in Inputs PROVE task[i] = "returned"
  OBVIOUS
<1>5. PICK k \in 1 .. Len(finished) : finished[k] = i
  BY <1>4 DEF OInv
<1> QED  BY <1>1, <1>5 DEF OInv

\* The two ways in which a step changes tasks: live tasks stay live, and at
\* most one of them settles and enters the list of the finished.
Alike(i) == task'[i] = task[i] \/ (task[i] \in LiveStates /\ task'[i] \in LiveStates)
Onwards == UNCHANGED finished /\ \A j \in Inputs : Alike(j)
EndOf(i) ==
  /\ task[i] \in LiveStates /\ task'[i] \in Outcomes
  /\ task'[i] = "cancelled" => i \in asked
  /\ finished' = Append(finished, i)
  /\ \A j \in Inputs \ {i} : Alike(j)

\* A task that ends has settled.
LEMMA EndsSettle ==
  ASSUME OInv, PInv, NEW i \in Inputs, EndOf(i)
  PROVE  /\ Settled(task') = Settled(task) \cup {i} /\ i \notin Settled(task)
         /\ Cardinality(Settled(task')) = Cardinality(Settled(task)) + 1
<1>1. Settled(task') = Settled(task) \cup {i} /\ i \notin Settled(task)
  BY DEF EndOf, Settled, Alike, LiveStates, Outcomes
<1> QED  BY <1>1, SettledFinite, FS_AddElement

\* A task that settles keeps what is known of the others.
LEMMA EndKeeps ==
  ASSUME OInv, PInv, NEW i \in Inputs, EndOf(i), caller # "calling",
         UNCHANGED <<asked, noticed, outer, caller, cancelling>>
  PROVE  OInv'
<1> USE DEF OInv
<1>1. /\ Settled(task') = Settled(task) \cup {i} /\ i \notin Settled(task)
      /\ Cardinality(Settled(task')) = Cardinality(Settled(task)) + 1
  BY EndsSettle
<1>2. /\ finished' \in Seq(Inputs) /\ Len(finished') = Len(finished) + 1 /\ Len(finished) \in Nat
      /\ \A k \in 1 .. Len(finished') : finished'[k] = IF k = Len(finished) + 1 THEN i ELSE finished[k]
  BY DEF EndOf
<1>3. \A k \in 1 .. Len(finished') : k = Len(finished) + 1 \/ k \in 1 .. Len(finished)
  BY <1>2
<1>4. \A k \in 1 .. Len(finished') : finished'[k] \in Settled(task')
  BY <1>1, <1>2, <1>3
<1>5. \A j \in Settled(task') : \E k \in 1 .. Len(finished') : finished'[k] = j
  <2> SUFFICES ASSUME NEW j \in Settled(task') PROVE \E k \in 1 .. Len(finished') : finished'[k] = j
    OBVIOUS
  <2>1. CASE j = i
    BY <1>2, <2>1
  <2>2. CASE j # i
    <3>1. PICK k \in 1 .. Len(finished) : finished[k] = j
      BY <1>1, <2>2
    <3> QED  BY <1>2, <3>1
  <2> QED  BY <2>1, <2>2
<1>6. \A j \in Inputs : task[j] \in Outcomes => task'[j] = task[j]
  BY DEF EndOf, Alike, LiveStates, Outcomes
<1>7. outer # "error" => \A k \in 1 .. noticed : task'[finished'[k]] = "returned"
  <2> SUFFICES ASSUME outer # "error", NEW k \in 1 .. noticed PROVE task'[finished'[k]] = "returned"
    OBVIOUS
  <2>1. k \in 1 .. Len(finished) /\ k # Len(finished) + 1 /\ finished[k] \in Inputs
    BY <1>2
  <2>2. finished'[k] = finished[k] /\ task[finished[k]] = "returned"
    BY <1>2, <2>1
  <2> QED  BY <1>6, <2>1, <2>2 DEF Outcomes
<1>8. \A j \in Inputs : (task'[j] = "cancelled" => j \in asked) /\ (Live(j)' => Live(j))
  BY DEF EndOf, Alike, LiveStates, Outcomes, Live
<1>9. outer = "error" => \E j \in Inputs : task'[j] \in {"failed", "cancelled"}
  BY <1>6 DEF Outcomes
<1>10. LeftBehind'
  <2>1. CASE caller = "returned"
    BY <2>1, AllSettled DEF EndOf, LiveStates
  <2>2. CASE caller = "raised"
    <3>1. (\A j \in Inputs : task'[j] # "failed") => \A j \in Inputs : task[j] # "failed"
      BY <1>6 DEF Outcomes
    <3> QED  BY <1>8, <2>2, <3>1 DEF LeftBehind
  <2> QED  BY <2>1, <2>2 DEF LeftBehind
<1>11. asked # {} => \A j \in Inputs : Live(j)' => j \in asked
  BY <1>8
<1>12. noticed \in 0 .. Len(finished') /\ Cardinality(Settled(task')) = Len(finished')
  BY <1>1, <1>2
<1>13. UNCHANGED <<outer, asked, noticed, caller, cancelling>>
  OBVIOUS
<1> QED  BY <1>2, <1>4, <1>5, <1>7, <1>8, <1>9, <1>10, <1>11, <1>12, <1>13

\* Tasks that only move on change nothing of what is known.
LEMMA OnwardsKeeps ==
  ASSUME OInv, PInv, Onwards, caller # "calling",
         UNCHANGED <<asked, noticed, outer, caller, cancelling>>
  PROVE  OInv'
<1> USE DEF OInv
<1>1. \A j \in Inputs : /\ task[j] \in Outcomes <=> task'[j] \in Outcomes
                        /\ task[j] \in Outcomes => task'[j] = task[j]
                        /\ Live(j)' <=> Live(j)
  <2> SUFFICES ASSUME NEW j \in Inputs
               PROVE  /\ task[j] \in Outcomes <=> task'[j] \in Outcomes
                      /\ task[j] \in Outcomes => task'[j] = task[j]
                      /\ Live(j)' <=> Live(j)
    OBVIOUS
  <2>1. Alike(j)
    BY DEF Onwards
  <2> QED  BY <2>1 DEF Alike, LiveStates, Outcomes, Live
<1>2. Settled(task') = Settled(task)
  BY <1>1 DEF Settled
<1>3. outer # "error" => \A k \in 1 .. noticed : task'[finished'[k]] = "returned"
  <2> SUFFICES ASSUME outer # "error", NEW k \in 1 .. noticed PROVE task'[finished'[k]] = "returned"
    OBVIOUS
  <2>1. k \in 1 .. Len(finished) /\ finished[k] \in Inputs /\ finished' = finished
    BY DEF Onwards
  <2> QED  BY <1>1, <2>1 DEF Outcomes
<1>4. \A j \in Inputs : /\ (task'[j] = "cancelled" <=> task[j] = "cancelled")
                        /\ (task'[j] = "failed" <=> task[j] = "failed")
                        /\ (task[j] = "returned" => task'[j] = "returned")
  BY <1>1 DEF Outcomes
<1>5. LeftBehind'
  BY <1>1, <1>4 DEF LeftBehind
<1>6. UNCHANGED <<finished, asked, noticed, outer, caller, cancelling>>
  BY DEF Onwards
<1> QED  BY <1>1, <1>2, <1>3, <1>4, <1>5, <1>6

\* Nothing has ended at first.
LEMMA InitOInv == GatherInit => OInv
<1> SUFFICES ASSUME GatherInit PROVE OInv
  OBVIOUS
<1>1. Settled(task) = {} /\ Cardinality({}) = 0
  BY FS_EmptySet DEF Settled, GatherInit, Outcomes
<1>2. /\ finished = <<>> /\ Len(finished) = 0 /\ noticed = 0 /\ asked = {}
      /\ outer = "pending" /\ caller = "calling"
  BY DEF GatherInit
<1>3. \A i \in Inputs : task[i] = "new"
  BY DEF GatherInit
<1> QED  BY <1>1, <1>2, <1>3 DEF OInv, LeftBehind

\* What a release of the permit does to the tasks.
LEMMA ReleaseEnds ==
  ASSUME PInv, NEW i \in Inputs, task[i] \in {"granted", "running"}, NEW s \in Outcomes,
         s = "cancelled" => i \in asked,
         WakeNext([task EXCEPT ![i] = s], permits + 1), finished' = Append(finished, i)
  PROVE  EndOf(i)
<1> DEFINE t == [task EXCEPT ![i] = s]
<1>1. t \in [Inputs -> States] /\ permits + 1 \in Nat /\ Queue(t, waiting)
  BY DEF PInv, States, Outcomes, Queue
<1>2. \A j \in Inputs : task'[j] = t[j] \/ (t[j] = "queued" /\ task'[j] = "granted")
  <2> HIDE DEF t
  <2> QED  BY <1>1, WakeKeeps DEF t
<1>3. t[i] = s /\ \A j \in Inputs \ {i} : t[j] = task[j]
  BY DEF PInv
<1>4. task'[i] = s /\ task[i] \in LiveStates
  BY <1>2, <1>3 DEF Outcomes, LiveStates
<1>5. \A j \in Inputs \ {i} : Alike(j)
  BY <1>2, <1>3 DEF Alike, LiveStates
<1> QED  BY <1>4, <1>5 DEF EndOf

\* A task that resumes has not ended.
LEMMA ResumeMovesOn == ASSUME PInv, NEW i \in Inputs, Resume(i) PROVE Onwards
<1> DEFINE t == [task EXCEPT ![i] = "running"]
<1>1. t \in [Inputs -> States] /\ permits \in Nat /\ Queue(t, waiting) /\ WakeNext(t, permits)
  BY DEF PInv, States, Resume, Queue
<1>2. \A j \in Inputs : task'[j] = t[j] \/ (t[j] = "queued" /\ task'[j] = "granted")
  <2> HIDE DEF t
  <2> QED  BY <1>1, WakeKeeps
<1>3. t[i] = "running" /\ task[i] = "granted" /\ \A j \in Inputs \ {i} : t[j] = task[j]
  BY DEF PInv, Resume
<1>4. \A j \in Inputs : Alike(j)
  BY <1>2, <1>3 DEF Alike, LiveStates
<1> QED  BY <1>4 DEF Onwards, Resume

\* Every step keeps it.
LEMMA NextOInv == OInv /\ PInv /\ [GatherNext]_gvars => OInv'
<1> SUFFICES ASSUME OInv, PInv, [GatherNext]_gvars PROVE OInv'
  OBVIOUS
<1>1. CASE UNCHANGED gvars
  BY <1>1 DEF gvars, OInv, Settled, Live, LeftBehind
<1>2. CASE Call
  <2>1. /\ UNCHANGED <<task, asked, finished, noticed, cancelling>>
        /\ caller' \in {"refused", "awaiting"} /\ caller = "calling"
    BY <1>2 DEF Call
  <2>2. Settled(task') = Settled(task) /\ \A i \in Inputs : Live(i)' <=> Live(i)
    BY <2>1 DEF Settled, Live
  <2>3. LeftBehind'
    BY <2>1 DEF LeftBehind
  <2>4. CASE N = 0
    <3>1. outer' = "result" /\ Cardinality(Settled(task)) \in 0 .. N /\ Len(finished) = 0 /\ noticed = N
      BY <1>2, <2>4, SettledFinite DEF Call, OInv
    <3> QED  BY <2>1, <2>2, <2>3, <2>4, <3>1 DEF OInv
  <2>5. CASE N # 0
    <3>1. outer' = "pending"
      BY <1>2, <2>5 DEF Call
    <3>2. \A i \in Inputs : task[i] = "new"
      BY <2>1 DEF OInv
    <3>3. Settled(task) = {}
      BY <3>2 DEF Settled, Outcomes
    <3>4. noticed = 0
      BY <3>3, FS_EmptySet DEF OInv
    <3> QED  BY <2>1, <2>2, <2>3, <3>1, <3>4 DEF OInv
  <2> QED  BY <2>4, <2>5
<1>3. ASSUME NEW i \in Inputs, Begin(i) PROVE OInv'
  <2>1. Onwards
    BY <1>3 DEF Onwards, Alike, Begin, Startable, LiveStates, PInv
  <2> QED  BY <1>3, <2>1, OnwardsKeeps DEF Begin, Startable
<1>4. ASSUME NEW i \in Inputs, Resume(i) PROVE OInv'
  <2>1. caller # "calling"
    BY <1>4 DEF OInv, Resume
  <2> QED  BY <1>4, <2>1, ResumeMovesOn, OnwardsKeeps DEF Resume
<1>5. ASSUME NEW i \in Inputs, Withdraw(i) PROVE OInv'
  <2>1. EndOf(i)
    BY <1>5 DEF EndOf, Alike, Withdraw, Startable, Finish, LiveStates, Outcomes, PInv
  <2>2. caller # "calling"
    BY <1>5 DEF OInv, Withdraw, Startable
  <2> QED  BY <1>5, <2>1, <2>2, EndKeeps DEF Withdraw, Finish
<1>6. ASSUME NEW i \in Inputs, Forfeit(i) PROVE OInv'
  <2>1. EndOf(i)
    BY <1>6, ReleaseEnds DEF Forfeit, Finish, Outcomes
  <2>2. caller # "calling"
    BY <1>6 DEF OInv, Forfeit, Startable
  <2> QED  BY <1>6, <2>1, <2>2, EndKeeps DEF Forfeit, Finish
<1>7. ASSUME NEW i \in Inputs, NEW how \in Outcomes, Settle(i, how) PROVE OInv'
  <2>1. EndOf(i)
    BY <1>7, ReleaseEnds DEF Settle, Finish
  <2>2. caller # "calling"
    BY <1>7 DEF OInv, Settle, Startable
  <2> QED  BY <1>7, <2>1, <2>2, EndKeeps DEF Settle, Finish
<1>8. CASE Notice
  <2>1. /\ UNCHANGED <<task, finished, asked, caller, cancelling>> /\ noticed' = noticed + 1
        /\ noticed \in 0 .. Len(finished) /\ noticed < Len(finished) /\ Len(finished) \in Nat
    BY <1>8 DEF Notice, OInv
  <2>2. Settled(task') = Settled(task) /\ LeftBehind' /\ \A i \in Inputs : Live(i)' <=> Live(i)
    BY <2>1 DEF Settled, LeftBehind, Live, OInv
  <2>3. finished[noticed + 1] \in Settled(task) /\ noticed' \in 0 .. Len(finished)
    BY <2>1 DEF OInv
  <2>4. CASE outer # "pending"
    <3>1. outer' = outer /\ (outer = "result" => noticed = N)
      BY <1>8, <2>4 DEF Notice, OInv
    <3>2. outer # "result"
      BY <2>1, <3>1, SettledFinite, InputsAssumption DEF OInv
    <3>3. outer = "error"
      BY <2>4, <3>2 DEF OInv
    <3> QED  BY <2>1, <2>2, <2>3, <3>1, <3>3 DEF OInv
  <2>5. CASE outer = "pending" /\ task[finished[noticed + 1]] # "returned"
    <3>1. outer' = "error"
      BY <1>8, <2>5 DEF Notice
    <3>2. task[finished[noticed + 1]] \in {"failed", "cancelled"} /\ finished[noticed + 1] \in Inputs
      BY <2>3, <2>5 DEF Settled, Outcomes
    <3> QED  BY <2>1, <2>2, <2>3, <2>5, <3>1, <3>2 DEF OInv
  <2>6. CASE outer = "pending" /\ task[finished[noticed + 1]] = "returned"
    <3>1. outer' = IF noticed + 1 = N THEN "result" ELSE "pending"
      BY <1>8, <2>6 DEF Notice
    <3>2. \A k \in 1 .. noticed' : task'[finished'[k]] = "returned"
      <4> SUFFICES ASSUME NEW k \in 1 .. noticed' PROVE task'[finished'[k]] = "returned"
        OBVIOUS
      <4>1. k = noticed + 1 \/ k \in 1 .. noticed
        BY <2>1
      <4> QED  BY <2>1, <2>6, <4>1 DEF OInv
    <3> QED  BY <2>1, <2>2, <2>3, <2>6, <3>1, <3>2 DEF OInv
  <2> QED  BY <2>4, <2>5, <2>6
<1>9. CASE Cancel
  <2>1. UNCHANGED <<task, finished, noticed, outer, caller>> /\ caller = "awaiting" /\ cancelling'
    BY <1>9 DEF Cancel
  <2>2. asked' = asked \/ (outer = "pending" /\ asked' = ToTell)
    BY <1>9 DEF Cancel
  <2>3. Settled(task') = Settled(task) /\ LeftBehind' /\ \A i \in Inputs : Live(i)' <=> Live(i)
    BY <2>1 DEF Settled, LeftBehind, Live
  <2>4. asked' \subseteq Inputs /\ (asked' # {} => \A i \in Inputs : Live(i)' => i \in asked')
    BY <2>2, <2>3 DEF ToTell, OInv
  <2>5. \A i \in Inputs : task'[i] = "cancelled" => i \in asked'
    <3>1. CASE asked' = asked
      BY <2>1, <3>1 DEF OInv
    <3>2. CASE outer = "pending" /\ asked' = ToTell
      <4> SUFFICES ASSUME NEW i \in Inputs, task[i] = "cancelled" PROVE i \in asked'
        BY <2>1
      <4>1. i \in asked /\ ~cancelling
        BY <1>9 DEF OInv, Cancel
      <4> QED  BY <4>1 DEF OInv
    <3> QED  BY <2>2, <3>1, <3>2
  <2> QED  BY <2>1, <2>3, <2>4, <2>5 DEF OInv
<1>10. CASE Collect
  <2>1. /\ UNCHANGED <<task, finished, asked, noticed, outer, cancelling>> /\ outer \in {"result", "error"}
        /\ caller' = IF outer = "result" /\ ~cancelling THEN "returned" ELSE "raised"
    BY <1>10 DEF Collect, OInv
  <2>2. Settled(task') = Settled(task) /\ \A i \in Inputs : Live(i)' <=> Live(i)
    BY <2>1 DEF Settled, Live
  <2>3. LeftBehind'
    <3>1. CASE outer = "result"
      <4>1. \A i \in Inputs : task'[i] = "returned"
        BY <2>1, <3>1, AllSettled
      <4> QED  BY <4>1 DEF LeftBehind, Live
    <3>2. CASE outer = "error"
      <4>1. caller' = "raised"
        BY <2>1, <3>2
      <4>2. (\A i \in Inputs : task[i] # "failed") => asked # {}
        BY <3>2 DEF OInv
      <4> QED  BY <2>1, <2>2, <4>1, <4>2 DEF LeftBehind, OInv
    <3> QED  BY <2>1, <3>1, <3>2
  <2> QED  BY <2>1, <2>2, <2>3 DEF OInv
<1> QED  BY <1>1, <1>2, <1>3, <1>4, <1>5, <1>6, <1>7, <1>8, <1>9, <1>10 DEF GatherNext, Loop, Work

\* For any number of inputs and any bound: a return means that nothing is
\* left, and behind a caller that was only cancelled run only tasks that were
\* told to stop.
THEOREM NothingElseIsLeft == GatherSpec => []LeftBehind
<1>1. OInv => LeftBehind
  BY DEF OInv
<1>2. PInv /\ OInv /\ [GatherNext]_gvars => (PInv /\ OInv)'
  BY NextPInv, NextOInv
<1> QED  BY InitPInv, InitOInv, <1>1, <1>2, PTL DEF GatherSpec

-----------------------------------------------------------------------------
\* A step of the tools is a step of the tasks or none at all.
LEMMA ToolStep == ToolNext => [GatherNext]_gvars
<1> SUFFICES ASSUME ToolNext PROVE [GatherNext]_gvars
  OBVIOUS
<1>1. ASSUME NEW i \in Inputs, NEW how \in Outcomes, Ends(i, how) PROVE GatherNext
  BY <1>1 DEF Ends, GatherNext, Work
<1>2. CASE Loop \/ Collect
  BY <1>2 DEF GatherNext
<1>3. ASSUME NEW i \in Inputs, Tool(i) PROVE [GatherNext]_gvars
  <2>1. CASE Spawn(i) \/ Timeout(i)
    BY <2>1 DEF Spawn, Timeout
  <2>2. CASE SpawnFails(i) \/ Read(i) \/ KillMisses(i) \/ Reap(i) \/ Leave(i)
    <3>1. \E how \in Outcomes : Ends(i, how)
      BY <2>2 DEF SpawnFails, Read, KillMisses, Reap, Leave, Outcomes
    <3> QED  BY <1>1, <3>1
  <2> QED  BY <1>3, <2>1, <2>2 DEF Tool
<1>4. ASSUME NEW i \in Inputs, Plain(i) PROVE GatherNext
  <2>1. \E how \in Outcomes : Ends(i, how)
    BY <1>4 DEF Plain, Leave, Outcomes
  <2> QED  BY <1>1, <2>1
<1>5. ASSUME NEW i \in Inputs, Exit(i) \/ LetGo(i) PROVE UNCHANGED gvars
  BY <1>5 DEF Exit, LetGo
<1> QED  BY <1>2, <1>3, <1>4, <1>5 DEF ToolNext, Branch

\* What a task has come to is final.
LEMMA OutcomesStay ==
  ASSUME PInv, [GatherNext]_gvars, NEW i \in Inputs, task[i] \in Outcomes
  PROVE  task'[i] = task[i]
<1>1. CASE UNCHANGED gvars \/ Call \/ Notice \/ Cancel \/ Collect
  BY <1>1 DEF gvars, Call, Notice, Cancel, Collect
<1>2. ASSUME NEW j \in Inputs, EndOf(j) PROVE task'[i] = task[i]
  BY <1>2 DEF EndOf, Alike, LiveStates, Outcomes
<1>3. CASE Onwards
  BY <1>3 DEF Onwards, Alike, LiveStates, Outcomes
<1>4. ASSUME NEW j \in Inputs, Begin(j) PROVE Onwards
  BY <1>4 DEF Onwards, Alike, Begin, Startable, LiveStates, PInv
<1>5. ASSUME NEW j \in Inputs, Withdraw(j) PROVE EndOf(j)
  BY <1>5 DEF EndOf, Alike, Withdraw, Startable, Finish, LiveStates, Outcomes, PInv
<1>6. ASSUME NEW j \in Inputs, Forfeit(j) PROVE EndOf(j)
  BY <1>6, ReleaseEnds DEF Forfeit, Finish, Outcomes
<1>7. ASSUME NEW j \in Inputs, NEW how \in Outcomes, Settle(j, how) PROVE EndOf(j)
  BY <1>7, ReleaseEnds DEF Settle, Finish
<1>8. CASE Loop
  BY <1>1, <1>2, <1>3, <1>4, <1>5, <1>6, <1>8, ResumeMovesOn DEF Loop
<1>9. CASE Work
  BY <1>2, <1>7, <1>9 DEF Work
<1> QED  BY <1>1, <1>8, <1>9 DEF GatherNext

\* For any branches, tools and bound: no more tasks run at once than allowed,
\* and a caller that has resumed leaves behind only what LeftBehind says.
THEOREM ToolsKeepTheBound == ToolSpec => [](BoundKept /\ LeftBehind)
<1>1. ToolInit => PInv /\ OInv
  BY InitPInv, InitOInv DEF ToolInit
<1>2. PInv /\ OInv /\ [ToolNext]_tvars => (PInv /\ OInv)'
  <2>1. [ToolNext]_tvars => [GatherNext]_gvars
    BY ToolStep DEF tvars, running
  <2> QED  BY <2>1, NextPInv, NextOInv
<1>3. PInv /\ OInv => BoundKept /\ LeftBehind
  BY PInvBound DEF OInv
<1> QED  BY <1>1, <1>2, <1>3, PTL DEF ToolSpec

-----------------------------------------------------------------------------
ChildStates == {"none", "running", "succeeded", "failed", "killed"}

\* What a branch has done with its child.
CInv ==
  /\ phase \in [Inputs -> {"idle", "reading", "reaping", "ended"}]
  /\ child \in [Inputs -> ChildStates]
  /\ \A i \in Inputs :
       /\ child[i] = "running" => i \in Tools
       /\ phase[i] = "idle" => child[i] = "none"
       /\ phase[i] = "reaping" => child[i] # "running"
       /\ phase[i] = "ended" => /\ task[i] \in Outcomes
                                /\ child[i] = "running" => task[i] = "cancelled"

\* Nothing is done at first.
LEMMA InitCInv == ToolInit => CInv
  BY DEF ToolInit, CInv, ChildStates

\* A branch may end when its child is not running, or when it is cancelled.
LEMMA EndsKeeps ==
  ASSUME PInv, CInv, NEW i \in Inputs, NEW how \in Outcomes, Ends(i, how),
         child[i] # "running" \/ how = "cancelled"
  PROVE  CInv'
<1>1. Settle(i, how) /\ phase' = [phase EXCEPT ![i] = "ended"] /\ UNCHANGED child
  BY DEF Ends
<1>2. task'[i] = how
  <2> DEFINE t == [task EXCEPT ![i] = how]
  <2>1. t \in [Inputs -> States] /\ permits + 1 \in Nat /\ Queue(t, waiting) /\ WakeNext(t, permits + 1)
    BY <1>1 DEF Settle, PInv, States, Outcomes, Queue
  <2>2. task'[i] = t[i] \/ t[i] = "queued"
    <3> HIDE DEF t
    <3> QED  BY <2>1, WakeKeeps
  <2>3. t[i] = how
    BY DEF PInv
  <2> QED  BY <2>2, <2>3 DEF Outcomes
<1>3. [GatherNext]_gvars
  BY <1>1 DEF GatherNext, Work
<1>4. \A j \in Inputs : task[j] \in Outcomes => task'[j] = task[j]
  BY <1>3, OutcomesStay
<1> QED  BY <1>1, <1>2, <1>4 DEF CInv

\* Every step keeps it.
LEMMA NextCInv == PInv /\ CInv /\ [ToolNext]_tvars => CInv'
<1> SUFFICES ASSUME PInv, CInv, [ToolNext]_tvars PROVE CInv'
  OBVIOUS
<1>1. ASSUME UNCHANGED <<task, phase, child>> PROVE CInv'
  BY <1>1 DEF CInv
<1>2. CASE UNCHANGED tvars
  BY <1>1, <1>2 DEF tvars, running, gvars, tools
<1>3. CASE (Loop \/ Collect) /\ UNCHANGED tools
  <2>1. \A j \in Inputs : task[j] \in Outcomes => task'[j] = task[j]
    BY <1>3, OutcomesStay DEF GatherNext
  <2> QED  BY <1>3, <2>1 DEF CInv, tools
<1>4. ASSUME NEW i \in Inputs, i \in Tools, Tool(i) PROVE CInv'
  <2>1. CASE Spawn(i)
    BY <1>4, <2>1 DEF Spawn, CInv, ChildStates, gvars
  <2>2. CASE SpawnFails(i)
    <3>1. Ends(i, "failed") /\ "failed" \in Outcomes
      BY <2>2 DEF SpawnFails, Outcomes
    <3>2. child[i] # "running"
      BY <2>2 DEF SpawnFails, CInv
    <3> QED  BY <3>1, <3>2, EndsKeeps
  <2>3. CASE Read(i) \/ KillMisses(i) \/ Reap(i)
    <3>1. PICK how \in Outcomes : Ends(i, how)
      BY <2>3 DEF Read, KillMisses, Reap, Outcomes
    <3>2. child[i] # "running"
      BY <2>3 DEF Read, KillMisses, Reap, Communicated, Gone
    <3> QED  BY <3>1, <3>2, EndsKeeps
  <2>4. CASE Timeout(i)
    BY <2>4 DEF Timeout, Killed, CInv, ChildStates, gvars
  <2>5. CASE Leave(i)
    <3>1. Ends(i, "cancelled") /\ "cancelled" \in Outcomes
      BY <2>5 DEF Leave, Outcomes
    <3> QED  BY <3>1, EndsKeeps
  <2> QED  BY <1>4, <2>1, <2>2, <2>3, <2>4, <2>5 DEF Tool
<1>5. ASSUME NEW i \in Inputs, i \notin Tools, Plain(i) PROVE CInv'
  <2>1. PICK how \in Outcomes : Ends(i, how)
    BY <1>5 DEF Plain, Leave, Outcomes
  <2>2. child[i] # "running"
    BY <1>5 DEF CInv
  <2> QED  BY <2>1, <2>2, EndsKeeps
<1>6. ASSUME NEW i \in Inputs, Exit(i) PROVE CInv'
  BY <1>6 DEF Exit, CInv, ChildStates, gvars
<1>7. ASSUME NEW i \in Inputs, LetGo(i) PROVE CInv'
  BY <1>1, <1>7 DEF LetGo, gvars
<1> QED  BY <1>2, <1>3, <1>4, <1>5, <1>6, <1>7 DEF ToolNext, Branch

\* For any branches, tools and timeouts: a node that ends leaves no running
\* child, unless it was cancelled from outside.
THEOREM ChildrenEnd == ToolSpec => []ChildEndsWithNode
<1>1. ToolInit => PInv
  BY InitPInv DEF ToolInit
<1>2. PInv /\ [ToolNext]_tvars => PInv'
  <2>1. [ToolNext]_tvars => [GatherNext]_gvars
    BY ToolStep DEF tvars, running
  <2> QED  BY <2>1, NextPInv
<1>3. CInv => ChildEndsWithNode
  BY ToolsAssumption DEF CInv, ChildEndsWithNode
<1> QED  BY <1>1, <1>2, <1>3, InitCInv, NextCInv, PTL DEF ToolSpec

-----------------------------------------------------------------------------
\* The function that the fold of Merge runs on.
Step(f, ds, S) ==
  [s \in SUBSET S |-> IF s = {} THEN <<>> ELSE MergeDelta(f[s \ {Max(s)}], ds[Max(s)])]

\* The last of the numbers up to m + 1.
LEMMA LastOfInterval ==
  ASSUME NEW m \in Nat, NEW s \in SUBSET (1 .. m + 1), m + 1 \in s
  PROVE  Max(s) = m + 1 /\ s \ {Max(s)} \subseteq 1 .. m
<1>1. \A x \in s : (\A y \in s : x >= y) <=> x = m + 1
  OBVIOUS
<1>2. Max(s) = m + 1
  BY <1>1 DEF Max
<1> QED  BY <1>2

\* The recursion of the fold has a solution, for any number of deltas.
LEMMA StepsExist ==
  ASSUME NEW ds, NEW n \in Nat
  PROVE  \E f : f = Step(f, ds, 1 .. n)
<1> DEFINE T == {m \in Nat : \E f : f = Step(f, ds, 1 .. m)}
<1>1. 0 \in T
  <2>1. 1 .. 0 = {}
    OBVIOUS
  <2> DEFINE f == [s \in SUBSET {} |-> <<>>]
  <2>2. f = Step(f, ds, {})
    BY DEF Step
  <2> QED  BY <2>1, <2>2
<1>2. ASSUME NEW m \in T PROVE m + 1 \in T
  <2>1. PICK f : f = Step(f, ds, 1 .. m)
    OBVIOUS
  <2> DEFINE g == [s \in SUBSET (1 .. m + 1) |->
                     IF m + 1 \in s THEN MergeDelta(f[s \ {m + 1}], ds[m + 1]) ELSE f[s]]
  <2>2. \A s \in SUBSET (1 .. m) : m + 1 \notin s /\ s \in SUBSET (1 .. m + 1) /\ g[s] = f[s]
    OBVIOUS
  <2>3. ASSUME NEW s \in SUBSET (1 .. m + 1)
        PROVE  g[s] = IF s = {} THEN <<>> ELSE MergeDelta(g[s \ {Max(s)}], ds[Max(s)])
    <3>1. CASE m + 1 \in s
      <4>1. Max(s) = m + 1 /\ s \ {m + 1} \in SUBSET (1 .. m)
        BY <3>1, LastOfInterval
      <4>2. g[s] = MergeDelta(f[s \ {m + 1}], ds[m + 1])
        BY <3>1
      <4>3. g[s \ {m + 1}] = f[s \ {m + 1}]
        BY <2>2, <4>1
      <4> HIDE DEF g
      <4> QED  BY <3>1, <4>1, <4>2, <4>3
    <3>2. CASE m + 1 \notin s
      <4>1. s \in SUBSET (1 .. m) /\ s \ {Max(s)} \in SUBSET (1 .. m)
        <5>1. m \in Nat
          OBVIOUS
        <5>2. ASSUME NEW x \in s PROVE x \in 1 .. m
          <6>1. x \in 1 .. m + 1 /\ x # m + 1
            BY <2>3, <3>2
          <6> QED  BY <5>1, <6>1
        <5> QED  BY <5>2
      <4>2. f[s] = IF s = {} THEN <<>> ELSE MergeDelta(f[s \ {Max(s)}], ds[Max(s)])
        BY <2>1, <4>1 DEF Step
      <4>3. g[s] = f[s] /\ g[s \ {Max(s)}] = f[s \ {Max(s)}]
        BY <2>2, <4>1
      <4> HIDE DEF g
      <4> QED  BY <4>2, <4>3
    <3> QED  BY <3>1, <3>2
  <2>4. g = Step(g, ds, 1 .. m + 1)
    <3>1. g = [s \in SUBSET (1 .. m + 1) |-> g[s]]
      OBVIOUS
    <3> HIDE DEF g
    <3> QED  BY <2>3, <3>1 DEF Step
  <2>5. \E ff : ff = Step(ff, ds, 1 .. m + 1)
    <3> HIDE DEF g
    <3> QED BY <2>4
  <2> QED  BY <2>5
<1>3. T = Nat
  <2> HIDE DEF T
  <2>1. T \subseteq Nat
    BY DEF T
  <2> QED  BY <1>1, <1>2, <2>1, NatsByInduction
<1> QED  BY <1>3

\* Merge takes the deltas in branch order, one after the other.
LEMMA MergeIsFold ==
  ASSUME NEW ds, NEW n \in Nat, DOMAIN ds = 1 .. n
  PROVE  \E f : f = Step(f, ds, 1 .. n) /\ Merge(ds) = f[1 .. n]
<1>1. Merge(ds) = (CHOOSE f : f = Step(f, ds, 1 .. n))[1 .. n]
  BY DEF Merge, FoldLeft, MapThenFoldSet, Step
<1> QED  BY <1>1, StepsExist

\* Delta d carries a value for key k.
Carries(d, k) == Pad \in DOMAIN d /\ k \in DOMAIN d[Pad]

\* The later delta wins, key by key.
LEMMA MergeOne ==
  ASSUME NEW into, NEW d, NEW k
  PROVE  /\ Carries(d, k) => Carries(MergeDelta(into, d), k) /\ MergeDelta(into, d)[Pad][k] = d[Pad][k]
         /\ ~Carries(d, k) /\ Carries(into, k) =>
              Carries(MergeDelta(into, d), k) /\ MergeDelta(into, d)[Pad][k] = into[Pad][k]
<1>1. CASE Pad \in DOMAIN d /\ Pad \in DOMAIN into
  <2>1. MergeDelta(into, d)[Pad] = Updated(into[Pad], d[Pad]) /\ Pad \in DOMAIN MergeDelta(into, d)
    BY <1>1 DEF MergeDelta, Updated
  <2> QED  BY <1>1, <2>1 DEF Carries, Updated
<1>2. CASE ~(Pad \in DOMAIN d /\ Pad \in DOMAIN into)
  BY <1>2 DEF MergeDelta, Carries, Updated
<1> QED  BY <1>1, <1>2

\* What the last delta with a value for the key says is what the merge says,
\* for any number of deltas.
LEMMA LastCarrierWins ==
  ASSUME NEW ds, NEW n \in Nat, DOMAIN ds = 1 .. n, NEW k, NEW l \in 1 .. n, Carries(ds[l], k),
         \A j \in l + 1 .. n : ~Carries(ds[j], k)
  PROVE  Carries(Merge(ds), k) /\ Merge(ds)[Pad][k] = ds[l][Pad][k]
<1>1. PICK f : f = Step(f, ds, 1 .. n) /\ Merge(ds) = f[1 .. n]
  BY MergeIsFold
<1>2. ASSUME NEW m \in 1 .. n PROVE f[1 .. m] = MergeDelta(f[1 .. m - 1], ds[m])
  <2>1. 1 .. m \in SUBSET (1 .. n) /\ 1 .. m # {}
    <3>1. \A x \in 1 .. m : x \in 1 .. n
      OBVIOUS
    <3>2. m \in 1 .. m
      OBVIOUS
    <3> QED  BY <3>1, <3>2
  <2>2. Max(1 .. m) = m
    <3>1. \A x \in 1 .. m : (\A y \in 1 .. m : x >= y) <=> x = m
      OBVIOUS
    <3> QED  BY <3>1 DEF Max
  <2>3. (1 .. m) \ {m} = 1 .. m - 1
    OBVIOUS
  <2> QED  BY <1>1, <2>1, <2>2, <2>3 DEF Step
<1> DEFINE Kept(m) == Carries(f[1 .. m], k) /\ f[1 .. m][Pad][k] = ds[l][Pad][k]
           T == {m \in Nat : l + m <= n => Kept(l + m)}
<1>3. 0 \in T
  BY <1>2, MergeOne
<1>4. ASSUME NEW m \in T PROVE m + 1 \in T
  <2>1. SUFFICES ASSUME l + m + 1 <= n PROVE Kept(l + m + 1)
    OBVIOUS
  <2>2. m \in Nat /\ l + m + 1 \in l + 1 .. n /\ l + m + 1 \in 1 .. n /\ l + m + 1 - 1 = l + m
    BY <2>1
  <2>3. Kept(l + m)
    BY <2>1, <2>2
  <2>4. f[1 .. l + m + 1] = MergeDelta(f[1 .. l + m], ds[l + m + 1])
    BY <1>2, <2>2
  <2>5. ~Carries(ds[l + m + 1], k)
    BY <2>2
  <2> QED  BY <2>3, <2>4, <2>5, MergeOne
<1>5. T = Nat
  <2> HIDE DEF T
  <2>1. T \subseteq Nat
    BY DEF T
  <2> QED  BY <1>3, <1>4, <2>1, NatsByInduction
<1>6. n - l \in T /\ l + (n - l) = n
  <2>1. n - l \in Nat /\ l + (n - l) = n
    OBVIOUS
  <2> HIDE DEF T
  <2> QED  BY <1>5, <2>1
<1> QED  BY <1>1, <1>6

-----------------------------------------------------------------------------
\* What the branches hand over, and what becomes of it.
DInv ==
  /\ DOMAIN delta = Inputs
  /\ \A i \in Tools : task[i] = "returned" => delta[i] = ToolDelta(i)
  /\ caller = "returned" /\ bound = Unbounded => merged = Merge(delta)

\* Nothing is merged at first.
LEMMA InitDInv == ToolInit => DInv
  BY ToolsAssumption DEF ToolInit, GatherInit, DInv

\* Only a branch that returns makes a task a returned one.
LEMMA LoopReturnsNothing ==
  ASSUME PInv, Loop \/ Collect, NEW i \in Inputs, task'[i] = "returned"
  PROVE  task[i] = "returned"
<1>1. CASE Call \/ Notice \/ Cancel \/ Collect
  BY <1>1 DEF Call, Notice, Cancel, Collect
<1>2. CASE Onwards
  BY <1>2 DEF Onwards, Alike, LiveStates
<1>3. ASSUME NEW j \in Inputs, Begin(j) PROVE Onwards
  BY <1>3 DEF Onwards, Alike, Begin, Startable, LiveStates, PInv
<1>4. ASSUME NEW j \in Inputs, Withdraw(j) PROVE task[i] = "returned"
  BY <1>4 DEF Withdraw, PInv
<1>5. ASSUME NEW j \in Inputs, Forfeit(j) PROVE task[i] = "returned"
  <2>1. EndOf(j)
    BY <1>5, ReleaseEnds DEF Forfeit, Finish, Outcomes
  <2>2. task'[j] # "returned"
    <3> DEFINE t == [task EXCEPT ![j] = "cancelled"]
    <3>1. /\ t \in [Inputs -> States] /\ permits + 1 \in Nat /\ Queue(t, waiting)
          /\ WakeNext(t, permits + 1) /\ t[j] = "cancelled"
      BY <1>5 DEF Forfeit, PInv, States, Queue
    <3>2. task'[j] = t[j] \/ task'[j] = "granted"
      <4> HIDE DEF t
      <4> QED  BY <3>1, WakeKeeps
    <3> QED  BY <3>1, <3>2
  <2> QED  BY <2>1, <2>2 DEF EndOf, Alike, LiveStates
<1> QED  BY <1>1, <1>2, <1>3, <1>4, <1>5, ResumeMovesOn DEF Loop

\* The end of a branch that has its delta right.
LEMMA EndsHandsOver ==
  ASSUME PInv, OInv, DInv, NEW i \in Inputs, NEW how \in Outcomes, Ends(i, how), UNCHANGED merged,
         NEW d, delta' = delta \/ delta' = [delta EXCEPT ![i] = d],
         i \in Tools /\ how = "returned" => delta' = [delta EXCEPT ![i] = ToolDelta(i)]
  PROVE  DInv'
<1>1. /\ Settle(i, how) /\ UNCHANGED <<bound, caller, outputKey, prior>>
      /\ task[i] = "running"
  BY DEF Ends, Settle, Finish
<1>2. EndOf(i)
  BY <1>1, ReleaseEnds DEF Settle, Finish
<1>3. task'[i] = how
  <2> DEFINE t == [task EXCEPT ![i] = how]
  <2>1. t \in [Inputs -> States] /\ permits + 1 \in Nat /\ Queue(t, waiting) /\ WakeNext(t, permits + 1)
    BY <1>1 DEF Settle, PInv, States, Outcomes, Queue
  <2>2. task'[i] = t[i] \/ t[i] = "queued"
    <3> HIDE DEF t
    <3> QED  BY <2>1, WakeKeeps
  <2>3. t[i] = how
    BY DEF PInv
  <2> QED  BY <2>2, <2>3 DEF Outcomes
<1>4. caller # "returned"
  BY <1>1 DEF OInv, LeftBehind
<1>5. \A j \in Tools : ToolDelta(j)' = ToolDelta(j)
  BY <1>1 DEF ToolDelta
<1>6. ASSUME NEW j \in Tools, task'[j] = "returned" PROVE delta'[j] = ToolDelta(j)
  <2>1. CASE j = i
    BY <1>3, <1>6, <2>1 DEF DInv
  <2>2. CASE j # i
    <3>1. j \in Inputs /\ task[j] = "returned"
      BY <1>2, <1>6, <2>2, ToolsAssumption DEF EndOf, Alike, LiveStates
    <3> QED  BY <2>2, <3>1 DEF DInv
  <2> QED  BY <2>1, <2>2
<1> QED  BY <1>1, <1>4, <1>5, <1>6 DEF DInv

\* Every step keeps it.
LEMMA NextDInv == PInv /\ OInv /\ DInv /\ [ToolNext]_tvars => DInv'
<1> SUFFICES ASSUME PInv, OInv, DInv, [ToolNext]_tvars PROVE DInv'
  OBVIOUS
<1>1. ASSUME UNCHANGED <<bound, task, caller, outputKey, prior, delta, merged>> PROVE DInv'
  BY <1>1 DEF DInv, ToolDelta
<1>2. CASE UNCHANGED tvars
  BY <1>1, <1>2 DEF tvars, running, gvars, tools
<1>3. ASSUME Loop \/ Collect, UNCHANGED tools,
             caller' = "returned" /\ bound = Unbounded => merged' = Merge(delta)
      PROVE  DInv'
  <2>1. UNCHANGED <<outputKey, prior, delta>>
    BY <1>3 DEF tools
  <2>2. bound' = bound
    BY <1>3 DEF Loop, Collect, Call, Begin, Resume, Withdraw, Forfeit, Notice, Cancel, Finish
  <2>3. \A i \in Tools : task'[i] = "returned" => task[i] = "returned"
    BY <1>3, LoopReturnsNothing, ToolsAssumption
  <2> QED  BY <1>3, <2>1, <2>2, <2>3 DEF DInv, ToolDelta
<1>4. CASE Loop /\ UNCHANGED <<tools, merged>>
  <2>1. caller' = "returned" => caller = "returned"
    BY <1>4 DEF Loop, Call, Begin, Resume, Withdraw, Forfeit, Notice, Cancel, Finish
  <2> QED  BY <1>3, <1>4, <2>1 DEF DInv
<1>5. CASE /\ Collect /\ UNCHANGED tools
           /\ merged' = IF bound = Unbounded /\ caller' = "returned" THEN Merge(delta) ELSE merged
  BY <1>3, <1>5
<1>6. ASSUME NEW i \in Inputs, i \in Tools, Tool(i), UNCHANGED merged PROVE DInv'
  <2>1. CASE Spawn(i) \/ Timeout(i)
    BY <1>1, <1>6, <2>1 DEF Spawn, Timeout, gvars
  <2>2. CASE Read(i) /\ child[i] = "succeeded"
    <3>1. Ends(i, "returned") /\ delta' = [delta EXCEPT ![i] = ToolDelta(i)] /\ "returned" \in Outcomes
      BY <2>2 DEF Read, Outcomes
    <3> QED  BY <1>6, <3>1, EndsHandsOver
  <2>3. CASE SpawnFails(i) \/ (Read(i) /\ child[i] = "failed") \/ KillMisses(i) \/ Reap(i) \/ Leave(i)
    <3>1. PICK how \in Outcomes : Ends(i, how) /\ how # "returned" /\ UNCHANGED delta
      BY <2>3 DEF SpawnFails, Read, KillMisses, Reap, Leave, Outcomes
    <3> QED  BY <1>6, <3>1, EndsHandsOver
  <2> QED  BY <1>6, <2>1, <2>2, <2>3 DEF Tool, Read
<1>7. ASSUME NEW i \in Inputs, i \notin Tools, Plain(i), UNCHANGED merged PROVE DInv'
  <2>1. PICK how \in Outcomes, d \in PlainDeltas \cup {0} :
          Ends(i, how) /\ (delta' = delta \/ delta' = [delta EXCEPT ![i] = d])
    BY <1>7 DEF Plain, Leave, Outcomes
  <2> QED  BY <1>7, <2>1, EndsHandsOver
<1>8. ASSUME NEW i \in Inputs, Exit(i) \/ LetGo(i), UNCHANGED merged PROVE DInv'
  BY <1>1, <1>8 DEF Exit, LetGo, gvars
<1> QED  BY <1>2, <1>4, <1>5, <1>6, <1>7, <1>8 DEF ToolNext, Branch

\* What the delta of a tool says of a key.
LEMMA ToolSays ==
  ASSUME NEW i, NEW k
  PROVE  /\ Carries(ToolDelta(i), k) <=> outputKey[i] = k \/ k \in DOMAIN prior
         /\ outputKey[i] = k => ToolDelta(i)[Pad][k] = i
         /\ outputKey[i] # k /\ k \in DOMAIN prior => ToolDelta(i)[Pad][k] = prior[k]
<1>1. /\ DOMAIN Pair(outputKey[i], i) = {outputKey[i]}
      /\ Pair(outputKey[i], i)[outputKey[i]] = i
  BY DEF Pair
<1> DEFINE u == Updated(prior, Pair(outputKey[i], i))
<1>2. /\ DOMAIN u = DOMAIN prior \cup {outputKey[i]}
      /\ u[outputKey[i]] = i
      /\ \A x \in DOMAIN prior : x # outputKey[i] => u[x] = prior[x]
  BY <1>1 DEF Updated
<1>3. Pad \in DOMAIN ToolDelta(i) /\ ToolDelta(i)[Pad] = u
  BY DEF ToolDelta, Pair
<1> QED  BY <1>2, <1>3 DEF Carries

\* What the delta holds by then is what was to survive.
LEMMA MergedIsRight == OInv /\ DInv => OutputsSurvive
<1> SUFFICES ASSUME OInv, DInv, bound = Unbounded, caller = "returned",
                    NEW i0 \in Tools, NEW k, k = outputKey[i0]
             PROVE  LET w == Max({j \in Inputs : Writes(j, k)})
                        shadowed == k \in DOMAIN prior /\ w < Max(Tools)
                    IN  /\ k \in DOMAIN merged[Pad]
                        /\ merged[Pad][k] = (IF shadowed THEN prior[k]
                                             ELSE IF w \in Tools THEN w ELSE delta[w][Pad][k])
  BY DEF OutputsSurvive
<1> DEFINE W == {j \in Inputs : Writes(j, k)}
           w == Max(W)
           t == Max(Tools)
<1>1. \A S : S \subseteq Inputs /\ S # {} => Max(S) \in S /\ \A x \in S : x <= Max(S)
  <2> SUFFICES ASSUME NEW S, S \subseteq Inputs, S # {} PROVE Max(S) \in S /\ \A x \in S : x <= Max(S)
    OBVIOUS
  <2>1. S \subseteq Nat /\ N \in Nat /\ \A x \in S : x <= N
    BY InputsAssumption DEF Inputs
  <2> QED  BY <2>1, GreatestNat
<1>2. t \in Tools /\ \A x \in Tools : x <= t
  BY <1>1, ToolsAssumption
<1>3. w \in Inputs /\ Writes(w, k) /\ \A x \in Inputs : Writes(x, k) => x <= w
  <2>1. W \subseteq Inputs /\ i0 \in W
    BY ToolsAssumption DEF Writes
  <2>2. w \in W /\ \A x \in W : x <= w
    BY <1>1, <2>1
  <2> QED  BY <2>2
<1> HIDE DEF w, t, W
<1>4. Inputs = 1 .. N /\ N \in Nat /\ Tools \subseteq Inputs
  BY InputsAssumption, ToolsAssumption DEF Inputs
<1>5. \A i \in Tools : delta[i] = ToolDelta(i)
  BY <1>4 DEF DInv, OInv, LeftBehind
<1>6. /\ \A j \in Inputs : Carries(delta[j], k) => Writes(j, k) \/ (j \in Tools /\ k \in DOMAIN prior)
      /\ \A j \in Inputs : Writes(j, k) => Carries(delta[j], k)
  BY <1>5, ToolSays DEF Writes, Carries
<1>7. merged = Merge(delta) /\ DOMAIN delta = 1 .. N
  BY <1>4 DEF DInv
<1>8. ASSUME NEW l \in Inputs, Carries(delta[l], k), \A j \in l + 1 .. N : ~Carries(delta[j], k)
      PROVE  k \in DOMAIN merged[Pad] /\ merged[Pad][k] = delta[l][Pad][k]
  <2>1. Carries(Merge(delta), k) /\ Merge(delta)[Pad][k] = delta[l][Pad][k]
    BY <1>4, <1>7, <1>8, LastCarrierWins
  <2> QED  BY <1>7, <2>1 DEF Carries
<1>9. CASE k \in DOMAIN prior /\ w < t
  <2>1. t \in Inputs /\ outputKey[t] # k
    BY <1>2, <1>3, <1>4, <1>9 DEF Writes
  <2>2. Carries(delta[t], k) /\ delta[t][Pad][k] = prior[k]
    BY <1>2, <1>5, <1>9, <2>1, ToolSays
  <2>3. ASSUME NEW j \in t + 1 .. N PROVE ~Carries(delta[j], k)
    <3>1. j \in Inputs /\ j > t /\ j > w
      BY <1>3, <1>4, <1>9, <2>1
    <3>2. j \notin Tools /\ ~Writes(j, k)
      BY <1>2, <1>3, <1>4, <2>1, <3>1
    <3> QED  BY <1>6, <3>1, <3>2
  <2>4. k \in DOMAIN merged[Pad] /\ merged[Pad][k] = prior[k]
    BY <1>8, <2>1, <2>2, <2>3
  <2> QED  BY <1>9, <2>4 DEF w, t, W
<1>10. CASE ~(k \in DOMAIN prior /\ w < t)
  <2>1. Carries(delta[w], k)
    BY <1>3, <1>6
  <2>2. ASSUME NEW j \in w + 1 .. N PROVE ~Carries(delta[j], k)
    <3>1. j \in Inputs /\ j > w
      BY <1>3, <1>4
    <3>2. ~Writes(j, k)
      BY <1>3, <1>4, <3>1
    <3>3. j \in Tools => k \notin DOMAIN prior
      BY <1>2, <1>3, <1>4, <1>10, <3>1
    <3> QED  BY <1>6, <3>1, <3>2, <3>3
  <2>3. k \in DOMAIN merged[Pad] /\ merged[Pad][k] = delta[w][Pad][k]
    BY <1>3, <1>8, <2>1, <2>2
  <2>4. w \in Tools => delta[w][Pad][k] = w
    BY <1>3, <1>5, ToolSays DEF Writes
  <2> QED  BY <1>10, <2>3, <2>4 DEF w, t, W
<1> QED  BY <1>9, <1>10

\* For any branches, tools, keys and scratchpads, and any order of completion:
\* the state gets what the last branch to write a tool's key wrote there,
\* unless a later tool of another key brings an old value back.
THEOREM OutputsReachTheState == ToolSpec => []OutputsSurvive
<1>1. ToolInit => PInv /\ OInv
  BY InitPInv, InitOInv DEF ToolInit
<1>2. PInv /\ OInv /\ [ToolNext]_tvars => (PInv /\ OInv)'
  <2>1. [ToolNext]_tvars => [GatherNext]_gvars
    BY ToolStep DEF tvars, running
  <2> QED  BY <2>1, NextPInv, NextOInv
<1> QED  BY <1>1, <1>2, InitDInv, NextDInv, MergedIsRight, PTL DEF ToolSpec
=============================================================================
