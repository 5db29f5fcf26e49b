------------------------------- MODULE Gather -------------------------------
(***************************************************************************)
(* Tasks awaited with asyncio.gather and without a task group, as in       *)
(* parallel_dispatch (graph/plugins/parallel.py) and abatch                *)
(* (graph/adapters/langchain_adapter.py), where a semaphore may bound how  *)
(* many graphs run.  One variable follows each object of the code: the     *)
(* tasks, the semaphore's value and waiters, gather's future (outer) and   *)
(* the caller that awaits it.  gather and the semaphore belong to asyncio. *)
(***************************************************************************)
EXTENDS Integers, Sequences, FiniteSets, SequencesExt

CONSTANTS
  N,          \* number of branches or inputs
  Bounds,     \* what max_concurrency may be; 0 stands for every refused value
  Unbounded   \* max_concurrency None, or a caller that has no semaphore

ASSUME InputsAssumption == N \in Nat
ASSUME BoundsAssumption == Bounds \subseteq Nat \cup {Unbounded}

VARIABLES bound, task, permits, waiting, asked, finished, noticed, outer, cancelling, caller

gvars == <<bound, task, permits, waiting, asked, finished, noticed, outer, cancelling, caller>>

Inputs == 1 .. N
Limit == IF bound = Unbounded THEN N ELSE bound
Live(i) == task[i] \in {"new", "queued", "granted", "running"}
Running == {i \in Inputs : task[i] = "running"}
Holding == {i \in Inputs : task[i] \in {"granted", "running"}}
Over == caller \in {"refused", "returned", "raised"}

GatherInit ==
  /\ bound \in Bounds
  /\ task = [i \in Inputs |-> "new"]
  /\ permits = Limit
  /\ waiting = <<>>
  /\ asked = {}
  /\ finished = <<>> /\ noticed = 0
  /\ outer = "pending"
  /\ cancelling = FALSE
  /\ caller = "calling"

\* The bound is checked before any task exists; gather() of nothing is done.
Call ==
  /\ caller = "calling"
  /\ caller' = IF Limit = 0 /\ bound # Unbounded THEN "refused" ELSE "awaiting"
  /\ outer' = IF N = 0 THEN "result" ELSE "pending"
  /\ UNCHANGED <<bound, task, permits, waiting, asked, finished, noticed, cancelling>>

\* _wake_up_next: with a permit left, the first waiter gets it.
\* Mutant: the permit is kept and given.
CopyPermit(t, p) ==
  /\ task' = IF waiting # <<>> THEN [t EXCEPT ![Head(waiting)] = "granted"] ELSE t
  /\ waiting' = IF waiting # <<>> THEN Tail(waiting) ELSE waiting
  /\ permits' = p

WakeNext(t, p) ==
  IF waiting # <<>> /\ p > 0
  THEN /\ task' = [t EXCEPT ![Head(waiting)] = "granted"]
       /\ waiting' = Tail(waiting)
       /\ permits' = p - 1
  ELSE task' = t /\ permits' = p /\ UNCHANGED waiting

Free == permits > 0 /\ waiting = <<>> /\ \A i \in Inputs : task[i] # "granted"

\* The loop starts the tasks in the order they were created.
Startable(i) ==
  /\ caller \notin {"calling", "refused"}
  /\ task[i] = "new"
  /\ \A j \in 1 .. i - 1 : task[j] # "new"

\* Mutant: the graph runs whether or not a permit is free.
BeginAnyway(i) ==
  /\ Startable(i) /\ i \notin asked
  /\ task' = [task EXCEPT ![i] = "running"] /\ permits' = permits - 1
  /\ UNCHANGED <<bound, waiting, asked, finished, noticed, outer, cancelling, caller>>

Begin(i) ==
  /\ Startable(i) /\ i \notin asked
  /\ IF Free
     THEN task' = [task EXCEPT ![i] = "running"] /\ permits' = permits - 1 /\ UNCHANGED waiting
     ELSE task' = [task EXCEPT ![i] = "queued"] /\ waiting' = Append(waiting, i) /\ UNCHANGED permits
  /\ UNCHANGED <<bound, asked, finished, noticed, outer, cancelling, caller>>

\* The end of acquire: a permit that is left goes on to the next waiter.
Resume(i) ==
  /\ task[i] = "granted" /\ i \notin asked
  /\ WakeNext([task EXCEPT ![i] = "running"], permits)
  /\ UNCHANGED <<bound, asked, finished, noticed, outer, cancelling, caller>>

Finish(i) ==
  /\ finished' = Append(finished, i)
  /\ UNCHANGED <<bound, asked, noticed, outer, cancelling, caller>>

\* A task cancelled before it holds a permit, and after.
Withdraw(i) ==
  /\ i \in asked
  /\ Startable(i) \/ task[i] = "queued"
  /\ task' = [task EXCEPT ![i] = "cancelled"]
  /\ Finish(i)
  /\ UNCHANGED <<permits, waiting>>

Forfeit(i) ==
  /\ task[i] = "granted" /\ i \in asked
  /\ WakeNext([task EXCEPT ![i] = "cancelled"], permits + 1)
  /\ Finish(i)

\* The awaited coroutine ends and async with releases the permit.  Code that
\* was asked to cancel may still return or raise something else.
\* Mutant: only success releases.
KeepOnFailure(i, how) ==
  /\ task[i] = "running"
  /\ how = "cancelled" => i \in asked
  /\ IF how = "returned" THEN WakeNext([task EXCEPT ![i] = how], permits + 1)
                         ELSE task' = [task EXCEPT ![i] = how] /\ UNCHANGED <<permits, waiting>>
  /\ Finish(i)

Settle(i, how) ==
  /\ task[i] = "running"
  /\ how = "cancelled" => i \in asked
  /\ WakeNext([task EXCEPT ![i] = how], permits + 1)
  /\ Finish(i)

\* gather's callback for the next finished task: the first that did not
\* return decides, the others are left alone.
Notice ==
  /\ noticed < Len(finished)
  /\ noticed' = noticed + 1
  /\ outer' = CASE outer # "pending" -> outer
                [] outer = "pending" /\ task[finished[noticed + 1]] # "returned" -> "error"
                [] OTHER -> IF noticed + 1 = N THEN "result" ELSE "pending"
  /\ UNCHANGED <<bound, task, permits, waiting, asked, finished, cancelling, caller>>

\* Cancelling the caller cancels gather's future, and with it every task that
\* is not done, so that nobody waits for a permit any more; once that future
\* is done the tasks are out of its reach.
\* Mutant: tasks that wait for a permit are not told.
TellRunning == Running
ToTell == {i \in Inputs : Live(i)}

Cancel ==
  /\ caller = "awaiting" /\ ~cancelling
  /\ cancelling' = TRUE
  /\ asked' = IF outer = "pending" THEN ToTell ELSE asked
  /\ waiting' = IF outer = "pending" THEN <<>> ELSE waiting
  /\ UNCHANGED <<bound, task, permits, finished, noticed, outer, caller>>

\* Mutant: gather with return_exceptions, in effect.
CollectAll ==
  /\ caller = "awaiting" /\ outer # "pending"
  /\ caller' = IF cancelling THEN "raised" ELSE "returned"
  /\ UNCHANGED <<bound, task, permits, waiting, asked, finished, noticed, outer, cancelling>>

Collect ==
  /\ caller = "awaiting" /\ outer # "pending"
  /\ caller' = IF outer = "result" /\ ~cancelling THEN "returned" ELSE "raised"
  /\ UNCHANGED <<bound, task, permits, waiting, asked, finished, noticed, outer, cancelling>>

Outcomes == {"returned", "failed", "cancelled"}
Work == \E i \in Inputs, how \in Outcomes : Settle(i, how)

Loop ==
  \/ Call
  \/ \E i \in Inputs : Begin(i) \/ Resume(i) \/ Withdraw(i) \/ Forfeit(i)
  \/ Notice
  \/ Cancel

GatherNext == Loop \/ Collect \/ Work

\* The event loop runs what is ready, and every graph ends by itself.
LoopFairness ==
  /\ WF_gvars(Notice)
  /\ \A i \in Inputs : /\ WF_gvars(Begin(i)) /\ WF_gvars(Resume(i))
                       /\ WF_gvars(Withdraw(i)) /\ WF_gvars(Forfeit(i))

GatherSpec ==
  /\ GatherInit /\ [][GatherNext]_gvars
  /\ LoopFairness /\ WF_gvars(Collect)
  /\ \A i \in Inputs : WF_gvars(\E how \in Outcomes : Settle(i, how))

-----------------------------------------------------------------------------
\* No more graphs run at once than the caller allowed, and none under a
\* refused bound (langchain_adapter.py:92-104), however tasks fail, are
\* cancelled or hand their permits on.
BoundKept == bound # Unbounded => Cardinality(Running) <= bound

\* A return means that every task returned and none is left.  When the caller
\* has raised, tasks may run on behind it (parallel.py:20,
\* langchain_adapter.py:104): always after a failure, and after a mere
\* cancellation only tasks that were told to stop.
LeftBehind ==
  /\ caller = "returned" => \A i \in Inputs : task[i] = "returned"
  /\ caller = "raised" /\ (\A i \in Inputs : task[i] # "failed") =>
       \A i \in Inputs : Live(i) => i \in asked

\* Every input is settled in the end and the caller resumes: a failed, slow
\* or cancelled graph never keeps the permit another one waits for
\* (langchain_adapter.py:100-102).
EverythingSettles ==
  caller = "awaiting" ~> Over /\ \A i \in Inputs : ~Live(i)
=============================================================================
