------------------------------ MODULE Branches ------------------------------
(***************************************************************************)
(* One fan-out region's concurrent branches: CompiledGraph._settle_gated   *)
(* and its task group, and the join that reads their outcomes.  Each       *)
(* branch is a task that asks the gate and writes its start marker (only   *)
(* for a gate with before_start), then runs its callable.  A branch task   *)
(* never raises except by cancellation: every other end is an outcome.     *)
(***************************************************************************)
EXTENDS Gate

VARIABLES
  bpc,      \* where each branch task is
  result,   \* how each branch settled
  finished  \* the branches in the order their tasks completed

branchVars == <<bpc, result, finished>>

BranchPc == {"idle", "ask", "mark", "run", "done"}

\* refused, gatefailed: _BranchAdmissionFailed; stopped: _BranchStopped;
\* markrefused, markfailed: _StartCallbackFailed around GateRefused or not.
Outcome == {"ok", "error", "interrupt", "cancelled", "refused", "gatefailed",
            "stopped", "markrefused", "markfailed"}

BranchTypeOK ==
  /\ bpc \in [Node -> BranchPc]
  /\ result \in [Node -> Outcome \cup {"none"}]
  /\ finished \in Seq(Node)

BranchInit ==
  /\ bpc = [n \in Node |-> "idle"]
  /\ result = [n \in Node |-> "none"]
  /\ finished = <<>>

\* Names lists the branches of an edge; a sequence in ascending name order.
Names(branches) == {branches[i] : i \in DOMAIN branches}

\* Create the tasks of the group.
Launch(branches) ==
  /\ bpc' = [n \in Node |-> IF n \in Names(branches) THEN "ask" ELSE "idle"]
  /\ result' = [n \in Node |-> "none"]
  /\ finished' = <<>>

Settle(b, outcome) ==
  /\ bpc' = [bpc EXCEPT ![b] = "done"]
  /\ result' = [result EXCEPT ![b] = outcome]
  /\ finished' = Append(finished, b)

MoveTo(b, place) ==
  /\ bpc' = [bpc EXCEPT ![b] = place]
  /\ UNCHANGED <<result, finished>>

\* The task group can be left: no branch task is still alive.
OneDone == \E n \in Node : bpc[n] = "done"
AllDone == \A n \in Node : bpc[n] \in {"idle", "done"}

With(outcomes) == {n \in Node : result[n] \in outcomes}

-----------------------------------------------------------------------------
(* The steps of one branch task b, whose request is r.                     *)

\* No per-branch dispatch: the batch decision covers the branch.  A task
\* cancelled before its first step never gets here, so this step is not
\* among those of a cancelled group.
BranchBegins(b, r) ==
  /\ bpc[b] = "ask"
  /\ ~gate.start
  /\ Transfer(r)
  /\ MoveTo(b, "run")
  /\ UNCHANGED <<gate, latch, allowed, marked>>

BranchAllowed(b, r) ==
  /\ bpc[b] = "ask"
  /\ gate.start /\ MayAllow
  /\ Grant(r)
  /\ MoveTo(b, "mark")
  /\ UNCHANGED <<gate, latch, marked, calls>>

BranchDenied(b) ==
  /\ bpc[b] = "ask"
  /\ gate.start
  /\ \/ MayRefuse /\ Settle(b, "refused")
     \/ MayStop /\ Settle(b, "stopped")
     \/ MayFail /\ Settle(b, "gatefailed")
  /\ UNCHANGED gateVars

BranchMarked(b, r) ==
  /\ bpc[b] = "mark"
  /\ Mark(r)
  /\ Transfer(r)
  /\ MoveTo(b, "run")
  /\ UNCHANGED <<gate, latch, allowed>>

BranchMarkFails(b) ==
  /\ bpc[b] = "mark"
  /\ \E outcome \in {"markrefused", "markfailed"} : Settle(b, outcome)
  /\ UNCHANGED gateVars

\* The callable returns a dict, raises or returns something else, or asks
\* for a human.
BranchReturns(b) ==
  /\ bpc[b] = "run"
  /\ \E outcome \in {"ok", "error", "interrupt"} : Settle(b, outcome)
  /\ UNCHANGED gateVars

\* CancelledError, delivered to the task or raised inside it.
BranchCancelled(b) ==
  /\ bpc[b] \in {"ask", "mark", "run"}
  /\ Settle(b, "cancelled")
  /\ UNCHANGED gateVars

BranchStep(b, r) ==
  \/ BranchAllowed(b, r)
  \/ BranchDenied(b)
  \/ BranchMarked(b, r)
  \/ BranchMarkFails(b)
  \/ BranchReturns(b)
  \/ BranchCancelled(b)

-----------------------------------------------------------------------------
(* Reading the settled outcomes.                                           *)

\* _settle_gated returns the outcomes in branch order, not as they finished.
AsCompleted(branches) == finished
Settled(branches) == branches

\* b is the first member of S in the order of the settled outcomes.
IsFirst(b, S, branches) ==
  LET order == Settled(branches)
  IN \E i \in DOMAIN order :
       /\ order[i] = b
       /\ b \in S
       /\ \A j \in 1 .. i - 1 : order[j] \notin S

JoinKind == {"all", "any", "first_success", "quorum", "custom"}

(***************************************************************************)
(* _admit: A is what the join of the region's edge admits.  The custom     *)
(* join is user code: any nonempty set of successful branches.             *)
(***************************************************************************)
Admits(edge, A) ==
  LET ok == With({"ok"})
  IN CASE edge.join = "all"           -> A = Names(edge.branches) /\ ok = A
       [] edge.join = "any"           -> A = ok
       [] edge.join = "first_success" -> \E b \in ok : IsFirst(b, ok, edge.branches) /\ A = {b}
       [] edge.join = "quorum"        -> A = ok /\ Cardinality(ok) >= edge.quorum
       [] edge.join = "custom"        -> A \subseteq ok
=============================================================================
