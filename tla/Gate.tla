-------------------------------- MODULE Gate --------------------------------
(***************************************************************************)
(* The dispatch-gate seam of the graph scheduler: graph/gate.py and the    *)
(* four places graph/engine.py calls it.  A gate is supplied per           *)
(* invocation by code outside this repository; what the scheduler relies   *)
(* on is which hooks it implements and the decisions it returns.           *)
(*                                                                         *)
(* allowed, marked and calls are the ledger an accounting gate could keep: *)
(* the dispatch requests it allowed, the start markers it wrote, and the   *)
(* callables that were really given control.  No guard reads them.         *)
(***************************************************************************)
EXTENDS Naturals, FiniteSets, Sequences

CONSTANTS
  Node,   \* every name a graph may register or mention
  Gates   \* the gates an invocation may be given

START == "__start__"
END   == "__end__"
None  == "none"      \* the source of a request that has none

\* present: ainvoke(gate=...) is not None; start: the gate has before_start;
\* settle: the gate has after_commit.
GateKind == {g \in [present : BOOLEAN, start : BOOLEAN, settle : BOOLEAN] :
               ~g.present => ~g.start /\ ~g.settle}

ASSUME GatesAssumption == Gates \subseteq GateKind

ASSUME NamesAssumption == {START, END, None} \cap Node = {}

Boundary == {"node", "router", "fanout", "join", "reducer", "region"}

(***************************************************************************)
(* A DispatchRequest or CommitRequest.  nodes is a set: the tuple in the   *)
(* code is always in ascending name order.  batch stands for the opaque    *)
(* batch_id of one region and is the step count the region started from,   *)
(* 0 outside a region.  key is the field a custom reducer folds, appended  *)
(* to nodes by the code, 0 in every other request.                         *)
(***************************************************************************)
Request(boundary, nodes, steps, source, batch, key) ==
  [boundary |-> boundary, nodes |-> nodes, steps |-> steps,
   source |-> source, batch |-> batch, key |-> key]

RequestType ==
  [boundary : Boundary, nodes : SUBSET (Node \cup {START}), steps : Nat,
   source : Node \cup {START, None}, batch : Nat, key : Nat]

VARIABLES
  gate,     \* which hooks this invocation's gate implements
  latch,    \* the gate's owner has recorded a stop
  allowed,  \* dispatch requests the gate allowed
  marked,   \* dispatch requests whose start marker was written
  calls     \* requests whose callable received control

gateVars == <<gate, latch, allowed, marked, calls>>

GateTypeOK ==
  /\ gate \in GateKind
  /\ latch \in BOOLEAN
  /\ allowed \subseteq RequestType
  /\ marked \subseteq RequestType
  /\ calls \subseteq RequestType

GateInit ==
  /\ gate \in Gates
  /\ latch = FALSE
  /\ allowed = {}
  /\ marked = {}
  /\ calls = {}

-----------------------------------------------------------------------------
(* The answers a gate may give.  Once its owner has recorded a stop it     *)
(* answers stop (or fails), never allow or refuse.                         *)

\* With no gate, _dispatch returns at once and the boundary is passed.
MayAllow  == gate.present => ~latch
MayRefuse == gate.present /\ ~latch
MayStop   == gate.present
MayFail   == gate.present

\* _dispatch: remember an allowed request.
Grant(r) == allowed' = IF gate.present THEN allowed \cup {r} ELSE allowed

\* _before_start: remember a written marker.
Mark(r) == marked' = marked \cup {r}

\* The callable that r asked for receives control.
Transfer(r) == calls' = calls \cup {r}

\* The gate's owner records a stop.
RecordStop ==
  /\ gate.present
  /\ ~latch
  /\ latch' = TRUE
  /\ UNCHANGED <<gate, allowed, marked, calls>>

(***************************************************************************)
(* Why a callable may run.  Either its own request was allowed, or, for a  *)
(* gate without start markers, the one decision of its region covers it:   *)
(* the fanout request for a branch, the reducer request for a custom       *)
(* reducer of a field.                                                     *)
(***************************************************************************)
BatchCovers(r, c) ==
  /\ r.batch = c.batch
  /\ \/ r.boundary = "fanout" /\ c.boundary = "node" /\ c.nodes \subseteq r.nodes
     \/ /\ r.boundary = "reducer" /\ c.boundary = "reducer"
        /\ r.key = 0 /\ c.key # 0 /\ r.nodes = c.nodes

Authorised(c) ==
  \/ c \in allowed
  \/ ~gate.start /\ \E r \in allowed : BatchCovers(r, c)
=============================================================================
