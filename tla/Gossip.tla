------------------------------- MODULE Gossip -------------------------------
(***************************************************************************)
(* The gossip log (gossip.py).  emit reads the clock and inserts through a *)
(* connection of its own, so that several of them overlap; it is the wall  *)
(* clock (wall), which may stand still and step back.  A poller tails the  *)
(* log from the newest time it has seen, which is what since is for.       *)
(* Events are named by their row id; payloads are left out.  sinceThen and *)
(* cut are history.                                                        *)
(***************************************************************************)
EXTENDS Integers, Sequences, FiniteSets, FiniteSetsExt, SequencesExt

CONSTANTS
  Writers,   \* tasks that emit, one event at a time
  MaxTime,   \* bound on the clock
  MaxRows,   \* bound on the rows
  Limit      \* the limit of a page

ASSUME BoundsAssumption == MaxTime \in Nat /\ MaxRows \in Nat /\ Limit \in Nat \ {0}

VARIABLES wall, stamp, rows, since, seen, sinceThen, cut

log == <<wall, stamp, rows, since, seen, sinceThen, cut>>

Idle == -1

GossipInit ==
  /\ wall = 1
  /\ stamp = [w \in Writers |-> Idle]
  /\ rows = <<>>        \* the times, by row id
  /\ since = 0
  /\ seen = <<>>        \* the row ids handed to the poller, in order
  /\ sinceThen = <<>>   \* by row id, the poller's since when the row came
  /\ cut = {}           \* the rows a full page had no room for

Tick ==
  /\ \E t \in 1 .. MaxTime : wall' = t
  /\ UNCHANGED <<stamp, rows, since, seen, sinceThen, cut>>

\* time.time() is read before the INSERT.
Emit(w) ==
  /\ stamp[w] = Idle
  /\ stamp' = [stamp EXCEPT ![w] = wall]
  /\ UNCHANGED <<wall, rows, since, seen, sinceThen, cut>>

Insert(w) ==
  /\ stamp[w] # Idle /\ Len(rows) < MaxRows
  /\ rows' = Append(rows, stamp[w])
  /\ sinceThen' = Append(sinceThen, since)
  /\ stamp' = [stamp EXCEPT ![w] = Idle]
  /\ UNCHANGED <<wall, since, seen, cut>>

\* A database that is locked, or a cancellation before the commit.
Fail(w) ==
  /\ stamp[w] # Idle
  /\ stamp' = [stamp EXCEPT ![w] = Idle]
  /\ UNCHANGED <<wall, rows, since, seen, sinceThen, cut>>

\* Mutant: the last time is asked for again.
NotOlder(t) == {id \in DOMAIN rows : rows[id] >= t}
Newer(t) == {id \in DOMAIN rows : rows[id] > t}

\* ORDER BY id DESC LIMIT: the k-th row of a page has k - 1 after it.
\* Mutant: the oldest first.
OldestFirst(t, limit) ==
  [k \in 1 .. Min({limit, Cardinality(Newer(t))}) |->
    CHOOSE id \in Newer(t) : Cardinality({j \in Newer(t) : j < id}) = k - 1]

Page(t, limit) ==
  [k \in 1 .. Min({limit, Cardinality(Newer(t))}) |->
    CHOOSE id \in Newer(t) : Cardinality({j \in Newer(t) : j > id}) = k - 1]

Crowded(id) == rows[id] > since /\ Cardinality({j \in id + 1 .. Len(rows) : rows[j] > since}) >= Limit

Poll ==
  /\ LET page == Page(since, Limit)
     IN  /\ seen' = seen \o page
         /\ since' = Max({since} \cup {rows[page[k]] : k \in DOMAIN page})
  /\ cut' = cut \cup {id \in DOMAIN rows : Crowded(id)}
  /\ UNCHANGED <<wall, stamp, rows, sinceThen>>

GossipNext ==
  \/ Tick
  \/ \E w \in Writers : Emit(w) \/ Insert(w) \/ Fail(w)
  \/ Poll

GossipSpec == GossipInit /\ [][GossipNext]_log

-----------------------------------------------------------------------------
\* A poller is never given the same event twice (gossip.py:40).
NothingTwice == IsInjective(seen)

\* It misses an event for good only if the event came late, stamped at or
\* before a time the poller had already seen, or if a full page of newer
\* events left no room for it (gossip.py:32, 40-41).
LossHasACause ==
  \A id \in DOMAIN rows :
    rows[id] <= since /\ id \notin ToSet(seen) => rows[id] <= sinceThen[id] \/ id \in cut

\* A poller gets every event once, but for those two causes.
TailIsAccountable == NothingTwice /\ LossHasACause
=============================================================================
