------------------------------ MODULE SimClock ------------------------------
(***************************************************************************)
(* laplace-interfaces domain::tracing and domain::time: Lamport timestamps *)
(* and the happens_before test on traced events, and the order in which    *)
(* scheduled events leave the queue of the virtual clock.  The engine that *)
(* stamps, schedules and pops (a BinaryHeap over this order, per the       *)
(* traits) is outside this repository.                                     *)
(***************************************************************************)
EXTENDS Integers, Sequences, FiniteSets

CONSTANTS
  SimThread,
  MaxStamp,     \* u64::MAX of timestamps
  MaxTraced,    \* bound on traced events
  SimDelays,    \* delays events are scheduled with
  MaxScheduled  \* bound on scheduled events

ASSUME SimBounds ==
  MaxStamp \in Nat \ {0} /\ MaxTraced \in Nat /\ SimDelays \subseteq Nat /\ MaxScheduled \in Nat

VARIABLES
  stamp,     \* LamportTimestamp of a thread
  traced,    \* SimulationEvents: thread, stamp and the events in their causal past
  overflown, \* some timestamp wrapped or saturated
  now,       \* virtual time
  lamport,   \* Lamport clock of the queue
  serial,    \* events scheduled so far; the last one's event_id
  queue,     \* ScheduledEvents
  popped     \* those popped, in order

traceVars == <<stamp, traced, overflown>>
queueVars == <<now, lamport, serial, queue, popped>>
simVars   == <<traceVars, queueVars>>

SimInit ==
  /\ stamp = [t \in SimThread |-> 0] /\ traced = << >> /\ overflown = FALSE
  /\ now = 0 /\ lamport = 0 /\ serial = 0 /\ queue = {} /\ popped = << >>

-----------------------------------------------------------------------------
(* Timestamps. *)

\* wrapping_add.
Increment(s) == (s + 1) % (MaxStamp + 1)

\* Faulty variant: the remote timestamp is taken over as it is.
SyncWithoutStep(s, remote) == IF s > remote THEN s ELSE remote

\* max, then saturating_add.
Sync(s, remote) ==
  LET m == IF s > remote THEN s ELSE remote IN IF m = MaxStamp THEN m ELSE m + 1

HappensBefore(e, f) == e.stamp < f.stamp

OwnPast(t) == {i \in DOMAIN traced : traced[i].thread = t}

\* An event of t with timestamp s, after its own events and those in "seen".
Trace(t, s, seen) ==
  /\ Len(traced) < MaxTraced
  /\ traced' = Append(traced, [thread |-> t, stamp |-> s,
                               past |-> seen \cup OwnPast(t)
                                        \cup UNION {traced[i].past : i \in seen \cup OwnPast(t)}])
  /\ stamp' = [stamp EXCEPT ![t] = s]
  /\ UNCHANGED queueVars

\* ClockTick, Memory, Synchronization, ThreadSpawn.
LocalEvent(t) ==
  /\ Trace(t, Increment(stamp[t]), {})
  /\ overflown' = (overflown \/ stamp[t] = MaxStamp)

\* t takes in event i of another thread: a lock handed over, a thread joined.
RemoteEvent(t, i) ==
  /\ traced[i].thread # t
  /\ Trace(t, Sync(stamp[t], traced[i].stamp), {i})
  /\ overflown' = (overflown \/ MaxStamp \in {stamp[t], traced[i].stamp})

-----------------------------------------------------------------------------
(* The queue. *)

\* Faulty variant: the youngest of a moment first.
BeforeLifo(e, f) ==
  \/ e.at < f.at
  \/ e.at = f.at /\ e.lamport > f.lamport
  \/ e.at = f.at /\ e.lamport = f.lamport /\ e.id < f.id

\* cmp = Greater: the heap pops what is earliest, then has the lowest
\* Lamport clock, then the lowest id.
Before(e, f) ==
  \/ e.at < f.at
  \/ e.at = f.at /\ e.lamport < f.lamport
  \/ e.at = f.at /\ e.lamport = f.lamport /\ e.id < f.id

\* eq compares ids alone.
SameEvent(e, f) == e.id = f.id

\* increment_lamport and push_event; engine events of one step share a clock.
Schedule(delay, ticks) ==
  /\ serial < MaxScheduled /\ serial' = serial + 1
  /\ lamport' = lamport + ticks
  /\ queue' = queue \cup {[at |-> now + delay, lamport |-> lamport', id |-> serial']}
  /\ UNCHANGED <<now, popped, traceVars>>

\* pop_event, set_time and, when the queue is empty, reset_lamport.
PopEvent ==
  /\ \E e \in queue :
       /\ \A f \in queue : ~Before(f, e)
       /\ queue' = queue \ {e} /\ popped' = Append(popped, e) /\ now' = e.at
       /\ lamport' = IF queue = {e} THEN 0 ELSE lamport
  /\ UNCHANGED <<serial, traceVars>>

TraceNext == \E t \in SimThread : LocalEvent(t) \/ \E i \in DOMAIN traced : RemoteEvent(t, i)
QueueNext == PopEvent \/ \E d \in SimDelays, k \in {0, 1} : Schedule(d, k)

SimSpec == SimInit /\ [][TraceNext \/ QueueNext]_simVars

-----------------------------------------------------------------------------
(* Properties. *)

\* While no timestamp has met its limit, an event that could have caused
\* another happens_before it, and no two events of a thread are unordered;
\* increment wraps where sync saturates, so at the limit neither is promised.
CausalityRespected ==
  ~overflown => \A j \in DOMAIN traced : \A i \in traced[j].past :
                  HappensBefore(traced[i], traced[j]) /\ ~HappensBefore(traced[j], traced[i])

\* Replay is deterministic: the next event is unique, cmp says Equal only of
\* what eq says is equal, time never goes back, and events of one moment come
\* out in the order they were scheduled, resets of the Lamport clock included.
ReplayOrder ==
  /\ \A e, f \in queue : SameEvent(e, f) \/ Before(e, f) \/ Before(f, e)
  /\ \A i, j \in DOMAIN popped : i < j => \/ popped[i].at < popped[j].at
                                          \/ popped[i].at = popped[j].at /\ popped[i].id < popped[j].id

\* Timestamps and the queue order what they must (tracing/types.rs,
\* time/types.rs).
OrderSound == CausalityRespected /\ ReplayOrder
=============================================================================
