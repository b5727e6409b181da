------------------------------ MODULE ProbeHooks ------------------------------
(***************************************************************************)
(* The probe's side of the runtime hooks: the hook registry of             *)
(* laplace-model-rt, the thread-local identities of laplace-probe-sdk, the *)
(* task hook that sets them at poll boundaries, the five async hooks that  *)
(* turn callbacks into ProbeEvents, and the tracked atomics, which report  *)
(* on their own.  OS threads poll tasks; a task may move from thread to    *)
(* thread between polls.                                                   *)
(***************************************************************************)
EXTENDS Integers, FiniteSets, Sequences

CONSTANTS
  OsThread,
  SetTasks,     \* tasks of the TaskSet; their ids are 0..SetTasks-1
  DynBase,      \* NATIVE_DYNAMIC_TASK_ID_BASE
  MaxDyn,       \* bound on dynamic tasks
  MaxSlotSets,  \* bound on installations and removals of hooks
  MaxReports,   \* bound on seam reports
  NoTask

ASSUME HookConstants ==
  /\ IsFiniteSet(OsThread) /\ SetTasks \in Nat
  /\ DynBase \in Nat /\ DynBase >= SetTasks /\ DynBase >= Cardinality(OsThread)
  /\ MaxDyn \in Nat /\ MaxSlotSets \in Nat /\ MaxReports \in Nat
  /\ NoTask \notin Nat /\ NoTask \notin [task : Nat, observed : BOOLEAN]

VARIABLES
  hooked,       \* slots that hold a hook
  slotSets,     \* slots set so far
  probeThread,  \* PROBE_THREAD_ID of an OS thread
  currentTask,  \* CURRENT_TASK_ID of an OS thread
  nextImplicit, \* NEXT_IMPLICIT_THREAD_ID
  registered,   \* tasks in the TaskSet
  started,      \* the TaskSet was consumed by its runner
  alive,        \* ids of the tasks that have not finished
  nextDyn,      \* NEXT_NATIVE_DYNAMIC_TASK_ID
  poll,         \* the poll an OS thread is in
  lastPolled,   \* the task an OS thread last announced to the task hook
  reports,      \* seam reports so far
  told          \* the event just told, with the poll it was told in

threadVars  == <<probeThread, currentTask, nextImplicit, lastPolled>>
setVars     == <<registered, started>>
hookTaskVars == <<setVars, alive, nextDyn, poll>>
hookVars    == <<hooked, slotSets, threadVars, hookTaskVars, reports, told>>

-----------------------------------------------------------------------------
(* Vocabulary: the runtime's enums, the probe's mirrors, the events. *)

ModelSlots == {"spawn", "async_spawn", "lock", "task_observer"}
AsyncSlots == {"async_lock", "notify", "channel", "broadcast"}
CellSlots  == {"cell"}

RuntimeWords == [
  acquire   |-> {"Mutex", "RwRead", "RwWrite", "SemaphorePermits"},
  kind      |-> {"MpscBounded", "MpscUnbounded", "Oneshot", "Watch"},
  side      |-> {"Sender", "Receiver"},
  op        |-> {"Send", "Recv", "Changed"},
  outcome   |-> {"Ok", "Closed", "Empty", "Full"},
  bop       |-> {"Send", "Recv", "TryRecv", "Resubscribe"},
  boutcome  |-> {"Ok", "Closed", "Empty", "Lagged"}]

\* Faulty variant: the mirror lags behind the runtime.
ProbeWordsWithoutChanged == [RuntimeWords EXCEPT !.op = {"Send", "Recv"}]

\* The mirrors of event.rs.
ProbeWords == [
  acquire   |-> {"Mutex", "RwRead", "RwWrite", "SemaphorePermits"},
  kind      |-> {"MpscBounded", "MpscUnbounded", "Oneshot", "Watch"},
  side      |-> {"Sender", "Receiver"},
  op        |-> {"Send", "Recv", "Changed"},
  outcome   |-> {"Ok", "Closed", "Empty", "Full"},
  bop       |-> {"Send", "Recv", "TryRecv", "Resubscribe"},
  boutcome  |-> {"Ok", "Closed", "Empty", "Lagged"}]

\* The From conversions: the variant of the same name, or unreachable!.
Into(type, word) == IF word \in ProbeWords[type] THEN word ELSE "unreachable"

NamedEvents == {
  "ThreadBlocked", "LockAcquired", "LockReleased", "RwLockReadAcquired",
  "RwLockReadReleased", "RwLockWriteAcquired", "RwLockWriteReleased", "AtomicLoad",
  "AtomicStore", "AtomicRmw", "SemaphoreAcquired", "SemaphoreReleased"}

TaskEvents == {"TaskSpawned", "TaskPolled", "FuturePending", "FutureReady",
               "TaskCompleted", "TaskJoinRequested", "TaskJoinResolved"}

AsyncEvents == {
  "AsyncLockRequested", "AsyncLockAcquired", "AsyncLockReleased", "AsyncLockWaiterDropped",
  "AsyncSemaphoreCreated", "AsyncPermitsAdded", "AsyncNotifyWaitRequested",
  "AsyncNotifyWaitResolved", "AsyncNotifyOne", "AsyncNotifyWaiters",
  "AsyncNotifyWaiterDropped", "AsyncChannelCreated", "AsyncChannelOpRequested",
  "AsyncChannelOpResolved", "AsyncChannelOpDropped", "AsyncChannelEndpointCloned",
  "AsyncChannelEndpointDropped", "AsyncChannelClosed", "AsyncBroadcastCreated",
  "AsyncBroadcastSubscribed", "AsyncBroadcastOpRequested", "AsyncBroadcastOpResolved",
  "AsyncBroadcastOpDropped", "AsyncBroadcastEndpointCloned",
  "AsyncBroadcastEndpointDropped", "AsyncCellCreated", "AsyncCellLoad", "AsyncCellStore"}

\* ProbeEvent::resource_name is Some: what the reference verifier can see.
HasResourceName(variant) == variant \in NamedEvents

\* A callback with the enum arguments it carries, as a sequence of <<type, word>>.
Callback(slot, fn, words) == [slot |-> slot, fn |-> fn, words |-> words]
One(slot, fns, type) == {Callback(slot, f, <<<<type, w>>>>) : f \in fns, w \in RuntimeWords[type]}
Bare1(slot, fns) == {Callback(slot, f, << >>) : f \in fns}
Two(slot, fn, t1, t2) ==
  {Callback(slot, fn, <<<<t1, v>>, <<t2, w>>>>) : v \in RuntimeWords[t1], w \in RuntimeWords[t2]}

Callbacks ==
  UNION {One("async_lock", {"requested", "acquired", "released"}, "acquire"),
         Bare1("async_lock", {"waiter_dropped", "semaphore_created", "permits_added"}),
         Bare1("notify", {"wait_requested", "wait_resolved", "notify_one",
                          "notify_waiters", "waiter_dropped"}),
         One("channel", {"channel_created"}, "kind"), One("channel", {"op_requested"}, "op"),
         Two("channel", "op_resolved", "op", "outcome"),
         One("channel", {"endpoint_cloned", "endpoint_dropped"}, "side"),
         Bare1("channel", {"op_dropped", "channel_closed"}),
         Bare1("broadcast", {"broadcast_created", "subscribed", "op_dropped"}),
         One("broadcast", {"op_requested"}, "bop"),
         Two("broadcast", "op_resolved", "bop", "boutcome"),
         One("broadcast", {"endpoint_cloned", "endpoint_dropped"}, "side"),
         Bare1("cell", {"cell_created", "cell_load", "cell_store"})}

ProbeAsyncLockHook == [
  requested |-> "AsyncLockRequested", acquired |-> "AsyncLockAcquired",
  released |-> "AsyncLockReleased", waiter_dropped |-> "AsyncLockWaiterDropped",
  semaphore_created |-> "AsyncSemaphoreCreated", permits_added |-> "AsyncPermitsAdded"]

ProbeAsyncNotifyHook == [
  wait_requested |-> "AsyncNotifyWaitRequested", wait_resolved |-> "AsyncNotifyWaitResolved",
  notify_one |-> "AsyncNotifyOne", notify_waiters |-> "AsyncNotifyWaiters",
  waiter_dropped |-> "AsyncNotifyWaiterDropped"]

ProbeAsyncChannelHook == [
  channel_created |-> "AsyncChannelCreated", op_requested |-> "AsyncChannelOpRequested",
  op_resolved |-> "AsyncChannelOpResolved", op_dropped |-> "AsyncChannelOpDropped",
  endpoint_cloned |-> "AsyncChannelEndpointCloned",
  endpoint_dropped |-> "AsyncChannelEndpointDropped", channel_closed |-> "AsyncChannelClosed"]

ProbeAsyncBroadcastHook == [
  broadcast_created |-> "AsyncBroadcastCreated", subscribed |-> "AsyncBroadcastSubscribed",
  op_requested |-> "AsyncBroadcastOpRequested", op_resolved |-> "AsyncBroadcastOpResolved",
  op_dropped |-> "AsyncBroadcastOpDropped",
  endpoint_cloned |-> "AsyncBroadcastEndpointCloned",
  endpoint_dropped |-> "AsyncBroadcastEndpointDropped"]

ProbeAsyncCellHook == [
  cell_created |-> "AsyncCellCreated", cell_load |-> "AsyncCellLoad",
  cell_store |-> "AsyncCellStore"]

ProbeHook == [async_lock |-> ProbeAsyncLockHook, notify |-> ProbeAsyncNotifyHook,
              channel |-> ProbeAsyncChannelHook, broadcast |-> ProbeAsyncBroadcastHook,
              cell |-> ProbeAsyncCellHook]

\* The event of a callback.
Projected(c) == [variant |-> ProbeHook[c.slot][c.fn],
                 words |-> [i \in DOMAIN c.words |-> Into(c.words[i][1], c.words[i][2])]]

-----------------------------------------------------------------------------
HooksInit ==
  /\ hooked \in {{}, {"task_observer"} \cup AsyncSlots \cup CellSlots} /\ slotSets = 0
  /\ probeThread = [o \in OsThread |-> NoTask] /\ currentTask = [o \in OsThread |-> NoTask]
  /\ nextImplicit = 0 /\ lastPolled = [o \in OsThread |-> NoTask]
  /\ registered = 0 /\ started = FALSE
  /\ alive = {} /\ nextDyn = DynBase /\ poll = [o \in OsThread |-> NoTask]
  /\ reports = 0
  /\ told = NoTask

\* The task whose observed poll OS thread o is running.
Polling(o) == IF poll[o] # NoTask /\ poll[o].observed THEN poll[o].task ELSE NoTask

Told(o, variant, id) ==
  told' = [variant |-> variant, id |-> id, within |-> Polling(o), last |-> lastPolled[o]]

Silent == told' = NoTask

\* current_thread_id: the id set for the OS thread, or the next implicit one.
ThreadId(o) == IF probeThread[o] = NoTask THEN nextImplicit ELSE probeThread[o]

KeepThreadId(o) ==
  /\ probeThread' = [probeThread EXCEPT ![o] = ThreadId(o)]
  /\ nextImplicit' = IF probeThread[o] = NoTask THEN nextImplicit + 1 ELSE nextImplicit
  /\ UNCHANGED <<currentTask, lastPolled>>

-----------------------------------------------------------------------------
(* The hook registry: every slot is installed over, cleared and read alone. *)

SetSlot(s) ==
  /\ slotSets < MaxSlotSets /\ slotSets' = slotSets + 1
  /\ \/ hooked' = hooked \cup {s}
     \/ hooked' = hooked \ {s}
  /\ UNCHANGED <<threadVars, hookTaskVars, reports>> /\ Silent

SetModelSlot == \E s \in ModelSlots : SetSlot(s)
SetAsyncSlot == \E s \in AsyncSlots : SetSlot(s)
SetCellSlot  == \E s \in CellSlots : SetSlot(s)

\* install_probe_async_hooks, called before tasks run: one slot after another,
\* and never the timer's.
InstallProbeAsyncHooks ==
  /\ slotSets < MaxSlotSets /\ slotSets' = slotSets + 1
  /\ poll = [o \in OsThread |-> NoTask]
  /\ hooked' = hooked \cup AsyncSlots \cup CellSlots
  /\ UNCHANGED <<threadVars, hookTaskVars, reports>> /\ Silent

-----------------------------------------------------------------------------
(* The task hook. *)

\* TaskSet::spawn and task_registered.
RegisterTask(o) ==
  /\ poll[o] = NoTask /\ ~started /\ registered < SetTasks
  /\ registered' = registered + 1 /\ alive' = alive \cup {registered}
  /\ IF "task_observer" \in hooked THEN Told(o, "TaskSpawned", NoTask) ELSE Silent
  /\ UNCHANGED <<hooked, slotSets, threadVars, started, nextDyn, poll, reports>>

\* spawn_task: the engine's task is not observed; dynamic_task_spawned.
SpawnTask(o) ==
  /\ "async_spawn" \notin hooked /\ "task_observer" \in hooked
  /\ nextDyn < DynBase + MaxDyn
  /\ nextDyn' = nextDyn + 1 /\ alive' = alive \cup {nextDyn}
  /\ Told(o, "TaskSpawned", currentTask[o])
  /\ UNCHANGED <<hooked, slotSets, threadVars, setVars, poll, reports>>

\* ObservedTask::poll reads the hook once; poll_started.
PollStarted(o, t) ==
  /\ poll[o] = NoTask
  /\ t \in alive /\ \A p \in OsThread : poll[p] # NoTask => poll[p].task # t
  /\ LET observed == "task_observer" \in hooked IN
       /\ poll' = [poll EXCEPT ![o] = [task |-> t, observed |-> observed]]
       /\ IF observed
          THEN /\ currentTask' = [currentTask EXCEPT ![o] = t]
               /\ probeThread' = [probeThread EXCEPT ![o] = t]
               /\ lastPolled' = [lastPolled EXCEPT ![o] = t]
          ELSE UNCHANGED <<currentTask, probeThread, lastPolled>>
  /\ started' = (started \/ t < DynBase)
  /\ UNCHANGED <<hooked, slotSets, nextImplicit, registered, alive, nextDyn, reports>> /\ Silent

\* Faulty variant: a panic returns before the task id is cleared.
PollCompletedEarlyReturn(o, outcome) ==
  /\ poll[o] # NoTask
  /\ poll' = [poll EXCEPT ![o] = NoTask]
  /\ alive' = IF outcome = "Pending" THEN alive ELSE alive \ {poll[o].task}
  /\ currentTask' = IF poll[o].observed /\ outcome # "Panicked"
                    THEN [currentTask EXCEPT ![o] = NoTask] ELSE currentTask
  /\ UNCHANGED <<hooked, slotSets, probeThread, nextImplicit, lastPolled, setVars, nextDyn,
                 reports>> /\ Silent

\* poll_completed and, when the task is over, task_completed.
PollCompleted(o, outcome) ==
  /\ poll[o] # NoTask
  /\ poll' = [poll EXCEPT ![o] = NoTask]
  /\ alive' = IF outcome = "Pending" THEN alive ELSE alive \ {poll[o].task}
  /\ IF poll[o].observed
     THEN /\ currentTask' = [currentTask EXCEPT ![o] = NoTask]
          /\ IF outcome = "Pending" THEN Told(o, "FuturePending", poll[o].task)
                                    ELSE Told(o, "TaskCompleted", poll[o].task)
     ELSE UNCHANGED currentTask /\ Silent
  /\ UNCHANGED <<hooked, slotSets, probeThread, nextImplicit, lastPolled, setVars, nextDyn,
                 reports>>

\* join_requested and join_resolved, from the poll of a handle.
JoinReported(o) ==
  /\ "task_observer" \in hooked /\ currentTask[o] # NoTask
  /\ Told(o, "TaskJoinRequested", currentTask[o])
  /\ UNCHANGED <<hooked, slotSets, threadVars, hookTaskVars, reports>>

\* A JoinHandle abort drops a parked task, and its guards, outside any poll.
AbortTask(t) ==
  /\ t \in alive /\ \A o \in OsThread : poll[o] # NoTask => poll[o].task # t
  /\ t >= DynBase
  /\ alive' = alive \ {t}
  /\ UNCHANGED <<hooked, slotSets, threadVars, setVars, nextDyn, poll, reports>> /\ Silent

-----------------------------------------------------------------------------
(* The async hooks, the tracked semaphore and the tracked atomics. *)

\* A seam calls its hook, in a poll or outside.
Report(o, slot) ==
  /\ slot \in hooked \cap DOMAIN ProbeHook
  /\ reports < MaxReports /\ reports' = reports + 1
  /\ Told(o, "Async", ThreadId(o)) /\ KeepThreadId(o)
  /\ UNCHANGED <<hooked, slotSets, hookTaskVars>>

\* load, store, compare_exchange and fetch_* of a tracked atomic: the
\* operation, then its event, which carries no value.
AtomicReport(o) ==
  /\ reports < MaxReports /\ reports' = reports + 1
  /\ Told(o, "Atomic", ThreadId(o)) /\ KeepThreadId(o)
  /\ UNCHANGED <<hooked, slotSets, hookTaskVars>>

HooksNext ==
  \/ SetModelSlot \/ SetAsyncSlot \/ SetCellSlot \/ InstallProbeAsyncHooks
  \/ \E o \in OsThread :
       \/ RegisterTask(o) \/ SpawnTask(o) \/ JoinReported(o)
       \/ \E t \in alive : PollStarted(o, t)
       \/ \E r \in {"Pending", "Ready", "Panicked"} : PollCompleted(o, r)
       \/ \E s \in AsyncSlots \cup CellSlots : Report(o, s)
       \/ AtomicReport(o)
  \/ \E t \in alive : AbortTask(t)

HooksSpec == HooksInit /\ [][HooksNext]_hookVars

-----------------------------------------------------------------------------
(* Properties. *)

\* No callback meets an unreachable! arm, no two callbacks give the same
\* event, and every event of an async hook is one the reference verifier
\* cannot see (async_hooks.rs, event.rs).
VocabularyFaithful ==
  /\ \A c \in Callbacks : /\ \A i \in DOMAIN c.words : Projected(c).words[i] # "unreachable"
                          /\ Projected(c).variant \in AsyncEvents
                          /\ ~HasResourceName(Projected(c).variant)
  /\ \A c, d \in Callbacks : Projected(c) = Projected(d) => c = d

\* An event told inside an observed poll carries that task's id; a dynamic
\* task's parent is the task being polled and nobody outside a poll; outside,
\* a report carries the id of the task last polled on that OS thread, or an
\* implicit id (task.rs, session.rs current_thread_id).
AttributionSound ==
  told # NoTask => LET l == told IN
    /\ l.variant = "TaskSpawned" => l.id = l.within
    /\ l.variant = "TaskJoinRequested" => l.within # NoTask /\ l.id = l.within
    /\ l.variant \notin TaskEvents =>
         l.id = IF l.within # NoTask THEN l.within
                ELSE IF l.last # NoTask THEN l.last ELSE l.id
    /\ l.variant \notin TaskEvents /\ l.last = NoTask => l.id < Cardinality(OsThread)

\* What the probe's hooks say is right.
HooksSound == VocabularyFaithful /\ AttributionSound

===============================================================================
