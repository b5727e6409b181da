# Formal models of Laplace's public runtime, probe, macros and interfaces

Laplace verifies concurrent Rust code by running it against *model* primitives
that report every synchronisation step to an installed hook. The engine that
explores schedules is private; this repository holds the part a user links: the
model runtime (`crates/laplace-model-rt`), the probe SDK that captures the
events of native runs (`crates/laplace-probe-sdk`, `crates/laplace-probe-common`),
the macros that rewrite code and generate test harnesses (`crates/laplace-macro`),
and the interface crates (`crates/laplace-interfaces`).

Everything downstream draws conclusions from the *event stream*. So the question
asked throughout is: is what the hook is told true of the real primitive, in
which order, and whatever is cancelled, aborted, panics or is exchanged on the
way?

## 1. Inventory

| Part | State | Operations | Hard behaviour | What makes it correct |
|---|---|---|---|---|
| Async locks (`async_mutex.rs`, `async_rwlock.rs`, `async_semaphore.rs`) over tokio's batch semaphore | free permits, wait list, per-call assigned permits, `requested_emitted`, `created_reported` | acquire/lock/read/write, try_*, poll, drop of future and guard, forget, add_permits | partial assignment, cancellation after assignment, a poll without budget, hook exchanged in between | no permit lost, FIFO, no barging, reported holders hold, reported exclusion, waiters served |
| Std locks (`mutex.rs`, `rwlock.rs`) | std lock, the hook's holders | lock/read/write, try_*, guard drop | the boundary precedes the lock (and follows it in try_*); panics skip the release; the engine grants, then the lock is *tried* | real deadlocks visible, no false ones, no phantom holder, no contended grant |
| Tasks (`task_set.rs`, `spawn.rs`) | task state, completion with one waker, handle flags, hook captured per poll | register, run, poll, spawn, join, abandon, abort | completion before report, abort against the last poll, hook exchanged during a poll | polls paired, completion seen before join, joiners woken |
| Resource ids (`hooks.rs`) | shared counter, lazily assigned cells | eager and lazy allocation, reset | compare-exchange race, exhaustion, ids that outlive a reset | one id per resource, distinct ids |
| mpsc and oneshot (`mpsc.rs`, `oneshot.rs`) | tokio channel, operation ids, endpoints | send, try_send, recv, try_recv, clone, close, drop, cancel | the report is a step of its own, before or after the real one | every outcome explained by earlier events, each request ends once |
| watch and broadcast (`watch.rs`, `broadcast.rs`) | log, cursors, `send_seq` | send, subscribe, resubscribe, recv, changed, drop | a message is numbered after it is sent | endpoint counts cover reality, reported position exact when nothing overlaps |
| Notify (`async_notify.rs`) | stored permit, waiters | notified, poll, drop, notify_one, notify_waiters | a cancelled waiter hands its notification on | every wakeup is accounted for |
| Atomic cell (`arc_swap.rs`) | snapshot with version, mutex | store, load, Cache::load | loads without the mutex, version limit | a version names one value, reports in order |
| Virtual time (`async_time.rs`) | clock chosen, deadline, registration | sleep, timeout, interval | clock fixed at the first poll, saturation, drop with a registration | never early, nothing stale or forgotten, sleepers wake |
| Capture session (`session.rs`, harnesses of `verify.rs`) | `CAPTURE_LOCK`, sender slots, collector, implicit ids | begin, finish, drop, emit, legacy sender | tests in parallel, panics, threads that outlive a test, a legacy sender whose channel is full | one session, nothing lost, nothing foreign from threads that are joined, threads told apart, no hang |
| Emit and client (`session.rs`, `client.rs`, `target.rs`, `byoc_test.rs`) | legacy senders, bounded channel, queue, batch | emit, flush, upload, collect | full channel under a mutex, failed upload, a forgotten sender | at most once and in order, every emit returns, the harness ends |
| Probe hooks (`task.rs`, `async_hooks.rs`, `hooks.rs`) | hook slots, thread-local identities | install, clear, every callback | identity kept between polls | right task, right parent, faithful vocabulary |
| Tracked primitives and reference verifier (`tracked*.rs`, `session.rs`) | guards, held list, order edges, permits | acquire, event, event, release; replay | interleaved events, re-entrant readers, poisoning | alarms are cycles, two-lock cycles are found, the stream is a history |
| Wire format (`laplace-probe-common`) | ring of raw events, decoder, mock source | write, decode, convert | batches, unknown records, narrow ids | the decoded stream is the situation promised |
| Macros (`model.rs`, `verify.rs`, `target.rs`, `byoc_test.rs`, `tracked_derive.rs`) | scopes, arguments, fields, process-wide hooks | rewrite, parse, generate, run | shadowing and renames, tests that influence each other | imports transparent, verdicts sound, resources distinct |
| Interfaces (`context.rs`, `tenant/`, `error/`, `harness/`, `kraken/`, `tracing/`, `time/`) | contexts, tenants, specifications, schedules, stamps | constructors, narrowing, upgrade, build, validate, schedule | copied and inherited state, skipped serialization, NaN and f64 rounding, resets of a clock | see `TenancySound`, `ProbesSound`, `KrakenSound`, `OrderSound` |

Interactions: a macro rewrites a path to a model primitive; the primitive reads
its hook slot at each boundary and calls it; the probe's hooks build a
`ProbeEvent` with `current_thread_id` and call `emit`; `emit` sends to the
thread's, the global or the session's sink and, in the cloud build, to the
client; `finish` hands the events to the reference verifier or to a file. A
`ResourceIds` id names the primitive in every event.

## 2. Modules

| Module | Models | Used by |
|---|---|---|
| `LockTrace` | what a consumer of lock events may rely on: an abstract lock | refined by `AsyncLock` |
| `AsyncLock` | one async mutex, rwlock or semaphore, tokio's semaphore inside it, and the reports | `MCAsyncLock`, `AsyncLockProofs` |
| `ChannelTrace` | what a consumer of channel events may rely on | refined by `Channel` |
| `Channel` | one bounded, unbounded or oneshot channel and its reports | `MCChannel`, `ChannelProofs` |
| `ModelLock` | std mutex/rwlock seam under the probe or an engine | `MCModelLock`, `MCSeams`, `LockProofs` |
| `TaskObservation` | task sets, spawned tasks, joins, aborts and the observer | `MCTaskObservation`, `TaskObservationProofs` |
| `CaptureSession` | sessions, emit, logical thread ids, generated tests | `MCCaptureSession`, `CaptureSessionProofs` |
| `ResourceIds` | allocation of resource ids | `MCSeams`, `SeamProofs` |
| `FanOut` | watch and broadcast channels | `MCSeams`, `SeamProofs` |
| `Notify` | the notify wrapper | `MCSeams`, `SeamProofs` |
| `Cell` | the atomic cell and its cache | `MCSeams`, `SeamProofs` |
| `LockOrder` | the five tracked locks and `find_lock_order_cycle` | `MCSeams`, `LockProofs` |
| `TrackedPermit` | the tracked semaphore | `MCSeams`, `LockProofs` |
| `ProbeHooks` | hook registry, thread identities, task and async hooks, tracked atomics | `MCSeams`, `ProbeProofs` |
| `WireFormat` | raw events, decoder, mock streams | `MCSeams`, `LoopProofs` |
| `Tenancy` | contexts, tiers, tenants, error numbers | `MCSeams`, `ProbeProofs` |
| `DeadlockProbe` | harness specifications and the static ABBA check | `MCSeams`, `LoopProofs` |
| `Kraken` | scenario validation, chaos schedule, ramp-up | `MCSeams`, `LoopProofs` |
| `SimClock` | Lamport stamps, order of scheduled events | `MCSeams`, `ProbeProofs` |
| `VirtualTime` | sleep, timeout, interval on two clocks | `MCProgress`, `SeamProofs` |
| `EmitPath` | legacy senders, client queue and uploads, `axiom_target` and `byoc_test` harnesses | `MCProgress`, `MCEmitPath`, `ProbeProofs` |
| `ModelRewrite` | which paths the rewrite replaces or marks | `MCProgress`, `LoopProofs` |
| `VerifyHarness` | arguments, signatures and verdicts of generated tests | `MCProgress`, `ProbeProofs` |
| `TrackedDerive` | `#[laplace_tracked]` structs | `MCProgress`, `ProbeProofs` |

`PROJECT.json` maps each definition to its lines. In each module the *faulty
variants* are mutations of an action; no specification uses them. They exist to
show that a property notices the mistake they make.

The shape is the same throughout. A call walks through a program counter (`pc`,
`opc`, `rpc`, `lpc`, ...); the real step and the report about it are different
steps, so every other actor can come between them exactly where the code lets
it. Variables named `obs...`, `rep`, `shown`, `announced`, `told` are what the
consumer of events has seen, never what the code keeps. Code under one mutex is
one step unless it calls out.

### AsyncLock
A permit is an element of a set, so a count of n is a set of size n. The points
in `Boundary` are where the wrapper reports: `acquired` after the real
acquisition, `released` before the real release. tokio's `add_permits_locked` is
modelled waiter by waiter under its mutex (`lock`, `rem`, `AssignHead`,
`FinishReturn`); a future takes what it can and queues for the rest
(`PollEnqueue`), and gives back what it was assigned when dropped (`InnerDrop`).
`PollNoBudget` is the cooperative-budget exit of tokio's poll. `hook`, `armed`
and `toggles` model the slot that is re-read at every boundary. Left out: closing
(the wrappers never close) and the waker lists. The batch of 32 wakers, after
which tokio releases and retakes the mutex, is not reached by the instances.

### Channel and ChannelTrace
A value is the op that sent it. `kind` chooses bounded, unbounded or oneshot at
the start. `opc` follows an op from the request through the real operation
(`out`) to its report (`obs`), or through a drop; `rpc` follows the receiver's
close. `ChannelTrace` is the abstract stream: an op is requested once and ends
once, a handle acts only while reported alive, a receive ends in Closed only when
the stream says why. The hook stays installed; exchanging it is studied in
`AsyncLock` with the same re-read at each event.

### FanOut, Notify, Cell
`FanOut` has a log and one cursor per receiver; `start` and `overlap` remember
whether a send was under way when a receiver subscribed. `Notify` keeps tokio's
permit, its line of waiters and the rounds of `notify_waiters`. `Cell` keeps
version and value in one snapshot, as the code does; `written` is history.

### ModelLock
`rep` is the hook's picture of who holds what, `granted` the engine's. With
`engine` one thread runs at a time and a lock call parks until the engine grants
it. The engine is external: it grants a resource nobody owns. Poison changes the
type of the result, not who holds the lock, and is not kept.

### TaskObservation
`pc` follows a task through `ObservedTask::poll`: the hook is read once (`cap`),
the future polled, the poll reported, the handle completed, the completion
reported. `handle` and `waker` are the join handle and its one waker slot.
A dynamic task is observed, so it is spawned only while a hook is installed.
Tokio's harness (run queue, cancellation) is external.

### ResourceIds, ProbeHooks
`get` is load, allocate, compare-exchange; `MaxId` stands for `u64::MAX`.
`ProbeHooks` has the slots, and per OS thread the identity the task hook sets at
poll boundaries; `Projected` is the translation of a callback into a probe event.

### CaptureSession, EmitPath
`begin` and `tear_down` are one step per shared object they touch. `emit` looks
at the legacy global sender, then at the session's slot, each under its lock. A
`Child` with an `ExplicitId` is a `Worker`: the generated code numbers it and
joins it before `finish`. Every other child is a thread of the annotated body,
which no harness joins, so it may emit into a later session. A thread that runs
harnesses keeps the id cached in it from one test to the next. The legacy test
has a channel of `LegacyRoom` places that its own threads fill as well
(`LegacySend`); an emit that finds it full blocks with the lock of the global
slot held (`SenderStuck`), and since the legacy harness drains only after
`clear_probe_sender`, which needs that lock, it stays blocked. A legacy test that
panics, and so drops its receiver, is left out. `told` and `left` are history.

`EmitPath` is the same `emit` seen from its other sinks: the thread's own sender,
the bounded legacy channel (sent to under the mutex), and the client's queue and
batches. A batch arrives whole or is lost, and is cleared in both cases; an
upload may also never end, since connect and send have no timeout. `tried` is
history.

### LockOrder, TrackedPermit
The verifier runs on the stream as it grows, which gives the same answer as
running it at the end on a prefix. `order` is the truth: every nesting that
really happened. `flavour` chooses tokio's, std's or parking_lot's locks.

### VirtualTime
`mode` is fixed at the first poll. A poll reads the slot, then the clock, then
registers; the engine may advance in between. `MaxNanos` stands for `u64::MAX`,
so that saturation is met.

### ModelRewrite, VerifyHarness, TrackedDerive
The data is the syntax the macros inspect, cut to what they decide by: a path is
its segments and where it has generic arguments, a scope its declarations, an
argument its form, key and literal, a field what its type ends with. The
algorithms are operators translated from the code; the runs apply them to sets
of inputs, several in one process for the generated tests.

`scopes` lists the inline modules around a function, the top level of its body
and, innermost, `blocks` nested blocks. The macro builds its alias table from the
first `Body` of them; what the compiler sees (`Covering`) are the blocks, the body
and the module the function is in, not the modules further out. `Meant` is the
reference: a name that its innermost scope binds to an import from tokio stands
for that import, everything else (a glob, another crate, an item, an import in a
nested block) is left as written, which is what the comments promise.
`PassedOver` are the tokio imports of a name in scopes that the compiler does not
take it from, which the macro falls back on when the deciding scope is not
tokio's. `ImportedOnce` is what rustc demands of a scope.

### WireFormat, Tenancy, DeadlockProbe, Kraken, SimClock
Types with operations that a driver outside the repository calls. The actions
are those operations; the driver is any sequence of calls its traits and docs
allow. `lowest` and `byTurbo` in `Tenancy`, `past` in `SimClock` are history.

`Tenancy`: a request's identifier is given by the caller and is its own
(`FreshRequest`). `CloneContext` is the derived `Clone`, and a context that is
serialized and read back: every field is copied, the slot too.

`Kraken`: probabilities are in thousandths and NaN is a value of its own. Time is
in milliseconds. `RoundedUp` holds the products that are whole numbers and that
f64 leaves just above them (2.1 s of 3 s for 10 users asks for 8, not 7); at a
resolution of milliseconds and for products below 2^53 every other ceiling is
exact. The arithmetic of a staircase is modulo `Word`, as in a release build; a
debug build panics where it wraps.

## 3. Runs

| Run | Bounds | Checks |
|---|---|---|
| `asynclock_semaphore` | 3 calls for 0 or 2 permits, 1 add_permits, 1+1 permits, hook exchanged twice | `TypeOK`, `PermitsConserved`, `ReportedHoldersHold`, `ServedInOrder` |
| `asynclock_rwlock` | 3 readers or writers, 2 read permits, fair | `NoBarging`, `ReportedExclusion`, `TraceSpec` (refines `LockTrace`), `WaitersServed` |
| `asynclock_created` | 2 calls | *violation* of `CreatedFirst` |
| `modellock_readers` | 2 threads, 2 rwlocks | *violation* of `NoFalseReaderCycle` |
| `session_tests` | 2 tests, 1 worker, 1 thread of the body, 1 event each, 1 legacy test with room for 1 event, panics, fair | `TypeOK`, `SessionExclusive`, `FinishReturnsAll`, `WorkersDoNotPollute`, `SessionEnds` |
| `session_scenario` | 2 scenario tests on one thread, 1 child, 2 events each | *violation* of `StableIds` |
| `tasks_native` | 2 set tasks and a dynamic one, 1 worker, hook exchanged twice, fair | `ObservationSound`, `JoinersServed` |
| `tasks_abort` | 1 set task, 1 dynamic | *violation* of `TerminalReported` |
| `channel` | three kinds, 2 sender handles, 3 sends, 2 receives, capacity 1 | `ChannelSound`, `TraceSpec` (refines `ChannelTrace`) |
| `byoc_collects` | 2 workers, 1 helper, fair | *violation* of `ByocCollects` |
| `seams` | see below | one invariant per part, `CellOrder`, `ContendedOnlyBehindTry` |
| `progress` | see below, fair | `TimersSound`, `UploadedOnceInOrder`, `ImportsTransparent`, `VerdictsSound`, `ResourcesDistinct`, `Progress` |

`seams` and `progress` explore parts that share no variable: a behaviour chooses
a `part` at its start and the others rest in one of their initial states, which
is the same as a run per part. An invariant that is a conjunction names its
parts. The largest runs are `seams` (about 920,000 distinct states),
`session_tests` (446,000) and `progress` (230,000).

| Part | Instance | Property and what it says |
|---|---|---|
| ids | 2 threads, 2 lazy, 2 eager, ids up to 5, 1 reset | `IdsSound`: one id per resource; distinct until a reset |
| std | 2 threads, 2 mutexes, 1 rwlock, engine or probe, try calls | `StdPictureSound`: real deadlocks visible, holders real unless panicked, no false cycle of mutexes. `ContendedOnlyBehindTry`: the contended-grant panic has one cause |
| order | 2 threads, 1 mutex, 2 rwlocks, 4 acquisitions, 3 flavours | `VerifierSound`: the stream is exclusive, alarms are cycles, two-lock cycles are found |
| permit | 3 calls, 2 permits | `PermitsSound`: permits conserved, never more announced holders than permits |
| fan | 2+2 endpoints, ring of 1, 2 sends | `FanSound`: endpoint counts, starting position, no orphan request |
| notify | 2 waiters, 2 notifiers, 3 notifications | `WakesExplained` |
| cell | 2 clients, 2 values, versions up to 2 | `CellSound`, `CellOrder` |
| hooks | 2 OS threads, 1 set task, 1 dynamic task | `HooksSound`: attribution and vocabulary |
| wire | 4 scenarios, 2 seeds, ring of 3 | `WireSound` |
| context, tenant | 2 contexts, 2 requests, 1 slot, 5 tiers | `TenancySound`: turbo mode, slots shared by copies of one request only; the limits are the tier's exactly when the tenant was not loaded since; which tenant errors lose their number |
| probe | 2 threads of up to 3 actions, 2 resources | `ProbesSound`: a deadlock of two threads that a run reaches is announced by the static check |
| kraken | up to 2 steps, 2 chaos events, 5 profiles, one with zero-second steps, 2.1 s in steps of 0.7 s, words of 256 values | `KrakenSound`: distributions, chaos, a ramp-up whose steps take time never takes users back, and what one of zero-second steps asks for |
| trace, queue | 2 threads, 4 events, stamps up to 3; 4 scheduled events | `OrderSound`: causality below the limit, a total replay order |
| timer | 1 timer, spans 1, 2 and 5 of 4 nanoseconds, 3 ticks | `TimersSound`; `Progress`: `SleepersWake` |
| emit | 2 workers, 1 helper, 3 events, channel of 2, queue of 1, batch of 2 | `UploadedOnceInOrder`; `Progress`: `QueuedIsTried` (as long as uploads end), `EmitReturns` and `TargetCollects` (unless the channel is full) |
| rewrite | up to 3 scopes, at most 2 of them with one of 10 sets of declarations, 17 paths | `ImportsTransparent`: a path is treated as what it means, or as a tokio import that the compiler passes over |
| harness | 12 arguments (2 at a time), 11 functions, 1 test after another | `VerdictsSound` |
| derive | 10 fields, 3 at a time | `ResourcesDistinct` |

Why the bounds suffice: a waiter that is partly served, one behind it and one
that returns or cancels are three calls; wanting two permits with one free makes
partial assignment the normal case. A channel of capacity one with three sends
has one value inside, one sender waiting and one call that is dropped or comes
after the close. A join involves two tasks, the third is one that aborts or
wakes. The race in `get` needs two threads. A session needs a successor, one
worker that a panic leaves behind and one thread that nobody joins. Three events
fill a channel of two, and one blocks. A cycle of two locks takes four acquisitions. A ring of one
is overrun by two sends. Two notifiers and two waiters make the hand-over of a
cancelled waiter race a second notification. Version and time limits are small
so that exhaustion and saturation happen. A timer is independent of other
timers: the engine's clock is all they share. The inputs of the macros are chosen
so that every branch of the translated operators is taken.

Symmetry is used where members are interchangeable and no temporal property
tells them apart: waiters and permits of `asynclock_semaphore`, sends of `channel`, threads of
`modellock_readers`, threads and rwlocks of `LockOrder` in `seams`.

The systems may stop (all calls are over, or threads deadlock, which is what is
studied), so deadlock is not checked; what must go on is stated as liveness.

### Fairness
*AsyncLock*: a future whose poll can make progress is polled (tokio wakes it),
guards are dropped, code between two boundaries goes on. Nothing forces a caller
to cancel. *TaskObservation*: tokio's run queue is first-in first-out, so a
queued task is polled although the worker is busy in between (strong fairness of
`BeginPoll`); a poll returns. Nothing makes a task finish. *CaptureSession*:
threads are scheduled, test bodies and their workers end; threads of the body
need not, and a send to a full legacy channel need not return (`SessionEnds`
names that case). `CAPTURE_LOCK` is not fair, but a run has finitely many
sessions. *VirtualTime*: a pending timer is
polled when its clock says so and both clocks go on; nothing makes the hook slot
change. *EmitPath*: threads run to their end, the sender loop and the harness are
scheduled; an upload may fail every time and need not end, since nothing in
`send_batch` has a timeout, so no fairness is assumed of it.

## 4. What the violations show

* `session_scenario`: a scenario (or tasks) harness sets logical id 0 on its
  thread after `begin` reset the implicit counter to 0, so the first thread of
  the model is 0 as well and the verifier merges the two.
* `modellock_readers`: readers are reported as exclusive owners; two threads
  that read two rwlocks in opposite orders look deadlocked although std would
  serve both. `rwlock.rs` claims that no false wait cycle arises.
* `tasks_abort`: an aborted task is dropped without a poll; `task_completed` is
  reported only by a poll, so the task stays open in the capture.
* `asynclock_created`: the swap of `created_reported` and the report of
  `semaphore_created` are two steps; another call's event can come first.
* `byoc_collects`: `byoc_thread` leaves a clone of the sender in the global slot
  and the generated test never clears it, so collecting its channel to the end
  does not end. `axiom_target` clears it, and `TargetCollects` holds.

Other statements of the repository do not hold either. No run looks for their
violation: a passing property says exactly what the code does in their place, and
its mutant is a change of that.

* Sessions: `CAPTURE_LOCK` is there so that tests "cannot cross-pollute"
  (`session.rs:42-44`, `78-79`), but the scenario and tasks harnesses join nothing
  before `finish` (`verify.rs:520`, `585`) and the worker harness only its workers.
  A thread of the body that is still in `emit` finds the sender of the next
  session, and its event is verified as that test's. `WorkersDoNotPollute` says
  whose events stay apart: those of the workers that are joined.
* Targets: the channel of an `axiom_target` test is bounded and drained only after
  the join; once it is full a worker blocks and the join never returns, though
  `target.rs:171-172` says "without backpressure". `EmitReturns` and
  `TargetCollects` hold up to `Backpressure`, `SessionEnds` up to `SenderStuck`:
  a full channel is the only way not to end.
* Upload: `client.rs:110` logs "send failed (will retry)", and line 112 clears the
  batch. `UploadedOnceInOrder` says that what was tried is never tried again.
* Tenants: the limits are the "Cached resource configuration for this tier"
  (`tenant/model.rs:188`) and skipped by serde (189), so a loaded tenant has limits of zero until an upgrade,
  which Enterprise never gets. `LimitsSound` is an equivalence: they are the
  tier's exactly when the tenant was not loaded since they were computed.
* Error numbers: a `TenantError` maps to "the corresponding `LaplaceError` code"
  (`error/tenant.rs:166-167`), but `from_code` (`codes.rs:142`, `288`) reads 2001,
  which is `TenantError::QuotaExceeded`, as `KernelTimeout`. `ErrorNumbersSound`
  says which tenant errors survive the crossing.
* Load profiles: the quotient by a step of zero seconds is infinite and is cast to
  `u64::MAX` (`kraken/types.rs:605-606`), so the target wraps to `start - size`,
  below the users already there, though line 582 says "monotonically non-decreasing". `RampUpSound`
  gives that value.
* Rewrite: a non-tokio import, an item, a glob or an import in a nested block does
  not enter the table (`model.rs:953`), so it does not hide a tokio import of an
  enclosing scope, and modules outside the function's own are looked through; the
  comments (`model.rs:129-131`, `186`, `934-935`) promise that inner bindings
  shadow. `ImportsTransparent` says that this is the only way to go wrong, and
  what the path is then taken for.

Noticed while modelling, stated in the models as they are and given no run:

* Async locks: a poll without cooperative budget is reported as `requested`
  although nothing queued (`batch_semaphore.rs:598`).
* Ids: a static's id survives `reset_model_async_ids_for_model` and can equal a
  new one (`DistinctIds` is about executions before a reset). `hooks.rs:20-21`
  gives the task-set namespace as 0..8 while `MAX_MODEL_TASKS` is 16. A thread
  that is never given an id starts with implicit id 0, the id of task 0.
* Locks: `ModelMutex::lock` reads the lock hook and the spawn hook separately;
  `LockAcquired` of a model mutex precedes the acquisition.
* Verifier: `find_lock_order_cycle` and `detects_abba_deadlock` find cycles of
  two only (`FindsTwoCycles`, `ProbesSound` say no more); the first release of a
  lock held twice forgets both holds (`reentered`).
* Session: a thread left behind by a panicking test emits into the next session;
  a legacy test in the same binary takes a session's events, and its full channel
  blocks a session's threads; the capture dump is not written when the tier-1
  assertion fails.
* Generated tests: whether std locks (threads mode) and tokio primitives
  (scenario mode) are captured depends on which tests installed hooks before;
  `axiom_target` accepts `threads = 0` and ignores malformed arguments, and it
  and `byoc_test` discard the verdict.
* Rewrite: tokio's `Mutex::default()` is neither rewritten nor marked. In `#[track]` a `Mutex`
  without `std::sync` is taken for tokio's; unnamed `mutex!` and `rwlock!` share
  a name.
* Client: a full queue drops events silently.
* Wire: `probe_event_to_raw` drops the identity of the resource; `mock.rs`
  documents 100 ns per event, lock events advance 50. `Interval` has no `Drop`,
  so its engine timer stays listed (`NoStaleTimer` excludes it), which the docs
  of `timer_dropped` do not say.
* Interfaces: `with_tier` leaves the turbo slot in place, and a clone of a context
  keeps it; an accepted think time may be NaN, jump targets are not validated, a
  staircase has no top; `increment` of a Lamport stamp wraps where `sync`
  saturates.

## 5. Proofs

TLAPS checks every theorem for all values of the constants the named assumptions
allow; the bounds of section 3 play no part. Each safety theorem follows one
argument: an inductive invariant holds initially, every action keeps it (one step
per action), and it implies the property. What each invariant adds to its
property is the interesting part and is given below.

`AsyncLockProofs`, for any sets of waiters, adders and permits, any weights and
any number of hook exchanges: `TypeCorrect`, `Conservation` (`PermitsConserved`),
`NobodyBarges` (`NoBarging`), `ReportedHoldersReallyHold`, `Exclusion`
(`ReportedExclusion`), `ServedFirstComeFirst` (`ServedInOrder`), and `Refinement`
(`TraceSpec`, for `MaxToggles = 0`: with the hook installed throughout).
Assumptions: permits are finite, actors are distinct, weights are naturals. The
inductive invariant `IInv` adds to the properties that the waiters mutex is held
by exactly the call returning permits (`LockInv`), that nobody queues twice and
the `queued` flag outlives the queue entry exactly when the call is fully served
(`QueueInv`), and that what the hook saw last follows `pc` while it stays
installed (`ObsInv`). `QueueInv` is what makes conservation inductive: without it
a dropped future could return permits that are also in the queue's keeping. The
permit arithmetic is cardinality of finite sets, from `FiniteSetTheorems`.

`ChannelProofs`, for any handles, finitely many calls and any capacity:
`ChannelIsSound` (`ChannelSound`) and the refinement `EventsAreATrace`
(`TraceSpec` of `ChannelTrace`). `ChanInv` adds where each call is and what was
reported of it (`OpInv`), that a handle in use or being cloned from is not
dropped (`HandleInv`), that the reported number of senders is the number of
counted handles (`CountInv`), that a `Closed` *about to be* reported is explained
already (`EndInv`: this is the step that makes the property inductive), and that
the buffer is as long as the sends that won exceed the receives that won
(`BufInv`, again by cardinality).

`LockProofs` holds the std lock seam and the tracked primitives.

* For any threads and locks, under the probe and under an engine:
  `PictureIsSound` (`StdPictureSound`) and the action property
  `ContendedHasOneCause` (`ContendedOnlyBehindTry`). `StdInv` says who has a lock
  was reported except around the report of a try or of a release (`ReportInv`),
  the engine's owner is the only one it reported (`GrantInv`), and a thread
  between two boundaries is the one the engine runs (`TurnInv`).
* `PermitsAreSound` (`PermitsSound`) for any finite set of calls and any number of
  permits: an announced call holds its permit under the id it was announced with
  (`AnnouncedHeld`), and the bound on announced holders follows by mapping them
  into the calls that have a permit.
* `VerdictsAreSound` (`VerifierSound`) for any threads, locks, modes and panics:
  `OrderInv` relates the real guards to the stream (`ShownInv`), the stream to
  what the verifier takes for held (`HeldInv`, an equality only without re-entry),
  and its edges to the real lock orders (`EdgeInv`).

`TaskObservationProofs`: `PollsArePaired` for any number of workers and any
exchange of the observer; `ObservationIsSound` (`ObservationSound`) for
`Workers = 1`, the single thread `run_task_set_native` uses. With more workers
the property is not an invariant, so the hypothesis is a real one (`OneBusy`
depends on it). `DoneInv` ties the completion a joiner reads to the completion
that was reported.

`CaptureSessionProofs`, for any number of tests, threads, sessions and panics, in
three layers. `BaseInv`: types, one test inside (the holder of `CAPTURE_LOCK`), a
live sender belongs to a session that has not cleared it, and every live *worker*
works for the running test or was left behind by a panic; nothing is assumed of
the threads nobody joins. It gives `TypesCorrect` and `SessionsExclude`
(`SessionExclusive`). On top of it `OwnInv` and `ReturnInv` follow events from emit
through the channel to the collector and give `NothingIsLost`
(`FinishReturnsAll`) and `WorkersStayApart` (`WorkersDoNotPollute`).
`FinishReturnsAll` is stated as an order-preserving matching (`OwnPart`), so that
one more event is one more pair, without induction over the sequence.

`PeersAreToldApart` is stated and proved here only (`PeersToldApart`): in what
`finish` returns a thread keeps one id, and two workers, or two threads of the
body while no legacy test has reset the counter, never share one. It holds of
every program, with explicit and implicit ids mixed and threads that run one test
after another. `PeerInv` follows
an id from the thread to its events: an event that is held anywhere carries the
id its thread has in that session (`EventInv`), implicit ids of the running
session are below the counter and different (`IdInv`), and a worker has the id it
was given (`NamedInv`). The reset of the counter is what makes this delicate: an
older thread keeps an id that the counter gives out again, so the claim is about
events of one session. `ExplicitIdsAreStable` gives the full `StableIds` when
every emitting thread has an id of its own; with mixed ids it does not hold, as
`session_scenario` shows.

`SeamProofs` holds the five components around the locks:

* `IdsInvariant`, `IdsAreUnique`, `IdsAreDistinct`, `IdsAreSound` (`IdsSound`):
  before a reset every assigned id, and every id allocated but not yet swapped
  in, is below the counter and in one place only (`IdInv`).
* `CellIsSound` (`CellSound`) and `CellIsOrdered` (`CellOrder`), for any clients,
  values and version width. `CellInv` adds who may be inside the store's mutex
  (`MutexInv`), that the counter is the last reported version or one ahead of it
  while a store is inside (`CountInv`), that no version anywhere is ahead of the
  counter (`BehindInv`: this is why allocating the next one cannot rename an old
  value), and that what a client has loaded is no older than what it reported
  (`FreshInv`).
* `FanIsSound` (`FanSound`): the reported endpoints are counted (`ShownInv`),
  `send_seq` lags the log by exactly the sends between append and count
  (`SeqInv`), and a receiver being placed is at the end of a log all counted
  until a send overlaps (`PlaceInv`).
* `WakesAreExplained` (`WakesExplained`): every reported `notify_one` is on its
  way, stored, with one waiter or merged (`OnesInv`); whom `notify_waiters` woke
  was there before the round (`AllsInv`).
* `TimersAreSound` (`TimersSound`): a deadline is the start plus the periods
  passed, saturating (`DueInv`), and the engine lists hooked timers only, with
  their deadlines (`ListInv`). The lemmas on saturating sums are in the module.

`ProbeProofs` holds the probe and the interfaces:

* `UploadsAreOrdered` (`UploadedOnceInOrder`): what the edge has, the batch and
  the queue are one rising line of numbers (`LineUp`), and what was tried is in
  neither the batch nor the queue (`Once`), whatever fails.
* `HooksAreSound` (`HooksSound`): the task id of an OS thread is that of its
  observed poll, and implicit ids are no more than the threads that have an id
  (`IdentityInv`), so they stay clear of the dynamic ids. This is where
  `HookConstants` (the first dynamic id is no less than the number of OS threads
  and of tasks in the set) is needed. That callbacks have different events is a
  finite case analysis of the table `CallbackEvents`.
* `TestVerdictsAreSound` (`VerdictsSound`): a test has one mode, its own hooks are
  among those in place, its capture is what those emit (`HarnessInv`).
* `ResourcesAreDistinct` (`ResourcesDistinct`): `names` holds the resource of each
  tracked field (`DeriveInv`).
* `OrderIsSound` (`OrderSound`): short of the limit an event's timestamp is above
  those of its past (`TraceInv`); what is queued comes after what was popped
  (`QueueInv`).
* `TenantsAreSound` (`TenancySound`): turbo mode is a matter of where a context
  began and how low it went, and live contexts that name one slot are of one
  request (`ContextInv`: a clone has its original's request, a child a fresh one
  and no slot, and a slot is given only while no live context names it); the
  limits are those of the tier until a load and all zero after it (`TenantInv`),
  which no tier's are.

`LoopProofs` holds what the code computes with a loop over a list of any length.
The loops are folds. Induction is over the length, as a set of naturals that is
closed under successor (`SetInduction`, from the well-foundedness of `<`); the
fold itself gets a trace, the value after each element (`FoldExists` and the
`...Trace` lemmas), and the trace gives what one more element does
(`...OfOneMore`). On these rest:

* `HarnessVerdicts` (`ProbesSound`), for any number of threads and actions: after
  k actions the loop of `held_acquisition_pairs` has exactly the locks taken and
  not released since, and the pairs of them. `ProbeInv` ties what a running thread
  owns to that set (`owns` is `HeldAt` of the actions it ran), so a mutual wait of
  two threads is a pair in each order, which is what the static check looks for.
  `ProbeActs`: the builder adds no `Finish` but the last.
* `LoadTestsSound` (`KrakenSound`), for scenarios, branches and chaos schedules of
  any length and profiles of any size: the active events are the active ones of
  the schedule and keep their latency; the bounds of a ramp come from lemmas on
  products and quotients, for any set `RoundedUp`, and that `injected` stays below
  a target that moves (`KrakenInv`) from its monotony in time. Of a staircase it
  says so while its steps take time and its height is below `Word` (`Climbing`);
  with steps of zero seconds it asks for `start` at first and then for
  `start - size` modulo `Word` (`TimelessSteps`, `WordWraps`). `KrakenInputs` only
  types the fields.
* `StreamsSound` (`WireSound`), for any seed, ring size and way of draining:
  `WireInv` is about the picture *due*, the one that draining the ring now would
  give. It is the picture after as many events of the script as were written
  (`StageOf`), whatever part of them is drained; writing adds one event to it
  (`ScriptStep`, one case per event of the scripts), an unknown record and a
  drain leave it as it is. `MockThreadsFit`: the mock thread ids fit the wire.
* `ImportsChangeNothing` (`ImportsTransparent`), for any modules, blocks and
  declarations: the alias table has a name exactly when some scanned scope imports
  it from tokio and no item beside it hides it, and then says what the last such
  scope does (`LastImportWins`). That scope is the one the compiler takes the name
  from, or one that it passes over (`AliasIsImported`, `HiddenByItem`), so
  canonicalizing finds what is meant or an import that is passed over
  (`CanonicalIsMeant`). `ScopesAreLists` types the input.

The assumptions are those in the components' modules: sentinels are not elements
of the sets they stand beside, tests and their children are different threads,
limits are naturals, and whatever is counted (permits, calls, endpoints, waiters,
OS threads) is finite. TLC evaluates each of them on a run.

Only model-checked: liveness (`WaitersServed`, `JoinersServed`, `SessionEnds`,
`Progress`), which is out of the prover's reach, and the violations of section 4,
which are traces. Every invariant of the passing runs is
a theorem.

## 6. Not modelled, and why

* `laplace-axiom-contract`, and in `laplace-interfaces` the ABI, transport,
  memory, scheduler, resource and entropy types: records, constants and traits
  that the private products implement; the behaviour they name is not here.
* Probe configuration and license: two files read into a record.
* The SDK facade (re-exports), `select` (forwards to tokio's macro) and the list
  of unmodelled seams (compile-time refusals).
* The engine mode of `spawn_task` hands the task to the private engine; the
  std-thread spawn is a call through.
* The legacy thread-local sender is in `EmitPath` only, and a legacy test that
  panics is in neither; contexts deserialized from elsewhere, which may name any
  slot, are not in `Tenancy`; the capture dump is a
  best-effort write. Wording of diagnostics, Display strings and token layout of
  the generated code.
* `vendor/`: forks of third-party crates; only the tokio semaphore the async
  locks wrap is modelled, and the channels and Notify from how they are used.

## 7. Plan

1. `Refinement` of `AsyncLock` with hook exchanges: an abstract lock whose
   consumer may miss a prefix of the events.
2. A legacy test that panics beside a session: its receiver goes, and threads
   blocked in its channel return.
