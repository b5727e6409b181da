------------------------------ MODULE AsyncLock ------------------------------
(***************************************************************************)
(* One model async lock of laplace-model-rt (ModelAsyncMutex,              *)
(* ModelAsyncRwLock or ModelAsyncSemaphore) wrapped around the real tokio  *)
(* batch semaphore that all three are built on, together with the events   *)
(* the wrapper reports to the installed AsyncLockHook.                     *)
(*                                                                         *)
(* A permit is a member of a set, so that a counter of n permits is a set  *)
(* of n permits; a Mutex has one, an RwLock has MAX_READS (a reader asks   *)
(* for one, a writer for all of them), a Semaphore any number.             *)
(***************************************************************************)
EXTENDS Integers, Sequences, FiniteSets

CONSTANTS
  Waiter,       \* waiter ids, one per lock/read/write/acquire/try_* call
  Adder,        \* one per Semaphore::add_permits call
  Permit,       \* every permit there may ever be
  Initial,      \* the permits the semaphore is built with
  Weights,      \* how many permits a call may ask for
  IsSemaphore,  \* TRUE: ModelAsyncSemaphore, FALSE: ModelAsyncMutex/RwLock
  MaxToggles,   \* bound on installations and removals of the hook
  NoOne         \* the waiters mutex is free / nobody owes semaphore_created

Actor == Waiter \cup Adder

ASSUME PermitsFinite == IsFiniteSet(Permit) /\ Initial \subseteq Permit
ASSUME WeightsNat    == Weights \subseteq Nat
ASSUME ActorsDistinct == Waiter \cap Adder = {} /\ NoOne \notin Actor
ASSUME KindBoolean   == IsSemaphore \in BOOLEAN
ASSUME TogglesNat    == MaxToggles \in Nat

VARIABLES
  avail,      \* Semaphore.permits, not taken by anyone
  minted,     \* every permit created so far
  queue,      \* Waitlist.queue, the next waiter to serve first
  lock,       \* who is inside add_permits_locked with the waiters mutex
  rem,        \* the permits that call still has to give out
  held,       \* permits assigned to a waiter (num_permits - node.state)
  weight,     \* num_permits of the call
  enqueued,   \* Acquire.queued
  requested,  \* requested_emitted of the future
  pc,         \* where the call is
  hook,       \* ASYNC_LOCK_HOOK is installed
  toggles,    \* how often that changed
  armed,      \* the call has cloned the hook out of the slot
  created,    \* created_reported of the semaphore
  owes,       \* the call that swapped created_reported and owes the event
  obs,        \* last event the hook saw of a waiter
  obsCreated  \* the hook saw semaphore_created

sema     == <<avail, minted, queue, lock, rem, held, weight, enqueued>>
hookVars == <<hook, toggles>>
seen     == <<armed, created, owes, obs, obsCreated>>
vars     == <<sema, requested, pc, hookVars, seen>>

\* Points at which the wrapper reports to the hook, the event it reports
\* there, and where the call goes on afterwards.
Boundary == {"requesting", "acquiring", "releasing", "cancelling", "adding"}
PC       == Boundary \cup {"unused", "created", "waiting", "held", "dropping",
                           "unlocking", "returning", "forgotten", "done"}
Event    == {"none", "requested", "acquired", "released", "dropped"}

EventAt == [b \in Boundary |->
              CASE b = "requesting" -> "requested"
                [] b = "acquiring"  -> "acquired"
                [] b = "releasing"  -> "released"
                [] b = "cancelling" -> "dropped"
                [] b = "adding"     -> "none"]
After   == [b \in Boundary |->
              CASE b = "requesting" -> "waiting"
                [] b = "acquiring"  -> "held"
                [] b = "releasing"  -> "unlocking"
                [] b = "cancelling" -> "dropping"
                [] b = "adding"     -> "done"]

\* hook_with_created guards every boundary but released and waiter_dropped.
ReportsCreation(b) == IsSemaphore /\ b \in {"requesting", "acquiring", "adding"}

Need(w) == weight[w] - Cardinality(held[w])
InQueue(w) == \E i \in 1..Len(queue) : queue[i] = w
Goto(a, p) == pc' = [pc EXCEPT ![a] = p]

TypeOK ==
  /\ avail \subseteq Permit /\ minted \subseteq Permit /\ rem \subseteq Permit
  /\ queue \in Seq(Waiter)
  /\ lock \in Actor \cup {NoOne}
  /\ held \in [Waiter -> SUBSET Permit]
  /\ weight \in [Waiter -> Nat]
  /\ enqueued \in [Waiter -> BOOLEAN]
  /\ requested \in [Waiter -> BOOLEAN]
  /\ pc \in [Actor -> PC]
  /\ hook \in BOOLEAN /\ toggles \in Nat
  /\ armed \in [Actor -> BOOLEAN]
  /\ created \in BOOLEAN
  /\ owes \in Actor \cup {NoOne}
  /\ obs \in [Waiter -> Event]
  /\ obsCreated \in BOOLEAN

Init ==
  /\ avail = Initial /\ minted = Initial /\ rem = {}
  /\ queue = << >> /\ lock = NoOne
  /\ held = [w \in Waiter |-> {}]
  /\ weight = [w \in Waiter |-> 0]
  /\ enqueued = [w \in Waiter |-> FALSE]
  /\ requested = [w \in Waiter |-> FALSE]
  /\ pc = [a \in Actor |-> "unused"]
  /\ hook = TRUE /\ toggles = 0
  /\ armed = [a \in Actor |-> FALSE]
  /\ created = FALSE /\ owes = NoOne
  /\ obs = [w \in Waiter |-> "none"]
  /\ obsCreated = FALSE

-----------------------------------------------------------------------------
(* Faulty variants of the actions below; no specification uses them, they   *)
(* show that the properties notice the mistake each one makes.              *)

\* The permit count is stored one short.
AcquireOffByOne(w, n) ==
  /\ pc[w] = "unused"
  /\ weight' = [weight EXCEPT ![w] = n - 1]
  /\ Goto(w, "created")
  /\ UNCHANGED <<avail, minted, queue, lock, rem, held, enqueued, requested,
                 hookVars, seen>>

\* A queued future resolves on any poll, permits or not.
PollGrantedEarly(w) ==
  /\ pc[w] = "waiting" /\ enqueued[w]
  /\ lock = NoOne
  /\ queue' = SelectSeq(queue, LAMBDA v : v # w)
  /\ enqueued' = [enqueued EXCEPT ![w] = FALSE]
  /\ Goto(w, "acquiring")
  /\ UNCHANGED <<avail, minted, lock, rem, held, weight, requested, hookVars, seen>>

\* waiter_dropped is reported for futures that never reported requested.
DropFutureAlwaysReports(w) ==
  /\ pc[w] \in {"created", "waiting"}
  /\ Goto(w, "cancelling")
  /\ UNCHANGED <<sema, requested, hookVars, seen>>

\* A cancelled future keeps what it had been assigned.
InnerDropLosesPermits(w) ==
  /\ pc[w] = "dropping"
  /\ queue' = SelectSeq(queue, LAMBDA v : v # w)
  /\ enqueued' = [enqueued EXCEPT ![w] = FALSE]
  /\ held' = [held EXCEPT ![w] = {}]
  /\ Goto(w, "done")
  /\ UNCHANGED <<avail, minted, lock, rem, weight, requested, hookVars, seen>>

\* The guard is released before the release is reported.
DropGuardUnlocksFirst(w) ==
  /\ pc[w] = "held"
  /\ Goto(w, "unlocking")
  /\ UNCHANGED <<sema, requested, hookVars, seen>>

\* Permits go to the waiter that came last.
AssignLast ==
  /\ lock # NoOne /\ rem # {} /\ queue # << >>
  /\ LET h == queue[Len(queue)] IN
     \E S \in SUBSET rem :
       /\ Cardinality(S) = IF Need(h) <= Cardinality(rem) THEN Need(h)
                                                         ELSE Cardinality(rem)
       /\ held' = [held EXCEPT ![h] = @ \cup S]
       /\ rem' = rem \ S
       /\ queue' = IF Cardinality(S) = Need(h) THEN SubSeq(queue, 1, Len(queue) - 1)
                                              ELSE queue
  /\ UNCHANGED <<avail, minted, lock, weight, enqueued, requested, pc, hookVars, seen>>

\* Returned permits become available although somebody is queued.
FinishReturnIgnoresQueue ==
  /\ lock # NoOne
  /\ avail' = avail \cup rem
  /\ rem' = {}
  /\ lock' = NoOne
  /\ Goto(lock, IF lock \in Adder THEN "adding" ELSE "done")
  /\ UNCHANGED <<minted, queue, held, weight, enqueued, requested, hookVars, seen>>

\* Without a hook the boundary returns early, past the real release.
SkipReportReturnsEarly(a) ==
  /\ pc[a] \in Boundary /\ ~armed[a]
  /\ ~hook
  /\ Goto(a, "done")
  /\ UNCHANGED <<sema, requested, hookVars, seen>>

-----------------------------------------------------------------------------
(* The calls of the wrapper. *)

\* lock, read, write, acquire, acquire_many: the future is built, not polled.
Acquire(w, n) ==
  /\ pc[w] = "unused"
  /\ weight' = [weight EXCEPT ![w] = n]
  /\ Goto(w, "created")
  /\ UNCHANGED <<avail, minted, queue, lock, rem, held, enqueued, requested,
                 hookVars, seen>>

\* Semaphore::try_acquire and the lock-free path of poll_acquire: the
\* counter held enough permits and the compare_exchange took them.
Take(w, n) ==
  /\ Cardinality(avail) >= n
  /\ \E S \in SUBSET avail :
       /\ Cardinality(S) = n
       /\ avail' = avail \ S
       /\ held' = [held EXCEPT ![w] = S]

\* try_lock, try_read, try_write, try_acquire, try_acquire_many.
TryAcquire(w, n) ==
  /\ pc[w] = "unused"
  /\ Take(w, n)
  /\ weight' = [weight EXCEPT ![w] = n]
  /\ Goto(w, "acquiring")
  /\ UNCHANGED <<minted, queue, lock, rem, enqueued, requested, hookVars, seen>>

\* A failed try_* holds nothing and reports nothing.
TryFail(w, n) ==
  /\ pc[w] = "unused"
  /\ Cardinality(avail) < n
  /\ Goto(w, "done")
  /\ UNCHANGED <<sema, requested, hookVars, seen>>

\* First poll, or a poll after one that ran out of budget: permits suffice.
PollReady(w) ==
  /\ pc[w] \in {"created", "waiting"} /\ ~enqueued[w]
  /\ Take(w, weight[w])
  /\ Goto(w, "acquiring")
  /\ UNCHANGED <<minted, queue, lock, rem, weight, enqueued, requested,
                 hookVars, seen>>

\* requested_emitted is set, and the event reported, by the first pending poll.
PendingPoll(w) ==
  /\ requested' = [requested EXCEPT ![w] = TRUE]
  /\ Goto(w, IF requested[w] THEN "waiting" ELSE "requesting")

\* Too few permits: under the waiters mutex the future takes what there is
\* and joins the end of the queue.
PollEnqueue(w) ==
  /\ pc[w] \in {"created", "waiting"} /\ ~enqueued[w]
  /\ Cardinality(avail) < weight[w]
  /\ lock = NoOne
  /\ held' = [held EXCEPT ![w] = avail]
  /\ avail' = {}
  /\ queue' = Append(queue, w)
  /\ enqueued' = [enqueued EXCEPT ![w] = TRUE]
  /\ PendingPoll(w)
  /\ UNCHANGED <<minted, lock, rem, weight, hookVars, seen>>

\* The task's cooperative budget is spent: Acquire::poll returns Pending
\* before it looks at the semaphore.
PollNoBudget(w) ==
  /\ pc[w] = "created"
  /\ PendingPoll(w)
  /\ UNCHANGED <<sema, hookVars, seen>>

\* A queued future that was handed all its permits resolves when polled.
PollGranted(w) ==
  /\ pc[w] = "waiting" /\ enqueued[w]
  /\ Need(w) = 0
  /\ lock = NoOne
  /\ enqueued' = [enqueued EXCEPT ![w] = FALSE]
  /\ Goto(w, "acquiring")
  /\ UNCHANGED <<avail, minted, queue, lock, rem, held, weight, requested,
                 hookVars, seen>>

\* Drop of the future: the report comes first, the inner future goes after.
DropFuture(w) ==
  /\ pc[w] \in {"created", "waiting"}
  /\ Goto(w, IF requested[w] THEN "cancelling" ELSE "dropping")
  /\ UNCHANGED <<sema, requested, hookVars, seen>>

\* The position of w in the queue taken out.
QueueWithout(w) ==
  LET i == CHOOSE k \in 1..Len(queue) : queue[k] = w
  IN  IF InQueue(w)
      THEN [k \in 1..(Len(queue) - 1) |-> IF k < i THEN queue[k] ELSE queue[k + 1]]
      ELSE queue

\* Drop of tokio's Acquire: a queued node leaves the list and what it had
\* been assigned goes back through add_permits_locked.
InnerDrop(w) ==
  /\ pc[w] = "dropping"
  /\ enqueued[w] => lock = NoOne
  /\ queue' = IF enqueued[w] THEN QueueWithout(w) ELSE queue
  /\ enqueued' = [enqueued EXCEPT ![w] = FALSE]
  /\ rem' = IF held[w] = {} THEN rem ELSE held[w]
  /\ lock' = IF held[w] = {} THEN lock ELSE w
  /\ held' = [held EXCEPT ![w] = {}]
  /\ Goto(w, IF held[w] = {} THEN "done" ELSE "returning")
  /\ UNCHANGED <<avail, minted, weight, requested, hookVars, seen>>

\* Drop of the guard or permit starts with the report.
DropGuard(w) ==
  /\ pc[w] = "held"
  /\ Goto(w, "releasing")
  /\ UNCHANGED <<sema, requested, hookVars, seen>>

\* ModelSemaphorePermit::forget.
Forget(w) ==
  /\ IsSemaphore
  /\ pc[w] = "held"
  /\ Goto(w, "forgotten")
  /\ UNCHANGED <<sema, requested, hookVars, seen>>

\* The inner guard goes after the report: Semaphore::release.
Unlock(w) ==
  /\ pc[w] = "unlocking"
  /\ held[w] # {} => lock = NoOne
  /\ rem' = IF held[w] = {} THEN rem ELSE held[w]
  /\ lock' = IF held[w] = {} THEN lock ELSE w
  /\ held' = [held EXCEPT ![w] = {}]
  /\ Goto(w, IF held[w] = {} THEN "done" ELSE "returning")
  /\ UNCHANGED <<avail, minted, queue, weight, enqueued, requested, hookVars, seen>>

\* Semaphore::add_permits forwards first and reports afterwards.
AddPermits(a) ==
  /\ IsSemaphore
  /\ pc[a] = "unused"
  /\ lock = NoOne
  /\ \E S \in SUBSET (Permit \ minted) :
       /\ S # {}
       /\ minted' = minted \cup S
       /\ rem' = S
  /\ lock' = a
  /\ Goto(a, "returning")
  /\ UNCHANGED <<avail, queue, held, weight, enqueued, requested, hookVars, seen>>

\* One turn of add_permits_locked: the head of the queue is assigned what it
\* lacks, or all there is, and leaves the queue once it lacks nothing.
AssignHead ==
  /\ lock # NoOne /\ rem # {} /\ queue # << >>
  /\ LET h == Head(queue) IN
     \E S \in SUBSET rem :
       /\ Cardinality(S) = IF Need(h) <= Cardinality(rem) THEN Need(h)
                                                         ELSE Cardinality(rem)
       /\ held' = [held EXCEPT ![h] = @ \cup S]
       /\ rem' = rem \ S
       /\ queue' = IF Cardinality(S) = Need(h) THEN Tail(queue) ELSE queue
  /\ UNCHANGED <<avail, minted, lock, weight, enqueued, requested, pc, hookVars, seen>>

\* The rest of add_permits_locked: what nobody waits for becomes available.
FinishReturn ==
  /\ lock # NoOne /\ (rem = {} \/ queue = << >>)
  /\ avail' = avail \cup rem
  /\ rem' = {}
  /\ lock' = NoOne
  /\ Goto(lock, IF lock \in Adder THEN "adding" ELSE "done")
  /\ UNCHANGED <<minted, queue, held, weight, enqueued, requested, hookVars, seen>>

-----------------------------------------------------------------------------
(* Reporting. *)

\* async_lock_hook() found no hook: the call goes on without a report.
SkipReport(a) ==
  /\ pc[a] \in Boundary /\ ~armed[a]
  /\ ~hook
  /\ Goto(a, After[pc[a]])
  /\ UNCHANGED <<sema, requested, hookVars, seen>>

\* async_lock_hook() cloned the hook; hook_with_created then swaps the flag.
Arm(a) ==
  /\ pc[a] \in Boundary /\ ~armed[a]
  /\ hook
  /\ armed' = [armed EXCEPT ![a] = TRUE]
  /\ IF ReportsCreation(pc[a]) /\ ~created
     THEN created' = TRUE /\ owes' = a
     ELSE UNCHANGED <<created, owes>>
  /\ UNCHANGED <<sema, requested, pc, hookVars, obs, obsCreated>>

\* The call that swapped the flag first reports semaphore_created.
ReportCreated(a) ==
  /\ owes = a
  /\ obsCreated' = TRUE
  /\ owes' = NoOne
  /\ UNCHANGED <<sema, requested, pc, hookVars, armed, created, obs>>

\* The boundary's own event.
Report(a) ==
  /\ pc[a] \in Boundary /\ armed[a] /\ owes # a
  /\ armed' = [armed EXCEPT ![a] = FALSE]
  /\ obs' = IF a \in Waiter THEN [obs EXCEPT ![a] = EventAt[pc[a]]] ELSE obs
  /\ Goto(a, After[pc[a]])
  /\ UNCHANGED <<sema, requested, hookVars, created, owes, obsCreated>>

\* install_async_lock_hook and clear_async_lock_hook.
InstallHook ==
  /\ ~hook /\ toggles < MaxToggles
  /\ hook' = TRUE /\ toggles' = toggles + 1
  /\ UNCHANGED <<sema, requested, pc, seen>>

ClearHook ==
  /\ hook /\ toggles < MaxToggles
  /\ hook' = FALSE /\ toggles' = toggles + 1
  /\ UNCHANGED <<sema, requested, pc, seen>>

-----------------------------------------------------------------------------
Poll(w)    == PollReady(w) \/ PollEnqueue(w) \/ PollGranted(w)
ReportStep(a) == SkipReport(a) \/ Arm(a) \/ ReportCreated(a) \/ Report(a)

Next ==
  \/ \E w \in Waiter, n \in Weights :
        Acquire(w, n) \/ TryAcquire(w, n) \/ TryFail(w, n)
  \/ \E w \in Waiter :
        \/ PollReady(w) \/ PollEnqueue(w) \/ PollNoBudget(w) \/ PollGranted(w)
        \/ DropFuture(w) \/ InnerDrop(w)
        \/ DropGuard(w) \/ Forget(w) \/ Unlock(w)
  \/ \E a \in Adder : AddPermits(a)
  \/ AssignHead \/ FinishReturn
  \/ \E a \in Actor : SkipReport(a) \/ Arm(a) \/ ReportCreated(a) \/ Report(a)
  \/ InstallHook \/ ClearHook

Spec == Init /\ [][Next]_vars

(***************************************************************************)
(* Fairness: a task polls a future it awaits again whenever that poll can  *)
(* make progress (tokio wakes it), code that runs outside of await points  *)
(* gets on, and the user's critical sections end.  Futures need not be     *)
(* dropped and permits need not be added.                                  *)
(***************************************************************************)
FairSpec ==
  /\ Spec
  /\ \A w \in Waiter : WF_vars(Poll(w)) /\ WF_vars(DropGuard(w))
                       /\ WF_vars(InnerDrop(w) \/ Unlock(w))
  /\ \A a \in Actor : WF_vars(ReportStep(a))
  /\ WF_vars(AssignHead \/ FinishReturn)

-----------------------------------------------------------------------------
(* Properties. *)

\* Calls whose permits the real semaphore has handed over completely.
Owns(w) == pc[w] \in {"acquiring", "held", "releasing", "unlocking", "forgotten"}

\* No permit is lost or duplicated, whatever is cancelled, forgotten or
\* reported: every permit created is available, being handed out, or
\* assigned to exactly one call, and a call that is over keeps none.
PermitsConserved ==
  /\ \A w \in Waiter : pc[w] \in {"unused", "created", "done"} => held[w] = {}
  /\ \A p \in Permit : p \in minted <=> \/ p \in avail \cup rem
                                        \/ \E w \in Waiter : p \in held[w]
  /\ avail \cap rem = {}
  /\ \A w \in Waiter : held[w] \cap (avail \cup rem) = {}
  /\ \A v, w \in Waiter : v # w => held[v] \cap held[w] = {}

\* No barging (the first promise of async_mutex.rs): while anyone is queued
\* nothing is free to be taken past the queue, every queued call still lacks
\* permits, and only the first has been assigned any.
NoBarging ==
  /\ queue # << >> => avail = {}
  /\ \A i \in 1..Len(queue) : Need(queue[i]) > 0
  /\ \A i \in 2..Len(queue) : held[queue[i]] = {}

\* FIFO: a queued call is assigned permits, or leaves the queue with all of
\* them, only while it is the head.
ServedInOrder ==
  [][\A w \in Waiter : InQueue(w) /\ held'[w] \ held[w] # {}
                        => w = Head(queue)]_vars

\* With the hook installed all along, a waiter the hook believes to hold the
\* lock really has all the permits it asked for: acquired is reported after
\* the real acquisition and released before the real release.
ReportedHoldersHold ==
  toggles = 0 =>
    \A w \in Waiter : obs[w] = "acquired" =>
      /\ held[w] \subseteq minted
      /\ Cardinality(held[w]) = weight[w]

\* The mutual exclusion the hook sees: a waiter reported as holding all the
\* permits (a Mutex guard, an RwLock writer) excludes every other reported
\* holder of a permit.
ReportedExclusion ==
  toggles = 0 =>
    \A v, w \in Waiter :
      v # w /\ obs[v] = "acquired" /\ obs[w] = "acquired"
        /\ weight[w] = Cardinality(minted) => weight[v] = 0

(***************************************************************************)
(* The inductive invariant behind the safety properties above.             *)
(***************************************************************************)
\* Calls of which tokio's Acquire may sit in the wait list.
MayQueue == {"requesting", "waiting", "cancelling", "dropping"}

\* The waiters mutex is held exactly by the call that returns permits, and
\* only add_permits reports permits_added.
LockInv ==
  /\ lock = NoOne => rem = {}
  /\ \A w \in Waiter : pc[w] # "adding"
  /\ \A a \in Actor : pc[a] = "returning" <=> lock = a

\* Nobody queues twice; a call is flagged as queued while it is in the queue
\* and after it was served, until it is polled or dropped; only calls that
\* are queued or own permits have any.
QueueInv ==
  /\ \A i, j \in 1..Len(queue) : queue[i] = queue[j] => i = j
  /\ \A i \in 1..Len(queue) : enqueued[queue[i]]
  /\ \A w \in Waiter : enqueued[w] => pc[w] \in MayQueue
  /\ \A w \in Waiter : enqueued[w] /\ ~InQueue(w) => Need(w) = 0
  /\ \A w \in Waiter : ~enqueued[w] /\ ~Owns(w) => held[w] = {}
  /\ \A w \in Waiter : Owns(w) => Need(w) = 0

\* While the hook stays installed, what it saw last follows the call.
ObsInv ==
  toggles = 0 =>
    /\ hook
    /\ \A w \in Waiter :
         /\ pc[w] \in {"unused", "created", "requesting"} => obs[w] = "none"
         /\ pc[w] \in {"waiting", "cancelling"} => obs[w] = "requested"
         /\ pc[w] = "acquiring" => obs[w] \in {"none", "requested"}
         /\ pc[w] \in {"held", "releasing", "forgotten"} <=> obs[w] = "acquired"
         /\ pc[w] \in {"unused", "created"} => ~requested[w]
         /\ pc[w] \in {"requesting", "waiting"} => requested[w]

IInv == TypeOK /\ PermitsConserved /\ NoBarging /\ LockInv /\ QueueInv /\ ObsInv

\* Whoever waits is eventually served or cancelled.
WaitersServed == \A w \in Waiter : pc[w] = "waiting" ~> pc[w] \in {"held", "done"}

\* The events are those of a correct lock: AsyncLock implements LockTrace.
Trace == INSTANCE LockTrace WITH
           status <- obs,
           grip <- [w \in Waiter |-> IF obs[w] = "acquired" THEN held[w] ELSE {}],
           pool <- minted
TraceSpec == Trace!Spec

\* hooks.rs: semaphore_created is "reported once per semaphore, lazily at its
\* first observed boundary, before that boundary's event".
CreatedFirst == (\E w \in Waiter : obs[w] # "none") => obsCreated
=============================================================================
