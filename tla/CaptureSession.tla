--------------------------- MODULE CaptureSession ---------------------------
(***************************************************************************)
(* The capture session of laplace-probe-sdk: generated tests of one binary *)
(* take turns (CAPTURE_LOCK), install a process-wide sink, collect what    *)
(* their threads emit and take the sink down again.  They join the workers *)
(* they started and no thread that the test's body started.  Legacy tests  *)
(* install a bounded global sender that emit prefers to the session's sink.*)
(***************************************************************************)
EXTENDS Integers, Sequences

CONSTANTS
  Harness,      \* threads that run generated tests
  Child,        \* worker threads and threads that the tests' bodies start
  Emitter,      \* the threads whose code emits events
  ExplicitId,   \* set_probe_thread_id by the generated code, or NoOne
  MayPanic,     \* whether a test may panic without joining its threads
  MaxSessions, MaxEvents, MaxLegacy,  \* bounds
  LegacyRoom,   \* capacity of a legacy test's channel
  NoOne

Thread == Harness \cup Child

\* The children that the generated code starts: it numbers them, and joins
\* them before finish.  Nobody joins the threads of a test's body.
Worker == {c \in Child : ExplicitId[c] # NoOne}

ASSUME NoOneIsNoThread == NoOne \notin Thread /\ NoOne \notin Nat
ASSUME TestsAreNoChildren == Harness \cap Child = {}
ASSUME EmittersAreThreads == Emitter \subseteq Thread
ASSUME IdsAssigned == ExplicitId \in [Thread -> Nat \cup {NoOne}]
ASSUME WorkersNumbered ==
  \A c, d \in Worker : ExplicitId[c] = ExplicitId[d] => c = d
ASSUME PanicFlag == MayPanic \in BOOLEAN
ASSUME BoundsNat == MaxSessions \in Nat /\ MaxEvents \in Nat /\ MaxLegacy \in Nat
ASSUME RoomNat == LegacyRoom \in Nat

VARIABLES
  captureLock, \* CAPTURE_LOCK: the harness in a session
  slot,        \* SESSION_SENDER: whose channel the sender belongs to
  global,      \* GLOBAL_PROBE_SENDER is set
  nextId,      \* NEXT_IMPLICIT_THREAD_ID
  pc,          \* where a harness is
  discard,     \* the session of the harness ends in Drop, not in finish
  session,     \* number of the session a harness or a child belongs to
  owner,       \* the harness a live child works for
  tid,         \* PROBE_THREAD_ID of each thread
  epc, ev,     \* where a thread is in emit, and with which event
  queue, open, \* the channel of each harness, and whether its receiver lives
  got,         \* what the collector has received
  collecting,  \* the collector thread runs
  legacy,      \* where the legacy test is
  room,        \* free places in the legacy test's channel
  begun, made, resets,  \* counters for the bounds
  told,        \* events of the session whose emit returned before its sender
               \* was taken down and that no legacy sender took
  left         \* sessions whose test panicked

slots   == <<captureLock, slot, nextId>>
harness == <<pc, discard, begun, left>>
threads == <<session, owner, tid>>
emits   == <<epc, ev, made, told>>
channel == <<queue, open, got, collecting>>
env     == <<global, legacy, room, resets>>
vars    == <<slots, harness, threads, emits, channel, env>>

Event == [by : Thread, of : 0..MaxSessions, id : Nat]
NoEvent == [by |-> NoOne, of |-> 0, id |-> 0]

\* The types; a thread in emit carries the id it keeps.
TypeOK ==
  /\ captureLock \in Harness \cup {NoOne}
  /\ slot \in Harness \cup {NoOne}
  /\ global \in BOOLEAN /\ nextId \in Nat
  /\ pc \in [Harness -> {"idle", "locked", "reset", "installed", "running",
                         "clearing", "joining", "unlocking"}]
  /\ discard \in [Harness -> BOOLEAN]
  /\ session \in [Thread -> 0..MaxSessions]
  /\ owner \in [Child -> Harness \cup {NoOne}]
  /\ tid \in [Thread -> Nat \cup {NoOne}]
  /\ epc \in [Thread -> {"idle", "global", "blocked", "session"}]
  /\ ev \in [Thread -> Event \cup {NoEvent}]
  /\ \A t \in Thread : epc[t] # "idle" => ev[t].id = tid[t]
  /\ queue \in [Harness -> Seq(Event)] /\ got \in [Harness -> Seq(Event)]
  /\ told \in [Harness -> Seq(Event)]
  /\ open \in [Harness -> BOOLEAN] /\ collecting \in [Harness -> BOOLEAN]
  /\ legacy \in {"idle", "setting", "set"} /\ room \in 0..LegacyRoom
  /\ begun \in 0..MaxSessions /\ resets \in 0..MaxLegacy
  /\ made \in [Thread -> 0..MaxEvents] /\ left \subseteq 1..MaxSessions

Init ==
  /\ captureLock = NoOne /\ slot = NoOne /\ global = FALSE /\ nextId = 0
  /\ pc = [h \in Harness |-> "idle"] /\ discard = [h \in Harness |-> FALSE]
  /\ session = [t \in Thread |-> 0] /\ owner = [c \in Child |-> NoOne]
  /\ tid = [t \in Thread |-> NoOne]
  /\ epc = [t \in Thread |-> "idle"] /\ ev = [t \in Thread |-> NoEvent]
  /\ queue = [h \in Harness |-> <<>>] /\ got = queue /\ told = queue
  /\ open = [h \in Harness |-> FALSE] /\ collecting = open
  /\ legacy = "idle" /\ room = LegacyRoom /\ begun = 0 /\ resets = 0
  /\ made = [t \in Thread |-> 0] /\ left = {}

Goto(h, p) == pc' = [pc EXCEPT ![h] = p]

\* Workers of h's session that have not exited.
Working(h) == {c \in Worker : owner[c] = h /\ session[c] = session[h]}

-----------------------------------------------------------------------------
(* Faulty variants, used only to show that the properties notice them. *)

\* A session begins beside another one.
BeginUnlocked(h) ==
  /\ pc[h] = "idle" /\ begun < MaxSessions
  /\ captureLock' = h /\ begun' = begun + 1
  /\ Goto(h, "locked") /\ discard' = [discard EXCEPT ![h] = FALSE]
  /\ session' = [session EXCEPT ![h] = begun + 1]
  /\ told' = [told EXCEPT ![h] = <<>>]
  /\ UNCHANGED <<slot, nextId, left, owner, tid, epc, ev, made, channel, env>>

\* The session is torn down without emptying the sender slot.
ClearForgotten(h) ==
  /\ pc[h] = "clearing" /\ Goto(h, "joining")
  /\ UNCHANGED <<slots, discard, begun, left, threads, emits, channel, env>>

\* The collector's result is taken without waiting for its end.
JoinAtOnce(h) ==
  /\ pc[h] = "joining" /\ Goto(h, "unlocking")
  /\ UNCHANGED <<slots, discard, begun, left, threads, emits, channel, env>>

\* A panic releases the lock without tearing the session down.
PanicWithoutDrop(h) ==
  /\ MayPanic /\ pc[h] = "running" /\ epc[h] = "idle"
  /\ Goto(h, "unlocking") /\ discard' = [discard EXCEPT ![h] = TRUE]
  /\ left' = left \cup {session[h]}
  /\ UNCHANGED <<slots, begun, threads, emits, channel, env>>

\* The harness does not join its workers.
FinishUnjoined(h) ==
  /\ pc[h] = "running" /\ epc[h] = "idle"
  /\ Goto(h, "clearing")
  /\ UNCHANGED <<slots, discard, begun, left, threads, emits, channel, env>>

\* The id is taken from the counter and not kept.
MakeEventUncached(t) ==
  /\ t \in Emitter /\ epc[t] = "idle" /\ made[t] < MaxEvents
  /\ IF t \in Harness THEN pc[t] = "running" ELSE owner[t] # NoOne
  /\ LET id == IF tid[t] = NoOne THEN nextId ELSE tid[t] IN
       /\ ev' = [ev EXCEPT ![t] = [by |-> t, of |-> session[t], id |-> id]]
       /\ nextId' = IF tid[t] = NoOne THEN nextId + 1 ELSE nextId
  /\ made' = [made EXCEPT ![t] = @ + 1]
  /\ epc' = [epc EXCEPT ![t] = "global"]
  /\ UNCHANGED <<captureLock, slot, harness, threads, told, channel, env>>

-----------------------------------------------------------------------------
\* CaptureSession::begin, one step per shared object it touches.  The lock is
\* taken whether or not a panic poisoned it.
Begin(h) ==
  /\ pc[h] = "idle" /\ begun < MaxSessions /\ captureLock = NoOne
  /\ captureLock' = h /\ begun' = begun + 1
  /\ Goto(h, "locked") /\ discard' = [discard EXCEPT ![h] = FALSE]
  /\ session' = [session EXCEPT ![h] = begun + 1]
  /\ told' = [told EXCEPT ![h] = <<>>]
  /\ UNCHANGED <<slot, nextId, left, owner, tid, epc, ev, made, channel, env>>

ResetIds(h) ==
  /\ pc[h] = "locked" /\ nextId' = 0 /\ Goto(h, "reset")
  /\ UNCHANGED <<captureLock, slot, discard, begun, left, threads, emits, channel, env>>

Install(h) ==
  /\ pc[h] = "reset" /\ slot' = h /\ Goto(h, "installed")
  /\ queue' = [queue EXCEPT ![h] = <<>>] /\ got' = [got EXCEPT ![h] = <<>>]
  /\ open' = [open EXCEPT ![h] = TRUE]
  /\ UNCHANGED <<captureLock, nextId, discard, begun, left, threads, emits, collecting, env>>

\* The collector starts; the harness then sets its own logical id, if any.
SpawnCollector(h) ==
  /\ pc[h] = "installed" /\ Goto(h, "running")
  /\ collecting' = [collecting EXCEPT ![h] = TRUE]
  /\ tid' = [tid EXCEPT ![h] = IF ExplicitId[h] = NoOne THEN @ ELSE ExplicitId[h]]
  /\ UNCHANGED <<slots, discard, begun, left, session, owner, emits, queue, open, got, env>>

\* The spawn fails: begin panics with the sender still in the slot, the
\* receiver is dropped with the closure and the lock with the guard.
SpawnFails(h) ==
  /\ MayPanic /\ pc[h] = "installed" /\ Goto(h, "idle")
  /\ open' = [open EXCEPT ![h] = FALSE] /\ captureLock' = NoOne
  /\ UNCHANGED <<slot, nextId, discard, begun, left, threads, emits, queue, got, collecting, env>>

\* The test starts a thread: a worker with its id, or a thread of its body.
Spawn(h, c) ==
  /\ pc[h] = "running" /\ epc[h] = "idle"
  /\ owner[c] = NoOne /\ session[c] # session[h]
  /\ owner' = [owner EXCEPT ![c] = h]
  /\ session' = [session EXCEPT ![c] = session[h]]
  /\ tid' = [tid EXCEPT ![c] = ExplicitId[c]]
  /\ UNCHANGED <<slots, harness, emits, channel, env>>

Exit(c) ==
  /\ owner[c] # NoOne /\ epc[c] = "idle"
  /\ owner' = [owner EXCEPT ![c] = NoOne]
  /\ UNCHANGED <<slots, harness, session, tid, emits, channel, env>>

\* finish, called once the workers are joined.  Threads of the test's body
\* may still run.
Finish(h) ==
  /\ pc[h] = "running" /\ epc[h] = "idle" /\ Working(h) = {}
  /\ Goto(h, "clearing")
  /\ UNCHANGED <<slots, discard, begun, left, threads, emits, channel, env>>

\* A panic (a joined worker panicked, say) drops the session instead; other
\* threads of the test may still run.
Panic(h) ==
  /\ MayPanic /\ pc[h] = "running" /\ epc[h] = "idle"
  /\ Goto(h, "clearing") /\ discard' = [discard EXCEPT ![h] = TRUE]
  /\ left' = left \cup {session[h]}
  /\ UNCHANGED <<slots, begun, threads, emits, channel, env>>

\* tear_down: drop the only sender, ...
Clear(h) ==
  /\ pc[h] = "clearing" /\ slot' = NoOne /\ Goto(h, "joining")
  /\ UNCHANGED <<captureLock, nextId, discard, begun, left, threads, emits, channel, env>>

\* ... wait for the collector, ...
Join(h) ==
  /\ pc[h] = "joining" /\ ~collecting[h] /\ Goto(h, "unlocking")
  /\ UNCHANGED <<slots, discard, begun, left, threads, emits, channel, env>>

\* ... and, when the session's fields are dropped, unlock.
Release(h) ==
  /\ pc[h] = "unlocking" /\ captureLock' = NoOne /\ Goto(h, "idle")
  /\ UNCHANGED <<slot, nextId, discard, begun, left, threads, emits, channel, env>>

\* rx.into_iter().collect(): receive, or end once the channel is empty and
\* has no sender.
Collect(h) ==
  /\ collecting[h]
  /\ \/ /\ queue[h] # <<>>
        /\ got' = [got EXCEPT ![h] = Append(@, Head(queue[h]))]
        /\ queue' = [queue EXCEPT ![h] = Tail(@)]
        /\ UNCHANGED <<open, collecting>>
     \/ /\ queue[h] = <<>> /\ slot # h
        /\ collecting' = [collecting EXCEPT ![h] = FALSE]
        /\ open' = [open EXCEPT ![h] = FALSE]
        /\ UNCHANGED <<queue, got>>
  /\ UNCHANGED <<slots, harness, threads, emits, env>>

-----------------------------------------------------------------------------
\* An instrumented operation builds its event: current_thread_id gives the
\* thread an id the first time.
MakeEvent(t) ==
  /\ t \in Emitter /\ epc[t] = "idle" /\ made[t] < MaxEvents
  /\ IF t \in Harness THEN pc[t] = "running" ELSE owner[t] # NoOne
  /\ LET id == IF tid[t] = NoOne THEN nextId ELSE tid[t] IN
       /\ ev' = [ev EXCEPT ![t] = [by |-> t, of |-> session[t], id |-> id]]
       /\ tid' = [tid EXCEPT ![t] = id]
       /\ nextId' = IF tid[t] = NoOne THEN nextId + 1 ELSE nextId
  /\ made' = [made EXCEPT ![t] = @ + 1]
  /\ epc' = [epc EXCEPT ![t] = "global"]
  /\ UNCHANGED <<captureLock, slot, harness, session, owner, told, channel, env>>

\* A send to the legacy test's full channel holds the lock of
\* GLOBAL_PROBE_SENDER: its harness drains only after clear_probe_sender,
\* which needs that lock.
SenderStuck == \E t \in Thread : epc[t] = "blocked"

\* emit looks at the legacy global sender first, holding its lock, and sends
\* there, if there is one, as soon as the channel has room ...
EmitGlobal(t) ==
  /\ epc[t] = "global" /\ ~SenderStuck
  /\ \/ ~global /\ epc' = [epc EXCEPT ![t] = "session"] /\ room' = room
     \/ global /\ room > 0 /\ epc' = [epc EXCEPT ![t] = "idle"] /\ room' = room - 1
     \/ global /\ room = 0 /\ epc' = [epc EXCEPT ![t] = "blocked"] /\ room' = room
  /\ UNCHANGED <<slots, harness, threads, ev, made, told, channel, global, legacy, resets>>

\* ... then at the session's, and sends while it holds the slot's lock.
EmitSession(t) ==
  /\ epc[t] = "session" /\ epc' = [epc EXCEPT ![t] = "idle"]
  /\ told' = [h \in Harness |-> IF pc[h] \in {"running", "clearing"} /\ session[h] = ev[t].of
                                THEN Append(told[h], ev[t]) ELSE told[h]]
  /\ queue' = IF slot # NoOne /\ open[slot]
              THEN [queue EXCEPT ![slot] = Append(@, ev[t])] ELSE queue
  /\ UNCHANGED <<slots, harness, threads, ev, made, open, got, collecting, env>>

-----------------------------------------------------------------------------
\* A worker of a legacy test in the same binary: set_probe_sender ...
LegacyReset ==
  /\ legacy = "idle" /\ resets < MaxLegacy
  /\ nextId' = 0 /\ legacy' = "setting" /\ resets' = resets + 1
  /\ UNCHANGED <<captureLock, slot, global, room, harness, threads, emits, channel>>

LegacySet ==
  /\ legacy = "setting" /\ ~SenderStuck
  /\ global' = TRUE /\ legacy' = "set" /\ room' = LegacyRoom
  /\ UNCHANGED <<slots, harness, threads, emits, channel, resets>>

\* ... its own events, which its threads send past the global sender ...
LegacySend ==
  /\ legacy = "set" /\ room > 0 /\ room' = room - 1
  /\ UNCHANGED <<slots, harness, threads, emits, channel, global, legacy, resets>>

\* ... and clear_probe_sender by its harness.
LegacyClear ==
  /\ legacy = "set" /\ ~SenderStuck /\ global' = FALSE /\ legacy' = "idle"
  /\ UNCHANGED <<slots, harness, threads, emits, channel, room, resets>>

HarnessStep(h) ==
  \/ Begin(h) \/ ResetIds(h) \/ Install(h) \/ SpawnCollector(h)
  \/ Finish(h) \/ Clear(h) \/ Join(h) \/ Release(h)

Emit(t) == MakeEvent(t) \/ EmitGlobal(t) \/ EmitSession(t)

Next ==
  \/ \E h \in Harness : \/ HarnessStep(h) \/ Collect(h) \/ SpawnFails(h) \/ Panic(h)
                         \/ \E c \in Child : Spawn(h, c)
  \/ \E c \in Child : Exit(c)
  \/ \E t \in Thread : Emit(t)
  \/ LegacyReset \/ LegacySet \/ LegacySend \/ LegacyClear

Spec == Init /\ [][Next]_vars

\* Every thread runs; test bodies and workers end, other threads need not.
FairSpec ==
  /\ Spec
  /\ \A h \in Harness : WF_vars(HarnessStep(h)) /\ WF_vars(Collect(h))
  /\ \A c \in Worker : WF_vars(Exit(c))
  /\ \A t \in Thread : WF_vars(EmitGlobal(t) \/ EmitSession(t))

-----------------------------------------------------------------------------
\* "A panicking harness cannot leave a dangling global sink for the next
\* test" (session.rs): a sink that still takes events belongs to the harness
\* that holds CAPTURE_LOCK.
NoDanglingSink == slot # NoOne /\ open[slot] => captureLock = slot

\* "Exactly one session may be active per process", from the moment begin has
\* the lock until the collector is joined, panics included.
OneActive == \A g, h \in Harness : pc[g] # "idle" /\ pc[h] # "idle" => g = h

\* The process-wide slot and lock serve one session at a time.
SessionExclusive == OneActive /\ NoDanglingSink

\* s is q without the events of other sessions than n, in the same order.
OwnPart(s, q, n) ==
  \E at \in [DOMAIN s -> DOMAIN q] :
    /\ \A i, j \in DOMAIN s : i < j => at[i] < at[j]
    /\ \A i \in DOMAIN s : s[i] = q[at[i]]
    /\ \A k \in DOMAIN q : q[k].of = n => \E i \in DOMAIN s : at[i] = k

\* finish "returns every captured event, in emission order": all that the
\* threads of the test emitted before its sender was taken down and nothing
\* else of theirs, in that order, also when other threads' events came
\* between.  Only a legacy sender takes events away.
FinishReturnsAll ==
  \A h \in Harness :
    pc[h] = "unlocking" /\ ~discard[h] => OwnPart(told[h], got[h], session[h])

Returned(h) == {got[h][i] : i \in DOMAIN got[h]}

\* How far it holds that "parallel generated tests in one binary cannot
\* cross-pollute" (CAPTURE_LOCK, session.rs:42): no test gets an event of another
\* test's harness or of a worker, in whatever order emit, tear_down and the next
\* begin interleave, unless that test panicked without joining them.  An event of
\* another test comes from there or from a thread of a body, which nobody joins
\* before finish.
WorkersDoNotPollute ==
  \A h \in Harness :
    pc[h] = "unlocking" /\ ~discard[h]
      => \A e \in Returned(h) :
           e.by \in Harness \cup Worker => e.of \in {session[h]} \cup left

\* "Stable logical ids" (current_thread_id): among the events of a test one
\* thread has one id and two threads have two, as long as no legacy test
\* resets the counter.
StableIds ==
  \A h \in Harness :
    pc[h] = "unlocking" /\ ~discard[h] /\ resets = 0
      => \A d, e \in Returned(h) :
           d.of = session[h] /\ e.of = session[h] => (d.by = e.by <=> d.id = e.id)

\* No hang: a session that has begun is over some day, and the next test can
\* begin, unless a thread has run into the full channel of a legacy test.
SessionEnds == \A h \in Harness : pc[h] # "idle" ~> pc[h] = "idle" \/ SenderStuck
=============================================================================
