------------------------------ MODULE EmitPath ------------------------------
(***************************************************************************)
(* The way of a probe event out of emit: the sender of the thread, the     *)
(* global sender, the session's sink, and, in the cloud build, the queue   *)
(* of ProbeClient and its sender loop.                                     *)
(*                                                                         *)
(* The harnesses of #[axiom_target] and #[laplace_byoc_test] hand their    *)
(* workers a clone of a bounded channel, join them and collect what is in  *)
(* the channel until its last sender is gone; one of the senders is the    *)
(* clone set_probe_sender leaves in the global slot.  A generated verify   *)
(* harness uses the session's sink instead: see CaptureSession.            *)
(***************************************************************************)
EXTENDS Integers, Sequences, FiniteSets

CONSTANTS
  Harnesses,   \* which harnesses run: target, byoc, session
  Worker,      \* the threads a harness starts and joins
  Helper,      \* threads the annotated code starts, without a sender of their own
  EmitsEach,   \* bound on the events of a thread
  LegacyCap,   \* buffer of the harness's sync_channel
  QueueCap,    \* 4096, the queue of ProbeClient
  MaxBatch,    \* 32, max_batch_size
  Free         \* nobody

Emitting == Worker \cup Helper

ASSUME EmitIds    == Worker \cap Helper = {} /\ Free \notin Emitting
ASSUME EmitBounds == EmitsEach \in Nat /\ LegacyCap \in Nat /\ QueueCap \in Nat /\ MaxBatch \in Nat \ {0}
ASSUME HarnessesOK == Harnesses \subseteq {"target", "byoc", "session"}

VARIABLES
  harness,     \* the harness of this test
  stage,       \* where the harness is
  mainTx,      \* the harness still has its own sender
  localSet,    \* PROBE_SENDER of a thread is set
  globalSet,   \* GLOBAL_PROBE_SENDER holds a sender
  globalLock,  \* who holds its mutex
  legacyBuf,   \* events in the channel
  mpc,         \* where a thread is
  emitted,     \* events a thread emitted
  numbered,    \* number of the last event handed to the client
  outbox,      \* the client's queue
  batch,       \* the loop's batch
  loop,        \* collecting, sending
  edge,        \* what the edge received
  tried        \* numbers whose upload was attempted

sinks    == <<harness, stage, mainTx, localSet, globalSet, globalLock, legacyBuf>>
cloud    == <<numbered, outbox, batch, loop, edge, tried>>
emitVars == <<sinks, mpc, emitted, cloud>>

EmitTypeOK ==
  /\ harness \in Harnesses /\ mainTx \in BOOLEAN
  /\ stage \in {"joining", "clearing", "collecting", "over"}
  /\ localSet \in [Emitting -> BOOLEAN] /\ globalSet \in BOOLEAN
  /\ globalLock \in Emitting \cup {Free} /\ legacyBuf \in 0..LegacyCap
  /\ mpc \in [Emitting -> {"starting", "setting", "idle", "local", "locking", "global",
                           "session", "cloud", "ended"}]
  /\ emitted \in [Emitting -> 0..EmitsEach]
  /\ numbered \in Nat /\ outbox \in Seq(Nat) /\ Len(outbox) <= QueueCap
  /\ batch \in Seq(Nat) /\ Len(batch) <= MaxBatch
  /\ loop \in {"collecting", "sending"} /\ edge \in Seq(Nat) /\ tried \subseteq Nat

\* The channel exists and the threads are spawned.  axiom_target drops its own
\* sender before it joins, laplace_byoc_test after the body.
EmitInit ==
  /\ harness \in Harnesses
  /\ stage = "joining" /\ mainTx = (harness = "byoc")
  /\ localSet = [t \in Emitting |-> FALSE] /\ globalSet = FALSE
  /\ globalLock = Free /\ legacyBuf = 0
  /\ mpc = [t \in Emitting |-> IF t \in Worker /\ harness # "session" THEN "starting" ELSE "idle"]
  /\ emitted = [t \in Emitting |-> 0]
  /\ numbered = 0 /\ outbox = << >> /\ batch = << >> /\ loop = "collecting"
  /\ edge = << >> /\ tried = {}

MGoto(t, p) == mpc' = [mpc EXCEPT ![t] = p]
Numbers(s) == {s[i] : i \in 1..Len(s)}

\* A sender of the channel is left somewhere.
SendersLeft == mainTx \/ globalSet \/ \E t \in Emitting : localSet[t]

\* A full channel blocks its sender; once the receiver is gone send fails at once.
SendLegacy ==
  \/ legacyBuf < LegacyCap /\ legacyBuf' = legacyBuf + 1
  \/ stage = "over" /\ legacyBuf' = legacyBuf

-----------------------------------------------------------------------------
(* Faulty variants, used by no specification. *)

\* The batch is cleared where the failure is logged, and only there.
SendBatchClearsOnError ==
  /\ loop = "sending"
  /\ tried' = tried \cup Numbers(batch)
  /\ \/ edge' = edge \o batch /\ batch' = batch
     \/ edge' \in {edge, edge \o batch} /\ batch' = << >>
  /\ loop' = "collecting"
  /\ UNCHANGED <<sinks, mpc, emitted, numbered, outbox>>

\* A batch is sent when it is full, and only then.
FlushFullOnly ==
  /\ loop = "collecting" /\ Len(batch) >= MaxBatch
  /\ loop' = "sending"
  /\ UNCHANGED <<sinks, mpc, emitted, numbered, outbox, batch, edge, tried>>

-----------------------------------------------------------------------------
(* emit. *)

\* set_probe_sender in a worker: its own slot, then the global one.
SetProbeSender(t) ==
  /\ mpc[t] = "starting"
  /\ localSet' = [localSet EXCEPT ![t] = TRUE]
  /\ MGoto(t, "setting")
  /\ UNCHANGED <<harness, stage, mainTx, globalSet, globalLock, legacyBuf, emitted, cloud>>

SetGlobalSender(t) ==
  /\ mpc[t] = "setting" /\ globalLock = Free
  /\ globalSet' = TRUE
  /\ MGoto(t, "idle")
  /\ UNCHANGED <<harness, stage, mainTx, localSet, globalLock, legacyBuf, emitted, cloud>>

EmitEvent(t) ==
  /\ mpc[t] = "idle" /\ emitted[t] < EmitsEach
  /\ emitted' = [emitted EXCEPT ![t] = @ + 1]
  /\ MGoto(t, IF localSet[t] THEN "local" ELSE "locking")
  /\ UNCHANGED <<sinks, cloud>>

SendLocal(t) ==
  /\ mpc[t] = "local" /\ SendLegacy
  /\ MGoto(t, "cloud")
  /\ UNCHANGED <<harness, stage, mainTx, localSet, globalSet, globalLock, emitted, cloud>>

LockGlobal(t) ==
  /\ mpc[t] = "locking" /\ globalLock = Free
  /\ IF globalSet THEN globalLock' = t /\ MGoto(t, "global")
                  ELSE globalLock' = Free /\ MGoto(t, "session")
  /\ UNCHANGED <<harness, stage, mainTx, localSet, globalSet, legacyBuf, emitted, cloud>>

\* The send happens under the mutex of the global slot.
SendGlobal(t) ==
  /\ mpc[t] = "global" /\ SendLegacy
  /\ globalLock' = Free
  /\ MGoto(t, "cloud")
  /\ UNCHANGED <<harness, stage, mainTx, localSet, globalSet, emitted, cloud>>

\* The session's sink is unbounded, and may not be there.
SendSession(t) ==
  /\ mpc[t] = "session"
  /\ MGoto(t, "cloud")
  /\ UNCHANGED <<sinks, emitted, cloud>>

\* probe_event_to_raw keeps lock and block events of small thread ids;
\* ProbeClient::emit drops the event when the queue is full.
EmitCloud(t) ==
  /\ mpc[t] = "cloud"
  /\ MGoto(t, "idle")
  /\ \E raw \in BOOLEAN :
       /\ numbered' = IF raw THEN numbered + 1 ELSE numbered
       /\ outbox' = IF raw /\ Len(outbox) < QueueCap THEN Append(outbox, numbered + 1) ELSE outbox
  /\ UNCHANGED <<sinks, emitted, batch, loop, edge, tried>>

\* A thread is through with its body: its own sender goes with it.
EndThread(t) ==
  /\ mpc[t] = "idle"
  /\ localSet' = [localSet EXCEPT ![t] = FALSE]
  /\ MGoto(t, "ended")
  /\ UNCHANGED <<harness, stage, mainTx, globalSet, globalLock, legacyBuf, emitted, cloud>>

-----------------------------------------------------------------------------
(* The harness. *)

\* It joins its workers, and drops its sender if it still has it; only
\* axiom_target goes on to clear_probe_sender.
JoinWorkers ==
  /\ stage = "joining" /\ harness # "session"
  /\ \A t \in Worker : mpc[t] = "ended"
  /\ mainTx' = FALSE
  /\ stage' = IF harness = "target" THEN "clearing" ELSE "collecting"
  /\ UNCHANGED <<harness, localSet, globalSet, globalLock, legacyBuf, mpc, emitted, cloud>>

ClearProbeSender ==
  /\ stage = "clearing" /\ globalLock = Free
  /\ globalSet' = FALSE
  /\ stage' = "collecting"
  /\ UNCHANGED <<harness, mainTx, localSet, globalLock, legacyBuf, mpc, emitted, cloud>>

\* rx.into_iter().collect(): one event, or the end once no sender is left.
CollectLegacy ==
  /\ stage = "collecting"
  /\ \/ legacyBuf > 0 /\ legacyBuf' = legacyBuf - 1 /\ stage' = stage
     \/ legacyBuf = 0 /\ ~SendersLeft /\ legacyBuf' = legacyBuf /\ stage' = "over"
  /\ UNCHANGED <<harness, mainTx, localSet, globalSet, globalLock, mpc, emitted, cloud>>

-----------------------------------------------------------------------------
(* sender_loop. *)

\* The select is biased: events before the deadline.
Collect ==
  /\ loop = "collecting" /\ outbox # << >> /\ Len(batch) < MaxBatch
  /\ batch' = Append(batch, Head(outbox))
  /\ outbox' = Tail(outbox)
  /\ UNCHANGED <<sinks, mpc, emitted, numbered, loop, edge, tried>>

\* The batch is full, or the deadline came with something in it.
Flush ==
  /\ loop = "collecting" /\ batch # << >>
  /\ Len(batch) >= MaxBatch \/ outbox = << >>
  /\ loop' = "sending"
  /\ UNCHANGED <<sinks, mpc, emitted, numbered, outbox, batch, edge, tried>>

\* send_batch comes to an end, which nothing bounds: delivered, or failed before
\* or after the frame went out.  The batch is cleared in every case.
SendBatch ==
  /\ loop = "sending"
  /\ tried' = tried \cup Numbers(batch)
  /\ edge' \in {edge, edge \o batch}
  /\ batch' = << >>
  /\ loop' = "collecting"
  /\ UNCHANGED <<sinks, mpc, emitted, numbered, outbox>>

-----------------------------------------------------------------------------
ThreadStep(t) ==
  \/ SetProbeSender(t) \/ SetGlobalSender(t) \/ SendLocal(t) \/ LockGlobal(t)
  \/ SendGlobal(t) \/ SendSession(t) \/ EmitCloud(t) \/ EndThread(t)
HarnessStep == JoinWorkers \/ ClearProbeSender \/ CollectLegacy

EmitNext ==
  \/ \E t \in Emitting : EmitEvent(t) \/ ThreadStep(t)
  \/ HarnessStep \/ Collect \/ Flush \/ SendBatch

EmitSpec == EmitInit /\ [][EmitNext]_emitVars

\* Threads run to their end, and the loop is a task that waits for nobody but
\* the edge: connect and send have no timeout, so no upload need ever end.
EmitFairness ==
  /\ \A t \in Emitting : WF_emitVars(ThreadStep(t))
  /\ WF_emitVars(HarnessStep)
  /\ WF_emitVars(Collect) /\ WF_emitVars(Flush)

EmitFairSpec == EmitSpec /\ EmitFairness

-----------------------------------------------------------------------------
(* Properties. *)

\* The edge gets an event at most once and the events in the order they were
\* queued, whatever uploads fail before or after their frame went out.  The price
\* is that nothing is sent again: what was in one attempt is in no other, although
\* sender_loop logs "send failed (will retry)" (client.rs:110).
UploadedOnceInOrder ==
  /\ EmitTypeOK
  /\ \A i, j \in 1..Len(edge) : i < j => edge[i] < edge[j]
  /\ Numbers(edge) \subseteq tried
  /\ tried \cap (Numbers(batch) \cup Numbers(outbox)) = {}

\* As long as uploads end, every event the queue accepted is in one of them: a
\* slow trickle is flushed by the deadline, a flood by the full batch.
QueuedIsTried ==
  []<>(loop = "collecting") =>
    \A n \in 1..(EmitsEach * Cardinality(Emitting)) : n \in Numbers(outbox) ~> n \in tried

\* A thread waits for room in a full channel that nobody drains yet.
Backpressure ==
  /\ legacyBuf = LegacyCap /\ stage \in {"joining", "clearing"}
  /\ \E t \in Emitting : mpc[t] \in {"local", "global"}

\* An emit returns, with or without the mutex, unless the harness's channel has
\* filled up before it drains it.
EmitReturns ==
  \A t \in Emitting : mpc[t] \in {"local", "locking", "global", "session", "cloud"}
                        ~> mpc[t] \in {"idle", "ended"} \/ Backpressure

\* Then a harness that clears the global sender collects its events and ends,
\* helpers of the annotated code that are still running included.
TargetCollects == harness = "target" ~> stage = "over" \/ Backpressure

\* laplace_byoc_test runs the body, collects the events and goes on to its
\* verification tail.
ByocCollects == harness = "byoc" ~> stage = "over"
=============================================================================
