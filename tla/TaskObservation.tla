--------------------------- MODULE TaskObservation ---------------------------
(***************************************************************************)
(* Observed native tasks of laplace-model-rt: tasks registered in a        *)
(* TaskSet and tasks spawned dynamically by spawn_task, polled through     *)
(* ObservedTask, joined through their handles, aborted, and reported to    *)
(* the installed TaskObserverHook.  The tokio executor and its JoinHandle  *)
(* are external: run queue, wakers, cancellation of a task that is not     *)
(* being polled.                                                           *)
(***************************************************************************)
EXTENDS Integers, FiniteSets

CONSTANTS
  SetTask,       \* tasks that may be registered in the TaskSet
  DynTask,       \* tasks that may be spawned while the set runs
  MaxModelTasks, \* MAX_MODEL_TASKS
  Workers,       \* executor threads; run_task_set_native has one
  MaxToggles,    \* bound on installations and removals of the hook
  None

Task == SetTask \cup DynTask

ASSUME TasksDistinct == SetTask \cap DynTask = {} /\ None \notin Task
ASSUME LimitsNat == MaxModelTasks \in Nat /\ Workers \in Nat /\ MaxToggles \in Nat

VARIABLES
  started,  \* run_task_set_native has taken the set
  pc,       \* where a task is
  outcome,  \* outcome of the poll under way
  woken,    \* a wake-up not yet followed by a poll
  fin,      \* CompletionState.finished, or the tokio task is complete
  waker,    \* the waker left by the handle of a task
  joining,  \* the task whose handle a task awaits
  handle,   \* requested and resolved of a handle
  aborted,  \* abort was called
  hook,     \* TASK_OBSERVER_HOOK is installed
  toggles,
  cap,      \* the poll under way found the hook installed
  open,     \* hook: poll_started without poll_completed
  doneSeen, \* hook: task_completed
  joinSeen  \* hook: join_requested, join_resolved of a handle

taskVars == <<started, pc, outcome, woken, fin, waker, joining, handle, aborted>>
hookVars == <<hook, toggles>>
seen     == <<cap, open, doneSeen, joinSeen>>
vars     == <<taskVars, hookVars, seen>>

PC == {"unspawned", "queued", "polling", "polled", "finishing", "completed",
       "parked", "over"}
Handle == {"fresh", "requested", "resolved"}

TypeOK ==
  /\ started \in BOOLEAN
  /\ pc \in [Task -> PC]
  /\ outcome \in [Task -> {"pending", "ready", "panicked"}]
  /\ woken \in [Task -> BOOLEAN] /\ fin \in [Task -> BOOLEAN]
  /\ waker \in [Task -> Task \cup {None}]
  /\ joining \in [Task -> Task \cup {None}]
  /\ handle \in [Task -> Handle]
  /\ aborted \in [Task -> BOOLEAN]
  /\ hook \in BOOLEAN /\ toggles \in 0..MaxToggles
  /\ cap \in [Task -> BOOLEAN] /\ open \in [Task -> BOOLEAN]
  /\ doneSeen \in [Task -> BOOLEAN]
  /\ joinSeen \in [Task -> Handle]
  /\ Cardinality({t \in SetTask : pc[t] # "unspawned"}) <= MaxModelTasks

Init ==
  /\ started = FALSE
  /\ pc = [t \in Task |-> "unspawned"]
  /\ outcome = [t \in Task |-> "pending"]
  /\ woken = [t \in Task |-> FALSE] /\ fin = [t \in Task |-> FALSE]
  /\ waker = [t \in Task |-> None] /\ joining = [t \in Task |-> None]
  /\ handle = [t \in Task |-> "fresh"]
  /\ aborted = [t \in Task |-> FALSE]
  /\ hook = TRUE /\ toggles = 0
  /\ cap = [t \in Task |-> FALSE] /\ open = [t \in Task |-> FALSE]
  /\ doneSeen = [t \in Task |-> FALSE]
  /\ joinSeen = [t \in Task |-> "fresh"]

Busy == {t \in Task : pc[t] \in {"polling", "polled", "finishing", "completed"}}
Live(t) == pc[t] \notin {"unspawned", "over"}

\* Task t goes to p and whoever left a waker with it is queued or, when it is
\* being polled right now, will be polled again.
GotoAndWake(t, p) ==
  LET w == waker[t] IN
    /\ pc' = [u \in Task |-> IF u = t THEN p
                             ELSE IF u = w /\ pc[u] = "parked" THEN "queued" ELSE pc[u]]
    /\ woken' = [u \in Task |-> woken[u] \/ u = w]
    /\ waker' = [waker EXCEPT ![t] = None]

\* The poll returned Ready.  The tokio handle of a dynamic task is joined
\* through it, that of a set task only by the runner.
TokioComplete(t) ==
  IF t \in DynTask
  THEN fin' = [fin EXCEPT ![t] = TRUE] /\ GotoAndWake(t, "over")
  ELSE pc' = [pc EXCEPT ![t] = "over"] /\ UNCHANGED <<fin, woken, waker>>

-----------------------------------------------------------------------------
(* Faulty variants, used only to show that the properties notice them. *)

\* The hook may be exchanged without end.
ClearHookUnbounded ==
  /\ hook /\ toggles <= MaxToggles
  /\ hook' = FALSE /\ toggles' = toggles + 1
  /\ UNCHANGED <<taskVars, seen>>

\* The hook is read again when the poll is over.
EndPollRereads(t) ==
  /\ pc[t] = "polled"
  /\ open' = IF hook THEN [open EXCEPT ![t] = FALSE] ELSE open
  /\ pc' = [pc EXCEPT ![t] = IF outcome[t] # "pending" THEN "finishing"
                             ELSE IF woken[t] THEN "queued" ELSE "parked"]
  /\ UNCHANGED <<started, outcome, woken, fin, waker, joining, handle, aborted,
                 hookVars, cap, doneSeen, joinSeen>>

\* A contained panic does not complete the handle.
CompleteUnlessPanicked(t) ==
  /\ pc[t] = "finishing"
  /\ IF t \in SetTask /\ outcome[t] = "ready"
     THEN fin' = [fin EXCEPT ![t] = TRUE] /\ GotoAndWake(t, "completed")
     ELSE pc' = [pc EXCEPT ![t] = "completed"] /\ UNCHANGED <<fin, woken, waker>>
  /\ UNCHANGED <<started, outcome, joining, handle, aborted, hookVars, seen>>

\* Only a task that returned is reported as completed.
ReportDoneOnlyReady(t) ==
  /\ pc[t] = "completed"
  /\ doneSeen' = IF cap[t] /\ outcome[t] = "ready" THEN [doneSeen EXCEPT ![t] = TRUE]
                                                  ELSE doneSeen
  /\ TokioComplete(t)
  /\ UNCHANGED <<started, outcome, joining, handle, aborted, hookVars,
                 cap, open, joinSeen>>

-----------------------------------------------------------------------------
\* TaskSet::spawn; beyond the limit it panics and registers nothing.
Register(t) ==
  /\ ~started /\ pc[t] = "unspawned"
  /\ Cardinality({u \in SetTask : pc[u] # "unspawned"}) < MaxModelTasks
  /\ pc' = [pc EXCEPT ![t] = "queued"]
  /\ UNCHANGED <<started, outcome, woken, fin, waker, joining, handle, aborted,
                 hookVars, seen>>

\* run_task_set_native consumes the set and spawns its tasks.
RunSet ==
  /\ ~started
  /\ started' = TRUE
  /\ UNCHANGED <<pc, outcome, woken, fin, waker, joining, handle, aborted,
                 hookVars, seen>>

\* ObservedTask::poll up to the inner poll: the hook is read once and told
\* poll_started.
BeginPoll(t) ==
  /\ started /\ pc[t] = "queued" /\ ~aborted[t]
  /\ Cardinality(Busy) < Workers
  /\ pc' = [pc EXCEPT ![t] = "polling"]
  /\ woken' = [woken EXCEPT ![t] = FALSE]
  /\ cap' = [cap EXCEPT ![t] = hook]
  /\ open' = IF hook THEN [open EXCEPT ![t] = TRUE] ELSE open
  /\ UNCHANGED <<started, outcome, fin, waker, joining, handle, aborted,
                 hookVars, doneSeen, joinSeen>>

(* What the task's own future does while it is polled. *)

\* spawn_task without an engine and with an observer: ObservedNative.  With no
\* observer installed it is tokio::spawn, and nothing of the task is reported.
SpawnDynamic(t, u) ==
  /\ hook /\ pc[t] = "polling" /\ joining[t] = None
  /\ pc[u] = "unspawned"
  /\ pc' = [pc EXCEPT ![u] = "queued"]
  /\ UNCHANGED <<started, outcome, woken, fin, waker, joining, handle, aborted,
                 hookVars, seen>>

\* The future yields, returns or panics.
Return(t, o) ==
  /\ pc[t] = "polling" /\ joining[t] = None
  /\ outcome' = [outcome EXCEPT ![t] = o]
  /\ woken' = IF o = "pending" THEN [woken EXCEPT ![t] = TRUE] ELSE woken
  /\ pc' = [pc EXCEPT ![t] = "polled"]
  /\ UNCHANGED <<started, fin, waker, joining, handle, aborted, hookVars, seen>>

\* Poll of a join handle: join_requested once, then the completion; a
\* finished task resolves the handle, otherwise the waker is replaced.
\* The handle may have been polled by another task before.
JoinPoll(t, u) ==
  /\ pc[t] = "polling" /\ joining[t] \in {None, u}
  /\ u # t /\ pc[u] # "unspawned" /\ handle[u] # "resolved"
  /\ \A v \in Task \ {t} : joining[v] # u
  /\ handle' = [handle EXCEPT ![u] = IF fin[u] THEN "resolved" ELSE "requested"]
  /\ joinSeen' = IF hook /\ (handle[u] = "fresh" \/ fin[u])
                 THEN [joinSeen EXCEPT ![u] = handle'[u]] ELSE joinSeen
  /\ IF fin[u]
     THEN /\ joining' = [joining EXCEPT ![t] = None]
          /\ UNCHANGED <<pc, outcome, waker>>
     ELSE /\ joining' = [joining EXCEPT ![t] = u]
          /\ waker' = [waker EXCEPT ![u] = t]
          /\ outcome' = [outcome EXCEPT ![t] = "pending"]
          /\ pc' = [pc EXCEPT ![t] = "polled"]
  /\ UNCHANGED <<started, woken, fin, aborted, hookVars, cap, open, doneSeen>>

\* The await of the handle is given up (another select! branch won).
Abandon(t) ==
  /\ pc[t] = "polling" /\ joining[t] # None
  /\ joining' = [joining EXCEPT ![t] = None]
  /\ UNCHANGED <<started, pc, outcome, woken, fin, waker, handle, aborted,
                 hookVars, seen>>

\* TaskHandle::abort of a spawned task.
Abort(t, u) ==
  /\ pc[t] = "polling" /\ joining[t] = None
  /\ u \in DynTask /\ Live(u) /\ ~aborted[u]
  /\ aborted' = [aborted EXCEPT ![u] = TRUE]
  /\ UNCHANGED <<started, pc, outcome, woken, fin, waker, joining, handle,
                 hookVars, seen>>

\* poll_completed to the hook that was told poll_started.
EndPoll(t) ==
  /\ pc[t] = "polled"
  /\ open' = IF cap[t] THEN [open EXCEPT ![t] = FALSE] ELSE open
  /\ pc' = [pc EXCEPT ![t] = IF outcome[t] # "pending" THEN "finishing"
                             ELSE IF woken[t] THEN "queued" ELSE "parked"]
  /\ UNCHANGED <<started, outcome, woken, fin, waker, joining, handle, aborted,
                 hookVars, cap, doneSeen, joinSeen>>

\* Ready or panicked: TaskCompletion::complete wakes the joiner.  Dynamic
\* tasks have no TaskCompletion.
Complete(t) ==
  /\ pc[t] = "finishing"
  /\ IF t \in SetTask
     THEN fin' = [fin EXCEPT ![t] = TRUE] /\ GotoAndWake(t, "completed")
     ELSE pc' = [pc EXCEPT ![t] = "completed"] /\ UNCHANGED <<fin, woken, waker>>
  /\ UNCHANGED <<started, outcome, joining, handle, aborted, hookVars, seen>>

\* task_completed; then the poll returns Ready and tokio completes the task.
ReportDone(t) ==
  /\ pc[t] = "completed"
  /\ doneSeen' = IF cap[t] THEN [doneSeen EXCEPT ![t] = TRUE] ELSE doneSeen
  /\ TokioComplete(t)
  /\ UNCHANGED <<started, outcome, joining, handle, aborted, hookVars,
                 cap, open, joinSeen>>

\* tokio drops an aborted task that is not being polled.
Cancel(t) ==
  /\ aborted[t] /\ pc[t] \in {"queued", "parked"}
  /\ fin' = [fin EXCEPT ![t] = TRUE]
  /\ joining' = [joining EXCEPT ![t] = None]
  /\ GotoAndWake(t, "over")
  /\ UNCHANGED <<started, outcome, handle, aborted, hookVars, seen>>

InstallHook ==
  /\ ~hook /\ toggles < MaxToggles
  /\ hook' = TRUE /\ toggles' = toggles + 1
  /\ UNCHANGED <<taskVars, seen>>

ClearHook ==
  /\ hook /\ toggles < MaxToggles
  /\ hook' = FALSE /\ toggles' = toggles + 1
  /\ UNCHANGED <<taskVars, seen>>

Inner(t) ==
  \/ \E o \in {"pending", "ready", "panicked"} : Return(t, o)
  \/ \E u \in Task : JoinPoll(t, u) \/ Abort(t, u)
  \/ Abandon(t)
  \/ \E u \in DynTask : SpawnDynamic(t, u)

Next ==
  \/ \E t \in SetTask : Register(t)
  \/ RunSet
  \/ \E t \in Task : BeginPoll(t) \/ EndPoll(t) \/ Complete(t) \/ ReportDone(t) \/ Cancel(t)
  \/ \E t \in Task, o \in {"pending", "ready", "panicked"} : Return(t, o)
  \/ \E t, u \in Task : JoinPoll(t, u) \/ Abort(t, u)
  \/ \E t \in Task : Abandon(t)
  \/ \E t \in Task, u \in DynTask : SpawnDynamic(t, u)
  \/ InstallHook \/ ClearHook

Spec == Init /\ [][Next]_vars

(***************************************************************************)
(* Fairness: tokio's run queue is FIFO, so a queued task is polled again   *)
(* although the worker is busy in between (strong fairness); a poll        *)
(* returns, and code after it gets on.  Nothing makes a task finish.       *)
(***************************************************************************)
FairSpec ==
  /\ Spec
  /\ \A t \in Task : /\ SF_vars(BeginPoll(t))
                     /\ WF_vars(Inner(t))
                     /\ WF_vars(EndPoll(t)) /\ WF_vars(Complete(t))
                     /\ WF_vars(ReportDone(t)) /\ WF_vars(Cancel(t))

-----------------------------------------------------------------------------
\* A hook that saw poll_started sees the poll_completed of that poll, even
\* when the hook is removed or installed while the task is being polled: the
\* poll keeps the hook it started with.
PollsPaired == \A t \in Task : open[t] => pc[t] \in {"polling", "polled"}

\* With the hook installed all along, a join is seen to resolve only after
\* the joined task was seen to complete, or because it was aborted.  The
\* handle is completed before task_completed is reported, so this relies on
\* the single worker of the native runner.
CompletionBeforeJoin ==
  toggles = 0 =>
    \A t \in Task : joinSeen[t] = "resolved" => doneSeen[t] \/ aborted[t]

\* What a task observer is told fits together.
ObservationSound == TypeOK /\ PollsPaired /\ CompletionBeforeJoin

\* A task that awaits one that returned, panicked or was aborted is not
\* forgotten: its await resolves or is given up.
JoinersServed ==
  \A t \in Task : joining[t] # None /\ pc[joining[t]] = "over" ~> joining[t] = None

\* hooks.rs: task_completed "Reports that a task reached a terminal state".
TerminalReported ==
  toggles = 0 => \A t \in Task : pc[t] = "over" => doneSeen[t]
=============================================================================
