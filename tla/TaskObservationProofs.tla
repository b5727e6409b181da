------------------------ MODULE TaskObservationProofs ------------------------
(***************************************************************************)
(* Theorems about TaskObservation for any tasks, limits and exchanges of   *)
(* the hook.  That a poll keeps its observer holds for any number of       *)
(* workers; that completion is seen before the join needs the one worker   *)
(* of run_task_set_native.                                                 *)
(***************************************************************************)
EXTENDS TaskObservation, FiniteSetTheorems, TLAPS

\* The tasks the TaskSet holds.
Registered == {t \in SetTask : pc[t] # "unspawned"}

\* The set is finite and within the limit.
LimitInv == IsFiniteSet(Registered) /\ Cardinality(Registered) <= MaxModelTasks

\* An open poll is under way and keeps the hook it was reported to.
PollInv == \A t \in Task : open[t] => pc[t] \in {"polling", "polled"} /\ cap[t]

\* Who is finished is past its last poll; with the hook never exchanged every
\* poll is observed and a task that is over was reported or aborted.
DoneInv ==
  /\ \A t \in Task : fin[t] => pc[t] \in {"completed", "over"}
  /\ toggles = 0 => /\ hook
                    /\ \A t \in Busy : cap[t]
                    /\ \A t \in Task : pc[t] = "over" => doneSeen[t] \/ aborted[t]

\* A single worker polls one task at a time.
OneBusy == \A t, u \in Busy : t = u

PairInv == TypeOK /\ LimitInv /\ PollInv
TaskInv == PairInv /\ DoneInv /\ OneBusy /\ CompletionBeforeJoin
-----------------------------------------------------------------------------
\* Nothing is registered, polled or seen.
LEMMA PairInvInit == Init => TypeOK /\ LimitInv /\ PollInv
<1> SUFFICES ASSUME Init PROVE TypeOK /\ LimitInv /\ PollInv
  OBVIOUS
<1>1. Registered = {}
  BY DEF Init, Registered, Task
<1>2. LimitInv
  BY <1>1, FS_EmptySet, LimitsNat DEF LimitInv
<1>3. TypeOK
  <2>1. pc \in [Task -> PC] /\ outcome \in [Task -> {"pending", "ready", "panicked"}]
    BY DEF Init, PC
  <2>2. woken \in [Task -> BOOLEAN] /\ fin \in [Task -> BOOLEAN] /\ aborted \in [Task -> BOOLEAN]
    BY DEF Init
  <2>3. cap \in [Task -> BOOLEAN] /\ open \in [Task -> BOOLEAN] /\ doneSeen \in [Task -> BOOLEAN]
    BY DEF Init
  <2>4. started \in BOOLEAN /\ hook \in BOOLEAN
    BY Zenon DEF Init
  <2>5. toggles \in 0..MaxToggles
    BY LimitsNat DEF Init
  <2>6. /\ waker \in [Task -> Task \cup {None}] /\ joining \in [Task -> Task \cup {None}]
        /\ handle \in [Task -> Handle] /\ joinSeen \in [Task -> Handle]
    BY DEF Init, Handle
  <2> QED BY <1>2, <2>1, <2>2, <2>3, <2>4, <2>5, <2>6 DEF TypeOK, LimitInv, Registered
<1>4. PollInv
  BY DEF Init, PollInv
<1> QED BY <1>2, <1>3, <1>4

\* Nobody is busy or finished at first.
LEMMA TaskInvInit == Init => TaskInv
<1> SUFFICES ASSUME Init PROVE TaskInv
  OBVIOUS
<1>1. DoneInv /\ OneBusy /\ CompletionBeforeJoin
  BY DEF Init, DoneInv, Busy, OneBusy, CompletionBeforeJoin
<1> QED BY <1>1, PairInvInit DEF TaskInv, PairInv

\* The limit is kept by a step that leaves the registered tasks alone.
LEMMA SameRegistered ==
  ASSUME LimitInv, Registered' = Registered
  PROVE  LimitInv'
  BY DEF LimitInv

\* TaskSet::spawn: one more task, below the limit.
LEMMA RegisterStep ==
  ASSUME PairInv, NEW t \in SetTask, Register(t)
  PROVE  PairInv'
<1> USE DEF PairInv
<1>1. t \notin Registered /\ Registered' = Registered \cup {t}
  BY DEF Register, Registered, TypeOK, Task
<1>2. Cardinality(Registered) < MaxModelTasks /\ Cardinality(Registered) \in Nat
  BY FS_CardinalityType DEF Register, Registered, LimitInv
<1>3. IsFiniteSet(Registered') /\ Cardinality(Registered') = Cardinality(Registered) + 1
  BY <1>1, FS_AddElement DEF LimitInv
<1>4. LimitInv'
  BY <1>2, <1>3, LimitsNat DEF LimitInv
<1>5. TypeOK'
  BY <1>4 DEF Register, hookVars, seen, TypeOK, PC, Task, LimitInv, Registered
<1>6. PollInv'
  BY DEF Register, seen, PollInv, TypeOK, Task
<1> QED BY <1>4, <1>5, <1>6

\* ... which is not being polled.
LEMMA RegisterAlone ==
  ASSUME TaskInv, NEW t \in SetTask, Register(t)
  PROVE  DoneInv' /\ OneBusy' /\ CompletionBeforeJoin'
<1> USE DEF TaskInv, PairInv
<1>1. DoneInv'
  BY DEF Register, hookVars, seen, TypeOK, Task, DoneInv, Busy
<1>2. OneBusy'
  BY DEF Register, TypeOK, Task, OneBusy, Busy
<1>3. CompletionBeforeJoin'
  BY DEF Register, hookVars, seen, CompletionBeforeJoin
<1> QED BY <1>1, <1>2, <1>3

\* The runner takes the set.
LEMMA RunStep ==
  ASSUME PairInv, RunSet
  PROVE  PairInv'
<1> USE TasksDistinct, LimitsNat DEF PairInv
<1>1. LimitInv'
  <2>1. Registered' = Registered
    BY DEF RunSet, taskVars, hookVars, seen, Registered, TypeOK, Task, PC
  <2> QED BY <2>1, SameRegistered
<1>2. TypeOK'
  BY <1>1 DEF RunSet, taskVars, hookVars, seen, TypeOK, PC, Handle, LimitInv, Registered,
     Task
<1>3. PollInv'
  BY DEF RunSet, taskVars, hookVars, seen, PollInv, TypeOK
<1> QED BY <1>1, <1>2, <1>3

\* A poll begins.
LEMMA BeginStep ==
  ASSUME PairInv, NEW t \in Task, BeginPoll(t)
  PROVE  PairInv'
<1> USE TasksDistinct, LimitsNat DEF PairInv
<1>1. LimitInv'
  <2>1. Registered' = Registered
    BY DEF BeginPoll, taskVars, hookVars, seen, Registered, TypeOK, Task, PC
  <2> QED BY <2>1, SameRegistered
<1>2. TypeOK'
  BY <1>1 DEF BeginPoll, taskVars, hookVars, seen, TypeOK, PC, Handle, LimitInv,
     Registered, Task
<1>3. PollInv'
  BY DEF BeginPoll, taskVars, hookVars, seen, PollInv, TypeOK
<1> QED BY <1>1, <1>2, <1>3

\* A task spawns another.
LEMMA SpawnStep ==
  ASSUME PairInv, NEW t \in Task, NEW u \in DynTask, SpawnDynamic(t, u)
  PROVE  PairInv'
<1> USE TasksDistinct, LimitsNat DEF PairInv
<1>1. LimitInv'
  <2>1. Registered' = Registered
    BY DEF SpawnDynamic, taskVars, hookVars, seen, Registered, TypeOK, Task, PC
  <2> QED BY <2>1, SameRegistered
<1>2. TypeOK'
  BY <1>1 DEF SpawnDynamic, taskVars, hookVars, seen, TypeOK, PC, Handle, LimitInv,
     Registered, Task
<1>3. PollInv'
  BY DEF SpawnDynamic, taskVars, hookVars, seen, PollInv, TypeOK
<1> QED BY <1>1, <1>2, <1>3

\* A future returns.
LEMMA ReturnStep ==
  ASSUME PairInv, NEW t \in Task, NEW o \in {"pending", "ready", "panicked"}, Return(t, o)
  PROVE  PairInv'
<1> USE TasksDistinct, LimitsNat DEF PairInv
<1>1. LimitInv'
  <2>1. Registered' = Registered
    BY DEF Return, taskVars, hookVars, seen, Registered, TypeOK, Task, PC
  <2> QED BY <2>1, SameRegistered
<1>2. TypeOK'
  BY <1>1 DEF Return, taskVars, hookVars, seen, TypeOK, PC, Handle, LimitInv, Registered,
     Task
<1>3. PollInv'
  BY DEF Return, taskVars, hookVars, seen, PollInv, TypeOK
<1> QED BY <1>1, <1>2, <1>3

\* A handle is polled.
LEMMA JoinStep ==
  ASSUME PairInv, NEW t \in Task, NEW u \in Task, JoinPoll(t, u)
  PROVE  PairInv'
<1> USE TasksDistinct, LimitsNat DEF PairInv
<1>1. LimitInv'
  <2>1. Registered' = Registered
    BY DEF JoinPoll, taskVars, hookVars, seen, Registered, TypeOK, Task, PC
  <2> QED BY <2>1, SameRegistered
<1>2. TypeOK'
  BY <1>1 DEF JoinPoll, taskVars, hookVars, seen, TypeOK, PC, Handle, LimitInv,
     Registered, Task
<1>3. PollInv'
  BY DEF JoinPoll, taskVars, hookVars, seen, PollInv, TypeOK
<1> QED BY <1>1, <1>2, <1>3

\* An await is given up.
LEMMA AbandonStep ==
  ASSUME PairInv, NEW t \in Task, Abandon(t)
  PROVE  PairInv'
<1> USE TasksDistinct, LimitsNat DEF PairInv
<1>1. LimitInv'
  <2>1. Registered' = Registered
    BY DEF Abandon, taskVars, hookVars, seen, Registered, TypeOK, Task, PC
  <2> QED BY <2>1, SameRegistered
<1>2. TypeOK'
  BY <1>1 DEF Abandon, taskVars, hookVars, seen, TypeOK, PC, Handle, LimitInv, Registered,
     Task
<1>3. PollInv'
  BY DEF Abandon, taskVars, hookVars, seen, PollInv, TypeOK
<1> QED BY <1>1, <1>2, <1>3

\* An abort is requested.
LEMMA AbortStep ==
  ASSUME PairInv, NEW t \in Task, NEW u \in Task, Abort(t, u)
  PROVE  PairInv'
<1> USE TasksDistinct, LimitsNat DEF PairInv
<1>1. LimitInv'
  <2>1. Registered' = Registered
    BY DEF Abort, Live, taskVars, hookVars, seen, Registered, TypeOK, Task, PC
  <2> QED BY <2>1, SameRegistered
<1>2. TypeOK'
  BY <1>1 DEF Abort, Live, taskVars, hookVars, seen, TypeOK, PC, Handle, LimitInv,
     Registered, Task
<1>3. PollInv'
  BY DEF Abort, Live, taskVars, hookVars, seen, PollInv, TypeOK
<1> QED BY <1>1, <1>2, <1>3

\* A poll is over.
LEMMA EndStep ==
  ASSUME PairInv, NEW t \in Task, EndPoll(t)
  PROVE  PairInv'
<1> USE TasksDistinct, LimitsNat DEF PairInv
<1>1. LimitInv'
  <2>1. Registered' = Registered
    BY DEF EndPoll, taskVars, hookVars, seen, Registered, TypeOK, Task, PC
  <2> QED BY <2>1, SameRegistered
<1>2. TypeOK'
  BY <1>1 DEF EndPoll, taskVars, hookVars, seen, TypeOK, PC, Handle, LimitInv, Registered,
     Task
<1>3. PollInv'
  BY DEF EndPoll, taskVars, hookVars, seen, PollInv, TypeOK
<1> QED BY <1>1, <1>2, <1>3

\* The handle is completed.
LEMMA CompleteStep ==
  ASSUME PairInv, NEW t \in Task, Complete(t)
  PROVE  PairInv'
<1> USE TasksDistinct, LimitsNat DEF PairInv
<1>1. LimitInv'
  <2>1. Registered' = Registered
    BY DEF Complete, GotoAndWake, taskVars, hookVars, seen, Registered, TypeOK, Task, PC
  <2> QED BY <2>1, SameRegistered
<1>2. TypeOK'
  <2>1. (pc \in [Task -> PC])' /\ (waker \in [Task -> Task \cup {None}])'
    BY DEF Complete, GotoAndWake, taskVars, hookVars, seen, TypeOK, PC
  <2>2. (woken \in [Task -> BOOLEAN])'
    <3>1. woken' = woken \/ woken' = [u \in Task |-> woken[u] \/ u = waker[t]]
      BY DEF Complete, GotoAndWake, taskVars, hookVars, seen
    <3> QED BY <3>1 DEF TypeOK
  <2>3. (fin \in [Task -> BOOLEAN])' /\ (doneSeen \in [Task -> BOOLEAN])'
    BY DEF Complete, GotoAndWake, taskVars, hookVars, seen, TypeOK
  <2>4. (hook \in BOOLEAN)'
    BY Zenon DEF Complete, GotoAndWake, taskVars, hookVars, seen, TypeOK
  <2>5. (toggles \in 0..MaxToggles)'
    BY DEF Complete, GotoAndWake, taskVars, hookVars, seen, TypeOK
  <2>6. UNCHANGED <<started, outcome, joining, handle, aborted, cap, open, joinSeen>>
    BY DEF Complete, GotoAndWake, taskVars, hookVars, seen
  <2> QED BY <1>1, <2>1, <2>2, <2>3, <2>4, <2>5, <2>6 DEF TypeOK, LimitInv, Registered
<1>3. PollInv'
  BY DEF Complete, GotoAndWake, taskVars, hookVars, seen, PollInv, TypeOK
<1> QED BY <1>1, <1>2, <1>3

\* The completion is reported.
LEMMA ReportStep ==
  ASSUME PairInv, NEW t \in Task, ReportDone(t)
  PROVE  PairInv'
<1> USE TasksDistinct, LimitsNat DEF PairInv
<1>1. LimitInv'
  <2>1. Registered' = Registered
    BY DEF ReportDone, TokioComplete, GotoAndWake, taskVars, hookVars, seen, Registered,
       TypeOK, Task, PC
  <2> QED BY <2>1, SameRegistered
<1>2. TypeOK'
  <2>1. (pc \in [Task -> PC])' /\ (waker \in [Task -> Task \cup {None}])'
    BY DEF ReportDone, TokioComplete, GotoAndWake, taskVars, hookVars, seen, TypeOK, PC
  <2>2. (woken \in [Task -> BOOLEAN])'
    <3>1. woken' = woken \/ woken' = [u \in Task |-> woken[u] \/ u = waker[t]]
      BY DEF ReportDone, TokioComplete, GotoAndWake, taskVars, hookVars, seen
    <3> QED BY <3>1 DEF TypeOK
  <2>3. (fin \in [Task -> BOOLEAN])' /\ (doneSeen \in [Task -> BOOLEAN])'
    BY DEF ReportDone, TokioComplete, GotoAndWake, taskVars, hookVars, seen, TypeOK
  <2>4. (hook \in BOOLEAN)'
    BY Zenon DEF ReportDone, TokioComplete, GotoAndWake, taskVars, hookVars, seen, TypeOK
  <2>5. (toggles \in 0..MaxToggles)'
    BY DEF ReportDone, TokioComplete, GotoAndWake, taskVars, hookVars, seen, TypeOK
  <2>6. UNCHANGED <<started, outcome, joining, handle, aborted, cap, open, joinSeen>>
    BY DEF ReportDone, TokioComplete, GotoAndWake, taskVars, hookVars, seen
  <2> QED BY <1>1, <2>1, <2>2, <2>3, <2>4, <2>5, <2>6 DEF TypeOK, LimitInv, Registered
<1>3. PollInv'
  BY DEF ReportDone, TokioComplete, GotoAndWake, taskVars, hookVars, seen, PollInv, TypeOK
<1> QED BY <1>1, <1>2, <1>3

\* An aborted task is dropped.
LEMMA CancelStep ==
  ASSUME PairInv, NEW t \in Task, Cancel(t)
  PROVE  PairInv'
<1> USE TasksDistinct, LimitsNat DEF PairInv
<1>1. LimitInv'
  <2>1. Registered' = Registered
    BY DEF Cancel, GotoAndWake, taskVars, hookVars, seen, Registered, TypeOK, Task, PC
  <2> QED BY <2>1, SameRegistered
<1>2. TypeOK'
  BY <1>1 DEF Cancel, GotoAndWake, taskVars, hookVars, seen, TypeOK, PC, Handle, LimitInv,
     Registered, Task
<1>3. PollInv'
  BY DEF Cancel, GotoAndWake, taskVars, hookVars, seen, PollInv, TypeOK
<1> QED BY <1>1, <1>2, <1>3

\* The hook is installed.
LEMMA InstallStep ==
  ASSUME PairInv, InstallHook
  PROVE  PairInv'
<1> USE TasksDistinct, LimitsNat DEF PairInv
<1>1. LimitInv'
  <2>1. Registered' = Registered
    BY DEF InstallHook, taskVars, hookVars, seen, Registered, TypeOK, Task, PC
  <2> QED BY <2>1, SameRegistered
<1>2. TypeOK'
  BY <1>1 DEF InstallHook, taskVars, hookVars, seen, TypeOK, PC, Handle, LimitInv,
     Registered, Task
<1>3. PollInv'
  BY DEF InstallHook, taskVars, hookVars, seen, PollInv, TypeOK
<1> QED BY <1>1, <1>2, <1>3

\* The hook is removed.
LEMMA ClearStep ==
  ASSUME PairInv, ClearHook
  PROVE  PairInv'
<1> USE TasksDistinct, LimitsNat DEF PairInv
<1>1. LimitInv'
  <2>1. Registered' = Registered
    BY DEF ClearHook, taskVars, hookVars, seen, Registered, TypeOK, Task, PC
  <2> QED BY <2>1, SameRegistered
<1>2. TypeOK'
  <2>1. (hook \in BOOLEAN)'
    BY Zenon DEF ClearHook
  <2>2. (toggles \in 0..MaxToggles)'
    BY DEF ClearHook, TypeOK
  <2> QED BY <1>1, <2>1, <2>2 DEF ClearHook, taskVars, seen, TypeOK, LimitInv, Registered
<1>3. PollInv'
  BY DEF ClearHook, taskVars, hookVars, seen, PollInv, TypeOK
<1> QED BY <1>1, <1>2, <1>3

\* The runner takes the set, with one worker.
LEMMA RunAlone ==
  ASSUME TaskInv, RunSet
  PROVE  DoneInv' /\ OneBusy' /\ CompletionBeforeJoin'
<1> USE TasksDistinct, LimitsNat DEF TaskInv, PairInv
<1>1. DoneInv'
  BY DEF RunSet, taskVars, hookVars, seen, DoneInv, Busy, TypeOK, Task
<1>2. OneBusy'
  BY DEF RunSet, taskVars, hookVars, seen, OneBusy, Busy, TypeOK
<1>3. CompletionBeforeJoin'
  BY DEF RunSet, taskVars, hookVars, seen, CompletionBeforeJoin, DoneInv, OneBusy, Busy,
     TypeOK
<1> QED BY <1>1, <1>2, <1>3

\* A poll begins, with one worker.
LEMMA BeginAlone ==
  ASSUME Workers = 1, TaskInv, NEW t \in Task, BeginPoll(t)
  PROVE  DoneInv' /\ OneBusy' /\ CompletionBeforeJoin'
<1> USE TasksDistinct, LimitsNat DEF TaskInv, PairInv
<1>1. DoneInv'
  BY DEF BeginPoll, taskVars, hookVars, seen, DoneInv, Busy, TypeOK, Task
<1>2. OneBusy'
  <2>1. Busy = {}
    <3>1. Cardinality(Busy) < 1
      BY DEF BeginPoll
    <3>2. ASSUME NEW u \in Busy PROVE FALSE
      <4>1. Busy = {u}
        BY DEF OneBusy
      <4> QED BY <3>1, <4>1, FS_Singleton
    <3> QED BY <3>2
  <2> QED BY <2>1 DEF BeginPoll, OneBusy, Busy, TypeOK
<1>3. CompletionBeforeJoin'
  BY DEF BeginPoll, taskVars, hookVars, seen, CompletionBeforeJoin, DoneInv, OneBusy,
     Busy, TypeOK
<1> QED BY <1>1, <1>2, <1>3

\* A task spawns another, with one worker.
LEMMA SpawnAlone ==
  ASSUME TaskInv, NEW t \in Task, NEW u \in DynTask, SpawnDynamic(t, u)
  PROVE  DoneInv' /\ OneBusy' /\ CompletionBeforeJoin'
<1> USE TasksDistinct, LimitsNat DEF TaskInv, PairInv
<1>1. DoneInv'
  BY DEF SpawnDynamic, taskVars, hookVars, seen, DoneInv, Busy, TypeOK, Task
<1>2. OneBusy'
  BY DEF SpawnDynamic, taskVars, hookVars, seen, OneBusy, Busy, TypeOK
<1>3. CompletionBeforeJoin'
  BY DEF SpawnDynamic, taskVars, hookVars, seen, CompletionBeforeJoin, DoneInv, OneBusy,
     Busy, TypeOK
<1> QED BY <1>1, <1>2, <1>3

\* A future returns, with one worker.
LEMMA ReturnAlone ==
  ASSUME TaskInv, NEW t \in Task, NEW o \in {"pending", "ready", "panicked"}, Return(t, o)
  PROVE  DoneInv' /\ OneBusy' /\ CompletionBeforeJoin'
<1> USE TasksDistinct, LimitsNat DEF TaskInv, PairInv
<1>1. DoneInv'
  BY DEF Return, taskVars, hookVars, seen, DoneInv, Busy, TypeOK, Task
<1>2. OneBusy'
  BY DEF Return, taskVars, hookVars, seen, OneBusy, Busy, TypeOK
<1>3. CompletionBeforeJoin'
  BY DEF Return, taskVars, hookVars, seen, CompletionBeforeJoin, DoneInv, OneBusy, Busy,
     TypeOK
<1> QED BY <1>1, <1>2, <1>3

\* A handle is polled, with one worker.
LEMMA JoinAlone ==
  ASSUME TaskInv, NEW t \in Task, NEW u \in Task, JoinPoll(t, u)
  PROVE  DoneInv' /\ OneBusy' /\ CompletionBeforeJoin'
<1> USE TasksDistinct, LimitsNat DEF TaskInv, PairInv
<1>1. DoneInv'
  BY DEF JoinPoll, taskVars, hookVars, seen, DoneInv, Busy, TypeOK, Task
<1>2. OneBusy'
  BY DEF JoinPoll, taskVars, hookVars, seen, OneBusy, Busy, TypeOK
<1>3. CompletionBeforeJoin'
  BY DEF JoinPoll, taskVars, hookVars, seen, CompletionBeforeJoin, DoneInv, OneBusy, Busy,
     TypeOK
<1> QED BY <1>1, <1>2, <1>3

\* An await is given up, with one worker.
LEMMA AbandonAlone ==
  ASSUME TaskInv, NEW t \in Task, Abandon(t)
  PROVE  DoneInv' /\ OneBusy' /\ CompletionBeforeJoin'
<1> USE TasksDistinct, LimitsNat DEF TaskInv, PairInv
<1>1. DoneInv'
  BY DEF Abandon, taskVars, hookVars, seen, DoneInv, Busy, TypeOK, Task
<1>2. OneBusy'
  BY DEF Abandon, taskVars, hookVars, seen, OneBusy, Busy, TypeOK
<1>3. CompletionBeforeJoin'
  BY DEF Abandon, taskVars, hookVars, seen, CompletionBeforeJoin, DoneInv, OneBusy, Busy,
     TypeOK
<1> QED BY <1>1, <1>2, <1>3

\* An abort is requested, with one worker.
LEMMA AbortAlone ==
  ASSUME TaskInv, NEW t \in Task, NEW u \in Task, Abort(t, u)
  PROVE  DoneInv' /\ OneBusy' /\ CompletionBeforeJoin'
<1> USE TasksDistinct, LimitsNat DEF TaskInv, PairInv
<1>1. DoneInv'
  BY DEF Abort, Live, taskVars, hookVars, seen, DoneInv, Busy, TypeOK, Task
<1>2. OneBusy'
  BY DEF Abort, Live, taskVars, hookVars, seen, OneBusy, Busy, TypeOK
<1>3. CompletionBeforeJoin'
  BY DEF Abort, Live, taskVars, hookVars, seen, CompletionBeforeJoin, DoneInv, OneBusy,
     Busy, TypeOK
<1> QED BY <1>1, <1>2, <1>3

\* A poll is over, with one worker.
LEMMA EndAlone ==
  ASSUME TaskInv, NEW t \in Task, EndPoll(t)
  PROVE  DoneInv' /\ OneBusy' /\ CompletionBeforeJoin'
<1> USE TasksDistinct, LimitsNat DEF TaskInv, PairInv
<1>1. DoneInv'
  BY DEF EndPoll, taskVars, hookVars, seen, DoneInv, Busy, TypeOK, Task
<1>2. OneBusy'
  BY DEF EndPoll, taskVars, hookVars, seen, OneBusy, Busy, TypeOK
<1>3. CompletionBeforeJoin'
  BY DEF EndPoll, taskVars, hookVars, seen, CompletionBeforeJoin, DoneInv, OneBusy, Busy,
     TypeOK
<1> QED BY <1>1, <1>2, <1>3

\* The handle is completed, with one worker.
LEMMA CompleteAlone ==
  ASSUME TaskInv, NEW t \in Task, Complete(t)
  PROVE  DoneInv' /\ OneBusy' /\ CompletionBeforeJoin'
<1> USE TasksDistinct, LimitsNat DEF TaskInv, PairInv
<1>1. DoneInv'
  BY DEF Complete, GotoAndWake, taskVars, hookVars, seen, DoneInv, Busy, TypeOK, Task
<1>2. OneBusy'
  BY DEF Complete, GotoAndWake, taskVars, hookVars, seen, OneBusy, Busy, TypeOK
<1>3. CompletionBeforeJoin'
  BY DEF Complete, GotoAndWake, taskVars, hookVars, seen, CompletionBeforeJoin, DoneInv,
     OneBusy, Busy, TypeOK
<1> QED BY <1>1, <1>2, <1>3

\* The completion is reported, with one worker.
LEMMA ReportAlone ==
  ASSUME TaskInv, NEW t \in Task, ReportDone(t)
  PROVE  DoneInv' /\ OneBusy' /\ CompletionBeforeJoin'
<1> USE TasksDistinct, LimitsNat DEF TaskInv, PairInv
<1>1. DoneInv'
  BY DEF ReportDone, TokioComplete, GotoAndWake, taskVars, hookVars, seen, DoneInv, Busy,
     TypeOK, Task
<1>2. OneBusy'
  BY DEF ReportDone, TokioComplete, GotoAndWake, taskVars, hookVars, seen, OneBusy, Busy,
     TypeOK
<1>3. CompletionBeforeJoin'
  BY DEF ReportDone, TokioComplete, GotoAndWake, taskVars, hookVars, seen,
     CompletionBeforeJoin, DoneInv, OneBusy, Busy, TypeOK
<1> QED BY <1>1, <1>2, <1>3

\* An aborted task is dropped, with one worker.
LEMMA CancelAlone ==
  ASSUME TaskInv, NEW t \in Task, Cancel(t)
  PROVE  DoneInv' /\ OneBusy' /\ CompletionBeforeJoin'
<1> USE TasksDistinct, LimitsNat DEF TaskInv, PairInv
<1>1. DoneInv'
  BY DEF Cancel, GotoAndWake, taskVars, hookVars, seen, DoneInv, Busy, TypeOK, Task
<1>2. OneBusy'
  BY DEF Cancel, GotoAndWake, taskVars, hookVars, seen, OneBusy, Busy, TypeOK
<1>3. CompletionBeforeJoin'
  BY DEF Cancel, GotoAndWake, taskVars, hookVars, seen, CompletionBeforeJoin, DoneInv,
     OneBusy, Busy, TypeOK
<1> QED BY <1>1, <1>2, <1>3

\* The hook is installed, with one worker.
LEMMA InstallAlone ==
  ASSUME TaskInv, InstallHook
  PROVE  DoneInv' /\ OneBusy' /\ CompletionBeforeJoin'
<1> USE TasksDistinct, LimitsNat DEF TaskInv, PairInv
<1>1. DoneInv'
  BY DEF InstallHook, taskVars, hookVars, seen, DoneInv, Busy, TypeOK, Task
<1>2. OneBusy'
  BY DEF InstallHook, taskVars, hookVars, seen, OneBusy, Busy, TypeOK
<1>3. CompletionBeforeJoin'
  BY DEF InstallHook, taskVars, hookVars, seen, CompletionBeforeJoin, DoneInv, OneBusy,
     Busy, TypeOK
<1> QED BY <1>1, <1>2, <1>3

\* The hook is removed, with one worker.
LEMMA ClearAlone ==
  ASSUME TaskInv, ClearHook
  PROVE  DoneInv' /\ OneBusy' /\ CompletionBeforeJoin'
<1> USE TasksDistinct, LimitsNat DEF TaskInv, PairInv
<1>1. DoneInv'
  BY DEF ClearHook, taskVars, hookVars, seen, DoneInv, Busy, TypeOK, Task
<1>2. OneBusy'
  BY DEF ClearHook, taskVars, hookVars, seen, OneBusy, Busy, TypeOK
<1>3. CompletionBeforeJoin'
  BY DEF ClearHook, taskVars, hookVars, seen, CompletionBeforeJoin, DoneInv, OneBusy,
     Busy, TypeOK
<1> QED BY <1>1, <1>2, <1>3

\* Every step keeps polls paired.
LEMMA PairInvStep == PairInv /\ [Next]_vars => PairInv'
<1> SUFFICES ASSUME PairInv, [Next]_vars PROVE PairInv'
  OBVIOUS
<1>1. CASE UNCHANGED vars
  BY <1>1 DEF vars, taskVars, hookVars, seen, PairInv, TypeOK, LimitInv, Registered, PollInv
<1>2. CASE Next
  BY <1>2, RegisterStep, RunStep, BeginStep, SpawnStep, ReturnStep, JoinStep, AbandonStep,
     AbortStep, EndStep,
     CompleteStep, ReportStep, CancelStep, InstallStep, ClearStep DEF Next
<1> QED BY <1>1, <1>2

\* Every step of a single worker keeps the whole invariant.
LEMMA TaskInvStep ==
  ASSUME Workers = 1
  PROVE  TaskInv /\ [Next]_vars => TaskInv'
<1> SUFFICES ASSUME TaskInv, [Next]_vars PROVE TaskInv'
  OBVIOUS
<1>1. PairInv'
  BY PairInvStep DEF TaskInv
<1>2. CASE UNCHANGED vars
  BY <1>1, <1>2 DEF vars, taskVars, hookVars, seen, TaskInv, DoneInv, Busy, OneBusy,
                    CompletionBeforeJoin
<1>3. CASE Next
  <2>1. DoneInv' /\ OneBusy' /\ CompletionBeforeJoin'
    BY <1>3, RegisterAlone, RunAlone, BeginAlone, SpawnAlone, ReturnAlone, JoinAlone,
       AbandonAlone, AbortAlone,
     EndAlone, CompleteAlone, ReportAlone, CancelAlone, InstallAlone, ClearAlone DEF Next
  <2> QED BY <1>1, <2>1 DEF TaskInv
<1> QED BY <1>2, <1>3

-----------------------------------------------------------------------------
\* For any number of workers and any exchange of the observer, a poll_started
\* is followed by the poll_completed of that poll before the task is polled
\* again (task_set.rs ObservedTask::poll).
THEOREM PollsArePaired == Spec => [](TypeOK /\ PollsPaired)
<1>1. Spec => []PairInv
  BY PairInvInit, PairInvStep, PTL DEF Spec, PairInv
<1>2. PairInv => TypeOK /\ PollsPaired
  BY DEF PairInv, PollInv, PollsPaired
<1> QED BY <1>1, <1>2, PTL

\* Under the one worker of run_task_set_native, for any tasks: a join is seen
\* to resolve after the joined task was seen to complete, or was aborted
\* (task_set.rs TaskCompletion::complete, spawn.rs).
THEOREM ObservationIsSound ==
  ASSUME Workers = 1
  PROVE  Spec => []ObservationSound
<1>1. Spec => []TaskInv
  BY TaskInvInit, TaskInvStep, PTL DEF Spec
<1>2. TaskInv => ObservationSound
  BY DEF TaskInv, PairInv, PollInv, PollsPaired, ObservationSound
<1> QED BY <1>1, <1>2, PTL
=============================================================================
