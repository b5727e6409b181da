----------------------------- MODULE ProbeProofs -----------------------------
(***************************************************************************)
(* Proofs about the parts around the seams: the way of an event out of     *)
(* emit, the probe's hooks, generated tests, tracked structs, and the      *)
(* order, contexts and tenants of laplace-interfaces.                      *)
(***************************************************************************)
EXTENDS EmitPath, ProbeHooks, VerifyHarness, TrackedDerive, SimClock, Tenancy,
        SequenceTheorems, FiniteSetTheorems, TLAPS

-----------------------------------------------------------------------------
(* The way of an event: EmitPath. *)

\* The numbers of s go up.
Increasing(s) == \A i, j \in 1..Len(s) : i < j => s[i] < s[j]

\* Whatever is in s was numbered before whatever is in q.
Precedes(s, q) == \A i \in 1..Len(s), j \in 1..Len(q) : s[i] < q[j]

\* What the edge has, the batch and the queue are one rising line of numbers.
LineUp ==
  /\ Increasing(edge) /\ Increasing(batch) /\ Increasing(outbox)
  /\ Precedes(edge, batch) /\ Precedes(edge, outbox) /\ Precedes(batch, outbox)
  /\ \A i \in 1..Len(edge) : edge[i] <= numbered
  /\ \A i \in 1..Len(batch) : batch[i] <= numbered
  /\ \A i \in 1..Len(outbox) : outbox[i] <= numbered

\* An attempt comes before what is still in the batch and in the queue.
Once ==
  /\ Numbers(edge) \subseteq tried
  /\ \A n \in tried : /\ n <= numbered
                      /\ \A i \in 1..Len(batch) : n < batch[i]
                      /\ \A i \in 1..Len(outbox) : n < outbox[i]

UploadInv == EmitTypeOK /\ LineUp /\ Once

\* The sinks of a thread and the harness keep their types.
LEMMA SinkTypes ==
  ASSUME EmitTypeOK, UNCHANGED cloud,
         \/ \E t \in Emitting : EmitEvent(t) \/ SetProbeSender(t) \/ SetGlobalSender(t)
                                \/ SendLocal(t) \/ LockGlobal(t) \/ SendGlobal(t)
                                \/ SendSession(t) \/ EndThread(t)
         \/ HarnessStep
  PROVE  EmitTypeOK'
<1> USE EmitBounds, EmitIds DEF EmitTypeOK, MGoto, sinks, cloud
<1>1. ASSUME NEW t \in Emitting, EmitEvent(t) PROVE EmitTypeOK'
  BY <1>1 DEF EmitEvent
<1>2. ASSUME NEW t \in Emitting, SetProbeSender(t) PROVE EmitTypeOK'
  BY <1>2 DEF SetProbeSender
<1>3. ASSUME NEW t \in Emitting, SetGlobalSender(t) PROVE EmitTypeOK'
  BY <1>3 DEF SetGlobalSender
<1>4. ASSUME NEW t \in Emitting, SendLocal(t) PROVE EmitTypeOK'
  BY <1>4 DEF SendLocal, SendLegacy
<1>5. ASSUME NEW t \in Emitting, LockGlobal(t) PROVE EmitTypeOK'
  BY <1>5 DEF LockGlobal
<1>6. ASSUME NEW t \in Emitting, SendGlobal(t) PROVE EmitTypeOK'
  BY <1>6 DEF SendGlobal, SendLegacy
<1>7. ASSUME NEW t \in Emitting, SendSession(t) PROVE EmitTypeOK'
  BY <1>7 DEF SendSession
<1>8. ASSUME NEW t \in Emitting, EndThread(t) PROVE EmitTypeOK'
  BY <1>8 DEF EndThread
<1>9. ASSUME JoinWorkers PROVE EmitTypeOK'
  BY <1>9 DEF JoinWorkers
<1>10. ASSUME ClearProbeSender PROVE EmitTypeOK'
  BY <1>10 DEF ClearProbeSender
<1>11. ASSUME CollectLegacy PROVE EmitTypeOK'
  BY <1>11 DEF CollectLegacy
<1> QED BY <1>1, <1>2, <1>3, <1>4, <1>5, <1>6, <1>7, <1>8, <1>9, <1>10, <1>11 DEF HarnessStep

\* A number that is queued is higher than all before it.
LEMMA EmitCloudUpload ==
  ASSUME UploadInv, NEW t \in Emitting, EmitCloud(t)
  PROVE  UploadInv'
<1> USE DEF UploadInv
<1>1. /\ UNCHANGED <<sinks, emitted, batch, loop, edge, tried>>
      /\ mpc' \in [Emitting -> {"starting", "setting", "idle", "local", "locking", "global",
                                "session", "cloud", "ended"}]
  BY DEF EmitCloud, MGoto, EmitTypeOK
<1>2. outbox \in Seq(Nat) /\ Len(outbox) \in Nat /\ numbered \in Nat
  BY DEF EmitTypeOK
<1>3. CASE outbox' = outbox
  <2>1. numbered' \in Nat /\ numbered' >= numbered
    BY <1>2 DEF EmitCloud
  <2>2. EmitTypeOK'
    BY <1>1, <1>3, <2>1 DEF EmitTypeOK, sinks
  <2>3. \A s \in Seq(Nat) : \A i \in 1..Len(s) : s[i] <= numbered => s[i] <= numbered'
    BY <1>2, <2>1, ElementOfSeq
  <2>4. edge \in Seq(Nat) /\ batch \in Seq(Nat)
    BY DEF EmitTypeOK
  <2>5. tried \subseteq Nat /\ \A n \in tried : n <= numbered => n <= numbered'
    BY <1>2, <2>1 DEF EmitTypeOK
  <2>6. LineUp'
    BY <1>1, <1>2, <1>3, <2>3, <2>4 DEF LineUp
  <2>7. Once'
    BY <1>1, <1>3, <2>5 DEF Once
  <2> QED BY <2>2, <2>6, <2>7
<1>4. CASE outbox' # outbox
  <2>1. /\ numbered' = numbered + 1 /\ outbox' = Append(outbox, numbered + 1)
        /\ Len(outbox) < QueueCap
    BY <1>4 DEF EmitCloud
  <2>2. /\ outbox' \in Seq(Nat) /\ Len(outbox') = Len(outbox) + 1
        /\ \A i \in 1..Len(outbox) : outbox'[i] = outbox[i]
        /\ outbox'[Len(outbox) + 1] = numbered + 1
    BY <1>2, <2>1
  <2>3. EmitTypeOK'
    BY <1>1, <1>2, <2>1, <2>2, EmitBounds DEF EmitTypeOK, sinks
  <2>4. \A i \in 1..Len(outbox') : i \in 1..Len(outbox) \/ i = Len(outbox) + 1
    BY <1>2, <2>2
  <2>5. /\ \A i \in 1..Len(edge) : edge[i] \in Nat /\ edge[i] <= numbered
        /\ \A i \in 1..Len(batch) : batch[i] \in Nat /\ batch[i] <= numbered
        /\ \A i \in 1..Len(outbox) : outbox[i] \in Nat /\ outbox[i] <= numbered
    BY ElementOfSeq DEF EmitTypeOK, LineUp
  <2>6. Increasing(outbox')
    <3>1. Increasing(outbox)
      BY DEF LineUp
    <3> SUFFICES ASSUME NEW i \in 1..Len(outbox'), NEW j \in 1..Len(outbox'), i < j
                 PROVE  outbox'[i] < outbox'[j]
      BY DEF Increasing
    <3>2. i \in 1..Len(outbox) /\ outbox'[i] = outbox[i]
      BY <1>2, <2>2, SMTT(60)
    <3>3. CASE j \in 1..Len(outbox)
      BY <3>1, <3>2, <3>3, <2>2 DEF Increasing
    <3>4. CASE j = Len(outbox) + 1
      BY <1>2, <3>2, <3>4, <2>2, <2>5
    <3> QED BY <2>4, <3>3, <3>4
  <2>7. Precedes(edge, outbox') /\ Precedes(batch, outbox')
    <3>1. Precedes(edge, outbox) /\ Precedes(batch, outbox)
      BY DEF LineUp
    <3>2. \A k \in Nat : k <= numbered => k < numbered + 1
      BY <1>2
    <3>3. ASSUME NEW j \in 1..Len(outbox') 
          PROVE  /\ \A i \in 1..Len(edge) : edge[i] < outbox'[j]
                 /\ \A i \in 1..Len(batch) : batch[i] < outbox'[j]
      <4>1. CASE j \in 1..Len(outbox)
        BY <3>1, <4>1, <2>2 DEF Precedes
      <4>2. CASE j = Len(outbox) + 1
        BY <3>2, <4>2, <2>2, <2>5
      <4> QED BY <2>4, <4>1, <4>2
    <3> QED BY <3>3 DEF Precedes
  <2>8. /\ \A i \in 1..Len(edge) : edge[i] <= numbered'
        /\ \A i \in 1..Len(batch) : batch[i] <= numbered'
        /\ \A i \in 1..Len(outbox') : outbox'[i] <= numbered'
    BY <1>2, <2>1, <2>2, <2>4, <2>5
  <2>9. Once'
    <3>1. tried \subseteq Nat
      BY DEF EmitTypeOK
    <3>2. ASSUME NEW n \in tried
          PROVE  n <= numbered' /\ \A i \in 1..Len(outbox') : n < outbox'[i]
      <4>0. n \in Nat
        BY <3>1
      <4>1. n \in Nat /\ n <= numbered /\ \A i \in 1..Len(outbox) : n < outbox[i]
        BY <4>0, Zenon DEF Once
      <4>2. n <= numbered + 1 /\ n < numbered + 1
        BY <1>2, <4>1
      <4> QED BY <2>1, <2>2, <2>4, <4>1, <4>2
    <3> QED BY <1>1, <3>2 DEF Once
  <2>10. LineUp'
    BY <1>1, <2>6, <2>7, <2>8 DEF LineUp
  <2> QED BY <2>3, <2>9, <2>10
<1> QED BY <1>3, <1>4

\* The head of the queue goes to the end of the batch.
LEMMA CollectUpload == ASSUME UploadInv, Collect PROVE UploadInv'
<1> USE DEF UploadInv
<1>1. /\ UNCHANGED <<sinks, mpc, emitted, numbered, loop, edge, tried>>
      /\ batch' = Append(batch, Head(outbox)) /\ outbox' = Tail(outbox)
      /\ outbox # << >> /\ Len(batch) < MaxBatch
      /\ outbox \in Seq(Nat) /\ batch \in Seq(Nat) /\ edge \in Seq(Nat)
  BY DEF Collect, EmitTypeOK
<1>2. /\ outbox' \in Seq(Nat) /\ Len(outbox') = Len(outbox) - 1 /\ Len(outbox) \in Nat \ {0}
      /\ \A i \in 1..Len(outbox') : outbox'[i] = outbox[i + 1]
  BY <1>1
<1>3. /\ batch' \in Seq(Nat) /\ Len(batch') = Len(batch) + 1 /\ Len(batch) \in Nat
      /\ \A i \in 1..Len(batch) : batch'[i] = batch[i]
      /\ batch'[Len(batch) + 1] = outbox[1]
  BY <1>1
<1>4. EmitTypeOK'
  BY <1>1, <1>2, <1>3, EmitBounds, SMTT(60) DEF EmitTypeOK, sinks
<1>5. /\ 1 \in 1..Len(outbox)
      /\ \A i \in 1..Len(outbox') : i + 1 \in 1..Len(outbox) /\ 1 < i + 1
      /\ \A i \in 1..Len(batch') : i \in 1..Len(batch) \/ i = Len(batch) + 1
  BY <1>2, <1>3
<1>6. Increasing(outbox') /\ Increasing(batch')
  <2>1. Increasing(outbox')
    BY <1>2, <1>5, SMTT(60) DEF LineUp, Increasing
  <2>2. Increasing(batch')
    BY <1>3, <1>5, SMTT(60) DEF LineUp, Increasing, Precedes
  <2> QED BY <2>1, <2>2
<1>7. Precedes(edge, batch') /\ Precedes(edge, outbox')
  BY <1>2, <1>3, <1>5 DEF LineUp, Precedes
<1>8. Precedes(batch', outbox')
  BY <1>2, <1>3, <1>5, ZenonT(60) DEF LineUp, Precedes, Increasing
<1>9. /\ \A i \in 1..Len(batch') : batch'[i] <= numbered
      /\ \A i \in 1..Len(outbox') : outbox'[i] <= numbered
  BY <1>2, <1>3, <1>5 DEF LineUp
<1>10. Once'
  <2>1. ASSUME NEW n \in tried
        PROVE  /\ \A i \in 1..Len(batch') : n < batch'[i]
               /\ \A i \in 1..Len(outbox') : n < outbox'[i]
    <3>1. /\ \A i \in 1..Len(batch) : n < batch[i]
          /\ \A i \in 1..Len(outbox) : n < outbox[i]
      BY Zenon DEF Once
    <3>2. \A i \in 1..Len(batch') : n < batch'[i]
      BY <1>3, <1>5, <3>1, Zenon
    <3>3. \A i \in 1..Len(outbox') : n < outbox'[i]
      BY <1>2, <1>5, <3>1, Zenon
    <3> QED BY <3>2, <3>3
  <2>2. Numbers(edge)' = Numbers(edge)
    BY <1>1 DEF Numbers
  <2>3. Numbers(edge) \subseteq tried /\ \A n \in tried : n <= numbered
    BY Zenon DEF Once
  <2> QED BY <1>1, <2>1, <2>2, <2>3, Zenon DEF Once
<1>11. LineUp'
  BY <1>1, <1>6, <1>7, <1>8, <1>9 DEF LineUp
<1> QED BY <1>4, <1>10, <1>11

\* The batch goes to the edge whole, or is lost; it is empty afterwards.
LEMMA SendBatchUpload == ASSUME UploadInv, SendBatch PROVE UploadInv'
<1> USE DEF UploadInv
<1>1. /\ UNCHANGED <<sinks, mpc, emitted, numbered, outbox>> /\ batch' = << >>
      /\ edge' = edge \/ edge' = edge \o batch
      /\ tried' = tried \cup Numbers(batch) /\ loop' = "collecting"
      /\ outbox \in Seq(Nat) /\ batch \in Seq(Nat) /\ edge \in Seq(Nat)
  BY DEF SendBatch, EmitTypeOK
<1>2. tried' \subseteq Nat /\ edge' \in Seq(Nat)
  <2>1. \A i \in 1..Len(batch) : batch[i] \in Nat
    BY <1>1, ElementOfSeq
  <2>2. Numbers(batch) \subseteq Nat
    BY <2>1 DEF Numbers
  <2>3. edge \o batch \in Seq(Nat)
    BY <1>1, ConcatProperties
  <2> QED BY <1>1, <2>2, <2>3 DEF EmitTypeOK
<1>3. EmitTypeOK'
  BY <1>1, <1>2, EmitBounds DEF EmitTypeOK, sinks
<1>4. Len(batch') = 0 /\ 1..Len(batch') = {}
  BY <1>1
<1>5. Increasing(batch') /\ Precedes(batch', outbox') /\ Precedes(edge', batch')
  BY <1>4 DEF Increasing, Precedes
<1>8. Once'
  <2>1. Numbers(edge') \subseteq tried'
    <3>1. CASE edge' = edge
      BY <1>1, <3>1 DEF Once
    <3>2. CASE edge' = edge \o batch
      <4>1. /\ \A i \in 1..Len(edge) : edge'[i] = edge[i]
            /\ \A i \in 1..Len(edge') : i \notin 1..Len(edge) =>
                 i - Len(edge) \in 1..Len(batch) /\ edge'[i] = batch[i - Len(edge)]
        BY <1>1, <3>2, ConcatProperties, LenProperties
      <4>2. Numbers(edge') \subseteq Numbers(edge) \cup Numbers(batch)
        BY <4>1 DEF Numbers
      <4>3. Numbers(edge) \subseteq tried
        BY Zenon DEF Once
      <4> QED BY <1>1, <4>2, <4>3
    <3> QED BY <1>1, <3>1, <3>2
  <2>2. \A n \in Numbers(batch) : n <= numbered /\ \A i \in 1..Len(outbox) : n < outbox[i]
    BY DEF Numbers, LineUp, Precedes
  <2> QED BY <1>1, <1>4, <2>1, <2>2 DEF Once
<1>6. CASE edge' = edge
  <2>1. LineUp'
    BY <1>1, <1>4, <1>5, <1>6 DEF LineUp
  <2> QED BY <1>3, <1>8, <2>1
<1>7. CASE edge' = edge \o batch
  <2>1. /\ Len(edge') = Len(edge) + Len(batch) /\ Len(edge) \in Nat /\ Len(batch) \in Nat
        /\ \A i \in 1..Len(edge) : edge'[i] = edge[i]
        /\ \A i \in 1..Len(edge') : i \notin 1..Len(edge) =>
             i - Len(edge) \in 1..Len(batch) /\ edge'[i] = batch[i - Len(edge)]
    BY <1>1, <1>7, ConcatProperties, LenProperties
  <2>2. Increasing(edge')
    BY <2>1, SMTT(60) DEF LineUp, Increasing, Precedes
  <2>3. Precedes(edge', outbox')
    BY <1>1, <2>1 DEF LineUp, Precedes
  <2>4. \A i \in 1..Len(edge') : edge'[i] <= numbered'
    BY <1>1, <2>1 DEF LineUp
  <2>5. LineUp'
    BY <1>1, <1>4, <1>5, <2>2, <2>3, <2>4 DEF LineUp
  <2> QED BY <1>3, <1>8, <2>5
<1> QED BY <1>1, <1>6, <1>7

\* Every step keeps the line.
LEMMA UploadStep == UploadInv /\ [EmitNext]_emitVars => UploadInv'
<1> SUFFICES ASSUME UploadInv, [EmitNext]_emitVars PROVE UploadInv'
  OBVIOUS
<1>1. ASSUME UNCHANGED cloud, EmitTypeOK' PROVE UploadInv'
  BY <1>1 DEF UploadInv, LineUp, Once, Numbers, cloud
<1>2. ASSUME NEW t \in Emitting, EmitEvent(t) \/ ThreadStep(t), ~EmitCloud(t) PROVE UploadInv'
  <2>1. UNCHANGED cloud
    BY <1>2 DEF ThreadStep, EmitEvent, SetProbeSender, SetGlobalSender, SendLocal, LockGlobal,
       SendGlobal, SendSession, EndThread
  <2> QED BY <1>1, <1>2, <2>1, SinkTypes DEF ThreadStep, UploadInv
<1>3. ASSUME HarnessStep PROVE UploadInv'
  <2>1. UNCHANGED cloud
    BY <1>3 DEF HarnessStep, JoinWorkers, ClearProbeSender, CollectLegacy
  <2> QED BY <1>1, <1>3, <2>1, SinkTypes DEF UploadInv
<1>4. CASE Flush
  BY <1>4 DEF Flush, UploadInv, LineUp, Once, EmitTypeOK, sinks
<1>5. CASE UNCHANGED emitVars
  BY <1>5 DEF emitVars, cloud, sinks, UploadInv, LineUp, Once, EmitTypeOK
<1> QED BY <1>2, <1>3, <1>4, <1>5, EmitCloudUpload, CollectUpload, SendBatchUpload DEF EmitNext

\* The edge gets an event at most once and in the order of queueing, and nothing
\* is tried twice, for any number of threads, queue and batch size, whatever
\* uploads fail (session.rs emit, client.rs ProbeClient::emit, sender_loop,
\* send_batch).
THEOREM UploadsAreOrdered == EmitSpec => []UploadedOnceInOrder
<1>1. EmitInit => UploadInv
  <2> SUFFICES ASSUME EmitInit PROVE UploadInv
    OBVIOUS
  <2>1. EmitTypeOK
    <3>1. << >> \in Seq(Nat) /\ Len(<< >>) = 0
      OBVIOUS
    <3>2. /\ harness \in Harnesses /\ mainTx \in BOOLEAN /\ globalSet \in BOOLEAN
          /\ stage \in {"joining", "clearing", "collecting", "over"}
          /\ localSet \in [Emitting -> BOOLEAN]
          /\ globalLock \in Emitting \cup {Free}
          /\ loop \in {"collecting", "sending"} /\ tried \subseteq Nat
      BY DEF EmitInit
    <3>3. /\ mpc \in [Emitting -> {"starting", "setting", "idle", "local", "locking", "global",
                                   "session", "cloud", "ended"}]
          /\ emitted \in [Emitting -> 0..EmitsEach]
          /\ legacyBuf \in 0..LegacyCap /\ numbered \in Nat
      BY EmitBounds DEF EmitInit
    <3>4. /\ outbox \in Seq(Nat) /\ Len(outbox) <= QueueCap
          /\ batch \in Seq(Nat) /\ Len(batch) <= MaxBatch /\ edge \in Seq(Nat)
      BY <3>1, EmitBounds DEF EmitInit
    <3> QED BY <3>2, <3>3, <3>4 DEF EmitTypeOK
  <2>2. LineUp
    BY DEF EmitInit, LineUp, Increasing, Precedes
  <2>3. Once
    BY DEF EmitInit, Once, Numbers
  <2> QED BY <2>1, <2>2, <2>3 DEF UploadInv
<1>2. UploadInv => UploadedOnceInOrder
  <2> SUFFICES ASSUME UploadInv PROVE UploadedOnceInOrder
    OBVIOUS
  <2>1. tried \subseteq Nat /\ batch \in Seq(Nat) /\ outbox \in Seq(Nat)
    BY DEF UploadInv, EmitTypeOK
  <2>2. \A m, n \in Nat : m < n => m # n
    OBVIOUS
  <2>3. Once
    BY DEF UploadInv
  <2>4. /\ \A i \in 1..Len(batch) : batch[i] \in Nat
        /\ \A i \in 1..Len(outbox) : outbox[i] \in Nat
    BY <2>1, ElementOfSeq
  <2>5. tried \cap Numbers(batch) = {} /\ tried \cap Numbers(outbox) = {}
    <3>1. ASSUME NEW n \in tried PROVE n \notin Numbers(batch) /\ n \notin Numbers(outbox)
      <4>1. n \in Nat
        BY <2>1
      <4>2. /\ \A i \in 1..Len(batch) : n < batch[i]
            /\ \A i \in 1..Len(outbox) : n < outbox[i]
        BY <2>3, Zenon DEF Once
      <4>3. /\ \A i \in 1..Len(batch) : n # batch[i]
            /\ \A i \in 1..Len(outbox) : n # outbox[i]
        BY <2>2, <2>4, <4>1, <4>2
      <4> QED BY <4>3 DEF Numbers
    <3> QED BY <3>1
  <2> QED BY <2>5 DEF UploadInv, LineUp, Increasing, Once, UploadedOnceInOrder
<1> QED BY <1>1, <1>2, UploadStep, PTL DEF EmitSpec

-----------------------------------------------------------------------------
(* The probe's hooks: ProbeHooks. *)

\* Ids an OS thread may have.
TaskId == Nat \cup {NoTask}

HookTypes ==
  /\ probeThread \in [OsThread -> TaskId] /\ currentTask \in [OsThread -> TaskId]
  /\ lastPolled \in [OsThread -> TaskId] /\ nextImplicit \in Nat
  /\ poll \in [OsThread -> [task : Nat, observed : BOOLEAN] \cup {NoTask}]
  /\ alive \subseteq Nat /\ registered \in Nat /\ nextDyn \in Nat

\* OS threads that have an id.
Named == {o \in OsThread : probeThread[o] # NoTask}

\* The task id of an OS thread is that of its observed poll; its thread id is
\* that of its last poll, or one of the implicit ones handed out.
IdentityInv ==
  /\ \A o \in OsThread :
       /\ currentTask[o] = Polling(o)
       /\ Polling(o) # NoTask => lastPolled[o] = Polling(o)
       /\ lastPolled[o] # NoTask => probeThread[o] = lastPolled[o]
       /\ lastPolled[o] = NoTask /\ probeThread[o] # NoTask => probeThread[o] < nextImplicit
  /\ nextImplicit <= Cardinality(Named)

HookInv == HookTypes /\ IdentityInv

\* OS threads with an id can be counted, and there are no more than OS threads.
LEMMA NamedIsFinite ==
  ASSUME HookInv
  PROVE  /\ IsFiniteSet(Named) /\ Cardinality(Named) \in Nat /\ Cardinality(OsThread) \in Nat
         /\ Cardinality(Named) <= Cardinality(OsThread)
         /\ \A o \in OsThread \ Named : Cardinality(Named) + 1 = Cardinality(Named \cup {o})
                                        /\ Cardinality(Named) < Cardinality(OsThread)
<1>1. IsFiniteSet(OsThread) /\ Named \subseteq OsThread
  BY HookConstants DEF Named
<1>2. /\ IsFiniteSet(Named) /\ Cardinality(Named) <= Cardinality(OsThread)
      /\ Cardinality(Named) = Cardinality(OsThread) => Named = OsThread
  BY <1>1, FS_Subset
<1>3. Cardinality(Named) \in Nat /\ Cardinality(OsThread) \in Nat
  BY <1>1, <1>2, FS_CardinalityType
<1>4. ASSUME NEW o \in OsThread \ Named
      PROVE  /\ Cardinality(Named) + 1 = Cardinality(Named \cup {o})
             /\ Cardinality(Named) < Cardinality(OsThread)
  <2>1. Cardinality(Named \cup {o}) = Cardinality(Named) + 1
    BY <1>2, FS_AddElement
  <2>2. Named # OsThread
    OBVIOUS
  <2> QED BY <1>2, <1>3, <2>1, <2>2
<1> QED BY <1>2, <1>3, <1>4

\* An id is kept for the OS thread, and what is told carries the right one.
LEMMA KeepIsSound ==
  ASSUME HookInv, NEW o \in OsThread, NEW v, v \notin TaskEvents,
         Told(o, v, ThreadId(o)), KeepThreadId(o), UNCHANGED <<poll, alive, registered, nextDyn>>
  PROVE  HookInv' /\ AttributionSound'
<1>1. ThreadId(o) \in Nat /\ nextImplicit \in Nat
  BY DEF HookInv, HookTypes, TaskId, ThreadId
<1>2. /\ probeThread' = [probeThread EXCEPT ![o] = ThreadId(o)]
      /\ nextImplicit' = IF probeThread[o] = NoTask THEN nextImplicit + 1 ELSE nextImplicit
      /\ UNCHANGED <<currentTask, lastPolled>>
  BY DEF KeepThreadId
<1>3. HookTypes'
  BY <1>1, <1>2 DEF HookInv, HookTypes, TaskId
<1>4. /\ probeThread'[o] = ThreadId(o)
      /\ \A p \in OsThread : p # o => probeThread'[p] = probeThread[p]
      /\ ThreadId(o) # NoTask
  BY <1>1, <1>2, HookConstants DEF HookInv, HookTypes
<1>5. nextImplicit' \in Nat /\ nextImplicit' >= nextImplicit
  BY <1>1, <1>2
<1>6. nextImplicit' <= Cardinality(Named')
  <2>1. CASE probeThread[o] = NoTask
    <3>1. Named' = Named \cup {o} /\ o \in OsThread \ Named
      BY <1>4, <2>1 DEF Named
    <3>2. nextImplicit <= Cardinality(Named)
      BY DEF HookInv, IdentityInv
    <3>3. Cardinality(Named) \in Nat /\ Cardinality(Named \cup {o}) = Cardinality(Named) + 1
      BY <3>1, NamedIsFinite
    <3> QED BY <1>1, <1>2, <2>1, <3>1, <3>2, <3>3
  <2>2. CASE probeThread[o] # NoTask
    <3>1. Named' = Named
      BY <1>4, <2>2 DEF Named
    <3> QED BY <1>2, <2>2, <3>1 DEF HookInv, IdentityInv
  <2> QED BY <2>1, <2>2
<1>7. ASSUME NEW p \in OsThread
      PROVE  /\ currentTask'[p] = Polling(p)'
             /\ Polling(p)' # NoTask => lastPolled'[p] = Polling(p)'
             /\ lastPolled'[p] # NoTask => probeThread'[p] = lastPolled'[p]
             /\ lastPolled'[p] = NoTask /\ probeThread'[p] # NoTask
                  => probeThread'[p] < nextImplicit'
  <2>1. Polling(p)' = Polling(p)
    BY DEF Polling
  <2>2. /\ currentTask[p] = Polling(p)
        /\ Polling(p) # NoTask => lastPolled[p] = Polling(p)
        /\ lastPolled[p] # NoTask => probeThread[p] = lastPolled[p]
        /\ lastPolled[p] = NoTask /\ probeThread[p] # NoTask => probeThread[p] < nextImplicit
    BY DEF HookInv, IdentityInv
  <2>3. lastPolled[p] # NoTask => probeThread'[p] = lastPolled[p]
    BY <1>4, <2>2 DEF ThreadId
  <2>4. lastPolled[p] = NoTask /\ probeThread'[p] # NoTask => probeThread'[p] < nextImplicit'
    <3>1. CASE p = o /\ probeThread[o] = NoTask
      BY <1>1, <1>2, <1>4, <3>1 DEF ThreadId
    <3>2. CASE ~(p = o /\ probeThread[o] = NoTask)
      <4>1. probeThread'[p] = probeThread[p]
        BY <1>4, <3>2 DEF ThreadId
      <4>2. probeThread[p] # NoTask => probeThread[p] \in Nat
        BY DEF HookInv, HookTypes, TaskId
      <4> QED BY <1>1, <1>5, <2>2, <4>1, <4>2
    <3> QED BY <3>1, <3>2
  <2> QED BY <1>2, <2>1, <2>2, <2>3, <2>4
<1>8. AttributionSound'
  <2>1. told' = [variant |-> v, id |-> ThreadId(o), within |-> Polling(o), last |-> lastPolled[o]]
    BY DEF Told
  <2>2. /\ told'.variant = v /\ told'.id = ThreadId(o) /\ told'.within = Polling(o)
        /\ told'.last = lastPolled[o]
    BY <2>1
  <2>3. v # "TaskSpawned" /\ v # "TaskJoinRequested"
    BY DEF TaskEvents
  <2>4. lastPolled[o] # NoTask => ThreadId(o) = lastPolled[o]
    BY DEF HookInv, IdentityInv, ThreadId
  <2>5. Polling(o) # NoTask => ThreadId(o) = Polling(o)
    BY <2>4 DEF HookInv, IdentityInv
  <2>6. lastPolled[o] = NoTask => ThreadId(o) < Cardinality(OsThread)
    <3> SUFFICES ASSUME lastPolled[o] = NoTask PROVE ThreadId(o) < Cardinality(OsThread)
      OBVIOUS
    <3>1. nextImplicit <= Cardinality(Named)
      BY DEF HookInv, IdentityInv
    <3>2. CASE probeThread[o] = NoTask
      <4>1. o \in OsThread \ Named /\ ThreadId(o) = nextImplicit
        BY <3>2 DEF Named, ThreadId
      <4>2. /\ Cardinality(Named) \in Nat /\ Cardinality(OsThread) \in Nat
            /\ Cardinality(Named) < Cardinality(OsThread)
        BY <4>1, NamedIsFinite
      <4> QED BY <1>1, <3>1, <4>1, <4>2
    <3>3. CASE probeThread[o] # NoTask
      <4>1. ThreadId(o) = probeThread[o] /\ probeThread[o] < nextImplicit
        BY <3>3 DEF ThreadId, HookInv, IdentityInv
      <4>2. /\ Cardinality(Named) \in Nat /\ Cardinality(OsThread) \in Nat
            /\ Cardinality(Named) <= Cardinality(OsThread)
        BY NamedIsFinite
      <4> QED BY <1>1, <3>1, <4>1, <4>2
    <3> QED BY <3>2, <3>3
  <2> QED BY <2>2, <2>3, <2>4, <2>5, <2>6 DEF AttributionSound
<1> QED BY <1>3, <1>6, <1>7, <1>8 DEF HookInv, IdentityInv

\* What the task hook tells names the task being polled.
LEMMA ToldByTask ==
  ASSUME NEW o \in OsThread, NEW v \in TaskEvents, NEW id, Told(o, v, id),
         v = "TaskSpawned" => id = Polling(o),
         v = "TaskJoinRequested" => Polling(o) # NoTask /\ id = Polling(o)
  PROVE  AttributionSound'
<1>1. told' = [variant |-> v, id |-> id, within |-> Polling(o), last |-> lastPolled[o]]
  BY DEF Told
<1>2. told'.variant = v /\ told'.id = id /\ told'.within = Polling(o)
  BY <1>1
<1> QED BY <1>2 DEF AttributionSound

\* An observed poll sets all three identities, another one none.
LEMMA PollStartedKeeps ==
  ASSUME HookInv, NEW o \in OsThread, NEW t \in alive, PollStarted(o, t)
  PROVE  HookInv' /\ AttributionSound'
<1> DEFINE observed == "task_observer" \in hooked
           new == [task |-> t, observed |-> observed]
<1>1. /\ poll[o] = NoTask /\ poll' = [poll EXCEPT ![o] = new]
      /\ UNCHANGED <<nextImplicit, registered, alive, nextDyn>> /\ told' = NoTask
  BY DEF PollStarted, Silent
<1>2. t \in Nat /\ observed \in BOOLEAN /\ t # NoTask
  <2>1. t \in Nat /\ t # NoTask
    BY HookConstants DEF HookInv, HookTypes
  <2>2. observed \in BOOLEAN
    OBVIOUS
  <2> QED BY <2>1, <2>2
<1>3. new \in [task : Nat, observed : BOOLEAN] /\ new.task = t /\ new.observed = observed
      /\ new # NoTask
  <2>1. \A b \in BOOLEAN : /\ [task |-> t, observed |-> b] \in [task : Nat, observed : BOOLEAN]
                           /\ [task |-> t, observed |-> b].task = t
                           /\ [task |-> t, observed |-> b].observed = b
    BY <1>2
  <2> QED BY <1>2, <2>1, HookConstants, Zenon
<1> HIDE DEF new
<1>4. /\ poll' \in [OsThread -> [task : Nat, observed : BOOLEAN] \cup {NoTask}]
      /\ poll'[o] = new /\ \A p \in OsThread : p # o => poll'[p] = poll[p]
  BY <1>1, <1>3 DEF HookInv, HookTypes
<1>5. /\ Polling(o)' = IF observed THEN t ELSE NoTask
      /\ \A p \in OsThread : p # o => Polling(p)' = Polling(p)
      /\ Polling(o) = NoTask
  <2>1. \A p \in OsThread : p # o => Polling(p)' = Polling(p)
    BY <1>4 DEF Polling
  <2>2. Polling(o) = NoTask
    BY <1>1 DEF Polling
  <2>3. Polling(o)' = IF poll'[o] # NoTask /\ poll'[o].observed THEN poll'[o].task ELSE NoTask
    BY DEF Polling
  <2> QED BY <1>3, <1>4, <2>1, <2>2, <2>3
<1>6. AttributionSound'
  BY <1>1 DEF AttributionSound
<1>7. CASE observed
  <2>1. /\ currentTask' = [currentTask EXCEPT ![o] = t]
        /\ probeThread' = [probeThread EXCEPT ![o] = t]
        /\ lastPolled' = [lastPolled EXCEPT ![o] = t]
    BY <1>7 DEF PollStarted
  <2>2. HookTypes'
    BY <1>1, <1>2, <1>4, <2>1 DEF HookInv, HookTypes, TaskId
  <2>3. /\ currentTask'[o] = t /\ probeThread'[o] = t /\ lastPolled'[o] = t
        /\ \A p \in OsThread : p # o => /\ currentTask'[p] = currentTask[p]
                                        /\ probeThread'[p] = probeThread[p]
                                        /\ lastPolled'[p] = lastPolled[p]
    BY <2>1 DEF HookInv, HookTypes
  <2>4. nextImplicit' <= Cardinality(Named')
    <3>1. CASE o \in Named
      <4>1. Named' = Named
        BY <1>2, <2>3, <3>1 DEF Named
      <4> QED BY <1>1, <4>1 DEF HookInv, IdentityInv
    <3>2. CASE o \notin Named
      <4>1. Named' = Named \cup {o} /\ o \in OsThread \ Named
        BY <1>2, <2>3, <3>2 DEF Named
      <4>2. Cardinality(Named) \in Nat /\ Cardinality(Named \cup {o}) = Cardinality(Named) + 1
        BY <4>1, NamedIsFinite
      <4>3. nextImplicit \in Nat /\ nextImplicit <= Cardinality(Named)
        BY DEF HookInv, HookTypes, IdentityInv
      <4> QED BY <1>1, <4>1, <4>2, <4>3
    <3> QED BY <3>1, <3>2
  <2>5. IdentityInv'
    BY <1>1, <1>2, <1>5, <1>7, <2>3, <2>4 DEF HookInv, IdentityInv
  <2> QED BY <1>6, <2>2, <2>5 DEF HookInv
<1>8. CASE ~observed
  <2>1. UNCHANGED <<currentTask, probeThread, lastPolled>>
    BY <1>8 DEF PollStarted
  <2>2. HookTypes'
    BY <1>1, <1>4, <2>1 DEF HookInv, HookTypes
  <2>3. IdentityInv'
    BY <1>1, <1>5, <1>8, <2>1 DEF HookInv, IdentityInv, Named
  <2> QED BY <1>6, <2>2, <2>3 DEF HookInv
<1> QED BY <1>7, <1>8

\* The end of a poll clears the task id alone.
LEMMA PollCompletedKeeps ==
  ASSUME HookInv, NEW o \in OsThread, NEW r, PollCompleted(o, r)
  PROVE  HookInv' /\ AttributionSound'
<1>1. /\ poll[o] # NoTask /\ poll' = [poll EXCEPT ![o] = NoTask]
      /\ alive' \subseteq alive
      /\ UNCHANGED <<probeThread, nextImplicit, lastPolled, registered, nextDyn>>
  BY DEF PollCompleted, setVars
<1>2. /\ poll' \in [OsThread -> [task : Nat, observed : BOOLEAN] \cup {NoTask}]
      /\ Polling(o)' = NoTask /\ \A p \in OsThread : p # o => Polling(p)' = Polling(p)
  BY <1>1 DEF HookInv, HookTypes, Polling
<1>3. /\ currentTask' \in [OsThread -> TaskId] /\ currentTask'[o] = NoTask
      /\ \A p \in OsThread : p # o => currentTask'[p] = currentTask[p]
  <2>1. CASE poll[o].observed
    BY <2>1 DEF PollCompleted, HookInv, HookTypes, TaskId
  <2>2. CASE ~poll[o].observed
    <3>1. currentTask' = currentTask /\ currentTask[o] = NoTask
      BY <2>2 DEF PollCompleted, HookInv, IdentityInv, Polling
    <3> QED BY <3>1 DEF HookInv, HookTypes
  <2> QED BY <2>1, <2>2
<1>4. HookInv'
  <2>1. HookTypes'
    BY <1>1, <1>2, <1>3 DEF HookInv, HookTypes
  <2>2. IdentityInv'
    BY <1>1, <1>2, <1>3 DEF HookInv, IdentityInv, Named
  <2> QED BY <2>1, <2>2 DEF HookInv
<1>5. AttributionSound'
  <2>1. CASE ~poll[o].observed
    BY <2>1 DEF PollCompleted, Silent, AttributionSound
  <2>2. CASE poll[o].observed
    <3>1. Told(o, "FuturePending", poll[o].task) \/ Told(o, "TaskCompleted", poll[o].task)
      BY <2>2 DEF PollCompleted
    <3>2. /\ "FuturePending" \in TaskEvents /\ "TaskCompleted" \in TaskEvents
          /\ "FuturePending" # "TaskSpawned" /\ "TaskCompleted" # "TaskSpawned"
          /\ "FuturePending" # "TaskJoinRequested" /\ "TaskCompleted" # "TaskJoinRequested"
      BY DEF TaskEvents
    <3> QED BY <3>1, <3>2, ToldByTask
  <2> QED BY <2>1, <2>2
<1> QED BY <1>4, <1>5

\* Every step keeps the identities and tells the right id.
LEMMA HookStep ==
  HookInv /\ AttributionSound /\ [HooksNext]_hookVars => HookInv' /\ AttributionSound'
<1> SUFFICES ASSUME HookInv, AttributionSound, [HooksNext]_hookVars
             PROVE  HookInv' /\ AttributionSound'
  OBVIOUS
<1>1. ASSUME UNCHANGED threadVars, UNCHANGED poll, alive' \subseteq Nat, registered' \in Nat,
             nextDyn' \in Nat
      PROVE  HookInv'
  BY <1>1 DEF HookInv, HookTypes, IdentityInv, Polling, Named, threadVars
<1>2. Silent => AttributionSound'
  BY DEF Silent, AttributionSound
<1>3. alive \subseteq Nat /\ registered \in Nat /\ nextDyn \in Nat
  BY DEF HookInv, HookTypes
<1>4. \A o \in OsThread : currentTask[o] = Polling(o)
  BY DEF HookInv, IdentityInv
<1>5. "TaskSpawned" \in TaskEvents /\ "TaskJoinRequested" \in TaskEvents
      /\ "TaskSpawned" # "TaskJoinRequested"
  BY DEF TaskEvents
<1>6. ASSUME SetModelSlot \/ SetAsyncSlot \/ SetCellSlot \/ InstallProbeAsyncHooks
      PROVE  HookInv' /\ AttributionSound'
  <2>1. UNCHANGED <<threadVars, hookTaskVars>> /\ Silent
    BY <1>6 DEF SetModelSlot, SetAsyncSlot, SetCellSlot, SetSlot, InstallProbeAsyncHooks
  <2> QED BY <1>1, <1>2, <1>3, <2>1 DEF hookTaskVars, setVars
<1>7. ASSUME NEW o \in OsThread, RegisterTask(o) PROVE HookInv' /\ AttributionSound'
  <2>1. /\ registered' = registered + 1 /\ alive' = alive \cup {registered}
        /\ UNCHANGED <<threadVars, nextDyn, poll>> /\ poll[o] = NoTask
    BY <1>7 DEF RegisterTask
  <2>2. HookInv'
    BY <1>1, <1>3, <2>1
  <2>3. Silent \/ Told(o, "TaskSpawned", NoTask)
    BY <1>7 DEF RegisterTask
  <2>4. Polling(o) = NoTask
    BY <2>1 DEF Polling
  <2>5. Told(o, "TaskSpawned", NoTask) => AttributionSound'
    BY <1>5, <2>4, ToldByTask
  <2> QED BY <1>2, <2>2, <2>3, <2>5
<1>8. ASSUME NEW o \in OsThread, SpawnTask(o) PROVE HookInv' /\ AttributionSound'
  <2>1. /\ nextDyn' = nextDyn + 1 /\ alive' = alive \cup {nextDyn}
        /\ UNCHANGED <<threadVars, setVars, poll>> /\ Told(o, "TaskSpawned", currentTask[o])
    BY <1>8 DEF SpawnTask
  <2>2. HookInv'
    BY <1>1, <1>3, <2>1 DEF setVars
  <2>3. AttributionSound'
    BY <1>4, <1>5, <2>1, ToldByTask
  <2> QED BY <2>2, <2>3
<1>9. ASSUME NEW o \in OsThread, JoinReported(o) PROVE HookInv' /\ AttributionSound'
  <2>1. /\ UNCHANGED <<threadVars, hookTaskVars>> /\ currentTask[o] # NoTask
        /\ Told(o, "TaskJoinRequested", currentTask[o])
    BY <1>9 DEF JoinReported
  <2>2. HookInv'
    BY <1>1, <1>3, <2>1 DEF hookTaskVars, setVars
  <2>3. AttributionSound'
    BY <1>4, <1>5, <2>1, ToldByTask
  <2> QED BY <2>2, <2>3
<1>10. ASSUME NEW o \in OsThread,
              AtomicReport(o) \/ \E s \in AsyncSlots \cup CellSlots : Report(o, s)
       PROVE  HookInv' /\ AttributionSound'
  <2>1. /\ UNCHANGED hookTaskVars /\ KeepThreadId(o)
        /\ Told(o, "Async", ThreadId(o)) \/ Told(o, "Atomic", ThreadId(o))
    BY <1>10 DEF AtomicReport, Report
  <2>2. "Async" \notin TaskEvents /\ "Atomic" \notin TaskEvents
    BY DEF TaskEvents
  <2> QED BY <2>1, <2>2, KeepIsSound DEF hookTaskVars, setVars
<1>11. ASSUME NEW t \in alive, AbortTask(t) PROVE HookInv' /\ AttributionSound'
  <2>1. alive' \subseteq alive /\ UNCHANGED <<threadVars, setVars, nextDyn, poll>> /\ Silent
    BY <1>11 DEF AbortTask
  <2> QED BY <1>1, <1>2, <1>3, <2>1 DEF setVars
<1>12. CASE UNCHANGED hookVars
  <2>1. UNCHANGED <<threadVars, hookTaskVars, told>>
    BY <1>12 DEF hookVars
  <2>2. HookInv'
    BY <1>1, <1>3, <2>1 DEF hookTaskVars, setVars
  <2> QED BY <2>1, <2>2 DEF AttributionSound
<1> QED BY <1>6, <1>7, <1>8, <1>9, <1>10, <1>11, <1>12, PollStartedKeeps, PollCompletedKeeps
        DEF HooksNext

\* A process starts without identities.
LEMMA HookInvInit == HooksInit => HookInv /\ AttributionSound
<1> SUFFICES ASSUME HooksInit PROVE HookInv /\ AttributionSound
  OBVIOUS
<1>1. HookTypes
  BY HookConstants DEF HooksInit, HookTypes, TaskId
<1>2. Named = {}
  BY DEF HooksInit, Named
<1>3. Cardinality(Named) = 0
  BY <1>2, FS_EmptySet
<1>4. IdentityInv
  BY <1>3 DEF HooksInit, IdentityInv, Polling
<1>5. AttributionSound
  BY DEF HooksInit, AttributionSound
<1> QED BY <1>1, <1>4, <1>5 DEF HookInv

\* The arguments a callback carries, by its slot and name.
Signature(slot, fn) ==
  CASE fn = "op_resolved" /\ slot = "channel" -> <<"op", "outcome">>
    [] fn = "op_resolved" /\ slot = "broadcast" -> <<"bop", "boutcome">>
    [] fn = "op_requested" /\ slot = "channel" -> <<"op">>
    [] fn = "op_requested" /\ slot = "broadcast" -> <<"bop">>
    [] fn \in {"requested", "acquired", "released"} -> <<"acquire">>
    [] fn = "channel_created" -> <<"kind">>
    [] fn \in {"endpoint_cloned", "endpoint_dropped"} -> <<"side">>
    [] OTHER -> << >>

\* The callbacks of each slot with their events.
CallbackEvents == {
  <<"async_lock", "requested", "AsyncLockRequested">>,
  <<"async_lock", "acquired", "AsyncLockAcquired">>,
  <<"async_lock", "released", "AsyncLockReleased">>,
  <<"async_lock", "waiter_dropped", "AsyncLockWaiterDropped">>,
  <<"async_lock", "semaphore_created", "AsyncSemaphoreCreated">>,
  <<"async_lock", "permits_added", "AsyncPermitsAdded">>,
  <<"notify", "wait_requested", "AsyncNotifyWaitRequested">>,
  <<"notify", "wait_resolved", "AsyncNotifyWaitResolved">>,
  <<"notify", "notify_one", "AsyncNotifyOne">>,
  <<"notify", "notify_waiters", "AsyncNotifyWaiters">>,
  <<"notify", "waiter_dropped", "AsyncNotifyWaiterDropped">>,
  <<"channel", "channel_created", "AsyncChannelCreated">>,
  <<"channel", "op_requested", "AsyncChannelOpRequested">>,
  <<"channel", "op_resolved", "AsyncChannelOpResolved">>,
  <<"channel", "op_dropped", "AsyncChannelOpDropped">>,
  <<"channel", "endpoint_cloned", "AsyncChannelEndpointCloned">>,
  <<"channel", "endpoint_dropped", "AsyncChannelEndpointDropped">>,
  <<"channel", "channel_closed", "AsyncChannelClosed">>,
  <<"broadcast", "broadcast_created", "AsyncBroadcastCreated">>,
  <<"broadcast", "subscribed", "AsyncBroadcastSubscribed">>,
  <<"broadcast", "op_requested", "AsyncBroadcastOpRequested">>,
  <<"broadcast", "op_resolved", "AsyncBroadcastOpResolved">>,
  <<"broadcast", "op_dropped", "AsyncBroadcastOpDropped">>,
  <<"broadcast", "endpoint_cloned", "AsyncBroadcastEndpointCloned">>,
  <<"broadcast", "endpoint_dropped", "AsyncBroadcastEndpointDropped">>,
  <<"cell", "cell_created", "AsyncCellCreated">>, <<"cell", "cell_load", "AsyncCellLoad">>,
  <<"cell", "cell_store", "AsyncCellStore">>}

EventOf(slot, fn) == ProbeHook[slot][fn]

WordTypes == {"acquire", "kind", "side", "op", "outcome", "bop", "boutcome"}

\* A callback with one of the names and words that fit its signature.
WellFormed(c) ==
  /\ c = [slot |-> c.slot, fn |-> c.fn, words |-> c.words]
  /\ <<c.slot, c.fn, EventOf(c.slot, c.fn)>> \in CallbackEvents
  /\ \/ Signature(c.slot, c.fn) = << >> /\ c.words = << >>
     \/ \E t \in WordTypes : \E w \in RuntimeWords[t] :
          Signature(c.slot, c.fn) = <<t>> /\ c.words = <<<<t, w>>>>
     \/ \E t, u \in WordTypes : \E v \in RuntimeWords[t], w \in RuntimeWords[u] :
          Signature(c.slot, c.fn) = <<t, u>> /\ c.words = <<<<t, v>>, <<u, w>>>>

\* Callbacks without, with one and with two enum arguments.
LEMMA BareWellFormed ==
  ASSUME NEW slot, NEW fns, NEW c \in Bare1(slot, fns),
         \A f \in fns : /\ <<slot, f, EventOf(slot, f)>> \in CallbackEvents
                        /\ Signature(slot, f) = << >>
  PROVE  WellFormed(c)
BY DEF Bare1, Callback, WellFormed

LEMMA OneWellFormed ==
  ASSUME NEW slot, NEW fns, NEW t \in WordTypes, NEW c \in One(slot, fns, t),
         \A f \in fns : /\ <<slot, f, EventOf(slot, f)>> \in CallbackEvents
                        /\ Signature(slot, f) = <<t>>
  PROVE  WellFormed(c)
<1>1. PICK f \in fns, w \in RuntimeWords[t] : c = [slot |-> slot, fn |-> f, words |-> <<<<t, w>>>>]
  BY DEF One, Callback
<1>2. c.slot = slot /\ c.fn = f /\ c.words = <<<<t, w>>>>
  BY <1>1
<1> QED BY <1>1, <1>2 DEF WellFormed

LEMMA TwoWellFormed ==
  ASSUME NEW slot, NEW fn, NEW t \in WordTypes, NEW u \in WordTypes, NEW c \in Two(slot, fn, t, u),
         <<slot, fn, EventOf(slot, fn)>> \in CallbackEvents, Signature(slot, fn) = <<t, u>>
  PROVE  WellFormed(c)
<1>1. PICK v \in RuntimeWords[t], w \in RuntimeWords[u] :
        c = [slot |-> slot, fn |-> fn, words |-> <<<<t, v>>, <<u, w>>>>]
  BY DEF Two, Callback
<1>2. c.slot = slot /\ c.fn = fn /\ c.words = <<<<t, v>>, <<u, w>>>>
  BY <1>1
<1> QED BY <1>1, <1>2 DEF WellFormed

\* Every callback has its name and its signature.
LEMMA CallbacksAreWellFormed == \A c \in Callbacks : WellFormed(c)
<1> SUFFICES ASSUME NEW c \in Callbacks PROVE WellFormed(c)
  OBVIOUS
<1>1. /\ "acquire" \in WordTypes /\ "kind" \in WordTypes /\ "side" \in WordTypes
      /\ "op" \in WordTypes /\ "outcome" \in WordTypes /\ "bop" \in WordTypes
      /\ "boutcome" \in WordTypes
  BY DEF WordTypes
<1>2. CASE c \in One("async_lock", {"requested", "acquired", "released"}, "acquire")
  <2>1. \A f \in {"requested", "acquired", "released"} :
          /\ <<"async_lock", f, EventOf("async_lock", f)>> \in CallbackEvents
          /\ Signature("async_lock", f) = <<"acquire">>
    BY DEF CallbackEvents, EventOf, ProbeHook, ProbeAsyncLockHook, Signature
  <2> QED BY <1>1, <1>2, <2>1, OneWellFormed
<1>3. CASE c \in Bare1("async_lock", {"waiter_dropped", "semaphore_created", "permits_added"})
  <2>1. \A f \in {"waiter_dropped", "semaphore_created", "permits_added"} :
          /\ <<"async_lock", f, EventOf("async_lock", f)>> \in CallbackEvents
          /\ Signature("async_lock", f) = << >>
    BY DEF CallbackEvents, EventOf, ProbeHook, ProbeAsyncLockHook, Signature
  <2> QED BY <1>3, <2>1, BareWellFormed
<1>4. CASE c \in Bare1("notify", {"wait_requested", "wait_resolved", "notify_one",
                                  "notify_waiters", "waiter_dropped"})
  <2>1. \A f \in {"wait_requested", "wait_resolved", "notify_one", "notify_waiters",
                  "waiter_dropped"} :
          /\ <<"notify", f, EventOf("notify", f)>> \in CallbackEvents
          /\ Signature("notify", f) = << >>
    BY DEF CallbackEvents, EventOf, ProbeHook, ProbeAsyncNotifyHook, Signature
  <2> QED BY <1>4, <2>1, BareWellFormed
<1>5. CASE c \in One("channel", {"channel_created"}, "kind")
  <2>1. \A f \in {"channel_created"} :
          /\ <<"channel", f, EventOf("channel", f)>> \in CallbackEvents
          /\ Signature("channel", f) = <<"kind">>
    BY DEF CallbackEvents, EventOf, ProbeHook, ProbeAsyncChannelHook, Signature
  <2> QED BY <1>1, <1>5, <2>1, OneWellFormed
<1>6. CASE c \in One("channel", {"op_requested"}, "op")
  <2>1. \A f \in {"op_requested"} :
          /\ <<"channel", f, EventOf("channel", f)>> \in CallbackEvents
          /\ Signature("channel", f) = <<"op">>
    BY DEF CallbackEvents, EventOf, ProbeHook, ProbeAsyncChannelHook, Signature
  <2> QED BY <1>1, <1>6, <2>1, OneWellFormed
<1>7. CASE c \in Two("channel", "op_resolved", "op", "outcome")
  <2>1. <<"channel", "op_resolved", EventOf("channel", "op_resolved")>> \in CallbackEvents
        /\ Signature("channel", "op_resolved") = <<"op", "outcome">>
    BY DEF CallbackEvents, EventOf, ProbeHook, ProbeAsyncChannelHook, Signature
  <2> QED BY <1>1, <1>7, <2>1, TwoWellFormed
<1>8. CASE c \in One("channel", {"endpoint_cloned", "endpoint_dropped"}, "side")
  <2>1. \A f \in {"endpoint_cloned", "endpoint_dropped"} :
          /\ <<"channel", f, EventOf("channel", f)>> \in CallbackEvents
          /\ Signature("channel", f) = <<"side">>
    BY DEF CallbackEvents, EventOf, ProbeHook, ProbeAsyncChannelHook, Signature
  <2> QED BY <1>1, <1>8, <2>1, OneWellFormed
<1>9. CASE c \in Bare1("channel", {"op_dropped", "channel_closed"})
  <2>1. \A f \in {"op_dropped", "channel_closed"} :
          /\ <<"channel", f, EventOf("channel", f)>> \in CallbackEvents
          /\ Signature("channel", f) = << >>
    BY DEF CallbackEvents, EventOf, ProbeHook, ProbeAsyncChannelHook, Signature
  <2> QED BY <1>9, <2>1, BareWellFormed, SMTT(30)
<1>10. CASE c \in Bare1("broadcast", {"broadcast_created", "subscribed", "op_dropped"})
  <2>1. \A f \in {"broadcast_created", "subscribed", "op_dropped"} :
          /\ <<"broadcast", f, EventOf("broadcast", f)>> \in CallbackEvents
          /\ Signature("broadcast", f) = << >>
    BY DEF CallbackEvents, EventOf, ProbeHook, ProbeAsyncBroadcastHook, Signature
  <2> QED BY <1>10, <2>1, BareWellFormed, SMTT(30)
<1>11. CASE c \in One("broadcast", {"op_requested"}, "bop")
  <2>1. \A f \in {"op_requested"} :
          /\ <<"broadcast", f, EventOf("broadcast", f)>> \in CallbackEvents
          /\ Signature("broadcast", f) = <<"bop">>
    BY DEF CallbackEvents, EventOf, ProbeHook, ProbeAsyncBroadcastHook, Signature
  <2> QED BY <1>1, <1>11, <2>1, OneWellFormed
<1>12. CASE c \in Two("broadcast", "op_resolved", "bop", "boutcome")
  <2>1. <<"broadcast", "op_resolved", EventOf("broadcast", "op_resolved")>> \in CallbackEvents
        /\ Signature("broadcast", "op_resolved") = <<"bop", "boutcome">>
    BY DEF CallbackEvents, EventOf, ProbeHook, ProbeAsyncBroadcastHook, Signature
  <2> QED BY <1>1, <1>12, <2>1, TwoWellFormed
<1>13. CASE c \in One("broadcast", {"endpoint_cloned", "endpoint_dropped"}, "side")
  <2>1. \A f \in {"endpoint_cloned", "endpoint_dropped"} :
          /\ <<"broadcast", f, EventOf("broadcast", f)>> \in CallbackEvents
          /\ Signature("broadcast", f) = <<"side">>
    BY DEF CallbackEvents, EventOf, ProbeHook, ProbeAsyncBroadcastHook, Signature
  <2> QED BY <1>1, <1>13, <2>1, OneWellFormed
<1>14. CASE c \in Bare1("cell", {"cell_created", "cell_load", "cell_store"})
  <2>1. \A f \in {"cell_created", "cell_load", "cell_store"} :
          /\ <<"cell", f, EventOf("cell", f)>> \in CallbackEvents
          /\ Signature("cell", f) = << >>
    BY DEF CallbackEvents, EventOf, ProbeHook, ProbeAsyncCellHook, Signature
  <2> QED BY <1>14, <2>1, BareWellFormed
<1> QED BY <1>2, <1>3, <1>4, <1>5, <1>6, <1>7, <1>8, <1>9, <1>10, <1>11, <1>12, <1>13, <1>14
        DEF Callbacks

\* The mirrors have every word of the runtime, so a conversion keeps the word.
LEMMA WordsKept ==
  ASSUME NEW t \in WordTypes, NEW w \in RuntimeWords[t]
  PROVE  Into(t, w) = w /\ w # "unreachable"
<1>1. RuntimeWords[t] = ProbeWords[t] /\ "unreachable" \notin RuntimeWords[t]
  BY DEF WordTypes, RuntimeWords, ProbeWords
<1> QED BY <1>1 DEF Into

\* Events of different callbacks have different names, and none has a resource.
LEMMA NamesAreDistinct ==
  /\ \A a, b \in CallbackEvents : a[3] = b[3] => a = b
  /\ \A a \in CallbackEvents : a[3] \in AsyncEvents /\ ~HasResourceName(a[3])
<1>1. \A a, b \in CallbackEvents : a[3] = b[3] => a = b
  BY SMT DEF CallbackEvents
<1>2. \A a \in CallbackEvents : a[3] \in AsyncEvents
  BY SMT DEF CallbackEvents, AsyncEvents
<1>3. \A a \in CallbackEvents : ~HasResourceName(a[3])
  BY SMT DEF CallbackEvents, HasResourceName, NamedEvents
<1> QED BY <1>1, <1>2, <1>3

\* A callback's words come out as they went in.
LEMMA ProjectedWords ==
  ASSUME NEW c, WellFormed(c)
  PROVE  /\ Projected(c).variant = EventOf(c.slot, c.fn)
         /\ DOMAIN Projected(c).words = DOMAIN c.words
         /\ \A i \in DOMAIN c.words : /\ Projected(c).words[i] = c.words[i][2]
                                      /\ Projected(c).words[i] # "unreachable"
<1>1. /\ Projected(c).variant = EventOf(c.slot, c.fn)
      /\ Projected(c).words = [i \in DOMAIN c.words |-> Into(c.words[i][1], c.words[i][2])]
  BY DEF Projected, EventOf
<1>2. \A i \in DOMAIN c.words : /\ c.words[i][1] \in WordTypes
                                /\ c.words[i][2] \in RuntimeWords[c.words[i][1]]
  <2>1. CASE c.words = << >>
    BY <2>1
  <2>2. CASE \E t \in WordTypes : \E w \in RuntimeWords[t] : c.words = <<<<t, w>>>>
    <3>1. PICK t \in WordTypes : \E w \in RuntimeWords[t] : c.words = <<<<t, w>>>>
      BY <2>2
    <3>2. PICK w \in RuntimeWords[t] : c.words = <<<<t, w>>>>
      BY <3>1
    <3>3. DOMAIN c.words = {1} /\ c.words[1][1] = t /\ c.words[1][2] = w
      BY <3>2
    <3> QED BY <3>3
  <2>3. CASE \E t, u \in WordTypes : \E v \in RuntimeWords[t], w \in RuntimeWords[u] :
               c.words = <<<<t, v>>, <<u, w>>>>
    <3>1. PICK t \in WordTypes, u \in WordTypes :
            \E v \in RuntimeWords[t], w \in RuntimeWords[u] : c.words = <<<<t, v>>, <<u, w>>>>
      BY <2>3
    <3>2. PICK v \in RuntimeWords[t], w \in RuntimeWords[u] : c.words = <<<<t, v>>, <<u, w>>>>
      BY <3>1
    <3>3. /\ DOMAIN c.words = {1, 2} /\ c.words[1][1] = t /\ c.words[1][2] = v
          /\ c.words[2][1] = u /\ c.words[2][2] = w
      BY <3>2
    <3> QED BY <3>3
  <2> QED BY <2>1, <2>2, <2>3 DEF WellFormed
<1>3. \A i \in DOMAIN c.words : Into(c.words[i][1], c.words[i][2]) = c.words[i][2]
                                /\ c.words[i][2] # "unreachable"
  BY <1>2, WordsKept
<1> QED BY <1>1, <1>3

\* Callbacks of one name with the same words out had the same words in.
LEMMA WordsDetermined ==
  ASSUME NEW c, NEW d, WellFormed(c), WellFormed(d), c.slot = d.slot, c.fn = d.fn,
         \A i \in DOMAIN c.words \cap DOMAIN d.words : c.words[i][2] = d.words[i][2]
  PROVE  c = d
<1>1. Signature(c.slot, c.fn) = Signature(d.slot, d.fn)
  OBVIOUS
<1> DEFINE sig == Signature(c.slot, c.fn)
<1>2. \A t, u : <<t>> # << >> /\ <<t, u>> # << >>
  OBVIOUS
<1>3. \A t, u, v : <<t>> # <<u, v>>
  OBVIOUS
<1>4. CASE sig = << >>
  <2>1. c.words = << >> /\ d.words = << >>
    BY <1>1, <1>2, <1>4 DEF WellFormed
  <2> QED BY <2>1 DEF WellFormed
<1>5. CASE \E t \in WordTypes : sig = <<t>>
  <2>1. PICK t \in WordTypes : sig = <<t>>
    BY <1>5
  <2>2. PICK t1 \in WordTypes : \E w \in RuntimeWords[t1] : sig = <<t1>> /\ c.words = <<<<t1, w>>>>
    BY <1>2, <1>3, <2>1 DEF WellFormed
  <2>3. PICK t2 \in WordTypes : \E w \in RuntimeWords[t2] : sig = <<t2>> /\ d.words = <<<<t2, w>>>>
    BY <1>1, <1>2, <1>3, <2>1 DEF WellFormed
  <2>4. PICK v, w : c.words = <<<<t, v>>>> /\ d.words = <<<<t, w>>>>
    BY <2>1, <2>2, <2>3
  <2>5. 1 \in DOMAIN c.words \cap DOMAIN d.words /\ c.words[1][2] = v /\ d.words[1][2] = w
    BY <2>4
  <2>6. v = w
    BY <2>5
  <2> QED BY <2>4, <2>6 DEF WellFormed
<1>6. CASE \E t, u \in WordTypes : sig = <<t, u>>
  <2>1. PICK t \in WordTypes, u \in WordTypes : sig = <<t, u>>
    BY <1>6
  <2>2. PICK t1 \in WordTypes, u1 \in WordTypes :
          \E v \in RuntimeWords[t1], w \in RuntimeWords[u1] :
            sig = <<t1, u1>> /\ c.words = <<<<t1, v>>, <<u1, w>>>>
    BY <1>2, <1>3, <2>1 DEF WellFormed
  <2>3. PICK t2 \in WordTypes, u2 \in WordTypes :
          \E v \in RuntimeWords[t2], w \in RuntimeWords[u2] :
            sig = <<t2, u2>> /\ d.words = <<<<t2, v>>, <<u2, w>>>>
    BY <1>1, <1>2, <1>3, <2>1 DEF WellFormed
  <2>4. t1 = t /\ t2 = t /\ u1 = u /\ u2 = u
    BY <2>1, <2>2, <2>3
  <2>5. PICK v, w : c.words = <<<<t, v>>, <<u, w>>>>
    BY <2>2, <2>4
  <2>6. PICK x, y : d.words = <<<<t, x>>, <<u, y>>>>
    BY <2>3, <2>4
  <2>7. /\ 1 \in DOMAIN c.words \cap DOMAIN d.words /\ c.words[1][2] = v /\ d.words[1][2] = x
        /\ 2 \in DOMAIN c.words \cap DOMAIN d.words /\ c.words[2][2] = w /\ d.words[2][2] = y
    BY <2>5, <2>6
  <2>8. v = x /\ w = y
    BY <2>7
  <2> QED BY <2>5, <2>6, <2>8 DEF WellFormed
<1> QED BY <1>4, <1>5, <1>6 DEF WellFormed

\* The hooks' vocabulary loses nothing.
LEMMA VocabularyIsFaithful == VocabularyFaithful
<1>1. ASSUME NEW c \in Callbacks
      PROVE  /\ \A i \in DOMAIN c.words : Projected(c).words[i] # "unreachable"
             /\ Projected(c).variant \in AsyncEvents
             /\ ~HasResourceName(Projected(c).variant)
  <2>1. WellFormed(c)
    BY CallbacksAreWellFormed
  <2> DEFINE a == <<c.slot, c.fn, EventOf(c.slot, c.fn)>>
  <2>2. a \in CallbackEvents /\ a[3] = EventOf(c.slot, c.fn)
    BY <2>1 DEF WellFormed
  <2> HIDE DEF a
  <2>3. a[3] \in AsyncEvents /\ ~HasResourceName(a[3])
    BY <2>2, NamesAreDistinct
  <2> QED BY <2>1, <2>2, <2>3, ProjectedWords
<1>2. ASSUME NEW c \in Callbacks, NEW d \in Callbacks, Projected(c) = Projected(d) PROVE c = d
  <2>1. WellFormed(c) /\ WellFormed(d)
    BY CallbacksAreWellFormed
  <2> DEFINE a == <<c.slot, c.fn, EventOf(c.slot, c.fn)>>
             b == <<d.slot, d.fn, EventOf(d.slot, d.fn)>>
  <2>2. /\ a \in CallbackEvents /\ a[3] = EventOf(c.slot, c.fn) /\ a[1] = c.slot /\ a[2] = c.fn
        /\ b \in CallbackEvents /\ b[3] = EventOf(d.slot, d.fn) /\ b[1] = d.slot /\ b[2] = d.fn
    BY <2>1 DEF WellFormed
  <2> HIDE DEF a, b
  <2>3. EventOf(c.slot, c.fn) = EventOf(d.slot, d.fn)
    BY <1>2, <2>1, ProjectedWords
  <2>4. a = b
    BY <2>2, <2>3, NamesAreDistinct
  <2>5. \A i \in DOMAIN c.words \cap DOMAIN d.words : c.words[i][2] = d.words[i][2]
    BY <1>2, <2>1, ProjectedWords
  <2> QED BY <2>1, <2>2, <2>4, <2>5, WordsDetermined
<1> QED BY <1>1, <1>2 DEF VocabularyFaithful

\* For any number of OS threads and tasks an event carries the id of the task
\* being polled, of the last one polled there, or an implicit one, and the
\* events of different callbacks differ (task.rs, async_hooks.rs, session.rs
\* current_thread_id).
THEOREM HooksAreSound == HooksSpec => []HooksSound
<1>1. HooksSound <=> AttributionSound
  BY VocabularyIsFaithful DEF HooksSound
<1> QED BY <1>1, HookInvInit, HookStep, PTL DEF HooksSpec

-----------------------------------------------------------------------------
(* Generated tests: VerifyHarness. *)

\* A test has one mode once its arguments are checked.  From the installation of
\* its hooks on it runs under at least these; its capture is what the hooks in
\* place emit, and its verdict follows from it.
HarnessInv ==
  /\ step \in {"parsing", "expanding", "expanded", "refused", "running", "captured", "over"}
  /\ hooks \subseteq {"lock", "task", "async"}
  /\ macro = "verify" /\ step \in {"expanding", "expanded"} => ~(args.tasks /\ args.scenario)
  /\ step \in {"running", "captured", "over"} => /\ Installs(args) \subseteq hooks
                                                 /\ ~(args.tasks /\ args.scenario)
  /\ step # "over" => outcome = Unset
  /\ step = "captured" => captured = Emits(args, item, hooks)
  /\ step = "over" => \/ item.panics /\ outcome = "failed"
                      \/ /\ captured = Emits(args, item, hooks)
                         /\ outcome = Conclude(args, item, captured)

\* Every step of an expansion or a test keeps the invariant.
LEMMA VerdictStep == HarnessInv /\ [HarnessNext]_harnessVars => HarnessInv'
<1> SUFFICES ASSUME HarnessInv, [HarnessNext]_harnessVars PROVE HarnessInv'
  OBVIOUS
<1> USE DEF HarnessInv
<1>1. ASSUME NEW meta \in Metas, ParseMeta(meta) PROVE HarnessInv'
  <2>1. step = "parsing" /\ step' \in {"parsing", "refused"} /\ UNCHANGED <<hooks, outcome>>
    BY <1>1 DEF ParseMeta
  <2> QED BY <2>1
<1>2. CASE EndArgs
  <2>1. /\ step = "parsing" /\ step' \in {"expanding", "refused"}
        /\ UNCHANGED <<macro, args, hooks, outcome>>
    BY <1>2 DEF EndArgs
  <2>2. macro = "verify" /\ step' = "expanding" => Modes(args) = 1
    BY <1>2 DEF EndArgs
  <2>3. Modes(args) = 1 => ~(args.tasks /\ args.scenario)
    BY DEF Modes
  <2> QED BY <2>1, <2>2, <2>3
<1>3. CASE ExpandItem
  <2>1. /\ step = "expanding" /\ step' \in {"expanded", "refused"}
        /\ UNCHANGED <<macro, args, hooks, outcome>>
    BY <1>3 DEF ExpandItem
  <2> QED BY <2>1
<1>4. CASE InstallHooks
  <2>1. /\ step = "expanded" /\ step' = "running" /\ hooks' = hooks \cup Installs(args)
        /\ macro = "verify" /\ UNCHANGED <<args, outcome>>
    BY <1>4 DEF InstallHooks
  <2>2. Installs(args) \subseteq {"lock", "task", "async"}
    BY <2>1 DEF Installs
  <2>3. Installs(args)' = Installs(args)
    BY <2>1 DEF Installs
  <2> QED BY <2>1, <2>2, <2>3
<1>5. CASE RunBody
  <2>1. step = "running" /\ UNCHANGED <<args, item, hooks>>
    BY <1>5 DEF RunBody
  <2>2. Installs(args)' = Installs(args) /\ Emits(args, item, hooks)' = Emits(args, item, hooks)
    BY <2>1 DEF Installs, Emits
  <2>3. CASE item.panics
    <3>1. outcome' = "failed" /\ step' = "over"
      BY <1>5, <2>3 DEF RunBody
    <3> QED BY <2>1, <2>2, <2>3, <3>1
  <2>4. CASE ~item.panics
    <3>1. captured' = Emits(args, item, hooks) /\ outcome' = outcome /\ step' = "captured"
      BY <1>5, <2>4 DEF RunBody
    <3> QED BY <2>1, <2>2, <3>1
  <2> QED BY <2>3, <2>4
<1>6. CASE VerificationTail
  <2>1. /\ step = "captured" /\ step' = "over" /\ UNCHANGED <<args, item, hooks, captured>>
        /\ outcome' = Conclude(args, item, captured)
    BY <1>6 DEF VerificationTail
  <2>2. /\ Installs(args)' = Installs(args) /\ Emits(args, item, hooks)' = Emits(args, item, hooks)
        /\ Conclude(args, item, captured)' = Conclude(args, item, captured)
    BY <2>1 DEF Installs, Emits, Conclude, BugFound
  <2> QED BY <2>1, <2>2
<1>7. CASE NextTest
  <2>1. step' = "parsing" /\ outcome' = Unset /\ UNCHANGED hooks
    BY <1>7 DEF NextTest
  <2> QED BY <2>1
<1>8. CASE UNCHANGED harnessVars
  BY <1>8 DEF harnessVars, Installs, Emits, Conclude, BugFound
<1> QED BY <1>1, <1>2, <1>3, <1>4, <1>5, <1>6, <1>7, <1>8 DEF HarnessNext

\* More hooks add nothing to a test that brings what it needs.
LEMMA HooksSuffice ==
  ASSUME HarnessInv, SelfContained, Installs(args) \subseteq hooks, ~(args.tasks /\ args.scenario)
  PROVE  Emits(args, item, hooks) = Emits(args, item, Installs(args))
<1>1. CASE args.tasks
  <2>1. Installs(args) = {"lock", "task", "async"}
    BY <1>1 DEF Installs
  <2>2. hooks = Installs(args)
    BY <2>1 DEF HarnessInv
  <2> QED BY <2>2
<1>2. CASE ~args.tasks /\ args.scenario
  <2>1. "lock" \in Installs(args) /\ "lock" \in hooks
    BY <1>2 DEF Installs
  <2>2. "tokio" \notin item.uses
    BY <1>2 DEF SelfContained
  <2> QED BY <1>2, <2>1, <2>2 DEF Emits
<1>3. CASE ~args.tasks /\ ~args.scenario
  <2>1. item.uses \subseteq {"tracked", "task"}
    BY <1>3 DEF SelfContained
  <2> QED BY <1>3, <2>1 DEF Emits
<1> QED BY <1>1, <1>2, <1>3

\* Whatever arguments and functions are written, the verdict of a self-contained
\* test does not depend on the tests before it, and no declared expectation is
\* met without events (verify.rs VerifyArgs::parse, verification_tail).
THEOREM TestVerdictsAreSound == HarnessSpec => []VerdictsSound
<1>1. HarnessInit => HarnessInv
  BY DEF HarnessInit, HarnessInv
<1>2. HarnessInv => VerdictsSound
  <2> SUFFICES ASSUME HarnessInv PROVE VerdictsSound
    OBVIOUS
  <2>1. VerdictIndependent
    <3> SUFFICES ASSUME step = "over", ~item.panics, SelfContained
                 PROVE  outcome = Conclude(args, item, Emits(args, item, Installs(args)))
      BY DEF VerdictIndependent
    <3>1. Installs(args) \subseteq hooks /\ ~(args.tasks /\ args.scenario)
          /\ outcome = Conclude(args, item, Emits(args, item, hooks))
      BY DEF HarnessInv
    <3> QED BY <3>1, HooksSuffice
  <2>2. outcome = "passed" \/ outcome = "warned" => outcome = Conclude(args, item, captured)
    BY DEF HarnessInv, Unset
  <2>3. NeverVacuous
    BY <2>2 DEF NeverVacuous, Conclude, BugFound
  <2>4. NeverWaved
    BY <2>2 DEF NeverWaved, Conclude
  <2> QED BY <2>1, <2>3, <2>4 DEF VerdictsSound
<1> QED BY <1>1, <1>2, VerdictStep, PTL DEF HarnessSpec

-----------------------------------------------------------------------------
(* Tracked structs: TrackedDerive. *)

\* Fields as they come out.
FieldOut == [ident : {f.ident : f \in FieldInputs},
             resource : {"none"} \cup {ResourceName(f) : f \in FieldInputs},
             wrapper : {"none"} \cup {MapFieldType(f) : f \in FieldInputs}]

\* Every resource in use is among the names the next field is compared with.
DeriveInv ==
  /\ fields \in Seq(FieldOut)
  /\ \A i \in 1..Len(fields) : fields[i].wrapper # "none" => fields[i].resource \in names
  /\ ResourcesDistinct

\* A field's resource is new, or it has none.
LEMMA ExpandKeeps ==
  ASSUME DeriveInv, NEW f \in FieldInputs, ExpandField(f)
  PROVE  DeriveInv'
<1>1. CASE UNCHANGED fields /\ UNCHANGED names
  BY <1>1 DEF DeriveInv, ResourcesDistinct
<1>2. ASSUME NEW e \in FieldOut, fields' = Append(fields, e), names \subseteq names',
             e.wrapper # "none" => e.resource \in names' \ names
      PROVE  DeriveInv'
  <2>1. /\ fields' \in Seq(FieldOut) /\ Len(fields') = Len(fields) + 1 /\ Len(fields) \in Nat
        /\ \A i \in 1..Len(fields) : fields'[i] = fields[i]
        /\ fields'[Len(fields) + 1] = e
    BY <1>2, AppendProperties DEF DeriveInv
  <2>2. 1..Len(fields') = 1..Len(fields) \cup {Len(fields) + 1}
    BY <2>1
  <2>3. \A i \in 1..Len(fields) : fields[i].wrapper # "none" => fields[i].resource \in names
    BY DEF DeriveInv
  <2>4. \A i \in 1..Len(fields') : fields'[i].wrapper # "none" => fields'[i].resource \in names'
    BY <1>2, <2>1, <2>2, <2>3
  <2>5. ResourcesDistinct'
    <3> SUFFICES ASSUME NEW i \in 1..Len(fields'), NEW j \in 1..Len(fields'), i # j,
                        fields'[i].wrapper # "none", fields'[j].wrapper # "none"
                 PROVE  fields'[i].resource # fields'[j].resource
      BY DEF ResourcesDistinct
    <3>1. CASE i \in 1..Len(fields) /\ j \in 1..Len(fields)
      BY <2>1, <3>1 DEF DeriveInv, ResourcesDistinct
    <3>2. CASE i = Len(fields) + 1 /\ j \in 1..Len(fields)
      BY <1>2, <2>1, <2>3, <3>2
    <3>3. CASE j = Len(fields) + 1 /\ i \in 1..Len(fields)
      BY <1>2, <2>1, <2>3, <3>3
    <3> QED BY <2>2, <3>1, <3>2, <3>3
  <2> QED BY <2>1, <2>4, <2>5 DEF DeriveInv
<1>3. CASE ~f.track
  <2> DEFINE e == [ident |-> f.ident, resource |-> "none", wrapper |-> "none"]
  <2>1. e \in FieldOut /\ e.wrapper = "none"
    BY DEF FieldOut
  <2>2. fields' = Append(fields, e) /\ names' = names
    BY <1>3 DEF ExpandField
  <2> HIDE DEF e
  <2> QED BY <1>2, <2>1, <2>2
<1>4. CASE f.track /\ ~(~OptionsOK(f) \/ NameTaken(f) \/ MapFieldType(f) = Unsupported)
  <2> DEFINE e == [ident |-> f.ident, resource |-> ResourceName(f), wrapper |-> MapFieldType(f)]
  <2>1. e \in FieldOut /\ e.resource = ResourceName(f)
    BY DEF FieldOut
  <2>2. /\ fields' = Append(fields, e) /\ names' = names \cup {ResourceName(f)}
        /\ ResourceName(f) \notin names
    BY <1>4 DEF ExpandField, NameTaken
  <2> HIDE DEF e
  <2> QED BY <1>2, <2>1, <2>2
<1>5. CASE f.track /\ (~OptionsOK(f) \/ NameTaken(f) \/ MapFieldType(f) = Unsupported)
  BY <1>1, <1>5 DEF ExpandField
<1> QED BY <1>3, <1>4, <1>5

\* Whatever fields are written, no two tracked fields of a struct share a
\* resource (tracked_derive.rs expand_attribute).
THEOREM ResourcesAreDistinct == DeriveSpec => []ResourcesDistinct
<1>1. DeriveInit => DeriveInv
  BY DEF DeriveInit, DeriveInv, ResourcesDistinct
<1>2. DeriveInv /\ [DeriveNext]_deriveVars => DeriveInv'
  <2>1. DeriveInv /\ UNCHANGED <<fields, names>> => DeriveInv'
    BY DEF DeriveInv, ResourcesDistinct
  <2> QED BY <2>1, ExpandKeeps DEF DeriveNext, EndStruct, deriveVars
<1>3. DeriveInv => ResourcesDistinct
  BY DEF DeriveInv
<1> QED BY <1>1, <1>2, <1>3, PTL DEF DeriveSpec

-----------------------------------------------------------------------------
(* Timestamps and the virtual clock's queue: SimClock. *)

\* Events as they are traced and scheduled.
TracedEvent == [thread : SimThread, stamp : 0..MaxStamp, past : SUBSET Nat]
QueuedEvent == [at : Nat, lamport : Nat, id : Nat]

\* The past of an event came before it; until a timestamp meets its limit a
\* thread's timestamp is at least that of its events, and an event's is above
\* those of its past.
TraceInv ==
  /\ stamp \in [SimThread -> 0..MaxStamp] /\ overflown \in BOOLEAN
  /\ traced \in Seq(TracedEvent)
  /\ \A j \in 1..Len(traced) : traced[j].past \subseteq 1..Len(traced)
  /\ ~overflown =>
       /\ \A i \in 1..Len(traced) : traced[i].stamp <= stamp[traced[i].thread]
       /\ \A j \in 1..Len(traced) : \A i \in traced[j].past : traced[i].stamp < traced[j].stamp

\* e is due before f, or at the same moment and was scheduled first.
Sooner(e, f) ==
  \/ e.at < f.at
  \/ e.at = f.at /\ e.id < f.id

\* What is queued is not overdue, its Lamport clocks rise with the ids, and it
\* all comes after what was popped.
QueueInv ==
  /\ now \in Nat /\ lamport \in Nat /\ serial \in Nat
  /\ queue \subseteq QueuedEvent /\ popped \in Seq(QueuedEvent)
  /\ \A e \in queue : now <= e.at /\ e.lamport <= lamport /\ e.id <= serial
  /\ \A e, f \in queue : (e.id = f.id => e = f) /\ (e.id < f.id => e.lamport <= f.lamport)
  /\ \A i \in 1..Len(popped) : popped[i].at <= now /\ popped[i].id <= serial
  /\ \A i \in 1..Len(popped) : \A e \in queue : Sooner(popped[i], e)
  /\ \A i, j \in 1..Len(popped) : i < j => Sooner(popped[i], popped[j])

\* A traced event with a timestamp above that of its thread and of what it saw.
LEMMA TraceKeeps ==
  ASSUME TraceInv, NEW t \in SimThread, NEW s \in 0..MaxStamp,
         NEW seen \in SUBSET (1..Len(traced)), Trace(t, s, seen), overflown' \in BOOLEAN,
         ~overflown' => ~overflown /\ stamp[t] < s /\ \A i \in seen : traced[i].stamp < s
  PROVE  TraceInv'
<1> DEFINE n    == Len(traced)
           near == seen \cup OwnPast(t)
           past == near \cup UNION {traced[i].past : i \in near}
           e    == [thread |-> t, stamp |-> s, past |-> past]
<1>1. traced \in Seq(TracedEvent) /\ n \in Nat /\ DOMAIN traced = 1..n
  BY DEF TraceInv
<1>2. \A i \in 1..n : traced[i] \in TracedEvent /\ traced[i].past \subseteq 1..n
  BY <1>1, ElementOfSeq DEF TraceInv
<1>3. near \subseteq 1..n
  BY <1>1 DEF OwnPast
<1>4. past \subseteq 1..n
  BY <1>2, <1>3
<1>5. traced' = Append(traced, e) /\ stamp' = [stamp EXCEPT ![t] = s]
  <2>1. e = [thread |-> t, stamp |-> s,
             past |-> seen \cup OwnPast(t) \cup UNION {traced[i].past : i \in seen \cup OwnPast(t)}]
    OBVIOUS
  <2> QED BY <2>1 DEF Trace
<1>6. e \in TracedEvent /\ e.thread = t /\ e.stamp = s /\ e.past = past
  <2>1. past \in SUBSET Nat
    BY <1>1, <1>4
  <2> HIDE DEF past
  <2> QED BY <2>1 DEF TracedEvent
<1> HIDE DEF e, past, near, n
<1>7. /\ traced' \in Seq(TracedEvent) /\ Len(traced') = n + 1
      /\ \A i \in 1..n : traced'[i] = traced[i]
      /\ traced'[n + 1] = e
  BY <1>1, <1>5, <1>6, AppendProperties DEF n
<1>8. 1..Len(traced') = 1..n \cup {n + 1}
  BY <1>1, <1>7
<1>9. \A j \in 1..Len(traced') : traced'[j].past \subseteq 1..Len(traced')
  BY <1>2, <1>4, <1>6, <1>7, <1>8
<1>10. stamp' \in [SimThread -> 0..MaxStamp] /\ stamp'[t] = s
       /\ \A u \in SimThread : u # t => stamp'[u] = stamp[u]
  BY <1>5 DEF TraceInv
<1>11. ASSUME ~overflown'
       PROVE  /\ \A i \in 1..Len(traced') : traced'[i].stamp <= stamp'[traced'[i].thread]
              /\ \A j \in 1..Len(traced') : \A i \in traced'[j].past :
                   traced'[i].stamp < traced'[j].stamp
  <2>1. ~overflown /\ stamp[t] < s /\ \A i \in seen : traced[i].stamp < s
    BY <1>11
  <2>2. stamp[t] \in Nat /\ s \in Nat /\ MaxStamp \in Nat
    BY SimBounds DEF TraceInv
  <2>3. \A i \in 1..n : traced[i].stamp \in Nat /\ traced[i].thread \in SimThread
    BY <1>2, <2>2 DEF TracedEvent
  <2>4. \A i \in 1..n : traced[i].stamp <= stamp[traced[i].thread]
    BY <2>1 DEF TraceInv, n
  <2>5. \A i \in 1..n : \A k \in traced[i].past : traced[k].stamp < traced[i].stamp
    BY <2>1 DEF TraceInv, n
  <2>6. \A i \in 1..n : traced[i].thread = t => traced[i].stamp < s
    BY <2>1, <2>2, <2>3, <2>4
  <2>7. \A i \in near : traced[i].stamp < s
    BY <1>3, <2>1, <2>6 DEF near, OwnPast
  <2>8. \A i \in past : traced[i].stamp < s
    <3> SUFFICES ASSUME NEW i \in past PROVE traced[i].stamp < s
      OBVIOUS
    <3>1. CASE i \in near
      BY <2>7, <3>1
    <3>2. CASE i \notin near
      <4>1. PICK k \in near : i \in traced[k].past
        BY <3>2 DEF past
      <4>2. k \in 1..n /\ i \in 1..n
        BY <1>3, <1>4, <4>1
      <4>3. traced[i].stamp < traced[k].stamp /\ traced[k].stamp < s
        BY <2>5, <2>7, <4>1, <4>2
      <4> QED BY <2>2, <2>3, <4>2, <4>3
    <3> QED BY <3>1, <3>2
  <2>9. \A i \in 1..Len(traced') : traced'[i].stamp <= stamp'[traced'[i].thread]
    <3> SUFFICES ASSUME NEW i \in 1..Len(traced')
                 PROVE  traced'[i].stamp <= stamp'[traced'[i].thread]
      OBVIOUS
    <3>1. CASE i = n + 1
      BY <1>6, <1>7, <1>10, <2>2, <3>1
    <3>2. CASE i \in 1..n
      <4>1. CASE traced[i].thread = t
        BY <1>7, <1>10, <2>2, <2>3, <2>6, <3>2, <4>1
      <4>2. CASE traced[i].thread # t
        BY <1>7, <1>10, <2>3, <2>4, <3>2, <4>2
      <4> QED BY <4>1, <4>2
    <3> QED BY <1>8, <3>1, <3>2
  <2>10. \A j \in 1..Len(traced') : \A i \in traced'[j].past : traced'[i].stamp < traced'[j].stamp
    <3> SUFFICES ASSUME NEW j \in 1..Len(traced'), NEW i \in traced'[j].past
                 PROVE  traced'[i].stamp < traced'[j].stamp
      OBVIOUS
    <3>1. CASE j = n + 1
      BY <1>4, <1>6, <1>7, <2>8, <3>1
    <3>2. CASE j \in 1..n
      <4>1. i \in traced[j].past /\ i \in 1..n
        BY <1>2, <1>7, <3>2
      <4> QED BY <1>7, <2>5, <3>2, <4>1
    <3> QED BY <1>8, <3>1, <3>2
  <2> QED BY <2>9, <2>10
<1> QED BY <1>7, <1>9, <1>10, <1>11 DEF TraceInv

\* The two ways a timestamp is made step over what they saw, up to the limit.
LEMMA StampsStep ==
  ASSUME NEW s \in 0..MaxStamp, NEW r \in 0..MaxStamp
  PROVE  /\ Increment(s) \in 0..MaxStamp /\ (s # MaxStamp => s < Increment(s))
         /\ Sync(s, r) \in 0..MaxStamp
         /\ s # MaxStamp /\ r # MaxStamp => s < Sync(s, r) /\ r < Sync(s, r)
<1>1. MaxStamp \in Nat
  BY SimBounds
<1>2. CASE s = MaxStamp
  <2>1. (s + 1) % (MaxStamp + 1) = 0
    BY <1>1, <1>2
  <2> QED BY <1>1, <1>2, <2>1 DEF Increment, Sync
<1>3. CASE s # MaxStamp
  <2>1. s + 1 \in 0..MaxStamp /\ s + 1 < MaxStamp + 1
    BY <1>1, <1>3
  <2>2. (s + 1) % (MaxStamp + 1) = s + 1
    BY <1>1, <2>1
  <2> QED BY <1>1, <1>3, <2>1, <2>2 DEF Increment, Sync
<1> QED BY <1>2, <1>3

\* Events of either kind keep the trace's invariant and the queue.
LEMMA TraceStep == TraceInv /\ TraceNext => TraceInv' /\ UNCHANGED queueVars
<1> SUFFICES ASSUME TraceInv, TraceNext PROVE TraceInv' /\ UNCHANGED queueVars
  OBVIOUS
<1>1. /\ stamp \in [SimThread -> 0..MaxStamp] /\ overflown \in BOOLEAN
      /\ traced \in Seq(TracedEvent) /\ DOMAIN traced = 1..Len(traced)
      /\ \A i \in 1..Len(traced) : traced[i].stamp \in 0..MaxStamp
  <2>1. traced \in Seq(TracedEvent) /\ DOMAIN traced = 1..Len(traced)
    BY DEF TraceInv
  <2>2. \A i \in 1..Len(traced) : traced[i] \in TracedEvent
    BY <2>1, ElementOfSeq
  <2> QED BY <2>1, <2>2 DEF TraceInv, TracedEvent
<1>2. ASSUME NEW t \in SimThread, LocalEvent(t) PROVE TraceInv' /\ UNCHANGED queueVars
  <2>1. stamp[t] \in 0..MaxStamp
    BY <1>1
  <2>2. /\ Increment(stamp[t]) \in 0..MaxStamp
        /\ stamp[t] # MaxStamp => stamp[t] < Increment(stamp[t])
    BY <2>1, StampsStep
  <2>3. /\ Trace(t, Increment(stamp[t]), {})
        /\ overflown' = (overflown \/ stamp[t] = MaxStamp)
    BY <1>2 DEF LocalEvent
  <2>4. overflown' \in BOOLEAN /\ (~overflown' => ~overflown /\ stamp[t] # MaxStamp)
    BY <2>3, Zenon
  <2>5. {} \in SUBSET (1..Len(traced)) /\ \A k \in {} : traced[k].stamp < Increment(stamp[t])
    OBVIOUS
  <2>6. ~overflown' => ~overflown /\ stamp[t] < Increment(stamp[t])
                       /\ \A k \in {} : traced[k].stamp < Increment(stamp[t])
    BY <2>2, <2>4, <2>5
  <2>7. TraceInv'
    BY <2>2, <2>3, <2>4, <2>5, <2>6, TraceKeeps
  <2> QED BY <2>3, <2>7 DEF Trace
<1>3. ASSUME NEW t \in SimThread, NEW i \in DOMAIN traced, RemoteEvent(t, i)
      PROVE  TraceInv' /\ UNCHANGED queueVars
  <2> DEFINE s == Sync(stamp[t], traced[i].stamp)
  <2>1. stamp[t] \in 0..MaxStamp /\ traced[i].stamp \in 0..MaxStamp /\ i \in 1..Len(traced)
    BY <1>1
  <2>2. /\ s \in 0..MaxStamp
        /\ stamp[t] # MaxStamp /\ traced[i].stamp # MaxStamp => stamp[t] < s /\ traced[i].stamp < s
    BY <2>1, StampsStep
  <2>3. /\ Trace(t, s, {i})
        /\ overflown' = (overflown \/ MaxStamp \in {stamp[t], traced[i].stamp})
    BY <1>3 DEF RemoteEvent
  <2>4. /\ overflown' \in BOOLEAN
        /\ ~overflown' => ~overflown /\ stamp[t] # MaxStamp /\ traced[i].stamp # MaxStamp
    BY <2>3, Zenon
  <2>5. {i} \in SUBSET (1..Len(traced)) /\ \A k \in {i} : k = i
    BY <2>1
  <2>6. ~overflown' => ~overflown /\ stamp[t] < s /\ \A k \in {i} : traced[k].stamp < s
    BY <2>2, <2>4, <2>5
  <2> HIDE DEF s
  <2> QED BY <2>2, <2>3, <2>4, <2>5, <2>6, TraceKeeps DEF Trace
<1> QED BY <1>2, <1>3 DEF TraceNext

\* A scheduled event has the highest id and Lamport clock.
LEMMA ScheduleKeeps ==
  ASSUME QueueInv, NEW d \in SimDelays, NEW k \in {0, 1}, Schedule(d, k)
  PROVE  QueueInv' /\ UNCHANGED traceVars
<1> DEFINE e == [at |-> now + d, lamport |-> lamport', id |-> serial']
<1>1. /\ serial' = serial + 1 /\ lamport' = lamport + k /\ queue' = queue \cup {e}
      /\ UNCHANGED <<now, popped, traceVars>>
  BY DEF Schedule
<1>2. d \in Nat /\ now \in Nat /\ serial \in Nat /\ lamport \in Nat /\ k \in Nat
  BY SimBounds DEF QueueInv
<1>3. e \in QueuedEvent /\ e.at >= now /\ e.lamport = lamport' /\ e.id = serial'
      /\ lamport' \in Nat /\ serial' \in Nat /\ lamport <= lamport' /\ serial < serial'
  BY <1>1, <1>2 DEF QueuedEvent
<1>4. queue \subseteq QueuedEvent /\ popped \in Seq(QueuedEvent)
  BY DEF QueueInv
<1>5. \A f \in queue : /\ f.at \in Nat /\ f.lamport \in Nat /\ f.id \in Nat
                       /\ now <= f.at /\ f.lamport <= lamport /\ f.id <= serial
  BY <1>4 DEF QueuedEvent, QueueInv
<1>6. \A i \in 1..Len(popped) : /\ popped[i].at \in Nat /\ popped[i].id \in Nat
                                /\ popped[i].at <= now /\ popped[i].id <= serial
  <2>1. \A i \in 1..Len(popped) : popped[i] \in QueuedEvent
    BY <1>4, ElementOfSeq
  <2> QED BY <2>1 DEF QueueInv, QueuedEvent
<1>7. e.at \in Nat
  BY <1>3 DEF QueuedEvent
<1> HIDE DEF e
<1>8. \A f \in queue' : now' <= f.at /\ f.lamport <= lamport' /\ f.id <= serial'
  BY <1>1, <1>2, <1>3, <1>5
<1>9. \A f, g \in queue' : (f.id = g.id => f = g) /\ (f.id < g.id => f.lamport <= g.lamport)
  <2>1. \A f, g \in queue : (f.id = g.id => f = g) /\ (f.id < g.id => f.lamport <= g.lamport)
    BY DEF QueueInv
  <2>2. \A f \in queue : f.id < e.id /\ f.lamport <= e.lamport
    BY <1>2, <1>3, <1>5
  <2>3. \A f \in queue : f.id # e.id /\ ~(e.id < f.id)
    BY <1>2, <1>3, <1>5, <2>2
  <2>4. e.id \in Nat
    BY <1>3
  <2> QED BY <1>1, <2>1, <2>2, <2>3, <2>4
<1>10. \A i \in 1..Len(popped') : popped'[i].at <= now' /\ popped'[i].id <= serial'
  BY <1>1, <1>2, <1>3, <1>6
<1>11. \A i \in 1..Len(popped') : \A f \in queue' : Sooner(popped'[i], f)
  <2>1. \A i \in 1..Len(popped) : Sooner(popped[i], e)
    BY <1>2, <1>3, <1>6, <1>7 DEF Sooner
  <2> QED BY <1>1, <2>1 DEF QueueInv
<1>12. queue' \subseteq QueuedEvent
  BY <1>1, <1>3, <1>4
<1> QED BY <1>1, <1>2, <1>3, <1>4, <1>8, <1>9, <1>10, <1>11, <1>12 DEF QueueInv

\* Nothing is queued that is due sooner than what is popped.
LEMMA PopIsSoonest ==
  ASSUME QueueInv, NEW e \in queue, \A f \in queue : ~Before(f, e)
  PROVE  \A f \in queue : f # e => Sooner(e, f)
<1> SUFFICES ASSUME NEW f \in queue, f # e PROVE Sooner(e, f)
  OBVIOUS
<1>1. /\ e.at \in Nat /\ e.lamport \in Nat /\ e.id \in Nat
      /\ f.at \in Nat /\ f.lamport \in Nat /\ f.id \in Nat
  BY DEF QueueInv, QueuedEvent
<1>2. f.id # e.id /\ (f.id < e.id => f.lamport <= e.lamport)
  BY DEF QueueInv
<1>3. /\ ~(f.at < e.at) /\ ~(f.at = e.at /\ f.lamport < e.lamport)
      /\ ~(f.at = e.at /\ f.lamport = e.lamport /\ f.id < e.id)
  BY DEF Before
<1>4. CASE f.at = e.at
  <2>1. ~(f.id < e.id)
    BY <1>1, <1>2, <1>3, <1>4
  <2>2. e.id < f.id
    BY <1>1, <1>2, <2>1
  <2> QED BY <1>4, <2>2 DEF Sooner
<1>5. CASE f.at # e.at
  <2>1. e.at < f.at
    BY <1>1, <1>3, <1>5
  <2> QED BY <2>1 DEF Sooner
<1> QED BY <1>4, <1>5

\* The event popped comes after those popped and before those left.
LEMMA PopKeeps == ASSUME QueueInv, PopEvent PROVE QueueInv' /\ UNCHANGED traceVars
<1>1. PICK e \in queue :
        /\ \A f \in queue : ~Before(f, e)
        /\ queue' = queue \ {e} /\ popped' = Append(popped, e) /\ now' = e.at
        /\ lamport' = IF queue = {e} THEN 0 ELSE lamport
  BY DEF PopEvent
<1>2. UNCHANGED <<serial, traceVars>>
  BY DEF PopEvent
<1>3. queue \subseteq QueuedEvent /\ popped \in Seq(QueuedEvent) /\ e \in QueuedEvent
      /\ lamport \in Nat /\ serial \in Nat /\ now \in Nat
  BY DEF QueueInv
<1>4. \A f \in queue : f # e => Sooner(e, f)
  BY <1>1, PopIsSoonest
<1>5. \A f \in queue : /\ f.at \in Nat /\ f.lamport \in Nat /\ f.id \in Nat
                       /\ now <= f.at /\ f.lamport <= lamport /\ f.id <= serial
  BY <1>3 DEF QueuedEvent, QueueInv
<1>6. /\ popped' \in Seq(QueuedEvent) /\ Len(popped') = Len(popped) + 1 /\ Len(popped) \in Nat
      /\ \A i \in 1..Len(popped) : popped'[i] = popped[i]
      /\ popped'[Len(popped) + 1] = e
  BY <1>1, <1>3, AppendProperties
<1>7. 1..Len(popped') = 1..Len(popped) \cup {Len(popped) + 1}
  BY <1>6
<1>8. \A i \in 1..Len(popped) : /\ popped[i].at \in Nat /\ popped[i].id \in Nat
                                /\ popped[i].at <= now /\ popped[i].id <= serial
  <2>1. \A i \in 1..Len(popped) : popped[i] \in QueuedEvent
    BY <1>3, ElementOfSeq
  <2> QED BY <2>1 DEF QueueInv, QueuedEvent
<1>9. \A f \in queue' : /\ f \in queue /\ f # e
                        /\ now' <= f.at /\ f.lamport <= lamport' /\ f.id <= serial'
  BY <1>1, <1>2, <1>4, <1>5 DEF Sooner
<1>10. \A f, g \in queue' : (f.id = g.id => f = g) /\ (f.id < g.id => f.lamport <= g.lamport)
  BY <1>1 DEF QueueInv
<1>11. \A i \in 1..Len(popped') : popped'[i].at <= now' /\ popped'[i].id <= serial'
  <2>1. \A i \in 1..Len(popped) : popped[i].at <= e.at
    BY <1>3, <1>5, <1>8
  <2>2. e.at <= now' /\ e.id <= serial'
    BY <1>1, <1>2, <1>5
  <2> QED BY <1>1, <1>2, <1>6, <1>7, <1>8, <2>1, <2>2
<1>12. \A i \in 1..Len(popped') : \A f \in queue' : Sooner(popped'[i], f)
  BY <1>4, <1>6, <1>7, <1>9 DEF QueueInv
<1>13. \A i, j \in 1..Len(popped') : i < j => Sooner(popped'[i], popped'[j])
  <2> SUFFICES ASSUME NEW i \in 1..Len(popped'), NEW j \in 1..Len(popped'), i < j
               PROVE  Sooner(popped'[i], popped'[j])
    OBVIOUS
  <2>1. i \in 1..Len(popped)
    BY <1>6
  <2>2. CASE j \in 1..Len(popped)
    BY <1>6, <2>1, <2>2 DEF QueueInv
  <2>3. CASE j = Len(popped) + 1
    BY <1>6, <2>1, <2>3 DEF QueueInv
  <2> QED BY <1>7, <2>2, <2>3
<1>14. lamport' \in Nat /\ now' \in Nat /\ serial' \in Nat /\ queue' \subseteq QueuedEvent
  BY <1>1, <1>2, <1>3, <1>5
<1> QED BY <1>2, <1>6, <1>9, <1>10, <1>11, <1>12, <1>13, <1>14 DEF QueueInv

\* For any threads, delays and limit of timestamps: short of the limit a cause
\* happens before its effect, and events of one moment are popped in the order
\* they were scheduled (tracing/types.rs, time/types.rs).
THEOREM OrderIsSound == SimSpec => []OrderSound
<1>1. SimInit => TraceInv /\ QueueInv
  <2> SUFFICES ASSUME SimInit PROVE TraceInv /\ QueueInv
    OBVIOUS
  <2>1. << >> \in Seq(TracedEvent) /\ << >> \in Seq(QueuedEvent) /\ 1..Len(<< >>) = {}
    OBVIOUS
  <2>2. TraceInv
    <3>1. 0 \in 0..MaxStamp /\ FALSE \in BOOLEAN
      BY SimBounds
    <3>2. stamp \in [SimThread -> 0..MaxStamp]
      BY <3>1 DEF SimInit
    <3>3. overflown \in BOOLEAN
      BY DEF SimInit
    <3> QED BY <2>1, <3>2, <3>3 DEF SimInit, TraceInv
  <2>3. QueueInv
    BY <2>1 DEF SimInit, QueueInv
  <2> QED BY <2>2, <2>3
<1>2. TraceInv /\ QueueInv /\ [TraceNext \/ QueueNext]_simVars => TraceInv' /\ QueueInv'
  <2> SUFFICES ASSUME TraceInv, QueueInv, [TraceNext \/ QueueNext]_simVars
               PROVE  TraceInv' /\ QueueInv'
    OBVIOUS
  <2>1. UNCHANGED traceVars => TraceInv'
    BY DEF TraceInv, traceVars
  <2>2. UNCHANGED queueVars => QueueInv'
    BY DEF QueueInv, queueVars
  <2>3. CASE QueueNext
    BY <2>1, <2>3, ScheduleKeeps, PopKeeps DEF QueueNext
  <2>4. CASE TraceNext
    BY <2>2, <2>4, TraceStep
  <2>5. CASE UNCHANGED simVars
    BY <2>1, <2>2, <2>5 DEF simVars
  <2> QED BY <2>3, <2>4, <2>5
<1>3. TraceInv /\ QueueInv => OrderSound
  <2> SUFFICES ASSUME TraceInv, QueueInv PROVE OrderSound
    OBVIOUS
  <2>1. DOMAIN traced = 1..Len(traced) /\ DOMAIN popped = 1..Len(popped)
    BY DEF TraceInv, QueueInv
  <2>2. CausalityRespected
    <3> SUFFICES ASSUME ~overflown, NEW j \in 1..Len(traced), NEW i \in traced[j].past
                 PROVE  HappensBefore(traced[i], traced[j]) /\ ~HappensBefore(traced[j], traced[i])
      BY <2>1 DEF CausalityRespected
    <3>1. traced[i].stamp < traced[j].stamp /\ i \in 1..Len(traced) /\ MaxStamp \in Nat
      BY SimBounds DEF TraceInv
    <3>2. traced[i] \in TracedEvent /\ traced[j] \in TracedEvent
      BY <3>1, ElementOfSeq DEF TraceInv
    <3>3. traced[i].stamp \in Nat /\ traced[j].stamp \in Nat
      BY <3>1, <3>2 DEF TracedEvent
    <3> QED BY <3>1, <3>3 DEF HappensBefore
  <2>3. \A e, f \in queue : SameEvent(e, f) \/ Before(e, f) \/ Before(f, e)
    <3> SUFFICES ASSUME NEW e \in queue, NEW f \in queue, e.id # f.id
                 PROVE  Before(e, f) \/ Before(f, e)
      BY DEF SameEvent
    <3>1. /\ e.at \in Nat /\ e.lamport \in Nat /\ e.id \in Nat
          /\ f.at \in Nat /\ f.lamport \in Nat /\ f.id \in Nat
      BY DEF QueueInv, QueuedEvent
    <3> QED BY <3>1 DEF Before
  <2>4. ReplayOrder
    BY <2>1, <2>3 DEF ReplayOrder, QueueInv, Sooner
  <2> QED BY <2>2, <2>4 DEF OrderSound
<1> QED BY <1>1, <1>2, <1>3, PTL DEF SimSpec

-----------------------------------------------------------------------------
(* Contexts, tenants and error numbers: Tenancy. *)

\* Contexts as they are kept.
Context == [req : Request, priority : PriorityLevel, tier : TenantTier, turbo : BOOLEAN,
            slot : Slot \cup {NoSlot}, lowest : TenantTier, byTurbo : BOOLEAN]

\* Turbo mode is a matter of where a context began and how low it went.
ContextOK(k) ==
  /\ k \in Context /\ k.lowest <= k.tier
  /\ k.turbo <=> k.byTurbo /\ UsesTurboAcceleration(k.lowest)

\* Live contexts are sound and share a slot only with their copies.
ContextInv ==
  /\ ctx \in [Ctx -> Context \cup {Absent}]
  /\ \A c \in Ctx : ctx[c] # Absent => ContextOK(ctx[c])
  /\ \A c, d \in Ctx : /\ ctx[c] # Absent /\ ctx[d] # Absent
                       /\ ctx[c].slot # NoSlot /\ ctx[c].slot = ctx[d].slot
                       => ctx[c].req = ctx[d].req

\* The limits are those of the tier until a load, and all zero after it.
TenantInv ==
  /\ tenant.tier \in TenantTier /\ stored \in TenantTier /\ tenant.loaded \in BOOLEAN
  /\ ~tenant.loaded => tenant.config = ForTier(tenant.tier)
  /\ tenant.loaded => tenant.config = DefaultConfig

\* The limits of a tier, one by one.
LEMMA TierLimits ==
  /\ /\ ForTier(0).requests = 5 /\ ForTier(0).millis = 100
     /\ ForTier(0).memory = 128 /\ ForTier(0).cpu = 100
     /\ ~ForTier(0).turbo /\ ~ForTier(0).sentinel
  /\ /\ ForTier(1).requests = 20 /\ ForTier(1).millis = 500
     /\ ForTier(1).memory = 512 /\ ForTier(1).cpu = 500
     /\ ~ForTier(1).turbo /\ ~ForTier(1).sentinel
  /\ /\ ForTier(2).requests = 100 /\ ForTier(2).millis = 2000
     /\ ForTier(2).memory = 2048 /\ ForTier(2).cpu = 2000
     /\ ForTier(2).turbo /\ ~ForTier(2).sentinel
  /\ /\ ForTier(3).requests = 500 /\ ForTier(3).millis = 10000
     /\ ForTier(3).memory = 8192 /\ ForTier(3).cpu = 10000
     /\ ForTier(3).turbo /\ ~ForTier(3).sentinel
  /\ /\ ForTier(4).requests = 99999999 /\ ForTier(4).millis = 60000
     /\ ForTier(4).memory = 99999999 /\ ForTier(4).cpu = 99999999
     /\ ForTier(4).turbo /\ ForTier(4).sentinel
<1>1. /\ ForTier(0).requests = 5 /\ ForTier(0).millis = 100
     /\ ForTier(0).memory = 128 /\ ForTier(0).cpu = 100
  BY SMT DEF ForTier
<1>2. /\ ForTier(1).requests = 20 /\ ForTier(1).millis = 500
     /\ ForTier(1).memory = 512 /\ ForTier(1).cpu = 500
  BY SMT DEF ForTier
<1>3. /\ ForTier(2).requests = 100 /\ ForTier(2).millis = 2000
     /\ ForTier(2).memory = 2048 /\ ForTier(2).cpu = 2000
  BY SMT DEF ForTier
<1>4. /\ ForTier(3).requests = 500 /\ ForTier(3).millis = 10000
     /\ ForTier(3).memory = 8192 /\ ForTier(3).cpu = 10000
  BY SMT DEF ForTier
<1>5. /\ ForTier(4).requests = 99999999 /\ ForTier(4).millis = 60000
     /\ ForTier(4).memory = 99999999 /\ ForTier(4).cpu = 99999999
  BY SMT DEF ForTier
<1>6. \A t \in 0..4 : ForTier(t).turbo = (t >= 2) /\ ForTier(t).sentinel = (t = 4)
  BY SMT DEF ForTier
<1>7. /\ ~(0 >= 2) /\ ~(1 >= 2) /\ 2 >= 2 /\ 3 >= 2 /\ 4 >= 2
      /\ 0 \in 0..4 /\ 1 \in 0..4 /\ 2 \in 0..4 /\ 3 \in 0..4 /\ 4 \in 0..4
  OBVIOUS
<1>8. /\ ~ForTier(0).turbo /\ ~ForTier(1).turbo /\ ForTier(2).turbo /\ ForTier(3).turbo
      /\ ForTier(4).turbo
  BY <1>6, <1>7, Zenon
<1>9. 0 # 4 /\ 1 # 4 /\ 2 # 4 /\ 3 # 4 /\ 4 = 4
  OBVIOUS
<1>10. /\ ~ForTier(0).sentinel /\ ~ForTier(1).sentinel /\ ~ForTier(2).sentinel
       /\ ~ForTier(3).sentinel /\ ForTier(4).sentinel
  BY <1>6, <1>7, <1>9, Zenon
<1> QED BY <1>1, <1>2, <1>3, <1>4, <1>5, <1>8, <1>10, SMT

\* Tiers grant more and more.
LEMMA TiersAreNested == TiersNested
<1> SUFFICES ASSUME NEW t \in TenantTier
             PROVE  /\ \A u \in NextTier(t) : Within(ForTier(t), ForTier(u)) /\ CanUpgradeTo(t, u)
                                              /\ PreviousTier(u) = {t}
                    /\ ForTier(t).turbo = UsesTurboAcceleration(t)
                    /\ ForTier(t).sentinel = HasSentinelMonitoring(t)
  BY DEF TiersNested
<1>1. t \in {0, 1, 2, 3, 4} /\ t \in Int
  BY DEF TenantTier
<1>2. \A u \in NextTier(t) : u = t + 1 /\ u <= 4 /\ u > t /\ PreviousTier(u) = {t}
  BY <1>1 DEF NextTier, PreviousTier, TenantTier
<1>3. ASSUME NEW u \in NextTier(t) PROVE Within(ForTier(t), ForTier(u))
  <2>1. CASE t = 0
    BY <1>2, <1>3, <2>1, TierLimits, SMT DEF Within
  <2>2. CASE t = 1
    BY <1>2, <1>3, <2>2, TierLimits, SMT DEF Within
  <2>3. CASE t = 2
    BY <1>2, <1>3, <2>3, TierLimits, SMT DEF Within
  <2>4. CASE t = 3
    BY <1>2, <1>3, <2>4, TierLimits, SMT DEF Within
  <2>5. t # 4
    BY <1>2
  <2> QED BY <1>1, <2>1, <2>2, <2>3, <2>4, <2>5
<1>4. ForTier(t).turbo = (t >= 2) /\ ForTier(t).sentinel = (t = 4)
  BY SMT DEF ForTier
<1>5. (t >= 2) = (t \in {2, 3, 4})
  BY <1>1
<1> QED BY <1>2, <1>3, <1>4, <1>5 DEF CanUpgradeTo, UsesTurboAcceleration, HasSentinelMonitoring

\* The numbers are the ones their readers rely on.
LEMMA NumbersAreSound == ErrorNumbersSound
<1>1. \A e, f \in LaplaceErrors : e[1] = f[1] => e = f
  BY SMT DEF LaplaceErrors
<1>2. \A e \in LaplaceErrors : FromCode(e[1]) = e[2]
  BY <1>1, SMT DEF FromCode
<1>3. ASSUME NEW n \in 0..10
      PROVE  LET e == FromCode(1000 * n + 999) IN ~IsRetryable(e) /\ ~IsResourceError(e)
  <2>1. ~\E e \in LaplaceErrors : e[1] = 1000 * n + 999
    BY SMT DEF LaplaceErrors
  <2>2. FromCode(1000 * n + 999) = "Internal"
    BY <2>1, SMT DEF FromCode
  <2> QED BY <2>2, SMT DEF IsRetryable, IsResourceError
<1>4. \A e, f \in TenantErrors : e[1] = f[1] => e = f
  BY SMT DEF TenantErrors
<1>5. ASSUME NEW e \in TenantErrors
      PROVE  /\ IsTurboError(e[2]) <=> e[1] \div 1000 = 3
             /\ IsTurboError(e[2]) <=> ToProtoCategory(e[2]) = "TURBO_ERROR"
             /\ IsRecoverable(e[2]) => ToProtoCategory(e[2]) \in {"QUOTA_EXCEEDED", "TURBO_ERROR"}
             /\ SuggestsUpgrade(e[2]) => ToProtoCategory(e[2]) \in {"QUOTA_EXCEEDED", "TURBO_ERROR"}
  BY <1>5, SMT DEF TenantErrors, IsTurboError, IsRecoverable, SuggestsUpgrade, ToProtoCategory
<1>6. ASSUME NEW e \in TenantErrors PROVE FromCode(e[1]) = e[2] <=> e[2] = "Internal"
  <2>1. ASSUME NEW l \in LaplaceErrors, l[1] = e[1] PROVE l[2] # e[2] /\ e[2] # "Internal"
    BY <2>1, SMT DEF LaplaceErrors, TenantErrors
  <2>2. CASE \E l \in LaplaceErrors : l[1] = e[1]
    <3> DEFINE c == CHOOSE l \in LaplaceErrors : l[1] = e[1]
    <3>1. c \in LaplaceErrors /\ c[1] = e[1]
      BY <2>2
    <3>2. FromCode(e[1]) = c[2]
      BY <2>2 DEF FromCode
    <3> HIDE DEF c
    <3> QED BY <2>1, <3>1, <3>2
  <2>3. CASE ~\E l \in LaplaceErrors : l[1] = e[1]
    <3>1. FromCode(e[1]) = "Internal"
      BY <2>3 DEF FromCode
    <3> QED BY <3>1
  <2> QED BY <2>2, <2>3
<1> QED BY <1>2, <1>3, <1>4, <1>5, <1>6, SMT DEF ErrorNumbersSound

\* A context whose slot only its copies have leaves the others' as they are.
LEMMA ContextChanges ==
  ASSUME ContextInv, NEW c \in Ctx, NEW k, k = Absent \/ ContextOK(k),
         ctx' = [ctx EXCEPT ![c] = k],
         k # Absent /\ k.slot # NoSlot =>
           \A d \in Ctx : d # c /\ ctx[d] # Absent /\ ctx[d].slot = k.slot => ctx[d].req = k.req
  PROVE  ContextInv'
<1>1. /\ ctx \in [Ctx -> Context \cup {Absent}]
      /\ ctx'[c] = k /\ \A d \in Ctx : d # c => ctx'[d] = ctx[d]
  BY DEF ContextInv
<1>2. ctx' \in [Ctx -> Context \cup {Absent}]
  BY <1>1 DEF ContextOK
<1>3. \A d \in Ctx : ctx'[d] # Absent => ContextOK(ctx'[d])
  BY <1>1 DEF ContextInv
<1>4. ASSUME NEW a \in Ctx, NEW b \in Ctx, ctx'[a] # Absent, ctx'[b] # Absent,
             ctx'[a].slot # NoSlot, ctx'[a].slot = ctx'[b].slot
      PROVE  ctx'[a].req = ctx'[b].req
  <2>1. CASE a = c
    BY <1>1, <1>4, <2>1
  <2>2. CASE b = c
    BY <1>1, <1>4, <2>2
  <2>3. CASE a # c /\ b # c
    BY <1>1, <1>4, <2>3 DEF ContextInv
  <2> QED BY <2>1, <2>2, <2>3
<1> QED BY <1>2, <1>3, <1>4 DEF ContextInv

\* What is written over a context, and what with_tier makes of it.
LEMMA RewrittenContext ==
  ASSUME NEW k, ContextOK(k)
  PROVE  /\ \A p \in Nat : LET n == [k EXCEPT !.priority = IF p < 5 THEN p ELSE 5] IN
                             ContextOK(n) /\ n.slot = k.slot /\ n.req = k.req
         /\ \A s \in Slot \cup {NoSlot} : LET n == [k EXCEPT !.slot = s] IN
                                            ContextOK(n) /\ n.slot = s
         /\ \A r \in Request : LET n == [k EXCEPT !.req = r, !.slot = NoSlot] IN
                                 ContextOK(n) /\ n.slot = NoSlot
         /\ \A t \in TenantTier :
              LET n == [k EXCEPT !.tier = t, !.turbo = @ /\ UsesTurboAcceleration(t),
                                 !.lowest = IF t < @ THEN t ELSE @] IN
              ContextOK(n) /\ n.slot = k.slot /\ n.req = k.req
<1>1. /\ k \in Context /\ k.tier \in 0..4 /\ k.lowest \in 0..4 /\ k.lowest <= k.tier
      /\ k.turbo <=> k.byTurbo /\ UsesTurboAcceleration(k.lowest)
      /\ k.turbo \in BOOLEAN /\ k.byTurbo \in BOOLEAN
  BY DEF ContextOK, Context, TenantTier
<1>2. ASSUME NEW p \in Nat
      PROVE  LET n == [k EXCEPT !.priority = IF p < 5 THEN p ELSE 5] IN
             ContextOK(n) /\ n.slot = k.slot /\ n.req = k.req
  <2> DEFINE n == [k EXCEPT !.priority = IF p < 5 THEN p ELSE 5]
  <2>1. n \in Context
    BY <1>1 DEF Context, PriorityLevel
  <2>2. n.tier = k.tier /\ n.lowest = k.lowest /\ n.slot = k.slot /\ n.req = k.req
        /\ n.turbo = k.turbo /\ n.byTurbo = k.byTurbo
    BY <1>1 DEF Context
  <2> HIDE DEF n
  <2>3. ContextOK(n)
    BY <1>1, <2>1, <2>2 DEF ContextOK
  <2> QED BY <2>2, <2>3 DEF n
<1>3. ASSUME NEW s \in Slot \cup {NoSlot}
      PROVE  LET n == [k EXCEPT !.slot = s] IN ContextOK(n) /\ n.slot = s
  <2> DEFINE n == [k EXCEPT !.slot = s]
  <2>1. n \in Context
    BY <1>1 DEF Context
  <2>2. n.tier = k.tier /\ n.lowest = k.lowest /\ n.slot = s
        /\ n.turbo = k.turbo /\ n.byTurbo = k.byTurbo
    BY <1>1 DEF Context
  <2> HIDE DEF n
  <2>3. ContextOK(n)
    BY <1>1, <2>1, <2>2 DEF ContextOK
  <2> QED BY <2>2, <2>3 DEF n
<1>4. ASSUME NEW t \in TenantTier
      PROVE  LET n == [k EXCEPT !.tier = t, !.turbo = @ /\ UsesTurboAcceleration(t),
                                !.lowest = IF t < @ THEN t ELSE @] IN
             ContextOK(n) /\ n.slot = k.slot /\ n.req = k.req
  <2> DEFINE n == [k EXCEPT !.tier = t, !.turbo = @ /\ UsesTurboAcceleration(t),
                            !.lowest = IF t < @ THEN t ELSE @]
             low == IF t < k.lowest THEN t ELSE k.lowest
  <2>1. t \in 0..4 /\ low \in TenantTier /\ low <= t
    BY <1>1 DEF TenantTier
  <2>2. UsesTurboAcceleration(low) <=> UsesTurboAcceleration(t) /\ UsesTurboAcceleration(k.lowest)
    BY <1>1, <2>1 DEF UsesTurboAcceleration
  <2>3. (k.turbo /\ UsesTurboAcceleration(t)) \in BOOLEAN
    BY Zenon
  <2>4. n.tier = t /\ n.lowest = low /\ n.slot = k.slot /\ n.req = k.req /\ n.byTurbo = k.byTurbo
        /\ n.turbo = (k.turbo /\ UsesTurboAcceleration(t))
    BY <1>1 DEF Context
  <2>5. n \in Context
    BY <1>1, <2>1, <2>3 DEF Context, TenantTier
  <2> HIDE DEF n, low
  <2>6. n.turbo <=> n.byTurbo /\ UsesTurboAcceleration(n.lowest)
    BY <1>1, <2>2, <2>4, Zenon
  <2>7. ContextOK(n)
    BY <2>1, <2>4, <2>5, <2>6 DEF ContextOK
  <2> QED BY <2>4, <2>7 DEF n
<1>5. ASSUME NEW r \in Request
      PROVE  LET n == [k EXCEPT !.req = r, !.slot = NoSlot] IN ContextOK(n) /\ n.slot = NoSlot
  <2> DEFINE n == [k EXCEPT !.req = r, !.slot = NoSlot]
  <2>1. n \in Context
    BY <1>1 DEF Context
  <2>2. n.tier = k.tier /\ n.lowest = k.lowest /\ n.slot = NoSlot
        /\ n.turbo = k.turbo /\ n.byTurbo = k.byTurbo
    BY <1>1 DEF Context
  <2> HIDE DEF n
  <2>3. ContextOK(n)
    BY <1>1, <2>1, <2>2 DEF ContextOK
  <2> QED BY <2>2, <2>3 DEF n
<1> QED BY <1>2, <1>3, <1>4, <1>5

\* Every operation on contexts keeps them.
LEMMA ContextStep == ContextInv /\ ContextNext => ContextInv' /\ UNCHANGED tenantVars
<1> SUFFICES ASSUME ContextInv, NEW c \in Ctx,
                    \/ \E r \in Request : NewContext(c, r) \/ NewTurboContext(c, r)
                    \/ DropContext(c)
                    \/ \E p \in {0, 6} : WithPriority(c, p)
                    \/ \E t \in TenantTier : WithTier(c, t)
                    \/ \E s \in Slot : AllocateTurboSlot(c, s)
                    \/ \E d \in Ctx : CloneContext(c, d) \/ \E r \in Request : SpawnChild(c, d, r)
             PROVE  ContextInv' /\ UNCHANGED tenantVars
  BY DEF ContextNext
<1>1. UNCHANGED tenantVars
  BY DEF NewContext, NewTurboContext, DropContext, WithPriority, WithTier, AllocateTurboSlot,
         SpawnChild, CloneContext
<1>2. /\ ctx \in [Ctx -> Context \cup {Absent}]
      /\ ctx[c] # Absent => ContextOK(ctx[c])
      /\ ctx[c] # Absent /\ ctx[c].slot # NoSlot =>
           \A d \in Ctx : ctx[d] # Absent /\ ctx[d].slot = ctx[c].slot => ctx[d].req = ctx[c].req
  BY DEF ContextInv
<1>3. ASSUME NEW r \in Request, NewContext(c, r) PROVE ContextInv'
  <2> DEFINE k == [req |-> r, priority |-> 3, tier |-> 1, turbo |-> FALSE, slot |-> NoSlot,
                   lowest |-> 1, byTurbo |-> FALSE]
  <2>1. ContextOK(k) /\ k.slot = NoSlot
    BY DEF ContextOK, Context, PriorityLevel, TenantTier, UsesTurboAcceleration
  <2>2. ctx' = [ctx EXCEPT ![c] = k]
    BY <1>3 DEF NewContext
  <2> HIDE DEF k
  <2> QED BY <2>1, <2>2, ContextChanges
<1>4. ASSUME NEW r \in Request, NewTurboContext(c, r) PROVE ContextInv'
  <2> DEFINE k == [req |-> r, priority |-> 3, tier |-> 2, turbo |-> TRUE, slot |-> NoSlot,
                   lowest |-> 2, byTurbo |-> TRUE]
  <2>1. ContextOK(k) /\ k.slot = NoSlot
    BY DEF ContextOK, Context, PriorityLevel, TenantTier, UsesTurboAcceleration
  <2>2. ctx' = [ctx EXCEPT ![c] = k]
    BY <1>4 DEF NewTurboContext
  <2> HIDE DEF k
  <2> QED BY <2>1, <2>2, ContextChanges
<1>5. ASSUME DropContext(c) PROVE ContextInv'
  BY <1>5, ContextChanges DEF DropContext
<1>6. ASSUME NEW p \in {0, 6}, WithPriority(c, p) PROVE ContextInv'
  <2> DEFINE k == [ctx[c] EXCEPT !.priority = IF p < 5 THEN p ELSE 5]
  <2>1. ctx[c] # Absent /\ ctx' = [ctx EXCEPT ![c] = k]
    BY <1>6 DEF WithPriority
  <2>2. p \in Nat
    OBVIOUS
  <2>3. ContextOK(k) /\ k.slot = ctx[c].slot /\ k.req = ctx[c].req
    BY <1>2, <2>1, <2>2, RewrittenContext
  <2> HIDE DEF k
  <2> QED BY <1>2, <2>1, <2>3, ContextChanges
<1>7. ASSUME NEW t \in TenantTier, WithTier(c, t) PROVE ContextInv'
  <2> DEFINE k == [ctx[c] EXCEPT !.tier = t, !.turbo = @ /\ UsesTurboAcceleration(t),
                                 !.lowest = IF t < @ THEN t ELSE @]
  <2>1. ctx[c] # Absent
    BY <1>7 DEF WithTier
  <2>2. ctx' = [ctx EXCEPT ![c] = k]
    BY <1>7 DEF WithTier
  <2>3. ContextOK(k) /\ k.slot = ctx[c].slot /\ k.req = ctx[c].req
    BY <1>2, <2>1, RewrittenContext
  <2> HIDE DEF k
  <2> QED BY <1>2, <2>1, <2>2, <2>3, ContextChanges
<1>8. ASSUME NEW s \in Slot, AllocateTurboSlot(c, s) PROVE ContextInv'
  <2> DEFINE k == [ctx[c] EXCEPT !.slot = s]
  <2>1. /\ ctx[c] # Absent /\ ctx' = [ctx EXCEPT ![c] = k]
        /\ \A d \in Ctx : ctx[d] # Absent => ctx[d].slot # s
    BY <1>8 DEF AllocateTurboSlot
  <2>2. ContextOK(k) /\ k.slot = s
    BY <1>2, <2>1, RewrittenContext
  <2> HIDE DEF k
  <2> QED BY <2>1, <2>2, ContextChanges
<1>9. ASSUME NEW d \in Ctx, NEW r \in Request, SpawnChild(c, d, r) PROVE ContextInv'
  <2> DEFINE k == [ctx[c] EXCEPT !.req = r, !.slot = NoSlot]
  <2>1. ctx[c] # Absent /\ ctx' = [ctx EXCEPT ![d] = k]
    BY <1>9 DEF SpawnChild
  <2>2. ContextOK(k) /\ k.slot = NoSlot
    BY <1>2, <2>1, RewrittenContext
  <2> HIDE DEF k
  <2> QED BY <2>1, <2>2, ContextChanges
<1>10. ASSUME NEW d \in Ctx, CloneContext(c, d) PROVE ContextInv'
  <2>1. ctx[c] # Absent /\ ctx' = [ctx EXCEPT ![d] = ctx[c]]
    BY <1>10 DEF CloneContext
  <2> QED BY <1>2, <2>1, ContextChanges
<1> QED BY <1>1, <1>3, <1>4, <1>5, <1>6, <1>7, <1>8, <1>9, <1>10

\* A tenant has its tier's limits until a load, and none after it.
LEMMA TenantStep == TenantInv /\ TenantNext => TenantInv' /\ UNCHANGED ctx
<1> SUFFICES ASSUME TenantInv, TenantNext PROVE TenantInv' /\ UNCHANGED ctx
  OBVIOUS
<1>1. CASE SaveTenant
  BY <1>1 DEF SaveTenant, TenantInv
<1>2. CASE LoadTenant
  BY <1>2 DEF LoadTenant, TenantInv
<1>3. ASSUME NEW t \in TenantTier, UpgradeTier(t) PROVE TenantInv' /\ UNCHANGED ctx
  BY <1>3 DEF UpgradeTier, TenantInv
<1> QED BY <1>1, <1>2, <1>3 DEF TenantNext

\* For any number of contexts, requests and slots: turbo mode is never regained,
\* a slot is shared only by copies of one request's context, a tenant has its
\* tier's limits exactly when it was not loaded, and error numbers survive the
\* wire, but no tenant error is a LaplaceError (context.rs, tenant/model.rs,
\* tenant/tier.rs, codes.rs, error/tenant.rs).
THEOREM TenantsAreSound == TenancySpec => []TenancySound
<1>1. TenancyInit => ContextInv /\ TenantInv
  <2> SUFFICES ASSUME TenancyInit PROVE ContextInv /\ TenantInv
    OBVIOUS
  <2>1. ContextInv
    BY DEF TenancyInit, ContextInv
  <2>2. PICK t \in TenantTier : tenant = [tier |-> t, config |-> ForTier(t), loaded |-> FALSE]
    BY DEF TenancyInit
  <2>3. tenant.tier = t /\ tenant.config = ForTier(t) /\ tenant.loaded = FALSE /\ stored = t
    BY <2>2 DEF TenancyInit
  <2>4. TenantInv
    BY <2>3 DEF TenantInv
  <2> QED BY <2>1, <2>4
<1>2. ContextInv /\ TenantInv /\ [ContextNext \/ TenantNext]_tenancyVars
        => ContextInv' /\ TenantInv'
  <2>1. ContextInv /\ UNCHANGED ctx => ContextInv'
    BY DEF ContextInv
  <2>2. TenantInv /\ UNCHANGED tenantVars => TenantInv'
    BY DEF TenantInv, tenantVars
  <2> QED BY <2>1, <2>2, ContextStep, TenantStep DEF tenancyVars
<1>3. ContextInv /\ TenantInv => TenancySound
  <2> SUFFICES ASSUME ContextInv, TenantInv PROVE TenancySound
    OBVIOUS
  <2>1. ASSUME NEW c \in Live
        PROVE  /\ IsValid(ctx[c])
               /\ ctx[c].turbo <=> ctx[c].byTurbo /\ UsesTurboAcceleration(ctx[c].lowest)
    <3>1. ContextOK(ctx[c])
      BY DEF Live, ContextInv
    <3>2. /\ ctx[c].priority \in PriorityLevel /\ ctx[c].tier \in 0..4 /\ ctx[c].lowest \in 0..4
          /\ ctx[c].lowest <= ctx[c].tier
          /\ ctx[c].turbo <=> ctx[c].byTurbo /\ UsesTurboAcceleration(ctx[c].lowest)
      BY <3>1 DEF ContextOK, Context, TenantTier
    <3>3. UsesTurboAcceleration(ctx[c].lowest) => UsesTurboAcceleration(ctx[c].tier)
      BY <3>2 DEF UsesTurboAcceleration
    <3> QED BY <3>2, <3>3 DEF IsValid, TenantTier
  <2>2. ContextsSound
    BY <2>1 DEF ContextsSound, ContextInv, Live, HasTurboSlot
  <2>3. LimitsSound
    <3>1. tenant.tier \in TenantTier /\ tenant.config = DefaultConfig => tenant.config # ForTier(tenant.tier)
      BY TierLimits, SMT DEF DefaultConfig, TenantTier
    <3> QED BY <3>1, TiersAreNested DEF LimitsSound, TenantInv
  <2> QED BY <2>2, <2>3, NumbersAreSound DEF TenancySound
<1> QED BY <1>1, <1>2, <1>3, PTL DEF TenancySpec
=============================================================================
