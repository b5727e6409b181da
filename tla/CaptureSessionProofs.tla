------------------------ MODULE CaptureSessionProofs ------------------------
(***************************************************************************)
(* Proofs about CaptureSession for any tests, threads, panics and bounds.  *)
(* The invariant has three layers: who is inside and which threads live    *)
(* (BaseInv), what the session has captured (OwnInv, ReturnInv), and the   *)
(* logical ids (PeerInv; ExplicitInv when all are explicit).               *)
(***************************************************************************)
EXTENDS CaptureSession, SequenceTheorems, TLAPS

\* Harness steps between taking CAPTURE_LOCK and releasing it.
Inside == {"locked", "reset", "installed", "running", "clearing", "joining", "unlocking"}

\* While the sender is in the slot.
Sending == {"installed", "running", "clearing"}

\* While there are events of the session to speak of.
Capturing == Sending \cup {"joining", "unlocking"}

\* CAPTURE_LOCK excludes: whoever is inside a session holds it.
OneInside == \A h \in Harness : pc[h] \in Inside <=> captureLock = h

\* A sender with a live receiver belongs to a session that has not cleared it.
SenderOwned == slot # NoOne /\ open[slot] => pc[slot] \in Sending

\* The sender is in the slot until it is cleared, and the collector has ended
\* only when nothing is left in the channel.
SlotInv ==
  \A h \in Harness :
    /\ pc[h] \in Sending => slot = h /\ open[h]
    /\ pc[h] \in {"running", "clearing"} => collecting[h]
    /\ pc[h] = "joining" /\ ~collecting[h] => queue[h] = << >>
    /\ pc[h] = "unlocking" => queue[h] = << >>

\* The test inside runs the latest session; before it runs nothing belongs to
\* that session, and it is among the abandoned ones only if it is discarded.
SessionInv ==
  /\ \A t \in Thread : session[t] <= begun
  /\ \A h \in Harness : pc[h] # "idle" => session[h] = begun /\ begun >= 1
  /\ \A h \in Harness : pc[h] \in {"locked", "reset", "installed"} =>
       /\ ~discard[h] /\ told[h] = << >> /\ begun \notin left
       /\ \A c \in Child : session[c] < begun
  /\ \A h \in Harness : pc[h] = "running" => ~discard[h]
  /\ \A h \in Harness : pc[h] # "idle" /\ begun \in left => discard[h]
  /\ left \subseteq 1..begun

\* A thread in emit is alive and carries its own event.
EmitLive ==
  /\ \A t \in Thread :
       epc[t] # "idle" => ev[t] \in Event /\ ev[t].by = t /\ ev[t].of = session[t]
  /\ \A c \in Child : epc[c] # "idle" => owner[c] # NoOne
  /\ \A h \in Harness : epc[h] # "idle" => pc[h] = "running"

\* A live worker works for a running test, or was left behind by a panic.
OwnerLive ==
  \A c \in Worker : owner[c] # NoOne =>
    \/ session[c] \in left
    \/ pc[owner[c]] = "running" /\ session[c] = session[owner[c]]

LiveInv == EmitLive /\ OwnerLive

\* e is of session n or of one that panicked, unless a thread emitted it that
\* nobody joins.
Owned(e, n) == e.by \in Harness \cup Worker => e.of \in {n} \cup left

\* What a session has captured is its own, or of threads left behind.
OwnInv ==
  \A h \in Harness : pc[h] \in Capturing =>
    /\ \A i \in 1..Len(queue[h]) : Owned(queue[h][i], session[h])
    /\ \A i \in 1..Len(got[h]) : Owned(got[h][i], session[h])

\* Collected and on its way: all that the threads of the test were told, in
\* that order.
ReturnInv ==
  \A h \in Harness : pc[h] \in Capturing /\ ~discard[h] =>
    OwnPart(told[h], got[h] \o queue[h], session[h])

IInv == OneInside /\ SenderOwned
BaseInv == TypeOK /\ IInv /\ SlotInv /\ SessionInv /\ LiveInv

-----------------------------------------------------------------------------
\* At most one test is inside.
LEMMA OneSession ==
  ASSUME TypeOK, OneInside, NEW g \in Harness, NEW h \in Harness, pc[g] # "idle", pc[h] # "idle"
  PROVE  g = h
  BY DEF TypeOK, OneInside, Inside

\* The first state: nobody inside, nothing captured.
LEMMA BaseInit == Init => BaseInv
<1> SUFFICES ASSUME Init PROVE BaseInv
  OBVIOUS
<1>1. TypeOK
  <2>1. /\ global \in BOOLEAN /\ discard \in [Harness -> BOOLEAN]
        /\ open \in [Harness -> BOOLEAN] /\ collecting \in [Harness -> BOOLEAN]
    BY DEF Init
  <2>2. /\ queue \in [Harness -> Seq(Event)] /\ got \in [Harness -> Seq(Event)]
        /\ told \in [Harness -> Seq(Event)]
    BY DEF Init
  <2>3. ev \in [Thread -> Event \cup {NoEvent}]
    BY DEF Init
  <2>4. session \in [Thread -> 0..MaxSessions] /\ made \in [Thread -> 0..MaxEvents]
        /\ begun \in 0..MaxSessions /\ resets \in 0..MaxLegacy
    BY BoundsNat DEF Init
  <2>5. room \in 0..LegacyRoom /\ \A t \in Thread : epc[t] = "idle"
    BY RoomNat DEF Init
  <2> QED BY <2>1, <2>2, <2>3, <2>4, <2>5 DEF Init, TypeOK
<1>2. IInv
  BY NoOneIsNoThread DEF Init, IInv, OneInside, SenderOwned, Inside, Thread
<1>3. SlotInv /\ SessionInv /\ LiveInv
  BY TestsAreNoChildren DEF Init, SlotInv, SessionInv, LiveInv, EmitLive, OwnerLive,
     Sending, Thread, Worker
<1> QED BY <1>1, <1>2, <1>3 DEF BaseInv

\* Tests and their children are threads, and nobody is both.
ThreadFacts ==
  /\ Harness \subseteq Thread /\ Child \subseteq Thread /\ Thread = Harness \cup Child
  /\ NoOne \notin Thread /\ NoOne \notin Harness /\ NoOne \notin Child /\ NoOne \notin Nat
  /\ \A c \in Child : c \notin Harness
  /\ Worker \subseteq Child

\* By the assumptions on the constants.
LEMMA ThreadKinds == ThreadFacts
  BY NoOneIsNoThread, TestsAreNoChildren DEF ThreadFacts, Thread, Worker

\* A test takes CAPTURE_LOCK: nobody else is inside.
LEMMA BeginBase ==
  ASSUME BaseInv, NEW h \in Harness, Begin(h)
  PROVE  BaseInv'
<1> USE DEF BaseInv
<1>0. ThreadFacts
  BY ThreadKinds
<1>1. /\ UNCHANGED <<slot, global, nextId, owner, tid, epc, ev, queue, open, got, collecting,
                     legacy, room, made, resets, left>>
      /\ captureLock = NoOne /\ captureLock' = h /\ begun' = begun + 1 /\ begun < MaxSessions
      /\ pc[h] = "idle"
      /\ \A g \in Harness : pc'[g] = IF g = h THEN "locked" ELSE pc[g]
      /\ \A g \in Harness : discard'[g] = IF g = h THEN FALSE ELSE discard[g]
      /\ \A g \in Harness : told'[g] = IF g = h THEN << >> ELSE told[g]
      /\ \A t \in Thread : session'[t] = IF t = h THEN begun + 1 ELSE session[t]
  BY <1>0 DEF Begin, Goto, ThreadFacts, TypeOK, slots, harness, threads, emits, channel, env
<1>x. /\ begun \in Nat /\ MaxSessions \in Nat /\ begun + 1 \in 0..MaxSessions
      /\ \A t \in Thread : session[t] \in Nat /\ session[t] < begun + 1
      /\ \A g \in Harness : pc[g] = "idle"
  <2>1. begun \in Nat /\ MaxSessions \in Nat /\ begun + 1 \in 0..MaxSessions
    BY <1>1, BoundsNat DEF TypeOK
  <2>2. \A t \in Thread : session[t] \in Nat /\ session[t] < begun + 1
    BY <2>1 DEF TypeOK, SessionInv
  <2>3. \A g \in Harness : pc[g] = "idle"
    <3>1. \A g \in Harness : pc[g] = "idle" \/ pc[g] \in Inside
      BY DEF TypeOK, Inside
    <3>2. \A g \in Harness : pc[g] \notin Inside
      BY <1>0, <1>1 DEF ThreadFacts, IInv, OneInside
    <3> QED BY <3>1, <3>2
  <2> QED BY <2>1, <2>2, <2>3
<1>2. TypeOK'
  <2>1. /\ pc' \in [Harness -> {"idle", "locked", "reset", "installed", "running",
                               "clearing", "joining", "unlocking"}]
        /\ discard' \in [Harness -> BOOLEAN]
        /\ told' \in [Harness -> Seq(Event)]
        /\ session' \in [Thread -> 0..MaxSessions]
    <3>1. pc' \in [Harness -> {"idle", "locked", "reset", "installed", "running",
                               "clearing", "joining", "unlocking"}]
      BY DEF Begin, Goto, TypeOK
    <3>2. discard' \in [Harness -> BOOLEAN] /\ told' \in [Harness -> Seq(Event)]
      BY DEF Begin, TypeOK
    <3>3. session' \in [Thread -> 0..MaxSessions]
      BY <1>x DEF Begin, TypeOK
    <3> QED BY <3>1, <3>2, <3>3
  <2> QED BY <1>0, <1>1, <2>1, <1>x DEF ThreadFacts, TypeOK
<1>3. IInv'
  BY <1>0, <1>1, <1>x DEF ThreadFacts, IInv, OneInside, SenderOwned, Inside, Sending, TypeOK
<1>4. SlotInv'
  BY <1>0, <1>1, <1>x DEF ThreadFacts, SlotInv, Sending
<1>5. SessionInv'
  <2>1. left \subseteq 1..(begun + 1) /\ begun + 1 \notin left
    BY <1>x DEF SessionInv
  <2>2. /\ \A t \in Thread : session'[t] <= begun'
        /\ \A c \in Child : session'[c] < begun'
    BY <1>0, <1>1, <1>x DEF ThreadFacts
  <2>3. /\ \A g \in Harness : pc'[g] # "idle" => g = h
        /\ session'[h] = begun' /\ begun' >= 1 /\ told'[h] = << >>
    BY <1>0, <1>1, <1>x DEF ThreadFacts
  <2>5. ~discard'[h]
    BY DEF Begin, TypeOK
  <2>4. pc'[h] = "locked" /\ left' = left /\ begun' = begun + 1
    BY <1>1
  <2> QED BY <2>1, <2>2, <2>3, <2>4, <2>5 DEF SessionInv
<1>6. LiveInv'
  <2>1. \A t \in Thread : epc[t] # "idle" => t # h
    BY <1>1 DEF LiveInv, EmitLive
  <2>2. \A c \in Worker : owner[c] # NoOne => session[c] \in left
    BY <1>0, <1>x DEF ThreadFacts, LiveInv, OwnerLive, TypeOK
  <2> QED BY <1>0, <1>1, <2>1, <2>2 DEF ThreadFacts, LiveInv, EmitLive, OwnerLive
<1> QED BY <1>2, <1>3, <1>4, <1>5, <1>6

\* The counter of implicit ids starts again.
LEMMA ResetIdsBase ==
  ASSUME BaseInv, NEW h \in Harness, ResetIds(h)
  PROVE  BaseInv'
<1> USE DEF BaseInv
<1>0. ThreadFacts
  BY ThreadKinds
<1>1. /\ UNCHANGED <<captureLock, slot, global, discard, session, owner, tid, epc, ev, queue,
                     open, got, collecting, legacy, room, begun, made, resets, told, left>>
      /\ nextId' = 0
      /\ pc[h] = "locked"
      /\ \A g \in Harness : pc'[g] = IF g = h THEN "reset" ELSE pc[g]
  BY <1>0 DEF ResetIds, Goto, ThreadFacts, TypeOK, slots, harness, threads, emits, channel,
     env
<1>2. TypeOK'
  <2>1. /\ pc' \in [Harness -> {"idle", "locked", "reset", "installed", "running",
                               "clearing", "joining", "unlocking"}]
    BY <1>0, <1>1 DEF ResetIds, Goto, ThreadFacts, TypeOK
  <2> QED BY <1>0, <1>1, <2>1 DEF ThreadFacts, TypeOK
<1>3. IInv'
  BY <1>0, <1>1 DEF ThreadFacts, IInv, OneInside, SenderOwned, Inside, Sending, TypeOK
<1>4. SlotInv'
  BY <1>0, <1>1 DEF ThreadFacts, SlotInv, Sending
<1>5. SessionInv'
  BY <1>0, <1>1 DEF ThreadFacts, SessionInv
<1>6. LiveInv'
  <2>1. EmitLive'
    BY <1>0, <1>1 DEF ThreadFacts, LiveInv, EmitLive
  <2>2. \A d \in Child : owner[d] # NoOne => owner[d] \in Harness
    BY DEF TypeOK
  <2>3. OwnerLive'
    BY <1>0, <1>1, <2>2 DEF ThreadFacts, LiveInv, OwnerLive
  <2> QED BY <2>1, <2>3 DEF LiveInv
<1> QED BY <1>2, <1>3, <1>4, <1>5, <1>6

\* The sender goes into the slot, with an empty channel.
LEMMA InstallBase ==
  ASSUME BaseInv, NEW h \in Harness, Install(h)
  PROVE  BaseInv'
<1> USE DEF BaseInv
<1>0. ThreadFacts
  BY ThreadKinds
<1>1. /\ UNCHANGED <<captureLock, global, nextId, discard, session, owner, tid, epc, ev,
                     collecting, legacy, room, begun, made, resets, told, left>>
      /\ slot' = h
      /\ pc[h] = "reset"
      /\ \A g \in Harness : pc'[g] = IF g = h THEN "installed" ELSE pc[g]
      /\ \A g \in Harness : queue'[g] = IF g = h THEN << >> ELSE queue[g]
      /\ \A g \in Harness : got'[g] = IF g = h THEN << >> ELSE got[g]
      /\ \A g \in Harness : open'[g] = IF g = h THEN TRUE ELSE open[g]
  BY <1>0 DEF Install, Goto, ThreadFacts, TypeOK, slots, harness, threads, emits, channel, env
<1>x. \A g \in Harness : pc[g] # "idle" => g = h
  BY <1>1, OneSession DEF IInv
<1>2. TypeOK'
  <2>1. /\ pc' \in [Harness -> {"idle", "locked", "reset", "installed", "running",
                               "clearing", "joining", "unlocking"}]
        /\ open' \in [Harness -> BOOLEAN]
        /\ queue' \in [Harness -> Seq(Event)]
        /\ got' \in [Harness -> Seq(Event)]
    BY <1>0, <1>1, <1>x, SMTT(30) DEF Install, Goto, ThreadFacts, TypeOK
  <2> QED BY <1>0, <1>1, <2>1, <1>x DEF ThreadFacts, TypeOK
<1>3. IInv'
  BY <1>0, <1>1, <1>x DEF ThreadFacts, IInv, OneInside, SenderOwned, Inside, Sending, TypeOK
<1>4. SlotInv'
  <2>1. \A g \in Harness : g # h => pc'[g] = "idle"
    BY <1>1, <1>x
  <2> QED BY <1>1, <2>1 DEF SlotInv, Sending
<1>5. SessionInv'
  BY <1>0, <1>1, <1>x DEF ThreadFacts, SessionInv
<1>6. LiveInv'
  <2>1. EmitLive'
    BY <1>0, <1>1, <1>x DEF ThreadFacts, LiveInv, EmitLive
  <2>2. \A d \in Child : owner[d] # NoOne => owner[d] \in Harness
    BY DEF TypeOK
  <2>3. OwnerLive'
    BY <1>0, <1>1, <1>x, <2>2 DEF ThreadFacts, LiveInv, OwnerLive
  <2> QED BY <2>1, <2>3 DEF LiveInv
<1> QED BY <1>2, <1>3, <1>4, <1>5, <1>6

\* The collector starts and the test runs.
LEMMA SpawnCollectorBase ==
  ASSUME BaseInv, NEW h \in Harness, SpawnCollector(h)
  PROVE  BaseInv'
<1> USE DEF BaseInv
<1>0. ThreadFacts
  BY ThreadKinds
<1>1. /\ UNCHANGED <<captureLock, slot, global, nextId, discard, session, owner, epc, ev, queue,
                     open, got, legacy, room, begun, made, resets, told, left>>
      /\ pc[h] = "installed"
      /\ \A g \in Harness : pc'[g] = IF g = h THEN "running" ELSE pc[g]
      /\ \A g \in Harness : collecting'[g] = IF g = h THEN TRUE ELSE collecting[g]
  BY <1>0 DEF SpawnCollector, Goto, ThreadFacts, TypeOK, slots, harness, threads, emits,
     channel, env
<1>x. ExplicitId[h] \in Nat \cup {NoOne}
  BY <1>0, IdsAssigned DEF ThreadFacts
<1>2. TypeOK'
  <2>1. /\ pc' \in [Harness -> {"idle", "locked", "reset", "installed", "running",
                               "clearing", "joining", "unlocking"}]
        /\ collecting' \in [Harness -> BOOLEAN]
        /\ tid' \in [Thread -> Nat \cup {NoOne}]
    BY <1>0, <1>1, <1>x DEF SpawnCollector, Goto, ThreadFacts, TypeOK, Thread
  <2>2. epc[h] = "idle" /\ \A t \in Thread : t # h => tid'[t] = tid[t]
    BY <1>0, <1>1 DEF SpawnCollector, LiveInv, EmitLive, ThreadFacts, TypeOK
  <2>3. \A t \in Thread : epc'[t] # "idle" => ev'[t].id = tid'[t]
    BY <1>1, <2>2 DEF TypeOK
  <2> QED BY <1>0, <1>1, <2>1, <2>3, <1>x DEF ThreadFacts, TypeOK
<1>3. IInv'
  BY <1>0, <1>1, <1>x DEF ThreadFacts, IInv, OneInside, SenderOwned, Inside, Sending, TypeOK
<1>4. SlotInv'
  BY <1>0, <1>1, <1>x DEF ThreadFacts, SlotInv, Sending
<1>5. SessionInv'
  BY <1>0, <1>1, <1>x DEF ThreadFacts, SessionInv
<1>6. LiveInv'
  <2>1. EmitLive'
    BY <1>0, <1>1, <1>x DEF ThreadFacts, LiveInv, EmitLive
  <2>2. \A d \in Child : owner[d] # NoOne => owner[d] \in Harness
    BY DEF TypeOK
  <2>3. OwnerLive'
    BY <1>0, <1>1, <1>x, <2>2 DEF ThreadFacts, LiveInv, OwnerLive
  <2> QED BY <2>1, <2>3 DEF LiveInv
<1> QED BY <1>2, <1>3, <1>4, <1>5, <1>6

\* The collector cannot be started.
LEMMA SpawnFailsBase ==
  ASSUME BaseInv, NEW h \in Harness, SpawnFails(h)
  PROVE  BaseInv'
<1> USE DEF BaseInv
<1>0. ThreadFacts
  BY ThreadKinds
<1>1. /\ UNCHANGED <<slot, global, nextId, discard, session, owner, tid, epc, ev, queue, got,
                     collecting, legacy, room, begun, made, resets, told, left>>
      /\ pc[h] = "installed"
      /\ captureLock' = NoOne
      /\ \A g \in Harness : pc'[g] = IF g = h THEN "idle" ELSE pc[g]
      /\ \A g \in Harness : open'[g] = IF g = h THEN FALSE ELSE open[g]
  BY <1>0 DEF SpawnFails, Goto, ThreadFacts, TypeOK, slots, harness, threads, emits,
     channel, env
<1>x. \A g \in Harness : pc[g] # "idle" => g = h
  BY <1>1, OneSession DEF IInv
<1>2. TypeOK'
  <2>1. /\ pc' \in [Harness -> {"idle", "locked", "reset", "installed", "running",
                               "clearing", "joining", "unlocking"}]
        /\ open' \in [Harness -> BOOLEAN]
    BY <1>0, <1>1, <1>x DEF SpawnFails, Goto, ThreadFacts, TypeOK
  <2> QED BY <1>0, <1>1, <2>1, <1>x DEF ThreadFacts, TypeOK
<1>3. IInv'
  BY <1>0, <1>1, <1>x, ZenonT(60) DEF ThreadFacts, IInv, OneInside, SenderOwned, Inside, Sending, TypeOK
<1>4. SlotInv'
  BY <1>0, <1>1, <1>x DEF ThreadFacts, SlotInv, Sending
<1>5. SessionInv'
  BY <1>0, <1>1, <1>x DEF ThreadFacts, SessionInv
<1>6. LiveInv'
  <2>1. EmitLive'
    BY <1>0, <1>1, <1>x DEF ThreadFacts, LiveInv, EmitLive
  <2>2. \A d \in Child : owner[d] # NoOne => owner[d] \in Harness
    BY DEF TypeOK
  <2>3. OwnerLive'
    BY <1>0, <1>1, <1>x, <2>2 DEF ThreadFacts, LiveInv, OwnerLive
  <2> QED BY <2>1, <2>3 DEF LiveInv
<1> QED BY <1>2, <1>3, <1>4, <1>5, <1>6

\* The test starts a thread.
LEMMA SpawnBase ==
  ASSUME BaseInv, NEW h \in Harness, NEW c \in Child, Spawn(h, c)
  PROVE  BaseInv'
<1> USE DEF BaseInv
<1>0. ThreadFacts
  BY ThreadKinds
<1>1. /\ UNCHANGED <<captureLock, slot, global, nextId, pc, discard, epc, ev, queue, open, got,
                     collecting, legacy, room, begun, made, resets, told, left>>
      /\ pc[h] = "running" /\ owner[c] = NoOne /\ session[c] # session[h]
      /\ \A d \in Child : owner'[d] = IF d = c THEN h ELSE owner[d]
      /\ \A t \in Thread : session'[t] = IF t = c THEN session[h] ELSE session[t]
  BY <1>0 DEF Spawn, ThreadFacts, TypeOK, slots, harness, threads, emits, channel, env
<1>x. ExplicitId[c] \in Nat \cup {NoOne} /\ c # h /\ \A g \in Harness : pc[g] # "idle" => g = h
  BY <1>0, <1>1, IdsAssigned, OneSession DEF ThreadFacts, IInv
<1>2. TypeOK'
  <2>1. /\ owner' \in [Child -> Harness \cup {NoOne}]
        /\ session' \in [Thread -> 0..MaxSessions]
        /\ tid' \in [Thread -> Nat \cup {NoOne}]
    BY <1>0, <1>1, <1>x DEF Spawn, ThreadFacts, TypeOK
  <2>2. epc[c] = "idle" /\ \A t \in Thread : t # c => tid'[t] = tid[t]
    BY <1>0, <1>1 DEF Spawn, LiveInv, EmitLive, ThreadFacts, TypeOK
  <2>3. \A t \in Thread : epc'[t] # "idle" => ev'[t].id = tid'[t]
    BY <1>1, <2>2 DEF TypeOK
  <2> QED BY <1>0, <1>1, <2>1, <2>3, <1>x DEF ThreadFacts, TypeOK
<1>3. IInv'
  BY <1>0, <1>1, <1>x DEF ThreadFacts, IInv, OneInside, SenderOwned, Inside, Sending, TypeOK
<1>4. SlotInv'
  BY <1>0, <1>1, <1>x DEF ThreadFacts, SlotInv, Sending
<1>5. SessionInv'
  BY <1>0, <1>1, <1>x DEF ThreadFacts, SessionInv
<1>6. LiveInv'
  <2>1. EmitLive'
    BY <1>0, <1>1, <1>x DEF ThreadFacts, LiveInv, EmitLive
  <2>2. \A d \in Child : owner[d] # NoOne => owner[d] \in Harness
    BY DEF TypeOK
  <2>3. OwnerLive'
    BY <1>0, <1>1, <1>x, <2>2 DEF ThreadFacts, LiveInv, OwnerLive
  <2> QED BY <2>1, <2>3 DEF LiveInv
<1> QED BY <1>2, <1>3, <1>4, <1>5, <1>6

\* A thread of the test ends.
LEMMA ExitBase ==
  ASSUME BaseInv, NEW c \in Child, Exit(c)
  PROVE  BaseInv'
<1> USE DEF BaseInv
<1>0. ThreadFacts
  BY ThreadKinds
<1>1. /\ UNCHANGED <<captureLock, slot, global, nextId, pc, discard, session, tid, epc, ev,
                     queue, open, got, collecting, legacy, room, begun, made, resets, told, left>>
      /\ owner[c] # NoOne /\ epc[c] = "idle"
      /\ \A d \in Child : owner'[d] = IF d = c THEN NoOne ELSE owner[d]
  BY <1>0 DEF Exit, ThreadFacts, TypeOK, slots, harness, threads, emits, channel, env
<1>2. TypeOK'
  <2>1. /\ owner' \in [Child -> Harness \cup {NoOne}]
    BY <1>0, <1>1 DEF Exit, ThreadFacts, TypeOK
  <2> QED BY <1>0, <1>1, <2>1 DEF ThreadFacts, TypeOK
<1>3. IInv'
  BY <1>0, <1>1 DEF ThreadFacts, IInv, OneInside, SenderOwned, Inside, Sending, TypeOK
<1>4. SlotInv'
  BY <1>0, <1>1 DEF ThreadFacts, SlotInv, Sending
<1>5. SessionInv'
  BY <1>0, <1>1 DEF ThreadFacts, SessionInv
<1>6. LiveInv'
  <2>1. EmitLive'
    BY <1>0, <1>1 DEF ThreadFacts, LiveInv, EmitLive
  <2>2. \A d \in Child : owner[d] # NoOne => owner[d] \in Harness
    BY DEF TypeOK
  <2>3. OwnerLive'
    BY <1>0, <1>1, <2>2 DEF ThreadFacts, LiveInv, OwnerLive
  <2> QED BY <2>1, <2>3 DEF LiveInv
<1> QED BY <1>2, <1>3, <1>4, <1>5, <1>6

\* finish, with the threads of the test joined.
LEMMA FinishBase ==
  ASSUME BaseInv, NEW h \in Harness, Finish(h)
  PROVE  BaseInv'
<1> USE DEF BaseInv
<1>0. ThreadFacts
  BY ThreadKinds
<1>1. /\ UNCHANGED <<captureLock, slot, global, nextId, discard, session, owner, tid, epc, ev,
                     queue, open, got, collecting, legacy, room, begun, made, resets, told, left>>
      /\ pc[h] = "running" /\ epc[h] = "idle"
      /\ \A c \in Worker : owner[c] = h => session[c] # session[h]
      /\ \A g \in Harness : pc'[g] = IF g = h THEN "clearing" ELSE pc[g]
  BY <1>0 DEF Finish, Working, Goto, ThreadFacts, TypeOK, slots, harness, threads, emits,
     channel, env
<1>2. TypeOK'
  <2>1. /\ pc' \in [Harness -> {"idle", "locked", "reset", "installed", "running",
                               "clearing", "joining", "unlocking"}]
    BY <1>0, <1>1 DEF Finish, Goto, ThreadFacts, TypeOK
  <2> QED BY <1>0, <1>1, <2>1 DEF ThreadFacts, TypeOK
<1>3. IInv'
  BY <1>0, <1>1 DEF ThreadFacts, IInv, OneInside, SenderOwned, Inside, Sending, TypeOK
<1>4. SlotInv'
  BY <1>0, <1>1 DEF ThreadFacts, SlotInv, Sending
<1>5. SessionInv'
  BY <1>0, <1>1 DEF ThreadFacts, SessionInv
<1>6. LiveInv'
  <2>1. EmitLive'
    BY <1>0, <1>1 DEF ThreadFacts, LiveInv, EmitLive
  <2>2. \A d \in Child : owner[d] # NoOne => owner[d] \in Harness
    BY DEF TypeOK
  <2>3. OwnerLive'
    BY <1>0, <1>1, <2>2 DEF ThreadFacts, LiveInv, OwnerLive
  <2> QED BY <2>1, <2>3 DEF LiveInv
<1> QED BY <1>2, <1>3, <1>4, <1>5, <1>6

\* The test panics and its session is dropped.
LEMMA PanicBase ==
  ASSUME BaseInv, NEW h \in Harness, Panic(h)
  PROVE  BaseInv'
<1> USE DEF BaseInv
<1>0. ThreadFacts
  BY ThreadKinds
<1>1. /\ UNCHANGED <<captureLock, slot, global, nextId, session, owner, tid, epc, ev, queue,
                     open, got, collecting, legacy, room, begun, made, resets, told>>
      /\ pc[h] = "running" /\ epc[h] = "idle"
      /\ left' = left \cup {session[h]}
      /\ \A g \in Harness : pc'[g] = IF g = h THEN "clearing" ELSE pc[g]
      /\ \A g \in Harness : discard'[g] = IF g = h THEN TRUE ELSE discard[g]
  BY <1>0 DEF Panic, Goto, ThreadFacts, TypeOK, slots, harness, threads, emits, channel, env
<1>x. /\ session[h] = begun /\ begun \in 1..begun /\ begun \in 1..MaxSessions
      /\ \A g \in Harness : pc[g] # "idle" => g = h
  <2>1. session[h] = begun /\ begun >= 1 /\ begun \in 0..MaxSessions
    BY <1>1 DEF SessionInv, TypeOK
  <2> QED BY <1>1, <2>1, OneSession, BoundsNat DEF IInv
<1>2. TypeOK'
  <2>1. /\ pc' \in [Harness -> {"idle", "locked", "reset", "installed", "running",
                               "clearing", "joining", "unlocking"}]
        /\ discard' \in [Harness -> BOOLEAN]
        /\ left' \subseteq 1..MaxSessions
    BY <1>0, <1>1, <1>x DEF Panic, Goto, ThreadFacts, TypeOK
  <2> QED BY <1>0, <1>1, <2>1, <1>x DEF ThreadFacts, TypeOK
<1>3. IInv'
  BY <1>0, <1>1, <1>x DEF ThreadFacts, IInv, OneInside, SenderOwned, Inside, Sending, TypeOK
<1>4. SlotInv'
  BY <1>0, <1>1, <1>x DEF ThreadFacts, SlotInv, Sending
<1>5. SessionInv'
  BY <1>0, <1>1, <1>x DEF ThreadFacts, SessionInv
<1>6. LiveInv'
  <2>1. EmitLive'
    BY <1>0, <1>1, <1>x DEF ThreadFacts, LiveInv, EmitLive
  <2>2. \A d \in Child : owner[d] # NoOne => owner[d] \in Harness
    BY DEF TypeOK
  <2>3. OwnerLive'
    BY <1>0, <1>1, <1>x, <2>2 DEF ThreadFacts, LiveInv, OwnerLive
  <2> QED BY <2>1, <2>3 DEF LiveInv
<1> QED BY <1>2, <1>3, <1>4, <1>5, <1>6

\* The sender leaves the slot.
LEMMA ClearBase ==
  ASSUME BaseInv, NEW h \in Harness, Clear(h)
  PROVE  BaseInv'
<1> USE DEF BaseInv
<1>0. ThreadFacts
  BY ThreadKinds
<1>1. /\ UNCHANGED <<captureLock, global, nextId, discard, session, owner, tid, epc, ev, queue,
                     open, got, collecting, legacy, room, begun, made, resets, told, left>>
      /\ pc[h] = "clearing"
      /\ slot' = NoOne
      /\ \A g \in Harness : pc'[g] = IF g = h THEN "joining" ELSE pc[g]
  BY <1>0 DEF Clear, Goto, ThreadFacts, TypeOK, slots, harness, threads, emits, channel, env
<1>x. \A g \in Harness : pc[g] # "idle" => g = h
  BY <1>1, OneSession DEF IInv
<1>2. TypeOK'
  <2>1. /\ pc' \in [Harness -> {"idle", "locked", "reset", "installed", "running",
                               "clearing", "joining", "unlocking"}]
    BY <1>0, <1>1, <1>x DEF Clear, Goto, ThreadFacts, TypeOK
  <2> QED BY <1>0, <1>1, <2>1, <1>x DEF ThreadFacts, TypeOK
<1>3. IInv'
  BY <1>0, <1>1, <1>x DEF ThreadFacts, IInv, OneInside, SenderOwned, Inside, Sending, TypeOK
<1>4. SlotInv'
  BY <1>0, <1>1, <1>x DEF ThreadFacts, SlotInv, Sending
<1>5. SessionInv'
  BY <1>0, <1>1, <1>x DEF ThreadFacts, SessionInv
<1>6. LiveInv'
  <2>1. EmitLive'
    BY <1>0, <1>1, <1>x DEF ThreadFacts, LiveInv, EmitLive
  <2>2. \A d \in Child : owner[d] # NoOne => owner[d] \in Harness
    BY DEF TypeOK
  <2>3. OwnerLive'
    BY <1>0, <1>1, <1>x, <2>2 DEF ThreadFacts, LiveInv, OwnerLive
  <2> QED BY <2>1, <2>3 DEF LiveInv
<1> QED BY <1>2, <1>3, <1>4, <1>5, <1>6

\* The collector has ended.
LEMMA JoinBase ==
  ASSUME BaseInv, NEW h \in Harness, Join(h)
  PROVE  BaseInv'
<1> USE DEF BaseInv
<1>0. ThreadFacts
  BY ThreadKinds
<1>1. /\ UNCHANGED <<captureLock, slot, global, nextId, discard, session, owner, tid, epc, ev,
                     queue, open, got, collecting, legacy, room, begun, made, resets, told, left>>
      /\ pc[h] = "joining" /\ ~collecting[h]
      /\ \A g \in Harness : pc'[g] = IF g = h THEN "unlocking" ELSE pc[g]
  BY <1>0 DEF Join, Goto, ThreadFacts, TypeOK, slots, harness, threads, emits, channel, env
<1>2. TypeOK'
  <2>1. /\ pc' \in [Harness -> {"idle", "locked", "reset", "installed", "running",
                               "clearing", "joining", "unlocking"}]
    BY <1>0, <1>1 DEF Join, Goto, ThreadFacts, TypeOK
  <2> QED BY <1>0, <1>1, <2>1 DEF ThreadFacts, TypeOK
<1>3. IInv'
  BY <1>0, <1>1 DEF ThreadFacts, IInv, OneInside, SenderOwned, Inside, Sending, TypeOK
<1>4. SlotInv'
  BY <1>0, <1>1 DEF ThreadFacts, SlotInv, Sending
<1>5. SessionInv'
  BY <1>0, <1>1 DEF ThreadFacts, SessionInv
<1>6. LiveInv'
  <2>1. EmitLive'
    BY <1>0, <1>1 DEF ThreadFacts, LiveInv, EmitLive
  <2>2. \A d \in Child : owner[d] # NoOne => owner[d] \in Harness
    BY DEF TypeOK
  <2>3. OwnerLive'
    BY <1>0, <1>1, <2>2 DEF ThreadFacts, LiveInv, OwnerLive
  <2> QED BY <2>1, <2>3 DEF LiveInv
<1> QED BY <1>2, <1>3, <1>4, <1>5, <1>6

\* CAPTURE_LOCK is free again.
LEMMA ReleaseBase ==
  ASSUME BaseInv, NEW h \in Harness, Release(h)
  PROVE  BaseInv'
<1> USE DEF BaseInv
<1>0. ThreadFacts
  BY ThreadKinds
<1>1. /\ UNCHANGED <<slot, global, nextId, discard, session, owner, tid, epc, ev, queue, open,
                     got, collecting, legacy, room, begun, made, resets, told, left>>
      /\ pc[h] = "unlocking"
      /\ captureLock' = NoOne
      /\ \A g \in Harness : pc'[g] = IF g = h THEN "idle" ELSE pc[g]
  BY <1>0 DEF Release, Goto, ThreadFacts, TypeOK, slots, harness, threads, emits, channel, env
<1>x. \A g \in Harness : pc[g] # "idle" => g = h
  BY <1>1, OneSession DEF IInv
<1>2. TypeOK'
  <2>1. /\ pc' \in [Harness -> {"idle", "locked", "reset", "installed", "running",
                               "clearing", "joining", "unlocking"}]
    BY <1>0, <1>1, <1>x DEF Release, Goto, ThreadFacts, TypeOK
  <2> QED BY <1>0, <1>1, <2>1, <1>x DEF ThreadFacts, TypeOK
<1>3. IInv'
  BY <1>0, <1>1, <1>x DEF ThreadFacts, IInv, OneInside, SenderOwned, Inside, Sending, TypeOK
<1>4. SlotInv'
  BY <1>0, <1>1, <1>x DEF ThreadFacts, SlotInv, Sending
<1>5. SessionInv'
  BY <1>0, <1>1, <1>x DEF ThreadFacts, SessionInv
<1>6. LiveInv'
  <2>1. EmitLive'
    BY <1>0, <1>1, <1>x DEF ThreadFacts, LiveInv, EmitLive
  <2>2. \A d \in Child : owner[d] # NoOne => owner[d] \in Harness
    BY DEF TypeOK
  <2>3. OwnerLive'
    BY <1>0, <1>1, <1>x, <2>2 DEF ThreadFacts, LiveInv, OwnerLive
  <2> QED BY <2>1, <2>3 DEF LiveInv
<1> QED BY <1>2, <1>3, <1>4, <1>5, <1>6

\* The collector receives, or ends.
LEMMA CollectBase ==
  ASSUME BaseInv, NEW h \in Harness, Collect(h)
  PROVE  BaseInv'
<1> USE DEF BaseInv
<1>0. ThreadFacts
  BY ThreadKinds
<1>1. /\ UNCHANGED <<captureLock, slot, global, nextId, pc, discard, session, owner, tid, epc,
                     ev, legacy, room, begun, made, resets, told, left>>
      /\ \A g \in Harness \ {h} :
           queue'[g] = queue[g] /\ open'[g] = open[g] /\ collecting'[g] = collecting[g]
      /\ \/ queue[h] # << >> /\ open' = open /\ collecting' = collecting
         \/ queue[h] = << >> /\ slot # h /\ queue' = queue /\ ~open'[h] /\ ~collecting'[h]
  BY <1>0 DEF Collect, ThreadFacts, TypeOK, slots, harness, threads, emits, channel, env
<1>2. TypeOK'
  <2>1. /\ queue' \in [Harness -> Seq(Event)]
        /\ got' \in [Harness -> Seq(Event)]
        /\ open' \in [Harness -> BOOLEAN]
        /\ collecting' \in [Harness -> BOOLEAN]
    <3>1. queue[h] \in Seq(Event) /\ got[h] \in Seq(Event)
      BY DEF TypeOK
    <3>2. CASE queue[h] # << >>
      <4>1. /\ got' = [got EXCEPT ![h] = Append(@, Head(queue[h]))]
            /\ queue' = [queue EXCEPT ![h] = Tail(@)]
            /\ open' = open /\ collecting' = collecting
        BY <3>2 DEF Collect
      <4>2. Append(got[h], Head(queue[h])) \in Seq(Event) /\ Tail(queue[h]) \in Seq(Event)
        BY <3>1, <3>2
      <4> QED BY <4>1, <4>2 DEF TypeOK
    <3>3. CASE queue[h] = << >>
      <4>1. /\ collecting' = [collecting EXCEPT ![h] = FALSE]
            /\ open' = [open EXCEPT ![h] = FALSE] /\ queue' = queue /\ got' = got
        BY <3>3 DEF Collect
      <4> QED BY <4>1 DEF TypeOK
    <3> QED BY <3>2, <3>3
  <2> QED BY <1>0, <1>1, <2>1 DEF ThreadFacts, TypeOK
<1>3. IInv'
  BY <1>0, <1>1 DEF ThreadFacts, IInv, OneInside, SenderOwned, Inside, Sending, TypeOK
<1>4. SlotInv'
  BY <1>0, <1>1 DEF ThreadFacts, SlotInv, Sending
<1>5. SessionInv'
  BY <1>0, <1>1 DEF ThreadFacts, SessionInv
<1>6. LiveInv'
  <2>1. EmitLive'
    BY <1>0, <1>1 DEF ThreadFacts, LiveInv, EmitLive
  <2>2. \A d \in Child : owner[d] # NoOne => owner[d] \in Harness
    BY DEF TypeOK
  <2>3. OwnerLive'
    BY <1>0, <1>1, <2>2 DEF ThreadFacts, LiveInv, OwnerLive
  <2> QED BY <2>1, <2>3 DEF LiveInv
<1> QED BY <1>2, <1>3, <1>4, <1>5, <1>6

\* A thread builds an event.
LEMMA MakeEventBase ==
  ASSUME BaseInv, NEW t \in Thread, MakeEvent(t)
  PROVE  BaseInv'
<1> USE DEF BaseInv
<1>0. ThreadFacts
  BY ThreadKinds
<1>1. /\ UNCHANGED <<captureLock, slot, global, pc, discard, session, owner, queue, open, got,
                     collecting, legacy, room, begun, resets, told, left>>
      /\ epc[t] = "idle" /\ made[t] < MaxEvents
      /\ t \in Harness => pc[t] = "running"
      /\ t \in Child => owner[t] # NoOne
      /\ \A u \in Thread : epc'[u] = IF u = t THEN "global" ELSE epc[u]
      /\ \A u \in Thread \ {t} : ev'[u] = ev[u] /\ tid'[u] = tid[u]
      /\ ev'[t].by = t /\ ev'[t].of = session[t] /\ ev'[t].id = tid'[t]
      /\ ev'[t] \in Event
      /\ ev' \in [Thread -> Event \cup {NoEvent}] /\ tid' \in [Thread -> Nat \cup {NoOne}]
      /\ nextId' \in Nat /\ made' \in [Thread -> 0..MaxEvents]
      /\ epc' \in [Thread -> {"idle", "global", "blocked", "session"}]
  <2>1. PICK id \in Nat :
          /\ ev' = [ev EXCEPT ![t] = [by |-> t, of |-> session[t], id |-> id]]
          /\ tid' = [tid EXCEPT ![t] = id]
    BY DEF MakeEvent, TypeOK
  <2>2. [by |-> t, of |-> session[t], id |-> id] \in Event
    BY DEF TypeOK, Event
  <2> DEFINE e == [by |-> t, of |-> session[t], id |-> id]
  <2>3. e.by = t /\ e.of = session[t] /\ e.id = id
    OBVIOUS
  <2>4. /\ ev'[t] = e /\ tid'[t] = id
        /\ \A u \in Thread \ {t} : ev'[u] = ev[u] /\ tid'[u] = tid[u]
        /\ ev' \in [Thread -> Event \cup {NoEvent}] /\ tid' \in [Thread -> Nat \cup {NoOne}]
    <3> HIDE DEF e
    <3> QED BY <2>1, <2>2 DEF e, TypeOK
  <2>5. nextId' \in Nat /\ made' \in [Thread -> 0..MaxEvents]
        /\ epc' = [epc EXCEPT ![t] = "global"]
    BY BoundsNat, SMTT(60) DEF MakeEvent, TypeOK
  <2> HIDE DEF e
  <2>6. /\ t \in Harness => pc[t] = "running"
        /\ t \in Child => owner[t] # NoOne
    BY <1>0 DEF MakeEvent, ThreadFacts
  <2>7. /\ UNCHANGED <<captureLock, slot, global, pc, discard, session, owner, queue, open, got,
                       collecting, legacy, room, begun, resets, told, left>>
        /\ epc[t] = "idle" /\ made[t] < MaxEvents
    BY DEF MakeEvent, harness, channel, env
  <2>8. /\ epc' \in [Thread -> {"idle", "global", "blocked", "session"}]
        /\ \A u \in Thread : epc'[u] = IF u = t THEN "global" ELSE epc[u]
    BY <2>5 DEF TypeOK
  <2>9. /\ ev'[t].by = t /\ ev'[t].of = session[t] /\ ev'[t].id = tid'[t]
        /\ ev'[t] \in Event
    BY <2>2, <2>3, <2>4 DEF e
  <2> QED BY <2>4, <2>5, <2>6, <2>7, <2>8, <2>9, Zenon
<1>2. TypeOK'
  <2>1. \A u \in Thread : epc'[u] # "idle" => ev'[u].id = tid'[u]
    BY <1>1 DEF TypeOK
  <2> QED BY <1>1, <2>1, SMTT(60) DEF TypeOK
<1>3. IInv'
  BY <1>0, <1>1 DEF ThreadFacts, IInv, OneInside, SenderOwned, Inside, Sending, TypeOK
<1>4. SlotInv'
  BY <1>0, <1>1 DEF ThreadFacts, SlotInv, Sending
<1>5. SessionInv'
  BY <1>0, <1>1 DEF ThreadFacts, SessionInv
<1>6. LiveInv'
  <2>1. EmitLive'
    BY <1>0, <1>1 DEF ThreadFacts, LiveInv, EmitLive
  <2>2. \A d \in Child : owner[d] # NoOne => owner[d] \in Harness
    BY DEF TypeOK
  <2>3. OwnerLive'
    BY <1>0, <1>1, <2>2 DEF ThreadFacts, LiveInv, OwnerLive
  <2> QED BY <2>1, <2>3 DEF LiveInv
<1> QED BY <1>2, <1>3, <1>4, <1>5, <1>6

\* emit looks at the legacy sender.
LEMMA EmitGlobalBase ==
  ASSUME BaseInv, NEW t \in Thread, EmitGlobal(t)
  PROVE  BaseInv'
<1> USE DEF BaseInv
<1>0. ThreadFacts
  BY ThreadKinds
<1>1. /\ UNCHANGED <<captureLock, slot, global, nextId, pc, discard, session, owner, tid, ev,
                     queue, open, got, collecting, legacy, begun, made, resets, told, left>>
      /\ epc[t] # "idle"
      /\ \A u \in Thread : u # t => epc'[u] = epc[u]
  BY <1>0 DEF EmitGlobal, ThreadFacts, TypeOK, slots, harness, threads, emits,
     channel, env
<1>2. TypeOK'
  <2>1. /\ epc' \in [Thread -> {"idle", "global", "blocked", "session"}]
    BY <1>0, <1>1 DEF EmitGlobal, ThreadFacts, TypeOK
  <2>2. room' \in 0..LegacyRoom
    BY RoomNat DEF EmitGlobal, TypeOK
  <2>3. \A u \in Thread : epc'[u] # "idle" => ev'[u].id = tid'[u]
    BY <1>1 DEF TypeOK
  <2> QED BY <1>0, <1>1, <2>1, <2>2, <2>3 DEF ThreadFacts, TypeOK
<1>3. IInv'
  BY <1>0, <1>1 DEF ThreadFacts, IInv, OneInside, SenderOwned, Inside, Sending, TypeOK
<1>4. SlotInv'
  BY <1>0, <1>1 DEF ThreadFacts, SlotInv, Sending
<1>5. SessionInv'
  BY <1>0, <1>1 DEF ThreadFacts, SessionInv
<1>6. LiveInv'
  <2>1. EmitLive'
    BY <1>0, <1>1 DEF ThreadFacts, LiveInv, EmitLive
  <2>2. \A d \in Child : owner[d] # NoOne => owner[d] \in Harness
    BY DEF TypeOK
  <2>3. OwnerLive'
    BY <1>0, <1>1, <2>2 DEF ThreadFacts, LiveInv, OwnerLive
  <2> QED BY <2>1, <2>3 DEF LiveInv
<1> QED BY <1>2, <1>3, <1>4, <1>5, <1>6

\* emit sends to the session.
LEMMA EmitSessionBase ==
  ASSUME BaseInv, NEW t \in Thread, EmitSession(t)
  PROVE  BaseInv'
<1> USE DEF BaseInv
<1>0. ThreadFacts
  BY ThreadKinds
<1>1. /\ UNCHANGED <<captureLock, slot, global, nextId, pc, discard, session, owner, tid, ev,
                     open, got, collecting, legacy, room, begun, made, resets, left>>
      /\ epc[t] = "session"
      /\ \A u \in Thread : epc'[u] = IF u = t THEN "idle" ELSE epc[u]
      /\ \A g \in Harness : told'[g] = IF pc[g] \in {"running", "clearing"} /\ session[g] = ev[t].of
                                       THEN Append(told[g], ev[t]) ELSE told[g]
      /\ \A g \in Harness : queue'[g] = IF g = slot /\ open[g] THEN Append(queue[g], ev[t])
                                                               ELSE queue[g]
  BY <1>0, SMTT(60) DEF EmitSession, ThreadFacts, TypeOK, slots, harness, threads, emits,
     channel, env
<1>x. ev[t] \in Event
  BY <1>1 DEF LiveInv, EmitLive
<1>2. TypeOK'
  <2>1. /\ queue' \in [Harness -> Seq(Event)]
        /\ told' \in [Harness -> Seq(Event)]
        /\ epc' \in [Thread -> {"idle", "global", "blocked", "session"}]
    <3>1. \A g \in Harness : Append(queue[g], ev[t]) \in Seq(Event)
                             /\ Append(told[g], ev[t]) \in Seq(Event)
      BY <1>x DEF TypeOK
    <3>2. queue' \in [Harness -> Seq(Event)]
      BY <1>0, <3>1 DEF EmitSession, ThreadFacts, TypeOK
    <3>3. told' \in [Harness -> Seq(Event)]
      BY <3>1 DEF EmitSession, TypeOK
    <3>4. epc' \in [Thread -> {"idle", "global", "blocked", "session"}]
      BY DEF EmitSession, TypeOK
    <3> QED BY <3>2, <3>3, <3>4
  <2> QED BY <1>0, <1>1, <2>1, <1>x DEF ThreadFacts, TypeOK
<1>3. IInv'
  BY <1>0, <1>1, <1>x DEF ThreadFacts, IInv, OneInside, SenderOwned, Inside, Sending, TypeOK
<1>4. SlotInv'
  <2>1. \A g \in Harness : g = slot /\ open[g] => pc[g] \in Sending
    BY <1>0 DEF ThreadFacts, IInv, SenderOwned
  <2>2. \A g \in Harness : pc[g] \in {"joining", "unlocking"} => queue'[g] = queue[g]
    BY <1>1, <2>1 DEF Sending
  <2> QED BY <1>1, <2>2 DEF SlotInv
<1>5. SessionInv'
  BY <1>0, <1>1, <1>x DEF ThreadFacts, SessionInv
<1>6. LiveInv'
  <2>1. EmitLive'
    BY <1>0, <1>1, <1>x DEF ThreadFacts, LiveInv, EmitLive
  <2>2. \A d \in Child : owner[d] # NoOne => owner[d] \in Harness
    BY DEF TypeOK
  <2>3. OwnerLive'
    BY <1>0, <1>1, <1>x, <2>2 DEF ThreadFacts, LiveInv, OwnerLive
  <2> QED BY <2>1, <2>3 DEF LiveInv
<1> QED BY <1>2, <1>3, <1>4, <1>5, <1>6

\* A legacy test beside the sessions.
LEMMA LegacyBase ==
  ASSUME BaseInv, LegacyReset \/ LegacySet \/ LegacySend \/ LegacyClear
  PROVE  BaseInv'
<1> USE DEF BaseInv
<1>0. ThreadFacts
  BY ThreadKinds
<1>1. /\ UNCHANGED <<captureLock, slot, pc, discard, session, owner, tid, epc, ev, queue, open,
                     got, collecting, begun, made, told, left>>
      /\ nextId' \in Nat
      /\ global' \in BOOLEAN
      /\ legacy' \in {"idle", "setting", "set"}
      /\ resets' \in 0..MaxLegacy /\ room' \in 0..LegacyRoom
  <2>1. global' \in BOOLEAN
    <3>1. global' = global \/ global' = TRUE \/ global' = FALSE
      BY DEF LegacyReset, LegacySet, LegacySend, LegacyClear
    <3> QED BY <3>1 DEF TypeOK
  <2>2. nextId' \in Nat /\ legacy' \in {"idle", "setting", "set"} /\ resets' \in 0..MaxLegacy
        /\ room' \in 0..LegacyRoom
    BY BoundsNat, RoomNat DEF LegacyReset, LegacySet, LegacySend, LegacyClear, TypeOK, slots
  <2> QED BY <2>1, <2>2 DEF LegacyReset, LegacySet, LegacySend, LegacyClear, slots, harness, threads,
              emits, channel, env
<1>2. TypeOK'
  BY <1>0, <1>1 DEF ThreadFacts, TypeOK
<1>3. IInv'
  BY <1>0, <1>1 DEF ThreadFacts, IInv, OneInside, SenderOwned, Inside, Sending, TypeOK
<1>4. SlotInv'
  BY <1>0, <1>1 DEF ThreadFacts, SlotInv, Sending
<1>5. SessionInv'
  BY <1>0, <1>1 DEF ThreadFacts, SessionInv
<1>6. LiveInv'
  <2>1. EmitLive'
    BY <1>0, <1>1 DEF ThreadFacts, LiveInv, EmitLive
  <2>2. \A d \in Child : owner[d] # NoOne => owner[d] \in Harness
    BY DEF TypeOK
  <2>3. OwnerLive'
    BY <1>0, <1>1, <2>2 DEF ThreadFacts, LiveInv, OwnerLive
  <2> QED BY <2>1, <2>3 DEF LiveInv
<1> QED BY <1>2, <1>3, <1>4, <1>5, <1>6

\* Every step keeps the part of the invariant about locks, sessions and lives.
LEMMA BaseStep == BaseInv /\ [Next]_vars => BaseInv'
<1> SUFFICES ASSUME BaseInv, [Next]_vars PROVE BaseInv'
  OBVIOUS
<1>1. ASSUME NEW h \in Harness, HarnessStep(h) PROVE BaseInv'
  BY <1>1, BeginBase, ResetIdsBase, InstallBase, SpawnCollectorBase, FinishBase, ClearBase,
     JoinBase, ReleaseBase DEF HarnessStep
<1>2. ASSUME NEW h \in Harness, Collect(h) \/ SpawnFails(h) \/ Panic(h) PROVE BaseInv'
  BY <1>2, CollectBase, SpawnFailsBase, PanicBase
<1>3. ASSUME NEW t \in Thread, Emit(t) PROVE BaseInv'
  BY <1>3, MakeEventBase, EmitGlobalBase, EmitSessionBase DEF Emit
<1>4. CASE UNCHANGED vars
  BY <1>4 DEF BaseInv, TypeOK, IInv, OneInside, SenderOwned, SlotInv, SessionInv, LiveInv,
     EmitLive, OwnerLive, vars, slots, harness, threads, emits, channel, env
<1> QED BY <1>1, <1>2, <1>3, <1>4, SpawnBase, ExitBase, LegacyBase DEF Next

-----------------------------------------------------------------------------
\* What h's session has captured, and what the test was told, do not change
\* while the session goes on.
Same(h) ==
  pc'[h] \in Capturing =>
    /\ pc[h] \in Capturing /\ session'[h] = session[h]
    /\ queue'[h] = queue[h] /\ got'[h] = got[h] /\ told'[h] = told[h]
    /\ discard[h] => discard'[h]
    /\ left \subseteq left'

\* Such steps keep the ownership of captured events and their order.
LEMMA SameKeeps ==
  ASSUME OwnInv, ReturnInv, \A h \in Harness : Same(h)
  PROVE  OwnInv' /\ ReturnInv'
<1>1. OwnInv'
  <2> SUFFICES ASSUME NEW h \in Harness, pc'[h] \in Capturing
               PROVE  (/\ \A i \in 1..Len(queue[h]) : Owned(queue[h][i], session[h])
                       /\ \A i \in 1..Len(got[h]) : Owned(got[h][i], session[h]))'
    BY DEF OwnInv, Capturing, Sending
  <2>1. /\ pc[h] \in Capturing /\ session'[h] = session[h] /\ queue'[h] = queue[h]
        /\ got'[h] = got[h] /\ left \subseteq left'
    BY DEF Same
  <2> QED BY <2>1 DEF OwnInv, Owned
<1>2. ReturnInv'
  <2> SUFFICES ASSUME NEW h \in Harness, pc'[h] \in Capturing, ~discard'[h]
               PROVE  OwnPart(told'[h], got'[h] \o queue'[h], session'[h])
    BY DEF ReturnInv, Capturing, Sending
  <2>1. /\ pc[h] \in Capturing /\ session'[h] = session[h] /\ queue'[h] = queue[h]
        /\ got'[h] = got[h] /\ told'[h] = told[h] /\ ~discard[h]
    BY DEF Same
  <2> QED BY <2>1 DEF ReturnInv
<1> QED BY <1>1, <1>2

\* Only a new channel, the collector and a sending thread change them.
LEMMA OthersSame ==
  ASSUME BaseInv, Next,
         ~ \E h \in Harness : Install(h) \/ Collect(h),
         ~ \E t \in Thread : EmitSession(t)
  PROVE  \A h \in Harness : Same(h)
<1> USE DEF Same, Capturing, Sending, BaseInv, Goto
<1>0. ThreadFacts
  BY ThreadKinds
<1>1. ASSUME NEW h \in Harness, Begin(h) PROVE \A g \in Harness : Same(g)
  BY <1>0, <1>1 DEF ThreadFacts, TypeOK, Begin, channel
<1>2. ASSUME NEW h \in Harness, ResetIds(h) \/ SpawnFails(h) \/ Release(h)
      PROVE  \A g \in Harness : Same(g)
  BY <1>2 DEF TypeOK, ResetIds, SpawnFails, Release, threads, emits, channel
<1>3. ASSUME NEW h \in Harness, SpawnCollector(h) \/ Finish(h) \/ Clear(h) \/ Join(h)
      PROVE  \A g \in Harness : Same(g)
  BY <1>3 DEF TypeOK, SpawnCollector, Finish, Clear, Join, threads, emits, channel
<1>4. ASSUME NEW h \in Harness, Panic(h) PROVE \A g \in Harness : Same(g)
  BY <1>4 DEF TypeOK, Panic, threads, emits, channel
<1>5. ASSUME NEW h \in Harness, NEW c \in Child, Spawn(h, c) PROVE \A g \in Harness : Same(g)
  BY <1>0, <1>5 DEF ThreadFacts, TypeOK, Spawn, harness, emits, channel
<1>6. ASSUME NEW c \in Child, Exit(c) PROVE \A g \in Harness : Same(g)
  BY <1>6 DEF Exit, harness, emits, channel
<1>7. ASSUME NEW t \in Thread, MakeEvent(t) \/ EmitGlobal(t) PROVE \A g \in Harness : Same(g)
  BY <1>7 DEF MakeEvent, EmitGlobal, harness, threads, channel
<1>8. ASSUME LegacyReset \/ LegacySet \/ LegacySend \/ LegacyClear PROVE \A g \in Harness : Same(g)
  BY <1>8 DEF LegacyReset, LegacySet, LegacySend, LegacyClear, harness, threads, emits, channel
<1> QED BY <1>1, <1>2, <1>3, <1>4, <1>5, <1>6, <1>7, <1>8 DEF Next, HarnessStep, Emit

\* A thread in emit belongs to the running test, to a session that panicked, or
\* nobody joins it; it belongs to no session that is only being set up.
LEMMA EmitterOf ==
  ASSUME BaseInv, NEW h \in Harness, NEW t \in Thread, pc[h] # "idle", epc[t] # "idle"
  PROVE  /\ ev[t] \in Event
         /\ Owned(ev[t], session[h])
         /\ ev[t].of = session[h] => pc[h] \notin {"locked", "reset", "installed"}
<1> USE DEF BaseInv
<1>0. ThreadFacts
  BY ThreadKinds
<1>1. ev[t] \in Event /\ ev[t].by = t /\ ev[t].of = session[t]
  BY DEF LiveInv, EmitLive
<1>2. /\ \A g \in Harness : pc[g] # "idle" => g = h
      /\ session[h] = begun
  BY OneSession DEF IInv, SessionInv
<1>3. CASE t \in Harness
  <2>1. pc[t] = "running" /\ t = h
    BY <1>2, <1>3 DEF LiveInv, EmitLive
  <2> QED BY <1>1, <2>1 DEF Owned
<1>4. CASE t \in Child
  <2>1. owner[t] # NoOne /\ owner[t] \in Harness
    BY <1>4 DEF LiveInv, EmitLive, TypeOK
  <2>2. Owned(ev[t], session[h])
    <3>1. CASE t \in Worker
      <4>1. session[t] \in left \/ (pc[owner[t]] = "running" /\ session[t] = session[owner[t]])
        BY <3>1, <2>1 DEF LiveInv, OwnerLive
      <4> QED BY <1>1, <1>2, <2>1, <4>1 DEF Owned
    <3>2. CASE t \notin Worker
      BY <1>0, <1>1, <1>4, <3>2 DEF Owned, ThreadFacts
    <3> QED BY <3>1, <3>2
  <2>3. session[t] = begun => pc[h] \notin {"locked", "reset", "installed"}
    <3>1. session[t] \in Int /\ begun \in Int
      BY <1>0, <1>4 DEF TypeOK, ThreadFacts
    <3> QED BY <1>4, <3>1 DEF SessionInv
  <2> QED BY <1>1, <1>2, <2>2, <2>3
<1> QED BY <1>0, <1>3, <1>4 DEF ThreadFacts

-----------------------------------------------------------------------------
\* Nothing is the own part of nothing.
LEMMA OwnEmpty == ASSUME NEW n PROVE OwnPart(<< >>, << >>, n)
<1>1. DOMAIN << >> = {}
  BY DOMAIN << >> = 1..0
<1> DEFINE at == [i \in {} |-> i]
<1>2. at \in [{} -> {}]
  OBVIOUS
<1> HIDE DEF at
<1> QED BY <1>1, <1>2 DEF OwnPart

\* An event of another session leaves the own part as it was.
LEMMA OwnOther ==
  ASSUME NEW n, NEW s \in Seq(Event), NEW q \in Seq(Event), NEW e \in Event,
         OwnPart(s, q, n), e.of # n
  PROVE  OwnPart(s, Append(q, e), n)
<1> DEFINE r == Append(q, e)
<1>1. /\ r \in Seq(Event) /\ Len(r) = Len(q) + 1 /\ r[Len(q) + 1] = e
      /\ \A k \in 1..Len(q) : r[k] = q[k]
  BY AppendProperties
<1>2. DOMAIN r = 1..Len(q) + 1 /\ DOMAIN q = 1..Len(q) /\ Len(q) \in Nat /\ DOMAIN s = 1..Len(s)
  BY <1>1, LenProperties
<1> HIDE DEF r
<1>3. PICK at \in [DOMAIN s -> DOMAIN q] :
        /\ \A i, j \in DOMAIN s : i < j => at[i] < at[j]
        /\ \A i \in DOMAIN s : s[i] = q[at[i]]
        /\ \A k \in DOMAIN q : q[k].of = n => \E i \in DOMAIN s : at[i] = k
  BY DEF OwnPart
<1>4. at \in [DOMAIN s -> DOMAIN r]
  BY <1>2
<1>5. \A i \in DOMAIN s : s[i] = r[at[i]]
  BY <1>1, <1>2, <1>3
<1>6. \A k \in DOMAIN r : r[k].of = n => \E i \in DOMAIN s : at[i] = k
  BY <1>1, <1>2, <1>3
<1>7. OwnPart(s, r, n)
  BY <1>3, <1>4, <1>5, <1>6 DEF OwnPart
<1> QED BY <1>7 DEF r

\* An event told to the test and captured extends both.
LEMMA OwnBoth ==
  ASSUME NEW n, NEW s \in Seq(Event), NEW q \in Seq(Event), NEW e \in Event, OwnPart(s, q, n)
  PROVE  OwnPart(Append(s, e), Append(q, e), n)
<1> DEFINE r == Append(q, e)
           u == Append(s, e)
<1>1. /\ r \in Seq(Event) /\ Len(r) = Len(q) + 1 /\ r[Len(q) + 1] = e
      /\ \A k \in 1..Len(q) : r[k] = q[k]
  BY AppendProperties
<1>2. /\ u \in Seq(Event) /\ Len(u) = Len(s) + 1 /\ u[Len(s) + 1] = e
      /\ \A k \in 1..Len(s) : u[k] = s[k]
  BY AppendProperties
<1>3. /\ DOMAIN r = 1..Len(q) + 1 /\ DOMAIN q = 1..Len(q) /\ Len(q) \in Nat
      /\ DOMAIN u = 1..Len(s) + 1 /\ DOMAIN s = 1..Len(s) /\ Len(s) \in Nat
  BY <1>1, <1>2, LenProperties
<1> HIDE DEF r, u
<1>4. PICK at \in [DOMAIN s -> DOMAIN q] :
        /\ \A i, j \in DOMAIN s : i < j => at[i] < at[j]
        /\ \A i \in DOMAIN s : s[i] = q[at[i]]
        /\ \A k \in DOMAIN q : q[k].of = n => \E i \in DOMAIN s : at[i] = k
  BY DEF OwnPart
<1> DEFINE to == [i \in DOMAIN u |-> IF i = Len(s) + 1 THEN Len(q) + 1 ELSE at[i]]
<1>5. /\ to \in [DOMAIN u -> DOMAIN r] /\ to[Len(s) + 1] = Len(q) + 1
      /\ \A i \in DOMAIN s : to[i] = at[i] /\ at[i] \in 1..Len(q)
  BY <1>3
<1> HIDE DEF to
<1>6. \A i, j \in DOMAIN u : i < j => to[i] < to[j]
  BY <1>3, <1>4, <1>5, SMTT(60)
<1>7. \A i \in DOMAIN u : u[i] = r[to[i]]
  <2> TAKE i \in DOMAIN u
  <2>1. CASE i = Len(s) + 1
    BY <1>1, <1>2, <1>5, <2>1
  <2>2. CASE i \in 1..Len(s)
    BY <1>1, <1>2, <1>3, <1>4, <1>5, <2>2
  <2> QED BY <1>3, <2>1, <2>2
<1>8. \A k \in DOMAIN r : r[k].of = n => \E i \in DOMAIN u : to[i] = k
  <2> SUFFICES ASSUME NEW k \in DOMAIN r, r[k].of = n PROVE \E i \in DOMAIN u : to[i] = k
    OBVIOUS
  <2>1. CASE k = Len(q) + 1
    <3>1. Len(s) + 1 \in DOMAIN u
      BY <1>3
    <3> QED BY <1>5, <2>1, <3>1
  <2>2. CASE k \in 1..Len(q)
    <3>1. PICK i \in DOMAIN s : at[i] = k
      BY <1>1, <1>3, <1>4, <2>2
    <3> QED BY <1>3, <1>5, <3>1
  <2> QED BY <1>3, <2>1, <2>2
<1>9. OwnPart(u, r, n)
  BY <1>5, <1>6, <1>7, <1>8 DEF OwnPart
<1> QED BY <1>9 DEF r, u

\* Sending after the events on their way is sending after all.
LEMMA SentLast ==
  ASSUME NEW q \in Seq(Event), NEW g \in Seq(Event), NEW e \in Event
  PROVE  g \o Append(q, e) = Append(g \o q, e) /\ g \o q \in Seq(Event)
<1>1. <<e>> \in Seq(Event) /\ g \o q \in Seq(Event)
  BY ConcatProperties
<1>2. Append(q, e) = q \o <<e>> /\ Append(g \o q, e) = (g \o q) \o <<e>>
  BY <1>1, AppendIsConcat
<1>3. (g \o q) \o <<e>> = g \o (q \o <<e>>)
  BY <1>1, ConcatAssociative
<1> QED BY <1>1, <1>2, <1>3

\* Receiving moves an event from the one side to the other.
LEMMA ReceivedFirst ==
  ASSUME NEW q \in Seq(Event), NEW g \in Seq(Event), q # << >>
  PROVE  /\ Append(g, Head(q)) \o Tail(q) = g \o q
         /\ Append(g, Head(q)) \in Seq(Event) /\ Tail(q) \in Seq(Event)
<1>1. Head(q) \in Event /\ Tail(q) \in Seq(Event) /\ <<Head(q)>> \in Seq(Event)
  BY HeadTailProperties
<1>2. Append(g, Head(q)) = g \o <<Head(q)>> /\ Append(g, Head(q)) \in Seq(Event)
  BY <1>1, AppendIsConcat, AppendProperties
<1>3. q = <<Head(q)>> \o Tail(q)
  BY <1>1
<1>4. (g \o <<Head(q)>>) \o Tail(q) = g \o (<<Head(q)>> \o Tail(q))
  BY <1>1, ConcatAssociative
<1> QED BY <1>1, <1>2, <1>3, <1>4

-----------------------------------------------------------------------------
\* A new channel holds nothing, and the test has been told nothing yet.
LEMMA InstallOwn ==
  ASSUME BaseInv, NEW h \in Harness, Install(h)
  PROVE  OwnInv' /\ ReturnInv'
<1> USE DEF BaseInv
<1>1. /\ pc[h] = "reset" /\ told' = told /\ session' = session
      /\ queue'[h] = << >> /\ got'[h] = << >>
      /\ \A g \in Harness : g # h => pc'[g] = pc[g]
  BY DEF Install, Goto, TypeOK, threads, emits
<1>2. \A g \in Harness : g # h => pc'[g] = "idle"
  BY <1>1, OneSession DEF IInv
<1>3. told'[h] = << >>
  BY <1>1 DEF SessionInv
<1>4. OwnInv'
  BY <1>1, <1>2 DEF OwnInv, Capturing, Sending
<1>5. << >> \o << >> = << >> /\ OwnPart(told'[h], << >>, session'[h])
  BY <1>3, OwnEmpty
<1>6. OwnPart(told'[h], got'[h] \o queue'[h], session'[h])
  BY <1>1, <1>5
<1> QED BY <1>2, <1>4, <1>6 DEF ReturnInv, Capturing, Sending

\* The collector takes what was sent, in that order.
LEMMA CollectOwn ==
  ASSUME BaseInv, OwnInv, ReturnInv, NEW h \in Harness, Collect(h)
  PROVE  OwnInv' /\ ReturnInv'
<1> USE DEF BaseInv
<1>1. /\ pc' = pc /\ told' = told /\ session' = session /\ discard' = discard /\ left' = left
      /\ \A g \in Harness : g # h => queue'[g] = queue[g] /\ got'[g] = got[g]
  BY DEF Collect, TypeOK, harness, threads, emits
<1>2. CASE queue' = queue /\ got' = got
  <2>1. \A g \in Harness : Same(g)
    BY <1>1, <1>2 DEF Same
  <2> QED BY <2>1, SameKeeps
<1>3. CASE queue[h] # << >> /\ ~(queue' = queue /\ got' = got)
  <2>1. queue[h] \in Seq(Event) /\ got[h] \in Seq(Event)
    BY DEF TypeOK
  <2>2. got'[h] = Append(got[h], Head(queue[h])) /\ queue'[h] = Tail(queue[h])
    BY <1>3 DEF Collect, TypeOK
  <2>3. got'[h] \o queue'[h] = got[h] \o queue[h]
    BY <1>3, <2>1, <2>2, ReceivedFirst
  <2>4. ReturnInv'
    <3>1. \A g \in Harness : got'[g] \o queue'[g] = got[g] \o queue[g]
      BY <1>1, <2>3
    <3> QED BY <1>1, <3>1 DEF ReturnInv
  <2>5. /\ Len(queue'[h]) = Len(queue[h]) - 1 /\ Len(got'[h]) = Len(got[h]) + 1
        /\ \A i \in 1..Len(queue'[h]) : queue'[h][i] = queue[h][i + 1]
        /\ \A i \in 1..Len(got[h]) : got'[h][i] = got[h][i]
        /\ got'[h][Len(got[h]) + 1] = queue[h][1]
        /\ Len(queue[h]) \in Nat /\ Len(queue[h]) >= 1 /\ Len(got[h]) \in Nat
    BY <1>3, <2>1, <2>2
  <2>6. OwnInv'
    <3>1. ASSUME NEW g \in Harness, pc[g] \in Capturing
          PROVE  /\ \A i \in 1..Len(queue'[g]) : Owned(queue'[g][i], session[g])
                 /\ \A i \in 1..Len(got'[g]) : Owned(got'[g][i], session[g])
      <4>1. CASE g # h
        BY <1>1, <3>1, <4>1 DEF OwnInv
      <4>2. CASE g = h
        <5>1. /\ \A i \in 1..Len(queue[h]) : Owned(queue[h][i], session[h])
              /\ \A i \in 1..Len(got[h]) : Owned(got[h][i], session[h])
          BY <3>1, <4>2 DEF OwnInv
        <5>2. \A i \in 1..Len(queue'[h]) : Owned(queue'[h][i], session[h])
          BY <2>5, <5>1
        <5>3. ASSUME NEW i \in 1..Len(got'[h]) PROVE Owned(got'[h][i], session[h])
          <6>1. CASE i = Len(got[h]) + 1
            BY <2>5, <5>1, <6>1
          <6>2. CASE i \in 1..Len(got[h])
            BY <2>5, <5>1, <6>2
          <6> QED BY <2>5, <6>1, <6>2
        <5> QED BY <4>2, <5>2, <5>3
      <4> QED BY <4>1, <4>2
    <3> QED BY <1>1, <3>1 DEF OwnInv, Owned
  <2> QED BY <2>4, <2>6
<1> QED BY <1>2, <1>3 DEF Collect

\* A sent event is the running test's, of a session that panicked, or of a
\* thread that nobody joins.
LEMMA EmitOwn ==
  ASSUME BaseInv, OwnInv, ReturnInv, NEW t \in Thread, EmitSession(t)
  PROVE  OwnInv' /\ ReturnInv'
<1> USE DEF BaseInv
<1>1. /\ pc' = pc /\ session' = session /\ discard' = discard /\ left' = left /\ got' = got
      /\ epc[t] = "session"
      /\ \A g \in Harness : told'[g] = IF pc[g] \in {"running", "clearing"} /\ session[g] = ev[t].of
                                       THEN Append(told[g], ev[t]) ELSE told[g]
      /\ \A g \in Harness : queue'[g] = IF g = slot /\ open[g] THEN Append(queue[g], ev[t])
                                                               ELSE queue[g]
  BY ThreadKinds, SMTT(60) DEF EmitSession, ThreadFacts, TypeOK, harness, threads
<1>2. ASSUME NEW h \in Harness, pc[h] \in Capturing
      PROVE  /\ \A i \in 1..Len(queue'[h]) : Owned(queue'[h][i], session[h])
             /\ ~discard[h] => OwnPart(told'[h], got[h] \o queue'[h], session[h])
  <2>0. pc[h] # "idle" /\ epc[t] # "idle"
    BY <1>1, <1>2 DEF Capturing, Sending
  <2>1. /\ ev[t] \in Event
        /\ Owned(ev[t], session[h])
        /\ ev[t].of = session[h] => pc[h] \notin {"locked", "reset", "installed"}
    BY <2>0, EmitterOf
  <2>2. queue[h] \in Seq(Event) /\ got[h] \in Seq(Event) /\ told[h] \in Seq(Event)
    BY DEF TypeOK
  <2>3. CASE pc[h] \in Sending
    <3>1. queue'[h] = Append(queue[h], ev[t])
      BY <1>1, <2>3 DEF SlotInv
    <3>2. \A i \in 1..Len(queue'[h]) : Owned(queue'[h][i], session[h])
      <4>1. \A i \in 1..Len(queue[h]) : Owned(queue[h][i], session[h])
        BY <1>2 DEF OwnInv
      <4>2. /\ Len(queue'[h]) = Len(queue[h]) + 1 /\ queue'[h][Len(queue[h]) + 1] = ev[t]
            /\ \A i \in 1..Len(queue[h]) : queue'[h][i] = queue[h][i]
            /\ Len(queue[h]) \in Nat
        BY <2>1, <2>2, <3>1, AppendProperties, LenProperties
      <4>3. ASSUME NEW i \in 1..Len(queue'[h]) PROVE Owned(queue'[h][i], session[h])
        <5>1. CASE i = Len(queue[h]) + 1
          BY <2>1, <4>2, <5>1
        <5>2. CASE i \in 1..Len(queue[h])
          BY <4>1, <4>2, <5>2
        <5> QED BY <4>2, <5>1, <5>2
      <4> QED BY <4>3
    <3>3. ASSUME ~discard[h] PROVE OwnPart(told'[h], got[h] \o queue'[h], session[h])
      <4>1. /\ got[h] \o queue'[h] = Append(got[h] \o queue[h], ev[t])
            /\ got[h] \o queue[h] \in Seq(Event)
        <5>1. /\ got[h] \o Append(queue[h], ev[t]) = Append(got[h] \o queue[h], ev[t])
              /\ got[h] \o queue[h] \in Seq(Event)
          BY <2>1, <2>2, SentLast, Zenon
        <5> QED BY <3>1, <5>1
      <4>2. OwnPart(told[h], got[h] \o queue[h], session[h])
        BY <1>2, <3>3 DEF ReturnInv
      <4>3. CASE ev[t].of = session[h]
        <5>1. told'[h] = Append(told[h], ev[t])
          BY <1>1, <2>1, <2>3, <4>3 DEF Sending
        <5> QED BY <2>1, <2>2, <4>1, <4>2, <5>1, OwnBoth
      <4>4. CASE ev[t].of # session[h]
        <5>1. told'[h] = told[h]
          BY <1>1, <4>4
        <5> QED BY <2>1, <2>2, <4>1, <4>2, <4>4, <5>1, OwnOther
      <4> QED BY <4>3, <4>4
    <3> QED BY <3>2, <3>3
  <2>4. CASE pc[h] \notin Sending
    <3>1. ~(h = slot /\ open[h]) /\ pc[h] \notin {"running", "clearing"}
      BY <2>4, ThreadKinds DEF ThreadFacts, IInv, SenderOwned, Sending
    <3>2. queue'[h] = queue[h] /\ told'[h] = told[h]
      BY <1>1, <3>1
    <3> QED BY <1>2, <3>2 DEF OwnInv, ReturnInv
  <2> QED BY <2>3, <2>4
<1>3. OwnInv'
  BY <1>1, <1>2 DEF OwnInv, Owned
<1>4. ReturnInv'
  BY <1>1, <1>2 DEF ReturnInv
<1> QED BY <1>3, <1>4

\* The invariant of the sessions.
CaptureInv == BaseInv /\ OwnInv /\ ReturnInv

\* It holds before the first session ...
LEMMA CaptureInit == Init => CaptureInv
<1> SUFFICES ASSUME Init PROVE CaptureInv
  OBVIOUS
<1>1. \A h \in Harness : pc[h] \notin Capturing
  BY DEF Init, Capturing, Sending
<1> QED BY <1>1, BaseInit DEF CaptureInv, OwnInv, ReturnInv

\* ... and every step keeps it.
LEMMA CaptureStep == CaptureInv /\ [Next]_vars => CaptureInv'
<1> SUFFICES ASSUME CaptureInv, [Next]_vars PROVE CaptureInv'
  OBVIOUS
<1>1. BaseInv /\ BaseInv' /\ OwnInv /\ ReturnInv
  BY BaseStep DEF CaptureInv
<1>2. CASE \E h \in Harness : Install(h) \/ Collect(h)
  BY <1>1, <1>2, InstallOwn, CollectOwn DEF CaptureInv
<1>3. CASE \E t \in Thread : EmitSession(t)
  BY <1>1, <1>3, EmitOwn DEF CaptureInv
<1>4. CASE /\ Next
           /\ ~ \E h \in Harness : Install(h) \/ Collect(h)
           /\ ~ \E t \in Thread : EmitSession(t)
  BY <1>1, <1>4, OthersSame, SameKeeps DEF CaptureInv
<1>5. CASE UNCHANGED vars
  <2>1. \A h \in Harness : Same(h)
    BY <1>5 DEF Same, vars, harness, threads, emits, channel
  <2> QED BY <1>1, <2>1, SameKeeps DEF CaptureInv
<1> QED BY <1>2, <1>3, <1>4, <1>5

\* Sessions take turns, their workers live within them or were left behind by a
\* panic, and what is captured is what their threads emitted.
THEOREM CaptureInvariant == Spec => []CaptureInv
  BY CaptureInit, CaptureStep, PTL DEF Spec

\* Every variable keeps its type; events are well formed from emit to finish.
THEOREM TypesCorrect == Spec => []TypeOK
<1>1. CaptureInv => TypeOK
  BY DEF CaptureInv, BaseInv
<1> QED BY <1>1, CaptureInvariant, PTL

\* finish returns every event that the test's threads emitted before its sender
\* was taken down, in emission order, and no other event of theirs.
THEOREM NothingIsLost == Spec => []FinishReturnsAll
<1>1. CaptureInv => FinishReturnsAll
  <2> SUFFICES ASSUME CaptureInv, NEW h \in Harness, pc[h] = "unlocking", ~discard[h]
               PROVE  OwnPart(told[h], got[h], session[h])
    BY DEF FinishReturnsAll
  <2>1. queue[h] = << >> /\ OwnPart(told[h], got[h] \o queue[h], session[h])
    BY DEF CaptureInv, BaseInv, SlotInv, ReturnInv, Capturing
  <2>2. got[h] \o << >> = got[h]
    BY ConcatEmptySeq DEF CaptureInv, BaseInv, TypeOK
  <2> QED BY <2>1, <2>2
<1> QED BY <1>1, CaptureInvariant, PTL

\* What finish returns from harnesses and workers is of the test itself, or of a
\* test that panicked.
THEOREM WorkersStayApart == Spec => []WorkersDoNotPollute
<1>1. CaptureInv => WorkersDoNotPollute
  <2> SUFFICES ASSUME CaptureInv, NEW h \in Harness, pc[h] = "unlocking",
                      NEW i \in DOMAIN got[h]
               PROVE  Owned(got[h][i], session[h])
    BY DEF WorkersDoNotPollute, Returned, Owned
  <2>1. DOMAIN got[h] = 1..Len(got[h])
    BY DEF CaptureInv, BaseInv, TypeOK
  <2> QED BY <2>1 DEF CaptureInv, OwnInv, Capturing
<1> QED BY <1>1, CaptureInvariant, PTL

-----------------------------------------------------------------------------
\* The generated code gives every thread that emits an id of its own.
Explicit ==
  /\ \A t \in Emitter : ExplicitId[t] # NoOne
  /\ \A t, u \in Emitter : ExplicitId[t] = ExplicitId[u] => t = u

\* An event that a thread is emitting, that is on its way or collected.
Held(e) ==
  \/ \E t \in Thread : epc[t] # "idle" /\ ev[t] = e
  \/ \E h \in Harness : \E i \in 1..Len(queue[h]) : queue[h][i] = e
  \/ \E h \in Harness : \E i \in 1..Len(got[h]) : got[h][i] = e

\* Events come only from threads that make them.
LEMMA HeldBefore ==
  ASSUME BaseInv, [Next]_vars, NEW e, Held(e)'
  PROVE  Held(e) \/ \E t \in Thread : MakeEvent(t) /\ e = ev'[t]
<1> USE DEF BaseInv
<1>1. ASSUME queue' = queue, got' = got, epc' = epc, ev' = ev PROVE Held(e)
  BY <1>1 DEF Held
<1>2. ASSUME NEW h \in Harness, Install(h) PROVE Held(e)
  <2>1. /\ epc' = epc /\ ev' = ev /\ queue'[h] = << >> /\ got'[h] = << >>
        /\ \A g \in Harness : g # h => queue'[g] = queue[g] /\ got'[g] = got[g]
    BY <1>2 DEF Install, emits, TypeOK
  <2>2. \A g \in Harness : g = h => 1..Len(queue'[g]) = {} /\ 1..Len(got'[g]) = {}
    BY <2>1
  <2> QED BY <2>1, <2>2 DEF Held
<1>3. ASSUME NEW h \in Harness, Collect(h), ~(queue' = queue /\ got' = got) PROVE Held(e)
  <2>1. /\ queue[h] # << >> /\ epc' = epc /\ ev' = ev
        /\ got'[h] = Append(got[h], Head(queue[h])) /\ queue'[h] = Tail(queue[h])
        /\ \A g \in Harness : g # h => queue'[g] = queue[g] /\ got'[g] = got[g]
        /\ queue[h] \in Seq(Event) /\ got[h] \in Seq(Event)
    BY <1>3 DEF Collect, emits, TypeOK
  <2>2. /\ Len(queue'[h]) = Len(queue[h]) - 1 /\ Len(got'[h]) = Len(got[h]) + 1
        /\ \A i \in 1..Len(queue'[h]) : queue'[h][i] = queue[h][i + 1]
        /\ \A i \in 1..Len(got[h]) : got'[h][i] = got[h][i]
        /\ got'[h][Len(got[h]) + 1] = queue[h][1]
        /\ Len(queue[h]) \in Nat /\ Len(queue[h]) >= 1 /\ Len(got[h]) \in Nat
    BY <2>1
  <2>3. ASSUME NEW i \in 1..Len(queue'[h]) PROVE Held(queue'[h][i])
    <3>1. i + 1 \in 1..Len(queue[h]) /\ queue'[h][i] = queue[h][i + 1]
      BY <2>2
    <3> QED BY <3>1 DEF Held
  <2>4. ASSUME NEW i \in 1..Len(got'[h]) PROVE Held(got'[h][i])
    <3>1. i \in 1..Len(got[h]) \/ i = Len(got[h]) + 1
      BY <2>2
    <3>2. CASE i \in 1..Len(got[h])
      BY <2>2, <3>2 DEF Held
    <3>3. CASE i = Len(got[h]) + 1
      <4>1. 1 \in 1..Len(queue[h]) /\ got'[h][i] = queue[h][1]
        BY <2>2, <3>3
      <4> QED BY <4>1 DEF Held
    <3> QED BY <3>1, <3>2, <3>3
  <2>5. CASE \E i \in 1..Len(queue'[h]) : queue'[h][i] = e
    BY <2>3, <2>5
  <2>6. CASE \E i \in 1..Len(got'[h]) : got'[h][i] = e
    BY <2>4, <2>6
  <2>7. CASE /\ ~ \E i \in 1..Len(queue'[h]) : queue'[h][i] = e
             /\ ~ \E i \in 1..Len(got'[h]) : got'[h][i] = e
    BY <2>1, <2>7, ZenonT(60) DEF Held
  <2> QED BY <2>5, <2>6, <2>7
<1>4. ASSUME NEW t \in Thread, EmitSession(t) PROVE Held(e)
  <2>1. /\ got' = got /\ ev' = ev /\ epc[t] # "idle"
        /\ \A u \in Thread : epc'[u] # "idle" => epc[u] # "idle"
        /\ \A g \in Harness : queue'[g] = queue[g] \/ queue'[g] = Append(queue[g], ev[t])
    BY <1>4 DEF EmitSession, TypeOK
  <2>2. ASSUME NEW g \in Harness, NEW i \in 1..Len(queue'[g]) PROVE Held(queue'[g][i])
    <3>1. CASE queue'[g] = queue[g]
      BY <3>1 DEF Held
    <3>2. CASE queue'[g] = Append(queue[g], ev[t])
      <4>1. ev[t] \in Event /\ queue[g] \in Seq(Event)
        BY <2>1 DEF LiveInv, EmitLive, TypeOK
      <4>2. i \in 1..Len(queue[g]) \/ i = Len(queue[g]) + 1
        BY <3>2, <4>1
      <4>3. CASE i \in 1..Len(queue[g])
        <5>1. queue'[g][i] = queue[g][i]
          BY <3>2, <4>1, <4>3
        <5> QED BY <4>3, <5>1 DEF Held
      <4>4. CASE i = Len(queue[g]) + 1
        <5>1. queue'[g][i] = ev[t]
          BY <3>2, <4>1, <4>4
        <5> QED BY <2>1, <5>1 DEF Held
      <4> QED BY <4>2, <4>3, <4>4
    <3> QED BY <2>1, <3>1, <3>2
  <2>3. CASE \E g \in Harness : \E i \in 1..Len(queue'[g]) : queue'[g][i] = e
    BY <2>2, <2>3
  <2>4. CASE ~ \E g \in Harness : \E i \in 1..Len(queue'[g]) : queue'[g][i] = e
    BY <2>1, <2>4 DEF Held
  <2> QED BY <2>3, <2>4
<1>5. ASSUME NEW t \in Thread, EmitGlobal(t) PROVE Held(e)
  <2>1. /\ queue' = queue /\ got' = got /\ ev' = ev
        /\ \A u \in Thread : epc'[u] # "idle" => epc[u] # "idle"
    BY <1>5 DEF EmitGlobal, TypeOK, channel
  <2> QED BY <2>1 DEF Held
<1>6. ASSUME NEW t \in Thread, MakeEvent(t) PROVE Held(e) \/ e = ev'[t]
  <2>1. /\ queue' = queue /\ got' = got
        /\ \A u \in Thread : u # t => ev'[u] = ev[u] /\ epc'[u] = epc[u]
    BY <1>6 DEF MakeEvent, TypeOK, channel
  <2> QED BY <2>1 DEF Held
<1>7. ASSUME NEW h \in Harness,
             \/ Begin(h) \/ ResetIds(h) \/ SpawnCollector(h) \/ Finish(h) \/ Clear(h)
             \/ Join(h) \/ Release(h) \/ SpawnFails(h) \/ Panic(h)
             \/ \E c \in Child : Spawn(h, c)
      PROVE  Held(e)
  BY <1>1, <1>7 DEF Begin, ResetIds, SpawnCollector, Finish, Clear, Join, Release, SpawnFails,
     Panic, Spawn, emits, channel
<1>8. ASSUME (\E c \in Child : Exit(c)) \/ LegacyReset \/ LegacySet \/ LegacySend \/ LegacyClear
      PROVE  Held(e)
  BY <1>1, <1>8 DEF Exit, LegacyReset, LegacySet, LegacySend, LegacyClear, emits, channel
<1>9. CASE UNCHANGED vars
  BY <1>1, <1>9 DEF vars, emits, channel
<1>10. ASSUME NEW h \in Harness, Collect(h) PROVE Held(e)
  <2>1. CASE queue' = queue /\ got' = got
    BY <1>1, <1>10, <2>1 DEF Collect, emits
  <2> QED BY <1>3, <1>10, <2>1
<1> QED BY <1>2, <1>4, <1>5, <1>6, <1>7, <1>8, <1>9, <1>10 DEF Next, HarnessStep, Emit

\* Before the test runs.
Fresh == {"locked", "reset", "installed"}

\* The children that get implicit ids.
Body == Child \ Worker

\* An event of the latest session carries the id that its thread still has, and
\* there is none before that session's test runs.
Known(e) ==
  /\ e.of <= begun
  /\ e.of = begun => /\ e.by \in Emitter /\ session[e.by] = begun /\ tid[e.by] = e.id
                      /\ \A h \in Harness : pc[h] \notin Fresh

\* All events in the program are such.
EventInv == \A e \in Event : Held(e) => Known(e)

\* Implicit ids of the latest session were taken from the counter, once each,
\* unless a legacy test has reset it.
IdInv ==
  resets = 0 => \A c, d \in Body :
    session[c] = begun /\ session[d] = begun /\ tid[c] # NoOne /\ tid[d] # NoOne =>
      tid[c] < nextId /\ (tid[c] = tid[d] => c = d)

\* A worker has its number from its start on.
NamedInv == \A c \in Worker : owner[c] # NoOne \/ session[c] # 0 => tid[c] = ExplicitId[c]

\* The invariant of the ids.
PeerInv == BaseInv /\ EventInv /\ IdInv /\ NamedInv

\* Only well-formed events are held.
LEMMA HeldIsEvent == ASSUME BaseInv, NEW e, Held(e) PROVE e \in Event
<1>1. /\ \A t \in Thread : epc[t] # "idle" => ev[t] \in Event
      /\ \A h \in Harness : queue[h] \in Seq(Event) /\ got[h] \in Seq(Event)
  BY DEF BaseInv, TypeOK, LiveInv, EmitLive
<1>2. \A h \in Harness : \A i \in 1..Len(queue[h]) : queue[h][i] \in Event
  BY <1>1, ElementOfSeq
<1>3. \A h \in Harness : \A i \in 1..Len(got[h]) : got[h][i] \in Event
  BY <1>1, ElementOfSeq
<1> QED BY <1>1, <1>2, <1>3 DEF Held

\* How most steps leave sessions and ids.
IdFrame ==
  /\ begun' = begun /\ session' = session /\ tid' = tid
  /\ nextId' = nextId /\ resets' = resets
  /\ \A h \in Harness : pc'[h] \in Fresh => pc[h] \in Fresh
  /\ \A c \in Child : owner'[c] # NoOne => owner[c] # NoOne

\* The steps that touch no id.
LEMMA IdFrames ==
  ASSUME BaseInv, [Next]_vars,
         ~ \E h \in Harness : \/ Begin(h) \/ ResetIds(h) \/ SpawnCollector(h)
                               \/ \E c \in Child : Spawn(h, c),
         ~ \E t \in Thread : MakeEvent(t),
         ~ LegacyReset
  PROVE  IdFrame
<1> USE DEF IdFrame, Fresh
<1>1. ASSUME NEW h \in Harness, Install(h) \/ Finish(h) \/ Clear(h) \/ Join(h) PROVE IdFrame
  BY <1>1 DEF Install, Finish, Clear, Join, Goto, BaseInv, TypeOK, slots, threads, env
<1>2. ASSUME NEW h \in Harness, Release(h) \/ SpawnFails(h) \/ Panic(h) \/ Collect(h)
      PROVE  IdFrame
  BY <1>2 DEF Release, SpawnFails, Panic, Collect, Goto, BaseInv, TypeOK, slots, harness,
     threads, env
<1>3. ASSUME NEW c \in Child, Exit(c) PROVE IdFrame
  BY <1>3 DEF Exit, BaseInv, TypeOK, slots, harness, env
<1>4. ASSUME NEW t \in Thread, EmitGlobal(t) \/ EmitSession(t) PROVE IdFrame
  BY <1>4 DEF EmitGlobal, EmitSession, slots, harness, threads, env
<1>5. ASSUME LegacySet \/ LegacySend \/ LegacyClear PROVE IdFrame
  BY <1>5 DEF LegacySet, LegacySend, LegacyClear, slots, harness, threads
<1>6. CASE UNCHANGED vars
  BY <1>6 DEF vars, slots, harness, threads, env
<1> QED BY <1>1, <1>2, <1>3, <1>4, <1>5, <1>6 DEF Next, HarnessStep, Emit

\* A step keeps the ids of the latest session.
LEMMA PeerStep == PeerInv /\ [Next]_vars => PeerInv'
<1> SUFFICES ASSUME PeerInv, [Next]_vars PROVE PeerInv'
  OBVIOUS
<1>0. BaseInv /\ BaseInv' /\ EventInv /\ IdInv /\ NamedInv
  BY BaseStep DEF PeerInv
<1>1. /\ ThreadFacts /\ Emitter \subseteq Thread /\ Body \subseteq Child
      /\ \A c \in Body : ExplicitId[c] = NoOne /\ c \in Thread /\ c \notin Harness
      /\ \A c \in Worker : ExplicitId[c] # NoOne /\ c \in Thread /\ c \notin Harness /\ c \notin Body
  BY ThreadKinds, EmittersAreThreads DEF ThreadFacts, Body, Worker
<1>2. /\ begun \in Nat /\ nextId \in Nat /\ resets \in Nat
      /\ \A t \in Thread : session[t] \in Nat /\ session[t] <= begun
      /\ \A t \in Thread : tid[t] \in Nat \cup {NoOne}
  <2>1. /\ begun \in Nat /\ nextId \in Nat /\ resets \in Nat
        /\ \A t \in Thread : session[t] \in 0..MaxSessions
        /\ \A t \in Thread : tid[t] \in Nat \cup {NoOne}
    <3>1. TypeOK
      BY <1>0 DEF BaseInv
    <3> QED BY <3>1 DEF TypeOK
  <2>2. \A t \in Thread : session[t] <= begun
    BY <1>0 DEF BaseInv, SessionInv
  <2> QED BY <2>1, <2>2
<1>e. \A e \in Event : e.of \in Nat /\ e.id \in Nat /\ e.id # NoOne
  BY <1>1 DEF Event, ThreadFacts
\* The events that were there before.
<1>3. ASSUME \A e \in Event : Known(e) => Known(e)',
             ~ \E t \in Thread : MakeEvent(t)
      PROVE  EventInv'
  <2> SUFFICES ASSUME NEW e \in Event, Held(e)' PROVE Known(e)'
    BY DEF EventInv
  <2>1. Held(e)
    BY <1>0, <1>3, HeldBefore
  <2> QED BY <1>0, <1>3, <2>1 DEF EventInv
<1>4. ASSUME NEW h \in Harness, Begin(h) PROVE EventInv' /\ IdInv' /\ NamedInv'
  <2>1. /\ begun' = begun + 1 /\ tid' = tid /\ owner' = owner
        /\ \A t \in Thread : t # h => session'[t] = session[t]
    BY <1>0, <1>4 DEF Begin, BaseInv, TypeOK
  <2>2. \A e \in Event : Known(e) => Known(e)'
    BY <1>2, <1>e, <2>1 DEF Known
  <2>3. ~ \E t \in Thread : MakeEvent(t)
    BY <1>0, <1>2, <1>4, <2>1 DEF Begin, MakeEvent, harness
  <2>4. IdInv'
    BY <1>1, <1>2, <1>4, <2>1 DEF IdInv
  <2>5. NamedInv'
    BY <1>0, <1>1, <1>4, <2>1 DEF NamedInv
  <2> QED BY <1>3, <2>2, <2>3, <2>4, <2>5
<1>5. ASSUME NEW h \in Harness, ResetIds(h) PROVE EventInv' /\ IdInv' /\ NamedInv'
  <2>1. /\ pc[h] = "locked" /\ begun' = begun /\ session' = session /\ tid' = tid
        /\ owner' = owner /\ epc' = epc /\ pc'[h] # pc[h]
    BY <1>0, <1>5 DEF ResetIds, Goto, threads, emits, BaseInv, TypeOK
  <2>2. \A c \in Child : session[c] < begun
    BY <1>0, <2>1 DEF BaseInv, SessionInv
  <2>3. ~ \E t \in Thread : MakeEvent(t)
    BY <2>1 DEF MakeEvent, harness
  <2>4. IdInv'
    BY <1>1, <1>2, <2>1, <2>2 DEF IdInv
  <2>5. \A e \in Event : Known(e) => Known(e)'
    BY <2>1 DEF Known, Fresh
  <2> QED BY <1>0, <1>3, <2>1, <2>3, <2>4, <2>5 DEF NamedInv
<1>6. ASSUME NEW h \in Harness, SpawnCollector(h) PROVE EventInv' /\ IdInv' /\ NamedInv'
  <2>1. /\ pc[h] = "installed" /\ begun' = begun /\ session' = session /\ owner' = owner
        /\ nextId' = nextId /\ resets' = resets /\ epc' = epc /\ pc'[h] # pc[h]
        /\ \A t \in Thread : t # h => tid'[t] = tid[t]
    BY <1>0, <1>6 DEF SpawnCollector, Goto, slots, env, emits, BaseInv, TypeOK
  <2>2. ~ \E t \in Thread : MakeEvent(t)
    BY <2>1 DEF MakeEvent, harness
  <2>3. \A e \in Event : Known(e) => Known(e)'
    BY <2>1 DEF Known, Fresh
  <2>4. \A c \in Child : c \in Thread /\ c # h /\ tid'[c] = tid[c]
    BY <1>1, <2>1 DEF ThreadFacts
  <2>5. IdInv'
    BY <1>0, <1>1, <2>1, <2>4 DEF IdInv
  <2>6. NamedInv'
    BY <1>0, <1>1, <2>1, <2>4 DEF NamedInv, ThreadFacts
  <2> QED BY <1>3, <2>2, <2>3, <2>5, <2>6
<1>7. ASSUME NEW h \in Harness, NEW c \in Child, Spawn(h, c)
      PROVE  EventInv' /\ IdInv' /\ NamedInv'
  <2>1. /\ begun' = begun /\ nextId' = nextId /\ resets' = resets /\ epc' = epc /\ pc' = pc
        /\ session[c] # session[h] /\ session[h] = begun /\ session'[c] = begun
        /\ \A t \in Thread : t # c => session'[t] = session[t] /\ tid'[t] = tid[t]
        /\ tid'[c] = ExplicitId[c]
        /\ \A d \in Child : d # c => owner'[d] = owner[d]
        /\ owner' # owner
    <3>1. /\ begun' = begun /\ nextId' = nextId /\ resets' = resets /\ epc' = epc /\ pc' = pc
          /\ session[c] # session[h] /\ session[h] = begun
      BY <1>0, <1>7 DEF Spawn, slots, harness, emits, env, BaseInv, SessionInv
    <3>2. /\ owner'[c] = h /\ owner[c] = NoOne /\ session'[c] = session[h]
          /\ tid'[c] = ExplicitId[c]
          /\ \A t \in Thread : t # c => session'[t] = session[t] /\ tid'[t] = tid[t]
          /\ \A d \in Child : d # c => owner'[d] = owner[d]
      BY <1>0, <1>1, <1>7 DEF Spawn, BaseInv, TypeOK, ThreadFacts
    <3> QED BY <1>1, <3>1, <3>2 DEF ThreadFacts
  <2>2. \A e \in Event : Known(e) => Known(e)'
    BY <1>1, <1>2, <2>1 DEF Known
  <2>3. ~ \E t \in Thread : MakeEvent(t)
    BY <2>1 DEF MakeEvent
  <2>4. IdInv'
    BY <1>0, <1>1, <2>1 DEF IdInv
  <2>5. NamedInv'
    BY <1>0, <1>1, <2>1 DEF NamedInv, ThreadFacts
  <2> QED BY <1>3, <2>2, <2>3, <2>4, <2>5
<1>8. ASSUME NEW t \in Thread, MakeEvent(t) PROVE EventInv' /\ IdInv' /\ NamedInv'
  <2>1. /\ t \in Emitter /\ begun' = begun /\ session' = session /\ resets' = resets
        /\ pc' = pc /\ owner' = owner
        /\ tid'[t] = IF tid[t] = NoOne THEN nextId ELSE tid[t]
        /\ nextId' = IF tid[t] = NoOne THEN nextId + 1 ELSE nextId
        /\ \A u \in Thread : u # t => tid'[u] = tid[u]
    BY <1>0, <1>8 DEF MakeEvent, harness, env, BaseInv, TypeOK
  <2>2. ev'[t].by = t /\ ev'[t].of = session[t] /\ ev'[t].id = tid'[t]
    BY <1>0, <1>8 DEF MakeEvent, BaseInv, TypeOK
  <2>n. session[t] = begun => \A h \in Harness : pc[h] \notin Fresh
    <3>1. CASE t \in Harness
      <4>1. pc[t] = "running" /\ pc[t] # "idle" /\ t \in Harness
        BY <1>8, <3>1 DEF MakeEvent
      <4>2. \A h \in Harness : pc[h] # "idle" => h = t
        BY <1>0, <4>1, OneSession DEF BaseInv, IInv
      <4> QED BY <4>1, <4>2 DEF Fresh
    <3>2. CASE t \in Child
      BY <1>0, <1>2, <3>2 DEF BaseInv, SessionInv, Fresh
    <3> QED BY <1>1, <3>1, <3>2 DEF ThreadFacts
  <2>3. ASSUME NEW e \in Event, Held(e)' PROVE Known(e)'
    <3>1. CASE Held(e)
      <4>1. Known(e)
        BY <1>0, <3>1 DEF EventInv
      <4> QED BY <1>1, <1>e, <2>1, <4>1 DEF Known
    <3>2. CASE e = ev'[t]
      BY <1>2, <2>1, <2>2, <2>n, <3>2 DEF Known
    <3>3. \A u \in Thread : MakeEvent(u) => u = t
      BY <1>0, <1>8 DEF MakeEvent, BaseInv, TypeOK
    <3> QED BY <1>0, <2>3, <3>1, <3>2, <3>3, HeldBefore
  <2>4. IdInv'
    BY <1>1, <1>2, <1>0, <2>1 DEF IdInv
  <2>5. NamedInv'
    BY <1>0, <1>1, <2>1 DEF NamedInv
  <2> QED BY <2>3, <2>4, <2>5 DEF EventInv
<1>9. ASSUME LegacyReset PROVE EventInv' /\ IdInv' /\ NamedInv'
  <2>1. /\ begun' = begun /\ session' = session /\ tid' = tid /\ epc' = epc /\ pc' = pc
        /\ owner' = owner /\ resets' = resets + 1
    BY <1>9 DEF LegacyReset, harness, threads, emits
  <2>2. ~ \E t \in Thread : MakeEvent(t)
    BY <1>2, <2>1 DEF MakeEvent, env
  <2> QED BY <1>0, <1>2, <1>3, <2>1, <2>2 DEF Known, IdInv, NamedInv
<1>10. CASE /\ ~ \E h \in Harness : \/ Begin(h) \/ ResetIds(h) \/ SpawnCollector(h)
                                      \/ \E c \in Child : Spawn(h, c)
            /\ ~ \E t \in Thread : MakeEvent(t)
            /\ ~ LegacyReset
  <2>1. IdFrame
    BY <1>0, <1>10, IdFrames
  <2>2. \A e \in Event : Known(e) => Known(e)'
    BY <2>1 DEF IdFrame, Known
  <2>3. IdInv' /\ NamedInv'
    BY <1>0, <1>1, <2>1 DEF IdFrame, IdInv, NamedInv, ThreadFacts
  <2> QED BY <1>0, <1>3, <1>10, <2>2, <2>3 DEF PeerInv
<1> QED BY <1>0, <1>4, <1>5, <1>6, <1>7, <1>8, <1>9, <1>10 DEF PeerInv

\* What finish returns is held, and of the latest session.
LEMMA ReturnedHeld ==
  ASSUME BaseInv, NEW h \in Harness, pc[h] = "unlocking",
         NEW d \in Returned(h)
  PROVE  Held(d) /\ d \in Event /\ session[h] = begun
<1>1. DOMAIN got[h] = 1..Len(got[h])
  BY DEF BaseInv, TypeOK
<1>2. Held(d)
  BY <1>1 DEF Held, Returned
<1> QED BY <1>2, HeldIsEvent DEF BaseInv, SessionInv

\* Threads that get their ids in the same way.
Peers(t, u) ==
  \/ t \in Worker /\ u \in Worker
  \/ resets = 0 /\ t \in Child \ Worker /\ u \in Child \ Worker

\* What is left of StableIds when explicit and implicit ids meet in a test: a
\* thread keeps its id over the whole session, also when the harness's thread
\* has run an earlier test, and two workers, or two threads of the body, never
\* have the same one.
PeersToldApart ==
  \A h \in Harness :
    pc[h] = "unlocking" /\ ~discard[h]
      => \A d, e \in Returned(h) :
           d.of = session[h] /\ e.of = session[h] =>
             /\ d.by = e.by => d.id = e.id
             /\ d.id = e.id /\ Peers(d.by, e.by) => d.by = e.by

\* In what finish returns a thread has one id, and two workers, or two threads of
\* a test's body, have two: for any mixture of explicit and implicit ids, tests
\* that emit themselves, threads that outlive their test, and harness threads
\* that ran a test before.
THEOREM PeersAreToldApart == Spec => []PeersToldApart
<1>1. Init => PeerInv
  <2> SUFFICES ASSUME Init PROVE EventInv /\ IdInv /\ NamedInv
    BY BaseInit DEF PeerInv
  <2>1. \A e : ~Held(e)
    BY DEF Init, Held
  <2>2. /\ \A t \in Thread : tid[t] = NoOne /\ session[t] = 0
        /\ \A c \in Child : owner[c] = NoOne
    BY DEF Init
  <2>3. ThreadFacts /\ Body \subseteq Child
    BY ThreadKinds DEF Body
  <2> QED BY <2>1, <2>2, <2>3 DEF EventInv, IdInv, NamedInv, ThreadFacts
<1>2. PeerInv => PeersToldApart
  <2> SUFFICES ASSUME PeerInv, NEW h \in Harness, pc[h] = "unlocking",
                      NEW d \in Returned(h), NEW e \in Returned(h),
                      d.of = session[h], e.of = session[h]
               PROVE  /\ d.by = e.by => d.id = e.id
                      /\ d.id = e.id /\ Peers(d.by, e.by) => d.by = e.by
    BY DEF PeersToldApart
  <2>1. Held(d) /\ Held(e) /\ d \in Event /\ e \in Event /\ session[h] = begun
    BY ReturnedHeld DEF PeerInv
  <2>2. Known(d) /\ Known(e) /\ begun # 0
    BY <2>1 DEF PeerInv, EventInv, BaseInv, SessionInv
  <2>3. d.id # NoOne /\ e.id # NoOne
    BY <2>1, NoOneIsNoThread DEF Event
  <2>4. /\ session[d.by] = begun /\ tid[d.by] = d.id
        /\ session[e.by] = begun /\ tid[e.by] = e.id
    BY <2>1, <2>2 DEF Known
  <2>5. ASSUME d.id = e.id, d.by \in Worker, e.by \in Worker PROVE d.by = e.by
    <3>1. ExplicitId[d.by] = ExplicitId[e.by]
      BY <2>2, <2>4, <2>5 DEF PeerInv, NamedInv
    <3> QED BY <2>5, <3>1, WorkersNumbered
  <2>6. ASSUME d.id = e.id, resets = 0, d.by \in Child \ Worker, e.by \in Child \ Worker
        PROVE  d.by = e.by
    BY <2>3, <2>4, <2>6 DEF PeerInv, IdInv, Body
  <2> QED BY <2>4, <2>5, <2>6 DEF Peers
<1> QED BY <1>1, <1>2, PeerStep, PTL DEF Spec

-----------------------------------------------------------------------------
\* With explicit ids a thread that may emit has its own, and so have its events.
ExplicitInv ==
  /\ BaseInv
  /\ \A t \in Emitter : (t \in Harness /\ pc[t] = "running") \/ (t \in Child /\ owner[t] # NoOne)
                        => tid[t] = ExplicitId[t]
  /\ \A e \in Event : Held(e) => e.by \in Emitter /\ e.id = ExplicitId[e.by]

\* Every step keeps that.
LEMMA ExplicitStep == Explicit /\ ExplicitInv /\ [Next]_vars => ExplicitInv'
<1> SUFFICES ASSUME Explicit, ExplicitInv, [Next]_vars PROVE ExplicitInv'
  OBVIOUS
<1>0. BaseInv /\ BaseInv'
  BY BaseStep DEF ExplicitInv
<1>1. ThreadFacts /\ Emitter \subseteq Thread
  BY ThreadKinds, EmittersAreThreads
<1> DEFINE Live(u) == (u \in Harness /\ pc[u] = "running") \/ (u \in Child /\ owner[u] # NoOne)
           Named == \A u \in Emitter : Live(u) => tid[u] = ExplicitId[u]
<1>2. Named
  BY DEF ExplicitInv
<1>3. ASSUME NEW t \in Thread, MakeEvent(t)
      PROVE  /\ t \in Emitter /\ tid' = tid /\ ev'[t].by = t /\ ev'[t].id = ExplicitId[t]
             /\ pc' = pc /\ owner' = owner
  <2>1. t \in Emitter /\ pc' = pc /\ owner' = owner /\ Live(t)
    BY <1>1, <1>3 DEF MakeEvent, harness, ThreadFacts
  <2>2. tid[t] = ExplicitId[t] /\ tid[t] # NoOne
    BY <1>2, <2>1 DEF Explicit
  <2> QED BY <1>0, <1>3, <2>1, <2>2 DEF MakeEvent, BaseInv, TypeOK
<1>4. ASSUME NEW e \in Event, Held(e)' PROVE e.by \in Emitter /\ e.id = ExplicitId[e.by]
  <2>1. Held(e) \/ \E t \in Thread : MakeEvent(t) /\ e = ev'[t]
    BY <1>0, <1>4, HeldBefore
  <2> QED BY <1>3, <2>1 DEF ExplicitInv
<1>5. ASSUME tid' = tid, \A t \in Emitter : Live(t)' => Live(t) PROVE Named'
  BY <1>2, <1>5
<1> HIDE DEF Named
<1>6. ASSUME NEW h \in Harness, SpawnCollector(h) PROVE Named'
  <2>1. /\ owner' = owner
        /\ tid'[h] = IF ExplicitId[h] = NoOne THEN tid[h] ELSE ExplicitId[h]
        /\ \A t \in Thread : t # h => tid'[t] = tid[t]
        /\ \A g \in Harness : g # h => pc'[g] = pc[g]
    BY <1>0, <1>1, <1>6 DEF SpawnCollector, Goto, BaseInv, TypeOK, ThreadFacts
  <2> QED BY <1>1, <1>2, <2>1 DEF Named, Explicit, ThreadFacts
<1>7. ASSUME NEW h \in Harness, NEW c \in Child, Spawn(h, c) PROVE Named'
  <2>1. /\ pc' = pc /\ tid'[c] = ExplicitId[c]
        /\ \A t \in Thread : t # c => tid'[t] = tid[t]
        /\ \A d \in Child : d # c => owner'[d] = owner[d]
    BY <1>0, <1>1, <1>7 DEF Spawn, harness, BaseInv, TypeOK, ThreadFacts
  <2> QED BY <1>1, <1>2, <2>1 DEF Named, ThreadFacts
<1>8. ASSUME NEW h \in Harness,
             \/ Begin(h) \/ ResetIds(h) \/ Install(h) \/ Finish(h) \/ Clear(h) \/ Join(h)
             \/ Release(h) \/ SpawnFails(h) \/ Panic(h) \/ Collect(h)
      PROVE  Named'
  <2>1. /\ tid' = tid /\ owner' = owner
        /\ \A g \in Harness : pc'[g] = "running" => pc[g] = "running"
    BY <1>0, <1>8 DEF Begin, ResetIds, Install, Finish, Clear, Join, Release, SpawnFails,
       Panic,
       Collect, Goto, threads, harness, BaseInv, TypeOK
  <2> QED BY <1>5, <2>1
<1>9. ASSUME NEW c \in Child, Exit(c) PROVE Named'
  <2>1. /\ tid' = tid /\ pc' = pc
        /\ \A d \in Child : owner'[d] # NoOne => owner[d] # NoOne
    BY <1>0, <1>9 DEF Exit, harness, BaseInv, TypeOK
  <2> QED BY <1>5, <2>1
<1>10. ASSUME NEW t \in Thread, Emit(t) PROVE Named'
  <2>1. tid' = tid /\ pc' = pc /\ owner' = owner
    BY <1>3, <1>10 DEF Emit, EmitGlobal, EmitSession, harness, threads
  <2> QED BY <1>5, <2>1
<1>11. ASSUME LegacyReset \/ LegacySet \/ LegacySend \/ LegacyClear \/ UNCHANGED vars PROVE Named'
  <2>1. tid' = tid /\ pc' = pc /\ owner' = owner
    BY <1>11 DEF LegacyReset, LegacySet, LegacySend, LegacyClear, vars, harness, threads
  <2> QED BY <1>5, <2>1
<1>12. Named'
  BY <1>6, <1>7, <1>8, <1>9, <1>10, <1>11 DEF Next, HarnessStep
<1> QED BY <1>0, <1>4, <1>12 DEF Named, ExplicitInv

\* When the generated code gives every emitting thread an id of its own (worker
\* tests), the same holds whatever legacy tests do.
THEOREM ExplicitIdsAreStable == ASSUME Explicit PROVE Spec => []StableIds
<1>1. Init => ExplicitInv
  <2> SUFFICES ASSUME Init PROVE ExplicitInv
    OBVIOUS
  <2>1. \A e : ~Held(e)
    BY DEF Init, Held
  <2> QED BY <2>1, BaseInit DEF Init, ExplicitInv
<1>2. ExplicitInv => StableIds
  <2> SUFFICES ASSUME ExplicitInv, NEW h \in Harness, pc[h] = "unlocking",
                      NEW d \in Returned(h), NEW e \in Returned(h)
               PROVE  d.by = e.by <=> d.id = e.id
    BY DEF StableIds
  <2>1. Held(d) /\ Held(e) /\ d \in Event /\ e \in Event
    BY ReturnedHeld DEF ExplicitInv
  <2> QED BY <2>1 DEF ExplicitInv, Explicit
<1>3. ExplicitInv /\ [Next]_vars => ExplicitInv'
  BY ExplicitStep
<1> QED BY <1>1, <1>2, <1>3, PTL DEF Spec

\* At most one test is inside, and no sink that takes events outlives it.
THEOREM SessionsExclude == Spec => []SessionExclusive
<1>1. CaptureInv => SessionExclusive
  <2> SUFFICES ASSUME BaseInv PROVE SessionExclusive
    BY DEF CaptureInv
  <2>1. OneActive
    BY OneSession DEF OneActive, BaseInv, IInv
  <2>2. NoDanglingSink
    BY DEF NoDanglingSink, BaseInv, IInv, OneInside, SenderOwned, Inside, Sending, TypeOK
  <2> QED BY <2>1, <2>2 DEF SessionExclusive
<1> QED BY <1>1, CaptureInvariant, PTL

=============================================================================
