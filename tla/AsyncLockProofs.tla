--------------------------- MODULE AsyncLockProofs ---------------------------
(* Theorems about AsyncLock for every set of waiters, permits and weights. *)
EXTENDS AsyncLock, TLAPS, FiniteSetTheorems, SequenceTheorems

(***************************************************************************)
(* The boundary tables map points of the program to points and events.     *)
(***************************************************************************)
LEMMA BoundaryTables ==
  ASSUME NEW b \in Boundary
  PROVE  After[b] \in PC /\ EventAt[b] \in Event
BY DEF Boundary, After, EventAt, PC, Event

(***************************************************************************)
(* Taking a waiter out of the queue leaves a sequence of waiters.          *)
(***************************************************************************)
LEMMA QueueWithoutType ==
  ASSUME queue \in Seq(Waiter), NEW w \in Waiter
  PROVE  QueueWithout(w) \in Seq(Waiter)
<1>1. CASE ~InQueue(w)
  BY <1>1 DEF QueueWithout
<1>2. CASE InQueue(w)
  <2> DEFINE i == CHOOSE k \in 1..Len(queue) : queue[k] = w
             f == [k \in 1..(Len(queue) - 1) |->
                     IF k < i THEN queue[k] ELSE queue[k + 1]]
  <2>1. QueueWithout(w) = f
    BY <1>2 DEF QueueWithout
  <2>2. Len(queue) \in Nat /\ Len(queue) - 1 \in Nat
    BY <1>2 DEF InQueue
  <2>3. f \in [1..(Len(queue) - 1) -> Waiter]
    BY <2>2
  <2> QED
    BY <2>1, <2>2, <2>3, SeqDef
<1> QED BY <1>1, <1>2

(***************************************************************************)
(* Every variable keeps its type.                                          *)
(***************************************************************************)
LEMMA TypeStep == TypeOK /\ [Next]_vars => TypeOK'
<1> SUFFICES ASSUME TypeOK, [Next]_vars PROVE TypeOK'
  OBVIOUS
<1> USE ActorsDistinct, WeightsNat DEF TypeOK, Actor, sema, hookVars, seen, Goto, Need
<1>1. ASSUME NEW w \in Waiter, NEW n \in Weights, Acquire(w, n) PROVE TypeOK'
  BY <1>1 DEF Acquire, PC
<1>2. ASSUME NEW w \in Waiter, NEW n \in Weights, TryAcquire(w, n) PROVE TypeOK'
  BY <1>2 DEF TryAcquire, Take, PC, Boundary
<1>3. ASSUME NEW w \in Waiter, NEW n \in Weights, TryFail(w, n) PROVE TypeOK'
  BY <1>3 DEF TryFail, PC
<1>4. ASSUME NEW w \in Waiter, PollReady(w) PROVE TypeOK'
  BY <1>4 DEF PollReady, Take, PC, Boundary
<1>5. ASSUME NEW w \in Waiter, PollEnqueue(w) PROVE TypeOK'
  BY <1>5 DEF PollEnqueue, PendingPoll, PC, Boundary
<1>6. ASSUME NEW w \in Waiter, PollNoBudget(w) PROVE TypeOK'
  BY <1>6 DEF PollNoBudget, PendingPoll, PC, Boundary
<1>7. ASSUME NEW w \in Waiter, PollGranted(w) PROVE TypeOK'
  BY <1>7 DEF PollGranted, PC, Boundary
<1>8. ASSUME NEW w \in Waiter, DropFuture(w) PROVE TypeOK'
  BY <1>8 DEF DropFuture, PC, Boundary
<1>9. ASSUME NEW w \in Waiter, InnerDrop(w) PROVE TypeOK'
  BY <1>9, QueueWithoutType DEF InnerDrop, PC
<1>10. ASSUME NEW w \in Waiter, DropGuard(w) PROVE TypeOK'
  BY <1>10 DEF DropGuard, PC, Boundary
<1>11. ASSUME NEW w \in Waiter, Forget(w) PROVE TypeOK'
  BY <1>11 DEF Forget, PC
<1>12. ASSUME NEW w \in Waiter, Unlock(w) PROVE TypeOK'
  BY <1>12 DEF Unlock, PC
<1>13. ASSUME NEW a \in Adder, AddPermits(a) PROVE TypeOK'
  BY <1>13 DEF AddPermits, PC
<1>14. ASSUME AssignHead PROVE TypeOK'
  BY <1>14 DEF AssignHead
<1>15. ASSUME FinishReturn PROVE TypeOK'
  BY <1>15 DEF FinishReturn, PC, Boundary
<1>16. ASSUME NEW a \in Actor, SkipReport(a) PROVE TypeOK'
  BY <1>16, BoundaryTables DEF SkipReport
<1>17. ASSUME NEW a \in Actor, Arm(a) PROVE TypeOK'
  BY <1>17 DEF Arm
<1>18. ASSUME NEW a \in Actor, ReportCreated(a) PROVE TypeOK'
  BY <1>18 DEF ReportCreated
<1>19. ASSUME NEW a \in Actor, Report(a) PROVE TypeOK'
  BY <1>19, BoundaryTables DEF Report
<1>20. ASSUME InstallHook PROVE TypeOK'
  BY <1>20 DEF InstallHook
<1>21. ASSUME ClearHook PROVE TypeOK'
  <2>1. toggles' \in Nat
    BY <1>21 DEF ClearHook
  <2>2. hook' \in BOOLEAN
    BY <1>21, Zenon DEF ClearHook
  <2> QED BY <1>21, <2>1, <2>2 DEF ClearHook
<1>22. CASE UNCHANGED vars
  BY <1>22 DEF vars
<1> QED
  BY <1>1, <1>2, <1>3, <1>4, <1>5, <1>6, <1>7, <1>8, <1>9, <1>10, <1>11, <1>12, <1>13, <1>14, <1>15, <1>16, <1>17, <1>18, <1>19, <1>20, <1>21, <1>22 DEF Next

\* A fresh lock is well typed.
LEMMA TypeInit == Init => TypeOK
<1> SUFFICES ASSUME Init PROVE TypeOK
  OBVIOUS
<1>1. /\ hook \in BOOLEAN /\ created \in BOOLEAN /\ obsCreated \in BOOLEAN
      /\ enqueued \in [Waiter -> BOOLEAN] /\ requested \in [Waiter -> BOOLEAN]
      /\ armed \in [Actor -> BOOLEAN]
  BY Zenon DEF Init
<1>2. /\ avail \subseteq Permit /\ minted \subseteq Permit /\ rem \subseteq Permit
      /\ queue \in Seq(Waiter) /\ lock \in Actor \cup {NoOne}
      /\ held \in [Waiter -> SUBSET Permit] /\ weight \in [Waiter -> Nat]
      /\ pc \in [Actor -> PC] /\ toggles \in Nat
      /\ owes \in Actor \cup {NoOne} /\ obs \in [Waiter -> Event]
  BY PermitsFinite DEF Init, PC, Event
<1> QED BY <1>1, <1>2 DEF TypeOK

\* Every reachable state of every instance is well typed.
THEOREM TypeCorrect == Spec => []TypeOK
BY TypeInit, TypeStep, PTL DEF Spec

(***************************************************************************)
(* Sets of permits are finite, so that their cardinalities are numbers.    *)
(***************************************************************************)
LEMMA PermitSets ==
  ASSUME NEW S \in SUBSET Permit
  PROVE  IsFiniteSet(S) /\ Cardinality(S) \in Nat /\ (Cardinality(S) = 0 <=> S = {})
BY PermitsFinite, FS_Subset, FS_CardinalityType, FS_EmptySet

\* q is what is left of a queue without duplicates when w leaves it: the
\* others in the same order, none of them further back than before.
Left(q, w) ==
  /\ q \in Seq(Waiter)
  /\ \A i \in 1..Len(q) : q[i] # w
  /\ \A i \in 1..Len(q) : \E j \in 1..Len(queue) : j >= i /\ q[i] = queue[j]
  /\ \A i, j \in 1..Len(q) : q[i] = q[j] => i = j
  /\ \A j \in 1..Len(queue) : queue[j] # w => \E i \in 1..Len(q) : q[i] = queue[j]

\* QueueWithout takes w out of the wait list and leaves the others alone.
LEMMA QueueWithoutElements ==
  ASSUME queue \in Seq(Waiter), NEW w \in Waiter,
         \A i, j \in 1..Len(queue) : queue[i] = queue[j] => i = j
  PROVE  Left(QueueWithout(w), w)
<1>0. PICK q : q = QueueWithout(w)
  OBVIOUS
<1>a. SUFFICES Left(q, w)
  BY <1>0
<1>1. CASE ~InQueue(w)
  BY <1>0, <1>1 DEF QueueWithout, InQueue, Left
<1>2. CASE InQueue(w)
  <2> DEFINE i == CHOOSE k \in 1..Len(queue) : queue[k] = w
             f == [k \in 1..(Len(queue) - 1) |->
                     IF k < i THEN queue[k] ELSE queue[k + 1]]
  <2>1. q = f
    BY <1>0, <1>2 DEF QueueWithout
  <2>2. i \in 1..Len(queue) /\ queue[i] = w
    BY <1>2 DEF InQueue
  <2>3. q \in Seq(Waiter)
    BY <1>0, QueueWithoutType
  <2>4. Len(queue) - 1 \in Nat /\ Len(q) = Len(queue) - 1
    <3>1. Len(queue) \in Nat /\ Len(queue) - 1 \in Nat
      BY <2>2
    <3>2. DOMAIN q = 1..Len(q) /\ Len(q) \in Nat
      BY <2>3
    <3>3. DOMAIN q = 1..(Len(queue) - 1)
      BY <2>1
    <3> QED BY <3>1, <3>2, <3>3
  <2>5. \A k \in 1..Len(q) : q[k] = IF k < i THEN queue[k] ELSE queue[k + 1]
    BY <2>1, <2>4
  <2> HIDE DEF i, f
  <2>6. \A k \in 1..Len(q) : q[k] # w
    BY <2>2, <2>4, <2>5
  <2>7. \A k \in 1..Len(q) : \E j \in 1..Len(queue) : j >= k /\ q[k] = queue[j]
    BY <2>2, <2>4, <2>5
  <2>8. \A k, j \in 1..Len(q) : q[k] = q[j] => k = j
    BY <2>2, <2>4, <2>5
  <2>9. ASSUME NEW j \in 1..Len(queue), queue[j] # w
        PROVE  \E k \in 1..Len(q) : q[k] = queue[j]
    <3>1. CASE j < i
      <4>1. j \in 1..Len(q) /\ q[j] = queue[j]
        BY <2>2, <2>4, <2>5, <3>1
      <4> QED BY <4>1
    <3>2. CASE j > i
      <4>1. j - 1 \in 1..Len(q) /\ q[j - 1] = queue[j]
        BY <2>2, <2>4, <2>5, <3>2
      <4> QED BY <4>1
    <3> QED BY <2>2, <2>9, <3>1, <3>2
  <2> QED BY <2>3, <2>6, <2>7, <2>8, <2>9 DEF Left
<1> QED BY <1>1, <1>2

\* The waiters mutex and the permits in flight belong together.
LEMMA LockInvStep == IInv /\ [Next]_vars => LockInv'
<1> SUFFICES ASSUME IInv, [Next]_vars PROVE LockInv'
  OBVIOUS
<1> USE ActorsDistinct DEF IInv, TypeOK, Actor, sema, hookVars, seen, Goto, LockInv
<1>1. ASSUME NEW w \in Waiter, NEW n \in Weights, Acquire(w, n) PROVE LockInv'
  BY <1>1 DEF Acquire
<1>2. ASSUME NEW w \in Waiter, NEW n \in Weights, TryAcquire(w, n) PROVE LockInv'
  BY <1>2 DEF TryAcquire, Take
<1>3. ASSUME NEW w \in Waiter, NEW n \in Weights, TryFail(w, n) PROVE LockInv'
  BY <1>3 DEF TryFail
<1>4. ASSUME NEW w \in Waiter, PollReady(w) PROVE LockInv'
  BY <1>4 DEF PollReady, Take
<1>5. ASSUME NEW w \in Waiter, PollEnqueue(w) PROVE LockInv'
  BY <1>5 DEF PollEnqueue, PendingPoll
<1>6. ASSUME NEW w \in Waiter, PollNoBudget(w) PROVE LockInv'
  BY <1>6 DEF PollNoBudget, PendingPoll
<1>7. ASSUME NEW w \in Waiter, PollGranted(w) PROVE LockInv'
  BY <1>7 DEF PollGranted
<1>8. ASSUME NEW w \in Waiter, DropFuture(w) PROVE LockInv'
  BY <1>8 DEF DropFuture
<1>9. ASSUME NEW w \in Waiter, InnerDrop(w) PROVE LockInv'
  <2>1. CASE held[w] = {}
    BY <1>9, <2>1 DEF InnerDrop
  <2>2. CASE held[w] # {}
    <3>1. lock = NoOne
      BY <1>9, <2>2 DEF InnerDrop, QueueInv, Owns
    <3> QED BY <1>9, <2>2, <3>1 DEF InnerDrop
  <2> QED BY <2>1, <2>2
<1>10. ASSUME NEW w \in Waiter, DropGuard(w) PROVE LockInv'
  BY <1>10 DEF DropGuard
<1>11. ASSUME NEW w \in Waiter, Forget(w) PROVE LockInv'
  BY <1>11 DEF Forget
<1>12. ASSUME NEW w \in Waiter, Unlock(w) PROVE LockInv'
  BY <1>12 DEF Unlock
<1>13. ASSUME NEW a \in Adder, AddPermits(a) PROVE LockInv'
  BY <1>13 DEF AddPermits
<1>14. ASSUME AssignHead PROVE LockInv'
  BY <1>14 DEF AssignHead
<1>15. ASSUME FinishReturn PROVE LockInv'
  BY <1>15 DEF FinishReturn
<1>16. ASSUME NEW a \in Actor, SkipReport(a) PROVE LockInv'
  BY <1>16 DEF SkipReport, After, Boundary
<1>17. ASSUME NEW a \in Actor, Arm(a) PROVE LockInv'
  BY <1>17 DEF Arm
<1>18. ASSUME NEW a \in Actor, ReportCreated(a) PROVE LockInv'
  BY <1>18 DEF ReportCreated
<1>19. ASSUME NEW a \in Actor, Report(a) PROVE LockInv'
  BY <1>19 DEF Report, After, Boundary, EventAt
<1>20. ASSUME InstallHook PROVE LockInv'
  BY <1>20 DEF InstallHook
<1>21. ASSUME ClearHook PROVE LockInv'
  BY <1>21 DEF ClearHook
<1>22. CASE UNCHANGED vars
  BY <1>22 DEF vars
<1> QED
  BY <1>1, <1>2, <1>3, <1>4, <1>5, <1>6, <1>7, <1>8, <1>9, <1>10, <1>11, <1>12, <1>13, <1>14, <1>15, <1>16, <1>17, <1>18, <1>19, <1>20, <1>21, <1>22 DEF Next

\* No step loses or duplicates a permit.
LEMMA PermitsConservedStep == IInv /\ [Next]_vars => PermitsConserved'
<1> SUFFICES ASSUME IInv, [Next]_vars PROVE PermitsConserved'
  OBVIOUS
<1> USE ActorsDistinct DEF IInv, TypeOK, Actor, sema, hookVars, seen, Goto, PermitsConserved, Owns
<1>1. ASSUME NEW w \in Waiter, NEW n \in Weights, Acquire(w, n) PROVE PermitsConserved'
  BY <1>1 DEF Acquire
<1>2. ASSUME NEW w \in Waiter, NEW n \in Weights, TryAcquire(w, n) PROVE PermitsConserved'
  BY <1>2 DEF TryAcquire, Take
<1>3. ASSUME NEW w \in Waiter, NEW n \in Weights, TryFail(w, n) PROVE PermitsConserved'
  BY <1>3 DEF TryFail
<1>4. ASSUME NEW w \in Waiter, PollReady(w) PROVE PermitsConserved'
  <2>1. held[w] = {}
    BY <1>4 DEF PollReady, QueueInv
  <2>2. PICK S \in SUBSET avail : avail' = avail \ S /\ held' = [held EXCEPT ![w] = S]
    BY <1>4 DEF PollReady, Take
  <2> QED BY <1>4, <2>1, <2>2 DEF PollReady
<1>5. ASSUME NEW w \in Waiter, PollEnqueue(w) PROVE PermitsConserved'
  <2>1. held[w] = {} /\ rem = {}
    BY <1>5 DEF PollEnqueue, QueueInv, LockInv
  <2>2. /\ held' = [held EXCEPT ![w] = avail] /\ avail' = {} /\ rem' = rem
        /\ minted' = minted /\ pc'[w] \in {"requesting", "waiting"}
        /\ \A v \in Waiter : v # w => pc'[v] = pc[v]
    BY <1>5 DEF PollEnqueue, PendingPoll
  <2> QED BY <2>1, <2>2
<1>6. ASSUME NEW w \in Waiter, PollNoBudget(w) PROVE PermitsConserved'
  BY <1>6 DEF PollNoBudget, PendingPoll
<1>7. ASSUME NEW w \in Waiter, PollGranted(w) PROVE PermitsConserved'
  BY <1>7 DEF PollGranted
<1>8. ASSUME NEW w \in Waiter, DropFuture(w) PROVE PermitsConserved'
  BY <1>8 DEF DropFuture
<1>9. ASSUME NEW w \in Waiter, InnerDrop(w) PROVE PermitsConserved'
  <2>1. CASE held[w] = {}
    BY <1>9, <2>1 DEF InnerDrop
  <2>2. CASE held[w] # {}
    <3>1. lock = NoOne /\ rem = {}
      BY <1>9, <2>2 DEF InnerDrop, QueueInv, LockInv
    <3>2. /\ rem' = held[w] /\ held' = [held EXCEPT ![w] = {}] /\ avail' = avail
          /\ minted' = minted /\ pc' = [pc EXCEPT ![w] = "returning"]
      BY <1>9, <2>2 DEF InnerDrop
    <3> QED BY <3>1, <3>2
  <2> QED BY <2>1, <2>2
<1>10. ASSUME NEW w \in Waiter, DropGuard(w) PROVE PermitsConserved'
  BY <1>10 DEF DropGuard
<1>11. ASSUME NEW w \in Waiter, Forget(w) PROVE PermitsConserved'
  BY <1>11 DEF Forget
<1>12. ASSUME NEW w \in Waiter, Unlock(w) PROVE PermitsConserved'
  BY <1>12 DEF Unlock, QueueInv, LockInv, MayQueue
<1>13. ASSUME NEW a \in Adder, AddPermits(a) PROVE PermitsConserved'
  BY <1>13 DEF AddPermits, QueueInv, LockInv, MayQueue
<1>14. ASSUME AssignHead PROVE PermitsConserved'
  <2>0. PICK h \in Waiter : h = Head(queue)
    BY <1>14 DEF AssignHead
  <2>1. h = queue[1] /\ 1 \in 1..Len(queue)
    BY <1>14, <2>0 DEF AssignHead
  <2>2. PICK S \in SUBSET rem : held' = [held EXCEPT ![h] = @ \cup S] /\ rem' = rem \ S
    BY <1>14, <2>0 DEF AssignHead
  <2>3. pc[h] \notin {"unused", "created", "done"}
    BY <2>1 DEF QueueInv, MayQueue
  <2>4. avail' = avail /\ minted' = minted /\ pc' = pc
    BY <1>14 DEF AssignHead
  <2> QED BY <2>1, <2>2, <2>3, <2>4
<1>15. ASSUME FinishReturn PROVE PermitsConserved'
  BY <1>15 DEF FinishReturn, QueueInv, LockInv, MayQueue
<1>16. ASSUME NEW a \in Actor, SkipReport(a) PROVE PermitsConserved'
  BY <1>16 DEF SkipReport, After, Boundary, QueueInv, LockInv, MayQueue
<1>17. ASSUME NEW a \in Actor, Arm(a) PROVE PermitsConserved'
  BY <1>17 DEF Arm
<1>18. ASSUME NEW a \in Actor, ReportCreated(a) PROVE PermitsConserved'
  BY <1>18 DEF ReportCreated
<1>19. ASSUME NEW a \in Actor, Report(a) PROVE PermitsConserved'
  BY <1>19 DEF Report, After, Boundary, EventAt, QueueInv, LockInv, MayQueue
<1>20. ASSUME InstallHook PROVE PermitsConserved'
  BY <1>20 DEF InstallHook
<1>21. ASSUME ClearHook PROVE PermitsConserved'
  BY <1>21 DEF ClearHook
<1>22. CASE UNCHANGED vars
  BY <1>22 DEF vars
<1> QED
  BY <1>1, <1>2, <1>3, <1>4, <1>5, <1>6, <1>7, <1>8, <1>9, <1>10, <1>11, <1>12, <1>13, <1>14, <1>15, <1>16, <1>17, <1>18, <1>19, <1>20, <1>21, <1>22 DEF Next

\* No step lets a permit pass the queue.
LEMMA NoBargingStep == IInv /\ [Next]_vars => NoBarging'
<1> SUFFICES ASSUME IInv, [Next]_vars PROVE NoBarging'
  OBVIOUS
<1> USE ActorsDistinct DEF IInv, TypeOK, Actor, sema, hookVars, seen, Goto, NoBarging, Need
<1>1. ASSUME NEW w \in Waiter, NEW n \in Weights, Acquire(w, n) PROVE NoBarging'
  <2>1. \A i \in 1..Len(queue) : queue[i] # w
    BY <1>1 DEF Acquire, QueueInv, MayQueue, Owns

  <2> QED BY <1>1, <2>1 DEF Acquire
<1>2. ASSUME NEW w \in Waiter, NEW n \in Weights, TryAcquire(w, n) PROVE NoBarging'
  <2>1. \A i \in 1..Len(queue) : queue[i] # w
    BY <1>2 DEF TryAcquire, QueueInv, MayQueue, Owns

  <2>2. PICK S \in SUBSET avail : avail' = avail \ S /\ held' = [held EXCEPT ![w] = S]
    BY <1>2 DEF TryAcquire, Take
  <2> QED BY <1>2, <2>1, <2>2 DEF TryAcquire
<1>3. ASSUME NEW w \in Waiter, NEW n \in Weights, TryFail(w, n) PROVE NoBarging'
  BY <1>3 DEF TryFail
<1>4. ASSUME NEW w \in Waiter, PollReady(w) PROVE NoBarging'
  <2>1. \A i \in 1..Len(queue) : queue[i] # w
    BY <1>4 DEF PollReady, QueueInv, MayQueue, Owns

  <2>2. PICK S \in SUBSET avail : avail' = avail \ S /\ held' = [held EXCEPT ![w] = S]
    BY <1>4 DEF PollReady, Take
  <2> QED BY <1>4, <2>1, <2>2 DEF PollReady
<1>5. ASSUME NEW w \in Waiter, PollEnqueue(w) PROVE NoBarging'
  <2>1. \A i \in 1..Len(queue) : queue[i] # w
    BY <1>5 DEF PollEnqueue, QueueInv, MayQueue, Owns

  <2>2. /\ queue' = Append(queue, w) /\ avail' = {} /\ weight' = weight
        /\ held' = [held EXCEPT ![w] = avail] /\ Cardinality(avail) < weight[w]
    BY <1>5 DEF PollEnqueue
  <2>3. Cardinality(avail) \in Nat
    BY PermitSets
  <2> QED BY <2>1, <2>2, <2>3
<1>6. ASSUME NEW w \in Waiter, PollNoBudget(w) PROVE NoBarging'
  BY <1>6 DEF PollNoBudget, PendingPoll
<1>7. ASSUME NEW w \in Waiter, PollGranted(w) PROVE NoBarging'
  BY <1>7 DEF PollGranted
<1>8. ASSUME NEW w \in Waiter, DropFuture(w) PROVE NoBarging'
  BY <1>8 DEF DropFuture
<1>9. ASSUME NEW w \in Waiter, InnerDrop(w) PROVE NoBarging'
  <2>1. CASE ~enqueued[w]
    <3>1. \A i \in 1..Len(queue) : queue[i] # w
      BY <2>1 DEF QueueInv
    <3>2. queue' = queue /\ avail' = avail /\ weight' = weight
          /\ held' = [held EXCEPT ![w] = {}]
      BY <1>9, <2>1 DEF InnerDrop
    <3> QED BY <3>1, <3>2
  <2>2. CASE enqueued[w]
    <3>0. PICK q : q = QueueWithout(w)
      OBVIOUS
    <3>1. /\ q \in Seq(Waiter) /\ \A i \in 1..Len(q) : q[i] # w
          /\ \A i \in 1..Len(q) : \E j \in 1..Len(queue) : j >= i /\ q[i] = queue[j]
      <4>1. \A i, j \in 1..Len(queue) : queue[i] = queue[j] => i = j
        BY DEF QueueInv
      <4>2. queue \in Seq(Waiter)
        OBVIOUS
      <4> HIDE DEF IInv, NoBarging, Need
      <4>3. Left(QueueWithout(w), w)
        BY <4>1, <4>2, QueueWithoutElements
      <4> QED BY <3>0, <4>3 DEF Left
    <3>2. queue' = q /\ avail' = avail /\ weight' = weight
          /\ held' = [held EXCEPT ![w] = {}]
      BY <1>9, <2>2, <3>0 DEF InnerDrop
    <3>3. queue' # << >> => queue # << >>
      <4>1. q # << >> => 1 \in 1..Len(q)
        BY <3>1
      <4> QED BY <3>1, <3>2, <4>1
    <3>4. ASSUME NEW i \in 1..Len(q)
          PROVE  Need(queue[i])' > 0 /\ (i >= 2 => held'[queue'[i]] = {})
      <4>1. PICK j \in 1..Len(queue) : j >= i /\ q[i] = queue[j]
        BY <3>1
      <4>2. q[i] \in Waiter /\ q[i] # w /\ Need(q[i]) > 0 /\ (i >= 2 => held[q[i]] = {})
        BY <3>1, <4>1, SMTT(60)
      <4> QED BY <3>2, <4>2
    <3>5. Len(q) \in Nat
      BY <3>1
    <3> QED BY <3>2, <3>3, <3>4, <3>5
  <2> QED BY <2>1, <2>2
<1>10. ASSUME NEW w \in Waiter, DropGuard(w) PROVE NoBarging'
  BY <1>10 DEF DropGuard
<1>11. ASSUME NEW w \in Waiter, Forget(w) PROVE NoBarging'
  BY <1>11 DEF Forget
<1>12. ASSUME NEW w \in Waiter, Unlock(w) PROVE NoBarging'
  <2>1. \A i \in 1..Len(queue) : queue[i] # w
    BY <1>12 DEF Unlock, QueueInv, MayQueue, Owns

  <2> QED BY <1>12, <2>1 DEF Unlock
<1>13. ASSUME NEW a \in Adder, AddPermits(a) PROVE NoBarging'
  BY <1>13 DEF AddPermits
<1>14. ASSUME AssignHead PROVE NoBarging'
  <2>0. PICK h \in Waiter : h = Head(queue)
    BY <1>14 DEF AssignHead
  <2>1. h = queue[1] /\ Len(queue) \in Nat /\ 1 \in 1..Len(queue)
    BY <1>14, <2>0 DEF AssignHead
  <2>2. PICK S \in SUBSET rem :
          /\ Cardinality(S) = IF Need(h) <= Cardinality(rem) THEN Need(h)
                                                            ELSE Cardinality(rem)
          /\ held' = [held EXCEPT ![h] = @ \cup S]
          /\ rem' = rem \ S
          /\ queue' = IF Cardinality(S) = Need(h) THEN Tail(queue) ELSE queue
    BY <1>14, <2>0 DEF AssignHead
  <2>3. avail' = avail /\ weight' = weight /\ enqueued' = enqueued /\ pc' = pc
    BY <1>14 DEF AssignHead
  <2>4. Need(h) > 0 /\ Need(h) \in Nat /\ Cardinality(S) \in Nat /\ Cardinality(rem) \in Nat
        /\ Cardinality(held[h]) \in Nat
    BY <2>1, PermitSets DEF NoBarging, Need
  <2>5. Cardinality(held[h] \cup S) = Cardinality(held[h]) + Cardinality(S)
    <3>1. IsFiniteSet(held[h]) /\ IsFiniteSet(S)
      BY <2>1, PermitSets
    <3>2. held[h] \cap S = {}
      BY <2>1, <2>2 DEF PermitsConserved
    <3>3. Cardinality(held[h] \cap S) = 0
      BY <3>2, FS_EmptySet
    <3>4. Cardinality(held[h] \cup S)
            = Cardinality(held[h]) + Cardinality(S) - Cardinality(held[h] \cap S)
      BY <3>1, FS_Union
    <3> HIDE DEF PermitsConserved, NoBarging, QueueInv
    <3> QED BY <2>4, <3>3, <3>4
  <2>6. Need(h)' = Need(h) - Cardinality(S)
    <3>1. held'[h] = held[h] \cup S /\ weight'[h] = weight[h] /\ weight[h] \in Nat
      BY <2>2, <2>3
    <3>2. Need(h)' = weight[h] - Cardinality(held[h] \cup S)
      BY <3>1 DEF Need
    <3>3. Need(h) = weight[h] - Cardinality(held[h])
      BY DEF Need
    <3> HIDE DEF IInv, PermitsConserved, NoBarging, QueueInv, Need
    <3> QED BY <2>4, <2>5, <3>1, <3>2, <3>3
  <2>7. \A v \in Waiter : v # h => held'[v] = held[v] /\ Need(v)' = Need(v)
    BY <2>1, <2>2, <2>3 DEF Need
  <2>8. \A i \in 2..Len(queue) : queue[i] # h
    BY <2>1 DEF QueueInv
  <2>9. /\ Tail(queue) \in Seq(Waiter) /\ Len(Tail(queue)) = Len(queue) - 1
        /\ \A i \in 1..Len(Tail(queue)) : Tail(queue)[i] = queue[i + 1]
    BY <1>14 DEF AssignHead
  <2> HIDE DEF Need

  <2>10. CASE Cardinality(S) = Need(h)
    <3>1. queue' = Tail(queue)
      BY <2>2, <2>10
    <3>2. ASSUME NEW i \in 1..Len(queue')
          PROVE  /\ queue'[i] \in Waiter /\ queue'[i] # h
                 /\ Need(queue'[i]) > 0 /\ held[queue'[i]] = {}
      <4>1. i + 1 \in 2..Len(queue) /\ queue'[i] = queue[i + 1]
        BY <2>1, <2>9, <3>1
      <4> QED BY <2>8, <4>1
    <3>3. ASSUME NEW i \in 1..Len(queue')
          PROVE  Need(queue[i])' > 0 /\ held'[queue'[i]] = {}
      <4>1. PICK v \in Waiter : v = queue'[i]
        BY <3>2
      <4>2. Need(v)' > 0 /\ held'[v] = {}
        BY <2>7, <3>2, <4>1
      <4> QED BY <4>1, <4>2 DEF Need
    <3>4. avail' = {}
      BY <2>3, <1>14 DEF AssignHead
    <3>5. Len(queue') \in Nat
      BY <2>9, <3>1
    <3> QED BY <3>3, <3>4, <3>5
  <2>11. CASE Cardinality(S) # Need(h)
    <3>1. queue' = queue
      BY <2>2, <2>11
    <3>2. Need(h)' > 0
      BY <2>2, <2>4, <2>6, <2>11
    <3>3. ASSUME NEW i \in 1..Len(queue')
          PROVE  Need(queue[i])' > 0
      <4>1. PICK v \in Waiter : v = queue'[i]
        BY <3>1
      <4>2. Need(v) > 0
        BY <3>1, <4>1
      <4>3. Need(v)' > 0
        BY <2>7, <3>2, <4>2
      <4> QED BY <4>1, <4>3 DEF Need
    <3>4. ASSUME NEW i \in 2..Len(queue') PROVE held'[queue'[i]] = {}
      <4>1. i \in 2..Len(queue) /\ i \in 1..Len(queue)
        BY <2>1, <3>1
      <4>2. queue[i] \in Waiter /\ queue[i] # h /\ held[queue[i]] = {}
        BY <2>8, <4>1
      <4> QED BY <2>7, <3>1, <4>2
    <3>5. avail' = {}
      BY <2>3, <1>14 DEF AssignHead
    <3> QED BY <3>3, <3>4, <3>5
  <2> QED BY <2>10, <2>11
<1>15. ASSUME FinishReturn PROVE NoBarging'
  BY <1>15 DEF FinishReturn
<1>16. ASSUME NEW a \in Actor, SkipReport(a) PROVE NoBarging'
  BY <1>16 DEF SkipReport, After, Boundary
<1>17. ASSUME NEW a \in Actor, Arm(a) PROVE NoBarging'
  BY <1>17 DEF Arm
<1>18. ASSUME NEW a \in Actor, ReportCreated(a) PROVE NoBarging'
  BY <1>18 DEF ReportCreated
<1>19. ASSUME NEW a \in Actor, Report(a) PROVE NoBarging'
  BY <1>19 DEF Report, After, Boundary, EventAt
<1>20. ASSUME InstallHook PROVE NoBarging'
  BY <1>20 DEF InstallHook
<1>21. ASSUME ClearHook PROVE NoBarging'
  BY <1>21 DEF ClearHook
<1>22. CASE UNCHANGED vars
  BY <1>22 DEF vars
<1> QED
  BY <1>1, <1>2, <1>3, <1>4, <1>5, <1>6, <1>7, <1>8, <1>9, <1>10, <1>11, <1>12, <1>13, <1>14, <1>15, <1>16, <1>17, <1>18, <1>19, <1>20, <1>21, <1>22 DEF Next

\* No step confuses who is queued, who was served and who owns permits.
LEMMA QueueInvStep == IInv /\ [Next]_vars => QueueInv'
<1> SUFFICES ASSUME IInv, [Next]_vars PROVE QueueInv'
  OBVIOUS
<1> USE ActorsDistinct DEF IInv, TypeOK, Actor, sema, hookVars, seen, Goto, QueueInv, InQueue, Owns, MayQueue, Need
<1>1. ASSUME NEW w \in Waiter, NEW n \in Weights, Acquire(w, n) PROVE QueueInv'
  BY <1>1 DEF Acquire
<1>2. ASSUME NEW w \in Waiter, NEW n \in Weights, TryAcquire(w, n) PROVE QueueInv'
  BY <1>2, WeightsNat DEF TryAcquire, Take
<1>3. ASSUME NEW w \in Waiter, NEW n \in Weights, TryFail(w, n) PROVE QueueInv'
  BY <1>3 DEF TryFail
<1>4. ASSUME NEW w \in Waiter, PollReady(w) PROVE QueueInv'
  BY <1>4 DEF PollReady, Take
<1>5. ASSUME NEW w \in Waiter, PollEnqueue(w) PROVE QueueInv'
  <2>1. \A i \in 1..Len(queue) : queue[i] # w
    BY <1>5 DEF PollEnqueue
  <2>2. /\ queue' = Append(queue, w) /\ weight' = weight
        /\ held' = [held EXCEPT ![w] = avail]
        /\ enqueued' = [enqueued EXCEPT ![w] = TRUE]
        /\ pc'[w] \in {"requesting", "waiting"} /\ \A v \in Waiter : v # w => pc'[v] = pc[v]
    BY <1>5 DEF PollEnqueue, PendingPoll
  <2>3. /\ Len(queue') = Len(queue) + 1 /\ Len(queue) \in Nat
        /\ \A i \in 1..Len(queue) : queue'[i] = queue[i]
        /\ queue'[Len(queue) + 1] = w
    BY <2>2
  <2>4. ASSUME NEW v \in Waiter, InQueue(v) \/ v = w PROVE InQueue(v)'
    <3>1. CASE InQueue(v)
      <4>1. PICK i \in 1..Len(queue) : queue[i] = v
        BY <3>1
      <4>2. i \in 1..Len(queue') /\ queue'[i] = v
        BY <2>3, <4>1
      <4> QED BY <4>2
    <3>2. CASE v = w
      <4>1. Len(queue) + 1 \in 1..Len(queue')
        BY <2>3
      <4> QED BY <2>3, <3>2, <4>1
    <3> QED BY <2>4, <3>1, <3>2
  <2> HIDE DEF InQueue
  <2>5. \A i \in 1..Len(queue') : enqueued'[queue'[i]]
    BY <2>2, <2>3
  <2>6. \A i, j \in 1..Len(queue') : queue'[i] = queue'[j] => i = j
    <3>1. \A i \in 1..Len(queue') : i \in 1..Len(queue) \/ i = Len(queue) + 1
      BY <2>3, SMTT(60)
    <3>2. \A i, j \in 1..Len(queue) : queue[i] = queue[j] => i = j
      OBVIOUS
    <3> QED BY <2>1, <2>3, <3>1, <3>2
  <2>7. \A v \in Waiter : v # w => Need(v)' = Need(v) /\ Owns(v)' = Owns(v)
    BY <2>2
  <2>8. ~Owns(w)' /\ enqueued'[w]
    BY <2>2
  <2> QED BY <2>2, <2>4, <2>5, <2>6, <2>7, <2>8
<1>6. ASSUME NEW w \in Waiter, PollNoBudget(w) PROVE QueueInv'
  BY <1>6 DEF PollNoBudget, PendingPoll
<1>7. ASSUME NEW w \in Waiter, PollGranted(w) PROVE QueueInv'
  <2>1. \A i \in 1..Len(queue) : queue[i] # w
    BY <1>7 DEF PollGranted, NoBarging
  <2> QED BY <1>7, <2>1 DEF PollGranted
<1>8. ASSUME NEW w \in Waiter, DropFuture(w) PROVE QueueInv'
  BY <1>8 DEF DropFuture
<1>9. ASSUME NEW w \in Waiter, InnerDrop(w) PROVE QueueInv'
  <2>0. PICK q : q = QueueWithout(w)
    OBVIOUS
  <2>1. /\ q \in Seq(Waiter)
        /\ \A i \in 1..Len(q) : q[i] # w
        /\ \A i \in 1..Len(q) : \E j \in 1..Len(queue) : j >= i /\ q[i] = queue[j]
        /\ \A i, j \in 1..Len(q) : q[i] = q[j] => i = j
        /\ \A j \in 1..Len(queue) : queue[j] # w => \E i \in 1..Len(q) : q[i] = queue[j]
    <3>1. \A i, j \in 1..Len(queue) : queue[i] = queue[j] => i = j
      OBVIOUS
    <3>2. queue \in Seq(Waiter)
      OBVIOUS
    <3> HIDE DEF IInv, QueueInv, InQueue
    <3>3. Left(QueueWithout(w), w)
      BY <3>1, <3>2, QueueWithoutElements
    <3> QED BY <2>0, <3>3 DEF Left
  <2>2. /\ queue' = IF enqueued[w] THEN q ELSE queue
        /\ weight' = weight /\ held' = [held EXCEPT ![w] = {}]
        /\ enqueued' = [enqueued EXCEPT ![w] = FALSE]
        /\ pc' = [pc EXCEPT ![w] = IF held[w] = {} THEN "done" ELSE "returning"]
    BY <1>9, <2>0 DEF InnerDrop
  <2>3. ASSUME NEW i \in 1..Len(queue') PROVE queue'[i] # w /\ enqueued'[queue'[i]]
    <3>1. queue'[i] # w /\ \E j \in 1..Len(queue) : queue'[i] = queue[j]
      <4>1. CASE enqueued[w]
        BY <2>1, <2>2, <2>3, <4>1
      <4>2. CASE ~enqueued[w]
        BY <2>2, <2>3, <4>2
      <4> QED BY <4>1, <4>2
    <3>2. PICK j \in 1..Len(queue) : queue'[i] = queue[j]
      BY <3>1
    <3>3. queue[j] \in Waiter /\ enqueued[queue[j]]
      OBVIOUS
    <3> QED BY <2>2, <3>1, <3>2, <3>3
  <2>4. \A i, j \in 1..Len(queue') : queue'[i] = queue'[j] => i = j
    BY <2>1, <2>2
  <2>5. ASSUME NEW v \in Waiter, v # w, InQueue(v) PROVE InQueue(v)'
    <3>1. PICK j \in 1..Len(queue) : queue[j] = v
      BY <2>5
    <3>2. \E i \in 1..Len(queue') : queue'[i] = v
      BY <2>1, <2>2, <2>5, <3>1
    <3> QED BY <3>2
  <2>6. \A v \in Waiter : v # w => Need(v)' = Need(v) /\ Owns(v)' = Owns(v)
    BY <2>2
  <2>7. ~Owns(w)' /\ ~enqueued'[w] /\ held'[w] = {}
    BY <2>2
  <2> HIDE DEF InQueue, Need, Owns
  <2> QED BY <2>2, <2>3, <2>4, <2>5, <2>6, <2>7, ZenonT(60)
<1>10. ASSUME NEW w \in Waiter, DropGuard(w) PROVE QueueInv'
  BY <1>10 DEF DropGuard
<1>11. ASSUME NEW w \in Waiter, Forget(w) PROVE QueueInv'
  BY <1>11 DEF Forget
<1>12. ASSUME NEW w \in Waiter, Unlock(w) PROVE QueueInv'
  BY <1>12 DEF Unlock
<1>13. ASSUME NEW a \in Adder, AddPermits(a) PROVE QueueInv'
  BY <1>13 DEF AddPermits
<1>14. ASSUME AssignHead PROVE QueueInv'
  <2>0. PICK h \in Waiter : h = Head(queue)
    BY <1>14 DEF AssignHead
  <2>1. h = queue[1] /\ Len(queue) \in Nat /\ 1 \in 1..Len(queue)
    BY <1>14, <2>0 DEF AssignHead
  <2>2. PICK S \in SUBSET rem :
          /\ Cardinality(S) = IF Need(h) <= Cardinality(rem) THEN Need(h)
                                                            ELSE Cardinality(rem)
          /\ held' = [held EXCEPT ![h] = @ \cup S]
          /\ rem' = rem \ S
          /\ queue' = IF Cardinality(S) = Need(h) THEN Tail(queue) ELSE queue
    BY <1>14, <2>0 DEF AssignHead
  <2>3. avail' = avail /\ weight' = weight /\ enqueued' = enqueued /\ pc' = pc
    BY <1>14 DEF AssignHead
  <2>4. Need(h) > 0 /\ Need(h) \in Nat /\ Cardinality(S) \in Nat /\ Cardinality(rem) \in Nat
        /\ Cardinality(held[h]) \in Nat
    BY <2>1, PermitSets DEF NoBarging, Need
  <2>5. Cardinality(held[h] \cup S) = Cardinality(held[h]) + Cardinality(S)
    <3>1. IsFiniteSet(held[h]) /\ IsFiniteSet(S)
      BY <2>1, PermitSets
    <3>2. held[h] \cap S = {}
      BY <2>1, <2>2 DEF PermitsConserved
    <3>3. Cardinality(held[h] \cap S) = 0
      BY <3>2, FS_EmptySet
    <3>4. Cardinality(held[h] \cup S)
            = Cardinality(held[h]) + Cardinality(S) - Cardinality(held[h] \cap S)
      BY <3>1, FS_Union
    <3> HIDE DEF PermitsConserved, NoBarging, QueueInv
    <3> QED BY <2>4, <3>3, <3>4
  <2>6. Need(h)' = Need(h) - Cardinality(S)
    <3>1. held'[h] = held[h] \cup S /\ weight'[h] = weight[h] /\ weight[h] \in Nat
      BY <2>2, <2>3
    <3>2. Need(h)' = weight[h] - Cardinality(held[h] \cup S)
      BY <3>1 DEF Need
    <3>3. Need(h) = weight[h] - Cardinality(held[h])
      BY DEF Need
    <3> HIDE DEF IInv, PermitsConserved, NoBarging, QueueInv, Need
    <3> QED BY <2>4, <2>5, <3>1, <3>2, <3>3
  <2>7. \A v \in Waiter : v # h => held'[v] = held[v] /\ Need(v)' = Need(v)
    BY <2>1, <2>2, <2>3 DEF Need
  <2>8. \A i \in 2..Len(queue) : queue[i] # h
    BY <2>1 DEF QueueInv
  <2>9. /\ Tail(queue) \in Seq(Waiter) /\ Len(Tail(queue)) = Len(queue) - 1
        /\ \A i \in 1..Len(Tail(queue)) : Tail(queue)[i] = queue[i + 1]
    BY <1>14 DEF AssignHead
  <2> HIDE DEF Need

  <2>10. \A v \in Waiter : Owns(v)' = Owns(v) /\ ~Owns(h) /\ enqueued[h]
    BY <2>1, <2>3, ZenonT(60)
  <2>11. CASE Cardinality(S) = Need(h)
    <3>1. queue' = Tail(queue)
      BY <2>2, <2>11
    <3>2. \A i \in 1..Len(queue') : i + 1 \in 2..Len(queue) /\ queue'[i] = queue[i + 1]
      BY <2>1, <2>9, <3>1
    <3>3. \A i, j \in 1..Len(queue') : queue'[i] = queue'[j] => i = j
      BY <2>1, <3>2, SMTT(60)
    <3>4. \A i \in 1..Len(queue') : enqueued'[queue'[i]]
      BY <2>1, <2>3, <3>2, SMTT(60)
    <3>5. Need(h)' = 0
      BY <2>4, <2>6, <2>11
    <3>6. ASSUME NEW v \in Waiter, v # h, InQueue(v) PROVE InQueue(v)'
      <4>1. PICK j \in 1..Len(queue) : queue[j] = v
        BY <3>6
      <4>2. j # 1 /\ j - 1 \in 1..Len(queue') /\ queue'[j - 1] = v
        BY <2>1, <2>9, <3>1, <3>6, <4>1
      <4> QED BY <4>2
    <3>7. \A v \in Waiter : enqueued'[v] => pc'[v] \in MayQueue
      BY <2>3
    <3>8. \A v \in Waiter : enqueued'[v] /\ ~InQueue(v)' => Need(v)' = 0
      <4> HIDE DEF InQueue
      <4> QED BY <2>3, <2>7, <3>5, <3>6
    <3>9. \A v \in Waiter : ~enqueued'[v] /\ ~Owns(v)' => held'[v] = {}
      <4> HIDE DEF Owns
      <4> QED BY <2>3, <2>7, <2>10
    <3>10. \A v \in Waiter : Owns(v)' => Need(v)' = 0
      <4> HIDE DEF Owns
      <4> QED BY <2>7, <2>10
    <3> HIDE DEF InQueue, Owns
    <3> QED BY <3>3, <3>4, <3>7, <3>8, <3>9, <3>10
  <2>12. CASE Cardinality(S) # Need(h)
    <3>1. queue' = queue
      BY <2>2, <2>12
    <3>2. InQueue(h)
      BY <2>1
    <3> QED BY <2>3, <2>7, <2>10, <3>1, <3>2
  <2> QED BY <2>11, <2>12
<1>15. ASSUME FinishReturn PROVE QueueInv'
  BY <1>15, SMTT(30) DEF FinishReturn, LockInv
<1>16. ASSUME NEW a \in Actor, SkipReport(a) PROVE QueueInv'
  BY <1>16 DEF SkipReport, After, Boundary
<1>17. ASSUME NEW a \in Actor, Arm(a) PROVE QueueInv'
  BY <1>17 DEF Arm
<1>18. ASSUME NEW a \in Actor, ReportCreated(a) PROVE QueueInv'
  BY <1>18 DEF ReportCreated
<1>19. ASSUME NEW a \in Actor, Report(a) PROVE QueueInv'
  BY <1>19 DEF Report, After, Boundary, EventAt
<1>20. ASSUME InstallHook PROVE QueueInv'
  BY <1>20 DEF InstallHook
<1>21. ASSUME ClearHook PROVE QueueInv'
  BY <1>21 DEF ClearHook
<1>22. CASE UNCHANGED vars
  BY <1>22 DEF vars
<1> QED
  BY <1>1, <1>2, <1>3, <1>4, <1>5, <1>6, <1>7, <1>8, <1>9, <1>10, <1>11, <1>12, <1>13, <1>14, <1>15, <1>16, <1>17, <1>18, <1>19, <1>20, <1>21, <1>22 DEF Next

\* With the hook installed all along, its picture follows every step.
LEMMA ObsInvStep == IInv /\ [Next]_vars => ObsInv'
<1> SUFFICES ASSUME IInv, [Next]_vars PROVE ObsInv'
  OBVIOUS
<1> USE ActorsDistinct DEF IInv, TypeOK, Actor, sema, hookVars, seen, Goto, ObsInv
<1>1. ASSUME NEW w \in Waiter, NEW n \in Weights, Acquire(w, n) PROVE ObsInv'
  BY <1>1 DEF Acquire
<1>2. ASSUME NEW w \in Waiter, NEW n \in Weights, TryAcquire(w, n) PROVE ObsInv'
  BY <1>2 DEF TryAcquire, Take
<1>3. ASSUME NEW w \in Waiter, NEW n \in Weights, TryFail(w, n) PROVE ObsInv'
  BY <1>3 DEF TryFail
<1>4. ASSUME NEW w \in Waiter, PollReady(w) PROVE ObsInv'
  BY <1>4 DEF PollReady, Take
<1>5. ASSUME NEW w \in Waiter, PollEnqueue(w) PROVE ObsInv'
  BY <1>5 DEF PollEnqueue, PendingPoll
<1>6. ASSUME NEW w \in Waiter, PollNoBudget(w) PROVE ObsInv'
  BY <1>6 DEF PollNoBudget, PendingPoll
<1>7. ASSUME NEW w \in Waiter, PollGranted(w) PROVE ObsInv'
  BY <1>7 DEF PollGranted
<1>8. ASSUME NEW w \in Waiter, DropFuture(w) PROVE ObsInv'
  BY <1>8 DEF DropFuture
<1>9. ASSUME NEW w \in Waiter, InnerDrop(w) PROVE ObsInv'
  BY <1>9 DEF InnerDrop
<1>10. ASSUME NEW w \in Waiter, DropGuard(w) PROVE ObsInv'
  BY <1>10 DEF DropGuard
<1>11. ASSUME NEW w \in Waiter, Forget(w) PROVE ObsInv'
  BY <1>11 DEF Forget
<1>12. ASSUME NEW w \in Waiter, Unlock(w) PROVE ObsInv'
  BY <1>12 DEF Unlock
<1>13. ASSUME NEW a \in Adder, AddPermits(a) PROVE ObsInv'
  BY <1>13 DEF AddPermits
<1>14. ASSUME AssignHead PROVE ObsInv'
  BY <1>14 DEF AssignHead
<1>15. ASSUME FinishReturn PROVE ObsInv'
  BY <1>15 DEF FinishReturn, LockInv
<1>16. ASSUME NEW a \in Actor, SkipReport(a) PROVE ObsInv'
  BY <1>16 DEF SkipReport, After, Boundary
<1>17. ASSUME NEW a \in Actor, Arm(a) PROVE ObsInv'
  BY <1>17 DEF Arm
<1>18. ASSUME NEW a \in Actor, ReportCreated(a) PROVE ObsInv'
  BY <1>18 DEF ReportCreated
<1>19. ASSUME NEW a \in Actor, Report(a) PROVE ObsInv'
  BY <1>19 DEF Report, After, Boundary, EventAt
<1>20. ASSUME InstallHook PROVE ObsInv'
  BY <1>20 DEF InstallHook
<1>21. ASSUME ClearHook PROVE ObsInv'
  BY <1>21 DEF ClearHook
<1>22. CASE UNCHANGED vars
  BY <1>22 DEF vars
<1> QED
  BY <1>1, <1>2, <1>3, <1>4, <1>5, <1>6, <1>7, <1>8, <1>9, <1>10, <1>11, <1>12, <1>13, <1>14, <1>15, <1>16, <1>17, <1>18, <1>19, <1>20, <1>21, <1>22 DEF Next


\* The invariant holds of a fresh lock.
LEMMA IInvInit == Init => IInv
<1> SUFFICES ASSUME Init PROVE IInv
  OBVIOUS
<1>1. TypeOK
  BY TypeInit
<1>2. PermitsConserved /\ NoBarging
  BY PermitsFinite DEF Init, PermitsConserved, NoBarging, Actor
<1>3. LockInv /\ QueueInv
  BY ActorsDistinct DEF Init, LockInv, QueueInv, Owns, Actor
<1>4. ObsInv
  <2>1. hook
    BY DEF Init
  <2>2. \A w \in Waiter : obs[w] = "none" /\ pc[w] = "unused" /\ ~requested[w]
    BY DEF Init, Actor
  <2> QED BY <2>1, <2>2 DEF ObsInv
<1> QED BY <1>1, <1>2, <1>3, <1>4 DEF IInv

\* Every step preserves it.
LEMMA IInvStep == IInv /\ [Next]_vars => IInv'
<1> SUFFICES ASSUME IInv, [Next]_vars PROVE IInv'
  OBVIOUS
<1>1. TypeOK'
  BY TypeStep DEF IInv
<1> QED
  BY <1>1, LockInvStep, PermitsConservedStep, NoBargingStep, QueueInvStep, ObsInvStep
     DEF IInv

\* The inductive invariant holds in every reachable state of every instance.
THEOREM Invariance == Spec => []IInv
BY IInvInit, IInvStep, PTL DEF Spec

\* For every number of waiters and permits: no permit is lost or duplicated.
THEOREM Conservation == Spec => []PermitsConserved
<1>1. IInv => PermitsConserved
  BY DEF IInv
<1> QED BY <1>1, Invariance, PTL

\* For every number of waiters and permits: nobody overtakes the queue.
THEOREM NobodyBarges == Spec => []NoBarging
<1>1. IInv => NoBarging
  BY DEF IInv
<1> QED BY <1>1, Invariance, PTL

\* A waiter whose acquisition was reported has its permits (hook installed
\* all along), because acquired follows the real acquisition and released
\* precedes the real release.
LEMMA HoldersHold == IInv => ReportedHoldersHold
<1> SUFFICES ASSUME IInv, toggles = 0, NEW w \in Waiter, obs[w] = "acquired"
             PROVE  held[w] \subseteq minted /\ Cardinality(held[w]) = weight[w]
  BY DEF ReportedHoldersHold
<1>1. Owns(w)
  BY DEF IInv, ObsInv, Owns
<1>2. Need(w) = 0
  BY <1>1 DEF IInv, QueueInv
<1>3. Cardinality(held[w]) \in Nat /\ weight[w] \in Nat
  BY PermitSets DEF IInv, TypeOK
<1>4. Cardinality(held[w]) = weight[w]
  BY <1>2, <1>3 DEF Need
<1>5. held[w] \subseteq minted
  BY DEF IInv, TypeOK, PermitsConserved
<1> QED BY <1>4, <1>5

\* The same for every reachable state.
THEOREM ReportedHoldersReallyHold == Spec => []ReportedHoldersHold
BY HoldersHold, Invariance, PTL

\* A reported holder of everything there is excludes every other reported
\* holder of anything: what Mutex guards and RwLock writers promise.
THEOREM Exclusion == Spec => []ReportedExclusion
<1>1. IInv => ReportedExclusion
  <2> SUFFICES ASSUME IInv, toggles = 0, NEW v \in Waiter, NEW w \in Waiter, v # w,
                      obs[v] = "acquired", obs[w] = "acquired",
                      weight[w] = Cardinality(minted)
               PROVE  weight[v] = 0
    BY DEF ReportedExclusion
  <2>1. /\ held[v] \subseteq minted /\ Cardinality(held[v]) = weight[v]
        /\ held[w] \subseteq minted /\ Cardinality(held[w]) = weight[w]
    BY HoldersHold DEF ReportedHoldersHold
  <2>2. IsFiniteSet(minted)
    BY PermitsFinite, FS_Subset DEF IInv, TypeOK
  <2>3. held[w] = minted
    BY <2>1, <2>2, FS_Subset
  <2>4. held[v] = {}
    BY <2>1, <2>3 DEF IInv, PermitsConserved
  <2> QED BY <2>1, <2>4, FS_EmptySet
<1> QED BY <1>1, Invariance, PTL

\* A step hands permits to a queued call only if it is the head of the queue.
THEOREM ServedFirstComeFirst == Spec => ServedInOrder
<1>1. ASSUME IInv, [Next]_vars
      PROVE  [\A w \in Waiter : InQueue(w) /\ held'[w] \ held[w] # {}
                                  => w = Head(queue)]_vars
  <2> SUFFICES ASSUME NEW w \in Waiter, InQueue(w), held'[w] \ held[w] # {}, Next
               PROVE  w = Head(queue)
    BY <1>1 DEF vars, sema
  <2>0. enqueued[w] /\ held \in [Waiter -> SUBSET Permit]
    BY <1>1 DEF IInv, TypeOK, QueueInv, InQueue
  <2> USE <2>0 DEF sema
  <2>1. CASE AssignHead
    BY <2>1 DEF AssignHead
  <2>2. ASSUME NEW v \in Waiter, NEW n \in Weights, TryAcquire(v, n) PROVE FALSE
    <3>1. v # w
      BY <1>1, <2>2 DEF IInv, QueueInv, MayQueue, TryAcquire
    <3> QED BY <2>2, <3>1 DEF TryAcquire, Take
  <2>3. ASSUME NEW v \in Waiter, PollReady(v) PROVE FALSE
    BY <2>3 DEF PollReady, Take
  <2>4. ASSUME NEW v \in Waiter, PollEnqueue(v) PROVE FALSE
    BY <2>4 DEF PollEnqueue
  <2>5. ASSUME NEW v \in Waiter, InnerDrop(v) \/ Unlock(v) PROVE FALSE
    BY <2>5 DEF InnerDrop, Unlock
  <2>6. CASE held' = held
    BY <2>6
  <2> QED
    BY <2>1, <2>2, <2>3, <2>4, <2>5, <2>6
       DEF Next, Acquire, TryFail, PollNoBudget, PollGranted, DropFuture, DropGuard,
           Forget, AddPermits, FinishReturn, SkipReport, Arm, ReportCreated, Report,
           InstallHook, ClearHook
<1> QED BY <1>1, Invariance, PTL DEF Spec, ServedInOrder

\* The hook is installed and removed at most MaxToggles times.
LEMMA TogglesBounded == Spec => [](toggles \in 0..MaxToggles)
<1>1. Init => toggles \in 0..MaxToggles
  BY TogglesNat DEF Init
<1>2. toggles \in 0..MaxToggles /\ [Next]_vars => (toggles \in 0..MaxToggles)'
  BY TogglesNat
     DEF Next, vars, sema, hookVars, seen, Acquire, TryAcquire, TryFail, PollReady,
         PollEnqueue, PollNoBudget, PollGranted, DropFuture, InnerDrop, DropGuard,
         Forget, Unlock, AddPermits, AssignHead, FinishReturn, SkipReport, Arm,
         ReportCreated, Report, InstallHook, ClearHook
<1> QED BY <1>1, <1>2, PTL DEF Spec

\* What LockTrace sees of a state: the permits of the reported holders.
Grip == [w \in Waiter |-> IF obs[w] = "acquired" THEN held[w] ELSE {}]

\* A step that reports nothing and leaves the reported holders' permits
\* alone is invisible in the trace, or lets the pool grow.
LEMMA SilentStep ==
  ASSUME TypeOK, obs' = obs, minted \subseteq minted', minted' \subseteq Permit,
         \A w \in Waiter : obs[w] = "acquired" => held'[w] = held[w]
  PROVE  Trace!Grow
BY DEF Trace!Grow, TypeOK

\* Reporting an event is the step of the trace that event stands for.
LEMMA ReportIsEvent ==
  ASSUME IInv, toggles = 0, NEW w \in Waiter, Report(w)
  PROVE  Trace!Requested(w) \/ Trace!Acquired(w) \/ Trace!Released(w)
           \/ Trace!WaiterDropped(w)
<1>1. /\ pc[w] \in Boundary /\ pc[w] # "adding"
      /\ obs' = [obs EXCEPT ![w] = EventAt[pc[w]]]
      /\ held' = held /\ minted' = minted
      /\ obs \in [Waiter -> Event] /\ held \in [Waiter -> SUBSET Permit]
  BY DEF Report, sema, IInv, TypeOK, LockInv
<1>2. \A v \in Waiter : held[v] \subseteq minted
  BY DEF IInv, PermitsConserved, TypeOK
<1>3. CASE pc[w] = "requesting"
  <2>1. obs[w] = "none" /\ EventAt[pc[w]] = "requested"
    BY <1>3 DEF IInv, ObsInv, EventAt, Boundary
  <2> QED BY <1>1, <2>1 DEF Trace!Requested
<1>4. CASE pc[w] = "acquiring"
  <2>1. obs[w] \in {"none", "requested"} /\ EventAt[pc[w]] = "acquired"
    BY <1>4 DEF IInv, ObsInv, EventAt, Boundary
  <2>2. Grip' = [Grip EXCEPT ![w] = held[w]]
    BY <1>1, <2>1 DEF Grip
  <2>3. \A v \in Waiter : held[w] \cap Grip[v] = {}
    BY <1>1, <2>1 DEF Grip, IInv, PermitsConserved
  <2> QED BY <1>1, <1>2, <2>1, <2>2, <2>3 DEF Trace!Acquired, Grip
<1>5. CASE pc[w] = "releasing"
  <2>1. obs[w] = "acquired" /\ EventAt[pc[w]] = "released"
    BY <1>5 DEF IInv, ObsInv, EventAt, Boundary
  <2> QED BY <1>1, <2>1 DEF Trace!Released
<1>6. CASE pc[w] = "cancelling"
  <2>1. obs[w] = "requested" /\ EventAt[pc[w]] = "dropped"
    BY <1>6 DEF IInv, ObsInv, EventAt, Boundary
  <2> QED BY <1>1, <2>1 DEF Trace!WaiterDropped
<1> QED BY <1>1, <1>3, <1>4, <1>5, <1>6 DEF Boundary

\* Every step of the lock is a step of the trace or invisible in it.
LEMMA TraceStep ==
  ASSUME IInv, IInv', toggles = 0, [Next]_vars
  PROVE  [Trace!Next]_(Trace!vars)
<1> USE DEF IInv, TypeOK
<1>1. CASE UNCHANGED vars
  BY <1>1 DEF vars, sema, seen, Trace!vars
<1>2. ASSUME NEW a \in Actor, Report(a) PROVE Trace!Next \/ UNCHANGED Trace!vars
  <2>1. CASE a \in Waiter
    BY <1>2, <2>1, ReportIsEvent DEF Trace!Next
  <2>2. CASE a \notin Waiter
    BY <1>2, <2>2 DEF Report, sema, Trace!vars
  <2> QED BY <2>1, <2>2
<1>3. CASE Next /\ \A a \in Actor : ~Report(a)
  <2>1. obs' = obs
    BY <1>3 DEF Next, sema, hookVars, seen, Acquire, TryAcquire, TryFail, PollReady,
         PollEnqueue, PollNoBudget, PollGranted, DropFuture, InnerDrop, DropGuard,
         Forget, Unlock, AddPermits, AssignHead, FinishReturn, SkipReport, Arm,
         ReportCreated, InstallHook, ClearHook
  <2>2. minted \subseteq minted'
    BY <1>3 DEF Next, sema, hookVars, seen, Acquire, TryAcquire, TryFail, PollReady,
         PollEnqueue, PollNoBudget, PollGranted, DropFuture, InnerDrop, DropGuard,
         Forget, Unlock, AddPermits, AssignHead, FinishReturn, SkipReport, Arm,
         ReportCreated, InstallHook, ClearHook
  <2>3. ASSUME NEW w \in Waiter, obs[w] = "acquired" PROVE held'[w] = held[w]
    <3>1. pc[w] \in {"held", "releasing", "forgotten"} /\ ~enqueued[w] /\ ~InQueue(w)
      BY <2>3, ZenonT(60) DEF ObsInv, QueueInv, MayQueue, InQueue
    <3>2. CASE AssignHead
      <4>1. Head(queue) # w /\ Head(queue) \in Waiter
        BY <3>1, <3>2 DEF AssignHead, InQueue
      <4> QED BY <3>2, <4>1 DEF AssignHead
    <3>3. CASE \E v \in Waiter : \/ \E n \in Weights : TryAcquire(v, n)
                                 \/ PollReady(v) \/ PollEnqueue(v)
                                 \/ InnerDrop(v) \/ Unlock(v)
      <4>1. PICK v \in Waiter : \/ \E n \in Weights : TryAcquire(v, n)
                                \/ PollReady(v) \/ PollEnqueue(v)
                                \/ InnerDrop(v) \/ Unlock(v)
        BY <3>3
      <4>2. v # w
        BY <3>1, <4>1 DEF TryAcquire, PollReady, PollEnqueue, InnerDrop, Unlock
      <4> QED BY <4>1, <4>2 DEF TryAcquire, Take, PollReady, PollEnqueue, InnerDrop, Unlock
    <3>4. CASE held' = held
      BY <3>4
    <3> QED
      BY <1>3, <3>2, <3>3, <3>4
         DEF Next, sema, Acquire, TryFail, PollNoBudget, PollGranted, DropFuture,
             DropGuard, Forget, AddPermits, FinishReturn, SkipReport, Arm,
             ReportCreated, InstallHook, ClearHook
  <2>4. Trace!Grow
    BY <2>1, <2>2, <2>3, SilentStep
  <2> QED BY <2>4 DEF Trace!Next
<1> QED BY <1>1, <1>2, <1>3

\* With the hook installed for the whole run, the events of every lock are
\* those of a correct lock: the refinement of LockTrace.
THEOREM Refinement ==
  ASSUME MaxToggles = 0
  PROVE  Spec => TraceSpec
<1>1. Init => Trace!Init
  <2> SUFFICES ASSUME Init PROVE Trace!Init
    OBVIOUS
  <2> QED BY PermitsFinite DEF Init, Trace!Init
<1>2. toggles \in 0..MaxToggles => toggles = 0
  OBVIOUS
<1>3. IInv /\ IInv' /\ toggles = 0 /\ [Next]_vars => [Trace!Next]_(Trace!vars)
  BY TraceStep
<1> QED BY <1>1, <1>2, <1>3, Invariance, TogglesBounded, PTL DEF Spec, TraceSpec, Trace!Spec
====
