----------------------------- MODULE LockProofs -----------------------------
(***************************************************************************)
(* Theorems about the std lock seam and the tracked primitives.            *)
(* StdPictureSound holds for any threads and locks, under the probe and    *)
(* under the engine: the inductive invariant says how std's holders, the   *)
(* hook's holders and the engine's owners are related through the point    *)
(* each thread is at.  PermitsSound holds for any calls, ids and number of *)
(* permits: whoever the stream shows as a holder is a call that has its    *)
(* permit, and is shown with the id it keeps.  VerifierSound holds for any *)
(* threads and locks: the stream lags the real guards by the one a thread  *)
(* is telling about, the verifier's held locks are those of the stream and *)
(* its edges the real orders.                                              *)
(***************************************************************************)
EXTENDS ModelLock, TrackedPermit, LockOrder, FiniteSetTheorems, TLAPS

-----------------------------------------------------------------------------
(* The std lock seam. *)

\* A call under way is about a lock, and a read about an RwLock.
CallInv ==
  \A t \in StdThread :
    /\ spc[t] \in {"asking", "locking", "telling", "unlocking"} => wants[t] \in StdLock
    /\ spc[t] \in {"asking", "locking"} /\ asReader[t] => wants[t] \in StdRwLock
    /\ spc[t] \in {"asking", "locking"} => ~StdHolds(t, wants[t])
    /\ spc[t] = "telling" => StdHolds(t, wants[t])

\* Whoever has a lock was reported, up to the report of a try and from the
\* report of a release on; whoever blocks in std was reported.
ReportInv ==
  /\ \A t \in StdThread, l \in StdLock : StdHolds(t, l) =>
       t \in rep[l] \/ (spc[t] \in {"telling", "unlocking"} /\ wants[t] = l)
  /\ \A t \in StdThread :
       /\ spc[t] = "locking" => t \in rep[wants[t]]
       /\ spc[t] = "unlocking" => t \notin rep[wants[t]]

\* The engine's owner is the one the hook reported, and under the engine there
\* is no other.
GrantInv ==
  /\ \A l \in StdLock : granted[l] # Unheld => granted[l] \in rep[l]
  /\ engine => \A l \in StdLock : \A t \in rep[l] : granted[l] = t

\* Under the engine a thread between two boundaries is the one that runs.
TurnInv ==
  engine => \A t \in StdThread : spc[t] \in {"idle", "locking", "unlocking"} => running = t

StdInv == StdTypeOK /\ CallInv /\ ReportInv /\ PhantomOnlyAfterPanic /\ GrantInv /\ TurnInv
-----------------------------------------------------------------------------
\* A new program: nothing is held, reported or granted.
LEMMA StdInvInit == StdInit => StdInv
  BY NoThread, ModeBoolean DEF StdInit, StdInv, StdTypeOK, StdPC, CallInv, ReportInv, PhantomOnlyAfterPanic,
     GrantInv, TurnInv, StdHolds

\* A thread that starts.
LEMMA StartStep ==
  ASSUME StdInv, engine' = engine, NEW t \in StdThread, StdStart(t)
  PROVE  StdInv'
<1> USE NoThread, ModeBoolean DEF StdInv, StdHolds
<1>1. StdTypeOK'
  BY DEF StdStart, StdGoto, StdTypeOK, StdPC, CallInv
<1>2. CallInv'
  BY DEF StdStart, StdGoto, StdTypeOK, CallInv
<1>3. ReportInv'
  BY DEF StdStart, StdGoto, StdTypeOK, CallInv, ReportInv
<1>4. PhantomOnlyAfterPanic'
  BY DEF StdStart, StdGoto, StdTypeOK, CallInv, ReportInv, PhantomOnlyAfterPanic
<1>5. GrantInv'
  BY DEF StdStart, StdGoto, StdTypeOK, CallInv, GrantInv
<1>6. TurnInv'
  BY DEF StdStart, StdGoto, StdTypeOK, TurnInv
<1> QED BY <1>1, <1>2, <1>3, <1>4, <1>5, <1>6

\* A call reports and blocks in std, or parks in the engine.
LEMMA CallStep ==
  ASSUME StdInv, engine' = engine, NEW t \in StdThread, NEW l \in StdLock, NEW s \in BOOLEAN, CallLock(t, l, s)
  PROVE  StdInv'
<1> USE NoThread, ModeBoolean DEF StdInv, StdHolds
<1>1. StdTypeOK'
  BY DEF CallLock, StdGoto, Yield, Runs, StdTypeOK, StdPC, CallInv
<1>2. CallInv'
  BY DEF CallLock, StdGoto, Yield, Runs, StdTypeOK, CallInv
<1>3. ReportInv'
  BY DEF CallLock, StdGoto, Yield, Runs, StdTypeOK, CallInv, ReportInv
<1>4. PhantomOnlyAfterPanic'
  BY DEF CallLock, StdGoto, Yield, Runs, StdTypeOK, CallInv, ReportInv, PhantomOnlyAfterPanic
<1>5. GrantInv'
  BY DEF CallLock, StdGoto, Yield, Runs, StdTypeOK, CallInv, GrantInv
<1>6. TurnInv'
  BY DEF CallLock, StdGoto, Yield, Runs, StdTypeOK, TurnInv
<1> QED BY <1>1, <1>2, <1>3, <1>4, <1>5, <1>6

\* The std lock is taken by a thread that was reported.
LEMMA RealStep ==
  ASSUME StdInv, engine' = engine, NEW t \in StdThread, RealLock(t)
  PROVE  StdInv'
<1> USE NoThread, ModeBoolean DEF StdInv, StdHolds
<1>1. StdTypeOK'
  BY DEF RealLock, StdGoto, StdTake, StdFree, Runs, StdTypeOK, StdPC, CallInv
<1>2. CallInv'
  BY DEF RealLock, StdGoto, StdTake, StdFree, Runs, StdTypeOK, CallInv
<1>3. ReportInv'
  BY DEF RealLock, StdGoto, StdTake, StdFree, Runs, StdTypeOK, CallInv, ReportInv
<1>4. PhantomOnlyAfterPanic'
  BY DEF RealLock, StdGoto, StdTake, StdFree, Runs, StdTypeOK, CallInv, ReportInv, PhantomOnlyAfterPanic
<1>5. GrantInv'
  BY DEF RealLock, StdGoto, StdTake, StdFree, Runs, StdTypeOK, CallInv, GrantInv
<1>6. TurnInv'
  BY DEF RealLock, StdGoto, StdTake, StdFree, Runs, StdTypeOK, TurnInv
<1> QED BY <1>1, <1>2, <1>3, <1>4, <1>5, <1>6

\* A contended grant unwinds.
LEMMA ContendedStep ==
  ASSUME StdInv, engine' = engine, NEW t \in StdThread, ContendedGrant(t)
  PROVE  StdInv'
<1> USE NoThread, ModeBoolean DEF StdInv, StdHolds
<1>1. StdTypeOK'
  BY DEF ContendedGrant, Unwind, StdGoto, Yield, Runs, StdTypeOK, StdPC, CallInv
<1>2. CallInv'
  BY DEF ContendedGrant, Unwind, StdGoto, Yield, Runs, StdTypeOK, CallInv
<1>3. ReportInv'
  BY DEF ContendedGrant, Unwind, StdGoto, Yield, Runs, StdTypeOK, CallInv, ReportInv
<1>4. PhantomOnlyAfterPanic'
  BY DEF ContendedGrant, Unwind, StdGoto, Yield, Runs, StdTypeOK, CallInv, ReportInv, PhantomOnlyAfterPanic
<1>5. GrantInv'
  BY DEF ContendedGrant, Unwind, StdGoto, Yield, Runs, StdTypeOK, CallInv, GrantInv
<1>6. TurnInv'
  BY DEF ContendedGrant, Unwind, StdGoto, Yield, Runs, StdTypeOK, TurnInv
<1> QED BY <1>1, <1>2, <1>3, <1>4, <1>5, <1>6

\* A try takes the std lock unreported.
LEMMA TryStep ==
  ASSUME StdInv, engine' = engine, NEW t \in StdThread, NEW l \in StdLock, NEW s \in BOOLEAN, TryLock(t, l, s)
  PROVE  StdInv'
<1> USE NoThread, ModeBoolean DEF StdInv, StdHolds
<1>1. StdTypeOK'
  BY DEF TryLock, StdGoto, StdTake, StdFree, Yield, Runs, StdTypeOK, StdPC, CallInv
<1>2. CallInv'
  BY DEF TryLock, StdGoto, StdTake, StdFree, Yield, Runs, StdTypeOK, CallInv
<1>3. ReportInv'
  BY DEF TryLock, StdGoto, StdTake, StdFree, Yield, Runs, StdTypeOK, CallInv, ReportInv
<1>4. PhantomOnlyAfterPanic'
  BY DEF TryLock, StdGoto, StdTake, StdFree, Yield, Runs, StdTypeOK, CallInv, ReportInv, PhantomOnlyAfterPanic
<1>5. GrantInv'
  BY DEF TryLock, StdGoto, StdTake, StdFree, Yield, Runs, StdTypeOK, CallInv, GrantInv
<1>6. TurnInv'
  BY DEF TryLock, StdGoto, StdTake, StdFree, Yield, Runs, StdTypeOK, TurnInv
<1> QED BY <1>1, <1>2, <1>3, <1>4, <1>5, <1>6

\* The report of a try.
LEMMA TriedStep ==
  ASSUME StdInv, engine' = engine, NEW t \in StdThread, ReportTried(t)
  PROVE  StdInv'
<1> USE NoThread, ModeBoolean DEF StdInv, StdHolds
<1>1. StdTypeOK'
  BY DEF ReportTried, StdGoto, StdTypeOK, StdPC, CallInv
<1>2. CallInv'
  BY DEF ReportTried, StdGoto, StdTypeOK, CallInv
<1>3. ReportInv'
  BY DEF ReportTried, StdGoto, StdTypeOK, CallInv, ReportInv
<1>4. PhantomOnlyAfterPanic'
  BY DEF ReportTried, StdGoto, StdTypeOK, CallInv, ReportInv, PhantomOnlyAfterPanic
<1>5. GrantInv'
  BY DEF ReportTried, StdGoto, StdTypeOK, CallInv, GrantInv
<1>6. TurnInv'
  BY DEF ReportTried, StdGoto, StdTypeOK, TurnInv
<1> QED BY <1>1, <1>2, <1>3, <1>4, <1>5, <1>6

\* A grant of the engine.
LEMMA GrantStep ==
  ASSUME StdInv, engine' = engine, NEW t \in StdThread, StdGrant(t)
  PROVE  StdInv'
<1> USE NoThread, ModeBoolean DEF StdInv, StdHolds
<1>1. StdTypeOK'
  BY DEF StdGrant, StdGoto, StdTypeOK, StdPC, CallInv
<1>2. CallInv'
  BY DEF StdGrant, StdGoto, StdTypeOK, CallInv
<1>3. ReportInv'
  BY DEF StdGrant, StdGoto, StdTypeOK, CallInv, ReportInv
<1>4. PhantomOnlyAfterPanic'
  BY DEF StdGrant, StdGoto, StdTypeOK, CallInv, ReportInv, PhantomOnlyAfterPanic
<1>5. GrantInv'
  BY DEF StdGrant, StdGoto, StdTypeOK, CallInv, GrantInv
<1>6. TurnInv'
  BY DEF StdGrant, StdGoto, StdTypeOK, TurnInv
<1> QED BY <1>1, <1>2, <1>3, <1>4, <1>5, <1>6

\* A release is reported while the lock is held.
LEMMA DropStep ==
  ASSUME StdInv, engine' = engine, NEW t \in StdThread, NEW l \in StdLock, DropGuard(t, l)
  PROVE  StdInv'
<1> USE NoThread, ModeBoolean DEF StdInv, StdHolds
<1>1. StdTypeOK'
  BY DEF DropGuard, StdGoto, Runs, StdTypeOK, StdPC, CallInv
<1>2. CallInv'
  BY DEF DropGuard, StdGoto, Runs, StdTypeOK, CallInv
<1>3. ReportInv'
  BY DEF DropGuard, StdGoto, Runs, StdTypeOK, CallInv, ReportInv
<1>4. PhantomOnlyAfterPanic'
  BY DEF DropGuard, StdGoto, Runs, StdTypeOK, CallInv, ReportInv, PhantomOnlyAfterPanic
<1>5. GrantInv'
  BY DEF DropGuard, StdGoto, Runs, StdTypeOK, CallInv, GrantInv
<1>6. TurnInv'
  BY DEF DropGuard, StdGoto, Runs, StdTypeOK, TurnInv
<1> QED BY <1>1, <1>2, <1>3, <1>4, <1>5, <1>6

\* The std lock goes back.
LEMMA StdUnlockStep ==
  ASSUME StdInv, engine' = engine, NEW t \in StdThread, StdUnlock(t)
  PROVE  StdInv'
<1> USE NoThread, ModeBoolean DEF StdInv, StdHolds
<1>1. StdTypeOK'
  BY DEF StdUnlock, StdGoto, Runs, StdTypeOK, StdPC, CallInv
<1>2. CallInv'
  BY DEF StdUnlock, StdGoto, Runs, StdTypeOK, CallInv
<1>3. ReportInv'
  BY DEF StdUnlock, StdGoto, Runs, StdTypeOK, CallInv, ReportInv
<1>4. PhantomOnlyAfterPanic'
  BY DEF StdUnlock, StdGoto, Runs, StdTypeOK, CallInv, ReportInv, PhantomOnlyAfterPanic
<1>5. GrantInv'
  BY DEF StdUnlock, StdGoto, Runs, StdTypeOK, CallInv, GrantInv
<1>6. TurnInv'
  BY DEF StdUnlock, StdGoto, Runs, StdTypeOK, TurnInv
<1> QED BY <1>1, <1>2, <1>3, <1>4, <1>5, <1>6

\* A panic unwinds without reports.
LEMMA PanicStep ==
  ASSUME StdInv, engine' = engine, NEW t \in StdThread, StdPanic(t)
  PROVE  StdInv'
<1> USE NoThread, ModeBoolean DEF StdInv, StdHolds
<1>1. StdTypeOK'
  BY DEF StdPanic, Unwind, StdGoto, Yield, Runs, StdTypeOK, StdPC, CallInv
<1>2. CallInv'
  BY DEF StdPanic, Unwind, StdGoto, Yield, Runs, StdTypeOK, CallInv
<1>3. ReportInv'
  BY DEF StdPanic, Unwind, StdGoto, Yield, Runs, StdTypeOK, CallInv, ReportInv
<1>4. PhantomOnlyAfterPanic'
  BY DEF StdPanic, Unwind, StdGoto, Yield, Runs, StdTypeOK, CallInv, ReportInv, PhantomOnlyAfterPanic
<1>5. GrantInv'
  BY DEF StdPanic, Unwind, StdGoto, Yield, Runs, StdTypeOK, CallInv, GrantInv
<1>6. TurnInv'
  BY DEF StdPanic, Unwind, StdGoto, Yield, Runs, StdTypeOK, TurnInv
<1> QED BY <1>1, <1>2, <1>3, <1>4, <1>5, <1>6

\* A thread that ends has no lock.
LEMMA FinishStep ==
  ASSUME StdInv, engine' = engine, NEW t \in StdThread, StdFinish(t)
  PROVE  StdInv'
<1> USE NoThread, ModeBoolean DEF StdInv, StdHolds
<1>1. StdTypeOK'
  BY DEF StdFinish, StdGoto, Yield, Runs, StdTypeOK, StdPC, CallInv
<1>2. CallInv'
  BY DEF StdFinish, StdGoto, Yield, Runs, StdTypeOK, CallInv
<1>3. ReportInv'
  BY DEF StdFinish, StdGoto, Yield, Runs, StdTypeOK, CallInv, ReportInv
<1>4. PhantomOnlyAfterPanic'
  BY DEF StdFinish, StdGoto, Yield, Runs, StdTypeOK, CallInv, ReportInv, PhantomOnlyAfterPanic
<1>5. GrantInv'
  BY DEF StdFinish, StdGoto, Yield, Runs, StdTypeOK, CallInv, GrantInv
<1>6. TurnInv'
  BY DEF StdFinish, StdGoto, Yield, Runs, StdTypeOK, TurnInv
<1> QED BY <1>1, <1>2, <1>3, <1>4, <1>5, <1>6

\* Every step keeps the invariant.
LEMMA StdInvStep == StdInv /\ [StdNext]_stdVars => StdInv'
<1> SUFFICES ASSUME StdInv, [StdNext]_stdVars PROVE StdInv'
  OBVIOUS
<1>1. CASE UNCHANGED stdVars
  BY <1>1 DEF stdVars, StdInv, StdTypeOK, CallInv, ReportInv, PhantomOnlyAfterPanic, GrantInv,
              TurnInv, StdHolds
<1>2. CASE StdNext
  BY <1>2, StartStep, CallStep, RealStep, ContendedStep, TryStep, TriedStep, GrantStep, DropStep,
     StdUnlockStep, PanicStep, FinishStep DEF StdNext
<1> QED BY <1>1, <1>2

\* A thread that blocks in std was reported for the lock it asks for and,
\* being neither in a try nor in a release, for every lock it has.
LEMMA NoDeadlockEscapes == StdInv => DeadlockVisible
<1> SUFFICES ASSUME StdInv,
                    NEW D \in SUBSET StdThread, \A t \in D : \E u \in D : WaitsFor(t, u),
                    NEW t \in D, NEW l \in StdLock, StdHolds(t, l) \/ l = wants[t]
             PROVE  t \in rep[l]
  BY DEF DeadlockVisible
<1>1. spc[t] = "locking"
  BY DEF WaitsFor
<1> QED BY <1>1 DEF StdInv, ReportInv

\* The owner of a resource that waits itself is no phantom and has the lock,
\* so nobody else can have its mutex.
LEMMA NoCycleInvented == StdInv => NoFalseCycle
<1> SUFFICES ASSUME StdInv, NEW D \in SUBSET StdThread,
                    \A t \in D : /\ spc[t] = "asking" /\ granted[wants[t]] \in D
                                 /\ wants[t] \notin StdRwLock,
                    NEW t \in D
             PROVE  ~StdFree(wants[t], asReader[t])
  BY DEF NoFalseCycle
<1>1. wants[t] \in StdLock /\ ~asReader[t]
  BY DEF StdInv, CallInv
<1>2. PICK u \in D : granted[wants[t]] = u
  OBVIOUS
<1>3. u \in rep[wants[t]]
  BY <1>1, <1>2, NoThread DEF StdInv, GrantInv
<1>4. StdHolds(u, wants[t])
  BY <1>1, <1>3 DEF StdInv, PhantomOnlyAfterPanic
<1> QED BY <1>1, <1>4, NoThread DEF StdHolds, StdFree

-----------------------------------------------------------------------------
\* For any threads and locks, under the probe and under an engine: no real
\* deadlock escapes the lock hook, its holders are real but for panicked
\* threads, and no wait cycle of mutexes is invented (mutex.rs, rwlock.rs).
THEOREM PictureIsSound == StdSpec => []StdPictureSound
<1>1. StdSpec => []StdInv
  BY StdInvInit, StdInvStep, PTL DEF StdSpec
<1>2. StdInv => StdPictureSound
  BY NoDeadlockEscapes, NoCycleInvented DEF StdInv, StdPictureSound
<1> QED BY <1>1, <1>2, PTL

\* Somebody has a lock that is not free.
LEMMA NotFreeHeld ==
  ASSUME StdTypeOK, NEW l \in StdLock, NEW s \in BOOLEAN, ~StdFree(l, s)
  PROVE  \E u \in StdThread : StdHolds(u, l)
  BY DEF StdTypeOK, StdFree, StdHolds

\* Only ContendedGrant ends in the panic, and then the holder is in a try: it
\* was not reported, for the engine has reported the owner alone, and it is
\* not releasing, for another thread runs.
LEMMA ContendedCause ==
  ASSUME StdInv, NEW t \in StdThread, engine, ContendedGrant(t)
  PROVE  \E u \in StdThread : spc[u] = "telling" /\ wants[u] = wants[t]
<1> USE DEF StdInv
<1>1. /\ spc[t] = "locking" /\ running = t /\ wants[t] \in StdLock
      /\ ~StdFree(wants[t], asReader[t]) /\ asReader[t] \in BOOLEAN
  BY DEF ContendedGrant, Runs, CallInv, StdTypeOK
<1>2. PICK u \in StdThread : StdHolds(u, wants[t])
  BY <1>1, NotFreeHeld
<1>3. u # t
  BY <1>1, <1>2 DEF CallInv
<1>4. u \notin rep[wants[t]]
  BY <1>1, <1>3 DEF ReportInv, GrantInv
<1>5. spc[u] # "unlocking"
  BY <1>1, <1>3 DEF TurnInv
<1> QED BY <1>1, <1>2, <1>4, <1>5 DEF ReportInv

\* The panic "lock hook granted a contended mutex" has one cause, for any
\* program: a thread parked in the report of a successful try (mutex.rs lock
\* and try_lock).
THEOREM ContendedHasOneCause == StdSpec => ContendedOnlyBehindTry
<1>1. StdSpec => []StdInv
  BY StdInvInit, StdInvStep, PTL DEF StdSpec
<1>2. ASSUME StdInv, [StdNext]_stdVars
      PROVE  [\A t \in StdThread : spc[t] # "contended" /\ spc'[t] = "contended" =>
                \E u \in StdThread : spc[u] = "telling" /\ wants[u] = wants[t]]_stdVars
  <2> SUFFICES ASSUME StdNext, NEW t \in StdThread, spc[t] # "contended", spc'[t] = "contended"
               PROVE  \E u \in StdThread : spc[u] = "telling" /\ wants[u] = wants[t]
    BY <1>2
  <2>1. PICK u \in StdThread :
          \/ StdStart(u) \/ RealLock(u) \/ ContendedGrant(u) \/ ReportTried(u) \/ StdGrant(u)
          \/ StdUnlock(u) \/ StdPanic(u) \/ StdFinish(u)
          \/ \E l \in StdLock : DropGuard(u, l)
          \/ \E l \in StdLock, s \in BOOLEAN : CallLock(u, l, s) \/ TryLock(u, l, s)
    BY DEF StdNext
  <2>2. \E p \in StdPC \ {"contended"} : spc' = [spc EXCEPT ![u] = p] \/ ContendedGrant(u)
    BY <2>1 DEF StdStart, RealLock, ReportTried, StdGrant, StdUnlock, StdPanic, StdFinish,
                DropGuard, CallLock, TryLock, Unwind, StdGoto, StdPC
  <2>3. ContendedGrant(u) /\ u = t
    BY <1>2, <2>2 DEF ContendedGrant, Unwind, StdGoto, StdInv, StdTypeOK
  <2>4. engine
    BY <2>3 DEF ContendedGrant
  <2> QED BY <1>2, <2>3, <2>4, ContendedCause
<1> QED BY <1>1, <1>2, PTL DEF StdSpec, ContendedOnlyBehindTry

-----------------------------------------------------------------------------
(* The tracked primitives. *)

\* The calls that have a permit of the real semaphore.
Taken == {c \in PermitCall : callAt[c] \in {"granted", "held", "told"}}

\* What is announced is held, under the id of the call.
AnnouncedHeld ==
  \A p \in announced : /\ p[1] \in PermitCall /\ p = <<p[1], callId[p[1]]>>
                       /\ callAt[p[1]] = "held"

PermitInv == PermitTypeOK /\ TrackedConserved /\ AnnouncedHeld

-----------------------------------------------------------------------------
\* The calls with a permit are finitely many.
LEMMA TakenFinite == IsFiniteSet(Taken) /\ Cardinality(Taken) \in Nat
  BY PermitsNat, FS_Subset, FS_CardinalityType DEF Taken

\* A new semaphore.
LEMMA PermitInvInit == PermitInit => PermitInv
<1> SUFFICES ASSUME PermitInit PROVE PermitInv
  OBVIOUS
<1>1. PermitTypeOK
  BY PermitsNat DEF PermitInit, PermitTypeOK
<1>2. Taken = {}
  BY DEF PermitInit, Taken
<1>3. TrackedConserved
  BY <1>2, FS_EmptySet, PermitsNat DEF PermitInit, TrackedConserved, Taken
<1>4. AnnouncedHeld
  BY DEF PermitInit, AnnouncedHeld
<1> QED BY <1>1, <1>3, <1>4 DEF PermitInv

\* A step that neither takes nor returns a permit leaves the account alone.
LEMMA SameTaken ==
  ASSUME PermitInv, NEW c \in PermitCall,
         AcquirePermit(c) \/ CancelAcquire(c) \/ TellAcquired(c) \/ TellReleased(c)
  PROVE  Taken' = Taken /\ available' = available
<1>1. callAt \in [PermitCall -> {"idle", "waiting", "granted", "held", "told", "dropped", "gone"}]
  BY DEF PermitInv, PermitTypeOK
<1> QED BY <1>1 DEF AcquirePermit, CancelAcquire, TellAcquired, TellReleased, To, Taken

\* Granting takes a permit for a call that has none; returning gives back
\* the one of a call that has one.
LEMMA AccountStep ==
  ASSUME PermitInv, NEW c \in PermitCall, GrantPermit(c) \/ ReturnPermit(c)
  PROVE  TrackedConserved' /\ available' \in Int
<1>1. callAt \in [PermitCall -> {"idle", "waiting", "granted", "held", "told", "dropped", "gone"}]
      /\ available \in Int /\ available + Cardinality(Taken) = Permits
  BY PermitsNat DEF PermitInv, PermitTypeOK, TrackedConserved, Taken
<1>2. CASE GrantPermit(c)
  <2>1. c \notin Taken /\ Taken' = Taken \cup {c}
    BY <1>1, <1>2 DEF GrantPermit, To, Taken
  <2>2. Cardinality(Taken') = Cardinality(Taken) + 1
    BY <2>1, TakenFinite, FS_AddElement
  <2>3. available' = available - 1
    BY <1>2 DEF GrantPermit
  <2>4. available' + Cardinality(Taken') = Permits /\ available' \in Int
    BY <1>1, <2>2, <2>3, TakenFinite
  <2> QED BY <2>4 DEF TrackedConserved, Taken
<1>3. CASE ReturnPermit(c)
  <2>1. c \in Taken /\ Taken' = Taken \ {c}
    BY <1>1, <1>3 DEF ReturnPermit, To, Taken
  <2>2. Cardinality(Taken') = Cardinality(Taken) - 1
    BY <2>1, TakenFinite, FS_RemoveElement
  <2>3. available' = available + 1
    BY <1>3 DEF ReturnPermit
  <2>4. available' + Cardinality(Taken') = Permits /\ available' \in Int
    BY <1>1, <2>2, <2>3, TakenFinite
  <2> QED BY <2>4 DEF TrackedConserved, Taken
<1> QED BY <1>2, <1>3

\* Every step keeps the invariant.
LEMMA PermitInvStep == PermitInv /\ [PermitNext]_permitVars => PermitInv'
<1> SUFFICES ASSUME PermitInv, [PermitNext]_permitVars PROVE PermitInv'
  OBVIOUS
<1> USE DEF PermitInv
<1>1. CASE UNCHANGED permitVars
  BY <1>1 DEF permitVars, PermitTypeOK, TrackedConserved, AnnouncedHeld
<1>2. ASSUME NEW c \in PermitCall, GrantPermit(c) \/ ReturnPermit(c)
      PROVE  PermitInv'
  <2>1. TrackedConserved' /\ available' \in Int
    BY <1>2, AccountStep
  <2>2. IsFiniteSet(Taken') /\ Cardinality(Taken') \in Nat
    BY PermitsNat, FS_Subset, FS_CardinalityType DEF Taken
  <2>3. available' >= 0
    BY <1>2, PermitsNat DEF GrantPermit, ReturnPermit, PermitTypeOK
  <2>4. available' \in 0..Permits
    BY <2>1, <2>2, <2>3, PermitsNat DEF TrackedConserved, Taken
  <2>5. PermitTypeOK'
    BY <1>2, <2>4 DEF GrantPermit, ReturnPermit, To, PermitTypeOK
  <2>6. AnnouncedHeld'
    BY <1>2 DEF GrantPermit, ReturnPermit, To, PermitTypeOK, AnnouncedHeld
  <2> QED BY <2>1, <2>5, <2>6
<1>3. ASSUME NEW c \in PermitCall,
             AcquirePermit(c) \/ CancelAcquire(c) \/ TellAcquired(c) \/ TellReleased(c)
      PROVE  PermitInv'
  <2>1. Taken' = Taken /\ available' = available
    BY <1>3, SameTaken
  <2>2. TrackedConserved'
    BY <2>1 DEF TrackedConserved, Taken
  <2>3. PermitTypeOK'
    BY <1>3, <2>1 DEF AcquirePermit, CancelAcquire, TellAcquired, TellReleased, To, PermitTypeOK
  <2>4. CASE AcquirePermit(c) \/ CancelAcquire(c)
    BY <2>2, <2>3, <2>4 DEF AcquirePermit, CancelAcquire, To, PermitTypeOK, AnnouncedHeld
  <2>5. CASE TellAcquired(c)
    BY <2>2, <2>3, <2>5 DEF TellAcquired, To, PermitTypeOK, AnnouncedHeld
  <2>6. CASE TellReleased(c)
    BY <2>2, <2>3, <2>6 DEF TellReleased, To, PermitTypeOK, AnnouncedHeld
  <2> QED BY <1>3, <2>4, <2>5, <2>6
<1> QED BY <1>1, <1>2, <1>3 DEF PermitNext

\* Announced calls are among the calls with a permit, which are at most
\* Permits.
LEMMA PermitInvSound == PermitInv => PermitsSound
<1> SUFFICES ASSUME PermitInv PROVE PermitStreamSound
  BY DEF PermitInv, PermitsSound
<1> USE DEF PermitInv
<1> DEFINE named == {<<c, callId[c]>> : c \in Taken}
<1>1. IsFiniteSet(named) /\ Cardinality(named) <= Cardinality(Taken)
  <2> DEFINE f == [c \in Taken |-> <<c, callId[c]>>]
  <2>1. f \in Surjection(Taken, named)
    BY DEF Surjection
  <2> QED BY <2>1, TakenFinite, FS_Surjection
<1>2. announced \subseteq named
  BY DEF AnnouncedHeld, Taken
<1>3. IsFiniteSet(announced) /\ Cardinality(announced) <= Cardinality(named)
  BY <1>1, <1>2, FS_Subset
<1>4. Cardinality(announced) \in Nat /\ Cardinality(named) \in Nat
  BY <1>1, <1>3, FS_CardinalityType
<1>5. Cardinality(Taken) <= Permits
  BY TakenFinite, PermitsNat DEF TrackedConserved, Taken, PermitTypeOK
<1>6. Cardinality(announced) <= Permits
  BY <1>1, <1>3, <1>4, <1>5, TakenFinite, PermitsNat
<1>7. ASSUME NEW c \in PermitCall, callAt[c] \in {"told", "gone"}, NEW i \in Caller,
             <<c, i>> \in announced
      PROVE  FALSE
  BY <1>7 DEF AnnouncedHeld
<1> QED BY <1>6, <1>7 DEF PermitStreamSound

-----------------------------------------------------------------------------
\* Whatever calls wait, are cancelled, tell and drop, permits are conserved and
\* the stream never shows more holders than permits nor a call after its
\* permit is back (tracked_semaphore.rs acquire and drop).
THEOREM PermitsAreSound == PermitSpec => []PermitsSound
<1>1. PermitSpec => []PermitInv
  BY PermitInvInit, PermitInvStep, PTL DEF PermitSpec
<1> QED BY <1>1, PermitInvSound, PTL
-----------------------------------------------------------------------------
\* The type of guards and of shown.
Counts == [Locker -> [Lock -> [Mode -> 0..MaxAcquires]]]

\* The call of t is between the event and the real lock.
Ahead(t) == lpc[t] \in {"telling", "unlocking", "freeing"}

\* ... about this guard.
Telling(t, l, m) == Ahead(t) /\ want[t] = l /\ mode[t] = m

\* A real guard is in the stream, except the one its thread is telling about.
ShownInv ==
  /\ \A t \in Locker : Ahead(t) => want[t] \in Lock
  /\ \A t \in Locker, l \in Lock, m \in Mode :
       /\ Telling(t, l, m) => guards[t][l][m] = shown[t][l][m] + 1
       /\ ~Telling(t, l, m) => guards[t][l][m] = shown[t][l][m]

\* The wrapped lock excludes, and nothing is taken more often than it was
\* acquired.
GuardInv ==
  /\ \A t \in Locker, l \in Lock, m \in Mode : guards[t][l][m] <= acquires
  /\ \A l \in Lock, t, u \in Locker, m \in Mode :
       t # u /\ Holds(t, l, "x") => ~Holds(u, l, m)

\* Without re-entry a thread has one guard of a lock, in one mode.
OnceInv ==
  ~reentered =>
    \A t \in Locker, l \in Lock, m \in Mode :
      Holds(t, l, m) => guards[t][l][m] = 1 /\ \A n \in Mode : Holds(t, l, n) => n = m

\* What the verifier takes for held is in the stream; without re-entry it is
\* all there is.
HeldInv ==
  \A t \in Locker, l \in Lock, m \in Mode :
    /\ <<l, m>> \in held[t] => shown[t][l][m] > 0
    /\ ~reentered /\ shown[t][l][m] > 0 => <<l, m>> \in held[t]

\* Two edges that close a cycle.
Closes(e, f) ==
  /\ f.held = e.acquired /\ f.acquired = e.held
  /\ Conflict(e.mode, f.heldMode) /\ Conflict(f.mode, e.heldMode)

\* The edges are real orders, and without re-entry all of them; as long as
\* nothing was reported no two of them close a cycle.
EdgeInv ==
  /\ edges \subseteq order
  /\ ~reentered => order \subseteq edges
  /\ ~bug => \A e, f \in edges : ~Closes(e, f)
  /\ bug => \E e, f \in order : Closes(e, f)

OrderInv == OrderTypeOK /\ ShownInv /\ GuardInv /\ OnceInv /\ HeldInv /\ EdgeInv
-----------------------------------------------------------------------------
\* Counting up changes the one count and keeps the type.
LEMMA CountUp ==
  ASSUME NEW f \in Counts, NEW g,
         NEW t \in Locker, NEW l \in Lock, NEW m \in Mode,
         f[t][l][m] + 1 \in 0..MaxAcquires, g = Count(f, t, l, m, 1)
  PROVE  /\ g \in Counts
         /\ \A u \in Locker, k \in Lock, n \in Mode :
              ~(u = t /\ k = l /\ n = m) => g[u][k][n] = f[u][k][n]
         /\ g[t][l][m] = f[t][l][m] + 1
  BY DEF Count, Counts

\* So does counting down.
LEMMA CountDown ==
  ASSUME NEW f \in Counts, NEW g,
         NEW t \in Locker, NEW l \in Lock, NEW m \in Mode,
         f[t][l][m] - 1 \in 0..MaxAcquires, g = Count(f, t, l, m, -1)
  PROVE  /\ g \in Counts
         /\ \A u \in Locker, k \in Lock, n \in Mode :
              ~(u = t /\ k = l /\ n = m) => g[u][k][n] = f[u][k][n]
         /\ g[t][l][m] = f[t][l][m] - 1
<1>1. f[t][l][m] + (-1) = f[t][l][m] - 1
  BY AcquiresNat DEF Counts
<1> QED BY <1>1 DEF Count, Counts

\* A count is a natural number.
LEMMA CountNat ==
  ASSUME NEW f \in Counts
  PROVE  \A t \in Locker, l \in Lock, m \in Mode : f[t][l][m] \in Nat /\ f[t][l][m] <= MaxAcquires
  BY AcquiresNat DEF Counts

\* Nobody has a lock and nothing was told.
LEMMA OrderInvInit == OrderInit => OrderInv
<1> SUFFICES ASSUME OrderInit PROVE OrderInv
  OBVIOUS
<1>1. guards \in Counts /\ shown = guards
      /\ \A t \in Locker, l \in Lock, m \in Mode : guards[t][l][m] = 0
  BY AcquiresNat DEF OrderInit, Counts
<1>2. OrderTypeOK
  <2>1. bug \in BOOLEAN /\ reentered \in BOOLEAN
    BY Zenon DEF OrderInit
  <2>2. /\ lpc \in [Locker -> {"idle", "telling", "unlocking", "unwinding", "freeing"}]
        /\ want \in [Locker -> Lock \cup {NoOne}] /\ mode \in [Locker -> Mode]
        /\ held \in [Locker -> SUBSET (Lock \X Mode)]
        /\ acquires \in 0..MaxAcquires
    BY AcquiresNat DEF OrderInit, Mode
  <2> QED BY <1>1, <2>1, <2>2 DEF OrderInit, OrderTypeOK, Counts
<1>3. ShownInv
  BY <1>1 DEF OrderInit, ShownInv, Telling, Ahead
<1>4. GuardInv /\ OnceInv
  BY <1>1 DEF OrderInit, GuardInv, OnceInv, Holds, Mode
<1>5. HeldInv /\ EdgeInv
  BY <1>1 DEF OrderInit, HeldInv, EdgeInv
<1> QED BY <1>2, <1>3, <1>4, <1>5 DEF OrderInv

\* A guard is taken: the thread has one more than the stream shows.
LEMMA AcquireStep ==
  ASSUME OrderInv, NEW t \in Locker, NEW l \in Lock, NEW m \in Mode, Acquire(t, l, m)
  PROVE  OrderInv'
<1> USE DEF OrderInv
<1>1. /\ guards \in Counts
      /\ shown \in Counts
      /\ acquires \in 0..MaxAcquires /\ acquires < MaxAcquires
      /\ guards[t][l][m] <= acquires
  BY DEF Acquire, OrderTypeOK, Counts, GuardInv
<1>0. \A u \in Locker, k \in Lock, n \in Mode :
        /\ guards[u][k][n] \in Nat /\ guards[u][k][n] <= MaxAcquires
        /\ shown[u][k][n] \in Nat /\ shown[u][k][n] <= MaxAcquires
  BY <1>1, CountNat
<1>2. guards[t][l][m] + 1 \in 0..MaxAcquires
  BY <1>0, <1>1, AcquiresNat
<1>3. /\ guards' \in Counts
      /\ \A u \in Locker, k \in Lock, n \in Mode :
           ~(u = t /\ k = l /\ n = m) => guards'[u][k][n] = guards[u][k][n]
      /\ guards'[t][l][m] = guards[t][l][m] + 1
  <2>1. guards' = Count(guards, t, l, m, 1)
    BY DEF Acquire
  <2>2. guards \in Counts
    BY <1>1
  <2> QED BY <1>2, <2>1, <2>2, CountUp
<1>4. /\ lpc \in [Locker -> {"idle", "telling", "unlocking", "unwinding", "freeing"}]
      /\ want \in [Locker -> Lock \cup {NoOne}] /\ mode \in [Locker -> Mode]
  BY DEF OrderTypeOK, Counts
<1>5. OrderTypeOK'
  <2>1. (reentered \in BOOLEAN)'
    BY DEF Acquire
  <2>2. (acquires \in 0..MaxAcquires)'
    BY <1>0, <1>1, AcquiresNat DEF Acquire
  <2>3. /\ (lpc \in [Locker -> {"idle", "telling", "unlocking", "unwinding", "freeing"}])'
        /\ (want \in [Locker -> Lock \cup {NoOne}])' /\ (mode \in [Locker -> Mode])'
    BY <1>4 DEF Acquire
  <2> QED BY <1>3, <2>1, <2>2, <2>3 DEF Acquire, verifier, OrderTypeOK, Counts
<1>6. ShownInv'
  BY <1>0, <1>1, <1>3, <1>4 DEF Acquire, ShownInv, Telling, Ahead
<1>7. GuardInv'
  <2>1. \A u \in Locker, k \in Lock, n \in Mode : guards'[u][k][n] <= acquires'
    BY <1>0, <1>1, <1>3 DEF Acquire, GuardInv
  <2>2. ASSUME NEW k \in Lock, NEW u \in Locker, NEW v \in Locker, NEW n \in Mode, u # v,
               guards'[u][k]["x"] > 0
        PROVE  guards'[v][k][n] = 0
    <3>1. "x" \in Mode /\ guards[v][k][n] \in Nat /\ guards[u][k]["x"] \in Nat
      BY <1>0, <1>1 DEF Mode
    <3>2. CASE u = t /\ k = l /\ m = "x"
      <4>1. ~Holds(v, l, n)
        BY <3>2 DEF Acquire, Free, Conflict
      <4>2. guards'[v][k][n] = guards[v][k][n]
        BY <1>3, <2>2, <3>2
      <4> QED BY <3>1, <3>2, <4>1, <4>2 DEF Holds
    <3>3. CASE v = t /\ k = l /\ n = m
      <4>1. ~Holds(u, l, "x")
        BY <3>1 DEF Acquire, Free, Conflict
      <4> QED BY <1>3, <2>2, <3>1, <3>3, <4>1 DEF Holds
    <3>4. CASE ~(u = t /\ k = l /\ m = "x") /\ ~(v = t /\ k = l /\ n = m)
      <4>1. guards'[u][k]["x"] = guards[u][k]["x"] /\ guards'[v][k][n] = guards[v][k][n]
        BY <1>3, <3>1, <3>4
      <4> QED BY <2>2, <3>1, <4>1 DEF GuardInv, Holds
    <3> QED BY <3>2, <3>3, <3>4
  <2> QED BY <2>1, <2>2 DEF GuardInv, Holds
<1>8. OnceInv'
  <2> SUFFICES ASSUME ~reentered', NEW u \in Locker, NEW k \in Lock, NEW n \in Mode,
                      guards'[u][k][n] > 0
               PROVE  /\ guards'[u][k][n] = 1
                      /\ \A j \in Mode : guards'[u][k][j] > 0 => j = n
    BY DEF OnceInv, Holds
  <2>1. ~reentered /\ \A j \in Mode : ~Holds(t, l, j)
    BY DEF Acquire
  <2>2. CASE u = t /\ k = l
    BY <1>0, <1>1, <1>3, <2>1, <2>2 DEF Holds
  <2>3. CASE ~(u = t /\ k = l)
    BY <1>0, <1>1, <1>3, <2>1, <2>3 DEF OnceInv, Holds
  <2> QED BY <2>2, <2>3
<1>9. HeldInv' /\ EdgeInv'
  <2>1. UNCHANGED <<held, shown, edges, order, bug>> /\ (reentered => reentered')
    BY DEF Acquire, verifier
  <2> QED BY <2>1 DEF HeldInv, EdgeInv
<1> QED BY <1>5, <1>6, <1>7, <1>8, <1>9

\* A thread that panics changes no guard and no event.
LEMMA UnwindStep ==
  ASSUME OrderInv, NEW t \in Locker,
         LockerPanics(t) \/ \E l \in Lock, m \in Mode : MeetPoison(t, l, m)
  PROVE  OrderInv'
<1> USE DEF OrderInv
<1>1. /\ lpc[t] = "idle" /\ lpc' = [lpc EXCEPT ![t] = "unwinding"]
      /\ UNCHANGED <<flavour, tainted, guards, want, mode, acquires, held, edges, bug, shown,
                     order, reentered>>
  BY DEF LockerPanics, MeetPoison, verifier, ghost
<1>2. OrderTypeOK'
  BY <1>1 DEF OrderTypeOK, Counts
<1>3. ShownInv'
  BY <1>1 DEF ShownInv, Telling, Ahead, OrderTypeOK, Counts
<1>4. GuardInv' /\ OnceInv' /\ HeldInv' /\ EdgeInv'
  BY <1>1 DEF GuardInv, OnceInv, HeldInv, EdgeInv, Holds
<1> QED BY <1>2, <1>3, <1>4

\* The released event: the stream shows one less than the thread has.
LEMMA ReleasedStep ==
  ASSUME OrderInv, NEW t \in Locker, NEW l \in Lock, NEW m \in Mode, EmitReleased(t, l, m)
  PROVE  OrderInv'
<1> USE DEF OrderInv
<1>1. /\ guards \in Counts
      /\ shown \in Counts
      /\ lpc \in [Locker -> {"idle", "telling", "unlocking", "unwinding", "freeing"}]
      /\ want \in [Locker -> Lock \cup {NoOne}] /\ mode \in [Locker -> Mode]
      /\ held \in [Locker -> SUBSET (Lock \X Mode)]
  BY DEF OrderTypeOK, Counts
<1>0. \A u \in Locker, k \in Lock, n \in Mode :
        /\ guards[u][k][n] \in Nat /\ guards[u][k][n] <= MaxAcquires
        /\ shown[u][k][n] \in Nat /\ shown[u][k][n] <= MaxAcquires
  BY <1>1, CountNat
<1>2. shown[t][l][m] = guards[t][l][m] /\ shown[t][l][m] > 0 /\ ~Ahead(t)
  BY DEF EmitReleased, ShownInv, Telling, Ahead, Holds
<1>3. shown[t][l][m] - 1 \in 0..MaxAcquires
  BY <1>0, <1>1, <1>2, AcquiresNat
<1>4. /\ shown' \in Counts
      /\ \A u \in Locker, k \in Lock, n \in Mode :
           ~(u = t /\ k = l /\ n = m) => shown'[u][k][n] = shown[u][k][n]
      /\ shown'[t][l][m] = shown[t][l][m] - 1
  <2>1. shown' = Count(shown, t, l, m, -1)
    BY DEF EmitReleased
  <2>2. shown \in Counts
    BY <1>1
  <2> QED BY <1>3, <2>1, <2>2, CountDown
<1>5. OrderTypeOK'
  <2>1. /\ (lpc \in [Locker -> {"idle", "telling", "unlocking", "unwinding", "freeing"}])'
        /\ (want \in [Locker -> Lock \cup {NoOne}])' /\ (mode \in [Locker -> Mode])'
        /\ (held \in [Locker -> SUBSET (Lock \X Mode)])'
    BY <1>0, <1>1 DEF EmitReleased
  <2> QED BY <1>4, <2>1 DEF EmitReleased, OrderTypeOK, Counts
<1>6. ShownInv'
  <2>1. Ahead(t)' /\ want'[t] = l /\ mode'[t] = m
    BY <1>0, <1>1 DEF EmitReleased, Ahead
  <2>2. ASSUME NEW u \in Locker, u # t
        PROVE  (Ahead(u)' <=> Ahead(u)) /\ want'[u] = want[u] /\ mode'[u] = mode[u]
    BY <1>0, <1>1, <2>2 DEF EmitReleased, Ahead
  <2>3. ASSUME NEW u \in Locker PROVE Ahead(u)' => want'[u] \in Lock
    BY <2>1, <2>2 DEF ShownInv, Telling
  <2>4. ASSUME NEW u \in Locker, NEW k \in Lock, NEW n \in Mode
        PROVE  /\ Telling(u, k, n)' => guards'[u][k][n] = shown'[u][k][n] + 1
               /\ ~Telling(u, k, n)' => guards'[u][k][n] = shown'[u][k][n]
    <3>1. guards'[u][k][n] = guards[u][k][n]
      BY DEF EmitReleased
    <3>2. CASE u = t
      BY <1>0, <1>1, <1>2, <1>4, <2>1, <3>1, <3>2 DEF ShownInv, Telling
    <3>3. CASE u # t
      BY <1>4, <2>2, <3>1, <3>3 DEF ShownInv, Telling
    <3> QED BY <3>2, <3>3
  <2> QED BY <2>3, <2>4 DEF ShownInv, Telling
<1>7. GuardInv' /\ OnceInv' /\ EdgeInv'
  BY DEF EmitReleased, GuardInv, OnceInv, EdgeInv, Holds
<1>8. HeldInv'
  <2> SUFFICES ASSUME NEW u \in Locker, NEW k \in Lock, NEW n \in Mode
               PROVE  /\ <<k, n>> \in held'[u] => shown'[u][k][n] > 0
                      /\ ~reentered' /\ shown'[u][k][n] > 0 => <<k, n>> \in held'[u]
    BY DEF HeldInv
  <2>1. held'[u] = IF u = t THEN {h \in held[t] : h[1] # l} ELSE held[u]
    BY <1>0, <1>1 DEF EmitReleased
  <2>2. CASE u = t /\ k = l
    <3>1. <<k, n>> \notin held'[u]
      BY <2>1, <2>2
    <3>2. ASSUME ~reentered' PROVE ~(shown'[u][k][n] > 0)
      <4>1. ~reentered /\ Holds(t, l, m)
        BY <3>2 DEF EmitReleased
      <4>2. guards[t][l][m] = 1 /\ (Holds(t, l, n) => n = m)
        BY <4>1 DEF OnceInv
      <4>3. shown[t][l][n] = guards[t][l][n] /\ shown[t][l][n] \in Nat
        BY <1>0, <1>1, <1>2 DEF ShownInv, Telling
      <4> QED BY <1>2, <1>4, <2>2, <4>2, <4>3 DEF Holds
    <3> QED BY <3>1, <3>2
  <2>3. CASE ~(u = t /\ k = l)
    <3>1. shown'[u][k][n] = shown[u][k][n] /\ reentered' = reentered
      BY <1>4, <2>3 DEF EmitReleased
    <3>2. <<k, n>> \in held'[u] <=> <<k, n>> \in held[u]
      BY <2>1, <2>3
    <3> QED BY <3>1, <3>2 DEF HeldInv
  <2> QED BY <2>2, <2>3
<1> QED BY <1>5, <1>6, <1>7, <1>8

\* The guard is dropped: what the stream said already holds.
LEMMA UnlockStep ==
  ASSUME OrderInv, NEW t \in Locker, Unlock(t)
  PROVE  OrderInv'
<1> USE DEF OrderInv
<1>a. PICK l \in Lock, m \in Mode : want[t] = l /\ mode[t] = m
  BY DEF Unlock, OrderTypeOK, ShownInv, Ahead
<1>1. /\ guards \in Counts
      /\ shown \in Counts
      /\ lpc \in [Locker -> {"idle", "telling", "unlocking", "unwinding", "freeing"}]
  BY DEF Unlock, OrderTypeOK, Counts, ShownInv, Telling, Ahead
<1>0. \A u \in Locker, k \in Lock, n \in Mode :
        /\ guards[u][k][n] \in Nat /\ guards[u][k][n] <= MaxAcquires
        /\ shown[u][k][n] \in Nat /\ shown[u][k][n] <= MaxAcquires
  BY <1>1, CountNat
<1>2. guards[t][l][m] = shown[t][l][m] + 1
  BY <1>0, <1>1, <1>a DEF Unlock, ShownInv, Telling, Ahead
<1>3. guards[t][l][m] - 1 \in 0..MaxAcquires
  BY <1>0, <1>1, <1>2, AcquiresNat
<1>4. /\ guards' \in Counts
      /\ \A u \in Locker, k \in Lock, n \in Mode :
           ~(u = t /\ k = l /\ n = m) => guards'[u][k][n] = guards[u][k][n]
      /\ guards'[t][l][m] = guards[t][l][m] - 1
  <2>1. guards' = Count(guards, t, l, m, -1)
    BY <1>a DEF Unlock
  <2>2. guards \in Counts
    BY <1>1
  <2> QED BY <1>3, <2>1, <2>2, CountDown
<1>5. OrderTypeOK'
  <2>1. (lpc \in [Locker -> {"idle", "telling", "unlocking", "unwinding", "freeing"}])'
    BY <1>0, <1>1 DEF Unlock
  <2> QED BY <1>4, <2>1 DEF Unlock, verifier, ghost, OrderTypeOK, Counts
<1>6. /\ UNCHANGED <<want, mode, acquires, held, edges, bug, shown, order, reentered>>
      /\ ~Ahead(t)'
      /\ \A u \in Locker \ {t} : (Ahead(u)' <=> Ahead(u))
  BY <1>0, <1>1 DEF Unlock, verifier, ghost, Ahead
<1>7. ShownInv'
  <2>1. ASSUME NEW u \in Locker, NEW k \in Lock, NEW n \in Mode
        PROVE  /\ Telling(u, k, n)' => guards'[u][k][n] = shown'[u][k][n] + 1
               /\ ~Telling(u, k, n)' => guards'[u][k][n] = shown'[u][k][n]
    <3>1. CASE u = t
      BY <1>0, <1>1, <1>2, <1>4, <1>6, <3>1, <1>a DEF ShownInv, Telling
    <3>2. CASE u # t
      BY <1>4, <1>6, <3>2, <1>a DEF ShownInv, Telling
    <3> QED BY <3>1, <3>2
  <2> QED BY <1>6, <2>1, <1>a DEF ShownInv, Telling
<1>8. \A u \in Locker, k \in Lock, n \in Mode :
        guards'[u][k][n] <= guards[u][k][n] /\ guards'[u][k][n] \in Nat /\ guards[u][k][n] \in Nat
  <2>1. ASSUME NEW u \in Locker, NEW k \in Lock, NEW n \in Mode
        PROVE  guards'[u][k][n] <= guards[u][k][n] /\ guards'[u][k][n] \in Nat
    <3>1. guards[u][k][n] \in Nat /\ guards'[u][k][n] \in Nat
      BY <1>0, <1>4, CountNat
    <3>2. CASE u = t /\ k = l /\ n = m
      BY <1>4, <3>1, <3>2
    <3>3. CASE ~(u = t /\ k = l /\ n = m)
      BY <1>4, <3>1, <3>3
    <3> QED BY <3>1, <3>2, <3>3
  <2> QED BY <1>0, <2>1
<1>9. GuardInv'
  <2>1. "x" \in Mode /\ acquires \in Nat
    BY DEF Mode, OrderTypeOK, Counts
  <2> QED BY <1>6, <1>8, <2>1 DEF GuardInv, Holds
<1>10. OnceInv'
  BY <1>6, <1>8 DEF OnceInv, Holds
<1>11. HeldInv' /\ EdgeInv'
  BY <1>6 DEF HeldInv, EdgeInv
<1> QED BY <1>5, <1>7, <1>9, <1>10, <1>11

\* The acquired event: the verifier learns every edge from a lock it takes
\* for held, and says so when one of them closes a cycle.
LEMMA AcquiredStep ==
  ASSUME OrderInv, ~bug, NEW t \in Locker, EmitAcquired(t)
  PROVE  OrderInv'
<1> USE DEF OrderInv
<1>a. PICK l \in Lock, m \in Mode : want[t] = l /\ mode[t] = m
  BY DEF EmitAcquired, OrderTypeOK, ShownInv, Ahead
<1>1. /\ guards \in Counts
      /\ shown \in Counts
      /\ lpc \in [Locker -> {"idle", "telling", "unlocking", "unwinding", "freeing"}]
      /\ held \in [Locker -> SUBSET (Lock \X Mode)]
      /\ lpc[t] = "telling"
  BY DEF EmitAcquired, OrderTypeOK, Counts, ShownInv, Telling, Ahead
<1>0. \A u \in Locker, k \in Lock, n \in Mode :
        /\ guards[u][k][n] \in Nat /\ guards[u][k][n] <= MaxAcquires
        /\ shown[u][k][n] \in Nat /\ shown[u][k][n] <= MaxAcquires
  BY <1>1, CountNat
<1>2. guards[t][l][m] = shown[t][l][m] + 1
  BY <1>0, <1>1, <1>a DEF ShownInv, Telling, Ahead
<1>3. shown[t][l][m] + 1 \in 0..MaxAcquires
  BY <1>0, <1>1, <1>2
<1>4. /\ shown' \in Counts
      /\ \A u \in Locker, k \in Lock, n \in Mode :
           ~(u = t /\ k = l /\ n = m) => shown'[u][k][n] = shown[u][k][n]
      /\ shown'[t][l][m] = shown[t][l][m] + 1
  <2>1. shown' = Count(shown, t, l, m, 1)
    BY <1>a DEF EmitAcquired
  <2>2. shown \in Counts
    BY <1>1
  <2> QED BY <1>3, <2>1, <2>2, CountUp, Z3
<1> DEFINE new == NewEdges(t, l, m)
           now == {e \in Edge : /\ Holds(t, e.held, e.heldMode) /\ e.held # l
                                /\ e.acquired = l /\ e.mode = m}
<1>5. /\ order' = order \cup now /\ edges' = edges \cup new
      /\ bug' = (\E e \in new : ClosesCycle(e))
      /\ held' = IF \E n \in Mode : <<l, n>> \in held[t]
                 THEN held ELSE [held EXCEPT ![t] = @ \cup {<<l, m>>}]
      /\ lpc' = [lpc EXCEPT ![t] = "idle"]
      /\ UNCHANGED <<flavour, tainted, guards, want, mode, acquires, reentered>>
  BY <1>a, Zenon DEF EmitAcquired
<1>6. OrderTypeOK'
  <2>1. bug' \in BOOLEAN
    BY <1>5
  <2>2. /\ (lpc \in [Locker -> {"idle", "telling", "unlocking", "unwinding", "freeing"}])'
        /\ (held \in [Locker -> SUBSET (Lock \X Mode)])'
    <3>1. [lpc EXCEPT ![t] = "idle"]
            \in [Locker -> {"idle", "telling", "unlocking", "unwinding", "freeing"}]
      BY <1>1
    <3>2. [held EXCEPT ![t] = @ \cup {<<l, m>>}] \in [Locker -> SUBSET (Lock \X Mode)]
      BY <1>1
    <3> QED BY <1>1, <1>5, <3>1, <3>2, Zenon
  <2>3. edges' \subseteq Edge /\ order' \subseteq Edge
    BY <1>5 DEF OrderTypeOK, Counts, NewEdges
  <2> QED BY <1>4, <1>5, <2>1, <2>2, <2>3 DEF OrderTypeOK, Counts
<1>7. ~Ahead(t)' /\ \A u \in Locker \ {t} : (Ahead(u)' <=> Ahead(u))
  BY <1>0, <1>1, <1>5 DEF Ahead
<1>8. ShownInv'
  <2>1. ASSUME NEW u \in Locker, NEW k \in Lock, NEW n \in Mode
        PROVE  /\ Telling(u, k, n)' => guards'[u][k][n] = shown'[u][k][n] + 1
               /\ ~Telling(u, k, n)' => guards'[u][k][n] = shown'[u][k][n]
    <3>1. CASE u = t
      BY <1>0, <1>1, <1>2, <1>4, <1>5, <1>7, <3>1, <1>a DEF ShownInv, Telling
    <3>2. CASE u # t
      BY <1>4, <1>5, <1>7, <3>2, <1>a DEF ShownInv, Telling
    <3> QED BY <3>1, <3>2
  <2> QED BY <1>5, <1>7, <2>1, <1>a DEF ShownInv, Telling
<1>9. GuardInv' /\ OnceInv'
  BY <1>5 DEF GuardInv, OnceInv, Holds
<1>10. ASSUME ~reentered, NEW n \in Mode PROVE <<l, n>> \notin held[t] /\ (n # m => shown[t][l][n] = 0)
  <2>1. Holds(t, l, m) /\ guards[t][l][m] = 1 /\ (Holds(t, l, n) => n = m)
    BY <1>0, <1>1, <1>2, <1>10 DEF OnceInv, Holds
  <2>2. shown[t][l][n] = 0
    <3>1. shown[t][l][n] \in Nat /\ guards[t][l][n] \in Nat
      BY <1>0
    <3>2. CASE n = m
      BY <1>2, <2>1, <3>1, <3>2
    <3>3. CASE n # m
      <4>1. guards[t][l][n] = shown[t][l][n]
        BY <3>3, <1>a DEF ShownInv, Telling
      <4> QED BY <2>1, <3>1, <3>3, <4>1 DEF Holds
    <3> QED BY <3>2, <3>3
  <2> QED BY <2>2 DEF HeldInv
<1>11. HeldInv'
  <2> SUFFICES ASSUME NEW u \in Locker, NEW k \in Lock, NEW n \in Mode
               PROVE  /\ <<k, n>> \in held'[u] => shown'[u][k][n] > 0
                      /\ ~reentered' /\ shown'[u][k][n] > 0 => <<k, n>> \in held'[u]
    BY DEF HeldInv
  <2>1. CASE u = t /\ k = l
    <3>1. ASSUME <<k, n>> \in held'[u] PROVE shown'[u][k][n] > 0
      <4>1. <<l, n>> \in held[t] \/ n = m
        BY <1>0, <1>1, <1>5, <2>1, <3>1
      <4>2. <<l, n>> \in held[t] => shown[t][l][n] > 0
        BY <1>0, <1>1 DEF HeldInv
      <4>3. shown[t][l][n] \in Nat /\ (n = m => shown'[t][l][n] = shown[t][l][n] + 1)
            /\ (n # m => shown'[t][l][n] = shown[t][l][n])
        BY <1>0, <1>1, <1>4
      <4> QED BY <2>1, <4>1, <4>2, <4>3
    <3>2. ASSUME ~reentered', shown'[u][k][n] > 0 PROVE <<k, n>> \in held'[u]
      <4>1. ~reentered
        BY <1>5, <3>2
      <4>2. n = m
        <5>1. n # m => shown'[t][l][n] = shown[t][l][n] /\ shown[t][l][n] = 0
          BY <1>4, <1>10, <4>1
        <5> QED BY <2>1, <3>2, <5>1
      <4>3. held' = [held EXCEPT ![t] = @ \cup {<<l, m>>}]
        BY <1>5, <1>10, <4>1
      <4> QED BY <1>0, <1>1, <2>1, <4>2, <4>3
    <3> QED BY <3>1, <3>2
  <2>2. CASE ~(u = t /\ k = l)
    <3>1. shown'[u][k][n] = shown[u][k][n] /\ reentered' = reentered
      BY <1>0, <1>1, <1>4, <1>5, <2>2
    <3>2. <<k, n>> \in held'[u] <=> <<k, n>> \in held[u]
      BY <1>0, <1>1, <1>5, <2>2
    <3> QED BY <3>1, <3>2 DEF HeldInv
  <2> QED BY <2>1, <2>2
<1>12. EdgeInv'
  <2>1. new \subseteq now
    <3> SUFFICES ASSUME NEW e \in new PROVE Holds(t, e.held, e.heldMode)
      BY DEF NewEdges
    <3>1. e.held \in Lock /\ e.heldMode \in Mode /\ <<e.held, e.heldMode>> \in held[t] /\ e.held # l
      BY DEF NewEdges, Edge
    <3>2. shown[t][e.held][e.heldMode] > 0
      BY <3>1 DEF HeldInv
    <3> QED BY <1>0, <1>1, <3>1, <3>2, <1>a DEF ShownInv, Telling, Holds
  <2>2. ~reentered => now \subseteq new
    <3> SUFFICES ASSUME ~reentered, NEW e \in now PROVE <<e.held, e.heldMode>> \in held[t]
      BY DEF NewEdges
    <3>1. e.held \in Lock /\ e.heldMode \in Mode /\ Holds(t, e.held, e.heldMode) /\ e.held # l
      BY DEF Edge
    <3>2. shown[t][e.held][e.heldMode] > 0
      BY <1>0, <1>1, <3>1, <1>a DEF ShownInv, Telling, Holds
    <3> QED BY <3>1, <3>2 DEF HeldInv
  <2>3. edges' \subseteq order' /\ (~reentered' => order' \subseteq edges')
    BY <1>5, <2>1, <2>2 DEF EdgeInv
  <2>4. ASSUME ~bug', NEW e \in edges', NEW f \in edges' PROVE ~Closes(e, f)
    <3>1. \A d \in new : ~ClosesCycle(d)
      BY <1>5, <2>4
    <3>2. CASE e \in edges /\ f \in edges
      BY <3>2 DEF EdgeInv
    <3>3. CASE e \in new /\ f \in edges
      BY <3>1, <3>3 DEF ClosesCycle, Closes
    <3>4. CASE e \in edges /\ f \in new
      BY <3>1, <3>4 DEF ClosesCycle, Closes
    <3>5. CASE e \in new /\ f \in new
      BY <3>5 DEF NewEdges, Closes
    <3> QED BY <1>5, <2>4, <3>2, <3>3, <3>4, <3>5
  <2>5. ASSUME bug' PROVE \E e, f \in order' : Closes(e, f)
    <3>1. PICK e \in new : ClosesCycle(e)
      BY <1>5, <2>5
    <3>2. PICK f \in edges : Closes(e, f)
      BY <3>1 DEF ClosesCycle, Closes
    <3>3. e \in order' /\ f \in order'
      BY <1>5, <2>1 DEF EdgeInv
    <3> QED BY <3>2, <3>3
  <2> QED BY <2>3, <2>4, <2>5 DEF EdgeInv
<1> QED BY <1>6, <1>8, <1>9, <1>11, <1>12

\* Every step keeps the invariant.
LEMMA OrderInvStep == OrderInv /\ [OrderNext]_orderVars => OrderInv'
<1> SUFFICES ASSUME OrderInv, [OrderNext]_orderVars PROVE OrderInv'
  OBVIOUS
<1>1. CASE UNCHANGED orderVars
  BY <1>1 DEF orderVars, real, verifier, ghost, OrderInv, OrderTypeOK, Counts, ShownInv, GuardInv,
              OnceInv, HeldInv, EdgeInv, Holds, Telling, Ahead
<1>2. CASE OrderNext
  <2>1. "x" \in Mode /\ ~bug
    BY <1>2 DEF OrderNext, Mode
  <2>2. PICK t \in Locker :
          \/ EmitAcquired(t) \/ Unlock(t) \/ LockerPanics(t)
          \/ \E l \in Lock, m \in Mode :
               MeetPoison(t, l, m) \/ EmitReleased(t, l, m) \/ Acquire(t, l, m)
    BY <1>2, <2>1 DEF OrderNext, LockMutex, LockStdMutex, ReadWrite, ReadWriteStd,
                      ReadWriteParkingLot
  <2> QED BY <2>1, <2>2, AcquiredStep, UnlockStep, UnwindStep, ReleasedStep, AcquireStep
<1> QED BY <1>1, <1>2

\* The invariant gives what the verifier promises.
LEMMA OrderInvSound == OrderInv => VerifierSound
<1> SUFFICES ASSUME OrderInv PROVE VerifierSound
  OBVIOUS
<1> USE DEF OrderInv
<1>1. StreamExclusive
  <2> SUFFICES ASSUME NEW l \in Lock, NEW t \in Locker, NEW u \in Locker, NEW m \in Mode, t # u,
                      shown[t][l]["x"] > 0
               PROVE  shown[u][l][m] = 0
    BY DEF StreamExclusive
  <2>1. "x" \in Mode /\ shown[t][l]["x"] \in Nat /\ shown[u][l][m] \in Nat
    BY DEF Mode, OrderTypeOK, Counts
  <2>2. guards[t][l]["x"] > 0
    BY <2>1 DEF ShownInv, Telling
  <2>3. ~(guards[u][l][m] > 0)
    BY <2>2 DEF GuardInv, Holds
  <2>4. guards[u][l][m] \in {shown[u][l][m], shown[u][l][m] + 1}
    BY DEF ShownInv, Telling
  <2> QED BY <2>1, <2>3, <2>4
<1>2. TwoCycle <=> \E e, f \in order : Closes(e, f)
  BY DEF TwoCycle, Closes
<1>3. AlarmIsCycle /\ FindsTwoCycles
  BY <1>2 DEF EdgeInv, AlarmIsCycle, FindsTwoCycles
<1> QED BY <1>1, <1>3 DEF VerifierSound

-----------------------------------------------------------------------------
\* For any threads, locks, modes, panics and poisoned locks: the stream of a
\* tracked lock never shows an exclusive holder beside another, a reported
\* cycle is a real one, and a cycle of two locks is reported unless a thread
\* held a lock twice (tracked_mutex.rs, tracked_rwlock.rs,
\* reference_verifier.rs find_lock_order_cycle).
THEOREM VerdictsAreSound == OrderSpec => []VerifierSound
<1>1. OrderSpec => []OrderInv
  BY OrderInvInit, OrderInvStep, PTL DEF OrderSpec
<1> QED BY <1>1, OrderInvSound, PTL
=============================================================================
