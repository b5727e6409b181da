------------------------------ MODULE ModelLock ------------------------------
(***************************************************************************)
(* ModelMutex and ModelRwLock of laplace-model-rt: std::sync locks that    *)
(* report to an installed LockHook.  With a lock hook only (the probe) the *)
(* calls block in std; with a spawn hook too (the engine) threads run one  *)
(* at a time, hook.acquire parks the thread until the engine grants the    *)
(* resource, and std is only ever asked with try_lock.                     *)
(*                                                                         *)
(* A poisoned lock hands out the same guard in its Err, so poisoning is    *)
(* not part of the state.  The engine is not in the repository: it is      *)
(* modelled from what the callers rely on, an exclusive owner per resource *)
(* and no switch of threads other than in hook.acquire or at an exit.      *)
(***************************************************************************)
EXTENDS Integers, FiniteSets

CONSTANTS
  StdThread,  \* model threads
  StdLock,    \* resource ids of the locks
  StdRwLock,  \* the locks that are a ModelRwLock
  Engines,    \* the modes: with a spawn hook installed too, or a lock hook only
  UseTry,     \* the program calls try_lock, try_read, try_write
  Unheld      \* nobody

ASSUME StdRwLocks == StdRwLock \subseteq StdLock
ASSUME ModeBoolean == Engines \subseteq BOOLEAN /\ UseTry \in BOOLEAN
ASSUME NoThread    == Unheld \notin StdThread

VARIABLES
  engine,   \* lock and spawn hook are installed: the engine runs the threads
  writer,   \* holder of the std Mutex, or of the std RwLock for writing
  readers,  \* holders of the std RwLock for reading
  rep,      \* threads whose acquire was reported and whose release was not
  granted,  \* the engine's owner of a resource
  running,  \* the thread the engine lets run
  spc,      \* where the thread is
  wants,    \* the lock of the call the thread is in
  asReader  \* that call is read or try_read

stdVars == <<engine, writer, readers, rep, granted, running, spc, wants, asReader>>

StdPC == {"new", "idle", "asking", "locking", "telling", "unlocking", "panicked",
          "contended", "done"}

StdHolds(t, l) == writer[l] = t \/ t \in readers[l]
StdFree(l, s)  == writer[l] = Unheld /\ (s \/ readers[l] = {})

\* A thread runs unless the engine lets another one run.
Runs(t) == engine => running = t

\* The engine may pick another thread.
Yield == running' = IF engine THEN Unheld ELSE running

\* Well-typed, and std's exclusion: a writer is alone.
StdTypeOK ==
  /\ engine \in Engines
  /\ writer \in [StdLock -> StdThread \cup {Unheld}]
  /\ readers \in [StdLock -> SUBSET StdThread]
  /\ rep \in [StdLock -> SUBSET StdThread]
  /\ granted \in [StdLock -> StdThread \cup {Unheld}]
  /\ running \in StdThread \cup {Unheld}
  /\ spc \in [StdThread -> StdPC]
  /\ wants \in [StdThread -> StdLock \cup {Unheld}]
  /\ asReader \in [StdThread -> BOOLEAN]
  /\ \A l \in StdLock : writer[l] # Unheld => readers[l] = {}

StdInit ==
  /\ engine \in Engines
  /\ writer = [l \in StdLock |-> Unheld]
  /\ readers = [l \in StdLock |-> {}]
  /\ rep = [l \in StdLock |-> {}]
  /\ granted = [l \in StdLock |-> Unheld]
  /\ running = Unheld
  /\ spc = [t \in StdThread |-> "new"]
  /\ wants = [t \in StdThread |-> Unheld]
  /\ asReader = [t \in StdThread |-> FALSE]

StdGoto(t, p) == spc' = [spc EXCEPT ![t] = p]

\* The std lock passes to t.
StdTake(t, l, s) ==
  IF s THEN readers' = [readers EXCEPT ![l] = @ \cup {t}] /\ UNCHANGED writer
       ELSE writer' = [writer EXCEPT ![l] = t] /\ UNCHANGED readers

-----------------------------------------------------------------------------
(* Faulty variants, used only to show that the properties notice them. *)

\* The acquire boundary is not reported before the std lock is tried.
CallLockUnreported(t, l, s) ==
  /\ spc[t] = "idle" /\ Runs(t) /\ ~StdHolds(t, l)
  /\ s => l \in StdRwLock
  /\ wants' = [wants EXCEPT ![t] = l] /\ asReader' = [asReader EXCEPT ![t] = s]
  /\ StdGoto(t, "locking")
  /\ UNCHANGED <<writer, readers, rep, granted, running>>

\* A WouldBlock of the granted lock is taken for success.
RealLockUnchecked(t) ==
  /\ spc[t] = "locking" /\ Runs(t)
  /\ StdTake(t, wants[t], asReader[t])
  /\ StdGoto(t, "idle")
  /\ UNCHANGED <<rep, granted, running, wants, asReader>>

\* The release boundary is not reported.
DropGuardUnreported(t, l) ==
  /\ spc[t] = "idle" /\ Runs(t) /\ StdHolds(t, l)
  /\ wants' = [wants EXCEPT ![t] = l]
  /\ StdGoto(t, "unlocking")
  /\ UNCHANGED <<writer, readers, rep, granted, running, asReader>>

\* The engine grants what it has granted before.
GrantTwice(t) ==
  /\ engine /\ running = Unheld
  /\ spc[t] \in {"asking", "telling"}
  /\ granted' = [granted EXCEPT ![wants[t]] = t]
  /\ rep' = [rep EXCEPT ![wants[t]] = @ \cup {t}]
  /\ running' = t
  /\ StdGoto(t, IF spc[t] = "asking" THEN "locking" ELSE "idle")
  /\ UNCHANGED <<writer, readers, wants, asReader>>

-----------------------------------------------------------------------------
\* A thread starts; under the engine when it is picked.
StdStart(t) ==
  /\ spc[t] = "new"
  /\ engine => running = Unheld
  /\ running' = IF engine THEN t ELSE running
  /\ StdGoto(t, "idle")
  /\ UNCHANGED <<writer, readers, rep, granted, wants, asReader>>

\* lock, read, write: the acquire boundary comes first.  The probe notes it
\* and returns, the engine parks the thread.  std locks are not reentrant.
CallLock(t, l, s) ==
  /\ spc[t] = "idle" /\ Runs(t) /\ ~StdHolds(t, l)
  /\ s => l \in StdRwLock
  /\ wants' = [wants EXCEPT ![t] = l] /\ asReader' = [asReader EXCEPT ![t] = s]
  /\ StdGoto(t, IF engine THEN "asking" ELSE "locking")
  /\ rep' = IF engine THEN rep ELSE [rep EXCEPT ![l] = @ \cup {t}]
  /\ Yield
  /\ UNCHANGED <<writer, readers, granted>>

\* The std lock is taken: lock under the probe, try_lock under the engine.
RealLock(t) ==
  /\ spc[t] = "locking" /\ Runs(t)
  /\ StdFree(wants[t], asReader[t])
  /\ StdTake(t, wants[t], asReader[t])
  /\ StdGoto(t, "idle")
  /\ UNCHANGED <<rep, granted, running, wants, asReader>>

\* Unwinding drops every guard of t without reporting a release.
Unwind(t, p) ==
  /\ writer' = [l \in StdLock |-> IF writer[l] = t THEN Unheld ELSE writer[l]]
  /\ readers' = [l \in StdLock |-> readers[l] \ {t}]
  /\ StdGoto(t, p)
  /\ Yield
  /\ UNCHANGED <<rep, granted, wants, asReader>>

\* The engine granted a lock that std still has a holder for: panic.
ContendedGrant(t) ==
  /\ engine
  /\ spc[t] = "locking" /\ Runs(t)
  /\ ~StdFree(wants[t], asReader[t])
  /\ Unwind(t, "contended")

\* try_lock, try_read, try_write: the std lock comes first, the boundary
\* after it, and only on success.
TryLock(t, l, s) ==
  /\ UseTry
  /\ spc[t] = "idle" /\ Runs(t) /\ ~StdHolds(t, l)
  /\ s => l \in StdRwLock
  /\ StdFree(l, s)
  /\ StdTake(t, l, s)
  /\ wants' = [wants EXCEPT ![t] = l] /\ asReader' = [asReader EXCEPT ![t] = s]
  /\ StdGoto(t, "telling")
  /\ Yield
  /\ UNCHANGED <<rep, granted>>

\* The probe notes the acquisition of a successful try.
ReportTried(t) ==
  /\ ~engine
  /\ spc[t] = "telling"
  /\ rep' = [rep EXCEPT ![wants[t]] = @ \cup {t}]
  /\ StdGoto(t, "idle")
  /\ UNCHANGED <<writer, readers, granted, running, wants, asReader>>

\* The engine lets a parked thread own the resource and go on.
StdGrant(t) ==
  /\ engine /\ running = Unheld
  /\ spc[t] \in {"asking", "telling"}
  /\ granted[wants[t]] = Unheld
  /\ granted' = [granted EXCEPT ![wants[t]] = t]
  /\ rep' = [rep EXCEPT ![wants[t]] = @ \cup {t}]
  /\ running' = t
  /\ StdGoto(t, IF spc[t] = "asking" THEN "locking" ELSE "idle")
  /\ UNCHANGED <<writer, readers, wants, asReader>>

\* Drop of a guard: the release boundary first ...
DropGuard(t, l) ==
  /\ spc[t] = "idle" /\ Runs(t) /\ StdHolds(t, l)
  /\ wants' = [wants EXCEPT ![t] = l]
  /\ rep' = [rep EXCEPT ![l] = @ \ {t}]
  /\ granted' = IF granted[l] = t THEN [granted EXCEPT ![l] = Unheld] ELSE granted
  /\ StdGoto(t, "unlocking")
  /\ UNCHANGED <<writer, readers, running, asReader>>

\* ... then the std guard.
StdUnlock(t) ==
  /\ spc[t] = "unlocking" /\ Runs(t)
  /\ LET l == wants[t] IN
       IF writer[l] = t THEN writer' = [writer EXCEPT ![l] = Unheld] /\ UNCHANGED readers
                        ELSE readers' = [readers EXCEPT ![l] = @ \ {t}] /\ UNCHANGED writer
  /\ StdGoto(t, "idle")
  /\ UNCHANGED <<rep, granted, running, wants, asReader>>

\* The program panics, for instance on unwrap of a poisoned lock.
StdPanic(t) ==
  /\ spc[t] = "idle" /\ Runs(t)
  /\ Unwind(t, "panicked")

StdFinish(t) ==
  /\ spc[t] = "idle" /\ Runs(t)
  /\ \A l \in StdLock : ~StdHolds(t, l)
  /\ StdGoto(t, "done")
  /\ Yield
  /\ UNCHANGED <<writer, readers, rep, granted, wants, asReader>>

StdNext ==
  /\ UNCHANGED engine
  /\ \E t \in StdThread :
       \/ StdStart(t) \/ RealLock(t) \/ ContendedGrant(t) \/ ReportTried(t) \/ StdGrant(t)
       \/ StdUnlock(t) \/ StdPanic(t) \/ StdFinish(t)
       \/ \E l \in StdLock : DropGuard(t, l)
       \/ \E l \in StdLock, s \in BOOLEAN : CallLock(t, l, s) \/ TryLock(t, l, s)

StdSpec == StdInit /\ [][StdNext]_stdVars

-----------------------------------------------------------------------------
(* Properties. *)

\* t waits in std for a lock that u has.
WaitsFor(t, u) ==
  /\ spc[t] = "locking" /\ ~StdFree(wants[t], asReader[t])
  /\ StdHolds(u, wants[t])

\* No real deadlock escapes the lock hook: when threads wait for each other
\* in std, the hook was told of every lock they have and of the one each of
\* them asks for, because lock reports before it blocks and a thread that
\* has a lock and blocks again has finished reporting the first one.
DeadlockVisible ==
  \A D \in SUBSET StdThread \ {{}} :
    (\A t \in D : \E u \in D : WaitsFor(t, u)) =>
      \A t \in D : \A l \in StdLock : StdHolds(t, l) \/ l = wants[t] => t \in rep[l]

\* The hook's holders are real: who is reported to hold a lock has it, is
\* waiting for it, or has panicked (a panicking guard reports no release).
PhantomOnlyAfterPanic ==
  \A t \in StdThread, l \in StdLock : t \in rep[l] =>
    \/ StdHolds(t, l)
    \/ spc[t] = "locking" /\ wants[t] = l
    \/ spc[t] \in {"panicked", "contended"}

\* The panic "lock hook granted a contended mutex" has one cause only when the
\* engine grants exclusively: somebody took the std lock with a try_* call and
\* is still parked in the report of it.
ContendedOnlyBehindTry ==
  [][\A t \in StdThread : spc[t] # "contended" /\ spc'[t] = "contended" =>
       \E u \in StdThread : spc[u] = "telling" /\ wants[u] = wants[t]]_stdVars

\* Threads parked in hook.acquire, each for a resource one of them owns, are
\* a deadlock to the engine: then none of their requests could be served by
\* std either.  Readers do make such cycles, so this is about mutexes.
NoFalseCycle ==
  \A D \in SUBSET StdThread \ {{}} :
    (\A t \in D : spc[t] = "asking" /\ granted[wants[t]] \in D /\ wants[t] \notin StdRwLock) =>
      \A t \in D : ~StdFree(wants[t], asReader[t])

\* What a consumer of the lock hook's events concludes about the locks of the
\* program: it misses no deadlock, invents no holder and sees no false cycle.
StdPictureSound == StdTypeOK /\ DeadlockVisible /\ PhantomOnlyAfterPanic /\ NoFalseCycle

\* The same of reader-writer locks, as the crate's documentation has it:
\* readers are serialized, never producing a false wait cycle.
NoFalseReaderCycle ==
  \A D \in SUBSET StdThread \ {{}} :
    (\A t \in D : spc[t] = "asking" /\ granted[wants[t]] \in D) =>
      \A t \in D : ~StdFree(wants[t], asReader[t])
=============================================================================
