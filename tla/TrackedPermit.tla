---------------------------- MODULE TrackedPermit ----------------------------
(***************************************************************************)
(* TrackedSemaphore of laplace-probe-sdk: calls of acquire wait for a      *)
(* permit of the tokio semaphore, tell SemaphoreAcquired, and tell         *)
(* SemaphoreReleased when the permit is dropped.  The probe is told by     *)
(* steps of its own, between which other calls run.                        *)
(***************************************************************************)
EXTENDS Integers, FiniteSets

CONSTANTS
  PermitCall,   \* calls of acquire
  Caller,       \* the ids current_thread_id may read
  Permits       \* initial permits

ASSUME PermitsNat == Permits \in Nat /\ IsFiniteSet(PermitCall)

VARIABLES
  callAt,      \* where a call is
  callId,      \* thread_id of the call, later of its permit
  available,   \* permits of the real semaphore
  announced   \* calls the event stream shows as holders, with the id it gave them

permitVars == <<callAt, callId, available, announced>>

PermitTypeOK ==
  /\ callAt \in [PermitCall -> {"idle", "waiting", "granted", "held", "told", "dropped", "gone"}]
  /\ callId \in [PermitCall -> Caller]
  /\ available \in 0..Permits
  /\ announced \subseteq PermitCall \X Caller

PermitInit ==
  /\ callAt = [c \in PermitCall |-> "idle"] /\ callId \in [PermitCall -> Caller]
  /\ available = Permits /\ announced = {}

To(c, from, to) == callAt[c] = from /\ callAt' = [callAt EXCEPT ![c] = to]

-----------------------------------------------------------------------------
\* Faulty variant: the release is told with the id of the thread that drops.
TellReleasedByDropper(c) ==
  /\ To(c, "held", "told")
  /\ \E d \in Caller : announced' = announced \ {<<c, d>>}
  /\ UNCHANGED <<callId, available>>

\* Faulty variant: the permit is back before its release is told.
ReturnPermitFirst(c) ==
  /\ \/ To(c, "held", "dropped") /\ available' = available + 1 /\ UNCHANGED announced
     \/ To(c, "dropped", "gone") /\ announced' = announced \ {<<c, callId[c]>>} /\ UNCHANGED available
  /\ UNCHANGED callId

-----------------------------------------------------------------------------
\* acquire reads the thread id before it awaits.
AcquirePermit(c) ==
  /\ To(c, "idle", "waiting")
  /\ \E i \in Caller : callId' = [callId EXCEPT ![c] = i]
  /\ UNCHANGED <<available, announced>>

\* The await of acquire_owned is over; the semaphore is never closed.
GrantPermit(c) ==
  /\ available > 0 /\ available' = available - 1
  /\ To(c, "waiting", "granted")
  /\ UNCHANGED <<callId, announced>>

\* A call whose future is dropped while it waits leaves no event.
CancelAcquire(c) ==
  /\ To(c, "waiting", "gone")
  /\ UNCHANGED <<callId, available, announced>>

TellAcquired(c) ==
  /\ To(c, "granted", "held")
  /\ announced' = announced \cup {<<c, callId[c]>>}
  /\ UNCHANGED <<callId, available>>

\* TrackedSemaphorePermit::drop tells first, with the id kept in the permit...
TellReleased(c) ==
  /\ To(c, "held", "told")
  /\ announced' = announced \ {<<c, callId[c]>>}
  /\ UNCHANGED <<callId, available>>

\* ...then its field, the real permit, is dropped.
ReturnPermit(c) ==
  /\ To(c, "told", "gone") /\ available' = available + 1
  /\ UNCHANGED <<callId, announced>>

PermitNext == \E c \in PermitCall :
  \/ AcquirePermit(c) \/ GrantPermit(c) \/ CancelAcquire(c)
  \/ TellAcquired(c) \/ TellReleased(c) \/ ReturnPermit(c)

PermitSpec == PermitInit /\ [][PermitNext]_permitVars

-----------------------------------------------------------------------------
\* Permits are conserved.
TrackedConserved ==
  available + Cardinality({c \in PermitCall : callAt[c] \in {"granted", "held", "told"}}) = Permits

\* Whatever the order of the tellers, the event stream never shows more
\* holders than there are permits, and shows no call after its permit is
\* back (tracked_semaphore.rs: acquire emits after, drop before).
PermitStreamSound ==
  /\ Cardinality(announced) <= Permits
  /\ \A c \in PermitCall : callAt[c] \in {"told", "gone"} => \A i \in Caller : <<c, i>> \notin announced

\* What the tracked semaphore tells is true of the real one.
PermitsSound == PermitTypeOK /\ TrackedConserved /\ PermitStreamSound
===============================================================================
