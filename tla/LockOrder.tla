------------------------------ MODULE LockOrder ------------------------------
(***************************************************************************)
(* Tracked mutexes and rwlocks of laplace-probe-sdk and the public         *)
(* reference verifier that reads their events.  A tracked lock emits its   *)
(* acquired event after the real acquisition and its released event before *)
(* the real release; find_lock_order_cycle replays the events and reports  *)
(* the first pair of locks taken in both orders in modes that conflict.    *)
(*                                                                         *)
(* The locks are of tokio, std or parking_lot.  Only std poisons a lock    *)
(* when the thread that may write panics, and its wrapper panics on a      *)
(* poisoned lock before it emits anything.                                 *)
(***************************************************************************)
EXTENDS Integers, FiniteSets

CONSTANTS
  Locker,      \* logical thread ids
  Lock,        \* resource names
  SharedLock,  \* the ones that are rwlocks
  MaxAcquires, \* bound on acquisitions in one capture
  Flavours,    \* the crates whose locks are used
  NoOne

ASSUME FlavoursOK  == Flavours \subseteq {"tokio", "std", "parking_lot"}
ASSUME SharedLocks == SharedLock \subseteq Lock
ASSUME AcquiresNat == MaxAcquires \in Nat

Mode == {"x", "s"}
Conflict(a, b) == ~(a = "s" /\ b = "s")
Edge == [held : Lock, heldMode : Mode, acquired : Lock, mode : Mode]

VARIABLES
  flavour,   \* the crate the wrapped locks are from
  tainted,   \* std locks whose writer panicked
  guards,    \* guards[t][l][m]: live guards of t on the real lock l
  lpc, want, mode,   \* the call a thread is in
  acquires,  \* acquisitions so far
  shown,     \* shown[t][l][m]: acquired minus released events in the stream
  held,      \* held_by_thread: pairs of a lock and its mode
  edges,     \* order_edges
  bug,       \* the verifier returned a cycle
  order,     \* every order in which locks were really nested
  reentered  \* some thread took a lock it already had

real      == <<flavour, tainted, guards, lpc, want, mode, acquires>>
verifier  == <<held, edges, bug>>
ghost     == <<shown, order, reentered>>
orderVars == <<real, verifier, ghost>>

Holds(t, l, m) == guards[t][l][m] > 0

\* The real lock can be had: exclusively by one thread, or shared.
Free(l, m) == \A t \in Locker, n \in Mode : Holds(t, l, n) => ~Conflict(m, n)

Count(f, t, l, m, d) == [f EXCEPT ![t][l][m] = @ + d]

OrderTypeOK ==
  /\ flavour \in Flavours /\ tainted \subseteq Lock
  /\ guards \in [Locker -> [Lock -> [Mode -> 0..MaxAcquires]]]
  /\ lpc \in [Locker -> {"idle", "telling", "unlocking", "unwinding", "freeing"}]
  /\ want \in [Locker -> Lock \cup {NoOne}]
  /\ mode \in [Locker -> Mode]
  /\ acquires \in 0..MaxAcquires
  /\ shown \in [Locker -> [Lock -> [Mode -> 0..MaxAcquires]]]
  /\ held \in [Locker -> SUBSET (Lock \X Mode)]
  /\ edges \subseteq Edge /\ order \subseteq Edge
  /\ bug \in BOOLEAN /\ reentered \in BOOLEAN

OrderInit ==
  /\ flavour \in Flavours /\ tainted = {}
  /\ guards = [t \in Locker |-> [l \in Lock |-> [m \in Mode |-> 0]]]
  /\ lpc = [t \in Locker |-> "idle"]
  /\ want = [t \in Locker |-> NoOne]
  /\ mode = [t \in Locker |-> "x"]
  /\ acquires = 0
  /\ shown = guards
  /\ held = [t \in Locker |-> {}]
  /\ edges = {} /\ bug = FALSE
  /\ order = {} /\ reentered = FALSE

-----------------------------------------------------------------------------
(* Faulty variants, used only to show that the properties notice them. *)

\* Any two operations conflict.
ClosesCycleIgnoringModes(e) ==
  \E f \in edges : f.held = e.acquired /\ f.acquired = e.held

\* Edges are recorded only when the verifier knows no other edge of the lock.
NewEdgesFirstOnly(t, l, m) ==
  {e \in Edge : /\ <<e.held, e.heldMode>> \in held[t] /\ e.held # l
                /\ e.acquired = l /\ e.mode = m
                /\ \A f \in edges : f.held # e.held}

\* The acquired event is emitted before the lock is taken.
AcquireTellsFirst(t, l, m) ==
  /\ lpc[t] = "idle" /\ acquires < MaxAcquires
  /\ guards' = Count(guards, t, l, m, 1)
  /\ reentered' = (reentered \/ \E n \in Mode : Holds(t, l, n))
  /\ lpc' = [lpc EXCEPT ![t] = "telling"]
  /\ want' = [want EXCEPT ![t] = l] /\ mode' = [mode EXCEPT ![t] = m]
  /\ acquires' = acquires + 1
  /\ UNCHANGED <<flavour, tainted, verifier, shown, order>>

-----------------------------------------------------------------------------
\* The real acquisition.
Acquire(t, l, m) ==
  /\ lpc[t] = "idle" /\ acquires < MaxAcquires
  /\ Free(l, m)
  /\ guards' = Count(guards, t, l, m, 1)
  /\ reentered' = (reentered \/ \E n \in Mode : Holds(t, l, n))
  /\ lpc' = [lpc EXCEPT ![t] = "telling"]
  /\ want' = [want EXCEPT ![t] = l] /\ mode' = [mode EXCEPT ![t] = m]
  /\ acquires' = acquires + 1
  /\ UNCHANGED <<flavour, tainted, verifier, shown, order>>

\* TrackedMutex::lock.
LockMutex(t, l) == flavour # "std" /\ l \notin SharedLock /\ Acquire(t, l, "x")

\* TrackedStdMutex::lock.
LockStdMutex(t, l) ==
  flavour = "std" /\ l \notin SharedLock \cup tainted /\ Acquire(t, l, "x")

\* TrackedRwLock::read and write.
ReadWrite(t, l, m) == flavour = "tokio" /\ l \in SharedLock /\ Acquire(t, l, m)

\* TrackedStdRwLock::read and write.
ReadWriteStd(t, l, m) ==
  flavour = "std" /\ l \in SharedLock \ tainted /\ Acquire(t, l, m)

\* TrackedParkingLotRwLock::read and write, and try_read and try_write: what
\* cannot be had is not waited for, and nothing is emitted.
ReadWriteParkingLot(t, l, m) ==
  flavour = "parking_lot" /\ l \in SharedLock /\ Acquire(t, l, m)

\* The unwrap of a poisoned std lock panics: the guard in the error is dropped.
MeetPoison(t, l, m) ==
  /\ lpc[t] = "idle" /\ l \in tainted /\ (m = "s" => l \in SharedLock)
  /\ Free(l, m)
  /\ lpc' = [lpc EXCEPT ![t] = "unwinding"]
  /\ UNCHANGED <<flavour, tainted, guards, want, mode, acquires, verifier, ghost>>

\* The edges an acquisition adds: one from every other lock held.
NewEdges(t, l, m) ==
  {e \in Edge : /\ <<e.held, e.heldMode>> \in held[t] /\ e.held # l
                /\ e.acquired = l /\ e.mode = m}

\* An edge is the second half of a cycle: the reverse edge is known and both
\* waits block.
ClosesCycle(e) ==
  \E f \in edges : /\ f.held = e.acquired /\ f.acquired = e.held
                   /\ Conflict(e.mode, f.heldMode)
                   /\ Conflict(f.mode, e.heldMode)

\* The acquired event reaches the stream, and the verifier.
EmitAcquired(t) ==
  /\ lpc[t] = "telling"
  /\ LET l == want[t]
         m == mode[t]
         new == NewEdges(t, l, m) IN
       /\ shown' = Count(shown, t, l, m, 1)
       /\ order' = order \cup {e \in Edge : /\ Holds(t, e.held, e.heldMode) /\ e.held # l
                                            /\ e.acquired = l /\ e.mode = m}
       /\ bug' = (\E e \in new : ClosesCycle(e))
       /\ edges' = edges \cup new
       /\ held' = IF \E n \in Mode : <<l, n>> \in held[t]
                  THEN held ELSE [held EXCEPT ![t] = @ \cup {<<l, m>>}]
  /\ lpc' = [lpc EXCEPT ![t] = "idle"]
  /\ UNCHANGED <<flavour, tainted, guards, want, mode, acquires, reentered>>

\* Drop of a guard: the released event first; the verifier forgets the lock,
\* in whatever mode and however often the thread holds it.
EmitReleased(t, l, m) ==
  /\ lpc[t] \in {"idle", "unwinding"} /\ Holds(t, l, m)
  /\ shown' = Count(shown, t, l, m, -1)
  /\ held' = [held EXCEPT ![t] = {h \in @ : h[1] # l}]
  /\ tainted' = IF lpc[t] = "unwinding" /\ flavour = "std" /\ m = "x"
                 THEN tainted \cup {l} ELSE tainted
  /\ lpc' = [lpc EXCEPT ![t] = IF @ = "idle" THEN "unlocking" ELSE "freeing"]
  /\ want' = [want EXCEPT ![t] = l] /\ mode' = [mode EXCEPT ![t] = m]
  /\ UNCHANGED <<flavour, guards, acquires, edges, bug, order, reentered>>

\* Then the real guard is dropped, and the next one of an unwinding thread.
Unlock(t) ==
  /\ lpc[t] \in {"unlocking", "freeing"}
  /\ guards' = Count(guards, t, want[t], mode[t], -1)
  /\ lpc' = [lpc EXCEPT ![t] = IF @ = "unlocking" THEN "idle" ELSE "unwinding"]
  /\ UNCHANGED <<flavour, tainted, want, mode, acquires, verifier, ghost>>

\* The program panics with whatever guards it has.
LockerPanics(t) ==
  /\ lpc[t] = "idle"
  /\ lpc' = [lpc EXCEPT ![t] = "unwinding"]
  /\ UNCHANGED <<flavour, tainted, guards, want, mode, acquires, verifier, ghost>>

\* The verifier returns at the first cycle.
OrderNext ==
  /\ ~bug
  /\ \E t \in Locker :
       \/ EmitAcquired(t) \/ Unlock(t) \/ LockerPanics(t)
       \/ \E l \in Lock : LockMutex(t, l) \/ LockStdMutex(t, l)
       \/ \E l \in Lock, m \in Mode :
            \/ ReadWrite(t, l, m) \/ ReadWriteStd(t, l, m) \/ ReadWriteParkingLot(t, l, m)
            \/ MeetPoison(t, l, m) \/ EmitReleased(t, l, m)

OrderSpec == OrderInit /\ [][OrderNext]_orderVars

-----------------------------------------------------------------------------
\* Two locks were really nested in both orders, in modes that can block.
TwoCycle ==
  \E e, f \in order : /\ f.held = e.acquired /\ f.acquired = e.held
                      /\ Conflict(e.mode, f.heldMode) /\ Conflict(f.mode, e.heldMode)

\* BugFound is never a false alarm about the order of locks.
AlarmIsCycle == bug => TwoCycle

\* A cycle of two locks is never missed, unless a thread held a lock twice
\* (the verifier drops both holds at the first release).
FindsTwoCycles == ~bug /\ ~reentered => ~TwoCycle

\* The event stream of a tracked lock is the history of a lock: an exclusive
\* holder in the stream is alone in the stream.
StreamExclusive ==
  \A l \in Lock, t, u \in Locker, m \in Mode :
    t # u /\ shown[t][l]["x"] > 0 => shown[u][l][m] = 0

\* What a verdict of the reference verifier is worth.
VerifierSound == OrderTypeOK /\ StreamExclusive /\ AlarmIsCycle /\ FindsTwoCycles
=============================================================================
