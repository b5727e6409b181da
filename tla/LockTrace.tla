------------------------------ MODULE LockTrace ------------------------------
(***************************************************************************)
(* What a consumer of AsyncLockHook may rely on: the stream of requested,  *)
(* acquired, released and waiter_dropped events of one resource, replayed  *)
(* on its own, is the history of a correct lock.  A waiter is requested at *)
(* most once, acquires or is dropped but not both, is released only after  *)
(* it acquired, and the waiters between acquired and released can be given *)
(* disjoint sets of the permits that exist.                                *)
(***************************************************************************)
CONSTANTS
  Waiter,   \* waiter ids carried by the events
  Permit    \* every permit there may ever be

VARIABLES
  status,   \* last event of a waiter
  grip,     \* permits of the waiters that are acquired and not released
  pool      \* permits that exist

vars == <<status, grip, pool>>

Init ==
  /\ status = [w \in Waiter |-> "none"]
  /\ grip = [w \in Waiter |-> {}]
  /\ pool \in SUBSET Permit

Requested(w) ==
  /\ status[w] = "none"
  /\ status' = [status EXCEPT ![w] = "requested"]
  /\ UNCHANGED <<grip, pool>>

\* The permits of a new holder are disjoint from those of every other one.
Acquired(w) ==
  /\ status[w] \in {"none", "requested"}
  /\ status' = [status EXCEPT ![w] = "acquired"]
  /\ \E S \in SUBSET pool :
       /\ \A v \in Waiter : S \cap grip[v] = {}
       /\ grip' = [grip EXCEPT ![w] = S]
  /\ UNCHANGED pool

Released(w) ==
  /\ status[w] = "acquired"
  /\ status' = [status EXCEPT ![w] = "released"]
  /\ grip' = [grip EXCEPT ![w] = {}]
  /\ UNCHANGED pool

WaiterDropped(w) ==
  /\ status[w] = "requested"
  /\ status' = [status EXCEPT ![w] = "dropped"]
  /\ UNCHANGED <<grip, pool>>

\* add_permits: the pool grows before the hook hears of it.
Grow ==
  /\ pool' \in SUBSET Permit
  /\ pool \subseteq pool'
  /\ UNCHANGED <<status, grip>>

Next ==
  \/ \E w \in Waiter : Requested(w) \/ Acquired(w) \/ Released(w) \/ WaiterDropped(w)
  \/ Grow

Spec == Init /\ [][Next]_vars
=============================================================================
