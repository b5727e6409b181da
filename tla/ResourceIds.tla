----------------------------- MODULE ResourceIds -----------------------------
(***************************************************************************)
(* Resource ids of the async model family: a process-wide counter, eager   *)
(* ids taken by the constructors, lazy ids (const_new, for statics) taken  *)
(* by the first get, possibly by several threads at once, and the engine's *)
(* reset between two executions of a model.                                *)
(***************************************************************************)
EXTENDS Integers, FiniteSets

CONSTANTS
  Thread,     \* callers
  Eager,      \* resources built by new
  Lazy,       \* resources built by const_new; they outlive a reset
  MaxId,      \* stands for u64::MAX
  MaxResets,  \* bound on calls of reset_model_async_ids_for_model
  None        \* no resource

Resource == Eager \cup Lazy
Unassigned == 0

ASSUME IdsExist     == MaxId \in Nat \ {0}
ASSUME ResetsBounded == MaxResets \in Nat
ASSUME Disjoint     == Eager \cap Lazy = {} /\ None \notin Resource

VARIABLES
  counter,   \* NEXT_ASYNC_LOCK_RESOURCE_ID
  cell,      \* AsyncResourceId.0 of each resource
  pc,        \* where a call of get is
  target,    \* the resource of that call
  mine,      \* the id the call allocated
  answers,   \* ids get has returned for a resource
  resets

vars == <<counter, cell, pc, target, mine, answers, resets>>

TypeOK ==
  /\ counter \in 1..MaxId
  /\ cell \in [Resource -> 0..MaxId]
  /\ pc \in [Thread -> {"idle", "allocating", "swapping", "panicked"}]
  /\ target \in [Thread -> Resource \cup {None}]
  /\ mine \in [Thread -> 0..MaxId]
  /\ answers \in [Resource -> SUBSET (1..MaxId)]
  /\ resets \in 0..MaxResets

Init ==
  /\ counter = 1
  /\ cell = [r \in Resource |-> Unassigned]
  /\ pc = [t \in Thread |-> "idle"]
  /\ target = [t \in Thread |-> None]
  /\ mine = [t \in Thread |-> 0]
  /\ answers = [r \in Resource |-> {}]
  /\ resets = 0

Answer(r, id) == answers' = [answers EXCEPT ![r] = @ \cup {id}]

-----------------------------------------------------------------------------
(* Faulty variants, used only to show that the properties notice them. *)

\* The counter wraps around instead of failing.
AllocateWrapping(t) ==
  /\ pc[t] = "allocating"
  /\ mine' = [mine EXCEPT ![t] = counter]
  /\ counter' = IF counter = MaxId THEN 1 ELSE counter + 1
  /\ pc' = [pc EXCEPT ![t] = "swapping"]
  /\ UNCHANGED <<cell, target, answers, resets>>

\* The overflow check is missing.
NewUnchecked(r) ==
  /\ cell[r] = Unassigned
  /\ cell' = [cell EXCEPT ![r] = counter]
  /\ counter' = counter + 1
  /\ Answer(r, counter)
  /\ UNCHANGED <<pc, target, mine, resets>>

\* The loser of the race returns the id it allocated.
SwapLoserKeepsOwn(t) ==
  /\ pc[t] = "swapping"
  /\ LET r == target[t] IN
       /\ cell' = IF cell[r] = Unassigned THEN [cell EXCEPT ![r] = mine[t]] ELSE cell
       /\ Answer(r, mine[t])
  /\ pc' = [pc EXCEPT ![t] = "idle"]
  /\ UNCHANGED <<counter, target, mine, resets>>

-----------------------------------------------------------------------------
\* AsyncResourceId::new_eager: fetch_update of the counter, fail-closed.
NewEager(r) ==
  /\ cell[r] = Unassigned
  /\ counter < MaxId
  /\ cell' = [cell EXCEPT ![r] = counter]
  /\ counter' = counter + 1
  /\ Answer(r, counter)
  /\ UNCHANGED <<pc, target, mine, resets>>

\* AsyncResourceId::get, the load: an assigned id is returned at once.
Get(t, r) ==
  /\ pc[t] = "idle"
  /\ IF cell[r] = Unassigned
     THEN /\ pc' = [pc EXCEPT ![t] = "allocating"]
          /\ target' = [target EXCEPT ![t] = r]
          /\ UNCHANGED answers
     ELSE /\ Answer(r, cell[r])
          /\ UNCHANGED <<pc, target>>
  /\ UNCHANGED <<counter, cell, mine, resets>>

\* next_async_lock_resource_id of a lazy get.
Allocate(t) ==
  /\ pc[t] = "allocating"
  /\ counter < MaxId
  /\ mine' = [mine EXCEPT ![t] = counter]
  /\ counter' = counter + 1
  /\ pc' = [pc EXCEPT ![t] = "swapping"]
  /\ UNCHANGED <<cell, target, answers, resets>>

\* checked_add refuses the last id: the namespace is exhausted, panic.
Exhausted(t) ==
  /\ pc[t] = "allocating"
  /\ counter = MaxId
  /\ pc' = [pc EXCEPT ![t] = "panicked"]
  /\ UNCHANGED <<counter, cell, target, mine, answers, resets>>

\* compare_exchange(0, allocated): the loser adopts the winner's id.
Swap(t) ==
  /\ pc[t] = "swapping"
  /\ LET r == target[t]
         id == IF cell[r] = Unassigned THEN mine[t] ELSE cell[r] IN
       /\ cell' = [cell EXCEPT ![r] = id]
       /\ Answer(r, id)
  /\ pc' = [pc EXCEPT ![t] = "idle"]
  /\ UNCHANGED <<counter, target, mine, resets>>

\* reset_model_async_ids_for_model, between two executions: the resources
\* of the old one are gone, those in statics stay.
Reset ==
  /\ resets < MaxResets
  /\ \A t \in Thread : pc[t] = "idle"
  /\ resets' = resets + 1
  /\ counter' = 1
  /\ cell' = [r \in Resource |-> IF r \in Lazy THEN cell[r] ELSE Unassigned]
  /\ answers' = [r \in Resource |-> IF r \in Lazy THEN answers[r] ELSE {}]
  /\ UNCHANGED <<pc, target, mine>>

Next ==
  \/ \E r \in Eager : NewEager(r)
  \/ \E t \in Thread : Allocate(t) \/ Exhausted(t) \/ Swap(t)
  \/ \E t \in Thread, r \in Resource :
       /\ r \in Eager => cell[r] # Unassigned
       /\ Get(t, r)
  \/ Reset

Spec == Init /\ [][Next]_vars

-----------------------------------------------------------------------------
\* Concurrent first calls of get on one resource agree on its id: nobody
\* ever gets two ids for the same resource (the race get's comment calls
\* harmless).
OneIdPerResource ==
  \A r \in Resource : \A i, j \in answers[r] : i = j

\* As long as the counter is not reset, ids are unique, up to and including
\* the exhaustion of the namespace.
DistinctIds ==
  resets = 0 =>
    \A r, s \in Resource : r # s /\ cell[r] # Unassigned => cell[r] # cell[s]

\* What the hooks' consumers rely on when they key their state by id.
IdsSound == TypeOK /\ OneIdPerResource /\ DistinctIds

\* The inductive invariant behind the two properties: ids are below the
\* counter and every id is in one place.
IdInv ==
  /\ \A r \in Resource : /\ answers[r] \subseteq {cell[r]}
                         /\ cell[r] = Unassigned => answers[r] = {}
  /\ \A t \in Thread : pc[t] = "swapping" => mine[t] # 0 /\ target[t] \in Resource
  /\ \A t \in Thread : pc[t] = "allocating" => target[t] \in Resource
  /\ resets = 0 =>
       /\ \A r \in Resource : cell[r] < counter
       /\ \A t \in Thread : pc[t] = "swapping" => mine[t] < counter
       /\ \A r, s \in Resource : r # s /\ cell[r] # Unassigned => cell[r] # cell[s]
       /\ \A t, u \in Thread : t # u /\ pc[t] = "swapping" /\ pc[u] = "swapping"
                                 => mine[t] # mine[u]
       /\ \A t \in Thread, r \in Resource : pc[t] = "swapping" => mine[t] # cell[r]

IInv == TypeOK /\ IdInv
=============================================================================
