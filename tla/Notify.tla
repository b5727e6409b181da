------------------------------- MODULE Notify -------------------------------
(***************************************************************************)
(* ModelAsyncNotify: a real tokio Notify and the events reported to        *)
(* AsyncNotifyHook.  A notification is reported before it happens, a wait  *)
(* after it queued or ended, a cancellation before the real future is      *)
(* dropped and hands its notification on.                                  *)
(***************************************************************************)
EXTENDS Integers, Sequences, FiniteSets

CONSTANTS
  Waiter,         \* calls of notified()
  Notifier,       \* threads that notify
  MaxNotifies     \* bound on notify_one and notify_waiters calls

ASSUME NotifyBounds == MaxNotifies \in Nat /\ IsFiniteSet(Waiter) /\ IsFiniteSet(Notifier)

VARIABLES
  permit,     \* tokio's NOTIFIED state: one stored permit
  line,       \* waiters in tokio's list, the oldest first
  rounds,     \* notify_waiters_calls
  round,      \* rounds when the waiter's future was made
  woken,      \* what the waiter was notified by
  wpc,        \* where a notified() future is
  nowpc,      \* what a notifier has reported and not done yet
  obsWait,    \* last event of a waiter
  obsOnes,    \* notify_one events
  obsAlls     \* notify_waiters events

notifyReal == <<permit, line, rounds>>
notifyVars == <<notifyReal, round, woken, wpc, nowpc, obsWait, obsOnes, obsAlls>>

NotifyTypeOK ==
  /\ permit \in BOOLEAN /\ line \in Seq(Waiter) /\ rounds \in 0..MaxNotifies
  /\ round \in [Waiter -> 0..MaxNotifies]
  /\ woken \in [Waiter -> {"no", "one", "all"}]
  /\ wpc \in [Waiter -> {"unused", "made", "queued", "waiting", "ready", "cancelling", "done"}]
  /\ nowpc \in [Notifier -> {"idle", "one", "all"}]
  /\ obsWait \in [Waiter -> {"none", "requested", "resolved", "dropped"}]
  /\ obsOnes \in 0..MaxNotifies /\ obsAlls \in 0..MaxNotifies

NotifyInit ==
  /\ permit = FALSE /\ line = << >> /\ rounds = 0
  /\ round = [w \in Waiter |-> 0]
  /\ woken = [w \in Waiter |-> "no"]
  /\ wpc = [w \in Waiter |-> "unused"]
  /\ nowpc = [n \in Notifier |-> "idle"]
  /\ obsWait = [w \in Waiter |-> "none"]
  /\ obsOnes = 0 /\ obsAlls = 0

WGoto(w, p) == wpc' = [wpc EXCEPT ![w] = p]

-----------------------------------------------------------------------------
(* tokio's Notify. *)

\* notify_one: the oldest waiter, or the permit, given the list q.
WakeOne(q, got) ==
  IF q = << >>
  THEN permit' = TRUE /\ line' = q /\ woken' = got
  ELSE /\ permit' = permit /\ line' = Tail(q)
       /\ woken' = [got EXCEPT ![Head(q)] = "one"]

\* notify_waiters: everyone in the list, and everyone whose future exists.
WakeAll ==
  /\ rounds' = rounds + 1
  /\ line' = << >>
  /\ woken' = [w \in Waiter |-> IF \E i \in 1..Len(line) : line[i] = w THEN "all" ELSE woken[w]]
  /\ permit' = permit

\* The list when the node of w is unlinked, if it is in there.
Without(w) ==
  IF \E i \in 1..Len(line) : line[i] = w
  THEN LET i == CHOOSE j \in 1..Len(line) : line[j] = w
       IN SubSeq(line, 1, i - 1) \o SubSeq(line, i + 1, Len(line))
  ELSE line

\* Drop of the real future: it leaves the list, and a notification it got from
\* notify_one and never used goes to the next.
Unlink(w) ==
  LET others == Without(w)
  IN IF woken[w] = "one" THEN WakeOne(others, [woken EXCEPT ![w] = "no"])
                         ELSE line' = others /\ UNCHANGED <<permit, woken>>

-----------------------------------------------------------------------------
(* Faulty variants, used by no specification. *)

\* notify_one is forwarded without its event.
NotifyOneUnreported(n) ==
  /\ nowpc[n] = "idle" /\ obsOnes + obsAlls < MaxNotifies
  /\ nowpc' = [nowpc EXCEPT ![n] = "one"]
  /\ UNCHANGED <<notifyReal, round, woken, wpc, obsWait, obsOnes, obsAlls>>

-----------------------------------------------------------------------------
\* notified() takes the round and a waiter id, and queues nothing.
Notified(w) ==
  /\ wpc[w] = "unused"
  /\ round' = [round EXCEPT ![w] = rounds]
  /\ WGoto(w, "made")
  /\ UNCHANGED <<notifyReal, woken, nowpc, obsWait, obsOnes, obsAlls>>

\* First poll: a notify_waiters since, the permit, or a place in the list.
FirstPoll(w) ==
  /\ wpc[w] = "made"
  /\ \/ /\ rounds # round[w]
        /\ woken' = [woken EXCEPT ![w] = "all"]
        /\ WGoto(w, "ready") /\ UNCHANGED <<permit, line>>
     \/ /\ rounds = round[w] /\ permit
        /\ permit' = FALSE /\ woken' = [woken EXCEPT ![w] = "one"]
        /\ WGoto(w, "ready") /\ UNCHANGED line
     \/ /\ rounds = round[w] /\ ~permit
        /\ line' = Append(line, w)
        /\ WGoto(w, "queued") /\ UNCHANGED <<permit, woken>>
  /\ UNCHANGED <<rounds, round, nowpc, obsWait, obsOnes, obsAlls>>

ReportWaiting(w) ==
  /\ wpc[w] = "queued"
  /\ obsWait' = [obsWait EXCEPT ![w] = "requested"]
  /\ WGoto(w, "waiting")
  /\ UNCHANGED <<notifyReal, round, woken, nowpc, obsOnes, obsAlls>>

NextPoll(w) ==
  /\ wpc[w] = "waiting" /\ woken[w] # "no"
  /\ WGoto(w, "ready")
  /\ UNCHANGED <<notifyReal, round, woken, nowpc, obsWait, obsOnes, obsAlls>>

ReportWoken(w) ==
  /\ wpc[w] = "ready"
  /\ obsWait' = [obsWait EXCEPT ![w] = "resolved"]
  /\ WGoto(w, "done")
  /\ UNCHANGED <<notifyReal, round, woken, nowpc, obsOnes, obsAlls>>

\* Drop of ModelNotified: waiter_dropped if it was reported waiting.
DropNotified(w) ==
  /\ wpc[w] \in {"made", "waiting"}
  /\ obsWait' = [obsWait EXCEPT ![w] = IF wpc[w] = "waiting" THEN "dropped" ELSE @]
  /\ WGoto(w, IF wpc[w] = "waiting" THEN "cancelling" ELSE "done")
  /\ UNCHANGED <<notifyReal, round, woken, nowpc, obsOnes, obsAlls>>

DropNotifiedInner(w) ==
  /\ wpc[w] = "cancelling"
  /\ Unlink(w)
  /\ WGoto(w, "done")
  /\ UNCHANGED <<rounds, round, nowpc, obsWait, obsOnes, obsAlls>>

NotifyOne(n) ==
  /\ nowpc[n] = "idle" /\ obsOnes + obsAlls < MaxNotifies
  /\ obsOnes' = obsOnes + 1
  /\ nowpc' = [nowpc EXCEPT ![n] = "one"]
  /\ UNCHANGED <<notifyReal, round, woken, wpc, obsWait, obsAlls>>

NotifyWaiters(n) ==
  /\ nowpc[n] = "idle" /\ obsOnes + obsAlls < MaxNotifies
  /\ obsAlls' = obsAlls + 1
  /\ nowpc' = [nowpc EXCEPT ![n] = "all"]
  /\ UNCHANGED <<notifyReal, round, woken, wpc, obsWait, obsOnes>>

Forward(n) ==
  /\ \/ nowpc[n] = "one" /\ WakeOne(line, woken) /\ UNCHANGED rounds
     \/ nowpc[n] = "all" /\ WakeAll
  /\ nowpc' = [nowpc EXCEPT ![n] = "idle"]
  /\ UNCHANGED <<round, wpc, obsWait, obsOnes, obsAlls>>

-----------------------------------------------------------------------------
WaiterStep(w) ==
  \/ Notified(w) \/ FirstPoll(w) \/ ReportWaiting(w) \/ NextPoll(w)
  \/ ReportWoken(w) \/ DropNotified(w) \/ DropNotifiedInner(w)

NotifyNext ==
  \/ \E w \in Waiter : WaiterStep(w)
  \/ \E n \in Notifier : NotifyOne(n) \/ NotifyWaiters(n) \/ Forward(n)

NotifySpec == NotifyInit /\ [][NotifyNext]_notifyVars

-----------------------------------------------------------------------------
(* Properties. *)

ByOne == {w \in Waiter : obsWait[w] = "resolved" /\ woken[w] = "one"}

\* A consumer never sees a wait end that no earlier event accounts for: one
\* notify_one per waiter that ended by one, also when a cancelled waiter hands
\* its notification on, and for the rest a notify_waiters that took effect
\* after the waiter's future was made.
WakesExplained ==
  /\ NotifyTypeOK
  /\ Cardinality(ByOne) <= obsOnes
  /\ \A w \in Waiter : obsWait[w] = "resolved" /\ woken[w] = "all" => obsAlls > round[w]
=============================================================================
