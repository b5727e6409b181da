----------------------------- MODULE VirtualTime -----------------------------
(***************************************************************************)
(* The time shadows of laplace-model-rt: sleep, timeout and interval, timed *)
(* by the clock of an installed AsyncTimerHook or by tokio.  Which of the  *)
(* two is decided at the first poll and kept, with the hook itself,        *)
(* whatever is installed or cleared later.                                 *)
(*                                                                         *)
(* A poll reads the hook slot, then the clock, then registers; the engine  *)
(* may advance the clock between these steps.                              *)
(***************************************************************************)
EXTENDS Integers

CONSTANTS
  Timer,      \* sleeps, timeouts and intervals
  Span,       \* durations asked for; some exceed MaxNanos
  MaxNanos,   \* stands for u64::MAX, where the arithmetic saturates
  MaxTicks    \* bound on the ticks of an interval

ASSUME NanosOK == MaxNanos \in Nat \ {0} /\ Span \subseteq Nat \ {0} /\ MaxTicks \in Nat \ {0}

VARIABLES
  timerHook,  \* ASYNC_TIMER_HOOK holds the engine's hook
  virtual,    \* the engine's clock
  wall,       \* tokio's clock
  sort,       \* sleep, timeout or interval
  span,       \* the duration or period asked for
  mode,       \* Unstarted, Hooked or Unhooked
  tpc,        \* where a poll of it is
  deadline,   \* deadline_nanos of a hooked one, tokio's of an unhooked one
  began,      \* the clock of its mode at its first poll
  ticks,      \* how often it resolved
  listed      \* the engine's list: the deadline registered for a timer, or -1

clocks    == <<timerHook, virtual, wall>>
timerVars == <<clocks, sort, span, mode, tpc, deadline, began, ticks, listed>>

Sorts == {"sleep", "timeout", "interval"}

TimerTypeOK ==
  /\ timerHook \in BOOLEAN /\ virtual \in 0..MaxNanos /\ wall \in 0..MaxNanos
  /\ sort \in [Timer -> Sorts] /\ span \in [Timer -> Span]
  /\ mode \in [Timer -> {"unstarted", "hooked", "unhooked"}]
  /\ tpc \in [Timer -> {"unused", "made", "checking", "registering", "pending",
                     "resting", "done", "gone"}]
  /\ deadline \in [Timer -> 0..MaxNanos] /\ began \in [Timer -> 0..MaxNanos]
  /\ ticks \in [Timer -> 0..MaxTicks] /\ listed \in [Timer -> -1..MaxNanos]

TimerInit ==
  /\ timerHook \in BOOLEAN /\ virtual = 0 /\ wall = 0
  /\ sort \in [Timer -> Sorts] /\ span \in [Timer -> Span]
  /\ mode = [t \in Timer |-> "unstarted"] /\ tpc = [t \in Timer |-> "unused"]
  /\ deadline = [t \in Timer |-> 0] /\ began = [t \in Timer |-> 0]
  /\ ticks = [t \in Timer |-> 0] /\ listed = [t \in Timer |-> -1]

TGoto(t, p) == tpc' = [tpc EXCEPT ![t] = p]

SaturatingAdd(a, b) == IF a + b > MaxNanos THEN MaxNanos ELSE a + b

\* duration_to_nanos_saturating.
ToNanos(d) == IF d > MaxNanos THEN MaxNanos ELSE d

\* The clock a timer goes by.
Clock(t) == IF mode[t] = "hooked" THEN virtual ELSE wall

-----------------------------------------------------------------------------
(* Faulty variants, used by no specification. *)

\* The deadline wraps around.
SaturatingAddWrapping(a, b) == (a + b) % (MaxNanos + 1)

\* A timer registers once: an interval's next deadline is never listed.
RegisterOnce(t) ==
  /\ tpc[t] = "registering"
  /\ listed' = [listed EXCEPT ![t] = IF ticks[t] = 0 THEN deadline[t] ELSE @]
  /\ TGoto(t, "pending")
  /\ UNCHANGED <<clocks, sort, span, mode, deadline, began, ticks>>

\* A cleared slot strands the timers that captured its hook.
RepollWithSlot(t) ==
  /\ tpc[t] = "pending" /\ mode[t] = "hooked" => timerHook
  /\ tpc[t] = "pending"
  /\ TGoto(t, "checking")
  /\ UNCHANGED <<clocks, sort, span, mode, deadline, began, ticks, listed>>

\* A dropped future stays on the engine's list.
DropTimerQuietly(t) ==
  /\ tpc[t] \in {"made", "pending", "resting", "done"}
  /\ listed' = listed
  /\ TGoto(t, "gone")
  /\ UNCHANGED <<clocks, sort, span, mode, deadline, began, ticks>>

-----------------------------------------------------------------------------
\* sleep(), timeout() and interval() decide nothing; a period is not zero.
NewTimer(t) ==
  /\ tpc[t] = "unused"
  /\ TGoto(t, "made")
  /\ UNCHANGED <<clocks, sort, span, mode, deadline, began, ticks, listed>>

\* Sleep::start and the start of poll_tick.
StartTimer(t) ==
  /\ tpc[t] = "made"
  /\ LET m   == IF timerHook THEN "hooked" ELSE "unhooked"
         now == IF timerHook THEN virtual ELSE wall
     IN /\ mode' = [mode EXCEPT ![t] = m]
        /\ began' = [began EXCEPT ![t] = now]
        /\ deadline' = [deadline EXCEPT ![t] =
             IF sort[t] = "interval" THEN now ELSE SaturatingAdd(now, ToNanos(span[t]))]
  /\ TGoto(t, "checking")
  /\ UNCHANGED <<clocks, sort, span, ticks, listed>>

\* Every later poll starts at the clock; tick() is called again, or is not.
Repoll(t) ==
  /\ tpc[t] = "pending"
  /\ TGoto(t, "checking")
  /\ UNCHANGED <<clocks, sort, span, mode, deadline, began, ticks, listed>>

TickAgain(t) ==
  /\ tpc[t] = "resting" /\ ticks[t] < MaxTicks
  /\ TGoto(t, "checking")
  /\ UNCHANGED <<clocks, sort, span, mode, deadline, began, ticks, listed>>

\* The deadline has come.  An interval goes on from the deadline it fired at.
Fire(t) ==
  /\ tpc[t] = "checking" /\ Clock(t) >= deadline[t]
  /\ ticks' = [ticks EXCEPT ![t] = @ + 1]
  /\ IF sort[t] = "interval"
     THEN /\ deadline' = [deadline EXCEPT ![t] = SaturatingAdd(@, ToNanos(span[t]))]
          /\ TGoto(t, "resting")
     ELSE UNCHANGED deadline /\ TGoto(t, "done")
  /\ UNCHANGED <<clocks, sort, span, mode, began, listed>>

\* It has not: a hooked timer is about to register.
Check(t) ==
  /\ tpc[t] = "checking" /\ Clock(t) < deadline[t]
  /\ TGoto(t, IF mode[t] = "hooked" THEN "registering" ELSE "pending")
  /\ UNCHANGED <<clocks, sort, span, mode, deadline, began, ticks, listed>>

Register(t) ==
  /\ tpc[t] = "registering"
  /\ listed' = [listed EXCEPT ![t] = deadline[t]]
  /\ TGoto(t, "pending")
  /\ UNCHANGED <<clocks, sort, span, mode, deadline, began, ticks>>

\* Timeout polls the wrapped future first: its value ends the timeout with
\* the delay where it is.
ValueFirst(t) ==
  /\ sort[t] = "timeout" /\ tpc[t] \in {"made", "pending"}
  /\ TGoto(t, "done")
  /\ UNCHANGED <<clocks, sort, span, mode, deadline, began, ticks, listed>>

\* Drop: an unresolved hooked Sleep is taken off the list, an Interval is not.
DropTimer(t) ==
  /\ tpc[t] \in {"made", "pending", "resting", "done"}
  /\ listed' = [listed EXCEPT ![t] =
       IF mode[t] = "hooked" /\ ticks[t] = 0 /\ sort[t] # "interval" THEN -1 ELSE @]
  /\ TGoto(t, "gone")
  /\ UNCHANGED <<clocks, sort, span, mode, deadline, began, ticks>>

\* install_async_timer_hook and clear_async_timer_hook.
SetTimerHook(on) ==
  /\ timerHook # on
  /\ timerHook' = on
  /\ UNCHANGED <<virtual, wall, sort, span, mode, tpc, deadline, began, ticks, listed>>

\* The engine moves its clock on, and drops the list entries that have come.
Advance ==
  /\ virtual < MaxNanos
  /\ virtual' = virtual + 1
  /\ listed' = [t \in Timer |-> IF listed[t] <= virtual + 1 THEN -1 ELSE listed[t]]
  /\ UNCHANGED <<timerHook, wall, sort, span, mode, tpc, deadline, began, ticks>>

Pass ==
  /\ wall < MaxNanos
  /\ wall' = wall + 1
  /\ UNCHANGED <<timerHook, virtual, sort, span, mode, tpc, deadline, began, ticks, listed>>

-----------------------------------------------------------------------------
Poll(t) == Repoll(t) \/ Fire(t) \/ Check(t) \/ Register(t)

TimerNext ==
  \/ \E t \in Timer : \/ NewTimer(t) \/ StartTimer(t) \/ Poll(t) \/ TickAgain(t)
                      \/ ValueFirst(t) \/ DropTimer(t)
  \/ \E on \in BOOLEAN : SetTimerHook(on)
  \/ Advance \/ Pass

\* The engine re-polls on its step schedule and tokio wakes its timers; both
\* clocks go on.
TimerFairness ==
  /\ \A t \in Timer : WF_timerVars(Poll(t))
  /\ WF_timerVars(Advance) /\ WF_timerVars(Pass)

TimerSpec == TimerInit /\ [][TimerNext]_timerVars

TimerFairSpec == TimerSpec /\ TimerFairness

-----------------------------------------------------------------------------
(* Properties. *)

\* No timer resolves before its time has passed on the clock it started with:
\* the k-th tick of an interval not before k - 1 periods, up to the end of time.
NeverEarly ==
  \A t \in Timer : tpc[t] \notin {"unused", "made"} /\ ticks[t] > 0 =>
    LET k == IF sort[t] = "interval" THEN ticks[t] - 1 ELSE 1
    IN Clock(t) >= SaturatingAdd(began[t], k * ToNanos(span[t]))

\* The engine waits for nobody who is gone: what it has listed for a sleep or
\* a timeout belongs to a future that is still there or to a deadline that came.
NoStaleTimer ==
  \A t \in Timer : listed[t] > virtual /\ sort[t] # "interval" => tpc[t] # "gone"

\* A pending hooked timer is listed for its deadline, or that has come: nothing
\* sleeps that the engine does not know of, hook cleared or not.
NobodyForgotten ==
  \A t \in Timer : tpc[t] = "pending" /\ mode[t] = "hooked" /\ virtual < deadline[t]
                     => listed[t] = deadline[t]

\* What the engine and the program rely on of virtual time.
TimersSound == TimerTypeOK /\ NeverEarly /\ NoStaleTimer /\ NobodyForgotten

\* A timer that is polled resolves or is dropped, on either clock and with the
\* hook slot cleared and filled in between.
SleepersWake == \A t \in Timer : tpc[t] = "checking" ~> tpc[t] \in {"resting", "done", "gone"}
=============================================================================
