------------------------------- MODULE Kraken -------------------------------
(***************************************************************************)
(* laplace-interfaces domain::kraken: what a load-test scenario must be to *)
(* be accepted, the chaos a schedule of events puts on the virtual users   *)
(* as time passes, and how many of them a ramp-up profile asks for.  The   *)
(* driver that adds events, advances the clock and injects users is        *)
(* outside this repository.                                                *)
(***************************************************************************)
EXTENDS Integers, Sequences, FiniteSets, SequencesExt

CONSTANTS
  ScenarioSteps,  \* steps a scenario is made of
  MaxSteps,       \* bound on steps of a scenario
  ChaosEvents,    \* events a schedule is made of
  Profiles,       \* ramp-up profiles
  UserIds,        \* ids of virtual users, numbers
  MaxChaos,       \* bound on events of a schedule
  MaxMillis,      \* bound on the clock
  Tick,           \* how far the clock moves, in milliseconds
  Word,           \* how many values a usize and a u64 have
  RoundedUp,      \* <<elapsed, target, duration>> whose exact product f64 leaves too large
  NaN

ASSUME KrakenBounds ==
  /\ MaxSteps \in Nat /\ UserIds \subseteq Nat /\ MaxChaos \in Nat /\ MaxMillis \in Nat
  /\ Tick \in Nat \ {0} /\ Word \in Nat \ {0} /\ NaN \notin Int

\* The fields the code reads have the types of the Rust structs.
ASSUME KrakenInputs ==
  /\ \A s \in ScenarioSteps :
       /\ s.kind = "Uniform" => s.min \in Nat /\ s.max \in Nat
       /\ s.kind = "Branch" => s.choices \in Seq(Int \cup {NaN})
  /\ \A ev \in ChaosEvents : ev.kind = "LatencySpike" => ev.extra \in Nat
  /\ \A p \in Profiles :
       \/ p.kind = "Linear" /\ p.target \in 0..(Word - 1) /\ p.secs \in 0..(Word - 1)
       \/ /\ p.kind = "Step" /\ p.start \in 0..(Word - 1)
          /\ p.size \in 0..(Word - 1) /\ p.secs \in 0..(Word - 1)
       \/ p.kind = "Instant" /\ p.target \in 0..(Word - 1)

VARIABLES
  scenario,  \* the steps given to Scenario::new
  accepted,  \* what it answered
  schedule,  \* ChaosSchedule.events
  profile,   \* RampUpProfile
  millis,    \* time since the ramp-up began
  injected   \* virtual users the driver has injected

krakenVars == <<scenario, accepted, schedule, profile, millis, injected>>

-----------------------------------------------------------------------------
(* Scenarios.  Probabilities are in thousandths. *)

\* A comparison with NaN is false.
Below(x, y) == x # NaN /\ y # NaN /\ x < y

SumOf(choices) ==
  IF NaN \in {choices[i] : i \in DOMAIN choices} THEN NaN
  ELSE FoldLeft(LAMBDA a, p : a + p, 0, choices)

\* Faulty variant: the sum alone is checked.
ValidateSumOnly(step) ==
  CASE step.kind = "Think"  -> ~Below(step.mean, 0) /\ ~Below(step.std_dev, 0)
    [] step.kind = "Uniform" -> step.min <= step.max
    [] step.kind = "Branch" -> /\ step.choices # << >>
                               /\ ~(Below(SumOf(step.choices), 999) \/ Below(1001, SumOf(step.choices)))
    [] step.kind = "RetryOnError" -> step.max_retries > 0
    [] step.kind = "Loop"   -> step.iterations > 0
    [] OTHER -> TRUE

\* ScenarioStep::validate; a NaN sum passes the second test of Branch and
\* fails the third.
Validate(step) ==
  CASE step.kind = "Think"  -> ~Below(step.mean, 0) /\ ~Below(step.std_dev, 0)
    [] step.kind = "Uniform" -> step.min <= step.max
    [] step.kind = "Branch" ->
         /\ step.choices # << >>
         /\ ~(Below(SumOf(step.choices), 999) \/ Below(1001, SumOf(step.choices)))
         /\ \A i \in DOMAIN step.choices : LET p == step.choices[i] IN
              p # NaN /\ ~Below(p, 0) /\ ~Below(1000, p)
    [] step.kind = "RetryOnError" -> step.max_retries > 0
    [] step.kind = "Loop"   -> step.iterations > 0
    [] OTHER -> TRUE

\* Scenario::new: every step is validated on its own.
Accepts(steps) == \A i \in DOMAIN steps : Validate(steps[i])

\* step_at, as a set with at most one member.
StepAt(steps, i) == IF i + 1 \in DOMAIN steps THEN {steps[i + 1]} ELSE {}

-----------------------------------------------------------------------------
(* Chaos. *)

IsActiveAtMs(ev, ms) == ev.start_ms <= ms /\ ms < ev.end_ms

\* affects_vu_id: only partitions have a range of targets.
AffectsVuId(ev, vu) == ev.kind = "NetworkPartition" /\ ev.first <= vu /\ vu < ev.end

\* Faulty variant: a partition hits everyone.
GetActiveEventsOfAll(evs, ms, vu) ==
  FoldLeft(LAMBDA kept, ev : IF IsActiveAtMs(ev, ms) THEN Append(kept, ev) ELSE kept, << >>, evs)

GetActiveEvents(evs, ms, vu) ==
  FoldLeft(LAMBDA kept, ev : IF /\ IsActiveAtMs(ev, ms)
                                /\ ev.kind = "NetworkPartition" => AffectsVuId(ev, vu)
                             THEN Append(kept, ev) ELSE kept, << >>, evs)

IsPartitioned(evs, ms, vu) == \E i \in DOMAIN evs :
  evs[i].kind = "NetworkPartition" /\ IsActiveAtMs(evs[i], ms) /\ AffectsVuId(evs[i], vu)

TotalExtraLatencyMs(evs, ms) ==
  FoldLeft(LAMBDA sum, ev : IF ev.kind = "LatencySpike" /\ IsActiveAtMs(ev, ms)
                            THEN sum + ev.extra ELSE sum, 0, evs)

-----------------------------------------------------------------------------
(* Ramp-up. *)

\* ceil(elapsed / duration * target) in f64: an exact product may come out just
\* above the whole number it is, and is then rounded up once too often.
LinearVus(target, duration, ms) ==
  CASE ms >= duration -> target
    [] ms < duration /\ (ms = 0 \/ target = 0) -> 0
    [] OTHER -> (ms * target + duration
                 - (IF <<ms, target, duration>> \in RoundedUp THEN 0 ELSE 1)) \div duration

\* floor(elapsed / step) as u64: of steps that take no time the quotient is NaN,
\* cast to 0, at the start and infinite, cast to u64::MAX, ever after.
StepIndex(p, ms) ==
  CASE p.secs > 0 -> ms \div (1000 * p.secs)
    [] p.secs = 0 /\ ms = 0 -> 0
    [] OTHER -> Word - 1

\* Faulty variant: the staircase starts one step high.
TargetVusAtNextStep(p, ms) ==
  CASE p.kind = "Linear" -> LinearVus(p.target, 1000 * p.secs, ms)
    [] p.kind = "Step" -> (p.start + (StepIndex(p, ms) + 1) * p.size) % Word
    [] p.kind = "Instant" -> p.target

\* target_vus_at of a release build; a debug build panics where this wraps.
TargetVusAt(p, ms) ==
  CASE p.kind = "Linear" -> LinearVus(p.target, 1000 * p.secs, ms)
    [] p.kind = "Step" -> (p.start + StepIndex(p, ms) * p.size) % Word
    [] p.kind = "Instant" -> p.target

\* total_duration, in milliseconds; ten steps for a staircase.
TotalDuration(p) ==
  CASE p.kind = "Linear" -> 1000 * p.secs
    [] p.kind = "Step" -> 1000 * ((10 * p.secs) % Word)
    [] p.kind = "Instant" -> 0

-----------------------------------------------------------------------------
KrakenInit ==
  /\ scenario \in SeqOf(ScenarioSteps, MaxSteps) /\ accepted = "unasked"
  /\ schedule = << >> /\ profile \in Profiles /\ millis = 0 /\ injected = 0

NewScenario ==
  /\ accepted = "unasked" /\ accepted' = IF Accepts(scenario) THEN "yes" ELSE "no"
  /\ UNCHANGED <<scenario, schedule, profile, millis, injected>>

\* A rejected scenario is not run.
AddEvent(ev) ==
  /\ accepted = "yes" /\ Len(schedule) < MaxChaos /\ schedule' = Append(schedule, ev)
  /\ UNCHANGED <<scenario, accepted, profile, millis, injected>>

Advance ==
  /\ accepted = "yes" /\ millis < MaxMillis /\ millis' = millis + Tick
  /\ UNCHANGED <<scenario, accepted, schedule, profile, injected>>

\* The driver brings the users up to the target of this moment.
Inject ==
  /\ accepted = "yes" /\ injected < TargetVusAt(profile, millis)
  /\ injected' = TargetVusAt(profile, millis)
  /\ UNCHANGED <<scenario, accepted, schedule, profile, millis>>

KrakenNext == NewScenario \/ Advance \/ Inject \/ \E ev \in ChaosEvents : AddEvent(ev)

KrakenSpec == KrakenInit /\ [][KrakenNext]_krakenVars

-----------------------------------------------------------------------------
(* Properties. *)

\* An accepted branch is a distribution: no probability is NaN or out of
\* range and they sum to one; an accepted think time has a range.
ScenariosSound ==
  accepted = "yes" => \A i \in DOMAIN scenario : LET s == scenario[i] IN
    /\ s.kind = "Branch" => /\ \A k \in DOMAIN s.choices : s.choices[k] \in 0..1000
                            /\ SumOf(s.choices) \in 999..1001
    /\ s.kind = "Uniform" => s.min \in 0..s.max

\* The three questions about chaos agree: a user is partitioned exactly when
\* a partition is among its active events, and every user suffers the same
\* latency, that of the spikes among its active events.
ChaosConsistent ==
  \A vu \in UserIds : LET active == GetActiveEvents(schedule, millis, vu) IN
    /\ IsPartitioned(schedule, millis, vu) <=>
         \E i \in DOMAIN active : active[i].kind = "NetworkPartition"
    /\ TotalExtraLatencyMs(schedule, millis) = TotalExtraLatencyMs(active, millis)

\* "Return value is monotonically non-decreasing" (types.rs:582): a profile
\* never asks for fewer users than the driver was already asked to inject.
RampUpMonotone == injected <= TargetVusAt(profile, millis)

\* The steps of a staircase take time, and it is still below the top of usize.
Climbing ==
  profile.kind = "Step" =>
    profile.secs > 0 /\ profile.start + StepIndex(profile, millis) * profile.size < Word

\* As time passes a profile whose steps take time and whose numbers fit never
\* asks for fewer users than it already got, and a linear or instant one asks
\* for its target, no more, from the end of its total_duration on.  A staircase
\* of steps that take no time does go down: after the start it asks for a step
\* less than at the start, in usize, and for that until the end.
RampUpSound ==
  /\ Climbing =>
       /\ RampUpMonotone
       /\ profile.kind # "Step" =>
            /\ TargetVusAt(profile, millis) <= profile.target
            /\ millis >= TotalDuration(profile) => TargetVusAt(profile, millis) = profile.target
       /\ profile.kind = "Step" => TargetVusAt(profile, millis) >= profile.start
                                   /\ (millis = 0 => injected <= profile.start)
  /\ profile.kind = "Step" /\ profile.secs = 0 /\ millis > 0 =>
       TargetVusAt(profile, millis) =
         profile.start - profile.size + (IF profile.size <= profile.start THEN 0 ELSE Word)

\* Scenarios, chaos and ramp-up keep their contracts (kraken/types.rs).
KrakenSound == ScenariosSound /\ ChaosConsistent /\ RampUpSound
=============================================================================
