------------------------------- MODULE MCSeams -------------------------------
(***************************************************************************)
(* Parts that share no state, explored side by side: a behaviour is about  *)
(* resource ids, std locks, watch and broadcast channels, notify, the      *)
(* atomic cell, tracked locks with their verifier, the tracked semaphore,  *)
(* the probe's hooks, the wire format, contexts and tenants, harness       *)
(* specifications, load tests or simulation clocks; the others rest.       *)
(***************************************************************************)
EXTENDS ResourceIds, ModelLock, FanOut, Notify, Cell, LockOrder, TrackedPermit, ProbeHooks,
        WireFormat, Tenancy, DeadlockProbe, Kraken, SimClock, TLC

VARIABLE part   \* what this behaviour is about

-----------------------------------------------------------------------------
(* What is built, scheduled and asked for. *)

ActInputs == {Acquires("x"), Acquires("y"), Releases("x")}

StepInputs == {
  [kind |-> "Think", mean |-> NaN, std_dev |-> 0], [kind |-> "Think", mean |-> 0, std_dev |-> -1],
  [kind |-> "Uniform", min |-> 2, max |-> 2], [kind |-> "Uniform", min |-> 3, max |-> 2],
  [kind |-> "Branch", choices |-> <<400, 600>>], [kind |-> "Branch", choices |-> <<1300, -300>>],
  [kind |-> "Branch", choices |-> <<NaN, 1000>>], [kind |-> "Branch", choices |-> << >>],
  [kind |-> "RetryOnError", max_retries |-> 0], [kind |-> "Loop", iterations |-> 0],
  [kind |-> "Finish"]}

Spike(from, to, extra) ==
  [kind |-> "LatencySpike", start_ms |-> from, end_ms |-> to, extra |-> extra]
Cut(from, to, first, last) ==
  [kind |-> "NetworkPartition", start_ms |-> from, end_ms |-> to, first |-> first, end |-> last]

ChaosInputs == {Spike(0, 700, 20), Spike(600, 1600, 30), Cut(700, 1400, 0, 2), Cut(1400, 1400, 0, 9),
                Cut(0, 2000, 1, 1)}

ProfileInputs == {
  [kind |-> "Linear", target |-> 7, secs |-> 2], [kind |-> "Linear", target |-> 10, secs |-> 3],
  [kind |-> "Step", start |-> 1, size |-> 2, secs |-> 1],
  [kind |-> "Step", start |-> 2, size |-> 1, secs |-> 0], [kind |-> "Instant", target |-> 4]}

\* 2.1 s of 3 s for 10 users: 2.1 / 3.0 * 10.0 is 7.000000000000001 in f64.
RoundedInputs == {<<2100, 10, 3000>>}

-----------------------------------------------------------------------------
\* One of the states the Init of a part allows.
StdRest    == ~engine
FanRest    == fan = "watch"
CellRest   == option /\ snapshot.value = Nothing
OrderRest  == flavour = "std"
PermitRest == \A c \in PermitCall, i \in Caller : callId[c] <= i
HooksRest  == hooked = {}
WireRest   == source.scenario = "clean" /\ \A s \in Seeds : source.clock <= BaseClock + s
TenantRest == tenant.tier = 1
KrakenRest == profile.kind = "Instant" /\ scenario = [i \in 1..2 |-> [kind |-> "Finish"]]

locksVars == <<vars, stdVars, orderVars, permitVars>>
talkVars  == <<fanVars, notifyVars, cellVars, hookVars, wireVars>>
typeVars  == <<tenancyVars, probeVars, krakenVars, simVars>>
seamVars  == <<part, locksVars, talkVars, typeVars>>

SeamsInit ==
  /\ part \in {"ids", "std", "order", "permit", "fan", "notify", "cell", "hooks", "wire",
               "context", "tenant", "probe", "kraken", "trace", "queue"}
  /\ Init /\ NotifyInit /\ ProbeInit /\ SimInit
  /\ StdInit     /\ (part = "std" \/ StdRest)
  /\ OrderInit   /\ (part = "order" \/ OrderRest)
  /\ PermitInit  /\ (part = "permit" \/ PermitRest)
  /\ FanInit     /\ (part = "fan" \/ FanRest)
  /\ CellInit    /\ (part = "cell" \/ CellRest)
  /\ HooksInit   /\ (part = "hooks" \/ HooksRest)
  /\ WireInit    /\ (part = "wire" \/ WireRest)
  /\ TenancyInit /\ (part = "tenant" \/ TenantRest)
  /\ KrakenInit  /\ (part = "kraken" \/ KrakenRest)

Only(p, rest) == part = p /\ part' = p /\ UNCHANGED rest

LocksNext ==
  \/ Only("ids", <<stdVars, orderVars, permitVars>>) /\ Next
  \/ Only("std", <<vars, orderVars, permitVars>>) /\ StdNext
  \/ Only("order", <<vars, stdVars, permitVars>>) /\ OrderNext
  \/ Only("permit", <<vars, stdVars, orderVars>>) /\ PermitNext

TalkNext ==
  \/ Only("fan", <<notifyVars, cellVars, hookVars, wireVars>>) /\ FanNext
  \/ Only("notify", <<fanVars, cellVars, hookVars, wireVars>>) /\ NotifyNext
  \/ Only("cell", <<fanVars, notifyVars, hookVars, wireVars>>) /\ CellNext
  \/ Only("hooks", <<fanVars, notifyVars, cellVars, wireVars>>) /\ HooksNext
  \/ Only("wire", <<fanVars, notifyVars, cellVars, hookVars>>) /\ WireNext

TypesNext ==
  \/ Only("context", <<probeVars, krakenVars, simVars>>) /\ ContextNext
  \/ Only("tenant", <<probeVars, krakenVars, simVars>>) /\ TenantNext
  \/ Only("probe", <<tenancyVars, krakenVars, simVars>>) /\ ProbeNext
  \/ Only("kraken", <<tenancyVars, probeVars, simVars>>) /\ KrakenNext
  \/ Only("trace", <<tenancyVars, probeVars, krakenVars>>) /\ TraceNext
  \/ Only("queue", <<tenancyVars, probeVars, krakenVars>>) /\ QueueNext

SeamsNext ==
  \/ LocksNext /\ UNCHANGED <<talkVars, typeVars>>
  \/ TalkNext /\ UNCHANGED <<locksVars, typeVars>>
  \/ TypesNext /\ UNCHANGED <<locksVars, talkVars>>

SeamsSpec == SeamsInit /\ [][SeamsNext]_seamVars

\* Threads that take tracked locks are interchangeable, and so are the locks
\* of one kind.
Symmetry == Permutations(Locker) \cup Permutations(SharedLock)
=============================================================================
