----------------------------- MODULE WireFormat -----------------------------
(***************************************************************************)
(* laplace-probe-common: the 128-byte RawProbeEvent, the stateless decoder *)
(* that turns it into typed events, and MockProbeSource, which writes the  *)
(* streams of four known situations.  Whoever drains the ring (external)   *)
(* decodes it batch by batch and keeps the picture the events draw: who    *)
(* holds and who waits for which lock.                                     *)
(***************************************************************************)
EXTENDS Integers, Sequences, FiniteSets, SequencesExt

CONSTANTS
  Seeds,     \* seeds of the mock source
  Tid32,     \* 2^32: thread ids on the wire are below it
  ProbeIds,  \* thread ids of ProbeEvents, u64
  RingCap    \* bound on events waiting in the ring

ASSUME WireConstants ==
  /\ Seeds \subseteq Nat /\ ProbeIds \subseteq Nat /\ Tid32 \in Nat /\ RingCap \in Nat \ {0}

VARIABLES
  source,    \* the scenario and the seed
  wrote,     \* raw events written so far
  ring,      \* raw events not yet drained
  picture    \* what the decoded events say

wireVars == <<source, wrote, ring, picture>>

-----------------------------------------------------------------------------
(* The wire. *)

\* ProbeEventType: discriminant and name.
EventTypes == <<
  "NetRequest", "NetResponse", "LockAcquire", "LockAcquired", "LockRelease", "LockContention",
  "SchedSwitch", "ThreadSpawn", "ThreadExit", "ConnOpen", "ConnClose", "RwLockReadAcquire",
  "RwLockReadRelease", "RwLockWriteAcquire", "RwLockWriteRelease", "AtomicLoad", "AtomicStore",
  "AtomicRmw", "SemaphoreAcquire", "SemaphoreRelease", "ChannelSend", "ChannelRecv">>

\* RawProbeEvent, the fields some decoded event keeps; the others stay zero.
Zeroed == [event_type |-> 0, tid |-> 0, timestamp_ns |-> 0, resource_id |-> 0, latency_ns |-> 0,
           parent_tid |-> 0]

\* The names and order parse_event_type expects.
ParsedTypes == <<
  "NetRequest", "NetResponse", "LockAcquire", "LockAcquired", "LockRelease", "LockContention",
  "SchedSwitch", "ThreadSpawn", "ThreadExit", "ConnOpen", "ConnClose", "RwLockReadAcquire",
  "RwLockReadRelease", "RwLockWriteAcquire", "RwLockWriteRelease", "AtomicLoad", "AtomicStore",
  "AtomicRmw", "SemaphoreAcquire", "SemaphoreRelease", "ChannelSend", "ChannelRecv">>

\* parse_event_type: None for a discriminant it does not know.
KnownType(raw) == raw.event_type \in DOMAIN ParsedTypes

\* Faulty variant: a context switch is read like any other event.
DecodedThreadsPlain(name, raw) == [tid |-> raw.tid, other |-> 0]

\* The thread an event is about and the other one it names: the incoming
\* thread of a switch and the parent of a spawn travel in parent_tid.
DecodedThreads(name, raw) ==
  [tid |-> raw.tid,
   other |-> IF name \in {"SchedSwitch", "ThreadSpawn"} THEN raw.parent_tid % Tid32 ELSE 0]

\* ProbeEventDecoder::decode.
Decode(raw) ==
  LET name == ParsedTypes[raw.event_type] IN
  [name |-> name, threads |-> DecodedThreads(name, raw), timestamp_ns |-> raw.timestamp_ns,
   addr |-> IF name \in {"SchedSwitch", "ThreadSpawn", "ThreadExit"} THEN 0 ELSE raw.resource_id,
   waited |-> IF name \in {"LockAcquire", "LockAcquired"} THEN raw.latency_ns ELSE 0]

\* decode_batch: in order, unknown types left out.
DecodeBatch(raws) ==
  FoldLeft(LAMBDA out, raw : IF KnownType(raw) THEN Append(out, Decode(raw)) ELSE out, << >>, raws)

\* Faulty variant: as u32.
ToRawTruncating(kind, id) == {[Zeroed EXCEPT !.event_type = kind, !.tid = id % Tid32]}

\* probe_event_to_raw of LockAcquired (4), LockReleased (5) and ThreadBlocked
\* (6); None when the id does not fit.  Resource and time are not written.
ToRaw(kind, id) ==
  IF id < Tid32 THEN {[Zeroed EXCEPT !.event_type = kind, !.tid = id]} ELSE {}

-----------------------------------------------------------------------------
(* The mock source. *)

TidA == 1001
TidB == 1002
LockX == 1
LockY == 2
BaseClock == 1000000000

ASSUME MockThreadsFit == TidB < Tid32

Discriminant(name) == CHOOSE n \in DOMAIN EventTypes : EventTypes[n] = name

\* The constructors; ts is set when the event is written.
Raw(name, tid, addr, parent, after) ==
  [raw |-> [event_type |-> Discriminant(name), tid |-> tid, timestamp_ns |-> 0,
            resource_id |-> addr, latency_ns |-> 0, parent_tid |-> parent],
   after |-> after]   \* how far the clock advances after it

RawSpawn(child, parent) == Raw("ThreadSpawn", child, 0, parent, 100)
RawAcquire(t, l, d)     == Raw("LockAcquire", t, l, 0, d)
RawAcquired(t, l, d)    == Raw("LockAcquired", t, l, 0, d)
RawRelease(t, l, d)     == Raw("LockRelease", t, l, 0, d)
RawContention(t, l, d)  == Raw("LockContention", t, l, 0, d)
RawSwitch(prev, next)   == Raw("SchedSwitch", prev, 0, next, 100)

CleanUncontested == <<
  RawSpawn(TidA, 0), RawAcquire(TidA, LockX, 100), RawAcquired(TidA, LockX, 100),
  RawRelease(TidA, LockX, 100)>>

AbBaDeadlock == <<
  RawSpawn(TidA, 0), RawSpawn(TidB, TidA),
  RawAcquire(TidA, LockX, 50), RawAcquired(TidA, LockX, 50),
  RawAcquire(TidB, LockY, 50), RawAcquired(TidB, LockY, 50),
  RawAcquire(TidA, LockY, 100), RawContention(TidA, LockY, 100),
  RawAcquire(TidB, LockX, 100), RawContention(TidB, LockX, 100),
  RawSwitch(TidA, TidB), RawSwitch(TidB, TidA)>>

DataRace == <<
  RawSpawn(TidA, 0), RawSpawn(TidB, TidA),
  RawAcquire(TidA, LockX, 50), RawAcquired(TidA, LockX, 50),
  RawAcquire(TidB, LockX, 100), RawContention(TidB, LockX, 100),
  RawAcquire(TidA, LockX, 100), RawContention(TidA, LockX, 100),
  RawSwitch(TidA, TidB), RawSwitch(TidB, TidA)>>

StarvationLimit == 10   \* MAX_STARVATION_LIMIT

\* A takes the lock and B is blocked.
StarvationStart == <<
  RawSpawn(TidA, 0), RawSpawn(TidB, TidA),
  RawAcquire(TidA, LockX, 50), RawAcquired(TidA, LockX, 50),
  RawAcquire(TidB, LockX, 50), RawContention(TidB, LockX, 50)>>

\* A releases and wins the lock again; B is still blocked.
StarvationCycle == <<
  RawRelease(TidA, LockX, 50), RawAcquire(TidA, LockX, 50), RawAcquired(TidA, LockX, 50),
  RawContention(TidB, LockX, 50)>>

\* The start and so many cycles.
Starving(cycles) == [k \in 1..(6 + 4 * cycles) |->
  IF k <= 6 THEN StarvationStart[k] ELSE StarvationCycle[((k - 7) % 4) + 1]]

\* Faulty variant: as many cycles as the limit.
LivelockStarvationAtLimit == Starving(StarvationLimit)

LivelockStarvation == Starving(12)

Scenario == [clean |-> CleanUncontested, deadlock |-> AbBaDeadlock, race |-> DataRace,
             livelock |-> LivelockStarvation]

-----------------------------------------------------------------------------
WireInit ==
  /\ source \in [scenario : DOMAIN Scenario, clock : {BaseClock + (s % 1000000) : s \in Seeds}]
  /\ wrote = 0 /\ ring = << >>
  /\ picture = [holder |-> [l \in {LockX, LockY} |-> 0], waits |-> [t \in {TidA, TidB} |-> 0], known |-> {0},
                passed |-> 0, seen |-> 0, last |-> 0, sane |-> TRUE]

Script == Scenario[source.scenario]

WriteEvent ==
  /\ wrote < Len(Script) /\ Len(ring) < RingCap
  /\ LET e == Script[wrote + 1] IN
       /\ ring' = Append(ring, [e.raw EXCEPT !.timestamp_ns = source.clock])
       /\ source' = [source EXCEPT !.clock = @ + e.after]
  /\ wrote' = wrote + 1 /\ UNCHANGED picture

\* A record of a newer writer lies in the ring.
WriteUnknown ==
  /\ wrote < Len(Script) /\ Len(ring) < RingCap
  /\ \A i \in DOMAIN ring : KnownType(ring[i])
  /\ \E n \in {0, Len(EventTypes) + 1} : ring' = Append(ring, [Zeroed EXCEPT !.event_type = n])
  /\ UNCHANGED <<source, wrote, picture>>

\* What one decoded event adds to the picture.
Draw(p, d) ==
  LET t == d.threads.tid
      q == [p EXCEPT !.seen = @ + 1, !.last = d.timestamp_ns,
                     !.sane = @ /\ d.timestamp_ns > p.last] IN
  CASE d.name = "ThreadSpawn" -> [q EXCEPT !.known = @ \cup {t},
                                           !.sane = @ /\ t \notin p.known
                                                      /\ d.threads.other \in p.known]
    [] d.name = "SchedSwitch" -> [q EXCEPT !.sane = @ /\ {t, d.threads.other} \subseteq p.known
                                                      /\ t # d.threads.other]
    [] d.name = "LockAcquire" -> [q EXCEPT !.waits[t] = d.addr]
    [] d.name = "LockAcquired" ->
         [q EXCEPT !.holder[d.addr] = t, !.waits[t] = 0,
                   !.passed = IF \E u \in {TidA, TidB} \ {t} : p.waits[u] = d.addr THEN @ + 1 ELSE @,
                   !.sane = @ /\ p.holder[d.addr] = 0 /\ p.waits[t] = d.addr]
    [] d.name = "LockRelease" -> [q EXCEPT !.holder[d.addr] = 0,
                                           !.sane = @ /\ p.holder[d.addr] = t]
    [] d.name = "LockContention" -> [q EXCEPT !.sane = @ /\ p.waits[t] = d.addr
                                                         /\ p.holder[d.addr] # 0]
    [] OTHER -> q

Drawn(p, events) == FoldLeft(Draw, p, events)

\* The consumer drains the ring.
DrainRing ==
  /\ ring # << >> /\ ring' = << >>
  /\ picture' = Drawn(picture, DecodeBatch(ring))
  /\ UNCHANGED <<source, wrote>>

WireNext == WriteEvent \/ WriteUnknown \/ DrainRing

WireSpec == WireInit /\ [][WireNext]_wireVars

-----------------------------------------------------------------------------
(* Properties. *)

PictureBlocked(t) == picture.waits[t] # 0 /\ picture.holder[picture.waits[t]] # 0
PictureWaitsFor(t) == picture.holder[picture.waits[t]]

\* What each generator's doc promises of its stream.
Promised ==
  CASE source.scenario = "clean" -> \A l \in {LockX, LockY} : picture.holder[l] = 0
    [] source.scenario = "deadlock" ->
         PictureBlocked(TidA) /\ PictureBlocked(TidB) /\ PictureWaitsFor(TidA) = TidB /\ PictureWaitsFor(TidB) = TidA
    [] source.scenario = "race" ->
         PictureBlocked(TidA) /\ PictureBlocked(TidB) /\ PictureWaitsFor(TidA) = TidA /\ PictureWaitsFor(TidB) = TidA
    [] source.scenario = "livelock" -> PictureBlocked(TidB) /\ picture.passed > StarvationLimit

\* The decoder and the enum number the types alike, and no upload carries
\* another thread's id (session.rs probe_event_to_raw).
NumbersAgree ==
  /\ EventTypes = ParsedTypes
  /\ \A id \in ProbeIds, k \in {4, 5, 6} : \A raw \in ToRaw(k, id) :
       KnownType(raw) /\ Decode(raw).threads.tid = id

\* The events of a mock stream, drained in any batches with unknown records
\* between them, are a history locks can have, lose nothing and end in the
\* situation the generator's doc promises (mock.rs, decoder.rs).
WireSound ==
  /\ picture.sane
  /\ picture.seen = wrote - Cardinality({i \in DOMAIN ring : KnownType(ring[i])})
  /\ wrote = Len(Script) /\ ring = << >> => Promised
  /\ NumbersAgree
=============================================================================
