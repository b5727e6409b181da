---------------------------- MODULE DeadlockProbe ----------------------------
(***************************************************************************)
(* laplace-interfaces domain::harness: the builder of harness              *)
(* specifications and detects_abba_deadlock, the static verdict on one.    *)
(* What the specification says is then run, thread against thread, the     *)
(* way the words of ThreadAction say; the engine that does so is not in    *)
(* this repository, and gates, which only delay a thread, are passed at    *)
(* any time.                                                               *)
(***************************************************************************)
EXTENDS Integers, Sequences, FiniteSets, SequencesExt

CONSTANTS
  Acts,         \* thread actions the builder is given
  Gates,        \* ids of gates
  MaxThreads,   \* bound on threads
  MaxActions    \* bound on actions of one thread, Finish aside

ASSUME ProbeBounds == MaxThreads \in Nat \ {0} /\ MaxActions \in Nat

\* No method of the builder adds a Finish.
ASSUME ProbeActs ==
  Acts \subseteq [act : {"Acquire", "Release", "Gate", "ReleaseGate"}, id : STRING]

VARIABLES
  probe,     \* threads, resources and gates declared so far
  draft,     \* the ThreadBuilder, ResourceBuilder or GateBuilder at work
  spec,      \* the HarnessSpec once built
  ran,        \* actions each thread has run
  owns       \* resources each thread holds

probeVars == <<probe, draft, spec, ran, owns>>

NoDraft == [kind |-> "none"]
NoSpec  == << >>
EmptyProbe == [threads |-> << >>, resources |-> << >>, sync_points |-> << >>]

Acquires(r) == [act |-> "Acquire", id |-> r]
Releases(r) == [act |-> "Release", id |-> r]
GateWait(g) == [act |-> "Gate", id |-> g]
ReleaseGate(g) == [act |-> "ReleaseGate", id |-> g]
Finish == [act |-> "Finish", id |-> ""]

-----------------------------------------------------------------------------
(* The builder: methods consume and return it, so one draft is open at a   *)
(* time.                                                                   *)

ProbeInit ==
  /\ probe = EmptyProbe
  /\ draft = NoDraft /\ spec = NoSpec /\ ran = << >> /\ owns = << >>

Drafting == spec = NoSpec /\ UNCHANGED <<spec, ran, owns>>

BeginThread ==
  /\ Drafting /\ draft = NoDraft /\ Len(probe.threads) < MaxThreads
  /\ draft' = [kind |-> "thread", actions |-> << >>] /\ UNCHANGED probe

\* gate, release_gate, acquires, then_acquires and releases.
AddAction(a) ==
  /\ Drafting /\ draft.kind = "thread" /\ Len(draft.actions) < MaxActions
  /\ draft' = [draft EXCEPT !.actions = Append(@, a)] /\ UNCHANGED probe

ThreadDone ==
  /\ Drafting /\ draft.kind = "thread"
  /\ probe' = [probe EXCEPT !.threads = Append(@, Append(draft.actions, Finish))]
  /\ draft' = NoDraft

\* A resource is declared and done.  Declarations are data; one is enough.
DeclareResource(r) ==
  /\ Drafting /\ draft = NoDraft /\ probe = EmptyProbe
  /\ probe' = [probe EXCEPT !.resources = Append(@, r)] /\ UNCHANGED draft

BeginGate(g) ==
  /\ Drafting /\ draft = NoDraft /\ probe = EmptyProbe
  /\ draft' = [kind |-> "gate", id |-> g, wait_for |-> 1, policy |-> "WaitFor"] /\ UNCHANGED probe

SetGate ==
  /\ Drafting /\ draft.kind = "gate"
  /\ \/ draft' = [draft EXCEPT !.wait_for = 2]
     \/ draft' = [draft EXCEPT !.policy = "Simultaneous"]
  /\ UNCHANGED probe

GateDone ==
  /\ Drafting /\ draft.kind = "gate"
  /\ probe' = [probe EXCEPT !.sync_points =
                 Append(@, [id |-> draft.id, wait_for |-> draft.wait_for, policy |-> draft.policy])]
  /\ draft' = NoDraft

\* The declared resources and gates are data of the specification nothing here
\* reads; the threads are its programs.
Build ==
  /\ spec = NoSpec /\ draft = NoDraft /\ probe.threads # << >>
  /\ spec' = probe.threads
  /\ ran' = [i \in DOMAIN probe.threads |-> 0] /\ owns' = [i \in DOMAIN probe.threads |-> {}]
  /\ probe' = EmptyProbe /\ UNCHANGED draft

-----------------------------------------------------------------------------
(* The static verdict. *)

\* Faulty variant: a release empties the hands.
HeldAfterReleasingAll(p, a) ==
  CASE a.act = "Acquire" -> [held |-> p.held \cup {a.id}, pairs |-> p.pairs \cup (p.held \X {a.id})]
    [] a.act = "Release" -> [p EXCEPT !.held = {}]
    [] OTHER -> p

\* One action of the loop of held_acquisition_pairs.
HeldAfter(p, a) ==
  CASE a.act = "Acquire" -> [held |-> p.held \cup {a.id}, pairs |-> p.pairs \cup (p.held \X {a.id})]
    [] a.act = "Release" -> [p EXCEPT !.held = @ \ {a.id}]
    [] OTHER -> p

HeldAcquisitionPairs(actions) == FoldLeft(HeldAfter, [held |-> {}, pairs |-> {}], actions).pairs

AcquisitionPairsConflict(a, b) ==
  \E p \in HeldAcquisitionPairs(a) : <<p[2], p[1]>> \in HeldAcquisitionPairs(b)

\* detects_abba_deadlock.
DetectsAbbaDeadlock(threads) ==
  \E i, j \in DOMAIN threads : i < j /\ AcquisitionPairsConflict(threads[i], threads[j])

-----------------------------------------------------------------------------
(* The run. *)

NextAct(i) == spec[i][ran[i] + 1]
Running(i) == spec # NoSpec /\ i \in DOMAIN spec /\ ran[i] < Len(spec[i])

\* A resource has one holder, and no thread may take it twice.
RunAct(i) ==
  /\ Running(i)
  /\ NextAct(i).act = "Acquire" => \A j \in DOMAIN spec : NextAct(i).id \notin owns[j]
  /\ owns' = [owns EXCEPT ![i] = CASE NextAct(i).act = "Acquire" -> @ \cup {NextAct(i).id}
                                   [] NextAct(i).act = "Release" -> @ \ {NextAct(i).id}
                                   [] OTHER -> @]
  /\ ran' = [ran EXCEPT ![i] = @ + 1]
  /\ UNCHANGED <<probe, draft, spec>>

ProbeNext ==
  \/ BeginThread \/ ThreadDone \/ Build \/ SetGate \/ GateDone
  \/ \E a \in Acts : AddAction(a)
  \/ \E r \in {a.id : a \in {b \in Acts : b.act = "Acquire"}} : DeclareResource(r)
  \/ \E g \in Gates : BeginGate(g)
  \/ \E i \in 1..MaxThreads : RunAct(i)

ProbeSpec == ProbeInit /\ [][ProbeNext]_probeVars

-----------------------------------------------------------------------------
(* Properties. *)

BlockedOn(i) == IF Running(i) /\ NextAct(i).act = "Acquire" THEN {NextAct(i).id} ELSE {}

\* Two threads each hold what the other waits for.
MutualWait == \E i, j \in DOMAIN spec :
  i # j /\ BlockedOn(i) \cap owns[j] # {} /\ BlockedOn(j) \cap owns[i] # {}

\* A deadlock of two threads that a run of the specification can reach is
\* one detects_abba_deadlock announces without running it; what the loop
\* collects are the pairs taken in that order with no release of the first
\* between them; every thread ends in Finish, and only there (spec.rs,
\* builder.rs).
ProbesSound ==
  /\ spec # NoSpec /\ MutualWait => DetectsAbbaDeadlock(spec)
  /\ \A i \in DOMAIN spec :
       /\ \A k \in DOMAIN spec[i] : spec[i][k] = Finish <=> k = Len(spec[i])
       /\ HeldAcquisitionPairs(spec[i]) =
            {<<spec[i][q[1]].id, spec[i][q[2]].id>> : q \in
               {q \in (1..Len(spec[i])) \X (1..Len(spec[i])) :
                  /\ q[1] < q[2] /\ spec[i][q[1]].act = "Acquire" /\ spec[i][q[2]].act = "Acquire"
                  /\ \A m \in q[1]..q[2] : spec[i][m] # Releases(spec[i][q[1]].id)}}
=============================================================================
