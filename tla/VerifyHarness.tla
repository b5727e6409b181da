--------------------------- MODULE VerifyHarness ---------------------------
(***************************************************************************)
(* The attributes #[laplace_sdk::verify], #[axiom_target] and              *)
(* #[laplace_byoc_test]: how their arguments are parsed, which functions   *)
(* they accept, and what the tests generated by verify conclude when       *)
(* several of them run in one process.  The probe hooks are process-wide   *)
(* and no test takes them down; the harnesses of the other two attributes  *)
(* are in EmitPath.                                                        *)
(*                                                                         *)
(* An argument is its form (path, list or value), its key and the kind and *)
(* value of its literal.  Of a function its body keeps what it is built    *)
(* from, tracked locks, rewritten std or tokio primitives and tasks, and   *)
(* which of these, if any, it nests in both orders.                        *)
(***************************************************************************)
EXTENDS Integers

CONSTANTS
  Metas,     \* arguments that are written
  Items,     \* functions that are annotated
  MaxMetas,  \* bound on the arguments of one attribute
  MaxTests   \* bound on the tests of one process

VARIABLES
  macro,    \* the attribute: verify, target or byoc
  args,     \* its arguments as parsed so far
  metas,    \* how many of them
  item,     \* the function it is on
  step,     \* how far the expansion or the test is
  hooks,    \* probe hooks installed in the process
  captured, \* what the events of the capture are about
  outcome,  \* passed, warned or failed
  tests     \* tests run before

harnessVars == <<macro, args, metas, item, step, hooks, captured, outcome, tests>>

Unset == "unset"
NoThreads == -1

Blank == [threads |-> NoThreads, scenario |-> FALSE, tasks |-> FALSE, name |-> Unset, expected |-> Unset]

HarnessInit ==
  /\ macro \in {"verify", "target", "byoc"} /\ args = Blank /\ metas = 0
  /\ item \in Items /\ step = "parsing"
  /\ hooks = {} /\ captured = {} /\ outcome = Unset /\ tests = 0

-----------------------------------------------------------------------------
(* Arguments. *)

\* The literal each key of verify wants.
VerifyLit ==
  [threads |-> "int", name |-> "str", expected |-> "str", determinism |-> "str",
   write_ard |-> "bool", output_dir |-> "str", buffer |-> "int", max_depth |-> "int"]

Labels == {"fully_deterministic", "fully-deterministic", "full",
           "deterministic_with_declared_inputs", "deterministic-with-declared-inputs",
           "declared_inputs", "declared"}

Accepts(lits, meta) ==
  meta.form = "value" /\ meta.key \in DOMAIN lits /\ meta.lit = lits[meta.key]

\* VerifyArgs::parse, one argument: flags, then checked values; a repeated key
\* overwrites.
VerifyAccepts(meta) ==
  \/ meta.form = "path" /\ meta.key \in {"scenario", "tasks"}
  \/ /\ Accepts(VerifyLit, meta)
     /\ meta.key = "threads"     => meta.val \in 1..8
     /\ meta.key = "expected"    => meta.val \in {"clean", "bug"}
     /\ meta.key = "determinism" => meta.val \in Labels

\* AxiomTargetArgs::parse: what it does not understand it passes over.
TargetLit == [threads |-> "int", name |-> "str", write_ard |-> "bool", output_dir |-> "str"]

\* ByocTestArgs::parse: keys with values only, and one name.
ByocLit ==
  [name |-> "str", expected |-> "str", write_ard |-> "bool", output_dir |-> "str",
   buffer |-> "int", max_depth |-> "int", lock_events_only |-> "bool"]

ByocAccepts(meta) ==
  /\ Accepts(ByocLit, meta)
  /\ meta.key = "expected" => meta.val \in {"clean", "bug"}
  /\ meta.key = "name"     => args.name = Unset

Stored(meta) ==
  CASE meta.key \in {"scenario", "tasks"} -> [args EXCEPT ![meta.key] = TRUE]
    [] meta.key \in {"threads", "name", "expected"} -> [args EXCEPT ![meta.key] = meta.val]
    [] OTHER -> args

ParseMeta(meta) ==
  /\ step = "parsing" /\ metas < MaxMetas
  /\ metas' = metas + 1
  /\ CASE macro = "verify" /\ VerifyAccepts(meta) -> args' = Stored(meta) /\ step' = step
       [] macro = "byoc" /\ ByocAccepts(meta)     -> args' = Stored(meta) /\ step' = step
       [] macro = "target" -> /\ args' = IF Accepts(TargetLit, meta) THEN Stored(meta) ELSE args
                              /\ step' = step
       [] OTHER            -> args' = args /\ step' = "refused"
  /\ UNCHANGED <<macro, item, hooks, captured, outcome, tests>>

Modes(a) == (IF a.threads # NoThreads THEN 1 ELSE 0) + (IF a.scenario THEN 1 ELSE 0)
            + (IF a.tasks THEN 1 ELSE 0)

\* The checks after the loop: one mode for verify, threads for axiom_target.
EndArgs ==
  /\ step = "parsing"
  /\ step' = IF CASE macro = "verify" -> Modes(args) = 1
                  [] macro = "target" -> args.threads # NoThreads
                  [] macro = "byoc"   -> TRUE
             THEN "expanding" ELSE "refused"
  /\ UNCHANGED <<macro, args, metas, item, hooks, captured, outcome, tests>>

-----------------------------------------------------------------------------
(* Signatures. *)

\* laplace_verify_impl.  A reference is taken for shared state whether or not
\* it is mutable; the call generated for threads passes a shared one, so a
\* mutable one does not compile.
VerifySignature ==
  /\ ~item.test
  /\ CASE args.tasks    -> ~item.async /\ item.input = "refmut"
       [] args.scenario -> item.input = "none"
       [] OTHER         -> item.input \in {"none", "ref", "arc"}

\* axiom_target_impl and laplace_byoc_test_impl.
TargetSignature == item.async /\ item.input = "arc"
ByocSignature   == ~item.async /\ item.input = "none" /\ item.unit

ExpandItem ==
  /\ step = "expanding"
  /\ step' = IF CASE macro = "verify" -> VerifySignature
                  [] macro = "target" -> TargetSignature
                  [] macro = "byoc"   -> ByocSignature
             THEN "expanded" ELSE "refused"
  /\ UNCHANGED <<macro, args, metas, item, hooks, captured, outcome, tests>>

-----------------------------------------------------------------------------
(* The generated test. *)

\* A faulty variant: a scenario counts on the hooks being there.
InstallsTasksOnly(a) == IF a.tasks THEN {"lock", "task", "async"} ELSE {}

\* The probe hooks each mode installs, and no mode clears.
Installs(a) ==
  CASE a.tasks    -> {"lock", "task", "async"}
    [] a.scenario -> {"lock"}
    [] OTHER      -> {}

InstallHooks ==
  /\ step = "expanded" /\ macro = "verify"
  /\ hooks' = hooks \cup Installs(args)
  /\ step' = "running"
  /\ UNCHANGED <<macro, args, metas, item, captured, outcome, tests>>

\* What emits under the hooks h: tracked locks always, a rewritten primitive
\* when its hook is installed, tasks when there is a TaskSet to observe.
Emits(a, i, h) ==
  {p \in i.uses : \/ p = "tracked"
                  \/ p = "std" /\ "lock" \in h
                  \/ p = "tokio" /\ "async" \in h
                  \/ p = "task" /\ a.tasks /\ "task" \in h}

\* The body runs under a capture session, in threads that are joined, once, or
\* as a TaskSet; a panic ends the test, and the session with it.
RunBody ==
  /\ step = "running"
  /\ IF item.panics THEN captured' = {} /\ outcome' = "failed" /\ step' = "over"
                    ELSE captured' = Emits(args, item, hooks) /\ outcome' = outcome /\ step' = "captured"
  /\ UNCHANGED <<macro, args, metas, item, hooks, tests>>

\* The reference verifier reads lock events; those of async locks it skips.
BugFound(i, events) == i.cycle \in events \cap {"tracked", "std"}

\* A faulty variant: a declared expectation is not told from the default.
ConcludeLeniently(a, i, events) ==
  IF events = {} THEN "warned"
  ELSE IF BugFound(i, events) = (a.expected = "bug") THEN "passed" ELSE "failed"

\* verification_tail.
Conclude(a, i, events) ==
  IF events = {} THEN IF a.expected = Unset THEN "warned" ELSE "failed"
  ELSE IF BugFound(i, events) = (a.expected = "bug") THEN "passed" ELSE "failed"

VerificationTail ==
  /\ step = "captured"
  /\ outcome' = Conclude(args, item, captured)
  /\ step' = "over"
  /\ UNCHANGED <<macro, args, metas, item, hooks, captured, tests>>

\* The next test of the process.
NextTest ==
  /\ step = "over" /\ tests < MaxTests
  /\ tests' = tests + 1
  /\ item' \in Items /\ macro' = "verify" /\ args' = Blank /\ metas' = 0 /\ step' = "parsing"
  /\ captured' = {} /\ outcome' = Unset
  /\ UNCHANGED hooks

HarnessNext ==
  \/ \E meta \in Metas : ParseMeta(meta)
  \/ EndArgs \/ ExpandItem \/ InstallHooks \/ RunBody \/ VerificationTail \/ NextTest

HarnessSpec == HarnessInit /\ [][HarnessNext]_harnessVars

-----------------------------------------------------------------------------
(* Properties. *)

\* A test that brings what it needs: tasks install every hook, a scenario the
\* one for std locks, replica threads none.
SelfContained ==
  \/ args.tasks
  \/ args.scenario /\ "tokio" \notin item.uses
  \/ item.uses \subseteq {"tracked", "task"}

\* The verdict of such a test does not depend on the tests that ran before it
\* in the process.  Of the others it does: std locks under threads and tokio
\* primitives under a scenario are captured only after another test has
\* installed the hook.
VerdictIndependent ==
  step = "over" /\ ~item.panics /\ SelfContained =>
    outcome = Conclude(args, item, Emits(args, item, Installs(args)))

\* A declared expectation is met by events only, and a bug by a real cycle.
NeverVacuous ==
  outcome = "passed" /\ args.expected # Unset =>
    captured # {} /\ (args.expected = "bug" => item.cycle \in captured)

\* ... and is never waved through with a warning.
NeverWaved == outcome = "warned" => args.expected = Unset

\* What a generated test concludes can be trusted.
VerdictsSound == VerdictIndependent /\ NeverVacuous /\ NeverWaved
=============================================================================
