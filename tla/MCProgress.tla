----------------------------- MODULE MCProgress -----------------------------
(***************************************************************************)
(* Parts that share no state, explored side by side: a behaviour is about  *)
(* timers, the way of an event out of emit, the rewrite of a path, a       *)
(* generated test or a derived structure, and the others rest.             *)
(***************************************************************************)
EXTENDS VirtualTime, EmitPath, ModelRewrite, VerifyHarness, TrackedDerive

VARIABLE part   \* what this behaviour is about

-----------------------------------------------------------------------------
(* What is imported and named. *)

Use(prefix, name) == [decl |-> "use", leaf |-> "name", prefix |-> prefix, name |-> name, as |-> name]
UseAs(prefix, name, as) == [Use(prefix, name) EXCEPT !.leaf = "rename", !.as = as]
UseSelf(prefix) == [Use(prefix, "self") EXCEPT !.leaf = "self"]
UseGlob(prefix) == [Use(prefix, "*") EXCEPT !.leaf = "glob"]
LocalItem(name) == [decl |-> "item", name |-> name]

\* One declaration to a scope, or an import beside an item or a glob that could
\* stand for the same name.
DeclInputs == {
  {Use(<<"tokio", "sync">>, "Mutex")}, {UseAs(<<"tokio", "sync">>, "RwLock", "Mutex")},
  {Use(<<"std", "sync">>, "Mutex")}, {LocalItem("Mutex")}, {UseGlob(<<"tokio", "sync">>)},
  {UseSelf(<<"tokio", "sync">>)}, {Use(<<"tokio", "sync">>, "mpsc"), Use(<<"tokio">>, "time")},
  {UseAs(<< >>, "tokio", "rt")}, {Use(<<"tokio", "sync">>, "Mutex"), LocalItem("Mutex")},
  {Use(<<"tokio", "sync">>, "Mutex"), UseGlob(<<"std", "sync">>)}}

ScopeLists == UNION {[1..n -> {{}} \cup DeclInputs] : n \in 1..3}

Bare(segs) == [segs |-> segs, args |-> {}]

Paths == {Bare(s) : s \in {
  <<"Mutex", "new">>, <<"sync", "Mutex">>, <<"std", "sync", "Mutex", "new">>,
  <<"tokio", "sync", "Notify", "new">>, <<"mpsc", "channel">>, <<"sync", "watch", "Ref">>,
  <<"rt", "spawn">>, <<"rt", "task", "spawn_blocking">>, <<"time", "sleep">>,
  <<"time", "Instant">>, <<"rt", "select">>, <<"thread", "spawn">>, <<"Condvar">>,
  <<"AtomicU64", "new">>, <<"ArcSwap", "new">>}}
  \cup {[segs |-> <<"Mutex">>, args |-> {1}], [segs |-> <<"time", "Sleep">>, args |-> {1}]}

-----------------------------------------------------------------------------
(* What is annotated. *)

Flag(k) == [form |-> "path", key |-> k, lit |-> "none", val |-> "none"]
Value(k, l, v) == [form |-> "value", key |-> k, lit |-> l, val |-> v]

MetaInputs == {Flag("scenario"), Flag("tasks"), Flag("other"),
               Value("threads", "int", 0), Value("threads", "int", 2), Value("threads", "int", 9),
               Value("expected", "str", "clean"), Value("expected", "str", "bug"),
               Value("expected", "str", "maybe"), Value("name", "str", "x"),
               Value("name", "bool", "x"), Value("determinism", "str", "full")}

Fn(async, input, uses, cycle, panics) ==
  [async |-> async, input |-> input, uses |-> uses, cycle |-> cycle, panics |-> panics,
   test |-> FALSE, unit |-> TRUE]

ItemInputs == {
  Fn(TRUE, "arc", {"tracked"}, "tracked", FALSE), Fn(TRUE, "ref", {"tracked", "std"}, "std", FALSE),
  Fn(FALSE, "none", {"std"}, "std", FALSE), Fn(FALSE, "none", {"std"}, "none", FALSE),
  Fn(TRUE, "none", {"tokio"}, "tokio", FALSE), Fn(FALSE, "none", {}, "none", FALSE),
  Fn(FALSE, "none", {"tracked"}, "none", TRUE),
  Fn(FALSE, "refmut", {"task", "tokio", "std"}, "std", FALSE),
  Fn(FALSE, "refmut", {"task", "tokio"}, "tokio", FALSE),
  Fn(FALSE, "two", {}, "none", FALSE),
  [Fn(FALSE, "none", {"std"}, "none", FALSE) EXCEPT !.test = TRUE, !.unit = FALSE]}

-----------------------------------------------------------------------------
(* What is tracked. *)

Field(i, ends, std, generic, options, name) ==
  [ident |-> i, track |-> TRUE, options |-> options, name |-> name,
   ty |-> [ends |-> ends, std |-> std, generic |-> generic]]

StructFields == {
  Field("a", "Mutex", TRUE, TRUE, {}, ""), Field("b", "Mutex", FALSE, TRUE, {"name"}, "a"),
  Field("c", "RwLock", TRUE, TRUE, {"name"}, "b"), Field("b", "RwLock", FALSE, TRUE, {}, ""),
  Field("d", "AtomicU64", TRUE, FALSE, {}, ""), Field("e", "Semaphore", FALSE, FALSE, {"permits"}, ""),
  Field("e", "Semaphore", FALSE, FALSE, {}, ""), Field("f", "Mutex", FALSE, FALSE, {}, ""),
  Field("g", "AtomicBool", TRUE, FALSE, {"rename"}, ""),
  [Field("h", "u64", FALSE, FALSE, {}, "") EXCEPT !.track = FALSE]}

-----------------------------------------------------------------------------
\* One of the states the Init of a part allows.
TimerRest   == ~timerHook /\ sort = [t \in Timer |-> "sleep"] /\ span = [t \in Timer |-> 1]
EmitRest    == harness = "session"
RewriteRest == annotated = "other" /\ scopes = <<{}>> /\ ~tasks
HarnessRest == macro = "verify" /\ item = Fn(FALSE, "none", {}, "none", FALSE)

ProgressVars == <<part, timerVars, emitVars, rewriteVars, harnessVars, deriveVars>>

ProgressInit ==
  /\ part \in {"timer", "emit", "rewrite", "harness", "derive"}
  /\ DeriveInit
  /\ TimerInit   /\ (part = "timer" \/ TimerRest)
  /\ EmitInit    /\ (part = "emit" \/ EmitRest)
  /\ HarnessInit /\ (part = "harness" \/ HarnessRest)
  /\ RewriteInit /\ (part = "rewrite" \/ RewriteRest)

Only(p, rest) == part = p /\ part' = p /\ UNCHANGED rest

ProgressNext ==
  \/ Only("timer", <<emitVars, rewriteVars, harnessVars, deriveVars>>) /\ TimerNext
  \/ Only("emit", <<timerVars, rewriteVars, harnessVars, deriveVars>>) /\ EmitNext
  \/ Only("rewrite", <<timerVars, emitVars, harnessVars, deriveVars>>) /\ RewriteNext
  \/ Only("harness", <<timerVars, emitVars, rewriteVars, deriveVars>>) /\ HarnessNext
  \/ Only("derive", <<timerVars, emitVars, rewriteVars, harnessVars>>) /\ DeriveNext

\* TimerFairness and EmitFairness for the part that moves; the parts that rest
\* take no step, fair or not.
ProgressFairness ==
  /\ \A t \in Timer : WF_timerVars(part = "timer" /\ Poll(t))
  /\ WF_timerVars(part = "timer" /\ Advance) /\ WF_timerVars(part = "timer" /\ Pass)
  /\ \A t \in Emitting : WF_emitVars(part = "emit" /\ ThreadStep(t))
  /\ WF_emitVars(part = "emit" /\ HarnessStep) /\ WF_emitVars(part = "emit" /\ Collect)
  /\ WF_emitVars(part = "emit" /\ Flush)

ProgressSpec == ProgressInit /\ [][ProgressNext]_ProgressVars /\ ProgressFairness

-----------------------------------------------------------------------------
\* What must happen does: timers fire on either clock, what the client's queue
\* took is uploaded or tried as long as uploads end, and an emit returns and an
\* axiom_target test ends unless the harness's channel fills up.
Progress == SleepersWake /\ QueuedIsTried /\ EmitReturns /\ TargetCollects
=============================================================================
