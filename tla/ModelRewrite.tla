---------------------------- MODULE ModelRewrite ----------------------------
(***************************************************************************)
(* The rewrite that #[laplace::model] and #[laplace::verify] share: a path *)
(* of the annotated code that names a std or tokio primitive is replaced   *)
(* by its model in laplace_sdk::rt, one that names a primitive without a   *)
(* model is marked, and paths are resolved through the use items in scope. *)
(*                                                                         *)
(* A path is its segments and the positions that carry generic arguments.  *)
(* A scope is the declarations of an inline module, of a function body or  *)
(* of a block or function nested in it, a use leaf or an item; the scopes  *)
(* of a path go from the outermost annotated module to the block it is in. *)
(***************************************************************************)
EXTENDS Naturals, Sequences, FiniteSets, SequencesExt

CONSTANTS
  ScopeInputs,  \* the scopes of the functions that are rewritten
  PathInputs,   \* the paths that occur in them
  MaxVisits,    \* bound on the paths visited
  MaxDecls      \* bound on the scopes that declare something

ASSUME ScopesAreLists == \A s \in ScopeInputs : Len(s) \in Nat /\ DOMAIN s = 1..Len(s)

VARIABLES
  annotated,  \* what the attribute is on: a fn or mod, or something refused
  scopes,     \* declarations per scope, the innermost last
  blocks,     \* how many of them are nested in the function body
  tasks,      \* ModelRewriteOptions.tasks
  visited,    \* the paths visited, with what became of them
  unmodeled,  \* primitives found without a model
  phase       \* dispatching, visiting, marked or refused

rewriteVars == <<annotated, scopes, blocks, tasks, visited, unmodeled, phase>>

Site == {"call", "type", "macro"}
NotRewritten == << >>

-----------------------------------------------------------------------------
(* The tables of what has a model. *)

Plain(p, k) == \A i \in p.args : i > k
IsPath(p, segs) == p.segs = segs /\ p.args = {}

StdModels == {"Mutex", "RwLock"}
TokioModels == {"Mutex", "RwLock", "Semaphore", "Notify"}

\* model_target_for and tokio_model_target_for.
ModelTarget(root, ty) ==
  CASE root = "std" /\ ty = "Mutex"       -> "ModelMutex"
    [] root = "std" /\ ty = "RwLock"      -> "ModelRwLock"
    [] root = "tokio" /\ ty = "Mutex"     -> "ModelAsyncMutex"
    [] root = "tokio" /\ ty = "RwLock"    -> "ModelAsyncRwLock"
    [] root = "tokio" /\ ty = "Semaphore" -> "ModelAsyncSemaphore"
    [] root = "tokio" /\ ty = "Notify"    -> "ModelAsyncNotify"

\* tokio_channel_fn_target_for and tokio_channel_type_target_for.
ChannelFns == {<<"mpsc", "channel">>, <<"mpsc", "unbounded_channel">>,
               <<"oneshot", "channel">>, <<"watch", "channel">>, <<"broadcast", "channel">>}
ChannelTypes == ({"mpsc", "oneshot", "watch", "broadcast"} \X {"Sender", "Receiver"})
  \cup {<<"mpsc", "UnboundedSender">>, <<"mpsc", "UnboundedReceiver">>, <<"watch", "Ref">>}

TimeFns == {"sleep", "timeout", "interval"}
TimeTypes == {"Sleep", "Timeout", "Interval"}
TimeUnmodeled == {"Instant", "sleep_until", "interval_at", "timeout_at", "advance", "pause",
                  "resume"}
KnownAtomics == {"AtomicBool", "AtomicI8", "AtomicI16", "AtomicI32", "AtomicI64",
                 "AtomicIsize", "AtomicU8", "AtomicU16", "AtomicU32", "AtomicU64",
                 "AtomicUsize", "AtomicPtr"}
ArcSwaps == {"ArcSwap", "ArcSwapOption", "ArcSwapAny", "ArcSwapWeak"}

-----------------------------------------------------------------------------
(* The rewriters: the new path, or NotRewritten. *)

IsSupportedSpawn(p) ==
  IsPath(p, <<"std", "thread", "spawn">>) \/ IsPath(p, <<"thread", "spawn">>)

IsTokioSpawn(p) ==
  IsPath(p, <<"tokio", "spawn">>) \/ IsPath(p, <<"tokio", "task", "spawn">>)

IsUnmodeledTokioSpawn(p) ==
  \E f \in {"spawn_blocking", "spawn_local"} : IsPath(p, <<"tokio", "task", f>>)

IsTokioSelect(p) == IsPath(p, <<"tokio", "select">>)

RewriteSyncType(p, root, models) ==
  IF /\ Len(p.segs) = 3 /\ p.segs[1] = root /\ p.segs[2] = "sync" /\ Plain(p, 2)
     /\ p.segs[3] \in models
  THEN <<ModelTarget(root, p.segs[3])>> ELSE NotRewritten

RewriteStdType(p)   == RewriteSyncType(p, "std", StdModels)
RewriteTokioType(p) == RewriteSyncType(p, "tokio", TokioModels)

\* Only the tokio side has const_new.
RewriteSyncConstructor(p, root, models) ==
  IF /\ Len(p.segs) = 4 /\ p.segs[1] = root /\ p.segs[2] = "sync"
     /\ Plain(p, 2) /\ 4 \notin p.args
     /\ p.segs[4] \in (IF root = "tokio" THEN {"new", "const_new"} ELSE {"new"})
     /\ p.segs[3] \in models
  THEN <<ModelTarget(root, p.segs[3]), p.segs[4]>> ELSE NotRewritten

RewriteStdConstructor(p)   == RewriteSyncConstructor(p, "std", StdModels)
RewriteTokioConstructor(p) == RewriteSyncConstructor(p, "tokio", TokioModels)

RewriteChannel(p, names) ==
  IF /\ Len(p.segs) = 4 /\ p.segs[1] = "tokio" /\ p.segs[2] = "sync" /\ Plain(p, 3)
     /\ <<p.segs[3], p.segs[4]>> \in names
  THEN <<p.segs[3], p.segs[4]>> ELSE NotRewritten

RewriteChannelConstructor(p) == RewriteChannel(p, ChannelFns)
RewriteChannelType(p)        == RewriteChannel(p, ChannelTypes)

RewriteTime(p, names) ==
  IF /\ Len(p.segs) = 3 /\ p.segs[1] = "tokio" /\ p.segs[2] = "time" /\ Plain(p, 2)
     /\ names = TimeFns => 3 \notin p.args
     /\ p.segs[3] \in names
  THEN <<"time", p.segs[3]>> ELSE NotRewritten

RewriteTimeFn(p)   == RewriteTime(p, TimeFns)
RewriteTimeType(p) == RewriteTime(p, TimeTypes)

Has(p, names) == \E i \in 1..Len(p.segs) : p.segs[i] \in names

\* classify_unmodeled, the first class that fits.
Classify(p) ==
  CASE Len(p.segs) >= 3 /\ p.segs[1] = "tokio" /\ p.segs[2] = "time" /\ Plain(p, 2)
         /\ p.segs[3] \in TimeUnmodeled -> "TOKIO_TIME"
    [] IsTokioSpawn(p) \/ IsUnmodeledTokioSpawn(p) -> "TOKIO_SPAWN"
    [] p.segs[1] \in ArcSwaps \cup {"arc_swap"} -> "ARC_SWAP"
    [] Has(p, {"Condvar"}) -> "CONDVAR"
    [] Has(p, {"mpsc"}) -> "CHANNEL"
    [] Has(p, KnownAtomics \cup {"atomic"}) -> "ATOMIC"
    [] OTHER -> "none"

FirstOf(alternatives) ==
  LET hits == SelectSeq(alternatives, LAMBDA a : a # NotRewritten)
  IN IF hits = << >> THEN NotRewritten ELSE Head(hits)

\* The new path of a full path at a call, in a type or as a macro.
Rewritten(site, p, withTasks) ==
  CASE site = "call" -> FirstOf(<<
         IF withTasks /\ IsTokioSpawn(p) THEN <<"spawn_task">> ELSE NotRewritten,
         IF IsSupportedSpawn(p) THEN <<"spawn">> ELSE NotRewritten,
         RewriteStdConstructor(p),
         RewriteTokioConstructor(p),
         RewriteChannelConstructor(p),
         RewriteTimeFn(p)>>)
    [] site = "type" -> FirstOf(<<
         RewriteStdType(p),
         RewriteTokioType(p),
         RewriteChannelType(p),
         RewriteTimeType(p)>>)
    [] site = "macro" -> IF IsTokioSelect(p) THEN <<"laplace_select">> ELSE NotRewritten

\* What becomes of it: rewritten, or marked if it has no model.
Outcome(site, p) ==
  LET new == Rewritten(site, p, tasks) IN
  [new  |-> new,
   mark |-> IF new # NotRewritten \/ site = "macro" THEN "none" ELSE Classify(p)]

-----------------------------------------------------------------------------
(* Aliases: functions from a name to the segments it stands for. *)

\* The binding of a use leaf: name, self of a group, rename.
LeafBinding(u) ==
  CASE u.leaf = "self"   -> [name |-> Last(u.prefix), segs |-> u.prefix]
    [] u.leaf = "rename" -> [name |-> u.as, segs |-> Append(u.prefix, u.name)]
    [] u.leaf = "name"   -> [name |-> u.name, segs |-> Append(u.prefix, u.name)]

IsUse(d) == d.decl = "use"
IsGlob(d) == IsUse(d) /\ d.leaf = "glob"
Binds(d, n) == IF IsUse(d) THEN ~IsGlob(d) /\ LeafBinding(d).name = n ELSE d.name = n
IsTokioUse(d) == IsUse(d) /\ ~IsGlob(d) /\ Head(LeafBinding(d).segs) = "tokio"

\* What rustc accepts: a scope imports a name once.
ASSUME ImportedOnce ==
  \A s \in ScopeInputs : \A k \in DOMAIN s : \A d, e \in s[k] :
    IsUse(d) /\ ~IsGlob(d) /\ IsUse(e) /\ ~IsGlob(e) /\ LeafBinding(d).name = LeafBinding(e).name
    => d = e

\* collect_use_aliases with insert_tokio_alias, and remove_shadowed_aliases:
\* the tokio imports of a scope, but no globs, that no item of the same scope
\* hides.
ScanUseAliases(decls) ==
  LET tokio == {b \in {LeafBinding(u) : u \in {d \in decls : IsTokioUse(d)}} :
                  \A d \in decls : ~IsUse(d) => d.name # b.name}
  IN [n \in {b.name : b \in tokio} |-> (CHOOSE b \in tokio : b.name = n).segs]

\* A faulty variant: the enclosing scope wins.
MergeAliasesBaseWins(base, overlay) ==
  [n \in DOMAIN base \cup DOMAIN overlay |->
     IF n \in DOMAIN base THEN base[n] ELSE overlay[n]]

MergeAliases(base, overlay) ==
  [n \in DOMAIN base \cup DOMAIN overlay |->
     IF n \in DOMAIN overlay THEN overlay[n] ELSE base[n]]

\* The table of what a list of scopes imports, the innermost last.
AliasesOf(lists) ==
  FoldLeft(LAMBDA table, decls : MergeAliases(table, ScanUseAliases(decls)), << >>, lists)

\* The table a function is rewritten with: that of the modules around it and of
\* the top level of its body; blocks and functions nested in it are not scanned.
Body == Len(scopes) - blocks
Aliases == AliasesOf(SubSeq(scopes, 1, Body))

\* canonicalize: the alias is spelled out, its generic arguments move to the
\* last segment of what it stands for.
Expand(p, segs) ==
  LET shift == Len(segs) - 1
  IN [segs |-> segs \o Tail(p.segs), args |-> {i + shift : i \in p.args}]

Canonicalize(p) ==
  IF Head(p.segs) \in DOMAIN Aliases THEN Expand(p, Aliases[Head(p.segs)]) ELSE p

-----------------------------------------------------------------------------
RewriteInit ==
  /\ annotated \in {"fn", "mod", "mod;", "other", "argument"}
  /\ scopes \in ScopeInputs
  /\ Cardinality({k \in 1..Len(scopes) : scopes[k] # {}}) <= MaxDecls
  /\ blocks \in 0..(Len(scopes) - 1) /\ (annotated = "mod" <=> Body > 1)
  /\ tasks \in BOOLEAN /\ (annotated = "mod" => ~tasks)
  /\ visited = {} /\ unmodeled = {} /\ phase = "dispatching"

\* model_impl: a function or an inline module, without an argument.
Dispatch ==
  /\ phase = "dispatching"
  /\ phase' = IF annotated \in {"fn", "mod"} THEN "visiting" ELSE "refused"
  /\ UNCHANGED <<annotated, scopes, blocks, tasks, visited, unmodeled>>

\* visit_expr_call_mut, visit_type_path_mut, visit_macro_mut.
Visit(site, p) ==
  /\ phase = "visiting" /\ Cardinality(visited) < MaxVisits
  /\ LET o == Outcome(site, Canonicalize(p)) IN
       /\ visited' = visited \cup {[site |-> site, path |-> p, new |-> o.new, mark |-> o.mark]}
       /\ unmodeled' = unmodeled \cup ({o.mark} \ {"none"})
  /\ UNCHANGED <<annotated, scopes, blocks, tasks, phase>>

\* inject_unmodeled_markers, one statement per primitive.
InjectMarkers ==
  /\ phase = "visiting" /\ visited # {}
  /\ phase' = "marked"
  /\ UNCHANGED <<annotated, scopes, blocks, tasks, visited, unmodeled>>

RewriteNext ==
  \/ Dispatch \/ InjectMarkers
  \/ \E site \in Site, p \in PathInputs : Visit(site, p)

RewriteSpec == RewriteInit /\ [][RewriteNext]_rewriteVars

-----------------------------------------------------------------------------
(* Properties. *)

\* What a name can mean to the compiler: a use or an item of the blocks around
\* the path, of the body or of the module the function is in, or something a
\* glob there brings in; modules further out are not looked at.
Covers(d, n) == IsGlob(d) \/ Binds(d, n)
Covering(n) == {k \in 1..Len(scopes) : k >= Body - 1 /\ \E d \in scopes[k] : Covers(d, n)}
Innermost(k, n) == k \in Covering(n) /\ \A j \in Covering(n) : j <= k

Binding(k, n) == {d \in scopes[k] : Binds(d, n)}

\* The name is an import from tokio that the rewrite promises to resolve.
TokioBound(n) == \E k \in 1..Body :
  Innermost(k, n) /\ \E d \in scopes[k] : IsTokioUse(d) /\ Binding(k, n) = {d}

\* The path that is meant: such an import spelled out; "no matching use, a glob
\* import, or a scope-shadowed binding" (model.rs:186) leave it as it is.
Meant(p) ==
  LET n == Head(p.segs) IN
  IF TokioBound(n)
  THEN Expand(p, LeafBinding(CHOOSE d \in scopes[CHOOSE k \in 1..Body : Innermost(k, n)] : Binds(d, n)).segs)
  ELSE p

TreatedAs(v, p) == [new |-> v.new, mark |-> v.mark] = Outcome(v.site, p)

\* The imports of a name from tokio in scopes that the compiler passes over.
PassedOver(n) ==
  UNION {{d \in Binding(k, n) : IsTokioUse(d)} : k \in {j \in 1..Body : ~Innermost(j, n)}}

\* Importing a primitive changes nothing: a path through a use, a rename or a
\* group is rewritten or marked as the full path it stands for, from whichever
\* scope the compiler takes the import, and one through a glob, an import of
\* another crate or an item as it stands.  canonicalize goes wrong in one case
\* and one way only: an import of another crate, an item, a glob or a block hides
\* an import of the name from tokio further out, or an outer module has one, and
\* the path is treated as that import (model.rs:934 says it is shadowed).
ImportsTransparent ==
  \A v \in visited : LET n == Head(v.path.segs) IN
    \/ TreatedAs(v, Meant(v.path))
    \/ ~TokioBound(n) /\ \E d \in PassedOver(n) : TreatedAs(v, Expand(v.path, LeafBinding(d).segs))
=============================================================================
