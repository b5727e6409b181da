------------------------------- MODULE Tenancy -------------------------------
(***************************************************************************)
(* laplace-interfaces: the contexts of requests (SovereignContext), the    *)
(* metadata of their tenant with its cached ResourceConfig, and the error  *)
(* numbers that cross the wire.  Contexts are built, narrowed, copied and  *)
(* inherited in any order; the metadata is saved and loaded by a store     *)
(* outside this repository.  Callers outside it also name the requests,    *)
(* each with an identifier of its own, and hand out turbo slots.           *)
(***************************************************************************)
EXTENDS Integers, FiniteSets

CONSTANTS
  Ctx,       \* contexts that may live at one time
  Request,   \* request identifiers
  Slot,      \* slots of the turbo pool
  NoSlot,    \* NO_TURBO_SLOT
  Absent     \* no such context

ASSUME NoSlotIsNone == NoSlot \notin Slot

VARIABLES
  ctx,       \* the live contexts
  tenant,    \* TenantMetadata in memory
  stored     \* the tier in the serialized metadata

tenantVars == <<tenant, stored>>
tenancyVars == <<ctx, tenantVars>>

-----------------------------------------------------------------------------
(* Tiers. *)

\* Free, Standard, Turbo, Pro, Enterprise.
TenantTier == 0..4

UsesTurboAcceleration(tier) == tier \in {2, 3, 4}
HasSentinelMonitoring(tier) == tier = 4
CanUpgradeTo(tier, target) == target > tier

\* from_u8(as_u8 + 1) and from_u8(as_u8 - 1), as sets with at most one member.
NextTier(tier) == {tier + 1} \cap TenantTier
PreviousTier(tier) == {tier - 1} \cap TenantTier

\* The limits of each tier; 99999999 stands for MAX.
ForTier(tier) ==
  [requests |-> <<5, 20, 100, 500, 99999999>>[tier + 1],
   millis   |-> <<100, 500, 2000, 10000, 60000>>[tier + 1],
   memory   |-> <<128, 512, 2048, 8192, 99999999>>[tier + 1],
   cpu      |-> <<100, 500, 2000, 10000, 99999999>>[tier + 1],
   turbo    |-> tier >= 2,
   sentinel |-> tier = 4]

\* Default of ResourceConfig.
DefaultConfig == [requests |-> 0, millis |-> 0, memory |-> 0, cpu |-> 0,
                  turbo |-> FALSE, sentinel |-> FALSE]

PriorityLevel == 0..5

-----------------------------------------------------------------------------
(* Contexts. *)

\* The caller's identifier is unique among the requests that are under way.
FreshRequest(r) == \A c \in Ctx : ctx[c] # Absent => ctx[c].req # r

\* "lowest" remembers the lowest tier the context or an ancestor ever had,
\* "byTurbo" whether its line began with new_turbo; the code keeps neither.
NewContext(c, r) ==
  /\ ctx[c] = Absent /\ FreshRequest(r)
  /\ ctx' = [ctx EXCEPT ![c] = [req |-> r, priority |-> 3, tier |-> 1, turbo |-> FALSE, slot |-> NoSlot,
                                lowest |-> 1, byTurbo |-> FALSE]]
  /\ UNCHANGED tenantVars

NewTurboContext(c, r) ==
  /\ ctx[c] = Absent /\ FreshRequest(r)
  /\ ctx' = [ctx EXCEPT ![c] = [req |-> r, priority |-> 3, tier |-> 2, turbo |-> TRUE, slot |-> NoSlot,
                                lowest |-> 2, byTurbo |-> TRUE]]
  /\ UNCHANGED tenantVars

WithPriority(c, p) ==
  /\ ctx[c] # Absent
  /\ ctx' = [ctx EXCEPT ![c].priority = IF p < 5 THEN p ELSE 5]
  /\ UNCHANGED tenantVars

\* Faulty variant: the turbo mode follows the tier up again.
WithTierRestoring(c, tier) ==
  /\ ctx[c] # Absent
  /\ ctx' = [ctx EXCEPT ![c].tier = tier, ![c].turbo = UsesTurboAcceleration(tier),
                        ![c].lowest = IF tier < @ THEN tier ELSE @]
  /\ UNCHANGED tenantVars

\* with_tier turns turbo off and never on.
WithTier(c, tier) ==
  /\ ctx[c] # Absent
  /\ ctx' = [ctx EXCEPT ![c].tier = tier, ![c].turbo = @ /\ UsesTurboAcceleration(tier),
                        ![c].lowest = IF tier < @ THEN tier ELSE @]
  /\ UNCHANGED tenantVars

HasTurboSlot(c) == ctx[c].slot # NoSlot

\* The kernel gives a slot that no context holds.
AllocateTurboSlot(c, s) ==
  /\ ctx[c] # Absent
  /\ \A d \in Ctx : ctx[d] # Absent => ctx[d].slot # s
  /\ ctx' = [ctx EXCEPT ![c].slot = s]
  /\ UNCHANGED tenantVars

\* Faulty variant: the child keeps the parent's slot.
SpawnChildSharingSlot(c, d, r) ==
  /\ ctx[c] # Absent /\ ctx[d] = Absent /\ FreshRequest(r)
  /\ ctx' = [ctx EXCEPT ![d] = [ctx[c] EXCEPT !.req = r]]
  /\ UNCHANGED tenantVars

\* spawn_child inherits everything but the identifier and the slot.
SpawnChild(c, d, r) ==
  /\ ctx[c] # Absent /\ ctx[d] = Absent /\ FreshRequest(r)
  /\ ctx' = [ctx EXCEPT ![d] = [ctx[c] EXCEPT !.req = r, !.slot = NoSlot]]
  /\ UNCHANGED tenantVars

\* The derived Clone, and a trip through Serialize and Deserialize, copy every
\* field, the slot among them.
CloneContext(c, d) ==
  /\ ctx[c] # Absent /\ ctx[d] = Absent
  /\ ctx' = [ctx EXCEPT ![d] = ctx[c]]
  /\ UNCHANGED tenantVars

DropContext(c) ==
  /\ ctx[c] # Absent
  /\ ctx' = [ctx EXCEPT ![c] = Absent]
  /\ UNCHANGED tenantVars

\* is_valid: the priority and the tier are in range and turbo mode needs a
\* tier with turbo.
IsValid(k) ==
  /\ k.priority \in PriorityLevel /\ k.tier \in TenantTier
  /\ k.turbo => UsesTurboAcceleration(k.tier)

-----------------------------------------------------------------------------
(* The tenant. *)

\* TenantMetadata::new.
TenancyInit ==
  /\ ctx = [c \in Ctx |-> Absent]
  /\ tenant \in {[tier |-> t, config |-> ForTier(t), loaded |-> FALSE] : t \in TenantTier}
  /\ stored = tenant.tier

\* Faulty variant: the cached configuration is forgotten.
UpgradeTierOnly(tier) ==
  /\ CanUpgradeTo(tenant.tier, tier)
  /\ tenant' = [tenant EXCEPT !.tier = tier, !.loaded = FALSE]
  /\ UNCHANGED <<ctx, stored>>

\* upgrade_tier; any other change is refused.
UpgradeTier(tier) ==
  /\ CanUpgradeTo(tenant.tier, tier)
  /\ tenant' = [tier |-> tier, config |-> ForTier(tier), loaded |-> FALSE]
  /\ UNCHANGED <<ctx, stored>>

SaveTenant == stored' = tenant.tier /\ UNCHANGED <<ctx, tenant>>

\* The configuration is serde(skip): loading leaves its default.
LoadTenant ==
  /\ tenant' = [tier |-> stored, config |-> DefaultConfig, loaded |-> TRUE]
  /\ UNCHANGED <<ctx, stored>>

-----------------------------------------------------------------------------
(* Error numbers. *)

\* LaplaceError: number and name.
LaplaceErrors == {
  <<0, "Success">>, <<1000, "Internal">>, <<1001, "InvalidContext">>, <<1002, "AbiMismatch">>,
  <<1003, "MemoryAlignment">>, <<1004, "InvalidPointer">>, <<2000, "Timeout">>,
  <<2001, "KernelTimeout">>, <<2002, "SdkTimeout">>, <<2003, "LockTimeout">>,
  <<3000, "QuotaExceeded">>, <<3001, "OutOfMemory">>, <<3002, "CpuQuotaExceeded">>,
  <<3003, "ConcurrencyLimitExceeded">>, <<3004, "PoolExhausted">>, <<4000, "HandshakeFailed">>,
  <<4001, "InvalidRequest">>, <<4002, "VersionMismatch">>, <<4003, "TenantNotFound">>,
  <<4004, "Unauthorized">>, <<5000, "NetworkError">>, <<5001, "ConnectionFailed">>,
  <<5002, "SerializationError">>, <<6000, "VerificationError">>, <<6001, "IsolatePoolError">>,
  <<6002, "SchedulerError">>}

\* from_code: a number of a newer peer is Internal.
FromCode(n) ==
  IF \E e \in LaplaceErrors : e[1] = n
  THEN (CHOOSE e \in LaplaceErrors : e[1] = n)[2] ELSE "Internal"

IsRetryable(name) == name \in {
  "Timeout", "KernelTimeout", "SdkTimeout", "LockTimeout", "NetworkError", "ConnectionFailed",
  "PoolExhausted"}

IsResourceError(name) == name \in {
  "QuotaExceeded", "OutOfMemory", "CpuQuotaExceeded", "ConcurrencyLimitExceeded", "PoolExhausted"}

\* TenantError: name and to_proto_code.
TenantErrors == {
  <<1001, "NotFound">>, <<1002, "Inactive">>, <<1003, "InvalidId">>, <<1004, "InvalidTierChange">>,
  <<2001, "QuotaExceeded">>, <<2002, "AcquireTimeout">>, <<2003, "ExecutionTimeout">>,
  <<2004, "RuntimeError">>, <<2005, "PathDenied">>, <<3001, "TurboPoolExhausted">>,
  <<3002, "TurboSlotStateError">>, <<3003, "TurboSlotCorruption">>, <<3004, "TurboNotAvailable">>,
  <<3005, "TurboAllocationFailed">>, <<9000, "Internal">>}

ToProtoCategory(name) ==
  CASE name \in {"NotFound", "Inactive", "InvalidId", "InvalidTierChange"} -> "CLIENT_ERROR"
    [] name \in {"QuotaExceeded", "AcquireTimeout", "ExecutionTimeout"} -> "QUOTA_EXCEEDED"
    [] name \in {"RuntimeError", "PathDenied"} -> "EXECUTION_ERROR"
    [] name \in {"TurboPoolExhausted", "TurboSlotStateError", "TurboSlotCorruption",
                 "TurboNotAvailable", "TurboAllocationFailed"} -> "TURBO_ERROR"
    [] name = "Internal" -> "INTERNAL_ERROR"

IsRecoverable(name) == name \in {
  "QuotaExceeded", "AcquireTimeout", "TurboPoolExhausted", "TurboAllocationFailed"}

SuggestsUpgrade(name) == name \in {"QuotaExceeded", "TurboNotAvailable", "ExecutionTimeout"}

IsTurboError(name) == name \in {
  "TurboPoolExhausted", "TurboSlotStateError", "TurboSlotCorruption", "TurboNotAvailable",
  "TurboAllocationFailed"}

-----------------------------------------------------------------------------
ContextNext == \E c \in Ctx :
  \/ \E r \in Request : NewContext(c, r) \/ NewTurboContext(c, r)
  \/ DropContext(c)
  \/ \E p \in {0, 6} : WithPriority(c, p)
  \/ \E t \in TenantTier : WithTier(c, t)
  \/ \E s \in Slot : AllocateTurboSlot(c, s)
  \/ \E d \in Ctx : CloneContext(c, d) \/ \E r \in Request : SpawnChild(c, d, r)

TenantNext == SaveTenant \/ LoadTenant \/ \E t \in TenantTier : UpgradeTier(t)

TenancySpec == TenancyInit /\ [][ContextNext \/ TenantNext]_tenancyVars

-----------------------------------------------------------------------------
(* Properties. *)

Live == {c \in Ctx : ctx[c] # Absent}

\* However a context was built it is valid, it runs in turbo mode exactly
\* when its line began with new_turbo and never went through a tier without
\* turbo, and contexts that share a slot are copies of one request's: a child
\* never works in its parent's slot, whatever was copied before (context.rs).
ContextsSound ==
  /\ \A c \in Live : /\ IsValid(ctx[c])
                     /\ ctx[c].turbo <=> ctx[c].byTurbo /\ UsesTurboAcceleration(ctx[c].lowest)
  /\ \A c, d \in Live : HasTurboSlot(c) /\ ctx[c].slot = ctx[d].slot => ctx[c].req = ctx[d].req

\* What b grants, a grants no more.
Within(a, b) ==
  /\ a.requests <= b.requests /\ a.millis <= b.millis /\ a.memory <= b.memory /\ a.cpu <= b.cpu
  /\ (a.turbo => b.turbo) /\ (a.sentinel => b.sentinel)

\* Each tier grants at least what the one below does, and what the tier
\* itself says of turbo and sentinel.
TiersNested == \A t \in TenantTier :
  /\ \A u \in NextTier(t) : Within(ForTier(t), ForTier(u)) /\ CanUpgradeTo(t, u) /\ PreviousTier(u) = {t}
  /\ ForTier(t).turbo = UsesTurboAcceleration(t) /\ ForTier(t).sentinel = HasSentinelMonitoring(t)

\* A tenant has the limits of its tier, through every upgrade, exactly until its
\* metadata comes from the store: a loaded tenant has other limits, all zero,
\* until the next upgrade, although they are called the "cached resource
\* configuration for this tier" (tenant/model.rs:188).  Tiers grant more and more.
LimitsSound == (tenant.config = ForTier(tenant.tier) <=> ~tenant.loaded) /\ TiersNested

\* Every error survives the wire; a number the reader does not know is
\* neither retried nor taken for a lack of resources; a tenant error that
\* can be retried is about a quota or the turbo pool (codes.rs, tenant.rs).  The
\* numbers of tenant errors are a space of their own: read as a LaplaceError none
\* but Internal is itself, although to_proto_code says that it maps to "the
\* corresponding `LaplaceError` code" (tenant.rs:166).
ErrorNumbersSound ==
  /\ \A e \in LaplaceErrors : FromCode(e[1]) = e[2]
  /\ \A n \in 0..10 : LET e == FromCode(1000 * n + 999) IN ~IsRetryable(e) /\ ~IsResourceError(e)
  /\ \A e, f \in TenantErrors : e[1] = f[1] => e = f
  /\ \A e \in TenantErrors : FromCode(e[1]) = e[2] <=> e[2] = "Internal"
  /\ \A e \in TenantErrors :
       /\ IsTurboError(e[2]) <=> e[1] \div 1000 = 3
       /\ IsTurboError(e[2]) <=> ToProtoCategory(e[2]) = "TURBO_ERROR"
       /\ IsRecoverable(e[2]) => ToProtoCategory(e[2]) \in {"QUOTA_EXCEEDED", "TURBO_ERROR"}
       /\ SuggestsUpgrade(e[2]) => ToProtoCategory(e[2]) \in {"QUOTA_EXCEEDED", "TURBO_ERROR"}

\* Contexts, tenants and error numbers keep what their users rely on.
TenancySound == ContextsSound /\ LimitsSound /\ ErrorNumbersSound
=============================================================================
