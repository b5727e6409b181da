-------------------------------- MODULE Cell --------------------------------
(***************************************************************************)
(* ModelArcSwap, ModelArcSwapOption and Cache: an atomic cell whose value  *)
(* carries its version in the same snapshot.  A store allocates, publishes *)
(* and reports its version under one mutex; a load takes a snapshot and    *)
(* reports the version in it, without the mutex.                           *)
(***************************************************************************)
EXTENDS Integers

CONSTANTS
  Client,      \* threads that load and store
  Value,       \* what is stored
  Nothing,     \* None of an option cell, and no value at all
  MaxVersion   \* stands for u64::MAX

ASSUME CellOK == MaxVersion \in Nat /\ Nothing \notin Value \cup Client

VARIABLES
  option,     \* this is a ModelArcSwapOption
  snapshot,   \* what the real cell holds: [version, value]; an empty one has no version
  latest,     \* next_version, the data of the mutex
  owner,      \* who holds the mutex
  poisoned,   \* a store panicked with it
  cpc,        \* where a client's call is
  got,       \* the snapshot a client loaded
  cached,     \* the client's Cache
  written,    \* the value each version was published with
  obsStored,  \* version of the last cell_store
  obsLoaded   \* version of the client's last cell_load

cellReal == <<option, snapshot, latest, owner, poisoned, written>>
cellVars == <<cellReal, cpc, got, cached, obsStored, obsLoaded>>

Versions == 0..MaxVersion
Snapshots == [version : Versions, value : Value] \cup {[version |-> -1, value |-> Nothing]}

CellTypeOK ==
  /\ option \in BOOLEAN /\ snapshot \in Snapshots
  /\ latest \in Versions /\ owner \in Client \cup {Nothing} /\ poisoned \in BOOLEAN
  /\ cpc \in [Client -> {"idle", "storing", "published", "loaded", "cacheloaded", "panicked"}]
  /\ got \in [Client -> Snapshots] /\ cached \in [Client -> Snapshots]
  /\ written \in [Versions -> Value \cup {Nothing}]
  /\ obsStored \in Versions /\ obsLoaded \in [Client -> -1..MaxVersion]

\* A snapshot of value v at a version; an empty option holds no version.
Versioned(n, v) == [version |-> IF v = Nothing THEN -1 ELSE n, value |-> v]

\* What can be put in: Some or None for an option.
Storable == IF option THEN Value \cup {Nothing} ELSE Value

\* new and empty: version zero.  Cache::new copies the snapshot unreported.
CellInit ==
  /\ option \in BOOLEAN
  /\ \E v \in Storable : /\ snapshot = Versioned(0, v)
                         /\ written = [n \in Versions |-> IF n = 0 THEN v ELSE Nothing]
  /\ latest = 0 /\ owner = Nothing /\ poisoned = FALSE
  /\ cpc = [c \in Client |-> "idle"]
  /\ got = [c \in Client |-> Versioned(0, Nothing)]
  /\ cached = [c \in Client |-> snapshot]
  /\ obsStored = 0 /\ obsLoaded = [c \in Client |-> -1]

CGoto(c, p) == cpc' = [cpc EXCEPT ![c] = p]

-----------------------------------------------------------------------------
(* Faulty variants, used by no specification. *)

\* The mutex is released before the store is reported.
PublishUnlocked(c, v) ==
  /\ cpc[c] = "storing"
  /\ latest' = latest + 1
  /\ snapshot' = Versioned(latest + 1, v)
  /\ written' = [written EXCEPT ![latest + 1] = v]
  /\ owner' = Nothing
  /\ CGoto(c, "published")
  /\ UNCHANGED <<option, poisoned, got, cached, obsStored, obsLoaded>>

-----------------------------------------------------------------------------
\* store: the mutex, or a panic if it is poisoned.
Store(c) ==
  /\ cpc[c] = "idle" /\ owner = Nothing
  /\ IF poisoned THEN CGoto(c, "panicked") /\ owner' = owner
                 ELSE CGoto(c, "storing") /\ owner' = c
  /\ UNCHANGED <<option, snapshot, latest, poisoned, written, got, cached, obsStored, obsLoaded>>

\* next_version and the real store.
Publish(c, v) ==
  /\ cpc[c] = "storing" /\ latest < MaxVersion
  /\ latest' = latest + 1
  /\ snapshot' = Versioned(latest + 1, v)
  /\ written' = [written EXCEPT ![latest + 1] = v]
  /\ CGoto(c, "published")
  /\ UNCHANGED <<option, owner, poisoned, got, cached, obsStored, obsLoaded>>

\* checked_add fails: the guard is dropped by the panic.
StoreExhausted(c) ==
  /\ cpc[c] = "storing" /\ latest = MaxVersion
  /\ poisoned' = TRUE /\ owner' = Nothing
  /\ CGoto(c, "panicked")
  /\ UNCHANGED <<option, snapshot, latest, written, got, cached, obsStored, obsLoaded>>

\* cell_store, still under the mutex.  The version is the one of the call.
ReportStore(c) ==
  /\ cpc[c] = "published"
  /\ obsStored' = latest
  /\ owner' = Nothing
  /\ CGoto(c, "idle")
  /\ UNCHANGED <<option, snapshot, latest, poisoned, written, got, cached, obsLoaded>>

\* The snapshot a load observes: version and value together.
TakeSnapshot == snapshot

\* load and load_full of both cells.
Load(c) ==
  /\ cpc[c] = "idle"
  /\ got' = [got EXCEPT ![c] = TakeSnapshot]
  /\ CGoto(c, "loaded")
  /\ UNCHANGED <<cellReal, cached, obsStored, obsLoaded>>

\* cell_load with the snapshot's version; a load of None reports nothing.
ReportLoad(c) ==
  /\ cpc[c] = "loaded"
  /\ obsLoaded' = [obsLoaded EXCEPT ![c] = IF got[c].value = Nothing THEN @ ELSE got[c].version]
  /\ CGoto(c, "idle")
  /\ UNCHANGED <<cellReal, got, cached, obsStored>>

\* Cache::load takes a fresh snapshot, reports it, and keeps what it has if
\* the version is the same.
CacheLoad(c) ==
  /\ ~option /\ cpc[c] = "idle"
  /\ got' = [got EXCEPT ![c] = TakeSnapshot]
  /\ CGoto(c, "cacheloaded")
  /\ UNCHANGED <<cellReal, cached, obsStored, obsLoaded>>

CacheRevalidate(c) ==
  /\ cpc[c] = "cacheloaded"
  /\ obsLoaded' = [obsLoaded EXCEPT ![c] = got[c].version]
  /\ cached' = [cached EXCEPT ![c] = IF got[c].version # @.version THEN got[c] ELSE @]
  /\ CGoto(c, "idle")
  /\ UNCHANGED <<cellReal, got, obsStored>>

CellNext ==
  \E c \in Client :
    \/ Store(c) \/ (\E v \in Storable : Publish(c, v)) \/ StoreExhausted(c) \/ ReportStore(c)
    \/ Load(c) \/ ReportLoad(c) \/ CacheLoad(c) \/ CacheRevalidate(c)

CellSpec == CellInit /\ [][CellNext]_cellVars

-----------------------------------------------------------------------------
(* Properties. *)

\* A version names one value, in the cell, in every loaded snapshot and in
\* every cache; a consumer that joins cell_load to cell_store by version
\* attributes a load to the store whose value was read.
VersionNamesValue ==
  \A s \in {snapshot} \cup {got[c] : c \in Client} \cup {cached[c] : c \in Client} :
    s.version >= 0 => written[s.version] = s.value

\* A load runs ahead of the reported stores by at most the one store that is
\* between its publication and its event.
LoadsBarelyAhead ==
  \A c \in Client : obsLoaded[c] <= obsStored + (IF owner # Nothing THEN 1 ELSE 0)

\* What a consumer of cell_load and cell_store relies on.
CellSound == CellTypeOK /\ VersionNamesValue /\ LoadsBarelyAhead

\* Stores are reported one by one in the order of their versions, and no
\* client goes back to an older version.
CellOrder ==
  [][/\ obsStored' \in {obsStored, obsStored + 1}
     /\ \A c \in Client : obsLoaded'[c] >= obsLoaded[c]]_cellVars
=============================================================================
