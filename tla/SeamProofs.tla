----------------------------- MODULE SeamProofs -----------------------------
(***************************************************************************)
(* Theorems about the small seams, each for any number of the actors and   *)
(* values of its model: resource ids, the atomic cell, watch and broadcast *)
(* channels, notify and virtual time.  They share no state; each part      *)
(* states the inductive invariant it rests on.                             *)
(***************************************************************************)
EXTENDS ResourceIds, Cell, FanOut, Notify, VirtualTime, FiniteSetTheorems, TLAPS

-----------------------------------------------------------------------------
(* Resource ids. *)

\* A fresh process satisfies the invariant.
LEMMA IdsInit == Init => IInv
<1> SUFFICES ASSUME Init PROVE IInv
  OBVIOUS
<1>1. TypeOK
  BY IdsExist, ResetsBounded DEF Init, TypeOK, Unassigned
<1>2. IdInv
  BY DEF Init, IdInv, Unassigned
<1> QED BY <1>1, <1>2 DEF IInv

\* Every step keeps the variables' types.
LEMMA IdTypesStep == IInv /\ [Next]_vars => TypeOK'
<1> SUFFICES ASSUME IInv, [Next]_vars PROVE TypeOK'
  OBVIOUS
<1> USE IdsExist, ResetsBounded DEF IInv, TypeOK, IdInv, Answer, Unassigned
<1>1. ASSUME NEW r \in Eager, NewEager(r) PROVE TypeOK'
  BY <1>1 DEF NewEager, Resource
<1>2. ASSUME NEW t \in Thread, NEW r \in Resource, Get(t, r) PROVE TypeOK'
  BY <1>2 DEF Get
<1>3. ASSUME NEW t \in Thread, Allocate(t) PROVE TypeOK'
  BY <1>3 DEF Allocate
<1>4. ASSUME NEW t \in Thread, Exhausted(t) PROVE TypeOK'
  BY <1>4 DEF Exhausted
<1>5. ASSUME NEW t \in Thread, Swap(t) PROVE TypeOK'
  <2>1. PICK r \in Resource : r = target[t]
    BY <1>5 DEF Swap
  <2>2. mine[t] \in 1..MaxId
    BY <1>5 DEF Swap
  <2>3. CASE cell[r] = 0
    BY <1>5, <2>1, <2>2, <2>3 DEF Swap
  <2>4. CASE cell[r] # 0
    <3>1. cell[r] \in 1..MaxId
      BY <2>4
    <3> QED BY <1>5, <2>1, <3>1 DEF Swap
  <2> QED BY <2>3, <2>4
<1>6. ASSUME Reset PROVE TypeOK'
  BY <1>6 DEF Reset
<1>7. CASE UNCHANGED vars
  BY <1>7 DEF vars
<1> QED
  BY <1>1, <1>2, <1>3, <1>4, <1>5, <1>6, <1>7 DEF Next

\* Every step keeps ids in one place and below the counter.
LEMMA IdInvStep == IInv /\ [Next]_vars => IdInv'
<1> SUFFICES ASSUME IInv, [Next]_vars PROVE IdInv'
  OBVIOUS
<1> USE IdsExist, ResetsBounded DEF IInv, TypeOK, IdInv, Answer, Unassigned
<1>1. ASSUME NEW r \in Eager, NewEager(r) PROVE IdInv'
  BY <1>1 DEF NewEager, Resource
<1>2. ASSUME NEW t \in Thread, NEW r \in Resource, Get(t, r) PROVE IdInv'
  BY <1>2 DEF Get
<1>3. ASSUME NEW t \in Thread, Allocate(t) PROVE IdInv'
  BY <1>3 DEF Allocate
<1>4. ASSUME NEW t \in Thread, Exhausted(t) PROVE IdInv'
  BY <1>4 DEF Exhausted
<1>5. ASSUME NEW t \in Thread, Swap(t) PROVE IdInv'
  <2>1. PICK r \in Resource : r = target[t]
    BY <1>5 DEF Swap
  <2>2. CASE cell[r] = 0
    BY <1>5, <2>1, <2>2 DEF Swap
  <2>3. CASE cell[r] # 0
    BY <1>5, <2>1, <2>3 DEF Swap
  <2> QED BY <2>2, <2>3
<1>6. ASSUME Reset PROVE IdInv'
  BY <1>6 DEF Reset
<1>7. CASE UNCHANGED vars
  BY <1>7 DEF vars
<1> QED
  BY <1>1, <1>2, <1>3, <1>4, <1>5, <1>6, <1>7 DEF Next

\* The inductive invariant holds in every reachable state.
THEOREM IdsInvariant == Spec => []IInv
<1>1. IInv /\ [Next]_vars => IInv'
  BY IdTypesStep, IdInvStep DEF IInv
<1> QED BY <1>1, IdsInit, PTL DEF Spec

\* However many threads race for a lazy id, they all get the same one.
THEOREM IdsAreUnique == Spec => []OneIdPerResource
<1>1. IInv => OneIdPerResource
  BY DEF IInv, IdInv, OneIdPerResource
<1> QED BY <1>1, IdsInvariant, PTL

\* Without a reset no two resources ever share an id.
THEOREM IdsAreDistinct == Spec => []DistinctIds
<1>1. IInv => DistinctIds
  BY DEF IInv, IdInv, DistinctIds
<1> QED BY <1>1, IdsInvariant, PTL

\* Both at once: the ids the hooks' consumers key their state by are sound.
THEOREM IdsAreSound == Spec => []IdsSound
<1>1. IInv /\ OneIdPerResource /\ DistinctIds => IdsSound
  BY DEF IInv, IdsSound
<1> QED BY <1>1, IdsInvariant, IdsAreUnique, IdsAreDistinct, PTL

-----------------------------------------------------------------------------
(* Counting. *)

\* A member comes or goes.
LEMMA OneMore ==
  ASSUME NEW S, NEW T, NEW x, IsFiniteSet(S), x \notin S, T = S \cup {x}
  PROVE  Cardinality(S) \in Nat /\ Cardinality(T) = Cardinality(S) + 1
  BY FS_AddElement, FS_CardinalityType

LEMMA OneLess ==
  ASSUME NEW S, NEW T, NEW x, IsFiniteSet(S), x \in S, T = S \ {x}
  PROVE  /\ Cardinality(T) \in Nat /\ Cardinality(S) \in Nat
         /\ Cardinality(S) = Cardinality(T) + 1
<1>1. IsFiniteSet(T) /\ Cardinality(T) = Cardinality(S) - 1
  BY FS_RemoveElement
<1> QED BY <1>1, FS_CardinalityType

\* At most one member more.
LEMMA AtMostOneMore ==
  ASSUME NEW S, NEW T, NEW x, IsFiniteSet(S), T \subseteq S \cup {x}
  PROVE  /\ Cardinality(T) \in Nat /\ Cardinality(S) \in Nat
         /\ Cardinality(T) <= Cardinality(S) + 1
<1>1. /\ IsFiniteSet(S \cup {x}) /\ Cardinality(S \cup {x}) \in Nat /\ Cardinality(S) \in Nat
      /\ Cardinality(S \cup {x}) <= Cardinality(S) + 1
  BY FS_AddElement, FS_CardinalityType
<1>2. IsFiniteSet(T) /\ Cardinality(T) <= Cardinality(S \cup {x})
  BY <1>1, FS_Subset
<1> QED BY <1>1, <1>2, FS_CardinalityType

-----------------------------------------------------------------------------
(* The atomic cell.  The invariant says who may be inside the store's      *)
(* mutex, that no version in the cell, in a client's hands or in a report  *)
(* is ahead of the counter, and that a loaded snapshot is no older than    *)
(* what its client reported before.                                        *)

\* A client between the lock and the unlock of store owns the mutex.
MutexInv == \A c \in Client : cpc[c] \in {"storing", "published"} => owner = c

\* The counter is the last reported version, or one ahead while its store is
\* between publication and report.
CountInv ==
  /\ (\E c \in Client : cpc[c] = "published") => latest = obsStored + 1
  /\ (\A c \in Client : cpc[c] # "published") => latest = obsStored

\* Nothing carries a version that was not allocated, and the cell has the
\* newest one unless it is empty.
BehindInv ==
  /\ snapshot.value # Nothing => snapshot.version = latest
  /\ snapshot.version <= latest
  /\ \A c \in Client : got[c].version <= latest /\ cached[c].version <= latest
                       /\ obsLoaded[c] <= latest

\* What a client loaded is no older than what it reported; only an option
\* is ever empty.
FreshInv ==
  /\ ~option => snapshot.value # Nothing
  /\ \A c \in Client :
       /\ cpc[c] = "loaded" /\ got[c].value # Nothing => got[c].version >= obsLoaded[c]
       /\ cpc[c] = "cacheloaded" => got[c].version >= obsLoaded[c]

CellInv == CellTypeOK /\ MutexInv /\ CountInv /\ BehindInv /\ FreshInv /\ VersionNamesValue

-----------------------------------------------------------------------------
\* A snapshot built for a value of the cell is one of the snapshots.
LEMMA VersionedType ==
  ASSUME NEW n \in Versions, NEW v \in Value \cup {Nothing}
  PROVE  /\ Versioned(n, v) \in Snapshots
         /\ Versioned(n, v).value = v
         /\ v # Nothing => Versioned(n, v).version = n
         /\ v = Nothing => Versioned(n, v).version = -1
  BY CellOK DEF Versioned, Snapshots, Versions

\* The parts of a snapshot.
LEMMA SnapshotParts ==
  ASSUME NEW s \in Snapshots
  PROVE  /\ s.version \in -1..MaxVersion /\ s.version \in Int
         /\ s.value \in Value \cup {Nothing}
         /\ s.version >= 0 => s.version \in Versions
         /\ s.value # Nothing => s.version >= 0
  BY CellOK DEF Snapshots, Versions

\* Only values, or None in an option cell, are stored.
LEMMA StorableValues == Storable \subseteq Value \cup {Nothing}
  BY DEF Storable

\* A new cell satisfies the invariant.
LEMMA CellInvInit == CellInit => CellInv
<1> SUFFICES ASSUME CellInit PROVE CellInv
  OBVIOUS
<1>1. PICK v \in Storable : /\ snapshot = Versioned(0, v)
                            /\ written = [n \in Versions |-> IF n = 0 THEN v ELSE Nothing]
  BY DEF CellInit
<1>2. v \in Value \cup {Nothing} /\ 0 \in Versions
  BY StorableValues, CellOK DEF Versions
<1>3. snapshot \in Snapshots /\ snapshot.value = v
      /\ (v # Nothing => snapshot.version = 0) /\ (v = Nothing => snapshot.version = -1)
  BY <1>1, <1>2, VersionedType
<1>4. Versioned(0, Nothing) \in Snapshots /\ Versioned(0, Nothing).version = -1
      /\ Versioned(0, Nothing).value = Nothing
  BY <1>2, VersionedType
<1>5. CellTypeOK
  <2>1. option \in BOOLEAN /\ poisoned \in BOOLEAN
    BY DEF CellInit
  <2>2. written \in [Versions -> Value \cup {Nothing}]
    BY <1>1, <1>2
  <2>3. got \in [Client -> Snapshots] /\ cached \in [Client -> Snapshots]
    BY <1>3, <1>4 DEF CellInit
  <2>4. obsLoaded \in [Client -> -1..MaxVersion]
    BY CellOK DEF CellInit
  <2>5. /\ latest \in Versions /\ obsStored \in Versions /\ owner \in Client \cup {Nothing}
        /\ cpc \in [Client -> {"idle", "storing", "published", "loaded", "cacheloaded", "panicked"}]
    BY <1>2 DEF CellInit
  <2> QED BY <1>3, <2>1, <2>2, <2>3, <2>4, <2>5 DEF CellTypeOK
<1>6. MutexInv /\ CountInv /\ BehindInv
  BY <1>3, <1>4 DEF CellInit, MutexInv, CountInv, BehindInv
<1>7. FreshInv
  BY <1>1, <1>3, <1>4, CellOK DEF CellInit, FreshInv, Storable
<1>8. VersionNamesValue
  BY <1>1, <1>2, <1>3, <1>4 DEF CellInit, VersionNamesValue
<1> QED BY <1>5, <1>6, <1>7, <1>8 DEF CellInv

\* Publishing allocates the next version and puts it in the cell.
LEMMA PublishStep ==
  ASSUME CellInv, NEW c \in Client, NEW v \in Storable, Publish(c, v)
  PROVE  CellInv'
<1> USE DEF CellInv
<1> DEFINE next == latest + 1
<1>1. next \in Versions /\ latest \in Int /\ obsStored \in Int /\ v \in Value \cup {Nothing}
  BY CellOK, StorableValues DEF CellTypeOK, Publish, Versions
<1>2. /\ snapshot' = Versioned(next, v) /\ snapshot' \in Snapshots /\ snapshot'.value = v
      /\ (v # Nothing => snapshot'.version = next) /\ (v = Nothing => snapshot'.version = -1)
  BY <1>1, VersionedType DEF Publish
<1>3. /\ latest' = next /\ cpc' = [cpc EXCEPT ![c] = "published"]
      /\ written' = [written EXCEPT ![next] = v]
      /\ UNCHANGED <<option, owner, poisoned, got, cached, obsStored, obsLoaded>>
      /\ cpc[c] = "storing"
  BY DEF Publish, CGoto
<1>4. CellTypeOK'
  BY <1>1, <1>2, <1>3 DEF CellTypeOK
<1>5. MutexInv'
  BY <1>3 DEF MutexInv, CellTypeOK
<1>6. CountInv'
  <2>1. owner = c
    BY <1>3 DEF MutexInv
  <2>2. \A d \in Client : cpc[d] # "published"
    BY <1>3, <2>1 DEF MutexInv
  <2>3. latest = obsStored
    BY <2>2 DEF CountInv
  <2> QED BY <1>1, <1>3, <2>3 DEF CountInv, CellTypeOK
<1>7. BehindInv'
  <2>1. \A d \in Client : got[d] \in Snapshots /\ cached[d] \in Snapshots /\ obsLoaded[d] \in Int
    BY CellOK DEF CellTypeOK
  <2>2. \A d \in Client : got[d].version \in Int /\ cached[d].version \in Int
    BY <2>1, SnapshotParts
  <2>3. \A d \in Client : got[d].version <= latest /\ cached[d].version <= latest
                          /\ obsLoaded[d] <= latest
    BY DEF BehindInv
  <2>4. snapshot'.version <= next /\ (snapshot'.value # Nothing => snapshot'.version = next)
    BY <1>1, <1>2 DEF Versions
  <2> QED BY <1>1, <1>3, <2>1, <2>2, <2>3, <2>4 DEF BehindInv
<1>8. FreshInv'
  <2>1. ~option => v # Nothing
    BY CellOK DEF Storable
  <2>2. \A d \in Client : cpc'[d] \in {"loaded", "cacheloaded"} => cpc'[d] = cpc[d]
    BY <1>3 DEF CellTypeOK
  <2> QED BY <1>2, <1>3, <2>1, <2>2 DEF FreshInv
<1>9. VersionNamesValue'
  <2>1. written' = [n \in Versions |-> IF n = next THEN v ELSE written[n]]
    BY <1>3 DEF CellTypeOK
  <2>2. ASSUME NEW s \in Snapshots, s.version <= latest, s.version >= 0,
               written[s.version] = s.value
        PROVE  written'[s.version] = s.value
    <3>1. s.version \in Versions /\ s.version # next
      BY <1>1, <2>2, SnapshotParts DEF Versions
    <3> QED BY <2>1, <2>2, <3>1
  <2>3. snapshot'.version >= 0 => written'[snapshot'.version] = snapshot'.value
    BY <1>1, <1>2, <2>1
  <2>4. ASSUME NEW d \in Client PROVE /\ got'[d].version >= 0 => written'[got'[d].version] = got'[d].value
                                      /\ cached'[d].version >= 0 => written'[cached'[d].version] = cached'[d].value
    <3>1. got[d] \in Snapshots /\ cached[d] \in Snapshots
      BY DEF CellTypeOK
    <3>2. got[d].version <= latest /\ cached[d].version <= latest
      BY DEF BehindInv
    <3>3. got'[d] = got[d] /\ cached'[d] = cached[d]
      BY <1>3
    <3>4. /\ got[d].version >= 0 => written[got[d].version] = got[d].value
          /\ cached[d].version >= 0 => written[cached[d].version] = cached[d].value
      BY DEF VersionNamesValue
    <3> QED BY <2>2, <3>1, <3>2, <3>3, <3>4
  <2> QED BY <2>3, <2>4 DEF VersionNamesValue
<1> QED BY <1>4, <1>5, <1>6, <1>7, <1>8, <1>9

\* Taking and giving back the mutex.
LEMMA StoreStep ==
  ASSUME CellInv, NEW c \in Client, Store(c) \/ StoreExhausted(c) \/ ReportStore(c)
  PROVE  CellInv'
<1> USE DEF CellInv
<1>1. UNCHANGED <<option, snapshot, latest, written, got, cached, obsLoaded>>
  BY DEF Store, StoreExhausted, ReportStore
<1>2. \E p \in {"storing", "panicked", "idle"} : cpc' = [cpc EXCEPT ![c] = p]
  BY DEF Store, StoreExhausted, ReportStore, CGoto
<1>3. VersionNamesValue'
  BY <1>1 DEF VersionNamesValue
<1>4. BehindInv'
  BY <1>1 DEF BehindInv
<1>5. FreshInv'
  BY <1>1, <1>2 DEF FreshInv, CellTypeOK
<1>6. CASE Store(c)
  <2>1. CellTypeOK'
    BY <1>6, <1>1, <1>2 DEF Store, CellTypeOK
  <2>2. MutexInv'
    BY <1>6, CellOK DEF Store, CGoto, MutexInv, CellTypeOK
  <2>3. CountInv'
    BY <1>6 DEF Store, CGoto, CountInv, CellTypeOK
  <2> QED BY <1>3, <1>4, <1>5, <2>1, <2>2, <2>3
<1>7. CASE StoreExhausted(c)
  <2>1. CellTypeOK'
    BY <1>7, <1>1, <1>2 DEF StoreExhausted, CellTypeOK
  <2>2. MutexInv'
    BY <1>7 DEF StoreExhausted, CGoto, MutexInv, CellTypeOK
  <2>3. CountInv'
    BY <1>7 DEF StoreExhausted, CGoto, CountInv, CellTypeOK
  <2> QED BY <1>3, <1>4, <1>5, <2>1, <2>2, <2>3
<1>8. CASE ReportStore(c)
  <2>1. CellTypeOK'
    BY <1>8, <1>1, <1>2 DEF ReportStore, CellTypeOK
  <2>2. MutexInv'
    BY <1>8 DEF ReportStore, CGoto, MutexInv, CellTypeOK
  <2>3. CountInv'
    <3>1. \A d \in Client : cpc'[d] # "published"
      BY <1>8 DEF ReportStore, CGoto, MutexInv, CellTypeOK
    <3> QED BY <1>8, <3>1 DEF ReportStore, CountInv
  <2> QED BY <1>3, <1>4, <1>5, <2>1, <2>2, <2>3
<1> QED BY <1>6, <1>7, <1>8

\* Loads change nothing but the client's own state.
LEMMA LoadStep ==
  ASSUME CellInv, NEW c \in Client,
         Load(c) \/ ReportLoad(c) \/ CacheLoad(c) \/ CacheRevalidate(c)
  PROVE  CellInv'
<1> USE DEF CellInv
<1>1. UNCHANGED <<option, snapshot, latest, owner, poisoned, written, obsStored>>
  BY DEF Load, ReportLoad, CacheLoad, CacheRevalidate, cellReal
<1>2. PICK p \in {"loaded", "cacheloaded", "idle"} : cpc' = [cpc EXCEPT ![c] = p]
  BY DEF Load, ReportLoad, CacheLoad, CacheRevalidate, CGoto
<1>3. \A d \in Client : cpc'[d] \in {"storing", "published"} <=> cpc[d] \in {"storing", "published"}
  BY <1>2 DEF Load, ReportLoad, CacheLoad, CacheRevalidate, CellTypeOK
<1>4. \A d \in Client : cpc'[d] = "published" <=> cpc[d] = "published"
  BY <1>2 DEF Load, ReportLoad, CacheLoad, CacheRevalidate, CellTypeOK
<1>5. MutexInv' /\ CountInv'
  BY <1>1, <1>3, <1>4 DEF MutexInv, CountInv
<1>6. /\ snapshot \in Snapshots /\ snapshot.version \in -1..MaxVersion /\ latest \in Int
      /\ got \in [Client -> Snapshots] /\ cached \in [Client -> Snapshots]
      /\ obsLoaded \in [Client -> -1..MaxVersion]
      /\ got[c].version \in -1..MaxVersion
  BY CellOK, SnapshotParts DEF CellTypeOK, Versions
<1>7. CASE Load(c) \/ CacheLoad(c)
  <2>1. got' = [got EXCEPT ![c] = snapshot] /\ UNCHANGED <<cached, obsLoaded>>
    BY <1>7 DEF Load, CacheLoad, TakeSnapshot
  <2>2. CellTypeOK'
    BY <1>1, <1>2, <1>6, <2>1 DEF CellTypeOK
  <2>3. BehindInv'
    BY <1>1, <1>6, <2>1 DEF BehindInv
  <2>4. FreshInv'
    <3>1. snapshot.value # Nothing => snapshot.version >= obsLoaded[c]
      BY DEF BehindInv
    <3>2. cpc'[c] = "cacheloaded" => ~option
      BY <1>2, <1>7 DEF Load, CacheLoad, CGoto, CellTypeOK
    <3>3. \A d \in Client : d # c => cpc'[d] = cpc[d] /\ got'[d] = got[d]
      BY <1>2, <1>6, <2>1 DEF CellTypeOK
    <3>4. got'[c] = snapshot
      BY <1>6, <2>1
    <3> QED BY <1>1, <2>1, <3>1, <3>2, <3>3, <3>4 DEF FreshInv
  <2>5. VersionNamesValue'
    BY <1>1, <1>6, <2>1 DEF VersionNamesValue
  <2> QED BY <1>5, <2>2, <2>3, <2>4, <2>5
<1>8. CASE ReportLoad(c) \/ CacheRevalidate(c)
  <2>1. got' = got /\ cpc' = [cpc EXCEPT ![c] = "idle"]
    BY <1>8 DEF ReportLoad, CacheRevalidate, CGoto
  <2>2. /\ cached' \in [Client -> Snapshots]
        /\ \A d \in Client : cached'[d] \in {cached[d], got[d]}
    BY <1>6, <1>8 DEF ReportLoad, CacheRevalidate
  <2>3. /\ obsLoaded' \in [Client -> -1..MaxVersion]
        /\ \A d \in Client : obsLoaded'[d] \in {obsLoaded[d], got[d].version}
        /\ \A d \in Client : d # c => obsLoaded'[d] = obsLoaded[d]
    BY <1>6, <1>8 DEF ReportLoad, CacheRevalidate
  <2>4. CellTypeOK'
    BY <1>1, <2>1, <2>2, <2>3 DEF CellTypeOK
  <2>5. BehindInv'
    BY <1>1, <2>1, <2>2, <2>3 DEF BehindInv
  <2>6. FreshInv'
    BY <1>1, <2>1, <2>3 DEF FreshInv, CellTypeOK
  <2>7. VersionNamesValue'
    <3>1. ASSUME NEW d \in Client, cached'[d].version >= 0
          PROVE  written'[cached'[d].version] = cached'[d].value
      BY <1>1, <2>2, <3>1 DEF VersionNamesValue
    <3>2. ASSUME NEW d \in Client, got'[d].version >= 0
          PROVE  written'[got'[d].version] = got'[d].value
      BY <1>1, <2>1, <3>2 DEF VersionNamesValue
    <3>3. snapshot'.version >= 0 => written'[snapshot'.version] = snapshot'.value
      BY <1>1 DEF VersionNamesValue
    <3> QED BY <3>1, <3>2, <3>3 DEF VersionNamesValue
  <2> QED BY <1>5, <2>4, <2>5, <2>6, <2>7
<1> QED BY <1>7, <1>8

\* Every step keeps the invariant.
LEMMA CellInvStep == CellInv /\ [CellNext]_cellVars => CellInv'
<1> SUFFICES ASSUME CellInv, [CellNext]_cellVars PROVE CellInv'
  OBVIOUS
<1>1. CASE UNCHANGED cellVars
  BY <1>1 DEF cellVars, cellReal, CellInv, CellTypeOK, MutexInv, CountInv, BehindInv, FreshInv,
              VersionNamesValue
<1>2. CASE CellNext
  BY <1>2, PublishStep, StoreStep, LoadStep DEF CellNext
<1> QED BY <1>1, <1>2

\* The invariant gives the property: a load ahead of the reports means a
\* store inside the mutex.
LEMMA CellInvSound == CellInv => CellSound
<1> SUFFICES ASSUME CellInv PROVE LoadsBarelyAhead
  BY DEF CellInv, CellSound
<1> USE DEF CellInv
<1> SUFFICES ASSUME NEW c \in Client
             PROVE  obsLoaded[c] <= obsStored + (IF owner # Nothing THEN 1 ELSE 0)
  BY DEF LoadsBarelyAhead
<1>1. obsLoaded[c] <= latest /\ obsLoaded[c] \in Int /\ latest \in Int /\ obsStored \in Int
  BY CellOK DEF BehindInv, CellTypeOK, Versions
<1>2. CASE \E d \in Client : cpc[d] = "published"
  BY <1>1, <1>2, CellOK DEF MutexInv, CountInv
<1>3. CASE \A d \in Client : cpc[d] # "published"
  BY <1>1, <1>3 DEF CountInv
<1> QED BY <1>2, <1>3

-----------------------------------------------------------------------------
\* Whatever stores, loads and caches do, a version names one value wherever it
\* is seen and a load is ahead of the reported stores by the one store in the
\* mutex at most (arc_swap.rs store, load, Cache::load).
THEOREM CellIsSound == CellSpec => []CellSound
<1>1. CellSpec => []CellInv
  BY CellInvInit, CellInvStep, PTL DEF CellSpec
<1> QED BY <1>1, CellInvSound, PTL

\* One step of the invariant's states reports the next version or none, and
\* takes no client back.
LEMMA OrderStep ==
  ASSUME CellInv, [CellNext]_cellVars
  PROVE  [/\ obsStored' \in {obsStored, obsStored + 1}
          /\ \A c \in Client : obsLoaded'[c] >= obsLoaded[c]]_cellVars
<1> USE DEF CellInv
<1>0. obsLoaded \in [Client -> -1..MaxVersion] /\ MaxVersion \in Nat
  BY CellOK DEF CellTypeOK
<1>1. ASSUME NEW c \in Client, NEW v \in Storable, Publish(c, v)
      PROVE  UNCHANGED <<obsStored, obsLoaded>>
  BY <1>1 DEF Publish
<1>2. ASSUME NEW c \in Client, Store(c) \/ StoreExhausted(c)
      PROVE  UNCHANGED <<obsStored, obsLoaded>>
  BY <1>2 DEF Store, StoreExhausted
<1>3. ASSUME NEW c \in Client, ReportStore(c)
      PROVE  obsStored' = obsStored + 1 /\ obsLoaded' = obsLoaded
  BY <1>3 DEF ReportStore, CountInv
<1>4. ASSUME NEW c \in Client, Load(c) \/ CacheLoad(c)
      PROVE  UNCHANGED <<obsStored, obsLoaded>>
  BY <1>4 DEF Load, CacheLoad
<1>5. ASSUME NEW c \in Client, ReportLoad(c) \/ CacheRevalidate(c)
      PROVE  obsStored' = obsStored /\ \A d \in Client : obsLoaded'[d] >= obsLoaded[d]
  <2>1. \A d \in Client : obsLoaded[d] >= obsLoaded[d]
    BY <1>0
  <2>2. CASE ReportLoad(c)
    BY <1>0, <2>1, <2>2 DEF ReportLoad, FreshInv
  <2>3. CASE CacheRevalidate(c)
    BY <1>0, <2>1, <2>3 DEF CacheRevalidate, FreshInv
  <2> QED BY <1>5, <2>2, <2>3
<1>6. \A c \in Client : obsLoaded[c] >= obsLoaded[c]
  BY <1>0
<1> QED BY <1>1, <1>2, <1>3, <1>4, <1>5, <1>6 DEF CellNext

\* Stores are reported one by one in version order and no client's reports go
\* back (arc_swap.rs: the report is made under the store's mutex).
THEOREM CellIsOrdered == CellSpec => CellOrder
<1>1. CellSpec => []CellInv
  BY CellInvInit, CellInvStep, PTL DEF CellSpec
<1> QED BY <1>1, OrderStep, PTL DEF CellSpec, CellOrder

-----------------------------------------------------------------------------
(* Watch and broadcast.  The invariant counts the endpoints the events     *)
(* show, ties the real ones to what their owners are doing, and keeps the  *)
(* log, the count of it and a new receiver's position together.            *)

\* A sender that can be called, a receiver whose position was reported.
TxUsable  == {"idle", "asking", "sending", "counting", "answering"}
RxSettled == {"resolving", "idle", "polling", "requesting", "waiting", "answering", "cancelling"}

\* The senders and receivers the events say exist.
ShownTx == {h \in Tx : txpc[h] \in TxUsable \/ (txpc[h] = "copying" /\ fan = "broadcast")}
ShownRx == {r \in Rx : rxpc[r] \in RxSettled \cup {"placing"}}

\* Sends that may still append, and sends that did and are not counted.
Sending  == {h \in Tx : txpc[h] \in {"asking", "sending"}}
Counting == {h \in Tx : txpc[h] = "counting"}

\* The real endpoints: a sender that is being copied from is there.
EndpointInv ==
  /\ \A h \in Tx : h \in tx <=> \/ txpc[h] \in TxUsable \cup {"dropping"}
                                \/ txpc[h] = "copying" /\ fan = "watch"
  /\ \A r \in Rx : r \in rx <=> rxpc[r] \notin {"none", "gone"}
  /\ \A h \in Tx : txpc[h] = "copying" => maker[h] \in Tx /\ txpc[maker[h]] \in TxUsable

ShownInv == obsTx = Cardinality(ShownTx) /\ obsRxs = Cardinality(ShownRx)

\* send_seq lags the log by the sends between append and count.
SeqInv ==
  /\ fan = "watch" => Sending = {} /\ Counting = {}
  /\ fan = "broadcast" => sendSeq + Cardinality(Counting) = tail
  /\ tail + Cardinality(Sending) <= MaxSends

\* Until a send overlaps, a new receiver is at the end of a log all counted.
PlaceInv ==
  \A r \in Rx : Placing(r) /\ fan = "broadcast" /\ ~overlap[r] => start[r] = tail /\ Counting = {}

\* A receive that waits knows that it has to report its end.
AskInv ==
  /\ NoOrphanRequest
  /\ \A r \in Rx : rxpc[r] \in {"requesting", "waiting"} => asked[r]

FanInv == /\ FanTypeOK /\ EndpointInv /\ ShownInv /\ SeqInv /\ PlaceInv /\ AskInv
          /\ PositionExactWhenQuiet
-----------------------------------------------------------------------------
\* The counted sets are finite.
LEMMA FanFinite ==
  /\ IsFiniteSet(ShownTx) /\ Cardinality(ShownTx) \in Nat
  /\ IsFiniteSet(ShownRx) /\ Cardinality(ShownRx) \in Nat
  /\ IsFiniteSet(Sending) /\ Cardinality(Sending) \in Nat
  /\ IsFiniteSet(Counting) /\ Cardinality(Counting) \in Nat
<1>1. ShownTx \in SUBSET Tx /\ Sending \in SUBSET Tx /\ Counting \in SUBSET Tx
      /\ ShownRx \in SUBSET Rx
  BY DEF ShownTx, Sending, Counting, ShownRx
<1> QED BY <1>1, FanBounds, FS_Subset, FS_CardinalityType

\* A new channel satisfies the invariant.
LEMMA FanInvInit == FanInit => FanInv
<1> SUFFICES ASSUME FanInit PROVE FanInv
  OBVIOUS
<1>1. ShownTx = {Tx1} /\ ShownRx = {Rx1} /\ Sending = {} /\ Counting = {}
  BY FanIdsOK DEF FanInit, ShownTx, ShownRx, Sending, Counting, TxUsable, RxSettled
<1>2. FanTypeOK
  <2>1. asked \in [Rx -> BOOLEAN] /\ obsAsk \in [Rx -> BOOLEAN] /\ overlap \in [Rx -> BOOLEAN]
    BY DEF FanInit
  <2>2. txpc \in [Tx -> FanTxPC] /\ rxpc \in [Rx -> FanRxPC]
    BY DEF FanInit, FanTxPC, FanRxPC
  <2>3. txOut \in [Tx -> Results] /\ rxOut \in [Rx -> Results]
        /\ maker \in [Tx \cup Rx -> Tx \cup Rx \cup {Nobody}]
    BY DEF FanInit, Results
  <2>4. /\ fan \in FanKinds /\ tail \in 0..MaxSends /\ sendSeq \in 0..tail
        /\ tx \subseteq Tx /\ rx \subseteq Rx /\ obsTx \in Nat /\ obsRxs \in Nat
        /\ pos \in [Rx -> 0..MaxSends] /\ at \in [Rx -> 0..MaxSends]
        /\ start \in [Rx -> 0..MaxSends]
    BY FanBounds, FanIdsOK DEF FanInit
  <2> QED BY <2>1, <2>2, <2>3, <2>4 DEF FanTypeOK
<1>3. EndpointInv
  BY FanIdsOK DEF FanInit, EndpointInv, TxUsable
<1>4. ShownInv
  BY <1>1, FS_Singleton DEF ShownInv, FanInit
<1>5. SeqInv
  BY <1>1, FS_EmptySet, FanBounds DEF SeqInv, FanInit
<1>6. PlaceInv /\ PositionExactWhenQuiet
  BY DEF PlaceInv, PositionExactWhenQuiet, FanInit, Placing
<1>7. AskInv
  BY DEF AskInv, NoOrphanRequest, FanInit
<1> QED BY <1>2, <1>3, <1>4, <1>5, <1>6, <1>7 DEF FanInv

\* A step of a call of send that neither appends nor counts.
LEMMA SendMoves ==
  ASSUME FanInv, NEW h \in Tx, NEW p \in TxUsable \ {"counting"},
         txpc[h] \in TxUsable \ {"counting"}, txpc' = [txpc EXCEPT ![h] = p],
         p \in {"asking", "sending"} => fan = "broadcast",
         tail + Cardinality(Sending') <= MaxSends, txOut' \in [Tx -> Results],
         UNCHANGED <<fan, fanReal, rxpc, rxOut, maker, asked, fanSeen, fanAux>>
  PROVE  FanInv'
<1> USE DEF FanInv
<1>1. /\ UNCHANGED <<fan, tail, sendSeq, tx, rx, pos, rxpc, rxOut, maker, asked, obsTx, obsRxs,
                     obsAsk, at, start, overlap>>
      /\ \A g \in Tx : txpc'[g] = IF g = h THEN p ELSE txpc[g]
  BY DEF fanReal, fanSeen, fanAux, FanTypeOK
<1>2. ShownTx' = ShownTx /\ ShownRx' = ShownRx /\ Counting' = Counting
  BY <1>1 DEF ShownTx, ShownRx, Counting, TxUsable
<1>3. FanTypeOK'
  <2>1. txpc' \in [Tx -> FanTxPC]
    BY DEF FanTypeOK, FanTxPC, TxUsable
  <2> QED BY <1>1, <2>1 DEF FanTypeOK
<1>4. EndpointInv'
  BY <1>1 DEF EndpointInv, TxUsable
<1>5. ShownInv'
  BY <1>1, <1>2 DEF ShownInv
<1>6. SeqInv'
  <2>1. fan = "watch" => Sending' = {}
    BY <1>1 DEF Sending, SeqInv
  <2> QED BY <1>1, <1>2, <2>1 DEF SeqInv
<1>7. PlaceInv' /\ AskInv' /\ PositionExactWhenQuiet'
  BY <1>1, <1>2 DEF PlaceInv, Placing, AskInv, NoOrphanRequest, PositionExactWhenQuiet
<1> QED BY <1>3, <1>4, <1>5, <1>6, <1>7

\* The real send.
LEMMA FanSendStep ==
  ASSUME FanInv, NEW h \in Tx, FanSend(h)
  PROVE  FanInv'
<1> USE DEF FanInv
<1> DEFINE p == IF fan = "broadcast" /\ rx # {} THEN "counting" ELSE "answering"
<1>1. /\ UNCHANGED <<fan, sendSeq, tx, rx, pos, rxpc, rxOut, maker, asked, obsTx, obsRxs,
                     obsAsk, at, start>>
      /\ \A g \in Tx : txpc'[g] = IF g = h THEN p ELSE txpc[g]
      /\ p \in TxUsable /\ txpc[h] \in TxUsable
      /\ txpc[h] = IF fan = "watch" THEN "idle" ELSE "sending"
  BY DEF FanSend, TxGoto, fanSeen, FanTypeOK, TxUsable
<1>2. ShownTx' = ShownTx /\ ShownRx' = ShownRx
  BY <1>1 DEF ShownTx, ShownRx, TxUsable
<1>3. fan = "watch" \/ fan = "broadcast"
  BY FanKindsOK DEF FanTypeOK
<1>4. /\ tail \in Nat /\ sendSeq \in 0..tail /\ MaxSends \in Nat
      /\ tail' = IF rx = {} THEN tail ELSE tail + 1
  BY FanBounds DEF FanTypeOK, FanSend
<1>5. SeqInv' /\ tail' \in 0..MaxSends
  <2>1. CASE fan = "watch"
    <3>1. Sending' = {} /\ Counting' = {}
      BY <1>1, <2>1 DEF Sending, Counting, SeqInv
    <3>2. tail < MaxSends
      BY <2>1 DEF FanSend
    <3> QED BY <1>1, <1>4, <2>1, <3>1, <3>2, FS_EmptySet DEF SeqInv
  <2>2. CASE fan = "broadcast"
    <3>1. h \in Sending /\ Sending' = Sending \ {h} /\ h \notin Counting
          /\ Counting' = IF rx = {} THEN Counting ELSE Counting \cup {h}
      BY <1>1, <2>2 DEF Sending, Counting
    <3>2. /\ Cardinality(Sending') \in Nat /\ Cardinality(Sending) = Cardinality(Sending') + 1
          /\ Cardinality(Sending) \in Nat
      BY <3>1, FanFinite, OneLess
    <3>3. Cardinality(Counting') = IF rx = {} THEN Cardinality(Counting)
                                              ELSE Cardinality(Counting) + 1
      <4>1. CASE rx = {}
        BY <3>1, <4>1
      <4>2. CASE rx # {}
        BY <3>1, <4>2, FanFinite, OneMore
      <4> QED BY <4>1, <4>2
    <3>4. Cardinality(Counting) \in Nat
      BY FanFinite
    <3>5. fan' = fan /\ sendSeq' = sendSeq
      BY <1>1
    <3>6. sendSeq + Cardinality(Counting) = tail /\ tail + Cardinality(Sending) <= MaxSends
      BY <2>2 DEF SeqInv
    <3>7. tail' + Cardinality(Sending') <= MaxSends /\ tail' \in 0..MaxSends
          /\ sendSeq' + Cardinality(Counting') = tail'
      <4> HIDE DEF p
      <4>1. CASE rx = {}
        BY <1>4, <3>2, <3>3, <3>4, <3>5, <3>6, <4>1
      <4>2. CASE rx # {}
        <5>1. tail' = tail + 1 /\ Cardinality(Counting') = Cardinality(Counting) + 1
          BY <1>4, <3>3, <4>2
        <5>2. tail \in Nat /\ sendSeq \in Nat /\ MaxSends \in Nat
          BY <1>4
        <5> QED BY <3>2, <3>4, <3>5, <3>6, <5>1, <5>2
      <4> QED BY <4>1, <4>2
    <3> QED BY <2>2, <3>5, <3>7 DEF SeqInv
  <2> QED BY <1>3, <2>1, <2>2
<1>6. FanTypeOK'
  <2>1. txpc' \in [Tx -> FanTxPC] /\ txOut' \in [Tx -> Results]
    BY DEF FanSend, TxGoto, FanTypeOK, FanTxPC, Results
  <2>2. overlap' \in [Rx -> BOOLEAN]
    BY DEF FanSend
  <2>3. sendSeq' \in 0..tail'
    BY <1>1, <1>4
  <2> QED BY <1>1, <1>5, <2>1, <2>2, <2>3 DEF FanTypeOK
<1>7. EndpointInv'
  BY <1>1 DEF EndpointInv, TxUsable
<1>8. ShownInv'
  BY <1>1, <1>2 DEF ShownInv
<1>9. PlaceInv'
  <2>1. \A r \in Rx : Placing(r) => r \in rx
    BY DEF EndpointInv, Placing
  <2>2. \A r \in Rx : Placing(r) => overlap'[r]
    BY <2>1 DEF FanSend
  <2> QED BY <1>1, <2>2 DEF PlaceInv, Placing
<1>10. AskInv'
  BY <1>1 DEF AskInv, NoOrphanRequest
<1>11. PositionExactWhenQuiet'
  <2>1. \A r \in Rx : ~overlap'[r] => ~overlap[r]
    BY DEF FanSend
  <2> QED BY <1>1, <2>1 DEF PositionExactWhenQuiet
<1> QED BY <1>5, <1>6, <1>7, <1>8, <1>9, <1>10, <1>11

\* send_seq catches up.
LEMMA FanCountStep ==
  ASSUME FanInv, NEW h \in Tx, FanCount(h)
  PROVE  FanInv'
<1> USE DEF FanInv
<1>1. /\ UNCHANGED <<fan, tail, tx, rx, pos, txOut, rxpc, rxOut, maker, asked, obsTx, obsRxs,
                     obsAsk, at, start, overlap>>
      /\ \A g \in Tx : txpc'[g] = IF g = h THEN "answering" ELSE txpc[g]
      /\ txpc[h] = "counting" /\ sendSeq' = sendSeq + 1
  BY DEF FanCount, TxGoto, fanSeen, fanAux, FanTypeOK
<1>2. ShownTx' = ShownTx /\ ShownRx' = ShownRx /\ Sending' = Sending
  BY <1>1 DEF ShownTx, ShownRx, Sending, TxUsable
<1>3. h \in Counting /\ Counting' = Counting \ {h}
  BY <1>1 DEF Counting
<1>4. fan = "broadcast"
  BY <1>3, FanKindsOK DEF SeqInv, FanTypeOK
<1>5. /\ Cardinality(Counting') \in Nat /\ Cardinality(Counting) = Cardinality(Counting') + 1
      /\ tail \in Nat /\ sendSeq \in Nat
  BY <1>3, FanFinite, OneLess DEF FanTypeOK
<1>6. SeqInv' /\ sendSeq' \in 0..tail'
  BY <1>1, <1>2, <1>4, <1>5 DEF SeqInv
<1>7. FanTypeOK'
  <2>1. txpc' \in [Tx -> FanTxPC]
    BY DEF FanCount, TxGoto, FanTypeOK, FanTxPC
  <2> QED BY <1>1, <1>6, <2>1 DEF FanTypeOK
<1>8. EndpointInv'
  BY <1>1 DEF EndpointInv, TxUsable
<1>9. ShownInv'
  BY <1>1, <1>2 DEF ShownInv
<1>10. PlaceInv'
  BY <1>1, <1>3 DEF PlaceInv, Placing
<1>11. AskInv' /\ PositionExactWhenQuiet'
  BY <1>1 DEF AskInv, NoOrphanRequest, PositionExactWhenQuiet
<1> QED BY <1>6, <1>7, <1>8, <1>9, <1>10, <1>11

\* A sender is being cloned: watch has the clone, broadcast has reported it.
LEMMA CloneTxStep ==
  ASSUME FanInv, NEW h \in Tx, NEW g \in Tx, CloneTx(h, g)
  PROVE  FanInv'
<1> USE DEF FanInv
<1>1. /\ UNCHANGED <<fan, tail, sendSeq, rx, pos, txOut, rxpc, rxOut, asked, obsRxs,
                     obsAsk, at, start, overlap>>
      /\ \A f \in Tx : txpc'[f] = IF f = g THEN "copying" ELSE txpc[f]
      /\ \A f \in Tx : maker'[f] = IF f = g THEN h ELSE maker[f]
      /\ txpc[h] = "idle" /\ txpc[g] = "none"
      /\ tx' = IF fan = "watch" THEN tx \cup {g} ELSE tx
      /\ obsTx' = IF fan = "watch" THEN obsTx ELSE obsTx + 1
  BY DEF CloneTx, TxGoto, fanAux, FanTypeOK
<1>2. ShownRx' = ShownRx /\ Sending' = Sending /\ Counting' = Counting
  BY <1>1 DEF ShownRx, Sending, Counting
<1>3. (fan = "watch" \/ fan = "broadcast") /\ obsTx \in Nat
  BY FanKindsOK DEF FanTypeOK
<1>4. ShownInv' /\ obsTx' \in Nat
  <2>1. CASE fan = "watch"
    <3>1. ShownTx' = ShownTx
      BY <1>1, <2>1 DEF ShownTx, TxUsable
    <3> QED BY <1>1, <1>2, <1>3, <2>1, <3>1 DEF ShownInv
  <2>2. CASE fan = "broadcast"
    <3>1. g \notin ShownTx /\ ShownTx' = ShownTx \cup {g}
      BY <1>1, <2>2 DEF ShownTx, TxUsable
    <3>2. Cardinality(ShownTx') = Cardinality(ShownTx) + 1
      BY <3>1, FanFinite, OneMore
    <3> QED BY <1>1, <1>2, <1>3, <2>2, <3>2 DEF ShownInv
  <2> QED BY <1>3, <2>1, <2>2
<1>5. FanTypeOK'
  <2>1. txpc' \in [Tx -> FanTxPC]
    BY DEF CloneTx, TxGoto, FanTypeOK, FanTxPC
  <2>2. maker' \in [Tx \cup Rx -> Tx \cup Rx \cup {Nobody}]
    BY DEF CloneTx, FanTypeOK
  <2> QED BY <1>1, <1>4, <2>1, <2>2 DEF FanTypeOK
<1>6. EndpointInv'
  BY <1>1, <1>3 DEF EndpointInv, TxUsable
<1>7. SeqInv' /\ PlaceInv' /\ AskInv' /\ PositionExactWhenQuiet'
  BY <1>1, <1>2 DEF SeqInv, PlaceInv, Placing, AskInv, NoOrphanRequest, PositionExactWhenQuiet
<1> QED BY <1>4, <1>5, <1>6, <1>7

\* The clone is there and reported.
LEMMA CloneTxEndStep ==
  ASSUME FanInv, NEW g \in Tx, CloneTxEnd(g)
  PROVE  FanInv'
<1> USE DEF FanInv
<1>1. /\ UNCHANGED <<fan, tail, sendSeq, rx, pos, txOut, rxpc, rxOut, asked, obsRxs,
                     obsAsk, at, start, overlap>>
      /\ \A f \in Tx : txpc'[f] = IF f = g THEN "idle" ELSE txpc[f]
      /\ \A f \in Tx : f # g => maker'[f] = maker[f]
      /\ txpc[g] = "copying"
      /\ tx' = IF fan = "watch" THEN tx ELSE tx \cup {g}
      /\ obsTx' = IF fan = "watch" THEN obsTx + 1 ELSE obsTx
  BY DEF CloneTxEnd, TxGoto, fanAux, FanTypeOK
<1>2. ShownRx' = ShownRx /\ Sending' = Sending /\ Counting' = Counting
  BY <1>1 DEF ShownRx, Sending, Counting
<1>3. (fan = "watch" \/ fan = "broadcast") /\ obsTx \in Nat
  BY FanKindsOK DEF FanTypeOK
<1>4. ShownInv' /\ obsTx' \in Nat
  <2>1. CASE fan = "broadcast"
    <3>1. ShownTx' = ShownTx
      BY <1>1, <2>1 DEF ShownTx, TxUsable
    <3> QED BY <1>1, <1>2, <1>3, <2>1, <3>1 DEF ShownInv
  <2>2. CASE fan = "watch"
    <3>1. g \notin ShownTx /\ ShownTx' = ShownTx \cup {g}
      BY <1>1, <2>2 DEF ShownTx, TxUsable
    <3>2. Cardinality(ShownTx') = Cardinality(ShownTx) + 1
      BY <3>1, FanFinite, OneMore
    <3> QED BY <1>1, <1>2, <1>3, <2>2, <3>2 DEF ShownInv
  <2> QED BY <1>3, <2>1, <2>2
<1>5. FanTypeOK'
  <2>1. txpc' \in [Tx -> FanTxPC]
    BY DEF CloneTxEnd, TxGoto, FanTypeOK, FanTxPC
  <2>2. maker' \in [Tx \cup Rx -> Tx \cup Rx \cup {Nobody}]
    BY DEF CloneTxEnd, FanTypeOK
  <2> QED BY <1>1, <1>4, <2>1, <2>2 DEF FanTypeOK
<1>6. EndpointInv'
  BY <1>1, <1>3 DEF EndpointInv, TxUsable
<1>7. SeqInv' /\ PlaceInv' /\ AskInv' /\ PositionExactWhenQuiet'
  BY <1>1, <1>2 DEF SeqInv, PlaceInv, Placing, AskInv, NoOrphanRequest, PositionExactWhenQuiet
<1> QED BY <1>4, <1>5, <1>6, <1>7

\* A sender's drop is reported; nothing is being made from it.
LEMMA DropTxStep ==
  ASSUME FanInv, NEW h \in Tx, DropTx(h)
  PROVE  FanInv'
<1> USE DEF FanInv
<1>1. /\ UNCHANGED <<fan, tail, sendSeq, tx, rx, pos, txOut, rxpc, rxOut, maker, asked, obsRxs,
                     obsAsk, at, start, overlap>>
      /\ \A f \in Tx : txpc'[f] = IF f = h THEN "dropping" ELSE txpc[f]
      /\ txpc[h] = "idle" /\ obsTx' = obsTx - 1 /\ \A f \in Tx : maker[f] # h
  BY DEF DropTx, TxGoto, Lent, fanReal, fanAux, FanTypeOK
<1>2. ShownRx' = ShownRx /\ Sending' = Sending /\ Counting' = Counting
  BY <1>1 DEF ShownRx, Sending, Counting
<1>3. h \in ShownTx /\ ShownTx' = ShownTx \ {h}
  BY <1>1 DEF ShownTx, TxUsable
<1>4. Cardinality(ShownTx') \in Nat /\ Cardinality(ShownTx) = Cardinality(ShownTx') + 1
  BY <1>3, FanFinite, OneLess
<1>5. ShownInv' /\ obsTx' \in Nat
  BY <1>1, <1>2, <1>4 DEF ShownInv
<1>6. FanTypeOK'
  <2>1. txpc' \in [Tx -> FanTxPC]
    BY DEF DropTx, TxGoto, FanTypeOK, FanTxPC
  <2> QED BY <1>1, <1>5, <2>1 DEF FanTypeOK
<1>7. EndpointInv'
  BY <1>1 DEF EndpointInv, TxUsable
<1>8. SeqInv' /\ PlaceInv' /\ AskInv' /\ PositionExactWhenQuiet'
  BY <1>1, <1>2 DEF SeqInv, PlaceInv, Placing, AskInv, NoOrphanRequest, PositionExactWhenQuiet
<1> QED BY <1>5, <1>6, <1>7, <1>8

\* The real sender goes.
LEMMA DropTxInnerStep ==
  ASSUME FanInv, NEW h \in Tx, DropTxInner(h)
  PROVE  FanInv'
<1> USE DEF FanInv
<1>1. /\ UNCHANGED <<fan, tail, sendSeq, rx, pos, txOut, rxpc, rxOut, maker, asked, obsTx, obsRxs,
                     obsAsk, at, start, overlap>>
      /\ \A f \in Tx : txpc'[f] = IF f = h THEN "gone" ELSE txpc[f]
      /\ txpc[h] = "dropping" /\ tx' = tx \ {h}
  BY DEF DropTxInner, TxGoto, fanSeen, fanAux, FanTypeOK
<1>2. ShownRx' = ShownRx /\ Sending' = Sending /\ Counting' = Counting /\ ShownTx' = ShownTx
  BY <1>1 DEF ShownRx, Sending, Counting, ShownTx, TxUsable
<1>3. FanTypeOK'
  <2>1. txpc' \in [Tx -> FanTxPC]
    BY DEF DropTxInner, TxGoto, FanTypeOK, FanTxPC
  <2> QED BY <1>1, <2>1 DEF FanTypeOK
<1>4. EndpointInv'
  BY <1>1 DEF EndpointInv, TxUsable
<1>5. ShownInv' /\ SeqInv' /\ PlaceInv' /\ AskInv' /\ PositionExactWhenQuiet'
  BY <1>1, <1>2 DEF ShownInv, SeqInv, PlaceInv, Placing, AskInv, NoOrphanRequest,
                    PositionExactWhenQuiet
<1> QED BY <1>3, <1>4, <1>5

\* A receiver is made; a broadcast's starts at the end of the log.
LEMMA MakeRxStep ==
  ASSUME FanInv, NEW e \in Tx \cup Rx, NEW r \in Rx, NEW n \in 0..MaxSends, MakeRx(e, r, n),
         fan = "broadcast" => n = tail
  PROVE  FanInv'
<1> USE DEF FanInv
<1>1. /\ UNCHANGED <<fan, tail, sendSeq, tx, txpc, txOut, rxOut, asked, obsTx, obsRxs, obsAsk, at>>
      /\ rxpc[r] = "none" /\ rx' = rx \cup {r}
      /\ \A q \in Rx : rxpc'[q] = IF q = r THEN "made" ELSE rxpc[q]
      /\ \A q \in Rx : start'[q] = IF q = r THEN n ELSE start[q]
      /\ \A q \in Rx \ {r} : overlap'[q] = overlap[q]
      /\ overlap'[r] <=> Counting # {}
      /\ \A h \in Tx : maker'[h] = maker[h]
  BY FanIdsOK DEF MakeRx, RxGoto, fanSeen, FanTypeOK, Counting
<1>2. ShownRx' = ShownRx /\ Sending' = Sending /\ Counting' = Counting /\ ShownTx' = ShownTx
  BY <1>1 DEF ShownRx, Sending, Counting, ShownTx, RxSettled
<1>3. FanTypeOK'
  <2>1. rxpc' \in [Rx -> FanRxPC]
    BY DEF MakeRx, RxGoto, FanTypeOK, FanRxPC
  <2>2. maker' \in [Tx \cup Rx -> Tx \cup Rx \cup {Nobody}]
    BY DEF MakeRx, FanTypeOK
  <2>3. overlap' \in [Rx -> BOOLEAN]
    BY DEF MakeRx, FanTypeOK
  <2>4. pos' \in [Rx -> 0..MaxSends] /\ start' \in [Rx -> 0..MaxSends]
    BY DEF MakeRx, FanTypeOK
  <2> QED BY <1>1, <2>1, <2>2, <2>3, <2>4 DEF FanTypeOK
<1>4. EndpointInv'
  BY <1>1 DEF EndpointInv
<1>5. ShownInv' /\ SeqInv' /\ AskInv' /\ PositionExactWhenQuiet'
  BY <1>1, <1>2 DEF ShownInv, SeqInv, AskInv, NoOrphanRequest, PositionExactWhenQuiet
<1>6. PlaceInv'
  BY <1>1, <1>2 DEF PlaceInv, Placing
<1> QED BY <1>3, <1>4, <1>5, <1>6

\* endpoint_cloned for a new receiver.
LEMMA ReportMadeStep ==
  ASSUME FanInv, NEW r \in Rx, ReportMade(r)
  PROVE  FanInv'
<1> USE DEF FanInv
<1> DEFINE p == IF fan = "broadcast" THEN "placing" ELSE "idle"
<1>1. /\ UNCHANGED <<fan, tail, sendSeq, tx, rx, pos, txpc, txOut, rxOut, asked, obsTx, obsAsk,
                     at, start, overlap>>
      /\ rxpc[r] = "made" /\ obsRxs' = obsRxs + 1
      /\ \A q \in Rx : rxpc'[q] = IF q = r THEN p ELSE rxpc[q]
      /\ \A h \in Tx : maker'[h] = maker[h]
  BY FanIdsOK DEF ReportMade, RxGoto, fanReal, fanAux, FanTypeOK
<1>2. Sending' = Sending /\ Counting' = Counting /\ ShownTx' = ShownTx
  BY <1>1 DEF Sending, Counting, ShownTx
<1>3. r \notin ShownRx /\ ShownRx' = ShownRx \cup {r}
  BY <1>1 DEF ShownRx, RxSettled
<1>4. Cardinality(ShownRx') = Cardinality(ShownRx) + 1 /\ obsRxs \in Nat
  BY <1>3, FanFinite, OneMore DEF FanTypeOK
<1>5. FanTypeOK'
  <2>1. rxpc' \in [Rx -> FanRxPC]
    BY DEF ReportMade, RxGoto, FanTypeOK, FanRxPC
  <2>2. maker' \in [Tx \cup Rx -> Tx \cup Rx \cup {Nobody}]
    BY DEF ReportMade, FanTypeOK
  <2> QED BY <1>1, <1>4, <2>1, <2>2 DEF FanTypeOK
<1>6. EndpointInv'
  BY <1>1 DEF EndpointInv
<1>7. ShownInv' /\ SeqInv' /\ AskInv'
  BY <1>1, <1>2, <1>4 DEF ShownInv, SeqInv, AskInv, NoOrphanRequest
<1>8. PlaceInv' /\ PositionExactWhenQuiet'
  BY <1>1, <1>2 DEF PlaceInv, Placing, PositionExactWhenQuiet
<1> QED BY <1>5, <1>6, <1>7, <1>8

\* subscribed: the count is the position, unless a send overlapped.
LEMMA ReportSubscribedStep ==
  ASSUME FanInv, NEW r \in Rx, ReportSubscribed(r)
  PROVE  FanInv'
<1> USE DEF FanInv
<1> DEFINE p == IF maker[r] \in Rx THEN "resolving" ELSE "idle"
<1>1. /\ UNCHANGED <<fan, tail, sendSeq, tx, rx, pos, txpc, txOut, rxOut, asked, obsTx, obsRxs,
                     obsAsk, start, overlap>>
      /\ rxpc[r] = "placing"
      /\ \A q \in Rx : at'[q] = IF q = r THEN sendSeq ELSE at[q]
      /\ \A q \in Rx : rxpc'[q] = IF q = r THEN p ELSE rxpc[q]
      /\ \A h \in Tx : maker'[h] = maker[h]
  BY FanIdsOK DEF ReportSubscribed, RxGoto, fanReal, fanSeen, FanTypeOK
<1>2. /\ Sending' = Sending /\ Counting' = Counting /\ ShownTx' = ShownTx
      /\ ShownRx' = ShownRx
  BY <1>1 DEF Sending, Counting, ShownTx, ShownRx, RxSettled
<1>3. FanTypeOK'
  <2>1. rxpc' \in [Rx -> FanRxPC]
    BY DEF ReportSubscribed, RxGoto, FanTypeOK, FanRxPC
  <2>2. maker' \in [Tx \cup Rx -> Tx \cup Rx \cup {Nobody}]
    BY DEF ReportSubscribed, FanTypeOK
  <2>3. sendSeq \in 0..MaxSends
    BY FanBounds DEF FanTypeOK
  <2>4. at' \in [Rx -> 0..MaxSends]
    BY <2>3 DEF ReportSubscribed, FanTypeOK
  <2> QED BY <1>1, <2>1, <2>2, <2>4 DEF FanTypeOK
<1>4. EndpointInv'
  BY <1>1 DEF EndpointInv
<1>5. ShownInv' /\ SeqInv' /\ AskInv' /\ PlaceInv'
  BY <1>1, <1>2 DEF ShownInv, SeqInv, AskInv, NoOrphanRequest, PlaceInv, Placing
<1>6. PositionExactWhenQuiet'
  <2>1. fan = "broadcast" /\ ~overlap[r] => sendSeq = start[r]
    <3>1. SUFFICES ASSUME fan = "broadcast", ~overlap[r] PROVE sendSeq = start[r]
      OBVIOUS
    <3>2. start[r] = tail /\ Counting = {} /\ tail \in Nat /\ sendSeq \in Nat
      BY <1>1, <3>1 DEF PlaceInv, Placing, FanTypeOK
    <3> QED BY <3>1, <3>2, FS_EmptySet DEF SeqInv
  <2> QED BY <1>1, <2>1 DEF PositionExactWhenQuiet
<1> QED BY <1>3, <1>4, <1>5, <1>6

\* A receiver's drop is reported.
LEMMA DropRxStep ==
  ASSUME FanInv, NEW r \in Rx, DropRx(r)
  PROVE  FanInv'
<1> USE DEF FanInv
<1>1. /\ UNCHANGED <<fan, tail, sendSeq, tx, rx, pos, txpc, txOut, rxOut, maker, asked, obsTx,
                     obsAsk, at, start, overlap>>
      /\ rxpc[r] = "idle" /\ obsRxs' = obsRxs - 1
      /\ \A q \in Rx : rxpc'[q] = IF q = r THEN "dropping" ELSE rxpc[q]
  BY DEF DropRx, RxGoto, fanReal, fanAux, FanTypeOK
<1>2. Sending' = Sending /\ Counting' = Counting /\ ShownTx' = ShownTx
  BY <1>1 DEF Sending, Counting, ShownTx
<1>3. r \in ShownRx /\ ShownRx' = ShownRx \ {r}
  BY <1>1 DEF ShownRx, RxSettled
<1>4. Cardinality(ShownRx') \in Nat /\ Cardinality(ShownRx) = Cardinality(ShownRx') + 1
  BY <1>3, FanFinite, OneLess
<1>5. ShownInv' /\ obsRxs' \in Nat
  BY <1>1, <1>2, <1>4 DEF ShownInv
<1>6. FanTypeOK'
  <2>1. rxpc' \in [Rx -> FanRxPC]
    BY DEF DropRx, RxGoto, FanTypeOK, FanRxPC
  <2> QED BY <1>1, <1>5, <2>1 DEF FanTypeOK
<1>7. EndpointInv' /\ SeqInv' /\ AskInv' /\ PlaceInv' /\ PositionExactWhenQuiet'
  BY <1>1, <1>2 DEF EndpointInv, SeqInv, AskInv, NoOrphanRequest, PlaceInv, Placing,
                    PositionExactWhenQuiet
<1> QED BY <1>5, <1>6, <1>7

\* The real receiver goes.
LEMMA DropRxInnerStep ==
  ASSUME FanInv, NEW r \in Rx, DropRxInner(r)
  PROVE  FanInv'
<1> USE DEF FanInv
<1>1. /\ UNCHANGED <<fan, tail, sendSeq, tx, pos, txpc, txOut, rxOut, maker, asked, obsTx, obsRxs,
                     obsAsk, at, start, overlap>>
      /\ rxpc[r] = "dropping" /\ rx' = rx \ {r}
      /\ \A q \in Rx : rxpc'[q] = IF q = r THEN "gone" ELSE rxpc[q]
  BY DEF DropRxInner, RxGoto, fanSeen, fanAux, FanTypeOK
<1>2. /\ Sending' = Sending /\ Counting' = Counting /\ ShownTx' = ShownTx
      /\ ShownRx' = ShownRx
  BY <1>1 DEF Sending, Counting, ShownTx, ShownRx, RxSettled
<1>3. FanTypeOK'
  <2>1. rxpc' \in [Rx -> FanRxPC]
    BY DEF DropRxInner, RxGoto, FanTypeOK, FanRxPC
  <2> QED BY <1>1, <2>1 DEF FanTypeOK
<1>4. EndpointInv' /\ ShownInv' /\ SeqInv'
  BY <1>1, <1>2 DEF EndpointInv, ShownInv, SeqInv
<1>5. AskInv' /\ PlaceInv' /\ PositionExactWhenQuiet'
  BY <1>1, <1>2 DEF AskInv, NoOrphanRequest, PlaceInv, Placing, PositionExactWhenQuiet
<1> QED BY <1>3, <1>4, <1>5

\* A step of a settled receiver, or of a receive on it.
LEMMA ReceiveMoves ==
  ASSUME FanInv, NEW r \in Rx, NEW p \in RxSettled, rxpc[r] \in RxSettled,
         rxpc' = [rxpc EXCEPT ![r] = p],
         maker' = maker \/ maker' = [maker EXCEPT ![r] = Nobody],
         pos' \in [Rx -> 0..MaxSends], rxOut' \in [Rx -> Results],
         asked' \in [Rx -> BOOLEAN], obsAsk' \in [Rx -> BOOLEAN],
         \A q \in Rx \ {r} : asked'[q] = asked[q] /\ obsAsk'[q] = obsAsk[q],
         p \in {"requesting", "waiting"} => asked'[r],
         obsAsk'[r] => p \in {"waiting", "answering", "cancelling"},
         UNCHANGED <<fan, tail, sendSeq, tx, rx, txpc, txOut, obsTx, obsRxs, fanAux>>
  PROVE  FanInv'
<1> USE DEF FanInv
<1>1. /\ UNCHANGED <<at, start, overlap>>
      /\ \A q \in Rx : rxpc'[q] = IF q = r THEN p ELSE rxpc[q]
      /\ \A h \in Tx : maker'[h] = maker[h]
  BY FanIdsOK DEF fanAux, FanTypeOK
<1>2. /\ Sending' = Sending /\ Counting' = Counting /\ ShownTx' = ShownTx
      /\ ShownRx' = ShownRx
  BY <1>1 DEF Sending, Counting, ShownTx, ShownRx
<1>3. FanTypeOK'
  <2>1. rxpc' \in [Rx -> FanRxPC]
    BY DEF FanTypeOK, FanRxPC, RxSettled
  <2>2. maker' \in [Tx \cup Rx -> Tx \cup Rx \cup {Nobody}]
    BY DEF FanTypeOK
  <2> QED BY <1>1, <2>1, <2>2 DEF FanTypeOK
<1>4. EndpointInv' /\ ShownInv' /\ SeqInv'
  BY <1>1, <1>2 DEF EndpointInv, ShownInv, SeqInv, RxSettled
<1>5. AskInv'
  BY <1>1 DEF AskInv, NoOrphanRequest
<1>6. PlaceInv' /\ PositionExactWhenQuiet'
  BY <1>1, <1>2 DEF PlaceInv, Placing, PositionExactWhenQuiet, RxSettled
<1> QED BY <1>3, <1>4, <1>5, <1>6

\* What the real receive leaves behind.
LEMMA ReadType ==
  ASSUME FanInv, NEW r \in Rx, Read(r)
  PROVE  pos' \in [Rx -> 0..MaxSends] /\ rxOut' \in [Rx -> Results]
<1>1. tail \in 0..MaxSends /\ pos \in [Rx -> 0..MaxSends] /\ rxOut \in [Rx -> Results]
  BY DEF FanInv, FanTypeOK
<1>2. rxOut' \in [Rx -> Results]
  BY <1>1 DEF Read, Results
<1>3. pos[r] \in 0..MaxSends
  BY <1>1
<1>4. PICK n \in 0..MaxSends : pos' = [pos EXCEPT ![r] = n]
  <2>1. CASE pos' = pos
    BY <1>1, <1>3, <2>1
  <2>2. CASE pos' = [pos EXCEPT ![r] = tail]
    BY <1>1, <2>2
  <2>3. CASE pos' = [pos EXCEPT ![r] = @ + 1] /\ pos[r] < tail
    <3>1. pos[r] + 1 \in 0..MaxSends
      BY <1>1, <1>3, <2>3, FanBounds
    <3> QED BY <2>3, <3>1
  <2>4. CASE pos' = [pos EXCEPT ![r] = tail - Ring] /\ tail - pos[r] > Ring
    <3>1. tail - Ring \in 0..MaxSends
      BY <1>1, <1>3, <2>4, FanBounds
    <3> QED BY <2>4, <3>1
  <2> QED BY <2>1, <2>2, <2>3, <2>4 DEF Read
<1> QED BY <1>1, <1>2, <1>4

\* Every step of a receive.
LEMMA ReceiveStep ==
  ASSUME FanInv, NEW r \in Rx,
         \/ ReportResubscribed(r) \/ BorrowAndUpdate(r) \/ FanTryRecv(r) \/ FanRecv(r)
         \/ FanPollReady(r) \/ FanPollPending(r) \/ FanReportRequested(r)
         \/ FanReportReceived(r) \/ FanDropFuture(r) \/ FanReportDropped(r)
  PROVE  FanInv'
<1>1. /\ pos \in [Rx -> 0..MaxSends] /\ rxOut \in [Rx -> Results] /\ tail \in 0..MaxSends
      /\ rxpc \in [Rx -> FanRxPC]
  BY DEF FanInv, FanTypeOK
<1>2. asked \in [Rx -> BOOLEAN] /\ obsAsk \in [Rx -> BOOLEAN]
  BY DEF FanInv, FanTypeOK
<1>3. rxpc[r] \in {"requesting", "waiting"} => asked[r]
  BY DEF FanInv, AskInv
<1>4. obsAsk[r] => rxpc[r] \in {"waiting", "answering", "cancelling"}
  BY DEF FanInv, AskInv, NoOrphanRequest
<1> USE DEF RxGoto, fanReal, fanSeen, fanPcs
<1>5. CASE ReportResubscribed(r)
  <2>1. /\ rxpc[r] = "resolving" /\ rxpc' = [rxpc EXCEPT ![r] = "idle"]
        /\ maker' = [maker EXCEPT ![r] = Nobody]
        /\ UNCHANGED <<fan, tail, sendSeq, tx, rx, pos, txpc, txOut, rxOut, asked, obsTx, obsRxs,
                       obsAsk, fanAux>>
    BY <1>5 DEF ReportResubscribed
  <2> QED BY <1>1, <1>2, <1>4, <2>1, ReceiveMoves DEF RxSettled
<1>6. CASE BorrowAndUpdate(r)
  <2>1. /\ rxpc[r] = "idle" /\ rxpc' = [rxpc EXCEPT ![r] = "idle"]
        /\ pos' \in [Rx -> 0..MaxSends]
        /\ UNCHANGED <<fan, tail, sendSeq, tx, rx, txpc, txOut, rxOut, maker, asked, obsTx, obsRxs,
                       obsAsk, fanAux>>
    BY <1>1, <1>6 DEF BorrowAndUpdate
  <2> QED BY <1>1, <1>2, <1>4, <2>1, ReceiveMoves DEF RxSettled
<1>7. CASE FanTryRecv(r)
  <2>1. /\ rxpc[r] = "idle" /\ rxpc' = [rxpc EXCEPT ![r] = "answering"]
        /\ UNCHANGED <<fan, tail, sendSeq, tx, rx, txpc, txOut, maker, asked, obsTx, obsRxs,
                       obsAsk, fanAux>>
    BY <1>7 DEF FanTryRecv
  <2>2. pos' \in [Rx -> 0..MaxSends] /\ rxOut' \in [Rx -> Results]
    <3>1. CASE Read(r)
      BY <3>1, ReadType
    <3>2. CASE ~Read(r)
      BY <1>1, <1>7, <3>2 DEF FanTryRecv, Results
    <3> QED BY <3>1, <3>2
  <2> QED BY <1>1, <1>2, <1>4, <2>1, <2>2, ReceiveMoves DEF RxSettled
<1>8. CASE FanRecv(r)
  <2>1. /\ rxpc[r] = "idle" /\ rxpc' = [rxpc EXCEPT ![r] = "polling"]
        /\ UNCHANGED <<fan, tail, sendSeq, tx, rx, pos, txpc, txOut, rxOut, maker, asked, obsTx,
                       obsRxs, obsAsk, fanAux>>
    BY <1>8 DEF FanRecv
  <2> QED BY <1>1, <1>2, <1>4, <2>1, ReceiveMoves DEF RxSettled
<1>9. CASE FanPollReady(r)
  <2>1. /\ rxpc[r] \in {"polling", "waiting"} /\ rxpc' = [rxpc EXCEPT ![r] = "answering"]
        /\ UNCHANGED <<fan, tail, sendSeq, tx, rx, txpc, txOut, maker, asked, obsTx, obsRxs,
                       obsAsk, fanAux>>
        /\ Read(r)
    BY <1>9 DEF FanPollReady
  <2>2. pos' \in [Rx -> 0..MaxSends] /\ rxOut' \in [Rx -> Results]
    BY <2>1, ReadType
  <2> QED BY <1>1, <1>2, <1>4, <2>1, <2>2, ReceiveMoves DEF RxSettled
<1>10. CASE FanPollPending(r)
  <2>1. /\ rxpc[r] = "polling" /\ rxpc' = [rxpc EXCEPT ![r] = "requesting"]
        /\ asked' = [asked EXCEPT ![r] = TRUE]
        /\ UNCHANGED <<fan, tail, sendSeq, tx, rx, pos, txpc, txOut, rxOut, maker, obsTx,
                       obsRxs, obsAsk, fanAux>>
    BY <1>10 DEF FanPollPending
  <2>2. asked' \in [Rx -> BOOLEAN] /\ asked'[r] /\ \A q \in Rx \ {r} : asked'[q] = asked[q]
    BY <1>2, <2>1
  <2> QED BY <1>1, <1>2, <1>4, <2>1, <2>2, ReceiveMoves DEF RxSettled
<1>11. CASE FanReportRequested(r)
  <2>1. /\ rxpc[r] = "requesting" /\ rxpc' = [rxpc EXCEPT ![r] = "waiting"]
        /\ obsAsk' = [obsAsk EXCEPT ![r] = TRUE]
        /\ UNCHANGED <<fan, tail, sendSeq, tx, rx, pos, txpc, txOut, rxOut, maker, asked, obsTx,
                       obsRxs, fanAux>>
    BY <1>11 DEF FanReportRequested
  <2>2. obsAsk' \in [Rx -> BOOLEAN] /\ \A q \in Rx \ {r} : obsAsk'[q] = obsAsk[q]
    BY <1>2, <2>1
  <2> QED BY <1>1, <1>2, <1>3, <2>1, <2>2, ReceiveMoves DEF RxSettled
<1>12. CASE FanReportReceived(r)
  <2>1. /\ rxpc[r] = "answering" /\ rxpc' = [rxpc EXCEPT ![r] = "idle"]
        /\ obsAsk' = [obsAsk EXCEPT ![r] = FALSE] /\ asked' = [asked EXCEPT ![r] = FALSE]
        /\ rxOut' = [rxOut EXCEPT ![r] = "none"]
        /\ UNCHANGED <<fan, tail, sendSeq, tx, rx, pos, txpc, txOut, maker, obsTx,
                       obsRxs, fanAux>>
    BY <1>12 DEF FanReportReceived
  <2>2. /\ obsAsk' \in [Rx -> BOOLEAN] /\ asked' \in [Rx -> BOOLEAN] /\ ~obsAsk'[r]
        /\ \A q \in Rx \ {r} : asked'[q] = asked[q] /\ obsAsk'[q] = obsAsk[q]
    BY <1>2, <2>1
  <2>3. rxOut' \in [Rx -> Results]
    BY <1>1, <2>1 DEF Results
  <2> QED BY <1>1, <2>1, <2>2, <2>3, ReceiveMoves DEF RxSettled
<1>13. CASE FanDropFuture(r)
  <2> DEFINE p == IF asked[r] THEN "cancelling" ELSE "idle"
  <2>1. /\ rxpc[r] \in {"polling", "waiting"} /\ rxpc' = [rxpc EXCEPT ![r] = p]
        /\ UNCHANGED <<fan, tail, sendSeq, tx, rx, pos, txpc, txOut, rxOut, maker, asked, obsTx,
                       obsRxs, obsAsk, fanAux>>
    BY <1>13 DEF FanDropFuture
  <2>2. /\ p \in RxSettled /\ p \notin {"requesting", "waiting"}
        /\ obsAsk[r] => p \in {"waiting", "answering", "cancelling"}
    BY <1>3, <1>4, <2>1 DEF RxSettled
  <2>3. rxpc[r] \in RxSettled
    BY <2>1 DEF RxSettled
  <2> HIDE DEF p
  <2> QED BY <1>1, <1>2, <2>1, <2>2, <2>3, ReceiveMoves
<1>14. CASE FanReportDropped(r)
  <2>1. /\ rxpc[r] = "cancelling" /\ rxpc' = [rxpc EXCEPT ![r] = "idle"]
        /\ obsAsk' = [obsAsk EXCEPT ![r] = FALSE] /\ asked' = [asked EXCEPT ![r] = FALSE]
        /\ UNCHANGED <<fan, tail, sendSeq, tx, rx, pos, txpc, txOut, rxOut, maker, obsTx,
                       obsRxs, fanAux>>
    BY <1>14 DEF FanReportDropped
  <2>2. /\ obsAsk' \in [Rx -> BOOLEAN] /\ asked' \in [Rx -> BOOLEAN] /\ ~obsAsk'[r]
        /\ \A q \in Rx \ {r} : asked'[q] = asked[q] /\ obsAsk'[q] = obsAsk[q]
    BY <1>2, <2>1
  <2> QED BY <1>1, <2>1, <2>2, ReceiveMoves DEF RxSettled
<1> QED BY <1>5, <1>6, <1>7, <1>8, <1>9, <1>10, <1>11, <1>12, <1>13, <1>14

\* Every step of a send that neither appends nor counts.
LEMMA SendStep ==
  ASSUME FanInv, NEW h \in Tx, FanAsk(h) \/ FanReportAsk(h) \/ FanReportSent(h)
  PROVE  FanInv'
<1>1. /\ txpc \in [Tx -> FanTxPC] /\ txOut \in [Tx -> Results] /\ tail \in Nat /\ MaxSends \in Nat
      /\ tail + Cardinality(Sending) <= MaxSends
  BY FanBounds DEF FanInv, FanTypeOK, SeqInv
<1>2. CASE FanAsk(h)
  <2>1. h \notin Sending /\ Sending' = Sending \cup {h}
    BY <1>1, <1>2 DEF FanAsk, TxGoto, Sending
  <2>2. Cardinality(Sending') = Cardinality(Sending) + 1 /\ Cardinality(Sending) \in Nat
    BY <2>1, FanFinite, OneMore
  <2>3. tail + Cardinality(Sending) < MaxSends
    BY <1>2 DEF FanAsk, Sending
  <2>4. tail + Cardinality(Sending') <= MaxSends
    BY <1>1, <2>2, <2>3
  <2> QED BY <1>1, <1>2, <2>4, SendMoves DEF FanAsk, TxGoto, TxUsable
<1>3. CASE FanReportAsk(h)
  <2>1. Sending' = Sending /\ h \in Sending
    BY <1>1, <1>3 DEF FanReportAsk, TxGoto, Sending
  <2>2. fan = "broadcast"
    BY <2>1, FanKindsOK DEF FanInv, FanTypeOK, SeqInv
  <2> QED BY <1>1, <1>3, <2>1, <2>2, SendMoves DEF FanReportAsk, TxGoto, TxUsable
<1>4. CASE FanReportSent(h)
  <2>1. Sending' = Sending
    BY <1>1, <1>4 DEF FanReportSent, TxGoto, Sending
  <2>2. txOut' \in [Tx -> Results]
    BY <1>1, <1>4 DEF FanReportSent, Results
  <2> QED BY <1>1, <1>4, <2>1, <2>2, SendMoves DEF FanReportSent, TxGoto, TxUsable
<1> QED BY <1>2, <1>3, <1>4

\* Every step keeps the invariant.
LEMMA FanInvStep == FanInv /\ [FanNext]_fanVars => FanInv'
<1> SUFFICES ASSUME FanInv, [FanNext]_fanVars PROVE FanInv'
  OBVIOUS
<1>1. ASSUME NEW h \in Tx, FanTxNext(h) PROVE FanInv'
  <2>1. ASSUME NEW r \in Rx, Subscribe(h, r) PROVE FanInv'
    BY <2>1, MakeRxStep DEF Subscribe, FanInv, FanTypeOK
  <2> QED BY <1>1, <2>1, SendStep, FanSendStep, FanCountStep, CloneTxStep, CloneTxEndStep,
             DropTxStep, DropTxInnerStep DEF FanTxNext
<1>2. ASSUME NEW r \in Rx, FanRxNext(r) PROVE FanInv'
  <2>1. ASSUME NEW q \in Rx, Resubscribe(q, r) PROVE FanInv'
    BY <2>1, MakeRxStep DEF Resubscribe, FanInv, FanTypeOK
  <2>2. ASSUME NEW q \in Rx, CloneRx(q, r) PROVE FanInv'
    BY <2>2, MakeRxStep DEF CloneRx, FanInv, FanTypeOK
  <2> QED BY <1>2, <2>1, <2>2, ReportMadeStep, ReportSubscribedStep, DropRxStep,
             DropRxInnerStep, ReceiveStep DEF FanRxNext
<1>3. CASE UNCHANGED fanVars
  <2>1. UNCHANGED <<fan, tail, sendSeq, tx, rx, pos, txpc, txOut, rxpc, rxOut, maker, asked,
                    obsTx, obsRxs, obsAsk, at, start, overlap>>
    BY <1>3 DEF fanVars, fanReal, fanPcs, fanSeen, fanAux
  <2>2. ShownTx' = ShownTx /\ ShownRx' = ShownRx /\ Sending' = Sending /\ Counting' = Counting
    BY <2>1 DEF ShownTx, ShownRx, Sending, Counting
  <2>3. FanTypeOK' /\ EndpointInv'
    BY <2>1 DEF FanInv, FanTypeOK, EndpointInv
  <2>4. ShownInv' /\ SeqInv' /\ PlaceInv' /\ AskInv' /\ PositionExactWhenQuiet'
    BY <2>1, <2>2 DEF FanInv, ShownInv, SeqInv, PlaceInv, Placing, AskInv, NoOrphanRequest,
                      PositionExactWhenQuiet
  <2> QED BY <2>3, <2>4 DEF FanInv
<1> QED BY <1>1, <1>2, <1>3 DEF FanNext

\* The invariant is enough: an endpoint the events count is real, or is being
\* made from one that is.
LEMMA FanInvSound == FanInv => FanSound
<1> SUFFICES ASSUME FanInv PROVE FanSound
  OBVIOUS
<1>1. tx = {} => ShownTx = {}
  <2>1. SUFFICES ASSUME tx = {}, NEW h \in ShownTx PROVE FALSE
    OBVIOUS
  <2>2. h \in Tx /\ txpc[h] = "copying"
    BY <2>1 DEF FanInv, EndpointInv, ShownTx
  <2>3. maker[h] \in Tx /\ txpc[maker[h]] \in TxUsable
    BY <2>2 DEF FanInv, EndpointInv
  <2> QED BY <2>1, <2>3 DEF FanInv, EndpointInv
<1>2. rx = {} => ShownRx = {}
  BY DEF FanInv, EndpointInv, ShownRx, RxSettled
<1>3. EndpointsCovered
  BY <1>1, <1>2, FS_EmptySet DEF EndpointsCovered, FanInv, ShownInv
<1> QED BY <1>3 DEF FanInv, FanSound, AskInv

\* What a consumer of watch and broadcast events relies on, for any senders,
\* receivers, ring and number of sends: the last endpoint is never really gone
\* before its drop was reported, a broadcast receiver that no send overlapped
\* starts where subscribed says, and no reported receive is left unanswered.
THEOREM FanIsSound == FanSpec => []FanSound
<1>1. FanSpec => []FanInv
  BY FanInvInit, FanInvStep, PTL DEF FanSpec
<1> QED BY <1>1, FanInvSound, PTL

-----------------------------------------------------------------------------
(* Notify.  The invariant accounts for every notify_one that was reported: *)
(* on its way, stored, given to one waiter, or merged into the permit.     *)

\* Waiters that were given a notify_one, and notifiers on their way.
GotOne    == {w \in Waiter : woken[w] = "one"}
OnesToGo  == {n \in Notifier : nowpc[n] = "one"}
AllsToGo  == {n \in Notifier : nowpc[n] = "all"}

\* A waiter in the list, or woken, has made its future.
LineInv ==
  /\ \A i \in 1..Len(line) : wpc[line[i]] # "unused"
  /\ \A w \in Waiter : wpc[w] = "unused" => woken[w] = "no"

\* A notify_one is on its way, the stored permit, with one waiter, or merged.
OnesInv ==
  Cardinality(GotOne) + (IF permit THEN 1 ELSE 0) + Cardinality(OnesToGo) <= obsOnes

\* Whom notify_waiters woke was there before the round.
AllsInv ==
  /\ rounds + Cardinality(AllsToGo) = obsAlls
  /\ obsOnes + obsAlls <= MaxNotifies
  /\ \A w \in Waiter : round[w] <= rounds /\ (woken[w] = "all" => round[w] < rounds)

NotifyInv == NotifyTypeOK /\ LineInv /\ OnesInv /\ AllsInv
-----------------------------------------------------------------------------
\* The counted sets are finite.
LEMMA NotifyFinite ==
  /\ IsFiniteSet(GotOne) /\ Cardinality(GotOne) \in Nat
  /\ IsFiniteSet(OnesToGo) /\ Cardinality(OnesToGo) \in Nat
  /\ IsFiniteSet(AllsToGo) /\ Cardinality(AllsToGo) \in Nat
<1>1. GotOne \in SUBSET Waiter /\ OnesToGo \in SUBSET Notifier /\ AllsToGo \in SUBSET Notifier
  BY DEF GotOne, OnesToGo, AllsToGo
<1> QED BY <1>1, NotifyBounds, FS_Subset, FS_CardinalityType

\* What is left of the list when a node is unlinked was in it before.
LEMMA WithoutKeeps ==
  ASSUME line \in Seq(Waiter), NEW w \in Waiter
  PROVE  /\ Without(w) \in Seq(Waiter)
         /\ \A i \in 1..Len(Without(w)) : \E j \in 1..Len(line) : Without(w)[i] = line[j]
<1>1. CASE \E i \in 1..Len(line) : line[i] = w
  <2> DEFINE k == CHOOSE j \in 1..Len(line) : line[j] = w
             a == SubSeq(line, 1, k - 1)
             b == SubSeq(line, k + 1, Len(line))
  <2>1. k \in 1..Len(line)
    BY <1>1
  <2>2. Without(w) = a \o b
    BY <1>1 DEF Without
  <2> HIDE DEF k
  <2>3. /\ a \in Seq(Waiter) /\ Len(a) = k - 1 /\ \A i \in 1..(k - 1) : a[i] = line[i]
    BY <2>1
  <2>4. /\ b \in Seq(Waiter) /\ Len(b) = Len(line) - k
        /\ \A i \in 1..(Len(line) - k) : b[i] = line[k + i]
    BY <2>1
  <2> HIDE DEF a, b
  <2>5. /\ a \o b \in Seq(Waiter) /\ Len(a \o b) = Len(line) - 1
        /\ \A i \in 1..(Len(line) - 1) : (a \o b)[i] = IF i <= k - 1 THEN a[i] ELSE b[i - (k - 1)]
    <3>1. a \o b \in Seq(Waiter)
      BY <2>3, <2>4
    <3>2. Len(a \o b) = Len(a) + Len(b) /\ Len(line) \in Nat
      BY <2>3, <2>4, SMTT(60)
    <3>3. \A i \in 1..(Len(a) + Len(b)) : (a \o b)[i] = IF i <= Len(a) THEN a[i] ELSE b[i - Len(a)]
      <4>1. a \in Seq(Waiter) /\ b \in Seq(Waiter)
        BY <2>3, <2>4
      <4> QED BY <4>1
    <3>4. Len(a) + Len(b) = Len(line) - 1
      BY <2>1, <2>3, <2>4, <3>2
    <3> QED BY <2>3, <3>1, <3>2, <3>3, <3>4
  <2>6. ASSUME NEW i \in 1..(Len(line) - 1)
        PROVE  \E j \in 1..Len(line) : (a \o b)[i] = line[j]
    <3>1. CASE i <= k - 1
      BY <2>1, <2>3, <2>5, <3>1
    <3>2. CASE ~(i <= k - 1)
      <4>1. /\ i - (k - 1) \in 1..(Len(line) - k) /\ k + (i - (k - 1)) = i + 1
            /\ i + 1 \in 1..Len(line)
        BY <2>1, <3>2
      <4>2. (a \o b)[i] = line[i + 1]
        BY <2>4, <2>5, <3>2, <4>1
      <4> QED BY <4>1, <4>2
    <3> QED BY <3>1, <3>2
  <2> QED BY <2>2, <2>5, <2>6
<1>2. CASE ~\E i \in 1..Len(line) : line[i] = w
  BY <1>2 DEF Without
<1> QED BY <1>1, <1>2

\* A notify with nobody there satisfies the invariant.
LEMMA NotifyInvInit == NotifyInit => NotifyInv
<1> SUFFICES ASSUME NotifyInit PROVE NotifyInv
  OBVIOUS
<1>1. GotOne = {} /\ OnesToGo = {} /\ AllsToGo = {}
  BY DEF NotifyInit, GotOne, OnesToGo, AllsToGo
<1>2. NotifyTypeOK
  <2>1. permit \in BOOLEAN
    BY DEF NotifyInit
  <2>2. /\ line \in Seq(Waiter) /\ rounds \in 0..MaxNotifies
        /\ obsOnes \in 0..MaxNotifies /\ obsAlls \in 0..MaxNotifies
        /\ round \in [Waiter -> 0..MaxNotifies]
    BY NotifyBounds DEF NotifyInit
  <2> QED BY <2>1, <2>2 DEF NotifyInit, NotifyTypeOK
<1>3. LineInv
  BY DEF NotifyInit, LineInv
<1>4. OnesInv /\ AllsInv
  BY <1>1, FS_EmptySet, NotifyBounds DEF NotifyInit, OnesInv, AllsInv
<1> QED BY <1>2, <1>3, <1>4 DEF NotifyInv

\* notify_one on the list q of waiters that made their futures.
LEMMA WakeOneKeeps ==
  ASSUME NotifyInv, NEW q \in Seq(Waiter), NEW had \in [Waiter -> {"no", "one", "all"}],
         \A i \in 1..Len(q) : wpc[q[i]] # "unused",
         \A w \in Waiter : had[w] # "no" => woken[w] # "no",
         \A w \in Waiter : had[w] = "all" => woken[w] = "all",
         WakeOne(q, had)
  PROVE  /\ permit' \in BOOLEAN /\ line' \in Seq(Waiter)
         /\ woken' \in [Waiter -> {"no", "one", "all"}]
         /\ \A i \in 1..Len(line') : wpc[line'[i]] # "unused"
         /\ \A w \in Waiter : wpc[w] = "unused" => woken'[w] = "no"
         /\ \A w \in Waiter : woken'[w] = "all" => woken[w] = "all"
         /\ LET S == {w \in Waiter : had[w] = "one"}
            IN Cardinality(GotOne') + (IF permit' THEN 1 ELSE 0)
                 <= Cardinality(S) + (IF permit THEN 1 ELSE 0) + 1
<1> DEFINE S == {w \in Waiter : had[w] = "one"}
<1>0. IsFiniteSet(S) /\ Cardinality(S) \in Nat
  <2>1. S \in SUBSET Waiter
    OBVIOUS
  <2> QED BY <2>1, NotifyBounds, FS_Subset, FS_CardinalityType
<1>00. \A w \in Waiter : wpc[w] = "unused" => had[w] = "no"
  BY DEF NotifyInv, LineInv
<1>1. permit \in BOOLEAN
  BY DEF NotifyInv, NotifyTypeOK
<1>2. CASE q = << >>
  <2>1. permit' = TRUE /\ line' = q /\ woken' = had
    BY <1>2 DEF WakeOne
  <2>2. GotOne' = S
    BY <2>1 DEF GotOne
  <2>3. Cardinality(GotOne') + (IF permit' THEN 1 ELSE 0)
          <= Cardinality(S) + (IF permit THEN 1 ELSE 0) + 1
    BY <1>0, <1>1, <2>1, <2>2
  <2> QED BY <1>00, <2>1, <2>3
<1>3. CASE q # << >>
  <2>1. permit' = permit /\ line' = Tail(q) /\ woken' = [had EXCEPT ![Head(q)] = "one"]
    BY <1>3 DEF WakeOne
  <2>2. /\ Head(q) \in Waiter /\ wpc[Head(q)] # "unused" /\ Tail(q) \in Seq(Waiter)
        /\ \A i \in 1..Len(Tail(q)) : Tail(q)[i] = q[i + 1] /\ i + 1 \in 1..Len(q)
    BY <1>3
  <2>3. GotOne' \subseteq S \cup {Head(q)}
    BY <2>1, <2>2 DEF GotOne
  <2>4. Cardinality(GotOne') <= Cardinality(S) + 1 /\ Cardinality(GotOne') \in Nat
    BY <1>0, <2>3, AtMostOneMore
  <2>5. Cardinality(GotOne') + (IF permit' THEN 1 ELSE 0)
          <= Cardinality(S) + (IF permit THEN 1 ELSE 0) + 1
    BY <1>0, <1>1, <2>1, <2>4
  <2>6. woken' \in [Waiter -> {"no", "one", "all"}]
        /\ \A w \in Waiter : woken'[w] = IF w = Head(q) THEN "one" ELSE had[w]
    BY <2>1, <2>2
  <2> QED BY <1>00, <1>1, <2>1, <2>2, <2>5, <2>6
<1> QED BY <1>2, <1>3

\* A step that moves one waiter and wakes nobody.
LEMMA WaiterMoves ==
  ASSUME NotifyInv, NEW w \in Waiter,
         NEW p \in {"made", "queued", "waiting", "ready", "cancelling", "done"}, WGoto(w, p),
         round' \in [Waiter -> 0..MaxNotifies],
         \A v \in Waiter : round'[v] <= rounds /\ (woken[v] = "all" => round'[v] < rounds),
         obsWait' \in [Waiter -> {"none", "requested", "resolved", "dropped"}],
         UNCHANGED <<notifyReal, woken, nowpc, obsOnes, obsAlls>>
  PROVE  NotifyInv'
<1> USE DEF NotifyInv
<1>1. /\ UNCHANGED <<permit, line, rounds>>
      /\ \A v \in Waiter : wpc'[v] = IF v = w THEN p ELSE wpc[v]
  BY DEF notifyReal, WGoto, NotifyTypeOK
<1>2. NotifyTypeOK'
  <2>1. wpc' \in [Waiter -> {"unused", "made", "queued", "waiting", "ready", "cancelling", "done"}]
    BY DEF WGoto, NotifyTypeOK
  <2> QED BY <1>1, <2>1 DEF NotifyTypeOK
<1>3. LineInv'
  <2>1. \A i \in 1..Len(line) : line[i] \in Waiter
    BY DEF NotifyTypeOK
  <2> QED BY <1>1, <2>1 DEF LineInv
<1>4. GotOne' = GotOne /\ OnesToGo' = OnesToGo /\ AllsToGo' = AllsToGo
  BY DEF GotOne, OnesToGo, AllsToGo
<1>5. OnesInv' /\ AllsInv'
  BY <1>1, <1>4 DEF OnesInv, AllsInv
<1> QED BY <1>2, <1>3, <1>5

\* The first poll of a future.
LEMMA FirstPollStep ==
  ASSUME NotifyInv, NEW w \in Waiter, FirstPoll(w)
  PROVE  NotifyInv'
<1> USE DEF NotifyInv
<1>1. /\ UNCHANGED <<rounds, round, nowpc, obsWait, obsOnes, obsAlls>>
      /\ wpc[w] = "made" /\ wpc' \in {[wpc EXCEPT ![w] = "ready"], [wpc EXCEPT ![w] = "queued"]}
  BY DEF FirstPoll, WGoto
<1>2. /\ \A v \in Waiter : wpc'[v] = "unused" <=> wpc[v] = "unused"
      /\ wpc' \in [Waiter -> {"unused", "made", "queued", "waiting", "ready", "cancelling", "done"}]
  BY <1>1 DEF NotifyTypeOK
<1>3. OnesToGo' = OnesToGo /\ AllsToGo' = AllsToGo
  BY <1>1 DEF OnesToGo, AllsToGo
<1>4. /\ \A i \in 1..Len(line) : line[i] \in Waiter
      /\ line \in Seq(Waiter) /\ permit \in BOOLEAN /\ woken \in [Waiter -> {"no", "one", "all"}]
      /\ rounds \in Nat /\ \A v \in Waiter : round[v] \in Nat
      /\ obsOnes \in Nat /\ obsAlls \in Nat
  BY NotifyBounds DEF NotifyTypeOK
<1>5. CASE rounds # round[w] /\ woken' = [woken EXCEPT ![w] = "all"] /\ UNCHANGED <<permit, line>>
  <2>1. /\ woken' \in [Waiter -> {"no", "one", "all"}]
        /\ \A v \in Waiter : woken'[v] = IF v = w THEN "all" ELSE woken[v]
    BY <1>4, <1>5
  <2>2. GotOne' \subseteq GotOne
    BY <2>1 DEF GotOne
  <2>3. Cardinality(GotOne') <= Cardinality(GotOne) /\ Cardinality(GotOne') \in Nat
    BY <2>2, NotifyFinite, FS_Subset, FS_CardinalityType
  <2>4. OnesInv'
    BY <1>1, <1>3, <1>4, <1>5, <2>3, NotifyFinite DEF OnesInv
  <2>5. AllsInv'
    BY <1>1, <1>3, <1>4, <1>5, <2>1 DEF AllsInv
  <2>6. LineInv'
    BY <1>1, <1>2, <1>4, <1>5, <2>1 DEF LineInv
  <2>7. NotifyTypeOK'
    BY <1>1, <1>2, <1>5, <2>1 DEF NotifyTypeOK
  <2> QED BY <2>4, <2>5, <2>6, <2>7
<1>6. CASE permit /\ permit' = FALSE /\ woken' = [woken EXCEPT ![w] = "one"] /\ UNCHANGED line
  <2>1. /\ woken' \in [Waiter -> {"no", "one", "all"}]
        /\ \A v \in Waiter : woken'[v] = IF v = w THEN "one" ELSE woken[v]
    BY <1>4, <1>6
  <2>2. GotOne' \subseteq GotOne \cup {w}
    BY <2>1 DEF GotOne
  <2>3. Cardinality(GotOne') <= Cardinality(GotOne) + 1 /\ Cardinality(GotOne') \in Nat
    BY <2>2, NotifyFinite, AtMostOneMore
  <2>4. OnesInv'
    BY <1>1, <1>3, <1>4, <1>6, <2>3, NotifyFinite DEF OnesInv
  <2>5. AllsInv'
    BY <1>1, <1>3, <1>4, <1>6, <2>1 DEF AllsInv
  <2>6. LineInv'
    BY <1>1, <1>2, <1>4, <1>6, <2>1 DEF LineInv
  <2>7. NotifyTypeOK'
    <3>1. permit' \in BOOLEAN
      BY <1>6
    <3> QED BY <1>1, <1>2, <1>6, <2>1, <3>1 DEF NotifyTypeOK
  <2> QED BY <2>4, <2>5, <2>6, <2>7
<1>7. CASE line' = Append(line, w) /\ UNCHANGED <<permit, woken>>
  <2>1. line' \in Seq(Waiter) /\ Len(line') = Len(line) + 1
        /\ \A i \in 1..Len(line') : line'[i] = IF i <= Len(line) THEN line[i] ELSE w
    BY <1>4, <1>7
  <2>2. GotOne' = GotOne
    BY <1>7 DEF GotOne
  <2>3. OnesInv' /\ AllsInv'
    BY <1>1, <1>3, <1>7, <2>2 DEF OnesInv, AllsInv
  <2>4. \A i \in 1..Len(line') : wpc[line'[i]] # "unused" /\ line'[i] \in Waiter
    <3>1. SUFFICES ASSUME NEW i \in 1..Len(line')
                   PROVE  wpc[line'[i]] # "unused" /\ line'[i] \in Waiter
      OBVIOUS
    <3>2. Len(line) \in Nat /\ (i <= Len(line) => i \in 1..Len(line))
      BY <1>4, <2>1
    <3>3. CASE i <= Len(line)
      BY <1>4, <2>1, <3>2, <3>3 DEF LineInv
    <3>4. CASE ~(i <= Len(line))
      BY <1>1, <2>1, <3>4
    <3> QED BY <3>3, <3>4
  <2>5. LineInv'
    BY <1>2, <1>7, <2>4 DEF LineInv
  <2>6. NotifyTypeOK'
    BY <1>1, <1>2, <1>7, <2>1 DEF NotifyTypeOK
  <2> QED BY <2>3, <2>5, <2>6
<1> QED BY <1>5, <1>6, <1>7 DEF FirstPoll

\* A cancelled future leaves and hands its notification on.
LEMMA DropNotifiedInnerStep ==
  ASSUME NotifyInv, NEW w \in Waiter, DropNotifiedInner(w)
  PROVE  NotifyInv'
<1> USE DEF NotifyInv
<1>1. /\ UNCHANGED <<rounds, round, nowpc, obsWait, obsOnes, obsAlls>>
      /\ wpc[w] = "cancelling" /\ wpc' = [wpc EXCEPT ![w] = "done"]
  BY DEF DropNotifiedInner, WGoto
<1>2. /\ \A v \in Waiter : wpc'[v] = "unused" <=> wpc[v] = "unused"
      /\ wpc' \in [Waiter -> {"unused", "made", "queued", "waiting", "ready", "cancelling", "done"}]
  BY <1>1 DEF NotifyTypeOK
<1>3. OnesToGo' = OnesToGo /\ AllsToGo' = AllsToGo
  BY <1>1 DEF OnesToGo, AllsToGo
<1>4. /\ line \in Seq(Waiter) /\ permit \in BOOLEAN /\ woken \in [Waiter -> {"no", "one", "all"}]
      /\ rounds \in Nat /\ \A v \in Waiter : round[v] \in Nat
      /\ obsOnes \in Nat /\ obsAlls \in Nat
  BY NotifyBounds DEF NotifyTypeOK
<1>5. Without(w) \in Seq(Waiter) /\ \A i \in 1..Len(Without(w)) : wpc[Without(w)[i]] # "unused"
  <2>1. /\ Without(w) \in Seq(Waiter)
        /\ \A i \in 1..Len(Without(w)) : \E j \in 1..Len(line) : Without(w)[i] = line[j]
    BY <1>4, WithoutKeeps
  <2>2. \A j \in 1..Len(line) : wpc[line[j]] # "unused"
    BY DEF LineInv
  <2> QED BY <2>1, <2>2
<1>6. /\ permit' \in BOOLEAN /\ line' \in Seq(Waiter)
      /\ woken' \in [Waiter -> {"no", "one", "all"}]
      /\ \A i \in 1..Len(line') : wpc[line'[i]] # "unused"
      /\ \A v \in Waiter : wpc[v] = "unused" => woken'[v] = "no"
      /\ \A v \in Waiter : woken'[v] = "all" => woken[v] = "all"
      /\ Cardinality(GotOne') + (IF permit' THEN 1 ELSE 0)
           <= Cardinality(GotOne) + (IF permit THEN 1 ELSE 0)
  <2>1. CASE woken[w] = "one"
    <3> DEFINE had == [woken EXCEPT ![w] = "no"]
               S == {v \in Waiter : had[v] = "one"}
    <3>1. WakeOne(Without(w), had)
      BY <2>1 DEF DropNotifiedInner, Unlink
    <3>2. had \in [Waiter -> {"no", "one", "all"}]
          /\ \A v \in Waiter : had[v] = IF v = w THEN "no" ELSE woken[v]
      BY <1>4
    <3>3. w \in GotOne /\ S = GotOne \ {w}
      BY <2>1, <3>2 DEF GotOne
    <3>4. Cardinality(S) \in Nat /\ Cardinality(GotOne) = Cardinality(S) + 1
      BY <3>3, NotifyFinite, OneLess
    <3>5. /\ \A v \in Waiter : had[v] # "no" => woken[v] # "no"
          /\ \A v \in Waiter : had[v] = "all" => woken[v] = "all"
      BY <3>2
    <3> HIDE DEF had
    <3>6. /\ permit' \in BOOLEAN /\ line' \in Seq(Waiter)
          /\ woken' \in [Waiter -> {"no", "one", "all"}]
          /\ \A i \in 1..Len(line') : wpc[line'[i]] # "unused"
          /\ \A v \in Waiter : wpc[v] = "unused" => woken'[v] = "no"
          /\ \A v \in Waiter : woken'[v] = "all" => woken[v] = "all"
          /\ Cardinality(GotOne') + (IF permit' THEN 1 ELSE 0)
               <= Cardinality(S) + (IF permit THEN 1 ELSE 0) + 1
      BY <1>5, <3>1, <3>2, <3>5, WakeOneKeeps
    <3>7. Cardinality(GotOne') + (IF permit' THEN 1 ELSE 0)
            <= Cardinality(GotOne) + (IF permit THEN 1 ELSE 0)
      <4> HIDE DEF S
      <4> QED BY <1>4, <3>4, <3>6
    <3> QED BY <3>6, <3>7
  <2>2. CASE woken[w] # "one"
    <3>1. line' = Without(w) /\ UNCHANGED <<permit, woken>>
      BY <2>2 DEF DropNotifiedInner, Unlink
    <3>2. GotOne' = GotOne
      BY <3>1 DEF GotOne
    <3>3. Cardinality(GotOne') + (IF permit' THEN 1 ELSE 0)
            <= Cardinality(GotOne) + (IF permit THEN 1 ELSE 0)
      BY <1>4, <3>1, <3>2, NotifyFinite
    <3> QED BY <1>4, <1>5, <3>1, <3>3 DEF LineInv
  <2> QED BY <2>1, <2>2
<1>7. NotifyTypeOK'
  BY <1>1, <1>2, <1>6 DEF NotifyTypeOK
<1>8. LineInv'
  <2>1. \A i \in 1..Len(line') : line'[i] \in Waiter
    BY <1>6
  <2> QED BY <1>2, <1>6, <2>1 DEF LineInv
<1>9. OnesInv'
  <2>1. \A m \in {Cardinality(GotOne'), Cardinality(GotOne), Cardinality(OnesToGo)} : m \in Nat
    <3>1. GotOne' \in SUBSET Waiter
      BY DEF GotOne
    <3> QED BY <3>1, NotifyFinite, NotifyBounds, FS_Subset, FS_CardinalityType
  <2> QED BY <1>1, <1>3, <1>4, <1>6, <2>1 DEF OnesInv
<1>10. AllsInv'
  BY <1>1, <1>3, <1>6 DEF AllsInv
<1> QED BY <1>7, <1>8, <1>9, <1>10

\* A notification is reported.
LEMMA NotifierStep ==
  ASSUME NotifyInv, NEW n \in Notifier, NotifyOne(n) \/ NotifyWaiters(n)
  PROVE  NotifyInv'
<1> USE DEF NotifyInv
<1> DEFINE one == NotifyOne(n)
<1>1. /\ UNCHANGED <<permit, line, rounds, round, woken, wpc, obsWait>>
      /\ nowpc[n] = "idle" /\ obsOnes + obsAlls < MaxNotifies
      /\ obsOnes \in Nat /\ obsAlls \in Nat /\ rounds \in Nat /\ MaxNotifies \in Nat
      /\ nowpc \in [Notifier -> {"idle", "one", "all"}] /\ permit \in BOOLEAN
  BY NotifyBounds DEF NotifyOne, NotifyWaiters, notifyReal, NotifyTypeOK
<1>2. GotOne' = GotOne
  BY <1>1 DEF GotOne
<1>3. LineInv'
  BY <1>1 DEF LineInv
<1>4. CASE NotifyOne(n)
  <2>1. obsOnes' = obsOnes + 1 /\ obsAlls' = obsAlls /\ nowpc' = [nowpc EXCEPT ![n] = "one"]
    BY <1>4 DEF NotifyOne
  <2>2. /\ n \notin OnesToGo /\ OnesToGo' = OnesToGo \cup {n} /\ AllsToGo' = AllsToGo
        /\ nowpc' \in [Notifier -> {"idle", "one", "all"}]
    BY <1>1, <2>1 DEF OnesToGo, AllsToGo
  <2>3. Cardinality(OnesToGo') = Cardinality(OnesToGo) + 1
    BY <2>2, NotifyFinite, OneMore
  <2>4. OnesInv'
    BY <1>1, <1>2, <2>1, <2>3, NotifyFinite DEF OnesInv
  <2>5. AllsInv'
    BY <1>1, <2>1, <2>2 DEF AllsInv
  <2>6. NotifyTypeOK'
    BY <1>1, <2>1, <2>2 DEF NotifyTypeOK
  <2> QED BY <1>3, <2>4, <2>5, <2>6
<1>5. CASE NotifyWaiters(n)
  <2>1. obsAlls' = obsAlls + 1 /\ obsOnes' = obsOnes /\ nowpc' = [nowpc EXCEPT ![n] = "all"]
    BY <1>5 DEF NotifyWaiters
  <2>2. /\ n \notin AllsToGo /\ AllsToGo' = AllsToGo \cup {n} /\ OnesToGo' = OnesToGo
        /\ nowpc' \in [Notifier -> {"idle", "one", "all"}]
    BY <1>1, <2>1 DEF OnesToGo, AllsToGo
  <2>3. Cardinality(AllsToGo') = Cardinality(AllsToGo) + 1
    BY <2>2, NotifyFinite, OneMore
  <2>4. OnesInv'
    BY <1>1, <1>2, <2>1, <2>2 DEF OnesInv
  <2>5. AllsInv'
    BY <1>1, <2>1, <2>3, NotifyFinite DEF AllsInv
  <2>6. NotifyTypeOK'
    BY <1>1, <2>1, <2>2 DEF NotifyTypeOK
  <2> QED BY <1>3, <2>4, <2>5, <2>6
<1> QED BY <1>4, <1>5

\* A reported notification takes effect.
LEMMA ForwardStep ==
  ASSUME NotifyInv, NEW n \in Notifier, Forward(n)
  PROVE  NotifyInv'
<1> USE DEF NotifyInv
<1>1. /\ UNCHANGED <<round, wpc, obsWait, obsOnes, obsAlls>>
      /\ nowpc' = [nowpc EXCEPT ![n] = "idle"]
  BY DEF Forward
<1>2. /\ line \in Seq(Waiter) /\ permit \in BOOLEAN /\ woken \in [Waiter -> {"no", "one", "all"}]
      /\ rounds \in Nat /\ \A v \in Waiter : round[v] \in Nat
      /\ obsOnes \in Nat /\ obsAlls \in Nat /\ MaxNotifies \in Nat
      /\ nowpc \in [Notifier -> {"idle", "one", "all"}]
      /\ nowpc' \in [Notifier -> {"idle", "one", "all"}]
  BY <1>1, NotifyBounds DEF NotifyTypeOK
<1>3. CASE nowpc[n] = "one" /\ WakeOne(line, woken) /\ UNCHANGED rounds
  <2>1. /\ permit' \in BOOLEAN /\ line' \in Seq(Waiter)
        /\ woken' \in [Waiter -> {"no", "one", "all"}]
        /\ \A i \in 1..Len(line') : wpc[line'[i]] # "unused"
        /\ \A v \in Waiter : wpc[v] = "unused" => woken'[v] = "no"
        /\ \A v \in Waiter : woken'[v] = "all" => woken[v] = "all"
        /\ Cardinality(GotOne') + (IF permit' THEN 1 ELSE 0)
             <= Cardinality(GotOne) + (IF permit THEN 1 ELSE 0) + 1
    BY <1>2, <1>3, WakeOneKeeps DEF LineInv, GotOne
  <2>2. n \in OnesToGo /\ OnesToGo' = OnesToGo \ {n} /\ AllsToGo' = AllsToGo
    BY <1>1, <1>2, <1>3 DEF OnesToGo, AllsToGo
  <2>3. Cardinality(OnesToGo') \in Nat /\ Cardinality(OnesToGo) = Cardinality(OnesToGo') + 1
    BY <2>2, NotifyFinite, OneLess
  <2>4. OnesInv'
    <3>1. Cardinality(GotOne') \in Nat /\ Cardinality(GotOne) \in Nat
      <4>1. GotOne' \in SUBSET Waiter
        BY DEF GotOne
      <4> QED BY <4>1, NotifyFinite, NotifyBounds, FS_Subset, FS_CardinalityType
    <3> QED BY <1>1, <1>2, <2>1, <2>3, <3>1 DEF OnesInv
  <2>5. AllsInv'
    BY <1>1, <1>3, <2>1, <2>2 DEF AllsInv
  <2>6. LineInv'
    BY <1>1, <2>1 DEF LineInv
  <2>7. NotifyTypeOK'
    BY <1>1, <1>2, <1>3, <2>1 DEF NotifyTypeOK
  <2> QED BY <2>4, <2>5, <2>6, <2>7
<1>4. CASE nowpc[n] = "all" /\ WakeAll
  <2>1. /\ rounds' = rounds + 1 /\ line' = << >> /\ permit' = permit
        /\ woken' \in [Waiter -> {"no", "one", "all"}]
        /\ \A v \in Waiter : woken'[v] = IF \E i \in 1..Len(line) : line[i] = v
                                         THEN "all" ELSE woken[v]
    BY <1>2, <1>4 DEF WakeAll
  <2>2. n \in AllsToGo /\ AllsToGo' = AllsToGo \ {n} /\ OnesToGo' = OnesToGo
    BY <1>1, <1>2, <1>4 DEF OnesToGo, AllsToGo
  <2>3. Cardinality(AllsToGo') \in Nat /\ Cardinality(AllsToGo) = Cardinality(AllsToGo') + 1
    BY <2>2, NotifyFinite, OneLess
  <2>4. GotOne' \subseteq GotOne
    BY <2>1 DEF GotOne
  <2>5. Cardinality(GotOne') <= Cardinality(GotOne) /\ Cardinality(GotOne') \in Nat
    BY <2>4, NotifyFinite, FS_Subset, FS_CardinalityType
  <2>6. OnesInv'
    BY <1>1, <1>2, <2>1, <2>2, <2>5, NotifyFinite DEF OnesInv
  <2>7. AllsInv' /\ rounds' \in 0..MaxNotifies
    <3>1. /\ rounds \in Nat /\ obsOnes \in Nat /\ obsAlls \in Nat /\ MaxNotifies \in Nat
          /\ round \in [Waiter -> 0..MaxNotifies]
      BY <1>2, NotifyBounds DEF NotifyTypeOK
    <3>2. /\ rounds + Cardinality(AllsToGo) = obsAlls /\ obsOnes + obsAlls <= MaxNotifies
          /\ \A w \in Waiter : round[w] <= rounds
      BY DEF AllsInv
    <3>3. rounds' + Cardinality(AllsToGo') = obsAlls /\ rounds' \in 0..MaxNotifies
      BY <2>1, <2>3, <3>1, <3>2, SMTT(60)
    <3>4. \A w \in Waiter : round[w] \in Nat /\ round[w] < rounds'
      BY <2>1, <3>1, <3>2
    <3>5. UNCHANGED <<round, obsOnes, obsAlls>>
      BY <1>1
    <3> QED BY <3>1, <3>2, <3>3, <3>4, <3>5 DEF AllsInv
  <2>8. LineInv'
    BY <1>1, <2>1 DEF LineInv
  <2>9. NotifyTypeOK'
    BY <1>1, <1>2, <2>1, <2>7 DEF NotifyTypeOK
  <2> QED BY <2>6, <2>7, <2>8, <2>9
<1> QED BY <1>3, <1>4 DEF Forward

\* Every step keeps the invariant.
LEMMA NotifyInvStep == NotifyInv /\ [NotifyNext]_notifyVars => NotifyInv'
<1> SUFFICES ASSUME NotifyInv, [NotifyNext]_notifyVars PROVE NotifyInv'
  OBVIOUS
<1> USE DEF NotifyInv
<1>1. ASSUME NEW w \in Waiter, WaiterStep(w) PROVE NotifyInv'
  <2>0. /\ round \in [Waiter -> 0..MaxNotifies] /\ rounds \in 0..MaxNotifies
        /\ obsWait \in [Waiter -> {"none", "requested", "resolved", "dropped"}]
        /\ \A v \in Waiter : round[v] <= rounds /\ (woken[v] = "all" => round[v] < rounds)
        /\ wpc[w] = "unused" => woken[w] = "no"
    BY DEF NotifyTypeOK, AllsInv, LineInv
  <2>1. CASE Notified(w)
    <3>1. /\ round' \in [Waiter -> 0..MaxNotifies]
          /\ \A v \in Waiter : round'[v] = IF v = w THEN rounds ELSE round[v]
          /\ woken[w] = "no"
      BY <2>0, <2>1 DEF Notified
    <3>2. \A v \in Waiter : round'[v] <= rounds /\ (woken[v] = "all" => round'[v] < rounds)
      BY <2>0, <3>1
    <3> QED BY <2>0, <2>1, <3>1, <3>2, WaiterMoves DEF Notified
  <2>2. CASE ReportWaiting(w)
    <3>1. obsWait' \in [Waiter -> {"none", "requested", "resolved", "dropped"}]
      BY <2>0, <2>2 DEF ReportWaiting
    <3> QED BY <2>0, <2>2, <3>1, WaiterMoves DEF ReportWaiting
  <2>3. CASE NextPoll(w)
    BY <2>0, <2>3, WaiterMoves DEF NextPoll
  <2>4. CASE ReportWoken(w)
    <3>1. obsWait' \in [Waiter -> {"none", "requested", "resolved", "dropped"}]
      BY <2>0, <2>4 DEF ReportWoken
    <3> QED BY <2>0, <2>4, <3>1, WaiterMoves DEF ReportWoken
  <2>5. CASE DropNotified(w)
    <3>1. obsWait' \in [Waiter -> {"none", "requested", "resolved", "dropped"}]
      BY <2>0, <2>5 DEF DropNotified
    <3>2. WGoto(w, "cancelling") \/ WGoto(w, "done")
      BY <2>5 DEF DropNotified
    <3>3. UNCHANGED <<notifyReal, round, woken, nowpc, obsOnes, obsAlls>>
      BY <2>5 DEF DropNotified
    <3> QED BY <2>0, <3>1, <3>2, <3>3, WaiterMoves
  <2> QED BY <1>1, <2>1, <2>2, <2>3, <2>4, <2>5, FirstPollStep, DropNotifiedInnerStep
          DEF WaiterStep
<1>2. CASE UNCHANGED notifyVars
  <2>1. UNCHANGED <<permit, line, rounds, round, woken, wpc, nowpc, obsWait, obsOnes, obsAlls>>
    BY <1>2 DEF notifyVars, notifyReal
  <2>2. GotOne' = GotOne /\ OnesToGo' = OnesToGo /\ AllsToGo' = AllsToGo
    BY <2>1 DEF GotOne, OnesToGo, AllsToGo
  <2> QED BY <2>1, <2>2 DEF NotifyTypeOK, LineInv, OnesInv, AllsInv
<1> QED BY <1>1, <1>2, NotifierStep, ForwardStep DEF NotifyNext

\* The invariant explains every reported end of a wait.
LEMMA NotifyInvExplains == NotifyInv => WakesExplained
<1> SUFFICES ASSUME NotifyInv PROVE WakesExplained
  OBVIOUS
<1>1. obsOnes \in Nat /\ obsAlls \in Nat /\ rounds \in Nat /\ \A w \in Waiter : round[w] \in Nat
  BY NotifyBounds DEF NotifyInv, NotifyTypeOK
<1>2. ByOne \subseteq GotOne
  BY DEF ByOne, GotOne
<1>3. Cardinality(ByOne) <= Cardinality(GotOne) /\ Cardinality(ByOne) \in Nat
  BY <1>2, NotifyFinite, FS_Subset, FS_CardinalityType
<1>4. Cardinality(ByOne) <= obsOnes
  BY <1>1, <1>3, NotifyFinite DEF NotifyInv, OnesInv
<1>5. \A w \in Waiter : woken[w] = "all" => obsAlls > round[w]
  BY <1>1, NotifyFinite DEF NotifyInv, AllsInv
<1> QED BY <1>4, <1>5 DEF NotifyInv, WakesExplained

\* Whatever waiters, notifiers and number of notifications: a wait is reported
\* ended only on account of a notification that was reported before.
THEOREM WakesAreExplained == NotifySpec => []WakesExplained
<1>1. NotifySpec => []NotifyInv
  BY NotifyInvInit, NotifyInvStep, PTL DEF NotifySpec
<1> QED BY <1>1, NotifyInvExplains, PTL

-----------------------------------------------------------------------------
(* Virtual time.  The invariant ties every deadline to the start of its    *)
(* timer and the periods that passed, and the engine's list to deadlines.  *)

\* The periods a timer's deadline is away from its start, and the nanoseconds.
Periods(t) == IF sort[t] = "interval" THEN ticks[t] ELSE 1
Due(t, k)  == SaturatingAdd(began[t], k * ToNanos(span[t]))

\* Where a timer is tells whether it was started, and how often it resolved.
StageInv ==
  \A t \in Timer :
    /\ tpc[t] \in {"unused", "made"} => mode[t] = "unstarted"
    /\ tpc[t] \in {"checking", "registering", "pending"} =>
         ticks[t] < MaxTicks /\ (sort[t] # "interval" => ticks[t] = 0)
    /\ tpc[t] = "resting" => sort[t] = "interval"
    /\ mode[t] = "unstarted" => ticks[t] = 0
    /\ tpc[t] \in {"checking", "registering", "pending", "resting"} => mode[t] # "unstarted"
    /\ tpc[t] = "registering" => mode[t] = "hooked"

\* A deadline is the start and the periods; what resolved was due.
DueInv ==
  \A t \in Timer :
    /\ mode[t] # "unstarted" => deadline[t] = Due(t, Periods(t))
    /\ ticks[t] > 0 => Clock(t) >= Due(t, IF sort[t] = "interval" THEN ticks[t] - 1 ELSE 1)

\* Only hooked timers are on the engine's list, a sleep or a timeout with its
\* deadline.
ListInv ==
  \A t \in Timer : listed[t] # -1 =>
    mode[t] = "hooked" /\ (sort[t] # "interval" => listed[t] = deadline[t])

TimerInv == /\ TimerTypeOK /\ StageInv /\ DueInv /\ ListInv
            /\ NoStaleTimer /\ NobodyForgotten
-----------------------------------------------------------------------------
\* Saturating arithmetic stays in range.
LEMMA NanosType ==
  /\ \A a, b \in Nat : SaturatingAdd(a, b) \in 0..MaxNanos
  /\ \A a \in 0..MaxNanos, b \in Nat : SaturatingAdd(a, b) >= a
  /\ \A d \in Nat : ToNanos(d) \in 0..MaxNanos
  BY NanosOK DEF SaturatingAdd, ToNanos

\* The nanoseconds of a timer's span.
LEMMA SpanType ==
  ASSUME TimerTypeOK, NEW t \in Timer
  PROVE  ToNanos(span[t]) \in 0..MaxNanos /\ ToNanos(span[t]) \in Nat
<1>1. span[t] \in Nat
  BY NanosOK DEF TimerTypeOK
<1>2. ToNanos(span[t]) \in 0..MaxNanos
  BY <1>1, NanosType
<1> QED BY <1>2, NanosOK

\* Adding one period after another saturates where adding all of them does.
LEMMA AddPeriod ==
  ASSUME NEW b \in Nat, NEW k \in Nat, NEW n \in Nat
  PROVE  /\ k * n \in Nat
         /\ SaturatingAdd(SaturatingAdd(b, k * n), n) = SaturatingAdd(b, (k + 1) * n)
<1>1. k * n \in Nat /\ (k + 1) * n = k * n + n
  OBVIOUS
<1>2. ASSUME NEW m \in Nat
      PROVE  SaturatingAdd(SaturatingAdd(b, m), n) = SaturatingAdd(b, m + n)
  BY NanosOK DEF SaturatingAdd
<1> QED BY <1>1, <1>2

\* Timers that do not exist yet satisfy the invariant.
LEMMA TimerInvInit == TimerInit => TimerInv
<1> SUFFICES ASSUME TimerInit PROVE TimerInv
  OBVIOUS
<1>1. TimerTypeOK
  <2>1. timerHook \in BOOLEAN
    BY DEF TimerInit
  <2>2. /\ virtual \in 0..MaxNanos /\ wall \in 0..MaxNanos
        /\ deadline \in [Timer -> 0..MaxNanos] /\ began \in [Timer -> 0..MaxNanos]
        /\ ticks \in [Timer -> 0..MaxTicks] /\ listed \in [Timer -> -1..MaxNanos]
    BY NanosOK DEF TimerInit
  <2> QED BY <2>1, <2>2 DEF TimerInit, TimerTypeOK
<1>2. StageInv /\ DueInv /\ ListInv
  BY DEF TimerInit, StageInv, DueInv, ListInv
<1>3. NoStaleTimer /\ NobodyForgotten
  BY DEF TimerInit, NoStaleTimer, NobodyForgotten
<1> QED BY <1>1, <1>2, <1>3 DEF TimerInv

\* A poll that goes from one place to the next.
LEMMA TimerMoves ==
  ASSUME TimerInv, NEW t \in Timer,
         NEW p \in {"made", "checking", "registering", "pending", "done"}, TGoto(t, p),
         p = "made" => mode[t] = "unstarted",
         p \in {"checking", "registering", "pending"} =>
           ticks[t] < MaxTicks /\ (sort[t] # "interval" => ticks[t] = 0),
         p \in {"checking", "registering", "pending"} => mode[t] # "unstarted",
         p = "registering" => mode[t] = "hooked",
         p = "pending" => mode[t] # "hooked",
         UNCHANGED <<clocks, sort, span, mode, deadline, began, ticks, listed>>
  PROVE  TimerInv'
<1> USE DEF TimerInv
<1>1. /\ UNCHANGED <<timerHook, virtual, wall>>
      /\ \A u \in Timer : tpc'[u] = IF u = t THEN p ELSE tpc[u]
  BY DEF clocks, TGoto, TimerTypeOK
<1>2. TimerTypeOK'
  <2>1. tpc' \in [Timer -> {"unused", "made", "checking", "registering", "pending",
                            "resting", "done", "gone"}]
    BY DEF TGoto, TimerTypeOK
  <2> QED BY <1>1, <2>1 DEF TimerTypeOK
<1>3. StageInv'
  BY <1>1 DEF StageInv
<1>4. DueInv'
  <2>1. \A u \in Timer : Clock(u)' = Clock(u) /\ Periods(u)' = Periods(u)
    BY <1>1 DEF Clock, Periods
  <2>2. \A u \in Timer : \A k : Due(u, k)' = Due(u, k)
    BY DEF Due
  <2> QED BY <2>1, <2>2 DEF DueInv
<1>5. ListInv' /\ NoStaleTimer' /\ NobodyForgotten'
  BY <1>1 DEF ListInv, NoStaleTimer, NobodyForgotten
<1> QED BY <1>2, <1>3, <1>4, <1>5

\* The first poll fixes the clock and the deadline.
LEMMA StartTimerStep ==
  ASSUME TimerInv, NEW t \in Timer, StartTimer(t)
  PROVE  TimerInv'
<1> USE DEF TimerInv
<1> DEFINE m   == IF timerHook THEN "hooked" ELSE "unhooked"
           now == IF timerHook THEN virtual ELSE wall
           d   == IF sort[t] = "interval" THEN now ELSE SaturatingAdd(now, ToNanos(span[t]))
<1>1. /\ UNCHANGED <<timerHook, virtual, wall, sort, span, ticks, listed>>
      /\ tpc[t] = "made" /\ m # "unstarted" /\ m \in {"unstarted", "hooked", "unhooked"}
      /\ \A u \in Timer : tpc'[u] = IF u = t THEN "checking" ELSE tpc[u]
      /\ \A u \in Timer : mode'[u] = IF u = t THEN m ELSE mode[u]
      /\ \A u \in Timer : began'[u] = IF u = t THEN now ELSE began[u]
      /\ \A u \in Timer : deadline'[u] = IF u = t THEN d ELSE deadline[u]
  BY DEF StartTimer, clocks, TGoto, TimerTypeOK
<1>2. mode[t] = "unstarted" /\ ticks[t] = 0 /\ listed[t] = -1
  BY <1>1 DEF StageInv, ListInv
<1>3. now \in 0..MaxNanos /\ ToNanos(span[t]) \in 0..MaxNanos /\ d \in 0..MaxNanos
  <2>1. now \in 0..MaxNanos /\ now \in Nat
    BY NanosOK DEF TimerTypeOK
  <2>2. ToNanos(span[t]) \in 0..MaxNanos /\ ToNanos(span[t]) \in Nat
    BY SpanType
  <2>3. SaturatingAdd(now, ToNanos(span[t])) \in 0..MaxNanos
    BY <2>1, <2>2, NanosType
  <2> QED BY <2>1, <2>2, <2>3
<1>4. TimerTypeOK'
  <2>1. tpc' \in [Timer -> {"unused", "made", "checking", "registering", "pending",
                            "resting", "done", "gone"}]
        /\ mode' \in [Timer -> {"unstarted", "hooked", "unhooked"}]
    BY DEF StartTimer, TGoto, TimerTypeOK
  <2>2. began' \in [Timer -> 0..MaxNanos] /\ deadline' \in [Timer -> 0..MaxNanos]
    BY <1>3 DEF StartTimer, TimerTypeOK
  <2> QED BY <1>1, <2>1, <2>2 DEF TimerTypeOK
<1>5. StageInv'
  BY <1>1, <1>2, NanosOK DEF StageInv
<1>6. DueInv'
  <2>1. \A u \in Timer \ {t} : /\ Clock(u)' = Clock(u) /\ Periods(u)' = Periods(u)
                               /\ \A k : Due(u, k)' = Due(u, k)
    BY <1>1 DEF Clock, Periods, Due
  <2>2. d = Due(t, Periods(t))'
    <3>1. Due(t, Periods(t))' = SaturatingAdd(now, Periods(t)' * ToNanos(span[t]))
      BY <1>1 DEF Due
    <3>2. CASE sort[t] = "interval"
      <4>1. Periods(t)' = 0 /\ 0 * ToNanos(span[t]) = 0
        BY <1>1, <1>2, <1>3, <3>2 DEF Periods
      <4>2. SaturatingAdd(now, 0) = now
        BY <1>3, NanosOK DEF SaturatingAdd
      <4> QED BY <3>1, <3>2, <4>1, <4>2
    <3>3. CASE sort[t] # "interval"
      <4>1. Periods(t)' = 1 /\ 1 * ToNanos(span[t]) = ToNanos(span[t])
        BY <1>1, <1>3, <3>3 DEF Periods
      <4> QED BY <3>1, <3>3, <4>1
    <3> QED BY <3>2, <3>3
  <2>3. \A u \in Timer \ {t} :
          /\ mode'[u] # "unstarted" => deadline'[u] = Due(u, Periods(u))'
          /\ ticks'[u] > 0 => Clock(u)' >= Due(u, IF sort[u] = "interval" THEN ticks[u] - 1 ELSE 1)'
    BY <1>1, <2>1 DEF DueInv
  <2> HIDE DEF d, now, m
  <2> QED BY <1>1, <1>2, <2>2, <2>3 DEF DueInv
<1>7. ListInv' /\ NoStaleTimer' /\ NobodyForgotten'
  <2> HIDE DEF d, now, m
  <2> QED BY <1>1, <1>2 DEF ListInv, NoStaleTimer, NobodyForgotten
<1> QED BY <1>4, <1>5, <1>6, <1>7

\* A timer resolves: its deadline is due on its clock.
LEMMA FireStep ==
  ASSUME TimerInv, NEW t \in Timer, Fire(t)
  PROVE  TimerInv'
<1> USE DEF TimerInv
<1> DEFINE n == ToNanos(span[t])
           q == IF sort[t] = "interval" THEN "resting" ELSE "done"
           d == IF sort[t] = "interval" THEN SaturatingAdd(deadline[t], n) ELSE deadline[t]
<1>1. /\ UNCHANGED <<timerHook, virtual, wall, sort, span, mode, began, listed>>
      /\ tpc[t] = "checking" /\ Clock(t) >= deadline[t]
      /\ \A u \in Timer : tpc'[u] = IF u = t THEN q ELSE tpc[u]
      /\ \A u \in Timer : ticks'[u] = IF u = t THEN ticks[t] + 1 ELSE ticks[u]
      /\ \A u \in Timer : deadline'[u] = IF u = t THEN d ELSE deadline[u]
  BY DEF Fire, clocks, TGoto, TimerTypeOK
<1>2. /\ mode[t] # "unstarted" /\ ticks[t] \in Nat /\ ticks[t] < MaxTicks
      /\ (sort[t] # "interval" => ticks[t] = 0) /\ deadline[t] = Due(t, Periods(t))
  BY <1>1 DEF StageInv, DueInv, TimerTypeOK
<1>3. n \in Nat /\ deadline[t] \in 0..MaxNanos /\ began[t] \in Nat /\ d \in 0..MaxNanos
  <2>1. /\ deadline[t] \in 0..MaxNanos /\ deadline[t] \in Nat /\ began[t] \in Nat
    BY NanosOK DEF TimerTypeOK
  <2>2. n \in Nat
    BY SpanType
  <2>3. SaturatingAdd(deadline[t], n) \in 0..MaxNanos
    BY <2>1, <2>2, NanosType
  <2> QED BY <2>1, <2>2, <2>3
<1>4. TimerTypeOK'
  <2>1. tpc' \in [Timer -> {"unused", "made", "checking", "registering", "pending",
                            "resting", "done", "gone"}]
    BY DEF Fire, TGoto, TimerTypeOK
  <2>2. deadline' \in [Timer -> 0..MaxNanos]
    BY <1>3 DEF Fire, TimerTypeOK
  <2>3. ticks' \in [Timer -> 0..MaxTicks]
    <3>1. ticks[t] + 1 \in 0..MaxTicks
      BY <1>2, NanosOK
    <3> QED BY <3>1 DEF Fire, TimerTypeOK
  <2> QED BY <1>1, <2>1, <2>2, <2>3 DEF TimerTypeOK
<1>5. StageInv'
  <2> HIDE DEF d
  <2> QED BY <1>1, <1>2 DEF StageInv
<1>6. DueInv'
  <2>1. \A u \in Timer : Clock(u)' = Clock(u) /\ \A k : Due(u, k)' = Due(u, k)
    BY <1>1 DEF Clock, Due
  <2>2. \A u \in Timer \ {t} : Periods(u)' = Periods(u)
    BY <1>1 DEF Periods
  <2>3. d = Due(t, Periods(t)')
    <3>1. CASE sort[t] = "interval"
      <4>1. Periods(t) = ticks[t] /\ Periods(t)' = ticks[t] + 1
        BY <1>1, <3>1 DEF Periods
      <4>2. SaturatingAdd(Due(t, ticks[t]), n) = Due(t, ticks[t] + 1)
        BY <1>2, <1>3, AddPeriod DEF Due
      <4> QED BY <1>2, <3>1, <4>1, <4>2
    <3>2. CASE sort[t] # "interval"
      <4>1. Periods(t) = 1 /\ Periods(t)' = 1
        BY <1>1, <3>2 DEF Periods
      <4> QED BY <1>2, <3>2, <4>1
    <3> QED BY <3>1, <3>2
  <2>4. Clock(t) >= Due(t, IF sort[t] = "interval" THEN ticks[t] ELSE 1)
    BY <1>1, <1>2 DEF Periods
  <2>5. \A u \in Timer \ {t} :
          /\ mode'[u] # "unstarted" => deadline'[u] = Due(u, Periods(u))'
          /\ ticks'[u] > 0 => Clock(u)' >= Due(u, IF sort[u] = "interval" THEN ticks[u] - 1 ELSE 1)'
    BY <1>1, <2>1, <2>2 DEF DueInv
  <2>6. deadline'[t] = Due(t, Periods(t))'
    BY <1>1, <2>1, <2>3
  <2>7. (IF sort[t] = "interval" THEN ticks[t] - 1 ELSE 1)'
          = IF sort[t] = "interval" THEN ticks[t] ELSE 1
    BY <1>1, <1>2
  <2>8. Clock(t)' >= Due(t, IF sort[t] = "interval" THEN ticks[t] - 1 ELSE 1)'
    BY <2>1, <2>4, <2>7
  <2> HIDE DEF d, q
  <2> QED BY <2>5, <2>6, <2>8 DEF DueInv
<1>7. ListInv'
  BY <1>1, <1>2 DEF ListInv
<1>8. NoStaleTimer' /\ NobodyForgotten'
  <2> HIDE DEF d
  <2> QED BY <1>1 DEF NoStaleTimer, NobodyForgotten
<1> QED BY <1>4, <1>5, <1>6, <1>7, <1>8

\* A step that leaves the deadlines and the clocks alone keeps what is due.
LEMMA DueKept ==
  ASSUME DueInv, UNCHANGED <<virtual, wall, sort, span, mode, deadline, began, ticks>>
  PROVE  DueInv'
<1>1. \A u \in Timer : /\ Clock(u)' = Clock(u) /\ Periods(u)' = Periods(u)
                       /\ \A k : Due(u, k)' = Due(u, k)
  BY DEF Clock, Periods, Due
<1> QED BY <1>1 DEF DueInv

\* A pending timer goes on the engine's list.
LEMMA RegisterStep ==
  ASSUME TimerInv, NEW t \in Timer, Register(t)
  PROVE  TimerInv'
<1> USE DEF TimerInv
<1>1. /\ UNCHANGED <<timerHook, virtual, wall, sort, span, mode, deadline, began, ticks>>
      /\ tpc[t] = "registering"
      /\ \A u \in Timer : tpc'[u] = IF u = t THEN "pending" ELSE tpc[u]
      /\ \A u \in Timer : listed'[u] = IF u = t THEN deadline[t] ELSE listed[u]
  BY DEF Register, clocks, TGoto, TimerTypeOK
<1>2. TimerTypeOK'
  <2>1. tpc' \in [Timer -> {"unused", "made", "checking", "registering", "pending",
                            "resting", "done", "gone"}]
    BY DEF Register, TGoto, TimerTypeOK
  <2>2. listed' \in [Timer -> -1..MaxNanos]
    <3>1. deadline[t] \in -1..MaxNanos
      BY NanosOK DEF TimerTypeOK
    <3> QED BY <3>1 DEF Register, TimerTypeOK
  <2> QED BY <1>1, <2>1, <2>2 DEF TimerTypeOK
<1>3. StageInv' /\ ListInv'
  BY <1>1 DEF StageInv, ListInv
<1>4. DueInv'
  BY <1>1, DueKept
<1>5. NoStaleTimer' /\ NobodyForgotten'
  BY <1>1 DEF NoStaleTimer, NobodyForgotten
<1> QED BY <1>2, <1>3, <1>4, <1>5

\* A future goes away: what the list keeps of a sleep or timeout has come.
LEMMA DropTimerStep ==
  ASSUME TimerInv, NEW t \in Timer, DropTimer(t)
  PROVE  TimerInv'
<1> USE DEF TimerInv
<1> DEFINE off == mode[t] = "hooked" /\ ticks[t] = 0 /\ sort[t] # "interval"
<1>1. /\ UNCHANGED <<timerHook, virtual, wall, sort, span, mode, deadline, began, ticks>>
      /\ \A u \in Timer : tpc'[u] = IF u = t THEN "gone" ELSE tpc[u]
      /\ \A u \in Timer : listed'[u] = IF u = t /\ off THEN -1 ELSE listed[u]
  BY DEF DropTimer, clocks, TGoto, TimerTypeOK
<1>2. TimerTypeOK'
  <2>1. tpc' \in [Timer -> {"unused", "made", "checking", "registering", "pending",
                            "resting", "done", "gone"}]
    BY DEF DropTimer, TGoto, TimerTypeOK
  <2>2. listed' \in [Timer -> -1..MaxNanos]
    <3>1. listed[t] \in -1..MaxNanos /\ -1 \in -1..MaxNanos
      BY NanosOK DEF TimerTypeOK
    <3> QED BY <3>1 DEF DropTimer, TimerTypeOK
  <2> QED BY <1>1, <2>1, <2>2 DEF TimerTypeOK
<1>3. StageInv' /\ ListInv'
  BY <1>1 DEF StageInv, ListInv
<1>4. DueInv'
  BY <1>1, DueKept
<1>5. NobodyForgotten'
  BY <1>1 DEF NobodyForgotten
<1>6. sort[t] # "interval" => listed'[t] <= virtual
  <2>1. SUFFICES ASSUME sort[t] # "interval", ~off, listed[t] # -1 PROVE listed[t] <= virtual
    BY <1>1, NanosOK DEF TimerTypeOK
  <2>2. mode[t] = "hooked" /\ listed[t] = deadline[t] /\ ticks[t] > 0
    BY <2>1 DEF ListInv, TimerTypeOK
  <2>3. virtual >= deadline[t]
    BY <2>1, <2>2 DEF DueInv, Periods, Clock
  <2> QED BY <2>2, <2>3 DEF TimerTypeOK
<1>7. NoStaleTimer'
  <2>1. listed'[t] \in Int /\ virtual \in Int
    BY <1>2 DEF TimerTypeOK
  <2> QED BY <1>1, <1>6, <2>1 DEF NoStaleTimer
<1> QED BY <1>2, <1>3, <1>4, <1>5, <1>7

\* Time goes on, on the engine's clock or on tokio's.
LEMMA ClockStep ==
  ASSUME TimerInv, Advance \/ Pass
  PROVE  TimerInv'
<1> USE DEF TimerInv
<1>1. /\ UNCHANGED <<timerHook, sort, span, mode, tpc, deadline, began, ticks>>
      /\ virtual \in Nat /\ wall \in Nat /\ virtual' \in 0..MaxNanos /\ wall' \in 0..MaxNanos
      /\ virtual' >= virtual /\ wall' >= wall
      /\ \A t \in Timer : listed[t] \in -1..MaxNanos /\ deadline[t] \in 0..MaxNanos
  BY NanosOK DEF Advance, Pass, TimerTypeOK
<1>2. /\ listed' \in [Timer -> -1..MaxNanos]
      /\ \A t \in Timer : listed'[t] = listed[t] \/ (listed'[t] = -1 /\ listed[t] <= virtual')
  <2>1. CASE Advance
    <3>1. virtual' = virtual + 1
          /\ listed' = [t \in Timer |-> IF listed[t] <= virtual + 1 THEN -1 ELSE listed[t]]
      BY <2>1 DEF Advance
    <3>2. \A t \in Timer : (IF listed[t] <= virtual + 1 THEN -1 ELSE listed[t]) \in -1..MaxNanos
      BY <1>1, NanosOK
    <3> QED BY <3>1, <3>2
  <2>2. CASE Pass
    BY <2>2 DEF Pass, TimerTypeOK
  <2> QED BY <2>1, <2>2
<1>3. TimerTypeOK'
  BY <1>1, <1>2 DEF TimerTypeOK
<1>4. StageInv'
  BY <1>1 DEF StageInv
<1>5. DueInv'
  <2>1. \A u \in Timer : /\ Clock(u) \in Nat /\ Clock(u)' \in Nat /\ Clock(u)' >= Clock(u)
                         /\ Periods(u)' = Periods(u) /\ \A k : Due(u, k)' = Due(u, k)
    BY <1>1 DEF Clock, Periods, Due
  <2>2. ASSUME NEW u \in Timer, NEW k \in Nat PROVE Due(u, k) \in Int
    <3> DEFINE m == k * ToNanos(span[u])
    <3>1. m \in Nat
      BY SpanType, AddPeriod
    <3>2. began[u] \in Nat
      BY NanosOK DEF TimerTypeOK
    <3>3. Due(u, k) = SaturatingAdd(began[u], m)
      BY DEF Due
    <3> HIDE DEF m
    <3>4. SaturatingAdd(began[u], m) \in 0..MaxNanos
      BY <3>1, <3>2, NanosType
    <3> QED BY <3>3, <3>4
  <2>3. ASSUME NEW u \in Timer, ticks[u] > 0
        PROVE  Clock(u)' >= Due(u, IF sort[u] = "interval" THEN ticks[u] - 1 ELSE 1)
    <3>1. (IF sort[u] = "interval" THEN ticks[u] - 1 ELSE 1) \in Nat
      BY <2>3 DEF TimerTypeOK
    <3>2. Due(u, IF sort[u] = "interval" THEN ticks[u] - 1 ELSE 1) \in Int
      BY <2>2, <3>1
    <3>3. Clock(u) >= Due(u, IF sort[u] = "interval" THEN ticks[u] - 1 ELSE 1)
      BY <2>3 DEF DueInv
    <3> QED BY <2>1, <3>2, <3>3
  <2> QED BY <1>1, <2>1, <2>3 DEF DueInv
<1>6. ListInv'
  BY <1>1, <1>2 DEF ListInv
<1>7. NoStaleTimer' /\ NobodyForgotten'
  BY <1>1, <1>2 DEF NoStaleTimer, NobodyForgotten
<1> QED BY <1>3, <1>4, <1>5, <1>6, <1>7

\* Every step keeps the invariant.
LEMMA TimerInvStep == TimerInv /\ [TimerNext]_timerVars => TimerInv'
<1> SUFFICES ASSUME TimerInv, [TimerNext]_timerVars PROVE TimerInv'
  OBVIOUS
<1> USE DEF TimerInv
<1>1. ASSUME NEW t \in Timer, NewTimer(t) \/ Repoll(t) \/ TickAgain(t) \/ ValueFirst(t)
      PROVE  TimerInv'
  <2>1. CASE NewTimer(t)
    BY <2>1, TimerMoves DEF NewTimer, StageInv
  <2>2. CASE Repoll(t)
    BY <2>2, TimerMoves DEF Repoll, StageInv, TimerTypeOK
  <2>3. CASE TickAgain(t)
    BY <2>3, TimerMoves DEF TickAgain, StageInv
  <2>4. CASE ValueFirst(t)
    BY <2>4, TimerMoves DEF ValueFirst
  <2> QED BY <1>1, <2>1, <2>2, <2>3, <2>4
<1>2. ASSUME NEW t \in Timer, Check(t) PROVE TimerInv'
  <2>1. /\ mode[t] # "unstarted" /\ ticks[t] < MaxTicks /\ (sort[t] # "interval" => ticks[t] = 0)
    BY <1>2 DEF Check, StageInv
  <2>2. CASE mode[t] = "hooked"
    BY <1>2, <2>1, <2>2, TimerMoves DEF Check
  <2>3. CASE mode[t] # "hooked"
    BY <1>2, <2>1, <2>3, TimerMoves DEF Check
  <2> QED BY <2>2, <2>3
<1>3. ASSUME NEW on \in BOOLEAN, SetTimerHook(on) PROVE TimerInv'
  <2>1. /\ UNCHANGED <<virtual, wall, sort, span, mode, tpc, deadline, began, ticks, listed>>
        /\ timerHook' \in BOOLEAN
    BY <1>3 DEF SetTimerHook
  <2>2. TimerTypeOK'
    BY <2>1 DEF TimerTypeOK
  <2>3. DueInv'
    BY <2>1, DueKept
  <2> QED BY <2>1, <2>2, <2>3 DEF StageInv, ListInv, NoStaleTimer, NobodyForgotten
<1>4. CASE UNCHANGED timerVars
  <2>1. UNCHANGED <<timerHook, virtual, wall, sort, span, mode, tpc, deadline, began, ticks,
                    listed>>
    BY <1>4 DEF timerVars, clocks
  <2>2. DueInv'
    BY <2>1, DueKept
  <2> QED BY <2>1, <2>2 DEF TimerTypeOK, StageInv, ListInv, NoStaleTimer, NobodyForgotten
<1> QED BY <1>1, <1>2, <1>3, <1>4, StartTimerStep, FireStep, RegisterStep, DropTimerStep, ClockStep
        DEF TimerNext, Poll

\* What the engine and the program rely on of virtual time, for any timers,
\* spans and width of the clock: no timer resolves early, saturation included,
\* the engine lists no sleep or timeout that is gone, and knows every pending
\* one, whatever happens to the hook slot.
THEOREM TimersAreSound == TimerSpec => []TimersSound
<1>1. TimerSpec => []TimerInv
  BY TimerInvInit, TimerInvStep, PTL DEF TimerSpec
<1>2. TimerInv => TimersSound
  <2> SUFFICES ASSUME TimerInv PROVE TimersSound
    OBVIOUS
  <2>1. NeverEarly
    BY DEF TimerInv, DueInv, Due, NeverEarly
  <2> QED BY <2>1 DEF TimerInv, TimersSound
<1> QED BY <1>1, <1>2, PTL
=============================================================================
