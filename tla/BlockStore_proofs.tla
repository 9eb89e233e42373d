-------------------------- MODULE BlockStore_proofs --------------------------
(***************************************************************************)
(* The offload tables implement the abstract block store: each operation   *)
(* rewrites live blocks only, freezes blocks with the value they have,     *)
(* drops blocks, or changes nothing a reader can see.                      *)
(***************************************************************************)
EXTENDS KVOffload_proofs

USE ConstantsAssumption

-----------------------------------------------------------------------------
(* What a reader finds, by residency, before and after a step. *)

LEMMA ViewAt ==
    ASSUME NEW r \in Refs
    PROVE  /\ loc[r].res = "none" => View[r] = None
           /\ loc[r].res = "gpu" => View[r] = kv[loc[r].page]
           /\ loc[r].res = "cpu" => View[r] = cpuMem[loc[r].cpu]
           /\ loc[r].res = "staging" => View[r] = stage[loc[r].stg]
  BY DEF View

LEMMA ViewAtNext ==
    ASSUME NEW r \in Refs
    PROVE  /\ loc'[r].res = "none" => View'[r] = None
           /\ loc'[r].res = "gpu" => View'[r] = kv'[loc'[r].page]
           /\ loc'[r].res = "cpu" => View'[r] = cpuMem'[loc'[r].cpu]
           /\ loc'[r].res = "staging" => View'[r] = stage'[loc'[r].stg]
  BY DEF View

LEMMA ViewExtensional ==
    ASSUME \A r \in Refs : View'[r] = View[r] PROVE View' = View
  BY DEF View

\* The value of a block is a page content, and unknown blocks have none.
LEMMA ViewType ==
    ASSUME IInv
    PROVE  /\ View \in [Refs -> Values \cup {None}]
           /\ \A r \in Refs : View[r] # None <=> loc[r].res # "none"
  <1> SUFFICES ASSUME NEW r \in Refs
               PROVE  /\ View[r] \in Values \cup {None}
                      /\ View[r] # None <=> loc[r].res # "none"
    BY DEF View
  <1>1. /\ loc[r].page \in Pages \cup {None}
        /\ loc[r].cpu \in CpuSlots \cup {None}
        /\ loc[r].stg \in StagingSlots \cup {None}
        /\ loc[r].res \in {"none", "gpu", "cpu", "staging"}
    BY LocationFields DEF IInv, TypeOK
  <1>2. /\ loc[r].res = "gpu" => loc[r].page \in Pages
        /\ loc[r].res = "cpu" => loc[r].cpu \in CpuSlots
        /\ loc[r].res = "staging" => loc[r].stg \in StagingSlots
    BY <1>1 DEF IInv, BackedByCpu, LruMatchesResidency
  <1>3. None \notin Values
    OBVIOUS
  <1> QED  BY <1>1, <1>2, <1>3, ViewAt DEF IInv, TypeOK

LEMMA ViewTypeNext == (IInv => View \in [Refs -> Values \cup {None}])'
  <1>1. IInv => View \in [Refs -> Values \cup {None}]
    BY ViewType
  <1> QED  BY <1>1, PTL

-----------------------------------------------------------------------------
(* One lemma per kind of step. *)

\* A store freezes its blocks with the value they have.
LEMMA StoreBatchFreezes ==
    ASSUME IInv,
           NEW E, E \subseteq RefsAt("gpu"),
           NEW f \in [E -> cpuFree], Injective(f),
           StoreBatch(E, f),
           UNCHANGED <<kv, stage>>
    PROVE  Store!Next
  <1>a. E \subseteq Refs /\ \A r \in E : loc[r].res = "gpu"
    BY DEF RefsAt
  <1>c. \A r \in E : f[r] \in cpuFree /\ f[r] \in CpuSlots
    BY DEF IInv, TypeOK
  <1>d. \A r \in Refs \ E : loc'[r] = loc[r]
    BY DEF StoreBatch
  <1>e. \A r \in E : loc'[r] = MarkCpu(loc[r], f[r])
    BY <1>a DEF StoreBatch
  <1>f. ASSUME NEW r \in E PROVE loc'[r].res = "cpu" /\ loc'[r].cpu = f[r]
    BY <1>e, MarkCpuFields
  <1>1. ASSUME NEW r \in Refs PROVE View'[r] = View[r]
    <2>1. CASE r \in E
      <3>1. (CHOOSE ref \in E : f[ref] = f[r]) = r
        BY <2>1 DEF Injective
      <3>2. cpuMem'[f[r]] = kv[loc[r].page]
        BY <2>1, <3>1, <1>c DEF StoreBatch
      <3> QED  BY <2>1, <3>2, <1>a, <1>f, ViewAt, ViewAtNext
    <2>2. CASE r \notin E
      <3>1. loc'[r] = loc[r]
        BY <2>2, <1>d
      <3>2. CASE loc[r].res = "cpu"
        <4>1. loc[r].cpu \in CpuSlots /\ loc[r].cpu \notin cpuFree
          BY <3>2, LocationFields DEF IInv, TypeOK, BackedByCpu, CpuSlotsConserved
        <4>2. cpuMem'[loc[r].cpu] = cpuMem[loc[r].cpu]
          BY <4>1, <1>c DEF StoreBatch
        <4> QED  BY <3>1, <3>2, <4>2, ViewAt, ViewAtNext
      <3>3. loc[r].res \in {"none", "gpu", "cpu", "staging"}
        BY LocationFields DEF IInv, TypeOK
      <3> QED  BY <3>1, <3>2, <3>3, ViewAt, ViewAtNext
    <2> QED  BY <2>1, <2>2
  <1>2. View' = View
    BY <1>1, ViewExtensional
  <1>3. Frozen' = Frozen \cup E
    BY <1>a, <1>d, <1>f DEF Frozen, RefsAt
  <1>4. E \in SUBSET {r \in Refs : View[r] # None}
    BY <1>a, ViewType
  <1> QED  BY <1>2, <1>3, <1>4 DEF Store!Next, Store!Freeze

\* A step that moves no block and writes no slot a block holds is invisible.
LEMMA SameViewStutters ==
    ASSUME View' = View, Frozen' = Frozen
    PROVE  UNCHANGED Store!vars
  BY DEF Store!vars

LEMMA StoreBatchFailsStutters ==
    ASSUME IInv,
           NEW E, NEW f \in [E -> cpuFree],
           StoreBatchFails(E, f),
           UNCHANGED <<kv, stage>>
    PROVE  UNCHANGED Store!vars
  <1>1. loc' = loc
    BY DEF StoreBatchFails, tableVars
  <1>2. ASSUME NEW r \in Refs PROVE View'[r] = View[r]
    <2>1. CASE loc[r].res = "cpu"
      <3>1. loc[r].cpu \in CpuSlots /\ loc[r].cpu \notin cpuFree
        BY <2>1, LocationFields DEF IInv, TypeOK, BackedByCpu, CpuSlotsConserved
      <3>2. cpuMem'[loc[r].cpu] = cpuMem[loc[r].cpu]
        BY <3>1 DEF StoreBatchFails
      <3> QED  BY <1>1, <2>1, <3>2, ViewAt, ViewAtNext
    <2>2. loc[r].res \in {"none", "gpu", "cpu", "staging"}
      BY LocationFields DEF IInv, TypeOK
    <2> QED  BY <1>1, <2>1, <2>2, ViewAt, ViewAtNext
  <1>3. View' = View
    BY <1>2, ViewExtensional
  <1>4. Frozen' = Frozen
    BY <1>1 DEF Frozen, RefsAt
  <1> QED  BY <1>3, <1>4, SameViewStutters

LEMMA FrameStutters ==
    ASSUME UNCHANGED <<loc, kv, cpuMem, stage>>
    PROVE  UNCHANGED Store!vars
  <1>1. View' = View
    BY DEF View
  <1>2. Frozen' = Frozen
    BY DEF Frozen, RefsAt
  <1> QED  BY <1>1, <1>2, SameViewStutters

LEMMA OffloadSteps ==
    ASSUME IInv,
           NEW cands, cands \subseteq RefsAt("gpu"), NEW count,
           Offload(cands, count),
           UNCHANGED <<kv, stage>>
    PROVE  [Store!Next]_Store!vars
  <1>1. CASE UNCHANGED <<tableVars, cpuFree, cpuMem>>
    BY <1>1, FrameStutters DEF tableVars
  <1>2. CASE \E E \in EvictionChoices(cands, count) : \E f \in [E -> cpuFree] :
               Injective(f) /\ (StoreBatch(E, f) \/ StoreBatchFails(E, f))
    <2>1. PICK E \in EvictionChoices(cands, count) : \E f \in [E -> cpuFree] :
               Injective(f) /\ (StoreBatch(E, f) \/ StoreBatchFails(E, f))
      BY <1>2
    <2>2. PICK f \in [E -> cpuFree] :
               Injective(f) /\ (StoreBatch(E, f) \/ StoreBatchFails(E, f))
      BY <2>1
    <2>3. E \subseteq RefsAt("gpu")
      BY DEF EvictionChoices
    <2>4. CASE StoreBatch(E, f)
      BY <2>2, <2>3, <2>4, StoreBatchFreezes
    <2>5. CASE StoreBatchFails(E, f)
      BY <2>5, StoreBatchFailsStutters
    <2> QED  BY <2>2, <2>4, <2>5
  <1> QED  BY <1>1, <1>2 DEF Offload

LEMMA OffloadFractionSteps ==
    ASSUME IInv,
           NEW cands, NEW known,
           OffloadFraction(cands, known),
           UNCHANGED <<kv, stage>>
    PROVE  [Store!Next]_Store!vars
  <1>1. PICK eligible : eligible = cands \cap known \cap GpuComplete
    OBVIOUS
  <1>2. eligible \subseteq RefsAt("gpu")
    BY <1>1 DEF GpuComplete
  <1>3. CASE Offload(eligible, NumToOffload(Cardinality(eligible)))
    BY <1>2, <1>3, OffloadSteps
  <1>4. CASE UNCHANGED <<tableVars, cpuFree, cpuMem>>
    BY <1>4, FrameStutters DEF tableVars
  <1> QED  BY <1>1, <1>3, <1>4 DEF OffloadFraction

\* Staging and evicting copy values, they change none.
LEMMA StageBatchStutters ==
    ASSUME IInv,
           NEW hits, NEW A, A \subseteq RefsAt("cpu"),
           NEW f \in [A -> Usable], Injective(f),
           StageBatch(hits, A, f),
           UNCHANGED <<kv, cpuMem>>
    PROVE  UNCHANGED Store!vars
  <1> DEFINE out == Evicted(A, f)
  <1>a. A \subseteq Refs /\ \A r \in A : loc[r].res = "cpu"
    BY DEF RefsAt
  <1>b. out \subseteq Refs /\ (\A r \in out : loc[r].res = "staging") /\ A \cap out = {}
    <2>1. out \subseteq RefsAt("staging")
      BY ReservedSlots
    <2> HIDE DEF out
    <2> QED  BY <1>a, <2>1 DEF RefsAt
  <1>e. \A r \in A : loc'[r] = MarkStaging(loc[r], f[r])
    BY <1>a DEF StageBatch
  <1>f. \A r \in out : loc'[r] = MarkCpu(loc[r], loc[r].cpu)
    BY <1>b DEF StageBatch
  <1>g. \A r \in Refs \ (A \cup out) : loc'[r] = loc[r]
    BY DEF StageBatch
  <1>h. ASSUME NEW r \in A PROVE loc'[r].res = "staging" /\ loc'[r].stg = f[r]
    BY <1>e, MarkStagingFields
  <1>i. ASSUME NEW r \in out PROVE loc'[r].res = "cpu" /\ loc'[r].cpu = loc[r].cpu
    BY <1>f, MarkCpuFields
  <1>1. ASSUME NEW r \in Refs PROVE View'[r] = View[r]
    <2>1. CASE r \in A
      <3>1. (CHOOSE ref \in A : f[ref] = f[r]) = r
        BY <2>1 DEF Injective
      <3>2. f[r] \in StagingSlots
        BY <2>1, ReservedSlots
      <3>3. stage'[f[r]] = cpuMem[loc[r].cpu]
        BY <2>1, <3>1, <3>2 DEF StageBatch
      <3> QED  BY <2>1, <3>3, <1>a, <1>h, ViewAt, ViewAtNext
    <2>2. CASE r \in out
      <3>1. stage[loc[r].stg] = cpuMem[loc[r].cpu]
        BY <2>2, <1>b DEF IInv, StagedCopyMatches
      <3> QED  BY <2>2, <3>1, <1>b, <1>i, ViewAt, ViewAtNext
    <2>3. CASE r \notin A \cup out
      <3>1. loc'[r] = loc[r]
        BY <2>3, <1>g
      <3>2. CASE loc[r].res = "staging"
        <4>1. lru[r] = loc[r].stg /\ lru[r] # None
          BY <3>2 DEF IInv, LruMatchesResidency
        <4>2. lru[r] \in StagingSlots /\ ~ \E a \in A : f[a] = lru[r]
          BY <2>3, <4>1, ReservedSlots DEF IInv, TypeOK
        <4>3. stage'[loc[r].stg] = stage[loc[r].stg]
          BY <4>1, <4>2 DEF StageBatch
        <4> QED  BY <3>1, <3>2, <4>3, ViewAt, ViewAtNext
      <3>3. loc[r].res \in {"none", "gpu", "cpu", "staging"}
        BY LocationFields DEF IInv, TypeOK
      <3> QED  BY <3>1, <3>2, <3>3, ViewAt, ViewAtNext
    <2> QED  BY <2>1, <2>2, <2>3
  <1>2. View' = View
    BY <1>1, ViewExtensional
  <1>3. Frozen' = Frozen
    BY <1>a, <1>b, <1>g, <1>h, <1>i DEF Frozen, RefsAt
  <1> QED  BY <1>2, <1>3, SameViewStutters

LEMMA StageBatchFailsStutters ==
    ASSUME IInv,
           NEW A, A \subseteq RefsAt("cpu"),
           NEW f \in [A -> Usable],
           StageBatchFails(A, f),
           UNCHANGED <<kv, cpuMem>>
    PROVE  UNCHANGED Store!vars
  <1> DEFINE out == Evicted(A, f)
  <1>b. out \subseteq Refs /\ \A r \in out : loc[r].res = "staging"
    BY ReservedSlots DEF RefsAt
  <1>f. \A r \in out : loc'[r] = MarkCpu(loc[r], loc[r].cpu)
    BY <1>b DEF StageBatchFails
  <1>g. \A r \in Refs \ out : loc'[r] = loc[r]
    BY DEF StageBatchFails
  <1>i. ASSUME NEW r \in out PROVE loc'[r].res = "cpu" /\ loc'[r].cpu = loc[r].cpu
    BY <1>f, MarkCpuFields
  <1>1. ASSUME NEW r \in Refs PROVE View'[r] = View[r]
    <2>1. CASE r \in out
      <3>1. stage[loc[r].stg] = cpuMem[loc[r].cpu]
        BY <2>1, <1>b DEF IInv, StagedCopyMatches
      <3> QED  BY <2>1, <3>1, <1>b, <1>i, ViewAt, ViewAtNext
    <2>2. CASE r \notin out
      <3>1. loc'[r] = loc[r]
        BY <2>2, <1>g
      <3>2. CASE loc[r].res = "staging"
        <4>1. lru[r] = loc[r].stg /\ lru[r] # None
          BY <3>2 DEF IInv, LruMatchesResidency
        <4>2. lru[r] \in StagingSlots /\ ~ \E a \in A : f[a] = lru[r]
          BY <2>2, <4>1, ReservedSlots DEF IInv, TypeOK
        <4>3. stage'[loc[r].stg] = stage[loc[r].stg]
          BY <4>1, <4>2 DEF StageBatchFails, TornStage
        <4> QED  BY <3>1, <3>2, <4>3, ViewAt, ViewAtNext
      <3>3. loc[r].res \in {"none", "gpu", "cpu", "staging"}
        BY LocationFields DEF IInv, TypeOK
      <3> QED  BY <3>1, <3>2, <3>3, ViewAt, ViewAtNext
    <2> QED  BY <2>1, <2>2
  <1>2. View' = View
    BY <1>1, ViewExtensional
  <1>3. Frozen' = Frozen
    BY <1>b, <1>g, <1>i DEF Frozen, RefsAt
  <1> QED  BY <1>2, <1>3, SameViewStutters

LEMMA EnsureResidentStutters ==
    ASSUME IInv,
           NEW refs, NEW armed,
           EnsureResident(refs, armed) \/ EnsureResidentRaises(refs, armed)
    PROVE  UNCHANGED Store!vars
  <1>1. PICK fetch, hits : fetch = refs \cap RefsAt("cpu") /\ hits = refs \cap RefsAt("staging")
    OBVIOUS
  <1>2. CASE EnsureResident(refs, armed)
    <2>1. PICK A \in SUBSET fetch : \E f \in [A -> Usable] :
             Reservation(fetch, A, f) /\ StageBatch(hits, A, f)
      BY <1>1, <1>2 DEF EnsureResident
    <2>2. PICK f \in [A -> Usable] : Reservation(fetch, A, f) /\ StageBatch(hits, A, f)
      BY <2>1
    <2>3. UNCHANGED <<kv, cpuMem>>
      BY <1>2 DEF EnsureResident
    <2>4. A \subseteq RefsAt("cpu") /\ Injective(f)
      BY <1>1, <2>1, <2>2 DEF Reservation
    <2> QED  BY <2>2, <2>3, <2>4, StageBatchStutters
  <1>3. CASE EnsureResidentRaises(refs, armed)
    <2>1. PICK A \in SUBSET fetch : \E f \in [A -> Usable] : StageBatchFails(A, f)
      BY <1>1, <1>3 DEF EnsureResidentRaises
    <2>2. PICK f \in [A -> Usable] : StageBatchFails(A, f)
      BY <2>1
    <2>3. UNCHANGED <<kv, cpuMem>>
      BY <1>3 DEF EnsureResidentRaises
    <2>4. A \subseteq RefsAt("cpu")
      BY <1>1, <2>1
    <2> QED  BY <2>2, <2>3, <2>4, StageBatchFailsStutters
  <1> QED  BY <1>2, <1>3

\* Re-syncs, completions and the kernels' writes touch live blocks only.
LEMMA LiveRewrites ==
    ASSUME IInv, IInv',
           \A r \in Refs : loc[r].res \in {"cpu", "staging"} =>
              /\ loc'[r].res = loc[r].res
              /\ loc'[r].cpu = loc[r].cpu
              /\ loc'[r].stg = loc[r].stg,
           \A r \in Refs : loc[r].res \in {"none", "gpu"} =>
              loc'[r].res \in {"none", "gpu"},
           UNCHANGED <<cpuMem, stage>>
    PROVE  Store!Next
  <1>1. Frozen' = Frozen
    <2>1. \A r \in Refs : loc[r].res \in {"none", "gpu", "cpu", "staging"}
      BY LocationFields DEF IInv, TypeOK
    <2> QED  BY <2>1 DEF Frozen, RefsAt
  <1>2. ASSUME NEW r \in Frozen PROVE View'[r] = View[r]
    <2>1. r \in Refs /\ loc[r].res \in {"cpu", "staging"}
      BY DEF Frozen, RefsAt
    <2> QED  BY <2>1, ViewAt, ViewAtNext
  <1>3. View' \in [Refs -> Values \cup {None}]
    BY ViewTypeNext
  <1> QED  BY <1>1, <1>2, <1>3 DEF Store!Next, Store!Rewrite

LEMMA SyncRewrites ==
    ASSUME IInv, IInv',
           NEW q \in Requests, NEW n \in 0 .. MaxBlocks, NEW computed \in 0 .. MaxTokens,
           NEW ids \in [0 .. n - 1 -> Pages],
           SyncRequestBlocks(q, n, ids, computed)
    PROVE  Store!Next
  <1> DEFINE listed == {q} \X (0 .. n - 1)
  <1>1. ASSUME NEW r \in Refs
        PROVE  /\ loc'[r].res = loc[r].res \/ (loc[r].res \in {"none", "gpu"} /\ loc'[r].res = "gpu")
               /\ loc'[r].cpu = loc[r].cpu /\ loc'[r].stg = loc[r].stg
    <2>1. /\ loc[r] \in Location
          /\ loc[r].stg # None => loc[r].res = "staging"
          /\ loc[r].page # None <=> loc[r].res # "none"
      BY DEF IInv, TypeOK, LruMatchesResidency, BackedByCpu
    <2>2. CASE r \in listed
      <3>1. /\ loc'[r] = SyncedLocation(loc[r], ids[r[2]], Filled(r[2], computed))
            /\ ids[r[2]] \in Pages
            /\ Filled(r[2], computed) \in BOOLEAN
        BY <2>2 DEF SyncRequestBlocks, Filled
      <3> QED  BY <2>1, <3>1, SyncedLocationFields
    <2>3. CASE r \notin listed
      <3>1. loc'[r] = loc[r]
        BY <2>3 DEF SyncRequestBlocks
      <3> QED  BY <3>1
    <2> QED  BY <2>2, <2>3
  <1>2. UNCHANGED <<cpuMem, stage>>
    BY DEF SyncRequestBlocks, memVars
  <1> QED  BY <1>1, <1>2, LiveRewrites

LEMMA PrefillRewrites ==
    ASSUME IInv, IInv',
           NEW q \in Requests, NEW computed,
           OnPrefillComplete(q, computed)
    PROVE  Store!Next
  <1>1. ASSUME NEW r \in Refs
        PROVE  /\ loc'[r].res = loc[r].res
               /\ loc'[r].cpu = loc[r].cpu /\ loc'[r].stg = loc[r].stg
    <2>1. PICK done \in BOOLEAN : loc'[r] = [loc[r] EXCEPT !.complete = @ \/ done]
      BY DEF OnPrefillComplete
    <2>2. loc[r] \in Location
      BY DEF IInv, TypeOK
    <2> QED  BY <2>1, <2>2, MarkComplete
  <1>2. UNCHANGED <<cpuMem, stage>>
    BY DEF OnPrefillComplete, memVars
  <1> QED  BY <1>1, <1>2, LiveRewrites

\* Cleaning a request up drops its blocks and leaves the others their values.
LEMMA CleanupDrops ==
    ASSUME IInv, IInv', NEW q \in Requests, CleanupRequest(q)
    PROVE  Store!Next
  <1>1. PICK gone : gone = {q} \X (0 .. tracked[q] - 1)
    OBVIOUS
  <1>2. gone \subseteq Refs
    <2>1. tracked[q] \in 0 .. MaxBlocks
      BY DEF IInv, TypeOK
    <2> QED  BY <1>1, <2>1 DEF Refs
  <1>3. Dropped(q, gone)
    BY <1>1 DEF CleanupRequest
  <1>4. \A r \in gone : loc'[r] = Unknown
    BY <1>2, <1>3 DEF Dropped
  <1>5. \A r \in Refs \ gone : loc'[r] = loc[r]
    BY <1>3 DEF Dropped
  <1>6. \A r \in gone : loc'[r].res = "none"
    BY <1>4, UnknownFields
  <1>7. Frozen' = Frozen \ gone
    BY <1>2, <1>5, <1>6 DEF Frozen, RefsAt
  <1>8. UNCHANGED <<kv, cpuMem, stage>>
    BY <1>3 DEF Dropped, memVars
  <1>9. ASSUME NEW r \in Refs
        PROVE  View'[r] = IF r \in gone THEN None ELSE View[r]
    <2>1. CASE r \in gone
      BY <2>1, <1>6, ViewAtNext
    <2>2. CASE r \notin gone
      <3>1. loc[r].res \in {"none", "gpu", "cpu", "staging"}
        BY LocationFields DEF IInv, TypeOK
      <3> QED  BY <2>2, <3>1, <1>5, <1>8, ViewAt, ViewAtNext
    <2> QED  BY <2>1, <2>2
  <1>10. View' = [r \in Refs |-> IF r \in gone THEN None ELSE View[r]]
    <2>1. View' \in [Refs -> Values \cup {None}]
      BY ViewTypeNext
    <2> QED  BY <1>9, <2>1
  <1>11. Store!Drop(gone)
    BY <1>7, <1>10 DEF Store!Drop
  <1> QED  BY <1>2, <1>11 DEF Store!Next

-----------------------------------------------------------------------------
(* The refinement *)

LEMMA InitImplements == Init => Store!Init
  <1> SUFFICES ASSUME Init PROVE Store!Init
    OBVIOUS
  <1>1. \A r \in Refs : loc[r].res = "none"
    BY UnknownFields DEF Init
  <1>2. View = [r \in Refs |-> None]
    <2>1. \A r \in Refs : View[r] = None
      BY <1>1, ViewAt
    <2>2. View \in [Refs -> Values \cup {None}]
      BY InitIInv, ViewType
    <2> QED  BY <2>1, <2>2
  <1>3. Frozen = {}
    BY <1>1 DEF Frozen, RefsAt
  <1> QED  BY <1>2, <1>3 DEF Store!Init

LEMMA NextImplements ==
    IInv /\ IInv' /\ [Next]_vars => [Store!Next]_Store!vars
  <1> SUFFICES ASSUME IInv, IInv', [Next]_vars PROVE [Store!Next]_Store!vars
    OBVIOUS
  <1>1. CASE GpuWrite
    <2>1. UNCHANGED <<loc, cpuMem, stage>>
      BY <1>1 DEF GpuWrite, tableVars
    <2> QED  BY <2>1, LiveRewrites
  <1>2. ASSUME NEW q \in Requests, Sync(q) PROVE Store!Next
    BY <1>2, SyncRewrites DEF Sync
  <1>3. ASSUME NEW q \in Requests, NEW computed \in 0 .. MaxTokens,
               OnPrefillComplete(q, computed)
        PROVE  Store!Next
    BY <1>3, PrefillRewrites
  <1>4. CASE OnDecodeStep
    <2>1. PICK cands, known : cands = GpuComplete /\ known = scored
      OBVIOUS
    <2>2. OffloadFraction(cands, known) /\ UNCHANGED <<kv, stage>>
      BY <1>4, <2>1 DEF OnDecodeStep
    <2> QED  BY <2>2, OffloadFractionSteps
  <1>5. ASSUME NEW allowed \in SUBSET GpuComplete, TriggerOffload(allowed)
        PROVE  [Store!Next]_Store!vars
    <2>1. PICK known : known = scored'
      OBVIOUS
    <2>2. OffloadFraction(allowed, known) /\ UNCHANGED <<kv, stage>>
      BY <1>5, <2>1 DEF TriggerOffload
    <2> QED  BY <2>2, OffloadFractionSteps
  <1>6. ASSUME NEW cands \in SUBSET Refs, MaybeOffload(cands)
        PROVE  [Store!Next]_Store!vars
    <2>1. PICK eligible : eligible = cands \cap GpuComplete
      OBVIOUS
    <2>2. Offload(eligible, Cardinality(eligible) - GpuBudget) /\ UNCHANGED <<kv, stage>>
      BY <1>6, <2>1 DEF MaybeOffload
    <2>3. eligible \subseteq RefsAt("gpu")
      BY <2>1 DEF GpuComplete
    <2> QED  BY <2>2, <2>3, OffloadSteps
  <1>7. ASSUME NEW refs \in SUBSET Refs, FetchSelected(refs)
        PROVE  UNCHANGED Store!vars
    <2>1. PICK armed : armed = lagArmed
      OBVIOUS
    <2>2. EnsureResident(refs, armed) \/ EnsureResidentRaises(refs, armed)
      BY <1>7, <2>1 DEF FetchSelected
    <2> QED  BY <2>2, EnsureResidentStutters
  <1>8. ASSUME NEW needed \in SUBSET Refs,
               PrepareStaging(needed) \/ PrepareStagingRaises(needed)
        PROVE  UNCHANGED Store!vars
    <2>1. PICK refs : refs = needed \cap RefsAt("cpu")
      OBVIOUS
    <2>2. EnsureResident(refs, FALSE) \/ EnsureResidentRaises(refs, FALSE)
      BY <1>8, <2>1 DEF PrepareStaging, PrepareStagingRaises
    <2> QED  BY <2>2, EnsureResidentStutters
  <1>9. ASSUME NEW q \in Requests, PromoteHotCpuBlocks(q) \/ PromoteRaises(q)
        PROVE  UNCHANGED Store!vars
    <2>1. PICK armed : armed = lagArmed
      OBVIOUS
    <2>2. PICK picked : EnsureResident(picked, lagArmed) \/ EnsureResidentRaises(picked, lagArmed)
      BY <1>9 DEF PromoteHotCpuBlocks, PromoteRaises
    <2>3. EnsureResident(picked, armed) \/ EnsureResidentRaises(picked, armed)
      BY <2>1, <2>2
    <2> QED  BY <2>3, EnsureResidentStutters
  <1>10. ASSUME NEW q \in Requests, CleanupRequest(q) PROVE Store!Next
    BY <1>10, CleanupDrops
  <1>11. CASE UNCHANGED vars
    BY <1>11, FrameStutters DEF vars
  <1> QED
    BY <1>1, <1>2, <1>3, <1>4, <1>5, <1>6, <1>7, <1>8, <1>9, <1>10, <1>11 DEF Next

\* The offload tables implement the block store: no store, fetch, eviction,
\* failed batch, re-sync or cleanup of another request ever changes what a
\* reader of an offloaded block finds (integration/manager.py:73-76).
THEOREM TablesImplementBlockStore == Spec => ImplementsBlockStore
  <1>1. Spec => []IInv
    BY TablesInvariant
  <1>2. Spec => Store!Init /\ [][Store!Next]_Store!vars
    BY <1>1, InitImplements, NextImplements, PTL DEF Spec
  <1> QED  BY <1>2 DEF ImplementsBlockStore, Store!Spec

=============================================================================
