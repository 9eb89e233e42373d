-------------------------- MODULE KVOffload_proofs --------------------------
(***************************************************************************)
(* Proofs about the offload tables, for every number of requests, blocks,  *)
(* pages and slots.                                                        *)
(***************************************************************************)
EXTENDS KVOffload, FiniteSetTheorems, TLAPS

\* The inductive invariant: none of its conjuncts is inductive alone.  That a
\* slot is handed out once rests on GPU blocks holding no slot (BackedByCpu),
\* the staging side on the LRU agreeing with the residency table.
IInv ==
    /\ TypeOK
    /\ CpuSlotsConserved
    /\ StagingSlotsConserved
    /\ LruMatchesResidency
    /\ BackedByCpu
    /\ CpuCountExact
    /\ StagedCopyMatches

USE ConstantsAssumption

\* There are finitely many logical blocks.
LEMMA RefsFinite == IsFiniteSet(Refs)
  <1>1. IsFiniteSet(0 .. MaxBlocks - 1)
    BY FS_Interval
  <1> QED  BY <1>1, FS_Product DEF Refs

\* Cardinalities of sets of blocks are numbers, and those of disjoint sets add.
LEMMA RefsCard ==
    ASSUME NEW S \in SUBSET Refs
    PROVE  IsFiniteSet(S) /\ Cardinality(S) \in Nat
  BY RefsFinite, FS_Subset, FS_CardinalityType

LEMMA RefsCardUnion ==
    ASSUME NEW S \in SUBSET Refs, NEW T \in SUBSET Refs, S \cap T = {}
    PROVE  Cardinality(S \cup T) = Cardinality(S) + Cardinality(T)
  <1>1. Cardinality(S \cup T)
          = Cardinality(S) + Cardinality(T) - Cardinality(S \cap T)
    BY RefsCard, FS_Union
  <1>2. Cardinality(S \cap T) = 0
    BY FS_EmptySet, Zenon
  <1>3. Cardinality(S) \in Nat /\ Cardinality(T) \in Nat
    BY RefsCard
  <1> QED  BY <1>1, <1>2, <1>3

LEMMA RefsCardMinus ==
    ASSUME NEW S \in SUBSET Refs, NEW T \in SUBSET S
    PROVE  Cardinality(S \ T) = Cardinality(S) - Cardinality(T)
  <1>1. Cardinality(S \ T) = Cardinality(S) - Cardinality(S \cap T)
    BY RefsCard, FS_Difference
  <1>2. S \cap T = T
    OBVIOUS
  <1> QED  BY <1>1, <1>2

-----------------------------------------------------------------------------
(* Entries of the residency table: their fields, and that mark_* keep them    *)
(* well formed.                                                               *)

LEMMA LocationFields ==
    ASSUME NEW o \in Location
    PROVE  /\ o.res \in {"none", "gpu", "cpu", "staging"}
           /\ o.page \in Pages \cup {None}
           /\ o.cpu \in CpuSlots \cup {None}
           /\ o.stg \in StagingSlots \cup {None}
           /\ o.complete \in BOOLEAN
  BY DEF Location

LEMMA UnknownType == Unknown \in Location
  BY DEF Location, Unknown

LEMMA MarkGpuType ==
    ASSUME NEW o \in Location, NEW page \in Pages, NEW done \in BOOLEAN
    PROVE  MarkGpu(o, page, done) \in Location
  BY DEF Location, MarkGpu

LEMMA MarkCpuType ==
    ASSUME NEW o \in Location, NEW slot \in CpuSlots \cup {None}
    PROVE  MarkCpu(o, slot) \in Location
  BY DEF Location, MarkCpu

LEMMA MarkStagingType ==
    ASSUME NEW o \in Location, NEW slot \in StagingSlots
    PROVE  MarkStaging(o, slot) \in Location
  BY DEF Location, MarkStaging

LEMMA MarkGpuFields ==
    ASSUME NEW o, NEW page, NEW done
    PROVE  LET n == MarkGpu(o, page, done)
           IN  n.res = "gpu" /\ n.page = page /\ n.cpu = o.cpu /\ n.stg = None
  BY DEF MarkGpu

LEMMA MarkCpuFields ==
    ASSUME NEW o, NEW slot
    PROVE  LET n == MarkCpu(o, slot)
           IN  n.res = "cpu" /\ n.page = o.page /\ n.cpu = slot /\ n.stg = None
  BY DEF MarkCpu

LEMMA MarkStagingFields ==
    ASSUME NEW o, NEW slot
    PROVE  LET n == MarkStaging(o, slot)
           IN  n.res = "staging" /\ n.page = o.page /\ n.cpu = o.cpu /\ n.stg = slot
  BY DEF MarkStaging

LEMMA UnknownFields ==
    Unknown.res = "none" /\ Unknown.page = None /\ Unknown.cpu = None /\ Unknown.stg = None
  BY DEF Unknown

\* mark_complete changes one field.
LEMMA MarkComplete ==
    ASSUME NEW o \in Location, NEW done \in BOOLEAN
    PROVE  LET n == [o EXCEPT !.complete = @ \/ done]
           IN  /\ n \in Location
               /\ n.res = o.res /\ n.page = o.page
               /\ n.cpu = o.cpu /\ n.stg = o.stg
  BY DEF Location

-----------------------------------------------------------------------------
(* The initial state. *)

LEMMA InitIInv == Init => IInv
  <1> SUFFICES ASSUME Init PROVE IInv
    OBVIOUS
  <1> USE DEF Init
  <1>1. TypeOK
    <2>1. loc \in [Refs -> Location]
      BY UnknownType
    <2>2. tracked \in [Requests -> 0 .. MaxBlocks] /\ numCpu \in Int
      OBVIOUS
    <2>3. /\ lru \in [Refs -> StagingSlots \cup {None}]
          /\ staged \in [Refs -> StagingSlots \cup {None}]
      OBVIOUS
    <2>4. lagArmed \in BOOLEAN /\ scored \subseteq Refs
      OBVIOUS
    <2> QED  BY <2>1, <2>2, <2>3, <2>4 DEF TypeOK
  <1>2. CpuSlotsConserved /\ StagingSlotsConserved
    BY DEF CpuSlotsConserved, StagingSlotsConserved, Unknown
  <1>3. LruMatchesResidency /\ BackedByCpu /\ StagedCopyMatches
    BY DEF LruMatchesResidency, BackedByCpu, StagedCopyMatches, Unknown
  <1>4. CpuCountExact
    <2>1. RefsAt("cpu") = {}
      BY DEF RefsAt, Unknown
    <2> QED  BY <2>1, FS_EmptySet DEF CpuCountExact
  <1> QED  BY <1>1, <1>2, <1>3, <1>4 DEF IInv

-----------------------------------------------------------------------------
(* KVOffloadManager *)

\* A successful store keeps the invariant: its slots come from the free list
\* and its blocks, being on the GPU, hold none yet.
LEMMA StoreBatchIInv ==
    ASSUME IInv,
           NEW E, E \subseteq RefsAt("gpu"),
           NEW f \in [E -> cpuFree], Injective(f),
           StoreBatch(E, f),
           scored' \subseteq Refs,
           staged' = [ref \in Refs |-> None],
           UNCHANGED <<tracked, stgFree, lru, kv, stage>>
    PROVE  IInv'
  <1>a. E \subseteq Refs /\ \A r \in E : loc[r].res = "gpu"
    BY DEF RefsAt
  <1>b. loc \in [Refs -> Location]
    BY DEF IInv, TypeOK
  <1>c. \A r \in E : f[r] \in cpuFree /\ f[r] \in CpuSlots /\ f[r] # None
    BY DEF IInv, TypeOK
  <1>d. \A r \in Refs \ E : loc'[r] = loc[r]
    BY DEF StoreBatch
  <1>e. \A r \in E : loc'[r] = MarkCpu(loc[r], f[r])
    BY <1>a DEF StoreBatch
  <1>f. ASSUME NEW r \in E
        PROVE  /\ loc'[r].res = "cpu" /\ loc'[r].cpu = f[r]
               /\ loc'[r].page = loc[r].page /\ loc'[r].stg = None
    BY <1>e, MarkCpuFields
  <1>1. TypeOK'
    <2>1. \A r \in Refs : loc'[r] \in Location
      BY <1>a, <1>b, <1>c, <1>d, <1>e, MarkCpuType
    <2>2. loc' \in [Refs -> Location]
      BY <2>1 DEF StoreBatch
    <2>3. cpuMem' \in [CpuSlots -> Values]
      <3> SUFFICES ASSUME NEW s \in CpuSlots, NEW x \in E, f[x] = s
                   PROVE  kv[loc[CHOOSE ref \in E : f[ref] = s].page] \in Values
        BY DEF StoreBatch, IInv, TypeOK
      <3> DEFINE e == CHOOSE ref \in E : f[ref] = s
      <3>1. e \in E
        OBVIOUS
      <3>2. loc[e].page \in Pages
        BY <3>1, <1>a, <1>b DEF IInv, BackedByCpu, Location
      <3> QED  BY <3>2 DEF IInv, TypeOK
    <2>4. numCpu' \in Int
      BY <1>a, RefsCard DEF StoreBatch, IInv, TypeOK
    <2> QED  BY <2>2, <2>3, <2>4 DEF StoreBatch, IInv, TypeOK
  <1>2. CpuSlotsConserved'
    <2>1. \A r \in Refs : loc'[r].cpu = IF r \in E THEN f[r] ELSE loc[r].cpu
      BY <1>d, <1>f
    <2>2. \A r \in E : loc[r].cpu = None
      BY <1>a DEF IInv, BackedByCpu
    <2>3. cpuFree' = cpuFree \ {f[r] : r \in E}
      BY DEF StoreBatch
    <2>4. \A s \in CpuSlots : s \in cpuFree <=> \A r \in Refs : loc[r].cpu # s
      BY DEF IInv, CpuSlotsConserved
    <2>5. \A s \in CpuSlots : s \in cpuFree' <=> \A r \in Refs : loc'[r].cpu # s
      BY <2>1, <2>2, <2>3, <2>4, <1>a, <1>c
    <2>6. ASSUME NEW r1 \in Refs, NEW r2 \in Refs,
                 loc'[r1].cpu = loc'[r2].cpu, loc'[r1].cpu # None
          PROVE  r1 = r2
      <3>1. loc[r1].cpu \in CpuSlots \cup {None} /\ loc[r2].cpu \in CpuSlots \cup {None}
        BY <1>b DEF Location
      <3> QED  BY <2>6, <3>1, <2>1, <2>4, <1>c DEF Injective, IInv, CpuSlotsConserved
    <2> QED  BY <2>5, <2>6 DEF CpuSlotsConserved
  <1>3. StagingSlotsConserved'
    BY DEF IInv, StagingSlotsConserved
  <1>4. LruMatchesResidency' /\ BackedByCpu'
    <2>1. \A r \in E : loc[r].stg = None /\ loc[r].page # None
      BY <1>a DEF IInv, LruMatchesResidency, BackedByCpu
    <2> QED  BY <2>1, <1>a, <1>c, <1>d, <1>f
             DEF IInv, LruMatchesResidency, BackedByCpu
  <1>5. CpuCountExact'
    <2>1. RefsAt("cpu")' = RefsAt("cpu") \cup E
      BY <1>a, <1>d, <1>f DEF RefsAt
    <2>2. RefsAt("cpu") \cap E = {} /\ RefsAt("cpu") \subseteq Refs
      BY <1>a DEF RefsAt
    <2>3. Cardinality(RefsAt("cpu") \cup E) = Cardinality(RefsAt("cpu")) + Cardinality(E)
      BY <2>2, <1>a, RefsCardUnion
    <2> QED  BY <2>1, <2>3 DEF StoreBatch, IInv, CpuCountExact
  <1>6. StagedCopyMatches'
    <2> SUFFICES ASSUME NEW r \in Refs, loc'[r].res = "staging"
                 PROVE  stage'[loc'[r].stg] = cpuMem'[loc'[r].cpu]
      BY DEF StagedCopyMatches
    <2>1. r \notin E /\ loc'[r] = loc[r]
      BY <1>d, <1>f
    <2>2. loc[r].cpu \in CpuSlots
      BY <2>1, <1>b DEF IInv, BackedByCpu, Location
    <2>3. loc[r].cpu \notin cpuFree
      BY <2>2 DEF IInv, CpuSlotsConserved
    <2>4. cpuMem'[loc[r].cpu] = cpuMem[loc[r].cpu]
      BY <2>2, <2>3, <1>c DEF StoreBatch
    <2> QED  BY <2>1, <2>4 DEF IInv, StagedCopyMatches
  <1> QED  BY <1>1, <1>2, <1>3, <1>4, <1>5, <1>6 DEF IInv

\* A store whose copies raise writes to slots that no block holds.
LEMMA StoreBatchFailsIInv ==
    ASSUME IInv,
           NEW E, NEW f \in [E -> cpuFree],
           StoreBatchFails(E, f),
           scored' \subseteq Refs,
           staged' = [ref \in Refs |-> None],
           UNCHANGED <<tracked, stgFree, lru, kv, stage>>
    PROVE  IInv'
  <1>a. UNCHANGED <<loc, numCpu, lagArmed, cpuFree>>
    BY DEF StoreBatchFails, tableVars
  <1>1. TypeOK'
    BY <1>a DEF StoreBatchFails, IInv, TypeOK
  <1>2. /\ CpuSlotsConserved' /\ StagingSlotsConserved'
        /\ LruMatchesResidency' /\ BackedByCpu'
    BY <1>a DEF IInv, CpuSlotsConserved, StagingSlotsConserved,
                LruMatchesResidency, BackedByCpu
  <1>3. CpuCountExact'
    BY <1>a DEF IInv, CpuCountExact, RefsAt
  <1>4. StagedCopyMatches'
    <2> SUFFICES ASSUME NEW r \in Refs, loc[r].res = "staging"
                 PROVE  stage[loc[r].stg] = cpuMem'[loc[r].cpu]
      BY <1>a DEF StagedCopyMatches
    <2>1. loc[r].cpu \in CpuSlots
      BY LocationFields DEF IInv, TypeOK, BackedByCpu
    <2>2. loc[r].cpu \notin cpuFree
      BY <2>1 DEF IInv, CpuSlotsConserved
    <2>3. cpuMem'[loc[r].cpu] = cpuMem[loc[r].cpu]
      BY <2>1, <2>2 DEF StoreBatchFails
    <2> QED  BY <2>3 DEF IInv, StagedCopyMatches
  <1> QED  BY <1>1, <1>2, <1>3, <1>4 DEF IInv

\* Leaving tables, slots and memory alone.
LEMMA FrameIInv ==
    ASSUME IInv,
           UNCHANGED <<loc, numCpu, cpuFree, stgFree, lru, cpuMem, stage>>,
           lagArmed' \in BOOLEAN,
           scored' \subseteq Refs,
           tracked' \in [Requests -> 0 .. MaxBlocks],
           staged' \in [Refs -> StagingSlots \cup {None}],
           kv' \in [Pages -> Values]
    PROVE  IInv'
  <1>1. TypeOK'
    BY DEF IInv, TypeOK
  <1>2. /\ CpuSlotsConserved' /\ StagingSlotsConserved'
        /\ LruMatchesResidency' /\ BackedByCpu' /\ StagedCopyMatches'
    BY DEF IInv, CpuSlotsConserved, StagingSlotsConserved,
           LruMatchesResidency, BackedByCpu, StagedCopyMatches
  <1>3. CpuCountExact'
    BY DEF IInv, CpuCountExact, RefsAt
  <1> QED  BY <1>1, <1>2, <1>3 DEF IInv

\* The map returned when nothing was staged is well typed.
LEMMA NothingStagedType ==
    [ref \in Refs |-> None] \in [Refs -> StagingSlots \cup {None}]
  OBVIOUS

\* Offload, whatever way its copies go.
LEMMA OffloadIInv ==
    ASSUME IInv,
           NEW cands, cands \subseteq RefsAt("gpu"), NEW count,
           Offload(cands, count),
           scored' \subseteq Refs,
           staged' = [ref \in Refs |-> None],
           UNCHANGED <<tracked, stgFree, lru, kv, stage>>
    PROVE  IInv'
  <1>1. CASE /\ count > Cardinality(cpuFree)
             /\ UNCHANGED <<tableVars, cpuFree, cpuMem>>
    BY <1>1, FrameIInv, NothingStagedType DEF IInv, TypeOK, tableVars
  <1>2. CASE \E E \in EvictionChoices(cands, count) : \E f \in [E -> cpuFree] :
               Injective(f) /\ (StoreBatch(E, f) \/ StoreBatchFails(E, f))
    <2>1. PICK E \in EvictionChoices(cands, count) : \E f \in [E -> cpuFree] :
               Injective(f) /\ (StoreBatch(E, f) \/ StoreBatchFails(E, f))
      BY <1>2
    <2>2. PICK f \in [E -> cpuFree] :
               Injective(f) /\ (StoreBatch(E, f) \/ StoreBatchFails(E, f))
      BY <2>1
    <2>3. E \subseteq RefsAt("gpu")
      BY DEF EvictionChoices
    <2>4. CASE StoreBatch(E, f)
      BY <2>2, <2>3, <2>4, StoreBatchIInv
    <2>5. CASE StoreBatchFails(E, f)
      BY <2>5, StoreBatchFailsIInv
    <2> QED  BY <2>2, <2>4, <2>5
  <1> QED  BY <1>1, <1>2 DEF Offload

\* offload_fraction of any candidates, with any set of scored blocks.
LEMMA OffloadFractionIInv ==
    ASSUME IInv,
           NEW cands, NEW known,
           OffloadFraction(cands, known),
           scored' \subseteq Refs,
           staged' = [ref \in Refs |-> None],
           UNCHANGED <<tracked, stgFree, lru, kv, stage>>
    PROVE  IInv'
  <1>1. PICK eligible : eligible = cands \cap known \cap GpuComplete
    OBVIOUS
  <1>2. eligible \subseteq RefsAt("gpu")
    BY <1>1 DEF GpuComplete
  <1>3. CASE Offload(eligible, NumToOffload(Cardinality(eligible)))
    BY <1>2, <1>3, OffloadIInv
  <1>4. CASE UNCHANGED <<tableVars, cpuFree, cpuMem>>
    BY <1>4, FrameIInv, NothingStagedType DEF IInv, TypeOK, tableVars
  <1> QED  BY <1>1, <1>3, <1>4 DEF OffloadFraction

-----------------------------------------------------------------------------
(* KVStagingPool *)

\* What a reservation says of the slots it hands out: a slot is used by no
\* staged block, or by one the batch evicts.
LEMMA ReservedSlots ==
    ASSUME IInv,
           NEW A, A \subseteq RefsAt("cpu"), NEW f \in [A -> Usable]
    PROVE  /\ \A r \in A : f[r] \in StagingSlots /\ f[r] # None
           /\ \A r \in Refs : lru[r] # None => r \in Evictable
           /\ \A r \in Refs \ Evicted(A, f) :
                 lru[r] # None => \A a \in A : f[a] # lru[r]
           /\ Evicted(A, f) \subseteq RefsAt("staging")
           /\ \A r \in A : lru[r] = None
  <1>1. \A r \in Refs : lru[r] # None <=> loc[r].res = "staging"
    BY DEF IInv, LruMatchesResidency
  <1>2. \A r \in Refs : lru[r] \in StagingSlots \cup {None}
    BY DEF IInv, TypeOK
  <1>3. Usable \subseteq StagingSlots
    BY <1>2 DEF Usable, Evictable, IInv, TypeOK
  <1>4. \A r \in Refs : lru[r] # None => r \in Evictable
    BY <1>1 DEF Evictable
  <1> QED  BY <1>1, <1>3, <1>4 DEF Evicted, Evictable, RefsAt

\* A successful batch: A moves into its slots, the evicted blocks go back to
\* their CPU copies.
LEMMA StageBatchIInv ==
    ASSUME IInv,
           NEW hits, hits \subseteq RefsAt("staging"),
           NEW A, A \subseteq RefsAt("cpu"),
           NEW f \in [A -> Usable], Injective(f),
           StageBatch(hits, A, f),
           lagArmed' \in BOOLEAN,
           UNCHANGED <<tracked, scored, cpuFree, kv, cpuMem>>
    PROVE  IInv'
  <1> DEFINE out == Evicted(A, f)
  <1>a. A \subseteq Refs /\ \A r \in A : loc[r].res = "cpu"
    BY DEF RefsAt
  <1>b. out \subseteq Refs /\ (\A r \in out : loc[r].res = "staging") /\ A \cap out = {}
    <2>1. out \subseteq RefsAt("staging")
      BY ReservedSlots
    <2> HIDE DEF out
    <2> QED  BY <1>a, <2>1 DEF RefsAt
  <1>c. loc \in [Refs -> Location]
    BY DEF IInv, TypeOK
  <1>d. \A r \in A : f[r] \in StagingSlots /\ f[r] # None
    BY ReservedSlots
  <1>e. \A r \in A : loc'[r] = MarkStaging(loc[r], f[r]) /\ lru'[r] = f[r]
    BY <1>a DEF StageBatch
  <1>f. \A r \in out : loc'[r] = MarkCpu(loc[r], loc[r].cpu) /\ lru'[r] = None
    BY <1>b DEF StageBatch
  <1>g. \A r \in Refs \ (A \cup out) : loc'[r] = loc[r] /\ lru'[r] = lru[r]
    BY DEF StageBatch
  <1>h. ASSUME NEW r \in A
        PROVE  /\ loc'[r].res = "staging" /\ loc'[r].stg = f[r]
               /\ loc'[r].cpu = loc[r].cpu /\ loc'[r].page = loc[r].page
    BY <1>e, MarkStagingFields
  <1>i. ASSUME NEW r \in out
        PROVE  /\ loc'[r].res = "cpu" /\ loc'[r].stg = None
               /\ loc'[r].cpu = loc[r].cpu /\ loc'[r].page = loc[r].page
    BY <1>f, MarkCpuFields
  <1>j. \A r \in Refs : loc'[r].cpu = loc[r].cpu /\ loc'[r].page = loc[r].page
    BY <1>g, <1>h, <1>i
  <1>1. TypeOK'
    <2>1. \A r \in Refs : loc'[r] \in Location
      <3> SUFFICES ASSUME NEW r \in Refs PROVE loc'[r] \in Location
        OBVIOUS
      <3>1. CASE r \in A
        BY <3>1, <1>c, <1>d, <1>e, MarkStagingType
      <3>2. CASE r \in out
        BY <3>2, <1>c, <1>f, MarkCpuType, LocationFields
      <3> QED  BY <3>1, <3>2, <1>c, <1>g
    <2>2. loc' \in [Refs -> Location]
      BY <2>1 DEF StageBatch
    <2>3. lru' \in [Refs -> StagingSlots \cup {None}]
      BY <1>d DEF StageBatch, IInv, TypeOK
    <2>4. staged' \in [Refs -> StagingSlots \cup {None}]
      BY <1>c, <1>d, LocationFields DEF StageBatch
    <2>5. stage' \in [StagingSlots -> Values]
      <3> SUFFICES ASSUME NEW s \in StagingSlots, NEW x \in A, f[x] = s
                   PROVE  cpuMem[loc[CHOOSE ref \in A : f[ref] = s].cpu] \in Values
        BY DEF StageBatch, IInv, TypeOK
      <3> DEFINE e == CHOOSE ref \in A : f[ref] = s
      <3>1. e \in A
        OBVIOUS
      <3>2. loc[e].cpu \in CpuSlots
        BY <3>1, <1>a, <1>c, LocationFields DEF IInv, BackedByCpu
      <3> QED  BY <3>2 DEF IInv, TypeOK
    <2>6. numCpu' \in Int
      BY <1>a, <1>b, RefsCard DEF StageBatch, IInv, TypeOK
    <2>7. stgFree' \subseteq StagingSlots
      BY DEF StageBatch, IInv, TypeOK
    <2> QED  BY <2>2, <2>3, <2>4, <2>5, <2>6, <2>7 DEF IInv, TypeOK
  <1>2. CpuSlotsConserved'
    BY <1>j DEF IInv, CpuSlotsConserved
  <1>3. StagingSlotsConserved'
    <2>1. \A r \in Refs \ out : lru[r] # None => \A a \in A : f[a] # lru[r]
      BY ReservedSlots
    <2>2. \A r \in A : lru[r] = None
      BY ReservedSlots
    <2>3. stgFree' = stgFree \ {f[r] : r \in A}
      BY DEF StageBatch
    <2>4. \A r \in out : \E a \in A : f[a] = lru[r]
      BY DEF Evicted
    <2>5. \A s \in StagingSlots : s \in stgFree <=> \A r \in Refs : lru[r] # s
      BY DEF IInv, StagingSlotsConserved
    <2>6. None \notin StagingSlots
      OBVIOUS
    <2>7. ASSUME NEW s \in StagingSlots
          PROVE  s \in stgFree' <=> \A r \in Refs : lru'[r] # s
      <3>1. CASE \E a \in A : f[a] = s
        BY <3>1, <2>3, <1>a, <1>e
      <3>2. CASE ~ \E a \in A : f[a] = s
        <4>1. \A r \in Refs : lru'[r] = s <=> lru[r] = s
          BY <3>2, <2>2, <2>4, <2>6, <1>e, <1>f, <1>g
        <4> QED  BY <3>2, <4>1, <2>3, <2>5
      <3> QED  BY <3>1, <3>2
    <2>8. ASSUME NEW r1 \in Refs, NEW r2 \in Refs,
                 lru'[r1] = lru'[r2], lru'[r1] # None
          PROVE  r1 = r2
      <3>1. r1 \notin out /\ r2 \notin out
        BY <2>8, <1>f
      <3>2. CASE r1 \in A /\ r2 \in A
        BY <2>8, <3>2, <1>e DEF Injective
      <3>3. CASE r1 \notin A /\ r2 \notin A
        BY <2>8, <3>1, <3>3, <1>g DEF IInv, StagingSlotsConserved
      <3>4. CASE r1 \in A /\ r2 \notin A
        BY <2>8, <3>1, <3>4, <2>1, <1>e, <1>g
      <3>5. CASE r1 \notin A /\ r2 \in A
        BY <2>8, <3>1, <3>5, <2>1, <1>e, <1>g
      <3> QED  BY <3>2, <3>3, <3>4, <3>5
    <2> QED  BY <2>7, <2>8 DEF StagingSlotsConserved
  <1>4. LruMatchesResidency'
    BY <1>d, <1>e, <1>f, <1>g, <1>h, <1>i DEF IInv, LruMatchesResidency
  <1>5. BackedByCpu'
    BY <1>a, <1>b, <1>g, <1>h, <1>i DEF IInv, BackedByCpu
  <1>6. CpuCountExact'
    <2>1. RefsAt("cpu")' = (RefsAt("cpu") \ A) \cup out
      BY <1>a, <1>b, <1>g, <1>h, <1>i DEF RefsAt
    <2>2. (RefsAt("cpu") \ A) \cap out = {} /\ RefsAt("cpu") \subseteq Refs
      BY <1>b DEF RefsAt
    <2>3. Cardinality((RefsAt("cpu") \ A) \cup out)
            = Cardinality(RefsAt("cpu") \ A) + Cardinality(out)
      BY <2>2, <1>b, RefsCardUnion
    <2>4. Cardinality(RefsAt("cpu") \ A) = Cardinality(RefsAt("cpu")) - Cardinality(A)
      BY <2>2, RefsCardMinus
    <2>5. /\ Cardinality(out) \in Nat /\ Cardinality(A) \in Nat
          /\ Cardinality(RefsAt("cpu")) \in Nat
      BY <1>a, <1>b, <2>2, RefsCard
    <2>6. numCpu' = numCpu + Cardinality(out) - Cardinality(A)
      BY DEF StageBatch
    <2>7. numCpu = Cardinality(RefsAt("cpu"))
      BY DEF IInv, CpuCountExact
    <2>8. Cardinality(RefsAt("cpu")') = Cardinality((RefsAt("cpu") \ A) \cup out)
      BY <2>1, Zenon
    <2>9. numCpu' = Cardinality(RefsAt("cpu")')
      BY <2>3, <2>4, <2>5, <2>6, <2>7, <2>8
    <2> QED  BY <2>9 DEF CpuCountExact
  <1>7. StagedCopyMatches'
    <2> SUFFICES ASSUME NEW r \in Refs, loc'[r].res = "staging"
                 PROVE  stage'[loc'[r].stg] = cpuMem[loc'[r].cpu]
      BY DEF StagedCopyMatches
    <2>1. r \notin out
      BY <1>i
    <2>2. CASE r \in A
      <3>1. (CHOOSE ref \in A : f[ref] = f[r]) = r
        BY <2>2 DEF Injective
      <3>2. stage'[f[r]] = cpuMem[loc[r].cpu]
        BY <2>2, <3>1, <1>d DEF StageBatch
      <3> QED  BY <2>2, <3>2, <1>h
    <2>3. CASE r \notin A
      <3>1. loc'[r] = loc[r] /\ lru[r] = loc[r].stg /\ lru[r] # None
        BY <2>1, <2>3, <1>g DEF IInv, LruMatchesResidency
      <3>2. lru[r] \in StagingSlots /\ ~ \E a \in A : f[a] = lru[r]
        BY <2>1, <3>1, ReservedSlots DEF IInv, TypeOK
      <3>3. stage'[lru[r]] = stage[lru[r]]
        BY <3>2 DEF StageBatch
      <3> QED  BY <3>1, <3>3 DEF IInv, StagedCopyMatches
    <2> QED  BY <2>2, <2>3
  <1> QED  BY <1>1, <1>2, <1>3, <1>4, <1>5, <1>6, <1>7 DEF IInv

\* A batch whose copies raise: only the evictions stand, and no block is left
\* in a slot the batch has written to.
LEMMA StageBatchFailsIInv ==
    ASSUME IInv,
           NEW A, A \subseteq RefsAt("cpu"),
           NEW f \in [A -> Usable],
           StageBatchFails(A, f),
           lagArmed' \in BOOLEAN,
           UNCHANGED <<tracked, scored, cpuFree, kv, cpuMem>>
    PROVE  IInv'
  <1> DEFINE out == Evicted(A, f)
  <1>b. out \subseteq Refs /\ (\A r \in out : loc[r].res = "staging")
    BY ReservedSlots DEF RefsAt
  <1>c. loc \in [Refs -> Location]
    BY DEF IInv, TypeOK
  <1>d. \A r \in A : f[r] \in StagingSlots /\ f[r] # None
    BY ReservedSlots
  <1>f. \A r \in out : loc'[r] = MarkCpu(loc[r], loc[r].cpu) /\ lru'[r] = None
    BY <1>b DEF StageBatchFails
  <1>g. \A r \in Refs \ out : loc'[r] = loc[r] /\ lru'[r] = lru[r]
    BY DEF StageBatchFails
  <1>i. ASSUME NEW r \in out
        PROVE  /\ loc'[r].res = "cpu" /\ loc'[r].stg = None
               /\ loc'[r].cpu = loc[r].cpu /\ loc'[r].page = loc[r].page
    BY <1>f, MarkCpuFields
  <1>j. \A r \in Refs : loc'[r].cpu = loc[r].cpu
    BY <1>g, <1>i
  <1>k. \A r \in Refs \ out : lru[r] # None => \A a \in A : f[a] # lru[r]
    BY ReservedSlots
  <1>1. TypeOK'
    <2>1. \A r \in Refs : loc'[r] \in Location
      <3> SUFFICES ASSUME NEW r \in Refs PROVE loc'[r] \in Location
        OBVIOUS
      <3>1. CASE r \in out
        BY <3>1, <1>c, <1>f, MarkCpuType, LocationFields
      <3> QED  BY <3>1, <1>c, <1>g
    <2>2. loc' \in [Refs -> Location]
      BY <2>1 DEF StageBatchFails
    <2>3. /\ lru' \in [Refs -> StagingSlots \cup {None}]
          /\ staged' \in [Refs -> StagingSlots \cup {None}]
      BY DEF StageBatchFails, IInv, TypeOK
    <2>4. stage' \in [StagingSlots -> Values]
      BY DEF StageBatchFails, TornStage, IInv, TypeOK
    <2>5. numCpu' \in Int
      BY <1>b, RefsCard DEF StageBatchFails, IInv, TypeOK
    <2>6. stgFree' \subseteq StagingSlots
      BY <1>d DEF StageBatchFails, IInv, TypeOK
    <2> QED  BY <2>2, <2>3, <2>4, <2>5, <2>6 DEF IInv, TypeOK
  <1>2. CpuSlotsConserved'
    BY <1>j DEF IInv, CpuSlotsConserved
  <1>3. StagingSlotsConserved'
    <2>1. stgFree' = stgFree \cup {f[r] : r \in A}
      BY DEF StageBatchFails
    <2>2. \A r \in out : \E a \in A : f[a] = lru[r]
      BY DEF Evicted
    <2>3. \A s \in StagingSlots : s \in stgFree <=> \A r \in Refs : lru[r] # s
      BY DEF IInv, StagingSlotsConserved
    <2>4. ASSUME NEW s \in StagingSlots
          PROVE  s \in stgFree' <=> \A r \in Refs : lru'[r] # s
      <3>0. s # None
        OBVIOUS
      <3>1. CASE \E a \in A : f[a] = s
        <4>1. \A r \in Refs : lru'[r] # s
          BY <3>0, <3>1, <1>f, <1>g, <1>k
        <4> QED  BY <3>1, <4>1, <2>1
      <3>2. CASE ~ \E a \in A : f[a] = s
        <4>1. \A r \in Refs : lru'[r] = s <=> lru[r] = s
          BY <3>0, <3>2, <2>2, <1>f, <1>g
        <4> QED  BY <3>2, <4>1, <2>1, <2>3
      <3> QED  BY <3>1, <3>2
    <2>5. ASSUME NEW r1 \in Refs, NEW r2 \in Refs,
                 lru'[r1] = lru'[r2], lru'[r1] # None
          PROVE  r1 = r2
      BY <2>5, <1>f, <1>g DEF IInv, StagingSlotsConserved
    <2> QED  BY <2>4, <2>5 DEF StagingSlotsConserved
  <1>4. LruMatchesResidency' /\ BackedByCpu'
    BY <1>b, <1>f, <1>g, <1>i DEF IInv, LruMatchesResidency, BackedByCpu
  <1>5. CpuCountExact'
    <2>1. RefsAt("cpu")' = RefsAt("cpu") \cup out
      BY <1>b, <1>g, <1>i DEF RefsAt
    <2>2. RefsAt("cpu") \cap out = {} /\ RefsAt("cpu") \subseteq Refs
      BY <1>b DEF RefsAt
    <2>3. Cardinality(RefsAt("cpu") \cup out) = Cardinality(RefsAt("cpu")) + Cardinality(out)
      BY <2>2, <1>b, RefsCardUnion
    <2>4. Cardinality(RefsAt("cpu")') = Cardinality(RefsAt("cpu") \cup out)
      BY <2>1, Zenon
    <2>5. numCpu' = numCpu + Cardinality(out) /\ numCpu = Cardinality(RefsAt("cpu"))
      BY DEF StageBatchFails, IInv, CpuCountExact
    <2>6. numCpu' = Cardinality(RefsAt("cpu")')
      BY <2>3, <2>4, <2>5
    <2> QED  BY <2>6 DEF CpuCountExact
  <1>6. StagedCopyMatches'
    <2> SUFFICES ASSUME NEW r \in Refs, loc'[r].res = "staging"
                 PROVE  stage'[loc'[r].stg] = cpuMem[loc'[r].cpu]
      BY DEF StagedCopyMatches
    <2>1. r \notin out
      BY <1>i
    <2>2. loc'[r] = loc[r] /\ lru[r] = loc[r].stg /\ lru[r] # None
      BY <2>1, <1>g DEF IInv, LruMatchesResidency
    <2>3. lru[r] \in StagingSlots /\ ~ \E a \in A : f[a] = lru[r]
      BY <2>1, <2>2, <1>k DEF IInv, TypeOK
    <2>4. stage'[lru[r]] = stage[lru[r]]
      BY <2>3 DEF StageBatchFails, TornStage
    <2> QED  BY <2>2, <2>4 DEF IInv, StagedCopyMatches
  <1> QED  BY <1>1, <1>2, <1>3, <1>4, <1>5, <1>6 DEF IInv

\* ensure_resident, returning or raising.
LEMMA EnsureResidentIInv ==
    ASSUME IInv,
           NEW refs, NEW armed \in BOOLEAN,
           EnsureResident(refs, armed) \/ EnsureResidentRaises(refs, armed)
    PROVE  IInv'
  <1>1. PICK fetch, hits : fetch = refs \cap RefsAt("cpu") /\ hits = refs \cap RefsAt("staging")
    OBVIOUS
  <1>2. CASE EnsureResident(refs, armed)
    <2>1. PICK A \in SUBSET fetch : \E f \in [A -> Usable] :
             /\ Reservation(fetch, A, f)
             /\ StageBatch(hits, A, f)
             /\ lagArmed' = (armed \/ A # {})
      BY <1>1, <1>2 DEF EnsureResident
    <2>2. PICK f \in [A -> Usable] :
             /\ Reservation(fetch, A, f)
             /\ StageBatch(hits, A, f)
             /\ lagArmed' = (armed \/ A # {})
      BY <2>1
    <2>3. UNCHANGED <<tracked, scored, cpuFree, kv, cpuMem>>
      BY <1>2 DEF EnsureResident
    <2>4. A \subseteq RefsAt("cpu") /\ hits \subseteq RefsAt("staging") /\ Injective(f)
      BY <1>1, <2>1, <2>2 DEF Reservation
    <2>5. lagArmed' \in BOOLEAN
      BY <2>2
    <2> QED  BY <2>2, <2>3, <2>4, <2>5, StageBatchIInv
  <1>3. CASE EnsureResidentRaises(refs, armed)
    <2>1. PICK A \in SUBSET fetch : \E f \in [A -> Usable] :
             /\ StageBatchFails(A, f)
             /\ lagArmed' = (armed \/ Evicted(A, f) # {})
      BY <1>1, <1>3 DEF EnsureResidentRaises
    <2>2. PICK f \in [A -> Usable] :
             /\ StageBatchFails(A, f)
             /\ lagArmed' = (armed \/ Evicted(A, f) # {})
      BY <2>1
    <2>3. UNCHANGED <<tracked, scored, cpuFree, kv, cpuMem>>
      BY <1>3 DEF EnsureResidentRaises
    <2>4. A \subseteq RefsAt("cpu")
      BY <1>1, <2>1
    <2>5. lagArmed' \in BOOLEAN
      BY <2>2
    <2> QED  BY <2>2, <2>3, <2>4, <2>5, StageBatchFailsIInv
  <1> QED  BY <1>2, <1>3

-----------------------------------------------------------------------------
(* OffloadOrchestrator *)

\* Relabelling entries without moving a block: a block stays where it is, or an
\* unknown or GPU block is (again) a GPU block; its slots stay the same.
LEMMA RelabelIInv ==
    ASSUME IInv,
           loc' \in [Refs -> Location],
           \A r \in Refs :
              /\ \/ loc'[r].res = loc[r].res
                 \/ loc[r].res \in {"none", "gpu"} /\ loc'[r].res = "gpu"
              /\ loc'[r].cpu = loc[r].cpu
              /\ loc'[r].stg = loc[r].stg
              /\ loc'[r].page # None <=> loc'[r].res # "none",
           scored' \subseteq Refs,
           tracked' \in [Requests -> 0 .. MaxBlocks],
           staged' = [ref \in Refs |-> None],
           UNCHANGED <<numCpu, lagArmed, cpuFree, stgFree, lru, memVars>>
    PROVE  IInv'
  <1>1. TypeOK'
    BY NothingStagedType DEF IInv, TypeOK, memVars
  <1>2. CpuSlotsConserved' /\ StagingSlotsConserved'
    BY DEF IInv, CpuSlotsConserved, StagingSlotsConserved
  <1>3. LruMatchesResidency' /\ BackedByCpu'
    BY DEF IInv, LruMatchesResidency, BackedByCpu
  <1>4. CpuCountExact'
    <2>1. RefsAt("cpu")' = RefsAt("cpu")
      BY DEF RefsAt
    <2> QED  BY <2>1, Zenon DEF IInv, CpuCountExact
  <1>5. StagedCopyMatches'
    BY DEF IInv, StagedCopyMatches, memVars
  <1> QED  BY <1>1, <1>2, <1>3, <1>4, <1>5 DEF IInv

\* A re-synced entry keeps its slots, and an offloaded block its residency.
LEMMA SyncedLocationFields ==
    ASSUME NEW o \in Location, NEW page \in Pages, NEW done \in BOOLEAN,
           o.stg # None => o.res = "staging",
           o.page # None <=> o.res # "none"
    PROVE  LET n == SyncedLocation(o, page, done)
           IN  /\ n \in Location
               /\ n.res = o.res \/ (o.res \in {"none", "gpu"} /\ n.res = "gpu")
               /\ n.cpu = o.cpu /\ n.stg = o.stg
               /\ n.page # None <=> n.res # "none"
  <1>1. CASE o.res \in {"cpu", "staging"}
    <2>1. SyncedLocation(o, page, done) = [o EXCEPT !.complete = @ \/ done]
      BY <1>1 DEF SyncedLocation
    <2> QED  BY <2>1, MarkComplete
  <1>2. CASE o.res \notin {"cpu", "staging"} /\ (o.res = "none" \/ o.page # page)
    <2>1. SyncedLocation(o, page, done) = MarkGpu(o, page, done)
      BY <1>2 DEF SyncedLocation
    <2>2. o.stg = None /\ o.res \in {"none", "gpu"} /\ page # None
      BY <1>2, LocationFields
    <2> QED  BY <2>1, <2>2, MarkGpuFields, MarkGpuType
  <1>3. CASE o.res \notin {"cpu", "staging"} /\ o.res # "none" /\ o.page = page
    <2>1. SyncedLocation(o, page, done) = [o EXCEPT !.complete = @ \/ done]
      BY <1>3 DEF SyncedLocation
    <2> QED  BY <2>1, MarkComplete
  <1> QED  BY <1>1, <1>2, <1>3

\* sync_request_blocks with any block table.
LEMMA SyncIInv ==
    ASSUME IInv,
           NEW q \in Requests, NEW n \in 0 .. MaxBlocks, NEW computed \in 0 .. MaxTokens,
           NEW ids \in [0 .. n - 1 -> Pages],
           SyncRequestBlocks(q, n, ids, computed)
    PROVE  IInv'
  <1> DEFINE listed == {q} \X (0 .. n - 1)
  <1>1. ASSUME NEW r \in Refs, r \in listed
        PROVE  /\ loc'[r] = SyncedLocation(loc[r], ids[r[2]], Filled(r[2], computed))
               /\ ids[r[2]] \in Pages
               /\ Filled(r[2], computed) \in BOOLEAN
    BY <1>1 DEF SyncRequestBlocks, Filled
  <1>2. \A r \in Refs \ listed : loc'[r] = loc[r]
    BY DEF SyncRequestBlocks
  <1>3. ASSUME NEW r \in Refs
        PROVE  /\ loc[r] \in Location
               /\ loc[r].stg # None => loc[r].res = "staging"
               /\ loc[r].page # None <=> loc[r].res # "none"
    BY DEF IInv, TypeOK, LruMatchesResidency, BackedByCpu
  <1>4. ASSUME NEW r \in Refs
        PROVE  /\ loc'[r] \in Location
               /\ \/ loc'[r].res = loc[r].res
                  \/ loc[r].res \in {"none", "gpu"} /\ loc'[r].res = "gpu"
               /\ loc'[r].cpu = loc[r].cpu
               /\ loc'[r].stg = loc[r].stg
               /\ loc'[r].page # None <=> loc'[r].res # "none"
    <2>1. CASE r \in listed
      BY <2>1, <1>1, <1>3, SyncedLocationFields
    <2>2. CASE r \notin listed
      BY <2>2, <1>2, <1>3
    <2> QED  BY <2>1, <2>2
  <1>5. loc' \in [Refs -> Location]
    BY <1>4 DEF SyncRequestBlocks
  <1>6. scored' \subseteq Refs
    <2>1. listed \subseteq Refs
      BY DEF Refs
    <2> QED  BY <2>1 DEF SyncRequestBlocks, IInv, TypeOK
  <1>7. tracked' \in [Requests -> 0 .. MaxBlocks]
    BY DEF SyncRequestBlocks, IInv, TypeOK
  <1> QED  BY <1>4, <1>5, <1>6, <1>7, RelabelIInv DEF SyncRequestBlocks

LEMMA PrefillIInv ==
    ASSUME IInv,
           NEW q \in Requests, NEW computed,
           OnPrefillComplete(q, computed)
    PROVE  IInv'
  <1> DEFINE now == {ref \in {q} \X (0 .. tracked[q] - 1) :
                       /\ loc[ref].res # "none"
                       /\ Filled(ref[2], computed)
                       /\ ~loc[ref].complete}
  <1>1. ASSUME NEW r \in Refs
        PROVE  /\ loc'[r] \in Location
               /\ loc'[r].res = loc[r].res /\ loc'[r].page = loc[r].page
               /\ loc'[r].cpu = loc[r].cpu /\ loc'[r].stg = loc[r].stg
    <2>1. loc'[r] = [loc[r] EXCEPT !.complete = @ \/ r \in now]
      BY DEF OnPrefillComplete
    <2>2. loc[r] \in Location
      BY DEF IInv, TypeOK
    <2>3. (r \in now) \in BOOLEAN
      OBVIOUS
    <2> HIDE DEF now
    <2> QED  BY <2>1, <2>2, <2>3, MarkComplete
  <1>2. loc' \in [Refs -> Location]
    BY <1>1 DEF OnPrefillComplete
  <1>3. scored' \subseteq Refs
    <2>1. tracked[q] \in 0 .. MaxBlocks
      BY DEF IInv, TypeOK
    <2>2. {q} \X (0 .. tracked[q] - 1) \subseteq Refs
      BY <2>1 DEF Refs
    <2> QED  BY <2>2 DEF OnPrefillComplete, IInv, TypeOK
  <1>4. tracked' \in [Requests -> 0 .. MaxBlocks]
    BY DEF OnPrefillComplete, IInv, TypeOK
  <1>5. \A r \in Refs : loc[r].page # None <=> loc[r].res # "none"
    BY DEF IInv, BackedByCpu
  <1> QED  BY <1>1, <1>2, <1>3, <1>4, <1>5, RelabelIInv DEF OnPrefillComplete

\* _cleanup_request: the slots of the dropped blocks, and only those, are free
\* again.
LEMMA CleanupIInv ==
    ASSUME IInv, NEW q \in Requests, CleanupRequest(q)
    PROVE  IInv'
  <1>1. PICK gone : gone = {q} \X (0 .. tracked[q] - 1)
    OBVIOUS
  <1>2. gone \subseteq Refs
    <2>1. tracked[q] \in 0 .. MaxBlocks
      BY DEF IInv, TypeOK
    <2> QED  BY <1>1, <2>1 DEF Refs
  <1>3. /\ Dropped(q, gone)
        /\ cpuFree' = cpuFree \cup ({loc[r].cpu : r \in gone} \ {None})
    BY <1>1 DEF CleanupRequest
  <1>a. \A r \in gone : loc'[r] = Unknown /\ lru'[r] = None
    BY <1>2, <1>3 DEF Dropped
  <1>b. \A r \in Refs \ gone : loc'[r] = loc[r] /\ lru'[r] = lru[r]
    BY <1>3 DEF Dropped
  <1>c. \A r \in Refs : loc[r].cpu \in CpuSlots \cup {None}
    BY LocationFields DEF IInv, TypeOK
  <1>d. \A r \in Refs : lru[r] \in StagingSlots \cup {None}
    BY DEF IInv, TypeOK
  <1>e. \A r \in gone : loc'[r].cpu = None /\ loc'[r].res = "none"
                        /\ loc'[r].stg = None /\ loc'[r].page = None
    BY <1>a, UnknownFields
  <1>4. TypeOK'
    <2>1. loc' \in [Refs -> Location]
      <3>1. \A r \in Refs : loc'[r] \in Location
        BY <1>a, <1>b, UnknownType DEF IInv, TypeOK
      <3> QED  BY <1>3, <3>1 DEF Dropped
    <2>2. lru' \in [Refs -> StagingSlots \cup {None}]
      BY <1>3 DEF Dropped, IInv, TypeOK
    <2>3. cpuFree' \subseteq CpuSlots
      BY <1>2, <1>3, <1>c DEF IInv, TypeOK
    <2>4. stgFree' \subseteq StagingSlots
      BY <1>2, <1>3, <1>d DEF Dropped, IInv, TypeOK
    <2>5. numCpu' \in Int
      <3>1. gone \cap RefsAt("cpu") \subseteq Refs
        BY <1>2
      <3>2. Cardinality(gone \cap RefsAt("cpu")) \in Nat
        BY <3>1, RefsCard
      <3> QED  BY <1>3, <3>2 DEF Dropped, IInv, TypeOK
    <2>6. tracked' \in [Requests -> 0 .. MaxBlocks] /\ scored' \subseteq Refs
      BY <1>3 DEF Dropped, IInv, TypeOK
    <2>7. lagArmed' \in BOOLEAN
      BY <1>3 DEF Dropped, IInv, TypeOK
    <2>8. staged' \in [Refs -> StagingSlots \cup {None}]
      BY <1>3, NothingStagedType DEF Dropped
    <2> QED  BY <1>3, <2>1, <2>2, <2>3, <2>4, <2>5, <2>6, <2>7, <2>8
             DEF Dropped, IInv, TypeOK, memVars
  <1>5. CpuSlotsConserved'
    <2>1. ASSUME NEW s \in CpuSlots
          PROVE  s \in cpuFree' <=> \A r \in Refs : loc'[r].cpu # s
      <3>0. s # None
        OBVIOUS
      <3>1. s \in cpuFree <=> \A r \in Refs : loc[r].cpu # s
        BY DEF IInv, CpuSlotsConserved
      <3>2. \A r1, r2 \in Refs :
              loc[r1].cpu = loc[r2].cpu /\ loc[r1].cpu # None => r1 = r2
        BY DEF IInv, CpuSlotsConserved
      <3>3. CASE \E g \in gone : loc[g].cpu = s
        BY <3>0, <3>2, <3>3, <1>2, <1>3, <1>b, <1>e
      <3>4. CASE ~ \E g \in gone : loc[g].cpu = s
        BY <3>0, <3>1, <3>4, <1>2, <1>3, <1>b, <1>e
      <3> QED  BY <3>3, <3>4
    <2>2. ASSUME NEW r1 \in Refs, NEW r2 \in Refs,
                 loc'[r1].cpu = loc'[r2].cpu, loc'[r1].cpu # None
          PROVE  r1 = r2
      BY <2>2, <1>b, <1>e DEF IInv, CpuSlotsConserved
    <2> QED  BY <2>1, <2>2 DEF CpuSlotsConserved
  <1>6. StagingSlotsConserved'
    <2>0. stgFree' = stgFree \cup ({lru[r] : r \in gone} \ {None})
      BY <1>3 DEF Dropped
    <2>1. ASSUME NEW s \in StagingSlots
          PROVE  s \in stgFree' <=> \A r \in Refs : lru'[r] # s
      <3>0. s # None
        OBVIOUS
      <3>1. s \in stgFree <=> \A r \in Refs : lru[r] # s
        BY DEF IInv, StagingSlotsConserved
      <3>2. \A r1, r2 \in Refs : lru[r1] = lru[r2] /\ lru[r1] # None => r1 = r2
        BY DEF IInv, StagingSlotsConserved
      <3>3. CASE \E g \in gone : lru[g] = s
        BY <2>0, <3>0, <3>2, <3>3, <1>2, <1>a, <1>b
      <3>4. CASE ~ \E g \in gone : lru[g] = s
        BY <2>0, <3>0, <3>1, <3>4, <1>2, <1>a, <1>b
      <3> QED  BY <3>3, <3>4
    <2>2. ASSUME NEW r1 \in Refs, NEW r2 \in Refs, lru'[r1] = lru'[r2], lru'[r1] # None
          PROVE  r1 = r2
      BY <2>2, <1>a, <1>b DEF IInv, StagingSlotsConserved
    <2> QED  BY <2>1, <2>2 DEF StagingSlotsConserved
  <1>7. LruMatchesResidency' /\ BackedByCpu'
    BY <1>a, <1>b, <1>e DEF IInv, LruMatchesResidency, BackedByCpu
  <1>8. CpuCountExact'
    <2>1. RefsAt("cpu")' = RefsAt("cpu") \ (gone \cap RefsAt("cpu"))
      BY <1>2, <1>b, <1>e DEF RefsAt
    <2>2. RefsAt("cpu") \subseteq Refs
      BY DEF RefsAt
    <2>3. Cardinality(RefsAt("cpu") \ (gone \cap RefsAt("cpu")))
            = Cardinality(RefsAt("cpu")) - Cardinality(gone \cap RefsAt("cpu"))
      BY <2>2, RefsCardMinus
    <2>4. Cardinality(RefsAt("cpu")') = Cardinality(RefsAt("cpu") \ (gone \cap RefsAt("cpu")))
      BY <2>1, Zenon
    <2>5. /\ numCpu' = numCpu - Cardinality(gone \cap RefsAt("cpu"))
          /\ numCpu = Cardinality(RefsAt("cpu"))
      BY <1>3 DEF Dropped, IInv, CpuCountExact
    <2>6. numCpu' = Cardinality(RefsAt("cpu")')
      BY <2>3, <2>4, <2>5
    <2> QED  BY <2>6 DEF CpuCountExact
  <1>9. StagedCopyMatches'
    BY <1>3, <1>b, <1>e DEF Dropped, memVars, IInv, StagedCopyMatches
  <1> QED  BY <1>4, <1>5, <1>6, <1>7, <1>8, <1>9 DEF IInv

-----------------------------------------------------------------------------
(* The theorems *)

\* Every operation keeps the inductive invariant.
LEMMA NextIInv == IInv /\ [Next]_vars => IInv'
  <1> SUFFICES ASSUME IInv, [Next]_vars PROVE IInv'
    OBVIOUS
  <1>1. CASE GpuWrite
    BY <1>1, FrameIInv, NothingStagedType DEF GpuWrite, IInv, TypeOK, tableVars
  <1>2. ASSUME NEW q \in Requests, Sync(q) PROVE IInv'
    BY <1>2, SyncIInv DEF Sync
  <1>3. ASSUME NEW q \in Requests, NEW computed \in 0 .. MaxTokens,
               OnPrefillComplete(q, computed)
        PROVE  IInv'
    BY <1>3, PrefillIInv
  <1>4. CASE OnDecodeStep
    <2>1. PICK cands, known : cands = GpuComplete /\ known = scored
      OBVIOUS
    <2>2. OffloadFraction(cands, known)
      BY <1>4, <2>1 DEF OnDecodeStep
    <2>3. scored' \subseteq Refs
      BY <1>4 DEF OnDecodeStep, IInv, TypeOK
    <2> QED  BY <1>4, <2>2, <2>3, OffloadFractionIInv DEF OnDecodeStep
  <1>5. ASSUME NEW allowed \in SUBSET GpuComplete, TriggerOffload(allowed) PROVE IInv'
    <2>1. PICK known : known = scored'
      OBVIOUS
    <2>2. OffloadFraction(allowed, known)
      BY <1>5, <2>1 DEF TriggerOffload
    <2>3. scored' \subseteq Refs
      BY <1>5 DEF TriggerOffload, GpuComplete, RefsAt, IInv, TypeOK
    <2> QED  BY <1>5, <2>2, <2>3, OffloadFractionIInv DEF TriggerOffload
  <1>6. ASSUME NEW cands \in SUBSET Refs, MaybeOffload(cands) PROVE IInv'
    <2>1. PICK eligible : eligible = cands \cap GpuComplete
      OBVIOUS
    <2>2. Offload(eligible, Cardinality(eligible) - GpuBudget)
      BY <1>6, <2>1 DEF MaybeOffload
    <2>3. eligible \subseteq RefsAt("gpu") /\ scored' \subseteq Refs
      BY <1>6, <2>1 DEF MaybeOffload, GpuComplete, IInv, TypeOK
    <2> QED  BY <1>6, <2>2, <2>3, OffloadIInv DEF MaybeOffload
  <1>7. ASSUME NEW refs \in SUBSET Refs, FetchSelected(refs) PROVE IInv'
    <2>1. PICK armed : armed = lagArmed
      OBVIOUS
    <2>2. armed \in BOOLEAN
      BY <2>1 DEF IInv, TypeOK
    <2>3. EnsureResident(refs, armed) \/ EnsureResidentRaises(refs, armed)
      BY <1>7, <2>1 DEF FetchSelected
    <2> QED  BY <2>2, <2>3, EnsureResidentIInv
  <1>8. ASSUME NEW needed \in SUBSET Refs,
               PrepareStaging(needed) \/ PrepareStagingRaises(needed)
        PROVE  IInv'
    <2>1. PICK refs : refs = needed \cap RefsAt("cpu")
      OBVIOUS
    <2>2. EnsureResident(refs, FALSE) \/ EnsureResidentRaises(refs, FALSE)
      BY <1>8, <2>1 DEF PrepareStaging, PrepareStagingRaises
    <2> QED  BY <2>2, EnsureResidentIInv
  <1>9. ASSUME NEW q \in Requests, PromoteHotCpuBlocks(q) \/ PromoteRaises(q)
        PROVE  IInv'
    <2>1. PICK armed : armed = lagArmed
      OBVIOUS
    <2>2. armed \in BOOLEAN
      BY <2>1 DEF IInv, TypeOK
    <2>3. PICK picked : EnsureResident(picked, lagArmed) \/ EnsureResidentRaises(picked, lagArmed)
      BY <1>9 DEF PromoteHotCpuBlocks, PromoteRaises
    <2>4. EnsureResident(picked, armed) \/ EnsureResidentRaises(picked, armed)
      BY <2>1, <2>3
    <2> QED  BY <2>2, <2>4, EnsureResidentIInv
  <1>10. ASSUME NEW q \in Requests, CleanupRequest(q) PROVE IInv'
    BY <1>10, CleanupIInv
  <1>11. CASE UNCHANGED vars
    BY <1>11, FrameIInv DEF vars, IInv, TypeOK
  <1> QED
    BY <1>1, <1>2, <1>3, <1>4, <1>5, <1>6, <1>7, <1>8, <1>9, <1>10, <1>11 DEF Next

\* The inductive invariant holds in every behaviour of the tables.
THEOREM TablesInvariant == Spec => []IInv
  BY InitIInv, NextIInv, PTL DEF Spec

\* Every variable keeps its type (ResidencyTable, both pools, the orchestrator).
THEOREM TypeCorrect == Spec => []TypeOK
  <1>1. IInv => TypeOK
    BY DEF IInv
  <1> QED  BY <1>1, TablesInvariant, PTL

\* No CPU slot is leaked or handed out twice, through failing copies, re-syncs
\* and cleanups (CPUBlockPool against the residency table).
THEOREM SlotsConserved == Spec => []CpuSlotsConserved
  <1>1. IInv => CpuSlotsConserved
    BY DEF IInv
  <1> QED  BY <1>1, TablesInvariant, PTL

\* No staging slot is leaked or given to two blocks, through evictions, batches
\* that fail half way and requests that end while staged (KVStagingPool._free
\* against its _lru).
THEOREM StagingSlotsNeverLeak == Spec => []StagingSlotsConserved
  <1>1. IInv => StagingSlotsConserved
    BY DEF IInv
  <1> QED  BY <1>1, TablesInvariant, PTL

\* The occupancy LRU and the residency table never disagree.
THEOREM LruNeverDesyncs == Spec => []LruMatchesResidency
  <1>1. IInv => LruMatchesResidency
    BY DEF IInv
  <1> QED  BY <1>1, TablesInvariant, PTL

\* A block off the GPU has a CPU copy, a block on it holds no CPU slot.
THEOREM OffloadedIsBacked == Spec => []BackedByCpu
  <1>1. IInv => BackedByCpu
    BY DEF IInv
  <1> QED  BY <1>1, TablesInvariant, PTL

\* num_cpu_blocks, which lets a step skip the fetch, is exact.
THEOREM CpuCounterExact == Spec => []CpuCountExact
  <1>1. IInv => CpuCountExact
    BY DEF IInv
  <1> QED  BY <1>1, TablesInvariant, PTL

\* A staged page holds its block's CPU copy.
THEOREM StagedCopyFaithful == Spec => []StagedCopyMatches
  <1>1. IInv => StagedCopyMatches
    BY DEF IInv
  <1> QED  BY <1>1, TablesInvariant, PTL

-----------------------------------------------------------------------------
(* The map ensure_resident returns *)

LEMMA NothingStagedSound ==
    ASSUME staged' = [ref \in Refs |-> None] PROVE StagedMapSound'
  BY DEF StagedMapSound

\* A batch without hits reports exactly the blocks it staged.
LEMMA FetchSound ==
    ASSUME NEW refs, refs \subseteq RefsAt("cpu"), NEW armed,
           EnsureResident(refs, armed) \/ EnsureResidentRaises(refs, armed)
    PROVE  StagedMapSound'
  <1>1. CASE EnsureResidentRaises(refs, armed)
    BY <1>1, NothingStagedSound DEF EnsureResidentRaises, StageBatchFails
  <1>2. CASE EnsureResident(refs, armed)
    <2>1. PICK fetch, hits : fetch = refs \cap RefsAt("cpu") /\ hits = refs \cap RefsAt("staging")
      OBVIOUS
    <2>2. hits = {} /\ fetch \subseteq Refs
      BY <2>1 DEF RefsAt
    <2>3. PICK A \in SUBSET fetch : \E f \in [A -> Usable] : StageBatch(hits, A, f)
      BY <1>2, <2>1 DEF EnsureResident
    <2>4. PICK f \in [A -> Usable] : StageBatch(hits, A, f)
      BY <2>3
    <2>5. ASSUME NEW r \in Refs, staged'[r] # None
          PROVE  loc'[r].res = "staging" /\ loc'[r].stg = staged'[r]
      <3>1. r \in A /\ staged'[r] = f[r]
        BY <2>2, <2>4, <2>5 DEF StageBatch
      <3>2. loc'[r] = MarkStaging(loc[r], f[r])
        BY <2>4, <3>1 DEF StageBatch
      <3> QED  BY <3>1, <3>2, MarkStagingFields
    <2> QED  BY <2>5 DEF StagedMapSound
  <1> QED  BY <1>1, <1>2

\* As long as callers pass CPU blocks only, which prepare_staging and
\* promote_hot_cpu_blocks both see to, the map names staged blocks and their
\* own slots.
THEOREM ReturnedMapSound == ~MixedFetch => (Spec => []StagedMapSound)
  <1> SUFFICES ASSUME ~MixedFetch PROVE Spec => []StagedMapSound
    OBVIOUS
  <1>1. Init => StagedMapSound
    BY DEF Init, StagedMapSound
  <1>2. ASSUME StagedMapSound, [Next]_vars PROVE StagedMapSound'
    <2>1. CASE GpuWrite
      BY <2>1, NothingStagedSound DEF GpuWrite
    <2>2. ASSUME NEW q \in Requests, Sync(q) PROVE StagedMapSound'
      BY <2>2, NothingStagedSound DEF Sync, SyncRequestBlocks
    <2>3. ASSUME NEW q \in Requests, NEW computed \in 0 .. MaxTokens,
                 OnPrefillComplete(q, computed)
          PROVE  StagedMapSound'
      BY <2>3, NothingStagedSound DEF OnPrefillComplete
    <2>4. CASE OnDecodeStep
      BY <2>4, NothingStagedSound DEF OnDecodeStep
    <2>5. ASSUME NEW allowed \in SUBSET GpuComplete, TriggerOffload(allowed)
          PROVE  StagedMapSound'
      BY <2>5, NothingStagedSound DEF TriggerOffload
    <2>6. ASSUME NEW cands \in SUBSET Refs, MaybeOffload(cands) PROVE StagedMapSound'
      BY <2>6, NothingStagedSound DEF MaybeOffload
    <2>7. ASSUME NEW refs \in SUBSET Refs, FetchSelected(refs) PROVE StagedMapSound'
      <3>1. refs \subseteq RefsAt("cpu")
        BY <2>7 DEF FetchSelected
      <3>2. PICK armed : armed = lagArmed
        OBVIOUS
      <3>3. EnsureResident(refs, armed) \/ EnsureResidentRaises(refs, armed)
        BY <2>7, <3>2 DEF FetchSelected
      <3> QED  BY <3>1, <3>3, FetchSound
    <2>8. ASSUME NEW needed \in SUBSET Refs,
                 PrepareStaging(needed) \/ PrepareStagingRaises(needed)
          PROVE  StagedMapSound'
      <3>1. PICK refs : refs = needed \cap RefsAt("cpu")
        OBVIOUS
      <3>2. EnsureResident(refs, FALSE) \/ EnsureResidentRaises(refs, FALSE)
        BY <2>8, <3>1 DEF PrepareStaging, PrepareStagingRaises
      <3> QED  BY <3>1, <3>2, FetchSound
    <2>9. ASSUME NEW q \in Requests, PromoteHotCpuBlocks(q) \/ PromoteRaises(q)
          PROVE  StagedMapSound'
      <3>1. PICK armed : armed = lagArmed
        OBVIOUS
      <3>2. PICK picked \in Promotions(q) :
              EnsureResident(picked, lagArmed) \/ EnsureResidentRaises(picked, lagArmed)
        BY <2>9 DEF PromoteHotCpuBlocks, PromoteRaises
      <3>3. picked \subseteq RefsAt("cpu")
        BY DEF Promotions, EvictionChoices, Cold
      <3>4. EnsureResident(picked, armed) \/ EnsureResidentRaises(picked, armed)
        BY <3>1, <3>2
      <3> QED  BY <3>3, <3>4, FetchSound
    <2>10. ASSUME NEW q \in Requests, CleanupRequest(q) PROVE StagedMapSound'
      BY <2>10, NothingStagedSound DEF CleanupRequest, Dropped
    <2>11. CASE UNCHANGED vars
      BY <1>2, <2>11 DEF vars, StagedMapSound
    <2> QED
      BY <1>2, <2>1, <2>2, <2>3, <2>4, <2>5, <2>6, <2>7, <2>8, <2>9, <2>10, <2>11
      DEF Next
  <1> QED  BY <1>1, <1>2, PTL DEF Spec

=============================================================================
