------------------------------ MODULE KVOffload ------------------------------
(***************************************************************************)
(* The tables behind score-based KV offloading, and every operation that    *)
(* changes them: ResidencyTable (staging/residency.py), CPUBlockPool and    *)
(* KVOffloadManager (offload/manager.py), KVStagingPool (staging/pool.py)   *)
(* and the OffloadOrchestrator that calls them (integration/manager.py).    *)
(*                                                                          *)
(* A logical block (BlockRef) is a pair <<request, index>>.  The contents   *)
(* of pages and slots are members of Values: what a copy moves, never what  *)
(* it means.  Scores decide WHICH blocks move; every choice of the right    *)
(* size is allowed here.  A free list is a set: the code pops its tail, any *)
(* free slot may be popped here.                                            *)
(* GPU -> CPU and CPU -> GPU copies are synchronised before the tables are  *)
(* published, so a batch is one step.                                       *)
(***************************************************************************)
EXTENDS Integers, FiniteSets

CONSTANTS
    Requests,        \* request ids
    MaxBlocks,       \* bound: logical blocks of one request
    Pages,           \* pages of the normal GPU pool (the null page included)
    CpuSlots,        \* slots of the CPU cache
    StagingSlots,    \* slots of the staging tail
    Values,          \* contents a page may hold
    Torn,            \* ... and the one a copy that fails half-way leaves
    PageSize,        \* tokens of a block
    MaxTokens,       \* bound: computed tokens of one request
    OffloadPercent,  \* offload_fraction, in percent
    GpuBudget,       \* gpu_budget_blocks of maybe_offload
    PromotePerStep,  \* promote_per_step
    MixedFetch,      \* may ensure_resident be given refs already staged?
    None

ASSUME ConstantsAssumption ==
    /\ MaxBlocks \in Nat \ {0}
    /\ PageSize \in Nat \ {0}
    /\ MaxTokens \in Nat
    /\ OffloadPercent \in 0 .. 99
    /\ GpuBudget \in Nat
    /\ PromotePerStep \in Nat
    /\ MixedFetch \in BOOLEAN
    /\ Torn \in Values
    /\ IsFiniteSet(Requests)
    /\ None \notin Pages \cup CpuSlots \cup StagingSlots \cup Values

VARIABLES
    loc,        \* ResidencyTable._blocks: ref -> BlockLocation
    numCpu,     \* ResidencyTable._num_cpu
    lagArmed,   \* _cpu_version # _lag_seen_cpu_version
    tracked,    \* _request_blocks: request -> number of refs listed
    scored,     \* _scored
    cpuFree,    \* CPUBlockPool free list
    stgFree,    \* KVStagingPool._free
    lru,        \* KVStagingPool._lru: ref -> staging slot
    staged,     \* the map returned by the last ensure_resident call
    kv,         \* contents of the GPU pages
    cpuMem,     \* contents of the CPU slots
    stage       \* contents of the staging pages

tableVars == <<loc, numCpu, lagArmed>>
memVars == <<kv, cpuMem, stage>>
vars == <<loc, numCpu, lagArmed, tracked, scored, cpuFree, stgFree, lru,
          staged, kv, cpuMem, stage>>

Refs == Requests \X (0 .. MaxBlocks - 1)

Location == [res : {"none", "gpu", "cpu", "staging"},
             page : Pages \cup {None},
             cpu : CpuSlots \cup {None},
             stg : StagingSlots \cup {None},
             complete : BOOLEAN]

\* residency.get(ref) is None
Unknown == [res |-> "none", page |-> None, cpu |-> None, stg |-> None,
            complete |-> FALSE]

RefsAt(r) == {ref \in Refs : loc[ref].res = r}
GpuComplete == {ref \in RefsAt("gpu") : loc[ref].complete}

Injective(f) == \A a, b \in DOMAIN f : f[a] = f[b] => a = b

-----------------------------------------------------------------------------
(* ResidencyTable: the entry each mark_* writes for an old entry o *)

MarkGpu(o, page, done) ==
    [res |-> "gpu", page |-> page, cpu |-> o.cpu, stg |-> None, complete |-> done]

MarkCpu(o, slot) ==
    [res |-> "cpu", page |-> o.page, cpu |-> slot, stg |-> None,
     complete |-> o.complete]

MarkStaging(o, slot) ==
    [res |-> "staging", page |-> o.page, cpu |-> o.cpu, stg |-> slot,
     complete |-> o.complete]

-----------------------------------------------------------------------------
Init ==
    /\ loc = [ref \in Refs |-> Unknown]
    /\ numCpu = 0
    /\ lagArmed = FALSE
    /\ tracked = [q \in Requests |-> 0]
    /\ scored = {}
    /\ cpuFree = CpuSlots
    /\ stgFree = StagingSlots
    /\ lru = [ref \in Refs |-> None]
    /\ staged = [ref \in Refs |-> None]
    /\ kv \in [Pages -> Values]
    /\ cpuMem \in [CpuSlots -> Values]
    /\ stage \in [StagingSlots -> Values]

-----------------------------------------------------------------------------
(* The model runner: the kernels of a step write GPU pages. *)

GpuWrite ==
    /\ kv' \in [Pages -> Values]
    /\ staged' = [ref \in Refs |-> None]
    /\ UNCHANGED <<tableVars, tracked, scored, cpuFree, stgFree, lru, cpuMem, stage>>

-----------------------------------------------------------------------------
(* OffloadOrchestrator.sync_request_blocks(q, ids, computed).  ids is the   *)
(* block table of q: a function 0 .. n-1 -> Pages.                          *)

\* Mutant: a block counts as full with its first row.
FilledEarly(i, computed) == i * PageSize <= computed

Filled(i, computed) == (i + 1) * PageSize <= computed

\* Mutant: an offloaded block is bound to a GPU page again.
SyncRebindsOffloaded(o, page, done) ==
    IF o.res = "none" \/ o.page # page
        THEN MarkGpu(o, page, done) ELSE [o EXCEPT !.complete = @ \/ done]

SyncedLocation(o, page, done) ==
    IF o.res \in {"cpu", "staging"}
        THEN [o EXCEPT !.complete = @ \/ done]
    ELSE IF o.res = "none" \/ o.page # page
        THEN MarkGpu(o, page, done)
    ELSE [o EXCEPT !.complete = @ \/ done]

SyncRequestBlocks(q, n, ids, computed) ==
    LET listed == {q} \X (0 .. n - 1)
    IN  /\ loc' = [ref \in Refs |->
                    IF ref \in listed
                        THEN SyncedLocation(loc[ref], ids[ref[2]],
                                            Filled(ref[2], computed))
                        ELSE loc[ref]]
        /\ scored' = scored \cup {ref \in listed :
                                    loc'[ref].complete /\ loc'[ref].res = "gpu"}
        /\ tracked' = [tracked EXCEPT ![q] = n]
        /\ staged' = [ref \in Refs |-> None]
        /\ UNCHANGED <<numCpu, lagArmed, cpuFree, stgFree, lru, memVars>>

\* on_prefill_complete(q, computed): full blocks of the list graduate.
OnPrefillComplete(q, computed) ==
    LET now == {ref \in {q} \X (0 .. tracked[q] - 1) :
                    /\ loc[ref].res # "none"
                    /\ Filled(ref[2], computed)
                    /\ ~loc[ref].complete}
    IN  /\ loc' = [ref \in Refs |->
                    [loc[ref] EXCEPT !.complete = @ \/ ref \in now]]
        /\ scored' = scored \cup {ref \in now : loc[ref].res = "gpu"}
        /\ staged' = [ref \in Refs |-> None]
        /\ UNCHANGED <<numCpu, lagArmed, tracked, cpuFree, stgFree, lru, memVars>>

-----------------------------------------------------------------------------
(* KVOffloadManager *)

\* n_offload of offload_fraction: rounded half up, never below one.
NumToOffload(n) ==
    LET rounded == (n * OffloadPercent + 50) \div 100
    IN  IF rounded < 1 THEN 1 ELSE rounded

\* The refs select_for_eviction may return: as many as asked, any of them.
EvictionChoices(cands, count) == {E \in SUBSET cands : Cardinality(E) = count}

\* _copy_gpu_to_cpu_batch + mark_cpu: E is copied to the slots of f.
StoreBatch(E, f) ==
    /\ loc' = [ref \in Refs |->
                IF ref \in E THEN MarkCpu(loc[ref], f[ref]) ELSE loc[ref]]
    /\ cpuMem' = [s \in CpuSlots |->
                    IF \E ref \in E : f[ref] = s
                        THEN kv[loc[CHOOSE ref \in E : f[ref] = s].page]
                        ELSE cpuMem[s]]
    /\ cpuFree' = cpuFree \ {f[ref] : ref \in E}
    /\ numCpu' = numCpu + Cardinality(E)
    /\ lagArmed' = (lagArmed \/ E # {})

\* Mutant: a failed copy keeps its slots.
StoreBatchFailsLeaking(E, f) ==
    /\ cpuFree' = cpuFree \ {f[ref] : ref \in E}
    /\ UNCHANGED <<tableVars, cpuMem>>

\* ... and when a copy raises: the slots go back with whatever was written.
StoreBatchFails(E, f) ==
    /\ cpuMem' = [s \in CpuSlots |->
                    IF \E ref \in E : f[ref] = s THEN Torn ELSE cpuMem[s]]
    /\ UNCHANGED <<tableVars, cpuFree>>

\* Select count of cands, copy them, mark them; or the pool is too small, which
\* is noticed before a slot is taken.  No exception undoes or adds anything.
Offload(cands, count) ==
    \/ \E E \in EvictionChoices(cands, count) : \E f \in [E -> cpuFree] :
          /\ Injective(f)
          /\ StoreBatch(E, f) \/ StoreBatchFails(E, f)
    \/ /\ count > Cardinality(cpuFree)
       /\ UNCHANGED <<tableVars, cpuFree, cpuMem>>

\* offload_fraction(cands, fraction, known): unscored refs, refs that are not on
\* the GPU and incomplete ones are not candidates.
OffloadFraction(cands, known) ==
    LET eligible == cands \cap known \cap GpuComplete
    IN  \/ /\ eligible # {}
           /\ Offload(eligible, NumToOffload(Cardinality(eligible)))
        \/ /\ eligible = {}
           /\ UNCHANGED <<tableVars, cpuFree, cpuMem>>

\* on_decode_step: candidates are all complete GPU blocks.
OnDecodeStep ==
    /\ OffloadFraction(GpuComplete, scored)
    /\ staged' = [ref \in Refs |-> None]
    /\ UNCHANGED <<tracked, scored, stgFree, lru, kv, stage>>

\* The table part of _trigger_global_offload (scheduler_connector.py): the
\* allowed blocks are re-scored, then a fraction of them is offloaded.
TriggerOffload(allowed) ==
    /\ scored' = scored \cup allowed
    /\ OffloadFraction(allowed, scored')
    /\ staged' = [ref \in Refs |-> None]
    /\ UNCHANGED <<tracked, stgFree, lru, kv, stage>>

\* maybe_offload(cands): evict down to the budget (the scorer knows them all).
MaybeOffload(cands) ==
    LET eligible == cands \cap GpuComplete
    IN  /\ Cardinality(eligible) > GpuBudget
        /\ eligible \subseteq scored
        /\ Offload(eligible, Cardinality(eligible) - GpuBudget)
        /\ staged' = [ref \in Refs |-> None]
        /\ UNCHANGED <<tracked, scored, stgFree, lru, kv, stage>>

-----------------------------------------------------------------------------
(* KVStagingPool *)

\* Slots _allocate_slot can hand out: free ones, else those of staged refs.
Evictable == {ref \in Refs : lru[ref] # None /\ loc[ref].res = "staging"}

Usable == stgFree \cup {lru[ref] : ref \in Evictable}

\* Mutant: slots reserved by the batch are not protected from it.
ReservationUnprotected(fetch, A, f) ==
    LET taken == {f[ref] : ref \in A}
    IN  /\ taken \subseteq stgFree \/ stgFree \subseteq taken
        /\ A = fetch \/ Usable \subseteq taken

\* Phase 1 for the CPU refs `fetch`: A gets the slots f, the rest is skipped.
\* A slot is taken from a staged ref only when no slot is free, a ref is
\* skipped only when every slot is taken.
Reservation(fetch, A, f) ==
    LET taken == {f[ref] : ref \in A}
    IN  /\ Injective(f)
        /\ taken \subseteq stgFree \/ stgFree \subseteq taken
        /\ A = fetch \/ Usable \subseteq taken

Evicted(A, f) == {ref \in Evictable : \E a \in A : f[a] = lru[ref]}

\* Mutant: the evicted blocks are not counted as CPU blocks again.
StageBatchMiscounts(hits, A, f) ==
    LET out == Evicted(A, f)
    IN  /\ loc' = [ref \in Refs |->
                    IF ref \in A THEN MarkStaging(loc[ref], f[ref])
                    ELSE IF ref \in out THEN MarkCpu(loc[ref], loc[ref].cpu)
                    ELSE loc[ref]]
        /\ lru' = [ref \in Refs |->
                    IF ref \in A THEN f[ref]
                    ELSE IF ref \in out THEN None ELSE lru[ref]]
        /\ stgFree' = stgFree \ {f[ref] : ref \in A}
        /\ numCpu' = numCpu - Cardinality(A)
        /\ UNCHANGED <<stage, staged>>

\* Phases 2 and 3: copy, then publish A into the LRU and the residency table.
StageBatch(hits, A, f) ==
    LET out == Evicted(A, f)
    IN  /\ loc' = [ref \in Refs |->
                    IF ref \in A THEN MarkStaging(loc[ref], f[ref])
                    ELSE IF ref \in out THEN MarkCpu(loc[ref], loc[ref].cpu)
                    ELSE loc[ref]]
        /\ lru' = [ref \in Refs |->
                    IF ref \in A THEN f[ref]
                    ELSE IF ref \in out THEN None ELSE lru[ref]]
        /\ stage' = [s \in StagingSlots |->
                        IF \E ref \in A : f[ref] = s
                            THEN cpuMem[loc[CHOOSE ref \in A : f[ref] = s].cpu]
                            ELSE stage[s]]
        /\ stgFree' = stgFree \ {f[ref] : ref \in A}
        /\ staged' = [ref \in Refs |->
                        IF ref \in A THEN f[ref]
                        ELSE IF ref \in hits THEN loc[ref].stg ELSE None]
        /\ numCpu' = numCpu + Cardinality(out) - Cardinality(A)

\* What a failed phase 2 leaves of the staging pages.
TornStage(A, f) ==
    [s \in StagingSlots |-> IF \E ref \in A : f[ref] = s THEN Torn ELSE stage[s]]

\* Mutant: a failed batch forgets the slots it reserved.
StageBatchFailsLeaking(A, f) ==
    LET out == Evicted(A, f)
    IN  /\ loc' = [ref \in Refs |->
                    IF ref \in out THEN MarkCpu(loc[ref], loc[ref].cpu) ELSE loc[ref]]
        /\ lru' = [ref \in Refs |-> IF ref \in out THEN None ELSE lru[ref]]
        /\ stgFree' = stgFree \ {f[ref] : ref \in A}
        /\ numCpu' = numCpu + Cardinality(out)
        /\ UNCHANGED <<stage, staged>>

\* Mutant: the batch enters the LRU before its copies succeed.
StageBatchFailsPublished(A, f) ==
    LET out == Evicted(A, f)
    IN  /\ loc' = [ref \in Refs |->
                    IF ref \in out THEN MarkCpu(loc[ref], loc[ref].cpu) ELSE loc[ref]]
        /\ lru' = [ref \in Refs |-> IF ref \in A THEN f[ref]
                                   ELSE IF ref \in out THEN None ELSE lru[ref]]
        /\ stgFree' = stgFree \ {f[ref] : ref \in A}
        /\ numCpu' = numCpu + Cardinality(out)
        /\ UNCHANGED <<stage, staged>>

\* Mutant: evictions are undone although the pages have been overwritten.
StageBatchFailsRestoring(A, f) ==
    /\ stage' = TornStage(A, f)
    /\ UNCHANGED <<loc, lru, stgFree, staged, numCpu>>

\* Phase 2 raises: evictions stand, every reserved slot goes back.
StageBatchFails(A, f) ==
    LET out == Evicted(A, f)
    IN  /\ loc' = [ref \in Refs |->
                    IF ref \in out THEN MarkCpu(loc[ref], loc[ref].cpu) ELSE loc[ref]]
        /\ lru' = [ref \in Refs |-> IF ref \in out THEN None ELSE lru[ref]]
        /\ stgFree' = stgFree \cup {f[ref] : ref \in A}
        /\ stage' = TornStage(A, f)
        /\ staged' = [ref \in Refs |-> None]
        /\ numCpu' = numCpu + Cardinality(out)

\* ensure_resident(refs) returns: GPU refs are left alone, staged refs are
\* hits, CPU refs are fetched.  `armed` is the gate as the caller left it.
\* (An unknown ref raises before anything changes.)
EnsureResident(refs, armed) ==
    LET fetch == refs \cap RefsAt("cpu")
    IN  /\ refs \cap RefsAt("none") = {}
        /\ \E A \in SUBSET fetch : \E f \in [A -> Usable] :
             /\ Reservation(fetch, A, f)
             /\ StageBatch(refs \cap RefsAt("staging"), A, f)
             /\ lagArmed' = (armed \/ A # {})
        /\ UNCHANGED <<tracked, scored, cpuFree, kv, cpuMem>>

\* ensure_resident(refs) raises out of phase 2.
EnsureResidentRaises(refs, armed) ==
    LET fetch == refs \cap RefsAt("cpu")
    IN  /\ refs \cap RefsAt("none") = {}
        /\ \E A \in SUBSET fetch : \E f \in [A -> Usable] :
             /\ A # {}
             /\ Reservation(fetch, A, f)
             /\ StageBatchFails(A, f)
             /\ lagArmed' = (armed \/ Evicted(A, f) # {})
        /\ UNCHANGED <<tracked, scored, cpuFree, kv, cpuMem>>

\* A direct call (the in-run fetch of the sparse backend).
FetchSelected(refs) ==
    /\ MixedFetch \/ refs \subseteq RefsAt("cpu")
    /\ EnsureResident(refs, lagArmed) \/ EnsureResidentRaises(refs, lagArmed)

\* Mutant: prepare_staging also passes on the blocks that are staged already.
PrepareStagingUnfiltered(needed) ==
    /\ lagArmed
    /\ EnsureResident(needed \ RefsAt("gpu"), FALSE)

\* prepare_staging: gated on the CPU version, only CPU refs are passed on.
PrepareStaging(needed) ==
    /\ lagArmed
    /\ EnsureResident(needed \cap RefsAt("cpu"), FALSE)

PrepareStagingRaises(needed) ==
    /\ lagArmed
    /\ EnsureResidentRaises(needed \cap RefsAt("cpu"), FALSE)

\* promote_hot_cpu_blocks: the best PromotePerStep CPU blocks of q.
Cold(q) == {ref \in RefsAt("cpu") : ref[1] = q}

Promotions(q) ==
    LET n == Cardinality(Cold(q))
    IN  EvictionChoices(Cold(q), IF n < PromotePerStep THEN n ELSE PromotePerStep)

PromoteHotCpuBlocks(q) ==
    /\ PromotePerStep > 0 /\ Cold(q) # {}
    /\ \E picked \in Promotions(q) : EnsureResident(picked, lagArmed)

PromoteRaises(q) ==
    /\ PromotePerStep > 0 /\ Cold(q) # {}
    /\ \E picked \in Promotions(q) : EnsureResidentRaises(picked, lagArmed)

-----------------------------------------------------------------------------
(* _cleanup_request(q): release the staging slot, drop the entry, free the  *)
(* CPU slot, of every ref listed in _request_blocks[q].                     *)

\* What _cleanup_request leaves, the CPU free list aside.
Dropped(q, gone) ==
    /\ loc' = [ref \in Refs |-> IF ref \in gone THEN Unknown ELSE loc[ref]]
    /\ lru' = [ref \in Refs |-> IF ref \in gone THEN None ELSE lru[ref]]
    /\ stgFree' = stgFree \cup ({lru[ref] : ref \in gone} \ {None})
    /\ numCpu' = numCpu - Cardinality(gone \cap RefsAt("cpu"))
    /\ lagArmed' = (lagArmed \/ \E ref \in gone : loc[ref].res \in {"cpu", "staging"})
    /\ scored' = scored \ gone
    /\ tracked' = [tracked EXCEPT ![q] = 0]
    /\ staged' = [ref \in Refs |-> None]
    /\ UNCHANGED memVars

\* Mutant: the slot of a block that has none is freed as well.
CleanupFreesNone(q) ==
    LET gone == {q} \X (0 .. tracked[q] - 1)
    IN  Dropped(q, gone) /\ cpuFree' = cpuFree \cup {loc[ref].cpu : ref \in gone}

\* Mutant: the last block of the list is missed.
CleanupMissesLast(q) ==
    LET gone == {q} \X (0 .. tracked[q] - 2)
    IN  Dropped(q, gone)
        /\ cpuFree' = cpuFree \cup ({loc[ref].cpu : ref \in gone} \ {None})

CleanupRequest(q) ==
    LET gone == {q} \X (0 .. tracked[q] - 1)
    IN  Dropped(q, gone)
        /\ cpuFree' = cpuFree \cup ({loc[ref].cpu : ref \in gone} \ {None})

-----------------------------------------------------------------------------
Sync(q) ==
    \E n \in 0 .. MaxBlocks, computed \in 0 .. MaxTokens :
        \E ids \in [0 .. n - 1 -> Pages] : SyncRequestBlocks(q, n, ids, computed)

Next ==
    \/ GpuWrite
    \/ \E q \in Requests : Sync(q)
    \/ \E q \in Requests, computed \in 0 .. MaxTokens : OnPrefillComplete(q, computed)
    \/ OnDecodeStep
    \/ \E allowed \in SUBSET GpuComplete : TriggerOffload(allowed)
    \/ \E cands \in SUBSET Refs : MaybeOffload(cands)
    \/ \E refs \in SUBSET Refs : FetchSelected(refs)
    \/ \E needed \in SUBSET Refs : PrepareStaging(needed)
    \/ \E needed \in SUBSET Refs : PrepareStagingRaises(needed)
    \/ \E q \in Requests : PromoteHotCpuBlocks(q)
    \/ \E q \in Requests : PromoteRaises(q)
    \/ \E q \in Requests : CleanupRequest(q)

Spec == Init /\ [][Next]_vars

-----------------------------------------------------------------------------
(* Properties *)

\* Every variable has its type.
TypeOK ==
    /\ loc \in [Refs -> Location]
    /\ numCpu \in Int
    /\ lagArmed \in BOOLEAN
    /\ tracked \in [Requests -> 0 .. MaxBlocks]
    /\ scored \subseteq Refs
    /\ cpuFree \subseteq CpuSlots
    /\ stgFree \subseteq StagingSlots
    /\ lru \in [Refs -> StagingSlots \cup {None}]
    /\ staged \in [Refs -> StagingSlots \cup {None}]
    /\ kv \in [Pages -> Values]
    /\ cpuMem \in [CpuSlots -> Values]
    /\ stage \in [StagingSlots -> Values]

\* No CPU slot leaks and none is handed out twice: a slot is on the free list
\* exactly when no block holds it, and no two blocks hold the same slot
\* (CPUBlockPool and the cpu_slot fields of the residency table agree through
\* failed copies, re-syncs and cleanups).
CpuSlotsConserved ==
    /\ \A s \in CpuSlots : s \in cpuFree <=> \A r \in Refs : loc[r].cpu # s
    /\ \A r1, r2 \in Refs : loc[r1].cpu = loc[r2].cpu /\ loc[r1].cpu # None => r1 = r2

\* The same for the staging slots, the occupancy LRU and its free list: also
\* after a fetch that evicted blocks and then failed to copy.
StagingSlotsConserved ==
    /\ \A s \in StagingSlots : s \in stgFree <=> \A r \in Refs : lru[r] # s
    /\ \A r1, r2 \in Refs : lru[r1] = lru[r2] /\ lru[r1] # None => r1 = r2

\* The LRU and the residency table never desync (the case _allocate_slot warns
\* about): a block is in the LRU exactly when it is STAGING, with that slot.
LruMatchesResidency ==
    \A r \in Refs :
        /\ lru[r] = loc[r].stg
        /\ loc[r].stg # None <=> loc[r].res = "staging"

\* A block off the GPU has a CPU copy; a block on the GPU holds no CPU slot,
\* so that offloading it cannot overwrite (and leak) a slot it already has.
BackedByCpu ==
    \A r \in Refs :
        /\ loc[r].cpu # None <=> loc[r].res \in {"cpu", "staging"}
        /\ loc[r].page # None <=> loc[r].res # "none"

\* The short-circuit counter is exact: num_cpu_blocks counts the blocks whose
\* only copy is on the CPU, so a fetch or a promotion is never skipped because
\* of a drifted counter.
CpuCountExact == numCpu = Cardinality(RefsAt("cpu"))

\* A staged page holds what its block's CPU slot holds, although slots are
\* reused, evicted and overwritten by failed batches.
StagedCopyMatches ==
    \A r \in Refs : loc[r].res = "staging" => stage[loc[r].stg] = cpuMem[loc[r].cpu]

\* ensure_resident's docstring (staging/pool.py:74-75): the returned map holds
\* the blocks that are staged afterwards, each with its own slot.
StagedMapSound ==
    \A r \in Refs : staged[r] # None => loc[r].res = "staging" /\ loc[r].stg = staged[r]

-----------------------------------------------------------------------------
(* Refinement: what a reader that follows the residency table finds. *)

View == [r \in Refs |->
            CASE loc[r].res = "none" -> None
              [] loc[r].res = "gpu" -> kv[loc[r].page]
              [] loc[r].res = "cpu" -> cpuMem[loc[r].cpu]
              [] loc[r].res = "staging" -> stage[loc[r].stg]]

Frozen == RefsAt("cpu") \cup RefsAt("staging")

Store == INSTANCE BlockStore WITH val <- View, frozen <- Frozen

\* The tables implement the abstract block store.
ImplementsBlockStore == Store!Spec

=============================================================================
