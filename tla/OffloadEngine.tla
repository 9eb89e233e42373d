---------------------------- MODULE OffloadEngine ----------------------------
(***************************************************************************)
(* One engine of the offloading system: vLLM's scheduler and block pool      *)
(* (reduced to what the connector sees of them), the connector's             *)
(* scheduler half (integration/scheduler_connector.py behind                 *)
(* integration/connector.py), its worker half (worker_connector.py) and the  *)
(* metadata builder that patches the page indices of a step                  *)
(* (skylight/backend.py, selection/adapter.py), on top of the tables of      *)
(* KVOffload.                                                                *)
(*                                                                           *)
(* An engine step runs sched -> meta ... -> patch -> run -> attended -> ...: the *)
(* handler build_connector_meta makes several calls that each change the     *)
(* tables; pc walks through them in the code's order and nothing interleaves *)
(* with it.  An exception inside it is swallowed by the connector: the step  *)
(* goes on with what had been done (Abort).                                  *)
(*                                                                           *)
(* The content of a page is the logical block whose rows it holds, or        *)
(* Garbage.                                                                  *)
(***************************************************************************)
EXTENDS KVOffload, Sequences

CONSTANTS
    NullPage,     \* block id 0, the pool's null block
    Garbage,      \* content that is no complete logical block
    PromptLen,    \* prompt tokens of each request
    MaxNew,       \* bound: sampled tokens of one request
    MaxChunk,     \* bound: tokens of one request in one step
    Window,       \* W
    TrueFreeModes,\* settings of _true_free_enabled to explore
    MaxPreempt,   \* bound: preemptions in a behaviour (none occur if zero)
    MaxSkips      \* bound: exceptions that leave requests unsynced (likewise)

ASSUME EngineAssumption ==
    /\ NullPage \in Pages
    /\ None \notin Requests
    /\ Values = Refs \cup {Garbage}
    /\ Torn = Garbage
    /\ PromptLen \in [Requests -> Nat \ {0}]
    /\ MaxNew \in Nat
    /\ \A q \in Requests : PromptLen[q] + MaxNew <= MaxTokens
    /\ MaxTokens <= MaxBlocks * PageSize
    /\ MaxChunk \in Nat \ {0}
    /\ Window \in Nat \ {0} /\ Window % PageSize = 0
    /\ TrueFreeModes \subseteq BOOLEAN
    /\ MaxPreempt \in Nat /\ MaxSkips \in Nat

VARIABLES
    \* vLLM
    status,      \* "waiting", "running", "preempted" or "finished"
    table,       \* req_to_blocks: the scheduler's block table
    rowTable,    \* the model runner's block table (surgery does not touch it)
    computed,    \* num_computed_tokens before this step
    total,       \* tokens known: prompt and sampled
    sched,       \* num_scheduled_tokens of this step
    kind,        \* how the step lists q: "no", "new", "cached" or "resumed"
    fresh,       \* number of blocks allocated to q in this step
    preempts,    \* preemptions so far
    \* OffloadPackageScheduler and its KVCompressionController
    trueFree,    \* _true_free_enabled, fixed at start-up
    reqTable,    \* _req_block_table
    known,       \* keys of _prompt_lens; also _started
    prefillDone, \* _prefill_completed
    count,       \* _decode_tokens
    acc,         \* _step_store_acc
    pending,     \* _pending_store_events, oldest first
    skips,       \* steps that raised before all their requests were synced
    \* OffloadPackageWorker and SkylightSparseMetadataBuilder
    ids,         \* _cached_request_ids
    meta,        \* request_ids of the step's metadata, until they are bound
    rowIds,      \* the request whose residency patched each row, or None
    \* control
    pc, cur, ret, todo

vllmVars == <<status, table, rowTable, computed, total, sched, kind, fresh, preempts>>
connVars == <<trueFree, reqTable, known, prefillDone, count, acc, pending, skips>>
rowVars == <<ids, meta, rowIds>>
pcVars == <<pc, cur, ret, todo>>
engineVars == <<vllmVars, connVars, rowVars, pcVars>>
allVars == <<vars, engineVars>>

BlocksFor(tokens) == (tokens + PageSize - 1) \div PageSize
Entries(t) == {t[i] : i \in DOMAIN t}
Live == {q \in Requests : status[q] \in {"waiting", "running", "preempted"}}
Scheduled == {q \in Requests : kind[q] # "no"}
\* Pages handed to no request; ref_cnt of a page.
FreePages == Pages \ ({NullPage} \cup UNION {Entries(table[q]) : q \in Requests})
RefCnt(p) == Cardinality({q \in Requests : p \in Entries(table[q])})
Orders(S) == {s \in [1 .. Cardinality(S) -> S] : Injective(s)}

\* The shadow CPU pool has num_cpu_slots blocks, one of them its null block.
\* A block is taken by a trigger and given back when the store completes.
InFlight == acc \cup UNION Entries(pending)
ShadowFree == Cardinality(CpuSlots) - 1 - Cardinality(InFlight)

EngineInit ==
    /\ kv = [p \in Pages |-> Garbage]
    /\ cpuMem = [s \in CpuSlots |-> Garbage]
    /\ stage = [s \in StagingSlots |-> Garbage]
    /\ Init
    /\ status = [q \in Requests |-> "waiting"]
    /\ table = [q \in Requests |-> <<>>]
    /\ rowTable = [q \in Requests |-> <<>>]
    /\ computed = [q \in Requests |-> 0]
    /\ total = PromptLen
    /\ sched = [q \in Requests |-> 0]
    /\ kind = [q \in Requests |-> "no"]
    /\ fresh = [q \in Requests |-> 0]
    /\ preempts = 0
    /\ trueFree \in TrueFreeModes
    /\ reqTable = [q \in Requests |-> <<>>]
    /\ known = {}
    /\ prefillDone = {}
    /\ count = [q \in Requests |-> 0]
    /\ acc = {}
    /\ pending = <<>>
    /\ skips = 0
    /\ ids = <<>> /\ meta = <<>>
    /\ rowIds = [q \in Requests |-> None]
    /\ pc = "sched"
    /\ cur = None
    /\ ret = "meta"
    /\ todo = {}

-----------------------------------------------------------------------------
(* vLLM's scheduler: pc = "sched" *)

\* q gets n tokens and the pages they need.
Schedule(q, n) ==
    LET need == BlocksFor(computed[q] + n) - Len(table[q])
    IN  /\ pc = "sched"
        /\ q \in Live /\ kind[q] = "no"
        /\ computed[q] + n <= total[q]
        /\ \E got \in [1 .. need -> FreePages] :
             /\ Injective(got)
             /\ table' = [table EXCEPT ![q] = @ \o got]
             /\ rowTable' = [rowTable EXCEPT ![q] = @ \o got]
        /\ fresh' = [fresh EXCEPT ![q] = need]
        /\ sched' = [sched EXCEPT ![q] = n]
        /\ kind' = [kind EXCEPT ![q] =
                      CASE status[q] = "waiting" -> "new"
                        [] status[q] = "running" -> "cached"
                        [] status[q] = "preempted" -> "resumed"]
        /\ status' = [status EXCEPT ![q] = "running"]
        /\ UNCHANGED <<vars, computed, total, preempts, connVars, rowVars, pcVars>>

\* _preempt_request: pages freed, nothing computed; no connector call.
Preempt(q) ==
    /\ pc = "sched"
    /\ preempts < MaxPreempt
    /\ preempts' = preempts + 1
    /\ status[q] = "running" /\ kind[q] = "no"
    /\ status' = [status EXCEPT ![q] = "preempted"]
    /\ table' = [table EXCEPT ![q] = <<>>]
    /\ rowTable' = [rowTable EXCEPT ![q] = <<>>]
    /\ computed' = [computed EXCEPT ![q] = 0]
    /\ UNCHANGED <<vars, total, sched, kind, fresh, connVars, rowVars, pcVars>>

\* Mutant: request_finished drops the residency entries but frees no slot.
OnRequestDoneLeaking(q) ==
    /\ loc' = [ref \in Refs |-> IF ref[1] = q THEN Unknown ELSE loc[ref]]
    /\ tracked' = [tracked EXCEPT ![q] = 0]
    /\ UNCHANGED <<numCpu, lagArmed, scored, cpuFree, stgFree, lru, staged, memVars>>
    /\ reqTable' = [reqTable EXCEPT ![q] = <<>>]
    /\ known' = known \ {q}
    /\ prefillDone' = prefillDone \ {q}
    /\ count' = [count EXCEPT ![q] = 0]

\* request_finished of the connector.
OnRequestDone(q) ==
    /\ CleanupRequest(q)
    /\ reqTable' = [reqTable EXCEPT ![q] = <<>>]
    /\ known' = known \ {q}
    /\ prefillDone' = prefillDone \ {q}
    /\ count' = [count EXCEPT ![q] = 0]

\* A request that sampled a token stops (in update_from_output, before the
\* connector's output is processed), or a request is aborted: request_finished,
\* then its pages are freed.
RequestFinished(q) ==
    /\ \/ /\ pc \in {"attended", "report"} /\ q \in Scheduled
          /\ computed[q] >= PromptLen[q] /\ computed[q] + 1 >= total[q]
       \/ pc = "sched" /\ kind[q] = "no"
    /\ status[q] \in {"running", "preempted"}
    /\ OnRequestDone(q)
    /\ status' = [status EXCEPT ![q] = "finished"]
    /\ table' = [table EXCEPT ![q] = <<>>]
    /\ rowTable' = [rowTable EXCEPT ![q] = <<>>]
    /\ pc' = IF pc = "sched" THEN "sched" ELSE "report"
    /\ UNCHANGED <<trueFree, skips, computed, total, sched, kind, fresh, preempts, acc, pending,
                   rowVars, cur, ret, todo>>

StartMeta ==
    /\ pc = "sched"
    /\ Scheduled # {}
    /\ pc' = "meta"
    /\ todo' = Scheduled
    /\ UNCHANGED <<vars, vllmVars, connVars, rowVars, cur, ret>>

-----------------------------------------------------------------------------
(* build_connector_meta *)

\* sync_request_blocks with a block table of the connector (bound: MaxBlocks; a
\* table that missed a resumption grows past that of vLLM).
SyncTable(q, full) ==
    /\ Len(full) <= MaxBlocks
    /\ reqTable' = [reqTable EXCEPT ![q] = full]
    /\ SyncRequestBlocks(q, Len(full), [i \in 0 .. Len(full) - 1 |-> full[i + 1]],
                         computed[q])

\* 1. New requests, before all others.
MetaNew(q) ==
    /\ pc = "meta" /\ q \in todo /\ kind[q] = "new"
    /\ SyncTable(q, table[q])
    /\ known' = known \cup {q}
    /\ count' = [count EXCEPT ![q] = 0]
    /\ todo' = todo \ {q}
    /\ UNCHANGED <<trueFree, skips, vllmVars, prefillDone, acc, pending, rowVars, pc, cur, ret>>

\* Mutant: new_block_ids of a running request are taken for its full table.
FullTableReplaced(q) ==
    IF kind[q] = "resumed" \/ fresh[q] = 0 THEN table[q]
    ELSE SubSeq(table[q], Len(table[q]) - fresh[q] + 1, Len(table[q]))

\* 2. Requests seen before: rebuild the full table and sync it.
FullTable(q) ==
    IF kind[q] = "resumed" THEN table[q]
    ELSE reqTable[q] \o SubSeq(table[q], Len(table[q]) - fresh[q] + 1, Len(table[q]))

MetaCached(q) ==
    /\ pc = "meta" /\ q \in todo
    /\ \A o \in todo : kind[o] # "new"
    /\ SyncTable(q, FullTable(q))
    /\ todo' = todo \ {q}
    /\ cur' = q
    /\ pc' = "prefill"
    /\ UNCHANGED <<trueFree, skips, vllmVars, known, prefillDone, count, acc, pending, rowVars, ret>>

\* Mutant: the tokens of this step count as computed.
EntersDecodeEarly(q) ==
    /\ q \in known
    /\ computed[q] + sched[q] >= PromptLen[q]
    /\ q \notin prefillDone

\* The prompt is computed: score what is full and run an offload pass.
EntersDecode(q) ==
    /\ q \in known
    /\ computed[q] >= PromptLen[q]
    /\ q \notin prefillDone

MetaPrefillDone ==
    /\ pc = "prefill"
    /\ EntersDecode(cur)
    /\ prefillDone' = prefillDone \cup {cur}
    /\ OnPrefillComplete(cur, computed[cur])
    /\ pc' = "trigger"
    /\ ret' = "decode"
    /\ UNCHANGED <<trueFree, skips, vllmVars, reqTable, known, count, acc, pending, rowVars, cur, todo>>

MetaPrefillNotDone ==
    /\ pc = "prefill"
    /\ ~EntersDecode(cur)
    /\ pc' = "decode"
    /\ UNCHANGED <<vars, vllmVars, connVars, rowVars, cur, ret, todo>>

\* Mutant: the count is tested before the tokens of the step are added.
OnDecodeTestsOldCount ==
    /\ pc = "decode"
    /\ cur \in prefillDone /\ cur \in known
    /\ count' = [count EXCEPT ![cur] = @ + sched[cur]]
    /\ pc' = IF count[cur] % Window = 0 THEN "trigger" ELSE "meta"
    /\ ret' = "meta"
    /\ UNCHANGED <<trueFree, skips, vars, vllmVars, reqTable, known, prefillDone, acc, pending,
                   rowVars, cur, todo>>

\* on_decode: another offload pass whenever the count is a multiple of W.
OnDecode ==
    /\ pc = "decode"
    /\ cur \in prefillDone /\ cur \in known
    /\ count' = [count EXCEPT ![cur] = @ + sched[cur]]
    /\ pc' = IF count'[cur] % Window = 0 THEN "trigger" ELSE "meta"
    /\ ret' = "meta"
    /\ UNCHANGED <<trueFree, skips, vars, vllmVars, reqTable, known, prefillDone, acc, pending,
                   rowVars, cur, todo>>

NotDecoding ==
    /\ pc = "decode"
    /\ cur \notin prefillDone
    /\ pc' = "meta"
    /\ UNCHANGED <<vars, vllmVars, connVars, rowVars, cur, ret, todo>>

-----------------------------------------------------------------------------
(* _trigger_global_offload *)

\* With true freeing only pages of one owner are eligible.
Allowed == {ref \in GpuComplete : trueFree => RefCnt(loc[ref].page) = 1}
Offloaded == {ref \in Refs : loc[ref].res = "gpu" /\ loc'[ref].res = "cpu"}
StoreEntries(E) == {[ref |-> ref, page |-> loc[ref].page] : ref \in E}

Trigger ==
    /\ pc = "trigger"
    /\ TriggerOffload(Allowed)
    /\ Cardinality(Offloaded) <= ShadowFree
    /\ acc' = acc \cup StoreEntries(Offloaded)
    /\ pc' = ret
    /\ UNCHANGED <<trueFree, skips, vllmVars, reqTable, known, prefillDone, count, pending,
                   rowVars, cur, ret, todo>>

\* cpu_block_pool.get_new_blocks raises after the residency has changed; the
\* connector swallows it and the step runs with empty metadata: the requests
\* still to be listed miss their sync, and their new blocks are lost for good.
TriggerRaises ==
    /\ pc = "trigger"
    /\ TriggerOffload(Allowed)
    /\ Cardinality(Offloaded) > ShadowFree
    /\ skips' = IF todo = {} THEN skips ELSE skips + 1
    /\ skips' <= MaxSkips
    /\ pc' = "patch"
    /\ todo' = {}
    /\ UNCHANGED <<trueFree, vllmVars, reqTable, known, prefillDone, count, acc, pending,
                   rowVars, cur, ret>>

-----------------------------------------------------------------------------
(* 4 to 5: promotion and the flush of the step's stores *)

Active == {q \in prefillDone : kind[q] \in {"cached", "resumed"}}

MetaListDone ==
    /\ pc = "meta"
    /\ todo = {}
    /\ pc' = "promote"
    /\ todo' = IF trueFree /\ PromotePerStep > 0 /\ numCpu > 0 THEN Active ELSE {}
    /\ UNCHANGED <<vars, vllmVars, connVars, rowVars, cur, ret>>

Promote(q) ==
    /\ pc = "promote" /\ q \in todo
    /\ \/ PromoteHotCpuBlocks(q)
       \/ Cold(q) = {} /\ UNCHANGED vars
    /\ todo' = todo \ {q}
    /\ UNCHANGED <<vllmVars, connVars, rowVars, pc, cur, ret>>

\* A failing fetch leaves build_connector_meta with an exception.
PromoteAborts(q) ==
    /\ pc = "promote" /\ q \in todo
    /\ PromoteRaises(q)
    /\ pc' = "patch"
    /\ todo' = {}
    /\ UNCHANGED <<vllmVars, connVars, rowVars, cur, ret>>

\* One store event for all triggers of the step (StoreEvents follows its way), and
\* the decoding requests in the scheduler's order.  After an exception the metadata
\* stays empty.
Flush ==
    /\ pc = "promote"
    /\ todo = {}
    /\ pending' = IF acc = {} THEN pending ELSE Append(pending, acc)
    /\ acc' = {}
    /\ meta' \in Orders(Active)
    /\ pc' = "patch"
    /\ UNCHANGED <<trueFree, skips, vars, vllmVars, reqTable, known, prefillDone, count, ids, rowIds,
                   cur, ret, todo>>

-----------------------------------------------------------------------------
(* SkylightSparseMetadataBuilder: build and _patch_indices_for_staging *)

\* Rows of one token that continue a request.  Nothing is computed of a new or
\* resumed request: its row is a first chunk.
DecodeRows == {q \in Scheduled : sched[q] = 1 /\ kind[q] = "cached"}

\* reorder_batch_to_split_decodes_and_prefills: decode, short extend, long extend,
\* first chunk; any order within a region.
Region(q) ==
    CASE kind[q] # "cached" -> 3
      [] q \in DecodeRows -> IF computed[q] >= PromptLen[q] THEN 0 ELSE 1
      [] OTHER -> 2

RowOrders == {rows \in Orders(Scheduled) :
                \A a, b \in DOMAIN rows : a < b => Region(rows[a]) <= Region(rows[b])}

\* split_decodes_and_prefills: the rows before the first of several tokens.
NumDecodes(rows) ==
    CHOOSE n \in 0 .. Len(rows) :
        /\ \A a \in 1 .. n : sched[rows[a]] = 1
        /\ n < Len(rows) => sched[rows[n + 1]] > 1

\* Mutant: the scheduler's order of ids is taken for the order of the rows.
PatchIdsOfScheduler(rows) == ids

\* The ids the patch uses, given the rows: the decode rows of this step, or
\* whatever was cached when there are none.
PatchIds(rows) ==
    IF NumDecodes(rows) = 0 THEN ids
    ELSE SubSeq(rows, 1, NumDecodes(rows))

Tracked(q) == {ref \in Refs : ref[1] = q /\ loc[ref].res # "none"}

Aligned(rows, patchIds) ==
    /\ patchIds # <<>>
    /\ Len(patchIds) <= Len(rows)
    /\ \A b \in DOMAIN patchIds :
        /\ Tracked(patchIds[b]) # {}
        /\ Cardinality(Tracked(patchIds[b])) = Len(rowTable[rows[b]])

\* The 1-step-lag prefetch: the pattern cached by the last step may need any
\* block of these requests; no pattern, or a closed gate: nothing is fetched.
Prefetch(patchIds) ==
    \/ \E needed \in SUBSET {ref \in RefsAt("cpu") : ref[1] \in Entries(patchIds)} :
         PrepareStaging(needed)
    \/ UNCHANGED vars

\* (a bail for want of ids does not get as far as the prefetch)
BuildAndPatch ==
    /\ pc = "patch"
    /\ \E rows \in RowOrders :
         LET use == PatchIds(rows)
         IN  /\ ids' = use
             /\ IF use = <<>> \/ Len(use) > Len(rows)
                    THEN UNCHANGED vars ELSE Prefetch(use)
             /\ IF Aligned(rows, use)
                    THEN /\ rowIds' = [q \in Requests |->
                                IF \E b \in DOMAIN use : rows[b] = q
                                    THEN use[CHOOSE b \in DOMAIN use : rows[b] = q]
                                    ELSE None]
                         /\ pc' = "run"
                    ELSE /\ rowIds' = [q \in Requests |-> None]
                         /\ pc' = IF NumDecodes(rows) > 0 /\ trueFree /\ numCpu' > 0
                                    THEN "crashed" ELSE "run"
    /\ UNCHANGED <<vllmVars, connVars, meta, cur, ret, todo>>

\* The prefetch raises: re-raised under true freeing (the step's CPU blocks
\* are still there), else the indices stay as they are.
PatchRaises ==
    /\ pc = "patch"
    /\ \E rows \in RowOrders :
         LET use == PatchIds(rows)
         IN  /\ use # <<>> /\ Len(use) <= Len(rows)
             /\ ids' = use
             /\ \E needed \in SUBSET {ref \in RefsAt("cpu") : ref[1] \in Entries(use)} :
                  PrepareStagingRaises(needed)
    /\ rowIds' = [q \in Requests |-> None]
    /\ pc' = IF trueFree /\ numCpu' > 0 THEN "crashed" ELSE "run"
    /\ UNCHANGED <<vllmVars, connVars, meta, cur, ret, todo>>

-----------------------------------------------------------------------------
(* The forward pass and its report *)

\* Mutant: the null page also stands for cold blocks whose page is not freed.
EntryContentAlwaysNull(q, i) ==
    LET by == rowIds[q]
        l == loc[<<by, i>>]
    IN  IF by # None /\ l.res = "cpu" THEN kv[NullPage]
        ELSE IF by # None /\ l.res = "staging" THEN stage[l.stg]
        ELSE kv[rowTable[q][i + 1]]

\* What entry i of row q of the patched index array holds.  A layer writes
\* the rows of the step before its attention reads: see pc = "attended".
EntryContent(q, i) ==
    LET by == rowIds[q]
        l == loc[<<by, i>>]
        original == kv[rowTable[q][i + 1]]
    IN  IF by = None THEN original
        ELSE CASE l.res = "staging" -> stage[l.stg]
               [] l.res = "cpu" -> IF trueFree THEN kv[NullPage] ELSE original
               [] OTHER -> original

\* The kernels append the step's rows; a page holds its block once it is full.
Written(q) ==
    {i \in 0 .. Len(rowTable[q]) - 1 :
        (i + 1) * PageSize > computed[q] /\ i * PageSize < computed[q] + sched[q]}

\* bind_connector_metadata, after the builder has run: the ids of the step are
\* there for the next one; an empty list leaves the old ones.
BoundIds == IF meta = <<>> THEN ids ELSE meta

Run ==
    /\ pc = "run"
    /\ ids' = BoundIds /\ meta' = <<>>
    /\ kv' = [p \in Pages |->
         IF \E q \in Scheduled : \E i \in Written(q) : rowTable[q][i + 1] = p
            THEN LET q == CHOOSE q \in Scheduled :
                            \E i \in Written(q) : rowTable[q][i + 1] = p
                     i == CHOOSE i \in Written(q) : rowTable[q][i + 1] = p
                 IN  IF Filled(i, computed[q] + sched[q]) THEN <<q, i>> ELSE Garbage
            ELSE kv[p]]
    /\ GpuWrite
    /\ computed' = [q \in Requests |-> computed[q] + sched[q]]
    /\ total' = [q \in Requests |->
                    IF q \in Scheduled /\ computed'[q] = total[q]
                          /\ total[q] < PromptLen[q] + MaxNew
                        THEN total[q] + 1 ELSE total[q]]
    /\ pc' = "attended"
    /\ UNCHANGED <<status, table, rowTable, sched, kind, fresh, preempts, connVars, rowIds,
                   cur, ret, todo>>

\* _process_store_completion: the table entry of an offloaded page becomes the
\* null block, unless the request is gone or the entry is another page.
Surgery(done) ==
    LET hit(q, i) == \E e \in done : e.ref = <<q, i - 1>> /\ table[q][i] = e.page
    IN  /\ table' = [q \in Requests |-> [i \in DOMAIN table[q] |->
                        IF hit(q, i) THEN NullPage ELSE table[q][i]]]
        /\ reqTable' = [q \in Requests |-> [i \in DOMAIN reqTable[q] |->
                        IF i \in DOMAIN table[q] /\ hit(q, i)
                            THEN NullPage ELSE reqTable[q][i]]]

\* get_finished, update_connector_output: the oldest k events have completed.
Report(k) ==
    /\ pc \in {"attended", "report"}
    /\ pending' = SubSeq(pending, k + 1, Len(pending))
    /\ IF trueFree THEN Surgery(UNION {pending[j] : j \in 1 .. k})
       ELSE UNCHANGED <<table, reqTable>>
    /\ sched' = [q \in Requests |-> 0]
    /\ kind' = [q \in Requests |-> "no"]
    /\ fresh' = [q \in Requests |-> 0]
    /\ rowIds' = [q \in Requests |-> None]
    /\ pc' = "sched"
    /\ UNCHANGED <<trueFree, skips, vars, status, rowTable, computed, total, preempts, known, prefillDone,
                   count, acc, ids, meta, cur, ret, todo>>

-----------------------------------------------------------------------------
EngineNext ==
    \/ \E q \in Requests, n \in 1 .. MaxChunk : Schedule(q, n)
    \/ \E q \in Requests : Preempt(q)
    \/ \E q \in Requests : RequestFinished(q)
    \/ StartMeta
    \/ \E q \in Requests : MetaNew(q)
    \/ \E q \in Requests : MetaCached(q)
    \/ MetaPrefillDone
    \/ MetaPrefillNotDone
    \/ OnDecode
    \/ NotDecoding
    \/ Trigger
    \/ TriggerRaises
    \/ MetaListDone
    \/ \E q \in Requests : Promote(q)
    \/ \E q \in Requests : PromoteAborts(q)
    \/ Flush
    \/ BuildAndPatch
    \/ PatchRaises
    \/ Run
    \/ \E k \in 0 .. Len(pending) : Report(k)

EngineSpec == EngineInit /\ [][EngineNext]_allVars

-----------------------------------------------------------------------------
(* Properties *)

\* Every variable of the engine has its type.
EngineTypeOK ==
    /\ TypeOK
    /\ status \in [Requests -> {"waiting", "running", "preempted", "finished"}]
    /\ \A q \in Requests : \A t \in {table[q], rowTable[q], reqTable[q]} :
          Len(t) <= MaxBlocks /\ Entries(t) \subseteq Pages
    /\ \A q \in Requests : computed[q] \in 0 .. total[q] /\ total[q] \in 0 .. MaxTokens
    /\ \A q \in Requests : sched[q] \in 0 .. MaxChunk /\ fresh[q] \in 0 .. MaxBlocks
    /\ kind \in [Requests -> {"no", "new", "cached", "resumed"}]
    /\ trueFree \in TrueFreeModes
    /\ prefillDone \subseteq known /\ known \subseteq Requests
    /\ \A q \in Requests : count[q] \in Nat
    /\ preempts \in 0 .. MaxPreempt /\ skips \in 0 .. MaxSkips
    /\ \A e \in InFlight : e.ref \in Refs /\ e.page \in Pages
    /\ Entries(ids) \cup Entries(meta) \subseteq Requests
    /\ rowIds \in [Requests -> Requests \cup {None}]
    /\ pc \in {"sched", "meta", "prefill", "decode", "trigger", "promote", "patch",
                "run", "attended", "report", "crashed"}
    /\ ret \in {"meta", "decode"} /\ cur \in Requests \cup {None} /\ todo \subseteq Requests

\* What row q reads for its full block i: its own rows, or the null page in
\* place of a cold block that is not staged.
MaskedToNull(q, i) == rowIds[q] # None /\ loc[<<rowIds[q], i>>].res = "cpu" /\ trueFree
ReadsOwn(q) ==
    \A i \in 0 .. Len(rowTable[q]) - 1 :
        Filled(i, computed[q]) => MaskedToNull(q, i) \/ EntryContent(q, i) = <<q, i>>

\* A decode row never reads a page that was freed, handed to another request
\* or staged for another block (selection/adapter.py:69-73, backend.py:501-505).
DecodeReadsOwn == pc = "attended" => \A q \in DecodeRows : ReadsOwn(q)

\* The same for every row of the batch, prefill chunks included.
AllRowsReadOwn == pc = "attended" => \A q \in Scheduled : ReadsOwn(q)

\* The CPU copy is the source of truth of an offloaded block
\* (integration/manager.py:73-76): it holds that block's rows.
OffloadedHoldsOwn == \A ref \in Frozen : View[ref] = ref

\* Between steps a block the table calls GPU-resident sits in its request's
\* block table on that page: the page is neither free nor anyone else's.
GpuBlockOwnsPage ==
    pc = "sched" =>
        \A ref \in RefsAt("gpu") :
            /\ ref[2] < Len(table[ref[1]])
            /\ table[ref[1]][ref[2] + 1] = loc[ref].page

\* Nothing outlives its request: once request_finished has run, no entry of
\* the residency table, and so no CPU or staging slot, is left under it.
NoOrphans ==
    \A ref \in Refs : status[ref[1]] = "finished" => loc[ref].res = "none"

\* An offloaded page is on its way back to the pool or already there: with
\* true freeing an off-GPU block either waits in a store event or has the null
\* block in its request's table.
OffloadedPageReclaimed ==
    trueFree /\ pc = "sched" =>
        \A ref \in Frozen :
            \/ \E e \in InFlight : e.ref = ref
            \/ table[ref[1]][ref[2] + 1] = NullPage

\* controller.py:10: "No counter is advanced during prefill."
NoCountInPrefill ==
    [][\A q \in Requests : count'[q] > count[q] => computed[q] >= PromptLen[q]]_allVars

\* controller.py:10-11: "A request triggers an offload pass when its decode count
\* reaches a positive multiple of W."  The counter grows by the tokens of a step
\* and is tested with count % W = 0: a step that jumped over a multiple would
\* lose that pass.
WindowNeverSkipped ==
    [][\A q \in Requests :
         count'[q] > count[q] /\ count'[q] \div Window > count[q] \div Window
            => pc' = "trigger"]_allVars

\* The engine only ever changes the tables through their operations: it
\* implements the specification of KVOffload.
UsesTables == Spec

=============================================================================
