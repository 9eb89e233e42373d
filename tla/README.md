# KV offloading, verified

TLA+ models of the score-based KV-cache offloading in `offload_package`, of the
parts of `skylight` and of the vendored vLLM it works with (metadata builder and
slot summaries, page pool with prefix cache, persistent batch), and of the
resumable benchmark sweep; the TLC runs that check them on small instances, and
TLAPS proofs about the tables, the engine, the store events, the page pool, the
slot summaries and the sweep for every instance.

The system in one paragraph. vLLM keeps the keys and values of a request in
pages of a GPU pool; page `i` of a request is its *logical block* `<<request,
i>>`. When a request leaves prefill, and again whenever its decode count is a
multiple of `W`, the scheduler connector scores all full blocks and moves the
lowest-scored fraction to a CPU cache. With *true freeing* the GPU pages then go
back to vLLM's pool. A block that is needed again is fetched into a few *staging*
pages at the end of the pool. Before each forward pass the Skylight metadata
builder rewrites the page indices of the decode rows so that kernels read the
staged copy, or the null page, and never a page that was given away.

## Inventory

| part | state | operations | interacts through |
|---|---|---|---|
| residency table (`staging/residency.py`) | where each block lives, its page and slots, completeness; counters | `mark_gpu/cpu/staging/complete`, `remove`, queries | read and written by everything below |
| offload manager, CPU pool (`offload/manager.py`) | free CPU slots, CPU cache | `offload_fraction`, `maybe_offload`, batch copy, `free` | called by orchestrator and scheduler connector |
| staging pool (`staging/pool.py`) | free staging slots, occupancy LRU | `ensure_resident`, `release` | called by orchestrator and the in-run fetch |
| orchestrator (`integration/manager.py`) | blocks listed per request, scored set, prefetch gate | `sync_request_blocks`, `on_prefill_complete`, `on_decode_step`, `prepare_staging`, `promote_hot_cpu_blocks`, cleanup | called by both connectors and the builder |
| decode counter (`controller.py`) | tokens decoded per request | `on_prefill_complete`, `on_decode`, `remove` | called by the scheduler connector |
| scheduler connector (`integration/scheduler_connector.py`, `connector.py`) | block tables, prefill set, store batches and events, shadow CPU pool | `build_connector_meta`, `_trigger_global_offload`, `update_connector_output`, `request_finished` | callbacks of vLLM's scheduler; metadata to the worker |
| worker connector (`integration/worker_connector.py`, `metadata.py`) | queued CUDA events, watermark, completed events | `bind_connector_metadata`, `wait_for_save`, `get_finished`, `build_worker_meta` | callbacks of vLLM's model runner; reports to the scheduler |
| Skylight builder (`skylight/backend.py`, `selection/adapter.py`) | request ids and sparse pattern of the last step | `build`, `_patch_indices_for_staging` | reads the residency table, calls `prepare_staging` |
| scorers (`scoring/*.py`) | score per block | `update`, `scores`, `select_for_eviction`, `forget` | called by manager and staging pool |
| sizing (`cache_allocator.py`, `connector.py:44-67`) | reserved tail | tail reservation, automatic size | start-up; takes pages out of the page pool |
| page pool (vLLM `block_pool.py`, `kv_cache_manager.py`, `single_type_kv_cache_manager.py`) | `ref_cnt`, free queue, block hashes, hash map; table and cached count per request | `touch`, `get_new_blocks`, `free_blocks`, `cache_full_blocks`, eviction, reset, `allocate_slots`, `free` | the scheduler allocates; the connector reads `ref_cnt`, evicts and frees |
| persistent batch (vLLM `gpu_input_batch.py`, `gpu_model_runner.py`) | request at each position | `remove_request`, `add_request`, `condense`, reorder | decides the slot of a row |
| slot summaries (`skylight/backend.py:674-741`) | codes, owner page and length per slot | `_sk_fill_slots`, append | reads the runner's block table and the KV pages |
| density sweep (`bench/density_sweep.py`, `bench/run_serving.py`) | files of each case, manifest, summary; a server | `run_sweep`, archive, resume, `ServingSession` | files shared by successive runs and by the client |

What is hard. Everything runs in one thread, but a step is a long sequence of
calls that each change shared tables, any of which may raise half-way (the
connector swallows the exception and the step goes on); a store is completed
steps after it was triggered, when its request may be finished or preempted and
its page in other hands; row order, scheduler order and cached order of requests
differ; batches meet the limits of three pools. Pages are shared through the
prefix cache and named by tables that preemption and surgery change at different
times; slots are positions in a batch that is condensed and reordered. The sweep
is the one part that survives crashes, by files alone. `PROJECT.json` lists these
hazards line by line with the properties that cover them.

What makes each part correct: no slot leaks or is handed out twice, and the
tables agree with each other (tables, pools); an offloaded block keeps its value
(orchestrator); a block the table calls GPU-resident owns its page, nothing
survives its request, an offloaded page is reclaimed (scheduler connector);
every event completes, after all workers (worker connector); a row reads its own
blocks (builder); counters move only in decode and skip no window (controller);
references, tables and free queue agree and no lookup finds a dead page (page
pool); a row is scored with its own codes (slot summaries); completed results are
kept, of one attempt and one version (sweep).

## Modules

| module | models |
|---|---|
| `KVOffload` | the tables and every operation on them |
| `BlockStore` | abstract: what the tables promise about a block |
| `OffloadEngine` | one engine: vLLM's scheduler and runner, both connectors, the builder, on top of `KVOffload` |
| `StoreEvents` | a store event from flush to completion, with several workers |
| `PagePool` | vLLM's page pool with prefix caching, and what the connector does to it |
| `SlotSummary` | slot summaries of the builder over the persistent batch |
| `DensitySweep` | the resumable sweep and its serving session |
| `KVOffload_proofs`, `BlockStore_proofs`, `OffloadEngine_proofs`, `StoreEvents_proofs`, `PagePool_proofs`, `SlotSummary_proofs`, `DensitySweep_proofs` | theorems |
| `SequenceLemmas` | lemmas on sequences and on least elements that several proofs use |
| `MCKVOffload`, `MCOffloadEngine`, `MCPagePool`, `MCSlotSummary`, `MCDensitySweep` | model values, symmetries and prompt lengths for TLC |

**KVOffload.** `loc` is the residency table (`res = "none"`: no entry), `tracked`
the length of `_request_blocks[q]`, `lru` the occupancy LRU as a map from blocks
to slots. `numCpu` is the incremental counter; of the version pair only
`lagArmed` (the versions differ) matters. `staged` is the map the last
`ensure_resident` call returned. `kv`, `cpuMem` and `stage` hold page contents.
One action per public operation. A failing copy is an alternative of the
operation that makes it, with the effects the `except` clause leaves and `Torn`
content where the copy may have written. Free lists are sets: any free slot may
be popped, a superset of the stack discipline of the code. Scores are left open:
any choice of the size the code computes may be evicted or promoted, so the
results hold for every scorer. The copies are synchronised before the tables
are published (`event.synchronize()`), so a batch is one step. `OnDecodeStep`
and `MaybeOffload` are public operations the connector does not use.

**OffloadEngine.** `pc` walks through one engine step in the order of the code:
`sched` (vLLM plans: schedule, preempt, abort), `meta`/`prefill`/`decode`/
`trigger`/`promote` (the sections of `build_connector_meta`), `patch` (the
builder), `run` (the kernels write), `attended` (they have read), `report`
(finished requests, completed stores). The content of a page is the block whose
rows it holds, or `Garbage`; `Run` decides it from the token counts. `table` is
the scheduler's block table, `rowTable` the model runner's: surgery changes the
first and not the second, which is why patching is needed at all. Rows are
ordered by the four regions of `reorder_batch_to_split_decodes_and_prefills`
(`Region`, `RowOrders`); `NumDecodes` counts the leading one-token rows, as
`split_decodes_and_prefills` does, and `PatchIds` takes those rows. The ids the
scheduler sends (`meta`) are bound only after the builder has run (`BoundIds`), so a
step without decode rows patches with ids of an earlier step. `trueFree` is
the mode of the engine, chosen at start-up from `TrueFreeModes`. `crashed` is the state after the fail-loud
guard or a re-raised fetch; the engine may stop there, so these runs do not
check deadlock. An exception in a trigger (`TriggerRaises`) ends
`build_connector_meta`: the requests not yet listed miss their sync for good.
`skips` counts the steps in which that happened to some request, up to
`MaxSkips`; with `MaxSkips = 0` a trigger may still raise, but only in the handling of
the last request of a step. The shadow CPU pool appears only as a number (`ShadowFree`): one
less than the slots, for its null block.

**StoreEvents.** Workers execute steps in order and at their own pace, the
scheduler is at most `Depth` steps ahead (1: synchronous scheduling; 2:
asynchronous). CUDA events fire in stream order. A step without tokens calls no
`wait_for_save` (`kv_connector_no_forward` of vLLM). The counting is written for
`world_size` workers and checked with two; true freeing itself is limited to one
by the connector, and `v_lost_event` uses that configuration.

**PagePool.** `OffloadEngine` gives every page one owner; this module has the
shared pages. `pool` is the `BlockPool` record: `ref`, `free` (the queue, whose
order decides which cached prefix is lost first), `hash`, and `cache`, the pages
found under a key in the order they were inserted. The key of a block is its
chained hash, so equal keys mean equal prefixes (`PoolAssumption`). The content
of a page is the key of the block it holds. `AllocateSlots` is `allocate_slots`
for one full-attention group: touch the hits, take new pages, cache what is full
at the end of the step, before the rows are written. The connector part keeps
its mirror of the block tables (`reqTable`, which grows by the blocks a step lists as
new, `unseen`), the set `_prefill_completed` (never left by preemption), where a
block is (`loc`), whether it is marked complete (a mark that
survives preemption), its CPU copy and the store batches on their way (`acc`,
`fresh`, `old`); which of the allowed blocks are offloaded is open. `TriggerRaises` is
an offload pass or promotion that raises: blocks may have left the GPU without a
store batch, and the requests still to be listed miss their sync. How full the shadow
CPU pool is does not matter there: any pass may raise. `harmed` is a ghost: the
requests that were preempted, or that got blocks in such a step before their sync.
`MaxMishaps` bounds preemptions and raising steps together; a request may be
preempted again. The mirror of a harmed request may
grow past its table; `SyncTable` bounds it by the keys of the request. The null block's own `ref_cnt`, which falls with every free and is never
read, is left out. `free_blocks` takes one reference for each time a page is
listed: the same page is listed twice when the stale entry of a preempted request
and a live entry of another were offloaded together and the first request has
since found the page in the prefix cache again. `FreeBlocks` says this with counts:
a page is idle at the entry that takes its last reference, and `At` lists the idle
entries in their order, those without a hash in front of the queue, the others
behind it.

**SlotSummary.** The code of a token is the block its page belonged to when the
code was computed. `batch` is rebuilt each step by the operators of vLLM's runner
(remove, add, condense, reorder); `FillSlots` is `_sk_fill_slots` followed by the
append of the forward pass. `given` holds the blocks whose pages the scheduler
has freed while the runner's row still names them. A resumed request
computes all its tokens again, the one sampled last included (`Upto`). The ghosts `occupant` and
`excuse` record the two cases the code does not detect: `inherited`, a slot taken
over by a request with the same first page at the same or the next length, and
`lossy`, a slot rebuilt from freed pages.

**DensitySweep.** A file is the attempt and version that wrote it and a verdict.
One action per file operation, so that `Kill` may come between any two of them;
`os.replace` makes each JSON write atomic. `Raises` is an exception of the archive, a
write or the summary, which ends the group. A killed runner may leave a client
behind, which later writes `result.json`; cases to which that happened are in
`disturbed` and excused from three properties, because nothing in the code tells
the writers apart. The server of a killed runner has a port of its own. `todo`
is the set of cases left in the group; they run in the order of `CasesOf`, whose
sequences list each case once: the configuration's concurrencies are checked to
be unique (`density_sweep.py:382`).

## Runs

| run | shows | bounds |
|---|---|---|
| `tables` | slot conservation, agreement of LRU, table and counters, faithful staged copies; `KVOffload` implements `BlockStore` | 3 blocks, 2 pages, 2 CPU slots, 1 staging slot, 2 contents: enough for eviction, a skipped ref, an exhausted CPU pool and more full blocks than the GPU budget |
| `engine` | with and without true freeing: decode rows read their own blocks; offloaded blocks hold their own rows; GPU entries own their pages; nothing outlives its request; no counting in prefill; a decode step that passes a multiple of `W` triggers an offload | 2 requests, prompts of 2 and 3 tokens, 2 tokens sampled by each, pages of 2 tokens (so blocks are offloaded beside a half-filled tail), 4 pages for up to 5 blocks, chunks of 2, 3 CPU slots, 1 staging slot, no preemption, no skipped sync |
| `preemption` | with a preemption and a request left unsynced, every engine step is a step of `KVOffload` | 2 requests with 1-token prompts, 3 pages, 1 preemption, 1 skipped sync |
| `store_events` | shadow blocks conserved, completion only after all workers and in order, every recorded event completes | 2 workers, 2 shadow blocks, 3 events, depth 2, 1 raising step |
| `prefix_pool` | references, tables and free queue agree; no lookup and no table names a dead page; copies hold their own rows unless their request was preempted or missed a sync; the tail stays reserved; uncached pages are reused first | 2 requests that share their first block, 3 allocatable pages (2 with a tail) for up to 5 blocks, pages of 2 tokens, prompts of 2 and 4, 1 sampled token each, chunks up to 3, 2 mishaps (preemptions or raising passes); staging sizes 0, 1, too large and automatic. 2.5 million states: the other runs are smaller |
| `slot_summaries` | rows are scored with their own codes; steady rows keep them | 3 requests, 2 slots, 4 pages of 2 tokens, prompts of 2 and lengths up to 4, 1 preemption, 1 block freed at a time |
| `sweep` | results kept, one attempt, one version, no tainted server, the summary stays true, the sweep completes | 2 groups, 3 cases in all, 2 versions, 2 faults |

The exact constants are in the `.cfg` files. Symmetry is used in `tables`, the engine
runs and `slot_summaries`: for pages and slots (they are only compared), and for
requests where their prompts have equal length; in `prefix_pool` the order of the free
queue tells pages apart, and no run with a liveness property has any.

`RecordedEventCompletes` and `EveryEventCompletes` assume weak fairness of the engine loop, of the
processing of outputs, of each worker and of its stream: vLLM steps while it has
requests (or finished ones to deliver), workers execute every step they are
sent, and work on a CUDA stream completes. When the server goes idle the last
completions wait for the next request; the property is about a server that keeps
stepping. `SweepCompletes` assumes that a live runner goes on (each of its waits
has a deadline: `wait_for_health`, the client's timeout, the grace period of
`terminate_group`) and that the operator starts the same sweep again after an
exit or a kill; faults are finite by `MaxFaults`. The other runs assume no
fairness.

### Violations

Each of these runs states what a comment or document says and finds a behaviour
of the code that contradicts it; the quotes are in `PROJECT.json`.

* `v_lost_page` - the shadow pool is one block short of the CPU pool;
  `get_new_blocks` raises after the residency changed, and those pages are never
  reclaimed.
* `v_preempt_truth` - preemption is not wired to the orchestrator: entries
  survive, and a CPU copy may hold another request's rows.  (For the same reason
  `NoCountInPrefill` holds only with `MaxPreempt = 0`: recomputed prompt tokens
  are counted as decode tokens. `NoOrphans` fails on the `preemption` instance: the
  entries beyond the shorter table of a resumed request are left behind.
  `CopiesHoldOwn` excuses requests that were preempted.)
* `v_prefill_rows` - prefill rows are not patched, or are patched with the ids of
  an earlier step.
* `v_lost_event` - batches left by a raising step and flushed in a step without
  tokens make an event that never completes.
* `v_freed_summary` - a slot is rebuilt from freed and overwritten pages when its
  row moves, so offloaded blocks are scored by other requests' keys.

### Skipped syncs

The attempt to prove `GpuBlockOwnsPage` for every instance met a behaviour that has
no run of its own. A trigger raises (`scheduler_connector.py:468`) while requests of
the step are still to be synced. The block that vLLM gave such a request in this
step never enters `_req_block_table`, which grows by `new_block_ids` only
(`scheduler_connector.py:298`), and its later blocks are filed one index too low,
under another block's page; the comment there says the list mirrors "the model
runner's block-table update". TLC shows it with the constants of `v_lost_page` and
`MaxSkips = 1`, `TrueFreeModes = {FALSE}`, 4 blocks and tokens, 6 pages besides
`nul`, 2 CPU slots, no staging slot, `PromotePerStep = 0`, prompts of 1 and
`MaxNew = 3`: `GpuBlockOwnsPage` fails after 41 steps. The `engine` run and the theorems
about contents therefore state `MaxSkips = 0`. `PagePool` has the same step
(`TriggerRaises`): there `CopiesHoldOwn` is checked and proved with it, for all requests but
those that missed the sync of new blocks themselves.

## Proofs

`KVOffload_proofs` proves, for every choice of the constants that satisfies
`ConstantsAssumption` (finitely many requests; the rest are ranges the code
checks), the type invariant and the safety invariants the `tables` run checks.
None of them is inductive alone: the slot equations need the LRU to agree with
the table, the agreement needs that a staged block has a CPU slot, the counter
needs the set of CPU blocks to be finite, and cleanup needs the slots it frees
to belong to no other block. `IInv` is the conjunction of `TypeOK`,
`CpuSlotsConserved`, `StagingSlotsConserved`, `LruMatchesResidency`,
`BackedByCpu`, `CpuCountExact` and `StagedCopyMatches`.
Per-operation lemmas (`MarkCpu`, `StoreBatch`, `StageBatch`, ... ) carry the
set and cardinality arguments; `TablesInvariant` combines them, one step per
action, and the named theorems follow. `StagedMapSound` is proved under
`~MixedFetch`: the callers in this repository pass CPU refs only. Called with
staged and CPU blocks together, `ensure_resident` may return a block that it
evicted in the same call (set `MixedFetch = TRUE` in `tables.cfg` to see it).

`BlockStore_proofs` proves `TablesImplementBlockStore`: initial states map to
initial states and, given `IInv`, every action maps to `Rewrite`, `Freeze`,
`Drop` or a stutter under `View` and `Frozen`. The step that needs the
invariant is staging: eviction returns a block to its CPU slot, which holds the
same value because `StagedCopyMatches` is part of `IInv`.

`OffloadEngine_proofs` is in two layers.

*Whatever happens* - preemptions, aborts, exceptions, skipped syncs. `EngineInv` is
`IInv`, the types of the engine's variables (`EngineTyped`) and, for each request,
what vLLM has booked (`Booked`): a live request holds just the pages that its computed
and scheduled tokens need, a finished one none, and nobody computes more tokens
than it knows. The calls the engine makes are then calls `KVOffload` allows: a
synced table has at most `MaxBlocks` pages, token counts are within bounds,
candidates are complete GPU blocks (`TablesStep`). So the engine implements the
specification of the tables (`EngineUsesTables`), the table theorems hold in it
(`EngineKeepsTables`), and every variable keeps its type (`EngineTypeCorrect`).

*Without preemptions and skipped syncs* (`MaxPreempt = 0`, `MaxSkips = 0`: hypotheses
of the theorems, which are false otherwise: `v_preempt_truth` and the instance under
"Skipped syncs" show it). `ContentInv` ties together the three block tables, the residency
table and what the pages hold:
`Mirrored` (the connector's table is vLLM's, but for pages not yet synced),
`Listed` (the residency table knows the blocks of the connector's table and no
others), `OwnPages`, `NullMeansFreed` (a null entry stands for an offloaded block;
elsewhere the runner's row agrees with the table), `OneOwner`, `CompleteIsFull`,
`PagesHoldOwn`, `OffloadedHoldsOwn`, `InFlightOffloaded` (a store in flight of a
live request is of an offloaded block, which is what makes surgery safe),
`RowsPatchedByOwn` and `Decoding` (a decoding request knows at most one token it
has not computed). The steps that need most of it at once are `Report`, where
surgery may null an entry only because the page it names still belongs to the
same offloaded block; `Run`, which overwrites pages and must spare every full
block, on whatever page (`RunWritesOwn`); and the patch, where the alignment
check of `_patch_indices_for_staging` succeeds because the tracked blocks are as many
as the row's pages (`TrackedCount`, a cardinality argument) and decode rows come
first (`DecodeRowsFirst`): regions 0 and 1 are exactly the one-token rows that continue a
request, region 3 holds the first chunks, so the leading one-token rows start with all
decode rows (`NumDecodesForm`). From it follow `GpuBlockOwnsPage`, `NoOrphans`,
`OffloadedHoldsOwn` and `DecodeReadsOwn`. `NoCountInPrefill` and
`WindowNeverSkipped` need `Decoding` only, so `MaxPreempt = 0` alone. Both parts of
the invariant were checked by TLC on the `engine` instance before they were proved.

`StoreEvents_proofs` proves the four invariants of the `store_events` run for any
number of workers, shadow blocks, events, raising steps and steps in flight. Its
invariant follows an event on each worker through inbox, queue and outbox. Each
queue is sorted and lies above the high-water mark (`QueueOrdered`,
`InboxOrdered`, `OutboxOrdered`); this is what lets `_poll_events` compare numbers,
and gives `CompletedInOrder`. All workers are sent the same metadata
(`SameMetadata`). The count of an event is the number of workers whose report was
processed, and is reset when all are (`CountsExact`): `CompletedFiredEverywhere`
follows, and with it conservation, since blocks are freed once.

`DensitySweep_proofs` proves the type invariant and the five safety properties of
the `sweep` run for any groups, cases, versions and faults. The invariant follows
the runner through its file operations: what is on disk at each `pc` is of one
attempt and of the manifest's version (`FilesOK`, `CaseOK`), what was moved away
is of earlier attempts, and cases still to run have no row in the summary
(`TodoOK`). An exception (`Raises`) or a kill may come at any of these points.

`SlotSummary_proofs` proves the three properties of the `slot_summaries` run for any
number of requests, pages and slots, any page size and prompts (`SlotAssumption`).
Two arguments are combined. The first is about the persistent batch and uses no
state: `RemoveRows`, `AddRows`, `CondenseRows` and `ReorderRows` say which rows each
operator leaves and that none is there twice, and `UpdateRows` composes them: after
`_update_states` the batch lists the rows of the step once each, the decode rows in
front. What makes the last two true is counting: `condense` has as many rows behind
the end as holes before it, and as many decode rows are misplaced as other rows.
The second is the invariant `SlotInv`: the types, with the batch free of
repetitions; `TablesFit` (a running request has the blocks of its tokens);
`PagesHoldOwn` (a page that was not given away holds the block it was allocated for,
since only pages nobody holds are taken); `SlotsHoldOwn` (a slot without an excuse holds
the codes of its occupant up to the recorded length, even while the occupant is
elsewhere); and `RowsInSlots` (the slots of the last decode rows carry their row's
length and first page). `CodesAreOwn` alone is not inductive: a row that comes back
to a slot it left is trusted on its first page and length, so the codes must
be known to be its own for as long as it is away. `SlotFilled` is the central lemma:
when `_sk_fill_slots` sees no change the old codes are good up to the new token, and
when it does the pages it reads hold the row's own blocks. TLC checked `SlotInv` on the
`slot_summaries` instance first. The two excused cases stay in the
statement because the code does not detect them (`v_freed_summary`).

`PagePool_proofs` proves the seven properties of the `prefix_pool` run for any pool,
any finite set of requests, any page size, any sharing of prefixes that the chained
keys allow (`PoolAssumption`) and any number of preemptions and raising steps
(`MaxMishaps`). All of them follow from
one inductive invariant, `PoolInv`:

* `PoolTyped` and `Booked` (a request that is not running has no pages and no
  tokens, a running one has pages for the tokens of its step);
* `QueueInv`: `Counted` (a reference for each table entry, and one for the tail) and
  `Queued` (the queue lists the pages without references once, those without a hash
  first);
* `HashInv`: `TailApart`; `CacheMarked` (what the map has under a key carries that
  key); `Shared` (two blocks on one page have one key, and the step leaves the block
  full); `Hashed` (the hash of a page in a table is the key of the block it holds);
* `ContentInv`: what the map finds and every full block of a table is `Good`: the page
  has the rows of the key, or a holder of the page writes them in the present step.
  `cache_full_blocks` gives a page its hash before its rows are written, so neither
  `CacheSound` nor `TablesHoldOwn` holds at every `pc`, and neither is inductive
  without this weaker form;
* `ConnInv`: `NullMeansOffloaded`, `StoresListed` (a store on its way is of a block
  still listed as offloaded, unless its request has finished), `Located` (the page
  the residency table names is that of the block, and the mark is true, unless the
  request is harmed) and `CopiesHoldOwn`;
* `MirrorInv`: `Listed` (which blocks of a step the connector has still to see) and
  `Mirrored` (its mirror is the table but for those, unless the request is harmed).

Four arguments carry the proof. Freeing (`FreeBlocksFields`, `LetGoCounted`): the queue gets
exactly the pages whose last reference goes, each once, although a page may be listed
twice and the queue is built around the old one. Surgery (`SurgeryLetsGo`): the
entries that pass the check of the table are references the tables still hold, so
each one given back is one that `Counted` has. The forward pass (`RunKeeps`): a shared
page that is written gets, to its end, the rows of the key that all its holders
have, so a request that found the page in the cache in the same step reads its own. Allocation (`AllocateGrows`,
`GrownHolders`): every holder of a page after `allocate_slots` was one before, or
found the page under its own key, or is the only one of a page from the queue; the
hash, content and queue parts follow by these three cases. Preemptions and raising
steps need no hypothesis here: only `Mirrored`, `Located` and `CopiesHoldOwn` except harmed
requests, as the code does no better (`v_preempt_truth`, "Skipped syncs").

Where the code takes the first element with a property (the first event that has
not fired, the first case left), the proofs use the least element of a nonempty
set of naturals (`LeastElement` in `SequenceLemmas`) in place of an induction.

Only model-checked:

* liveness (`RecordedEventCompletes`, `SweepCompletes`), out of the prover's
  reach;
* what the engine keeps under preemption beyond `EngineInv`: the properties of contents
  are false there.

## Not modelled

* Tensor contents, kernels, score values; the sparse pattern (any subset of the
  CPU blocks of the rows may be prefetched); the in-run fetch lives in
  `skylight_kernels`, which is not in the repository, and appears as
  `FetchSelected` in `KVOffload` only.
* Section 3 of `build_connector_meta`: vLLM leaves at least one prompt token to
  compute, so a new request never satisfies its condition. The load-event
  bookkeeping: `_pending_load_events` is never filled.
* A request preempted in the step that had already scheduled it. Asynchronous
  scheduling in `PagePool`: with a store reported several steps late, a request
  that is preempted and gets the very same page back would pass the check of the
  surgery; the synchronous step reports too early for that.
* Shadow mode (no true freeing) with prefix sharing: the owner check is skipped
  there, so a page another request is about to write may be copied; the GPU page
  stays the one that is read.
* `PagePool` has no step without tokens: batches left by a raising step wait for the next
  step that has some.
* An exception of `score_blocks` inside `sync_request_blocks` (`integration/manager.py:107-110`): the marks
  and `_scored` are then changed and `_request_blocks` is not. In the reservation phase of
  `ensure_resident`, an exception of the scorer other than `RuntimeError` (`staging/pool.py:111-123`, `229`),
  which would leak the slots reserved so far.
* `SlotSummary`: a first page shared by two running requests (`backend.py:695-698`; pages
  are handed out one to one), chunked prefill and short extends
  (`utils.py:895-913`; a prefill is one step), and prompts whose first chunk is one token,
  which count as decode rows.
* `DensitySweep`: the archive moves the files it listed at its start
  (`density_sweep.py:769-773`); the model also moves one that an orphaned client writes meanwhile.
  Such a case is in `disturbed`.
* Prefix lookups beyond one full-attention group: sliding windows, Mamba, partial
  tail blocks, KV events, cache salts.
* `reset_prefix_cache` is modelled with its guard; with a reserved tail the guard
  is never true, so under offloading it always fails (and raises with
  `reset_running_requests`).
* Sizing: `Floor` stands for the constant 64. A pool of at most 64 pages makes
  start-up fail although the comment of `_auto_staging_slots_for` says "never crashes
  on small pools", and one of 65 leaves nothing to allocate; the model has both cases, no property
  asks for more.
* The sync-free variant of the slot summaries: it hands its pending list to a
  wrapper in `skylight_kernels`, which is not in the repository.
* `start_load_kv` of the worker, which returns at once when the builder is armed;
  the single-block copy path, which has no caller; warm-up requests, skipped on
  entry.
* Configuration parsing, legacy backends and adapters, plots and one-shot scripts.
* The rest of the vendored vLLM (about 99% of the lines in the repository: models,
  kernels, API server, other connectors). Offloading does not depend on it beyond
  the interfaces above; what is modelled of it is the page pool, the prefix cache and the
  persistent batch, because the offloading code changes or depends on their state.

## Plan

1. `Eviction`: `select_for_eviction`, promotion order and the LRU and random
   scorers as operators, checked against a reference over bounded score tables.
2. The in-run fetch between patch and run, and preemption of a scheduled request.
3. `PagePool` with asynchronous scheduling, where stores are reported several steps
   late, and what is left of its invariant then.
