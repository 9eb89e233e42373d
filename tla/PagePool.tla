------------------------------- MODULE PagePool -------------------------------
(***************************************************************************)
(* vLLM's pool of GPU pages with prefix caching (core/block_pool.py,          *)
(* core/kv_cache_manager.py, core/single_type_kv_cache_manager.py), and what  *)
(* the offloading connector does to it: the reservation of the staging tail   *)
(* at start-up (cache_allocator.py), the choice of pages to offload by their  *)
(* ref_cnt and the table surgery when a store has completed                   *)
(* (integration/scheduler_connector.py).  OffloadEngine gives every page one  *)
(* owner; here a page may be shared by all requests with the same prefix.     *)
(*                                                                           *)
(* The content of a page is the key (chained block hash) of the block whose   *)
(* rows it holds, or Garbage.  One step is sched -> meta -> run -> update ->  *)
(* sched.                                                                     *)
(* Scheduling is synchronous: a store triggered in one step is reported at    *)
(* the end of the next one at the latest.                                     *)
(***************************************************************************)
EXTENDS Integers, Sequences, FiniteSets

CONSTANTS
    Requests,
    NumPages,       \* num_gpu_blocks; page 0 is the null block
    Keys,
    KeyOf,          \* the keys of the blocks of each request
    PromptLen,      \* prompt tokens of each request
    MaxNew,         \* bound: sampled tokens of one request
    MaxChunk,       \* bound: tokens of one request in one step
    PageSize,
    FixedSlots,     \* values of num_staging_slots to explore ("fixed" policy)
    Estimates,      \* values of est to explore ("auto" policy)
    Floor,          \* the constant 64 of _auto_staging_slots_for
    FracPercent,    \* 100 * OFFLOAD_PACKAGE_STAGING_MAX_POOL_FRAC
    MaxMishaps,     \* bound: preemptions and raising steps in a behaviour
    NoKey, Garbage

Pages == 0 .. NumPages - 1
NullPage == 0
OnCpu == -1         \* the place of an offloaded block,
Nowhere == -2       \* and of one the residency table does not know
MaxTokens(q) == PromptLen[q] + MaxNew
Refs == UNION {{q} \X (1 .. Len(KeyOf[q])) : q \in Requests}

ASSUME PoolAssumption ==
    /\ IsFiniteSet(Requests) /\ PromptLen \in [Requests -> Nat \ {0}]
    /\ NumPages \in Nat \ {0} /\ PageSize \in Nat \ {0}
    /\ MaxNew \in Nat /\ MaxChunk \in Nat \ {0} /\ MaxMishaps \in Nat
    /\ FixedSlots \subseteq Nat /\ Estimates \subseteq Nat
    /\ Floor \in Nat /\ FracPercent \in 0 .. 100
    /\ NoKey \notin Keys /\ Garbage \notin Keys
    /\ \A q \in Requests :
          /\ KeyOf[q] \in Seq(Keys)
          /\ MaxTokens(q) <= Len(KeyOf[q]) * PageSize
    \* Keys are chained: equal keys have equal positions and equal prefixes.
    /\ \A r, s \in Refs :
          KeyOf[r[1]][r[2]] = KeyOf[s[1]][s[2]] =>
              /\ r[2] = s[2]
              /\ \A j \in 1 .. r[2] : KeyOf[r[1]][j] = KeyOf[s[1]][j]

VARIABLES
    pool,      \* BlockPool: ref_cnt, free_block_queue, block_hash, hash map
    kv,        \* content of each page
    tail,      \* _reserved_staging_ids
    status,    \* of a request: "waiting", "running", "preempted", "finished"
    table,     \* req_to_blocks
    nCached,   \* num_cached_block
    computed,  \* num_computed_tokens before this step
    total,     \* tokens known
    sched,     \* num_scheduled_tokens of this step
    unseen,    \* blocks the output of this step lists for a request that is not yet synced
    harmed,    \* requests that were preempted or whose new blocks were missed (ghost)
    mishaps,   \* preemptions and raising steps so far
    loc,       \* residency: page of a GPU-resident block, OnCpu or Nowhere
    complete,  \* residency: blocks marked complete; preemption leaves the mark
    reqTable,  \* _req_block_table; _request_blocks has as many blocks
    prefillDone, \* _prefill_completed
    copy,      \* content of the CPU copy of an offloaded block
    acc,       \* _step_store_acc
    fresh,     \* store batch of this step
    old,       \* store batch of the step before
    pc, todo

tableVars == <<status, table, nCached, computed, total, sched, unseen, harmed, mishaps>>
connVars == <<tail, loc, complete, reqTable, prefillDone, copy, acc, fresh, old>>
vars == <<pool, kv, tableVars, connVars, pc, todo>>

Entries(t) == {t[i] : i \in DOMAIN t}
BlocksFor(tokens) == (tokens + PageSize - 1) \div PageSize
Filled(i, tokens) == i * PageSize <= tokens
Larger(a, b) == IF a > b THEN a ELSE b
Smaller(a, b) == IF a < b THEN a ELSE b

\* The entries of a sequence at some of its places, in their order.
At(s, places) ==
    [k \in 1 .. Cardinality(places) |->
        s[CHOOSE i \in places : Cardinality({j \in places : j <= i}) = k]]
Without(s, S) == At(s, {i \in DOMAIN s : s[i] \notin S})

-----------------------------------------------------------------------------
(* BlockPool *)

\* Mutant: a touched page stays in the free queue.
TouchKeepsQueued(pl, S) ==
    [pl EXCEPT !.ref = [p \in Pages |-> pl.ref[p] + (IF p \in S THEN 1 ELSE 0)]]

\* touch: one more reference; a page without any leaves the free queue.
Touch(pl, S) ==
    [pl EXCEPT !.ref = [p \in Pages |-> pl.ref[p] + (IF p \in S THEN 1 ELSE 0)],
               !.free = Without(pl.free, S)]

\* _remove_cached_block_hashes, evict_blocks: no lookup finds these pages again.
Evict(pl, S) ==
    [pl EXCEPT !.hash = [p \in Pages |-> IF p \in S THEN NoKey ELSE pl.hash[p]],
               !.cache = [k \in Keys |-> Without(pl.cache[k], S)]]

\* Mutant: a page is handed out with the hash of its last owner.
GetNewBlocksKeepsHash(pl, n) ==
    [Touch(pl, {pl.free[i] : i \in 1 .. n}) EXCEPT !.free = SubSeq(pl.free, n + 1, Len(pl.free))]

\* get_new_blocks: the front of the queue, their hashes evicted.
GetNewBlocks(pl, n) ==
    LET got == {pl.free[i] : i \in 1 .. n}
    IN  [Touch(Evict(pl, got), got) EXCEPT !.free = SubSeq(pl.free, n + 1, Len(pl.free))]

\* free_blocks: one reference less for each time a page is listed; pages without
\* a hash are reused first.  (The ref_cnt of the null block also falls, but
\* nothing reads it: it is left out.)
FreeBlocks(pl, blocks) ==
    LET times(p, n) == Cardinality({i \in 1 .. n : blocks[i] = p})
        idle == {i \in DOMAIN blocks : /\ blocks[i] # NullPage
                                       /\ pl.ref[blocks[i]] = times(blocks[i], i)}
        first == At(blocks, {i \in idle : pl.hash[blocks[i]] = NoKey})
        last == At(blocks, {i \in idle : pl.hash[blocks[i]] # NoKey})
    IN  [pl EXCEPT !.ref = [p \in Pages |-> IF p = NullPage THEN pl.ref[p]
                                             ELSE pl.ref[p] - times(p, Len(blocks))],
                   !.free = first \o pl.free \o last]

\* cache_full_blocks: blocks from + 1 .. upto of table t of q get their keys.
CacheFullBlocks(pl, q, t, from, upto) ==
    LET new == {i \in from + 1 .. upto : t[i] # NullPage}
        page(k) == {t[i] : i \in {j \in new : KeyOf[q][j] = k}}
    IN  [pl EXCEPT
          !.hash = [p \in Pages |->
              IF \E i \in new : t[i] = p
                  THEN KeyOf[q][CHOOSE i \in new : t[i] = p] ELSE pl.hash[p]],
          !.cache = [k \in Keys |->
              IF page(k) = {} THEN pl.cache[k]
              ELSE Append(pl.cache[k], CHOOSE p \in page(k) : TRUE)]]

-----------------------------------------------------------------------------
(* Start-up *)

\* _auto_staging_slots_for, for an estimate of the hot set.
AutoStagingSlots(est) ==
    Larger(Floor, Smaller(est, Larger(1, (NumPages * FracPercent) \div 100)))

Init ==
    /\ pool = [ref |-> [p \in Pages |-> 0],
               free |-> [i \in 1 .. NumPages - 1 |-> i],
               hash |-> [p \in Pages |-> NoKey],
               cache |-> [k \in Keys |-> <<>>]]
    /\ kv = [p \in Pages |-> Garbage]
    /\ tail = {}
    /\ status = [q \in Requests |-> "waiting"]
    /\ table = [q \in Requests |-> <<>>]
    /\ nCached = [q \in Requests |-> 0]
    /\ computed = [q \in Requests |-> 0]
    /\ total = PromptLen
    /\ sched = [q \in Requests |-> 0]
    /\ unseen = [q \in Requests |-> 0]
    /\ harmed = {} /\ mishaps = 0
    /\ loc = [r \in Refs |-> Nowhere]
    /\ complete = {}
    /\ reqTable = [q \in Requests |-> <<>>]
    /\ prefillDone = {}
    /\ copy = [r \in Refs |-> Garbage]
    /\ acc = {} /\ fresh = {} /\ old = {}
    /\ pc = "start" /\ todo = {}

\* Mutant: the tail is recorded but its pages stay allocatable.
ReserveStagingTailUntouched(n) ==
    /\ tail' = NumPages - n .. NumPages - 1
    /\ UNCHANGED pool

\* reserve_staging_tail of a pool that is large enough.
ReserveStagingTail(n) ==
    /\ tail' = NumPages - n .. NumPages - 1
    /\ pool' = Touch(pool, tail')

\* bind_gpu_block_pool; ValueError: the engine does not come up.
BindGpuBlockPool ==
    /\ pc = "start"
    /\ \E n \in FixedSlots \cup {AutoStagingSlots(est) : est \in Estimates} :
         IF n >= NumPages
             THEN pc' = "failed" /\ UNCHANGED <<pool, tail>>
             ELSE pc' = "sched" /\ ReserveStagingTail(n)
    /\ UNCHANGED <<kv, tableVars, loc, complete, reqTable, prefillDone, copy, acc, fresh, old, todo>>

-----------------------------------------------------------------------------
(* The scheduler and the KV cache manager: pc = "sched" *)

\* find_longest_cache_hit: the last token is always left to compute.
Hits(q) ==
    LET limit == Smaller((total[q] - 1) \div PageSize, Len(KeyOf[q]))
        hit(n) == \A i \in 1 .. n : pool.cache[KeyOf[q][i]] # <<>>
        n == CHOOSE n \in 0 .. limit : hit(n) /\ (n < limit => ~hit(n + 1))
    IN  [i \in 1 .. n |-> Head(pool.cache[KeyOf[q][i]])]

\* allocate_slots: n tokens after the first done ones; hits are the cached
\* pages of a request that has no pages yet.
AllocateSlots(q, hits, done, n) ==
    LET need == Larger(0, BlocksFor(done + n) - Len(table[q]) - Len(hits))
        queued == {p \in Entries(hits) : pool.ref[p] = 0}
        touched == Touch(pool, Entries(hits))
        t == table[q] \o hits \o SubSeq(touched.free, 1, need)
        full == (done + n) \div PageSize
        cachedSoFar == nCached[q] + Len(hits)
    IN  /\ need + Cardinality(queued) <= Len(pool.free)
        /\ done + n <= total[q]
        /\ pool' = CacheFullBlocks(GetNewBlocks(touched, need), q, t, cachedSoFar, full)
        /\ table' = [table EXCEPT ![q] = t]
        /\ nCached' = [nCached EXCEPT ![q] = Larger(cachedSoFar, full)]
        /\ computed' = [computed EXCEPT ![q] = done]
        /\ sched' = [sched EXCEPT ![q] = n]
        /\ unseen' = [unseen EXCEPT ![q] = Len(hits) + need]
        /\ status' = [status EXCEPT ![q] = "running"]
        /\ UNCHANGED <<kv, total, harmed, mishaps, connVars, pc, todo>>

\* A waiting or preempted request, looked up in the prefix cache.
Admit(q, n) ==
    /\ pc = "sched" /\ status[q] \in {"waiting", "preempted"}
    /\ AllocateSlots(q, Hits(q), Len(Hits(q)) * PageSize, n)

Continue(q, n) ==
    /\ pc = "sched" /\ status[q] = "running" /\ sched[q] = 0
    /\ AllocateSlots(q, <<>>, computed[q], n)

\* free of the cache manager: the tail of the table first.
Freed(q) == FreeBlocks(pool, [i \in 1 .. Len(table[q]) |-> table[q][Len(table[q]) + 1 - i]])

\* _preempt_request, for want of pages: the running requests are served before
\* the waiting ones.  No connector call: _req_block_table, _prefill_completed and
\* the residency table keep what they hold.
Preempt(q) ==
    /\ pc = "sched" /\ status[q] = "running" /\ sched[q] = 0
    /\ mishaps < MaxMishaps /\ mishaps' = mishaps + 1
    /\ harmed' = harmed \cup {q}
    /\ pool' = Freed(q)
    /\ status' = [status EXCEPT ![q] = "preempted"]
    /\ table' = [table EXCEPT ![q] = <<>>]
    /\ nCached' = [nCached EXCEPT ![q] = 0]
    /\ computed' = [computed EXCEPT ![q] = 0]
    /\ UNCHANGED <<kv, total, sched, unseen, connVars, pc, todo>>

\* request_finished, then free: a stopped request after its step, or an abort
\* between two steps.  Its CPU copies and its counters go with it.
Finish(q) ==
    /\ \/ pc = "update" /\ sched[q] > 0 /\ computed[q] >= PromptLen[q]
       \/ pc = "sched" /\ sched[q] = 0
    /\ status[q] \in {"running", "preempted"}
    /\ pool' = Freed(q)
    /\ status' = [status EXCEPT ![q] = "finished"]
    /\ table' = [table EXCEPT ![q] = <<>>]
    /\ nCached' = [nCached EXCEPT ![q] = 0]
    /\ sched' = [sched EXCEPT ![q] = 0]
    /\ loc' = [r \in Refs |-> IF r[1] = q /\ r[2] <= Len(reqTable[q]) THEN Nowhere ELSE loc[r]]
    /\ copy' = [r \in Refs |-> IF r[1] = q /\ r[2] <= Len(reqTable[q]) THEN Garbage ELSE copy[r]]
    /\ complete' = {r \in complete : r[1] # q \/ r[2] > Len(reqTable[q])}
    /\ reqTable' = [reqTable EXCEPT ![q] = <<>>]
    /\ prefillDone' = prefillDone \ {q}
    /\ computed' = [computed EXCEPT ![q] = 0]
    /\ total' = [total EXCEPT ![q] = PromptLen[q]]
    /\ UNCHANGED <<kv, unseen, harmed, mishaps, tail, acc, fresh, old, pc, todo>>

\* reset_prefix_cache: refused unless the null block is the only page in use.
ResetPrefixCache ==
    /\ pc = "sched"
    /\ NumPages - Len(pool.free) = 1
    /\ pool' = Evict(pool, Pages)
    /\ UNCHANGED <<kv, tableVars, connVars, pc, todo>>

BuildConnectorMeta ==
    /\ pc = "sched"
    /\ \E q \in Requests : sched[q] > 0
    /\ pc' = "meta"
    /\ todo' = {q \in Requests : sched[q] > 0}
    /\ UNCHANGED <<pool, kv, tableVars, connVars>>

-----------------------------------------------------------------------------
(* The connector: pc = "meta" *)

\* The block list the connector rebuilds: all blocks of a new or resumed request
\* are listed as new, the others append theirs to what the connector remembers.
FullTable(q) ==
    IF unseen[q] = Len(table[q]) THEN table[q]
    ELSE reqTable[q] \o SubSeq(table[q], Len(table[q]) - unseen[q] + 1, Len(table[q]))

\* sync_request_blocks with a list of the connector (bound: the keys of q; a list
\* that missed a resumption may grow past the table): offloaded blocks keep their
\* place; the mark of a block is renewed when its page changes and never cleared
\* while it stays.
SyncTable(q, full) ==
    /\ Len(full) <= Len(KeyOf[q])
    /\ reqTable' = [reqTable EXCEPT ![q] = full]
    /\ loc' = [r \in Refs |->
                 IF r[1] = q /\ r[2] <= Len(full) /\ loc[r] # OnCpu THEN full[r[2]] ELSE loc[r]]
    /\ complete' = {r \in Refs :
                      IF r[1] = q /\ r[2] <= Len(full)
                          THEN \/ Filled(r[2], computed[q])
                               \/ r \in complete /\ loc[r] \in {OnCpu, full[r[2]]}
                          ELSE r \in complete}

\* The listing of q in build_connector_meta: new requests (not remembered yet)
\* before all others, and a request listed again is looked at for the end of its
\* prefill, which holds for good.
SyncRequestBlocks(q) ==
    /\ pc = "meta" /\ q \in todo
    /\ reqTable[q] = <<>> \/ \A o \in todo : reqTable[o] # <<>>
    /\ SyncTable(q, FullTable(q))
    /\ prefillDone' = IF reqTable[q] # <<>> /\ computed[q] >= PromptLen[q]
                          THEN prefillDone \cup {q} ELSE prefillDone
    /\ unseen' = [unseen EXCEPT ![q] = 0]
    /\ todo' = todo \ {q}
    /\ UNCHANGED <<pool, kv, status, table, nCached, computed, total, sched, harmed, mishaps,
                   tail, copy, acc, fresh, old, pc>>

GpuComplete == {r \in complete : loc[r] \in Pages}

\* Mutant: any full block may go, shared or not.
AllowedAnyOwner == GpuComplete

\* Only pages of one owner are eligible.
Allowed == {r \in GpuComplete : pool.ref[loc[r]] = 1}

\* A request that has once left prefill is listed.
Decoding == \E q \in prefillDone : sched[q] > 0 /\ q \notin todo

\* offload_fraction: the blocks of E are copied at once and leave the GPU.
OffloadFraction(E) ==
    /\ copy' = [r \in Refs |-> IF r \in E THEN kv[loc[r]] ELSE copy[r]]
    /\ loc' = [r \in Refs |-> IF r \in E THEN OnCpu ELSE loc[r]]

\* _trigger_global_offload: the pages wait for the completion of the store.
TriggerGlobalOffload(E) ==
    /\ pc = "meta" /\ Decoding
    /\ OffloadFraction(E)
    /\ acc' = acc \cup {[ref |-> r, page |-> loc[r]] : r \in E}
    /\ UNCHANGED <<pool, kv, tableVars, tail, complete, reqTable, prefillDone, fresh, old, pc, todo>>

\* cpu_block_pool.get_new_blocks raises with the blocks of E off the GPU, or the
\* pass or the promotion raises before (E is empty).  The connector swallows it:
\* the requests still to be listed miss their sync, their new blocks are lost to
\* it, and the batches of the step wait for a later one.  (The size of the shadow
\* pool is left open; StoreEvents and OffloadEngine count its blocks.)
TriggerRaises(E) ==
    /\ pc = "meta" /\ Decoding
    /\ mishaps < MaxMishaps /\ mishaps' = mishaps + 1
    /\ OffloadFraction(E)
    /\ harmed' = harmed \cup {q \in todo : unseen[q] > 0}
    /\ unseen' = [q \in Requests |-> IF q \in todo THEN 0 ELSE unseen[q]]
    /\ todo' = {}
    /\ pc' = "run"
    /\ UNCHANGED <<pool, kv, status, table, nCached, computed, total, sched, tail, complete,
                   reqTable, prefillDone, acc, fresh, old>>

\* The end of build_connector_meta: one store event for all triggers so far.
Flush ==
    /\ pc = "meta" /\ todo = {}
    /\ fresh' = acc
    /\ acc' = {}
    /\ pc' = "run"
    /\ UNCHANGED <<pool, kv, tableVars, tail, loc, complete, reqTable, prefillDone, copy, old, todo>>

-----------------------------------------------------------------------------
(* The forward pass and its report *)

Written(q) == {i \in DOMAIN table[q] :
                 i * PageSize > computed[q] /\ (i - 1) * PageSize < computed[q] + sched[q]}

Run ==
    /\ pc = "run"
    /\ LET at(p) == {r \in Refs : r[2] \in Written(r[1]) /\ table[r[1]][r[2]] = p}
       IN  kv' = [p \in Pages |->
             IF at(p) = {} THEN kv[p]
             ELSE LET r == CHOOSE r \in at(p) : TRUE
                  IN  IF Filled(r[2], computed[r[1]] + sched[r[1]])
                          THEN KeyOf[r[1]][r[2]] ELSE Garbage]
    /\ computed' = [q \in Requests |-> computed[q] + sched[q]]
    /\ total' = [q \in Requests |->
                   IF sched[q] > 0 /\ computed'[q] = total[q]
                       THEN Smaller(total[q] + 1, MaxTokens(q)) ELSE total[q]]
    /\ pc' = "update"
    /\ UNCHANGED <<pool, status, table, nCached, sched, unseen, harmed, mishaps, connVars, todo>>

\* The entries of completed batches whose request still has that page there.
Reclaimable(done) ==
    {e \in done : e.ref[2] \in DOMAIN table[e.ref[1]] /\ table[e.ref[1]][e.ref[2]] = e.page}

\* The null block takes the place of the pages of some entries.
Nulled(tables, hit) ==
    [q \in Requests |-> [i \in DOMAIN tables[q] |->
        IF \E e \in hit : e.ref = <<q, i>> THEN NullPage ELSE tables[q][i]]]

\* The pages of a set of entries, one per entry, in the order of their stores.
PagesOf(S) == {[i \in DOMAIN s |-> s[i].page] : s \in {f \in [1 .. Cardinality(S) -> S] : Entries(f) = S}}

\* Mutant: pages are freed without looking at the table.
SurgeryUnchecked(done) ==
    LET pages == {e.page : e \in done}
    IN  /\ table' = Nulled(table, Reclaimable(done))
        /\ reqTable' = Nulled(reqTable, Reclaimable(done))
        /\ \E s \in PagesOf(done) : pool' = FreeBlocks(Evict(pool, pages), s)

\* Mutant: the pages are freed before their hashes are evicted.
SurgeryFreesFirst(done) ==
    LET hit == Reclaimable(done)
        pages == {e.page : e \in hit}
    IN  /\ table' = Nulled(table, hit)
        /\ reqTable' = Nulled(reqTable, hit)
        /\ \E s \in PagesOf(hit) : pool' = Evict(FreeBlocks(pool, s), pages)

\* _process_store_completion: the null block takes the place of the page, whose
\* hash is evicted and whose reference is given back.
Surgery(done) ==
    LET hit == Reclaimable(done)
        pages == {e.page : e \in hit}
    IN  /\ table' = Nulled(table, hit)
        /\ reqTable' = Nulled(reqTable, hit)
        /\ \E s \in PagesOf(hit) : pool' = FreeBlocks(Evict(pool, pages), s)

\* update_connector_output.
Report(now) ==
    /\ pc = "update"
    /\ Surgery(old \cup (IF now THEN fresh ELSE {}))
    /\ old' = IF now THEN {} ELSE fresh
    /\ fresh' = {}
    /\ sched' = [q \in Requests |-> 0]
    /\ pc' = "sched"
    /\ UNCHANGED <<kv, status, nCached, computed, total, unseen, harmed, mishaps, tail,
                   loc, complete, prefillDone, copy, acc, todo>>

-----------------------------------------------------------------------------
Next ==
    \/ BindGpuBlockPool
    \/ \E q \in Requests, n \in 1 .. MaxChunk : Admit(q, n)
    \/ \E q \in Requests, n \in 1 .. MaxChunk : Continue(q, n)
    \/ \E q \in Requests : Preempt(q)
    \/ \E q \in Requests : Finish(q)
    \/ ResetPrefixCache
    \/ BuildConnectorMeta
    \/ \E q \in Requests : SyncRequestBlocks(q)
    \/ \E E \in (SUBSET Allowed) \ {{}} : TriggerGlobalOffload(E)
    \/ \E E \in SUBSET Allowed : TriggerRaises(E)
    \/ Flush
    \/ Run
    \/ \E now \in BOOLEAN : Report(now)

Spec == Init /\ [][Next]_vars

-----------------------------------------------------------------------------
(* Properties *)

\* Every variable has its type.
PoolTypeOK ==
    /\ pool.ref \in [Pages -> Nat] /\ pool.hash \in [Pages -> Keys \cup {NoKey}]
    /\ Entries(pool.free) \subseteq Pages
    /\ \A k \in Keys : Entries(pool.cache[k]) \subseteq Pages
    /\ kv \in [Pages -> Keys \cup {Garbage}]
    /\ tail \subseteq Pages
    /\ status \in [Requests -> {"waiting", "running", "preempted", "finished"}]
    /\ \A q \in Requests :
          /\ Entries(table[q]) \subseteq Pages
          /\ {nCached[q], Len(reqTable[q]), Len(table[q])} \subseteq 0 .. Len(KeyOf[q])
          /\ computed[q] \in 0 .. total[q] /\ total[q] \in 0 .. MaxTokens(q)
          /\ sched[q] \in 0 .. MaxChunk /\ unseen[q] \in 0 .. Len(table[q])
          /\ Entries(reqTable[q]) \subseteq Pages
    /\ {harmed, prefillDone, todo} \subseteq SUBSET Requests
    /\ mishaps \in 0 .. MaxMishaps
    /\ complete \subseteq Refs
    /\ \A r \in Refs : loc[r] \in Pages \cup {OnCpu, Nowhere}
    /\ copy \in [Refs -> Keys \cup {Garbage}]
    /\ \A e \in acc \cup fresh \cup old : e.ref \in Refs /\ e.page \in Pages
    /\ pc \in {"start", "failed", "sched", "meta", "run", "update"}

\* The ref_cnt of a page is the number of tables that hold it (and one for the
\* staging tail), and the free queue is exactly the unreferenced pages, each
\* once: true freeing gives back one reference per surgery and none that the
\* request has already returned (scheduler_connector.py:582-609).
PagesConserved ==
    /\ \A p \in Pages \ {NullPage} :
          pool.ref[p] = Cardinality({r \in Refs : r[2] \in DOMAIN table[r[1]]
                                                  /\ table[r[1]][r[2]] = p})
                        + (IF p \in tail THEN 1 ELSE 0)
    /\ Entries(pool.free) = {p \in Pages \ {NullPage} : pool.ref[p] = 0}
    /\ Len(pool.free) = Cardinality(Entries(pool.free))

\* cache_allocator.py:6: the reserved tail is "permanently excluded": no page
\* of it is ever handed to a request or found by a prefix lookup.
TailNeverAllocated ==
    pc \notin {"start", "failed"} =>
        \A p \in tail :
            /\ \A q \in Requests : p \notin Entries(table[q])
            /\ \A k \in Keys : p \notin Entries(pool.cache[k])

\* A prefix lookup never resolves to a dead page: what the map finds under a key
\* carries that key and, between steps, holds the rows of that key, however often
\* the page was freed, reused or offloaded in between.
CacheSound ==
    \A k \in Keys : \A p \in Entries(pool.cache[k]) :
        /\ pool.hash[p] = k
        /\ pc = "sched" /\ (\A q \in Requests : sched[q] = 0) => kv[p] = k

\* Every full block of a running request sits on a page with its rows, shared or
\* not, or is the null block of an offloaded block.
TablesHoldOwn ==
    pc = "update" =>
        \A r \in Refs :
            r[2] \in DOMAIN table[r[1]] /\ Filled(r[2], computed[r[1]]) =>
                LET p == table[r[1]][r[2]]
                IN  IF p = NullPage THEN loc[r] = OnCpu ELSE kv[p] = KeyOf[r[1]][r[2]]

\* scheduler_connector.py:426-428: shared pages "must never be copied/freed under one
\* request's BlockRef".  The copy of an offloaded block holds its rows, unless
\* its own request was preempted or got blocks in a step that raised before its
\* sync: what happens to other requests does no harm.
CopiesHoldOwn ==
    \A r \in Refs : loc[r] = OnCpu /\ r[1] \notin harmed => copy[r] = KeyOf[r[1]][r[2]]

\* Pages that no lookup can find are reused before cached ones: freeing after
\* an offload costs no cached prefix while uncached pages are left.
UncachedReusedFirst ==
    \A i, j \in DOMAIN pool.free :
        i < j /\ pool.hash[pool.free[j]] = NoKey => pool.hash[pool.free[i]] = NoKey

=============================================================================
