------------------------ MODULE OffloadEngine_proofs ------------------------
(***************************************************************************)
(* Proofs about the engine.  Some hold whatever happens: every variable    *)
(* keeps its type and the engine implements the specification of the       *)
(* tables, so that the theorems about these carry over.  The others are    *)
(* about what pages, copies and rows hold; they need that no request is    *)
(* preempted and no exception leaves a request unsynced (MaxPreempt and    *)
(* MaxSkips are zero), and are false otherwise.                            *)
(***************************************************************************)
EXTENDS OffloadEngine, BlockStore_proofs, SequenceTheorems, SequenceLemmas

-----------------------------------------------------------------------------
(* What holds whatever happens *)

StoreEntry == [ref : Refs, page : Pages]

EngineTyped ==
    /\ status \in [Requests -> {"waiting", "running", "preempted", "finished"}]
    /\ table \in [Requests -> Seq(Pages)]
    /\ rowTable \in [Requests -> Seq(Pages)]
    /\ reqTable \in [Requests -> Seq(Pages)]
    /\ computed \in [Requests -> Nat]
    /\ total \in [Requests -> Nat]
    /\ sched \in [Requests -> Nat]
    /\ fresh \in [Requests -> Nat]
    /\ count \in [Requests -> Nat]
    /\ kind \in [Requests -> {"no", "new", "cached", "resumed"}]
    /\ preempts \in 0 .. MaxPreempt /\ skips \in 0 .. MaxSkips
    /\ trueFree \in TrueFreeModes
    /\ prefillDone \subseteq known /\ known \subseteq Requests
    /\ acc \subseteq StoreEntry
    /\ pending \in Seq(SUBSET StoreEntry)
    /\ ids \in Seq(Requests) /\ meta \in Seq(Requests)
    /\ rowIds \in [Requests -> Requests \cup {None}]
    /\ pc \in {"sched", "meta", "prefill", "decode", "trigger", "promote", "patch",
                "run", "attended", "report", "crashed"}
    /\ ret \in {"meta", "decode"} /\ cur \in Requests \cup {None} /\ todo \subseteq Requests
    /\ pc \in {"prefill", "decode", "trigger"} => cur \in Requests

\* The tokens the pages of q are meant for: those of the step are part of
\* computed once it has run.
Progress(q) ==
    computed[q] + IF pc \in {"attended", "report"} THEN 0 ELSE sched[q]

\* What vLLM has booked: a live request holds just the pages its tokens need.
Booked(q) ==
    /\ total[q] <= PromptLen[q] + MaxNew
    /\ sched[q] <= MaxChunk
    /\ Progress(q) <= total[q]
    /\ kind[q] = "no" => sched[q] = 0 /\ fresh[q] = 0
    /\ kind[q] # "no" => sched[q] >= 1 /\ status[q] \in {"running", "finished"}
    /\ status[q] = "finished" => kind[q] = "no" \/ pc \in {"attended", "report"}
    /\ Len(rowTable[q]) = Len(table[q])
    /\ IF status[q] = "finished" THEN table[q] = <<>>
       ELSE Len(table[q]) = BlocksFor(Progress(q)) /\ fresh[q] <= Len(table[q])
    /\ fresh[q] <= MaxBlocks
    /\ Len(reqTable[q]) <= MaxBlocks

EngineInv ==
    /\ IInv
    /\ EngineTyped
    /\ \A q \in Requests : Booked(q)

-----------------------------------------------------------------------------
(* What holds without preemptions and skipped requests *)

\* Requests whose new pages the connector has not seen yet.
Unsynced ==
    {q \in Scheduled :
        \/ pc = "sched"
        \/ pc \in {"meta", "prefill", "decode", "trigger"} /\ q \in todo}

\* The connector's table is vLLM's, but for the pages it has not seen.
Mirrored ==
    \A q \in Requests :
        LET seen == Len(table[q]) - IF q \in Unsynced THEN fresh[q] ELSE 0
        IN  /\ status[q] # "preempted" /\ kind[q] # "resumed"
            /\ Len(reqTable[q]) = seen
            /\ \A i \in 1 .. seen : reqTable[q][i] = table[q][i]

\* The residency table knows the blocks of the connector's table, and no others.
Listed ==
    \A q \in Requests :
        /\ tracked[q] = Len(reqTable[q])
        /\ \A i \in 0 .. MaxBlocks - 1 :
              loc[<<q, i>>].res # "none" <=> i < Len(reqTable[q])

OwnPages == \A ref \in RefsAt("gpu") : loc[ref].page = table[ref[1]][ref[2] + 1]

\* The null block stands for a page that was freed because its block is off the
\* GPU; the runner's row differs from the scheduler's table nowhere else.
NullMeansFreed ==
    \A q \in Requests : \A i \in DOMAIN table[q] :
        /\ table[q][i] = NullPage => trueFree /\ <<q, i - 1>> \in Frozen
        /\ table[q][i] # NullPage => rowTable[q][i] = table[q][i]

OneOwner ==
    \A q, o \in Requests : \A i \in DOMAIN table[q], j \in DOMAIN table[o] :
        table[q][i] = table[o][j] /\ table[q][i] # NullPage => q = o /\ i = j

\* Complete entries are about blocks all of whose rows are written, and
\* offloaded ones are complete.
CompleteIsFull ==
    \A ref \in Refs :
        /\ loc[ref].res # "none" /\ loc[ref].complete => Filled(ref[2], computed[ref[1]])
        /\ ref \in Frozen => loc[ref].complete

PagesHoldOwn ==
    \A q \in Requests : \A i \in DOMAIN table[q] :
        Filled(i - 1, computed[q]) /\ table[q][i] # NullPage
            => kv[table[q][i]] = <<q, i - 1>>

InFlightOffloaded ==
    \A e \in InFlight : status[e.ref[1]] # "finished" => e.ref \in Frozen

\* Decode rows are patched by their own request; without true freeing the
\* patch may be missing.
RowsPatchedByOwn ==
    pc \in {"run", "attended"} =>
        \A q \in DecodeRows : rowIds[q] = q \/ (rowIds[q] = None /\ ~trueFree)

\* A decoding request knows one token more than it has computed, at most.
Decoding ==
    \A q \in Requests :
        /\ q \in prefillDone => computed[q] >= PromptLen[q]
        /\ IF computed[q] < PromptLen[q] THEN total[q] = PromptLen[q]
           ELSE total[q] <= computed[q] + 1

Owned ==
    /\ Listed
    /\ OwnPages
    /\ NullMeansFreed
    /\ OneOwner
    /\ CompleteIsFull
    /\ PagesHoldOwn
    /\ OffloadedHoldsOwn

ContentInv == Mirrored /\ Owned /\ InFlightOffloaded /\ RowsPatchedByOwn /\ Decoding

-----------------------------------------------------------------------------
(* Arithmetic of pages *)

USE ConstantsAssumption, EngineAssumption

\* cdiv(tokens, page_size): the one n with (n - 1) pages too few and n enough.
LEMMA BlocksForBounds ==
    ASSUME NEW x \in Nat
    PROVE  /\ BlocksFor(x) \in Nat
           /\ x <= BlocksFor(x) * PageSize
           /\ BlocksFor(x) * PageSize < x + PageSize
  BY DEF BlocksFor

LEMMA TimesMono ==
    ASSUME NEW a \in Nat, NEW b \in Nat, a < b
    PROVE  a * PageSize + PageSize <= b * PageSize
  <1>1. PICK d \in Nat : b = a + 1 + d
    <2>1. b - a - 1 \in Nat /\ b = a + 1 + (b - a - 1)
      OBVIOUS
    <2> QED  BY <2>1
  <1>2. b * PageSize = a * PageSize + PageSize + d * PageSize
    BY <1>1
  <1>3. d * PageSize \in Nat
    OBVIOUS
  <1> QED  BY <1>2, <1>3

\* More tokens need no fewer pages; no tokens need none.
LEMMA BlocksForMono ==
    ASSUME NEW x \in Nat, NEW y \in Nat, x <= y
    PROVE  BlocksFor(x) <= BlocksFor(y)
  <1> DEFINE a == BlocksFor(x)
             b == BlocksFor(y)
  <1>1. /\ a \in Nat /\ b \in Nat
        /\ y <= b * PageSize
        /\ a * PageSize < x + PageSize
    BY BlocksForBounds
  <1> HIDE DEF a, b
  <1>2. SUFFICES ASSUME b < a PROVE FALSE
    BY <1>1 DEF a, b
  <1>3. b * PageSize + PageSize <= a * PageSize
    BY <1>1, <1>2, TimesMono
  <1>4. a * PageSize \in Nat /\ b * PageSize \in Nat
    BY <1>1
  <1> QED  BY <1>1, <1>3, <1>4

LEMMA BlocksForFits ==
    ASSUME NEW x \in Nat, x <= MaxTokens
    PROVE  BlocksFor(x) \in 0 .. MaxBlocks
  <1> DEFINE a == BlocksFor(x)
  <1>1. a \in Nat /\ a * PageSize < x + PageSize
    BY BlocksForBounds
  <1> HIDE DEF a
  <1>2. SUFFICES ASSUME MaxBlocks < a PROVE FALSE
    BY <1>1 DEF a
  <1>3. MaxBlocks * PageSize + PageSize <= a * PageSize
    BY <1>1, <1>2, TimesMono
  <1>4. a * PageSize \in Nat /\ MaxBlocks * PageSize \in Nat
    BY <1>1
  <1> QED  BY <1>1, <1>3, <1>4

LEMMA BlocksForEmpty ==
    /\ BlocksFor(0) = 0
    /\ \A x \in Nat \ {0} : BlocksFor(x) >= 1
  <1>1. BlocksFor(0) = 0
    <2> DEFINE a == BlocksFor(0)
    <2>1. a \in Nat /\ a * PageSize < 0 + PageSize
      BY BlocksForBounds
    <2> HIDE DEF a
    <2>2. SUFFICES ASSUME 0 < a PROVE FALSE
      BY <2>1 DEF a
    <2>3. 0 * PageSize + PageSize <= a * PageSize
      BY <2>1, <2>2, TimesMono
    <2>4. a * PageSize \in Nat /\ 0 * PageSize = 0
      BY <2>1
    <2> QED  BY <2>1, <2>3, <2>4
  <1>2. ASSUME NEW x \in Nat \ {0} PROVE BlocksFor(x) >= 1
    <2> DEFINE a == BlocksFor(x)
    <2>1. a \in Nat /\ x <= a * PageSize
      BY BlocksForBounds
    <2> HIDE DEF a
    <2>2. a # 0
      BY <2>1
    <2> QED  BY <2>1, <2>2 DEF a
  <1> QED  BY <1>1, <1>2

-----------------------------------------------------------------------------
(* The engine implements the specification of the tables *)

LEMMA PromptFits ==
    ASSUME NEW q \in Requests
    PROVE  PromptLen[q] \in Nat /\ PromptLen[q] + MaxNew <= MaxTokens
  OBVIOUS

\* What the bookkeeping of one request says of its numbers and its tables.
LEMMA BookedFits ==
    ASSUME EngineTyped, NEW q \in Requests, Booked(q)
    PROVE  /\ computed[q] \in 0 .. MaxTokens /\ computed[q] <= total[q]
           /\ total[q] \in 0 .. MaxTokens
           /\ Progress(q) \in 0 .. MaxTokens
           /\ Len(table[q]) \in 0 .. MaxBlocks /\ Len(rowTable[q]) \in 0 .. MaxBlocks
  <1>1. computed[q] \in Nat /\ total[q] \in Nat /\ sched[q] \in Nat
    BY DEF EngineTyped
  <1>2. Progress(q) \in Nat /\ computed[q] <= Progress(q)
    BY <1>1 DEF Progress
  <1>3. Progress(q) <= total[q] /\ total[q] <= MaxTokens
    BY <1>1, PromptFits DEF Booked
  <1>4. BlocksFor(Progress(q)) \in 0 .. MaxBlocks
    BY <1>1, <1>2, <1>3, BlocksForFits
  <1>5. Len(table[q]) \in 0 .. MaxBlocks
    <2>1. CASE status[q] = "finished"
      BY <2>1, EmptySeq DEF Booked
    <2>2. CASE status[q] # "finished"
      BY <2>2, <1>4 DEF Booked
    <2> QED  BY <2>1, <2>2
  <1> QED  BY <1>1, <1>2, <1>3, <1>5 DEF Booked

LEMMA FullTableType ==
    ASSUME EngineTyped, NEW q \in Requests, Booked(q), pc = "meta"
    PROVE  FullTable(q) \in Seq(Pages)
  <1>1. table[q] \in Seq(Pages) /\ reqTable[q] \in Seq(Pages) /\ fresh[q] \in Nat
    BY DEF EngineTyped
  <1>2. fresh[q] <= Len(table[q])
    BY <1>1, EmptySeq DEF Booked
  <1> DEFINE a == Len(table[q]) - fresh[q] + 1
  <1>3. Len(table[q]) \in Nat /\ a \in 1 .. Len(table[q]) + 1
    BY <1>1, <1>2, LenProperties
  <1>4. SubSeq(table[q], a, Len(table[q])) \in Seq(Pages)
    BY <1>1, <1>3, SubSeqProperties
  <1>5. reqTable[q] \o SubSeq(table[q], a, Len(table[q])) \in Seq(Pages)
    BY <1>1, <1>4, ConcatProperties
  <1> QED  BY <1>1, <1>5 DEF FullTable

\* A sync with a table of pages is an operation of the residency table.
LEMMA SyncTableSyncs ==
    ASSUME EngineTyped, NEW q \in Requests, Booked(q),
           NEW full \in Seq(Pages), SyncTable(q, full)
    PROVE  /\ Sync(q)
           /\ Len(full) \in 0 .. MaxBlocks
           /\ reqTable' = [reqTable EXCEPT ![q] = full]
  <1> DEFINE n == Len(full)
             pages == [i \in 0 .. n - 1 |-> full[i + 1]]
  <1>1. n \in 0 .. MaxBlocks
    BY LenProperties DEF SyncTable
  <1>2. \A i \in 0 .. n - 1 : full[i + 1] \in Pages
    BY <1>1, ElementOfSeq
  <1>3. pages \in [0 .. n - 1 -> Pages]
    BY <1>2
  <1>4. computed[q] \in 0 .. MaxTokens
    BY BookedFits
  <1>5. SyncRequestBlocks(q, n, pages, computed[q])
    BY DEF SyncTable
  <1> HIDE DEF n, pages
  <1>6. Sync(q)
    BY <1>1, <1>3, <1>4, <1>5 DEF Sync
  <1> QED  BY <1>1, <1>6 DEF SyncTable, n

LEMMA RunWrites ==
    ASSUME EngineInv, Run PROVE GpuWrite
  BY DEF Run

LEMMA AllowedComplete == Allowed \subseteq GpuComplete
  BY DEF Allowed

\* The blocks a prefetch asks for are blocks of the table.
LEMMA PrefetchStep ==
    ASSUME NEW use, Prefetch(use)
    PROVE  \/ \E needed \in SUBSET Refs : PrepareStaging(needed)
           \/ UNCHANGED vars
  <1>1. CASE UNCHANGED vars
    BY <1>1
  <1>2. CASE \E needed \in SUBSET {ref \in RefsAt("cpu") : ref[1] \in Entries(use)} :
                PrepareStaging(needed)
    <2>1. PICK needed \in SUBSET {ref \in RefsAt("cpu") : ref[1] \in Entries(use)} :
                PrepareStaging(needed)
      BY <1>2
    <2>2. needed \in SUBSET Refs
      BY DEF RefsAt
    <2> QED  BY <2>1, <2>2
  <1> QED  BY <1>1, <1>2 DEF Prefetch

\* The table operation each step makes, if any.
LEMMA PatchStep ==
    ASSUME BuildAndPatch
    PROVE  \/ \E needed \in SUBSET Refs : PrepareStaging(needed)
           \/ UNCHANGED vars
  <1>1. PICK rows \in RowOrders :
          \/ UNCHANGED vars
          \/ Prefetch(PatchIds(rows))
    BY DEF BuildAndPatch
  <1>2. PICK use : use = PatchIds(rows)
    OBVIOUS
  <1>3. UNCHANGED vars \/ Prefetch(use)
    BY <1>1, <1>2
  <1> QED  BY <1>3, PrefetchStep

LEMMA PatchRaisesStep ==
    ASSUME PatchRaises
    PROVE  \E needed \in SUBSET Refs : PrepareStagingRaises(needed)
  <1>1. PICK rows \in RowOrders :
          \E needed \in SUBSET {ref \in RefsAt("cpu") : ref[1] \in Entries(PatchIds(rows))} :
              PrepareStagingRaises(needed)
    BY DEF PatchRaises
  <1>2. PICK use : use = PatchIds(rows)
    OBVIOUS
  <1>3. PICK needed \in SUBSET {ref \in RefsAt("cpu") : ref[1] \in Entries(use)} :
              PrepareStagingRaises(needed)
    BY <1>1, <1>2
  <1>4. needed \in SUBSET Refs
    BY DEF RefsAt
  <1> QED  BY <1>3, <1>4

\* Every step of the engine is an operation of the tables or leaves them alone.
LEMMA TablesStep ==
    ASSUME EngineInv, [EngineNext]_allVars PROVE [Next]_vars
  <1>0. EngineTyped /\ \A q \in Requests : Booked(q)
    BY DEF EngineInv
  <1>1. ASSUME NEW q \in Requests, NEW n \in 1 .. MaxChunk, Schedule(q, n) PROVE [Next]_vars
    BY <1>1 DEF Schedule
  <1>2. ASSUME NEW q \in Requests, Preempt(q) PROVE [Next]_vars
    BY <1>2 DEF Preempt
  <1>3. ASSUME NEW q \in Requests, RequestFinished(q) PROVE [Next]_vars
    BY <1>3 DEF RequestFinished, OnRequestDone, Next
  <1>4. ASSUME StartMeta \/ MetaPrefillNotDone \/ OnDecode \/ NotDecoding \/ MetaListDone \/ Flush
        PROVE  [Next]_vars
    BY <1>4 DEF StartMeta, MetaPrefillNotDone, OnDecode, NotDecoding, MetaListDone, Flush
  <1>5. ASSUME NEW q \in Requests, MetaNew(q) PROVE [Next]_vars
    <2>1. SyncTable(q, table[q]) /\ table[q] \in Seq(Pages)
      BY <1>0, <1>5 DEF MetaNew, EngineTyped
    <2>2. PICK full : full = table[q]
      OBVIOUS
    <2>3. Sync(q)
      BY <1>0, <2>1, <2>2, SyncTableSyncs
    <2> QED  BY <2>3 DEF Next
  <1>6. ASSUME NEW q \in Requests, MetaCached(q) PROVE [Next]_vars
    <2>1. SyncTable(q, FullTable(q)) /\ FullTable(q) \in Seq(Pages)
      BY <1>0, <1>6, FullTableType DEF MetaCached
    <2>2. PICK full : full = FullTable(q)
      OBVIOUS
    <2>3. Sync(q)
      BY <1>0, <2>1, <2>2, SyncTableSyncs
    <2> QED  BY <2>3 DEF Next
  <1>7. CASE MetaPrefillDone
    <2>1. cur \in Requests
      BY <1>0, <1>7 DEF MetaPrefillDone, EngineTyped
    <2>2. PICK n : n = computed[cur]
      OBVIOUS
    <2>3. n \in 0 .. MaxTokens /\ OnPrefillComplete(cur, n)
      BY <1>0, <1>7, <2>1, <2>2, BookedFits DEF MetaPrefillDone
    <2> QED  BY <2>1, <2>3 DEF Next
  <1>8. CASE Trigger \/ TriggerRaises
    <2>1. PICK allowed : allowed = Allowed
      OBVIOUS
    <2>2. TriggerOffload(allowed) /\ allowed \in SUBSET GpuComplete
      BY <1>8, <2>1, AllowedComplete DEF Trigger, TriggerRaises
    <2> QED  BY <2>2 DEF Next
  <1>9. ASSUME NEW q \in Requests, Promote(q) \/ PromoteAborts(q) PROVE [Next]_vars
    BY <1>9 DEF Promote, PromoteAborts, Next
  <1>10. CASE BuildAndPatch
    BY <1>10, PatchStep DEF Next
  <1>11. CASE PatchRaises
    BY <1>11, PatchRaisesStep DEF Next
  <1>12. CASE Run
    BY <1>12, RunWrites DEF Next
  <1>13. ASSUME NEW k \in 0 .. Len(pending), Report(k) PROVE [Next]_vars
    BY <1>13 DEF Report
  <1>14. CASE UNCHANGED allVars
    BY <1>14 DEF allVars
  <1> QED
    BY <1>1, <1>2, <1>3, <1>4, <1>5, <1>6, <1>7, <1>8, <1>9, <1>10, <1>11, <1>12, <1>13,
       <1>14
    DEF EngineNext

-----------------------------------------------------------------------------
(* The engine's own variables keep their types and their bookkeeping *)

LEMMA EngineInitInv == EngineInit => EngineInv
  <1> SUFFICES ASSUME EngineInit PROVE EngineInv
    OBVIOUS
  <1>1. IInv
    BY InitIInv DEF EngineInit
  <1>2. EngineTyped
    <2>1. <<>> \in Seq(Pages) /\ <<>> \in Seq(SUBSET StoreEntry) /\ <<>> \in Seq(Requests)
      BY EmptySeq
    <2>2. total \in [Requests -> Nat]
      BY DEF EngineInit
    <2> QED  BY <2>1, <2>2 DEF EngineInit, EngineTyped
  <1>3. ASSUME NEW q \in Requests PROVE Booked(q)
    <2>1. /\ computed[q] = 0 /\ total[q] = PromptLen[q] /\ sched[q] = 0 /\ kind[q] = "no"
          /\ fresh[q] = 0 /\ status[q] = "waiting" /\ pc = "sched"
          /\ table[q] = <<>> /\ rowTable[q] = <<>> /\ reqTable[q] = <<>>
      BY DEF EngineInit
    <2>2. Progress(q) = 0 /\ Len(<<>>) = 0 /\ PromptLen[q] \in Nat /\ MaxNew \in Nat
      BY <2>1, EmptySeq, PromptFits DEF Progress
    <2> QED  BY <2>1, <2>2, BlocksForEmpty DEF Booked
  <1> QED  BY <1>1, <1>2, <1>3 DEF EngineInv

\* A request a step does not touch keeps its bookkeeping.
LEMMA BookedSame ==
    ASSUME NEW q \in Requests, Booked(q),
           total'[q] = total[q], sched'[q] = sched[q], kind'[q] = kind[q],
           fresh'[q] = fresh[q], status'[q] = status[q], computed'[q] = computed[q],
           table'[q] = table[q], rowTable'[q] = rowTable[q],
           Len(reqTable'[q]) <= MaxBlocks,
           pc' \in {"attended", "report"} <=> pc \in {"attended", "report"}
    PROVE  Booked(q)'
  <1>1. Progress(q)' = Progress(q)
    BY DEF Progress
  <1>2. BlocksFor(Progress(q))' = BlocksFor(Progress(q))
    BY <1>1 DEF BlocksFor
  <1> QED  BY <1>1, <1>2 DEF Booked

\* ... and so do all of them in a step that changes nothing of vLLM's.
LEMMA BookedQuiet ==
    ASSUME \A q \in Requests : Booked(q), UNCHANGED <<vllmVars, reqTable>>,
           pc' \in {"attended", "report"} <=> pc \in {"attended", "report"}
    PROVE  \A q \in Requests : Booked(q)'
  BY BookedSame DEF vllmVars, Booked

LEMMA ScheduleInv ==
    ASSUME EngineTyped, \A o \in Requests : Booked(o),
           NEW q \in Requests, NEW n \in 1 .. MaxChunk, Schedule(q, n)
    PROVE  EngineTyped' /\ \A o \in Requests : Booked(o)'
  <1> DEFINE need == BlocksFor(computed[q] + n) - Len(table[q])
  <1>1. PICK got \in [1 .. need -> FreePages] :
          /\ table' = [table EXCEPT ![q] = @ \o got]
          /\ rowTable' = [rowTable EXCEPT ![q] = @ \o got]
    BY DEF Schedule
  <1>2. /\ computed[q] \in Nat /\ n \in Nat /\ table[q] \in Seq(Pages) /\ rowTable[q] \in Seq(Pages)
        /\ Len(table[q]) \in Nat /\ Len(rowTable[q]) = Len(table[q])
    BY LenProperties DEF EngineTyped, Booked
  <1>3. /\ pc = "sched" /\ pc' = "sched" /\ kind[q] = "no" /\ status[q] # "finished"
        /\ computed[q] + n <= total[q]
    BY DEF Schedule, Live, pcVars
  <1>4. Len(table[q]) = BlocksFor(computed[q])
    <2>1. Progress(q) = computed[q]
      BY <1>2, <1>3 DEF Progress, Booked
    <2> QED  BY <1>3, <2>1 DEF Booked
  <1>5. need \in Nat /\ BlocksFor(computed[q] + n) \in Nat
    <2>1. computed[q] + n \in Nat /\ computed[q] <= computed[q] + n
      BY <1>2
    <2>2. BlocksFor(computed[q]) <= BlocksFor(computed[q] + n)
      BY <1>2, <2>1, BlocksForMono
    <2>3. BlocksFor(computed[q]) \in Nat /\ BlocksFor(computed[q] + n) \in Nat
      BY <1>2, <2>1, BlocksForBounds
    <2> QED  BY <1>4, <2>2, <2>3
  <1>6. BlocksFor(computed[q] + n) \in 0 .. MaxBlocks
    <2>1. computed[q] + n \in Nat /\ computed[q] + n <= MaxTokens
      BY <1>2, <1>3, BookedFits
    <2> QED  BY <2>1, BlocksForFits
  <1>7. /\ fresh' = [fresh EXCEPT ![q] = need]
        /\ sched' = [sched EXCEPT ![q] = n]
        /\ status' = [status EXCEPT ![q] = "running"]
        /\ UNCHANGED <<vars, computed, total, preempts, connVars, rowVars, pcVars>>
    BY DEF Schedule
  <1>8. /\ kind' \in [Requests -> {"no", "new", "cached", "resumed"}]
        /\ \A o \in Requests : o # q => kind'[o] = kind[o]
        /\ kind'[q] # "no"
    <2>1. status[q] \in {"waiting", "running", "preempted"}
      BY DEF Schedule, Live
    <2>2. kind' = [kind EXCEPT ![q] = CASE status[q] = "waiting" -> "new"
                                        [] status[q] = "running" -> "cached"
                                        [] status[q] = "preempted" -> "resumed"]
      BY DEF Schedule
    <2>3. (CASE status[q] = "waiting" -> "new"
             [] status[q] = "running" -> "cached"
             [] status[q] = "preempted" -> "resumed") \in {"new", "cached", "resumed"}
      BY <2>1
    <2> QED  BY <2>2, <2>3, ZenonT(30) DEF EngineTyped
  <1>9. got \in Seq(Pages) /\ Len(got) = need
    <2>1. got \in [1 .. need -> Pages]
      BY DEF FreePages
    <2>2. PICK k \in Nat : k = need
      BY <1>5
    <2> HIDE DEF need
    <2>3. got \in [1 .. k -> Pages]
      BY <2>1, <2>2
    <2>4. got \in Seq(Pages)
      BY <2>3, SeqDef
    <2>5. Len(got) = k
      BY <2>3, <2>4, LenProperties
    <2> QED  BY <2>2, <2>4, <2>5
  <1> HIDE DEF need
  <1>10. /\ table[q] \o got \in Seq(Pages) /\ Len(table[q] \o got) = Len(table[q]) + need
         /\ rowTable[q] \o got \in Seq(Pages) /\ Len(rowTable[q] \o got) = Len(table[q]) + need
    <2>1. ASSUME NEW t \in Seq(Pages)
          PROVE  t \o got \in Seq(Pages) /\ Len(t \o got) = Len(t) + Len(got)
      BY <1>9, ConcatProperties, ZenonT(30)
    <2> QED  BY <1>2, <1>9, <2>1
  <1>11. EngineTyped'
    <2>1. table' \in [Requests -> Seq(Pages)] /\ rowTable' \in [Requests -> Seq(Pages)]
      BY <1>1, <1>10 DEF EngineTyped
    <2>2. fresh' \in [Requests -> Nat] /\ sched' \in [Requests -> Nat]
      BY <1>2, <1>5, <1>7 DEF EngineTyped
    <2>3. status' \in [Requests -> {"waiting", "running", "preempted", "finished"}]
      BY <1>7 DEF EngineTyped
    <2> QED  BY <1>7, <1>8, <2>1, <2>2, <2>3 DEF EngineTyped, connVars, rowVars, pcVars
  <1>12. Booked(q)'
    <2>1. /\ table'[q] = table[q] \o got /\ rowTable'[q] = rowTable[q] \o got
          /\ sched'[q] = n /\ fresh'[q] = need /\ status'[q] = "running"
          /\ computed'[q] = computed[q] /\ total'[q] = total[q] /\ reqTable'[q] = reqTable[q]
      BY <1>1, <1>7, ZenonT(30) DEF EngineTyped, connVars
    <2>2. Progress(q)' = computed[q] + n
      BY <1>2, <1>3, <2>1 DEF Progress
    <2>3. BlocksFor(Progress(q))' = BlocksFor(computed[q] + n)
      BY <2>2 DEF BlocksFor
    <2>4. Len(table'[q]) = BlocksFor(computed[q] + n) /\ need <= Len(table'[q]) /\ need <= MaxBlocks
      <3>1. Len(table'[q]) = Len(table[q]) + need
        BY <1>10, <2>1
      <3>2. need = BlocksFor(computed[q] + n) - Len(table[q])
        BY DEF need
      <3>3. PICK b, t : b = BlocksFor(computed[q] + n) /\ t = Len(table[q])
        OBVIOUS
      <3>4. /\ b \in 0 .. MaxBlocks /\ t \in Nat /\ need \in Nat
            /\ need = b - t /\ Len(table'[q]) = t + need
        BY <1>2, <1>5, <1>6, <3>1, <3>2, <3>3
      <3>5. Len(table'[q]) = b /\ need <= b /\ need <= MaxBlocks
        BY <3>4
      <3> QED  BY <3>3, <3>5
    <2>5. n >= 1 /\ n <= MaxChunk
      OBVIOUS
    <2>6. total'[q] <= PromptLen[q] + MaxNew /\ Len(reqTable'[q]) <= MaxBlocks
      BY <2>1 DEF Booked
    <2>7. Len(rowTable'[q]) = Len(table'[q])
      BY <1>10, <2>1
    <2> QED  BY <1>3, <1>8, <2>1, <2>2, <2>3, <2>4, <2>5, <2>6, <2>7 DEF Booked
  <1>13. ASSUME NEW o \in Requests, o # q PROVE Booked(o)'
    <2>1. /\ total'[o] = total[o] /\ sched'[o] = sched[o] /\ kind'[o] = kind[o]
          /\ fresh'[o] = fresh[o] /\ status'[o] = status[o] /\ computed'[o] = computed[o]
          /\ table'[o] = table[o] /\ rowTable'[o] = rowTable[o]
          /\ reqTable'[o] = reqTable[o]
      BY <1>1, <1>7, <1>8, <1>13 DEF EngineTyped, connVars
    <2>2. Len(reqTable'[o]) <= MaxBlocks
      BY <2>1 DEF Booked
    <2> QED  BY <1>3, <2>1, <2>2, BookedSame
  <1> QED  BY <1>11, <1>12, <1>13

LEMMA PreemptInv ==
    ASSUME EngineTyped, \A o \in Requests : Booked(o), NEW q \in Requests, Preempt(q)
    PROVE  EngineTyped' /\ \A o \in Requests : Booked(o)'
  <1>1. /\ pc = "sched" /\ pc' = "sched" /\ status[q] = "running" /\ kind[q] = "no"
        /\ preempts < MaxPreempt /\ preempts' = preempts + 1
        /\ status' = [status EXCEPT ![q] = "preempted"]
        /\ table' = [table EXCEPT ![q] = <<>>]
        /\ rowTable' = [rowTable EXCEPT ![q] = <<>>]
        /\ computed' = [computed EXCEPT ![q] = 0]
        /\ UNCHANGED <<vars, total, sched, kind, fresh, connVars, rowVars, pcVars>>
    BY DEF Preempt, pcVars
  <1>2. <<>> \in Seq(Pages) /\ Len(<<>>) = 0
    BY EmptySeq
  <1>3. EngineTyped'
    <2>1. preempts' \in 0 .. MaxPreempt
      BY <1>1 DEF EngineTyped
    <2> QED  BY <1>1, <1>2, <2>1 DEF EngineTyped, connVars, rowVars, pcVars
  <1>4. Booked(q)'
    <2>1. /\ computed'[q] = 0 /\ sched'[q] = 0 /\ fresh'[q] = 0 /\ kind'[q] = "no"
          /\ table'[q] = <<>> /\ rowTable'[q] = <<>> /\ reqTable'[q] = reqTable[q]
          /\ total'[q] = total[q] /\ status'[q] = "preempted"
      BY <1>1 DEF EngineTyped, Booked, connVars
    <2>2. Progress(q)' = 0
      BY <1>1, <2>1 DEF Progress
    <2>3. BlocksFor(Progress(q))' = 0
      BY <2>2, BlocksForEmpty DEF BlocksFor
    <2>4. total'[q] \in Nat /\ total'[q] <= PromptLen[q] + MaxNew /\ Len(reqTable'[q]) <= MaxBlocks
      BY <2>1 DEF Booked, EngineTyped
    <2> QED  BY <1>2, <2>1, <2>2, <2>3, <2>4 DEF Booked
  <1>5. ASSUME NEW o \in Requests, o # q PROVE Booked(o)'
    <2>1. /\ total'[o] = total[o] /\ sched'[o] = sched[o] /\ kind'[o] = kind[o]
          /\ fresh'[o] = fresh[o] /\ status'[o] = status[o] /\ computed'[o] = computed[o]
          /\ table'[o] = table[o] /\ rowTable'[o] = rowTable[o]
          /\ reqTable'[o] = reqTable[o]
      BY <1>1, <1>5 DEF EngineTyped, connVars
    <2>2. Len(reqTable'[o]) <= MaxBlocks
      BY <2>1 DEF Booked
    <2> QED  BY <1>1, <2>1, <2>2, BookedSame
  <1> QED  BY <1>3, <1>4, <1>5

LEMMA RequestFinishedInv ==
    ASSUME EngineTyped, \A o \in Requests : Booked(o), NEW q \in Requests, RequestFinished(q)
    PROVE  EngineTyped' /\ \A o \in Requests : Booked(o)'
  <1>1. /\ status' = [status EXCEPT ![q] = "finished"]
        /\ table' = [table EXCEPT ![q] = <<>>]
        /\ rowTable' = [rowTable EXCEPT ![q] = <<>>]
        /\ reqTable' = [reqTable EXCEPT ![q] = <<>>]
        /\ known' = known \ {q}
        /\ prefillDone' = prefillDone \ {q}
        /\ count' = [count EXCEPT ![q] = 0]
        /\ UNCHANGED <<trueFree, skips, computed, total, sched, kind, fresh, preempts, acc, pending,
                       rowVars, cur, ret, todo>>
    BY DEF RequestFinished, OnRequestDone
  <1>2. \/ pc = "sched" /\ pc' = "sched" /\ kind[q] = "no"
        \/ pc \in {"attended", "report"} /\ pc' = "report"
    BY DEF RequestFinished
  <1>3. <<>> \in Seq(Pages) /\ Len(<<>>) = 0
    BY EmptySeq
  <1>4. EngineTyped'
    BY <1>1, <1>2, <1>3 DEF EngineTyped, rowVars
  <1>5. Booked(q)'
    <2>1. /\ computed'[q] = computed[q] /\ sched'[q] = sched[q] /\ fresh'[q] = fresh[q]
          /\ kind'[q] = kind[q] /\ total'[q] = total[q] /\ status'[q] = "finished"
          /\ table'[q] = <<>> /\ rowTable'[q] = <<>> /\ reqTable'[q] = <<>>
      BY <1>1 DEF EngineTyped
    <2>2. Progress(q)' = Progress(q)
      BY <1>2, <2>1 DEF Progress
    <2>3. kind'[q] = "no" \/ pc' \in {"attended", "report"}
      BY <1>2, <2>1
    <2> QED  BY <1>3, <2>1, <2>2, <2>3 DEF Booked
  <1>6. ASSUME NEW o \in Requests, o # q PROVE Booked(o)'
    <2>1. /\ total'[o] = total[o] /\ sched'[o] = sched[o] /\ kind'[o] = kind[o]
          /\ fresh'[o] = fresh[o] /\ status'[o] = status[o] /\ computed'[o] = computed[o]
          /\ table'[o] = table[o] /\ rowTable'[o] = rowTable[o]
          /\ reqTable'[o] = reqTable[o]
      BY <1>1, <1>6 DEF EngineTyped
    <2>2. Len(reqTable'[o]) <= MaxBlocks
      BY <2>1 DEF Booked
    <2> QED  BY <1>2, <2>1, <2>2, BookedSame
  <1> QED  BY <1>4, <1>5, <1>6

LEMMA SyncedInv ==
    ASSUME EngineTyped, \A o \in Requests : Booked(o), NEW q \in Requests,
           MetaNew(q) \/ MetaCached(q)
    PROVE  EngineTyped' /\ \A o \in Requests : Booked(o)'
  <1>1. PICK full \in Seq(Pages) :
          Len(full) \in 0 .. MaxBlocks /\ reqTable' = [reqTable EXCEPT ![q] = full]
    <2>1. CASE MetaNew(q)
      <3>1. PICK full : full = table[q]
        OBVIOUS
      <3>2. full \in Seq(Pages) /\ SyncTable(q, full)
        BY <2>1, <3>1 DEF MetaNew, EngineTyped
      <3> QED  BY <3>2, SyncTableSyncs
    <2>2. CASE MetaCached(q)
      <3>1. PICK full : full = FullTable(q)
        OBVIOUS
      <3>2. full \in Seq(Pages) /\ SyncTable(q, full)
        BY <2>2, <3>1, FullTableType DEF MetaCached
      <3> QED  BY <3>2, SyncTableSyncs
    <2> QED  BY <2>1, <2>2
  <1>2. /\ pc = "meta" /\ pc' \in {"meta", "prefill"}
        /\ UNCHANGED <<trueFree, skips, vllmVars, prefillDone, acc, pending, rowVars, ret>>
        /\ known \subseteq known' /\ known' \subseteq known \cup {q}
        /\ count' = count \/ count' = [count EXCEPT ![q] = 0]
        /\ todo' = todo \ {q}
        /\ \/ cur' = cur /\ pc' = "meta"
           \/ cur' = q
    BY DEF MetaNew, MetaCached
  <1>3. EngineTyped'
    <2>1. reqTable' \in [Requests -> Seq(Pages)]
      BY <1>1 DEF EngineTyped
    <2>2. count' \in [Requests -> Nat]
      <3>1. count \in [Requests -> Nat] /\ [count EXCEPT ![q] = 0] \in [Requests -> Nat]
        BY DEF EngineTyped
      <3> QED  BY <1>2, <3>1
    <2> QED  BY <1>2, <2>1, <2>2, ZenonT(30) DEF EngineTyped, vllmVars, rowVars
  <1>4. ASSUME NEW o \in Requests PROVE Booked(o)'
    <2>1. Len(reqTable'[o]) <= MaxBlocks
      BY <1>1 DEF Booked, EngineTyped
    <2> QED  BY <1>2, <2>1, BookedSame DEF vllmVars
  <1> QED  BY <1>3, <1>4

\* Steps inside build_connector_meta that sync nothing.
LEMMA MetaStepInv ==
    ASSUME EngineTyped, \A o \in Requests : Booked(o),
           StartMeta \/ MetaPrefillDone \/ MetaPrefillNotDone \/ OnDecode \/ NotDecoding
             \/ MetaListDone
    PROVE  EngineTyped' /\ \A o \in Requests : Booked(o)'
  <1>1. /\ UNCHANGED <<trueFree, skips, vllmVars, reqTable, known, acc, pending, rowVars, cur>>
        /\ pc \notin {"attended", "report"} /\ pc' \notin {"attended", "report"}
    BY DEF StartMeta, MetaPrefillDone, MetaPrefillNotDone, OnDecode, NotDecoding, MetaListDone,
           connVars
  <1>2. \A o \in Requests : Booked(o)'
    BY <1>1, BookedQuiet
  <1>3. prefillDone' \subseteq known'
    <2>1. prefillDone' = prefillDone \/ (prefillDone' = prefillDone \cup {cur} /\ cur \in known)
      BY DEF StartMeta, MetaPrefillDone, EntersDecode, MetaPrefillNotDone, OnDecode, NotDecoding,
             MetaListDone, connVars
    <2> QED  BY <1>1, <2>1 DEF EngineTyped
  <1>4. count' \in [Requests -> Nat]
    <2>1. CASE OnDecode
      <3>1. count' = [count EXCEPT ![cur] = @ + sched[cur]] /\ cur \in Requests
        BY <2>1 DEF OnDecode, EngineTyped
      <3>2. count[cur] + sched[cur] \in Nat
        BY <3>1 DEF EngineTyped
      <3> QED  BY <3>1, <3>2 DEF EngineTyped
    <2>2. CASE ~OnDecode
      <3>1. count' = count
        BY <2>2 DEF StartMeta, MetaPrefillDone, MetaPrefillNotDone, NotDecoding, MetaListDone, connVars
      <3> QED  BY <3>1 DEF EngineTyped
    <2> QED  BY <2>1, <2>2
  <1>5. /\ pc' \in {"meta", "decode", "trigger", "promote"} /\ ret' \in {"meta", "decode"}
        /\ todo' \subseteq Requests
        /\ pc' \in {"decode", "trigger"} => pc \in {"prefill", "decode"}
    <2>1. Scheduled \subseteq Requests /\ Active \subseteq Requests
      BY DEF Scheduled, Active, EngineTyped
    <2> QED
      BY <2>1
      DEF StartMeta, MetaPrefillDone, MetaPrefillNotDone, OnDecode, NotDecoding, MetaListDone,
          EngineTyped
  <1>6. EngineTyped'
    BY <1>1, <1>3, <1>4, <1>5 DEF EngineTyped, vllmVars, rowVars
  <1> QED  BY <1>2, <1>6

LEMMA StoreEntriesType ==
    ASSUME IInv PROVE StoreEntries(Offloaded) \subseteq StoreEntry
  <1>1. ASSUME NEW ref \in Offloaded PROVE ref \in Refs /\ loc[ref].page \in Pages
    <2>1. ref \in Refs /\ loc[ref].res = "gpu"
      BY DEF Offloaded
    <2>2. loc[ref] \in Location /\ loc[ref].page # None
      BY <2>1 DEF IInv, TypeOK, BackedByCpu
    <2> QED  BY <2>1, <2>2, LocationFields
  <1> QED  BY <1>1 DEF StoreEntries, StoreEntry

LEMMA TriggerInv ==
    ASSUME IInv, EngineTyped, \A o \in Requests : Booked(o), Trigger \/ TriggerRaises
    PROVE  EngineTyped' /\ \A o \in Requests : Booked(o)'
  <1>1. /\ UNCHANGED <<trueFree, vllmVars, reqTable, known, prefillDone, count, pending, rowVars,
                       cur, ret>>
        /\ acc' = acc \/ acc' = acc \cup StoreEntries(Offloaded)
        /\ todo' = todo \/ todo' = {}
        /\ pc = "trigger" /\ pc' \in {"patch", ret}
        /\ skips' = skips \/ (skips' = skips + 1 /\ skips' <= MaxSkips)
    BY DEF Trigger, TriggerRaises
  <1>2. pc' \notin {"attended", "report"} /\ pc \notin {"attended", "report"}
    BY <1>1 DEF EngineTyped
  <1>3. \A o \in Requests : Booked(o)'
    BY <1>1, <1>2, BookedQuiet
  <1>4. acc' \subseteq StoreEntry /\ skips' \in 0 .. MaxSkips
    <2>1. acc \subseteq StoreEntry /\ skips \in 0 .. MaxSkips
      BY DEF EngineTyped
    <2>2. skips' \in 0 .. MaxSkips
      BY <1>1, <2>1
    <2>3. acc' \subseteq StoreEntry
      BY <1>1, <2>1, StoreEntriesType, Zenon
    <2> QED  BY <2>2, <2>3
  <1>5. EngineTyped'
    BY <1>1, <1>4 DEF EngineTyped, vllmVars, rowVars
  <1> QED  BY <1>3, <1>5

LEMMA PromoteInv ==
    ASSUME EngineTyped, \A o \in Requests : Booked(o), NEW q \in Requests,
           Promote(q) \/ PromoteAborts(q)
    PROVE  EngineTyped' /\ \A o \in Requests : Booked(o)'
  <1>1. /\ UNCHANGED <<vllmVars, connVars, rowVars, cur, ret>>
        /\ pc = "promote" /\ pc' \in {"promote", "patch"}
        /\ todo' \subseteq todo
    BY DEF Promote, PromoteAborts
  <1>2. \A o \in Requests : Booked(o)'
    BY <1>1, BookedQuiet DEF connVars
  <1>3. EngineTyped'
    BY <1>1 DEF EngineTyped, vllmVars, connVars, rowVars
  <1> QED  BY <1>2, <1>3

\* A list of the elements of S, each once: its length and its entries.
LEMMA OrderFacts ==
    ASSUME NEW S, S \subseteq Requests, NEW rows \in Orders(S)
    PROVE  /\ IsFiniteSet(S) /\ Cardinality(S) \in Nat
           /\ rows \in Seq(S) /\ rows \in Seq(Requests) /\ Len(rows) = Cardinality(S)
           /\ DOMAIN rows = 1 .. Cardinality(S)
           /\ \A a, b \in DOMAIN rows : rows[a] = rows[b] => a = b
           /\ \A x \in S : \E b \in DOMAIN rows : rows[b] = x
  <1>1. IsFiniteSet(S) /\ Cardinality(S) \in Nat
    BY FS_Subset, FS_CardinalityType
  <1> DEFINE n == Cardinality(S)
  <1>2. rows \in [1 .. n -> S] /\ \A a, b \in DOMAIN rows : rows[a] = rows[b] => a = b
    BY DEF Orders, Injective
  <1> HIDE DEF n
  <1>3. n \in Nat
    BY <1>1 DEF n
  <1>4. rows \in Seq(S) /\ rows \in Seq(Requests) /\ Len(rows) = n
    BY <1>2, <1>3, SeqDef, LenProperties
  <1>5. rows \in Injection(1 .. n, S)
    BY <1>2 DEF Injection, IsInjective
  <1>6. Cardinality(1 .. n) = n
    BY <1>3, FS_Interval
  <1>7. rows \in Surjection(1 .. n, S)
    BY <1>1, <1>5, <1>6, FS_Injection DEF n
  <1> QED  BY <1>1, <1>2, <1>4, <1>7 DEF Surjection, n

LEMMA FlushInv ==
    ASSUME EngineTyped, \A o \in Requests : Booked(o), Flush
    PROVE  EngineTyped' /\ \A o \in Requests : Booked(o)'
  <1>1. /\ UNCHANGED <<trueFree, skips, vllmVars, reqTable, known, prefillDone, count, ids, rowIds,
                       cur, ret, todo>>
        /\ pc = "promote" /\ pc' = "patch"
        /\ acc' = {} /\ meta' \in Orders(Active)
        /\ pending' = pending \/ pending' = Append(pending, acc)
    BY DEF Flush
  <1>2. \A o \in Requests : Booked(o)'
    BY <1>1, BookedQuiet
  <1>3. meta' \in Seq(Requests)
    <2>1. Active \subseteq Requests
      BY DEF Active, EngineTyped
    <2>2. PICK rows \in Orders(Active) : meta' = rows
      BY <1>1
    <2> QED  BY <2>1, <2>2, OrderFacts
  <1>4. pending' \in Seq(SUBSET StoreEntry)
    <2>1. pending \in Seq(SUBSET StoreEntry) /\ acc \in SUBSET StoreEntry
      BY DEF EngineTyped
    <2>2. Append(pending, acc) \in Seq(SUBSET StoreEntry)
      BY <2>1, AppendProperties
    <2> QED  BY <1>1, <2>1, <2>2
  <1>5. EngineTyped'
    BY <1>1, <1>3, <1>4 DEF EngineTyped, vllmVars
  <1> QED  BY <1>2, <1>5

\* split_decodes_and_prefills counts the rows before the first of several tokens.
LEMMA NumDecodesForm ==
    ASSUME EngineTyped, \A o \in Requests : Booked(o), NEW rows \in RowOrders
    PROVE  /\ NumDecodes(rows) \in 0 .. Len(rows)
           /\ \A a \in 1 .. NumDecodes(rows) : sched[rows[a]] = 1
           /\ NumDecodes(rows) < Len(rows) => sched[rows[NumDecodes(rows) + 1]] > 1
  <1>1. rows \in Orders(Scheduled) /\ Scheduled \subseteq Requests
    BY DEF RowOrders, Scheduled
  <1>2. rows \in Seq(Scheduled)
    BY <1>1, OrderFacts
  <1>3. PICK k \in Nat : k = Len(rows)
    BY <1>2, LenProperties
  <1>4. \A a \in 1 .. k : rows[a] \in Scheduled
    BY <1>2, <1>3, ElementOfSeq
  <1>5. \A q \in Scheduled : sched[q] \in Nat /\ sched[q] >= 1
    BY DEF Scheduled, Booked, EngineTyped
  <1>6. \E n \in 0 .. k : /\ \A a \in 1 .. n : sched[rows[a]] = 1
                          /\ n < k => sched[rows[n + 1]] > 1
    <2>1. PICK T : T = {a \in 1 .. k : sched[rows[a]] > 1}
      OBVIOUS
    <2>2. CASE T = {}
      <3>1. \A a \in 1 .. k : sched[rows[a]] = 1
        BY <1>4, <1>5, <2>1, <2>2
      <3> QED  BY <3>1
    <2>3. CASE T # {}
      <3>1. T \in SUBSET Nat
        BY <2>1
      <3>2. PICK m \in T : \A x \in T : m <= x
        BY <2>3, <3>1, LeastElement
      <3>3. m \in 1 .. k /\ sched[rows[m]] > 1 /\ m - 1 \in 0 .. k /\ (m - 1) + 1 = m
        BY <2>1, <3>2
      <3>4. ASSUME NEW a \in 1 .. m - 1 PROVE sched[rows[a]] = 1
        <4>1. a \in 1 .. k /\ a < m
          BY <3>3
        <4>2. a \notin T
          BY <3>1, <3>2, <4>1
        <4> QED  BY <1>4, <1>5, <2>1, <4>1, <4>2
      <3> QED  BY <3>3, <3>4
    <2> QED  BY <2>2, <2>3
  <1> QED  BY <1>3, <1>6 DEF NumDecodes

\* The ids a patch uses are requests.
LEMMA PatchIdsType ==
    ASSUME EngineTyped, \A o \in Requests : Booked(o), NEW rows \in RowOrders
    PROVE  PatchIds(rows) \in Seq(Requests)
  <1>1. rows \in Orders(Scheduled) /\ Scheduled \subseteq Requests
    BY DEF RowOrders, Scheduled
  <1>2. rows \in Seq(Requests)
    BY <1>1, OrderFacts
  <1>3. PICK n \in 0 .. Len(rows) : n = NumDecodes(rows)
    BY NumDecodesForm
  <1>4. SubSeq(rows, 1, n) \in Seq(Requests)
    BY <1>2, <1>3, SubSeqProperties, LenProperties
  <1> QED  BY <1>3, <1>4 DEF PatchIds, EngineTyped

LEMMA PatchInv ==
    ASSUME EngineTyped, \A o \in Requests : Booked(o), BuildAndPatch \/ PatchRaises
    PROVE  EngineTyped' /\ \A o \in Requests : Booked(o)'
  <1>1. /\ UNCHANGED <<vllmVars, connVars, meta, cur, ret, todo>>
        /\ pc = "patch" /\ pc' \in {"run", "crashed"}
    BY DEF BuildAndPatch, PatchRaises
  <1>2. PICK rows \in RowOrders :
          /\ ids' = PatchIds(rows)
          /\ \/ rowIds' = [q \in Requests |->
                                IF \E b \in DOMAIN PatchIds(rows) : rows[b] = q
                                    THEN PatchIds(rows)[CHOOSE b \in DOMAIN PatchIds(rows) : rows[b] = q]
                                    ELSE None]
             \/ rowIds' = [q \in Requests |-> None]
    <2>1. CASE BuildAndPatch
      BY <2>1 DEF BuildAndPatch
    <2>2. CASE PatchRaises
      <3>1. PICK rows \in RowOrders : ids' = PatchIds(rows)
        BY <2>2 DEF PatchRaises
      <3>2. rowIds' = [q \in Requests |-> None]
        BY <2>2 DEF PatchRaises
      <3> QED  BY <3>1, <3>2
    <2> QED  BY <2>1, <2>2
  <1> DEFINE use == PatchIds(rows)
  <1> HIDE DEF use
  <1>3. use \in Seq(Requests)
    BY <1>2, PatchIdsType DEF use
  <1>4. \A b \in DOMAIN use : use[b] \in Requests
    BY <1>3, LenProperties, ElementOfSeq
  <1>5. rowIds' \in [Requests -> Requests \cup {None}]
    <2>1. CASE rowIds' = [q \in Requests |-> None]
      BY <2>1
    <2>2. CASE rowIds' = [q \in Requests |->
                                IF \E b \in DOMAIN use : rows[b] = q
                                    THEN use[CHOOSE b \in DOMAIN use : rows[b] = q]
                                    ELSE None]
      BY <1>4, <2>2
    <2> QED  BY <1>2, <2>1, <2>2 DEF use
  <1>6. \A o \in Requests : Booked(o)'
    BY <1>1, BookedQuiet DEF connVars
  <1>7. EngineTyped'
    BY <1>1, <1>2, <1>3, <1>5 DEF EngineTyped, vllmVars, connVars, use
  <1> QED  BY <1>6, <1>7

LEMMA RunInv ==
    ASSUME EngineTyped, \A o \in Requests : Booked(o), Run
    PROVE  EngineTyped' /\ \A o \in Requests : Booked(o)'
  <1>1. /\ pc = "run" /\ pc' = "attended"
        /\ computed' = [q \in Requests |-> computed[q] + sched[q]]
        /\ ids' \in {ids, meta} /\ meta' = <<>>
        /\ UNCHANGED <<status, table, rowTable, sched, kind, fresh, preempts, connVars, rowIds,
                       cur, ret, todo>>
    BY DEF Run, BoundIds
  <1>2. ASSUME NEW q \in Requests
        PROVE  /\ total'[q] \in Nat /\ total[q] <= total'[q]
               /\ total'[q] <= PromptLen[q] + MaxNew
               /\ computed'[q] \in Nat /\ computed'[q] = computed[q] + sched[q]
    <2>1. \/ total'[q] = total[q]
          \/ total'[q] = total[q] + 1 /\ total[q] < PromptLen[q] + MaxNew
      BY DEF Run
    <2>2. total[q] \in Nat /\ PromptLen[q] \in Nat /\ total[q] <= PromptLen[q] + MaxNew
      BY PromptFits DEF EngineTyped, Booked
    <2>3. computed[q] \in Nat /\ sched[q] \in Nat
      BY DEF EngineTyped
    <2> QED  BY <1>1, <2>1, <2>2, <2>3
  <1>3. computed' \in [Requests -> Nat] /\ total' \in [Requests -> Nat]
    <2>1. DOMAIN total' = Requests /\ total' = [q \in Requests |-> total'[q]]
      BY DEF Run
    <2> QED  BY <1>1, <1>2, <2>1
  <1>4. EngineTyped'
    <2>1. ids' \in Seq(Requests) /\ meta' \in Seq(Requests)
      BY <1>1 DEF EngineTyped
    <2> QED  BY <1>1, <1>3, <2>1 DEF EngineTyped, connVars
  <1>5. ASSUME NEW q \in Requests PROVE Booked(q)'
    <2>1. /\ sched'[q] = sched[q] /\ kind'[q] = kind[q] /\ fresh'[q] = fresh[q]
          /\ status'[q] = status[q] /\ table'[q] = table[q] /\ rowTable'[q] = rowTable[q]
          /\ reqTable'[q] = reqTable[q]
      BY <1>1 DEF connVars
    <2>2. Progress(q) = computed[q] + sched[q] /\ Progress(q)' = computed'[q] + 0
      BY <1>1 DEF Progress
    <2>3. Progress(q)' = Progress(q)
      BY <1>2, <2>2
    <2>4. BlocksFor(Progress(q))' = BlocksFor(Progress(q))
      BY <2>3 DEF BlocksFor
    <2>5. Progress(q)' <= total'[q]
      <3>1. Progress(q) <= total[q] /\ Progress(q) \in Nat /\ total[q] \in Nat
        BY <1>2, <2>2 DEF Booked, EngineTyped
      <3> QED  BY <1>2, <2>3, <3>1
    <2> QED  BY <1>1, <1>2, <2>1, <2>3, <2>4, <2>5 DEF Booked
  <1> QED  BY <1>4, <1>5

\* A completed store names the page that entry i of q's table holds.
Hit(done, q, i) == \E e \in done : e.ref = <<q, i - 1>> /\ table[q][i] = e.page

\* Block table surgery keeps lengths; an entry stays or becomes the null block.
LEMMA SurgeryTables ==
    ASSUME EngineTyped, NEW done, Surgery(done), NEW q \in Requests
    PROVE  /\ table'[q] \in Seq(Pages) /\ Len(table'[q]) = Len(table[q])
           /\ reqTable'[q] \in Seq(Pages) /\ Len(reqTable'[q]) = Len(reqTable[q])
           /\ DOMAIN table[q] = 1 .. Len(table[q]) /\ DOMAIN reqTable[q] = 1 .. Len(reqTable[q])
           /\ \A i \in DOMAIN table[q] :
                table'[q][i] = IF Hit(done, q, i) THEN NullPage ELSE table[q][i]
           /\ \A i \in DOMAIN reqTable[q] :
                reqTable'[q][i] = IF i \in DOMAIN table[q] /\ Hit(done, q, i)
                                     THEN NullPage ELSE reqTable[q][i]
  <1>1. /\ table'[q] = [i \in DOMAIN table[q] |-> IF Hit(done, q, i) THEN NullPage ELSE table[q][i]]
        /\ reqTable'[q] = [i \in DOMAIN reqTable[q] |->
                              IF i \in DOMAIN table[q] /\ Hit(done, q, i) THEN NullPage ELSE reqTable[q][i]]
    BY DEF Surgery, Hit
  <1>2. table[q] \in Seq(Pages) /\ reqTable[q] \in Seq(Pages) /\ NullPage \in Pages
    BY DEF EngineTyped
  <1>3. /\ Len(table[q]) \in Nat /\ DOMAIN table[q] = 1 .. Len(table[q])
        /\ Len(reqTable[q]) \in Nat /\ DOMAIN reqTable[q] = 1 .. Len(reqTable[q])
        /\ \A i \in DOMAIN table[q] : table[q][i] \in Pages
        /\ \A i \in DOMAIN reqTable[q] : reqTable[q][i] \in Pages
    BY <1>2, LenProperties, ElementOfSeq
  <1>4. /\ table'[q] \in [1 .. Len(table[q]) -> Pages]
        /\ reqTable'[q] \in [1 .. Len(reqTable[q]) -> Pages]
    BY <1>1, <1>2, <1>3
  <1>5. ASSUME NEW n \in Nat, NEW s \in [1 .. n -> Pages] PROVE s \in Seq(Pages) /\ Len(s) = n
    BY <1>5, SeqDef, LenProperties
  <1>6. /\ table'[q] \in Seq(Pages) /\ Len(table'[q]) = Len(table[q])
        /\ reqTable'[q] \in Seq(Pages) /\ Len(reqTable'[q]) = Len(reqTable[q])
    BY <1>3, <1>4, <1>5
  <1>7. /\ \A i \in DOMAIN table[q] :
             table'[q][i] = IF Hit(done, q, i) THEN NullPage ELSE table[q][i]
        /\ \A i \in DOMAIN reqTable[q] :
             reqTable'[q][i] = IF i \in DOMAIN table[q] /\ Hit(done, q, i) THEN NullPage ELSE reqTable[q][i]
    BY <1>1
  <1> QED  BY <1>3, <1>6, <1>7

LEMMA ReportInv ==
    ASSUME EngineTyped, \A o \in Requests : Booked(o), NEW k \in 0 .. Len(pending), Report(k)
    PROVE  EngineTyped' /\ \A o \in Requests : Booked(o)'
  <1>1. /\ pc \in {"attended", "report"} /\ pc' = "sched"
        /\ pending' = SubSeq(pending, k + 1, Len(pending))
        /\ sched' = [q \in Requests |-> 0]
        /\ kind' = [q \in Requests |-> "no"]
        /\ fresh' = [q \in Requests |-> 0]
        /\ rowIds' = [q \in Requests |-> None]
        /\ UNCHANGED <<trueFree, skips, vars, status, rowTable, computed, total, preempts, known,
                       prefillDone, count, acc, ids, meta, cur, ret, todo>>
    BY DEF Report
  <1>2. pending' \in Seq(SUBSET StoreEntry)
    <2>1. pending \in Seq(SUBSET StoreEntry)
      BY DEF EngineTyped
    <2>2. Len(pending) \in Nat
      BY <2>1, LenProperties
    <2>3. k + 1 \in 1 .. Len(pending) + 1
      BY <2>2
    <2> QED  BY <1>1, <2>1, <2>2, <2>3, SubSeqProperties
  <1>3. /\ table' \in [Requests -> Seq(Pages)] /\ reqTable' \in [Requests -> Seq(Pages)]
        /\ \A q \in Requests : Len(table'[q]) = Len(table[q]) /\ Len(reqTable'[q]) = Len(reqTable[q])
    <2>1. CASE UNCHANGED <<table, reqTable>>
      BY <2>1 DEF EngineTyped
    <2>2. CASE Surgery(UNION {pending[j] : j \in 1 .. k})
      <3>1. PICK done : Surgery(done)
        BY <2>2
      <3>2. /\ table' = [q \in Requests |-> table'[q]]
            /\ reqTable' = [q \in Requests |-> reqTable'[q]]
        BY <3>1 DEF Surgery
      <3> QED  BY <3>1, <3>2, SurgeryTables
    <2> QED  BY <2>1, <2>2 DEF Report
  <1>4. EngineTyped'
    BY <1>1, <1>2, <1>3 DEF EngineTyped
  <1>5. ASSUME NEW q \in Requests PROVE Booked(q)'
    <2>1. /\ sched'[q] = 0 /\ kind'[q] = "no" /\ fresh'[q] = 0 /\ computed'[q] = computed[q]
          /\ status'[q] = status[q] /\ total'[q] = total[q] /\ rowTable'[q] = rowTable[q]
      BY <1>1
    <2>2. Progress(q)' = computed[q] + 0 /\ Progress(q) = computed[q] + 0
      BY <1>1, <2>1 DEF Progress
    <2>3. BlocksFor(Progress(q))' = BlocksFor(Progress(q))
      BY <2>2 DEF BlocksFor
    <2>4. table'[q] \in Seq(Pages) /\ Len(table'[q]) = Len(table[q]) /\ Len(table[q]) \in Nat
      BY <1>3, LenProperties DEF EngineTyped
    <2>5. status[q] = "finished" => table'[q] = <<>>
      BY <2>4, EmptySeq DEF Booked
    <2>6. Len(reqTable'[q]) <= MaxBlocks /\ 0 <= MaxChunk
      <3>1. Len(reqTable[q]) <= MaxBlocks
        BY DEF Booked
      <3> QED  BY <1>3, <3>1
    <2> QED  BY <1>1, <2>1, <2>2, <2>3, <2>4, <2>5, <2>6, SMTT(30) DEF Booked
  <1> QED  BY <1>4, <1>5

\* Every step keeps the engine's invariant.
LEMMA EngineNextInv == EngineInv /\ [EngineNext]_allVars => EngineInv'
  <1> SUFFICES ASSUME EngineInv, [EngineNext]_allVars PROVE EngineInv'
    OBVIOUS
  <1>1. IInv'
    BY TablesStep, NextIInv DEF EngineInv
  <1>2. IInv /\ EngineTyped /\ \A q \in Requests : Booked(q)
    BY DEF EngineInv
  <1> DEFINE Goal == EngineTyped' /\ \A q \in Requests : Booked(q)'
  <1>3. ASSUME NEW q \in Requests, NEW n \in 1 .. MaxChunk, Schedule(q, n) PROVE Goal
    BY <1>2, <1>3, ScheduleInv
  <1>4. ASSUME NEW q \in Requests, Preempt(q) PROVE Goal
    BY <1>2, <1>4, PreemptInv
  <1>5. ASSUME NEW q \in Requests, RequestFinished(q) PROVE Goal
    BY <1>2, <1>5, RequestFinishedInv
  <1>6. ASSUME NEW q \in Requests, MetaNew(q) \/ MetaCached(q) PROVE Goal
    BY <1>2, <1>6, SyncedInv
  <1>7. ASSUME StartMeta \/ MetaPrefillDone \/ MetaPrefillNotDone \/ OnDecode \/ NotDecoding
                 \/ MetaListDone
        PROVE  Goal
    BY <1>2, <1>7, MetaStepInv
  <1>8. ASSUME Trigger \/ TriggerRaises PROVE Goal
    BY <1>2, <1>8, TriggerInv
  <1>9. ASSUME NEW q \in Requests, Promote(q) \/ PromoteAborts(q) PROVE Goal
    BY <1>2, <1>9, PromoteInv
  <1>10. ASSUME Flush PROVE Goal
    BY <1>2, <1>10, FlushInv
  <1>11. ASSUME BuildAndPatch \/ PatchRaises PROVE Goal
    BY <1>2, <1>11, PatchInv
  <1>12. ASSUME Run PROVE Goal
    BY <1>2, <1>12, RunInv
  <1>13. ASSUME NEW k \in 0 .. Len(pending), Report(k) PROVE Goal
    BY <1>2, <1>13, ReportInv
  <1>14. ASSUME UNCHANGED allVars PROVE Goal
    <2>1. UNCHANGED <<vllmVars, connVars, rowVars, pcVars>>
      BY <1>14 DEF allVars, engineVars
    <2>2. \A q \in Requests : Booked(q)'
      BY <1>2, <2>1, BookedQuiet DEF connVars, pcVars
    <2>3. EngineTyped'
      BY <1>2, <2>1 DEF EngineTyped, vllmVars, connVars, rowVars, pcVars
    <2> QED  BY <2>2, <2>3
  <1> HIDE DEF Goal
  <1>15. Goal
    BY <1>3, <1>4, <1>5, <1>6, <1>7, <1>8, <1>9, <1>10, <1>11, <1>12, <1>13, <1>14
    DEF EngineNext
  <1> QED  BY <1>1, <1>15 DEF EngineInv, Goal

\* The bookkeeping of the engine holds in every behaviour.
THEOREM EngineInvariant == EngineSpec => []EngineInv
  BY EngineInitInv, EngineNextInv, PTL DEF EngineSpec

\* The tables behind the connector are only ever changed by their own
\* operations, called as their specification allows: block tables of at most
\* MaxBlocks pages, token counts that vLLM has booked, candidates that are
\* complete GPU blocks (sync_request_blocks, _trigger_global_offload,
\* prepare_staging, promote_hot_cpu_blocks and request_finished, through
\* exceptions, preemptions and skipped requests).
THEOREM EngineUsesTables == EngineSpec => UsesTables
  <1>1. EngineInit => Init
    BY DEF EngineInit
  <1>2. EngineInv /\ [EngineNext]_allVars => [Next]_vars
    BY TablesStep
  <1>3. EngineSpec => Init /\ [][Next]_vars
    BY <1>1, <1>2, EngineInvariant, PTL DEF EngineSpec
  <1> QED  BY <1>3 DEF UsesTables, Spec

LEMMA InFlightType ==
    ASSUME EngineTyped PROVE InFlight \subseteq StoreEntry
  <1>1. acc \subseteq StoreEntry /\ pending \in Seq(SUBSET StoreEntry)
    BY DEF EngineTyped
  <1>2. \A j \in DOMAIN pending : pending[j] \in SUBSET StoreEntry
    BY <1>1, LenProperties, ElementOfSeq
  <1> QED  BY <1>1, <1>2 DEF InFlight, Entries

\* Every variable of the engine keeps its type.
THEOREM EngineTypeCorrect == EngineSpec => []EngineTypeOK
  <1>1. ASSUME EngineInv PROVE EngineTypeOK
    <2>1. EngineTyped /\ TypeOK /\ \A q \in Requests : Booked(q)
      BY <1>1 DEF EngineInv, IInv
    <2>2. ASSUME NEW q \in Requests, NEW t \in {table[q], rowTable[q], reqTable[q]}
          PROVE  Len(t) <= MaxBlocks /\ Entries(t) \subseteq Pages
      <3>1. t \in Seq(Pages)
        <4>1. table[q] \in Seq(Pages) /\ rowTable[q] \in Seq(Pages) /\ reqTable[q] \in Seq(Pages)
          BY <2>1 DEF EngineTyped
        <4> QED  BY <2>2, <4>1
      <3>2. Entries(t) \subseteq Pages
        BY <3>1, LenProperties, ElementOfSeq DEF Entries
      <3>3. Len(t) <= MaxBlocks
        BY <2>1, <2>2, BookedFits DEF Booked
      <3> QED  BY <3>2, <3>3
    <2>3. ASSUME NEW q \in Requests
          PROVE  /\ computed[q] \in 0 .. total[q] /\ total[q] \in 0 .. MaxTokens
                 /\ sched[q] \in 0 .. MaxChunk /\ fresh[q] \in 0 .. MaxBlocks
                 /\ count[q] \in Nat
      <3>1. computed[q] \in Nat /\ sched[q] \in Nat /\ fresh[q] \in Nat /\ count[q] \in Nat
        BY <2>1 DEF EngineTyped
      <3>2. sched[q] <= MaxChunk /\ fresh[q] <= MaxBlocks
        BY <2>1 DEF Booked
      <3>3. computed[q] <= total[q] /\ total[q] \in 0 .. MaxTokens
        BY <2>1, BookedFits
      <3> QED  BY <3>1, <3>2, <3>3
    <2>4. \A e \in InFlight : e.ref \in Refs /\ e.page \in Pages
      BY <2>1, InFlightType DEF StoreEntry
    <2>5. Entries(ids) \cup Entries(meta) \subseteq Requests
      <3>1. ids \in Seq(Requests) /\ meta \in Seq(Requests)
        BY <2>1 DEF EngineTyped
      <3> QED  BY <3>1, LenProperties, ElementOfSeq DEF Entries
    <2> QED  BY <2>1, <2>2, <2>3, <2>4, <2>5 DEF EngineTyped, EngineTypeOK
  <1> QED  BY <1>1, EngineInvariant, PTL

\* Inside an engine no CPU or staging slot leaks or is handed out twice, the
\* LRU agrees with the residency table and the CPU counter is exact.
THEOREM EngineKeepsTables ==
    EngineSpec => [](CpuSlotsConserved /\ StagingSlotsConserved /\ LruMatchesResidency
                       /\ CpuCountExact)
  <1>1. EngineInv => CpuSlotsConserved /\ StagingSlotsConserved /\ LruMatchesResidency
                       /\ CpuCountExact
    BY DEF EngineInv, IInv
  <1> QED  BY <1>1, EngineInvariant, PTL

-----------------------------------------------------------------------------
(* What the operations of the tables do to entries *)

\* Blocks move between GPU, CPU and staging: nothing else of an entry changes,
\* and what leaves the GPU is complete.
Moved ==
    /\ tracked' = tracked
    /\ kv' = kv
    /\ \A ref \in Refs :
          /\ loc'[ref].page = loc[ref].page
          /\ loc'[ref].complete = loc[ref].complete
          /\ loc'[ref].res = "none" <=> loc[ref].res = "none"
          /\ ref \in Frozen => ref \in Frozen'
          /\ ref \in Frozen' => ref \in Frozen \/ loc[ref].complete = TRUE

LEMMA FrozenMeans ==
    ASSUME NEW ref \in Refs
    PROVE  /\ ref \in Frozen <=> loc[ref].res \in {"cpu", "staging"}
           /\ ref \in Frozen' <=> loc'[ref].res \in {"cpu", "staging"}
  BY DEF Frozen, RefsAt

LEMMA UnmovedMoved ==
    ASSUME tracked' = tracked, kv' = kv, loc' = loc PROVE Moved
  BY DEF Moved, Frozen, RefsAt

LEMMA CompleteKept ==
    ASSUME NEW o, NEW slot
    PROVE  /\ MarkCpu(o, slot).complete = o.complete
           /\ MarkStaging(o, slot).complete = o.complete
  BY DEF MarkCpu, MarkStaging

LEMMA StoreBatchMoved ==
    ASSUME NEW E, E \subseteq GpuComplete, NEW f, StoreBatch(E, f), tracked' = tracked, kv' = kv
    PROVE  Moved
  <1>1. ASSUME NEW ref \in Refs
        PROVE  /\ loc'[ref].page = loc[ref].page
               /\ loc'[ref].complete = loc[ref].complete
               /\ loc'[ref].res = "none" <=> loc[ref].res = "none"
               /\ ref \in Frozen => ref \in Frozen'
               /\ ref \in Frozen' => ref \in Frozen \/ loc[ref].complete = TRUE
    <2>1. CASE ref \in E
      <3>1. loc'[ref] = MarkCpu(loc[ref], f[ref])
        BY <2>1 DEF StoreBatch
      <3>2. loc[ref].res = "gpu" /\ loc[ref].complete = TRUE
        BY <2>1 DEF GpuComplete, RefsAt
      <3> QED  BY <3>1, <3>2, MarkCpuFields, CompleteKept, FrozenMeans
    <2>2. CASE ref \notin E
      <3>1. loc'[ref] = loc[ref]
        BY <2>2 DEF StoreBatch
      <3> QED  BY <3>1, FrozenMeans
    <2> QED  BY <2>1, <2>2
  <1> QED  BY <1>1 DEF Moved

LEMMA TriggerMoved ==
    ASSUME NEW allowed, TriggerOffload(allowed) PROVE Moved
  <1>0. tracked' = tracked /\ kv' = kv
    BY DEF TriggerOffload
  <1>1. PICK eligible : eligible = allowed \cap scored' \cap GpuComplete
    OBVIOUS
  <1>2. \/ Offload(eligible, NumToOffload(Cardinality(eligible)))
        \/ UNCHANGED <<tableVars, cpuFree, cpuMem>>
    BY <1>1 DEF TriggerOffload, OffloadFraction
  <1>3. CASE loc' = loc
    BY <1>0, <1>3, UnmovedMoved
  <1>4. CASE \E E \in SUBSET eligible : \E f : StoreBatch(E, f)
    <2>1. PICK E \in SUBSET eligible : \E f : StoreBatch(E, f)
      BY <1>4
    <2>2. PICK f : StoreBatch(E, f)
      BY <2>1
    <2>3. E \subseteq GpuComplete
      BY <1>1
    <2> QED  BY <1>0, <2>2, <2>3, StoreBatchMoved
  <1>5. loc' = loc \/ \E E \in SUBSET eligible : \E f : StoreBatch(E, f)
    <2>1. CASE UNCHANGED <<tableVars, cpuFree, cpuMem>>
      BY <2>1 DEF tableVars
    <2>2. PICK n : n = NumToOffload(Cardinality(eligible))
      OBVIOUS
    <2>3. CASE \E E \in EvictionChoices(eligible, n) : \E f \in [E -> cpuFree] :
                  StoreBatch(E, f) \/ StoreBatchFails(E, f)
      <3>1. PICK E \in EvictionChoices(eligible, n) : \E f \in [E -> cpuFree] :
                  StoreBatch(E, f) \/ StoreBatchFails(E, f)
        BY <2>3
      <3>2. PICK f \in [E -> cpuFree] : StoreBatch(E, f) \/ StoreBatchFails(E, f)
        BY <3>1
      <3>3. E \in SUBSET eligible
        BY DEF EvictionChoices
      <3>4. CASE StoreBatchFails(E, f)
        BY <3>4 DEF StoreBatchFails, tableVars
      <3> QED  BY <3>2, <3>3, <3>4
    <2> QED  BY <1>2, <2>1, <2>2, <2>3 DEF Offload
  <1> QED  BY <1>3, <1>4, <1>5

LEMMA EnsureResidentMoved ==
    ASSUME NEW refs, NEW armed,
           EnsureResident(refs, armed) \/ EnsureResidentRaises(refs, armed)
    PROVE  Moved
  <1>0. tracked' = tracked /\ kv' = kv
    BY DEF EnsureResident, EnsureResidentRaises
  <1>1. PICK A, f, hits :
          /\ A \in SUBSET RefsAt("cpu")
          /\ StageBatch(hits, A, f) \/ StageBatchFails(A, f)
    BY DEF EnsureResident, EnsureResidentRaises
  <1>2. PICK out : out = Evicted(A, f)
    OBVIOUS
  <1>3. out \subseteq RefsAt("staging") /\ A \subseteq RefsAt("cpu")
    BY <1>1, <1>2 DEF Evicted, Evictable, RefsAt
  <1>4. ASSUME NEW ref \in Refs
        PROVE  \/ loc'[ref] = loc[ref]
               \/ ref \in Frozen /\ \E s : loc'[ref] = MarkStaging(loc[ref], s)
               \/ ref \in Frozen /\ \E s : loc'[ref] = MarkCpu(loc[ref], s)
    <2>1. \/ loc'[ref] = loc[ref]
          \/ ref \in A /\ loc'[ref] = MarkStaging(loc[ref], f[ref])
          \/ ref \in out /\ loc'[ref] = MarkCpu(loc[ref], loc[ref].cpu)
      BY <1>1, <1>2 DEF StageBatch, StageBatchFails
    <2> QED  BY <1>3, <2>1 DEF Frozen
  <1>5. ASSUME NEW ref \in Refs
        PROVE  /\ loc'[ref].page = loc[ref].page
               /\ loc'[ref].complete = loc[ref].complete
               /\ loc'[ref].res = "none" <=> loc[ref].res = "none"
               /\ ref \in Frozen => ref \in Frozen'
               /\ ref \in Frozen' => ref \in Frozen \/ loc[ref].complete = TRUE
    BY <1>4, MarkCpuFields, MarkStagingFields, CompleteKept, FrozenMeans
  <1> QED  BY <1>0, <1>5 DEF Moved

\* A block that is off the GPU after a step has the value it had before: the
\* tables implement the abstract store.
LEMMA FrozenKeepsValue ==
    ASSUME IInv, IInv', [Next]_vars, NEW ref \in Refs, ref \in Frozen'
    PROVE  View'[ref] = View[ref]
  <1>1. [Store!Next]_Store!vars
    BY NextImplements
  <1>2. CASE Store!Rewrite
    BY <1>2 DEF Store!Rewrite
  <1>3. CASE \E S \in SUBSET {r \in Refs : View[r] # None} : Store!Freeze(S)
    BY <1>3 DEF Store!Freeze
  <1>4. CASE \E S \in SUBSET Refs : Store!Drop(S)
    BY <1>4 DEF Store!Drop
  <1>5. CASE UNCHANGED Store!vars
    BY <1>5 DEF Store!vars
  <1> QED  BY <1>1, <1>2, <1>3, <1>4, <1>5 DEF Store!Next

\* Where the block of a known entry sits in vLLM's table.
LEMMA KnownBlock ==
    ASSUME EngineInv, Mirrored, Owned, NEW q \in Requests, NEW i \in 0 .. MaxBlocks - 1,
           loc[<<q, i>>].res # "none"
    PROVE  /\ i + 1 \in DOMAIN table[q] /\ DOMAIN table[q] = 1 .. Len(table[q])
           /\ i < Len(reqTable[q]) /\ Len(reqTable[q]) <= Len(table[q])
           /\ Len(table[q]) \in Nat /\ Len(reqTable[q]) \in Nat
  <1>1. table[q] \in Seq(Pages) /\ reqTable[q] \in Seq(Pages) /\ fresh[q] \in Nat
    BY DEF EngineInv, EngineTyped
  <1>2. /\ DOMAIN table[q] = 1 .. Len(table[q]) /\ Len(table[q]) \in Nat
        /\ Len(reqTable[q]) \in Nat
    BY <1>1, LenProperties
  <1>3. i < Len(reqTable[q])
    BY DEF Owned, Listed
  <1>4. Len(reqTable[q]) <= Len(table[q])
    BY <1>1, <1>2, SMTT(30) DEF Mirrored
  <1> QED  BY <1>2, <1>3, <1>4

\* A complete GPU block's page holds the block's rows.
LEMMA CompleteHoldsOwn ==
    ASSUME EngineInv, Mirrored, Owned, NEW ref \in GpuComplete
    PROVE  View[ref] = ref
  <1>1. /\ ref \in Refs /\ loc[ref].res = "gpu" /\ loc[ref].complete
        /\ ref \in RefsAt("gpu") /\ ref \notin Frozen
    BY DEF GpuComplete, RefsAt, Frozen
  <1>2. PICK q \in Requests, i \in 0 .. MaxBlocks - 1 : ref = <<q, i>>
    BY <1>1 DEF Refs
  <1>3. i + 1 \in DOMAIN table[q] /\ (i + 1) - 1 = i
    BY <1>1, <1>2, KnownBlock
  <1>4. loc[ref].page = table[q][i + 1]
    BY <1>1, <1>2 DEF Owned, OwnPages
  <1>5. table[q][i + 1] # NullPage
    BY <1>1, <1>2, <1>3 DEF Owned, NullMeansFreed
  <1>6. Filled(i, computed[q])
    BY <1>1, <1>2 DEF Owned, CompleteIsFull
  <1>7. kv[table[q][i + 1]] = <<q, i>>
    BY <1>3, <1>5, <1>6 DEF Owned, PagesHoldOwn
  <1> QED  BY <1>1, <1>2, <1>4, <1>7, ViewAt

LEMMA OffloadedKept ==
    ASSUME EngineInv, IInv', Mirrored, Owned, [Next]_vars,
           \A ref \in Refs : ref \in Frozen' => ref \in Frozen \/ ref \in GpuComplete
    PROVE  OffloadedHoldsOwn'
  <1> SUFFICES ASSUME NEW ref \in Frozen' PROVE View'[ref] = ref
    BY DEF OffloadedHoldsOwn
  <1>1. ref \in Refs
    BY DEF Frozen, RefsAt
  <1>2. View'[ref] = View[ref]
    BY <1>1, FrozenKeepsValue DEF EngineInv
  <1>3. View[ref] = ref
    BY <1>1, CompleteHoldsOwn DEF Owned, OffloadedHoldsOwn
  <1> QED  BY <1>2, <1>3

\* Moving blocks disturbs no ownership.
LEMMA MovedOwned ==
    ASSUME EngineInv, IInv', Mirrored, Owned, [Next]_vars, Moved,
           UNCHANGED <<table, rowTable, computed, reqTable, trueFree>>
    PROVE  Owned' /\ \A ref \in Frozen : ref \in Frozen'
  <1>1. Frozen \subseteq Refs /\ Frozen' \subseteq Refs /\ \A ref \in Frozen : ref \in Frozen'
    BY DEF Frozen, RefsAt, Moved
  <1>2. \A ref \in Refs : loc[ref].res \in {"none", "gpu", "cpu", "staging"}
    BY LocationFields DEF EngineInv, IInv, TypeOK
  <1>3. Listed'
    <2>1. \A q \in Requests, i \in 0 .. MaxBlocks - 1 : <<q, i>> \in Refs
      BY DEF Refs
    <2> QED  BY <2>1 DEF Owned, Listed, Moved
  <1>4. OwnPages'
    <2>1. ASSUME NEW ref \in RefsAt("gpu")' PROVE ref \in RefsAt("gpu") /\ loc'[ref].page = loc[ref].page
      <3>1. ref \in Refs /\ loc'[ref].res = "gpu"
        BY DEF RefsAt
      <3>2. loc[ref].res # "none" /\ ref \notin Frozen
        BY <3>1, FrozenMeans DEF Moved
      <3> QED  BY <1>2, <3>1, <3>2, FrozenMeans DEF RefsAt, Moved
    <2> QED  BY <2>1 DEF Owned, OwnPages
  <1>5. NullMeansFreed' /\ OneOwner' /\ PagesHoldOwn'
    <2>1. kv' = kv
      BY DEF Moved
    <2>2. NullMeansFreed'
      BY <1>1 DEF Owned, NullMeansFreed
    <2>3. OneOwner'
      BY DEF Owned, OneOwner
    <2>4. PagesHoldOwn'
      BY <2>1 DEF Owned, PagesHoldOwn, Filled
    <2> QED  BY <2>2, <2>3, <2>4
  <1>6. CompleteIsFull'
    <2>1. \A ref \in Refs : /\ loc'[ref].complete = loc[ref].complete
                            /\ loc'[ref].res # "none" => loc[ref].res # "none"
                            /\ ref \in Frozen' => ref \in Frozen \/ loc[ref].complete
      BY DEF Moved
    <2>2. CompleteIsFull
      BY DEF Owned
    <2> QED  BY <2>1, <2>2 DEF CompleteIsFull, Filled
  <1>7. OffloadedHoldsOwn'
    <2>1. ASSUME NEW ref \in Refs, ref \in Frozen', ref \notin Frozen PROVE ref \in GpuComplete
      <3>1. loc'[ref].res # "none"
        BY <2>1, FrozenMeans
      <3>2. loc[ref].res # "none" /\ loc[ref].complete
        BY <2>1, <3>1 DEF Moved
      <3>3. loc[ref].res = "gpu"
        BY <1>2, <2>1, <3>2, FrozenMeans
      <3> QED  BY <3>2, <3>3 DEF GpuComplete, RefsAt
    <2> QED  BY <2>1, OffloadedKept
  <1> QED  BY <1>1, <1>3, <1>4, <1>5, <1>6, <1>7 DEF Owned

-----------------------------------------------------------------------------
(* Steps that move blocks, or nothing *)

LEMMA MovedHeld ==
    ASSUME EngineInv, IInv', Mirrored, Owned, InFlightOffloaded, [Next]_vars, Moved,
           UNCHANGED <<vllmVars, reqTable, trueFree>>, Unsynced' = Unsynced,
           \A e \in InFlight' : e \in InFlight \/ e.ref \in Frozen'
    PROVE  Mirrored' /\ Owned' /\ InFlightOffloaded'
  <1>0. UNCHANGED <<status, table, rowTable, computed, kind, fresh>>
    BY DEF vllmVars
  <1>1. Owned' /\ \A ref \in Frozen : ref \in Frozen'
    BY <1>0, MovedOwned
  <1>2. Mirrored'
    BY <1>0 DEF Mirrored
  <1>3. InFlightOffloaded'
    BY <1>0, <1>1 DEF InFlightOffloaded
  <1> QED  BY <1>1, <1>2, <1>3

\* The steps of build_connector_meta that leave the tables alone.
LEMMA QuietHeld ==
    ASSUME EngineInv, IInv', Mirrored, Owned, InFlightOffloaded,
           StartMeta \/ MetaPrefillNotDone \/ OnDecode \/ NotDecoding \/ MetaListDone \/ Flush
    PROVE  Mirrored' /\ Owned' /\ InFlightOffloaded'
  <1>1. UNCHANGED vars /\ UNCHANGED <<vllmVars, reqTable, trueFree>>
    BY DEF StartMeta, MetaPrefillNotDone, OnDecode, NotDecoding, MetaListDone, Flush, connVars
  <1>2. Moved /\ [Next]_vars
    BY <1>1, UnmovedMoved DEF vars
  <1>3. Scheduled' = Scheduled
    BY <1>1 DEF Scheduled, vllmVars
  <1>4. Unsynced' = Unsynced
    <2>1. CASE StartMeta
      BY <1>3, <2>1 DEF Unsynced, StartMeta
    <2>2. CASE MetaPrefillNotDone \/ NotDecoding
      BY <1>3, <2>2 DEF Unsynced, MetaPrefillNotDone, NotDecoding
    <2>3. CASE OnDecode
      <3>1. pc = "decode" /\ pc' \in {"trigger", "meta"} /\ todo' = todo
        BY <2>3 DEF OnDecode
      <3> QED  BY <1>3, <3>1 DEF Unsynced
    <2>4. CASE MetaListDone \/ Flush
      <3>1. /\ pc \in {"meta", "promote"} /\ pc' \in {"promote", "patch"}
            /\ pc = "meta" => todo = {}
        BY <2>4 DEF MetaListDone, Flush
      <3> QED  BY <1>3, <3>1 DEF Unsynced
    <2> QED  BY <2>1, <2>2, <2>3, <2>4
  <1>5. \A e \in InFlight' : e \in InFlight
    <2>1. CASE acc' = acc /\ pending' = pending
      BY <2>1 DEF InFlight
    <2>2. CASE Flush
      <3>1. /\ pending \in Seq(SUBSET StoreEntry) /\ acc \in SUBSET StoreEntry
            /\ acc' = {} /\ (pending' = pending \/ pending' = Append(pending, acc))
        BY <2>2 DEF Flush, EngineInv, EngineTyped
      <3>2. CASE pending' = pending
        BY <3>1, <3>2 DEF InFlight
      <3>3. CASE pending' = Append(pending, acc)
        <4>1. /\ DOMAIN pending' = DOMAIN pending \cup {Len(pending) + 1}
              /\ \A j \in DOMAIN pending : pending'[j] = pending[j]
              /\ pending'[Len(pending) + 1] = acc
          BY <3>1, <3>3, AppendIndices
        <4>2. Entries(pending') \subseteq Entries(pending) \cup {acc}
          BY <4>1 DEF Entries
        <4> QED  BY <3>1, <4>2 DEF InFlight
      <3> QED  BY <3>1, <3>2, <3>3
    <2>3. Flush \/ (acc' = acc /\ pending' = pending)
      BY DEF StartMeta, MetaPrefillNotDone, OnDecode, NotDecoding, MetaListDone, connVars
    <2> QED  BY <2>1, <2>2, <2>3
  <1> QED  BY <1>1, <1>2, <1>4, <1>5, MovedHeld

\* A trigger: the blocks that enter a store event are off the GPU.
LEMMA TriggerHeld ==
    ASSUME EngineInv, IInv', Mirrored, Owned, InFlightOffloaded, [Next]_vars, MaxSkips = 0,
           Trigger \/ TriggerRaises
    PROVE  Mirrored' /\ Owned' /\ InFlightOffloaded'
  <1>1. /\ UNCHANGED <<trueFree, vllmVars, reqTable, pending, ret>>
        /\ acc' = acc \/ acc' = acc \cup StoreEntries(Offloaded)
        /\ pc = "trigger"
        /\ \E allowed : TriggerOffload(allowed)
    BY DEF Trigger, TriggerRaises
  <1>2. Moved
    BY <1>1, TriggerMoved
  <1>3. Scheduled' = Scheduled
    BY <1>1 DEF Scheduled, vllmVars
  <1>4. Unsynced' = Unsynced
    <2>1. CASE Trigger
      <3>1. pc' \in {"meta", "decode"} /\ todo' = todo
        BY <2>1 DEF Trigger, EngineInv, EngineTyped
      <3> QED  BY <1>1, <1>3, <3>1 DEF Unsynced
    <2>2. CASE TriggerRaises
      <3>1. skips \in 0 .. 0
        BY DEF EngineInv, EngineTyped
      <3>2. pc' = "patch" /\ todo = {}
        BY <2>2, <3>1 DEF TriggerRaises
      <3> QED  BY <1>1, <1>3, <3>2 DEF Unsynced
    <2> QED  BY <2>1, <2>2
  <1>5. \A e \in StoreEntries(Offloaded) : e.ref \in Frozen'
    BY DEF StoreEntries, Offloaded, Frozen, RefsAt
  <1>6. \A e \in InFlight' : e \in InFlight \/ e.ref \in Frozen'
    BY <1>1, <1>5 DEF InFlight
  <1> QED  BY <1>1, <1>2, <1>4, <1>6, MovedHeld

\* Promotion and the patch of the step: blocks move between CPU and staging.
LEMMA StagingHeld ==
    ASSUME EngineInv, IInv', Mirrored, Owned, InFlightOffloaded, [Next]_vars,
           NEW q, Promote(q) \/ PromoteAborts(q) \/ BuildAndPatch \/ PatchRaises
    PROVE  Mirrored' /\ Owned' /\ InFlightOffloaded'
  <1>1. /\ UNCHANGED <<vllmVars, connVars>>
        /\ pc \in {"promote", "patch"} /\ pc' \in {"promote", "patch", "run", "crashed"}
    BY DEF Promote, PromoteAborts, BuildAndPatch, PatchRaises
  <1>2. Moved
    <2>1. CASE Promote(q)
      BY <2>1, EnsureResidentMoved, UnmovedMoved DEF Promote, PromoteHotCpuBlocks, vars
    <2>2. CASE PromoteAborts(q)
      BY <2>2, EnsureResidentMoved DEF PromoteAborts, PromoteRaises
    <2>3. CASE BuildAndPatch
      BY <2>3, PatchStep, EnsureResidentMoved, UnmovedMoved DEF PrepareStaging, vars
    <2>4. CASE PatchRaises
      BY <2>4, PatchRaisesStep, EnsureResidentMoved DEF PrepareStagingRaises
    <2> QED  BY <2>1, <2>2, <2>3, <2>4
  <1>3. Unsynced = {} /\ Unsynced' = {}
    BY <1>1 DEF Unsynced
  <1>4. InFlight' = InFlight
    BY <1>1 DEF InFlight, connVars
  <1> QED  BY <1>1, <1>2, <1>3, <1>4, MovedHeld DEF connVars

-----------------------------------------------------------------------------
(* sync_request_blocks with vLLM's own table *)

\* What one entry becomes.
LEMMA SyncedEntry ==
    ASSUME NEW o \in Location, NEW page \in Pages, NEW done \in BOOLEAN
    PROVE  LET n == SyncedLocation(o, page, done)
           IN  /\ n.res \in {"cpu", "staging"} <=> o.res \in {"cpu", "staging"}
               /\ n.res # "none"
               /\ n.res = "gpu" => n.page = page
               /\ n.complete => done \/ (o.complete /\ o.res # "none")
               /\ n.res \in {"cpu", "staging"} /\ o.complete => n.complete
  <1>1. CASE o.res \in {"cpu", "staging"}
    BY <1>1 DEF SyncedLocation, Location
  <1>2. CASE o.res = "none"
    BY <1>2 DEF SyncedLocation, MarkGpu
  <1>3. CASE o.res = "gpu"
    <2>1. CASE o.page = page
      BY <1>3, <2>1 DEF SyncedLocation, Location
    <2>2. CASE o.page # page
      BY <1>3, <2>2 DEF SyncedLocation, MarkGpu
    <2> QED  BY <2>1, <2>2
  <1> QED  BY <1>1, <1>2, <1>3 DEF Location

LEMMA SyncOwned ==
    ASSUME EngineInv, IInv', Mirrored, Owned, [Next]_vars, NEW q \in Requests,
           NEW full, full = table[q], SyncTable(q, full), UNCHANGED <<vllmVars, trueFree>>
    PROVE  Owned' /\ Frozen' = Frozen
  <1>0. UNCHANGED <<status, table, rowTable, computed, kind, fresh, trueFree>>
    BY DEF vllmVars
  <1> DEFINE n == Len(full)
             pages == [i \in 0 .. n - 1 |-> full[i + 1]]
  <1>1. /\ full \in Seq(Pages) /\ reqTable \in [Requests -> Seq(Pages)]
        /\ n \in 0 .. MaxBlocks /\ n = Len(table[q]) /\ computed[q] \in Nat
        /\ DOMAIN full = 1 .. n
    BY LenProperties DEF EngineInv, EngineTyped, SyncTable
  <1>2. \A i \in 0 .. n - 1 : full[i + 1] \in Pages /\ pages[i] = full[i + 1]
    BY <1>1, ElementOfSeq
  <1>3. /\ loc' = [ref \in Refs |->
                    IF ref \in {q} \X (0 .. n - 1)
                        THEN SyncedLocation(loc[ref], pages[ref[2]], Filled(ref[2], computed[q]))
                        ELSE loc[ref]]
        /\ tracked' = [tracked EXCEPT ![q] = n]
        /\ kv' = kv
        /\ reqTable' = [reqTable EXCEPT ![q] = full]
    BY DEF SyncTable, SyncRequestBlocks, memVars
  <1> HIDE DEF pages, n
  <1>4. ASSUME NEW i \in 0 .. MaxBlocks - 1, i < n
        PROVE  /\ loc'[<<q, i>>].res \in {"cpu", "staging"} <=> loc[<<q, i>>].res \in {"cpu", "staging"}
               /\ loc'[<<q, i>>].res # "none"
               /\ loc'[<<q, i>>].res = "gpu" => loc'[<<q, i>>].page = full[i + 1]
               /\ loc'[<<q, i>>].complete => \/ Filled(i, computed[q])
                                             \/ loc[<<q, i>>].complete /\ loc[<<q, i>>].res # "none"
               /\ loc'[<<q, i>>].res \in {"cpu", "staging"} /\ loc[<<q, i>>].complete
                    => loc'[<<q, i>>].complete
    <2>1. <<q, i>> \in Refs /\ <<q, i>> \in {q} \X (0 .. n - 1) /\ i \in 0 .. n - 1
      BY <1>1, <1>4 DEF Refs
    <2>2. PICK o \in Location : o = loc[<<q, i>>]
      BY <2>1 DEF EngineInv, IInv, TypeOK
    <2>3. PICK page \in Pages : page = pages[i] /\ page = full[i + 1]
      BY <1>2, <2>1
    <2>4. PICK done \in BOOLEAN : done = Filled(i, computed[q])
      <3>1. Filled(i, computed[q]) \in BOOLEAN
        BY SMT DEF Filled
      <3> QED  BY <3>1, Zenon
    <2>5. loc'[<<q, i>>] = SyncedLocation(o, page, done)
      BY <1>3, <2>1, <2>2, <2>3, <2>4
    <2> QED  BY <2>2, <2>3, <2>4, <2>5, SyncedEntry
  <1>5. ASSUME NEW ref \in Refs, ~(ref[1] = q /\ ref[2] < n) PROVE loc'[ref] = loc[ref]
    <2>1. ref \notin {q} \X (0 .. n - 1)
      BY <1>1, <1>5
    <2> QED  BY <1>3, <2>1
  <1>6. ASSUME NEW ref \in Refs, ref[1] = q, ref[2] < n
        PROVE  ref = <<q, ref[2]>> /\ ref[2] \in 0 .. MaxBlocks - 1
    BY <1>6 DEF Refs
  <1>7. Frozen' = Frozen
    <2>1. \A ref \in Refs : ref \in Frozen' <=> ref \in Frozen
      BY <1>4, <1>5, <1>6, FrozenMeans
    <2>2. Frozen \subseteq Refs /\ Frozen' \subseteq Refs
      BY DEF Frozen, RefsAt
    <2> QED  BY <2>1, <2>2
  <1>8. Listed'
    <2>1. ASSUME NEW o \in Requests, o # q
          PROVE  reqTable'[o] = reqTable[o] /\ tracked'[o] = tracked[o]
      BY <1>1, <1>3, <2>1 DEF EngineInv, IInv, TypeOK
    <2>2. reqTable'[q] = full /\ tracked'[q] = n
      BY <1>1, <1>3 DEF EngineInv, IInv, TypeOK
    <2>3. ASSUME NEW i \in 0 .. MaxBlocks - 1, ~(i < n) PROVE loc'[<<q, i>>].res = "none"
      <3>1. <<q, i>> \in Refs /\ loc'[<<q, i>>] = loc[<<q, i>>]
        BY <1>5, <2>3 DEF Refs
      <3>2. loc[<<q, i>>].res = "none"
        BY <1>1, <2>3, KnownBlock
      <3> QED  BY <3>1, <3>2
    <2>4. ASSUME NEW o \in Requests, o # q, NEW i \in 0 .. MaxBlocks - 1
          PROVE  loc'[<<o, i>>] = loc[<<o, i>>]
      BY <1>5, <2>4 DEF Refs
    <2>5. ASSUME NEW o \in Requests
          PROVE  /\ tracked'[o] = Len(reqTable'[o])
                 /\ \A i \in 0 .. MaxBlocks - 1 :
                      loc'[<<o, i>>].res # "none" <=> i < Len(reqTable'[o])
      <3>1. CASE o = q
        BY <1>4, <2>2, <2>3, <3>1 DEF n
      <3>2. CASE o # q
        <4>1. /\ tracked[o] = Len(reqTable[o])
              /\ \A i \in 0 .. MaxBlocks - 1 : loc[<<o, i>>].res # "none" <=> i < Len(reqTable[o])
          BY DEF Owned, Listed
        <4> QED  BY <2>1, <2>4, <3>2, <4>1, ZenonT(30)
      <3> QED  BY <3>1, <3>2
    <2> QED  BY <2>5 DEF Listed
  <1>9. OwnPages'
    <2>1. ASSUME NEW ref \in Refs, loc'[ref].res = "gpu"
          PROVE  loc'[ref].page = table[ref[1]][ref[2] + 1]
      <3>1. CASE ref[1] = q /\ ref[2] < n
        BY <1>4, <1>6, <2>1, <3>1
      <3>2. CASE ~(ref[1] = q /\ ref[2] < n)
        BY <1>5, <2>1, <3>2 DEF Owned, OwnPages, RefsAt
      <3> QED  BY <3>1, <3>2
    <2> QED  BY <1>0, <2>1 DEF OwnPages, RefsAt
  <1>10. NullMeansFreed' /\ OneOwner' /\ PagesHoldOwn'
    <2>1. NullMeansFreed'
      <3>1. \A ref \in Frozen : ref \in Frozen'
        BY <1>7
      <3>2. ASSUME NEW o \in Requests, NEW i \in DOMAIN table'[o]
            PROVE  /\ table'[o][i] = NullPage => trueFree' /\ <<o, i - 1>> \in Frozen'
                   /\ table'[o][i] # NullPage => rowTable'[o][i] = table'[o][i]
        <4>1. i \in DOMAIN table[o] /\ table'[o] = table[o] /\ rowTable'[o] = rowTable[o]
          BY <1>0
        <4>2. /\ table[o][i] = NullPage => trueFree /\ <<o, i - 1>> \in Frozen
              /\ table[o][i] # NullPage => rowTable[o][i] = table[o][i]
          BY <4>1 DEF Owned, NullMeansFreed
        <4> QED  BY <1>0, <3>1, <4>1, <4>2
      <3> QED  BY <3>2 DEF NullMeansFreed
    <2>2. OneOwner'
      BY <1>0 DEF Owned, OneOwner
    <2>3. PagesHoldOwn'
      BY <1>0, <1>3 DEF Owned, PagesHoldOwn, Filled
    <2> QED  BY <2>1, <2>2, <2>3
  <1>11. CompleteIsFull'
    <2>1. ASSUME NEW ref \in Refs
          PROVE  /\ loc'[ref].res # "none" /\ loc'[ref].complete => Filled(ref[2], computed[ref[1]])
                 /\ ref \in Frozen => loc'[ref].complete
      <3>1. CASE ref[1] = q /\ ref[2] < n
        <4>1. /\ loc[ref].res # "none" /\ loc[ref].complete => Filled(ref[2], computed[q])
              /\ ref \in Frozen => loc[ref].complete
          BY <3>1 DEF Owned, CompleteIsFull
        <4> QED  BY <1>4, <1>6, <3>1, <4>1, FrozenMeans
      <3>2. CASE ~(ref[1] = q /\ ref[2] < n)
        BY <1>5, <3>2 DEF Owned, CompleteIsFull
      <3> QED  BY <3>1, <3>2
    <2> QED  BY <1>0, <1>7, <2>1 DEF CompleteIsFull, Filled
  <1>12. OffloadedHoldsOwn'
    BY <1>7, OffloadedKept
  <1> QED  BY <1>7, <1>8, <1>9, <1>10, <1>11, <1>12 DEF Owned

\* The connector rebuilds vLLM's table from its own and the new block ids.
LEMMA FullTableIsTable ==
    ASSUME EngineInv, Mirrored, NEW q \in Requests, pc = "meta", q \in todo
    PROVE  FullTable(q) = table[q]
  <1>1. table[q] \in Seq(Pages) /\ reqTable[q] \in Seq(Pages) /\ fresh[q] \in Nat
    BY DEF EngineInv, EngineTyped
  <1>2. kind[q] # "resumed"
    BY DEF Mirrored
  <1>3. /\ Len(reqTable[q]) = Len(table[q]) - fresh[q]
        /\ \A i \in 1 .. Len(reqTable[q]) : reqTable[q][i] = table[q][i]
    <2>1. CASE q \in Unsynced
      BY <2>1 DEF Mirrored
    <2>2. CASE q \notin Unsynced
      <3>1. fresh[q] = 0
        BY <2>2 DEF Unsynced, Scheduled, EngineInv, Booked
      <3> QED  BY <2>2, <3>1 DEF Mirrored
    <2> QED  BY <2>1, <2>2
  <1>4. PICK t \in Seq(Pages), r \in Seq(Pages), f \in Nat :
          t = table[q] /\ r = reqTable[q] /\ f = fresh[q]
    BY <1>1
  <1>5. /\ Len(r) = Len(t) - f /\ \A i \in 1 .. Len(r) : r[i] = t[i]
        /\ Len(t) \in Nat /\ Len(r) \in Nat
    BY <1>3, <1>4, LenProperties
  <1>6. PICK m \in Int : m = Len(t) - f + 1
    <2>1. Len(t) - f + 1 \in Int
      BY <1>5
    <2> QED  BY <2>1, Zenon
  <1>7. m = Len(r) + 1 /\ Len(r) <= Len(t)
    BY <1>5, <1>6
  <1>8. PICK s : s = SubSeq(t, m, Len(t))
    OBVIOUS
  <1>9. PICK u : u = r \o s
    OBVIOUS
  <1>10. u = t
    BY <1>5, <1>7, <1>8, <1>9, PrefixAndRest
  <1>11. FullTable(q) = u
    BY <1>2, <1>4, <1>6, <1>8, <1>9, Zenon DEF FullTable
  <1> QED  BY <1>4, <1>10, <1>11

LEMMA SyncHeld ==
    ASSUME EngineInv, IInv', Mirrored, Owned, InFlightOffloaded, [Next]_vars, NEW q \in Requests,
           MetaNew(q) \/ MetaCached(q)
    PROVE  Mirrored' /\ Owned' /\ InFlightOffloaded'
  <1>1. PICK full : full = table[q]
    OBVIOUS
  <1>2. SyncTable(q, full)
    <2>1. CASE MetaNew(q)
      BY <1>1, <2>1 DEF MetaNew
    <2>2. CASE MetaCached(q)
      <3>1. FullTable(q) = full
        BY <1>1, <2>2, FullTableIsTable DEF MetaCached
      <3> QED  BY <2>2, <3>1 DEF MetaCached
    <2> QED  BY <2>1, <2>2
  <1>3. /\ UNCHANGED <<vllmVars, trueFree, acc, pending>> /\ todo' = todo \ {q}
        /\ pc = "meta" /\ pc' \in {"meta", "prefill"}
    BY DEF MetaNew, MetaCached
  <1>4. Owned' /\ Frozen' = Frozen
    BY <1>1, <1>2, <1>3, SyncOwned
  <1>5. InFlightOffloaded'
    BY <1>3, <1>4 DEF InFlightOffloaded, InFlight, vllmVars
  <1>6. Mirrored'
    <2>1. UNCHANGED <<status, table, kind, fresh>>
      BY <1>3 DEF vllmVars
    <2>2. reqTable' = [reqTable EXCEPT ![q] = full] /\ reqTable \in [Requests -> Seq(Pages)]
      BY <1>2 DEF SyncTable, EngineInv, EngineTyped
    <2>3. Unsynced' = Unsynced \ {q}
      BY <1>3, <2>1 DEF Unsynced, Scheduled
    <2>4. ASSUME NEW o \in Requests
          PROVE  LET seen == Len(table[o]) - IF o \in Unsynced' THEN fresh[o] ELSE 0
                 IN  /\ status[o] # "preempted" /\ kind[o] # "resumed"
                     /\ Len(reqTable'[o]) = seen
                     /\ \A i \in 1 .. seen : reqTable'[o][i] = table[o][i]
      <3>1. CASE o = q
        <4>1. reqTable'[o] = table[o] /\ o \notin Unsynced' /\ Len(table[o]) \in Nat
          BY <1>1, <2>2, <2>3, <3>1, LenProperties DEF EngineInv, EngineTyped
        <4> QED  BY <4>1 DEF Mirrored
      <3>2. CASE o # q
        <4>1. reqTable'[o] = reqTable[o] /\ (o \in Unsynced' <=> o \in Unsynced)
          BY <2>2, <2>3, <3>2
        <4> QED  BY <4>1 DEF Mirrored
      <3> QED  BY <3>1, <3>2
    <2> QED  BY <2>1, <2>4 DEF Mirrored
  <1> QED  BY <1>4, <1>5, <1>6

\* on_prefill_complete: blocks become complete, nothing moves.
LEMMA PrefillHeld ==
    ASSUME EngineInv, IInv', Mirrored, Owned, InFlightOffloaded, [Next]_vars, MetaPrefillDone
    PROVE  Mirrored' /\ Owned' /\ InFlightOffloaded'
  <1>1. /\ UNCHANGED <<vllmVars, trueFree, reqTable, acc, pending, todo>>
        /\ pc = "prefill" /\ pc' = "trigger" /\ OnPrefillComplete(cur, computed[cur])
    BY DEF MetaPrefillDone
  <1>2. UNCHANGED <<status, table, rowTable, computed, kind, fresh>>
    BY <1>1 DEF vllmVars
  <1>3. PICK now :
          /\ \A ref \in now : ref[1] = cur /\ Filled(ref[2], computed[cur])
          /\ loc' = [ref \in Refs |-> [loc[ref] EXCEPT !.complete = @ \/ ref \in now]]
          /\ tracked' = tracked /\ kv' = kv
    <2>1. PICK now : now = {ref \in {cur} \X (0 .. tracked[cur] - 1) :
                              /\ loc[ref].res # "none"
                              /\ Filled(ref[2], computed[cur])
                              /\ ~loc[ref].complete}
      OBVIOUS
    <2>2. /\ loc' = [ref \in Refs |-> [loc[ref] EXCEPT !.complete = @ \/ ref \in now]]
          /\ tracked' = tracked /\ kv' = kv
      BY <1>1, <2>1 DEF OnPrefillComplete, memVars
    <2>3. \A ref \in now : ref[1] = cur /\ Filled(ref[2], computed[cur])
      BY <2>1
    <2> QED  BY <2>2, <2>3
  <1>4. ASSUME NEW ref \in Refs
        PROVE  /\ loc'[ref].res = loc[ref].res /\ loc'[ref].page = loc[ref].page
               /\ loc'[ref].complete => loc[ref].complete \/ ref \in now
               /\ loc[ref].complete => loc'[ref].complete
    <2>1. loc[ref] \in Location /\ loc'[ref] = [loc[ref] EXCEPT !.complete = @ \/ ref \in now]
      BY <1>3 DEF EngineInv, IInv, TypeOK
    <2> QED  BY <2>1 DEF Location
  <1>5. /\ Frozen' \subseteq Refs /\ Frozen \subseteq Refs
        /\ \A ref \in Refs : ref \in Frozen' <=> ref \in Frozen
    BY <1>4 DEF Frozen, RefsAt
  <1>6. Listed' /\ OwnPages'
    <2>1. \A q \in Requests, i \in 0 .. MaxBlocks - 1 : <<q, i>> \in Refs
      BY DEF Refs
    <2>2. Listed'
      BY <1>1, <1>3, <1>4, <2>1, SMTT(30) DEF Owned, Listed
    <2>3. OwnPages'
      BY <1>2, <1>4 DEF Owned, OwnPages, RefsAt
    <2> QED  BY <2>2, <2>3
  <1>7. NullMeansFreed'
    <2>1. \A ref \in Frozen : ref \in Frozen'
      BY <1>5
    <2> QED  BY <1>1, <1>2, <2>1 DEF Owned, NullMeansFreed
  <1>8. OneOwner' /\ PagesHoldOwn'
    <2>1. OneOwner'
      BY <1>2 DEF Owned, OneOwner
    <2>2. PagesHoldOwn'
      BY <1>2, <1>3 DEF Owned, PagesHoldOwn, Filled
    <2> QED  BY <2>1, <2>2
  <1>9. CompleteIsFull'
    <2>1. ASSUME NEW ref \in Refs
          PROVE  /\ loc'[ref].res # "none" /\ loc'[ref].complete => Filled(ref[2], computed[ref[1]])
                 /\ ref \in Frozen' => loc'[ref].complete
      <3>1. /\ loc[ref].res # "none" /\ loc[ref].complete => Filled(ref[2], computed[ref[1]])
            /\ ref \in Frozen => loc[ref].complete
        BY DEF Owned, CompleteIsFull
      <3> QED  BY <1>3, <1>4, <1>5, <3>1
    <2> QED  BY <1>2, <2>1 DEF CompleteIsFull, Filled
  <1>10. OffloadedHoldsOwn'
    BY <1>5, OffloadedKept
  <1>11. Mirrored'
    <2>1. Unsynced' = Unsynced
      BY <1>1, <1>2 DEF Unsynced, Scheduled
    <2> QED  BY <1>1, <1>2, <2>1 DEF Mirrored
  <1>12. InFlightOffloaded'
    <2>1. InFlight' = InFlight
      BY <1>1 DEF InFlight
    <2> QED  BY <1>2, <1>5, <2>1 DEF InFlightOffloaded
  <1> QED  BY <1>6, <1>7, <1>8, <1>9, <1>10, <1>11, <1>12 DEF Owned

-----------------------------------------------------------------------------
(* request_finished *)

LEMMA FinishedHeld ==
    ASSUME EngineInv, IInv', Mirrored, Owned, InFlightOffloaded, [Next]_vars, NEW q \in Requests,
           RequestFinished(q)
    PROVE  Mirrored' /\ Owned' /\ InFlightOffloaded'
  <1>1. /\ status' = [status EXCEPT ![q] = "finished"]
        /\ table' = [table EXCEPT ![q] = <<>>]
        /\ rowTable' = [rowTable EXCEPT ![q] = <<>>]
        /\ reqTable' = [reqTable EXCEPT ![q] = <<>>]
        /\ UNCHANGED <<trueFree, computed, kind, fresh, acc, pending, todo>>
        /\ CleanupRequest(q)
        /\ \/ pc = "sched" /\ pc' = "sched" /\ kind[q] = "no"
           \/ pc \in {"attended", "report"} /\ pc' = "report"
    BY DEF RequestFinished, OnRequestDone
  <1>2. PICK gone : gone = {q} \X (0 .. tracked[q] - 1)
    OBVIOUS
  <1>3. /\ loc' = [ref \in Refs |-> IF ref \in gone THEN Unknown ELSE loc[ref]]
        /\ tracked' = [tracked EXCEPT ![q] = 0]
        /\ kv' = kv
    BY <1>1, <1>2 DEF CleanupRequest, Dropped, memVars
  <1>4. /\ status'[q] = "finished" /\ table'[q] = <<>> /\ rowTable'[q] = <<>>
        /\ reqTable'[q] = <<>> /\ tracked'[q] = 0 /\ Len(<<>>) = 0 /\ DOMAIN <<>> = {}
        /\ tracked[q] \in Nat
    BY <1>1, <1>3, EmptySeq DEF EngineInv, EngineTyped, IInv, TypeOK
  <1>5. ASSUME NEW o \in Requests, o # q
        PROVE  /\ status'[o] = status[o] /\ table'[o] = table[o] /\ rowTable'[o] = rowTable[o]
               /\ reqTable'[o] = reqTable[o] /\ tracked'[o] = tracked[o]
    BY <1>1, <1>3, <1>5 DEF EngineInv, EngineTyped, IInv, TypeOK
  <1>6. ASSUME NEW ref \in Refs, ref[1] # q PROVE loc'[ref] = loc[ref]
    <2>1. ref \notin gone
      BY <1>2, <1>6
    <2> QED  BY <1>3, <2>1
  <1>7. ASSUME NEW i \in 0 .. MaxBlocks - 1 PROVE loc'[<<q, i>>].res = "none"
    <2>1. <<q, i>> \in Refs
      BY DEF Refs
    <2>2. CASE i < tracked[q]
      <3>1. <<q, i>> \in gone
        BY <1>2, <1>4, <2>2
      <3> QED  BY <1>3, <2>1, <3>1, UnknownFields
    <2>3. CASE ~(i < tracked[q])
      <3>1. i \notin 0 .. tracked[q] - 1
        BY <1>4, <2>3
      <3>2. <<q, i>> \notin gone
        BY <1>2, <3>1
      <3>3. loc[<<q, i>>].res = "none"
        BY <2>3 DEF Owned, Listed
      <3> QED  BY <1>3, <2>1, <3>2, <3>3
    <2> QED  BY <2>2, <2>3
  <1>8. ASSUME NEW ref \in Refs, ref[1] = q PROVE loc'[ref].res = "none"
    <2>1. PICK i \in 0 .. MaxBlocks - 1 : ref = <<q, i>>
      BY <1>8 DEF Refs
    <2> QED  BY <1>7, <2>1
  <1>9. /\ Frozen' \subseteq Refs /\ Frozen \subseteq Refs
        /\ \A ref \in Refs : ref \in Frozen' <=> ref \in Frozen /\ ref[1] # q
    <2>1. \A ref \in Refs : ref \in Frozen' <=> ref \in Frozen /\ ref[1] # q
      BY <1>6, <1>8, FrozenMeans
    <2> QED  BY <2>1 DEF Frozen, RefsAt
  <1>10. Listed'
    <2>1. ASSUME NEW o \in Requests
          PROVE  /\ tracked'[o] = Len(reqTable'[o])
                 /\ \A i \in 0 .. MaxBlocks - 1 :
                      loc'[<<o, i>>].res # "none" <=> i < Len(reqTable'[o])
      <3>1. CASE o = q
        BY <1>4, <1>7, <3>1
      <3>2. CASE o # q
        <4>1. /\ tracked[o] = Len(reqTable[o])
              /\ \A i \in 0 .. MaxBlocks - 1 : loc[<<o, i>>].res # "none" <=> i < Len(reqTable[o])
          BY DEF Owned, Listed
        <4>2. \A i \in 0 .. MaxBlocks - 1 : loc'[<<o, i>>] = loc[<<o, i>>]
          BY <1>6, <3>2 DEF Refs
        <4> QED  BY <1>5, <3>2, <4>1, <4>2
      <3> QED  BY <3>1, <3>2
    <2> QED  BY <2>1 DEF Listed
  <1>11. OwnPages'
    <2>1. ASSUME NEW ref \in Refs, loc'[ref].res = "gpu"
          PROVE  loc'[ref].page = table'[ref[1]][ref[2] + 1]
      <3>1. ref[1] # q /\ ref[1] \in Requests
        BY <1>8, <2>1 DEF Refs
      <3>2. loc[ref].page = table[ref[1]][ref[2] + 1] /\ loc'[ref] = loc[ref]
        BY <1>6, <2>1, <3>1 DEF Owned, OwnPages, RefsAt
      <3> QED  BY <1>5, <3>1, <3>2
    <2> QED  BY <2>1 DEF OwnPages, RefsAt
  <1>12. NullMeansFreed'
    <2>1. ASSUME NEW o \in Requests, NEW i \in DOMAIN table'[o]
          PROVE  /\ table'[o][i] = NullPage => trueFree' /\ <<o, i - 1>> \in Frozen'
                 /\ table'[o][i] # NullPage => rowTable'[o][i] = table'[o][i]
      <3>1. o # q
        BY <1>4
      <3>2. i \in DOMAIN table[o] /\ table'[o] = table[o] /\ rowTable'[o] = rowTable[o]
        BY <1>5, <3>1
      <3>3. /\ table[o][i] = NullPage => trueFree /\ <<o, i - 1>> \in Frozen
            /\ table[o][i] # NullPage => rowTable[o][i] = table[o][i]
        BY <3>2 DEF Owned, NullMeansFreed
      <3>4. <<o, i - 1>> \in Frozen => <<o, i - 1>> \in Frozen'
        BY <1>9, <3>1
      <3> QED  BY <1>1, <3>2, <3>3, <3>4
    <2> QED  BY <2>1 DEF NullMeansFreed
  <1>13. OneOwner'
    <2>1. ASSUME NEW o \in Requests, NEW i \in DOMAIN table'[o]
          PROVE  o # q /\ i \in DOMAIN table[o] /\ table'[o] = table[o]
      BY <1>4, <1>5
    <2>2. ASSUME NEW a \in Requests, NEW b \in Requests,
                 NEW i \in DOMAIN table'[a], NEW j \in DOMAIN table'[b],
                 table'[a][i] = table'[b][j], table'[a][i] # NullPage
          PROVE  a = b /\ i = j
      BY <2>1, <2>2 DEF Owned, OneOwner
    <2> QED  BY <2>2 DEF OneOwner
  <1>14. CompleteIsFull'
    <2>1. ASSUME NEW ref \in Refs
          PROVE  /\ loc'[ref].res # "none" /\ loc'[ref].complete => Filled(ref[2], computed[ref[1]])
                 /\ ref \in Frozen' => loc'[ref].complete
      <3>1. /\ loc[ref].res # "none" /\ loc[ref].complete => Filled(ref[2], computed[ref[1]])
            /\ ref \in Frozen => loc[ref].complete
        BY DEF Owned, CompleteIsFull
      <3> QED  BY <1>6, <1>8, <1>9, <3>1
    <2> QED  BY <1>1, <2>1 DEF CompleteIsFull, Filled
  <1>15. PagesHoldOwn'
    <2>1. ASSUME NEW o \in Requests, NEW i \in DOMAIN table'[o],
                 Filled(i - 1, computed[o]), table'[o][i] # NullPage
          PROVE  kv[table'[o][i]] = <<o, i - 1>>
      <3>1. o # q /\ i \in DOMAIN table[o] /\ table'[o] = table[o]
        BY <1>4, <1>5
      <3> QED  BY <2>1, <3>1 DEF Owned, PagesHoldOwn
    <2> QED  BY <1>1, <1>3, <2>1 DEF PagesHoldOwn, Filled
  <1>16. OffloadedHoldsOwn'
    BY <1>9, OffloadedKept
  <1>17. Mirrored'
    <2>1. Unsynced' = Unsynced /\ q \notin Unsynced
      BY <1>1 DEF Unsynced, Scheduled
    <2>2. ASSUME NEW o \in Requests
          PROVE  LET seen == Len(table'[o]) - IF o \in Unsynced' THEN fresh[o] ELSE 0
                 IN  /\ status'[o] # "preempted" /\ kind[o] # "resumed"
                     /\ Len(reqTable'[o]) = seen
                     /\ \A i \in 1 .. seen : reqTable'[o][i] = table'[o][i]
      <3>1. CASE o = q
        BY <1>4, <2>1, <3>1 DEF Mirrored
      <3>2. CASE o # q
        BY <1>5, <2>1, <3>2, SMTT(30) DEF Mirrored
      <3> QED  BY <3>1, <3>2
    <2> QED  BY <1>1, <2>2 DEF Mirrored
  <1>18. InFlightOffloaded'
    <2>1. InFlight' = InFlight
      BY <1>1 DEF InFlight
    <2>2. InFlight \subseteq StoreEntry
      BY InFlightType DEF EngineInv
    <2>3. ASSUME NEW e \in InFlight, status'[e.ref[1]] # "finished" PROVE e.ref \in Frozen'
      <3>1. e.ref \in Refs /\ e.ref[1] \in Requests
        BY <2>2 DEF StoreEntry, Refs
      <3>2. e.ref[1] # q
        BY <1>4, <2>3
      <3>3. e.ref \in Frozen
        BY <1>5, <2>3, <3>1, <3>2 DEF InFlightOffloaded
      <3> QED  BY <1>9, <3>1, <3>2, <3>3
    <2> QED  BY <2>1, <2>3 DEF InFlightOffloaded
  <1> QED
    BY <1>10, <1>11, <1>12, <1>13, <1>14, <1>15, <1>16, <1>17, <1>18 DEF Owned

-----------------------------------------------------------------------------
(* Allocation: new pages are nobody else's *)

LEMMA ScheduleHeld ==
    ASSUME EngineInv, Mirrored, Owned, InFlightOffloaded,
           NEW q \in Requests, NEW n \in 1 .. MaxChunk, Schedule(q, n), IInv'
    PROVE  Mirrored' /\ Owned' /\ InFlightOffloaded'
  <1> DEFINE need == BlocksFor(computed[q] + n) - Len(table[q])
             l == Len(table[q])
  <1>1. PICK got \in [1 .. need -> FreePages] :
          /\ Injective(got)
          /\ table' = [table EXCEPT ![q] = @ \o got]
          /\ rowTable' = [rowTable EXCEPT ![q] = @ \o got]
    BY DEF Schedule
  <1>2. /\ pc = "sched" /\ pc' = "sched" /\ kind[q] = "no" /\ status[q] \in {"waiting", "running"}
        /\ UNCHANGED <<vars, computed, trueFree, reqTable, acc, pending>>
        /\ fresh' = [fresh EXCEPT ![q] = need]
        /\ status' = [status EXCEPT ![q] = "running"]
    BY DEF Schedule, Live, Mirrored, connVars, pcVars
  <1>3. /\ table[q] \in Seq(Pages) /\ rowTable[q] \in Seq(Pages) /\ l \in Nat
        /\ DOMAIN table[q] = 1 .. l /\ Len(rowTable[q]) = l /\ computed[q] \in Nat
    BY LenProperties DEF EngineInv, EngineTyped, Booked
  <1>4. need \in Nat /\ l = BlocksFor(computed[q])
    <2>1. sched[q] = 0 /\ Progress(q) = computed[q] + 0 /\ status[q] # "finished"
      BY <1>2 DEF EngineInv, Booked, Progress
    <2>2. l = BlocksFor(computed[q])
      BY <1>3, <2>1 DEF EngineInv, Booked
    <2>3. computed[q] + n \in Nat /\ computed[q] <= computed[q] + n
      BY <1>3
    <2>4. BlocksFor(computed[q]) <= BlocksFor(computed[q] + n)
      BY <1>3, <2>3, BlocksForMono
    <2>5. BlocksFor(computed[q]) \in Nat /\ BlocksFor(computed[q] + n) \in Nat
      BY <1>3, <2>3, BlocksForBounds
    <2> QED  BY <2>2, <2>4, <2>5
  <1> HIDE DEF need, l
  <1>5. got \in Seq(Pages) /\ Len(got) = need
    <2>1. got \in [1 .. need -> Pages]
      BY DEF FreePages
    <2> QED  BY <1>4, <2>1, SeqDef, LenProperties
  <1>6. /\ table'[q] \in Seq(Pages) /\ Len(table'[q]) = l + need
        /\ DOMAIN table'[q] = 1 .. l + need
        /\ \A i \in 1 .. l : table'[q][i] = table[q][i] /\ rowTable'[q][i] = rowTable[q][i]
        /\ \A i \in 1 .. l + need : i > l =>
              table'[q][i] = got[i - l] /\ rowTable'[q][i] = got[i - l] /\ i - l \in 1 .. need
    <2>1. table'[q] = table[q] \o got /\ rowTable'[q] = rowTable[q] \o got
      BY <1>1, ZenonT(30) DEF EngineInv, EngineTyped
    <2>2. PICK t \in Seq(Pages) : t = table[q] /\ Len(t) = l
      BY <1>3 DEF l
    <2>3. PICK s \in Seq(Pages) : s = rowTable[q] /\ Len(s) = l
      BY <1>3
    <2>4. PICK u : u = t \o got
      OBVIOUS
    <2>5. PICK v : v = s \o got
      OBVIOUS
    <2>6. /\ u \in Seq(Pages) /\ Len(u) = l + need /\ DOMAIN u = 1 .. l + need
          /\ \A i \in 1 .. l : u[i] = t[i]
          /\ \A i \in 1 .. l + need : i > l => i - l \in 1 .. need /\ u[i] = got[i - l]
      <3>1. u \in Seq(Pages) /\ Len(u) = Len(t) + Len(got)
        BY <1>5, <2>4, ConcatProperties, ZenonT(30)
      <3>2. DOMAIN u = 1 .. Len(t) + Len(got)
        BY <3>1, LenProperties
      <3>3. /\ \A i \in 1 .. Len(t) : u[i] = t[i]
            /\ \A i \in 1 .. Len(t) + Len(got) :
                 i > Len(t) => i - Len(t) \in 1 .. Len(got) /\ u[i] = got[i - Len(t)]
        BY <1>5, <2>4, ConcatIndices, SMTT(30)
      <3> QED  BY <1>5, <2>2, <3>1, <3>2, <3>3
    <2>7. /\ \A i \in 1 .. l : v[i] = s[i]
          /\ \A i \in 1 .. l + need : i > l => i - l \in 1 .. need /\ v[i] = got[i - l]
      <3>1. /\ \A i \in 1 .. Len(s) : v[i] = s[i]
            /\ \A i \in 1 .. Len(s) + Len(got) :
                 i > Len(s) => i - Len(s) \in 1 .. Len(got) /\ v[i] = got[i - Len(s)]
        BY <1>5, <2>5, ConcatIndices
      <3> QED  BY <1>5, <2>3, <3>1
    <2>8. table'[q] = u /\ rowTable'[q] = v
      BY <2>1, <2>2, <2>3, <2>4, <2>5
    <2> QED  BY <2>2, <2>3, <2>6, <2>7, <2>8
  <1>7. ASSUME NEW o \in Requests, o # q
        PROVE  /\ table'[o] = table[o] /\ rowTable'[o] = rowTable[o] /\ fresh'[o] = fresh[o]
               /\ kind'[o] = kind[o] /\ status'[o] = status[o]
    BY <1>1, <1>2, <1>7 DEF EngineInv, EngineTyped, Schedule
  <1>8. \A j \in 1 .. need :
          /\ got[j] # NullPage
          /\ \A o \in Requests : \A i \in DOMAIN table[o] : table[o][i] # got[j]
    <2>1. ASSUME NEW j \in 1 .. need
          PROVE  /\ got[j] # NullPage
                 /\ \A o \in Requests : \A i \in DOMAIN table[o] : table[o][i] # got[j]
      <3>1. got[j] \in FreePages
        BY <1>1
      <3> QED  BY <3>1 DEF FreePages, Entries
    <2> QED  BY <2>1
  <1>9. ASSUME NEW o \in Requests, NEW i \in DOMAIN table'[o]
        PROVE  \/ i \in DOMAIN table[o] /\ table'[o][i] = table[o][i]
                  /\ rowTable'[o][i] = rowTable[o][i]
               \/ /\ o = q /\ i > l /\ i - l \in 1 .. need /\ i \in Nat
                  /\ table'[o][i] = got[i - l] /\ rowTable'[o][i] = got[i - l]
    <2>1. CASE o = q
      <3>1. i \in 1 .. l + need /\ i \in Nat /\ (i \in 1 .. l \/ i > l)
        <4>1. i \in 1 .. l + need
          BY <1>6, <2>1
        <4> QED  BY <1>3, <1>4, <4>1
      <3> QED  BY <1>3, <1>6, <2>1, <3>1
    <2>2. CASE o # q
      BY <1>7, <2>2
    <2> QED  BY <2>1, <2>2
  <1>10. UNCHANGED <<loc, tracked, kv>>
    BY <1>2 DEF vars
  <1>11. Frozen' = Frozen
    BY <1>10 DEF Frozen, RefsAt
  <1>12. Listed'
    BY <1>2, <1>10 DEF Owned, Listed
  <1>13. OwnPages'
    <2>1. ASSUME NEW ref \in Refs, loc[ref].res = "gpu"
          PROVE  loc[ref].page = table'[ref[1]][ref[2] + 1]
      <3>1. PICK o \in Requests, i \in 0 .. MaxBlocks - 1 : ref = <<o, i>>
        BY DEF Refs
      <3>2. i + 1 \in DOMAIN table[o]
        BY <2>1, <3>1, KnownBlock
      <3>3. loc[ref].page = table[o][i + 1]
        BY <2>1, <3>1 DEF Owned, OwnPages, RefsAt
      <3>4. table'[o][i + 1] = table[o][i + 1]
        BY <1>3, <1>6, <1>7, <3>2
      <3> QED  BY <3>1, <3>3, <3>4
    <2> QED  BY <1>10, <2>1 DEF OwnPages, RefsAt
  <1>14. NullMeansFreed'
    <2>1. ASSUME NEW o \in Requests, NEW i \in DOMAIN table'[o]
          PROVE  /\ table'[o][i] = NullPage => trueFree' /\ <<o, i - 1>> \in Frozen'
                 /\ table'[o][i] # NullPage => rowTable'[o][i] = table'[o][i]
      <3>1. CASE i \in DOMAIN table[o] /\ table'[o][i] = table[o][i] /\ rowTable'[o][i] = rowTable[o][i]
        <4>1. /\ table[o][i] = NullPage => trueFree /\ <<o, i - 1>> \in Frozen
              /\ table[o][i] # NullPage => rowTable[o][i] = table[o][i]
          BY <3>1 DEF Owned, NullMeansFreed
        <4> QED  BY <1>2, <1>11, <3>1, <4>1
      <3>2. CASE /\ i - l \in 1 .. need
                 /\ table'[o][i] = got[i - l] /\ rowTable'[o][i] = got[i - l]
        BY <1>8, <3>2
      <3> QED  BY <1>9, <3>1, <3>2
    <2> QED  BY <2>1 DEF NullMeansFreed
  <1>15. OneOwner'
    <2>1. ASSUME NEW a \in Requests, NEW b \in Requests,
                 NEW i \in DOMAIN table'[a], NEW j \in DOMAIN table'[b],
                 table'[a][i] = table'[b][j], table'[a][i] # NullPage
          PROVE  a = b /\ i = j
      <3>1. CASE /\ i \in DOMAIN table[a] /\ table'[a][i] = table[a][i]
                 /\ j \in DOMAIN table[b] /\ table'[b][j] = table[b][j]
        <4>1. table[a][i] = table[b][j] /\ table[a][i] # NullPage
          BY <2>1, <3>1
        <4>2. OneOwner
          BY DEF Owned
        <4>3. i \in DOMAIN table[a] /\ j \in DOMAIN table[b]
          BY <3>1
        <4> HIDE <2>1, <3>1
        <4> QED  BY <4>1, <4>2, <4>3 DEF OneOwner
      <3>2. CASE /\ i \in DOMAIN table[a] /\ table'[a][i] = table[a][i]
                 /\ j - l \in 1 .. need /\ table'[b][j] = got[j - l]
        BY <1>8, <2>1, <3>2
      <3>3. CASE /\ j \in DOMAIN table[b] /\ table'[b][j] = table[b][j]
                 /\ i - l \in 1 .. need /\ table'[a][i] = got[i - l]
        BY <1>8, <2>1, <3>3
      <3>4. CASE /\ a = q /\ b = q /\ i - l \in 1 .. need /\ table'[a][i] = got[i - l] /\ i \in Nat
                 /\ j - l \in 1 .. need /\ table'[b][j] = got[j - l] /\ j \in Nat
        <4>1. i - l = j - l
          BY <1>1, <2>1, <3>4 DEF Injective
        <4> QED  BY <1>3, <3>4, <4>1
      <3> QED  BY <1>9, <3>1, <3>2, <3>3, <3>4
    <2> QED  BY <2>1 DEF OneOwner
  <1>16. CompleteIsFull'
    BY <1>2, <1>10, <1>11 DEF Owned, CompleteIsFull, Filled
  <1>17. PagesHoldOwn'
    <2>1. ASSUME NEW o \in Requests, NEW i \in DOMAIN table'[o],
                 Filled(i - 1, computed[o]), table'[o][i] # NullPage
          PROVE  kv[table'[o][i]] = <<o, i - 1>>
      <3>1. CASE i \in DOMAIN table[o] /\ table'[o][i] = table[o][i]
        BY <2>1, <3>1 DEF Owned, PagesHoldOwn
      <3>2. CASE o = q /\ i > l /\ i \in Nat
        <4>1. computed[q] <= l * PageSize /\ l * PageSize \in Nat
          <5>1. computed[q] <= BlocksFor(computed[q]) * PageSize
            BY <1>3, BlocksForBounds
          <5> QED  BY <1>3, <1>4, <5>1
        <4>2. l * PageSize + PageSize <= i * PageSize
          BY <1>3, <3>2, TimesMono
        <4>3. i * PageSize <= computed[q]
          <5>1. ((i - 1) + 1) * PageSize <= computed[q] /\ (i - 1) + 1 = i
            BY <2>1, <3>2 DEF Filled
          <5> QED  BY <5>1
        <4>4. i * PageSize \in Nat
          BY <3>2
        <4> HIDE DEF l
        <4>5. FALSE
          BY <1>3, <4>1, <4>2, <4>3, <4>4
        <4> QED  BY <4>5
      <3> QED  BY <1>9, <3>1, <3>2
    <2> QED  BY <1>2, <1>10, <2>1 DEF PagesHoldOwn, Filled
  <1>18. OffloadedHoldsOwn'
    <2>1. [Next]_vars
      BY <1>2
    <2> QED  BY <1>11, <2>1, OffloadedKept
  <1>19. Mirrored'
    <2>1. /\ kind'[q] \in {"new", "cached"} /\ status'[q] = "running" /\ fresh'[q] = need
      BY <1>2, ZenonT(30) DEF Schedule, EngineInv, EngineTyped
    <2>2. Unsynced' = Unsynced \cup {q} /\ q \notin Unsynced
      BY <1>2, <1>7, <2>1 DEF Unsynced, Scheduled
    <2>3. ASSUME NEW o \in Requests
          PROVE  LET seen == Len(table'[o]) - IF o \in Unsynced' THEN fresh'[o] ELSE 0
                 IN  /\ status'[o] # "preempted" /\ kind'[o] # "resumed"
                     /\ Len(reqTable'[o]) = seen
                     /\ \A i \in 1 .. seen : reqTable'[o][i] = table'[o][i]
      <3>1. CASE o = q
        <4>1. Len(reqTable[q]) = l /\ \A i \in 1 .. l : reqTable[q][i] = table[q][i]
          BY <1>3, <2>2, SMTT(30) DEF Mirrored, l
        <4>2. o \in Unsynced' /\ Len(table'[o]) - fresh'[o] = l
          BY <1>3, <1>4, <1>6, <2>1, <2>2, <3>1
        <4> QED  BY <1>2, <1>6, <2>1, <3>1, <4>1, <4>2
      <3>2. CASE o # q
        <4>1. o \in Unsynced' <=> o \in Unsynced
          BY <2>2, <3>2
        <4>2. LET seen == Len(table[o]) - IF o \in Unsynced THEN fresh[o] ELSE 0
              IN  /\ status[o] # "preempted" /\ kind[o] # "resumed"
                  /\ Len(reqTable[o]) = seen
                  /\ \A i \in 1 .. seen : reqTable[o][i] = table[o][i]
          BY DEF Mirrored
        <4>3. reqTable' = reqTable
          BY <1>2
        <4> QED  BY <1>7, <3>2, <4>1, <4>2, <4>3
      <3> QED  BY <3>1, <3>2
    <2> QED  BY <2>3 DEF Mirrored
  <1>20. InFlightOffloaded'
    <2>1. InFlight' = InFlight
      BY <1>2 DEF InFlight
    <2>2. \A e \in InFlight : e.ref[1] \in Requests
      BY InFlightType DEF EngineInv, StoreEntry, Refs
    <2>3. \A o \in Requests : status'[o] # "finished" => status[o] # "finished"
      BY <1>2, <1>7
    <2> QED  BY <1>11, <2>1, <2>2, <2>3 DEF InFlightOffloaded
  <1> QED
    BY <1>12, <1>13, <1>14, <1>15, <1>16, <1>17, <1>18, <1>19, <1>20 DEF Owned

-----------------------------------------------------------------------------
(* The report: table surgery hits only blocks that are off the GPU *)

LEMMA ReportHeld ==
    ASSUME EngineInv, IInv', Mirrored, Owned, InFlightOffloaded,
           NEW k \in 0 .. Len(pending), Report(k)
    PROVE  Mirrored' /\ Owned' /\ InFlightOffloaded'
  <1>1. /\ pc \in {"attended", "report"} /\ pc' = "sched"
        /\ pending' = SubSeq(pending, k + 1, Len(pending))
        /\ kind' = [q \in Requests |-> "no"]
        /\ fresh' = [q \in Requests |-> 0]
        /\ UNCHANGED <<trueFree, vars, status, rowTable, computed, acc>>
    BY DEF Report
  <1>2. UNCHANGED <<loc, tracked, kv>>
    BY <1>1 DEF vars
  <1>3. Frozen' = Frozen
    BY <1>2 DEF Frozen, RefsAt
  <1>4. pending \in Seq(SUBSET StoreEntry) /\ Len(pending) \in Nat /\ DOMAIN pending = 1 .. Len(pending)
    BY LenProperties DEF EngineInv, EngineTyped
  <1>5. InFlight' \subseteq InFlight
    <2>1. PICK m \in Int : m = k + 1 /\ m >= 1
      BY <1>4
    <2>2. \A j \in m .. Len(pending) : pending[j] \in SUBSET StoreEntry
      BY <1>4, <2>1, ElementOfSeq
    <2>3. PICK s : s = SubSeq(pending, m, Len(pending))
      OBVIOUS
    <2>4. /\ s \in Seq(SUBSET StoreEntry)
          /\ Len(s) = IF m <= Len(pending) THEN Len(pending) - m + 1 ELSE 0
          /\ \A j \in 1 .. Len(pending) - m + 1 : s[j] = pending[m + j - 1]
      BY <1>4, <2>2, <2>3, SubSeqProperties
    <2>5. DOMAIN s = 1 .. Len(s)
      BY <2>4, LenProperties
    <2>6. \A j \in DOMAIN s : m + j - 1 \in DOMAIN pending /\ j \in 1 .. Len(pending) - m + 1
      <3>1. PICK n \in Nat : n = Len(pending)
        BY <1>4
      <3>2. ASSUME NEW j \in DOMAIN s PROVE m + j - 1 \in 1 .. n /\ j \in 1 .. n - m + 1
        <4>1. Len(s) = IF m <= n THEN n - m + 1 ELSE 0
          BY <2>4, <3>1
        <4>2. j \in 1 .. Len(s)
          BY <2>5
        <4>3. m <= n
          BY <4>1, <4>2
        <4> QED  BY <2>1, <4>1, <4>2, <4>3
      <3> QED  BY <1>4, <3>1, <3>2, SMTT(30)
    <2>7. Entries(s) \subseteq Entries(pending)
      BY <2>4, <2>6 DEF Entries
    <2>8. pending' = s /\ acc' = acc
      BY <1>1, <2>1, <2>3
    <2> QED  BY <2>7, <2>8 DEF InFlight
  <1>6. ASSUME NEW q \in Requests
        PROVE  /\ DOMAIN table'[q] = DOMAIN table[q] /\ DOMAIN table[q] = 1 .. Len(table[q])
               /\ Len(table'[q]) = Len(table[q]) /\ Len(reqTable'[q]) = Len(reqTable[q])
               /\ Len(reqTable[q]) = Len(table[q]) /\ Len(table[q]) \in Nat
               /\ \A i \in DOMAIN table[q] : reqTable[q][i] = table[q][i]
               /\ \A i \in DOMAIN table[q] :
                     \/ table'[q][i] = table[q][i] /\ reqTable'[q][i] = reqTable[q][i]
                     \/ /\ table'[q][i] = NullPage /\ reqTable'[q][i] = NullPage
                        /\ trueFree /\ <<q, i - 1>> \in Frozen
    <2>0. table[q] \in Seq(Pages) /\ Len(table[q]) \in Nat /\ DOMAIN table[q] = 1 .. Len(table[q])
      BY LenProperties DEF EngineInv, EngineTyped
    <2>1. Len(reqTable[q]) = Len(table[q]) /\ \A i \in DOMAIN table[q] : reqTable[q][i] = table[q][i]
      <3>1. q \notin Unsynced
        BY <1>1 DEF Unsynced
      <3> QED  BY <2>0, <3>1 DEF Mirrored
    <2>2. CASE UNCHANGED <<table, reqTable>>
      BY <2>0, <2>1, <2>2
    <2>3. CASE trueFree /\ Surgery(UNION {pending[j] : j \in 1 .. k})
      <3>1. PICK done : done = UNION {pending[j] : j \in 1 .. k}
        OBVIOUS
      <3>2. done \subseteq InFlight
        BY <1>4, <3>1 DEF InFlight, Entries
      <3>3. EngineTyped /\ Surgery(done)
        BY <2>3, <3>1 DEF EngineInv
      <3>4. /\ table'[q] \in Seq(Pages) /\ Len(table'[q]) = Len(table[q])
            /\ Len(reqTable'[q]) = Len(reqTable[q])
            /\ DOMAIN reqTable[q] = 1 .. Len(reqTable[q])
        BY <3>3, SurgeryTables
      <3>4a. \A i \in DOMAIN table[q] :
                 table'[q][i] = IF Hit(done, q, i) THEN NullPage ELSE table[q][i]
        BY <3>3, SurgeryTables
      <3>4b. \A i \in DOMAIN reqTable[q] :
                 reqTable'[q][i] = IF i \in DOMAIN table[q] /\ Hit(done, q, i)
                                      THEN NullPage ELSE reqTable[q][i]
        BY <3>3, SurgeryTables
      <3>5. DOMAIN table'[q] = DOMAIN table[q]
        BY <2>0, <3>4, LenProperties
      <3>6. ASSUME NEW i \in DOMAIN table[q]
            PROVE  \/ table'[q][i] = table[q][i] /\ reqTable'[q][i] = reqTable[q][i]
                   \/ /\ table'[q][i] = NullPage /\ reqTable'[q][i] = NullPage
                      /\ trueFree /\ <<q, i - 1>> \in Frozen
        <4>1. i \in DOMAIN reqTable[q]
          BY <2>0, <2>1, <3>4
        <4>2. CASE Hit(done, q, i)
          <5>1. PICK e \in done : e.ref = <<q, i - 1>>
            BY <4>2 DEF Hit
          <5>2. status[q] # "finished"
            <6>1. table[q] # <<>>
              BY <2>0, EmptySeq
            <6> QED  BY <6>1 DEF EngineInv, Booked
          <5>3. e \in InFlight /\ e.ref[1] = q
            BY <3>2, <5>1
          <5>4. <<q, i - 1>> \in Frozen
            BY <5>1, <5>2, <5>3 DEF InFlightOffloaded
          <5> QED  BY <2>3, <3>4a, <3>4b, <4>1, <4>2, <5>4
        <4>3. CASE ~Hit(done, q, i)
          BY <3>4a, <3>4b, <4>1, <4>3
        <4> QED  BY <4>2, <4>3
      <3> QED  BY <2>0, <2>1, <3>4, <3>5, <3>6
    <2> QED  BY <2>2, <2>3 DEF Report
  <1>7. Listed'
    BY <1>2, <1>6 DEF Owned, Listed
  <1>8. OwnPages'
    <2>1. ASSUME NEW ref \in Refs, loc[ref].res = "gpu"
          PROVE  loc[ref].page = table'[ref[1]][ref[2] + 1]
      <3>1. PICK q \in Requests, i \in 0 .. MaxBlocks - 1 : ref = <<q, i>>
        BY DEF Refs
      <3>2. i + 1 \in DOMAIN table[q] /\ (i + 1) - 1 = i
        BY <2>1, <3>1, KnownBlock
      <3>3. <<q, i>> \notin Frozen
        BY <2>1, <3>1, FrozenMeans
      <3>4. table'[q][i + 1] = table[q][i + 1]
        BY <1>6, <3>2, <3>3
      <3>5. loc[ref].page = table[q][i + 1]
        BY <2>1, <3>1 DEF Owned, OwnPages, RefsAt
      <3> QED  BY <3>1, <3>4, <3>5
    <2> QED  BY <1>2, <2>1 DEF OwnPages, RefsAt
  <1>9. NullMeansFreed'
    <2>1. ASSUME NEW q \in Requests, NEW i \in DOMAIN table'[q]
          PROVE  /\ table'[q][i] = NullPage => trueFree' /\ <<q, i - 1>> \in Frozen'
                 /\ table'[q][i] # NullPage => rowTable'[q][i] = table'[q][i]
      <3>1. i \in DOMAIN table[q]
        BY <1>6
      <3>2. /\ table[q][i] = NullPage => trueFree /\ <<q, i - 1>> \in Frozen
            /\ table[q][i] # NullPage => rowTable[q][i] = table[q][i]
        BY <3>1 DEF Owned, NullMeansFreed
      <3>3. \/ table'[q][i] = table[q][i]
            \/ table'[q][i] = NullPage /\ trueFree /\ <<q, i - 1>> \in Frozen
        BY <1>6, <3>1
      <3>4. <<q, i - 1>> \in Frozen => <<q, i - 1>> \in Frozen'
        BY <1>3
      <3> QED  BY <1>1, <3>2, <3>3, <3>4
    <2> QED  BY <2>1 DEF NullMeansFreed
  <1>10. OneOwner'
    <2>1. ASSUME NEW a \in Requests, NEW i \in DOMAIN table'[a], table'[a][i] # NullPage
          PROVE  i \in DOMAIN table[a] /\ table'[a][i] = table[a][i]
      BY <1>6, <2>1
    <2>2. ASSUME NEW a \in Requests, NEW b \in Requests,
                 NEW i \in DOMAIN table'[a], NEW j \in DOMAIN table'[b],
                 table'[a][i] = table'[b][j], table'[a][i] # NullPage
          PROVE  a = b /\ i = j
      <3>1. i \in DOMAIN table[a] /\ j \in DOMAIN table[b]
        BY <2>1, <2>2
      <3>2. table[a][i] = table[b][j] /\ table[a][i] # NullPage
        BY <2>1, <2>2
      <3>3. OneOwner
        BY DEF Owned
      <3> HIDE <2>2
      <3> QED  BY <3>1, <3>2, <3>3 DEF OneOwner
    <2> QED  BY <2>2 DEF OneOwner
  <1>11. CompleteIsFull'
    BY <1>1, <1>2, <1>3 DEF Owned, CompleteIsFull, Filled
  <1>12. PagesHoldOwn'
    <2>1. ASSUME NEW q \in Requests, NEW i \in DOMAIN table'[q],
                 Filled(i - 1, computed[q]), table'[q][i] # NullPage
          PROVE  kv[table'[q][i]] = <<q, i - 1>>
      <3>1. i \in DOMAIN table[q] /\ table'[q][i] = table[q][i]
        BY <1>6, <2>1
      <3> QED  BY <2>1, <3>1 DEF Owned, PagesHoldOwn
    <2> QED  BY <1>1, <1>2, <2>1 DEF PagesHoldOwn, Filled
  <1>13. OffloadedHoldsOwn'
    <2>1. [Next]_vars
      BY <1>1
    <2> QED  BY <1>3, <2>1, OffloadedKept
  <1>14. Mirrored'
    <2>1. Unsynced' = {}
      BY <1>1 DEF Unsynced, Scheduled
    <2>2. ASSUME NEW q \in Requests
          PROVE  LET seen == Len(table'[q]) - IF q \in Unsynced' THEN fresh'[q] ELSE 0
                 IN  /\ status'[q] # "preempted" /\ kind'[q] # "resumed"
                     /\ Len(reqTable'[q]) = seen
                     /\ \A i \in 1 .. seen : reqTable'[q][i] = table'[q][i]
      <3>1. status[q] # "preempted"
        BY DEF Mirrored
      <3>2. Len(table'[q]) \in Nat /\ Len(reqTable'[q]) = Len(table'[q])
        BY <1>6
      <3>3. ASSUME NEW i \in 1 .. Len(table'[q]) PROVE reqTable'[q][i] = table'[q][i]
        <4>1. i \in DOMAIN table[q]
          BY <1>6
        <4>2. reqTable[q][i] = table[q][i]
          BY <1>6, <4>1
        <4>3. \/ table'[q][i] = table[q][i] /\ reqTable'[q][i] = reqTable[q][i]
              \/ table'[q][i] = NullPage /\ reqTable'[q][i] = NullPage
          BY <1>6, <4>1
        <4> QED  BY <4>2, <4>3
      <3> QED  BY <1>1, <2>1, <3>1, <3>2, <3>3
    <2> QED  BY <2>2 DEF Mirrored
  <1>15. InFlightOffloaded'
    BY <1>1, <1>3, <1>5 DEF InFlightOffloaded
  <1> QED
    BY <1>7, <1>8, <1>9, <1>10, <1>11, <1>12, <1>13, <1>14, <1>15 DEF Owned

-----------------------------------------------------------------------------
(* The forward pass writes pages of its own rows only *)

\* A block that is being written sits on a page that no other block has.
LEMMA WrittenPage ==
    ASSUME EngineInv, Owned, NEW q \in Requests, NEW i \in Written(q)
    PROVE  /\ i \in Nat /\ i + 1 \in DOMAIN table[q] /\ (i + 1) - 1 = i
           /\ rowTable[q][i + 1] = table[q][i + 1] /\ table[q][i + 1] # NullPage
           /\ ~Filled(i, computed[q])
  <1>1. /\ table[q] \in Seq(Pages) /\ rowTable[q] \in Seq(Pages)
        /\ computed[q] \in Nat /\ Len(rowTable[q]) = Len(table[q])
    BY DEF EngineInv, EngineTyped, Booked
  <1>2. Len(table[q]) \in Nat /\ DOMAIN table[q] = 1 .. Len(table[q])
    BY <1>1, LenProperties
  <1>3. i \in 0 .. Len(table[q]) - 1 /\ (i + 1) * PageSize > computed[q]
    BY <1>1 DEF Written
  <1>4. i \in Nat /\ i + 1 \in DOMAIN table[q] /\ (i + 1) - 1 = i
    BY <1>2, <1>3
  <1>5. ~Filled(i, computed[q])
    BY <1>1, <1>3, <1>4 DEF Filled
  <1>6. table[q][i + 1] # NullPage
    <2>1. SUFFICES ASSUME table[q][i + 1] = NullPage PROVE FALSE
      OBVIOUS
    <2>2. <<q, i>> \in Frozen
      BY <1>4, <2>1 DEF Owned, NullMeansFreed
    <2>3. <<q, i>> \in Refs /\ loc[<<q, i>>].complete /\ loc[<<q, i>>].res # "none"
      <3>1. <<q, i>> \in Refs
        BY <2>2 DEF Frozen, RefsAt
      <3> QED  BY <2>2, <3>1, FrozenMeans DEF Owned, CompleteIsFull
    <2>4. Filled(i, computed[q])
      BY <2>3 DEF Owned, CompleteIsFull
    <2> QED  BY <1>5, <2>4
  <1> QED  BY <1>4, <1>5, <1>6 DEF Owned, NullMeansFreed

\* What a page of a table holds after the pass.
LEMMA RunWritesOwn ==
    ASSUME EngineInv, Owned, Run, NEW o \in Requests, NEW j \in DOMAIN table[o],
           table[o][j] # NullPage
    PROVE  /\ j - 1 \in Written(o) /\ o \in Scheduled
                => kv'[table[o][j]]
                     = IF Filled(j - 1, computed[o] + sched[o]) THEN <<o, j - 1>> ELSE Garbage
           /\ ~(j - 1 \in Written(o) /\ o \in Scheduled) => kv'[table[o][j]] = kv[table[o][j]]
  <1>1. PICK p : p = table[o][j]
    OBVIOUS
  <1>2. /\ table[o] \in Seq(Pages) /\ DOMAIN table[o] = 1 .. Len(table[o]) /\ Len(table[o]) \in Nat
        /\ p \in Pages /\ j \in Nat
    <2>1. table[o] \in Seq(Pages)
      BY DEF EngineInv, EngineTyped
    <2>2. DOMAIN table[o] = 1 .. Len(table[o]) /\ Len(table[o]) \in Nat
      BY <2>1, LenProperties
    <2>3. p \in Pages
      BY <1>1, <2>1, <2>2, ElementOfSeq
    <2> QED  BY <2>1, <2>2, <2>3
  <1>3. (j - 1) + 1 = j
    BY <1>2
  <1>4. ASSUME NEW q \in Scheduled, NEW i \in Written(q), rowTable[q][i + 1] = p
        PROVE  q = o /\ i = j - 1
    <2>1. q \in Requests
      BY DEF Scheduled
    <2>2. i \in Nat /\ i + 1 \in DOMAIN table[q] /\ table[q][i + 1] = p /\ p # NullPage
      BY <1>1, <1>4, <2>1, WrittenPage
    <2>3. table[q][i + 1] = table[o][j] /\ table[q][i + 1] # NullPage
      BY <1>1, <2>2
    <2>4. OneOwner
      BY DEF Owned
    <2>5. q = o /\ i + 1 = j
      BY <2>1, <2>2, <2>3, <2>4 DEF OneOwner
    <2> QED  BY <1>2, <2>2, <2>5
  <1>5. kv'[p] =
         IF \E q \in Scheduled : \E i \in Written(q) : rowTable[q][i + 1] = p
            THEN LET q == CHOOSE q \in Scheduled :
                            \E i \in Written(q) : rowTable[q][i + 1] = p
                     i == CHOOSE i \in Written(q) : rowTable[q][i + 1] = p
                 IN  IF Filled(i, computed[q] + sched[q]) THEN <<q, i>> ELSE Garbage
            ELSE kv[p]
    BY <1>2 DEF Run
  <1>6. CASE j - 1 \in Written(o) /\ o \in Scheduled
    <2>1. rowTable[o][(j - 1) + 1] = p
      <3>1. rowTable[o][(j - 1) + 1] = table[o][(j - 1) + 1]
        BY <1>6, WrittenPage
      <3> QED  BY <1>1, <1>3, <3>1
    <2>2. \E q \in Scheduled : \E i \in Written(q) : rowTable[q][i + 1] = p
      BY <1>6, <2>1
    <2>3. PICK q : q = CHOOSE r \in Scheduled : \E i \in Written(r) : rowTable[r][i + 1] = p
      OBVIOUS
    <2>4. q = o
      BY <1>4, <2>2, <2>3
    <2>5. PICK i : i = CHOOSE k \in Written(q) : rowTable[q][k + 1] = p
      OBVIOUS
    <2>6. i = j - 1
      BY <1>4, <1>6, <2>1, <2>4, <2>5
    <2>7. kv'[p] = IF Filled(i, computed[q] + sched[q]) THEN <<q, i>> ELSE Garbage
      BY <1>5, <2>2, <2>3, <2>5
    <2>8. kv'[p] = IF Filled(j - 1, computed[o] + sched[o]) THEN <<o, j - 1>> ELSE Garbage
      BY <2>4, <2>6, <2>7
    <2> QED  BY <1>1, <1>6, <2>8
  <1>7. CASE ~(j - 1 \in Written(o) /\ o \in Scheduled)
    <2>1. ~ \E q \in Scheduled : \E i \in Written(q) : rowTable[q][i + 1] = p
      BY <1>4, <1>7
    <2>2. kv'[p] = kv[p]
      BY <1>5, <2>1
    <2> QED  BY <1>1, <1>7, <2>2
  <1> QED  BY <1>6, <1>7

LEMMA RunHeld ==
    ASSUME EngineInv, IInv', Mirrored, Owned, InFlightOffloaded, Run
    PROVE  Mirrored' /\ Owned' /\ InFlightOffloaded'
  <1>1. /\ pc = "run" /\ pc' = "attended"
        /\ computed' = [q \in Requests |-> computed[q] + sched[q]]
        /\ UNCHANGED <<status, table, rowTable, kind, fresh, connVars>>
        /\ UNCHANGED <<loc, tracked>> /\ GpuWrite
    BY DEF Run, GpuWrite, tableVars
  <1>2. UNCHANGED <<trueFree, reqTable, acc, pending>>
    BY <1>1 DEF connVars
  <1>3. Frozen' = Frozen
    BY <1>1 DEF Frozen, RefsAt
  <1>4. \A q \in Requests : computed[q] \in Nat /\ sched[q] \in Nat
    BY DEF EngineInv, EngineTyped
  <1>5. Listed' /\ OwnPages'
    <2>1. Listed'
      BY <1>1, <1>2 DEF Owned, Listed
    <2>2. OwnPages'
      BY <1>1 DEF Owned, OwnPages, RefsAt
    <2> QED  BY <2>1, <2>2
  <1>6. NullMeansFreed'
    <2>1. ASSUME NEW q \in Requests, NEW i \in DOMAIN table[q]
          PROVE  /\ table[q][i] = NullPage => trueFree' /\ <<q, i - 1>> \in Frozen'
                 /\ table[q][i] # NullPage => rowTable[q][i] = table[q][i]
      <3>1. /\ table[q][i] = NullPage => trueFree /\ <<q, i - 1>> \in Frozen
            /\ table[q][i] # NullPage => rowTable[q][i] = table[q][i]
        BY DEF Owned, NullMeansFreed
      <3> QED  BY <1>2, <1>3, <3>1
    <2> QED  BY <1>1, <2>1 DEF NullMeansFreed
  <1>7. OneOwner'
    BY <1>1 DEF Owned, OneOwner
  <1>8. CompleteIsFull'
    <2>1. ASSUME NEW ref \in Refs
          PROVE  /\ loc[ref].res # "none" /\ loc[ref].complete => Filled(ref[2], computed'[ref[1]])
                 /\ ref \in Frozen => loc[ref].complete
      <3>1. PICK q \in Requests, i \in 0 .. MaxBlocks - 1 : ref = <<q, i>>
        BY DEF Refs
      <3>2. /\ loc[ref].res # "none" /\ loc[ref].complete => Filled(i, computed[q])
            /\ ref \in Frozen => loc[ref].complete
        BY <3>1 DEF Owned, CompleteIsFull
      <3>3. Filled(i, computed[q]) => Filled(i, computed'[q])
        <4>1. computed[q] \in Nat /\ computed'[q] \in Nat /\ computed[q] <= computed'[q]
          BY <1>1, <1>4
        <4>2. (i + 1) * PageSize \in Nat
          OBVIOUS
        <4> QED  BY <4>1, <4>2 DEF Filled
      <3> QED  BY <3>1, <3>2, <3>3
    <2>2. ASSUME NEW ref \in Refs
          PROVE  /\ loc'[ref].res # "none" /\ loc'[ref].complete => Filled(ref[2], computed[ref[1]])'
                 /\ ref \in Frozen' => loc'[ref].complete
      BY <1>1, <1>3, <2>1 DEF Filled
    <2> QED  BY <2>2 DEF CompleteIsFull
  <1>9. PagesHoldOwn'
    <2>1. ASSUME NEW q \in Requests, NEW i \in DOMAIN table[q],
                 Filled(i - 1, computed[q] + sched[q]), table[q][i] # NullPage
          PROVE  kv'[table[q][i]] = <<q, i - 1>>
      <3>1. /\ table[q] \in Seq(Pages) /\ DOMAIN table[q] = 1 .. Len(table[q])
            /\ Len(table[q]) \in Nat /\ Len(rowTable[q]) = Len(table[q])
        BY LenProperties DEF EngineInv, EngineTyped, Booked
      <3>2. i \in Nat /\ i >= 1 /\ i - 1 \in 0 .. Len(rowTable[q]) - 1 /\ (i - 1) + 1 = i
        BY <3>1
      <3>3. CASE Filled(i - 1, computed[q])
        <4>1. i - 1 \notin Written(q)
          BY <3>3, WrittenPage
        <4>2. kv'[table[q][i]] = kv[table[q][i]]
          BY <2>1, <4>1, RunWritesOwn
        <4>3. kv[table[q][i]] = <<q, i - 1>>
          BY <2>1, <3>3 DEF Owned, PagesHoldOwn
        <4> QED  BY <4>2, <4>3
      <3>4. CASE ~Filled(i - 1, computed[q])
        <4>1. i * PageSize \in Nat /\ (i - 1) * PageSize = i * PageSize - PageSize
          BY <3>2
        <4>2. i * PageSize > computed[q] /\ i * PageSize <= computed[q] + sched[q]
          <5>1. ((i - 1) + 1) * PageSize = i * PageSize
            BY <3>2
          <5> QED  BY <1>4, <2>1, <3>4, <4>1, <5>1 DEF Filled
        <4>3. sched[q] # 0
          BY <1>4, <4>1, <4>2
        <4>4. q \in Scheduled
          BY <4>3 DEF Scheduled, EngineInv, Booked
        <4>5. i - 1 \in Written(q)
          <5>1. ((i - 1) + 1) * PageSize > computed[q]
            BY <3>2, <4>2
          <5>2. (i - 1) * PageSize < computed[q] + sched[q]
            BY <1>4, <4>1, <4>2
          <5> QED  BY <3>2, <5>1, <5>2 DEF Written
        <4> QED  BY <2>1, <4>4, <4>5, RunWritesOwn
      <3> QED  BY <3>3, <3>4
    <2>2. ASSUME NEW q \in Requests, NEW i \in DOMAIN table'[q],
                 Filled(i - 1, computed'[q]), table'[q][i] # NullPage
          PROVE  kv'[table'[q][i]] = <<q, i - 1>>
      BY <1>1, <2>1, <2>2
    <2> QED  BY <2>2 DEF PagesHoldOwn, Filled
  <1>10. OffloadedHoldsOwn'
    <2>1. [Next]_vars
      BY <1>1 DEF Next
    <2> QED  BY <1>3, <2>1, OffloadedKept
  <1>11. Mirrored'
    <2>1. Unsynced = {} /\ Unsynced' = {}
      BY <1>1 DEF Unsynced
    <2> QED  BY <1>1, <1>2, <2>1 DEF Mirrored
  <1>12. InFlightOffloaded'
    BY <1>1, <1>2, <1>3 DEF InFlightOffloaded, InFlight
  <1> QED
    BY <1>5, <1>6, <1>7, <1>8, <1>9, <1>10, <1>11, <1>12 DEF Owned

-----------------------------------------------------------------------------
(* The patch: a decode row is patched by its own request *)

\* The residency table tracks as many blocks as the row has pages (the check of
\* _patch_indices_for_staging never fails for a scheduled request).
LEMMA TrackedCount ==
    ASSUME EngineInv, Mirrored, Owned, pc = "patch", NEW q \in Scheduled
    PROVE  Tracked(q) # {} /\ Cardinality(Tracked(q)) = Len(rowTable[q])
  <1>1. q \in Requests /\ kind[q] # "no"
    BY DEF Scheduled
  <1>2. /\ status[q] # "finished" /\ sched[q] >= 1 /\ Len(rowTable[q]) = Len(table[q])
        /\ Len(table[q]) = BlocksFor(Progress(q))
    BY <1>1 DEF EngineInv, Booked
  <1>3. Progress(q) \in Nat \ {0}
    <2>1. computed[q] \in Nat /\ sched[q] \in Nat
      BY <1>1 DEF EngineInv, EngineTyped
    <2>2. Progress(q) = computed[q] + sched[q]
      BY DEF Progress
    <2> QED  BY <1>2, <2>1, <2>2
  <1> DEFINE n == Len(table[q])
  <1>4. n \in Nat /\ n >= 1
    <2>1. BlocksFor(Progress(q)) \in Nat /\ BlocksFor(Progress(q)) >= 1
      BY <1>3, BlocksForBounds, BlocksForEmpty
    <2> QED  BY <1>2, <2>1
  <1>5. Len(reqTable[q]) = n
    <2>1. q \notin Unsynced
      BY DEF Unsynced
    <2> QED  BY <1>1, <1>4, <2>1 DEF Mirrored
  <1>6. n <= MaxBlocks
    BY <1>1, <1>5 DEF EngineInv, Booked
  <1>7. \A i \in 0 .. MaxBlocks - 1 : loc[<<q, i>>].res # "none" <=> i < n
    BY <1>1, <1>5 DEF Owned, Listed
  <1>8. Len(rowTable[q]) = n
    BY <1>2
  <1> HIDE DEF n
  <1>9. Tracked(q) = {q} \X (0 .. n - 1)
    <2>1. ASSUME NEW ref \in Tracked(q) PROVE ref \in {q} \X (0 .. n - 1)
      <3>1. PICK i \in 0 .. MaxBlocks - 1 : ref = <<q, i>>
        BY DEF Tracked, Refs
      <3>2. i < n
        BY <1>7, <3>1 DEF Tracked
      <3> QED  BY <1>4, <3>1, <3>2
    <2>2. ASSUME NEW ref \in {q} \X (0 .. n - 1) PROVE ref \in Tracked(q)
      <3>1. PICK i \in 0 .. n - 1 : ref = <<q, i>>
        OBVIOUS
      <3>2. i \in 0 .. MaxBlocks - 1 /\ i < n
        BY <1>4, <1>6
      <3>3. ref \in Refs /\ ref[1] = q
        BY <1>1, <3>1, <3>2 DEF Refs
      <3> QED  BY <1>7, <3>1, <3>2, <3>3 DEF Tracked
    <2> QED  BY <2>1, <2>2
  <1>10. Cardinality(Tracked(q)) = n
    <2> DEFINE f == [j \in 1 .. n |-> <<q, j - 1>>]
    <2>1. f \in [1 .. n -> Tracked(q)]
      BY <1>4, <1>9
    <2>2. \A a, b \in 1 .. n : f[a] = f[b] => a = b
      OBVIOUS
    <2>3. ASSUME NEW ref \in Tracked(q) PROVE \E j \in 1 .. n : f[j] = ref
      <3>1. PICK i \in 0 .. n - 1 : ref = <<q, i>>
        BY <1>9
      <3>2. i + 1 \in 1 .. n /\ f[i + 1] = <<q, i>>
        BY <1>4
      <3> QED  BY <3>1, <3>2
    <2> HIDE DEF f
    <2>4. f \in Bijection(1 .. n, Tracked(q))
      BY <2>1, <2>2, <2>3 DEF Bijection, Injection, IsInjective, Surjection
    <2> QED  BY <1>4, <2>4, FS_CountingElements DEF ExistsBijection
  <1>11. Tracked(q) # {}
    <2>1. <<q, 0>> \in {q} \X (0 .. n - 1)
      BY <1>4
    <2> QED  BY <1>9, <2>1
  <1> QED  BY <1>8, <1>10, <1>11

\* reorder_batch puts the rows of one token that continue a request before all
\* others: no row before one of them has several tokens, and the split counts it.
LEMMA DecodeRowsFirst ==
    ASSUME EngineTyped, \A o \in Requests : Booked(o), NEW rows \in RowOrders, NEW q \in DecodeRows
    PROVE  \E b \in 1 .. NumDecodes(rows) : rows[b] = q
  <1>1. /\ rows \in Orders(Scheduled) /\ Scheduled \subseteq Requests /\ q \in Scheduled
        /\ \A a, b \in DOMAIN rows : a < b => Region(rows[a]) <= Region(rows[b])
    BY DEF RowOrders, Scheduled, DecodeRows
  <1>2. /\ DOMAIN rows = 1 .. Len(rows) /\ Len(rows) \in Nat /\ rows \in Seq(Scheduled)
        /\ \A x \in Scheduled : \E b \in DOMAIN rows : rows[b] = x
    BY <1>1, OrderFacts, LenProperties
  <1>3. PICK b \in 1 .. Len(rows) : rows[b] = q
    BY <1>1, <1>2
  <1>4. \A x \in DecodeRows : sched[x] = 1 /\ Region(x) \in {0, 1}
    BY DEF Region, DecodeRows
  <1>5. \A x \in Scheduled : x \notin DecodeRows => Region(x) \in {2, 3}
    BY DEF Region
  <1>6. \A a \in 1 .. b : sched[rows[a]] = 1
    <2> SUFFICES ASSUME NEW a \in 1 .. b PROVE rows[a] \in DecodeRows
      BY <1>4
    <2>1. a \in DOMAIN rows /\ b \in DOMAIN rows /\ (a < b \/ a = b)
      BY <1>2
    <2>2. rows[a] \in Scheduled
      BY <1>2, <2>1, ElementOfSeq
    <2>3. Region(q) \in {0, 1}
      BY <1>4
    <2>4. a = b \/ Region(rows[a]) <= Region(q)
      BY <1>1, <1>3, <2>1
    <2>5. CASE a = b
      BY <1>3, <2>5
    <2>6. CASE Region(rows[a]) <= Region(q)
      <3>1. Region(rows[a]) \notin {2, 3}
        BY <2>3, <2>6
      <3> QED  BY <1>5, <2>2, <3>1
    <2> QED  BY <2>4, <2>5, <2>6
  <1>7. PICK n \in 0 .. Len(rows) : /\ n = NumDecodes(rows)
                                    /\ n < Len(rows) => sched[rows[n + 1]] > 1
    BY NumDecodesForm
  <1>8. ASSUME n < b PROVE FALSE
    <2>1. n + 1 \in 1 .. b /\ n < Len(rows)
      BY <1>2, <1>3, <1>7, <1>8
    <2>2. sched[rows[n + 1]] = 1 /\ sched[rows[n + 1]] > 1
      BY <1>6, <1>7, <2>1
    <2> QED  BY <2>2
  <1>9. b \in 1 .. n
    BY <1>2, <1>7, <1>8
  <1> QED  BY <1>3, <1>7, <1>9

LEMMA PatchedByOwn ==
    ASSUME EngineInv, Mirrored, Owned, BuildAndPatch PROVE RowsPatchedByOwn'
  <1>1. /\ UNCHANGED vllmVars /\ pc = "patch"
    BY DEF BuildAndPatch
  <1>2. DecodeRows' = DecodeRows
    BY <1>1 DEF DecodeRows, Scheduled, vllmVars
  <1> SUFFICES ASSUME NEW q \in DecodeRows PROVE rowIds'[q] = q
    BY <1>2 DEF RowsPatchedByOwn
  <1>3. PICK rows \in RowOrders :
          Aligned(rows, PatchIds(rows)) =>
            rowIds' = [o \in Requests |->
                          IF \E b \in DOMAIN PatchIds(rows) : rows[b] = o
                              THEN PatchIds(rows)[CHOOSE b \in DOMAIN PatchIds(rows) : rows[b] = o]
                              ELSE None]
    BY DEF BuildAndPatch
  <1>4. PICK use :
          /\ use = PatchIds(rows)
          /\ Aligned(rows, use) =>
                rowIds' = [o \in Requests |->
                                IF \E b \in DOMAIN use : rows[b] = o
                                    THEN use[CHOOSE b \in DOMAIN use : rows[b] = o]
                                    ELSE None]
    BY <1>3, ZenonT(30)
  <1>5. /\ rows \in Seq(Requests) /\ DOMAIN rows = 1 .. Len(rows) /\ Len(rows) \in Nat
        /\ \A a \in DOMAIN rows : rows[a] \in Scheduled
    <2>1. rows \in Orders(Scheduled) /\ Scheduled \subseteq Requests
      BY DEF RowOrders, Scheduled
    <2>2. rows \in Seq(Requests) /\ rows \in Seq(Scheduled)
      BY <2>1, OrderFacts
    <2>3. DOMAIN rows = 1 .. Len(rows) /\ Len(rows) \in Nat
      BY <2>2, LenProperties
    <2>4. \A a \in DOMAIN rows : rows[a] \in Scheduled
      BY <2>2, <2>3, ElementOfSeq
    <2> QED  BY <2>2, <2>3, <2>4
  <1>6. PICK k \in 1 .. Len(rows) : k = NumDecodes(rows) /\ \E b \in 1 .. k : rows[b] = q
    <2>1. NumDecodes(rows) \in 0 .. Len(rows)
      BY NumDecodesForm DEF EngineInv
    <2>2. PICK b \in 1 .. NumDecodes(rows) : rows[b] = q
      BY DecodeRowsFirst DEF EngineInv
    <2> QED  BY <1>5, <2>1, <2>2
  <1>7. /\ DOMAIN use = 1 .. k /\ Len(use) = k /\ use # <<>>
        /\ \A b \in 1 .. k : use[b] = rows[b] /\ b \in DOMAIN rows
    <2>1. use = SubSeq(rows, 1, k)
      BY <1>4, <1>6 DEF PatchIds
    <2>2. \A i \in 1 .. k : rows[i] \in Requests /\ i \in DOMAIN rows
      BY <1>5, <1>6, ElementOfSeq
    <2>3. /\ use \in Seq(Requests) /\ Len(use) = k
          /\ \A i \in 1 .. k - 1 + 1 : use[i] = rows[1 + i - 1]
      BY <1>5, <2>1, <2>2, SubSeqProperties
    <2>4. DOMAIN use = 1 .. k
      BY <2>3, LenProperties
    <2>5. use # <<>>
      BY <2>3, EmptySeq
    <2>6. \A b \in 1 .. k : use[b] = rows[b]
      BY <2>3
    <2> QED  BY <2>2, <2>3, <2>4, <2>5, <2>6
  <1>8. Aligned(rows, use)
    <2>1. Len(use) <= Len(rows)
      BY <1>5, <1>7
    <2>2. ASSUME NEW b \in DOMAIN use
          PROVE  Tracked(use[b]) # {} /\ Cardinality(Tracked(use[b])) = Len(rowTable[rows[b]])
      <3>1. use[b] = rows[b] /\ rows[b] \in Scheduled
        BY <1>5, <1>7
      <3> QED  BY <1>1, <3>1, TrackedCount
    <2> QED  BY <1>7, <2>1, <2>2 DEF Aligned
  <1>9. rowIds' = [o \in Requests |->
                        IF \E b \in DOMAIN use : rows[b] = o
                            THEN use[CHOOSE b \in DOMAIN use : rows[b] = o] ELSE None]
    BY <1>4, <1>8
  <1>10. q \in Requests
    BY DEF DecodeRows, Scheduled
  <1>11. PICK b : b = CHOOSE c \in DOMAIN use : rows[c] = q
    OBVIOUS
  <1>12. b \in DOMAIN use /\ rows[b] = q
    BY <1>6, <1>7, <1>11
  <1>13. rowIds'[q] = use[b]
    <2>1. \E c \in DOMAIN use : rows[c] = q
      BY <1>12
    <2> QED  BY <1>9, <1>10, <1>11, <2>1
  <1> QED  BY <1>7, <1>12, <1>13

\* A fetch that fails leaves the blocks it was to fetch on the CPU: under true
\* freeing the step does not run.
LEMMA PatchRaisesStops ==
    ASSUME EngineInv, IInv', PatchRaises PROVE RowsPatchedByOwn'
  <1>1. PICK needed \in SUBSET Refs : PrepareStagingRaises(needed)
    BY PatchRaisesStep
  <1>2. PICK A, f : A # {} /\ A \subseteq RefsAt("cpu") /\ StageBatchFails(A, f)
    BY <1>1 DEF PrepareStagingRaises, EnsureResidentRaises
  <1>3. PICK ref \in A : ref \in Refs /\ loc[ref].res = "cpu"
    BY <1>2 DEF RefsAt
  <1>4. ref \notin Evicted(A, f)
    BY <1>3 DEF Evicted, Evictable
  <1>5. loc'[ref] = loc[ref]
    BY <1>2, <1>3, <1>4 DEF StageBatchFails
  <1>6. ref \in RefsAt("cpu")' /\ RefsAt("cpu")' \subseteq Refs
    BY <1>3, <1>5 DEF RefsAt
  <1>7. numCpu' > 0
    <2>1. PICK S \in SUBSET Refs : S = RefsAt("cpu")' /\ ref \in S
      BY <1>6
    <2>2. IsFiniteSet(S) /\ Cardinality(S) \in Nat
      BY RefsCard
    <2>3. Cardinality(S) # 0
      BY <2>1, <2>2, FS_EmptySet
    <2>4. numCpu' = Cardinality(S)
      BY <2>1 DEF IInv, CpuCountExact
    <2> QED  BY <2>2, <2>3, <2>4
  <1>8. /\ UNCHANGED trueFree /\ rowIds' = [q \in Requests |-> None]
        /\ pc' = IF trueFree /\ numCpu' > 0 THEN "crashed" ELSE "run"
    BY DEF PatchRaises, connVars
  <1>9. pc' = "run" => ~trueFree'
    BY <1>7, <1>8
  <1>10. pc' \in {"run", "crashed"}
    BY <1>8
  <1>11. \A q \in Requests : rowIds'[q] = None
    BY <1>8
  <1>12. DecodeRows' \subseteq Requests
    BY DEF DecodeRows, Scheduled
  <1> QED  BY <1>9, <1>10, <1>11, <1>12 DEF RowsPatchedByOwn

\* Elsewhere rows are neither patched nor read, or nothing about them changes.
LEMMA RowsHeld ==
    ASSUME EngineInv, IInv', Mirrored, Owned, RowsPatchedByOwn, [EngineNext]_allVars
    PROVE  RowsPatchedByOwn'
  <1>1. ASSUME pc' \notin {"run", "attended"} PROVE RowsPatchedByOwn'
    BY <1>1 DEF RowsPatchedByOwn
  <1>2. CASE BuildAndPatch
    BY <1>2, PatchedByOwn
  <1>3. CASE PatchRaises
    BY <1>3, PatchRaisesStops
  <1>4. ASSUME pc \in {"run", "attended"}, UNCHANGED <<sched, kind, rowIds, trueFree>>
        PROVE  RowsPatchedByOwn'
    BY <1>4 DEF RowsPatchedByOwn, DecodeRows, Scheduled
  <1>5. CASE Run
    BY <1>4, <1>5 DEF Run, connVars
  <1>6. CASE UNCHANGED allVars
    <2>1. UNCHANGED <<pc, sched, kind, rowIds, trueFree>>
      BY <1>6 DEF allVars, engineVars, vllmVars, connVars, rowVars, pcVars
    <2> QED  BY <1>1, <1>4, <2>1
  <1>7. ASSUME NEW q \in Requests, NEW n \in 1 .. MaxChunk, Schedule(q, n)
        PROVE  pc' \notin {"run", "attended"}
    BY <1>7 DEF Schedule, pcVars
  <1>8. ASSUME NEW q \in Requests, Preempt(q) PROVE pc' \notin {"run", "attended"}
    BY <1>8 DEF Preempt, pcVars
  <1>9. ASSUME NEW q \in Requests, RequestFinished(q) PROVE pc' \notin {"run", "attended"}
    BY <1>9 DEF RequestFinished
  <1>10. ASSUME NEW q \in Requests, MetaNew(q) \/ MetaCached(q)
         PROVE  pc' \notin {"run", "attended"}
    BY <1>10 DEF MetaNew, MetaCached
  <1>11. ASSUME NEW q \in Requests, Promote(q) \/ PromoteAborts(q)
         PROVE  pc' \notin {"run", "attended"}
    BY <1>11 DEF Promote, PromoteAborts
  <1>12. ASSUME StartMeta \/ MetaPrefillDone \/ MetaPrefillNotDone \/ OnDecode \/ NotDecoding
                  \/ MetaListDone \/ Flush
         PROVE  pc' \notin {"run", "attended"}
    BY <1>12 DEF StartMeta, MetaPrefillDone, MetaPrefillNotDone, OnDecode, NotDecoding,
                 MetaListDone, Flush
  <1>13. ASSUME Trigger \/ TriggerRaises PROVE pc' \notin {"run", "attended"}
    BY <1>13 DEF Trigger, TriggerRaises, EngineInv, EngineTyped
  <1>14. ASSUME NEW k \in 0 .. Len(pending), Report(k) PROVE pc' \notin {"run", "attended"}
    BY <1>14 DEF Report
  <1> QED
    BY <1>1, <1>2, <1>3, <1>5, <1>6, <1>7, <1>8, <1>9, <1>10, <1>11, <1>12, <1>13, <1>14
    DEF EngineNext

-----------------------------------------------------------------------------
(* Prefill and decode *)

\* A step samples at most one token of a request, and only once all the tokens
\* it knew are computed.
LEMMA RunDecoding ==
    ASSUME EngineInv, Decoding, Run PROVE Decoding'
  <1>1. pc = "run" /\ prefillDone' = prefillDone
    BY DEF Run, connVars
  <1> SUFFICES ASSUME NEW q \in Requests
               PROVE  /\ q \in prefillDone => computed'[q] >= PromptLen[q]
                      /\ IF computed'[q] < PromptLen[q] THEN total'[q] = PromptLen[q]
                         ELSE total'[q] <= computed'[q] + 1
    BY <1>1 DEF Decoding
  <1>2. /\ computed[q] \in Nat /\ sched[q] \in Nat /\ total[q] \in Nat /\ PromptLen[q] \in Nat
    BY DEF EngineInv, EngineTyped
  <1>3. Progress(q) = computed[q] + sched[q] /\ Progress(q) <= total[q]
    BY <1>1 DEF Progress, EngineInv, Booked
  <1>4. computed'[q] = computed[q] + sched[q]
    BY DEF Run
  <1>5. \/ total'[q] = total[q]
        \/ total'[q] = total[q] + 1 /\ computed'[q] = total[q]
    BY DEF Run
  <1>6. /\ q \in prefillDone => computed[q] >= PromptLen[q]
        /\ IF computed[q] < PromptLen[q] THEN total[q] = PromptLen[q]
           ELSE total[q] <= computed[q] + 1
    BY DEF Decoding
  <1> QED  BY <1>2, <1>3, <1>4, <1>5, <1>6

LEMMA DecodingHeld ==
    ASSUME EngineInv, Decoding, MaxPreempt = 0, [EngineNext]_allVars
    PROVE  Decoding'
  <1>1. ASSUME UNCHANGED <<computed, total>>, prefillDone' \subseteq prefillDone
        PROVE  Decoding'
    BY <1>1 DEF Decoding
  <1>2. CASE Run
    BY <1>2, RunDecoding
  <1>3. CASE MetaPrefillDone
    <2>1. /\ UNCHANGED <<computed, total>> /\ prefillDone' = prefillDone \cup {cur}
          /\ computed[cur] >= PromptLen[cur]
      BY <1>3 DEF MetaPrefillDone, EntersDecode, vllmVars
    <2> QED  BY <2>1 DEF Decoding
  <1>4. ASSUME NEW q \in Requests, Preempt(q) PROVE FALSE
    <2>1. preempts < MaxPreempt /\ preempts \in 0 .. MaxPreempt
      BY <1>4 DEF Preempt, EngineInv, EngineTyped
    <2> QED  BY <2>1
  <1> DEFINE Kept == UNCHANGED <<computed, total>> /\ prefillDone' \subseteq prefillDone
  <1>5. ASSUME NEW q \in Requests, NEW n \in 1 .. MaxChunk, Schedule(q, n) PROVE Kept
    BY <1>5 DEF Schedule, connVars
  <1>6. ASSUME NEW q \in Requests, RequestFinished(q) PROVE Kept
    BY <1>6 DEF RequestFinished, OnRequestDone
  <1>7. ASSUME NEW q \in Requests, MetaNew(q) \/ MetaCached(q) PROVE Kept
    BY <1>7 DEF MetaNew, MetaCached, vllmVars
  <1>8. ASSUME NEW q \in Requests, Promote(q) \/ PromoteAborts(q) PROVE Kept
    BY <1>8 DEF Promote, PromoteAborts, vllmVars, connVars
  <1>9. ASSUME StartMeta \/ MetaPrefillNotDone \/ OnDecode \/ NotDecoding \/ MetaListDone \/ Flush
        PROVE  Kept
    BY <1>9 DEF StartMeta, MetaPrefillNotDone, OnDecode, NotDecoding, MetaListDone, Flush,
                vllmVars, connVars
  <1>10. ASSUME Trigger \/ TriggerRaises PROVE Kept
    BY <1>10 DEF Trigger, TriggerRaises, vllmVars
  <1>11. ASSUME BuildAndPatch \/ PatchRaises PROVE Kept
    <2>1. UNCHANGED <<vllmVars, connVars>>
      BY <1>11 DEF BuildAndPatch, PatchRaises
    <2> QED  BY <2>1 DEF vllmVars, connVars
  <1>12. ASSUME NEW k \in 0 .. Len(pending), Report(k) PROVE Kept
    BY <1>12 DEF Report
  <1>13. ASSUME UNCHANGED allVars PROVE Kept
    BY <1>13 DEF allVars, engineVars, vllmVars, connVars
  <1> HIDE DEF Kept
  <1>14. Kept \/ Run \/ MetaPrefillDone
    BY <1>4, <1>5, <1>6, <1>7, <1>8, <1>9, <1>10, <1>11, <1>12, <1>13 DEF EngineNext
  <1> QED  BY <1>1, <1>2, <1>3, <1>14 DEF Kept

-----------------------------------------------------------------------------
(* The inductive invariant of contents *)

LEMMA ContentInit == EngineInit => ContentInv
  <1> SUFFICES ASSUME EngineInit PROVE ContentInv
    OBVIOUS
  <1>1. ASSUME NEW q \in Requests
        PROVE  /\ computed[q] = 0 /\ total[q] = PromptLen[q] /\ kind[q] = "no"
               /\ status[q] = "waiting" /\ table[q] = <<>> /\ reqTable[q] = <<>>
               /\ tracked[q] = 0 /\ PromptLen[q] \in Nat \ {0}
    BY DEF EngineInit, Init
  <1>2. Len(<<>>) = 0 /\ DOMAIN <<>> = {}
    OBVIOUS
  <1>3. \A ref \in Refs : loc[ref].res = "none"
    BY UnknownFields DEF EngineInit, Init
  <1>4. Frozen = {} /\ RefsAt("gpu") = {}
    BY <1>3 DEF Frozen, RefsAt
  <1>5. InFlight = {}
    BY DEF EngineInit, InFlight, Entries
  <1>6. Unsynced = {}
    BY <1>1 DEF Unsynced, Scheduled
  <1>7. Mirrored
    BY <1>1, <1>2, <1>6 DEF Mirrored
  <1>8. Listed
    <2>1. ASSUME NEW q \in Requests, NEW i \in 0 .. MaxBlocks - 1
          PROVE  loc[<<q, i>>].res = "none" /\ ~(i < Len(reqTable[q]))
      <3>1. <<q, i>> \in Refs
        BY DEF Refs
      <3> QED  BY <1>1, <1>2, <1>3, <3>1
    <2> QED  BY <1>1, <1>2, <2>1 DEF Listed
  <1>9. OwnPages /\ NullMeansFreed /\ OneOwner /\ PagesHoldOwn /\ OffloadedHoldsOwn
    BY <1>1, <1>2, <1>4 DEF OwnPages, NullMeansFreed, OneOwner, PagesHoldOwn, OffloadedHoldsOwn
  <1>10. CompleteIsFull
    BY <1>3, <1>4 DEF CompleteIsFull
  <1>11. InFlightOffloaded
    BY <1>5 DEF InFlightOffloaded
  <1>12. RowsPatchedByOwn
    BY DEF RowsPatchedByOwn, EngineInit
  <1>13. Decoding
    BY <1>1 DEF Decoding, EngineInit
  <1> QED  BY <1>7, <1>8, <1>9, <1>10, <1>11, <1>12, <1>13 DEF ContentInv, Owned

LEMMA ContentNext ==
    ASSUME MaxPreempt = 0, MaxSkips = 0, EngineInv, ContentInv, [EngineNext]_allVars
    PROVE  ContentInv'
  <1>1. Mirrored /\ Owned /\ InFlightOffloaded /\ RowsPatchedByOwn /\ Decoding
    BY DEF ContentInv
  <1>2. [Next]_vars
    BY TablesStep
  <1>3. IInv'
    BY EngineNextInv DEF EngineInv
  <1>4. RowsPatchedByOwn'
    BY <1>1, <1>3, RowsHeld
  <1>5. Decoding'
    BY <1>1, DecodingHeld
  <1> DEFINE Goal == Mirrored' /\ Owned' /\ InFlightOffloaded'
  <1>6. ASSUME NEW q \in Requests, NEW n \in 1 .. MaxChunk, Schedule(q, n) PROVE Goal
    BY <1>1, <1>3, <1>6, ScheduleHeld
  <1>7. ASSUME NEW q \in Requests, Preempt(q) PROVE FALSE
    <2>1. preempts < MaxPreempt /\ preempts \in 0 .. MaxPreempt
      BY <1>7 DEF Preempt, EngineInv, EngineTyped
    <2> QED  BY <2>1
  <1>8. ASSUME NEW q \in Requests, RequestFinished(q) PROVE Goal
    BY <1>1, <1>2, <1>3, <1>8, FinishedHeld
  <1>9. ASSUME NEW q \in Requests, MetaNew(q) \/ MetaCached(q) PROVE Goal
    BY <1>1, <1>2, <1>3, <1>9, SyncHeld
  <1>10. ASSUME StartMeta \/ MetaPrefillNotDone \/ OnDecode \/ NotDecoding \/ MetaListDone
                  \/ Flush
         PROVE  Goal
    BY <1>1, <1>3, <1>10, QuietHeld
  <1>11. ASSUME MetaPrefillDone PROVE Goal
    BY <1>1, <1>2, <1>3, <1>11, PrefillHeld
  <1>12. ASSUME Trigger \/ TriggerRaises PROVE Goal
    BY <1>1, <1>2, <1>3, <1>12, TriggerHeld
  <1>13. ASSUME NEW q, Promote(q) \/ PromoteAborts(q) PROVE Goal
    BY <1>1, <1>2, <1>3, <1>13, StagingHeld
  <1>14. ASSUME BuildAndPatch \/ PatchRaises PROVE Goal
    BY <1>1, <1>2, <1>3, <1>14, StagingHeld
  <1>15. ASSUME Run PROVE Goal
    BY <1>1, <1>3, <1>15, RunHeld
  <1>16. ASSUME NEW k \in 0 .. Len(pending), Report(k) PROVE Goal
    BY <1>1, <1>3, <1>16, ReportHeld
  <1>17. ASSUME UNCHANGED allVars PROVE Goal
    <2>1. /\ UNCHANGED <<vars, vllmVars, connVars, pcVars>>
      BY <1>17 DEF allVars, engineVars
    <2>2. UNCHANGED <<vllmVars, reqTable, trueFree, loc, tracked, kv, acc, pending, pc, todo, kind>>
      BY <2>1 DEF vars, memVars, tableVars, connVars, pcVars, vllmVars
    <2>3. Moved
      BY <2>2, UnmovedMoved
    <2>4. Unsynced' = Unsynced /\ InFlight' = InFlight
      BY <2>2 DEF Unsynced, Scheduled, InFlight
    <2> QED  BY <1>1, <1>2, <1>3, <2>2, <2>3, <2>4, MovedHeld
  <1> HIDE DEF Goal
  <1>18. Goal
    BY <1>6, <1>7, <1>8, <1>9, <1>10, <1>11, <1>12, <1>13, <1>14, <1>15, <1>16, <1>17
    DEF EngineNext
  <1> QED  BY <1>4, <1>5, <1>18 DEF ContentInv, Goal

-----------------------------------------------------------------------------
(* What follows *)

LEMMA GpuBlocksOwn ==
    ASSUME EngineInv, Mirrored, Owned PROVE GpuBlockOwnsPage
  <1> SUFFICES ASSUME NEW ref \in RefsAt("gpu")
               PROVE  /\ ref[2] < Len(table[ref[1]])
                      /\ table[ref[1]][ref[2] + 1] = loc[ref].page
    BY DEF GpuBlockOwnsPage
  <1>1. ref \in Refs /\ loc[ref].res = "gpu"
    BY DEF RefsAt
  <1>2. PICK q \in Requests, i \in 0 .. MaxBlocks - 1 : ref = <<q, i>>
    BY <1>1 DEF Refs
  <1>3. /\ i < Len(reqTable[q]) /\ Len(reqTable[q]) <= Len(table[q])
        /\ Len(table[q]) \in Nat /\ Len(reqTable[q]) \in Nat
    BY <1>1, <1>2, KnownBlock
  <1>4. i < Len(table[q])
    BY <1>3
  <1>5. loc[ref].page = table[ref[1]][ref[2] + 1]
    BY DEF Owned, OwnPages
  <1> QED  BY <1>2, <1>4, <1>5

LEMMA NothingOrphaned ==
    ASSUME EngineInv, Mirrored, Owned PROVE NoOrphans
  <1> SUFFICES ASSUME NEW ref \in Refs, status[ref[1]] = "finished" PROVE loc[ref].res = "none"
    BY DEF NoOrphans
  <1>1. PICK q \in Requests, i \in 0 .. MaxBlocks - 1 : ref = <<q, i>>
    BY DEF Refs
  <1>2. status[q] = "finished"
    BY <1>1
  <1>3. table[q] = <<>> /\ (kind[q] = "no" \/ pc \in {"attended", "report"})
    BY <1>2 DEF EngineInv, Booked
  <1>4. q \notin Unsynced
    BY <1>3 DEF Unsynced, Scheduled
  <1>5. Len(table[q]) = 0
    BY <1>3
  <1>6. Len(reqTable[q]) = 0
    BY <1>4, <1>5 DEF Mirrored
  <1>7. ~(i < Len(reqTable[q]))
    BY <1>6
  <1> QED  BY <1>1, <1>7 DEF Owned, Listed

LEMMA DecodeRowsReadOwn ==
    ASSUME EngineInv, ContentInv PROVE DecodeReadsOwn
  <1> SUFFICES ASSUME pc = "attended", NEW q \in DecodeRows,
                      NEW i \in 0 .. Len(rowTable[q]) - 1, Filled(i, computed[q]),
                      ~MaskedToNull(q, i)
               PROVE  EntryContent(q, i) = <<q, i>>
    BY DEF DecodeReadsOwn, ReadsOwn
  <1>1. q \in Requests /\ Mirrored /\ Owned /\ RowsPatchedByOwn
    BY DEF DecodeRows, Scheduled, ContentInv
  <1>2. /\ table[q] \in Seq(Pages) /\ DOMAIN table[q] = 1 .. Len(table[q])
        /\ Len(table[q]) \in Nat
    <2>1. table[q] \in Seq(Pages)
      BY <1>1 DEF EngineInv, EngineTyped
    <2> QED  BY <2>1, LenProperties
  <1>3. Len(rowTable[q]) = Len(table[q]) /\ Len(reqTable[q]) <= MaxBlocks
    BY <1>1 DEF EngineInv, Booked
  <1>4. Len(reqTable[q]) = Len(table[q])
    <2>1. q \notin Unsynced
      BY DEF Unsynced
    <2> QED  BY <1>1, <1>2, <2>1 DEF Mirrored
  <1>5. /\ i + 1 \in DOMAIN table[q] /\ (i + 1) - 1 = i /\ i \in 0 .. MaxBlocks - 1
    BY <1>2, <1>3, <1>4
  <1>6. <<q, i>> \in Refs
    BY <1>1, <1>5 DEF Refs
  <1>7. rowIds[q] = q \/ (rowIds[q] = None /\ ~trueFree)
    BY <1>1 DEF RowsPatchedByOwn
  <1>8. /\ table[q][i + 1] = NullPage => trueFree /\ <<q, i>> \in Frozen
        /\ table[q][i + 1] # NullPage => rowTable[q][i + 1] = table[q][i + 1]
        /\ table[q][i + 1] # NullPage => kv[table[q][i + 1]] = <<q, i>>
    <2>1. NullMeansFreed /\ PagesHoldOwn
      BY <1>1 DEF Owned
    <2>2. /\ table[q][i + 1] = NullPage => trueFree /\ <<q, (i + 1) - 1>> \in Frozen
          /\ table[q][i + 1] # NullPage => rowTable[q][i + 1] = table[q][i + 1]
      BY <1>1, <1>5, <2>1 DEF NullMeansFreed
    <2>3. /\ Filled((i + 1) - 1, computed[q]) /\ table[q][i + 1] # NullPage
               => kv[table[q][i + 1]] = <<q, (i + 1) - 1>>
      BY <1>1, <1>5, <2>1 DEF PagesHoldOwn
    <2> QED  BY <1>5, <2>2, <2>3
  <1>9. loc[<<q, i>>].res = "staging" => stage[loc[<<q, i>>].stg] = <<q, i>>
    <2> SUFFICES ASSUME loc[<<q, i>>].res = "staging" PROVE stage[loc[<<q, i>>].stg] = <<q, i>>
      OBVIOUS
    <2>1. <<q, i>> \in Frozen
      BY <1>6, FrozenMeans
    <2>2. View[<<q, i>>] = <<q, i>>
      BY <1>1, <2>1 DEF Owned, OffloadedHoldsOwn
    <2> QED  BY <1>6, <2>2, ViewAt
  <1>10. CASE rowIds[q] = None /\ ~trueFree
    BY <1>8, <1>10 DEF EntryContent
  <1>11. CASE rowIds[q] = q
    <2>1. q # None
      BY <1>1
    <2>2. CASE loc[<<q, i>>].res = "staging"
      BY <1>9, <1>11, <2>1, <2>2 DEF EntryContent
    <2>3. CASE loc[<<q, i>>].res = "cpu"
      <3>1. ~trueFree
        BY <1>11, <2>1, <2>3 DEF MaskedToNull
      <3> QED  BY <1>8, <1>11, <2>1, <2>3, <3>1 DEF EntryContent
    <2>4. CASE loc[<<q, i>>].res \notin {"staging", "cpu"}
      <3>1. <<q, i>> \notin Frozen
        BY <1>6, <2>4, FrozenMeans
      <3> QED  BY <1>8, <1>11, <2>1, <2>4, <3>1 DEF EntryContent
    <2> QED  BY <2>2, <2>3, <2>4
  <1> QED  BY <1>7, <1>10, <1>11

\* While no request is preempted and no exception leaves one unsynced, tables,
\* pages, copies and rows belong together as ContentInv says.
THEOREM ContentInvariant ==
    MaxPreempt = 0 /\ MaxSkips = 0 => (EngineSpec => []ContentInv)
  <1> SUFFICES ASSUME MaxPreempt = 0, MaxSkips = 0 PROVE EngineSpec => []ContentInv
    OBVIOUS
  <1>1. EngineInit => ContentInv
    BY ContentInit
  <1>2. EngineInv /\ ContentInv /\ [EngineNext]_allVars => ContentInv'
    BY ContentNext
  <1> QED  BY <1>1, <1>2, EngineInvariant, PTL DEF EngineSpec

\* Between steps a block that the residency table calls GPU-resident is in its
\* request's block table, on the page the residency table names: sync, trigger,
\* surgery and request_finished never leave it pointing to a page that is free
\* or someone else's.
THEOREM GpuBlocksOwnTheirPages ==
    MaxPreempt = 0 /\ MaxSkips = 0 => (EngineSpec => []GpuBlockOwnsPage)
  <1> SUFFICES ASSUME MaxPreempt = 0, MaxSkips = 0 PROVE EngineSpec => []GpuBlockOwnsPage
    OBVIOUS
  <1>1. EngineInv /\ ContentInv => GpuBlockOwnsPage
    BY GpuBlocksOwn DEF ContentInv
  <1> QED  BY <1>1, EngineInvariant, ContentInvariant, PTL

\* request_finished leaves nothing behind under the request, and nothing comes
\* back later: neither the store events still in flight nor a late sync bring an
\* entry of a finished request back.
THEOREM NothingOutlivesItsRequest ==
    MaxPreempt = 0 /\ MaxSkips = 0 => (EngineSpec => []NoOrphans)
  <1> SUFFICES ASSUME MaxPreempt = 0, MaxSkips = 0 PROVE EngineSpec => []NoOrphans
    OBVIOUS
  <1>1. EngineInv /\ ContentInv => NoOrphans
    BY NothingOrphaned DEF ContentInv
  <1> QED  BY <1>1, EngineInvariant, ContentInvariant, PTL

\* The CPU copy of an offloaded block, and the staging copy of a staged one, hold
\* that block's rows: what _trigger_global_offload copies was complete and on
\* the request's own page, and no later step writes it.
THEOREM OffloadedCopiesHoldOwn ==
    MaxPreempt = 0 /\ MaxSkips = 0 => (EngineSpec => []OffloadedHoldsOwn)
  <1> SUFFICES ASSUME MaxPreempt = 0, MaxSkips = 0 PROVE EngineSpec => []OffloadedHoldsOwn
    OBVIOUS
  <1>1. ContentInv => OffloadedHoldsOwn
    BY DEF ContentInv, Owned
  <1> QED  BY <1>1, ContentInvariant, PTL

\* A decode row reads its own rows through the patched indices of
\* _patch_indices_for_staging, or the null page for a cold block: never a page
\* that was freed and handed on, nor one staged for another block.
THEOREM DecodeRowsReadTheirOwn ==
    MaxPreempt = 0 /\ MaxSkips = 0 => (EngineSpec => []DecodeReadsOwn)
  <1> SUFFICES ASSUME MaxPreempt = 0, MaxSkips = 0 PROVE EngineSpec => []DecodeReadsOwn
    OBVIOUS
  <1>1. EngineInv /\ ContentInv => DecodeReadsOwn
    BY DecodeRowsReadOwn
  <1> QED  BY <1>1, EngineInvariant, ContentInvariant, PTL

-----------------------------------------------------------------------------
(* The decode counter *)

LEMMA CountsInDecode ==
    ASSUME EngineInv, [EngineNext]_allVars, NEW q \in Requests, count'[q] > count[q]
    PROVE  OnDecode /\ q = cur
  <1>1. count \in [Requests -> Nat]
    BY DEF EngineInv, EngineTyped
  <1> DEFINE Kept == count' = count \/ \E o \in Requests : count' = [count EXCEPT ![o] = 0]
  <1>2. Kept => FALSE
    <2>1. ASSUME NEW o \in Requests, count' = [count EXCEPT ![o] = 0] PROVE FALSE
      <3>1. count'[q] = 0 \/ count'[q] = count[q]
        BY <1>1, <2>1
      <3>2. count[q] \in Nat
        BY <1>1
      <3> QED  BY <3>1, <3>2
    <2>2. ASSUME count' = count PROVE FALSE
      <3>1. count[q] \in Nat
        BY <1>1
      <3> QED  BY <2>2, <3>1
    <2> QED  BY <2>1, <2>2
  <1>3. ASSUME NEW o \in Requests, NEW n \in 1 .. MaxChunk, Schedule(o, n) PROVE Kept
    BY <1>3 DEF Schedule, connVars
  <1>4. ASSUME NEW o \in Requests, Preempt(o) PROVE Kept
    BY <1>4 DEF Preempt, connVars
  <1>5. ASSUME NEW o \in Requests, RequestFinished(o) PROVE Kept
    BY <1>5 DEF RequestFinished, OnRequestDone
  <1>6. ASSUME NEW o \in Requests, MetaNew(o) \/ MetaCached(o) PROVE Kept
    BY <1>6 DEF MetaNew, MetaCached
  <1>7. ASSUME NEW o \in Requests, Promote(o) \/ PromoteAborts(o) PROVE Kept
    BY <1>7 DEF Promote, PromoteAborts, connVars
  <1>8. ASSUME StartMeta \/ MetaPrefillDone \/ MetaPrefillNotDone \/ NotDecoding \/ MetaListDone
                 \/ Flush
        PROVE  Kept
    BY <1>8 DEF StartMeta, MetaPrefillDone, MetaPrefillNotDone, NotDecoding, MetaListDone,
                Flush, connVars
  <1>9. ASSUME Trigger \/ TriggerRaises PROVE Kept
    BY <1>9 DEF Trigger, TriggerRaises
  <1>10. ASSUME BuildAndPatch \/ PatchRaises PROVE Kept
    <2>1. UNCHANGED connVars
      BY <1>10 DEF BuildAndPatch, PatchRaises
    <2> QED  BY <2>1 DEF connVars
  <1>11. ASSUME Run PROVE Kept
    BY <1>11 DEF Run, connVars
  <1>12. ASSUME NEW k \in 0 .. Len(pending), Report(k) PROVE Kept
    BY <1>12 DEF Report
  <1>13. ASSUME UNCHANGED allVars PROVE Kept
    BY <1>13 DEF allVars, engineVars, connVars
  <1>14. ASSUME OnDecode PROVE q = cur
    BY <1>1, <1>14 DEF OnDecode
  <1> HIDE DEF Kept
  <1> QED
    BY <1>2, <1>3, <1>4, <1>5, <1>6, <1>7, <1>8, <1>9, <1>10, <1>11, <1>12, <1>13, <1>14
    DEF EngineNext

\* A count that grows by one and passes a multiple of W stands on it.
LEMMA NextMultiple ==
    ASSUME NEW c \in Nat, NEW w \in Nat \ {0}, (c + 1) \div w > c \div w
    PROVE  (c + 1) % w = 0
  <1> DEFINE a == c \div w
             b == (c + 1) \div w
             r == (c + 1) % w
  <1>1. /\ a \in Nat /\ b \in Nat /\ r \in Nat
        /\ c < w * a + w /\ c + 1 = w * b + r
    OBVIOUS
  <1> HIDE DEF a, b, r
  <1>2. PICK d \in Nat : b = a + 1 + d
    <2>1. b - a - 1 \in Nat /\ b = a + 1 + (b - a - 1)
      BY <1>1 DEF a, b
    <2> QED  BY <2>1
  <1>3. w * b = w * a + w + w * d /\ w * d \in Nat /\ w * a \in Nat
    BY <1>1, <1>2
  <1>4. r = 0
    BY <1>1, <1>3
  <1> QED  BY <1>4 DEF r

LEMMA DecodingInvariant == MaxPreempt = 0 => (EngineSpec => []Decoding)
  <1> SUFFICES ASSUME MaxPreempt = 0 PROVE EngineSpec => []Decoding
    OBVIOUS
  <1>1. EngineInit => Decoding
    BY ContentInit DEF ContentInv
  <1>2. EngineInv /\ Decoding /\ [EngineNext]_allVars => Decoding'
    BY DecodingHeld
  <1> QED  BY <1>1, <1>2, EngineInvariant, PTL DEF EngineSpec

\* The counter of on_decode does not move before the prompt is computed, through
\* chunked prefill and exceptions alike.
THEOREM NoCountBeforeDecode == MaxPreempt = 0 => (EngineSpec => NoCountInPrefill)
  <1> SUFFICES ASSUME MaxPreempt = 0 PROVE EngineSpec => NoCountInPrefill
    OBVIOUS
  <1>1. EngineInv /\ Decoding /\ [EngineNext]_allVars
           => [\A q \in Requests : count'[q] > count[q] => computed[q] >= PromptLen[q]]_allVars
    <2> SUFFICES ASSUME EngineInv, Decoding, [EngineNext]_allVars,
                        NEW q \in Requests, count'[q] > count[q]
                 PROVE  computed[q] >= PromptLen[q]
      OBVIOUS
    <2>1. q \in prefillDone
      BY CountsInDecode DEF OnDecode
    <2> QED  BY <2>1 DEF Decoding
  <1> QED  BY <1>1, EngineInvariant, DecodingInvariant, PTL DEF EngineSpec, NoCountInPrefill

\* A decode count that passes a multiple of W triggers the offload pass: on_decode
\* tests count % W = 0 after adding the tokens of the step, and these are one,
\* as a decoding request knows at most one token it has not computed.
THEOREM NoWindowIsSkipped == MaxPreempt = 0 => (EngineSpec => WindowNeverSkipped)
  <1> SUFFICES ASSUME MaxPreempt = 0 PROVE EngineSpec => WindowNeverSkipped
    OBVIOUS
  <1>1. EngineInv /\ Decoding /\ [EngineNext]_allVars
           => [\A q \in Requests :
                 count'[q] > count[q] /\ count'[q] \div Window > count[q] \div Window
                    => pc' = "trigger"]_allVars
    <2> SUFFICES ASSUME EngineInv, Decoding, [EngineNext]_allVars, NEW q \in Requests,
                        count'[q] > count[q], count'[q] \div Window > count[q] \div Window
                 PROVE  pc' = "trigger"
      OBVIOUS
    <2>1. OnDecode /\ q = cur
      BY CountsInDecode
    <2>2. /\ count[q] \in Nat /\ sched[q] \in Nat /\ computed[q] \in Nat /\ total[q] \in Nat
          /\ PromptLen[q] \in Nat
      BY DEF EngineInv, EngineTyped
    <2>3. computed[q] >= PromptLen[q] /\ pc = "decode"
      BY <2>1 DEF OnDecode, Decoding
    <2>4. total[q] <= computed[q] + 1
      BY <2>2, <2>3 DEF Decoding
    <2>5. Progress(q) = computed[q] + sched[q] /\ Progress(q) <= total[q]
      BY <2>3 DEF Progress, EngineInv, Booked
    <2>6. count'[q] = count[q] + sched[q]
      BY <2>1 DEF OnDecode, EngineInv, EngineTyped
    <2>7. sched[q] = 1
      <3>1. PICK k \in Nat, s \in Nat, c \in Nat, t \in Nat :
              k = count[q] /\ s = sched[q] /\ c = computed[q] /\ t = total[q]
        BY <2>2
      <3>2. c + s <= t /\ t <= c + 1
        BY <2>4, <2>5, <3>1
      <3>3. k + s > k
        BY <2>6, <3>1
      <3>4. s = 1
        BY <3>2, <3>3
      <3> QED  BY <3>1, <3>4
    <2>8. count'[q] = count[q] + 1
      BY <2>6, <2>7
    <2>9. (count[q] + 1) % Window = 0
      <3>1. (count[q] + 1) \div Window > count[q] \div Window
        BY <2>8
      <3> QED  BY <2>2, <3>1, NextMultiple
    <2> QED  BY <2>1, <2>8, <2>9 DEF OnDecode
  <1> QED  BY <1>1, EngineInvariant, DecodingInvariant, PTL DEF EngineSpec, WindowNeverSkipped

=============================================================================
