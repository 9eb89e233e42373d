----------------------------- MODULE SlotSummary -----------------------------
(***************************************************************************)
(* The slot summaries of the Skylight metadata builder (_sk_fill_slots of     *)
(* skylight/backend.py): for every decode row the GPU keeps the codes of the  *)
(* row's keys in a slot, the slot is the position of the row in the batch, and *)
(* a slot is rebuilt from the KV pages when its occupant seems to have changed. *)
(* The persistent batch of vLLM's runner, which decides the positions, and the *)
(* freeing of offloaded pages are modelled with it.                           *)
(*                                                                           *)
(* Rows are told apart by the block they belong to: the code of a token is     *)
(* the <<request, block>> whose page it was computed from.                    *)
(***************************************************************************)
EXTENDS Integers, Sequences, FiniteSets, SequencesExt

CONSTANTS
    Requests,
    Pages,
    PageSize,
    PromptLen,     \* prompt tokens of each request
    MaxLen,        \* bound: tokens of a request
    MaxBs,         \* slots of the maintainer (_sk_maxbs)
    MaxPreempt,    \* bound: preemptions in a behaviour
    MaxGiven,      \* bound: blocks truly freed at a time
    NoReq, NoPage, Garbage

Blk(t) == (t + PageSize - 1) \div PageSize
Refs == Requests \X (1 .. Blk(MaxLen))
Slots == 1 .. MaxBs

ASSUME SlotAssumption ==
    /\ IsFiniteSet(Requests) /\ IsFiniteSet(Pages) /\ NoPage \notin Pages
    /\ NoReq \notin Requests /\ Garbage \notin Refs
    /\ PageSize \in Nat \ {0} /\ MaxLen \in Nat /\ MaxBs \in Nat \ {0}
    /\ PromptLen \in [Requests -> 1 .. MaxLen] /\ MaxPreempt \in Nat
    /\ MaxGiven \in Nat

VARIABLES
    status,     \* of a request: "waiting", "running", "preempted", "finished"
    len,        \* its tokens, without the one sampled last
    table,      \* its row of the runner's block table
    given,      \* blocks offloaded and truly freed: the row keeps the page id
    kv,         \* block whose rows a page holds
    preempts,
    batch,      \* req_ids of the persistent batch after the last step
    nd,         \* num_decodes of the last step
    owner,      \* _sk_owner: first page of the occupant of each slot
    prev,       \* _sk_prev_sl: its length
    codes,      \* the slot buffers: a code for every token position
    occupant,   \* ghost: the request a slot was last used for
    excuse,     \* ghost: why the codes of a slot may be wrong
    down        \* the builder raised: the engine is dead

reqVars == <<status, len, table, given, kv, preempts>>
slotVars == <<owner, prev, codes, occupant, excuse>>
vars == <<reqVars, batch, nd, slotVars, down>>

Init ==
    /\ status = [r \in Requests |-> "waiting"]
    /\ len = PromptLen
    /\ table = [r \in Requests |-> <<>>]
    /\ given = {}
    /\ kv = [p \in Pages |-> Garbage]
    /\ preempts = 0
    /\ batch = <<>> /\ nd = 0
    /\ owner = [b \in Slots |-> NoPage]
    /\ prev = [b \in Slots |-> 0]
    /\ codes = [b \in Slots |-> [t \in 1 .. MaxLen |-> Garbage]]
    /\ occupant = [b \in Slots |-> NoReq]
    /\ excuse = [b \in Slots |-> "none"]
    /\ down = FALSE

Held == {r \in Refs : status[r[1]] = "running" /\ r[2] \in DOMAIN table[r[1]] /\ r \notin given}
Free == Pages \ {table[r[1]][r[2]] : r \in Held}

-----------------------------------------------------------------------------
(* The persistent batch *)

Ascending(S) == CHOOSE s \in SetToSeqs(S) : \A i, j \in DOMAIN s : i < j => s[i] < s[j]
Count(b) == Cardinality({i \in DOMAIN b : b[i] # NoReq})

\* remove_request of what is not scheduled; a resumed request leaves as well.
RemoveRequests(b, keep) == [i \in DOMAIN b |-> IF b[i] \in keep THEN b[i] ELSE NoReq]

\* The rows put at these places, the first at the first, as many as there are.
Placed(b, places, rows) ==
    [i \in DOMAIN b |->
        IF \E k \in DOMAIN places \cap DOMAIN rows : places[k] = i
            THEN rows[CHOOSE k \in DOMAIN places : places[k] = i] ELSE b[i]]

\* Mutant: the request that took the last hole is appended as well.
AddAllTwice(b, new) ==
    LET holes == Ascending({i \in DOMAIN b : b[i] = NoReq})
        n == Len(holes)
    IN  Placed(b, holes, new) \o SubSeq(new, IF n = 0 THEN 1 ELSE n, Len(new))

\* add_request: the smallest empty index first, then the end.
AddAll(b, new) ==
    LET holes == Ascending({i \in DOMAIN b : b[i] = NoReq})
    IN  Placed(b, holes, new) \o SubSeq(new, Len(holes) + 1, Len(new))

\* condense: the last requests slide into the first holes.
Condense(b) ==
    LET n == Count(b)
        holes == Ascending({i \in 1 .. n : b[i] = NoReq})
        last == Reverse(Ascending({i \in n + 1 .. Len(b) : b[i] # NoReq}))
    IN  SubSeq(Placed(b, holes, [k \in DOMAIN last |-> b[last[k]]]), 1, n)

\* reorder_batch_to_split_decodes_and_prefills: misplaced rows change places.
Reorder(b, decodes) ==
    LET n == Cardinality(decodes)
        wrong == {i \in DOMAIN b : (b[i] \in decodes) # (i <= n)}
        from == Ascending({i \in wrong : b[i] \in decodes})
                \o Ascending({i \in wrong : b[i] \notin decodes})
    IN  Placed(b, Ascending(wrong), [k \in DOMAIN from |-> b[from[k]]])

\* _update_states: the batch for these decode rows and prefill rows; those not in
\* the batch yet are added in the given order.
UpdateStates(decodes, new) ==
    Reorder(Condense(AddAll(RemoveRequests(batch, decodes \ ToSet(new)), new)), decodes)

-----------------------------------------------------------------------------
(* The metadata builder *)

\* Mutant: only the first page is compared.
ChangedByPage(b, first, l) == owner[b] # first

\* Mutant: only the length is compared.
ChangedByLength(b, first, l) == l # prev[b] + 1 /\ l # prev[b]

\* The test of _sk_fill_slots for a new occupant of slot b.
Changed(b, first, l) ==
    \/ owner[b] # first
    \/ l # prev[b] + 1 /\ l # prev[b]

\* init_layer: the codes of the first n tokens, read from the pages of the row;
\* later ones are never looked at before they are appended.
InitLayer(row, n) ==
    [t \in 1 .. MaxLen |-> IF t <= n THEN kv[row[Blk(t)]] ELSE Garbage]

\* Mutant: the length is recorded before the new token.
FillSlotsOldLength(rows, n, tbl, l) ==
    LET changed(b) == Changed(b, tbl[rows[b]][1], l[rows[b]])
    IN  /\ owner' = [b \in Slots |-> IF b <= n THEN tbl[rows[b]][1] ELSE owner[b]]
        /\ prev' = [b \in Slots |-> IF b <= n THEN l[rows[b]] - 1 ELSE prev[b]]
        /\ codes' = [b \in Slots |->
              IF b > n THEN codes[b]
              ELSE [(IF changed(b) THEN InitLayer(tbl[rows[b]], l[rows[b]] - 1)
                     ELSE codes[b]) EXCEPT ![l[rows[b]]] = <<rows[b], Blk(l[rows[b]])>>]]

\* _sk_fill_slots for the first n rows, then the append of the forward pass.
FillSlots(rows, n, tbl, l) ==
    LET changed(b) == Changed(b, tbl[rows[b]][1], l[rows[b]])
    IN  /\ owner' = [b \in Slots |-> IF b <= n THEN tbl[rows[b]][1] ELSE owner[b]]
        /\ prev' = [b \in Slots |-> IF b <= n THEN l[rows[b]] ELSE prev[b]]
        /\ codes' = [b \in Slots |->
              IF b > n THEN codes[b]
              ELSE [(IF changed(b) THEN InitLayer(tbl[rows[b]], l[rows[b]] - 1)
                     ELSE codes[b]) EXCEPT ![l[rows[b]]] = <<rows[b], Blk(l[rows[b]])>>]]

\* Ghosts.  A slot is inherited when its occupant changes unnoticed, and lossy
\* when it is rebuilt for a row with freed blocks.
LooksLikeOccupant(b, first, l) == owner[b] = first /\ l - prev[b] \in {0, 1}

Note(rows, n, tbl, l) ==
    /\ occupant' = [b \in Slots |-> IF b <= n THEN rows[b] ELSE occupant[b]]
    /\ excuse' = [b \in Slots |->
          IF b > n THEN excuse[b]
          ELSE LET r == rows[b]
               IN  IF LooksLikeOccupant(b, tbl[r][1], l[r])
                   THEN IF occupant[b] # r THEN "inherited" ELSE excuse[b]
                   ELSE IF \E i \in 1 .. Blk(l[r] - 1) : <<r, i>> \in given
                            THEN "lossy" ELSE "none"]

-----------------------------------------------------------------------------
(* Steps *)

\* The tokens of r after a step: its prompt, or all so far and the one sampled
\* last; a resumed request computes them again.
Upto(r) == IF status[r] = "waiting" THEN len[r] ELSE len[r] + 1

\* One engine step: decodes compute one token each, prefills all of theirs; the
\* blocks they need come from free pages.
Step(decodes, prefills, new, alloc) ==
    LET rows == UpdateStates(decodes, new)
        l == [r \in Requests |-> IF r \in decodes \cup prefills THEN Upto(r) ELSE len[r]]
        tbl == [r \in Requests |->
                  IF r \in decodes \cup prefills
                      THEN [i \in 1 .. Blk(l[r]) |->
                              IF <<r, i>> \in DOMAIN alloc THEN alloc[<<r, i>>] ELSE table[r][i]]
                      ELSE table[r]]
        n == Cardinality(decodes)
    IN  /\ status' = [r \in Requests |-> IF r \in prefills THEN "running" ELSE status[r]]
        /\ len' = l /\ table' = tbl
        /\ kv' = [p \in Pages |->
                    IF \E r \in DOMAIN alloc : alloc[r] = p
                        THEN CHOOSE r \in DOMAIN alloc : alloc[r] = p ELSE kv[p]]
        /\ batch' = rows /\ nd' = n
        /\ FillSlots(rows, n, tbl, l)
        /\ Note(rows, n, tbl, l)
        /\ UNCHANGED <<given, preempts, down>>

Runnable == {r \in Requests : status[r] = "running" /\ len[r] < MaxLen}
Waiting == {r \in Requests : status[r] \in {"waiting", "preempted"} /\ Upto(r) <= MaxLen}

EngineStep ==
    /\ ~down
    /\ \E decodes \in SUBSET Runnable, prefills \in SUBSET Waiting :
         LET new == (decodes \ ToSet(batch)) \cup prefills
             needed == {<<r, Blk(len[r] + 1)>> : r \in {d \in decodes : len[d] % PageSize = 0}}
                       \cup {r \in Refs : r[1] \in prefills /\ r[2] <= Blk(Upto(r[1]))}
         IN  /\ decodes \cup prefills # {}
             /\ Cardinality(decodes) <= MaxBs
             /\ \E order \in SetToSeqs(new), alloc \in Injection(needed, Free) :
                  Step(decodes, prefills, order, alloc)

\* More decode rows than slots: copying seq_lens into _sk_seqlens_d raises.
TooManyRows ==
    /\ ~down
    /\ \E decodes \in SUBSET Runnable : Cardinality(decodes) > MaxBs
    /\ down' = TRUE
    /\ UNCHANGED <<reqVars, batch, nd, slotVars>>

\* A request stops; its pages are free at once, its row goes with the next step.
Finish(r) ==
    /\ ~down /\ status[r] = "running"
    /\ status' = [status EXCEPT ![r] = "finished"]
    /\ table' = [table EXCEPT ![r] = <<>>]
    /\ given' = {g \in given : g[1] # r}
    /\ UNCHANGED <<len, kv, preempts, batch, nd, slotVars, down>>

\* _preempt_request: all pages go, and come back with other ids.
Preempt(r) ==
    /\ ~down /\ status[r] = "running" /\ preempts < MaxPreempt
    /\ preempts' = preempts + 1
    /\ status' = [status EXCEPT ![r] = "preempted"]
    /\ table' = [table EXCEPT ![r] = <<>>]
    /\ given' = {g \in given : g[1] # r}
    /\ UNCHANGED <<len, kv, batch, nd, slotVars, down>>

\* _process_store_completion for one full block, after a decode row triggered the
\* offload: the scheduler forgets the page, the runner's row still names it.
TrueFree(r, i) ==
    /\ ~down /\ <<r, i>> \in Held /\ i * PageSize <= len[r]
    /\ \E b \in Slots : prev[b] > 0
    /\ Cardinality(given) < MaxGiven
    /\ given' = given \cup {<<r, i>>}
    /\ UNCHANGED <<status, len, table, kv, preempts, batch, nd, slotVars, down>>

Next ==
    \/ EngineStep
    \/ TooManyRows
    \/ \E r \in Requests : Finish(r)
    \/ \E r \in Requests : Preempt(r)
    \/ \E r \in Refs : TrueFree(r[1], r[2])

Spec == Init /\ [][Next]_vars

-----------------------------------------------------------------------------
(* Properties *)

\* Every variable has its type; the batch lists each request once.
SlotTypeOK ==
    /\ status \in [Requests -> {"waiting", "running", "preempted", "finished"}]
    /\ len \in [Requests -> 1 .. MaxLen]
    /\ \A r \in Requests : ToSet(table[r]) \subseteq Pages
    /\ given \subseteq Refs /\ kv \in [Pages -> Refs \cup {Garbage}]
    /\ preempts \in 0 .. MaxPreempt
    /\ ToSet(batch) \subseteq Requests /\ IsInjective(batch) /\ nd \in 0 .. Len(batch)
    /\ owner \in [Slots -> Pages \cup {NoPage}] /\ prev \in [Slots -> 0 .. MaxLen]
    /\ codes \in [Slots -> [1 .. MaxLen -> Refs \cup {Garbage}]]
    /\ occupant \in [Slots -> Requests \cup {NoReq}]
    /\ excuse \in [Slots -> {"none", "inherited", "lossy"}] /\ down \in BOOLEAN

Own(b) == \A t \in 1 .. len[batch[b]] : codes[b][t] = <<batch[b], Blk(t)>>

\* A decode row is scored with the codes of its own tokens, all of them, however
\* rows joined, left, moved, were preempted or sat out steps, with two exceptions
\* the code does not cover: a slot taken over by a request with the same first
\* page at the same or the next length, and a slot rebuilt from freed pages.
CodesAreOwn == \A b \in 1 .. nd : excuse[b] = "none" => Own(b)

\* backend.py:333-335 of the codes: "so selection can score pages WITHOUT reading
\* the KV cache -- which is what keeps offloaded (CPU-resident) blocks selectable
\* for fetch-back".  The codes of a row are its own after blocks were freed, too.
OffloadedStaySelectable == \A b \in 1 .. nd : excuse[b] # "inherited" => Own(b)

\* backend.py:708-709: only a change of the batch rebuilds a slot ("steady decode ->
\* all False -> no host work").  A row that keeps its place keeps its codes, even
\* when pages it names have been freed and overwritten.
SteadyRowsKeepCodes ==
    [][\A b \in 1 .. nd :
          b <= nd' /\ batch'[b] = batch[b] =>
              \A t \in 1 .. len[batch[b]] : codes'[b][t] = codes[b][t]]_vars

=============================================================================
