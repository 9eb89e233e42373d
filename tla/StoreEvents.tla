----------------------------- MODULE StoreEvents -----------------------------
(***************************************************************************)
(* How a store event travels: build_connector_meta numbers the offload       *)
(* batches of a step (integration/scheduler_connector.py), every worker      *)
(* records a CUDA event for it and reports it once the event has fired       *)
(* (integration/worker_connector.py), the reports of a step are summed       *)
(* (integration/metadata.py), and the scheduler completes the event when     *)
(* all workers have reported it, which gives back the blocks of the shadow   *)
(* CPU pool.                                                                 *)
(*                                                                           *)
(* A worker executes the steps in the order they were built; the scheduler   *)
(* may be up to Depth steps ahead of the outputs it has processed.  What is  *)
(* stored is left to OffloadEngine: a batch here is the set of shadow blocks *)
(* it holds.                                                                 *)
(***************************************************************************)
EXTENDS Integers, Sequences, FiniteSets

CONSTANTS
    Workers,      \* the workers; world_size of them
    CpuBlocks,    \* blocks of the shadow CPU pool, its null block left out
    MaxEvents,    \* bound: store events in a behaviour
    Depth,        \* bound: steps built but not yet processed
    MaxRaises     \* bound: steps whose build_connector_meta raises

ASSUME EventsAssumption ==
    /\ IsFiniteSet(Workers) /\ Workers # {}
    /\ MaxEvents \in Nat /\ Depth \in Nat \ {0} /\ MaxRaises \in Nat

VARIABLES
    \* scheduler
    counter,    \* _store_event_counter
    free,       \* free blocks of cpu_block_pool
    acc,        \* _step_store_acc
    pending,    \* _pending_store_events: event -> blocks, {} if absent
    counts,     \* _store_event_pending_counts
    raises,     \* steps that raised so far
    \* in transit
    inbox,      \* metadata of the steps a worker has not executed
    outbox,     \* worker metadata of the steps the scheduler has not processed
    \* worker
    queue,      \* _store_events: event numbers, oldest first
    fired,      \* the events whose CUDA event answers query() with True
    hwm,        \* _store_hwm
    waiting     \* _pending_store_event_indices

schedVars == <<counter, free, acc, pending, counts, raises>>
workerVars == <<queue, fired, hwm, waiting>>
vars == <<schedVars, inbox, outbox, workerVars>>

Events == 0 .. MaxEvents - 1
NoEvent == -1
WorldSize == Cardinality(Workers)

Init ==
    /\ counter = 0
    /\ free = CpuBlocks
    /\ acc = {}
    /\ pending = [e \in Events |-> {}]
    /\ counts = [e \in Events |-> 0]
    /\ raises = 0
    /\ inbox = [w \in Workers |-> <<>>]
    /\ outbox = [w \in Workers |-> <<>>]
    /\ queue = [w \in Workers |-> <<>>]
    /\ fired = [w \in Workers |-> {}]
    /\ hwm = [w \in Workers |-> NoEvent]
    /\ waiting = [w \in Workers |-> {}]

-----------------------------------------------------------------------------
(* Scheduler: build_connector_meta *)

Send(event, forward) ==
    /\ \A w \in Workers : Len(inbox[w]) + Len(outbox[w]) < Depth
    /\ inbox' = [w \in Workers |->
                    Append(inbox[w], [event |-> event, forward |-> forward])]
    /\ UNCHANGED <<outbox, workerVars>>

\* Mutant: the batches stay in the accumulator after the flush.
FlushKeepsAcc(B, forward) ==
    /\ acc \cup B # {} /\ counter < MaxEvents
    /\ pending' = [pending EXCEPT ![counter] = acc \cup B]
    /\ counts' = [counts EXCEPT ![counter] = 0]
    /\ counter' = counter + 1
    /\ acc' = acc \cup B
    /\ free' = free \ B
    /\ Send(counter, forward)
    /\ UNCHANGED raises

\* The triggers of a step took the blocks B; everything that has accumulated
\* becomes one event.  A step without tokens triggers nothing.
Flush(B, forward) ==
    /\ acc \cup B # {} /\ counter < MaxEvents
    /\ pending' = [pending EXCEPT ![counter] = acc \cup B]
    /\ counts' = [counts EXCEPT ![counter] = 0]
    /\ counter' = counter + 1
    /\ acc' = {}
    /\ free' = free \ B
    /\ Send(counter, forward)
    /\ UNCHANGED raises

\* Nothing to store.
PlainStep(forward) ==
    /\ acc = {}
    /\ Send(NoEvent, forward)
    /\ UNCHANGED schedVars

\* A trigger wants more blocks than are free, or a promotion's fetch fails: the
\* triggers before it have accumulated B, the connector sends empty metadata.
RaisingStep(B) ==
    /\ raises < MaxRaises /\ counter < MaxEvents   \* (leaves a number for the flush)
    /\ raises' = raises + 1
    /\ acc' = acc \cup B
    /\ free' = free \ B
    /\ Send(NoEvent, TRUE)
    /\ UNCHANGED <<counter, pending, counts>>

BuildConnectorMeta ==
    \/ \E B \in SUBSET free : Flush(B, TRUE)
    \/ Flush({}, FALSE)
    \/ \E forward \in BOOLEAN : PlainStep(forward)
    \/ \E B \in SUBSET free : RaisingStep(B)

-----------------------------------------------------------------------------
(* Worker *)

\* The stream reaches the next event recorded on it.
Fire(w) ==
    \E i \in DOMAIN queue[w] :
        /\ queue[w][i] \notin fired[w]
        /\ \A j \in 1 .. i - 1 : queue[w][j] \in fired[w]
        /\ fired' = [fired EXCEPT ![w] = @ \cup {queue[w][i]}]
        /\ UNCHANGED <<schedVars, inbox, outbox, queue, hwm, waiting>>

\* Mutant: an event is recorded for metadata that carries none.
SavedAlways(m) == IF m.forward THEN <<m.event>> ELSE <<>>

\* wait_for_save records an event, but only a step with a forward pass calls it.
Saved(m) == IF m.forward /\ m.event # NoEvent THEN <<m.event>> ELSE <<>>

\* _poll_events: the queue is popped up to the first event that has not fired.
Polled(q, done) ==
    CHOOSE k \in 0 .. Len(q) :
        /\ \A j \in 1 .. k : q[j] \in done
        /\ k < Len(q) => q[k + 1] \notin done

\* Mutant: get_finished polls only in steps that carry a store event.
WorkerStepPollsOnStore(w) ==
    /\ inbox[w] # <<>>
    /\ LET saved == Saved(Head(inbox[w]))
           q == queue[w] \o saved
           wait == waiting[w] \cup {saved[i] : i \in DOMAIN saved}
           k == IF saved = <<>> THEN 0 ELSE Polled(q, fired[w])
           top == IF k = 0 THEN hwm[w] ELSE q[k]
           done == {e \in wait : e <= top}
       IN  /\ queue' = [queue EXCEPT ![w] = SubSeq(q, k + 1, Len(q))]
           /\ hwm' = [hwm EXCEPT ![w] = top]
           /\ waiting' = [waiting EXCEPT ![w] = wait \ done]
           /\ outbox' = [outbox EXCEPT ![w] = Append(@, done)]
    /\ inbox' = [inbox EXCEPT ![w] = Tail(@)]
    /\ UNCHANGED <<schedVars, fired>>

\* One step of worker w: bind_connector_metadata, wait_for_save, get_finished,
\* build_worker_meta (which hands over what completed), clear.
WorkerStep(w) ==
    /\ inbox[w] # <<>>
    /\ LET saved == Saved(Head(inbox[w]))
           q == queue[w] \o saved
           wait == waiting[w] \cup {saved[i] : i \in DOMAIN saved}
           k == IF wait = {} THEN 0 ELSE Polled(q, fired[w])
           top == IF k = 0 THEN hwm[w] ELSE q[k]
           done == {e \in wait : e <= top}
       IN  /\ queue' = [queue EXCEPT ![w] = SubSeq(q, k + 1, Len(q))]
           /\ hwm' = [hwm EXCEPT ![w] = top]
           /\ waiting' = [waiting EXCEPT ![w] = wait \ done]
           /\ outbox' = [outbox EXCEPT ![w] = Append(@, done)]
    /\ inbox' = [inbox EXCEPT ![w] = Tail(@)]
    /\ UNCHANGED <<schedVars, fired>>

-----------------------------------------------------------------------------
(* Scheduler: update_connector_output *)

\* aggregate: the workers that report e in the oldest unprocessed step.
Reports(e) == Cardinality({w \in Workers : e \in Head(outbox[w])})

\* Mutant: the count of earlier steps is overwritten.
ReportedSoFarOverwritten(e) == Reports(e)

ReportedSoFar(e) == counts[e] + Reports(e)

\* Mutant: the first report completes the event.
EnoughAtFirst(n) == n >= 1

Enough(n) == n >= WorldSize

UpdateConnectorOutput ==
    /\ \A w \in Workers : outbox[w] # <<>>
    /\ LET complete == {e \in Events : Reports(e) > 0 /\ Enough(ReportedSoFar(e))}
       IN  /\ pending' = [e \in Events |-> IF e \in complete THEN {} ELSE pending[e]]
           /\ free' = free \cup UNION {pending[e] : e \in complete}
           /\ counts' = [e \in Events |-> IF e \in complete THEN 0 ELSE ReportedSoFar(e)]
    /\ outbox' = [w \in Workers |-> Tail(outbox[w])]
    /\ UNCHANGED <<counter, acc, raises, inbox, workerVars>>

-----------------------------------------------------------------------------
Next ==
    \/ BuildConnectorMeta
    \/ UpdateConnectorOutput
    \/ \E w \in Workers : WorkerStep(w)
    \/ \E w \in Workers : Fire(w)

\* The engine loop keeps stepping, workers execute what they are sent, streams
\* make progress.
Fairness ==
    /\ WF_vars(BuildConnectorMeta)
    /\ WF_vars(UpdateConnectorOutput)
    /\ \A w \in Workers : WF_vars(WorkerStep(w)) /\ WF_vars(Fire(w))

Spec == Init /\ [][Next]_vars /\ Fairness

-----------------------------------------------------------------------------
(* Properties *)

Flushed == {e \in Events : e < counter}
Completed == {e \in Flushed : pending[e] = {}}

\* Every variable has its type.
TypeOK ==
    /\ counter \in 0 .. MaxEvents
    /\ free \subseteq CpuBlocks /\ acc \subseteq CpuBlocks
    /\ pending \in [Events -> SUBSET CpuBlocks]
    /\ counts \in [Events -> 0 .. WorldSize]
    /\ raises \in 0 .. MaxRaises
    /\ \A w \in Workers :
          /\ \A i \in DOMAIN inbox[w] :
                inbox[w][i] \in [event : Events \cup {NoEvent}, forward : BOOLEAN]
          /\ \A i \in DOMAIN outbox[w] : outbox[w][i] \subseteq Events
          /\ \A i \in DOMAIN queue[w] : queue[w][i] \in Events
          /\ fired[w] \subseteq Events /\ waiting[w] \subseteq Events
          /\ hwm[w] \in Events \cup {NoEvent}

\* A shadow block is free, accumulated, or in exactly one store event, whatever
\* raises in between: none leaks and none is handed out twice.
BlocksConserved ==
    \A b \in CpuBlocks :
        LET homes == {e \in Events : b \in pending[e]}
        IN  Cardinality(homes) + (IF b \in free THEN 1 ELSE 0)
                               + (IF b \in acc THEN 1 ELSE 0) = 1

\* An event is completed (and its pages given back) only after its CUDA event
\* has fired on every worker, though workers report in different steps.
CompletedFiredEverywhere == \A e \in Completed, w \in Workers : e \in fired[w]

\* e is on its way: sent, waiting for its CUDA event, reported by some worker.
InTransit(e) ==
    \/ counts[e] > 0
    \/ \E w \in Workers :
          \/ e \in waiting[w]
          \/ \E i \in DOMAIN inbox[w] : inbox[w][i].event = e
          \/ \E i \in DOMAIN outbox[w] : e \in outbox[w][i]

\* Stores complete in the order they were flushed: pages are reclaimed oldest
\* first, although each event collects the reports of several workers.  An event
\* is overtaken only when a raising step made it one that no worker will report.
CompletedInOrder ==
    \A e1, e2 \in Flushed :
        e1 < e2 /\ e2 \in Completed => e1 \in Completed \/ ~InTransit(e1)

\* worker_connector.py:404-417: once a worker waits for an event, all of them
\* report it in the end and the scheduler completes it, also when no later step
\* carries a store and whatever raised before.
RecordedEventCompletes ==
    \A e \in Events, w \in Workers : (e \in waiting[w]) ~> (e \in Completed)

\* scheduler_connector.py:358-359, "the worker (and the completion free) sees
\* every batch": every flushed event is completed in the end.
EveryEventCompletes == \A e \in Events : (counter > e) ~> (e \in Completed)

=============================================================================
