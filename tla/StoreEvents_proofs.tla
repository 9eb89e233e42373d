------------------------- MODULE StoreEvents_proofs -------------------------
(***************************************************************************)
(* Proofs about the journey of store events, for every number of workers,  *)
(* blocks, events and steps in flight.                                     *)
(***************************************************************************)
EXTENDS StoreEvents, SequenceLemmas, FiniteSetTheorems, TLAPS

-----------------------------------------------------------------------------
(* Where an event is, seen from one worker *)

\* In metadata the worker has not executed; in metadata that makes it record.
Coming(w, e) == \E i \in DOMAIN inbox[w] : inbox[w][i].event = e
Live(w, e) == \E i \in DOMAIN inbox[w] : inbox[w][i].event = e /\ inbox[w][i].forward

\* In worker metadata the scheduler has not processed.
Reported(w, e) == \E i \in DOMAIN outbox[w] : e \in outbox[w][i]

\* The scheduler has counted the report of w.
Processed(w, e) == e \in fired[w] /\ e \notin waiting[w] /\ ~Reported(w, e)
ProcessedBy(e) == {w \in Workers : Processed(w, e)}

\* w has recorded e or will.
Seen(w, e) == e \in fired[w] \/ e \in waiting[w] \/ Live(w, e)

-----------------------------------------------------------------------------
(* The inductive invariant *)

Metas == [event : Events \cup {NoEvent}, forward : BOOLEAN]

\* TypeOK with the domains of the functions.
Typed ==
    /\ counter \in 0 .. MaxEvents
    /\ free \subseteq CpuBlocks /\ acc \subseteq CpuBlocks
    /\ pending \in [Events -> SUBSET CpuBlocks]
    /\ counts \in [Events -> Nat]
    /\ raises \in 0 .. MaxRaises
    /\ inbox \in [Workers -> Seq(Metas)]
    /\ outbox \in [Workers -> Seq(SUBSET Events)]
    /\ queue \in [Workers -> Seq(Events)]
    /\ fired \in [Workers -> SUBSET Events]
    /\ hwm \in [Workers -> Events \cup {NoEvent}]
    /\ waiting \in [Workers -> SUBSET Events]

\* What a worker waits for is what its queue holds, in the order of the numbers
\* and above the high-water mark; so _poll_events may compare numbers.
QueueOrdered(w) ==
    /\ \A e \in Events : e \in waiting[w] <=> \E i \in DOMAIN queue[w] : queue[w][i] = e
    /\ \A i, j \in DOMAIN queue[w] : i < j => queue[w][i] < queue[w][j]
    /\ \A e \in waiting[w] : hwm[w] < e /\ e < counter

\* Metadata arrives in the order of the numbers, after everything recorded.
InboxOrdered(w) ==
    /\ \A i, j \in DOMAIN inbox[w] :
          i < j /\ inbox[w][i].event # NoEvent /\ inbox[w][j].event # NoEvent
              => inbox[w][i].event < inbox[w][j].event
    /\ \A e \in Events : Coming(w, e) =>
          /\ e < counter /\ hwm[w] < e
          /\ \A x \in fired[w] \cup waiting[w] : x < e
    /\ \A e \in fired[w] : e < counter
    /\ hwm[w] < counter

\* A report names events that have fired, none of them twice, oldest first.
OutboxOrdered(w) ==
    /\ \A i \in DOMAIN outbox[w] : \A e \in outbox[w][i] : e \in fired[w] /\ e <= hwm[w]
    /\ \A i, j \in DOMAIN outbox[w] : i < j =>
          \A e \in outbox[w][i], x \in outbox[w][j] : e < x
    /\ \A e \in Events : Processed(w, e) =>
          e <= hwm[w] /\ \A x \in Events : Reported(w, x) => e < x

\* All workers are sent the same metadata.
SameMetadata == \A e \in Events, v, w \in Workers : Seen(v, e) => Seen(w, e)

\* _store_event_pending_counts counts the workers whose report was processed, and
\* is reset when all of them are.
CountsExact ==
    \A e \in Events :
        counts[e] = IF ProcessedBy(e) = Workers THEN 0 ELSE Cardinality(ProcessedBy(e))

\* An event holds blocks from its flush until all reports are processed.
PendingUntilProcessed ==
    /\ \A e \in Events : e >= counter => pending[e] = {}
    /\ \A e \in Completed, w \in Workers : Processed(w, e)

\* Every block has a home, and no two.
BlocksPartitioned ==
    /\ \A b \in CpuBlocks : b \in free \/ b \in acc \/ \E e \in Events : b \in pending[e]
    /\ free \cap acc = {}
    /\ \A e \in Events : pending[e] \cap (free \cup acc) = {}
    /\ \A d, e \in Events : d # e => pending[d] \cap pending[e] = {}

WorkersOrdered == \A w \in Workers : QueueOrdered(w) /\ InboxOrdered(w) /\ OutboxOrdered(w)

IInv ==
    /\ Typed
    /\ WorkersOrdered
    /\ SameMetadata
    /\ CountsExact
    /\ PendingUntilProcessed
    /\ BlocksPartitioned

USE EventsAssumption

-----------------------------------------------------------------------------
(* Lemmas about the operators *)

\* _poll_events stops inside the queue and pops only events that have fired.
LEMMA PolledSound ==
    ASSUME NEW q \in Seq(Events), NEW done
    PROVE  /\ Polled(q, done) \in 0 .. Len(q)
           /\ \A j \in 1 .. Polled(q, done) : q[j] \in done
  <1> DEFINE T == {k \in 0 .. Len(q) : k < Len(q) => q[k + 1] \notin done}
             Stop(k) == /\ \A j \in 1 .. k : q[j] \in done
                        /\ k < Len(q) => q[k + 1] \notin done
  <1>1. Len(q) \in Nat
    BY LenProperties
  <1>2. T \in SUBSET Nat /\ Len(q) \in T
    BY <1>1
  <1>3. PICK k \in T : \A m \in T : k <= m
    BY <1>2, LeastElement
  <1>4. ASSUME NEW j \in 1 .. k PROVE q[j] \in done
    <2>1. j - 1 \in 0 .. Len(q) /\ (j - 1) + 1 = j /\ ~(k <= j - 1)
      BY <1>1
    <2>2. j - 1 \notin T
      BY <1>3, <2>1
    <2> QED  BY <2>1, <2>2
  <1>5. k \in 0 .. Len(q) /\ Stop(k)
    BY <1>4
  <1>6. Polled(q, done) = CHOOSE i \in 0 .. Len(q) : Stop(i)
    BY DEF Polled
  <1> HIDE DEF Stop
  <1>7. Polled(q, done) \in 0 .. Len(q) /\ Stop(Polled(q, done))
    BY <1>5, <1>6
  <1> QED  BY <1>7 DEF Stop

-----------------------------------------------------------------------------
(* build_connector_meta *)

\* Every worker gets the metadata at the end of its inbox.
LEMMA SendInbox ==
    ASSUME Typed, NEW event \in Events \cup {NoEvent}, NEW forward \in BOOLEAN,
           Send(event, forward), NEW w \in Workers
    PROVE  /\ inbox'[w] \in Seq(Metas)
           /\ \A e : Coming(w, e)' <=> (Coming(w, e) \/ e = event)
           /\ \A e : Live(w, e)' <=> (Live(w, e) \/ (e = event /\ forward))
           /\ \A i, j \in DOMAIN inbox'[w] : i < j =>
                 /\ i \in DOMAIN inbox[w] /\ inbox'[w][i] = inbox[w][i]
                 /\ \/ j \in DOMAIN inbox[w] /\ inbox'[w][j] = inbox[w][j]
                    \/ inbox'[w][j].event = event
  <1> DEFINE m == [event |-> event, forward |-> forward]
  <1>1. m \in Metas /\ m.event = event /\ m.forward = forward
    BY DEF Metas
  <1> HIDE DEF m
  <1>2. inbox[w] \in Seq(Metas) /\ inbox'[w] = Append(inbox[w], m)
    BY DEF Typed, Send, m
  <1>3. /\ Append(inbox[w], m) \in Seq(Metas)
        /\ DOMAIN inbox[w] = 1 .. Len(inbox[w]) /\ Len(inbox[w]) \in Nat
        /\ DOMAIN Append(inbox[w], m) = DOMAIN inbox[w] \cup {Len(inbox[w]) + 1}
        /\ \A i \in DOMAIN inbox[w] : Append(inbox[w], m)[i] = inbox[w][i]
        /\ Append(inbox[w], m)[Len(inbox[w]) + 1] = m
    BY <1>1, <1>2, AppendIndices
  <1>4. ASSUME NEW e PROVE Coming(w, e)' <=> (Coming(w, e) \/ e = event)
    BY <1>1, <1>2, <1>3 DEF Coming
  <1>5. ASSUME NEW e PROVE Live(w, e)' <=> (Live(w, e) \/ (e = event /\ forward))
    BY <1>1, <1>2, <1>3 DEF Live
  <1>6. ASSUME NEW i \in DOMAIN inbox'[w], NEW j \in DOMAIN inbox'[w], i < j
        PROVE  /\ i \in DOMAIN inbox[w] /\ inbox'[w][i] = inbox[w][i]
               /\ \/ j \in DOMAIN inbox[w] /\ inbox'[w][j] = inbox[w][j]
                  \/ inbox'[w][j].event = event
    BY <1>1, <1>2, <1>3, <1>6
  <1> QED  BY <1>2, <1>3, <1>4, <1>5, <1>6

\* Metadata with no event, or with the next number, keeps the order.
LEMMA SendOrdered ==
    ASSUME IInv, NEW event \in Events \cup {NoEvent}, NEW forward \in BOOLEAN,
           Send(event, forward),
           \/ event = NoEvent /\ counter' = counter
           \/ event = counter /\ counter' = counter + 1
    PROVE  /\ inbox' \in [Workers -> Seq(Metas)]
           /\ WorkersOrdered' /\ SameMetadata'
           /\ \A w \in Workers : \A e : Processed(w, e)' <=> Processed(w, e)
           /\ \A e : ProcessedBy(e)' = ProcessedBy(e)
  <1>1. Typed /\ WorkersOrdered /\ SameMetadata
    BY DEF IInv
  <1>2. UNCHANGED <<outbox, queue, fired, hwm, waiting>>
    BY DEF Send, workerVars
  <1>3. counter \in Nat /\ counter' \in Nat /\ counter <= counter'
    BY <1>1 DEF Typed
  <1>4. ASSUME NEW w \in Workers, NEW e
        PROVE  (Processed(w, e)' <=> Processed(w, e)) /\ (Reported(w, e)' <=> Reported(w, e))
    BY <1>2 DEF Processed, Reported
  <1>5. ASSUME NEW w \in Workers PROVE QueueOrdered(w)'
    <2>1. QueueOrdered(w) /\ \A e \in waiting[w] : e \in Nat
      BY <1>1 DEF WorkersOrdered, Typed, Events
    <2> QED  BY <2>1, <1>2, <1>3 DEF QueueOrdered
  <1>6. ASSUME NEW w \in Workers PROVE OutboxOrdered(w)'
    <2>1. OutboxOrdered(w)
      BY <1>1 DEF WorkersOrdered
    <2> QED  BY <2>1, <1>2, <1>4 DEF OutboxOrdered
  <1>7. ASSUME NEW w \in Workers PROVE InboxOrdered(w)'
    <2>1. InboxOrdered(w) /\ QueueOrdered(w)
      BY <1>1 DEF WorkersOrdered
    <2>2. fired[w] \subseteq Nat /\ waiting[w] \subseteq Nat /\ hwm[w] \in Int
      BY <1>1 DEF Typed, Events, NoEvent
    <2>3. ASSUME NEW i \in DOMAIN inbox'[w], NEW j \in DOMAIN inbox'[w], i < j,
                 inbox'[w][i].event # NoEvent, inbox'[w][j].event # NoEvent
          PROVE  inbox'[w][i].event < inbox'[w][j].event
      <3>1. /\ i \in DOMAIN inbox[w] /\ inbox'[w][i] = inbox[w][i]
            /\ \/ j \in DOMAIN inbox[w] /\ inbox'[w][j] = inbox[w][j]
               \/ inbox'[w][j].event = event
        BY <1>1, <2>3, SendInbox
      <3>2. inbox[w][i].event \in Events
        <4>1. inbox[w] \in Seq(Metas) /\ DOMAIN inbox[w] = 1 .. Len(inbox[w])
          BY <1>1, LenProperties DEF Typed
        <4>2. inbox[w][i] \in Metas
          BY <3>1, <4>1, ElementOfSeq
        <4> QED  BY <2>3, <3>1, <4>2 DEF Metas
      <3>3. inbox[w][i].event < counter
        BY <2>1, <3>1, <3>2 DEF InboxOrdered, Coming
      <3> QED  BY <2>1, <2>3, <3>1, <3>3 DEF InboxOrdered
    <2>4. ASSUME NEW e \in Events, Coming(w, e)'
          PROVE  e < counter' /\ hwm[w] < e /\ \A x \in fired[w] \cup waiting[w] : x < e
      <3>1. Coming(w, e) \/ e = event
        BY <1>1, <2>4, SendInbox
      <3>2. CASE Coming(w, e)
        BY <1>3, <2>1, <3>2 DEF InboxOrdered, Events
      <3>3. CASE e = event
        <4>1. e = counter /\ counter' = counter + 1
          BY <3>3 DEF NoEvent, Events
        <4> QED  BY <4>1, <1>3, <2>1 DEF InboxOrdered, QueueOrdered
      <3> QED  BY <3>1, <3>2, <3>3
    <2>5. \A e \in fired[w] : e < counter'
      BY <1>3, <2>1, <2>2 DEF InboxOrdered
    <2>6. hwm[w] < counter'
      BY <1>3, <2>1, <2>2 DEF InboxOrdered
    <2> QED  BY <1>2, <2>3, <2>4, <2>5, <2>6 DEF InboxOrdered
  <1>8. SameMetadata'
    <2>1. ASSUME NEW e \in Events, NEW v \in Workers, NEW w \in Workers, Seen(v, e)'
          PROVE  Seen(w, e)'
      BY <1>1, <1>2, <2>1, SendInbox DEF SameMetadata, Seen
    <2> QED  BY <2>1 DEF SameMetadata
  <1>9. inbox' \in [Workers -> Seq(Metas)]
    BY <1>1, SendInbox DEF Send
  <1> QED  BY <1>4, <1>5, <1>6, <1>7, <1>8, <1>9 DEF WorkersOrdered, ProcessedBy

\* No event of the counter's number has been seen by anyone.
LEMMA NextNumberUnseen ==
    ASSUME IInv, counter \in Events
    PROVE  ProcessedBy(counter) = {} /\ pending[counter] = {}
  <1>1. counter \in Nat /\ \A w \in Workers : \A e \in fired[w] : e < counter
    <2>1. counter \in 0 .. MaxEvents /\ WorkersOrdered
      BY DEF IInv, Typed
    <2>2. \A w \in Workers : \A e \in fired[w] : e < counter
      BY <2>1 DEF WorkersOrdered, InboxOrdered
    <2> QED  BY <2>1, <2>2
  <1>2. \A w \in Workers : counter \notin fired[w]
    BY <1>1
  <1> QED  BY <1>1, <1>2 DEF ProcessedBy, Processed, IInv, PendingUntilProcessed

\* What a step may do with blocks: it takes B from the free ones, and empties the
\* accumulator into the next event or adds to it.
LEMMA FlushKeeps ==
    ASSUME IInv, NEW B \in SUBSET free, NEW forward \in BOOLEAN, Flush(B, forward)
    PROVE  IInv'
  <1>1. Typed /\ counter \in Events
    BY SMTT(30) DEF IInv, Typed, Flush, Events
  <1>2. /\ inbox' \in [Workers -> Seq(Metas)]
        /\ WorkersOrdered' /\ SameMetadata'
        /\ \A w \in Workers : \A e : Processed(w, e)' <=> Processed(w, e)
        /\ \A e : ProcessedBy(e)' = ProcessedBy(e)
    BY <1>1, SendOrdered DEF Flush
  <1>3. ProcessedBy(counter) = {} /\ pending[counter] = {}
    BY <1>1, NextNumberUnseen
  <1>4. Typed'
    <2>1. UNCHANGED <<outbox, queue, fired, hwm, waiting>>
      BY DEF Flush, Send, workerVars
    <2>2. counter' \in 0 .. MaxEvents /\ raises' \in 0 .. MaxRaises
      BY <1>1 DEF Typed, Flush, Events
    <2>3. free' \subseteq CpuBlocks /\ acc' \subseteq CpuBlocks
      BY <1>1 DEF Typed, Flush
    <2>4. pending' \in [Events -> SUBSET CpuBlocks] /\ counts' \in [Events -> Nat]
      BY <1>1 DEF Typed, Flush
    <2> QED  BY <1>1, <1>2, <2>1, <2>2, <2>3, <2>4 DEF Typed
  <1>5. CountsExact'
    <2>1. ASSUME NEW e \in Events
          PROVE  counts'[e] = IF ProcessedBy(e) = Workers THEN 0
                                                         ELSE Cardinality(ProcessedBy(e))
      <3>1. CASE e = counter
        BY <1>1, <1>3, <3>1, FS_EmptySet DEF Flush, Typed
      <3>2. CASE e # counter
        BY <1>1, <3>2 DEF Flush, IInv, CountsExact, Typed
      <3> QED  BY <3>1, <3>2
    <2> QED  BY <1>2, <2>1 DEF CountsExact
  <1>6. PendingUntilProcessed'
    <2>1. \A e \in Events : e >= counter' => pending'[e] = {}
      BY <1>1 DEF Flush, IInv, PendingUntilProcessed, Typed, Events
    <2>2. ASSUME NEW e \in Completed' PROVE e \in Completed
      BY <1>1, <2>2 DEF Flush, Completed, Flushed, Typed, Events
    <2>3. \A e \in Completed, w \in Workers : Processed(w, e)
      BY DEF IInv, PendingUntilProcessed
    <2> QED  BY <1>2, <2>1, <2>2, <2>3 DEF PendingUntilProcessed
  <1>7. BlocksPartitioned'
    <2>1. /\ BlocksPartitioned /\ pending \in [Events -> SUBSET CpuBlocks]
          /\ free' = free \ B /\ acc' = {}
          /\ pending' = [pending EXCEPT ![counter] = acc \cup B]
      BY <1>1 DEF IInv, Flush, Typed
    <2>2. \A e \in Events : pending'[e] = IF e = counter THEN acc \cup B ELSE pending[e]
      BY <1>1, <2>1
    <2>3. ASSUME NEW b \in CpuBlocks
          PROVE  b \in free' \/ b \in acc' \/ \E e \in Events : b \in pending'[e]
      BY <1>1, <1>3, <2>1, <2>2 DEF BlocksPartitioned
    <2>4. free' \cap acc' = {}
      BY <2>1
    <2>5. \A e \in Events : pending'[e] \cap (free' \cup acc') = {}
      BY <2>1, <2>2 DEF BlocksPartitioned
    <2>6. \A d, e \in Events : d # e => pending'[d] \cap pending'[e] = {}
      BY <2>1, <2>2 DEF BlocksPartitioned
    <2> QED  BY <2>3, <2>4, <2>5, <2>6 DEF BlocksPartitioned
  <1> QED  BY <1>2, <1>4, <1>5, <1>6, <1>7 DEF IInv

LEMMA PlainKeeps ==
    ASSUME IInv, NEW forward \in BOOLEAN, PlainStep(forward)
    PROVE  IInv'
  <1>1. Typed /\ UNCHANGED schedVars
    BY DEF IInv, PlainStep
  <1>2. /\ inbox' \in [Workers -> Seq(Metas)]
        /\ WorkersOrdered' /\ SameMetadata'
        /\ \A w \in Workers : \A e : Processed(w, e)' <=> Processed(w, e)
        /\ \A e : ProcessedBy(e)' = ProcessedBy(e)
    BY <1>1, SendOrdered DEF PlainStep, schedVars
  <1>3. Typed'
    <2>1. UNCHANGED <<outbox, queue, fired, hwm, waiting>>
      BY DEF PlainStep, Send, workerVars
    <2> QED  BY <1>1, <1>2, <2>1 DEF Typed, schedVars
  <1>4. CountsExact'
    BY <1>1, <1>2 DEF CountsExact, IInv, schedVars
  <1>5. PendingUntilProcessed'
    BY <1>1, <1>2 DEF PendingUntilProcessed, Completed, Flushed, IInv, schedVars
  <1>6. BlocksPartitioned'
    BY <1>1 DEF BlocksPartitioned, IInv, schedVars
  <1> QED  BY <1>2, <1>3, <1>4, <1>5, <1>6 DEF IInv

LEMMA RaisingKeeps ==
    ASSUME IInv, NEW B \in SUBSET free, RaisingStep(B)
    PROVE  IInv'
  <1>1. Typed /\ UNCHANGED <<counter, pending, counts>>
    BY DEF IInv, RaisingStep
  <1>2. /\ inbox' \in [Workers -> Seq(Metas)]
        /\ WorkersOrdered' /\ SameMetadata'
        /\ \A w \in Workers : \A e : Processed(w, e)' <=> Processed(w, e)
        /\ \A e : ProcessedBy(e)' = ProcessedBy(e)
    BY <1>1, SendOrdered DEF RaisingStep
  <1>3. Typed'
    <2>1. UNCHANGED <<outbox, queue, fired, hwm, waiting>>
      BY DEF RaisingStep, Send, workerVars
    <2> QED  BY <1>1, <1>2, <2>1 DEF Typed, RaisingStep
  <1>4. CountsExact'
    BY <1>1, <1>2 DEF CountsExact, IInv
  <1>5. PendingUntilProcessed'
    BY <1>1, <1>2 DEF PendingUntilProcessed, Completed, Flushed, IInv
  <1>6. BlocksPartitioned'
    BY <1>1 DEF BlocksPartitioned, IInv, RaisingStep
  <1> QED  BY <1>2, <1>3, <1>4, <1>5, <1>6 DEF IInv

-----------------------------------------------------------------------------
(* A step of a worker *)

\* The step of w: it waits for wait, which is what it waited for and the event of
\* the metadata, and reports done, the part of it up to the high-water mark.
Stepped(w, wait, done) ==
    /\ inbox' = [inbox EXCEPT ![w] = Tail(@)]
    /\ outbox' = [outbox EXCEPT ![w] = Append(@, done)]
    /\ waiting' = [waiting EXCEPT ![w] = wait \ done]
    /\ UNCHANGED <<schedVars, fired>>
    /\ queue' \in [Workers -> Seq(Events)] /\ hwm' \in [Workers -> Events \cup {NoEvent}]
    /\ \A v \in Workers : v # w => queue'[v] = queue[v] /\ hwm'[v] = hwm[v]
    /\ \A e \in Events : e \in wait <=>
          e \in waiting[w] \/ (Head(inbox[w]).event = e /\ Head(inbox[w]).forward)
    /\ done \subseteq wait /\ done \subseteq fired[w]
    /\ \A e \in wait : hwm[w] < e /\ (e \in done <=> e <= hwm'[w])
    /\ hwm'[w] = hwm[w] \/ hwm'[w] \in wait
    /\ \A e \in Events : e \in wait \ done <=> \E i \in DOMAIN queue'[w] : queue'[w][i] = e
    /\ \A i, j \in DOMAIN queue'[w] : i < j => queue'[w][i] < queue'[w][j]

LEMMA WorkerStepShape ==
    ASSUME IInv, NEW w \in Workers, WorkerStep(w)
    PROVE  \E wait, done \in SUBSET Events : Stepped(w, wait, done)
  <1> DEFINE m == Head(inbox[w])
             saved == Saved(m)
             q == queue[w] \o saved
             wait == waiting[w] \cup {saved[i] : i \in DOMAIN saved}
             k == IF wait = {} THEN 0 ELSE Polled(q, fired[w])
             top == IF k = 0 THEN hwm[w] ELSE q[k]
             done == {e \in wait : e <= top}
             rest == SubSeq(q, k + 1, Len(q))
  <1>1. /\ Typed /\ QueueOrdered(w) /\ InboxOrdered(w)
        /\ inbox[w] \in Seq(Metas) /\ inbox[w] # <<>> /\ queue[w] \in Seq(Events)
        /\ waiting[w] \subseteq Events /\ hwm[w] \in Events \cup {NoEvent}
    BY DEF IInv, WorkersOrdered, Typed, WorkerStep
  <1>2. /\ queue' = [queue EXCEPT ![w] = rest]
        /\ hwm' = [hwm EXCEPT ![w] = top]
        /\ waiting' = [waiting EXCEPT ![w] = wait \ done]
        /\ outbox' = [outbox EXCEPT ![w] = Append(@, done)]
        /\ inbox' = [inbox EXCEPT ![w] = Tail(@)]
        /\ UNCHANGED <<schedVars, fired>>
    BY DEF WorkerStep
  <1> HIDE DEF m, saved, q, wait, k, top, rest
  <1>3. m \in Metas /\ m = inbox[w][1] /\ 1 \in DOMAIN inbox[w]
    BY <1>1, TailIndices DEF m
  <1>4. ASSUME NEW e \in Events
        PROVE  e \in wait <=> e \in waiting[w] \/ (m.event = e /\ m.forward)
    <2>1. NoEvent # e
      BY DEF NoEvent, Events
    <2>2. CASE m.forward /\ m.event # NoEvent
      <3>1. saved = <<m.event>>
        BY <2>2 DEF Saved, saved
      <3> QED  BY <2>2, <3>1 DEF wait
    <2>3. CASE ~(m.forward /\ m.event # NoEvent)
      <3>1. saved = <<>>
        BY <2>3 DEF Saved, saved
      <3> QED  BY <2>1, <2>3, <3>1 DEF wait
    <2> QED  BY <2>2, <2>3
  <1>5. /\ saved \in Seq(Events) /\ wait \subseteq Events
        /\ \/ saved = <<>> /\ q = queue[w] /\ wait = waiting[w]
           \/ /\ saved = <<m.event>> /\ m.event \in Events /\ Len(q) = Len(queue[w]) + 1
              /\ \A i \in DOMAIN queue[w] : q[i] = queue[w][i]
              /\ q[Len(q)] = m.event /\ wait = waiting[w] \cup {m.event}
    <2>1. CASE m.forward /\ m.event # NoEvent
      <3>1. saved = <<m.event>> /\ m.event \in Events
        BY <1>3, <2>1 DEF Saved, Metas, saved
      <3>2. saved \in Seq(Events) /\ Len(saved) = 1 /\ saved[1] = m.event /\ DOMAIN saved = {1}
        BY <3>1
      <3>3. q = Append(queue[w], m.event)
        BY <1>1, <3>1, AppendIsConcat DEF q
      <3>4. Len(q) = Len(queue[w]) + 1
        BY <1>1, <3>1, <3>3, AppendProperties
      <3>5. q[Len(q)] = m.event /\ \A i \in DOMAIN queue[w] : q[i] = queue[w][i]
        BY <1>1, <3>1, <3>3, <3>4, AppendIndices
      <3>6. wait = waiting[w] \cup {m.event}
        BY <3>2 DEF wait
      <3> QED  BY <1>1, <3>1, <3>2, <3>4, <3>5, <3>6
    <2>2. CASE ~(m.forward /\ m.event # NoEvent)
      <3>1. saved = <<>>
        BY <2>2 DEF Saved, saved
      <3>2. saved \in Seq(Events) /\ DOMAIN saved = {}
        BY <3>1
      <3>3. q = queue[w]
        BY <1>1, <3>1, ConcatEmptySeq DEF q
      <3> QED  BY <1>1, <3>1, <3>2, <3>3 DEF wait
    <2> QED  BY <2>1, <2>2
  <1>6. Coming(w, m.event)
    BY <1>3 DEF Coming
  <1>7. q \in Seq(Events) /\ DOMAIN q = 1 .. Len(q) /\ Len(q) \in Nat
    BY <1>1, <1>5, ConcatProperties, LenProperties DEF q
  <1>7a. DOMAIN queue[w] = 1 .. Len(queue[w]) /\ Len(queue[w]) \in Nat
    BY <1>1, LenProperties
  <1>8. \A e \in Events : e \in wait <=> \E i \in DOMAIN q : q[i] = e
    <2>1. CASE saved = <<>> /\ q = queue[w] /\ wait = waiting[w]
      BY <1>1, <2>1 DEF QueueOrdered
    <2>2. CASE /\ m.event \in Events /\ Len(q) = Len(queue[w]) + 1
               /\ \A i \in DOMAIN queue[w] : q[i] = queue[w][i]
               /\ q[Len(q)] = m.event /\ wait = waiting[w] \cup {m.event}
      <3>1. DOMAIN q = DOMAIN queue[w] \cup {Len(q)}
        BY <1>7, <1>7a, <2>2
      <3> QED  BY <1>1, <2>2, <3>1 DEF QueueOrdered
    <2> QED  BY <1>5, <2>1, <2>2
  <1>9. \A e \in wait : hwm[w] < e
    <2>1. ASSUME NEW e \in wait PROVE hwm[w] < e
      <3>1. e \in waiting[w] \/ (e = m.event /\ e \in Events)
        BY <1>5
      <3> QED  BY <1>1, <1>6, <3>1 DEF QueueOrdered, InboxOrdered
    <2> QED  BY <2>1
  <1>10. \A i, j \in DOMAIN q : i < j => q[i] < q[j]
    <2>1. CASE q = queue[w]
      BY <1>1, <2>1 DEF QueueOrdered
    <2>2. CASE /\ m.event \in Events /\ Len(q) = Len(queue[w]) + 1
               /\ \A i \in DOMAIN queue[w] : q[i] = queue[w][i]
               /\ q[Len(q)] = m.event
      <3>1. \A i \in DOMAIN queue[w] : queue[w][i] \in waiting[w]
        BY <1>1, <1>7a, ElementOfSeq DEF QueueOrdered
      <3>2. \A i \in DOMAIN queue[w] : queue[w][i] < m.event
        BY <1>1, <1>6, <2>2, <3>1 DEF InboxOrdered
      <3>3. \A i \in DOMAIN q : i \in DOMAIN queue[w] \/ i = Len(q)
        BY <1>7, <1>7a, <2>2
      <3>4. \A i, j \in DOMAIN q : i < j => i \in DOMAIN queue[w]
        BY <1>7, <1>7a, <2>2
      <3> QED  BY <1>1, <2>2, <3>2, <3>3, <3>4 DEF QueueOrdered
    <2> QED  BY <1>5, <2>1, <2>2
  <1>11. k \in 0 .. Len(q) /\ \A j \in 1 .. k : q[j] \in fired[w]
    BY <1>7, PolledSound DEF k
  <1>12. /\ top \in Events \cup {NoEvent} /\ (top = hwm[w] \/ top \in wait)
         /\ \A i \in DOMAIN q : q[i] \in Events /\ q[i] \in wait /\ (q[i] <= top <=> i <= k)
    <2>1. \A i \in DOMAIN q : q[i] \in Events
      BY <1>7, ElementOfSeq
    <2>2. \A i \in DOMAIN q : q[i] \in wait
      BY <1>8, <2>1
    <2>3. CASE k = 0
      <3>1. top = hwm[w]
        BY <2>3 DEF top
      <3>2. \A i \in DOMAIN q : ~(q[i] <= hwm[w]) /\ ~(i <= k)
        <4>1. \A i \in DOMAIN q : hwm[w] < q[i] /\ q[i] \in Int /\ hwm[w] \in Int
          BY <1>1, <1>9, <2>1, <2>2 DEF Events, NoEvent
        <4> QED  BY <1>7, <2>3, <4>1
      <3> QED  BY <1>1, <2>1, <2>2, <3>1, <3>2
    <2>4. CASE k # 0
      <3>1. k \in DOMAIN q /\ top = q[k]
        BY <1>7, <1>11, <2>4 DEF top
      <3>2. ASSUME NEW i \in DOMAIN q PROVE q[i] <= top <=> i <= k
        <4>1. q[i] \in Int /\ q[k] \in Int /\ i \in Int /\ k \in Int
          BY <1>7, <2>1, <3>1 DEF Events
        <4>2. (i < k => q[i] < q[k]) /\ (k < i => q[k] < q[i])
          BY <1>10, <3>1
        <4> QED  BY <3>1, <4>1, <4>2
      <3> QED  BY <2>1, <2>2, <3>1, <3>2
    <2> QED  BY <2>3, <2>4
  <1>13. done \subseteq fired[w]
    <2>1. ASSUME NEW e \in done PROVE e \in fired[w]
      <3>1. PICK i \in DOMAIN q : q[i] = e
        BY <1>5, <1>8
      <3>2. i <= k
        BY <1>12, <3>1
      <3> QED  BY <1>7, <1>11, <3>1, <3>2
    <2> QED  BY <2>1
  <1>14. /\ rest \in Seq(Events) /\ DOMAIN rest = 1 .. Len(q) - k
         /\ \A i \in 1 .. Len(q) - k : rest[i] = q[k + i] /\ k + i \in DOMAIN q
    <2>0. k \in Int /\ 0 <= k /\ k <= Len(q)
      BY <1>7, <1>11
    <2>1. k + 1 \in Int /\ Len(q) \in Int /\ \A i \in k + 1 .. Len(q) : q[i] \in Events
      <3>1. \A i \in k + 1 .. Len(q) : i \in DOMAIN q
        BY <1>7, <2>0
      <3>2. \A i \in DOMAIN q : q[i] \in Events
        BY <1>12
      <3> QED  BY <1>7, <2>0, <3>1, <3>2
    <2>2. /\ rest \in Seq(Events)
          /\ Len(rest) = IF k + 1 <= Len(q) THEN Len(q) - (k + 1) + 1 ELSE 0
          /\ \A i \in 1 .. Len(q) - (k + 1) + 1 : rest[i] = q[(k + 1) + i - 1]
      BY <2>1, SubSeqProperties, SMTT(30) DEF rest
    <2>3. DOMAIN rest = 1 .. Len(rest)
      BY <2>2, LenProperties
    <2>4. /\ Len(q) - (k + 1) + 1 = Len(q) - k /\ Len(rest) = Len(q) - k
          /\ \A i \in 1 .. Len(q) - k : (k + 1) + i - 1 = k + i /\ k + i \in DOMAIN q
      <3>1. PICK n \in Nat : n = Len(q)
        BY <1>7
      <3>2. n - (k + 1) + 1 = n - k /\ \A i \in 1 .. n - k : (k + 1) + i - 1 = k + i
        BY <2>0
      <3>3. \A i \in 1 .. n - k : k + i \in 1 .. n
        BY <2>0, <3>1
      <3>4. Len(rest) = IF k + 1 <= n THEN n - (k + 1) + 1 ELSE 0
        BY <2>2, <3>1
      <3>5. Len(rest) = n - k
        BY <2>0, <3>1, <3>4
      <3> QED  BY <1>7, <3>1, <3>2, <3>3, <3>5
    <2> QED  BY <2>2, <2>3, <2>4
  <1>15. \A i, j \in DOMAIN rest : i < j => rest[i] < rest[j]
    <2>1. \A i, j \in 1 .. Len(q) - k : i < j => k + i < k + j
      BY <1>7, <1>11
    <2> QED  BY <1>10, <1>14, <2>1
  <1>16. \A e \in Events : e \in wait \ done <=> \E i \in DOMAIN rest : rest[i] = e
    <2>1. ASSUME NEW e \in Events, e \in wait \ done PROVE \E i \in DOMAIN rest : rest[i] = e
      <3>1. PICK i \in DOMAIN q : q[i] = e
        BY <1>8, <2>1
      <3>2. ~(i <= k)
        BY <1>12, <2>1, <3>1
      <3>3. i - k \in 1 .. Len(q) - k /\ k + (i - k) = i
        BY <1>7, <1>11, <3>2
      <3> QED  BY <1>14, <3>1, <3>3
    <2>2. ASSUME NEW i \in DOMAIN rest PROVE rest[i] \in wait \ done
      <3>1. rest[i] = q[k + i] /\ k + i \in DOMAIN q /\ ~(k + i <= k)
        BY <1>11, <1>14
      <3> QED  BY <1>12, <3>1
    <2> QED  BY <2>1, <2>2
  <1>17. /\ queue'[w] = rest /\ hwm'[w] = top
         /\ queue' \in [Workers -> Seq(Events)] /\ hwm' \in [Workers -> Events \cup {NoEvent}]
         /\ \A v \in Workers : v # w => queue'[v] = queue[v] /\ hwm'[v] = hwm[v]
    BY <1>1, <1>2, <1>12, <1>14 DEF Typed
  <1>18. wait \in SUBSET Events /\ done \in SUBSET Events
    BY <1>5
  <1>19. Stepped(w, wait, done)
    BY <1>2, <1>4, <1>9, <1>12, <1>13, <1>15, <1>16, <1>17 DEF Stepped, m
  <1> QED  BY <1>18, <1>19

LEMMA WorkerStepKeeps ==
    ASSUME IInv, NEW w \in Workers, WorkerStep(w)
    PROVE  IInv'
  <1>1. PICK wait \in SUBSET Events, done \in SUBSET Events : Stepped(w, wait, done)
    BY WorkerStepShape
  <1> DEFINE m == Head(inbox[w])
  <1>2. /\ Typed /\ QueueOrdered(w) /\ InboxOrdered(w) /\ OutboxOrdered(w)
        /\ inbox[w] \in Seq(Metas) /\ inbox[w] # <<>>
        /\ outbox[w] \in Seq(SUBSET Events)
        /\ counter \in Nat /\ counter' = counter /\ fired' = fired
        /\ fired[w] \in SUBSET Events /\ waiting[w] \in SUBSET Events
        /\ hwm[w] \in Int /\ hwm'[w] \in Int
        /\ inbox'[w] = Tail(inbox[w]) /\ outbox'[w] = Append(outbox[w], done)
        /\ waiting'[w] = wait \ done
    <2>1. Typed /\ QueueOrdered(w) /\ InboxOrdered(w) /\ OutboxOrdered(w)
      BY DEF IInv, WorkersOrdered
    <2>2. /\ inbox[w] \in Seq(Metas) /\ outbox[w] \in Seq(SUBSET Events)
          /\ fired[w] \in SUBSET Events /\ waiting[w] \in SUBSET Events
      BY <2>1 DEF Typed
    <2>6. counter \in Nat /\ inbox[w] # <<>>
      BY <2>1 DEF Typed, WorkerStep
    <2>3. hwm[w] \in Int /\ hwm'[w] \in Int
      BY <1>1, <2>1 DEF Typed, Stepped, Events, NoEvent
    <2>4. counter' = counter /\ fired' = fired
      BY <1>1 DEF Stepped, schedVars
    <2>5. /\ inbox'[w] = Tail(inbox[w]) /\ outbox'[w] = Append(outbox[w], done)
          /\ waiting'[w] = wait \ done
      BY <1>1, <2>1 DEF Stepped, Typed
    <2> QED  BY <2>1, <2>2, <2>3, <2>4, <2>5, <2>6
  <1>3. /\ \A e \in wait : hwm[w] < e /\ (e \in done <=> e <= hwm'[w])
        /\ hwm'[w] = hwm[w] \/ hwm'[w] \in wait
        /\ done \subseteq wait /\ done \subseteq fired[w]
        /\ \A e \in Events : e \in wait <=> e \in waiting[w] \/ (m.event = e /\ m.forward)
    BY <1>1 DEF Stepped
  <1>4. hwm[w] <= hwm'[w]
    BY <1>2, <1>3 DEF Events
  <1>5. /\ inbox'[w] \in Seq(Metas) /\ m \in Metas /\ m = inbox[w][1] /\ 1 \in DOMAIN inbox[w]
        /\ \A i \in DOMAIN inbox'[w] :
              i \in Nat /\ i > 0 /\ i + 1 \in DOMAIN inbox[w] /\ inbox'[w][i] = inbox[w][i + 1]
        /\ \A i \in DOMAIN inbox[w] :
              i = 1 \/ (i - 1 \in DOMAIN inbox'[w] /\ inbox'[w][i - 1] = inbox[w][i])
    BY <1>2, TailIndices
  <1> HIDE DEF m
  <1>6. ASSUME NEW e
        PROVE  /\ Coming(w, e) <=> (m.event = e \/ Coming(w, e)')
               /\ Live(w, e) <=> ((m.event = e /\ m.forward) \/ Live(w, e)')
    BY <1>5 DEF Coming, Live
  <1>7. /\ outbox'[w] \in Seq(SUBSET Events)
        /\ DOMAIN outbox[w] = 1 .. Len(outbox[w]) /\ Len(outbox[w]) \in Nat
        /\ DOMAIN outbox'[w] = DOMAIN outbox[w] \cup {Len(outbox[w]) + 1}
        /\ \A i \in DOMAIN outbox[w] : outbox'[w][i] = outbox[w][i]
        /\ outbox'[w][Len(outbox[w]) + 1] = done
    BY <1>2, AppendIndices
  <1>8. ASSUME NEW e PROVE Reported(w, e)' <=> (Reported(w, e) \/ e \in done)
    BY <1>7 DEF Reported
  <1>9. ASSUME NEW e \in Events, Coming(w, e)', NEW x \in wait PROVE x < e
    <2>1. Coming(w, e)
      BY <1>6, <1>9
    <2>2. CASE x \in waiting[w]
      BY <1>2, <2>1, <2>2 DEF InboxOrdered
    <2>3. CASE x = m.event
      <3>1. PICK i \in DOMAIN inbox'[w] : inbox'[w][i].event = e
        BY <1>9 DEF Coming
      <3>2. /\ i + 1 \in DOMAIN inbox[w] /\ inbox[w][i + 1].event = e /\ 1 < i + 1
            /\ inbox[w][1].event = x /\ 1 \in DOMAIN inbox[w]
        BY <1>5, <2>3, <3>1
      <3>3. x # NoEvent /\ e # NoEvent
        BY DEF Events, NoEvent
      <3> QED  BY <1>2, <3>2, <3>3 DEF InboxOrdered
    <2> QED  BY <1>3, <2>2, <2>3
  <1>10. ASSUME NEW x \in wait PROVE x < counter
    <2>1. x \in Events /\ (x \in waiting[w] \/ Coming(w, x))
      BY <1>3, <1>6
    <2>2. CASE x \in waiting[w]
      BY <1>2, <2>2 DEF QueueOrdered
    <2>3. CASE Coming(w, x)
      <3>1. \A e \in Events : Coming(w, e) => e < counter
        BY <1>2 DEF InboxOrdered
      <3> QED  BY <2>1, <2>3, <3>1
    <2> QED  BY <2>1, <2>2, <2>3
  <1>11. ASSUME NEW e \in Events PROVE Processed(w, e)' <=> Processed(w, e)
    <2>1. e \in fired[w] => m.event # e
      <3>1. m.event = e => Coming(w, e)
        BY <1>6
      <3> QED  BY <1>2, <3>1 DEF InboxOrdered, Events
    <2>2. e \in fired[w] => (e \in wait <=> e \in waiting[w])
      BY <1>3, <2>1
    <2> QED  BY <1>2, <1>3, <1>8, <2>2 DEF Processed
  <1>12. QueueOrdered(w)'
    <2>1. ASSUME NEW e \in wait \ done PROVE hwm'[w] < e /\ e < counter
      <3>1. e \in wait /\ ~(e <= hwm'[w]) /\ e \in Int
        BY <1>3 DEF Events
      <3> QED  BY <1>2, <1>10, <3>1
    <2> QED  BY <1>1, <1>2, <2>1 DEF QueueOrdered, Stepped
  <1>13. InboxOrdered(w)'
    <2>1. ASSUME NEW i \in DOMAIN inbox'[w], NEW j \in DOMAIN inbox'[w], i < j,
                 inbox'[w][i].event # NoEvent, inbox'[w][j].event # NoEvent
          PROVE  inbox'[w][i].event < inbox'[w][j].event
      <3>1. i + 1 < j + 1
        BY <1>5, <2>1
      <3> QED  BY <1>2, <1>5, <2>1, <3>1 DEF InboxOrdered
    <2>2. ASSUME NEW e \in Events, Coming(w, e)'
          PROVE  e < counter /\ hwm'[w] < e /\ \A x \in fired[w] \cup waiting'[w] : x < e
      <3>1. Coming(w, e)
        BY <1>6, <2>2
      <3>2. e < counter /\ hwm[w] < e /\ \A x \in fired[w] : x < e
        BY <1>2, <3>1 DEF InboxOrdered
      <3>3. \A x \in wait : x < e
        BY <1>9, <2>2
      <3> QED  BY <1>2, <1>3, <3>2, <3>3
    <2>3. hwm'[w] < counter /\ \A e \in fired[w] : e < counter
      BY <1>2, <1>3, <1>10 DEF InboxOrdered
    <2> QED  BY <1>2, <2>1, <2>2, <2>3 DEF InboxOrdered
  <1>14. OutboxOrdered(w)'
    <2>1. ASSUME NEW i \in DOMAIN outbox'[w], NEW e \in outbox'[w][i]
          PROVE  e \in fired[w] /\ e <= hwm'[w]
      <3>1. CASE i \in DOMAIN outbox[w]
        <4>1. e \in fired[w] /\ e <= hwm[w] /\ e \in Int
          BY <1>2, <1>7, <2>1, <3>1 DEF OutboxOrdered, Events
        <4> QED  BY <1>2, <1>4, <4>1
      <3>2. CASE i = Len(outbox[w]) + 1
        BY <1>3, <1>7, <2>1, <3>2
      <3> QED  BY <1>7, <3>1, <3>2
    <2>2. ASSUME NEW i \in DOMAIN outbox'[w], NEW j \in DOMAIN outbox'[w], i < j,
                 NEW e \in outbox'[w][i], NEW x \in outbox'[w][j]
          PROVE  e < x
      <3>1. i \in DOMAIN outbox[w] /\ e \in outbox[w][i]
        BY <1>7, <2>2
      <3>2. CASE j \in DOMAIN outbox[w]
        BY <1>2, <1>7, <2>2, <3>1, <3>2 DEF OutboxOrdered
      <3>3. CASE j = Len(outbox[w]) + 1
        <4>1. e \in Int /\ e <= hwm[w]
          BY <1>2, <3>1 DEF OutboxOrdered, Events
        <4>2. x \in Int /\ hwm[w] < x
          BY <1>3, <1>7, <2>2, <3>3 DEF Events
        <4> QED  BY <1>2, <4>1, <4>2
      <3> QED  BY <1>7, <3>2, <3>3
    <2>3. ASSUME NEW e \in Events, Processed(w, e)'
          PROVE  e <= hwm'[w] /\ \A x \in Events : Reported(w, x)' => e < x
      <3>1. Processed(w, e)
        BY <1>11, <2>3
      <3>2. e <= hwm[w] /\ e \in Int /\ \A x \in Events : Reported(w, x) => e < x
        BY <1>2, <3>1 DEF OutboxOrdered, Events
      <3>3. \A x \in Events : x \in done => e < x
        BY <1>2, <1>3, <3>2 DEF Events
      <3> QED  BY <1>2, <1>4, <1>8, <3>2, <3>3
    <2> QED  BY <1>2, <2>1, <2>2, <2>3 DEF OutboxOrdered
  <1>15. ASSUME NEW e \in Events PROVE Seen(w, e)' <=> Seen(w, e)
    BY <1>2, <1>3, <1>6 DEF Seen
  <1>16. ASSUME NEW v \in Workers, v # w
         PROVE  /\ QueueOrdered(v)' /\ InboxOrdered(v)' /\ OutboxOrdered(v)'
                /\ \A e \in Events : (Seen(v, e)' <=> Seen(v, e))
                                     /\ (Processed(v, e)' <=> Processed(v, e))
    <2>1. /\ inbox'[v] = inbox[v] /\ outbox'[v] = outbox[v] /\ waiting'[v] = waiting[v]
          /\ queue'[v] = queue[v] /\ hwm'[v] = hwm[v] /\ fired'[v] = fired[v]
      BY <1>1, <1>2, <1>16 DEF Stepped, Typed
    <2>2. QueueOrdered(v) /\ InboxOrdered(v) /\ OutboxOrdered(v)
      BY DEF IInv, WorkersOrdered
    <2>3. QueueOrdered(v)'
      BY <1>2, <2>1, <2>2 DEF QueueOrdered
    <2>4. InboxOrdered(v)'
      BY <1>2, <2>1, <2>2 DEF InboxOrdered, Coming
    <2>5. OutboxOrdered(v)'
      BY <1>2, <2>1, <2>2 DEF OutboxOrdered, Processed, Reported
    <2> QED  BY <2>1, <2>3, <2>4, <2>5 DEF Seen, Live, Processed, Reported
  <1>17. WorkersOrdered'
    BY <1>12, <1>13, <1>14, <1>16 DEF WorkersOrdered
  <1>18. SameMetadata'
    BY <1>15, <1>16 DEF IInv, SameMetadata
  <1>19. \A v \in Workers, e \in Events : Processed(v, e)' <=> Processed(v, e)
    BY <1>11, <1>16
  <1>20. \A e \in Events : ProcessedBy(e)' = ProcessedBy(e)
    BY <1>19 DEF ProcessedBy
  <1>21. UNCHANGED <<counter, free, acc, pending, counts, raises>>
    BY <1>1 DEF Stepped, schedVars
  <1>22. CountsExact'
    BY <1>20, <1>21 DEF IInv, CountsExact
  <1>23. PendingUntilProcessed'
    BY <1>19, <1>21 DEF IInv, PendingUntilProcessed, Completed, Flushed
  <1>24. BlocksPartitioned'
    BY <1>21 DEF IInv, BlocksPartitioned
  <1>25. Typed'
    BY <1>1, <1>2, <1>5, <1>7, <1>21, ZenonT(30) DEF Typed, Stepped
  <1> QED  BY <1>17, <1>18, <1>22, <1>23, <1>24, <1>25 DEF IInv

\* A CUDA event fires that is still waited for.
LEMMA FireKeeps ==
    ASSUME IInv, NEW w \in Workers, Fire(w)
    PROVE  IInv'
  <1>1. PICK i \in DOMAIN queue[w] : fired' = [fired EXCEPT ![w] = @ \cup {queue[w][i]}]
    BY DEF Fire
  <1>2. UNCHANGED <<counter, free, acc, pending, counts, raises, inbox, outbox, queue, hwm, waiting>>
    BY DEF Fire, schedVars
  <1>3. Typed /\ WorkersOrdered /\ queue[w] \in Seq(Events)
    BY DEF IInv, Typed
  <1> DEFINE x == queue[w][i]
  <1>4. x \in Events /\ x \in waiting[w]
    <2>1. x \in Events
      BY <1>3, LenProperties, ElementOfSeq
    <2> QED  BY <1>3, <2>1 DEF WorkersOrdered, QueueOrdered
  <1> HIDE DEF x
  <1>5. \A v \in Workers : fired'[v] = IF v = w THEN fired[v] \cup {x} ELSE fired[v]
    BY <1>1, <1>3 DEF Typed, x
  <1>6. ASSUME NEW v \in Workers, NEW e
        PROVE  /\ Processed(v, e)' <=> Processed(v, e)
               /\ Coming(v, e)' <=> Coming(v, e)
               /\ Reported(v, e)' <=> Reported(v, e)
               /\ Seen(v, e)' <=> Seen(v, e)
    BY <1>2, <1>4, <1>5 DEF Processed, Reported, Coming, Seen, Live
  <1>7. Typed'
    <2>1. fired' \in [Workers -> SUBSET Events]
      BY <1>1, <1>3, <1>4 DEF Typed, x
    <2> QED  BY <1>2, <1>3, <2>1 DEF Typed
  <1>8. ASSUME NEW v \in Workers PROVE QueueOrdered(v)' /\ InboxOrdered(v)' /\ OutboxOrdered(v)'
    <2>1. QueueOrdered(v) /\ InboxOrdered(v) /\ OutboxOrdered(v)
      BY <1>3 DEF WorkersOrdered
    <2>2. QueueOrdered(v)'
      BY <1>2, <2>1 DEF QueueOrdered
    <2>3. fired[v] \subseteq fired'[v] /\ fired'[v] \subseteq fired[v] \cup waiting[v]
      BY <1>4, <1>5
    <2>4. \A e \in fired'[v] : e < counter
      BY <2>1, <2>3 DEF QueueOrdered, InboxOrdered
    <2>5. InboxOrdered(v)'
      BY <1>2, <1>6, <2>1, <2>3, <2>4 DEF InboxOrdered
    <2>6. OutboxOrdered(v)'
      BY <1>2, <1>6, <2>1, <2>3 DEF OutboxOrdered
    <2> QED  BY <2>2, <2>5, <2>6
  <1>9. \A e : ProcessedBy(e)' = ProcessedBy(e)
    BY <1>6 DEF ProcessedBy
  <1>10. CountsExact'
    BY <1>2, <1>9 DEF IInv, CountsExact
  <1>11. PendingUntilProcessed'
    BY <1>2, <1>6 DEF IInv, PendingUntilProcessed, Completed, Flushed
  <1>12. BlocksPartitioned'
    BY <1>2 DEF IInv, BlocksPartitioned
  <1>13. SameMetadata'
    BY <1>6 DEF IInv, SameMetadata
  <1> QED  BY <1>7, <1>8, <1>10, <1>11, <1>12, <1>13 DEF IInv, WorkersOrdered

-----------------------------------------------------------------------------
(* update_connector_output *)

Reporters(e) == {w \in Workers : e \in Head(outbox[w])}

\* Processing a step turns its reports into counted ones, each for the first time.
LEMMA ReportsProcessed ==
    ASSUME IInv, UpdateConnectorOutput, NEW w \in Workers, NEW e \in Events
    PROVE  /\ Processed(w, e)' <=> (Processed(w, e) \/ e \in Head(outbox[w]))
           /\ ~(Processed(w, e) /\ e \in Head(outbox[w]))
           /\ Reported(w, e)' => Reported(w, e)
           /\ e \in Head(outbox[w]) =>
                 e <= hwm[w] /\ \A x \in Events : Reported(w, x)' => e < x
  <1>1. /\ outbox[w] \in Seq(SUBSET Events) /\ outbox[w] # <<>>
        /\ outbox'[w] = Tail(outbox[w])
        /\ fired' = fired /\ waiting' = waiting /\ hwm' = hwm
        /\ OutboxOrdered(w) /\ QueueOrdered(w)
    BY DEF IInv, Typed, WorkersOrdered, UpdateConnectorOutput, workerVars
  <1>2. /\ Head(outbox[w]) = outbox[w][1] /\ 1 \in DOMAIN outbox[w]
        /\ \A i \in DOMAIN outbox'[w] :
              i \in Nat /\ i > 0 /\ i + 1 \in DOMAIN outbox[w] /\ outbox'[w][i] = outbox[w][i + 1]
        /\ \A i \in DOMAIN outbox[w] :
              i = 1 \/ (i - 1 \in DOMAIN outbox'[w] /\ outbox'[w][i - 1] = outbox[w][i])
    BY <1>1, TailIndices
  <1>3. Reported(w, e) <=> (e \in Head(outbox[w]) \/ Reported(w, e)')
    BY <1>2 DEF Reported
  <1>4. ASSUME e \in Head(outbox[w])
        PROVE  e <= hwm[w] /\ e \in fired[w] /\ \A x \in Events : Reported(w, x)' => e < x
    <2>1. ASSUME NEW x \in Events, Reported(w, x)' PROVE e < x
      <3>1. PICK i \in DOMAIN outbox'[w] : x \in outbox'[w][i]
        BY <2>1 DEF Reported
      <3>2. 1 < i + 1
        BY <1>2, <3>1
      <3> QED  BY <1>1, <1>2, <1>4, <3>1, <3>2 DEF OutboxOrdered
    <2> QED  BY <1>1, <1>2, <1>4, <2>1 DEF OutboxOrdered
  <1>5. e \in Head(outbox[w]) => e \notin waiting[w]
    <2>1. e \in Int /\ hwm[w] \in Int
      BY DEF Events, NoEvent, IInv, Typed
    <2> QED  BY <1>1, <1>4, <2>1 DEF QueueOrdered
  <1>6. e \in Head(outbox[w]) => ~Reported(w, e)'
    BY <1>4 DEF Events
  <1> QED  BY <1>1, <1>3, <1>4, <1>5, <1>6 DEF Processed

LEMMA UpdateKeeps ==
    ASSUME IInv, UpdateConnectorOutput
    PROVE  IInv'
  <1> DEFINE complete == {e \in Events : Reports(e) > 0 /\ Enough(ReportedSoFar(e))}
  <1>1. /\ pending' = [e \in Events |-> IF e \in complete THEN {} ELSE pending[e]]
        /\ free' = free \cup UNION {pending[e] : e \in complete}
        /\ counts' = [e \in Events |-> IF e \in complete THEN 0 ELSE ReportedSoFar(e)]
    BY DEF UpdateConnectorOutput
  <1>2. UNCHANGED <<counter, acc, raises, inbox, queue, fired, hwm, waiting>>
    BY DEF UpdateConnectorOutput, workerVars
  <1>3. Typed /\ WorkersOrdered
    BY DEF IInv
  <1>4. ASSUME NEW e \in Events
        PROVE  /\ ProcessedBy(e)' = ProcessedBy(e) \cup Reporters(e)
               /\ ProcessedBy(e) \cap Reporters(e) = {}
    BY ReportsProcessed DEF ProcessedBy, Reporters
  <1>5. ASSUME NEW e \in Events
        PROVE  /\ Reports(e) \in Nat /\ (Reports(e) = 0 <=> Reporters(e) = {})
               /\ Cardinality(ProcessedBy(e)) \in Nat
               /\ Cardinality(ProcessedBy(e)') = Cardinality(ProcessedBy(e)) + Reports(e)
               /\ (Cardinality(ProcessedBy(e)') >= WorldSize <=> ProcessedBy(e)' = Workers)
    <2> DEFINE P == ProcessedBy(e)
               R == Reporters(e)
    <2>1. P \in SUBSET Workers /\ R \in SUBSET Workers
      BY DEF ProcessedBy, Reporters
    <2>2. Reports(e) = Cardinality(R)
      BY DEF Reports, Reporters
    <2>3. P \cap R = {} /\ ProcessedBy(e)' = P \cup R
      BY <1>4
    <2> HIDE DEF P, R
    <2>4. /\ IsFiniteSet(P) /\ IsFiniteSet(R) /\ IsFiniteSet(P \cup R)
          /\ Cardinality(P) \in Nat /\ Cardinality(R) \in Nat /\ Cardinality(P \cup R) \in Nat
          /\ WorldSize \in Nat
      BY <2>1, FS_Subset, FS_CardinalityType, EventsAssumption DEF WorldSize
    <2>5. Cardinality(P \cup R) = Cardinality(P) + Cardinality(R)
      <3>1. Cardinality(P \cup R) = Cardinality(P) + Cardinality(R) - Cardinality(P \cap R)
        BY <2>4, FS_Union
      <3>2. Cardinality(P \cap R) = 0
        BY <2>3, FS_EmptySet
      <3> QED  BY <2>4, <3>1, <3>2
    <2>6. Cardinality(R) = 0 <=> R = {}
      BY <2>4, FS_EmptySet
    <2>7. Cardinality(P \cup R) >= WorldSize <=> P \cup R = Workers
      <3>1. P \cup R \in SUBSET Workers
        BY <2>1
      <3>2. /\ Cardinality(P \cup R) <= WorldSize
            /\ WorldSize = Cardinality(P \cup R) => Workers = P \cup R
        BY <3>1, FS_Subset, EventsAssumption DEF WorldSize
      <3> QED  BY <2>4, <3>2 DEF WorldSize
    <2> QED  BY <2>2, <2>3, <2>4, <2>5, <2>6, <2>7 DEF P, R
  <1>6. ASSUME NEW e \in Events
        PROVE  /\ e \in complete => ProcessedBy(e)' = Workers
               /\ (IF e \in complete THEN 0 ELSE ReportedSoFar(e))
                    = IF ProcessedBy(e)' = Workers THEN 0 ELSE Cardinality(ProcessedBy(e)')
               /\ ReportedSoFar(e) \in Nat
    <2>1. /\ counts[e] = IF ProcessedBy(e) = Workers THEN 0 ELSE Cardinality(ProcessedBy(e))
          /\ counts[e] \in Nat /\ ReportedSoFar(e) = counts[e] + Reports(e)
      BY <1>3 DEF IInv, CountsExact, Typed, ReportedSoFar
    <2>2. e \in complete <=> Reports(e) > 0 /\ ReportedSoFar(e) >= WorldSize
      BY DEF Enough
    <2> HIDE DEF complete
    <2>3. CASE Reports(e) = 0
      <3>1. ProcessedBy(e)' = ProcessedBy(e)
        BY <1>4, <1>5, <2>3
      <3> QED  BY <2>1, <2>2, <2>3, <3>1
    <2>4. CASE Reports(e) > 0
      <3>1. ProcessedBy(e) # Workers
        <4>1. Reporters(e) # {} /\ Reporters(e) \subseteq Workers
          BY <1>5, <2>4 DEF Reporters
        <4> QED  BY <1>4, <4>1
      <3>2. ReportedSoFar(e) = Cardinality(ProcessedBy(e)')
        BY <1>5, <2>1, <3>1
      <3> QED  BY <1>5, <2>1, <2>2, <2>4, <3>2
    <2> QED  BY <1>5, <2>3, <2>4
  <1> HIDE DEF complete
  <1>7. complete \subseteq Events
    BY DEF complete
  <1>8. Typed'
    <2>1. outbox' \in [Workers -> Seq(SUBSET Events)]
      <3>1. \A w \in Workers : Tail(outbox[w]) \in Seq(SUBSET Events)
        BY <1>3, TailIndices DEF Typed, UpdateConnectorOutput
      <3> QED  BY <3>1 DEF UpdateConnectorOutput
    <2>2. counts' \in [Events -> Nat]
      BY <1>1, <1>6
    <2>3. pending' \in [Events -> SUBSET CpuBlocks] /\ free' \subseteq CpuBlocks
      BY <1>1, <1>3, <1>7 DEF Typed
    <2> QED  BY <1>2, <1>3, <2>1, <2>2, <2>3 DEF Typed
  <1>9. CountsExact'
    BY <1>1, <1>6 DEF CountsExact
  <1>10. PendingUntilProcessed'
    <2>1. \A e \in Events : e >= counter' => pending'[e] = {}
      BY <1>1, <1>2 DEF IInv, PendingUntilProcessed
    <2>2. ASSUME NEW e \in Completed', NEW w \in Workers PROVE Processed(w, e)'
      <3>1. e \in Events /\ e < counter /\ pending'[e] = {}
        BY <1>2, <2>2 DEF Completed, Flushed
      <3>2. CASE e \in complete
        BY <1>6, <3>1, <3>2 DEF ProcessedBy
      <3>3. CASE e \notin complete
        <4>1. e \in Completed
          BY <1>1, <3>1, <3>3 DEF Completed, Flushed
        <4>2. Processed(w, e)
          BY <4>1 DEF IInv, PendingUntilProcessed
        <4> QED  BY <3>1, <4>2, ReportsProcessed
      <3> QED  BY <3>2, <3>3
    <2> QED  BY <2>1, <2>2 DEF PendingUntilProcessed
  <1>11. BlocksPartitioned'
    <2>1. \A e \in Events : pending'[e] = IF e \in complete THEN {} ELSE pending[e]
      BY <1>1
    <2>2. \A b : b \in free' <=> b \in free \/ \E e \in complete : b \in pending[e]
      BY <1>1
    <2>3. BlocksPartitioned /\ acc' = acc
      BY <1>2 DEF IInv
    <2>4. \A b \in CpuBlocks : b \in free' \/ b \in acc' \/ \E e \in Events : b \in pending'[e]
      BY <2>1, <2>2, <2>3 DEF BlocksPartitioned
    <2>5. free' \cap acc' = {}
      BY <1>7, <2>2, <2>3 DEF BlocksPartitioned
    <2>6. \A e \in Events : pending'[e] \cap (free' \cup acc') = {}
      BY <1>7, <2>1, <2>2, <2>3 DEF BlocksPartitioned
    <2>7. \A d, e \in Events : d # e => pending'[d] \cap pending'[e] = {}
      BY <2>1, <2>3 DEF BlocksPartitioned
    <2> QED  BY <2>4, <2>5, <2>6, <2>7 DEF BlocksPartitioned
  <1>12. ASSUME NEW w \in Workers PROVE QueueOrdered(w)' /\ InboxOrdered(w)' /\ OutboxOrdered(w)'
    <2>1. QueueOrdered(w) /\ InboxOrdered(w) /\ OutboxOrdered(w)
      BY <1>3 DEF WorkersOrdered
    <2>2. QueueOrdered(w)'
      BY <1>2, <2>1 DEF QueueOrdered
    <2>3. InboxOrdered(w)'
      BY <1>2, <2>1 DEF InboxOrdered, Coming
    <2>4. OutboxOrdered(w)'
      <3>1. /\ outbox[w] \in Seq(SUBSET Events) /\ outbox[w] # <<>>
            /\ outbox'[w] = Tail(outbox[w])
        BY <1>3 DEF Typed, UpdateConnectorOutput
      <3>2. \A i \in DOMAIN outbox'[w] :
               i \in Nat /\ i > 0 /\ i + 1 \in DOMAIN outbox[w] /\ outbox'[w][i] = outbox[w][i + 1]
        BY <3>1, TailIndices
      <3>3. \A i, j \in DOMAIN outbox'[w] : i < j => i + 1 < j + 1
        BY <3>2
      <3>4. \A i \in DOMAIN outbox'[w] : \A e \in outbox'[w][i] : e \in fired[w] /\ e <= hwm[w]
        BY <2>1, <3>2 DEF OutboxOrdered
      <3>5. \A i, j \in DOMAIN outbox'[w] : i < j =>
               \A e \in outbox'[w][i], x \in outbox'[w][j] : e < x
        BY <2>1, <3>2, <3>3 DEF OutboxOrdered
      <3>6. ASSUME NEW e \in Events, Processed(w, e)'
            PROVE  e <= hwm[w] /\ \A x \in Events : Reported(w, x)' => e < x
        <4>1. CASE Processed(w, e)
          BY <2>1, <4>1, ReportsProcessed DEF OutboxOrdered
        <4>2. CASE e \in Head(outbox[w])
          BY <4>2, ReportsProcessed
        <4> QED  BY <3>6, <4>1, <4>2, ReportsProcessed
      <3> QED  BY <1>2, <3>4, <3>5, <3>6 DEF OutboxOrdered
    <2> QED  BY <2>2, <2>3, <2>4
  <1>13. SameMetadata'
    BY <1>2 DEF IInv, SameMetadata, Seen, Live
  <1> QED  BY <1>8, <1>9, <1>10, <1>11, <1>12, <1>13 DEF IInv, WorkersOrdered

-----------------------------------------------------------------------------
(* The theorems *)

LEMMA InitIInv == Init => IInv
  <1> SUFFICES ASSUME Init PROVE IInv
    OBVIOUS
  <1>1. Typed
    BY EmptySeq DEF Init, Typed
  <1>2. ASSUME NEW w \in Workers
        PROVE  /\ QueueOrdered(w) /\ InboxOrdered(w) /\ OutboxOrdered(w)
               /\ \A e : ~Processed(w, e) /\ ~Seen(w, e)
    <2>1. /\ inbox[w] = <<>> /\ outbox[w] = <<>> /\ queue[w] = <<>>
          /\ fired[w] = {} /\ waiting[w] = {} /\ hwm[w] = -1 /\ counter = 0
      BY DEF Init, NoEvent
    <2>2. DOMAIN inbox[w] = {} /\ DOMAIN outbox[w] = {} /\ DOMAIN queue[w] = {}
      BY <2>1
    <2> QED  BY <2>1, <2>2
             DEF QueueOrdered, InboxOrdered, OutboxOrdered, Coming, Processed, Seen, Live
  <1>3. WorkersOrdered /\ SameMetadata
    BY <1>2 DEF WorkersOrdered, SameMetadata
  <1>4. CountsExact
    <2>1. \A e : ProcessedBy(e) = {}
      BY <1>2 DEF ProcessedBy
    <2> QED  BY <2>1, FS_EmptySet DEF Init, CountsExact
  <1>5. PendingUntilProcessed
    BY DEF Init, PendingUntilProcessed, Completed, Flushed, Events
  <1>6. BlocksPartitioned
    BY DEF Init, BlocksPartitioned
  <1> QED  BY <1>1, <1>3, <1>4, <1>5, <1>6 DEF IInv

LEMMA NextIInv == IInv /\ [Next]_vars => IInv'
  <1> SUFFICES ASSUME IInv, [Next]_vars PROVE IInv'
    OBVIOUS
  <1>1. CASE BuildConnectorMeta
    <2>1. ASSUME NEW B \in SUBSET free, Flush(B, TRUE) PROVE IInv'
      BY <2>1, FlushKeeps
    <2>2. CASE Flush({}, FALSE)
      BY <2>2, FlushKeeps
    <2>3. ASSUME NEW forward \in BOOLEAN, PlainStep(forward) PROVE IInv'
      BY <2>3, PlainKeeps
    <2>4. ASSUME NEW B \in SUBSET free, RaisingStep(B) PROVE IInv'
      BY <2>4, RaisingKeeps
    <2> QED  BY <1>1, <2>1, <2>2, <2>3, <2>4 DEF BuildConnectorMeta
  <1>2. CASE UpdateConnectorOutput
    BY <1>2, UpdateKeeps
  <1>3. ASSUME NEW w \in Workers, WorkerStep(w) PROVE IInv'
    BY <1>3, WorkerStepKeeps
  <1>4. ASSUME NEW w \in Workers, Fire(w) PROVE IInv'
    BY <1>4, FireKeeps
  <1>5. CASE UNCHANGED vars
    <2>1. UNCHANGED <<counter, free, acc, pending, counts, raises, inbox, outbox,
                      queue, fired, hwm, waiting>>
      BY <1>5 DEF vars, schedVars, workerVars
    <2>2. \A w, e : /\ Processed(w, e)' <=> Processed(w, e)
                    /\ Reported(w, e)' <=> Reported(w, e)
                    /\ Coming(w, e)' <=> Coming(w, e)
                    /\ Seen(w, e)' <=> Seen(w, e)
      BY <2>1 DEF Processed, Reported, Coming, Seen, Live
    <2>3. Typed'
      BY <2>1 DEF IInv, Typed
    <2>4. ASSUME NEW w \in Workers PROVE QueueOrdered(w)' /\ InboxOrdered(w)' /\ OutboxOrdered(w)'
      <3>1. QueueOrdered(w) /\ InboxOrdered(w) /\ OutboxOrdered(w)
        BY DEF IInv, WorkersOrdered
      <3>2. QueueOrdered(w)'
        BY <2>1, <3>1 DEF QueueOrdered
      <3>3. InboxOrdered(w)'
        BY <2>1, <2>2, <3>1 DEF InboxOrdered
      <3>4. OutboxOrdered(w)'
        BY <2>1, <2>2, <3>1 DEF OutboxOrdered
      <3> QED  BY <3>2, <3>3, <3>4
    <2>5. SameMetadata' /\ PendingUntilProcessed'
      BY <2>1, <2>2 DEF IInv, SameMetadata, PendingUntilProcessed, Completed, Flushed
    <2>6. CountsExact'
      BY <2>1, <2>2 DEF IInv, CountsExact, ProcessedBy
    <2>7. BlocksPartitioned'
      BY <2>1 DEF IInv, BlocksPartitioned
    <2> QED  BY <2>3, <2>4, <2>5, <2>6, <2>7 DEF IInv, WorkersOrdered
  <1> QED  BY <1>1, <1>2, <1>3, <1>4, <1>5 DEF Next

\* The queues, counts and orders above hold in every state.
THEOREM EventsInvariant == Spec => []IInv
  BY InitIInv, NextIInv, PTL DEF Spec

LEMMA IInvTyped == IInv => TypeOK
  <1> SUFFICES ASSUME IInv PROVE TypeOK
    OBVIOUS
  <1>1. Typed
    BY DEF IInv
  <1>2. ASSUME NEW e \in Events PROVE counts[e] \in 0 .. WorldSize
    <2>1. ProcessedBy(e) \in SUBSET Workers
      BY DEF ProcessedBy
    <2>2. Cardinality(ProcessedBy(e)) <= WorldSize /\ WorldSize \in Nat
      BY <2>1, FS_Subset, FS_CardinalityType DEF WorldSize
    <2>3. Cardinality(ProcessedBy(e)) \in Nat
      BY <2>1, FS_Subset, FS_CardinalityType
    <2>4. counts[e] = IF ProcessedBy(e) = Workers THEN 0 ELSE Cardinality(ProcessedBy(e))
      BY DEF IInv, CountsExact
    <2> QED  BY <2>2, <2>3, <2>4
  <1>3. counts \in [Events -> 0 .. WorldSize]
    BY <1>1, <1>2 DEF Typed
  <1>4. ASSUME NEW w \in Workers
        PROVE  /\ \A i \in DOMAIN inbox[w] : inbox[w][i] \in Metas
               /\ \A i \in DOMAIN outbox[w] : outbox[w][i] \subseteq Events
               /\ \A i \in DOMAIN queue[w] : queue[w][i] \in Events
               /\ fired[w] \subseteq Events /\ waiting[w] \subseteq Events
               /\ hwm[w] \in Events \cup {NoEvent}
    <2>1. /\ inbox[w] \in Seq(Metas) /\ outbox[w] \in Seq(SUBSET Events)
          /\ queue[w] \in Seq(Events)
      BY <1>1 DEF Typed
    <2>2. \A i \in DOMAIN inbox[w] : inbox[w][i] \in Metas
      BY <2>1, LenProperties, ElementOfSeq
    <2>3. \A i \in DOMAIN outbox[w] : outbox[w][i] \in SUBSET Events
      BY <2>1, LenProperties, ElementOfSeq
    <2>4. \A i \in DOMAIN queue[w] : queue[w][i] \in Events
      BY <2>1, LenProperties, ElementOfSeq
    <2> QED  BY <1>1, <2>2, <2>3, <2>4 DEF Typed
  <1> QED  BY <1>1, <1>3, <1>4 DEF Typed, TypeOK, Metas

\* Counts never exceed the number of workers, and every queue holds events.
THEOREM EventsTyped == Spec => []TypeOK
  BY EventsInvariant, IInvTyped, PTL

\* No block of the shadow pool leaks or is in two places, for any pattern of
\* raising steps, reports and completions.
THEOREM BlocksNeverLeak == Spec => []BlocksConserved
  <1>1. ASSUME IInv PROVE BlocksConserved
    <2>1. ASSUME NEW b \in CpuBlocks
          PROVE  Cardinality({e \in Events : b \in pending[e]})
                   + (IF b \in free THEN 1 ELSE 0) + (IF b \in acc THEN 1 ELSE 0) = 1
      <3> DEFINE homes == {e \in Events : b \in pending[e]}
      <3>1. BlocksPartitioned
        BY <1>1 DEF IInv
      <3>2. CASE homes = {}
        <4>1. Cardinality(homes) = 0
          BY <3>2, FS_EmptySet
        <4>2. ~(b \in free /\ b \in acc) /\ (b \in free \/ b \in acc)
          BY <3>1, <3>2 DEF BlocksPartitioned
        <4> QED  BY <4>1, <4>2
      <3>3. CASE homes # {}
        <4>1. PICK e \in Events : b \in pending[e]
          BY <3>3
        <4>2. homes = {e} /\ b \notin free /\ b \notin acc
          BY <3>1, <4>1 DEF BlocksPartitioned
        <4>3. Cardinality(homes) = 1
          BY <4>2, FS_Singleton
        <4> QED  BY <4>2, <4>3
      <3> QED  BY <3>2, <3>3
    <2> QED  BY <2>1 DEF BlocksConserved
  <1> QED  BY <1>1, EventsInvariant, PTL

\* The pages of an event are given back only after its copies have finished on
\* every worker.
THEOREM CompletionSound == Spec => []CompletedFiredEverywhere
  <1>1. IInv => CompletedFiredEverywhere
    BY DEF IInv, PendingUntilProcessed, CompletedFiredEverywhere, Processed
  <1> QED  BY <1>1, EventsInvariant, PTL

\* Events complete in the order of their numbers; one that is overtaken is not
\* under way any more on any worker.
THEOREM CompletionInOrder == Spec => []CompletedInOrder
  <1>1. ASSUME IInv PROVE CompletedInOrder
    <2>1. ASSUME NEW e1 \in Flushed, NEW e2 \in Flushed, e1 < e2, e2 \in Completed
          PROVE  ~InTransit(e1)
      <3>1. e1 \in Events /\ e2 \in Events /\ e1 \in Int /\ e2 \in Int
        BY DEF Flushed, Events
      <3>2. ASSUME NEW w \in Workers
            PROVE  e1 \notin waiting[w] /\ ~Coming(w, e1) /\ ~Reported(w, e1)
        <4>1. /\ QueueOrdered(w) /\ InboxOrdered(w) /\ OutboxOrdered(w) /\ Processed(w, e2)
              /\ hwm[w] \in Int
          BY <1>1, <2>1 DEF IInv, WorkersOrdered, PendingUntilProcessed, Typed, Events, NoEvent
        <4>2. e2 <= hwm[w] /\ e2 \in fired[w]
          BY <3>1, <4>1 DEF OutboxOrdered, Processed
        <4>3. e1 \notin waiting[w]
          BY <2>1, <3>1, <4>1, <4>2 DEF QueueOrdered
        <4>4. ~Coming(w, e1)
          BY <2>1, <3>1, <4>1, <4>2 DEF InboxOrdered
        <4>5. ~Reported(w, e1)
          BY <2>1, <3>1, <4>1 DEF OutboxOrdered
        <4> QED  BY <4>3, <4>4, <4>5
      <3>3. ~(counts[e1] > 0)
        <4>1. SUFFICES ASSUME counts[e1] > 0 PROVE FALSE
          OBVIOUS
        <4>2. counts[e1] = IF ProcessedBy(e1) = Workers THEN 0 ELSE Cardinality(ProcessedBy(e1))
          BY <1>1, <3>1 DEF IInv, CountsExact
        <4>3. ProcessedBy(e1) # Workers /\ ProcessedBy(e1) # {}
          BY <4>1, <4>2, FS_EmptySet
        <4>4. PICK v \in Workers : Processed(v, e1)
          BY <4>3 DEF ProcessedBy
        <4>5. PICK w \in Workers : ~Processed(w, e1)
          BY <4>3 DEF ProcessedBy
        <4>6. Seen(w, e1)
          BY <1>1, <3>1, <4>4 DEF IInv, SameMetadata, Seen, Processed
        <4> QED  BY <3>2, <4>5, <4>6 DEF Seen, Processed, Live, Coming
      <3> QED  BY <3>2, <3>3 DEF InTransit, Coming, Reported
    <2> QED  BY <2>1 DEF CompletedInOrder
  <1> QED  BY <1>1, EventsInvariant, PTL

=============================================================================
