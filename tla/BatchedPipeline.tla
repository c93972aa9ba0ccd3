-------------------------- MODULE BatchedPipeline ---------------------------
(* process_records of solutions/01_parallel_batched/src/pipeline.cpp: the  *)
(* worker pool with batches that own copies of their records.  What is     *)
(* done to one record is the constant operator ProcessOne.                 *)
EXTENDS WorkerPool

CONSTANTS
    ProcessOne(_),  \* process_one, of the record at a position
    EncodedSize(_), \* encoded_size of a canonical record
    Unset           \* a default-constructed CanonicalRecord

WorkItems == [output_start : Nat, encoded_records : Seq(Nat)]

ASSUME PipelineAssumption ==
    /\ Configs \subseteq [worker_count : Words, queue_capacity : Words,
                          batch_size : Words]
    /\ NoItem \notin WorkItems
    /\ \A n \in Sizes : \A i \in 0 .. n - 1 :
         ProcessOne(i) # Unset /\ EncodedSize(ProcessOne(i)) \in Nat

vars == <<queueVars, pipelineVars>>

Init == PoolInit(Unset)

-----------------------------------------------------------------------------
\* Mutant (as all names with an underscore inside, the next definition with a
\* plausible bug): every record is taken one position too far.
BuiltItem_OffByOne == [output_start    |-> start,
                       encoded_records |-> [k \in 1 .. BatchCount |-> start + k]]

BuiltItem == [output_start    |-> start,
              encoded_records |-> [k \in 1 .. BatchCount |-> start + (k - 1)]]

PushBatch == PushItem(BuiltItem)

BatchOf(w) == popped[w].encoded_records
\* Mutant: the batch's own counter is taken for the position.
SlotOf_NoBase(w) == offset[w]
SlotOf(w) == popped[w].output_start + offset[w]

WorkerGetsItem(w) ==
    /\ at[w] = "out"
    /\ popped[w] # NoItem
    /\ WorkerGoto(w, "popping", IF 0 < Len(BatchOf(w)) THEN "process" ELSE "loop")
    /\ offset' = [offset EXCEPT ![w] = 0]
    /\ UNCHANGED <<queueVars, config, size, mainAt, start, records,
                   input_bytes, output_bytes, output>>

\* Mutant: only the first record of a batch is counted.
ProcessRecord_OncePerBatch(w) ==
    /\ WorkerGoto(w, "process", "store")
    /\ output_bytes' = IF offset[w] > 0 THEN output_bytes ELSE output_bytes +
            EncodedSize(ProcessOne(BatchOf(w)[offset[w] + 1]))
    /\ UNCHANGED <<queueVars, config, size, mainAt, offset, start, records,
                   input_bytes, output>>

\* process_one, and the atomic addition of its result's size.
ProcessRecord(w) ==
    /\ WorkerGoto(w, "process", "store")
    /\ output_bytes' = output_bytes +
            EncodedSize(ProcessOne(BatchOf(w)[offset[w] + 1]))
    /\ UNCHANGED <<queueVars, config, size, mainAt, offset, start, records,
                   input_bytes, output>>

StoreRecord(w) ==
    /\ WorkerGoto(w, "store", IF offset[w] + 1 < Len(BatchOf(w)) THEN "process"
                                                                ELSE "loop")
    /\ records' = [records EXCEPT ![SlotOf(w)] =
                        ProcessOne(BatchOf(w)[offset[w] + 1])]
    /\ offset' = [offset EXCEPT ![w] = offset[w] + 1]
    /\ UNCHANGED <<queueVars, config, size, mainAt, start, input_bytes,
                   output_bytes, output>>

-----------------------------------------------------------------------------
InQueue == QueueStep /\ UNCHANGED pipelineVars

MainStep == PushBatch \/ PoolStep

WorkerStep(w) ==
    \/ WorkerPop(w) \/ WorkerGetsItem(w) \/ WorkerExits(w)
    \/ ProcessRecord(w) \/ StoreRecord(w)

\* The call is over; without this a finished run would be a deadlock.
Finished == mainAt \in {"returned", "thrown"} /\ UNCHANGED vars

Next ==
    \/ MainStep
    \/ Throw
    \/ \E w \in Workers : WorkerStep(w)
    \/ InQueue
    \/ Finished

SafeSpec == Init /\ [][Next]_vars

\* The operating system runs every thread that can run; nothing has to fail.
Spec ==
    /\ SafeSpec
    /\ QueueFairness
    /\ WF_vars(MainStep)
    /\ \A w \in Workers : WF_vars(WorkerStep(w))

-----------------------------------------------------------------------------
WorkerLabels == {"unborn", "loop", "popping", "process", "store", "exited"}

TypeOK ==
    /\ QueueTypeOK(WorkItems)
    /\ config \in [worker_count : Words \ {0}, queue_capacity : Words \ {0},
                   batch_size : Words \ {0}]
    /\ size \in Sizes
    /\ mainAt \in MainLabels
    /\ worker \in [Workers -> WorkerLabels]
    /\ offset \in [Workers -> Nat]
    /\ start \in Words
    /\ records = [i \in Positions |-> records[i]]

\* The records of an item that a worker has taken and not yet stored.  The
\* counter of the loop before still stands while the worker is in pop.
Held(w) ==
    IF popped[w] = NoItem THEN {}
    ELSE {<<w, k>> : k \in IF worker[w] = "popping"
                             THEN 1 .. Len(BatchOf(w))
                             ELSE offset[w] + 1 .. Len(BatchOf(w))}

\* The first position that is in no batch yet.
Frontier ==
    IF mainAt = "push" THEN start + BatchCount ELSE start

\* Everywhere the record at position i is: still in the input, in the batch
\* being pushed, in the queue, with a worker, or done.
Places(i) ==
    {<<"input">> : n \in {n \in {i} : n >= Frontier}}
    \cup {<<"pushing", k>> : k \in
            {k \in 1 .. (IF pushing[Main] = NoItem THEN 0
                         ELSE Len(pushing[Main].encoded_records)) :
                pushing[Main].encoded_records[k] = i}}
    \cup (UNION {{<<"queued", q, k>> : k \in
            {k \in 1 .. Len(items_[q].encoded_records) :
                items_[q].encoded_records[k] = i}} : q \in 1 .. Len(items_)})
    \cup (UNION {{<<"held", h>> : h \in
            {h \in Held(w) : BatchOf(w)[h[2]] = i}} : w \in Workers})
    \cup {<<"done">> : r \in {r \in {records[i]} : r # Unset}}

\* No record is lost, and none is processed twice: through the cutting into
\* batches, the handing over and any number of waits, at every moment each
\* record is in exactly one place.
EveryRecordOnce == \A i \in Positions : Cardinality(Places(i)) = 1

\* No two workers ever write one slot at the same time: the vector records
\* has no lock.
NoSlotRace ==
    \A v, w \in Workers :
        v # w /\ worker[v] = "store" /\ worker[w] = "store"
            => SlotOf(v) # SlotOf(w)

\* A slot that is written holds the canonical record of the input at its own
\* position, whichever worker wrote it and whenever.
SlotsAreRight ==
    \A i \in Positions : records[i] \in {Unset, ProcessOne(i)}

\* The byte counts are exact at every moment: the batches cut so far, and
\* the records processed so far (a worker adds before it stores); and what
\* the call returns counts the whole input.
ByteCountsExact ==
    LET SizeAt(i) == EncodedSize(ProcessOne(i))
        done == {i \in Positions : records[i] # Unset}
        processed == {SlotOf(w) : w \in {w \in Workers : worker[w] = "store"}}
    IN  /\ input_bytes =
             MapThenSumSet(PayloadSize, {i \in Positions : i < Frontier})
        /\ output_bytes = MapThenSumSet(SizeAt, done \cup processed)
        /\ mainAt = "returned" =>
             /\ output.input_bytes = MapThenSumSet(PayloadSize, Positions)
             /\ output.output_bytes = MapThenSumSet(SizeAt, Positions)

\* What the call returns is the sequential result: content and order of the
\* records do not depend on the number of workers, the capacity or the batch
\* size; and the occupancy it reports respects the configured capacity.
ReturnsSequentialResult ==
    mainAt = "returned" =>
        /\ output.records = [i \in Positions |-> ProcessOne(i)]
        /\ output.max_occupancy <= config.queue_capacity

\* No thread outlives the locals it refers to: when the call is over, by
\* return or by exception, no worker runs, and the queue that is destroyed
\* has a free mutex and nobody waiting on its condition variables.
LocalsOutliveWorkers ==
    mainAt \in {"returned", "thrown"} =>
        /\ AllExited
        /\ mutex_ = NoOne
        /\ not_empty_ = {} /\ not_full_ = {}
        /\ at[Main] = "out"

\* An exception reaches the caller only if it was thrown before any worker
\* was started: nothing closes the queue while the stack unwinds, so workers
\* that were started are joined for ever (see Completes).
RethrowsOnlyBeforeSpawn == mainAt = "thrown" => Spawned = {}

\* A worker leaves its loop only when no record can come any more.
ExitsWhenDrained ==
    (\E w \in Workers : worker[w] = "exited") => closed_ /\ items_ = <<>>

\* The producer's counter climbs to the end of the input without wrapping
\* round, for every batch size a size_t can hold.
StartAscends == [][start' > start]_start

Transform == INSTANCE OrderedTransform WITH
    slots <- records,
    returned <- mainAt = "returned"

\* The parallel pipeline does what the sequential transform promises: each
\* slot is filled once, with the right record, and all before the return.
ActsAsTransform == Transform!Safety

\* The call comes to an end.
Completes == <>(mainAt \in {"returned", "thrown"})
=============================================================================
