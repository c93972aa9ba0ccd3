----------------------------- MODULE WorkerPool ------------------------------
(* What process_records is in both solutions: the calling thread cuts the  *)
(* input into batches and pushes them, a pool of jthreads pops them, and   *)
(* each record's result has its slot.  What a batch is, and what a worker  *)
(* does with one, is in BatchedPipeline and OptimizedPipeline.             *)
(*                                                                         *)
(* An encoded record is named by its position in the input.  The threads   *)
(* meet in the queue (BoundedQueue), in output_bytes (atomic) and in       *)
(* records, which nothing protects but the way slots are dealt out.        *)
EXTENDS BoundedQueue, FiniteSetsExt

CONSTANTS
    Main,           \* the thread that calls process_records
    Configs,        \* the configurations it may be called with
    Sizes,          \* the numbers of input records
    WordSize,       \* size_t is an integer modulo WordSize
    MayThrow,       \* can thread creation or allocation fail?
    PayloadSize(_)  \* payload.size() of the record at a position

Workers == Consumers
Words == 0 .. WordSize - 1

\* The defaults for a zero in the configuration.
OneIfZero(n) == IF n = 0 THEN 1 ELSE n

\* Mutants (as all names with an underscore inside, the next definition with a
\* plausible bug): a batch size, or a worker count, of zero is let through.
Normalized_ZeroBatch(raw) ==
    [raw EXCEPT !.worker_count = OneIfZero(@), !.queue_capacity = OneIfZero(@)]
Normalized_NoWorker(raw) ==
    [raw EXCEPT !.queue_capacity = OneIfZero(@), !.batch_size = OneIfZero(@)]

Normalized(raw) ==
    [raw EXCEPT !.worker_count   = OneIfZero(@),
                !.queue_capacity = OneIfZero(@),
                !.batch_size     = OneIfZero(@)]

(* A record takes more than two bytes of memory, so an input can have at   *)
(* most half as many records as size_t has values.                         *)
ASSUME PoolAssumption ==
    /\ Producers = {Main}
    /\ WordSize \in Nat /\ WordSize > 1
    /\ \A c \in Configs : Normalized(c).worker_count <= Cardinality(Workers)
    /\ Sizes \subseteq Nat
    /\ \A n \in Sizes : 2 * n < WordSize
    /\ MayThrow \in BOOLEAN
    /\ \A n \in Sizes : \A i \in 0 .. n - 1 : PayloadSize(i) \in Nat

VARIABLES
    config,         \* normalised
    size,           \* input.size()
    mainAt,         \* where the calling thread is
    worker,         \* where each worker's thread is
    offset,         \* each worker's loop counter
    start,          \* the producer loop's counter
    records,        \* the result slots
    input_bytes,
    output_bytes,
    output          \* what the call returned

pipelineVars == <<config, size, mainAt, worker, offset, start, records,
                  input_bytes, output_bytes, output>>

Positions == 0 .. size - 1

\* blank: a default-constructed CanonicalRecord.
PoolInit(blank) ==
    /\ \E c \in Configs : config = Normalized(c)
    /\ size \in Sizes
    /\ QueueInit(config.queue_capacity)
    /\ mainAt = "spawn"
    /\ worker = [w \in Workers |-> "unborn"]
    /\ offset = [w \in Workers |-> 0]
    /\ start = 0
    /\ records = [i \in Positions |-> blank]
    /\ input_bytes = 0
    /\ output_bytes = 0
    /\ output = <<>>

MainGoto(here, there) == mainAt = here /\ mainAt' = there
WorkerGoto(w, here, there) ==
    worker[w] = here /\ worker' = [worker EXCEPT ![w] = there]

Spawned == {w \in Workers : worker[w] # "unborn"}
AllExited == \A w \in Spawned : worker[w] = "exited"

-----------------------------------------------------------------------------
(* The calling thread.                                                     *)

SpawnWorker(w) ==
    /\ Cardinality(Spawned) < config.worker_count
    /\ MainGoto("spawn", "spawn")
    /\ WorkerGoto(w, "unborn", "loop")
    /\ UNCHANGED <<queueVars, config, size, offset, start, records,
                   input_bytes, output_bytes, output>>

AllSpawned ==
    /\ Cardinality(Spawned) >= config.worker_count
    /\ MainGoto("spawn", "produce")
    /\ UNCHANGED <<queueVars, config, size, worker, offset, start, records,
                   input_bytes, output_bytes, output>>

\* The last batch may be short.
BatchCount == IF config.batch_size < size - start THEN config.batch_size
                                                  ELSE size - start
\* The next batch goes to the queue as item.
PushItem(item) ==
    /\ start < size
    /\ MainGoto("produce", "push")
    /\ input_bytes' = input_bytes +
            MapThenSumSet(PayloadSize, start .. start + BatchCount - 1)
    /\ PushCall(Main, item)
    /\ UNCHANGED <<config, size, worker, offset, start, records, output_bytes,
                   output>>

\* Mutants: one record between two batches is skipped; the counter is
\* narrower than size_t.
Advanced_SkipsOne == (start + config.batch_size + 1) % WordSize
Advanced_Narrow == (start + config.batch_size) % (WordSize \div 4)
Advanced == (start + config.batch_size) % WordSize

NextBatch ==
    /\ at[Main] = "out"
    /\ MainGoto("push", "produce")
    /\ start' = Advanced
    /\ UNCHANGED <<queueVars, config, size, worker, offset, records,
                   input_bytes, output_bytes, output>>

CloseQueue ==
    /\ start >= size
    /\ MainGoto("produce", "close")
    /\ CloseCall(Main)
    /\ UNCHANGED <<config, size, worker, offset, start, records, input_bytes,
                   output_bytes, output>>

ClearWorkers ==
    /\ at[Main] = "out"
    /\ MainGoto("close", "join")
    /\ UNCHANGED <<queueVars, config, size, worker, offset, start, records,
                   input_bytes, output_bytes, output>>

\* Mutant: the threads are detached.
Joined_Detached == TRUE
\* Every thread the vector of jthreads holds has been joined.
Joined == AllExited

\* After workers.clear() the results are moved out.
Return ==
    /\ Joined
    /\ MainGoto("join", "returned")
    /\ output' = [records |-> records, input_bytes |-> input_bytes,
                  output_bytes |-> output_bytes,
                  producer_waits |-> producer_waits,
                  consumer_waits |-> consumer_waits,
                  max_occupancy |-> max_occupancy]
    /\ UNCHANGED <<queueVars, config, size, worker, offset, start, records,
                   input_bytes, output_bytes>>

\* A jthread cannot be created, or the memory for a batch cannot be had: the
\* exception leaves the function, and the vector of jthreads joins each
\* thread it holds.  Nothing closes the queue on this way out.
Throw ==
    /\ MayThrow
    /\ \/ MainGoto("spawn", "unwind") /\ Cardinality(Spawned) < config.worker_count
       \/ MainGoto("produce", "unwind") /\ start < size
    /\ UNCHANGED <<queueVars, config, size, worker, offset, start, records,
                   input_bytes, output_bytes, output>>

Rethrow ==
    /\ Joined
    /\ MainGoto("unwind", "thrown")
    /\ UNCHANGED <<queueVars, config, size, worker, offset, start, records,
                   input_bytes, output_bytes, output>>

-----------------------------------------------------------------------------
(* A worker's loop: while (auto item = queue.pop()) ...                    *)

WorkerPop(w) ==
    /\ WorkerGoto(w, "loop", "popping")
    /\ PopCall(w)
    /\ UNCHANGED <<config, size, mainAt, offset, start, records, input_bytes,
                   output_bytes, output>>

WorkerExits(w) ==
    /\ at[w] = "out"
    /\ popped[w] = NoItem
    /\ WorkerGoto(w, "popping", "exited")
    /\ UNCHANGED <<queueVars, config, size, mainAt, offset, start, records,
                   input_bytes, output_bytes, output>>

-----------------------------------------------------------------------------
\* What the calling thread does beside pushing.
PoolStep ==
    \/ AllSpawned \/ NextBatch \/ CloseQueue \/ ClearWorkers \/ Return \/ Rethrow
    \/ \E w \in Workers : SpawnWorker(w)

MainLabels == {"spawn", "produce", "push", "close", "join", "returned",
               "unwind", "thrown"}
=============================================================================
