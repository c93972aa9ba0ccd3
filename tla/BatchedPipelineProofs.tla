------------------------ MODULE BatchedPipelineProofs ------------------------
(* The batched pipeline for every input size, configuration and number of  *)
(* workers: no two workers write one slot, every slot is filled once with  *)
(* the right record, and what is returned is the sequential result.        *)
(*                                                                         *)
(* The argument: batches are cut one after the other, so the queue always  *)
(* holds a contiguous run of positions that ends where the producer is;    *)
(* what the workers hold lies before that run, in disjoint pieces; and the *)
(* slots still unset are those behind the run's start and those a worker   *)
(* still holds.  So at every moment each record is in exactly one place,   *)
(* and what has been counted of it is its size, once.                      *)
EXTENDS BatchedPipeline, BoundedQueueProofs, InductionLemmas

\* The position after an item's last record.
End(item) == item.output_start + Len(item.encoded_records)

\* A batch of consecutive records of the input, each at its own offset.
Whole(item) ==
    /\ Len(item.encoded_records) > 0
    /\ End(item) <= size
    /\ \A k \in 1 .. Len(item.encoded_records) :
         item.encoded_records[k] = item.output_start + (k - 1)

\* The positions below this one were put into the queue.
Enqueued ==
    IF start >= size THEN size
    ELSE IF mainAt = "push" /\ at[Main] = "out" THEN start + BatchCount
    ELSE start

\* The positions below this one were taken out of it.
Taken == IF items_ = <<>> THEN Enqueued ELSE items_[1].output_start

\* The calling thread.
MainInv ==
    /\ mainAt \notin {"push", "close"} => at[Main] = "out"
    /\ mainAt = "push" => at[Main] \in PushLabels \cup {"out"} /\ start < size
    /\ mainAt = "close" => at[Main] \in CloseLabels \cup {"out"}
    /\ mainAt \in {"close", "join", "returned"} => start >= size
    /\ closed_ <=> \/ mainAt \in {"join", "returned"}
                   \/ mainAt = "close" /\ at[Main] # "close.lock"
    /\ mainAt \in {"produce", "push", "close", "join", "returned"} => Spawned # {}
    /\ mainAt \in {"returned", "thrown"} => AllExited
    /\ mainAt = "returned" => /\ output.records = records
                              /\ output.max_occupancy <= capacity_
    /\ start = 0 \/ start >= config.batch_size
    /\ capacity_ = config.queue_capacity

\* The workers' threads.
WorkerInv ==
    \A w \in Workers :
        /\ at[w] # "out" => worker[w] = "popping" /\ popped[w] = NoItem
        /\ worker[w] \in {"process", "store"} =>
             popped[w] # NoItem /\ offset[w] < Len(BatchOf(w))
        /\ worker[w] = "loop" /\ popped[w] # NoItem =>
             offset[w] = Len(BatchOf(w))
        /\ worker[w] \in {"unborn", "exited"} => popped[w] = NoItem
        /\ \/ worker[w] = "exited"
           \/ worker[w] = "popping" /\ at[w] = "out" /\ popped[w] = NoItem
           => closed_ /\ items_ = <<>>

\* The queue: a contiguous run of whole batches, up to the producer.
FifoInv ==
    /\ at[Main] \in PushLabels => pushing[Main] = BuiltItem
    /\ \A q \in 1 .. Len(items_) : Whole(items_[q])
    /\ \A q \in 1 .. Len(items_) - 1 :
         items_[q + 1].output_start = End(items_[q])
    /\ items_ # <<>> => End(items_[Len(items_)]) = Enqueued

\* The workers' batches: disjoint, and before the run in the queue.
HandInv ==
    /\ \A w \in Workers : popped[w] # NoItem =>
         Whole(popped[w]) /\ End(popped[w]) <= Taken
    /\ \A v, w \in Workers :
         v # w /\ popped[v] # NoItem /\ popped[w] # NoItem =>
             \/ End(popped[v]) <= popped[w].output_start
             \/ End(popped[w]) <= popped[v].output_start

\* Worker w has taken position i and not yet stored it.
Holds(w, i) ==
    /\ popped[w] # NoItem
    /\ i < End(popped[w])
    /\ i >= popped[w].output_start
    /\ worker[w] # "popping" => i >= SlotOf(w)

\* The slots: unset exactly while their record is on its way.
SlotInv ==
    \A i \in Positions :
        /\ records[i] \in {Unset, ProcessOne(i)}
        /\ records[i] = Unset <=> i >= Taken \/ \E w \in Workers : Holds(w, i)

PipelineInv ==
    /\ TypeOK
    /\ QueueInv
    /\ MainInv
    /\ WorkerInv
    /\ FifoInv
    /\ HandInv
    /\ SlotInv

-----------------------------------------------------------------------------
(* Facts about the constants and types, in the form the steps need.        *)

LEMMA Arithmetic ==
    ASSUME TypeOK
    PROVE  /\ size \in Nat /\ 2 * size < WordSize /\ WordSize \in Nat
           /\ start \in Nat /\ start < WordSize
           /\ config.batch_size \in Nat /\ config.batch_size > 0
           /\ config.batch_size < WordSize
           /\ config.worker_count \in Nat /\ config.worker_count > 0
           /\ config.queue_capacity \in Nat /\ config.queue_capacity > 0
  BY PoolAssumption, PipelineAssumption DEF TypeOK, Words

LEMMA ThreadFacts ==
    /\ Producers = {Main} /\ Main \notin Workers /\ Workers = Consumers
    /\ Main \in Threads /\ Workers \subseteq Threads
    /\ Threads = {Main} \cup Workers
    /\ IsFiniteSet(Workers)
  BY PoolAssumption, PipelineAssumption, QueueAssumption DEF Threads, Workers

LEMMA AtFacts ==
    ASSUME TypeOK
    PROVE  /\ DOMAIN at = Threads
           /\ \A w \in Workers : at[w] \in {"out"} \cup PopLabels
           /\ at[Main] \in {"out"} \cup PushLabels \cup CloseLabels
           /\ DOMAIN worker = Workers
           /\ DOMAIN popped = Workers
           /\ DOMAIN offset = Workers
           /\ DOMAIN pushing = {Main}
<1>1. at \in [Threads -> {"out"} \cup PushLabels \cup PopLabels \cup CloseLabels]
  BY DEF TypeOK, QueueTypeOK
<1>2. /\ \A p \in Producers : at[p] \notin PopLabels
      /\ \A c \in Consumers : at[c] \notin PushLabels \cup CloseLabels
  BY DEF TypeOK, QueueTypeOK
<1> QED BY <1>1, <1>2, ThreadFacts DEF TypeOK, QueueTypeOK

LEMMA ItemFacts ==
    ASSUME NEW item \in WorkItems
    PROVE  /\ item.output_start \in Nat
           /\ item.encoded_records \in Seq(Nat)
           /\ Len(item.encoded_records) \in Nat
           /\ End(item) \in Nat
           /\ item # NoItem
  BY PoolAssumption, PipelineAssumption, LenProperties DEF WorkItems, End

LEMMA PoppedFacts ==
    ASSUME TypeOK, NEW w \in Workers
    PROVE  /\ popped[w] # NoItem => popped[w] \in WorkItems
           /\ offset[w] \in Nat
           /\ worker[w] \in WorkerLabels
  BY DEF TypeOK, QueueTypeOK, Workers

LEMMA BuiltItemFacts ==
    ASSUME TypeOK, start < size
    PROVE  /\ BuiltItem \in WorkItems
           /\ BatchCount \in Nat /\ BatchCount > 0
           /\ start + BatchCount <= size
           /\ BuiltItem.output_start = start
           /\ End(BuiltItem) = start + BatchCount
           /\ Whole(BuiltItem)
<1> DEFINE n == BatchCount
           s == [k \in 1 .. n |-> start + (k - 1)]
<1>1. n \in Nat /\ n > 0 /\ start + n <= size
  BY Arithmetic DEF BatchCount
<1>2. s \in Seq(Nat) /\ Len(s) = n
  <2> HIDE DEF n
  <2>1. \A k \in 1 .. n : start + (k - 1) \in Nat
    BY <1>1, Arithmetic
  <2>2. s \in [1 .. n -> Nat]
    BY <2>1
  <2> QED BY <1>1, <2>2, SeqDef
<1>3. BuiltItem = [output_start |-> start, encoded_records |-> s]
  BY DEF BuiltItem
<1> HIDE DEF s
<1>4. BuiltItem \in WorkItems /\ BuiltItem.encoded_records = s
  BY <1>2, <1>3, Arithmetic DEF WorkItems
<1>5. \A k \in 1 .. Len(s) : s[k] = start + (k - 1)
  BY <1>2 DEF s
<1> QED BY <1>1, <1>2, <1>3, <1>4, <1>5 DEF End, Whole

-----------------------------------------------------------------------------
(* Types, and the queue's own invariant.                                   *)

LEMMA NextIsQueueNext ==
    ASSUME TypeOK, [Next]_vars
    PROVE  QueueNext(WorkItems)
<1>1. CASE UNCHANGED queueVars
  BY <1>1 DEF QueueNext
<1>2. CASE PushBatch
  BY <1>2, BuiltItemFacts, ThreadFacts DEF PushBatch, PushItem, QueueNext
<1>3. CASE CloseQueue
  BY <1>3, ThreadFacts DEF CloseQueue, QueueNext
<1>4. ASSUME NEW w \in Workers, WorkerPop(w)
      PROVE  QueueNext(WorkItems)
  BY <1>4, ThreadFacts DEF WorkerPop, QueueNext
<1>5. CASE InQueue
  BY <1>5 DEF InQueue, QueueNext
<1> QED
  BY <1>1, <1>2, <1>3, <1>4, <1>5
  DEF Next, vars, MainStep, PoolStep, WorkerStep, SpawnWorker, AllSpawned,
      NextBatch, Advanced, ClearWorkers, Return, Joined, Throw, Rethrow,
      WorkerGetsItem, WorkerExits, ProcessRecord, StoreRecord, Finished

LEMMA TypeInit == Init => TypeOK
<1> SUFFICES ASSUME Init PROVE TypeOK
  OBVIOUS
<1>1. PICK c \in Configs : config = Normalized(c)
  BY DEF Init, PoolInit
<1>2. config \in [worker_count : Words \ {0}, queue_capacity : Words \ {0},
                  batch_size : Words \ {0}]
  <2>1. /\ c \in [worker_count : Words, queue_capacity : Words,
                   batch_size : Words]
        /\ WordSize \in Nat /\ WordSize > 1
    BY PoolAssumption, PipelineAssumption
  <2>2. config = [worker_count   |-> OneIfZero(c.worker_count),
                  queue_capacity |-> OneIfZero(c.queue_capacity),
                  batch_size     |-> OneIfZero(c.batch_size)]
    BY <1>1, <2>1 DEF Normalized
  <2>3. \A n \in Words : OneIfZero(n) \in Words \ {0}
    BY <2>1 DEF OneIfZero, Words
  <2> QED BY <2>1, <2>2, <2>3
<1>3. QueueTypeOK(WorkItems)
  BY <1>2, QueueTypeInit DEF Init, PoolInit, Words
<1> QED
  BY <1>2, <1>3, PoolAssumption, PipelineAssumption
  DEF Init, PoolInit, TypeOK, MainLabels, WorkerLabels, Words, Positions

LEMMA TypeNext == TypeOK /\ [Next]_vars => TypeOK'
<1> SUFFICES ASSUME TypeOK, [Next]_vars PROVE TypeOK'
  OBVIOUS
<1>1. QueueTypeOK(WorkItems)'
  BY NextIsQueueNext, QueueTypeNext DEF TypeOK
<1>2. UNCHANGED <<config, size>>
  BY DEF Next, vars, pipelineVars, InQueue, MainStep, PoolStep, WorkerStep,
       SpawnWorker, AllSpawned, PushBatch, PushItem, NextBatch,
       Advanced, CloseQueue, ClearWorkers, Return, Joined, Throw, Rethrow, WorkerPop,
       WorkerGetsItem, WorkerExits, ProcessRecord, StoreRecord, Finished
<1>3. /\ mainAt' \in MainLabels
      /\ worker' \in [Workers -> WorkerLabels]
  BY DEF TypeOK, MainLabels, WorkerLabels, MainGoto, WorkerGoto, Next, vars,
       pipelineVars, InQueue, MainStep, PoolStep, WorkerStep, SpawnWorker,
       AllSpawned, PushBatch, PushItem, NextBatch, Advanced, CloseQueue,
       ClearWorkers, Return, Joined, Throw, Rethrow, WorkerPop,
       WorkerGetsItem, WorkerExits, ProcessRecord, StoreRecord, Finished
<1>4. /\ offset' \in [Workers -> Nat]
      /\ records' = [i \in Positions |-> records'[i]]
  BY DEF TypeOK, Next, vars, pipelineVars, InQueue, MainStep, PoolStep,
       WorkerStep, SpawnWorker, AllSpawned, PushBatch, PushItem, NextBatch,
       Advanced, CloseQueue, ClearWorkers, Return, Joined, Throw, Rethrow,
       WorkerPop, WorkerGetsItem, WorkerExits, ProcessRecord, StoreRecord,
       Finished
<1>5. start' \in Words
  <2>1. CASE NextBatch
    BY <2>1, Arithmetic DEF NextBatch, Advanced, Words
  <2>2. CASE UNCHANGED start
    BY <2>2 DEF TypeOK
  <2> QED
    BY <2>1, <2>2 DEF Next, vars, pipelineVars, InQueue, MainStep, PoolStep,
         WorkerStep, SpawnWorker, AllSpawned, PushBatch, PushItem, CloseQueue,
         ClearWorkers, Return, Joined, Throw, Rethrow, WorkerPop,
         WorkerGetsItem, WorkerExits, ProcessRecord, StoreRecord, Finished
<1> QED BY <1>1, <1>2, <1>3, <1>4, <1>5 DEF TypeOK, Positions

-----------------------------------------------------------------------------
(* The inductive invariant holds initially.                                *)

LEMMA PipelineInvInit == Init => PipelineInv
<1> SUFFICES ASSUME Init PROVE PipelineInv
  OBVIOUS
<1>1. TypeOK
  BY TypeInit
<1>2. QueueInv /\ capacity_ = config.queue_capacity
  <2>1. QueueInit(config.queue_capacity)
    BY DEF Init, PoolInit
  <2>2. config.queue_capacity \in Nat /\ config.queue_capacity > 0
    BY <1>1, Arithmetic
  <2>3. QueueInv
    BY <2>1, <2>2, QueueInvInit
  <2> QED BY <2>1, <2>2, <2>3 DEF QueueInit, CapacityOf
<1>3. items_ = <<>> /\ Len(items_) = 0 /\ start = 0 /\ size \in Nat
  BY <1>1, Arithmetic DEF Init, PoolInit, QueueInit
<1>4. /\ \A t \in Threads : at[t] = "out"
      /\ \A w \in Workers : popped[w] = NoItem /\ worker[w] = "unborn"
  BY DEF Init, PoolInit, QueueInit, Workers
<1>5. MainInv
  BY <1>2, <1>3, <1>4, ThreadFacts DEF MainInv, Init, PoolInit, QueueInit
<1>6. WorkerInv
  BY <1>4, ThreadFacts DEF WorkerInv
<1>7. FifoInv
  BY <1>3, <1>4, ThreadFacts DEF FifoInv, PushLabels
<1>8. HandInv
  BY <1>4 DEF HandInv
<1>9. SlotInv
  BY <1>3, <1>4 DEF SlotInv, Init, PoolInit, Positions, Taken, Enqueued, Holds
<1> QED BY <1>1, <1>2, <1>5, <1>6, <1>7, <1>8, <1>9 DEF PipelineInv

-----------------------------------------------------------------------------
(* What a step has to leave alone to preserve each part.                   *)

LEMMA MainFrame ==
    ASSUME MainInv,
           UNCHANGED <<mainAt, start, size, config, capacity_, closed_, worker,
                       records, output>>,
           at'[Main] = at[Main]
    PROVE  MainInv'
  BY DEF MainInv, Spawned, AllExited

LEMMA FifoFrame ==
    ASSUME FifoInv, UNCHANGED <<items_, size>>, Enqueued' = Enqueued,
           \/ at'[Main] \notin PushLabels
           \/ at[Main] \in PushLabels /\ UNCHANGED <<pushing, BuiltItem>>
    PROVE  FifoInv' /\ Taken' = Taken
  BY DEF FifoInv, Whole, End, Taken

LEMMA HandFrame ==
    ASSUME HandInv, UNCHANGED <<popped, size>>, Taken' = Taken
    PROVE  HandInv'
  BY DEF HandInv, Whole, End

LEMMA SlotFrame ==
    ASSUME SlotInv, UNCHANGED <<records, size>>, Taken' = Taken,
           \A w \in Workers : \A i \in Positions : Holds(w, i)' <=> Holds(w, i)
    PROVE  SlotInv'
  BY DEF SlotInv, Positions

LEMMA HoldsFrame ==
    ASSUME NEW w \in Workers, UNCHANGED <<popped, offset, worker>>, NEW i
    PROVE  Holds(w, i)' <=> Holds(w, i)
  BY DEF Holds, End, SlotOf

\* A step of the calling thread that touches neither queue nor workers.
LEMMA MainOnlyFrame ==
    ASSUME PipelineInv,
           UNCHANGED <<items_, closed_, capacity_, pushing, popped, size,
                       config, start, worker, offset, records>>,
           \A w \in Workers : at'[w] = at[w],
           Enqueued' = Enqueued,
           at'[Main] \in PushLabels => at[Main] \in PushLabels
    PROVE  WorkerInv' /\ FifoInv' /\ HandInv' /\ SlotInv'
<1>1. FifoInv' /\ Taken' = Taken
  BY FifoFrame DEF PipelineInv, BuiltItem, BatchCount
<1>2. HandInv' /\ SlotInv'
  BY <1>1, HandFrame, SlotFrame, HoldsFrame DEF PipelineInv
<1>3. WorkerInv'
  BY DEF PipelineInv, WorkerInv, BatchOf
<1> QED BY <1>1, <1>2, <1>3

-----------------------------------------------------------------------------
(* The calling thread's steps.                                             *)

Parts == MainInv /\ WorkerInv /\ FifoInv /\ HandInv /\ SlotInv

LEMMA SpawnPreserves ==
    ASSUME PipelineInv, NEW w \in Workers, SpawnWorker(w)
    PROVE  Parts'
<1>1. /\ worker' = [worker EXCEPT ![w] = "loop"] /\ worker[w] = "unborn"
      /\ mainAt = "spawn" /\ mainAt' = "spawn"
      /\ UNCHANGED <<items_, closed_, capacity_, at, pushing, popped, size,
                     config, start, offset, records, output>>
  BY DEF SpawnWorker, MainGoto, WorkerGoto, queueVars, calls
<1>2. popped[w] = NoItem /\ at[w] = "out"
  BY <1>1 DEF PipelineInv, WorkerInv
<1>3. MainInv'
  BY <1>1 DEF PipelineInv, MainInv
<1>4. FifoInv' /\ Taken' = Taken
  BY <1>1, FifoFrame DEF PipelineInv, BuiltItem, BatchCount, Enqueued
<1>5. HandInv'
  BY <1>1, <1>4, HandFrame DEF PipelineInv
<1>6. \A v \in Workers : \A i \in Positions : Holds(v, i)' <=> Holds(v, i)
  BY <1>1, <1>2, AtFacts DEF PipelineInv, Holds, End, SlotOf
<1>7. SlotInv'
  BY <1>1, <1>4, <1>6, SlotFrame DEF PipelineInv
<1>8. WorkerInv'
  BY <1>1, <1>2, AtFacts DEF PipelineInv, WorkerInv, BatchOf
<1> QED BY <1>3, <1>4, <1>5, <1>7, <1>8 DEF Parts

LEMMA MainControlPreserves ==
    ASSUME PipelineInv,
           AllSpawned \/ ClearWorkers \/ Return \/ Throw \/ Rethrow
    PROVE  Parts'
<1>1. /\ UNCHANGED <<items_, closed_, capacity_, at, pushing, popped, size,
                     config, start, worker, offset, records, max_occupancy>>
      /\ mainAt' # "push" /\ (mainAt # "push" \/ start >= size)
  BY DEF AllSpawned, ClearWorkers, Return, Joined, Throw, Rethrow, MainGoto,
       queueVars, calls, metrics
<1>2. Enqueued' = Enqueued
  BY <1>1, Arithmetic DEF Enqueued, PipelineInv
<1>3. WorkerInv' /\ FifoInv' /\ HandInv' /\ SlotInv'
  BY <1>1, <1>2, MainOnlyFrame
<1>4. AllSpawned => Spawned # {}
  <2>1. Cardinality({}) = 0
    BY FS_EmptySet
  <2> QED BY <2>1, Arithmetic DEF AllSpawned, PipelineInv
<1>5. max_occupancy <= capacity_
  BY DEF PipelineInv, QueueInv, WithinCapacity
<1>6. MainInv'
  BY <1>1, <1>4, <1>5
  DEF PipelineInv, MainInv, AllSpawned, ClearWorkers, Return, Joined, Throw,
      Rethrow, MainGoto, Spawned, AllExited
<1> QED BY <1>3, <1>6 DEF Parts

LEMMA PushBatchPreserves ==
    ASSUME PipelineInv, PushBatch
    PROVE  Parts'
<1>1. /\ UNCHANGED <<items_, closed_, capacity_, popped, size, config, start,
                     worker, offset, records, output>>
      /\ mainAt = "produce" /\ mainAt' = "push" /\ start < size
      /\ at' = [at EXCEPT ![Main] = "push.lock"]
      /\ pushing' = [pushing EXCEPT ![Main] = BuiltItem]
  BY DEF PushBatch, PushItem, PushCall, MainGoto, Goto
<1>2. /\ at'[Main] = "push.lock" /\ \A w \in Workers : at'[w] = at[w]
      /\ pushing'[Main] = BuiltItem'
  BY <1>1, AtFacts, ThreadFacts DEF PipelineInv, BuiltItem, BatchCount
<1>3. Enqueued' = Enqueued
  BY <1>1, <1>2 DEF Enqueued
<1>4. FifoInv' /\ Taken' = Taken
  BY <1>1, <1>2, <1>3 DEF PipelineInv, FifoInv, Taken, Whole, End
<1>5. HandInv' /\ SlotInv'
  BY <1>1, <1>4, HandFrame, SlotFrame, HoldsFrame DEF PipelineInv
<1>6. WorkerInv'
  BY <1>1, <1>2 DEF PipelineInv, WorkerInv, BatchOf
<1>7. MainInv'
  BY <1>1, <1>2 DEF PipelineInv, MainInv, PushLabels, Spawned, AllExited
<1> QED BY <1>4, <1>5, <1>6, <1>7 DEF Parts

\* The counter cannot wrap: it is 0 or at least one batch, and below the
\* end of the input, of which size_t holds twice as much.
LEMMA StartSteps ==
    ASSUME PipelineInv, NextBatch
    PROVE  start' = start + config.batch_size /\ start < size
<1>1. start < size /\ (start = 0 \/ start >= config.batch_size)
  BY DEF PipelineInv, MainInv, NextBatch, Advanced, MainGoto
<1>2. start + config.batch_size < WordSize
  BY <1>1, Arithmetic DEF PipelineInv
<1> QED BY <1>1, <1>2, Arithmetic DEF PipelineInv, NextBatch, Advanced

LEMMA NextBatchPreserves ==
    ASSUME PipelineInv, NextBatch
    PROVE  Parts'
<1>1. /\ UNCHANGED <<items_, closed_, capacity_, at, pushing, popped, size,
                     config, worker, offset, records, output>>
      /\ mainAt = "push" /\ mainAt' = "produce" /\ at[Main] = "out"
      /\ start' = start + config.batch_size /\ start < size
  BY StartSteps DEF NextBatch, Advanced, MainGoto, queueVars, calls
<1>2. Enqueued' = Enqueued
  BY <1>1, Arithmetic DEF PipelineInv, Enqueued, BatchCount
<1>3. at'[Main] \notin PushLabels
  BY <1>1 DEF PushLabels
<1>4. FifoInv' /\ Taken' = Taken
  BY <1>1, <1>2, <1>3, FifoFrame DEF PipelineInv
<1>5. HandInv' /\ SlotInv'
  BY <1>1, <1>4, HandFrame, SlotFrame, HoldsFrame DEF PipelineInv
<1>6. WorkerInv'
  BY <1>1 DEF PipelineInv, WorkerInv, BatchOf
<1>7. MainInv'
  BY <1>1, Arithmetic DEF PipelineInv, MainInv, Spawned, AllExited
<1> QED BY <1>4, <1>5, <1>6, <1>7 DEF Parts

LEMMA CloseQueuePreserves ==
    ASSUME PipelineInv, CloseQueue
    PROVE  Parts'
<1>1. /\ UNCHANGED <<items_, closed_, capacity_, pushing, popped, size, config,
                     start, worker, offset, records, output>>
      /\ mainAt = "produce" /\ mainAt' = "close" /\ start >= size
      /\ at' = [at EXCEPT ![Main] = "close.lock"]
  BY DEF CloseQueue, CloseCall, MainGoto, Goto, calls
<1>2. at'[Main] = "close.lock" /\ \A w \in Workers : at'[w] = at[w]
  BY <1>1, AtFacts, ThreadFacts DEF PipelineInv
<1>3. Enqueued' = Enqueued
  BY <1>1 DEF Enqueued
<1>4. WorkerInv' /\ FifoInv' /\ HandInv' /\ SlotInv'
  BY <1>1, <1>2, <1>3, MainOnlyFrame DEF PushLabels
<1>5. MainInv'
  BY <1>1, <1>2 DEF PipelineInv, MainInv, CloseLabels, Spawned, AllExited
<1> QED BY <1>4, <1>5 DEF Parts

-----------------------------------------------------------------------------
(* The workers' steps.                                                     *)

\* A worker's step leaves the calling thread's part of the invariant alone
\* and never empties or fills the queue.
LEMMA WorkerOnlyFrame ==
    ASSUME PipelineInv, NEW w \in Workers,
           UNCHANGED <<items_, closed_, capacity_, pushing, size, config,
                       start, mainAt, output>>,
           at'[Main] = at[Main],
           worker[w] \notin {"unborn", "exited"},
           worker'[w] # "unborn",
           \A v \in Workers \ {w} : worker'[v] = worker[v]
    PROVE  MainInv' /\ FifoInv' /\ Taken' = Taken
<1>1. Spawned' = Spawned
  BY DEF Spawned
<1>2. mainAt \notin {"returned", "thrown"}
  BY DEF PipelineInv, MainInv, AllExited, Spawned
<1>3. MainInv'
  BY <1>1, <1>2 DEF PipelineInv, MainInv
<1>4. Enqueued' = Enqueued /\ UNCHANGED BuiltItem
  BY DEF Enqueued, BuiltItem, BatchCount
<1>5. FifoInv' /\ Taken' = Taken
  BY <1>4, FifoFrame DEF PipelineInv
<1> QED BY <1>3, <1>5

LEMMA WorkerPopPreserves ==
    ASSUME PipelineInv, NEW w \in Workers, WorkerPop(w)
    PROVE  Parts'
<1>1. /\ UNCHANGED <<items_, closed_, capacity_, pushing, size, config, start,
                     mainAt, output, offset, records>>
      /\ worker[w] = "loop" /\ worker' = [worker EXCEPT ![w] = "popping"]
      /\ at' = [at EXCEPT ![w] = "pop.lock"]
      /\ popped' = [popped EXCEPT ![w] = NoItem]
  BY DEF WorkerPop, PopCall, WorkerGoto, Goto
<1>2. /\ at'[Main] = at[Main] /\ at'[w] = "pop.lock"
      /\ popped'[w] = NoItem /\ worker'[w] = "popping"
      /\ \A v \in Workers \ {w} :
           /\ at'[v] = at[v] /\ popped'[v] = popped[v]
           /\ worker'[v] = worker[v] /\ offset'[v] = offset[v]
  BY <1>1, AtFacts, ThreadFacts DEF PipelineInv
<1>3. MainInv' /\ FifoInv' /\ Taken' = Taken
  BY <1>1, <1>2, WorkerOnlyFrame
<1>4. WorkerInv'
  BY <1>1, <1>2 DEF PipelineInv, WorkerInv, BatchOf
<1>5. HandInv'
  BY <1>1, <1>2, <1>3 DEF PipelineInv, HandInv, Whole, End
<1>6. \A i \in Positions : Holds(w, i)' <=> Holds(w, i)
  <2>1. popped[w] # NoItem => offset[w] = Len(BatchOf(w))
    BY <1>1 DEF PipelineInv, WorkerInv
  <2>2. \A i \in Positions : ~Holds(w, i)
    BY <1>1, <2>1, PoppedFacts, ItemFacts
    DEF PipelineInv, Holds, SlotOf, BatchOf, End, Positions
  <2> QED BY <1>2, <2>2 DEF Holds
<1>7. \A v \in Workers \ {w} : \A i \in Positions : Holds(v, i)' <=> Holds(v, i)
  BY <1>2 DEF Holds, End, SlotOf
<1>8. SlotInv'
  BY <1>1, <1>3, <1>6, <1>7, SlotFrame DEF PipelineInv
<1> QED BY <1>3, <1>4, <1>5, <1>8 DEF Parts

LEMMA WorkerGetsItemPreserves ==
    ASSUME PipelineInv, NEW w \in Workers, WorkerGetsItem(w)
    PROVE  Parts'
<1>1. /\ UNCHANGED <<items_, closed_, capacity_, pushing, size, config, start,
                     mainAt, output, at, popped, records>>
      /\ worker[w] = "popping" /\ popped[w] # NoItem
      /\ worker' = [worker EXCEPT ![w] =
                      IF 0 < Len(BatchOf(w)) THEN "process" ELSE "loop"]
      /\ offset' = [offset EXCEPT ![w] = 0]
      /\ at[w] = "out"
  BY DEF WorkerGetsItem, WorkerGoto, queueVars, calls
<1>2. Len(BatchOf(w)) > 0
  BY <1>1 DEF PipelineInv, HandInv, Whole, BatchOf
<1>3. /\ worker'[w] = "process" /\ offset'[w] = 0
      /\ \A v \in Workers \ {w} :
           worker'[v] = worker[v] /\ offset'[v] = offset[v]
  BY <1>1, <1>2, AtFacts, ThreadFacts DEF PipelineInv
<1>4. MainInv' /\ FifoInv' /\ Taken' = Taken
  BY <1>1, <1>3, WorkerOnlyFrame
<1>5. WorkerInv'
  BY <1>1, <1>2, <1>3 DEF PipelineInv, WorkerInv, BatchOf
<1>6. HandInv'
  BY <1>1, <1>4, HandFrame DEF PipelineInv
<1>7. \A i \in Positions : Holds(w, i)' <=> Holds(w, i)
  BY <1>1, <1>3, PoppedFacts, ItemFacts
  DEF PipelineInv, Holds, End, SlotOf, Positions
<1>8. \A v \in Workers \ {w} : \A i \in Positions : Holds(v, i)' <=> Holds(v, i)
  BY <1>1, <1>3 DEF Holds, End, SlotOf
<1>9. SlotInv'
  BY <1>1, <1>4, <1>7, <1>8, SlotFrame DEF PipelineInv
<1> QED BY <1>4, <1>5, <1>6, <1>9 DEF Parts

LEMMA WorkerMovesPreserves ==
    ASSUME PipelineInv, NEW w \in Workers, WorkerExits(w) \/ ProcessRecord(w)
    PROVE  Parts'
<1>1. /\ UNCHANGED <<items_, closed_, capacity_, pushing, size, config, start,
                     mainAt, output, at, popped, offset, records>>
      /\ \/ /\ worker[w] = "popping" /\ at[w] = "out" /\ popped[w] = NoItem
            /\ worker' = [worker EXCEPT ![w] = "exited"]
         \/ /\ worker[w] = "process"
            /\ worker' = [worker EXCEPT ![w] = "store"]
  BY DEF WorkerExits, ProcessRecord, WorkerGoto, queueVars, calls
<1>2. /\ \A v \in Workers \ {w} : worker'[v] = worker[v]
      /\ worker'[w] \in {"exited", "store"}
  BY <1>1, AtFacts DEF PipelineInv
<1>3. MainInv' /\ FifoInv' /\ Taken' = Taken
  BY <1>1, <1>2, WorkerOnlyFrame
<1>4. WorkerInv'
  BY <1>1, <1>2, AtFacts DEF PipelineInv, WorkerInv, BatchOf
<1>5. HandInv'
  BY <1>1, <1>3, HandFrame DEF PipelineInv
<1>6. \A v \in Workers : \A i \in Positions : Holds(v, i)' <=> Holds(v, i)
  BY <1>1, <1>2, AtFacts DEF PipelineInv, Holds, End, SlotOf
<1>7. SlotInv'
  BY <1>1, <1>3, <1>6, SlotFrame DEF PipelineInv
<1> QED BY <1>3, <1>4, <1>5, <1>7 DEF Parts

LEMMA TakenType ==
    ASSUME PipelineInv
    PROVE  Taken \in Int
<1>1. Enqueued \in Int
  BY Arithmetic DEF PipelineInv, Enqueued, BatchCount
<1>2. items_ # <<>> => items_[1].output_start \in Int
  BY ElementOfSeq, ItemFacts, LenProperties, EmptySeq
  DEF PipelineInv, TypeOK, QueueTypeOK
<1> QED BY <1>1, <1>2 DEF Taken

\* The record a worker is about to store belongs to the slot it writes, and
\* that slot is one it still holds.
LEMMA StoreFacts ==
    ASSUME PipelineInv, NEW w \in Workers, worker[w] \in {"process", "store"}
    PROVE  /\ popped[w] # NoItem
           /\ SlotOf(w) \in Positions
           /\ SlotOf(w) < Taken
           /\ BatchOf(w)[offset[w] + 1] = SlotOf(w)
           /\ Holds(w, SlotOf(w))
           /\ records[SlotOf(w)] = Unset
<1>1. popped[w] # NoItem /\ offset[w] < Len(BatchOf(w))
  BY DEF PipelineInv, WorkerInv
<1>2. /\ popped[w] \in WorkItems
      /\ offset[w] \in Nat
      /\ popped[w].output_start \in Nat
      /\ Len(popped[w].encoded_records) \in Nat
  BY <1>1, PoppedFacts, ItemFacts DEF PipelineInv
<1>3. Whole(popped[w]) /\ End(popped[w]) <= Taken
  BY <1>1 DEF PipelineInv, HandInv
<1>4. BatchOf(w)[offset[w] + 1] = SlotOf(w)
  BY <1>1, <1>2, <1>3 DEF Whole, BatchOf, SlotOf
<1>5. /\ SlotOf(w) \in Nat /\ SlotOf(w) < End(popped[w])
      /\ SlotOf(w) >= popped[w].output_start
  BY <1>1, <1>2 DEF End, SlotOf, BatchOf
<1>6. Taken \in Int
  BY TakenType
<1>7. End(popped[w]) \in Nat /\ End(popped[w]) <= size /\ size \in Nat
  BY <1>2, <1>3, Arithmetic DEF Whole, End, PipelineInv
<1>8. SlotOf(w) \in Positions /\ SlotOf(w) < Taken
  BY <1>3, <1>5, <1>6, <1>7 DEF Positions
<1>9. Holds(w, SlotOf(w))
  BY <1>1, <1>5 DEF Holds
<1> QED BY <1>1, <1>4, <1>8, <1>9 DEF PipelineInv, SlotInv

LEMMA HoldersDiffer ==
    ASSUME PipelineInv, NEW v \in Workers, NEW w \in Workers, v # w,
           NEW i \in Positions, Holds(v, i)
    PROVE  ~Holds(w, i)
  BY PoppedFacts, ItemFacts, Arithmetic
  DEF PipelineInv, HandInv, Holds, Positions

LEMMA StoreRecordPreserves ==
    ASSUME PipelineInv, NEW w \in Workers, StoreRecord(w)
    PROVE  Parts'
<1>1. /\ UNCHANGED <<items_, closed_, capacity_, pushing, size, config, start,
                     mainAt, output, at, popped>>
      /\ worker[w] = "store"
      /\ worker' = [worker EXCEPT ![w] =
            IF offset[w] + 1 < Len(BatchOf(w)) THEN "process" ELSE "loop"]
      /\ offset' = [offset EXCEPT ![w] = offset[w] + 1]
      /\ records' = [records EXCEPT ![SlotOf(w)] =
                        ProcessOne(BatchOf(w)[offset[w] + 1])]
  BY DEF StoreRecord, WorkerGoto, queueVars, calls
<1>2. /\ popped[w] # NoItem /\ offset[w] < Len(BatchOf(w))
      /\ offset[w] \in Nat /\ Len(BatchOf(w)) \in Nat
      /\ popped[w].output_start \in Nat
  BY <1>1, PoppedFacts, ItemFacts DEF PipelineInv, WorkerInv, BatchOf
<1>3. /\ worker'[w] = IF offset[w] + 1 < Len(BatchOf(w)) THEN "process" ELSE "loop"
      /\ offset'[w] = offset[w] + 1
      /\ \A v \in Workers \ {w} :
           worker'[v] = worker[v] /\ offset'[v] = offset[v]
  BY <1>1, AtFacts DEF PipelineInv
<1>5. MainInv' /\ FifoInv' /\ Taken' = Taken
  BY <1>1, <1>3, WorkerOnlyFrame
<1>6. WorkerInv'
  BY <1>1, <1>2, <1>3 DEF PipelineInv, WorkerInv, BatchOf
<1>7. HandInv'
  BY <1>1, <1>5, HandFrame DEF PipelineInv
<1>8. records' = [records EXCEPT ![SlotOf(w)] = ProcessOne(SlotOf(w))]
  BY <1>1, StoreFacts
<1>9. \A i \in Positions : Holds(w, i)' <=> Holds(w, i) /\ i # SlotOf(w)
  BY <1>1, <1>2, <1>3 DEF Holds, End, SlotOf, BatchOf, Positions
<1>10. \A v \in Workers \ {w} : \A i \in Positions : Holds(v, i)' <=> Holds(v, i)
  BY <1>1, <1>3 DEF Holds, End, SlotOf
<1>11. /\ SlotOf(w) \in Positions /\ ~(SlotOf(w) >= Taken)
       /\ \A v \in Workers \ {w} : ~Holds(v, SlotOf(w))
       /\ ProcessOne(SlotOf(w)) # Unset
  <2>1. SlotOf(w) \in Positions /\ SlotOf(w) < Taken /\ Holds(w, SlotOf(w))
    BY <1>1, StoreFacts
  <2>2. ~(SlotOf(w) >= Taken)
    BY <2>1, TakenType DEF Positions
  <2>3. size \in Sizes
    BY DEF PipelineInv, TypeOK
  <2> QED
    BY <2>1, <2>2, <2>3, HoldersDiffer, PoolAssumption, PipelineAssumption
    DEF Positions
<1>12. SlotInv'
  <2>1. DOMAIN records = Positions /\ Positions' = Positions
    BY <1>1 DEF PipelineInv, TypeOK, Positions
  <2>2. ASSUME NEW i \in Positions
        PROVE  /\ records'[i] \in {Unset, ProcessOne(i)}
               /\ records'[i] = Unset <=>
                    i >= Taken \/ \E v \in Workers : Holds(v, i)'
    <3>1. CASE i = SlotOf(w)
      BY <3>1, <1>8, <1>9, <1>10, <1>11, <2>1
    <3>2. CASE i # SlotOf(w)
      <4>1. records'[i] = records[i]
        BY <3>2, <1>8, <2>1
      <4>2. \A v \in Workers : Holds(v, i)' <=> Holds(v, i)
        BY <3>2, <1>9, <1>10
      <4> QED BY <4>1, <4>2 DEF PipelineInv, SlotInv
    <3> QED BY <3>1, <3>2
  <2> QED BY <2>1, <2>2, <1>5 DEF SlotInv
<1> QED BY <1>5, <1>6, <1>7, <1>12 DEF Parts

-----------------------------------------------------------------------------
(* The steps inside the queue.                                             *)

\* Steps that only move a thread through its call.
LEMMA QuietFrame ==
    ASSUME PipelineInv,
           UNCHANGED <<items_, closed_, capacity_, pushing, popped,
                       pipelineVars>>,
           \A w \in Workers : at'[w] = "out" <=> at[w] = "out",
           \/ at'[Main] = at[Main]
           \/ at[Main] \in PushLabels /\ at'[Main] \in PushLabels
           \/ at[Main] = "close.notify_empty" /\ at'[Main] = "close.notify_full"
    PROVE  Parts'
<1>1. at'[Main] = "out" <=> at[Main] = "out"
  BY DEF PushLabels
<1>2. Enqueued' = Enqueued /\ UNCHANGED BuiltItem
  BY <1>1 DEF Enqueued, BuiltItem, BatchCount, pipelineVars
<1>3. FifoInv' /\ Taken' = Taken
  BY <1>2, FifoFrame DEF PipelineInv, pipelineVars, PushLabels
<1>4. HandInv' /\ SlotInv'
  BY <1>3, HandFrame, SlotFrame, HoldsFrame DEF PipelineInv, pipelineVars
<1>5. WorkerInv'
  BY DEF PipelineInv, WorkerInv, BatchOf, pipelineVars
<1>6. MainInv'
  BY DEF PipelineInv, MainInv, Spawned, AllExited, pipelineVars, PushLabels,
     CloseLabels
<1> QED BY <1>3, <1>4, <1>5, <1>6 DEF Parts

LEMMA QuietStepsPreserve ==
    ASSUME PipelineInv, UNCHANGED pipelineVars,
           \/ \E p \in Producers :
                \/ PushEnter(p) \/ PushPredicate(p) \/ PushBlock(p)
                \/ PushWake(p) \/ CloseNotifyEmpty(p)
           \/ \E c \in Consumers :
                PopEnter(c) \/ PopPredicate(c) \/ PopBlock(c) \/ PopWake(c)
           \/ \E t \in Threads : SpuriousWakeup(t)
           \/ UNCHANGED queueVars
    PROVE  Parts'
<1>1. ASSUME \/ PushEnter(Main) \/ PushPredicate(Main) \/ PushBlock(Main)
             \/ PushWake(Main) \/ CloseNotifyEmpty(Main)
      PROVE  Parts'
  <2>1. /\ UNCHANGED <<items_, closed_, capacity_, pushing, popped>>
        /\ \A w \in Workers : at'[w] = at[w]
        /\ \/ at[Main] \in PushLabels /\ at'[Main] \in PushLabels
           \/ at[Main] = "close.notify_empty" /\ at'[Main] = "close.notify_full"
    BY <1>1, AtFacts, ThreadFacts
    DEF PipelineInv, PushEnter, PushPredicate, PushBlock, PushWake,
        CloseNotifyEmpty, Goto, PushLabels, calls
  <2> QED BY <2>1, QuietFrame
<1>2. ASSUME NEW c \in Workers,
             PopEnter(c) \/ PopPredicate(c) \/ PopBlock(c) \/ PopWake(c)
      PROVE  Parts'
  <2>1. /\ UNCHANGED <<items_, closed_, capacity_, pushing, popped>>
        /\ \A w \in Workers : at'[w] = "out" <=> at[w] = "out"
        /\ at'[Main] = at[Main]
    BY <1>2, AtFacts, ThreadFacts
    DEF PipelineInv, PopEnter, PopPredicate, PopBlock, PopWake, Goto, calls
  <2> QED BY <2>1, QuietFrame
<1>3. ASSUME NEW t \in Threads, SpuriousWakeup(t)
      PROVE  Parts'
  BY <1>3, QuietFrame DEF SpuriousWakeup, calls
<1>4. CASE UNCHANGED queueVars
  BY <1>4, QuietFrame DEF queueVars, calls
<1> QED BY <1>1, <1>2, <1>3, <1>4, ThreadFacts

LEMMA PushAppendPreserves ==
    ASSUME PipelineInv, PushAppend(Main), UNCHANGED pipelineVars
    PROVE  Parts'
<1>1. /\ at[Main] = "push.commit"
      /\ items_' = Append(items_, pushing[Main])
      /\ at' = [at EXCEPT ![Main] = "out"]
      /\ UNCHANGED <<closed_, capacity_, popped, config, size, mainAt, worker,
                     offset, start, records, output>>
  BY DEF PushAppend, Goto, pipelineVars
<1>2. at'[Main] = "out" /\ \A w \in Workers : at'[w] = at[w]
  BY <1>1, AtFacts, ThreadFacts DEF PipelineInv
<1>3. mainAt = "push" /\ start < size /\ pushing[Main] = BuiltItem
  BY <1>1 DEF PipelineInv, MainInv, FifoInv, PushLabels, CloseLabels
<1>4. /\ BuiltItem \in WorkItems /\ Whole(BuiltItem)
      /\ BuiltItem.output_start = start
      /\ End(BuiltItem) = start + BatchCount
  BY <1>3, BuiltItemFacts DEF PipelineInv
<1>5. /\ items_ \in Seq(WorkItems) /\ Len(items_) \in Nat
      /\ Len(items_') = Len(items_) + 1 /\ items_' # <<>>
      /\ \A q \in 1 .. Len(items_) : items_'[q] = items_[q]
      /\ items_'[Len(items_) + 1] = BuiltItem
  BY <1>1, <1>3, <1>4, AppendProperties, LenProperties
  DEF PipelineInv, TypeOK, QueueTypeOK
<1>6. /\ Enqueued = start /\ Enqueued' = End(BuiltItem)
      /\ start \in Nat /\ size \in Nat
  BY <1>1, <1>2, <1>3, <1>4, Arithmetic
  DEF PipelineInv, Enqueued, BatchCount, End
<1>7. UNCHANGED size /\ \A item : Whole(item)' <=> Whole(item)
  BY <1>1 DEF Whole, End
<1>8. FifoInv'
  <2>1. at'[Main] \notin PushLabels
    BY <1>2 DEF PushLabels
  <2>2. \A q \in 1 .. Len(items_') : Whole(items_'[q])
    BY <1>4, <1>5 DEF PipelineInv, FifoInv
  <2>3. ASSUME NEW q \in 1 .. Len(items_') - 1
        PROVE  items_'[q + 1].output_start = End(items_'[q])
    <3>1. CASE q = Len(items_)
      <4>1. items_ # <<>> /\ End(items_[q]) = start
        BY <1>5, <1>6, <3>1, EmptySeq DEF PipelineInv, FifoInv
      <4> QED BY <1>4, <1>5, <3>1, <4>1
    <3>2. CASE q # Len(items_)
      BY <1>5, <3>2 DEF PipelineInv, FifoInv
    <3> QED BY <3>1, <3>2
  <2>4. End(items_'[Len(items_')]) = Enqueued'
    BY <1>5, <1>6
  <2> QED BY <2>1, <2>2, <2>3, <2>4, <1>7 DEF FifoInv, End
<1>9. Taken' = Taken
  <2>1. CASE items_ = <<>>
    <3>1. Len(items_) = 0
      BY <2>1
    <3> QED BY <2>1, <3>1, <1>4, <1>5, <1>6 DEF Taken
  <2>2. CASE items_ # <<>>
    BY <2>2, <1>5, EmptySeq DEF Taken
  <2> QED BY <2>1, <2>2
<1>10. HandInv' /\ SlotInv'
  BY <1>1, <1>9, HandFrame, SlotFrame, HoldsFrame DEF PipelineInv
<1>11. WorkerInv'
  <2>1. ~closed_
    BY <1>1, <1>3 DEF PipelineInv, MainInv
  <2> QED BY <1>1, <1>2, <2>1 DEF PipelineInv, WorkerInv, BatchOf
<1>12. MainInv'
  BY <1>1, <1>2, <1>3 DEF PipelineInv, MainInv, Spawned, AllExited
<1> QED BY <1>8, <1>10, <1>11, <1>12 DEF Parts

\* The only producer does not push on a queue it has closed.
LEMMA NothingDropped ==
    ASSUME PipelineInv
    PROVE  ~PushDrop(Main)
  BY DEF PipelineInv, MainInv, PushDrop, CloseLabels

LEMMA CloseStepsPreserve ==
    ASSUME PipelineInv, CloseSet(Main) \/ CloseNotifyFull(Main),
           UNCHANGED pipelineVars
    PROVE  Parts'
<1>1. /\ UNCHANGED <<items_, capacity_, pushing, popped, config, size, mainAt,
                     worker, offset, start, records, output>>
      /\ at[Main] \in CloseLabels
      /\ \/ /\ at[Main] = "close.lock" /\ closed_' = TRUE
            /\ at' = [at EXCEPT ![Main] = "close.notify_empty"]
         \/ /\ at[Main] = "close.notify_full" /\ UNCHANGED closed_
            /\ at' = [at EXCEPT ![Main] = "out"]
  BY DEF CloseSet, CloseNotifyFull, Goto, pipelineVars, calls, CloseLabels
<1>2. /\ at'[Main] \in {"close.notify_empty", "out"}
      /\ at'[Main] = "out" => at[Main] = "close.notify_full"
      /\ \A w \in Workers : at'[w] = at[w]
  <2>1. DOMAIN at = Threads
    BY AtFacts DEF PipelineInv
  <2>2. CASE at' = [at EXCEPT ![Main] = "close.notify_empty"]
    BY <2>1, <2>2, ThreadFacts
  <2>3. CASE /\ at[Main] = "close.notify_full"
             /\ at' = [at EXCEPT ![Main] = "out"]
    BY <2>1, <2>3, ThreadFacts
  <2> QED BY <1>1, <2>2, <2>3
<1>3. mainAt = "close" /\ closed_'
  BY <1>1 DEF PipelineInv, MainInv, CloseLabels, PushLabels
<1>4. Enqueued' = Enqueued /\ at'[Main] \notin PushLabels
  BY <1>1, <1>2, <1>3 DEF Enqueued, BatchCount, PushLabels
<1>5. FifoInv' /\ Taken' = Taken
  BY <1>1, <1>4, FifoFrame DEF PipelineInv
<1>6. HandInv' /\ SlotInv'
  BY <1>1, <1>5, HandFrame, SlotFrame, HoldsFrame DEF PipelineInv
<1>7. WorkerInv'
  BY <1>1, <1>2, <1>3 DEF PipelineInv, WorkerInv, BatchOf
<1>8. MainInv'
  BY <1>1, <1>2, <1>3 DEF PipelineInv, MainInv, Spawned, AllExited, CloseLabels
<1> QED BY <1>5, <1>6, <1>7, <1>8 DEF Parts

LEMMA PopNullPreserves ==
    ASSUME PipelineInv, NEW w \in Workers, PopNull(w), UNCHANGED pipelineVars
    PROVE  Parts'
<1>1. /\ UNCHANGED <<items_, closed_, capacity_, pushing, config, size, mainAt,
                     worker, offset, start, records, output>>
      /\ at[w] = "pop.commit" /\ items_ = <<>>
      /\ at' = [at EXCEPT ![w] = "out"]
      /\ popped' = [popped EXCEPT ![w] = NoItem]
  BY DEF PopNull, Goto, pipelineVars
<1>2. closed_ /\ popped[w] = NoItem /\ worker[w] = "popping"
  BY <1>1, ThreadFacts
  DEF PipelineInv, WorkerInv, QueueInv, PredicatesStand, MayPop
<1>3. /\ UNCHANGED popped
      /\ at'[Main] = at[Main] /\ at'[w] = "out"
      /\ \A v \in Workers \ {w} : at'[v] = at[v]
  <2>1. popped \in [Consumers -> WorkItems \cup {NoItem}]
    BY DEF PipelineInv, TypeOK, QueueTypeOK
  <2>2. UNCHANGED popped
    BY <1>1, <1>2, <2>1
  <2> QED BY <1>1, <2>2, AtFacts, ThreadFacts DEF PipelineInv
<1>4. Enqueued' = Enqueued /\ UNCHANGED BuiltItem
  BY <1>1, <1>3 DEF Enqueued, BuiltItem, BatchCount
<1>5. FifoInv' /\ Taken' = Taken
  BY <1>1, <1>3, <1>4, FifoFrame DEF PipelineInv
<1>6. HandInv' /\ SlotInv'
  BY <1>1, <1>3, <1>5, HandFrame, SlotFrame, HoldsFrame DEF PipelineInv
<1>7. WorkerInv'
  BY <1>1, <1>2, <1>3 DEF PipelineInv, WorkerInv, BatchOf
<1>8. MainInv'
  BY <1>1, <1>3, MainFrame DEF PipelineInv
<1> QED BY <1>5, <1>6, <1>7, <1>8 DEF Parts

LEMMA PopTakePreserves ==
    ASSUME PipelineInv, NEW w \in Workers, PopTake(w), UNCHANGED pipelineVars
    PROVE  Parts'
<1> DEFINE item == items_[1]
<1>1. /\ UNCHANGED <<closed_, capacity_, pushing, config, size, mainAt,
                     worker, offset, start, records, output>>
      /\ at[w] = "pop.commit" /\ items_ # <<>>
      /\ at' = [at EXCEPT ![w] = "out"]
      /\ popped' = [popped EXCEPT ![w] = item]
      /\ items_' = Tail(items_)
  BY DEF PopTake, Goto, pipelineVars
<1>2. popped[w] = NoItem /\ worker[w] = "popping"
  BY <1>1 DEF PipelineInv, WorkerInv
<1>3. /\ at'[Main] = at[Main] /\ at'[w] = "out" /\ popped'[w] = item
      /\ \A v \in Workers \ {w} : at'[v] = at[v] /\ popped'[v] = popped[v]
  BY <1>1, AtFacts, ThreadFacts DEF PipelineInv
<1>4. /\ items_ \in Seq(WorkItems) /\ Len(items_) \in Nat /\ Len(items_) > 0
      /\ Len(items_') = Len(items_) - 1
      /\ \A q \in 1 .. Len(items_') : items_'[q] = items_[q + 1]
      /\ items_' = <<>> <=> Len(items_) = 1
  <2>1. items_ \in Seq(WorkItems)
    BY DEF PipelineInv, TypeOK, QueueTypeOK
  <2>2. items_' \in Seq(WorkItems)
    BY <1>1, <2>1, HeadTailProperties
  <2>3. /\ Len(items_) \in Nat /\ Len(items_) > 0
        /\ Len(items_') = Len(items_) - 1
        /\ \A q \in 1 .. Len(items_') : items_'[q] = items_[q + 1]
    BY <1>1, <2>1, HeadTailProperties, LenProperties, EmptySeq
  <2>4. items_' = <<>> <=> Len(items_') = 0
    BY <2>2, EmptySeq
  <2> QED BY <2>1, <2>3, <2>4
<1>5. /\ item \in WorkItems /\ Whole(item) /\ item # NoItem
      /\ item.output_start \in Nat /\ End(item) \in Nat
      /\ End(item) <= size /\ item.output_start < End(item)
  <2>1. item \in WorkItems
    BY <1>4, ElementOfSeq
  <2>2. Whole(item)
    BY <1>4 DEF PipelineInv, FifoInv
  <2> QED BY <2>1, <2>2, ItemFacts DEF Whole, End
<1> HIDE DEF item
<1>6. Enqueued' = Enqueued /\ UNCHANGED BuiltItem
  BY <1>1, <1>3 DEF Enqueued, BuiltItem, BatchCount
<1>7. Taken = item.output_start /\ Taken' = End(item)
  <2>1. CASE Len(items_) = 1
    BY <1>1, <1>4, <1>6, <2>1 DEF Taken, PipelineInv, FifoInv, item
  <2>2. CASE Len(items_) # 1
    <3>1. items_'[1] = items_[2]
      BY <1>4, <2>2
    <3> QED BY <1>1, <1>4, <2>2, <3>1 DEF Taken, PipelineInv, FifoInv, item
  <2> QED BY <2>1, <2>2
<1>8. \A x : Whole(x)' <=> Whole(x)
  BY <1>1 DEF Whole, End
<1>9. FifoInv'
  <2>1. at'[Main] \in PushLabels => pushing'[Main] = BuiltItem'
    BY <1>1, <1>3, <1>6 DEF PipelineInv, FifoInv
  <2>2. \A q \in 1 .. Len(items_') : Whole(items_'[q])
    BY <1>4 DEF PipelineInv, FifoInv
  <2>3. \A q \in 1 .. Len(items_') - 1 :
          items_'[q + 1].output_start = End(items_'[q])
    BY <1>4 DEF PipelineInv, FifoInv
  <2>4. items_' # <<>> => End(items_'[Len(items_')]) = Enqueued'
    BY <1>1, <1>4, <1>6 DEF PipelineInv, FifoInv
  <2> QED BY <2>1, <2>2, <2>3, <2>4, <1>8 DEF FifoInv, End
<1>10. \A v \in Workers \ {w} : popped[v] # NoItem =>
          /\ Whole(popped[v]) /\ End(popped[v]) \in Nat
          /\ End(popped[v]) <= item.output_start
  BY <1>7, PoppedFacts, ItemFacts DEF PipelineInv, HandInv
<1>11. HandInv'
  <2>1. \A v \in Workers : popped'[v] # NoItem =>
          Whole(popped'[v]) /\ End(popped'[v]) <= Taken'
    BY <1>3, <1>5, <1>7, <1>10
  <2>2. \A u, v \in Workers :
          u # v /\ popped'[u] # NoItem /\ popped'[v] # NoItem =>
              \/ End(popped'[u]) <= popped'[v].output_start
              \/ End(popped'[v]) <= popped'[u].output_start
    BY <1>3, <1>10 DEF PipelineInv, HandInv
  <2> QED BY <2>1, <2>2, <1>8 DEF HandInv, End
<1>12. SlotInv'
  <2>1. \A i \in Positions : ~Holds(w, i)
    BY <1>2 DEF Holds
  <2>2. \A i \in Positions : Holds(w, i)' <=> i < End(item) /\ i >= item.output_start
    BY <1>1, <1>2, <1>3, <1>5 DEF Holds, End
  <2>3. \A v \in Workers \ {w} : \A i \in Positions : Holds(v, i)' <=> Holds(v, i)
    BY <1>1, <1>3 DEF Holds, End, SlotOf
  <2>4. \A i \in Positions :
          i >= Taken <=> i >= Taken' \/ (i < End(item) /\ i >= item.output_start)
    BY <1>5, <1>7 DEF Positions
  <2>5. ASSUME NEW i \in Positions
        PROVE  (i >= Taken \/ \E v \in Workers : Holds(v, i))
                 <=> (i >= Taken' \/ \E v \in Workers : Holds(v, i)')
    BY <2>1, <2>2, <2>3, <2>4
  <2> QED BY <1>1, <2>5 DEF PipelineInv, SlotInv, Positions
<1>13. WorkerInv'
  <2>1. \A v \in Workers \ {w} :
          ~(\/ worker[v] = "exited"
            \/ worker[v] = "popping" /\ at[v] = "out" /\ popped[v] = NoItem)
    BY <1>1 DEF PipelineInv, WorkerInv
  <2> QED BY <1>1, <1>2, <1>3, <1>5, <2>1 DEF PipelineInv, WorkerInv, BatchOf
<1>14. MainInv'
  BY <1>1, <1>3, MainFrame DEF PipelineInv
<1> QED BY <1>9, <1>11, <1>12, <1>13, <1>14 DEF Parts

-----------------------------------------------------------------------------
(* The invariant.                                                          *)

LEMMA PipelineInvNext == PipelineInv /\ [Next]_vars => PipelineInv'
<1> SUFFICES ASSUME PipelineInv, [Next]_vars PROVE PipelineInv'
  OBVIOUS
<1>1. TypeOK' /\ QueueInv'
  BY TypeNext, NextIsQueueNext, QueueInvNext DEF PipelineInv, TypeOK
<1>2. ASSUME UNCHANGED vars
      PROVE  Parts'
  BY <1>2, QuietStepsPreserve DEF vars
<1>3. ASSUME MainStep \/ Throw
      PROVE  Parts'
  BY <1>3, SpawnPreserves, MainControlPreserves, PushBatchPreserves,
     NextBatchPreserves, CloseQueuePreserves DEF MainStep, PoolStep
<1>4. ASSUME NEW w \in Workers, WorkerStep(w)
      PROVE  Parts'
  BY <1>4, WorkerPopPreserves, WorkerGetsItemPreserves, WorkerMovesPreserves,
     StoreRecordPreserves DEF WorkerStep
<1>5. ASSUME InQueue
      PROVE  Parts'
  <2>1. UNCHANGED pipelineVars
    BY <1>5 DEF InQueue
  <2>2. ASSUME PushStep(Main) \/ CloseStep(Main)
        PROVE  Parts'
    BY <2>1, <2>2, QuietStepsPreserve, PushAppendPreserves, NothingDropped,
       CloseStepsPreserve, ThreadFacts DEF PushStep, CloseStep
  <2>3. ASSUME NEW w \in Workers, PopStep(w)
        PROVE  Parts'
    BY <2>1, <2>3, QuietStepsPreserve, PopNullPreserves, PopTakePreserves,
       ThreadFacts DEF PopStep
  <2>4. ASSUME NEW t \in Threads, SpuriousWakeup(t)
        PROVE  Parts'
    BY <2>1, <2>4, QuietStepsPreserve
  <2> QED BY <1>5, <2>2, <2>3, <2>4, ThreadFacts DEF InQueue, QueueStep
<1>6. Parts'
  BY <1>2, <1>3, <1>4, <1>5 DEF Next, Finished
<1> QED BY <1>1, <1>6 DEF PipelineInv, Parts

\* The inductive invariant holds in every behaviour.
THEOREM PipelineInvariant == SafeSpec => []PipelineInv
  BY PipelineInvInit, PipelineInvNext, PTL DEF SafeSpec

-----------------------------------------------------------------------------
(* What follows from it.                                                   *)

\* Types.
THEOREM PipelineTypes == SafeSpec => []TypeOK
  BY PipelineInvariant, PTL DEF PipelineInv

\* The queue keeps its promises in its use by the pipeline.
THEOREM PipelineQueue ==
    SafeSpec => [](/\ MutexGuardsTheQueue
                   /\ PredicatesStand
                   /\ WithinCapacity
                   /\ BackpressureMeansFull
                   /\ CloseWakesSleepers)
  BY PipelineInvariant, PTL DEF PipelineInv, QueueInv

\* A written slot holds the canonical record of its own position.
THEOREM SlotsCorrect == SafeSpec => []SlotsAreRight
<1>1. PipelineInv => SlotsAreRight
  BY DEF PipelineInv, SlotInv, SlotsAreRight
<1> QED BY <1>1, PipelineInvariant, PTL

\* Two workers never write the same slot at the same time: there is no data
\* race on the vector of results.
THEOREM NoRace == SafeSpec => []NoSlotRace
<1>1. PipelineInv => NoSlotRace
  BY StoreFacts, HoldersDiffer DEF NoSlotRace
<1> QED BY <1>1, PipelineInvariant, PTL

\* A worker leaves only when the queue is closed and drained.
THEOREM ExitsDrained == SafeSpec => []ExitsWhenDrained
<1>1. PipelineInv => ExitsWhenDrained
  BY DEF PipelineInv, WorkerInv, ExitsWhenDrained
<1> QED BY <1>1, PipelineInvariant, PTL

\* The queue and the vectors outlive every thread that uses them, also when
\* an exception ends the call.
THEOREM LocalsOutlive == SafeSpec => []LocalsOutliveWorkers
<1>1. PipelineInv => LocalsOutliveWorkers
  <2> SUFFICES ASSUME PipelineInv, mainAt \in {"returned", "thrown"}
               PROVE  /\ AllExited
                      /\ mutex_ = NoOne
                      /\ not_empty_ = {} /\ not_full_ = {}
                      /\ at[Main] = "out"
    BY DEF LocalsOutliveWorkers
  <2>1. AllExited /\ at[Main] = "out"
    BY DEF PipelineInv, MainInv
  <2>2. \A w \in Workers : at[w] = "out"
    BY <2>1 DEF PipelineInv, WorkerInv, AllExited, Spawned
  <2>3. \A t \in Threads : at[t] = "out"
    BY <2>1, <2>2, ThreadFacts
  <2>4. mutex_ = NoOne
    BY <2>3 DEF PipelineInv, TypeOK, QueueTypeOK, QueueInv,
       MutexGuardsTheQueue, HoldingLabels
  <2>5. not_empty_ = {} /\ not_full_ = {}
    BY <2>3, ThreadFacts DEF PipelineInv, TypeOK, QueueTypeOK
  <2> QED BY <2>1, <2>4, <2>5
<1> QED BY <1>1, PipelineInvariant, PTL

\* When all workers have left after a close, no slot is unset.
LEMMA AllFilled ==
    ASSUME PipelineInv, AllExited, mainAt \in {"join", "returned"}
    PROVE  \A i \in Positions : records[i] = ProcessOne(i) /\ records[i] # Unset
<1>1. PICK w \in Workers : worker[w] = "exited"
  BY DEF PipelineInv, MainInv, AllExited, Spawned
<1>2. items_ = <<>> /\ start >= size
  BY <1>1 DEF PipelineInv, WorkerInv, MainInv
<1>3. Taken = size
  BY <1>2 DEF Taken, Enqueued
<1>4. \A v \in Workers : popped[v] = NoItem
  BY DEF PipelineInv, WorkerInv, AllExited, Spawned
<1> QED
  BY <1>3, <1>4, Arithmetic DEF PipelineInv, SlotInv, Holds, Positions

\* The result is the sequential one, for every input size, configuration
\* and number of workers, and in every interleaving.
THEOREM ReturnsOracle == SafeSpec => []ReturnsSequentialResult
<1>1. PipelineInv => ReturnsSequentialResult
  <2> SUFFICES ASSUME PipelineInv, mainAt = "returned"
               PROVE  /\ output.records = [i \in Positions |-> ProcessOne(i)]
                      /\ output.max_occupancy <= config.queue_capacity
    BY DEF ReturnsSequentialResult
  <2>1. /\ AllExited /\ output.records = records
        /\ output.max_occupancy <= config.queue_capacity
    BY DEF PipelineInv, MainInv
  <2>2. \A i \in Positions : records[i] = ProcessOne(i)
    BY <2>1, AllFilled
  <2>3. records = [i \in Positions |-> ProcessOne(i)]
    BY <2>2 DEF PipelineInv, TypeOK
  <2> QED BY <2>1, <2>3
<1> QED BY <1>1, PipelineInvariant, PTL

\* The producer's counter never wraps round, for any batch size.
THEOREM StartNeverWraps == SafeSpec => StartAscends
<1>1. PipelineInv /\ [Next]_vars => [start' > start]_start
  <2> SUFFICES ASSUME PipelineInv, [Next]_vars, start' # start
               PROVE  start' > start
    OBVIOUS
  <2>1. NextBatch
    BY DEF Next, vars, pipelineVars, InQueue, MainStep, PoolStep, WorkerStep,
         SpawnWorker, AllSpawned, PushBatch, PushItem, CloseQueue,
         ClearWorkers, Return, Joined, Throw, Rethrow, WorkerPop,
         WorkerGetsItem, WorkerExits, ProcessRecord, StoreRecord, Finished
  <2> QED BY <2>1, StartSteps, Arithmetic DEF PipelineInv
<1> QED
  BY <1>1, PipelineInvariant, PTL DEF SafeSpec, StartAscends

\* An exception that strikes after the first worker was started never
\* reaches the caller.
THEOREM ThrowStrands == SafeSpec => []RethrowsOnlyBeforeSpawn
<1>1. PipelineInv => RethrowsOnlyBeforeSpawn
  BY DEF PipelineInv, MainInv, WorkerInv, AllExited, Spawned,
     RethrowsOnlyBeforeSpawn
<1> QED BY <1>1, PipelineInvariant, PTL

-----------------------------------------------------------------------------
(* A push in progress has an argument, and only that.                      *)

PushingInv == pushing[Main] # NoItem => at[Main] \in PushLabels

LEMMA PushingNext ==
    ASSUME TypeOK, PushingInv, [Next]_vars
    PROVE  PushingInv'
<1>1. CASE UNCHANGED <<at, pushing>>
  BY <1>1 DEF PushingInv
<1>2. CASE PushBatch
  BY <1>2, AtFacts, ThreadFacts
  DEF PushBatch, PushItem, PushCall, Goto, PushLabels, PushingInv
<1>3. CASE CloseQueue
  BY <1>3, AtFacts, ThreadFacts
  DEF CloseQueue, CloseCall, Goto, PushLabels, PushingInv, calls
<1>4. ASSUME NEW w \in Workers, Goto(w, at'[w]), UNCHANGED pushing
      PROVE  PushingInv'
  BY <1>4, AtFacts, ThreadFacts DEF Goto, PushingInv
<1>5. ASSUME NEW w \in Workers, WorkerPop(w) \/ PopStep(w)
      PROVE  PushingInv'
  <2>1. \E label : Goto(w, label) /\ UNCHANGED pushing
    BY <1>5 DEF WorkerPop, PopCall, PopStep, PopEnter, PopPredicate, PopBlock,
       PopWake, PopNull, PopTake, calls
  <2> QED BY <1>4, <2>1, AtFacts, ThreadFacts DEF Goto
<1>6. CASE PushStep(Main)
  BY <1>6, AtFacts, ThreadFacts
  DEF PushStep, PushEnter, PushPredicate, PushBlock, PushWake, PushDrop,
      PushAppend, Goto, PushLabels, PushingInv, calls
<1>7. CASE CloseStep(Main)
  BY <1>7, AtFacts, ThreadFacts
  DEF CloseStep, CloseSet, CloseNotifyEmpty, CloseNotifyFull, Goto,
      PushLabels, PushingInv, calls
<1>8. ASSUME NEW t \in Threads, SpuriousWakeup(t)
      PROVE  PushingInv'
  BY <1>1, <1>8 DEF SpuriousWakeup, calls
<1>9. CASE InQueue
  BY <1>5, <1>6, <1>7, <1>8, <1>9, ThreadFacts DEF InQueue, QueueStep
<1> QED
  BY <1>1, <1>2, <1>3, <1>5, <1>9
  DEF Next, vars, queueVars, calls, MainStep, PoolStep, WorkerStep, SpawnWorker,
      AllSpawned, NextBatch, ClearWorkers, Return, Throw, Rethrow,
      WorkerGetsItem, WorkerExits, ProcessRecord, StoreRecord, Finished

LEMMA PushingInvariant == SafeSpec => []PushingInv
<1>1. Init => PushingInv
  BY ThreadFacts DEF Init, PoolInit, QueueInit, PushingInv
<1> QED BY <1>1, PushingNext, PipelineTypes, PTL DEF SafeSpec

-----------------------------------------------------------------------------
(* The positions fall into four stretches.  From Frontier on they are      *)
(* still in the input, from Enqueued on in the batch being pushed, from    *)
(* Taken on in the queue, and before that with the one worker that holds   *)
(* them, or done.                                                          *)

LEMMA QueueFacts ==
    ASSUME PipelineInv, NEW q \in 1 .. Len(items_)
    PROVE  /\ items_[q] \in WorkItems /\ Whole(items_[q])
           /\ items_[q].output_start \in Nat /\ End(items_[q]) \in Nat
           /\ End(items_[q]) > items_[q].output_start
           /\ Len(items_[q].encoded_records) \in Nat
           /\ Len(items_) \in Nat
<1>1. items_ \in Seq(WorkItems)
  BY DEF PipelineInv, TypeOK, QueueTypeOK
<1>2. items_[q] \in WorkItems /\ Len(items_) \in Nat
  BY <1>1
<1>3. Whole(items_[q])
  BY DEF PipelineInv, FifoInv
<1> QED BY <1>2, <1>3, ItemFacts DEF Whole, End

\* The queue's batches lie one behind the other, without a gap.
LEMMA RunFacts ==
    ASSUME PipelineInv
    PROVE  /\ \A q, r \in 1 .. Len(items_) :
                q < r => End(items_[q]) <= items_[r].output_start
           /\ \A i \in Nat : Taken <= i /\ i < Enqueued =>
                \E q \in 1 .. Len(items_) :
                   items_[q].output_start <= i /\ i < End(items_[q])
           /\ \A q \in 1 .. Len(items_) :
                Taken <= items_[q].output_start /\ End(items_[q]) <= Enqueued
           /\ Taken \in Nat /\ Enqueued \in Nat /\ Taken <= Enqueued
<1>1. /\ Len(items_) \in Nat
      /\ items_ # <<>> => Len(items_) > 0
      /\ items_ = <<>> => Len(items_) = 0
      /\ Enqueued \in Nat
  BY Arithmetic, BuiltItemFacts DEF PipelineInv, TypeOK, QueueTypeOK, Enqueued
<1>2. ASSUME NEW q \in 1 .. Len(items_) - 1
      PROVE  items_[q + 1].output_start = End(items_[q])
  BY <1>2 DEF PipelineInv, FifoInv
<1>3. ASSUME NEW q \in 1 .. Len(items_), NEW r \in 1 .. Len(items_), q < r
      PROVE  End(items_[q]) <= items_[r].output_start
  <2> DEFINE T == {x \in 1 .. Len(items_) :
                     q < x /\ ~ (End(items_[q]) <= items_[x].output_start)}
  <2>1. CASE T = {}
    BY <1>3, <2>1
  <2>2. CASE T # {}
    <3>1. PICK m \in T : \A k \in T : m <= k
      <4>1. T \subseteq Nat
        OBVIOUS
      <4> HIDE DEF T
      <4> QED BY <2>2, <4>1, LeastNatural
    <3>2. m - 1 \in 1 .. Len(items_) - 1 /\ m - 1 \notin T /\ m - 1 + 1 = m
      BY <1>1, <3>1
    <3>3. items_[m].output_start = End(items_[m - 1])
      BY <1>2, <3>2
    <3>4. q = m - 1 \/ End(items_[q]) <= items_[m - 1].output_start
      BY <1>1, <3>1, <3>2
    <3>5. /\ items_[m - 1].output_start \in Nat /\ End(items_[m - 1]) \in Nat
          /\ End(items_[m - 1]) > items_[m - 1].output_start
          /\ End(items_[q]) \in Nat
      BY <1>1, <3>2, QueueFacts
    <3> QED BY <3>1, <3>3, <3>4, <3>5
  <2> QED BY <2>1, <2>2
<1>4. ASSUME NEW q \in 1 .. Len(items_)
      PROVE  Taken <= items_[q].output_start /\ End(items_[q]) <= Enqueued
  <2>1. Taken = items_[1].output_start /\ Enqueued = End(items_[Len(items_)])
    BY <1>1 DEF Taken, PipelineInv, FifoInv
  <2>2. \A r \in 1 .. Len(items_) :
          /\ items_[r].output_start \in Nat /\ End(items_[r]) \in Nat
          /\ End(items_[r]) > items_[r].output_start
    BY QueueFacts
  <2>3. q = 1 \/ End(items_[1]) <= items_[q].output_start
    BY <1>1, <1>3
  <2>4. q = Len(items_) \/ End(items_[q]) <= items_[Len(items_)].output_start
    BY <1>1, <1>3
  <2>5. 1 \in 1 .. Len(items_) /\ Len(items_) \in 1 .. Len(items_)
    BY <1>1
  <2> QED BY <2>1, <2>2, <2>3, <2>4, <2>5
<1>5. ASSUME NEW i \in Nat, Taken <= i, i < Enqueued
      PROVE  \E q \in 1 .. Len(items_) :
               items_[q].output_start <= i /\ i < End(items_[q])
  <2> DEFINE T == {x \in 1 .. Len(items_) : i < End(items_[x])}
  <2>1. items_ # <<>> /\ Taken = items_[1].output_start
    BY <1>1, <1>5 DEF Taken
  <2>2. Len(items_) \in T
    BY <1>1, <1>5, <2>1 DEF PipelineInv, FifoInv
  <2>3. PICK m \in T : \A k \in T : m <= k
    <3>1. T \subseteq Nat
      OBVIOUS
    <3> HIDE DEF T
    <3> QED BY <2>2, <3>1, LeastNatural
  <2>4. CASE m = 1
    BY <1>5, <2>1, <2>3, <2>4
  <2>5. CASE m # 1
    <3>1. m - 1 \in 1 .. Len(items_) - 1 /\ m - 1 \notin T /\ m - 1 + 1 = m
      BY <1>1, <2>3, <2>5
    <3>2. items_[m].output_start = End(items_[m - 1])
      BY <1>2, <3>1
    <3>3. ~ (i < End(items_[m - 1])) /\ End(items_[m - 1]) \in Nat
      BY <1>1, <3>1, QueueFacts
    <3> QED BY <1>5, <2>3, <3>2, <3>3
  <2> QED BY <2>4, <2>5
<1>6. Taken \in Nat /\ Taken <= Enqueued
  <2>1. CASE items_ = <<>>
    BY <1>1, <2>1 DEF Taken
  <2>2. CASE items_ # <<>>
    <3>1. 1 \in 1 .. Len(items_)
      BY <1>1, <2>2
    <3>2. /\ Taken = items_[1].output_start /\ items_[1].output_start \in Nat
          /\ End(items_[1]) > items_[1].output_start /\ End(items_[1]) \in Nat
          /\ End(items_[1]) <= Enqueued
      BY <1>4, <2>2, <3>1, QueueFacts DEF Taken
    <3> QED BY <1>1, <3>2
  <2> QED BY <2>1, <2>2
<1> QED BY <1>1, <1>3, <1>4, <1>5, <1>6

\* The record at a position of a whole batch is the position's own.
LEMMA WholeFacts ==
    ASSUME NEW item \in WorkItems, Whole(item), NEW i \in Nat
    PROVE  \A k \in 1 .. Len(item.encoded_records) :
             item.encoded_records[k] = i <=> k = i - item.output_start + 1
  BY ItemFacts DEF Whole

-----------------------------------------------------------------------------
(* Who is where.                                                           *)

InInput(i) == i >= Frontier
InPushing(i, k) ==
    /\ pushing[Main] # NoItem
    /\ k \in 1 .. Len(pushing[Main].encoded_records)
    /\ pushing[Main].encoded_records[k] = i
InQueued(i, q, k) ==
    /\ q \in 1 .. Len(items_)
    /\ k \in 1 .. Len(items_[q].encoded_records)
    /\ items_[q].encoded_records[k] = i
InHeld(i, w, k) ==
    /\ popped[w] # NoItem
    /\ k \in 1 .. Len(BatchOf(w))
    /\ worker[w] # "popping" => k >= offset[w] + 1
    /\ BatchOf(w)[k] = i
InDone(i) == records[i] # Unset

LEMMA PlacesMembers ==
    ASSUME PipelineInv, NEW i \in Positions, NEW x
    PROVE  x \in Places(i) <=>
             \/ x = <<"input">> /\ InInput(i)
             \/ \E k \in Nat : x = <<"pushing", k>> /\ InPushing(i, k)
             \/ \E q, k \in Nat : x = <<"queued", q, k>> /\ InQueued(i, q, k)
             \/ \E w \in Workers, k \in Nat :
                  x = <<"held", <<w, k>>>> /\ InHeld(i, w, k)
             \/ x = <<"done">> /\ InDone(i)
<1> DEFINE P1 == {<<"input">> : n \in {n \in {i} : n >= Frontier}}
           P2 == {<<"pushing", k>> : k \in
                    {k \in 1 .. (IF pushing[Main] = NoItem THEN 0
                                 ELSE Len(pushing[Main].encoded_records)) :
                        pushing[Main].encoded_records[k] = i}}
           P3 == UNION {{<<"queued", q, k>> : k \in
                    {k \in 1 .. Len(items_[q].encoded_records) :
                        items_[q].encoded_records[k] = i}} : q \in 1 .. Len(items_)}
           P4 == UNION {{<<"held", h>> : h \in
                    {h \in Held(w) : BatchOf(w)[h[2]] = i}} : w \in Workers}
           P5 == {<<"done">> : r \in {r \in {records[i]} : r # Unset}}
<1>1. x \in Places(i) <=> \/ x \in P1 \/ x \in P2 \/ x \in P3 \/ x \in P4 \/ x \in P5
  BY DEF Places
<1>2. x \in P1 <=> x = <<"input">> /\ InInput(i)
  BY DEF InInput
<1>3. x \in P2 <=> \E k \in Nat : x = <<"pushing", k>> /\ InPushing(i, k)
  <2>1. CASE pushing[Main] = NoItem
    BY <2>1 DEF InPushing
  <2>2. CASE pushing[Main] # NoItem
    <3>1. 1 .. Len(pushing[Main].encoded_records) \subseteq Nat
      OBVIOUS
    <3> QED BY <2>2, <3>1 DEF InPushing
  <2> QED BY <2>1, <2>2
<1>4. x \in P3 <=> \E q, k \in Nat : x = <<"queued", q, k>> /\ InQueued(i, q, k)
  BY DEF InQueued
<1>5. x \in P4 <=> \E w \in Workers, k \in Nat :
                     x = <<"held", <<w, k>>>> /\ InHeld(i, w, k)
  <2>1. ASSUME NEW w \in Workers, NEW h
        PROVE  h \in Held(w) /\ BatchOf(w)[h[2]] = i <=>
                 \E k \in Nat : h = <<w, k>> /\ InHeld(i, w, k)
    <3>1. CASE popped[w] = NoItem
      BY <3>1 DEF Held, InHeld
    <3>2. CASE popped[w] # NoItem
      <4>1. Len(BatchOf(w)) \in Nat /\ offset[w] \in Nat
        BY <3>2, PoppedFacts, ItemFacts DEF PipelineInv, BatchOf
      <4>2. Held(w) = {<<w, k>> : k \in IF worker[w] = "popping"
                             THEN 1 .. Len(BatchOf(w))
                             ELSE offset[w] + 1 .. Len(BatchOf(w))}
        BY <3>2 DEF Held
      <4>3. CASE worker[w] = "popping"
        BY <3>2, <4>1, <4>2, <4>3 DEF InHeld
      <4>4. CASE worker[w] # "popping"
        BY <3>2, <4>1, <4>2, <4>4 DEF InHeld
      <4> QED BY <4>3, <4>4
    <3> QED BY <3>1, <3>2
  <2>2. x \in P4 <=> \E w \in Workers : \E h :
                       x = <<"held", h>> /\ h \in Held(w) /\ BatchOf(w)[h[2]] = i
    OBVIOUS
  <2> HIDE DEF P4
  <2> QED BY <2>1, <2>2
<1>6. x \in P5 <=> x = <<"done">> /\ InDone(i)
  BY DEF InDone
<1> HIDE DEF P1, P2, P3, P4, P5
<1> QED BY <1>1, <1>2, <1>3, <1>4, <1>5, <1>6

\* What each place means for a position.
LEMMA PlaceFacts ==
    ASSUME PipelineInv, PushingInv, NEW i \in Positions
    PROVE  /\ i \in Nat /\ i < size
           /\ InInput(i) <=> i >= Frontier
           /\ \A k \in Nat : InPushing(i, k) <=>
                 Enqueued <= i /\ i < Frontier /\ k = i - start + 1
           /\ \A q, k \in Nat : InQueued(i, q, k) <=>
                 /\ q \in 1 .. Len(items_)
                 /\ items_[q].output_start <= i /\ i < End(items_[q])
                 /\ k = i - items_[q].output_start + 1
           /\ \A w \in Workers, k \in Nat : InHeld(i, w, k) <=>
                 Holds(w, i) /\ k = i - popped[w].output_start + 1
           /\ InDone(i) <=> i < Taken /\ ~ \E w \in Workers : Holds(w, i)
           /\ i < Enqueued => i < Frontier
<1>1. i \in Nat /\ i < size /\ TypeOK
  BY Arithmetic DEF Positions, PipelineInv
<1>2. /\ mainAt # "push" => pushing[Main] = NoItem
      /\ mainAt = "push" => start < size
      /\ pushing[Main] # NoItem <=> mainAt = "push" /\ at[Main] # "out"
      /\ pushing[Main] # NoItem => pushing[Main] = BuiltItem
  <2>1. /\ mainAt # "push" => at[Main] \notin PushLabels
        /\ mainAt = "push" => at[Main] \in PushLabels \cup {"out"} /\ start < size
        /\ at[Main] \in PushLabels => pushing[Main] = BuiltItem
    BY <1>1, AtFacts DEF PipelineInv, MainInv, FifoInv, PushLabels, CloseLabels
  <2>2. start < size => BuiltItem # NoItem
    BY <1>1, BuiltItemFacts, ItemFacts
  <2>3. "out" \notin PushLabels
    BY DEF PushLabels
  <2> QED BY <2>1, <2>2, <2>3 DEF PushingInv
<1>3. /\ start \in Nat /\ size \in Nat
      /\ start < size =>
           BatchCount \in Nat /\ BatchCount > 0 /\ start + BatchCount <= size
  BY <1>1, Arithmetic, BuiltItemFacts
<1>4. i < Enqueued => i < Frontier
  BY <1>1, <1>2, <1>3 DEF Enqueued, Frontier
<1>5. ASSUME NEW k \in Nat
      PROVE  InPushing(i, k) <=> Enqueued <= i /\ i < Frontier /\ k = i - start + 1
  <2>1. CASE mainAt = "push" /\ at[Main] # "out"
    <3>1. Enqueued = start /\ Frontier = start + BatchCount /\ start < size
      BY <1>1, <1>2, <1>3, <2>1 DEF Enqueued, Frontier
    <3>2. /\ BuiltItem \in WorkItems /\ Whole(BuiltItem)
          /\ BuiltItem.output_start = start /\ End(BuiltItem) = start + BatchCount
          /\ Len(BuiltItem.encoded_records) \in Nat
      BY <1>1, <3>1, BuiltItemFacts, ItemFacts
    <3>3. Len(BuiltItem.encoded_records) = BatchCount
      BY <1>3, <3>1, <3>2 DEF End
    <3>4. pushing[Main] # NoItem /\ pushing[Main] = BuiltItem
      BY <1>2, <2>1
    <3>5. \A j \in 1 .. Len(BuiltItem.encoded_records) :
             BuiltItem.encoded_records[j] = i <=> j = i - start + 1
      BY <1>1, <3>2, WholeFacts
    <3> QED BY <1>1, <1>3, <3>1, <3>3, <3>4, <3>5 DEF InPushing
  <2>2. CASE ~ (mainAt = "push" /\ at[Main] # "out")
    <3>1. ~ InPushing(i, k)
      BY <1>2, <2>2 DEF InPushing
    <3>2. ~ (Enqueued <= i /\ i < Frontier)
      BY <1>1, <1>2, <1>3, <2>2 DEF Enqueued, Frontier
    <3> QED BY <3>1, <3>2
  <2> QED BY <2>1, <2>2
<1>6. ASSUME NEW q \in Nat, NEW k \in Nat
      PROVE  InQueued(i, q, k) <=>
               /\ q \in 1 .. Len(items_)
               /\ items_[q].output_start <= i /\ i < End(items_[q])
               /\ k = i - items_[q].output_start + 1
  <2>1. CASE q \in 1 .. Len(items_)
    <3>1. PICK item : item = items_[q]
      OBVIOUS
    <3>2. /\ item \in WorkItems /\ Whole(item) /\ item.output_start \in Nat
          /\ Len(item.encoded_records) \in Nat
      BY <2>1, <3>1, QueueFacts
    <3>3. \A j \in 1 .. Len(item.encoded_records) :
             item.encoded_records[j] = i <=> j = i - item.output_start + 1
      BY <1>1, <3>2, WholeFacts
    <3> QED BY <1>1, <2>1, <3>1, <3>2, <3>3 DEF InQueued, End
  <2>2. CASE q \notin 1 .. Len(items_)
    BY <2>2 DEF InQueued
  <2> QED BY <2>1, <2>2
<1>7. ASSUME NEW w \in Workers, NEW k \in Nat
      PROVE  InHeld(i, w, k) <=>
               Holds(w, i) /\ k = i - popped[w].output_start + 1
  <2>1. CASE popped[w] = NoItem
    BY <2>1 DEF InHeld, Holds
  <2>2. CASE popped[w] # NoItem
    <3>1. PICK item : item = popped[w]
      OBVIOUS
    <3>2. /\ item \in WorkItems /\ Whole(item) /\ item.output_start \in Nat
          /\ Len(item.encoded_records) \in Nat /\ offset[w] \in Nat
      BY <1>1, <2>2, <3>1, PoppedFacts, ItemFacts DEF PipelineInv, HandInv
    <3>3. \A j \in 1 .. Len(item.encoded_records) :
             item.encoded_records[j] = i <=> j = i - item.output_start + 1
      BY <1>1, <3>2, WholeFacts
    <3> QED
      BY <1>1, <2>2, <3>1, <3>2, <3>3 DEF InHeld, Holds, BatchOf, SlotOf, End
  <2> QED BY <2>1, <2>2
<1>8. InDone(i) <=> i < Taken /\ ~ \E w \in Workers : Holds(w, i)
  <2>1. records[i] = Unset <=> i >= Taken \/ \E w \in Workers : Holds(w, i)
    BY DEF PipelineInv, SlotInv
  <2> QED BY <1>1, <2>1, RunFacts DEF InDone
<1> QED BY <1>1, <1>4, <1>5, <1>6, <1>7, <1>8 DEF InInput

LEMMA OnePlace ==
    ASSUME PipelineInv, PushingInv, NEW i \in Positions
    PROVE  \E p : Places(i) = {p}
<1>1. /\ i \in Nat /\ Taken \in Nat /\ Enqueued \in Nat /\ Taken <= Enqueued
      /\ i < Enqueued => i < Frontier
  BY PlaceFacts, RunFacts
<1>2. Frontier \in Nat /\ start \in Nat
  BY Arithmetic, BuiltItemFacts DEF PipelineInv, MainInv, Frontier
<1>3. ASSUME NEW w \in Workers, Holds(w, i)
      PROVE  /\ i < Taken /\ i >= popped[w].output_start
             /\ popped[w].output_start \in Nat
  BY <1>1, <1>3, PoppedFacts, ItemFacts DEF PipelineInv, HandInv, Holds
<1>4. ASSUME NEW q \in 1 .. Len(items_)
      PROVE  /\ q \in Nat /\ items_[q].output_start \in Nat /\ End(items_[q]) \in Nat
             /\ Taken <= items_[q].output_start /\ End(items_[q]) <= Enqueued
  BY QueueFacts, RunFacts
<1>5. CASE i >= Frontier
  <2>1. InInput(i) /\ ~ InDone(i) /\ \A k \in Nat : ~ InPushing(i, k)
    BY <1>1, <1>2, <1>5, PlaceFacts
  <2>2. \A q, k \in Nat : ~ InQueued(i, q, k)
    BY <1>1, <1>2, <1>4, <1>5, PlaceFacts
  <2>3. \A w \in Workers, k \in Nat : ~ InHeld(i, w, k)
    <3>1. ~ (i < Taken)
      BY <1>1, <1>2, <1>5
    <3> QED BY <1>3, <3>1, PlaceFacts
  <2>4. \A x : x \in Places(i) <=> x = <<"input">>
    BY <2>1, <2>2, <2>3, PlacesMembers
  <2>5. Places(i) = {<<"input">>}
    BY <2>4
  <2> QED BY <2>5
<1>6. CASE i < Frontier /\ i >= Enqueued
  <2>1. /\ ~ InInput(i) /\ ~ InDone(i)
        /\ \A k \in Nat : InPushing(i, k) <=> k = i - start + 1
    BY <1>1, <1>2, <1>6, PlaceFacts
  <2>2. \A q, k \in Nat : ~ InQueued(i, q, k)
    BY <1>1, <1>2, <1>4, <1>6, PlaceFacts
  <2>3. \A w \in Workers, k \in Nat : ~ InHeld(i, w, k)
    <3>1. ~ (i < Taken)
      BY <1>1, <1>2, <1>6
    <3> QED BY <1>3, <3>1, PlaceFacts
  <2>4. i - start + 1 \in Nat
    <3>1. start <= i
      BY <1>1, <1>2, <1>6, PlaceFacts, Arithmetic, BuiltItemFacts
      DEF Enqueued, PipelineInv, MainInv, Positions
    <3> QED BY <1>1, <1>2, <3>1
  <2>5. \A x : x \in Places(i) <=> x = <<"pushing", i - start + 1>>
    BY <2>1, <2>2, <2>3, <2>4, PlacesMembers
  <2>6. Places(i) = {<<"pushing", i - start + 1>>}
    BY <2>5
  <2> QED BY <2>6
<1>7. CASE i < Enqueued /\ i >= Taken
  <2>1. PICK r \in 1 .. Len(items_) :
          items_[r].output_start <= i /\ i < End(items_[r])
    BY <1>1, <1>7, RunFacts
  <2>2. ASSUME NEW q \in 1 .. Len(items_),
               items_[q].output_start <= i, i < End(items_[q])
        PROVE  q = r
    <3>1. /\ q < r => End(items_[q]) <= items_[r].output_start
          /\ r < q => End(items_[r]) <= items_[q].output_start
      BY RunFacts
    <3> QED BY <1>1, <1>4, <2>1, <2>2, <3>1
  <2>3. PICK j : j = i - items_[r].output_start + 1
    OBVIOUS
  <2>4. r \in Nat /\ j \in Nat
    BY <1>1, <1>4, <2>1, <2>3
  <2>5. /\ ~ InInput(i) /\ ~ InDone(i)
        /\ \A k \in Nat : ~ InPushing(i, k)
        /\ \A w \in Workers, k \in Nat : ~ InHeld(i, w, k)
    BY <1>1, <1>2, <1>3, <1>7, PlaceFacts
  <2>6. \A q, k \in Nat : InQueued(i, q, k) <=> q = r /\ k = j
    BY <2>1, <2>2, <2>3, PlaceFacts
  <2>7. \A x : x \in Places(i) <=> x = <<"queued", r, j>>
    BY <2>4, <2>5, <2>6, PlacesMembers
  <2>8. Places(i) = {<<"queued", r, j>>}
    BY <2>7, Zenon
  <2> QED BY <2>8
<1>8. CASE i < Taken
  <2>1. /\ ~ InInput(i)
        /\ \A k \in Nat : ~ InPushing(i, k)
        /\ \A q, k \in Nat : ~ InQueued(i, q, k)
    BY <1>1, <1>2, <1>4, <1>8, PlaceFacts
  <2>2. CASE \E w \in Workers : Holds(w, i)
    <3>1. PICK v \in Workers : Holds(v, i)
      BY <2>2
    <3>2. PICK j : j = i - popped[v].output_start + 1
      OBVIOUS
    <3>3. j \in Nat
      BY <1>1, <1>3, <3>1, <3>2
    <3>4. \A w \in Workers : Holds(w, i) => w = v
      BY <3>1, HoldersDiffer
    <3>5. ~ InDone(i)
      BY <2>2, PlaceFacts
    <3>6. \A w \in Workers, k \in Nat : InHeld(i, w, k) <=> w = v /\ k = j
      BY <3>1, <3>2, <3>4, PlaceFacts
    <3>7. \A x : x \in Places(i) <=> x = <<"held", <<v, j>>>>
      BY <2>1, <3>3, <3>5, <3>6, PlacesMembers
    <3>8. Places(i) = {<<"held", <<v, j>>>>}
      BY <3>7
    <3> QED BY <3>8
  <2>3. CASE ~ \E w \in Workers : Holds(w, i)
    <3>1. InDone(i) /\ \A w \in Workers, k \in Nat : ~ InHeld(i, w, k)
      BY <1>8, <2>3, PlaceFacts
    <3>2. \A x : x \in Places(i) <=> x = <<"done">>
      BY <2>1, <3>1, PlacesMembers
    <3>3. Places(i) = {<<"done">>}
      BY <3>2
    <3> QED BY <3>3
  <2> QED BY <2>2, <2>3
<1>9. i >= Frontier \/ (i < Frontier /\ i >= Enqueued)
        \/ (i < Enqueued /\ i >= Taken) \/ i < Taken
  BY <1>1, <1>2
<1> QED BY <1>5, <1>6, <1>7, <1>8, <1>9

\* No record is lost and none is processed twice: through the cutting into
\* batches, the handing over and any number of waits, each record of the
\* input is in exactly one place, whatever the input and the configuration.
THEOREM RecordsStayOnce == SafeSpec => []EveryRecordOnce
<1>1. ASSUME PipelineInv, PushingInv
      PROVE  EveryRecordOnce
  <2> SUFFICES ASSUME NEW i \in Positions
               PROVE  Cardinality(Places(i)) = 1
    BY DEF EveryRecordOnce
  <2>1. PICK p : Places(i) = {p}
    BY <1>1, OnePlace
  <2> QED BY <2>1, FS_Singleton
<1> QED BY <1>1, PipelineInvariant, PushingInvariant, PTL

-----------------------------------------------------------------------------
(* The byte counts.  The two sums are treated alike, each on its own: no   *)
(* lemma here can have an operator as its parameter.                       *)

PayloadSum(s) == MapThenSumSet(PayloadSize, s)

\* The size of the result of the record at a position.
ResultSize(i) == EncodedSize(ProcessOne(i))
ResultSum(s) == MapThenSumSet(ResultSize, s)

LEMMA PayloadSumIs ==
    ASSUME NEW S, IsFiniteSet(S)
    PROVE  \E F : IsSum(F, [x \in S |-> PayloadSize(x)], S) /\ PayloadSum(S) = F[S]
<1> DEFINE g == [x \in S |-> PayloadSize(x)]
           Step(F) == [s \in SUBSET S |->
                         IF s = {} THEN 0
                         ELSE PayloadSize(CHOOSE x \in s : TRUE)
                                + F[s \ {CHOOSE x \in s : TRUE}]]
           It == CHOOSE F : F = Step(F)
<1>1. PICK F : IsSum(F, g, S)
  BY SumExists
<1>2. F = Step(F)
  <2>1. F = [s \in SUBSET S |-> F[s]]
    BY <1>1 DEF IsSum
  <2>2. ASSUME NEW s \in SUBSET S
        PROVE F[s] = Step(F)[s]
    BY <1>1 DEF IsSum, First
  <2> QED BY <2>1, <2>2
<1>3. It = Step(It)
  <2> HIDE DEF Step
  <2> QED BY <1>2
<1>4. IsSum(It, g, S)
  <2> HIDE DEF It
  <2>1. It = [s \in SUBSET S |-> It[s]]
    BY <1>3
  <2>2. \A s \in SUBSET S : It[s] = Step(It)[s]
    BY <1>3
  <2> QED BY <2>1, <2>2 DEF IsSum, First
<1>5. PayloadSum(S) = It[S]
  BY Zenon DEF PayloadSum, MapThenSumSet, MapThenFoldSet
<1> QED BY <1>4, <1>5

LEMMA ResultSumIs ==
    ASSUME NEW S, IsFiniteSet(S)
    PROVE  \E F : IsSum(F, [x \in S |-> ResultSize(x)], S) /\ ResultSum(S) = F[S]
<1> DEFINE g == [x \in S |-> ResultSize(x)]
           Step(F) == [s \in SUBSET S |->
                         IF s = {} THEN 0
                         ELSE ResultSize(CHOOSE x \in s : TRUE)
                                + F[s \ {CHOOSE x \in s : TRUE}]]
           It == CHOOSE F : F = Step(F)
<1>1. PICK F : IsSum(F, g, S)
  BY SumExists
<1>2. F = Step(F)
  <2>1. F = [s \in SUBSET S |-> F[s]]
    BY <1>1 DEF IsSum
  <2>2. ASSUME NEW s \in SUBSET S
        PROVE F[s] = Step(F)[s]
    BY <1>1 DEF IsSum, First
  <2> QED BY <2>1, <2>2
<1>3. It = Step(It)
  <2> HIDE DEF Step
  <2> QED BY <1>2
<1>4. IsSum(It, g, S)
  <2> HIDE DEF It
  <2>1. It = [s \in SUBSET S |-> It[s]]
    BY <1>3
  <2>2. \A s \in SUBSET S : It[s] = Step(It)[s]
    BY <1>3
  <2> QED BY <2>1, <2>2 DEF IsSum, First
<1>5. ResultSum(S) = It[S]
  BY Zenon DEF ResultSum, MapThenSumSet, MapThenFoldSet
<1> QED BY <1>4, <1>5


\* What is needed of the sums, for the records of any input.
LEMMA PayloadSums ==
    ASSUME NEW n \in Sizes
    PROVE  LET all == 0 .. n - 1
           IN  /\ PayloadSum({}) = 0
               /\ \A a, b \in SUBSET all : a \cap b = {} =>
                    PayloadSum(a \cup b) = PayloadSum(a) + PayloadSum(b)
<1> DEFINE all == 0 .. n - 1
           g == [x \in all |-> PayloadSize(x)]
<1>1. n \in Nat /\ IsFiniteSet(all) /\ \A x \in all : PayloadSize(x) \in Nat
  BY PoolAssumption, FS_Interval
<1>2. \A x \in all : g[x] \in Nat
  BY <1>1
<1>3. PICK F : IsSum(F, g, all)
  BY <1>1, SumExists
<1>4. ASSUME NEW s \in SUBSET all
      PROVE  PayloadSum(s) = F[s]
  <2> DEFINE h == [x \in s |-> PayloadSize(x)]
  <2>1. IsFiniteSet(s) /\ \A x \in s : h[x] = g[x]
    BY <1>1, FS_Subset
  <2>2. PICK G : IsSum(G, h, s) /\ PayloadSum(s) = G[s]
    BY <2>1, PayloadSumIs
  <2> HIDE DEF g, h, all
  <2>3. \A r \in SUBSET s : G[r] = F[r]
    BY <1>1, <1>3, <2>1, <2>2, SumsAgree
  <2> QED BY <2>2, <2>3
<1> HIDE DEF g, all
<1>5. F[{}] = 0
  BY <1>1, <1>2, <1>3, SumAdds
<1>6. \A a, b \in SUBSET all : a \cap b = {} => F[a \cup b] = F[a] + F[b]
  BY <1>1, <1>2, <1>3, SumUnion
<1>7. \A a, b \in SUBSET all : a \cap b = {} =>
          PayloadSum(a \cup b) = PayloadSum(a) + PayloadSum(b)
  BY <1>4, <1>6
<1>8. PayloadSum({}) = 0
  BY <1>4, <1>5
<1> QED BY <1>7, <1>8 DEF all

LEMMA ResultSums ==
    ASSUME NEW n \in Sizes
    PROVE  LET all == 0 .. n - 1
           IN  /\ ResultSum({}) = 0
               /\ \A s \in SUBSET all : \A y \in all \ s :
                    ResultSum(s \cup {y}) = ResultSum(s) + ResultSize(y)
<1> DEFINE all == 0 .. n - 1
           g == [x \in all |-> ResultSize(x)]
<1>1. n \in Nat /\ IsFiniteSet(all) /\ \A x \in all : ResultSize(x) \in Nat
  BY PoolAssumption, PipelineAssumption, FS_Interval DEF ResultSize
<1>2. \A x \in all : g[x] \in Nat
  BY <1>1
<1>3. PICK F : IsSum(F, g, all)
  BY <1>1, SumExists
<1>4. ASSUME NEW s \in SUBSET all
      PROVE  ResultSum(s) = F[s]
  <2> DEFINE h == [x \in s |-> ResultSize(x)]
  <2>1. IsFiniteSet(s) /\ \A x \in s : h[x] = g[x]
    BY <1>1, FS_Subset
  <2>2. PICK G : IsSum(G, h, s) /\ ResultSum(s) = G[s]
    BY <2>1, ResultSumIs
  <2> HIDE DEF g, h, all
  <2>3. \A r \in SUBSET s : G[r] = F[r]
    BY <1>1, <1>3, <2>1, <2>2, SumsAgree
  <2> QED BY <2>2, <2>3
<1>5. \A y \in all : g[y] = ResultSize(y)
  OBVIOUS
<1> HIDE DEF g, all
<1>6. /\ F[{}] = 0
      /\ \A s \in SUBSET all : \A y \in all \ s : F[s \cup {y}] = F[s] + g[y]
  BY <1>1, <1>2, <1>3, SumAdds
<1>7. \A s \in SUBSET all : \A y \in all \ s :
          ResultSum(s \cup {y}) = ResultSum(s) + ResultSize(y)
  <2> SUFFICES ASSUME NEW s \in SUBSET all, NEW y \in all \ s
               PROVE  ResultSum(s \cup {y}) = ResultSum(s) + ResultSize(y)
    OBVIOUS
  <2>1. s \cup {y} \in SUBSET all
    OBVIOUS
  <2> QED BY <1>4, <1>5, <1>6, <2>1
<1>8. ResultSum({}) = 0
  BY <1>4, <1>6
<1> QED BY <1>7, <1>8 DEF all

\* The records cut off the input, and those whose result is counted.
Cut == {i \in Positions : i < Frontier}
Stored == {i \in Positions : records[i] # Unset}
Processed == {SlotOf(w) : w \in {w \in Workers : worker[w] = "store"}}

CountInv ==
    /\ input_bytes = PayloadSum(Cut)
    /\ output_bytes = ResultSum(Stored \cup Processed)
    /\ mainAt = "returned" => /\ output.input_bytes = input_bytes
                              /\ output.output_bytes = output_bytes

\* Nothing is cut off or counted yet.
LEMMA CountInit == Init => CountInv
<1> SUFFICES ASSUME Init PROVE CountInv
  OBVIOUS
<1>1. TypeOK /\ size \in Sizes
  BY TypeInit DEF Init, PoolInit
<1>2. Cut = {}
  BY <1>1, Arithmetic DEF Init, PoolInit, Cut, Frontier, Positions
<1>3. Stored \cup Processed = {}
  BY DEF Init, PoolInit, Stored, Processed
<1> QED BY <1>1, <1>2, <1>3, PayloadSums, ResultSums DEF Init, PoolInit, CountInv

\* A batch is cut off whole.
LEMMA CutSteps ==
    ASSUME PipelineInv, [Next]_vars
    PROVE  /\ size \in Sizes /\ size' = size
           /\ \/ Cut' = Cut /\ input_bytes' = input_bytes
              \/ LET batch == start .. start + BatchCount - 1
                 IN  /\ Cut' = Cut \cup batch /\ Cut \cap batch = {}
                     /\ batch \in SUBSET Positions
                     /\ input_bytes' = input_bytes + PayloadSum(batch)
<1>1. size \in Sizes /\ UNCHANGED <<size, config>>
  BY DEF PipelineInv, TypeOK, Next, vars, pipelineVars, InQueue, MainStep,
       PoolStep, WorkerStep, SpawnWorker, AllSpawned, PushBatch, PushItem, NextBatch,
       Advanced, CloseQueue, ClearWorkers, Return, Joined, Throw, Rethrow, WorkerPop,
       WorkerGetsItem, WorkerExits, ProcessRecord, StoreRecord, Finished
<1>2. CASE PushBatch
  <2>1. /\ start < size /\ mainAt = "produce" /\ mainAt' = "push"
        /\ start' = start
        /\ input_bytes' = input_bytes + PayloadSum(start .. start + BatchCount - 1)
    BY <1>2 DEF PushBatch, PushItem, MainGoto, PayloadSum
  <2>2. /\ BatchCount \in Nat /\ start + BatchCount <= size
        /\ start \in Nat /\ size \in Nat
    BY <2>1, BuiltItemFacts, Arithmetic DEF PipelineInv
  <2>3. Frontier = start /\ Frontier' = start + BatchCount
    BY <1>1, <2>1 DEF Frontier, BatchCount
  <2>4. Cut = {i \in 0 .. size - 1 : i < start}
        /\ Cut' = {i \in 0 .. size - 1 : i < start + BatchCount}
    BY <1>1, <2>3 DEF Cut, Positions
  <2>5. /\ Cut' = Cut \cup (start .. start + BatchCount - 1)
        /\ Cut \cap (start .. start + BatchCount - 1) = {}
        /\ (start .. start + BatchCount - 1) \in SUBSET Positions
    BY <2>2, <2>4 DEF Positions
  <2> QED BY <1>1, <2>1, <2>5
<1>3. CASE NextBatch
  <2>1. start' = start + config.batch_size /\ start < size
        /\ mainAt = "push" /\ mainAt' = "produce" /\ input_bytes' = input_bytes
    BY <1>3, StartSteps DEF NextBatch, MainGoto
  <2>2. Frontier = start + BatchCount /\ Frontier' = start'
    BY <2>1 DEF Frontier
  <2>3. \A i \in Positions : i < Frontier <=> i < Frontier'
    BY <2>1, <2>2, Arithmetic DEF PipelineInv, BatchCount, Positions
  <2>4. Cut' = Cut
    BY <1>1, <2>3 DEF Cut, Positions
  <2> QED BY <1>1, <2>1, <2>4
<1>4. ASSUME UNCHANGED <<start, input_bytes>>, mainAt' = "push" <=> mainAt = "push"
      PROVE  Cut' = Cut /\ input_bytes' = input_bytes
  BY <1>1, <1>4 DEF Cut, Positions, Frontier, BatchCount
<1>5. CASE ~ (PushBatch \/ NextBatch)
  <2>1. UNCHANGED <<start, input_bytes>> /\ (mainAt' = "push" <=> mainAt = "push")
    BY <1>5 DEF Next, vars, pipelineVars, InQueue, MainStep, PoolStep, WorkerStep,
       SpawnWorker, AllSpawned, MainGoto,
       CloseQueue, ClearWorkers, Return, Joined, Throw, Rethrow, WorkerPop,
       WorkerGetsItem, WorkerExits, ProcessRecord, StoreRecord, Finished
  <2> QED BY <1>1, <1>4, <2>1
<1> QED BY <1>2, <1>3, <1>5

\* A result is counted when it is there, and only then.
LEMMA CountedSteps ==
    ASSUME PipelineInv, [Next]_vars
    PROVE  \/ /\ Stored' \cup Processed' = Stored \cup Processed
              /\ output_bytes' = output_bytes
           \/ \E i \in Positions :
                /\ i \notin Stored \cup Processed
                /\ Stored' \cup Processed' = Stored \cup Processed \cup {i}
                /\ output_bytes' = output_bytes + ResultSize(i)
<1>1. UNCHANGED size
  BY CutSteps
<1>2. ASSUME NEW w \in Workers, worker[w] \in {"process", "store"}
      PROVE  /\ SlotOf(w) \in Positions /\ SlotOf(w) \notin Stored
             /\ BatchOf(w)[offset[w] + 1] = SlotOf(w)
             /\ \A v \in Workers \ {w} : worker[v] = "store" => SlotOf(v) # SlotOf(w)
  <2>1. ASSUME NEW v \in Workers \ {w}, worker[v] = "store"
        PROVE  SlotOf(v) # SlotOf(w)
    BY <1>2, <2>1, StoreFacts, HoldersDiffer
  <2> QED BY <1>2, <2>1, StoreFacts DEF Stored
<1>3. ASSUME NEW w \in Workers, ProcessRecord(w)
      PROVE  /\ SlotOf(w) \in Positions
             /\ SlotOf(w) \notin Stored \cup Processed
             /\ Stored' \cup Processed' = Stored \cup Processed \cup {SlotOf(w)}
             /\ output_bytes' = output_bytes + ResultSize(SlotOf(w))
  <2>1. /\ worker[w] = "process" /\ worker' = [worker EXCEPT ![w] = "store"]
        /\ output_bytes' = output_bytes
              + EncodedSize(ProcessOne(BatchOf(w)[offset[w] + 1]))
        /\ UNCHANGED <<popped, offset, records>>
    BY <1>3 DEF ProcessRecord, WorkerGoto, queueVars, calls
  <2>2. \A v \in Workers : /\ SlotOf(v)' = SlotOf(v)
                           /\ worker'[v] = IF v = w THEN "store" ELSE worker[v]
    BY <2>1, AtFacts DEF SlotOf, PipelineInv
  <2>3. Stored' = Stored
    BY <1>1, <2>1 DEF Stored, Positions
  <2>4. Processed' = Processed \cup {SlotOf(w)}
    BY <2>2 DEF Processed
  <2>5. SlotOf(w) \notin Processed
    BY <1>2, <2>1 DEF Processed
  <2> QED BY <1>2, <2>1, <2>3, <2>4, <2>5 DEF ResultSize
<1>4. ASSUME NEW w \in Workers, StoreRecord(w)
      PROVE  /\ Stored' \cup Processed' = Stored \cup Processed
             /\ output_bytes' = output_bytes
  <2>1. PICK next \in {"process", "loop"} :
           worker' = [worker EXCEPT ![w] = next]
    BY <1>4 DEF StoreRecord, WorkerGoto
  <2>2. /\ worker[w] = "store" /\ UNCHANGED <<popped, output_bytes>>
        /\ records' = [records EXCEPT ![SlotOf(w)] =
                          ProcessOne(BatchOf(w)[offset[w] + 1])]
        /\ offset' = [offset EXCEPT ![w] = offset[w] + 1]
    BY <1>4 DEF StoreRecord, WorkerGoto, queueVars, calls
  <2>3. \A v \in Workers \ {w} : SlotOf(v)' = SlotOf(v) /\ worker'[v] = worker[v]
    BY <2>1, <2>2, AtFacts DEF SlotOf, PipelineInv
  <2>4. worker'[w] # "store"
    BY <2>1, AtFacts DEF PipelineInv
  <2>5. Processed = Processed' \cup {SlotOf(w)}
    BY <2>2, <2>3, <2>4 DEF Processed
  <2>6. /\ SlotOf(w) \in Positions /\ BatchOf(w)[offset[w] + 1] = SlotOf(w)
        /\ ProcessOne(SlotOf(w)) # Unset
    BY <1>2, <2>2, PipelineAssumption DEF PipelineInv, TypeOK, Positions
  <2>7. Stored' = Stored \cup {SlotOf(w)}
    <3>1. records = [i \in Positions |-> records[i]]
      BY DEF PipelineInv, TypeOK
    <3>2. \A i \in Positions :
             records'[i] = IF i = SlotOf(w) THEN ProcessOne(SlotOf(w))
                                            ELSE records[i]
      BY <2>2, <2>6, <3>1
    <3> QED BY <1>1, <2>6, <3>2 DEF Stored, Positions
  <2> QED BY <2>2, <2>5, <2>7
<1>5. ASSUME UNCHANGED <<records, output_bytes>>,
             \A v \in Workers : /\ worker'[v] = "store" <=> worker[v] = "store"
                                /\ worker[v] = "store" => SlotOf(v)' = SlotOf(v)
      PROVE  /\ Stored' \cup Processed' = Stored \cup Processed
             /\ output_bytes' = output_bytes
  <2>1. Stored' = Stored
    BY <1>1, <1>5 DEF Stored, Positions
  <2>2. Processed' = Processed
    BY <1>5 DEF Processed
  <2> QED BY <1>5, <2>1, <2>2
<1>6. ASSUME NEW w \in Workers,
             WorkerPop(w) \/ WorkerGetsItem(w) \/ WorkerExits(w) \/ SpawnWorker(w)
      PROVE  /\ Stored' \cup Processed' = Stored \cup Processed
             /\ output_bytes' = output_bytes
  <2>1. PICK next \in {"popping", "process", "loop", "exited"} :
           worker' = [worker EXCEPT ![w] = next]
    BY <1>6 DEF WorkerPop, WorkerGetsItem, WorkerExits, SpawnWorker, WorkerGoto
  <2>2. worker[w] # "store" /\ UNCHANGED <<records, output_bytes>>
    BY <1>6 DEF WorkerPop, WorkerGetsItem, WorkerExits, SpawnWorker, WorkerGoto
  <2>3. \A v \in Workers \ {w} : popped'[v] = popped[v] /\ offset'[v] = offset[v]
                                 /\ worker'[v] = worker[v]
    BY <1>6, <2>1, AtFacts
     DEF WorkerPop, WorkerGetsItem, WorkerExits, SpawnWorker, PopCall, queueVars,
         calls, PipelineInv
  <2>4. worker'[w] # "store"
    BY <2>1, AtFacts DEF PipelineInv
  <2> QED BY <1>5, <2>2, <2>3, <2>4 DEF SlotOf
<1>7. CASE InQueue
  <2>1. UNCHANGED <<records, output_bytes, worker, offset>>
    BY <1>7 DEF InQueue, pipelineVars
  <2>2. ASSUME NEW v \in Workers, worker[v] = "store"
        PROVE  popped'[v] = popped[v]
    <3>1. at[v] = "out"
      BY <2>2 DEF PipelineInv, WorkerInv
    <3>2. CASE UNCHANGED popped
      BY <3>2
    <3>3. ASSUME NEW c \in Workers, PopStep(c)
          PROVE  popped'[v] = popped[v]
      BY <3>1, <3>3, AtFacts DEF PopStep, PopEnter, PopPredicate, PopBlock, PopWake,
         PopNull, PopTake, Goto, PopLabels, PipelineInv, calls
    <3> QED BY <1>7, <3>2, <3>3, ThreadFacts
        DEF InQueue, QueueStep, PushStep, PushEnter, PushPredicate, PushBlock,
            PushWake, PushDrop, PushAppend, CloseStep, CloseSet, CloseNotifyEmpty,
            CloseNotifyFull, SpuriousWakeup, calls
  <2> QED BY <1>5, <2>1, <2>2 DEF SlotOf
<1>8. CASE UNCHANGED <<popped, offset, worker, records, output_bytes>>
  BY <1>5, <1>8 DEF SlotOf
<1>9. \/ UNCHANGED <<popped, offset, worker, records, output_bytes>>
      \/ InQueue
      \/ \E w \in Workers : \/ WorkerPop(w) \/ WorkerGetsItem(w) \/ WorkerExits(w)
                            \/ SpawnWorker(w) \/ ProcessRecord(w) \/ StoreRecord(w)
  BY DEF Next, vars, pipelineVars, queueVars, calls, MainStep, PoolStep, WorkerStep,
       AllSpawned, PushBatch, PushItem, PushCall, NextBatch, CloseQueue, CloseCall,
       ClearWorkers, Return, Throw, Rethrow, Finished
<1> QED BY <1>3, <1>4, <1>6, <1>7, <1>8, <1>9

LEMMA CountNext ==
    ASSUME PipelineInv, CountInv, [Next]_vars
    PROVE  CountInv'
<1>1. size \in Sizes /\ size' = size /\ Positions = 0 .. size - 1
  BY CutSteps DEF Positions
<1>2. Cut \in SUBSET Positions /\ Stored \cup Processed \in SUBSET Positions
  <2>1. \A w \in Workers : worker[w] = "store" => SlotOf(w) \in Positions
    BY StoreFacts
  <2> QED BY <2>1 DEF Cut, Stored, Processed
<1>3. input_bytes' = PayloadSum(Cut')
  BY <1>1, <1>2, CutSteps, PayloadSums DEF CountInv
<1>4. output_bytes' = ResultSum(Stored' \cup Processed')
  BY <1>1, <1>2, CountedSteps, ResultSums DEF CountInv
<1>5. mainAt' = "returned" => /\ output'.input_bytes = input_bytes'
                              /\ output'.output_bytes = output_bytes'
  <2>1. CASE Return
    BY <2>1 DEF Return
  <2>2. CASE /\ mainAt = "returned"
             /\ UNCHANGED <<mainAt, output, input_bytes, output_bytes>>
    BY <2>2 DEF CountInv
  <2>3. CASE mainAt' # "returned"
    BY <2>3
  <2>4. ASSUME NEW w \in Workers, WorkerStep(w), mainAt = "returned"
        PROVE  FALSE
    <3>1. worker[w] \in {"unborn", "exited"}
      BY <2>4 DEF PipelineInv, MainInv, AllExited, Spawned
    <3> QED BY <2>4, <3>1 DEF WorkerStep, WorkerPop, WorkerGetsItem, WorkerExits,
         ProcessRecord, StoreRecord, WorkerGoto
  <2>5. CASE \E w \in Workers : WorkerStep(w)
    BY <2>3, <2>4, <2>5 DEF WorkerStep, WorkerPop, WorkerGetsItem, WorkerExits,
         ProcessRecord, StoreRecord
  <2>6. CASE InQueue \/ Finished \/ UNCHANGED vars
    BY <2>2, <2>3, <2>6 DEF InQueue, Finished, vars, pipelineVars
  <2>7. CASE MainStep \/ Throw
    BY <2>1, <2>3, <2>7 DEF MainStep, PoolStep, SpawnWorker, AllSpawned, PushBatch,
       PushItem, NextBatch, CloseQueue, ClearWorkers, Throw, Rethrow, MainGoto
  <2> QED BY <2>5, <2>6, <2>7 DEF Next
<1> QED BY <1>3, <1>4, <1>5 DEF CountInv

LEMMA CountInvariant == SafeSpec => []CountInv
  BY CountInit, CountNext, PipelineInvariant, PTL DEF SafeSpec

\* The byte counts are exact at every moment, for any sizes of the records,
\* and what is returned counts the whole input.
THEOREM CountsAreExact == SafeSpec => []ByteCountsExact
<1>1. ASSUME PipelineInv, CountInv
      PROVE  ByteCountsExact
  <2>1. ASSUME mainAt = "returned"
        PROVE  Cut = Positions /\ Stored \cup Processed = Positions
    <3>1. AllExited /\ start >= size
      BY <1>1, <2>1 DEF PipelineInv, MainInv
    <3>2. Cut = Positions
      BY <1>1, <2>1, <3>1, Arithmetic DEF PipelineInv, Cut, Frontier, Positions
    <3>3. Stored = Positions
      BY <1>1, <2>1, <3>1, AllFilled DEF Stored
    <3>4. Processed = {}
      BY <1>1, <3>1 DEF Processed, AllExited, Spawned
    <3> QED BY <3>2, <3>3, <3>4
  <2>2. /\ input_bytes = PayloadSum({i \in Positions : i < Frontier})
        /\ output_bytes = ResultSum({i \in Positions : records[i] # Unset}
              \cup {SlotOf(w) : w \in {w \in Workers : worker[w] = "store"}})
        /\ mainAt = "returned" => /\ output.input_bytes = PayloadSum(Positions)
                                  /\ output.output_bytes = ResultSum(Positions)
    BY <1>1, <2>1 DEF CountInv, Cut, Stored, Processed
  <2> QED BY <2>2, Zenon DEF ByteCountsExact, PayloadSum, ResultSum, ResultSize
<1> QED BY <1>1, PipelineInvariant, CountInvariant, PTL

-----------------------------------------------------------------------------
(* The refinement.                                                         *)

LEMMA TransformInit == Init => Transform!Init
  BY DEF Init, PoolInit, Transform!Init, Positions

LEMMA TransformNext ==
    PipelineInv /\ [Next]_vars => [Transform!Next]_(Transform!vars)
<1> SUFFICES ASSUME PipelineInv, [Next]_vars
             PROVE  [Transform!Next]_(Transform!vars)
  OBVIOUS
<1> DEFINE Stutter == UNCHANGED <<size, records, mainAt = "returned">>
<1>1. ASSUME NEW w \in Workers, StoreRecord(w)
      PROVE  Transform!Next
  <2>1. /\ worker[w] = "store"
        /\ UNCHANGED <<size, mainAt>>
        /\ records' = [records EXCEPT ![SlotOf(w)] =
                          ProcessOne(BatchOf(w)[offset[w] + 1])]
    BY <1>1 DEF StoreRecord, WorkerGoto
  <2>2. /\ SlotOf(w) \in Positions
        /\ BatchOf(w)[offset[w] + 1] = SlotOf(w)
        /\ records[SlotOf(w)] = Unset
    BY <2>1, StoreFacts
  <2>3. Transform!Fill(SlotOf(w))
    BY <2>1, <2>2 DEF Transform!Fill
  <2> QED BY <2>2, <2>3 DEF Transform!Next, Positions
<1>2. ASSUME Return
      PROVE  Transform!Next
  <2>1. /\ AllExited /\ mainAt = "join" /\ mainAt' = "returned"
        /\ UNCHANGED <<size, records>>
    BY <1>2 DEF Return, Joined, MainGoto
  <2>2. \A i \in Positions : records[i] # Unset
    BY <2>1, AllFilled
  <2>3. Transform!Return
    BY <2>1, <2>2 DEF Transform!Return, Positions
  <2> QED BY <2>3 DEF Transform!Next
<1>3. ASSUME NEW w \in Workers, WorkerStep(w), ~StoreRecord(w)
      PROVE  Stutter
  BY <1>3 DEF WorkerStep, WorkerPop, WorkerGetsItem, WorkerExits, ProcessRecord
<1>4. ASSUME MainStep \/ Throw, ~Return
      PROVE  Stutter
  BY <1>4
  DEF MainStep, PoolStep, SpawnWorker, AllSpawned, PushBatch, PushItem,
      NextBatch, Advanced, CloseQueue, ClearWorkers, Throw, Rethrow, MainGoto
<1>5. ASSUME InQueue \/ Finished \/ UNCHANGED vars
      PROVE  Stutter
  BY <1>5 DEF InQueue, Finished, vars, pipelineVars
<1>6. Stutter => [Transform!Next]_(Transform!vars)
  BY DEF Transform!vars
<1> HIDE DEF Stutter
<1> QED BY <1>1, <1>2, <1>3, <1>4, <1>5, <1>6 DEF Next

\* The parallel pipeline implements the sequential transform's contract:
\* each slot is filled once with the right record, and the call returns
\* only when all are.
THEOREM PipelineIsTransform == SafeSpec => ActsAsTransform
  BY PipelineInvariant, TransformInit, TransformNext, PTL
  DEF SafeSpec, ActsAsTransform, Transform!Safety
=============================================================================
