---------------------- MODULE OptimizedPipelineProofs -----------------------
(* The lifetime-optimized pipeline for every input size, configuration and *)
(* number of workers: no text outlives its memory, no arena outgrows its   *)
(* batch, the input is borrowed for the call only, and it does what the    *)
(* batched pipeline does.                                                  *)
(*                                                                         *)
(* The argument: what a worker reads and writes is its own.  The range it  *)
(* took stays where it is until it pops again, its arena is emptied on     *)
(* both sides of the range and filled in front of every use, and what goes *)
(* into a slot has been copied out of the arena before.                    *)
EXTENDS OptimizedPipeline, BoundedQueueProofs

\* The ranges that lie in an input of n records.
RangesIn(n) == {r \in BatchItems : r.count > 0 /\ r.start + r.count <= n}

\* A slot before and after its record was stored.
Blank == [content |-> Unset, owner |-> Heap]
Owned(i) == [content |-> ProcessOne(i), owner |-> Heap]

\* The positions of the range a worker has.
Taken(w) == popped[w].start .. popped[w].start + popped[w].count - 1

\* The calling thread.
MainInv ==
    /\ mainAt \in {"returned", "thrown"} => AllExited
    /\ mainAt = "returned" => output.records = records

\* A worker: where it is, and what its locals and its arena hold.
WorkerOK(w) ==
    /\ at[w] # "out" => worker[w] = "popping"
    /\ worker[w] \in BatchLabels => popped[w] # NoItem
    /\ worker[w] \in {"normalize", "calculate", "store"} =>
         offset[w] < popped[w].count
    /\ normalized[w] = IF worker[w] \in {"calculate", "store"}
                         THEN OutputIndex(w) ELSE NoText
    /\ canonical[w] = IF worker[w] = "store"
                        THEN Owned(OutputIndex(w)) ELSE NoText
    /\ InArena /\ worker[w] \in {"calculate", "store"} =>
         OutputIndex(w) \in arena[w]
    /\ arena[w] \subseteq IF InArena /\ worker[w] \in BatchLabels
                            THEN Taken(w) ELSE {}

WorkerInv ==
    /\ DOMAIN canonical = Workers
    /\ \A w \in Workers : WorkerOK(w)

\* The slots: nothing in them is in an arena.
SlotInv == \A i \in Positions : records[i] \in {Blank, Owned(i)}

LocalInv ==
    /\ TypeOK
    /\ QueueTypeOK(RangesIn(size))
    /\ MainInv
    /\ WorkerInv
    /\ SlotInv

-----------------------------------------------------------------------------
(* Facts about the constants and types, in the form the steps need.        *)

LEMMA Arithmetic ==
    ASSUME TypeOK
    PROVE  /\ size \in Nat /\ 2 * size < WordSize /\ WordSize \in Nat
           /\ start \in Nat /\ start < WordSize
           /\ config.batch_size \in Nat /\ config.batch_size > 0
           /\ config.batch_size < WordSize
           /\ config.queue_capacity \in Nat /\ config.queue_capacity > 0
  BY PoolAssumption DEF TypeOK, Words

LEMMA ThreadFacts ==
    /\ Producers = {Main} /\ Main \notin Workers /\ Workers = Consumers
    /\ Main \in Threads /\ Workers \subseteq Threads
    /\ Threads = {Main} \cup Workers
  BY PoolAssumption, QueueAssumption DEF Threads, Workers

LEMMA DomainFacts ==
    ASSUME TypeOK
    PROVE  /\ DOMAIN at = Threads
           /\ DOMAIN worker = Workers /\ DOMAIN popped = Workers
           /\ DOMAIN offset = Workers /\ DOMAIN arena = Workers
           /\ DOMAIN normalized = Workers
           /\ DOMAIN records = Positions
           /\ DOMAIN pushing = {Main}
  BY ThreadFacts DEF TypeOK, QueueTypeOK

\* The range a worker has at hand lies in the input.
LEMMA RangeFacts ==
    ASSUME LocalInv, NEW w \in Workers, worker[w] \in BatchLabels
    PROVE  /\ popped[w] \in BatchItems /\ popped[w] \in RangesIn(size)
           /\ popped[w].start \in Nat /\ popped[w].count \in Nat
           /\ popped[w].count > 0
           /\ popped[w].start + popped[w].count <= size
           /\ size \in Nat
           /\ Taken(w) \subseteq Positions
<1>1. popped[w] \in RangesIn(size)
  BY DEF LocalInv, WorkerInv, WorkerOK, QueueTypeOK, Workers
<1>2. size \in Nat
  BY Arithmetic DEF LocalInv
<1> QED
  BY <1>1, <1>2 DEF RangesIn, BatchItems, Taken, Positions

\* The position a worker is at is one of its range.
LEMMA IndexFacts ==
    ASSUME LocalInv, NEW w \in Workers,
           worker[w] \in {"normalize", "calculate", "store"}
    PROVE  /\ offset[w] \in Nat /\ offset[w] < popped[w].count
           /\ OutputIndex(w) \in Taken(w)
           /\ OutputIndex(w) \in Positions
           /\ OutputIndex(w) # NoText
           /\ ProcessOne(OutputIndex(w)) \notin {Unset, Garbage}
<1>1. offset[w] \in Nat /\ offset[w] < popped[w].count
  BY DEF LocalInv, TypeOK, WorkerInv, WorkerOK
<1>2. worker[w] \in BatchLabels
  BY DEF BatchLabels
<1>3. OutputIndex(w) \in Taken(w) /\ OutputIndex(w) \in Nat
  BY <1>1, <1>2, RangeFacts DEF OutputIndex, Taken
<1>4. OutputIndex(w) \in Positions
  BY <1>2, <1>3, RangeFacts
<1>5. size \in Sizes
  BY DEF LocalInv, TypeOK
<1> QED
  BY <1>1, <1>3, <1>4, <1>5, OptimizedAssumption DEF Positions

LEMMA BuiltRangeFacts ==
    ASSUME TypeOK, start < size
    PROVE  /\ BuiltRange \in RangesIn(size)
           /\ BuiltRange \in BatchItems
           /\ BatchCount \in Nat /\ BatchCount > 0
<1>1. BatchCount \in Nat /\ BatchCount > 0 /\ start + BatchCount <= size
  BY Arithmetic DEF BatchCount
<1> QED BY <1>1, Arithmetic DEF BuiltRange, RangesIn, BatchItems

-----------------------------------------------------------------------------
(* Types, and what a step leaves alone.                                    *)

LEMMA ConstantParts == [Next]_vars => UNCHANGED <<config, size>>
  BY DEF Next, vars, pipelineVars, InQueue, MainStep, PoolStep, WorkerStep,
     SpawnWorker, AllSpawned, PushRange, PushItem, NextBatch, CloseQueue,
     ClearWorkers, Return, Throw, Rethrow, WorkerPop, WorkerGetsRange,
     WorkerEnds, WorkerExits, ResetBefore, Normalize, Calculate, StoreRecord,
     ResetAfter, Finished

LEMMA NextIsQueueNext ==
    ASSUME TypeOK, [Next]_vars, NEW Items, BuiltRange \in Items \/ start >= size
    PROVE  QueueNext(Items)
<1>1. CASE UNCHANGED queueVars
  BY <1>1 DEF QueueNext
<1>2. CASE PushRange
  <2>1. BuiltRange \in Items
    BY <1>2, Arithmetic DEF PushRange, PushItem
  <2> QED BY <1>2, <2>1, ThreadFacts DEF PushRange, PushItem, QueueNext
<1>3. CASE CloseQueue
  BY <1>3, ThreadFacts DEF CloseQueue, QueueNext
<1>4. ASSUME NEW w \in Workers, WorkerPop(w)
      PROVE  QueueNext(Items)
  BY <1>4, ThreadFacts DEF WorkerPop, QueueNext
<1>5. CASE InQueue
  BY <1>5 DEF InQueue, QueueNext
<1> QED
  BY <1>1, <1>2, <1>3, <1>4, <1>5
  DEF Next, vars, MainStep, PoolStep, WorkerStep, SpawnWorker, AllSpawned,
      NextBatch, ClearWorkers, Return, Throw, Rethrow, WorkerGetsRange,
      WorkerEnds, WorkerExits, ResetBefore, Normalize, Calculate, StoreRecord,
      ResetAfter, Finished

LEMMA QueueTypesNext ==
    ASSUME LocalInv, [Next]_vars
    PROVE  QueueTypeOK(BatchItems)' /\ QueueTypeOK(RangesIn(size))'
<1>1. PICK n : n = size
  OBVIOUS
<1>2. size' = n
  BY <1>1, ConstantParts
<1>3. \/ BuiltRange \in RangesIn(n) /\ BuiltRange \in BatchItems
      \/ start >= size
  BY <1>1, Arithmetic, BuiltRangeFacts DEF LocalInv
<1>4. QueueNext(BatchItems) /\ QueueNext(RangesIn(n))
  BY <1>3, NextIsQueueNext DEF LocalInv
<1>5. QueueTypeOK(BatchItems) /\ QueueTypeOK(RangesIn(n))
  BY <1>1 DEF LocalInv, TypeOK
<1>6. QueueTypeOK(BatchItems)' /\ QueueTypeOK(RangesIn(n))'
  BY <1>4, <1>5, QueueTypeNext
<1> QED BY <1>2, <1>6

\* Inside the queue a thread is in a call, and stays or returns from it.
LEMMA QueueFrame ==
    ASSUME TypeOK, QueueStep, NEW w \in Workers, at[w] = "out"
    PROVE  at'[w] = "out" /\ popped'[w] = popped[w]
<1> USE DomainFacts, ThreadFacts DEF Goto, calls
<1>1. ASSUME NEW p \in Producers, PushStep(p) \/ CloseStep(p)
      PROVE  at'[w] = "out" /\ popped'[w] = popped[w]
  BY <1>1 DEF PushStep, PushEnter, PushPredicate, PushBlock, PushWake, PushDrop,
     PushAppend, CloseStep, CloseSet, CloseNotifyEmpty, CloseNotifyFull
<1>2. ASSUME NEW c \in Consumers, PopStep(c)
      PROVE  at'[w] = "out" /\ popped'[w] = popped[w]
  <2>1. at[c] # "out"
    BY <1>2 DEF PopStep, PopEnter, PopPredicate, PopBlock, PopWake, PopNull,
       PopTake
  <2> QED
    BY <1>2, <2>1 DEF PopStep, PopEnter, PopPredicate, PopBlock, PopWake,
       PopNull, PopTake
<1>3. ASSUME NEW t \in Threads, SpuriousWakeup(t)
      PROVE  at'[w] = "out" /\ popped'[w] = popped[w]
  BY <1>3 DEF SpuriousWakeup
<1> QED BY <1>1, <1>2, <1>3 DEF QueueStep

\* Nothing that belongs to worker w changes, but for a call it is in.
LEMMA WorkerFrame ==
    ASSUME NEW w, WorkerOK(w),
           config' = config, worker'[w] = worker[w], offset'[w] = offset[w],
           arena'[w] = arena[w], normalized'[w] = normalized[w],
           canonical'[w] = canonical[w],
           \/ at[w] # "out"
           \/ at'[w] = "out" /\ popped'[w] = popped[w]
    PROVE  WorkerOK(w)'
<1>1. CASE worker[w] \in BatchLabels
  <2>1. popped'[w] = popped[w] /\ at'[w] = "out"
    BY <1>1 DEF WorkerOK, BatchLabels
  <2> QED
    BY <2>1 DEF WorkerOK, OutputIndex, Taken, InArena, Owned, BatchLabels
<1>2. CASE worker[w] \notin BatchLabels
  <2>1. worker[w] \notin {"normalize", "calculate", "store"}
    BY <1>2 DEF BatchLabels
  <2> QED BY <1>2, <2>1 DEF WorkerOK
<1> QED BY <1>1, <1>2

\* Everything is a worker's own, so one worker's step is another's frame.
LEMMA OneWorkerMoves ==
    ASSUME LocalInv, NEW w \in Workers, WorkerOK(w)', DOMAIN canonical' = Workers,
           config' = config,
           \A v \in Workers \ {w} :
              /\ worker'[v] = worker[v] /\ offset'[v] = offset[v]
              /\ arena'[v] = arena[v] /\ normalized'[v] = normalized[v]
              /\ canonical'[v] = canonical[v]
              /\ at'[v] = at[v] /\ popped'[v] = popped[v]
    PROVE  WorkerInv'
<1>1. ASSUME NEW v \in Workers \ {w}
      PROVE  WorkerOK(v)'
  BY WorkerFrame DEF LocalInv, WorkerInv
<1> QED BY <1>1 DEF WorkerInv

\* A worker that runs finds the call not over.
LEMMA MainFrame ==
    ASSUME LocalInv, NEW w \in Workers, worker[w] \notin {"unborn", "exited"},
           UNCHANGED <<mainAt, output>>
    PROVE  MainInv' /\ mainAt \notin {"returned", "thrown"}
<1>1. mainAt \notin {"returned", "thrown"}
  BY DEF LocalInv, MainInv, AllExited, Spawned
<1> QED BY <1>1 DEF MainInv

LEMMA SlotFrame ==
    ASSUME LocalInv, UNCHANGED <<records, size>>
    PROVE  SlotInv'
  BY DEF LocalInv, SlotInv, Positions, Blank, Owned

Parts == MainInv' /\ WorkerInv' /\ SlotInv'

-----------------------------------------------------------------------------
(* The steps.                                                              *)

LEMMA InitHolds == Init => LocalInv
<1> SUFFICES ASSUME Init PROVE LocalInv
  OBVIOUS
<1>1. PICK c \in Configs : config = Normalized(c)
  BY DEF Init, PoolInit
<1>2. config \in [worker_count : Words \ {0}, queue_capacity : Words \ {0},
                  batch_size : Words \ {0}, allocation_mode : Modes]
  <2>1. /\ c \in [worker_count : Words, queue_capacity : Words,
                   batch_size : Words, allocation_mode : Modes]
        /\ WordSize \in Nat /\ WordSize > 1
    BY PoolAssumption, OptimizedAssumption
  <2>2. config = [worker_count    |-> OneIfZero(c.worker_count),
                  queue_capacity  |-> OneIfZero(c.queue_capacity),
                  batch_size      |-> OneIfZero(c.batch_size),
                  allocation_mode |-> c.allocation_mode]
    BY <1>1, <2>1 DEF Normalized
  <2>3. \A n \in Words : OneIfZero(n) \in Words \ {0}
    BY <2>1 DEF OneIfZero, Words
  <2> QED BY <2>1, <2>2, <2>3
<1>3. QueueTypeOK(BatchItems) /\ QueueTypeOK(RangesIn(size))
  <2>1. QueueInit(config.queue_capacity) /\ config.queue_capacity \in Nat
    BY <1>2 DEF Init, PoolInit, Words
  <2>2. PICK n : n = size
    OBVIOUS
  <2>3. QueueTypeOK(RangesIn(n)) /\ QueueTypeOK(BatchItems)
    BY <2>1, QueueTypeInit
  <2> QED BY <2>2, <2>3
<1>4. TypeOK
  BY <1>2, <1>3, PoolAssumption
  DEF Init, PoolInit, TypeOK, MainLabels, BatchLabels, Words, Positions, Records
<1>5. \A w \in Workers : at[w] = "out"
  BY ThreadFacts DEF Init, PoolInit, QueueInit
<1>6. WorkerInv
  BY <1>5 DEF Init, PoolInit, WorkerInv, WorkerOK, BatchLabels
<1>7. MainInv /\ SlotInv
  BY DEF Init, PoolInit, MainInv, SlotInv, Blank
<1> QED BY <1>3, <1>4, <1>6, <1>7 DEF LocalInv

LEMMA MainStepsPreserve ==
    ASSUME LocalInv, MainStep \/ (Throw /\ UNCHANGED scratch)
    PROVE  Parts
<1>1. UNCHANGED <<arena, normalized, canonical, config, size, offset, records,
                  popped>>
  BY DEF MainStep, PoolStep, SpawnWorker, AllSpawned, PushRange, PushItem,
     PushCall, NextBatch, CloseQueue, CloseCall, ClearWorkers, Return, Throw,
     Rethrow, scratch, queueVars, calls
<1>2. \A w \in Workers : at'[w] = at[w]
  BY DomainFacts, ThreadFacts
  DEF LocalInv, MainStep, PoolStep, SpawnWorker, AllSpawned, PushRange, PushItem,
      PushCall, NextBatch, CloseQueue, CloseCall, ClearWorkers, Return, Throw,
      Rethrow, queueVars, Goto
<1>3. \A w \in Workers :
        \/ worker'[w] = worker[w]
        \/ worker[w] = "unborn" /\ worker'[w] = "loop"
  BY DomainFacts
  DEF LocalInv, MainStep, PoolStep, SpawnWorker, AllSpawned, PushRange, PushItem,
      NextBatch, CloseQueue, ClearWorkers, Return, Throw, Rethrow, WorkerGoto
<1>4. ASSUME NEW w \in Workers
      PROVE  WorkerOK(w)'
  <2>1. CASE worker'[w] = worker[w]
    BY <1>1, <1>2, <2>1, WorkerFrame DEF LocalInv, WorkerInv
  <2>2. CASE worker[w] = "unborn" /\ worker'[w] = "loop"
    BY <1>1, <1>2, <2>2 DEF LocalInv, WorkerInv, WorkerOK, BatchLabels
  <2> QED BY <1>3, <2>1, <2>2
<1>5. WorkerInv'
  BY <1>1, <1>4 DEF LocalInv, WorkerInv
<1>6. MainInv'
  <2>1. CASE Return \/ Rethrow
    BY <2>1 DEF Return, Rethrow, Joined, MainGoto, MainInv, AllExited, Spawned
  <2>2. CASE ~(Return \/ Rethrow)
    <3>1. mainAt' \notin {"returned", "thrown"}
      BY <2>2
      DEF MainStep, PoolStep, SpawnWorker, AllSpawned, PushRange, PushItem,
          NextBatch, CloseQueue, ClearWorkers, Throw, MainGoto
    <3> QED BY <3>1 DEF MainInv
  <2> QED BY <2>1, <2>2
<1> QED BY <1>1, <1>5, <1>6, SlotFrame DEF Parts

LEMMA QueueStepsPreserve ==
    ASSUME LocalInv, InQueue
    PROVE  Parts
<1>1. UNCHANGED <<pipelineVars, scratch>> /\ QueueStep
  BY DEF InQueue
<1>2. ASSUME NEW w \in Workers
      PROVE  WorkerOK(w)'
  BY <1>1, QueueFrame, WorkerFrame
  DEF LocalInv, WorkerInv, pipelineVars, scratch
<1>3. WorkerInv' /\ MainInv'
  BY <1>1, <1>2
  DEF LocalInv, WorkerInv, MainInv, AllExited, Spawned, pipelineVars, scratch
<1> QED BY <1>1, <1>3, SlotFrame DEF Parts, pipelineVars

LEMMA WorkerPopPreserves ==
    ASSUME LocalInv, NEW w \in Workers, WorkerPop(w), UNCHANGED scratch
    PROVE  Parts
<1>1. /\ worker[w] = "loop" /\ worker' = [worker EXCEPT ![w] = "popping"]
      /\ at' = [at EXCEPT ![w] = "pop.lock"]
      /\ popped' = [popped EXCEPT ![w] = NoItem]
      /\ UNCHANGED <<config, size, mainAt, offset, records, output, scratch>>
  BY DEF WorkerPop, PopCall, WorkerGoto, Goto
<1>2. WorkerOK(w)'
  BY <1>1, DomainFacts
  DEF LocalInv, WorkerInv, WorkerOK, BatchLabels, scratch
<1>3. WorkerInv'
  BY <1>1, <1>2, OneWorkerMoves, DomainFacts, ThreadFacts
  DEF LocalInv, WorkerInv, scratch
<1> QED BY <1>1, <1>3, MainFrame, SlotFrame DEF Parts

LEMMA WorkerGetsRangePreserves ==
    ASSUME LocalInv, NEW w \in Workers, WorkerGetsRange(w)
    PROVE  Parts
<1>1. /\ worker[w] = "popping" /\ worker' = [worker EXCEPT ![w] = "reset"]
      /\ at[w] = "out" /\ popped[w] # NoItem
      /\ UNCHANGED <<config, size, mainAt, offset, records, output, scratch,
                     at, popped>>
  BY DEF WorkerGetsRange, WorkerGoto, queueVars, calls
<1>2. WorkerOK(w)'
  BY <1>1, DomainFacts
  DEF LocalInv, WorkerInv, WorkerOK, BatchLabels, scratch, InArena
<1>3. WorkerInv'
  BY <1>1, <1>2, OneWorkerMoves, DomainFacts DEF LocalInv, WorkerInv, scratch
<1> QED BY <1>1, <1>3, MainFrame, SlotFrame DEF Parts

LEMMA WorkerEndsPreserves ==
    ASSUME LocalInv, NEW w \in Workers, WorkerEnds(w)
    PROVE  Parts
<1>1. /\ worker[w] = "popping" /\ worker' = [worker EXCEPT ![w] = "exited"]
      /\ at[w] = "out" /\ arena' = [arena EXCEPT ![w] = {}]
      /\ UNCHANGED <<config, size, mainAt, offset, records, output, normalized,
                     canonical, at, popped>>
  BY DEF WorkerEnds, WorkerExits, WorkerGoto, queueVars, calls
<1>2. WorkerOK(w)'
  BY <1>1, DomainFacts DEF LocalInv, WorkerInv, WorkerOK, BatchLabels
<1>3. WorkerInv'
  BY <1>1, <1>2, OneWorkerMoves, DomainFacts DEF LocalInv, WorkerInv
<1> QED BY <1>1, <1>3, MainFrame, SlotFrame DEF Parts

LEMMA ResetBeforePreserves ==
    ASSUME LocalInv, NEW w \in Workers, ResetBefore(w)
    PROVE  Parts
<1>1. /\ worker[w] = "reset" /\ 0 < popped[w].count
      /\ worker' = [worker EXCEPT ![w] = "normalize"]
      /\ arena' = Released(w) /\ offset' = [offset EXCEPT ![w] = 0]
      /\ UNCHANGED <<config, size, mainAt, records, output, normalized,
                     canonical, at, popped>>
  <2>1. worker[w] = "reset"
    BY DEF ResetBefore, WorkerGoto
  <2>2. 0 < popped[w].count
    BY <2>1, RangeFacts DEF BatchLabels
  <2> QED BY <2>1, <2>2 DEF ResetBefore, WorkerGoto, queueVars, calls
<1>2. WorkerOK(w)'
  BY <1>1, DomainFacts
  DEF LocalInv, WorkerInv, WorkerOK, BatchLabels, Released, InArena
<1>3. WorkerInv'
  BY <1>1, <1>2, OneWorkerMoves, DomainFacts DEF LocalInv, WorkerInv, Released
<1> QED BY <1>1, <1>3, MainFrame, SlotFrame DEF Parts

LEMMA NormalizePreserves ==
    ASSUME LocalInv, NEW w \in Workers, Normalize(w)
    PROVE  Parts
<1>1. /\ worker[w] = "normalize"
      /\ worker' = [worker EXCEPT ![w] = "calculate"]
      /\ normalized' = [normalized EXCEPT ![w] = OutputIndex(w)]
      /\ arena' = IF InArena
                    THEN [arena EXCEPT ![w] = @ \cup {OutputIndex(w)}]
                    ELSE arena
      /\ UNCHANGED <<config, size, mainAt, offset, records, output, canonical,
                     at, popped>>
  BY DEF Normalize, WorkerGoto, queueVars, calls
<1>2. OutputIndex(w) \in Taken(w) /\ offset[w] < popped[w].count
  BY <1>1, IndexFacts
<1>3. /\ worker'[w] = "calculate" /\ normalized'[w] = OutputIndex(w)
      /\ arena'[w] = IF InArena THEN arena[w] \cup {OutputIndex(w)} ELSE arena[w]
      /\ OutputIndex(w)' = OutputIndex(w) /\ Taken(w)' = Taken(w)
      /\ InArena' = InArena
  BY <1>1, DomainFacts DEF LocalInv, OutputIndex, Taken, InArena
<1>4. WorkerOK(w)'
  BY <1>1, <1>2, <1>3 DEF LocalInv, WorkerInv, WorkerOK, BatchLabels
<1>5. WorkerInv'
  BY <1>1, <1>4, OneWorkerMoves, DomainFacts DEF LocalInv, WorkerInv
<1> QED BY <1>1, <1>5, MainFrame, SlotFrame DEF Parts

\* What calculate keeps of the normalised record owns its texts and is the
\* record at the worker's position: nothing it read had been released.
LEMMA CalculateFacts ==
    ASSUME LocalInv, NEW w \in Workers, worker[w] = "calculate"
    PROVE  Own(NormalizedView(w)) = Owned(OutputIndex(w))
<1>1. normalized[w] = OutputIndex(w) /\ (InArena => normalized[w] \in arena[w])
  BY DEF LocalInv, WorkerInv, WorkerOK
<1>2. NormalizedView(w) = [content |-> ProcessOne(OutputIndex(w)),
                           owner   |-> IF InArena THEN w ELSE Heap]
  BY <1>1 DEF NormalizedView
<1> QED BY <1>2 DEF Own, Owned

LEMMA CalculatePreserves ==
    ASSUME LocalInv, NEW w \in Workers, Calculate(w)
    PROVE  Parts
<1>1. /\ worker[w] = "calculate"
      /\ worker' = [worker EXCEPT ![w] = "store"]
      /\ canonical' = [canonical EXCEPT ![w] = Own(NormalizedView(w))]
      /\ UNCHANGED <<config, size, mainAt, offset, records, output, normalized,
                     arena, at, popped>>
  BY DEF Calculate, WorkerGoto, queueVars, calls
<1>2. DOMAIN canonical = Workers
  BY DEF LocalInv, WorkerInv
<1>3. /\ worker'[w] = "store" /\ canonical'[w] = Owned(OutputIndex(w))
      /\ OutputIndex(w)' = OutputIndex(w) /\ Taken(w)' = Taken(w)
      /\ InArena' = InArena /\ \A i : Owned(i)' = Owned(i)
  BY <1>1, <1>2, CalculateFacts, DomainFacts
  DEF LocalInv, OutputIndex, Taken, InArena, Owned
<1>4. WorkerOK(w)'
  BY <1>1, <1>3 DEF LocalInv, WorkerInv, WorkerOK, BatchLabels
<1>5. WorkerInv'
  BY <1>1, <1>2, <1>4, OneWorkerMoves, DomainFacts DEF LocalInv, WorkerInv
<1> QED BY <1>1, <1>5, MainFrame, SlotFrame DEF Parts

LEMMA StoreRecordPreserves ==
    ASSUME LocalInv, NEW w \in Workers, StoreRecord(w)
    PROVE  Parts
<1>1. /\ worker[w] = "store"
      /\ worker' = [worker EXCEPT ![w] = IF offset[w] + 1 < popped[w].count
                                           THEN "normalize" ELSE "release"]
      /\ records' = [records EXCEPT ![OutputIndex(w)] = canonical[w]]
      /\ offset' = [offset EXCEPT ![w] = offset[w] + 1]
      /\ normalized' = [normalized EXCEPT ![w] = NoText]
      /\ canonical' = [canonical EXCEPT ![w] = NoText]
      /\ UNCHANGED <<config, size, mainAt, output, arena, at, popped>>
  BY DEF StoreRecord, WorkerGoto, queueVars, calls
<1>2. DOMAIN canonical = Workers /\ canonical[w] = Owned(OutputIndex(w))
  BY <1>1 DEF LocalInv, WorkerInv, WorkerOK
<1>3. /\ worker'[w] = IF offset[w] + 1 < popped[w].count
                        THEN "normalize" ELSE "release"
      /\ offset'[w] = offset[w] + 1
      /\ normalized'[w] = NoText /\ canonical'[w] = NoText
      /\ Taken(w)' = Taken(w) /\ InArena' = InArena
  BY <1>1, <1>2, DomainFacts DEF LocalInv, Taken, InArena
<1>4. WorkerOK(w)'
  BY <1>1, <1>3 DEF LocalInv, WorkerInv, WorkerOK, BatchLabels
<1>5. WorkerInv'
  BY <1>1, <1>2, <1>4, OneWorkerMoves, DomainFacts DEF LocalInv, WorkerInv
<1>6. SlotInv'
  BY <1>1, <1>2, DomainFacts
  DEF LocalInv, SlotInv, Positions, Blank, Owned
<1> QED BY <1>1, <1>5, <1>6, MainFrame DEF Parts

LEMMA ResetAfterPreserves ==
    ASSUME LocalInv, NEW w \in Workers, ResetAfter(w)
    PROVE  Parts
<1>1. /\ worker[w] = "release" /\ worker' = [worker EXCEPT ![w] = "loop"]
      /\ arena' = Released(w)
      /\ UNCHANGED <<config, size, mainAt, offset, records, output, normalized,
                     canonical, at, popped>>
  BY DEF ResetAfter, WorkerGoto, queueVars, calls
<1>2. WorkerOK(w)'
  BY <1>1, DomainFacts
  DEF LocalInv, WorkerInv, WorkerOK, BatchLabels, Released, InArena
<1>3. WorkerInv'
  BY <1>1, <1>2, OneWorkerMoves, DomainFacts DEF LocalInv, WorkerInv, Released
<1> QED BY <1>1, <1>3, MainFrame, SlotFrame DEF Parts

-----------------------------------------------------------------------------
(* The invariant.                                                          *)

LEMMA TypeNext == LocalInv /\ [Next]_vars => TypeOK'
<1> SUFFICES ASSUME LocalInv, [Next]_vars PROVE TypeOK'
  OBVIOUS
<1> USE DEF LocalInv
<1>1. QueueTypeOK(BatchItems)'
  BY QueueTypesNext
<1>2. UNCHANGED <<config, size>> /\ Positions' = Positions /\ Records' = Records
  BY ConstantParts DEF Positions, Records
<1>3. /\ mainAt' \in MainLabels
      /\ worker' \in [Workers -> {"unborn", "loop", "popping", "exited"}
                                 \cup BatchLabels]
  BY DEF TypeOK, MainLabels, BatchLabels, MainGoto, WorkerGoto, Next, vars,
     pipelineVars, InQueue, MainStep, PoolStep, WorkerStep, SpawnWorker,
     AllSpawned, PushRange, PushItem, NextBatch, CloseQueue, ClearWorkers,
     Return, Throw, Rethrow, WorkerPop, WorkerGetsRange, WorkerEnds,
     WorkerExits, ResetBefore, Normalize, Calculate, StoreRecord, ResetAfter,
     Finished
<1>4. offset' \in [Workers -> Nat]
  BY DEF TypeOK, Next, vars, pipelineVars, InQueue, MainStep, PoolStep,
     WorkerStep, SpawnWorker, AllSpawned, PushRange, PushItem, NextBatch,
     CloseQueue, ClearWorkers, Return, Throw, Rethrow, WorkerPop,
     WorkerGetsRange, WorkerEnds, WorkerExits, ResetBefore, Normalize,
     Calculate, StoreRecord, ResetAfter, Finished
<1>5. start' \in Words
  <2>1. CASE NextBatch
    BY <2>1, Arithmetic DEF NextBatch, Advanced, Words
  <2>2. CASE UNCHANGED start
    BY <2>2 DEF TypeOK
  <2> QED
    BY <2>1, <2>2
    DEF Next, vars, pipelineVars, InQueue, MainStep, PoolStep, WorkerStep,
        SpawnWorker, AllSpawned, PushRange, PushItem, CloseQueue, ClearWorkers,
        Return, Throw, Rethrow, WorkerPop, WorkerGetsRange, WorkerEnds,
        WorkerExits, ResetBefore, Normalize, Calculate, StoreRecord, ResetAfter,
        Finished
<1>6. ASSUME NEW w \in Workers, worker[w] \in {"normalize", "calculate", "store"}
      PROVE  OutputIndex(w) \in Positions /\ Owned(OutputIndex(w)) \in Records
  BY <1>6, IndexFacts DEF Records, Owned
<1>7. /\ arena' \in [Workers -> SUBSET Positions]
      /\ normalized' \in [Workers -> Positions \cup {NoText}]
  BY <1>6 DEF TypeOK, Released, Next, vars, scratch, InQueue, MainStep,
     WorkerStep, WorkerGoto, WorkerGetsRange, WorkerEnds, ResetBefore,
     Normalize, Calculate, StoreRecord, ResetAfter, Finished
<1>8. records' \in [Positions -> Records]
  <2>1. ASSUME NEW w \in Workers, StoreRecord(w)
        PROVE  records' \in [Positions -> Records]
    <3>1. canonical[w] = Owned(OutputIndex(w)) /\ worker[w] = "store"
      BY <2>1 DEF WorkerInv, WorkerOK, StoreRecord, WorkerGoto
    <3> QED BY <1>6, <2>1, <3>1 DEF StoreRecord, TypeOK
  <2>2. CASE UNCHANGED records
    BY <2>2 DEF TypeOK
  <2> QED
    BY <2>1, <2>2
    DEF Next, vars, pipelineVars, InQueue, MainStep, PoolStep, WorkerStep,
        SpawnWorker, AllSpawned, PushRange, PushItem, NextBatch, CloseQueue,
        ClearWorkers, Return, Throw, Rethrow, WorkerPop, WorkerGetsRange,
        WorkerEnds, WorkerExits, ResetBefore, Normalize, Calculate, ResetAfter,
        Finished
<1>9. ASSUME NEW v \in Workers
      PROVE  canonical'[v] = NoText \/ canonical'[v] \in Records
  <2>1. ASSUME NEW w \in Workers, Calculate(w)
        PROVE  canonical'[v] = NoText \/ canonical'[v] \in Records
    <3>1. worker[w] = "calculate"
      BY <2>1 DEF Calculate, WorkerGoto
    <3>2. Own(NormalizedView(w)) \in Records
      BY <1>6, <3>1, CalculateFacts
    <3> QED BY <2>1, <3>2 DEF Calculate, TypeOK, WorkerInv
  <2>2. ASSUME NEW w \in Workers, StoreRecord(w)
        PROVE  canonical'[v] = NoText \/ canonical'[v] \in Records
    BY <2>2 DEF StoreRecord, TypeOK, WorkerInv
  <2>3. CASE UNCHANGED canonical
    BY <2>3 DEF TypeOK
  <2> QED
    BY <2>1, <2>2, <2>3
    DEF Next, vars, scratch, InQueue, MainStep, WorkerStep, WorkerGetsRange,
        WorkerEnds, ResetBefore, Normalize, ResetAfter, Finished
<1> QED
  BY <1>1, <1>2, <1>3, <1>4, <1>5, <1>7, <1>8, <1>9 DEF TypeOK

LEMMA LocalInvNext == LocalInv /\ [Next]_vars => LocalInv'
<1> SUFFICES ASSUME LocalInv, [Next]_vars PROVE LocalInv'
  OBVIOUS
<1>1. TypeOK' /\ QueueTypeOK(RangesIn(size))'
  BY TypeNext, QueueTypesNext
<1>2. ASSUME UNCHANGED vars
      PROVE  Parts
  <2>1. UNCHANGED <<pipelineVars, scratch, at, popped>>
    BY <1>2 DEF vars, queueVars, calls
  <2>2. ASSUME NEW w \in Workers
        PROVE  WorkerOK(w)'
    BY <2>1, WorkerFrame DEF LocalInv, WorkerInv, pipelineVars, scratch
  <2>3. WorkerInv' /\ MainInv'
    BY <2>1, <2>2
    DEF LocalInv, WorkerInv, MainInv, AllExited, Spawned, pipelineVars, scratch
  <2> QED BY <2>1, <2>3, SlotFrame DEF Parts, pipelineVars
<1>3. ASSUME MainStep \/ (Throw /\ UNCHANGED scratch)
      PROVE  Parts
  BY <1>3, MainStepsPreserve
<1>4. ASSUME NEW w \in Workers, WorkerStep(w)
      PROVE  Parts
  BY <1>4, WorkerPopPreserves, WorkerGetsRangePreserves, WorkerEndsPreserves,
     ResetBeforePreserves, NormalizePreserves, CalculatePreserves,
     StoreRecordPreserves, ResetAfterPreserves DEF WorkerStep
<1>5. ASSUME InQueue
      PROVE  Parts
  BY <1>5, QueueStepsPreserve
<1>6. Parts
  BY <1>2, <1>3, <1>4, <1>5 DEF Next, Finished
<1> QED BY <1>1, <1>6 DEF LocalInv, Parts

\* The inductive invariant holds in every behaviour.
THEOREM LocalInvariant == SafeSpec => []LocalInv
  BY InitHolds, LocalInvNext, PTL DEF SafeSpec

-----------------------------------------------------------------------------
(* What follows from it.                                                   *)

\* Types.
THEOREM OptimizedTypes == SafeSpec => []TypeOK
  BY LocalInvariant, PTL DEF LocalInv

\* No text is read after the arena it is in was released, and none that was
\* stored or returned is in an arena at all.
THEOREM TextsAreBacked == SafeSpec => []EveryTextIsBacked
<1>1. LocalInv => EveryTextIsBacked
  <2> SUFFICES ASSUME LocalInv PROVE EveryTextIsBacked
    OBVIOUS
  <2>1. ASSUME NEW w \in Workers
        PROVE  /\ normalized[w] # NoText /\ InArena => normalized[w] \in arena[w]
               /\ canonical[w] # NoText => canonical[w].owner = Heap
    BY DEF LocalInv, WorkerInv, WorkerOK, Owned
  <2>2. ASSUME NEW i \in Positions
        PROVE  records[i].owner = Heap
    BY DEF LocalInv, SlotInv, Blank, Owned
  <2>3. mainAt = "returned" => output.records = records
    BY DEF LocalInv, MainInv
  <2> QED BY <2>1, <2>2, <2>3 DEF EveryTextIsBacked
<1> QED BY <1>1, LocalInvariant, PTL

\* An arena holds the texts of at most the range its worker is at, and is
\* empty between two ranges, for any number of ranges.
THEOREM ArenasAreBounded == SafeSpec => []ArenaHoldsOneBatch
<1>1. LocalInv => ArenaHoldsOneBatch
  BY DEF LocalInv, WorkerInv, WorkerOK, Taken, ArenaHoldsOneBatch
<1> QED BY <1>1, LocalInvariant, PTL

\* Every range in the queue or with a worker lies inside the input, and no
\* worker has one when the call is over, by return or by exception.
THEOREM BorrowEnds == SafeSpec => []BorrowEndsInCall
<1>1. LocalInv => BorrowEndsInCall
  <2> SUFFICES ASSUME LocalInv PROVE BorrowEndsInCall
    OBVIOUS
  <2>1. ASSUME NEW q \in 1 .. Len(items_)
        PROVE  items_[q].start + items_[q].count <= size
    <3>1. items_ \in Seq(RangesIn(size))
      BY DEF LocalInv, QueueTypeOK
    <3>2. items_[q] \in RangesIn(size)
      BY <3>1, ElementOfSeq
    <3> QED BY <3>2 DEF RangesIn
  <2>2. ASSUME NEW w \in Workers, worker[w] \in BatchLabels
        PROVE  /\ popped[w].start + popped[w].count <= size
               /\ mainAt \notin {"returned", "thrown"}
    BY <2>2, RangeFacts
    DEF LocalInv, MainInv, AllExited, Spawned, BatchLabels
  <2> QED BY <2>1, <2>2 DEF BorrowEndsInCall
<1> QED BY <1>1, LocalInvariant, PTL

-----------------------------------------------------------------------------
(* The refinement: what solution 01 sees of the state, each range copied   *)
(* out into an item.                                                       *)

Items01 == [q \in 1 .. Len(items_) |-> ItemOf(items_[q])]
Pushing01 == [p \in Producers |-> ItemOf(pushing[p])]
Popped01 == [w \in Workers |-> ItemOf(popped[w])]
Worker01 == [w \in Workers |-> BatchedLabel(w)]
Offset01 == [w \in Workers |-> IF worker[w] = "reset" THEN 0 ELSE offset[w]]
Output01 == IF output = <<>> THEN output
            ELSE [output EXCEPT !.records = Contents(@)]

\* Everything solution 01 has but the queue's variables.
Pool01 == <<BatchedConfig(config), size, mainAt, Worker01, Offset01, start,
            Contents(records), input_bytes, output_bytes, Output01>>

LEMMA ItemOfRange ==
    ASSUME NEW r \in BatchItems
    PROVE  /\ ItemOf(r) = [output_start    |-> r.start,
                           encoded_records |-> [k \in 1 .. r.count |->
                                                    r.start + (k - 1)]]
           /\ ItemOf(r).output_start = r.start
           /\ Len(ItemOf(r).encoded_records) = r.count
           /\ \A k \in 1 .. r.count :
                ItemOf(r).encoded_records[k] = r.start + (k - 1)
           /\ ItemOf(r) # NoItem
<1>1. r # NoItem /\ r.start \in Nat /\ r.count \in Nat
  BY OptimizedAssumption DEF BatchItems
<1> DEFINE seq == [k \in 1 .. r.count |-> r.start + (k - 1)]
<1>2. ItemOf(r) = [output_start |-> r.start, encoded_records |-> seq]
  BY <1>1 DEF ItemOf
<1>3. seq \in Seq(Nat) /\ Len(seq) = r.count
  <2>1. \A k \in 1 .. r.count : r.start + (k - 1) \in Nat
    BY <1>1
  <2>2. seq \in [1 .. r.count -> Nat]
    BY <2>1
  <2> QED BY <1>1, <2>2, SeqDef
<1>4. \A k \in 1 .. r.count : seq[k] = r.start + (k - 1)
  OBVIOUS
<1> HIDE DEF seq
<1>5. ItemOf(r) \in [output_start : Nat, encoded_records : Seq(Nat)]
  BY <1>1, <1>2, <1>3
<1>6. ItemOf(r).output_start = r.start /\ ItemOf(r).encoded_records = seq
  BY <1>2
<1> QED BY <1>2, <1>3, <1>4, <1>5, <1>6, OptimizedAssumption DEF seq

LEMMA ItemsFacts ==
    ASSUME LocalInv
    PROVE  /\ items_ \in Seq(BatchItems)
           /\ Items01 \in Seq({ItemOf(r) : r \in BatchItems})
           /\ Len(Items01) = Len(items_)
           /\ Items01 = <<>> <=> items_ = <<>>
<1>1. items_ \in Seq(BatchItems) /\ Len(items_) \in Nat
  BY LenProperties DEF LocalInv, TypeOK, QueueTypeOK
<1>2. \A q \in 1 .. Len(items_) : items_[q] \in BatchItems
  BY <1>1, ElementOfSeq
<1>3. Items01 \in [1 .. Len(items_) -> {ItemOf(r) : r \in BatchItems}]
  BY <1>2 DEF Items01
<1>4. Items01 \in Seq({ItemOf(r) : r \in BatchItems}) /\ Len(Items01) = Len(items_)
  BY <1>1, <1>3, SeqDef
<1> QED BY <1>1, <1>4, EmptySeq

LEMMA ItemsAppend ==
    ASSUME LocalInv, NEW r \in BatchItems, items_' = Append(items_, r)
    PROVE  Items01' = Append(Items01, ItemOf(r))
<1> DEFINE S == {ItemOf(x) : x \in BatchItems}
           s == Append(Items01, ItemOf(r))
<1>1. /\ Len(items_') = Len(items_) + 1 /\ Len(items_) \in Nat
      /\ \A q \in 1 .. Len(items_) : items_'[q] = items_[q]
      /\ items_'[Len(items_) + 1] = r
  BY ItemsFacts, AppendProperties, LenProperties
<1>2. /\ s \in Seq(S) /\ Len(s) = Len(items_) + 1
      /\ \A q \in 1 .. Len(items_) : s[q] = ItemOf(items_[q])
      /\ s[Len(items_) + 1] = ItemOf(r)
  <2>1. ItemOf(r) \in S /\ Items01 \in Seq(S) /\ Len(Items01) = Len(items_)
    BY ItemsFacts
  <2>2. /\ s \in Seq(S) /\ Len(s) = Len(Items01) + 1
        /\ \A q \in 1 .. Len(Items01) : s[q] = Items01[q]
        /\ s[Len(Items01) + 1] = ItemOf(r)
    BY <2>1, AppendProperties
  <2> QED BY <2>1, <2>2 DEF Items01
<1> HIDE DEF s, S
<1>3. s = [q \in 1 .. Len(items_) + 1 |-> s[q]]
  BY <1>1, <1>2, LenProperties
<1>4. Items01' = [q \in 1 .. Len(items_) + 1 |-> ItemOf(items_'[q])]
  BY <1>1 DEF Items01, ItemOf
<1>5. \A q \in 1 .. Len(items_) + 1 : ItemOf(items_'[q]) = s[q]
  BY <1>1, <1>2
<1> QED BY <1>3, <1>4, <1>5 DEF s

LEMMA ItemsTail ==
    ASSUME LocalInv, items_ # <<>>, items_' = Tail(items_)
    PROVE  /\ Items01 # <<>>
           /\ Items01' = Tail(Items01)
           /\ Head(Items01) = ItemOf(Head(items_))
<1> DEFINE S == {ItemOf(x) : x \in BatchItems}
           s == Tail(Items01)
<1>1. /\ Len(items_') = Len(items_) - 1
      /\ Len(items_) \in Nat /\ Len(items_) > 0
      /\ \A q \in 1 .. Len(items_') : items_'[q] = items_[q + 1]
      /\ Head(items_) = items_[1]
  BY ItemsFacts, HeadTailProperties, LenProperties, EmptySeq
<1>2. /\ Items01 # <<>> /\ Items01 \in Seq(S) /\ Len(Items01) = Len(items_)
  BY ItemsFacts
<1> HIDE DEF S
<1>3. /\ s \in Seq(S) /\ Len(s) = Len(items_) - 1
      /\ \A q \in 1 .. Len(s) : s[q] = Items01[q + 1]
      /\ Head(Items01) = Items01[1]
  BY <1>2, HeadTailProperties
<1>4. \A q \in 1 .. Len(s) : s[q] = ItemOf(items_[q + 1])
  BY <1>1, <1>3 DEF Items01
<1> HIDE DEF s
<1>5. s = [q \in 1 .. Len(items_) - 1 |-> s[q]]
  BY <1>3, LenProperties
<1>6. Items01' = [q \in 1 .. Len(items_) - 1 |-> ItemOf(items_'[q])]
  BY <1>1 DEF Items01, ItemOf
<1>7. Items01' = s
  BY <1>1, <1>3, <1>4, <1>5, <1>6
<1>8. Items01[1] = ItemOf(items_[1])
  BY <1>1 DEF Items01
<1> QED BY <1>1, <1>2, <1>3, <1>7, <1>8 DEF s

LEMMA QueueStepMaps ==
    ASSUME LocalInv, QueueStep
    PROVE  Batched!QueueStep
<1> USE ItemsFacts
    DEF Goto, Batched!Goto, NotifyOne, Batched!NotifyOne, calls, Batched!calls,
        metrics, Batched!metrics, Items01, Pushing01, Popped01
<1>s. UNCHANGED <<items_, pushing, popped>> =>
        UNCHANGED <<Items01, Pushing01, Popped01>>
  BY DEF ItemOf
<1>p. /\ pushing \in [Producers -> BatchItems \cup {NoItem}]
      /\ popped \in [Consumers -> BatchItems \cup {NoItem}]
      /\ ItemOf(NoItem) = NoItem
  BY DEF LocalInv, TypeOK, QueueTypeOK, ItemOf
<1>1. ASSUME NEW p \in Producers, PushEnter(p)
      PROVE  Batched!PushEnter(p)
  BY <1>1, <1>s DEF PushEnter, Batched!PushEnter, Full, Batched!Full
<1>2. ASSUME NEW p \in Producers, PushPredicate(p)
      PROVE  Batched!PushPredicate(p)
  BY <1>2, <1>s DEF PushPredicate, Batched!PushPredicate, MayPush,
     Batched!MayPush
<1>3. ASSUME NEW p \in Producers, PushBlock(p)
      PROVE  Batched!PushBlock(p)
  BY <1>3, <1>s DEF PushBlock, Batched!PushBlock
<1>4. ASSUME NEW p \in Producers, PushWake(p)
      PROVE  Batched!PushWake(p)
  BY <1>4, <1>s DEF PushWake, Batched!PushWake
<1>5. ASSUME NEW p \in Producers, pushing' = [pushing EXCEPT ![p] = NoItem]
      PROVE  Pushing01' = [Pushing01 EXCEPT ![p] = NoItem]
  BY <1>5, <1>p DEF ItemOf
<1>6. ASSUME NEW p \in Producers, PushDrop(p)
      PROVE  Batched!PushDrop(p)
  <2>1. Items01' = Items01 /\ Popped01' = Popped01
    BY <1>6 DEF PushDrop, ItemOf
  <2> QED BY <1>5, <1>6, <2>1 DEF PushDrop, Batched!PushDrop
<1>7. ASSUME NEW p \in Producers, PushAppend(p)
      PROVE  Batched!PushAppend(p)
  <2>1. pushing[p] \in BatchItems
    BY <1>7 DEF PushAppend, LocalInv, TypeOK, QueueTypeOK, PushLabels
  <2>2. Items01' = Append(Items01, ItemOf(pushing[p]))
    BY <1>7, <2>1, ItemsAppend DEF PushAppend
  <2>3. Popped01' = Popped01
    BY <1>7 DEF PushAppend, ItemOf
  <2>4. RaisedTo(max_occupancy, Len(items_) + 1)
          = Batched!RaisedTo(max_occupancy, Len(Items01) + 1)
    BY DEF RaisedTo, Batched!RaisedTo
  <2>5. Pushing01' = [Pushing01 EXCEPT ![p] = NoItem]
    BY <1>5, <1>7 DEF PushAppend
  <2>6. Pushing01[p] = ItemOf(pushing[p])
    OBVIOUS
  <2> QED
    BY <1>7, <2>2, <2>3, <2>4, <2>5, <2>6 DEF PushAppend, Batched!PushAppend
<1>8. ASSUME NEW c \in Consumers, PopEnter(c)
      PROVE  Batched!PopEnter(c)
  BY <1>8, <1>s DEF PopEnter, Batched!PopEnter
<1>9. ASSUME NEW c \in Consumers, PopPredicate(c)
      PROVE  Batched!PopPredicate(c)
  BY <1>9, <1>s DEF PopPredicate, Batched!PopPredicate, MayPop, Batched!MayPop
<1>10. ASSUME NEW c \in Consumers, PopBlock(c)
       PROVE  Batched!PopBlock(c)
  BY <1>10, <1>s DEF PopBlock, Batched!PopBlock
<1>11. ASSUME NEW c \in Consumers, PopWake(c)
       PROVE  Batched!PopWake(c)
  BY <1>11, <1>s DEF PopWake, Batched!PopWake
<1>12. ASSUME NEW c \in Consumers, PopNull(c)
       PROVE  Batched!PopNull(c)
  <2>1. Items01' = Items01 /\ Pushing01' = Pushing01
    BY <1>12 DEF PopNull, ItemOf
  <2>2. Popped01' = [Popped01 EXCEPT ![c] = NoItem]
    BY <1>12, <1>p DEF PopNull, ItemOf, Workers
  <2> QED BY <1>12, <2>1, <2>2 DEF PopNull, Batched!PopNull
<1>13. ASSUME NEW c \in Consumers, PopTake(c)
       PROVE  Batched!PopTake(c)
  <2>1. /\ Items01 # <<>> /\ Items01' = Tail(Items01)
        /\ Head(Items01) = ItemOf(Head(items_))
    BY <1>13, ItemsTail DEF PopTake
  <2>2. Popped01' = [Popped01 EXCEPT ![c] = Head(Items01)]
    BY <1>13, <1>p, <2>1 DEF PopTake, ItemOf, Workers
  <2>3. Pushing01' = Pushing01
    BY <1>13 DEF PopTake, ItemOf
  <2> QED BY <1>13, <2>1, <2>2, <2>3 DEF PopTake, Batched!PopTake
<1>14. ASSUME NEW p \in Producers, CloseStep(p)
       PROVE  Batched!CloseStep(p)
  BY <1>14, <1>s
  DEF CloseStep, CloseSet, CloseNotifyEmpty, CloseNotifyFull,
      Batched!CloseStep, Batched!CloseSet, Batched!CloseNotifyEmpty,
      Batched!CloseNotifyFull
<1>15. ASSUME NEW t \in Threads, SpuriousWakeup(t)
       PROVE  Batched!SpuriousWakeup(t) /\ t \in Batched!Threads
  BY <1>15, <1>s
  DEF SpuriousWakeup, Batched!SpuriousWakeup, Threads, Batched!Threads
<1> QED
  BY <1>1, <1>2, <1>3, <1>4, <1>6, <1>7, <1>8, <1>9, <1>10, <1>11, <1>12, <1>13,
     <1>14, <1>15
  DEF QueueStep, PushStep, PopStep, Batched!QueueStep, Batched!PushStep,
      Batched!PopStep

\* A range is never empty, so a worker's place is mapped by itself.
Label01(label) ==
    CASE label \in {"reset", "normalize", "calculate"} -> "process"
      [] label = "release" -> "loop"
      [] OTHER -> label

LEMMA LabelFacts ==
    ASSUME LocalInv
    PROVE  /\ Worker01 = [w \in Workers |-> Label01(worker[w])]
           /\ Batched!Spawned = Spawned
           /\ Batched!Cardinality(Batched!Spawned) = Cardinality(Spawned)
           /\ Batched!AllExited <=> AllExited
<1>1. ASSUME NEW w \in Workers
      PROVE  BatchedLabel(w) = Label01(worker[w])
  <2>1. worker[w] = "reset" => 0 < popped[w].count
    BY RangeFacts DEF BatchLabels
  <2> QED BY <2>1 DEF BatchedLabel, Label01
<1>2. \A label : /\ Label01(label) = "unborn" <=> label = "unborn"
                 /\ Label01(label) = "exited" <=> label = "exited"
  BY DEF Label01
<1>3. \A S : Batched!Cardinality(S) = Cardinality(S)
  BY DEF Cardinality, Batched!Cardinality
<1>4. Batched!Spawned = Spawned /\ (Batched!AllExited <=> AllExited)
  BY <1>1, <1>2
  DEF Batched!Spawned, Spawned, Batched!AllExited, AllExited, Batched!Workers,
      Workers
<1> QED BY <1>1, <1>3, <1>4 DEF Worker01

LEMMA LabelsNext ==
    ASSUME LocalInv'
    PROVE  Worker01' = [w \in Workers |-> Label01(worker'[w])]
<1>1. ASSUME NEW w \in Workers
      PROVE  BatchedLabel(w)' = Label01(worker'[w])
  <2>1. worker'[w] = "reset" => popped'[w] \in RangesIn(size')
    BY DEF LocalInv, WorkerInv, WorkerOK, BatchLabels, QueueTypeOK, Workers
  <2>2. worker'[w] = "reset" => 0 < popped'[w].count
    BY <2>1, ConstantParts DEF RangesIn, BatchItems, LocalInv, TypeOK
  <2> QED BY <2>2 DEF BatchedLabel, Label01
<1> QED BY <1>1 DEF Worker01

\* One worker moves, and perhaps sets its counter.
LEMMA WorkerMoves ==
    ASSUME LocalInv, LocalInv', NEW w \in Workers, NEW label,
           worker' = [worker EXCEPT ![w] = label]
    PROVE  /\ Worker01' = [Worker01 EXCEPT ![w] = Label01(label)]
           /\ Worker01[w] = Label01(worker[w])
  BY LabelFacts, LabelsNext, DomainFacts DEF LocalInv

LEMMA PoolFrame ==
    ASSUME LocalInv, LocalInv', UNCHANGED pipelineVars
    PROVE  UNCHANGED Pool01
<1>1. Worker01' = Worker01
  BY LabelFacts, LabelsNext DEF pipelineVars
<1> QED
  BY <1>1 DEF pipelineVars, Pool01, Offset01, Output01, Contents, BatchedConfig

LEMMA InQueueMaps ==
    ASSUME LocalInv, LocalInv', InQueue
    PROVE  Batched!InQueue
<1>1. Batched!QueueStep
  BY QueueStepMaps DEF InQueue
<1>2. UNCHANGED Pool01
  BY PoolFrame DEF InQueue
<1> QED
  BY <1>1, <1>2
  DEF Batched!InQueue, Batched!pipelineVars, Pool01, Worker01, Offset01, Output01

LEMMA StutterMaps ==
    ASSUME LocalInv, LocalInv', UNCHANGED <<queueVars, Pool01>>
    PROVE  UNCHANGED Batched!vars
  BY DEF Batched!vars, Batched!queueVars, Batched!pipelineVars, Batched!metrics,
     Batched!calls, queueVars, metrics, calls, Pool01, Worker01, Offset01,
     Output01, ItemOf

LEMMA PushRangeMaps ==
    ASSUME LocalInv, LocalInv', PushRange, UNCHANGED scratch
    PROVE  Batched!PushBatch
<1>1. /\ start < size /\ mainAt = "produce" /\ mainAt' = "push"
      /\ input_bytes' = input_bytes +
            MapThenSumSet(PayloadSize, start .. start + BatchCount - 1)
      /\ PushCall(Main, BuiltRange)
      /\ UNCHANGED <<config, size, worker, offset, start, records,
                     output_bytes, output>>
  BY DEF PushRange, PushItem, MainGoto
<1>2. Batched!BatchCount = BatchCount
  BY DEF Batched!BatchCount, BatchCount, BatchedConfig
<1>3. Batched!BuiltItem = ItemOf(BuiltRange)
  <2>1. BuiltRange \in BatchItems
    BY <1>1, BuiltRangeFacts DEF LocalInv
  <2> QED BY <1>2, <2>1, ItemOfRange DEF Batched!BuiltItem, BuiltRange
<1>4. \A S : Batched!MapThenSumSet(PayloadSize, S) = MapThenSumSet(PayloadSize, S)
  BY DEF MapThenSumSet, Batched!MapThenSumSet, MapThenFoldSet,
     Batched!MapThenFoldSet
<1>5. Batched!PushCall(Main, ItemOf(BuiltRange))
  <2>1. /\ at[Main] = "out" /\ Goto(Main, "push.lock")
        /\ pushing' = [pushing EXCEPT ![Main] = BuiltRange]
        /\ UNCHANGED <<capacity_, items_, closed_, mutex_, not_empty_, not_full_,
                       metrics, popped>>
    BY <1>1 DEF PushCall
  <2>2. Items01' = Items01 /\ Popped01' = Popped01
    BY <2>1 DEF Items01, Popped01, ItemOf
  <2>3. Pushing01' = [Pushing01 EXCEPT ![Main] = ItemOf(BuiltRange)]
    BY <1>1, <2>1, DomainFacts, ThreadFacts
    DEF LocalInv, Pushing01, ItemOf, BuiltRange, BatchCount
  <2> QED
    BY <2>1, <2>2, <2>3
    DEF Batched!PushCall, Goto, Batched!Goto, metrics, Batched!metrics, Items01,
        Popped01, Pushing01
<1>6. Worker01' = Worker01 /\ Offset01' = Offset01
  BY <1>1, LabelFacts, LabelsNext DEF Offset01
<1>7. UNCHANGED <<BatchedConfig(config), Contents(records), Output01>>
  BY <1>1 DEF BatchedConfig, Contents, Output01
<1>8. Batched!PushItem(Batched!BuiltItem)
  BY <1>1, <1>2, <1>3, <1>4, <1>5, <1>6, <1>7
  DEF Batched!PushItem, Batched!MainGoto, Worker01, Offset01, Output01
<1> QED BY <1>8 DEF Batched!PushBatch

LEMMA SpawnMaps ==
    ASSUME LocalInv, LocalInv', NEW w \in Workers, SpawnWorker(w)
    PROVE  Batched!SpawnWorker(w)
<1>1. /\ worker[w] = "unborn" /\ worker' = [worker EXCEPT ![w] = "loop"]
      /\ UNCHANGED <<queueVars, config, size, offset, start, records,
                     input_bytes, output_bytes, output>>
      /\ mainAt = "spawn" /\ mainAt' = "spawn"
      /\ Cardinality(Spawned) < config.worker_count
  BY DEF SpawnWorker, WorkerGoto, MainGoto
<1>2. Worker01' = [Worker01 EXCEPT ![w] = "loop"] /\ Worker01[w] = "unborn"
  BY <1>1, WorkerMoves DEF Label01
<1>3. Offset01' = Offset01
  BY <1>1, DomainFacts DEF Offset01, LocalInv
<1>4. UNCHANGED <<BatchedConfig(config), Contents(records), Output01>>
  BY <1>1 DEF BatchedConfig, Contents, Output01
<1>5. UNCHANGED Batched!queueVars
  BY <1>1 DEF queueVars, Batched!queueVars, metrics, Batched!metrics, calls,
     Batched!calls, ItemOf
<1>6. Batched!Cardinality(Batched!Spawned) < BatchedConfig(config).worker_count
  BY <1>1, LabelFacts DEF BatchedConfig
<1> QED
  BY <1>1, <1>2, <1>3, <1>4, <1>5, <1>6
  DEF Batched!SpawnWorker, Batched!MainGoto, Batched!WorkerGoto, Worker01,
      Offset01, Output01

LEMMA MainControlMaps ==
    ASSUME LocalInv, LocalInv',
           \/ AllSpawned \/ NextBatch \/ CloseQueue \/ ClearWorkers \/ Return
           \/ Rethrow \/ Throw
    PROVE  \/ Batched!AllSpawned \/ Batched!NextBatch \/ Batched!CloseQueue
           \/ Batched!ClearWorkers \/ Batched!Return \/ Batched!Rethrow
           \/ Batched!Throw
<1>1. UNCHANGED <<config, size, worker, offset, records, items_, pushing,
                  popped>>
  BY DEF AllSpawned, NextBatch, CloseQueue, CloseCall, ClearWorkers, Return,
     Rethrow, Throw, queueVars, calls
<1>2. Worker01' = Worker01 /\ Offset01' = Offset01
  BY <1>1, LabelFacts, LabelsNext DEF Offset01
<1>3. UNCHANGED <<BatchedConfig(config), Contents(records), Items01, Pushing01,
                  Popped01>>
  BY <1>1 DEF BatchedConfig, Contents, Items01, Pushing01, Popped01, ItemOf
<1>4. output' = output => Output01' = Output01
  BY DEF Output01, Contents
<1>5. UNCHANGED queueVars => UNCHANGED Batched!queueVars
  BY <1>3 DEF queueVars, Batched!queueVars, metrics, Batched!metrics, calls,
     Batched!calls, Items01, Pushing01, Popped01
<1>6. /\ Batched!Cardinality(Batched!Spawned) = Cardinality(Spawned)
      /\ (Batched!AllExited <=> AllExited)
      /\ BatchedConfig(config).worker_count = config.worker_count
      /\ BatchedConfig(config).batch_size = config.batch_size
  BY LabelFacts DEF BatchedConfig
<1> USE DEF MainGoto, Batched!MainGoto
<1>7. CASE AllSpawned
  BY <1>2, <1>3, <1>4, <1>5, <1>6, <1>7
  DEF AllSpawned, Batched!AllSpawned, Worker01, Offset01, Output01
<1>8. CASE NextBatch
  BY <1>2, <1>3, <1>4, <1>5, <1>6, <1>8
  DEF NextBatch, Batched!NextBatch, Advanced, Batched!Advanced, Worker01,
      Offset01, Output01
<1>9. CASE CloseQueue
  <2>1. Batched!CloseCall(Main)
    BY <1>3, <1>9
    DEF CloseQueue, CloseCall, Batched!CloseCall, Goto, Batched!Goto, metrics,
        Batched!metrics, calls, Batched!calls, Items01, Pushing01, Popped01
  <2> QED
    BY <1>2, <1>3, <1>4, <1>9, <2>1
    DEF CloseQueue, Batched!CloseQueue, Worker01, Offset01, Output01
<1>10. CASE ClearWorkers
  BY <1>2, <1>3, <1>4, <1>5, <1>10
  DEF ClearWorkers, Batched!ClearWorkers, Worker01, Offset01, Output01
<1>11. CASE Return
  <2>1. output' = [records |-> records, input_bytes |-> input_bytes,
                   output_bytes |-> output_bytes,
                   producer_waits |-> producer_waits,
                   consumer_waits |-> consumer_waits,
                   max_occupancy |-> max_occupancy]
    BY <1>11 DEF Return
  <2>2. output' # <<>>
    <3>1. DOMAIN output' # DOMAIN <<>>
      <4>1. "records" \in DOMAIN output' /\ DOMAIN <<>> = {}
        BY <2>1
      <4> QED BY <4>1
    <3> QED BY <3>1
  <2>3. Output01' = [records |-> Contents(records), input_bytes |-> input_bytes,
                     output_bytes |-> output_bytes,
                     producer_waits |-> producer_waits,
                     consumer_waits |-> consumer_waits,
                     max_occupancy |-> max_occupancy]
    BY <1>3, <2>1, <2>2 DEF Output01, Contents
  <2> QED
    BY <1>2, <1>3, <1>5, <1>6, <1>11, <2>3
    DEF Return, Batched!Return, Joined, Batched!Joined, Worker01, Offset01,
        Output01
<1>12. CASE Rethrow
  BY <1>2, <1>3, <1>4, <1>5, <1>6, <1>12
  DEF Rethrow, Batched!Rethrow, Joined, Batched!Joined, Worker01, Offset01,
      Output01
<1>13. CASE Throw
  BY <1>2, <1>3, <1>4, <1>5, <1>6, <1>13
  DEF Throw, Batched!Throw, Worker01, Offset01, Output01
<1> QED BY <1>7, <1>8, <1>9, <1>10, <1>11, <1>12, <1>13

\* A worker's steps.  Those that touch the arena alone are no step of 01.
LEMMA WorkerPopMaps ==
    ASSUME LocalInv, LocalInv', NEW w \in Workers, WorkerPop(w)
    PROVE  Batched!WorkerPop(w)
<1>1. /\ worker[w] = "loop" /\ worker' = [worker EXCEPT ![w] = "popping"]
      /\ PopCall(w)
      /\ UNCHANGED <<config, size, mainAt, offset, start, records, input_bytes,
                     output_bytes, output>>
  BY DEF WorkerPop, WorkerGoto
<1>2. Worker01' = [Worker01 EXCEPT ![w] = "popping"] /\ Worker01[w] = "loop"
  BY <1>1, WorkerMoves DEF Label01
<1>3. Offset01' = Offset01
  BY <1>1, DomainFacts DEF Offset01, LocalInv
<1>4. UNCHANGED <<BatchedConfig(config), Contents(records), Output01>>
  BY <1>1 DEF BatchedConfig, Contents, Output01
<1>5. Batched!PopCall(w)
  <2>1. /\ at[w] = "out" /\ at' = [at EXCEPT ![w] = "pop.lock"]
        /\ popped' = [popped EXCEPT ![w] = NoItem]
        /\ UNCHANGED <<capacity_, items_, closed_, mutex_, not_empty_, not_full_,
                       metrics, pushing>>
    BY <1>1 DEF PopCall, Goto
  <2>2. Items01' = Items01 /\ Pushing01' = Pushing01
    BY <2>1 DEF Items01, Pushing01, ItemOf
  <2>3. Popped01' = [Popped01 EXCEPT ![w] = NoItem]
    BY <2>1, DomainFacts DEF LocalInv, Popped01, ItemOf
  <2> QED
    BY <2>1, <2>2, <2>3
    DEF Batched!PopCall, Batched!Goto, metrics, Batched!metrics, Items01,
        Popped01, Pushing01
<1> QED
  BY <1>1, <1>2, <1>3, <1>4, <1>5
  DEF Batched!WorkerPop, Batched!WorkerGoto, Worker01, Offset01, Output01

\* A worker's local step leaves the queue as it is, in both.
LEMMA QueueFrameMaps ==
    ASSUME LocalInv, UNCHANGED queueVars
    PROVE  UNCHANGED Batched!queueVars
  BY DEF queueVars, Batched!queueVars, metrics, Batched!metrics, calls,
     Batched!calls, ItemOf

\* The item solution 01 has for the range of a worker.
LEMMA PoppedItem ==
    ASSUME LocalInv, NEW w \in Workers, popped[w] # NoItem
    PROVE  /\ popped[w] \in BatchItems /\ popped[w].count > 0
           /\ popped[w].start \in Nat /\ popped[w].count \in Nat
           /\ Popped01[w] = ItemOf(popped[w])
           /\ Popped01[w] # NoItem
           /\ Batched!BatchOf(w) = ItemOf(popped[w]).encoded_records
           /\ Len(Batched!BatchOf(w)) = popped[w].count
           /\ Popped01[w].output_start = popped[w].start
<1>1. popped[w] \in RangesIn(size)
  BY DEF LocalInv, QueueTypeOK, Workers
<1>2. /\ popped[w] \in BatchItems /\ popped[w].count > 0
      /\ popped[w].start \in Nat /\ popped[w].count \in Nat
  BY <1>1 DEF RangesIn, BatchItems
<1>3. Popped01[w] = ItemOf(popped[w])
  BY DEF Popped01
<1>4. Batched!BatchOf(w) = ItemOf(popped[w]).encoded_records
  BY DEF Batched!BatchOf
<1> QED BY <1>2, <1>3, <1>4, ItemOfRange

LEMMA WorkerGetsRangeMaps ==
    ASSUME LocalInv, LocalInv', NEW w \in Workers, WorkerGetsRange(w)
    PROVE  Batched!WorkerGetsItem(w)
<1>1. /\ worker[w] = "popping" /\ worker' = [worker EXCEPT ![w] = "reset"]
      /\ at[w] = "out" /\ popped[w] # NoItem
      /\ UNCHANGED <<queueVars, config, size, mainAt, offset, start, records,
                     input_bytes, output_bytes, output>>
  BY DEF WorkerGetsRange, WorkerGoto
<1>2. Worker01' = [Worker01 EXCEPT ![w] = "process"] /\ Worker01[w] = "popping"
  BY <1>1, WorkerMoves DEF Label01
<1>3. Offset01' = [Offset01 EXCEPT ![w] = 0]
  BY <1>1, DomainFacts DEF Offset01, LocalInv
<1>4. UNCHANGED <<BatchedConfig(config), Contents(records), Output01>>
  BY <1>1 DEF BatchedConfig, Contents, Output01
<1>5. UNCHANGED Batched!queueVars
  BY <1>1, QueueFrameMaps
<1>6. 0 < Len(Batched!BatchOf(w)) /\ Popped01[w] # NoItem
  BY <1>1, PoppedItem
<1> QED
  BY <1>1, <1>2, <1>3, <1>4, <1>5, <1>6
  DEF Batched!WorkerGetsItem, Batched!WorkerGoto, Worker01, Offset01, Output01,
      Popped01

LEMMA WorkerEndsMaps ==
    ASSUME LocalInv, LocalInv', NEW w \in Workers, WorkerEnds(w)
    PROVE  Batched!WorkerExits(w)
<1>1. /\ worker[w] = "popping" /\ worker' = [worker EXCEPT ![w] = "exited"]
      /\ at[w] = "out" /\ popped[w] = NoItem
      /\ UNCHANGED <<queueVars, config, size, mainAt, offset, start, records,
                     input_bytes, output_bytes, output>>
  BY DEF WorkerEnds, WorkerExits, WorkerGoto
<1>2. Worker01' = [Worker01 EXCEPT ![w] = "exited"] /\ Worker01[w] = "popping"
  BY <1>1, WorkerMoves DEF Label01
<1>3. Offset01' = Offset01
  BY <1>1, DomainFacts DEF Offset01, LocalInv
<1>4. UNCHANGED <<BatchedConfig(config), Contents(records), Output01>>
  BY <1>1 DEF BatchedConfig, Contents, Output01
<1>5. UNCHANGED Batched!queueVars
  BY <1>1, QueueFrameMaps
<1>6. Popped01[w] = NoItem
  BY <1>1 DEF Popped01, ItemOf
<1> QED
  BY <1>1, <1>2, <1>3, <1>4, <1>5, <1>6
  DEF Batched!WorkerExits, Batched!WorkerGoto, Worker01, Offset01, Output01,
      Popped01

LEMMA ArenaStepsStutter ==
    ASSUME LocalInv, LocalInv', NEW w \in Workers,
           ResetBefore(w) \/ Normalize(w) \/ ResetAfter(w)
    PROVE  UNCHANGED Batched!vars
<1>1. UNCHANGED <<queueVars, config, size, mainAt, start, records, input_bytes,
                  output_bytes, output>>
  BY DEF ResetBefore, Normalize, ResetAfter
<1>2. worker[w] = "reset" => 0 < popped[w].count
  BY RangeFacts DEF BatchLabels
<1>3. PICK label : /\ worker' = [worker EXCEPT ![w] = label]
                   /\ Label01(label) = Label01(worker[w])
  BY <1>2 DEF ResetBefore, Normalize, ResetAfter, WorkerGoto, Label01
<1>4. Worker01' = [Worker01 EXCEPT ![w] = Worker01[w]]
  BY <1>3, WorkerMoves
<1>5. Worker01' = Worker01
  BY <1>4 DEF Worker01
<1>6. Offset01' = Offset01
  BY DomainFacts
  DEF Offset01, LocalInv, ResetBefore, Normalize, ResetAfter, WorkerGoto
<1> QED
  BY <1>1, <1>5, <1>6, StutterMaps
  DEF Pool01, BatchedConfig, Contents, Output01

\* The record at hand, as solution 01 finds it: in the batch's own copy.
LEMMA RecordAtHand ==
    ASSUME LocalInv, NEW w \in Workers,
           worker[w] \in {"normalize", "calculate", "store"}
    PROVE  /\ Offset01[w] = offset[w]
           /\ Batched!BatchOf(w)[offset[w] + 1] = OutputIndex(w)
           /\ Len(Batched!BatchOf(w)) = popped[w].count
           /\ Popped01[w].output_start + offset[w] = OutputIndex(w)
<1>1. popped[w] # NoItem
  BY DEF LocalInv, WorkerInv, WorkerOK, BatchLabels
<1>2. offset[w] \in Nat /\ offset[w] < popped[w].count
  BY IndexFacts
<1>3. offset[w] + 1 \in 1 .. popped[w].count
  BY <1>1, <1>2, PoppedItem
<1>4. ItemOf(popped[w]).encoded_records[offset[w] + 1]
        = popped[w].start + (offset[w] + 1 - 1)
  <2>1. popped[w] \in BatchItems
    BY <1>1, PoppedItem
  <2>2. \A k \in 1 .. popped[w].count :
          ItemOf(popped[w]).encoded_records[k] = popped[w].start + (k - 1)
    BY <2>1, ItemOfRange
  <2>3. PICK k \in 1 .. popped[w].count : k = offset[w] + 1
    BY <1>3
  <2>4. ItemOf(popped[w]).encoded_records[k] = popped[w].start + (k - 1)
    BY <2>2
  <2>5. offset[w] \in Nat /\ popped[w].start \in Nat
    BY <1>1, <1>2, PoppedItem
  <2> QED BY <2>3, <2>4, <2>5
<1>5. popped[w].start + (offset[w] + 1 - 1) = popped[w].start + offset[w]
  BY <1>1, <1>2, PoppedItem
<1> QED
  BY <1>1, <1>4, <1>5, PoppedItem DEF Offset01, OutputIndex

LEMMA CalculateMaps ==
    ASSUME LocalInv, LocalInv', NEW w \in Workers, Calculate(w)
    PROVE  Batched!ProcessRecord(w)
<1>1. /\ worker[w] = "calculate" /\ worker' = [worker EXCEPT ![w] = "store"]
      /\ canonical' = [canonical EXCEPT ![w] = Own(NormalizedView(w))]
      /\ output_bytes' = output_bytes + EncodedSize(canonical'[w].content)
      /\ UNCHANGED <<queueVars, config, size, mainAt, offset, start, records,
                     input_bytes, output>>
  BY DEF Calculate, WorkerGoto
<1>2. Worker01' = [Worker01 EXCEPT ![w] = "store"] /\ Worker01[w] = "process"
  BY <1>1, WorkerMoves DEF Label01
<1>3. Offset01' = Offset01
  BY <1>1, DomainFacts DEF Offset01, LocalInv
<1>4. UNCHANGED <<BatchedConfig(config), Contents(records), Output01>>
  BY <1>1 DEF BatchedConfig, Contents, Output01
<1>5. UNCHANGED Batched!queueVars
  BY <1>1, QueueFrameMaps
<1>6. canonical'[w].content = ProcessOne(OutputIndex(w))
  BY <1>1, CalculateFacts DEF LocalInv, WorkerInv, Owned
<1>7. output_bytes' = output_bytes +
        EncodedSize(ProcessOne(Batched!BatchOf(w)[Offset01[w] + 1]))
  BY <1>1, <1>6, RecordAtHand
<1> QED
  BY <1>1, <1>2, <1>3, <1>4, <1>5, <1>7
  DEF Batched!ProcessRecord, Batched!WorkerGoto, Worker01, Offset01, Output01

LEMMA StoreRecordMaps ==
    ASSUME LocalInv, LocalInv', NEW w \in Workers, StoreRecord(w)
    PROVE  Batched!StoreRecord(w)
<1> DEFINE label == IF offset[w] + 1 < popped[w].count
                      THEN "normalize" ELSE "release"
<1>1. /\ worker[w] = "store" /\ worker' = [worker EXCEPT ![w] = label]
      /\ records' = [records EXCEPT ![OutputIndex(w)] = canonical[w]]
      /\ offset' = [offset EXCEPT ![w] = offset[w] + 1]
      /\ UNCHANGED <<queueVars, config, size, mainAt, start, input_bytes,
                     output_bytes, output>>
  BY DEF StoreRecord, WorkerGoto
<1>2. /\ Worker01' = [Worker01 EXCEPT ![w] = Label01(label)]
      /\ Worker01[w] = "store"
  BY <1>1, WorkerMoves DEF Label01
<1>3. Label01(label) = IF Offset01[w] + 1 < Len(Batched!BatchOf(w))
                         THEN "process" ELSE "loop"
  BY <1>1, RecordAtHand DEF Label01
<1> HIDE DEF label
<1>4. Offset01' = [Offset01 EXCEPT ![w] = Offset01[w] + 1]
  <2>1. worker'[w] # "reset"
    BY <1>1, DomainFacts DEF LocalInv, label
  <2>2. \A v \in Workers \ {w} : worker'[v] = worker[v] /\ offset'[v] = offset[v]
    BY <1>1
  <2>3. offset'[w] = offset[w] + 1 /\ Offset01[w] = offset[w]
    BY <1>1, DomainFacts, RecordAtHand DEF LocalInv
  <2> QED BY <2>1, <2>2, <2>3 DEF Offset01
<1>5. UNCHANGED <<BatchedConfig(config), Output01>> /\ UNCHANGED Batched!queueVars
  BY <1>1, QueueFrameMaps DEF BatchedConfig, Output01, Contents
<1>6. Contents(records)' = [Contents(records) EXCEPT ![Batched!SlotOf(w)] =
                              ProcessOne(Batched!BatchOf(w)[Offset01[w] + 1])]
  <2>1. canonical[w].content = ProcessOne(OutputIndex(w))
    BY <1>1 DEF LocalInv, WorkerInv, WorkerOK, Owned
  <2>2. OutputIndex(w) \in DOMAIN records
    BY <1>1, IndexFacts, DomainFacts DEF LocalInv
  <2>3. Contents(records)' = [Contents(records) EXCEPT ![OutputIndex(w)] =
                                canonical[w].content]
    BY <1>1, <2>2 DEF Contents
  <2>4. Batched!SlotOf(w) = OutputIndex(w)
    BY <1>1, RecordAtHand DEF Batched!SlotOf, Popped01, Offset01
  <2> QED BY <1>1, <2>1, <2>3, <2>4, RecordAtHand
<1> QED
  BY <1>1, <1>2, <1>3, <1>4, <1>5, <1>6
  DEF Batched!StoreRecord, Batched!WorkerGoto, Worker01, Offset01, Output01

LEMMA InitMaps == Init => Batched!Init
<1> SUFFICES ASSUME Init PROVE Batched!Init
  OBVIOUS
<1>0. LocalInv
  BY InitHolds
<1>1. /\ size \in Sizes /\ QueueInit(config.queue_capacity) /\ mainAt = "spawn"
      /\ worker = [w \in Workers |-> "unborn"]
      /\ offset = [w \in Workers |-> 0]
      /\ start = 0 /\ input_bytes = 0 /\ output_bytes = 0 /\ output = <<>>
      /\ records = [i \in Positions |-> Blank]
  BY DEF Init, PoolInit, Blank
<1>2. \E c \in {BatchedConfig(c) : c \in Configs} :
        BatchedConfig(config) = Batched!Normalized(c)
  <2>1. PICK c \in Configs : config = Normalized(c)
    BY DEF Init, PoolInit
  <2>2. c \in [worker_count : Words, queue_capacity : Words,
               batch_size : Words, allocation_mode : Modes]
    BY OptimizedAssumption
  <2>3. /\ config.worker_count = OneIfZero(c.worker_count)
        /\ config.queue_capacity = OneIfZero(c.queue_capacity)
        /\ config.batch_size = OneIfZero(c.batch_size)
    BY <2>1, <2>2 DEF Normalized
  <2>4. BatchedConfig(config) = Batched!Normalized(BatchedConfig(c))
    <3>1. ASSUME NEW raw \in [worker_count : Words, queue_capacity : Words,
                              batch_size : Words]
          PROVE  Batched!Normalized(raw)
                   = [worker_count   |-> Batched!OneIfZero(raw.worker_count),
                      queue_capacity |-> Batched!OneIfZero(raw.queue_capacity),
                      batch_size     |-> Batched!OneIfZero(raw.batch_size)]
      <4>1. PICK r : r = Batched!Normalized(raw)
        OBVIOUS
      <4>2. r = [worker_count   |-> Batched!OneIfZero(raw.worker_count),
                 queue_capacity |-> Batched!OneIfZero(raw.queue_capacity),
                 batch_size     |-> Batched!OneIfZero(raw.batch_size)]
        BY <4>1 DEF Batched!Normalized
      <4> QED BY <4>1, <4>2
    <3>2. BatchedConfig(c) \in [worker_count : Words, queue_capacity : Words,
                               batch_size : Words]
      BY <2>2 DEF BatchedConfig
    <3>3. \A n : Batched!OneIfZero(n) = OneIfZero(n)
      BY DEF Batched!OneIfZero, OneIfZero
    <3> QED BY <2>3, <3>1, <3>2, <3>3 DEF BatchedConfig
  <2> QED BY <2>4
<1>3. /\ Items01 = <<>> /\ Pushing01 = [p \in Producers |-> NoItem]
      /\ Popped01 = [w \in Workers |-> NoItem]
  <2>1. items_ = <<>> /\ pushing = [p \in Producers |-> NoItem]
        /\ popped = [w \in Workers |-> NoItem]
    BY <1>1 DEF QueueInit, Workers
  <2>2. Items01 = <<>>
    BY <1>0, <2>1, ItemsFacts
  <2>3. ItemOf(NoItem) = NoItem
    BY DEF ItemOf
  <2> QED BY <2>1, <2>2, <2>3 DEF Pushing01, Popped01
<1>4. Batched!QueueInit(BatchedConfig(config).queue_capacity)
  BY <1>1, <1>3
  DEF QueueInit, Batched!QueueInit, BatchedConfig, CapacityOf, Batched!CapacityOf,
      Threads, Batched!Threads, Items01, Pushing01, Popped01, Workers
<1>5. /\ Worker01 = [w \in Workers |-> "unborn"]
      /\ Offset01 = [w \in Workers |-> 0] /\ Output01 = <<>>
  BY <1>1 DEF Worker01, BatchedLabel, Offset01, Output01
<1>6. Contents(records) = [i \in Positions |-> Unset]
  BY <1>1 DEF Contents, Blank
<1> QED
  BY <1>1, <1>2, <1>4, <1>5, <1>6
  DEF Batched!Init, Batched!PoolInit, Batched!Positions, Positions,
      Batched!Workers, Workers, Worker01, Offset01, Output01

LEMMA StepMaps ==
    ASSUME LocalInv, LocalInv', [Next]_vars
    PROVE  [Batched!Next]_(Batched!vars)
<1>1. CASE UNCHANGED vars
  <2>1. UNCHANGED queueVars /\ UNCHANGED pipelineVars
    BY <1>1 DEF vars
  <2> QED BY <2>1, PoolFrame, StutterMaps
<1>2. CASE MainStep
  <2>1. CASE PushRange
    BY <1>2, <2>1, PushRangeMaps DEF MainStep, Batched!Next, Batched!MainStep
  <2>2. CASE PoolStep
    <3>1. ASSUME NEW w \in Workers, SpawnWorker(w)
          PROVE  Batched!PoolStep
      BY <3>1, SpawnMaps DEF Batched!PoolStep, Batched!Workers, Workers
    <3>2. Batched!PoolStep \/ Batched!Throw
      BY <2>2, <3>1, MainControlMaps DEF PoolStep, Batched!PoolStep
    <3> QED BY <3>2 DEF Batched!Next, Batched!MainStep
  <2> QED BY <1>2, <2>1, <2>2 DEF MainStep
<1>3. CASE Throw
  <2>1. \/ Batched!AllSpawned \/ Batched!NextBatch \/ Batched!CloseQueue
        \/ Batched!ClearWorkers \/ Batched!Return \/ Batched!Rethrow
        \/ Batched!Throw
    BY <1>3, MainControlMaps
  <2> QED BY <2>1 DEF Batched!Next, Batched!MainStep, Batched!PoolStep
<1>4. ASSUME NEW w \in Workers, WorkerStep(w)
      PROVE  Batched!WorkerStep(w) \/ UNCHANGED Batched!vars
  BY <1>4, WorkerPopMaps, WorkerGetsRangeMaps, WorkerEndsMaps, CalculateMaps,
     StoreRecordMaps, ArenaStepsStutter
  DEF WorkerStep, Batched!WorkerStep
<1>5. CASE InQueue
  BY <1>5, InQueueMaps DEF Batched!Next
<1>6. Workers = Batched!Workers
  BY DEF Workers, Batched!Workers
<1> QED
  BY <1>1, <1>2, <1>3, <1>4, <1>5, <1>6 DEF Next, Finished, Batched!Next

\* The lifetime-optimized pipeline does what the batched one does: every step
\* is one of solution 01's, or one that only touches an arena.
THEOREM OptimizedIsBatched == SafeSpec => ActsAsBatched
<1>1. LocalInv /\ LocalInv' /\ [Next]_vars => [Batched!Next]_(Batched!vars)
  BY StepMaps
<1> QED
  BY <1>1, InitMaps, LocalInvariant, PTL
  DEF SafeSpec, ActsAsBatched, Batched!SafeSpec
=============================================================================
