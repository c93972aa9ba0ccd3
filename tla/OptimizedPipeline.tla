------------------------- MODULE OptimizedPipeline --------------------------
(* process_records of solutions/02_lifetime_optimized/src/pipeline.cpp.    *)
(* The batches are index ranges that borrow the caller's input, and the    *)
(* normalised text of a record may live in its worker's arena, which is    *)
(* released before and after each batch.  The rest is as in solution 01,   *)
(* and the module is shown to implement BatchedPipeline.                   *)
(*                                                                         *)
(* What matters of a text is which record it belongs to and whose memory   *)
(* it is in: a canonical record is its content and the owner of the memory *)
(* of its strings, the heap or a worker's arena.                           *)
EXTENDS WorkerPool

CONSTANTS
    ProcessOne(_),  \* the canonical content of the record at a position
    EncodedSize(_), \* encoded_size of a canonical content
    Unset,          \* the content of a default-constructed CanonicalRecord
    Garbage,        \* what one reads in memory that was released
    Heap,           \* the owner of an ordinary string's memory
    NoText          \* a local that is not alive

Modes == {"ordinary", "batch_arena"}
BatchItems == [start : Nat, count : Nat]

ASSUME OptimizedAssumption ==
    /\ Configs \subseteq [worker_count : Words, queue_capacity : Words,
                          batch_size : Words, allocation_mode : Modes]
    /\ NoItem \notin BatchItems
    /\ NoItem \notin [output_start : Nat, encoded_records : Seq(Nat)]
    /\ Heap \notin Workers
    /\ NoText \notin Nat
    /\ \A n \in Sizes : \A i \in 0 .. n - 1 :
         /\ ProcessOne(i) \notin {Unset, Garbage}
         /\ EncodedSize(ProcessOne(i)) \in Nat

VARIABLES
    arena,          \* the records whose text is in each worker's arena
    normalized,     \* the record each worker has a BatchRecord of
    canonical       \* the canonical record each worker has at hand

scratch == <<arena, normalized, canonical>>
vars == <<queueVars, pipelineVars, scratch>>

Init ==
    /\ PoolInit([content |-> Unset, owner |-> Heap])
    /\ arena = [w \in Workers |-> {}]
    /\ normalized = [w \in Workers |-> NoText]
    /\ canonical = [w \in Workers |-> NoText]

-----------------------------------------------------------------------------
\* Mutant (as all names with an underscore inside, the next definition with a
\* plausible bug): a range holds its end where its length is meant.
BuiltRange_EndForCount == [start |-> start, count |-> start + BatchCount]

BuiltRange == [start |-> start, count |-> BatchCount]

PushRange == PushItem(BuiltRange)

-----------------------------------------------------------------------------
(* A worker: while (auto batch = queue.pop()) process_batch(...).  Its     *)
(* WorkerScratch is a local of the thread.                                 *)

InArena == config.allocation_mode = "batch_arena"

WorkerGetsRange(w) ==
    /\ at[w] = "out"
    /\ popped[w] # NoItem
    /\ WorkerGoto(w, "popping", "reset")
    /\ UNCHANGED <<queueVars, config, size, mainAt, offset, start, records,
                   input_bytes, output_bytes, output, scratch>>

\* The thread's locals end with it, and its arena with them.
WorkerEnds(w) ==
    /\ WorkerExits(w)
    /\ arena' = [arena EXCEPT ![w] = {}]
    /\ UNCHANGED <<normalized, canonical>>

\* Mutant: the arena is taken to be reset by whoever used it before.
Released_Never(w) == arena

\* WorkerScratch::reset
Released(w) == IF InArena THEN [arena EXCEPT ![w] = {}] ELSE arena

ResetBefore(w) ==
    /\ WorkerGoto(w, "reset", IF 0 < popped[w].count THEN "normalize"
                                                     ELSE "release")
    /\ arena' = Released(w)
    /\ offset' = [offset EXCEPT ![w] = 0]
    /\ UNCHANGED <<queueVars, config, size, mainAt, start, records,
                   input_bytes, output_bytes, output, normalized, canonical>>

OutputIndex(w) == popped[w].start + offset[w]

\* Mutant: the reset is moved into the loop, behind the normalisation.
Normalize_ThenReset(w) ==
    /\ WorkerGoto(w, "normalize", "calculate")
    /\ normalized' = [normalized EXCEPT ![w] = OutputIndex(w)]
    /\ arena' = Released(w)
    /\ UNCHANGED <<queueVars, config, size, mainAt, offset, start, records,
                   input_bytes, output_bytes, output, canonical>>

\* decode and normalize: a BatchRecord whose strings are in the resource.
Normalize(w) ==
    /\ WorkerGoto(w, "normalize", "calculate")
    /\ normalized' = [normalized EXCEPT ![w] = OutputIndex(w)]
    /\ arena' = IF InArena THEN [arena EXCEPT ![w] = @ \cup {OutputIndex(w)}]
                           ELSE arena
    /\ UNCHANGED <<queueVars, config, size, mainAt, offset, start, records,
                   input_bytes, output_bytes, output, canonical>>

\* A view of the normalised record: its content and whose memory it is in.
NormalizedView(w) ==
    [content |-> IF InArena /\ normalized[w] \notin arena[w]
                   THEN Garbage ELSE ProcessOne(normalized[w]),
     owner   |-> IF InArena THEN w ELSE Heap]

\* Mutant: the canonical record keeps views of the normalised strings.
Own_View(view) == view

\* own copies what a view refers to into an ordinary string.
Own(view) == [view EXCEPT !.owner = Heap]

\* calculate, and the atomic addition of its result's size.
Calculate(w) ==
    /\ WorkerGoto(w, "calculate", "store")
    /\ canonical' = [canonical EXCEPT ![w] = Own(NormalizedView(w))]
    /\ output_bytes' = output_bytes + EncodedSize(canonical'[w].content)
    /\ UNCHANGED <<queueVars, config, size, mainAt, offset, start, records,
                   input_bytes, output, arena, normalized>>

\* The move into the slot; the loop's locals end here.
StoreRecord(w) ==
    /\ WorkerGoto(w, "store", IF offset[w] + 1 < popped[w].count
                                THEN "normalize" ELSE "release")
    /\ records' = [records EXCEPT ![OutputIndex(w)] = canonical[w]]
    /\ offset' = [offset EXCEPT ![w] = offset[w] + 1]
    /\ normalized' = [normalized EXCEPT ![w] = NoText]
    /\ canonical' = [canonical EXCEPT ![w] = NoText]
    /\ UNCHANGED <<queueVars, config, size, mainAt, start, input_bytes,
                   output_bytes, output, arena>>

ResetAfter(w) ==
    /\ WorkerGoto(w, "release", "loop")
    /\ arena' = Released(w)
    /\ UNCHANGED <<queueVars, config, size, mainAt, offset, start, records,
                   input_bytes, output_bytes, output, normalized, canonical>>

-----------------------------------------------------------------------------
InQueue == QueueStep /\ UNCHANGED <<pipelineVars, scratch>>

MainStep == (PushRange \/ PoolStep) /\ UNCHANGED scratch

WorkerStep(w) ==
    \/ WorkerPop(w) /\ UNCHANGED scratch
    \/ WorkerGetsRange(w) \/ WorkerEnds(w)
    \/ ResetBefore(w) \/ Normalize(w) \/ Calculate(w) \/ StoreRecord(w)
    \/ ResetAfter(w)

\* The call is over; without this a finished run would be a deadlock.
Finished == mainAt \in {"returned", "thrown"} /\ UNCHANGED vars

Next ==
    \/ MainStep
    \/ Throw /\ UNCHANGED scratch
    \/ \E w \in Workers : WorkerStep(w)
    \/ InQueue
    \/ Finished

SafeSpec == Init /\ [][Next]_vars

\* The operating system runs every thread that can run; nothing has to fail.
Spec ==
    /\ SafeSpec
    /\ QueueFairness
    /\ WF_vars(MainStep)
    /\ \A w \in Workers : WF_vars(WorkerStep(w))

-----------------------------------------------------------------------------
BatchLabels == {"reset", "normalize", "calculate", "store", "release"}
Records == [content : {ProcessOne(i) : i \in Positions} \cup {Unset, Garbage},
            owner : Workers \cup {Heap}]

TypeOK ==
    /\ QueueTypeOK(BatchItems)
    /\ config \in [worker_count : Words \ {0}, queue_capacity : Words \ {0},
                   batch_size : Words \ {0}, allocation_mode : Modes]
    /\ size \in Sizes
    /\ mainAt \in MainLabels
    /\ worker \in [Workers -> {"unborn", "loop", "popping", "exited"}
                              \cup BatchLabels]
    /\ offset \in [Workers -> Nat]
    /\ start \in Words
    /\ records \in [Positions -> Records]
    /\ arena \in [Workers -> SUBSET Positions]
    /\ normalized \in [Workers -> Positions \cup {NoText}]
    /\ \A w \in Workers : canonical[w] = NoText \/ canonical[w] \in Records

\* No text outlives the memory it is in: what a worker still reads of its
\* normalised record, what it is about to store, and above all what was
\* stored, which survives the arenas.
EveryTextIsBacked ==
    LET Backed(record, i) == record.owner = Heap \/ i \in arena[record.owner]
    IN  /\ \A w \in Workers :
             /\ normalized[w] # NoText /\ InArena => normalized[w] \in arena[w]
             /\ canonical[w] # NoText => Backed(canonical[w], normalized[w])
        /\ \A i \in Positions : Backed(records[i], i)
        /\ mainAt = "returned" =>
             \A i \in Positions : Backed(output.records[i], i)

\* An arena never holds more than the batch its worker is at, and nothing
\* between two batches: temporary memory is bounded by the batch size, for
\* however many batches one worker processes.
ArenaHoldsOneBatch ==
    \A w \in Workers :
        arena[w] \subseteq
            IF worker[w] \in BatchLabels
              THEN popped[w].start .. popped[w].start + popped[w].count - 1
              ELSE {}

\* The input is borrowed for the duration of the call: every range in the
\* queue or with a worker lies inside the input, and none is left when the
\* call is over.
BorrowEndsInCall ==
    LET Inside(item) == item.start + item.count <= size
    IN  /\ \A q \in 1 .. Len(items_) : Inside(items_[q])
        /\ \A w \in Workers : worker[w] \in BatchLabels =>
             /\ Inside(popped[w])
             /\ mainAt \notin {"returned", "thrown"}

\* Solution 02 does what solution 01 does: copy the records of each range into
\* the item, and forget where the text is.  Every safety property of 01
\* (each record once, no race, the sequential result) carries over.
ItemOf(item) ==
    IF item = NoItem THEN NoItem
    ELSE [output_start    |-> item.start,
          encoded_records |-> [k \in 1 .. item.count |-> item.start + (k - 1)]]

BatchedLabel(w) ==
    CASE worker[w] = "reset" -> IF 0 < popped[w].count THEN "process" ELSE "loop"
      [] worker[w] \in {"normalize", "calculate"} -> "process"
      [] worker[w] = "release" -> "loop"
      [] OTHER -> worker[w]

BatchedConfig(c) == [worker_count   |-> c.worker_count,
                     queue_capacity |-> c.queue_capacity,
                     batch_size     |-> c.batch_size]

Contents(slots) == [i \in DOMAIN slots |-> slots[i].content]

Batched == INSTANCE BatchedPipeline WITH
    Configs <- {BatchedConfig(c) : c \in Configs},
    config <- BatchedConfig(config),
    items_ <- [q \in 1 .. Len(items_) |-> ItemOf(items_[q])],
    pushing <- [p \in Producers |-> ItemOf(pushing[p])],
    popped <- [w \in Workers |-> ItemOf(popped[w])],
    worker <- [w \in Workers |-> BatchedLabel(w)],
    offset <- [w \in Workers |-> IF worker[w] = "reset" THEN 0 ELSE offset[w]],
    records <- Contents(records),
    output <- IF output = <<>> THEN output
              ELSE [output EXCEPT !.records = Contents(@)]

ActsAsBatched == Batched!SafeSpec

\* How every call ends: it returns; or an exception thrown before any thread
\* was started reaches the caller; or, when one was started, the queue that
\* nobody closes is drained and the joins wait for ever for workers in pop.
ReturnsOrStrands ==
    \/ <>(mainAt = "returned")
    \/ <>(mainAt = "thrown" /\ Spawned = {})
    \/ <>[](/\ mainAt = "unwind" /\ Spawned # {} /\ items_ = <<>>
           /\ \A w \in Spawned : worker[w] = "popping")
=============================================================================
