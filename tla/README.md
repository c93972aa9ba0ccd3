# A TLA+ model of throughput-cpp-lab

The repository computes one transform three times: financial records in a
compact wire format are decoded, normalised, enriched from reference tables,
rated, and returned in input order with a checksum. `reference/sequential_oracle`
does it in a loop; `solutions/01_parallel_batched` with a pool of threads behind
a bounded queue; `solutions/02_lifetime_optimized` with the same pool, borrowed
input ranges and a per-worker arena. The tests compare the three on a few
workloads. What they hardly reach is what this project is about: the
interleavings of the queue, the slots that workers write without a lock, the
lifetime of text in an arena, failing allocations, the odd values and the
damaged bytes.

Contents: the system; the modules; the runs; bounds; fairness; the proofs;
what the checks found; what is not modelled; the plan.

## 1. The system

| Part | State | Operations | Correct if |
|---|---|---|---|
| `BoundedQueue` (01), `BoundedBatchQueue` (02) | deque, capacity, closed flag, mutex, two condition variables, metrics | `push`, `pop`, `close` | bounded; FIFO; no lost wakeup; close releases everyone and loses nothing that was pushed; metrics agree with what happened |
| `process_records` of 01 | configuration, queue, result slots, atomic byte count, threads | spawn, cut and push batches, close, join, return; worker: pop, process, store | every record handled once, by one thread, into its own slot; returns the sequential result; the call ends; locals outlive the workers |
| `process_records` of 02 | as 01, a `WorkerScratch` per worker, ranges instead of copies | as 01; reset, normalise in the arena, copy out, store, reset | as 01; no text outlives its memory; arenas stay small; the borrow ends with the call |
| record rules (three copies) | flags and intermediate records | `decode`, `normalize`, `enrich`, `calculate`, `bp`, `classify` | the copies agree; flags mean what they say and are never lost |
| text normalisation (three copies) | none | `trim_copy`, `collapse_ws`, `upper_copy`, `title_copy`, `replace_all`, `normalize_address`, `normalize_postal` | texts come out as a reader of the words expects; doing it twice changes nothing |
| `wire.cpp` | a cursor | `encode_record`, `frame_payload`, `decode_record`, `decode_frames` | round trip; never reads beyond the end; damage is noticed; ends |
| oracle's `process_records` | the output | one record after the other | it is the reference |
| reference data | immutable tables | lookups | never changes |
| instrumentation | four global atomic counters | `operator new`, `operator delete`, reset, scope, snapshot | differences count what happened in between |
| checksum | a running hash | `checksum_append`, `checksum_records` | equal only for equal outputs, up to collisions of FNV |
| generator | a pseudo-random engine | `generate_workload`, `make_edge_case_record` | the faults asked for, and no others, reach the pipelines |
| mains, benchmarks | none between calls | parse arguments, time one call, print | |

How they interact. The caller's thread and the workers share the queue, the
vector of result slots and one atomic sum. The queue hands a batch, and with it
the right to write its slots, to one worker; nothing else protects the slots.
`workers.clear()` joins the threads, and only that makes it safe to move the
slots into the output and to destroy the queue. The wire decoder and the record
rules are pure and run on whichever thread holds the record. In 02 the normalised
text belongs to the worker's arena, the canonical record to the caller.

What is hard: the window between a wait's predicate and its block; wakeups that
meet another waiter, a thread that barges in, or nobody; close racing blocked
calls; a result read before the last store; exceptions between the first thread
and the close; strings whose memory is released; ratios of absurd amounts;
unsigned arithmetic on sizes read from the wire. `PROJECT.json` lists these
hazards at their lines with the properties that watch them.

## 2. The modules

| Module | Models | Extends / uses |
|---|---|---|
| `ClosableFifo` | what a closable bounded FIFO promises: calls take effect in one step | |
| `BoundedQueue` | the queue's state, one action per step of a call, its invariants | |
| `QueueClients` | the queue under any callers; refinement to `ClosableFifo` | `BoundedQueue` |
| `OrderedTransform` | what `process_records` promises: slots filled with the right records, all before the return. The oracle is its instance that fills in order | |
| `WorkerPool` | what both `process_records` share: configuration, threads, the producer's loop, close, join, return, exceptions | `BoundedQueue` |
| `BatchedPipeline` | 01's `process_records`; refinement to `OrderedTransform` | `WorkerPool` |
| `OptimizedPipeline` | 02's `process_records`; refinement to `BatchedPipeline` | `WorkerPool` |
| `TextRules` | the text functions as operators on sequences of characters | |
| `RecordRules` | the oracle's functions on one record as operators | `TextRules` |
| `OptimizedRecord` | 02's path through one record as steps; compared with `RecordRules` | `RecordRules` |
| `Generator` | the records tests and benchmarks generate, and what becomes of them | `OptimizedRecord` |
| `ByteRules` | numbers written in bytes | |
| `Wire` | encoding and decoding | `ByteRules` |
| `Checksum` | the hash, one step per call of `checksum_append` | `ByteRules` |
| `AllocationCounters` | the counters behind `new` and `delete`, and a scope around some calls | |
| `*Proofs` | theorems and proofs about the module they are named after; `BytesProofs` is about `Wire` and `Checksum` | that module |
| `InductionLemmas` | what the proofs need of induction: recursive functions and folds exist, sums and concatenations add up | |
| `MC*` | values of the constants for TLC | |

**Queue.** A call is the labels a thread passes: `push.lock`, `push.predicate`,
`push.block`, `push.asleep`, `push.commit`, and the same for pop; `close.lock`,
`close.notify_empty`, `close.notify_full`. A step is what the code does under the
mutex without giving it back, except that evaluating a wait's predicate
(`PushPredicate`) and blocking (`PushBlock`) are two steps: that nothing comes
between them is to be shown, not assumed. `PushAppend` is the rest of push after
the wait, with the metric and the notification; `PushDrop` its early return on a
closed queue. `notify_one` removes any one thread from the set of waiters;
`SpuriousWakeup` removes one without a notification; a removed thread must take
the mutex again (`PushWake`) and test its predicate again. `update_max_occupancy`
is one step (`RaisedTo`): its compare-exchange loop only ever runs under the mutex.
The two wait-time counters (`producer_wait_ns`, `consumer_wait_ns`) are left out.
02's class has the same text with another item type, so both pipelines extend
this module.

**Pool and 01.** A record is its position in the input; `ProcessOne`, `EncodedSize`
and `PayloadSize` are constant operators, so what is shown holds for whatever is
done to one record. `mainAt` and `worker[w]` are control points. Of the calling
thread, `WorkerPool` has `SpawnWorker`, `PushItem` (`input_bytes` of one turn of the
loop, and the call of push), `NextBatch` (the unsigned addition), `CloseQueue`,
`ClearWorkers` and `Return`; of a worker, `WorkerPop` and `WorkerExits`. Both
solutions' sources have these lines, so they are written once. `BatchedPipeline`
says what an item is (`BuiltItem`, the copies) and adds `WorkerGetsItem`,
`ProcessRecord` (with the atomic addition) and `StoreRecord`. Addition and store are
two steps because other threads can come between. `Throw` is `std::jthread`'s
constructor or an allocation failing; `Rethrow` is the end of the unwinding, which joins. An exception out of `queue.push` leaves the queue
unchanged but for a wait that was counted, as if the batch could not be built.

**02.** The same with the labels `reset`, `normalize`, `calculate`, `store`,
`release` of `process_batch`. A canonical record is its content and the owner of
its strings' memory; `arena[w]` is the set of records whose text is in a worker's
arena. `Own` is what moves text from there to the heap. A view of released memory
reads `Garbage`. `ItemOf` maps a range to the batch of copies 01 would have pushed. In
ordinary mode the code gives every string the heap's resource (`Normal`), so
nothing can be released under it: `EveryTextIsBacked` is put to the test by arena
mode only.

**One record.** A `double` is an integer of bounded size or NaN or an infinity; a
quotient is exact, rounded to basis points as `llround` does, and `Unspecified` if
it does not fit (that is what the standard says of `llround`; on x86-64 it is the
smallest integer). The name, the address, the postal code and the three codes are
sequences of characters, and so are the codes of the tables; a `company_id` or
`reporting_period`, which is only copied and tested for emptiness, is empty, white
space or text. The score is computed in integers; `RoundsBelowHigh` is the one sum of terms
on which the doubles of the code decide otherwise than decimals do. `RecordRules`
follows the oracle, whose functions 01 repeats word for word; `OptimizedRecord`
follows 02, where lookups, flags and ratios are statements of one function: the
tests of the amounts (`CheckMoney`, `CheckNegative`) and the ratios (`NextRatio`) are
translated from 02's own lines. The text functions, `risk_score` and `classify` have
the same statements in 02 as in the oracle; they are operators of `RecordRules` that
both sides use, so that a later difference between those copies could not show here.

**Wire.** Bytes below `Radix`, fields of parameterised size, one cursor. Each
`read_...` is an action with its tests in the code's order; `Remaining` and
`TooLong` are unsigned. A number that does not fit its length field loses its
high digits (`Digits`), as the `static_cast` does. A job may say what its bytes were
encoded from and how many of them were cut off or added (`EncodedAssumption`).

**Texts.** `TextRules` translates the oracle's functions as folds over characters;
`ReplaceAllOf` is the loop of `replace_all`, which does not search again what it
wrote. The character classes are those of the C locale, the programs set no other.
`TextsAreNormal` states the result in another way, by words: `SplitAtSpaces` is
recursive over the places of a text and knows nothing of the fold, `WrittenOut` looks
at one word and knows nothing of the loop. `Marks` are the characters that are neither
space, digit nor letter; a full stop and a comma are among them. `RawRecords` is the
type of what the decoder can yield.

**Generator.** What `generate_workload` may draw is a set: factors in per cent of the
amount they are multiplied by, the codes and texts of the tables, the code `??` that a
damaged record gets (`Unlisted`), any of the three
amounts that `maybe_money` may leave out. The order of records, their ids and which
of the possible records a seed gives are left out, and so is an operating factor of
exactly 0, which one draw in some 2^53 is: its previous profit of 0 would be marked
as a zero denominator though nothing was asked to be missing.

**Checksum.** `ChecksumAppend` is one call of `checksum_append`; `BytesOf` is what it
hands to `append_byte`. A byte has `Radix` values, an integer `NumberBytes` bytes and
the hash `HashRange` values, for 256, 8 and 2^64. The exclusive or is a parameter,
`ByteXor`: `MCChecksum` takes that of the `Bitwise` module, whose operators are
recursive, and the proofs need of it only that doing it twice undoes it.
`OutputsAssumption` says what a canonical record is: texts shorter than an integer
can count, integers in the range of their type.

**Counters.** A thread's `new` or `delete` begins (`OperatorNew`,
`OperatorDeleteSized`) and adds to its two counters one at a time (`FetchAdd`); a
reader resets, opens a scope or takes a snapshot, one counter at a time (`Store`,
`LoadForScope`, `LoadForSnapshot`). `OperatorDelete` and the aligned overloads count
nothing. `tally` and `marks` are ghosts: what was called and when the scope and the
snapshot began.

## 3. The runs

| Run | States | What it shows |
|---|---|---|
| `queue_safety` | 335,000 | Mutual exclusion (`MutexGuardsTheQueue`); capacity and metric (`WithinCapacity`, `BackpressureMeansFull`); what was seen under the mutex stands when acted upon (`PredicatesStand`); no lost wakeup (`NoItemBesideSleeper`, `NoSpaceBesideSleeper`, `CloseWakesSleepers`); refinement of the FIFO (`ActsAsFifo`) |
| `queue_liveness` | 112,000 | `ServesSomebody` (the fairness of `ClosableFifo`), `CloseReleasesEveryone`; a push that no other producer's comes across returns (`PushReturns`); no deadlock |
| `batched_safety` | 436,000 | `EveryRecordOnce`, `NoSlotRace`, `SlotsAreRight`, `ByteCountsExact`, `ReturnsSequentialResult`, `LocalsOutliveWorkers`, `RethrowsOnlyBeforeSpawn`, `StartAscends`, refinement `ActsAsTransform`, with failing allocations |
| `batched_liveness` | 411,000 | without failures every call returns (`Completes`); no deadlock |
| `batched_throw` | violation | with failures it need not (finding 1) |
| `optimized` | 170,000 | `EveryTextIsBacked`, `ArenaHoldsOneBatch`, `BorrowEndsInCall`; refinement of 01 (`ActsAsBatched`), so that 01's safety carries over; a call returns, or throws with no worker started, or stays in finding 1's joins (`ReturnsOrStrands`) |
| `records` | 148,000 | 02's record is the oracle's (`AgreesWithOracle`); each flag is raised exactly on the values the code tests for (`FlagsAreExact`; what the documentation asks beyond that is findings 2 to 5); names, addresses, postal codes and codes are what their words and characters should give, and stay so (`TextsAreNormal`); a generated record shows the faults it was given, and no others (`WorkloadIsAsAsked`) |
| `records_unmarked` | violation | findings 2 to 5 |
| `wire` | 192,000 | `CursorInside`, `DamageIsNoticed`, `AcceptsOnlyEncodings`, `DecoderEnds` |
| `checksum` | 5,000 | different outputs are hashed from different bytes, none a prefix of another's (`OutputsAreToldApart`); one different byte gives a different hash (`OneDifferenceShows`: both halves of a step, `^` and the odd multiplier, are injective) |
| `allocations` | 3,100,000 | each number of a snapshot lies between what was certainly and what was possibly counted inside its scope, and is exact when nothing is under way at its ends (`SnapshotWithinWindow`) |
| `allocations_aligned` | violation | finding 6 |

Every property of a passing run has a mutant in `PROJECT.json`: a definition with
a plausible bug, under which TLC finds the property violated. Mutants stand in the
modules before what they mutate, their names with an underscore inside.

Deadlock is checked in the runs without exceptions. It is off in `batched_safety`,
`batched_throw` and `optimized`, where an exception really leaves the joins waiting
for ever.

### Bounds

- *Two producers, two consumers* in the queue runs: a waiter, one that barges in,
  and one on the other side. The pipelines have one producer; two are modelled
  because the class allows it. The theorems are for any number.
- *Capacities 0 (raised to 1) and 2*, `MaxPushes` 3: full, empty and one between;
  a second item behind a sleeping producer. `queue_liveness` takes capacity 1, the
  smallest queue that is full and empty in turn, three pushes, so that the slot freed
  for a sleeping producer can be taken by the other one first, and one close
  (`MaxCloses`; two in `queue_safety`).
- *Five records, batches of 1, 2 and 15, zeros; two workers*: a short last batch, a
  batch larger than the input, more batches than the queue holds, and a counter that
  would reach the end of a `size_t` of 16 values.
- *Results and sizes that differ for every position* (`MCProcessOne`, powers of 2
  and 3), so that a swap or a wrong count cannot cancel out.
- *Records*: a healthy one and all that differ in two of its ten amounts, each of
  eleven kinds (missing, NaN, infinities, zero, negative, far apart, beyond the
  ratio's range); all triples of texts; every country, a currency and an industry, each
  as listed, in small letters between white space, split by white space, unlisted and
  empty; all terms of the score, its tie among them; one record with the four faults of
  findings 2 to 5. Two amounts are what a ratio is made of.
- *Texts*: all of up to four characters of six kinds (two white spaces, both cases, a
  digit, a mark), and addresses of two and three words of eight, with every
  abbreviation first, in a row, inside a word and with each mark.
- *Generator*: all factors lowest or highest, and all but one; each subset of the
  amounts that may be missing; damaged or not; skewed and large or neither.
- *Checksum*: bytes of two bits, integers of two bytes, five bits of hash; two texts
  next to each other, a signed number and flags; no, one and two records. `OutputsAreToldApart`
  does not depend on the widths, `OneDifferenceShows` on the multiplier being odd.
- *Counters*: two threads, three calls, one size, counters of three bits that begin at
  their last value, so that every scope meets the wrap; any number of resets, scopes and
  snapshots.
- *Wire*: `Radix` 4, one-byte lengths, two-byte doubles, one field of each kind; all
  byte strings of up to seven bytes, all encodings of small values cut at every byte
  and with one byte added, one payload too large for a frame and one too large for
  the decoder. `WordSize` 9 makes sums
  just beyond the bytes wrap round. More fields repeat the same three readers.

### Fairness

A thread that can take a step is eventually scheduled (weak fairness on its own
steps), and a mutex that is given back again and again is eventually had by a thread
that wants it (strong fairness on taking it: `PushEnter`, `PushWake`, `CloseSet` and
the pops). The second is more than the C++ standard promises and what every
implementation of `std::mutex` does on a fair scheduler; without it a producer that
barges in could keep a woken one from the mutex for ever. Nothing is assumed of spurious wakeups or
of failures: neither has to happen. What this fairness does not promise is that one
of several producers is ever served: if others push without end, the slot may have been
filled again each time a woken producer gets the mutex, and three pushes cannot show
that. `PushReturns` is therefore stated for a push that no other producer's comes
across: the situation of both pipelines, whose only producer is the calling thread, and
of the last of several that push. In `QueueClients` consumers keep popping, as
the workers' loops do; no one has to push or close.

## 4. The proofs

Checked by TLAPS, for every value of the constants that satisfies the named
assumptions, which TLC evaluates in the runs:

| Assumption | What it says |
|---|---|
| `QueueAssumption`, `ClientsAssumption` | the sets of threads are finite and disjoint |
| `PoolAssumption`, `PipelineAssumption`, `OptimizedAssumption` | there is one producer; an input fills at most half of a `size_t` (its records are larger than two bytes); a configuration asks for no more workers than there are; a default record is no result |
| `CountersAssumption` | the calls and bytes of one execution are fewer than a word counts; the counters may begin anywhere in it |
| `MarksAssumption`, `RulesAssumption` | the kinds of characters are disjoint; the non-finite values, a missing amount and the differences of finite ones are all told apart |
| `InputsAssumption` | what is given to a pipeline is a record of any texts, codes and amounts, well-formed or not |
| `GeneratorAssumption` | what is drawn is in the ranges of `generate_workload`; revenues are large enough that no amount is rounded to 0 and small enough that three times one is finite; names are not all white space; `?` is a mark, so that `??` is no listed code |
| `RadixAssumption`, `WireAssumption`, `EncodedAssumption` | a byte has at least two values, sizes are positive, bytes fit a `size_t`; what is said of where a job's bytes are from is true |
| `HashAssumption` | the multiplier has an inverse modulo the range of the hash, as an odd number has modulo 2^64; `^` with the same byte twice gives the hash back, and with different bytes different hashes |
| `OutputsAssumption` | the fields are in the order of the calls; texts and integers are in the ranges of their types |

All safety properties of the passing runs are theorems.

**`InductionLemmas`.** The library's induction theorems take a predicate as a
parameter, which the provers cannot instantiate. `LeastNatural` takes a set
instead, and follows from the well-foundedness of `<`; a proof by induction is then
one about the least number in the set of counterexamples, or `UpTo` with the set of
numbers reached. `Recursion`, `CourseOfValues` and `DownFrom` give the functions that
the models define recursively: to the number before, to any below, downwards.
`FoldExists` and `FoldTurns` say that a `FoldLeft` takes its sequence one element at
a time, `SequenceInduction` that what holds of the empty sequence and is kept by
`Append` holds of all. `SumAdds`, `SumUnion` and `SumsAgree` are what is needed of
`MapThenSumSet`, whose `CHOOSE` takes the elements in an order nobody knows, and
`FlattenPlaces` says that `FlattenSeq` puts each sequence at its place and nothing
else.

**`BoundedQueueProofs`** proves what every client of the queue needs.
`QueueInv` is type correctness with `MutexGuardsTheQueue`, `WithinCapacity`,
`PredicatesStand` and `CloseWakesSleepers`. It is inductive as a whole and its parts
are not: that a predicate stands needs that the mutex excludes others; that close
wakes all sleepers needs that one who is about to block saw an open queue. The lost
wakeup invariants are proved beside it: each step that adds an item, takes a thread
off its way or puts one to sleep changes both sides of
`Len(items_) <= Cardinality(RousedConsumers)`, and `NotifyOneWakes` says by how much;
the same for space and producers. Lemmas are about `QueueStep` and calls, so that each
client gets them by showing that its `Next` is a queue step, a call or neither.

**`QueueClientsProofs`** instantiates them, one theorem for each invariant of
`queue_safety`: `TypeCorrect`, `MutualExclusion`, `PredicatesHold`,
`CapacityRespected`, `BackpressureTruthful`, `NoLostItem`, `NoLostSpace`,
`CloseReachesAll`; and `QueueIsFifo`, the refinement of `ClosableFifo` with one case
per action.

**`BatchedPipelineProofs`** is about 01. `PipelineInv` consists of `MainInv` (what the
calling thread's place says about its call of the queue, the counter and the
workers), `WorkerInv` (the same for a worker), `FifoInv` (the items in the queue are
consecutive batches up to the counter, so that what is taken lies below `Taken`),
`HandInv` (what workers hold lies below `Taken`, and the slots of two workers are
disjoint) and `SlotInv` (every slot below `Taken` is filled unless a worker still holds
it). The last three are why the slots need no lock. From it follow
`SlotsCorrect`, `NoRace`, `ExitsDrained`, `LocalsOutlive`, `ReturnsOracle` (whatever
the number of workers, the capacity and the batch size, a call that returns returns
the sequential result), `StartNeverWraps` (an input fills at most half of memory, and
the counter is below its end whenever a batch size is added), `ThrowStrands` and
`PipelineIsTransform`. `RecordsStayOnce` shows that the places of a record are
stretches of the input one behind the other: done or with a worker, queued, about to be
pushed, not cut yet. `CountsAreExact` adds `CountInv`: `input_bytes` is the sum over
the records cut into batches and the workers' atomic sum that over the stored results
and those between addition and store. Each step adds one batch or one record to a set
it was not in, so the sums add up; that no record is in two of the sets is what
`HandInv` says.

**`OptimizedPipelineProofs`** is about 02. `LocalInv` says what each worker's scratch
record and arena hold at each label: from `normalize` until the store the text of the
record at hand is in the arena, what is stored belongs to the heap, and the arena holds
part of the worker's range only. Hence `TextsAreBacked`, `ArenasAreBounded` and
`BorrowEnds`. `OptimizedIsBatched` is the step
simulation: under `ItemOf` every step of 02 is a step of 01 or changes nothing that 01
has. With it `PipelineInv`, and every safety theorem of 01, holds of 02.

**`OptimizedRecordProofs`** is about one record. `RecordAgrees`: at the end of 02's
statements the record, its flags and its error class are those of the oracle's nested
calls. `RecordInv` says at each step, that between the two tests of the amounts
included, that the flags are those of the lookups, the tests and the ratios done so far,
and that a ratio not yet written is still zero; each of 02's numeric statements is shown
to do what the oracle's `Bp`, `BpFlags` and `MoneyFlags` do. It leaves the text functions,
the score and the classification opaque, since both sides call the same operators. With
it the other three theorems are about what the oracle returns.

`TextsNormal` needs the folds and the loop. `CollapseSteps`, `TitleSteps`,
`ReplaceSteps`, `SplitSteps` and `PostalSteps` say what one more character does.
`PushCollapses` is the invariant of the fold in `collapse_ws`: what is written so far is
the words so far, one space between two, one in front if the text began with white
space and one behind if it ended so; trimming takes these two off (`CollapseIs`). The
fold of `title_copy` then capitalises each word by itself (`TitleWords`), and
`upper_copy` leaves the spaces where they are (`UpperSpaced`), so that a code is its words
in capitals (`CodeIs`), and the codes of the tables are such as they stand
(`ListedCodes`).
A replacement begins with a space and has no other, so an occurrence begins where a
word does, and never at the first: `ReplaceSpaced` says that the loop of `replace_all`
maps a function of one word over all but the first. Five of them in turn are a
function of one word again (`AddressWords`), which is `WrittenOut` because no two
abbreviations begin one word and no full form begins with an abbreviation that is
still to come (`OneBeginning`, `InTurnOf`). For the same reason it does nothing the
second time (`InTurnAgain`), and neither does capitalising: hence the part of
`TextsAreNormal` on second passes.

`FlagsExact` is a case for each flag. `FlagsOfResult` collects who raises it in the
oracle's functions; `RatiosRaise` turns the seven calls of `bp` into conditions on the
amounts, where a difference of two finite ones may be beyond the largest.
`WorkloadAsAsked` reads the same conditions for what the generator draws:
`AmountsDrawn` bounds each amount by shares of the revenue (a product rounded down
is at least the smaller share and at most the larger), so that nothing drawn is zero,
negative where that is marked, or too large. `RecordReached` carries both to every state.

**`AllocationCountersProofs`** shows `SnapshotsAreTrue` for any number of threads.
`Applied(c)` is what has been added to a counter: what calls began to count, less what
those under way have still to add. A sum over threads is the cardinality of a set of
units, so that no fold is needed. `Ahead` says that a counter is so and so much
ahead of a loaded value modulo the word; `Window` keeps two such statements, one since
the scope's load and one since the snapshot's. Their difference is the number reported.

**`BytesProofs`** is about the decoders and about the hash. `DigitsOfNumber` and
`NumberOfDigits` say that a length and its bytes determine each other, within `Capacity`. `CursorInv` keeps the
cursor inside because every reader advances only past a test and the remainder of a
cursor inside does not wrap: `CursorStaysInside`, for all bytes. `AcceptInv` adds
that the fields read so far are, one behind the other, the encodings of what they were
read as: `AcceptsEncodingsOnly`. `Matches` compares with what was meant: what was read
is its beginning, the cursor is where the next piece starts, and a reader stops early
only if bytes of that piece are missing: `NoDamageUnnoticed`.

For the hash, `AppendByteFacts` says that neither `^` nor the multiplication loses
anything: with the multiplier's inverse, equal products have equal factors
(`TimesInvertible`). Then `OneByteShows` goes through the bytes: equal hashes before
the one that differs, different ones from there on. That the bytes tell outputs apart
is another induction, over the calls (`SameCalls`): as long as two outputs made calls of
the same kinds, the next calls begin at the same place, and `SameBytes` says that what
begins alike there is the same, because a text's length goes in before it. The first
call is the number of records, so once it agrees all kinds agree (`NoneBegins`).
`ChecksumInv` keeps what went in as the bytes of the calls made so far, and gives
`OutputsApart` and `DifferenceShows`.

**Model-checked only.** All liveness, and that no run deadlocks: fairness and ENABLED
are out of TLAPS' reach here.

## 5. What the checks found

1. *An exception strands the call* (`batched_throw`; `ReturnsOrStrands` says for 02
   that this is the only way a call does not come back). If creating a thread or building
   a batch throws after the first worker was started, unwinding destroys the vector of
   jthreads, whose destructors join workers that wait in `pop` on a queue nobody closes.
   `ThrowStrands` proves the other half: the exception only ever reaches the caller if no
   worker was started.
2. *A missing amount is not marked*. `docs/domain.md:75` says "Mark missing, unknown,
   non-finite, negative, zero-denominator, and inconsistent accounting values
   explicitly". `value_or_zero` makes a missing amount 0, and only a zero
   denominator is flagged.
3. *A ratio that is not finite is not marked*. `bp` tests its operands and not the
   quotient, which may be beyond any `int64_t`; then `llround` returns an unspecified
   value and no flag is set.
4. *A negative previous revenue is not marked*. The test of signs names six amounts
   (oracle, lines 221 to 223) and `previous_revenue` is none of them, so that the growth
   of revenue takes its sign from a negative denominator. (Profits may well be negative.)
5. *Amounts that contradict each other are not marked*. No amount is compared with
   another: current assets may exceed the total assets they are a part of.
   `records_unmarked` shows findings 2 to 5 in one record that has all four faults and no
   flag. `FlagsAreExact` is about what the code does test, and exempts what it does not.
6. *Memory of the memory resources is not counted* (`allocations_aligned`).
   `docs/benchmark-methodology.md:32` says the benchmarks report the allocation count and
   the allocated bytes, and that 02 reports its mode "so PMR scratch allocation can be
   varied". But `std::pmr::new_delete_resource`, from which either mode gets its
   memory, allocates with an alignment, and that overload is not replaced.
   (`docs/results.md` has the same 12370 allocations in both modes and says that the
   instrumentation is not enough to explain them.) What is counted is counted right:
   `SnapshotWithinWindow`.

Findings 2 to 5 are the same in all three programs, so the comparison with the
oracle cannot show them.

## 6. What is not modelled

- Wait times, mains and benchmarks: clocks, arguments and output around one call.
  The counters' scope that a benchmark puts around it is in `AllocationCounters`.
- The generator's engine, the ids and the order of its records, `total_bytes`.
- Locales other than "C", and bytes that are no characters of it.
- An exception inside a worker: it leaves the thread function, and
  `std::terminate` ends the process.
- Rounding of doubles other than in the score's tie: ratios are exact until they are
  rounded to basis points, so a quotient within a rounding error of a half may come out
  one basis point elsewhere; all three programs compute it with the same expression.
- Memory order. The relaxed counters are only read by others after a join, which
  orders them; everything else is under the mutex or ordered by it.

## 7. Plan

Done: every component but mains and benchmarks is modelled and checked; the
theorems above.

What is left are the liveness properties, when the provers can handle fairness.
