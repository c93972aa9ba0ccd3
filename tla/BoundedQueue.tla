---------------------------- MODULE BoundedQueue ----------------------------
(* class BoundedQueue of solutions/01_parallel_batched/src/pipeline.cpp    *)
(* and its twin BoundedBatchQueue of solutions/02_lifetime_optimized: a    *)
(* bounded FIFO guarded by one std::mutex and two condition variables.     *)
(*                                                                         *)
(* This module holds the queue's state and one action per step of a call   *)
(* between two points where another thread can get in.  Everything done    *)
(* under the mutex without releasing it is one step, except that the       *)
(* evaluation of a wait predicate and the blocking that follows are two,   *)
(* because whether the mutex protects that window is the question.  Who    *)
(* calls what is left to the modules that extend this one.                 *)
EXTENDS Naturals, Sequences, FiniteSets

CONSTANTS
    Producers,      \* threads that call push and close
    Consumers,      \* threads that call pop
    NoOne,          \* the holder of a free mutex
    NoItem          \* std::nullopt, and the argument of no call

Threads == Producers \cup Consumers

ASSUME QueueAssumption ==
    /\ Producers \cap Consumers = {}
    /\ NoOne \notin Threads
    /\ IsFiniteSet(Producers)
    /\ IsFiniteSet(Consumers)

VARIABLES
    capacity_,      \* set by the constructor
    items_,         \* the deque
    closed_,        \* close was called
    mutex_,         \* the thread that holds the mutex, or NoOne
    not_empty_,     \* the consumers blocked on the condition variable
    not_full_,      \* the producers blocked on the condition variable
    producer_waits, \* SharedQueueMetrics
    consumer_waits,
    max_occupancy,
    at,             \* where each thread is in its call ("out": in none)
    pushing,        \* the argument of a producer's push
    popped          \* the result of a consumer's last pop

metrics == <<producer_waits, consumer_waits, max_occupancy>>
calls   == <<pushing, popped>>
queueVars == <<capacity_, items_, closed_, mutex_, not_empty_, not_full_,
               metrics, at, calls>>

PushLabels  == {"push.lock", "push.predicate", "push.block", "push.asleep",
                "push.commit"}
PopLabels   == {"pop.lock", "pop.predicate", "pop.block", "pop.asleep",
                "pop.commit"}
CloseLabels == {"close.lock", "close.notify_empty", "close.notify_full"}

\* The labels at which a thread owns the mutex.
HoldingLabels == {"push.predicate", "push.block", "push.commit",
                  "pop.predicate", "pop.block", "pop.commit"}

-----------------------------------------------------------------------------
\* (Names with an underscore inside, here and below, are mutants: the next
\* definition with a plausible bug, used to test the properties.)
\* Mutant: the capacity is taken as it comes.
CapacityOf_Raw(capacity) == capacity

\* std::max(capacity, 1) of the constructor.
CapacityOf(capacity) == IF capacity >= 1 THEN capacity ELSE 1

QueueInit(capacity) ==
    /\ capacity_ = CapacityOf(capacity)
    /\ items_ = <<>>
    /\ closed_ = FALSE
    /\ mutex_ = NoOne
    /\ not_empty_ = {}
    /\ not_full_ = {}
    /\ producer_waits = 0
    /\ consumer_waits = 0
    /\ max_occupancy = 0
    /\ at = [t \in Threads |-> "out"]
    /\ pushing = [p \in Producers |-> NoItem]
    /\ popped = [c \in Consumers |-> NoItem]

Goto(t, label) == at' = [at EXCEPT ![t] = label]

\* condition_variable::notify_one wakes one blocked thread, if there is any.
NotifyOne(waiting) ==
    {waiting \ {t} : t \in waiting} \cup {w \in {waiting} : w = {}}

\* update_max_occupancy: the compare-exchange loop runs under the mutex.
RaisedTo(observed, value) == IF observed < value THEN value ELSE observed

\* The condition that sends a push to wait, and the predicates of the waits.
Full == Len(items_) >= capacity_
MayPush == Len(items_) < capacity_ \/ closed_
MayPop == items_ # <<>> \/ closed_

-----------------------------------------------------------------------------
(* void push(WorkItem item)                                                *)

PushCall(p, item) ==
    /\ at[p] = "out"
    /\ Goto(p, "push.lock")
    /\ pushing' = [pushing EXCEPT ![p] = item]
    /\ UNCHANGED <<capacity_, items_, closed_, mutex_, not_empty_, not_full_,
                   metrics, popped>>

PushEnter(p) ==
    /\ at[p] = "push.lock"
    /\ mutex_ = NoOne
    /\ mutex_' = p
    /\ IF Full
         THEN /\ producer_waits' = producer_waits + 1
              /\ Goto(p, "push.predicate")
         ELSE /\ UNCHANGED producer_waits
              /\ Goto(p, "push.commit")
    /\ UNCHANGED <<capacity_, items_, closed_, not_empty_, not_full_,
                   consumer_waits, max_occupancy, calls>>

PushPredicate(p) ==
    /\ at[p] = "push.predicate"
    /\ Goto(p, IF MayPush THEN "push.commit" ELSE "push.block")
    /\ UNCHANGED <<capacity_, items_, closed_, mutex_, not_empty_, not_full_,
                   metrics, calls>>

\* The wait releases the mutex and blocks in one atomic step.
PushBlock(p) ==
    /\ at[p] = "push.block"
    /\ mutex_' = NoOne
    /\ not_full_' = not_full_ \cup {p}
    /\ Goto(p, "push.asleep")
    /\ UNCHANGED <<capacity_, items_, closed_, not_empty_, metrics, calls>>

\* Mutant: the wait returns without the mutex.
PushWake_Unlocked(p) ==
    /\ at[p] = "push.asleep"
    /\ p \notin not_full_
    /\ mutex_' = p
    /\ Goto(p, "push.predicate")
    /\ UNCHANGED <<capacity_, items_, closed_, not_empty_, not_full_, metrics,
                   calls>>

\* Mutant: "if" for "while", the predicate is not evaluated again.
PushWake_NoRetest(p) ==
    /\ at[p] = "push.asleep"
    /\ p \notin not_full_
    /\ mutex_ = NoOne
    /\ mutex_' = p
    /\ Goto(p, "push.commit")
    /\ UNCHANGED <<capacity_, items_, closed_, not_empty_, not_full_, metrics,
                   calls>>

\* A woken thread owns the mutex again before it looks at the predicate.
PushWake(p) ==
    /\ at[p] = "push.asleep"
    /\ p \notin not_full_
    /\ mutex_ = NoOne
    /\ mutex_' = p
    /\ Goto(p, "push.predicate")
    /\ UNCHANGED <<capacity_, items_, closed_, not_empty_, not_full_, metrics,
                   calls>>

\* The queue was closed: the item is dropped.
PushDrop(p) ==
    /\ at[p] = "push.commit"
    /\ closed_
    /\ mutex_' = NoOne
    /\ Goto(p, "out")
    /\ pushing' = [pushing EXCEPT ![p] = NoItem]
    /\ UNCHANGED <<capacity_, items_, closed_, not_empty_, not_full_, metrics,
                   popped>>

\* Mutant: the occupancy is recorded before the item is in.
PushAppend_EarlyMetric(p) ==
    /\ at[p] = "push.commit"
    /\ ~closed_
    /\ items_' = Append(items_, pushing[p])
    /\ max_occupancy' = RaisedTo(max_occupancy, Len(items_))
    /\ not_empty_' \in NotifyOne(not_empty_)
    /\ mutex_' = NoOne
    /\ Goto(p, "out")
    /\ pushing' = [pushing EXCEPT ![p] = NoItem]
    /\ UNCHANGED <<capacity_, closed_, not_full_, producer_waits,
                   consumer_waits, popped>>

\* Mutant: only the first item of an empty queue is announced.
PushAppend_NotifyIfEmpty(p) ==
    /\ at[p] = "push.commit"
    /\ ~closed_
    /\ items_' = Append(items_, pushing[p])
    /\ max_occupancy' = RaisedTo(max_occupancy, Len(items_) + 1)
    /\ IF items_ = <<>> THEN not_empty_' \in NotifyOne(not_empty_)
                        ELSE UNCHANGED not_empty_
    /\ mutex_' = NoOne
    /\ Goto(p, "out")
    /\ pushing' = [pushing EXCEPT ![p] = NoItem]
    /\ UNCHANGED <<capacity_, closed_, not_full_, producer_waits,
                   consumer_waits, popped>>

PushAppend(p) ==
    /\ at[p] = "push.commit"
    /\ ~closed_
    /\ items_' = Append(items_, pushing[p])
    /\ max_occupancy' = RaisedTo(max_occupancy, Len(items_) + 1)
    /\ not_empty_' \in NotifyOne(not_empty_)
    /\ mutex_' = NoOne
    /\ Goto(p, "out")
    /\ pushing' = [pushing EXCEPT ![p] = NoItem]
    /\ UNCHANGED <<capacity_, closed_, not_full_, producer_waits,
                   consumer_waits, popped>>

-----------------------------------------------------------------------------
(* std::optional<WorkItem> pop()                                           *)

PopCall(c) ==
    /\ at[c] = "out"
    /\ Goto(c, "pop.lock")
    /\ popped' = [popped EXCEPT ![c] = NoItem]
    /\ UNCHANGED <<capacity_, items_, closed_, mutex_, not_empty_, not_full_,
                   metrics, pushing>>

PopEnter(c) ==
    /\ at[c] = "pop.lock"
    /\ mutex_ = NoOne
    /\ mutex_' = c
    /\ IF items_ = <<>> /\ ~closed_
         THEN /\ consumer_waits' = consumer_waits + 1
              /\ Goto(c, "pop.predicate")
         ELSE /\ UNCHANGED consumer_waits
              /\ Goto(c, "pop.commit")
    /\ UNCHANGED <<capacity_, items_, closed_, not_empty_, not_full_,
                   producer_waits, max_occupancy, calls>>

PopPredicate(c) ==
    /\ at[c] = "pop.predicate"
    /\ Goto(c, IF MayPop THEN "pop.commit" ELSE "pop.block")
    /\ UNCHANGED <<capacity_, items_, closed_, mutex_, not_empty_, not_full_,
                   metrics, calls>>

PopBlock(c) ==
    /\ at[c] = "pop.block"
    /\ mutex_' = NoOne
    /\ not_empty_' = not_empty_ \cup {c}
    /\ Goto(c, "pop.asleep")
    /\ UNCHANGED <<capacity_, items_, closed_, not_full_, metrics, calls>>

PopWake(c) ==
    /\ at[c] = "pop.asleep"
    /\ c \notin not_empty_
    /\ mutex_ = NoOne
    /\ mutex_' = c
    /\ Goto(c, "pop.predicate")
    /\ UNCHANGED <<capacity_, items_, closed_, not_empty_, not_full_, metrics,
                   calls>>

\* Mutant: a closed queue ends at once, whatever is left in it.
PopNull_OnClose(c) ==
    /\ at[c] = "pop.commit"
    /\ closed_
    /\ mutex_' = NoOne
    /\ Goto(c, "out")
    /\ popped' = [popped EXCEPT ![c] = NoItem]
    /\ UNCHANGED <<capacity_, items_, closed_, not_empty_, not_full_, metrics,
                   pushing>>

\* Closed and drained: std::nullopt.
PopNull(c) ==
    /\ at[c] = "pop.commit"
    /\ items_ = <<>>
    /\ mutex_' = NoOne
    /\ Goto(c, "out")
    /\ popped' = [popped EXCEPT ![c] = NoItem]
    /\ UNCHANGED <<capacity_, items_, closed_, not_empty_, not_full_, metrics,
                   pushing>>

\* Mutant: pop notifies the wrong condition variable.
PopTake_WrongSide(c) ==
    /\ at[c] = "pop.commit"
    /\ items_ # <<>>
    /\ popped' = [popped EXCEPT ![c] = Head(items_)]
    /\ items_' = Tail(items_)
    /\ not_empty_' \in NotifyOne(not_empty_)
    /\ mutex_' = NoOne
    /\ Goto(c, "out")
    /\ UNCHANGED <<capacity_, closed_, not_full_, metrics, pushing>>

PopTake(c) ==
    /\ at[c] = "pop.commit"
    /\ items_ # <<>>
    /\ popped' = [popped EXCEPT ![c] = Head(items_)]
    /\ items_' = Tail(items_)
    /\ not_full_' \in NotifyOne(not_full_)
    /\ mutex_' = NoOne
    /\ Goto(c, "out")
    /\ UNCHANGED <<capacity_, closed_, not_empty_, metrics, pushing>>

-----------------------------------------------------------------------------
(* void close()                                                            *)

CloseCall(p) ==
    /\ at[p] = "out"
    /\ Goto(p, "close.lock")
    /\ UNCHANGED <<capacity_, items_, closed_, mutex_, not_empty_, not_full_,
                   metrics, calls>>

\* Mutant: the flag is set without the mutex.
CloseSet_NoLock(p) ==
    /\ at[p] = "close.lock"
    /\ closed_' = TRUE
    /\ Goto(p, "close.notify_empty")
    /\ UNCHANGED <<capacity_, items_, mutex_, not_empty_, not_full_, metrics,
                   calls>>

\* The lock_guard's block: the mutex is taken and given back.
CloseSet(p) ==
    /\ at[p] = "close.lock"
    /\ mutex_ = NoOne
    /\ closed_' = TRUE
    /\ Goto(p, "close.notify_empty")
    /\ UNCHANGED <<capacity_, items_, mutex_, not_empty_, not_full_, metrics,
                   calls>>

\* Mutant: notify_one for notify_all.
CloseNotifyEmpty_One(p) ==
    /\ at[p] = "close.notify_empty"
    /\ not_empty_' \in NotifyOne(not_empty_)
    /\ Goto(p, "close.notify_full")
    /\ UNCHANGED <<capacity_, items_, closed_, mutex_, not_full_, metrics,
                   calls>>

\* Both notifications happen after the mutex was released.
CloseNotifyEmpty(p) ==
    /\ at[p] = "close.notify_empty"
    /\ not_empty_' = {}
    /\ Goto(p, "close.notify_full")
    /\ UNCHANGED <<capacity_, items_, closed_, mutex_, not_full_, metrics,
                   calls>>

CloseNotifyFull(p) ==
    /\ at[p] = "close.notify_full"
    /\ not_full_' = {}
    /\ Goto(p, "out")
    /\ UNCHANGED <<capacity_, items_, closed_, mutex_, not_empty_, metrics,
                   calls>>

-----------------------------------------------------------------------------
\* condition_variable::wait may return without a notification.
SpuriousWakeup(t) ==
    /\ t \in not_empty_ \cup not_full_
    /\ not_empty_' = not_empty_ \ {t}
    /\ not_full_' = not_full_ \ {t}
    /\ UNCHANGED <<capacity_, items_, closed_, mutex_, metrics, at, calls>>

\* The steps a call takes once it is made, by the thread that made it.
PushStep(p) ==
    \/ PushEnter(p) \/ PushPredicate(p) \/ PushBlock(p) \/ PushWake(p)
    \/ PushDrop(p) \/ PushAppend(p)

PopStep(c) ==
    \/ PopEnter(c) \/ PopPredicate(c) \/ PopBlock(c) \/ PopWake(c)
    \/ PopNull(c) \/ PopTake(c)

CloseStep(p) == CloseSet(p) \/ CloseNotifyEmpty(p) \/ CloseNotifyFull(p)

QueueStep ==
    \/ \E p \in Producers : PushStep(p) \/ CloseStep(p)
    \/ \E c \in Consumers : PopStep(c)
    \/ \E t \in Threads : SpuriousWakeup(t)

(* A thread that is not blocked is eventually scheduled, and a mutex that  *)
(* is released again and again is not withheld from one waiter forever.    *)
(* Nothing is assumed of spurious wakeups.                                 *)
ProducerFairness(p) ==
    /\ WF_queueVars(PushPredicate(p) \/ PushBlock(p) \/ PushDrop(p)
                    \/ PushAppend(p) \/ CloseNotifyEmpty(p)
                    \/ CloseNotifyFull(p))
    /\ SF_queueVars(PushEnter(p) \/ PushWake(p) \/ CloseSet(p))

ConsumerFairness(c) ==
    /\ WF_queueVars(PopPredicate(c) \/ PopBlock(c) \/ PopNull(c) \/ PopTake(c))
    /\ SF_queueVars(PopEnter(c) \/ PopWake(c))

QueueFairness ==
    /\ \A p \in Producers : ProducerFairness(p)
    /\ \A c \in Consumers : ConsumerFairness(c)

-----------------------------------------------------------------------------
(* Invariants, stated here because every client of the queue has them.     *)

QueueTypeOK(Items) ==
    /\ capacity_ \in Nat \ {0}
    /\ items_ \in Seq(Items)
    /\ closed_ \in BOOLEAN
    /\ mutex_ \in Threads \cup {NoOne}
    /\ not_empty_ \subseteq {c \in Consumers : at[c] = "pop.asleep"}
    /\ not_full_ \subseteq {p \in Producers : at[p] = "push.asleep"}
    /\ producer_waits \in Nat
    /\ consumer_waits \in Nat
    /\ max_occupancy \in Nat
    /\ at \in [Threads -> {"out"} \cup PushLabels \cup PopLabels
                          \cup CloseLabels]
    /\ \A p \in Producers : at[p] \notin PopLabels
    /\ \A c \in Consumers : at[c] \notin PushLabels \cup CloseLabels
    /\ pushing \in [Producers -> Items \cup {NoItem}]
    /\ \A p \in Producers : at[p] \in PushLabels => pushing[p] \in Items
    /\ popped \in [Consumers -> Items \cup {NoItem}]

\* The mutex is held exactly by the thread that is inside its critical
\* section, so no two threads are inside theirs (the unique_locks of push
\* and pop, given back by every return and by every wait).
MutexGuardsTheQueue ==
    \A t \in Threads : at[t] \in HoldingLabels <=> mutex_ = t

\* The deque never exceeds its capacity, although the size is tested before
\* a wait during which other producers push; and the reported maximum is
\* at least what is in it now and never more than the capacity.
WithinCapacity ==
    /\ Len(items_) <= max_occupancy
    /\ max_occupancy <= capacity_

\* What a thread has seen under the mutex still stands when it acts on it: a
\* push that goes to sleep finds the queue full and open, one that appends
\* finds room; a pop that goes to sleep finds the queue empty and open, and
\* one that returns finds an item or the end.
PredicatesStand ==
    /\ \A p \in Producers :
         /\ at[p] = "push.block" => Full /\ ~closed_
         /\ at[p] = "push.commit" => MayPush
    /\ \A c \in Consumers :
         /\ at[c] = "pop.block" => items_ = <<>> /\ ~closed_
         /\ at[c] = "pop.commit" => MayPop

\* A producer that was made to wait is only ever reported together with a
\* queue that was seen full.
BackpressureMeansFull == producer_waits > 0 => max_occupancy = capacity_

\* The threads that are on their way: woken, or past their test.
RousedConsumers ==
    {c \in Consumers : \/ at[c] \in {"pop.predicate", "pop.commit"}
                       \/ at[c] = "pop.asleep" /\ c \notin not_empty_}

RousedProducers ==
    {p \in Producers : \/ at[p] \in {"push.predicate", "push.commit"}
                       \/ at[p] = "push.asleep" /\ p \notin not_full_}

\* No lost wakeup on not_empty_: while a consumer sleeps, there are no more
\* items than consumers already on their way to take one (notify_one wakes
\* one thread per item; a third consumer that barges in takes the item but
\* leaves the woken one on its way back to sleep, never an item unserved).
NoItemBesideSleeper ==
    not_empty_ # {} => Len(items_) <= Cardinality(RousedConsumers)

\* The same for not_full_: while a producer sleeps on an open queue, there
\* is no more free space than producers on their way to fill it.
NoSpaceBesideSleeper ==
    not_full_ # {} /\ ~closed_ =>
        capacity_ - Len(items_) <= Cardinality(RousedProducers)

\* close notifies after it has released the mutex: from closed_ = TRUE on, a
\* sleeper is one that a closing thread is still about to wake.
CloseWakesSleepers ==
    closed_ =>
        /\ not_empty_ # {} =>
             \E p \in Producers : at[p] = "close.notify_empty"
        /\ not_full_ # {} =>
             \E p \in Producers :
                at[p] \in {"close.notify_empty", "close.notify_full"}
=============================================================================
