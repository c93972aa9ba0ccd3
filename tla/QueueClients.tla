---------------------------- MODULE QueueClients ----------------------------
(* The bounded queue under the most general callers: several producers and *)
(* consumers, and any producer may close the queue at any moment, also     *)
(* while others are blocked in push.  The pipelines use the queue in a     *)
(* narrower way (one producer that closes after its last push).            *)
EXTENDS BoundedQueue

CONSTANTS
    MaxPushes,      \* bound: push calls in a behaviour
    MaxCloses,      \* bound: close calls in a behaviour
    Capacities      \* arguments of the constructor

ASSUME ClientsAssumption ==
    /\ MaxPushes \in Nat
    /\ MaxCloses \in Nat
    /\ Capacities \subseteq Nat
    /\ NoItem \notin Nat

VARIABLES
    pushed,         \* push calls so far; call number n pushes item n
    closers         \* producers that called close; each does so at most once

Items == 1 .. MaxPushes

vars == <<queueVars, pushed, closers>>

Init ==
    /\ \E capacity \in Capacities : QueueInit(capacity)
    /\ pushed = 0
    /\ closers = {}

Push(p) ==
    /\ pushed < MaxPushes
    /\ PushCall(p, pushed + 1)
    /\ pushed' = pushed + 1
    /\ UNCHANGED closers

Pop(c) ==
    /\ PopCall(c)
    /\ UNCHANGED <<pushed, closers>>

Close(p) ==
    /\ p \notin closers
    /\ Cardinality(closers) < MaxCloses
    /\ CloseCall(p)
    /\ closers' = closers \cup {p}
    /\ UNCHANGED pushed

Inside == QueueStep /\ UNCHANGED <<pushed, closers>>

Next ==
    \/ \E p \in Producers : Push(p) \/ Close(p)
    \/ \E c \in Consumers : Pop(c)
    \/ Inside

SafeSpec == Init /\ [][Next]_vars

(* Consumers keep popping, as the workers' loops do; nobody has to push    *)
(* or to close.                                                            *)
Spec == SafeSpec /\ QueueFairness /\ \A c \in Consumers : WF_vars(Pop(c))

-----------------------------------------------------------------------------
TypeOK ==
    /\ QueueTypeOK(Items)
    /\ pushed \in 0 .. MaxPushes
    /\ closers \subseteq Producers

\* The queue is a closable FIFO: hide the mutex, the condition variables and
\* the way each call takes through them.
OpOf(label) ==
    CASE label \in PushLabels -> "push"
      [] label \in PopLabels -> "pop"
      [] label = "close.lock" -> "close"
      [] label \in {"close.notify_empty", "close.notify_full"} -> "sealed"
      [] OTHER -> "idle"

Fifo == INSTANCE ClosableFifo WITH
    Capacities <- {CapacityOf(capacity) : capacity \in Capacities},
    capacity <- capacity_,
    items <- items_,
    closed <- closed_,
    op <- [t \in Threads |-> OpOf(at[t])],
    argument <- pushing,
    result <- popped

\* push, pop and close take effect atomically and in FIFO order: every item
\* is delivered once, none after the end was reported, and none is dropped
\* unless the queue was closed before its push took effect.
ActsAsFifo == Fifo!Safety

\* Somebody is served while there is something to serve: no item waits for
\* ever beside a consumer in pop, no space beside a producer in push, and on
\* a closed queue every push is dropped and every pop told of the end.
ServesSomebody == Fifo!Fairness

\* Once the queue is closed, every call returns: close strands no thread in
\* a wait (a push blocked on a full queue included).
CloseReleasesEveryone == \A t \in Threads : closed_ ~> at[t] = "out"

\* Backpressure ends: a push that no other producer's push comes across returns
\* while consumers keep popping.  The pipelines have one producer, so there every
\* push does.  (Of several that push without end one may starve: each time it is
\* woken another may have filled the slot before it gets the mutex, which it
\* then has in vain.)
PushReturns ==
    \A p \in Producers :
        at[p] \in PushLabels ~>
            \/ at[p] = "out"
            \/ \E q \in Producers \ {p} : at[q] \in PushLabels
=============================================================================
