------------------------- MODULE QueueClientsProofs -------------------------
(* The bounded queue under any number of producers and consumers: its      *)
(* invariants hold in every behaviour, and it is a closable FIFO.          *)
EXTENDS QueueClients, BoundedQueueProofs

\* The inductive invariant.
ClientsInv ==
    /\ TypeOK
    /\ QueueInv
    /\ NoItemBesideSleeper
    /\ NoSpaceBesideSleeper

LEMMA NextIsQueueNext ==
    ASSUME TypeOK, [Next]_vars
    PROVE  QueueNext(Items)
<1>1. CASE Next
  <2>1. ASSUME NEW p \in Producers, Push(p)
        PROVE  pushed + 1 \in Items /\ PushCall(p, pushed + 1)
    BY <2>1, ClientsAssumption DEF Push, Items, TypeOK
  <2> QED BY <1>1, <2>1 DEF Next, Close, Pop, Inside, QueueNext
<1>2. CASE UNCHANGED vars
  BY <1>2 DEF vars, QueueNext
<1> QED BY <1>1, <1>2

LEMMA ClientsInvInit == Init => ClientsInv
<1> SUFFICES ASSUME Init PROVE ClientsInv
  OBVIOUS
<1>1. PICK capacity \in Capacities : QueueInit(capacity)
  BY DEF Init
<1>2. capacity \in Nat
  BY <1>1, ClientsAssumption
<1>3. QueueTypeOK(Items) /\ QueueInv
  BY <1>1, <1>2, QueueTypeInit, QueueInvInit
<1>4. not_empty_ = {} /\ not_full_ = {}
  BY <1>1 DEF QueueInit
<1> QED
  BY <1>3, <1>4, ClientsAssumption
  DEF Init, ClientsInv, TypeOK, NoItemBesideSleeper, NoSpaceBesideSleeper

LEMMA ClientsInvNext == ClientsInv /\ [Next]_vars => ClientsInv'
<1> SUFFICES ASSUME ClientsInv, [Next]_vars PROVE ClientsInv'
  OBVIOUS
<1>1. QueueNext(Items) /\ QueueTypeOK(Items)
  BY NextIsQueueNext DEF ClientsInv, TypeOK
<1>2. QueueTypeOK(Items)' /\ QueueInv'
  BY <1>1, QueueTypeNext, QueueInvNext DEF ClientsInv
<1>3. NoItemBesideSleeper' /\ NoSpaceBesideSleeper'
  BY <1>1, NoItemBesideSleeperNext, NoSpaceBesideSleeperNext DEF ClientsInv
<1>4. pushed' \in 0 .. MaxPushes /\ closers' \subseteq Producers
  BY ClientsAssumption
  DEF ClientsInv, TypeOK, Next, Push, Pop, Close, Inside, vars
<1>5. TypeOK'
  BY <1>2, <1>4 DEF TypeOK, Items
<1> QED BY <1>2, <1>3, <1>5 DEF ClientsInv

\* The invariants of the bounded queue, for any threads and any capacity.
THEOREM ClientsInvariant == SafeSpec => []ClientsInv
  BY ClientsInvInit, ClientsInvNext, PTL DEF SafeSpec

\* Types, and who may be in which condition variable's set.
THEOREM TypeCorrect == SafeSpec => []TypeOK
  BY ClientsInvariant, PTL DEF ClientsInv

\* push and pop run one at a time: the mutex is held exactly by the thread
\* that is inside its critical section.
THEOREM MutualExclusion == SafeSpec => []MutexGuardsTheQueue
  BY ClientsInvariant, PTL DEF ClientsInv, QueueInv

\* What a thread saw under the mutex still stands when it acts on it, also
\* after a wait that released the mutex in between.
THEOREM PredicatesHold == SafeSpec => []PredicatesStand
  BY ClientsInvariant, PTL DEF ClientsInv, QueueInv

\* The deque is never fuller than its capacity.
THEOREM CapacityRespected == SafeSpec => []WithinCapacity
  BY ClientsInvariant, PTL DEF ClientsInv, QueueInv

\* The metrics report a wait of a producer only with a queue seen full.
THEOREM BackpressureTruthful == SafeSpec => []BackpressureMeansFull
  BY ClientsInvariant, PTL DEF ClientsInv, QueueInv

\* No notification of not_empty_ is lost: while a consumer sleeps there are
\* no more items than consumers on their way.
THEOREM NoLostItem == SafeSpec => []NoItemBesideSleeper
  BY ClientsInvariant, PTL DEF ClientsInv

\* No notification of not_full_ is lost: while a producer sleeps on an open
\* queue there is no more space than producers on their way.
THEOREM NoLostSpace == SafeSpec => []NoSpaceBesideSleeper
  BY ClientsInvariant, PTL DEF ClientsInv

\* Nobody sleeps on a closed queue that close is not about to wake.
THEOREM CloseReachesAll == SafeSpec => []CloseWakesSleepers
  BY ClientsInvariant, PTL DEF ClientsInv, QueueInv

-----------------------------------------------------------------------------
(* The refinement: which call a thread is in is all that is left of where  *)
(* it is.                                                                  *)

LEMMA OpOfLabels ==
    /\ \A label \in PushLabels : OpOf(label) = "push"
    /\ \A label \in PopLabels : OpOf(label) = "pop"
    /\ OpOf("close.lock") = "close"
    /\ OpOf("close.notify_empty") = "sealed"
    /\ OpOf("close.notify_full") = "sealed"
    /\ OpOf("out") = "idle"
  BY DEF OpOf, PushLabels, PopLabels

Ops == [t \in Threads |-> OpOf(at[t])]

LEMMA OpsAfterGoto ==
    ASSUME NEW t \in Threads, NEW label, DOMAIN at = Threads,
           at' = [at EXCEPT ![t] = label]
    PROVE  Ops' = [Ops EXCEPT ![t] = OpOf(label)]
  BY DEF Ops

LEMMA FifoInit == Init => Fifo!Init
<1> SUFFICES ASSUME Init PROVE Fifo!Init
  OBVIOUS
<1>1. PICK capacity \in Capacities : QueueInit(capacity)
  BY DEF Init
<1> QED BY <1>1, OpOfLabels DEF QueueInit, Fifo!Init, Threads

LEMMA FifoNext == ClientsInv /\ [Next]_vars => [Fifo!Next]_(Fifo!vars)
<1> SUFFICES ASSUME ClientsInv, [Next]_vars PROVE [Fifo!Next]_(Fifo!vars)
  OBVIOUS
<1> DEFINE Stutter == UNCHANGED <<capacity_, items_, closed_, Ops, pushing, popped>>
<1>t. /\ DOMAIN at = Threads
      /\ PredicatesStand
      /\ Producers \subseteq Threads /\ Consumers \subseteq Threads
  BY DEF ClientsInv, TypeOK, QueueTypeOK, QueueInv, Threads
<1>s. Stutter => [Fifo!Next]_(Fifo!vars)
  BY DEF Fifo!vars, Ops
<1>g. ASSUME NEW t \in Threads, NEW label, Goto(t, label)
      PROVE  Ops' = [Ops EXCEPT ![t] = OpOf(label)]
  BY <1>g, <1>t, OpsAfterGoto DEF Goto
<1>h. ASSUME NEW t \in Threads, NEW label, Goto(t, label),
             OpOf(label) = OpOf(at[t])
      PROVE  UNCHANGED Ops
  BY <1>h, <1>g DEF Ops
<1>1. ASSUME NEW p \in Producers, Push(p)
      PROVE  Fifo!Next
  <2>1. pushed + 1 \in Items
    BY <1>1, ClientsAssumption DEF Push, Items, ClientsInv, TypeOK
  <2>2. Ops[p] = "idle" /\ Ops' = [Ops EXCEPT ![p] = "push"]
    BY <1>1, <1>t, <1>g, OpOfLabels DEF Push, PushCall, Ops, PushLabels
  <2>3. Fifo!StartPush(p, pushed + 1)
    BY <1>1, <2>2 DEF Push, PushCall, Fifo!StartPush, Ops
  <2> QED BY <2>1, <2>3 DEF Fifo!Next
<1>2. ASSUME NEW c \in Consumers, Pop(c)
      PROVE  Fifo!Next
  <2>1. Ops[c] = "idle" /\ Ops' = [Ops EXCEPT ![c] = "pop"]
    BY <1>2, <1>t, <1>g, OpOfLabels DEF Pop, PopCall, Ops, PopLabels
  <2>2. Fifo!StartPop(c)
    BY <1>2, <2>1 DEF Pop, PopCall, Fifo!StartPop, Ops
  <2> QED BY <2>2 DEF Fifo!Next
<1>3. ASSUME NEW p \in Producers, Close(p)
      PROVE  Fifo!Next
  <2>1. Ops[p] = "idle" /\ Ops' = [Ops EXCEPT ![p] = "close"]
    BY <1>3, <1>t, <1>g, OpOfLabels DEF Close, CloseCall, Ops
  <2>2. Fifo!StartClose(p)
    BY <1>3, <2>1 DEF Close, CloseCall, Fifo!StartClose, Ops, metrics, calls
  <2> QED BY <2>2 DEF Fifo!Next
<1>4. ASSUME NEW p \in Producers,
             PushEnter(p) \/ PushPredicate(p) \/ PushBlock(p) \/ PushWake(p)
      PROVE  Stutter
  <2>1. UNCHANGED Ops
    BY <1>4, <1>t, <1>h, OpOfLabels
    DEF PushEnter, PushPredicate, PushBlock, PushWake, PushLabels
  <2> QED BY <1>4, <2>1
    DEF PushEnter, PushPredicate, PushBlock, PushWake, calls
<1>5. ASSUME NEW c \in Consumers,
             PopEnter(c) \/ PopPredicate(c) \/ PopBlock(c) \/ PopWake(c)
      PROVE  Stutter
  <2>1. UNCHANGED Ops
    BY <1>5, <1>t, <1>h, OpOfLabels
    DEF PopEnter, PopPredicate, PopBlock, PopWake, PopLabels
  <2> QED BY <1>5, <2>1 DEF PopEnter, PopPredicate, PopBlock, PopWake, calls
<1>6. ASSUME NEW p \in Producers, PushDrop(p) \/ PushAppend(p)
      PROVE  Fifo!Next
  <2>1. Ops[p] = "push" /\ Ops' = [Ops EXCEPT ![p] = "idle"]
    BY <1>6, <1>t, <1>g, OpOfLabels DEF PushDrop, PushAppend, Ops, PushLabels
  <2>2. CASE PushDrop(p)
    <3>1. Fifo!Drop(p)
      BY <2>1, <2>2 DEF PushDrop, Fifo!Drop, Fifo!EndPush, Ops
    <3> QED BY <3>1 DEF Fifo!Next
  <2>3. CASE PushAppend(p)
    <3>1. Len(items_) < capacity_
      BY <1>t, <2>3 DEF PushAppend, PredicatesStand, MayPush
    <3>2. Fifo!Accept(p)
      BY <2>1, <2>3, <3>1 DEF PushAppend, Fifo!Accept, Fifo!EndPush, Ops
    <3> QED BY <3>2 DEF Fifo!Next
  <2> QED BY <1>6, <2>2, <2>3
<1>7. ASSUME NEW c \in Consumers, PopNull(c) \/ PopTake(c)
      PROVE  Fifo!Next
  <2>1. Ops[c] = "pop" /\ Ops' = [Ops EXCEPT ![c] = "idle"]
    BY <1>7, <1>t, <1>g, OpOfLabels DEF PopNull, PopTake, Ops, PopLabels
  <2>2. CASE PopTake(c)
    <3>1. Fifo!Deliver(c)
      BY <2>1, <2>2 DEF PopTake, Fifo!Deliver, Ops
    <3> QED BY <3>1 DEF Fifo!Next
  <2>3. CASE PopNull(c)
    <3>1. closed_
      BY <1>t, <2>3 DEF PopNull, PredicatesStand, MayPop
    <3>2. Fifo!ReportEnd(c)
      BY <2>1, <2>3, <3>1 DEF PopNull, Fifo!ReportEnd, Ops
    <3> QED BY <3>2 DEF Fifo!Next
  <2> QED BY <1>7, <2>2, <2>3
<1>8. ASSUME NEW p \in Producers, CloseSet(p)
      PROVE  Fifo!Next
  <2>1. Ops[p] = "close" /\ Ops' = [Ops EXCEPT ![p] = "sealed"]
    BY <1>8, <1>t, <1>g, OpOfLabels DEF CloseSet, Ops
  <2>2. Fifo!Seal(p)
    BY <1>8, <2>1 DEF CloseSet, Fifo!Seal, Ops, calls
  <2> QED BY <2>2 DEF Fifo!Next
<1>9. ASSUME NEW p \in Producers, CloseNotifyEmpty(p)
      PROVE  Stutter
  <2>1. UNCHANGED Ops
    BY <1>9, <1>t, <1>h, OpOfLabels DEF CloseNotifyEmpty
  <2> QED BY <1>9, <2>1 DEF CloseNotifyEmpty, calls
<1>10. ASSUME NEW p \in Producers, CloseNotifyFull(p)
       PROVE  Fifo!Next
  <2>1. Ops[p] = "sealed" /\ Ops' = [Ops EXCEPT ![p] = "idle"]
    BY <1>10, <1>t, <1>g, OpOfLabels DEF CloseNotifyFull, Ops
  <2>2. Fifo!EndClose(p)
    BY <1>10, <2>1 DEF CloseNotifyFull, Fifo!EndClose, Ops, calls
  <2> QED BY <2>2 DEF Fifo!Next
<1>11. ASSUME NEW t \in Threads, SpuriousWakeup(t)
       PROVE  Stutter
  BY <1>11 DEF SpuriousWakeup, Ops, calls
<1>12. CASE UNCHANGED vars
  BY <1>12, <1>s DEF vars, queueVars, Ops, calls
<1> HIDE DEF Stutter
<1> QED
  BY <1>1, <1>2, <1>3, <1>4, <1>5, <1>6, <1>7, <1>8, <1>9, <1>10, <1>11,
     <1>12, <1>s
  DEF Next, Inside, QueueStep, PushStep, PopStep, CloseStep

\* The queue with its mutex, its waits and its notifications implements the
\* atomic closable FIFO.
THEOREM QueueIsFifo == SafeSpec => ActsAsFifo
<1>1. SafeSpec => []ClientsInv
  BY ClientsInvariant
<1> QED
  BY <1>1, FifoInit, FifoNext, PTL DEF SafeSpec, ActsAsFifo, Fifo!Safety
=============================================================================
