------------------------- MODULE BoundedQueueProofs -------------------------
(* What every step of the bounded queue preserves, for any callers, any    *)
(* number of threads, any capacity and any kind of item.  The modules that *)
(* prove theorems about a use of the queue build on these lemmas.          *)
EXTENDS BoundedQueue, FiniteSetTheorems, SequenceTheorems, TLAPS

\* Anything that can happen to the queue: a step inside a call, a new call,
\* or a step of the callers that does not concern it.
QueueNext(Items) ==
    \/ QueueStep
    \/ \E p \in Producers : CloseCall(p) \/ \E item \in Items : PushCall(p, item)
    \/ \E c \in Consumers : PopCall(c)
    \/ UNCHANGED queueVars

\* The part of the inductive invariant that holds for all callers.
QueueInv ==
    /\ MutexGuardsTheQueue
    /\ PredicatesStand
    /\ WithinCapacity
    /\ BackpressureMeansFull
    /\ CloseWakesSleepers

LEMMA NotifyOneIsSubset ==
    ASSUME NEW W, NEW V \in NotifyOne(W)
    PROVE  V \subseteq W
  BY DEF NotifyOne

LEMMA TailType ==
    ASSUME NEW S, NEW s \in Seq(S), s # <<>>
    PROVE  /\ Tail(s) \in Seq(S)
           /\ Head(s) \in S
           /\ Len(s) \in Nat
           /\ Len(s) > 0
           /\ Len(Tail(s)) = Len(s) - 1
  OBVIOUS

LEMMA QueueTypeInit ==
    ASSUME NEW Items, NEW capacity \in Nat, QueueInit(capacity)
    PROVE  QueueTypeOK(Items)
<1>1. capacity_ \in Nat \ {0}
  BY DEF QueueInit, CapacityOf
<1>2. items_ \in Seq(Items)
  BY EmptySeq DEF QueueInit
<1>3. \A t \in Threads : at[t] = "out"
  BY DEF QueueInit
<1> QED
  BY <1>1, <1>2, <1>3
  DEF QueueInit, QueueTypeOK, Threads, PushLabels, PopLabels, CloseLabels

\* The queue's variables keep their types; a thread in a condition
\* variable's set is one that is blocked in its wait.
LEMMA QueueTypeNext ==
    ASSUME NEW Items, QueueTypeOK(Items), QueueNext(Items)
    PROVE  QueueTypeOK(Items)'
<1> USE QueueAssumption
        DEF QueueTypeOK, Threads, PushLabels, PopLabels, CloseLabels, Goto,
            metrics, calls
<1>1. ASSUME NEW p \in Producers, NEW item \in Items, PushCall(p, item)
      PROVE  QueueTypeOK(Items)'
  BY <1>1 DEF PushCall
<1>2. ASSUME NEW p \in Producers, PushEnter(p)
      PROVE  QueueTypeOK(Items)'
  BY <1>2 DEF PushEnter
<1>3. ASSUME NEW p \in Producers, PushPredicate(p)
      PROVE  QueueTypeOK(Items)'
  BY <1>3 DEF PushPredicate
<1>4. ASSUME NEW p \in Producers, PushBlock(p)
      PROVE  QueueTypeOK(Items)'
  BY <1>4 DEF PushBlock
<1>5. ASSUME NEW p \in Producers, PushWake(p)
      PROVE  QueueTypeOK(Items)'
  BY <1>5 DEF PushWake
<1>6. ASSUME NEW p \in Producers, PushDrop(p)
      PROVE  QueueTypeOK(Items)'
  BY <1>6 DEF PushDrop
<1>7. ASSUME NEW p \in Producers, PushAppend(p)
      PROVE  QueueTypeOK(Items)'
  <2>1. items_' \in Seq(Items)
    BY <1>7, AppendProperties DEF PushAppend
  <2>2. max_occupancy' \in Nat
    BY <1>7 DEF PushAppend, RaisedTo
  <2>3. not_empty_' \subseteq not_empty_
    BY <1>7, NotifyOneIsSubset DEF PushAppend
  <2> QED BY <1>7, <2>1, <2>2, <2>3 DEF PushAppend
<1>8. ASSUME NEW c \in Consumers, PopCall(c)
      PROVE  QueueTypeOK(Items)'
  BY <1>8 DEF PopCall
<1>9. ASSUME NEW c \in Consumers, PopEnter(c)
      PROVE  QueueTypeOK(Items)'
  BY <1>9 DEF PopEnter
<1>10. ASSUME NEW c \in Consumers, PopPredicate(c)
       PROVE  QueueTypeOK(Items)'
  BY <1>10 DEF PopPredicate
<1>11. ASSUME NEW c \in Consumers, PopBlock(c)
       PROVE  QueueTypeOK(Items)'
  BY <1>11 DEF PopBlock
<1>12. ASSUME NEW c \in Consumers, PopWake(c)
       PROVE  QueueTypeOK(Items)'
  BY <1>12 DEF PopWake
<1>13. ASSUME NEW c \in Consumers, PopNull(c)
       PROVE  QueueTypeOK(Items)'
  BY <1>13 DEF PopNull
<1>14. ASSUME NEW c \in Consumers, PopTake(c)
       PROVE  QueueTypeOK(Items)'
  <2>1. items_' \in Seq(Items) /\ Head(items_) \in Items
    BY <1>14, TailType DEF PopTake
  <2>2. not_full_' \subseteq not_full_
    BY <1>14, NotifyOneIsSubset DEF PopTake
  <2> QED BY <1>14, <2>1, <2>2 DEF PopTake
<1>15. ASSUME NEW p \in Producers, CloseCall(p)
       PROVE  QueueTypeOK(Items)'
  BY <1>15 DEF CloseCall
<1>16. ASSUME NEW p \in Producers, CloseStep(p)
       PROVE  QueueTypeOK(Items)'
  BY <1>16 DEF CloseStep, CloseSet, CloseNotifyEmpty, CloseNotifyFull
<1>17. ASSUME NEW t \in Threads, SpuriousWakeup(t)
       PROVE  QueueTypeOK(Items)'
  BY <1>17 DEF SpuriousWakeup
<1>18. CASE UNCHANGED queueVars
  BY <1>18 DEF queueVars
<1> QED
  BY <1>1, <1>2, <1>3, <1>4, <1>5, <1>6, <1>7, <1>8, <1>9, <1>10, <1>11,
     <1>12, <1>13, <1>14, <1>15, <1>16, <1>17, <1>18
  DEF QueueNext, QueueStep, PushStep, PopStep

-----------------------------------------------------------------------------
LEMMA QueueInvInit ==
    ASSUME NEW capacity \in Nat, QueueInit(capacity)
    PROVE  QueueInv
<1>1. capacity_ \in Nat \ {0} /\ items_ = <<>> /\ Len(items_) = 0
  BY EmptySeq DEF QueueInit, CapacityOf
<1>2. \A t \in Threads : at[t] = "out"
  BY DEF QueueInit
<1> QED
  BY <1>1, <1>2, QueueAssumption
  DEF QueueInit, QueueInv, MutexGuardsTheQueue, PredicatesStand,
      WithinCapacity, BackpressureMeansFull, CloseWakesSleepers,
      HoldingLabels, Threads

\* Mutual exclusion, what the waits have established, the capacity and the
\* meaning of the metrics, and the sleepers of a closed queue: each needs
\* the others (a sleeper on a closed queue would need a push or pop that
\* blocks after it saw closed_, and mutual exclusion says none does).
LEMMA QueueInvNext ==
    ASSUME NEW Items, QueueTypeOK(Items), QueueInv, QueueNext(Items)
    PROVE  QueueInv'
<1> USE QueueAssumption
        DEF Threads, Goto, metrics, calls, HoldingLabels, MayPush, MayPop, Full
<1> DEFINE Parts == /\ MutexGuardsTheQueue'
                    /\ PredicatesStand'
                    /\ WithinCapacity'
                    /\ BackpressureMeansFull'
                    /\ CloseWakesSleepers'
<1> SUFFICES Parts
  BY DEF QueueInv
<1>t. /\ capacity_ \in Nat \ {0}
      /\ items_ \in Seq(Items)
      /\ Len(items_) \in Nat
      /\ closed_ \in BOOLEAN
      /\ max_occupancy \in Nat
      /\ producer_waits \in Nat
      /\ DOMAIN at = Producers \cup Consumers
      /\ \A p \in Producers : at[p] \notin PopLabels
      /\ \A c \in Consumers : at[c] \notin PushLabels \cup CloseLabels
      /\ not_empty_ \subseteq {c \in Consumers : at[c] = "pop.asleep"}
      /\ not_full_ \subseteq {p \in Producers : at[p] = "push.asleep"}
  BY LenProperties DEF QueueTypeOK
<1>i. /\ MutexGuardsTheQueue
      /\ PredicatesStand
      /\ WithinCapacity
      /\ BackpressureMeansFull
      /\ CloseWakesSleepers
  BY DEF QueueInv
<1> USE <1>t, <1>i
    DEF MutexGuardsTheQueue, PredicatesStand, WithinCapacity,
        BackpressureMeansFull, CloseWakesSleepers
<1>1. ASSUME NEW p \in Producers, NEW item \in Items, PushCall(p, item)
      PROVE  Parts
  BY <1>1 DEF PushCall
<1>2. ASSUME NEW p \in Producers, PushEnter(p)
      PROVE  Parts
  BY <1>2 DEF PushEnter
<1>3. ASSUME NEW p \in Producers, PushPredicate(p)
      PROVE  Parts
  BY <1>3 DEF PushPredicate
<1>4. ASSUME NEW p \in Producers, PushBlock(p)
      PROVE  Parts
  BY <1>4 DEF PushBlock
<1>5. ASSUME NEW p \in Producers, PushWake(p)
      PROVE  Parts
  BY <1>5 DEF PushWake
<1>6. ASSUME NEW p \in Producers, PushDrop(p)
      PROVE  Parts
  BY <1>6 DEF PushDrop
<1>7. ASSUME NEW p \in Producers, PushAppend(p)
      PROVE  Parts
  <2>1. pushing[p] \in Items
    BY <1>7 DEF PushAppend, QueueTypeOK, PushLabels
  <2>2. Len(items_') = Len(items_) + 1 /\ items_' # <<>>
    BY <1>7, <2>1, AppendProperties DEF PushAppend
  <2>3. not_empty_' \subseteq not_empty_
    BY <1>7, NotifyOneIsSubset DEF PushAppend
  <2> QED BY <1>7, <2>2, <2>3 DEF PushAppend, RaisedTo
<1>8. ASSUME NEW c \in Consumers, PopCall(c)
      PROVE  Parts
  BY <1>8 DEF PopCall
<1>9. ASSUME NEW c \in Consumers, PopEnter(c)
      PROVE  Parts
  BY <1>9 DEF PopEnter
<1>10. ASSUME NEW c \in Consumers, PopPredicate(c)
       PROVE  Parts
  BY <1>10 DEF PopPredicate
<1>11. ASSUME NEW c \in Consumers, PopBlock(c)
       PROVE  Parts
  BY <1>11 DEF PopBlock
<1>12. ASSUME NEW c \in Consumers, PopWake(c)
       PROVE  Parts
  BY <1>12 DEF PopWake
<1>13. ASSUME NEW c \in Consumers, PopNull(c)
       PROVE  Parts
  BY <1>13 DEF PopNull
<1>14. ASSUME NEW c \in Consumers, PopTake(c)
       PROVE  Parts
  <2>1. Len(items_') = Len(items_) - 1
    BY <1>14, TailType DEF PopTake
  <2>2. not_full_' \subseteq not_full_
    BY <1>14, NotifyOneIsSubset DEF PopTake
  <2> QED BY <1>14, <2>1, <2>2 DEF PopTake
<1>15. ASSUME NEW p \in Producers, CloseCall(p)
       PROVE  Parts
  BY <1>15 DEF CloseCall
<1>16. ASSUME NEW p \in Producers, CloseSet(p)
       PROVE  Parts
  BY <1>16 DEF CloseSet
<1>17. ASSUME NEW p \in Producers, CloseNotifyEmpty(p)
       PROVE  Parts
  BY <1>17 DEF CloseNotifyEmpty
<1>18. ASSUME NEW p \in Producers, CloseNotifyFull(p)
       PROVE  Parts
  BY <1>18 DEF CloseNotifyFull
<1>19. ASSUME NEW t \in Threads, SpuriousWakeup(t)
       PROVE  Parts
  BY <1>19 DEF SpuriousWakeup
<1>20. CASE UNCHANGED queueVars
  BY <1>20 DEF queueVars
<1> HIDE DEF Parts
<1> QED
  BY <1>1, <1>2, <1>3, <1>4, <1>5, <1>6, <1>7, <1>8, <1>9, <1>10, <1>11,
     <1>12, <1>13, <1>14, <1>15, <1>16, <1>17, <1>18, <1>19, <1>20
  DEF QueueNext, QueueStep, PushStep, PopStep, CloseStep

-----------------------------------------------------------------------------
LEMMA SubsetNoLarger ==
    ASSUME NEW S, NEW R, IsFiniteSet(S), R \subseteq S
    PROVE  Cardinality(R) \in Nat /\ Cardinality(R) <= Cardinality(S)
  BY FS_Subset, FS_CardinalityType

LEMMA RousedAreFinite ==
    /\ IsFiniteSet(RousedConsumers) /\ IsFiniteSet(RousedConsumers')
    /\ IsFiniteSet(RousedProducers) /\ IsFiniteSet(RousedProducers')
  BY FS_Subset, QueueAssumption DEF RousedConsumers, RousedProducers

\* notify_one leaves somebody asleep only after it has woken somebody else.
LEMMA NotifyOneWakes ==
    ASSUME NEW W, NEW V \in NotifyOne(W), V # {}
    PROVE  \E t \in W : V = W \ {t}
  BY DEF NotifyOne

\* No lost wakeup on not_empty_, by counting: a push adds an item and wakes
\* a sleeper, a pop takes an item and is itself one of the roused, and a
\* consumer goes to sleep only when there is no item.
LEMMA NoItemBesideSleeperNext ==
    ASSUME NEW Items, QueueTypeOK(Items), QueueInv, NoItemBesideSleeper,
           QueueNext(Items)
    PROVE  NoItemBesideSleeper'
<1> DEFINE R == RousedConsumers
<1>t. /\ items_ \in Seq(Items)
      /\ Len(items_) \in Nat
      /\ DOMAIN at = Producers \cup Consumers
      /\ \A p \in Producers : at[p] \notin PopLabels
      /\ not_empty_ \subseteq {c \in Consumers : at[c] = "pop.asleep"}
      /\ Producers \cap Consumers = {}
  BY LenProperties, QueueAssumption DEF QueueTypeOK, Threads
<1>f. /\ IsFiniteSet(R) /\ IsFiniteSet(R')
      /\ Cardinality(R) \in Nat /\ Cardinality(R') \in Nat
  BY RousedAreFinite, FS_CardinalityType
<1>a. ASSUME items_' = <<>>
      PROVE  NoItemBesideSleeper'
  <2>1. Len(items_') = 0
    BY <1>a
  <2> QED BY <1>f, <2>1 DEF NoItemBesideSleeper
<1>b. ASSUME R \subseteq R', UNCHANGED items_, not_empty_' \subseteq not_empty_
      PROVE  NoItemBesideSleeper'
  <2>1. Cardinality(R) <= Cardinality(R')
    BY <1>b, <1>f, SubsetNoLarger
  <2> QED BY <1>b, <1>f, <1>t, <2>1 DEF NoItemBesideSleeper
<1>1. ASSUME NEW p \in Producers,
             \/ PushEnter(p) \/ PushPredicate(p) \/ PushBlock(p) \/ PushWake(p)
             \/ PushDrop(p) \/ CloseStep(p) \/ CloseCall(p)
             \/ \E item \in Items : PushCall(p, item)
      PROVE  NoItemBesideSleeper'
  <2>1. /\ UNCHANGED items_
        /\ not_empty_' \subseteq not_empty_
        /\ \A c \in Consumers : at'[c] = at[c]
    BY <1>1, <1>t DEF PushEnter, PushPredicate, PushBlock, PushWake, PushDrop,
       CloseStep, CloseSet, CloseNotifyEmpty, CloseNotifyFull, CloseCall,
       PushCall, Goto
  <2>2. R \subseteq R'
    BY <2>1 DEF RousedConsumers
  <2> QED BY <1>b, <2>1, <2>2
<1>2. ASSUME NEW p \in Producers, PushAppend(p)
      PROVE  NoItemBesideSleeper'
  <2> SUFFICES ASSUME not_empty_' # {}
               PROVE  Len(items_') <= Cardinality(R')
    BY DEF NoItemBesideSleeper
  <2>1. PICK t \in not_empty_ : not_empty_' = not_empty_ \ {t}
    BY <1>2, NotifyOneWakes DEF PushAppend
  <2>2. \A c \in Consumers : at'[c] = at[c]
    BY <1>2, <1>t DEF PushAppend, Goto
  <2>3. R \cup {t} \subseteq R' /\ t \notin R
    BY <2>1, <2>2, <1>t DEF RousedConsumers
  <2>4. Cardinality(R) + 1 <= Cardinality(R')
    <3> HIDE DEF R
    <3>1. Cardinality(R \cup {t}) = Cardinality(R) + 1
      BY <2>3, <1>f, FS_AddElement
    <3>2. Cardinality(R \cup {t}) <= Cardinality(R')
      BY <2>3, <1>f, SubsetNoLarger
    <3> QED BY <3>1, <3>2
  <2>5. Len(items_') = Len(items_) + 1
    <3>1. pushing[p] \in Items
      BY <1>2 DEF PushAppend, QueueTypeOK, PushLabels
    <3> QED BY <1>2, <1>t, <3>1, AppendProperties DEF PushAppend
  <2>6. Len(items_) <= Cardinality(R)
    BY <2>1 DEF NoItemBesideSleeper
  <2> HIDE DEF R
  <2> QED BY <2>4, <2>5, <2>6, <1>f, <1>t
<1>3. ASSUME NEW c \in Consumers, PopCall(c) \/ PopEnter(c) \/ PopWake(c)
      PROVE  NoItemBesideSleeper'
  <2>1. R \subseteq R'
    BY <1>3, <1>t DEF PopCall, PopEnter, PopWake, Goto, RousedConsumers
  <2> QED BY <1>3, <1>b, <2>1 DEF PopCall, PopEnter, PopWake
<1>4. ASSUME NEW c \in Consumers, PopPredicate(c)
      PROVE  NoItemBesideSleeper'
  <2>1. CASE MayPop
    <3>1. R \subseteq R'
      BY <1>4, <2>1, <1>t DEF PopPredicate, Goto, RousedConsumers
    <3> QED BY <1>4, <1>b, <3>1 DEF PopPredicate
  <2>2. CASE ~MayPop
    BY <1>4, <1>a, <2>2 DEF PopPredicate, MayPop
  <2> QED BY <2>1, <2>2
<1>5. ASSUME NEW c \in Consumers, PopBlock(c) \/ PopNull(c)
      PROVE  NoItemBesideSleeper'
  BY <1>5, <1>a DEF PopBlock, PopNull, QueueInv, PredicatesStand
<1>6. ASSUME NEW c \in Consumers, PopTake(c)
      PROVE  NoItemBesideSleeper'
  <2>1. R \ {c} \subseteq R' /\ c \in R
    BY <1>6, <1>t DEF PopTake, Goto, RousedConsumers
  <2>2. Cardinality(R) - 1 <= Cardinality(R')
    <3> HIDE DEF R
    <3>1. Cardinality(R \ {c}) = Cardinality(R) - 1
      BY <2>1, <1>f, FS_RemoveElement
    <3>2. Cardinality(R \ {c}) <= Cardinality(R')
      BY <2>1, <1>f, SubsetNoLarger
    <3> QED BY <3>1, <3>2
  <2>3. Len(items_') = Len(items_) - 1 /\ UNCHANGED not_empty_
    BY <1>6, <1>t, TailType DEF PopTake
  <2> HIDE DEF R
  <2> QED BY <2>2, <2>3, <1>f, <1>t DEF NoItemBesideSleeper, R
<1>7. ASSUME NEW t \in Threads, SpuriousWakeup(t)
      PROVE  NoItemBesideSleeper'
  <2>1. R \subseteq R'
    BY <1>7 DEF SpuriousWakeup, RousedConsumers
  <2> QED BY <1>7, <1>b, <2>1 DEF SpuriousWakeup
<1>8. CASE UNCHANGED queueVars
  <2>1. R \subseteq R'
    BY <1>8 DEF queueVars, RousedConsumers
  <2> QED BY <1>8, <1>b, <2>1 DEF queueVars
<1> QED
  BY <1>1, <1>2, <1>3, <1>4, <1>5, <1>6, <1>7, <1>8
  DEF QueueNext, QueueStep, PushStep, PopStep

\* The same for not_full_: a pop frees a place and wakes a sleeping
\* producer, an append takes a place and is itself one of the roused, and a
\* producer goes to sleep only when the queue is full.
LEMMA NoSpaceBesideSleeperNext ==
    ASSUME NEW Items, QueueTypeOK(Items), QueueInv, NoSpaceBesideSleeper,
           QueueNext(Items)
    PROVE  NoSpaceBesideSleeper'
<1> DEFINE R == RousedProducers
<1>t. /\ items_ \in Seq(Items)
      /\ Len(items_) \in Nat
      /\ capacity_ \in Nat
      /\ DOMAIN at = Producers \cup Consumers
      /\ \A c \in Consumers : at[c] \notin PushLabels \cup CloseLabels
      /\ not_full_ \subseteq {p \in Producers : at[p] = "push.asleep"}
      /\ Producers \cap Consumers = {}
  BY LenProperties, QueueAssumption DEF QueueTypeOK, Threads
<1>f. /\ IsFiniteSet(R) /\ IsFiniteSet(R')
      /\ Cardinality(R) \in Nat /\ Cardinality(R') \in Nat
  BY RousedAreFinite, FS_CardinalityType
<1>a. ASSUME UNCHANGED <<capacity_, items_>>, Full
      PROVE  NoSpaceBesideSleeper'
  <2>1. capacity_ - Len(items_) <= 0
    BY <1>a, <1>t DEF Full
  <2> QED BY <1>a, <1>f, <1>t, <2>1 DEF NoSpaceBesideSleeper
<1>b. ASSUME R \subseteq R', UNCHANGED <<capacity_, items_>>,
             not_full_' \subseteq not_full_, closed_ => closed_'
      PROVE  NoSpaceBesideSleeper'
  <2>1. Cardinality(R) <= Cardinality(R')
    BY <1>b, <1>f, SubsetNoLarger
  <2> QED BY <1>b, <1>f, <1>t, <2>1 DEF NoSpaceBesideSleeper
<1>1. ASSUME NEW c \in Consumers,
             \/ PopEnter(c) \/ PopPredicate(c) \/ PopBlock(c) \/ PopWake(c)
             \/ PopNull(c) \/ PopCall(c)
      PROVE  NoSpaceBesideSleeper'
  <2>1. /\ UNCHANGED <<capacity_, items_, closed_, not_full_>>
        /\ \A p \in Producers : at'[p] = at[p]
    BY <1>1, <1>t
    DEF PopEnter, PopPredicate, PopBlock, PopWake, PopNull, PopCall, Goto
  <2>2. R \subseteq R'
    BY <2>1 DEF RousedProducers
  <2> QED BY <1>b, <2>1, <2>2
<1>2. ASSUME NEW c \in Consumers, PopTake(c)
      PROVE  NoSpaceBesideSleeper'
  <2> SUFFICES ASSUME not_full_' # {}, ~closed_'
               PROVE  capacity_' - Len(items_') <= Cardinality(R')
    BY DEF NoSpaceBesideSleeper
  <2>1. PICK t \in not_full_ : not_full_' = not_full_ \ {t}
    BY <1>2, NotifyOneWakes DEF PopTake
  <2>2. \A p \in Producers : at'[p] = at[p]
    BY <1>2, <1>t DEF PopTake, Goto
  <2>3. R \cup {t} \subseteq R' /\ t \notin R
    BY <2>1, <2>2, <1>t DEF RousedProducers
  <2>4. Cardinality(R) + 1 <= Cardinality(R')
    <3> HIDE DEF R
    <3>1. Cardinality(R \cup {t}) = Cardinality(R) + 1
      BY <2>3, <1>f, FS_AddElement
    <3>2. Cardinality(R \cup {t}) <= Cardinality(R')
      BY <2>3, <1>f, SubsetNoLarger
    <3> QED BY <3>1, <3>2
  <2>5. Len(items_') = Len(items_) - 1 /\ UNCHANGED <<capacity_, closed_>>
    BY <1>2, <1>t, TailType DEF PopTake
  <2>6. capacity_ - Len(items_) <= Cardinality(R)
    BY <2>1, <2>5 DEF NoSpaceBesideSleeper
  <2> HIDE DEF R
  <2> QED BY <2>4, <2>5, <2>6, <1>f, <1>t
<1>3. ASSUME NEW p \in Producers,
             \/ PushEnter(p) \/ PushWake(p) \/ CloseStep(p) \/ CloseCall(p)
             \/ \E item \in Items : PushCall(p, item)
      PROVE  NoSpaceBesideSleeper'
  <2>1. R \subseteq R'
    BY <1>3, <1>t DEF PushEnter, PushWake, CloseStep, CloseSet,
       CloseNotifyEmpty, CloseNotifyFull, CloseCall, PushCall, Goto,
       RousedProducers
  <2>2. /\ UNCHANGED <<capacity_, items_>>
        /\ not_full_' \subseteq not_full_
        /\ closed_ => closed_'
    BY <1>3 DEF PushEnter, PushWake, CloseStep, CloseSet, CloseNotifyEmpty,
       CloseNotifyFull, CloseCall, PushCall
  <2> QED BY <1>b, <2>1, <2>2
<1>4. ASSUME NEW p \in Producers, PushPredicate(p)
      PROVE  NoSpaceBesideSleeper'
  <2>1. CASE MayPush
    <3>1. R \subseteq R'
      BY <1>4, <2>1, <1>t DEF PushPredicate, Goto, RousedProducers
    <3> QED BY <1>4, <1>b, <3>1 DEF PushPredicate
  <2>2. CASE ~MayPush
    BY <1>4, <1>a, <1>t, <2>2 DEF PushPredicate, MayPush, Full
  <2> QED BY <2>1, <2>2
<1>5. ASSUME NEW p \in Producers, PushBlock(p)
      PROVE  NoSpaceBesideSleeper'
  BY <1>5, <1>a DEF PushBlock, QueueInv, PredicatesStand
<1>6. ASSUME NEW p \in Producers, PushDrop(p)
      PROVE  NoSpaceBesideSleeper'
  BY <1>6 DEF PushDrop, NoSpaceBesideSleeper
<1>7. ASSUME NEW p \in Producers, PushAppend(p)
      PROVE  NoSpaceBesideSleeper'
  <2>1. R \ {p} \subseteq R' /\ p \in R
    BY <1>7, <1>t DEF PushAppend, Goto, RousedProducers
  <2>2. Cardinality(R) - 1 <= Cardinality(R')
    <3> HIDE DEF R
    <3>1. Cardinality(R \ {p}) = Cardinality(R) - 1
      BY <2>1, <1>f, FS_RemoveElement
    <3>2. Cardinality(R \ {p}) <= Cardinality(R')
      BY <2>1, <1>f, SubsetNoLarger
    <3> QED BY <3>1, <3>2
  <2>3. pushing[p] \in Items
    BY <1>7 DEF PushAppend, QueueTypeOK, PushLabels
  <2>4. /\ Len(items_') = Len(items_) + 1
        /\ UNCHANGED <<capacity_, closed_, not_full_>>
    BY <1>7, <1>t, <2>3, AppendProperties DEF PushAppend
  <2> HIDE DEF R
  <2> QED BY <2>2, <2>4, <1>f, <1>t DEF NoSpaceBesideSleeper, R
<1>8. ASSUME NEW t \in Threads, SpuriousWakeup(t)
      PROVE  NoSpaceBesideSleeper'
  <2>1. R \subseteq R'
    BY <1>8 DEF SpuriousWakeup, RousedProducers
  <2> QED BY <1>8, <1>b, <2>1 DEF SpuriousWakeup
<1>9. CASE UNCHANGED queueVars
  <2>1. R \subseteq R'
    BY <1>9 DEF queueVars, RousedProducers
  <2> QED BY <1>9, <1>b, <2>1 DEF queueVars
<1> QED
  BY <1>1, <1>2, <1>3, <1>4, <1>5, <1>6, <1>7, <1>8, <1>9
  DEF QueueNext, QueueStep, PushStep, PopStep
=============================================================================
