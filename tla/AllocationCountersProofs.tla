---------------------- MODULE AllocationCountersProofs ----------------------
(* What a snapshot of the allocation counters is worth, for any number of  *)
(* threads and calls and any initial counts.                               *)
(*                                                                         *)
(* The argument: the units of a counter that calls have begun to count but *)
(* not added yet are a finite set, so what has been added (Applied) is a   *)
(* number between what calls that are over and what calls that have begun  *)
(* count.  A counter is ahead of a value loaded from it by what was added  *)
(* since, modulo the word size, as long as no reset gets in between; and   *)
(* what is added in one behaviour is less than a word.                     *)
EXTENDS AllocationCounters, FiniteSetTheorems, TLAPS

Items(left) == {left[i] : i \in 1 .. Len(left)}
Unread == Items(reading.left)
Lefts == {<<>>, <<"deallocated_bytes">>,
          <<"allocated_bytes", "deallocated_bytes">>,
          <<"deallocations", "allocated_bytes", "deallocated_bytes">>, Order}

Values == [Counters -> 0 .. WordSize - 1]
Counts == [Counters -> Nat]
Tallies == [begun : Counts, done : Counts, missed : Counts]

\* What a thread's call may look like.
CallOK(t) ==
    \/ call[t] = Idle
    \/ /\ \E size \in Sizes : call[t].counts = Allocation(size)
       /\ call[t].left \in {<<"allocations", "allocated_bytes">>,
                            <<"allocated_bytes">>}
    \/ /\ \E size \in Sizes : call[t].counts = Deallocation(size)
       /\ call[t].left \in {<<"deallocations", "deallocated_bytes">>,
                            <<"deallocated_bytes">>}

TypeOK ==
    /\ counter \in Values /\ loaded \in Values
    /\ call \in [Threads -> [counts : Counts, left : Seq(Counters)]]
    /\ \A t \in Threads : CallOK(t)
    /\ reading \in [by : {"nobody", "reset", "scope", "snapshot"}, left : Lefts]
    /\ start = NoScope \/ start \in Values
    /\ tally \in Tallies
    /\ marks \in [opening : Tallies, opened : Tallies, asked : Tallies,
                  clean : BOOLEAN]

\* A number n[t] per thread as a set of units, so that it can be summed.
Units(n) == {u \in Threads \X Nat : u[2] \in 1 .. n[u[1]]}

\* What each thread's call counts, and what of that it has not added yet.
InCall(c) == [t \in Threads |-> call[t].counts[c]]
ToAdd(c) == [t \in Threads |->
    IF \E i \in 1 .. Len(call[t].left) : call[t].left[i] = c
      THEN call[t].counts[c] ELSE 0]

Applied(c) == tally.begun[c] - Cardinality(Units(ToAdd(c)))

UnitsOK(c) ==
    /\ IsFiniteSet(Units(InCall(c))) /\ IsFiniteSet(Units(ToAdd(c)))
    /\ tally.begun[c] = tally.done[c] + Cardinality(Units(InCall(c)))

\* No counter can be ahead of itself by a word.
Bounded ==
    /\ tally.begun["allocations"] + tally.missed["allocations"]
         + tally.begun["deallocations"] + tally.missed["deallocations"] <= MaxCalls
    /\ \E size \in Sizes \cup {0} :
         tally.begun["allocated_bytes"] <= size * tally.begun["allocations"]
    /\ \E size \in Sizes \cup {0} :
         tally.begun["deallocated_bytes"] <= size * tally.begun["deallocations"]

\* A counter is n ahead of a value loaded from it.
Ahead(now, value, n) == now = value + n \/ now = value + n - WordSize

\* The scope's constructor has loaded c; what it found; and the snapshot has.
Opened(c) == start # NoScope \/ (reading.by = "scope" /\ c \notin Unread)
Found(c) == IF start = NoScope THEN loaded[c] ELSE start[c]
Looked(c) == reading.by = "snapshot" /\ c \notin Unread

\* Since a scope was opened, while no counter was reset: a had been added to c
\* when the constructor loaded it, and b when the snapshot did.
WindowAt(c, a) ==
    /\ marks.opening.done[c] <= a /\ a <= Applied(c)
    /\ start # NoScope => a <= marks.opened.begun[c]
    /\ Ahead(counter[c], Found(c), Applied(c) - a)
    /\ Looked(c) => \E b \in Nat :
         /\ a <= b /\ marks.asked.done[c] <= b /\ b <= Applied(c)
         /\ Ahead(loaded[c], Found(c), b - a)

Window ==
    marks.clean =>
        /\ reading.by \in {"scope", "snapshot"}
        /\ reading.by = "snapshot" => start # NoScope
        /\ start = NoScope => reading.left # <<>>
        /\ start # NoScope /\ reading.by = "scope" => reading.left = <<>>
        /\ \A c \in Counters :
             /\ marks.opening.done[c] <= tally.done[c]
             /\ marks.asked.done[c] <= tally.done[c]
             /\ Opened(c) => \E a \in Nat : WindowAt(c, a)

CountersInv ==
    /\ TypeOK
    /\ \A c \in Counters : UnitsOK(c)
    /\ Bounded
    /\ Window

-----------------------------------------------------------------------------
(* Arithmetic of words, and sums as sets of units.                         *)

LEMMA WordAdd ==
    ASSUME NEW x \in 0 .. WordSize - 1, NEW n \in Nat, n < WordSize
    PROVE  /\ (x + n) % WordSize \in 0 .. WordSize - 1
           /\ (x + n) % WordSize = x + n \/ (x + n) % WordSize = x + n - WordSize
<1>1. WordSize \in Nat /\ WordSize > 0
  BY CountersAssumption
<1>2. CASE x + n < WordSize
  BY <1>1, <1>2
<1>3. CASE x + n >= WordSize
  <2>1. PICK k \in 0 .. WordSize - 1 : k = x + n - WordSize
    BY <1>1, <1>3
  <2>2. (k + WordSize) % WordSize = k
    BY <1>1
  <2> QED BY <1>1, <1>3, <2>1, <2>2
<1> QED BY <1>1, <1>2, <1>3

LEMMA WordSubtract ==
    ASSUME NEW x \in 0 .. WordSize - 1, NEW y \in 0 .. WordSize - 1, NEW n \in Nat,
           n < WordSize, Ahead(x, y, n)
    PROVE  (x - y) % WordSize = n
<1>1. WordSize \in Nat /\ WordSize > 0
  BY CountersAssumption
<1>2. CASE x - y = n
  BY <1>1, <1>2
<1>3. CASE x - y = n - WordSize
  <2>1. (n - WordSize) % WordSize = n
    BY <1>1
  <2> QED BY <1>3, <2>1
<1> QED BY <1>1, <1>2, <1>3 DEF Ahead

LEMMA NoUnits ==
    ASSUME NEW n, \A t \in Threads : n[t] = 0
    PROVE  IsFiniteSet(Units(n)) /\ Cardinality(Units(n)) = 0
<1>1. Units(n) = {}
  BY DEF Units
<1> QED BY <1>1, FS_EmptySet

\* One thread's number changes, and the sum by as much.
LEMMA UnitsUpdate ==
    ASSUME NEW n, NEW p, NEW t \in Threads, IsFiniteSet(Units(n)),
           \A u \in Threads : n[u] \in Nat, p[t] \in Nat,
           \A u \in Threads \ {t} : p[u] = n[u]
    PROVE  /\ IsFiniteSet(Units(p))
           /\ Cardinality(Units(p)) = Cardinality(Units(n)) - n[t] + p[t]
           /\ Cardinality(Units(n)) \in Nat /\ Cardinality(Units(p)) \in Nat
<1> DEFINE Rest == {u \in Units(n) : u[1] # t}
           Block(k) == {<<t, i>> : i \in 1 .. k}
<1>1. ASSUME NEW k \in Nat
      PROVE  IsFiniteSet(Block(k)) /\ Cardinality(Block(k)) = k
  <2> DEFINE f == [i \in 1 .. k |-> <<t, i>>]
  <2>1. f \in Bijection(1 .. k, Block(k))
    <3>1. f \in [1 .. k -> Block(k)]
      OBVIOUS
    <3>2. \A i, j \in 1 .. k : f[i] = f[j] => i = j
      OBVIOUS
    <3>3. \A u \in Block(k) : \E i \in 1 .. k : f[i] = u
      OBVIOUS
    <3> HIDE DEF f, Block
    <3> QED
      BY <3>1, <3>2, <3>3 DEF Bijection, Injection, IsInjective, Surjection
  <2>2. ExistsBijection(1 .. k, Block(k))
    BY <2>1 DEF ExistsBijection
  <2>3. IsFiniteSet(1 .. k) /\ Cardinality(1 .. k) = k
    <3>1. IsFiniteSet(1 .. k) /\ Cardinality(1 .. k) = IF 1 > k THEN 0 ELSE k - 1 + 1
      BY FS_Interval
    <3> QED BY <3>1
  <2> QED BY <2>2, <2>3, FS_Bijection
<1>2. /\ Units(n) = Rest \cup Block(n[t]) /\ Units(p) = Rest \cup Block(p[t])
      /\ Rest \cap Block(n[t]) = {} /\ Rest \cap Block(p[t]) = {}
  BY DEF Units
<1>3. IsFiniteSet(Rest)
  BY FS_Subset
<1> HIDE DEF Rest, Block
<1>4. ASSUME NEW k \in Nat, Rest \cap Block(k) = {}
      PROVE  /\ IsFiniteSet(Rest \cup Block(k))
             /\ Cardinality(Rest \cup Block(k)) = Cardinality(Rest) + k
  <2>1. IsFiniteSet(Block(k)) /\ Cardinality(Block(k)) = k
    BY <1>1
  <2>2. /\ IsFiniteSet(Rest \cup Block(k))
        /\ Cardinality(Rest \cup Block(k)) =
             Cardinality(Rest) + Cardinality(Block(k)) - Cardinality(Rest \cap Block(k))
    BY <1>3, <2>1, FS_Union
  <2>3. Cardinality(Rest \cap Block(k)) = 0 /\ Cardinality(Rest) \in Nat
    BY <1>3, <1>4, FS_EmptySet, FS_CardinalityType
  <2> QED BY <2>1, <2>2, <2>3
<1>5. n[t] \in Nat /\ p[t] \in Nat /\ Cardinality(Rest) \in Nat
  BY <1>3, FS_CardinalityType
<1>6. /\ Cardinality(Units(n)) = Cardinality(Rest) + n[t]
      /\ Cardinality(Units(p)) = Cardinality(Rest) + p[t]
      /\ IsFiniteSet(Units(p))
  BY <1>2, <1>4, <1>5
<1> QED BY <1>5, <1>6

-----------------------------------------------------------------------------
(* What a call counts, and how much has been added.                        *)

LEMMA CountsFacts ==
    ASSUME NEW size \in Sizes, NEW counts,
           counts = Allocation(size) \/ counts = Deallocation(size)
    PROVE  /\ counts \in Counts
           /\ \A c \in Counters : counts[c] # 0 =>
                \E i \in 1 .. Len(Adds(counts)) : Adds(counts)[i] = c
           /\ Adds(counts) \in Seq(Counters)
           /\ Adds(counts) # <<>>
           /\ counts = Allocation(size) =>
                /\ Adds(counts) = <<"allocations", "allocated_bytes">>
                /\ counts["allocations"] = 1 /\ counts["deallocations"] = 0
                /\ counts["allocated_bytes"] = size
                /\ counts["deallocated_bytes"] = 0
           /\ counts = Deallocation(size) =>
                /\ Adds(counts) = <<"deallocations", "deallocated_bytes">>
                /\ counts["allocations"] = 0 /\ counts["deallocations"] = 1
                /\ counts["deallocated_bytes"] = size
                /\ counts["allocated_bytes"] = 0
<1>1. size \in Nat
  BY CountersAssumption
<1>2. CASE counts = Allocation(size)
  <2>1. Zero \in Counts /\ \A c \in Counters : Zero[c] = 0
    BY DEF Zero, Counts
  <2>2. counts \in Counts
    BY <1>1, <1>2, <2>1 DEF Allocation, Counts
  <2>3. /\ counts["allocations"] = 1 /\ counts["allocated_bytes"] = size
        /\ counts["deallocations"] = 0 /\ counts["deallocated_bytes"] = 0
    BY <1>2, <2>1 DEF Allocation, Counts, Counters
  <2>4. Adds(counts) = <<"allocations", "allocated_bytes">>
    BY <2>3 DEF Adds
  <2>5. /\ Adds(counts) \in Seq(Counters) /\ Len(Adds(counts)) = 2
        /\ Adds(counts)[1] = "allocations" /\ Adds(counts)[2] = "allocated_bytes"
        /\ Adds(counts) # <<>>
    BY <2>4 DEF Counters
  <2>6. \A c \in Counters : counts[c] # 0 =>
          \E i \in 1 .. Len(Adds(counts)) : Adds(counts)[i] = c
    BY <2>3, <2>5 DEF Counters
  <2>7. counts # Deallocation(size)
    BY <2>1, <2>3 DEF Deallocation, Counts, Counters
  <2> QED BY <1>2, <2>2, <2>3, <2>4, <2>5, <2>6, <2>7
<1>3. CASE counts = Deallocation(size)
  <2>1. Zero \in Counts /\ \A c \in Counters : Zero[c] = 0
    BY DEF Zero, Counts
  <2>2. counts \in Counts
    BY <1>1, <1>3, <2>1 DEF Deallocation, Counts
  <2>3. /\ counts["deallocations"] = 1 /\ counts["deallocated_bytes"] = size
        /\ counts["allocations"] = 0 /\ counts["allocated_bytes"] = 0
    BY <1>3, <2>1 DEF Deallocation, Counts, Counters
  <2>4. Adds(counts) = <<"deallocations", "deallocated_bytes">>
    BY <2>3 DEF Adds
  <2>5. /\ Adds(counts) \in Seq(Counters) /\ Len(Adds(counts)) = 2
        /\ Adds(counts)[1] = "deallocations" /\ Adds(counts)[2] = "deallocated_bytes"
        /\ Adds(counts) # <<>>
    BY <2>4 DEF Counters
  <2>6. \A c \in Counters : counts[c] # 0 =>
          \E i \in 1 .. Len(Adds(counts)) : Adds(counts)[i] = c
    BY <2>3, <2>5 DEF Counters
  <2>7. counts # Allocation(size)
    BY <2>1, <2>3 DEF Allocation, Counts, Counters
  <2> QED BY <1>3, <2>2, <2>3, <2>4, <2>5, <2>6, <2>7
<1> QED BY <1>2, <1>3

LEMMA IdleFacts ==
    /\ Idle.left = <<>> /\ \A c \in Counters : Idle.counts[c] = 0
    /\ Idle \in [counts : Counts, left : Seq(Counters)]
  BY DEF Idle, Zero, Counts

\* A call that is over counts nothing more.
LEMMA LeftFacts ==
    ASSUME TypeOK, NEW t \in Threads
    PROVE  /\ call[t].left = <<>> => call[t] = Idle
           /\ call[t].left # <<>> =>
                /\ \E size \in Sizes : \/ call[t].counts = Allocation(size)
                                       \/ call[t].counts = Deallocation(size)
                /\ call[t].left \in {<<"allocations", "allocated_bytes">>,
                                     <<"deallocations", "deallocated_bytes">>,
                                     <<"allocated_bytes">>,
                                     <<"deallocated_bytes">>}
<1>1. \A left \in {<<"allocations", "allocated_bytes">>,
                   <<"deallocations", "deallocated_bytes">>,
                   <<"allocated_bytes">>, <<"deallocated_bytes">>} : left # <<>>
  OBVIOUS
<1>2. CallOK(t) /\ Idle.left = <<>>
  BY IdleFacts DEF TypeOK
<1> QED BY <1>1, <1>2 DEF CallOK

LEMMA NumberFacts ==
    ASSUME TypeOK, NEW c \in Counters
    PROVE  /\ InCall(c) \in [Threads -> Nat] /\ ToAdd(c) \in [Threads -> Nat]
           /\ \A t \in Threads : /\ InCall(c)[t] = call[t].counts[c]
                                 /\ ToAdd(c)[t] <= InCall(c)[t]
           /\ tally.begun \in Counts /\ tally.done \in Counts
           /\ tally.missed \in Counts
           /\ tally.begun[c] \in Nat /\ tally.done[c] \in Nat
           /\ tally.missed[c] \in Nat
           /\ counter[c] \in 0 .. WordSize - 1
           /\ loaded[c] \in 0 .. WordSize - 1
<1>1. \A t \in Threads : call[t].counts[c] \in Nat
  BY DEF TypeOK, Counts
<1>2. /\ InCall(c) \in [Threads -> Nat] /\ ToAdd(c) \in [Threads -> Nat]
      /\ \A t \in Threads : /\ InCall(c)[t] = call[t].counts[c]
                            /\ ToAdd(c)[t] <= InCall(c)[t]
  BY <1>1 DEF InCall, ToAdd
<1> QED BY <1>2 DEF TypeOK, Tallies, Counts, Values

\* The number of units a counter has been sent is less than a word.
LEMMA BegunIsSmall ==
    ASSUME TypeOK, Bounded, NEW c \in Counters
    PROVE  tally.begun[c] < WordSize
<1>1. \A d \in Counters : tally.begun[d] \in Nat /\ tally.missed[d] \in Nat
  BY NumberFacts
<1>2. /\ tally.begun["allocations"] <= MaxCalls
      /\ tally.begun["deallocations"] <= MaxCalls
      /\ MaxCalls \in Nat /\ MaxCalls < WordSize /\ WordSize \in Nat
  BY <1>1, CountersAssumption DEF Bounded, Counters
<1>3. ASSUME NEW size \in Sizes \cup {0}, NEW n \in Nat, n <= MaxCalls
      PROVE  size * n < WordSize
  <2>1. size \in Nat /\ size * MaxCalls < WordSize
    BY <1>2, CountersAssumption
  <2>2. size * n <= size * MaxCalls /\ size * n \in Nat
    BY <1>2, <1>3, <2>1
  <2>3. size * MaxCalls \in Nat
    BY <1>2, <2>1
  <2> QED BY <1>2, <2>1, <2>2, <2>3
<1>4. tally.begun["allocated_bytes"] < WordSize
  <2>1. PICK size \in Sizes \cup {0} :
          tally.begun["allocated_bytes"] <= size * tally.begun["allocations"]
    BY DEF Bounded
  <2>2. size * tally.begun["allocations"] < WordSize
    BY <1>1, <1>2, <1>3 DEF Counters
  <2>3. size * tally.begun["allocations"] \in Nat
    BY <1>1, CountersAssumption DEF Counters
  <2> QED BY <1>1, <1>2, <2>1, <2>2, <2>3 DEF Counters
<1>5. tally.begun["deallocated_bytes"] < WordSize
  <2>1. PICK size \in Sizes \cup {0} :
          tally.begun["deallocated_bytes"] <= size * tally.begun["deallocations"]
    BY DEF Bounded
  <2>2. size * tally.begun["deallocations"] < WordSize
    BY <1>1, <1>2, <1>3 DEF Counters
  <2>3. size * tally.begun["deallocations"] \in Nat
    BY <1>1, CountersAssumption DEF Counters
  <2> QED BY <1>1, <1>2, <2>1, <2>2, <2>3 DEF Counters
<1>6. tally.begun["allocations"] < WordSize /\ tally.begun["deallocations"] < WordSize
  BY <1>1, <1>2 DEF Counters
<1> QED BY <1>4, <1>5, <1>6 DEF Counters

LEMMA AppliedFacts ==
    ASSUME TypeOK, NEW c \in Counters, UnitsOK(c), Bounded
    PROVE  /\ Applied(c) \in Nat /\ tally.done[c] <= Applied(c)
           /\ Applied(c) <= tally.begun[c] /\ Applied(c) < WordSize
<1>1. Units(ToAdd(c)) \subseteq Units(InCall(c))
  <2>1. \A t \in Threads : /\ ToAdd(c)[t] \in Nat /\ InCall(c)[t] \in Nat
                          /\ ToAdd(c)[t] <= InCall(c)[t]
    BY NumberFacts
  <2> QED BY <2>1 DEF Units
<1>2. /\ Cardinality(Units(ToAdd(c))) \in Nat
      /\ Cardinality(Units(InCall(c))) \in Nat
      /\ Cardinality(Units(ToAdd(c))) <= Cardinality(Units(InCall(c)))
  BY <1>1, FS_Subset, FS_CardinalityType DEF UnitsOK
<1>3. tally.begun[c] \in Nat /\ tally.done[c] \in Nat /\ WordSize \in Nat
  BY NumberFacts, CountersAssumption
<1>4. tally.begun[c] < WordSize
  BY BegunIsSmall
<1> QED BY <1>2, <1>3, <1>4 DEF Applied, UnitsOK

-----------------------------------------------------------------------------
(* The calls of operator new and delete.                                   *)

\* Nothing that the window looks at changes.
LEMMA WindowFrame ==
    ASSUME TypeOK, TypeOK', Window,
           UNCHANGED <<counter, reading, loaded, start, marks>>,
           \A c \in Counters : /\ Applied(c)' = Applied(c)
                              /\ tally.done[c] <= tally'.done[c]
    PROVE  Window'
<1>1. \A c \in Counters : /\ tally.done[c] \in Nat /\ tally'.done[c] \in Nat
                         /\ marks.opening.done[c] \in Nat
                         /\ marks.asked.done[c] \in Nat
  BY DEF TypeOK, Tallies, Counts
<1>2. \A c \in Counters : /\ Opened(c)' = Opened(c) /\ Looked(c)' = Looked(c)
                         /\ Found(c)' = Found(c)
  BY DEF Opened, Looked, Found, Unread
<1>3. ASSUME NEW c \in Counters, NEW a \in Nat, WindowAt(c, a)
      PROVE  WindowAt(c, a)'
  BY <1>2, <1>3 DEF WindowAt, Ahead
<1> QED BY <1>1, <1>2, <1>3 DEF Window

LEMMA BeginEffect ==
    ASSUME TypeOK, NEW t \in Threads, NEW size \in Sizes, NEW counts,
           counts = Allocation(size) \/ counts = Deallocation(size),
           Begin(t, counts)
    PROVE  /\ counts \in Counts
           /\ call' \in [Threads -> [counts : Counts, left : Seq(Counters)]]
           /\ \A u \in Threads : CallOK(u)'
           /\ tally' \in Tallies
           /\ \A c \in Counters :
                /\ tally'.begun[c] = tally.begun[c] + counts[c]
                /\ tally'.done[c] = tally.done[c]
                /\ tally'.missed[c] = tally.missed[c]
                /\ InCall(c)' = [InCall(c) EXCEPT ![t] = counts[c]]
                /\ ToAdd(c)' = [ToAdd(c) EXCEPT ![t] = counts[c]]
                /\ InCall(c)[t] = 0 /\ ToAdd(c)[t] = 0
<1>1. /\ call[t] = Idle
      /\ call' = [call EXCEPT ![t] = [counts |-> counts, left |-> Adds(counts)]]
      /\ tally' = [tally EXCEPT !.begun = Plus(@, counts)]
  BY LeftFacts DEF Begin, MayCall
<1>2. /\ counts \in Counts /\ Adds(counts) \in Seq(Counters)
      /\ \A c \in Counters : counts[c] # 0 =>
            \E i \in 1 .. Len(Adds(counts)) : Adds(counts)[i] = c
  BY CountsFacts
<1>3. call' \in [Threads -> [counts : Counts, left : Seq(Counters)]]
  BY <1>1, <1>2 DEF TypeOK
<1>4. /\ DOMAIN call = Threads
      /\ call'[t] = [counts |-> counts, left |-> Adds(counts)]
      /\ \A u \in Threads \ {t} : call'[u] = call[u]
  BY <1>1 DEF TypeOK
<1>5. ASSUME NEW u \in Threads
      PROVE  CallOK(u)'
  <2>1. CASE u = t
    BY <1>4, <2>1, CountsFacts DEF CallOK
  <2>2. CASE u # t
    BY <1>4, <2>2 DEF TypeOK, CallOK
  <2> QED BY <2>1, <2>2
<1>6. /\ tally'.begun = Plus(tally.begun, counts) /\ tally'.done = tally.done
      /\ tally'.missed = tally.missed
      /\ tally' = [begun |-> tally'.begun, done |-> tally'.done,
                   missed |-> tally'.missed]
  BY <1>1 DEF TypeOK, Tallies
<1>7. Plus(tally.begun, counts) \in Counts
  BY <1>2, NumberFacts DEF Plus, Counts
<1>8. tally' \in Tallies
  BY <1>6, <1>7 DEF TypeOK, Tallies
<1>9. ASSUME NEW c \in Counters
      PROVE  /\ tally'.begun[c] = tally.begun[c] + counts[c]
             /\ InCall(c)' = [InCall(c) EXCEPT ![t] = counts[c]]
             /\ ToAdd(c)' = [ToAdd(c) EXCEPT ![t] = counts[c]]
             /\ InCall(c)[t] = 0 /\ ToAdd(c)[t] = 0
  <2>1. tally'.begun[c] = tally.begun[c] + counts[c]
    BY <1>6 DEF Plus
  <2>2. InCall(c)[t] = 0 /\ ToAdd(c)[t] = 0
    BY <1>1, IdleFacts DEF InCall, ToAdd
  <2>3. InCall(c)' = [InCall(c) EXCEPT ![t] = counts[c]]
    <3>1. InCall(c)' = [u \in Threads |-> call'[u].counts[c]]
      BY DEF InCall
    <3>2. \A u \in Threads : call'[u].counts[c]
                             = IF u = t THEN counts[c] ELSE InCall(c)[u]
      BY <1>4 DEF InCall
    <3> QED BY <3>1, <3>2, NumberFacts
  <2>4. \A u \in Threads : ToAdd(c)'[u] = IF u = t THEN counts[c] ELSE ToAdd(c)[u]
    <3>1. ToAdd(c)'[t] = counts[c]
      BY <1>2, <1>4 DEF ToAdd
    <3> QED BY <1>4, <3>1 DEF ToAdd
  <2>5. ToAdd(c)' = [u \in Threads |-> ToAdd(c)'[u]]
    BY DEF ToAdd
  <2>6. ToAdd(c)' = [ToAdd(c) EXCEPT ![t] = counts[c]]
    BY <2>4, <2>5, NumberFacts
  <2> QED BY <2>1, <2>2, <2>3, <2>6
<1> QED BY <1>2, <1>3, <1>5, <1>6, <1>8, <1>9

\* A call that begins makes the sums larger; nothing is applied yet.
LEMMA BeginPreserves ==
    ASSUME CountersInv, NEW t \in Threads, NEW size \in Sizes, NEW counts,
           counts = Allocation(size) \/ counts = Deallocation(size),
           Begin(t, counts)
    PROVE  CountersInv'
<1>1. UNCHANGED <<counter, reading, loaded, start, marks>>
  BY DEF Begin
<1>2. TypeOK'
  BY <1>1, BeginEffect DEF CountersInv, TypeOK
<1>3. ASSUME NEW c \in Counters
      PROVE  UnitsOK(c)' /\ Applied(c)' = Applied(c)
  <2>1. InCall(c) \in [Threads -> Nat] /\ ToAdd(c) \in [Threads -> Nat]
    BY NumberFacts DEF CountersInv
  <2>2. counts[c] \in Nat /\ tally.begun[c] \in Nat /\ tally.done[c] \in Nat
    BY BeginEffect, NumberFacts DEF CountersInv, Counts
  <2>3. UnitsOK(c)
    BY DEF CountersInv
  <2>4. /\ InCall(c)' = [InCall(c) EXCEPT ![t] = counts[c]]
        /\ ToAdd(c)' = [ToAdd(c) EXCEPT ![t] = counts[c]]
        /\ InCall(c)[t] = 0 /\ ToAdd(c)[t] = 0
        /\ tally'.begun[c] = tally.begun[c] + counts[c]
        /\ tally'.done[c] = tally.done[c]
    BY BeginEffect DEF CountersInv
  <2>5. /\ IsFiniteSet(Units(InCall(c)'))
        /\ Cardinality(Units(InCall(c)')) = Cardinality(Units(InCall(c))) + counts[c]
        /\ Cardinality(Units(InCall(c))) \in Nat
    <3>1. PICK n, p : n = InCall(c) /\ p = InCall(c)'
      OBVIOUS
    <3>2. /\ \A u \in Threads : n[u] \in Nat
          /\ n[t] = 0 /\ p[t] = counts[c]
          /\ \A u \in Threads \ {t} : p[u] = n[u]
          /\ IsFiniteSet(Units(n))
      BY <2>1, <2>3, <2>4, <3>1 DEF UnitsOK
    <3>3. /\ IsFiniteSet(Units(p))
          /\ Cardinality(Units(p)) = Cardinality(Units(n)) - n[t] + p[t]
          /\ Cardinality(Units(n)) \in Nat
      BY <2>2, <3>2, UnitsUpdate
    <3> QED BY <2>2, <3>1, <3>2, <3>3
  <2>6. /\ IsFiniteSet(Units(ToAdd(c)'))
        /\ Cardinality(Units(ToAdd(c)')) = Cardinality(Units(ToAdd(c))) + counts[c]
        /\ Cardinality(Units(ToAdd(c))) \in Nat
    <3>1. PICK n, p : n = ToAdd(c) /\ p = ToAdd(c)'
      OBVIOUS
    <3>2. /\ \A u \in Threads : n[u] \in Nat
          /\ n[t] = 0 /\ p[t] = counts[c]
          /\ \A u \in Threads \ {t} : p[u] = n[u]
          /\ IsFiniteSet(Units(n))
      BY <2>1, <2>3, <2>4, <3>1 DEF UnitsOK
    <3>3. /\ IsFiniteSet(Units(p))
          /\ Cardinality(Units(p)) = Cardinality(Units(n)) - n[t] + p[t]
          /\ Cardinality(Units(n)) \in Nat
      BY <2>2, <3>2, UnitsUpdate
    <3> QED BY <2>2, <3>1, <3>2, <3>3
  <2>7. /\ Units(InCall(c))' = Units(InCall(c)')
        /\ Units(ToAdd(c))' = Units(ToAdd(c)')
    BY DEF Units
  <2> QED BY <2>2, <2>3, <2>4, <2>5, <2>6, <2>7 DEF UnitsOK, Applied
<1>4. Window'
  <2>1. \A c \in Counters : tally.done[c] <= tally'.done[c]
    BY <1>2, BeginEffect, NumberFacts DEF CountersInv
  <2> QED BY <1>1, <1>2, <1>3, <2>1, WindowFrame DEF CountersInv
<1>5. Bounded'
  <2>1. /\ tally.begun["allocations"] + tally.missed["allocations"]
             + (tally.begun["deallocations"] + tally.missed["deallocations"])
               < MaxCalls
    BY DEF Begin, MayCall, Plus, Counters
  <2>2. /\ \A c \in Counters :
             /\ tally.begun[c] \in Nat /\ tally.missed[c] \in Nat
             /\ tally'.begun[c] = tally.begun[c] + counts[c]
             /\ tally'.missed[c] = tally.missed[c]
        /\ MaxCalls \in Nat /\ size \in Nat
        /\ \A s \in Sizes \cup {0} : s \in Nat
    BY NumberFacts, BeginEffect, CountersAssumption DEF CountersInv
  <2>3. ASSUME NEW s \in Nat, NEW n \in Nat, NEW m \in Nat, m <= s * n,
               NEW b \in Nat
        PROVE  /\ b <= s => m + b <= s * (n + 1)
               /\ b > s => m + b <= b * (n + 1)
    <3>1. s * (n + 1) = s * n + s /\ b * (n + 1) = b * n + b
      OBVIOUS
    <3>2. b > s => s * n <= b * n
      OBVIOUS
    <3>3. s * n \in Nat /\ b * n \in Nat
      OBVIOUS
    <3> QED BY <2>3, <3>1, <3>2, <3>3
  <2>4. CASE counts = Allocation(size)
    <3>1. /\ counts["allocations"] = 1 /\ counts["deallocations"] = 0
          /\ counts["allocated_bytes"] = size /\ counts["deallocated_bytes"] = 0
      BY <2>4, CountsFacts
    <3>2. /\ tally'.begun["allocations"] = tally.begun["allocations"] + 1
          /\ tally'.begun["deallocations"] = tally.begun["deallocations"]
          /\ tally'.begun["allocated_bytes"] = tally.begun["allocated_bytes"] + size
          /\ tally'.begun["deallocated_bytes"] = tally.begun["deallocated_bytes"]
      BY <2>2, <3>1 DEF Counters
    <3>3. PICK s \in Sizes \cup {0} :
            tally.begun["allocated_bytes"] <= s * tally.begun["allocations"]
      BY DEF CountersInv, Bounded
    <3>4. \E z \in Sizes \cup {0} :
            tally'.begun["allocated_bytes"] <= z * tally'.begun["allocations"]
      <4> DEFINE n == tally.begun["allocations"]
                 m == tally.begun["allocated_bytes"]
      <4>1. n \in Nat /\ m \in Nat /\ m <= s * n /\ s \in Nat /\ size \in Nat
        BY <2>2, <3>3 DEF Counters
      <4> HIDE DEF n, m
      <4>2. /\ size <= s => m + size <= s * (n + 1)
            /\ size > s => m + size <= size * (n + 1)
        BY <2>3, <4>1
      <4>3. size <= s \/ size > s
        BY <4>1
      <4>4. /\ tally'.begun["allocations"] = n + 1
            /\ tally'.begun["allocated_bytes"] = m + size
        BY <3>2 DEF n, m
      <4> QED BY <4>2, <4>3, <4>4
    <3>5. tally'.begun["allocations"] + tally'.missed["allocations"]
            + tally'.begun["deallocations"] + tally'.missed["deallocations"]
              <= MaxCalls
      <4>1. /\ tally'.missed["allocations"] = tally.missed["allocations"]
            /\ tally'.missed["deallocations"] = tally.missed["deallocations"]
            /\ tally.missed["allocations"] \in Nat
            /\ tally.missed["deallocations"] \in Nat
            /\ tally.begun["allocations"] \in Nat
            /\ tally.begun["deallocations"] \in Nat
        BY <2>2 DEF Counters
      <4> QED BY <2>1, <2>2, <3>2, <4>1
    <3>6. \E z \in Sizes \cup {0} :
            tally'.begun["deallocated_bytes"] <= z * tally'.begun["deallocations"]
      BY <3>2 DEF CountersInv, Bounded
    <3> QED BY <3>4, <3>5, <3>6 DEF Bounded
  <2>5. CASE counts = Deallocation(size)
    <3>1. /\ counts["allocations"] = 0 /\ counts["deallocations"] = 1
          /\ counts["allocated_bytes"] = 0 /\ counts["deallocated_bytes"] = size
      BY <2>5, CountsFacts
    <3>2. /\ tally'.begun["deallocations"] = tally.begun["deallocations"] + 1
          /\ tally'.begun["allocations"] = tally.begun["allocations"]
          /\ tally'.begun["deallocated_bytes"] = tally.begun["deallocated_bytes"] + size
          /\ tally'.begun["allocated_bytes"] = tally.begun["allocated_bytes"]
      BY <2>2, <3>1 DEF Counters
    <3>3. PICK s \in Sizes \cup {0} :
            tally.begun["deallocated_bytes"] <= s * tally.begun["deallocations"]
      BY DEF CountersInv, Bounded
    <3>4. \E z \in Sizes \cup {0} :
            tally'.begun["deallocated_bytes"] <= z * tally'.begun["deallocations"]
      <4> DEFINE n == tally.begun["deallocations"]
                 m == tally.begun["deallocated_bytes"]
      <4>1. n \in Nat /\ m \in Nat /\ m <= s * n /\ s \in Nat /\ size \in Nat
        BY <2>2, <3>3 DEF Counters
      <4> HIDE DEF n, m
      <4>2. /\ size <= s => m + size <= s * (n + 1)
            /\ size > s => m + size <= size * (n + 1)
        BY <2>3, <4>1
      <4>3. size <= s \/ size > s
        BY <4>1
      <4>4. /\ tally'.begun["deallocations"] = n + 1
            /\ tally'.begun["deallocated_bytes"] = m + size
        BY <3>2 DEF n, m
      <4> QED BY <4>2, <4>3, <4>4
    <3>5. tally'.begun["allocations"] + tally'.missed["allocations"]
            + tally'.begun["deallocations"] + tally'.missed["deallocations"]
              <= MaxCalls
      <4>1. /\ tally'.missed["allocations"] = tally.missed["allocations"]
            /\ tally'.missed["deallocations"] = tally.missed["deallocations"]
            /\ tally.missed["allocations"] \in Nat
            /\ tally.missed["deallocations"] \in Nat
            /\ tally.begun["allocations"] \in Nat
            /\ tally.begun["deallocations"] \in Nat
        BY <2>2 DEF Counters
      <4> QED BY <2>1, <2>2, <3>2, <4>1
    <3>6. \E z \in Sizes \cup {0} :
            tally'.begun["allocated_bytes"] <= z * tally'.begun["allocations"]
      BY <3>2 DEF CountersInv, Bounded
    <3> QED BY <3>4, <3>5, <3>6 DEF Bounded
  <2> QED BY <2>4, <2>5
<1> QED BY <1>2, <1>3, <1>4, <1>5 DEF CountersInv

\* The additions of a call, one after the other.
LEMMA TailFacts ==
    ASSUME NEW left \in {<<"allocations", "allocated_bytes">>,
                         <<"deallocations", "deallocated_bytes">>,
                         <<"allocated_bytes">>, <<"deallocated_bytes">>}
    PROVE  /\ Head(left) \in Counters /\ Tail(left) \in Seq(Counters)
           /\ left = <<"allocations", "allocated_bytes">> =>
                Tail(left) = <<"allocated_bytes">>
           /\ left = <<"deallocations", "deallocated_bytes">> =>
                Tail(left) = <<"deallocated_bytes">>
           /\ left \in {<<"allocated_bytes">>, <<"deallocated_bytes">>} =>
                Tail(left) = <<>>
           /\ \A c : (\E i \in 1 .. Len(Tail(left)) : Tail(left)[i] = c) <=>
                     c # Head(left) /\ (\E i \in 1 .. Len(left) : left[i] = c)
           /\ \E i \in 1 .. Len(left) : left[i] = Head(left)
<1>1. CASE left = <<"allocations", "allocated_bytes">>
  <2>1. /\ Head(left) = "allocations" /\ Tail(left) = <<"allocated_bytes">>
        /\ Len(left) = 2 /\ left[1] = "allocations" /\ left[2] = "allocated_bytes"
        /\ Len(Tail(left)) = 1 /\ Tail(left)[1] = "allocated_bytes"
    BY <1>1
  <2> QED BY <1>1, <2>1 DEF Counters
<1>2. CASE left = <<"deallocations", "deallocated_bytes">>
  <2>1. /\ Head(left) = "deallocations" /\ Tail(left) = <<"deallocated_bytes">>
        /\ Len(left) = 2 /\ left[1] = "deallocations"
        /\ left[2] = "deallocated_bytes"
        /\ Len(Tail(left)) = 1 /\ Tail(left)[1] = "deallocated_bytes"
    BY <1>2
  <2> QED BY <1>2, <2>1 DEF Counters
<1>3. CASE left = <<"allocated_bytes">>
  <2>1. /\ Head(left) = "allocated_bytes" /\ Tail(left) = <<>>
        /\ Len(left) = 1 /\ left[1] = "allocated_bytes" /\ Len(Tail(left)) = 0
    BY <1>3
  <2> QED BY <1>3, <2>1 DEF Counters
<1>4. CASE left = <<"deallocated_bytes">>
  <2>1. /\ Head(left) = "deallocated_bytes" /\ Tail(left) = <<>>
        /\ Len(left) = 1 /\ left[1] = "deallocated_bytes" /\ Len(Tail(left)) = 0
    BY <1>4
  <2> QED BY <1>4, <2>1 DEF Counters
<1> QED BY <1>1, <1>2, <1>3, <1>4

LEMMA MissPreserves ==
    ASSUME CountersInv, NEW t \in Threads, NEW size \in Sizes, NEW counts,
           counts = Allocation(size) \/ counts = Deallocation(size),
           Miss(t, counts)
    PROVE  CountersInv'
<1>1. /\ UNCHANGED <<counter, call, reading, loaded, start, marks>>
      /\ tally' = [tally EXCEPT !.missed = Plus(@, counts)]
  BY DEF Miss
<1>2. counts \in Counts
  BY CountsFacts
<1>3. /\ tally'.begun = tally.begun /\ tally'.done = tally.done
      /\ tally'.missed = Plus(tally.missed, counts)
      /\ tally' \in Tallies
  <2>1. Plus(tally.missed, counts) \in Counts
    BY <1>2, NumberFacts DEF Plus, Counts, CountersInv
  <2> QED BY <1>1, <2>1 DEF CountersInv, TypeOK, Tallies
<1>4. TypeOK'
  BY <1>1, <1>3 DEF CountersInv, TypeOK, CallOK
<1>5. ASSUME NEW c \in Counters
      PROVE  UnitsOK(c)' /\ Applied(c)' = Applied(c)
  <2>1. InCall(c)' = InCall(c) /\ ToAdd(c)' = ToAdd(c)
    BY <1>1 DEF InCall, ToAdd
  <2>2. Units(InCall(c))' = Units(InCall(c)) /\ Units(ToAdd(c))' = Units(ToAdd(c))
    BY <2>1 DEF Units
  <2> QED BY <1>3, <2>2 DEF CountersInv, UnitsOK, Applied
<1>6. Window'
  <2>1. \A c \in Counters : tally.done[c] <= tally'.done[c]
    BY <1>3, NumberFacts DEF CountersInv
  <2> QED BY <1>1, <1>4, <1>5, <2>1, WindowFrame DEF CountersInv
<1>7. Bounded'
  <2>1. /\ tally.begun["allocations"] + tally.missed["allocations"]
             + (tally.begun["deallocations"] + tally.missed["deallocations"])
               < MaxCalls
    BY DEF Miss, MayCall, Plus, Counters
  <2>2. /\ tally.missed["allocations"] \in Nat
        /\ tally.missed["deallocations"] \in Nat
        /\ tally.begun["allocations"] \in Nat
        /\ tally.begun["deallocations"] \in Nat /\ MaxCalls \in Nat
    BY NumberFacts, CountersAssumption DEF CountersInv, Counters
  <2>3. \/ counts["allocations"] = 1 /\ counts["deallocations"] = 0
        \/ counts["allocations"] = 0 /\ counts["deallocations"] = 1
    BY CountsFacts
  <2>4. /\ tally'.missed["allocations"]
             = tally.missed["allocations"] + counts["allocations"]
        /\ tally'.missed["deallocations"]
             = tally.missed["deallocations"] + counts["deallocations"]
    BY <1>3 DEF Plus, Counters
  <2>5. tally'.begun["allocations"] + tally'.missed["allocations"]
            + tally'.begun["deallocations"] + tally'.missed["deallocations"]
              <= MaxCalls
    BY <1>3, <2>1, <2>2, <2>3, <2>4
  <2> QED BY <1>3, <2>5 DEF CountersInv, Bounded
<1> QED BY <1>4, <1>5, <1>6, <1>7 DEF CountersInv

\* What one addition does to the call it belongs to.
LEMMA FetchAddEffect ==
    ASSUME TypeOK, NEW t \in Threads, FetchAdd(t), NEW d, d = Head(call[t].left)
    PROVE  /\ d \in Counters
           /\ counter' = [counter EXCEPT ![d] =
                             (counter[d] + call[t].counts[d]) % WordSize]
           /\ call' \in [Threads -> [counts : Counts, left : Seq(Counters)]]
           /\ \A u \in Threads : CallOK(u)'
           /\ tally' \in Tallies
           /\ tally'.begun = tally.begun /\ tally'.missed = tally.missed
           /\ \A c \in Counters :
                /\ tally'.done[c] + InCall(c)'[t] = tally.done[c] + InCall(c)[t]
                /\ tally.done[c] <= tally'.done[c]
                /\ InCall(c)'[t] \in Nat
                /\ ToAdd(c)'[t] = IF c = d THEN 0 ELSE ToAdd(c)[t]
                /\ \A u \in Threads \ {t} : /\ InCall(c)'[u] = InCall(c)[u]
                                            /\ ToAdd(c)'[u] = ToAdd(c)[u]
           /\ ToAdd(d)[t] = call[t].counts[d]
<1> DEFINE counts == call[t].counts
           left == call[t].left
           rest == Tail(call[t].left)
<1>1. /\ left # <<>>
      /\ counter' = [counter EXCEPT ![d] = (@ + counts[d]) % WordSize]
      /\ call' = [call EXCEPT ![t] = IF rest = <<>> THEN Idle
                                     ELSE [@ EXCEPT !.left = rest]]
      /\ IF rest # <<>> THEN UNCHANGED tally
                        ELSE tally' = [tally EXCEPT !.done = Plus(@, counts)]
  BY DEF FetchAdd
<1>2. /\ \E size \in Sizes : counts = Allocation(size) \/ counts = Deallocation(size)
      /\ left \in {<<"allocations", "allocated_bytes">>,
                   <<"deallocations", "deallocated_bytes">>,
                   <<"allocated_bytes">>, <<"deallocated_bytes">>}
      /\ CallOK(t) /\ call[t] # Idle
  BY <1>1, LeftFacts, IdleFacts DEF TypeOK
<1>3. /\ d \in Counters /\ rest \in Seq(Counters)
      /\ left = <<"allocations", "allocated_bytes">> => rest = <<"allocated_bytes">>
      /\ left = <<"deallocations", "deallocated_bytes">> =>
            rest = <<"deallocated_bytes">>
      /\ left \in {<<"allocated_bytes">>, <<"deallocated_bytes">>} => rest = <<>>
      /\ \A c : (\E i \in 1 .. Len(rest) : rest[i] = c) <=>
                c # d /\ (\E i \in 1 .. Len(left) : left[i] = c)
      /\ \E i \in 1 .. Len(left) : left[i] = d
  <2>1. PICK l \in {<<"allocations", "allocated_bytes">>,
                    <<"deallocations", "deallocated_bytes">>,
                    <<"allocated_bytes">>, <<"deallocated_bytes">>} : l = left
    BY <1>2
  <2>2. d = Head(l) /\ rest = Tail(l)
    BY <2>1
  <2>3. /\ Head(l) \in Counters /\ Tail(l) \in Seq(Counters)
        /\ l = <<"allocations", "allocated_bytes">> =>
             Tail(l) = <<"allocated_bytes">>
        /\ l = <<"deallocations", "deallocated_bytes">> =>
             Tail(l) = <<"deallocated_bytes">>
        /\ l \in {<<"allocated_bytes">>, <<"deallocated_bytes">>} => Tail(l) = <<>>
        /\ \A c : (\E i \in 1 .. Len(Tail(l)) : Tail(l)[i] = c) <=>
                  c # Head(l) /\ (\E i \in 1 .. Len(l) : l[i] = c)
        /\ \E i \in 1 .. Len(l) : l[i] = Head(l)
    BY TailFacts
  <2> HIDE DEF left, rest
  <2>4. d \in Counters /\ rest \in Seq(Counters)
    BY <2>2, <2>3
  <2>5. /\ left = <<"allocations", "allocated_bytes">> => rest = <<"allocated_bytes">>
        /\ left = <<"deallocations", "deallocated_bytes">> =>
             rest = <<"deallocated_bytes">>
        /\ left \in {<<"allocated_bytes">>, <<"deallocated_bytes">>} => rest = <<>>
    BY <2>1, <2>2, <2>3, Zenon
  <2>6. /\ \A c : (\E i \in 1 .. Len(rest) : rest[i] = c) <=>
                  c # d /\ (\E i \in 1 .. Len(left) : left[i] = c)
        /\ \E i \in 1 .. Len(left) : left[i] = d
    <3>1. /\ \A c : (\E i \in 1 .. Len(Tail(l)) : Tail(l)[i] = c) <=>
                    c # Head(l) /\ (\E i \in 1 .. Len(l) : l[i] = c)
          /\ \E i \in 1 .. Len(l) : l[i] = Head(l)
      BY <2>3
    <3>2. l = left /\ d = Head(l) /\ rest = Tail(l)
      BY <2>1, <2>2
    <3> HIDE <2>1
    <3> QED BY <3>1, <3>2
  <2> QED BY <2>4, <2>5, <2>6, Zenon
<1>4. counts \in Counts /\ call[t] = [counts |-> counts, left |-> left]
  BY DEF TypeOK
<1>5. call' \in [Threads -> [counts : Counts, left : Seq(Counters)]]
  BY <1>1, <1>3, <1>4, IdleFacts DEF TypeOK
<1>6. /\ rest = <<>> => call'[t] = Idle
      /\ rest # <<>> => call'[t].counts = counts /\ call'[t].left = rest
      /\ \A u \in Threads \ {t} : call'[u] = call[u]
  <2>1. DOMAIN call = Threads
    BY DEF TypeOK
  <2>2. call'[t] = IF rest = <<>> THEN Idle ELSE [call[t] EXCEPT !.left = rest]
    BY <1>1, <2>1
  <2>3. \A u \in Threads \ {t} : call'[u] = call[u]
    BY <1>1, <2>1
  <2>4. rest # <<>> => call'[t] = [counts |-> counts, left |-> rest]
    BY <1>4, <2>2
  <2> HIDE DEF counts, rest
  <2> QED BY <2>2, <2>3, <2>4
<1>7. ASSUME NEW u \in Threads
      PROVE  CallOK(u)'
  <2>1. CASE u = t /\ rest = <<>>
    BY <1>6, <2>1 DEF CallOK, Idle, Zero
  <2>2. CASE u = t /\ rest # <<>>
    <3>1. /\ call'[t].counts = counts /\ call'[t].left = rest
      BY <1>6, <2>2
    <3>2. \/ /\ \E size \in Sizes : counts = Allocation(size)
             /\ rest = <<"allocated_bytes">>
          \/ /\ \E size \in Sizes : counts = Deallocation(size)
             /\ rest = <<"deallocated_bytes">>
      BY <1>2, <1>3, <2>2 DEF CallOK
    <3> HIDE DEF counts, left, rest
    <3> QED BY <2>2, <3>1, <3>2 DEF CallOK
  <2>3. CASE u # t
    BY <1>6, <2>3 DEF TypeOK, CallOK
  <2> QED BY <2>1, <2>2, <2>3
<1>8. /\ tally' \in Tallies
      /\ tally'.begun = tally.begun /\ tally'.missed = tally.missed
      /\ \A c \in Counters : tally'.done[c] = IF rest = <<>> THEN tally.done[c] + counts[c]
                                                        ELSE tally.done[c]
  <2>1. CASE rest # <<>>
    BY <1>1, <2>1 DEF TypeOK
  <2>2. CASE rest = <<>>
    <3>1. Plus(tally.done, counts) \in Counts
      BY <1>4, NumberFacts DEF Plus, Counts
    <3>2. /\ tally'.done = Plus(tally.done, counts)
          /\ tally'.begun = tally.begun /\ tally'.missed = tally.missed
          /\ tally' \in Tallies
      BY <1>1, <2>2, <3>1 DEF TypeOK, Tallies
    <3> QED BY <2>2, <3>2 DEF Plus
  <2> QED BY <2>1, <2>2
<1>9. ASSUME NEW c \in Counters
      PROVE  /\ InCall(c)'[t] = IF rest = <<>> THEN 0 ELSE counts[c]
             /\ InCall(c)[t] = counts[c] /\ counts[c] \in Nat
             /\ ToAdd(c)'[t] = IF c = d THEN 0 ELSE ToAdd(c)[t]
             /\ \A u \in Threads \ {t} : /\ InCall(c)'[u] = InCall(c)[u]
                                         /\ ToAdd(c)'[u] = ToAdd(c)[u]
  <2>1. InCall(c)'[t] = IF rest = <<>> THEN 0 ELSE counts[c]
    BY <1>6, IdleFacts DEF InCall
  <2>2. InCall(c)[t] = counts[c] /\ counts[c] \in Nat
    BY <1>4 DEF InCall, Counts
  <2>3. ToAdd(c)'[t] = IF c = d THEN 0 ELSE ToAdd(c)[t]
    <3>1. ToAdd(c)[t] = IF \E i \in 1 .. Len(left) : left[i] = c
                          THEN counts[c] ELSE 0
      BY DEF ToAdd
    <3>2. ToAdd(c)'[t] = IF \E i \in 1 .. Len(call'[t].left) : call'[t].left[i] = c
                           THEN call'[t].counts[c] ELSE 0
      BY DEF ToAdd
    <3> HIDE DEF counts, left, rest
    <3>3. CASE rest # <<>>
      <4>1. ToAdd(c)'[t] = IF \E i \in 1 .. Len(rest) : rest[i] = c
                             THEN counts[c] ELSE 0
        BY <1>6, <3>2, <3>3
      <4>2. (\E i \in 1 .. Len(rest) : rest[i] = c) <=>
                c # d /\ (\E i \in 1 .. Len(left) : left[i] = c)
        BY <1>3
      <4> QED BY <3>1, <4>1, <4>2
    <3>4. CASE rest = <<>>
      <4>1. ToAdd(c)'[t] = 0
        BY <1>6, <3>2, <3>4, IdleFacts
      <4>2. \A e : ~ \E i \in 1 .. Len(rest) : rest[i] = e
        BY <3>4
      <4> QED BY <1>3, <3>1, <4>1, <4>2
    <3> QED BY <3>3, <3>4
  <2>4. \A u \in Threads \ {t} : /\ InCall(c)'[u] = InCall(c)[u]
                                /\ ToAdd(c)'[u] = ToAdd(c)[u]
    BY <1>6 DEF InCall, ToAdd
  <2> QED BY <2>1, <2>2, <2>3, <2>4
<1>10. ToAdd(d)[t] = counts[d]
  BY <1>3 DEF ToAdd
<1> HIDE DEF counts, left, rest
<1>11. \A c \in Counters :
         /\ tally'.done[c] + InCall(c)'[t] = tally.done[c] + InCall(c)[t]
         /\ tally.done[c] <= tally'.done[c] /\ InCall(c)'[t] \in Nat
  BY <1>8, <1>9, NumberFacts
<1> QED
  BY <1>1, <1>3, <1>5, <1>7, <1>8, <1>9, <1>10, <1>11 DEF counts

\* An addition takes its units from what is left to add: the counter and what
\* has been applied move together.
LEMMA FetchAddPreserves ==
    ASSUME CountersInv, NEW t \in Threads, FetchAdd(t)
    PROVE  CountersInv'
<1>1. PICK d : d = Head(call[t].left)
  OBVIOUS
<1>2. PICK n : n = call[t].counts[d]
  OBVIOUS
<1>3. TypeOK /\ Bounded /\ Window /\ \A c \in Counters : UnitsOK(c)
  BY DEF CountersInv
<1>4. /\ d \in Counters /\ ToAdd(d)[t] = n
      /\ counter' = [counter EXCEPT ![d] = (counter[d] + n) % WordSize]
      /\ tally'.begun = tally.begun /\ tally'.missed = tally.missed
      /\ UNCHANGED <<reading, loaded, start, marks>>
  BY <1>1, <1>2, <1>3, FetchAddEffect DEF FetchAdd
<1>5. ASSUME NEW c \in Counters
      PROVE  /\ UnitsOK(c)'
             /\ Applied(c)' = IF c = d THEN Applied(c) + n ELSE Applied(c)
             /\ tally.done[c] <= tally'.done[c]
             /\ c = d => n \in Nat /\ n <= Cardinality(Units(ToAdd(c)))
  <2>1. PICK f, g : f = InCall(c) /\ g = InCall(c)'
    OBVIOUS
  <2>2. PICK h, k : h = ToAdd(c) /\ k = ToAdd(c)'
    OBVIOUS
  <2>3. /\ tally'.done[c] + g[t] = tally.done[c] + f[t]
        /\ tally.done[c] <= tally'.done[c]
        /\ g[t] \in Nat /\ \A u \in Threads \ {t} : g[u] = f[u]
        /\ k[t] = IF c = d THEN 0 ELSE h[t]
        /\ \A u \in Threads \ {t} : k[u] = h[u]
        /\ tally' \in Tallies
    BY <1>1, <1>3, <2>1, <2>2, FetchAddEffect
  <2>4. /\ \A u \in Threads : f[u] \in Nat /\ h[u] \in Nat
        /\ tally.done[c] \in Nat /\ tally'.done[c] \in Nat /\ tally.begun[c] \in Nat
    BY <1>3, <2>1, <2>2, <2>3, NumberFacts DEF Tallies, Counts
  <2>5. /\ IsFiniteSet(Units(f)) /\ IsFiniteSet(Units(h))
        /\ tally.begun[c] = tally.done[c] + Cardinality(Units(f))
    BY <1>3, <2>1, <2>2 DEF UnitsOK
  <2>6. /\ IsFiniteSet(Units(g))
        /\ Cardinality(Units(g)) = Cardinality(Units(f)) - f[t] + g[t]
        /\ Cardinality(Units(f)) \in Nat
    BY <2>3, <2>4, <2>5, UnitsUpdate
  <2>7. k[t] \in Nat
    BY <2>3, <2>4
  <2>8. /\ IsFiniteSet(Units(k))
        /\ Cardinality(Units(k)) = Cardinality(Units(h)) - h[t] + k[t]
        /\ Cardinality(Units(h)) \in Nat /\ Cardinality(Units(k)) \in Nat
    BY <2>3, <2>4, <2>5, <2>7, UnitsUpdate
  <2>9. /\ Units(InCall(c))' = Units(g) /\ Units(InCall(c)) = Units(f)
        /\ Units(ToAdd(c))' = Units(k) /\ Units(ToAdd(c)) = Units(h)
    BY <2>1, <2>2 DEF Units
  <2>10. tally'.begun[c] = tally'.done[c] + Cardinality(Units(g))
    BY <1>4, <2>3, <2>4, <2>5, <2>6
  <2>11. UnitsOK(c)'
    BY <2>6, <2>8, <2>9, <2>10 DEF UnitsOK
  <2>12. c = d => h[t] = n /\ n \in Nat
    BY <1>4, <2>2, <2>4
  <2>13. /\ Applied(c) = tally.begun[c] - Cardinality(Units(h))
         /\ Applied(c)' = tally.begun[c] - Cardinality(Units(k))
    BY <1>4, <2>9 DEF Applied
  <2> QED BY <2>3, <2>4, <2>8, <2>9, <2>11, <2>12, <2>13
<1>6. n \in Nat /\ n < WordSize
  <2>1. n \in Nat /\ n <= Cardinality(Units(ToAdd(d)))
    BY <1>4, <1>5
  <2>2. /\ Cardinality(Units(ToAdd(d))) \in Nat /\ tally.begun[d] \in Nat
        /\ tally.begun[d] < WordSize /\ WordSize \in Nat
    BY <1>3, <1>4, NumberFacts, BegunIsSmall, FS_CardinalityType, CountersAssumption
    DEF UnitsOK
  <2>3. Applied(d) \in Nat
    BY <1>3, <1>4, AppliedFacts
  <2> QED BY <2>1, <2>2, <2>3 DEF Applied
<1>7. /\ counter[d] \in 0 .. WordSize - 1
      /\ counter'[d] = (counter[d] + n) % WordSize
      /\ counter'[d] \in 0 .. WordSize - 1
      /\ counter'[d] = counter[d] + n \/ counter'[d] = counter[d] + n - WordSize
      /\ \A c \in Counters \ {d} : counter'[c] = counter[c]
      /\ counter' \in Values
  <2>1. counter \in [Counters -> 0 .. WordSize - 1]
    BY <1>3 DEF TypeOK, Values
  <2>2. (counter[d] + n) % WordSize \in 0 .. WordSize - 1
    BY <1>4, <1>6, <2>1, WordAdd
  <2>3. \/ (counter[d] + n) % WordSize = counter[d] + n
        \/ (counter[d] + n) % WordSize = counter[d] + n - WordSize
    BY <1>4, <1>6, <2>1, WordAdd
  <2>4. /\ counter'[d] = (counter[d] + n) % WordSize
        /\ \A c \in Counters \ {d} : counter'[c] = counter[c]
    BY <1>4, <2>1
  <2>5. counter' \in Values
    BY <1>4, <2>1, <2>2 DEF Values
  <2> QED BY <1>4, <2>1, <2>2, <2>3, <2>4, <2>5
<1>8. TypeOK'
  BY <1>1, <1>3, <1>4, <1>7, FetchAddEffect DEF TypeOK
<1>9. Bounded'
  BY <1>3, <1>4 DEF Bounded
<1>10. ASSUME NEW c \in Counters, NEW a \in Nat, WindowAt(c, a), Opened(c)
       PROVE  WindowAt(c, a)'
  <2>1. /\ Looked(c)' = Looked(c) /\ Found(c)' = Found(c) /\ loaded' = loaded
        /\ marks' = marks /\ start' = start
    BY <1>4 DEF Looked, Found, Unread
  <2>2. CASE c # d
    BY <1>5, <1>7, <1>10, <2>1, <2>2 DEF WindowAt, Ahead
  <2>3. CASE c = d
    <3>1. Applied(c) \in Nat /\ Applied(c)' = Applied(c) + n
      BY <1>3, <1>5, <2>3, AppliedFacts
    <3>2. Applied(c)' \in Nat /\ Applied(c)' < WordSize
      <4>1. n <= Cardinality(Units(ToAdd(c)))
        BY <1>5, <2>3
      <4>2. /\ Cardinality(Units(ToAdd(c))) \in Nat /\ tally.begun[c] \in Nat
            /\ tally.begun[c] < WordSize /\ WordSize \in Nat
        BY <1>3, NumberFacts, BegunIsSmall, FS_CardinalityType, CountersAssumption
        DEF UnitsOK
      <4> QED BY <1>6, <3>1, <4>1, <4>2 DEF Applied
    <3>3. Found(c) \in 0 .. WordSize - 1
      BY <1>3 DEF Found, TypeOK, Values
    <3>4. Ahead(counter'[c], Found(c), Applied(c)' - a)
      <4>1. Ahead(counter[c], Found(c), Applied(c) - a) /\ a <= Applied(c)
        BY <1>10 DEF WindowAt
      <4>2. WordSize \in Nat
        BY CountersAssumption
      <4>3. PICK x, y : x = counter[c] /\ y = counter'[c]
        OBVIOUS
      <4>4. /\ x \in 0 .. WordSize - 1 /\ y \in 0 .. WordSize - 1
            /\ y = x + n \/ y = x + n - WordSize
        BY <1>7, <2>3, <4>3
      <4>5. PICK now : now = Applied(c) + n
        OBVIOUS
      <4>6. /\ Ahead(x, Found(c), Applied(c) - a) /\ a <= Applied(c)
            /\ now \in Nat /\ now < WordSize
        BY <3>1, <3>2, <4>1, <4>3, <4>5
      <4>7. Ahead(y, Found(c), now - a)
        BY <1>6, <3>1, <3>3, <4>2, <4>4, <4>5, <4>6 DEF Ahead
      <4> QED BY <3>1, <4>3, <4>5, <4>7
    <3>5. /\ marks.opening.done[c] <= a /\ a <= Applied(c)'
          /\ start # NoScope => a <= marks.opened.begun[c]
      BY <1>6, <1>10, <3>1, <3>2 DEF WindowAt
    <3>6. Looked(c) => \E b \in Nat :
            /\ a <= b /\ marks.asked.done[c] <= b /\ b <= Applied(c)'
            /\ Ahead(loaded[c], Found(c), b - a)
      BY <1>6, <1>10, <3>1, <3>2 DEF WindowAt
    <3> QED BY <2>1, <3>4, <3>5, <3>6 DEF WindowAt, Ahead
  <2> QED BY <2>2, <2>3
<1>11. Window'
  <2>1. \A c \in Counters : /\ tally.done[c] \in Nat /\ tally'.done[c] \in Nat
                           /\ marks.opening.done[c] \in Nat
                           /\ marks.asked.done[c] \in Nat
                           /\ tally.done[c] <= tally'.done[c]
    BY <1>3, <1>5, <1>8 DEF TypeOK, Tallies, Counts
  <2>2. \A c \in Counters : Opened(c)' = Opened(c)
    BY <1>4 DEF Opened, Unread
  <2> QED BY <1>3, <1>4, <1>10, <2>1, <2>2 DEF Window
<1> QED BY <1>5, <1>8, <1>9, <1>11 DEF CountersInv

-----------------------------------------------------------------------------
(* The thread that measures, and the theorems.                             *)

\* The counters are accessed in order, each once.
LEMMA OrderFacts ==
    /\ Items(<<>>) = {} /\ <<>> \in Lefts
    /\ Items(Order) = Counters /\ Order \in Lefts /\ Order # <<>>
    /\ \A left \in Lefts \ {<<>>} :
         /\ Head(left) \in Counters /\ Tail(left) \in Lefts
         /\ Items(left) = Items(Tail(left)) \cup {Head(left)}
         /\ Head(left) \notin Items(Tail(left))
<1>1. Items(<<>>) = {} /\ <<>> \in Lefts
  BY DEF Items, Lefts
<1>2. Items(Order) = Counters /\ Order \in Lefts /\ Order # <<>>
  BY DEF Items, Lefts, Order, Counters
<1>3. ASSUME NEW left \in Lefts, left # <<>>
      PROVE  /\ Head(left) \in Counters /\ Tail(left) \in Lefts
             /\ Items(left) = Items(Tail(left)) \cup {Head(left)}
             /\ Head(left) \notin Items(Tail(left))
  <2>1. CASE left = <<"deallocated_bytes">>
    <3>1. Head(left) = "deallocated_bytes" /\ Tail(left) = <<>>
      BY <2>1
    <3>2. Items(left) = {"deallocated_bytes"}
      BY <2>1 DEF Items
    <3> QED BY <1>1, <3>1, <3>2 DEF Counters
  <2>2. CASE left = <<"allocated_bytes", "deallocated_bytes">>
    <3>1. /\ Head(left) = "allocated_bytes"
          /\ Tail(left) = <<"deallocated_bytes">>
      BY <2>2
    <3>2. /\ Items(left) = {"allocated_bytes", "deallocated_bytes"}
          /\ Items(<<"deallocated_bytes">>) = {"deallocated_bytes"}
      BY <2>2 DEF Items
    <3> QED BY <3>1, <3>2 DEF Counters, Lefts
  <2>3. CASE left = <<"deallocations", "allocated_bytes", "deallocated_bytes">>
    <3>1. /\ Head(left) = "deallocations"
          /\ Tail(left) = <<"allocated_bytes", "deallocated_bytes">>
      BY <2>3
    <3>2. /\ Items(left) = {"deallocations", "allocated_bytes", "deallocated_bytes"}
          /\ Items(<<"allocated_bytes", "deallocated_bytes">>) =
               {"allocated_bytes", "deallocated_bytes"}
      BY <2>3 DEF Items
    <3> QED BY <3>1, <3>2 DEF Counters, Lefts
  <2>4. CASE left = Order
    <3>1. /\ Head(left) = "allocations"
          /\ Tail(left) = <<"deallocations", "allocated_bytes", "deallocated_bytes">>
      BY <2>4 DEF Order
    <3>2. Items(<<"deallocations", "allocated_bytes", "deallocated_bytes">>) =
               {"deallocations", "allocated_bytes", "deallocated_bytes"}
      BY DEF Items
    <3> QED BY <1>2, <2>4, <3>1, <3>2 DEF Counters, Lefts
  <2> QED BY <1>3, <2>1, <2>2, <2>3, <2>4 DEF Lefts
<1> QED BY <1>1, <1>2, <1>3

\* Reading changes no call.
LEMMA ReaderFrame ==
    ASSUME CountersInv, UNCHANGED <<call, tally>>
    PROVE  /\ \A c \in Counters : UnitsOK(c)' /\ Applied(c)' = Applied(c)
           /\ Bounded'
           /\ \A t \in Threads : CallOK(t)'
<1>1. \A c \in Counters : /\ Units(InCall(c))' = Units(InCall(c))
                         /\ Units(ToAdd(c))' = Units(ToAdd(c))
  BY DEF Units, InCall, ToAdd
<1>2. \A c \in Counters : UnitsOK(c)' /\ Applied(c)' = Applied(c)
  BY <1>1 DEF CountersInv, UnitsOK, Applied
<1> QED BY <1>2 DEF CountersInv, Bounded, TypeOK, CallOK

LEMMA ResetCountersPreserves ==
    ASSUME CountersInv, ResetCounters
    PROVE  CountersInv'
<1>1. reading' = [by |-> "reset", left |-> Order] /\ marks' = [marks EXCEPT !.clean = FALSE]
  BY DEF ResetCounters, Begins
<1>2. TypeOK'
  BY <1>1, ReaderFrame, OrderFacts DEF ResetCounters, CountersInv, TypeOK
<1>3. ~ marks'.clean
  BY <1>1 DEF CountersInv, TypeOK
<1> QED BY <1>2, <1>3, ReaderFrame DEF ResetCounters, CountersInv, Window

\* One access of the reader's.
LEMMA AccessFacts ==
    ASSUME TypeOK, NEW c, NEW by, Accesses(c, by)
    PROVE  /\ reading.by = by /\ reading'.by = by /\ reading.left # <<>>
           /\ c \in Counters
           /\ reading' \in [by : {"nobody", "reset", "scope", "snapshot"}, left : Lefts]
           /\ Unread = Unread' \cup {c} /\ c \notin Unread'
           /\ reading'.left = <<>> => Unread' = {}
<1>1. /\ reading.by = by /\ reading.left # <<>> /\ c = Head(reading.left)
      /\ reading' = [reading EXCEPT !.left = Tail(reading.left)]
      /\ reading \in [by : {"nobody", "reset", "scope", "snapshot"}, left : Lefts]
  BY DEF Accesses, TypeOK
<1>2. reading'.by = by /\ reading'.left = Tail(reading.left)
  BY <1>1
<1>3. /\ Head(reading.left) \in Counters /\ Tail(reading.left) \in Lefts
      /\ Items(reading.left) = Items(Tail(reading.left)) \cup {Head(reading.left)}
      /\ Head(reading.left) \notin Items(Tail(reading.left))
  BY <1>1, OrderFacts
<1>4. Unread = Items(reading.left) /\ Unread' = Items(Tail(reading.left))
  BY <1>2 DEF Unread
<1>5. reading'.left = <<>> => Unread' = {}
  BY <1>2, <1>4, OrderFacts
<1> QED BY <1>1, <1>2, <1>3, <1>4, <1>5

LEMMA StorePreserves ==
    ASSUME CountersInv, NEW c \in Counters, Store(c)
    PROVE  CountersInv'
<1>1. Accesses(c, "reset") /\ counter' = [counter EXCEPT ![c] = 0]
  BY DEF Store
<1>2. reading.by = "reset" /\ ~ marks'.clean
  BY <1>1, AccessFacts DEF Store, CountersInv, Window
<1>3. counter' \in Values
  BY <1>1, CountersAssumption DEF CountersInv, TypeOK, Values
<1>4. TypeOK'
  BY <1>1, <1>3, ReaderFrame, AccessFacts DEF Store, CountersInv, TypeOK
<1> QED BY <1>2, <1>4, ReaderFrame DEF Store, CountersInv, Window

LEMMA OpenScopePreserves ==
    ASSUME CountersInv, OpenScope
    PROVE  CountersInv'
<1>1. /\ reading' = [by |-> "scope", left |-> Order]
      /\ loaded' = Zero /\ start' = NoScope
      /\ marks' = [opening |-> tally, opened |-> tally, asked |-> tally,
                   clean |-> TRUE]
  BY DEF OpenScope, Begins
<1>2. loaded' \in Values
  <2>1. counter["allocations"] \in 0 .. WordSize - 1
    BY DEF CountersInv, TypeOK, Values, Counters
  <2> QED BY <1>1, <2>1, CountersAssumption DEF Zero, Values
<1>3. TypeOK'
  BY <1>1, <1>2, ReaderFrame, OrderFacts DEF OpenScope, CountersInv, TypeOK
<1>4. Unread' = Counters
  BY <1>1, OrderFacts DEF Unread
<1>5. ASSUME NEW c \in Counters
      PROVE  /\ marks'.opening.done[c] <= tally'.done[c]
             /\ marks'.asked.done[c] <= tally'.done[c]
             /\ ~ Opened(c)'
  <2>1. tally.done[c] \in Nat
    BY NumberFacts DEF CountersInv
  <2> QED BY <1>1, <1>4, <2>1 DEF OpenScope, Opened
<1>6. Window'
  BY <1>1, <1>5, OrderFacts DEF Window
<1> QED BY <1>3, <1>6, ReaderFrame DEF OpenScope, CountersInv

LEMMA SnapshotPreserves ==
    ASSUME CountersInv, Snapshot
    PROVE  CountersInv'
<1>1. /\ reading' = [by |-> "snapshot", left |-> Order]
      /\ loaded' = Zero /\ start' = start /\ start # NoScope
      /\ counter' = counter /\ tally' = tally
  BY DEF Snapshot, Begins
<1>2. /\ marks'.opening = marks.opening /\ marks'.opened = marks.opened
      /\ marks'.asked = tally /\ marks'.clean = marks.clean
      /\ marks' \in [opening : Tallies, opened : Tallies, asked : Tallies,
                     clean : BOOLEAN]
  BY DEF Snapshot, CountersInv, TypeOK
<1>3. loaded' \in Values
  <2>1. counter["allocations"] \in 0 .. WordSize - 1
    BY DEF CountersInv, TypeOK, Values, Counters
  <2> QED BY <1>1, <2>1, CountersAssumption DEF Zero, Values
<1>4. TypeOK'
  BY <1>1, <1>2, <1>3, ReaderFrame, OrderFacts DEF Snapshot, CountersInv, TypeOK
<1>5. Unread' = Counters
  BY <1>1, OrderFacts DEF Unread
<1>6. \A c \in Counters : tally.done[c] \in Nat
  BY NumberFacts DEF CountersInv
<1>7. ASSUME NEW c \in Counters, NEW a \in Nat, WindowAt(c, a)
      PROVE  WindowAt(c, a)'
  <2>1. ~ Looked(c)' /\ Found(c)' = Found(c) /\ Applied(c)' = Applied(c)
    BY <1>1, <1>5, ReaderFrame DEF Looked, Found, Snapshot
  <2> QED BY <1>1, <1>2, <1>7, <2>1 DEF WindowAt, Ahead
<1>8. Window'
  BY <1>1, <1>2, <1>6, <1>7 DEF CountersInv, Window, Opened
<1> QED BY <1>4, <1>8, ReaderFrame DEF Snapshot, CountersInv

\* The value found in a counter stands for what had been added to it then.
LEMMA LoadForScopePreserves ==
    ASSUME CountersInv, NEW c \in Counters, LoadForScope(c)
    PROVE  CountersInv'
<1>1. /\ Accesses(c, "scope") /\ counter' = counter /\ tally' = tally
      /\ loaded' = [loaded EXCEPT ![c] = counter[c]]
      /\ IF reading'.left = <<>>
           THEN start' = loaded' /\ marks' = [marks EXCEPT !.opened = tally]
           ELSE start' = start /\ marks' = marks
      /\ TypeOK /\ Window /\ Bounded /\ \A e \in Counters : UnitsOK(e)
  BY DEF LoadForScope, CountersInv
<1>2. /\ reading.by = "scope" /\ reading'.by = "scope" /\ reading.left # <<>>
      /\ reading' \in [by : {"nobody", "reset", "scope", "snapshot"}, left : Lefts]
      /\ Unread = Unread' \cup {c} /\ c \notin Unread'
      /\ reading'.left = <<>> => Unread' = {}
  BY <1>1, AccessFacts
<1>3. /\ loaded' \in Values /\ loaded'[c] = counter[c]
      /\ \A e \in Counters \ {c} : loaded'[e] = loaded[e]
  BY <1>1 DEF TypeOK, Values
<1>4. /\ marks' \in [opening : Tallies, opened : Tallies, asked : Tallies,
                     clean : BOOLEAN]
      /\ marks'.opening = marks.opening /\ marks'.asked = marks.asked
      /\ marks'.clean = marks.clean
      /\ reading'.left = <<>> => marks'.opened = tally
  BY <1>1 DEF TypeOK
<1>5. start' = NoScope \/ start' \in Values
  BY <1>1, <1>3 DEF TypeOK
<1>6. TypeOK'
  BY <1>1, <1>2, <1>3, <1>4, <1>5, ReaderFrame DEF LoadForScope, CountersInv, TypeOK
<1>7. loaded' # NoScope
  <2>1. DOMAIN loaded' = Counters
    BY <1>3 DEF Values
  <2>2. DOMAIN NoScope = {}
    BY DEF NoScope
  <2> QED BY <2>1, <2>2 DEF Counters
<1>8. \A e \in Counters :
        /\ Applied(e)' = Applied(e) /\ Applied(e) \in Nat
        /\ tally.done[e] <= Applied(e) /\ Applied(e) <= tally.begun[e]
        /\ tally.done[e] \in Nat /\ tally.begun[e] \in Nat
  BY <1>1, ReaderFrame, AppliedFacts, NumberFacts DEF LoadForScope
<1>9. ASSUME marks.clean
      PROVE  Window'
  <2>1. start = NoScope
    BY <1>1, <1>2, <1>9 DEF Window
  <2>2. /\ reading'.left = <<>> => start' # NoScope /\ start' = loaded'
        /\ reading'.left # <<>> => start' = NoScope
    BY <1>1, <1>7, <2>1
  <2>3. \A e \in Counters : Found(e)' = loaded'[e] /\ Found(e) = loaded[e] /\ ~ Looked(e)'
    BY <1>2, <2>1, <2>2 DEF Found, Looked
  <2>4. ASSUME NEW e \in Counters, Opened(e)'
        PROVE  \E a \in Nat : WindowAt(e, a)'
    <3>1. CASE e = c
      <4>1. marks.opening.done[c] <= tally.done[c] /\ marks.opening.done[c] \in Nat
        BY <1>1, <1>9 DEF Window, TypeOK, Tallies, Counts
      <4>2. counter[c] = counter[c] + (Applied(c) - Applied(c))
        BY <1>1, <1>8, NumberFacts
      <4>3. WindowAt(c, Applied(c))'
        <5>1. /\ marks'.opening.done[c] <= Applied(c)
              /\ Applied(c) <= Applied(c)'
              /\ start' # NoScope => Applied(c) <= marks'.opened.begun[c]
          BY <1>4, <1>8, <2>2, <4>1
        <5>2. Ahead(counter'[c], Found(c)', Applied(c)' - Applied(c))
          BY <1>1, <1>3, <1>8, <2>3, <4>2 DEF Ahead
        <5> QED BY <1>8, <2>3, <5>1, <5>2 DEF WindowAt, Ahead
      <4> QED BY <1>8, <3>1, <4>3
    <3>2. CASE e # c
      <4>1. Opened(e)
        BY <1>2, <2>1, <2>2, <2>4, <3>2 DEF Opened
      <4>2. PICK a \in Nat : WindowAt(e, a)
        BY <1>1, <1>9, <4>1 DEF Window
      <4>3. Found(e)' = Found(e) /\ loaded'[e] = loaded[e]
        BY <1>3, <2>3, <3>2
      <4>4. start' # NoScope => a <= marks'.opened.begun[e]
        BY <1>4, <1>8, <2>2, <4>2 DEF WindowAt
      <4>5. WindowAt(e, a)'
        BY <1>1, <1>4, <1>8, <2>3, <4>2, <4>3, <4>4 DEF WindowAt, Ahead
      <4> QED BY <4>5
    <3> QED BY <3>1, <3>2
  <2>5. \A e \in Counters : /\ marks'.opening.done[e] <= tally'.done[e]
                           /\ marks'.asked.done[e] <= tally'.done[e]
    BY <1>1, <1>4, <1>9 DEF Window
  <2> QED BY <1>2, <2>2, <2>4, <2>5 DEF Window
<1>10. Window'
  BY <1>4, <1>9 DEF Window
<1> QED BY <1>6, <1>10, ReaderFrame DEF LoadForScope, CountersInv

LEMMA LoadForSnapshotPreserves ==
    ASSUME CountersInv, NEW c \in Counters, LoadForSnapshot(c)
    PROVE  CountersInv'
<1>1. /\ Accesses(c, "snapshot") /\ counter' = counter /\ tally' = tally
      /\ loaded' = [loaded EXCEPT ![c] = counter[c]]
      /\ start' = start /\ marks' = marks
      /\ TypeOK /\ Window /\ Bounded /\ \A e \in Counters : UnitsOK(e)
  BY DEF LoadForSnapshot, CountersInv
<1>2. /\ reading.by = "snapshot" /\ reading'.by = "snapshot"
      /\ reading' \in [by : {"nobody", "reset", "scope", "snapshot"}, left : Lefts]
      /\ Unread = Unread' \cup {c} /\ c \notin Unread'
  BY <1>1, AccessFacts
<1>3. /\ loaded' \in Values /\ loaded'[c] = counter[c]
      /\ \A e \in Counters \ {c} : loaded'[e] = loaded[e]
  BY <1>1 DEF TypeOK, Values
<1>4. TypeOK'
  BY <1>1, <1>2, <1>3, ReaderFrame DEF LoadForSnapshot, CountersInv, TypeOK
<1>5. \A e \in Counters :
        /\ Applied(e)' = Applied(e) /\ Applied(e) \in Nat
        /\ tally.done[e] <= Applied(e) /\ tally.done[e] \in Nat
  BY <1>1, ReaderFrame, AppliedFacts, NumberFacts DEF LoadForSnapshot
<1>6. ASSUME marks.clean
      PROVE  Window'
  <2>1. start # NoScope
    BY <1>1, <1>2, <1>6 DEF Window
  <2>2. \A e \in Counters : Found(e)' = Found(e)
    BY <1>1, <2>1 DEF Found
  <2>3. ASSUME NEW e \in Counters
        PROVE  \E a \in Nat : WindowAt(e, a)'
    <3>1. PICK a \in Nat : WindowAt(e, a)
      BY <1>1, <1>6, <2>1 DEF Window, Opened
    <3>2. Looked(e)' => \E b \in Nat :
            /\ a <= b /\ marks.asked.done[e] <= b /\ b <= Applied(e)
            /\ Ahead(loaded'[e], Found(e), b - a)
      <4>1. CASE e = c
        <5>1. marks.asked.done[c] <= Applied(c)
          <6>1. marks.asked.done[c] <= tally.done[c] /\ marks.asked.done[c] \in Nat
            BY <1>1, <1>6 DEF Window, TypeOK, Tallies, Counts
          <6> QED BY <1>5, <6>1
        <5>2. /\ a <= Applied(c) /\ Ahead(loaded'[c], Found(c), Applied(c) - a)
          BY <1>3, <3>1, <4>1 DEF WindowAt
        <5> QED BY <1>5, <4>1, <5>1, <5>2
      <4>2. CASE e # c
        <5>1. Looked(e)' => Looked(e)
          BY <1>2, <4>2 DEF Looked
        <5> QED BY <1>3, <3>1, <4>2, <5>1 DEF WindowAt
      <4> QED BY <4>1, <4>2
    <3>3. WindowAt(e, a)'
      BY <1>1, <1>5, <2>2, <3>1, <3>2 DEF WindowAt, Ahead
    <3> QED BY <3>3
  <2>4. /\ \A e \in Counters : /\ marks'.opening.done[e] <= tally'.done[e]
                              /\ marks'.asked.done[e] <= tally'.done[e]
    BY <1>1, <1>6 DEF Window
  <2> QED BY <1>1, <1>2, <2>1, <2>3, <2>4 DEF Window
<1>7. Window'
  BY <1>1, <1>6 DEF Window
<1> QED BY <1>4, <1>7, ReaderFrame DEF LoadForSnapshot, CountersInv

LEMMA InitEstablishes == Init => CountersInv
<1> SUFFICES ASSUME Init PROVE CountersInv
  OBVIOUS
<1>1. Zero \in Counts /\ \A c \in Counters : Zero[c] = 0
  BY DEF Zero, Counts
<1>2. tally = [begun |-> Zero, done |-> Zero, missed |-> Zero] /\ tally \in Tallies
  BY <1>1 DEF Init, Tallies
<1>3. counter \in Values
  BY CountersAssumption DEF Init, Values
<1>4. loaded \in Values
  <2>1. counter["allocations"] \in 0 .. WordSize - 1
    BY <1>3 DEF Values, Counters
  <2> QED BY <2>1, CountersAssumption DEF Init, Zero, Values
<1>5. \A t \in Threads : call[t] = Idle
  BY DEF Init
<1>6. TypeOK
  BY <1>2, <1>3, <1>4, <1>5, IdleFacts, OrderFacts DEF Init, TypeOK, CallOK
<1>7. ASSUME NEW c \in Counters
      PROVE  UnitsOK(c)
  <2>1. \A t \in Threads : InCall(c)[t] = 0 /\ ToAdd(c)[t] = 0
    BY <1>5, IdleFacts DEF InCall, ToAdd
  <2>2. /\ IsFiniteSet(Units(InCall(c))) /\ Cardinality(Units(InCall(c))) = 0
        /\ IsFiniteSet(Units(ToAdd(c)))
    BY <2>1, NoUnits
  <2> QED BY <1>1, <1>2, <2>2 DEF UnitsOK
<1>8. Bounded
  BY <1>1, <1>2, CountersAssumption DEF Bounded, Counters
<1>9. Window
  BY DEF Init, Window
<1> QED BY <1>6, <1>7, <1>8, <1>9 DEF CountersInv

\* The inductive invariant of the counters: what has been added to one, and
\* how far it is ahead of what the scope and the snapshot have loaded.
THEOREM CountersInvariant == Spec => []CountersInv
<1>1. ASSUME CountersInv, [Next]_vars
      PROVE  CountersInv'
  <2>1. ASSUME NEW t \in Threads, NEW size \in Sizes,
               \/ OperatorNew(t, size) \/ OperatorDeleteSized(t, size)
        PROVE  CountersInv'
    BY <1>1, <2>1, BeginPreserves DEF OperatorNew, OperatorDeleteSized
  <2>2. ASSUME NEW t \in Threads, NEW size \in Sizes,
               \/ OperatorDelete(t, size) \/ AlignedNew(t, size)
               \/ AlignedDelete(t, size)
        PROVE  CountersInv'
    BY <1>1, <2>2, MissPreserves DEF OperatorDelete, AlignedNew, AlignedDelete
  <2>3. ASSUME NEW t \in Threads, FetchAdd(t)
        PROVE  CountersInv'
    BY <1>1, <2>3, FetchAddPreserves
  <2>4. CASE ResetCounters
    BY <1>1, <2>4, ResetCountersPreserves
  <2>5. CASE OpenScope
    BY <1>1, <2>5, OpenScopePreserves
  <2>6. CASE Snapshot
    BY <1>1, <2>6, SnapshotPreserves
  <2>7. ASSUME NEW c \in Counters,
               Store(c) \/ LoadForScope(c) \/ LoadForSnapshot(c)
        PROVE  CountersInv'
    BY <1>1, <2>7, StorePreserves, LoadForScopePreserves, LoadForSnapshotPreserves
  <2>8. CASE UNCHANGED vars
    <3>1. UNCHANGED <<counter, call, reading, loaded, start, tally, marks>>
      BY <2>8 DEF vars
    <3>2. TypeOK'
      BY <1>1, <3>1 DEF CountersInv, TypeOK, CallOK
    <3>3. \A c \in Counters : /\ tally.done[c] <= tally'.done[c]
                             /\ Applied(c)' = Applied(c)
      BY <1>1, <3>1, ReaderFrame, NumberFacts DEF CountersInv
    <3>4. Window'
      BY <1>1, <3>1, <3>2, <3>3, WindowFrame DEF CountersInv
    <3> QED BY <1>1, <3>1, <3>2, <3>4, ReaderFrame DEF CountersInv
  <2> QED
    BY <1>1, <2>1, <2>2, <2>3, <2>4, <2>5, <2>6, <2>7, <2>8 DEF Next
<1> QED BY <1>1, InitEstablishes, PTL DEF Spec

\* AllocationScope::snapshot beside running threads: each of its numbers lies
\* between what calls that were over when it was asked for must have counted
\* since the scope was open, and what calls can have, whatever the counters
\* held before and although they wrap.
THEOREM SnapshotsAreTrue == Spec => []SnapshotWithinWindow
<1>1. ASSUME CountersInv
      PROVE  SnapshotWithinWindow
  <2> SUFFICES ASSUME SnapshotTaken, NEW c \in Counters
               PROVE  AtLeast(c) <= Reported(c) /\ Reported(c) <= AtMost(c)
    BY DEF SnapshotWithinWindow
  <2>1. /\ reading.by = "snapshot" /\ reading.left = <<>> /\ marks.clean
        /\ TypeOK /\ Window /\ Bounded /\ UnitsOK(c)
    BY <1>1 DEF SnapshotTaken, CountersInv
  <2>2. start # NoScope /\ Looked(c) /\ Opened(c)
    BY <2>1, OrderFacts DEF Window, Looked, Opened, Unread
  <2>3. PICK a \in Nat : WindowAt(c, a)
    BY <2>1, <2>2 DEF Window
  <2>4. PICK b \in Nat :
          /\ a <= b /\ marks.asked.done[c] <= b /\ b <= Applied(c)
          /\ Ahead(loaded[c], start[c], b - a)
    BY <2>2, <2>3 DEF WindowAt, Found
  <2>5. /\ marks.opening.done[c] <= a /\ a <= marks.opened.begun[c]
        /\ Applied(c) <= tally.begun[c] /\ Applied(c) \in Nat
        /\ Applied(c) < WordSize /\ WordSize \in Nat
    BY <2>1, <2>2, <2>3, AppliedFacts, CountersAssumption DEF WindowAt
  <2>6. /\ marks.asked.done[c] \in Nat /\ marks.opened.begun[c] \in Nat
        /\ marks.opening.done[c] \in Nat /\ tally.begun[c] \in Nat
    BY <2>1 DEF TypeOK, Tallies, Counts
  <2>7. loaded[c] \in 0 .. WordSize - 1 /\ start[c] \in 0 .. WordSize - 1
    BY <2>1, <2>2 DEF TypeOK, Values
  <2>8. b - a \in Nat /\ b - a < WordSize
    BY <2>4, <2>5
  <2>9. Reported(c) = b - a
    BY <2>4, <2>7, <2>8, WordSubtract DEF Reported
  <2> QED BY <2>4, <2>5, <2>6, <2>9 DEF AtLeast, AtMost
<1> QED BY <1>1, CountersInvariant, PTL
=============================================================================
