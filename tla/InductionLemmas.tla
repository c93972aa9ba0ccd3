-------------------------- MODULE InductionLemmas ---------------------------
(* What the other proofs need induction for.  A property of all naturals   *)
(* is proved from the least number that would refute it: LeastNatural.     *)
(* With it recursive functions are shown to exist, whether they recur to   *)
(* the number before, to any number below or downwards; FoldLeft to take a *)
(* sequence one element at a time; the sums of the community modules,      *)
(* MapThenSumSet, to add up; and FlattenSeq to put sequences one behind    *)
(* the other.                                                              *)
EXTENDS Integers, SequencesExt, FiniteSetTheorems, SequenceTheorems,
        WellFoundedInduction, TLAPS

\* Any numbers have a least one among them.
LEMMA LeastNatural ==
    ASSUME NEW T, T \subseteq Nat, T # {}
    PROVE  \E m \in T : \A k \in T : m <= k
<1>1. PICK m \in T : \A k \in T : <<k, m>> \notin OpToRel(<, Nat)
  BY NatLessThanWellFounded, WFMin
<1>2. \A k \in T : ~ (k < m)
  BY <1>1 DEF OpToRel
<1> QED BY <1>2

\* Induction up to a bound, over a set for want of a predicate.
LEMMA UpTo ==
    ASSUME NEW n \in Nat, NEW T, 0 \in T,
           \A k \in 0 .. n - 1 : k \in T => k + 1 \in T
    PROVE  \A k \in 0 .. n : k \in T
<1> DEFINE Left == {k \in 0 .. n : k \notin T}
<1>1. CASE Left = {}
  BY <1>1
<1>2. CASE Left # {}
  <2>1. PICK m \in Left : \A k \in Left : m <= k
    <3>1. Left \subseteq Nat
      OBVIOUS
    <3> HIDE DEF Left
    <3> QED BY <1>2, <3>1, LeastNatural
  <2>2. m # 0 /\ m - 1 \in 0 .. n - 1 /\ m - 1 \notin Left
    BY <2>1
  <2> QED BY <2>2
<1> QED BY <1>1, <1>2

\* The function over 0 .. n with a first value and a step.
Iterates(f, n, D, first, step) ==
    /\ f \in [0 .. n -> D]
    /\ f[0] = first
    /\ \A k \in 1 .. n : f[k] = step[k][f[k - 1]]

Steps(step, n, D) == \A k \in 1 .. n : \A d \in D : step[k][d] \in D

\* It is there.
LEMMA Recursion ==
    ASSUME NEW n \in Nat, NEW D, NEW first \in D, NEW step, Steps(step, n, D)
    PROVE  \E f : Iterates(f, n, D, first, step)
<1> DEFINE Made(m, f) == f[0] = first /\ \A k \in 1 .. m : f[k] = step[k][f[k - 1]]
           T == {m \in 0 .. n : \E f \in [0 .. m -> D] : Made(m, f)}
<1>1. 0 \in T
  <2> DEFINE f == [k \in 0 .. 0 |-> first]
  <2>1. f \in [0 .. 0 -> D] /\ Made(0, f)
    OBVIOUS
  <2> HIDE DEF f, Made
  <2> QED BY <2>1
<1>2. ASSUME NEW m \in 0 .. n - 1, m \in T
      PROVE  m + 1 \in T
  <2>1. PICK f \in [0 .. m -> D] : Made(m, f)
    BY <1>2
  <2> DEFINE g == [k \in 0 .. m + 1 |->
                     IF k = m + 1 THEN step[m + 1][f[m]] ELSE f[k]]
  <2>2. g \in [0 .. m + 1 -> D]
    BY <2>1 DEF Steps
  <2>3. ASSUME NEW k \in 1 .. m + 1
        PROVE  g[k] = step[k][g[k - 1]]
    <3>1. CASE k = m + 1
      <4>1. k - 1 = m /\ g[k] = step[k][f[m]] /\ g[m] = f[m]
        BY <3>1
      <4> QED BY <4>1
    <3>2. CASE k # m + 1
      <4>1. k \in 1 .. m /\ g[k] = f[k] /\ g[k - 1] = f[k - 1]
        BY <3>2
      <4> HIDE DEF g
      <4> QED BY <2>1, <4>1
    <3> QED BY <3>1, <3>2
  <2>4. g[0] = first
    BY <2>1
  <2> HIDE DEF g
  <2>5. Made(m + 1, g)
    BY <2>3, <2>4
  <2> HIDE DEF Made
  <2> QED BY <2>2, <2>5
<1>3. n \in T
  <2> HIDE DEF T
  <2> QED BY <1>1, <1>2, UpTo
<1> QED BY <1>3 DEF Iterates

\* The same where a value may depend on all later ones: the last is found
\* first, and each found by changing one place of a function.
LooksAhead(step, n, D) ==
    /\ \A k \in 1 .. n : \A f \in [1 .. n -> D] : step[k][f] \in D
    /\ \A k \in 1 .. n : \A f, g \in [1 .. n -> D] :
         (\A j \in k + 1 .. n : f[j] = g[j]) => step[k][f] = step[k][g]

LEMMA CourseOfValues ==
    ASSUME NEW n \in Nat, NEW D, NEW d \in D, NEW step, LooksAhead(step, n, D)
    PROVE  \E f \in [1 .. n -> D] : \A k \in 1 .. n : f[k] = step[k][f]
<1>0. /\ \A k \in 1 .. n : \A f \in [1 .. n -> D] : step[k][f] \in D
      /\ \A k \in 1 .. n : \A f, g \in [1 .. n -> D] :
           (\A j \in k + 1 .. n : f[j] = g[j]) => step[k][f] = step[k][g]
  BY DEF LooksAhead
<1> DEFINE E == [1 .. n -> D]
           change == [j \in 1 .. n |-> [f \in E |->
                        [f EXCEPT ![n + 1 - j] = step[n + 1 - j][f]]]]
<1>1. Steps(change, n, E)
  <2> SUFFICES ASSUME NEW j \in 1 .. n, NEW f \in E
               PROVE  change[j][f] \in E
    BY DEF Steps
  <2>1. n + 1 - j \in 1 .. n
    OBVIOUS
  <2> QED BY <1>0, <2>1
<1>2. [k \in 1 .. n |-> d] \in E
  OBVIOUS
<1>3. PICK F : Iterates(F, n, E, [k \in 1 .. n |-> d], change)
  <2> HIDE DEF change, E
  <2> QED BY <1>1, <1>2, Recursion
<1> DEFINE T == {j \in 0 .. n : \A k \in n + 1 - j .. n : F[j][k] = step[k][F[j]]}
<1>4. 0 \in T
  OBVIOUS
<1>5. ASSUME NEW j \in 0 .. n - 1, j \in T
      PROVE  j + 1 \in T
  <2>1. PICK p \in 1 .. n : p = n - j
    OBVIOUS
  <2>2. PICK f \in E : f = F[j]
    BY <1>3 DEF Iterates
  <2>3. PICK g : g = [f EXCEPT ![p] = step[p][f]]
    OBVIOUS
  <2>4. F[j + 1] = g
    <3>1. PICK i \in 1 .. n : i = j + 1 /\ i - 1 = j /\ n + 1 - i = p
      BY <2>1
    <3>2. F[i] = change[i][F[i - 1]]
      <4> HIDE DEF change
      <4> QED BY <1>3 DEF Iterates
    <3>3. change[i][f] = g
      BY <2>3, <3>1
    <3> HIDE DEF change
    <3> QED BY <2>2, <3>1, <3>2, <3>3
  <2>5. g \in E /\ g[p] = step[p][f] /\ \A k \in 1 .. n : k # p => g[k] = f[k]
    BY <1>0, <2>2, <2>3
  <2>6. ASSUME NEW k \in p .. n
        PROVE  g[k] = step[k][g]
    <3>1. k \in 1 .. n /\ \A i \in k + 1 .. n : g[i] = f[i]
      BY <2>5
    <3>2. step[k][f] = step[k][g]
      BY <1>0, <2>5, <3>1
    <3>3. CASE k = p
      BY <2>5, <3>2, <3>3
    <3>4. CASE k # p
      <4>1. k \in n + 1 - j .. n
        BY <2>1, <3>4
      <4>2. f[k] = step[k][f]
        BY <1>5, <2>2, <4>1
      <4> QED BY <2>5, <3>1, <3>2, <3>4, <4>2
    <3> QED BY <3>3, <3>4
  <2>7. n + 1 - (j + 1) = p /\ j + 1 \in 0 .. n
    BY <2>1
  <2> QED BY <2>4, <2>6, <2>7
<1>6. n \in T
  <2> HIDE DEF T
  <2> QED BY <1>4, <1>5, UpTo
<1>7. F[n] \in E
  BY <1>3 DEF Iterates
<1>8. \A k \in 1 .. n : k \in n + 1 - n .. n
  OBVIOUS
<1> QED BY <1>6, <1>7, <1>8

\* Induction from the last number down, where each follows from all later ones.
LEMMA DownFrom ==
    ASSUME NEW n \in Nat, NEW T,
           \A k \in 1 .. n : (\A j \in k + 1 .. n : j \in T) => k \in T
    PROVE  \A k \in 1 .. n : k \in T
<1> DEFINE Left == {i \in Nat : i < n /\ n - i \notin T}
<1>1. CASE Left = {}
  <2>1. ASSUME NEW k \in 1 .. n
        PROVE  k \in T
    <3>1. n - k \in Nat /\ n - k < n /\ n - (n - k) = k
      OBVIOUS
    <3> QED BY <1>1, <3>1
  <2> QED BY <2>1
<1>2. CASE Left # {}
  <2>1. PICK i \in Left : \A k \in Left : i <= k
    <3>1. Left \subseteq Nat
      OBVIOUS
    <3> HIDE DEF Left
    <3> QED BY <1>2, <3>1, LeastNatural
  <2>2. PICK k \in 1 .. n : k = n - i /\ k \notin T
    BY <2>1
  <2>3. ASSUME NEW j \in k + 1 .. n
        PROVE  j \in T
    <3>1. n - j \in Nat /\ n - j < n /\ n - j < i /\ n - (n - j) = j
      BY <2>2
    <3> QED BY <2>1, <3>1
  <2> QED BY <2>2, <2>3
<1> QED BY <1>1, <1>2

\* The largest of a few numbers.
LEMMA LargestOf ==
    ASSUME NEW n \in Nat, NEW s \in SUBSET (1 .. n), s # {}
    PROVE  Max(s) \in s /\ \A k \in s : k <= Max(s)
<1> DEFINE left == {k \in Nat : n - k \in s}
<1>1. left # {}
  <2>1. PICK k \in s : TRUE
    OBVIOUS
  <2>2. n - k \in Nat /\ n - (n - k) = k
    OBVIOUS
  <2> QED BY <2>1, <2>2
<1>2. PICK m \in left : \A k \in left : m <= k
  <2>1. left \subseteq Nat
    OBVIOUS
  <2> HIDE DEF left
  <2> QED BY <1>1, <2>1, LeastNatural
<1>3. ASSUME NEW k \in s
      PROVE  n - m >= k
  <2>1. n - k \in Nat /\ n - (n - k) = k
    OBVIOUS
  <2>2. m <= n - k
    BY <1>2, <2>1
  <2> QED BY <2>2
<1>4. \E x \in s : \A y \in s : x >= y
  BY <1>2, <1>3
<1>5. Max(s) \in s /\ \A y \in s : Max(s) >= y
  BY <1>4 DEF Max
<1> QED BY <1>5

\* A left fold with the functions step[1], step[2] and so on: the function
\* over sets of places that the community modules define it by.
IsFold(F, n, base, step) ==
    \A s \in SUBSET (1 .. n) :
        F[s] = IF s = {} THEN base ELSE step[Max(s)][F[s \ {Max(s)}]]

LEMMA FoldExists ==
    ASSUME NEW n \in Nat, NEW D, NEW base \in D, NEW step, Steps(step, n, D)
    PROVE  \E F \in [SUBSET (1 .. n) -> D] : IsFold(F, n, base, step)
<1> DEFINE E == [SUBSET (1 .. n) -> D]
           Once(F) == [s \in SUBSET (1 .. n) |->
                         IF s = {} THEN base ELSE step[Max(s)][F[s \ {Max(s)}]]]
           once == [j \in 1 .. n |-> [F \in E |-> Once(F)]]
           first == [s \in SUBSET (1 .. n) |-> base]
<1>1. ASSUME NEW F \in E
      PROVE  Once(F) \in E
  <2> SUFFICES ASSUME NEW s \in SUBSET (1 .. n), s # {}
               PROVE  step[Max(s)][F[s \ {Max(s)}]] \in D
    OBVIOUS
  <2>1. Max(s) \in 1 .. n /\ s \ {Max(s)} \in SUBSET (1 .. n)
    BY LargestOf
  <2>2. F[s \ {Max(s)}] \in D
    BY <2>1
  <2> QED BY <2>1, <2>2 DEF Steps
<1>2. Steps(once, n, E)
  <2> HIDE DEF E, Once
  <2> QED BY <1>1 DEF Steps
<1>3. first \in E
  OBVIOUS
<1>4. PICK G : Iterates(G, n, E, first, once)
  <2> HIDE DEF once, E, first
  <2> QED BY <1>2, <1>3, Recursion
<1> DEFINE T == {j \in 0 .. n : \A s \in SUBSET (1 .. j) : G[j][s] = Once(G[j])[s]}
<1>5. 0 \in T
  <2>1. G[0] = first
    BY <1>4 DEF Iterates
  <2>2. ASSUME NEW s \in SUBSET (1 .. 0)
        PROVE  first[s] = Once(first)[s]
    <3>1. s = {} /\ {} \in SUBSET (1 .. n)
      OBVIOUS
    <3> QED BY <3>1
  <2> HIDE DEF first, Once
  <2> QED BY <2>1, <2>2
<1>6. ASSUME NEW j \in 0 .. n - 1, j \in T
      PROVE  j + 1 \in T
  <2>1. PICK f \in E : f = G[j]
    BY <1>4 DEF Iterates
  <2>2. PICK g \in E : g = Once(f)
    BY <1>1
  <2>3. G[j + 1] = g
    <3>1. PICK i \in 1 .. n : i = j + 1 /\ i - 1 = j
      OBVIOUS
    <3>2. G[i] = once[i][G[i - 1]]
      <4> HIDE DEF once
      <4> QED BY <1>4 DEF Iterates
    <3>3. once[i][f] = Once(f)
      <4> HIDE DEF Once, E
      <4> QED OBVIOUS
    <3> HIDE DEF once, Once
    <3> QED BY <2>1, <2>2, <3>1, <3>2, <3>3
  <2>4. \A s \in SUBSET (1 .. j) : f[s] = g[s]
    BY <1>6, <2>1, <2>2
  <2>5. ASSUME NEW s \in SUBSET (1 .. j + 1)
        PROVE  g[s] = Once(g)[s]
    <3>1. s \in SUBSET (1 .. n)
      OBVIOUS
    <3>2. CASE s = {}
      BY <2>2, <3>1, <3>2
    <3>3. CASE s # {}
      <4>1. PICK m \in s : m = Max(s) /\ \A k \in s : k <= m
        BY <3>1, <3>3, LargestOf
      <4>2. PICK r : r = s \ {m}
        OBVIOUS
      <4>3. r \in SUBSET (1 .. j)
        <5> SUFFICES ASSUME NEW k \in r PROVE k \in 1 .. j
          OBVIOUS
        <5>1. k \in 1 .. j + 1 /\ m \in 1 .. j + 1 /\ k <= m /\ k # m
          BY <4>1, <4>2
        <5> QED BY <5>1
      <4>4. f[r] = g[r]
        BY <2>4, <4>3
      <4>5. g[s] = step[m][f[r]]
        BY <2>2, <3>1, <3>3, <4>1, <4>2
      <4>6. Once(g)[s] = step[m][g[r]]
        BY <3>1, <3>3, <4>1, <4>2
      <4> HIDE DEF Once
      <4> QED BY <4>4, <4>5, <4>6
    <3> QED BY <3>2, <3>3
  <2>6. j + 1 \in 0 .. n
    OBVIOUS
  <2> HIDE DEF Once, E
  <2> QED BY <2>3, <2>5, <2>6
<1>7. n \in T
  <2> HIDE DEF T
  <2> QED BY <1>5, <1>6, UpTo
<1>8. PICK H \in E : H = G[n]
  BY <1>4 DEF Iterates
<1>9. \A s \in SUBSET (1 .. n) : H[s] = Once(H)[s]
  BY <1>7, <1>8
<1>10. IsFold(H, n, base, step)
  BY <1>9 DEF IsFold
<1> QED BY <1>8, <1>10

\* The places from the first on, taken from the end.
LEMMA FirstPlaces ==
    ASSUME NEW n \in Nat, NEW k \in 1 .. n
    PROVE  /\ 1 .. k \in SUBSET (1 .. n) /\ 1 .. k # {}
           /\ Max(1 .. k) = k /\ (1 .. k) \ {k} = 1 .. k - 1
<1>1. 1 .. k \in SUBSET (1 .. n) /\ k \in 1 .. k
  OBVIOUS
<1>2. Max(1 .. k) \in 1 .. k /\ k <= Max(1 .. k)
  <2>1. 1 .. k # {}
    BY <1>1
  <2> QED BY <1>1, <2>1, LargestOf
<1>3. Max(1 .. k) = k
  BY <1>2
<1>4. (1 .. k) \ {k} = 1 .. k - 1
  OBVIOUS
<1> QED BY <1>1, <1>3, <1>4

\* A fold, seen after each of its steps.
LEMMA FoldTurns ==
    ASSUME NEW n \in Nat, NEW D, NEW base \in D, NEW step, Steps(step, n, D),
           NEW F, F[{}] = base,
           \A s \in SUBSET (1 .. n) : s # {} /\ F[s \ {Max(s)}] \in D
             => F[s] = step[Max(s)][F[s \ {Max(s)}]]
    PROVE  Iterates([k \in 0 .. n |-> F[1 .. k]], n, D, base, step)
<1>1. PICK f : f = [k \in 0 .. n |-> F[1 .. k]]
  OBVIOUS
<1>2. f[0] = base
  <2>1. 1 .. 0 = {}
    OBVIOUS
  <2> QED BY <1>1, <2>1
<1>3. ASSUME NEW k \in 1 .. n, f[k - 1] \in D
      PROVE  f[k] = step[k][f[k - 1]] /\ f[k] \in D
  <2>1. f[k] = F[1 .. k] /\ f[k - 1] = F[1 .. k - 1]
    BY <1>1
  <2>2. PICK s \in SUBSET (1 .. n) :
           s = 1 .. k /\ s # {} /\ Max(s) = k /\ s \ {k} = 1 .. k - 1
    BY FirstPlaces
  <2>3. F[s] = step[Max(s)][F[s \ {Max(s)}]]
    BY <1>3, <2>1, <2>2
  <2>4. f[k] = step[k][f[k - 1]]
    BY <2>1, <2>2, <2>3
  <2> QED BY <1>3, <2>4 DEF Steps
<1> DEFINE T == {k \in 0 .. n : f[k] \in D}
<1>4. \A k \in 0 .. n : k \in T
  <2>1. 0 \in T
    BY <1>2
  <2>2. ASSUME NEW k \in 0 .. n - 1, k \in T
        PROVE  k + 1 \in T
    <3>1. PICK j \in 1 .. n : j = k + 1 /\ j - 1 = k
      OBVIOUS
    <3>2. f[j] \in D
      BY <1>3, <2>2, <3>1
    <3> QED BY <3>1, <3>2
  <2> HIDE DEF T
  <2> QED BY <2>1, <2>2, UpTo
<1>5. \A k \in 0 .. n : f[k] \in D
  BY <1>4
<1>6. f \in [0 .. n -> D]
  BY <1>1, <1>5
<1>7. \A k \in 1 .. n : f[k] = step[k][f[k - 1]]
  <2>1. \A k \in 1 .. n : k - 1 \in 0 .. n
    OBVIOUS
  <2> QED BY <1>3, <1>5, <2>1
<1>8. Iterates(f, n, D, base, step)
  BY <1>2, <1>6, <1>7 DEF Iterates
<1> QED BY <1>1, <1>8

-----------------------------------------------------------------------------
(* Sums over finite sets.                                                  *)

\* The element that MapThenSumSet takes first.
First(s) == CHOOSE x \in s : TRUE

\* F sums g over the subsets of S, taking the elements one by one.
IsSum(F, g, S) ==
    /\ F = [s \in SUBSET S |-> F[s]]
    /\ \A s \in SUBSET S :
         F[s] = IF s = {} THEN 0 ELSE g[First(s)] + F[s \ {First(s)}]

\* A set without the element that is taken first.
LEMMA RestFacts ==
    ASSUME NEW S, IsFiniteSet(S), NEW s \in SUBSET S
    PROVE  /\ IsFiniteSet(s) /\ Cardinality(s) \in Nat
           /\ Cardinality(s) = 0 <=> s = {}
           /\ \A x \in s : /\ s \ {x} \in SUBSET S
                           /\ Cardinality(s \ {x}) = Cardinality(s) - 1
           /\ s # {} => First(s) \in s
<1>1. IsFiniteSet(s) /\ Cardinality(s) \in Nat
  BY FS_Subset, FS_CardinalityType
<1>2. Cardinality(s) = 0 <=> s = {}
  BY <1>1, FS_EmptySet
<1>3. \A x \in s : Cardinality(s \ {x}) = Cardinality(s) - 1
  BY <1>1, FS_RemoveElement
<1>4. s # {} => First(s) \in s
  BY DEF First
<1> QED BY <1>1, <1>2, <1>3, <1>4

\* The recursion defines a function.
LEMMA SumExists ==
    ASSUME NEW S, IsFiniteSet(S), NEW g
    PROVE  \E F : IsSum(F, g, S)
<1> DEFINE Up(F, n) == \A s \in SUBSET S : Cardinality(s) <= n =>
                 F[s] = IF s = {} THEN 0 ELSE g[First(s)] + F[s \ {First(s)}]
           Fails == {n \in Nat : ~ \E F : Up(F, n)}
<1>1. CASE Fails # {}
  <2>1. PICK m \in Fails : \A k \in Fails : m <= k
    <3>1. Fails \subseteq Nat
      OBVIOUS
    <3> HIDE DEF Fails
    <3> QED BY <1>1, <3>1, LeastNatural
  <2>2. m # 0
    <3>1. Up([s \in SUBSET S |-> 0], 0)
      BY RestFacts
    <3> QED BY <3>1
  <2>a. m \in Nat
    OBVIOUS
  <2> HIDE DEF Fails
  <2>b. m - 1 \in Nat
    BY <2>2, <2>a
  <2>3. m - 1 \notin Fails
    BY <2>1, <2>a, <2>b
  <2> USE DEF Fails
  <2>4. PICK F : Up(F, m - 1)
    BY <2>3, <2>b
  <2> DEFINE G == [s \in SUBSET S |-> IF Cardinality(s) = m
                     THEN g[First(s)] + F[s \ {First(s)}] ELSE F[s]]
  <2>5. ASSUME NEW s \in SUBSET S, Cardinality(s) <= m
        PROVE  G[s] = IF s = {} THEN 0 ELSE g[First(s)] + G[s \ {First(s)}]
    <3>1. /\ Cardinality(s) \in Nat
          /\ Cardinality(s) = 0 <=> s = {}
          /\ s # {} => /\ First(s) \in s /\ s \ {First(s)} \in SUBSET S
                       /\ Cardinality(s \ {First(s)}) = Cardinality(s) - 1
      BY RestFacts
    <3>2. s # {} => G[s \ {First(s)}] = F[s \ {First(s)}]
      <4>1. ASSUME NEW r \in SUBSET S, Cardinality(r) # m
            PROVE  G[r] = F[r]
        BY <4>1
      <4>2. s # {} => Cardinality(s \ {First(s)}) # m
        <5> HIDE DEF G, Fails
        <5>1. PICK c \in Nat : c = Cardinality(s)
          BY <3>1
        <5>2. c <= m
          BY <2>5, <5>1
        <5>3. c - 1 # m
          BY <2>a, <5>2
        <5> QED BY <3>1, <5>1, <5>3
      <4> HIDE DEF G
      <4> QED BY <3>1, <4>1, <4>2
    <3>3. CASE Cardinality(s) = m
      <4>1. G[s] = g[First(s)] + F[s \ {First(s)}]
        BY <3>3
      <4> QED BY <2>2, <3>1, <3>2, <3>3, <4>1
    <3>4. CASE Cardinality(s) # m
      <4>0. Cardinality(s) <= m - 1
        <5> HIDE DEF G, Fails
        <5>1. PICK c \in Nat : c = Cardinality(s)
          BY <3>1
        <5>2. c <= m /\ c # m
          BY <2>5, <3>4, <5>1
        <5>3. c <= m - 1
          BY <2>a, <5>2
        <5> QED BY <5>1, <5>3
      <4>1. G[s] = F[s] /\ Cardinality(s) <= m - 1
        BY <3>4, <4>0
      <4>2. F[s] = IF s = {} THEN 0 ELSE g[First(s)] + F[s \ {First(s)}]
        BY <2>4, <4>1
      <4> QED BY <3>2, <4>1, <4>2
    <3> QED BY <3>3, <3>4
  <2>6. Up(G, m)
    BY <2>5
  <2>7. m \notin Fails
    BY <2>6
  <2> QED BY <2>7
<1>2. CASE Fails = {}
  <2>1. Cardinality(S) \in Nat
    BY FS_CardinalityType
  <2>2. PICK F : Up(F, Cardinality(S))
    BY <1>2, <2>1
  <2> DEFINE G == [s \in SUBSET S |-> F[s]]
  <2>3. ASSUME NEW s \in SUBSET S
        PROVE  G[s] = IF s = {} THEN 0 ELSE g[First(s)] + G[s \ {First(s)}]
    <3>1. Cardinality(s) <= Cardinality(S)
      BY FS_Subset
    <3>2. s \ {First(s)} \in SUBSET S
      OBVIOUS
    <3> QED BY <2>2, <3>1, <3>2
  <2>4. IsSum(G, g, S)
    BY <2>3 DEF IsSum
  <2> QED BY <2>4
<1> QED BY <1>1, <1>2

\* One more element, whichever comes first.
LEMMA SumAdds ==
    ASSUME NEW S, IsFiniteSet(S), NEW g, \A x \in S : g[x] \in Nat,
           NEW F, IsSum(F, g, S)
    PROVE  /\ \A s \in SUBSET S : F[s] \in Nat
           /\ F[{}] = 0
           /\ \A s \in SUBSET S : \A y \in S \ s : F[s \cup {y}] = F[s] + g[y]
<1>1. \A s \in SUBSET S :
        F[s] = IF s = {} THEN 0 ELSE g[First(s)] + F[s \ {First(s)}]
  BY DEF IsSum
<1>2. F[{}] = 0
  BY <1>1
<1> DEFINE Odd == {n \in Nat : \E s \in SUBSET S :
                     Cardinality(s) = n /\ F[s] \notin Nat}
<1>3. CASE Odd # {}
  <2>1. PICK m \in Odd : \A k \in Odd : m <= k
    <3>1. Odd \subseteq Nat
      OBVIOUS
    <3> HIDE DEF Odd
    <3> QED BY <1>3, <3>1, LeastNatural
  <2>2. PICK s \in SUBSET S : Cardinality(s) = m /\ F[s] \notin Nat
    BY <2>1
  <2>3. s # {}
    BY <1>2, <2>2
  <2>4. /\ First(s) \in s /\ s \ {First(s)} \in SUBSET S /\ Cardinality(s) # 0
        /\ Cardinality(s \ {First(s)}) = m - 1
    BY <2>2, <2>3, RestFacts
  <2>5. m - 1 \in Nat /\ m - 1 \notin Odd
    BY <2>1, <2>2, <2>4
  <2>6. F[s \ {First(s)}] \in Nat
    BY <2>4, <2>5
  <2>7. F[s] = g[First(s)] + F[s \ {First(s)}]
    BY <1>1, <2>3
  <2>8. g[First(s)] \in Nat
    BY <2>4
  <2> QED BY <2>2, <2>6, <2>7, <2>8
<1>4. ASSUME Odd = {}
      PROVE  \A s \in SUBSET S : F[s] \in Nat
  BY <1>4, RestFacts
<1> DEFINE Off == {n \in Nat : \E s \in SUBSET S : \E y \in S \ s :
                     Cardinality(s) = n /\ F[s \cup {y}] # F[s] + g[y]}
<1>5. CASE Odd = {} /\ Off # {}
  <2>1. PICK m \in Off : \A k \in Off : m <= k
    <3>1. Off \subseteq Nat
      OBVIOUS
    <3> HIDE DEF Off
    <3> QED BY <1>5, <3>1, LeastNatural
  <2>0. PICK s \in SUBSET S : \E y \in S \ s :
           Cardinality(s) = m /\ F[s \cup {y}] # F[s] + g[y]
    BY <2>1
  <2>2. PICK y \in S \ s : Cardinality(s) = m /\ F[s \cup {y}] # F[s] + g[y]
    BY <2>0
  <2>3. PICK t : t = s \cup {y}
    OBVIOUS
  <2>4. PICK x : x = First(t)
    OBVIOUS
  <2>5. t \in SUBSET S /\ x \in t /\ F[t] = g[x] + F[t \ {x}]
    <3>1. t \in SUBSET S /\ t # {}
      BY <2>2, <2>3
    <3> QED BY <1>1, <2>4, <3>1, RestFacts
  <2>6. CASE x = y
    <3>1. t \ {x} = s
      BY <2>2, <2>3, <2>6
    <3>2. F[s] \in Nat /\ g[y] \in Nat
      BY <1>4, <1>5, <2>2
    <3>3. F[t] = g[y] + F[s] /\ F[t] # F[s] + g[y]
      BY <2>2, <2>3, <2>5, <2>6, <3>1
    <3> HIDE DEF Off
    <3> QED BY <3>2, <3>3
  <2>7. CASE x # y
    <3>1. PICK r : r = s \ {x}
      OBVIOUS
    <3>2. x \in s /\ t \ {x} = r \cup {y} /\ s = r \cup {x} /\ r \in SUBSET S
          /\ y \in S \ r /\ x \in S \ r
      BY <2>2, <2>3, <2>5, <2>7, <3>1
    <3>3. Cardinality(r) = m - 1 /\ m - 1 \in Nat
      BY <2>2, <3>1, <3>2, RestFacts
    <3>4. m - 1 \notin Off
      BY <2>1, <3>3
    <3>5. F[r \cup {y}] = F[r] + g[y] /\ F[r \cup {x}] = F[r] + g[x]
      BY <3>2, <3>3, <3>4
    <3>6. F[r] \in Nat /\ g[x] \in Nat /\ g[y] \in Nat
      BY <1>4, <1>5, <3>2
    <3> HIDE DEF Off
    <3>7. F[t] = g[x] + (F[r] + g[y]) /\ F[s] = F[r] + g[x]
      BY <2>5, <3>2, <3>5
    <3> QED BY <2>2, <2>3, <3>6, <3>7
  <2> QED BY <2>6, <2>7
<1>6. ASSUME Off = {}
      PROVE  \A s \in SUBSET S : \A y \in S \ s : F[s \cup {y}] = F[s] + g[y]
  <2> SUFFICES ASSUME NEW s \in SUBSET S, NEW y \in S \ s
               PROVE  F[s \cup {y}] = F[s] + g[y]
    OBVIOUS
  <2>1. Cardinality(s) \in Nat /\ Cardinality(s) \notin Off
    BY <1>6, RestFacts
  <2> QED BY <2>1
<1> HIDE DEF Off, Odd
<1> QED BY <1>2, <1>3, <1>4, <1>5, <1>6

\* Over sets that share nothing the sums add up.
LEMMA SumUnion ==
    ASSUME NEW S, IsFiniteSet(S), NEW g, \A x \in S : g[x] \in Nat,
           NEW F, IsSum(F, g, S),
           NEW a \in SUBSET S, NEW b \in SUBSET S, a \cap b = {}
    PROVE  F[a \cup b] = F[a] + F[b]
<1> DEFINE Off == {n \in Nat : \E s \in SUBSET b :
                     Cardinality(s) = n /\ F[a \cup s] # F[a] + F[s]}
<1>1. /\ \A s \in SUBSET S : F[s] \in Nat
      /\ F[{}] = 0
      /\ \A s \in SUBSET S : \A y \in S \ s : F[s \cup {y}] = F[s] + g[y]
  BY SumAdds
<1>2. CASE Off # {}
  <2>1. PICK m \in Off : \A k \in Off : m <= k
    <3>1. Off \subseteq Nat
      OBVIOUS
    <3> HIDE DEF Off
    <3> QED BY <1>2, <3>1, LeastNatural
  <2>2. PICK s \in SUBSET b : Cardinality(s) = m /\ F[a \cup s] # F[a] + F[s]
    BY <2>1
  <2>3. s # {}
    <3>1. a \cup {} = a
      OBVIOUS
    <3>2. F[a] \in Nat /\ F[a] = F[a] + F[{}]
      BY <1>1
    <3> QED BY <2>2, <3>1, <3>2, Zenon
  <2>4. PICK y \in s : TRUE
    BY <2>3
  <2>5. PICK r : r = s \ {y}
    OBVIOUS
  <2>6. s \in SUBSET S /\ r \in SUBSET b /\ r \in SUBSET S /\ s = r \cup {y}
        /\ a \cup s = (a \cup r) \cup {y} /\ y \in S \ r /\ y \in S \ (a \cup r)
        /\ a \cup r \in SUBSET S
    BY <2>2, <2>4, <2>5
  <2>7. Cardinality(r) = m - 1 /\ m - 1 \in Nat
    BY <2>2, <2>4, <2>5, <2>6, RestFacts
  <2>8. m - 1 \notin Off
    <3>1. ~ (m <= m - 1)
      BY <2>7
    <3> HIDE DEF Off
    <3> QED BY <2>1, <3>1
  <2>9. F[a \cup r] = F[a] + F[r]
    BY <2>6, <2>7, <2>8
  <2> HIDE DEF Off
  <2>10. F[s] = F[r] + g[y] /\ F[a \cup s] = F[a \cup r] + g[y]
    BY <1>1, <2>6
  <2>11. F[a] \in Nat /\ F[r] \in Nat /\ g[y] \in Nat
    BY <1>1, <2>6
  <2> QED BY <2>2, <2>9, <2>10, <2>11
<1>3. CASE Off = {}
  <2>1. Cardinality(b) \in Nat /\ Cardinality(b) \notin Off
    BY <1>3, RestFacts
  <2> QED BY <2>1
<1> QED BY <1>2, <1>3

\* A sum does not depend on the set whose subsets it is defined for.
LEMMA SumsAgree ==
    ASSUME NEW S, IsFiniteSet(S), NEW g, NEW F, IsSum(F, g, S),
           NEW R \in SUBSET S, NEW h, \A x \in R : h[x] = g[x],
           NEW G, IsSum(G, h, R)
    PROVE  \A s \in SUBSET R : G[s] = F[s]
<1> DEFINE Off == {n \in Nat : \E s \in SUBSET R :
                     Cardinality(s) = n /\ G[s] # F[s]}
<1>1. /\ \A s \in SUBSET S :
            F[s] = IF s = {} THEN 0 ELSE g[First(s)] + F[s \ {First(s)}]
      /\ \A s \in SUBSET R :
            G[s] = IF s = {} THEN 0 ELSE h[First(s)] + G[s \ {First(s)}]
  BY DEF IsSum
<1>2. CASE Off # {}
  <2>1. PICK m \in Off : \A k \in Off : m <= k
    <3>1. Off \subseteq Nat
      OBVIOUS
    <3> HIDE DEF Off
    <3> QED BY <1>2, <3>1, LeastNatural
  <2>2. PICK s \in SUBSET R : Cardinality(s) = m /\ G[s] # F[s]
    BY <2>1
  <2>3. s \in SUBSET S /\ s # {}
    BY <1>1, <2>2
  <2>4. /\ First(s) \in s /\ s \ {First(s)} \in SUBSET R /\ Cardinality(s) # 0
        /\ Cardinality(s \ {First(s)}) = m - 1
    BY <2>2, <2>3, RestFacts
  <2>5. m - 1 \in Nat /\ m - 1 \notin Off
    BY <2>1, <2>2, <2>4
  <2>6. G[s \ {First(s)}] = F[s \ {First(s)}]
    BY <2>4, <2>5
  <2> HIDE DEF Off
  <2> QED BY <1>1, <2>2, <2>3, <2>4, <2>6
<1>3. ASSUME Off = {}, NEW s \in SUBSET R
      PROVE  G[s] = F[s]
  <2>1. Cardinality(s) \in Nat /\ Cardinality(s) \notin Off
    BY <1>3, RestFacts
  <2> QED BY <2>1
<1> QED BY <1>2, <1>3

-----------------------------------------------------------------------------
(* Sequences put one behind the other.                                     *)

\* Where each sequence starts, and the last one ends.
AreStarts(starts, seqs, n) ==
    /\ starts \in [1 .. n + 1 -> Nat]
    /\ starts[1] = 0
    /\ \A k \in 1 .. n : starts[k + 1] = starts[k] + Len(seqs[k])

\* The prefixes of a flattened sequence, one sequence longer each.
ArePrefixes(flat, seqs, n) ==
    /\ FlattenSeq(seqs) = flat[n]
    /\ flat[1] = seqs[1]
    /\ \A k \in 2 .. n : flat[k] = flat[k - 1] \o seqs[k]

LEMMA FlattenIs ==
    ASSUME NEW n \in Nat, n > 0, NEW S, NEW seqs \in [1 .. n -> Seq(S)]
    PROVE  \E flat : ArePrefixes(flat, seqs, n)
<1>1. Len(seqs) = n
  BY LenProperties, SeqDef
<1> DEFINE step == [k \in 1 .. n |-> [s \in Seq(S) |-> s \o seqs[k]]]
           Flat(f) == [i \in 1 .. Len(seqs) |->
                         IF i = 1 THEN seqs[i] ELSE f[i - 1] \o seqs[i]]
           chosen == CHOOSE f : f = Flat(f)
<1>2. Steps(step, n, Seq(S))
  <2> SUFFICES ASSUME NEW k \in 1 .. n, NEW s \in Seq(S)
               PROVE  step[k][s] \in Seq(S)
    BY DEF Steps
  <2>1. seqs[k] \in Seq(S)
    OBVIOUS
  <2> QED BY <2>1, ConcatProperties
<1>3. <<>> \in Seq(S)
  OBVIOUS
<1>4. PICK f : Iterates(f, n, Seq(S), <<>>, step)
  <2> HIDE DEF step
  <2> QED BY <1>2, <1>3, Recursion
<1>5. ASSUME NEW k \in 1 .. n
      PROVE  f[k] = f[k - 1] \o seqs[k]
  <2>1. f[k] = step[k][f[k - 1]] /\ f[k - 1] \in Seq(S)
    <3> HIDE DEF step
    <3>1. k - 1 \in 0 .. n
      OBVIOUS
    <3> QED BY <1>4, <3>1 DEF Iterates
  <2> QED BY <2>1
<1>6. f[1] = seqs[1]
  <2>1. f[0] = <<>> /\ seqs[1] \in Seq(S)
    BY <1>4 DEF Iterates
  <2>2. 1 \in 1 .. n /\ 1 - 1 = 0
    OBVIOUS
  <2> HIDE DEF step
  <2>3. f[1] = f[1 - 1] \o seqs[1]
    BY <1>5, <2>2, Zenon
  <2>4. f[1] = <<>> \o seqs[1]
    BY <2>1, <2>2, <2>3
  <2> QED BY <2>1, <2>4, ConcatEmptySeq
<1>7. PICK g : g = [k \in 1 .. n |-> f[k]]
  OBVIOUS
<1>8. g = Flat(g)
  <2>1. ASSUME NEW k \in 1 .. n
        PROVE  g[k] = IF k = 1 THEN seqs[k] ELSE g[k - 1] \o seqs[k]
    <3>1. CASE k = 1
      BY <1>6, <1>7, <3>1
    <3>2. CASE k # 1
      <4>1. k - 1 \in 1 .. n
        BY <3>2
      <4> QED BY <1>5, <1>7, <3>2, <4>1
    <3> QED BY <3>1, <3>2
  <2> HIDE DEF step
  <2>2. g = [k \in 1 .. n |-> g[k]]
    BY <1>7
  <2> QED BY <1>1, <2>1, <2>2
<1>9. chosen = Flat(chosen)
  <2> HIDE DEF Flat
  <2> QED BY <1>8
<1>10. FlattenSeq(seqs) = chosen[n]
  <2>1. FlattenSeq(seqs) = chosen[Len(seqs)]
    <3>1. Len(seqs) # 0
      BY <1>1
    <3> QED BY <3>1, Zenon DEF FlattenSeq
  <2> HIDE DEF chosen
  <2> QED BY <1>1, <2>1
<1>11. /\ chosen[1] = seqs[1]
       /\ \A k \in 2 .. n : chosen[k] = chosen[k - 1] \o seqs[k]
  <2> HIDE DEF chosen
  <2>1. chosen = [i \in 1 .. n |->
                    IF i = 1 THEN seqs[i] ELSE chosen[i - 1] \o seqs[i]]
    BY <1>1, <1>9
  <2> HIDE DEF Flat, step
  <2>2. \A i \in 1 .. n :
           chosen[i] = IF i = 1 THEN seqs[i] ELSE chosen[i - 1] \o seqs[i]
    BY <2>1, Zenon
  <2>3. 1 \in 1 .. n /\ \A k \in 2 .. n : k \in 1 .. n /\ k # 1
    OBVIOUS
  <2> QED BY <2>2, <2>3, Zenon
<1>12. ArePrefixes(chosen, seqs, n)
  <2> HIDE DEF chosen
  <2> QED BY <1>10, <1>11 DEF ArePrefixes
<1> QED BY <1>12

\* The m-th prefix: each of its sequences is at its place, and nothing else
\* is in it.
IsPlaced(whole, seqs, starts, m) ==
    /\ Len(whole) = starts[m + 1]
    /\ \A f \in 1 .. m : \A k \in 1 .. Len(seqs[f]) :
         /\ starts[f] + k \in 1 .. starts[m + 1]
         /\ whole[starts[f] + k] = seqs[f][k]
    /\ \A p \in 1 .. starts[m + 1] :
         \E f \in 1 .. m : \E k \in 1 .. Len(seqs[f]) : p = starts[f] + k

LEMMA PlacedNext ==
    ASSUME NEW n \in Nat, NEW S, NEW seqs \in [1 .. n -> Seq(S)],
           NEW starts, AreStarts(starts, seqs, n),
           NEW m \in 0 .. n - 1, NEW whole \in Seq(S),
           IsPlaced(whole, seqs, starts, m)
    PROVE  /\ whole \o seqs[m + 1] \in Seq(S)
           /\ IsPlaced(whole \o seqs[m + 1], seqs, starts, m + 1)
<1>1. PICK last : last = seqs[m + 1]
  OBVIOUS
<1>2. PICK longer : longer = whole \o last
  OBVIOUS
<1>3. last \in Seq(S) /\ Len(last) \in Nat /\ Len(whole) \in Nat
  BY <1>1, LenProperties
<1>4. /\ longer \in Seq(S)
      /\ Len(longer) = Len(whole) + Len(last)
      /\ \A i \in 1 .. Len(whole) : longer[i] = whole[i]
      /\ \A i \in 1 .. Len(last) : longer[Len(whole) + i] = last[i]
  BY <1>2, <1>3, ConcatProperties
<1>5. PICK a \in Nat, b \in Nat :
         /\ a = starts[m + 1] /\ b = starts[m + 2] /\ b = a + Len(last)
         /\ a = Len(whole)
  <2>1. /\ m + 1 \in 1 .. n /\ m + 1 \in 1 .. n + 1 /\ m + 2 \in 1 .. n + 1
        /\ m + 2 = (m + 1) + 1
    OBVIOUS
  <2>2. /\ starts[m + 1] \in Nat /\ starts[m + 2] \in Nat
        /\ starts[m + 2] = starts[m + 1] + Len(last)
    BY <1>1, <2>1 DEF AreStarts
  <2> QED BY <2>2 DEF IsPlaced
<1>6. (m + 1) + 1 = m + 2 /\ \A f \in 1 .. m + 1 : f \in 1 .. m \/ f = m + 1
  OBVIOUS
<1>7. ASSUME NEW f \in 1 .. m + 1, NEW k \in 1 .. Len(seqs[f])
      PROVE  starts[f] + k \in 1 .. b /\ longer[starts[f] + k] = seqs[f][k]
  <2>1. CASE f \in 1 .. m
    <3>1. PICK p \in 1 .. a : p = starts[f] + k /\ whole[p] = seqs[f][k]
      BY <1>5, <1>7, <2>1 DEF IsPlaced
    <3> QED BY <1>3, <1>4, <1>5, <3>1
  <2>2. CASE f = m + 1
    <3>1. k \in 1 .. Len(last) /\ starts[f] = Len(whole)
      BY <1>1, <1>5, <1>7, <2>2
    <3>2. longer[Len(whole) + k] = last[k]
      BY <1>4, <3>1
    <3>3. Len(whole) + k \in 1 .. b
      BY <1>3, <1>5, <3>1
    <3> QED BY <1>1, <2>2, <3>1, <3>2, <3>3
  <2> QED BY <1>6, <2>1, <2>2
<1>8. ASSUME NEW p \in 1 .. b
      PROVE  \E f \in 1 .. m + 1 : \E k \in 1 .. Len(seqs[f]) : p = starts[f] + k
  <2>1. CASE p <= a
    <3>1. p \in 1 .. a
      BY <2>1
    <3>2. \E f \in 1 .. m : \E k \in 1 .. Len(seqs[f]) : p = starts[f] + k
      BY <1>5, <3>1 DEF IsPlaced
    <3>3. 1 .. m \subseteq 1 .. m + 1
      OBVIOUS
    <3> QED BY <3>2, <3>3
  <2>2. CASE p > a
    <3>1. PICK k \in 1 .. Len(last) : p = a + k
      <4>1. p - a \in 1 .. Len(last) /\ p = a + (p - a)
        BY <1>3, <1>5, <2>2
      <4> QED BY <4>1
    <3>2. m + 1 \in 1 .. m + 1
      OBVIOUS
    <3> QED BY <1>1, <1>5, <3>1, <3>2
  <2> QED BY <2>1, <2>2
<1>9. IsPlaced(longer, seqs, starts, m + 1)
  <2>1. starts[(m + 1) + 1] = b
    BY <1>5, <1>6
  <2>2. Len(longer) = b
    BY <1>4, <1>5
  <2> QED BY <1>7, <1>8, <2>1, <2>2 DEF IsPlaced
<1> QED BY <1>1, <1>2, <1>4, <1>9

\* FlattenSeq loses nothing, adds nothing and keeps the order.
LEMMA FlattenPlaces ==
    ASSUME NEW n \in Nat, NEW S, NEW seqs \in [1 .. n -> Seq(S)],
           NEW starts, AreStarts(starts, seqs, n)
    PROVE  FlattenSeq(seqs) \in Seq(S) /\ IsPlaced(FlattenSeq(seqs), seqs, starts, n)
<1>1. /\ <<>> \in Seq(S) /\ Len(<<>>) = 0
      /\ IsPlaced(<<>>, seqs, starts, 0)
  <2>1. starts[0 + 1] = 0 /\ 1 .. 0 = {}
    BY DEF AreStarts
  <2>2. Len(<<>>) = 0 /\ <<>> \in Seq(S)
    OBVIOUS
  <2> QED BY <2>1, <2>2 DEF IsPlaced
<1>2. CASE n = 0
  <2>1. Len(seqs) = 0 /\ FlattenSeq(seqs) = seqs /\ seqs = <<>>
    <3>1. seqs \in [1 .. 0 -> Seq(S)]
      BY <1>2
    <3>2. seqs = <<>>
      BY <3>1
    <3> QED BY <1>1, <3>2 DEF FlattenSeq
  <2> QED BY <1>1, <1>2, <2>1
<1>3. CASE n > 0
  <2>1. PICK flat : ArePrefixes(flat, seqs, n)
    BY <1>3, FlattenIs
  <2> DEFINE T == {m \in 0 .. n - 1 : /\ flat[m + 1] \in Seq(S)
                                      /\ IsPlaced(flat[m + 1], seqs, starts, m + 1)}
  <2>2. 0 \in T
    <3>1. seqs[1] \in Seq(S) /\ 0 \in 0 .. n - 1
      BY <1>3
    <3>2. <<>> \o seqs[1] = seqs[1]
      BY <3>1, ConcatEmptySeq
    <3>3. /\ <<>> \o seqs[0 + 1] \in Seq(S)
          /\ IsPlaced(<<>> \o seqs[0 + 1], seqs, starts, 0 + 1)
      BY <1>1, <3>1, PlacedNext
    <3>4. 0 + 1 = 1
      OBVIOUS
    <3>5. flat[1] = seqs[1]
      BY <2>1 DEF ArePrefixes
    <3> QED BY <3>1, <3>2, <3>3, <3>4, <3>5
  <2>3. ASSUME NEW m \in 0 .. (n - 1) - 1, m \in T
        PROVE  m + 1 \in T
    <3>1. PICK j \in 0 .. n - 1 : j = m + 1 /\ j + 1 \in 2 .. n
      <4>1. m + 1 \in 0 .. n - 1 /\ (m + 1) + 1 \in 2 .. n
        OBVIOUS
      <4> QED BY <4>1
    <3>2. flat[j] \in Seq(S) /\ IsPlaced(flat[j], seqs, starts, j)
      BY <2>3, <3>1
    <3>3. flat[j + 1] = flat[j] \o seqs[j + 1]
      <4>1. PICK k \in 2 .. n : k = j + 1 /\ k - 1 = j
        BY <3>1
      <4>2. flat[k] = flat[k - 1] \o seqs[k]
        BY <2>1 DEF ArePrefixes
      <4> QED BY <4>1, <4>2
    <3>4. flat[j + 1] \in Seq(S) /\ IsPlaced(flat[j + 1], seqs, starts, j + 1)
      <4>1. PICK whole \in Seq(S) : whole = flat[j]
        BY <3>2
      <4>2. IsPlaced(whole, seqs, starts, j)
        BY <3>2, <4>1
      <4>3. /\ whole \o seqs[j + 1] \in Seq(S)
            /\ IsPlaced(whole \o seqs[j + 1], seqs, starts, j + 1)
        BY <4>2, PlacedNext
      <4> QED BY <3>3, <4>1, <4>3
    <3> QED BY <3>4, <3>1
  <2>4. n - 1 \in Nat /\ n - 1 \in 0 .. n - 1 /\ (n - 1) + 1 = n
    BY <1>3
  <2>5. n - 1 \in T
    <3> HIDE DEF T
    <3> QED BY <2>2, <2>3, <2>4, UpTo
  <2>6. FlattenSeq(seqs) = flat[n]
    BY <2>1 DEF ArePrefixes
  <2> QED BY <2>4, <2>5, <2>6
<1> QED BY <1>2, <1>3


\* One sequence more.
LEMMA FlattenNext ==
    ASSUME NEW n \in Nat, NEW S, NEW seqs \in [1 .. n + 1 -> Seq(S)]
    PROVE  FlattenSeq(seqs)
             = FlattenSeq([k \in 1 .. n |-> seqs[k]]) \o seqs[n + 1]
<1> DEFINE front == [k \in 1 .. n |-> seqs[k]]
<1>1. PICK flat : ArePrefixes(flat, seqs, n + 1)
  <2>1. n + 1 \in Nat /\ n + 1 > 0
    OBVIOUS
  <2> QED BY <2>1, FlattenIs
<1>2. CASE n = 0
  <2>1. front = <<>>
    BY <1>2
  <2>2. Len(front) = 0
    <3> HIDE DEF front
    <3> QED BY <2>1, EmptySeq
  <2>3. FlattenSeq(front) = <<>>
    <3> HIDE DEF front
    <3> QED BY <2>1, <2>2 DEF FlattenSeq
  <2>4. n + 1 = 1 /\ FlattenSeq(seqs) = seqs[1] /\ seqs[1] \in Seq(S)
    BY <1>1, <1>2 DEF ArePrefixes
  <2>5. FlattenSeq(seqs) = FlattenSeq(front) \o seqs[n + 1]
    <3> HIDE DEF front
    <3> QED BY <2>3, <2>4, ConcatEmptySeq
  <2> QED BY <2>5
<1>3. CASE n > 0
  <2>1. front \in [1 .. n -> Seq(S)]
    OBVIOUS
  <2>2. PICK less : ArePrefixes(less, front, n)
    <3> HIDE DEF front
    <3> QED BY <1>3, <2>1, FlattenIs
  <2> DEFINE T == {m \in 0 .. n - 1 : flat[m + 1] = less[m + 1]}
  <2>3. 0 \in T
    <3>1. flat[1] = seqs[1] /\ less[1] = front[1] /\ front[1] = seqs[1]
      BY <1>1, <1>3, <2>2 DEF ArePrefixes
    <3> QED BY <1>3, <3>1
  <2>4. ASSUME NEW m \in 0 .. (n - 1) - 1, m \in T
        PROVE  m + 1 \in T
    <3>1. PICK k \in 2 .. n : k = (m + 1) + 1 /\ k - 1 = m + 1
      OBVIOUS
    <3>2. flat[k] = flat[k - 1] \o seqs[k] /\ less[k] = less[k - 1] \o front[k]
      <4>1. k \in 2 .. n + 1
        OBVIOUS
      <4> HIDE DEF front
      <4> QED BY <1>1, <2>2, <4>1 DEF ArePrefixes
    <3>3. front[k] = seqs[k]
      OBVIOUS
    <3>4. flat[m + 1] = less[m + 1] /\ m + 1 \in 0 .. n - 1
      BY <2>4
    <3> HIDE DEF front
    <3> QED BY <3>1, <3>2, <3>3, <3>4
  <2>5. n - 1 \in T
    <3>1. n - 1 \in Nat /\ n - 1 \in 0 .. n - 1
      BY <1>3
    <3> HIDE DEF T
    <3> QED BY <2>3, <2>4, <3>1, UpTo
  <2>6. flat[n] = less[n]
    BY <2>5
  <2>7. n + 1 \in 2 .. n + 1 /\ (n + 1) - 1 = n
    BY <1>3
  <2>8. flat[n + 1] = flat[n] \o seqs[n + 1]
    BY <1>1, <2>7 DEF ArePrefixes
  <2>9. FlattenSeq(seqs) = FlattenSeq(front) \o seqs[n + 1]
    <3> HIDE DEF front
    <3> QED BY <1>1, <2>2, <2>6, <2>8 DEF ArePrefixes
  <2> QED BY <2>9
<1> QED BY <1>2, <1>3

\* A set that has the empty sequence, and with a sequence each that is longer
\* by one, has all sequences.
LEMMA SequenceInduction ==
    ASSUME NEW S, NEW T, <<>> \in T,
           \A s \in Seq(S) : \A e \in S : s \in T => Append(s, e) \in T
    PROVE  \A s \in Seq(S) : s \in T
<1> SUFFICES ASSUME NEW s \in Seq(S) PROVE s \in T
  OBVIOUS
<1>1. PICK n \in Nat : n = Len(s)
  BY LenProperties
<1>2. PICK part : part = [k \in 0 .. n |-> SubSeq(s, 1, k)]
  OBVIOUS
<1>3. part[0] = <<>>
  <2>1. part[0] = SubSeq(s, 1, 0)
    BY <1>2
  <2> QED BY <2>1, SubSeqEmpty
<1>4. ASSUME NEW k \in 0 .. n - 1, part[k] \in T
      PROVE  part[k + 1] \in T
  <2>1. PICK j \in 1 .. n : j = k + 1 /\ j - 1 = k
    OBVIOUS
  <2>2. \A i \in 1 .. k : s[i] \in S
    BY <1>1, <2>1, ElementOfSeq
  <2>3. part[k] = SubSeq(s, 1, k) /\ part[j] = SubSeq(s, 1, j)
    <3>1. k \in 0 .. n /\ j \in 0 .. n
      BY <2>1
    <3>2. \A i \in 0 .. n : part[i] = SubSeq(s, 1, i)
      BY <1>2
    <3> QED BY <3>1, <3>2
  <2>4. part[k] \in Seq(S) /\ s[j] \in S
    BY <1>1, <2>1, <2>2, <2>3, SubSeqProperties, ElementOfSeq
  <2>5. part[j] = part[k] \o <<s[j]>>
    <3>1. 1 \in 1 .. Len(s) /\ j \in 1 .. Len(s)
      BY <1>1, <2>1
    <3>2. SubSeq(s, 1, j) = SubSeq(s, 1, j - 1) \o <<s[j]>>
      BY <3>1, SubSeqRecursiveSecond
    <3> QED BY <2>1, <2>3, <3>2
  <2>6. part[j] = Append(part[k], s[j])
    BY <2>4, <2>5, AppendIsConcat
  <2> QED BY <1>4, <2>1, <2>4, <2>6
<1> DEFINE K == {k \in 0 .. n : part[k] \in T}
<1>5. n \in K
  <2>1. 0 \in K
    BY <1>3
  <2>2. \A k \in 0 .. n - 1 : k \in K => k + 1 \in K
    BY <1>4
  <2>3. \A k \in 0 .. n : k \in K
    <3> HIDE DEF K
    <3> QED BY <2>1, <2>2, UpTo
  <2>4. n \in 0 .. n
    OBVIOUS
  <2> HIDE DEF K
  <2> QED BY <2>3, <2>4
<1>6. part[n] = s
  BY <1>1, <1>2, SubSeqFull
<1> QED BY <1>5, <1>6

LEMMA FlattenNone == FlattenSeq(<<>>) = <<>>
<1>1. Len(<<>>) = 0
  OBVIOUS
<1> QED BY <1>1 DEF FlattenSeq
=============================================================================
