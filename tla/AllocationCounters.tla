-------------------------- MODULE AllocationCounters --------------------------
(* src/common/src/instrumentation.cpp: the counters behind the replaced      *)
(* operator new and delete, and the AllocationScope a benchmark puts around  *)
(* process_records.  A call adds to two counters, a reader loads or resets   *)
(* four, in the order of the code; each access of an atomic is a step of its *)
(* own.  (They are relaxed: a build may swap those of one call, which no     *)
(* property here could tell, each being about one counter.)                  *)
(*                                                                           *)
(* Only some overloads are replaced.  delete without a size is, and counts   *)
(* nothing; new and delete with an alignment are not, and solution 02's      *)
(* memory resources may get their memory from those, as libstdc++'s do.      *)
EXTENDS Integers, Sequences

CONSTANTS
    Threads, Sizes,
    WordSize,       \* of a std::size_t
    InitialCounts,  \* what a counter may hold when the model begins
    MaxCalls        \* bound: calls of new and delete in one behaviour

Order == <<"allocations", "deallocations", "allocated_bytes", "deallocated_bytes">>
Counters == {"allocations", "deallocations", "allocated_bytes",
             "deallocated_bytes"}

ASSUME CountersAssumption ==
    /\ Sizes \subseteq Nat
    /\ WordSize \in Nat /\ MaxCalls \in Nat /\ MaxCalls < WordSize
    /\ InitialCounts \subseteq 0 .. WordSize - 1
    /\ \A size \in Sizes : size * MaxCalls < WordSize

VARIABLES
    counter,    \* the four atomics
    call,       \* per thread, what its call counts and which adds are left
    live,       \* blocks a sized delete may get, per size
    reading,    \* the reader's call and the counters left to access
    loaded,     \* the values it has loaded
    start,      \* AllocationScope::start_
    tally,      \* ghost: what calls have begun, done, and never count
    marks       \* ghost: tally when the scope began and ended and the snapshot
                \*        began, and that no counter was reset since

vars == <<counter, call, live, reading, loaded, start, tally, marks>>

Zero == [c \in Counters |-> 0]
Idle == [counts |-> Zero, left |-> <<>>]
NoScope == <<>>

Plus(x, y) == [c \in Counters |-> x[c] + y[c]]
Allocation(size) == [Zero EXCEPT !["allocations"] = 1, !["allocated_bytes"] = size]
Deallocation(size) ==
    [Zero EXCEPT !["deallocations"] = 1, !["deallocated_bytes"] = size]

\* The counters record_allocation or record_deallocation adds to, in order.
Adds(counts) == IF counts["allocations"] = 1
                  THEN <<"allocations", "allocated_bytes">>
                  ELSE <<"deallocations", "deallocated_bytes">>

Init ==
    /\ \E n \in InitialCounts : counter = [c \in Counters |-> n]
    /\ call = [t \in Threads |-> Idle]
    /\ live = [s \in Sizes |-> 0]
    /\ reading = [by |-> "nobody", left |-> <<>>]
    /\ loaded = Zero
    /\ start = NoScope
    /\ tally = [begun |-> Zero, done |-> Zero, missed |-> Zero]
    /\ marks = [opening |-> tally, opened |-> tally, asked |-> tally, clean |-> FALSE]

MayCall(t) ==
    LET made == Plus(tally.begun, tally.missed)
    IN  /\ call[t].left = <<>>
        /\ made["allocations"] + made["deallocations"] < MaxCalls

\* A call that counts: malloc before, free after it is of no account here.
Begin(t, counts) ==
    /\ MayCall(t)
    /\ call' = [call EXCEPT ![t] = [counts |-> counts, left |-> Adds(counts)]]
    /\ tally' = [tally EXCEPT !.begun = Plus(@, counts)]
    /\ UNCHANGED <<counter, reading, loaded, start, marks>>

\* A call that does not.
Miss(t, counts) ==
    /\ MayCall(t)
    /\ tally' = [tally EXCEPT !.missed = Plus(@, counts)]
    /\ UNCHANGED <<counter, call, reading, loaded, start, marks>>

OperatorNew(t, size) == Begin(t, Allocation(size)) /\ UNCHANGED live

OperatorDeleteSized(t, size) ==
    /\ live[size] > 0
    /\ live' = [live EXCEPT ![size] = @ - 1]
    /\ Begin(t, Deallocation(size))

OperatorDelete(t, size) ==
    /\ live[size] > 0
    /\ live' = [live EXCEPT ![size] = @ - 1]
    /\ Miss(t, Deallocation(size))

\* do_allocate and do_deallocate of std::pmr::new_delete_resource.
AlignedNew(t, size) == Miss(t, Allocation(size)) /\ UNCHANGED live
AlignedDelete(t, size) ==
    /\ tally.missed["allocated_bytes"] - tally.missed["deallocated_bytes"] >= size
    /\ Miss(t, Deallocation(size))
    /\ UNCHANGED live

\* One fetch_add of record_allocation or record_deallocation; after the second
\* the call returns, and a new block can be deleted.
FetchAdd(t) ==
    LET counts == call[t].counts
        c == Head(call[t].left)
        left == Tail(call[t].left)
    IN  /\ call[t].left # <<>>
        /\ counter' = [counter EXCEPT ![c] = (@ + counts[c]) % WordSize]
        /\ call' = [call EXCEPT ![t] = IF left = <<>> THEN Idle ELSE [@ EXCEPT !.left = left]]
        /\ IF left # <<>> THEN UNCHANGED <<live, tally>>
           ELSE /\ tally' = [tally EXCEPT !.done = Plus(@, counts)]
                /\ live' = [s \in Sizes |-> live[s] +
                      IF counts["allocations"] = 1 /\ counts["allocated_bytes"] = s
                        THEN 1 ELSE 0]
        /\ UNCHANGED <<reading, loaded, start, marks>>

-----------------------------------------------------------------------------
\* The thread that measures.
Begins(by) == reading.left = <<>> /\ reading' = [by |-> by, left |-> Order]
Accesses(c, by) ==
    /\ reading.by = by /\ reading.left # <<>> /\ c = Head(reading.left)
    /\ reading' = [reading EXCEPT !.left = Tail(@)]

ResetCounters ==
    /\ Begins("reset")
    /\ marks' = [marks EXCEPT !.clean = FALSE]
    /\ UNCHANGED <<counter, call, live, loaded, start, tally>>

Store(c) ==
    /\ Accesses(c, "reset")
    /\ counter' = [counter EXCEPT ![c] = 0]
    /\ UNCHANGED <<call, live, loaded, start, tally, marks>>

OpenScope ==
    /\ Begins("scope")
    /\ loaded' = Zero
    /\ start' = NoScope
    /\ marks' = [opening |-> tally, opened |-> tally, asked |-> tally, clean |-> TRUE]
    /\ UNCHANGED <<counter, call, live, tally>>

Snapshot ==
    /\ start # NoScope
    /\ Begins("snapshot")
    /\ loaded' = Zero
    /\ marks' = [marks EXCEPT !.asked = tally]
    /\ UNCHANGED <<counter, call, live, start, tally>>

\* The loads of allocation_counters; the constructor's last one sets start_.
LoadForScope(c) ==
    /\ Accesses(c, "scope")
    /\ loaded' = [loaded EXCEPT ![c] = counter[c]]
    /\ IF reading'.left = <<>>
         THEN start' = loaded' /\ marks' = [marks EXCEPT !.opened = tally]
         ELSE UNCHANGED <<start, marks>>
    /\ UNCHANGED <<counter, call, live, tally>>

LoadForSnapshot(c) ==
    /\ Accesses(c, "snapshot")
    /\ loaded' = [loaded EXCEPT ![c] = counter[c]]
    /\ UNCHANGED <<counter, call, live, start, tally, marks>>

\* Mutant (as all names with an underscore inside, the next definition with a
\* plausible bug): no benchmark would notice, they all reset the counters.
Reported_Now(c) == loaded[c]

\* What snapshot returns, by unsigned subtraction.
Reported(c) == (loaded[c] - start[c]) % WordSize

Next ==
    \/ \E t \in Threads, size \in Sizes :
          \/ OperatorNew(t, size) \/ OperatorDeleteSized(t, size)
          \/ OperatorDelete(t, size) \/ AlignedNew(t, size) \/ AlignedDelete(t, size)
    \/ \E t \in Threads : FetchAdd(t)
    \/ ResetCounters \/ OpenScope \/ Snapshot
    \/ \E c \in Counters : Store(c) \/ LoadForScope(c) \/ LoadForSnapshot(c)

Spec == Init /\ [][Next]_vars

-----------------------------------------------------------------------------
\* A snapshot was taken and no counter reset since its scope was opened:
\* benchmarks reset before.
SnapshotTaken == reading = [by |-> "snapshot", left |-> <<>>] /\ marks.clean

\* A snapshot beside running threads is no picture of one moment, but each of
\* its numbers lies between what was counted for certain, by calls that began
\* after the scope was open and were over before the snapshot was asked for,
\* and what calls that were not over before, or had begun by now, can have
\* counted.  It is exact when no call is under way at either end, as around
\* process_records, which joins its workers; and neither a wrapped counter
\* nor what happened before the scope makes a difference.
AtLeast(c) == marks.asked.done[c] - marks.opened.begun[c]
AtMost(c) == tally.begun[c] - marks.opening.done[c]

SnapshotWithinWindow ==
    SnapshotTaken =>
        \A c \in Counters : AtLeast(c) <= Reported(c) /\ Reported(c) <= AtMost(c)

\* docs/benchmark-methodology.md:32 says that a benchmark reports its
\* allocation count and the total of allocated bytes: the numbers contain at
\* least every allocation between the scope and the snapshot.  (They do not:
\* memory resources allocate with an alignment, see the README.)
AllocationsAreReported ==
    SnapshotTaken =>
        \A c \in {"allocations", "allocated_bytes"} :
            AtLeast(c) + marks.asked.missed[c] - marks.opened.missed[c] <= Reported(c)
=============================================================================
