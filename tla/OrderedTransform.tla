-------------------------- MODULE OrderedTransform --------------------------
(* What process_records promises, in any implementation: one result slot   *)
(* per input record, each filled once with the canonical record of the     *)
(* input at the same position, in any order; and a return only when all    *)
(* are filled.  reference/sequential_oracle fills them from first to last, *)
(* the solutions from several threads.                                     *)
EXTENDS Naturals

CONSTANTS
    Sizes,          \* how many records the input may have
    ProcessOne(_),  \* the canonical record of the input at a position
    Unset           \* a default-constructed CanonicalRecord

VARIABLES size, slots, returned

vars == <<size, slots, returned>>

Init ==
    /\ size \in Sizes
    /\ slots = [i \in 0 .. size - 1 |-> Unset]
    /\ returned = FALSE

Fill(i) ==
    /\ slots[i] = Unset
    /\ slots' = [slots EXCEPT ![i] = ProcessOne(i)]
    /\ UNCHANGED <<size, returned>>

Return ==
    /\ ~returned
    /\ \A i \in 0 .. size - 1 : slots[i] # Unset
    /\ returned' = TRUE
    /\ UNCHANGED <<size, slots>>

Next == Return \/ \E i \in 0 .. size - 1 : Fill(i)

Safety == Init /\ [][Next]_vars

Spec == Safety /\ WF_vars(Next)
=============================================================================
