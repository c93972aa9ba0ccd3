---------------------------- MODULE ClosableFifo ----------------------------
(* What the bounded queue promises its callers, whatever locks and wakeups *)
(* it is made of: a bounded FIFO that can be closed.  Every call takes     *)
(* effect in one step between its start and its return.  A push on a       *)
(* closed queue drops its item, a pop delivers what is left and then       *)
(* reports the end.                                                        *)
EXTENDS Naturals, Sequences

CONSTANTS Producers, Consumers, NoItem, Capacities, Items

VARIABLES
    capacity,   \* never changes
    items,
    closed,
    op,         \* the call each thread is in
    argument,   \* of a producer's push
    result      \* of a consumer's last pop

vars == <<capacity, items, closed, op, argument, result>>

Init ==
    /\ capacity \in Capacities
    /\ items = <<>>
    /\ closed = FALSE
    /\ op = [t \in Producers \cup Consumers |-> "idle"]
    /\ argument = [p \in Producers |-> NoItem]
    /\ result = [c \in Consumers |-> NoItem]

StartPush(p, item) ==
    /\ op[p] = "idle"
    /\ op' = [op EXCEPT ![p] = "push"]
    /\ argument' = [argument EXCEPT ![p] = item]
    /\ UNCHANGED <<capacity, items, closed, result>>

EndPush(p) ==
    /\ op[p] = "push"
    /\ op' = [op EXCEPT ![p] = "idle"]
    /\ argument' = [argument EXCEPT ![p] = NoItem]

Accept(p) ==
    /\ EndPush(p)
    /\ ~closed
    /\ Len(items) < capacity
    /\ items' = Append(items, argument[p])
    /\ UNCHANGED <<capacity, closed, result>>

Drop(p) ==
    /\ EndPush(p)
    /\ closed
    /\ UNCHANGED <<capacity, items, closed, result>>

StartPop(c) ==
    /\ op[c] = "idle"
    /\ op' = [op EXCEPT ![c] = "pop"]
    /\ result' = [result EXCEPT ![c] = NoItem]
    /\ UNCHANGED <<capacity, items, closed, argument>>

Deliver(c) ==
    /\ op[c] = "pop"
    /\ items # <<>>
    /\ op' = [op EXCEPT ![c] = "idle"]
    /\ result' = [result EXCEPT ![c] = Head(items)]
    /\ items' = Tail(items)
    /\ UNCHANGED <<capacity, closed, argument>>

ReportEnd(c) ==
    /\ op[c] = "pop"
    /\ items = <<>>
    /\ closed
    /\ op' = [op EXCEPT ![c] = "idle"]
    /\ result' = [result EXCEPT ![c] = NoItem]
    /\ UNCHANGED <<capacity, items, closed, argument>>

StartClose(p) ==
    /\ op[p] = "idle"
    /\ op' = [op EXCEPT ![p] = "close"]
    /\ UNCHANGED <<capacity, items, closed, argument, result>>

Seal(p) ==
    /\ op[p] = "close"
    /\ closed' = TRUE
    /\ op' = [op EXCEPT ![p] = "sealed"]
    /\ UNCHANGED <<capacity, items, argument, result>>

EndClose(p) ==
    /\ op[p] = "sealed"
    /\ op' = [op EXCEPT ![p] = "idle"]
    /\ UNCHANGED <<capacity, items, closed, argument, result>>

Next ==
    \/ \E p \in Producers :
         \/ \E item \in Items : StartPush(p, item)
         \/ Accept(p) \/ Drop(p)
         \/ StartClose(p) \/ Seal(p) \/ EndClose(p)
    \/ \E c \in Consumers : StartPop(c) \/ Deliver(c) \/ ReportEnd(c)

(* The queue serves somebody while it can.  Which of several callers it    *)
(* serves is open: a thread that barges in may overtake one that waits.    *)
Fairness ==
    /\ WF_vars(\E p \in Producers : Accept(p))
    /\ WF_vars(\E c \in Consumers : Deliver(c))
    /\ \A p \in Producers : WF_vars(Drop(p)) /\ WF_vars(Seal(p) \/ EndClose(p))
    /\ \A c \in Consumers : WF_vars(ReportEnd(c))

Safety == Init /\ [][Next]_vars

Spec == Safety /\ Fairness
=============================================================================
