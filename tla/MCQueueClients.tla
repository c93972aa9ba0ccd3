--------------------------- MODULE MCQueueClients ---------------------------
(* The bounded queue with two producers and two consumers, for TLC.        *)
EXTENDS QueueClients

\* 0 is raised to 1 by the constructor; 2 leaves room beside one item.
MCCapacities == {0, 2}
=============================================================================
