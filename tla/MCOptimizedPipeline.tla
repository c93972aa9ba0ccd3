------------------------ MODULE MCOptimizedPipeline -------------------------
(* Instances of the lifetime-optimized pipeline for TLC.                   *)
EXTENDS OptimizedPipeline

MCProcessOne(i) == 100 + i
MCEncodedSize(content) == 2 ^ (content - 100)
MCPayloadSize(i) == 3 ^ i
MCUnset == 0
MCGarbage == 111

MCWordSize == 16

Config(workers, capacity, batch, mode) ==
    [worker_count |-> workers, queue_capacity |-> capacity,
     batch_size |-> batch, allocation_mode |-> mode]

\* Ranges of two with a short last one, in an arena, over two workers and
\* a queue of one; zeros without an arena; the largest batch size there is.
MCConfigs == {Config(2, 1, 2, "batch_arena"), Config(0, 0, 0, "ordinary"),
              Config(1, 2, MCWordSize - 1, "batch_arena")}
MCSizes == {0, 5}
=============================================================================
