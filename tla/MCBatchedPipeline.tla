------------------------- MODULE MCBatchedPipeline --------------------------
(* Instances of the batched pipeline for TLC.                              *)
EXTENDS BatchedPipeline

\* The results and sizes differ from record to record, so that one in the
\* wrong place, or one counted for another, shows.
MCProcessOne(i) == 100 + i
MCEncodedSize(record) == 2 ^ (record - 100)
MCPayloadSize(i) == 3 ^ i
MCUnset == 0

MCWordSize == 16

Config(workers, capacity, batch) ==
    [worker_count |-> workers, queue_capacity |-> capacity, batch_size |-> batch]

\* Zeros; one record at a time through a queue of one; two at a time with
\* a short last batch; and the largest batch size there is.
MCConfigs == {Config(0, 0, 0), Config(2, 1, 1), Config(2, 2, 2),
              Config(1, 1, MCWordSize - 1)}
MCSizes == {0, 5}
=============================================================================
