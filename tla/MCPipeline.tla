----------------------------- MODULE MCPipeline -----------------------------
EXTENDS Pipeline

(* Three slots hold two events, so a batch of two can take the ring empty *)
(* and a third push can be refused; four events span two batches.          *)
MCCapacity == 3
MCBatchSize == 2
MCMaxEvents == 4
=============================================================================
