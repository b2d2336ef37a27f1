----------------------------- MODULE MCDefaults -----------------------------
(***************************************************************************)
(* Defaults of the instances, in the place of those of DefaultFile: three  *)
(* retries as there, the delays shorter, and a spool of two batches of two *)
(* snapshots.                                                              *)
(***************************************************************************)
SmallDefaults ==
    [collection |-> [i \in {"metrics", "process", "service", "flush", "drain", "reload",
                            "cpuSample"} |-> 2],
     buffer     |-> [enabled |-> TRUE, directory |-> <<"data", "spool">>, maxBatches |-> 2,
                     maxBatchBytes |-> 2, maxBatchAge |-> 1],
     transport  |-> [batchSize |-> 2, requestTimeout |-> 1, maxRetries |-> 3,
                     initialBackoff |-> 1, maxBackoff |-> 5, compression |-> TRUE]]
=============================================================================
