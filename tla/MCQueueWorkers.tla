--------------------------- MODULE MCQueueWorkers ---------------------------
(* Constants for TLC: an urgent job that may be tried twice, and one that may be tried once. *)
EXTENDS QueueWorkers, TLC

CONSTANTS j1, j2, t1, w1, w2, c1

RequestFor(j) ==
    IF j = j1 THEN [job_id |-> j, key |-> NoKey, type |-> t1, priority |-> 0, max_attempts |-> 2]
              ELSE [job_id |-> j, key |-> NoKey, type |-> t1, priority |-> 1, max_attempts |-> 1]

MCRequests == {RequestFor(j) : j \in JobIds}

WorkerSymmetry == Permutations({w1, w2})
=============================================================================
