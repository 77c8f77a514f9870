----------------------------- MODULE MCJobQueue -----------------------------
(* Constants for TLC: two requests share an idempotency key under different job ids, one   *)
(* job may be tried once and is served before the other.                                   *)
EXTENDS JobQueue, TLC

CONSTANTS j1, j2, k1, t1, p1, p2

MCRequests ==
    {[job_id |-> j1, key |-> k1, type |-> t1, priority |-> 1, max_attempts |-> 1],
     [job_id |-> j2, key |-> k1, type |-> t1, priority |-> 0, max_attempts |-> 2]}

ProcSymmetry == Permutations({p1, p2})
=============================================================================
