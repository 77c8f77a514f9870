---------------------------- MODULE JobLifecycle ----------------------------
(***************************************************************************)
(* What scheduler/job_queue.py promises of one job, in the words of its    *)
(* docstring: QUEUED -> LEASED -> COMPLETED | DEAD_LETTER, and LEASED ->   *)
(* QUEUED when the lease expired; cancellation ends a job; a lease is held *)
(* by at most one worker.  No clock, no calls, no table: a job has a       *)
(* status and the worker that is working on it.  QueueWorkers implements   *)
(* this when its workers keep their leases.                                *)
(***************************************************************************)
CONSTANTS JobIds, Workers

VARIABLES status, owners

vars == <<status, owners>>

Statuses == {"ABSENT", "QUEUED", "LEASED", "COMPLETED", "DEAD_LETTER", "CANCELLED"}

Init ==
    /\ status = [j \in JobIds |-> "ABSENT"]
    /\ owners = [j \in JobIds |-> {}]

Submitted(j) == status[j] = "ABSENT" /\ status'[j] = "QUEUED" /\ owners'[j] = owners[j]

\* A worker starts on a job that is queued, or whose last worker died and lost its lease.
Started(j) ==
    /\ status[j] \in {"QUEUED", "LEASED"} /\ owners[j] = {}
    /\ status'[j] = "LEASED" /\ \E w \in Workers : owners'[j] = {w}

\* The worker reports: done, failed for good, or to be tried again.
Reported(j) ==
    /\ status[j] = "LEASED" /\ owners[j] # {}
    /\ status'[j] \in {"COMPLETED", "DEAD_LETTER", "QUEUED"} /\ owners'[j] = {}

\* The worker dies; the lease stays until it expires.
Orphaned(j) == owners[j] # {} /\ owners'[j] = {} /\ status'[j] = status[j]

Expired(j) ==
    /\ status[j] = "LEASED" /\ owners[j] = {}
    /\ status'[j] = "QUEUED" /\ owners'[j] = {}

Cancelled(j) ==
    /\ status[j] \in {"QUEUED", "LEASED"} /\ owners[j] = {}
    /\ status'[j] = "CANCELLED" /\ owners'[j] = {}

Untouched(j) == status'[j] = status[j] /\ owners'[j] = owners[j]

\* One transaction of the queue may reset several expired leases and start a job as well.
Next ==
    /\ status' \in [JobIds -> Statuses]
    /\ owners' \in [JobIds -> SUBSET Workers]
    /\ \A j \in JobIds : \/ Submitted(j) \/ Started(j) \/ Reported(j) \/ Orphaned(j)
                         \/ Expired(j) \/ Cancelled(j) \/ Untouched(j)

Spec == Init /\ [][Next]_vars
=============================================================================
