---------------------------- MODULE QueueWorkers ----------------------------
(***************************************************************************)
(* Workers that use the job queue the way its interface and its tests ask: *)
(* resume on startup, lease a job, heartbeat and checkpoint while working  *)
(* on it, and report complete or fail for it.  Clients, in processes of    *)
(* their own, enqueue and cancel jobs.  The repository holds the queue and *)
(* no worker loop, so the loop is external; every step on the database is  *)
(* JobQueue's.                                                             *)
(*                                                                         *)
(* No call takes as long as a lease.  A worker renews or reports before    *)
(* its lease runs out, which is the assumption under which a lease         *)
(* excludes, except for the workers in LateWorkers, which may be           *)
(* arbitrarily late.  CancelHeld = TRUE lets the operator cancel a job     *)
(* that a worker is working on.                                            *)
(***************************************************************************)
EXTENDS JobQueue

CONSTANTS
    Workers,       \* the processes that work; the other ones are clients
    LateWorkers,
    CancelHeld,
    MaxCrashes,    \* bound: worker crashes
    LastSubmit     \* bound: the latest time at which a client submits

ASSUME WorkersAssumption ==
    /\ Workers \subseteq Procs
    /\ LateWorkers \subseteq Workers
    /\ CancelHeld \in BOOLEAN /\ MaxCrashes \in Nat
    /\ LastSubmit \in Nat
    /\ NULL \notin JobIds     \* job ids are strings

Clients == Procs \ Workers

VARIABLES
    started,   \* the workers that have called resume_in_progress since they started
    held,      \* the job a worker is working on, its attempt, and until when it is leased
    crashes    \* how many workers have crashed so far

workerVars == <<started, held, crashes>>

allVars == <<jobs, dead_letters, circuit, call, clock, started, held, crashes>>

Nothing == [job |-> NULL, attempt |-> 0, until |-> NULL]

Holds(w, j) == held[w].job = j

\* The worker has the job, or is about to be given it by the get() in lease_next.
Engaged(w, j) == Holds(w, j) \/ (call[w].op = "get" /\ call[w].job = j)

WorkersInit ==
    /\ Init
    /\ started = {}
    /\ held = [w \in Workers |-> Nothing]
    /\ crashes = 0

Hold(w, h) == held' = [held EXCEPT ![w] = h]

Submit(c) ==
    /\ clock <= LastSubmit
    /\ \E r \in Requests : ~Exists(r.job_id) /\ EnqueueSelect(c, r)
    /\ UNCHANGED workerVars

SubmitDone(c) == EnqueueInsert(c) /\ UNCHANGED workerVars

OperatorCancel(c) ==
    /\ \E j \in JobIds : /\ CancelHeld \/ \A w \in Workers : ~Engaged(w, j)
                         /\ Cancel(c, j)
    /\ UNCHANGED workerVars

----------------------------------------------------------------------------
Recover(w) ==
    /\ w \notin started
    /\ ResumeNow(w)
    /\ UNCHANGED workerVars

RecoverDone(w) ==
    /\ ResumeUpdate(w)
    /\ started' = started \cup {w}
    /\ UNCHANGED <<held, crashes>>

Poll(w) ==
    /\ w \in started /\ held[w] = Nothing
    /\ \E f \in Filters : LeaseNextNow(w, f)
    /\ UNCHANGED workerVars

Lease(w) ==
    /\ LeaseNextNone(w) \/ LeaseNextJob(w)
    /\ UNCHANGED workerVars

\* The Job that lease_next returns.
Take(w) ==
    /\ LeaseNextGet(w)
    /\ LET j == call[w].job IN
         Hold(w, [job |-> j, attempt |-> jobs[j].attempt, until |-> jobs[j].lease_expires])
    /\ UNCHANGED <<started, crashes>>

Heartbeat(w) ==
    /\ held[w] # Nothing
    /\ RenewLeaseNow(w, held[w].job)
    /\ UNCHANGED workerVars

\* renew_lease returns False when the job is no longer leased; the worker lets go of it.
HeartbeatDone(w) ==
    /\ RenewLeaseUpdate(w)
    /\ Hold(w, IF jobs[call[w].job].state = "LEASED"
               THEN [held[w] EXCEPT !.until = call[w].now + LeaseSeconds]
               ELSE Nothing)
    /\ UNCHANGED <<started, crashes>>

\* A checkpoint is stamped with the attempt that saved it.
Save(w) ==
    /\ held[w] # Nothing
    /\ Checkpoint(w, held[w].job, held[w].attempt)
    /\ UNCHANGED workerVars

\* complete; when the job is no longer leased it returns False and the worker lets go of it.
Done(w) ==
    /\ held[w] # Nothing
    /\ IF Completable(held[w].job) THEN Complete(w, held[w].job)
       ELSE call[w] = Idle /\ UNCHANGED vars
    /\ Hold(w, Nothing)
    /\ UNCHANGED <<started, crashes>>

Fail(w) ==
    /\ held[w] # Nothing
    /\ FailSelect(w, held[w].job)
    /\ UNCHANGED workerVars

FailDone(w) ==
    /\ FailDeadLetter(w) \/ FailRequeue(w)
    /\ Hold(w, Nothing)
    /\ UNCHANGED <<started, crashes>>

Locked(p) == DatabaseLocked(p) /\ UNCHANGED workerVars

\* Crashes happen early enough for the lease they leave behind to expire before MaxClock.
Crash(w) ==
    /\ crashes < MaxCrashes
    /\ clock + LeaseSeconds < MaxClock
    /\ Restart(w)
    /\ started' = started \ {w}
    /\ Hold(w, Nothing)
    /\ crashes' = crashes + 1

\* No lease runs out under a worker that is not late, or during the call that asks for it.
InTime ==
    \A w \in Workers :
        /\ w \notin LateWorkers /\ held[w].until # NULL => clock < held[w].until
        /\ call[w].op \in {"lease_next", "renew_lease"} => clock < call[w].now + LeaseSeconds
        /\ call[w].op = "get" => clock < jobs[call[w].job].lease_expires

Pass ==
    /\ InTime
    /\ Tick
    /\ UNCHANGED workerVars

WorkersNext ==
    \/ \E c \in Clients : Submit(c) \/ SubmitDone(c) \/ OperatorCancel(c) \/ Locked(c)
    \/ \E w \in Workers :
         \/ Recover(w) \/ RecoverDone(w) \/ Poll(w) \/ Lease(w) \/ Take(w)
         \/ Heartbeat(w) \/ HeartbeatDone(w) \/ Save(w)
         \/ Done(w) \/ Fail(w) \/ FailDone(w)
         \/ Locked(w) \/ Crash(w)
    \/ Pass

WorkersSpec == WorkersInit /\ [][WorkersNext]_allVars

\* A worker goes on with its loop, it does not fail to get the database lock for ever, and
\* it ends every job it works on; time does not stop.  A worker need not heartbeat, save or
\* crash, and clients need do nothing.
WorkersFairness ==
    /\ \A w \in Workers :
         /\ WF_allVars(Recover(w) \/ Poll(w) \/ Take(w) \/ HeartbeatDone(w))
         /\ SF_allVars(RecoverDone(w) \/ Lease(w) \/ Done(w) \/ FailDone(w))
    /\ SF_allVars(Pass)

FairWorkersSpec == WorkersSpec /\ WorkersFairness

----------------------------------------------------------------------------
(* Properties *)

\* Job lease prevents duplicate execution (docs/P2_4_PREPRODUCTION_BLUEPRINT.md): never are
\* two workers at work on one job, each with a lease that still covers the present.
LeaseExclusive ==
    \A j \in JobIds :
        Cardinality({w \in Workers : Holds(w, j) /\ held[w].until >= clock}) <= 1

\* How often a job may be tried.  lease_next never reads max_attempts, so a job enqueued with
\* max_attempts = 0 is tried once as well.
Budget(j) == IF jobs[j].max_attempts > 1 THEN jobs[j].max_attempts ELSE 1

\* The retry budget: beyond max_attempts a job is leased only to make up for a worker that
\* crashed while it held the lease.
RetryBudget ==
    \A j \in JobIds : jobs[j].attempt <= Budget(j) + crashes

\* The checkpoint a retry resumes from is never replaced by one of an earlier attempt.
CheckpointForward ==
    [][\A j \in JobIds : Exists(j) => jobs'[j].checkpoint >= jobs[j].checkpoint]_allVars

\* The queue with workers that keep their leases implements the lifecycle of its docstring.
Lifecycle == INSTANCE JobLifecycle
    WITH status <- [j \in JobIds |-> jobs[j].state],
         owners <- [j \in JobIds |-> {w \in Workers : Engaged(w, j)}]

ImplementsLifecycle == Lifecycle!Spec

\* Every job that was enqueued ends, completed, dead-lettered or cancelled: a crashed
\* worker's lease expires and is handed on, and retries run out.
EveryJobEnds ==
    \A j \in JobIds : jobs[j].state = "QUEUED" ~> jobs[j].state \in Terminal
=============================================================================
