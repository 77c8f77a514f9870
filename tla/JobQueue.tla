------------------------------ MODULE JobQueue ------------------------------
(***************************************************************************)
(* The SQLite-backed job queue, scheduler/job_queue.py.                    *)
(*                                                                         *)
(* Several processes share one database file.  Each has its own            *)
(* PersistentJobQueue object, whose only state of its own is the circuit   *)
(* breaker's counters; everything else is in the tables jobs and           *)
(* dead_letters.  A method opens a connection of its own.  sqlite3 begins  *)
(* a transaction at the first INSERT or UPDATE and not at a SELECT, and    *)
(* the time is read before the write lock is taken.  So a method is one    *)
(* step when all that it carries into its transaction are its arguments,   *)
(* and two steps (call[p] holds what was read) when it carries a time or a *)
(* row that it read earlier: enqueue, lease_next, renew_lease, fail and    *)
(* resume_in_progress.                                                     *)
(*                                                                         *)
(* Any process may call any method for any job at any time: this module    *)
(* says what the queue guarantees whatever its callers do.  QueueWorkers   *)
(* adds callers that follow the lease protocol.                            *)
(***************************************************************************)
EXTENDS Integers, FiniteSets

CONSTANTS
    Procs,              \* processes, each with a queue object
    JobIds,             \* values of job_id
    Types,              \* values of job_type
    AnyType,            \* lease_next(job_type=None)
    Filters,            \* the filters callers pass to lease_next
    Keys, NoKey,        \* idempotency keys; NoKey is None
    Checkpoints,        \* the checkpoint data callers save
    Requests,           \* the argument records callers pass to enqueue
    LeaseSeconds,       \* lease_seconds of the constructor
    CircuitThreshold,   \* _circuit_threshold
    MaxClock,           \* bound: the clock stops here
    MaxDeadLetters      \* bound: rows of dead_letters for one job

ASSUME ConstantAssumption ==
    /\ NoKey \notin Keys
    /\ AnyType \notin Types
    /\ Filters \subseteq Types \cup {AnyType}
    /\ Checkpoints \subseteq Nat
    /\ LeaseSeconds \in Nat
    /\ CircuitThreshold \in Nat \ {0}
    /\ MaxClock \in Nat
    /\ MaxDeadLetters \in Nat
    /\ Requests \subseteq [job_id : JobIds, key : Keys \cup {NoKey}, type : Types,
                           priority : Nat, max_attempts : Nat]

VARIABLES
    jobs,          \* the table jobs; a job_id without a row is ABSENT
    dead_letters,  \* the number of rows of dead_letters for each job
    circuit,       \* _circuit_failures of each process, cut off at the threshold
    call,          \* what each process carries from its read to its write
    clock          \* the wall clock, in units of LeaseSeconds' unit

vars == <<jobs, dead_letters, circuit, call, clock>>

NULL == -1    \* lease_expires IS NULL

Terminal == {"COMPLETED", "DEAD_LETTER", "CANCELLED"}

States == {"QUEUED", "LEASED"} \cup Terminal

\* A row of jobs, without the columns the queue never reads back (payload, error,
\* updated_at, correlation_id, parent_job_id).  A checkpoint is abstracted to a number, 0
\* being the '{}' that enqueue stores.
Row == [state : States \cup {"ABSENT"}, key : Keys \cup {NoKey}, type : Types \cup {AnyType},
        priority : Nat, max_attempts : Nat, attempt : Nat, created_at : Nat,
        lease_expires : Nat \cup {NULL}, checkpoint : Nat]

NoRow == [state |-> "ABSENT", key |-> NoKey, type |-> AnyType, priority |-> 0,
          max_attempts |-> 0, attempt |-> 0, created_at |-> 0, lease_expires |-> NULL,
          checkpoint |-> 0]

Exists(j) == jobs[j].state # "ABSENT"

\* What a process carries from the read of a method to its write.
Idle == [op |-> "idle"]

Call == {Idle}
        \cup [op : {"enqueue"}, now : Nat, req : Requests]
        \cup [op : {"lease_next"}, now : Nat, filter : Types \cup {AnyType}]
        \cup [op : {"get"}, job : JobIds]
        \cup [op : {"renew_lease"}, now : Nat, job : JobIds]
        \cup [op : {"fail"}, job : JobIds, dead : BOOLEAN]
        \cup [op : {"resume_in_progress"}, now : Nat]

----------------------------------------------------------------------------
Init ==
    /\ jobs = [j \in JobIds |-> NoRow]
    /\ dead_letters = [j \in JobIds |-> 0]
    /\ circuit = [p \in Procs |-> [t \in Types |-> 0]]
    /\ call = [p \in Procs |-> Idle]
    /\ clock = 0

Begin(p, c) ==
    /\ call[p] = Idle
    /\ call' = [call EXCEPT ![p] = c]

Return(p) == call' = [call EXCEPT ![p] = Idle]

----------------------------------------------------------------------------
(* enqueue: SELECT by idempotency_key, then INSERT in a transaction of its own. *)

KeyTaken(key) == key # NoKey /\ \E j \in JobIds : Exists(j) /\ jobs[j].key = key

\* With the key already present enqueue returns None here and nothing changes.
EnqueueSelect(p, r) ==
    /\ ~KeyTaken(r.key)
    /\ Begin(p, [op |-> "enqueue", now |-> clock, req |-> r])
    /\ UNCHANGED <<jobs, dead_letters, circuit, clock>>

NewRow(r, now) ==
    [state |-> "QUEUED", key |-> r.key, type |-> r.type, priority |-> r.priority,
     max_attempts |-> r.max_attempts, attempt |-> 0, created_at |-> now,
     lease_expires |-> NULL, checkpoint |-> 0]

\* Faulty: a table without the UNIQUE constraint on idempotency_key.
InsertOnlyJobIdUnique(r) == Exists(r.job_id)

\* The PRIMARY KEY and UNIQUE constraints: the INSERT raises IntegrityError.
InsertConflicts(r) == Exists(r.job_id) \/ KeyTaken(r.key)

EnqueueInsert(p) ==
    /\ call[p].op = "enqueue"
    /\ LET r == call[p].req IN
         jobs' = IF InsertConflicts(r) THEN jobs
                 ELSE [jobs EXCEPT ![r.job_id] = NewRow(r, call[p].now)]
    /\ Return(p)
    /\ UNCHANGED <<dead_letters, circuit, clock>>

----------------------------------------------------------------------------
(* lease_next: one transaction, but under a time read before it began, and a get() of the *)
(* leased job after it ended.                                                             *)

\* Faulty: a lease counts as expired in the instant it still covers.
ExpiredInclusive(now) ==
    {j \in JobIds : jobs[j].state = "LEASED" /\ jobs[j].lease_expires <= now}

\* Faulty: the reset of expired leases is left out.
ExpiredNever(now) == {}

Expired(now) ==
    {j \in JobIds : /\ jobs[j].state = "LEASED"
                    /\ jobs[j].lease_expires # NULL
                    /\ jobs[j].lease_expires < now}

\* SET state = ..., lease_expires = NULL: every UPDATE that ends a lease.
WithoutLease(row, state) == [row EXCEPT !.state = state, !.lease_expires = NULL]

ResetExpired(now) ==
    [j \in JobIds |-> IF j \in Expired(now) THEN WithoutLease(jobs[j], "QUEUED") ELSE jobs[j]]

Ahead(a, b) ==
    \/ a.priority < b.priority
    \/ a.priority = b.priority /\ a.created_at < b.created_at

\* Faulty: WHERE state != 'LEASED'.
NextNotLeased(table, filter) ==
    {j \in JobIds : /\ table[j].state \notin {"LEASED", "ABSENT"}
                    /\ filter \in {AnyType, table[j].type}}

\* The jobs that ORDER BY priority, created_at LIMIT 1 may return: SQL leaves ties open.
NextQueued(table, filter) ==
    LET queued == {j \in JobIds : /\ table[j].state = "QUEUED"
                                  /\ filter \in {AnyType, table[j].type}}
    IN  {j \in queued : \A k \in queued : ~Ahead(table[k], table[j])}

Renewed(row, now) == [row EXCEPT !.lease_expires = now + LeaseSeconds]

Leased(row, now) == [Renewed(row, now) EXCEPT !.state = "LEASED", !.attempt = @ + 1]

LeaseNextNow(p, filter) ==
    /\ Begin(p, [op |-> "lease_next", now |-> clock, filter |-> filter])
    /\ UNCHANGED <<jobs, dead_letters, circuit, clock>>

LeaseNextNone(p) ==
    /\ call[p].op = "lease_next"
    /\ LET table == ResetExpired(call[p].now) IN
         /\ NextQueued(table, call[p].filter) = {}
         /\ jobs' = table
    /\ Return(p)
    /\ UNCHANGED <<dead_letters, circuit, clock>>

LeaseNextJob(p) ==
    /\ call[p].op = "lease_next"
    /\ LET table == ResetExpired(call[p].now) IN
         \E j \in NextQueued(table, call[p].filter) :
           /\ jobs' = [table EXCEPT ![j] = Leased(table[j], call[p].now)]
           /\ call' = [call EXCEPT ![p] = [op |-> "get", job |-> j]]
    /\ UNCHANGED <<dead_letters, circuit, clock>>

\* return self.get(row["job_id"]): the caller sees the row as it is by now.
LeaseNextGet(p) ==
    /\ call[p].op = "get"
    /\ Return(p)
    /\ UNCHANGED <<jobs, dead_letters, circuit, clock>>

----------------------------------------------------------------------------
(* renew_lease, checkpoint, complete, cancel: a single guarded UPDATE. *)

WithCheckpoint(row, data) == [row EXCEPT !.checkpoint = data]

RenewLeaseNow(p, j) ==
    /\ Begin(p, [op |-> "renew_lease", now |-> clock, job |-> j])
    /\ UNCHANGED <<jobs, dead_letters, circuit, clock>>

RenewLeaseUpdate(p) ==
    /\ call[p].op = "renew_lease"
    /\ LET j == call[p].job IN
         jobs' = IF jobs[j].state = "LEASED"
                 THEN [jobs EXCEPT ![j] = Renewed(@, call[p].now)]
                 ELSE jobs
    /\ Return(p)
    /\ UNCHANGED <<dead_letters, circuit, clock>>

Checkpoint(p, j, data) ==
    /\ call[p] = Idle
    /\ jobs[j].state = "LEASED"
    /\ jobs' = [jobs EXCEPT ![j] = WithCheckpoint(@, data)]
    /\ UNCHANGED <<dead_letters, circuit, call, clock>>

Completable(j) == jobs[j].state = "LEASED"

\* A job that is not LEASED is left alone and complete returns False.
Complete(p, j) ==
    /\ call[p] = Idle
    /\ Completable(j)
    /\ jobs' = [jobs EXCEPT ![j] = WithoutLease(@, "COMPLETED")]
    /\ circuit' = [circuit EXCEPT ![p][jobs[j].type] = 0]
    /\ UNCHANGED <<dead_letters, call, clock>>

Cancel(p, j) ==
    /\ call[p] = Idle
    /\ jobs[j].state \in {"QUEUED", "LEASED"}
    /\ jobs' = [jobs EXCEPT ![j] = WithoutLease(@, "CANCELLED")]
    /\ UNCHANGED <<dead_letters, circuit, call, clock>>

----------------------------------------------------------------------------
(* fail: a SELECT, the circuit breaker in memory, then an UPDATE whatever the state is by *)
(* then.                                                                                  *)

IsCircuitOpen(failures) == failures >= CircuitThreshold

\* The counter, cut off at the threshold, beyond which nothing tells its values apart.
OneMoreFailure(n) == IF n < CircuitThreshold THEN n + 1 ELSE n

\* Faulty: one attempt too many.
OutOfAttemptsLate(row) == row.attempt > row.max_attempts

OutOfAttempts(row) == row.attempt >= row.max_attempts

FailSelect(p, j) ==
    /\ Exists(j)
    /\ dead_letters[j] < MaxDeadLetters
    /\ LET t == jobs[j].type
           n == OneMoreFailure(circuit[p][t])
       IN /\ circuit' = [circuit EXCEPT ![p][t] = n]
          /\ Begin(p, [op |-> "fail", job |-> j,
                       dead |-> OutOfAttempts(jobs[j]) \/ IsCircuitOpen(n)])
    /\ UNCHANGED <<jobs, dead_letters, clock>>

ArchiveDeadLetter(j) == dead_letters' = [dead_letters EXCEPT ![j] = @ + 1]

FailDeadLetter(p) ==
    /\ call[p].op = "fail" /\ call[p].dead
    /\ LET j == call[p].job IN
         /\ jobs' = [jobs EXCEPT ![j] = WithoutLease(@, "DEAD_LETTER")]
         /\ ArchiveDeadLetter(j)
    /\ Return(p)
    /\ UNCHANGED <<circuit, clock>>

FailRequeue(p) ==
    /\ call[p].op = "fail" /\ ~call[p].dead
    /\ jobs' = [jobs EXCEPT ![call[p].job] = WithoutLease(@, "QUEUED")]
    /\ Return(p)
    /\ UNCHANGED <<dead_letters, circuit, clock>>

----------------------------------------------------------------------------
(* resume_in_progress, reset_circuit, and what happens to a process. *)

ResumeNow(p) ==
    /\ Begin(p, [op |-> "resume_in_progress", now |-> clock])
    /\ UNCHANGED <<jobs, dead_letters, circuit, clock>>

ResumeUpdate(p) ==
    /\ call[p].op = "resume_in_progress"
    /\ jobs' = ResetExpired(call[p].now)
    /\ Return(p)
    /\ UNCHANGED <<dead_letters, circuit, clock>>

ResetCircuit(p, t) ==
    /\ call[p] = Idle
    /\ circuit' = [circuit EXCEPT ![p][t] = 0]
    /\ UNCHANGED <<jobs, dead_letters, call, clock>>

Writing == {"enqueue", "lease_next", "renew_lease", "fail", "resume_in_progress"}

\* The write lock was not obtained within the connection's timeout: OperationalError, and
\* _conn rolls back.  The circuit counter fail has incremented stays incremented.
DatabaseLocked(p) ==
    /\ call[p].op \in Writing
    /\ Return(p)
    /\ UNCHANGED <<jobs, dead_letters, circuit, clock>>

\* The process dies and a new one opens the same file, its counters at zero.
Restart(p) ==
    /\ Return(p)
    /\ circuit' = [circuit EXCEPT ![p] = [t \in Types |-> 0]]
    /\ UNCHANGED <<jobs, dead_letters, clock>>

Tick ==
    /\ clock < MaxClock
    /\ clock' = clock + 1
    /\ UNCHANGED <<jobs, dead_letters, circuit, call>>

\* The second step of every method that has one.
Finish(p) ==
    \/ EnqueueInsert(p)
    \/ LeaseNextNone(p) \/ LeaseNextJob(p) \/ LeaseNextGet(p)
    \/ RenewLeaseUpdate(p)
    \/ FailDeadLetter(p) \/ FailRequeue(p)
    \/ ResumeUpdate(p)

Next ==
    \/ \E p \in Procs :
         \/ \E r \in Requests : EnqueueSelect(p, r)
         \/ \E f \in Filters : LeaseNextNow(p, f)
         \/ \E j \in JobIds : \/ RenewLeaseNow(p, j)
                              \/ \E data \in Checkpoints : Checkpoint(p, j, data)
                              \/ Complete(p, j)
                              \/ Cancel(p, j)
                              \/ FailSelect(p, j)
         \/ ResumeNow(p)
         \/ Finish(p)
         \/ \E t \in Types : ResetCircuit(p, t)
         \/ DatabaseLocked(p)
         \/ Restart(p)
    \/ Tick

Spec == Init /\ [][Next]_vars

----------------------------------------------------------------------------
(* What the queue guarantees to every caller. *)

\* The tables, the counters and the calls in flight keep the shape the code gives them.
TypeOK ==
    /\ jobs \in [JobIds -> Row]
    /\ \A j \in JobIds : Exists(j) => jobs[j].type \in Types
    /\ dead_letters \in [JobIds -> Nat]
    /\ circuit \in [Procs -> [Types -> 0..CircuitThreshold]]
    /\ call \in [Procs -> Call]
    /\ clock \in Nat

\* Exactly the LEASED jobs carry an expiry time, so no reset of expired leases (lease_next,
\* resume_in_progress) can miss a leased job or touch another; and no expiry lies more than
\* one lease ahead, however late a renew_lease or lease_next writes the time it read.
LeaseConsistent ==
    \A j \in JobIds :
        /\ jobs[j].state = "LEASED" <=> jobs[j].lease_expires # NULL
        /\ jobs[j].lease_expires <= clock + LeaseSeconds

\* Two enqueues that both found the idempotency key free cannot both insert it.
KeysUnique ==
    \A j, k \in JobIds :
        Exists(j) /\ Exists(k) /\ jobs[j].key = jobs[k].key /\ jobs[j].key # NoKey => j = k

\* A job in DEAD_LETTER has a row in dead_letters, even when another process completed,
\* cancelled or leased it between fail's SELECT and its UPDATE.
DeadLetterArchived ==
    \A j \in JobIds : jobs[j].state = "DEAD_LETTER" => dead_letters[j] > 0

\* A job is LEASED or COMPLETED only after an attempt at it was counted: nothing runs or
\* succeeds without the lease that charges its retry budget.
AttemptCharged ==
    \A j \in JobIds : jobs[j].state \in {"LEASED", "COMPLETED"} => jobs[j].attempt > 0

\* The two tables agree with each other, the clock and the lease protocol, whoever calls which
\* method for which job: every method decides on a row or a time that it read before its
\* transaction, and other processes may have changed the tables since.
TableConsistent == LeaseConsistent /\ KeysUnique /\ DeadLetterArchived /\ AttemptCharged

\* No step hands out a job (the only change of attempt) while its lease covers the present,
\* or after it reached a terminal state: lease_next works on the time it read before its
\* transaction, which may be old but is never ahead.
LiveLeaseNotHandedOut ==
    [][\A j \in JobIds :
          Exists(j) /\ jobs'[j].attempt # jobs[j].attempt =>
              \/ jobs[j].state = "QUEUED"
              \/ jobs[j].state = "LEASED" /\ jobs[j].lease_expires < clock]_vars
=============================================================================
