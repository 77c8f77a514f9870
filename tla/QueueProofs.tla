---------------------------- MODULE QueueProofs ----------------------------
(* The queue's guarantees, for any number of processes, jobs and keys, any lease length and *)
(* any circuit threshold; and what the lease protocol adds to them, for any number of       *)
(* workers, clients and crashes: when no worker is late for its lease, a lease excludes,    *)
(* retries stay within the budget, checkpoints go forward, and the queue implements the     *)
(* lifecycle of its docstring.                                                              *)
EXTENDS QueueWorkers, FiniteSetTheorems, TLAPS

-----------------------------------------------------------------------------
(* The queue, called in any way: JobQueue. *)

\* What makes the guarantees inductive: a call in flight carries a time of the past, so a
\* late write can only set an earlier expiry or reset fewer leases; and fail writes to a row
\* that its SELECT has found.
CallsSound ==
    \A p \in Procs :
        /\ call[p].op \in {"enqueue", "lease_next", "renew_lease", "resume_in_progress"} =>
             call[p].now <= clock
        /\ call[p].op = "fail" => Exists(call[p].job)

IndInv ==
    /\ TypeOK
    /\ CallsSound
    /\ LeaseConsistent
    /\ KeysUnique
    /\ DeadLetterArchived
    /\ AttemptCharged

\* A process in a method of the given name carries a record of that method.
LEMMA CallFields ==
    ASSUME TypeOK, NEW p \in Procs
    PROVE  /\ call[p].op = "enqueue" => call[p].now \in Nat /\ call[p].req \in Requests
           /\ call[p].op = "lease_next" => call[p].now \in Nat
           /\ call[p].op = "get" => call[p].job \in JobIds
           /\ call[p].op = "renew_lease" => call[p].now \in Nat /\ call[p].job \in JobIds
           /\ call[p].op = "fail" => call[p].job \in JobIds /\ call[p].dead \in BOOLEAN
           /\ call[p].op = "resume_in_progress" => call[p].now \in Nat
  <1>1. call[p] \in Call
    BY DEF TypeOK
  <1> QED
    BY <1>1 DEF Call, Idle

\* The UPDATE that ends a lease clears lease_expires and keeps the other columns.
LEMMA WithoutLeaseFacts ==
    ASSUME NEW row \in Row, NEW s \in States
    PROVE  LET r == WithoutLease(row, s) IN
           /\ r \in Row /\ r.state = s /\ r.lease_expires = NULL
           /\ r.key = row.key /\ r.type = row.type /\ r.attempt = row.attempt
           /\ r.max_attempts = row.max_attempts /\ r.checkpoint = row.checkpoint
  BY DEF Row, WithoutLease, NULL

\* A renewed lease ends one lease after the time it was renewed at; nothing else changes.
LEMMA RenewedFacts ==
    ASSUME NEW row \in Row, NEW now \in Nat
    PROVE  LET r == Renewed(row, now) IN
           /\ r \in Row /\ r.state = row.state /\ r.lease_expires = now + LeaseSeconds
           /\ r.key = row.key /\ r.type = row.type /\ r.attempt = row.attempt
           /\ r.max_attempts = row.max_attempts /\ r.checkpoint = row.checkpoint
  BY ConstantAssumption DEF Row, Renewed

\* Leasing sets LEASED and the expiry, and counts one more attempt.
LEMMA LeasedFacts ==
    ASSUME NEW row \in Row, NEW now \in Nat
    PROVE  LET r == Leased(row, now) IN
           /\ r \in Row /\ r.state = "LEASED" /\ r.lease_expires = now + LeaseSeconds
           /\ r.key = row.key /\ r.type = row.type /\ r.attempt = row.attempt + 1
           /\ r.max_attempts = row.max_attempts /\ r.checkpoint = row.checkpoint
  <1> DEFINE s == Renewed(row, now)
  <1>1. /\ s \in Row /\ s.lease_expires = now + LeaseSeconds
        /\ s.key = row.key /\ s.type = row.type /\ s.attempt = row.attempt
        /\ s.max_attempts = row.max_attempts /\ s.checkpoint = row.checkpoint
    BY RenewedFacts
  <1>2. s.attempt + 1 \in Nat
    BY <1>1 DEF Row
  <1> HIDE DEF s
  <1>3. [s EXCEPT !.state = "LEASED", !.attempt = s.attempt + 1] \in Row
    BY <1>1, <1>2 DEF Row, States
  <1>4. LET r == [s EXCEPT !.state = "LEASED", !.attempt = s.attempt + 1] IN
        /\ r.state = "LEASED" /\ r.lease_expires = s.lease_expires
        /\ r.key = s.key /\ r.type = s.type /\ r.attempt = s.attempt + 1
        /\ r.max_attempts = s.max_attempts /\ r.checkpoint = s.checkpoint
    BY <1>1, <1>2 DEF Row, States
  <1> QED
    BY <1>1, <1>3, <1>4 DEF Leased, s

\* A checkpoint changes the checkpoint column only.
LEMMA WithCheckpointFacts ==
    ASSUME NEW row \in Row, NEW data \in Nat
    PROVE  LET r == WithCheckpoint(row, data) IN
           /\ r \in Row /\ r.state = row.state /\ r.lease_expires = row.lease_expires
           /\ r.key = row.key /\ r.type = row.type /\ r.attempt = row.attempt
           /\ r.max_attempts = row.max_attempts /\ r.checkpoint = data
  BY DEF Row, WithCheckpoint

\* The row that enqueue inserts.
LEMMA NewRowFacts ==
    ASSUME NEW r \in Requests, NEW now \in Nat
    PROVE  /\ NewRow(r, now) \in Row
           /\ NewRow(r, now).state = "QUEUED" /\ NewRow(r, now).lease_expires = NULL
           /\ NewRow(r, now).key = r.key /\ NewRow(r, now).type \in Types
           /\ NewRow(r, now).attempt = 0 /\ NewRow(r, now).checkpoint = 0
  BY ConstantAssumption DEF Row, States, Terminal, NewRow, NULL

\* Resetting expired leases turns rows into rows, and changes only rows whose lease ended
\* before the given time.
LEMMA ResetExpiredFacts ==
    ASSUME TypeOK, NEW now \in Nat
    PROVE  /\ ResetExpired(now) \in [JobIds -> Row]
           /\ \A j \in JobIds :
                \/ ResetExpired(now)[j] = jobs[j]
                \/ /\ jobs[j].state = "LEASED" /\ jobs[j].lease_expires < now
                   /\ ResetExpired(now)[j] = WithoutLease(jobs[j], "QUEUED")
  <1>1. \A j \in JobIds : jobs[j] \in Row /\ WithoutLease(jobs[j], "QUEUED") \in Row
    BY WithoutLeaseFacts DEF TypeOK, States
  <1> QED
    BY <1>1 DEF ResetExpired, Expired

----------------------------------------------------------------------------
(* Every step changes the table jobs by one INSERT, or each row by at most one UPDATE of *)
(* the code (a lease after the reset of the expired ones counts as one).                 *)

Inserted ==
    \E r \in Requests, now \in 0..clock :
        /\ ~InsertConflicts(r)
        /\ jobs' = [jobs EXCEPT ![r.job_id] = NewRow(r, now)]

RowUpdated(j) ==
    \/ jobs'[j] = jobs[j]
    \/ /\ jobs[j].state = "LEASED" /\ jobs[j].lease_expires < clock
       /\ jobs'[j] = WithoutLease(jobs[j], "QUEUED")
    \/ /\ jobs[j].state = "QUEUED"
       /\ \E now \in 0..clock : jobs'[j] = Leased(jobs[j], now)
    \/ /\ jobs[j].state = "LEASED" /\ jobs[j].lease_expires < clock
       /\ \E now \in 0..clock : jobs'[j] = Leased(WithoutLease(jobs[j], "QUEUED"), now)
    \/ /\ jobs[j].state = "LEASED"
       /\ \E now \in 0..clock : jobs'[j] = Renewed(jobs[j], now)
    \/ \E data \in Checkpoints : jobs'[j] = WithCheckpoint(jobs[j], data)
    \/ /\ jobs[j].state = "LEASED"
       /\ jobs'[j] = WithoutLease(jobs[j], "COMPLETED")
    \/ /\ Exists(j)
       /\ jobs'[j] = WithoutLease(jobs[j], "CANCELLED") \/ jobs'[j] = WithoutLease(jobs[j], "QUEUED")
    \/ /\ Exists(j) /\ dead_letters'[j] > 0
       /\ jobs'[j] = WithoutLease(jobs[j], "DEAD_LETTER")

TableStep ==
    \/ Inserted
    \/ jobs' \in [JobIds -> Row] /\ \A j \in JobIds : RowUpdated(j)

\* The shape of a step, action by action.
LEMMA StepShape ==
    ASSUME TypeOK, CallsSound, [Next]_vars
    PROVE  TableStep
  <1> USE ConstantAssumption
  <1>0. /\ jobs \in [JobIds -> Row] /\ clock \in Nat /\ dead_letters \in [JobIds -> Nat]
    BY DEF TypeOK
  <1>1. ASSUME jobs' = jobs PROVE TableStep
    BY <1>0, <1>1 DEF TableStep, RowUpdated
  <1>2. ASSUME NEW p \in Procs, EnqueueInsert(p) PROVE TableStep
    <2>1. call[p].now \in 0..clock /\ call[p].req \in Requests
      BY <1>0, <1>2, CallFields DEF EnqueueInsert, CallsSound
    <2>2. CASE InsertConflicts(call[p].req)
      BY <1>1, <1>2, <2>2 DEF EnqueueInsert
    <2>3. CASE ~InsertConflicts(call[p].req)
      BY <1>2, <2>1, <2>3 DEF EnqueueInsert, TableStep, Inserted
    <2> QED
      BY <2>2, <2>3
  <1>3. ASSUME NEW p \in Procs, LeaseNextNone(p) \/ ResumeUpdate(p) PROVE TableStep
    <2>1. call[p].now \in Nat /\ call[p].now <= clock
      BY <1>0, <1>3, CallFields DEF LeaseNextNone, ResumeUpdate, CallsSound
    <2>2. jobs' = ResetExpired(call[p].now)
      BY <1>3 DEF LeaseNextNone, ResumeUpdate
    <2>3. \A j \in JobIds : jobs[j].lease_expires \in Int
      BY <1>0 DEF Row, NULL
    <2> QED
      BY <1>0, <2>1, <2>2, <2>3, ResetExpiredFacts DEF TableStep, RowUpdated
  <1>4. ASSUME NEW p \in Procs, LeaseNextJob(p) PROVE TableStep
    <2>1. call[p].now \in Nat /\ call[p].now <= clock
      BY <1>0, <1>4, CallFields DEF LeaseNextJob, CallsSound
    <2> DEFINE now == call[p].now
               table == ResetExpired(now)
    <2>2. PICK j \in JobIds : /\ table[j].state = "QUEUED"
                              /\ jobs' = [table EXCEPT ![j] = Leased(table[j], now)]
      BY <1>4 DEF LeaseNextJob, NextQueued
    <2>3. /\ table \in [JobIds -> Row]
          /\ \A k \in JobIds :
               \/ table[k] = jobs[k]
               \/ /\ jobs[k].state = "LEASED" /\ jobs[k].lease_expires < now
                  /\ table[k] = WithoutLease(jobs[k], "QUEUED")
      BY <2>1, ResetExpiredFacts
    <2>4. \A k \in JobIds : jobs[k].lease_expires \in Int
      BY <1>0 DEF Row, NULL
    <2>5. now \in 0..clock
      BY <1>0, <2>1
    <2> HIDE DEF now, table
    <2>6. jobs' \in [JobIds -> Row]
      BY <2>2, <2>3, <2>5, <1>0, LeasedFacts
    <2>7. RowUpdated(j)
      BY <1>0, <2>2, <2>3, <2>4, <2>5 DEF RowUpdated
    <2>8. ASSUME NEW k \in JobIds, k # j PROVE RowUpdated(k)
      BY <1>0, <2>2, <2>3, <2>4, <2>5, <2>8 DEF RowUpdated
    <2> QED
      BY <2>6, <2>7, <2>8 DEF TableStep
  <1>5. ASSUME NEW p \in Procs, RenewLeaseUpdate(p) PROVE TableStep
    <2>1. call[p].now \in 0..clock /\ call[p].now \in Nat /\ call[p].job \in JobIds
      BY <1>0, <1>5, CallFields DEF RenewLeaseUpdate, CallsSound
    <2>2. CASE jobs[call[p].job].state = "LEASED"
      BY <1>0, <1>5, <2>1, <2>2, RenewedFacts DEF RenewLeaseUpdate, TableStep, RowUpdated
    <2>3. CASE jobs[call[p].job].state # "LEASED"
      BY <1>1, <1>5, <2>3 DEF RenewLeaseUpdate
    <2> QED
      BY <2>2, <2>3
  <1>6. ASSUME NEW p \in Procs, NEW j \in JobIds, NEW d \in Checkpoints, Checkpoint(p, j, d)
        PROVE TableStep
    BY <1>0, <1>6, WithCheckpointFacts DEF Checkpoint, TableStep, RowUpdated
  <1>7. ASSUME NEW p \in Procs, NEW j \in JobIds, Complete(p, j) PROVE TableStep
    BY <1>0, <1>7, WithoutLeaseFacts
    DEF Complete, Completable, TableStep, RowUpdated, States, Terminal
  <1>8. ASSUME NEW p \in Procs, NEW j \in JobIds, Cancel(p, j) PROVE TableStep
    BY <1>0, <1>8, WithoutLeaseFacts
    DEF Cancel, TableStep, RowUpdated, Exists, States, Terminal
  <1>9. ASSUME NEW p \in Procs, FailDeadLetter(p) PROVE TableStep
    <2>1. call[p].job \in JobIds /\ Exists(call[p].job)
      BY <1>9, CallFields DEF FailDeadLetter, CallsSound
    <2>2. dead_letters'[call[p].job] > 0
      BY <1>0, <1>9, <2>1 DEF FailDeadLetter, ArchiveDeadLetter
    <2> QED
      BY <1>0, <1>9, <2>1, <2>2, WithoutLeaseFacts
      DEF FailDeadLetter, TableStep, RowUpdated, States, Terminal
  <1>10. ASSUME NEW p \in Procs, FailRequeue(p) PROVE TableStep
    <2>1. call[p].job \in JobIds /\ Exists(call[p].job)
      BY <1>10, CallFields DEF FailRequeue, CallsSound
    <2> QED
      BY <1>0, <1>10, <2>1, WithoutLeaseFacts
      DEF FailRequeue, TableStep, RowUpdated, States, Terminal
  <1> QED
    BY <1>1, <1>2, <1>3, <1>4, <1>5, <1>6, <1>7, <1>8, <1>9, <1>10
    DEF Next, Finish, vars, EnqueueSelect, LeaseNextNow, LeaseNextGet, RenewLeaseNow,
        FailSelect, ResumeNow, ResetCircuit, DatabaseLocked, Restart, Tick

----------------------------------------------------------------------------
(* The rest of the state: calls in flight, counters, dead letters, clock. *)

\* No step makes a call look into the future or deletes a row a fail is about to update.
LEMMA CallsStep ==
    ASSUME TypeOK, CallsSound, [Next]_vars
    PROVE  /\ dead_letters' \in [JobIds -> Nat] /\ clock' \in Nat /\ clock <= clock'
           /\ circuit' \in [Procs -> [Types -> 0..CircuitThreshold]]
           /\ call' \in [Procs -> Call]
           /\ \A j \in JobIds : dead_letters[j] <= dead_letters'[j]
           /\ \A p \in Procs :
                /\ call'[p].op \in {"enqueue", "lease_next", "renew_lease", "resume_in_progress"}
                     => call'[p].now <= clock'
                /\ call'[p].op = "fail" => call'[p].job \in JobIds /\ Exists(call'[p].job)
  <1> USE ConstantAssumption
  <1> DEFINE Timed == {"enqueue", "lease_next", "renew_lease", "resume_in_progress"}
             Sound(c, t) == /\ c \in Call
                            /\ c.op \in Timed => c.now <= t
                            /\ c.op = "fail" => c.job \in JobIds /\ Exists(c.job)
             Rest == /\ dead_letters' \in [JobIds -> Nat] /\ clock' \in Nat /\ clock <= clock'
                     /\ circuit' \in [Procs -> [Types -> 0..CircuitThreshold]]
                     /\ \A j \in JobIds : dead_letters[j] <= dead_letters'[j]
             Calls == call' \in [Procs -> Call] /\ \A p \in Procs : Sound(call'[p], clock')
  <1> SUFFICES Rest /\ Calls
    OBVIOUS
  <1>1. /\ clock \in Nat /\ dead_letters \in [JobIds -> Nat]
        /\ circuit \in [Procs -> [Types -> 0..CircuitThreshold]]
        /\ call \in [Procs -> Call]
    BY DEF TypeOK
  <1>2. \A p \in Procs : Sound(call[p], clock)
    BY <1>1, CallFields DEF CallsSound
  <1>3. Idle \in Call /\ Sound(Idle, clock)
    BY DEF Call, Idle
  <1>4. ASSUME NEW p \in Procs, NEW c, Sound(c, clock), clock' = clock,
               call' = [call EXCEPT ![p] = c]
        PROVE  Calls
    BY <1>1, <1>2, <1>4
  <1>5. ASSUME call' = call, clock' = clock PROVE Calls
    BY <1>1, <1>2, <1>5
  <1>6. ASSUME UNCHANGED <<dead_letters, circuit, clock>> PROVE Rest
    BY <1>1, <1>6
  <1> HIDE DEF Calls, Rest
  <1>7. ASSUME NEW p \in Procs, NEW r \in Requests, EnqueueSelect(p, r) PROVE Rest /\ Calls
    <2>1. Sound([op |-> "enqueue", now |-> clock, req |-> r], clock)
      BY <1>1 DEF Call
    <2> QED
      BY <1>4, <1>6, <1>7, <2>1 DEF EnqueueSelect, Begin
  <1>8. ASSUME NEW p \in Procs, NEW f \in Filters, LeaseNextNow(p, f) PROVE Rest /\ Calls
    <2>1. Sound([op |-> "lease_next", now |-> clock, filter |-> f], clock)
      BY <1>1 DEF Call
    <2> QED
      BY <1>4, <1>6, <1>8, <2>1 DEF LeaseNextNow, Begin
  <1>9. ASSUME NEW p \in Procs, NEW j \in JobIds, RenewLeaseNow(p, j) PROVE Rest /\ Calls
    <2>1. Sound([op |-> "renew_lease", now |-> clock, job |-> j], clock)
      BY <1>1 DEF Call
    <2> QED
      BY <1>4, <1>6, <1>9, <2>1 DEF RenewLeaseNow, Begin
  <1>10. ASSUME NEW p \in Procs, ResumeNow(p) PROVE Rest /\ Calls
    <2>1. Sound([op |-> "resume_in_progress", now |-> clock], clock)
      BY <1>1 DEF Call
    <2> QED
      BY <1>4, <1>6, <1>10, <2>1 DEF ResumeNow, Begin
  <1>11. ASSUME NEW p \in Procs, NEW j \in JobIds, FailSelect(p, j) PROVE Rest /\ Calls
    <2> DEFINE t == jobs[j].type
               n == OneMoreFailure(circuit[p][t])
    <2>1. t \in Types
      BY <1>11 DEF FailSelect, TypeOK
    <2>2. n \in 0..CircuitThreshold
      BY <1>1, <2>1 DEF OneMoreFailure
    <2>3. circuit' = [circuit EXCEPT ![p][t] = n] /\ UNCHANGED <<dead_letters, clock>>
      BY <1>11 DEF FailSelect
    <2> HIDE DEF t, n
    <2>4. Rest
      BY <1>1, <2>1, <2>2, <2>3 DEF Rest
    <2>5. PICK d \in BOOLEAN : call' = [call EXCEPT ![p] = [op |-> "fail", job |-> j, dead |-> d]]
      BY <1>11 DEF FailSelect, Begin, IsCircuitOpen, OutOfAttempts
    <2>6. Sound([op |-> "fail", job |-> j, dead |-> d], clock)
      BY <1>11 DEF FailSelect, Call
    <2> QED
      BY <1>4, <2>3, <2>4, <2>5, <2>6
  <1>12. ASSUME NEW p \in Procs, NEW j \in JobIds, Complete(p, j) PROVE Rest /\ Calls
    <2>1. jobs[j].type \in Types
      BY <1>12 DEF Complete, Completable, TypeOK, Exists
    <2>2. Rest
      BY <1>1, <1>12, <2>1 DEF Complete, Rest
    <2> QED
      BY <1>5, <1>12, <2>2 DEF Complete
  <1>13. ASSUME NEW p \in Procs, LeaseNextJob(p) PROVE Rest /\ Calls
    <2>1. PICK j \in JobIds : call' = [call EXCEPT ![p] = [op |-> "get", job |-> j]]
      BY <1>13 DEF LeaseNextJob, NextQueued
    <2>2. Sound([op |-> "get", job |-> j], clock)
      BY DEF Call
    <2> QED
      BY <1>4, <1>6, <1>13, <2>1, <2>2 DEF LeaseNextJob
  <1>14. ASSUME NEW p \in Procs, FailDeadLetter(p) PROVE Rest /\ Calls
    <2>1. call[p].job \in JobIds
      BY <1>14, CallFields DEF FailDeadLetter
    <2>2. Rest
      BY <1>1, <1>14, <2>1 DEF FailDeadLetter, ArchiveDeadLetter, Rest
    <2> QED
      BY <1>3, <1>4, <1>14, <2>2 DEF FailDeadLetter, Return
  <1>15. ASSUME NEW p \in Procs, NEW t \in Types, ResetCircuit(p, t) PROVE Rest /\ Calls
    <2>1. Rest
      BY <1>1, <1>15 DEF ResetCircuit, Rest
    <2> QED
      BY <1>5, <1>15, <2>1 DEF ResetCircuit
  <1>16. ASSUME NEW p \in Procs, Restart(p) PROVE Rest /\ Calls
    <2>1. Rest
      BY <1>1, <1>16 DEF Restart, Rest
    <2> QED
      BY <1>3, <1>4, <1>16, <2>1 DEF Restart, Return
  <1>17. CASE Tick
    <2>1. Rest
      BY <1>1, <1>17 DEF Tick, Rest
    <2>2. \A p \in Procs : call[p].op \in Timed => call[p].now \in Nat
      BY CallFields
    <2> QED
      BY <1>1, <1>2, <1>17, <2>1, <2>2 DEF Tick, Calls
  <1>18. ASSUME NEW p \in Procs,
                \/ EnqueueInsert(p) \/ LeaseNextNone(p) \/ LeaseNextGet(p)
                \/ RenewLeaseUpdate(p) \/ FailRequeue(p) \/ ResumeUpdate(p) \/ DatabaseLocked(p)
         PROVE Rest /\ Calls
    BY <1>3, <1>4, <1>6, <1>18
    DEF EnqueueInsert, LeaseNextNone, LeaseNextGet, RenewLeaseUpdate, FailRequeue, ResumeUpdate,
        DatabaseLocked, Return
  <1>19. ASSUME NEW p \in Procs, NEW j \in JobIds,
                Cancel(p, j) \/ \E d \in Checkpoints : Checkpoint(p, j, d)
         PROVE Rest /\ Calls
    BY <1>5, <1>6, <1>19 DEF Cancel, Checkpoint
  <1>20. CASE UNCHANGED vars
    BY <1>5, <1>6, <1>20 DEF vars
  <1> QED
    BY <1>7, <1>8, <1>9, <1>10, <1>11, <1>12, <1>13, <1>14, <1>15, <1>16, <1>17, <1>18, <1>19, <1>20
    DEF Next, Finish

----------------------------------------------------------------------------
(* Each guarantee is preserved by every shape of step. *)

\* TypeOK and CallsSound: rows stay rows, and a row once inserted stays.
LEMMA TypeStep ==
    ASSUME TypeOK, CallsSound, [Next]_vars
    PROVE  TypeOK' /\ CallsSound'
  <1>1. TableStep
    BY StepShape
  <1>2. /\ jobs \in [JobIds -> Row] /\ clock \in Nat
        /\ \A j \in JobIds : jobs[j] \in Row /\ (Exists(j) => jobs[j].type \in Types)
    BY DEF TypeOK
  <1>3. /\ jobs' \in [JobIds -> Row]
        /\ \A j \in JobIds : /\ Exists(j)' => jobs'[j].type \in Types
                             /\ Exists(j) => Exists(j)'
    <2>1. CASE Inserted
      <3>1. PICK r \in Requests, now \in 0..clock :
              ~InsertConflicts(r) /\ jobs' = [jobs EXCEPT ![r.job_id] = NewRow(r, now)]
        BY <2>1 DEF Inserted
      <3>2. now \in Nat
        BY <1>2
      <3> QED
        BY <1>2, <3>1, <3>2, NewRowFacts DEF Exists, InsertConflicts
    <2>2. ASSUME NEW j \in JobIds, RowUpdated(j), jobs' \in [JobIds -> Row]
          PROVE  (Exists(j)' => jobs'[j].type \in Types) /\ (Exists(j) => Exists(j)')
      <3>1. \A now \in 0..clock : now \in Nat
        BY <1>2
      <3>2. Checkpoints \subseteq Nat
        BY ConstantAssumption
      <3>3. /\ \A now \in Nat : /\ Renewed(jobs[j], now).state = jobs[j].state
                                /\ Renewed(jobs[j], now).type = jobs[j].type
            /\ \A d \in Nat : /\ WithCheckpoint(jobs[j], d).state = jobs[j].state
                              /\ WithCheckpoint(jobs[j], d).type = jobs[j].type
        BY <1>2, RenewedFacts, WithCheckpointFacts
      <3>4. \A s \in States : /\ WithoutLease(jobs[j], s).state = s
                              /\ WithoutLease(jobs[j], s).type = jobs[j].type
                              /\ WithoutLease(jobs[j], s) \in Row
        BY <1>2, WithoutLeaseFacts
      <3>5. \A row \in Row, now \in Nat : Leased(row, now).state = "LEASED"
                                          /\ Leased(row, now).type = row.type
        BY LeasedFacts
      <3> QED
        BY <1>2, <2>2, <3>1, <3>2, <3>3, <3>4, <3>5
        DEF RowUpdated, Exists, States, Terminal
    <2> QED
      BY <1>1, <2>1, <2>2 DEF TableStep
  <1> QED
    BY <1>3, CallsStep DEF TypeOK, CallsSound

\* LeaseConsistent: every UPDATE that sets LEASED sets an expiry, from a time of the past, and
\* every other one clears it.
LEMMA LeaseStep ==
    ASSUME TypeOK, CallsSound, LeaseConsistent, [Next]_vars
    PROVE  LeaseConsistent'
  <1> USE ConstantAssumption
  <1>1. TableStep /\ clock' \in Nat /\ clock <= clock'
    BY StepShape, CallsStep
  <1>2. clock \in Nat /\ \A j \in JobIds : jobs[j] \in Row /\ jobs[j].lease_expires \in Int
    BY DEF TypeOK, Row, NULL
  <1>3. \A j \in JobIds : /\ jobs[j].state = "LEASED" <=> jobs[j].lease_expires # NULL
                          /\ jobs[j].lease_expires <= clock + LeaseSeconds
    BY DEF LeaseConsistent
  <1> DEFINE Good(row) == /\ row.state = "LEASED" <=> row.lease_expires # NULL
                          /\ row.lease_expires <= clock' + LeaseSeconds
  <1>4. \A j \in JobIds : Good(jobs[j])
    BY <1>1, <1>2, <1>3
  <1>5. ASSUME NEW row \in Row, NEW s \in States, s # "LEASED" PROVE Good(WithoutLease(row, s))
    BY <1>1, <1>5, WithoutLeaseFacts DEF NULL
  <1>6. ASSUME NEW row \in Row, NEW now \in 0..clock
        PROVE  Good(Leased(row, now)) /\ (row.state = "LEASED" => Good(Renewed(row, now)))
    <2>1. now \in Nat /\ now + LeaseSeconds <= clock' + LeaseSeconds /\ now + LeaseSeconds # NULL
      <3>1. now \in Nat /\ clock' \in Nat /\ LeaseSeconds \in Nat /\ now <= clock'
        BY <1>1, <1>2
      <3>2. \A n, m, k \in Nat : n <= m => n + k <= m + k /\ n + k # NULL
        BY DEF NULL
      <3> QED
        BY <3>1, <3>2
    <2>2. Leased(row, now).state = "LEASED" /\ Leased(row, now).lease_expires = now + LeaseSeconds
      BY <2>1, LeasedFacts
    <2>3. /\ Renewed(row, now).state = row.state
          /\ Renewed(row, now).lease_expires = now + LeaseSeconds
      BY <2>1, RenewedFacts
    <2> QED
      BY <2>1, <2>2, <2>3
  <1>7. ASSUME NEW row \in Row, NEW data \in Checkpoints, Good(row)
        PROVE  Good(WithCheckpoint(row, data))
    BY <1>7, WithCheckpointFacts
  <1>8. \A r \in Requests, now \in 0..clock : Good(NewRow(r, now))
    BY <1>1, <1>2, NewRowFacts DEF NULL
  <1> HIDE DEF Good
  <1>9. CASE Inserted
    <2>1. \A j \in JobIds : Good(jobs'[j])
      BY <1>4, <1>8, <1>9 DEF Inserted, TypeOK
    <2> QED
      BY <2>1 DEF Good, LeaseConsistent
  <1>10. ASSUME NEW j \in JobIds, RowUpdated(j) PROVE Good(jobs'[j])
    <2>1. \A s \in States : WithoutLease(jobs[j], s) \in Row
      BY <1>2, WithoutLeaseFacts
    <2> QED
      BY <1>2, <1>4, <1>5, <1>6, <1>7, <1>10, <2>1 DEF RowUpdated, States, Terminal
  <1> QED
    BY <1>1, <1>9, <1>10 DEF TableStep, Good, LeaseConsistent

\* KeysUnique: only an INSERT brings in a key, and it fails on a key that is present.
LEMMA KeysStep ==
    ASSUME TypeOK, CallsSound, KeysUnique, [Next]_vars
    PROVE  KeysUnique'
  <1>1. TableStep
    BY StepShape
  <1>2. /\ jobs \in [JobIds -> Row] /\ clock \in Nat
        /\ \A j \in JobIds : jobs[j] \in Row
    BY DEF TypeOK
  <1>3. CASE Inserted
    <2>1. PICK r \in Requests, now \in 0..clock :
            ~InsertConflicts(r) /\ jobs' = [jobs EXCEPT ![r.job_id] = NewRow(r, now)]
      BY <1>3 DEF Inserted
    <2>2. NewRow(r, now).key = r.key /\ r.job_id \in JobIds
      BY <1>2, NewRowFacts, ConstantAssumption
    <2>3. \A j \in JobIds : j # r.job_id =>
            jobs'[j] = jobs[j] /\ (Exists(j) /\ r.key # NoKey => jobs[j].key # r.key)
      BY <1>2, <2>1, <2>2 DEF InsertConflicts, KeyTaken
    <2>4. jobs'[r.job_id].key = r.key
      BY <1>2, <2>1, <2>2
    <2> QED
      BY <2>2, <2>3, <2>4 DEF KeysUnique, Exists
  <1>4. ASSUME NEW j \in JobIds, RowUpdated(j)
        PROVE  jobs'[j].key = jobs[j].key /\ (Exists(j)' => Exists(j))
    <2>1. \A now \in 0..clock : now \in Nat
      BY <1>2
    <2>2. Checkpoints \subseteq Nat
      BY ConstantAssumption
    <2>3. \A s \in States : /\ WithoutLease(jobs[j], s).key = jobs[j].key
                            /\ WithoutLease(jobs[j], s) \in Row
      BY <1>2, WithoutLeaseFacts
    <2>4. \A row \in Row, now \in Nat : Leased(row, now).key = row.key
      BY LeasedFacts
    <2>5. /\ \A now \in Nat : Renewed(jobs[j], now).key = jobs[j].key
          /\ \A d \in Nat : /\ WithCheckpoint(jobs[j], d).key = jobs[j].key
                            /\ WithCheckpoint(jobs[j], d).state = jobs[j].state
      BY <1>2, RenewedFacts, WithCheckpointFacts
    <2> QED
      BY <1>2, <1>4, <2>1, <2>2, <2>3, <2>4, <2>5 DEF RowUpdated, Exists, States, Terminal
  <1> QED
    BY <1>1, <1>3, <1>4 DEF TableStep, KeysUnique

\* What an update makes of the state and the attempts of a row.
LEMMA RowOutcome ==
    ASSUME NEW j \in JobIds, jobs[j] \in Row, clock \in Nat, RowUpdated(j)
    PROVE  \/ jobs'[j].state = jobs[j].state /\ jobs'[j].attempt = jobs[j].attempt
           \/ jobs'[j].state = "LEASED" /\ jobs'[j].attempt = jobs[j].attempt + 1
           \/ jobs[j].state = "LEASED" /\ jobs'[j].state = "COMPLETED" /\ jobs'[j].attempt = jobs[j].attempt
           \/ jobs'[j].state \in {"QUEUED", "CANCELLED"}
           \/ jobs'[j].state = "DEAD_LETTER" /\ dead_letters'[j] > 0
  <1>1. \A s \in States : /\ WithoutLease(jobs[j], s).state = s /\ WithoutLease(jobs[j], s) \in Row
                          /\ WithoutLease(jobs[j], s).attempt = jobs[j].attempt
    BY WithoutLeaseFacts
  <1>2. "QUEUED" \in States /\ "COMPLETED" \in States /\ "CANCELLED" \in States /\ "DEAD_LETTER" \in States
    BY DEF States, Terminal
  <1>3. CASE \/ jobs'[j] = jobs[j]
             \/ jobs'[j] = WithoutLease(jobs[j], "QUEUED") \/ jobs'[j] = WithoutLease(jobs[j], "CANCELLED")
             \/ jobs[j].state = "LEASED" /\ jobs'[j] = WithoutLease(jobs[j], "COMPLETED")
             \/ dead_letters'[j] > 0 /\ jobs'[j] = WithoutLease(jobs[j], "DEAD_LETTER")
    BY <1>1, <1>2, <1>3
  <1>4. ASSUME NEW now \in 0..clock, NEW row \in Row, row.attempt = jobs[j].attempt, jobs'[j] = Leased(row, now)
        PROVE  jobs'[j].state = "LEASED" /\ jobs'[j].attempt = jobs[j].attempt + 1
    BY <1>4, LeasedFacts
  <1>5. ASSUME NEW now \in 0..clock, jobs'[j] = Renewed(jobs[j], now)
        PROVE  jobs'[j].state = jobs[j].state /\ jobs'[j].attempt = jobs[j].attempt
    BY <1>5, RenewedFacts
  <1>6. ASSUME NEW data \in Checkpoints, jobs'[j] = WithCheckpoint(jobs[j], data)
        PROVE  jobs'[j].state = jobs[j].state /\ jobs'[j].attempt = jobs[j].attempt
    BY <1>6, ConstantAssumption, WithCheckpointFacts
  <1> QED
    BY <1>1, <1>2, <1>3, <1>4, <1>5, <1>6 DEF RowUpdated

\* DeadLetterArchived: the UPDATE to DEAD_LETTER and the INSERT are one transaction, and
\* dead_letters never loses a row.
LEMMA DeadLetterStep ==
    ASSUME TypeOK, CallsSound, DeadLetterArchived, [Next]_vars
    PROVE  DeadLetterArchived'
  <1>1. /\ TableStep
        /\ \A j \in JobIds : /\ dead_letters[j] \in Nat /\ dead_letters'[j] \in Nat
                             /\ dead_letters[j] <= dead_letters'[j]
    BY StepShape, CallsStep DEF TypeOK
  <1>2. /\ jobs \in [JobIds -> Row] /\ clock \in Nat
        /\ \A j \in JobIds : jobs[j] \in Row
    BY DEF TypeOK
  <1>3. CASE Inserted
    BY <1>1, <1>2, <1>3, NewRowFacts DEF Inserted, DeadLetterArchived
  <1>4. ASSUME NEW j \in JobIds, RowUpdated(j), jobs'[j].state = "DEAD_LETTER"
        PROVE  jobs[j].state = "DEAD_LETTER" \/ dead_letters'[j] > 0
    <2> QED
      BY <1>2, <1>4, RowOutcome
  <1> QED
    BY <1>1, <1>3, <1>4 DEF TableStep, DeadLetterArchived

\* AttemptCharged: lease_next alone enters LEASED, and only a LEASED job completes.
LEMMA AttemptStep ==
    ASSUME TypeOK, CallsSound, AttemptCharged, [Next]_vars
    PROVE  AttemptCharged'
  <1>1. TableStep
    BY StepShape
  <1>2. /\ jobs \in [JobIds -> Row] /\ clock \in Nat
        /\ \A j \in JobIds : jobs[j] \in Row /\ jobs[j].attempt \in Nat
    BY DEF TypeOK, Row
  <1>3. CASE Inserted
    BY <1>1, <1>2, <1>3, NewRowFacts DEF Inserted, AttemptCharged
  <1>4. ASSUME NEW j \in JobIds, RowUpdated(j), jobs'[j].state \in {"LEASED", "COMPLETED"}
        PROVE  jobs'[j].attempt > 0
    <2> QED
      BY <1>2, <1>4, RowOutcome DEF AttemptCharged
  <1> QED
    BY <1>1, <1>3, <1>4 DEF TableStep, AttemptCharged

----------------------------------------------------------------------------
\* An empty queue satisfies the inductive invariant.
LEMMA QueueInit ==
    ASSUME Init PROVE IndInv
  <1> USE ConstantAssumption
  <1>1. NoRow \in Row
    BY DEF NoRow, Row
  <1>2. \A j \in JobIds : jobs[j] = NoRow /\ jobs[j].state = "ABSENT" /\ jobs[j].lease_expires = NULL
    BY DEF Init, NoRow
  <1>3. TypeOK
    BY <1>1, <1>2 DEF Init, TypeOK, Exists, Call, Idle
  <1>4. CallsSound
    BY DEF Init, CallsSound, Idle
  <1> QED
    BY <1>2, <1>3, <1>4
    DEF Init, IndInv, LeaseConsistent, KeysUnique, DeadLetterArchived, AttemptCharged, Exists, NULL

\* The inductive invariant holds in every state of the queue, whatever its callers do.
THEOREM QueueInvariant == Spec => []IndInv
  <1>1. Init => IndInv
    BY QueueInit
  <1>2. IndInv /\ [Next]_vars => IndInv'
    BY TypeStep, LeaseStep, KeysStep, DeadLetterStep, AttemptStep DEF IndInv
  <1> QED
    BY <1>1, <1>2, PTL DEF Spec

\* Type correctness of the queue.
THEOREM QueueTypeOK == Spec => []TypeOK
  BY QueueInvariant, PTL DEF IndInv

\* The tables agree: exactly the leased jobs carry an expiry, at most one lease ahead of the clock; no
\* idempotency key is there twice; a job in DEAD_LETTER has its row in dead_letters; a job that is leased
\* or completed was charged an attempt.
THEOREM QueueTableConsistent == Spec => []TableConsistent
  BY QueueInvariant, PTL DEF IndInv, TableConsistent

\* lease_next never hands out a job under a live lease or in a terminal state.
THEOREM QueueLiveLeaseNotHandedOut == Spec => LiveLeaseNotHandedOut
  <1> DEFINE HandedOut == \A j \in JobIds :
                 Exists(j) /\ jobs'[j].attempt # jobs[j].attempt =>
                     \/ jobs[j].state = "QUEUED"
                     \/ jobs[j].state = "LEASED" /\ jobs[j].lease_expires < clock
  <1>1. ASSUME TypeOK, CallsSound, [Next]_vars PROVE HandedOut
    <2>1. TableStep
      BY <1>1, StepShape
    <2>2. /\ jobs \in [JobIds -> Row] /\ clock \in Nat
          /\ \A j \in JobIds : jobs[j] \in Row
      BY <1>1 DEF TypeOK
    <2>3. ASSUME NEW j \in JobIds, RowUpdated(j), jobs'[j].attempt # jobs[j].attempt
          PROVE  \/ jobs[j].state = "QUEUED"
                 \/ jobs[j].state = "LEASED" /\ jobs[j].lease_expires < clock
      <3>1. \A now \in 0..clock : now \in Nat
        BY <2>2
      <3>2. Checkpoints \subseteq Nat
        BY ConstantAssumption
      <3>3. \A s \in States : WithoutLease(jobs[j], s).attempt = jobs[j].attempt
        BY <2>2, WithoutLeaseFacts
      <3>4. /\ \A now \in Nat : Renewed(jobs[j], now).attempt = jobs[j].attempt
            /\ \A d \in Nat : WithCheckpoint(jobs[j], d).attempt = jobs[j].attempt
        BY <2>2, RenewedFacts, WithCheckpointFacts
      <3> QED
        BY <2>3, <3>1, <3>2, <3>3, <3>4 DEF RowUpdated, States, Terminal
    <2>4. CASE Inserted
      BY <2>2, <2>4 DEF Inserted, InsertConflicts
    <2> QED
      BY <2>1, <2>3, <2>4 DEF TableStep
  <1>2. IndInv /\ [Next]_vars => [HandedOut]_vars
    BY <1>1 DEF IndInv
  <1> QED
    BY <1>2, QueueInvariant, PTL DEF Spec, LiveLeaseNotHandedOut

-----------------------------------------------------------------------------
(* The queue with clients and workers: QueueWorkers. *)

Held == [job : JobIds, attempt : Nat, until : Nat \cup {NULL}]

WorkersTypeOK ==
    /\ started \subseteq Workers
    /\ held \in [Workers -> {Nothing} \cup Held]
    /\ crashes \in Nat

\* Which method a process is in, given what it knows of the job it works on; no call outlasts
\* the lease it asks for.
Protocol ==
    /\ \A c \in Clients : call[c].op \in {"idle", "enqueue"}
    /\ \A w \in Workers :
         /\ call[w].op \in {"idle", "resume_in_progress", "lease_next", "get", "renew_lease", "fail"}
         /\ call[w].op \in {"resume_in_progress", "lease_next", "get"} => held[w] = Nothing
         /\ call[w].op \in {"renew_lease", "fail"} =>
              held[w] # Nothing /\ call[w].job = held[w].job
         /\ call[w].op \in {"lease_next", "get"} \/ held[w] # Nothing => w \in started
         /\ call[w].op \in {"lease_next", "renew_lease"} => clock <= call[w].now + LeaseSeconds

Free(j) == \A w \in Workers : ~Engaged(w, j)

OneOwner ==
    \A j \in JobIds : \A w, v \in Workers : Engaged(w, j) /\ Engaged(v, j) => w = v

\* A job with a worker is under a lease that covers the present, or the operator has
\* cancelled it behind the worker's back.
OwnedLive ==
    \A j \in JobIds :
        \/ Free(j)
        \/ jobs[j].state = "LEASED" /\ jobs[j].lease_expires >= clock
        \/ jobs[j].state = "CANCELLED" /\ CancelHeld

\* What a worker knows of the job it works on is what the table says.
HeldCurrent ==
    \A w \in Workers, j \in JobIds : Holds(w, j) =>
        /\ held[w].attempt = jobs[j].attempt
        /\ jobs[j].state = "LEASED" => held[w].until = jobs[j].lease_expires

\* An attempt is left whenever a job can be leased, and whenever fail is about to requeue it.
AttemptLeft ==
    \A j \in JobIds :
        \/ jobs[j].attempt < Budget(j) + crashes
        \/ /\ jobs[j].state # "QUEUED"
           /\ jobs[j].state # "LEASED" \/ ~Free(j)
           /\ \A w \in Workers :
                call[w].op = "fail" /\ call[w].job = j => call[w].dead

CheckpointOfAttempt == \A j \in JobIds : jobs[j].checkpoint <= jobs[j].attempt

WorkersInv ==
    /\ IndInv
    /\ WorkersTypeOK
    /\ Protocol
    /\ OneOwner
    /\ OwnedLive
    /\ HeldCurrent
    /\ AttemptLeft
    /\ RetryBudget
    /\ CheckpointOfAttempt

----------------------------------------------------------------------------
(* Facts about one state. *)

\* A worker that works on something works on a job; Nothing is not a job.
LEMMA HeldFields ==
    ASSUME WorkersTypeOK, NEW w \in Workers
    PROVE  /\ held[w] # Nothing => held[w] \in Held /\ held[w].job \in JobIds
           /\ held[w] = Nothing => \A j \in JobIds : ~Holds(w, j)
  <1>1. held[w] \in {Nothing} \cup Held
    BY DEF WorkersTypeOK
  <1>2. Nothing.job \notin JobIds
    BY WorkersAssumption DEF Nothing
  <1> QED
    BY <1>1, <1>2 DEF Held, Holds

\* Idle is not a call in flight.
LEMMA IdleOp == Idle.op = "idle"
  BY DEF Idle

\* A job somebody works on is leased or cancelled, so it is in the table.
LEMMA OwnedJob ==
    ASSUME OwnedLive, NEW w \in Workers, NEW j \in JobIds, Engaged(w, j)
    PROVE  /\ ~Free(j)
           /\ \/ jobs[j].state = "LEASED" /\ jobs[j].lease_expires >= clock
              \/ jobs[j].state = "CANCELLED" /\ CancelHeld
  BY DEF OwnedLive, Free

\* A reset under a time of the past takes no lease from a worker.
LEMMA ResetOnlyFree ==
    ASSUME IndInv, OwnedLive, NEW now \in Nat, now <= clock, NEW j \in JobIds
    PROVE  \/ ResetExpired(now)[j] = jobs[j]
           \/ /\ jobs[j].state = "LEASED" /\ Free(j)
              /\ ResetExpired(now)[j] = WithoutLease(jobs[j], "QUEUED")
  <1>1. /\ TypeOK /\ clock \in Nat /\ jobs[j].lease_expires \in Int
    BY DEF IndInv, TypeOK, Row, NULL
  <1> QED
    BY <1>1, ResetExpiredFacts DEF OwnedLive

----------------------------------------------------------------------------
(* What a step does to one job: its row and the workers on it together. *)

SameOwners(j) == \A w \in Workers : Engaged(w, j)' <=> Engaged(w, j)

SameCounts(j) ==
    /\ jobs'[j].attempt = jobs[j].attempt
    /\ jobs'[j].max_attempts = jobs[j].max_attempts
    /\ jobs'[j].checkpoint = jobs[j].checkpoint

Kept(j) == jobs'[j] = jobs[j] /\ SameOwners(j)

Created(j) ==
    /\ ~Exists(j) /\ Free(j) /\ Free(j)'
    /\ jobs'[j].state = "QUEUED" /\ jobs'[j].attempt = 0 /\ jobs'[j].checkpoint = 0

LeaseLost(j) ==
    /\ jobs[j].state = "LEASED" /\ Free(j) /\ Free(j)'
    /\ jobs'[j].state = "QUEUED" /\ SameCounts(j)

HandedOut(j) ==
    /\ jobs[j].state \in {"QUEUED", "LEASED"} /\ Free(j)
    /\ \E w \in Workers : \A v \in Workers : Engaged(v, j)' <=> v = w
    /\ jobs'[j].state = "LEASED" /\ jobs'[j].lease_expires >= clock
    /\ jobs'[j].attempt = jobs[j].attempt + 1
    /\ jobs'[j].max_attempts = jobs[j].max_attempts
    /\ jobs'[j].checkpoint = jobs[j].checkpoint

LeaseRenewed(j) ==
    /\ jobs[j].state = "LEASED" /\ SameOwners(j)
    /\ \E w \in Workers : Holds(w, j) /\ held'[w].until = jobs'[j].lease_expires
    /\ jobs'[j].state = "LEASED" /\ jobs'[j].lease_expires >= clock /\ SameCounts(j)

Saved(j) ==
    /\ jobs[j].state = "LEASED" /\ SameOwners(j)
    /\ jobs'[j].state = "LEASED" /\ jobs'[j].lease_expires = jobs[j].lease_expires
    /\ jobs'[j].attempt = jobs[j].attempt /\ jobs'[j].max_attempts = jobs[j].max_attempts
    /\ jobs'[j].checkpoint = jobs[j].attempt

Ended(j) ==
    /\ ~Free(j) /\ Free(j)'
    /\ jobs'[j].state \in {"COMPLETED", "DEAD_LETTER", "QUEUED"} /\ SameCounts(j)
    /\ jobs'[j].state = "QUEUED" => jobs[j].attempt < Budget(j) + crashes

LetGo(j) ==
    /\ ~Free(j) /\ Free(j)'
    /\ jobs'[j] = jobs[j]
    /\ jobs[j].state = "CANCELLED" \/ crashes' > crashes

OperatorEnded(j) ==
    /\ jobs[j].state \in {"QUEUED", "LEASED"}
    /\ Free(j) \/ CancelHeld
    /\ SameOwners(j)
    /\ jobs'[j].state = "CANCELLED" /\ SameCounts(j)

JobStep(j) ==
    \/ Kept(j) \/ Created(j) \/ LeaseLost(j) \/ HandedOut(j) \/ LeaseRenewed(j) \/ Saved(j)
    \/ Ended(j) \/ LetGo(j) \/ OperatorEnded(j)

\* A process that goes from one call to another changes no owner, unless one of them is the
\* get() in lease_next.
LEMMA CallOnly ==
    ASSUME TypeOK, NEW p \in Procs, NEW c,
           call' = [call EXCEPT ![p] = c] \/ call' = call,
           c.op # "get", call[p].op # "get", held' = held
    PROVE  \A j \in JobIds : SameOwners(j)
  <1>1. \A w \in Workers : w \in Procs
    BY WorkersAssumption
  <1>2. call \in [Procs -> Call]
    BY DEF TypeOK
  <1>3. ASSUME NEW w \in Workers PROVE call'[w] = call[w] \/ (w = p /\ call'[w] = c)
    BY <1>1, <1>2
  <1> QED
    BY <1>3 DEF SameOwners, Engaged, Holds

\* A worker that lets go of its job leaves it free and every other job as it was.
LEMMA HoldNothing ==
    ASSUME TypeOK, WorkersTypeOK, OneOwner, NEW w \in Workers, NEW j \in JobIds, Engaged(w, j),
           call' = [call EXCEPT ![w] = Idle] \/ (call' = call /\ call[w].op # "get"),
           call[w].op = "get" => held[w] = Nothing, Hold(w, Nothing)
    PROVE  /\ ~Free(j) /\ Free(j)'
           /\ \A k \in JobIds : k # j => SameOwners(k)
  <1>1. w \in Procs /\ \A v \in Workers : v \in Procs
    BY WorkersAssumption
  <1>2. Nothing.job \notin JobIds
    BY WorkersAssumption DEF Nothing
  <1>3. held'[w] = Nothing /\ call'[w].op # "get"
    BY <1>1, IdleOp DEF Hold, WorkersTypeOK, TypeOK
  <1>4. \A v \in Workers : v # w => held'[v] = held[v] /\ call'[v] = call[v]
    BY <1>1 DEF Hold, WorkersTypeOK, TypeOK
  <1>5. \A k \in JobIds : ~Engaged(w, k)' /\ (Engaged(w, k) => k = j)
    BY <1>2, <1>3 DEF Engaged, Holds
  <1>6. \A v \in Workers, k \in JobIds : v # w => (Engaged(v, k)' <=> Engaged(v, k))
    BY <1>4 DEF Engaged, Holds
  <1>7. Free(j)'
    BY <1>5, <1>6 DEF Free, OneOwner
  <1>8. ASSUME NEW k \in JobIds, k # j PROVE SameOwners(k)
    BY <1>5, <1>6, <1>8 DEF SameOwners
  <1> QED
    BY <1>7, <1>8 DEF Free

\* Every step that resets the expired leases and does nothing else to the table.
LEMMA ResetSteps ==
    ASSUME IndInv, OwnedLive, NEW p \in Procs,
           call[p].op \in {"lease_next", "resume_in_progress"},
           jobs' = ResetExpired(call[p].now), \A j \in JobIds : SameOwners(j)
    PROVE  \A j \in JobIds : JobStep(j)
  <1> SUFFICES ASSUME NEW j \in JobIds PROVE JobStep(j)
    OBVIOUS
  <1>1. call[p].now \in Nat /\ call[p].now <= clock
    BY CallFields DEF IndInv, CallsSound
  <1>2. jobs[j] \in Row
    BY DEF IndInv, TypeOK
  <1>3. CASE jobs'[j] = jobs[j]
    BY <1>3 DEF JobStep, Kept
  <1>4. CASE jobs[j].state = "LEASED" /\ Free(j) /\ jobs'[j] = WithoutLease(jobs[j], "QUEUED")
    <2>1. Free(j)'
      BY <1>4 DEF SameOwners, Free
    <2> QED
      BY <1>2, <1>4, <2>1, WithoutLeaseFacts DEF JobStep, LeaseLost, SameCounts, States
  <1> QED
    BY <1>1, <1>3, <1>4, ResetOnlyFree

\* The clients' steps: enqueue creates a job nobody works on, cancel ends one.
LEMMA ClientJobSteps ==
    ASSUME WorkersInv, NEW c \in Clients,
           Submit(c) \/ SubmitDone(c) \/ OperatorCancel(c) \/ Locked(c)
    PROVE  \A j \in JobIds : JobStep(j)
  <1>0. /\ TypeOK /\ c \in Procs /\ jobs \in [JobIds -> Row]
    BY DEF WorkersInv, IndInv, TypeOK, Clients
  <1>1. call[c].op # "get"
    BY DEF WorkersInv, Protocol
  <1>2. \A j \in JobIds : SameOwners(j)
    <2>1. held' = held
      BY DEF Submit, SubmitDone, OperatorCancel, Locked, workerVars
    <2>2. PICK d : d.op # "get" /\ (call' = [call EXCEPT ![c] = d] \/ call' = call)
      BY IdleOp
      DEF Submit, SubmitDone, OperatorCancel, Locked, EnqueueSelect, EnqueueInsert, Begin, Return,
          Cancel, DatabaseLocked
    <2> QED
      BY <1>0, <1>1, <2>1, <2>2, CallOnly
  <1>3. CASE jobs' = jobs
    BY <1>2, <1>3 DEF JobStep, Kept
  <1>4. CASE SubmitDone(c)
    <2>1. call[c].req \in Requests /\ call[c].now \in Nat
      BY <1>0, <1>4, CallFields DEF SubmitDone, EnqueueInsert
    <2> DEFINE r == call[c].req
               row == NewRow(r, call[c].now)
    <2>2. r.job_id \in JobIds /\ row.state = "QUEUED" /\ row.attempt = 0 /\ row.checkpoint = 0
      BY <2>1, NewRowFacts, ConstantAssumption
    <2>3. CASE ~InsertConflicts(r)
      <3>1. jobs' = [jobs EXCEPT ![r.job_id] = row]
        BY <1>4, <2>3 DEF SubmitDone, EnqueueInsert
      <3>2. ~Exists(r.job_id)
        BY <2>3 DEF InsertConflicts
      <3>3. Free(r.job_id)
        BY <2>2, <3>2 DEF WorkersInv, OwnedLive, Exists
      <3> HIDE DEF r, row
      <3>4. ASSUME NEW j \in JobIds, j = r.job_id PROVE Created(j)
        <4>1. Free(j)'
          BY <1>2, <3>3, <3>4 DEF Free, SameOwners
        <4> QED
          BY <1>0, <2>2, <3>1, <3>2, <3>3, <3>4, <4>1 DEF Created
      <3> QED
        BY <1>0, <1>2, <3>1, <3>4 DEF JobStep, Kept
    <2>4. CASE InsertConflicts(r)
      BY <1>3, <1>4, <2>4 DEF SubmitDone, EnqueueInsert
    <2> QED
      BY <2>3, <2>4
  <1>5. CASE OperatorCancel(c)
    <2>1. PICK j \in JobIds : /\ CancelHeld \/ Free(j)
                              /\ Cancel(c, j)
      BY <1>5 DEF OperatorCancel, Free
    <2>2. OperatorEnded(j)
      BY <1>0, <1>2, <2>1, WithoutLeaseFacts DEF Cancel, OperatorEnded, SameCounts, States, Terminal
    <2>3. \A k \in JobIds : k # j => Kept(k)
      BY <1>0, <1>2, <2>1 DEF Cancel, Kept
    <2> QED
      BY <2>2, <2>3 DEF JobStep
  <1> QED
    BY <1>3, <1>4, <1>5 DEF Submit, Locked, EnqueueSelect, DatabaseLocked

\* A worker leases a job nobody works on, queued or under a lease that has run out.
LEMMA LeaseJobSteps ==
    ASSUME WorkersInv, NEW w \in Workers, Lease(w)
    PROVE  \A j \in JobIds : JobStep(j)
  <1>0. /\ IndInv /\ TypeOK /\ w \in Procs /\ jobs \in [JobIds -> Row] /\ call \in [Procs -> Call]
        /\ OwnedLive /\ clock \in Nat /\ LeaseSeconds \in Nat
    BY WorkersAssumption, ConstantAssumption DEF WorkersInv, IndInv, TypeOK
  <1>1. /\ call[w].op = "lease_next" /\ held' = held /\ held[w] = Nothing
        /\ clock <= call[w].now + LeaseSeconds
    BY DEF Lease, LeaseNextNone, LeaseNextJob, workerVars, WorkersInv, Protocol
  <1>2. call[w].now \in Nat /\ call[w].now <= clock
    BY <1>0, <1>1, CallFields DEF IndInv, CallsSound
  <1>3. CASE LeaseNextNone(w)
    <2>1. \A j \in JobIds : SameOwners(j)
      BY <1>0, <1>1, <1>3, IdleOp, CallOnly DEF LeaseNextNone, Return
    <2> QED
      BY <1>0, <1>1, <1>3, <2>1, ResetSteps DEF LeaseNextNone
  <1>4. CASE LeaseNextJob(w)
    <2> DEFINE now == call[w].now
               table == ResetExpired(now)
    <2>1. PICK j \in JobIds : /\ table[j].state = "QUEUED"
                              /\ jobs' = [table EXCEPT ![j] = Leased(table[j], now)]
                              /\ call' = [call EXCEPT ![w] = [op |-> "get", job |-> j]]
      BY <1>4 DEF LeaseNextJob, NextQueued
    <2>2. \A k \in JobIds :
            \/ table[k] = jobs[k]
            \/ /\ jobs[k].state = "LEASED" /\ Free(k)
               /\ table[k] = WithoutLease(jobs[k], "QUEUED")
      BY <1>0, <1>2, ResetOnlyFree
    <2>3. table \in [JobIds -> Row]
      BY <1>0, <1>2, ResetExpiredFacts
    <2>4. /\ \A v \in Workers : v # w => call'[v] = call[v]
          /\ call'[w] = [op |-> "get", job |-> j]
      BY <1>0, <2>1, WorkersAssumption
    <2>5. \A k \in JobIds : ~Engaged(w, k) /\ (Engaged(w, k)' <=> k = j)
      BY <1>1, <2>4, WorkersAssumption DEF Engaged, Holds, Nothing
    <2>6. \A v \in Workers, k \in JobIds : v # w => (Engaged(v, k)' <=> Engaged(v, k))
      BY <1>1, <2>4 DEF Engaged, Holds
    <2>7. now \in Nat /\ clock <= now + LeaseSeconds
      BY <1>1, <1>2
    <2> HIDE DEF now, table
    <2>8. ASSUME NEW k \in JobIds, k # j PROVE JobStep(k)
      <3>1. SameOwners(k)
        BY <2>5, <2>6, <2>8 DEF SameOwners
      <3>2. jobs'[k] = table[k]
        BY <2>1, <2>3, <2>8
      <3>3. CASE table[k] = jobs[k]
        BY <3>1, <3>2, <3>3 DEF JobStep, Kept
      <3>4. CASE jobs[k].state = "LEASED" /\ Free(k) /\ table[k] = WithoutLease(jobs[k], "QUEUED")
        <4>1. Free(k)'
          BY <3>1, <3>4 DEF SameOwners, Free
        <4> QED
          BY <1>0, <3>2, <3>4, <4>1, WithoutLeaseFacts
          DEF JobStep, LeaseLost, SameCounts, States
      <3> QED
        BY <2>2, <3>3, <3>4
    <2>9. HandedOut(j)
      <3>1. /\ jobs[j].state \in {"QUEUED", "LEASED"} /\ Free(j)
            /\ table[j].attempt = jobs[j].attempt
            /\ table[j].max_attempts = jobs[j].max_attempts
            /\ table[j].checkpoint = jobs[j].checkpoint
        BY <1>0, <2>1, <2>2, WithoutLeaseFacts DEF OwnedLive, States
      <3>2. jobs'[j] = Leased(table[j], now) /\ table[j] \in Row
        BY <2>1, <2>3
      <3>3. \A v \in Workers : Engaged(v, j)' <=> v = w
        BY <2>5, <2>6, <3>1 DEF Free
      <3> QED
        BY <2>7, <3>1, <3>2, <3>3, LeasedFacts DEF HandedOut
    <2> QED
      BY <2>8, <2>9 DEF JobStep
  <1> QED
    BY <1>3, <1>4 DEF Lease

\* A worker's steps on the job it holds: it renews, saves, reports, or finds the job cancelled.
LEMMA HolderJobSteps ==
    ASSUME WorkersInv, NEW w \in Workers,
           HeartbeatDone(w) \/ Save(w) \/ Done(w) \/ FailDone(w)
    PROVE  \A j \in JobIds : JobStep(j)
  <1>0. /\ TypeOK /\ WorkersTypeOK /\ OneOwner /\ OwnedLive /\ HeldCurrent
        /\ w \in Procs /\ jobs \in [JobIds -> Row]
        /\ clock \in Nat /\ LeaseSeconds \in Nat
    BY WorkersAssumption, ConstantAssumption DEF WorkersInv, IndInv, TypeOK
  <1>1. /\ held[w] # Nothing /\ call[w].op # "get"
        /\ call[w].op \in {"renew_lease", "fail"} => call[w].job = held[w].job
    BY IdleOp
    DEF WorkersInv, Protocol, HeartbeatDone, Save, Done, FailDone, RenewLeaseUpdate, Checkpoint,
        Complete, FailDeadLetter, FailRequeue
  <1>2. PICK j \in JobIds : held[w].job = j /\ Holds(w, j) /\ Engaged(w, j)
    BY <1>0, <1>1, HeldFields DEF Holds, Engaged
  <1>3. /\ ~Free(j)
        /\ \/ jobs[j].state = "LEASED" /\ jobs[j].lease_expires >= clock
           \/ jobs[j].state = "CANCELLED" /\ CancelHeld
    BY <1>0, <1>2, OwnedJob
  <1>4. ASSUME JobStep(j), \A k \in JobIds : k # j => SameOwners(k) /\ jobs'[k] = jobs[k]
        PROVE  \A k \in JobIds : JobStep(k)
    BY <1>4 DEF JobStep, Kept
  <1>5. CASE HeartbeatDone(w)
    <2>1. /\ call[w].op = "renew_lease" /\ call[w].job = j
          /\ call' = [call EXCEPT ![w] = Idle]
      BY <1>1, <1>2, <1>5 DEF HeartbeatDone, RenewLeaseUpdate, Return
    <2>2. CASE jobs[j].state = "LEASED"
      <3>1. call[w].now \in Nat /\ clock <= call[w].now + LeaseSeconds
        BY <1>0, <2>1, CallFields DEF WorkersInv, Protocol
      <3>2. /\ jobs' = [jobs EXCEPT ![j] = Renewed(jobs[j], call[w].now)]
            /\ Hold(w, [held[w] EXCEPT !.until = call[w].now + LeaseSeconds])
        BY <1>5, <2>1, <2>2 DEF HeartbeatDone, RenewLeaseUpdate
      <3>3. /\ held'[w].job = j /\ call'[w].op # "get"
            /\ held'[w].until = call[w].now + LeaseSeconds
        <4>1. held[w] \in Held
          BY <1>0, <1>1, HeldFields
        <4>2. LET h == [held[w] EXCEPT !.until = call[w].now + LeaseSeconds] IN
              h.job = j /\ h.until = call[w].now + LeaseSeconds
          BY <1>2, <4>1 DEF Held
        <4> QED
          BY <1>0, <2>1, <3>2, <4>2, IdleOp DEF Hold, WorkersTypeOK, TypeOK
      <3>4. \A v \in Workers : v # w => held'[v] = held[v] /\ call'[v] = call[v]
        BY <1>0, <2>1, <3>2, WorkersAssumption DEF Hold, WorkersTypeOK, TypeOK
      <3>5. \A k \in JobIds : SameOwners(k)
        BY <1>1, <1>2, <3>3, <3>4 DEF SameOwners, Engaged, Holds
      <3>6. LeaseRenewed(j)
        BY <1>0, <1>2, <2>2, <3>1, <3>2, <3>3, <3>5, RenewedFacts DEF LeaseRenewed, SameCounts
      <3>7. \A k \in JobIds : k # j => jobs'[k] = jobs[k]
        BY <1>0, <3>2
      <3> QED
        BY <1>4, <3>5, <3>6, <3>7 DEF JobStep
    <2>3. CASE jobs[j].state = "CANCELLED"
      <3>1. jobs' = jobs /\ Hold(w, Nothing)
        BY <1>5, <2>1, <2>3 DEF HeartbeatDone, RenewLeaseUpdate
      <3>2. Free(j)' /\ \A k \in JobIds : k # j => SameOwners(k)
        BY <1>0, <1>1, <1>2, <2>1, <3>1, HoldNothing
      <3> QED
        BY <1>3, <1>4, <2>3, <3>1, <3>2 DEF JobStep, LetGo
    <2> QED
      BY <1>3, <2>2, <2>3
  <1>6. CASE Save(w)
    <2>1. /\ jobs[j].state = "LEASED" /\ UNCHANGED <<call, held>>
          /\ jobs' = [jobs EXCEPT ![j] = WithCheckpoint(jobs[j], held[w].attempt)]
      BY <1>2, <1>6 DEF Save, Checkpoint, workerVars
    <2>2. held[w].attempt = jobs[j].attempt /\ jobs[j].attempt \in Nat
      BY <1>0, <1>2 DEF HeldCurrent, Row
    <2>3. \A k \in JobIds : SameOwners(k)
      BY <2>1 DEF SameOwners, Engaged, Holds
    <2>4. Saved(j)
      BY <1>0, <2>1, <2>2, <2>3, WithCheckpointFacts DEF Saved
    <2>5. \A k \in JobIds : k # j => jobs'[k] = jobs[k]
      BY <1>0, <2>1
    <2> QED
      BY <1>4, <2>3, <2>4, <2>5 DEF JobStep
  <1>7. CASE Done(w)
    <2>1. call' = call /\ Hold(w, Nothing)
      BY <1>7 DEF Done, Complete, vars
    <2>2. Free(j)' /\ \A k \in JobIds : k # j => SameOwners(k)
      BY <1>0, <1>1, <1>2, <2>1, HoldNothing
    <2>3. CASE jobs[j].state = "LEASED"
      <3>1. jobs' = [jobs EXCEPT ![j] = WithoutLease(jobs[j], "COMPLETED")]
        BY <1>2, <1>7, <2>3 DEF Done, Complete, Completable
      <3>2. Ended(j)
        BY <1>0, <1>3, <2>2, <3>1, WithoutLeaseFacts DEF Ended, SameCounts, States, Terminal
      <3>3. \A k \in JobIds : k # j => jobs'[k] = jobs[k]
        BY <1>0, <3>1
      <3> QED
        BY <1>4, <2>2, <3>2, <3>3 DEF JobStep
    <2>4. CASE jobs[j].state = "CANCELLED"
      <3>1. jobs' = jobs
        BY <1>2, <1>7, <2>4 DEF Done, Completable, vars
      <3> QED
        BY <1>3, <1>4, <2>2, <2>4, <3>1 DEF JobStep, LetGo
    <2> QED
      BY <1>3, <2>3, <2>4
  <1>8. CASE FailDone(w)
    <2>1. /\ call[w].op = "fail" /\ call[w].job = j
          /\ call' = [call EXCEPT ![w] = Idle] /\ Hold(w, Nothing)
      BY <1>1, <1>2, <1>8 DEF FailDone, FailDeadLetter, FailRequeue, Return
    <2>2. Free(j)' /\ \A k \in JobIds : k # j => SameOwners(k)
      BY <1>0, <1>1, <1>2, <2>1, HoldNothing
    <2>3. PICK s \in {"DEAD_LETTER", "QUEUED"} :
            /\ jobs' = [jobs EXCEPT ![j] = WithoutLease(jobs[j], s)]
            /\ s = "QUEUED" => ~call[w].dead
      BY <1>8, <2>1 DEF FailDone, FailDeadLetter, FailRequeue
    <2>4. s = "QUEUED" => jobs[j].attempt < Budget(j) + crashes
      BY <2>1, <2>3 DEF WorkersInv, AttemptLeft
    <2>5. Ended(j)
      BY <1>0, <1>3, <2>2, <2>3, <2>4, WithoutLeaseFacts DEF Ended, SameCounts, States, Terminal
    <2>6. \A k \in JobIds : k # j => jobs'[k] = jobs[k]
      BY <1>0, <2>3
    <2> QED
      BY <1>4, <2>2, <2>5, <2>6 DEF JobStep
  <1> QED
    BY <1>5, <1>6, <1>7, <1>8

\* A worker that crashes, alone or in the middle of a call, leaves its job to its lease.
LEMMA CrashJobSteps ==
    ASSUME WorkersInv, NEW w \in Workers, Crash(w)
    PROVE  \A j \in JobIds : JobStep(j)
  <1>0. /\ TypeOK /\ WorkersTypeOK /\ OneOwner /\ w \in Procs /\ crashes \in Nat
        /\ call[w].op = "get" => held[w] = Nothing
    BY WorkersAssumption DEF WorkersInv, IndInv, WorkersTypeOK, Protocol
  <1>1. /\ jobs' = jobs /\ crashes' > crashes /\ Hold(w, Nothing)
        /\ call' = [call EXCEPT ![w] = Idle]
    BY <1>0 DEF Crash, Restart, Return
  <1>2. CASE \E j \in JobIds : Engaged(w, j)
    <2>1. PICK j \in JobIds : Engaged(w, j)
      BY <1>2
    <2>2. ~Free(j) /\ Free(j)' /\ \A k \in JobIds : k # j => SameOwners(k)
      BY <1>0, <1>1, <2>1, HoldNothing
    <2> QED
      BY <1>1, <2>2 DEF JobStep, LetGo, Kept
  <1>3. CASE \A j \in JobIds : ~Engaged(w, j)
    <2>1. call'[w].op # "get" /\ held'[w] = Nothing
      BY <1>0, <1>1, IdleOp DEF Hold, WorkersTypeOK, TypeOK
    <2>2. \A v \in Workers : v # w => held'[v] = held[v] /\ call'[v] = call[v]
      BY <1>0, <1>1, WorkersAssumption DEF Hold, WorkersTypeOK, TypeOK
    <2>3. \A j \in JobIds : SameOwners(j)
      BY <1>3, <2>1, <2>2, WorkersAssumption DEF SameOwners, Engaged, Holds, Nothing
    <2> QED
      BY <1>1, <2>3 DEF JobStep, Kept
  <1> QED
    BY <1>2, <1>3

\* Every step of the workers and their clients does one of those things to every job.
LEMMA JobSteps ==
    ASSUME WorkersInv, [WorkersNext]_allVars
    PROVE  \A j \in JobIds : JobStep(j)
  <1>0. /\ IndInv /\ TypeOK /\ WorkersTypeOK /\ OwnedLive
        /\ call \in [Procs -> Call] /\ \A w \in Workers : w \in Procs
    BY WorkersAssumption DEF WorkersInv, IndInv, TypeOK
  <1>1. ASSUME jobs' = jobs, \A j \in JobIds : SameOwners(j)
        PROVE  \A j \in JobIds : JobStep(j)
    BY <1>1 DEF JobStep, Kept
  <1>2. ASSUME NEW w \in Workers, Recover(w) \/ Poll(w) \/ Heartbeat(w) \/ Fail(w) \/ Locked(w)
        PROVE  \A j \in JobIds : JobStep(j)
    <2>1. jobs' = jobs /\ held' = held /\ call[w].op # "get"
      BY <1>2, IdleOp
      DEF Recover, Poll, Heartbeat, Fail, Locked, ResumeNow, LeaseNextNow, RenewLeaseNow, FailSelect,
          DatabaseLocked, Begin, Writing, workerVars
    <2>2. PICK c : c.op # "get" /\ call' = [call EXCEPT ![w] = c]
      BY <1>2, IdleOp
      DEF Recover, Poll, Heartbeat, Fail, Locked, ResumeNow, LeaseNextNow, RenewLeaseNow, FailSelect,
          DatabaseLocked, Begin, Return
    <2>3. \A j \in JobIds : SameOwners(j)
      BY <1>0, <2>1, <2>2, CallOnly
    <2> QED
      BY <1>1, <2>1, <2>3
  <1>3. ASSUME NEW w \in Workers, RecoverDone(w) PROVE \A j \in JobIds : JobStep(j)
    <2>1. /\ call[w].op = "resume_in_progress" /\ jobs' = ResetExpired(call[w].now)
          /\ held' = held /\ call' = [call EXCEPT ![w] = Idle]
      BY <1>3 DEF RecoverDone, ResumeUpdate, Return
    <2>2. \A j \in JobIds : SameOwners(j)
      BY <1>0, <2>1, IdleOp, CallOnly
    <2> QED
      BY <1>0, <2>1, <2>2, ResetSteps
  <1>4. ASSUME NEW w \in Workers, Take(w) PROVE \A j \in JobIds : JobStep(j)
    <2>1. /\ call[w].op = "get" /\ held[w] = Nothing /\ jobs' = jobs
          /\ call' = [call EXCEPT ![w] = Idle]
          /\ \E h : h.job = call[w].job /\ held' = [held EXCEPT ![w] = h]
      BY <1>4 DEF Take, LeaseNextGet, Return, Hold, WorkersInv, Protocol
    <2>2. held'[w].job = call[w].job /\ call'[w].op # "get"
      BY <1>0, <2>1, IdleOp DEF WorkersTypeOK
    <2>3. \A v \in Workers : v # w => held'[v] = held[v] /\ call'[v] = call[v]
      BY <1>0, <2>1 DEF WorkersTypeOK
    <2>4. \A j \in JobIds : SameOwners(j)
      BY <2>1, <2>2, <2>3, WorkersAssumption DEF SameOwners, Engaged, Holds, Nothing
    <2> QED
      BY <1>1, <2>1, <2>4
  <1>5. CASE Pass \/ UNCHANGED allVars
    BY <1>1, <1>5 DEF Pass, Tick, workerVars, allVars, SameOwners, Engaged, Holds
  <1> QED
    BY <1>2, <1>3, <1>4, <1>5, ClientJobSteps, LeaseJobSteps, HolderJobSteps, CrashJobSteps
    DEF WorkersNext

----------------------------------------------------------------------------
(* The queue's own invariant: a worker's steps are steps of the queue.  Only the checkpoints *)
(* that workers save are values of their own.                                                *)

\* Saving a checkpoint, whatever its data, disturbs no guarantee of the queue.
LEMMA SaveStep ==
    ASSUME IndInv, NEW p \in Procs, NEW j \in JobIds, NEW data \in Nat, Checkpoint(p, j, data)
    PROVE  IndInv'
  <1>1. /\ TypeOK /\ jobs \in [JobIds -> Row] /\ UNCHANGED <<dead_letters, circuit, call, clock>>
        /\ jobs' = [jobs EXCEPT ![j] = WithCheckpoint(jobs[j], data)]
    BY DEF IndInv, TypeOK, Checkpoint
  <1>2. /\ jobs' \in [JobIds -> Row]
        /\ \A k \in JobIds : /\ jobs'[k].state = jobs[k].state /\ jobs'[k].key = jobs[k].key
                             /\ jobs'[k].lease_expires = jobs[k].lease_expires
                             /\ jobs'[k].type = jobs[k].type /\ jobs'[k].attempt = jobs[k].attempt
    BY <1>1, WithCheckpointFacts
  <1>3. TypeOK'
    BY <1>1, <1>2 DEF TypeOK, Exists
  <1>4. CallsSound'
    <2>1. \A q \in Procs : call[q].op = "fail" => call[q].job \in JobIds
      BY <1>1, CallFields
    <2> QED
      BY <1>1, <1>2, <2>1 DEF IndInv, CallsSound, Exists
  <1>5. LeaseConsistent'
    BY <1>1, <1>2 DEF IndInv, LeaseConsistent
  <1>6. KeysUnique'
    BY <1>2 DEF IndInv, KeysUnique, Exists
  <1>7. DeadLetterArchived' /\ AttemptCharged'
    BY <1>1, <1>2 DEF IndInv, DeadLetterArchived, AttemptCharged
  <1> QED
    BY <1>3, <1>4, <1>5, <1>6, <1>7 DEF IndInv

\* A step of the workers and their clients is a step of the queue, or saves a checkpoint.
LEMMA QueueStep ==
    ASSUME WorkersTypeOK, [WorkersNext]_allVars
    PROVE  [Next]_vars \/ \E w \in Workers : Save(w)
  <1> USE DEF vars
  <1>1. \A p : p \in Workers \/ p \in Clients => p \in Procs
    BY WorkersAssumption DEF Clients
  <1>2. ASSUME NEW c \in Clients, Submit(c) \/ SubmitDone(c) \/ OperatorCancel(c) \/ Locked(c)
        PROVE  Next
    BY <1>1, <1>2 DEF Submit, SubmitDone, OperatorCancel, Locked, Next, Finish
  <1>3. ASSUME NEW w \in Workers,
               \/ Recover(w) \/ RecoverDone(w) \/ Poll(w) \/ Lease(w) \/ Take(w)
               \/ HeartbeatDone(w) \/ FailDone(w) \/ Locked(w) \/ Crash(w)
        PROVE  Next
    BY <1>1, <1>3
    DEF Recover, RecoverDone, Poll, Lease, Take, HeartbeatDone, FailDone, Locked, Crash, Next, Finish
  <1>4. ASSUME NEW w \in Workers, Heartbeat(w) \/ Done(w) \/ Fail(w)
        PROVE  Next \/ UNCHANGED vars
    <2>1. held[w].job \in JobIds
      BY <1>4, HeldFields DEF Heartbeat, Done, Fail
    <2> QED
      BY <1>1, <1>4, <2>1 DEF Heartbeat, Done, Fail, Next
  <1>5. CASE Pass
    BY <1>5 DEF Pass, Next
  <1>6. CASE UNCHANGED allVars
    BY <1>6 DEF allVars
  <1> QED
    BY <1>2, <1>3, <1>4, <1>5, <1>6 DEF WorkersNext

\* The queue's guarantees are kept.
LEMMA QueueInvStep ==
    ASSUME WorkersInv, [WorkersNext]_allVars
    PROVE  IndInv'
  <1>1. IndInv /\ WorkersTypeOK
    BY DEF WorkersInv
  <1>2. CASE [Next]_vars
    BY <1>1, <1>2, TypeStep, LeaseStep, KeysStep, DeadLetterStep, AttemptStep DEF IndInv
  <1>3. ASSUME NEW w \in Workers, Save(w) PROVE IndInv'
    <2>1. held[w].job \in JobIds /\ held[w].attempt \in Nat /\ w \in Procs
      BY <1>1, <1>3, HeldFields, WorkersAssumption DEF Save, Held
    <2> QED
      BY <1>1, <1>3, <2>1, SaveStep DEF Save
  <1> QED
    BY <1>1, <1>2, <1>3, QueueStep

----------------------------------------------------------------------------
(* What a worker knows of its own. *)

\* The protocol: every step takes a process from one legal situation to another, and no time
\* passes that would let a call outlast the lease it asks for.
LEMMA ProtocolStep ==
    ASSUME WorkersInv, [WorkersNext]_allVars
    PROVE  WorkersTypeOK' /\ Protocol'
  <1> DEFINE Legal(c, h, s, t) ==
               /\ c.op \in {"idle", "resume_in_progress", "lease_next", "get", "renew_lease", "fail"}
               /\ c.op \in {"resume_in_progress", "lease_next", "get"} => h = Nothing
               /\ c.op \in {"renew_lease", "fail"} => h # Nothing /\ c.job = h.job
               /\ c.op \in {"lease_next", "get"} \/ h # Nothing => s
               /\ c.op \in {"lease_next", "renew_lease"} => t <= c.now + LeaseSeconds
  <1> DEFINE Goal == WorkersTypeOK' /\ Protocol'
  <1> SUFFICES Goal
    OBVIOUS
  <1>0. /\ TypeOK /\ WorkersTypeOK /\ call \in [Procs -> Call] /\ clock \in Nat
        /\ started \subseteq Workers /\ held \in [Workers -> {Nothing} \cup Held] /\ crashes \in Nat
        /\ LeaseSeconds \in Nat
        /\ \A w \in Workers : w \in Procs /\ Legal(call[w], held[w], w \in started, clock)
        /\ \A c \in Clients : c \in Procs /\ c \notin Workers /\ call[c].op \in {"idle", "enqueue"}
    BY ConstantAssumption, WorkersAssumption
    DEF WorkersInv, IndInv, TypeOK, WorkersTypeOK, Protocol, Clients
  <1>1. ASSUME NEW w \in Workers, NEW c, NEW h \in {Nothing} \cup Held,
               call' = [call EXCEPT ![w] = c], held' = [held EXCEPT ![w] = h],
               started' \in SUBSET Workers, \A v \in Workers : v # w => (v \in started' <=> v \in started),
               Legal(c, h, w \in started', clock), clock' = clock, crashes' \in Nat
        PROVE  Goal
    <2>1. WorkersTypeOK'
      BY <1>0, <1>1 DEF WorkersTypeOK
    <2>2. \A v \in Workers : Legal(call'[v], held'[v], v \in started', clock')
      <3>1. Legal(call'[w], held'[w], w \in started', clock')
        BY <1>0, <1>1
      <3>2. ASSUME NEW v \in Workers, v # w PROVE Legal(call'[v], held'[v], v \in started', clock')
        <4>1. /\ call'[v] = call[v] /\ held'[v] = held[v] /\ (v \in started' <=> v \in started)
              /\ clock' = clock
          BY <1>0, <1>1, <3>2
        <4> QED
          BY <1>0, <4>1
      <3> QED
        BY <3>1, <3>2
    <2>3. \A d \in Clients : call'[d].op \in {"idle", "enqueue"}
      BY <1>0, <1>1
    <2> QED
      BY <2>1, <2>2, <2>3 DEF Protocol
  <1>2. Legal(Idle, Nothing, TRUE, clock) /\ Legal(Idle, Nothing, FALSE, clock)
    BY IdleOp
  <1>3. \A w \in Workers : held' = held => held' = [held EXCEPT ![w] = held[w]]
    BY <1>0
  <1>4. \A w \in Workers : /\ held[w] # Nothing => held[w] \in Held /\ w \in started
                           /\ held[w] \in {Nothing} \cup Held
    BY <1>0
  <1> HIDE DEF Goal
  <1>5. ASSUME NEW c \in Clients, Submit(c) \/ SubmitDone(c) \/ OperatorCancel(c) \/ Locked(c)
        PROVE  Goal
    <2>1. PICK d : d.op \in {"idle", "enqueue"} /\ (call' = [call EXCEPT ![c] = d] \/ call' = call)
      BY <1>5, IdleOp
      DEF Submit, SubmitDone, OperatorCancel, Locked, EnqueueSelect, EnqueueInsert, Begin, Return,
          Cancel, DatabaseLocked
    <2>2. UNCHANGED <<clock, started, held, crashes>>
      BY <1>5
      DEF Submit, SubmitDone, OperatorCancel, Locked, EnqueueSelect, EnqueueInsert, Cancel,
          DatabaseLocked, workerVars
    <2>3. /\ \A w \in Workers : call'[w] = call[w]
          /\ \A e \in Clients : call'[e].op \in {"idle", "enqueue"}
      BY <1>0, <2>1
    <2> QED
      BY <1>0, <2>2, <2>3 DEF Goal, WorkersTypeOK, Protocol
  <1>6. ASSUME NEW w \in Workers, Recover(w) \/ Poll(w) \/ Heartbeat(w) \/ Fail(w) \/ Locked(w)
        PROVE  Goal
    <2>1. UNCHANGED <<clock, started, held, crashes>>
      BY <1>6
      DEF Recover, Poll, Heartbeat, Fail, Locked, ResumeNow, LeaseNextNow, RenewLeaseNow, FailSelect,
          DatabaseLocked, workerVars
    <2>2. ASSUME NEW c, call' = [call EXCEPT ![w] = c], Legal(c, held[w], w \in started, clock)
          PROVE  Goal
      <3> HIDE DEF Legal
      <3> QED
        BY <1>0, <1>1, <1>3, <1>4, <2>1, <2>2
    <2>3. CASE Recover(w)
      <3>1. Legal([op |-> "resume_in_progress", now |-> clock], held[w], w \in started, clock)
        BY <1>0, <1>4, <2>3 DEF Recover
      <3> HIDE DEF Legal
      <3> QED
        BY <2>2, <2>3, <3>1 DEF Recover, ResumeNow, Begin
    <2>4. CASE Poll(w)
      <3>1. PICK f \in Filters : call' = [call EXCEPT ![w] = [op |-> "lease_next", now |-> clock, filter |-> f]]
        BY <2>4 DEF Poll, LeaseNextNow, Begin
      <3>2. Legal([op |-> "lease_next", now |-> clock, filter |-> f], held[w], w \in started, clock)
        BY <1>0, <2>4 DEF Poll
      <3> HIDE DEF Legal
      <3> QED
        BY <2>2, <3>1, <3>2
    <2>5. CASE Heartbeat(w)
      <3>1. Legal([op |-> "renew_lease", now |-> clock, job |-> held[w].job], held[w], w \in started, clock)
        BY <1>0, <1>4, <2>5 DEF Heartbeat
      <3> HIDE DEF Legal
      <3> QED
        BY <2>2, <2>5, <3>1 DEF Heartbeat, RenewLeaseNow, Begin
    <2>6. CASE Fail(w)
      <3>1. PICK d : call' = [call EXCEPT ![w] = [op |-> "fail", job |-> held[w].job, dead |-> d]]
        BY <2>6 DEF Fail, FailSelect, Begin
      <3>2. Legal([op |-> "fail", job |-> held[w].job, dead |-> d], held[w], w \in started, clock)
        BY <1>4, <2>6 DEF Fail
      <3> HIDE DEF Legal
      <3> QED
        BY <2>2, <3>1, <3>2
    <2>7. CASE Locked(w)
      <3>1. Legal(Idle, held[w], w \in started, clock)
        BY <1>4, IdleOp
      <3> HIDE DEF Legal
      <3> QED
        BY <2>2, <2>7, <3>1 DEF Locked, DatabaseLocked, Return
    <2> QED
      BY <1>6, <2>3, <2>4, <2>5, <2>6, <2>7
  <1>7. ASSUME NEW w \in Workers, RecoverDone(w) \/ Lease(w)
        PROVE  Goal
    <2>1. /\ UNCHANGED <<clock, held, crashes>> /\ held[w] = Nothing
          /\ started' = started \/ started' = started \cup {w}
      BY <1>0, <1>7
      DEF RecoverDone, Lease, ResumeUpdate, LeaseNextNone, LeaseNextJob, workerVars
    <2>2. PICK c : call' = [call EXCEPT ![w] = c] /\ Legal(c, Nothing, w \in started', clock)
      <3>1. CASE RecoverDone(w)
        BY <1>2, <3>1, IdleOp DEF RecoverDone, ResumeUpdate, Return
      <3>2. CASE Lease(w)
        BY <1>0, <2>1, <3>2, IdleOp DEF Lease, LeaseNextNone, LeaseNextJob, Return, workerVars
      <3> QED
        BY <1>7, <3>1, <3>2
    <2> HIDE DEF Legal
    <2> QED
      BY <1>0, <1>1, <1>3, <1>4, <2>1, <2>2
  <1>8. ASSUME NEW w \in Workers, Take(w) PROVE Goal
    <2>1. call[w].job \in JobIds /\ w \in started
      BY <1>0, <1>8, CallFields DEF Take, LeaseNextGet
    <2> DEFINE j == call[w].job
               h == [job |-> j, attempt |-> jobs[j].attempt, until |-> jobs[j].lease_expires]
    <2>2. jobs[j].attempt \in Nat /\ jobs[j].lease_expires \in Nat \cup {NULL}
      BY <1>0, <2>1 DEF TypeOK, Row
    <2>3. h \in {Nothing} \cup Held
      BY <2>1, <2>2 DEF Held
    <2>4. /\ call' = [call EXCEPT ![w] = Idle] /\ held' = [held EXCEPT ![w] = h]
          /\ UNCHANGED <<clock, started, crashes>>
      BY <1>8 DEF Take, LeaseNextGet, Return, Hold
    <2> HIDE DEF h, j
    <2>5. Legal(Idle, h, w \in started', clock)
      BY <2>1, <2>4, IdleOp
    <2> HIDE DEF Legal
    <2> QED
      BY <1>0, <1>1, <2>3, <2>4, <2>5
  <1>9. ASSUME NEW w \in Workers, HeartbeatDone(w) \/ FailDone(w) PROVE Goal
    <2>1. /\ UNCHANGED <<clock, started, crashes>> /\ call' = [call EXCEPT ![w] = Idle]
      BY <1>9
      DEF HeartbeatDone, FailDone, RenewLeaseUpdate, FailDeadLetter, FailRequeue, Return
    <2>2. w \in started /\ held[w] \in Held
      BY <1>0, <1>4, <1>9
      DEF HeartbeatDone, FailDone, RenewLeaseUpdate, FailDeadLetter, FailRequeue
    <2>3. PICK h \in {Nothing} \cup Held : held' = [held EXCEPT ![w] = h]
      <3>1. ASSUME HeartbeatDone(w) PROVE call[w].now + LeaseSeconds \in Nat
        BY <1>0, <3>1, CallFields DEF HeartbeatDone, RenewLeaseUpdate
      <3>2. HeartbeatDone(w) => [held[w] EXCEPT !.until = call[w].now + LeaseSeconds] \in Held
        BY <2>2, <3>1 DEF Held
      <3> QED
        BY <1>9, <3>2 DEF HeartbeatDone, FailDone, Hold
    <2>4. Legal(Idle, h, w \in started', clock)
      BY <2>1, <2>2, IdleOp
    <2> HIDE DEF Legal
    <2> QED
      BY <1>0, <1>1, <2>1, <2>3, <2>4
  <1>10. ASSUME NEW w \in Workers, Save(w) \/ Done(w) PROVE Goal
    <2>1. /\ UNCHANGED <<call, clock, started, crashes>> /\ call[w] = Idle /\ w \in started
      BY <1>4, <1>10 DEF Save, Done, Checkpoint, Complete, vars, workerVars
    <2>2. PICK h \in {Nothing} \cup Held : held' = [held EXCEPT ![w] = h]
      BY <1>3, <1>4, <1>10 DEF Save, Done, Hold, workerVars
    <2>3. Legal(Idle, h, w \in started', clock)
      BY <2>1, <2>2, IdleOp
    <2>4. call' = [call EXCEPT ![w] = Idle]
      BY <1>0, <2>1
    <2> HIDE DEF Legal
    <2> QED
      BY <1>0, <1>1, <2>1, <2>2, <2>3, <2>4
  <1>11. ASSUME NEW w \in Workers, Crash(w) PROVE Goal
    <2>1. /\ call' = [call EXCEPT ![w] = Idle] /\ held' = [held EXCEPT ![w] = Nothing]
          /\ clock' = clock /\ started' = started \ {w} /\ crashes' \in Nat
      BY <1>0, <1>11 DEF Crash, Restart, Return, Hold
    <2>2. Legal(Idle, Nothing, w \in started', clock)
      BY <2>1, IdleOp
    <2> HIDE DEF Legal
    <2> QED
      BY <1>0, <1>1, <2>1, <2>2
  <1>12. CASE Pass
    <2>1. /\ UNCHANGED <<call, started, held, crashes>> /\ clock' = clock + 1
          /\ \A w \in Workers : call[w].op \in {"lease_next", "renew_lease"} =>
               clock < call[w].now + LeaseSeconds
      BY <1>12 DEF Pass, InTime, Tick, workerVars
    <2>2. \A w \in Workers : call[w].op \in {"lease_next", "renew_lease"} => call[w].now \in Nat
      BY <1>0, CallFields
    <2>3. \A w \in Workers : Legal(call'[w], held'[w], w \in started', clock')
      BY <1>0, <2>1, <2>2
    <2> QED
      BY <1>0, <2>1, <2>3 DEF Goal, WorkersTypeOK, Protocol
  <1>13. CASE UNCHANGED allVars
    BY <1>0, <1>13 DEF allVars, Goal, WorkersTypeOK, Protocol
  <1> QED
    BY <1>5, <1>6, <1>7, <1>8, <1>9, <1>10, <1>11, <1>12, <1>13 DEF WorkersNext

\* How a step changes what a worker holds: not at all, to nothing, to the row that lease_next
\* returns, or to the expiry that renew_lease has just written.
HeldStep(w) ==
    \/ held'[w] = held[w]
    \/ held'[w] = Nothing
    \/ /\ call[w].op = "get" /\ jobs' = jobs
       /\ held'[w].job = call[w].job
       /\ held'[w].attempt = jobs[call[w].job].attempt
       /\ held'[w].until = jobs[call[w].job].lease_expires
    \/ /\ held[w] # Nothing
       /\ held'[w].job = held[w].job /\ held'[w].attempt = held[w].attempt
       /\ held'[w].until = jobs'[held[w].job].lease_expires

\* A step puts a worker into fail for good or not at all, by what is left of the job's budget.
FailStep(w) ==
    call'[w].op = "fail" /\ ~call'[w].dead =>
        \/ call'[w] = call[w]
        \/ jobs' = jobs /\ jobs[call'[w].job].attempt < Budget(call'[w].job)

\* What every step does to what the workers hold.
LEMMA HeldSteps ==
    ASSUME WorkersInv, [WorkersNext]_allVars
    PROVE  \A w \in Workers : HeldStep(w)
  <1>0. /\ TypeOK /\ WorkersTypeOK /\ jobs \in [JobIds -> Row]
        /\ held \in [Workers -> {Nothing} \cup Held] /\ Protocol /\ LeaseSeconds \in Nat
    BY ConstantAssumption DEF WorkersInv, IndInv, TypeOK, WorkersTypeOK
  <1>1. ASSUME NEW v \in Workers, NEW h, held' = [held EXCEPT ![v] = h], NEW w \in Workers, w # v
        PROVE  held'[w] = held[w]
    BY <1>0, <1>1
  <1>2. ASSUME NEW v \in Workers, Hold(v, Nothing) PROVE \A w \in Workers : HeldStep(w)
    BY <1>0, <1>2 DEF Hold, HeldStep
  <1>3. ASSUME NEW v \in Workers, Take(v) PROVE \A w \in Workers : HeldStep(w)
    <2> DEFINE j == call[v].job
               h == [job |-> j, attempt |-> jobs[j].attempt, until |-> jobs[j].lease_expires]
    <2>1. held' = [held EXCEPT ![v] = h] /\ call[v].op = "get" /\ jobs' = jobs
      BY <1>3 DEF Take, LeaseNextGet, Hold
    <2>2. held'[v] = h
      BY <1>0, <2>1
    <2>3. HeldStep(v)
      BY <2>1, <2>2 DEF HeldStep
    <2> QED
      BY <1>1, <2>1, <2>3 DEF HeldStep
  <1>4. ASSUME NEW v \in Workers, HeartbeatDone(v) PROVE \A w \in Workers : HeldStep(w)
    <2>1. /\ call[v].op = "renew_lease" /\ held[v] # Nothing /\ held[v] \in Held
          /\ call[v].job = held[v].job /\ held[v].job \in JobIds
      BY <1>0, <1>4, HeldFields DEF HeartbeatDone, RenewLeaseUpdate, Protocol
    <2>2. CASE jobs[call[v].job].state # "LEASED"
      BY <1>2, <1>4, <2>2 DEF HeartbeatDone
    <2>3. CASE jobs[call[v].job].state = "LEASED"
      <3> DEFINE t == call[v].now + LeaseSeconds
                 h == [held[v] EXCEPT !.until = t]
      <3>1. /\ held' = [held EXCEPT ![v] = h]
            /\ jobs' = [jobs EXCEPT ![held[v].job] = Renewed(jobs[held[v].job], call[v].now)]
        BY <1>4, <2>1, <2>3 DEF HeartbeatDone, RenewLeaseUpdate, Hold
      <3>2. h.job = held[v].job /\ h.attempt = held[v].attempt /\ h.until = t
        BY <2>1 DEF Held
      <3>3. jobs'[held[v].job].lease_expires = t
        <4>1. call[v].now \in Nat /\ jobs[held[v].job] \in Row
          BY <1>0, <2>1, CallFields, WorkersAssumption
        <4>2. Renewed(jobs[held[v].job], call[v].now).lease_expires = t
          BY <4>1, RenewedFacts
        <4> QED
          BY <1>0, <2>1, <3>1, <4>2
      <3> HIDE DEF h, t
      <3>4. held'[v] = h
        BY <1>0, <3>1
      <3>5. HeldStep(v)
        BY <2>1, <3>2, <3>3, <3>4 DEF HeldStep
      <3> QED
        BY <1>1, <3>1, <3>5 DEF HeldStep
    <2> QED
      BY <2>2, <2>3
  <1>5. CASE held' = held
    BY <1>5 DEF HeldStep
  <1> QED
    BY <1>2, <1>3, <1>4, <1>5
    DEF WorkersNext, Submit, SubmitDone, OperatorCancel, Locked, Recover, RecoverDone, Poll, Lease,
        Heartbeat, Save, Done, Fail, FailDone, Crash, Pass, workerVars, allVars

\* The decision that fail takes with it from its SELECT.
LEMMA FailSteps ==
    ASSUME WorkersInv, [WorkersNext]_allVars
    PROVE  \A w \in Workers : FailStep(w)
  <1>0. /\ TypeOK /\ call \in [Procs -> Call] /\ \A w \in Workers : w \in Procs
        /\ WorkersTypeOK /\ jobs \in [JobIds -> Row]
    BY WorkersAssumption DEF WorkersInv, IndInv, TypeOK
  <1>1. ASSUME NEW p \in Procs, NEW c, c.op # "fail", call' = [call EXCEPT ![p] = c]
        PROVE  \A w \in Workers : FailStep(w)
    BY <1>0, <1>1 DEF FailStep
  <1>2. CASE call' = call
    BY <1>2 DEF FailStep
  <1>3. ASSUME NEW v \in Workers, Fail(v) PROVE \A w \in Workers : FailStep(w)
    <2>1. held[v].job \in JobIds /\ jobs[held[v].job] \in Row
      BY <1>0, <1>3, HeldFields DEF Fail
    <2>2. PICK d : /\ call' = [call EXCEPT ![v] = [op |-> "fail", job |-> held[v].job, dead |-> d]]
                   /\ ~d => ~OutOfAttempts(jobs[held[v].job])
                   /\ jobs' = jobs
      BY <1>3 DEF Fail, FailSelect, Begin
    <2>3. ~d => jobs[held[v].job].attempt < Budget(held[v].job)
      BY <2>1, <2>2 DEF OutOfAttempts, Budget, Row
    <2> QED
      BY <1>0, <2>2, <2>3 DEF FailStep
  <1>4. ASSUME NEW c \in Clients, Submit(c) \/ SubmitDone(c) \/ OperatorCancel(c) \/ Locked(c)
        PROVE  \A w \in Workers : FailStep(w)
    <2>1. c \in Procs
      BY DEF Clients
    <2> QED
      BY <1>1, <1>2, <1>4, <2>1, IdleOp
      DEF Submit, SubmitDone, OperatorCancel, Locked, EnqueueSelect, EnqueueInsert, Begin, Return,
          Cancel, DatabaseLocked
  <1>5. ASSUME NEW w \in Workers,
               \/ Recover(w) \/ RecoverDone(w) \/ Poll(w) \/ Lease(w) \/ Take(w) \/ Heartbeat(w)
               \/ HeartbeatDone(w) \/ Save(w) \/ Done(w) \/ FailDone(w) \/ Locked(w) \/ Crash(w)
        PROVE  \A v \in Workers : FailStep(v)
    <2>1. (\E c : c.op # "fail" /\ call' = [call EXCEPT ![w] = c]) \/ call' = call
      BY <1>5, IdleOp
      DEF Recover, RecoverDone, Poll, Lease, Take, Heartbeat, HeartbeatDone, Save, Done, FailDone,
          Locked, Crash, ResumeNow, ResumeUpdate, LeaseNextNow, LeaseNextNone, LeaseNextJob,
          LeaseNextGet, RenewLeaseNow, RenewLeaseUpdate, Checkpoint, Complete, FailDeadLetter,
          FailRequeue, DatabaseLocked, Restart, Begin, Return, vars
    <2> QED
      BY <1>0, <1>1, <1>2, <2>1
  <1> QED
    BY <1>2, <1>3, <1>4, <1>5 DEF WorkersNext, Pass, Tick, allVars

----------------------------------------------------------------------------
(* The parts of the invariant, each from what a step does to one job. *)

\* The clock and the crashes count up, and only Pass moves the clock.
LEMMA Counters ==
    ASSUME WorkersInv, [WorkersNext]_allVars
    PROVE  crashes' >= crashes /\ (clock' = clock \/ Pass)
  <1>1. crashes \in Nat
    BY DEF WorkersInv, WorkersTypeOK
  <1>2. ASSUME NEW c \in Clients, Submit(c) \/ SubmitDone(c) \/ OperatorCancel(c) \/ Locked(c)
        PROVE  UNCHANGED <<crashes, clock>>
    BY <1>2
    DEF Submit, SubmitDone, OperatorCancel, Locked, EnqueueSelect, EnqueueInsert, Cancel,
        DatabaseLocked, workerVars
  <1>3. ASSUME NEW w \in Workers, Recover(w) \/ Poll(w) \/ Heartbeat(w) \/ Fail(w) \/ Locked(w)
        PROVE  UNCHANGED <<crashes, clock>>
    BY <1>3
    DEF Recover, Poll, Heartbeat, Fail, Locked, ResumeNow, LeaseNextNow, RenewLeaseNow, FailSelect,
        DatabaseLocked, workerVars
  <1>4. ASSUME NEW w \in Workers,
               \/ RecoverDone(w) \/ Lease(w) \/ Take(w) \/ HeartbeatDone(w) \/ Save(w) \/ Done(w)
               \/ FailDone(w)
        PROVE  UNCHANGED <<crashes, clock>>
    BY <1>4
    DEF RecoverDone, Lease, Take, HeartbeatDone, Save, Done, FailDone, ResumeUpdate, LeaseNextNone,
        LeaseNextJob, LeaseNextGet, RenewLeaseUpdate, Checkpoint, Complete, FailDeadLetter,
        FailRequeue, workerVars, vars
  <1>5. ASSUME NEW w \in Workers, Crash(w) PROVE crashes' = crashes + 1 /\ clock' = clock
    BY <1>5 DEF Crash, Restart
  <1>6. CASE Pass
    BY <1>1, <1>6 DEF Pass, workerVars
  <1>7. CASE UNCHANGED allVars
    BY <1>1, <1>7 DEF allVars
  <1> QED
    BY <1>1, <1>2, <1>3, <1>4, <1>5, <1>6, <1>7 DEF WorkersNext

\* OneOwner and OwnedLive: a job is handed out only while nobody has it, and time passes a
\* lease only after its worker let go of it.
LEMMA OwnerStep ==
    ASSUME LateWorkers = {}, WorkersInv, [WorkersNext]_allVars
    PROVE  OneOwner' /\ OwnedLive'
  <1>0. /\ OneOwner /\ OwnedLive /\ HeldCurrent /\ TypeOK /\ LeaseConsistent /\ Protocol
        /\ WorkersTypeOK
        /\ clock \in Nat /\ \A j \in JobIds : jobs[j].lease_expires \in Int
    BY DEF WorkersInv, IndInv, TypeOK, Row, NULL
  <1>1. \A j \in JobIds : JobStep(j)
    BY JobSteps
  <1>2. OneOwner'
    BY <1>0, <1>1
    DEF OneOwner, JobStep, Kept, Created, LeaseLost, HandedOut, LeaseRenewed, Saved, Ended, LetGo,
        OperatorEnded, SameOwners, Free
  <1>3. ASSUME clock' = clock PROVE OwnedLive'
    <2> SUFFICES ASSUME NEW j \in JobIds
                 PROVE  \/ Free(j)'
                        \/ jobs'[j].state = "LEASED" /\ jobs'[j].lease_expires >= clock'
                        \/ jobs'[j].state = "CANCELLED" /\ CancelHeld
      BY DEF OwnedLive
    <2>1. SameOwners(j) => (Free(j)' <=> Free(j))
      BY DEF SameOwners, Free
    <2>2. \/ Free(j)
          \/ jobs[j].state = "LEASED" /\ jobs[j].lease_expires >= clock
          \/ jobs[j].state = "CANCELLED" /\ CancelHeld
      BY <1>0 DEF OwnedLive
    <2> QED
      BY <1>1, <1>3, <2>1, <2>2
      DEF JobStep, Kept, Created, LeaseLost, HandedOut, LeaseRenewed, Saved, Ended, LetGo,
          OperatorEnded
  <1>4. ASSUME Pass PROVE OwnedLive'
    <2>1. /\ InTime /\ UNCHANGED <<jobs, call, held>> /\ clock' = clock + 1
      BY <1>4 DEF Pass, Tick, workerVars
    <2>2. ASSUME NEW w \in Workers, NEW j \in JobIds, Engaged(w, j), jobs[j].state = "LEASED"
          PROVE  clock < jobs[j].lease_expires
      <3>1. jobs[j].lease_expires # NULL
        BY <1>0, <2>2 DEF LeaseConsistent
      <3>2. CASE Holds(w, j)
        BY <1>0, <2>1, <2>2, <3>1, <3>2 DEF HeldCurrent, InTime
      <3>3. CASE call[w].op = "get" /\ call[w].job = j
        BY <2>1, <3>3 DEF InTime
      <3> QED
        BY <2>2, <3>2, <3>3 DEF Engaged
    <2>3. \A w \in Workers, j \in JobIds : Engaged(w, j)' <=> Engaged(w, j)
      BY <2>1 DEF Engaged, Holds
    <2> QED
      BY <1>0, <2>1, <2>2, <2>3 DEF OwnedLive, Free
  <1> QED
    BY <1>2, <1>3, <1>4, Counters

\* HeldCurrent: nobody but its owner changes the attempt or the expiry of an owned job.
LEMMA HeldCurrentStep ==
    ASSUME WorkersInv, [WorkersNext]_allVars
    PROVE  HeldCurrent'
  <1>0. /\ OneOwner /\ HeldCurrent /\ WorkersTypeOK /\ Nothing.job \notin JobIds
    BY WorkersAssumption DEF WorkersInv, Nothing
  <1> SUFFICES ASSUME NEW w \in Workers, NEW j \in JobIds, Holds(w, j)'
               PROVE  /\ held'[w].attempt = jobs'[j].attempt
                      /\ jobs'[j].state = "LEASED" => held'[w].until = jobs'[j].lease_expires
    BY DEF HeldCurrent
  <1>1. JobStep(j) /\ HeldStep(w) /\ held'[w].job = j
    BY JobSteps, HeldSteps DEF Holds
  <1>2. ~Free(j)'
    BY DEF Free, Engaged
  <1>3. CASE Holds(w, j) /\ held'[w].attempt = held[w].attempt
    <2>1. ~Free(j) /\ Engaged(w, j)
      BY <1>3 DEF Free, Engaged
    <2>2. held[w].attempt = jobs[j].attempt
      BY <1>0, <1>3 DEF HeldCurrent
    <2>3. held'[w].attempt = jobs'[j].attempt
      BY <1>1, <1>2, <1>3, <2>1, <2>2
      DEF JobStep, Kept, Created, LeaseLost, HandedOut, LeaseRenewed, Saved, Ended, LetGo,
          OperatorEnded, SameCounts
    <2>4. CASE held'[w] = held[w]
      <3>1. LeaseRenewed(j) => held'[w].until = jobs'[j].lease_expires
        BY <1>0, <1>3 DEF LeaseRenewed, OneOwner, Engaged
      <3>2. jobs[j].state = "LEASED" => held[w].until = jobs[j].lease_expires
        BY <1>0, <1>3 DEF HeldCurrent
      <3> QED
        BY <1>1, <1>2, <2>1, <2>3, <2>4, <3>1, <3>2
        DEF JobStep, Kept, Created, LeaseLost, HandedOut, Saved, Ended, LetGo, OperatorEnded
    <2>5. CASE held'[w].until = jobs'[held[w].job].lease_expires
      BY <1>3, <2>3, <2>5 DEF Holds
    <2>6. CASE call[w].op = "get"
      <3>1. held[w] = Nothing
        BY <2>6 DEF WorkersInv, Protocol
      <3> QED
        BY <1>0, <1>3, <3>1 DEF Holds
    <2> QED
      BY <1>0, <1>1, <2>4, <2>5, <2>6 DEF HeldStep
  <1>4. CASE /\ call[w].op = "get" /\ jobs' = jobs
             /\ held'[w].job = call[w].job
             /\ held'[w].attempt = jobs[call[w].job].attempt
             /\ held'[w].until = jobs[call[w].job].lease_expires
    BY <1>1, <1>4
  <1> QED
    BY <1>0, <1>1, <1>3, <1>4 DEF HeldStep, Holds

\* RetryBudget and AttemptLeft: an attempt is charged where one was left, and only a crash
\* leaves a job leased to nobody, for which it adds one to the budget.
LEMMA BudgetStep ==
    ASSUME WorkersInv, [WorkersNext]_allVars
    PROVE  RetryBudget' /\ AttemptLeft'
  <1> DEFINE Left(j) == jobs[j].attempt < Budget(j) + crashes
  <1>0. /\ crashes \in Nat /\ crashes' \in Nat /\ crashes' >= crashes
        /\ TypeOK /\ TypeOK' /\ Protocol /\ Protocol' /\ RetryBudget /\ AttemptLeft
    BY Counters, ProtocolStep, QueueInvStep DEF WorkersInv, WorkersTypeOK, IndInv
  <1> SUFFICES ASSUME NEW j \in JobIds
               PROVE  /\ jobs'[j].attempt <= Budget(j)' + crashes'
                      /\ \/ jobs'[j].attempt < Budget(j)' + crashes'
                         \/ /\ jobs'[j].state # "QUEUED"
                            /\ jobs'[j].state # "LEASED" \/ ~Free(j)'
                            /\ \A w \in Workers :
                                 call'[w].op = "fail" /\ call'[w].job = j => call'[w].dead
    BY DEF RetryBudget, AttemptLeft
  <1>1. /\ jobs[j].attempt \in Nat /\ jobs'[j].attempt \in Nat
        /\ jobs[j].max_attempts \in Nat /\ jobs'[j].max_attempts \in Nat
    BY <1>0 DEF TypeOK, Row
  <1>2. /\ Budget(j) \in Nat /\ Budget(j) >= 1 /\ Budget(j)' \in Nat /\ Budget(j)' >= 1
        /\ jobs'[j].max_attempts = jobs[j].max_attempts => Budget(j)' = Budget(j)
    BY <1>1 DEF Budget
  <1>3. /\ JobStep(j)
        /\ jobs[j].attempt <= Budget(j) + crashes
        /\ \/ Left(j)
           \/ /\ jobs[j].state # "QUEUED"
              /\ jobs[j].state # "LEASED" \/ ~Free(j)
              /\ \A w \in Workers : call[w].op = "fail" /\ call[w].job = j => call[w].dead
    BY <1>0, JobSteps DEF RetryBudget, AttemptLeft
  <1>4. ASSUME NEW w \in Workers, call'[w].op = "fail", call'[w].job = j, ~call'[w].dead
        PROVE  /\ ~Free(j)'
               /\ Left(j) \/ (jobs' = jobs /\ jobs[j].attempt < Budget(j))
               /\ jobs' = jobs \/ ~Free(j)
    <2>1. Holds(w, j)'
      BY <1>0, <1>4 DEF Protocol, Holds
    <2>2. ~Free(j)'
      BY <2>1 DEF Free, Engaged
    <2>3. CASE call'[w] = call[w]
      <3>1. Holds(w, j)
        BY <1>0, <1>4, <2>3 DEF Protocol, Holds
      <3>2. ~Free(j)
        BY <3>1 DEF Free, Engaged
      <3>3. call[w].op = "fail" /\ call[w].job = j /\ ~call[w].dead
        BY <1>4, <2>3
      <3>4. Left(j)
        BY <1>3, <3>3
      <3> QED
        BY <2>2, <3>2, <3>4
    <2>4. CASE jobs' = jobs /\ jobs[j].attempt < Budget(j)
      BY <2>2, <2>4
    <2> QED
      BY <1>4, <2>3, <2>4, FailSteps DEF FailStep
  <1>5. CASE Kept(j)
    <2>1. /\ jobs'[j] = jobs[j] /\ Budget(j)' = Budget(j) /\ (Free(j)' <=> Free(j))
      BY <1>2, <1>5 DEF Kept, SameOwners, Free
    <2> HIDE DEF Free
    <2> QED
      BY <1>0, <1>1, <1>2, <1>3, <1>4, <2>1
  <1>6. CASE Created(j)
    BY <1>0, <1>1, <1>2, <1>6 DEF Created
  <1>7. CASE LeaseLost(j)
    BY <1>0, <1>1, <1>2, <1>3, <1>7 DEF LeaseLost, SameCounts
  <1>8. CASE HandedOut(j)
    <2>1. ~Free(j)' /\ jobs' # jobs
      BY <1>1, <1>8 DEF HandedOut, Free
    <2> QED
      BY <1>0, <1>1, <1>2, <1>3, <1>4, <1>8, <2>1 DEF HandedOut
  <1>9. CASE LeaseRenewed(j) \/ Saved(j)
    <2>1. /\ jobs[j].state = "LEASED" /\ jobs'[j].state = "LEASED"
          /\ jobs'[j].attempt = jobs[j].attempt /\ Budget(j)' = Budget(j)
          /\ (Free(j)' <=> Free(j))
      BY <1>2, <1>9 DEF LeaseRenewed, Saved, SameCounts, SameOwners, Free
    <2> QED
      BY <1>0, <1>1, <1>2, <1>3, <1>4, <2>1
  <1>10. CASE Ended(j)
    BY <1>0, <1>1, <1>2, <1>3, <1>4, <1>10 DEF Ended, SameCounts
  <1>11. CASE LetGo(j)
    <2>1. Budget(j)' = Budget(j) /\ jobs'[j] = jobs[j] /\ Free(j)'
      BY <1>2, <1>11 DEF LetGo
    <2> QED
      BY <1>0, <1>1, <1>2, <1>3, <1>4, <1>11, <2>1 DEF LetGo
  <1>12. CASE OperatorEnded(j)
    BY <1>0, <1>1, <1>2, <1>3, <1>4, <1>12 DEF OperatorEnded, SameCounts
  <1> QED
    BY <1>3, <1>5, <1>6, <1>7, <1>8, <1>9, <1>10, <1>11, <1>12 DEF JobStep

\* A checkpoint is saved by the current attempt, and attempts count up.
LEMMA CheckpointStep ==
    ASSUME WorkersInv, [WorkersNext]_allVars, NEW j \in JobIds
    PROVE  /\ jobs'[j].checkpoint <= jobs'[j].attempt
           /\ Exists(j) => jobs'[j].checkpoint >= jobs[j].checkpoint
  <1>1. /\ jobs[j].checkpoint \in Nat /\ jobs[j].attempt \in Nat
        /\ jobs[j].checkpoint <= jobs[j].attempt
    BY DEF WorkersInv, IndInv, TypeOK, Row, CheckpointOfAttempt
  <1> QED
    BY <1>1, JobSteps
    DEF JobStep, Kept, Created, LeaseLost, HandedOut, LeaseRenewed, Saved, Ended, LetGo,
        OperatorEnded, SameCounts

----------------------------------------------------------------------------
\* When no worker is late for its lease, the inductive invariant holds in every state.
THEOREM WorkersInvariant ==
    ASSUME LateWorkers = {} PROVE WorkersSpec => []WorkersInv
  <1>1. WorkersInit => WorkersInv
    <2> SUFFICES ASSUME WorkersInit PROVE WorkersInv
      OBVIOUS
    <2> USE ConstantAssumption, WorkersAssumption
    <2>1. IndInv
      BY QueueInit DEF WorkersInit
    <2>2. /\ \A p \in Procs : call[p].op = "idle"
          /\ \A j \in JobIds : /\ jobs[j].state = "ABSENT" /\ jobs[j].attempt = 0
                               /\ jobs[j].max_attempts = 0 /\ jobs[j].checkpoint = 0
      BY IdleOp DEF WorkersInit, Init, NoRow
    <2>3. /\ \A w \in Workers : held[w] = Nothing /\ w \in Procs
          /\ crashes = 0 /\ started = {}
      BY DEF WorkersInit
    <2>4. WorkersTypeOK
      BY <2>3 DEF WorkersInit, WorkersTypeOK
    <2>5. Protocol
      BY <2>2, <2>3 DEF Protocol, Clients
    <2>6. \A j \in JobIds : Free(j)
      BY <2>2, <2>3 DEF Free, Engaged, Holds, Nothing
    <2>7. OneOwner /\ OwnedLive /\ HeldCurrent
      BY <2>6 DEF OneOwner, OwnedLive, HeldCurrent, Free, Engaged
    <2>8. AttemptLeft /\ RetryBudget /\ CheckpointOfAttempt
      BY <2>2, <2>3 DEF AttemptLeft, RetryBudget, CheckpointOfAttempt, Budget
    <2> QED
      BY <2>1, <2>4, <2>5, <2>7, <2>8 DEF WorkersInv
  <1>2. WorkersInv /\ [WorkersNext]_allVars => WorkersInv'
    <2> SUFFICES ASSUME WorkersInv, [WorkersNext]_allVars PROVE WorkersInv'
      OBVIOUS
    <2>1. CheckpointOfAttempt'
      BY CheckpointStep DEF CheckpointOfAttempt
    <2> QED
      BY <2>1, QueueInvStep, ProtocolStep, OwnerStep, HeldCurrentStep, BudgetStep DEF WorkersInv
  <1> QED
    BY <1>1, <1>2, PTL DEF WorkersSpec

\* Never are two workers at work on one job under a lease that still covers the present.
THEOREM WorkersLeaseExclusive ==
    ASSUME LateWorkers = {} PROVE WorkersSpec => []LeaseExclusive
  <1>1. WorkersInv => LeaseExclusive
    <2> SUFFICES ASSUME WorkersInv, NEW j \in JobIds
                 PROVE  Cardinality({w \in Workers : Holds(w, j) /\ held[w].until >= clock}) <= 1
      BY DEF LeaseExclusive
    <2> DEFINE H == {w \in Workers : Holds(w, j) /\ held[w].until >= clock}
    <2>1. \A w, v \in H : w = v
      BY DEF WorkersInv, OneOwner, Engaged
    <2> HIDE DEF H
    <2>2. ASSUME NEW w \in H PROVE H = {w}
      BY <2>1
    <2>3. Cardinality(H) = 0 \/ Cardinality(H) = 1
      <3>1. CASE H = {}
        BY <3>1, FS_EmptySet
      <3>2. CASE H # {}
        BY <2>2, <3>2, FS_Singleton
      <3> QED
        BY <3>1, <3>2
    <2> QED
      BY <2>3 DEF H
  <1> QED
    BY <1>1, WorkersInvariant, PTL

\* Retries are bounded: beyond the budget of a job, an attempt stands for a crashed worker.
THEOREM WorkersRetryBudget ==
    ASSUME LateWorkers = {} PROVE WorkersSpec => []RetryBudget
  BY WorkersInvariant, PTL DEF WorkersInv

\* The checkpoint a retry resumes from is never replaced by one of an earlier attempt.
THEOREM WorkersCheckpointForward ==
    ASSUME LateWorkers = {} PROVE WorkersSpec => CheckpointForward
  <1>1. WorkersInv /\ [WorkersNext]_allVars =>
          [\A j \in JobIds : Exists(j) => jobs'[j].checkpoint >= jobs[j].checkpoint]_allVars
    BY CheckpointStep
  <1> QED
    BY <1>1, WorkersInvariant, PTL DEF WorkersSpec, CheckpointForward

\* The queue implements the lifecycle of its docstring when no worker is late for its lease
\* and the operator cancels no job that a worker is working on.
THEOREM WorkersImplementLifecycle ==
    ASSUME LateWorkers = {}, ~CancelHeld PROVE WorkersSpec => ImplementsLifecycle
  <1> DEFINE status == [j \in JobIds |-> jobs[j].state]
             owners == [j \in JobIds |-> {w \in Workers : Engaged(w, j)}]
  <1>1. WorkersInit => Lifecycle!Init
    <2> SUFFICES ASSUME WorkersInit PROVE Lifecycle!Init
      OBVIOUS
    <2>1. \A j \in JobIds : jobs[j].state = "ABSENT"
      BY DEF WorkersInit, Init, NoRow
    <2>2. \A j \in JobIds, w \in Workers : ~Engaged(w, j)
      BY IdleOp, WorkersAssumption DEF WorkersInit, Init, Engaged, Holds, Nothing
    <2> QED
      BY <2>1, <2>2 DEF Lifecycle!Init
  <1>2. WorkersInv /\ [WorkersNext]_allVars => [Lifecycle!Next]_(Lifecycle!vars)
    <2> SUFFICES ASSUME WorkersInv, [WorkersNext]_allVars PROVE Lifecycle!Next
      OBVIOUS
    <2>1. /\ status' \in [JobIds -> Lifecycle!Statuses]
          /\ owners' \in [JobIds -> SUBSET Workers]
      <3>1. \A j \in JobIds : jobs'[j].state \in States \cup {"ABSENT"}
        BY QueueInvStep DEF IndInv, TypeOK, Row
      <3> QED
        BY <3>1 DEF Lifecycle!Statuses, States, Terminal
    <2>2. ASSUME NEW j \in JobIds
          PROVE  \/ Lifecycle!Submitted(j) \/ Lifecycle!Started(j) \/ Lifecycle!Reported(j)
                 \/ Lifecycle!Orphaned(j) \/ Lifecycle!Expired(j) \/ Lifecycle!Cancelled(j)
                 \/ Lifecycle!Untouched(j)
      <3>1. /\ status[j] = jobs[j].state /\ status'[j] = jobs'[j].state
        OBVIOUS
      <3>2. /\ owners[j] = {} <=> Free(j)
            /\ owners'[j] = {} <=> Free(j)'
            /\ SameOwners(j) => owners'[j] = owners[j]
            /\ \A w \in Workers : (\A v \in Workers : Engaged(v, j)' <=> v = w) => owners'[j] = {w}
        BY DEF Free, SameOwners
      <3>3. ~Free(j) => jobs[j].state = "LEASED"
        BY DEF WorkersInv, OwnedLive
      <3>4. Kept(j) \/ LeaseRenewed(j) \/ Saved(j) => Lifecycle!Untouched(j)
        BY <3>1, <3>2 DEF Kept, LeaseRenewed, Saved, Lifecycle!Untouched
      <3>5. Created(j) => Lifecycle!Submitted(j)
        BY <3>1, <3>2 DEF Created, Exists, Lifecycle!Submitted
      <3>6. LeaseLost(j) => Lifecycle!Expired(j)
        BY <3>1, <3>2 DEF LeaseLost, Lifecycle!Expired
      <3>7. HandedOut(j) => Lifecycle!Started(j)
        BY <3>1, <3>2 DEF HandedOut, Lifecycle!Started
      <3>8. Ended(j) => Lifecycle!Reported(j)
        BY <3>1, <3>2, <3>3 DEF Ended, Lifecycle!Reported
      <3>9. LetGo(j) => Lifecycle!Orphaned(j)
        BY <3>1, <3>2 DEF LetGo, Lifecycle!Orphaned
      <3>10. OperatorEnded(j) => Lifecycle!Cancelled(j)
        BY <3>1, <3>2 DEF OperatorEnded, Lifecycle!Cancelled
      <3> QED
        BY <3>4, <3>5, <3>6, <3>7, <3>8, <3>9, <3>10, JobSteps DEF JobStep
    <2> QED
      BY <2>1, <2>2 DEF Lifecycle!Next
  <1> QED
    BY <1>1, <1>2, WorkersInvariant, PTL DEF WorkersSpec, ImplementsLifecycle, Lifecycle!Spec
=============================================================================
