----------------------------- MODULE MainRuntime -----------------------------
(***************************************************************************)
(* MainRuntimeManager, main_agent/runtime.py: the execution of one request *)
(* (one plan under one idempotency key) by processes that share the        *)
(* checkpoint directory.  A process executes, resumes or recovers the      *)
(* request, or pauses or stops it for the operator.                        *)
(*                                                                         *)
(* The shared state is the checkpoint file, the temporary file that        *)
(* replaces it, and the audit log.  A method loads the checkpoint once,    *)
(* works on its copy in memory, and saves the copy; a step ends wherever   *)
(* another process can see or change a file, or the specialist agent is    *)
(* called.  A file that is being written stays the same file when another  *)
(* process renames it, and whoever has it open goes on writing.            *)
(*                                                                         *)
(* Payloads are abstracted to the value each result gives to one evidence  *)
(* key, if it has the key: what _detect_conflicts compares.                *)
(***************************************************************************)
EXTENDS PlanOrder, FiniteSets, Integers

CONSTANTS
    Procs,        \* processes with a MainRuntimeManager
    Plans,        \* the plans a request may carry
    Values,       \* values of the evidence key, positive; NoEvidence: the payload has no such key
    MaxRetries,   \* max_retries
    MaxHops,      \* max_hops of the request
    Exclusive,    \* TRUE: a method starts only when no other process is inside one
    MaxCrashes,   \* bound: crashes, and dispatcher exceptions that escape execute
    MaxAudit      \* bound: no method starts once the audit log has this many records

ASSUME RuntimeAssumption ==
    /\ Tasks \subseteq Nat /\ Values \subseteq Nat \ {0} /\ Plans \subseteq Plan
    /\ MaxRetries \in Nat /\ MaxHops \in Nat /\ MaxCrashes \in Nat /\ MaxAudit \in Nat
    /\ Exclusive \in BOOLEAN

VARIABLES
    plan,      \* the request's plan
    ordered,   \* the tuple _validate_and_order_plan makes of it
    disk,      \* the checkpoint file
    tmp,       \* the temporary file beside it
    handle,    \* what has become of the temporary file that a process opened and is writing
    audit,     \* main-runtime-audit.ndjson
    proc,      \* where each process is and what it has in memory
    calls,     \* how often the dispatcher was called for each task
    crashes

vars == <<plan, ordered, disk, tmp, handle, audit, proc, calls, crashes>>

NoFile == [file |-> "none"]
Empty == [file |-> "empty"]     \* opened for writing, and truncated by that
Torn == [file |-> "torn"]       \* a part of a checkpoint, or one with the end of a longer one behind it
NoEvidence == 0
Unset == -1      \* the attempt failed, or its result was rejected
NoReason == ""

\* RuntimeCheckpoint.  The keys of dispatched_idempotency_keys are the request's, one a task.
Checkpoint == [file : {"checkpoint"},
               status : {"RUNNING", "PAUSED", "STOPPED", "TIMEOUT", "FAILED", "CONFLICT", "COMPLETED"},
               completed : Seq(Tasks \X (Values \cup {NoEvidence})),
               failed : [Tasks -> {NoReason, "invalid_result", "conflict_detected"}],
               dispatched : SUBSET Tasks,
               paused : BOOLEAN, stopped : BOOLEAN]

NewCheckpoint ==
    [file |-> "checkpoint", status |-> "RUNNING", completed |-> <<>>,
     failed |-> [t \in Tasks |-> NoReason], dispatched |-> {}, paused |-> FALSE, stopped |-> FALSE]

CompletedTasks(cp) == {cp.completed[i][1] : i \in DOMAIN cp.completed}

FailedTasks(cp) == {t \in Tasks : cp.failed[t] # NoReason}

\* completed is a dict: in memory in the order of completion, in the file under sorted keys.
Place(c, entries) == Cardinality({d \in entries : d[1] <= c[1]})

InKeyOrder(completed) ==
    LET entries == ToSet(completed)
    IN  [k \in DOMAIN completed |-> CHOOSE c \in entries : Place(c, entries) = k]

Sorted(cp) == [cp EXCEPT !.completed = InKeyOrder(@)]

\* json.loads raises for a file that was not written to its end: no method gets past the load.
Readable(content) == content \notin {Empty, Torn}

\* _load_checkpoint
Loaded == IF disk = NoFile THEN NewCheckpoint ELSE disk

Idle == [pc |-> "idle"]

InExecute(pc, cp, i) ==
    [pc |-> pc, cp |-> cp, i |-> i, attempts |-> 0, result |-> Unset, prev |-> 0]

\* _save_checkpoint, and what the method does next: go on with the task after i, return, or
\* execute the request.
Saving(cp, then, i) == [pc |-> "open_tmp", cp |-> cp, then |-> then, i |-> i]

Task(p) == ordered[proc[p].i]

Goto(p, next) == proc' = [proc EXCEPT ![p] = next]

Init ==
    /\ plan \in {pl \in Plans : ValidPlan(pl, MaxHops)}
    /\ ordered = Ordered(plan)
    /\ disk = NoFile
    /\ tmp = NoFile
    /\ handle = [p \in Procs |-> "none"]
    /\ audit = <<>>
    /\ proc = [p \in Procs |-> Idle]
    /\ calls = [t \in Tasks |-> 0]
    /\ crashes = 0

\* A method that finds a file it cannot read raises before it does anything.
MayStart(p) ==
    /\ proc[p] = Idle /\ Len(audit) < MaxAudit /\ Readable(disk)
    /\ Exclusive => \A q \in Procs : proc[q] = Idle

----------------------------------------------------------------------------
(* pause, stop, resume: load, set a flag, save; resume then executes. *)

Pause(p) ==
    /\ MayStart(p)
    /\ Goto(p, Saving([Loaded EXCEPT !.paused = TRUE, !.status = "PAUSED"], "return", 0))
    /\ UNCHANGED <<plan, ordered, disk, tmp, handle, audit, calls, crashes>>

Stop(p) ==
    /\ MayStart(p)
    /\ Goto(p, Saving([Loaded EXCEPT !.stopped = TRUE, !.status = "STOPPED"], "return", 0))
    /\ UNCHANGED <<plan, ordered, disk, tmp, handle, audit, calls, crashes>>

Resume(p) ==
    /\ MayStart(p)
    /\ Goto(p, Saving([Loaded EXCEPT !.paused = FALSE, !.status = "RUNNING"], "execute", 0))
    /\ UNCHANGED <<plan, ordered, disk, tmp, handle, audit, calls, crashes>>

Halted(cp) == cp.paused \/ cp.stopped

\* execute, and recover, which is execute: a paused or stopped request is only reported.
Execute(p) ==
    /\ MayStart(p) \/ (proc[p].pc = "execute" /\ Readable(disk))
    /\ Goto(p, IF Halted(Loaded) THEN Idle ELSE InExecute("loop", Loaded, 1))
    /\ UNCHANGED <<plan, ordered, disk, tmp, handle, audit, calls, crashes>>

\* The second half of resume raises.
ExecuteFails(p) ==
    /\ proc[p].pc = "execute" /\ ~Readable(disk)
    /\ Goto(p, Idle)
    /\ UNCHANGED <<plan, ordered, disk, tmp, handle, audit, calls, crashes>>

----------------------------------------------------------------------------
(* The loop of execute over the ordered tasks. *)

AtTask(p) == proc[p].pc = "loop" /\ proc[p].i <= Len(ordered)

\* Faulty: the dispatched keys are not consulted.
SkipCompleted(cp, t) == t \in CompletedTasks(cp)

Skipped(cp, t) == t \in CompletedTasks(cp) \/ t \in cp.dispatched

Skip(p) ==
    /\ AtTask(p) /\ Skipped(proc[p].cp, Task(p))
    /\ Goto(p, [proc[p] EXCEPT !.i = @ + 1])
    /\ UNCHANGED <<plan, ordered, disk, tmp, handle, audit, calls, crashes>>

\* The deadline has passed when the loop reaches a task that is not completed.
Timeout(p) ==
    /\ AtTask(p) /\ Task(p) \notin CompletedTasks(proc[p].cp)
    /\ Goto(p, Saving([proc[p].cp EXCEPT !.status = "TIMEOUT"], "return", 0))
    /\ UNCHANGED <<plan, ordered, disk, tmp, handle, audit, calls, crashes>>

StartDispatch(p) ==
    /\ AtTask(p) /\ ~Skipped(proc[p].cp, Task(p))
    /\ Goto(p, [proc[p] EXCEPT !.pc = "dispatch"])
    /\ UNCHANGED <<plan, ordered, disk, tmp, handle, audit, calls, crashes>>

Called(p) == calls' = [calls EXCEPT ![Task(p)] = @ + 1]

\* The dispatcher returns a result that _validate_result accepts.
DispatchAccepted(p) ==
    /\ proc[p].pc = "dispatch"
    /\ \E v \in Values \cup {NoEvidence} :
         Goto(p, [proc[p] EXCEPT !.pc = "audit", !.result = v])
    /\ Called(p)
    /\ UNCHANGED <<plan, ordered, disk, tmp, handle, audit, crashes>>

\* The dispatcher returns a result that _validate_result rejects, or raises KeyError,
\* TypeError or ValueError.
DispatchRejected(p) ==
    /\ proc[p].pc = "dispatch"
    /\ Goto(p, [proc[p] EXCEPT !.pc = "audit", !.result = Unset])
    /\ Called(p)
    /\ UNCHANGED <<plan, ordered, disk, tmp, handle, audit, crashes>>

\* Faulty: one attempt too many.
RetriesLeftLate(attempts) == attempts <= MaxRetries + 1

RetriesLeft(attempts) == attempts <= MaxRetries

\* A retryable failure or a RuntimeError: tried again while attempts <= max_retries.
DispatchRetry(p) ==
    /\ proc[p].pc = "dispatch"
    /\ LET attempts == proc[p].attempts + 1 IN
         Goto(p, IF RetriesLeft(attempts) THEN [proc[p] EXCEPT !.attempts = attempts]
                 ELSE [proc[p] EXCEPT !.pc = "audit", !.result = Unset])
    /\ Called(p)
    /\ UNCHANGED <<plan, ordered, disk, tmp, handle, audit, crashes>>

----------------------------------------------------------------------------
(* Recording a result: the audit event, then the checkpoint. *)

\* _append_audit_event reads the last record's hash; a record is identified by its place.
ReadAudit(p) ==
    /\ proc[p].pc = "audit"
    /\ Goto(p, [proc[p] EXCEPT !.pc = "append", !.prev = Len(audit)])
    /\ UNCHANGED <<plan, ordered, disk, tmp, handle, audit, calls, crashes>>

\* _detect_conflicts: the tasks whose value differs from the last value before it in the dict.
Conflicts(completed) ==
    LET stated == SelectSeq(completed, LAMBDA c : c[2] # NoEvidence)
    IN  {stated[i][1] : i \in {k \in 2..Len(stated) : stated[k][2] # stated[k-1][2]}}

AfterFailure(cp, t) ==
    [cp EXCEPT !.dispatched = @ \cup {t}, !.failed[t] = "invalid_result", !.status = "FAILED"]

AfterResult(cp, t, v) ==
    LET completed == Append(cp.completed, <<t, v>>)
        conflicts == Conflicts(completed)
    IN  [cp EXCEPT !.dispatched = @ \cup {t}, !.completed = completed,
                   !.failed = [u \in Tasks |-> IF u \in conflicts THEN "conflict_detected"
                                               ELSE cp.failed[u]],
                   !.status = IF conflicts # {} THEN "CONFLICT" ELSE @]

\* Faulty: a failed task leaves no audit event.
AuditCompletedOnly(p, kind) ==
    audit' = IF kind = "task_failed" THEN audit
             ELSE Append(audit, [kind |-> kind, task |-> Task(p), prev |-> proc[p].prev])

AppendAudit(p, kind) ==
    audit' = Append(audit, [kind |-> kind, task |-> Task(p), prev |-> proc[p].prev])

RecordFailure(p) ==
    /\ proc[p].pc = "append" /\ proc[p].result = Unset
    /\ AppendAudit(p, "task_failed")
    /\ Goto(p, Saving(AfterFailure(proc[p].cp, Task(p)), "return", 0))
    /\ UNCHANGED <<plan, ordered, disk, tmp, handle, calls, crashes>>

RecordResult(p) ==
    /\ proc[p].pc = "append" /\ proc[p].result # Unset
    /\ AppendAudit(p, "task_completed")
    /\ LET cp == AfterResult(proc[p].cp, Task(p), proc[p].result) IN
         Goto(p, IF Conflicts(cp.completed) # {} THEN Saving(cp, "return", 0)
                 ELSE Saving(cp, "loop", proc[p].i + 1))
    /\ UNCHANGED <<plan, ordered, disk, tmp, handle, calls, crashes>>

Done(i) == i > Len(ordered)

Finish(p) ==
    /\ proc[p].pc = "loop" /\ Done(proc[p].i)
    /\ Goto(p, Saving([proc[p].cp EXCEPT !.status = "COMPLETED"], "return", 0))
    /\ UNCHANGED <<plan, ordered, disk, tmp, handle, audit, calls, crashes>>

----------------------------------------------------------------------------
(* _save_checkpoint: write the temporary file, then replace the checkpoint by it.  The name *)
(* of the temporary file is the same in every process, and write_text truncates it first.   *)

\* Faulty: the checkpoint is written in its place.
OpenInPlace(p) ==
    /\ proc[p].pc = "open_tmp"
    /\ disk' = Empty
    /\ handle' = [handle EXCEPT ![p] = "checkpoint"]
    /\ Goto(p, [proc[p] EXCEPT !.pc = "fill_tmp"])
    /\ UNCHANGED <<plan, ordered, tmp, audit, calls, crashes>>

OpenTmp(p) ==
    /\ proc[p].pc = "open_tmp"
    /\ tmp' = Empty
    /\ handle' = [handle EXCEPT ![p] = "tmp"]
    /\ Goto(p, [proc[p] EXCEPT !.pc = "fill_tmp"])
    /\ UNCHANGED <<plan, ordered, disk, audit, calls, crashes>>

\* What a file holds when a checkpoint was written from its beginning, over what another
\* process may have written meanwhile: lengths differ, and the longer one ends the file.
Filled(old, cp) == IF old \in {Empty, cp} THEN {cp} ELSE {cp, Torn}

FillTmp(p) ==
    /\ proc[p].pc = "fill_tmp"
    /\ \/ handle[p] = "tmp" /\ tmp' \in Filled(tmp, Sorted(proc[p].cp)) /\ UNCHANGED disk
       \/ handle[p] = "checkpoint" /\ disk' \in Filled(disk, Sorted(proc[p].cp)) /\ UNCHANGED tmp
       \/ handle[p] = "replaced" /\ UNCHANGED <<disk, tmp>>
    /\ handle' = [handle EXCEPT ![p] = "none"]
    /\ Goto(p, [proc[p] EXCEPT !.pc = "replace"])
    /\ UNCHANGED <<plan, ordered, audit, calls, crashes>>

\* Faulty: after a save the loop begins at the first task again.
AfterSaveFromStart(p) ==
    IF proc[p].then = "return" THEN Idle
    ELSE IF proc[p].then = "execute" THEN [pc |-> "execute"]
    ELSE InExecute("loop", proc[p].cp, 1)

AfterSave(p) ==
    CASE proc[p].then = "return"  -> Idle
      [] proc[p].then = "execute" -> [pc |-> "execute"]
      [] proc[p].then = "loop"    -> InExecute("loop", proc[p].cp, proc[p].i)

\* The temporary file becomes the checkpoint, also for those that are writing it, and the
\* checkpoint before it is no file of the directory any more.
Renamed(file) ==
    CASE file = "tmp" -> "checkpoint" [] file = "checkpoint" -> "replaced" [] OTHER -> file

Replace(p) ==
    /\ proc[p].pc = "replace" /\ tmp # NoFile
    /\ disk' = tmp
    /\ tmp' = NoFile
    /\ handle' = [q \in Procs |-> Renamed(handle[q])]
    /\ Goto(p, AfterSave(p))
    /\ UNCHANGED <<plan, ordered, audit, calls, crashes>>

\* Faulty: a save that fails begins again.
ReplaceRetried(p) ==
    /\ proc[p].pc = "replace"
    /\ tmp = NoFile \/ \E q \in Procs : handle[q] = "tmp"
    /\ Goto(p, [proc[p] EXCEPT !.pc = "open_tmp"])
    /\ UNCHANGED <<plan, ordered, disk, tmp, handle, audit, calls, crashes>>

\* Another process has moved the temporary file away (FileNotFoundError), or has it open
\* (PermissionError, on Windows): the method ends.
ReplaceFails(p) ==
    /\ proc[p].pc = "replace"
    /\ tmp = NoFile \/ \E q \in Procs : handle[q] = "tmp"
    /\ Goto(p, Idle)
    /\ UNCHANGED <<plan, ordered, disk, tmp, handle, audit, calls, crashes>>

\* The process dies, a write fails half-way, or the dispatcher raises an exception that execute
\* does not catch: what was in memory is gone, and a file that was being written is left so.
Crash(p) ==
    /\ crashes < MaxCrashes
    /\ proc[p] # Idle
    /\ \/ UNCHANGED <<disk, tmp>>
       \/ handle[p] = "tmp" /\ tmp' = Torn /\ UNCHANGED disk
       \/ handle[p] = "checkpoint" /\ disk' = Torn /\ UNCHANGED tmp
    /\ handle' = [handle EXCEPT ![p] = "none"]
    /\ Goto(p, Idle)
    /\ crashes' = crashes + 1
    /\ UNCHANGED <<plan, ordered, audit, calls>>

Work(p) ==
    \/ (proc[p].pc = "execute" /\ Execute(p)) \/ ExecuteFails(p)
    \/ Skip(p) \/ Timeout(p) \/ StartDispatch(p)
    \/ DispatchAccepted(p) \/ DispatchRejected(p) \/ DispatchRetry(p)
    \/ ReadAudit(p) \/ RecordFailure(p) \/ RecordResult(p) \/ Finish(p)
    \/ OpenTmp(p) \/ FillTmp(p) \/ Replace(p) \/ ReplaceFails(p)

Next == \E p \in Procs : Pause(p) \/ Stop(p) \/ Resume(p) \/ Execute(p) \/ Work(p) \/ Crash(p)

Spec == Init /\ [][Next]_vars

\* A process that is inside a method goes on with it.
FairSpec == Spec /\ \A p \in Procs : WF_vars(Work(p))

----------------------------------------------------------------------------
(* Properties. *)

\* A file is absent, empty, torn or a checkpoint; every copy in memory is a checkpoint; and a
\* file is open just while its process is between truncating and filling it.
TypeOK ==
    /\ plan \in Plans /\ ordered \in Seq(Tasks)
    /\ disk \in {NoFile, Empty, Torn} \/ disk \in Checkpoint
    /\ tmp \in {NoFile, Empty, Torn} \/ tmp \in Checkpoint
    /\ \A p \in Procs :
         handle[p] \in IF proc[p].pc = "fill_tmp" THEN {"tmp", "checkpoint", "replaced"} ELSE {"none"}
    /\ \A p \in Procs : \/ proc[p].pc \in {"idle", "execute"}
                         \/ proc[p].cp \in Checkpoint
    /\ \A i \in DOMAIN audit : audit[i].task \in Tasks /\ audit[i].prev \in 0..i-1
    /\ calls \in [Tasks -> Nat]
    /\ crashes \in 0..MaxCrashes

\* max_retries bounds the calls of a specialist, over every execute, resume and recover of the
\* request: a task is called at most max_retries + 1 times, and as often again for each
\* crash that lost the record of a call.
DispatchBudget == \A t \in Tasks : calls[t] <= (MaxRetries + 1) * (1 + crashes)

\* A crash at any step of a save, between truncating, filling and renaming the temporary file,
\* leaves a checkpoint from which the request can be taken up again.  This needs one method at a
\* time: two that save at once share the temporary file and can install what neither wrote.
CheckpointReadable == Readable(disk)

\* The audit log is ahead of the checkpoint: whatever a readable checkpoint says of a task's
\* result, the event that justifies it is in the log, crash or no crash between the two writes,
\* and whichever process wrote what another one installed.
AuditCovers ==
    disk.file = "checkpoint" =>
      /\ \A t \in CompletedTasks(disk) :
           \E i \in DOMAIN audit : audit[i].kind = "task_completed" /\ audit[i].task = t
      /\ \A t \in Tasks : disk.failed[t] = "invalid_result" =>
           \E i \in DOMAIN audit : audit[i].kind = "task_failed" /\ audit[i].task = t

\* The tasks a readable checkpoint records as dispatched include, for each of them, all that it
\* depends on, however often the execution was interrupted and taken up again, and whichever
\* process wrote what another one installed.
KeysClosed ==
    disk.file = "checkpoint" => \A t \in disk.dispatched : ToSet(plan.depends_on[t]) \subseteq disk.dispatched

\* A task whose dispatch is recorded is never dispatched again, through any sequence of
\* executions, failures, conflicts, timeouts and crashes.
RecordedNotRedispatched ==
    [][disk.file = "checkpoint" => \A t \in disk.dispatched : calls'[t] = calls[t]]_vars

\* How many steps a method may still take.  For a task it is MaxRetries + 7: a look at it, the
\* calls, two steps at the audit log and three at the checkpoint.
TasksLeft(i) == IF Done(i) THEN 0 ELSE Len(ordered) + 1 - i

LoopSteps(i) == (MaxRetries + 7) * TasksLeft(i) + 4

StepsAfterSave(r) ==
    CASE r.then = "return"  -> 0
      [] r.then = "execute" -> LoopSteps(1) + 1
      [] r.then = "loop"    -> LoopSteps(r.i)

StepsLeft(r) ==
    CASE r.pc = "idle"      -> 0
      [] r.pc = "execute"   -> LoopSteps(1) + 1
      [] r.pc = "loop"      -> LoopSteps(r.i)
      [] r.pc = "dispatch"  -> LoopSteps(r.i + 1) + 6 + MaxRetries - r.attempts
      [] r.pc = "audit"     -> LoopSteps(r.i + 1) + 5
      [] r.pc = "append"    -> LoopSteps(r.i + 1) + 4
      [] r.pc = "open_tmp"  -> StepsAfterSave(r) + 3
      [] r.pc = "fill_tmp"  -> StepsAfterSave(r) + 2
      [] r.pc = "replace"   -> StepsAfterSave(r) + 1

\* A method comes closer to its end with each of its steps, whatever the other processes do to
\* the files meanwhile: no retry, skipped task, failed save or resumption makes it start over.
StepsRunOut ==
    [][\A p \in Procs : proc[p] # Idle /\ proc'[p] # proc[p] =>
         StepsLeft(proc'[p]) \in 0..StepsLeft(proc[p]) - 1]_vars

\* Every method returns: the retry loop, the task loop and the saves all end.
EveryExecutionReturns == \A p \in Procs : proc[p] # Idle ~> proc[p] = Idle
=============================================================================
