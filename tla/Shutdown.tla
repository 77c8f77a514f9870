------------------------------ MODULE Shutdown ------------------------------
(***************************************************************************)
(* Graceful shutdown, runtime/shutdown.py, with the serve loop of the      *)
(* command line, cli.py _serve_runtime, on the main thread and threads of  *)
(* the same process that register callbacks, ask for the shutdown and poll *)
(* for it.                                                                 *)
(*                                                                         *)
(* A thread is a stack of calls, its innermost call first.  Python runs a  *)
(* signal handler on the main thread between two steps of whatever that    *)
(* thread is doing, so a handler is one more call on the main thread's     *)
(* stack.  Neither _SHUTDOWN_LOCK nor the lock inside threading.Event may  *)
(* be taken twice by one thread.                                           *)
(*                                                                         *)
(* The threads are not daemons: the process lasts until all have ended.    *)
(***************************************************************************)
EXTENDS Integers, SequencesExt

CONSTANTS
    Main,         \* the thread that serves and on which handlers run
    Workers,      \* the other threads
    Callbacks,    \* what is registered, each at most once
    Failing,      \* callbacks that raise
    Nobody,       \* the owner of a free lock
    MaxSignals,   \* bound: signals delivered
    MaxTriggers   \* bound: calls of trigger_shutdown

ASSUME ShutdownAssumption ==
    /\ Main \notin Workers /\ Nobody \notin Workers \cup {Main}
    /\ Failing \subseteq Callbacks
    /\ MaxSignals \in Nat /\ MaxTriggers \in Nat

VARIABLES
    lock,       \* the owner of _SHUTDOWN_LOCK
    cond,       \* the owner of the lock inside _SHUTDOWN_EVENT
    event,      \* whether _SHUTDOWN_EVENT is set
    registered, \* _CALLBACKS
    called,     \* the callbacks that were called, in order
    stack,      \* the calls each thread is inside, innermost first
    at,         \* where each thread is outside those calls
    signals,
    triggers,
    due         \* history: the callbacks registered when the event was set

shared == <<lock, cond, event, registered, called, due>>
counts == <<signals, triggers>>
vars == <<shared, stack, at, counts>>

Threads == Workers \cup {Main}

\* A call: the step it is at, and the callbacks it still has in hand.
Call(pc, todo) == [pc |-> pc, todo |-> todo]

Init ==
    /\ lock = Nobody /\ cond = Nobody /\ event = FALSE
    /\ registered = <<>> /\ called = <<>> /\ due = {}
    /\ stack = [t \in Threads |-> <<>>]
    /\ at = [t \in Threads |-> IF t = Main THEN "boot" ELSE "running"]
    /\ signals = 0 /\ triggers = 0

At(t, pc) == stack[t] # <<>> /\ Head(stack[t]).pc = pc
Todo(t) == Head(stack[t]).todo

Push(t, call) == stack' = [stack EXCEPT ![t] = <<call>> \o @]
Becomes(t, pc, todo) == stack' = [stack EXCEPT ![t] = <<Call(pc, todo)>> \o Tail(@)]
Return(t) == stack' = [stack EXCEPT ![t] = Tail(@)]

----------------------------------------------------------------------------
(* register_shutdown_callback *)

Register(t, c) ==
    /\ at[t] \in {"boot", "running"} /\ stack[t] = <<>>
    /\ \A u \in Threads : \A i \in DOMAIN stack[u] :
           stack[u][i].pc \in {"reg_lock", "reg_append"} => stack[u][i].todo # <<c>>
    /\ c \notin Range(registered)
    /\ Push(t, Call("reg_lock", <<c>>))
    /\ UNCHANGED <<shared, at, counts>>

RegLock(t) ==
    /\ At(t, "reg_lock") /\ lock = Nobody
    /\ lock' = t
    /\ Becomes(t, "reg_append", Todo(t))
    /\ UNCHANGED <<cond, event, registered, called, due, at, counts>>

RegAppend(t) ==
    /\ At(t, "reg_append")
    /\ registered' = registered \o Todo(t)
    /\ lock' = Nobody
    /\ Return(t)
    /\ UNCHANGED <<cond, event, called, due, at, counts>>

----------------------------------------------------------------------------
(* _do_shutdown, called by trigger_shutdown and by the signal handlers *)

\* Faulty: a call that finds the event set goes on to the callbacks.
AlreadySetIgnored == FALSE

\* What a second call sees under the lock.
AlreadySet == event

TriggerShutdown(t) ==
    /\ at[t] = "running" /\ stack[t] = <<>>
    /\ triggers < MaxTriggers /\ triggers' = triggers + 1
    /\ Push(t, Call("sd_lock", <<>>))
    /\ UNCHANGED <<shared, at, signals>>

\* A signal interrupts the main thread wherever it is once the handlers are in place.
Signal ==
    /\ at[Main] \in {"serve", "returned"}
    /\ \E t \in Threads : at[t] # "ended"
    /\ signals < MaxSignals /\ signals' = signals + 1
    /\ Push(Main, Call("sd_lock", <<>>))
    /\ UNCHANGED <<shared, at, triggers>>

ShutLock(t) ==
    /\ At(t, "sd_lock") /\ lock = Nobody
    /\ lock' = t
    /\ Becomes(t, "sd_check", <<>>)
    /\ UNCHANGED <<cond, event, registered, called, due, at, counts>>

\* Faulty: a second call returns with the lock taken.
ShutCheckLeavingLock(t) ==
    /\ At(t, "sd_check")
    /\ \/ AlreadySet /\ Return(t)
       \/ ~AlreadySet /\ Becomes(t, "sd_set", <<>>)
    /\ UNCHANGED <<lock, cond, event, registered, called, due, at, counts>>

ShutCheck(t) ==
    /\ At(t, "sd_check")
    /\ \/ /\ AlreadySet
          /\ lock' = Nobody
          /\ Return(t)
       \/ /\ ~AlreadySet
          /\ Becomes(t, "sd_set", <<>>)
          /\ UNCHANGED lock
    /\ UNCHANGED <<cond, event, registered, called, due, at, counts>>

\* Event.set enters its own lock ...
SetEnter(t) ==
    /\ At(t, "sd_set") /\ cond = Nobody
    /\ cond' = t
    /\ Becomes(t, "sd_flag", <<>>)
    /\ UNCHANGED <<lock, event, registered, called, due, at, counts>>

\* ... and leaves it with the flag up.
SetFlag(t) ==
    /\ At(t, "sd_flag")
    /\ event' = TRUE /\ cond' = Nobody
    /\ due' = Range(registered)
    /\ Becomes(t, "sd_unlock", <<>>)
    /\ UNCHANGED <<lock, registered, called, at, counts>>

ShutUnlock(t) ==
    /\ At(t, "sd_unlock")
    /\ lock' = Nobody
    /\ Becomes(t, "sd_copy", <<>>)
    /\ UNCHANGED <<cond, event, registered, called, due, at, counts>>

\* The list is copied without the lock.
CopyCallbacks(t) ==
    /\ At(t, "sd_copy")
    /\ Becomes(t, "sd_run", Reverse(registered))
    /\ UNCHANGED <<shared, at, counts>>

\* Faulty: the exception of a callback ends the loop.
LeftAfterEscaping(todo) == IF Head(todo) \in Failing THEN <<>> ELSE Tail(todo)

\* What is left to call: an exception of the callback is dropped.
LeftAfter(todo) == Tail(todo)

RunCallback(t) ==
    /\ At(t, "sd_run") /\ Todo(t) # <<>>
    /\ called' = Append(called, Head(Todo(t)))
    /\ Becomes(t, "sd_run", LeftAfter(Todo(t)))
    /\ UNCHANGED <<lock, cond, event, registered, due, at, counts>>

ShutReturn(t) ==
    /\ At(t, "sd_run") /\ Todo(t) = <<>>
    /\ Return(t)
    /\ UNCHANGED <<shared, at, counts>>

----------------------------------------------------------------------------
(* _serve_runtime on the main thread; wait_for_shutdown is Event.wait *)

\* The registry is ready: the handlers are installed.
InstallSignalHandlers ==
    /\ at[Main] = "boot" /\ stack[Main] = <<>>
    /\ at' = [at EXCEPT ![Main] = "serve"]
    /\ UNCHANGED <<shared, stack, counts>>

\* The registry is not ready: _serve_runtime raises.
RefuseToServe ==
    /\ at[Main] = "boot" /\ stack[Main] = <<>>
    /\ at' = [at EXCEPT ![Main] = "ended"]
    /\ UNCHANGED <<shared, stack, counts>>

WaitForShutdown ==
    /\ at[Main] = "serve" /\ stack[Main] = <<>>
    /\ Push(Main, Call("wait", <<>>))
    /\ UNCHANGED <<shared, at, counts>>

WaitEnter ==
    /\ At(Main, "wait") /\ cond = Nobody
    /\ cond' = Main
    /\ Becomes(Main, "wait_check", <<>>)
    /\ UNCHANGED <<lock, event, registered, called, due, at, counts>>

\* The event is set: wait returns and so does the serve loop.  Otherwise wait sleeps.
WaitCheck ==
    /\ At(Main, "wait_check")
    /\ cond' = Nobody
    /\ \/ /\ event
          /\ Return(Main)
          /\ at' = [at EXCEPT ![Main] = "returned"]
       \/ /\ ~event
          /\ Becomes(Main, "wait_sleep", <<>>)
          /\ UNCHANGED at
    /\ UNCHANGED <<lock, event, registered, called, due, counts>>

\* The sleep ends by the notification of set or by its timeout.
WaitWake ==
    /\ At(Main, "wait_sleep")
    /\ \/ event /\ Becomes(Main, "wake_true", <<>>)
       \/ Becomes(Main, "wake_false", <<>>)
    /\ UNCHANGED <<shared, at, counts>>

\* Condition.wait takes the lock again ...
WaitReacquire ==
    /\ cond = Nobody
    /\ cond' = Main
    /\ \/ At(Main, "wake_true") /\ Becomes(Main, "leave_true", <<>>)
       \/ At(Main, "wake_false") /\ Becomes(Main, "leave_false", <<>>)
    /\ UNCHANGED <<lock, event, registered, called, due, at, counts>>

\* ... and Event.wait leaves it, telling whether it was notified.
WaitLeave ==
    /\ \/ /\ At(Main, "leave_true")
          /\ at' = [at EXCEPT ![Main] = "returned"]
       \/ /\ At(Main, "leave_false")
          /\ UNCHANGED at
    /\ cond' = Nobody
    /\ Return(Main)
    /\ UNCHANGED <<lock, event, registered, called, due, counts>>

\* The main thread has returned from _serve_runtime and from every handler.
MainEnds ==
    /\ at[Main] = "returned" /\ stack[Main] = <<>>
    /\ at' = [at EXCEPT ![Main] = "ended"]
    /\ UNCHANGED <<shared, stack, counts>>

\* A thread between two jobs polls is_shutdown_requested and stops when it is true.
WorkerStops(t) ==
    /\ at[t] = "running" /\ stack[t] = <<>>
    /\ event
    /\ at' = [at EXCEPT ![t] = "ended"]
    /\ UNCHANGED <<shared, stack, counts>>

----------------------------------------------------------------------------

Locking(t) ==
    \/ RegLock(t) \/ ShutLock(t) \/ SetEnter(t)
    \/ t = Main /\ (WaitEnter \/ WaitReacquire)

Running(t) ==
    \/ RegAppend(t) \/ ShutCheck(t) \/ SetFlag(t) \/ ShutUnlock(t)
    \/ CopyCallbacks(t) \/ RunCallback(t) \/ ShutReturn(t)
    \/ t \in Workers /\ WorkerStops(t)
    \/ /\ t = Main
       /\ \/ InstallSignalHandlers \/ RefuseToServe
          \/ WaitForShutdown \/ WaitCheck \/ WaitWake \/ WaitLeave \/ MainEnds

Ended == \A t \in Threads : at[t] = "ended"

Next ==
    \/ \E t \in Threads, c \in Callbacks : Register(t, c)
    \/ \E t \in Workers : TriggerShutdown(t)
    \/ Signal
    \/ \E t \in Threads : Locking(t) \/ Running(t)

Spec == Init /\ [][Next]_vars

\* The system schedules every thread; a lock that is free time and again is obtained.
Fairness == \A t \in Threads : WF_vars(Running(t)) /\ SF_vars(Locking(t))

FairSpec == Spec /\ Fairness

----------------------------------------------------------------------------
(* Properties *)

(* Every variable has its type. *)
TypeOK ==
    /\ lock \in Threads \cup {Nobody} /\ cond \in Threads \cup {Nobody}
    /\ event \in BOOLEAN
    /\ Range(registered) \cup Range(called) \cup due \subseteq Callbacks
    /\ DOMAIN stack = Threads
    /\ at \in [Threads -> {"boot", "serve", "returned", "running", "ended"}]
    /\ signals \in 0..MaxSignals /\ triggers \in 0..MaxTriggers

(* However many signals and calls of trigger_shutdown race, no callback of   *)
(* register_shutdown_callback is called twice, and those that are called are *)
(* called in the reverse of the order they were registered in.               *)
CallbacksOnce ==
    \A i, j \in DOMAIN called : i < j =>
        \E k, l \in DOMAIN registered :
            k < l /\ registered[k] = called[j] /\ registered[l] = called[i]

\* The owner of the lock that a thread's innermost call is waiting for.
WaitsFor(t) ==
    IF stack[t] = <<>> THEN Nobody
    ELSE CASE Head(stack[t]).pc \in {"reg_lock", "sd_lock"} -> lock
           [] Head(stack[t]).pc \in {"sd_set", "wait", "wake_true", "wake_false"} -> cond
           [] OTHER -> Nobody

\* A thread waits for itself, or for one that waits for it.
Deadlocked ==
    \E t \in Threads : WaitsFor(t) # Nobody /\ t \in {WaitsFor(t), WaitsFor(WaitsFor(t))}

\* A signal handler runs inside a call of the main thread that holds one of the locks.
InterruptedHolder ==
    \E i \in DOMAIN stack[Main] : i > 1 /\
        stack[Main][i].pc \in {"reg_append", "sd_check", "sd_set", "sd_flag", "sd_unlock",
                               "wait_check", "leave_true", "leave_false"}

(* No threads wait for one another, in whatever order they take and leave    *)
(* the two locks, unless a handler interrupted the main thread inside one.   *)
NoOtherDeadlock == Deadlocked => InterruptedHolder

(* A shutdown that some thread asked for comes to its end, although callbacks *)
(* raise and threads race: every callback that was registered when the event *)
(* was set has been called, the serve loop has returned and every thread has *)
(* ended.  The one exception is the deadlock of a handler that interrupted   *)
(* the main thread inside one of the two locks.                              *)
ShutdownCompletes ==
    (\E t \in Threads : At(t, "sd_lock"))
        ~> \/ Ended /\ due \subseteq Range(called)
           \/ Deadlocked /\ InterruptedHolder
=============================================================================
