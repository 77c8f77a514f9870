--------------------------- MODULE ShutdownProofs ---------------------------
(* However signals, triggers and registrations interleave, and whatever a handler interrupts: *)
(* one call of _do_shutdown runs the callbacks, each once, the last registered first.         *)
EXTENDS Shutdown, SequenceTheorems, TLAPS

Pcs ==
    {"reg_lock", "reg_append", "sd_lock", "sd_check", "sd_set", "sd_flag", "sd_unlock", "sd_copy", "sd_run",
     "wait", "wait_check", "wait_sleep", "wake_true", "wake_false", "leave_true", "leave_false"}

Frame == [pc : Pcs, todo : Seq(Callbacks)]

Stacks == [Threads -> Seq(Frame)]

(* The calls the threads are inside, each with its depth in its thread's stack, which does not *)
(* change while further calls are made and return.                                             *)
CallAt(s, t, d) ==
    [thread |-> t, depth |-> d, pc |-> s[Len(s) + 1 - d].pc, todo |-> s[Len(s) + 1 - d].todo]

Calls == UNION {{CallAt(stack[t], t, d) : d \in 1..Len(stack[t])} : t \in Threads}

Top(t) == CallAt(stack[t], t, Len(stack[t]))

Registering == {"reg_lock", "reg_append"}

\* Inside a with block of _SHUTDOWN_LOCK.
Holding == {"reg_append", "sd_check", "sd_set", "sd_flag", "sd_unlock"}

\* Past the check of the event: the shutdown is this call's to do.
Doing == {"sd_set", "sd_flag", "sd_unlock", "sd_copy", "sd_run"}

TypeInv ==
    /\ stack \in Stacks
    /\ registered \in Seq(Callbacks) /\ called \in Seq(Callbacks)
    /\ event \in BOOLEAN

\* One call, of all threads, is inside the lock, and its thread has it.
LockInv ==
    /\ \A x \in Calls : x.pc \in Holding => lock = x.thread
    /\ \A x, y \in Calls : x.pc \in Holding /\ y.pc \in Holding => x = y

\* One call does the shutdown.  It sets the event before it calls the first callback.
DoingInv ==
    /\ \A x, y \in Calls : x.pc \in Doing /\ y.pc \in Doing => x = y
    /\ \A x \in Calls : /\ x.pc \in {"sd_set", "sd_flag"} => ~event
                        /\ x.pc \in {"sd_unlock", "sd_copy", "sd_run"} => event
                        /\ x.pc \in Doing \ {"sd_run"} => called = <<>>
    /\ ~event => called = <<>>

(* s goes backwards through the list R, from one place of it on. *)
BackThrough(s, R) ==
    \E n \in 0..Len(R) : Len(s) <= n /\ \A i \in DOMAIN s : s[i] = R[n + 1 - i]

\* What was called, with what is still to be called, goes backwards through the list.
CalledInv ==
    /\ BackThrough(called, registered)
    /\ \A x \in Calls : x.pc = "sd_run" => BackThrough(called \o x.todo, registered)

\* What was registered when the event was set is called, or going to be.
DueInv ==
    /\ \A x \in Calls : /\ x.pc \in {"sd_unlock", "sd_copy"} => due \subseteq Range(registered)
                        /\ x.pc = "sd_run" => due \subseteq Range(called) \cup Range(x.todo)
    /\ (event /\ \A x \in Calls : x.pc \notin Doing) => due \subseteq Range(called)

\* No callback is registered twice, or registered and about to be.
RegisteredInv ==
    /\ \A k, l \in DOMAIN registered : registered[k] = registered[l] => k = l
    /\ \A x \in Calls : x.pc \in Registering =>
         \E c \in Callbacks : x.todo = <<c>> /\ c \notin Range(registered)
    /\ \A x, y \in Calls : x.pc \in Registering /\ y.pc \in Registering /\ x.todo = y.todo => x = y

ShutdownInv == TypeInv /\ LockInv /\ DoingInv /\ CalledInv /\ DueInv /\ RegisteredInv

-----------------------------------------------------------------------------
(* The three ways a stack changes. *)

\* The calls are those that some thread is inside.
LEMMA CallsFacts ==
    ASSUME NEW x
    PROVE  x \in Calls <=> \E t \in Threads : \E d \in 1..Len(stack[t]) : x = CallAt(stack[t], t, d)
  BY DEF Calls

\* The innermost call of a thread.
LEMMA TopFacts ==
    ASSUME TypeInv, NEW t \in Threads, stack[t] # <<>>
    PROVE  /\ Top(t) \in Calls /\ Top(t).thread = t
           /\ Top(t).pc = Head(stack[t]).pc /\ Top(t).todo = Todo(t) /\ Todo(t) \in Seq(Callbacks)
  <1>1. stack[t] \in Seq(Frame)
    BY DEF TypeInv, Stacks
  <1>2. Len(stack[t]) \in Nat /\ Len(stack[t]) \in 1..Len(stack[t]) /\ Head(stack[t]) = stack[t][1]
    BY <1>1
  <1>3. Top(t) \in Calls
    BY <1>2, CallsFacts DEF Top
  <1>4. Head(stack[t]) \in Frame
    BY <1>1, HeadTailProperties
  <1>5. Todo(t) \in Seq(Callbacks)
    BY <1>4 DEF Frame, Todo
  <1>6. stack[t][Len(stack[t]) + 1 - Len(stack[t])] = Head(stack[t])
    BY <1>2
  <1> QED
    BY <1>3, <1>5, <1>6 DEF Top, CallAt, Todo

\* The stack of t becomes s, which has the same m outermost calls.
LEMMA StackChange ==
    ASSUME TypeInv, NEW t \in Threads, NEW s \in Seq(Frame), stack' = [stack EXCEPT ![t] = s],
           NEW m \in Nat, m <= Len(stack[t]), m <= Len(s),
           \A d \in 1..m : s[Len(s) + 1 - d] = stack[t][Len(stack[t]) + 1 - d]
    PROVE  /\ stack' \in Stacks
           /\ \A x : x \in Calls' <=>
                \/ x \in Calls /\ \A d \in (m + 1)..Len(stack[t]) : x # CallAt(stack[t], t, d)
                \/ \E d \in (m + 1)..Len(s) : x = CallAt(s, t, d)
  <1>1. stack \in [Threads -> Seq(Frame)] /\ Len(s) \in Nat /\ Len(stack[t]) \in Nat
    BY DEF TypeInv, Stacks
  <1>2. stack' \in Stacks
    BY <1>1 DEF Stacks
  <1>3. stack'[t] = s /\ \A u \in Threads : u # t => stack'[u] = stack[u]
    BY <1>1
  <1>4. \A d \in 1..m : CallAt(s, t, d) = CallAt(stack[t], t, d)
    BY DEF CallAt
  <1>5. \A u, v \in Threads : \A d, e : CallAt(stack[u], u, d) = CallAt(stack[v], v, e) => u = v /\ d = e
    BY DEF CallAt
  <1>6. \A x : x \in Calls' <=> \E u \in Threads : \E d \in 1..Len(stack'[u]) : x = CallAt(stack'[u], u, d)
    BY DEF Calls
  <1>7. ASSUME NEW x, x \in Calls'
        PROVE  \/ x \in Calls /\ \A d \in (m + 1)..Len(stack[t]) : x # CallAt(stack[t], t, d)
               \/ \E d \in (m + 1)..Len(s) : x = CallAt(s, t, d)
    <2>0. PICK u \in Threads : \E d \in 1..Len(stack'[u]) : x = CallAt(stack'[u], u, d)
      BY <1>6, <1>7
    <2>1. PICK d \in 1..Len(stack'[u]) : x = CallAt(stack'[u], u, d)
      BY <2>0
    <2>2. CASE u # t
      <3>1. stack'[u] = stack[u]
        BY <1>3, <2>2
      <3>2. x \in Calls
        BY <2>1, <3>1, CallsFacts
      <3>3. \A e : x # CallAt(stack[t], t, e)
        BY <2>1, <2>2 DEF CallAt
      <3> QED
        BY <3>2, <3>3
    <2>3. CASE u = t /\ d > m
      <3>1. d \in (m + 1)..Len(s)
        BY <1>1, <1>3, <2>3
      <3> QED
        BY <1>3, <2>1, <2>3, <3>1
    <2>4. CASE u = t /\ ~(d > m)
      <3>1. d \in 1..m /\ d \in 1..Len(stack[t])
        BY <1>1, <1>3, <2>4
      <3>2. x = CallAt(stack[t], t, d)
        BY <1>3, <1>4, <2>1, <2>4, <3>1
      <3>3. \A e \in (m + 1)..Len(stack[t]) : e # d
        BY <3>1
      <3>4. \A e : x = CallAt(stack[t], t, e) => d = e
        BY <3>2 DEF CallAt
      <3>5. x \in Calls
        BY <3>1, <3>2, CallsFacts
      <3> QED
        BY <3>3, <3>4, <3>5
    <2> QED
      BY <2>2, <2>3, <2>4
  <1>8. ASSUME NEW x, x \in Calls, \A d \in (m + 1)..Len(stack[t]) : x # CallAt(stack[t], t, d)
        PROVE  x \in Calls'
    <2>0. PICK u \in Threads : \E d \in 1..Len(stack[u]) : x = CallAt(stack[u], u, d)
      BY <1>8, CallsFacts
    <2>1. PICK d \in 1..Len(stack[u]) : x = CallAt(stack[u], u, d)
      BY <2>0
    <2>2. CASE u # t
      BY <1>3, <1>6, <2>1, <2>2
    <2>3. CASE u = t
      <3>1. d \in 1..m /\ d \in 1..Len(s)
        BY <1>1, <1>8, <2>1, <2>3
      <3> QED
        BY <1>3, <1>4, <1>6, <2>1, <2>3, <3>1
    <2> QED
      BY <2>2, <2>3
  <1>9. ASSUME NEW d \in (m + 1)..Len(s) PROVE CallAt(s, t, d) \in Calls'
    <2>1. d \in 1..Len(stack'[t])
      BY <1>1, <1>3
    <2> QED
      BY <1>3, <1>6, <2>1
  <1> QED
    BY <1>2, <1>7, <1>8, <1>9

\* A call is made.
LEMMA PushCalls ==
    ASSUME TypeInv, NEW t \in Threads, NEW pc \in Pcs, NEW todo \in Seq(Callbacks),
           Push(t, Call(pc, todo))
    PROVE  /\ stack' \in Stacks
           /\ \E new : /\ new.thread = t /\ new.pc = pc /\ new.todo = todo
                       /\ Calls' = Calls \cup {new} /\ new \notin Calls
  <1> DEFINE f == Call(pc, todo)
             n == Len(stack[t])
             s == <<f>> \o stack[t]
             new == CallAt(s, t, n + 1)
  <1>1. stack[t] \in Seq(Frame) /\ f \in Frame /\ n \in Nat /\ f.pc = pc /\ f.todo = todo
    <2>1. stack[t] \in Seq(Frame)
      BY DEF TypeInv, Stacks
    <2>2. f \in Frame /\ f.pc = pc /\ f.todo = todo
      BY DEF Frame, Call
    <2> QED
      BY <2>1, <2>2
  <1>2. stack' = [stack EXCEPT ![t] = s]
    BY DEF Push
  <1> HIDE DEF f
  <1>3. s \in Seq(Frame) /\ Len(s) = n + 1 /\ s[1] = f /\ \A i \in 1..n : s[i + 1] = stack[t][i]
    BY <1>1
  <1> HIDE DEF s
  <1>4. \A d \in 1..n : s[Len(s) + 1 - d] = stack[t][n + 1 - d]
    <2> SUFFICES ASSUME NEW d \in 1..n PROVE s[Len(s) + 1 - d] = stack[t][n + 1 - d]
      OBVIOUS
    <2>1. n + 1 - d \in 1..n /\ Len(s) + 1 - d = (n + 1 - d) + 1
      BY <1>1, <1>3
    <2> QED
      BY <1>3, <2>1
  <1>5. n <= Len(stack[t]) /\ n <= Len(s) /\ (n + 1)..Len(stack[t]) = {} /\ (n + 1)..Len(s) = {n + 1}
    BY <1>1, <1>3
  <1>6. /\ stack' \in Stacks
        /\ \A x : x \in Calls' <=> x \in Calls \/ x = new
    <2>1. /\ stack' \in Stacks
          /\ \A x : x \in Calls' <=>
               \/ x \in Calls /\ \A d \in (n + 1)..Len(stack[t]) : x # CallAt(stack[t], t, d)
               \/ \E d \in (n + 1)..Len(s) : x = CallAt(s, t, d)
      <3> DEFINE m == n
      <3>1. /\ m \in Nat /\ m <= Len(stack[t]) /\ m <= Len(s) /\ s \in Seq(Frame)
            /\ \A d \in 1..m : s[Len(s) + 1 - d] = stack[t][Len(stack[t]) + 1 - d]
        BY <1>1, <1>3, <1>4, <1>5
      <3> HIDE DEF m
      <3>2. /\ stack' \in Stacks
            /\ \A x : x \in Calls' <=>
                 \/ x \in Calls /\ \A d \in (m + 1)..Len(stack[t]) : x # CallAt(stack[t], t, d)
                 \/ \E d \in (m + 1)..Len(s) : x = CallAt(s, t, d)
        BY <1>2, <3>1, StackChange
      <3> QED
        BY <3>2 DEF m
    <2> QED
      BY <1>5, <2>1
  <1>7. new.thread = t /\ new.depth = n + 1 /\ new.pc = pc /\ new.todo = todo
    BY <1>1, <1>3 DEF CallAt
  <1>8. new \notin Calls
    <2> SUFFICES ASSUME NEW u \in Threads, NEW d \in 1..Len(stack[u]), new = CallAt(stack[u], u, d)
                 PROVE  FALSE
      BY CallsFacts
    <2>1. u = t /\ d = n + 1
      BY <1>7 DEF CallAt
    <2> QED
      BY <1>1, <2>1
  <1> QED
    BY <1>6, <1>7, <1>8

\* The innermost call goes on.
LEMMA BecomesCalls ==
    ASSUME TypeInv, NEW t \in Threads, stack[t] # <<>>, NEW pc \in Pcs, NEW todo \in Seq(Callbacks),
           Becomes(t, pc, todo)
    PROVE  /\ stack' \in Stacks
           /\ \E new : /\ new.thread = t /\ new.pc = pc /\ new.todo = todo
                       /\ Calls' = (Calls \ {Top(t)}) \cup {new}
                       /\ new \notin Calls \ {Top(t)}
  <1> DEFINE f == Call(pc, todo)
             n == Len(stack[t])
             m == n - 1
             s == <<f>> \o Tail(stack[t])
             new == CallAt(s, t, n)
  <1>1. stack[t] \in Seq(Frame) /\ f \in Frame /\ n \in Nat \ {0} /\ f.pc = pc /\ f.todo = todo
    <2>1. stack[t] \in Seq(Frame)
      BY DEF TypeInv, Stacks
    <2>2. f \in Frame /\ f.pc = pc /\ f.todo = todo
      BY DEF Frame, Call
    <2> QED
      BY <2>1, <2>2
  <1>2. stack' = [stack EXCEPT ![t] = s]
    BY DEF Becomes
  <1> HIDE DEF f
  <1>3. s \in Seq(Frame) /\ Len(s) = n /\ s[1] = f /\ \A i \in 2..n : s[i] = stack[t][i]
    <2>1. /\ Tail(stack[t]) \in Seq(Frame) /\ Len(Tail(stack[t])) = n - 1
          /\ \A i \in 1..(n - 1) : Tail(stack[t])[i] = stack[t][i + 1]
      BY <1>1, HeadTailProperties
    <2> DEFINE rest == Tail(stack[t])
    <2> HIDE DEF rest
    <2>2. /\ <<f>> \o rest \in Seq(Frame) /\ Len(<<f>> \o rest) = n /\ (<<f>> \o rest)[1] = f
          /\ \A i \in 2..n : (<<f>> \o rest)[i] = rest[i - 1]
      BY <1>1, <2>1 DEF rest
    <2>3. \A i \in 2..n : rest[i - 1] = stack[t][i]
      <3> SUFFICES ASSUME NEW i \in 2..n PROVE rest[i - 1] = stack[t][i]
        OBVIOUS
      <3>1. i - 1 \in 1..(n - 1) /\ (i - 1) + 1 = i
        BY <1>1
      <3> QED
        BY <2>1, <3>1 DEF rest
    <2> QED
      BY <2>2, <2>3 DEF rest
  <1> HIDE DEF s
  <1>4. \A d \in 1..m : s[Len(s) + 1 - d] = stack[t][n + 1 - d]
    <2> SUFFICES ASSUME NEW d \in 1..m PROVE s[Len(s) + 1 - d] = stack[t][n + 1 - d]
      OBVIOUS
    <2>1. n + 1 - d \in 2..n
      BY <1>1
    <2> QED
      BY <1>3, <2>1
  <1>5. /\ m \in Nat /\ m <= Len(stack[t]) /\ m <= Len(s)
        /\ (m + 1)..Len(stack[t]) = {n} /\ (m + 1)..Len(s) = {n}
    BY <1>1, <1>3
  <1>6. /\ stack' \in Stacks
        /\ \A x : x \in Calls' <=> (x \in Calls /\ x # CallAt(stack[t], t, n)) \/ x = new
    <2> HIDE DEF m
    <2>1. /\ stack' \in Stacks
          /\ \A x : x \in Calls' <=>
               \/ x \in Calls /\ \A d \in (m + 1)..Len(stack[t]) : x # CallAt(stack[t], t, d)
               \/ \E d \in (m + 1)..Len(s) : x = CallAt(s, t, d)
      BY <1>2, <1>3, <1>4, <1>5, StackChange
    <2> QED
      BY <1>5, <2>1
  <1>7. new.thread = t /\ new.depth = n /\ new.pc = pc /\ new.todo = todo
    BY <1>1, <1>3 DEF CallAt
  <1>8. new \notin Calls \ {Top(t)}
    <2> SUFFICES ASSUME NEW u \in Threads, NEW d \in 1..Len(stack[u]), new = CallAt(stack[u], u, d)
                 PROVE  new = Top(t)
      BY CallsFacts
    <2>1. u = t /\ d = n
      BY <1>7 DEF CallAt
    <2> QED
      BY <2>1 DEF Top
  <1> QED
    BY <1>6, <1>7, <1>8 DEF Top

\* The innermost call returns.
LEMMA ReturnCalls ==
    ASSUME TypeInv, NEW t \in Threads, stack[t] # <<>>, Return(t)
    PROVE  stack' \in Stacks /\ Calls' = Calls \ {Top(t)}
  <1> DEFINE n == Len(stack[t])
             m == n - 1
             s == Tail(stack[t])
  <1>1. stack[t] \in Seq(Frame) /\ n \in Nat \ {0}
    BY DEF TypeInv, Stacks
  <1>2. s \in Seq(Frame) /\ Len(s) = m /\ \A i \in 1..m : s[i] = stack[t][i + 1]
    BY <1>1, HeadTailProperties
  <1>3. stack' = [stack EXCEPT ![t] = s]
    BY DEF Return
  <1> HIDE DEF s
  <1>4. \A d \in 1..m : s[Len(s) + 1 - d] = stack[t][n + 1 - d]
    <2> SUFFICES ASSUME NEW d \in 1..m PROVE s[Len(s) + 1 - d] = stack[t][n + 1 - d]
      OBVIOUS
    <2>1. Len(s) + 1 - d \in 1..m /\ (Len(s) + 1 - d) + 1 = n + 1 - d
      BY <1>1, <1>2
    <2> QED
      BY <1>2, <2>1
  <1>5. /\ m \in Nat /\ m <= Len(stack[t]) /\ m <= Len(s)
        /\ (m + 1)..Len(stack[t]) = {n} /\ (m + 1)..Len(s) = {}
    BY <1>1, <1>2
  <1>6. /\ stack' \in Stacks
        /\ \A x : x \in Calls' <=> x \in Calls /\ x # CallAt(stack[t], t, n)
    <2> HIDE DEF m
    <2>1. /\ stack' \in Stacks
          /\ \A x : x \in Calls' <=>
               \/ x \in Calls /\ \A d \in (m + 1)..Len(stack[t]) : x # CallAt(stack[t], t, d)
               \/ \E d \in (m + 1)..Len(s) : x = CallAt(s, t, d)
      BY <1>2, <1>3, <1>4, <1>5, StackChange
    <2> QED
      BY <1>5, <2>1
  <1> QED
    BY <1>6 DEF Top

-----------------------------------------------------------------------------
(* The steps. *)

Plain(pc) == pc \notin Registering \cup Holding \cup Doing

\* A step that changes only calls that neither register nor shut down.
LEMMA PlainStep ==
    ASSUME ShutdownInv, stack' \in Stacks, UNCHANGED <<lock, event, registered, called, due>>,
           \A x : ~Plain(x.pc) => (x \in Calls' <=> x \in Calls)
    PROVE  ShutdownInv'
  <1>1. \A x : x.pc \in Registering \/ x.pc \in Holding \/ x.pc \in Doing => (x \in Calls' <=> x \in Calls)
    BY DEF Plain
  <1>2. TypeInv'
    BY DEF ShutdownInv, TypeInv
  <1>3. LockInv'
    BY <1>1 DEF ShutdownInv, LockInv
  <1>4. DoingInv'
    BY <1>1 DEF ShutdownInv, DoingInv, Doing
  <1>5. CalledInv'
    BY <1>1 DEF ShutdownInv, CalledInv, Doing
  <1>6. DueInv'
    BY <1>1 DEF ShutdownInv, DueInv, Doing
  <1>7. RegisteredInv'
    BY <1>1 DEF ShutdownInv, RegisteredInv
  <1> QED
    BY <1>2, <1>3, <1>4, <1>5, <1>6, <1>7 DEF ShutdownInv

\* A call that does nothing of the kind is made.
LEMMA PlainPush ==
    ASSUME ShutdownInv, NEW t \in Threads, NEW pc \in Pcs, Plain(pc), Push(t, Call(pc, <<>>)),
           UNCHANGED <<lock, event, registered, called, due>>
    PROVE  ShutdownInv'
  <1> DEFINE none == <<>>
  <1>1. TypeInv /\ none \in Seq(Callbacks) /\ Push(t, Call(pc, none))
    BY DEF ShutdownInv
  <1> HIDE DEF none
  <1>2. /\ stack' \in Stacks
        /\ \E new : /\ new.thread = t /\ new.pc = pc /\ new.todo = none
                    /\ Calls' = Calls \cup {new} /\ new \notin Calls
    BY <1>1, PushCalls
  <1>3. PICK new : new.pc = pc /\ Calls' = Calls \cup {new}
    BY <1>2
  <1>4. Plain(new.pc)
    BY <1>3
  <1>5. \A x : ~Plain(x.pc) => (x \in Calls' <=> x \in Calls)
    BY <1>3, <1>4
  <1> QED
    BY <1>2, <1>5, PlainStep

\* Such a call goes on.
LEMMA PlainBecomes ==
    ASSUME ShutdownInv, NEW t \in Threads, stack[t] # <<>>, Plain(Head(stack[t]).pc),
           NEW pc \in Pcs, Plain(pc), NEW todo \in Seq(Callbacks), Becomes(t, pc, todo),
           UNCHANGED <<lock, event, registered, called, due>>
    PROVE  ShutdownInv'
  <1>1. TypeInv
    BY DEF ShutdownInv
  <1>2. /\ stack' \in Stacks
        /\ \E new : new.pc = pc /\ Calls' = (Calls \ {Top(t)}) \cup {new}
    BY <1>1, BecomesCalls
  <1>3. Plain(Top(t).pc)
    BY <1>1, TopFacts
  <1> QED
    BY <1>2, <1>3, PlainStep

\* Such a call returns.
LEMMA PlainReturn ==
    ASSUME ShutdownInv, NEW t \in Threads, stack[t] # <<>>, Plain(Head(stack[t]).pc), Return(t),
           UNCHANGED <<lock, event, registered, called, due>>
    PROVE  ShutdownInv'
  <1>1. TypeInv
    BY DEF ShutdownInv
  <1>2. stack' \in Stacks /\ Calls' = Calls \ {Top(t)}
    BY <1>1, ReturnCalls
  <1>3. Plain(Top(t).pc)
    BY <1>1, TopFacts
  <1> QED
    BY <1>2, <1>3, PlainStep

\* register_shutdown_callback is called for a callback that is not registered and not about to be.
LEMMA RegisterStep ==
    ASSUME ShutdownInv, NEW t \in Threads, NEW c \in Callbacks, Register(t, c)
    PROVE  ShutdownInv'
  <1>1. TypeInv /\ <<c>> \in Seq(Callbacks) /\ UNCHANGED <<lock, event, registered, called, due>>
    BY DEF ShutdownInv, Register, shared
  <1>2. /\ stack' \in Stacks
        /\ \E new : /\ new.pc = "reg_lock" /\ new.todo = <<c>>
                    /\ new \notin Calls /\ Calls' = Calls \cup {new}
    <2>1. Push(t, Call("reg_lock", <<c>>))
      BY Zenon DEF Register
    <2>2. PICK pc \in Pcs : pc = "reg_lock"
      BY DEF Pcs
    <2>3. PICK todo \in Seq(Callbacks) : todo = <<c>>
      BY <1>1
    <2>4. Push(t, Call(pc, todo))
      BY <2>1, <2>2, <2>3
    <2>5. /\ stack' \in Stacks
          /\ \E new : /\ new.pc = pc /\ new.todo = todo
                      /\ new \notin Calls /\ Calls' = Calls \cup {new}
      BY <1>1, <2>4, PushCalls
    <2> QED
      BY <2>2, <2>3, <2>5
  <1>3. PICK new : new.pc = "reg_lock" /\ new.todo = <<c>> /\ new \notin Calls /\ Calls' = Calls \cup {new}
    BY <1>2
  <1>4. \A x \in Calls : x.pc \in Registering => x.todo # <<c>>
    <2> SUFFICES ASSUME NEW u \in Threads, NEW d \in 1..Len(stack[u]),
                        CallAt(stack[u], u, d).pc \in Registering
                 PROVE  CallAt(stack[u], u, d).todo # <<c>>
      BY CallsFacts
    <2>1. stack[u] \in Seq(Frame)
      BY <1>1 DEF TypeInv, Stacks
    <2>2. Len(stack[u]) + 1 - d \in DOMAIN stack[u]
      BY <2>1
    <2> QED
      BY <2>2 DEF Register, CallAt, Registering
  <1>5. TypeInv'
    BY <1>1, <1>2 DEF TypeInv
  <1>6. LockInv'
    BY <1>1, <1>3 DEF ShutdownInv, LockInv, Holding
  <1>7. DoingInv'
    BY <1>1, <1>3 DEF ShutdownInv, DoingInv, Doing
  <1>8. CalledInv'
    BY <1>1, <1>3 DEF ShutdownInv, CalledInv
  <1>9. DueInv'
    BY <1>1, <1>3 DEF ShutdownInv, DueInv, Doing
  <1>10. RegisteredInv'
    <2>1. c \notin Range(registered)
      BY DEF Register
    <2>2. \A x \in Calls' : x \in Calls \/ x = new
      BY <1>3
    <2>3. \A x \in Calls' : x.pc \in Registering =>
            \E b \in Callbacks : x.todo = <<b>> /\ b \notin Range(registered)
      BY <1>3, <2>1, <2>2 DEF ShutdownInv, RegisteredInv
    <2>4. \A x, y \in Calls' : x.pc \in Registering /\ y.pc \in Registering /\ x.todo = y.todo => x = y
      BY <1>3, <1>4, <2>2 DEF ShutdownInv, RegisteredInv
    <2> QED
      BY <1>1, <2>3, <2>4 DEF ShutdownInv, RegisteredInv
  <1> QED
    BY <1>5, <1>6, <1>7, <1>8, <1>9, <1>10 DEF ShutdownInv

\* Of the calls, one of t goes on from one place to another, with todo in hand; or it returns.
GoesOn(old, new, t, from, pc, todo) ==
    /\ old \in Calls /\ old.thread = t /\ old.pc = from /\ old.todo = Todo(t)
    /\ new.thread = t /\ new.pc = pc /\ new.todo = todo
    /\ Calls' = (Calls \ {old}) \cup {new} /\ new \notin Calls \ {old}

Ends(old, t, from) ==
    /\ old \in Calls /\ old.thread = t /\ old.pc = from /\ old.todo = Todo(t)
    /\ Calls' = Calls \ {old}

\* The innermost call of a thread goes from one place to another.
LEMMA Moves ==
    ASSUME ShutdownInv, NEW t \in Threads, NEW from, At(t, from),
           NEW pc \in Pcs, NEW todo \in Seq(Callbacks), Becomes(t, pc, todo)
    PROVE  stack' \in Stacks /\ \E old, new : GoesOn(old, new, t, from, pc, todo)
  <1>1. TypeInv /\ stack[t] # <<>> /\ Head(stack[t]).pc = from
    BY DEF ShutdownInv, At
  <1>2. Top(t) \in Calls /\ Top(t).thread = t /\ Top(t).pc = from /\ Top(t).todo = Todo(t)
    BY <1>1, TopFacts
  <1>3. /\ stack' \in Stacks
        /\ \E new : /\ new.thread = t /\ new.pc = pc /\ new.todo = todo
                    /\ Calls' = (Calls \ {Top(t)}) \cup {new} /\ new \notin Calls \ {Top(t)}
    BY <1>1, BecomesCalls
  <1> QED
    BY <1>2, <1>3 DEF GoesOn

\* It returns.
LEMMA Returns ==
    ASSUME ShutdownInv, NEW t \in Threads, NEW from, At(t, from), Return(t)
    PROVE  stack' \in Stacks /\ \E old : Ends(old, t, from)
  <1>1. TypeInv /\ stack[t] # <<>> /\ Head(stack[t]).pc = from
    BY DEF ShutdownInv, At
  <1>2. Top(t) \in Calls /\ Top(t).thread = t /\ Top(t).pc = from /\ Top(t).todo = Todo(t)
    BY <1>1, TopFacts
  <1>3. stack' \in Stacks /\ Calls' = Calls \ {Top(t)}
    BY <1>1, ReturnCalls
  <1> QED
    BY <1>2, <1>3 DEF Ends

\* What a call has in hand is a sequence of callbacks.
LEMMA TodoType ==
    ASSUME ShutdownInv
    PROVE  /\ \A x \in Calls : x.todo \in Seq(Callbacks)
           /\ \A t \in Threads : \A pc : At(t, pc) => Todo(t) \in Seq(Callbacks)
  <1>1. ASSUME NEW t \in Threads, NEW d \in 1..Len(stack[t])
        PROVE  CallAt(stack[t], t, d).todo \in Seq(Callbacks)
    <2>1. stack[t] \in Seq(Frame)
      BY DEF ShutdownInv, TypeInv, Stacks
    <2>2. Len(stack[t]) + 1 - d \in 1..Len(stack[t])
      BY <2>1
    <2>3. stack[t][Len(stack[t]) + 1 - d] \in Frame
      BY <2>1, <2>2, ElementOfSeq
    <2> QED
      BY <2>3 DEF CallAt, Frame
  <1>2. ASSUME NEW t \in Threads, NEW pc, At(t, pc) PROVE Todo(t) \in Seq(Callbacks)
    BY <1>2, TopFacts DEF ShutdownInv, At
  <1> QED
    BY <1>1, <1>2, CallsFacts

\* A lock that nobody has has no call inside it.
LEMMA FreeLock ==
    ASSUME ShutdownInv, lock = Nobody
    PROVE  \A x \in Calls : x.pc \notin Holding
  <1>1. \A x \in Calls : x.thread \in Threads
    BY CallsFacts DEF CallAt
  <1>2. Nobody \notin Threads
    BY ShutdownAssumption DEF Threads
  <1> QED
    BY <1>1, <1>2 DEF ShutdownInv, LockInv

\* The registering call enters the lock.
LEMMA RegLockStep ==
    ASSUME ShutdownInv, NEW t \in Threads, RegLock(t)
    PROVE  ShutdownInv'
  <1>1. /\ lock = Nobody /\ lock' = t /\ UNCHANGED <<event, registered, called, due>>
        /\ At(t, "reg_lock") /\ Becomes(t, "reg_append", Todo(t))
    BY DEF RegLock
  <1>2. "reg_append" \in Pcs /\ Todo(t) \in Seq(Callbacks)
    BY <1>1, TodoType DEF Pcs
  <1>3. stack' \in Stacks /\ \E old, new : GoesOn(old, new, t, "reg_lock", "reg_append", Todo(t))
    BY <1>1, <1>2, Moves
  <1>4. PICK old, new : GoesOn(old, new, t, "reg_lock", "reg_append", Todo(t))
    BY <1>3
  <1>5. TypeInv'
    BY <1>1, <1>3 DEF ShutdownInv, TypeInv
  <1>6. LockInv'
    BY <1>1, <1>4, FreeLock DEF LockInv, GoesOn
  <1>7. DoingInv'
    BY <1>1, <1>4 DEF ShutdownInv, DoingInv, Doing, GoesOn
  <1>8. CalledInv'
    BY <1>1, <1>4 DEF ShutdownInv, CalledInv, GoesOn
  <1>9. DueInv'
    BY <1>1, <1>4 DEF ShutdownInv, DueInv, Doing, GoesOn
  <1>10. RegisteredInv'
    BY <1>1, <1>4 DEF ShutdownInv, RegisteredInv, Registering, GoesOn
  <1> QED
    BY <1>5, <1>6, <1>7, <1>8, <1>9, <1>10 DEF ShutdownInv

\* The list grows at its end: what went backwards through it still does.
LEMMA LongerList ==
    ASSUME NEW R \in Seq(Callbacks), NEW c \in Callbacks, NEW s \in Seq(Callbacks), BackThrough(s, R)
    PROVE  BackThrough(s, R \o <<c>>)
  <1>1. PICK n \in 0..Len(R) : Len(s) <= n /\ \A i \in DOMAIN s : s[i] = R[n + 1 - i]
    BY DEF BackThrough
  <1> DEFINE longer == R \o <<c>>
  <1>2. Len(longer) = Len(R) + 1 /\ \A i \in 1..Len(R) : longer[i] = R[i]
    OBVIOUS
  <1> HIDE DEF longer
  <1>3. n \in 0..Len(longer)
    BY <1>2
  <1>4. \A i \in DOMAIN s : s[i] = longer[n + 1 - i]
    <2> SUFFICES ASSUME NEW i \in DOMAIN s PROVE s[i] = longer[n + 1 - i]
      OBVIOUS
    <2>1. n + 1 - i \in 1..Len(R)
      BY <1>1
    <2> QED
      BY <1>1, <1>2, <2>1
  <1> QED
    BY <1>1, <1>3, <1>4 DEF BackThrough, longer

\* The callback is appended and the lock left.
LEMMA RegAppendStep ==
    ASSUME ShutdownInv, NEW t \in Threads, RegAppend(t)
    PROVE  ShutdownInv'
  <1>1. /\ registered' = registered \o Todo(t) /\ lock' = Nobody /\ UNCHANGED <<event, called, due>>
        /\ At(t, "reg_append") /\ Return(t)
    BY DEF RegAppend
  <1>2. stack' \in Stacks /\ \E old : Ends(old, t, "reg_append")
    BY <1>1, Returns
  <1>3. PICK old : Ends(old, t, "reg_append")
    BY <1>2
  <1>4. PICK c \in Callbacks : Todo(t) = <<c>> /\ c \notin Range(registered)
    BY <1>3 DEF ShutdownInv, RegisteredInv, Registering, Ends
  <1>5. registered \in Seq(Callbacks) /\ registered' = registered \o <<c>>
    BY <1>1, <1>4 DEF ShutdownInv, TypeInv
  <1>6. /\ registered' \in Seq(Callbacks) /\ Len(registered') = Len(registered) + 1
        /\ \A i \in DOMAIN registered : registered'[i] = registered[i]
        /\ registered'[Len(registered) + 1] = c
    BY <1>5
  <1>7. Range(registered') = Range(registered) \cup {c}
    <2>1. DOMAIN registered' = DOMAIN registered \cup {Len(registered) + 1}
      BY <1>5, <1>6
    <2> QED
      BY <1>6, <2>1 DEF Range
  <1>8. TypeInv'
    BY <1>1, <1>2, <1>6 DEF ShutdownInv, TypeInv
  <1>9. LockInv'
    BY <1>1, <1>3 DEF ShutdownInv, LockInv, Holding, Ends
  <1>10. DoingInv'
    BY <1>1, <1>3 DEF ShutdownInv, DoingInv, Doing, Ends
  <1>11. CalledInv'
    <2>1. called \in Seq(Callbacks) /\ \A x \in Calls : called \o x.todo \in Seq(Callbacks)
      BY TodoType DEF ShutdownInv, TypeInv
    <2>2. BackThrough(called, registered')
      BY <1>5, <2>1, LongerList DEF ShutdownInv, CalledInv
    <2>3. ASSUME NEW x \in Calls, x.pc = "sd_run" PROVE BackThrough(called \o x.todo, registered')
      BY <1>5, <2>1, <2>3, LongerList DEF ShutdownInv, CalledInv
    <2> QED
      BY <1>1, <1>3, <2>2, <2>3 DEF CalledInv, Ends
  <1>12. DueInv'
    BY <1>1, <1>3, <1>7 DEF ShutdownInv, DueInv, Doing, Ends
  <1>13. RegisteredInv'
    <2>1. \A k, l \in DOMAIN registered' : registered'[k] = registered'[l] => k = l
      <3>1. DOMAIN registered' = DOMAIN registered \cup {Len(registered) + 1}
        BY <1>5, <1>6
      <3>2. \A k \in DOMAIN registered : registered[k] # c
        BY <1>4 DEF Range
      <3> QED
        BY <1>6, <3>1, <3>2 DEF ShutdownInv, RegisteredInv
    <2>2. ASSUME NEW x \in Calls', x.pc \in Registering
          PROVE  \E b \in Callbacks : x.todo = <<b>> /\ b \notin Range(registered')
      <3>1. x \in Calls /\ x # old /\ old \in Calls /\ old.todo = <<c>> /\ old.pc \in Registering
        BY <1>3, <1>4 DEF Ends, Registering
      <3>2. PICK b \in Callbacks : x.todo = <<b>> /\ b \notin Range(registered)
        BY <2>2, <3>1 DEF ShutdownInv, RegisteredInv
      <3>3. x.todo # <<c>>
        BY <2>2, <3>1 DEF ShutdownInv, RegisteredInv
      <3> QED
        BY <1>7, <3>2, <3>3
    <2> QED
      BY <1>3, <2>1, <2>2 DEF ShutdownInv, RegisteredInv, Ends
  <1> QED
    BY <1>8, <1>9, <1>10, <1>11, <1>12, <1>13 DEF ShutdownInv

\* _do_shutdown enters the lock.
LEMMA ShutLockStep ==
    ASSUME ShutdownInv, NEW t \in Threads, ShutLock(t)
    PROVE  ShutdownInv'
  <1>1. /\ lock = Nobody /\ lock' = t /\ UNCHANGED <<event, registered, called, due>>
        /\ At(t, "sd_lock") /\ Becomes(t, "sd_check", <<>>)
    BY DEF ShutLock
  <1>2. "sd_check" \in Pcs /\ <<>> \in Seq(Callbacks)
    BY DEF Pcs
  <1>3. stack' \in Stacks /\ \E old, new : GoesOn(old, new, t, "sd_lock", "sd_check", <<>>)
    BY <1>1, <1>2, Moves
  <1>4. PICK old, new : GoesOn(old, new, t, "sd_lock", "sd_check", <<>>)
    BY <1>3
  <1>5. TypeInv'
    BY <1>1, <1>3 DEF ShutdownInv, TypeInv
  <1>6. LockInv'
    BY <1>1, <1>4, FreeLock DEF LockInv, GoesOn
  <1>7. DoingInv'
    BY <1>1, <1>4 DEF ShutdownInv, DoingInv, Doing, GoesOn
  <1>8. CalledInv'
    BY <1>1, <1>4 DEF ShutdownInv, CalledInv, GoesOn
  <1>9. DueInv'
    BY <1>1, <1>4 DEF ShutdownInv, DueInv, Doing, GoesOn
  <1>10. RegisteredInv'
    BY <1>1, <1>4 DEF ShutdownInv, RegisteredInv, Registering, GoesOn
  <1> QED
    BY <1>5, <1>6, <1>7, <1>8, <1>9, <1>10 DEF ShutdownInv

\* It finds the event set, or goes on to set it.
LEMMA ShutCheckStep ==
    ASSUME ShutdownInv, NEW t \in Threads, ShutCheck(t)
    PROVE  ShutdownInv'
  <1>1. At(t, "sd_check") /\ UNCHANGED <<event, registered, called, due>>
    BY DEF ShutCheck
  <1>2. CASE event /\ lock' = Nobody /\ Return(t)
    <2>1. stack' \in Stacks /\ \E old : Ends(old, t, "sd_check")
      BY <1>1, <1>2, Returns
    <2>2. PICK old : Ends(old, t, "sd_check")
      BY <2>1
    <2>3. TypeInv'
      BY <1>1, <2>1 DEF ShutdownInv, TypeInv
    <2>4. LockInv'
      BY <2>2 DEF ShutdownInv, LockInv, Holding, Ends
    <2>5. DoingInv'
      BY <1>1, <2>2 DEF ShutdownInv, DoingInv, Doing, Ends
    <2>6. CalledInv'
      BY <1>1, <2>2 DEF ShutdownInv, CalledInv, Ends
    <2>7. DueInv'
      BY <1>1, <2>2 DEF ShutdownInv, DueInv, Doing, Ends
    <2>8. RegisteredInv'
      BY <1>1, <2>2 DEF ShutdownInv, RegisteredInv, Registering, Ends
    <2> QED
      BY <2>3, <2>4, <2>5, <2>6, <2>7, <2>8 DEF ShutdownInv
  <1>3. CASE ~event /\ lock' = lock /\ Becomes(t, "sd_set", <<>>)
    <2>1. "sd_set" \in Pcs /\ <<>> \in Seq(Callbacks)
      BY DEF Pcs
    <2>2. stack' \in Stacks /\ \E old, new : GoesOn(old, new, t, "sd_check", "sd_set", <<>>)
      BY <1>1, <1>3, <2>1, Moves
    <2>3. PICK old, new : GoesOn(old, new, t, "sd_check", "sd_set", <<>>)
      BY <2>2
    <2>4. TypeInv'
      BY <1>1, <2>2 DEF ShutdownInv, TypeInv
    <2>5. LockInv'
      BY <1>3, <2>3 DEF ShutdownInv, LockInv, Holding, GoesOn
    <2>6. \A x \in Calls : x.pc \notin Doing
      <3> SUFFICES ASSUME NEW x \in Calls, x.pc \in Doing PROVE FALSE
        OBVIOUS
      <3>1. x.pc \in Holding
        BY <1>3 DEF ShutdownInv, DoingInv, Doing, Holding
      <3>2. x = old
        BY <2>3, <3>1 DEF ShutdownInv, LockInv, Holding, GoesOn
      <3> QED
        BY <2>3, <3>2 DEF Doing, GoesOn
    <2>7. DoingInv'
      BY <1>1, <1>3, <2>3, <2>6 DEF ShutdownInv, DoingInv, Doing, GoesOn
    <2>8. CalledInv'
      BY <1>1, <2>3 DEF ShutdownInv, CalledInv, GoesOn
    <2>9. DueInv'
      BY <1>1, <1>3, <2>3 DEF ShutdownInv, DueInv, Doing, GoesOn
    <2>10. RegisteredInv'
      BY <1>1, <2>3 DEF ShutdownInv, RegisteredInv, Registering, GoesOn
    <2> QED
      BY <2>4, <2>5, <2>7, <2>8, <2>9, <2>10 DEF ShutdownInv
  <1> QED
    BY <1>2, <1>3 DEF ShutCheck, AlreadySet

\* Event.set is entered.
LEMMA SetEnterStep ==
    ASSUME ShutdownInv, NEW t \in Threads, SetEnter(t)
    PROVE  ShutdownInv'
  <1>1. /\ UNCHANGED <<lock, event, registered, called, due>>
        /\ At(t, "sd_set") /\ Becomes(t, "sd_flag", <<>>)
    BY DEF SetEnter
  <1>2. "sd_flag" \in Pcs /\ <<>> \in Seq(Callbacks)
    BY DEF Pcs
  <1>3. stack' \in Stacks /\ \E old, new : GoesOn(old, new, t, "sd_set", "sd_flag", <<>>)
    BY <1>1, <1>2, Moves
  <1>4. PICK old, new : GoesOn(old, new, t, "sd_set", "sd_flag", <<>>)
    BY <1>3
  <1>5. TypeInv'
    BY <1>1, <1>3 DEF ShutdownInv, TypeInv
  <1>6. LockInv'
    BY <1>1, <1>4 DEF ShutdownInv, LockInv, Holding, GoesOn
  <1>7. DoingInv'
    BY <1>1, <1>4 DEF ShutdownInv, DoingInv, Doing, GoesOn
  <1>8. CalledInv'
    BY <1>1, <1>4 DEF ShutdownInv, CalledInv, GoesOn
  <1>9. DueInv'
    BY <1>1, <1>4 DEF ShutdownInv, DueInv, Doing, GoesOn
  <1>10. RegisteredInv'
    BY <1>1, <1>4 DEF ShutdownInv, RegisteredInv, Registering, GoesOn
  <1> QED
    BY <1>5, <1>6, <1>7, <1>8, <1>9, <1>10 DEF ShutdownInv

\* The event is set.
LEMMA SetFlagStep ==
    ASSUME ShutdownInv, NEW t \in Threads, SetFlag(t)
    PROVE  ShutdownInv'
  <1>1. /\ event' = TRUE /\ due' = Range(registered) /\ UNCHANGED <<lock, registered, called>>
        /\ At(t, "sd_flag") /\ Becomes(t, "sd_unlock", <<>>)
    BY DEF SetFlag
  <1>2. "sd_unlock" \in Pcs /\ <<>> \in Seq(Callbacks)
    BY DEF Pcs
  <1>3. stack' \in Stacks /\ \E old, new : GoesOn(old, new, t, "sd_flag", "sd_unlock", <<>>)
    BY <1>1, <1>2, Moves
  <1>4. PICK old, new : GoesOn(old, new, t, "sd_flag", "sd_unlock", <<>>)
    BY <1>3
  <1>5. TypeInv'
    BY <1>1, <1>3 DEF ShutdownInv, TypeInv
  <1>6. LockInv'
    BY <1>1, <1>4 DEF ShutdownInv, LockInv, Holding, GoesOn
  <1>7. DoingInv'
    BY <1>1, <1>4 DEF ShutdownInv, DoingInv, Doing, GoesOn
  <1>8. CalledInv'
    BY <1>1, <1>4 DEF ShutdownInv, CalledInv, GoesOn
  <1>9. DueInv'
    BY <1>1, <1>4 DEF ShutdownInv, DoingInv, DueInv, Doing, GoesOn
  <1>10. RegisteredInv'
    BY <1>1, <1>4 DEF ShutdownInv, RegisteredInv, Registering, GoesOn
  <1> QED
    BY <1>5, <1>6, <1>7, <1>8, <1>9, <1>10 DEF ShutdownInv

\* The lock is left.
LEMMA ShutUnlockStep ==
    ASSUME ShutdownInv, NEW t \in Threads, ShutUnlock(t)
    PROVE  ShutdownInv'
  <1>1. /\ lock' = Nobody /\ UNCHANGED <<event, registered, called, due>>
        /\ At(t, "sd_unlock") /\ Becomes(t, "sd_copy", <<>>)
    BY DEF ShutUnlock
  <1>2. "sd_copy" \in Pcs /\ <<>> \in Seq(Callbacks)
    BY DEF Pcs
  <1>3. stack' \in Stacks /\ \E old, new : GoesOn(old, new, t, "sd_unlock", "sd_copy", <<>>)
    BY <1>1, <1>2, Moves
  <1>4. PICK old, new : GoesOn(old, new, t, "sd_unlock", "sd_copy", <<>>)
    BY <1>3
  <1>5. TypeInv'
    BY <1>1, <1>3 DEF ShutdownInv, TypeInv
  <1>6. LockInv'
    BY <1>1, <1>4 DEF ShutdownInv, LockInv, Holding, GoesOn
  <1>7. DoingInv'
    BY <1>1, <1>4 DEF ShutdownInv, DoingInv, Doing, GoesOn
  <1>8. CalledInv'
    BY <1>1, <1>4 DEF ShutdownInv, CalledInv, GoesOn
  <1>9. DueInv'
    BY <1>1, <1>4 DEF ShutdownInv, DueInv, Doing, GoesOn
  <1>10. RegisteredInv'
    BY <1>1, <1>4 DEF ShutdownInv, RegisteredInv, Registering, GoesOn
  <1> QED
    BY <1>5, <1>6, <1>7, <1>8, <1>9, <1>10 DEF ShutdownInv

\* A list, reversed.
LEMMA ReverseFacts ==
    ASSUME NEW R \in Seq(Callbacks)
    PROVE  /\ Reverse(R) \in Seq(Callbacks) /\ Range(Reverse(R)) = Range(R)
           /\ BackThrough(Reverse(R), R)
  <1> DEFINE n == Len(R)
             s == Reverse(R)
  <1>1. n \in Nat /\ DOMAIN R = 1..n /\ \A i \in 1..n : R[i] \in Callbacks /\ n + 1 - i \in 1..n
    OBVIOUS
  <1>2. DOMAIN s = 1..n /\ \A i \in 1..n : s[i] = R[n + 1 - i]
    <2>1. s = [i \in 1..n |-> R[(n - i) + 1]]
      BY DEF Reverse
    <2>2. \A i \in 1..n : (n - i) + 1 = n + 1 - i
      BY <1>1
    <2> QED
      BY <2>1, <2>2
  <1>3. s \in Seq(Callbacks) /\ Len(s) = n
    <2>1. s = [i \in 1..n |-> R[(n - i) + 1]] /\ \A i \in 1..n : (n - i) + 1 \in 1..n
      BY <1>1 DEF Reverse
    <2>2. s \in [1..n -> Callbacks]
      BY <1>1, <2>1
    <2> HIDE DEF s, n
    <2> QED
      BY <1>1, <2>2
  <1> HIDE DEF s
  <1>4. \A i \in 1..n : R[i] = s[n + 1 - i]
    <2> SUFFICES ASSUME NEW i \in 1..n PROVE R[i] = s[n + 1 - i]
      OBVIOUS
    <2>1. n + 1 - i \in 1..n /\ n + 1 - (n + 1 - i) = i
      BY <1>1
    <2> QED
      BY <1>2, <2>1
  <1>5. Range(s) = Range(R)
    <2> HIDE DEF n
    <2> QED
      BY <1>1, <1>2, <1>4 DEF Range
  <1>6. BackThrough(s, R)
    <2>1. n \in 0..Len(R) /\ Len(s) <= n
      BY <1>1, <1>3
    <2> HIDE DEF n
    <2> QED
      BY <1>2, <2>1 DEF BackThrough
  <1> QED
    BY <1>3, <1>5, <1>6 DEF s

\* The next callback to be called leaves what is called, then or later, as it was.
LEMMA CallNext ==
    ASSUME NEW s \in Seq(Callbacks), NEW todo \in Seq(Callbacks), todo # <<>>
    PROVE  /\ Append(s, Head(todo)) \in Seq(Callbacks) /\ Tail(todo) \in Seq(Callbacks)
           /\ Append(s, Head(todo)) \o Tail(todo) = s \o todo
           /\ Range(s) \cup Range(todo) \subseteq Range(Append(s, Head(todo))) \cup Range(Tail(todo))
           /\ \A R : BackThrough(s \o todo, R) => BackThrough(Append(s, Head(todo)), R)
  <1> DEFINE first == Head(todo)
             rest == Tail(todo)
             longer == Append(s, first)
             all == s \o todo
  <1>1. /\ first = todo[1] /\ first \in Callbacks /\ rest \in Seq(Callbacks) /\ Len(rest) = Len(todo) - 1
        /\ \A i \in 1..Len(rest) : rest[i] = todo[i + 1]
    BY HeadTailProperties
  <1>2. Len(s) \in Nat /\ Len(todo) \in Nat \ {0} /\ DOMAIN s = 1..Len(s) /\ DOMAIN todo = 1..Len(todo)
    OBVIOUS
  <1> HIDE DEF first, rest
  <1>3. /\ longer \in Seq(Callbacks) /\ Len(longer) = Len(s) + 1 /\ longer[Len(s) + 1] = first
        /\ \A i \in 1..Len(s) : longer[i] = s[i]
    BY <1>1
  <1> HIDE DEF longer
  <1>4. /\ all \in Seq(Callbacks) /\ Len(all) = Len(s) + Len(todo)
        /\ \A i \in 1..(Len(s) + Len(todo)) : all[i] = IF i <= Len(s) THEN s[i] ELSE todo[i - Len(s)]
    BY ConcatProperties
  <1>5. /\ longer \o rest \in Seq(Callbacks) /\ Len(longer \o rest) = Len(s) + Len(todo)
        /\ \A i \in 1..(Len(s) + Len(todo)) :
             (longer \o rest)[i] = IF i <= Len(s) + 1 THEN longer[i] ELSE rest[i - (Len(s) + 1)]
    <2>1. Len(longer) + Len(rest) = Len(s) + Len(todo)
      BY <1>1, <1>2, <1>3
    <2>2. /\ longer \o rest \in Seq(Callbacks) /\ Len(longer \o rest) = Len(longer) + Len(rest)
          /\ \A i \in 1..(Len(longer) + Len(rest)) :
               (longer \o rest)[i] = IF i <= Len(longer) THEN longer[i] ELSE rest[i - Len(longer)]
      BY <1>1, <1>3, ConcatProperties
    <2> QED
      BY <1>3, <2>1, <2>2
  <1>6. longer \o rest = all
    <2> DEFINE joined == longer \o rest
    <2> HIDE DEF joined, all
    <2>1. ASSUME NEW i \in 1..(Len(s) + Len(todo)) PROVE joined[i] = all[i]
      <3>1. CASE i <= Len(s)
        BY <1>2, <1>3, <1>4, <1>5, <3>1 DEF joined
      <3>2. CASE i = Len(s) + 1
        <4>1. all[i] = todo[1]
          BY <1>2, <1>4, <3>2
        <4>2. joined[i] = first
          BY <1>2, <1>3, <1>5, <3>2 DEF joined
        <4> QED
          BY <1>1, <4>1, <4>2
      <3>3. CASE i > Len(s) + 1
        <4>1. all[i] = todo[i - Len(s)]
          BY <1>2, <1>4, <3>3
        <4>2. joined[i] = rest[i - (Len(s) + 1)] /\ i - (Len(s) + 1) \in 1..Len(rest)
          BY <1>1, <1>2, <1>5, <3>3 DEF joined
        <4>3. (i - (Len(s) + 1)) + 1 = i - Len(s)
          BY <1>2
        <4> QED
          BY <1>1, <4>1, <4>2, <4>3
      <3> QED
        BY <1>2, <3>1, <3>2, <3>3
    <2>2. joined \in Seq(Callbacks) /\ Len(joined) = Len(all) /\ all \in Seq(Callbacks)
      BY <1>4, <1>5 DEF joined
    <2> QED
      BY <1>4, <2>1, <2>2 DEF joined
  <1>7. Range(s) \cup Range(todo) \subseteq Range(longer) \cup Range(rest)
    <2>1. Range(s) \subseteq Range(longer)
      BY <1>2, <1>3 DEF Range
    <2>2. ASSUME NEW i \in 1..Len(todo) PROVE todo[i] \in Range(longer) \cup Range(rest)
      <3>1. CASE i = 1
        BY <1>1, <1>2, <1>3, <3>1 DEF Range
      <3>2. CASE i # 1
        <4>1. i - 1 \in 1..Len(rest) /\ (i - 1) + 1 = i
          BY <1>1, <1>2, <3>2
        <4> QED
          BY <1>1, <4>1 DEF Range
      <3> QED
        BY <3>1, <3>2
    <2> QED
      BY <1>2, <2>1, <2>2 DEF Range
  <1>8. ASSUME NEW R, BackThrough(all, R) PROVE BackThrough(longer, R)
    <2>1. \A i \in DOMAIN longer : i \in DOMAIN all /\ longer[i] = all[i]
      <3>1. \A i \in 1..(Len(s) + 1) : i \in 1..(Len(s) + Len(todo)) /\ longer[i] = (longer \o rest)[i]
        BY <1>2, <1>5
      <3> QED
        BY <1>3, <1>4, <1>6, <3>1
    <2>2. Len(longer) <= Len(all)
      BY <1>2, <1>3, <1>4
    <2> HIDE DEF all
    <2>3. PICK n \in 0..Len(R) : Len(all) <= n /\ \A i \in DOMAIN all : all[i] = R[n + 1 - i]
      BY <1>8 DEF BackThrough
    <2>4. Len(longer) <= n
      BY <1>3, <1>4, <2>2, <2>3 DEF all
    <2> QED
      BY <2>1, <2>3, <2>4 DEF BackThrough
  <1> QED
    BY <1>1, <1>3, <1>6, <1>7, <1>8 DEF longer, first, rest

\* The list is copied, to be gone through backwards.
LEMMA CopyCallbacksStep ==
    ASSUME ShutdownInv, NEW t \in Threads, CopyCallbacks(t)
    PROVE  ShutdownInv'
  <1>1. /\ UNCHANGED <<lock, event, registered, called, due>>
        /\ At(t, "sd_copy") /\ Becomes(t, "sd_run", Reverse(registered))
    BY DEF CopyCallbacks, shared
  <1>2. "sd_run" \in Pcs /\ Reverse(registered) \in Seq(Callbacks)
    BY ReverseFacts DEF Pcs, ShutdownInv, TypeInv
  <1>3. stack' \in Stacks /\ \E old, new : GoesOn(old, new, t, "sd_copy", "sd_run", Reverse(registered))
    BY <1>1, <1>2, Moves
  <1>4. PICK old, new : GoesOn(old, new, t, "sd_copy", "sd_run", Reverse(registered))
    BY <1>3
  <1>5. TypeInv'
    BY <1>1, <1>3 DEF ShutdownInv, TypeInv
  <1>6. LockInv'
    BY <1>1, <1>4 DEF ShutdownInv, LockInv, Holding, GoesOn
  <1>7. DoingInv'
    BY <1>1, <1>4 DEF ShutdownInv, DoingInv, Doing, GoesOn
  <1>8. CalledInv'
    <2>1. called = <<>>
      BY <1>4 DEF ShutdownInv, DoingInv, Doing, GoesOn
    <2>2. called \o Reverse(registered) = Reverse(registered)
      BY <1>2, <2>1, ConcatEmptySeq
    <2>3. BackThrough(called \o Reverse(registered), registered)
      BY <2>2, ReverseFacts DEF ShutdownInv, TypeInv
    <2> QED
      BY <1>1, <1>4, <2>3 DEF ShutdownInv, CalledInv, GoesOn
  <1>9. DueInv'
    <2>1. due \subseteq Range(Reverse(registered))
      BY <1>4, ReverseFacts DEF ShutdownInv, TypeInv, DueInv, GoesOn
    <2> QED
      BY <1>1, <1>4, <2>1 DEF ShutdownInv, DueInv, Doing, GoesOn
  <1>10. RegisteredInv'
    BY <1>1, <1>4 DEF ShutdownInv, RegisteredInv, Registering, GoesOn
  <1> QED
    BY <1>5, <1>6, <1>7, <1>8, <1>9, <1>10 DEF ShutdownInv

\* One callback is called.
LEMMA RunCallbackStep ==
    ASSUME ShutdownInv, NEW t \in Threads, RunCallback(t)
    PROVE  ShutdownInv'
  <1>1. /\ called' = Append(called, Head(Todo(t))) /\ UNCHANGED <<lock, event, registered, due>>
        /\ Todo(t) # <<>>
        /\ At(t, "sd_run") /\ Becomes(t, "sd_run", Tail(Todo(t)))
    BY DEF RunCallback, LeftAfter
  <1>11. /\ called' \in Seq(Callbacks) /\ Tail(Todo(t)) \in Seq(Callbacks)
         /\ called' \o Tail(Todo(t)) = called \o Todo(t)
         /\ Range(called) \cup Range(Todo(t)) \subseteq Range(called') \cup Range(Tail(Todo(t)))
         /\ \A R : BackThrough(called \o Todo(t), R) => BackThrough(called', R)
    <2>1. called \in Seq(Callbacks) /\ Todo(t) \in Seq(Callbacks)
      BY <1>1, TodoType DEF ShutdownInv, TypeInv
    <2> QED
      BY <1>1, <2>1, CallNext
  <1>2. "sd_run" \in Pcs /\ Tail(Todo(t)) \in Seq(Callbacks)
    BY <1>1, <1>11 DEF Pcs
  <1>3. stack' \in Stacks /\ \E old, new : GoesOn(old, new, t, "sd_run", "sd_run", Tail(Todo(t)))
    BY <1>1, <1>2, Moves
  <1>4. PICK old, new : GoesOn(old, new, t, "sd_run", "sd_run", Tail(Todo(t)))
    BY <1>3
  <1>5. TypeInv'
    BY <1>1, <1>3, <1>11 DEF ShutdownInv, TypeInv
  <1>6. LockInv'
    BY <1>1, <1>4 DEF ShutdownInv, LockInv, Holding, GoesOn
  <1>7. DoingInv'
    BY <1>1, <1>4 DEF ShutdownInv, DoingInv, Doing, GoesOn
  <1>8. CalledInv'
    <2>1. BackThrough(called \o Todo(t), registered)
      BY <1>4 DEF ShutdownInv, CalledInv, GoesOn
    <2>2. BackThrough(called', registered) /\ BackThrough(called' \o Tail(Todo(t)), registered)
      BY <1>11, <2>1
    <2>3. \A x \in Calls' : x.pc = "sd_run" => x = new
      BY <1>4 DEF ShutdownInv, DoingInv, Doing, GoesOn
    <2> QED
      BY <1>1, <1>4, <2>2, <2>3 DEF CalledInv, GoesOn
  <1>9. DueInv'
    <2>1. due \subseteq Range(called) \cup Range(Todo(t))
      BY <1>4 DEF ShutdownInv, DueInv, GoesOn
    <2>2. due \subseteq Range(called') \cup Range(Tail(Todo(t)))
      BY <1>11, <2>1
    <2>3. \A x \in Calls' : x.pc \in Doing => x = new
      BY <1>4 DEF ShutdownInv, DoingInv, Doing, GoesOn
    <2> QED
      BY <1>1, <1>4, <2>2, <2>3 DEF DueInv, Doing, GoesOn
  <1>10. RegisteredInv'
    BY <1>1, <1>4 DEF ShutdownInv, RegisteredInv, Registering, GoesOn
  <1> QED
    BY <1>5, <1>6, <1>7, <1>8, <1>9, <1>10 DEF ShutdownInv

\* All are called: _do_shutdown returns.
LEMMA ShutReturnStep ==
    ASSUME ShutdownInv, NEW t \in Threads, ShutReturn(t)
    PROVE  ShutdownInv'
  <1>1. /\ At(t, "sd_run") /\ Todo(t) = <<>> /\ Return(t)
        /\ UNCHANGED <<lock, event, registered, called, due>>
    BY DEF ShutReturn, shared
  <1>2. stack' \in Stacks /\ \E old : Ends(old, t, "sd_run")
    BY <1>1, Returns
  <1>3. PICK old : Ends(old, t, "sd_run")
    BY <1>2
  <1>4. TypeInv'
    BY <1>1, <1>2 DEF ShutdownInv, TypeInv
  <1>5. LockInv'
    BY <1>1, <1>3 DEF ShutdownInv, LockInv, Holding, Ends
  <1>6. DoingInv'
    BY <1>1, <1>3 DEF ShutdownInv, DoingInv, Doing, Ends
  <1>7. CalledInv'
    BY <1>1, <1>3 DEF ShutdownInv, CalledInv, Ends
  <1>8. DueInv'
    <2>1. due \subseteq Range(called) \cup Range(Todo(t))
      BY <1>3 DEF ShutdownInv, DueInv, Ends
    <2>2. Range(Todo(t)) = {}
      BY <1>1 DEF Range
    <2> QED
      BY <1>1, <1>3, <2>1, <2>2 DEF ShutdownInv, DueInv, Ends
  <1>9. RegisteredInv'
    BY <1>1, <1>3 DEF ShutdownInv, RegisteredInv, Registering, Ends
  <1> QED
    BY <1>4, <1>5, <1>6, <1>7, <1>8, <1>9 DEF ShutdownInv

\* The places of a call that has nothing to do with the callbacks yet.
LEMMA PlainPlaces ==
    \A pc \in {"sd_lock", "wait", "wait_check", "wait_sleep", "wake_true", "wake_false",
               "leave_true", "leave_false"} : pc \in Pcs /\ Plain(pc)
  BY DEF Pcs, Plain, Registering, Holding, Doing

\* Shutdown is asked for, or waited for: a call is made.
LEMMA AskStep ==
    ASSUME ShutdownInv,
           Signal \/ WaitForShutdown \/ \E t \in Workers : TriggerShutdown(t)
    PROVE  ShutdownInv'
  <1>1. UNCHANGED <<lock, event, registered, called, due>>
    BY DEF Signal, WaitForShutdown, TriggerShutdown, shared
  <1>2. PICK t \in Threads, pc \in {"sd_lock", "wait"} : Push(t, Call(pc, <<>>))
    BY DEF Signal, WaitForShutdown, TriggerShutdown, Threads
  <1>3. pc \in Pcs /\ Plain(pc)
    BY PlainPlaces
  <1> QED
    BY <1>1, <1>2, <1>3, PlainPush

\* The main thread polls the event.
LEMMA WaitStep ==
    ASSUME ShutdownInv, WaitEnter \/ WaitCheck \/ WaitWake \/ WaitReacquire \/ WaitLeave
    PROVE  ShutdownInv'
  <1>1. UNCHANGED <<lock, event, registered, called, due>> /\ Main \in Threads
    BY DEF WaitEnter, WaitCheck, WaitWake, WaitReacquire, WaitLeave, shared, Threads
  <1> DEFINE Places == {"wait", "wait_check", "wait_sleep", "wake_true", "wake_false", "leave_true", "leave_false"}
  <1>2. /\ \E from \in Places : At(Main, from)
        /\ Return(Main) \/ \E pc \in Places : Becomes(Main, pc, <<>>)
    BY DEF WaitEnter, WaitCheck, WaitWake, WaitReacquire, WaitLeave
  <1>3. stack[Main] # <<>> /\ Plain(Head(stack[Main]).pc)
    BY <1>2, PlainPlaces DEF At
  <1>4. CASE Return(Main)
    BY <1>1, <1>3, <1>4, PlainReturn
  <1>5. ASSUME NEW pc \in Places, Becomes(Main, pc, <<>>) PROVE ShutdownInv'
    <2>1. pc \in Pcs /\ Plain(pc) /\ <<>> \in Seq(Callbacks)
      BY PlainPlaces
    <2> QED
      BY <1>1, <1>3, <1>5, <2>1, PlainBecomes
  <1> QED
    BY <1>2, <1>4, <1>5

\* A thread goes on outside its calls.
LEMMA OutsideStep ==
    ASSUME ShutdownInv, UNCHANGED <<shared, stack>>
    PROVE  ShutdownInv'
  <1>1. Calls' = Calls /\ stack' \in Stacks /\ UNCHANGED <<lock, event, registered, called, due>>
    BY DEF Calls, ShutdownInv, TypeInv, shared
  <1> QED
    BY <1>1, PlainStep

\* Every step keeps the invariant.
LEMMA ShutdownStep ==
    ASSUME ShutdownInv, [Next]_vars
    PROVE  ShutdownInv'
  <1>1. CASE UNCHANGED vars
    BY <1>1, OutsideStep DEF vars
  <1>2. ASSUME NEW t \in Threads, NEW c \in Callbacks, Register(t, c) PROVE ShutdownInv'
    BY <1>2, RegisterStep
  <1>3. CASE Signal \/ \E t \in Workers : TriggerShutdown(t)
    BY <1>3, AskStep
  <1>4. ASSUME NEW t \in Threads, Locking(t) PROVE ShutdownInv'
    <2>1. CASE RegLock(t) \/ ShutLock(t) \/ SetEnter(t)
      BY <2>1, RegLockStep, ShutLockStep, SetEnterStep
    <2>2. CASE WaitEnter \/ WaitReacquire
      BY <2>2, WaitStep
    <2> QED
      BY <1>4, <2>1, <2>2 DEF Locking
  <1>5. ASSUME NEW t \in Threads, Running(t) PROVE ShutdownInv'
    <2>1. CASE RegAppend(t) \/ ShutCheck(t) \/ SetFlag(t) \/ ShutUnlock(t)
      BY <2>1, RegAppendStep, ShutCheckStep, SetFlagStep, ShutUnlockStep
    <2>2. CASE CopyCallbacks(t) \/ RunCallback(t) \/ ShutReturn(t)
      BY <2>2, CopyCallbacksStep, RunCallbackStep, ShutReturnStep
    <2>3. CASE WorkerStops(t) \/ InstallSignalHandlers \/ RefuseToServe \/ MainEnds
      BY <2>3, OutsideStep DEF WorkerStops, InstallSignalHandlers, RefuseToServe, MainEnds
    <2>4. CASE WaitForShutdown
      BY <2>4, AskStep
    <2>5. CASE WaitCheck \/ WaitWake \/ WaitLeave
      BY <2>5, WaitStep
    <2> QED
      BY <1>5, <2>1, <2>2, <2>3, <2>4, <2>5 DEF Running
  <1> QED
    BY <1>1, <1>2, <1>3, <1>4, <1>5 DEF Next

\* No call was made, nothing registered and nothing called.
LEMMA ShutdownInit ==
    ASSUME Init
    PROVE  ShutdownInv
  <1>1. /\ lock = Nobody /\ event = FALSE /\ registered = <<>> /\ called = <<>> /\ due = {}
        /\ stack = [t \in Threads |-> <<>>]
    BY DEF Init
  <1>2. Calls = {}
    <2>1. \A t \in Threads : 1..Len(stack[t]) = {}
      BY <1>1
    <2> QED
      BY <2>1 DEF Calls
  <1>3. TypeInv
    <2>1. <<>> \in Seq(Frame) /\ <<>> \in Seq(Callbacks)
      OBVIOUS
    <2>2. stack \in Stacks
      BY <1>1, <2>1 DEF Stacks
    <2> QED
      BY <1>1, <2>1, <2>2 DEF TypeInv
  <1>4. BackThrough(called, registered)
    <2>1. 0 \in 0..Len(registered) /\ Len(called) <= 0 /\ DOMAIN called = {}
      BY <1>1
    <2> QED
      BY <2>1 DEF BackThrough
  <1>5. LockInv /\ DoingInv /\ CalledInv /\ DueInv /\ RegisteredInv
    BY <1>1, <1>2, <1>4 DEF LockInv, DoingInv, CalledInv, DueInv, RegisteredInv
  <1> QED
    BY <1>3, <1>5 DEF ShutdownInv

\* The invariant of every behaviour: who is inside the lock, who does the shutdown and how far
\* through the list it has gone.
THEOREM ShutdownInvariant == Spec => []ShutdownInv
  <1>1. Init => ShutdownInv
    BY ShutdownInit
  <1>2. ShutdownInv /\ [Next]_vars => ShutdownInv'
    BY ShutdownStep
  <1> QED
    BY <1>1, <1>2, PTL DEF Spec

-----------------------------------------------------------------------------
(* What follows from it. *)

\* What was called is the end of the list as it was when it was copied, or a part of that,
\* backwards: no signal and no trigger has a place of the list called again.
THEOREM ShutdownCallbacksOnce == Spec => []CallbacksOnce
  <1>1. ASSUME ShutdownInv PROVE CallbacksOnce
    <2>1. called \in Seq(Callbacks) /\ registered \in Seq(Callbacks)
      BY <1>1 DEF ShutdownInv, TypeInv
    <2>2. PICK n \in 0..Len(registered) :
            Len(called) <= n /\ \A i \in DOMAIN called : called[i] = registered[n + 1 - i]
      BY <1>1 DEF ShutdownInv, CalledInv, BackThrough
    <2> SUFFICES ASSUME NEW i \in DOMAIN called, NEW j \in DOMAIN called, i < j
                 PROVE  \E k, l \in DOMAIN registered :
                          k < l /\ registered[k] = called[j] /\ registered[l] = called[i]
      BY DEF CallbacksOnce
    <2>3. /\ n + 1 - j \in DOMAIN registered /\ n + 1 - i \in DOMAIN registered
          /\ n + 1 - j < n + 1 - i
      BY <2>1, <2>2
    <2> QED
      BY <2>2, <2>3
  <1> QED
    BY <1>1, ShutdownInvariant, PTL

\* No callback is called twice: none is registered twice.
NoCallbackTwice == \A i, j \in DOMAIN called : called[i] = called[j] => i = j

\* However signals, triggers and registrations interleave, no callback is called twice.
THEOREM ShutdownNoCallbackTwice == Spec => []NoCallbackTwice
  <1>1. ASSUME ShutdownInv PROVE NoCallbackTwice
    <2>1. called \in Seq(Callbacks) /\ registered \in Seq(Callbacks)
      BY <1>1 DEF ShutdownInv, TypeInv
    <2>2. PICK n \in 0..Len(registered) :
            Len(called) <= n /\ \A i \in DOMAIN called : called[i] = registered[n + 1 - i]
      BY <1>1 DEF ShutdownInv, CalledInv, BackThrough
    <2> SUFFICES ASSUME NEW i \in DOMAIN called, NEW j \in DOMAIN called, called[i] = called[j]
                 PROVE  i = j
      BY DEF NoCallbackTwice
    <2>3. n + 1 - j \in DOMAIN registered /\ n + 1 - i \in DOMAIN registered
      BY <2>1, <2>2
    <2>4. n + 1 - i = n + 1 - j
      BY <1>1, <2>2, <2>3 DEF ShutdownInv, RegisteredInv
    <2> QED
      BY <2>1, <2>4
  <1> QED
    BY <1>1, ShutdownInvariant, PTL

\* What was registered when the event was set was called, once nobody is at it any more.
DueCalled == (event /\ \A x \in Calls : x.pc \notin Doing) => due \subseteq Range(called)

\* The call that does the shutdown leaves no callback out, although others raise.
THEOREM ShutdownDueCalled == Spec => []DueCalled
  <1>1. ShutdownInv => DueCalled
    BY DEF ShutdownInv, DueInv, DueCalled
  <1> QED
    BY <1>1, ShutdownInvariant, PTL

-----------------------------------------------------------------------------
(* Who waits for whom. *)

\* Inside the lock of the event.
CondHolding == {"sd_flag", "wait_check", "leave_true", "leave_false"}

\* Whoever has the lock is inside a call at one of the places.
Owned(owner, places, calls) == owner # Nobody => \E x \in calls : x.pc \in places /\ x.thread = owner

\* A lock that is taken will be left: its owner is inside a call that has it.  Only the main
\* thread is inside more than one call.
OwnInv ==
    /\ Owned(lock, Holding, Calls) /\ Owned(cond, CondHolding, Calls)
    /\ \A t \in Workers : Len(stack[t]) <= 1

\* A lock keeps its owner when a call that does not have it goes on, or one that keeps it.
LEMMA OwnedKept ==
    ASSUME NEW owner, NEW places, NEW calls, NEW later, NEW old, Owned(owner, places, calls),
           calls \ {old} \subseteq later,
           \/ old.pc \notin places
           \/ \E new \in later : new.pc \in places /\ new.thread = old.thread
    PROVE  Owned(owner, places, later)
  BY DEF Owned

\* A call is made: a worker makes one only outside all others.
LEMMA OwnPush ==
    ASSUME TypeInv, OwnInv, NEW t \in Threads, NEW pc \in Pcs, NEW todo \in Seq(Callbacks),
           Push(t, Call(pc, todo)), UNCHANGED <<lock, cond>>, t \in Workers => stack[t] = <<>>
    PROVE  OwnInv'
  <1>1. PICK new : Calls' = Calls \cup {new}
    BY PushCalls
  <1>2. Owned(lock, Holding, Calls)' /\ Owned(cond, CondHolding, Calls)'
    BY <1>1 DEF OwnInv, Owned
  <1>3. ASSUME NEW u \in Workers PROVE Len(stack'[u]) <= 1
    <2> DEFINE f == Call(pc, todo)
    <2>1. u \in Threads /\ stack \in [Threads -> Seq(Frame)] /\ stack' = [stack EXCEPT ![t] = <<f>> \o @]
      BY DEF TypeInv, Stacks, Push, Threads
    <2> HIDE DEF f
    <2>2. CASE u = t
      <3>1. stack'[u] = <<f>> \o <<>>
        BY <2>1, <2>2
      <3> QED
        BY <3>1
    <2>3. CASE u # t
      BY <2>1, <2>3 DEF OwnInv
    <2> QED
      BY <2>2, <2>3
  <1> QED
    BY <1>2, <1>3 DEF OwnInv

\* A call goes on, and takes a lock, keeps it or leaves it.
LEMMA OwnMoves ==
    ASSUME ShutdownInv, OwnInv, NEW t \in Threads, NEW from, At(t, from),
           NEW pc \in Pcs, NEW todo \in Seq(Callbacks), Becomes(t, pc, todo),
           \/ lock' = Nobody
           \/ lock' = t /\ pc \in Holding
           \/ lock' = lock /\ (from \in Holding => pc \in Holding),
           \/ cond' = Nobody
           \/ cond' = t /\ pc \in CondHolding
           \/ cond' = cond /\ (from \in CondHolding => pc \in CondHolding)
    PROVE  OwnInv'
  <1>0. \E old, new : GoesOn(old, new, t, from, pc, todo)
    BY Moves
  <1>1. PICK old, new : GoesOn(old, new, t, from, pc, todo)
    BY <1>0
  <1>2. /\ old.thread = t /\ old.pc = from /\ new.thread = t /\ new.pc = pc /\ new \in Calls'
        /\ Calls \ {old} \subseteq Calls'
    BY <1>1 DEF GoesOn
  <1>3. Owned(lock', Holding, Calls')
    <2>1. CASE lock' = Nobody \/ (lock' = t /\ pc \in Holding)
      BY <1>2, <2>1 DEF Owned
    <2>2. CASE lock' = lock /\ (from \in Holding => pc \in Holding)
      <3>1. Owned(lock, Holding, Calls)
        BY DEF OwnInv
      <3> QED
        BY <1>2, <2>2, <3>1, OwnedKept
    <2> QED
      BY <2>1, <2>2
  <1>4. Owned(cond', CondHolding, Calls')
    <2>1. CASE cond' = Nobody \/ (cond' = t /\ pc \in CondHolding)
      BY <1>2, <2>1 DEF Owned
    <2>2. CASE cond' = cond /\ (from \in CondHolding => pc \in CondHolding)
      <3>1. Owned(cond, CondHolding, Calls)
        BY DEF OwnInv
      <3> QED
        BY <1>2, <2>2, <3>1, OwnedKept
    <2> QED
      BY <2>1, <2>2
  <1>5. ASSUME NEW u \in Workers PROVE Len(stack'[u]) <= 1
    <2> DEFINE f == Call(pc, todo)
               rest == Tail(stack[t])
    <2>1. u \in Threads /\ stack \in [Threads -> Seq(Frame)] /\ stack' = [stack EXCEPT ![t] = <<f>> \o rest]
      BY DEF ShutdownInv, TypeInv, Stacks, Becomes, Threads
    <2>2. CASE u = t
      <3>1. Len(stack[t]) <= 1 /\ stack[t] \in Seq(Frame) /\ stack[t] # <<>>
        BY <2>1, <2>2 DEF OwnInv, At
      <3>2. rest \in Seq(Frame) /\ Len(rest) = Len(stack[t]) - 1 /\ Len(stack[t]) \in Nat
        BY <3>1, HeadTailProperties
      <3> HIDE DEF f, rest
      <3>3. Len(<<f>> \o rest) <= 1
        BY <3>1, <3>2
      <3> QED
        BY <2>1, <2>2, <3>3
    <2>3. CASE u # t
      BY <2>1, <2>3 DEF OwnInv
    <2> QED
      BY <2>2, <2>3
  <1> QED
    BY <1>3, <1>4, <1>5 DEF OwnInv, Owned

\* A call returns, and has left the locks.
LEMMA OwnReturns ==
    ASSUME ShutdownInv, OwnInv, NEW t \in Threads, NEW from, At(t, from), Return(t),
           lock' = Nobody \/ (lock' = lock /\ from \notin Holding),
           cond' = Nobody \/ (cond' = cond /\ from \notin CondHolding)
    PROVE  OwnInv'
  <1>0. \E old : Ends(old, t, from)
    BY Returns
  <1>1. PICK old : Ends(old, t, from)
    BY <1>0
  <1>2. old.pc = from /\ Calls \ {old} \subseteq Calls'
    BY <1>1 DEF Ends
  <1>3. Owned(lock', Holding, Calls')
    <2>1. CASE lock' = Nobody
      BY <2>1 DEF Owned
    <2>2. CASE lock' = lock /\ from \notin Holding
      <3>1. Owned(lock, Holding, Calls)
        BY DEF OwnInv
      <3> QED
        BY <1>2, <2>2, <3>1, OwnedKept
    <2> QED
      BY <2>1, <2>2
  <1>4. Owned(cond', CondHolding, Calls')
    <2>1. CASE cond' = Nobody
      BY <2>1 DEF Owned
    <2>2. CASE cond' = cond /\ from \notin CondHolding
      <3>1. Owned(cond, CondHolding, Calls)
        BY DEF OwnInv
      <3> QED
        BY <1>2, <2>2, <3>1, OwnedKept
    <2> QED
      BY <2>1, <2>2
  <1>5. ASSUME NEW u \in Workers PROVE Len(stack'[u]) <= 1
    <2>1. u \in Threads /\ stack \in [Threads -> Seq(Frame)] /\ stack' = [stack EXCEPT ![t] = Tail(@)]
      BY DEF ShutdownInv, TypeInv, Stacks, Return, Threads
    <2>2. CASE u = t
      <3>1. Len(stack[t]) <= 1 /\ stack[t] \in Seq(Frame) /\ stack[t] # <<>>
        BY <2>1, <2>2 DEF OwnInv, At
      <3>2. Len(Tail(stack[t])) = Len(stack[t]) - 1 /\ Len(stack[t]) \in Nat
        BY <3>1, HeadTailProperties
      <3> QED
        BY <2>1, <2>2, <3>1, <3>2
    <2>3. CASE u # t
      BY <2>1, <2>3 DEF OwnInv
    <2> QED
      BY <2>2, <2>3
  <1> QED
    BY <1>3, <1>4, <1>5 DEF OwnInv, Owned

\* The calls of _do_shutdown and register_shutdown_callback take and leave both locks as they should.
LEMMA OwnEngineStep ==
    ASSUME ShutdownInv, OwnInv, NEW t \in Threads,
           \/ RegLock(t) \/ ShutLock(t) \/ SetEnter(t) \/ RegAppend(t) \/ ShutCheck(t)
           \/ SetFlag(t) \/ ShutUnlock(t) \/ CopyCallbacks(t) \/ RunCallback(t) \/ ShutReturn(t)
    PROVE  OwnInv'
  <1> DEFINE none == <<>>
             reversed == Reverse(registered)
             left == Tail(Todo(t))
  <1>1. none \in Seq(Callbacks) /\ reversed \in Seq(Callbacks)
    BY ReverseFacts DEF ShutdownInv, TypeInv
  <1>2. CASE RegLock(t)
    <2>1. /\ At(t, "reg_lock") /\ Becomes(t, "reg_append", Todo(t)) /\ lock' = t /\ cond' = cond
          /\ Todo(t) \in Seq(Callbacks) /\ "reg_append" \in Pcs
      BY <1>2, TodoType DEF RegLock, Pcs
    <2> QED
      BY <2>1, OwnMoves DEF Holding, CondHolding
  <1>3. CASE ShutLock(t)
    <2>1. At(t, "sd_lock") /\ Becomes(t, "sd_check", none) /\ lock' = t /\ cond' = cond /\ "sd_check" \in Pcs
      BY <1>3 DEF ShutLock, Pcs
    <2> HIDE DEF none
    <2> QED
      BY <1>1, <2>1, OwnMoves DEF Holding, CondHolding
  <1>4. CASE SetEnter(t)
    <2>1. At(t, "sd_set") /\ Becomes(t, "sd_flag", none) /\ lock' = lock /\ cond' = t /\ "sd_flag" \in Pcs
      BY <1>4 DEF SetEnter, Pcs
    <2> HIDE DEF none
    <2> QED
      BY <1>1, <2>1, OwnMoves DEF Holding, CondHolding
  <1>5. CASE RegAppend(t)
    <2>1. At(t, "reg_append") /\ Return(t) /\ lock' = Nobody /\ cond' = cond
      BY <1>5 DEF RegAppend
    <2> QED
      BY <2>1, OwnReturns DEF CondHolding
  <1>6. CASE ShutCheck(t)
    <2>1. At(t, "sd_check") /\ cond' = cond /\ "sd_set" \in Pcs
      BY <1>6 DEF ShutCheck, Pcs
    <2>2. CASE Return(t) /\ lock' = Nobody
      BY <2>1, <2>2, OwnReturns DEF CondHolding
    <2>3. CASE Becomes(t, "sd_set", none) /\ lock' = lock
      <3> HIDE DEF none
      <3> QED
        BY <1>1, <2>1, <2>3, OwnMoves DEF Holding, CondHolding
    <2> QED
      BY <1>6, <2>2, <2>3 DEF ShutCheck
  <1>7. CASE SetFlag(t)
    <2>1. At(t, "sd_flag") /\ Becomes(t, "sd_unlock", none) /\ lock' = lock /\ cond' = Nobody /\ "sd_unlock" \in Pcs
      BY <1>7 DEF SetFlag, Pcs
    <2> HIDE DEF none
    <2> QED
      BY <1>1, <2>1, OwnMoves DEF Holding
  <1>8. CASE ShutUnlock(t)
    <2>1. At(t, "sd_unlock") /\ Becomes(t, "sd_copy", none) /\ lock' = Nobody /\ cond' = cond /\ "sd_copy" \in Pcs
      BY <1>8 DEF ShutUnlock, Pcs
    <2> HIDE DEF none
    <2> QED
      BY <1>1, <2>1, OwnMoves DEF CondHolding
  <1>9. CASE CopyCallbacks(t)
    <2>1. At(t, "sd_copy") /\ Becomes(t, "sd_run", reversed) /\ lock' = lock /\ cond' = cond /\ "sd_run" \in Pcs
      BY <1>9 DEF CopyCallbacks, shared, Pcs
    <2> HIDE DEF reversed
    <2> QED
      BY <1>1, <2>1, OwnMoves DEF Holding, CondHolding
  <1>10. CASE RunCallback(t)
    <2>1. /\ At(t, "sd_run") /\ Becomes(t, "sd_run", left) /\ lock' = lock /\ cond' = cond
          /\ "sd_run" \in Pcs /\ Todo(t) # <<>>
      BY <1>10 DEF RunCallback, LeftAfter, Pcs
    <2>2. left \in Seq(Callbacks)
      BY <2>1, TodoType, HeadTailProperties
    <2> HIDE DEF left
    <2> QED
      BY <2>1, <2>2, OwnMoves DEF Holding, CondHolding
  <1>11. CASE ShutReturn(t)
    <2>1. At(t, "sd_run") /\ Return(t) /\ lock' = lock /\ cond' = cond
      BY <1>11 DEF ShutReturn, shared
    <2> QED
      BY <2>1, OwnReturns DEF Holding, CondHolding
  <1> QED
    BY <1>2, <1>3, <1>4, <1>5, <1>6, <1>7, <1>8, <1>9, <1>10, <1>11

\* So does Event.wait.
LEMMA OwnWaitStep ==
    ASSUME ShutdownInv, OwnInv, WaitEnter \/ WaitCheck \/ WaitWake \/ WaitReacquire \/ WaitLeave
    PROVE  OwnInv'
  <1> DEFINE none == <<>>
  <1>1. none \in Seq(Callbacks) /\ Main \in Threads /\ lock' = lock
    BY DEF Threads, WaitEnter, WaitCheck, WaitWake, WaitReacquire, WaitLeave, shared
  <1>2. \A pc \in {"wait_check", "wait_sleep", "wake_true", "wake_false", "leave_true", "leave_false"} : pc \in Pcs
    BY DEF Pcs
  <1>3. CASE WaitEnter
    <2>1. At(Main, "wait") /\ Becomes(Main, "wait_check", none) /\ cond' = Main
      BY <1>3 DEF WaitEnter
    <2> HIDE DEF none
    <2> QED
      BY <1>1, <1>2, <2>1, OwnMoves DEF Holding, CondHolding
  <1>4. CASE WaitCheck
    <2>1. At(Main, "wait_check") /\ cond' = Nobody
      BY <1>4 DEF WaitCheck
    <2>2. CASE Return(Main)
      BY <1>1, <2>1, <2>2, OwnReturns DEF Holding
    <2>3. CASE Becomes(Main, "wait_sleep", none)
      <3> HIDE DEF none
      <3> QED
        BY <1>1, <1>2, <2>1, <2>3, OwnMoves DEF Holding
    <2> QED
      BY <1>4, <2>2, <2>3 DEF WaitCheck
  <1>5. CASE WaitWake
    <2>1. /\ At(Main, "wait_sleep") /\ cond' = cond
          /\ Becomes(Main, "wake_true", none) \/ Becomes(Main, "wake_false", none)
      BY <1>5 DEF WaitWake, shared
    <2> HIDE DEF none
    <2> QED
      BY <1>1, <1>2, <2>1, OwnMoves DEF Holding, CondHolding
  <1>6. CASE WaitReacquire
    <2>1. /\ cond' = Main
          /\ \/ At(Main, "wake_true") /\ Becomes(Main, "leave_true", none)
             \/ At(Main, "wake_false") /\ Becomes(Main, "leave_false", none)
      BY <1>6 DEF WaitReacquire
    <2> HIDE DEF none
    <2> QED
      BY <1>1, <1>2, <2>1, OwnMoves DEF Holding, CondHolding
  <1>7. CASE WaitLeave
    <2>1. /\ At(Main, "leave_true") \/ At(Main, "leave_false")
          /\ cond' = Nobody /\ Return(Main)
      BY <1>7 DEF WaitLeave
    <2> QED
      BY <1>1, <2>1, OwnReturns DEF Holding
  <1> QED
    BY <1>3, <1>4, <1>5, <1>6, <1>7

\* A call that a thread makes has no lock yet.
LEMMA OwnCallStep ==
    ASSUME ShutdownInv, OwnInv,
           \/ Signal \/ WaitForShutdown \/ \E t \in Workers : TriggerShutdown(t)
           \/ \E t \in Threads, c \in Callbacks : Register(t, c)
    PROVE  OwnInv'
  <1>1. TypeInv /\ UNCHANGED <<lock, cond>>
    BY DEF ShutdownInv, Signal, WaitForShutdown, TriggerShutdown, Register, shared
  <1>2. CASE Signal \/ WaitForShutdown \/ \E t \in Workers : TriggerShutdown(t)
    <2> DEFINE none == <<>>
    <2>1. PICK t \in Threads, pc \in {"sd_lock", "wait"} :
            Push(t, Call(pc, none)) /\ (t \in Workers => stack[t] = <<>>)
      BY <1>2, ShutdownAssumption DEF Signal, WaitForShutdown, TriggerShutdown, Threads
    <2>2. pc \in Pcs /\ none \in Seq(Callbacks)
      BY PlainPlaces
    <2> HIDE DEF none
    <2> QED
      BY <1>1, <2>1, <2>2, OwnPush
  <1>3. ASSUME NEW t \in Threads, NEW c \in Callbacks, Register(t, c) PROVE OwnInv'
    <2> DEFINE one == <<c>>
    <2>1. /\ Push(t, Call("reg_lock", one)) /\ stack[t] = <<>>
          /\ "reg_lock" \in Pcs /\ one \in Seq(Callbacks)
      BY <1>3 DEF Register, Pcs
    <2> HIDE DEF one
    <2> QED
      BY <1>1, <2>1, OwnPush
  <1> QED
    BY <1>2, <1>3

\* Every step keeps the owners.
LEMMA OwnStep ==
    ASSUME ShutdownInv, OwnInv, [Next]_vars
    PROVE  OwnInv'
  <1>1. ASSUME UNCHANGED <<shared, stack>> PROVE OwnInv'
    <2>1. UNCHANGED <<lock, cond, stack>>
      BY <1>1 DEF shared
    <2> QED
      BY <2>1 DEF OwnInv, Owned, Calls
  <1>2. CASE UNCHANGED vars
    BY <1>1, <1>2 DEF vars
  <1>3. CASE Signal \/ (\E t \in Workers : TriggerShutdown(t)) \/ \E t \in Threads, c \in Callbacks : Register(t, c)
    BY <1>3, OwnCallStep
  <1>4. ASSUME NEW t \in Threads, Locking(t) PROVE OwnInv'
    BY <1>4, OwnEngineStep, OwnWaitStep DEF Locking
  <1>5. ASSUME NEW t \in Threads, Running(t) PROVE OwnInv'
    <2>1. CASE RegAppend(t) \/ ShutCheck(t) \/ SetFlag(t) \/ ShutUnlock(t)
               \/ CopyCallbacks(t) \/ RunCallback(t) \/ ShutReturn(t)
      BY <2>1, OwnEngineStep
    <2>2. CASE WorkerStops(t) \/ InstallSignalHandlers \/ RefuseToServe \/ MainEnds
      BY <1>1, <2>2 DEF WorkerStops, InstallSignalHandlers, RefuseToServe, MainEnds
    <2>3. CASE WaitForShutdown
      BY <2>3, OwnCallStep
    <2>4. CASE WaitCheck \/ WaitWake \/ WaitLeave
      BY <2>4, OwnWaitStep
    <2> QED
      BY <1>5, <2>1, <2>2, <2>3, <2>4 DEF Running
  <1> QED
    BY <1>2, <1>3, <1>4, <1>5 DEF Next

\* What a thread's innermost call waits for.
LEMMA WaitsFacts ==
    ASSUME NEW t, WaitsFor(t) # Nobody
    PROVE  /\ stack[t] # <<>>
           /\ \/ WaitsFor(t) = lock /\ Head(stack[t]).pc \in {"reg_lock", "sd_lock"}
              \/ WaitsFor(t) = cond /\ Head(stack[t]).pc \in {"sd_set", "wait", "wake_true", "wake_false"}
  BY DEF WaitsFor

\* A thread that has a lock, and whose innermost call does not, was interrupted.
LEMMA HolderBelow ==
    ASSUME ShutdownInv, OwnInv, NEW x \in Calls, x.pc \in Holding \cup CondHolding,
           stack[x.thread] # <<>>, Head(stack[x.thread]).pc # x.pc
    PROVE  InterruptedHolder
  <1>0. PICK t \in Threads : \E d \in 1..Len(stack[t]) : x = CallAt(stack[t], t, d)
    BY CallsFacts
  <1>1. PICK d \in 1..Len(stack[t]) : x = CallAt(stack[t], t, d)
    BY <1>0
  <1> DEFINE i == Len(stack[t]) + 1 - d
  <1>2. x.thread = t /\ x.pc = stack[t][i].pc
    BY <1>1 DEF CallAt
  <1>3. stack[t] \in Seq(Frame) /\ Len(stack[t]) \in Nat /\ DOMAIN stack[t] = 1..Len(stack[t])
    BY DEF ShutdownInv, TypeInv, Stacks
  <1>4. Head(stack[t]) = stack[t][1]
    BY <1>2, <1>3
  <1>5. i \in DOMAIN stack[t]
    BY <1>3
  <1> HIDE DEF i
  <1>6. i # 1
    BY <1>2, <1>4
  <1>7. i > 1 /\ ~(Len(stack[t]) <= 1)
    BY <1>3, <1>5, <1>6
  <1>8. t = Main
    BY <1>7 DEF OwnInv, Threads
  <1> QED
    BY <1>2, <1>5, <1>7, <1>8 DEF InterruptedHolder, Holding, CondHolding

\* A thread that has the lock of the event and waits, or has the other one and waits for it,
\* was interrupted.
LEMMA WaitingHolder ==
    ASSUME ShutdownInv, OwnInv, NEW t \in Threads, WaitsFor(t) # Nobody,
           t = cond \/ (t = lock /\ WaitsFor(t) = lock)
    PROVE  InterruptedHolder
  <1>1. t # Nobody /\ stack[t] # <<>>
    BY WaitsFacts, ShutdownAssumption DEF Threads
  <1>2. CASE t = cond
    <2>1. PICK x \in Calls : x.pc \in CondHolding /\ x.thread = t
      BY <1>1, <1>2 DEF OwnInv, Owned
    <2>2. Head(stack[t]).pc \notin CondHolding
      BY WaitsFacts DEF CondHolding
    <2> QED
      BY <1>1, <2>1, <2>2, HolderBelow
  <1>3. CASE t = lock /\ Head(stack[t]).pc \in {"reg_lock", "sd_lock"}
    <2>1. PICK x \in Calls : x.pc \in Holding /\ x.thread = t
      BY <1>1, <1>3 DEF OwnInv, Owned
    <2>2. Head(stack[t]).pc \notin Holding
      BY <1>3 DEF Holding
    <2> QED
      BY <1>1, <2>1, <2>2, HolderBelow
  <1>4. CASE t = lock /\ WaitsFor(t) = cond /\ WaitsFor(t) = lock
    BY <1>2, <1>4
  <1> QED
    BY <1>2, <1>3, <1>4, WaitsFacts

\* Threads wait for threads.
LEMMA OwnersAreThreads ==
    ASSUME OwnInv
    PROVE  lock \in Threads \cup {Nobody} /\ cond \in Threads \cup {Nobody}
  <1>1. \A x \in Calls : x.thread \in Threads
    BY CallsFacts DEF CallAt
  <1> QED
    BY <1>1 DEF OwnInv, Owned

\* However the threads register, trigger and poll, in whatever order they take and leave the two
\* locks: they wait for one another only if a handler runs on top of a call of the main thread
\* that has one of them.
THEOREM ShutdownNoOtherDeadlock == Spec => []NoOtherDeadlock
  <1>1. Init => OwnInv
    BY DEF Init, OwnInv, Owned, Threads
  <1>2. ShutdownInv /\ OwnInv /\ [Next]_vars => OwnInv'
    BY OwnStep
  <1>3. ASSUME ShutdownInv, OwnInv PROVE NoOtherDeadlock
    <2> SUFFICES ASSUME NEW t \in Threads, WaitsFor(t) # Nobody, t \in {WaitsFor(t), WaitsFor(WaitsFor(t))}
                 PROVE  InterruptedHolder
      BY DEF NoOtherDeadlock, Deadlocked
    <2> DEFINE o == WaitsFor(t)
    <2>1. (o = lock \/ o = cond) /\ o # Nobody
      BY WaitsFacts
    <2>2. CASE t = o
      BY <1>3, <2>1, <2>2, WaitingHolder
    <2>3. CASE t = WaitsFor(o) /\ t # o
      <3>1. t # Nobody
        BY ShutdownAssumption DEF Threads
      <3>2. (t = lock \/ t = cond) /\ WaitsFor(o) # Nobody
        BY <2>3, <3>1, WaitsFacts
      <3>3. o \in Threads
        BY <1>3, <2>1, OwnersAreThreads
      <3> HIDE DEF o
      <3>4. CASE t = cond
        BY <1>3, <3>4, WaitingHolder
      <3>5. CASE o = cond
        BY <1>3, <3>2, <3>3, <3>5, WaitingHolder
      <3> QED
        BY <2>1, <2>3, <3>2, <3>4, <3>5
    <2> QED
      BY <2>2, <2>3
  <1>4. Spec => [](ShutdownInv /\ OwnInv)
    <2>1. Init => ShutdownInv /\ OwnInv
      BY <1>1, ShutdownInit
    <2>2. ShutdownInv /\ OwnInv /\ [Next]_vars => (ShutdownInv /\ OwnInv)'
      BY <1>2, ShutdownStep
    <2> QED
      BY <2>1, <2>2, PTL DEF Spec
  <1> QED
    BY <1>3, <1>4, PTL

-----------------------------------------------------------------------------
(* Type correctness *)

\* What TypeInv and OwnInv leave out of TypeOK.
PlacesInv ==
    /\ due \subseteq Callbacks
    /\ at \in [Threads -> {"boot", "serve", "returned", "running", "ended"}]
    /\ signals \in 0..MaxSignals /\ triggers \in 0..MaxTriggers

\* The steps that touch neither the list of what is due, nor the places of the threads, nor the counters.
LEMMA PlacesKept ==
    ASSUME PlacesInv, UNCHANGED <<due, at, counts>>
    PROVE  PlacesInv'
  BY DEF PlacesInv, counts

\* A thread goes to another place.
LEMMA PlaceMoves ==
    ASSUME PlacesInv, NEW t, NEW place \in {"serve", "returned", "ended"},
           at' = [at EXCEPT ![t] = place], UNCHANGED <<due, counts>>
    PROVE  PlacesInv'
  BY DEF PlacesInv, counts

\* The event is set: what is due is what is registered.
LEMMA PlacesSetFlag ==
    ASSUME TypeInv, PlacesInv, NEW t, SetFlag(t)
    PROVE  PlacesInv'
  <1>1. Range(registered) \subseteq Callbacks
    BY DEF TypeInv, Range
  <1>2. due' \subseteq Callbacks /\ UNCHANGED <<at, counts>>
    BY <1>1 DEF SetFlag
  <1> QED
    BY <1>2 DEF PlacesInv, counts

\* A signal and a call of trigger_shutdown are counted up to their bounds.
LEMMA PlacesAsked ==
    ASSUME PlacesInv, Signal \/ \E t \in Workers : TriggerShutdown(t)
    PROVE  PlacesInv'
  <1>1. CASE Signal
    <2>1. signals' \in 0..MaxSignals /\ UNCHANGED <<due, at, triggers>>
      BY <1>1, ShutdownAssumption DEF Signal, shared, PlacesInv
    <2> QED
      BY <2>1 DEF PlacesInv
  <1>2. ASSUME NEW t \in Workers, TriggerShutdown(t) PROVE PlacesInv'
    <2>1. triggers' \in 0..MaxTriggers /\ UNCHANGED <<due, at, signals>>
      BY <1>2, ShutdownAssumption DEF TriggerShutdown, shared, PlacesInv
    <2> QED
      BY <2>1 DEF PlacesInv
  <1> QED
    BY <1>1, <1>2

\* The steps of the main thread in the serve loop, and of a worker that stops.
LEMMA PlacesServe ==
    ASSUME PlacesInv, NEW t,
           \/ InstallSignalHandlers \/ RefuseToServe \/ WaitForShutdown \/ WaitEnter \/ WaitCheck
           \/ WaitWake \/ WaitReacquire \/ WaitLeave \/ MainEnds \/ WorkerStops(t)
    PROVE  PlacesInv'
  <1>1. CASE InstallSignalHandlers \/ RefuseToServe \/ MainEnds \/ WorkerStops(t)
    <2>1. UNCHANGED <<due, counts>>
      BY <1>1 DEF InstallSignalHandlers, RefuseToServe, MainEnds, WorkerStops, shared
    <2>2. \E u : \E place \in {"serve", "returned", "ended"} : at' = [at EXCEPT ![u] = place]
      BY <1>1 DEF InstallSignalHandlers, RefuseToServe, MainEnds, WorkerStops
    <2> QED
      BY <2>1, <2>2, PlaceMoves
  <1>2. CASE WaitForShutdown \/ WaitEnter \/ WaitWake \/ WaitReacquire
    <2>1. UNCHANGED <<due, at, counts>>
      BY <1>2 DEF WaitForShutdown, WaitEnter, WaitWake, WaitReacquire, shared
    <2> QED
      BY <2>1, PlacesKept
  <1>3. CASE WaitCheck \/ WaitLeave
    <2>1. UNCHANGED <<due, counts>>
      BY <1>3 DEF WaitCheck, WaitLeave
    <2>2. at' = [at EXCEPT ![Main] = "returned"] \/ UNCHANGED at
      BY <1>3 DEF WaitCheck, WaitLeave
    <2>3. CASE at' = [at EXCEPT ![Main] = "returned"]
      BY <2>1, <2>3, PlaceMoves
    <2>4. CASE UNCHANGED at
      BY <2>1, <2>4, PlacesKept
    <2> QED
      BY <2>2, <2>3, <2>4
  <1> QED
    BY <1>1, <1>2, <1>3

\* The steps of registration and of _do_shutdown.
LEMMA PlacesEngine ==
    ASSUME TypeInv, PlacesInv, NEW t,
           \/ \E c \in Callbacks : Register(t, c)
           \/ RegLock(t) \/ RegAppend(t) \/ ShutLock(t) \/ ShutCheck(t) \/ SetEnter(t) \/ SetFlag(t)
           \/ ShutUnlock(t) \/ CopyCallbacks(t) \/ RunCallback(t) \/ ShutReturn(t)
    PROVE  PlacesInv'
  <1>1. CASE \/ \E c \in Callbacks : Register(t, c)
             \/ RegLock(t) \/ RegAppend(t) \/ ShutLock(t) \/ ShutCheck(t) \/ SetEnter(t)
    <2>1. UNCHANGED <<due, at, counts>>
      BY <1>1 DEF Register, RegLock, RegAppend, ShutLock, ShutCheck, SetEnter, shared
    <2> QED
      BY <2>1, PlacesKept
  <1>2. CASE ShutUnlock(t) \/ CopyCallbacks(t) \/ RunCallback(t) \/ ShutReturn(t)
    <2>1. UNCHANGED <<due, at, counts>>
      BY <1>2 DEF ShutUnlock, CopyCallbacks, RunCallback, ShutReturn, shared
    <2> QED
      BY <2>1, PlacesKept
  <1> QED
    BY <1>1, <1>2, PlacesSetFlag

\* Every step keeps the places, the counters and what is due in their types.
LEMMA PlacesStep ==
    ASSUME TypeInv, PlacesInv, [Next]_vars
    PROVE  PlacesInv'
  <1>1. CASE Signal \/ \E t \in Workers : TriggerShutdown(t)
    BY <1>1, PlacesAsked
  <1>2. ASSUME NEW t \in Threads, (\E c \in Callbacks : Register(t, c)) \/ Locking(t) \/ Running(t)
        PROVE  PlacesInv'
    BY <1>2, PlacesServe, PlacesEngine DEF Locking, Running
  <1>3. CASE UNCHANGED vars
    BY <1>3, PlacesKept DEF vars, counts, shared
  <1> QED
    BY <1>1, <1>2, <1>3 DEF Next

\* Every variable has its type: a lock is a thread's or nobody's, and only known callbacks are registered,
\* due or called.
THEOREM ShutdownTypeOK == Spec => []TypeOK
  <1>1. Init => OwnInv /\ PlacesInv
    <2>1. Init => OwnInv
      BY DEF Init, OwnInv, Owned, Threads
    <2>2. Init => PlacesInv
      BY ShutdownAssumption DEF Init, PlacesInv, Threads
    <2> QED
      BY <2>1, <2>2
  <1>2. ShutdownInv /\ OwnInv /\ PlacesInv /\ [Next]_vars => (OwnInv /\ PlacesInv)'
    BY OwnStep, PlacesStep DEF ShutdownInv
  <1>3. ASSUME ShutdownInv, OwnInv, PlacesInv PROVE TypeOK
    <2>1. TypeInv
      BY <1>3 DEF ShutdownInv
    <2>2. Range(registered) \subseteq Callbacks /\ Range(called) \subseteq Callbacks
      BY <2>1 DEF TypeInv, Range
    <2>3. DOMAIN stack = Threads
      BY <2>1 DEF TypeInv, Stacks
    <2> QED
      BY <1>3, <2>1, <2>2, <2>3, OwnersAreThreads DEF TypeOK, TypeInv, PlacesInv
  <1>4. Spec => [](ShutdownInv /\ OwnInv /\ PlacesInv)
    BY <1>1, <1>2, ShutdownInit, ShutdownStep, PTL DEF Spec
  <1> QED
    BY <1>3, <1>4, PTL
=============================================================================
