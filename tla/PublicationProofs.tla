-------------------------- MODULE PublicationProofs --------------------------
(* What the publication path promises, for any number of sessions, setups and events and any *)
(* thresholds, cooldowns and expiry times.                                                   *)
EXTENDS Publication, FiniteSetTheorems, TLAPS

TypeInv == TypeOK /\ IsFiniteSet(events)

\* What an event that was built says of its data: a sound signal was built from data that
\* were fresh, and expires within its window of that moment.
Fresh(event) ==
    event.sound =>
      /\ event.type = "SUPER_POTENTIAL_CONFIRMED" =>
           event.expires <= event.fetched + Freshness + Window
      /\ event.type = "SUPER_POTENTIAL_INVALIDATED" =>
           event.expires <= event.fetched + Freshness + InvalidationExpiry

\* An event that has passed the consumer, and one that has passed the publisher's validation.
Passed(event) ==
    event.sound /\ event.type \in EnvelopeTypes \cap ConsumerAllows /\ Fresh(event)

FreshInv ==
    /\ \A event \in events : Fresh(event)
    /\ \A p \in Procs :
         /\ call[p].pc # "idle" => Passed(call[p].event)
         /\ call[p].pc \notin {"idle", "validate"} => call[p].gate < call[p].event.expires
    /\ \A i \in DOMAIN posted :
         Passed(posted[i].event) /\ posted[i].gate < posted[i].event.expires

\* When the cooldown of the last approved alert of a key ends; 0 when there was none.
CooldownEnd(key) == IF approved[key] = -1 THEN 0 ELSE approved[key] + Cooldown

\* Neither the file nor what a session has read from it ever runs ahead of the approvals.
MarksBacked ==
    /\ \A key \in Keys : /\ marks.until[key] <= CooldownEnd(key)
                         /\ approved[key] \in -1..clock
    /\ \A p \in Procs :
         call[p].pc \in {"open", "write"} =>
           /\ call[p].mark <= clock
           /\ \A key \in Keys : call[p].values[key] <= CooldownEnd(key)

Apart(m, n) == m >= n + Cooldown \/ n >= m + Cooldown

\* What holds as long as no two sessions were between seen and mark at once: the marks are
\* those of the last approvals, the one session that is about to mark found its key free, and
\* every message that is posted or about to be has a cooldown of its own.
OneMarker == \A p, q \in Procs : InMark(p) /\ InMark(q) => p = q

MarksExact == \A key \in Keys : marks.until[key] = CooldownEnd(key)

MarkerFree ==
    \A p \in Procs :
        /\ call[p].pc = "load" => marks.until[Key(call[p].event)] <= clock
        /\ call[p].pc \in {"open", "write"} =>
             /\ call[p].values = marks.until
             /\ marks.until[Key(call[p].event)] <= call[p].mark

ApprovedLast ==
    /\ \A i \in DOMAIN posted : posted[i].mark <= approved[Key(posted[i].event)]
    /\ \A p \in Procs : call[p].pc = "send" => call[p].mark <= approved[Key(call[p].event)]

MessagesApart ==
    /\ \A i, j \in DOMAIN posted :
         i # j /\ SameAlert(posted[i].event, posted[j].event) => Apart(posted[i].mark, posted[j].mark)
    /\ \A p \in Procs, i \in DOMAIN posted :
         call[p].pc = "send" /\ SameAlert(call[p].event, posted[i].event) =>
           Apart(call[p].mark, posted[i].mark)
    /\ \A p, q \in Procs :
         p # q /\ call[p].pc = "send" /\ call[q].pc = "send" /\ SameAlert(call[p].event, call[q].event) =>
           Apart(call[p].mark, call[q].mark)

OnceInv ==
    overlapped \/ (OneMarker /\ MarksExact /\ MarkerFree /\ ApprovedLast /\ MessagesApart)

PublicationInv == TypeInv /\ FreshInv /\ MarksBacked /\ OnceInv

----------------------------------------------------------------------------
(* How a step changes where the sessions are. *)

Pcs == {"validate", "seen", "load", "open", "write", "send", "failed"}

\* A session that is not idle carries the whole record of its payload.
LEMMA BusyFields ==
    ASSUME TypeOK, NEW p \in Procs, call[p].pc # "idle"
    PROVE  /\ call[p] \in Busy /\ call[p].pc \in Pcs
           /\ call[p].event \in Event /\ call[p].gate \in Nat /\ call[p].mark \in Nat
           /\ call[p].values \in Marks
  <1>1. call[p] \in Busy \cup {Idle}
    BY DEF TypeOK
  <1>2. call[p] \in Busy
    BY <1>1 DEF Idle
  <1> QED
    BY <1>2 DEF Busy, Pcs

\* What Step leaves of the record: everything but pc.
LEMMA StepFacts ==
    ASSUME TypeOK, NEW p \in Procs, call[p].pc # "idle", NEW pc \in Pcs, Step(p, pc)
    PROVE  /\ call' \in [Procs -> Busy \cup {Idle}]
           /\ call'[p].pc = pc /\ call'[p].event = call[p].event /\ call'[p].gate = call[p].gate
           /\ call'[p].mark = call[p].mark /\ call'[p].values = call[p].values
           /\ \A q \in Procs : q # p => call'[q] = call[q]
  <1>1. call[p] \in Busy /\ call \in [Procs -> Busy \cup {Idle}]
    BY BusyFields DEF TypeOK
  <1> DEFINE c == [call[p] EXCEPT !.pc = pc]
  <1>2. /\ c \in Busy /\ c.pc = pc /\ c.event = call[p].event /\ c.gate = call[p].gate
        /\ c.mark = call[p].mark /\ c.values = call[p].values
    BY <1>1 DEF Busy, Pcs
  <1>3. call' = [call EXCEPT ![p] = c]
    BY DEF Step
  <1> HIDE DEF c
  <1> QED
    BY <1>1, <1>2, <1>3

\* A session that leaves is idle.
LEMMA LeaveFacts ==
    ASSUME TypeOK, NEW p \in Procs, Leave(p)
    PROVE  /\ call' \in [Procs -> Busy \cup {Idle}]
           /\ call'[p].pc = "idle"
           /\ \A q \in Procs : q # p => call'[q] = call[q]
  BY DEF TypeOK, Leave, Idle

\* The record of an event that passed the consumer.
LEMMA ConsumeFacts ==
    ASSUME TypeOK, NEW p \in Procs, Consume(p)
    PROVE  \E event \in events :
             /\ event \in Event /\ Decision(event, seen[p], clock) = "PUBLISH"
             /\ seen' = [seen EXCEPT ![p] = @ \cup {event.id}]
             /\ call' \in [Procs -> Busy \cup {Idle}]
             /\ call'[p].pc = "validate" /\ call'[p].event = event
             /\ \A q \in Procs : q # p => call'[q] = call[q]
  <1>1. PICK event \in events :
          /\ Decision(event, seen[p], clock) = "PUBLISH"
          /\ seen' = [seen EXCEPT ![p] = @ \cup {event.id}]
          /\ call' = [call EXCEPT ![p] = [pc |-> "validate", event |-> event, gate |-> 0,
                                          mark |-> 0, values |-> NoMarks]]
    BY DEF Consume
  <1>2. event \in Event
    BY DEF TypeOK
  <1>3. [pc |-> "validate", event |-> event, gate |-> 0, mark |-> 0, values |-> NoMarks] \in Busy
    BY <1>2 DEF Busy, Marks, NoMarks
  <1> QED
    BY <1>1, <1>2, <1>3 DEF TypeOK

\* A payload that validates stays the same payload, at its gate's time.
LEMMA ValidateFacts ==
    ASSUME TypeOK, NEW p \in Procs, Validate(p)
    PROVE  /\ call' \in [Procs -> Busy \cup {Idle}]
           /\ \A q \in Procs : q # p => call'[q] = call[q]
           /\ \/ call'[p].pc = "idle"
              \/ /\ PayloadValid(call[p].event, clock)
                 /\ call'[p].pc = "seen" /\ call'[p].event = call[p].event
                 /\ call'[p].gate = clock
  <1>1. call[p] \in Busy /\ call \in [Procs -> Busy \cup {Idle}] /\ clock \in Nat
    BY BusyFields DEF TypeOK, Validate
  <1>2. CASE ~PayloadValid(call[p].event, clock)
    BY <1>2, LeaveFacts DEF Validate
  <1>3. CASE PayloadValid(call[p].event, clock)
    <2> DEFINE c == [call[p] EXCEPT !.pc = "seen", !.gate = clock]
    <2>1. c \in Busy /\ c.pc = "seen" /\ c.event = call[p].event /\ c.gate = clock
      BY <1>1 DEF Busy
    <2>2. call' = [call EXCEPT ![p] = c]
      BY <1>3 DEF Validate
    <2> HIDE DEF c
    <2> QED
      BY <1>1, <1>3, <2>1, <2>2
  <1> QED
    BY <1>2, <1>3

\* mark reads the clock and the marks.
LEMMA MarkLoadFacts ==
    ASSUME TypeOK, NEW p \in Procs, MarkLoad(p)
    PROVE  /\ call' \in [Procs -> Busy \cup {Idle}]
           /\ call'[p].pc = "open" /\ call'[p].event = call[p].event /\ call'[p].gate = call[p].gate
           /\ call'[p].mark = clock /\ call'[p].values = marks.until
           /\ \A q \in Procs : q # p => call'[q] = call[q]
  <1>1. /\ call[p] \in Busy /\ call \in [Procs -> Busy \cup {Idle}] /\ clock \in Nat
        /\ marks.until \in Marks
    BY BusyFields DEF TypeOK, MarkLoad
  <1> DEFINE c == [call[p] EXCEPT !.pc = "open", !.mark = clock, !.values = marks.until]
  <1>2. /\ c \in Busy /\ c.pc = "open" /\ c.event = call[p].event /\ c.gate = call[p].gate
        /\ c.mark = clock /\ c.values = marks.until
    BY <1>1 DEF Busy
  <1>3. call' = [call EXCEPT ![p] = c]
    BY DEF MarkLoad
  <1> HIDE DEF c
  <1> QED
    BY <1>1, <1>2, <1>3

\* mark writes the marks that it read, with its own, and the alert counts as approved.
LEMMA MarkWriteFacts ==
    ASSUME TypeOK, NEW p \in Procs, MarkWrite(p)
    PROVE  LET alert == <<call[p].event.type, call[p].event.setup>> IN
           /\ call' \in [Procs -> Busy \cup {Idle}]
           /\ call'[p].pc = "send" /\ call'[p].event = call[p].event
           /\ call'[p].gate = call[p].gate /\ call'[p].mark = call[p].mark
           /\ \A q \in Procs : q # p => call'[q] = call[q]
           /\ marks' \in [whole : BOOLEAN, until : Marks]
           /\ \A key \in Keys : marks'.until[key] =
                IF key = Key(call[p].event) THEN call[p].mark + Cooldown ELSE call[p].values[key]
           /\ approved' \in [AllTypes \X Setups -> Int]
           /\ \A key \in AllTypes \X Setups : approved'[key] =
                IF key = alert /\ call[p].mark > approved[alert] THEN call[p].mark ELSE approved[key]
  <1> DEFINE alert == <<call[p].event.type, call[p].event.setup>>
  <1>1. /\ call[p] \in Busy /\ call \in [Procs -> Busy \cup {Idle}]
        /\ call[p].event \in Event /\ call[p].mark \in Nat /\ call[p].values \in Marks
        /\ approved \in [AllTypes \X Setups -> Int]
    BY BusyFields DEF TypeOK, MarkWrite
  <1> DEFINE c == [call[p] EXCEPT !.pc = "send", !.values = NoMarks]
             until == [call[p].values EXCEPT ![Key(call[p].event)] = call[p].mark + Cooldown]
             time == IF call[p].mark > approved[alert] THEN call[p].mark ELSE approved[alert]
  <1>2. /\ c \in Busy /\ c.pc = "send" /\ c.event = call[p].event /\ c.gate = call[p].gate
        /\ c.mark = call[p].mark
    BY <1>1 DEF Busy, Marks, NoMarks
  <1>3. /\ until \in Marks
        /\ \A key \in Keys : until[key] =
             IF key = Key(call[p].event) THEN call[p].mark + Cooldown ELSE call[p].values[key]
    <2> DEFINE t == call[p].mark + Cooldown
               v == call[p].values
               k == Key(call[p].event)
    <2>1. t \in Nat /\ v \in [Keys -> Nat]
      BY <1>1, PublicationAssumption DEF Marks
    <2> HIDE DEF t, v, k
    <2>2. [v EXCEPT ![k] = t] \in [Keys -> Nat]
      BY <2>1
    <2>3. \A key \in Keys : [v EXCEPT ![k] = t][key] = IF key = k THEN t ELSE v[key]
      BY <2>1
    <2> QED
      BY <2>2, <2>3 DEF Marks, t, v, k
  <1>4. alert \in AllTypes \X Setups /\ time \in Int
    BY <1>1 DEF Event
  <1>5. /\ call' = [call EXCEPT ![p] = c]
        /\ marks' = [whole |-> TRUE, until |-> until]
        /\ approved' = [approved EXCEPT ![alert] = time]
    BY DEF MarkWrite, Approve
  <1> HIDE DEF c, until
  <1>6. /\ call' \in [Procs -> Busy \cup {Idle}] /\ call'[p] = c
        /\ \A q \in Procs : q # p => call'[q] = call[q]
    BY <1>1, <1>2, <1>5
  <1>7. /\ approved' \in [AllTypes \X Setups -> Int]
        /\ \A key \in AllTypes \X Setups : approved'[key] = IF key = alert THEN time ELSE approved[key]
    <2> HIDE DEF alert, time
    <2> QED
      BY <1>1, <1>4, <1>5
  <1> QED
    BY <1>2, <1>3, <1>5, <1>6, <1>7

\* A new event gets an id of its own.
LEMMA BuiltFacts ==
    ASSUME TypeInv, NEW type \in AllTypes, NEW setup \in Setups, NEW sound \in BOOLEAN,
           NEW fetched \in 0..MaxClock, NEW expires \in Nat,
           Built(type, setup, sound, fetched, expires)
    PROVE  /\ events' \in SUBSET Event /\ IsFiniteSet(events')
           /\ \E id \in Nat :
                events' = events \cup {[id |-> id, type |-> type, setup |-> setup, sound |-> sound,
                                        fetched |-> fetched, expires |-> expires]}
  <1> DEFINE id == Cardinality(events) + 1
             event == [id |-> id, type |-> type, setup |-> setup, sound |-> sound,
                       fetched |-> fetched, expires |-> expires]
  <1>1. Cardinality(events) \in Nat
    BY FS_CardinalityType DEF TypeInv
  <1>2. id \in 1..MaxEvents
    BY <1>1, PublicationAssumption DEF Built
  <1>3. events' = events \cup {event}
    BY DEF Built
  <1> HIDE DEF id
  <1>4. event \in Event
    BY <1>2 DEF Event
  <1> HIDE DEF event
  <1>5. events' \in SUBSET Event /\ IsFiniteSet(events')
    BY <1>3, <1>4, FS_AddElement DEF TypeInv, TypeOK
  <1> QED
    BY <1>2, <1>3, <1>5 DEF event

\* The two ways to build an event.
LEMMA BuiltEvent ==
    ASSUME TypeInv, EvaluateSignal \/ OtherEvent
    PROVE  \E type \in AllTypes, setup \in Setups, sound \in BOOLEAN, fetched \in 0..MaxClock,
              expires \in Nat :
             /\ Built(type, setup, sound, fetched, expires)
             /\ sound /\ type = "SUPER_POTENTIAL_CONFIRMED" =>
                  expires <= fetched + Freshness + Window
             /\ sound /\ type = "SUPER_POTENTIAL_INVALIDATED" =>
                  expires <= fetched + Freshness + InvalidationExpiry
  <1>1. clock \in 0..MaxClock /\ MaxClock \in Nat /\ Freshness \in Nat /\ Window \in Nat
        /\ InvalidationExpiry \in Nat
    BY PublicationAssumption DEF TypeInv, TypeOK
  <1>2. CASE EvaluateSignal
    <2>1. PICK setup \in Setups, score \in Scores, fetched \in 0..clock,
               failed \in {{}} \cup {{g} : g \in Gates} :
            LET state == SignalState(score, failed, fetched, clock)
            IN  /\ state # "NO_SETUP"
                /\ Built(EventType(state), setup, TRUE, fetched, clock + ExpiresAfter(state))
      BY <1>2 DEF EvaluateSignal
    <2> DEFINE state == SignalState(score, failed, fetched, clock)
    <2>2. /\ state \in {"CONFIRMED", "CANDIDATE_INTERNAL", "INVALIDATED"}
          /\ clock - fetched <= Freshness
      BY <1>1, <2>1 DEF SignalState, ScoreState
    <2>3. Built(EventType(state), setup, TRUE, fetched, clock + ExpiresAfter(state))
      BY <2>1
    <2> HIDE DEF state
    <2>4. /\ EventType(state) \in AllTypes
          /\ EventType(state) = "SUPER_POTENTIAL_CONFIRMED" => ExpiresAfter(state) = Window
          /\ EventType(state) = "SUPER_POTENTIAL_INVALIDATED" =>
               ExpiresAfter(state) = InvalidationExpiry
          /\ ExpiresAfter(state) \in Nat
      BY <1>1, <2>2 DEF EventType, ExpiresAfter, AllTypes
    <2>5. /\ fetched \in 0..MaxClock /\ clock + ExpiresAfter(state) \in Nat
          /\ EventType(state) = "SUPER_POTENTIAL_CONFIRMED" =>
               clock + ExpiresAfter(state) <= fetched + Freshness + Window
          /\ EventType(state) = "SUPER_POTENTIAL_INVALIDATED" =>
               clock + ExpiresAfter(state) <= fetched + Freshness + InvalidationExpiry
      BY <1>1, <2>2, <2>4
    <2> QED
      BY <2>3, <2>4, <2>5
  <1>3. CASE OtherEvent
    <2>1. PICK type \in OtherTypes, setup \in Setups, sound \in BOOLEAN :
            /\ type \in SignalTypes => ~sound
            /\ Built(type, setup, sound, clock, clock + Window)
      BY <1>3 DEF OtherEvent
    <2>2. type \in AllTypes /\ clock + Window \in Nat
      BY <1>1, PublicationAssumption
    <2> QED
      BY <1>1, <2>1, <2>2 DEF SignalTypes
  <1> QED
    BY <1>2, <1>3

\* What is posted is what the session carries.
LEMMA PostedFacts ==
    ASSUME TypeOK, NEW p \in Procs, call[p].pc # "idle"
    PROVE  /\ Posted(p) \in Seq([event : Event, gate : Nat, mark : Nat])
           /\ Len(posted) \in Nat /\ DOMAIN posted = 1..Len(posted)
           /\ DOMAIN Posted(p) = 1..(Len(posted) + 1)
           /\ \A i \in DOMAIN posted : Posted(p)[i] = posted[i]
           /\ Posted(p)[Len(posted) + 1].event = call[p].event
           /\ Posted(p)[Len(posted) + 1].gate = call[p].gate
           /\ Posted(p)[Len(posted) + 1].mark = call[p].mark
  <1> DEFINE Message == [event : Event, gate : Nat, mark : Nat]
             message == [event |-> call[p].event, gate |-> call[p].gate, mark |-> call[p].mark]
  <1>1. message \in Message /\ posted \in Seq(Message)
    BY BusyFields DEF TypeOK
  <1>2. Posted(p) = Append(posted, message)
    BY DEF Posted
  <1> HIDE DEF Message, message
  <1>3. /\ Append(posted, message) \in Seq(Message)
        /\ Len(posted) \in Nat /\ DOMAIN posted = 1..Len(posted)
        /\ DOMAIN Append(posted, message) = 1..(Len(posted) + 1)
        /\ \A i \in DOMAIN posted : Append(posted, message)[i] = posted[i]
        /\ Append(posted, message)[Len(posted) + 1] = message
    BY <1>1
  <1>4. message.event = call[p].event /\ message.gate = call[p].gate /\ message.mark = call[p].mark
    BY DEF message
  <1> QED
    BY <1>2, <1>3, <1>4 DEF Message

\* The state keeps its shape.
LEMMA TypeStep ==
    ASSUME TypeInv, [Next]_vars
    PROVE  TypeInv'
  <1> USE PublicationAssumption
  <1>0. /\ TypeOK /\ IsFiniteSet(events)
        /\ clock \in 0..MaxClock /\ events \in SUBSET Event /\ seen \in [Procs -> SUBSET (1..MaxEvents)]
        /\ marks \in [whole : BOOLEAN, until : Marks] /\ call \in [Procs -> Busy \cup {Idle}]
        /\ posted \in Seq([event : Event, gate : Nat, mark : Nat])
        /\ approved \in [AllTypes \X Setups -> Int] /\ overlapped \in BOOLEAN
        /\ faults \in 0..MaxFaults
    BY DEF TypeInv, TypeOK
  <1>1. CASE EvaluateSignal \/ OtherEvent
    <2>1. PICK type \in AllTypes, setup \in Setups, sound \in BOOLEAN, fetched \in 0..MaxClock,
               expires \in Nat : Built(type, setup, sound, fetched, expires)
      BY <1>1, BuiltEvent
    <2>2. events' \in SUBSET Event /\ IsFiniteSet(events')
      BY <2>1, BuiltFacts
    <2> QED
      BY <1>0, <2>1, <2>2 DEF Built, TypeInv, TypeOK
  <1>2. CASE Tick
    BY <1>0, <1>2 DEF Tick, TypeInv, TypeOK
  <1>3. ASSUME NEW p \in Procs, Consume(p) PROVE TypeInv'
    <2>1. /\ seen' \in [Procs -> SUBSET (1..MaxEvents)]
          /\ call' \in [Procs -> Busy \cup {Idle}]
      <3>1. PICK event \in Event : /\ seen' = [seen EXCEPT ![p] = @ \cup {event.id}]
                                   /\ call' \in [Procs -> Busy \cup {Idle}]
        BY <1>0, <1>3, ConsumeFacts
      <3>2. event.id \in 1..MaxEvents
        BY DEF Event
      <3> QED
        BY <1>0, <3>1, <3>2
    <2> QED
      BY <1>0, <1>3, <2>1 DEF Consume, TypeInv, TypeOK
  <1>4. ASSUME NEW p \in Procs, Validate(p) PROVE TypeInv'
    BY <1>0, <1>4, ValidateFacts DEF Validate, TypeInv, TypeOK
  <1>5. ASSUME NEW p \in Procs, Duplicate(p) \/ Unreadable(p) \/ TooLong(p) \/ GiveUp(p) PROVE TypeInv'
    BY <1>0, <1>5, LeaveFacts DEF Duplicate, Unreadable, TooLong, GiveUp, TypeInv, TypeOK
  <1>6. ASSUME NEW p \in Procs, NotSeen(p) \/ Retry(p) PROVE TypeInv'
    <2>1. call' \in [Procs -> Busy \cup {Idle}]
      BY <1>0, <1>6, StepFacts DEF NotSeen, Retry, Pcs
    <2>2. overlapped' \in BOOLEAN /\ UNCHANGED <<clock, events, seen, marks, posted, approved, faults>>
      BY <1>0, <1>6 DEF NotSeen, Retry
    <2> QED
      BY <1>0, <2>1, <2>2 DEF TypeInv, TypeOK
  <1>7. ASSUME NEW p \in Procs, MarkLoad(p) PROVE TypeInv'
    BY <1>0, <1>7, MarkLoadFacts DEF MarkLoad, TypeInv, TypeOK
  <1>8. ASSUME NEW p \in Procs, MarkOpen(p) PROVE TypeInv'
    <2>1. call' \in [Procs -> Busy \cup {Idle}]
      BY <1>0, <1>8, StepFacts DEF MarkOpen, Pcs
    <2>2. marks' \in [whole : BOOLEAN, until : Marks]
      BY <1>0, <1>8 DEF MarkOpen
    <2> QED
      BY <1>0, <1>8, <2>1, <2>2 DEF MarkOpen, TypeInv, TypeOK
  <1>9. ASSUME NEW p \in Procs, MarkWrite(p) PROVE TypeInv'
    <2>1. /\ call' \in [Procs -> Busy \cup {Idle}] /\ marks' \in [whole : BOOLEAN, until : Marks]
          /\ approved' \in [AllTypes \X Setups -> Int]
      BY <1>0, <1>9, MarkWriteFacts
    <2> QED
      BY <1>0, <1>9, <2>1 DEF MarkWrite, TypeInv, TypeOK
  <1>10. ASSUME NEW p \in Procs, Send(p) PROVE TypeInv'
    <2>1. /\ call' \in [Procs -> Busy \cup {Idle}]
          /\ posted' \in Seq([event : Event, gate : Nat, mark : Nat])
      BY <1>0, <1>10, LeaveFacts, PostedFacts DEF Send
    <2> QED
      BY <1>0, <1>10, <2>1 DEF Send, TypeInv, TypeOK
  <1>11. ASSUME NEW p \in Procs, SendRaises(p) PROVE TypeInv'
    <2>1. call' \in [Procs -> Busy \cup {Idle}]
      BY <1>0, <1>11, StepFacts DEF SendRaises, Pcs
    <2>2. posted' \in Seq([event : Event, gate : Nat, mark : Nat])
      <3>1. call[p].pc # "idle" /\ posted' \in {posted, Posted(p)}
        BY <1>11 DEF SendRaises
      <3>2. Posted(p) \in Seq([event : Event, gate : Nat, mark : Nat])
        BY <1>0, <3>1, PostedFacts
      <3> QED
        BY <1>0, <3>1, <3>2
    <2>3. faults' \in 0..MaxFaults
      BY <1>0, <1>11 DEF SendRaises
    <2> QED
      BY <1>0, <1>11, <2>1, <2>2, <2>3 DEF SendRaises, TypeInv, TypeOK
  <1>12. ASSUME NEW p \in Procs, Crash(p) PROVE TypeInv'
    <2>1. call' \in [Procs -> Busy \cup {Idle}]
      BY <1>0, <1>12, LeaveFacts DEF Crash
    <2>2. seen' \in [Procs -> SUBSET (1..MaxEvents)] /\ faults' \in 0..MaxFaults
      BY <1>0, <1>12 DEF Crash
    <2> QED
      BY <1>0, <1>12, <2>1, <2>2 DEF Crash, TypeInv, TypeOK
  <1>13. CASE UNCHANGED vars
    BY <1>0, <1>13 DEF vars, TypeInv, TypeOK
  <1> QED
    BY <1>1, <1>2, <1>3, <1>4, <1>5, <1>6, <1>7, <1>8, <1>9, <1>10, <1>11, <1>12, <1>13 DEF Next

\* What a step does to the sessions, as far as the freshness of a payload is concerned: a
\* session takes up an event that passes, goes through the gate, or keeps its payload and gate.
LEMMA PayloadStep ==
    ASSUME TypeInv, [Next]_vars, NEW p \in Procs
    PROVE  \/ call'[p].pc = "idle"
           \/ call'[p] = call[p]
           \/ /\ call'[p].pc = "validate" /\ call'[p].event \in events
              /\ Decision(call'[p].event, seen[p], clock) = "PUBLISH"
           \/ /\ call[p].pc = "validate" /\ call'[p].event = call[p].event
              /\ PayloadValid(call[p].event, clock) /\ call'[p].gate = clock
           \/ /\ call[p].pc \notin {"idle", "validate"}
              /\ call'[p].event = call[p].event /\ call'[p].gate = call[p].gate
  <1>0. TypeOK
    BY DEF TypeInv
  <1> DEFINE Goal(q) == \/ call'[q].pc = "idle"
                        \/ call'[q] = call[q]
                        \/ /\ call'[q].pc = "validate" /\ call'[q].event \in events
                           /\ Decision(call'[q].event, seen[q], clock) = "PUBLISH"
                        \/ /\ call[q].pc = "validate" /\ call'[q].event = call[q].event
                           /\ PayloadValid(call[q].event, clock) /\ call'[q].gate = clock
                        \/ /\ call[q].pc \notin {"idle", "validate"}
                           /\ call'[q].event = call[q].event /\ call'[q].gate = call[q].gate
  <1>1. ASSUME NEW q \in Procs, Consume(q) PROVE Goal(p)
    BY <1>0, <1>1, ConsumeFacts
  <1>2. ASSUME NEW q \in Procs, Validate(q) PROVE Goal(p)
    <2>1. call[q].pc = "validate"
      BY <1>2 DEF Validate
    <2> QED
      BY <1>0, <1>2, <2>1, ValidateFacts
  <1>3. ASSUME NEW q \in Procs,
               \/ Duplicate(q) \/ Unreadable(q) \/ TooLong(q) \/ Send(q) \/ GiveUp(q) \/ Crash(q)
        PROVE  Goal(p)
    <2>1. Leave(q)
      BY <1>3 DEF Duplicate, Unreadable, TooLong, Send, GiveUp, Crash
    <2> QED
      BY <1>0, <2>1, LeaveFacts
  <1>4. ASSUME NEW q \in Procs, NotSeen(q) \/ MarkOpen(q) \/ SendRaises(q) \/ Retry(q)
        PROVE  Goal(p)
    <2>1. PICK pc \in Pcs : Step(q, pc) /\ call[q].pc \notin {"idle", "validate"}
      BY <1>4 DEF NotSeen, MarkOpen, SendRaises, Retry, Pcs
    <2> QED
      BY <1>0, <2>1, StepFacts
  <1>5. ASSUME NEW q \in Procs, MarkLoad(q) PROVE Goal(p)
    <2>1. call[q].pc = "load"
      BY <1>5 DEF MarkLoad
    <2> QED
      BY <1>0, <1>5, <2>1, MarkLoadFacts
  <1>6. ASSUME NEW q \in Procs, MarkWrite(q) PROVE Goal(p)
    <2>1. call[q].pc = "write"
      BY <1>6 DEF MarkWrite
    <2> QED
      BY <1>0, <1>6, <2>1, MarkWriteFacts
  <1>7. CASE EvaluateSignal \/ OtherEvent \/ Tick \/ UNCHANGED vars
    BY <1>7 DEF EvaluateSignal, OtherEvent, Built, Tick, vars
  <1> HIDE DEF Goal
  <1>8. Goal(p)
    BY <1>1, <1>2, <1>3, <1>4, <1>5, <1>6, <1>7 DEF Next, Goal
  <1> QED
    BY <1>8 DEF Goal

\* What a step does to the chat: nothing, or it adds what a session in send_alert carries.
LEMMA ChatStep ==
    ASSUME TypeInv, [Next]_vars
    PROVE  \/ posted' = posted
           \/ \E p \in Procs : /\ call[p].pc = "send" /\ call'[p].pc \in {"idle", "failed"}
                               /\ posted' = Posted(p)
                               /\ \A q \in Procs : q # p => call'[q] = call[q]
                               /\ UNCHANGED <<clock, marks, approved, overlapped>>
  <1>0. TypeOK
    BY DEF TypeInv
  <1>1. ASSUME NEW p \in Procs, Send(p), posted' # posted
        PROVE  \E q \in Procs : /\ call[q].pc = "send" /\ call'[q].pc \in {"idle", "failed"}
                                /\ posted' = Posted(q)
                                /\ \A r \in Procs : r # q => call'[r] = call[r]
                                /\ UNCHANGED <<clock, marks, approved, overlapped>>
    BY <1>0, <1>1, LeaveFacts DEF Send
  <1>2. ASSUME NEW p \in Procs, SendRaises(p), posted' # posted
        PROVE  \E q \in Procs : /\ call[q].pc = "send" /\ call'[q].pc \in {"idle", "failed"}
                                /\ posted' = Posted(q)
                                /\ \A r \in Procs : r # q => call'[r] = call[r]
                                /\ UNCHANGED <<clock, marks, approved, overlapped>>
    <2>1. call[p].pc = "send" /\ Step(p, "failed")
      BY <1>2 DEF SendRaises
    <2>2. call'[p].pc = "failed" /\ \A r \in Procs : r # p => call'[r] = call[r]
      BY <1>0, <2>1, StepFacts DEF Pcs
    <2> QED
      BY <1>2, <2>1, <2>2 DEF SendRaises
  <1>3. ASSUME NEW p \in Procs,
               \/ Consume(p) \/ Validate(p) \/ NotSeen(p) \/ Duplicate(p) \/ Unreadable(p)
               \/ TooLong(p) \/ MarkLoad(p) \/ MarkOpen(p) \/ MarkWrite(p) \/ Retry(p) \/ GiveUp(p)
               \/ Crash(p)
        PROVE  posted' = posted
    BY <1>3 DEF Consume, Validate, NotSeen, Duplicate, Unreadable, TooLong, MarkLoad, MarkOpen,
                MarkWrite, Retry, GiveUp, Crash
  <1>4. CASE EvaluateSignal \/ OtherEvent \/ Tick \/ UNCHANGED vars
    BY <1>4 DEF EvaluateSignal, OtherEvent, Built, Tick, vars
  <1> QED
    BY <1>1, <1>2, <1>3, <1>4 DEF Next

----------------------------------------------------------------------------
(* Freshness *)

\* Every event that is built is fresh, and every payload keeps the gates behind it.
LEMMA FreshStep ==
    ASSUME TypeInv, FreshInv, [Next]_vars
    PROVE  FreshInv'
  <1>0. TypeOK
    BY DEF TypeInv
  <1>1. \A event \in events' : Fresh(event)
    <2>1. CASE EvaluateSignal \/ OtherEvent
      <3>1. PICK type \in AllTypes, setup \in Setups, sound \in BOOLEAN, fetched \in 0..MaxClock,
                 expires \in Nat :
              /\ Built(type, setup, sound, fetched, expires)
              /\ sound /\ type = "SUPER_POTENTIAL_CONFIRMED" =>
                   expires <= fetched + Freshness + Window
              /\ sound /\ type = "SUPER_POTENTIAL_INVALIDATED" =>
                   expires <= fetched + Freshness + InvalidationExpiry
        BY <2>1, BuiltEvent
      <3>2. PICK id \in Nat :
              events' = events \cup {[id |-> id, type |-> type, setup |-> setup, sound |-> sound,
                                      fetched |-> fetched, expires |-> expires]}
        BY <3>1, BuiltFacts
      <3> DEFINE new == [id |-> id, type |-> type, setup |-> setup, sound |-> sound,
                         fetched |-> fetched, expires |-> expires]
      <3>3. Fresh(new)
        BY <3>1 DEF Fresh
      <3> HIDE DEF new
      <3> QED
        BY <3>2, <3>3 DEF FreshInv, new
    <2>2. ASSUME events' = events PROVE \A event \in events' : Fresh(event)
      BY <2>2 DEF FreshInv
    <2> QED
      BY <2>1, <2>2
      DEF Next, Tick, Consume, Validate, NotSeen, Duplicate, Unreadable, TooLong, MarkLoad, MarkOpen,
          MarkWrite, Send, SendRaises, Retry, GiveUp, Crash, vars
  <1>2. ASSUME NEW p \in Procs
        PROVE  /\ call'[p].pc # "idle" => Passed(call'[p].event)
               /\ call'[p].pc \notin {"idle", "validate"} => call'[p].gate < call'[p].event.expires
    <2>1. /\ call[p].pc # "idle" => Passed(call[p].event)
          /\ call[p].pc \notin {"idle", "validate"} => call[p].gate < call[p].event.expires
      BY DEF FreshInv
    <2>2. ASSUME call'[p].event \in events, Decision(call'[p].event, seen[p], clock) = "PUBLISH"
          PROVE  Passed(call'[p].event)
      BY <2>2 DEF Decision, Valid, Passed, FreshInv
    <2>3. ASSUME PayloadValid(call[p].event, clock), clock \in Int, call[p].event.expires \in Int
          PROVE  clock < call[p].event.expires
      BY <2>3 DEF PayloadValid
    <2>4. clock \in Int /\ (call[p].pc # "idle" => call[p].event.expires \in Int)
      BY <1>0, BusyFields DEF TypeOK, Event
    <2> QED
      BY <2>1, <2>2, <2>3, <2>4, PayloadStep
  <1>3. \A i \in DOMAIN posted' :
          Passed(posted'[i].event) /\ posted'[i].gate < posted'[i].event.expires
    <2>1. ASSUME NEW p \in Procs, call[p].pc = "send", posted' = Posted(p)
          PROVE  \A i \in DOMAIN posted' :
                   Passed(posted'[i].event) /\ posted'[i].gate < posted'[i].event.expires
      <3>1. Passed(call[p].event) /\ call[p].gate < call[p].event.expires
        BY <2>1 DEF FreshInv
      <3>2. ASSUME NEW i \in DOMAIN posted, TRUE
            PROVE  Passed(posted[i].event) /\ posted[i].gate < posted[i].event.expires
        BY DEF FreshInv
      <3>3. /\ Len(posted) \in Nat /\ DOMAIN posted = 1..Len(posted)
            /\ DOMAIN posted' = 1..(Len(posted) + 1)
            /\ \A i \in DOMAIN posted : posted'[i] = posted[i]
            /\ posted'[Len(posted) + 1].event = call[p].event
            /\ posted'[Len(posted) + 1].gate = call[p].gate
        BY <1>0, <2>1, PostedFacts
      <3>4. \A i \in DOMAIN posted' : i \in DOMAIN posted \/ i = Len(posted) + 1
        BY <3>3
      <3> QED
        BY <3>1, <3>2, <3>3, <3>4
    <2> QED
      BY <2>1, ChatStep DEF FreshInv
  <1> QED
    BY <1>1, <1>2, <1>3 DEF FreshInv, Passed, Fresh

----------------------------------------------------------------------------
(* Marks *)

\* How a session gets to the marks: through seen, the read of the file, its truncation, and
\* the write, each of which leaves the other sessions alone.
Moved(p) ==
    \/ call'[p] = call[p]
    \/ call'[p].pc \notin {"load", "open", "write", "send"}
    \/ NotSeen(p) /\ call'[p].pc = "load" /\ call'[p].event = call[p].event
    \/ /\ MarkLoad(p) /\ call'[p].pc = "open" /\ call'[p].event = call[p].event
       /\ call'[p].mark = clock /\ call'[p].values = marks.until
    \/ /\ MarkOpen(p) /\ call'[p].pc = "write" /\ call'[p].event = call[p].event
       /\ call'[p].mark = call[p].mark /\ call'[p].values = call[p].values
    \/ /\ MarkWrite(p) /\ call'[p].pc = "send" /\ call'[p].event = call[p].event
       /\ call'[p].mark = call[p].mark

\* Every step moves every session in one of these ways, and one session at most.
LEMMA MarkerStep ==
    ASSUME TypeInv, [Next]_vars
    PROVE  /\ \A p \in Procs : Moved(p)
           /\ \A p, q \in Procs : p # q => call'[p] = call[p] \/ call'[q] = call[q]
  <1>0. TypeOK
    BY DEF TypeInv
  <1> DEFINE Goal == /\ \A p \in Procs : Moved(p)
                     /\ \A p, q \in Procs : p # q => call'[p] = call[p] \/ call'[q] = call[q]
  <1>1. ASSUME NEW q \in Procs, \A p \in Procs : p # q => call'[p] = call[p], Moved(q) PROVE Goal
    BY <1>1 DEF Moved
  <1> HIDE DEF Goal
  <1> SUFFICES Goal
    BY DEF Goal
  <1>2. ASSUME NEW q \in Procs,
               \/ Duplicate(q) \/ Unreadable(q) \/ TooLong(q) \/ Send(q) \/ GiveUp(q) \/ Crash(q)
        PROVE  Goal
    <2>1. Leave(q)
      BY <1>2 DEF Duplicate, Unreadable, TooLong, Send, GiveUp, Crash
    <2>2. call'[q].pc = "idle" /\ \A p \in Procs : p # q => call'[p] = call[p]
      BY <1>0, <2>1, LeaveFacts
    <2> QED
      BY <1>1, <2>2 DEF Moved
  <1>3. ASSUME NEW q \in Procs, Consume(q) PROVE Goal
    <2>1. call'[q].pc = "validate" /\ \A p \in Procs : p # q => call'[p] = call[p]
      BY <1>0, <1>3, ConsumeFacts
    <2> QED
      BY <1>1, <2>1 DEF Moved
  <1>4. ASSUME NEW q \in Procs, Validate(q) PROVE Goal
    <2>1. /\ call'[q].pc \in {"idle", "seen"}
          /\ \A p \in Procs : p # q => call'[p] = call[p]
      BY <1>0, <1>4, ValidateFacts
    <2> QED
      BY <1>1, <2>1 DEF Moved
  <1>5. ASSUME NEW q \in Procs, SendRaises(q) \/ Retry(q) PROVE Goal
    <2>1. PICK pc \in {"failed", "validate"} : call[q].pc # "idle" /\ Step(q, pc)
      BY <1>5 DEF SendRaises, Retry
    <2>2. call'[q].pc = pc /\ \A p \in Procs : p # q => call'[p] = call[p]
      BY <1>0, <2>1, StepFacts DEF Pcs
    <2> QED
      BY <1>1, <2>2 DEF Moved
  <1>6. ASSUME NEW q \in Procs, NotSeen(q) PROVE Goal
    <2>1. call[q].pc # "idle" /\ Step(q, "load")
      BY <1>6 DEF NotSeen
    <2>2. /\ call'[q].pc = "load" /\ call'[q].event = call[q].event
          /\ \A p \in Procs : p # q => call'[p] = call[p]
      BY <1>0, <2>1, StepFacts DEF Pcs
    <2> QED
      BY <1>1, <1>6, <2>2 DEF Moved
  <1>7. ASSUME NEW q \in Procs, MarkLoad(q) PROVE Goal
    BY <1>0, <1>1, <1>7, MarkLoadFacts DEF Moved
  <1>8. ASSUME NEW q \in Procs, MarkOpen(q) PROVE Goal
    <2>1. call[q].pc # "idle" /\ Step(q, "write")
      BY <1>8 DEF MarkOpen
    <2>2. /\ call'[q].pc = "write" /\ call'[q].event = call[q].event
          /\ call'[q].mark = call[q].mark /\ call'[q].values = call[q].values
          /\ \A p \in Procs : p # q => call'[p] = call[p]
      BY <1>0, <2>1, StepFacts DEF Pcs
    <2> QED
      BY <1>1, <1>8, <2>2 DEF Moved
  <1>9. ASSUME NEW q \in Procs, MarkWrite(q) PROVE Goal
    BY <1>0, <1>1, <1>9, MarkWriteFacts DEF Moved
  <1>10. CASE EvaluateSignal \/ OtherEvent \/ Tick \/ UNCHANGED vars
    BY <1>10 DEF EvaluateSignal, OtherEvent, Built, Tick, vars, Goal, Moved
  <1> QED
    BY <1>2, <1>3, <1>4, <1>5, <1>6, <1>7, <1>8, <1>9, <1>10 DEF Next

\* Only the write of the marks changes what they say, and only the clock moves by itself.
LEMMA MarksStep ==
    ASSUME TypeInv, [Next]_vars
    PROVE  /\ (\E p \in Procs : MarkWrite(p)) \/ (marks'.until = marks.until /\ approved' = approved)
           /\ clock' = clock \/ (clock' = clock + 1 /\ call' = call)
           /\ overlapped => overlapped'
  <1>0. /\ TypeOK /\ clock \in Nat /\ marks \in [whole : BOOLEAN, until : Marks]
        /\ overlapped \in BOOLEAN
    BY DEF TypeInv, TypeOK
  <1>1. ASSUME NEW p \in Procs, MarkOpen(p)
        PROVE  marks'.until = marks.until /\ UNCHANGED <<approved, clock, overlapped>>
    BY <1>0, <1>1 DEF MarkOpen
  <1>2. ASSUME NEW p \in Procs, MarkWrite(p) PROVE UNCHANGED <<clock, overlapped>>
    BY <1>2 DEF MarkWrite
  <1>3. ASSUME NEW p \in Procs, NotSeen(p)
        PROVE  UNCHANGED <<marks, approved, clock>> /\ (overlapped => overlapped')
    BY <1>3 DEF NotSeen
  <1>4. ASSUME NEW p \in Procs,
               \/ Consume(p) \/ Validate(p) \/ Duplicate(p) \/ Unreadable(p) \/ TooLong(p)
               \/ MarkLoad(p) \/ Send(p) \/ SendRaises(p) \/ Retry(p) \/ GiveUp(p) \/ Crash(p)
        PROVE  UNCHANGED <<marks, approved, clock, overlapped>>
    BY <1>4 DEF Consume, Validate, Duplicate, Unreadable, TooLong, MarkLoad, Send, SendRaises, Retry,
                GiveUp, Crash
  <1>5. CASE EvaluateSignal \/ OtherEvent \/ UNCHANGED vars
    BY <1>5 DEF EvaluateSignal, OtherEvent, Built, vars
  <1>6. CASE Tick
    BY <1>6 DEF Tick
  <1> QED
    BY <1>1, <1>2, <1>3, <1>4, <1>5, <1>6 DEF Next

\* The key of an event that passed is the key of its alert, and has a mark of its own.
LEMMA KeyFacts ==
    /\ Keys \subseteq AllTypes \X Setups
    /\ \A event \in Event : Passed(event) => Key(event) \in Keys
    /\ \A e, f \in Event : SameAlert(e, f) <=> Key(e) = Key(f)
  BY DEF Keys, AllTypes, PublisherAllows, ConsumerAllows, Passed, Key, Event, SameAlert

\* Where the approvals and the marks stand, and that a session at work has a key among them.
LEMMA MarkTypes ==
    ASSUME TypeInv, FreshInv
    PROVE  /\ clock \in Nat /\ Cooldown \in Nat \ {0}
           /\ marks.until \in [Keys -> Nat] /\ approved \in [AllTypes \X Setups -> Int]
           /\ \A key \in Keys : /\ key \in AllTypes \X Setups /\ approved[key] \in Int
                                /\ marks.until[key] \in Nat /\ CooldownEnd(key) \in Int
           /\ \A p \in Procs : call[p].pc # "idle" =>
                /\ call[p].event \in Event /\ Key(call[p].event) \in Keys
                /\ call[p].mark \in Nat /\ call[p].values \in [Keys -> Nat]
           /\ \A i \in DOMAIN posted :
                /\ posted[i].event \in Event /\ Key(posted[i].event) \in Keys
                /\ posted[i].mark \in Nat
  <1>0. TypeOK
    BY DEF TypeInv
  <1>1. /\ clock \in Nat /\ Cooldown \in Nat \ {0} /\ Cooldown \in Int
        /\ marks.until \in [Keys -> Nat] /\ approved \in [AllTypes \X Setups -> Int]
    BY <1>0, PublicationAssumption DEF TypeOK, Marks
  <1>2. ASSUME NEW key \in Keys
        PROVE  /\ key \in AllTypes \X Setups /\ approved[key] \in Int
               /\ marks.until[key] \in Nat /\ CooldownEnd(key) \in Int
    <2>1. key \in AllTypes \X Setups
      BY KeyFacts
    <2>2. approved[key] \in Int /\ marks.until[key] \in Nat
      BY <1>1, <2>1
    <2> QED
      BY <1>1, <2>1, <2>2 DEF CooldownEnd
  <1>3. ASSUME NEW p \in Procs, call[p].pc # "idle"
        PROVE  /\ call[p].event \in Event /\ Key(call[p].event) \in Keys
               /\ call[p].mark \in Nat /\ call[p].values \in [Keys -> Nat]
    BY <1>0, <1>3, BusyFields, KeyFacts DEF FreshInv, Marks
  <1>4. ASSUME NEW i \in DOMAIN posted, TRUE
        PROVE  /\ posted[i].event \in Event /\ Key(posted[i].event) \in Keys
               /\ posted[i].mark \in Nat
    <2> DEFINE Message == [event : Event, gate : Nat, mark : Nat]
    <2>1. posted \in Seq(Message)
      BY <1>0 DEF TypeOK
    <2> HIDE DEF Message
    <2>2. posted[i] \in Message
      BY <2>1
    <2>3. posted[i].event \in Event /\ posted[i].mark \in Nat
      BY <2>2 DEF Message
    <2> QED
      BY <2>3, KeyFacts DEF FreshInv
  <1> QED
    BY <1>1, <1>2, <1>3, <1>4

\* Approvals never go back, and never run ahead of the clock.
LEMMA ApprovalStep ==
    ASSUME TypeInv, FreshInv, MarksBacked, [Next]_vars
    PROVE  \A key \in Keys : /\ approved'[key] \in Int /\ approved'[key] >= approved[key]
                             /\ approved'[key] \in -1..clock'
                             /\ CooldownEnd(key)' >= CooldownEnd(key)
  <1>0. /\ TypeOK /\ clock \in Nat /\ Cooldown \in Nat \ {0}
        /\ \A key \in Keys : key \in AllTypes \X Setups /\ approved[key] \in Int
        /\ \A p \in Procs : call[p].pc # "idle" => call[p].mark \in Nat
    BY MarkTypes DEF TypeInv
  <1>1. clock' = clock \/ clock' = clock + 1
    BY MarksStep
  <1>2. ASSUME NEW key \in Keys
        PROVE  approved'[key] = approved[key] \/ (approved'[key] >= approved[key] /\ approved'[key] \in 0..clock)
    <2>1. ASSUME NEW p \in Procs, MarkWrite(p)
          PROVE  approved'[key] = approved[key] \/ (approved'[key] >= approved[key] /\ approved'[key] \in 0..clock)
      <3>1. call[p].pc = "write" /\ call[p].mark <= clock
        BY <2>1 DEF MarkWrite, MarksBacked
      <3> DEFINE alert == <<call[p].event.type, call[p].event.setup>>
      <3>2. approved'[key] =
              IF key = alert /\ call[p].mark > approved[alert] THEN call[p].mark ELSE approved[key]
        BY <1>0, <2>1, MarkWriteFacts
      <3> HIDE DEF alert
      <3> QED
        BY <1>0, <3>1, <3>2
    <2> QED
      BY <2>1, MarksStep
  <1>3. ASSUME NEW key \in Keys
        PROVE  /\ approved'[key] \in Int /\ approved'[key] >= approved[key]
               /\ approved'[key] \in -1..clock'
               /\ CooldownEnd(key)' >= CooldownEnd(key)
    <2>1. approved[key] \in -1..clock
      BY DEF MarksBacked
    <2>2. /\ approved'[key] \in Int /\ approved'[key] >= approved[key] /\ approved'[key] \in -1..clock'
      BY <1>0, <1>1, <1>2, <2>1
    <2> QED
      BY <1>0, <2>1, <2>2 DEF CooldownEnd
  <1> QED
    BY <1>3

\* Whatever is read from the file or written to it is backed by an approval.
LEMMA BackedStep ==
    ASSUME TypeInv, FreshInv, MarksBacked, [Next]_vars
    PROVE  MarksBacked'
  <1>0. /\ TypeOK /\ clock \in Nat /\ Cooldown \in Nat \ {0}
        /\ marks.until \in [Keys -> Nat]
        /\ \A key \in Keys : /\ key \in AllTypes \X Setups /\ approved[key] \in Int
                             /\ marks.until[key] \in Nat /\ CooldownEnd(key) \in Int
        /\ \A p \in Procs : call[p].pc # "idle" =>
             call[p].mark \in Nat /\ call[p].values \in [Keys -> Nat]
    BY MarkTypes DEF TypeInv
  <1>1. \A key \in Keys : /\ approved'[key] \in Int /\ approved'[key] >= approved[key]
                          /\ approved'[key] \in -1..clock'
                          /\ CooldownEnd(key)' >= CooldownEnd(key) /\ CooldownEnd(key)' \in Int
    <2>1. \A key \in Keys : approved'[key] \in Int => CooldownEnd(key)' \in Int
      BY <1>0 DEF CooldownEnd
    <2> QED
      BY <2>1, ApprovalStep
  <1>2. \A key \in Keys : marks'.until[key] <= CooldownEnd(key)'
    <2>1. ASSUME NEW p \in Procs, MarkWrite(p), NEW key \in Keys
          PROVE  marks'.until[key] <= CooldownEnd(key)'
      <3>1. /\ call[p].pc = "write" /\ call[p].values[key] \in Nat /\ call[p].mark \in Nat
            /\ call[p].values[key] <= CooldownEnd(key)
        BY <1>0, <2>1 DEF MarkWrite, MarksBacked
      <3> DEFINE alert == <<call[p].event.type, call[p].event.setup>>
      <3>2. /\ marks'.until[key] =
                 IF key = alert THEN call[p].mark + Cooldown ELSE call[p].values[key]
            /\ approved'[key] =
                 IF key = alert /\ call[p].mark > approved[alert] THEN call[p].mark ELSE approved[key]
        BY <1>0, <2>1, MarkWriteFacts DEF Key
      <3> HIDE DEF alert
      <3>3. CASE key = alert
        <4>1. approved'[key] >= call[p].mark /\ approved'[key] \in Int
          BY <1>0, <1>1, <3>1, <3>2, <3>3
        <4> QED
          BY <1>0, <3>1, <3>2, <3>3, <4>1 DEF CooldownEnd
      <3>4. CASE key # alert
        BY <1>0, <1>1, <3>1, <3>2, <3>4
      <3> QED
        BY <3>3, <3>4
    <2>2. ASSUME marks'.until = marks.until, NEW key \in Keys
          PROVE  marks'.until[key] <= CooldownEnd(key)'
      <3>1. marks.until[key] <= CooldownEnd(key)
        BY DEF MarksBacked
      <3> QED
        BY <1>0, <1>1, <2>2, <3>1
    <2> QED
      BY <2>1, <2>2, MarksStep
  <1>3. ASSUME NEW p \in Procs, call'[p].pc \in {"open", "write"}
        PROVE  call'[p].mark <= clock' /\ \A key \in Keys : call'[p].values[key] <= CooldownEnd(key)'
    <2>0. clock' \in Nat /\ clock' >= clock
      BY <1>0, MarksStep
    <2>1. CASE MarkLoad(p) /\ call'[p].mark = clock /\ call'[p].values = marks.until
      <3>1. \A key \in Keys : marks.until[key] <= CooldownEnd(key)
        BY DEF MarksBacked
      <3> QED
        BY <1>0, <1>1, <2>0, <2>1, <3>1
    <2>2. CASE /\ call'[p].mark = call[p].mark /\ call'[p].values = call[p].values
               /\ call[p].pc \in {"open", "write"}
      <3>1. /\ call[p].mark <= clock /\ \A key \in Keys : call[p].values[key] <= CooldownEnd(key)
        BY <2>2 DEF MarksBacked
      <3>2. call[p].mark \in Nat /\ \A key \in Keys : call[p].values[key] \in Nat
        BY <1>0, <2>2
      <3>3. call[p].mark <= clock'
        BY <1>0, <2>0, <3>1, <3>2
      <3>4. \A key \in Keys : call[p].values[key] <= CooldownEnd(key)'
        BY <1>0, <1>1, <3>1, <3>2
      <3> QED
        BY <2>2, <3>3, <3>4
    <2>3. Moved(p)
      BY MarkerStep
    <2> QED
      BY <1>3, <2>1, <2>2, <2>3 DEF Moved, MarkOpen
  <1> QED
    BY <1>1, <1>2, <1>3 DEF MarksBacked

----------------------------------------------------------------------------
(* One message per cooldown *)

\* A session between seen and mark that a step leaves alone sees the marks as they were.
LEMMA Undisturbed ==
    ASSUME TypeInv, OneMarker, [Next]_vars, NEW p \in Procs, InMark(p), call'[p] = call[p]
    PROVE  marks'.until = marks.until /\ approved' = approved
  <1>1. ASSUME NEW q \in Procs, MarkWrite(q) PROVE FALSE
    <2>1. call[q].pc = "write" /\ call'[q].pc = "send"
      BY <1>1, MarkWriteFacts DEF MarkWrite, TypeInv
    <2>2. q = p
      BY <2>1 DEF OneMarker, InMark
    <2> QED
      BY <2>1, <2>2
  <1> QED
    BY <1>1, MarksStep

\* A session that writes its mark found the cooldown of its key over: the approval is the
\* newest of the key, and the mark says when its own cooldown ends.
LEMMA WriteFree ==
    ASSUME TypeInv, FreshInv, MarksExact, MarkerFree, NEW p \in Procs, MarkWrite(p),
           NEW k, k = Key(call[p].event)
    PROVE  /\ k \in Keys /\ call[p].mark \in Nat
           /\ approved[k] = -1 \/ approved[k] + Cooldown <= call[p].mark
           /\ approved'[k] = call[p].mark
           /\ \A key \in Keys : key # k => approved'[key] = approved[key]
           /\ \A key \in Keys :
                marks'.until[key] = IF key = k THEN call[p].mark + Cooldown ELSE marks.until[key]
  <1>1. /\ call[p].pc = "write" /\ k \in Keys /\ call[p].mark \in Nat
        /\ call[p].values = marks.until /\ marks.until[k] <= call[p].mark
        /\ marks.until[k] = CooldownEnd(k)
        /\ approved[k] \in Int /\ Cooldown \in Nat \ {0}
    <2>1. call[p].pc = "write"
      BY DEF MarkWrite
    <2>2. k \in Keys /\ call[p].mark \in Nat /\ approved[k] \in Int /\ Cooldown \in Nat \ {0}
      BY <2>1, MarkTypes
    <2>3. call[p].values = marks.until /\ marks.until[k] <= call[p].mark
      BY <2>1 DEF MarkerFree
    <2>4. marks.until[k] = CooldownEnd(k)
      BY <2>2 DEF MarksExact
    <2> QED
      BY <2>1, <2>2, <2>3, <2>4
  <1>2. approved[k] = -1 \/ approved[k] + Cooldown <= call[p].mark
    BY <1>1 DEF CooldownEnd
  <1>3. /\ \A key \in Keys : key \in AllTypes \X Setups
        /\ \A key \in AllTypes \X Setups : approved'[key] =
             IF key = k /\ call[p].mark > approved[k] THEN call[p].mark ELSE approved[key]
        /\ \A key \in Keys : marks'.until[key] =
             IF key = k THEN call[p].mark + Cooldown ELSE call[p].values[key]
    BY MarkWriteFacts, KeyFacts DEF Key, TypeInv
  <1>4. call[p].mark > approved[k]
    BY <1>1, <1>2
  <1> QED
    BY <1>1, <1>2, <1>3, <1>4

\* Its mark is a cooldown after every mark that was approved before.
LEMMA WriteApart ==
    ASSUME TypeInv, FreshInv, MarksExact, MarkerFree, NEW p \in Procs, MarkWrite(p),
           NEW k, k = Key(call[p].event), NEW m \in Nat, m <= approved[k]
    PROVE  Apart(call[p].mark, m) /\ Apart(m, call[p].mark)
  <1>1. /\ approved[k] = -1 \/ approved[k] + Cooldown <= call[p].mark
        /\ call[p].mark \in Nat /\ k \in Keys
    BY WriteFree
  <1>2. approved[k] \in Int /\ Cooldown \in Nat
    BY <1>1, MarkTypes
  <1> QED
    BY <1>1, <1>2 DEF Apart

\* No session gets between seen and mark while another is there, unless the step says so.
LEMMA OneMarkerStep ==
    ASSUME TypeInv, OneMarker, [Next]_vars, ~overlapped'
    PROVE  OneMarker'
  <1>0. ASSUME NEW x \in Procs, NEW y \in Procs, x # y, call[x].pc \in {"load", "open", "write"}
        PROVE  call[y].pc \notin {"load", "open", "write"}
    BY <1>0 DEF OneMarker, InMark
  <1> SUFFICES ASSUME NEW p \in Procs, NEW q \in Procs, p # q, call'[p] = call[p],
                      call[p].pc \in {"load", "open", "write"},
                      call'[q].pc \in {"load", "open", "write"}
               PROVE  FALSE
    <2> SUFFICES ASSUME NEW p \in Procs, NEW q \in Procs, p # q, InMark(p)', InMark(q)' PROVE FALSE
      BY DEF OneMarker
    <2>1. call'[p] = call[p] \/ call'[q] = call[q]
      BY MarkerStep
    <2> QED
      BY <2>1 DEF InMark
  <1>1. call[q].pc \notin {"load", "open", "write"}
    BY ONLY <1>0, p \in Procs, q \in Procs, p # q, call[p].pc \in {"load", "open", "write"}
  <1>2. NotSeen(q)
    BY <1>1, MarkerStep DEF Moved, MarkLoad, MarkOpen
  <1>3. overlapped'
    BY <1>2 DEF NotSeen, InMark
  <1> QED
    BY <1>3

\* The file says of every key when the cooldown of its last approval ends.
LEMMA ExactStep ==
    ASSUME TypeInv, FreshInv, MarksExact, MarkerFree, [Next]_vars
    PROVE  MarksExact'
  <1>1. ASSUME NEW p \in Procs, MarkWrite(p), NEW key \in Keys
        PROVE  marks'.until[key] = CooldownEnd(key)'
    <2>1. PICK k : k = Key(call[p].event)
      OBVIOUS
    <2>2. /\ call[p].mark \in Nat /\ approved'[k] = call[p].mark
          /\ key # k => approved'[key] = approved[key]
          /\ marks'.until[key] = IF key = k THEN call[p].mark + Cooldown ELSE marks.until[key]
      BY <1>1, <2>1, WriteFree
    <2>3. marks.until[key] = CooldownEnd(key)
      BY DEF MarksExact
    <2> QED
      BY <2>2, <2>3 DEF CooldownEnd
  <1>2. CASE marks'.until = marks.until /\ approved' = approved
    BY <1>2 DEF MarksExact, CooldownEnd
  <1> QED
    BY <1>1, <1>2, MarksStep DEF MarksExact

\* The session that is about to mark has found its key free, and nobody takes it meanwhile.
LEMMA FreeStep ==
    ASSUME TypeInv, FreshInv, OneMarker, MarkerFree, [Next]_vars
    PROVE  MarkerFree'
  <1>0. /\ clock \in Nat /\ clock' \in Nat /\ clock' >= clock
        /\ \A key \in Keys : marks.until[key] \in Nat
        /\ \A p \in Procs : call[p].pc # "idle" => Key(call[p].event) \in Keys
    <2>1. clock' = clock \/ clock' = clock + 1
      BY MarksStep
    <2> QED
      BY <2>1, MarkTypes
  <1>1. ASSUME NEW p \in Procs, call'[p].pc = "load"
        PROVE  marks'.until[Key(call'[p].event)] <= clock'
    <2>1. CASE NotSeen(p) /\ call'[p].event = call[p].event
      <3>1. /\ ~(marks.until[Key(call[p].event)] > clock) /\ marks' = marks /\ clock' = clock
            /\ call[p].pc = "seen"
        BY <2>1 DEF NotSeen, IsMarked
      <3>2. Key(call[p].event) \in Keys
        BY <1>0, <3>1
      <3>3. marks.until[Key(call[p].event)] <= clock
        BY <1>0, <3>1, <3>2
      <3> QED
        BY <2>1, <3>1, <3>3
    <2>2. CASE call'[p] = call[p]
      <3>1. marks.until[Key(call[p].event)] <= clock
        BY <1>1, <2>2 DEF MarkerFree
      <3>2. marks'.until = marks.until
        BY <1>1, <2>2, Undisturbed DEF InMark
      <3>3. Key(call[p].event) \in Keys
        BY <1>0, <1>1, <2>2
      <3> QED
        BY <1>0, <2>2, <3>1, <3>2, <3>3
    <2> QED
      BY <1>1, <2>1, <2>2, MarkerStep DEF Moved
  <1>2. ASSUME NEW p \in Procs, call'[p].pc \in {"open", "write"}
        PROVE  /\ call'[p].values = marks'.until
               /\ marks'.until[Key(call'[p].event)] <= call'[p].mark
    <2>1. CASE MarkLoad(p) /\ call'[p].event = call[p].event /\ call'[p].mark = clock
               /\ call'[p].values = marks.until
      <3>1. marks' = marks /\ marks.until[Key(call[p].event)] <= clock
        BY <2>1 DEF MarkLoad, MarkerFree
      <3> QED
        BY <2>1, <3>1
    <2>2. CASE MarkOpen(p) /\ call'[p].event = call[p].event /\ call'[p].mark = call[p].mark
               /\ call'[p].values = call[p].values
      <3>1. call[p].pc = "open"
        BY <2>2 DEF MarkOpen
      <3>2. call[p].values = marks.until /\ marks.until[Key(call[p].event)] <= call[p].mark
        BY <3>1 DEF MarkerFree
      <3>3. marks'.until = marks.until
        <4>1. marks \in [whole : BOOLEAN, until : Marks]
          BY DEF TypeInv, TypeOK
        <4> QED
          BY <2>2, <4>1 DEF MarkOpen
      <3> QED
        BY <2>2, <3>2, <3>3
    <2>3. CASE call'[p] = call[p]
      <3>1. call[p].values = marks.until /\ marks.until[Key(call[p].event)] <= call[p].mark
        BY <1>2, <2>3 DEF MarkerFree
      <3>2. marks'.until = marks.until
        BY <1>2, <2>3, Undisturbed DEF InMark
      <3> QED
        BY <2>3, <3>1, <3>2
    <2> QED
      BY <1>2, <2>1, <2>2, <2>3, MarkerStep DEF Moved
  <1> QED
    BY <1>1, <1>2 DEF MarkerFree

\* How a step changes the messages that are posted and the sessions about to post one: a
\* message stays, or it is the one that its session was about to post; and a session is about
\* to post because it was already, or because it has just written its mark.
LEMMA MessageStep ==
    ASSUME TypeInv, [Next]_vars
    PROVE  /\ posted' = posted
                \/ \E p \in Procs : /\ call[p].pc = "send" /\ call'[p].pc # "send"
                                    /\ posted' = Posted(p) /\ approved' = approved
                                    /\ \A q \in Procs : q # p => call'[q] = call[q]
           /\ \A p \in Procs : call'[p].pc = "send" =>
                \/ call'[p] = call[p]
                \/ /\ MarkWrite(p) /\ call'[p].event = call[p].event
                   /\ call'[p].mark = call[p].mark /\ posted' = posted
  <1>1. ASSUME NEW p \in Procs, call'[p].pc = "send", ~(call'[p] = call[p])
        PROVE  /\ MarkWrite(p) /\ call'[p].event = call[p].event
               /\ call'[p].mark = call[p].mark /\ posted' = posted
    BY <1>1, MarkerStep DEF Moved, MarkWrite
  <1>2. \/ posted' = posted
        \/ \E p \in Procs : /\ call[p].pc = "send" /\ call'[p].pc # "send"
                            /\ posted' = Posted(p) /\ approved' = approved
                            /\ \A q \in Procs : q # p => call'[q] = call[q]
    BY ChatStep
  <1> QED
    BY <1>1, <1>2

\* No message and no session about to post one has a mark after the last approval of its key.
LEMMA LastStep ==
    ASSUME TypeInv, FreshInv, MarksBacked, MarksExact, MarkerFree, ApprovedLast, [Next]_vars
    PROVE  ApprovedLast'
  <1>0. /\ TypeOK
        /\ \A key \in Keys : /\ approved[key] \in Int /\ approved'[key] \in Int
                             /\ approved'[key] >= approved[key]
        /\ \A p \in Procs : call[p].pc # "idle" =>
             Key(call[p].event) \in Keys /\ call[p].mark \in Nat
        /\ \A i \in DOMAIN posted : Key(posted[i].event) \in Keys /\ posted[i].mark \in Nat
    BY MarkTypes, ApprovalStep DEF TypeInv
  <1>1. ASSUME NEW p \in Procs, call[p].pc = "send"
        PROVE  call[p].mark <= approved'[Key(call[p].event)]
    <2>1. call[p].mark <= approved[Key(call[p].event)]
      BY <1>1 DEF ApprovedLast
    <2>2. Key(call[p].event) \in Keys /\ call[p].mark \in Nat
      BY <1>0, <1>1
    <2> QED
      BY <1>0, <2>1, <2>2
  <1>2. ASSUME NEW i \in DOMAIN posted, TRUE
        PROVE  posted[i].mark <= approved'[Key(posted[i].event)]
    <2>1. posted[i].mark <= approved[Key(posted[i].event)]
      BY DEF ApprovedLast
    <2>2. Key(posted[i].event) \in Keys /\ posted[i].mark \in Nat
      BY <1>0
    <2> QED
      BY <1>0, <2>1, <2>2
  <1>3. ASSUME NEW p \in Procs, call'[p].pc = "send"
        PROVE  call'[p].mark <= approved'[Key(call'[p].event)]
    <2>1. CASE call'[p] = call[p]
      BY <1>1, <1>3, <2>1
    <2>2. CASE MarkWrite(p) /\ call'[p].event = call[p].event /\ call'[p].mark = call[p].mark
      BY <2>2, WriteFree
    <2> QED
      BY <1>3, <2>1, <2>2, MessageStep
  <1>4. \A i \in DOMAIN posted' : posted'[i].mark <= approved'[Key(posted'[i].event)]
    <2>1. ASSUME NEW p \in Procs, call[p].pc = "send", posted' = Posted(p)
          PROVE  \A i \in DOMAIN posted' : posted'[i].mark <= approved'[Key(posted'[i].event)]
      <3>1. /\ Len(posted) \in Nat /\ DOMAIN posted = 1..Len(posted)
            /\ DOMAIN posted' = 1..(Len(posted) + 1)
            /\ \A i \in DOMAIN posted : posted'[i] = posted[i]
            /\ posted'[Len(posted) + 1].event = call[p].event
            /\ posted'[Len(posted) + 1].mark = call[p].mark
        BY <1>0, <2>1, PostedFacts
      <3>2. \A i \in DOMAIN posted' : i \in DOMAIN posted \/ i = Len(posted) + 1
        BY <3>1
      <3> QED
        BY <1>1, <1>2, <2>1, <3>1, <3>2
    <2> QED
      BY <1>2, <2>1, MessageStep
  <1> QED
    BY <1>3, <1>4 DEF ApprovedLast

\* Any two messages about the same alert keep their cooldown, posted or about to be.
LEMMA ApartStep ==
    ASSUME TypeInv, FreshInv, MarksExact, MarkerFree, ApprovedLast, MessagesApart, [Next]_vars
    PROVE  MessagesApart'
  <1>0. /\ TypeOK
        /\ \A p \in Procs : call[p].pc # "idle" => call[p].event \in Event /\ call[p].mark \in Nat
        /\ \A i \in DOMAIN posted : posted[i].event \in Event /\ posted[i].mark \in Nat
    BY MarkTypes DEF TypeInv
  <1>a. \A m, n : Apart(m, n) => Apart(n, m)
    BY DEF Apart
  <1>b. \A e, f : SameAlert(e, f) => SameAlert(f, e)
    BY DEF SameAlert
  <1>1. ASSUME NEW p \in Procs, NEW q \in Procs, p # q, call'[p].pc = "send", call'[q].pc = "send",
               SameAlert(call'[p].event, call'[q].event)
        PROVE  Apart(call'[p].mark, call'[q].mark)
    <2>1. ASSUME NEW r \in Procs, NEW s \in Procs, call'[s] = call[s], call[s].pc = "send",
                 MarkWrite(r), call'[r].event = call[r].event, call'[r].mark = call[r].mark,
                 SameAlert(call[r].event, call[s].event)
          PROVE  Apart(call'[r].mark, call'[s].mark) /\ Apart(call'[s].mark, call'[r].mark)
      <3>1. call[r].pc = "write"
        BY <2>1 DEF MarkWrite
      <3>2. Key(call[s].event) = Key(call[r].event)
        BY <1>0, <2>1, <3>1, KeyFacts
      <3>3. call[s].mark \in Nat /\ call[s].mark <= approved[Key(call[s].event)]
        BY <1>0, <2>1 DEF ApprovedLast
      <3> QED
        BY <2>1, <3>2, <3>3, WriteApart
    <2>2. CASE call'[p] = call[p] /\ call'[q] = call[q]
      BY <1>1, <2>2 DEF MessagesApart
    <2>3. CASE call'[p] = call[p] /\ call'[q] # call[q]
      <3>1. MarkWrite(q) /\ call'[q].event = call[q].event /\ call'[q].mark = call[q].mark
        BY <1>1, <2>3, MessageStep
      <3> QED
        BY <1>1, <1>b, <2>1, <2>3, <3>1
    <2>4. CASE call'[q] = call[q] /\ call'[p] # call[p]
      <3>1. MarkWrite(p) /\ call'[p].event = call[p].event /\ call'[p].mark = call[p].mark
        BY <1>1, <2>4, MessageStep
      <3> QED
        BY <1>1, <2>1, <2>4, <3>1
    <2> QED
      BY <1>1, <2>2, <2>3, <2>4, MarkerStep
  <1>2. ASSUME NEW p \in Procs, call'[p].pc = "send", NEW i \in DOMAIN posted,
               SameAlert(call'[p].event, posted[i].event)
        PROVE  Apart(call'[p].mark, posted[i].mark)
    <2>1. CASE call'[p] = call[p]
      BY <1>2, <2>1 DEF MessagesApart
    <2>2. CASE MarkWrite(p) /\ call'[p].event = call[p].event /\ call'[p].mark = call[p].mark
      <3>1. call[p].pc = "write"
        BY <2>2 DEF MarkWrite
      <3>2. Key(posted[i].event) = Key(call[p].event)
        BY <1>0, <1>2, <2>2, <3>1, KeyFacts
      <3>3. posted[i].mark \in Nat /\ posted[i].mark <= approved[Key(posted[i].event)]
        BY <1>0 DEF ApprovedLast
      <3> QED
        BY <2>2, <3>2, <3>3, WriteApart
    <2> QED
      BY <1>2, <2>1, <2>2, MessageStep
  <1>3. CASE posted' = posted
    <2>1. \A i, j \in DOMAIN posted' : i # j /\ SameAlert(posted'[i].event, posted'[j].event) =>
            Apart(posted'[i].mark, posted'[j].mark)
      BY <1>3 DEF MessagesApart
    <2> QED
      BY <1>1, <1>2, <1>3, <2>1 DEF MessagesApart
  <1>4. ASSUME NEW p \in Procs, call[p].pc = "send", call'[p].pc # "send", posted' = Posted(p),
               \A q \in Procs : q # p => call'[q] = call[q]
        PROVE  MessagesApart'
    <2>1. /\ Len(posted) \in Nat /\ DOMAIN posted = 1..Len(posted)
          /\ DOMAIN posted' = 1..(Len(posted) + 1)
          /\ \A i \in DOMAIN posted : posted'[i] = posted[i]
          /\ posted'[Len(posted) + 1].event = call[p].event
          /\ posted'[Len(posted) + 1].mark = call[p].mark
      BY <1>0, <1>4, PostedFacts
    <2> DEFINE new == Len(posted) + 1
    <2>2. \A i \in DOMAIN posted' : i \in DOMAIN posted \/ i = new
      BY <2>1
    <2>3. posted'[new].event = call[p].event /\ posted'[new].mark = call[p].mark
      BY <2>1
    <2> HIDE DEF new
    <2>4. ASSUME NEW i \in DOMAIN posted', NEW j \in DOMAIN posted', i # j,
                 SameAlert(posted'[i].event, posted'[j].event)
          PROVE  Apart(posted'[i].mark, posted'[j].mark)
      <3>1. CASE i \in DOMAIN posted /\ j \in DOMAIN posted
        BY <2>1, <2>4, <3>1 DEF MessagesApart
      <3>2. CASE i \in DOMAIN posted /\ j = new
        <4>1. SameAlert(call[p].event, posted[i].event)
          BY <1>b, <2>1, <2>3, <2>4, <3>2
        <4>2. Apart(call[p].mark, posted[i].mark)
          BY <1>4, <3>2, <4>1 DEF MessagesApart
        <4> QED
          BY <1>a, <2>1, <2>3, <3>2, <4>2
      <3>3. CASE j \in DOMAIN posted /\ i = new
        <4>1. SameAlert(call[p].event, posted[j].event)
          BY <2>1, <2>3, <2>4, <3>3
        <4>2. Apart(call[p].mark, posted[j].mark)
          BY <1>4, <3>3, <4>1 DEF MessagesApart
        <4> QED
          BY <2>1, <2>3, <3>3, <4>2
      <3> QED
        BY <2>2, <2>4, <3>1, <3>2, <3>3
    <2>5. ASSUME NEW q \in Procs, call'[q].pc = "send", NEW i \in DOMAIN posted',
                 SameAlert(call'[q].event, posted'[i].event)
          PROVE  Apart(call'[q].mark, posted'[i].mark)
      <3>1. q # p /\ call'[q] = call[q]
        BY <1>4, <2>5
      <3>2. CASE i \in DOMAIN posted
        BY <1>2, <2>1, <2>5, <3>2
      <3>3. CASE i = new
        <4>1. Apart(call[q].mark, call[p].mark)
          BY <1>4, <2>3, <2>5, <3>1, <3>3 DEF MessagesApart
        <4> QED
          BY <2>3, <3>1, <3>3, <4>1
      <3> QED
        BY <2>2, <3>2, <3>3
    <2> QED
      BY <1>1, <2>4, <2>5 DEF MessagesApart
  <1> QED
    BY <1>3, <1>4, MessageStep

\* All of it, step by step.
LEMMA OnceStep ==
    ASSUME TypeInv, FreshInv, MarksBacked, OnceInv, [Next]_vars
    PROVE  OnceInv'
  <1>1. CASE overlapped'
    BY <1>1 DEF OnceInv
  <1>2. CASE ~overlapped'
    <2>1. OneMarker /\ MarksExact /\ MarkerFree /\ ApprovedLast /\ MessagesApart
      BY <1>2, MarksStep DEF OnceInv
    <2> QED
      BY <1>2, <2>1, OneMarkerStep, ExactStep, FreeStep, LastStep, ApartStep DEF OnceInv
  <1> QED
    BY <1>1, <1>2

\* Nothing has been built, marked, approved or posted.
LEMMA PublicationInit ==
    Init => PublicationInv
  <1> SUFFICES ASSUME Init PROVE PublicationInv
    OBVIOUS
  <1>1. TypeInv
    <2>1. /\ clock \in 0..MaxClock /\ faults \in 0..MaxFaults /\ overlapped \in BOOLEAN
          /\ marks \in [whole : BOOLEAN, until : Marks]
      <3>1. /\ clock = 0 /\ faults = 0 /\ overlapped = FALSE
            /\ marks = [whole |-> TRUE, until |-> NoMarks]
        BY DEF Init
      <3>2. NoMarks \in Marks
        BY DEF Marks, NoMarks
      <3>3. marks \in [whole : BOOLEAN, until : Marks]
        <4> HIDE DEF NoMarks
        <4> QED
          BY <3>1, <3>2
      <3>4. clock \in 0..MaxClock /\ faults \in 0..MaxFaults
        BY <3>1, PublicationAssumption
      <3> QED
        BY <3>1, <3>3, <3>4
    <2>2. /\ events \in SUBSET Event /\ IsFiniteSet(events)
          /\ seen \in [Procs -> SUBSET (1..MaxEvents)]
          /\ call \in [Procs -> Busy \cup {Idle}] /\ approved \in [AllTypes \X Setups -> Int]
      <3>1. events = {} /\ IsFiniteSet({})
        BY FS_EmptySet DEF Init
      <3>2. seen \in [Procs -> SUBSET (1..MaxEvents)] /\ call \in [Procs -> Busy \cup {Idle}]
        BY DEF Init
      <3>3. approved \in [AllTypes \X Setups -> Int]
        BY DEF Init
      <3> QED
        BY <3>1, <3>2, <3>3
    <2> DEFINE Message == [event : Event, gate : Nat, mark : Nat]
    <2>3. posted = <<>>
      BY DEF Init
    <2> HIDE DEF Message
    <2>4. posted \in Seq(Message)
      BY <2>3
    <2> QED
      BY <2>1, <2>2, <2>4 DEF TypeInv, TypeOK, Message
  <1>2. /\ \A p \in Procs : call[p].pc = "idle"
        /\ DOMAIN posted = {} /\ events = {}
    BY DEF Init, Idle
  <1>3. FreshInv
    BY <1>2 DEF FreshInv
  <1>4. MarksExact /\ MarksBacked
    <2>1. \A key \in Keys : marks.until[key] = 0 /\ approved[key] = -1 /\ clock = 0
      BY KeyFacts DEF Init, NoMarks
    <2> QED
      BY <1>2, <2>1 DEF MarksExact, MarksBacked, CooldownEnd
  <1>5. OneMarker /\ MarkerFree /\ ApprovedLast /\ MessagesApart
    BY <1>2 DEF OneMarker, InMark, MarkerFree, ApprovedLast, MessagesApart
  <1> QED
    BY <1>1, <1>3, <1>4, <1>5 DEF PublicationInv, OnceInv

----------------------------------------------------------------------------
(* The theorems *)

\* The inductive invariant of the publication path: the state has its shape, every payload has
\* its gates behind it, the marks never run ahead of the approvals, and, as long as no two
\* sessions were between seen and mark at once, they are exactly those of the last approvals.
THEOREM PublicationInvariant == Spec => []PublicationInv
  <1>1. Init => PublicationInv
    BY PublicationInit
  <1>2. PublicationInv /\ [Next]_vars => PublicationInv'
    BY TypeStep, FreshStep, BackedStep, OnceStep DEF PublicationInv
  <1> QED
    BY <1>1, <1>2, PTL DEF Spec

\* Everything that consume_event, format_market and send_alert keep has its shape.
THEOREM PublicationTypeOK == Spec => []TypeOK
  <1>1. PublicationInv => TypeOK
    BY DEF PublicationInv, TypeInv
  <1> QED
    BY <1>1, PublicationInvariant, PTL

\* Two messages about the same type and setup are a cooldown apart, however sessions crash,
\* retry, lose replies and get an event twice, as long as no two of them were between
\* dedup_store.seen and dedup_store.mark at once.
THEOREM PublicationOncePerCooldown == Spec => []OncePerCooldown
  <1>1. PublicationInv => OncePerCooldown
    <2> SUFFICES ASSUME PublicationInv, ~overlapped,
                        NEW i \in DOMAIN posted, NEW j \in DOMAIN posted,
                        i # j, SameAlert(posted[i].event, posted[j].event)
                 PROVE  \/ posted[j].mark >= posted[i].mark + Cooldown
                        \/ posted[i].mark >= posted[j].mark + Cooldown
      BY DEF OncePerCooldown
    <2> QED
      BY DEF PublicationInv, OnceInv, MessagesApart, Apart
  <1> QED
    BY <1>1, PublicationInvariant, PTL

\* What format_market lets out had not expired at its gate, is of a type that may leave the
\* system, and, for a signal, rests on data that are not older than the freshness and the
\* expiry windows of evaluate_signal and build_signal_event together.
THEOREM PublicationPostedFresh == Spec => []PostedFresh
  <1>1. PublicationInv => PostedFresh
    <2> SUFFICES ASSUME PublicationInv, NEW i \in DOMAIN posted
                 PROVE  LET e == posted[i].event
                        IN  /\ e.sound
                            /\ e.type \in {"SUPER_POTENTIAL_CONFIRMED", "SUPER_POTENTIAL_INVALIDATED",
                                           "DATA_QUALITY_WARNING", "SYSTEM_INCIDENT"}
                            /\ posted[i].gate < e.expires
                            /\ e.type = "SUPER_POTENTIAL_CONFIRMED" =>
                                 posted[i].gate - e.fetched < Freshness + Window
                            /\ e.type = "SUPER_POTENTIAL_INVALIDATED" =>
                                 posted[i].gate - e.fetched < Freshness + InvalidationExpiry
      BY DEF PostedFresh
    <2> DEFINE Message == [event : Event, gate : Nat, mark : Nat]
               e == posted[i].event
    <2>1. posted \in Seq(Message)
      BY DEF PublicationInv, TypeInv, TypeOK
    <2> HIDE DEF Message
    <2>2. posted[i] \in Message
      BY <2>1
    <2>3. e \in Event /\ posted[i].gate \in Nat
      BY <2>2 DEF Message
    <2>4. Passed(e) /\ posted[i].gate < e.expires
      BY DEF PublicationInv, FreshInv
    <2>5. /\ e.expires \in Int /\ e.fetched \in Int
          /\ Freshness \in Int /\ Window \in Int /\ InvalidationExpiry \in Int
      BY <2>3, PublicationAssumption DEF Event
    <2> HIDE DEF e
    <2>6. e.sound /\ e.type \in {"SUPER_POTENTIAL_CONFIRMED", "SUPER_POTENTIAL_INVALIDATED",
                                 "DATA_QUALITY_WARNING", "SYSTEM_INCIDENT"}
      BY <2>4 DEF Passed, ConsumerAllows
    <2>7. /\ e.type = "SUPER_POTENTIAL_CONFIRMED" => e.expires <= e.fetched + Freshness + Window
          /\ e.type = "SUPER_POTENTIAL_INVALIDATED" =>
               e.expires <= e.fetched + Freshness + InvalidationExpiry
      BY <2>4 DEF Passed, Fresh
    <2>8. /\ e.type = "SUPER_POTENTIAL_CONFIRMED" => posted[i].gate - e.fetched < Freshness + Window
          /\ e.type = "SUPER_POTENTIAL_INVALIDATED" =>
               posted[i].gate - e.fetched < Freshness + InvalidationExpiry
      BY <2>3, <2>4, <2>5, <2>7
    <2> QED
      BY <2>4, <2>6, <2>8 DEF e
  <1> QED
    BY <1>1, PublicationInvariant, PTL

\* A session that leaves format_market at seen, with a file that can be read and no crash, was
\* told that its payload is a duplicate.
LEMMA RejectedStep ==
    ASSUME TypeInv, [Next]_vars, NEW p \in Procs, Rejected(p)
    PROVE  Duplicate(p)
  <1>0. TypeOK /\ faults \in Nat /\ call[p].pc = "seen" /\ call'[p].pc = "idle" /\ faults' = faults
    BY PublicationAssumption DEF TypeInv, TypeOK, Rejected
  <1>1. ASSUME NEW q \in Procs, q # p,
               \/ Duplicate(q) \/ Unreadable(q) \/ TooLong(q) \/ Send(q) \/ GiveUp(q) \/ Crash(q)
        PROVE  FALSE
    <2>1. Leave(q)
      BY <1>1 DEF Duplicate, Unreadable, TooLong, Send, GiveUp, Crash
    <2> QED
      BY <1>0, <1>1, <2>1, LeaveFacts
  <1>2. ASSUME NEW q \in Procs, Consume(q) \/ Validate(q) PROVE FALSE
    <2>1. call[q].pc \in {"idle", "validate"}
      BY <1>2 DEF Consume, Validate
    <2>2. \A r \in Procs : r # q => call'[r] = call[r]
      BY <1>0, <1>2, ConsumeFacts, ValidateFacts
    <2> QED
      BY <1>0, <2>1, <2>2
  <1>3. ASSUME NEW q \in Procs, NotSeen(q) \/ MarkOpen(q) \/ SendRaises(q) \/ Retry(q)
        PROVE  FALSE
    <2>1. PICK pc \in Pcs : Step(q, pc) /\ call[q].pc # "idle"
      BY <1>3 DEF NotSeen, MarkOpen, SendRaises, Retry, Pcs
    <2>2. call'[q].pc = pc /\ \A r \in Procs : r # q => call'[r] = call[r]
      BY <1>0, <2>1, StepFacts
    <2> QED
      BY <1>0, <2>1, <2>2 DEF Pcs
  <1>4. ASSUME NEW q \in Procs, MarkLoad(q) \/ MarkWrite(q) PROVE FALSE
    <2>1. call'[q].pc # "idle" /\ \A r \in Procs : r # q => call'[r] = call[r]
      BY <1>0, <1>4, MarkLoadFacts, MarkWriteFacts
    <2> QED
      BY <1>0, <2>1
  <1>5. ASSUME Unreadable(p) \/ TooLong(p) \/ Send(p) \/ GiveUp(p) \/ Crash(p) PROVE FALSE
    <2>1. CASE Unreadable(p)
      BY <2>1 DEF Unreadable, Rejected
    <2>2. CASE TooLong(p) \/ Send(p) \/ GiveUp(p)
      BY <1>0, <2>2 DEF TooLong, Send, GiveUp
    <2>3. CASE Crash(p)
      BY <1>0, <2>3 DEF Crash
    <2> QED
      BY <1>5, <2>1, <2>2, <2>3
  <1>6. CASE EvaluateSignal \/ OtherEvent \/ Tick \/ UNCHANGED vars
    BY <1>0, <1>6 DEF EvaluateSignal, OtherEvent, Built, Tick, vars
  <1> QED
    BY <1>1, <1>2, <1>3, <1>4, <1>5, <1>6 DEF Next

\* format_market rejects a payload as a duplicate only while the cooldown of an approved alert
\* of the same type and setup lasts, even when the sessions overlap.
THEOREM PublicationDuplicateJustified == Spec => DuplicateJustified
  <1>1. PublicationInv /\ [Next]_vars =>
          [\A p \in Procs :
             Rejected(p) =>
               LET last == approved[<<call[p].event.type, call[p].event.setup>>]
               IN  last # -1 /\ clock \in last..last + Cooldown - 1]_vars
    <2> SUFFICES ASSUME PublicationInv, [Next]_vars, NEW p \in Procs, Rejected(p), NEW k,
                        k = Key(call[p].event)
                 PROVE  approved[k] # -1 /\ clock \in approved[k]..approved[k] + Cooldown - 1
      BY DEF Key
    <2>1. Duplicate(p)
      BY RejectedStep DEF PublicationInv
    <2>2. call[p].pc = "seen" /\ marks.until[k] > clock
      BY <2>1 DEF Duplicate, IsMarked
    <2>3. /\ k \in Keys /\ approved[k] \in Int /\ marks.until[k] \in Nat
          /\ clock \in Nat /\ Cooldown \in Nat
      BY <2>2, MarkTypes DEF PublicationInv
    <2>4. marks.until[k] <= CooldownEnd(k) /\ approved[k] <= clock
      BY <2>3 DEF PublicationInv, MarksBacked
    <2> QED
      BY <2>2, <2>3, <2>4 DEF CooldownEnd
  <1> QED
    BY <1>1, PublicationInvariant, PTL DEF Spec, DuplicateJustified

=============================================================================
