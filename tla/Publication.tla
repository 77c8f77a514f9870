----------------------------- MODULE Publication -----------------------------
(***************************************************************************)
(* From a signal to a message in the market chat: evaluate_signal and      *)
(* build_signal_event (signal_engine.py), consume_event                    *)
(* (event_consumer.py), TelegramPublisher.format_market over the file of   *)
(* MarketAlertDedupStore, and TelegramMarketTransport.send_alert           *)
(* (telegram.py).                                                          *)
(*                                                                         *)
(* A process is a session that consumes events and publishes them.         *)
(* Events reach it in any order, more than once, and late.  Each gate      *)
(* reads the clock by itself; a step ends wherever the clock or the file   *)
(* of marks is read or written, or the chat is called.  The payload that   *)
(* an agent makes of an event (external) carries its type, setup and       *)
(* expiry.                                                                 *)
(*                                                                         *)
(* Left out: the wording of messages, priorities, and the operator's bot.  *)
(***************************************************************************)
EXTENDS Integers, Sequences, FiniteSets

CONSTANTS
    Procs,               \* sessions
    Setups,              \* symbol, timeframe, setup_id and trigger_version
    Scores,              \* the scores a signal can have
    OtherTypes,          \* the types of events that are not built from signals
    Candidate, Confirmed, Invalidation,  \* the thresholds
    Freshness,           \* freshness_seconds
    Window,              \* deduplication_window_seconds: how long a signal is good
    InvalidationExpiry,  \* invalidation_expiry_seconds
    Cooldown,            \* cooldown_seconds of the publisher
    MaxClock,            \* bound: the clock stops here
    MaxEvents,           \* bound: events
    MaxFaults            \* bound: crashes, and posts that fail or whose reply is lost

AllTypes ==
    {"SUPER_POTENTIAL_CANDIDATE_INTERNAL", "SUPER_POTENTIAL_CONFIRMED",
     "SUPER_POTENTIAL_INVALIDATED", "SYSTEM_HEALTH", "DATA_QUALITY_WARNING", "SYSTEM_INCIDENT",
     "SYSTEM_RECOVERED"}

ASSUME PublicationAssumption ==
    /\ OtherTypes \subseteq AllTypes
    /\ Scores \subseteq Int /\ Candidate \in Int /\ Confirmed \in Int /\ Invalidation \in Int
    /\ Freshness \in Nat /\ Window \in Nat \ {0} /\ InvalidationExpiry \in Nat \ {0}
    /\ Cooldown \in Nat \ {0}
    /\ MaxClock \in Nat /\ MaxEvents \in Nat /\ MaxFaults \in Nat

VARIABLES
    clock,
    events,      \* the events that were built
    seen,        \* seen_event_ids of each session
    marks,       \* the file of MarketAlertDedupStore: the end of each key's cooldown
    call,        \* where each session is, from consume_event to send_alert
    posted,      \* the messages in the chat
    approved,    \* history: when each alert was last approved; -1: never
    overlapped,  \* history: two sessions have been between seen and mark at the same time
    faults

vars == <<clock, events, seen, marks, call, posted, approved, overlapped, faults>>

SignalTypes ==
    {"SUPER_POTENTIAL_CANDIDATE_INTERNAL", "SUPER_POTENTIAL_CONFIRMED", "SUPER_POTENTIAL_INVALIDATED"}

\* ALLOWED_EVENT_TYPES of events.py: any other type fails validate_event_envelope.
EnvelopeTypes == SignalTypes \cup {"SYSTEM_HEALTH", "DATA_QUALITY_WARNING", "SYSTEM_INCIDENT"}

\* ALLOWED_MARKET_PUBLISH and FORBIDDEN_MARKET_PUBLISH of event_consumer.py.
ConsumerAllows ==
    {"SUPER_POTENTIAL_CONFIRMED", "SUPER_POTENTIAL_INVALIDATED", "DATA_QUALITY_WARNING", "SYSTEM_INCIDENT"}
ConsumerForbids == {"SUPER_POTENTIAL_CANDIDATE_INTERNAL", "SYSTEM_HEALTH"}

\* ALLOWED_MARKET_PUBLICATION_EVENTS and FORBIDDEN_MARKET_PUBLICATION_EVENTS of telegram.py.
PublisherAllows == ConsumerAllows \cup {"SYSTEM_RECOVERED"}
PublisherForbids == ConsumerForbids

----------------------------------------------------------------------------
(* The signal engine *)

Gates == {"minimum_evidence_count", "minimum_data_quality", "minimum_headroom",
          "timeframe_agreement", "provenance"}

ScoreState(score) ==
    IF score >= Confirmed THEN "CONFIRMED"
    ELSE IF score >= Candidate THEN "CANDIDATE_INTERNAL"
    ELSE IF score <= Invalidation THEN "INVALIDATED"
    ELSE "NO_SETUP"

\* Faulty: the freshness gate is missing.
SignalStateStale(score, failed, fetched, now) ==
    IF failed # {} THEN "NO_SETUP" ELSE ScoreState(score)

\* state of evaluate_signal.  failed has the gates that do not look at the clock.
SignalState(score, failed, fetched, now) ==
    IF failed # {} \/ now - fetched > Freshness THEN "NO_SETUP" ELSE ScoreState(score)

ExpiresAfter(state) == IF state = "INVALIDATED" THEN InvalidationExpiry ELSE Window

EventType(state) ==
    CASE state = "CANDIDATE_INTERNAL" -> "SUPER_POTENTIAL_CANDIDATE_INTERNAL"
      [] state = "CONFIRMED" -> "SUPER_POTENTIAL_CONFIRMED"
      [] state = "INVALIDATED" -> "SUPER_POTENTIAL_INVALIDATED"

\* What is known of an event: sound means that its integrity hash and its provenance are in
\* order, and fetched is the time of its data.
Event ==
    [id : 1..MaxEvents, type : AllTypes, setup : Setups, sound : BOOLEAN,
     fetched : 0..MaxClock, expires : Nat]

Built(type, setup, sound, fetched, expires) ==
    /\ Cardinality(events) < MaxEvents
    /\ events' = events \cup
         {[id |-> Cardinality(events) + 1, type |-> type, setup |-> setup, sound |-> sound,
           fetched |-> fetched, expires |-> expires]}
    /\ UNCHANGED <<clock, seen, marks, call, posted, approved, overlapped, faults>>

\* evaluate_signal, then build_signal_event, which raises for NO_SETUP.
EvaluateSignal ==
    \E setup \in Setups, score \in Scores, fetched \in 0..clock,
       failed \in {{}} \cup {{g} : g \in Gates} :
      LET state == SignalState(score, failed, fetched, clock)
      IN  /\ state # "NO_SETUP"
          /\ Built(EventType(state), setup, TRUE, fetched, clock + ExpiresAfter(state))

\* An event from elsewhere: a report of another component, or one that was tampered with.
OtherEvent ==
    \E type \in OtherTypes, setup \in Setups, sound \in BOOLEAN :
       /\ type \in SignalTypes => ~sound
       /\ Built(type, setup, sound, clock, clock + Window)

----------------------------------------------------------------------------
(* consume_event: its rules in their order. *)

\* validate_event_envelope, and the rules on provenance.
Valid(event) == event.sound /\ event.type \in EnvelopeTypes

Decision(event, seen_event_ids, now) ==
    IF ~Valid(event) THEN "REJECT"
    ELSE IF event.id \in seen_event_ids THEN "REJECT"
    ELSE IF event.type \in ConsumerForbids THEN "HOLD"
    ELSE IF event.expires <= now THEN "REJECT"
    ELSE IF event.type \notin ConsumerAllows THEN "HOLD"
    ELSE "PUBLISH"

Keys == PublisherAllows \X Setups
NoMarks == [k \in Keys |-> 0]

Idle == [pc |-> "idle"]

\* Any other decision changes nothing.
Consume(p) ==
    \E event \in events :
      /\ call[p].pc = "idle"
      /\ Decision(event, seen[p], clock) = "PUBLISH"
      /\ seen' = [seen EXCEPT ![p] = @ \cup {event.id}]
      /\ call' = [call EXCEPT ![p] = [pc |-> "validate", event |-> event, gate |-> 0,
                                      mark |-> 0, values |-> NoMarks]]
      /\ UNCHANGED <<clock, events, marks, posted, approved, overlapped, faults>>

----------------------------------------------------------------------------
(* format_market *)

\* Faulty: the key does not tell a confirmation from an invalidation.
KeyOfSetup(event) == <<"SUPER_POTENTIAL_CONFIRMED", event.setup>>

\* The dedup_key of the contract.
Key(event) == <<event.type, event.setup>>

PayloadValid(event, now) ==
    /\ event.type \notin PublisherForbids
    /\ event.type \in PublisherAllows
    /\ event.expires > now

Step(p, pc) == call' = [call EXCEPT ![p].pc = pc]

Leave(p) == call' = [call EXCEPT ![p] = Idle]

Validate(p) ==
    /\ call[p].pc = "validate"
    /\ IF PayloadValid(call[p].event, clock)
         THEN call' = [call EXCEPT ![p].pc = "seen", ![p].gate = clock]
         ELSE Leave(p)
    /\ UNCHANGED <<clock, events, seen, marks, posted, approved, overlapped, faults>>

InMark(p) == call[p].pc \in {"load", "open", "write"}

IsMarked(key, now) == marks.until[key] > now

\* dedup_store.seen is false.
NotSeen(p) ==
    /\ call[p].pc = "seen"
    /\ marks.whole /\ ~IsMarked(Key(call[p].event), clock)
    /\ Step(p, "load")
    /\ overlapped' = (overlapped \/ \E q \in Procs \ {p} : InMark(q))
    /\ UNCHANGED <<clock, events, seen, marks, posted, approved, faults>>

\* "duplicate market publication rejected"
Duplicate(p) ==
    /\ call[p].pc = "seen"
    /\ marks.whole /\ IsMarked(Key(call[p].event), clock)
    /\ Leave(p)
    /\ UNCHANGED <<clock, events, seen, marks, posted, approved, overlapped, faults>>

\* seen or mark meets a file that a crash left empty: json.loads raises.
Unreadable(p) ==
    /\ call[p].pc \in {"seen", "load"}
    /\ ~marks.whole
    /\ Leave(p)
    /\ UNCHANGED <<clock, events, seen, marks, posted, approved, overlapped, faults>>

\* "formatted message exceeds Telegram limit"
TooLong(p) ==
    /\ call[p].pc = "load"
    /\ Leave(p)
    /\ UNCHANGED <<clock, events, seen, marks, posted, approved, overlapped, faults>>

\* mark reads the clock and the file...
MarkLoad(p) ==
    /\ call[p].pc = "load"
    /\ marks.whole
    /\ call' = [call EXCEPT ![p].pc = "open", ![p].mark = clock, ![p].values = marks.until]
    /\ UNCHANGED <<clock, events, seen, marks, posted, approved, overlapped, faults>>

\* ...write_text empties the file...
MarkOpen(p) ==
    /\ call[p].pc = "open"
    /\ marks' = [marks EXCEPT !.whole = FALSE]
    /\ Step(p, "write")
    /\ UNCHANGED <<clock, events, seen, posted, approved, overlapped, faults>>

Approve(p) ==
    approved' = [approved EXCEPT ![<<call[p].event.type, call[p].event.setup>>] =
                   IF call[p].mark > @ THEN call[p].mark ELSE @]

\* ...and writes all the marks; format_market returns.
MarkWrite(p) ==
    /\ call[p].pc = "write"
    /\ marks' = [whole |-> TRUE,
                 until |-> [call[p].values EXCEPT ![Key(call[p].event)] = call[p].mark + Cooldown]]
    /\ Approve(p)
    /\ call' = [call EXCEPT ![p].pc = "send", ![p].values = NoMarks]
    /\ UNCHANGED <<clock, events, seen, posted, overlapped, faults>>

----------------------------------------------------------------------------
(* send_alert.  The mark is written before the message is posted. *)

Posted(p) ==
    Append(posted, [event |-> call[p].event, gate |-> call[p].gate, mark |-> call[p].mark])

Send(p) ==
    /\ call[p].pc = "send"
    /\ posted' = Posted(p)
    /\ Leave(p)
    /\ UNCHANGED <<clock, events, seen, marks, approved, overlapped, faults>>

\* _telegram_post raises: the chat refused the message, or the reply was lost.
SendRaises(p) ==
    /\ faults < MaxFaults
    /\ call[p].pc = "send"
    /\ posted' \in {posted, Posted(p)}
    /\ Step(p, "failed")
    /\ faults' = faults + 1
    /\ UNCHANGED <<clock, events, seen, marks, approved, overlapped>>

\* Faulty: the request is posted again.
RetryPost(p) ==
    /\ call[p].pc = "failed"
    /\ Step(p, "send")
    /\ UNCHANGED <<clock, events, seen, marks, posted, approved, overlapped, faults>>

\* The caller publishes the payload again (external), from format_market on.
Retry(p) ==
    /\ call[p].pc = "failed"
    /\ Step(p, "validate")
    /\ UNCHANGED <<clock, events, seen, marks, posted, approved, overlapped, faults>>

GiveUp(p) ==
    /\ call[p].pc = "failed"
    /\ Leave(p)
    /\ UNCHANGED <<clock, events, seen, marks, posted, approved, overlapped, faults>>

\* A session dies, wherever it is, and its seen_event_ids with it.
Crash(p) ==
    /\ faults < MaxFaults
    /\ call[p].pc # "idle" \/ seen[p] # {}
    /\ Leave(p)
    /\ seen' = [seen EXCEPT ![p] = {}]
    /\ faults' = faults + 1
    /\ UNCHANGED <<clock, events, marks, posted, approved, overlapped>>

Tick ==
    /\ clock < MaxClock
    /\ clock' = clock + 1
    /\ UNCHANGED <<events, seen, marks, call, posted, approved, overlapped, faults>>

----------------------------------------------------------------------------

Init ==
    /\ clock = 0
    /\ events = {}
    /\ seen = [p \in Procs |-> {}]
    /\ marks = [whole |-> TRUE, until |-> NoMarks]
    /\ call = [p \in Procs |-> Idle]
    /\ posted = <<>>
    /\ approved = [alert \in AllTypes \X Setups |-> -1]
    /\ overlapped = FALSE
    /\ faults = 0

Next ==
    \/ EvaluateSignal \/ OtherEvent \/ Tick
    \/ \E p \in Procs :
         \/ Consume(p) \/ Validate(p) \/ NotSeen(p) \/ Duplicate(p) \/ Unreadable(p) \/ TooLong(p)
         \/ MarkLoad(p) \/ MarkOpen(p) \/ MarkWrite(p)
         \/ Send(p) \/ SendRaises(p) \/ Retry(p) \/ GiveUp(p) \/ Crash(p)

Spec == Init /\ [][Next]_vars

----------------------------------------------------------------------------

Marks == [Keys -> Nat]

Busy ==
    [pc : {"validate", "seen", "load", "open", "write", "send", "failed"},
     event : Event, gate : Nat, mark : Nat, values : Marks]

\* The state has its shape.
TypeOK ==
    /\ clock \in 0..MaxClock
    /\ events \in SUBSET Event
    /\ seen \in [Procs -> SUBSET (1..MaxEvents)]
    /\ marks \in [whole : BOOLEAN, until : Marks]
    /\ call \in [Procs -> Busy \cup {Idle}]
    /\ posted \in Seq([event : Event, gate : Nat, mark : Nat])
    /\ approved \in [AllTypes \X Setups -> Int]
    /\ overlapped \in BOOLEAN
    /\ faults \in 0..MaxFaults

SameAlert(e, f) == e.type = f.type /\ e.setup = f.setup

\* Two messages about the same type and setup were marked at least a cooldown apart, as long
\* as no two sessions were between seen and mark at once: restarts, lost replies, retries and
\* an event that is delivered twice never make the bot repeat itself.
OncePerCooldown ==
    \/ overlapped
    \/ \A i, j \in DOMAIN posted :
         i # j /\ SameAlert(posted[i].event, posted[j].event) =>
           \/ posted[j].mark >= posted[i].mark + Cooldown
           \/ posted[i].mark >= posted[j].mark + Cooldown

\* A posted message passed the last gate before its event expired, and comes from a sound
\* event of a type that may leave the system; for a signal this bounds how old its data are.
PostedFresh ==
    \A i \in DOMAIN posted :
      LET e == posted[i].event
      IN  /\ e.sound
          /\ e.type \in {"SUPER_POTENTIAL_CONFIRMED", "SUPER_POTENTIAL_INVALIDATED",
                         "DATA_QUALITY_WARNING", "SYSTEM_INCIDENT"}
          /\ posted[i].gate < e.expires
          /\ e.type = "SUPER_POTENTIAL_CONFIRMED" =>
               posted[i].gate - e.fetched < Freshness + Window
          /\ e.type = "SUPER_POTENTIAL_INVALIDATED" =>
               posted[i].gate - e.fetched < Freshness + InvalidationExpiry

\* A payload is rejected as a duplicate only while the cooldown of an alert of its own type and
\* setup lasts: the invalidation of a setup is never taken for its confirmation, and a mark
\* never outlives its cooldown.
Rejected(p) ==
    call[p].pc = "seen" /\ marks.whole /\ call'[p].pc = "idle" /\ faults' = faults

DuplicateJustified ==
    [][\A p \in Procs :
         Rejected(p) =>
           LET last == approved[<<call[p].event.type, call[p].event.setup>>]
           IN  last # -1 /\ clock \in last..last + Cooldown - 1]_vars
=============================================================================
