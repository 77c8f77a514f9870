--------------------------- MODULE ResearchProofs ---------------------------
(* The invariants and the action property of ResearchLifecycle, for every  *)
(* set of processes, agents and experiments and every bound.               *)
EXTENDS ResearchLifecycle, FiniteSetTheorems, TLAPS

Kept == {"experiments", "candidates"}
Pending == [at: {"write", "opened"}, file: File, kind: {"create", "transition"}, record: Record]
Busy(p) == proc[p] # Idle

\* A record nobody has tampered with: its story is true, its proposer did not approve it.
Sound(r) == IsPath(r) /\ (store = "experiments" => r.proposer \notin r.approvers)

FilesSound == \A f \in File : Whole(file[f]) => Sound(file[f])
RecordsSound == \A p \in Process : Busy(p) => Sound(proc[p].record)

\* A behaviour touches the files of one store only.
Own(f) == IF store = "experiments" THEN f \in Experiment ELSE f \in 1..MaxCandidates
StoreKept ==
    /\ \A f \in File : file[f] # NoFile => Own(f)
    /\ \A p \in Process : Busy(p) => Own(proc[p].file)

\* Without overlap one call at a time is in a file.
OneCall ==
    \A p, q \in Process :
        Busy(p) /\ Busy(q) /\ proc[p].file = proc[q].file /\ proc[p].file \notin overlapped => p = q

\* A file that loads has what its last caller was given.
Coupled == \A f \in File : Whole(file[f]) => file[f] = returned[f]

\* A torn file was left by an overlap or a call that failed, or a call is in it.
TornKnown ==
    \A f \in File :
        /\ file[f] = NoFile => returned[f] = NoFile
        /\ file[f] = Torn => f \in overlapped \/ f \in cut \/ InWrite(f)

\* What a call is about to write.
CallSound(p) ==
    LET c == proc[p]
    IN  /\ c.at = "opened" => file[c.file] # NoFile /\ (Whole(file[c.file]) => c.file \in overlapped)
        /\ c.kind = "create" => c.record.transitions = <<>>
        /\ c.kind = "transition" /\ c.file \notin overlapped => GoesOnFrom(returned[c.file], c.record)
CallsSound == \A p \in Process : Busy(p) => CallSound(p)

\* The candidates that have a file are 1..k.
UsedUpTo(k) ==
    /\ \A f \in File : file[f] # NoFile <=> f \in 1..k
    /\ \A p \in Process : Busy(p) => proc[p].file \in 1..(k + 1)
Numbered == store = "candidates" => \E k \in 0..MaxCandidates : UsedUpTo(k)

\* An id was given out only if there is a file, and not while a call is about to give it out.
Fresh ==
    store = "candidates" =>
        /\ \A f \in File : file[f] = NoFile => created[f] = 0
        /\ \A p \in Process : Busy(p) /\ proc[p].kind = "create" /\ proc[p].file \notin overlapped
                                 => created[proc[p].file] = 0
NoneCreated == store = "experiments" => \A c \in 1..MaxCandidates : created[c] = 0

IndInv ==
    /\ TypeOK
    /\ FilesSound /\ RecordsSound
    /\ StoreKept
    /\ OneCall
    /\ Coupled /\ TornKnown
    /\ CallsSound
    /\ Numbered
    /\ Fresh /\ NoneCreated
    /\ CandidateIdsUnique

-----------------------------------------------------------------------------
(* Records and the graphs. *)

\* A record is neither of the two things a file without a record can be.
LEMMA RecordWhole ==
    ASSUME NEW r \in Record
    PROVE  r # NoFile /\ r # Torn /\ NoFile # Torn /\ Whole(r)
  <1>1. /\ "proposer" \in DOMAIN r
        /\ DOMAIN NoFile = {"state"} /\ DOMAIN Torn = {"state"}
    BY DEF Record, NoFile, Torn
  <1>2. NoFile # Torn
    BY DEF NoFile, Torn
  <1> QED BY <1>1, <1>2 DEF Whole

\* A pending call is not the idle one.
LEMMA PendingBusy ==
    ASSUME NEW c \in Pending
    PROVE  c # Idle
  BY DEF Pending, Idle

\* A process that is busy is in a pending call.
LEMMA BusyPending ==
    ASSUME TypeOK, NEW p \in Process, Busy(p)
    PROVE  proc[p] \in Pending
  BY DEF TypeOK, Busy, Pending

\* The ends of an allowed transition are states.
LEMMA EndsAreStates ==
    ASSUME NEW s, NEW t, <<s, t>> \in ALLOWED_TRANSITIONS \cup CandidateTransitions
    PROVE  s \in States /\ t \in States
  <1>1. {<<s, t>>[1], <<s, t>>[2]} \in {{u[1], u[2]} : u \in ALLOWED_TRANSITIONS \cup CandidateTransitions}
    OBVIOUS
  <1> QED BY <1>1 DEF States

\* Where both lifecycles begin.
LEMMA FirstIsState == FirstState \in States
  <1>1. <<"OBSERVATION", "HYPOTHESIS">> \in ALLOWED_TRANSITIONS
    BY DEF ALLOWED_TRANSITIONS
  <1>2. <<"CANDIDATE", "TESTED">> \in CandidateTransitions
    BY DEF CandidateTransitions
  <1> QED BY <1>1, <1>2, EndsAreStates DEF FirstState

\* A new record is a record, and sound.
LEMMA NewSound ==
    ASSUME NEW a \in Agent
    PROVE  New(a) \in Record /\ Sound(New(a)) /\ New(a).transitions = <<>>
  <1>1. New(a) \in Record
    BY FirstIsState DEF New, Record, Reviewer
  <1> QED BY <1>1 DEF New, Sound, IsPath

\* A permitted transition makes a sound record of a sound one, and goes on from it.
LEMMA TransitionedSound ==
    ASSUME NEW r \in Record, Sound(r), NEW to \in States, NEW v \in Reviewer,
           Permitted(r, to, v)
    PROVE  /\ Transitioned(r, to, v) \in Record
           /\ Sound(Transitioned(r, to, v))
           /\ GoesOnFrom(r, Transitioned(r, to, v))
  <1> DEFINE n == Transitioned(r, to, v)
             t == r.transitions
             step == <<r.state, to>>
  <1>1. /\ r.state \in States /\ r.proposer \in Agent /\ r.reviewer \in Reviewer
        /\ t \in Seq(States \X States) /\ r.approvers \in SUBSET Reviewer
    BY DEF Record
  <1>2. step \in States \X States
    BY <1>1
  <1>3. Append(t, step) \in Seq(States \X States)
    BY <1>1, <1>2
  <1>4. /\ n.state = to /\ n.transitions = Append(t, step) /\ n.proposer = r.proposer
        /\ n.approvers = r.approvers \cup {u \in {v} : to \in Gates}
        /\ n.reviewer \in Reviewer
    BY <1>1 DEF Transitioned, Record
  <1>5. n \in Record
    BY <1>1, <1>3 DEF Transitioned, Record
  <1>6. IsPath(n)
    <2>1. /\ step \in Graph
          /\ \A i \in DOMAIN t : t[i] \in Graph /\ t[i][1] = IF i = 1 THEN FirstState ELSE t[i - 1][2]
          /\ r.state = IF t = <<>> THEN FirstState ELSE t[Len(t)][2]
      BY DEF Permitted, Sound, IsPath
    <2> DEFINE u == n.transitions
    <2>2. /\ Len(u) = Len(t) + 1 /\ DOMAIN u = 1..(Len(t) + 1) /\ Len(t) \in Nat /\ DOMAIN t = 1..Len(t)
          /\ u[Len(t) + 1] = step /\ \A i \in 1..Len(t) : u[i] = t[i]
      BY <1>1, <1>2, <1>4
    <2>3. ASSUME NEW i \in DOMAIN u
          PROVE  u[i] \in Graph /\ u[i][1] = IF i = 1 THEN FirstState ELSE u[i - 1][2]
      <3>1. CASE i \in 1..Len(t)
        <4>1. u[i] = t[i] /\ i \in DOMAIN t
          BY <3>1, <2>2
        <4>2. i # 1 => u[i - 1] = t[i - 1]
          <5>1. i # 1 => i - 1 \in 1..Len(t)
            BY <3>1, <2>2
          <5> HIDE DEF u
          <5> QED BY <5>1, <2>2
        <4> QED BY <4>1, <4>2, <2>1
      <3>2. CASE i = Len(t) + 1 /\ Len(t) = 0
        BY <3>2, <2>1, <2>2, <1>1
      <3>3. CASE i = Len(t) + 1 /\ Len(t) > 0
        BY <3>3, <2>1, <2>2, <1>1
      <3> QED BY <2>2, <3>1, <3>2, <3>3
    <2>4. u # <<>> /\ u[Len(u)][2] = to
      BY <2>2
    <2> QED BY <2>3, <2>4, <1>4 DEF IsPath
  <1>7. store = "experiments" => n.proposer \notin n.approvers
    BY <1>4 DEF Permitted, SelfApproves, Sound
  <1> QED BY <1>4, <1>5, <1>6, <1>7 DEF Sound, GoesOnFrom

-----------------------------------------------------------------------------
(* The initial states. *)

\* Each step of the course is allowed.
LEMMA CourseAllowed ==
    /\ \A i \in 1..11 : Course[i] \in States
    /\ \A i \in 1..10 : <<Course[i], Course[i + 1]>> \in ALLOWED_TRANSITIONS
    /\ Course[1] = "OBSERVATION" /\ DOMAIN Course = 1..11
  <1>1. Course[1] = "OBSERVATION" /\ DOMAIN Course = 1..11
    BY DEF Course
  <1>2. ASSUME NEW i \in 1..10
        PROVE  <<Course[i], Course[i + 1]>> \in ALLOWED_TRANSITIONS
    <2>1. i \in {1, 2, 3, 4, 5, 6, 7, 8, 9, 10}
      BY <1>2
    <2> QED BY <2>1, Z3 DEF Course, ALLOWED_TRANSITIONS
  <1>3. ASSUME NEW i \in 1..11
        PROVE  Course[i] \in States
    <2>1. CASE i \in 1..10
      BY <2>1, <1>2, EndsAreStates
    <2>2. CASE i = 11
      <3>1. <<Course[10], Course[10 + 1]>> \in ALLOWED_TRANSITIONS
        BY <1>2
      <3>2. Course[10 + 1] \in States
        BY <3>1, EndsAreStates
      <3> QED BY <3>2, <2>2
    <2> QED BY <2>1, <2>2
  <1> QED BY <1>1, <1>2, <1>3

\* What earlier calls have left is a sound record.
LEMMA EarlierSound ==
    ASSUME store = "experiments", NEW n \in DOMAIN Course, NEW a \in Agent, NEW v \in Reviewer
    PROVE  Earlier(n, a, v) \in Record /\ Sound(Earlier(n, a, v))
  <1> DEFINE r == Earlier(n, a, v)
             t == [i \in 1..(n - 1) |-> <<Course[i], Course[i + 1]>>]
  <1>1. n \in 1..11
    BY CourseAllowed
  <1>2. /\ r.state = Course[n] /\ r.transitions = t /\ r.proposer = a /\ r.approvers = {}
    BY DEF Earlier
  <1>3. \A i \in 1..(n - 1) : t[i] \in States \X States
    BY <1>1, CourseAllowed
  <1>4. t \in Seq(States \X States)
    <2>1. t \in [1..(n - 1) -> States \X States] /\ n - 1 \in Nat
      BY <1>1, <1>3
    <2> HIDE DEF t
    <2> DEFINE m == n - 1
    <2>2. m \in Nat /\ t \in [1..m -> States \X States]
      BY <2>1
    <2> HIDE DEF m
    <2> QED BY <2>2
  <1>5. r \in Record
    BY <1>1, <1>4, CourseAllowed DEF Earlier, Record, Reviewer
  <1>6. IsPath(r)
    <2>1. DOMAIN t = 1..(n - 1) /\ Len(t) = n - 1 /\ Graph = ALLOWED_TRANSITIONS /\ FirstState = "OBSERVATION"
      BY <1>1, <1>4 DEF Graph, FirstState
    <2>2. ASSUME NEW i \in DOMAIN t
          PROVE  t[i] \in Graph /\ t[i][1] = IF i = 1 THEN FirstState ELSE t[i - 1][2]
      <3>1. i \in 1..10 /\ t[i] = <<Course[i], Course[i + 1]>>
        BY <2>1, <1>1
      <3>2. i # 1 => t[i - 1] = <<Course[i - 1], Course[i]>>
        BY <2>1, <1>1
      <3> HIDE DEF t
      <3>3. t[i][1] = Course[i] /\ (i # 1 => t[i - 1][2] = Course[i])
        BY <3>1, <3>2
      <3> QED BY <3>1, <3>3, <2>1, CourseAllowed
    <2>3. r.state = IF t = <<>> THEN FirstState ELSE t[Len(t)][2]
      <3>1. CASE n = 1
        BY <3>1, <2>1, <1>2, CourseAllowed
      <3>2. CASE n # 1
        <4>1. t # <<>> /\ t[n - 1] = <<Course[n - 1], Course[n]>>
          BY <3>2, <1>1, <2>1
        <4> HIDE DEF t
        <4> QED BY <4>1, <2>1, <1>2
      <3> QED BY <3>1, <3>2
    <2> QED BY <2>2, <2>3, <1>2 DEF IsPath
  <1> QED BY <1>2, <1>5, <1>6 DEF Sound

\* Every initial state satisfies the invariant.
LEMMA InitInv == Init => IndInv
  <1> SUFFICES ASSUME Init PROVE IndInv
    OBVIOUS
  <1> USE ResearchAssumption
  <1>1. /\ store \in Kept
        /\ \A p \in Process : proc[p] = Idle /\ ~Busy(p)
        /\ returned = file /\ overlapped = {} /\ cut = {} /\ created = [f \in File |-> 0]
        /\ DOMAIN file = File
    BY DEF Init, Kept, Busy
  <1>2. ASSUME NEW f \in File
        PROVE  \/ file[f] = NoFile
               \/ store = "experiments" /\ f \in Experiment /\ file[f] \in Record /\ Sound(file[f])
    <2>1. CASE file = [g \in File |-> NoFile]
      BY <2>1
    <2>2. CASE store = "experiments" /\ \E n \in DOMAIN Course, a \in Agent, v \in Reviewer :
                  file = [g \in File |-> IF g \in Experiment THEN Earlier(n, a, v) ELSE NoFile]
      BY <2>2, EarlierSound
    <2> QED BY <2>1, <2>2 DEF Init
  <1>3. file \in [File -> Record \cup {NoFile}]
    <2>1. file = [f \in File |-> file[f]]
      BY DEF Init
    <2> QED BY <2>1, <1>2
  <1>4. TypeOK
    BY <1>1, <1>3 DEF TypeOK, Init, Kept
  <1>5. FilesSound /\ RecordsSound /\ Coupled /\ OneCall /\ CallsSound
    BY <1>1, <1>2 DEF FilesSound, RecordsSound, Coupled, OneCall, CallsSound, Whole
  <1>9. TornKnown
    <2>1. \A f \in File : file[f] # Torn
      <3> SUFFICES ASSUME NEW f \in File PROVE file[f] # Torn
        OBVIOUS
      <3>0. NoFile # Torn
        BY DEF NoFile, Torn
      <3>1. CASE file[f] = NoFile
        BY <3>0, <3>1
      <3>2. CASE file[f] \in Record
        BY <3>2, RecordWhole
      <3> QED BY <1>2, <3>1, <3>2
    <2> QED BY <1>1, <2>1 DEF TornKnown
  <1>6. StoreKept
    BY <1>1, <1>2 DEF StoreKept, Own
  <1>7. Numbered
    <2>1. store = "candidates" => UsedUpTo(0)
      BY <1>1, <1>2 DEF UsedUpTo
    <2> QED BY <2>1 DEF Numbered
  <1>8. Fresh /\ NoneCreated /\ CandidateIdsUnique
    BY <1>1 DEF Fresh, NoneCreated, CandidateIdsUnique, File
  <1> QED BY <1>4, <1>5, <1>6, <1>7, <1>8, <1>9 DEF IndInv

-----------------------------------------------------------------------------
(* Steps. *)

\* A sound record stays sound: no step changes the store.
LEMMA SoundStable ==
    ASSUME store' = store
    PROVE  /\ \A r : Sound(r)' <=> Sound(r)
           /\ \A f : Own(f)' <=> Own(f)
  BY DEF Sound, IsPath, Graph, FirstState, Own

\* The number of files and one is the first id without a file.
LEMMA NextIdIsNext ==
    ASSUME ResearchAssumption, NEW k \in 0..MaxCandidates, UsedUpTo(k)
    PROVE  NextId = k + 1
  <1>1. {g \in File : file[g] # NoFile} = 1..k
    BY DEF UsedUpTo, File, ResearchAssumption
  <1>2. Cardinality(1..k) = k
    BY FS_Interval
  <1> QED BY <1>1, <1>2 DEF NextId

\* A call that begins, with a record that may be written.
LEMMA BeginStep ==
    ASSUME ResearchAssumption, IndInv,
           NEW p \in Process, NEW f \in File, NEW kind \in {"create", "transition"}, NEW r \in Record,
           Begin(p, f, kind, r),
           Sound(r), Own(f),
           kind = "create" => r.transitions = <<>>,
           kind = "transition" => Whole(file[f]) /\ GoesOnFrom(file[f], r),
           store = "candidates" /\ kind = "create" => file[f] = NoFile /\ f = NextId
    PROVE  IndInv'
  <1> DEFINE c == [at |-> "write", file |-> f, kind |-> kind, record |-> r]
  <1>1. /\ proc[p] = Idle /\ proc' = [proc EXCEPT ![p] = c]
        /\ calls < MaxCalls /\ calls' = calls + 1
        /\ store' = store /\ file' = file /\ returned' = returned /\ created' = created /\ faults' = faults
        /\ cut' = cut
        /\ overlapped' = overlapped \cup {g \in {f} : \E q \in Process : InCall(q, f)}
    BY DEF Begin
  <1>2. TypeOK
    BY DEF IndInv
  <1>3. c \in Pending /\ c # Idle
    <2>1. c \in Pending
      BY DEF Pending
    <2> QED BY <2>1, PendingBusy
  <1>4. /\ proc'[p] = c /\ \A q \in Process : q # p => proc'[q] = proc[q]
        /\ Busy(p)' /\ ~Busy(p) /\ \A q \in Process : q # p => (Busy(q)' <=> Busy(q))
    BY <1>1, <1>2, <1>3 DEF TypeOK, Busy
  <1>5. /\ overlapped \subseteq overlapped' /\ overlapped' \subseteq File
        /\ f \notin overlapped' => \A q \in Process : Busy(q) => proc[q].file # f
    <2>1. \A q \in Process : Busy(q) /\ proc[q].file = f => InCall(q, f)
      <3> SUFFICES ASSUME NEW q \in Process, Busy(q) PROVE proc[q].at # "idle"
        BY DEF InCall
      <3> QED BY <1>2, BusyPending DEF Pending
    <2> QED BY <1>1, <1>2, <2>1 DEF TypeOK
  <1> HIDE DEF c
  <1>6. TypeOK'
    <2>1. proc' \in [Process -> {Idle} \cup Pending]
      BY <1>1, <1>2, <1>3 DEF TypeOK, Pending
    <2>2. calls' \in 0..MaxCalls
      BY <1>1, <1>2 DEF TypeOK, ResearchAssumption
    <2> QED BY <1>1, <1>2, <1>5, <2>1, <2>2 DEF TypeOK, Pending
  <1>c. c.at = "write" /\ c.file = f /\ c.kind = kind /\ c.record = r
    BY DEF c
  <1>7. FilesSound' /\ Coupled'
    BY <1>1, SoundStable DEF IndInv, FilesSound, Coupled
  <1>8. RecordsSound'
    BY <1>1, <1>4, <1>c, SoundStable DEF IndInv, RecordsSound
  <1>9. StoreKept'
    BY <1>1, <1>4, <1>c, SoundStable DEF IndInv, StoreKept
  <1>10. OneCall'
    BY <1>4, <1>5, <1>c DEF IndInv, OneCall
  <1>11. CallsSound'
    <2> SUFFICES ASSUME NEW q \in Process, Busy(q)' PROVE CallSound(q)'
      BY DEF CallsSound
    <2>1. CASE q = p
      BY <2>1, <1>1, <1>4, <1>c DEF CallSound, IndInv, Coupled
    <2>2. CASE q # p
      BY <2>2, <1>1, <1>4, <1>5 DEF CallSound, IndInv, CallsSound
    <2> QED BY <2>1, <2>2
  <1>12. Numbered'
    <2> SUFFICES ASSUME store = "candidates" PROVE \E k \in 0..MaxCandidates : UsedUpTo(k)'
      BY <1>1 DEF Numbered
    <2>1. PICK k \in 0..MaxCandidates : UsedUpTo(k)
      BY DEF IndInv, Numbered
    <2>2. f \in 1..(k + 1)
      <3>1. CASE kind = "transition"
        BY <3>1, <2>1 DEF UsedUpTo, Whole
      <3>2. CASE kind = "create"
        <4>1. f = NextId
          BY <3>2
        <4> QED BY <4>1, <2>1, NextIdIsNext
      <3> QED BY <3>1, <3>2
    <2>3. UsedUpTo(k)'
      BY <2>1, <2>2, <1>1, <1>4, <1>c DEF UsedUpTo
    <2> QED BY <2>3
  <1>13. Fresh' /\ NoneCreated' /\ CandidateIdsUnique'
    <2>1. NoneCreated' /\ CandidateIdsUnique'
      BY <1>1, <1>5 DEF IndInv, NoneCreated, CandidateIdsUnique
    <2>2. Fresh'
      BY <1>1, <1>4, <1>5, <1>c DEF IndInv, Fresh
    <2> QED BY <2>1, <2>2
  <1>14. TornKnown'
    <2> SUFFICES ASSUME NEW g \in File, file[g] = Torn
                 PROVE  g \in overlapped' \/ g \in cut \/ InWrite(g)'
      BY <1>1 DEF IndInv, TornKnown
    <2>1. CASE g \in overlapped \/ g \in cut
      BY <2>1, <1>5
    <2>2. CASE InWrite(g)
      <3>1. PICK q \in Process : proc[q].at = "opened" /\ proc[q].file = g
        BY <2>2 DEF InWrite
      <3>2. q # p
        BY <1>1, <3>1 DEF Idle
      <3> QED BY <1>4, <3>1, <3>2 DEF InWrite
    <2> QED BY <2>1, <2>2 DEF IndInv, TornKnown
  <1> QED BY <1>6, <1>7, <1>8, <1>9, <1>10, <1>11, <1>12, <1>13, <1>14 DEF IndInv

\* ExperimentStore.create, also over an experiment that exists.
LEMMA CreateExperimentStep ==
    ASSUME ResearchAssumption, IndInv, NEW p \in Process, NEW e \in Experiment, NEW a \in Agent,
           CreateExperiment(p, e, a)
    PROVE  IndInv'
  <1>1. store = "experiments" /\ Begin(p, e, "create", New(a)) /\ e \in File /\ Own(e)
    BY DEF CreateExperiment, File, Own
  <1> QED BY <1>1, BeginStep, NewSound

\* SkillCandidateStore.create takes an id that has no file.
LEMMA CreateCandidateStep ==
    ASSUME ResearchAssumption, IndInv, NEW p \in Process, NEW a \in Agent, CreateCandidate(p, a)
    PROVE  IndInv'
  <1>1. store = "candidates" /\ NextId <= MaxCandidates /\ Begin(p, NextId, "create", New(a))
    BY DEF CreateCandidate
  <1>2. PICK k \in 0..MaxCandidates : UsedUpTo(k)
    BY <1>1 DEF IndInv, Numbered
  <1>5. NextId = k + 1
    BY <1>2, NextIdIsNext
  <1>6. NextId \in 1..MaxCandidates /\ NextId \in File /\ Own(NextId) /\ file[NextId] = NoFile
    BY <1>1, <1>2, <1>5 DEF File, Own, UsedUpTo, ResearchAssumption
  <1> QED BY <1>1, <1>6, BeginStep, NewSound

\* A transition is permitted by a sound record and makes a sound one.
LEMMA TransitionStep ==
    ASSUME ResearchAssumption, IndInv, NEW p \in Process, NEW f \in File, NEW to \in States, NEW v \in Reviewer,
           Transition(p, f, to, v)
    PROVE  IndInv'
  <1>1. /\ Whole(file[f]) /\ Permitted(file[f], to, v)
        /\ Begin(p, f, "transition", Transitioned(file[f], to, v))
    BY DEF Transition
  <1>2. file[f] \in Record /\ Sound(file[f]) /\ Own(f)
    BY <1>1 DEF IndInv, TypeOK, FilesSound, StoreKept, Whole
  <1> QED BY <1>1, <1>2, BeginStep, TransitionedSound

\* The file is emptied: the call goes on, no record is readable that was not before.
LEMMA OpenStep ==
    ASSUME ResearchAssumption, IndInv, NEW p \in Process, Open(p)
    PROVE  IndInv'
  <1> DEFINE f == proc[p].file
  <1>1. TypeOK /\ Busy(p) /\ proc[p] \in Pending
    <2>1. TypeOK /\ Busy(p)
      BY DEF IndInv, Open, Busy, Idle
    <2> QED BY <2>1, BusyPending
  <1>2. /\ file' = [file EXCEPT ![f] = Torn] /\ proc' = [proc EXCEPT ![p].at = "opened"]
        /\ store' = store /\ returned' = returned /\ created' = created /\ overlapped' = overlapped
        /\ cut' = cut /\ calls' = calls /\ faults' = faults
    BY DEF Open
  <1>3. f \in File /\ Own(f)
    BY <1>1 DEF Pending, IndInv, StoreKept
  <1>4. /\ file'[f] = Torn /\ \A g \in File : g # f => file'[g] = file[g]
        /\ NoFile # Torn /\ ~Whole(Torn)
    BY <1>1, <1>2, <1>3 DEF TypeOK, NoFile, Torn, Whole
  <1>5. /\ proc'[p] \in Pending /\ proc'[p].file = f /\ proc'[p].kind = proc[p].kind /\ proc'[p].record = proc[p].record
        /\ proc'[p].at = "opened"
        /\ \A q \in Process : q # p => proc'[q] = proc[q]
    BY <1>1, <1>2 DEF TypeOK, Pending
  <1>6. \A q \in Process : Busy(q)' <=> Busy(q)
    BY <1>1, <1>5, PendingBusy DEF Busy
  <1> HIDE DEF f
  <1>7. TypeOK'
    <2>1. proc' \in [Process -> {Idle} \cup Pending]
      BY <1>1, <1>2, <1>5 DEF TypeOK, Pending
    <2> QED BY <1>1, <1>2, <2>1 DEF TypeOK, Pending
  <1>8. FilesSound' /\ Coupled'
    BY <1>2, <1>4, SoundStable DEF IndInv, FilesSound, Coupled
  <1>9. RecordsSound' /\ OneCall'
    BY <1>2, <1>5, <1>6, SoundStable DEF IndInv, RecordsSound, OneCall, f
  <1>10. StoreKept'
    BY <1>2, <1>3, <1>4, <1>5, <1>6, SoundStable DEF IndInv, StoreKept
  <1>11. CallsSound'
    <2> SUFFICES ASSUME NEW q \in Process, Busy(q)' PROVE CallSound(q)'
      BY DEF CallsSound
    <2>1. Busy(q) /\ CallSound(q) /\ proc[q].file \in File
      BY <1>1, <1>6, BusyPending DEF IndInv, CallsSound, Pending
    <2>2. CASE q = p
      BY <2>1, <2>2, <1>2, <1>4, <1>5 DEF CallSound, f
    <2>3. CASE q # p
      BY <2>1, <2>3, <1>2, <1>4, <1>5 DEF CallSound
    <2> QED BY <2>2, <2>3
  <1>12. Numbered'
    <2> SUFFICES ASSUME store = "candidates" PROVE \E k \in 0..MaxCandidates : UsedUpTo(k)'
      BY <1>2 DEF Numbered
    <2>1. PICK k \in 0..MaxCandidates : UsedUpTo(k)
      BY DEF IndInv, Numbered
    <2>2. f \in 1..(k + 1) /\ f \in 1..MaxCandidates
      BY <2>1, <1>1, <1>3 DEF UsedUpTo, Own, f
    <2>3. CASE f \in 1..k
      <3>1. UsedUpTo(k)'
        BY <2>1, <2>3, <1>4, <1>5, <1>6 DEF UsedUpTo, f
      <3> QED BY <3>1
    <2>4. CASE f = k + 1
      <3>1. UsedUpTo(k + 1)' /\ k + 1 \in 0..MaxCandidates
        <4>1. \A g \in File : file'[g] # NoFile <=> g \in 1..(k + 1)
          <5> SUFFICES ASSUME NEW g \in File PROVE file'[g] # NoFile <=> g \in 1..(k + 1)
            OBVIOUS
          <5>1. g \in 1..(k + 1) <=> g \in 1..k \/ g = f
            BY <2>4
          <5> QED BY <5>1, <2>1, <1>4 DEF UsedUpTo
        <4>2. \A q \in Process : Busy(q)' => proc'[q].file \in 1..(k + 1 + 1)
          BY <2>1, <2>4, <1>5, <1>6 DEF UsedUpTo, f
        <4> QED BY <4>1, <4>2, <2>2, <2>4 DEF UsedUpTo
      <3> QED BY <3>1
    <2> QED BY <2>2, <2>3, <2>4
  <1>13. Fresh'
    BY <1>2, <1>4, <1>5, <1>6 DEF IndInv, Fresh, f
  <1>14. NoneCreated' /\ CandidateIdsUnique'
    BY <1>2 DEF IndInv, NoneCreated, CandidateIdsUnique
  <1>15. TornKnown'
    <2> SUFFICES ASSUME NEW g \in File
                 PROVE  /\ file'[g] = NoFile => returned[g] = NoFile
                        /\ file'[g] = Torn => g \in overlapped \/ g \in cut \/ InWrite(g)'
      BY <1>2 DEF TornKnown
    <2>1. CASE g = f
      BY <2>1, <1>4, <1>5 DEF InWrite
    <2>2. CASE g # f
      <3>1. InWrite(g) => InWrite(g)'
        BY <2>2, <1>5 DEF InWrite, f
      <3> QED BY <2>2, <3>1, <1>4 DEF IndInv, TornKnown
    <2> QED BY <2>1, <2>2
  <1> QED BY <1>7, <1>8, <1>9, <1>10, <1>11, <1>12, <1>13, <1>14, <1>15 DEF IndInv

\* What a Fill does, in the terms of the proof.
LEMMA FillShape ==
    ASSUME IndInv, NEW p \in Process, Fill(p)
    PROVE  LET f == proc[p].file r == proc[p].record
           IN  /\ Busy(p) /\ proc[p] \in Pending /\ f \in File /\ r \in Record /\ Own(f) /\ Sound(r) /\ CallSound(p)
               /\ file[f] # NoFile
               /\ file' \in [File -> Record \cup {NoFile, Torn}]
               /\ file'[f] \in {r, Torn} /\ file'[f] # NoFile /\ (Whole(file'[f]) => file'[f] = r)
               /\ file'[f] = r \/ f \in overlapped
               /\ \A g \in File : g # f => file'[g] = file[g]
               /\ returned' = [returned EXCEPT ![f] = r]
               /\ created' = IF proc[p].kind = "create" THEN [created EXCEPT ![f] = @ + 1] ELSE created
               /\ proc' = [proc EXCEPT ![p] = Idle] /\ cut' = cut \ {f}
               /\ UNCHANGED <<store, overlapped, calls, faults>>
  <1> DEFINE f == proc[p].file
             r == proc[p].record
  <1>1. TypeOK /\ Busy(p) /\ proc[p] \in Pending /\ proc[p].at = "opened"
    <2>1. TypeOK /\ Busy(p) /\ proc[p].at = "opened"
      BY DEF IndInv, Fill, Busy, Idle
    <2> QED BY <2>1, BusyPending
  <1>2. f \in File /\ r \in Record /\ Own(f) /\ Sound(r) /\ CallSound(p)
    BY <1>1 DEF Pending, IndInv, StoreKept, RecordsSound, CallsSound
  <1>3. file[f] # NoFile
    BY <1>1, <1>2 DEF CallSound
  <1>4. PICK x \in {r, Torn} : file' = [file EXCEPT ![f] = x] /\ (x = r \/ Whole(file[f]))
    BY DEF Fill
  <1>8. Whole(file[f]) => f \in overlapped
    BY <1>1, <1>2 DEF CallSound
  <1>5. r # NoFile /\ Torn # NoFile /\ ~Whole(Torn)
    BY <1>2, RecordWhole DEF Whole
  <1>6. file'[f] = x /\ \A g \in File : g # f => file'[g] = file[g]
    BY <1>1, <1>2, <1>4 DEF TypeOK
  <1>7. file' \in [File -> Record \cup {NoFile, Torn}]
    BY <1>1, <1>2, <1>4 DEF TypeOK
  <1> QED BY <1>1, <1>2, <1>3, <1>4, <1>5, <1>6, <1>7, <1>8 DEF Fill

\* The record is written and returned: the call is over.
LEMMA FillStep ==
    ASSUME ResearchAssumption, IndInv, NEW p \in Process, Fill(p)
    PROVE  IndInv'
  <1> DEFINE f == proc[p].file
             r == proc[p].record
  <1>1. /\ Busy(p) /\ proc[p] \in Pending /\ f \in File /\ r \in Record /\ Own(f) /\ Sound(r) /\ CallSound(p)
        /\ file[f] # NoFile
        /\ file' \in [File -> Record \cup {NoFile, Torn}]
        /\ file'[f] \in {r, Torn} /\ file'[f] # NoFile /\ (Whole(file'[f]) => file'[f] = r)
        /\ file'[f] = r \/ f \in overlapped
        /\ \A g \in File : g # f => file'[g] = file[g]
        /\ returned' = [returned EXCEPT ![f] = r]
        /\ created' = IF proc[p].kind = "create" THEN [created EXCEPT ![f] = @ + 1] ELSE created
        /\ proc' = [proc EXCEPT ![p] = Idle] /\ cut' = cut \ {f}
        /\ store' = store /\ overlapped' = overlapped /\ calls' = calls /\ faults' = faults
    BY FillShape
  <1>2. TypeOK
    BY DEF IndInv
  <1>3. /\ ~Busy(p)' /\ \A q \in Process : q # p => proc'[q] = proc[q] /\ (Busy(q)' <=> Busy(q))
        /\ \A q \in Process : Busy(q)' => Busy(q) /\ q # p /\ proc'[q] = proc[q] /\ proc[q].file \in File
    <2>1. ~Busy(p)' /\ \A q \in Process : q # p => proc'[q] = proc[q] /\ (Busy(q)' <=> Busy(q))
      BY <1>1, <1>2 DEF TypeOK, Busy
    <2> QED BY <2>1, <1>2, BusyPending DEF Pending
  <1>4. /\ returned'[f] = r /\ \A g \in File : g # f => returned'[g] = returned[g]
        /\ \A g \in File : g # f => created'[g] = created[g]
        /\ created'[f] = IF proc[p].kind = "create" THEN created[f] + 1 ELSE created[f]
    BY <1>1, <1>2 DEF TypeOK
  <1> HIDE DEF f, r
  <1>5. TypeOK'
    <2>1. created' \in [File -> Nat]
      BY <1>1, <1>2 DEF TypeOK
    <2>2. returned' \in [File -> Record \cup {NoFile}]
      BY <1>1, <1>2 DEF TypeOK
    <2>3. proc' \in [Process -> {Idle} \cup Pending]
      BY <1>1, <1>2 DEF TypeOK, Pending
    <2> QED BY <1>1, <1>2, <2>1, <2>2, <2>3 DEF TypeOK, Pending
  <1>6. FilesSound' /\ Coupled'
    BY <1>1, <1>4, SoundStable DEF IndInv, FilesSound, Coupled
  <1>7. RecordsSound' /\ OneCall'
    BY <1>1, <1>3, SoundStable DEF IndInv, RecordsSound, OneCall
  <1>8. StoreKept'
    BY <1>1, <1>3, SoundStable DEF IndInv, StoreKept
  <1>9. \A q \in Process : Busy(q)' /\ proc[q].file = f => f \in overlapped
    BY <1>1, <1>3 DEF IndInv, OneCall, f
  <1>10. CallsSound'
    <2> SUFFICES ASSUME NEW q \in Process, Busy(q)' PROVE CallSound(q)'
      BY DEF CallsSound
    <2>1. Busy(q) /\ CallSound(q) /\ proc[q].file \in File /\ proc'[q] = proc[q]
      BY <1>3 DEF IndInv, CallsSound
    <2>2. CASE proc[q].file = f
      BY <2>1, <2>2, <1>1, <1>9 DEF CallSound
    <2>3. CASE proc[q].file # f
      BY <2>1, <2>3, <1>1, <1>4 DEF CallSound
    <2> QED BY <2>2, <2>3
  <1>11. Numbered'
    <2> SUFFICES ASSUME store = "candidates" PROVE \E k \in 0..MaxCandidates : UsedUpTo(k)'
      BY <1>1 DEF Numbered
    <2>1. PICK k \in 0..MaxCandidates : UsedUpTo(k)
      BY DEF IndInv, Numbered
    <2>2. UsedUpTo(k)'
      BY <2>1, <1>1, <1>3 DEF UsedUpTo
    <2> QED BY <2>2
  <1>12. Fresh'
    <2> SUFFICES ASSUME store = "candidates" PROVE Fresh'
      BY <1>1 DEF Fresh
    <2>1. \A g \in File : file'[g] = NoFile => created'[g] = 0
      BY <1>1, <1>4 DEF IndInv, Fresh
    <2>2. ASSUME NEW q \in Process, Busy(q)', proc'[q].kind = "create", proc'[q].file \notin overlapped'
          PROVE  created'[proc'[q].file] = 0
      <3>1. proc[q].file # f
        BY <2>2, <1>1, <1>3, <1>9
      <3> QED BY <2>2, <3>1, <1>1, <1>3, <1>4 DEF IndInv, Fresh
    <2> QED BY <2>1, <2>2 DEF Fresh
  <1>13. NoneCreated'
    BY <1>1, <1>4 DEF IndInv, NoneCreated, Own, ResearchAssumption, File
  <1>14. CandidateIdsUnique'
    <2> SUFFICES ASSUME NEW d \in (1..MaxCandidates) \ overlapped PROVE created'[d] <= 1
      BY <1>1 DEF CandidateIdsUnique
    <2>1. created[d] <= 1 /\ d \in File
      BY DEF IndInv, CandidateIdsUnique, File
    <2>2. CASE d = f /\ proc[p].kind = "create"
      <3>1. store = "candidates"
        BY <2>2, <1>1, <1>2 DEF Own, TypeOK, ResearchAssumption
      <3>2. created[f] = 0
        BY <2>2, <3>1, <1>1 DEF IndInv, Fresh, f
      <3> QED BY <2>2, <3>2, <1>4
    <2>3. CASE ~(d = f /\ proc[p].kind = "create")
      BY <2>1, <2>3, <1>4
    <2> QED BY <2>2, <2>3
  <1>15. TornKnown'
    <2> SUFFICES ASSUME NEW g \in File
                 PROVE  /\ file'[g] = NoFile => returned'[g] = NoFile
                        /\ file'[g] = Torn => g \in overlapped \/ g \in cut' \/ InWrite(g)'
      BY <1>1 DEF TornKnown
    <2>1. CASE g = f
      BY <2>1, <1>1, RecordWhole
    <2>2. CASE g # f
      <3>1. InWrite(g) => InWrite(g)'
        BY <2>2, <1>3 DEF InWrite, f
      <3> QED BY <2>2, <3>1, <1>1, <1>4 DEF IndInv, TornKnown
    <2> QED BY <2>1, <2>2
  <1> QED BY <1>5, <1>6, <1>7, <1>8, <1>10, <1>11, <1>12, <1>13, <1>14, <1>15 DEF IndInv

\* A call that is given up leaves what it had done to the file.
LEMMA AbandonStep ==
    ASSUME ResearchAssumption, IndInv, NEW p \in Process, Abandon(p)
    PROVE  IndInv'
  <1>1. TypeOK
    BY DEF IndInv
  <1>2. /\ proc' = [proc EXCEPT ![p] = Idle] /\ faults < MaxFaults /\ faults' = faults + 1
        /\ store' = store /\ file' = file /\ returned' = returned /\ created' = created
        /\ overlapped' = overlapped /\ calls' = calls /\ cut' = NowCut(p)
        /\ Busy(p)
    BY DEF Abandon, Busy
  <1>3. /\ \A q \in Process : Busy(q)' => Busy(q) /\ q # p /\ proc'[q] = proc[q]
        /\ \A q \in Process : q # p => proc'[q] = proc[q]
    BY <1>1, <1>2 DEF TypeOK, Busy
  <1>9. cut \subseteq cut' /\ cut' \subseteq File /\ (proc[p].at = "opened" => proc[p].file \in cut')
    <2>1. proc[p].file \in File
      BY <1>1, <1>2, BusyPending DEF Pending
    <2> QED BY <1>1, <1>2, <2>1 DEF NowCut, TypeOK
  <1>4. TypeOK'
    <2>1. proc' \in [Process -> {Idle} \cup Pending] /\ faults' \in 0..MaxFaults
      BY <1>1, <1>2 DEF TypeOK, Pending, ResearchAssumption
    <2> QED BY <1>1, <1>2, <1>9, <2>1 DEF TypeOK, Pending
  <1>5. FilesSound' /\ Coupled' /\ RecordsSound' /\ OneCall' /\ StoreKept'
    BY <1>2, <1>3, SoundStable DEF IndInv, FilesSound, Coupled, RecordsSound, OneCall, StoreKept
  <1>6. CallsSound'
    BY <1>2, <1>3 DEF IndInv, CallsSound, CallSound
  <1>7. Numbered'
    BY <1>2, <1>3 DEF IndInv, Numbered, UsedUpTo
  <1>8. Fresh' /\ NoneCreated' /\ CandidateIdsUnique'
    BY <1>2, <1>3 DEF IndInv, Fresh, NoneCreated, CandidateIdsUnique
  <1>10. TornKnown'
    <2> SUFFICES ASSUME NEW g \in File, InWrite(g) PROVE g \in cut' \/ InWrite(g)'
      BY <1>2, <1>9 DEF IndInv, TornKnown
    <2>1. PICK q \in Process : proc[q].at = "opened" /\ proc[q].file = g
      BY DEF InWrite
    <2> QED BY <2>1, <1>3, <1>9 DEF InWrite
  <1> QED BY <1>4, <1>5, <1>6, <1>7, <1>8, <1>10 DEF IndInv

\* Nothing happens.
LEMMA StutterStep ==
    ASSUME IndInv, UNCHANGED vars
    PROVE  IndInv'
  <1>1. TypeOK' /\ StoreKept' /\ OneCall' /\ Coupled' /\ TornKnown'
    BY DEF IndInv, vars, TypeOK, StoreKept, Own, OneCall, Busy, Coupled, TornKnown, InWrite
  <1>2. FilesSound' /\ RecordsSound'
    BY SoundStable DEF IndInv, vars, FilesSound, RecordsSound, Busy
  <1>3. CallsSound' /\ Numbered'
    BY DEF IndInv, vars, CallsSound, CallSound, Numbered, UsedUpTo, Busy
  <1>4. Fresh' /\ NoneCreated' /\ CandidateIdsUnique'
    BY DEF IndInv, vars, Fresh, NoneCreated, CandidateIdsUnique, Busy
  <1> QED BY <1>1, <1>2, <1>3, <1>4 DEF IndInv

-----------------------------------------------------------------------------
(* The theorems. *)

\* Every step keeps the invariant.
LEMMA NextInv == ResearchAssumption /\ IndInv /\ [Next]_vars => IndInv'
  <1> SUFFICES ASSUME ResearchAssumption, IndInv, [Next]_vars PROVE IndInv'
    OBVIOUS
  <1>1. ASSUME NEW p \in Process, NEW e \in Experiment, NEW a \in Agent, CreateExperiment(p, e, a) PROVE IndInv'
    BY <1>1, CreateExperimentStep
  <1>2. ASSUME NEW p \in Process, NEW a \in Agent, CreateCandidate(p, a) PROVE IndInv'
    BY <1>2, CreateCandidateStep
  <1>3. ASSUME NEW p \in Process, NEW f \in File, NEW to \in States, NEW v \in Reviewer, Transition(p, f, to, v)
        PROVE  IndInv'
    BY <1>3, TransitionStep
  <1>4. ASSUME NEW p \in Process, Open(p) PROVE IndInv'
    BY <1>4, OpenStep
  <1>5. ASSUME NEW p \in Process, Fill(p) PROVE IndInv'
    BY <1>5, FillStep
  <1>6. ASSUME NEW p \in Process, Abandon(p) PROVE IndInv'
    BY <1>6, AbandonStep
  <1>7. CASE UNCHANGED vars
    BY <1>7, StutterStep
  <1> QED BY <1>1, <1>2, <1>3, <1>4, <1>5, <1>6, <1>7 DEF Next

\* The inductive invariant of the two stores.
THEOREM ResearchInvariant == Spec => []IndInv
  <1>1. Init => IndInv
    BY InitInv
  <1>2. IndInv /\ [Next]_vars => IndInv'
    BY NextInv, ResearchAssumption
  <1> QED BY <1>1, <1>2, PTL DEF Spec

\* The state of the stores keeps its shape.
THEOREM ResearchTypeOK == Spec => []TypeOK
  <1>1. IndInv => TypeOK
    BY DEF IndInv
  <1> QED BY <1>1, ResearchInvariant, PTL

\* However load, check and write of several processes interleave with crashes, a record that
\* loads tells a path of its lifecycle that ends in the state it claims.
THEOREM ResearchHistoryIsPath == Spec => []HistoryIsPath
  <1>1. IndInv => HistoryIsPath
    BY DEF IndInv, FilesSound, Sound, HistoryIsPath
  <1> QED BY <1>1, ResearchInvariant, PTL

\* Two proposals get the same candidate id only if their calls overlapped.
THEOREM ResearchCandidateIdsUnique == Spec => []CandidateIdsUnique
  <1>1. IndInv => CandidateIdsUnique
    BY DEF IndInv
  <1> QED BY <1>1, ResearchInvariant, PTL

\* The states with one way in.
LEMMA OnlyWay ==
    ASSUME NEW u \in ALLOWED_TRANSITIONS
    PROVE  /\ u[2] = "BACKTEST_RUNNING" => u[1] = "DATA_VALIDATED"
           /\ u[2] = "RESULT_REVIEW" => u[1] = "BACKTEST_RUNNING"
           /\ u[2] = "APPROVED_CANDIDATE" => u[1] = "RESULT_REVIEW"
           /\ u[2] = "ISOLATED_PATCH" => u[1] = "APPROVED_CANDIDATE"
           /\ u[2] = "REGRESSION_TEST" => u[1] = "ISOLATED_PATCH"
           /\ u[2] = "SECURITY_REVIEW" => u[1] = "REGRESSION_TEST"
           /\ u[2] = "RELEASE_PROPOSAL" => u[1] = "SECURITY_REVIEW"
           /\ u[2] = "HUMAN_RELEASE_GATE" => u[1] = "RELEASE_PROPOSAL"
           /\ u[2] = "RELEASED" => u[1] = "HUMAN_RELEASE_GATE"
  BY DEF ALLOWED_TRANSITIONS

\* A path that leaves a state other than the first has entered it in the step before.
LEMMA OneBack ==
    ASSUME store = "experiments", NEW r \in Record, IsPath(r), NEW k \in DOMAIN r.transitions
    PROVE  LET t == r.transitions
           IN  /\ t[k] \in ALLOWED_TRANSITIONS
               /\ t[k][1] # "OBSERVATION" => k - 1 \in DOMAIN t /\ k - 1 < k /\ t[k - 1][2] = t[k][1]
  <1> DEFINE t == r.transitions
  <1>1. t \in Seq(States \X States)
    BY DEF Record
  <1>2. t[k] \in ALLOWED_TRANSITIONS /\ t[k][1] = IF k = 1 THEN "OBSERVATION" ELSE t[k - 1][2]
    BY DEF IsPath, Graph, FirstState
  <1> QED BY <1>1, <1>2

\* The steps of a release come in their order.
LEMMA StepsInOrder ==
    ASSUME store = "experiments", NEW r \in Record, IsPath(r), NEW k \in DOMAIN r.transitions,
           NEW i \in 1..6, r.transitions[k][2] = ReleaseSteps[i + 1]
    PROVE  \E j \in 1..(k - 1) : r.transitions[j][2] = ReleaseSteps[i]
  <1> DEFINE t == r.transitions
             Back(d, s) == k - d \in DOMAIN t /\ t[k - d][2] = s
  <1>1. t \in Seq(States \X States) /\ DOMAIN t = 1..Len(t) /\ Len(t) \in Nat
    BY DEF Record
  <1>2. i \in {1, 2, 3, 4, 5, 6}
    OBVIOUS
  <1>3. ASSUME NEW d \in 0..2, NEW s, NEW q, Back(d, s), q # "OBSERVATION",
               \A u \in ALLOWED_TRANSITIONS : u[2] = s => u[1] = q
        PROVE  Back(d + 1, q)
    <2>1. t[k - d] \in ALLOWED_TRANSITIONS /\ t[k - d][1] = q
      BY <1>3, OneBack
    <2>2. (k - d) - 1 \in DOMAIN t /\ t[(k - d) - 1][2] = q
      BY <1>3, <2>1, OneBack
    <2>3. (k - d) - 1 = k - (d + 1)
      BY <1>1
    <2> QED BY <2>2, <2>3
  <1>4. ASSUME NEW s, Back(1, s) \/ Back(2, s) \/ Back(3, s)
        PROVE  \E j \in 1..(k - 1) : t[j][2] = s
    <2>1. CASE Back(1, s)
      <3>1. k - 1 \in 1..(k - 1) /\ t[k - 1][2] = s
        BY <1>1, <2>1
      <3> QED BY <3>1
    <2>2. CASE Back(2, s)
      <3>1. k - 2 \in 1..(k - 1) /\ t[k - 2][2] = s
        BY <1>1, <2>2
      <3> QED BY <3>1
    <2>3. CASE Back(3, s)
      <3>1. k - 3 \in 1..(k - 1) /\ t[k - 3][2] = s
        BY <1>1, <2>3
      <3> QED BY <3>1
    <2> QED BY <1>4, <2>1, <2>2, <2>3
  <1>5. Back(0, ReleaseSteps[i + 1])
    BY <1>1
  <1> HIDE DEF Back
  <1>6. CASE i \in {1, 2, 4, 6}
    <2>1. Back(1, ReleaseSteps[i])
      BY <1>3, <1>5, <1>6, OnlyWay DEF ReleaseSteps
    <2> QED BY <2>1, <1>4
  <1>7. CASE i = 3
    <2>1. Back(0, "REGRESSION_TEST") /\ ReleaseSteps[i] = "RESULT_REVIEW"
      BY <1>5, <1>7 DEF ReleaseSteps
    <2>2. Back(1, "ISOLATED_PATCH")
      BY <2>1, <1>3, OnlyWay
    <2>3. Back(2, "APPROVED_CANDIDATE")
      BY <2>2, <1>3, OnlyWay
    <2>4. Back(3, "RESULT_REVIEW")
      BY <2>3, <1>3, OnlyWay
    <2> QED BY <2>1, <2>4, <1>4
  <1>8. CASE i = 5
    <2>1. Back(0, "HUMAN_RELEASE_GATE") /\ ReleaseSteps[i] = "SECURITY_REVIEW"
      BY <1>5, <1>8 DEF ReleaseSteps
    <2>2. Back(1, "RELEASE_PROPOSAL")
      BY <2>1, <1>3, OnlyWay
    <2>3. Back(2, "SECURITY_REVIEW")
      BY <2>2, <1>3, OnlyWay
    <2> QED BY <2>1, <2>3, <1>4
  <1> QED BY <1>2, <1>6, <1>7, <1>8

\* No interleaving and no crash lets an experiment be released that skipped a step of the
\* lifecycle or whose proposer is named as an approver.
THEOREM ResearchReleaseGated == Spec => []ReleaseGated
  <1>1. ResearchAssumption /\ IndInv => ReleaseGated
    <2> SUFFICES ASSUME ResearchAssumption, IndInv, NEW e \in Experiment,
                        Whole(file[e]), file[e].state = "RELEASED"
                 PROVE  LET t == file[e].transitions
                        IN /\ \A i \in 1..6, k \in DOMAIN t :
                                 t[k][2] = ReleaseSteps[i + 1] => \E j \in 1..(k - 1) : t[j][2] = ReleaseSteps[i]
                           /\ \E k \in DOMAIN t : t[k][2] = "RELEASED"
                           /\ file[e].proposer \notin file[e].approvers
      <3>1. Len(ReleaseSteps) - 1 = 6
        BY DEF ReleaseSteps
      <3> QED BY <3>1 DEF ReleaseGated
    <2> DEFINE r == file[e]
    <2>1. e \in File /\ e \notin 1..MaxCandidates
      BY DEF File, ResearchAssumption
    <2>2. r \in Record /\ Sound(r) /\ r # NoFile
      BY <2>1 DEF IndInv, TypeOK, FilesSound, Whole
    <2>3. store = "experiments"
      BY <2>1, <2>2 DEF IndInv, StoreKept, Own
    <2>4. IsPath(r) /\ r.proposer \notin r.approvers
      BY <2>2, <2>3 DEF Sound
    <2>5. r.transitions \in Seq(States \X States)
      BY <2>2 DEF Record
    <2>6. r.transitions # <<>> /\ r.transitions[Len(r.transitions)][2] = "RELEASED"
      BY <2>3, <2>4 DEF IsPath, FirstState
    <2>7. Len(r.transitions) \in DOMAIN r.transitions
      BY <2>5, <2>6
    <2> HIDE DEF r
    <2>8. \A i \in 1..6, k \in DOMAIN r.transitions :
             r.transitions[k][2] = ReleaseSteps[i + 1] => \E j \in 1..(k - 1) : r.transitions[j][2] = ReleaseSteps[i]
      BY <2>2, <2>3, <2>4, StepsInOrder
    <2> QED BY <2>4, <2>6, <2>7, <2>8 DEF r
  <1>2. IndInv => ReleaseGated
    BY <1>1, ResearchAssumption
  <1> QED BY <1>2, ResearchInvariant, PTL

\* The file of a record has what was acknowledged last, or is torn in one of the two ways.
LEMMA RecordOnDisk == ASSUME IndInv', NEW f \in File \ overlapped' PROVE OnDisk(f)'
  <1>1. CASE Whole(file'[f])
    BY <1>1 DEF IndInv, Coupled, OnDisk
  <1>2. CASE ~Whole(file'[f])
    BY <1>2 DEF IndInv, TornKnown, OnDisk, Whole
  <1> QED BY <1>1, <1>2

\* What is acknowledged goes on from what was acknowledged before.
LEMMA KeptStep ==
    ASSUME IndInv, [Next]_vars, NEW f \in File \ overlapped,
           returned'[f] # returned[f], returned'[f].transitions # <<>>
    PROVE  GoesOnFrom(returned[f], returned'[f])
  <1>1. ASSUME returned' = returned PROVE FALSE
    BY <1>1
  <1>2. PICK p \in Process : Fill(p)
    BY <1>1 DEF Next, vars, CreateExperiment, CreateCandidate, Transition, Begin, Open, Abandon
  <1>3. /\ proc[p] \in Pending /\ CallSound(p)
        /\ returned' = [returned EXCEPT ![proc[p].file] = proc[p].record] /\ DOMAIN returned = File
    BY <1>2, FillShape DEF IndInv, TypeOK
  <1>4. proc[p].file = f /\ returned'[f] = proc[p].record
    BY <1>3
  <1>5. proc[p].kind = "transition"
    BY <1>3, <1>4 DEF CallSound, Pending
  <1> QED BY <1>3, <1>4, <1>5 DEF CallSound

\* As long as no two calls on a record overlapped, each acknowledged transition goes on from
\* the one before, and the file has the last one or was left torn by the call that emptied it.
THEOREM ResearchAcknowledgedKept == Spec => AcknowledgedKept
  <1>1. IndInv /\ IndInv' /\ [Next]_vars =>
          [\A f \in File \ overlapped' :
              /\ OnDisk(f)'
              /\ returned'[f] # returned[f] /\ returned'[f].transitions # <<>>
                   => GoesOnFrom(returned[f], returned'[f])]_vars
    <2> SUFFICES ASSUME IndInv, IndInv', [Next]_vars, NEW f \in File \ overlapped'
                 PROVE  /\ OnDisk(f)'
                        /\ returned'[f] # returned[f] /\ returned'[f].transitions # <<>>
                             => GoesOnFrom(returned[f], returned'[f])
      OBVIOUS
    <2>1. OnDisk(f)'
      BY RecordOnDisk
    <2>2. overlapped \subseteq overlapped'
      BY DEF Next, vars, CreateExperiment, CreateCandidate, Transition, Begin, Open, Fill, Abandon
    <2> QED BY <2>1, <2>2, KeptStep
  <1> QED BY <1>1, ResearchInvariant, PTL DEF Spec, AcknowledgedKept
=============================================================================
