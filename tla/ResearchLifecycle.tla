------------------------- MODULE ResearchLifecycle -------------------------
(***************************************************************************)
(* The two stores of the research loop: ExperimentStore                    *)
(* (research/experiment.py) and SkillCandidateStore (persistence).  Each   *)
(* keeps one JSON file for each record; a transition loads the file,       *)
(* checks, and writes it with write_text, which first empties it.  No lock *)
(* is held: several processes may be in calls on one file.                 *)
(*                                                                         *)
(* The stores share no file, so a behaviour follows one of them (store).   *)
(* Of a record the model keeps what the checks and the properties look at. *)
(***************************************************************************)
EXTENDS Naturals, Sequences, FiniteSets

CONSTANTS Process,        \* processes that use a store
          Agent,          \* agents that propose and review
          NoReviewer,     \* reviewer=None
          Experiment,     \* ids of experiments; callers choose them
          MaxCandidates,  \* bound: candidate files
          MaxCalls,       \* bound: calls
          MaxFaults       \* bound: crashes and write errors

Reviewer == Agent \cup {NoReviewer}

ASSUME ResearchAssumption ==
    /\ NoReviewer \notin Agent
    /\ MaxCandidates \in Nat /\ MaxCalls \in Nat /\ MaxFaults \in Nat
    /\ Experiment \cap (1..MaxCandidates) = {}

VARIABLES store,       \* the store this behaviour follows
          file,        \* [File -> contents of the record's file]
          proc,        \* [Process -> the call the process is in]
          returned,    \* [File -> the record the last successful call returned]
          created,     \* history: how often create returned this id
          overlapped,  \* history: files that two calls were in at once
          cut,         \* history: files that the last call to empty them did not fill
          calls, faults

vars == <<store, file, proc, returned, created, overlapped, cut, calls, faults>>

File == Experiment \cup (1..MaxCandidates)
-----------------------------------------------------------------------------
(* The two lifecycles.                                                     *)

TERMINAL_STATES == {"REJECTED", "RELEASED", "ROLLED_BACK"}

ALLOWED_TRANSITIONS ==
    LET forward == {<<"OBSERVATION", "HYPOTHESIS">>, <<"HYPOTHESIS", "EXPERIMENT_DESIGNED">>,
                    <<"EXPERIMENT_DESIGNED", "DATA_VALIDATED">>, <<"DATA_VALIDATED", "BACKTEST_RUNNING">>,
                    <<"BACKTEST_RUNNING", "RESULT_REVIEW">>, <<"RESULT_REVIEW", "NEEDS_MORE_DATA">>,
                    <<"NEEDS_MORE_DATA", "DATA_VALIDATED">>, <<"RESULT_REVIEW", "APPROVED_CANDIDATE">>,
                    <<"APPROVED_CANDIDATE", "ISOLATED_PATCH">>, <<"ISOLATED_PATCH", "REGRESSION_TEST">>,
                    <<"REGRESSION_TEST", "SECURITY_REVIEW">>, <<"SECURITY_REVIEW", "RELEASE_PROPOSAL">>,
                    <<"RELEASE_PROPOSAL", "HUMAN_RELEASE_GATE">>, <<"HUMAN_RELEASE_GATE", "RELEASED">>}
    IN forward \cup {<<t[1], "REJECTED">> : t \in forward} \cup {<<"RELEASED", "ROLLED_BACK">>}

CandidateTransitions ==
    {<<"CANDIDATE", "TESTED">>, <<"CANDIDATE", "REJECTED">>, <<"TESTED", "APPROVED">>, <<"TESTED", "REJECTED">>,
     <<"APPROVED", "RELEASED">>, <<"APPROVED", "REJECTED">>, <<"RELEASED", "ROLLED_BACK">>}

Graph == IF store = "experiments" THEN ALLOWED_TRANSITIONS ELSE CandidateTransitions
FirstState == IF store = "experiments" THEN "OBSERVATION" ELSE "CANDIDATE"
States == UNION {{t[1], t[2]} : t \in ALLOWED_TRANSITIONS \cup CandidateTransitions}
Gates == {"HUMAN_RELEASE_GATE", "RELEASED"}

(* A record as its file has it.  transitions is the list of the same name  *)
(* of an experiment (for a candidate, whose file has none, a history       *)
(* value); approvers are the reviewers named in its transitions into Gates.*)
Record == [state: States, proposer: Agent, reviewer: Reviewer,
           transitions: Seq(States \X States), approvers: SUBSET Reviewer]
NoFile == [state |-> "no file"]
Torn   == [state |-> "torn"]    \* emptied, or a mixture of two texts: json.loads raises
Whole(r) == r \notin {NoFile, Torn}

Idle == [at |-> "idle"]
InCall(p, f) == proc[p].at # "idle" /\ proc[p].file = f

New(a) == [state |-> FirstState, proposer |-> a, reviewer |-> NoReviewer, transitions |-> <<>>, approvers |-> {}]

(* An experiment that earlier calls, one at a time, have brought some way  *)
(* towards the gate.                                                       *)
Course == <<"OBSERVATION", "HYPOTHESIS", "EXPERIMENT_DESIGNED", "DATA_VALIDATED", "BACKTEST_RUNNING", "RESULT_REVIEW",
            "APPROVED_CANDIDATE", "ISOLATED_PATCH", "REGRESSION_TEST", "SECURITY_REVIEW", "RELEASE_PROPOSAL">>
Earlier(n, a, v) ==
    [state |-> Course[n], proposer |-> a, reviewer |-> v, approvers |-> {},
     transitions |-> [i \in 1..(n - 1) |-> <<Course[i], Course[i + 1]>>]]

Init ==
    /\ store \in {"experiments", "candidates"}
    /\ \/ file = [f \in File |-> NoFile]
       \/ /\ store = "experiments"
          /\ \E n \in DOMAIN Course, a \in Agent, v \in Reviewer :
                file = [f \in File |-> IF f \in Experiment THEN Earlier(n, a, v) ELSE NoFile]
    /\ proc = [p \in Process |-> Idle]
    /\ returned = file
    /\ created = [f \in File |-> 0]
    /\ overlapped = {} /\ cut = {}
    /\ calls = 0 /\ faults = 0
-----------------------------------------------------------------------------
(* Begin(p, f, kind, r): process p has decided to write r to f.            *)
Begin(p, f, kind, r) ==
    /\ proc[p] = Idle
    /\ calls < MaxCalls
    /\ calls' = calls + 1
    /\ proc' = [proc EXCEPT ![p] = [at |-> "write", file |-> f, kind |-> kind, record |-> r]]
    /\ overlapped' = overlapped \cup {g \in {f} : \E q \in Process : InCall(q, f)}
    /\ UNCHANGED <<store, file, returned, created, cut, faults>>

(* ExperimentStore.create does not look whether the id is in use.          *)
CreateExperiment(p, e, a) ==
    /\ store = "experiments"
    /\ Begin(p, e, "create", New(a))

(* SkillCandidateStore.create numbers the candidate by counting files.     *)
\* Faulty: counts the candidates that load.
NextIdLoadable == Cardinality({f \in File : Whole(file[f])}) + 1
NextId == Cardinality({f \in File : file[f] # NoFile}) + 1

CreateCandidate(p, a) ==
    /\ store = "candidates"
    /\ NextId <= MaxCandidates
    /\ Begin(p, NextId, "create", New(a))

(* The checks of the two transition methods.                               *)
\* Faulty: nobody compares the reviewer with the proposer.
SelfApprovesNever(r, to, reviewer) == FALSE
SelfApproves(r, to, reviewer) ==
    store = "experiments" /\ to \in Gates /\ reviewer = r.proposer

Permitted(r, to, reviewer) ==
    /\ store = "experiments" => r.state \notin TERMINAL_STATES
    /\ <<r.state, to>> \in Graph
    /\ ~SelfApproves(r, to, reviewer)

\* Faulty: the state is set and the transition is appended with the state it leads to.
TransitionedSwapped(r, to, reviewer) ==
    [r EXCEPT !.state = to, !.transitions = Append(@, <<to, r.state>>)]
Transitioned(r, to, reviewer) ==
    [r EXCEPT !.state = to,
              !.transitions = Append(@, <<r.state, to>>),
              !.reviewer = IF reviewer = NoReviewer THEN @ ELSE reviewer,
              !.approvers = @ \cup {v \in {reviewer} : to \in Gates}]

(* A transition that is not permitted, or that meets a file it cannot      *)
(* read, raises and changes nothing.                                       *)
Transition(p, f, to, reviewer) ==
    /\ Whole(file[f])
    /\ Permitted(file[f], to, reviewer)
    /\ Begin(p, f, "transition", Transitioned(file[f], to, reviewer))

(* write_text: open empties the file, the text follows when it is closed.  *)
Open(p) ==
    /\ proc[p].at = "write"
    /\ file' = [file EXCEPT ![proc[p].file] = Torn]
    /\ proc' = [proc EXCEPT ![p].at = "opened"]
    /\ UNCHANGED <<store, returned, created, overlapped, cut, calls, faults>>

(* Texts start at the beginning of the file.  Over another text that came  *)
(* after the open, a shorter one leaves a mixture.                         *)
Fill(p) ==
    LET f == proc[p].file r == proc[p].record
    IN /\ proc[p].at = "opened"
       /\ \E c \in {r} \cup (IF Whole(file[f]) THEN {Torn} ELSE {}) : file' = [file EXCEPT ![f] = c]
       /\ returned' = [returned EXCEPT ![f] = r]
       /\ created' = IF proc[p].kind = "create" THEN [created EXCEPT ![f] = @ + 1] ELSE created
       /\ cut' = cut \ {f}
       /\ proc' = [proc EXCEPT ![p] = Idle]
       /\ UNCHANGED <<store, overlapped, calls, faults>>

(* The process dies inside the call, or the write raises, before or after  *)
(* the file is emptied.                                                    *)
NowCut(p) == cut \cup {f \in {proc[p].file} : proc[p].at = "opened"}

\* Faulty: the error is swallowed and the call returns the record.
AbandonSwallowed(p) ==
    /\ proc[p] # Idle
    /\ faults < MaxFaults /\ faults' = faults + 1
    /\ returned' = [returned EXCEPT ![proc[p].file] = proc[p].record]
    /\ cut' = NowCut(p)
    /\ proc' = [proc EXCEPT ![p] = Idle]
    /\ UNCHANGED <<store, file, created, overlapped, calls>>
Abandon(p) ==
    /\ proc[p] # Idle
    /\ faults < MaxFaults /\ faults' = faults + 1
    /\ cut' = NowCut(p)
    /\ proc' = [proc EXCEPT ![p] = Idle]
    /\ UNCHANGED <<store, file, returned, created, overlapped, calls>>

Next ==
    \E p \in Process :
        \/ \E e \in Experiment, a \in Agent : CreateExperiment(p, e, a)
        \/ \E a \in Agent : CreateCandidate(p, a)
        \/ \E f \in File, to \in States, v \in Reviewer : Transition(p, f, to, v)
        \/ Open(p)
        \/ Fill(p)
        \/ Abandon(p)

Spec == Init /\ [][Next]_vars
-----------------------------------------------------------------------------
(* The state keeps its shape.                                              *)
TypeOK ==
    /\ store \in {"experiments", "candidates"}
    /\ file \in [File -> Record \cup {NoFile, Torn}]
    /\ proc \in [Process -> {Idle} \cup [at: {"write", "opened"}, file: File, kind: {"create", "transition"}, record: Record]]
    /\ returned \in [File -> Record \cup {NoFile}]
    /\ created \in [File -> Nat]
    /\ overlapped \subseteq File /\ cut \subseteq File
    /\ calls \in 0..MaxCalls /\ faults \in 0..MaxFaults

(* However many processes load, check and rewrite a record at once, and    *)
(* whatever crashes, a record that loads tells a true story: its           *)
(* transitions lead from the first state along the allowed graph to the    *)
(* state it claims.                                                        *)
IsPath(r) ==
    LET t == r.transitions
    IN /\ \A i \in DOMAIN t : t[i] \in Graph /\ t[i][1] = IF i = 1 THEN FirstState ELSE t[i - 1][2]
       /\ r.state = IF t = <<>> THEN FirstState ELSE t[Len(t)][2]
HistoryIsPath == \A f \in File : Whole(file[f]) => IsPath(file[f])

(* An experiment that is RELEASED has been through data validation, a      *)
(* backtest, its review, the regression test, the security review and the  *)
(* human gate, in this order, and no approval at the gate or of the        *)
(* release names its proposer.                                             *)
ReleaseSteps == <<"DATA_VALIDATED", "BACKTEST_RUNNING", "RESULT_REVIEW", "REGRESSION_TEST",
                  "SECURITY_REVIEW", "HUMAN_RELEASE_GATE", "RELEASED">>
ReleaseGated ==
    \A e \in Experiment :
        Whole(file[e]) /\ file[e].state = "RELEASED" =>
            LET t == file[e].transitions
            IN /\ \A i \in 1..(Len(ReleaseSteps) - 1), k \in DOMAIN t :
                     t[k][2] = ReleaseSteps[i + 1] => \E j \in 1..(k - 1) : t[j][2] = ReleaseSteps[i]
               /\ \E k \in DOMAIN t : t[k][2] = "RELEASED"
               /\ file[e].proposer \notin file[e].approvers

(* As long as no two calls on a record overlapped, each transition that is *)
(* acknowledged goes on from the record acknowledged before, and the file  *)
(* has that record, unless a call is between emptying the file and filling *)
(* it or the last one failed there.  So a crash before the file is emptied *)
(* loses nothing, and one in between the whole record with everything that *)
(* was acknowledged.  (A create starts the record anew.)                   *)
GoesOnFrom(old, new) ==
    /\ new.transitions = Append(old.transitions, <<old.state, new.state>>)
    /\ new.proposer = old.proposer
InWrite(f) == \E p \in Process : proc[p].at = "opened" /\ proc[p].file = f
OnDisk(f) == file[f] = returned[f] \/ (file[f] = Torn /\ (f \in cut \/ InWrite(f)))
AcknowledgedKept ==
    [][\A f \in File \ overlapped' :
          /\ OnDisk(f)'
          /\ returned'[f] # returned[f] /\ returned'[f].transitions # <<>>
               => GoesOnFrom(returned[f], returned'[f])]_vars

(* Two proposals never get the same candidate id, whatever crashes, unless *)
(* their calls overlapped.                                                 *)
CandidateIdsUnique ==
    \A c \in (1..MaxCandidates) \ overlapped : created[c] <= 1
=============================================================================
