-------------------------- MODULE MCAgentRegistry --------------------------
(* Three agents and some histories of their definitions, for TLC. *)
EXTENDS AgentRegistry, TLC

MCAgentIds == <<"main", "analyst", "coder">>
MCChain == <<"main">>

Sound ==
    [main    |-> [id |-> "main", runtime |-> "main", types |-> {"answer"}, allowed |-> {"plan work"}, forbidden |-> {"approve own work"},
                  down |-> {"analyst", "coder"}, links |-> {"main"}, reviewers |-> <<"main">>, gate |-> TRUE,
                  selfApproval |-> FALSE, may |-> {}, inputs |-> {}],
     analyst |-> [id |-> "analyst", runtime |-> "analyst", types |-> {"code_review"}, allowed |-> {"audit code"},
                  forbidden |-> {"approve own work"}, down |-> {"main"}, links |-> {"main"}, reviewers |-> <<"main">>,
                  gate |-> FALSE, selfApproval |-> FALSE, may |-> {}, inputs |-> {}],
     coder   |-> [id |-> "coder", runtime |-> "coder", types |-> {"patch", "code_review"}, allowed |-> {"audit code", "patch code"},
                  forbidden |-> {"approve own work"}, down |-> {"main"}, links |-> {"main"}, reviewers |-> MCChain,
                  gate |-> TRUE, selfApproval |-> FALSE, may |-> {"modify"}, inputs |-> {"scope"}]]

MCOccurs == {<<"audit", "audit code">>, <<"patch", "patch code">>, <<"approve", "approve own work">>}

A == Sound.analyst
C == Sound.coder
M == Sound.main
Course(m, a, c) == [main |-> <<M>> \o m, analyst |-> <<A>> \o a, coder |-> <<C>> \o c]

MCHistories ==
    {Course(<<[M EXCEPT !.down = {"analyst"}]>>, <<[A EXCEPT !.reviewers = <<"coder", "main">>, !.gate = TRUE]>>, <<>>),
     Course(<<[M EXCEPT !.down = @ \cup {"main"}, !.types = @ \cup {"patch"}]>>, <<>>, <<>>),
     Course(<<[M EXCEPT !.down = {"coder"}]>>, <<C>>, <<>>),
     Course(<<>>, <<[A EXCEPT !.selfApproval = TRUE]>>, <<>>),
     Course(<<>>, <<>>, <<[C EXCEPT !.id = "builder"], [C EXCEPT !.allowed = {"approve own work"}]>>),
     Course(<<>>, <<Malformed, [A EXCEPT !.forbidden = {"audit code", "approve own work"}]>>, <<>>),
     Course(<<>>, <<[A EXCEPT !.reviewers = <<"analyst">>]>>, <<[C EXCEPT !.reviewers = <<"analyst">>]>>)}

MCTasks ==
    {[agent |-> "analyst", type |-> "code_review", action |-> "audit", inputs |-> {}],
     [agent |-> "coder", type |-> "patch", action |-> "patch", inputs |-> {"scope"}]}
MCQueryTask == [agent |-> "analyst", type |-> "code_review", action |-> "audit", inputs |-> {}]

\* ReadyCoherent speaks of files that never go back to an earlier text.
ASSUME MCTextsDistinct == TextsDistinct

Symmetry == Permutations(Process)
=============================================================================
