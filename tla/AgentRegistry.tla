--------------------------- MODULE AgentRegistry ---------------------------
(***************************************************************************)
(* From the agents' definition files to a routed task: build_agent_registry*)
(* and validate_agent_registry (agent_registry.py), render_config          *)
(* (config.py), build_registry_snapshot, MainPlanner and AgentRouter       *)
(* (main_agent/), and the commands of cli.py that run them.                *)
(*                                                                         *)
(* A process is one run of a command.  It reads the AGENT.md files one by  *)
(* one, twice: once for the hash in the rendered config and once for the   *)
(* registry it validates.  Meanwhile authors edit them, and                *)
(* validate-agent-registry --write rewrites the generated registry, which  *)
(* write_text empties first.  A hash is what it is the hash of.            *)
(***************************************************************************)
EXTENDS Naturals, Sequences, FiniteSetsExt, Functions

CONSTANTS
    Process,
    AgentIds,         \* RUNTIME_AGENT_IDS, the order of the directories
    MAIN,             \* super-advisor
    Coder,            \* blueprint-coder
    Publisher,        \* telegram-publisher
    NoSelfApproval,   \* agents whose definition may not allow self-approval
    ReviewChain,      \* the reviewers the coder must have
    Occurs,           \* pairs <<action, phrase>>: the action is a substring of the phrase
    Histories,        \* the texts each AGENT.md goes through, in turn: [agent -> sequence]
    Malformed,        \* a text that does not parse
    None,             \* no agent
    Tasks,            \* tasks a caller may plan
    QueryTask,        \* the task of a manager query about code
    MaxStarts,        \* bound: commands run
    MaxPlans,         \* bound: plans made
    MaxHandEdits      \* bound: edits of the generated file by hand

Known == Range(AgentIds)

Sequence(s) == s \in Seq(Range(s))

ASSUME RegistryAssumption ==
    /\ Sequence(AgentIds)
    /\ {MAIN, Coder} \subseteq Known /\ NoSelfApproval \subseteq Known
    /\ \A h \in Histories : \A a \in Known :
         /\ Sequence(h[a]) /\ h[a] # <<>>
         /\ \A d \in Range(h[a]) \ {Malformed} : Sequence(d.reviewers)
    /\ QueryTask \in Tasks
    /\ MaxStarts \in Nat /\ MaxPlans \in Nat /\ MaxHandEdits \in Nat

VARIABLES
    history,    \* the member of Histories this behaviour follows
    md,         \* [agent -> which of its texts AGENT.md has]
    generated,  \* the generated registry file
    proc,       \* [Process -> the command it runs, and how far it is]
    plans,      \* the plans that were made
    routed,     \* the tasks that were routed, with their plan and the router's registry
    instants,   \* history: the values of md, one for every instant
    starts, handEdits

vars == <<history, md, generated, proc, plans, routed, instants, starts, handEdits>>
-----------------------------------------------------------------------------
(* AgentCapabilityRecord.  down: downstream_routes; links: upstream_routes *)
(* and escalation_target; may: the may_... flags that are true; runtime:   *)
(* the agent whose tools, denied tools, skills and version in constants.py *)
(* the definition repeats; inputs: the required fields of its input        *)
(* schema.  A registry is the sequence of definitions in directory order.  *)
Text(a) == history[a][md[a]]
Definitions(m) == [i \in DOMAIN AgentIds |-> history[AgentIds[i]][m[AgentIds[i]]]]

NoRegistry == <<>>
NoFile == [text |-> "none", agents |-> <<>>, hash |-> <<>>]
Torn == [text |-> "torn", agents |-> <<>>, hash |-> <<>>]
to_dict(R) == [text |-> "whole", agents |-> R, hash |-> R]
Idle == [at |-> "off"]

Has(R, a) == \E i \in DOMAIN R : R[i].id = a
get_agent(R, a) == R[CHOOSE i \in DOMAIN R : R[i].id = a /\ \A j \in 1..(i - 1) : R[j].id # a]
Ids(R) == {R[i].id : i \in DOMAIN R}
Mentioned(d) == d.down \cup d.links \cup Range(d.reviewers)

Failing(check) == {rule \in DOMAIN check : check[rule]}

(* validate_agent_registry: the issues of the definitions themselves.      *)
\* Faulty: an id that two directories claim is accepted.
DuplicateNever(R) == FALSE
Duplicate(R) == \E i, j \in DOMAIN R : i # j /\ R[i].id = R[j].id

RegistryIssues(R) ==
    LET defs == Range(R)
    IN Failing([duplicate_agent |-> Duplicate(R),
                runtime_mismatch |-> \E d \in defs : d.runtime # d.id,
                self_approval_forbidden |-> \E d \in defs : d.id \in NoSelfApproval /\ d.selfApproval,
                missing_capability |-> \E d \in defs : d.id = Coder /\ "modify" \notin d.may,
                contradictory_permissions |-> \E d \in defs : \/ "push" \in d.may /\ "commit" \notin d.may
                                                              \/ "deploy" \in d.may /\ "push" \notin d.may,
                publish_forbidden |-> \E d \in defs : "publish" \in d.may /\ d.id # Publisher,
                unknown_agent |-> \E d \in defs : ~(Mentioned(d) \subseteq Known),
                review_chain_mismatch |-> get_agent(R, Coder).reviewers # ReviewChain])

(* _validate_generated_registry_payload: the issues of the generated file, *)
(* of one of its agents and of the whole.  A file that is not an object of *)
(* the right shape is Torn, as one that is not JSON.                       *)
\* Faulty: an agent may route to itself.
PayloadAgentSelfRoute(d, ids) ==
    Failing([self_approval_reviewer_chain |-> d.id # MAIN /\ d.id \in Range(d.reviewers),
             unknown_route_agent |-> ~(Mentioned(d) \subseteq ids)])
PayloadAgentIssues(d, ids) ==
    Failing([empty_field |-> d.reviewers = <<>> \/ d.types = {},
             forbidden_self_route |-> d.id \in d.down,
             self_approval_reviewer_chain |-> d.id # MAIN /\ d.id \in Range(d.reviewers),
             contradictory_actions |-> d.allowed \cap d.forbidden # {},
             unknown_route_agent |-> ~(Mentioned(d) \subseteq ids)])

invalid_registry_hash(G) == G.hash # G.agents

PayloadIssues(G, R) ==
    Failing([invalid_registry_hash |-> invalid_registry_hash(G),
             duplicate_agent |-> Duplicate(G.agents),
             missing_super_advisor |-> MAIN \notin Ids(G.agents),
             registry_agent_set_mismatch |-> Ids(G.agents) # Ids(R),
             stale_registry |-> G # to_dict(R)])

GeneratedIssues(G, R) ==
    CASE G = NoFile -> {"missing_file"}
      [] G = Torn   -> {"malformed_json"}
      [] OTHER      -> PayloadIssues(G, R) \cup UNION {PayloadAgentIssues(d, Ids(R)) : d \in Range(G.agents)}

(* The rendered config against the registry: its hash, and for each agent  *)
(* the template's entry, which has the skills and tools of constants.py.   *)
\* Faulty: the hash is not compared.
ConfigIssuesWithoutHash(config, R) == Failing([agents_list |-> \E d \in Range(R) : d.id \notin Known \/ d.runtime # d.id])
ConfigIssues(config, R) ==
    Failing([registry_hash |-> config # R,
             agents_list |-> \E d \in Range(R) : d.id \notin Known \/ d.runtime # d.id])

Status(issues) ==
    IF issues = {} THEN "READY" ELSE IF issues \subseteq {"missing_file", "stale_registry"} THEN "DEGRADED" ELSE "INVALID"
-----------------------------------------------------------------------------
Init ==
    /\ history \in Histories
    /\ md = [a \in Known |-> 1]
    /\ generated \in {NoFile, Torn, to_dict(SubSeq(Definitions(md), 1, Len(AgentIds)))}
    /\ proc = [p \in Process |-> Idle]
    /\ plans = {} /\ routed = {}
    /\ instants = {md}
    /\ starts = 0 /\ handEdits = 0

(* An author saves the next text of one AGENT.md.                          *)
Edit(a) ==
    /\ md[a] < Len(history[a])
    /\ md' = [md EXCEPT ![a] = @ + 1]
    /\ instants' = instants \cup {md'}
    /\ UNCHANGED <<history, generated, proc, plans, routed, starts, handEdits>>

(* Someone changes the generated file by hand, and not its hash.           *)
HandEdit(i, d) ==
    /\ generated \notin {NoFile, Torn}
    /\ handEdits < MaxHandEdits /\ handEdits' = handEdits + 1
    /\ d # Malformed /\ d # generated.agents[i]
    /\ generated' = [generated EXCEPT !.agents[i] = d]
    /\ UNCHANGED <<history, md, proc, plans, routed, instants, starts>>

(* Every command begins with render_config.  "load" stands for the         *)
(* commands that build a snapshot or a ManagerRegistryRuntime: serve,      *)
(* list-agents, describe-agent, route-task and manager-query.              *)
Commands == {"load", "write"}

Start(p, command) ==
    /\ proc[p] = Idle
    /\ starts < MaxStarts /\ starts' = starts + 1
    /\ proc' = [proc EXCEPT ![p] = [at |-> "config", command |-> command, read |-> <<>>, config |-> NoRegistry]]
    /\ UNCHANGED <<history, md, generated, plans, routed, instants, handEdits>>

Reading(p) == proc[p].at \in {"config", "build"} /\ Len(proc[p].read) < Len(AgentIds)
NextText(p) == Text(AgentIds[Len(proc[p].read) + 1])

(* build_agent_registry: parse the next AGENT.md.                          *)
ReadDefinition(p) ==
    /\ Reading(p) /\ NextText(p) # Malformed
    /\ proc' = [proc EXCEPT ![p].read = Append(@, NextText(p))]
    /\ UNCHANGED <<history, md, generated, plans, routed, instants, starts, handEdits>>

Loaded(state, R) == [at |-> "loaded", state |-> state, registry |-> R]

(* render_config goes on without a hash, validate_agent_registry reports   *)
(* INVALID without a registry, and --write then writes nothing.            *)
ParseError(p) ==
    /\ Reading(p) /\ NextText(p) = Malformed
    /\ proc' = [proc EXCEPT ![p] =
                  CASE @.at = "config" -> [@ EXCEPT !.at = "build", !.read = <<>>]
                    [] @.at = "build" /\ @.command = "load" -> Loaded("INVALID", NoRegistry)
                    [] OTHER -> Idle]
    /\ UNCHANGED <<history, md, generated, plans, routed, instants, starts, handEdits>>

Complete(p) == proc[p].at \in {"config", "build"} /\ Len(proc[p].read) = Len(AgentIds)

RenderConfig(p) ==
    /\ Complete(p) /\ proc[p].at = "config"
    /\ proc' = [proc EXCEPT ![p] = [@ EXCEPT !.at = "build", !.config = proc[p].read, !.read = <<>>]]
    /\ UNCHANGED <<history, md, generated, plans, routed, instants, starts, handEdits>>

(* get_agent_capability raises KeyError when no definition is the coder's. *)
ValidateRaises(p) ==
    /\ Complete(p) /\ proc[p].at = "build" /\ ~Has(proc[p].read, Coder)
    /\ proc' = [proc EXCEPT ![p] = Idle]
    /\ UNCHANGED <<history, md, generated, plans, routed, instants, starts, handEdits>>

(* build_registry_snapshot: the generated file is read and compared.  Only *)
(* a report without issues keeps its registry.                             *)
BuildSnapshot(p) ==
    LET R == proc[p].read
        state == Status(RegistryIssues(R) \cup GeneratedIssues(generated, R) \cup ConfigIssues(proc[p].config, R))
    IN /\ Complete(p) /\ proc[p].at = "build" /\ proc[p].command = "load" /\ Has(R, Coder)
       /\ proc' = [proc EXCEPT ![p] = Loaded(state, IF state = "READY" THEN R ELSE NoRegistry)]
       /\ UNCHANGED <<history, md, generated, plans, routed, instants, starts, handEdits>>

(* validate-agent-registry --write writes the registry it has built, with  *)
(* or without issues.                                                      *)
WriteOpen(p) ==
    /\ Complete(p) /\ proc[p].at = "build" /\ proc[p].command = "write" /\ Has(proc[p].read, Coder)
    /\ generated' = Torn
    /\ proc' = [proc EXCEPT ![p].at = "opened"]
    /\ UNCHANGED <<history, md, plans, routed, instants, starts, handEdits>>

(* A text over a longer one that came in between leaves a mixture.         *)
WriteFill(p) ==
    /\ proc[p].at = "opened"
    /\ generated' \in {to_dict(proc[p].read)} \cup (IF generated = Torn THEN {} ELSE {Torn})
    /\ proc' = [proc EXCEPT ![p] = Idle]
    /\ UNCHANGED <<history, md, plans, routed, instants, starts, handEdits>>

(* The command ends, or dies at any place in it.                           *)
Exit(p) ==
    /\ proc[p] # Idle
    /\ proc' = [proc EXCEPT ![p] = Idle]
    /\ UNCHANGED <<history, md, generated, plans, routed, instants, starts, handEdits>>
-----------------------------------------------------------------------------
(* The manager of a loaded process.                                        *)
Ready(p) == proc[p].at = "loaded" /\ proc[p].state = "READY"

In(action, phrases) == \E f \in phrases : <<action, f>> \in Occurs

Contract(d) == [reviewers |-> d.reviewers, forbidden |-> d.forbidden, gate |-> d.gate]

CanSelfApprove(d, a) == a \in Range(d.reviewers) \/ d.selfApproval

(* MainPlanner.validate_agent, for a task with an action.                  *)
validate_agent(R, t) ==
    LET d == get_agent(R, t.agent)
    IN /\ Has(R, t.agent) /\ t.agent # MAIN
       /\ t.type \in d.types
       /\ d.inputs \subseteq t.inputs
       /\ ~In(t.action, d.forbidden)
       /\ In(t.action, d.allowed)
       /\ t.agent \in get_agent(R, MAIN).down
       /\ ~CanSelfApprove(d, t.agent)

(* MainPlanner.build_plan; a task that is refused refuses the plan.        *)
Plan(R, T) ==
    [registry |-> R, tasks |-> T,
     contract |-> [t \in T |-> Contract(get_agent(R, t.agent))],
     gate |-> \E t \in T : get_agent(R, t.agent).gate]

PlanRequest(p, T) ==
    LET R == proc[p].registry
    IN /\ Ready(p)
       /\ \A t \in T : validate_agent(R, t)
       /\ Plan(R, T) \notin plans /\ Cardinality(plans) < MaxPlans
       /\ plans' = plans \cup {Plan(R, T)}
       /\ UNCHANGED <<history, md, generated, proc, routed, instants, starts, handEdits>>

(* handle_manager_query of MAIN plans a question about code as an audit,   *)
(* reports the agent and forgets the plan; other queries select no agent.  *)
HandleManagerQuery(R) == IF validate_agent(R, QueryTask) THEN QueryTask.agent ELSE None

(* ManagerRegistryRuntime.route_task: the first agent that accepts the     *)
(* type and that the source, an argument, may route to.                    *)
validate_agent_route(R, source, target, type) ==
    /\ Has(R, source) /\ Has(R, target)
    /\ target \in get_agent(R, source).down
    /\ type \in get_agent(R, target).types
route_task(R, source, type) ==
    LET fit == {i \in DOMAIN R : validate_agent_route(R, source, R[i].id, type)}
    IN IF fit = {} THEN None ELSE R[Min(fit)].id

(* Its handle_manager_query routes a question about code as code_review.   *)
RoutingExplanation(R) == route_task(R, MAIN, QueryTask.type)

(* AgentRouter.route.                                                      *)
SamePlanHash(plan, R) == plan.registry = R

Routable(R, plan, t) ==
    LET d == get_agent(R, t.agent)
    IN /\ SamePlanHash(plan, R)
       /\ Has(R, t.agent)
       /\ t.type \in d.types
       /\ t.agent \in get_agent(R, MAIN).down
       /\ ~In(t.action, d.forbidden)
       /\ In(t.action, d.allowed)
       /\ d.reviewers # <<>>
       /\ t.agent \notin Range(d.reviewers)
       /\ d.gate => plan.gate

(* route_plan takes a plan, which this or another manager made.            *)
RoutePlan(p, plan) ==
    LET R == proc[p].registry
    IN /\ Ready(p)
       /\ \A t \in plan.tasks : Routable(R, plan, t)
       /\ routed' = routed \cup {[plan |-> plan, task |-> t, registry |-> R] : t \in plan.tasks}
       /\ UNCHANGED <<history, md, generated, proc, plans, instants, starts, handEdits>>

Next ==
    \/ \E a \in Known : Edit(a)
    \/ \E i \in DOMAIN AgentIds : \E d \in Range(history[AgentIds[i]]) : HandEdit(i, d)
    \/ \E p \in Process :
          \/ \E c \in Commands : Start(p, c)
          \/ ReadDefinition(p)
          \/ ParseError(p)
          \/ RenderConfig(p)
          \/ ValidateRaises(p)
          \/ BuildSnapshot(p)
          \/ WriteOpen(p)
          \/ WriteFill(p)
          \/ Exit(p)
          \/ \E T \in SUBSET Tasks \ {{}} : PlanRequest(p, T)
          \/ \E plan \in plans : RoutePlan(p, plan)

Spec == Init /\ [][Next]_vars
-----------------------------------------------------------------------------
(* No file goes back to a text that parses and that it has had before.     *)
TextsDistinct ==
    \A h \in Histories : \A a \in Known : \A i, j \in DOMAIN h[a] :
        h[a][i] = h[a][j] /\ h[a][i] # Malformed => i = j

(* A registry that MAIN runs under is what the definition files said       *)
(* together at some instant, although they are read one by one while       *)
(* authors edit them and another process rewrites the generated file: two  *)
(* readings that agree with each other cannot both be torn the same way.   *)
ReadyCoherent == \A p \in Process : Ready(p) => \E m \in instants : proc[p].registry = Definitions(m)

(* A registry that MAIN runs under has every runtime agent, under its own  *)
(* id, once.  No check says so: missing_agent_count is only reported.      *)
ReadyComplete ==
    \A p \in Process : Ready(p) =>
        \A a \in Known : Cardinality({i \in DOMAIN proc[p].registry : proc[p].registry[i].id = a}) = 1

(* A task of a plan that some manager's planner made is routed under the   *)
(* contract (reviewers, forbidden actions, human gate) it was planned      *)
(* under, although plan and route may belong to two managers that loaded   *)
(* the registry at different times.  Plans put together by other means,    *)
(* which only the hash of their registry guards, are not modelled.         *)
RoutedAsPlanned ==
    \A r \in routed : r.plan.contract[r.task] = Contract(get_agent(r.registry, r.task.agent))

(* Nobody's work is left to its own review.  A task that was routed has    *)
(* reviewers, all of them known agents other than its agent, whose         *)
(* definition does not allow self-approval, and the plan asks for the      *)
(* human gate when any of its tasks does.  And the agent that the manager  *)
(* names when it is asked who would do a task is not the one that would    *)
(* route it, nor (MAIN excepted) one of its own reviewers: route_task      *)
(* checks neither and relies on the validation of the definitions.         *)
NoSelfReview ==
    /\ \A r \in routed :
          LET d == get_agent(r.registry, r.task.agent)
          IN /\ Range(d.reviewers) # {} /\ Range(d.reviewers) \subseteq Known \ {r.task.agent}
             /\ ~d.selfApproval
             /\ (\E t \in r.plan.tasks : get_agent(r.registry, t.agent).gate) => r.plan.gate
    /\ \A p \in Process : Ready(p) =>
          LET R == proc[p].registry
              Reviewed(a, source) == a # None => a # source /\ (a # MAIN => a \notin Range(get_agent(R, a).reviewers))
          IN /\ \A source \in Known, t \in Tasks : Reviewed(route_task(R, source, t.type), source)
             /\ Reviewed(HandleManagerQuery(R), MAIN) /\ Reviewed(RoutingExplanation(R), MAIN)

(* Work that a manager planned is routed as it was planned, and away from    *)
(* itself, whichever manager plans, routes or answers and whatever happened  *)
(* to the files in between.                                                  *)
RoutingSound == RoutedAsPlanned /\ NoSelfReview
=============================================================================
