------------------------- MODULE AgentRegistryProofs -------------------------
(* What a READY registry and a routed task promise, for any agents, definition files and edits *)
(* of them, processes and commands.                                                            *)
EXTENDS AgentRegistry, FiniteSetTheorems, TLAPS

Texts == UNION {UNION {Range(h[a]) : a \in Known} : h \in Histories}

Registries == Seq(Texts)

Working ==
    [at : {"config", "build", "opened"}, command : Commands, read : Registries, config : Registries]

LoadedProc == [at : {"loaded"}, state : {"READY", "DEGRADED", "INVALID"}, registry : Registries]

(* The definitions in `read` were in their files, in turn, when the files went from the texts  *)
(* `low` to the texts `high` of history h.                                                     *)
ReadSince(read, h, low, high) ==
    /\ Len(read) <= Len(AgentIds)
    /\ \A i \in DOMAIN read :
         \E k \in low[AgentIds[i]]..high[AgentIds[i]] :
             read[i] = h[AgentIds[i]][k] /\ read[i] # Malformed

(* The definitions in `config` were in their files before the files had the texts `high`. *)
ReadBefore(config, h, high) ==
    \A i \in DOMAIN config :
        \E k \in 1..high[AgentIds[i]] : config[i] = h[AgentIds[i]][k]

FirstTexts == [a \in Known |-> 1]

(* What a process has read, and, in its second reading, the texts m that the files had between *)
(* the two.                                                                                    *)
InConfig(r, h, high) == r.config = NoRegistry /\ ReadSince(r.read, h, FirstTexts, high)

InBuild(r, h, m, high) ==
    /\ \A a \in Known : m[a] <= high[a]
    /\ ReadSince(r.read, h, m, high) /\ ReadBefore(r.config, h, m)

Readings ==
    \A p \in Process :
        /\ proc[p].at = "config" => InConfig(proc[p], history, md)
        /\ proc[p].at = "build" => \E m \in instants : InBuild(proc[p], history, m, md)

(* What validate_agent_registry makes sure of, when it reports no issue. *)
Valid(R) ==
    /\ R \in Registries /\ Len(R) = Len(AgentIds)
    /\ RegistryIssues(R) = {}
    /\ \A d \in Range(R) :
         PayloadAgentIssues(d, Ids(R)) = {} /\ d.id \in Known /\ d # Malformed

ReadyValid ==
    \A p \in Process : Ready(p) =>
        /\ Valid(proc[p].registry)
        /\ TextsDistinct => \E m \in instants : proc[p].registry = Definitions(m)

(* A plan is what MainPlanner makes of tasks that it accepts under a valid registry. *)
PlansSound ==
    \A plan \in plans :
        /\ Valid(plan.registry)
        /\ plan = Plan(plan.registry, plan.tasks)
        /\ \A t \in plan.tasks : validate_agent(plan.registry, t)

RoutedSound ==
    \A r \in routed :
        r.plan \in plans /\ r.task \in r.plan.tasks /\ Routable(r.registry, r.plan, r.task)

TypeInv ==
    /\ history \in Histories
    /\ md \in [Known -> Nat \ {0}] /\ \A a \in Known : md[a] \in DOMAIN history[a]
    /\ md \in instants /\ instants \subseteq [Known -> Nat \ {0}]
    /\ proc \in [Process -> {Idle} \cup Working \cup LoadedProc]

RegistryInv == TypeInv /\ Readings /\ ReadyValid /\ PlansSound /\ RoutedSound

-----------------------------------------------------------------------------
(* The files, and what a process has read of them. *)

\* Every agent's file has one of its texts.
LEMMA FileFacts ==
    ASSUME TypeInv
    PROVE  /\ Len(AgentIds) \in Nat \ {0} /\ DOMAIN AgentIds = 1..Len(AgentIds)
           /\ \A i \in DOMAIN AgentIds : AgentIds[i] \in Known
           /\ \A a \in Known : /\ md[a] \in Nat \ {0} /\ Text(a) = history[a][md[a]]
                              /\ Text(a) \in Texts
  <1>1. Len(AgentIds) \in Nat /\ DOMAIN AgentIds = 1..Len(AgentIds)
    BY RegistryAssumption DEF Sequence
  <1>2. \A i \in DOMAIN AgentIds : AgentIds[i] \in Known
    BY DEF Known, Range
  <1>3. Len(AgentIds) # 0
    BY <1>1, RegistryAssumption DEF Known, Range
  <1>4. ASSUME NEW a \in Known
        PROVE  md[a] \in Nat \ {0} /\ Text(a) = history[a][md[a]] /\ Text(a) \in Texts
    BY DEF TypeInv, Text, Texts, Range
  <1> QED
    BY <1>1, <1>2, <1>3, <1>4

\* A process that reads has the whole record of its command.
LEMMA WorkingFields ==
    ASSUME TypeInv, NEW p \in Process, proc[p].at \in {"config", "build", "opened"}
    PROVE  /\ proc[p] \in Working /\ proc[p].read \in Registries /\ proc[p].config \in Registries
           /\ proc[p].command \in Commands
  <1>1. proc[p] \in {Idle} \cup Working \cup LoadedProc
    BY DEF TypeInv
  <1>2. proc[p] \notin LoadedProc /\ proc[p] # Idle
    BY DEF LoadedProc, Idle
  <1> QED
    BY <1>1, <1>2 DEF Working

\* A step of one process that leaves the files alone: it is enough to look at that process.
LEMMA OneProcess ==
    ASSUME RegistryInv, NEW p \in Process, NEW next \in {Idle} \cup Working \cup LoadedProc,
           proc' = [proc EXCEPT ![p] = next],
           UNCHANGED <<history, md, instants, plans, routed>>,
           next.at = "config" => InConfig(next, history, md),
           next.at = "build" => \E m \in instants : InBuild(next, history, m, md),
           next.at = "loaded" /\ next.state = "READY" =>
             /\ Valid(next.registry)
             /\ TextsDistinct => \E m \in instants : next.registry = Definitions(m)
    PROVE  RegistryInv'
  <1> DEFINE States == {Idle} \cup Working \cup LoadedProc
  <1>1. proc \in [Process -> States] /\ next \in States
    BY DEF RegistryInv, TypeInv
  <1> HIDE DEF States
  <1>2. /\ proc' \in [Process -> States] /\ proc'[p] = next
        /\ \A q \in Process : q # p => proc'[q] = proc[q]
    BY <1>1
  <1>3. TypeInv'
    BY <1>2 DEF RegistryInv, TypeInv, States
  <1>4. Readings'
    <2> SUFFICES ASSUME NEW q \in Process
                 PROVE  /\ proc'[q].at = "config" => InConfig(proc'[q], history, md)
                        /\ proc'[q].at = "build" => \E m \in instants : InBuild(proc'[q], history, m, md)
      BY DEF Readings
    <2> QED
      BY <1>2 DEF RegistryInv, Readings
  <1>5. ReadyValid'
    <2> SUFFICES ASSUME NEW q \in Process, proc'[q].at = "loaded", proc'[q].state = "READY"
                 PROVE  /\ Valid(proc'[q].registry)
                        /\ TextsDistinct => \E m \in instants : proc'[q].registry = Definitions(m)
      BY DEF ReadyValid, Ready, Definitions
    <2> QED
      BY <1>2 DEF RegistryInv, ReadyValid, Ready
  <1>6. PlansSound' /\ RoutedSound'
    BY DEF RegistryInv, PlansSound, RoutedSound
  <1> QED
    BY <1>3, <1>4, <1>5, <1>6 DEF RegistryInv

\* What was read stays read while the files change.
LEMMA ReadLater ==
    ASSUME NEW read \in Registries, NEW h, NEW low, NEW high, NEW more,
           ReadSince(read, h, low, high),
           \A a \in Known : low[a] \in Nat /\ high[a] \in Nat /\ more[a] \in Nat /\ high[a] <= more[a]
    PROVE  ReadSince(read, h, low, more)
  <1>1. /\ Len(AgentIds) \in Nat /\ \A i \in 1..Len(AgentIds) : AgentIds[i] \in Known
    BY RegistryAssumption DEF Sequence, Known, Range
  <1>2. DOMAIN read = 1..Len(read) /\ Len(read) \in Nat /\ Len(read) <= Len(AgentIds)
    BY DEF Registries, ReadSince
  <1> SUFFICES ASSUME NEW i \in DOMAIN read
               PROVE  \E k \in low[AgentIds[i]]..more[AgentIds[i]] :
                        read[i] = h[AgentIds[i]][k] /\ read[i] # Malformed
    BY <1>2 DEF ReadSince
  <1>3. AgentIds[i] \in Known
    BY <1>1, <1>2
  <1> QED
    BY <1>3 DEF ReadSince

\* The next text is read.
LEMMA ReadNext ==
    ASSUME TypeInv, NEW read \in Registries, NEW low, \A a \in Known : low[a] \in Nat /\ low[a] <= md[a],
           ReadSince(read, history, low, md), Len(read) < Len(AgentIds),
           NEW text, text = Text(AgentIds[Len(read) + 1]), text # Malformed
    PROVE  Append(read, text) \in Registries /\ ReadSince(Append(read, text), history, low, md)
  <1> DEFINE a == AgentIds[Len(read) + 1]
             more == Append(read, text)
  <1>1. DOMAIN read = 1..Len(read) /\ Len(read) \in Nat
    BY DEF Registries
  <1>2. a \in Known /\ md[a] \in low[a]..md[a] /\ text = history[a][md[a]] /\ text \in Texts
        /\ Len(AgentIds) \in Nat
    <2>1. a \in Known
      BY <1>1, FileFacts
    <2> QED
      BY <2>1, FileFacts
  <1>3. /\ more \in Registries /\ DOMAIN more = 1..(Len(read) + 1) /\ Len(more) = Len(read) + 1
        /\ more[Len(read) + 1] = text /\ \A i \in DOMAIN read : more[i] = read[i]
    BY <1>1, <1>2 DEF Registries
  <1> HIDE DEF more
  <1>4. ASSUME NEW i \in DOMAIN more
        PROVE  \E k \in low[AgentIds[i]]..md[AgentIds[i]] :
                 more[i] = history[AgentIds[i]][k] /\ more[i] # Malformed
    <2>1. CASE i \in DOMAIN read
      BY <1>3, <2>1 DEF ReadSince
    <2>2. CASE i = Len(read) + 1
      BY <1>2, <1>3, <2>2
    <2> QED
      BY <1>1, <1>3, <2>1, <2>2
  <1>5. Len(more) <= Len(AgentIds)
    BY <1>1, <1>2, <1>3
  <1> QED
    BY <1>3, <1>4, <1>5 DEF ReadSince, more

\* An author edits a file.
LEMMA EditStep ==
    ASSUME RegistryInv, NEW a \in Known, Edit(a)
    PROVE  RegistryInv'
  <1>1. /\ md' = [md EXCEPT ![a] = @ + 1] /\ instants' = instants \cup {md'}
        /\ md[a] < Len(history[a])
        /\ UNCHANGED <<history, proc, plans, routed>>
    BY DEF Edit
  <1>2. /\ md \in [Known -> Nat \ {0}] /\ \A b \in Known : md[b] \in DOMAIN history[b]
        /\ history \in Histories
    BY DEF RegistryInv, TypeInv
  <1>3. Len(history[a]) \in Nat /\ DOMAIN history[a] = 1..Len(history[a])
    BY <1>2, RegistryAssumption DEF Sequence
  <1>4. /\ md' \in [Known -> Nat \ {0}]
        /\ \A b \in Known : /\ md'[b] \in DOMAIN history[b] /\ md[b] <= md'[b]
                            /\ md[b] \in Nat /\ md'[b] \in Nat
    BY <1>1, <1>2, <1>3
  <1>5. TypeInv'
    BY <1>1, <1>4 DEF RegistryInv, TypeInv
  <1>6. Readings'
    <2> SUFFICES ASSUME NEW p \in Process
                 PROVE  /\ proc[p].at = "config" => InConfig(proc[p], history, md')
                        /\ proc[p].at = "build" => \E m \in instants' : InBuild(proc[p], history, m, md')
      BY <1>1 DEF Readings
    <2>1. CASE proc[p].at = "config"
      <3>1. InConfig(proc[p], history, md) /\ proc[p].read \in Registries
        BY <2>1, WorkingFields DEF RegistryInv, Readings
      <3>2. \A b \in Known : FirstTexts[b] \in Nat
        BY DEF FirstTexts
      <3>3. ReadSince(proc[p].read, history, FirstTexts, md')
        <4> HIDE DEF FirstTexts
        <4> QED
          BY <1>4, <3>1, <3>2, ReadLater DEF InConfig
      <3> QED
        BY <2>1, <3>1, <3>3 DEF InConfig
    <2>2. CASE proc[p].at = "build"
      <3>1. PICK m \in instants : InBuild(proc[p], history, m, md)
        BY <2>2 DEF RegistryInv, Readings
      <3>2. m \in [Known -> Nat \ {0}] /\ m \in instants' /\ proc[p].read \in Registries
        BY <1>1, <2>2, WorkingFields DEF RegistryInv, TypeInv
      <3>3. ReadSince(proc[p].read, history, m, md')
        BY <1>4, <3>1, <3>2, ReadLater DEF InBuild
      <3>4. \A b \in Known : m[b] <= md'[b]
        BY <1>4, <3>1, <3>2 DEF InBuild
      <3>5. InBuild(proc[p], history, m, md')
        BY <3>1, <3>3, <3>4 DEF InBuild
      <3> QED
        BY <2>2, <3>2, <3>5
    <2> QED
      BY <2>1, <2>2
  <1>7. ReadyValid'
    BY <1>1 DEF RegistryInv, ReadyValid, Ready, Definitions
  <1>8. PlansSound' /\ RoutedSound'
    BY <1>1 DEF RegistryInv, PlansSound, RoutedSound
  <1> QED
    BY <1>5, <1>6, <1>7, <1>8 DEF RegistryInv

\* A command begins, or it ends or dies.
LEMMA StartStep ==
    ASSUME RegistryInv, NEW p \in Process, (\E c \in Commands : Start(p, c)) \/ Exit(p) \/ ValidateRaises(p)
    PROVE  RegistryInv'
  <1>1. ASSUME NEW c \in Commands, Start(p, c) PROVE RegistryInv'
    <2> DEFINE next == [at |-> "config", command |-> c, read |-> <<>>, config |-> NoRegistry]
    <2>1. proc' = [proc EXCEPT ![p] = next] /\ UNCHANGED <<history, md, instants, plans, routed>>
      BY <1>1 DEF Start
    <2>2. <<>> \in Registries /\ Len(AgentIds) \in Nat
      BY FileFacts DEF Registries, RegistryInv
    <2>3. next \in Working /\ next.config = NoRegistry /\ next.read = <<>> /\ next.at = "config"
      BY <2>2 DEF Working, NoRegistry
    <2>4. InConfig(next, history, md)
      <3>1. ReadSince(<<>>, history, FirstTexts, md)
        BY <2>2 DEF ReadSince
      <3> QED
        BY <2>3, <3>1 DEF InConfig
    <2> HIDE DEF next
    <2> QED
      BY <2>1, <2>3, <2>4, OneProcess
  <1>2. CASE Exit(p) \/ ValidateRaises(p)
    <2>1. proc' = [proc EXCEPT ![p] = Idle] /\ UNCHANGED <<history, md, instants, plans, routed>>
      BY <1>2 DEF Exit, ValidateRaises
    <2> QED
      BY <2>1, OneProcess DEF Idle
  <1> QED
    BY <1>1, <1>2

\* A command reads the next definition, for the rendered config or for the registry.
LEMMA ReadDefinitionStep ==
    ASSUME RegistryInv, NEW p \in Process, ReadDefinition(p)
    PROVE  RegistryInv'
  <1> DEFINE r == proc[p]
             text == NextText(p)
             read == Append(r.read, text)
             next == [r EXCEPT !.read = read]
  <1>1. /\ r.at \in {"config", "build"} /\ Len(r.read) < Len(AgentIds) /\ text # Malformed
        /\ proc' = [proc EXCEPT ![p].read = Append(@, text)]
        /\ UNCHANGED <<history, md, instants, plans, routed>>
    BY DEF ReadDefinition, Reading
  <1>2. r \in Working /\ r.read \in Registries
    BY <1>1, WorkingFields DEF RegistryInv
  <1>3. proc' = [proc EXCEPT ![p] = next]
    BY <1>1
  <1>4. text = Text(AgentIds[Len(r.read) + 1])
    BY DEF NextText
  <1>5. ASSUME NEW low, \A a \in Known : low[a] \in Nat /\ low[a] <= md[a],
               ReadSince(r.read, history, low, md)
        PROVE  ReadSince(read, history, low, md)
    BY <1>1, <1>2, <1>4, <1>5, ReadNext DEF RegistryInv
  <1>6. read \in Registries
    <2>1. text \in Texts
      <3>1. Len(r.read) \in Nat
        BY <1>2 DEF Registries
      <3> QED
        BY <1>1, <1>4, <3>1, FileFacts DEF RegistryInv
    <2> QED
      BY <1>2, <2>1 DEF Registries
  <1> HIDE DEF read, text
  <1>7. /\ next \in Working /\ next.read = read /\ next.at = r.at /\ next.config = r.config
    BY <1>2, <1>6 DEF Working
  <1> HIDE DEF next, r
  <1>8. next.at = "config" => InConfig(next, history, md)
    <2> SUFFICES ASSUME next.at = "config" PROVE InConfig(next, history, md)
      OBVIOUS
    <2>1. InConfig(r, history, md)
      BY <1>7 DEF RegistryInv, Readings, r
    <2>2. \A a \in Known : FirstTexts[a] \in Nat /\ FirstTexts[a] <= md[a]
      BY FileFacts DEF FirstTexts, RegistryInv
    <2> HIDE DEF FirstTexts
    <2> QED
      BY <1>5, <1>7, <2>1, <2>2 DEF InConfig
  <1>9. next.at = "build" => \E m \in instants : InBuild(next, history, m, md)
    <2> SUFFICES ASSUME next.at = "build" PROVE \E m \in instants : InBuild(next, history, m, md)
      OBVIOUS
    <2>1. PICK m \in instants : InBuild(r, history, m, md)
      BY <1>7 DEF RegistryInv, Readings, r
    <2>2. \A a \in Known : m[a] \in Nat /\ m[a] <= md[a]
      BY <2>1 DEF RegistryInv, TypeInv, InBuild
    <2>3. InBuild(next, history, m, md)
      BY <1>5, <1>7, <2>1, <2>2 DEF InBuild
    <2> QED
      BY <2>3
  <1> QED
    BY <1>1, <1>3, <1>7, <1>8, <1>9, OneProcess DEF r

\* The first reading ends, complete or at a text that does not parse, and the second begins.
LEMMA SecondReading ==
    ASSUME RegistryInv, NEW p \in Process, proc[p].at = "config", NEW config \in Registries,
           ReadBefore(config, history, md),
           proc' = [proc EXCEPT ![p] = [proc[p] EXCEPT !.at = "build", !.config = config, !.read = <<>>]],
           UNCHANGED <<history, md, instants, plans, routed>>
    PROVE  RegistryInv'
  <1> DEFINE next == [proc[p] EXCEPT !.at = "build", !.config = config, !.read = <<>>]
  <1>1. <<>> \in Registries /\ Len(AgentIds) \in Nat
    BY FileFacts DEF Registries, RegistryInv
  <1>2. next \in Working /\ next.at = "build" /\ next.config = config /\ next.read = <<>>
    <2>1. proc[p] \in Working
      BY WorkingFields DEF RegistryInv
    <2> QED
      BY <1>1, <2>1 DEF Working
  <1> HIDE DEF next
  <1>3. ReadSince(<<>>, history, md, md)
    BY <1>1 DEF ReadSince
  <1>4. InBuild(next, history, md, md)
    <2>1. \A a \in Known : md[a] <= md[a]
      BY FileFacts DEF RegistryInv
    <2> QED
      BY <1>2, <1>3, <2>1 DEF InBuild
  <1>5. md \in instants
    BY DEF RegistryInv, TypeInv
  <1> QED
    BY <1>2, <1>4, <1>5, OneProcess DEF next

\* render_config is complete.
LEMMA RenderConfigStep ==
    ASSUME RegistryInv, NEW p \in Process, RenderConfig(p)
    PROVE  RegistryInv'
  <1> DEFINE read == proc[p].read
  <1>1. /\ proc[p].at = "config"
        /\ proc' = [proc EXCEPT ![p] = [proc[p] EXCEPT !.at = "build", !.config = read, !.read = <<>>]]
        /\ UNCHANGED <<history, md, instants, plans, routed>>
    <2>1. proc \in [Process -> {Idle} \cup Working \cup LoadedProc]
      BY DEF RegistryInv, TypeInv
    <2> QED
      BY <2>1 DEF RenderConfig
  <1>2. read \in Registries /\ InConfig(proc[p], history, md)
    BY <1>1, WorkingFields DEF RegistryInv, Readings
  <1>3. ReadBefore(read, history, md)
    <2> SUFFICES ASSUME NEW i \in DOMAIN read
                 PROVE  \E k \in 1..md[AgentIds[i]] : read[i] = history[AgentIds[i]][k]
      BY DEF ReadBefore
    <2>1. AgentIds[i] \in Known
      <3>1. DOMAIN read = 1..Len(read) /\ Len(read) \in Nat /\ Len(read) <= Len(AgentIds)
        BY <1>2 DEF Registries, InConfig, ReadSince
      <3> QED
        BY <3>1, FileFacts DEF RegistryInv
    <2> QED
      BY <1>2, <2>1 DEF InConfig, ReadSince, FirstTexts
  <1> HIDE DEF read
  <1> QED
    BY <1>1, <1>2, <1>3, SecondReading

\* A text does not parse.
LEMMA ParseErrorStep ==
    ASSUME RegistryInv, NEW p \in Process, ParseError(p)
    PROVE  RegistryInv'
  <1>1. proc[p].at \in {"config", "build"} /\ UNCHANGED <<history, md, instants, plans, routed>>
    BY DEF ParseError, Reading
  <1>2. proc[p] \in Working
    BY <1>1, WorkingFields DEF RegistryInv
  <1>3. CASE proc[p].at = "config"
    <2>1. proc[p].config = <<>>
      BY <1>3 DEF RegistryInv, Readings, InConfig, NoRegistry
    <2>2. proc' = [proc EXCEPT ![p] = [proc[p] EXCEPT !.at = "build", !.read = <<>>]]
      BY <1>3 DEF ParseError
    <2>3. [proc[p] EXCEPT !.at = "build", !.read = <<>>] =
            [proc[p] EXCEPT !.at = "build", !.config = <<>>, !.read = <<>>]
      BY <1>2, <2>1 DEF Working
    <2>4. <<>> \in Registries /\ ReadBefore(<<>>, history, md)
      BY DEF Registries, ReadBefore
    <2> QED
      BY <1>1, <1>3, <2>2, <2>3, <2>4, SecondReading
  <1>4. CASE proc[p].at = "build"
    <2> DEFINE failed == Loaded("INVALID", NoRegistry)
    <2>1. PICK next \in {failed, Idle} : proc' = [proc EXCEPT ![p] = next]
      BY <1>4 DEF ParseError
    <2>2. failed \in LoadedProc /\ failed.at = "loaded" /\ failed.state = "INVALID"
      BY DEF Loaded, LoadedProc, NoRegistry, Registries
    <2> HIDE DEF failed
    <2>3. /\ next \in {Idle} \cup LoadedProc /\ next.at \in {"off", "loaded"}
          /\ next.at = "loaded" => next.state = "INVALID"
      BY <2>1, <2>2 DEF Idle
    <2> QED
      BY <1>1, <2>1, <2>3, OneProcess
  <1> QED
    BY <1>1, <1>3, <1>4

-----------------------------------------------------------------------------
(* The validation. *)

\* A report without issues: every check passed.
LEMMA NoneFails ==
    ASSUME NEW check, Failing(check) = {}
    PROVE  \A rule \in DOMAIN check : ~check[rule]
  BY DEF Failing

\* What the checks of the definitions say, one by one.
LEMMA DefinitionChecks ==
    ASSUME NEW R, RegistryIssues(R) = {}
    PROVE  /\ ~Duplicate(R)
           /\ \A d \in Range(R) : d.runtime = d.id /\ Mentioned(d) \subseteq Known
  <1> DEFINE check == [duplicate_agent |-> Duplicate(R),
                runtime_mismatch |-> \E d \in Range(R) : d.runtime # d.id,
                self_approval_forbidden |-> \E d \in Range(R) : d.id \in NoSelfApproval /\ d.selfApproval,
                missing_capability |-> \E d \in Range(R) : d.id = Coder /\ "modify" \notin d.may,
                contradictory_permissions |-> \E d \in Range(R) : \/ "push" \in d.may /\ "commit" \notin d.may
                                                                  \/ "deploy" \in d.may /\ "push" \notin d.may,
                publish_forbidden |-> \E d \in Range(R) : "publish" \in d.may /\ d.id # Publisher,
                unknown_agent |-> \E d \in Range(R) : ~(Mentioned(d) \subseteq Known),
                review_chain_mismatch |-> get_agent(R, Coder).reviewers # ReviewChain]
  <1>1. Failing(check) = {}
    BY DEF RegistryIssues
  <1>2. \A rule \in DOMAIN check : ~check[rule]
    <2> HIDE DEF check
    <2> QED
      BY <1>1, NoneFails
  <1>3. ~check["duplicate_agent"] /\ ~check["runtime_mismatch"] /\ ~check["unknown_agent"]
    BY <1>2
  <1> QED
    BY <1>3

\* What the checks of an agent of the generated file say.
LEMMA AgentChecks ==
    ASSUME NEW d, NEW ids, PayloadAgentIssues(d, ids) = {}
    PROVE  /\ d.reviewers # <<>> /\ d.id \notin d.down
           /\ d.id # MAIN => d.id \notin Range(d.reviewers)
  <1> DEFINE check == [empty_field |-> d.reviewers = <<>> \/ d.types = {},
             forbidden_self_route |-> d.id \in d.down,
             self_approval_reviewer_chain |-> d.id # MAIN /\ d.id \in Range(d.reviewers),
             contradictory_actions |-> d.allowed \cap d.forbidden # {},
             unknown_route_agent |-> ~(Mentioned(d) \subseteq ids)]
  <1>1. Failing(check) = {}
    BY DEF PayloadAgentIssues
  <1>2. \A rule \in DOMAIN check : ~check[rule]
    <2> HIDE DEF check
    <2> QED
      BY <1>1, NoneFails
  <1>3. ~check["empty_field"] /\ ~check["forbidden_self_route"] /\ ~check["self_approval_reviewer_chain"]
    BY <1>2
  <1> QED
    BY <1>3

\* The generated file says what the registry says, and passes the checks of its agents.
LEMMA GeneratedChecks ==
    ASSUME NEW G, NEW R, GeneratedIssues(G, R) = {}
    PROVE  \A d \in Range(R) : PayloadAgentIssues(d, Ids(R)) = {}
  <1>1. /\ PayloadIssues(G, R) = {}
        /\ \A d \in Range(G.agents) : PayloadAgentIssues(d, Ids(R)) = {}
    BY DEF GeneratedIssues
  <1> DEFINE check == [invalid_registry_hash |-> invalid_registry_hash(G),
             duplicate_agent |-> Duplicate(G.agents),
             missing_super_advisor |-> MAIN \notin Ids(G.agents),
             registry_agent_set_mismatch |-> Ids(G.agents) # Ids(R),
             stale_registry |-> G # to_dict(R)]
  <1>2. Failing(check) = {}
    BY <1>1 DEF PayloadIssues
  <1>3. \A rule \in DOMAIN check : ~check[rule]
    <2> HIDE DEF check
    <2> QED
      BY <1>2, NoneFails
  <1>4. ~check["stale_registry"]
    BY <1>3
  <1>5. G = to_dict(R)
    BY <1>4
  <1> HIDE DEF check
  <1>6. G.agents = R
    BY <1>5 DEF to_dict
  <1> QED
    BY <1>1, <1>6

\* The rendered config has the hash of the registry and an entry for each of its agents.
LEMMA ConfigChecks ==
    ASSUME NEW config, NEW R, ConfigIssues(config, R) = {}
    PROVE  config = R /\ \A d \in Range(R) : d.id \in Known
  <1> DEFINE check == [registry_hash |-> config # R,
                       agents_list |-> \E d \in Range(R) : d.id \notin Known \/ d.runtime # d.id]
  <1>1. Failing(check) = {}
    BY DEF ConfigIssues
  <1>2. \A rule \in DOMAIN check : ~check[rule]
    <2> HIDE DEF check
    <2> QED
      BY <1>1, NoneFails
  <1>3. ~check["registry_hash"] /\ ~check["agents_list"]
    BY <1>2
  <1> QED
    BY <1>3

\* Two readings of the files that agree say what the files said between the two.
LEMMA Coherent ==
    ASSUME TypeInv, TextsDistinct, NEW r, r.read \in Registries, Len(r.read) = Len(AgentIds),
           NEW m \in instants, InBuild(r, history, m, md), r.config = r.read
    PROVE  r.read = Definitions(m)
  <1> DEFINE R == r.read
  <1>1. DOMAIN R = DOMAIN AgentIds
    BY FileFacts DEF Registries
  <1>2. ASSUME NEW i \in DOMAIN AgentIds PROVE R[i] = history[AgentIds[i]][m[AgentIds[i]]]
    <2> DEFINE a == AgentIds[i]
    <2>1. /\ a \in Known /\ m[a] \in Nat \ {0} /\ m[a] <= md[a] /\ md[a] \in Nat
          /\ md[a] \in DOMAIN history[a]
      BY FileFacts DEF TypeInv, InBuild
    <2>2. history \in Histories /\ DOMAIN history[a] = 1..Len(history[a]) /\ Len(history[a]) \in Nat
      BY <2>1, RegistryAssumption DEF TypeInv, Sequence
    <2>3. PICK late \in m[a]..md[a] : R[i] = history[a][late] /\ R[i] # Malformed
      BY <1>1 DEF InBuild, ReadSince
    <2>4. PICK early \in 1..m[a] : R[i] = history[a][early]
      BY <1>1 DEF InBuild, ReadBefore
    <2> HIDE DEF a, R
    <2>5. late \in DOMAIN history[a] /\ early \in DOMAIN history[a]
      BY <2>1, <2>2
    <2>6. late = early
      <3>1. history[a][late] = history[a][early] /\ history[a][late] # Malformed
        BY <2>3, <2>4
      <3> QED
        BY <2>1, <2>2, <2>5, <3>1, Zenon DEF TextsDistinct
    <2>7. late = m[a]
      BY <2>1, <2>6
    <2> QED
      BY <2>3, <2>7 DEF a
  <1>3. R = [i \in DOMAIN AgentIds |-> R[i]]
    BY <1>1 DEF Registries
  <1> HIDE DEF R
  <1> QED
    BY <1>2, <1>3 DEF Definitions, R

\* A snapshot is built: a READY one has a valid registry, one that the files had.
LEMMA BuildSnapshotStep ==
    ASSUME RegistryInv, NEW p \in Process, BuildSnapshot(p)
    PROVE  RegistryInv'
  <1> DEFINE r == proc[p]
             R == r.read
             issues == RegistryIssues(R) \cup GeneratedIssues(generated, R) \cup ConfigIssues(r.config, R)
             next == Loaded(Status(issues), IF Status(issues) = "READY" THEN R ELSE NoRegistry)
  <1>1. /\ r.at = "build" /\ Len(R) = Len(AgentIds) /\ proc' = [proc EXCEPT ![p] = next]
        /\ UNCHANGED <<history, md, instants, plans, routed>>
    BY DEF BuildSnapshot, Complete
  <1>2. R \in Registries
    BY <1>1, WorkingFields DEF RegistryInv
  <1>3. Status(issues) \in {"READY", "DEGRADED", "INVALID"} /\ (Status(issues) = "READY" => issues = {})
    <2> HIDE DEF issues
    <2> QED
      BY DEF Status
  <1>4. ASSUME issues = {}
        PROVE  /\ Valid(R)
               /\ TextsDistinct => \E m \in instants : R = Definitions(m)
    <2>1. RegistryIssues(R) = {} /\ GeneratedIssues(generated, R) = {} /\ ConfigIssues(r.config, R) = {}
      BY <1>4
    <2>2. /\ r.config = R /\ \A d \in Range(R) : d.id \in Known
          /\ \A d \in Range(R) : PayloadAgentIssues(d, Ids(R)) = {}
      BY <2>1, ConfigChecks, GeneratedChecks
    <2>3. PICK m \in instants : InBuild(r, history, m, md)
      BY <1>1 DEF RegistryInv, Readings
    <2>4. \A d \in Range(R) : d # Malformed
      BY <2>3 DEF InBuild, ReadSince, Range
    <2>5. Valid(R)
      BY <1>1, <1>2, <2>1, <2>2, <2>4 DEF Valid
    <2>6. TextsDistinct => R = Definitions(m)
      BY <1>1, <1>2, <2>2, <2>3, Coherent DEF RegistryInv
    <2> QED
      BY <2>5, <2>6
  <1> HIDE DEF issues
  <1>5. /\ next.at = "loaded" /\ next.state = Status(issues)
        /\ next.registry = IF Status(issues) = "READY" THEN R ELSE NoRegistry
    BY DEF Loaded
  <1>6. next \in LoadedProc
    <2> DEFINE registry == IF Status(issues) = "READY" THEN R ELSE NoRegistry
    <2>1. NoRegistry \in Registries
      BY DEF NoRegistry, Registries
    <2> HIDE DEF R
    <2>2. registry \in Registries
      BY <1>2, <2>1
    <2> HIDE DEF registry
    <2>3. Loaded(Status(issues), registry) \in LoadedProc
      BY <1>3, <2>2 DEF Loaded, LoadedProc
    <2> QED
      BY <2>3 DEF registry
  <1> HIDE DEF next
  <1>7. next.state = "READY" => next.registry = R /\ issues = {}
    BY <1>3, <1>5
  <1> HIDE DEF R
  <1>8. next.at = "loaded" /\ next.state = "READY" =>
          /\ Valid(next.registry)
          /\ TextsDistinct => \E m \in instants : next.registry = Definitions(m)
    BY <1>4, <1>7
  <1> QED
    BY <1>1, <1>5, <1>6, <1>8, OneProcess

\* validate-agent-registry --write: the generated file is emptied, and filled.
LEMMA WriteStep ==
    ASSUME RegistryInv, NEW p \in Process, WriteOpen(p) \/ WriteFill(p)
    PROVE  RegistryInv'
  <1>1. CASE WriteOpen(p)
    <2> DEFINE next == [proc[p] EXCEPT !.at = "opened"]
    <2>1. /\ proc[p].at = "build" /\ proc' = [proc EXCEPT ![p] = next]
          /\ UNCHANGED <<history, md, instants, plans, routed>>
      BY <1>1 DEF WriteOpen
    <2>2. next \in Working /\ next.at = "opened"
      BY <2>1, WorkingFields DEF Working, RegistryInv
    <2> HIDE DEF next
    <2> QED
      BY <2>1, <2>2, OneProcess
  <1>2. CASE WriteFill(p)
    <2>1. proc' = [proc EXCEPT ![p] = Idle] /\ UNCHANGED <<history, md, instants, plans, routed>>
      BY <1>2 DEF WriteFill
    <2> QED
      BY <2>1, OneProcess DEF Idle
  <1> QED
    BY <1>1, <1>2

\* Who has read what, and what is valid, while nobody reads, edits or starts.
LEMMA NobodyReads ==
    ASSUME RegistryInv, UNCHANGED <<history, md, proc, instants>>
    PROVE  TypeInv' /\ Readings' /\ ReadyValid'
  <1>1. TypeInv'
    BY DEF RegistryInv, TypeInv
  <1>2. Readings'
    BY DEF RegistryInv, Readings
  <1>3. ReadyValid'
    BY DEF RegistryInv, ReadyValid, Ready, Definitions
  <1> QED
    BY <1>1, <1>2, <1>3

\* The generated file is edited by hand; it says nothing that the invariant rests on.
LEMMA HandEditStep ==
    ASSUME RegistryInv, NEW i, NEW d, HandEdit(i, d)
    PROVE  RegistryInv'
  <1>1. UNCHANGED <<history, md, proc, plans, routed, instants>>
    BY DEF HandEdit
  <1>2. PlansSound' /\ RoutedSound'
    BY <1>1 DEF RegistryInv, PlansSound, RoutedSound
  <1> QED
    BY <1>1, <1>2, NobodyReads DEF RegistryInv

-----------------------------------------------------------------------------
(* Plans and routes. *)

\* A plan is made under a READY registry.
LEMMA PlanRequestStep ==
    ASSUME RegistryInv, NEW p \in Process, NEW T \in SUBSET Tasks, PlanRequest(p, T)
    PROVE  RegistryInv'
  <1> DEFINE R == proc[p].registry
             plan == Plan(R, T)
  <1>1. /\ Ready(p) /\ plans' = plans \cup {plan} /\ \A t \in T : validate_agent(R, t)
        /\ UNCHANGED <<history, md, proc, routed, instants>>
    BY DEF PlanRequest
  <1>2. TypeInv' /\ Readings' /\ ReadyValid' /\ RoutedSound'
    <2>1. RoutedSound'
      BY <1>1 DEF RegistryInv, RoutedSound
    <2> QED
      BY <1>1, <2>1, NobodyReads
  <1>3. Valid(R)
    BY <1>1 DEF RegistryInv, ReadyValid
  <1>4. plan.registry = R /\ plan.tasks = T
    BY DEF Plan
  <1> HIDE DEF R
  <1>5. plan = Plan(plan.registry, plan.tasks)
    BY <1>4
  <1> HIDE DEF plan
  <1>6. PlansSound'
    BY <1>1, <1>3, <1>4, <1>5 DEF RegistryInv, PlansSound
  <1> QED
    BY <1>2, <1>6 DEF RegistryInv

\* The tasks of a plan are routed.
LEMMA RoutePlanStep ==
    ASSUME RegistryInv, NEW p \in Process, NEW plan \in plans, RoutePlan(p, plan)
    PROVE  RegistryInv'
  <1> DEFINE R == proc[p].registry
             new == {[plan |-> plan, task |-> t, registry |-> R] : t \in plan.tasks}
  <1>1. /\ \A t \in plan.tasks : Routable(R, plan, t)
        /\ routed' = routed \cup new
        /\ UNCHANGED <<history, md, proc, plans, instants>>
    BY DEF RoutePlan
  <1>2. TypeInv' /\ Readings' /\ ReadyValid' /\ PlansSound'
    <2>1. PlansSound'
      BY <1>1 DEF RegistryInv, PlansSound
    <2> QED
      BY <1>1, <2>1, NobodyReads
  <1>3. \A r \in new : r.plan \in plans /\ r.task \in r.plan.tasks /\ Routable(r.registry, r.plan, r.task)
    <2> HIDE DEF R
    <2> QED
      BY <1>1
  <1> HIDE DEF new
  <1>4. RoutedSound'
    BY <1>1, <1>3 DEF RegistryInv, RoutedSound
  <1> QED
    BY <1>2, <1>4 DEF RegistryInv

\* Every step.
LEMMA RegistryStep ==
    ASSUME RegistryInv, [Next]_vars
    PROVE  RegistryInv'
  <1>1. CASE UNCHANGED vars
    <2>1. PlansSound' /\ RoutedSound'
      BY <1>1 DEF vars, RegistryInv, PlansSound, RoutedSound
    <2> QED
      BY <1>1, <2>1, NobodyReads DEF vars, RegistryInv
  <1>2. ASSUME NEW a \in Known, Edit(a) PROVE RegistryInv'
    BY <1>2, EditStep
  <1>3. ASSUME NEW i \in DOMAIN AgentIds, NEW d \in Range(history[AgentIds[i]]), HandEdit(i, d)
        PROVE  RegistryInv'
    BY <1>3, HandEditStep
  <1>4. ASSUME NEW p \in Process,
               \/ (\E c \in Commands : Start(p, c)) \/ Exit(p) \/ ValidateRaises(p)
               \/ ReadDefinition(p) \/ ParseError(p) \/ RenderConfig(p)
               \/ BuildSnapshot(p) \/ WriteOpen(p) \/ WriteFill(p)
        PROVE  RegistryInv'
    BY <1>4, StartStep, ReadDefinitionStep, ParseErrorStep, RenderConfigStep, BuildSnapshotStep, WriteStep
  <1>5. ASSUME NEW p \in Process, NEW T \in SUBSET Tasks \ {{}}, PlanRequest(p, T)
        PROVE  RegistryInv'
    BY <1>5, PlanRequestStep
  <1>6. ASSUME NEW p \in Process, NEW plan \in plans, RoutePlan(p, plan) PROVE RegistryInv'
    BY <1>6, RoutePlanStep
  <1> QED
    BY <1>1, <1>2, <1>3, <1>4, <1>5, <1>6 DEF Next

\* No process runs, and nothing was planned.
LEMMA RegistryInit ==
    ASSUME Init
    PROVE  RegistryInv
  <1>1. /\ history \in Histories /\ md = [a \in Known |-> 1] /\ proc = [p \in Process |-> Idle]
        /\ plans = {} /\ routed = {} /\ instants = {md}
    BY DEF Init
  <1>2. \A a \in Known : 1 \in DOMAIN history[a]
    <2> SUFFICES ASSUME NEW a \in Known PROVE 1 \in DOMAIN history[a]
      OBVIOUS
    <2>1. history[a] \in Seq(Range(history[a])) /\ history[a] # <<>>
      BY <1>1, RegistryAssumption DEF Sequence
    <2> QED
      BY <2>1
  <1>3. TypeInv
    BY <1>1, <1>2 DEF TypeInv
  <1>4. Readings /\ ReadyValid
    BY <1>1 DEF Readings, ReadyValid, Ready, Idle
  <1>5. PlansSound /\ RoutedSound
    BY <1>1 DEF PlansSound, RoutedSound
  <1> QED
    BY <1>3, <1>4, <1>5 DEF RegistryInv

\* The invariant of every behaviour: what is being read, what a READY process holds, what was
\* planned and what was routed.
THEOREM RegistryInvariant == Spec => []RegistryInv
  <1>1. Init => RegistryInv
    BY RegistryInit
  <1>2. RegistryInv /\ [Next]_vars => RegistryInv'
    BY RegistryStep
  <1> QED
    BY <1>1, <1>2, PTL DEF Spec

-----------------------------------------------------------------------------
(* What a valid registry is. *)

\* No two of its agents have the same id.
LEMMA ValidIds ==
    ASSUME NEW R, Valid(R)
    PROVE  /\ Len(AgentIds) \in Nat /\ DOMAIN R = 1..Len(AgentIds)
           /\ \A i \in DOMAIN R : R[i] \in Range(R) /\ R[i].id \in Known
           /\ \A i, j \in DOMAIN R : R[i].id = R[j].id => i = j
  <1>1. Len(AgentIds) \in Nat
    BY RegistryAssumption DEF Sequence
  <1>2. DOMAIN R = 1..Len(AgentIds)
    BY <1>1 DEF Valid, Registries
  <1>3. \A i \in DOMAIN R : R[i] \in Range(R)
    BY DEF Range
  <1>4. ~Duplicate(R)
    BY DefinitionChecks DEF Valid
  <1> QED
    BY <1>1, <1>2, <1>3, <1>4 DEF Valid, Duplicate

\* An agent that the registry has is found under its id.
LEMMA GetAgentFacts ==
    ASSUME NEW R, Valid(R), NEW a, Has(R, a)
    PROVE  get_agent(R, a) \in Range(R) /\ get_agent(R, a).id = a
  <1> DEFINE first(i) == R[i].id = a /\ \A j \in 1..(i - 1) : R[j].id # a
  <1>1. PICK i \in DOMAIN R : R[i].id = a
    BY DEF Has
  <1>2. first(i)
    <2> SUFFICES ASSUME NEW j \in 1..(i - 1) PROVE R[j].id # a
      BY <1>1
    <2>1. j \in DOMAIN R /\ j # i
      BY ValidIds
    <2> QED
      BY <1>1, <2>1, ValidIds
  <1> DEFINE k == CHOOSE k \in DOMAIN R : first(k)
  <1>3. k \in DOMAIN R /\ first(k)
    BY <1>2
  <1>4. get_agent(R, a) = R[k]
    BY DEF get_agent
  <1> HIDE DEF k
  <1> QED
    BY <1>3, <1>4, ValidIds

\* A definition of a valid registry has reviewers, known ones, does not route to itself and,
\* MAIN's excepted, does not name itself as a reviewer.
LEMMA ValidAgent ==
    ASSUME NEW R, Valid(R), NEW d \in Range(R)
    PROVE  /\ Range(d.reviewers) # {} /\ Range(d.reviewers) \subseteq Known
           /\ d.id \notin d.down
           /\ d.id # MAIN => d.id \notin Range(d.reviewers)
  <1>1. /\ d.reviewers # <<>> /\ d.id \notin d.down
        /\ d.id # MAIN => d.id \notin Range(d.reviewers)
    BY AgentChecks DEF Valid
  <1>2. Range(d.reviewers) \subseteq Known
    BY DefinitionChecks DEF Valid, Mentioned
  <1>3. Sequence(d.reviewers)
    <2>1. d \in Texts /\ d # Malformed
      BY DEF Valid, Registries, Range
    <2>2. PICK h \in Histories : \E a \in Known : d \in Range(h[a])
      BY <2>1 DEF Texts
    <2> QED
      BY <2>1, <2>2, RegistryAssumption
  <1>4. Range(d.reviewers) # {}
    BY <1>1, <1>3 DEF Sequence
  <1> QED
    BY <1>1, <1>2, <1>4

\* A set of natural numbers that is not empty has a least element.
LEMMA MinFacts ==
    ASSUME NEW S \in SUBSET Nat, S # {}
    PROVE  Min(S) \in S
  <1> DEFINE Below(x) == {y \in S : y <= x}
             Smaller == StrictSubsetOrdering(Nat)
             Finite == FiniteSubsetsOf(Nat)
             Tops == {Below(x) : x \in S}
  <1> HIDE DEF Below, Smaller, Finite, Tops
  <1>1. \A x \in S : x \in Nat
    OBVIOUS
  <1>2. ASSUME NEW x \in S PROVE Below(x) \subseteq 0..x /\ x \in Below(x)
    <2>1. x <= x /\ \A y \in S : y <= x => y \in 0..x
      BY <1>1
    <2> QED
      BY <2>1 DEF Below
  <1>3. \A x \in S : Below(x) \in Finite
    <2> SUFFICES ASSUME NEW x \in S PROVE Below(x) \in SUBSET Nat /\ IsFiniteSet(Below(x))
      BY DEF Finite, FiniteSubsetsOf
    <2>1. x \in Int /\ 0 \in Int
      BY <1>1
    <2>2. IsFiniteSet(0..x)
      BY <2>1, FS_Interval
    <2>3. IsFiniteSet(Below(x))
      BY <1>2, <2>2, FS_Subset
    <2> QED
      BY <1>2, <2>3
  <1>4. IsWellFoundedOn(Smaller, Finite)
    BY FS_StrictSubsetOrderingWellFounded DEF Smaller, Finite
  <1>5. Tops \subseteq Finite /\ Tops # {}
    BY <1>3 DEF Tops
  <1>6. PICK least \in Tops : \A top \in Tops : <<top, least>> \notin Smaller
    BY <1>4, <1>5, WFMin
  <1>7. PICK x \in S : least = Below(x)
    BY <1>6 DEF Tops
  <1>8. \A y \in S : x =< y
    <2> SUFFICES ASSUME NEW y \in S, ~(x =< y) PROVE FALSE
      OBVIOUS
    <2>1. x \in Nat /\ y \in Nat /\ y < x
      BY <1>1
    <2>2. \A z \in Nat : z <= y => z <= x
      BY <2>1
    <2>3. Below(y) \subseteq Below(x) /\ x \notin Below(y)
      BY <1>1, <2>1, <2>2 DEF Below
    <2>4. Below(y) \in SUBSET Nat /\ Below(x) \in SUBSET Nat
      BY <1>2, <2>1
    <2>5. Below(y) # Below(x)
      BY <1>2, <2>3
    <2>6. <<Below(y), Below(x)>> \in Smaller
      BY <2>3, <2>4, <2>5 DEF Smaller, StrictSubsetOrdering
    <2>7. Below(y) \in Tops
      BY DEF Tops
    <2> QED
      BY <1>6, <1>7, <2>6, <2>7
  <1> QED
    BY <1>8 DEF Min

\* The agent that route_task names takes the work from the source, and is neither the source
\* nor, MAIN excepted, one of its own reviewers.
LEMMA RouteFacts ==
    ASSUME NEW R, Valid(R), NEW source, NEW type, route_task(R, source, type) # None
    PROVE  LET a == route_task(R, source, type)
           IN  a # source /\ (a # MAIN => a \notin Range(get_agent(R, a).reviewers))
  <1> DEFINE fit == {i \in DOMAIN R : validate_agent_route(R, source, R[i].id, type)}
             a == R[Min(fit)].id
  <1>1. fit # {} /\ route_task(R, source, type) = a
    BY DEF route_task
  <1>2. Min(fit) \in fit
    <2>1. fit \in SUBSET Nat
      BY ValidIds
    <2> HIDE DEF fit
    <2> QED
      BY <1>1, <2>1, MinFacts
  <1>3. validate_agent_route(R, source, a, type)
    BY <1>2
  <1> HIDE DEF a
  <1>4. Has(R, source) /\ Has(R, a) /\ a \in get_agent(R, source).down
    BY <1>3 DEF validate_agent_route
  <1>5. a # source
    BY <1>4, GetAgentFacts, ValidAgent
  <1>6. a # MAIN => a \notin Range(get_agent(R, a).reviewers)
    BY <1>4, GetAgentFacts, ValidAgent
  <1> QED
    BY <1>1, <1>5, <1>6

-----------------------------------------------------------------------------
(* The properties of the runs. *)

\* When no file goes back to an earlier text, a registry that MAIN runs under is what the
\* definition files said together at some instant.
THEOREM RegistryReadyCoherent ==
    ASSUME TextsDistinct
    PROVE  Spec => []ReadyCoherent
  <1>1. RegistryInv => ReadyCoherent
    BY DEF RegistryInv, ReadyValid, ReadyCoherent
  <1> QED
    BY <1>1, RegistryInvariant, PTL

\* A valid registry has each known agent once: its ids are known and distinct, and there are
\* as many definitions as directories.
LEMMA EachAgentOnce ==
    ASSUME NEW R, Valid(R), NEW a \in Known
    PROVE  Cardinality({i \in DOMAIN R : R[i].id = a}) = 1
  <1> DEFINE n == Len(AgentIds)
             ids == [i \in 1..n |-> R[i].id]
  <1>1. n \in Nat /\ DOMAIN R = 1..n /\ DOMAIN AgentIds = 1..n
    BY ValidIds, RegistryAssumption DEF Sequence
  <1>2. ids \in [1..n -> Known] /\ \A i, j \in 1..n : ids[i] = ids[j] => i = j
    BY <1>1, ValidIds
  <1>3. \A i \in 1..n : ids[i] = R[i].id
    OBVIOUS
  <1>4. AgentIds \in [1..n -> Known] /\ \A b \in Known : \E i \in 1..n : AgentIds[i] = b
    <2>1. AgentIds \in Seq(Known)
      BY RegistryAssumption DEF Sequence, Known
    <2>2. \A b \in Known : \E i \in DOMAIN AgentIds : AgentIds[i] = b
      BY DEF Known, Range
    <2> QED
      BY <1>1, <2>1, <2>2
  <1> HIDE DEF n, ids
  <1>5. ids \in Injection(1..n, Known)
    BY <1>2 DEF Injection, IsInjective
  <1>6. AgentIds \in Surjection(1..n, Known)
    BY <1>4 DEF Surjection
  <1>7. IsFiniteSet(1..n)
    BY <1>1, FS_Interval
  <1>8. IsFiniteSet(Known) /\ Cardinality(Known) <= Cardinality(1..n)
    BY <1>6, <1>7, FS_Surjection
  <1>9. /\ Cardinality(1..n) <= Cardinality(Known)
        /\ Cardinality(1..n) = Cardinality(Known) <=> ids \in Surjection(1..n, Known)
    BY <1>5, <1>8, FS_Injection
  <1>10. Cardinality(1..n) \in Nat /\ Cardinality(Known) \in Nat
    BY <1>7, <1>8, FS_CardinalityType
  <1>11. ids \in Surjection(1..n, Known)
    BY <1>8, <1>9, <1>10
  <1>12. PICK i \in 1..n : ids[i] = a
    BY <1>11 DEF Surjection
  <1>13. {j \in DOMAIN R : R[j].id = a} = {i}
    BY <1>1, <1>2, <1>3, <1>12
  <1> QED
    BY <1>13, FS_Singleton

\* A registry that MAIN runs under has every runtime agent, under its own id, once.
THEOREM RegistryReadyComplete == Spec => []ReadyComplete
  <1>1. RegistryInv => ReadyComplete
    BY EachAgentOnce DEF RegistryInv, ReadyValid, ReadyComplete
  <1> QED
    BY <1>1, RegistryInvariant, PTL

\* A task is routed under the contract that it was planned under.
THEOREM RegistryRoutedAsPlanned == Spec => []RoutedAsPlanned
  <1>1. ASSUME RegistryInv PROVE RoutedAsPlanned
    <2> SUFFICES ASSUME NEW r \in routed
                 PROVE  r.plan.contract[r.task] = Contract(get_agent(r.registry, r.task.agent))
      BY DEF RoutedAsPlanned
    <2>1. /\ r.task \in r.plan.tasks /\ r.plan.registry = r.registry
          /\ r.plan = Plan(r.plan.registry, r.plan.tasks)
      BY <1>1 DEF RegistryInv, RoutedSound, PlansSound, Routable, SamePlanHash
    <2>2. r.plan.contract = [t \in r.plan.tasks |-> Contract(get_agent(r.registry, t.agent))]
      BY <2>1 DEF Plan
    <2> QED
      BY <2>1, <2>2
  <1> QED
    BY <1>1, RegistryInvariant, PTL

\* A task that was routed is reviewed by known agents other than its own.
LEMMA RoutedReviewed ==
    ASSUME RegistryInv, NEW r \in routed
    PROVE  LET d == get_agent(r.registry, r.task.agent)
           IN  /\ Range(d.reviewers) # {} /\ Range(d.reviewers) \subseteq Known \ {r.task.agent}
               /\ ~d.selfApproval
               /\ (\E t \in r.plan.tasks : get_agent(r.registry, t.agent).gate) => r.plan.gate
  <1> DEFINE d == get_agent(r.registry, r.task.agent)
  <1>1. /\ r.plan \in plans /\ r.task \in r.plan.tasks /\ r.plan.registry = r.registry
        /\ Has(r.registry, r.task.agent) /\ r.task.agent \notin Range(d.reviewers)
    BY DEF RegistryInv, RoutedSound, Routable, SamePlanHash
  <1>2. /\ Valid(r.registry) /\ r.plan = Plan(r.registry, r.plan.tasks)
        /\ validate_agent(r.registry, r.task)
    BY <1>1 DEF RegistryInv, PlansSound
  <1>3. Range(d.reviewers) # {} /\ Range(d.reviewers) \subseteq Known
    BY <1>1, <1>2, GetAgentFacts, ValidAgent
  <1>4. ~d.selfApproval
    BY <1>2 DEF validate_agent, CanSelfApprove
  <1>5. r.plan.gate = (\E t \in r.plan.tasks : get_agent(r.registry, t.agent).gate)
    <2>1. Plan(r.registry, r.plan.tasks).gate
            = (\E t \in r.plan.tasks : get_agent(r.registry, t.agent).gate)
      BY Zenon DEF Plan
    <2> QED
      BY <1>2, <2>1
  <1> QED
    BY <1>1, <1>3, <1>4, <1>5

\* Nobody's work is left to its own review: neither the work that was routed nor the work that
\* the manager of a READY process says it would route.
THEOREM RegistryNoSelfReview == Spec => []NoSelfReview
  <1> DEFINE Reviewed(R, a, source) ==
               a # None => a # source /\ (a # MAIN => a \notin Range(get_agent(R, a).reviewers))
  <1>1. ASSUME RegistryInv, NEW p \in Process, Ready(p)
        PROVE  LET R == proc[p].registry
               IN  /\ \A source \in Known, t \in Tasks : Reviewed(R, route_task(R, source, t.type), source)
                   /\ Reviewed(R, HandleManagerQuery(R), MAIN) /\ Reviewed(R, RoutingExplanation(R), MAIN)
    <2> DEFINE R == proc[p].registry
    <2>1. Valid(R)
      BY <1>1 DEF RegistryInv, ReadyValid
    <2> HIDE DEF R
    <2>2. \A source, type : Reviewed(R, route_task(R, source, type), source)
      BY <2>1, RouteFacts
    <2>3. Reviewed(R, RoutingExplanation(R), MAIN)
      BY <2>2 DEF RoutingExplanation
    <2>4. Reviewed(R, HandleManagerQuery(R), MAIN)
      BY DEF HandleManagerQuery, validate_agent, CanSelfApprove
    <2> QED
      BY <2>2, <2>3, <2>4 DEF R
  <1>2. RegistryInv => NoSelfReview
    BY <1>1, RoutedReviewed DEF NoSelfReview
  <1> QED
    BY <1>2, RegistryInvariant, PTL

\* Routed work is under the contract it was planned under, and never left to its own review.
THEOREM RegistryRoutingSound == Spec => []RoutingSound
  BY RegistryRoutedAsPlanned, RegistryNoSelfReview, PTL DEF RoutingSound

=============================================================================
