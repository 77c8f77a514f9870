------------------------------ MODULE PlanOrder ------------------------------
(* The depth-first ordering of a plan's tasks, MainRuntimeManager._validate_and_order_plan.  *)
(* A plan has its tasks in the order given, and for each task the tuple depends_on.           *)
EXTENDS Naturals, Sequences, SequencesExt

CONSTANT Tasks

Plan == [tasks : Seq(Tasks), depends_on : [Tasks -> Seq(Tasks)]]

\* ordered, visiting, and whether "dependency cycle detected" was raised.  The code's visited
\* is the set of the tasks in ordered.
VisitState == [ordered : Seq(Tasks), visiting : SUBSET Tasks, cycle : BOOLEAN]

\* The tasks ids are visited one after the other, up to an exception.
VisitAll(visit, ids, s) ==
    LET after[i \in 0..Len(ids)] ==
          IF i = 0 THEN s
          ELSE IF after[i - 1].cycle THEN after[i - 1]
          ELSE visit[<<ids[i], after[i - 1]>>]
    IN  after[Len(ids)]

\* The body of visit(id), which calls visit: the state it leaves behind, from the state it finds.
VisitOne(visit, plan, id, s) ==
    LET through == VisitAll(visit, plan.depends_on[id], [s EXCEPT !.visiting = @ \cup {id}])
    IN  IF id \in ToSet(s.ordered) THEN s
        ELSE IF id \in s.visiting THEN [s EXCEPT !.cycle = TRUE]
        ELSE IF through.cycle THEN through
        ELSE [through EXCEPT !.visiting = @ \ {id}, !.ordered = Append(@, id)]

\* Faulty: a task is appended before its dependencies are visited.
VisitPreorder(plan) ==
    LET visit[x \in ToSet(plan.tasks) \X VisitState] ==
          LET id == x[1]
              s  == x[2]
          IN  IF id \in ToSet(s.ordered) THEN s
              ELSE VisitAll(visit, plan.depends_on[id], [s EXCEPT !.ordered = Append(@, id)])
    IN  visit

\* visit, on the tasks of a plan.
Visit(plan) ==
    LET visit[x \in ToSet(plan.tasks) \X VisitState] == VisitOne(visit, plan, x[1], x[2])
    IN  visit

NothingVisited == [ordered |-> <<>>, visiting |-> {}, cycle |-> FALSE]

Visited(plan) == VisitAll(Visit(plan), plan.tasks, NothingVisited)

\* The checks before the ordering: at most max_hops tasks, no duplicate, no unknown dependency.
\* The agents of the tasks, and whether they are available, are left out.
WellFormed(plan, max_hops) ==
    /\ Len(plan.tasks) <= max_hops
    /\ IsInjective(plan.tasks)
    /\ \A t \in ToSet(plan.tasks) : ToSet(plan.depends_on[t]) \subseteq ToSet(plan.tasks)

\* The plans that are accepted; the others make execute raise.
ValidPlan(plan, max_hops) == WellFormed(plan, max_hops) /\ ~Visited(plan).cycle

Ordered(plan) == Visited(plan).ordered

\* The order puts every task behind all that it depends on.
DependenciesFirst(plan, ordered) ==
    /\ ordered \in Seq(Tasks)
    /\ \A i \in DOMAIN ordered :
         ToSet(plan.depends_on[ordered[i]]) \subseteq {ordered[j] : j \in 1..i-1}

\* It has every task of the plan once.
EachTaskOnce(plan, ordered) == IsInjective(ordered) /\ ToSet(ordered) = ToSet(plan.tasks)

\* Some tasks of the plan wait for one another.
HasCycle(plan) ==
    \E C \in (SUBSET ToSet(plan.tasks)) \ {{}} :
      \A t \in C : \E d \in C : d \in ToSet(plan.depends_on[t])
=============================================================================
