---------------------------- MODULE MCMainRuntime ----------------------------
(* The instance of MainRuntime, and the ordering of plans that it rests on. *)
EXTENDS MCRuntimePlans

\* Every plan of at most three tasks that depend on at most two each, whether it is valid or not.
SmallPlans ==
    [tasks : UNION {[1..n -> MCTasks] : n \in 0..3},
     depends_on : [MCTasks -> UNION {[1..n -> MCTasks] : n \in 0..2}]]

\* _validate_and_order_plan refuses the plans with a cycle; for the others it puts the
\* dependencies first, and each task once.
ASSUME MCOrderSound ==
    \A pl \in SmallPlans : WellFormed(pl, MaxHops) =>
      IF HasCycle(pl) THEN ~ValidPlan(pl, MaxHops)
      ELSE /\ ValidPlan(pl, MaxHops)
           /\ DependenciesFirst(pl, Ordered(pl)) /\ EachTaskOnce(pl, Ordered(pl))
==============================================================================
