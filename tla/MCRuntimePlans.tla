--------------------------- MODULE MCRuntimePlans ----------------------------
(* The plans of the small instances of MainRuntime: requests of two or three tasks. *)
EXTENDS MainRuntime

\* A chain given in the opposite order to its dependencies, two independent tasks, a task that
\* depends on two others, and a cycle, which validation refuses.
MCPlans ==
    { [tasks |-> <<2, 1>>,    depends_on |-> <<  <<>>, <<1>>, <<>>  >>],
      [tasks |-> <<1, 2>>,    depends_on |-> <<  <<>>, <<>>, <<>>  >>],
      [tasks |-> <<3, 1, 2>>, depends_on |-> <<  <<>>, <<>>, <<2, 1>>  >>],
      [tasks |-> <<1, 2>>,    depends_on |-> <<  <<2>>, <<1>>, <<>>  >>] }

\* The first of them alone.
MCChain == {[tasks |-> <<2, 1>>, depends_on |-> <<  <<>>, <<1>>, <<>>  >>]}

MCTasks == 1..3
==============================================================================
