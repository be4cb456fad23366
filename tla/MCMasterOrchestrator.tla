------------------------ MODULE MCMasterOrchestrator ------------------------
(***************************************************************************)
(* An instance of MasterOrchestrator: the graphs of the decomposer, and    *)
(* those of the tests of the scheduler and of the deadlock detection.      *)
(***************************************************************************)
EXTENDS MasterOrchestrator

Shipped == {decompose(goal) : goal \in Goal}

Sub(dependencies) == SubTask(dependencies, 1)

Parallel == [s \in 1 .. 4 |-> Sub({})]
Circular == <<Sub({2}), Sub({1}), Sub({})>>
Unknown  == <<Sub({}), Sub({1, 9})>>

MCGraphs == Shipped \cup {Parallel, Circular, Unknown}
==============================================================================
