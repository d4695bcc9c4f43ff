-------------------------- MODULE MCTaskScheduler --------------------------
(* TaskScheduler on small instances.                                        *)
EXTENDS TaskSchedulerInv, FiniteSets, TLC

\* The stack blocks are interchangeable: the heap may hand out any of them.
StackSymmetry == Permutations(Stacks)

\* To bound the exploration: tasks hold three stacks only while no tick has
\* been counted and no event signalled.
FewStacksLater == (clock = 0 /\ \A k \in Keys : gen[k] = 0) \/ freeStacks # {}
============================================================================
