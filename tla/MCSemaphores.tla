---------------------------- MODULE MCSemaphores ----------------------------
(***************************************************************************)
(* Instances of Semaphores for TLC: the RunnerLimiter of a virtual node    *)
(* with the two semaphores of one object.                                  *)
(***************************************************************************)
EXTENDS Semaphores, TLC

CONSTANTS m1, m2, m3, m4, ordered, unordered

MCTwoMachines == {m1, m2}
MCFourMachines == {m1, m2, m3, m4}

MCChildren == {ordered, unordered}
MCOneChild == {ordered}

\* Machines are told apart by nothing, and so are the two children.
Symmetry == Permutations(MCFourMachines) \cup Permutations(MCChildren)
=============================================================================
