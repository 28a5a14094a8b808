---------------------------- MODULE MCControlPlane ----------------------------
(* Small instances of ControlPlane for TLC. *)
EXTENDS ControlPlane, TLC

CONSTANTS p1, p2

\* One allocation, two, and (a Scheduler of another crate may return it) two on
\* the same participant, which from_leased_node refuses.
SplitPlans == {<<p1, p2>>, <<p1, p1>>}
SinglePlans == {<<p1>>}

\* The threads are interchangeable.
ThreadSymmetry == Permutations(Threads)
=============================================================================
