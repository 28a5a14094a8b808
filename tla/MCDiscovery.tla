----------------------------- MODULE MCDiscovery -----------------------------
(* Small instances of Discovery for TLC. *)
EXTENDS Discovery, TLC

\* Valid from the start, from a sender whose clock is ahead, at UNIX_EPOCH, and
\* with a capability out of range.
SmallStamps ==
  {[observed_at |-> 1, ok |-> TRUE], [observed_at |-> 2, ok |-> TRUE],
   [observed_at |-> 0, ok |-> TRUE], [observed_at |-> 1, ok |-> FALSE]}

Symmetric == Permutations(Planes) \cup Permutations(Threads)
=============================================================================
