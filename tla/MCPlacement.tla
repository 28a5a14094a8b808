----------------------------- MODULE MCPlacement -----------------------------
(* Small instances of Placement for TLC. *)
EXTENDS Placement

CONSTANT memory

\* The spacing of the floats around x, and the nearest one, to even when there are
\* two: IEEE 754 with a short significand.
Spacing(x) == CHOOSE u \in {1, 2, 4, 8} : x < u * Significand /\ (u = 1 \/ 2 * x >= u * Significand)
Nearest(x) ==
  LET u == Spacing(x)
      q == x \div u
      up == 2 * (x % u) > u \/ (2 * (x % u) = u /\ q % 2 = 1)
  IN  MinOf(IF up THEN (q + 1) * u ELSE q * u, MaxUnits)
SmallRounding == [x \in 0..(2 * MaxUnits) |-> Nearest(x)]

Fragment(c, m, l) ==
  [amount |-> [d \in Dims |-> IF d = Cpu THEN c ELSE m], lifetime |-> l, cpu_ok |-> TRUE]
Invalid == [Fragment(1, 1, Unbounded) EXCEPT !.cpu_ok = FALSE]

\* Empty, invalid, in one kind only, in both, at the limit of a counter, and with
\* CPU shares that do not add up exactly: one participant of SmallCapacity can
\* satisfy the third, two or all three the next.
SmallRequirements ==
  {default, Invalid, Fragment(2, 0, Unbounded), Fragment(2, 3, 2), Fragment(2, 2, 1),
   Fragment(1, MaxUnits, 1), Fragment(14, 3, 1)}

SmallFragments ==
  {default, Invalid, Fragment(1, 2, Unbounded), Fragment(3, 1, 1),
   Fragment(MaxUnits, 0, Unbounded), Fragment(0, MaxUnits, Unbounded)}

SmallCapacity ==
  [p \in Ids |-> IF p = 2 THEN Fragment(2, 0, 1) ELSE Fragment(1, 1, Unbounded)]

OfferOf(p, r) == [participant_id |-> p, resources |-> r]

SmallUpserts ==
  {OfferOf(NoId, Fragment(1, 2, Unbounded)), OfferOf(1, Invalid), OfferOf(1, default),
   OfferOf(1, Fragment(2, 1, 1)), OfferOf(2, Fragment(1, 2, Unbounded)),
   OfferOf(2, Fragment(2, 2, 2))}
=============================================================================
