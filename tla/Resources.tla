------------------------------ MODULE Resources ------------------------------
(***************************************************************************)
(* Resource fragments and composites (resource.rs) and the arithmetic the  *)
(* scheduler does on them (scheduler.rs:39-99).                            *)
(*                                                                         *)
(* A fragment is an amount for each kind of resource and a lifetime.  The  *)
(* memory, storage, network and GPU counters saturate at MaxUnits.  The    *)
(* CPU share is a 64-bit float: it counts units of some power of two that  *)
(* divides all the shares in play, and every sum and difference of shares  *)
(* is rounded, exactly as long as it is within the Significand.  A float   *)
(* may also be no share at all: cpu_ok is FALSE for a NaN, infinite or     *)
(* negative one.                                                           *)
(***************************************************************************)
EXTENDS Naturals, Sequences

CONSTANTS
  Dims,         \* the kinds of resource
  Cpu,          \* the one that is a float
  MaxUnits,     \* the largest value of a counter (u64::MAX), and of a share
  Significand,  \* the units a float counts exactly (2^53)
  rounded,      \* what a sum or difference of shares is rounded to
  Unbounded     \* the lifetime None

ASSUME UnitsAssumption == MaxUnits \in Nat
ASSUME UnboundedAssumption == Unbounded \notin Nat

\* Any rounding that is exact within the significand and yields floats.
ASSUME RoundingAssumption ==
  /\ Cpu \in Dims /\ Significand \in Nat
  /\ rounded \in [0..(2 * MaxUnits) -> 0..MaxUnits]
  /\ \A x \in 0..MaxUnits : x <= Significand => rounded[x] = x
  /\ \A x \in 0..(2 * MaxUnits) : rounded[rounded[x]] = rounded[x]

\* The shares are the numbers that need no rounding.
Amounts == {a \in [Dims -> 0..MaxUnits] : rounded[a[Cpu]] = a[Cpu]}
Lifetime == Nat \cup {Unbounded}
ResourceFragment == [amount: Amounts, lifetime: Lifetime, cpu_ok: BOOLEAN]

MinOf(a, b) == IF a <= b THEN a ELSE b

default == [amount |-> [d \in Dims |-> 0], lifetime |-> Unbounded, cpu_ok |-> TRUE]

validate(r) == r.cpu_ok

is_empty(r) == r.amount = [d \in Dims |-> 0]

validate_requirement(r) == validate(r) /\ ~ is_empty(r)

satisfies(r, required) ==
  /\ \A d \in Dims : r.amount[d] >= required.amount[d]
  /\ required.lifetime # Unbounded /\ r.lifetime # Unbounded =>
       r.lifetime >= required.lifetime

shortest(a, b) ==
  IF a = Unbounded THEN b ELSE IF b = Unbounded THEN a ELSE MinOf(a, b)

Plus(r, s) ==
  [amount |-> [d \in Dims |-> IF d = Cpu THEN rounded[r.amount[d] + s.amount[d]]
                             ELSE MinOf(r.amount[d] + s.amount[d], MaxUnits)],
   lifetime |-> shortest(r.lifetime, s.lifetime),
   cpu_ok |-> r.cpu_ok /\ s.cpu_ok]

\* Mutant: nothing is deducted.
remainingAll(required, allocated) == [required EXCEPT !.cpu_ok = TRUE]

\* Mutant: the missing CPU share is not kept from being negative.
remainingSigned(required, allocated) ==
  [amount |-> [d \in Dims |->
     IF allocated.amount[d] < required.amount[d]
     THEN LET rest == required.amount[d] - allocated.amount[d]
          IN  IF d = Cpu THEN rounded[rest] ELSE rest
     ELSE IF d = Cpu THEN required.amount[d] - allocated.amount[d] ELSE 0],
   lifetime |-> required.lifetime, cpu_ok |-> TRUE]

\* What is still missing after allocated; never negative.
remaining(required, allocated) ==
  [amount |-> [d \in Dims |->
     IF allocated.amount[d] >= required.amount[d] THEN 0
     ELSE LET rest == required.amount[d] - allocated.amount[d]
          IN  IF d = Cpu THEN rounded[rest] ELSE rest],
   lifetime |-> required.lifetime, cpu_ok |-> TRUE]

\* Mutant: the lifetimes are not compared.
lives_long_enoughAlways(available, missing) == TRUE

lives_long_enough(available, missing) ==
  available.lifetime # Unbounded /\ missing.lifetime # Unbounded =>
    available.lifetime >= missing.lifetime

\* The share itself; the lifetime is the requirement's, not the offer's.
share(available, missing) ==
  [amount |-> [d \in Dims |-> MinOf(available.amount[d], missing.amount[d])],
   lifetime |-> missing.lifetime, cpu_ok |-> TRUE]

\* allocation_share returns Some.
usable(available, missing) ==
  /\ lives_long_enough(available, missing)
  /\ ~ is_empty(share(available, missing))

\* An allocation names its participant; NoId is the empty string.
NoId == 0

\* compose accepts the allocations.
composable(allocations) ==
  /\ allocations # <<>>
  /\ \A i \in DOMAIN allocations :
       /\ allocations[i].participant_id # NoId
       /\ validate_requirement(allocations[i].resources)
  /\ \A i, j \in DOMAIN allocations :
       allocations[i].participant_id = allocations[j].participant_id => i = j

\* The capacity compose computes.
capacity(allocations) ==
  LET sum[n \in 0..Len(allocations)] ==
        IF n = 0 THEN default ELSE Plus(sum[n - 1], allocations[n].resources)
  IN  sum[Len(allocations)]
=============================================================================
