---------------------------- MODULE SchedulerProofs ----------------------------
(***************************************************************************)
(* Lemmas about Scheduler: what the sums of fragments and offers compute,  *)
(* for lists of any length, and what each step of a plan call preserves.   *)
(* PlacementProofs puts them together with the fabrics.                    *)
(***************************************************************************)
EXTENDS Scheduler, WellFoundedInduction, TLAPS

-----------------------------------------------------------------------------
\* Induction and recursion over the natural numbers, with sets and functions in
\* the place of predicates and operators.

\* The order of the natural numbers is well-founded.
LEMMA LessWellFounded ==
  \E R : /\ IsWellFoundedOn(R, Nat)
         /\ \A x, y \in Nat : <<y, x>> \in R <=> y < x
<1>1. \A x, y \in Nat : <<y, x>> \in OpToRel(<, Nat) <=> y < x
  BY DEF OpToRel
<1>2. QED
  BY <1>1, NatLessThanWellFounded

\* A set of natural numbers has a least element.
LEMMA Least ==
  ASSUME NEW S \in SUBSET Nat, S # {}
  PROVE  \E n \in S : \A m \in S : n <= m
<1>1. PICK R : /\ IsWellFoundedOn(R, Nat)
               /\ \A x, y \in Nat : <<y, x>> \in R <=> y < x
  BY LessWellFounded
<1>2. PICK n \in S : \A m \in S : ~ (<<m, n>> \in R)
  BY <1>1, WFMin
<1>3. \A m \in S : ~ (m < n)
  BY <1>1, <1>2, Zenon
<1>4. \A m \in S : n <= m
  BY <1>3
<1>5. QED
  BY <1>4

\* A set of natural numbers that holds 0 and the successors of its elements holds
\* them all.
LEMMA Induct ==
  ASSUME NEW S \in SUBSET Nat, 0 \in S, \A n \in S : n + 1 \in S
  PROVE  S = Nat
<1>1. SUFFICES ASSUME Nat \ S # {} PROVE FALSE
  OBVIOUS
<1>2. PICK n \in Nat \ S : \A m \in Nat \ S : n <= m
  BY <1>1, Least
<1>3. n - 1 \in S
  BY <1>2
<1>4. QED
  BY <1>2, <1>3

\* f runs from start through the steps of step.
Runs(f, N, start, step) ==
  f[0] = start /\ \A i \in 1..N : f[i] = step[i][f[i - 1]]

\* A recursion over 0..N has a solution.
LEMMA RecursionExists ==
  ASSUME NEW N \in Nat, NEW V, NEW start \in V, NEW step \in [1..N -> [V -> V]]
  PROVE  \E f \in [0..N -> V] : Runs(f, N, start, step)
<1> DEFINE S == {n \in Nat : n <= N => \E f \in [0..n -> V] : Runs(f, n, start, step)}
<1>1. 0 \in S
  <2>1. PICK f : f = [i \in 0..0 |-> start]
    OBVIOUS
  <2>2. f \in [0..0 -> V] /\ Runs(f, 0, start, step)
    BY <2>1 DEF Runs
  <2>3. QED
    BY <2>2
<1>2. ASSUME NEW n \in S
      PROVE  n + 1 \in S
  <2>1. SUFFICES ASSUME n + 1 <= N
                 PROVE  \E f \in [0..(n + 1) -> V] : Runs(f, n + 1, start, step)
    OBVIOUS
  <2>2. PICK f \in [0..n -> V] : Runs(f, n, start, step)
    BY <2>1
  <2>3. PICK g : g = [i \in 0..(n + 1) |-> IF i <= n THEN f[i] ELSE step[n + 1][f[n]]]
    OBVIOUS
  <2>4. n \in Nat /\ n + 1 \in 1..N /\ n \in 0..n
    BY <2>1
  <2>5. step[n + 1][f[n]] \in V
    BY <2>4
  <2>6. g \in [0..(n + 1) -> V]
    BY <2>3, <2>4, <2>5
  <2>7. g[0] = start
    BY <2>2, <2>3, <2>4 DEF Runs
  <2>8. ASSUME NEW i \in 1..(n + 1)
        PROVE  g[i] = step[i][g[i - 1]]
    <3>1. g[i - 1] = f[i - 1]
      BY <2>3, <2>4
    <3>2. CASE i <= n
      BY <2>2, <2>3, <2>4, <3>1, <3>2 DEF Runs
    <3>3. CASE i = n + 1
      BY <2>3, <2>4, <3>1, <3>3
    <3>4. QED
      BY <2>4, <3>2, <3>3
  <2>9. QED
    BY <2>6, <2>7, <2>8 DEF Runs
<1>3. S = Nat
  <2>1. S \in SUBSET Nat
    OBVIOUS
  <2> HIDE DEF S
  <2>2. QED
    BY <1>1, <1>2, <2>1, Induct
<1>4. QED
  BY <1>3

-----------------------------------------------------------------------------
\* The capacity of a list of allocations.

\* The running capacity that capacity computes.
IsRunning(f, A) ==
  f = [n \in 0..Len(A) |-> IF n = 0 THEN default ELSE Plus(f[n - 1], A[n].resources)]

\* Fragments: the default, and what Plus makes of two.
LEMMA FragmentTypes ==
  /\ default \in ResourceFragment
  /\ \A r, s \in ResourceFragment : Plus(r, s) \in ResourceFragment
<1>1. default \in ResourceFragment
  <2>1. 0 \in 0..MaxUnits /\ Cpu \in Dims /\ rounded[0] = 0
    BY UnitsAssumption, RoundingAssumption
  <2>2. [d \in Dims |-> 0] \in Amounts
    BY <2>1 DEF Amounts
  <2>3. QED
    BY <2>2 DEF default, ResourceFragment, Lifetime
<1>2. ASSUME NEW r \in ResourceFragment, NEW s \in ResourceFragment
      PROVE  Plus(r, s) \in ResourceFragment
  <2>1. \A d \in Dims : r.amount[d] \in 0..MaxUnits /\ s.amount[d] \in 0..MaxUnits
    BY DEF ResourceFragment, Amounts
  <2>2. Plus(r, s).amount \in Amounts
    <3>1. Cpu \in Dims /\ r.amount[Cpu] + s.amount[Cpu] \in 0..(2 * MaxUnits)
      BY <2>1, UnitsAssumption, RoundingAssumption
    <3>2. PICK q : q = rounded[r.amount[Cpu] + s.amount[Cpu]]
      OBVIOUS
    <3>3. q \in 0..MaxUnits /\ rounded[q] = q
      BY <3>1, <3>2, RoundingAssumption
    <3>4. Plus(r, s).amount = [d \in Dims |-> IF d = Cpu THEN q
                                              ELSE MinOf(r.amount[d] + s.amount[d], MaxUnits)]
      BY <3>2 DEF Plus
    <3>5. ASSUME NEW d \in Dims
          PROVE  MinOf(r.amount[d] + s.amount[d], MaxUnits) \in 0..MaxUnits
      <4>1. PICK a \in Nat, b \in Nat : a = r.amount[d] /\ b = s.amount[d]
        BY <2>1, UnitsAssumption
      <4>2. MinOf(a + b, MaxUnits) \in 0..MaxUnits
        BY UnitsAssumption DEF MinOf
      <4>3. QED
        BY <4>1, <4>2
    <3>6. Plus(r, s).amount \in [Dims -> 0..MaxUnits] /\ Plus(r, s).amount[Cpu] = q
      BY <3>1, <3>3, <3>4, <3>5
    <3>7. QED
      BY <3>3, <3>6 DEF Amounts
  <2>3. shortest(r.lifetime, s.lifetime) \in Lifetime
    BY DEF shortest, ResourceFragment, Lifetime, MinOf
  <2>4. (r.cpu_ok /\ s.cpu_ok) \in BOOLEAN
    OBVIOUS
  <2>5. QED
    BY <2>2, <2>3, <2>4 DEF Plus, ResourceFragment
<1>3. QED
  BY <1>1, <1>2

\* What capacity adds up exists.
LEMMA RunningExists ==
  ASSUME NEW A \in Seq(Allocation)
  PROVE  \E f : IsRunning(f, A)
<1> DEFINE V == ResourceFragment
<1>1. PICK step : step = [i \in 1..Len(A) |-> [x \in V |-> Plus(x, A[i].resources)]]
  OBVIOUS
<1>2. Len(A) \in Nat /\ \A i \in 1..Len(A) : A[i] \in Allocation
  OBVIOUS
<1>3. \A i \in 1..Len(A) : A[i].resources \in V
  BY <1>2 DEF Allocation
<1>4. step \in [1..Len(A) -> [V -> V]]
  BY <1>1, <1>3, FragmentTypes
<1>5. default \in V
  BY FragmentTypes
<1> HIDE DEF V
<1>6. PICK f \in [0..Len(A) -> V] : Runs(f, Len(A), default, step)
  BY <1>2, <1>4, <1>5, RecursionExists
<1>7. ASSUME NEW n \in 0..Len(A)
      PROVE  f[n] = IF n = 0 THEN default ELSE Plus(f[n - 1], A[n].resources)
  <2>1. CASE n = 0
    BY <1>6, <2>1 DEF Runs
  <2>2. CASE n # 0
    <3>1. n \in 1..Len(A) /\ n - 1 \in 0..Len(A)
      BY <1>2, <2>2
    <3>2. f[n - 1] \in V
      BY <3>1
    <3>3. QED
      BY <1>1, <1>6, <2>2, <3>1, <3>2 DEF Runs
  <2>3. QED
    BY <2>1, <2>2
<1>8. f = [n \in 0..Len(A) |-> f[n]]
  OBVIOUS
<1>9. QED
  BY <1>7, <1>8 DEF IsRunning

\* capacity is the last running capacity, whichever solution is taken.
LEMMA CapacityIs ==
  ASSUME NEW A \in Seq(Allocation)
  PROVE  \E f : IsRunning(f, A) /\ capacity(A) = f[Len(A)]
<1>1. PICK f : f = CHOOSE g : IsRunning(g, A)
  OBVIOUS
<1>2. IsRunning(f, A)
  BY <1>1, RunningExists
<1>3. capacity(A) = f[Len(A)]
  BY <1>1 DEF capacity, IsRunning
<1>4. QED
  BY <1>2, <1>3

\* Two running capacities agree on a common prefix.
LEMMA RunningAgree ==
  ASSUME NEW A \in Seq(Allocation), NEW B \in Seq(Allocation), NEW n \in 0..Len(A),
         n <= Len(B), \A i \in 1..n : A[i] = B[i],
         NEW f, NEW g, IsRunning(f, A), IsRunning(g, B)
  PROVE  f[n] = g[n]
<1> DEFINE S == {k \in Nat : k <= n => f[k] = g[k]}
<1>1. 0 \in S
  BY DEF IsRunning
<1>2. ASSUME NEW k \in S
      PROVE  k + 1 \in S
  <2>1. SUFFICES ASSUME k + 1 <= n
                 PROVE  f[k + 1] = g[k + 1]
    OBVIOUS
  <2>2. /\ f[k] = g[k] /\ (k + 1) - 1 = k /\ k + 1 # 0 /\ k + 1 \in 1..n
        /\ k + 1 \in 0..Len(A) /\ k + 1 \in 0..Len(B)
    BY <2>1
  <2>3. f[k + 1] = Plus(f[k], A[k + 1].resources) /\ g[k + 1] = Plus(g[k], B[k + 1].resources)
    BY <2>2 DEF IsRunning
  <2>4. QED
    BY <2>2, <2>3
<1>3. S = Nat
  <2>1. S \in SUBSET Nat
    OBVIOUS
  <2> HIDE DEF S
  <2>2. QED
    BY <1>1, <1>2, <2>1, Induct
<1>4. QED
  BY <1>3

\* One more allocation adds its resources to the capacity (resource.rs:267-272).
LEMMA CapacityAppend ==
  ASSUME NEW A \in Seq(Allocation), NEW a \in Allocation
  PROVE  capacity(Append(A, a)) = Plus(capacity(A), a.resources)
<1>0. Append(A, a) \in Seq(Allocation)
  OBVIOUS
<1>1. PICK B \in Seq(Allocation) : B = Append(A, a)
  BY <1>0
<1>2. /\ Len(B) = Len(A) + 1 /\ Len(A) \in Nat /\ B[Len(B)] = a
      /\ \A i \in 1..Len(A) : A[i] = B[i]
  BY <1>1
<1>3. PICK f : IsRunning(f, A) /\ capacity(A) = f[Len(A)]
  BY CapacityIs
<1>4. PICK g : IsRunning(g, B) /\ capacity(B) = g[Len(B)]
  BY CapacityIs
<1>5. g[Len(A)] = f[Len(A)]
  <2>1. Len(A) \in 0..Len(A) /\ Len(A) <= Len(B)
    BY <1>2
  <2>2. QED
    BY <1>2, <1>3, <1>4, <2>1, RunningAgree
<1>6. g[Len(B)] = Plus(g[Len(A)], B[Len(B)].resources)
  <2>1. Len(B) \in 0..Len(B) /\ Len(B) # 0 /\ Len(B) - 1 = Len(A)
    BY <1>2
  <2>2. QED
    BY <1>4, <2>1 DEF IsRunning
<1>7. QED
  BY <1>1, <1>2, <1>3, <1>4, <1>5, <1>6

\* The capacity of no allocation is empty and lasts for ever.
LEMMA CapacityEmpty == capacity(<<>>) = default
<1>1. <<>> \in Seq(Allocation) /\ Len(<<>>) = 0
  OBVIOUS
<1>2. PICK f : IsRunning(f, <<>>) /\ capacity(<<>>) = f[Len(<<>>)]
  BY <1>1, CapacityIs
<1>3. f[0] = default
  BY <1>1, <1>2 DEF IsRunning
<1>4. QED
  BY <1>1, <1>2, <1>3

-----------------------------------------------------------------------------
\* What a list of offers adds up to.

OfferList == Seq(ResourceOffer)

\* What offer i of list o contributes to resource d of requirement r, when only
\* the offers at positions in S count.
Term(o, r, S, d, i) ==
  IF i \in S /\ lives_long_enough(o[i].resources, r) THEN o[i].resources.amount[d] ELSE 0

\* f holds the sums of the first terms.
IsSum(f, o, r, S, d) ==
  f = [i \in 0..Len(o) |-> IF i = 0 THEN 0 ELSE f[i - 1] + Term(o, r, S, d, i)]

\* The sum of the first k terms.
Sum(o, r, S, d, k) == (CHOOSE f : IsSum(f, o, r, S, d))[k]

\* Offered is the whole sum.
LEMMA OfferedIs ==
  ASSUME NEW S, NEW d
  PROVE  Offered(S, d) = Sum(offers, requirement, S, d, Len(offers))
  BY DEF Offered, Sum, IsSum, Term

\* The terms are numbers.
LEMMA TermType ==
  ASSUME NEW o \in OfferList, NEW r, NEW S, NEW d \in Dims, NEW i \in 1..Len(o)
  PROVE  Term(o, r, S, d, i) \in Nat
<1>1. o[i] \in ResourceOffer
  BY DEF OfferList
<1>2. o[i].resources.amount[d] \in 0..MaxUnits
  BY <1>1 DEF ResourceOffer, ResourceFragment, Amounts
<1>3. QED
  BY <1>2, UnitsAssumption DEF Term

\* The sums exist, and are numbers that grow by one term after the other.
LEMMA SumIs ==
  ASSUME NEW o \in OfferList, NEW r, NEW S, NEW d \in Dims
  PROVE  /\ Sum(o, r, S, d, 0) = 0
         /\ \A i \in 1..Len(o) : Sum(o, r, S, d, i) = Sum(o, r, S, d, i - 1) + Term(o, r, S, d, i)
         /\ \A i \in 0..Len(o) : Sum(o, r, S, d, i) \in Nat
<1>1. Len(o) \in Nat
  BY DEF OfferList
<1>2. PICK step : step = [i \in 1..Len(o) |-> [x \in Nat |-> x + Term(o, r, S, d, i)]]
  OBVIOUS
<1>3. step \in [1..Len(o) -> [Nat -> Nat]]
  BY <1>2, TermType
<1>4. PICK f \in [0..Len(o) -> Nat] : Runs(f, Len(o), 0, step)
  BY <1>1, <1>3, RecursionExists
<1>5. ASSUME NEW n \in 0..Len(o)
      PROVE  f[n] = IF n = 0 THEN 0 ELSE f[n - 1] + Term(o, r, S, d, n)
  <2>1. CASE n = 0
    BY <1>4, <2>1 DEF Runs
  <2>2. CASE n # 0
    <3>1. n \in 1..Len(o) /\ n - 1 \in 0..Len(o)
      BY <1>1, <2>2
    <3>2. f[n - 1] \in Nat
      BY <3>1
    <3>3. QED
      BY <1>2, <1>4, <2>2, <3>1, <3>2 DEF Runs
  <2>3. QED
    BY <2>1, <2>2
<1>6. IsSum(f, o, r, S, d)
  <2>1. f = [n \in 0..Len(o) |-> f[n]]
    OBVIOUS
  <2>2. QED
    BY <1>5, <2>1 DEF IsSum
<1>7. PICK g : g = CHOOSE h : IsSum(h, o, r, S, d)
  OBVIOUS
<1>8. IsSum(g, o, r, S, d)
  BY <1>6, <1>7
<1>9. \A i \in 0..Len(o) : g[i] = IF i = 0 THEN 0 ELSE g[i - 1] + Term(o, r, S, d, i)
  BY <1>8 DEF IsSum
<1>10. g[0] = 0 /\ \A i \in 1..Len(o) : g[i] = g[i - 1] + Term(o, r, S, d, i)
  BY <1>1, <1>9
<1>11. \A i \in 0..Len(o) : g[i] \in Nat
  <2> DEFINE K == {k \in Nat : k <= Len(o) => g[k] \in Nat}
  <2>1. 0 \in K
    BY <1>10
  <2>2. ASSUME NEW k \in K
        PROVE  k + 1 \in K
    <3>1. SUFFICES ASSUME k + 1 <= Len(o)
                   PROVE  g[k + 1] \in Nat
      OBVIOUS
    <3>2. k + 1 \in 1..Len(o) /\ (k + 1) - 1 = k /\ g[k] \in Nat
      BY <1>1, <3>1
    <3>3. Term(o, r, S, d, k + 1) \in Nat
      BY <3>2, TermType
    <3>4. QED
      BY <1>10, <3>2, <3>3
  <2>3. K = Nat
    <3>1. K \in SUBSET Nat
      OBVIOUS
    <3> HIDE DEF K
    <3>2. QED
      BY <2>1, <2>2, <3>1, Induct
  <2>4. QED
    BY <1>1, <2>3
<1>12. \A i : Sum(o, r, S, d, i) = g[i]
  BY <1>7 DEF Sum
<1>13. QED
  BY <1>10, <1>11, <1>12

\* The sums never shrink.
LEMMA SumGrows ==
  ASSUME NEW o \in OfferList, NEW r, NEW S, NEW d \in Dims, NEW j \in 0..Len(o), NEW k \in j..Len(o)
  PROVE  Sum(o, r, S, d, j) <= Sum(o, r, S, d, k)
<1>1. PICK g : g = [i \in 0..Len(o) |-> Sum(o, r, S, d, i)]
  OBVIOUS
<1>2. Len(o) \in Nat
  BY DEF OfferList
<1>3. /\ g \in [0..Len(o) -> Nat]
      /\ \A i \in 1..Len(o) : g[i] = g[i - 1] + Term(o, r, S, d, i)
  BY <1>1, <1>2, SumIs
<1> DEFINE K == {m \in Nat : j + m <= Len(o) => g[j] <= g[j + m]}
<1>4. 0 \in K
  BY <1>2, <1>3
<1>5. ASSUME NEW m \in K
      PROVE  m + 1 \in K
  <2>1. SUFFICES ASSUME j + (m + 1) <= Len(o)
                 PROVE  g[j] <= g[j + (m + 1)]
    OBVIOUS
  <2>2. /\ j + (m + 1) \in 1..Len(o) /\ (j + (m + 1)) - 1 = j + m /\ j + m \in 0..Len(o)
        /\ g[j] <= g[j + m]
    BY <1>2, <2>1
  <2>3. Term(o, r, S, d, j + (m + 1)) \in Nat
    BY <2>2, TermType
  <2>4. g[j + (m + 1)] = g[j + m] + Term(o, r, S, d, j + (m + 1)) /\ g[j] \in Nat /\ g[j + m] \in Nat
    BY <1>3, <2>2
  <2>5. QED
    BY <2>2, <2>3, <2>4
<1>6. K = Nat
  <2>1. K \in SUBSET Nat
    OBVIOUS
  <2> HIDE DEF K
  <2>2. QED
    BY <1>4, <1>5, <2>1, Induct
<1>7. k - j \in Nat /\ j + (k - j) = k /\ k \in 0..Len(o)
  BY <1>2
<1>8. g[j] <= g[k]
  <2>1. k - j \in K
    BY <1>6, <1>7
  <2>2. g[j] <= g[j + (k - j)]
    BY <1>2, <1>7, <2>1
  <2>3. QED
    BY <1>7, <2>2
<1>9. QED
  BY <1>1, <1>7, <1>8

\* When only the first offers count, the whole sum is the sum of those.
LEMMA SumOfFirst ==
  ASSUME NEW o \in OfferList, NEW r, NEW d \in Dims, NEW n \in 0..Len(o)
  PROVE  Sum(o, r, 1..n, d, Len(o)) = Sum(o, r, DOMAIN o, d, n)
<1>1. Len(o) \in Nat /\ DOMAIN o = 1..Len(o)
  BY DEF OfferList
<1>2. PICK g : g = [i \in 0..Len(o) |-> Sum(o, r, 1..n, d, i)]
  OBVIOUS
<1>3. PICK h : h = [i \in 0..Len(o) |-> Sum(o, r, DOMAIN o, d, i)]
  OBVIOUS
<1>4. /\ g[0] = 0 /\ g \in [0..Len(o) -> Nat]
      /\ \A i \in 1..Len(o) : g[i] = g[i - 1] + Term(o, r, 1..n, d, i)
  BY <1>1, <1>2, SumIs
<1>5. /\ h[0] = 0 /\ h \in [0..Len(o) -> Nat]
      /\ \A i \in 1..Len(o) : h[i] = h[i - 1] + Term(o, r, DOMAIN o, d, i)
  BY <1>1, <1>3, SumIs
<1>6. \A i \in 1..n : Term(o, r, 1..n, d, i) = Term(o, r, DOMAIN o, d, i)
  BY <1>1 DEF Term
<1>7. \A i \in 1..Len(o) : i > n => Term(o, r, 1..n, d, i) = 0
  BY <1>1 DEF Term
<1> DEFINE K == {k \in Nat : k <= Len(o) => g[k] = IF k <= n THEN h[k] ELSE h[n]}
<1>8. 0 \in K
  BY <1>4, <1>5
<1>9. ASSUME NEW k \in K
      PROVE  k + 1 \in K
  <2>1. SUFFICES ASSUME k + 1 <= Len(o)
                 PROVE  g[k + 1] = IF k + 1 <= n THEN h[k + 1] ELSE h[n]
    OBVIOUS
  <2>2. /\ k + 1 \in 1..Len(o) /\ (k + 1) - 1 = k /\ k \in 0..Len(o)
        /\ g[k] = IF k <= n THEN h[k] ELSE h[n]
    BY <1>1, <2>1
  <2>3. g[k + 1] = g[k] + Term(o, r, 1..n, d, k + 1) /\ g[k] \in Nat
    BY <1>4, <2>2
  <2>4. CASE k + 1 <= n
    <3>1. h[k + 1] = h[k] + Term(o, r, DOMAIN o, d, k + 1)
      BY <1>5, <2>2
    <3>2. k + 1 \in 1..n /\ k <= n
      BY <2>4
    <3>3. QED
      BY <1>6, <2>2, <2>3, <2>4, <3>1, <3>2
  <2>5. CASE ~ (k + 1 <= n)
    <3>1. k + 1 > n /\ (k <= n => k = n)
      BY <2>5
    <3>2. Term(o, r, 1..n, d, k + 1) = 0
      BY <1>7, <2>2, <3>1
    <3>3. g[k] = h[n]
      BY <2>2, <3>1
    <3>4. QED
      BY <2>3, <2>5, <3>2, <3>3
  <2>6. QED
    BY <2>4, <2>5
<1>10. K = Nat
  <2>1. K \in SUBSET Nat
    OBVIOUS
  <2> HIDE DEF K
  <2>2. QED
    BY <1>8, <1>9, <2>1, Induct
<1>11. g[Len(o)] = h[n]
  BY <1>1, <1>10
<1>12. QED
  BY <1>1, <1>2, <1>3, <1>11

-----------------------------------------------------------------------------
\* The inductive invariant of a plan call.

\* The kinds of resource that are counted exactly for requirement r.
ExactFor(r) == IF r.amount[Cpu] <= Significand THEN Dims ELSE Dims \ {Cpu}

\* What sum s leaves missing of amount r.
Deficit(r, s) == IF s >= r THEN 0 ELSE r - s

\* What offer i gives of d when those before it are used up first.
Due(o, r, i, d) ==
  IF lives_long_enough(o[i].resources, r)
  THEN MinOf(o[i].resources.amount[d], Deficit(r.amount[d], Sum(o, r, DOMAIN o, d, i - 1)))
  ELSE 0

\* Allocation a is a part of offer i.
PartOf(o, r, i, a) ==
  /\ a.participant_id = o[i].participant_id
  /\ lives_long_enough(o[i].resources, r)
  /\ validate_requirement(a.resources)
  /\ \A d \in Dims : a.resources.amount[d] <= o[i].resources.amount[d]

\* What offer i gives of d is what is due; none of it is allocated when nothing is.
Gives(o, r, i, d, A) ==
  \/ Due(o, r, i, d) = 0 /\ \A a \in 1..Len(A) : A[a].participant_id # o[i].participant_id
  \/ \E a \in 1..Len(A) : /\ A[a].participant_id = o[i].participant_id
                          /\ A[a].resources.amount[d] = Due(o, r, i, d)

\* After n - 1 turns of the loop over o for r: the total t is what the offers so
\* far add up to, as far as it is required, and the allocations A are the parts of
\* the offers used.
TotalOk(o, r, n, t, A) ==
  /\ \A d \in ExactFor(r) : t.amount[d] = MinOf(r.amount[d], Sum(o, r, DOMAIN o, d, n - 1))
  /\ t.lifetime = IF A = <<>> THEN Unbounded ELSE r.lifetime
  /\ t = capacity(A)
PartsOk(o, r, n, A) ==
  /\ \A a \in 1..Len(A) : \E i \in 1..(n - 1) : PartOf(o, r, i, A[a])
  /\ \A i \in 1..(n - 1), d \in ExactFor(r) : Gives(o, r, i, d, A)
  /\ \A a, b \in 1..Len(A) : A[a].participant_id = A[b].participant_id => a = b

Ordered(o) ==
  \A i, j \in 1..Len(o) : i < j => o[i].participant_id <= o[j].participant_id

Looping == pc = "allocate" \/ result \in {"planned", "InsufficientResources"}

\* The offers the loop runs over are sorted and were all validated.
OffersOk == Looping => validate_requirement(requirement) /\ valid_offers(offers) /\ Ordered(offers)

\* The loop has taken exactly what its running total says, offer by offer.
LoopOk ==
  Looping => /\ TotalOk(offers, requirement, next, total, allocations)
             /\ PartsOk(offers, requirement, next, allocations)

\* How a call starts and ends.
CallOk ==
  /\ pc = "offers" => /\ validate_requirement(requirement)
                      /\ next = 1 /\ total = default /\ allocations = <<>>
  /\ pc # "idle" => result = "none"
  /\ result = "planned" => satisfies(total, requirement) /\ allocations # <<>>
  /\ result = "InsufficientResources" => ~ satisfies(total, requirement) /\ next > Len(offers)

\* The part of the invariant that is about the scheduler.
SInv == TypeOK /\ OffersOk /\ LoopOk /\ CallOk

-----------------------------------------------------------------------------
\* One turn of the loop, in numbers.

\* Amounts are numbers.
LEMMA AmountTypes ==
  ASSUME NEW r \in ResourceFragment, NEW d \in Dims
  PROVE  r.amount[d] \in Nat /\ r.amount[d] <= MaxUnits /\ MaxUnits \in Nat
  BY UnitsAssumption DEF ResourceFragment, Amounts

\* The offers of a list and their fragments.
LEMMA OfferTypes ==
  ASSUME NEW o \in OfferList, NEW i \in 1..Len(o)
  PROVE  /\ o[i] \in ResourceOffer /\ o[i].resources \in ResourceFragment
         /\ o[i].participant_id \in Ids \cup {NoId}
<1>1. o[i] \in ResourceOffer
  BY DEF OfferList
<1>2. QED
  BY <1>1 DEF ResourceOffer

\* What is missing is again a number of units, and a float where it is one; what is
\* counted exactly is not rounded.
LEMMA RemainingIs ==
  ASSUME NEW r \in ResourceFragment, NEW t \in ResourceFragment
  PROVE  /\ \A d \in Dims : remaining(r, t).amount[d] \in 0..MaxUnits
         /\ rounded[remaining(r, t).amount[Cpu]] = remaining(r, t).amount[Cpu]
         /\ \A d \in ExactFor(r) :
              remaining(r, t).amount[d] = Deficit(r.amount[d], t.amount[d])
<1> DEFINE m == remaining(r, t)
<1>1. \A d \in Dims : m.amount[d] =
        IF t.amount[d] >= r.amount[d] THEN 0
        ELSE IF d = Cpu THEN rounded[r.amount[d] - t.amount[d]] ELSE r.amount[d] - t.amount[d]
  BY DEF remaining
<1>2. Cpu \in Dims /\ rounded[0] = 0 /\ 0 \in 0..MaxUnits /\ MaxUnits \in Nat
  BY UnitsAssumption, RoundingAssumption
<1> HIDE DEF m
<1>3. ASSUME NEW d \in Dims, ~ (t.amount[d] >= r.amount[d])
      PROVE  /\ r.amount[d] - t.amount[d] \in 0..MaxUnits
             /\ r.amount[d] - t.amount[d] \in 0..(2 * MaxUnits)
             /\ r.amount[d] - t.amount[d] <= r.amount[d]
  <2>1. t.amount[d] \in Nat /\ r.amount[d] \in Nat /\ r.amount[d] <= MaxUnits
    BY AmountTypes
  <2>2. QED
    BY <1>2, <1>3, <2>1
<1>4. m.amount[Cpu] \in 0..MaxUnits /\ rounded[m.amount[Cpu]] = m.amount[Cpu]
  <2>1. CASE t.amount[Cpu] >= r.amount[Cpu]
    BY <1>1, <1>2, <2>1
  <2>2. CASE ~ (t.amount[Cpu] >= r.amount[Cpu])
    <3>1. PICK q : q = r.amount[Cpu] - t.amount[Cpu]
      OBVIOUS
    <3>2. q \in 0..(2 * MaxUnits) /\ m.amount[Cpu] = rounded[q]
      BY <1>1, <1>2, <1>3, <2>2, <3>1
    <3>3. QED
      BY <3>2, RoundingAssumption
  <2>3. QED
    BY <2>1, <2>2
<1>5. ASSUME NEW d \in Dims
      PROVE  m.amount[d] \in 0..MaxUnits
  BY <1>1, <1>2, <1>3, <1>4
<1>6. ASSUME NEW d \in ExactFor(r)
      PROVE  m.amount[d] = Deficit(r.amount[d], t.amount[d])
  <2>1. d \in Dims /\ (d = Cpu => r.amount[Cpu] <= Significand)
    BY DEF ExactFor
  <2>2. CASE d # Cpu \/ t.amount[d] >= r.amount[d]
    BY <1>1, <2>1, <2>2 DEF Deficit
  <2>3. CASE d = Cpu /\ ~ (t.amount[d] >= r.amount[d])
    <3>1. PICK q : q = r.amount[d] - t.amount[d]
      OBVIOUS
    <3>2. q \in 0..MaxUnits /\ q <= r.amount[d] /\ r.amount[d] <= Significand
      BY <1>3, <2>1, <2>3, <3>1
    <3>3. r.amount[d] \in Nat /\ Significand \in Nat
      BY <2>1, AmountTypes, RoundingAssumption
    <3>4. q <= Significand
      BY <3>2, <3>3
    <3>5. rounded[q] = q
      BY <3>2, <3>4, RoundingAssumption
    <3>6. QED
      BY <1>1, <2>1, <2>3, <3>1, <3>5 DEF Deficit
  <2>4. QED
    BY <2>2, <2>3
<1>7. QED
  BY <1>4, <1>5, <1>6 DEF m

\* A share is a fragment for the lifetime required and at most the offer.
LEMMA ShareTypes ==
  ASSUME NEW av \in ResourceFragment, NEW r \in ResourceFragment, NEW t \in ResourceFragment
  PROVE  /\ share(av, remaining(r, t)) \in ResourceFragment
         /\ share(av, remaining(r, t)).lifetime = r.lifetime
         /\ validate(share(av, remaining(r, t)))
         /\ lives_long_enough(av, remaining(r, t)) <=> lives_long_enough(av, r)
         /\ \A d \in Dims : share(av, remaining(r, t)).amount[d] <= av.amount[d]
<1> DEFINE m == remaining(r, t)
           part == share(av, m)
<1>1. /\ m.lifetime = r.lifetime /\ part.lifetime = r.lifetime /\ part.cpu_ok = TRUE
      /\ part.amount = [d \in Dims |-> MinOf(av.amount[d], m.amount[d])]
      /\ part = [amount |-> part.amount, lifetime |-> part.lifetime, cpu_ok |-> TRUE]
  BY DEF remaining, share
<1>2. /\ \A d \in Dims : m.amount[d] \in 0..MaxUnits
      /\ rounded[m.amount[Cpu]] = m.amount[Cpu]
  BY RemainingIs
<1> HIDE DEF m, part
<1>3. Cpu \in Dims /\ rounded[av.amount[Cpu]] = av.amount[Cpu]
  BY RoundingAssumption DEF ResourceFragment, Amounts
<1>4. ASSUME NEW d \in Dims
      PROVE  /\ part.amount[d] \in 0..MaxUnits /\ part.amount[d] <= av.amount[d]
             /\ part.amount[d] = av.amount[d] \/ part.amount[d] = m.amount[d]
  <2>1. av.amount[d] \in Nat /\ av.amount[d] <= MaxUnits /\ MaxUnits \in Nat
    BY AmountTypes
  <2>2. part.amount[d] = MinOf(av.amount[d], m.amount[d])
    BY <1>1
  <2>3. QED
    BY <1>2, <2>1, <2>2 DEF MinOf
<1>5. part.amount \in Amounts
  <2>1. part.amount \in [Dims -> 0..MaxUnits]
    BY <1>1, <1>4
  <2>2. rounded[part.amount[Cpu]] = part.amount[Cpu]
    BY <1>2, <1>3, <1>4
  <2>3. QED
    BY <2>1, <2>2 DEF Amounts
<1>6. part \in ResourceFragment
  <2>1. part.lifetime \in Lifetime
    BY <1>1 DEF ResourceFragment
  <2>2. [amount |-> part.amount, lifetime |-> part.lifetime, cpu_ok |-> TRUE] \in ResourceFragment
    BY <1>5, <2>1 DEF ResourceFragment
  <2>3. QED
    BY <1>1, <2>2
<1>7. lives_long_enough(av, m) <=> lives_long_enough(av, r)
  BY <1>1 DEF lives_long_enough
<1>8. validate(part)
  BY <1>1 DEF validate
<1>9. QED
  BY <1>1, <1>4, <1>6, <1>7, <1>8 DEF m, part

\* Adding a share brings what is counted exactly as near to the requirement as the
\* offer can: no counter saturates and no sum is rounded.
LEMMA ShareIs ==
  ASSUME NEW av \in ResourceFragment, NEW r \in ResourceFragment, NEW t \in ResourceFragment,
         NEW d \in ExactFor(r), t.amount[d] <= r.amount[d]
  PROVE  /\ share(av, remaining(r, t)).amount[d]
              = MinOf(av.amount[d], Deficit(r.amount[d], t.amount[d]))
         /\ Plus(t, share(av, remaining(r, t))).amount[d]
              = MinOf(r.amount[d], t.amount[d] + av.amount[d])
         /\ is_empty(share(av, remaining(r, t))) =>
              /\ t.amount[d] = MinOf(r.amount[d], t.amount[d] + av.amount[d])
              /\ MinOf(av.amount[d], Deficit(r.amount[d], t.amount[d])) = 0
<1>1. d \in Dims /\ (d = Cpu => r.amount[d] <= Significand)
  BY DEF ExactFor
<1>2. PICK part : part = share(av, remaining(r, t))
  OBVIOUS
<1>3. /\ t.amount[d] \in Nat /\ av.amount[d] \in Nat /\ r.amount[d] \in Nat
      /\ r.amount[d] <= MaxUnits /\ MaxUnits \in Nat
  BY <1>1, AmountTypes
<1>4. part.amount[d] = MinOf(av.amount[d], Deficit(r.amount[d], t.amount[d]))
  BY <1>1, <1>2, RemainingIs DEF share
<1>5. part.amount[d] = MinOf(av.amount[d], r.amount[d] - t.amount[d])
  BY <1>3, <1>4 DEF Deficit
<1>6. t.amount[d] + part.amount[d] = MinOf(r.amount[d], t.amount[d] + av.amount[d])
  BY <1>3, <1>5 DEF MinOf
<1>7. /\ t.amount[d] + part.amount[d] \in 0..MaxUnits
      /\ t.amount[d] + part.amount[d] <= r.amount[d]
  BY <1>3, <1>6 DEF MinOf
<1>8. Plus(t, part).amount[d] = t.amount[d] + part.amount[d]
  <2>1. CASE d = Cpu
    <3>1. PICK q : q = t.amount[d] + part.amount[d]
      OBVIOUS
    <3>2. q \in 0..MaxUnits /\ q <= Significand
      BY <1>1, <1>3, <1>7, <2>1, <3>1, RoundingAssumption
    <3>3. rounded[q] = q
      BY <3>2, RoundingAssumption
    <3>4. QED
      BY <1>1, <2>1, <3>1, <3>3 DEF Plus
  <2>2. CASE d # Cpu
    <3>1. Plus(t, part).amount[d] = MinOf(t.amount[d] + part.amount[d], MaxUnits)
      BY <1>1, <2>2 DEF Plus
    <3>2. QED
      BY <1>3, <1>7, <3>1 DEF MinOf
  <2>3. QED
    BY <2>1, <2>2
<1>9. is_empty(part) => part.amount[d] = 0
  BY <1>1 DEF is_empty
<1>10. is_empty(part) => t.amount[d] = MinOf(r.amount[d], t.amount[d] + av.amount[d])
  BY <1>3, <1>6, <1>9
<1>11. QED
  BY <1>2, <1>4, <1>6, <1>8, <1>9, <1>10

\* Taking what is required of a sum step by step.
LEMMA MinOfSum ==
  ASSUME NEW r \in Nat, NEW p \in Nat, NEW a \in Nat
  PROVE  /\ MinOf(r, MinOf(r, p) + a) = MinOf(r, p + a) /\ MinOf(r, p) <= r
         /\ Deficit(r, MinOf(r, p)) = Deficit(r, p)
  BY DEF MinOf, Deficit

\* What the offers add up to after one more of them.
LEMMA SumNext ==
  ASSUME NEW o \in OfferList, NEW r, NEW n \in 1..Len(o), NEW d \in Dims
  PROVE  /\ Sum(o, r, DOMAIN o, d, n - 1) \in Nat
         /\ Sum(o, r, DOMAIN o, d, n) = Sum(o, r, DOMAIN o, d, n - 1) +
              IF lives_long_enough(o[n].resources, r) THEN o[n].resources.amount[d] ELSE 0
<1>1. n - 1 \in 0..Len(o) /\ n \in DOMAIN o
  BY DEF OfferList
<1>2. Sum(o, r, DOMAIN o, d, n - 1) \in Nat
  BY <1>1, SumIs
<1>3. Sum(o, r, DOMAIN o, d, n) = Sum(o, r, DOMAIN o, d, n - 1) + Term(o, r, DOMAIN o, d, n)
  BY SumIs
<1>4. QED
  BY <1>1, <1>2, <1>3 DEF Term

\* One turn of the loop in one kind of resource: the share is what is due, and the
\* total stays what the offers add up to, used or not.
LEMMA TurnAmount ==
  ASSUME NEW o \in OfferList, NEW r \in ResourceFragment, NEW n \in 1..Len(o),
         NEW t \in ResourceFragment, NEW A \in Seq(Allocation), TotalOk(o, r, n, t, A),
         NEW part, part = share(o[n].resources, remaining(r, t)), NEW d \in ExactFor(r)
  PROVE  /\ lives_long_enough(o[n].resources, r) =>
              /\ part.amount[d] = Due(o, r, n, d)
              /\ Plus(t, part).amount[d] = MinOf(r.amount[d], Sum(o, r, DOMAIN o, d, n))
         /\ ~ lives_long_enough(o[n].resources, r) \/ is_empty(part) =>
              /\ Due(o, r, n, d) = 0
              /\ t.amount[d] = MinOf(r.amount[d], Sum(o, r, DOMAIN o, d, n))
<1>1. d \in Dims
  BY DEF ExactFor
<1>2. PICK av \in ResourceFragment : av = o[n].resources
  BY OfferTypes
<1>3. PICK p \in Nat : p = Sum(o, r, DOMAIN o, d, n - 1)
  BY <1>1, SumNext
<1>4. PICK k \in Nat, a \in Nat : k = r.amount[d] /\ a = av.amount[d]
  BY <1>1, AmountTypes
<1>5. t.amount[d] = MinOf(k, p)
  BY <1>3, <1>4 DEF TotalOk
<1>6. Sum(o, r, DOMAIN o, d, n) = p + IF lives_long_enough(av, r) THEN a ELSE 0
  BY <1>1, <1>2, <1>3, <1>4, SumNext
<1>7. /\ MinOf(k, MinOf(k, p) + a) = MinOf(k, p + a) /\ MinOf(k, p) <= k
      /\ Deficit(k, MinOf(k, p)) = Deficit(k, p)
  BY MinOfSum
<1>8. /\ part.amount[d] = MinOf(a, Deficit(k, p))
      /\ Plus(t, part).amount[d] = MinOf(k, p + a)
      /\ is_empty(part) => t.amount[d] = MinOf(k, p + a) /\ MinOf(a, Deficit(k, p)) = 0
  <2>1. /\ part.amount[d] = MinOf(a, Deficit(k, t.amount[d]))
        /\ Plus(t, part).amount[d] = MinOf(k, t.amount[d] + a)
        /\ is_empty(part) => /\ t.amount[d] = MinOf(k, t.amount[d] + a)
                             /\ MinOf(a, Deficit(k, t.amount[d])) = 0
    BY <1>2, <1>4, <1>5, <1>7, ShareIs
  <2>2. QED
    BY <1>5, <1>7, <2>1
<1>9. Due(o, r, n, d) = IF lives_long_enough(av, r) THEN MinOf(a, Deficit(k, p)) ELSE 0
  BY <1>2, <1>3, <1>4 DEF Due
<1>10. CASE lives_long_enough(av, r)
  BY <1>2, <1>4, <1>6, <1>8, <1>9, <1>10
<1>11. CASE ~ lives_long_enough(av, r)
  BY <1>2, <1>4, <1>5, <1>6, <1>9, <1>11
<1>12. QED
  BY <1>10, <1>11

\* One turn of the loop: the total stays what the offers add up to.
LEMMA TurnTotal ==
  ASSUME NEW o \in OfferList, NEW r \in ResourceFragment, NEW n \in 1..Len(o),
         NEW t \in ResourceFragment, NEW A \in Seq(Allocation), TotalOk(o, r, n, t, A),
         NEW part, part = share(o[n].resources, remaining(r, t)),
         NEW new \in Allocation, new.resources = part
  PROVE  /\ usable(o[n].resources, remaining(r, t)) =>
              TotalOk(o, r, n + 1, Plus(t, part), Append(A, new))
         /\ ~ usable(o[n].resources, remaining(r, t)) => TotalOk(o, r, n + 1, t, A)
<1>1. PICK av \in ResourceFragment : av = o[n].resources
  BY OfferTypes
<1>2. /\ part.lifetime = r.lifetime
      /\ lives_long_enough(av, remaining(r, t)) <=> lives_long_enough(av, r)
  BY <1>1, ShareTypes
<1>3. (n + 1) - 1 = n
  OBVIOUS
<1>4. ASSUME usable(o[n].resources, remaining(r, t))
      PROVE  TotalOk(o, r, n + 1, Plus(t, part), Append(A, new))
  <2>1. \A d \in ExactFor(r) : Plus(t, part).amount[d] = MinOf(r.amount[d], Sum(o, r, DOMAIN o, d, n))
    BY <1>1, <1>2, <1>4, TurnAmount DEF usable
  <2>2. Plus(t, part).lifetime = r.lifetime
    <3>1. Plus(t, part).lifetime = shortest(t.lifetime, r.lifetime)
      BY <1>2 DEF Plus
    <3>2. t.lifetime = Unbounded \/ t.lifetime = r.lifetime
      BY DEF TotalOk
    <3>3. QED
      BY <3>1, <3>2 DEF shortest, MinOf
  <2>3. Append(A, new) # <<>>
    OBVIOUS
  <2>4. Plus(t, part) = capacity(Append(A, new))
    <3>1. t = capacity(A)
      BY DEF TotalOk
    <3>2. QED
      BY <3>1, CapacityAppend
  <2>5. QED
    BY <1>3, <2>1, <2>2, <2>3, <2>4 DEF TotalOk
<1>5. ASSUME ~ usable(o[n].resources, remaining(r, t))
      PROVE  TotalOk(o, r, n + 1, t, A)
  <2>1. ~ lives_long_enough(av, r) \/ is_empty(part)
    BY <1>1, <1>2, <1>5 DEF usable
  <2>2. \A d \in ExactFor(r) : t.amount[d] = MinOf(r.amount[d], Sum(o, r, DOMAIN o, d, n))
    BY <1>1, <2>1, TurnAmount
  <2>3. QED
    BY <1>3, <2>2 DEF TotalOk
<1>6. QED
  BY <1>4, <1>5

\* No allocation has the id of an offer that is still to come.
LEMMA IdsAhead ==
  ASSUME NEW o \in OfferList, NEW r, NEW n \in 1..(Len(o) + 1), NEW A,
         PartsOk(o, r, n, A), valid_offers(o), NEW i \in 1..Len(o), i >= n
  PROVE  \A a \in 1..Len(A) : A[a].participant_id # o[i].participant_id
<1>1. SUFFICES ASSUME NEW a \in 1..Len(A), A[a].participant_id = o[i].participant_id
               PROVE  FALSE
  OBVIOUS
<1>2. PICK j \in 1..(n - 1) : A[a].participant_id = o[j].participant_id
  BY DEF PartsOk, PartOf
<1>3. j \in DOMAIN o /\ i \in DOMAIN o /\ i # j
  BY DEF OfferList
<1>4. QED
  BY <1>1, <1>2, <1>3 DEF valid_offers

\* One turn of the loop that uses no offer: the allocations stay what is due.
LEMMA TurnSkips ==
  ASSUME NEW o \in OfferList, NEW r \in ResourceFragment, NEW n \in 1..Len(o),
         NEW A \in Seq(Allocation), PartsOk(o, r, n, A), valid_offers(o),
         \A d \in ExactFor(r) : Due(o, r, n, d) = 0
  PROVE  PartsOk(o, r, n + 1, A)
<1>1. /\ (n + 1) - 1 = n /\ n \in 1..(Len(o) + 1) /\ n >= n
      /\ \A i \in 1..(n - 1) : i \in 1..n
      /\ \A i \in 1..n : i \in 1..(n - 1) \/ i = n
  BY DEF OfferList
<1>2. \A a \in 1..Len(A) : A[a].participant_id # o[n].participant_id
  BY <1>1, IdsAhead
<1>3. ASSUME NEW i \in 1..n, NEW d \in ExactFor(r)
      PROVE  Gives(o, r, i, d, A)
  <2>1. CASE i = n
    BY <1>2, <2>1 DEF Gives
  <2>2. CASE i \in 1..(n - 1)
    BY <2>2 DEF PartsOk
  <2>3. QED
    BY <1>1, <2>1, <2>2
<1>4. QED
  BY <1>1, <1>3 DEF PartsOk

\* One turn of the loop that uses an offer: its part is the one added.
LEMMA TurnAdds ==
  ASSUME NEW o \in OfferList, NEW r \in ResourceFragment, NEW n \in 1..Len(o),
         NEW A \in Seq(Allocation), PartsOk(o, r, n, A), valid_offers(o),
         NEW new \in Allocation, PartOf(o, r, n, new),
         \A d \in ExactFor(r) : new.resources.amount[d] = Due(o, r, n, d)
  PROVE  PartsOk(o, r, n + 1, Append(A, new))
<1>1. /\ (n + 1) - 1 = n /\ n \in 1..(Len(o) + 1) /\ n >= n
      /\ \A i \in 1..(n - 1) : i \in 1..n /\ i \in 1..Len(o) /\ i # n
      /\ \A i \in 1..n : i \in 1..(n - 1) \/ i = n
      /\ n \in 1..n /\ DOMAIN o = 1..Len(o)
  BY DEF OfferList
<1>2. PICK B : B = Append(A, new)
  OBVIOUS
<1>3. /\ B[Len(B)] = new /\ Len(B) \in 1..Len(B)
      /\ \A a \in 1..Len(A) : B[a] = A[a] /\ a \in 1..Len(B)
      /\ \A a \in 1..Len(B) : a \in 1..Len(A) \/ a = Len(B)
  BY <1>2
<1>4. \A a \in 1..Len(A) : A[a].participant_id # new.participant_id
  BY <1>1, IdsAhead DEF PartOf
<1>5. ASSUME NEW a \in 1..Len(B)
      PROVE  \E i \in 1..n : PartOf(o, r, i, B[a])
  <2>1. CASE a = Len(B)
    BY <1>1, <1>3, <2>1
  <2>2. CASE a \in 1..Len(A)
    <3>1. PICK i \in 1..(n - 1) : PartOf(o, r, i, A[a])
      BY <2>2 DEF PartsOk
    <3>2. QED
      BY <1>1, <1>3, <2>2, <3>1
  <2>3. QED
    BY <1>3, <2>1, <2>2
<1>6. ASSUME NEW i \in 1..n, NEW d \in ExactFor(r)
      PROVE  Gives(o, r, i, d, B)
  <2>1. CASE i = n
    BY <1>3, <2>1 DEF Gives, PartOf
  <2>2. CASE i \in 1..(n - 1)
    <3>1. Gives(o, r, i, d, A)
      BY <2>2 DEF PartsOk
    <3>2. CASE \E a \in 1..Len(A) : /\ A[a].participant_id = o[i].participant_id
                                    /\ A[a].resources.amount[d] = Due(o, r, i, d)
      <4>1. PICK a \in 1..Len(A) : /\ A[a].participant_id = o[i].participant_id
                                   /\ A[a].resources.amount[d] = Due(o, r, i, d)
        BY <3>2
      <4>2. a \in 1..Len(B) /\ B[a] = A[a]
        BY <1>3
      <4>3. QED
        BY <4>1, <4>2 DEF Gives
    <3>3. CASE Due(o, r, i, d) = 0 /\ \A a \in 1..Len(A) : A[a].participant_id # o[i].participant_id
      <4>1. new.participant_id # o[i].participant_id
        <5>1. i \in DOMAIN o /\ n \in DOMAIN o /\ i # n
          BY <1>1, <2>2
        <5>2. o[i].participant_id # o[n].participant_id
          BY <5>1 DEF valid_offers
        <5>3. QED
          BY <5>2 DEF PartOf
      <4>2. \A a \in 1..Len(B) : B[a].participant_id # o[i].participant_id
        BY <1>3, <3>3, <4>1
      <4>3. QED
        BY <3>3, <4>2 DEF Gives
    <3>4. QED
      BY <3>1, <3>2, <3>3 DEF Gives
  <2>3. QED
    BY <1>1, <2>1, <2>2
<1>7. ASSUME NEW a \in 1..Len(B), NEW b \in 1..Len(B), B[a].participant_id = B[b].participant_id
      PROVE  a = b
  <2>1. CASE a \in 1..Len(A) /\ b \in 1..Len(A)
    BY <1>3, <1>7, <2>1 DEF PartsOk
  <2>2. CASE a = Len(B) /\ b \in 1..Len(A)
    BY <1>3, <1>4, <1>7, <2>2
  <2>3. CASE b = Len(B) /\ a \in 1..Len(A)
    BY <1>3, <1>4, <1>7, <2>3
  <2>4. QED
    BY <1>3, <2>1, <2>2, <2>3
<1>8. QED
  BY <1>1, <1>2, <1>5, <1>6, <1>7, ZenonT(40) DEF PartsOk

-----------------------------------------------------------------------------
\* The steps of a plan call.

\* Requirements are fragments.
LEMMA RequirementType ==
  ASSUME TypeOK
  PROVE  requirement \in ResourceFragment
  BY FragmentTypes, FragmentsAssumption DEF TypeOK

\* No total has nothing allocated, and no offer has been used.
LEMMA LoopStarts ==
  ASSUME NEW o \in OfferList, NEW r \in ResourceFragment
  PROVE  TotalOk(o, r, 1, default, <<>>) /\ PartsOk(o, r, 1, <<>>)
<1>1. ASSUME NEW d \in ExactFor(r)
      PROVE  default.amount[d] = MinOf(r.amount[d], Sum(o, r, DOMAIN o, d, 0))
  <2>0. d \in Dims
    BY DEF ExactFor
  <2>1. Sum(o, r, DOMAIN o, d, 0) = 0 /\ r.amount[d] \in Nat /\ default.amount[d] = 0
    BY <2>0, SumIs, AmountTypes DEF default
  <2>2. QED
    BY <2>1 DEF MinOf
<1>2. default.lifetime = Unbounded
  BY DEF default
<1>3. TotalOk(o, r, 1, default, <<>>)
  BY <1>1, <1>2, CapacityEmpty DEF TotalOk
<1>4. PartsOk(o, r, 1, <<>>)
  BY DEF PartsOk
<1>5. QED
  BY <1>3, <1>4

\* A call starts.
LEMMA PlanStep ==
  ASSUME SInv, NEW required \in Requirements, Plan(required)
  PROVE  SInv'
<1>1. /\ requirement' = required /\ offers' = <<>> /\ next' = 1 /\ total' = default
      /\ allocations' = <<>>
      /\ \/ validate_requirement(required) /\ pc' = "offers" /\ result' = "none"
         \/ pc' = "idle" /\ result' = "InvalidRequirement"
  BY DEF Plan, Done
<1>2. ~ Looping'
  BY <1>1 DEF Looping
<1>3. TypeOK'
  <2>1. <<>> \in Seq(ResourceOffer) /\ <<>> \in Seq(Allocation) /\ Len(<<>>) = 0
    OBVIOUS
  <2>2. 1 \in 1..(0 + 1)
    OBVIOUS
  <2>3. QED
    BY <1>1, <2>1, <2>2, FragmentTypes DEF TypeOK, SchedulerErrors
<1>4. CallOk'
  BY <1>1 DEF CallOk
<1>5. QED
  BY <1>2, <1>3, <1>4 DEF SInv, OffersOk, LoopOk

\* What sorting does to a list of offers (scheduler.rs:109).
LEMMA SortedIs ==
  ASSUME NEW list \in OfferList, NEW o \in sorted(list)
  PROVE  /\ o \in OfferList /\ Ordered(o)
         /\ valid_offers(list) => valid_offers(o)
         /\ \E f \in [1..Len(list) -> 1..Len(list)] :
              /\ \A i, j \in 1..Len(list) : f[i] = f[j] => i = j
              /\ Len(o) = Len(list) /\ \A i \in 1..Len(list) : o[i] = list[f[i]]
<1>1. DOMAIN list = 1..Len(list) /\ Len(list) \in Nat
  BY DEF OfferList
<1>2. PICK f \in [1..Len(list) -> 1..Len(list)] :
        /\ \A i, j \in 1..Len(list) : f[i] = f[j] => i = j
        /\ \A i, j \in 1..Len(list) :
             i < j => list[f[i]].participant_id <= list[f[j]].participant_id
        /\ o = [i \in 1..Len(list) |-> list[f[i]]]
  BY <1>1 DEF sorted
<1>3. \A i \in 1..Len(list) : list[f[i]] \in ResourceOffer
  BY <1>1 DEF OfferList
<1>4. o \in OfferList /\ Len(o) = Len(list) /\ DOMAIN o = 1..Len(list)
  BY <1>1, <1>2, <1>3 DEF OfferList
<1>5. \A i \in 1..Len(list) : o[i] = list[f[i]]
  BY <1>2
<1>6. Ordered(o)
  BY <1>2, <1>4, <1>5 DEF Ordered
<1>7. valid_offers(list) => valid_offers(o)
  BY <1>1, <1>2, <1>4, <1>5 DEF valid_offers
<1>8. QED
  BY <1>2, <1>4, <1>5, <1>6, <1>7

\* The fabric has answered.
LEMMA TakeStep ==
  ASSUME SInv, NEW list \in OfferList, TakeOffers(list)
  PROVE  SInv'
<1>1. /\ pc = "offers" /\ UNCHANGED <<requirement, next, total, allocations>>
      /\ offers' \in sorted(list)
      /\ \/ valid_offers(list) /\ pc' = "allocate" /\ result' = result
         \/ pc' = "idle" /\ result' = "InvalidOffer"
  BY DEF TakeOffers, Done
<1>2. /\ validate_requirement(requirement) /\ next = 1 /\ total = default
      /\ allocations = <<>> /\ result = "none"
  BY <1>1 DEF SInv, CallOk
<1>3. offers' \in OfferList /\ Ordered(offers') /\ (valid_offers(list) => valid_offers(offers'))
  BY <1>1, SortedIs
<1>4. TypeOK'
  <2>1. next' \in 1..(Len(offers') + 1)
    BY <1>1, <1>2, <1>3 DEF OfferList
  <2>2. QED
    BY <1>1, <1>2, <1>3, <2>1 DEF SInv, TypeOK, OfferList, SchedulerErrors
<1>5. OffersOk'
  BY <1>1, <1>2, <1>3 DEF OffersOk, Looping
<1>6. LoopOk'
  <2>1. requirement \in ResourceFragment
    BY RequirementType DEF SInv
  <2>2. TotalOk(offers', requirement, 1, default, <<>>) /\ PartsOk(offers', requirement, 1, <<>>)
    BY <1>3, <2>1, LoopStarts
  <2>3. QED
    BY <1>1, <1>2, <2>2 DEF LoopOk
<1>7. CallOk'
  BY <1>1, <1>2 DEF CallOk
<1>8. QED
  BY <1>4, <1>5, <1>6, <1>7 DEF SInv

\* One turn of the loop.
LEMMA ShareStep ==
  ASSUME SInv, Share
  PROVE  SInv'
<1>1. /\ pc = "allocate" /\ next <= Len(offers) /\ next' = next + 1
      /\ UNCHANGED <<pc, requirement, offers, result>>
  BY DEF Share
<1>2. /\ offers \in OfferList /\ next \in 1..Len(offers) /\ total \in ResourceFragment
      /\ allocations \in Seq(Allocation) /\ requirement \in ResourceFragment
      /\ Len(offers) \in Nat
  BY <1>1, RequirementType DEF SInv, TypeOK, OfferList
<1>3. /\ TotalOk(offers, requirement, next, total, allocations)
      /\ PartsOk(offers, requirement, next, allocations)
      /\ validate_requirement(requirement) /\ valid_offers(offers) /\ Ordered(offers)
  BY <1>1 DEF SInv, OffersOk, LoopOk, Looping
<1>4. PICK part : part = share(offers[next].resources, remaining(requirement, total))
  OBVIOUS
<1>5. PICK a : a = [participant_id |-> offers[next].participant_id, resources |-> part]
  OBVIOUS
<1>6. /\ offers[next] \in ResourceOffer /\ offers[next].resources \in ResourceFragment
      /\ offers[next].participant_id \in Ids \cup {NoId}
  BY <1>2, OfferTypes
<1>7. /\ part \in ResourceFragment /\ validate(part)
      /\ lives_long_enough(offers[next].resources, remaining(requirement, total))
           <=> lives_long_enough(offers[next].resources, requirement)
      /\ \A d \in Dims : part.amount[d] <= offers[next].resources.amount[d]
  BY <1>2, <1>4, <1>6, ShareTypes
<1>8. a \in Allocation /\ a.resources = part /\ a.participant_id = offers[next].participant_id
  BY <1>5, <1>6, <1>7 DEF Allocation
<1>9. \/ /\ usable(offers[next].resources, remaining(requirement, total))
         /\ total' = Plus(total, part) /\ allocations' = Append(allocations, a)
      \/ /\ ~ usable(offers[next].resources, remaining(requirement, total))
         /\ UNCHANGED <<total, allocations>>
  BY <1>4, <1>5 DEF Share
<1>10. TotalOk(offers, requirement, next + 1, total', allocations')
  BY <1>2, <1>3, <1>4, <1>8, <1>9, TurnTotal
<1>11. PartsOk(offers, requirement, next + 1, allocations')
  <2>1. CASE usable(offers[next].resources, remaining(requirement, total))
    <3>1. lives_long_enough(offers[next].resources, requirement) /\ ~ is_empty(part)
      BY <1>4, <1>7, <2>1 DEF usable
    <3>2. PartOf(offers, requirement, next, a)
      BY <1>7, <1>8, <3>1 DEF PartOf, validate_requirement
    <3>3. \A d \in ExactFor(requirement) : a.resources.amount[d] = Due(offers, requirement, next, d)
      BY <1>2, <1>3, <1>4, <1>8, <3>1, TurnAmount
    <3>4. allocations' = Append(allocations, a)
      BY <1>9, <2>1
    <3>5. QED
      BY <1>2, <1>3, <1>8, <3>2, <3>3, <3>4, TurnAdds
  <2>2. CASE ~ usable(offers[next].resources, remaining(requirement, total))
    <3>1. ~ lives_long_enough(offers[next].resources, requirement) \/ is_empty(part)
      BY <1>4, <1>7, <2>2 DEF usable
    <3>2. \A d \in ExactFor(requirement) : Due(offers, requirement, next, d) = 0
      BY <1>2, <1>3, <1>4, <3>1, TurnAmount
    <3>3. allocations' = allocations
      BY <1>9, <2>2
    <3>4. QED
      BY <1>2, <1>3, <3>2, <3>3, TurnSkips
  <2>3. QED
    BY <2>1, <2>2
<1>12. TypeOK'
  <2>1. total' \in ResourceFragment /\ allocations' \in Seq(Allocation)
    BY <1>2, <1>7, <1>8, <1>9, FragmentTypes
  <2>2. next' \in 1..(Len(offers) + 1)
    BY <1>1, <1>2
  <2>3. QED
    BY <1>1, <2>1, <2>2 DEF SInv, TypeOK
<1>13. OffersOk'
  BY <1>1, <1>3 DEF OffersOk
<1>14. LoopOk'
  BY <1>1, <1>10, <1>11 DEF LoopOk
<1>15. CallOk'
  BY <1>1 DEF SInv, CallOk
<1>16. QED
  BY <1>12, <1>13, <1>14, <1>15 DEF SInv

\* The allocations of a total that satisfies the requirement compose
\* (resource.rs:226-274): compose never refuses them.
LEMMA AlwaysComposable ==
  ASSUME SInv, pc = "allocate", satisfies(total, requirement)
  PROVE  composable(allocations)
<1>1. /\ TotalOk(offers, requirement, next, total, allocations)
      /\ PartsOk(offers, requirement, next, allocations)
      /\ validate_requirement(requirement) /\ valid_offers(offers)
  BY DEF SInv, OffersOk, LoopOk, Looping
<1>2. /\ allocations \in Seq(Allocation) /\ DOMAIN allocations = 1..Len(allocations)
      /\ requirement \in ResourceFragment /\ offers \in OfferList
      /\ next \in 1..(Len(offers) + 1) /\ Len(offers) \in Nat /\ DOMAIN offers = 1..Len(offers)
  BY RequirementType DEF SInv, TypeOK, OfferList
<1>3. allocations # <<>>
  <2>1. SUFFICES ASSUME allocations = <<>>
                 PROVE  FALSE
    OBVIOUS
  <2>2. total = default
    BY <1>1, <2>1, CapacityEmpty DEF TotalOk
  <2>3. \A d \in Dims : total.amount[d] = 0 /\ total.amount[d] >= requirement.amount[d]
    BY <2>2 DEF satisfies, default
  <2>4. ASSUME NEW d \in Dims
        PROVE  requirement.amount[d] = 0
    <3>1. requirement.amount[d] \in Nat
      BY <1>2, UnitsAssumption DEF ResourceFragment, Amounts
    <3>2. QED
      BY <2>3, <3>1
  <2>5. requirement.amount = [d \in Dims |-> requirement.amount[d]]
    BY <1>2 DEF ResourceFragment, Amounts
  <2>6. is_empty(requirement)
    BY <2>4, <2>5 DEF is_empty
  <2>7. QED
    BY <1>1, <2>6 DEF validate_requirement
<1>4. ASSUME NEW a \in DOMAIN allocations
      PROVE  /\ allocations[a].participant_id # NoId
             /\ validate_requirement(allocations[a].resources)
  <2>1. PICK i \in 1..(next - 1) : PartOf(offers, requirement, i, allocations[a])
    BY <1>1, <1>2 DEF PartsOk
  <2>2. i \in DOMAIN offers
    BY <1>2
  <2>3. QED
    BY <1>1, <2>1, <2>2 DEF PartOf, valid_offers
<1>5. \A a, b \in DOMAIN allocations :
        allocations[a].participant_id = allocations[b].participant_id => a = b
  BY <1>1, <1>2 DEF PartsOk
<1>6. QED
  BY <1>3, <1>4, <1>5 DEF composable

\* The call ends.
LEMMA ComposeStep ==
  ASSUME SInv, Compose
  PROVE  SInv' /\ result' # "InvalidOffer"
<1>1. /\ pc = "allocate" /\ pc' = "idle"
      /\ UNCHANGED <<requirement, offers, next, total, allocations>>
      /\ next > Len(offers) \/ satisfies(total, requirement)
      /\ result' = IF ~ satisfies(total, requirement) THEN "InsufficientResources"
                   ELSE IF composable(allocations) THEN "planned" ELSE "InvalidOffer"
  BY DEF Compose, Done
<1>2. satisfies(total, requirement) => composable(allocations) /\ allocations # <<>>
  BY <1>1, AlwaysComposable DEF composable
<1>3. \/ satisfies(total, requirement) /\ result' = "planned" /\ allocations # <<>>
      \/ ~ satisfies(total, requirement) /\ result' = "InsufficientResources" /\ next > Len(offers)
  BY <1>1, <1>2
<1>4. TypeOK'
  BY <1>1, <1>3 DEF SInv, TypeOK, SchedulerErrors
<1>5. Looping
  BY <1>1 DEF Looping
<1>6. OffersOk'
  BY <1>1, <1>5 DEF SInv, OffersOk
<1>7. LoopOk'
  BY <1>1, <1>5 DEF SInv, LoopOk
<1>8. CallOk'
  BY <1>1, <1>3 DEF CallOk
<1>9. QED
  BY <1>3, <1>4, <1>6, <1>7, <1>8 DEF SInv

-----------------------------------------------------------------------------
\* What the invariant says of the answers.

\* The state a planned call ends in.
LEMMA PlannedState ==
  ASSUME SInv, result \in {"planned", "InsufficientResources"}
  PROVE  /\ TotalOk(offers, requirement, next, total, allocations)
         /\ PartsOk(offers, requirement, next, allocations)
         /\ valid_offers(offers) /\ Ordered(offers)
         /\ offers \in OfferList /\ DOMAIN offers = 1..Len(offers) /\ Len(offers) \in Nat
         /\ next \in 1..(Len(offers) + 1)
         /\ allocations \in Seq(Allocation) /\ DOMAIN allocations = 1..Len(allocations)
         /\ requirement \in ResourceFragment /\ total \in ResourceFragment
<1>1. Looping
  BY DEF Looping
<1>2. QED
  BY <1>1, RequirementType DEF SInv, OffersOk, LoopOk, TypeOK, OfferList

\* The invariant speaks of what the properties call exact.
LEMMA ExactIs == Exact = ExactFor(requirement) /\ Exact \subseteq Dims
  BY DEF Exact, ExactFor

\* The offers so far cover the total of a plan, and it is the requirement.
LEMMA PlannedTotal ==
  ASSUME SInv, result = "planned", NEW d \in Exact
  PROVE  /\ total.amount[d] = requirement.amount[d]
         /\ Sum(offers, requirement, DOMAIN offers, d, next - 1) >= requirement.amount[d]
<1>0. d \in Dims /\ d \in ExactFor(requirement)
  BY ExactIs
<1>1. total.amount[d] >= requirement.amount[d]
  BY <1>0 DEF SInv, CallOk, satisfies
<1>2. total.amount[d] = MinOf(requirement.amount[d], Sum(offers, requirement, DOMAIN offers, d, next - 1))
  BY <1>0, PlannedState DEF TotalOk
<1>3. requirement.amount[d] \in Nat
  BY <1>0, PlannedState, AmountTypes
<1>4. Sum(offers, requirement, DOMAIN offers, d, next - 1) \in Nat
  <2>1. next - 1 \in 0..Len(offers)
    BY PlannedState
  <2>2. QED
    BY <1>0, <2>1, PlannedState, SumIs
<1>5. QED
  BY <1>1, <1>2, <1>3, <1>4 DEF MinOf

\* The part of an offer is at most the offer, and lasts no longer.
LEMMA PartBounded ==
  ASSUME SInv, result = "planned", NEW a \in DOMAIN allocations
  PROVE  \E i \in DOMAIN offers :
           /\ allocations[a].participant_id = offers[i].participant_id
           /\ lives_long_enough(offers[i].resources, requirement)
           /\ \A d \in Dims : allocations[a].resources.amount[d] <= offers[i].resources.amount[d]
<1>1. PICK i \in 1..(next - 1) : PartOf(offers, requirement, i, allocations[a])
  BY PlannedState DEF PartsOk
<1>2. i \in DOMAIN offers
  BY PlannedState
<1>3. QED
  BY <1>1, <1>2 DEF PartOf

\* SInv implies ExactPlan.
LEMMA PlansAreExact == SInv => ExactPlan
<1>1. SUFFICES ASSUME SInv, result = "planned"
               PROVE  /\ \A d \in Exact : capacity(allocations).amount[d] = requirement.amount[d]
                      /\ capacity(allocations).amount[Cpu] >= requirement.amount[Cpu]
                      /\ \A a \in DOMAIN allocations :
                           \E i \in Backing(allocations[a]) : \A d \in Dims :
                             allocations[a].resources.amount[d] <= offers[i].resources.amount[d]
  BY DEF ExactPlan
<1>2. capacity(allocations) = total
  BY <1>1, PlannedState DEF TotalOk
<1>3. \A d \in Exact : total.amount[d] = requirement.amount[d]
  BY <1>1, PlannedTotal
<1>4. total.amount[Cpu] >= requirement.amount[Cpu]
  BY <1>1, RoundingAssumption DEF SInv, CallOk, satisfies
<1>5. ASSUME NEW a \in DOMAIN allocations
      PROVE  \E i \in Backing(allocations[a]) : \A d \in Dims :
               allocations[a].resources.amount[d] <= offers[i].resources.amount[d]
  BY <1>1, PartBounded DEF Backing
<1>6. QED
  BY <1>2, <1>3, <1>4, <1>5

\* SInv implies LifetimeCovered.
LEMMA LifetimesAreCovered == SInv => LifetimeCovered
<1>1. SUFFICES ASSUME SInv, result = "planned", requirement.lifetime # Unbounded
               PROVE  /\ capacity(allocations).lifetime = requirement.lifetime
                      /\ \A a \in DOMAIN allocations : \A i \in Backing(allocations[a]) :
                           \/ offers[i].resources.lifetime = Unbounded
                           \/ offers[i].resources.lifetime >= requirement.lifetime
  BY DEF LifetimeCovered
<1>2. capacity(allocations).lifetime = requirement.lifetime
  BY <1>1, PlannedState DEF TotalOk, SInv, CallOk
<1>3. ASSUME NEW a \in DOMAIN allocations, NEW i \in Backing(allocations[a])
      PROVE  \/ offers[i].resources.lifetime = Unbounded
             \/ offers[i].resources.lifetime >= requirement.lifetime
  <2>1. PICK j \in DOMAIN offers :
          /\ allocations[a].participant_id = offers[j].participant_id
          /\ lives_long_enough(offers[j].resources, requirement)
    BY <1>1, PartBounded
  <2>2. i = j
    BY <1>1, <2>1, PlannedState DEF Backing, valid_offers
  <2>3. QED
    BY <1>1, <2>1, <2>2 DEF lives_long_enough
<1>4. QED
  BY <1>2, <1>3

\* SInv implies ShortageIsReal.
LEMMA ShortagesAreReal == SInv => ShortageIsReal
<1>1. SUFFICES ASSUME SInv, result = "InsufficientResources"
               PROVE  \/ \E d \in Dims : Offered(DOMAIN offers, d) < requirement.amount[d]
                      \/ Cpu \notin Exact /\ total.amount[Cpu] < requirement.amount[Cpu]
  BY DEF ShortageIsReal
<1>2. next - 1 = Len(offers) /\ ~ satisfies(total, requirement)
  <2>1. next > Len(offers) /\ ~ satisfies(total, requirement)
    BY <1>1 DEF SInv, CallOk
  <2>2. next \in 1..(Len(offers) + 1) /\ Len(offers) \in Nat
    BY <1>1, PlannedState
  <2>3. QED
    BY <2>1, <2>2
<1>3. total.lifetime = Unbounded \/ total.lifetime = requirement.lifetime
  BY <1>1, PlannedState DEF TotalOk
<1>4. requirement.lifetime # Unbounded => requirement.lifetime \in Nat
  BY <1>1, PlannedState DEF ResourceFragment, Lifetime
<1>5. PICK d \in Dims : ~ (total.amount[d] >= requirement.amount[d])
  BY <1>2, <1>3, <1>4 DEF satisfies
<1>6. requirement.amount[d] \in Nat /\ total.amount[d] \in Nat
  BY <1>1, PlannedState, AmountTypes
<1>7. CASE d \in Exact
  <2>1. total.amount[d] = MinOf(requirement.amount[d], Offered(DOMAIN offers, d))
    BY <1>1, <1>2, <1>7, PlannedState, OfferedIs, ExactIs DEF TotalOk
  <2>2. Len(offers) \in 0..Len(offers)
    BY <1>1, PlannedState
  <2>3. Offered(DOMAIN offers, d) \in Nat
    BY <1>1, <2>2, PlannedState, OfferedIs, SumIs
  <2>4. QED
    BY <1>5, <1>6, <2>1, <2>3 DEF MinOf
<1>8. CASE d \notin Exact
  <2>1. d = Cpu
    BY <1>8 DEF Exact
  <2>2. QED
    BY <1>5, <1>6, <1>8, <2>1
<1>9. QED
  BY <1>7, <1>8

\* Among validated, sorted offers, those with lower ids are those before.
LEMMA LowerAreBefore ==
  ASSUME NEW o \in OfferList, valid_offers(o), Ordered(o), NEW i \in 1..Len(o)
  PROVE  {j \in DOMAIN o : o[j].participant_id < o[i].participant_id} = 1..(i - 1)
<1>1. DOMAIN o = 1..Len(o) /\ Len(o) \in Nat
  BY DEF OfferList
<1>2. \A j \in 1..Len(o) : o[j].participant_id \in Nat
  <2>1. \A j \in 1..Len(o) : o[j] \in ResourceOffer
    BY DEF OfferList
  <2>2. \A j \in 1..Len(o) : o[j].participant_id \in Ids \cup {NoId}
    BY <2>1 DEF ResourceOffer
  <2>3. Ids \cup {NoId} \subseteq Nat
    BY IdsAssumption DEF NoId
  <2>4. QED
    BY <2>2, <2>3
<1>3. ASSUME NEW j \in 1..Len(o)
      PROVE  o[j].participant_id < o[i].participant_id <=> j < i
  <2>1. CASE j < i
    <3>1. o[j].participant_id <= o[i].participant_id
      BY <2>1 DEF Ordered
    <3>2. o[j].participant_id # o[i].participant_id
      BY <1>1, <2>1 DEF valid_offers
    <3>3. QED
      BY <1>2, <2>1, <3>1, <3>2
  <2>2. CASE j = i
    BY <1>2, <2>2
  <2>3. CASE j > i
    <3>1. o[i].participant_id <= o[j].participant_id
      BY <2>3 DEF Ordered
    <3>2. QED
      BY <1>2, <2>3, <3>1
  <2>4. QED
    BY <2>1, <2>2, <2>3
<1>4. QED
  BY <1>1, <1>3

\* Once the requirement is met, nothing more is due.
LEMMA NothingMissing ==
  ASSUME SInv, result = "planned", NEW i \in 1..Len(offers), i >= next, NEW d \in Exact
  PROVE  Due(offers, requirement, i, d) = 0
<1>1. next - 1 \in 0..Len(offers) /\ i - 1 \in (next - 1)..Len(offers) /\ i - 1 \in 0..Len(offers)
  BY PlannedState
<1>2. PICK k, l : /\ k = Sum(offers, requirement, DOMAIN offers, d, next - 1)
                  /\ l = Sum(offers, requirement, DOMAIN offers, d, i - 1)
  OBVIOUS
<1>3. d \in Dims
  BY ExactIs
<1>4. k \in Nat /\ l \in Nat
  BY <1>1, <1>2, <1>3, PlannedState, SumIs
<1>5. k <= l
  BY <1>1, <1>2, <1>3, PlannedState, SumGrows
<1>6. k >= requirement.amount[d]
  BY <1>2, PlannedTotal
<1>7. requirement.amount[d] \in Nat /\ offers[i].resources.amount[d] \in Nat
  <2>1. offers[i].resources \in ResourceFragment
    BY PlannedState, OfferTypes
  <2>2. QED
    BY <1>3, <2>1, PlannedState, AmountTypes
<1>8. Deficit(requirement.amount[d], l) = 0
  BY <1>4, <1>5, <1>6, <1>7 DEF Deficit
<1>9. QED
  BY <1>2, <1>7, <1>8 DEF Due, MinOf

\* SInv implies PlannedInOrder.
LEMMA PlansAreInOrder == SInv => PlannedInOrder
<1> DEFINE lower(i) == {j \in DOMAIN offers : offers[j].participant_id < offers[i].participant_id}
           parts(i) == {a \in DOMAIN allocations :
                          allocations[a].participant_id = offers[i].participant_id}
           due(i, d) == IF lives_long_enough(offers[i].resources, requirement)
                        THEN MinOf(offers[i].resources.amount[d], MissingAfter(lower(i), d)) ELSE 0
<1>1. ASSUME SInv, result = "planned", NEW i \in DOMAIN offers, NEW d \in Exact
      PROVE  IF parts(i) = {} THEN due(i, d) = 0
             ELSE \E a \in parts(i) : allocations[a].resources.amount[d] = due(i, d)
  <2>1. /\ i \in 1..Len(offers) /\ i - 1 \in 0..Len(offers)
        /\ next \in 1..(Len(offers) + 1) /\ Len(offers) \in Nat
    BY <1>1, PlannedState
  <2>2. lower(i) = 1..(i - 1)
    BY <1>1, <2>1, PlannedState, LowerAreBefore
  <2>3. d \in Dims /\ d \in ExactFor(requirement)
    BY <1>1, ExactIs
  <2>4. Offered(1..(i - 1), d) = Sum(offers, requirement, DOMAIN offers, d, i - 1)
    BY <1>1, <2>1, <2>3, PlannedState, OfferedIs, SumOfFirst
  <2>5. due(i, d) = Due(offers, requirement, i, d)
    BY <2>2, <2>4 DEF Due, Deficit, MissingAfter
  <2>6. DOMAIN allocations = 1..Len(allocations)
    BY <1>1, PlannedState
  <2> HIDE DEF due, lower
  <2>7. CASE i >= next
    <3>1. \A a \in 1..Len(allocations) :
            allocations[a].participant_id # offers[i].participant_id
      BY <1>1, <2>1, <2>7, PlannedState, IdsAhead
    <3>2. parts(i) = {}
      BY <2>6, <3>1
    <3>3. Due(offers, requirement, i, d) = 0
      BY <1>1, <2>1, <2>7, NothingMissing
    <3>4. QED
      BY <2>5, <3>2, <3>3
  <2>8. CASE ~ (i >= next)
    <3>1. i \in 1..(next - 1)
      BY <2>1, <2>8
    <3>2. Gives(offers, requirement, i, d, allocations)
      BY <1>1, <2>3, <3>1, PlannedState DEF PartsOk
    <3>3. QED
      BY <2>5, <2>6, <3>2 DEF Gives
  <2>9. QED
    BY <2>7, <2>8
<1>2. QED
  BY <1>1 DEF PlannedInOrder
=============================================================================
