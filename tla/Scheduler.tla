------------------------------ MODULE Scheduler ------------------------------
(***************************************************************************)
(* AggregatingScheduler::plan (scheduler.rs:103-159): one call after the   *)
(* other, each over the offers its Fabric returns.  The loop over the      *)
(* sorted offers takes one action per offer.                               *)
(*                                                                         *)
(* A Fabric is a trait object, so the offers can be any list: duplicated   *)
(* or empty participant ids and invalid fragments included.  Placement     *)
(* composes this module with the fabrics of the crate.                     *)
(***************************************************************************)
EXTENDS Resources

CONSTANTS
  Ids,            \* participant ids, in their string order
  Requirements,   \* requirements callers pass
  Fragments,      \* fragments participants offer
  MaxOffers       \* bound: the length of a list of offers

ASSUME IdsAssumption == Ids \subseteq Nat /\ NoId \notin Ids
ASSUME FragmentsAssumption ==
  /\ Requirements \subseteq ResourceFragment
  /\ Fragments \subseteq ResourceFragment
ASSUME OffersAssumption == MaxOffers \in Nat

ResourceOffer == [participant_id: Ids \cup {NoId}, resources: ResourceFragment]
Allocation == [participant_id: Ids \cup {NoId}, resources: ResourceFragment]

VARIABLES
  pc,            \* "idle", "offers", "allocate"
  requirement,   \* of the current or the last call
  offers,        \* its offers, sorted
  next,          \* the position of the next offer
  total,
  allocations,
  result         \* of the last call: "none" while one runs

vars == <<pc, requirement, offers, next, total, allocations, result>>

SchedulerErrors == {"InvalidRequirement", "InvalidOffer", "InsufficientResources"}

Init ==
  /\ pc = "idle"
  /\ requirement = default
  /\ offers = <<>>
  /\ next = 1
  /\ total = default
  /\ allocations = <<>>
  /\ result = "none"

Done(outcome) == pc' = "idle" /\ result' = outcome

\* The call starts: the requirement is validated before the fabric is asked.
Plan(required) ==
  /\ pc = "idle"
  /\ requirement' = required
  /\ offers' = <<>> /\ next' = 1
  /\ total' = default /\ allocations' = <<>>
  /\ IF validate_requirement(required)
     THEN pc' = "offers" /\ result' = "none"
     ELSE Done("InvalidRequirement")

\* Mutant: the offers are left in the order of the fabric.
sortedNot(list) == {list}

\* The rearrangements of list in the order of the participant ids: exactly one
\* unless ids repeat.
sorted(list) ==
  {[i \in DOMAIN list |-> list[f[i]]] :
     f \in {g \in [DOMAIN list -> DOMAIN list] :
              /\ \A i, j \in DOMAIN list : g[i] = g[j] => i = j
              /\ \A i, j \in DOMAIN list :
                   i < j => list[g[i]].participant_id <= list[g[j]].participant_id}}

\* Every offer is looked at before any is used.
valid_offers(list) ==
  /\ \A i \in DOMAIN list :
       list[i].participant_id # NoId /\ validate(list[i].resources)
  /\ \A i, j \in DOMAIN list : list[i].participant_id = list[j].participant_id => i = j

\* The fabric returns list.
TakeOffers(list) ==
  /\ pc = "offers"
  /\ offers' \in sorted(list)
  /\ IF valid_offers(list)
     THEN pc' = "allocate" /\ UNCHANGED result
     ELSE Done("InvalidOffer")
  /\ UNCHANGED <<requirement, next, total, allocations>>

\* Mutant: an offer that cannot be used ends the loop.
ShareOrStop ==
  LET offer == offers[next]
      missing == remaining(requirement, total)
      part == share(offer.resources, missing)
  IN  /\ pc = "allocate"
      /\ next <= Len(offers)
      /\ ~ satisfies(total, requirement)
      /\ IF usable(offer.resources, missing)
         THEN /\ total' = Plus(total, part)
              /\ allocations' = Append(allocations,
                   [participant_id |-> offer.participant_id, resources |-> part])
              /\ next' = next + 1
         ELSE next' = Len(offers) + 1 /\ UNCHANGED <<total, allocations>>
      /\ UNCHANGED <<pc, requirement, offers, result>>

\* One turn of the loop; it breaks when the total satisfies the requirement.
Share ==
  LET offer == offers[next]
      missing == remaining(requirement, total)
      part == share(offer.resources, missing)
  IN  /\ pc = "allocate"
      /\ next <= Len(offers)
      /\ ~ satisfies(total, requirement)
      /\ IF usable(offer.resources, missing)
         THEN /\ total' = Plus(total, part)
              /\ allocations' = Append(allocations,
                   [participant_id |-> offer.participant_id, resources |-> part])
         ELSE UNCHANGED <<total, allocations>>
      /\ next' = next + 1
      /\ UNCHANGED <<pc, requirement, offers, result>>

\* After the loop: the check of the total, compose and the new logical node.
Compose ==
  /\ pc = "allocate"
  /\ next > Len(offers) \/ satisfies(total, requirement)
  /\ Done(IF ~ satisfies(total, requirement) THEN "InsufficientResources"
          ELSE IF composable(allocations) THEN "planned" ELSE "InvalidOffer")
  /\ UNCHANGED <<requirement, offers, next, total, allocations>>

\* The lists a fabric of any kind can return.
AnyOffers ==
  UNION {[1..n -> [participant_id: Ids \cup {NoId}, resources: Fragments]] :
           n \in 0..MaxOffers}

-----------------------------------------------------------------------------
\* Type invariant of a plan call.
TypeOK ==
  /\ pc \in {"idle", "offers", "allocate"}
  /\ requirement \in Requirements \cup {default}
  /\ offers \in Seq(ResourceOffer)
  /\ next \in 1..(Len(offers) + 1)
  /\ total \in ResourceFragment
  /\ allocations \in Seq(Allocation)
  /\ result \in SchedulerErrors \cup {"planned", "none"}

\* The offer allocation a is taken from.
Backing(a) == {i \in DOMAIN offers : offers[i].participant_id = a.participant_id}

\* The kinds of resource that are counted exactly: the counters, and the CPU
\* unless the requirement is finer than a float.
Exact == IF requirement.amount[Cpu] <= Significand THEN Dims ELSE Dims \ {Cpu}

\* However the requirement is split, the parts of a plan add up to exactly what
\* was required, no counter saturates on the way and no participant gives more
\* than it offered; a CPU share that is too fine to be counted exactly adds up to
\* no less, as floats do (scheduler.rs:126-141).
ExactPlan ==
  result = "planned" =>
    /\ \A d \in Exact : capacity(allocations).amount[d] = requirement.amount[d]
    /\ capacity(allocations).amount[Cpu] >= requirement.amount[Cpu]
    /\ \A a \in DOMAIN allocations :
         \E i \in Backing(allocations[a]) : \A d \in Dims :
           allocations[a].resources.amount[d] <= offers[i].resources.amount[d]

\* A plan for a bounded lifetime only rests on offers that last as long
\* (scheduler.rs:70-75), and has the lifetime that was required.
LifetimeCovered ==
  result = "planned" /\ requirement.lifetime # Unbounded =>
    /\ capacity(allocations).lifetime = requirement.lifetime
    /\ \A a \in DOMAIN allocations : \A i \in Backing(allocations[a]) :
         \/ offers[i].resources.lifetime = Unbounded
         \/ offers[i].resources.lifetime >= requirement.lifetime

\* What the offers at the positions in S that last long enough add up to,
\* counted without a width.
Offered(S, d) ==
  LET sum[i \in 0..Len(offers)] ==
        IF i = 0 THEN 0
        ELSE sum[i - 1] +
               IF i \in S /\ lives_long_enough(offers[i].resources, requirement)
               THEN offers[i].resources.amount[d] ELSE 0
  IN  sum[Len(offers)]

\* A call that fails for want of resources really had too little on offer: the
\* greedy loop never misses a way to satisfy the requirement (scheduler.rs:126,
\* 143).  The one exception is a CPU requirement that is finer than a float: its
\* sum can fall short by rounding, although all counters are covered.
ShortageIsReal ==
  result = "InsufficientResources" =>
    \/ \E d \in Dims : Offered(DOMAIN offers, d) < requirement.amount[d]
    \/ Cpu \notin Exact /\ total.amount[Cpu] < requirement.amount[Cpu]

\* What is missing of d once the offers at the positions in S are used.
MissingAfter(S, d) ==
  IF Offered(S, d) >= requirement.amount[d] THEN 0 ELSE requirement.amount[d] - Offered(S, d)

\* A plan does not depend on the order of the fabric's offers: of what is counted
\* exactly the participants with the lower ids are used up first, and each gives
\* what they leave missing (scheduler.rs:109, 126-141).
PlannedInOrder ==
  result = "planned" =>
    \A i \in DOMAIN offers, d \in Exact :
      LET id == offers[i].participant_id
          lower == {j \in DOMAIN offers : offers[j].participant_id < id}
          parts == {a \in DOMAIN allocations : allocations[a].participant_id = id}
          due == IF lives_long_enough(offers[i].resources, requirement)
                 THEN MinOf(offers[i].resources.amount[d], MissingAfter(lower, d)) ELSE 0
      IN  IF parts = {} THEN due = 0
          ELSE \E a \in parts : allocations[a].resources.amount[d] = due
=============================================================================
