------------------------------ MODULE Placement ------------------------------
(***************************************************************************)
(* The participant registry (registry.rs), the lifecycle of its            *)
(* participants (participant.rs) and a scheduler that plans over it.       *)
(*                                                                         *)
(* Registry::offers holds the registry's read lock from the first          *)
(* participant to the last, so no participant is registered or removed     *)
(* meanwhile; but the state of each participant is behind a lock of its    *)
(* own and is read twice, by snapshot and by offer, so that participants   *)
(* activate, drain and leave while they are being sampled.                 *)
(*                                                                         *)
(* The scheduler is generic in its Fabric: the registry, a MemoryFabric    *)
(* (fabric.rs) or one of the embedder's.                                   *)
(***************************************************************************)
EXTENDS Scheduler, FiniteSets

CONSTANTS
  Capacity,   \* the resources each participant was created with
  Upserts     \* the offers callers put into a memory fabric

\* Participant::new refuses other resources.
ASSUME CapacityAssumption ==
  Capacity \in [Ids -> {r \in ResourceFragment : validate_requirement(r)}]
ASSUME UpsertsAssumption == Upserts \subseteq ResourceOffer

VARIABLES
  fabric,       \* what the scheduler plans over
  state,        \* of the participant object each id stands for
  registered,   \* the ids in the registry
  cursor,       \* offers: the id whose turn it is or was, NoId at the start
  snapshot,     \* offers: snapshot has seen it active, offer has not answered yet
  sampled,      \* offers: the list so far
  stored,       \* the offers in the memory fabric
  steady,       \* history: offered ever since this call began
  sometime      \* history: offered at some time in this call

members == <<state, registered>>
sampling == <<cursor, snapshot, sampled>>
history == <<steady, sometime>>
placementVars == <<vars, fabric, members, stored, sampling, history>>

Fabrics == {"registry", "memory", "other"}
States == {"Joining", "Active", "Draining", "Left"}

PlacementInit ==
  /\ Init
  /\ fabric \in Fabrics
  /\ stored = {}
  /\ state = [p \in Ids |-> "Joining"]
  /\ registered = {}
  /\ cursor = NoId /\ snapshot = FALSE /\ sampled = <<>>
  /\ steady = {} /\ sometime = {}

-----------------------------------------------------------------------------
\* Participants.

\* The lifecycle.
allowed(from, to) ==
  <<from, to>> \in {<<"Joining", "Active">>, <<"Joining", "Left">>,
                    <<"Active", "Draining">>, <<"Active", "Left">>,
                    <<"Draining", "Left">>}

\* activate, drain and leave: one critical section of the participant's lock.
Transition(p, to) ==
  /\ allowed(state[p], to)
  /\ state' = [state EXCEPT ![p] = to]
  /\ steady' = IF to = "Active" THEN steady ELSE steady \ {p}
  /\ sometime' = IF pc = "offers" /\ p \in registered /\ to = "Active"
                 THEN sometime \cup {p} ELSE sometime
  /\ UNCHANGED <<vars, fabric, registered, stored, sampling>>

\* No reader holds the registry's lock.
Unlocked == pc # "offers"

Register(p) ==
  /\ Unlocked
  /\ p \notin registered
  /\ registered' = registered \cup {p}
  /\ UNCHANGED <<vars, fabric, state, stored, sampling, history>>

\* Registry::remove; the participant object lives on.
RemoveParticipant(p) ==
  /\ Unlocked
  /\ p \in registered
  /\ registered' = registered \ {p}
  /\ UNCHANGED <<vars, fabric, state, stored, sampling, history>>

\* Participant::new for an id that is not in the registry: a machine that comes
\* back under its old identity.
Renew(p) ==
  /\ p \notin registered
  /\ state[p] # "Joining"
  /\ state' = [state EXCEPT ![p] = "Joining"]
  /\ UNCHANGED <<vars, fabric, registered, stored, sampling, history>>

-----------------------------------------------------------------------------
\* The memory fabric, whose operations are critical sections of its lock.

\* Mutant: another offer is added beside the one that is there.
replacedNot(offer) == stored \cup {offer}

\* One offer per participant id.
replaced(offer) ==
  {o \in stored : o.participant_id # offer.participant_id} \cup {offer}

\* upsert refuses an empty id and invalid resources; empty ones pass.
Upsert(offer) ==
  /\ offer.participant_id # NoId /\ validate(offer.resources)
  /\ stored' = replaced(offer)
  /\ sometime' = IF pc = "offers" THEN sometime \cup {offer.participant_id} ELSE sometime
  /\ UNCHANGED <<vars, fabric, members, sampling, steady>>

RemoveOffer(p) ==
  /\ \E o \in stored : o.participant_id = p
  /\ stored' = {o \in stored : o.participant_id # p}
  /\ steady' = steady \ {p}
  /\ UNCHANGED <<vars, fabric, members, sampling, sometime>>

-----------------------------------------------------------------------------
\* A plan.

Offering ==
  CASE fabric = "registry" -> {p \in registered : state[p] = "Active"}
    [] fabric = "memory" -> {o.participant_id : o \in stored}
    [] OTHER -> {}

\* plan asks the fabric once the requirement is valid; the registry's read lock
\* is taken.
StartPlan(required) ==
  /\ Plan(required)
  /\ cursor' = NoId /\ snapshot' = FALSE /\ sampled' = <<>>
  /\ steady' = Offering /\ sometime' = Offering
  /\ UNCHANGED <<fabric, members, stored>>

\* The members whose turn has not come, in the order of the BTreeMap.
Waiting == {p \in registered : p > cursor}

\* Mutant: the state a participant is in is not looked at.
IsActiveAny(p) == TRUE

IsActive(p) == state[p] = "Active"

\* The snapshot of the next member.
Snapshot ==
  /\ pc = "offers"
  /\ ~ snapshot
  /\ \E p \in Waiting :
       /\ \A q \in Waiting : p <= q
       /\ cursor' = p
       /\ snapshot' = IsActive(p)
  /\ UNCHANGED <<vars, fabric, members, stored, sampled, history>>

\* Mutant: a participant that drains between the two reads ends the list.
OfferOrStop ==
  /\ pc = "offers"
  /\ snapshot
  /\ snapshot' = FALSE
  /\ sampled' = IF IsActive(cursor)
                THEN Append(sampled, [participant_id |-> cursor,
                                      resources |-> Capacity[cursor]])
                ELSE sampled
  /\ cursor' = IF IsActive(cursor) THEN cursor
               ELSE CHOOSE p \in Ids : \A q \in Ids : q <= p
  /\ UNCHANGED <<vars, fabric, members, stored, history>>

\* participant.offer reads the state once more.
Offer ==
  /\ pc = "offers"
  /\ snapshot
  /\ snapshot' = FALSE
  /\ sampled' = IF IsActive(cursor)
                THEN Append(sampled, [participant_id |-> cursor,
                                      resources |-> Capacity[cursor]])
                ELSE sampled
  /\ UNCHANGED <<vars, fabric, members, stored, cursor, history>>

\* The list is complete; the read lock is released and the loop begins.
UseOffers ==
  /\ ~ snapshot
  /\ Waiting = {}
  /\ TakeOffers(sampled)
  /\ UNCHANGED <<fabric, members, stored, sampling, history>>

\* The list of the memory fabric, in the order of its BTreeMap.
InIdOrder(S) ==
  CHOOSE s \in [1..Cardinality(S) -> S] :
    \A i, j \in DOMAIN s : i # j =>
      s[i] # s[j] /\ (i < j => s[i].participant_id <= s[j].participant_id)

\* The fabric of the scheduler answers.
Ask ==
  \/ fabric = "registry" /\ (Snapshot \/ Offer \/ UseOffers)
  \/ /\ \/ fabric = "memory" /\ TakeOffers(InIdOrder(stored))
        \/ fabric = "other" /\ \E list \in AnyOffers : TakeOffers(list)
     /\ UNCHANGED <<fabric, members, stored, sampling, history>>

PlacementNext ==
  \/ fabric = "registry" /\ \E p \in Ids :
       \/ \E to \in States : Transition(p, to)
       \/ Register(p) \/ RemoveParticipant(p) \/ Renew(p)
  \/ fabric = "memory" /\ (\/ \E offer \in Upserts : Upsert(offer)
                           \/ \E p \in Ids : RemoveOffer(p))
  \/ \E required \in Requirements : StartPlan(required)
  \/ Ask
  \/ (Share \/ Compose) /\ UNCHANGED <<fabric, members, stored, sampling, history>>

PlacementSpec == PlacementInit /\ [][PlacementNext]_placementVars

-----------------------------------------------------------------------------
Answered == result \in {"planned", "InsufficientResources"}

\* ARCHITECTURE.md:71: only active participants publish offers.  Every
\* participant a plan rests on was registered and active at a time in the call,
\* although its state is read outside the registry's lock (registry.rs:77-81), or
\* had an offer in the memory fabric.
OnlyActiveOffers ==
  fabric # "other" /\ result = "planned" =>
    \A a \in DOMAIN allocations : allocations[a].participant_id \in sometime

\* A participant that is active throughout the call is considered, whatever the
\* others do while they are sampled: a call does not fail for want of the
\* resources of participants that never stopped offering them.
SteadyConsidered ==
  Answered => \A p \in steady : \E i \in DOMAIN offers : offers[i].participant_id = p

\* The offers of the crate's own fabrics are always usable: their keys are
\* distinct and their resources were validated (participant.rs:56-62,
\* fabric.rs:38-51), so the scheduler's InvalidOffer cannot come from a race with
\* participants that come, go and change their offers.
FabricOffersValid == fabric # "other" => result # "InvalidOffer"
=============================================================================
