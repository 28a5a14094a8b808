---------------------------- MODULE PlacementProofs ----------------------------
(***************************************************************************)
(* Proofs about Placement, for any number of participants, offers, plans   *)
(* and kinds of resource.  SchedulerProofs has what the scheduler does     *)
(* with a list of offers; here are the lists its fabrics give it.          *)
(***************************************************************************)
EXTENDS Placement, SchedulerProofs, FiniteSetTheorems

-----------------------------------------------------------------------------
\* The inductive invariant.

\* Types of the fabrics.
FabricTypeOK ==
  /\ fabric \in Fabrics
  /\ state \in [Ids -> States]
  /\ registered \subseteq Ids
  /\ cursor \in Ids \cup {NoId}
  /\ snapshot \in BOOLEAN
  /\ sampled \in OfferList
  /\ stored \subseteq ResourceOffer /\ IsFiniteSet(stored)

\* The memory fabric holds validated offers, one per participant.
StoredOk ==
  /\ \A o \in stored : o.participant_id # NoId /\ validate(o.resources)
  /\ \A o, q \in stored : o.participant_id = q.participant_id => o = q

\* The registry's list so far: validated offers in the order of their ids, up to
\* the participant being sampled, who cannot be removed meanwhile.
SampledOk ==
  /\ \A i \in 1..Len(sampled) :
       /\ sampled[i].participant_id # NoId /\ validate(sampled[i].resources)
       /\ sampled[i].participant_id <= cursor
       /\ snapshot => sampled[i].participant_id # cursor
  /\ \A i, j \in 1..Len(sampled) :
       sampled[i].participant_id = sampled[j].participant_id => i = j
  /\ snapshot => pc = "offers" /\ fabric = "registry" /\ cursor \in registered

\* While the registry is sampled: who is active has been so at some time in the
\* call, as everyone in the list; who has been active throughout is in the list if
\* its turn has come.
RegistryHistory ==
  pc = "offers" /\ fabric = "registry" =>
    /\ \A p \in registered : state[p] = "Active" => p \in sometime
    /\ \A i \in 1..Len(sampled) : sampled[i].participant_id \in sometime
    /\ \A p \in steady : p \in registered /\ state[p] = "Active"
    /\ \A p \in steady :
         p <= cursor /\ ~ (snapshot /\ p = cursor) =>
           \E i \in 1..Len(sampled) : sampled[i].participant_id = p

\* The same of the memory fabric.
MemoryHistory ==
  pc = "offers" /\ fabric = "memory" =>
    /\ \A o \in stored : o.participant_id \in sometime
    /\ \A p \in steady : \E o \in stored : o.participant_id = p

\* What remains of it once the scheduler has the offers.
AnswerOk ==
  /\ fabric = "other" => steady = {}
  /\ fabric # "other" => result # "InvalidOffer"
  /\ Looping => /\ fabric # "other" =>
                     \A i \in 1..Len(offers) : offers[i].participant_id \in sometime
                /\ \A p \in steady : \E i \in 1..Len(offers) : offers[i].participant_id = p

\* The part of the invariant that is about the fabrics.
FInv == FabricTypeOK /\ StoredOk /\ SampledOk /\ RegistryHistory /\ MemoryHistory /\ AnswerOk

\* Whatever participants do while they are sampled, the scheduler gets validated
\* offers of those who offered something, and of all who never stopped.
PInv == SInv /\ FInv

-----------------------------------------------------------------------------
\* Lists of offers.

\* An injection of a finite set into itself reaches every element.
LEMMA Rearranged ==
  ASSUME NEW n \in Nat, NEW f \in [1..n -> 1..n],
         \A i, j \in 1..n : f[i] = f[j] => i = j
  PROVE  \A k \in 1..n : \E i \in 1..n : f[i] = k
<1>1. f \in Injection(1..n, 1..n)
  BY DEF Injection, IsInjective
<1>2. IsFiniteSet(1..n)
  BY FS_Interval
<1>3. f \in Surjection(1..n, 1..n)
  BY <1>1, <1>2, FS_Injection
<1>4. QED
  BY <1>3 DEF Surjection

\* Sorting neither loses nor adds an offer.
LEMMA SortedKeeps ==
  ASSUME NEW list \in OfferList, NEW o \in sorted(list)
  PROVE  /\ \A i \in 1..Len(o) : \E k \in 1..Len(list) : o[i] = list[k]
         /\ \A k \in 1..Len(list) : \E i \in 1..Len(o) : o[i] = list[k]
<1>1. PICK f \in [1..Len(list) -> 1..Len(list)] :
        /\ \A i, j \in 1..Len(list) : f[i] = f[j] => i = j
        /\ Len(o) = Len(list) /\ \A i \in 1..Len(list) : o[i] = list[f[i]]
  BY SortedIs
<1>2. Len(list) \in Nat
  BY DEF OfferList
<1>3. \A k \in 1..Len(list) : \E i \in 1..Len(list) : f[i] = k
  BY <1>1, <1>2, Rearranged
<1>4. ASSUME NEW i \in 1..Len(o)
      PROVE  \E k \in 1..Len(list) : o[i] = list[k]
  <2>1. f[i] \in 1..Len(list) /\ o[i] = list[f[i]]
    BY <1>1
  <2>2. QED
    BY <2>1
<1>5. ASSUME NEW k \in 1..Len(list)
      PROVE  \E i \in 1..Len(o) : o[i] = list[k]
  BY <1>1, <1>3
<1>6. QED
  BY <1>4, <1>5

\* s lists the elements of S, each once, in the order of their ids.
Lists(s, S) ==
  /\ s \in [1..Cardinality(S) -> S]
  /\ \A i, j \in DOMAIN s : i # j =>
       s[i] # s[j] /\ (i < j => s[i].participant_id <= s[j].participant_id)

\* Every finite set of offers can be listed so.
LEMMA ListExists ==
  ASSUME NEW S \in SUBSET ResourceOffer, IsFiniteSet(S)
  PROVE  \E s : Lists(s, S)
<1> DEFINE K == {n \in Nat : \A T \in SUBSET S : Cardinality(T) = n => \E s : Lists(s, T)}
<1>1. \A o \in S : o.participant_id \in Nat
  <2>1. \A o \in S : o.participant_id \in Ids \cup {NoId}
    BY DEF ResourceOffer
  <2>2. Ids \cup {NoId} \subseteq Nat
    BY IdsAssumption DEF NoId
  <2>3. QED
    BY <2>1, <2>2
<1>2. \A T \in SUBSET S : IsFiniteSet(T) /\ Cardinality(T) \in Nat
  BY FS_Subset, FS_CardinalityType
<1>3. 0 \in K
  <2>1. SUFFICES ASSUME NEW T \in SUBSET S, Cardinality(T) = 0
                 PROVE  \E s : Lists(s, T)
    OBVIOUS
  <2>2. T = {}
    BY <1>2, <2>1, FS_EmptySet
  <2>3. Lists(<<>>, T)
    <3>1. <<>> \in [1..0 -> T] /\ DOMAIN <<>> = {}
      OBVIOUS
    <3>2. QED
      BY <2>1, <3>1 DEF Lists
  <2>4. QED
    BY <2>3
<1>4. ASSUME NEW n \in K
      PROVE  n + 1 \in K
  <2>1. SUFFICES ASSUME NEW T \in SUBSET S, Cardinality(T) = n + 1
                 PROVE  \E s : Lists(s, T)
    OBVIOUS
  <2>2. T # {}
    BY <2>1, FS_EmptySet
  <2>3. PICK m \in T : \A o \in T : m.participant_id <= o.participant_id
    <3>1. PICK I : I = {o.participant_id : o \in T}
      OBVIOUS
    <3>2. I \in SUBSET Nat /\ I # {}
      BY <1>1, <2>2, <3>1
    <3>3. PICK x \in I : \A y \in I : x <= y
      BY <3>2, Least
    <3>4. QED
      BY <3>1, <3>3
  <2>4. PICK U \in SUBSET S : U = T \ {m}
    OBVIOUS
  <2>5. Cardinality(U) = n
    <3>1. IsFiniteSet(T)
      BY <1>2
    <3>2. Cardinality(T \ {m}) = Cardinality(T) - 1
      BY <2>3, <3>1, FS_RemoveElement
    <3>3. QED
      BY <2>1, <2>4, <3>2
  <2>6. PICK r : Lists(r, U)
    BY <2>5
  <2>7. r \in [1..n -> U] /\ DOMAIN r = 1..n
    BY <2>5, <2>6 DEF Lists
  <2>8. PICK s : s = [i \in 1..(n + 1) |-> IF i = 1 THEN m ELSE r[i - 1]]
    OBVIOUS
  <2>9. /\ s[1] = m
        /\ \A i \in 2..(n + 1) : s[i] = r[i - 1] /\ i - 1 \in 1..n /\ s[i] \in U
    BY <2>7, <2>8
  <2>10. s \in [1..(n + 1) -> T] /\ DOMAIN s = 1..(n + 1)
    BY <2>4, <2>7, <2>8
  <2>11. \A i \in 1..(n + 1) : i = 1 \/ i \in 2..(n + 1)
    OBVIOUS
  <2>12. ASSUME NEW i \in 1..(n + 1), NEW j \in 1..(n + 1), i # j
         PROVE  s[i] # s[j] /\ (i < j => s[i].participant_id <= s[j].participant_id)
    <3>1. CASE i = 1
      BY <2>3, <2>4, <2>9, <2>11, <2>12, <3>1
    <3>2. CASE j = 1
      BY <2>4, <2>9, <2>11, <2>12, <3>2
    <3>3. CASE i \in 2..(n + 1) /\ j \in 2..(n + 1)
      <4>1. i - 1 # j - 1 /\ (i < j => i - 1 < j - 1)
        BY <2>12, <3>3
      <4>2. QED
        BY <2>6, <2>7, <2>9, <3>3, <4>1 DEF Lists
    <3>4. QED
      BY <2>11, <3>1, <3>2, <3>3
  <2>13. QED
    BY <2>1, <2>10, <2>12 DEF Lists
<1>5. K = Nat
  <2>1. K \in SUBSET Nat
    OBVIOUS
  <2> HIDE DEF K
  <2>2. QED
    BY <1>3, <1>4, <2>1, Induct
<1>6. Cardinality(S) \in K /\ S \in SUBSET S
  BY <1>2, <1>5
<1>7. QED
  BY <1>6

\* MemoryFabric::offers returns every stored offer once (fabric.rs:64-73).
LEMMA InIdOrderIs ==
  ASSUME NEW S \in SUBSET ResourceOffer, IsFiniteSet(S)
  PROVE  /\ InIdOrder(S) \in OfferList /\ Len(InIdOrder(S)) = Cardinality(S)
         /\ \A i \in 1..Cardinality(S) : InIdOrder(S)[i] \in S
         /\ \A i, j \in 1..Cardinality(S) : InIdOrder(S)[i] = InIdOrder(S)[j] => i = j
         /\ \A o \in S : \E i \in 1..Cardinality(S) : InIdOrder(S)[i] = o
<1>1. PICK s : s = InIdOrder(S)
  OBVIOUS
<1>2. Lists(s, S)
  BY <1>1, ListExists DEF InIdOrder, Lists
<1>3. Cardinality(S) \in Nat
  BY FS_CardinalityType
<1>4. s \in [1..Cardinality(S) -> S] /\ DOMAIN s = 1..Cardinality(S)
  BY <1>2 DEF Lists
<1>5. \A i, j \in 1..Cardinality(S) : s[i] = s[j] => i = j
  BY <1>2, <1>4 DEF Lists
<1>6. s \in OfferList /\ Len(s) = Cardinality(S)
  <2>1. s \in [1..Cardinality(S) -> ResourceOffer]
    BY <1>4
  <2>2. QED
    BY <1>3, <2>1 DEF OfferList
<1>7. \A o \in S : \E i \in 1..Cardinality(S) : s[i] = o
  <2>1. s \in Injection(1..Cardinality(S), S)
    BY <1>4, <1>5 DEF Injection, IsInjective
  <2>2. Cardinality(1..Cardinality(S)) = Cardinality(S)
    BY <1>3, FS_Interval
  <2>3. s \in Surjection(1..Cardinality(S), S)
    BY <2>1, <2>2, FS_Injection
  <2>4. QED
    BY <2>3 DEF Surjection
<1>8. QED
  BY <1>1, <1>4, <1>5, <1>6, <1>7

-----------------------------------------------------------------------------
\* What the steps preserve.

\* The steps of participants and of the memory fabric leave the scheduler alone.
LEMMA SchedulerStays ==
  ASSUME SInv, UNCHANGED vars
  PROVE  SInv' /\ (Looping' <=> Looping)
<1>1. UNCHANGED <<pc, requirement, offers, next, total, allocations, result>>
  BY DEF vars
<1>2. Looping' <=> Looping
  BY <1>1 DEF Looping
<1>3. TypeOK' /\ CallOk'
  BY <1>1 DEF SInv, TypeOK, CallOk
<1>4. OffersOk' /\ LoopOk'
  BY <1>1, <1>2 DEF SInv, OffersOk, LoopOk
<1>5. QED
  BY <1>2, <1>3, <1>4 DEF SInv

\* Participant ids are numbers other than NoId.
LEMMA IdTypes == NoId = 0 /\ \A p \in Ids : p \in Nat /\ p > 0
  BY IdsAssumption DEF NoId

\* A participant changes its state.
LEMMA TransitionStep ==
  ASSUME PInv, fabric = "registry", NEW p \in Ids, NEW to \in States, Transition(p, to)
  PROVE  FInv'
<1>1. /\ UNCHANGED <<pc, offers, result, fabric, registered, stored, cursor, snapshot, sampled>>
      /\ state' = [state EXCEPT ![p] = to]
      /\ state[p] = "Active" => to # "Active"
      /\ steady' = IF to = "Active" THEN steady ELSE steady \ {p}
      /\ sometime' = IF pc = "offers" /\ p \in registered /\ to = "Active"
                      THEN sometime \cup {p} ELSE sometime
  BY DEF Transition, vars, sampling, allowed
<1>2. FabricTypeOK'
  BY <1>1 DEF PInv, FInv, FabricTypeOK
<1>3. /\ \A q \in Ids : state'[q] = IF q = p THEN to ELSE state[q]
      /\ sometime \subseteq sometime' /\ steady' \subseteq steady
      /\ p \in steady' => to = "Active"
  BY <1>1 DEF PInv, FInv, FabricTypeOK
<1>4. StoredOk' /\ SampledOk'
  BY <1>1 DEF PInv, FInv, StoredOk, SampledOk
<1>5. RegistryHistory'
  <2>1. SUFFICES ASSUME pc = "offers"
                 PROVE  RegistryHistory'
    BY <1>1 DEF RegistryHistory
  <2>2. registered \subseteq Ids
    BY DEF PInv, FInv, FabricTypeOK
  <2>3. \A q \in registered : state'[q] = "Active" => q \in sometime'
    BY <1>1, <1>3, <2>1, <2>2 DEF PInv, FInv, RegistryHistory
  <2>4. \A q \in steady' : q \in registered /\ state'[q] = "Active"
    BY <1>1, <1>3, <2>1, <2>2 DEF PInv, FInv, RegistryHistory
  <2>5. QED
    BY <1>1, <1>3, <2>1, <2>3, <2>4 DEF PInv, FInv, RegistryHistory
<1>6. MemoryHistory'
  BY <1>1 DEF MemoryHistory
<1>7. AnswerOk'
  BY <1>1, <1>3 DEF PInv, FInv, AnswerOk, Looping
<1>8. QED
  BY <1>2, <1>4, <1>5, <1>6, <1>7 DEF FInv

\* A participant is registered or removed, or comes back.
LEMMA MembershipStep ==
  ASSUME PInv, fabric = "registry", NEW p \in Ids,
         Register(p) \/ RemoveParticipant(p) \/ Renew(p)
  PROVE  FInv'
<1>1. /\ UNCHANGED <<pc, offers, result, fabric, stored, cursor, snapshot, sampled, steady, sometime>>
      /\ \/ pc # "offers" /\ registered' \subseteq registered \cup {p} /\ state' = state
         \/ p \notin registered /\ registered' = registered
            /\ state' = [state EXCEPT ![p] = "Joining"]
  BY DEF Register, RemoveParticipant, Renew, Unlocked, vars, sampling, history
<1>2. FabricTypeOK'
  BY <1>1 DEF PInv, FInv, FabricTypeOK, States
<1>3. StoredOk'
  BY <1>1 DEF PInv, FInv, StoredOk
<1>4. SampledOk'
  BY <1>1 DEF PInv, FInv, SampledOk
<1>5. RegistryHistory'
  <2>1. SUFFICES ASSUME pc = "offers"
                 PROVE  RegistryHistory'
    BY <1>1 DEF RegistryHistory
  <2>2. registered' = registered /\ \A q \in registered : state'[q] = state[q]
    BY <1>1, <2>1 DEF PInv, FInv, FabricTypeOK
  <2>3. QED
    BY <1>1, <2>1, <2>2 DEF PInv, FInv, RegistryHistory
<1>6. MemoryHistory'
  BY <1>1 DEF MemoryHistory
<1>7. AnswerOk'
  BY <1>1 DEF PInv, FInv, AnswerOk, Looping
<1>8. QED
  BY <1>2, <1>3, <1>4, <1>5, <1>6, <1>7 DEF FInv

\* An offer enters or leaves the memory fabric.
LEMMA StoreStep ==
  ASSUME PInv, fabric = "memory",
         \/ \E offer \in Upserts : Upsert(offer)
         \/ \E p \in Ids : RemoveOffer(p)
  PROVE  FInv'
<1>1. /\ UNCHANGED <<pc, offers, result, fabric, state, registered, cursor, snapshot, sampled>>
      /\ sometime \subseteq sometime' /\ steady' \subseteq steady
  BY DEF Upsert, RemoveOffer, vars, members, sampling
<1>2. FabricTypeOK' /\ StoredOk' /\ MemoryHistory'
  <2>1. ASSUME NEW offer \in Upserts, Upsert(offer)
        PROVE  FabricTypeOK' /\ StoredOk' /\ MemoryHistory'
    <3>1. /\ offer.participant_id # NoId /\ validate(offer.resources) /\ offer \in ResourceOffer
          /\ stored' = {o \in stored : o.participant_id # offer.participant_id} \cup {offer}
          /\ steady' = steady
          /\ pc = "offers" => sometime' = sometime \cup {offer.participant_id}
      BY <2>1, UpsertsAssumption DEF Upsert, replaced
    <3>2. IsFiniteSet(stored')
      <4>1. {o \in stored : o.participant_id # offer.participant_id} \in SUBSET stored
        OBVIOUS
      <4>2. IsFiniteSet({o \in stored : o.participant_id # offer.participant_id})
        BY <4>1, FS_Subset DEF PInv, FInv, FabricTypeOK
      <4>3. QED
        BY <3>1, <4>2, FS_AddElement
    <3>3. FabricTypeOK'
      BY <1>1, <3>1, <3>2 DEF PInv, FInv, FabricTypeOK
    <3>4. StoredOk'
      BY <3>1 DEF PInv, FInv, StoredOk
    <3>5. MemoryHistory'
      BY <1>1, <3>1 DEF PInv, FInv, MemoryHistory
    <3>6. QED
      BY <3>3, <3>4, <3>5
  <2>2. ASSUME NEW p \in Ids, RemoveOffer(p)
        PROVE  FabricTypeOK' /\ StoredOk' /\ MemoryHistory'
    <3>1. /\ stored' = {o \in stored : o.participant_id # p}
          /\ steady' = steady \ {p} /\ sometime' = sometime
      BY <2>2 DEF RemoveOffer
    <3>2. IsFiniteSet(stored')
      BY <3>1, FS_Subset DEF PInv, FInv, FabricTypeOK
    <3>3. FabricTypeOK'
      BY <1>1, <3>1, <3>2 DEF PInv, FInv, FabricTypeOK
    <3>4. StoredOk'
      BY <3>1 DEF PInv, FInv, StoredOk
    <3>5. MemoryHistory'
      BY <1>1, <3>1 DEF PInv, FInv, MemoryHistory
    <3>6. QED
      BY <3>3, <3>4, <3>5
  <2>3. QED
    BY <2>1, <2>2
<1>3. SampledOk'
  BY <1>1 DEF PInv, FInv, SampledOk
<1>4. RegistryHistory'
  BY <1>1 DEF RegistryHistory
<1>5. AnswerOk'
  BY <1>1 DEF PInv, FInv, AnswerOk, Looping
<1>6. QED
  BY <1>2, <1>3, <1>4, <1>5 DEF FInv

\* A plan call starts: nobody has been sampled.
LEMMA StartStep ==
  ASSUME PInv, NEW required \in Requirements, StartPlan(required)
  PROVE  FInv'
<1>1. /\ UNCHANGED <<fabric, state, registered, stored>>
      /\ cursor' = NoId /\ snapshot' = FALSE /\ sampled' = <<>>
      /\ steady' = Offering /\ sometime' = Offering
      /\ pc' \in {"offers", "idle"} /\ result' \in {"none", "InvalidRequirement"}
  BY DEF StartPlan, Plan, Done, members
<1>2. <<>> \in OfferList /\ Len(<<>>) = 0
  BY DEF OfferList
<1>3. FabricTypeOK' /\ StoredOk'
  BY <1>1, <1>2 DEF PInv, FInv, FabricTypeOK, StoredOk
<1>4. SampledOk'
  BY <1>1, <1>2 DEF SampledOk
<1>5. RegistryHistory'
  <2>1. SUFFICES ASSUME fabric = "registry"
                 PROVE  RegistryHistory'
    BY <1>1 DEF RegistryHistory
  <2>2. Offering = {p \in registered : state[p] = "Active"} /\ registered \subseteq Ids
    BY <2>1 DEF Offering, PInv, FInv, FabricTypeOK
  <2>3. \A p \in Offering : ~ (p <= NoId)
    BY <2>2, IdTypes
  <2>4. QED
    BY <1>1, <1>2, <2>1, <2>2, <2>3 DEF RegistryHistory
<1>6. MemoryHistory'
  <2>1. SUFFICES ASSUME fabric = "memory"
                 PROVE  MemoryHistory'
    BY <1>1 DEF MemoryHistory
  <2>2. Offering = {o.participant_id : o \in stored}
    BY <2>1 DEF Offering
  <2>3. QED
    BY <1>1, <2>2 DEF MemoryHistory
<1>7. AnswerOk'
  <2>1. fabric = "other" => Offering = {}
    BY DEF Offering
  <2>2. ~ Looping'
    BY <1>1 DEF Looping
  <2>3. QED
    BY <1>1, <2>1, <2>2 DEF AnswerOk
<1>8. QED
  BY <1>3, <1>4, <1>5, <1>6, <1>7 DEF FInv

\* The next participant is looked at.
LEMMA SnapshotStep ==
  ASSUME PInv, fabric = "registry", Snapshot
  PROVE  FInv'
<1>1. /\ pc = "offers" /\ ~ snapshot
      /\ UNCHANGED <<pc, offers, result, fabric, state, registered, stored, sampled, steady, sometime>>
  BY DEF Snapshot, vars, members, history
<1>2. PICK p \in registered :
        /\ p > cursor /\ \A q \in registered : q > cursor => p <= q
        /\ cursor' = p /\ snapshot' = (state[p] = "Active")
  BY DEF Snapshot, Waiting, IsActive
<1>3. /\ p \in Ids /\ p \in Nat /\ cursor \in Nat /\ snapshot' \in BOOLEAN
      /\ registered \subseteq Ids
  BY <1>2, IdTypes DEF PInv, FInv, FabricTypeOK
<1>4. FabricTypeOK' /\ StoredOk'
  BY <1>1, <1>2, <1>3 DEF PInv, FInv, FabricTypeOK, StoredOk
<1>5. \A i \in 1..Len(sampled) : sampled[i].participant_id \in Nat
  <2>1. \A i \in 1..Len(sampled) : sampled[i] \in ResourceOffer
    BY DEF PInv, FInv, FabricTypeOK, OfferList
  <2>2. \A i \in 1..Len(sampled) : sampled[i].participant_id \in Ids \cup {NoId}
    BY <2>1 DEF ResourceOffer
  <2>3. QED
    BY <2>2, IdTypes
<1>6. \A i \in 1..Len(sampled) : sampled[i].participant_id < p
  BY <1>2, <1>3, <1>5 DEF PInv, FInv, SampledOk
<1>7. SampledOk'
  BY <1>1, <1>2, <1>3, <1>5, <1>6 DEF PInv, FInv, SampledOk
<1>8. RegistryHistory'
  <2>1. ASSUME NEW q \in steady, q <= p, ~ (snapshot' /\ q = p)
        PROVE  \E i \in 1..Len(sampled) : sampled[i].participant_id = q
    <3>1. q \in registered /\ state[q] = "Active" /\ q \in Nat
      BY <1>1, <1>3, IdTypes DEF PInv, FInv, RegistryHistory
    <3>2. q # p
      BY <1>2, <2>1, <3>1
    <3>3. ~ (q > cursor)
      BY <1>2, <1>3, <2>1, <3>1, <3>2
    <3>4. q <= cursor
      BY <1>3, <3>1, <3>3
    <3>5. QED
      BY <1>1, <3>4 DEF PInv, FInv, RegistryHistory
  <2>2. QED
    BY <1>1, <1>2, <2>1 DEF PInv, FInv, RegistryHistory
<1>9. MemoryHistory'
  BY <1>1 DEF MemoryHistory
<1>10. AnswerOk'
  BY <1>1 DEF PInv, FInv, AnswerOk, Looping
<1>11. QED
  BY <1>4, <1>7, <1>8, <1>9, <1>10 DEF FInv

\* The participant just looked at answers, or no longer does.
LEMMA OfferStep ==
  ASSUME PInv, fabric = "registry", Offer
  PROVE  FInv'
<1>1. /\ pc = "offers" /\ snapshot /\ snapshot' = FALSE
      /\ UNCHANGED <<pc, offers, result, fabric, state, registered, stored, cursor, steady, sometime>>
      /\ sampled' = IF state[cursor] = "Active"
                     THEN Append(sampled, [participant_id |-> cursor, resources |-> Capacity[cursor]])
                     ELSE sampled
  BY DEF Offer, IsActive, vars, members, history
<1>2. cursor \in registered /\ cursor \in Ids /\ cursor # NoId /\ cursor <= cursor
  BY <1>1, IdTypes DEF PInv, FInv, SampledOk, FabricTypeOK
<1>3. /\ sampled \in OfferList /\ Len(sampled) \in Nat
      /\ \A i \in 1..Len(sampled) :
           /\ sampled[i].participant_id # NoId /\ validate(sampled[i].resources)
           /\ sampled[i].participant_id <= cursor /\ sampled[i].participant_id # cursor
      /\ \A i, j \in 1..Len(sampled) :
           sampled[i].participant_id = sampled[j].participant_id => i = j
  BY <1>1 DEF PInv, FInv, SampledOk, FabricTypeOK, OfferList
<1>4. MemoryHistory' /\ AnswerOk' /\ StoredOk'
  BY <1>1 DEF PInv, FInv, MemoryHistory, AnswerOk, Looping, StoredOk
<1>5. CASE state[cursor] # "Active"
  <2>1. sampled' = sampled
    BY <1>1, <1>5
  <2>2. FabricTypeOK'
    BY <1>1, <2>1 DEF PInv, FInv, FabricTypeOK
  <2>3. SampledOk'
    BY <1>1, <1>3, <2>1 DEF SampledOk
  <2>4. cursor \notin steady
    BY <1>1, <1>5 DEF PInv, FInv, RegistryHistory
  <2>5. RegistryHistory'
    BY <1>1, <2>1, <2>4 DEF PInv, FInv, RegistryHistory
  <2>6. QED
    BY <1>4, <2>2, <2>3, <2>5 DEF FInv
<1>6. CASE state[cursor] = "Active"
  <2>1. PICK o : o = [participant_id |-> cursor, resources |-> Capacity[cursor]]
    OBVIOUS
  <2>2. Capacity[cursor] \in ResourceFragment /\ validate(Capacity[cursor])
    BY <1>2, CapacityAssumption DEF validate_requirement
  <2>3. o \in ResourceOffer /\ o.participant_id = cursor /\ validate(o.resources)
    BY <1>2, <2>1, <2>2 DEF ResourceOffer
  <2>4. sampled' = Append(sampled, o)
    BY <1>1, <1>6, <2>1
  <2>5. /\ sampled' \in OfferList /\ Len(sampled') = Len(sampled) + 1
        /\ \A i \in 1..Len(sampled) : i \in 1..Len(sampled') /\ sampled'[i] = sampled[i]
        /\ Len(sampled') \in 1..Len(sampled') /\ sampled'[Len(sampled')] = o
        /\ \A i \in 1..Len(sampled') : i \in 1..Len(sampled) \/ i = Len(sampled')
    BY <1>3, <2>3, <2>4 DEF OfferList
  <2>6. FabricTypeOK'
    BY <1>1, <2>5 DEF PInv, FInv, FabricTypeOK
  <2>7. SampledOk'
    <3>1. ASSUME NEW i \in 1..Len(sampled')
          PROVE  /\ sampled'[i].participant_id # NoId /\ validate(sampled'[i].resources)
                 /\ sampled'[i].participant_id <= cursor
      BY <1>2, <1>3, <2>3, <2>5
    <3>2. ASSUME NEW i \in 1..Len(sampled'), NEW j \in 1..Len(sampled'),
                 sampled'[i].participant_id = sampled'[j].participant_id
          PROVE  i = j
      BY <1>3, <2>3, <2>5, <3>2
    <3>3. QED
      BY <1>1, <3>1, <3>2 DEF SampledOk
  <2>8. RegistryHistory'
    <3>1. cursor \in sometime
      BY <1>1, <1>2, <1>6 DEF PInv, FInv, RegistryHistory
    <3>2. \A i \in 1..Len(sampled') : sampled'[i].participant_id \in sometime
      BY <1>1, <2>3, <2>5, <3>1 DEF PInv, FInv, RegistryHistory
    <3>3. ASSUME NEW q \in steady, q <= cursor
          PROVE  \E i \in 1..Len(sampled') : sampled'[i].participant_id = q
      <4>1. CASE q = cursor
        BY <2>3, <2>5, <4>1
      <4>2. CASE q # cursor
        <5>1. PICK i \in 1..Len(sampled) : sampled[i].participant_id = q
          BY <1>1, <3>3, <4>2 DEF PInv, FInv, RegistryHistory
        <5>2. QED
          BY <2>5, <5>1
      <4>3. QED
        BY <4>1, <4>2
    <3>4. QED
      BY <1>1, <3>2, <3>3 DEF PInv, FInv, RegistryHistory
  <2>9. QED
    BY <1>4, <2>6, <2>7, <2>8 DEF FInv
<1>7. QED
  BY <1>5, <1>6

\* The scheduler takes a list that has everyone it must have.
LEMMA TakeFabricStep ==
  ASSUME PInv, NEW list \in OfferList, TakeOffers(list), ~ snapshot,
         UNCHANGED <<fabric, members, stored, sampling, history>>,
         fabric # "other" => /\ valid_offers(list)
                             /\ \A i \in 1..Len(list) : list[i].participant_id \in sometime,
         \A p \in steady : \E i \in 1..Len(list) : list[i].participant_id = p
  PROVE  FInv'
<1>1. /\ UNCHANGED <<fabric, state, registered, stored, cursor, snapshot, sampled, steady, sometime>>
      /\ pc' # "offers" /\ offers' \in sorted(list)
      /\ \/ valid_offers(list) /\ result' = result
         \/ ~ valid_offers(list) /\ result' = "InvalidOffer"
  BY DEF TakeOffers, Done, members, sampling, history
<1>2. FabricTypeOK' /\ StoredOk' /\ SampledOk' /\ RegistryHistory' /\ MemoryHistory'
  BY <1>1 DEF PInv, FInv, FabricTypeOK, StoredOk, SampledOk, RegistryHistory, MemoryHistory
<1>3. fabric # "other" => \A i \in 1..Len(offers') : offers'[i].participant_id \in sometime
  BY <1>1, SortedKeeps
<1>4. ASSUME NEW p \in steady
      PROVE  \E i \in 1..Len(offers') : offers'[i].participant_id = p
  <2>1. PICK k \in 1..Len(list) : list[k].participant_id = p
    OBVIOUS
  <2>2. PICK i \in 1..Len(offers') : offers'[i] = list[k]
    BY <1>1, SortedKeeps
  <2>3. QED
    BY <2>1, <2>2
<1>5. fabric # "other" => result' # "InvalidOffer"
  BY <1>1 DEF PInv, FInv, AnswerOk
<1>6. fabric = "other" => steady = {}
  BY DEF PInv, FInv, AnswerOk
<1>7. AnswerOk'
  BY <1>1, <1>3, <1>4, <1>5, <1>6 DEF AnswerOk
<1>8. QED
  BY <1>2, <1>7 DEF FInv

\* The fabric of the scheduler answers.
LEMMA AskStep ==
  ASSUME PInv, Ask
  PROVE  SInv' /\ FInv'
<1>1. CASE fabric = "registry" /\ Snapshot
  BY <1>1, SnapshotStep, SchedulerStays DEF PInv, Snapshot
<1>2. CASE fabric = "registry" /\ Offer
  BY <1>2, OfferStep, SchedulerStays DEF PInv, Offer
<1>3. CASE fabric = "registry" /\ UseOffers
  <2>1. /\ ~ snapshot /\ Waiting = {} /\ TakeOffers(sampled)
        /\ UNCHANGED <<fabric, members, stored, sampling, history>> /\ pc = "offers"
    BY <1>3 DEF UseOffers, TakeOffers
  <2>2. /\ sampled \in OfferList /\ DOMAIN sampled = 1..Len(sampled)
        /\ registered \subseteq Ids /\ cursor \in Nat
    BY IdTypes DEF PInv, FInv, FabricTypeOK, OfferList
  <2>3. valid_offers(sampled)
    BY <2>2 DEF PInv, FInv, SampledOk, valid_offers
  <2>4. \A i \in 1..Len(sampled) : sampled[i].participant_id \in sometime
    BY <1>3, <2>1 DEF PInv, FInv, RegistryHistory
  <2>5. ASSUME NEW p \in steady
        PROVE  \E i \in 1..Len(sampled) : sampled[i].participant_id = p
    <3>1. p \in registered /\ p \in Nat
      BY <1>3, <2>1, <2>2, IdTypes DEF PInv, FInv, RegistryHistory
    <3>2. ~ (p > cursor)
      BY <2>1, <3>1 DEF Waiting
    <3>3. p <= cursor
      BY <2>2, <3>1, <3>2
    <3>4. QED
      BY <1>3, <2>1, <3>3 DEF PInv, FInv, RegistryHistory
  <2>6. FInv'
    BY <2>1, <2>2, <2>3, <2>4, <2>5, TakeFabricStep
  <2>7. SInv'
    BY <2>1, <2>2, TakeStep DEF PInv
  <2>8. QED
    BY <2>6, <2>7
<1>4. CASE /\ fabric = "memory" /\ TakeOffers(InIdOrder(stored))
           /\ UNCHANGED <<fabric, members, stored, sampling, history>>
  <2>1. PICK list : list = InIdOrder(stored)
    OBVIOUS
  <2>2. /\ list \in OfferList /\ \A i \in 1..Len(list) : list[i] \in stored
        /\ \A i, j \in 1..Len(list) : list[i] = list[j] => i = j
        /\ \A o \in stored : \E i \in 1..Len(list) : list[i] = o
    BY <2>1, InIdOrderIs DEF PInv, FInv, FabricTypeOK
  <2>3. DOMAIN list = 1..Len(list)
    BY <2>2 DEF OfferList
  <2>4. valid_offers(list)
    BY <2>2, <2>3 DEF PInv, FInv, StoredOk, valid_offers
  <2>5. TakeOffers(list) /\ pc = "offers" /\ ~ snapshot
    BY <1>4, <2>1 DEF TakeOffers, PInv, FInv, SampledOk
  <2>6. \A i \in 1..Len(list) : list[i].participant_id \in sometime
    BY <1>4, <2>2, <2>5 DEF PInv, FInv, MemoryHistory
  <2>7. ASSUME NEW p \in steady
        PROVE  \E i \in 1..Len(list) : list[i].participant_id = p
    <3>1. PICK o \in stored : o.participant_id = p
      BY <1>4, <2>5 DEF PInv, FInv, MemoryHistory
    <3>2. PICK i \in 1..Len(list) : list[i] = o
      BY <2>2
    <3>3. QED
      BY <3>1, <3>2
  <2>8. FInv'
    BY <1>4, <2>2, <2>4, <2>5, <2>6, <2>7, TakeFabricStep
  <2>9. SInv'
    BY <2>2, <2>5, TakeStep DEF PInv
  <2>10. QED
    BY <2>8, <2>9
<1>5. CASE /\ fabric = "other" /\ \E list \in AnyOffers : TakeOffers(list)
           /\ UNCHANGED <<fabric, members, stored, sampling, history>>
  <2>1. PICK list \in AnyOffers : TakeOffers(list)
    BY <1>5
  <2>2. list \in OfferList
    <3>1. PICK n \in 0..MaxOffers :
            list \in [1..n -> [participant_id: Ids \cup {NoId}, resources: Fragments]]
      BY DEF AnyOffers
    <3>2. n \in Nat
      BY OffersAssumption
    <3>3. [participant_id: Ids \cup {NoId}, resources: Fragments] \subseteq ResourceOffer
      BY FragmentsAssumption DEF ResourceOffer
    <3>4. list \in [1..n -> ResourceOffer]
      BY <3>1, <3>3
    <3>5. QED
      BY <3>2, <3>4 DEF OfferList
  <2>3. steady = {} /\ ~ snapshot
    BY <1>5 DEF PInv, FInv, AnswerOk, SampledOk
  <2>4. FInv'
    BY <1>5, <2>1, <2>2, <2>3, TakeFabricStep
  <2>5. SInv'
    BY <2>1, <2>2, TakeStep DEF PInv
  <2>6. QED
    BY <2>4, <2>5
<1>6. QED
  BY <1>1, <1>2, <1>3, <1>4, <1>5 DEF Ask

\* The loop of the scheduler leaves the fabrics alone.
LEMMA LoopStep ==
  ASSUME PInv, Share \/ Compose, UNCHANGED <<fabric, members, stored, sampling, history>>
  PROVE  SInv' /\ FInv'
<1>1. SInv' /\ (Compose => result' # "InvalidOffer")
  BY ShareStep, ComposeStep DEF PInv
<1>2. /\ UNCHANGED <<fabric, state, registered, stored, cursor, snapshot, sampled, steady, sometime>>
      /\ pc = "allocate" /\ pc' # "offers" /\ offers' = offers
      /\ Share => result' = result
  BY DEF Share, Compose, Done, members, sampling, history
<1>3. ~ snapshot
  BY <1>2 DEF PInv, FInv, SampledOk
<1>4. FabricTypeOK' /\ StoredOk' /\ SampledOk' /\ RegistryHistory' /\ MemoryHistory'
  BY <1>2, <1>3 DEF PInv, FInv, FabricTypeOK, StoredOk, SampledOk, RegistryHistory, MemoryHistory
<1>5. Looping
  BY <1>2 DEF Looping
<1>6. AnswerOk'
  BY <1>1, <1>2, <1>5 DEF PInv, FInv, AnswerOk
<1>7. QED
  BY <1>1, <1>4, <1>6 DEF FInv

\* The initial state satisfies the invariant.
LEMMA InvInit == PlacementInit => PInv
<1>1. SUFFICES ASSUME PlacementInit
               PROVE  PInv
  OBVIOUS
<1>2. /\ pc = "idle" /\ requirement = default /\ offers = <<>> /\ next = 1
      /\ total = default /\ allocations = <<>> /\ result = "none"
  BY <1>1 DEF PlacementInit, Init
<1>3. <<>> \in Seq(ResourceOffer) /\ <<>> \in Seq(Allocation) /\ Len(<<>>) = 0
  OBVIOUS
<1>4. TypeOK
  <2>1. 1 \in 1..(0 + 1)
    OBVIOUS
  <2>2. QED
    BY <1>2, <1>3, <2>1, FragmentTypes DEF TypeOK
<1>5. ~ Looping
  BY <1>2 DEF Looping
<1>6. SInv
  BY <1>2, <1>4, <1>5 DEF SInv, OffersOk, LoopOk, CallOk
<1>7. FabricTypeOK
  BY <1>1, <1>3, FS_EmptySet DEF PlacementInit, FabricTypeOK, States, OfferList
<1>8. StoredOk /\ SampledOk
  BY <1>1, <1>3 DEF PlacementInit, StoredOk, SampledOk
<1>9. RegistryHistory /\ MemoryHistory /\ AnswerOk
  BY <1>1, <1>2, <1>5 DEF PlacementInit, RegistryHistory, MemoryHistory, AnswerOk
<1>10. QED
  BY <1>6, <1>7, <1>8, <1>9 DEF PInv, FInv

\* Whatever participants, callers and the scheduler do, the fabric's list and the
\* loop over it stay consistent (registry.rs:67-84, scheduler.rs:103-159).
THEOREM InvHolds == PlacementSpec => []PInv
<1>1. ASSUME PInv, [PlacementNext]_placementVars
      PROVE  PInv'
  <2>1. CASE UNCHANGED placementVars
    <3>1. UNCHANGED <<pc, offers, result, fabric, state, registered, stored,
                      cursor, snapshot, sampled, steady, sometime>> /\ UNCHANGED vars
      BY <2>1 DEF placementVars, vars, members, sampling, history
    <3>2. SInv'
      BY <1>1, <3>1, SchedulerStays DEF PInv
    <3>3. FabricTypeOK' /\ StoredOk' /\ SampledOk'
      BY <1>1, <3>1 DEF PInv, FInv, FabricTypeOK, StoredOk, SampledOk
    <3>4. RegistryHistory' /\ MemoryHistory' /\ AnswerOk'
      BY <1>1, <3>1 DEF PInv, FInv, RegistryHistory, MemoryHistory, AnswerOk, Looping
    <3>5. QED
      BY <3>2, <3>3, <3>4 DEF PInv, FInv
  <2>2. CASE fabric = "registry" /\ \E p \in Ids :
               \/ \E to \in States : Transition(p, to)
               \/ Register(p) \/ RemoveParticipant(p) \/ Renew(p)
    <3>1. FInv'
      BY <1>1, <2>2, TransitionStep, MembershipStep
    <3>2. UNCHANGED vars
      BY <2>2 DEF Transition, Register, RemoveParticipant, Renew
    <3>3. QED
      BY <1>1, <3>1, <3>2, SchedulerStays DEF PInv
  <2>3. CASE fabric = "memory" /\ (\/ \E offer \in Upserts : Upsert(offer)
                                   \/ \E p \in Ids : RemoveOffer(p))
    <3>1. FInv'
      BY <1>1, <2>3, StoreStep
    <3>2. UNCHANGED vars
      BY <2>3 DEF Upsert, RemoveOffer
    <3>3. QED
      BY <1>1, <3>1, <3>2, SchedulerStays DEF PInv
  <2>4. ASSUME NEW required \in Requirements, StartPlan(required)
        PROVE  PInv'
    BY <1>1, <2>4, StartStep, PlanStep DEF PInv, StartPlan
  <2>5. CASE Ask
    BY <1>1, <2>5, AskStep DEF PInv
  <2>6. CASE (Share \/ Compose) /\ UNCHANGED <<fabric, members, stored, sampling, history>>
    BY <1>1, <2>6, LoopStep DEF PInv
  <2>7. CASE \E required \in Requirements : StartPlan(required)
    BY <2>4, <2>7
  <2>8. CASE PlacementNext
    BY <2>8, <2>2, <2>3, <2>5, <2>6, <2>7 DEF PlacementNext
  <2>9. QED
    BY <1>1, <2>1, <2>8
<1>2. QED
  BY <1>1, InvInit, PTL DEF PlacementSpec

-----------------------------------------------------------------------------
\* The theorems.

\* A plan call keeps its types, whichever fabric it asks.
THEOREM TypeHolds == PlacementSpec => []TypeOK
<1>1. PInv => TypeOK
  BY DEF PInv, SInv
<1>2. QED
  BY <1>1, InvHolds, PTL

\* The parts of a plan add up to exactly what was required and none is more than
\* its offer, for any number of offers and kinds of resource; CPU shares that are
\* too fine for a float to be added exactly add up to no less
\* (scheduler.rs:126-141).
THEOREM PlansAddUp == PlacementSpec => []ExactPlan
<1>1. PInv => ExactPlan
  BY PlansAreExact DEF PInv
<1>2. QED
  BY <1>1, InvHolds, PTL

\* A plan for a bounded lifetime rests on offers that last as long
\* (scheduler.rs:70-75).
THEOREM PlansLastLongEnough == PlacementSpec => []LifetimeCovered
<1>1. PInv => LifetimeCovered
  BY LifetimesAreCovered DEF PInv
<1>2. QED
  BY <1>1, InvHolds, PTL

\* The greedy loop never misses a way to satisfy a requirement, but for a CPU
\* requirement that is too fine for a float to be added exactly, where the rounded
\* sum may fall short: for floats of any precision (scheduler.rs:126-144).
THEOREM GreedyIsComplete == PlacementSpec => []ShortageIsReal
<1>1. PInv => ShortageIsReal
  BY ShortagesAreReal DEF PInv
<1>2. QED
  BY <1>1, InvHolds, PTL

\* A plan is determined by the offers and not by their order: in every kind of
\* resource that is counted exactly, lower ids are used up first
\* (scheduler.rs:109, 126-141).
THEOREM PlansFollowTheIds == PlacementSpec => []PlannedInOrder
<1>1. PInv => PlannedInOrder
  BY PlansAreInOrder DEF PInv
<1>2. QED
  BY <1>1, InvHolds, PTL

\* Every participant of a plan was offering at some time in the call, although its
\* state is read outside the registry's lock (registry.rs:77-81).
THEOREM PlansRestOnOfferers == PlacementSpec => []OnlyActiveOffers
<1>1. ASSUME PInv
      PROVE  OnlyActiveOffers
  <2>1. SUFFICES ASSUME fabric # "other", result = "planned", NEW a \in DOMAIN allocations
                 PROVE  allocations[a].participant_id \in sometime
    BY DEF OnlyActiveOffers
  <2>2. PICK i \in DOMAIN offers : allocations[a].participant_id = offers[i].participant_id
    BY <1>1, <2>1, PartBounded DEF PInv
  <2>3. i \in 1..Len(offers)
    BY <1>1, <2>1, PlannedState DEF PInv
  <2>4. offers[i].participant_id \in sometime
    BY <1>1, <2>1, <2>3 DEF PInv, FInv, AnswerOk, Looping
  <2>5. QED
    BY <2>2, <2>4
<1>2. QED
  BY <1>1, InvHolds, PTL

\* A participant that never stops offering during a call is considered by it,
\* whatever the others do meanwhile (registry.rs:71-84).
THEOREM SteadyAreConsidered == PlacementSpec => []SteadyConsidered
<1>1. ASSUME PInv
      PROVE  SteadyConsidered
  <2>1. SUFFICES ASSUME result \in {"planned", "InsufficientResources"}, NEW p \in steady
                 PROVE  \E i \in DOMAIN offers : offers[i].participant_id = p
    BY DEF SteadyConsidered, Answered
  <2>2. DOMAIN offers = 1..Len(offers)
    BY <1>1, <2>1, PlannedState DEF PInv
  <2>3. QED
    BY <1>1, <2>1, <2>2 DEF PInv, FInv, AnswerOk, Looping
<1>2. QED
  BY <1>1, InvHolds, PTL

\* The crate's own fabrics never make a plan fail with InvalidOffer, and compose
\* never refuses what the loop has collected (participant.rs:56-62,
\* fabric.rs:38-51, resource.rs:226-274).
THEOREM OwnOffersAreValid == PlacementSpec => []FabricOffersValid
<1>1. PInv => FabricOffersValid
  BY DEF PInv, FInv, AnswerOk, FabricOffersValid
<1>2. QED
  BY <1>1, InvHolds, PTL
=============================================================================
