---------------------------- MODULE DiscoveryProofs ----------------------------
(***************************************************************************)
(* Proofs about Discovery, for any number of planes, threads and           *)
(* participants, any freshness policy and any stamps of the senders.       *)
(***************************************************************************)
EXTENDS Discovery, TLAPS

Announcement ==
  [op: {"announce"}, plane: Planes, advertisement: Advertisement, time: Nat, floor: Nat]
Question == [op: {"ask"}, plane: Planes, time: Nat]

\* The types of the registries, the calls and the histories.
Types ==
  /\ clock \in Time
  /\ network \in SUBSET Advertisement
  /\ sequence \in [Participants -> Nat]
  /\ members \in [Planes -> [Participants -> Member \cup {None}]]
  /\ call \in [Threads -> Announcement \cup Question \cup {None}]
  /\ applied \in [Planes -> [Participants -> SUBSET Advertisement]]
  /\ latest \in [Planes -> [Participants -> Nat]]
  /\ floor \in [Planes -> [Participants -> Nat]]

\* A sender uses a sequence number once.
SequencesUsedOnce ==
  /\ \A a \in network : a.sequence < sequence[a.participant]
  /\ \A a, b \in network :
       a.participant = b.participant /\ a.sequence = b.sequence => a = b

\* What a thread carries was sent, and was read from the clock before.
CallsOk ==
  \A t \in Threads :
    /\ call[t] # None => call[t].time <= clock
    /\ In(t, "announce") =>
         call[t].advertisement \in network /\ call[t].floor <= call[t].time

\* A member is the newest of the advertisements accepted since the last removal.
NewestKnown ==
  \A n \in Planes, p \in Participants :
    /\ members[n][p] = None <=> applied[n][p] = {}
    /\ \A a \in applied[n][p] :
         /\ a \in network /\ a.participant = p
         /\ a.sequence <= members[n][p].advertisement.sequence
    /\ members[n][p] # None => members[n][p].advertisement \in applied[n][p]

\* Times are in order: the latest receipt when the call that wrote the member began,
\* the receipt it wrote, the latest receipt, and the clock.
TimesInOrder ==
  \A n \in Planes, p \in Participants :
    /\ latest[n][p] <= clock
    /\ members[n][p] # None =>
         floor[n][p] <= members[n][p].last_seen /\ members[n][p].last_seen <= latest[n][p]

\* The inductive invariant.
IInv == Types /\ SequencesUsedOnce /\ CallsOk /\ NewestKnown /\ TimesInOrder

-----------------------------------------------------------------------------
\* The initial state satisfies the inductive invariant.
LEMMA InvInit == Init => IInv
<1> SUFFICES ASSUME Init PROVE IInv
  OBVIOUS
<1>1. Types
  BY BoundsAssumption DEF Init, Types, Everywhere, Time
<1>2. SequencesUsedOnce /\ CallsOk /\ NewestKnown /\ TimesInOrder
  BY DEF Init, Everywhere, SequencesUsedOnce, CallsOk, NewestKnown, TimesInOrder, In
<1>3. QED
  BY <1>1, <1>2 DEF IInv

\* The kinds of call, told apart by their op.
LEMMA CallKinds ==
  ASSUME Types, NEW t \in Threads
  PROVE  /\ In(t, "announce") => call[t] \in Announcement
         /\ In(t, "ask") => call[t] \in Question
  BY DEF Types, In, Announcement, Question

\* A write to one participant's entry of one plane keeps the types and the others.
LEMMA EntryUpdate ==
  ASSUME NEW S, NEW f \in [Planes -> [Participants -> S]], NEW n \in Planes,
         NEW p \in Participants, NEW x \in S
  PROVE  /\ [f EXCEPT ![n][p] = x] \in [Planes -> [Participants -> S]]
         /\ \A m \in Planes, q \in Participants :
              [f EXCEPT ![n][p] = x][m][q] = IF m = n /\ q = p THEN x ELSE f[m][q]
  OBVIOUS

\* The clock moves on.
LEMMA TickStep ==
  ASSUME IInv, Tick
  PROVE  IInv'
<1>1. /\ clock \in Nat /\ clock' = clock + 1 /\ clock' \in Time
      /\ UNCHANGED <<network, sequence, members, call, applied, latest, floor>>
  BY BoundsAssumption DEF IInv, Types, Time, Tick, sending, history
<1>2. Types'
  BY <1>1 DEF IInv, Types
<1>3. SequencesUsedOnce' /\ NewestKnown'
  BY <1>1 DEF IInv, SequencesUsedOnce, NewestKnown
<1>4. CallsOk'
  <2>1. \A t \in Threads : call[t] # None => call[t].time \in Nat
    BY DEF IInv, Types, Announcement, Question
  <2>2. QED
    BY <1>1, <2>1 DEF IInv, CallsOk, In
<1>5. TimesInOrder'
  <2>1. \A n \in Planes, p \in Participants : latest[n][p] \in Nat
    BY DEF IInv, Types
  <2>2. QED
    BY <1>1, <2>1 DEF IInv, TimesInOrder
<1>6. QED
  BY <1>2, <1>3, <1>4, <1>5 DEF IInv

\* A sender advertises under a sequence number it has not used.
LEMMA AdvertiseStep ==
  ASSUME IInv, NEW p \in Participants, NEW stamp \in Stamps, Advertise(p, stamp)
  PROVE  IInv'
<1> DEFINE new == [participant |-> p, sequence |-> sequence[p], stamp |-> stamp]
<1>1. /\ UNCHANGED <<clock, members, call, applied, latest, floor>>
      /\ network' = network \cup {new}
      /\ sequence' = [sequence EXCEPT ![p] = sequence[p] + 1]
  BY DEF Advertise, history
<1>2. new \in Advertisement /\ sequence[p] \in Nat
  BY BoundsAssumption DEF IInv, Types, Advertise, Advertisement
<1>3. new.participant = p /\ new.sequence = sequence[p]
  OBVIOUS
<1> HIDE DEF new
<1>4. Types'
  BY <1>1, <1>2 DEF IInv, Types
<1>5. SequencesUsedOnce'
  <2>1. \A a \in network : a.participant \in Participants /\ a.sequence \in Nat
    BY BoundsAssumption DEF IInv, Types, Advertisement
  <2>2. \A q \in Participants : sequence'[q] = IF q = p THEN sequence[p] + 1 ELSE sequence[q]
    BY <1>1 DEF IInv, Types
  <2>3. \A a \in network : a.participant = p => a.sequence # sequence[p]
    BY <1>2, <2>1 DEF IInv, SequencesUsedOnce
  <2>4. \A a \in network' : a.sequence < sequence'[a.participant]
    BY <1>1, <1>2, <1>3, <2>1, <2>2 DEF IInv, SequencesUsedOnce
  <2>5. \A a, b \in network' :
          a.participant = b.participant /\ a.sequence = b.sequence => a = b
    BY <1>1, <1>3, <2>3 DEF IInv, SequencesUsedOnce
  <2>6. QED
    BY <2>4, <2>5 DEF SequencesUsedOnce
<1>6. CallsOk' /\ TimesInOrder'
  BY <1>1 DEF IInv, CallsOk, TimesInOrder, In
<1>7. NewestKnown'
  BY <1>1 DEF IInv, NewestKnown
<1>8. QED
  BY <1>4, <1>5, <1>6, <1>7 DEF IInv

\* A step that only changes the call of one thread, for one that is in order.
LEMMA CallStep ==
  ASSUME IInv, NEW t \in Threads, NEW c \in Announcement \cup Question \cup {None},
         call' = [call EXCEPT ![t] = c], UNCHANGED <<clock, sending, members, history>>,
         c # None => c.time <= clock,
         c # None /\ c.op = "announce" => c.advertisement \in network /\ c.floor <= c.time
  PROVE  IInv'
<1>1. UNCHANGED <<clock, network, sequence, members, applied, latest, floor>>
  BY DEF sending, history
<1>2. \A u \in Threads : call'[u] = IF u = t THEN c ELSE call[u]
  BY DEF IInv, Types
<1>3. Types'
  BY <1>1 DEF IInv, Types
<1>4. SequencesUsedOnce' /\ NewestKnown' /\ TimesInOrder'
  BY <1>1 DEF IInv, SequencesUsedOnce, NewestKnown, TimesInOrder
<1>5. CallsOk'
  BY <1>1, <1>2 DEF IInv, CallsOk, In
<1>6. QED
  BY <1>3, <1>4, <1>5 DEF IInv

\* A removal.
LEMMA RemoveStep ==
  ASSUME IInv, NEW n \in Planes, NEW p \in Participants, Remove(n, p)
  PROVE  IInv'
<1>1. /\ UNCHANGED <<clock, network, sequence, call>>
      /\ members' = [members EXCEPT ![n][p] = None]
      /\ applied' = [applied EXCEPT ![n][p] = {}]
      /\ latest' = [latest EXCEPT ![n][p] = 0]
      /\ floor' = [floor EXCEPT ![n][p] = 0]
  BY DEF Remove, sending
<1>2. /\ members' \in [Planes -> [Participants -> Member \cup {None}]]
      /\ \A m \in Planes, q \in Participants :
           members'[m][q] = IF m = n /\ q = p THEN None ELSE members[m][q]
  BY <1>1, EntryUpdate DEF IInv, Types
<1>3. /\ applied' \in [Planes -> [Participants -> SUBSET Advertisement]]
      /\ \A m \in Planes, q \in Participants :
           applied'[m][q] = IF m = n /\ q = p THEN {} ELSE applied[m][q]
  <2>1. {} \in SUBSET Advertisement
    OBVIOUS
  <2>2. applied \in [Planes -> [Participants -> SUBSET Advertisement]]
    BY DEF IInv, Types
  <2>3. QED
    BY <1>1, <2>1, <2>2, EntryUpdate
<1>4. /\ latest' \in [Planes -> [Participants -> Nat]]
      /\ \A m \in Planes, q \in Participants :
           latest'[m][q] = IF m = n /\ q = p THEN 0 ELSE latest[m][q]
  BY <1>1, EntryUpdate DEF IInv, Types
<1>5. /\ floor' \in [Planes -> [Participants -> Nat]]
      /\ \A m \in Planes, q \in Participants :
           floor'[m][q] = IF m = n /\ q = p THEN 0 ELSE floor[m][q]
  BY <1>1, EntryUpdate DEF IInv, Types
<1>6. Types'
  BY <1>1, <1>2, <1>3, <1>4, <1>5 DEF IInv, Types
<1>7. SequencesUsedOnce' /\ CallsOk'
  BY <1>1 DEF IInv, SequencesUsedOnce, CallsOk, In
<1>8. NewestKnown'
  BY <1>1, <1>2, <1>3 DEF IInv, NewestKnown
<1>9. TimesInOrder'
  BY <1>1, <1>2, <1>4, <1>5 DEF IInv, Types, Time, TimesInOrder
<1>10. QED
  BY <1>6, <1>7, <1>8, <1>9 DEF IInv

\* An announcement that is stored.
LEMMA UpsertStep ==
  ASSUME IInv, NEW t \in Threads, Upsert(t)
  PROVE  IInv'
<1> DEFINE c == call[t]
           n == c.plane
           a == c.advertisement
           p == a.participant
<1>1. /\ In(t, "announce") /\ acceptable(a, c.time) /\ supersedes(a, members[n][p])
      /\ UNCHANGED <<clock, network, sequence>>
      /\ call' = [call EXCEPT ![t] = None]
      /\ members' = [members EXCEPT ![n][p] = NewMember(a, c.time)]
      /\ applied' = [applied EXCEPT ![n][p] = applied[n][p] \cup {a}]
      /\ latest' = [latest EXCEPT ![n][p] = LaterOf(latest[n][p], c.time)]
      /\ floor' = [floor EXCEPT ![n][p] = c.floor]
  BY DEF Upsert, Return, sending
<1>2. c \in Announcement
  BY <1>1, CallKinds DEF IInv
<1>3. /\ n \in Planes /\ a \in Advertisement /\ p \in Participants
      /\ c.time \in Nat /\ c.floor \in Nat /\ a.sequence \in Nat
      /\ a.participant = p
  BY <1>2, BoundsAssumption DEF Announcement, Advertisement
<1>4. /\ c.time <= clock /\ c.floor <= c.time /\ a \in network /\ clock \in Time
  BY <1>1 DEF IInv, CallsOk, In, Types
<1> HIDE DEF c, n, a, p
<1>5. c.time \in Time
  BY <1>1, <1>3, <1>4, BoundsAssumption DEF acceptable, Time
<1>6. /\ NewMember(a, c.time) \in Member
      /\ NewMember(a, c.time).advertisement = a
      /\ NewMember(a, c.time).last_seen = c.time
      /\ NewMember(a, c.time) # None
  BY <1>3, <1>5, NoneAssumption DEF NewMember, Member
<1>7. latest[n][p] \in Nat /\ latest[n][p] <= clock /\ applied[n][p] \in SUBSET Advertisement
  BY <1>3 DEF IInv, Types, TimesInOrder
<1>8. /\ LaterOf(latest[n][p], c.time) \in Nat
      /\ LaterOf(latest[n][p], c.time) <= clock
      /\ c.time <= LaterOf(latest[n][p], c.time)
  BY <1>3, <1>4, <1>7 DEF LaterOf
<1>9. /\ members' \in [Planes -> [Participants -> Member \cup {None}]]
      /\ \A m \in Planes, q \in Participants :
           members'[m][q] = IF m = n /\ q = p THEN NewMember(a, c.time) ELSE members[m][q]
  BY <1>1, <1>3, <1>6, EntryUpdate DEF IInv, Types
<1>10. /\ applied' \in [Planes -> [Participants -> SUBSET Advertisement]]
       /\ \A m \in Planes, q \in Participants :
            applied'[m][q] = IF m = n /\ q = p THEN applied[n][p] \cup {a} ELSE applied[m][q]
  <2>1. applied[n][p] \cup {a} \in SUBSET Advertisement
    BY <1>3, <1>7
  <2>2. QED
    BY <1>1, <1>3, <2>1, EntryUpdate DEF IInv, Types
<1>11. /\ latest' \in [Planes -> [Participants -> Nat]]
       /\ \A m \in Planes, q \in Participants :
            latest'[m][q] = IF m = n /\ q = p THEN LaterOf(latest[n][p], c.time)
                            ELSE latest[m][q]
  BY <1>1, <1>3, <1>8, EntryUpdate DEF IInv, Types
<1>12. /\ floor' \in [Planes -> [Participants -> Nat]]
       /\ \A m \in Planes, q \in Participants :
            floor'[m][q] = IF m = n /\ q = p THEN c.floor ELSE floor[m][q]
  BY <1>1, <1>3, EntryUpdate DEF IInv, Types
<1>13. \A b \in applied[n][p] : b.sequence <= a.sequence
  <2> SUFFICES ASSUME NEW b \in applied[n][p] PROVE b.sequence <= a.sequence
    OBVIOUS
  <2>1. members[n][p] # None /\ b.sequence <= members[n][p].advertisement.sequence
    BY <1>3 DEF IInv, NewestKnown
  <2>2. a.sequence >= members[n][p].advertisement.sequence
    BY <1>1, <2>1 DEF supersedes
  <2>3. members[n][p].advertisement.sequence \in Nat
    BY <1>3, <2>1, BoundsAssumption DEF IInv, Types, Member, Advertisement
  <2>4. b.sequence \in Nat
    BY <1>7, BoundsAssumption DEF Advertisement
  <2>5. QED
    BY <1>3, <2>1, <2>2, <2>3, <2>4
<1> HIDE DEF c, n, a, p
<1>14. Types'
  BY <1>1, <1>9, <1>10, <1>11, <1>12 DEF IInv, Types
<1>15. SequencesUsedOnce'
  BY <1>1 DEF IInv, SequencesUsedOnce
<1>16. CallsOk'
  <2>1. \A u \in Threads : call'[u] = IF u = t THEN None ELSE call[u]
    BY <1>1 DEF IInv, Types
  <2>2. QED
    BY <1>1, <2>1 DEF IInv, CallsOk, In
<1>17. NewestKnown'
  BY <1>1, <1>3, <1>4, <1>6, <1>9, <1>10, <1>13 DEF IInv, NewestKnown, p
<1>18. TimesInOrder'
  BY <1>1, <1>3, <1>4, <1>6, <1>8, <1>9, <1>11, <1>12 DEF IInv, TimesInOrder
<1>19. QED
  BY <1>14, <1>15, <1>16, <1>17, <1>18 DEF IInv

\* Every step preserves the inductive invariant.
LEMMA InvStep ==
  ASSUME IInv, [Next]_vars
  PROVE  IInv'
<1>1. ASSUME NEW t \in Threads, NEW n \in Planes, Ask(t, n)
      PROVE  IInv'
  <2> DEFINE c == [op |-> "ask", plane |-> n, time |-> clock]
  <2>1. c \in Question /\ c.time <= clock /\ c.op # "announce"
    BY BoundsAssumption DEF Question, IInv, Types, Time
  <2>2. call' = [call EXCEPT ![t] = c] /\ UNCHANGED <<clock, sending, members, history>>
    BY <1>1 DEF Ask, Begin
  <2> HIDE DEF c
  <2>3. QED
    BY <2>1, <2>2, CallStep
<1>2. ASSUME NEW t \in Threads, NEW n \in Planes, NEW a \in network, Receive(t, n, a)
      PROVE  IInv'
  <2> DEFINE c == [op |-> "announce", plane |-> n, advertisement |-> a, time |-> clock,
                   floor |-> latest[n][a.participant]]
  <2>1. a \in Advertisement /\ a.participant \in Participants
    BY DEF IInv, Types, Advertisement
  <2>2. latest[n][a.participant] \in Nat /\ latest[n][a.participant] <= clock
    BY <2>1 DEF IInv, Types, TimesInOrder
  <2>3. /\ c \in Announcement /\ c.time <= clock
        /\ c.advertisement \in network /\ c.floor <= c.time
    BY <2>1, <2>2, BoundsAssumption DEF Announcement, IInv, Types, Time
  <2>4. call' = [call EXCEPT ![t] = c] /\ UNCHANGED <<clock, sending, members, history>>
    BY <1>2 DEF Receive, Begin
  <2> HIDE DEF c
  <2>5. QED
    BY <2>3, <2>4, CallStep
<1>3. ASSUME NEW t \in Threads, Refuse(t) \/ MembersAt(t)
      PROVE  IInv'
  <2>1. call' = [call EXCEPT ![t] = None] /\ UNCHANGED <<clock, sending, members, history>>
    BY <1>3 DEF Refuse, MembersAt, Return
  <2>2. QED
    BY <2>1, CallStep
<1>4. CASE UNCHANGED vars
  <2>1. UNCHANGED <<clock, network, sequence, members, call, applied, latest, floor>>
    BY <1>4 DEF vars, sending, history
  <2>2. Types' /\ SequencesUsedOnce' /\ CallsOk'
    BY <2>1 DEF IInv, Types, SequencesUsedOnce, CallsOk, In
  <2>3. NewestKnown' /\ TimesInOrder'
    BY <2>1 DEF IInv, NewestKnown, TimesInOrder
  <2>4. QED
    BY <2>2, <2>3 DEF IInv
<1>5. QED
  BY <1>1, <1>2, <1>3, <1>4, TickStep, AdvertiseStep, RemoveStep, UpsertStep DEF Next

\* The inductive invariant holds in every reachable state.
THEOREM InvHolds == Spec => []IInv
  BY InvInit, InvStep, PTL DEF Spec

-----------------------------------------------------------------------------
\* What follows from it.

\* Planes that accepted the same advertisements of a participant know the same one,
\* in whatever order and how often these came (discovery.rs:134-147).
THEOREM PlanesConverge == Spec => []Converges
<1>1. IInv => Converges
  <2> SUFFICES ASSUME IInv, NEW m \in Planes, NEW n \in Planes, NEW p \in Participants,
                      applied[m][p] = applied[n][p]
               PROVE  Known(m, p) = Known(n, p)
    BY DEF Converges
  <2>1. CASE applied[m][p] = {}
    BY <2>1, ZenonT(40) DEF IInv, NewestKnown, Known
  <2>2. CASE applied[m][p] # {}
    <3> DEFINE a == members[m][p].advertisement
               b == members[n][p].advertisement
    <3>1. /\ members[m][p] # None /\ members[n][p] # None
          /\ a \in applied[m][p] /\ b \in applied[m][p]
      BY <2>2 DEF IInv, NewestKnown
    <3>2. /\ a \in network /\ b \in network
          /\ a.participant = p /\ b.participant = p
          /\ a.sequence <= b.sequence /\ b.sequence <= a.sequence
      BY <3>1 DEF IInv, NewestKnown
    <3>3. a.sequence \in Nat /\ b.sequence \in Nat
      BY <3>2, BoundsAssumption DEF IInv, Types, Advertisement
    <3>4. a = b
      BY <3>2, <3>3 DEF IInv, SequencesUsedOnce
    <3>5. QED
      BY <3>1, <3>4 DEF Known
  <2>3. QED
    BY <2>1, <2>2
<1>2. QED
  BY <1>1, InvHolds, PTL

\* Whatever overtakes it, the answer to a question is honest about how long ago each
\* participant was heard of, and fails only when a receipt overtook it
\* (discovery.rs:73-93, 181-189).
THEOREM AnswersAreHonest == Spec => []HonestAnswers
<1>1. IInv => HonestAnswers
  <2> SUFFICES ASSUME IInv, NEW t \in Threads, In(t, "ask")
               PROVE  LET n == call[t].plane
                          answer == members_at(n, call[t].time)
                          Age(since) == call[t].time - since
                      IN  IF answer.failed
                          THEN \E p \in Participants : latest[n][p] > call[t].time
                          ELSE \A p \in DOMAIN answer.states :
                                 CASE answer.states[p] = "Active" ->
                                        Age(latest[n][p]) < StaleAfter
                                   [] answer.states[p] = "Stale" ->
                                        Age(floor[n][p]) >= StaleAfter
                                   [] answer.states[p] = "Expired" ->
                                        Age(floor[n][p]) >= ExpireAfter
    BY DEF HonestAnswers
  <2> DEFINE n == call[t].plane
             now == call[t].time
             answer == members_at(n, now)
  <2>1. n \in Planes /\ now \in Nat
    BY CallKinds DEF IInv, Question
  <2>2. \A p \in Present(n) :
          /\ p \in Participants
          /\ members[n][p].last_seen \in Nat /\ latest[n][p] \in Nat /\ floor[n][p] \in Nat
          /\ floor[n][p] <= members[n][p].last_seen
          /\ members[n][p].last_seen <= latest[n][p]
    BY <2>1 DEF IInv, Types, TimesInOrder, Present, Member, Time
  <2>3. CASE answer.failed
    <3>1. PICK p \in Present(n) : members[n][p].last_seen > now
      BY <2>3 DEF members_at
    <3>2. latest[n][p] > now
      BY <2>1, <2>2, <3>1
    <3>3. QED
      BY <2>2, <2>3, <3>2
  <2>4. CASE ~ answer.failed
    <3>1. /\ DOMAIN answer.states = Present(n)
          /\ \A p \in Present(n) : answer.states[p] = state_at(members[n][p], now)
      BY <2>4 DEF members_at
    <3>2. ASSUME NEW p \in Present(n)
          PROVE  LET s == state_at(members[n][p], now)
                 IN  /\ s \in {"Active", "Stale", "Expired"}
                     /\ s = "Active" => now - latest[n][p] < StaleAfter
                     /\ s = "Stale" => now - floor[n][p] >= StaleAfter
                     /\ s = "Expired" => now - floor[n][p] >= ExpireAfter
      BY <2>1, <2>2, PolicyAssumption DEF state_at
    <3> HIDE DEF answer
    <3>3. QED
      BY <2>4, <3>1, <3>2 DEF answer
  <2>5. QED
    BY <2>3, <2>4
<1>2. QED
  BY <1>1, InvHolds, PTL
=============================================================================
