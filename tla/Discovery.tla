------------------------------ MODULE Discovery ------------------------------
(***************************************************************************)
(* Discovery registries (discovery.rs) fed by a network that delays,       *)
(* repeats and reorders advertisements.  Each control plane has a registry *)
(* of its own; its threads announce what they received and ask for the     *)
(* members, each with the time it read from the clock before the call      *)
(* (control.rs:66-92).  The clock of the planes is monotonic here; the     *)
(* clocks of the senders are anything.                                     *)
(***************************************************************************)
EXTENDS Integers

CONSTANTS
  Planes, Threads,
  Participants,
  StaleAfter, ExpireAfter,   \* the freshness policy
  Stamps,                    \* what senders write: a time and whether all else is valid
  MaxTime, MaxSequence,      \* bounds
  None

\* MemoryRegistry::new refuses other policies.
ASSUME PolicyAssumption ==
  /\ StaleAfter \in Nat \ {0}
  /\ ExpireAfter \in Nat /\ ExpireAfter > StaleAfter
ASSUME BoundsAssumption == MaxTime \in Nat \ {0} /\ MaxSequence \in Nat
ASSUME StampsAssumption == Stamps \subseteq [observed_at: Nat, ok: BOOLEAN]

Time == 1..MaxTime   \* 0 is UNIX_EPOCH

\* ok in its stamp: the identity is a participant's and the capability is in range.
Advertisement ==
  [participant: Participants, sequence: 0..MaxSequence, stamp: Stamps]
Member == [advertisement: Advertisement, last_seen: Time]
States == {"Active", "Stale", "Expired"}

ASSUME NoneAssumption == None \notin Member /\ None \notin Advertisement

VARIABLES
  clock,      \* of the planes
  network,    \* advertisements sent so far; any can arrive, any number of times
  sequence,   \* the next sequence number of each participant
  members,    \* the registry of each plane
  call,       \* the announcement or question each thread is in
  applied,    \* history: the advertisements accepted since the last removal
  latest,     \* history: the latest time one of them was received at
  floor       \* history: that time when the call that wrote the member began

sending == <<network, sequence>>
history == <<applied, latest, floor>>
vars == <<clock, sending, members, call, history>>

Everywhere(x) == [n \in Planes |-> [p \in Participants |-> x]]

Init ==
  /\ clock = 1
  /\ network = {}
  /\ sequence = [p \in Participants |-> 0]
  /\ members = Everywhere(None)
  /\ call = [t \in Threads |-> None]
  /\ applied = Everywhere({}) /\ latest = Everywhere(0) /\ floor = Everywhere(0)

Tick ==
  /\ clock < MaxTime
  /\ clock' = clock + 1
  /\ UNCHANGED <<sending, members, call, history>>

\* A participant advertises itself under its next sequence number.  That it does not
\* use a number again for other contents is assumed of the sender, "monotonic
\* sequence" (ARCHITECTURE.md:83): upsert refuses lower numbers only.
Advertise(p, stamp) ==
  /\ sequence[p] <= MaxSequence
  /\ network' = network \cup
       {[participant |-> p, sequence |-> sequence[p], stamp |-> stamp]}
  /\ sequence' = [sequence EXCEPT ![p] = @ + 1]
  /\ UNCHANGED <<clock, members, call, history>>

-----------------------------------------------------------------------------
Begin(t, c) == call[t] = None /\ call' = [call EXCEPT ![t] = c]
Return(t) == call' = [call EXCEPT ![t] = None]
In(t, op) == call[t] # None /\ call[t].op = op

\* A thread of plane n takes an advertisement from the network and reads the
\* clock.
Receive(t, n, a) ==
  /\ Begin(t, [op |-> "announce", plane |-> n, advertisement |-> a, time |-> clock,
               floor |-> latest[n][a.participant]])
  /\ UNCHANGED <<clock, sending, members, history>>

\* Advertisement::validate, and the timestamps of upsert.
acceptable(a, received_at) ==
  /\ a.stamp.ok /\ a.stamp.observed_at # 0
  /\ received_at >= a.stamp.observed_at /\ received_at # 0

\* Mutant: whatever arrives last is stored.
supersedesAlways(a, member) == TRUE

\* It is not a StaleSequence.
supersedes(a, member) == member # None => a.sequence >= member.advertisement.sequence

\* Mutant: the sender's clock is taken for the time of receipt.
NewMemberAsSent(a, received_at) ==
  [advertisement |-> a, last_seen |-> a.stamp.observed_at]

NewMember(a, received_at) == [advertisement |-> a, last_seen |-> received_at]

LaterOf(a, b) == IF a >= b THEN a ELSE b

\* upsert stores the advertisement, in one critical section.
Upsert(t) ==
  LET c == call[t]
      n == c.plane
      p == c.advertisement.participant
  IN  /\ In(t, "announce")
      /\ acceptable(c.advertisement, c.time)
      /\ supersedes(c.advertisement, members[n][p])
      /\ members' = [members EXCEPT ![n][p] = NewMember(c.advertisement, c.time)]
      /\ applied' = [applied EXCEPT ![n][p] = @ \cup {c.advertisement}]
      /\ latest' = [latest EXCEPT ![n][p] = LaterOf(@, c.time)]
      /\ floor' = [floor EXCEPT ![n][p] = c.floor]
      /\ Return(t)
      /\ UNCHANGED <<clock, sending>>

\* InvalidAdvertisement, InvalidTimestamp or StaleSequence.
Refuse(t) ==
  LET c == call[t]
  IN  /\ In(t, "announce")
      /\ ~ (/\ acceptable(c.advertisement, c.time)
            /\ supersedes(c.advertisement,
                          members[c.plane][c.advertisement.participant]))
      /\ Return(t)
      /\ UNCHANGED <<clock, sending, members, history>>

\* remove forgets the sequence number as well.
Remove(n, p) ==
  /\ members[n][p] # None
  /\ members' = [members EXCEPT ![n][p] = None]
  /\ applied' = [applied EXCEPT ![n][p] = {}]
  /\ latest' = [latest EXCEPT ![n][p] = 0]
  /\ floor' = [floor EXCEPT ![n][p] = 0]
  /\ UNCHANGED <<clock, sending, call>>

-----------------------------------------------------------------------------
\* A thread reads the clock to ask for the members at that time.
Ask(t, n) ==
  /\ Begin(t, [op |-> "ask", plane |-> n, time |-> clock])
  /\ UNCHANGED <<clock, sending, members, history>>

\* Member::state_at for a time that is not before last_seen.
state_at(member, now) ==
  IF now - member.last_seen >= ExpireAfter THEN "Expired"
  ELSE IF now - member.last_seen >= StaleAfter THEN "Stale" ELSE "Active"

Present(n) == {p \in Participants : members[n][p] # None}

\* members_at clones the members under the lock and classifies the clones; one
\* that was seen after the time asked about fails the whole answer.
members_at(n, now) ==
  LET overtaken == \E p \in Present(n) : members[n][p].last_seen > now
  IN  [failed |-> overtaken,
       states |-> IF overtaken THEN <<>>
                  ELSE [p \in Present(n) |-> state_at(members[n][p], now)]]

\* The question gets the answer of this state.
MembersAt(t) ==
  /\ In(t, "ask")
  /\ Return(t)
  /\ UNCHANGED <<clock, sending, members, history>>

Next ==
  \/ Tick
  \/ \E p \in Participants, stamp \in Stamps : Advertise(p, stamp)
  \/ \E n \in Planes, p \in Participants : Remove(n, p)
  \/ \E t \in Threads :
       \/ \E n \in Planes : Ask(t, n) \/ \E a \in network : Receive(t, n, a)
       \/ Upsert(t) \/ Refuse(t) \/ MembersAt(t)

Spec == Init /\ [][Next]_vars

-----------------------------------------------------------------------------
Known(n, p) == IF members[n][p] = None THEN None ELSE members[n][p].advertisement

\* Two planes that accepted the same advertisements of a participant know the
\* same one, in whatever order, how often and through however many threads they
\* got them (discovery.rs:134-147).
Converges ==
  \A m, n \in Planes, p \in Participants :
    applied[m][p] = applied[n][p] => Known(m, p) = Known(n, p)

\* The answer a question gets is honest at whatever moment it reaches the lock,
\* although announcements and questions overtake each other between the clock and
\* the lock (discovery.rs:73-93, 134-147, 181-189): who is Active was heard of
\* recently; who is Stale or Expired was not, except perhaps by calls that
\* overlapped the last one that was stored; and a question fails only when an
\* announcement received after it was asked got to the registry first.
HonestAnswers ==
  \A t \in Threads : In(t, "ask") =>
    LET n == call[t].plane
        answer == members_at(n, call[t].time)
        Age(since) == call[t].time - since
    IN  IF answer.failed THEN \E p \in Participants : latest[n][p] > call[t].time
        ELSE \A p \in DOMAIN answer.states :
               CASE answer.states[p] = "Active" -> Age(latest[n][p]) < StaleAfter
                 [] answer.states[p] = "Stale" -> Age(floor[n][p]) >= StaleAfter
                 [] answer.states[p] = "Expired" -> Age(floor[n][p]) >= ExpireAfter
=============================================================================
