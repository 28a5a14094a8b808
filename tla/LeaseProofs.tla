------------------------------ MODULE LeaseProofs ------------------------------
(***************************************************************************)
(* More about ControlPlane, for any number of threads, participants,       *)
(* nodes, virtual machines and leases: who owns a stored lease, and that   *)
(* the registry of virtual machines implements VmLifecycle.                *)
(***************************************************************************)
EXTENDS ControlPlaneProofs

-----------------------------------------------------------------------------
\* The strengthening of IInv.

\* Two lists of leases have no id in common.
Disjoint(list, other) ==
  \A i \in 1..Len(list), j \in 1..Len(other) : list[i].id # other[j].id

\* No lease id is in two lists of leases: neither in those two VMs were created
\* with, nor in those of creations in progress.
LeasesExclusive ==
  /\ \A v, w \in VmIds : v # w /\ born[v] # None /\ born[w] # None =>
       Disjoint(born[v].leases, born[w].leases)
  /\ \A t \in Threads : pc[t] = "leased" =>
       /\ \A v \in VmIds : born[v] # None => Disjoint(batch[t], born[v].leases)
       /\ \A u \in Threads : u # t /\ pc[u] = "leased" => Disjoint(batch[t], batch[u])

\* The leases of a list are in the registry but for those callers released.
Stored(list, registry, released) ==
  \A i \in 1..Len(list) : registry[list[i].id] # None \/ list[i].id \in released

\* Until a destroy call has taken the VM out, its leases are stored but for those
\* callers released; the same goes for a creation in progress.
LeasesKept ==
  /\ \A v \in VmIds \ removed : born[v] # None => Stored(born[v].leases, leases, revoked)
  /\ \A t \in Threads : pc[t] = "leased" => Stored(batch[t], leases, revoked)

\* A VM between the registration of its node and its own is nobody else's yet; an
\* execution that has come to the backend found its VM running.
FreshVms ==
  \A t \in Threads :
    /\ pc[t] = "registered" =>
         /\ virtual_machines[vm[t].id] = None
         /\ vm[t].id \notin removed
         /\ vm[t].state = "Created"
         /\ \A u \in Threads : u # t /\ vm[u] # None => vm[u].id # vm[t].id
    /\ pc[t] = "backend" => vm[t].state = "Running"

\* The leases of a node are granted once, when the call that stored them returns:
\* nothing is granted for a node a creation still works on.
GrantsOk ==
  /\ \A n \in NodeIds : granted[n] # <<>> => n < nextNode
  /\ \A t \in Threads :
       /\ pc[t] = "idle" => batch[t] = <<>>
       /\ pc[t] = "leased" => granted[node[t].id] = <<>>
       /\ pc[t] = "registered" =>
            /\ batch[t] = vm[t].leases
            /\ vm[t].leases # <<>> => granted[vm[t].node] = <<>>

\* Leases have one owner each, and the calls that create a VM own its leases, its
\* node and the VM itself until they return.
LInv ==
  /\ IInv /\ LeasesExclusive /\ LeasesKept /\ FreshVms /\ GrantsOk
  /\ StoredLeasesOwned

\* The initial state satisfies it.
LEMMA LInvInit == Init => LInv
<1>1. Init => IInv
  BY InvInit
<1>2. Init => LeasesExclusive /\ LeasesKept
  BY DEF Init, LeasesExclusive, LeasesKept
<1>3. Init => FreshVms /\ GrantsOk /\ StoredLeasesOwned
  BY DEF Init, FreshVms, GrantsOk, StoredLeasesOwned
<1>4. QED
  BY <1>1, <1>2, <1>3 DEF LInv

-----------------------------------------------------------------------------
\* Frame conditions.

\* No VM is created and no creation begins: those in progress keep what they hold.
CreationsKept ==
  /\ born' = born
  /\ \A u \in Threads : pc'[u] = "leased" =>
       pc[u] = "leased" /\ batch'[u] = batch[u] /\ node'[u] = node[u]

\* Only the three actions of creating a VM change what creations hold.
LEMMA CreationStep ==
  ASSUME IInv, [Next]_vars
  PROVE  \/ CreationsKept
         \/ \E t \in Threads, participants \in Plans, runtime \in Runtimes,
               created \in CallTimes, duration \in Durations :
              CreateLeasedVm(t, participants, runtime, created, duration)
         \/ \E t \in Threads, id \in NodeIds, runtime \in Runtimes \cup {BadRuntime},
               created \in CallTimes : CreateVm(t, id, runtime, created)
         \/ \E t \in Threads : BuildLeasedVm(t)
<1>1. ASSUME NEW t \in Threads, NEW participants \in Plans,
             CreateLogicalNode(t, participants)
      PROVE  CreationsKept
  BY <1>1 DEF CreationsKept, CreateLogicalNode, locals, history
<1>2. ASSUME NEW t \in Threads, NEW participants \in Plans,
             NEW created \in CallTimes, NEW duration \in Durations,
             \/ CreateLeasedLogicalNode(t, participants, created, duration)
             \/ CreateLeasedWithBadRuntime(t, participants, created, duration)
      PROVE  CreationsKept
  BY <1>2
  DEF CreationsKept, CreateLeasedLogicalNode, CreateLeasedWithBadRuntime, locals, history
<1>3. ASSUME NEW t \in Threads,
             \/ RollBack(t) \/ RegisterVm(t) \/ ReleaseFails(t) \/ UnregisterNode(t)
             \/ BackendPanics(t) \/ WriteBack(t)
      PROVE  CreationsKept
  <2>1. Return(t) /\ born' = born
    BY <1>3 DEF RollBack, RegisterVm, ReleaseFails, UnregisterNode, BackendPanics,
                WriteBack, history
  <2>2. QED
    BY <2>1 DEF IInv, TypeOK, CreationsKept, Return, Goto
<1>4. ASSUME NEW t \in Threads, ReleaseNext(t)
      PROVE  CreationsKept
  BY <1>4 DEF IInv, TypeOK, CreationsKept, ReleaseNext, Return, Goto, locals
<1>5. ASSUME NEW t \in Threads, ReadNode(t)
      PROVE  CreationsKept
  BY <1>5 DEF IInv, TypeOK, CreationsKept, ReadNode, Return, Goto, history
<1>6. ASSUME NEW t \in Threads, NEW id \in VmIds,
             \/ StartVm(t, id) \/ StopVm(t, id) \/ DestroyVm(t, id) \/ ReadVm(t, id)
      PROVE  CreationsKept
  BY <1>6 DEF IInv, TypeOK, CreationsKept, StartVm, StopVm, Update, DestroyVm, ReadVm,
              Goto, locals, history
<1>7. ASSUME NEW t \in Threads, NEW id \in NodeIds, NEW i \in DOMAIN granted[id],
             ReleaseLease(t, granted[id][i])
      PROVE  CreationsKept
  BY <1>7 DEF CreationsKept, ReleaseLease, locals
<1>8. ASSUME NEW t \in Threads, NEW id \in NodeIds, ReleaseLeases(t, granted[id])
      PROVE  CreationsKept
  BY <1>8 DEF IInv, TypeOK, CreationsKept, ReleaseLeases, Goto, history
<1>9. ASSUME NEW t \in Threads, NEW time \in Clock, NEW named \in BOOLEAN,
             ExecuteAt(t, time, named)
      PROVE  CreationsKept
  BY <1>9 DEF IInv, TypeOK, CreationsKept, ExecuteAt, Goto, locals, history
<1>10. ASSUME NEW t \in Threads, NEW ok \in BOOLEAN, BackendReturns(t, ok)
      PROVE  CreationsKept
  BY <1>10 DEF IInv, TypeOK, CreationsKept, BackendReturns, Goto, history
<1>11. CASE UNCHANGED vars
  BY <1>11 DEF CreationsKept, vars, locals, history
<1>12. QED
  BY <1>1, <1>2, <1>3, <1>4, <1>5, <1>6, <1>7, <1>8, <1>9, <1>10, <1>11
  DEF Next, Create, CallOnNode, CallOnVm, Continue, Backend

\* The leases of a creation in progress and of a created VM have ids below nextLease.
LEMMA UsedLeaseIds ==
  ASSUME IInv
  PROVE  /\ nextLease \in Nat
         /\ \A v \in VmIds : born[v] # None =>
              /\ Len(born[v].leases) \in Nat
              /\ \A i \in 1..Len(born[v].leases) :
                   /\ born[v].leases[i].id \in LeaseIds /\ born[v].leases[i].id \in Nat
                   /\ born[v].leases[i].id < nextLease
         /\ \A t \in Threads : Len(batch[t]) \in Nat
         /\ \A t \in Threads : pc[t] = "leased" =>
              \A i \in 1..Len(batch[t]) :
                /\ batch[t][i].id \in LeaseIds /\ batch[t][i].id \in Nat
                /\ batch[t][i].id < nextLease
<1>1. nextLease \in Nat
  BY BoundAssumption DEF IInv, TypeOK
<1>2. \A l \in LeaseIds : l \in Nat
  BY DEF LeaseIds
<1>3. \A v \in VmIds : born[v] # None => born[v] \in VirtualMachine
  BY DEF IInv, TypeOK
<1>4. \A v \in VmIds : born[v] # None =>
        /\ Len(born[v].leases) \in Nat
        /\ \A i \in 1..Len(born[v].leases) : born[v].leases[i].id \in LeaseIds
  BY <1>3, VmFields
<1>5. \A t \in Threads : batch[t] \in Seq(Lease) /\ Len(batch[t]) \in Nat
  BY DEF IInv, TypeOK
<1>6. \A t \in Threads : \A i \in 1..Len(batch[t]) : batch[t][i] \in Lease
  BY <1>5
<1>7. \A t \in Threads : \A i \in 1..Len(batch[t]) : batch[t][i].id \in LeaseIds
  BY <1>6 DEF Lease
<1>8. QED
  BY <1>1, <1>2, <1>4, <1>5, <1>7 DEF IInv, BornOk, PendingOk

\* What creating a leased VM stores and holds.
LEMMA LeasedVmEffect ==
  ASSUME IInv, NEW t \in Threads, NEW participants \in Plans, NEW runtime \in Runtimes,
         NEW created \in CallTimes, NEW duration \in Durations,
         CreateLeasedVm(t, participants, runtime, created, duration)
  PROVE  /\ \A i \in 1..Len(batch'[t]) : batch'[t][i].id \in LeaseIds
                                         /\ batch'[t][i].id \in Nat
                                         /\ batch'[t][i].id >= nextLease
         /\ node'[t].id = nextNode
         /\ pc' = [pc EXCEPT ![t] = "leased"]
         /\ \A u \in Threads \ {t} : batch'[u] = batch[u] /\ node'[u] = node[u] /\ pc'[u] = pc[u]
         /\ leases' = Insert(batch'[t])
         /\ batch'[t] \in Seq(Lease)
         /\ nextNode \in NodeIds /\ nextNode' = nextNode + 1
         /\ UNCHANGED <<virtual_machines, callers, vm, history>>
<1> DEFINE list == NewLeases(nextNode, participants, nextLease, created, duration)
<1>1. StoreLeases(list, participants, created, duration)
  BY DEF CreateLeasedVm
<1>2. /\ batch' = [batch EXCEPT ![t] = list]
      /\ node' = [node EXCEPT ![t] = [id |-> nextNode, participants |-> participants,
                                      runtime |-> runtime]]
      /\ pc' = [pc EXCEPT ![t] = "leased"]
      /\ UNCHANGED <<callers, vm, history>>
  BY DEF CreateLeasedVm, Goto
<1> HIDE DEF list
<1>3. /\ list \in Seq(Lease)
      /\ \A i \in 1..Len(list) : list[i].id \in nextLease..(nextLease' - 1)
      /\ nextLease' \in 1..(MaxLeases + 1) /\ nextNode \in NodeIds /\ nextNode' = nextNode + 1
  BY <1>1, StoreLeasesEffect DEF IInv
<1>4. \A i \in 1..Len(list) : list[i].id \in Nat /\ list[i].id >= nextLease
                              /\ list[i].id \in LeaseIds
  BY <1>3, BoundAssumption, SMTT(30) DEF IInv, TypeOK, LeaseIds
<1>5. leases' = Insert(list) /\ UNCHANGED virtual_machines
  BY <1>1 DEF StoreLeases
<1>6. /\ batch'[t] = list /\ node'[t].id = nextNode
      /\ \A u \in Threads \ {t} : batch'[u] = batch[u] /\ node'[u] = node[u] /\ pc'[u] = pc[u]
  BY <1>2 DEF IInv, TypeOK
<1>7. QED
  BY <1>2, <1>3, <1>4, <1>5, <1>6

\* What the registration of a VM's node does: the new VM has an id never used.
LEMMA NewVmEffect ==
  ASSUME IInv, NEW t \in Threads, NEW n, NEW list, RegisterNode(t, n, list)
  PROVE  /\ nextVm \in VmIds /\ nextVm \notin removed
         /\ born[nextVm] = None /\ virtual_machines[nextVm] = None
         /\ \A u \in Threads : vm[u] # None => vm[u].id # nextVm
         /\ born'[nextVm] = NewVm(nextVm, n, list) /\ vm'[t] = NewVm(nextVm, n, list)
         /\ \A v \in VmIds : v # nextVm => born'[v] = born[v]
         /\ pc'[t] = "registered"
         /\ \A u \in Threads \ {t} : vm'[u] = vm[u] /\ pc'[u] = pc[u]
<1>1. nextVm \in VmIds
  BY DEF RegisterNode
<1>2. born[nextVm] = None
  BY <1>1, BoundAssumption DEF IInv, BornOk, VmIds
<1>3. nextVm \notin removed
  BY <1>2 DEF IInv, BornOk
<1>4. virtual_machines[nextVm] = None
  BY <1>1, <1>2 DEF IInv, CopiesOk, CopyOfBorn
<1>5. \A u \in Threads : vm[u] # None => vm[u].id # nextVm
  BY <1>2 DEF IInv, CopiesOk, CopyOfBorn
<1>6. QED
  BY <1>1, <1>2, <1>3, <1>4, <1>5 DEF IInv, TypeOK, RegisterNode, Goto

-----------------------------------------------------------------------------
\* Leases are exclusive, and stay stored.

\* A VM of CreateVm has no leases.
LEMMA UnleasedVmEffect ==
  ASSUME IInv, NEW t \in Threads, NEW id \in NodeIds, NEW runtime, NEW created,
         CreateVm(t, id, runtime, created)
  PROVE  /\ \E n : n.id = id /\ RegisterNode(t, n, <<>>)
         /\ born'[nextVm].leases = <<>> /\ vm'[t].leases = <<>>
         /\ vm'[t].id = nextVm /\ vm'[t].state = "Created"
         /\ pc[t] = "idle"
         /\ UNCHANGED <<leases, virtual_machines, callers, nextNode, nextLease,
                        node, batch, removed, revoked, leaked>>
<1> DEFINE n == [id |-> id, participants |-> handed[id], runtime |-> runtime]
<1>1. RegisterNode(t, n, <<>>) /\ n.id = id /\ pc[t] = "idle"
      /\ UNCHANGED <<leases, virtual_machines, callers, nextNode, nextLease,
                     node, batch, removed, revoked, leaked>>
  BY DEF CreateVm
<1> HIDE DEF n
<1>2. born'[nextVm] = NewVm(nextVm, n, <<>>) /\ vm'[t] = NewVm(nextVm, n, <<>>)
  BY <1>1, NewVmEffect
<1>3. QED
  BY <1>1, <1>2 DEF NewVm

\* Disjointness is symmetric, and holds of an empty list and of fresh ids.
LEMMA DisjointFacts ==
  /\ \A a, b : Disjoint(a, b) => Disjoint(b, a)
  /\ \A a, b : b = <<>> => Disjoint(a, b)
  /\ \A a, b, k : /\ k \in Nat
                  /\ \A i \in 1..Len(a) : a[i].id \in Nat /\ a[i].id >= k
                  /\ \A j \in 1..Len(b) : b[j].id \in Nat /\ b[j].id < k
                  => Disjoint(a, b)
<1>1. \A a, b : Disjoint(a, b) => Disjoint(b, a)
  BY DEF Disjoint
<1>2. \A a, b : b = <<>> => Disjoint(a, b)
  BY DEF Disjoint
<1>3. ASSUME NEW a, NEW b, NEW k \in Nat,
             \A i \in 1..Len(a) : a[i].id \in Nat /\ a[i].id >= k,
             \A j \in 1..Len(b) : b[j].id \in Nat /\ b[j].id < k
      PROVE  Disjoint(a, b)
  BY <1>3 DEF Disjoint
<1>4. QED
  BY <1>1, <1>2, <1>3

\* Fresh lease ids and a VM created with its own leases keep the lists disjoint.
LEMMA LeasesExclusiveStep ==
  ASSUME LInv, [Next]_vars
  PROVE  LeasesExclusive'
<1>1. CASE CreationsKept
  BY <1>1 DEF LInv, LeasesExclusive, CreationsKept
<1>2. ASSUME NEW t \in Threads, NEW participants \in Plans, NEW runtime \in Runtimes,
             NEW created \in CallTimes, NEW duration \in Durations,
             CreateLeasedVm(t, participants, runtime, created, duration)
      PROVE  LeasesExclusive'
  <2>1. /\ \A i \in 1..Len(batch'[t]) : batch'[t][i].id \in Nat /\ batch'[t][i].id >= nextLease
        /\ \A u \in Threads \ {t} : batch'[u] = batch[u] /\ pc'[u] = pc[u]
        /\ born' = born
    BY <1>2, LeasedVmEffect DEF LInv, history
  <2>2. \A v \in VmIds : born[v] # None => Disjoint(batch'[t], born[v].leases)
    BY <2>1, UsedLeaseIds, DisjointFacts DEF LInv
  <2>3. \A u \in Threads : u # t /\ pc[u] = "leased" => Disjoint(batch'[t], batch[u])
    BY <2>1, UsedLeaseIds, DisjointFacts DEF LInv
  <2>4. QED
    BY <2>1, <2>2, <2>3, DisjointFacts DEF LInv, LeasesExclusive
<1>3. ASSUME NEW t \in Threads, NEW id \in NodeIds, NEW runtime \in Runtimes \cup {BadRuntime},
             NEW created \in CallTimes, CreateVm(t, id, runtime, created)
      PROVE  LeasesExclusive'
  <2>1. PICK n : RegisterNode(t, n, <<>>)
    BY <1>3, UnleasedVmEffect DEF LInv
  <2>2. /\ \A v \in VmIds : v # nextVm => born'[v] = born[v]
        /\ born'[nextVm].leases = <<>>
        /\ pc'[t] = "registered" /\ \A u \in Threads \ {t} : pc'[u] = pc[u]
        /\ batch' = batch
    BY <1>3, <2>1, NewVmEffect, UnleasedVmEffect DEF LInv
  <2>3. QED
    BY <2>2, DisjointFacts DEF LInv, LeasesExclusive
<1>4. ASSUME NEW t \in Threads, BuildLeasedVm(t)
      PROVE  LeasesExclusive'
  <2>1. pc[t] = "leased" /\ RegisterNode(t, node[t], batch[t]) /\ batch' = batch
    BY <1>4 DEF BuildLeasedVm
  <2>2. /\ \A v \in VmIds : v # nextVm => born'[v] = born[v]
        /\ born'[nextVm] = NewVm(nextVm, node[t], batch[t])
        /\ pc'[t] = "registered" /\ \A u \in Threads \ {t} : pc'[u] = pc[u]
    BY <2>1, NewVmEffect DEF LInv
  <2>3. born'[nextVm].leases = batch[t]
    BY <2>2 DEF NewVm
  <2>4. QED
    BY <2>1, <2>2, <2>3, DisjointFacts DEF LInv, LeasesExclusive
<1>5. QED
  BY <1>1, <1>2, <1>3, <1>4, CreationStep DEF LInv

\* A lease leaves the registry when its caller releases it, when the creation that
\* stored it is rolled back, or when the destroy call of its VM releases it.
LeaseLeaves(l) ==
  \/ l \in revoked'
  \/ \E t \in Threads : /\ pc[t] = "leased" /\ pc'[t] = "idle"
                        /\ \E i \in 1..Len(batch[t]) : l = batch[t][i].id
  \/ \E t \in Threads : /\ pc[t] = "release" /\ vm[t] # None
                        /\ \E i \in 1..Len(vm[t].leases) : l = vm[t].leases[i].id

\* There is no other way out of the registry, and callers' releases are not undone.
LEMMA LeaseLeavesStep ==
  ASSUME IInv, [Next]_vars
  PROVE  /\ revoked \subseteq revoked'
         /\ \A l \in LeaseIds : leases[l] # None /\ leases'[l] = None => LeaseLeaves(l)
<1> DEFINE Goal == /\ revoked \subseteq revoked'
                   /\ \A l \in LeaseIds : leases[l] # None /\ leases'[l] = None => LeaseLeaves(l)
<1>1. ASSUME NEW participants \in Plans, NEW created \in CallTimes,
             NEW duration \in Durations, NEW list,
             StoreLeases(list, participants, created, duration)
      PROVE  \A l \in LeaseIds : leases[l] # None => leases'[l] # None
  <2>1. list \in Seq(Lease)
    BY <1>1, StoreLeasesEffect DEF IInv
  <2>2. leases' = Insert(list)
    BY <1>1 DEF StoreLeases
  <2>3. \A l \in IdsOf(list) : LeaseOf(list, l) \in Lease
    BY <2>1 DEF IdsOf, LeaseOf
  <2>4. QED
    BY <2>2, <2>3, NoneAssumption DEF Insert
<1>2. ASSUME NEW t \in Threads, NEW participants \in Plans,
             NEW created \in CallTimes, NEW duration \in Durations,
             \/ CreateLeasedLogicalNode(t, participants, created, duration)
             \/ CreateLeasedWithBadRuntime(t, participants, created, duration)
             \/ \E runtime \in Runtimes :
                  CreateLeasedVm(t, participants, runtime, created, duration)
      PROVE  Goal
  <2>1. PICK list : StoreLeases(list, participants, created, duration)
    BY <1>2 DEF CreateLeasedLogicalNode, CreateLeasedWithBadRuntime, CreateLeasedVm
  <2>2. revoked' = revoked
    BY <1>2
    DEF CreateLeasedLogicalNode, CreateLeasedWithBadRuntime, CreateLeasedVm, history
  <2>3. QED
    BY <1>1, <2>1, <2>2
<1>3. ASSUME NEW t \in Threads, RollBack(t)
      PROVE  Goal
  <2>1. /\ pc[t] = "leased" /\ pc'[t] = "idle" /\ leases' = Remove(batch[t])
        /\ revoked' = revoked
    BY <1>3 DEF IInv, TypeOK, RollBack, Return, Goto, history
  <2>2. batch[t] \in Seq(Lease)
    BY DEF IInv, TypeOK
  <2>3. \A l \in LeaseIds : leases[l] # None /\ leases'[l] = None => l \in IdsOf(batch[t])
    BY <2>1 DEF Remove
  <2>4. \A l \in IdsOf(batch[t]) : \E i \in 1..Len(batch[t]) : l = batch[t][i].id
    BY <2>2 DEF IdsOf
  <2>5. QED
    BY <2>1, <2>3, <2>4 DEF LeaseLeaves
<1>4. ASSUME NEW t \in Threads, NEW id \in NodeIds, NEW i \in DOMAIN granted[id],
             ReleaseLease(t, granted[id][i])
      PROVE  Goal
  BY <1>4 DEF IInv, TypeOK, ReleaseLease, LeaseLeaves
<1>5. ASSUME NEW t \in Threads, ReleaseNext(t)
      PROVE  Goal
  <2> DEFINE l == batch[t][pos[t]].id
  <2>1. /\ pc[t] = "release" /\ leases' = [leases EXCEPT ![l] = None]
        /\ revoked' = IF vm[t] = None THEN revoked \cup {l} ELSE revoked
    BY <1>5 DEF ReleaseNext
  <2>2. \A m \in LeaseIds : leases[m] # None /\ leases'[m] = None => m = l
    BY <2>1 DEF IInv, TypeOK
  <2>3. vm[t] # None => \E i \in 1..Len(vm[t].leases) : l = vm[t].leases[i].id
    <3>1. pos[t] \in 1..Len(batch[t]) /\ (vm[t] # None => batch[t] = vm[t].leases)
      BY <2>1 DEF IInv, TypeOK, LocalsOk
    <3>2. QED
      BY <3>1
  <2> HIDE DEF l
  <2>4. QED
    BY <2>1, <2>2, <2>3 DEF LeaseLeaves
<1>6. ASSUME UNCHANGED <<leases, revoked>>
      PROVE  Goal
  BY <1>6
<1>7. ASSUME NEW t \in Threads, NEW participants \in Plans, CreateLogicalNode(t, participants)
      PROVE  UNCHANGED <<leases, revoked>>
  BY <1>7 DEF CreateLogicalNode, registries, history
<1>8. ASSUME NEW t \in Threads, NEW id \in NodeIds, NEW runtime \in Runtimes \cup {BadRuntime},
             NEW created \in CallTimes, CreateVm(t, id, runtime, created)
      PROVE  UNCHANGED <<leases, revoked>>
  BY <1>8 DEF CreateVm
<1>9. ASSUME NEW t \in Threads, NEW id \in VmIds,
             \/ StartVm(t, id) \/ StopVm(t, id) \/ DestroyVm(t, id) \/ ReadVm(t, id)
      PROVE  UNCHANGED <<leases, revoked>>
  BY <1>9 DEF StartVm, StopVm, Update, DestroyVm, ReadVm, registries, history
<1>10. ASSUME NEW t \in Threads,
              \/ BuildLeasedVm(t) \/ RegisterVm(t) \/ ReleaseFails(t) \/ UnregisterNode(t)
              \/ ReadNode(t) \/ WriteBack(t) \/ BackendPanics(t)
              \/ \E id \in NodeIds : ReleaseLeases(t, granted[id])
              \/ \E time \in Clock, named \in BOOLEAN : ExecuteAt(t, time, named)
              \/ \E ok \in BOOLEAN : BackendReturns(t, ok)
      PROVE  UNCHANGED <<leases, revoked>>
  BY <1>10 DEF BuildLeasedVm, RegisterVm, ReleaseFails, UnregisterNode, ReadNode, WriteBack,
               BackendPanics, ReleaseLeases, ExecuteAt, BackendReturns, registries, history
<1>11. CASE UNCHANGED vars
  BY <1>11 DEF vars, registries, history
<1>12. QED
  BY <1>2, <1>3, <1>4, <1>5, <1>6, <1>7, <1>8, <1>9, <1>10, <1>11
  DEF Next, Create, CallOnNode, CallOnVm, Continue, Backend

\* A list of leases that is stored and owned by no thread that rolls back or
\* destroys keeps its entries.
LEMMA ListStays ==
  ASSUME IInv, [Next]_vars, NEW list, Stored(list, leases, revoked),
         \A i \in 1..Len(list) : list[i].id \in LeaseIds,
         \A t \in Threads : pc[t] = "leased" /\ pc'[t] = "idle" => Disjoint(batch[t], list),
         \A t \in Threads : pc[t] = "release" /\ vm[t] # None => Disjoint(vm[t].leases, list)
  PROVE  Stored(list, leases', revoked')
<1> SUFFICES ASSUME NEW i \in 1..Len(list)
             PROVE  leases'[list[i].id] # None \/ list[i].id \in revoked'
  BY DEF Stored
<1> DEFINE l == list[i].id
<1>1. l \in LeaseIds /\ (leases[l] # None \/ l \in revoked)
  BY DEF Stored
<1>2. revoked \subseteq revoked' /\ (leases[l] # None /\ leases'[l] = None => LeaseLeaves(l))
  BY <1>1, LeaseLeavesStep
<1>3. ~ \E t \in Threads : /\ pc[t] = "leased" /\ pc'[t] = "idle"
                           /\ \E j \in 1..Len(batch[t]) : l = batch[t][j].id
  BY DEF Disjoint
<1>4. ~ \E t \in Threads : /\ pc[t] = "release" /\ vm[t] # None
                           /\ \E j \in 1..Len(vm[t].leases) : l = vm[t].leases[j].id
  BY DEF Disjoint
<1>5. QED
  BY <1>1, <1>2, <1>3, <1>4 DEF LeaseLeaves

\* A VM once taken out stays recorded as such.
LEMMA RemovedStep ==
  ASSUME [Next]_vars
  PROVE  removed \subseteq removed'
<1>1. ASSUME NEW t \in Threads, Create(t)
      PROVE  removed' = removed
  BY <1>1 DEF Create, CreateLogicalNode, CreateLeasedLogicalNode, CreateLeasedWithBadRuntime,
              CreateLeasedVm, history
<1>2. ASSUME NEW t \in Threads, CallOnNode(t)
      PROVE  removed' = removed
  BY <1>2 DEF CallOnNode, CreateVm, ReleaseLeases, ReleaseLease, history
<1>3. ASSUME NEW t \in Threads, CallOnVm(t)
      PROVE  removed \subseteq removed'
  BY <1>3 DEF CallOnVm, StartVm, StopVm, Update, DestroyVm, ReadVm, history
<1>4. ASSUME NEW t \in Threads, Continue(t)
      PROVE  removed' = removed
  BY <1>4 DEF Continue, BuildLeasedVm, RollBack, RegisterVm, ReleaseNext, ReleaseFails,
              UnregisterNode, ReadNode, WriteBack, ExecuteAt, history
<1>5. ASSUME NEW t \in Threads, Backend(t)
      PROVE  removed' = removed
  BY <1>5 DEF Backend, BackendReturns, BackendPanics, history
<1>6. CASE UNCHANGED vars
  BY <1>6 DEF vars, history
<1>7. QED
  BY <1>1, <1>2, <1>3, <1>4, <1>5, <1>6 DEF Next

\* The leases a destroy call releases are those of a VM that was taken out.
LEMMA ReleasedLeases ==
  ASSUME IInv, NEW t \in Threads, pc[t] = "release", vm[t] # None
  PROVE  \E v \in removed : v \in VmIds /\ born[v] # None /\ vm[t].leases = born[v].leases
<1>1. CopyOfBorn(vm[t]) /\ vm[t].id \in removed
  BY DEF IInv, CopiesOk
<1>2. removed \subseteq VmIds
  BY DEF IInv, TypeOK
<1>3. QED
  BY <1>1, <1>2 DEF CopyOfBorn

\* Every step keeps the leases of live VMs and of creations in progress.
LEMMA LeasesKeptStep ==
  ASSUME LInv, [Next]_vars
  PROVE  LeasesKept'
<1>1. ASSUME NEW v \in VmIds \ removed, born[v] # None
      PROVE  Stored(born[v].leases, leases', revoked')
  <2> DEFINE list == born[v].leases
  <2>1. Stored(list, leases, revoked) /\ \A i \in 1..Len(list) : list[i].id \in LeaseIds
    BY <1>1, UsedLeaseIds DEF LInv, LeasesKept
  <2>2. \A t \in Threads : pc[t] = "leased" => Disjoint(batch[t], list)
    BY <1>1 DEF LInv, LeasesExclusive
  <2>3. \A t \in Threads : pc[t] = "release" /\ vm[t] # None => Disjoint(vm[t].leases, list)
    BY <1>1, ReleasedLeases DEF LInv, LeasesExclusive
  <2> HIDE DEF list
  <2>4. Stored(list, leases', revoked')
    BY <2>1, <2>2, <2>3, ListStays DEF LInv
  <2>5. QED
    BY <2>4 DEF list
<1>2. ASSUME NEW u \in Threads, pc[u] = "leased", pc'[u] # "idle"
      PROVE  Stored(batch[u], leases', revoked')
  <2> DEFINE list == batch[u]
  <2>1. Stored(list, leases, revoked) /\ \A i \in 1..Len(list) : list[i].id \in LeaseIds
    BY <1>2, UsedLeaseIds DEF LInv, LeasesKept
  <2>2. \A t \in Threads : pc[t] = "leased" /\ pc'[t] = "idle" => Disjoint(batch[t], list)
    BY <1>2 DEF LInv, LeasesExclusive
  <2>3. \A t \in Threads : pc[t] = "release" /\ vm[t] # None => Disjoint(vm[t].leases, list)
    BY <1>2, ReleasedLeases, DisjointFacts DEF LInv, LeasesExclusive
  <2> HIDE DEF list
  <2>4. Stored(list, leases', revoked')
    BY <2>1, <2>2, <2>3, ListStays DEF LInv
  <2>5. QED
    BY <2>4 DEF list
<1>3. CASE CreationsKept
  BY <1>1, <1>2, <1>3, RemovedStep DEF LeasesKept, CreationsKept
<1>4. ASSUME NEW t \in Threads, NEW participants \in Plans, NEW runtime \in Runtimes,
             NEW created \in CallTimes, NEW duration \in Durations,
             CreateLeasedVm(t, participants, runtime, created, duration)
      PROVE  LeasesKept'
  <2>1. /\ leases' = Insert(batch'[t]) /\ batch'[t] \in Seq(Lease)
        /\ \A i \in 1..Len(batch'[t]) : batch'[t][i].id \in LeaseIds
        /\ \A u \in Threads \ {t} : batch'[u] = batch[u] /\ pc'[u] = pc[u]
        /\ born' = born
    BY <1>4, LeasedVmEffect DEF LInv, history
  <2>2. \A l \in IdsOf(batch'[t]) : LeaseOf(batch'[t], l) \in Lease
    BY <2>1 DEF IdsOf, LeaseOf
  <2>3. \A i \in 1..Len(batch'[t]) : batch'[t][i].id \in IdsOf(batch'[t])
    BY <2>1 DEF IdsOf
  <2>4. \A i \in 1..Len(batch'[t]) : leases'[batch'[t][i].id] # None
    BY <2>1, <2>2, <2>3, NoneAssumption DEF Insert
  <2>5. Stored(batch'[t], leases', revoked')
    BY <2>4 DEF Stored
  <2>6. QED
    BY <1>1, <1>2, <2>1, <2>5, RemovedStep DEF LeasesKept
<1>5. ASSUME NEW t \in Threads, NEW id \in NodeIds, NEW runtime \in Runtimes \cup {BadRuntime},
             NEW created \in CallTimes, CreateVm(t, id, runtime, created)
      PROVE  LeasesKept'
  <2>1. PICK n : RegisterNode(t, n, <<>>)
    BY <1>5, UnleasedVmEffect DEF LInv
  <2>2. /\ \A v \in VmIds : v # nextVm => born'[v] = born[v]
        /\ born'[nextVm].leases = <<>>
        /\ pc'[t] = "registered" /\ \A u \in Threads \ {t} : pc'[u] = pc[u]
        /\ batch' = batch
    BY <1>5, <2>1, NewVmEffect, UnleasedVmEffect DEF LInv
  <2>3. Stored(<<>>, leases', revoked')
    BY DEF Stored
  <2>4. QED
    BY <1>1, <1>2, <2>2, <2>3, RemovedStep DEF LeasesKept
<1>6. ASSUME NEW t \in Threads, BuildLeasedVm(t)
      PROVE  LeasesKept'
  <2>1. pc[t] = "leased" /\ RegisterNode(t, node[t], batch[t]) /\ batch' = batch
    BY <1>6 DEF BuildLeasedVm
  <2>2. /\ \A v \in VmIds : v # nextVm => born'[v] = born[v]
        /\ born'[nextVm] = NewVm(nextVm, node[t], batch[t])
        /\ pc'[t] = "registered" /\ \A u \in Threads \ {t} : pc'[u] = pc[u]
    BY <2>1, NewVmEffect DEF LInv
  <2>3. born'[nextVm].leases = batch[t]
    BY <2>2 DEF NewVm
  <2>4. Stored(batch[t], leases', revoked')
    BY <1>2, <2>1, <2>2
  <2>5. QED
    BY <1>1, <1>2, <2>1, <2>2, <2>3, <2>4, RemovedStep DEF LeasesKept
<1>7. QED
  BY <1>3, <1>4, <1>5, <1>6, CreationStep DEF LInv

-----------------------------------------------------------------------------
\* A VM is its creator's until it is registered.

\* What a step other than the creation of a VM may do to the copies of VMs: a
\* thread takes its copy from the registry, writes its own back, and destroys what
\* is registered.
CopiesMove ==
  /\ \A u \in Threads : pc'[u] = "registered" => pc[u] = "registered" /\ vm'[u] = vm[u]
  /\ \A u \in Threads : vm'[u] # None =>
       \/ vm[u] # None /\ vm'[u].id = vm[u].id
       \/ vm'[u].id \in VmIds /\ virtual_machines[vm'[u].id] # None
  /\ \A v \in VmIds : virtual_machines[v] = None /\ virtual_machines'[v] # None =>
       \E u \in Threads : pc'[u] # "registered" /\ vm[u] # None /\ vm[u].id = v
  /\ \A v \in removed' : v \in removed \/ virtual_machines[v] # None
  /\ \A u \in Threads : pc'[u] = "backend" => vm'[u].state = "Running"

\* Only CreateVm and BuildLeasedVm bring a VM into being.
LEMMA CopiesMoveStep ==
  ASSUME LInv, [Next]_vars
  PROVE  \/ CopiesMove
         \/ \E t \in Threads, id \in NodeIds, runtime \in Runtimes \cup {BadRuntime},
               created \in CallTimes : CreateVm(t, id, runtime, created)
         \/ \E t \in Threads : BuildLeasedVm(t)
<1> USE DEF CopiesMove
<1>0. /\ \A u \in Threads : pc[u] = "backend" => vm[u].state = "Running"
      /\ \A v \in VmIds : virtual_machines[v] # None => virtual_machines[v].id = v
  BY DEF LInv, IInv, FreshVms, CopiesOk
<1>1. ASSUME UNCHANGED <<pc, vm, removed>>,
             \A v \in VmIds : virtual_machines[v] = None => virtual_machines'[v] = None
      PROVE  CopiesMove
  BY <1>0, <1>1
<1>2. ASSUME NEW t \in Threads, Return(t), UNCHANGED removed,
             \A v \in VmIds : virtual_machines[v] = None /\ virtual_machines'[v] # None =>
               vm[t] # None /\ vm[t].id = v
      PROVE  CopiesMove
  <2>1. /\ pc'[t] = "idle" /\ vm'[t] = None
        /\ \A u \in Threads \ {t} : pc'[u] = pc[u] /\ vm'[u] = vm[u]
    BY <1>2 DEF LInv, IInv, TypeOK, Return, Goto
  <2>2. QED
    BY <1>0, <1>2, <2>1
<1>3. ASSUME NEW t \in Threads, NEW label, label # "registered",
             pc' = [pc EXCEPT ![t] = label], UNCHANGED <<vm, virtual_machines, removed>>,
             label = "backend" => vm[t].state = "Running"
      PROVE  CopiesMove
  <2>1. /\ pc'[t] = label /\ \A u \in Threads \ {t} : pc'[u] = pc[u]
    BY <1>3 DEF LInv, IInv, TypeOK
  <2>2. QED
    BY <1>0, <1>3, <2>1
<1>4. ASSUME NEW t \in Threads, Create(t)
      PROVE  CopiesMove
  <2>1. CASE UNCHANGED pc
    BY <1>1, <1>4, <2>1
    DEF Create, CreateLogicalNode, CreateLeasedLogicalNode, CreateLeasedWithBadRuntime,
        CreateLeasedVm, StoreLeases, registries, locals, history
  <2>2. ASSUME NEW participants \in Plans, NEW runtime \in Runtimes,
               NEW created \in CallTimes, NEW duration \in Durations,
               CreateLeasedVm(t, participants, runtime, created, duration)
        PROVE  CopiesMove
    BY <1>3, <2>2 DEF CreateLeasedVm, StoreLeases, Goto, history
  <2>3. QED
    BY <1>4, <2>1, <2>2
    DEF Create, CreateLogicalNode, CreateLeasedLogicalNode, CreateLeasedWithBadRuntime
<1>5. ASSUME NEW t \in Threads, NEW id \in NodeIds, ReleaseLeases(t, granted[id])
      PROVE  CopiesMove
  BY <1>3, <1>5 DEF ReleaseLeases, Goto, registries, history
<1>6. ASSUME NEW t \in Threads, NEW id \in NodeIds, NEW i \in DOMAIN granted[id],
             ReleaseLease(t, granted[id][i])
      PROVE  CopiesMove
  BY <1>1, <1>6 DEF ReleaseLease, locals
<1>7. ASSUME NEW t \in Threads, NEW id \in VmIds, StartVm(t, id) \/ StopVm(t, id)
      PROVE  CopiesMove
  BY <1>1, <1>7 DEF LInv, IInv, TypeOK, StartVm, StopVm, Update, locals, history
<1>8. ASSUME NEW t \in Threads, NEW id \in VmIds, DestroyVm(t, id)
      PROVE  CopiesMove
  <2>1. /\ virtual_machines[id] # None /\ virtual_machines[id].id = id
        /\ removed' = removed \cup {id}
        /\ vm'[t] = virtual_machines[id] /\ pc'[t] \in {"unregister", "release"}
        /\ \A u \in Threads \ {t} : pc'[u] = pc[u] /\ vm'[u] = vm[u]
        /\ \A v \in VmIds : virtual_machines[v] = None => virtual_machines'[v] = None
    BY <1>0, <1>8 DEF LInv, IInv, TypeOK, DestroyVm, Goto
  <2>2. QED
    BY <1>0, <2>1
<1>9. ASSUME NEW t \in Threads, NEW id \in VmIds, ReadVm(t, id)
      PROVE  CopiesMove
  <2>1. /\ virtual_machines[id] # None /\ virtual_machines[id].id = id
        /\ UNCHANGED <<removed, virtual_machines>>
        /\ vm'[t] = virtual_machines[id] /\ pc'[t] = "readNode"
        /\ \A u \in Threads \ {t} : pc'[u] = pc[u] /\ vm'[u] = vm[u]
    BY <1>0, <1>9 DEF LInv, IInv, TypeOK, ReadVm, Goto, registries, history
  <2>2. QED
    BY <1>0, <2>1
<1>10. ASSUME NEW t \in Threads, RegisterVm(t) \/ WriteBack(t)
      PROVE  CopiesMove
  <2>1. vm[t] # None
    BY <1>10 DEF LInv, IInv, LocalsOk, RegisterVm, WriteBack
  <2>2. QED
    BY <1>2, <1>10, <2>1 DEF LInv, IInv, TypeOK, RegisterVm, WriteBack, history
<1>11. ASSUME NEW t \in Threads,
             RollBack(t) \/ ReleaseFails(t) \/ UnregisterNode(t) \/ BackendPanics(t)
      PROVE  CopiesMove
  BY <1>2, <1>11 DEF RollBack, ReleaseFails, UnregisterNode, BackendPanics, registries, history
<1>12. ASSUME NEW t \in Threads, ReleaseNext(t)
      PROVE  CopiesMove
  <2>1. UNCHANGED <<virtual_machines, removed>>
    BY <1>12 DEF ReleaseNext
  <2>2. \/ Return(t) \/ UNCHANGED <<pc, vm>>
        \/ pc' = [pc EXCEPT ![t] = "unregister"] /\ UNCHANGED vm
    BY <1>12 DEF ReleaseNext, Goto, locals
  <2>3. QED
    BY <1>1, <1>2, <1>3, <2>1, <2>2
<1>13. ASSUME NEW t \in Threads, ReadNode(t)
      PROVE  CopiesMove
  <2>1. UNCHANGED <<virtual_machines, removed>>
    BY <1>13 DEF ReadNode, registries, history
  <2>2. Return(t) \/ (pc' = [pc EXCEPT ![t] = "execute"] /\ UNCHANGED vm)
    BY <1>13 DEF ReadNode, Goto
  <2>3. QED
    BY <1>2, <1>3, <2>1, <2>2
<1>14. ASSUME NEW t \in Threads, NEW time \in Clock, NEW named \in BOOLEAN,
             ExecuteAt(t, time, named)
      PROVE  CopiesMove
  <2>1. UNCHANGED <<vm, virtual_machines, removed>>
    BY <1>14 DEF ExecuteAt, registries, locals, history
  <2>2. \/ pc' = [pc EXCEPT ![t] = "writeBack"]
        \/ pc' = [pc EXCEPT ![t] = "backend"] /\ vm[t].state = "Running"
    BY <1>14 DEF ExecuteAt, Goto
  <2>3. QED
    BY <1>3, <2>1, <2>2
<1>15. ASSUME NEW t \in Threads, NEW ok \in BOOLEAN, BackendReturns(t, ok)
      PROVE  CopiesMove
  <2>1. /\ pc[t] = "backend" /\ vm[t] \in VirtualMachine
        /\ vm' = vm \/ vm' = [vm EXCEPT ![t].state = "Failed"]
        /\ pc' = [pc EXCEPT ![t] = "writeBack"]
        /\ UNCHANGED <<virtual_machines, removed>>
    BY <1>15 DEF LInv, IInv, TypeOK, LocalsOk, BackendReturns, Goto, registries, history
  <2>2. /\ pc'[t] = "writeBack" /\ vm[t] # None /\ vm'[t].id = vm[t].id
        /\ \A u \in Threads \ {t} : pc'[u] = pc[u] /\ vm'[u] = vm[u]
    BY <2>1, NoneAssumption DEF LInv, IInv, TypeOK, VirtualMachine
  <2>3. QED
    BY <1>0, <2>1, <2>2
<1>16. CASE UNCHANGED vars
  BY <1>1, <1>16 DEF vars, registries, locals, history
<1>17. QED
  BY <1>4, <1>5, <1>6, <1>7, <1>8, <1>9, <1>10, <1>11, <1>12, <1>13, <1>14, <1>15, <1>16
  DEF Next, CallOnNode, CallOnVm, Continue, Backend

\* Every step preserves FreshVms.
LEMMA FreshVmsStep ==
  ASSUME LInv, [Next]_vars
  PROVE  FreshVms'
<1>1. \A t \in Threads : vm[t] # None => vm[t].id \in VmIds
  BY VmFields DEF LInv, IInv, TypeOK
<1>2. CASE CopiesMove
  <2> SUFFICES ASSUME NEW t \in Threads, pc'[t] = "registered"
               PROVE  /\ virtual_machines'[vm'[t].id] = None
                      /\ vm'[t].id \notin removed'
                      /\ vm'[t].state = "Created"
                      /\ \A u \in Threads : u # t /\ vm'[u] # None => vm'[u].id # vm'[t].id
    BY <1>2 DEF CopiesMove, FreshVms
  <2>1. pc[t] = "registered" /\ vm'[t] = vm[t]
    BY <1>2 DEF CopiesMove
  <2>2. /\ virtual_machines[vm[t].id] = None
        /\ vm[t].id \notin removed
        /\ vm[t].state = "Created"
        /\ \A u \in Threads : u # t /\ vm[u] # None => vm[u].id # vm[t].id
    BY <2>1 DEF LInv, FreshVms
  <2>3. vm[t] # None /\ vm[t].id \in VmIds
    BY <1>1, <2>1 DEF LInv, IInv, LocalsOk
  <2>4. \A u \in Threads : pc'[u] # "registered" /\ vm[u] # None => vm[u].id # vm[t].id
    BY <2>2
  <2>5. virtual_machines'[vm[t].id] = None
    BY <1>2, <2>2, <2>3, <2>4 DEF CopiesMove
  <2>6. \A u \in Threads : u # t /\ vm'[u] # None => vm'[u].id # vm[t].id
    BY <1>2, <2>2 DEF CopiesMove
  <2>7. QED
    BY <1>2, <2>1, <2>2, <2>5, <2>6 DEF CopiesMove
<1>3. ASSUME NEW t \in Threads, NEW n, NEW list, RegisterNode(t, n, list),
             UNCHANGED <<virtual_machines, removed>>
      PROVE  FreshVms'
  <2>1. /\ nextVm \in VmIds /\ nextVm \notin removed /\ virtual_machines[nextVm] = None
        /\ \A u \in Threads : vm[u] # None => vm[u].id # nextVm
        /\ vm'[t] = NewVm(nextVm, n, list)
        /\ pc'[t] = "registered"
        /\ \A u \in Threads \ {t} : vm'[u] = vm[u] /\ pc'[u] = pc[u]
    BY <1>3, NewVmEffect DEF LInv
  <2>2. vm'[t].id = nextVm /\ vm'[t].state = "Created"
    BY <2>1 DEF NewVm
  <2>3. \A u \in Threads : pc[u] = "registered" => vm[u] # None
    BY DEF LInv, IInv, LocalsOk
  <2>4. QED
    BY <1>3, <2>1, <2>2, <2>3 DEF LInv, FreshVms
<1>4. QED
  BY <1>2, <1>3, CopiesMoveStep DEF CreateVm, BuildLeasedVm

-----------------------------------------------------------------------------
\* Stored leases have an owner.

\* What a step may do that grants no lease and creates no VM.
NothingGranted ==
  /\ granted' = granted
  /\ nextNode' \in {nextNode, nextNode + 1}
  /\ \A u \in Threads :
       \/ pc'[u] = pc[u] /\ batch'[u] = batch[u] /\ node'[u] = node[u] /\ vm'[u] = vm[u]
       \/ pc'[u] \notin {"idle", "leased", "registered"}
       \/ pc'[u] = "idle" /\ batch'[u] = <<>>
  /\ \A u \in Threads : pc[u] \in {"leased", "registered"} =>
       \/ pc'[u] = pc[u] /\ batch'[u] = batch[u]
       \/ \A l \in IdsOf(batch[u]) : leases'[l] = None
  /\ \A l \in LeaseIds : leases[l] = None => leases'[l] = None \/ l \in leaked'
  /\ leaked \subseteq leaked'

\* The other steps.
LEMMA NothingGrantedStep ==
  ASSUME IInv, [Next]_vars
  PROVE  \/ NothingGranted
         \/ \E t \in Threads, participants \in Plans, created \in CallTimes,
               duration \in Durations :
              \/ CreateLeasedLogicalNode(t, participants, created, duration)
              \/ \E runtime \in Runtimes :
                   CreateLeasedVm(t, participants, runtime, created, duration)
         \/ \E t \in Threads, id \in NodeIds, runtime \in Runtimes \cup {BadRuntime},
               created \in CallTimes : CreateVm(t, id, runtime, created)
         \/ \E t \in Threads : BuildLeasedVm(t) \/ RegisterVm(t)
<1> USE DEF NothingGranted
<1>1. ASSUME NEW t \in Threads, UNCHANGED <<granted, nextNode, leaked>>,
             \A l \in LeaseIds : leases[l] = None => leases'[l] = None,
             pc[t] \notin {"leased", "registered"},
             pc'[t] = "idle" => (pc[t] = "idle" /\ batch'[t] = batch[t] /\ node'[t] = node[t]
                                 /\ vm'[t] = vm[t]) \/ batch'[t] = <<>>,
             pc'[t] \notin {"leased", "registered"},
             \A u \in Threads \ {t} : /\ pc'[u] = pc[u] /\ batch'[u] = batch[u]
                                      /\ node'[u] = node[u] /\ vm'[u] = vm[u]
      PROVE  NothingGranted
  BY <1>1
<1>2. ASSUME NEW t \in Threads, Return(t)
      PROVE  /\ pc'[t] = "idle" /\ batch'[t] = <<>>
             /\ \A u \in Threads \ {t} : /\ pc'[u] = pc[u] /\ batch'[u] = batch[u]
                                         /\ node'[u] = node[u] /\ vm'[u] = vm[u]
  BY <1>2 DEF IInv, TypeOK, Return, Goto
<1>3. ASSUME NEW t \in Threads, NEW participants \in Plans, CreateLogicalNode(t, participants)
      PROVE  NothingGranted
  BY <1>3 DEF CreateLogicalNode, registries, locals, history
<1>4. ASSUME NEW t \in Threads, NEW participants \in Plans,
             NEW created \in CallTimes, NEW duration \in Durations,
             CreateLeasedWithBadRuntime(t, participants, created, duration)
      PROVE  NothingGranted
  <2> DEFINE list == NewLeases(nextNode, participants, nextLease, created, duration)
  <2>1. /\ StoreLeases(list, participants, created, duration)
        /\ leaked' = leaked \cup IdsOf(list)
        /\ UNCHANGED <<granted, pc, vm, node, batch>>
    BY <1>4 DEF CreateLeasedWithBadRuntime, callers, locals
  <2> HIDE DEF list
  <2>2. \A l \in LeaseIds : leases[l] = None => leases'[l] = None \/ l \in IdsOf(list)
    BY <2>1 DEF StoreLeases, Insert
  <2>3. nextNode' = nextNode + 1
    BY <2>1 DEF StoreLeases
  <2>4. QED
    BY <2>1, <2>2, <2>3
<1>5. ASSUME NEW t \in Threads, NEW id \in NodeIds,
             \/ ReleaseLeases(t, granted[id])
             \/ \E i \in DOMAIN granted[id] : ReleaseLease(t, granted[id][i])
      PROVE  NothingGranted
  <2>1. CASE ReleaseLeases(t, granted[id])
    <3>1. /\ UNCHANGED <<granted, nextNode, leaked, leases>> /\ pc[t] = "idle"
          /\ pc'[t] = "release"
          /\ \A u \in Threads \ {t} : /\ pc'[u] = pc[u] /\ batch'[u] = batch[u]
                                      /\ node'[u] = node[u] /\ vm'[u] = vm[u]
      BY <2>1 DEF IInv, TypeOK, ReleaseLeases, Goto, registries, callers, ids, history
    <3>2. QED
      BY <1>1, <3>1
  <2>2. CASE \E i \in DOMAIN granted[id] : ReleaseLease(t, granted[id][i])
    BY <2>2 DEF IInv, TypeOK, ReleaseLease, callers, ids, locals
  <2>3. QED
    BY <1>5, <2>1, <2>2
<1>6. ASSUME NEW t \in Threads, NEW id \in VmIds,
             \/ StartVm(t, id) \/ StopVm(t, id)
      PROVE  NothingGranted
  BY <1>6 DEF StartVm, StopVm, Update, callers, ids, locals, history
<1>7. ASSUME NEW t \in Threads, NEW id \in VmIds, DestroyVm(t, id) \/ ReadVm(t, id)
      PROVE  NothingGranted
  <2>1. /\ UNCHANGED <<granted, nextNode, leaked, leases>> /\ pc[t] = "idle"
        /\ pc'[t] \in {"release", "unregister", "readNode"}
        /\ \A u \in Threads \ {t} : /\ pc'[u] = pc[u] /\ batch'[u] = batch[u]
                                    /\ node'[u] = node[u] /\ vm'[u] = vm[u]
    BY <1>7 DEF IInv, TypeOK, DestroyVm, ReadVm, Goto, registries, callers, ids, history
  <2>2. QED
    BY <1>1, <2>1
<1>8. ASSUME NEW t \in Threads, RollBack(t)
      PROVE  NothingGranted
  <2>1. /\ Return(t) /\ leases' = Remove(batch[t]) /\ pc[t] = "leased"
        /\ UNCHANGED <<granted, nextNode, leaked>>
    BY <1>8 DEF RollBack, callers, ids, history
  <2>2. /\ \A l \in LeaseIds : leases[l] = None => leases'[l] = None
        /\ \A l \in LeaseIds : l \in IdsOf(batch[t]) => leases'[l] = None
    BY <2>1 DEF Remove
  <2>3. IdsOf(batch[t]) \subseteq LeaseIds
    <3>1. batch[t] \in Seq(Lease)
      BY DEF IInv, TypeOK
    <3>2. \A i \in DOMAIN batch[t] : batch[t][i] \in Lease
      BY <3>1
    <3>3. QED
      BY <3>2 DEF IdsOf, Lease
  <2>4. QED
    BY <1>2, <2>1, <2>2, <2>3
<1>9. ASSUME NEW t \in Threads,
             \/ ReleaseFails(t) \/ UnregisterNode(t) \/ WriteBack(t) \/ BackendPanics(t)
      PROVE  NothingGranted
  <2>1. /\ Return(t) /\ pc[t] \notin {"leased", "registered"}
        /\ UNCHANGED <<granted, nextNode, leaked, leases>>
    BY <1>9 DEF ReleaseFails, UnregisterNode, WriteBack, BackendPanics, registries, callers,
                ids, history
  <2>2. QED
    BY <1>1, <1>2, <2>1
<1>10. ASSUME NEW t \in Threads, ReleaseNext(t)
      PROVE  NothingGranted
  <2>1. /\ pc[t] = "release" /\ UNCHANGED <<granted, nextNode, leaked>>
        /\ \A l \in LeaseIds : leases[l] = None => leases'[l] = None
    BY <1>10 DEF IInv, TypeOK, ReleaseNext, callers, ids
  <2>2. CASE Return(t)
    BY <1>1, <1>2, <2>1, <2>2
  <2>3. CASE UNCHANGED <<pc, vm, node, batch>>
    BY <1>1, <2>1, <2>3
  <2>4. CASE pc' = [pc EXCEPT ![t] = "unregister"] /\ UNCHANGED <<vm, node, batch>>
    <3>1. pc'[t] = "unregister" /\ \A u \in Threads \ {t} : pc'[u] = pc[u]
      BY <2>4 DEF IInv, TypeOK
    <3>2. QED
      BY <1>1, <2>1, <2>4, <3>1
  <2>5. QED
    BY <1>10, <2>2, <2>3, <2>4 DEF ReleaseNext, Goto, locals
<1>11. ASSUME NEW t \in Threads, ReadNode(t)
      PROVE  NothingGranted
  <2>1. pc[t] = "readNode" /\ UNCHANGED <<granted, nextNode, leaked, leases>>
    BY <1>11 DEF ReadNode, registries, callers, ids, history
  <2>2. CASE Return(t)
    BY <1>1, <1>2, <2>1, <2>2
  <2>3. CASE ~ Return(t)
    <3>1. /\ pc'[t] = "execute"
          /\ \A u \in Threads \ {t} : /\ pc'[u] = pc[u] /\ batch'[u] = batch[u]
                                      /\ node'[u] = node[u] /\ vm'[u] = vm[u]
      BY <1>11, <2>3 DEF IInv, TypeOK, ReadNode, Goto
    <3>2. QED
      BY <1>1, <2>1, <3>1
  <2>4. QED
    BY <2>2, <2>3
<1>12. ASSUME NEW t \in Threads,
             \/ \E time \in Clock, named \in BOOLEAN : ExecuteAt(t, time, named)
             \/ \E ok \in BOOLEAN : BackendReturns(t, ok)
      PROVE  NothingGranted
  <2>1. /\ UNCHANGED <<granted, nextNode, leaked, leases>>
        /\ pc[t] \in {"execute", "backend"} /\ pc'[t] \in {"backend", "writeBack"}
        /\ \A u \in Threads \ {t} : /\ pc'[u] = pc[u] /\ batch'[u] = batch[u]
                                    /\ node'[u] = node[u] /\ vm'[u] = vm[u]
    BY <1>12
    DEF IInv, TypeOK, ExecuteAt, BackendReturns, Goto, registries, callers, ids, locals, history
  <2>2. QED
    BY <1>1, <2>1
<1>13. CASE UNCHANGED vars
  BY <1>13 DEF vars, registries, callers, ids, locals, history
<1>14. QED
  BY <1>3, <1>4, <1>5, <1>6, <1>7, <1>8, <1>9, <1>10, <1>11, <1>12, <1>13
  DEF Next, Create, CallOnNode, CallOnVm, Continue, Backend

\* What granting the leases of a planned node does.
LEMMA GrantEffect ==
  ASSUME IInv, NEW t \in Threads, NEW participants \in Plans,
         NEW created \in CallTimes, NEW duration \in Durations,
         CreateLeasedLogicalNode(t, participants, created, duration)
  PROVE  /\ nextNode \in NodeIds /\ nextNode' = nextNode + 1
         /\ \A n \in NodeIds \ {nextNode} : granted'[n] = granted[n]
         /\ leases' = Insert(granted'[nextNode])
         /\ UNCHANGED <<pc, vm, node, batch, leaked>>
<1> DEFINE list == NewLeases(nextNode, participants, nextLease, created, duration)
<1>1. /\ StoreLeases(list, participants, created, duration)
      /\ granted' = [granted EXCEPT ![nextNode] = list]
      /\ UNCHANGED <<pc, vm, node, batch, leaked>>
  BY DEF CreateLeasedLogicalNode, locals, history
<1> HIDE DEF list
<1>2. nextNode \in NodeIds /\ nextNode' = nextNode + 1 /\ leases' = Insert(list)
  BY <1>1 DEF StoreLeases
<1>3. QED
  BY <1>1, <1>2 DEF IInv, TypeOK

\* What building a leased VM does to its thread.
LEMMA BuildEffect ==
  ASSUME IInv, NEW t \in Threads, BuildLeasedVm(t)
  PROVE  /\ pc[t] = "leased" /\ pc'[t] = "registered"
         /\ vm'[t].leases = batch[t] /\ vm'[t].node = node[t].id
         /\ \A u \in Threads \ {t} : vm'[u] = vm[u] /\ pc'[u] = pc[u]
         /\ UNCHANGED <<leases, callers, nextNode, node, batch, leaked>>
<1>1. /\ pc[t] = "leased" /\ RegisterNode(t, node[t], batch[t])
      /\ UNCHANGED <<leases, callers, nextNode, node, batch, leaked>>
  BY DEF BuildLeasedVm
<1>2. /\ vm'[t] = NewVm(nextVm, node[t], batch[t]) /\ pc'[t] = "registered"
      /\ \A u \in Threads \ {t} : vm'[u] = vm[u] /\ pc'[u] = pc[u]
  BY <1>1, NewVmEffect
<1>3. QED
  BY <1>1, <1>2 DEF NewVm

\* What registering a VM does to its thread.
LEMMA RegisterEffect ==
  ASSUME IInv, NEW t \in Threads, RegisterVm(t)
  PROVE  /\ pc[t] = "registered" /\ pc'[t] = "idle" /\ batch'[t] = <<>>
         /\ vm[t] \in VirtualMachine /\ vm[t].node \in NodeIds
         /\ CopyOfBorn(vm[t])
         /\ \A u \in Threads \ {t} : /\ vm'[u] = vm[u] /\ pc'[u] = pc[u]
                                     /\ node'[u] = node[u] /\ batch'[u] = batch[u]
         /\ \A n \in NodeIds \ {vm[t].node} : granted'[n] = granted[n]
         /\ granted'[vm[t].node] = IF vm[t].leases = <<>> THEN granted[vm[t].node]
                                                          ELSE vm[t].leases
         /\ UNCHANGED <<leases, nextNode, leaked>>
<1>1. pc[t] = "registered" /\ Return(t) /\ UNCHANGED <<leases, nextNode, leaked>>
  BY DEF RegisterVm, ids, history
<1>2. vm[t] \in VirtualMachine /\ vm[t].node \in NodeIds /\ CopyOfBorn(vm[t])
  BY <1>1, VmFields DEF IInv, TypeOK, LocalsOk, CopiesOk
<1>3. /\ \A n \in NodeIds \ {vm[t].node} : granted'[n] = granted[n]
      /\ granted'[vm[t].node] = IF vm[t].leases = <<>> THEN granted[vm[t].node]
                                                       ELSE vm[t].leases
  BY <1>2 DEF IInv, TypeOK, RegisterVm
<1>4. QED
  BY <1>1, <1>2, <1>3 DEF IInv, TypeOK, Return, Goto

\* The nodes threads create VMs over have used ids.
LEMMA UsedNodeIds ==
  ASSUME IInv
  PROVE  /\ nextNode \in Nat /\ \A n \in NodeIds : n \in Nat
         /\ \A u \in Threads : pc[u] = "leased" =>
              node[u].id \in NodeIds /\ node[u].id < nextNode /\ node[u].id # nextNode
         /\ \A u \in Threads : pc[u] = "registered" =>
              /\ vm[u] # None /\ vm[u].id \in VmIds
              /\ vm[u].node \in NodeIds /\ vm[u].node < nextNode /\ vm[u].node # nextNode
<1>1. nextNode \in Nat /\ \A n \in NodeIds : n \in Nat
  BY BoundAssumption DEF IInv, TypeOK, NodeIds
<1>2. \A u \in Threads : pc[u] = "leased" => node[u].id \in NodeIds /\ node[u].id < nextNode
  BY LocalFields DEF IInv, LocalsOk, NodesExclusive
<1>3. \A u \in Threads : pc[u] = "registered" => /\ vm[u] # None /\ vm[u].id \in VmIds
                                                 /\ vm[u].node \in NodeIds
                                                 /\ CopyOfBorn(vm[u])
  BY VmFields DEF IInv, TypeOK, LocalsOk, CopiesOk
<1>4. \A u \in Threads : pc[u] = "registered" => vm[u].node < nextNode
  BY <1>3 DEF IInv, BornOk, CopyOfBorn
<1>5. QED
  BY <1>1, <1>2, <1>3, <1>4

\* Every step preserves GrantsOk.
LEMMA GrantsStep ==
  ASSUME LInv, [Next]_vars
  PROVE  GrantsOk'
<1>1. CASE NothingGranted
  <2>1. \A n \in NodeIds : granted'[n] # <<>> => n < nextNode'
    BY <1>1, UsedNodeIds DEF LInv, GrantsOk, NothingGranted
  <2>2. QED
    BY <1>1, <2>1 DEF LInv, GrantsOk, NothingGranted
<1>2. ASSUME NEW t \in Threads, NEW participants \in Plans,
             NEW created \in CallTimes, NEW duration \in Durations,
             CreateLeasedLogicalNode(t, participants, created, duration)
      PROVE  GrantsOk'
  <2>1. /\ nextNode \in NodeIds /\ nextNode' = nextNode + 1
        /\ \A n \in NodeIds \ {nextNode} : granted'[n] = granted[n]
        /\ UNCHANGED <<pc, vm, node, batch>>
    BY <1>2, GrantEffect DEF LInv
  <2>2. \A n \in NodeIds : granted'[n] # <<>> => n < nextNode'
    BY <2>1, UsedNodeIds DEF LInv, GrantsOk
  <2>3. QED
    BY <2>1, <2>2, UsedNodeIds DEF LInv, GrantsOk
<1>3. ASSUME NEW t \in Threads, NEW participants \in Plans, NEW runtime \in Runtimes,
             NEW created \in CallTimes, NEW duration \in Durations,
             CreateLeasedVm(t, participants, runtime, created, duration)
      PROVE  GrantsOk'
  <2>1. /\ node'[t].id = nextNode /\ pc' = [pc EXCEPT ![t] = "leased"]
        /\ \A u \in Threads \ {t} : batch'[u] = batch[u] /\ node'[u] = node[u] /\ pc'[u] = pc[u]
        /\ nextNode \in NodeIds /\ nextNode' = nextNode + 1
        /\ UNCHANGED <<granted, vm>>
    BY <1>3, LeasedVmEffect DEF LInv, callers
  <2>2. pc'[t] = "leased"
    BY <2>1 DEF LInv, IInv, TypeOK
  <2>3. granted[nextNode] = <<>>
    BY <2>1, UsedNodeIds DEF LInv, GrantsOk
  <2>4. \A n \in NodeIds : granted[n] # <<>> => n < nextNode + 1
    BY UsedNodeIds DEF LInv, GrantsOk
  <2>5. QED
    BY <2>1, <2>2, <2>3, <2>4 DEF LInv, GrantsOk
<1>4. ASSUME NEW t \in Threads, NEW id \in NodeIds, NEW runtime \in Runtimes \cup {BadRuntime},
             NEW created \in CallTimes, CreateVm(t, id, runtime, created)
      PROVE  GrantsOk'
  <2>1. PICK n : RegisterNode(t, n, <<>>)
    BY <1>4, UnleasedVmEffect DEF LInv
  <2>2. /\ vm'[t].leases = <<>> /\ pc[t] = "idle" /\ pc'[t] = "registered"
        /\ \A u \in Threads \ {t} : vm'[u] = vm[u] /\ pc'[u] = pc[u]
        /\ UNCHANGED <<granted, nextNode, node, batch>>
    BY <1>4, <2>1, NewVmEffect, UnleasedVmEffect DEF LInv, callers
  <2>3. QED
    BY <2>2 DEF LInv, GrantsOk
<1>5. ASSUME NEW t \in Threads, BuildLeasedVm(t)
      PROVE  GrantsOk'
  BY <1>5, BuildEffect DEF LInv, GrantsOk, callers
<1>6. ASSUME NEW t \in Threads, RegisterVm(t)
      PROVE  GrantsOk'
  <2>1. /\ pc[t] = "registered" /\ pc'[t] = "idle" /\ batch'[t] = <<>>
        /\ CopyOfBorn(vm[t])
        /\ \A u \in Threads \ {t} : /\ vm'[u] = vm[u] /\ pc'[u] = pc[u]
                                    /\ node'[u] = node[u] /\ batch'[u] = batch[u]
        /\ \A n \in NodeIds \ {vm[t].node} : granted'[n] = granted[n]
        /\ vm[t].leases = <<>> => granted'[vm[t].node] = granted[vm[t].node]
        /\ nextNode' = nextNode
    BY <1>6, RegisterEffect DEF LInv
  <2>2. vm[t].node \in NodeIds /\ vm[t].node < nextNode /\ vm[t].id \in VmIds
    BY <2>1, UsedNodeIds DEF LInv
  <2>3. \A n \in NodeIds : granted'[n] # <<>> => n < nextNode'
    BY <2>1, <2>2 DEF LInv, GrantsOk
  <2>4. ASSUME NEW u \in Threads \ {t}, pc[u] = "leased"
        PROVE  granted'[node[u].id] = <<>>
    <3>1. node[u].id \in NodeIds /\ granted[node[u].id] = <<>>
      BY <2>4, UsedNodeIds DEF LInv, GrantsOk
    <3>2. node[u].id # vm[t].node
      BY <2>1, <2>2, <2>4 DEF LInv, IInv, NodesExclusive, CopyOfBorn
    <3>3. QED
      BY <2>1, <3>1, <3>2
  <2>5. ASSUME NEW u \in Threads \ {t}, pc[u] = "registered", vm[u].leases # <<>>
        PROVE  granted'[vm[u].node] = <<>>
    <3>1. vm[u].node \in NodeIds /\ vm[u].id \in VmIds /\ vm[u] # None
          /\ granted[vm[u].node] = <<>>
      BY <2>5, UsedNodeIds DEF LInv, GrantsOk
    <3>2. vm[u].id # vm[t].id
      BY <2>1, <3>1 DEF LInv, FreshVms
    <3>3. CopyOfBorn(vm[u]) /\ Leased(vm[u].id)
      BY <2>5, <3>1 DEF LInv, IInv, CopiesOk, CopyOfBorn, Leased
    <3>4. vm[u].node # vm[t].node
      BY <2>1, <2>2, <3>1, <3>2, <3>3 DEF LInv, IInv, NodesExclusive, CopyOfBorn
    <3>5. QED
      BY <2>1, <3>1, <3>4
  <2>6. QED
    BY <2>1, <2>3, <2>4, <2>5 DEF LInv, GrantsOk
<1>7. QED
  BY <1>1, <1>2, <1>3, <1>4, <1>5, <1>6, NothingGrantedStep DEF LInv

\* Every step preserves StoredLeasesOwned.
LEMMA OwnedStep ==
  ASSUME LInv, [Next]_vars
  PROVE  StoredLeasesOwned'
<1> SUFFICES ASSUME NEW l \in LeaseIds, leases'[l] # None
             PROVE  \/ \E n \in NodeIds : l \in IdsOf(granted'[n])
                    \/ \E t \in Threads : pc'[t] \in {"leased", "registered"}
                                          /\ l \in IdsOf(batch'[t])
                    \/ l \in leaked'
  BY DEF StoredLeasesOwned, IdsOf
<1> DEFINE Owned == \/ \E n \in NodeIds : l \in IdsOf(granted[n])
                    \/ \E t \in Threads : pc[t] \in {"leased", "registered"}
                                          /\ l \in IdsOf(batch[t])
                    \/ l \in leaked
           OwnedNext == \/ \E n \in NodeIds : l \in IdsOf(granted'[n])
                        \/ \E t \in Threads : pc'[t] \in {"leased", "registered"}
                                              /\ l \in IdsOf(batch'[t])
                        \/ l \in leaked'
<1>1. leases[l] # None => Owned
  BY DEF LInv, StoredLeasesOwned
<1>2. ~ (l \in IdsOf(<<>>))
  BY DEF IdsOf
<1>3. CASE NothingGranted
  BY <1>1, <1>3 DEF NothingGranted
<1>4. ASSUME NEW t \in Threads, NEW participants \in Plans,
             NEW created \in CallTimes, NEW duration \in Durations,
             CreateLeasedLogicalNode(t, participants, created, duration)
      PROVE  OwnedNext
  <2>1. /\ nextNode \in NodeIds
        /\ \A n \in NodeIds \ {nextNode} : granted'[n] = granted[n]
        /\ leases' = Insert(granted'[nextNode])
        /\ UNCHANGED <<pc, batch, leaked>>
    BY <1>4, GrantEffect DEF LInv
  <2>2. granted[nextNode] = <<>>
    BY <2>1, UsedNodeIds DEF LInv, GrantsOk
  <2>3. l \in IdsOf(granted'[nextNode]) \/ leases[l] # None
    BY <2>1 DEF Insert
  <2>4. QED
    BY <1>1, <1>2, <2>1, <2>2, <2>3
<1>5. ASSUME NEW t \in Threads, NEW participants \in Plans, NEW runtime \in Runtimes,
             NEW created \in CallTimes, NEW duration \in Durations,
             CreateLeasedVm(t, participants, runtime, created, duration)
      PROVE  OwnedNext
  <2>1. /\ pc' = [pc EXCEPT ![t] = "leased"]
        /\ \A u \in Threads \ {t} : batch'[u] = batch[u] /\ pc'[u] = pc[u]
        /\ leases' = Insert(batch'[t])
        /\ UNCHANGED <<granted, leaked>>
    BY <1>5, LeasedVmEffect DEF LInv, callers, history
  <2>2. pc'[t] = "leased" /\ pc[t] = "idle"
    BY <1>5, <2>1 DEF LInv, IInv, TypeOK, CreateLeasedVm
  <2>3. l \in IdsOf(batch'[t]) \/ leases[l] # None
    BY <2>1 DEF Insert
  <2>4. QED
    BY <1>1, <2>1, <2>2, <2>3
<1>6. ASSUME NEW t \in Threads, NEW id \in NodeIds, NEW runtime \in Runtimes \cup {BadRuntime},
             NEW created \in CallTimes, CreateVm(t, id, runtime, created)
      PROVE  OwnedNext
  <2>1. PICK n : RegisterNode(t, n, <<>>)
    BY <1>6, UnleasedVmEffect DEF LInv
  <2>2. /\ pc[t] = "idle" /\ pc'[t] = "registered"
        /\ \A u \in Threads \ {t} : pc'[u] = pc[u]
        /\ UNCHANGED <<leases, granted, batch, leaked>>
    BY <1>6, <2>1, NewVmEffect, UnleasedVmEffect DEF LInv, callers
  <2>3. QED
    BY <1>1, <2>2
<1>7. ASSUME NEW t \in Threads, BuildLeasedVm(t)
      PROVE  OwnedNext
  <2>1. /\ pc[t] = "leased" /\ pc'[t] = "registered"
        /\ \A u \in Threads \ {t} : pc'[u] = pc[u]
        /\ UNCHANGED <<leases, granted, batch, leaked>>
    BY <1>7, BuildEffect DEF LInv, callers
  <2>2. QED
    BY <1>1, <2>1
<1>8. ASSUME NEW t \in Threads, RegisterVm(t)
      PROVE  OwnedNext
  <2>1. /\ pc[t] = "registered" /\ vm[t].node \in NodeIds
        /\ \A u \in Threads \ {t} : pc'[u] = pc[u] /\ batch'[u] = batch[u]
        /\ \A n \in NodeIds \ {vm[t].node} : granted'[n] = granted[n]
        /\ granted'[vm[t].node] = IF vm[t].leases = <<>> THEN granted[vm[t].node]
                                                         ELSE vm[t].leases
        /\ UNCHANGED <<leases, leaked>>
    BY <1>8, RegisterEffect DEF LInv
  <2>2. batch[t] = vm[t].leases /\ (vm[t].leases # <<>> => granted[vm[t].node] = <<>>)
    BY <2>1 DEF LInv, GrantsOk
  <2>3. \A n \in NodeIds : l \in IdsOf(granted[n]) => l \in IdsOf(granted'[n])
    BY <1>2, <2>1, <2>2
  <2>4. l \in IdsOf(batch[t]) => l \in IdsOf(granted'[vm[t].node])
    BY <1>2, <2>1, <2>2
  <2>5. QED
    BY <1>1, <2>1, <2>3, <2>4
<1>9. QED
  BY <1>3, <1>4, <1>5, <1>6, <1>7, <1>8, NothingGrantedStep DEF LInv

\* The strengthened invariant holds in every reachable state.
THEOREM LInvHolds == Spec => []LInv
<1>1. IInv /\ [Next]_vars => IInv'
  BY TypeStep, LocalsStep, BornStep, CopiesStep, ExclusiveStep, PendingStep, NodesStep,
     ReleaseStep, DestroyedStep, DestroyedLeasesStep
  DEF IInv
<1>2. LInv /\ [Next]_vars => LInv'
  BY <1>1, LeasesExclusiveStep, LeasesKeptStep, FreshVmsStep, GrantsStep, OwnedStep DEF LInv
<1>3. QED
  BY <1>2, LInvInit, PTL DEF Spec

-----------------------------------------------------------------------------
\* What follows from it.

\* Two VMs of the registry never hold the same lease (control.rs:342).
THEOREM LeasesNotShared == Spec => []NoSharedLease
<1>1. LInv => NoSharedLease
  <2> SUFFICES ASSUME LInv, NEW v \in VmIds, NEW w \in VmIds, v # w,
                      virtual_machines[v] # None, virtual_machines[w] # None,
                      NEW l \in IdsOf(virtual_machines[v].leases),
                      l \in IdsOf(virtual_machines[w].leases)
               PROVE  FALSE
    BY DEF NoSharedLease
  <2>1. /\ virtual_machines[v].id = v /\ CopyOfBorn(virtual_machines[v])
        /\ virtual_machines[w].id = w /\ CopyOfBorn(virtual_machines[w])
    BY DEF LInv, IInv, CopiesOk
  <2>2. Disjoint(virtual_machines[v].leases, virtual_machines[w].leases)
    BY <2>1 DEF LInv, LeasesExclusive, CopyOfBorn
  <2>3. virtual_machines[v].leases \in Seq(Lease) /\ virtual_machines[w].leases \in Seq(Lease)
    BY VmFields DEF LInv, IInv, TypeOK
  <2>4. PICK i \in 1..Len(virtual_machines[v].leases) : virtual_machines[v].leases[i].id = l
    BY <2>3 DEF IdsOf
  <2>5. PICK j \in 1..Len(virtual_machines[w].leases) : virtual_machines[w].leases[j].id = l
    BY <2>3 DEF IdsOf
  <2>6. QED
    BY <2>2, <2>4, <2>5 DEF Disjoint
<1>2. QED
  BY <1>1, LInvHolds, PTL

\* The leases of a VM nobody asked to destroy are stored, but for those callers
\* released themselves: no other destruction or roll-back reaches them
\* (control.rs:144, 198).
THEOREM LiveLeasesStay == Spec => []LiveLeasesStored
<1>1. LInv => LiveLeasesStored
  <2> SUFFICES ASSUME LInv, NEW v \in VmIds \ removed, virtual_machines[v] # None,
                      NEW l \in IdsOf(virtual_machines[v].leases)
               PROVE  leases[l] # None \/ l \in revoked
    BY DEF LiveLeasesStored
  <2>1. virtual_machines[v].id = v /\ CopyOfBorn(virtual_machines[v])
    BY DEF LInv, IInv, CopiesOk
  <2>2. Stored(virtual_machines[v].leases, leases, revoked)
    BY <2>1 DEF LInv, LeasesKept, CopyOfBorn
  <2>3. virtual_machines[v].leases \in Seq(Lease)
    BY VmFields DEF LInv, IInv, TypeOK
  <2>4. QED
    BY <2>2, <2>3 DEF Stored, IdsOf
<1>2. QED
  BY <1>1, LInvHolds, PTL

\* Every stored lease has an owner, but for those a call left behind when the
\* runtime it was given turned out to be invalid (control.rs:313).
THEOREM StoredLeasesHaveOwners == Spec => []StoredLeasesOwned
<1>1. LInv => StoredLeasesOwned
  BY DEF LInv
<1>2. QED
  BY <1>1, LInvHolds, PTL

-----------------------------------------------------------------------------
\* The registry implements VmLifecycle.

\* A thread is in execute_virtual_machine.
Executing(t) == pc[t] \in {"readNode", "execute", "backend", "writeBack"}

statuses == [id \in VmIds |-> Status(id)]
executions == [t \in Threads |-> Held(t)]

\* Nothing changes for VmLifecycle: the VMs keep their status, and the threads
\* their executions.
LEMMA LifecycleStutter ==
  ASSUME UNCHANGED <<virtual_machines, removed>>,
         \A u \in Threads : \/ Executing(u)' = Executing(u) /\ vm'[u] = vm[u]
                            \/ ~ Executing(u) /\ ~ Executing(u)'
  PROVE  UNCHANGED <<statuses, executions>>
<1>1. \A id \in VmIds : Status(id)' = Status(id)
  BY DEF Status
<1>2. \A u \in Threads : Held(u)' = Held(u)
  BY DEF Held, Executing
<1>3. QED
  BY <1>1, <1>2 DEF statuses, executions

\* One VM moves, and no execution changes.
LEMMA LifecycleMove ==
  ASSUME NEW v \in VmIds, NEW to, Status(v)' = to,
         \A w \in VmIds \ {v} : virtual_machines'[w] = virtual_machines[w],
         \A w \in VmIds \ {v} : w \in removed' <=> w \in removed,
         \A u \in Threads : \/ Executing(u)' = Executing(u) /\ vm'[u] = vm[u]
                            \/ ~ Executing(u) /\ ~ Executing(u)'
  PROVE  /\ statuses' = [statuses EXCEPT ![v] = to]
         /\ UNCHANGED executions
<1>1. \A w \in VmIds \ {v} : Status(w)' = Status(w)
  BY DEF Status
<1>2. \A u \in Threads : Held(u)' = Held(u)
  BY DEF Held, Executing
<1>3. QED
  BY <1>1, <1>2 DEF statuses, executions

\* One execution changes, and the VMs keep their status.
LEMMA LifecycleHold ==
  ASSUME NEW t \in Threads, UNCHANGED <<virtual_machines, removed>>,
         \A u \in Threads \ {t} : pc'[u] = pc[u] /\ vm'[u] = vm[u]
  PROVE  /\ executions' = [executions EXCEPT ![t] = Held(t)']
         /\ UNCHANGED statuses
<1>1. \A id \in VmIds : Status(id)' = Status(id)
  BY DEF Status
<1>2. \A u \in Threads \ {t} : Held(u)' = Held(u)
  BY DEF Held
<1>3. QED
  BY <1>1, <1>2 DEF statuses, executions

\* What the status of a VM and the execution of a thread are.
LEMMA LifecycleState ==
  ASSUME LInv
  PROVE  /\ \A v \in VmIds : statuses[v] = Status(v)
         /\ \A v \in VmIds : virtual_machines[v] # None =>
              Status(v) = virtual_machines[v].state /\ Status(v) \in VmStates
         /\ \A t \in Threads : executions[t] = Held(t)
         /\ \A t \in Threads : ~ Executing(t) => Held(t) = None
         /\ \A t \in Threads : Executing(t) =>
              /\ vm[t] \in VirtualMachine /\ vm[t].id \in VmIds
              /\ Held(t) = [vm |-> vm[t].id, state |-> vm[t].state] /\ Held(t) # None
<1>1. \A v \in VmIds : virtual_machines[v] # None =>
        Status(v) = virtual_machines[v].state /\ Status(v) \in VmStates
  BY DEF LInv, IInv, TypeOK, Status, VirtualMachine
<1>2. \A t \in Threads : Executing(t) => vm[t] \in VirtualMachine
  BY DEF LInv, IInv, TypeOK, LocalsOk, Executing
<1>3. \A x \in VirtualMachine : x.id \in VmIds /\ x.state \in VmStates
  BY DEF VirtualMachine
<1>4. \A t \in Threads : Executing(t) =>
        /\ Held(t) = [vm |-> vm[t].id, state |-> vm[t].state]
        /\ Held(t) \in [vm: VmIds, state: VmStates]
  BY <1>2, <1>3 DEF Held, Executing
<1>5. \A t \in Threads : Executing(t) => Held(t) # None
  BY <1>4, NoneAssumption
<1>6. \A t \in Threads : ~ Executing(t) => Held(t) = None
  BY DEF Held, Executing
<1>7. QED
  BY <1>1, <1>2, <1>3, <1>4, <1>5, <1>6 DEF statuses, executions

\* A step of the control plane as VmLifecycle sees it.
LifecycleStep == Lifecycle!Next \/ UNCHANGED <<statuses, executions>>

\* Every step is one of VmLifecycle or changes nothing it sees.
LEMMA LifecycleSteps ==
  ASSUME LInv, [Next]_vars
  PROVE  LifecycleStep
<1> DEFINE Others(t) == \A u \in Threads \ {t} : pc'[u] = pc[u] /\ vm'[u] = vm[u]
<1>1. ASSUME UNCHANGED <<virtual_machines, removed, pc, vm>>
      PROVE  LifecycleStep
  BY <1>1, LifecycleStutter DEF LifecycleStep, Executing
<1>2. ASSUME NEW t \in Threads, UNCHANGED <<virtual_machines, removed>>, Others(t),
             ~ Executing(t), ~ Executing(t)'
      PROVE  LifecycleStep
  BY <1>2, LifecycleStutter DEF LifecycleStep, Executing
<1>3. ASSUME NEW t \in Threads, UNCHANGED <<virtual_machines, removed>>, Others(t),
             Executing(t), Held(t)' = None
      PROVE  LifecycleStep
  <2>1. executions' = [executions EXCEPT ![t] = None] /\ UNCHANGED statuses
    BY <1>3, LifecycleHold
  <2>2. executions[t] # None
    BY <1>3, LifecycleState
  <2>3. Lifecycle!GiveUp(t)
    BY <2>1, <2>2 DEF Lifecycle!GiveUp, Lifecycle!Hold, statuses, executions
  <2>4. QED
    BY <2>3 DEF LifecycleStep, Lifecycle!Next
<1>4. ASSUME NEW t \in Threads, Return(t)
      PROVE  Others(t) /\ pc'[t] = "idle" /\ ~ Executing(t)' /\ Held(t)' = None
  BY <1>4 DEF LInv, IInv, TypeOK, Return, Goto, Executing, Held
<1>5. ASSUME NEW t \in Threads, RegisterVm(t)
      PROVE  LifecycleStep
  <2>0. PICK v : v = vm[t].id
    OBVIOUS
  <2>1. /\ pc[t] = "registered" /\ Return(t) /\ UNCHANGED removed
        /\ virtual_machines' = [virtual_machines EXCEPT ![v] = vm[t]]
    BY <1>5, <2>0 DEF RegisterVm, history
  <2>2. /\ virtual_machines[v] = None /\ v \notin removed /\ vm[t].state = "Created"
        /\ vm[t] # None /\ vm[t] \in VirtualMachine /\ v \in VmIds
    BY <2>0, <2>1, VmFields DEF LInv, IInv, TypeOK, LocalsOk, FreshVms
  <2>3. Status(v) = "absent"
    BY <2>2 DEF Status
  <2>4. /\ virtual_machines'[v] = vm[t]
        /\ \A w \in VmIds \ {v} : virtual_machines'[w] = virtual_machines[w]
    BY <2>1, <2>2 DEF LInv, IInv, TypeOK
  <2>5. \A u \in Threads : \/ Executing(u)' = Executing(u) /\ vm'[u] = vm[u]
                           \/ ~ Executing(u) /\ ~ Executing(u)'
    BY <1>4, <2>1 DEF Executing
  <2>6. Status(v)' = "Created"
    BY <2>2, <2>4 DEF Status
  <2>7. statuses' = [statuses EXCEPT ![v] = "Created"] /\ UNCHANGED executions
    BY <2>1, <2>2, <2>4, <2>5, <2>6, LifecycleMove
  <2>8. statuses[v] = "absent"
    BY <2>2, <2>3, LifecycleState
  <2>9. Lifecycle!Create(v)
    BY <2>7, <2>8 DEF Lifecycle!Create, Lifecycle!Move, statuses, executions
  <2>10. QED
    BY <2>2, <2>9 DEF LifecycleStep, Lifecycle!Next
<1>6. ASSUME NEW t \in Threads, NEW v \in VmIds, NEW from \in VmStates, NEW to \in VmStates,
             pc[t] = "idle", virtual_machines[v] # None, virtual_machines[v].state = from,
             virtual_machines' = [virtual_machines EXCEPT
                                    ![v] = [virtual_machines[v] EXCEPT !.state = to]],
             UNCHANGED <<removed, pc, vm>>
      PROVE  statuses[v] = from /\ statuses' = [statuses EXCEPT ![v] = to]
             /\ UNCHANGED executions
  <2>1. statuses[v] = from
    BY <1>6, LifecycleState
  <2>2. virtual_machines[v] \in VirtualMachine
    BY <1>6 DEF LInv, IInv, TypeOK
  <2>3. [virtual_machines[v] EXCEPT !.state = to] \in VirtualMachine
    BY <2>2, StateType
  <2>4. [virtual_machines[v] EXCEPT !.state = to].state = to
    BY <2>2 DEF VirtualMachine
  <2>5. /\ virtual_machines'[v] # None /\ virtual_machines'[v].state = to
        /\ \A w \in VmIds \ {v} : virtual_machines'[w] = virtual_machines[w]
    BY <1>6, <2>3, <2>4, NoneAssumption DEF LInv, IInv, TypeOK
  <2>6. Status(v)' = to
    BY <2>5 DEF Status
  <2>7. QED
    BY <1>6, <2>1, <2>5, <2>6, LifecycleMove DEF Executing
<1>7. ASSUME NEW t \in Threads, NEW v \in VmIds, StartVm(t, v)
      PROVE  LifecycleStep
  <2>1. /\ pc[t] = "idle" /\ virtual_machines[v] # None
        /\ virtual_machines' = [virtual_machines EXCEPT ![v] = start(virtual_machines[v])]
        /\ UNCHANGED <<removed, pc, vm>>
    BY <1>7 DEF StartVm, Update, locals, history
  <2>2. CASE virtual_machines[v].state = "Created"
    <3>1. /\ statuses[v] = "Created" /\ statuses' = [statuses EXCEPT ![v] = "Running"]
          /\ UNCHANGED executions
      BY <1>6, <2>1, <2>2 DEF start, VmStates
    <3>2. Lifecycle!Start(v)
      BY <3>1 DEF Lifecycle!Start, Lifecycle!Move, statuses, executions
    <3>3. QED
      BY <3>2 DEF LifecycleStep, Lifecycle!Next
  <2>3. CASE virtual_machines[v].state # "Created"
    <3>1. virtual_machines' = virtual_machines
      BY <2>1, <2>3 DEF start, LInv, IInv, TypeOK
    <3>2. QED
      BY <1>1, <2>1, <3>1
  <2>4. QED
    BY <2>2, <2>3
<1>8. ASSUME NEW t \in Threads, NEW v \in VmIds, StopVm(t, v)
      PROVE  LifecycleStep
  <2>1. /\ pc[t] = "idle" /\ virtual_machines[v] # None
        /\ virtual_machines' = [virtual_machines EXCEPT ![v] = stop(virtual_machines[v])]
        /\ UNCHANGED <<removed, pc, vm>>
    BY <1>8 DEF StopVm, Update, locals, history
  <2>2. CASE virtual_machines[v].state = "Running"
    <3>1. /\ statuses[v] = "Running" /\ statuses' = [statuses EXCEPT ![v] = "Stopped"]
          /\ UNCHANGED executions
      BY <1>6, <2>1, <2>2 DEF stop, VmStates
    <3>2. Lifecycle!Stop(v)
      BY <3>1 DEF Lifecycle!Stop, Lifecycle!Move, statuses, executions
    <3>3. QED
      BY <3>2 DEF LifecycleStep, Lifecycle!Next
  <2>3. CASE virtual_machines[v].state # "Running"
    <3>1. virtual_machines' = virtual_machines
      BY <2>1, <2>3 DEF stop, LInv, IInv, TypeOK
    <3>2. QED
      BY <1>1, <2>1, <3>1
  <2>4. QED
    BY <2>2, <2>3
<1>9. ASSUME NEW t \in Threads, NEW v \in VmIds, DestroyVm(t, v)
      PROVE  LifecycleStep
  <2>1. /\ pc[t] = "idle" /\ virtual_machines[v] # None
        /\ virtual_machines' = [virtual_machines EXCEPT ![v] = None]
        /\ removed' = removed \cup {v}
        /\ pc'[t] \in {"release", "unregister"} /\ Others(t)
    BY <1>9 DEF LInv, IInv, TypeOK, DestroyVm, Goto
  <2>2. statuses[v] \in Lifecycle!States
    BY <2>1, LifecycleState DEF VmStates, Lifecycle!States
  <2>3. /\ virtual_machines'[v] = None
        /\ \A w \in VmIds \ {v} : virtual_machines'[w] = virtual_machines[w]
    BY <2>1 DEF LInv, IInv, TypeOK
  <2>4. Status(v)' = "destroyed"
    BY <2>1, <2>3 DEF Status
  <2>5. \A u \in Threads : \/ Executing(u)' = Executing(u) /\ vm'[u] = vm[u]
                           \/ ~ Executing(u) /\ ~ Executing(u)'
    BY <2>1 DEF Executing
  <2>6. statuses' = [statuses EXCEPT ![v] = "destroyed"] /\ UNCHANGED executions
    BY <2>1, <2>3, <2>4, <2>5, LifecycleMove
  <2>7. Lifecycle!Destroy(v)
    BY <2>2, <2>6 DEF Lifecycle!Destroy, Lifecycle!Move, statuses, executions
  <2>8. QED
    BY <2>7 DEF LifecycleStep, Lifecycle!Next
<1>10. ASSUME NEW t \in Threads, NEW v \in VmIds, ReadVm(t, v)
      PROVE  LifecycleStep
  <2>1. /\ pc[t] = "idle" /\ virtual_machines[v] # None
        /\ UNCHANGED <<virtual_machines, removed>>
        /\ vm'[t] = virtual_machines[v] /\ pc'[t] = "readNode" /\ Others(t)
    BY <1>10 DEF LInv, IInv, TypeOK, ReadVm, Goto, registries, history
  <2>2. virtual_machines[v].id = v
    BY <2>1 DEF LInv, IInv, CopiesOk
  <2>3. Held(t)' = [vm |-> v, state |-> virtual_machines[v].state]
    BY <2>1, <2>2 DEF Held
  <2>4. /\ statuses[v] = virtual_machines[v].state /\ statuses[v] \in VmStates
        /\ executions[t] = None
    BY <2>1, LifecycleState DEF Executing
  <2>5. /\ executions' = [executions EXCEPT ![t] = [vm |-> v, state |-> statuses[v]]]
        /\ UNCHANGED statuses
    BY <2>1, <2>3, <2>4, LifecycleHold
  <2>6. Lifecycle!Begin(t, v)
    BY <2>4, <2>5 DEF Lifecycle!Begin, Lifecycle!Hold, Lifecycle!States, VmStates, statuses,
                      executions
  <2>7. QED
    BY <2>6 DEF LifecycleStep, Lifecycle!Next
<1>11. ASSUME NEW t \in Threads, ReadNode(t)
      PROVE  LifecycleStep
  <2>1. /\ pc[t] = "readNode" /\ UNCHANGED <<virtual_machines, removed>>
    BY <1>11 DEF ReadNode, registries, history
  <2>2. CASE Return(t)
    BY <1>3, <1>4, <2>1, <2>2 DEF Executing
  <2>3. CASE ~ Return(t)
    <3>1. pc'[t] = "execute" /\ vm' = vm /\ Others(t)
      BY <1>11, <2>3 DEF LInv, IInv, TypeOK, ReadNode, Goto
    <3>2. \A u \in Threads : Executing(u)' = Executing(u) /\ vm'[u] = vm[u]
      BY <2>1, <3>1 DEF Executing
    <3>3. QED
      BY <2>1, <3>2, LifecycleStutter DEF LifecycleStep
  <2>4. QED
    BY <2>2, <2>3
<1>12. ASSUME NEW t \in Threads, NEW time \in Clock, NEW named \in BOOLEAN,
             ExecuteAt(t, time, named)
      PROVE  LifecycleStep
  <2>1. /\ pc[t] = "execute" /\ pc'[t] \in {"backend", "writeBack"}
        /\ UNCHANGED <<virtual_machines, removed, vm>>
        /\ \A u \in Threads \ {t} : pc'[u] = pc[u]
    BY <1>12 DEF LInv, IInv, TypeOK, ExecuteAt, Goto, registries, locals, history
  <2>2. \A u \in Threads : Executing(u)' = Executing(u) /\ vm'[u] = vm[u]
    BY <2>1 DEF Executing
  <2>3. QED
    BY <2>1, <2>2, LifecycleStutter DEF LifecycleStep
<1>13. ASSUME NEW t \in Threads, NEW ok \in BOOLEAN, BackendReturns(t, ok)
      PROVE  LifecycleStep
  <2>1. /\ pc[t] = "backend" /\ pc'[t] = "writeBack" /\ vm[t] \in VirtualMachine
        /\ UNCHANGED <<virtual_machines, removed>> /\ Others(t)
        /\ vm[t].state = "Running"
    BY <1>13
    DEF LInv, IInv, TypeOK, LocalsOk, FreshVms, BackendReturns, Goto, registries, history
  <2>2. CASE vm' = vm
    <3>1. \A u \in Threads : Executing(u)' = Executing(u) /\ vm'[u] = vm[u]
      BY <2>1, <2>2 DEF Executing
    <3>2. QED
      BY <2>1, <3>1, LifecycleStutter DEF LifecycleStep
  <2>3. CASE vm' = [vm EXCEPT ![t].state = "Failed"]
    <3>1. vm'[t].id = vm[t].id /\ vm'[t].state = "Failed"
      BY <2>1, <2>3 DEF LInv, IInv, TypeOK, VirtualMachine
    <3>2. Held(t)' = [vm |-> vm[t].id, state |-> "Failed"]
      BY <2>1, <3>1 DEF Held
    <3>3. executions[t] = [vm |-> vm[t].id, state |-> "Running"] /\ executions[t] # None
      BY <2>1, LifecycleState DEF Executing
    <3>4. /\ executions' = [executions EXCEPT ![t] = Held(t)'] /\ UNCHANGED statuses
      BY <2>1, LifecycleHold
    <3>5. Held(t)' = [executions[t] EXCEPT !.state = "Failed"]
      BY <3>2, <3>3
    <3>6. executions' = [executions EXCEPT ![t] = [executions[t] EXCEPT !.state = "Failed"]]
      BY <3>4, <3>5
    <3>7. Lifecycle!Fail(t)
      BY <3>3, <3>4, <3>6 DEF Lifecycle!Fail, Lifecycle!Hold, statuses, executions
    <3>8. QED
      BY <3>7 DEF LifecycleStep, Lifecycle!Next
  <2>4. QED
    BY <1>13, <2>2, <2>3 DEF BackendReturns
<1>14. ASSUME NEW t \in Threads, BackendPanics(t)
      PROVE  LifecycleStep
  <2>1. pc[t] = "backend" /\ UNCHANGED <<virtual_machines, removed>> /\ Return(t)
    BY <1>14 DEF BackendPanics, registries, history
  <2>2. QED
    BY <1>3, <1>4, <2>1 DEF Executing
<1>15. ASSUME NEW t \in Threads, WriteBack(t)
      PROVE  LifecycleStep
  <2>0. PICK v : v = vm[t].id
    OBVIOUS
  <2>1. /\ pc[t] = "writeBack" /\ Return(t) /\ UNCHANGED removed
        /\ virtual_machines' = [virtual_machines EXCEPT ![v] = vm[t]]
    BY <1>15, <2>0 DEF WriteBack, history
  <2>2. /\ v \in VmIds /\ vm[t] \in VirtualMachine /\ vm[t] # None
        /\ executions[t] = [vm |-> v, state |-> vm[t].state] /\ executions[t] # None
    BY <2>0, <2>1, LifecycleState, NoneAssumption DEF Executing
  <2>3. /\ virtual_machines'[v] = vm[t]
        /\ \A w \in VmIds \ {v} : virtual_machines'[w] = virtual_machines[w]
    BY <2>1, <2>2 DEF LInv, IInv, TypeOK
  <2>4. /\ Status(v)' = vm[t].state
        /\ \A w \in VmIds \ {v} : Status(w)' = Status(w)
    BY <2>1, <2>2, <2>3 DEF Status
  <2>5. statuses' = [statuses EXCEPT ![executions[t].vm] = executions[t].state]
    <3>1. executions[t].vm = v /\ executions[t].state = vm[t].state
      BY <2>2
    <3>2. statuses' = [statuses EXCEPT ![v] = vm[t].state]
      BY <2>2, <2>4 DEF statuses
    <3>3. QED
      BY <3>1, <3>2
  <2>6. \A u \in Threads \ {t} : Held(u)' = Held(u)
    BY <1>4, <2>1 DEF Held
  <2>7. executions' = [executions EXCEPT ![t] = None]
    BY <1>4, <2>1, <2>6 DEF executions
  <2>8. Lifecycle!End(t)
    BY <2>2, <2>5, <2>7 DEF Lifecycle!End, Lifecycle!Hold, statuses, executions
  <2>9. QED
    BY <2>8 DEF LifecycleStep, Lifecycle!Next
<1>16. ASSUME NEW t \in Threads,
             \/ RollBack(t) \/ ReleaseFails(t) \/ UnregisterNode(t)
      PROVE  LifecycleStep
  <2>1. /\ UNCHANGED <<virtual_machines, removed>> /\ Return(t)
        /\ pc[t] \in {"leased", "release", "unregister"}
    BY <1>16 DEF RollBack, ReleaseFails, UnregisterNode, registries, history
  <2>2. QED
    BY <1>2, <1>4, <2>1 DEF Executing
<1>17. ASSUME NEW t \in Threads, ReleaseNext(t)
      PROVE  LifecycleStep
  <2>1. pc[t] = "release" /\ UNCHANGED <<virtual_machines, removed>>
    BY <1>17 DEF ReleaseNext
  <2>2. CASE Return(t)
    BY <1>2, <1>4, <2>1, <2>2 DEF Executing
  <2>3. CASE UNCHANGED <<pc, vm>>
    BY <1>1, <2>1, <2>3
  <2>4. CASE pc' = [pc EXCEPT ![t] = "unregister"] /\ UNCHANGED vm
    <3>1. pc'[t] = "unregister" /\ Others(t)
      BY <2>4 DEF LInv, IInv, TypeOK
    <3>2. QED
      BY <1>2, <2>1, <3>1 DEF Executing
  <2>5. QED
    BY <1>17, <2>2, <2>3, <2>4 DEF ReleaseNext, Goto, locals
<1>18. ASSUME NEW t \in Threads, CallOnNode(t)
      PROVE  LifecycleStep
  <2>1. /\ pc[t] = "idle" /\ UNCHANGED <<virtual_machines, removed>>
        /\ pc'[t] \in {"idle", "registered", "release"} /\ Others(t)
    BY <1>18, ZenonT(40) DEF LInv, IInv, TypeOK, CallOnNode, CreateVm, RegisterNode, ReleaseLeases,
                 ReleaseLease, Goto, registries, locals, history
  <2>2. QED
    BY <1>2, <2>1 DEF Executing
<1>19. ASSUME NEW t \in Threads, Create(t)
      PROVE  LifecycleStep
  <2>1. /\ pc[t] = "idle" /\ UNCHANGED <<virtual_machines, removed>>
        /\ pc'[t] \in {"idle", "leased"} /\ Others(t)
    BY <1>19
    DEF LInv, IInv, TypeOK, Create, CreateLogicalNode, CreateLeasedLogicalNode, StoreLeases,
        CreateLeasedWithBadRuntime, CreateLeasedVm, Goto, registries, locals, history
  <2>2. QED
    BY <1>2, <2>1 DEF Executing
<1>20. ASSUME NEW t \in Threads, BuildLeasedVm(t)
      PROVE  LifecycleStep
  <2>1. /\ pc[t] = "leased" /\ UNCHANGED <<virtual_machines, removed>>
        /\ pc'[t] = "registered" /\ Others(t)
    BY <1>20, BuildEffect DEF LInv, BuildLeasedVm
  <2>2. QED
    BY <1>2, <2>1 DEF Executing
<1>21. CASE UNCHANGED vars
  BY <1>1, <1>21 DEF vars, registries, locals, history
<1>22. QED
  BY <1>5, <1>7, <1>8, <1>9, <1>10, <1>11, <1>12, <1>13, <1>14, <1>15, <1>16, <1>17, <1>18,
     <1>19, <1>20, <1>21
  DEF Next, CallOnVm, Continue, Backend

\* The control plane implements VmLifecycle: whatever calls overlap, a VM is created
\* once and moves forward, but for the end of an execution, which restores the state
\* that execution found or fails the VM (control.rs:163-238).
THEOREM ImplementsLifecycle == Spec => RefinesLifecycle
<1>1. Init => Lifecycle!Init
  BY DEF Init, Lifecycle!Init, Status, Held
<1>2. LInv /\ [Next]_vars =>
        [Lifecycle!Next]_<<[id \in VmIds |-> Status(id)], [t \in Threads |-> Held(t)]>>
  BY LifecycleSteps DEF LifecycleStep, statuses, executions
<1>3. QED
  BY <1>1, <1>2, LInvHolds, PTL DEF Spec, RefinesLifecycle, Lifecycle!Spec
=============================================================================
