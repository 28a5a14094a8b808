-------------------------- MODULE ControlPlaneProofs --------------------------
(***************************************************************************)
(* Proofs about ControlPlane, for any number of threads, participants,     *)
(* nodes, virtual machines and leases.                                     *)
(***************************************************************************)
EXTENDS ControlPlane, TLAPS

-----------------------------------------------------------------------------
\* The operators on leases.

\* The list NewLeases builds for a planned node is a list of leases with ids from
\* first on, one per participant of the plan.
LEMMA NewLeasesType ==
  ASSUME NEW n \in NodeIds, NEW participants \in Seq(Participants),
         NEW first \in 1..(MaxLeases + 1), first + Len(participants) <= MaxLeases + 1,
         NEW created \in CallTimes, NEW duration \in Durations,
         NEW list, list = NewLeases(n, participants, first, created, duration)
  PROVE  /\ list \in Seq(Lease)
         /\ Len(list) = Len(participants)
         /\ \A i \in 1..Len(list) : /\ list[i].id = first + i - 1
                                    /\ list[i].node = n
                                    /\ list[i].participant = participants[i]
<1>1. /\ Len(participants) \in Nat
      /\ DOMAIN participants = 1..Len(participants)
  OBVIOUS
<1>2. \A i \in 1..Len(participants) :
        [id |-> first + i - 1, node |-> n, participant |-> participants[i],
         created |-> created, expires |-> created + duration] \in Lease
  BY <1>1, BoundAssumption, TimeAssumption DEF Lease, LeaseIds
<1>3. list \in [1..Len(participants) -> Lease]
  BY <1>2 DEF NewLeases
<1>4. list \in Seq(Lease) /\ Len(list) = Len(participants)
  BY <1>1, <1>3
<1>5. QED
  BY <1>4 DEF NewLeases

\* Insert stores leases under the ids of the list and nowhere else.
LEMMA InsertType ==
  ASSUME leases \in [LeaseIds -> Lease \cup {None}], NEW list \in Seq(Lease)
  PROVE  /\ Insert(list) \in [LeaseIds -> Lease \cup {None}]
         /\ \A l \in LeaseIds : l \notin IdsOf(list) => Insert(list)[l] = leases[l]
<1>1. \A l \in IdsOf(list) : LeaseOf(list, l) \in Lease
  BY DEF IdsOf, LeaseOf
<1>2. QED
  BY <1>1 DEF Insert

\* Remove empties the entries of the list's ids and no other.
LEMMA RemoveType ==
  ASSUME leases \in [LeaseIds -> Lease \cup {None}], NEW list \in Seq(Lease)
  PROVE  /\ Remove(list) \in [LeaseIds -> Lease \cup {None}]
         /\ \A l \in LeaseIds : Remove(list)[l] \in {leases[l], None}
  BY DEF Remove

\* What StoreLeases does to the lease registry and to the id counters.
LEMMA StoreLeasesEffect ==
  ASSUME TypeOK, NEW participants \in Plans, NEW created \in CallTimes,
         NEW duration \in Durations, NEW list,
         StoreLeases(list, participants, created, duration)
  PROVE  /\ nextNode \in NodeIds
         /\ nextNode' = nextNode + 1
         /\ nextLease' = nextLease + Len(participants)
         /\ nextLease' \in 1..(MaxLeases + 1)
         /\ nextLease <= nextLease'
         /\ list \in Seq(Lease)
         /\ Len(list) = Len(participants)
         /\ \A i \in 1..Len(list) : /\ list[i].id \in nextLease..(nextLease' - 1)
                                    /\ list[i].node = nextNode
                                    /\ list[i].participant = participants[i]
         /\ leases' \in [LeaseIds -> Lease \cup {None}]
         /\ \A l \in LeaseIds : l < nextLease => leases'[l] = leases[l]
<1>1. participants \in Seq(Participants) /\ Len(participants) \in Nat
  BY PlansAssumption
<1>2. /\ list \in Seq(Lease)
      /\ Len(list) = Len(participants)
      /\ \A i \in 1..Len(list) : /\ list[i].id = nextLease + i - 1
                                 /\ list[i].node = nextNode
                                 /\ list[i].participant = participants[i]
  BY <1>1, NewLeasesType DEF StoreLeases, TypeOK
<1>3. \A l \in IdsOf(list) : l >= nextLease
  BY <1>1, <1>2, BoundAssumption DEF IdsOf, TypeOK
<1>4. leases' = Insert(list)
  BY DEF StoreLeases
<1>5. /\ leases' \in [LeaseIds -> Lease \cup {None}]
      /\ \A l \in LeaseIds : l \notin IdsOf(list) => leases'[l] = leases[l]
  BY <1>2, <1>4, InsertType DEF TypeOK
<1>6. \A l \in LeaseIds : l < nextLease => leases'[l] = leases[l]
  BY <1>3, <1>5, BoundAssumption DEF LeaseIds, TypeOK
<1>7. /\ nextNode \in NodeIds
      /\ nextNode' = nextNode + 1
      /\ nextLease' = nextLease + Len(participants)
  BY DEF StoreLeases
<1>8. nextLease \in Nat /\ nextLease' \in 1..(MaxLeases + 1) /\ nextLease <= nextLease'
  BY <1>1, <1>7, BoundAssumption DEF StoreLeases, TypeOK
<1>9. \A i \in 1..Len(list) : list[i].id \in nextLease..(nextLease' - 1)
  BY <1>1, <1>2, <1>7, <1>8
<1>10. QED
  BY <1>2, <1>5, <1>6, <1>7, <1>8, <1>9

-----------------------------------------------------------------------------
\* Type correctness.

\* The initial state has the types of TypeOK.
LEMMA TypeInit == Init => TypeOK
  BY BoundAssumption DEF Init, TypeOK, LeaseIds, VmIds, NodeIds

\* A virtual machine keeps its type when its state changes.
LEMMA StateType ==
  ASSUME NEW v \in VirtualMachine, NEW s \in VmStates
  PROVE  [v EXCEPT !.state = s] \in VirtualMachine
  BY DEF VirtualMachine

\* from_node_with_leases makes a virtual machine of a valid node.
LEMMA NewVmType ==
  ASSUME NEW id \in VmIds, NEW n \in LogicalNode, NEW list \in Seq(Lease), ValidNode(n)
  PROVE  NewVm(id, n, list) \in VirtualMachine
  BY DEF NewVm, ValidNode, LogicalNode, VirtualMachine, VmStates

\* What RegisterNode does, in types.
LEMMA RegisterNodeType ==
  ASSUME TypeOK, NEW t \in Threads, NEW n \in LogicalNode, NEW list \in Seq(Lease),
         ValidNode(n), RegisterNode(t, n, list)
  PROVE  /\ logical_nodes' \in [NodeIds -> LogicalNode \cup {None}]
         /\ vm' \in [Threads -> VirtualMachine \cup {None}]
         /\ born' \in [VmIds -> VirtualMachine \cup {None}]
         /\ nextVm' \in 1..(MaxVms + 1)
         /\ NewVm(nextVm, n, list) \in VirtualMachine
         /\ pc' = [pc EXCEPT ![t] = "registered"]
<1>1. nextVm \in VmIds
  BY DEF RegisterNode
<1>2. NewVm(nextVm, n, list) \in VirtualMachine
  BY <1>1, NewVmType
<1>3. nextVm' \in 1..(MaxVms + 1)
  BY <1>1, BoundAssumption DEF RegisterNode, VmIds
<1>4. QED
  BY <1>1, <1>2, <1>3 DEF TypeOK, RegisterNode, Goto

\* A returning thread leaves its locals well typed.
LEMMA ReturnType ==
  ASSUME TypeOK, NEW t \in Threads, Return(t)
  PROVE  /\ pc' = [pc EXCEPT ![t] = "idle"]
         /\ vm' \in [Threads -> VirtualMachine \cup {None}]
         /\ node' \in [Threads -> LogicalNode \cup {None}]
         /\ batch' \in [Threads -> Seq(Lease)]
         /\ pos' \in [Threads -> Nat \ {0}]
  BY DEF TypeOK, Return, Goto

\* What a thread holds at each point of a call.
LocalsOk ==
  \A t \in Threads :
    /\ pc[t] \in {"idle", "leased"} => vm[t] = None
    /\ pc[t] # "release" /\ pc[t] # "unregister" => pos[t] = 1
    /\ pc[t] \in {"registered", "unregister", "readNode", "execute", "backend",
                  "writeBack"} => vm[t] # None
    /\ pc[t] \in {"leased", "execute", "backend", "writeBack"} => node[t] # None
    /\ pc[t] = "release" => pos[t] <= Len(batch[t])
    /\ pc[t] = "release" /\ vm[t] # None => batch[t] = vm[t].leases

\* Every step preserves the types.
LEMMA TypeStep ==
  ASSUME TypeOK, LocalsOk, [Next]_vars
  PROVE  TypeOK'
<1>1. ASSUME NEW t \in Threads, NEW participants \in Plans,
             CreateLogicalNode(t, participants)
      PROVE  TypeOK'
  BY <1>1, PlansAssumption, BoundAssumption
  DEF TypeOK, CreateLogicalNode, NodeIds, registries, locals, history
<1>2. ASSUME NEW t \in Threads, NEW participants \in Plans,
             NEW created \in CallTimes, NEW duration \in Durations,
             CreateLeasedLogicalNode(t, participants, created, duration)
      PROVE  TypeOK'
  <2> DEFINE list == NewLeases(nextNode, participants, nextLease, created, duration)
  <2>1. StoreLeases(list, participants, created, duration)
    BY <1>2 DEF CreateLeasedLogicalNode
  <2> HIDE DEF list
  <2>2. /\ nextNode \in NodeIds /\ nextNode' = nextNode + 1
        /\ nextLease' \in 1..(MaxLeases + 1)
        /\ list \in Seq(Lease)
        /\ leases' \in [LeaseIds -> Lease \cup {None}]
    BY <2>1, StoreLeasesEffect
  <2>3. QED
    BY <1>2, <2>1, <2>2, PlansAssumption, BoundAssumption
    DEF TypeOK, CreateLeasedLogicalNode, StoreLeases, NodeIds, locals, history, list
<1>3. ASSUME NEW t \in Threads, NEW participants \in Plans,
             NEW created \in CallTimes, NEW duration \in Durations,
             CreateLeasedWithBadRuntime(t, participants, created, duration)
      PROVE  TypeOK'
  <2> DEFINE list == NewLeases(nextNode, participants, nextLease, created, duration)
  <2>1. StoreLeases(list, participants, created, duration)
    BY <1>3 DEF CreateLeasedWithBadRuntime
  <2> HIDE DEF list
  <2>2. /\ nextNode \in NodeIds /\ nextNode' = nextNode + 1
        /\ nextLease' \in 1..(MaxLeases + 1)
        /\ list \in Seq(Lease)
        /\ leases' \in [LeaseIds -> Lease \cup {None}]
    BY <2>1, StoreLeasesEffect
  <2>3. IdsOf(list) \subseteq LeaseIds
    <3>1. \A i \in DOMAIN list : list[i] \in Lease
      BY <2>2
    <3>2. QED
      BY <3>1 DEF IdsOf, Lease
  <2>4. QED
    BY <1>3, <2>1, <2>2, <2>3, BoundAssumption
    DEF TypeOK, CreateLeasedWithBadRuntime, StoreLeases, NodeIds, callers, locals, list
<1>4. ASSUME NEW t \in Threads, NEW participants \in Plans, NEW runtime \in Runtimes,
             NEW created \in CallTimes, NEW duration \in Durations,
             CreateLeasedVm(t, participants, runtime, created, duration)
      PROVE  TypeOK'
  <2> DEFINE list == NewLeases(nextNode, participants, nextLease, created, duration)
  <2>1. StoreLeases(list, participants, created, duration)
    BY <1>4 DEF CreateLeasedVm
  <2> HIDE DEF list
  <2>2. /\ nextNode \in NodeIds /\ nextNode' = nextNode + 1
        /\ nextLease' \in 1..(MaxLeases + 1)
        /\ list \in Seq(Lease)
        /\ leases' \in [LeaseIds -> Lease \cup {None}]
    BY <2>1, StoreLeasesEffect
  <2>3. [id |-> nextNode, participants |-> participants, runtime |-> runtime]
          \in LogicalNode
    BY <2>2, PlansAssumption DEF LogicalNode
  <2>4. QED
    BY <1>4, <2>1, <2>2, <2>3, BoundAssumption
    DEF TypeOK, CreateLeasedVm, StoreLeases, Goto, NodeIds, callers, history, list
<1>5. ASSUME NEW t \in Threads, NEW id \in NodeIds, NEW runtime \in Runtimes \cup {BadRuntime},
             NEW created \in CallTimes, CreateVm(t, id, runtime, created)
      PROVE  TypeOK'
  <2> DEFINE n == [id |-> id, participants |-> handed[id], runtime |-> runtime]
  <2>1. n \in LogicalNode
    BY <1>5 DEF TypeOK, CreateVm, LogicalNode
  <2>2. ValidNode(n) /\ RegisterNode(t, n, <<>>) /\ <<>> \in Seq(Lease)
    BY <1>5 DEF CreateVm
  <2> HIDE DEF n
  <2>3. /\ logical_nodes' \in [NodeIds -> LogicalNode \cup {None}]
        /\ vm' \in [Threads -> VirtualMachine \cup {None}]
        /\ born' \in [VmIds -> VirtualMachine \cup {None}]
        /\ nextVm' \in 1..(MaxVms + 1)
        /\ pc' = [pc EXCEPT ![t] = "registered"]
    BY <2>1, <2>2, RegisterNodeType
  <2>4. QED
    BY <1>5, <2>3 DEF TypeOK, CreateVm, callers
<1>6. ASSUME NEW t \in Threads, BuildLeasedVm(t)
      PROVE  TypeOK'
  <2>1. node[t] \in LogicalNode /\ batch[t] \in Seq(Lease) /\ ValidNode(node[t])
    BY <1>6 DEF TypeOK, LocalsOk, BuildLeasedVm
  <2>2. RegisterNode(t, node[t], batch[t])
    BY <1>6 DEF BuildLeasedVm
  <2>3. /\ logical_nodes' \in [NodeIds -> LogicalNode \cup {None}]
        /\ vm' \in [Threads -> VirtualMachine \cup {None}]
        /\ born' \in [VmIds -> VirtualMachine \cup {None}]
        /\ nextVm' \in 1..(MaxVms + 1)
        /\ pc' = [pc EXCEPT ![t] = "registered"]
    BY <2>1, <2>2, RegisterNodeType
  <2>4. QED
    BY <1>6, <2>3 DEF TypeOK, BuildLeasedVm, callers
<1>7. ASSUME NEW t \in Threads, RollBack(t)
      PROVE  TypeOK'
  BY <1>7, ReturnType, RemoveType
  DEF TypeOK, RollBack, callers, ids, history
<1>8. ASSUME NEW t \in Threads, RegisterVm(t)
      PROVE  TypeOK'
  <2>1. vm[t] \in VirtualMachine /\ vm[t].leases \in Seq(Lease)
    BY <1>8 DEF TypeOK, LocalsOk, RegisterVm, VirtualMachine
  <2>2. /\ virtual_machines' \in [VmIds -> VirtualMachine \cup {None}]
        /\ granted' \in [NodeIds -> Seq(Lease)]
    BY <1>8, <2>1 DEF TypeOK, RegisterVm
  <2>3. QED
    BY <1>8, <2>2, ReturnType DEF TypeOK, RegisterVm, ids, history
<1>9. ASSUME NEW t \in Threads, NEW id \in VmIds, StartVm(t, id)
      PROVE  TypeOK'
  <2>1. virtual_machines[id] \in VirtualMachine
    BY <1>9 DEF TypeOK, StartVm, Update
  <2>2. start(virtual_machines[id]) \in VirtualMachine
    BY <2>1, StateType DEF start, VmStates
  <2>3. QED
    BY <1>9, <2>2 DEF TypeOK, StartVm, Update, callers, ids, locals, history
<1>10. ASSUME NEW t \in Threads, NEW id \in VmIds, StopVm(t, id)
      PROVE  TypeOK'
  <2>1. virtual_machines[id] \in VirtualMachine
    BY <1>10 DEF TypeOK, StopVm, Update
  <2>2. stop(virtual_machines[id]) \in VirtualMachine
    BY <2>1, StateType DEF stop, VmStates
  <2>3. QED
    BY <1>10, <2>2 DEF TypeOK, StopVm, Update, callers, ids, locals, history
<1>11. ASSUME NEW t \in Threads, NEW id \in NodeIds, NEW i \in DOMAIN granted[id],
             ReleaseLease(t, granted[id][i])
      PROVE  TypeOK'
  <2>1. granted[id][i] \in Lease
    BY DEF TypeOK
  <2>2. QED
    BY <1>11, <2>1 DEF TypeOK, ReleaseLease, Lease, callers, ids, locals
<1>12. ASSUME NEW t \in Threads, NEW id \in NodeIds, ReleaseLeases(t, granted[id])
      PROVE  TypeOK'
  BY <1>12 DEF TypeOK, ReleaseLeases, Goto, registries, callers, ids, history
<1>13. ASSUME NEW t \in Threads, NEW id \in VmIds, DestroyVm(t, id)
      PROVE  TypeOK'
  <2>1. /\ virtual_machines[id] \in VirtualMachine
        /\ virtual_machines[id].leases \in Seq(Lease)
    BY <1>13 DEF TypeOK, DestroyVm, VirtualMachine
  <2>2. QED
    BY <1>13, <2>1 DEF TypeOK, DestroyVm, Goto, callers, ids
<1>14. ASSUME NEW t \in Threads, ReleaseNext(t)
      PROVE  TypeOK'
  <2>1. batch[t] \in Seq(Lease) /\ pos[t] \in 1..Len(batch[t])
    BY <1>14 DEF TypeOK, LocalsOk, ReleaseNext
  <2>2. batch[t][pos[t]] \in Lease
    BY <2>1
  <2>3. batch[t][pos[t]].id \in LeaseIds
    BY <2>2 DEF Lease
  <2>4. leases' \in [LeaseIds -> Lease \cup {None}] /\ revoked' \subseteq LeaseIds
    BY <1>14, <2>3 DEF TypeOK, ReleaseNext
  <2>5. UNCHANGED <<virtual_machines, logical_nodes, callers, ids, born, removed,
                    destroyed, leaked>>
    BY <1>14 DEF ReleaseNext
  <2>6. CASE Return(t)
    BY <2>4, <2>5, <2>6, ReturnType DEF TypeOK, callers, ids
  <2>7. CASE pos' = [pos EXCEPT ![t] = @ + 1] /\ UNCHANGED <<pc, vm, node, batch>>
    BY <2>4, <2>5, <2>7 DEF TypeOK, callers, ids
  <2>8. CASE Goto(t, "unregister") /\ UNCHANGED locals
    BY <2>4, <2>5, <2>8 DEF TypeOK, Goto, callers, ids, locals
  <2>9. QED
    BY <1>14, <2>6, <2>7, <2>8 DEF ReleaseNext
<1>15. ASSUME NEW t \in Threads, ReleaseFails(t)
      PROVE  TypeOK'
  BY <1>15, ReturnType DEF TypeOK, ReleaseFails, registries, callers, ids, history
<1>16. ASSUME NEW t \in Threads, UnregisterNode(t)
      PROVE  TypeOK'
  <2>1. vm[t].id \in VmIds
    BY <1>16 DEF TypeOK, LocalsOk, UnregisterNode, VirtualMachine
  <2>2. QED
    BY <1>16, <2>1, ReturnType DEF TypeOK, UnregisterNode, callers, ids
<1>17. ASSUME NEW t \in Threads, NEW id \in VmIds, ReadVm(t, id)
      PROVE  TypeOK'
  BY <1>17 DEF TypeOK, ReadVm, Goto, registries, callers, ids, history
<1>18. ASSUME NEW t \in Threads, ReadNode(t)
      PROVE  TypeOK'
  <2>1. logical_nodes[vm[t].node] \in LogicalNode \cup {None}
    BY <1>18 DEF TypeOK, LocalsOk, ReadNode, VirtualMachine
  <2>2. CASE Return(t)
    BY <1>18, <2>2, ReturnType DEF TypeOK, ReadNode, registries, callers, ids, history
  <2>3. CASE ~ Return(t)
    BY <1>18, <2>1, <2>3 DEF TypeOK, ReadNode, Goto, registries, callers, ids, history
  <2>4. QED
    BY <2>2, <2>3
<1>19. ASSUME NEW t \in Threads, NEW time \in Clock, NEW named \in BOOLEAN,
             ExecuteAt(t, time, named)
      PROVE  TypeOK'
  BY <1>19 DEF TypeOK, ExecuteAt, Goto, registries, callers, ids, locals, history
<1>20. ASSUME NEW t \in Threads, NEW ok \in BOOLEAN, BackendReturns(t, ok)
      PROVE  TypeOK'
  <2>1. vm[t] \in VirtualMachine
    BY <1>20 DEF TypeOK, LocalsOk, BackendReturns
  <2>2. vm' \in [Threads -> VirtualMachine \cup {None}]
    BY <1>20, <2>1, StateType DEF TypeOK, BackendReturns, VmStates
  <2>3. QED
    BY <1>20, <2>2 DEF TypeOK, BackendReturns, Goto, registries, callers, ids, history
<1>21. ASSUME NEW t \in Threads, BackendPanics(t)
      PROVE  TypeOK'
  BY <1>21, ReturnType DEF TypeOK, BackendPanics, registries, callers, ids, history
<1>22. ASSUME NEW t \in Threads, WriteBack(t)
      PROVE  TypeOK'
  <2>1. virtual_machines' \in [VmIds -> VirtualMachine \cup {None}]
    BY <1>22 DEF TypeOK, WriteBack
  <2>2. QED
    BY <1>22, <2>1, ReturnType DEF TypeOK, WriteBack, callers, ids, history
<1>23. CASE UNCHANGED vars
  BY <1>23 DEF TypeOK, LocalsOk, vars, registries, callers, ids, locals, history
<1>24. QED
  BY <1>1, <1>2, <1>3, <1>4, <1>5, <1>6, <1>7, <1>8, <1>9, <1>10, <1>11,
     <1>12, <1>13, <1>14, <1>15, <1>16, <1>17, <1>18, <1>19, <1>20, <1>21,
     <1>22, <1>23
  DEF Next, Create, CallOnNode, CallOnVm, Continue, Backend

\* The initial state satisfies LocalsOk.
LEMMA LocalsInit == Init => LocalsOk
  BY DEF Init, LocalsOk

\* Every step preserves LocalsOk.
LEMMA LocalsStep ==
  ASSUME TypeOK, LocalsOk, [Next]_vars
  PROVE  LocalsOk'
<1>1. ASSUME NEW t \in Threads, NEW participants \in Plans,
             CreateLogicalNode(t, participants)
      PROVE  LocalsOk'
  BY <1>1
  DEF TypeOK, LocalsOk, CreateLogicalNode, registries, callers, ids, locals,
      history
<1>2. ASSUME NEW t \in Threads, NEW participants \in Plans,
             NEW created \in CallTimes, NEW duration \in Durations,
             \/ CreateLeasedLogicalNode(t, participants, created, duration)
             \/ CreateLeasedWithBadRuntime(t, participants, created, duration)
      PROVE  LocalsOk'
  BY <1>2
  DEF TypeOK, LocalsOk, CreateLeasedLogicalNode, StoreLeases,
      CreateLeasedWithBadRuntime, registries, callers, ids, locals, history
<1>3. ASSUME NEW t \in Threads, NEW participants \in Plans, NEW runtime \in Runtimes,
             NEW created \in CallTimes, NEW duration \in Durations,
             CreateLeasedVm(t, participants, runtime, created, duration)
      PROVE  LocalsOk'
  <2> DEFINE n == [id |-> nextNode, participants |-> participants, runtime |-> runtime]
  <2>1. n \in LogicalNode
    BY <1>3, PlansAssumption DEF CreateLeasedVm, StoreLeases, LogicalNode
  <2>2. n # None
    BY <2>1, NoneAssumption
  <2>3. node' = [node EXCEPT ![t] = n]
    BY <1>3 DEF CreateLeasedVm
  <2> HIDE DEF n
  <2>4. QED
    BY <1>3, <2>2, <2>3 DEF TypeOK, LocalsOk, CreateLeasedVm, Goto
<1>4. ASSUME NEW t \in Threads, NEW id \in NodeIds, NEW runtime \in Runtimes \cup {BadRuntime},
             NEW created \in CallTimes, CreateVm(t, id, runtime, created)
      PROVE  LocalsOk'
  <2> DEFINE n == [id |-> id, participants |-> handed[id], runtime |-> runtime]
  <2>1. n \in LogicalNode
    BY <1>4 DEF TypeOK, CreateVm, LogicalNode
  <2>2. ValidNode(n) /\ RegisterNode(t, n, <<>>) /\ <<>> \in Seq(Lease)
    BY <1>4 DEF CreateVm
  <2> HIDE DEF n
  <2>3. NewVm(nextVm, n, <<>>) # None
    BY <2>1, <2>2, RegisterNodeType, NoneAssumption, ZenonT(40)
  <2>4. QED
    BY <1>4, <2>2, <2>3 DEF TypeOK, LocalsOk, CreateVm, RegisterNode, Goto
<1>5. ASSUME NEW t \in Threads, BuildLeasedVm(t)
      PROVE  LocalsOk'
  <2>1. /\ node[t] \in LogicalNode /\ batch[t] \in Seq(Lease)
        /\ ValidNode(node[t]) /\ RegisterNode(t, node[t], batch[t])
    BY <1>5 DEF TypeOK, LocalsOk, BuildLeasedVm
  <2>2. NewVm(nextVm, node[t], batch[t]) # None
    BY <2>1, RegisterNodeType, NoneAssumption
  <2>3. QED
    BY <1>5, <2>1, <2>2 DEF TypeOK, LocalsOk, BuildLeasedVm, RegisterNode, Goto
<1>6. ASSUME NEW t \in Threads,
             \/ RollBack(t) \/ RegisterVm(t) \/ ReleaseNext(t)
             \/ ReleaseFails(t) \/ UnregisterNode(t) \/ ReadNode(t)
             \/ BackendPanics(t) \/ WriteBack(t)
      PROVE  LocalsOk'
  BY <1>6
  DEF TypeOK, LocalsOk, RollBack, Return, Goto, RegisterVm, ReleaseNext,
      ReleaseFails, UnregisterNode, ReadNode, BackendPanics, WriteBack,
      registries, callers, ids, locals, history
<1>7. ASSUME NEW t \in Threads, NEW id \in VmIds,
             \/ StartVm(t, id) \/ StopVm(t, id) \/ DestroyVm(t, id)
             \/ ReadVm(t, id)
      PROVE  LocalsOk'
  BY <1>7
  DEF TypeOK, LocalsOk, StartVm, Update, start, StopVm, stop, DestroyVm,
      Goto, ReadVm, registries, callers, ids, locals, history
<1>8. ASSUME NEW t \in Threads, NEW id \in NodeIds, NEW i \in DOMAIN granted[id],
             ReleaseLease(t, granted[id][i])
      PROVE  LocalsOk'
  BY <1>8
  DEF TypeOK, LocalsOk, ReleaseLease, registries, callers, ids, locals,
      history
<1>9. ASSUME NEW t \in Threads, NEW id \in NodeIds, ReleaseLeases(t, granted[id])
      PROVE  LocalsOk'
  BY <1>9
  DEF TypeOK, LocalsOk, ReleaseLeases, Goto, registries, callers, ids,
      locals, history
<1>10. ASSUME NEW t \in Threads, NEW time \in Clock, NEW named \in BOOLEAN,
             ExecuteAt(t, time, named)
      PROVE  LocalsOk'
  BY <1>10
  DEF TypeOK, LocalsOk, ExecuteAt, Goto, registries, callers, ids, locals,
      history
<1>11. ASSUME NEW t \in Threads, NEW ok \in BOOLEAN, BackendReturns(t, ok)
      PROVE  LocalsOk'
  <2>1. vm[t] \in VirtualMachine
    BY <1>11 DEF TypeOK, LocalsOk, BackendReturns
  <2>2. [vm[t] EXCEPT !.state = "Failed"] # None
    BY <2>1, StateType, NoneAssumption DEF VmStates
  <2>3. vm'[t] # None /\ \A u \in Threads \ {t} : vm'[u] = vm[u]
    BY <1>11, <2>1, <2>2, NoneAssumption DEF TypeOK, BackendReturns
  <2>4. QED
    BY <1>11, <2>3 DEF TypeOK, LocalsOk, BackendReturns, Goto
<1>12. CASE UNCHANGED vars
  BY <1>12 DEF TypeOK, LocalsOk, vars, registries, callers, ids, locals, history
<1>13. QED
  BY <1>1, <1>2, <1>3, <1>4, <1>5, <1>6, <1>7, <1>8, <1>9, <1>10, <1>11,
     <1>12
  DEF Next, Create, CallOnNode, CallOnVm, Continue, Backend

\* Type correctness, with what the threads hold.
THEOREM TypeCorrect == Spec => [](TypeOK /\ LocalsOk)
<1>1. Init => TypeOK /\ LocalsOk
  BY TypeInit, LocalsInit
<1>2. TypeOK /\ LocalsOk /\ [Next]_vars => (TypeOK /\ LocalsOk)'
  BY TypeStep, LocalsStep
<1>3. QED
  BY <1>1, <1>2, PTL DEF Spec

-----------------------------------------------------------------------------
\* The lease registry only loses leases it once had.

\* A step changes the entry of an id below nextLease only by emptying it.
LeaseEntriesKept ==
  /\ nextLease <= nextLease'
  /\ \A l \in LeaseIds : l < nextLease => leases'[l] \in {leases[l], None}

\* Every step keeps the lease entries in that sense.
LEMMA LeaseStep ==
  ASSUME TypeOK, LocalsOk, [Next]_vars
  PROVE  LeaseEntriesKept
<1>1. ASSUME NEW t \in Threads, NEW participants \in Plans,
             CreateLogicalNode(t, participants)
      PROVE  LeaseEntriesKept
  BY <1>1
  DEF TypeOK, LeaseEntriesKept, CreateLogicalNode, registries, callers, ids,
      locals, history
<1>2. ASSUME NEW t \in Threads, NEW participants \in Plans,
             NEW created \in CallTimes, NEW duration \in Durations,
             CreateLeasedLogicalNode(t, participants, created, duration)
      PROVE  LeaseEntriesKept
  <2>1. \E list : StoreLeases(list, participants, created, duration)
    BY <1>2 DEF CreateLeasedLogicalNode
  <2>2. QED
    BY <2>1, StoreLeasesEffect DEF LeaseEntriesKept
<1>3. ASSUME NEW t \in Threads, NEW participants \in Plans,
             NEW created \in CallTimes, NEW duration \in Durations,
             CreateLeasedWithBadRuntime(t, participants, created, duration)
      PROVE  LeaseEntriesKept
  <2>1. \E list : StoreLeases(list, participants, created, duration)
    BY <1>3 DEF CreateLeasedWithBadRuntime
  <2>2. QED
    BY <2>1, StoreLeasesEffect DEF LeaseEntriesKept
<1>4. ASSUME NEW t \in Threads, NEW participants \in Plans, NEW runtime \in Runtimes,
             NEW created \in CallTimes, NEW duration \in Durations,
             CreateLeasedVm(t, participants, runtime, created, duration)
      PROVE  LeaseEntriesKept
  <2>1. \E list : StoreLeases(list, participants, created, duration)
    BY <1>4 DEF CreateLeasedVm
  <2>2. QED
    BY <2>1, StoreLeasesEffect DEF LeaseEntriesKept
<1>5. ASSUME NEW t \in Threads, NEW id \in NodeIds, NEW runtime \in Runtimes \cup {BadRuntime},
             NEW created \in CallTimes,
             CreateVm(t, id, runtime, created)
      PROVE  LeaseEntriesKept
  BY <1>5
  DEF TypeOK, LeaseEntriesKept, CreateVm, RegisterNode, NewVm, Goto,
      registries, callers, ids, locals, history
<1>6. ASSUME NEW t \in Threads,
             \/ BuildLeasedVm(t) \/ RegisterVm(t) \/ ReleaseNext(t)
             \/ ReleaseFails(t) \/ UnregisterNode(t) \/ ReadNode(t)
             \/ BackendPanics(t) \/ WriteBack(t)
      PROVE  LeaseEntriesKept
  BY <1>6
  DEF TypeOK, LeaseEntriesKept, BuildLeasedVm, RegisterNode, NewVm, Goto,
      RegisterVm, Return, ReleaseNext, ReleaseFails, UnregisterNode,
      ReadNode, BackendPanics, WriteBack, registries, callers, ids, locals,
      history
<1>7. ASSUME NEW t \in Threads, RollBack(t)
      PROVE  LeaseEntriesKept
  BY <1>7, RemoveType DEF LeaseEntriesKept, TypeOK, RollBack, ids
<1>8. ASSUME NEW t \in Threads, NEW id \in VmIds,
             \/ StartVm(t, id) \/ StopVm(t, id) \/ DestroyVm(t, id)
             \/ ReadVm(t, id)
      PROVE  LeaseEntriesKept
  BY <1>8
  DEF TypeOK, LeaseEntriesKept, StartVm, Update, start, StopVm, stop,
      DestroyVm, Goto, ReadVm, registries, callers, ids, locals, history
<1>9. ASSUME NEW t \in Threads, NEW id \in NodeIds, NEW i \in DOMAIN granted[id],
             ReleaseLease(t, granted[id][i])
      PROVE  LeaseEntriesKept
  BY <1>9
  DEF TypeOK, LeaseEntriesKept, ReleaseLease, registries, callers, ids,
      locals, history
<1>10. ASSUME NEW t \in Threads, NEW id \in NodeIds, ReleaseLeases(t, granted[id])
      PROVE  LeaseEntriesKept
  BY <1>10
  DEF TypeOK, LeaseEntriesKept, ReleaseLeases, Goto, registries, callers,
      ids, locals, history
<1>11. ASSUME NEW t \in Threads, NEW time \in Clock, NEW named \in BOOLEAN,
             ExecuteAt(t, time, named)
      PROVE  LeaseEntriesKept
  BY <1>11
  DEF TypeOK, LeaseEntriesKept, ExecuteAt, Goto, registries, callers, ids,
      locals, history
<1>12. ASSUME NEW t \in Threads, NEW ok \in BOOLEAN, BackendReturns(t, ok)
      PROVE  LeaseEntriesKept
  BY <1>12
  DEF TypeOK, LeaseEntriesKept, BackendReturns, Goto, registries, callers,
      ids, locals, history
<1>13. CASE UNCHANGED vars
  BY <1>13 DEF TypeOK, LeaseEntriesKept, vars, registries, callers, ids, locals, history
<1>14. QED
  BY <1>1, <1>2, <1>3, <1>4, <1>5, <1>6, <1>7, <1>8, <1>9, <1>10, <1>11,
     <1>12, <1>13
  DEF Next, Create, CallOnNode, CallOnVm, Continue, Backend

\* ReleasedForever holds of every behaviour: a lease that has left the registry
\* never returns to it (release_lease, remove_leases and the write-back of
\* clones, control.rs:232-264).
THEOREM ReleasedForeverHolds == Spec => ReleasedForever
<1>1. TypeOK /\ LocalsOk /\ [Next]_vars =>
        [\A l \in LeaseIds : l < nextLease /\ leases[l] = None => leases'[l] = None]_vars
  BY LeaseStep DEF LeaseEntriesKept
<1>2. QED
  BY <1>1, TypeCorrect, PTL DEF Spec, ReleasedForever

-----------------------------------------------------------------------------
\* The inductive invariant.

\* The VM v was created with leases.
Leased(v) == born[v] # None /\ born[v].leases # <<>>

\* x is a copy of the VM created under its id: it differs at most in its state.
CopyOfBorn(x) ==
  /\ born[x.id] # None
  /\ x.node = born[x.id].node
  /\ x.runtime = born[x.id].runtime
  /\ x.leases = born[x.id].leases

\* Ids are used once: what a VM was created with lies below the id counters.
BornOk ==
  /\ \A v \in VmIds : born[v] # None =>
       /\ v < nextVm
       /\ born[v].id = v
       /\ born[v].node < nextNode
       /\ \A i \in 1..Len(born[v].leases) : born[v].leases[i].id < nextLease
  /\ \A v \in removed : born[v] # None
  /\ destroyed \subseteq removed

\* The registry and the threads hold copies of created VMs, under their own ids.
CopiesOk ==
  /\ \A v \in VmIds : virtual_machines[v] # None =>
       virtual_machines[v].id = v /\ CopyOfBorn(virtual_machines[v])
  /\ \A t \in Threads : vm[t] # None => CopyOfBorn(vm[t])
  /\ \A t \in Threads : pc[t] \in {"release", "unregister"} /\ vm[t] # None =>
       vm[t].id \in removed

\* The node of a leased VM is nobody else's: no caller holds it, no other VM was
\* created over it.  The same goes for the node of a creation in progress.
NodesExclusive ==
  /\ \A n \in NodeIds : handed[n] # None => n < nextNode
  /\ \A v, w \in VmIds : Leased(v) =>
       /\ handed[born[v].node] = None
       /\ v # w /\ born[w] # None => born[w].node # born[v].node
  /\ \A t \in Threads : pc[t] = "leased" =>
       /\ node[t].id < nextNode
       /\ handed[node[t].id] = None
       /\ \A v \in VmIds : born[v] # None => born[v].node # node[t].id
       /\ \A u \in Threads : u # t /\ pc[u] = "leased" => node[u].id # node[t].id

\* A creation in progress holds one lease per allocation of its node.
PendingOk ==
  \A t \in Threads : pc[t] = "leased" =>
    /\ Len(batch[t]) = Len(node[t].participants)
    /\ \A i \in 1..Len(batch[t]) : /\ batch[t][i].participant = node[t].participants[i]
                                   /\ batch[t][i].id < nextLease

\* The node registered for a leased VM backs it, as long as it is registered, and
\* it is registered until a destroy call has taken the VM out.  The node an
\* execution works on backs its VM.
NodesOk ==
  /\ \A n \in NodeIds : logical_nodes[n] # None => logical_nodes[n].id = n
  /\ \A v \in VmIds : Leased(v) /\ logical_nodes[born[v].node] # None =>
       Backs(logical_nodes[born[v].node], born[v])
  /\ \A v \in VmIds : Leased(v) /\ v \notin removed => logical_nodes[born[v].node] # None
  /\ \A t \in Threads : pc[t] \in {"execute", "backend", "writeBack"} =>
       /\ node[t].id = vm[t].node
       /\ vm[t].leases # <<>> => Backs(node[t], vm[t])
       /\ pc[t] = "backend" => node[t].runtime = vm[t].runtime

\* A destroy call has released the leases before its position, and all of them
\* when it comes to the node.
ReleaseOk ==
  \A t \in Threads :
    /\ pc[t] = "release" /\ vm[t] # None =>
         \A j \in 1..(pos[t] - 1) : leases[vm[t].leases[j].id] = None
    /\ pc[t] = "unregister" =>
         \A j \in 1..Len(vm[t].leases) : leases[vm[t].leases[j].id] = None

\* Why the invariants hold: LocalsOk says what a thread carries, BornOk and
\* CopiesOk that every copy of a VM agrees with the VM as created, NodesExclusive
\* that the node of a leased VM is its own, and the rest follows what a creation
\* and a destruction have done so far.
IInv ==
  /\ TypeOK /\ LocalsOk /\ BornOk /\ CopiesOk /\ NodesExclusive /\ PendingOk
  /\ NodesOk /\ ReleaseOk /\ DestroyReleasesAll /\ DestroyedNodeGone

\* The initial state satisfies the inductive invariant.
LEMMA InvInit == Init => IInv
<1>1. Init => TypeOK /\ LocalsOk
  BY TypeInit, LocalsInit
<1>2. Init => BornOk /\ CopiesOk /\ NodesExclusive /\ PendingOk
  BY DEF Init, BornOk, CopiesOk, NodesExclusive, PendingOk, Leased
<1>3. Init => NodesOk /\ ReleaseOk /\ DestroyReleasesAll /\ DestroyedNodeGone
  BY DEF Init, NodesOk, ReleaseOk, Leased, DestroyReleasesAll, DestroyedNodeGone
<1>4. QED
  BY <1>1, <1>2, <1>3 DEF IInv

\* The fields of a virtual machine, down to the ids of its leases.
LEMMA VmFields ==
  ASSUME NEW v \in VirtualMachine
  PROVE  /\ v.id \in VmIds /\ v.node \in NodeIds /\ v.leases \in Seq(Lease)
         /\ \A i \in 1..Len(v.leases) : /\ v.leases[i] \in Lease
                                        /\ v.leases[i].id \in LeaseIds
<1>1. v.id \in VmIds /\ v.node \in NodeIds /\ v.leases \in Seq(Lease)
  BY DEF VirtualMachine
<1>2. \A i \in 1..Len(v.leases) : v.leases[i] \in Lease
  BY <1>1
<1>3. QED
  BY <1>1, <1>2 DEF Lease

\* BornOk survives a step that only raises the id counters of nodes and leases.
LEMMA BornMonotone ==
  ASSUME TypeOK, BornOk, UNCHANGED <<born, removed, destroyed, nextVm>>,
         nextNode' \in Nat, nextLease' \in Nat,
         nextNode <= nextNode', nextLease <= nextLease'
  PROVE  BornOk'
<1>1. \A v \in VmIds : born[v] # None =>
        /\ born[v].node \in Nat
        /\ \A i \in 1..Len(born[v].leases) : born[v].leases[i].id \in Nat
  <2>1. \A v \in VmIds : born[v] # None => born[v] \in VirtualMachine
    BY DEF TypeOK
  <2>2. QED
    BY <2>1, VmFields, BoundAssumption DEF NodeIds, LeaseIds
<1>2. nextNode \in Nat /\ nextLease \in Nat
  BY BoundAssumption DEF TypeOK
<1>3. QED
  BY <1>1, <1>2, SMTT(30) DEF BornOk

\* BornOk survives the creation of a VM over a node and leases with used ids.
LEMMA BornRegistered ==
  ASSUME TypeOK, BornOk, NEW new, nextVm \in VmIds,
         nextVm' = nextVm + 1, born' = [born EXCEPT ![nextVm] = new],
         UNCHANGED <<removed, destroyed, nextNode, nextLease>>,
         new.id = nextVm, new.node < nextNode,
         \A i \in 1..Len(new.leases) : new.leases[i].id < nextLease
  PROVE  BornOk'
<1>1. \A v \in VmIds : v \in Nat
  BY DEF VmIds
<1>2. \A v \in VmIds : v # nextVm => born'[v] = born[v]
  BY DEF TypeOK
<1>3. born'[nextVm] = new
  BY DEF TypeOK
<1>4. \A v \in removed : born[v] # None /\ v \in VmIds /\ v # nextVm
  BY <1>1 DEF BornOk, TypeOK
<1>5. QED
  BY <1>1, <1>2, <1>3, <1>4 DEF BornOk

\* Every step preserves BornOk.
LEMMA BornStep ==
  ASSUME IInv, [Next]_vars
  PROVE  BornOk'
<1>1. ASSUME NEW t \in Threads, NEW participants \in Plans,
             CreateLogicalNode(t, participants)
      PROVE  BornOk'
  <2>1. UNCHANGED <<born, removed, destroyed, nextVm, nextLease>> /\ nextNode' = nextNode + 1
    BY <1>1 DEF CreateLogicalNode, history
  <2>2. nextNode \in Nat /\ nextLease \in Nat
    BY BoundAssumption DEF IInv, TypeOK
  <2>3. QED
    BY <2>1, <2>2, BornMonotone DEF IInv
<1>2. ASSUME NEW t \in Threads, NEW participants \in Plans,
             NEW created \in CallTimes, NEW duration \in Durations,
             CreateLeasedLogicalNode(t, participants, created, duration)
      PROVE  BornOk'
  <2>1. PICK list : StoreLeases(list, participants, created, duration)
    BY <1>2 DEF CreateLeasedLogicalNode
  <2>2. /\ nextNode' = nextNode + 1 /\ nextNode \in Nat
        /\ nextLease <= nextLease' /\ nextLease' \in Nat
    BY <2>1, StoreLeasesEffect, BoundAssumption DEF IInv, NodeIds
  <2>3. UNCHANGED <<born, removed, destroyed, nextVm>>
    BY <1>2, <2>1 DEF CreateLeasedLogicalNode, StoreLeases, history
  <2>4. QED
    BY <2>2, <2>3, BornMonotone DEF IInv
<1>3. ASSUME NEW t \in Threads, NEW participants \in Plans,
             NEW created \in CallTimes, NEW duration \in Durations,
             CreateLeasedWithBadRuntime(t, participants, created, duration)
      PROVE  BornOk'
  <2>1. PICK list : StoreLeases(list, participants, created, duration)
    BY <1>3 DEF CreateLeasedWithBadRuntime
  <2>2. /\ nextNode' = nextNode + 1 /\ nextNode \in Nat
        /\ nextLease <= nextLease' /\ nextLease' \in Nat
    BY <2>1, StoreLeasesEffect, BoundAssumption DEF IInv, NodeIds
  <2>3. UNCHANGED <<born, removed, destroyed, nextVm>>
    BY <1>3, <2>1 DEF CreateLeasedWithBadRuntime, StoreLeases, history
  <2>4. QED
    BY <2>2, <2>3, BornMonotone DEF IInv
<1>4. ASSUME NEW t \in Threads, NEW participants \in Plans, NEW runtime \in Runtimes,
             NEW created \in CallTimes, NEW duration \in Durations,
             CreateLeasedVm(t, participants, runtime, created, duration)
      PROVE  BornOk'
  <2>1. PICK list : StoreLeases(list, participants, created, duration)
    BY <1>4 DEF CreateLeasedVm
  <2>2. /\ nextNode' = nextNode + 1 /\ nextNode \in Nat
        /\ nextLease <= nextLease' /\ nextLease' \in Nat
    BY <2>1, StoreLeasesEffect, BoundAssumption DEF IInv, NodeIds
  <2>3. UNCHANGED <<born, removed, destroyed, nextVm>>
    BY <1>4, <2>1 DEF CreateLeasedVm, StoreLeases, history
  <2>4. QED
    BY <2>2, <2>3, BornMonotone DEF IInv
<1>5. ASSUME NEW t \in Threads, NEW id \in NodeIds, NEW runtime \in Runtimes \cup {BadRuntime},
             NEW created \in CallTimes, CreateVm(t, id, runtime, created)
      PROVE  BornOk'
  <2> DEFINE n == [id |-> id, participants |-> handed[id], runtime |-> runtime]
             new == NewVm(nextVm, n, <<>>)
  <2>1. /\ nextVm \in VmIds /\ nextVm' = nextVm + 1 /\ handed[id] # None
        /\ born' = [born EXCEPT ![nextVm] = new]
        /\ UNCHANGED <<removed, destroyed, nextNode, nextLease>>
    BY <1>5 DEF CreateVm, RegisterNode
  <2>2. new.id = nextVm /\ new.node = id /\ Len(new.leases) = 0
    BY DEF NewVm
  <2>3. new.node < nextNode
    BY <2>1, <2>2 DEF IInv, NodesExclusive
  <2> HIDE DEF new
  <2>4. \A i \in 1..Len(new.leases) : new.leases[i].id < nextLease
    BY <2>2
  <2>5. QED
    BY <2>1, <2>2, <2>3, <2>4, BornRegistered DEF IInv
<1>6. ASSUME NEW t \in Threads, BuildLeasedVm(t)
      PROVE  BornOk'
  <2> DEFINE new == NewVm(nextVm, node[t], batch[t])
  <2>1. /\ nextVm \in VmIds /\ nextVm' = nextVm + 1
        /\ born' = [born EXCEPT ![nextVm] = new]
        /\ UNCHANGED <<removed, destroyed, nextNode, nextLease>>
        /\ pc[t] = "leased"
    BY <1>6 DEF BuildLeasedVm, RegisterNode
  <2>2. new.id = nextVm /\ new.node = node[t].id /\ new.leases = batch[t]
    BY DEF NewVm
  <2>3. /\ node[t].id < nextNode
        /\ \A i \in 1..Len(batch[t]) : batch[t][i].id < nextLease
    BY <2>1 DEF IInv, NodesExclusive, PendingOk
  <2> HIDE DEF new
  <2>4. QED
    BY <2>1, <2>2, <2>3, BornRegistered DEF IInv
<1>7. ASSUME NEW t \in Threads,
             \/ RollBack(t) \/ RegisterVm(t) \/ ReleaseNext(t)
             \/ ReleaseFails(t) \/ ReadNode(t) \/ BackendPanics(t)
             \/ WriteBack(t)
      PROVE  BornOk'
  BY <1>7
  DEF IInv, TypeOK, BornOk, RollBack, Return, Goto, RegisterVm, ReleaseNext,
      ReleaseFails, ReadNode, BackendPanics, WriteBack, registries, callers,
      ids, locals, history
<1>8. ASSUME NEW t \in Threads, NEW id \in VmIds,
             \/ StartVm(t, id) \/ StopVm(t, id) \/ ReadVm(t, id)
      PROVE  BornOk'
  BY <1>8
  DEF IInv, TypeOK, BornOk, StartVm, Update, start, StopVm, stop, ReadVm,
      Goto, registries, callers, ids, locals, history
<1>9. ASSUME NEW t \in Threads, NEW id \in NodeIds, NEW i \in DOMAIN granted[id],
             ReleaseLease(t, granted[id][i])
      PROVE  BornOk'
  BY <1>9
  DEF IInv, TypeOK, BornOk, ReleaseLease, registries, callers, ids, locals,
      history
<1>10. ASSUME NEW t \in Threads, NEW id \in NodeIds, ReleaseLeases(t, granted[id])
      PROVE  BornOk'
  BY <1>10
  DEF IInv, TypeOK, BornOk, ReleaseLeases, Goto, registries, callers, ids,
      locals, history
<1>11. ASSUME NEW t \in Threads, NEW id \in VmIds, DestroyVm(t, id)
      PROVE  BornOk'
  <2>1. born[id] # None
    BY <1>11 DEF IInv, DestroyVm, CopiesOk, CopyOfBorn
  <2>2. QED
    BY <1>11, <2>1 DEF IInv, BornOk, DestroyVm, ids
<1>12. ASSUME NEW t \in Threads, UnregisterNode(t)
      PROVE  BornOk'
  <2>1. vm[t].id \in removed
    BY <1>12 DEF IInv, UnregisterNode, LocalsOk, CopiesOk
  <2>2. QED
    BY <1>12, <2>1 DEF IInv, BornOk, UnregisterNode, ids
<1>13. ASSUME NEW t \in Threads, NEW time \in Clock, NEW named \in BOOLEAN,
             ExecuteAt(t, time, named)
      PROVE  BornOk'
  BY <1>13
  DEF IInv, TypeOK, BornOk, ExecuteAt, Goto, registries, callers, ids,
      locals, history
<1>14. ASSUME NEW t \in Threads, NEW ok \in BOOLEAN, BackendReturns(t, ok)
      PROVE  BornOk'
  BY <1>14
  DEF IInv, TypeOK, BornOk, BackendReturns, Goto, registries, callers, ids,
      locals, history
<1>15. CASE UNCHANGED vars
  BY <1>15 DEF IInv, TypeOK, BornOk, vars, registries, callers, ids, locals, history
<1>16. QED
  BY <1>1, <1>2, <1>3, <1>4, <1>5, <1>6, <1>7, <1>8, <1>9, <1>10, <1>11,
     <1>12, <1>13, <1>14, <1>15
  DEF Next, Create, CallOnNode, CallOnVm, Continue, Backend

\* The leases a thread carries, and the node it works on, have ids of their kind.
LEMMA LocalFields ==
  ASSUME TypeOK, NEW t \in Threads
  PROVE  /\ \A i \in 1..Len(batch[t]) : batch[t][i] \in Lease /\ batch[t][i].id \in Nat
         /\ node[t] # None => node[t].id \in NodeIds /\ node[t].id \in Nat
<1>1. batch[t] \in Seq(Lease)
  BY DEF TypeOK
<1>2. \A i \in 1..Len(batch[t]) : batch[t][i] \in Lease
  BY <1>1
<1>3. \A l \in Lease : l.id \in Nat
  BY BoundAssumption DEF Lease, LeaseIds
<1>4. node[t] # None => node[t].id \in NodeIds /\ node[t].id \in Nat
  BY BoundAssumption DEF TypeOK, LogicalNode, NodeIds
<1>5. QED
  BY <1>2, <1>3, <1>4

\* The node of a created VM has an id below nextNode.
LEMMA BornNodes ==
  ASSUME TypeOK, BornOk
  PROVE  \A v \in VmIds : born[v] # None =>
           born[v].node \in NodeIds /\ born[v].node \in Nat /\ born[v].node < nextNode
<1>1. \A v \in VmIds : born[v] # None => born[v] \in VirtualMachine
  BY DEF TypeOK
<1>2. QED
  BY <1>1, VmFields, BoundAssumption DEF BornOk, NodeIds

\* Copies of created VMs stay copies when another VM is created.
LEMMA CopyKept ==
  ASSUME TypeOK, BornOk, nextVm \in VmIds, NEW new,
         born' = [born EXCEPT ![nextVm] = new]
  PROVE  \A x \in VirtualMachine : CopyOfBorn(x) => CopyOfBorn(x)'
<1>1. born[nextVm] = None
  BY BoundAssumption DEF BornOk, VmIds
<1>2. \A x \in VirtualMachine : x.id \in VmIds
  BY VmFields
<1>3. \A v \in VmIds : v # nextVm => born'[v] = born[v]
  BY DEF TypeOK
<1>4. QED
  BY <1>1, <1>2, <1>3 DEF CopyOfBorn

\* NodesExclusive survives a step that plans a node and hands it out or not.
LEMMA ExclusiveMonotone ==
  ASSUME TypeOK, LocalsOk, BornOk, NodesExclusive,
         nextNode \in NodeIds, nextNode' = nextNode + 1,
         NEW participants,
         handed' = [handed EXCEPT ![nextNode] = participants] \/ UNCHANGED handed,
         UNCHANGED <<pc, node, born>>
  PROVE  NodesExclusive'
<1>1. \A v \in VmIds : born[v] # None => born[v].node \in NodeIds /\ born[v].node # nextNode
  BY BornNodes, BoundAssumption DEF TypeOK
<1>2. \A t \in Threads : pc[t] = "leased" =>
        /\ node[t].id \in NodeIds /\ node[t].id \in Nat
        /\ node[t].id < nextNode /\ node[t].id # nextNode
  BY LocalFields, BoundAssumption DEF TypeOK, LocalsOk, NodesExclusive
<1>3. nextNode \in Nat /\ \A n \in NodeIds : n \in Nat
  BY DEF NodeIds
<1>4. \A n \in NodeIds : n # nextNode => handed'[n] = handed[n]
  BY DEF TypeOK
<1>5. \A n \in NodeIds : handed'[n] # None => n < nextNode'
  <2> SUFFICES ASSUME NEW n \in NodeIds, handed'[n] # None PROVE n < nextNode + 1
    OBVIOUS
  <2>1. CASE n = nextNode
    BY <1>3, <2>1
  <2>2. CASE n # nextNode
    BY <1>3, <1>4, <2>2 DEF NodesExclusive
  <2>3. QED
    BY <2>1, <2>2
<1>6. \A v, w \in VmIds : Leased(v)' =>
        /\ handed'[born[v].node] = None
        /\ v # w /\ born[w] # None => born[w].node # born[v].node
  BY <1>1, <1>4 DEF NodesExclusive, Leased
<1>7. \A t \in Threads : pc[t] = "leased" =>
        node[t].id < nextNode' /\ handed'[node[t].id] = None
  BY <1>2, <1>3, <1>4 DEF NodesExclusive
<1>8. QED
  BY <1>5, <1>6, <1>7 DEF NodesExclusive

\* Every step preserves CopiesOk.
LEMMA CopiesStep ==
  ASSUME IInv, [Next]_vars
  PROVE  CopiesOk'
<1>1. ASSUME NEW t \in Threads, NEW participants \in Plans,
             CreateLogicalNode(t, participants)
      PROVE  CopiesOk'
  BY <1>1
  DEF IInv, TypeOK, LocalsOk, CopiesOk, CopyOfBorn, CreateLogicalNode,
      registries, callers, ids, locals, history
<1>2. ASSUME NEW t \in Threads, NEW participants \in Plans,
             NEW created \in CallTimes, NEW duration \in Durations,
             \/ CreateLeasedLogicalNode(t, participants, created, duration)
             \/ CreateLeasedWithBadRuntime(t, participants, created, duration)
      PROVE  CopiesOk'
  BY <1>2
  DEF IInv, TypeOK, LocalsOk, CopiesOk, CopyOfBorn, CreateLeasedLogicalNode,
      StoreLeases, CreateLeasedWithBadRuntime, registries, callers, ids,
      locals, history
<1>3. ASSUME NEW t \in Threads, NEW participants \in Plans, NEW runtime \in Runtimes,
             NEW created \in CallTimes, NEW duration \in Durations,
             CreateLeasedVm(t, participants, runtime, created, duration)
      PROVE  CopiesOk'
  BY <1>3
  DEF IInv, TypeOK, LocalsOk, CopiesOk, CopyOfBorn, CreateLeasedVm,
      StoreLeases, Goto, registries, callers, ids, locals, history
<1>4. ASSUME NEW t \in Threads, NEW id \in NodeIds, NEW runtime \in Runtimes \cup {BadRuntime},
             NEW created \in CallTimes, CreateVm(t, id, runtime, created)
      PROVE  CopiesOk'
  <2> DEFINE n == [id |-> id, participants |-> handed[id], runtime |-> runtime]
             new == NewVm(nextVm, n, <<>>)
  <2>1. /\ nextVm \in VmIds
        /\ born' = [born EXCEPT ![nextVm] = new]
        /\ vm' = [vm EXCEPT ![t] = new]
        /\ pc' = [pc EXCEPT ![t] = "registered"]
        /\ UNCHANGED <<virtual_machines, removed>>
    BY <1>4 DEF CreateVm, RegisterNode, Goto
  <2>2. new.id = nextVm
    BY DEF NewVm
  <2>3. new \in VirtualMachine
    <3>1. n \in LogicalNode
      BY <1>4 DEF IInv, TypeOK, CreateVm, LogicalNode
    <3>2. ValidNode(n) /\ <<>> \in Seq(Lease)
      BY <1>4 DEF CreateVm
    <3> HIDE DEF n
    <3>3. QED
      BY <2>1, <3>1, <3>2, NewVmType
  <2> HIDE DEF new
  <2>4. \A x \in VirtualMachine : CopyOfBorn(x) => CopyOfBorn(x)'
    BY <2>1, CopyKept DEF IInv
  <2>5. new # None /\ born'[nextVm] = new /\ vm'[t] = new
    BY <2>1, <2>3, NoneAssumption DEF IInv, TypeOK
  <2>6. \A u \in Threads \ {t} : vm'[u] = vm[u] /\ pc'[u] = pc[u]
    BY <2>1 DEF IInv, TypeOK
  <2>7. \A u \in Threads : vm'[u] # None => CopyOfBorn(vm[u])'
    <3>1. CopyOfBorn(vm[t])'
      BY <2>2, <2>5 DEF CopyOfBorn
    <3>2. ASSUME NEW u \in Threads \ {t}, vm[u] # None
          PROVE  CopyOfBorn(vm[u])'
      <4>1. vm[u] \in VirtualMachine /\ CopyOfBorn(vm[u])
        BY <3>2 DEF IInv, TypeOK, CopiesOk
      <4>2. QED
        BY <2>4, <2>6, <4>1 DEF CopyOfBorn
    <3>3. QED
      BY <2>6, <3>1, <3>2
  <2>8. \A v \in VmIds : virtual_machines[v] # None =>
          virtual_machines[v].id = v /\ CopyOfBorn(virtual_machines[v])'
    BY <2>1, <2>4 DEF IInv, TypeOK, CopiesOk, CopyOfBorn
  <2>9. \A u \in Threads : pc'[u] \in {"release", "unregister"} /\ vm'[u] # None =>
          vm'[u].id \in removed'
    BY <2>1, <2>6 DEF IInv, TypeOK, CopiesOk
  <2>10. QED
    BY <2>1, <2>7, <2>8, <2>9 DEF CopiesOk
<1>5. ASSUME NEW t \in Threads, BuildLeasedVm(t)
      PROVE  CopiesOk'
  <2> DEFINE new == NewVm(nextVm, node[t], batch[t])
  <2>1. /\ nextVm \in VmIds
        /\ born' = [born EXCEPT ![nextVm] = new]
        /\ vm' = [vm EXCEPT ![t] = new]
        /\ pc' = [pc EXCEPT ![t] = "registered"]
        /\ UNCHANGED <<virtual_machines, removed>>
    BY <1>5 DEF BuildLeasedVm, RegisterNode, Goto
  <2>2. new.id = nextVm
    BY DEF NewVm
  <2>3. new \in VirtualMachine
    <3>1. node[t] \in LogicalNode /\ batch[t] \in Seq(Lease) /\ ValidNode(node[t])
      BY <1>5 DEF IInv, TypeOK, LocalsOk, BuildLeasedVm
    <3>2. QED
      BY <2>1, <3>1, NewVmType
  <2> HIDE DEF new
  <2>4. \A x \in VirtualMachine : CopyOfBorn(x) => CopyOfBorn(x)'
    BY <2>1, CopyKept DEF IInv
  <2>5. new # None /\ born'[nextVm] = new /\ vm'[t] = new
    BY <2>1, <2>3, NoneAssumption DEF IInv, TypeOK
  <2>6. \A u \in Threads \ {t} : vm'[u] = vm[u] /\ pc'[u] = pc[u]
    BY <2>1 DEF IInv, TypeOK
  <2>7. \A u \in Threads : vm'[u] # None => CopyOfBorn(vm[u])'
    <3>1. CopyOfBorn(vm[t])'
      BY <2>2, <2>5 DEF CopyOfBorn
    <3>2. ASSUME NEW u \in Threads \ {t}, vm[u] # None
          PROVE  CopyOfBorn(vm[u])'
      <4>1. vm[u] \in VirtualMachine /\ CopyOfBorn(vm[u])
        BY <3>2 DEF IInv, TypeOK, CopiesOk
      <4>2. QED
        BY <2>4, <2>6, <4>1 DEF CopyOfBorn
    <3>3. QED
      BY <2>6, <3>1, <3>2
  <2>8. \A v \in VmIds : virtual_machines[v] # None =>
          virtual_machines[v].id = v /\ CopyOfBorn(virtual_machines[v])'
    BY <2>1, <2>4 DEF IInv, TypeOK, CopiesOk, CopyOfBorn
  <2>9. \A u \in Threads : pc'[u] \in {"release", "unregister"} /\ vm'[u] # None =>
          vm'[u].id \in removed'
    BY <2>1, <2>6 DEF IInv, TypeOK, CopiesOk
  <2>10. QED
    BY <2>1, <2>7, <2>8, <2>9 DEF CopiesOk
<1>6. ASSUME NEW t \in Threads, RollBack(t)
      PROVE  CopiesOk'
  BY <1>6
  DEF IInv, TypeOK, LocalsOk, CopiesOk, CopyOfBorn, RollBack, Return, Goto,
      registries, callers, ids, locals, history
<1>7. ASSUME NEW t \in Threads, RegisterVm(t)
      PROVE  CopiesOk'
  BY <1>7
  DEF IInv, TypeOK, LocalsOk, CopiesOk, CopyOfBorn, RegisterVm, Return,
      Goto, registries, callers, ids, locals, history
<1>8. ASSUME NEW t \in Threads, NEW id \in VmIds, StartVm(t, id)
      PROVE  CopiesOk'
  BY <1>8
  DEF IInv, TypeOK, LocalsOk, CopiesOk, CopyOfBorn, StartVm, Update, start,
      registries, callers, ids, locals, history
<1>9. ASSUME NEW t \in Threads, NEW id \in VmIds, StopVm(t, id)
      PROVE  CopiesOk'
  BY <1>9
  DEF IInv, TypeOK, LocalsOk, CopiesOk, CopyOfBorn, StopVm, Update, stop,
      registries, callers, ids, locals, history
<1>10. ASSUME NEW t \in Threads, NEW id \in NodeIds, NEW i \in DOMAIN granted[id],
             ReleaseLease(t, granted[id][i])
      PROVE  CopiesOk'
  BY <1>10
  DEF IInv, TypeOK, LocalsOk, CopiesOk, CopyOfBorn, ReleaseLease,
      registries, callers, ids, locals, history
<1>11. ASSUME NEW t \in Threads, NEW id \in NodeIds, ReleaseLeases(t, granted[id])
      PROVE  CopiesOk'
  BY <1>11
  DEF IInv, TypeOK, LocalsOk, CopiesOk, CopyOfBorn, ReleaseLeases, Goto,
      registries, callers, ids, locals, history
<1>12. ASSUME NEW t \in Threads, NEW id \in VmIds, DestroyVm(t, id)
      PROVE  CopiesOk'
  BY <1>12
  DEF IInv, TypeOK, LocalsOk, CopiesOk, CopyOfBorn, DestroyVm, Goto,
      registries, callers, ids, locals, history
<1>13. ASSUME NEW t \in Threads, ReleaseNext(t)
      PROVE  CopiesOk'
  <2>1. /\ UNCHANGED <<virtual_machines, born, removed>>
        /\ vm'[t] \in {vm[t], None}
        /\ pc'[t] \in {"release", "unregister"} => vm'[t] = vm[t]
        /\ \A u \in Threads \ {t} : pc'[u] = pc[u] /\ vm'[u] = vm[u]
    BY <1>13 DEF IInv, TypeOK, ReleaseNext, Return, Goto, locals
  <2>2. pc[t] = "release"
    BY <1>13 DEF ReleaseNext
  <2>3. QED
    BY <2>1, <2>2 DEF IInv, CopiesOk, CopyOfBorn
<1>14. ASSUME NEW t \in Threads, ReleaseFails(t)
      PROVE  CopiesOk'
  BY <1>14
  DEF IInv, TypeOK, LocalsOk, CopiesOk, CopyOfBorn, ReleaseFails, Return,
      Goto, registries, callers, ids, locals, history
<1>15. ASSUME NEW t \in Threads, UnregisterNode(t)
      PROVE  CopiesOk'
  BY <1>15
  DEF IInv, TypeOK, LocalsOk, CopiesOk, CopyOfBorn, UnregisterNode, Return,
      Goto, registries, callers, ids, locals, history
<1>16. ASSUME NEW t \in Threads, NEW id \in VmIds, ReadVm(t, id)
      PROVE  CopiesOk'
  BY <1>16
  DEF IInv, TypeOK, LocalsOk, CopiesOk, CopyOfBorn, ReadVm, Goto,
      registries, callers, ids, locals, history
<1>17. ASSUME NEW t \in Threads, ReadNode(t)
      PROVE  CopiesOk'
  <2>1. /\ UNCHANGED <<virtual_machines, born, removed>>
        /\ pc'[t] \in {"idle", "execute"} /\ vm'[t] \in {vm[t], None}
        /\ \A u \in Threads \ {t} : pc'[u] = pc[u] /\ vm'[u] = vm[u]
    BY <1>17 DEF IInv, TypeOK, ReadNode, Return, Goto, registries, history
  <2>2. QED
    BY <2>1 DEF IInv, CopiesOk, CopyOfBorn
<1>18. ASSUME NEW t \in Threads, NEW time \in Clock, NEW named \in BOOLEAN,
             ExecuteAt(t, time, named)
      PROVE  CopiesOk'
  BY <1>18
  DEF IInv, TypeOK, LocalsOk, CopiesOk, CopyOfBorn, ExecuteAt, Goto,
      registries, callers, ids, locals, history
<1>19. ASSUME NEW t \in Threads, NEW ok \in BOOLEAN, BackendReturns(t, ok)
      PROVE  CopiesOk'
  BY <1>19
  DEF IInv, TypeOK, LocalsOk, CopiesOk, CopyOfBorn, BackendReturns, Goto,
      registries, callers, ids, locals, history
<1>20. ASSUME NEW t \in Threads, BackendPanics(t)
      PROVE  CopiesOk'
  BY <1>20
  DEF IInv, TypeOK, LocalsOk, CopiesOk, CopyOfBorn, BackendPanics, Return,
      Goto, registries, callers, ids, locals, history
<1>21. ASSUME NEW t \in Threads, WriteBack(t)
      PROVE  CopiesOk'
  BY <1>21
  DEF IInv, TypeOK, LocalsOk, CopiesOk, CopyOfBorn, WriteBack, Return, Goto,
      registries, callers, ids, locals, history
<1>22. CASE UNCHANGED vars
  BY <1>22 DEF IInv, TypeOK, LocalsOk, CopiesOk, CopyOfBorn, vars, registries, callers, ids, locals, history
<1>23. QED
  BY <1>1, <1>2, <1>3, <1>4, <1>5, <1>6, <1>7, <1>8, <1>9, <1>10, <1>11,
     <1>12, <1>13, <1>14, <1>15, <1>16, <1>17, <1>18, <1>19, <1>20, <1>21,
     <1>22
  DEF Next, Create, CallOnNode, CallOnVm, Continue, Backend

\* Every step preserves PendingOk.
LEMMA PendingStep ==
  ASSUME IInv, [Next]_vars
  PROVE  PendingOk'
<1>1. ASSUME NEW t \in Threads, NEW participants \in Plans,
             CreateLogicalNode(t, participants)
      PROVE  PendingOk'
  BY <1>1
  DEF IInv, TypeOK, PendingOk, CreateLogicalNode, registries, callers, ids,
      locals, history
<1>2. ASSUME NEW t \in Threads, NEW participants \in Plans,
             NEW created \in CallTimes, NEW duration \in Durations,
             CreateLeasedLogicalNode(t, participants, created, duration)
      PROVE  PendingOk'
  <2>1. PICK list : StoreLeases(list, participants, created, duration)
    BY <1>2 DEF CreateLeasedLogicalNode
  <2>2. nextLease <= nextLease' /\ nextLease \in Nat /\ nextLease' \in Nat
    BY <2>1, StoreLeasesEffect, BoundAssumption DEF IInv, TypeOK
  <2>3. UNCHANGED <<pc, node, batch>>
    BY <1>2 DEF CreateLeasedLogicalNode, locals
  <2>4. QED
    BY <2>2, <2>3, LocalFields DEF IInv, PendingOk
<1>3. ASSUME NEW t \in Threads, NEW participants \in Plans,
             NEW created \in CallTimes, NEW duration \in Durations,
             CreateLeasedWithBadRuntime(t, participants, created, duration)
      PROVE  PendingOk'
  <2>1. PICK list : StoreLeases(list, participants, created, duration)
    BY <1>3 DEF CreateLeasedWithBadRuntime
  <2>2. nextLease <= nextLease' /\ nextLease \in Nat /\ nextLease' \in Nat
    BY <2>1, StoreLeasesEffect, BoundAssumption DEF IInv, TypeOK
  <2>3. UNCHANGED <<pc, node, batch>>
    BY <1>3 DEF CreateLeasedWithBadRuntime, locals
  <2>4. QED
    BY <2>2, <2>3, LocalFields DEF IInv, PendingOk
<1>4. ASSUME NEW t \in Threads, NEW participants \in Plans, NEW runtime \in Runtimes,
             NEW created \in CallTimes, NEW duration \in Durations,
             CreateLeasedVm(t, participants, runtime, created, duration)
      PROVE  PendingOk'
  <2> DEFINE list == NewLeases(nextNode, participants, nextLease, created, duration)
             n == [id |-> nextNode, participants |-> participants, runtime |-> runtime]
  <2>1. StoreLeases(list, participants, created, duration)
    BY <1>4 DEF CreateLeasedVm
  <2>2. /\ pc' = [pc EXCEPT ![t] = "leased"]
        /\ node' = [node EXCEPT ![t] = n]
        /\ batch' = [batch EXCEPT ![t] = list]
    BY <1>4 DEF CreateLeasedVm, Goto
  <2>3. n.participants = participants
    OBVIOUS
  <2> HIDE DEF list, n
  <2>4. /\ nextLease <= nextLease' /\ nextLease \in Nat /\ nextLease' \in Nat
        /\ Len(list) = Len(participants)
        /\ \A i \in 1..Len(list) : /\ list[i].id < nextLease'
                                   /\ list[i].participant = participants[i]
    BY <2>1, StoreLeasesEffect, BoundAssumption, SMTT(30) DEF IInv, TypeOK
  <2>5. /\ node'[t] = n /\ batch'[t] = list
        /\ \A u \in Threads \ {t} : pc'[u] = pc[u] /\ node'[u] = node[u] /\ batch'[u] = batch[u]
    BY <2>2 DEF IInv, TypeOK
  <2>6. \A u \in Threads \ {t} : pc'[u] = "leased" =>
          /\ Len(batch'[u]) = Len(node'[u].participants)
          /\ \A i \in 1..Len(batch'[u]) :
               /\ batch'[u][i].participant = node'[u].participants[i]
               /\ batch'[u][i].id < nextLease'
    BY <2>4, <2>5, LocalFields, SMTT(30) DEF IInv, PendingOk
  <2>7. QED
    BY <2>3, <2>4, <2>5, <2>6 DEF PendingOk
<1>5. ASSUME NEW t \in Threads, NEW id \in NodeIds, NEW runtime \in Runtimes \cup {BadRuntime},
             NEW created \in CallTimes,
             CreateVm(t, id, runtime, created)
      PROVE  PendingOk'
  BY <1>5
  DEF IInv, TypeOK, PendingOk, CreateVm, RegisterNode, NewVm, Goto,
      registries, callers, ids, locals, history
<1>6. ASSUME NEW t \in Threads, BuildLeasedVm(t)
      PROVE  PendingOk'
  BY <1>6
  DEF IInv, TypeOK, PendingOk, BuildLeasedVm, RegisterNode, NewVm, Goto,
      registries, callers, ids, locals, history
<1>7. ASSUME NEW t \in Threads, RollBack(t)
      PROVE  PendingOk'
  BY <1>7
  DEF IInv, TypeOK, PendingOk, RollBack, Return, Goto, registries, callers,
      ids, locals, history
<1>8. ASSUME NEW t \in Threads, RegisterVm(t)
      PROVE  PendingOk'
  BY <1>8
  DEF IInv, TypeOK, PendingOk, RegisterVm, Return, Goto, registries,
      callers, ids, locals, history
<1>9. ASSUME NEW t \in Threads, NEW id \in VmIds, StartVm(t, id)
      PROVE  PendingOk'
  BY <1>9
  DEF IInv, TypeOK, PendingOk, StartVm, Update, start, registries, callers,
      ids, locals, history
<1>10. ASSUME NEW t \in Threads, NEW id \in VmIds, StopVm(t, id)
      PROVE  PendingOk'
  BY <1>10
  DEF IInv, TypeOK, PendingOk, StopVm, Update, stop, registries, callers,
      ids, locals, history
<1>11. ASSUME NEW t \in Threads, NEW id \in NodeIds, NEW i \in DOMAIN granted[id],
             ReleaseLease(t, granted[id][i])
      PROVE  PendingOk'
  BY <1>11
  DEF IInv, TypeOK, PendingOk, ReleaseLease, registries, callers, ids,
      locals, history
<1>12. ASSUME NEW t \in Threads, NEW id \in NodeIds, ReleaseLeases(t, granted[id])
      PROVE  PendingOk'
  BY <1>12
  DEF IInv, TypeOK, PendingOk, ReleaseLeases, Goto, registries, callers,
      ids, locals, history
<1>13. ASSUME NEW t \in Threads, NEW id \in VmIds, DestroyVm(t, id)
      PROVE  PendingOk'
  BY <1>13
  DEF IInv, TypeOK, PendingOk, DestroyVm, Goto, registries, callers, ids,
      locals, history
<1>14. ASSUME NEW t \in Threads, ReleaseNext(t)
      PROVE  PendingOk'
  BY <1>14
  DEF IInv, TypeOK, PendingOk, ReleaseNext, Return, Goto, registries,
      callers, ids, locals, history
<1>15. ASSUME NEW t \in Threads, ReleaseFails(t)
      PROVE  PendingOk'
  BY <1>15
  DEF IInv, TypeOK, PendingOk, ReleaseFails, Return, Goto, registries,
      callers, ids, locals, history
<1>16. ASSUME NEW t \in Threads, UnregisterNode(t)
      PROVE  PendingOk'
  BY <1>16
  DEF IInv, TypeOK, PendingOk, UnregisterNode, Return, Goto, registries,
      callers, ids, locals, history
<1>17. ASSUME NEW t \in Threads, NEW id \in VmIds, ReadVm(t, id)
      PROVE  PendingOk'
  BY <1>17
  DEF IInv, TypeOK, PendingOk, ReadVm, Goto, registries, callers, ids,
      locals, history
<1>18. ASSUME NEW t \in Threads, ReadNode(t)
      PROVE  PendingOk'
  <2>1. /\ UNCHANGED nextLease
        /\ pc'[t] \in {"idle", "execute"}
        /\ \A u \in Threads \ {t} : pc'[u] = pc[u] /\ node'[u] = node[u] /\ batch'[u] = batch[u]
    BY <1>18 DEF IInv, TypeOK, ReadNode, Return, Goto, ids
  <2>2. QED
    BY <2>1 DEF IInv, PendingOk
<1>19. ASSUME NEW t \in Threads, NEW time \in Clock, NEW named \in BOOLEAN,
             ExecuteAt(t, time, named)
      PROVE  PendingOk'
  BY <1>19
  DEF IInv, TypeOK, PendingOk, ExecuteAt, Goto, registries, callers, ids,
      locals, history
<1>20. ASSUME NEW t \in Threads, NEW ok \in BOOLEAN, BackendReturns(t, ok)
      PROVE  PendingOk'
  BY <1>20
  DEF IInv, TypeOK, PendingOk, BackendReturns, Goto, registries, callers,
      ids, locals, history
<1>21. ASSUME NEW t \in Threads, BackendPanics(t)
      PROVE  PendingOk'
  BY <1>21
  DEF IInv, TypeOK, PendingOk, BackendPanics, Return, Goto, registries,
      callers, ids, locals, history
<1>22. ASSUME NEW t \in Threads, WriteBack(t)
      PROVE  PendingOk'
  BY <1>22
  DEF IInv, TypeOK, PendingOk, WriteBack, Return, Goto, registries, callers,
      ids, locals, history
<1>23. CASE UNCHANGED vars
  BY <1>23 DEF IInv, TypeOK, PendingOk, vars, registries, callers, ids, locals, history
<1>24. QED
  BY <1>1, <1>2, <1>3, <1>4, <1>5, <1>6, <1>7, <1>8, <1>9, <1>10, <1>11,
     <1>12, <1>13, <1>14, <1>15, <1>16, <1>17, <1>18, <1>19, <1>20, <1>21,
     <1>22, <1>23
  DEF Next, Create, CallOnNode, CallOnVm, Continue, Backend

\* Every step preserves NodesExclusive.
LEMMA ExclusiveStep ==
  ASSUME IInv, [Next]_vars
  PROVE  NodesExclusive'
<1>1. ASSUME NEW t \in Threads, NEW participants \in Plans,
             CreateLogicalNode(t, participants)
      PROVE  NodesExclusive'
  <2>1. /\ nextNode \in NodeIds /\ nextNode' = nextNode + 1
        /\ handed' = [handed EXCEPT ![nextNode] = participants]
        /\ UNCHANGED <<pc, node, born>>
    BY <1>1 DEF CreateLogicalNode, locals, history
  <2>2. QED
    BY <2>1, ExclusiveMonotone DEF IInv
<1>2. ASSUME NEW t \in Threads, NEW participants \in Plans,
             NEW created \in CallTimes, NEW duration \in Durations,
             CreateLeasedLogicalNode(t, participants, created, duration)
      PROVE  NodesExclusive'
  <2>1. /\ nextNode \in NodeIds /\ nextNode' = nextNode + 1
        /\ handed' = [handed EXCEPT ![nextNode] = participants]
        /\ UNCHANGED <<pc, node, born>>
    BY <1>2 DEF CreateLeasedLogicalNode, StoreLeases, locals, history
  <2>2. QED
    BY <2>1, ExclusiveMonotone DEF IInv
<1>3. ASSUME NEW t \in Threads, NEW participants \in Plans,
             NEW created \in CallTimes, NEW duration \in Durations,
             CreateLeasedWithBadRuntime(t, participants, created, duration)
      PROVE  NodesExclusive'
  <2>1. /\ nextNode \in NodeIds /\ nextNode' = nextNode + 1
        /\ UNCHANGED handed
        /\ UNCHANGED <<pc, node, born>>
    BY <1>3 DEF CreateLeasedWithBadRuntime, StoreLeases, callers, locals, history
  <2>2. QED
    BY <2>1, ExclusiveMonotone DEF IInv
<1>4. ASSUME NEW t \in Threads, NEW participants \in Plans, NEW runtime \in Runtimes,
             NEW created \in CallTimes, NEW duration \in Durations,
             CreateLeasedVm(t, participants, runtime, created, duration)
      PROVE  NodesExclusive'
  <2> DEFINE n == [id |-> nextNode, participants |-> participants, runtime |-> runtime]
  <2>1. /\ nextNode \in NodeIds /\ nextNode' = nextNode + 1
        /\ pc' = [pc EXCEPT ![t] = "leased"]
        /\ node' = [node EXCEPT ![t] = n]
        /\ UNCHANGED <<handed, born>>
    BY <1>4 DEF CreateLeasedVm, StoreLeases, Goto, callers, history
  <2>2. n.id = nextNode
    OBVIOUS
  <2> HIDE DEF n
  <2>3. nextNode \in Nat /\ handed[nextNode] = None
    BY <2>1, BoundAssumption DEF IInv, NodesExclusive, NodeIds
  <2>4. /\ pc'[t] = "leased" /\ node'[t] = n
        /\ \A u \in Threads \ {t} : pc'[u] = pc[u] /\ node'[u] = node[u]
    BY <2>1 DEF IInv, TypeOK
  <2>5. \A v \in VmIds : born[v] # None => born[v].node # nextNode
    BY <2>3, BornNodes DEF IInv
  <2>6. \A u \in Threads : pc[u] = "leased" =>
          node[u].id \in Nat /\ node[u].id < nextNode /\ node[u].id # nextNode
    BY <2>3, LocalFields DEF IInv, LocalsOk, NodesExclusive
  <2>7. \A u \in Threads : pc'[u] = "leased" =>
          /\ node'[u].id < nextNode'
          /\ handed[node'[u].id] = None
          /\ \A v \in VmIds : born[v] # None => born[v].node # node'[u].id
    BY <2>1, <2>2, <2>3, <2>4, <2>5, <2>6 DEF IInv, NodesExclusive
  <2>8. \A u, w \in Threads : u # w /\ pc'[u] = "leased" /\ pc'[w] = "leased" =>
          node'[u].id # node'[w].id
    BY <2>2, <2>4, <2>6 DEF IInv, NodesExclusive
  <2>9. \A k \in NodeIds : handed[k] # None => k < nextNode'
    BY <2>1, <2>3 DEF IInv, NodesExclusive, NodeIds
  <2>10. QED
    BY <2>1, <2>7, <2>8, <2>9 DEF IInv, NodesExclusive, Leased
<1>5. ASSUME NEW t \in Threads, NEW id \in NodeIds, NEW runtime \in Runtimes \cup {BadRuntime},
             NEW created \in CallTimes,
             CreateVm(t, id, runtime, created)
      PROVE  NodesExclusive'
  BY <1>5
  DEF IInv, TypeOK, NodesExclusive, Leased, CreateVm, RegisterNode, NewVm,
      Goto, registries, callers, ids, locals, history
<1>6. ASSUME NEW t \in Threads, BuildLeasedVm(t)
      PROVE  NodesExclusive'
  BY <1>6
  DEF IInv, TypeOK, NodesExclusive, Leased, BuildLeasedVm, RegisterNode,
      NewVm, Goto, registries, callers, ids, locals, history
<1>7. ASSUME NEW t \in Threads, RollBack(t)
      PROVE  NodesExclusive'
  BY <1>7
  DEF IInv, TypeOK, NodesExclusive, Leased, RollBack, Return, Goto,
      registries, callers, ids, locals, history
<1>8. ASSUME NEW t \in Threads, RegisterVm(t)
      PROVE  NodesExclusive'
  BY <1>8
  DEF IInv, TypeOK, NodesExclusive, Leased, RegisterVm, Return, Goto,
      registries, callers, ids, locals, history
<1>9. ASSUME NEW t \in Threads, NEW id \in VmIds, StartVm(t, id)
      PROVE  NodesExclusive'
  BY <1>9
  DEF IInv, TypeOK, NodesExclusive, Leased, StartVm, Update, start,
      registries, callers, ids, locals, history
<1>10. ASSUME NEW t \in Threads, NEW id \in VmIds, StopVm(t, id)
      PROVE  NodesExclusive'
  BY <1>10
  DEF IInv, TypeOK, NodesExclusive, Leased, StopVm, Update, stop,
      registries, callers, ids, locals, history
<1>11. ASSUME NEW t \in Threads, NEW id \in NodeIds, NEW i \in DOMAIN granted[id],
             ReleaseLease(t, granted[id][i])
      PROVE  NodesExclusive'
  BY <1>11
  DEF IInv, TypeOK, NodesExclusive, Leased, ReleaseLease, registries,
      callers, ids, locals, history
<1>12. ASSUME NEW t \in Threads, NEW id \in NodeIds, ReleaseLeases(t, granted[id])
      PROVE  NodesExclusive'
  BY <1>12
  DEF IInv, TypeOK, NodesExclusive, Leased, ReleaseLeases, Goto, registries,
      callers, ids, locals, history
<1>13. ASSUME NEW t \in Threads, NEW id \in VmIds, DestroyVm(t, id)
      PROVE  NodesExclusive'
  BY <1>13
  DEF IInv, TypeOK, NodesExclusive, Leased, DestroyVm, Goto, registries,
      callers, ids, locals, history
<1>14. ASSUME NEW t \in Threads, ReleaseNext(t)
      PROVE  NodesExclusive'
  <2>1. /\ UNCHANGED <<handed, nextNode, born>>
        /\ \A u \in Threads : pc'[u] = "leased" => pc[u] = "leased" /\ node'[u] = node[u]
    BY <1>14 DEF IInv, TypeOK, ReleaseNext, Return, Goto, callers, ids, locals, history
  <2>2. QED
    BY <2>1 DEF IInv, NodesExclusive, Leased
<1>15. ASSUME NEW t \in Threads, ReleaseFails(t)
      PROVE  NodesExclusive'
  BY <1>15
  DEF IInv, TypeOK, NodesExclusive, Leased, ReleaseFails, Return, Goto,
      registries, callers, ids, locals, history
<1>16. ASSUME NEW t \in Threads, UnregisterNode(t)
      PROVE  NodesExclusive'
  BY <1>16
  DEF IInv, TypeOK, NodesExclusive, Leased, UnregisterNode, Return, Goto,
      registries, callers, ids, locals, history
<1>17. ASSUME NEW t \in Threads, NEW id \in VmIds, ReadVm(t, id)
      PROVE  NodesExclusive'
  BY <1>17
  DEF IInv, TypeOK, NodesExclusive, Leased, ReadVm, Goto, registries,
      callers, ids, locals, history
<1>18. ASSUME NEW t \in Threads, ReadNode(t)
      PROVE  NodesExclusive'
  <2>1. /\ UNCHANGED <<handed, nextNode, born>>
        /\ \A u \in Threads : pc'[u] = "leased" => pc[u] = "leased" /\ node'[u] = node[u]
    BY <1>18 DEF IInv, TypeOK, ReadNode, Return, Goto, callers, ids, locals, history
  <2>2. QED
    BY <2>1 DEF IInv, NodesExclusive, Leased
<1>19. ASSUME NEW t \in Threads, NEW time \in Clock, NEW named \in BOOLEAN,
             ExecuteAt(t, time, named)
      PROVE  NodesExclusive'
  BY <1>19
  DEF IInv, TypeOK, NodesExclusive, Leased, ExecuteAt, Goto, registries,
      callers, ids, locals, history
<1>20. ASSUME NEW t \in Threads, NEW ok \in BOOLEAN, BackendReturns(t, ok)
      PROVE  NodesExclusive'
  BY <1>20
  DEF IInv, TypeOK, NodesExclusive, Leased, BackendReturns, Goto,
      registries, callers, ids, locals, history
<1>21. ASSUME NEW t \in Threads, BackendPanics(t)
      PROVE  NodesExclusive'
  BY <1>21
  DEF IInv, TypeOK, NodesExclusive, Leased, BackendPanics, Return, Goto,
      registries, callers, ids, locals, history
<1>22. ASSUME NEW t \in Threads, WriteBack(t)
      PROVE  NodesExclusive'
  BY <1>22
  DEF IInv, TypeOK, NodesExclusive, Leased, WriteBack, Return, Goto,
      registries, callers, ids, locals, history
<1>23. CASE UNCHANGED vars
  BY <1>23 DEF IInv, TypeOK, NodesExclusive, Leased, vars, registries, callers, ids, locals, history
<1>24. QED
  BY <1>1, <1>2, <1>3, <1>4, <1>5, <1>6, <1>7, <1>8, <1>9, <1>10, <1>11,
     <1>12, <1>13, <1>14, <1>15, <1>16, <1>17, <1>18, <1>19, <1>20, <1>21,
     <1>22, <1>23
  DEF Next, Create, CallOnNode, CallOnVm, Continue, Backend

\* What a step may do to the history: a created VM is recorded once and for all,
\* and only UnregisterNode finishes a destroy call.
HistoryKept ==
  /\ \A v \in VmIds : born[v] # None => born'[v] = born[v]
  /\ destroyed' = destroyed \/ \E t \in Threads : UnregisterNode(t)

\* Every step keeps the history in that sense.
LEMMA HistoryStep ==
  ASSUME IInv, [Next]_vars
  PROVE  HistoryKept
<1>1. ASSUME NEW t \in Threads, NEW participants \in Plans,
             CreateLogicalNode(t, participants)
      PROVE  HistoryKept
  BY <1>1
  DEF HistoryKept, CreateLogicalNode, registries, callers, ids, locals,
      history
<1>2. ASSUME NEW t \in Threads, NEW participants \in Plans,
             NEW created \in CallTimes, NEW duration \in Durations,
             \/ CreateLeasedLogicalNode(t, participants, created, duration)
             \/ CreateLeasedWithBadRuntime(t, participants, created, duration)
      PROVE  HistoryKept
  BY <1>2
  DEF HistoryKept, CreateLeasedLogicalNode, StoreLeases,
      CreateLeasedWithBadRuntime, registries, callers, ids, locals, history
<1>3. ASSUME NEW t \in Threads, NEW participants \in Plans, NEW runtime \in Runtimes,
             NEW created \in CallTimes, NEW duration \in Durations,
             CreateLeasedVm(t, participants, runtime, created, duration)
      PROVE  HistoryKept
  BY <1>3
  DEF HistoryKept, CreateLeasedVm, StoreLeases, Goto, registries, callers,
      ids, locals, history
<1>4. ASSUME NEW t \in Threads, NEW id \in NodeIds, NEW runtime \in Runtimes \cup {BadRuntime},
             NEW created \in CallTimes, CreateVm(t, id, runtime, created)
      PROVE  HistoryKept
  <2>1. \E new : born' = [born EXCEPT ![nextVm] = new]
    BY <1>4 DEF CreateVm, RegisterNode
  <2>2. nextVm \in VmIds /\ born[nextVm] = None /\ destroyed' = destroyed
    BY <1>4, BoundAssumption DEF IInv, BornOk, CreateVm, RegisterNode, VmIds
  <2>3. QED
    BY <2>1, <2>2 DEF IInv, TypeOK, HistoryKept
<1>5. ASSUME NEW t \in Threads, BuildLeasedVm(t)
      PROVE  HistoryKept
  <2>1. \E new : born' = [born EXCEPT ![nextVm] = new]
    BY <1>5 DEF BuildLeasedVm, RegisterNode
  <2>2. nextVm \in VmIds /\ born[nextVm] = None /\ destroyed' = destroyed
    BY <1>5, BoundAssumption DEF IInv, BornOk, BuildLeasedVm, RegisterNode, VmIds
  <2>3. QED
    BY <2>1, <2>2 DEF IInv, TypeOK, HistoryKept
<1>6. ASSUME NEW t \in Threads,
             \/ RollBack(t) \/ RegisterVm(t) \/ ReleaseNext(t)
             \/ ReleaseFails(t) \/ UnregisterNode(t) \/ ReadNode(t)
             \/ BackendPanics(t) \/ WriteBack(t)
      PROVE  HistoryKept
  BY <1>6
  DEF HistoryKept, RollBack, Return, Goto, RegisterVm, ReleaseNext,
      ReleaseFails, UnregisterNode, ReadNode, BackendPanics, WriteBack,
      registries, callers, ids, locals, history
<1>7. ASSUME NEW t \in Threads, NEW id \in VmIds,
             \/ StartVm(t, id) \/ StopVm(t, id) \/ DestroyVm(t, id)
             \/ ReadVm(t, id)
      PROVE  HistoryKept
  BY <1>7
  DEF HistoryKept, StartVm, Update, start, StopVm, stop, DestroyVm, Goto,
      ReadVm, registries, callers, ids, locals, history
<1>8. ASSUME NEW t \in Threads, NEW id \in NodeIds, NEW i \in DOMAIN granted[id],
             ReleaseLease(t, granted[id][i])
      PROVE  HistoryKept
  BY <1>8
  DEF HistoryKept, ReleaseLease, registries, callers, ids, locals, history
<1>9. ASSUME NEW t \in Threads, NEW id \in NodeIds, ReleaseLeases(t, granted[id])
      PROVE  HistoryKept
  BY <1>9
  DEF HistoryKept, ReleaseLeases, Goto, registries, callers, ids, locals,
      history
<1>10. ASSUME NEW t \in Threads, NEW time \in Clock, NEW named \in BOOLEAN,
             ExecuteAt(t, time, named)
      PROVE  HistoryKept
  BY <1>10
  DEF HistoryKept, ExecuteAt, Goto, registries, callers, ids, locals,
      history
<1>11. ASSUME NEW t \in Threads, NEW ok \in BOOLEAN, BackendReturns(t, ok)
      PROVE  HistoryKept
  BY <1>11
  DEF HistoryKept, BackendReturns, Goto, registries, callers, ids, locals,
      history
<1>12. CASE UNCHANGED vars
  BY <1>12 DEF HistoryKept, vars, registries, callers, ids, locals, history
<1>13. QED
  BY <1>1, <1>2, <1>3, <1>4, <1>5, <1>6, <1>7, <1>8, <1>9, <1>10, <1>11,
     <1>12
  DEF Next, Create, CallOnNode, CallOnVm, Continue, Backend

\* A lease of a created VM that has left the registry is still out after a step.
LEMMA GoneStays ==
  ASSUME IInv, [Next]_vars, NEW v \in VmIds, born[v] # None,
         NEW j \in 1..Len(born[v].leases), leases[born[v].leases[j].id] = None
  PROVE  leases'[born[v].leases[j].id] = None
<1>1. born[v] \in VirtualMachine
  BY DEF IInv, TypeOK
<1>2. born[v].leases[j].id \in LeaseIds /\ born[v].leases[j].id < nextLease
  BY <1>1, VmFields DEF IInv, BornOk
<1>3. QED
  BY <1>2, LeaseStep DEF IInv, LeaseEntriesKept

\* A step after which the threads that release leases stand where they stood.
LEMMA ReleaseKept ==
  ASSUME IInv, [Next]_vars,
         \A u \in Threads : pc'[u] \in {"release", "unregister"} =>
           pc'[u] = pc[u] /\ vm'[u] = vm[u] /\ pos'[u] = pos[u]
  PROVE  ReleaseOk'
<1> SUFFICES ASSUME NEW u \in Threads, pc'[u] \in {"release", "unregister"}, vm[u] # None,
                    NEW j \in Nat \ {0},
                    pc[u] = "release" => j < pos[u],
                    pc[u] = "unregister" => j <= Len(vm[u].leases)
             PROVE  leases'[vm[u].leases[j].id] = None
  <2>1. \A u \in Threads : pos[u] \in Nat
    BY DEF IInv, TypeOK
  <2>2. \A u \in Threads : pc[u] = "unregister" => vm[u] # None
    BY DEF IInv, LocalsOk
  <2>3. \A u \in Threads : vm[u] # None => Len(vm[u].leases) \in Nat
    BY VmFields DEF IInv, TypeOK
  <2>4. QED
    BY <2>1, <2>2, <2>3 DEF ReleaseOk
<1>1. vm[u] \in VirtualMachine /\ CopyOfBorn(vm[u])
  BY DEF IInv, TypeOK, CopiesOk
<1>2. vm[u].id \in VmIds /\ vm[u].leases = born[vm[u].id].leases /\ born[vm[u].id] # None
  BY <1>1, VmFields DEF CopyOfBorn
<1>3. leases[vm[u].leases[j].id] = None
  BY DEF IInv, ReleaseOk, TypeOK
<1>4. j \in 1..Len(vm[u].leases)
  BY VmFields, <1>1 DEF IInv, LocalsOk, TypeOK
<1>5. QED
  BY <1>2, <1>3, <1>4, GoneStays

\* The registered node of a leased VM is not touched by the creation of another VM.
LEMMA NodesRegistered ==
  ASSUME IInv, NEW t \in Threads, NEW n \in LogicalNode, NEW list \in Seq(Lease),
         RegisterNode(t, n, list), UNCHANGED <<node, removed>>,
         \A v \in VmIds : Leased(v) => born[v].node # n.id,
         list # <<>> => Backs(n, NewVm(nextVm, n, list))
  PROVE  NodesOk'
<1> DEFINE new == NewVm(nextVm, n, list)
<1>1. /\ nextVm \in VmIds
      /\ logical_nodes' = [logical_nodes EXCEPT ![n.id] = n]
      /\ born' = [born EXCEPT ![nextVm] = new]
      /\ vm' = [vm EXCEPT ![t] = new]
      /\ pc' = [pc EXCEPT ![t] = "registered"]
  BY DEF RegisterNode, Goto
<1>2. new.node = n.id /\ new.leases = list
  BY DEF NewVm
<1>3. n.id \in NodeIds /\ n # None
  BY NoneAssumption DEF LogicalNode
<1> HIDE DEF new
<1>4. /\ logical_nodes'[n.id] = n
      /\ \A k \in NodeIds : k # n.id => logical_nodes'[k] = logical_nodes[k]
      /\ born'[nextVm] = new
      /\ \A v \in VmIds : v # nextVm => born'[v] = born[v]
      /\ \A u \in Threads \ {t} : pc'[u] = pc[u] /\ vm'[u] = vm[u]
      /\ pc'[t] = "registered"
  BY <1>1, <1>3 DEF IInv, TypeOK
<1>5. \A v \in VmIds : born[v] # None => born[v].node \in NodeIds
  BY BornNodes DEF IInv
<1>6. \A k \in NodeIds : logical_nodes'[k] # None => logical_nodes'[k].id = k
  BY <1>4 DEF IInv, NodesOk
<1>7. ASSUME NEW v \in VmIds, Leased(v)'
      PROVE  /\ logical_nodes'[born'[v].node] # None => Backs(logical_nodes'[born'[v].node], born'[v])
             /\ v \notin removed' => logical_nodes'[born'[v].node] # None
  <2>1. CASE v = nextVm
    BY <1>2, <1>3, <1>4, <1>7, <2>1 DEF Leased, new
  <2>2. CASE v # nextVm
    <3>1. born'[v] = born[v] /\ Leased(v)
      BY <1>4, <1>7, <2>2 DEF Leased
    <3>2. logical_nodes'[born[v].node] = logical_nodes[born[v].node]
      BY <1>4, <1>5, <3>1 DEF Leased
    <3>3. QED
      BY <3>1, <3>2 DEF IInv, NodesOk
  <2>3. QED
    BY <2>1, <2>2
<1>8. \A u \in Threads : pc'[u] \in {"execute", "backend", "writeBack"} =>
        /\ node'[u].id = vm'[u].node
        /\ vm'[u].leases # <<>> => Backs(node'[u], vm'[u])
        /\ pc'[u] = "backend" => node'[u].runtime = vm'[u].runtime
  BY <1>4 DEF IInv, NodesOk
<1>9. QED
  BY <1>6, <1>7, <1>8 DEF NodesOk

\* A VM whose destroy call returned was created, over a node.
LEMMA DestroyedBorn ==
  ASSUME IInv
  PROVE  \A v \in destroyed : v \in VmIds /\ born[v] # None /\ born[v].node \in NodeIds
<1>1. \A v \in destroyed : v \in VmIds /\ born[v] # None
  BY DEF IInv, TypeOK, BornOk
<1>2. QED
  BY <1>1, BornNodes DEF IInv

\* Every step preserves NodesOk.
LEMMA NodesStep ==
  ASSUME IInv, [Next]_vars
  PROVE  NodesOk'
<1>1. ASSUME NEW t \in Threads, NEW participants \in Plans,
             CreateLogicalNode(t, participants)
      PROVE  NodesOk'
  BY <1>1
  DEF IInv, TypeOK, LocalsOk, NodesOk, Leased, CreateLogicalNode,
      registries, callers, ids, locals, history
<1>2. ASSUME NEW t \in Threads, NEW participants \in Plans,
             NEW created \in CallTimes, NEW duration \in Durations,
             \/ CreateLeasedLogicalNode(t, participants, created, duration)
             \/ CreateLeasedWithBadRuntime(t, participants, created, duration)
      PROVE  NodesOk'
  BY <1>2, ZenonT(40)
  DEF IInv, TypeOK, LocalsOk, NodesOk, Leased, CreateLeasedLogicalNode,
      StoreLeases, CreateLeasedWithBadRuntime, registries, callers, ids,
      locals, history
<1>3. ASSUME NEW t \in Threads, NEW participants \in Plans, NEW runtime \in Runtimes,
             NEW created \in CallTimes, NEW duration \in Durations,
             CreateLeasedVm(t, participants, runtime, created, duration)
      PROVE  NodesOk'
  BY <1>3
  DEF IInv, TypeOK, LocalsOk, NodesOk, Leased, CreateLeasedVm, StoreLeases,
      Goto, registries, callers, ids, locals, history
<1>4. ASSUME NEW t \in Threads, NEW id \in NodeIds, NEW runtime \in Runtimes \cup {BadRuntime},
             NEW created \in CallTimes, CreateVm(t, id, runtime, created)
      PROVE  NodesOk'
  <2> DEFINE n == [id |-> id, participants |-> handed[id], runtime |-> runtime]
  <2>1. n \in LogicalNode /\ n.id = id /\ handed[id] # None
    BY <1>4 DEF IInv, TypeOK, CreateVm, LogicalNode
  <2>2. RegisterNode(t, n, <<>>) /\ <<>> \in Seq(Lease) /\ UNCHANGED <<node, removed>>
    BY <1>4 DEF CreateVm
  <2> HIDE DEF n
  <2>3. \A v \in VmIds : Leased(v) => born[v].node # n.id
    BY <2>1 DEF IInv, NodesExclusive
  <2>4. QED
    BY <2>1, <2>2, <2>3, NodesRegistered
<1>5. ASSUME NEW t \in Threads, BuildLeasedVm(t)
      PROVE  NodesOk'
  <2>1. /\ node[t] \in LogicalNode /\ batch[t] \in Seq(Lease) /\ pc[t] = "leased"
        /\ RegisterNode(t, node[t], batch[t]) /\ UNCHANGED <<node, removed>>
    BY <1>5 DEF IInv, TypeOK, LocalsOk, BuildLeasedVm
  <2>2. \A v \in VmIds : Leased(v) => born[v].node # node[t].id
    BY <2>1 DEF IInv, NodesExclusive, Leased
  <2>3. Backs(node[t], NewVm(nextVm, node[t], batch[t]))
    BY <2>1 DEF IInv, PendingOk, Backs, NewVm
  <2>4. QED
    BY <2>1, <2>2, <2>3, NodesRegistered
<1>6. ASSUME NEW t \in Threads, RollBack(t)
      PROVE  NodesOk'
  BY <1>6
  DEF IInv, TypeOK, LocalsOk, NodesOk, Leased, RollBack, Return, Goto,
      registries, callers, ids, locals, history
<1>7. ASSUME NEW t \in Threads, RegisterVm(t)
      PROVE  NodesOk'
  BY <1>7
  DEF IInv, TypeOK, LocalsOk, NodesOk, Leased, RegisterVm, Return, Goto,
      registries, callers, ids, locals, history
<1>8. ASSUME NEW t \in Threads, NEW id \in VmIds, StartVm(t, id)
      PROVE  NodesOk'
  BY <1>8
  DEF IInv, TypeOK, LocalsOk, NodesOk, Leased, StartVm, Update, start,
      registries, callers, ids, locals, history
<1>9. ASSUME NEW t \in Threads, NEW id \in VmIds, StopVm(t, id)
      PROVE  NodesOk'
  BY <1>9
  DEF IInv, TypeOK, LocalsOk, NodesOk, Leased, StopVm, Update, stop,
      registries, callers, ids, locals, history
<1>10. ASSUME NEW t \in Threads, NEW id \in NodeIds, NEW i \in DOMAIN granted[id],
             ReleaseLease(t, granted[id][i])
      PROVE  NodesOk'
  BY <1>10
  DEF IInv, TypeOK, LocalsOk, NodesOk, Leased, ReleaseLease, registries,
      callers, ids, locals, history
<1>11. ASSUME NEW t \in Threads, NEW id \in NodeIds, ReleaseLeases(t, granted[id])
      PROVE  NodesOk'
  BY <1>11
  DEF IInv, TypeOK, LocalsOk, NodesOk, Leased, ReleaseLeases, Goto,
      registries, callers, ids, locals, history
<1>12. ASSUME NEW t \in Threads, NEW id \in VmIds, DestroyVm(t, id)
      PROVE  NodesOk'
  BY <1>12
  DEF IInv, TypeOK, LocalsOk, NodesOk, Leased, DestroyVm, Goto, registries,
      callers, ids, locals, history
<1>13. ASSUME NEW t \in Threads, ReleaseNext(t)
      PROVE  NodesOk'
  BY <1>13
  DEF IInv, TypeOK, LocalsOk, NodesOk, Leased, ReleaseNext, Return, Goto,
      registries, callers, ids, locals, history
<1>14. ASSUME NEW t \in Threads, ReleaseFails(t)
      PROVE  NodesOk'
  BY <1>14
  DEF IInv, TypeOK, LocalsOk, NodesOk, Leased, ReleaseFails, Return, Goto,
      registries, callers, ids, locals, history
<1>15. ASSUME NEW t \in Threads, UnregisterNode(t)
      PROVE  NodesOk'
  <2>1. /\ vm[t].id \in removed /\ vm[t].id \in VmIds
        /\ born[vm[t].id] # None /\ born[vm[t].id].node = vm[t].node
    BY <1>15, VmFields DEF IInv, TypeOK, LocalsOk, CopiesOk, CopyOfBorn, UnregisterNode
  <2>2. /\ logical_nodes' = [logical_nodes EXCEPT ![vm[t].node] = None]
        /\ UNCHANGED <<born, removed>>
    BY <1>15 DEF UnregisterNode
  <2>3. \A v \in VmIds : Leased(v) /\ v \notin removed => born[v].node # vm[t].node
    BY <2>1 DEF IInv, NodesExclusive
  <2>4. \A v \in VmIds : born[v] # None => born[v].node \in NodeIds
    BY BornNodes DEF IInv
  <2>5. \A k \in NodeIds : \/ logical_nodes'[k] = None
                           \/ logical_nodes'[k] = logical_nodes[k]
    BY <2>2 DEF IInv, TypeOK
  <2>6. \A k \in NodeIds : k # vm[t].node => logical_nodes'[k] = logical_nodes[k]
    BY <2>2 DEF IInv, TypeOK
  <2>7. \A v \in VmIds : Leased(v) =>
          /\ logical_nodes'[born[v].node] # None => Backs(logical_nodes'[born[v].node], born[v])
          /\ v \notin removed => logical_nodes'[born[v].node] # None
    BY <2>3, <2>4, <2>5, <2>6 DEF IInv, NodesOk, Leased
  <2>8. /\ pc'[t] = "idle"
        /\ \A u \in Threads \ {t} : pc'[u] = pc[u] /\ vm'[u] = vm[u] /\ node'[u] = node[u]
    BY <1>15 DEF IInv, TypeOK, UnregisterNode, Return, Goto
  <2>9. \A u \in Threads : pc'[u] \in {"execute", "backend", "writeBack"} =>
          /\ node'[u].id = vm'[u].node
          /\ vm'[u].leases # <<>> => Backs(node'[u], vm'[u])
          /\ pc'[u] = "backend" => node'[u].runtime = vm'[u].runtime
    BY <2>8 DEF IInv, NodesOk
  <2>10. QED
    BY <2>2, <2>5, <2>7, <2>9 DEF IInv, NodesOk, Leased
<1>16. ASSUME NEW t \in Threads, NEW id \in VmIds, ReadVm(t, id)
      PROVE  NodesOk'
  BY <1>16
  DEF IInv, TypeOK, LocalsOk, NodesOk, Leased, ReadVm, Goto, registries,
      callers, ids, locals, history
<1>17. ASSUME NEW t \in Threads, ReadNode(t)
      PROVE  NodesOk'
  <2>1. /\ vm[t] \in VirtualMachine /\ vm[t].id \in VmIds /\ vm[t].node \in NodeIds
        /\ CopyOfBorn(vm[t])
    BY <1>17, VmFields DEF IInv, TypeOK, LocalsOk, CopiesOk, ReadNode
  <2>2. ASSUME pc'[t] = "execute"
        PROVE  /\ vm'[t] = vm[t]
               /\ node'[t].id = vm[t].node
               /\ vm[t].leases # <<>> => Backs(node'[t], vm[t])
    <3>1. vm'[t] = vm[t] /\ node'[t] = logical_nodes[vm[t].node] /\ node'[t] # None
      BY <1>17, <2>2 DEF IInv, TypeOK, ReadNode, Return, Goto
    <3>2. vm[t].leases # <<>> => Backs(node'[t], born[vm[t].id])
      BY <2>1, <3>1 DEF IInv, NodesOk, Leased, CopyOfBorn
    <3>3. QED
      BY <2>1, <3>1, <3>2 DEF IInv, NodesOk, Backs, CopyOfBorn
  <2>3. /\ pc'[t] \in {"idle", "execute"}
        /\ \A u \in Threads \ {t} : pc'[u] = pc[u] /\ vm'[u] = vm[u] /\ node'[u] = node[u]
    BY <1>17 DEF IInv, TypeOK, ReadNode, Return, Goto
  <2>4. \A u \in Threads : pc'[u] \in {"execute", "backend", "writeBack"} =>
          /\ node'[u].id = vm'[u].node
          /\ vm'[u].leases # <<>> => Backs(node'[u], vm'[u])
          /\ pc'[u] = "backend" => node'[u].runtime = vm'[u].runtime
    BY <2>2, <2>3 DEF IInv, NodesOk
  <2>5. UNCHANGED <<logical_nodes, born, removed>>
    BY <1>17 DEF ReadNode, registries, history
  <2>6. QED
    BY <2>4, <2>5 DEF IInv, NodesOk, Leased
<1>18. ASSUME NEW t \in Threads, NEW time \in Clock, NEW named \in BOOLEAN,
             ExecuteAt(t, time, named)
      PROVE  NodesOk'
  <2>1. /\ pc[t] = "execute" /\ pc'[t] \in {"backend", "writeBack"}
        /\ pc'[t] = "backend" => node[t].runtime = vm[t].runtime
        /\ \A u \in Threads \ {t} : pc'[u] = pc[u]
        /\ UNCHANGED <<vm, node>>
    BY <1>18 DEF IInv, TypeOK, ExecuteAt, PlanOk, Goto, locals
  <2>2. \A u \in Threads : pc'[u] \in {"execute", "backend", "writeBack"} =>
          /\ node'[u].id = vm'[u].node
          /\ vm'[u].leases # <<>> => Backs(node'[u], vm'[u])
          /\ pc'[u] = "backend" => node'[u].runtime = vm'[u].runtime
    BY <2>1 DEF IInv, NodesOk
  <2>3. UNCHANGED <<logical_nodes, born, removed>>
    BY <1>18 DEF ExecuteAt, registries, history
  <2>4. QED
    BY <2>2, <2>3 DEF IInv, NodesOk, Leased
<1>19. ASSUME NEW t \in Threads, NEW ok \in BOOLEAN, BackendReturns(t, ok)
      PROVE  NodesOk'
  <2>1. vm[t] \in VirtualMachine
    BY <1>19 DEF IInv, TypeOK, LocalsOk, BackendReturns
  <2>2. vm'[t] = vm[t] \/ vm'[t] = [vm[t] EXCEPT !.state = "Failed"]
    BY <1>19 DEF IInv, TypeOK, BackendReturns
  <2>3. vm'[t].node = vm[t].node /\ vm'[t].leases = vm[t].leases /\ vm'[t].runtime = vm[t].runtime
    BY <2>1, <2>2 DEF VirtualMachine
  <2>4. /\ pc[t] = "backend" /\ pc'[t] = "writeBack"
        /\ \A u \in Threads \ {t} : pc'[u] = pc[u] /\ vm'[u] = vm[u]
        /\ UNCHANGED node
    BY <1>19 DEF IInv, TypeOK, BackendReturns, Goto
  <2>5. vm'[t].leases # <<>> => Backs(node[t], vm'[t])
    BY <2>3, <2>4 DEF IInv, NodesOk, Backs
  <2>6. \A u \in Threads : pc'[u] \in {"execute", "backend", "writeBack"} =>
          /\ node'[u].id = vm'[u].node
          /\ vm'[u].leases # <<>> => Backs(node'[u], vm'[u])
          /\ pc'[u] = "backend" => node'[u].runtime = vm'[u].runtime
    BY <2>3, <2>4, <2>5 DEF IInv, NodesOk
  <2>7. UNCHANGED <<logical_nodes, born, removed>>
    BY <1>19 DEF BackendReturns, registries, history
  <2>8. QED
    BY <2>6, <2>7 DEF IInv, NodesOk, Leased
<1>20. ASSUME NEW t \in Threads, BackendPanics(t)
      PROVE  NodesOk'
  BY <1>20
  DEF IInv, TypeOK, LocalsOk, NodesOk, Leased, BackendPanics, Return, Goto,
      registries, callers, ids, locals, history
<1>21. ASSUME NEW t \in Threads, WriteBack(t)
      PROVE  NodesOk'
  BY <1>21
  DEF IInv, TypeOK, LocalsOk, NodesOk, Leased, WriteBack, Return, Goto,
      registries, callers, ids, locals, history
<1>22. CASE UNCHANGED vars
  BY <1>22 DEF IInv, TypeOK, LocalsOk, NodesOk, Leased, vars, registries, callers, ids, locals, history
<1>23. QED
  BY <1>1, <1>2, <1>3, <1>4, <1>5, <1>6, <1>7, <1>8, <1>9, <1>10, <1>11,
     <1>12, <1>13, <1>14, <1>15, <1>16, <1>17, <1>18, <1>19, <1>20, <1>21,
     <1>22
  DEF Next, Create, CallOnNode, CallOnVm, Continue, Backend

\* Every step preserves ReleaseOk.
LEMMA ReleaseStep ==
  ASSUME IInv, [Next]_vars
  PROVE  ReleaseOk'
<1>1. ASSUME NEW t \in Threads, NEW participants \in Plans,
             CreateLogicalNode(t, participants)
      PROVE  ReleaseOk'
  BY <1>1
  DEF IInv, TypeOK, LocalsOk, ReleaseOk, CreateLogicalNode, registries,
      callers, ids, locals, history
<1>2. ASSUME NEW t \in Threads, NEW participants \in Plans,
             NEW created \in CallTimes, NEW duration \in Durations,
             CreateLeasedLogicalNode(t, participants, created, duration)
      PROVE  ReleaseOk'
  BY <1>2, ReleaseKept DEF CreateLeasedLogicalNode, locals
<1>3. ASSUME NEW t \in Threads, NEW participants \in Plans,
             NEW created \in CallTimes, NEW duration \in Durations,
             CreateLeasedWithBadRuntime(t, participants, created, duration)
      PROVE  ReleaseOk'
  BY <1>3, ReleaseKept DEF CreateLeasedWithBadRuntime, locals
<1>4. ASSUME NEW t \in Threads, NEW participants \in Plans, NEW runtime \in Runtimes,
             NEW created \in CallTimes, NEW duration \in Durations,
             CreateLeasedVm(t, participants, runtime, created, duration)
      PROVE  ReleaseOk'
  <2>1. \A u \in Threads : pc'[u] \in {"release", "unregister"} =>
          pc'[u] = pc[u] /\ vm'[u] = vm[u] /\ pos'[u] = pos[u]
    BY <1>4 DEF IInv, TypeOK, CreateLeasedVm, Goto
  <2>2. QED
    BY <2>1, ReleaseKept
<1>5. ASSUME NEW t \in Threads, NEW id \in NodeIds, NEW runtime \in Runtimes \cup {BadRuntime},
             NEW created \in CallTimes,
             CreateVm(t, id, runtime, created)
      PROVE  ReleaseOk'
  BY <1>5
  DEF IInv, TypeOK, LocalsOk, ReleaseOk, CreateVm, RegisterNode, NewVm,
      Goto, registries, callers, ids, locals, history
<1>6. ASSUME NEW t \in Threads, BuildLeasedVm(t)
      PROVE  ReleaseOk'
  BY <1>6
  DEF IInv, TypeOK, LocalsOk, ReleaseOk, BuildLeasedVm, RegisterNode, NewVm,
      Goto, registries, callers, ids, locals, history
<1>7. ASSUME NEW t \in Threads, RollBack(t)
      PROVE  ReleaseOk'
  <2>1. \A u \in Threads : pc'[u] \in {"release", "unregister"} =>
          pc'[u] = pc[u] /\ vm'[u] = vm[u] /\ pos'[u] = pos[u]
    BY <1>7 DEF IInv, TypeOK, RollBack, Return, Goto
  <2>2. QED
    BY <2>1, ReleaseKept
<1>8. ASSUME NEW t \in Threads, RegisterVm(t)
      PROVE  ReleaseOk'
  BY <1>8
  DEF IInv, TypeOK, LocalsOk, ReleaseOk, RegisterVm, Return, Goto,
      registries, callers, ids, locals, history
<1>9. ASSUME NEW t \in Threads, NEW id \in VmIds, StartVm(t, id)
      PROVE  ReleaseOk'
  BY <1>9, SMTT(30)
  DEF IInv, TypeOK, LocalsOk, ReleaseOk, StartVm, Update, start, registries,
      callers, ids, locals, history
<1>10. ASSUME NEW t \in Threads, NEW id \in VmIds, StopVm(t, id)
      PROVE  ReleaseOk'
  BY <1>10
  DEF IInv, TypeOK, LocalsOk, ReleaseOk, StopVm, Update, stop, registries,
      callers, ids, locals, history
<1>11. ASSUME NEW t \in Threads, NEW id \in NodeIds, NEW i \in DOMAIN granted[id],
             ReleaseLease(t, granted[id][i])
      PROVE  ReleaseOk'
  BY <1>11
  DEF IInv, TypeOK, LocalsOk, ReleaseOk, ReleaseLease, registries, callers,
      ids, locals, history
<1>12. ASSUME NEW t \in Threads, NEW id \in NodeIds, ReleaseLeases(t, granted[id])
      PROVE  ReleaseOk'
  BY <1>12
  DEF IInv, TypeOK, LocalsOk, ReleaseOk, ReleaseLeases, Goto, registries,
      callers, ids, locals, history
<1>13. ASSUME NEW t \in Threads, NEW id \in VmIds, DestroyVm(t, id)
      PROVE  ReleaseOk'
  BY <1>13
  DEF IInv, TypeOK, LocalsOk, ReleaseOk, DestroyVm, Goto, registries,
      callers, ids, locals, history
<1>14. ASSUME NEW t \in Threads, ReleaseNext(t)
      PROVE  ReleaseOk'
  <2> DEFINE l == batch[t][pos[t]].id
  <2>1. /\ batch[t] \in Seq(Lease) /\ pos[t] \in 1..Len(batch[t])
        /\ vm[t] # None => batch[t] = vm[t].leases
    BY <1>14 DEF IInv, TypeOK, LocalsOk, ReleaseNext
  <2>2. leases' = [leases EXCEPT ![l] = None]
    BY <1>14 DEF ReleaseNext
  <2>3. l \in LeaseIds
    <3>1. batch[t][pos[t]] \in Lease
      BY <2>1
    <3>2. QED
      BY <3>1 DEF Lease
  <2>4. /\ leases'[l] = None
        /\ \A m \in LeaseIds : leases[m] = None => leases'[m] = None
    BY <2>2, <2>3 DEF IInv, TypeOK
  <2>5. \A u \in Threads \ {t} : pc'[u] = pc[u] /\ vm'[u] = vm[u] /\ pos'[u] = pos[u]
    BY <1>14 DEF IInv, TypeOK, ReleaseNext, Return, Goto, locals
  <2>6. \A u \in Threads : vm[u] # None =>
          /\ Len(vm[u].leases) \in Nat
          /\ \A j \in 1..Len(vm[u].leases) : vm[u].leases[j].id \in LeaseIds
    BY VmFields DEF IInv, TypeOK
  <2>7. vm[t] # None =>
          \A j \in 1..pos[t] : leases'[vm[t].leases[j].id] = None
    <3> SUFFICES ASSUME vm[t] # None, NEW j \in 1..pos[t]
                 PROVE  leases'[vm[t].leases[j].id] = None
      OBVIOUS
    <3>1. CASE j = pos[t]
      BY <2>1, <2>4, <3>1
    <3>2. CASE j # pos[t]
      <4>1. j \in 1..(pos[t] - 1) /\ j \in 1..Len(vm[t].leases)
        BY <2>1, <3>2
      <4>2. leases[vm[t].leases[j].id] = None
        BY <1>14, <4>1 DEF IInv, ReleaseOk, ReleaseNext
      <4>3. QED
        BY <2>4, <2>6, <4>1, <4>2
    <3>3. QED
      BY <3>1, <3>2
  <2>8. /\ pc'[t] = "release" => vm'[t] = vm[t] /\ pos'[t] = pos[t] + 1
        /\ pc'[t] = "unregister" => vm'[t] = vm[t] /\ vm[t] # None /\ pos[t] = Len(batch[t])
    BY <1>14 DEF IInv, TypeOK, ReleaseNext, Return, Goto, locals
  <2>9. /\ pc'[t] = "release" /\ vm'[t] # None =>
             \A j \in 1..(pos'[t] - 1) : leases'[vm'[t].leases[j].id] = None
        /\ pc'[t] = "unregister" =>
             \A j \in 1..Len(vm'[t].leases) : leases'[vm'[t].leases[j].id] = None
    BY <2>1, <2>7, <2>8
  <2>10. ASSUME NEW u \in Threads \ {t}
         PROVE  /\ pc'[u] = "release" /\ vm'[u] # None =>
                     \A j \in 1..(pos'[u] - 1) : leases'[vm'[u].leases[j].id] = None
                /\ pc'[u] = "unregister" =>
                     \A j \in 1..Len(vm'[u].leases) : leases'[vm'[u].leases[j].id] = None
    <3>1. pc[u] = "release" /\ vm[u] # None => 1..(pos[u] - 1) \subseteq 1..Len(vm[u].leases)
      BY <2>6 DEF IInv, TypeOK, LocalsOk
    <3>2. pc[u] = "unregister" => vm[u] # None
      BY DEF IInv, LocalsOk
    <3>3. QED
      BY <2>4, <2>5, <2>6, <3>1, <3>2 DEF IInv, ReleaseOk
  <2>11. QED
    BY <2>9, <2>10 DEF ReleaseOk
<1>15. ASSUME NEW t \in Threads, ReleaseFails(t)
      PROVE  ReleaseOk'
  BY <1>15
  DEF IInv, TypeOK, LocalsOk, ReleaseOk, ReleaseFails, Return, Goto,
      registries, callers, ids, locals, history
<1>16. ASSUME NEW t \in Threads, UnregisterNode(t)
      PROVE  ReleaseOk'
  BY <1>16
  DEF IInv, TypeOK, LocalsOk, ReleaseOk, UnregisterNode, Return, Goto,
      registries, callers, ids, locals, history
<1>17. ASSUME NEW t \in Threads, NEW id \in VmIds, ReadVm(t, id)
      PROVE  ReleaseOk'
  BY <1>17
  DEF IInv, TypeOK, LocalsOk, ReleaseOk, ReadVm, Goto, registries, callers,
      ids, locals, history
<1>18. ASSUME NEW t \in Threads, ReadNode(t)
      PROVE  ReleaseOk'
  <2>1. \A u \in Threads : pc'[u] \in {"release", "unregister"} =>
          pc'[u] = pc[u] /\ vm'[u] = vm[u] /\ pos'[u] = pos[u]
    BY <1>18 DEF IInv, TypeOK, ReadNode, Return, Goto
  <2>2. QED
    BY <2>1, ReleaseKept
<1>19. ASSUME NEW t \in Threads, NEW time \in Clock, NEW named \in BOOLEAN,
             ExecuteAt(t, time, named)
      PROVE  ReleaseOk'
  BY <1>19
  DEF IInv, TypeOK, LocalsOk, ReleaseOk, ExecuteAt, Goto, registries,
      callers, ids, locals, history
<1>20. ASSUME NEW t \in Threads, NEW ok \in BOOLEAN, BackendReturns(t, ok)
      PROVE  ReleaseOk'
  BY <1>20
  DEF IInv, TypeOK, LocalsOk, ReleaseOk, BackendReturns, Goto, registries,
      callers, ids, locals, history
<1>21. ASSUME NEW t \in Threads, BackendPanics(t)
      PROVE  ReleaseOk'
  BY <1>21
  DEF IInv, TypeOK, LocalsOk, ReleaseOk, BackendPanics, Return, Goto,
      registries, callers, ids, locals, history
<1>22. ASSUME NEW t \in Threads, WriteBack(t)
      PROVE  ReleaseOk'
  BY <1>22
  DEF IInv, TypeOK, LocalsOk, ReleaseOk, WriteBack, Return, Goto,
      registries, callers, ids, locals, history
<1>23. CASE UNCHANGED vars
  BY <1>23 DEF IInv, TypeOK, LocalsOk, ReleaseOk, vars, registries, callers, ids, locals, history
<1>24. QED
  BY <1>1, <1>2, <1>3, <1>4, <1>5, <1>6, <1>7, <1>8, <1>9, <1>10, <1>11,
     <1>12, <1>13, <1>14, <1>15, <1>16, <1>17, <1>18, <1>19, <1>20, <1>21,
     <1>22, <1>23
  DEF Next, Create, CallOnNode, CallOnVm, Continue, Backend

\* Every step preserves what a finished destroy call has achieved.
LEMMA DestroyedStep ==
  ASSUME IInv, [Next]_vars
  PROVE  DestroyedNodeGone'
<1>1. ASSUME NEW t \in Threads, NEW participants \in Plans,
             CreateLogicalNode(t, participants)
      PROVE  DestroyedNodeGone'
  BY <1>1
  DEF IInv, DestroyedNodeGone, CreateLogicalNode, registries, callers, ids,
      locals, history
<1>2. ASSUME NEW t \in Threads, NEW participants \in Plans,
             NEW created \in CallTimes, NEW duration \in Durations,
             \/ CreateLeasedLogicalNode(t, participants, created, duration)
             \/ CreateLeasedWithBadRuntime(t, participants, created, duration)
      PROVE  DestroyedNodeGone'
  BY <1>2
  DEF IInv, DestroyedNodeGone, CreateLeasedLogicalNode, StoreLeases,
      CreateLeasedWithBadRuntime, registries, callers, ids, locals, history
<1>3. ASSUME NEW t \in Threads, NEW participants \in Plans, NEW runtime \in Runtimes,
             NEW created \in CallTimes, NEW duration \in Durations,
             CreateLeasedVm(t, participants, runtime, created, duration)
      PROVE  DestroyedNodeGone'
  BY <1>3
  DEF IInv, DestroyedNodeGone, CreateLeasedVm, StoreLeases, Goto,
      registries, callers, ids, locals, history
<1>4. ASSUME NEW t \in Threads, NEW id \in NodeIds, NEW runtime \in Runtimes \cup {BadRuntime},
             NEW created \in CallTimes, CreateVm(t, id, runtime, created)
      PROVE  DestroyedNodeGone'
  <2>1. /\ handed[id] # None /\ destroyed' = destroyed
        /\ \A k \in NodeIds : k # id => logical_nodes'[k] = logical_nodes[k]
    BY <1>4 DEF IInv, TypeOK, CreateVm, RegisterNode
  <2>2. \A v \in destroyed : Leased(v) => born[v].node # id
    BY <2>1 DEF IInv, NodesExclusive, TypeOK
  <2>3. QED
    BY <2>1, <2>2, DestroyedBorn, HistoryStep DEF IInv, DestroyedNodeGone, HistoryKept, Leased
<1>5. ASSUME NEW t \in Threads, BuildLeasedVm(t)
      PROVE  DestroyedNodeGone'
  <2>1. /\ pc[t] = "leased" /\ destroyed' = destroyed
        /\ \A k \in NodeIds : k # node[t].id => logical_nodes'[k] = logical_nodes[k]
    BY <1>5 DEF IInv, TypeOK, BuildLeasedVm, RegisterNode
  <2>2. \A v \in destroyed : born[v].node # node[t].id
    BY <2>1, DestroyedBorn DEF IInv, NodesExclusive
  <2>3. QED
    BY <2>1, <2>2, DestroyedBorn, HistoryStep DEF IInv, DestroyedNodeGone, HistoryKept
<1>6. ASSUME NEW t \in Threads,
             \/ RollBack(t) \/ RegisterVm(t) \/ ReleaseNext(t)
             \/ ReleaseFails(t) \/ ReadNode(t) \/ BackendPanics(t)
             \/ WriteBack(t)
      PROVE  DestroyedNodeGone'
  BY <1>6
  DEF IInv, DestroyedNodeGone, RollBack, Return, Goto, RegisterVm,
      ReleaseNext, ReleaseFails, ReadNode, BackendPanics, WriteBack,
      registries, callers, ids, locals, history
<1>7. ASSUME NEW t \in Threads, NEW id \in VmIds,
             \/ StartVm(t, id) \/ StopVm(t, id) \/ DestroyVm(t, id)
             \/ ReadVm(t, id)
      PROVE  DestroyedNodeGone'
  BY <1>7
  DEF IInv, DestroyedNodeGone, StartVm, Update, start, StopVm, stop,
      DestroyVm, Goto, ReadVm, registries, callers, ids, locals, history
<1>8. ASSUME NEW t \in Threads, NEW id \in NodeIds, NEW i \in DOMAIN granted[id],
             ReleaseLease(t, granted[id][i])
      PROVE  DestroyedNodeGone'
  BY <1>8
  DEF IInv, DestroyedNodeGone, ReleaseLease, registries, callers, ids,
      locals, history
<1>9. ASSUME NEW t \in Threads, NEW id \in NodeIds, ReleaseLeases(t, granted[id])
      PROVE  DestroyedNodeGone'
  BY <1>9
  DEF IInv, DestroyedNodeGone, ReleaseLeases, Goto, registries, callers,
      ids, locals, history
<1>10. ASSUME NEW t \in Threads, UnregisterNode(t)
      PROVE  DestroyedNodeGone'
  <2>1. /\ vm[t].id \in VmIds /\ vm[t].node \in NodeIds
        /\ born[vm[t].id] # None /\ born[vm[t].id].node = vm[t].node
    BY <1>10, VmFields DEF IInv, TypeOK, LocalsOk, CopiesOk, CopyOfBorn, UnregisterNode
  <2>2. /\ logical_nodes'[vm[t].node] = None
        /\ \A k \in NodeIds : logical_nodes[k] = None => logical_nodes'[k] = None
        /\ destroyed' = destroyed \cup {vm[t].id}
        /\ UNCHANGED born
    BY <1>10, <2>1 DEF IInv, TypeOK, UnregisterNode
  <2>3. QED
    BY <2>1, <2>2, DestroyedBorn DEF IInv, DestroyedNodeGone
<1>11. ASSUME NEW t \in Threads, NEW time \in Clock, NEW named \in BOOLEAN,
             ExecuteAt(t, time, named)
      PROVE  DestroyedNodeGone'
  BY <1>11
  DEF IInv, DestroyedNodeGone, ExecuteAt, Goto, registries, callers, ids,
      locals, history
<1>12. ASSUME NEW t \in Threads, NEW ok \in BOOLEAN, BackendReturns(t, ok)
      PROVE  DestroyedNodeGone'
  BY <1>12
  DEF IInv, DestroyedNodeGone, BackendReturns, Goto, registries, callers,
      ids, locals, history
<1>13. CASE UNCHANGED vars
  BY <1>13 DEF IInv, DestroyedNodeGone, vars, registries, callers, ids, locals, history
<1>14. QED
  BY <1>1, <1>2, <1>3, <1>4, <1>5, <1>6, <1>7, <1>8, <1>9, <1>10, <1>11,
     <1>12, <1>13
  DEF Next, Create, CallOnNode, CallOnVm, Continue, Backend

\* The leases of a destroyed VM stay out of the registry.
LEMMA DestroyedLeasesStep ==
  ASSUME IInv, [Next]_vars
  PROVE  DestroyReleasesAll'
<1>1. ASSUME NEW v \in destroyed
      PROVE  /\ born'[v] = born[v]
             /\ \A i \in 1..Len(born[v].leases) : leases'[born[v].leases[i].id] = None
  <2>1. v \in VmIds /\ born[v] # None
    BY DestroyedBorn
  <2>2. \A i \in 1..Len(born[v].leases) : leases[born[v].leases[i].id] = None
    BY DEF IInv, DestroyReleasesAll
  <2>3. QED
    BY <2>1, <2>2, GoneStays, HistoryStep DEF HistoryKept
<1>2. CASE destroyed' = destroyed
  BY <1>1, <1>2 DEF DestroyReleasesAll
<1>3. ASSUME NEW t \in Threads, UnregisterNode(t)
      PROVE  DestroyReleasesAll'
  <2>1. vm[t].id \in VmIds /\ CopyOfBorn(vm[t])
    BY <1>3, VmFields DEF IInv, TypeOK, LocalsOk, CopiesOk, UnregisterNode
  <2>2. \A j \in 1..Len(vm[t].leases) : leases[vm[t].leases[j].id] = None
    BY <1>3 DEF IInv, ReleaseOk, UnregisterNode
  <2>3. UNCHANGED <<leases, born>> /\ destroyed' = destroyed \cup {vm[t].id}
    BY <1>3 DEF UnregisterNode
  <2>4. QED
    BY <1>1, <2>1, <2>2, <2>3 DEF DestroyReleasesAll, CopyOfBorn
<1>4. QED
  BY <1>2, <1>3, HistoryStep DEF HistoryKept

\* The inductive invariant holds in every reachable state.
THEOREM InvHolds == Spec => []IInv
<1>1. IInv /\ [Next]_vars => TypeOK' /\ LocalsOk'
  BY TypeStep, LocalsStep DEF IInv
<1>2. IInv /\ [Next]_vars => IInv'
  BY <1>1, BornStep, CopiesStep, ExclusiveStep, PendingStep, NodesStep, ReleaseStep,
     DestroyedStep, DestroyedLeasesStep
  DEF IInv
<1>3. QED
  BY <1>2, InvInit, PTL DEF Spec

-----------------------------------------------------------------------------
\* What follows from it.

\* When destroy_virtual_machine has returned Ok, no lease of the VM is in the
\* lease registry, then or later, whatever other threads do (control.rs:187-206).
THEOREM DestroyReleases == Spec => []DestroyReleasesAll
<1>1. IInv => DestroyReleasesAll
  BY DEF IInv
<1>2. QED
  BY <1>1, InvHolds, PTL

\* ... and, for a leased VM, its node is out of the node registry for good, so that
\* a VM a stale write-back restored can no longer be executed (control.rs:201-204).
THEOREM DestroyUnregisters == Spec => []DestroyedNodeGone
<1>1. IInv => DestroyedNodeGone
  BY DEF IInv
<1>2. QED
  BY <1>1, InvHolds, PTL

\* A leased VM that nobody destroyed finds its own node (control.rs:139-140).
THEOREM LeasedVmsBacked == Spec => []LeasedVmBacked
<1>1. IInv => LeasedVmBacked
  <2> SUFFICES ASSUME IInv, NEW id \in VmIds \ removed,
                      virtual_machines[id] # None, virtual_machines[id].leases # <<>>
               PROVE  /\ logical_nodes[virtual_machines[id].node] # None
                      /\ Backs(logical_nodes[virtual_machines[id].node], virtual_machines[id])
    BY DEF LeasedVmBacked
  <2>1. virtual_machines[id].id = id /\ CopyOfBorn(virtual_machines[id])
    BY DEF IInv, CopiesOk
  <2>2. Leased(id) /\ born[id].node = virtual_machines[id].node
    BY <2>1 DEF Leased, CopyOfBorn
  <2>3. logical_nodes[born[id].node] # None /\ Backs(logical_nodes[born[id].node], born[id])
    BY <2>2 DEF IInv, NodesOk
  <2>4. QED
    BY <2>1, <2>2, <2>3 DEF Backs, CopyOfBorn
<1>2. QED
  BY <1>1, InvHolds, PTL

\* A backend only ever sees the plan of the VM's own node, runtime and leases
\* (virtual_machine.rs:175-227).
THEOREM BackendsSeeOwnPlan == Spec => []BackendSeesOwnPlan
<1>1. IInv => BackendSeesOwnPlan
  BY DEF IInv, NodesOk, BackendSeesOwnPlan
<1>2. QED
  BY <1>1, InvHolds, PTL
=============================================================================
