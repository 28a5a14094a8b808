----------------------------- MODULE ControlPlane -----------------------------
(***************************************************************************)
(* The control plane of OpenHost (Plane in control.rs) with the virtual    *)
(* machines, logical nodes and leases it owns.                             *)
(*                                                                         *)
(* Plane has three registries, each a map behind its own RwLock, and no    *)
(* operation holds two of the locks at once.  An operation is therefore a  *)
(* sequence of critical sections, and the operations of several threads    *)
(* interleave between them: every critical section is one action here, and *)
(* what a thread carries from one to the next is in its local variables.   *)
(* A call that returns an error before it changed anything is a stuttering *)
(* step, so the conditions for getting past it are guards.                 *)
(*                                                                         *)
(* The scheduler is a trait object: what it plans is a parameter here.     *)
(***************************************************************************)
EXTENDS Naturals, Sequences

CONSTANTS
  Threads,        \* threads that share the Plane
  Participants,   \* identities of the participants that back allocations
  Plans,          \* the allocations a scheduler may return, one participant each
  Runtimes,       \* runtime specifications that pass RuntimeSpec::validate
  BadRuntime,     \* one that does not (an empty name or version, the default)
  None,           \* an absent entry of a map, an empty local
  CallTimes,      \* the created_at arguments callers pass; 0 is UNIX_EPOCH
  Durations,      \* the lease durations callers pass; 0 is Duration::ZERO
  Clock,          \* what SystemTime::now() may return
  MaxNodes, MaxVms, MaxLeases   \* bounds on the identities ever generated

ASSUME PlansAssumption == Plans \subseteq Seq(Participants)
ASSUME RuntimeAssumption == BadRuntime \notin Runtimes
ASSUME TimeAssumption ==
  /\ CallTimes \subseteq Nat
  /\ Durations \subseteq Nat
  /\ Clock \subseteq Nat
  /\ Clock # {}
ASSUME BoundAssumption ==
  /\ MaxNodes \in Nat
  /\ MaxVms \in Nat
  /\ MaxLeases \in Nat

NodeIds == 1..MaxNodes
VmIds == 1..MaxVms
LeaseIds == 1..MaxLeases

VmStates == {"Created", "Running", "Stopped", "Failed"}

\* A lease keeps what the checks on it read; its resources are copied from the
\* allocation, so same_capacity always holds and is left out.
Lease == [id: LeaseIds, node: NodeIds, participant: Participants,
          created: CallTimes, expires: Nat]

LogicalNode == [id: NodeIds, participants: Seq(Participants),
                runtime: Runtimes \cup {BadRuntime}]

VirtualMachine == [id: VmIds, node: NodeIds, runtime: Runtimes,
                   leases: Seq(Lease), state: VmStates]

ASSUME NoneAssumption ==
  /\ None \notin VirtualMachine
  /\ None \notin LogicalNode
  /\ None \notin Lease
  /\ None \notin Seq(Participants)
  /\ None \notin [vm: VmIds, state: VmStates]

VARIABLES
  leases,           \* the lease registry
  virtual_machines, \* the VM registry
  logical_nodes,    \* the node registry
  handed,           \* allocations of the nodes returned to callers
  granted,          \* leases returned to callers, by logical node
  nextNode, nextVm, nextLease,   \* Identity::new gives an id never used before
  pc,               \* where each thread is
  vm, node, batch, pos,   \* its local VM, node, list of leases, loop position
  born,             \* history: every VM as it was created
  removed,          \* history: the VMs a destroy call took out of the registry
  destroyed,        \* history: the VMs whose destroy call returned Ok
  revoked,          \* history: the leases callers released themselves
  leaked            \* history: leases stored by a call that then failed

registries == <<leases, virtual_machines, logical_nodes>>
callers == <<handed, granted>>
ids == <<nextNode, nextVm, nextLease>>
locals == <<vm, node, batch, pos>>
history == <<born, removed, destroyed, revoked, leaked>>
vars == <<registries, callers, ids, pc, locals, history>>

-----------------------------------------------------------------------------
\* Leases and virtual machines.

active_at(lease, time) == time >= lease.created /\ time < lease.expires

\* Mutant: ids that repeat from one call to the next.
NewLeasesReused(id, participants, first, created, duration) ==
  [i \in 1..Len(participants) |->
     [id |-> i, node |-> id, participant |-> participants[i],
      created |-> created, expires |-> created + duration]]

\* The leases of one call: consecutive fresh ids, one per allocation.
NewLeases(id, participants, first, created, duration) ==
  [i \in 1..Len(participants) |->
     [id |-> first + i - 1, node |-> id, participant |-> participants[i],
      created |-> created, expires |-> created + duration]]

LeaseOf(list, id) == CHOOSE l \in {list[i] : i \in DOMAIN list} : l.id = id
IdsOf(list) == {list[i].id : i \in DOMAIN list}

Insert(list) ==
  [l \in LeaseIds |-> IF l \in IdsOf(list) THEN LeaseOf(list, l) ELSE leases[l]]
Remove(list) ==
  [l \in LeaseIds |-> IF l \in IdsOf(list) THEN None ELSE leases[l]]

\* Mutant: the runtime of the node is not validated.
ValidNodeAnyRuntime(n) == n.participants # <<>>

\* The checks of from_node_with_leases on the node itself.
ValidNode(n) ==
  /\ n.participants # <<>>
  /\ n.runtime \in Runtimes

\* ... and on its leases; their created is the created_at of the VM.  The leases are
\* made from the node's own allocations by the same call, so that same_capacity
\* (virtual_machine.rs:150) compares amounts nobody has changed, and is left out.
ValidLeases(n, list) ==
  /\ list # <<>>
  /\ Len(list) = Len(n.participants)
  /\ \A i \in DOMAIN list :
       /\ list[i].node = n.id
       /\ active_at(list[i], list[i].created)
       /\ \E j \in DOMAIN n.participants : n.participants[j] = list[i].participant
  /\ \A i, j \in DOMAIN list : list[i].participant = list[j].participant => i = j

NewVm(id, n, list) ==
  [id |-> id, node |-> n.id, runtime |-> n.runtime, leases |-> list,
   state |-> "Created"]

\* Mutant: the runtime of the node is not compared with the VM's.
PlanOkAnyRuntime(v, n) == n.id = v.node /\ n.participants # <<>>

\* ExecutionPlan::from_node accepts the node: a unit for each allocation, and a
\* runtime with a name and a version.
from_node(n) == n.participants # <<>> /\ n.runtime # BadRuntime

\* execution_plan.  The VM has the capacity of the node it was created from.  No
\* operation of the crate changes a node's id or allocations (the fields are public,
\* and callers are assumed to leave them alone), so of the comparisons of
\* virtual_machine.rs:179-187 only the runtime's can fail, not ResourceMismatch.
PlanOk(v, n) == n.id = v.node /\ n.runtime = v.runtime /\ from_node(n)

LeasesActive(v, time) == \A i \in DOMAIN v.leases : active_at(v.leases[i], time)

-----------------------------------------------------------------------------
Init ==
  /\ leases = [l \in LeaseIds |-> None]
  /\ virtual_machines = [v \in VmIds |-> None]
  /\ logical_nodes = [n \in NodeIds |-> None]
  /\ handed = [n \in NodeIds |-> None]
  /\ granted = [n \in NodeIds |-> <<>>]
  /\ nextNode = 1 /\ nextVm = 1 /\ nextLease = 1
  /\ pc = [t \in Threads |-> "idle"]
  /\ vm = [t \in Threads |-> None]
  /\ node = [t \in Threads |-> None]
  /\ batch = [t \in Threads |-> <<>>]
  /\ pos = [t \in Threads |-> 1]
  /\ born = [v \in VmIds |-> None]
  /\ removed = {} /\ destroyed = {} /\ revoked = {} /\ leaked = {}

Goto(t, label) == pc' = [pc EXCEPT ![t] = label]

\* The call returns and its locals are dropped.
Return(t) ==
  /\ Goto(t, "idle")
  /\ vm' = [vm EXCEPT ![t] = None]
  /\ node' = [node EXCEPT ![t] = None]
  /\ batch' = [batch EXCEPT ![t] = <<>>]
  /\ pos' = [pos EXCEPT ![t] = 1]

-----------------------------------------------------------------------------
\* Creating nodes, leases and virtual machines.

\* create_logical_node: the caller gets a node and may assign it any runtime.
CreateLogicalNode(t, participants) ==
  /\ pc[t] = "idle"
  /\ nextNode \in NodeIds
  /\ handed' = [handed EXCEPT ![nextNode] = participants]
  /\ nextNode' = nextNode + 1
  /\ UNCHANGED <<registries, granted, nextVm, nextLease, pc, locals, history>>

\* create_leased_logical_node up to the end of its critical section on the
\* lease registry; list is what it stored.
StoreLeases(list, participants, created, duration) ==
  /\ created # 0
  /\ duration # 0
  /\ nextNode \in NodeIds
  /\ nextLease + Len(participants) <= MaxLeases + 1
  /\ list = NewLeases(nextNode, participants, nextLease, created, duration)
  /\ leases' = Insert(list)
  /\ nextNode' = nextNode + 1
  /\ nextLease' = nextLease + Len(participants)
  /\ UNCHANGED <<virtual_machines, logical_nodes, nextVm>>

CreateLeasedLogicalNode(t, participants, created, duration) ==
  LET list == NewLeases(nextNode, participants, nextLease, created, duration)
  IN  /\ pc[t] = "idle"
      /\ StoreLeases(list, participants, created, duration)
      /\ handed' = [handed EXCEPT ![nextNode] = participants]
      /\ granted' = [granted EXCEPT ![nextNode] = list]
      /\ UNCHANGED <<pc, locals, history>>

\* with_runtime fails after the leases were stored: the call returns the error
\* and the leases stay.
CreateLeasedWithBadRuntime(t, participants, created, duration) ==
  LET list == NewLeases(nextNode, participants, nextLease, created, duration)
  IN  /\ pc[t] = "idle"
      /\ StoreLeases(list, participants, created, duration)
      /\ leaked' = leaked \cup IdsOf(list)
      /\ UNCHANGED <<callers, pc, locals, born, removed, destroyed, revoked>>

CreateLeasedVm(t, participants, runtime, created, duration) ==
  LET list == NewLeases(nextNode, participants, nextLease, created, duration)
  IN  /\ pc[t] = "idle"
      /\ StoreLeases(list, participants, created, duration)
      /\ Goto(t, "leased")
      /\ batch' = [batch EXCEPT ![t] = list]
      /\ node' = [node EXCEPT ![t] = [id |-> nextNode, participants |-> participants,
                                      runtime |-> runtime]]
      /\ UNCHANGED <<callers, vm, pos, history>>

\* Both ways of creating a VM register its node first, and then the VM.
RegisterNode(t, n, list) ==
  /\ nextVm \in VmIds
  /\ logical_nodes' = [logical_nodes EXCEPT ![n.id] = n]
  /\ vm' = [vm EXCEPT ![t] = NewVm(nextVm, n, list)]
  /\ born' = [born EXCEPT ![nextVm] = NewVm(nextVm, n, list)]
  /\ nextVm' = nextVm + 1
  /\ Goto(t, "registered")

CreateVm(t, id, runtime, created) ==
  LET n == [id |-> id, participants |-> handed[id], runtime |-> runtime]
  IN  /\ pc[t] = "idle"
      /\ handed[id] # None
      /\ created # 0
      /\ ValidNode(n)
      /\ RegisterNode(t, n, <<>>)
      /\ UNCHANGED <<leases, virtual_machines, callers, nextNode, nextLease,
                     node, batch, pos, removed, destroyed, revoked, leaked>>

\* Mutant: the VM is registered and its node forgotten.
BuildLeasedVmWithoutNode(t) ==
  /\ pc[t] = "leased"
  /\ nextVm \in VmIds
  /\ ValidNode(node[t]) /\ ValidLeases(node[t], batch[t])
  /\ vm' = [vm EXCEPT ![t] = NewVm(nextVm, node[t], batch[t])]
  /\ born' = [born EXCEPT ![nextVm] = NewVm(nextVm, node[t], batch[t])]
  /\ nextVm' = nextVm + 1
  /\ Goto(t, "registered")
  /\ UNCHANGED <<registries, callers, nextNode, nextLease, node, batch, pos,
                 removed, destroyed, revoked, leaked>>

BuildLeasedVm(t) ==
  /\ pc[t] = "leased"
  /\ ValidNode(node[t]) /\ ValidLeases(node[t], batch[t])
  /\ RegisterNode(t, node[t], batch[t])
  /\ UNCHANGED <<leases, virtual_machines, callers, nextNode, nextLease,
                 node, batch, pos, removed, destroyed, revoked, leaked>>

\* Mutant: the leases are not rolled back.
RollBackNothing(t) ==
  /\ pc[t] = "leased"
  /\ ~ (ValidNode(node[t]) /\ ValidLeases(node[t], batch[t]))
  /\ Return(t)
  /\ UNCHANGED <<registries, callers, ids, history>>

\* from_leased_node fails: remove_leases, in one critical section.
RollBack(t) ==
  /\ pc[t] = "leased"
  /\ ~ (ValidNode(node[t]) /\ ValidLeases(node[t], batch[t]))
  /\ leases' = Remove(batch[t])
  /\ Return(t)
  /\ UNCHANGED <<virtual_machines, logical_nodes, callers, ids, history>>

RegisterVm(t) ==
  /\ pc[t] = "registered"
  /\ virtual_machines' = [virtual_machines EXCEPT ![vm[t].id] = vm[t]]
  /\ granted' = [granted EXCEPT ![vm[t].node] =
                   IF vm[t].leases = <<>> THEN @ ELSE vm[t].leases]
  /\ Return(t)
  /\ UNCHANGED <<leases, logical_nodes, handed, ids, history>>

-----------------------------------------------------------------------------
\* The lifecycle: one critical section each.

\* Mutant: any VM can be stopped.
stopAny(v) == [v EXCEPT !.state = "Stopped"]

start(v) == IF v.state = "Created" THEN [v EXCEPT !.state = "Running"] ELSE v
stop(v) == IF v.state = "Running" THEN [v EXCEPT !.state = "Stopped"] ELSE v

Update(t, id, v) ==
  /\ pc[t] = "idle"
  /\ virtual_machines[id] # None
  /\ virtual_machines' = [virtual_machines EXCEPT ![id] = v]
  /\ UNCHANGED <<leases, logical_nodes, callers, ids, pc, locals, history>>

StartVm(t, id) == Update(t, id, start(virtual_machines[id]))
StopVm(t, id) == Update(t, id, stop(virtual_machines[id]))

-----------------------------------------------------------------------------
\* Releasing leases, one critical section per lease.

ReleaseLease(t, lease) ==
  /\ pc[t] = "idle"
  /\ leases[lease.id] # None
  /\ leases' = [leases EXCEPT ![lease.id] = None]
  /\ revoked' = revoked \cup {lease.id}
  /\ UNCHANGED <<virtual_machines, logical_nodes, callers, ids, pc, locals, born,
                 removed, destroyed, leaked>>

\* release_leases called with the leases a caller was given for a node.
ReleaseLeases(t, list) ==
  /\ pc[t] = "idle"
  /\ list # <<>>
  /\ Goto(t, "release")
  /\ batch' = [batch EXCEPT ![t] = list]
  /\ UNCHANGED <<registries, callers, ids, vm, node, pos, history>>

\* Mutant: the call returns once the VM is out of the registry.
DestroyVmOnly(t, id) ==
  /\ pc[t] = "idle"
  /\ virtual_machines[id] # None
  /\ virtual_machines' = [virtual_machines EXCEPT ![id] = None]
  /\ removed' = removed \cup {id}
  /\ UNCHANGED <<leases, logical_nodes, callers, ids, pc, locals, born, destroyed,
                 revoked, leaked>>

\* destroy_virtual_machine: the VM leaves the registry first.
DestroyVm(t, id) ==
  LET v == virtual_machines[id]
  IN  /\ pc[t] = "idle"
      /\ v # None
      /\ virtual_machines' = [virtual_machines EXCEPT ![id] = None]
      /\ removed' = removed \cup {id}
      /\ vm' = [vm EXCEPT ![t] = v]
      /\ batch' = [batch EXCEPT ![t] = v.leases]
      /\ Goto(t, IF v.leases = <<>> THEN "unregister" ELSE "release")
      /\ UNCHANGED <<leases, logical_nodes, callers, ids, node, pos,
                     born, destroyed, revoked, leaked>>

\* One turn of the loop in release_leases.  After the last lease a destroy call
\* goes on to the node registry, a release_leases call returns.
ReleaseNext(t) ==
  LET l == batch[t][pos[t]].id
  IN  /\ pc[t] = "release"
      /\ leases[l] # None
      /\ leases' = [leases EXCEPT ![l] = None]
      /\ \/ /\ pos[t] < Len(batch[t])
            /\ pos' = [pos EXCEPT ![t] = @ + 1]
            /\ UNCHANGED <<pc, vm, node, batch>>
         \/ /\ pos[t] = Len(batch[t]) /\ vm[t] # None
            /\ Goto(t, "unregister")
            /\ UNCHANGED locals
         \/ /\ pos[t] = Len(batch[t]) /\ vm[t] = None
            /\ Return(t)
      /\ revoked' = IF vm[t] = None THEN revoked \cup {l} ELSE revoked
      /\ UNCHANGED <<virtual_machines, logical_nodes, callers, ids, born, removed,
                     destroyed, leaked>>

\* Mutant: a destroy call ignores the error of release_leases.
ReleaseFailsIgnored(t) ==
  /\ pc[t] = "release"
  /\ leases[batch[t][pos[t]].id] = None
  /\ IF vm[t] = None THEN Return(t) ELSE Goto(t, "unregister") /\ UNCHANGED locals
  /\ UNCHANGED <<registries, callers, ids, history>>

\* LeaseNotFound: the loop and the call that runs it stop here.  A destroy call
\* leaves the remaining leases and the node behind.
ReleaseFails(t) ==
  /\ pc[t] = "release"
  /\ leases[batch[t][pos[t]].id] = None
  /\ Return(t)
  /\ UNCHANGED <<registries, callers, ids, history>>

\* Mutant: the node stays registered.
UnregisterNothing(t) ==
  /\ pc[t] = "unregister"
  /\ destroyed' = destroyed \cup {vm[t].id}
  /\ Return(t)
  /\ UNCHANGED <<registries, callers, ids, born, removed, revoked, leaked>>

UnregisterNode(t) ==
  /\ pc[t] = "unregister"
  /\ logical_nodes' = [logical_nodes EXCEPT ![vm[t].node] = None]
  /\ destroyed' = destroyed \cup {vm[t].id}
  /\ Return(t)
  /\ UNCHANGED <<leases, virtual_machines, callers, ids, born, removed, revoked,
                 leaked>>

-----------------------------------------------------------------------------
\* execute_virtual_machine works on clones of the VM and of its node.

ReadVm(t, id) ==
  /\ pc[t] = "idle"
  /\ virtual_machines[id] # None
  /\ vm' = [vm EXCEPT ![t] = virtual_machines[id]]
  /\ Goto(t, "readNode")
  /\ UNCHANGED <<registries, callers, ids, node, batch, pos, history>>

ReadNode(t) ==
  LET n == logical_nodes[vm[t].node]
  IN  /\ pc[t] = "readNode"
      /\ \/ /\ n # None
            /\ node' = [node EXCEPT ![t] = n]
            /\ Goto(t, "execute")
            /\ UNCHANGED <<vm, batch, pos>>
         \/ /\ n = None
            /\ Return(t)
      /\ UNCHANGED <<registries, callers, ids, history>>

\* execute_at up to the call of the backend: the state, the system clock, which
\* is not monotonic, against every lease, then the plan, which also refuses an unnamed workload.
ExecuteAt(t, time, namedWorkload) ==
  /\ pc[t] = "execute"
  /\ Goto(t, IF /\ vm[t].state = "Running"
                /\ LeasesActive(vm[t], time)
                /\ PlanOk(vm[t], node[t])
                /\ namedWorkload
             THEN "backend" ELSE "writeBack")
  /\ UNCHANGED <<registries, callers, ids, locals, history>>

BackendReturns(t, ok) ==
  /\ pc[t] = "backend"
  /\ vm' = IF ok THEN vm ELSE [vm EXCEPT ![t].state = "Failed"]
  /\ Goto(t, "writeBack")
  /\ UNCHANGED <<registries, callers, ids, node, batch, pos, history>>

\* The backend unwinds: nothing is written back.
BackendPanics(t) ==
  /\ pc[t] = "backend"
  /\ Return(t)
  /\ UNCHANGED <<registries, callers, ids, history>>

\* Mutant: the leases of the clone are written back too.
WriteBackLeases(t) ==
  /\ pc[t] = "writeBack"
  /\ virtual_machines' = [virtual_machines EXCEPT ![vm[t].id] = vm[t]]
  /\ leases' = Insert(vm[t].leases)
  /\ Return(t)
  /\ UNCHANGED <<logical_nodes, callers, ids, history>>

WriteBack(t) ==
  /\ pc[t] = "writeBack"
  /\ virtual_machines' = [virtual_machines EXCEPT ![vm[t].id] = vm[t]]
  /\ Return(t)
  /\ UNCHANGED <<leases, logical_nodes, callers, ids, history>>

-----------------------------------------------------------------------------
Create(t) ==
  \E participants \in Plans :
    \/ CreateLogicalNode(t, participants)
    \/ \E created \in CallTimes, duration \in Durations :
         \/ CreateLeasedLogicalNode(t, participants, created, duration)
         \/ CreateLeasedWithBadRuntime(t, participants, created, duration)
         \/ \E runtime \in Runtimes :
              CreateLeasedVm(t, participants, runtime, created, duration)

CallOnNode(t) ==
  \E id \in NodeIds :
    \/ \E runtime \in Runtimes \cup {BadRuntime}, created \in CallTimes :
         CreateVm(t, id, runtime, created)
    \/ ReleaseLeases(t, granted[id])
    \/ \E i \in DOMAIN granted[id] : ReleaseLease(t, granted[id][i])

CallOnVm(t) ==
  \E id \in VmIds : StartVm(t, id) \/ StopVm(t, id) \/ DestroyVm(t, id) \/ ReadVm(t, id)

\* What a thread does inside a call without waiting for the backend.
Continue(t) ==
  \/ BuildLeasedVm(t) \/ RollBack(t) \/ RegisterVm(t)
  \/ ReleaseNext(t) \/ ReleaseFails(t) \/ UnregisterNode(t)
  \/ ReadNode(t) \/ WriteBack(t)
  \/ \E time \in Clock, named \in BOOLEAN : ExecuteAt(t, time, named)

Backend(t) == (\E ok \in BOOLEAN : BackendReturns(t, ok)) \/ BackendPanics(t)

Next ==
  \E t \in Threads :
    Create(t) \/ CallOnNode(t) \/ CallOnVm(t) \/ Continue(t) \/ Backend(t)

\* A thread that is inside a call is scheduled again; no lock is held across
\* two critical sections, so none waits for another.  Nothing forces a new call
\* or makes a backend answer.
Spec == Init /\ [][Next]_vars /\ \A t \in Threads : WF_vars(Continue(t))

-----------------------------------------------------------------------------
\* Type invariant: every map, local and counter has the type of its Rust field.
TypeOK ==
  /\ leases \in [LeaseIds -> Lease \cup {None}]
  /\ virtual_machines \in [VmIds -> VirtualMachine \cup {None}]
  /\ logical_nodes \in [NodeIds -> LogicalNode \cup {None}]
  /\ handed \in [NodeIds -> Seq(Participants) \cup {None}]
  /\ granted \in [NodeIds -> Seq(Lease)]
  /\ nextNode \in 1..(MaxNodes + 1)
  /\ nextVm \in 1..(MaxVms + 1)
  /\ nextLease \in 1..(MaxLeases + 1)
  /\ pc \in [Threads -> {"idle", "leased", "registered", "release", "unregister",
                         "readNode", "execute", "backend", "writeBack"}]
  /\ vm \in [Threads -> VirtualMachine \cup {None}]
  /\ node \in [Threads -> LogicalNode \cup {None}]
  /\ batch \in [Threads -> Seq(Lease)]
  /\ pos \in [Threads -> Nat \ {0}]
  /\ born \in [VmIds -> VirtualMachine \cup {None}]
  /\ removed \subseteq VmIds
  /\ destroyed \subseteq VmIds
  /\ revoked \subseteq LeaseIds
  /\ leaked \subseteq LeaseIds

\* n is the node the VM v was created over, unit by unit: same runtime, and the
\* i-th allocation is on the participant of the i-th lease.
Backs(n, v) ==
  /\ n.id = v.node
  /\ n.runtime = v.runtime
  /\ Len(n.participants) = Len(v.leases)
  /\ \A i \in 1..Len(v.leases) : n.participants[i] = v.leases[i].participant

\* A leased VM that nobody has asked to destroy finds its own node in the
\* registry, with the runtime and the participants it was leased for, however
\* its creation interleaves with creations and destructions of other VMs: the
\* node is inserted before the VM (control.rs:139-140) and only this VM's
\* destroy call removes it.
LeasedVmBacked ==
  \A id \in VmIds \ removed :
    LET v == virtual_machines[id]
    IN  v # None /\ v.leases # <<>> =>
          /\ logical_nodes[v.node] # None
          /\ Backs(logical_nodes[v.node], v)

\* The leases of a VM that nobody has asked to destroy are all in the registry
\* but for those callers released themselves: no destruction or roll-back of
\* another VM reaches them (control.rs:144, 198).
LiveLeasesStored ==
  \A id \in VmIds \ removed :
    virtual_machines[id] # None =>
      \A l \in IdsOf(virtual_machines[id].leases) : leases[l] # None \/ l \in revoked

\* When a destroy call has returned Ok, none of the VM's leases is in the lease
\* registry, now or ever after, although they are released one lock at a time
\* and callers can release the same leases concurrently (control.rs:197-199).
DestroyReleasesAll ==
  \A id \in destroyed :
    \A i \in 1..Len(born[id].leases) : leases[born[id].leases[i].id] = None

\* When a destroy call of a leased VM has returned Ok its node stays out of the
\* node registry, so that even a stale write-back of the VM (control.rs:232)
\* leaves nothing an execution could still be planned on (control.rs:222-228).
DestroyedNodeGone ==
  \A id \in destroyed :
    born[id].leases # <<>> => logical_nodes[born[id].node] = None

\* Whatever happened to the registries since its clones were taken, a backend
\* only sees a plan over the node the VM was created on, with the VM's runtime
\* and, for a leased VM, exactly one unit per lease on that lease's participant
\* (virtual_machine.rs:180-193, 219).
BackendSeesOwnPlan ==
  \A t \in Threads : pc[t] = "backend" =>
    /\ node[t].id = vm[t].node
    /\ node[t].runtime = vm[t].runtime
    /\ vm[t].leases # <<>> => Backs(node[t], vm[t])

\* Two VMs never hold the same lease, stored or removed, so that destroying one
\* cannot take the resources of another (control.rs:342, Identity::new).
NoSharedLease ==
  \A v, w \in VmIds :
    /\ v # w
    /\ virtual_machines[v] # None /\ virtual_machines[w] # None
    => IdsOf(virtual_machines[v].leases) \cap IdsOf(virtual_machines[w].leases) = {}

\* A stored lease is always somebody's: a caller was given it, or the call that
\* stored it is still running.  The only leases nobody can release any more are
\* those of calls that failed on the runtime (control.rs:313); a creation that
\* fails later rolls its leases back (control.rs:144).
StoredLeasesOwned ==
  \A l \in LeaseIds : leases[l] # None =>
    \/ \E n \in NodeIds : l \in IdsOf(granted[n])
    \/ \E t \in Threads : pc[t] \in {"leased", "registered"} /\ l \in IdsOf(batch[t])
    \/ l \in leaked

\* A lease that has left the registry never returns to it, whatever clones of it
\* threads still hold.
ReleasedForever ==
  [][\A l \in LeaseIds : l < nextLease /\ leases[l] = None => leases'[l] = None]_vars

\* A destroy call that has taken its VM out goes on to return Ok, unless a
\* caller released one of the VM's leases itself (control.rs:198): the node and
\* the leases do not stay behind.  When a write-back brought the VM back and it is
\* destroyed again, one of the two calls may find leases gone and fail; the other
\* one still returns Ok.
DestroyCompletes ==
  \A id \in VmIds :
    id \in removed ~>
      \/ id \in destroyed
      \/ born[id] # None /\ IdsOf(born[id].leases) \cap revoked # {}

-----------------------------------------------------------------------------
\* The VMs of the registry as an implementation of VmLifecycle.
Status(id) ==
  IF virtual_machines[id] # None THEN virtual_machines[id].state
  ELSE IF id \in removed THEN "destroyed" ELSE "absent"

\* The clone an execution works on.
Held(t) ==
  IF pc[t] \in {"readNode", "execute", "backend", "writeBack"}
  THEN [vm |-> vm[t].id, state |-> vm[t].state] ELSE None

Lifecycle == INSTANCE VmLifecycle WITH status <- [id \in VmIds |-> Status(id)],
                                       held <- [t \in Threads |-> Held(t)]

\* The registry implements the lifecycle, whatever calls overlap: VMs only move
\* forward, but for the write-back of an execution, which restores the state
\* that execution found or fails the VM, and nothing else (control.rs:163-238).
RefinesLifecycle == Lifecycle!Spec

-----------------------------------------------------------------------------
\* What a test says of a VM (control.rs:500-503), checked here with several
\* threads: after a successful destroy the VM is not found.
DestroyedIsGone ==
  \A id \in destroyed : virtual_machines[id] = None
=============================================================================
