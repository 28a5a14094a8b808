# OpenHost: TLA+ specifications

OpenHost composes resources of many participants into logical nodes and runs
virtual machines on them. These specifications model the parts of the crate in
which concurrency, partial failure and ordering decide correctness; TLC checks
them on small instances, and TLAPS proves their safety properties, and that the
control plane implements its abstract specification, for every instance. Paths
below are relative to the repository.

## The system

| Component | State | Operations | Hard because |
|---|---|---|---|
| Control plane, `src/control.rs` | three maps (leases, VMs, logical nodes), each behind its own `RwLock` | create node / leased node / VM / leased VM, start, stop, destroy, execute, release | no operation holds two locks; execute works on clones and writes one back; destroy is several critical sections and can fail in the middle |
| Virtual machine, lease, node (`virtual_machine.rs`, `lease.rs`, `node.rs`) | values copied into and out of those maps | creation checks, lifecycle, validity interval, runtime assignment | several copies of a VM exist while it executes |
| Resources and scheduler (`resource.rs`, `scheduler.rs`) | none; a loop over offers | `plan` | splitting over participants, saturation, rounding, lifetimes, duplicates |
| Participants and registry (`participant.rs`, `registry.rs`), memory fabric (`fabric.rs`) | lifecycle state per participant, membership map | activate, drain, leave, register, remove, `offers` | participants change state while they are sampled |
| Discovery (`discovery.rs`) | members with sequence and last-seen time | upsert, remove, members, members_at | delayed, repeated and reordered advertisements; calls carry a time read before the lock |
| Dispatcher (`execution.rs`), endpoint (`endpoint.rs`), runtime registry (`runtime.rs`) | registered endpoints and the runtimes of each | fan-out of requests, validation, resolution, execution | partial failure, endpoints that change under a call |
| TCP server (`transport.rs`) | listener and its mode, worker pool, channel, shutdown flag | `serve*`, accept, receive, handle, drain | thread interleavings, panics, shutdown |
| Connections, wire format and client authorization (`transport.rs`) | streams, allow list of client certificates | bind, handshake, write, read, authorize, answer | peers that write anything and streams that stop anywhere, two separate codecs, handshakes that end at different times on the two sides |
| Identity, capability | values | parse, validate | nothing concurrent |

The control plane asks a `Scheduler` (a trait object) for a logical node; the
scheduler asks a `Fabric` for offers; the participant registry is a `Fabric`. A
VM is executed by an `ExecutionBackend`; the dispatcher is one that sends a
request per unit through a `Transport` to an endpoint, over TCP by way of the
server.

What makes each part correct:

- control plane: a VM's leases and node live and die with it, no clone brings
  back what was released or destroyed, a backend only sees the VM's own plan,
  the lifecycle only moves forward;
- scheduler: exactly what was required, from offers that last long enough,
  refused only when it cannot be had (up to the rounding of CPU shares), whatever
  the order of the offers;
- registry: offers come from participants that were active, steady ones are
  always considered;
- server: every accepted connection is handled, pending connections are bounded,
  shutdown stops accepting, drains and returns;
- discovery: registries that accepted the same advertisements agree, and what is
  said about freshness is true whatever overtook the question;
- connections: a handler sees exactly what was sent, from whom it was granted to,
  a caller gets the answer to its own request, the two ends never wait for each
  other, no client keeps a worker;
- dispatcher: success means every unit was executed, at home and under the runtime
  of its plan; a plan that lacks an endpoint is not begun.

## Modules

| Module | Models | State and actions |
|---|---|---|
| `ControlPlane` | `Plane`, VMs, leases, nodes | the three maps; per thread `pc` and the locals carried across critical sections; one action per critical section |
| `VmLifecycle` | what the lifecycle promises | abstract: one status per VM and the execution each thread is in; create, start, stop, destroy, begin, fail, end |
| `ControlPlaneProofs`, `LeaseProofs` | - | theorems about `ControlPlane`: destroy, execution, backing; leases and the refinement |
| `Resources` | fragments, composites, the scheduler's arithmetic | operators only |
| `Scheduler` | `AggregatingScheduler::plan` | one call: `Plan`, `TakeOffers`, `Share` per offer, `Compose` |
| `Placement` | registry, participants, memory fabric and the scheduler planning over them | extends `Scheduler`; `Transition`, `Register`, `RemoveParticipant`, `Renew`, `Snapshot`, `Offer`, `UseOffers`; `Upsert`, `RemoveOffer` |
| `Discovery` | `MemoryRegistry` of several planes and the network between them | members per plane, the call each thread is in; `Advertise`, `Receive`, `Upsert`, `Refuse`, `Remove`, `Ask`, `MembersAt` |
| `TcpServer` | `TcpEndpointServer` | listener, calls and workers, each thread with a program counter |
| `Dispatch` | `ExecutionDispatcher`, endpoints, runtime registries, loopback, in-process and TCP transports | registries and endpoints; per call its transport, runtime, endpoints and one thread per unit; the executor of each unit; `RegisterRuntime`, `Register`, `Unregister`, `Dispatch`, `Loopback`, `Lookup`, `Send`, `Timeout`, `Handle`, `Run`, `Answer`, `ScopeEnds` |
| `Codec` | the wire format | operators only: writers, and readers written independently of them |
| `Connection` | `TcpTransport`, `TlsTcpTransport`, `bind`, `bind_mtls`, `handle_connection` | extends `Codec`; the two streams and how much of each has arrived, allow list, client and server; `Bind`, `BindMtls`, `Dispatch`, `ClientHandshake`, `ReadResponse`, `Connect` (another program), `Accept`, `ServerHandshake`, `ReadRequest`, `ReadPanics`, `HandlerReturns`, `HandlerPanics`, failures of both sides |
| `SchedulerProofs`, `PlacementProofs`, `DiscoveryProofs`, `TcpServerProofs`, `DispatchProofs`, `ConnectionProofs` | - | theorems about the module they are named after (`ConnectionProofs` also about `Codec`) |
| `MC*` | instances for TLC | sets of plans, fragments, symmetry |

### ControlPlane

A call that returns an error before it changed anything is a stuttering step;
everything else is a chain of actions of one thread:

- `CreateLeasedVm` (leases stored) -> `BuildLeasedVm` (node stored) or `RollBack`
  -> `RegisterVm`; `CreateVm` -> `RegisterVm`;
- `DestroyVm` (VM removed) -> `ReleaseNext` per lease, or `ReleaseFails` ->
  `UnregisterNode`;
- `ReadVm` -> `ReadNode` -> `ExecuteAt` -> `BackendReturns` or `BackendPanics` ->
  `WriteBack`.

Plans are a parameter, because the scheduler is a trait object; plans with two
allocations on one participant are among them, which `from_leased_node` refuses
and which is what the roll-back is for. The clock is not monotonic. `born`,
`removed`, `destroyed`, `revoked` and `leaked` are history variables: no guard
reads them. Capacities are copied from allocations and are left out, and with them
the comparisons `same_capacity` and `ResourceMismatch`, which cannot fail as long
as callers leave the public fields of a node alone; nothing in the crate alters
them. Lookups that only read (`get_*`) are left out.

`VmLifecycle` is the abstract specification. It states what users can rely on
with any number of threads: creation once, start once, stop, destroy at any
time; only an execution fails a VM, and only the end of an execution moves a VM
backwards or brings it back, to the state that execution found or to `Failed`.
The refinement maps `status` to the VM registry and `held` to the clone a thread
works on.

### Scheduler and Placement

A fragment keeps its amounts per kind, its lifetime and whether its CPU share is
a number at all. Counters saturate at `MaxUnits`. A CPU share counts units of a
power of two that divides all the shares in play, and every sum and difference of
shares is passed through `rounded`, of which only this is assumed: it is exact up
to `Significand` units (2^53 for an `f64`), and what it yields needs no rounding
again. The run gives it IEEE 754's rounding to the nearest, ties to even, with a
significand of three bits, where a requirement of 14 is left with an inexact
remainder by a first share of 1 (and then falls short) or of 3 (and is then
exceeded). What the properties say of CPU is exact while the requirement is within
the significand (`Exact`); beyond it the sum may fall short of the requirement, or
come out above it. `sorted` is the set of all orderings by id, which
has one member unless ids repeat, and then the offers are refused anyway.

`Registry::offers` is taken apart into its steps: the registry's read lock is
held throughout (registration and removal wait), while the two reads of each
participant's state interleave with transitions. `Renew` is a new participant
object under an old id. Offers are whole capacities, not reduced by earlier
plans, as in the code: two plans may rest on the same resources.

The scheduler is generic in its fabric. `fabric` fixes which one it was built
with: the participant registry, a `MemoryFabric`, whose offers are replaced and
withdrawn between and during calls, or a fabric of the embedder's, which may
return any list.

### Discovery

Each plane has a registry of its own. A participant advertises itself under
growing sequence numbers, each used once, as `ARCHITECTURE.md:83` has it (`upsert`
would also take other content under an equal number); what it sent can arrive at any thread of any plane at
any time, repeatedly, or never. A thread reads the clock, then calls `upsert` or
`members_at` with that time; the lock is taken later, so calls overtake each
other. Senders' clocks are arbitrary: an advertisement may be from the future or
from the epoch, and is then refused, as is one with an invalid identity or
capability. `applied`, `latest` and `floor` are history variables. `floor` says
how strong `HonestAnswers` can be: the code stores the time of the call that
reached the lock last, which may be earlier than that of a call it overlapped, so
a participant may be called stale although an overlapping announcement was more
recent, but never on older evidence than that.

### TcpServer

Concurrent `serve_until`, `serve_n` and `serve_once` calls on clones of one
server. The mode of the listener is read when `accept` is entered, as the kernel
does. `handle_connection` is its outcome (served, failed, panicked, never
returns); `Connection` has it step by step. `late` counts what a call accepts after
its flag was set. Not modelled: failure of `set_nonblocking`, and the poisoned
mutex, which cannot happen since nothing panics while it is held. `serve_once` is a
`serve_n` of one, except that a panicking handler unwinds into its caller instead of
becoming an error.

### Dispatch

A call of `ExecutionDispatcher::dispatch` (also by way of
`Plane::dispatch_execution_plan` and `dispatch_execution_plan_as`). The list of
endpoints is an input: `route` says which participant really answers at the
locator of each unit, or that there is no endpoint. The in-process transport
looks the participant up in its own map, which changes while calls run; its
thread is the executor's thread. Over TCP the thread and the executor are
separate: the thread may give up (`Timeout`), the executor then goes on. The
loopback transport answers `Dispatched` and executes nothing. An endpoint's
executor is a fixed runtime (`RuntimeAdapter`, `NoopParticipantExecutor`), which
ignores the runtime the plan names, or a runtime registry; registration needs the
registry exclusively, so it happens before an endpoint shares it (`building`). A
request keeps the endpoint it has found when that is replaced. An invalid context
and a failing `run` are one outcome of `Run`. The endpoint of this crate answers
`Completed` or fails; the dispatcher would also take `Dispatched` and `Running` for
a success (`src/execution.rs:190-192`), which only the loopback transport and
handlers of an embedder's return.
When two executors of one call panic in process, only the first is joined and
`std::thread::scope` panics in the caller (`src/execution.rs:177`);
`PanicsContained` says that this is the only way. The checks on empty ids and
identity kinds, which a plan made by `from_node` cannot fail, are left out.

### Codec and Connection

A stream is a sequence of numbers, one for each integer or float and one for each
byte of a string. A reader takes what it finds; nothing in a stream says what a
number stands for, so a writer and a reader that disagree show. What one side
writes arrives at the other number by number and may stop anywhere; each side may
give up at any point where a timeout of the socket lets it. A server is bound with
`bind` or with `bind_mtls` and any list of grants; a client uses plain TCP or TLS
with any chain or none. A client may also be another program (`Connect`), which
writes any of `Foreign`, over plain TCP or TLS, and then waits as long as it likes;
for the proofs `Foreign` is any set of streams. A lifetime is a pair of seconds and
nanoseconds that `Duration::new` normalises, and the thread that reads it unwinds
when the seconds overflow (`Panics`). The order of TLS 1.3 is kept: the client's handshake ends
before the server has verified the client. rustls is external: it authenticates
the server against the host in the locator, and a server bound with `bind_mtls`
requires a chain that leads to a client CA. Against a plain server a client hello
is a frame length beyond the limit. The handler may answer anything, with any
request id, or unwind, or never return. Connections share only the allow list,
which never changes, so one is enough. The identities of a request come from
`Identity::new` or `Identity::parse`, so their ids are UUIDs (`MessagesAssumption`):
the fields are public, but nothing in the crate fills them in otherwise.

## Runs

The runs take seconds, the longest under two minutes. Deadlock is not checked for `ControlPlane`,
where threads may stay idle and identities run out, nor for `TcpServer`, where
all calls may have returned or be waiting for clients, nor for `Connection`, which
ends with its request.

| Run | Shows |
|---|---|
| `ControlPlaneTwoVms` | two threads, two VMs: neither VM loses its node or leases to the other (`LeasedVmBacked`, `LiveLeasesStored`, `NoSharedLease`) |
| `ControlPlaneSharedNode` | two VMs over one node, two runtimes, refused plans: `TypeOK`, `BackendSeesOwnPlan`, `StoredLeasesOwned`, and `RefinesLifecycle`: the registry implements `VmLifecycle` |
| `ControlPlaneRaces` | three threads on one VM with two leases: `DestroyReleasesAll`, `DestroyedNodeGone`, `ReleasedForever`, `DestroyCompletes` |
| `ControlPlaneDestroyed` | `DestroyedIsGone` is violated: see findings |
| `Placement` | plans over the registry with three participants, over a changing memory fabric, and over all lists of up to three offers: `TypeOK`, `ExactPlan`, `LifetimeCovered`, `ShortageIsReal`, `PlannedInOrder`, `OnlyActiveOffers`, `SteadyConsidered`, `FabricOffersValid` |
| `TcpServerPool` | a `serve_until` and a `serve_n` call on one listener, five clients, two workers, channel of one, a panic: `TypeOK`, `OkMeansHandled`, `OneMoreAtMost`, `PendingBounded` |
| `TcpServerLive` | one call, a hanging handler: `AcceptedIsHandled`, `ShutdownReturns` |
| `TcpServerPanics`, `TcpServerClones` | `ShutdownReturns` is violated when workers panic, and by two `serve_until` calls: see findings |
| `Dispatch` | two units, over loopback, in process or over TCP, endpoints and runtimes that come and go: `OkMeansAllRan`, `AllOrNothing`, `NothingLeftRunning`, `PanicsContained`, `RemoteCallReturns` |
| `Discovery` | two planes, two threads, one participant: `Converges`, `HonestAnswers` |
| `Connection` | one request over one connection, plain or mutual TLS, of a client of the crate or of another program: `ReadAsSent`, `NoBorrowedIdentity`, `AnsweredOwn`, `NoStandoff`, `WorkerFreed` |

Bounds. Two threads are enough for every pair of operations to overlap; three
let an execution, a destroy and a release meet on one VM. Two leases give a
release loop a middle. One node for two VMs makes them share it; two nodes keep
them apart. Times are 0 (refused), 1 and 2, around one lease interval. Three
offers give one before, one at and one after the point where the requirement is
met; `MaxUnits` is small enough to be reached, `Significand` to be exceeded. The
server's channel is shorter than in the code (16 or more) so that it fills up; five clients are one more than
it can hold with its workers and its own thread. `Dispatch` runs one call: calls
share nothing but the registered endpoints, and those change freely under one.
Two units allow one to fail, panic or hang beside another, and one runtime can be
missing from a registry or be there. `Discovery`: two planes to compare, two
threads so that calls overtake each other, two sequence numbers, one older and one
newer; with `StaleAfter` 1 and `ExpireAfter` 2, times 1 to 3 give every age from 0
to 2, both boundaries included; participants do not interact, so one is enough
(`members_at` fails for all members by one of them, which one member shows).
`Connection`: `MaxFrame` is the length of one of the requests, so that there is
one at the limit and one beyond it; two grants can be for one participant or two,
with one certificate or two; requests with and without source and lifetime, for
each kind of locator, and invalid ones; the version of the peer is 1 or 2.
`MaxSeconds` and `NanosPerSecond` stand for `u64::MAX` and 10^9, small enough for a
request with the longest lifetime and for `Foreign` to overflow it; `Foreign` also has
streams that are empty, too long, cut short, with an item too many, in another
participant's name, with nanoseconds to carry over, and of another version.

Fairness. `ControlPlane`: a thread inside a call is scheduled again (no lock is
held between two actions, so nothing else stops it); nothing forces a new call or
an answer of a backend. `TcpServer`: the threads of a `serve_until` call are
scheduled, and handlers outside `Hanging` return; nothing forces clients to
connect, or the flag to be set. `Dispatch`: the threads of a call are scheduled,
and over TCP each ends, because connecting, writing and reading are bounded by
`IO_TIMEOUT` (`src/transport.rs:176`, for peers that do not keep a read alive byte
by byte, and a resolver that returns); nothing makes an executor return, and in
process a call may therefore never return. `Connection`: what is sent arrives unless
the connection breaks, the thread that serves it goes on with what has arrived, and
when nothing more is on its way the time-out of the socket ends the read
(`configure_stream`); nothing is assumed of the client or of the handler. A time-out
is for one read, so a client that sends a byte now and then keeps a worker for as
long as its frame lasts: `WorkerFreed` holds because frames are finite, and says
nothing of how long that is. The other modules have safety properties only.

## Findings

- `ControlPlaneDestroyed`: `execute_virtual_machine` writes a clone back
  (`src/control.rs:232`), which revives a destroyed VM and also undoes a stop.
  `DestroyedNodeGone` bounds the damage: the revived leased VM has no node, so it
  never executes.
- `TcpServerPanics`: with all workers panicked and the channel full,
  `serve_until` never returns (`src/transport.rs:389`). Workers panic with their
  handler, and also while they read a request whose lifetime overflows a `Duration`
  (`src/transport.rs:974`, `ReadPanics` of `Connection`): the lifetime is built before
  the request is validated.
- `TcpServerClones`: `serve_until` calls on clones disturb each other's listener
  mode (`src/transport.rs:340`).

A failed runtime check leaks leases (`src/control.rs:313`); `StoredLeasesOwned`
shows that these are the only ones. `serve_n` returns at the first error with
threads of other connections still running (`src/transport.rs:314`);
`OkMeansHandled` shows that its success means what its comment says.

Observations that contradict no document, or not clearly:

- a requirement without a lifetime is met from offers with one, and the composite
  then has no lifetime either (`src/scheduler.rs:95`), although `ARCHITECTURE.md:58`
  says that the shortest bounded lifetime wins; `LifetimeCovered` is about bounded
  requirements;
- rounding of CPU shares can refuse a requirement the offers cover
  (`src/scheduler.rs:132-144`): ten offers of 0.1 cores add up to
  0.9999999999999999 and are too little for 1.0; or a small first share makes the
  rounded remainder of a requirement too small, so that the plan falls short although
  a later offer alone is enough. It can also plan a sum above the requirement.
  `ShortageIsReal` and `ExactPlan` show that this is all rounding does;
- `now + duration` panics when it overflows `SystemTime` (`src/control.rs:336`), before
  anything has changed;
- `discovered_participants_at` drops the states it computed (`src/control.rs:91`),
  so a caller cannot tell an expired member from an active one;
- removing a member forgets its sequence number (`src/discovery.rs:155`): a delayed
  older advertisement is accepted afterwards; and a sender that starts over at
  sequence 0 is refused until then;
- clients do not validate node, unit and endpoint ids (only their kinds,
  `src/transport.rs:681-697`), servers do when they read them (961), so a request
  with an id that is no UUID fails with a closed connection; the requests of
  `Connection` have valid ids, as those of a plan made by `from_node` do;
- a dispatch over the loopback transport succeeds without executing anything.

## Proofs

Every invariant the runs check, the action property `ReleasedForever` and the
refinement of `VmLifecycle` are theorems, for any sets of threads, VMs, units,
participants, offers, connections, requests and grants, and any bounds. They rest
on the assumptions the modules state of their constants, which TLC evaluates in
the runs and which say no more than that a model value is not one of the data it
stands beside, that times, sizes and limits are natural numbers, that the rounding of
floats is exact within their significand, that a plan has
finitely many units, and that a server starts a finite pool of at least one worker
(`src/transport.rs:349`). None of the invariants but the type invariants is
inductive; each module of proofs defines the one that is, shows that every action
preserves it, and derives the properties.

`ControlPlaneProofs` (`TypeCorrect`, `ReleasedForeverHolds`, `DestroyReleases`,
`DestroyUnregisters`, `LeasedVmsBacked`, `BackendsSeeOwnPlan`). `IInv` adds:

- `BornOk`, `CopiesOk`: every copy of a VM, in the registry or in a thread, equals
  the VM as created up to its state, so what a stale clone writes back or a
  destroy call releases is known;
- `NodesExclusive`: the node of a leased VM belongs to that VM only, since its
  node is never handed to a caller, so no other call registers or removes it;
- `PendingOk`, `NodesOk`: a VM about to be registered already has its node, and a
  registered leased VM has it until it is removed;
- `ReleaseOk`: a destroy call has released every lease it has passed, and, with
  `ReleasedForever`, they stay out.

`LeaseProofs` (`LeasesNotShared`, `LiveLeasesStay`, `StoredLeasesHaveOwners`,
`ImplementsLifecycle`). `LInv` extends `IInv` by who owns what: leases are granted
to one node, once, when the call that stored them returns; until then that call
alone owns them, with the node and the VM it makes of them; a destroy call owns
what it has not yet released. The refinement needs no more than that: each action
is shown to be a step of `VmLifecycle` or to leave its variables alone, with
`CopiesOk` for the state an execution restores.

`DispatchProofs` (`SuccessMeansAllRan`, `PlansAreWhole`, `ScopesAreClosed`,
`PanicsAreContained`). `IInv` relates the two sides of each
unit, the thread of the caller and the executor, which over TCP may part: what a
thread reports, the executor has done, at home and with a runtime it has; and a
call that is done has the result of its threads.

`DiscoveryProofs` (`PlanesConverge`, `AnswersAreHonest`). A member is the accepted
advertisement with the greatest sequence number since the last removal, so the set
of those accepted determines it; the times a thread carries are not later than
`latest` once they are stored, and not earlier than `floor`.

`TcpServerProofs` (`TypeHolds`, `OkCallsHandledAll`, `ShutdownStopsAccepting`,
`BackPressureHolds`). Each connection is in one place:
in the backlog, in the hand of an accepting thread, in one channel, once, or with
one worker. A worker leaves only when the channel is empty and its sender gone, so
what is in the channel at shutdown still finds one; or by a panic, which then shows
in the result. After its flag is set a call passes the look at the flag no more, so it
is at most one accept away from stopping.

`SchedulerProofs`, `PlacementProofs` (`TypeHolds`, `PlansAddUp`,
`PlansLastLongEnough`, `GreedyIsComplete`, `PlansFollowTheIds`,
`PlansRestOnOfferers`, `SteadyAreConsidered`, `OwnOffersAreValid`). The loop
invariant says what the running total is made of: the allocations so far, which
are what the offers passed can give, in the order of their ids, below the
saturation of the counters and, for CPU, exact while the requirement is within the
significand; nothing else is used of the rounding. For the fabrics, everyone in the list was offering at
some time in the call, and whoever has been offering throughout is in the list if
his turn has come; this holds between the two reads of a state.

`ConnectionProofs` (`RequestRead`, `ResponseRead`, `RequestsAreReadAsSent`,
`IdentitiesAreNotBorrowed`, `AnswersAreOwn`, `NobodyWaitsInVain`). First the round trip: each reader,
applied to what its writer wrote and anything behind it, returns the value and what
is behind; `items` therefore finds every item of a layout, and a request or a
response comes back as it was, whatever its size, and no lifetime of a `Duration` makes
its reader panic. What has arrived of a frame is
no whole frame until all of it is there. On the connection, what was written to the
server is nothing, a client hello, the request in plain, or the request behind a
handshake with the server the locator names, or else anything, by another program;
whoever reaches the handler of a
mutual-TLS server has a verified chain whose leaf was granted to one id, the one in
the request.

Sums over lists, `capacity` and `items` are recursive functions over the positions
of a list. The library's induction theorems take a predicate, which the provers
cannot instantiate; `SchedulerProofs` states induction for sets (`Induct`) and the
existence of a recursive function for given steps (`RecursionExists`) from the
well-foundedness of `<`, and `ConnectionProofs` uses a least counterexample.

Only model-checked: the liveness properties `DestroyCompletes`,
`AcceptedIsHandled`, `ShutdownReturns`, `RemoteCallReturns` and `WorkerFreed`, which
depend on fairness and `ENABLED`, and the violations under findings.

## Plan

1. The steps from which liveness follows, as far as they are safety: that a
   `serve_until` call whose flag is set and whose workers live always has an action
   to take, and that each of them brings it nearer to its end.
2. The backend of `ControlPlane` refined by a `Dispatch` call; leases that reduce
   what is offered, so that plans over one fabric can be related.

## Not modelled

The demo binary; UUID, UTF-8 and PEM syntax and key parsing; the ranges of a capability (in range or not
is all an advertisement keeps of them); rustls and sockets beyond what is said
above; lookups that only read (`get_*`, `len`, `contains`, `remaining_at`,
`available_for`, `total_resources`).
