------------------------------- MODULE Dispatch -------------------------------
(***************************************************************************)
(* ExecutionDispatcher::dispatch (execution.rs:136-209) over the           *)
(* loopback transport (transport.rs:1053-1092), the in-process one         *)
(* (transport.rs:143-174) or TCP (transport.rs:519-531, 662-672), and the  *)
(* participant endpoints that run the units (endpoint.rs:143-171, 186-222) *)
(* with the runtimes of their registry (runtime.rs:77-135).                *)
(*                                                                         *)
(* The loopback transport answers without executing anything.              *)
(*                                                                         *)
(* A call starts one scoped thread per unit of its plan and waits for all  *)
(* of them.  In process the thread itself runs the executor.  Over TCP it  *)
(* waits for the answer of a server, no longer than a timeout, and the     *)
(* server goes on by itself.  Calls share the registered endpoints only; a *)
(* request keeps the endpoint it has found.                                *)
(***************************************************************************)
EXTENDS Naturals, FiniteSets

CONSTANTS
  Calls,     \* dispatch calls for one workload
  Units,     \* the participants the units of its plan are allocated on
  Runtimes,  \* the runtime specifications plans name
  None

ASSUME UnitsAssumption == Units # {} /\ IsFiniteSet(Units) /\ None \notin Units
ASSUME RuntimesAssumption == Runtimes # {}

Kinds == {"loopback", "local", "tcp"}

\* The executor of an endpoint: its own runtime, whatever the plan names, or a
\* registry of runtimes.
Executors == [registry: {FALSE}, runtimes: {{}}] \cup [registry: {TRUE}, runtimes: SUBSET Runtimes]

ASSUME NoneAssumption == None \notin Executors

VARIABLES
  building,     \* the runtime registry each participant is filling
  endpoint,     \* the executor of its endpoint, if that is registered or served
  pc,           \* of a call: "idle", "scope", "done"
  kind,         \* its transport
  runtime,      \* the runtime of its plan
  route,        \* its endpoints: the participant found at the locator of each
  thread,       \* its thread for each unit
  exec,         \* the executor's side of each unit
  executor,     \* the executor a unit has got to
  result        \* what it returned

sites == <<building, endpoint>>
plan == <<kind, runtime, route>>
vars == <<sites, pc, plan, thread, exec, executor, result>>

\* How the thread of a unit ends: with a completed response, an error, a panic.
Ended == {"answered", "rejected", "panicked"}

Init ==
  /\ building = [u \in Units |-> {}]
  /\ endpoint = [u \in Units |-> None]
  /\ pc = [c \in Calls |-> "idle"]
  /\ kind = [c \in Calls |-> None]
  /\ runtime = [c \in Calls |-> None]
  /\ route = [c \in Calls |-> [u \in Units |-> None]]
  /\ thread = [c \in Calls |-> [u \in Units |-> "none"]]
  /\ exec = [c \in Calls |-> [u \in Units |-> "none"]]
  /\ executor = [c \in Calls |-> [u \in Units |-> None]]
  /\ result = [c \in Calls |-> "none"]

\* RuntimeRegistry::register; it needs the registry for itself, so not once an
\* endpoint shares it.  A second runtime under one name and version is refused.
RegisterRuntime(u, r) ==
  /\ r \notin building[u]
  /\ building' = [building EXCEPT ![u] = @ \cup {r}]
  /\ UNCHANGED <<endpoint, pc, plan, thread, exec, executor, result>>

\* EndpointTransport::register, or a server that starts to listen.
Register(u, e) ==
  /\ endpoint[u] = None
  /\ e.registry => e.runtimes = building[u]
  /\ endpoint' = [endpoint EXCEPT ![u] = e]
  /\ building' = [building EXCEPT ![u] = IF e.registry THEN {} ELSE @]
  /\ UNCHANGED <<pc, plan, thread, exec, executor, result>>

\* A request that has found its endpoint is not affected.
Unregister(u) ==
  /\ endpoint[u] # None
  /\ endpoint' = [endpoint EXCEPT ![u] = None]
  /\ UNCHANGED <<building, pc, plan, thread, exec, executor, result>>

-----------------------------------------------------------------------------
\* Mutant: units that have an endpoint are sent, whatever the others have.
DispatchSome(c, k, r, endpoints, matches) ==
  /\ pc[c] = "idle"
  /\ kind' = [kind EXCEPT ![c] = k] /\ runtime' = [runtime EXCEPT ![c] = r]
  /\ route' = [route EXCEPT ![c] = endpoints]
  /\ thread' = [thread EXCEPT ![c] = [u \in Units |->
                  IF endpoints[u] = None \/ ~ matches THEN "rejected" ELSE "start"]]
  /\ pc' = [pc EXCEPT ![c] = "scope"]
  /\ UNCHANGED <<sites, exec, executor, result>>

\* The call checks the workload and finds an endpoint for every unit before it
\* starts the threads.
Dispatch(c, k, r, endpoints, matches) ==
  /\ pc[c] = "idle"
  /\ kind' = [kind EXCEPT ![c] = k] /\ runtime' = [runtime EXCEPT ![c] = r]
  /\ route' = [route EXCEPT ![c] = endpoints]
  /\ \/ /\ matches /\ \A u \in Units : endpoints[u] # None
        /\ thread' = [thread EXCEPT ![c] = [u \in Units |-> "start"]]
        /\ pc' = [pc EXCEPT ![c] = "scope"]
        /\ UNCHANGED result
     \/ /\ ~ matches \/ \E u \in Units : endpoints[u] = None
        /\ pc' = [pc EXCEPT ![c] = "done"]
        /\ result' = [result EXCEPT ![c] = "error"]
        /\ UNCHANGED thread
  /\ UNCHANGED <<sites, exec, executor>>

Thread(c, u, label) == thread' = [thread EXCEPT ![c][u] = label]
Exec(c, u, label) == exec' = [exec EXCEPT ![c][u] = label]

\* LoopbackTransport::dispatch: the request is Dispatched, to nobody.
Loopback(c, u) ==
  /\ kind[c] = "loopback" /\ thread[c][u] = "start"
  /\ Thread(c, u, "answered")
  /\ UNCHANGED <<sites, pc, plan, exec, executor, result>>

\* The endpoint a request reaches: by participant in process, by locator over
\* TCP.
Site(c, u) == IF kind[c] = "local" THEN u ELSE route[c][u]

Reach(c, u) ==
  /\ Exec(c, u, "received")
  /\ executor' = [executor EXCEPT ![c][u] = endpoint[Site(c, u)]]

\* EndpointTransport::dispatch looks the unit's participant up and runs what it
\* found without the lock.
Lookup(c, u) ==
  /\ kind[c] = "local" /\ thread[c][u] = "start"
  /\ \/ endpoint[u] # None /\ Thread(c, u, "waiting") /\ Reach(c, u)
     \/ endpoint[u] = None /\ Thread(c, u, "rejected") /\ UNCHANGED <<exec, executor>>
  /\ UNCHANGED <<sites, pc, plan, result>>

\* TcpTransport::dispatch connects and writes the request; what was written may
\* not arrive.
Send(c, u, arrives) ==
  /\ kind[c] = "tcp" /\ thread[c][u] = "start"
  /\ endpoint[route[c][u]] # None
  /\ Thread(c, u, "waiting")
  /\ IF arrives THEN Reach(c, u) ELSE UNCHANGED <<exec, executor>>
  /\ UNCHANGED <<sites, pc, plan, result>>

\* The connection fails or an answer does not come in time.
Timeout(c, u) ==
  /\ kind[c] = "tcp" /\ thread[c][u] \in {"start", "waiting"}
  /\ Thread(c, u, "rejected")
  /\ UNCHANGED <<sites, pc, plan, exec, executor, result>>

-----------------------------------------------------------------------------
\* validate_request: the unit is for the endpoint's own participant.
accepts(site, u) == site = u

\* RuntimeRegistry::resolve finds the runtime; an executor without a registry does
\* not look at it.
resolves(e, r) == e.registry => r \in e.runtimes

\* ParticipantExecutionEndpoint::handle up to the run of the runtime.
Handle(c, u) ==
  /\ exec[c][u] = "received"
  /\ Exec(c, u, IF accepts(Site(c, u), u) /\ resolves(executor[c][u], runtime[c])
                THEN "running" ELSE "failed")
  /\ UNCHANGED <<sites, pc, plan, thread, executor, result>>

\* The runtime returns or unwinds.
Run(c, u, how) ==
  /\ exec[c][u] = "running"
  /\ Exec(c, u, how)
  /\ UNCHANGED <<sites, pc, plan, thread, executor, result>>

\* Mutant: any answer counts.
AnswerAny(c, u) ==
  /\ thread[c][u] = "waiting"
  /\ exec[c][u] \in {"completed", "failed", "panicked"}
  /\ Thread(c, u, "answered")
  /\ UNCHANGED <<sites, pc, plan, exec, executor, result>>

\* Mutant: an unwinding server takes the client with it.
AnswerUnwinds(c, u) ==
  /\ thread[c][u] = "waiting"
  /\ exec[c][u] \in {"completed", "failed", "panicked"}
  /\ Thread(c, u, CASE exec[c][u] = "completed" -> "answered"
                    [] exec[c][u] = "panicked" -> "panicked"
                    [] OTHER -> "rejected")
  /\ UNCHANGED <<sites, pc, plan, exec, executor, result>>

\* What the thread makes of it.  The endpoints of this crate answer Completed or
\* Failed (endpoint.rs:143-171); dispatch would also count Dispatched and Running as
\* success, which only a handler of the caller's own, outside this model, can answer
\* over a transport that executes.  An executor that unwinds in process takes the
\* thread with it; a server that unwinds closes the connection.
Answer(c, u) ==
  /\ thread[c][u] = "waiting"
  /\ exec[c][u] \in {"completed", "failed", "panicked"}
  /\ Thread(c, u, CASE exec[c][u] = "completed" -> "answered"
                    [] exec[c][u] = "panicked" /\ kind[c] = "local" -> "panicked"
                    [] OTHER -> "rejected")
  /\ UNCHANGED <<sites, pc, plan, exec, executor, result>>

-----------------------------------------------------------------------------
\* The joins stop at the first thread that panicked; when another one did too,
\* it is never joined and the scope itself panics.
Outcome(c) ==
  LET panics == {u \in Units : thread[c][u] = "panicked"}
  IN  IF Cardinality(panics) > 1 THEN "panic"
      ELSE IF \A u \in Units : thread[c][u] = "answered" THEN "ok" ELSE "error"

\* Mutant: the call returns with the first thread that did not succeed.
ScopeEndsEarly(c) ==
  /\ pc[c] = "scope"
  /\ \/ \A u \in Units : thread[c][u] \in Ended
     \/ \E u \in Units : thread[c][u] \in Ended \ {"answered"}
  /\ result' = [result EXCEPT ![c] = Outcome(c)]
  /\ pc' = [pc EXCEPT ![c] = "done"]
  /\ UNCHANGED <<sites, plan, thread, exec, executor>>

\* Mutant: the scope waits for the executors as well.
ScopeEndsLate(c) ==
  /\ pc[c] = "scope"
  /\ \A u \in Units : thread[c][u] \in Ended /\ exec[c][u] \notin {"received", "running"}
  /\ result' = [result EXCEPT ![c] = Outcome(c)]
  /\ pc' = [pc EXCEPT ![c] = "done"]
  /\ UNCHANGED <<sites, plan, thread, exec, executor>>

\* The scope ends when all its threads have, joined or not; then the responses
\* are looked at.
ScopeEnds(c) ==
  /\ pc[c] = "scope"
  /\ \A u \in Units : thread[c][u] \in Ended
  /\ result' = [result EXCEPT ![c] = Outcome(c)]
  /\ pc' = [pc EXCEPT ![c] = "done"]
  /\ UNCHANGED <<sites, plan, thread, exec, executor>>

-----------------------------------------------------------------------------
Client(c, u) ==
  Loopback(c, u) \/ Lookup(c, u) \/ Send(c, u, TRUE) \/ Timeout(c, u) \/ Answer(c, u)

Next ==
  \/ \E u \in Units :
       \/ \E r \in Runtimes : RegisterRuntime(u, r)
       \/ \E e \in Executors : Register(u, e)
       \/ Unregister(u)
  \/ \E c \in Calls :
       \/ \E k \in Kinds, r \in Runtimes, endpoints \in [Units -> Units \cup {None}],
            matches \in BOOLEAN : Dispatch(c, k, r, endpoints, matches)
       \/ \E u \in Units :
            \/ Client(c, u) \/ Send(c, u, FALSE) \/ Handle(c, u)
            \/ \E how \in {"completed", "failed", "panicked"} : Run(c, u, how)
       \/ ScopeEnds(c)

\* The threads of a call are scheduled, and over TCP connecting, writing and
\* reading end within IO_TIMEOUT.  Nothing makes an executor return.
Spec ==
  /\ Init /\ [][Next]_vars
  /\ \A c \in Calls : WF_vars(ScopeEnds(c)) /\ \A u \in Units : WF_vars(Client(c, u))

-----------------------------------------------------------------------------
\* Success of a transport that executes means that every unit of the plan ran to
\* completion on its own participant, and under the runtime its plan names where
\* the participant's executor has a registry, however requests were lost,
\* misrouted and answered late and endpoints were replaced (execution.rs:181-203,
\* endpoint.rs:82-97).
OkMeansAllRan ==
  \A c \in Calls : result[c] = "ok" /\ kind[c] # "loopback" =>
    \A u \in Units :
      /\ exec[c][u] = "completed" /\ Site(c, u) = u
      /\ executor[c][u].registry => runtime[c] \in executor[c][u].runtimes

\* A plan with a unit that has no endpoint is refused as a whole: none of its
\* units is ever executed (execution.rs:148-169).
AllOrNothing ==
  \A c \in Calls, u \in Units :
    exec[c][u] # "none" => \A v \in Units : route[c][v] # None

\* In process nothing of a call runs on after it returned, with whatever result:
\* the caller may take the node apart (execution.rs:171-179).
NothingLeftRunning ==
  \A c \in Calls : pc[c] = "done" /\ kind[c] = "local" =>
    \A u \in Units : exec[c][u] \notin {"received", "running"}

\* An executor that unwinds does not unwind the caller, unless two of one call
\* do so in process; a remote one never does (execution.rs:177).
PanicsContained ==
  \A c \in Calls : result[c] = "panic" =>
    /\ kind[c] = "local"
    /\ Cardinality({u \in Units : exec[c][u] = "panicked"}) > 1

\* Over TCP every call returns, even when executors never do
\* (transport.rs:503-508, 662-672).
RemoteCallReturns ==
  \A c \in Calls : (pc[c] = "scope" /\ kind[c] = "tcp") ~> pc[c] = "done"
=============================================================================
