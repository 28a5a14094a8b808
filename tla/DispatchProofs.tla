---------------------------- MODULE DispatchProofs ----------------------------
(***************************************************************************)
(* Proofs about Dispatch, for any number of overlapping calls, units and   *)
(* runtimes.                                                               *)
(***************************************************************************)
EXTENDS Dispatch, FiniteSetTheorems, TLAPS

\* The types of the labels a thread and an executor's side can have.
ThreadLabels == {"none", "start", "waiting"} \cup Ended
ExecLabels == {"none", "received", "running", "completed", "failed", "panicked"}

\* The types of the calls, their threads and the executors' side.
Types ==
  /\ building \in [Units -> SUBSET Runtimes]
  /\ endpoint \in [Units -> Executors \cup {None}]
  /\ pc \in [Calls -> {"idle", "scope", "done"}]
  /\ kind \in [Calls -> Kinds \cup {None}]
  /\ runtime \in [Calls -> Runtimes \cup {None}]
  /\ route \in [Calls -> [Units -> Units \cup {None}]]
  /\ thread \in [Calls -> [Units -> ThreadLabels]]
  /\ exec \in [Calls -> [Units -> ExecLabels]]
  /\ executor \in [Calls -> [Units -> Executors \cup {None}]]
  /\ result \in [Calls -> {"none", "ok", "error", "panic"}]

\* A call starts its threads together and once, with a route for every unit.
ThreadsOk ==
  \A c \in Calls, u \in Units :
    /\ pc[c] = "idle" => thread[c][u] = "none"
    /\ pc[c] = "scope" => thread[c][u] # "none"
    /\ thread[c][u] # "none" => kind[c] \in Kinds /\ \A v \in Units : route[c][v] # None

\* The executor's side of a unit begins when its thread has sent the request, and
\* in process the thread stays with it until it ends.
ExecOk ==
  \A c \in Calls, u \in Units :
    /\ thread[c][u] \in {"none", "start"} => exec[c][u] = "none"
    /\ exec[c][u] # "none" => kind[c] \in {"local", "tcp"} /\ executor[c][u] \in Executors
    /\ kind[c] = "local" /\ exec[c][u] \in {"received", "running"} =>
         thread[c][u] = "waiting"

\* What runs or has run, runs at home and under a runtime of its executor.
HomeOk ==
  \A c \in Calls, u \in Units :
    exec[c][u] \in {"running", "completed", "panicked"} =>
      Site(c, u) = u /\ resolves(executor[c][u], runtime[c])

\* How the thread of a unit ended agrees with the executor's side.
EndedOk ==
  \A c \in Calls, u \in Units :
    /\ thread[c][u] = "answered" /\ kind[c] # "loopback" => exec[c][u] = "completed"
    /\ thread[c][u] = "panicked" => kind[c] = "local" /\ exec[c][u] = "panicked"

\* A call has a result when it is done, and then that of its threads, all ended.
ResultOk ==
  \A c \in Calls :
    /\ pc[c] # "done" => result[c] = "none"
    /\ pc[c] = "done" =>
         \A u \in Units : thread[c][u] \in Ended \cup {"none"}
    /\ result[c] = "ok" => \A u \in Units : thread[c][u] = "answered"
    /\ result[c] = "panic" =>
         \E u, v \in Units : u # v /\ thread[c][u] = "panicked" /\ thread[c][v] = "panicked"

\* The inductive invariant.
IInv == Types /\ ThreadsOk /\ ExecOk /\ HomeOk /\ EndedOk /\ ResultOk

-----------------------------------------------------------------------------
\* A finite set has more than one element when it has two different ones.
LEMMA TwoElements ==
  ASSUME NEW S, IsFiniteSet(S)
  PROVE  Cardinality(S) > 1 <=> \E x, y \in S : x # y
<1>1. Cardinality(S) \in Nat
  BY FS_CardinalityType
<1>2. ASSUME Cardinality(S) > 1
      PROVE  \E x, y \in S : x # y
  <2>1. PICK x \in S : TRUE
    BY <1>2, FS_EmptySet
  <2>2. S # {x}
    BY <1>2, FS_Singleton
  <2>3. QED
    BY <2>1, <2>2
<1>3. ASSUME NEW x \in S, NEW y \in S, x # y
      PROVE  Cardinality(S) > 1
  <2>1. Cardinality(S) # 0 /\ Cardinality(S) # 1
    BY <1>3, FS_EmptySet, FS_Singleton
  <2>2. QED
    BY <1>1, <2>1
<1>4. QED
  BY <1>2, <1>3

\* The initial state satisfies the inductive invariant.
LEMMA InvInit == Init => IInv
<1> SUFFICES ASSUME Init PROVE IInv
  OBVIOUS
<1>1. Types
  BY DEF Init, Types, ThreadLabels, ExecLabels
<1>2. ThreadsOk /\ ExecOk /\ HomeOk /\ EndedOk /\ ResultOk
  BY DEF Init, ThreadsOk, ExecOk, HomeOk, EndedOk, ResultOk, Ended
<1>3. QED
  BY <1>1, <1>2 DEF IInv

\* A step of one unit of one call keeps the type of what the calls keep per unit,
\* and changes nothing of other units.
LEMMA UnitUpdate ==
  ASSUME NEW S, NEW f \in [Calls -> [Units -> S]], NEW c \in Calls, NEW u \in Units,
         NEW x \in S
  PROVE  /\ [f EXCEPT ![c][u] = x] \in [Calls -> [Units -> S]]
         /\ \A d \in Calls, v \in Units :
              [f EXCEPT ![c][u] = x][d][v] = IF d = c /\ v = u THEN x ELSE f[d][v]
  OBVIOUS

\* Thread and Exec write one entry.
LEMMA ThreadEffect ==
  ASSUME Types, NEW c \in Calls, NEW u \in Units, NEW label \in ThreadLabels,
         Thread(c, u, label)
  PROVE  /\ thread' \in [Calls -> [Units -> ThreadLabels]]
         /\ \A d \in Calls, v \in Units :
              thread'[d][v] = IF d = c /\ v = u THEN label ELSE thread[d][v]
<1>1. thread \in [Calls -> [Units -> ThreadLabels]]
  BY DEF Types, ThreadLabels
<1>2. thread' = [thread EXCEPT ![c][u] = label]
  BY DEF Thread
<1> HIDE DEF ThreadLabels
<1>3. QED
  BY <1>1, <1>2, UnitUpdate

\* What Exec does to the executions: it relabels one unit of one call.
LEMMA ExecEffect ==
  ASSUME Types, NEW c \in Calls, NEW u \in Units, NEW label \in ExecLabels,
         Exec(c, u, label)
  PROVE  /\ exec' \in [Calls -> [Units -> ExecLabels]]
         /\ \A d \in Calls, v \in Units :
              exec'[d][v] = IF d = c /\ v = u THEN label ELSE exec[d][v]
<1>1. exec \in [Calls -> [Units -> ExecLabels]]
  BY DEF Types, ExecLabels
<1>2. exec' = [exec EXCEPT ![c][u] = label]
  BY DEF Exec
<1>3. QED
  BY <1>1, <1>2, UnitUpdate

\* A request that reaches an endpoint is received there, by its executor.
LEMMA ReachEffect ==
  ASSUME Types, NEW c \in Calls, NEW u \in Units, Site(c, u) \in Units, Reach(c, u)
  PROVE  /\ exec' \in [Calls -> [Units -> ExecLabels]]
         /\ \A d \in Calls, v \in Units :
              exec'[d][v] = IF d = c /\ v = u THEN "received" ELSE exec[d][v]
         /\ executor' \in [Calls -> [Units -> Executors \cup {None}]]
         /\ \A d \in Calls, v \in Units :
              executor'[d][v] = IF d = c /\ v = u THEN endpoint[Site(c, u)] ELSE executor[d][v]
<1>1. Exec(c, u, "received") /\ "received" \in ExecLabels
  BY DEF Reach, ExecLabels
<1>2. executor' = [executor EXCEPT ![c][u] = endpoint[Site(c, u)]]
  BY DEF Reach
<1>3. /\ endpoint[Site(c, u)] \in Executors \cup {None}
      /\ executor \in [Calls -> [Units -> Executors \cup {None}]]
  BY DEF Types
<1>4. QED
  BY <1>1, <1>2, <1>3, ExecEffect, UnitUpdate

\* The checks of the call, with the whole plan in one step.
LEMMA DispatchStep ==
  ASSUME IInv, NEW c \in Calls, NEW k \in Kinds, NEW r \in Runtimes,
         NEW endpoints \in [Units -> Units \cup {None}], NEW matches \in BOOLEAN,
         Dispatch(c, k, r, endpoints, matches)
  PROVE  IInv'
<1>1. /\ pc[c] = "idle" /\ result[c] = "none"
      /\ \A u \in Units : thread[c][u] = "none" /\ exec[c][u] = "none"
  BY DEF IInv, ThreadsOk, ExecOk, ResultOk, Dispatch
<1>2. /\ UNCHANGED <<building, endpoint, exec, executor>>
      /\ kind' = [kind EXCEPT ![c] = k]
      /\ runtime' = [runtime EXCEPT ![c] = r]
      /\ route' = [route EXCEPT ![c] = endpoints]
  BY DEF Dispatch, sites
<1>3. \/ /\ \A u \in Units : endpoints[u] # None
         /\ thread' = [thread EXCEPT ![c] = [u \in Units |-> "start"]]
         /\ pc' = [pc EXCEPT ![c] = "scope"]
         /\ result' = result
      \/ /\ thread' = thread
         /\ pc' = [pc EXCEPT ![c] = "done"]
         /\ result' = [result EXCEPT ![c] = "error"]
  BY DEF Dispatch
<1>4. \A d \in Calls : d # c =>
        /\ kind'[d] = kind[d] /\ runtime'[d] = runtime[d] /\ route'[d] = route[d]
        /\ thread'[d] = thread[d] /\ pc'[d] = pc[d] /\ result'[d] = result[d]
  BY <1>2, <1>3 DEF IInv, Types
<1>5. kind'[c] = k /\ runtime'[c] = r /\ route'[c] = endpoints
  BY <1>2 DEF IInv, Types
<1>6. \/ /\ \A u \in Units : thread'[c][u] = "start" /\ endpoints[u] # None
         /\ pc'[c] = "scope" /\ result'[c] = "none"
      \/ /\ \A u \in Units : thread'[c][u] = "none"
         /\ pc'[c] = "done" /\ result'[c] = "error"
  BY <1>1, <1>3 DEF IInv, Types
<1>7. Types'
  <2>1. [u \in Units |-> "start"] \in [Units -> ThreadLabels]
    BY DEF ThreadLabels
  <2>2. thread' \in [Calls -> [Units -> ThreadLabels]]
    BY <1>3, <2>1 DEF IInv, Types
  <2>3. QED
    BY <1>2, <1>3, <2>2, ZenonT(40) DEF IInv, Types
<1>8. ThreadsOk' /\ ExecOk'
  BY <1>1, <1>2, <1>4, <1>5, <1>6 DEF IInv, ThreadsOk, ExecOk
<1>9. HomeOk'
  BY <1>1, <1>2, <1>4 DEF IInv, HomeOk, Site
<1>10. EndedOk'
  BY <1>1, <1>2, <1>4, <1>6 DEF IInv, EndedOk
<1>11. ResultOk'
  BY <1>1, <1>4, <1>6 DEF IInv, ResultOk, Ended
<1>12. QED
  BY <1>7, <1>8, <1>9, <1>10, <1>11 DEF IInv

\* The end of the scope.
LEMMA ScopeStep ==
  ASSUME IInv, NEW c \in Calls, ScopeEnds(c)
  PROVE  IInv'
<1>1. /\ pc[c] = "scope" /\ \A u \in Units : thread[c][u] \in Ended
      /\ UNCHANGED <<building, endpoint, kind, runtime, route, thread, exec, executor>>
      /\ pc' = [pc EXCEPT ![c] = "done"]
      /\ result' = [result EXCEPT ![c] = Outcome(c)]
  BY DEF ScopeEnds, sites, plan
<1>2. /\ Outcome(c) \in {"ok", "error", "panic"}
      /\ Outcome(c) = "ok" => \A u \in Units : thread[c][u] = "answered"
      /\ Outcome(c) = "panic" =>
           \E u, v \in Units : u # v /\ thread[c][u] = "panicked" /\ thread[c][v] = "panicked"
  <2> DEFINE panics == {u \in Units : thread[c][u] = "panicked"}
  <2>1. /\ Outcome(c) \in {"ok", "error", "panic"}
        /\ Outcome(c) = "ok" => \A u \in Units : thread[c][u] = "answered"
        /\ Outcome(c) = "panic" => Cardinality(panics) > 1
    BY DEF Outcome
  <2>2. IsFiniteSet(panics)
    BY UnitsAssumption, FS_Subset
  <2>3. Cardinality(panics) > 1 => \E u, v \in panics : u # v
    BY <2>2, TwoElements
  <2>4. QED
    BY <2>1, <2>3
<1>3. Types'
  BY <1>1, <1>2 DEF IInv, Types
<1>4. \A d \in Calls : pc'[d] = (IF d = c THEN "done" ELSE pc[d])
                      /\ result'[d] = (IF d = c THEN Outcome(c) ELSE result[d])
  BY <1>1 DEF IInv, Types
<1>5. ThreadsOk' /\ ExecOk' /\ HomeOk' /\ EndedOk'
  BY <1>1, <1>4 DEF IInv, ThreadsOk, ExecOk, HomeOk, EndedOk, Site
<1>6. ResultOk'
  BY <1>1, <1>2, <1>4 DEF IInv, ResultOk, Ended
<1>7. QED
  BY <1>3, <1>5, <1>6 DEF IInv

\* A step of the client's thread of one unit, which leaves the executor's side
\* alone, keeps the invariant when the label it writes is right.
LEMMA ThreadOnly ==
  ASSUME IInv, NEW c \in Calls, NEW u \in Units, NEW label \in ThreadLabels,
         Thread(c, u, label), UNCHANGED <<sites, pc, plan, exec, executor, result>>,
         thread[c][u] \in {"start", "waiting"}, label \in {"waiting"} \cup Ended,
         label = "answered" /\ kind[c] # "loopback" => exec[c][u] = "completed",
         label = "panicked" => kind[c] = "local" /\ exec[c][u] = "panicked",
         kind[c] = "local" /\ exec[c][u] \in {"received", "running"} => label = "waiting"
  PROVE  IInv'
<1>1. UNCHANGED <<building, endpoint, kind, runtime, route, pc, exec, executor, result>>
  BY DEF sites, plan
<1>2. /\ thread' \in [Calls -> [Units -> ThreadLabels]]
      /\ \A d \in Calls, v \in Units :
           thread'[d][v] = IF d = c /\ v = u THEN label ELSE thread[d][v]
  BY ThreadEffect DEF IInv
<1>3. pc[c] = "scope"
  <2>1. pc[c] \in {"idle", "scope", "done"}
    BY DEF IInv, Types
  <2>2. pc[c] # "idle"
    BY DEF IInv, ThreadsOk
  <2>3. pc[c] # "done"
    BY DEF IInv, ResultOk, Ended
  <2>4. QED
    BY <2>1, <2>2, <2>3
<1>4. result[c] = "none"
  BY <1>3 DEF IInv, ResultOk
<1>5. Types'
  BY <1>1, <1>2 DEF IInv, Types
<1>6. ThreadsOk' /\ ExecOk' /\ HomeOk' /\ EndedOk'
  BY <1>1, <1>2, <1>3 DEF IInv, ThreadsOk, ExecOk, HomeOk, EndedOk, Site, Ended
<1>7. ResultOk'
  BY <1>1, <1>2, <1>3, <1>4 DEF IInv, ResultOk
<1>8. QED
  BY <1>5, <1>6, <1>7 DEF IInv

\* A request that reaches an endpoint.
LEMMA ReachStep ==
  ASSUME IInv, NEW c \in Calls, NEW u \in Units, kind[c] \in {"local", "tcp"},
         thread[c][u] = "start", Site(c, u) \in Units, endpoint[Site(c, u)] # None,
         Thread(c, u, "waiting"), Reach(c, u), UNCHANGED <<sites, pc, plan, result>>
  PROVE  IInv'
<1>1. UNCHANGED <<building, endpoint, kind, runtime, route, pc, result>>
  BY DEF sites, plan
<1>2. /\ thread' \in [Calls -> [Units -> ThreadLabels]]
      /\ \A d \in Calls, v \in Units :
           thread'[d][v] = IF d = c /\ v = u THEN "waiting" ELSE thread[d][v]
  <2>1. "waiting" \in ThreadLabels
    BY DEF ThreadLabels
  <2>2. QED
    BY <2>1, ThreadEffect DEF IInv
<1>3. /\ exec' \in [Calls -> [Units -> ExecLabels]]
      /\ \A d \in Calls, v \in Units :
           exec'[d][v] = IF d = c /\ v = u THEN "received" ELSE exec[d][v]
      /\ executor' \in [Calls -> [Units -> Executors \cup {None}]]
      /\ \A d \in Calls, v \in Units :
           executor'[d][v] = IF d = c /\ v = u THEN endpoint[Site(c, u)] ELSE executor[d][v]
  BY ReachEffect DEF IInv
<1>4. pc[c] = "scope"
  <2>1. pc[c] \in {"idle", "scope", "done"}
    BY DEF IInv, Types
  <2>2. pc[c] # "idle"
    BY DEF IInv, ThreadsOk
  <2>3. pc[c] # "done"
    BY DEF IInv, ResultOk, Ended
  <2>4. QED
    BY <2>1, <2>2, <2>3
<1>5. result[c] = "none"
  BY <1>4 DEF IInv, ResultOk
<1>6. endpoint[Site(c, u)] \in Executors
  BY DEF IInv, Types
<1>7. Types'
  BY <1>1, <1>2, <1>3 DEF IInv, Types
<1>8. ThreadsOk' /\ ExecOk'
  <2>1. ThreadsOk'
    BY <1>1, <1>2, <1>4 DEF IInv, ThreadsOk
  <2>2. ExecOk'
    BY <1>1, <1>2, <1>3, <1>6, SMTT(30) DEF IInv, ExecOk
  <2>3. QED
    BY <2>1, <2>2
<1>9. HomeOk' /\ EndedOk'
  <2>1. HomeOk'
    BY <1>1, <1>3 DEF IInv, HomeOk, Site
  <2>2. EndedOk'
    <3>1. ASSUME NEW d \in Calls, NEW v \in Units, thread'[d][v] \in {"answered", "panicked"}
          PROVE  thread'[d][v] = thread[d][v] /\ exec'[d][v] = exec[d][v]
      BY <1>2, <1>3, <3>1
    <3>2. QED
      BY <1>1, <3>1 DEF IInv, EndedOk
  <2>3. QED
    BY <2>1, <2>2
<1>10. ResultOk'
  BY <1>1, <1>2, <1>4, <1>5 DEF IInv, ResultOk
<1>11. QED
  BY <1>7, <1>8, <1>9, <1>10 DEF IInv

\* A step of the executor's side of one unit that has begun.
LEMMA ExecOnly ==
  ASSUME IInv, NEW c \in Calls, NEW u \in Units, NEW label \in ExecLabels,
         Exec(c, u, label), UNCHANGED <<sites, pc, plan, thread, executor, result>>,
         exec[c][u] \in {"received", "running"}, label \notin {"none", "received"},
         label \in {"running", "completed", "panicked"} =>
           Site(c, u) = u /\ resolves(executor[c][u], runtime[c])
  PROVE  IInv'
<1>1. UNCHANGED <<building, endpoint, kind, runtime, route, pc, thread, executor, result>>
  BY DEF sites, plan
<1>2. /\ exec' \in [Calls -> [Units -> ExecLabels]]
      /\ \A d \in Calls, v \in Units :
           exec'[d][v] = IF d = c /\ v = u THEN label ELSE exec[d][v]
  BY ExecEffect DEF IInv
<1>3. Types'
  BY <1>1, <1>2 DEF IInv, Types
<1>4. ThreadsOk' /\ ExecOk' /\ ResultOk'
  BY <1>1, <1>2 DEF IInv, ThreadsOk, ExecOk, ResultOk
<1>5. HomeOk' /\ EndedOk'
  BY <1>1, <1>2 DEF IInv, ExecOk, HomeOk, EndedOk, Site
<1>6. QED
  BY <1>3, <1>4, <1>5 DEF IInv

\* A step that leaves the calls alone.
LEMMA CallsUnchanged ==
  ASSUME IInv, Types', UNCHANGED <<pc, kind, runtime, route, thread, exec, executor, result>>
  PROVE  IInv'
<1>1. ThreadsOk' /\ ExecOk'
  BY DEF IInv, ThreadsOk, ExecOk
<1>2. HomeOk' /\ EndedOk'
  BY DEF IInv, HomeOk, EndedOk, Site
<1>3. ResultOk'
  BY DEF IInv, ResultOk
<1>4. QED
  BY <1>1, <1>2, <1>3 DEF IInv

\* Every step preserves the inductive invariant.
LEMMA InvStep ==
  ASSUME IInv, [Next]_vars
  PROVE  IInv'
<1>1. ASSUME NEW u \in Units, NEW r \in Runtimes, RegisterRuntime(u, r)
      PROVE  IInv'
  <2>1. UNCHANGED <<pc, kind, runtime, route, thread, exec, executor, result>>
    BY <1>1 DEF RegisterRuntime, plan
  <2>2. Types'
    BY <1>1, <2>1 DEF IInv, Types, RegisterRuntime
  <2>3. QED
    BY <2>1, <2>2, CallsUnchanged
<1>2. ASSUME NEW u \in Units, NEW e \in Executors, Register(u, e)
      PROVE  IInv'
  <2>1. UNCHANGED <<pc, kind, runtime, route, thread, exec, executor, result>>
    BY <1>2 DEF Register, plan
  <2>2. Types'
    BY <1>2, <2>1 DEF IInv, Types, Register
  <2>3. QED
    BY <2>1, <2>2, CallsUnchanged
<1>3. ASSUME NEW u \in Units, Unregister(u)
      PROVE  IInv'
  <2>1. UNCHANGED <<pc, kind, runtime, route, thread, exec, executor, result>>
    BY <1>3 DEF Unregister, plan
  <2>2. Types'
    BY <1>3, <2>1 DEF IInv, Types, Unregister
  <2>3. QED
    BY <2>1, <2>2, CallsUnchanged
<1>4. ASSUME NEW c \in Calls, NEW u \in Units, Loopback(c, u)
      PROVE  IInv'
  <2>1. exec[c][u] = "none"
    BY <1>4 DEF IInv, ExecOk, Loopback
  <2>2. QED
    BY <1>4, <2>1, ThreadOnly DEF Loopback, ThreadLabels, Ended
<1>5. ASSUME NEW c \in Calls, NEW u \in Units, Timeout(c, u)
      PROVE  IInv'
  BY <1>5, ThreadOnly DEF Timeout, ThreadLabels, Ended
<1>6. ASSUME NEW c \in Calls, NEW u \in Units, Answer(c, u)
      PROVE  IInv'
  <2> DEFINE label == CASE exec[c][u] = "completed" -> "answered"
                        [] exec[c][u] = "panicked" /\ kind[c] = "local" -> "panicked"
                        [] OTHER -> "rejected"
  <2>1. /\ label \in ThreadLabels /\ label \in Ended
        /\ label = "answered" => exec[c][u] = "completed"
        /\ label = "panicked" => kind[c] = "local" /\ exec[c][u] = "panicked"
    BY DEF ThreadLabels, Ended
  <2>2. /\ thread[c][u] = "waiting" /\ exec[c][u] \in {"completed", "failed", "panicked"}
        /\ Thread(c, u, label) /\ UNCHANGED <<sites, pc, plan, exec, executor, result>>
    BY <1>6 DEF Answer
  <2> HIDE DEF label
  <2>3. QED
    BY <2>1, <2>2, ThreadOnly
<1>7. ASSUME NEW c \in Calls, NEW u \in Units, Lookup(c, u)
      PROVE  IInv'
  <2>1. Site(c, u) = u /\ kind[c] = "local" /\ thread[c][u] = "start"
    BY <1>7 DEF Lookup, Site
  <2>2. CASE endpoint[u] # None /\ Thread(c, u, "waiting") /\ Reach(c, u)
    BY <1>7, <2>1, <2>2, ReachStep DEF Lookup
  <2>3. CASE Thread(c, u, "rejected") /\ UNCHANGED <<exec, executor>>
    <3>1. exec[c][u] = "none"
      BY <2>1 DEF IInv, ExecOk
    <3>2. UNCHANGED <<sites, pc, plan, exec, executor, result>>
      BY <1>7, <2>3 DEF Lookup
    <3>3. QED
      BY <2>1, <2>3, <3>1, <3>2, ThreadOnly DEF ThreadLabels, Ended
  <2>4. QED
    BY <1>7, <2>2, <2>3 DEF Lookup
<1>8. ASSUME NEW c \in Calls, NEW u \in Units, NEW arrives \in BOOLEAN, Send(c, u, arrives)
      PROVE  IInv'
  <2>1. kind[c] = "tcp" /\ thread[c][u] = "start" /\ Thread(c, u, "waiting")
    BY <1>8 DEF Send
  <2>2. CASE arrives
    <3>1. Site(c, u) = route[c][u] /\ route[c][u] \in Units
      BY <2>1 DEF Site, IInv, Types, ThreadsOk
    <3>2. endpoint[Site(c, u)] # None /\ Reach(c, u) /\ UNCHANGED <<sites, pc, plan, result>>
      BY <1>8, <2>2, <3>1 DEF Send
    <3>3. QED
      BY <2>1, <3>1, <3>2, ReachStep
  <2>3. CASE ~ arrives
    <3>1. UNCHANGED <<sites, pc, plan, exec, executor, result>>
      BY <1>8, <2>3 DEF Send
    <3>2. QED
      BY <2>1, <3>1, ThreadOnly DEF ThreadLabels
  <2>4. QED
    BY <2>2, <2>3
<1>9. ASSUME NEW c \in Calls, NEW u \in Units, Handle(c, u)
      PROVE  IInv'
  <2> DEFINE runs == accepts(Site(c, u), u) /\ resolves(executor[c][u], runtime[c])
             label == IF runs THEN "running" ELSE "failed"
  <2>1. label \in ExecLabels /\ label \notin {"none", "received", "completed", "panicked"}
    BY DEF ExecLabels
  <2>2. label = "running" => Site(c, u) = u /\ resolves(executor[c][u], runtime[c])
    BY DEF accepts
  <2>3. /\ exec[c][u] = "received" /\ Exec(c, u, label)
        /\ UNCHANGED <<sites, pc, plan, thread, executor, result>>
    BY <1>9 DEF Handle
  <2> HIDE DEF label
  <2>4. QED
    BY <2>1, <2>2, <2>3, ExecOnly
<1>10. ASSUME NEW c \in Calls, NEW u \in Units,
              NEW how \in {"completed", "failed", "panicked"}, Run(c, u, how)
      PROVE  IInv'
  <2>1. Site(c, u) = u /\ resolves(executor[c][u], runtime[c])
    BY <1>10 DEF Run, IInv, HomeOk
  <2>2. how \in ExecLabels
    BY DEF ExecLabels
  <2>3. QED
    BY <1>10, <2>1, <2>2, ExecOnly DEF Run
<1>11. CASE UNCHANGED vars
  <2>1. UNCHANGED <<pc, kind, runtime, route, thread, exec, executor, result>> /\ UNCHANGED sites
    BY <1>11 DEF vars, plan
  <2>2. Types'
    BY <2>1 DEF IInv, Types, sites
  <2>3. QED
    BY <2>1, <2>2, CallsUnchanged
<1>12. QED
  BY <1>1, <1>2, <1>3, <1>4, <1>5, <1>6, <1>7, <1>8, <1>9, <1>10, <1>11, DispatchStep,
     ScopeStep
  DEF Next, Client

\* The inductive invariant holds in every reachable state.
THEOREM InvHolds == Spec => []IInv
  BY InvInit, InvStep, PTL DEF Spec

-----------------------------------------------------------------------------
\* What follows from it.

\* Success of a transport that executes means that every unit has run to completion
\* at home, under a runtime its executor has (execution.rs:181-203).
THEOREM SuccessMeansAllRan == Spec => []OkMeansAllRan
<1>1. IInv => OkMeansAllRan
  BY DEF IInv, ResultOk, EndedOk, HomeOk, OkMeansAllRan, resolves
<1>2. QED
  BY <1>1, InvHolds, PTL

\* A plan that lacks an endpoint is refused as a whole (execution.rs:148-169).
THEOREM PlansAreWhole == Spec => []AllOrNothing
<1>1. IInv => AllOrNothing
  BY DEF IInv, ThreadsOk, ExecOk, AllOrNothing
<1>2. QED
  BY <1>1, InvHolds, PTL

\* In process nothing of a call outlives it (execution.rs:171-179).
THEOREM ScopesAreClosed == Spec => []NothingLeftRunning
<1>1. IInv => NothingLeftRunning
  BY DEF IInv, ExecOk, ResultOk, Ended, NothingLeftRunning
<1>2. QED
  BY <1>1, InvHolds, PTL

\* Only two executors of one call that unwind in process unwind its caller
\* (execution.rs:177).
THEOREM PanicsAreContained == Spec => []PanicsContained
<1>1. IInv => PanicsContained
  <2> SUFFICES ASSUME IInv, NEW c \in Calls, result[c] = "panic"
               PROVE  /\ kind[c] = "local"
                      /\ Cardinality({u \in Units : exec[c][u] = "panicked"}) > 1
    BY DEF PanicsContained
  <2> DEFINE execs == {u \in Units : exec[c][u] = "panicked"}
  <2>1. PICK u, v \in Units : u # v /\ thread[c][u] = "panicked" /\ thread[c][v] = "panicked"
    BY DEF IInv, ResultOk
  <2>2. kind[c] = "local" /\ u \in execs /\ v \in execs
    BY <2>1 DEF IInv, EndedOk
  <2>3. IsFiniteSet(execs)
    BY UnitsAssumption, FS_Subset
  <2>4. QED
    BY <2>1, <2>2, <2>3, TwoElements
<1>2. QED
  BY <1>1, InvHolds, PTL
=============================================================================
