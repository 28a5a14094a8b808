------------------------------ MODULE TcpServer ------------------------------
(***************************************************************************)
(* TcpEndpointServer (transport.rs:215-412): concurrent calls of           *)
(* serve_until, serve_n and serve_once on clones of one server, which      *)
(* share one listener.                                                     *)
(*                                                                         *)
(* A serve_until call switches the listener to non-blocking mode, starts   *)
(* its workers, accepts connections and hands them over in a bounded       *)
(* channel; the workers take turns at the channel under a mutex.  When the *)
(* shutdown flag is set it drops the sender, joins the workers and         *)
(* switches the listener back.  A serve_n call (serve_once is serve_n of   *)
(* one, up to the thread that handles it) starts a thread per connection.  *)
(*                                                                         *)
(* What handle_connection does with a connection is its outcome here:      *)
(* served, failed with an error, panicked, or never finished.              *)
(***************************************************************************)
EXTENDS Naturals, Sequences, FiniteSets

CONSTANTS
  Servers,        \* serve_until calls
  Batches,        \* serve_n and serve_once calls
  Count,          \* how many connections a serve_n call accepts
  Workers,        \* the workers of a serve_until call (2 to 32 in the code)
  QueueCapacity,  \* of the channel (at least 16 in the code)
  Connections,    \* the connections clients open, each once
  Faulty,         \* those whose handler may panic, or whose frame makes the reader panic
  Hanging,        \* those whose handler may never return
  None

ASSUME CallsAssumption == Servers \cap Batches = {}
ASSUME WorkersAssumption == IsFiniteSet(Workers) /\ Workers # {} /\ None \notin Workers
ASSUME CountAssumption == Count \in Nat /\ QueueCapacity \in Nat \ {0}
ASSUME ConnectionsAssumption == None \notin Connections
ASSUME FaultAssumption == Faulty \subseteq Connections /\ Hanging \subseteq Connections

Calls == Servers \cup Batches

VARIABLES
  backlog,       \* connections the listener has not handed out yet
  conn,          \* how far each connection is
  nonblocking,   \* the mode of the shared listener
  shutdown,      \* the flag each serve_until call was given
  pc,            \* of each call's own thread
  mine,          \* the connections a call has accepted, in order
  late,          \* history: how many of them since its flag was set
  queue,         \* the channel of a serve_until call
  mutex,         \* the worker that holds the receiver
  wpc, job,      \* of each worker: where it is, the connection it handles
  verdict,       \* the accept_result of a serve_until call
  joined,        \* how many threads a serve_n call has joined
  result         \* what the call returned

listener == <<backlog, nonblocking>>
taken == <<mine, late>>
pool == <<queue, mutex, wpc, job>>
outcome == <<verdict, joined, result>>
vars == <<listener, conn, shutdown, pc, taken, pool, outcome>>

Finished == {"served", "failed", "panicked"}

Init ==
  /\ backlog = <<>>
  /\ conn = [c \in Connections |-> "new"]
  /\ nonblocking = FALSE
  /\ shutdown = [s \in Servers |-> FALSE]
  /\ pc = [x \in Calls |-> "start"]
  /\ mine = [x \in Calls |-> <<>>]
  /\ late = [s \in Servers |-> 0]
  /\ queue = [s \in Servers |-> <<>>]
  /\ mutex = [s \in Servers |-> None]
  /\ wpc = [s \in Servers |-> [w \in Workers |-> "unborn"]]
  /\ job = [s \in Servers |-> [w \in Workers |-> None]]
  /\ verdict = [s \in Servers |-> "ok"]
  /\ joined = [b \in Batches |-> 0]
  /\ result = [x \in Calls |-> "none"]

Goto(x, label) == pc' = [pc EXCEPT ![x] = label]

Last(x) == mine[x][Len(mine[x])]

-----------------------------------------------------------------------------
\* The environment.

Connect(c) ==
  /\ conn[c] = "new"
  /\ conn' = [conn EXCEPT ![c] = "backlog"]
  /\ backlog' = Append(backlog, c)
  /\ UNCHANGED <<nonblocking, shutdown, pc, taken, pool, outcome>>

RequestShutdown(s) ==
  /\ ~ shutdown[s]
  /\ shutdown' = [shutdown EXCEPT ![s] = TRUE]
  /\ UNCHANGED <<listener, conn, pc, taken, pool, outcome>>

-----------------------------------------------------------------------------
\* accept, for every kind of call.  The mode of the listener is read when the
\* system call is entered: a call that waits stays in it whatever the mode is
\* set to later.

\* Mutant: serve_n counts its connections from 0 to Count.
AcceptOneMore(x) ==
  /\ pc[x] \in {"accept", "blocked"}
  /\ backlog # <<>>
  /\ backlog' = Tail(backlog)
  /\ mine' = [mine EXCEPT ![x] = Append(@, Head(backlog))]
  /\ late' = [s \in Servers |-> IF s = x /\ shutdown[s] THEN late[s] + 1 ELSE late[s]]
  /\ conn' = [conn EXCEPT ![Head(backlog)] = IF x \in Servers THEN "accepted" ELSE "handling"]
  /\ Goto(x, IF x \in Servers THEN "send"
             ELSE IF Len(mine[x]) = Count THEN "join" ELSE "accept")
  /\ UNCHANGED <<nonblocking, shutdown, pool, outcome>>

\* The first connection goes to the caller: into the channel next, or to a
\* thread of its own at once.
Accept(x) ==
  /\ pc[x] \in {"accept", "blocked"}
  /\ backlog # <<>>
  /\ backlog' = Tail(backlog)
  /\ mine' = [mine EXCEPT ![x] = Append(@, Head(backlog))]
  /\ late' = [s \in Servers |-> IF s = x /\ shutdown[s] THEN late[s] + 1 ELSE late[s]]
  /\ conn' = [conn EXCEPT ![Head(backlog)] = IF x \in Servers THEN "accepted" ELSE "handling"]
  /\ Goto(x, IF x \in Servers THEN "send"
             ELSE IF Len(mine[x]) + 1 = Count THEN "join" ELSE "accept")
  /\ UNCHANGED <<nonblocking, shutdown, pool, outcome>>

Block(x) ==
  /\ pc[x] = "accept"
  /\ backlog = <<>>
  /\ ~ nonblocking
  /\ Goto(x, "blocked")
  /\ UNCHANGED <<listener, conn, shutdown, taken, pool, outcome>>

\* WouldBlock: serve_until sleeps and looks at its flag again.
Sleep(s) ==
  /\ pc[s] = "accept"
  /\ backlog = <<>>
  /\ nonblocking
  /\ Goto(s, "poll")
  /\ UNCHANGED <<listener, conn, shutdown, taken, pool, outcome>>

\* Any other error: serve_until stops accepting.
StopAccepting(s) ==
  /\ pc[s] \in {"accept", "blocked"}
  /\ verdict' = [verdict EXCEPT ![s] = "error"]
  /\ Goto(s, "join")
  /\ UNCHANGED <<listener, conn, shutdown, taken, pool, joined, result>>

\* serve_n returns on any error, WouldBlock included, and leaves the threads it
\* has started to themselves.
GiveUp(b) ==
  /\ pc[b] \in {"accept", "blocked"}
  /\ result' = [result EXCEPT ![b] = "error"]
  /\ Goto(b, "done")
  /\ UNCHANGED <<listener, conn, shutdown, taken, pool, verdict, joined>>

-----------------------------------------------------------------------------
\* serve_until and run_until_shutdown.

ServeUntil(s) ==
  /\ pc[s] = "start"
  /\ nonblocking' = TRUE
  /\ wpc' = [wpc EXCEPT ![s] = [w \in Workers |-> "lock"]]
  /\ Goto(s, "poll")
  /\ UNCHANGED <<backlog, conn, shutdown, taken, queue, mutex, job, outcome>>

Poll(s) ==
  /\ pc[s] = "poll"
  /\ Goto(s, IF shutdown[s] THEN "join" ELSE "accept")
  /\ UNCHANGED <<listener, conn, shutdown, taken, pool, outcome>>

\* Mutant: the channel has no limit.
SendAlways(s) ==
  /\ pc[s] = "send"
  /\ queue' = [queue EXCEPT ![s] = Append(@, Last(s))]
  /\ Goto(s, "poll")
  /\ UNCHANGED <<listener, conn, shutdown, taken, mutex, wpc, job, outcome>>

\* Mutant: the flag is not looked at as long as connections come.
SendThenAccept(s) ==
  /\ pc[s] = "send"
  /\ Len(queue[s]) < QueueCapacity
  /\ queue' = [queue EXCEPT ![s] = Append(@, Last(s))]
  /\ Goto(s, "accept")
  /\ UNCHANGED <<listener, conn, shutdown, taken, mutex, wpc, job, outcome>>

\* send waits while the channel is full.  It cannot fail: the call itself keeps
\* a handle of the receiver until it returns.
Send(s) ==
  /\ pc[s] = "send"
  /\ Len(queue[s]) < QueueCapacity
  /\ queue' = [queue EXCEPT ![s] = Append(@, Last(s))]
  /\ Goto(s, "poll")
  /\ UNCHANGED <<listener, conn, shutdown, taken, mutex, wpc, job, outcome>>

\* The sender is dropped before the workers are joined.
SenderDropped(s) == pc[s] \in {"join", "restore", "done"}

Panicked(s) == \E w \in Workers : wpc[s][w] = "panicked"

\* All workers have ended; what is still in the channel is dropped with it.
JoinWorkers(s) ==
  /\ pc[s] = "join"
  /\ \A w \in Workers : wpc[s][w] \in {"ended", "panicked"}
  /\ verdict' = [verdict EXCEPT ![s] = IF Panicked(s) THEN "error" ELSE @]
  /\ Goto(s, "restore")
  /\ UNCHANGED <<listener, conn, shutdown, taken, pool, joined, result>>

Restore(s) ==
  /\ pc[s] = "restore"
  /\ nonblocking' = FALSE
  /\ result' = [result EXCEPT ![s] = verdict[s]]
  /\ Goto(s, "done")
  /\ UNCHANGED <<backlog, conn, shutdown, taken, pool, verdict, joined>>

-----------------------------------------------------------------------------
\* The workers.  A worker waits in recv with the mutex held.

WorkerAt(s, w, label) == wpc' = [wpc EXCEPT ![s][w] = label]

Lock(s, w) ==
  /\ wpc[s][w] = "lock"
  /\ mutex[s] = None
  /\ mutex' = [mutex EXCEPT ![s] = w]
  /\ WorkerAt(s, w, "recv")
  /\ UNCHANGED <<listener, conn, shutdown, pc, taken, queue, job, outcome>>

\* The mutex is released before the stream is handled.
Recv(s, w) ==
  /\ wpc[s][w] = "recv"
  /\ queue[s] # <<>>
  /\ queue' = [queue EXCEPT ![s] = Tail(@)]
  /\ mutex' = [mutex EXCEPT ![s] = None]
  /\ job' = [job EXCEPT ![s][w] = Head(queue[s])]
  /\ conn' = [conn EXCEPT ![Head(queue[s])] = "handling"]
  /\ WorkerAt(s, w, "handle")
  /\ UNCHANGED <<listener, shutdown, pc, taken, outcome>>

\* Mutant: a worker ends as soon as the sender is gone.
RecvFailsEarly(s, w) ==
  /\ wpc[s][w] = "recv"
  /\ SenderDropped(s)
  /\ mutex' = [mutex EXCEPT ![s] = None]
  /\ WorkerAt(s, w, "ended")
  /\ UNCHANGED <<listener, conn, shutdown, pc, taken, queue, job, outcome>>

\* Mutant: a worker ends without releasing the mutex.
RecvFailsLocked(s, w) ==
  /\ wpc[s][w] = "recv"
  /\ queue[s] = <<>>
  /\ SenderDropped(s)
  /\ WorkerAt(s, w, "ended")
  /\ UNCHANGED <<listener, conn, shutdown, pc, taken, queue, mutex, job, outcome>>

\* recv fails once the channel is empty and the sender is gone.
RecvFails(s, w) ==
  /\ wpc[s][w] = "recv"
  /\ queue[s] = <<>>
  /\ SenderDropped(s)
  /\ mutex' = [mutex EXCEPT ![s] = None]
  /\ WorkerAt(s, w, "ended")
  /\ UNCHANGED <<listener, conn, shutdown, pc, taken, queue, job, outcome>>

\* handle_connection returns; a worker ignores its error.
Handled(s, w, how) ==
  /\ wpc[s][w] = "handle"
  /\ how = "panicked" => job[s][w] \in Faulty
  /\ conn' = [conn EXCEPT ![job[s][w]] = how]
  /\ job' = [job EXCEPT ![s][w] = None]
  /\ WorkerAt(s, w, IF how = "panicked" THEN "panicked" ELSE "lock")
  /\ UNCHANGED <<listener, shutdown, pc, taken, queue, mutex, outcome>>

-----------------------------------------------------------------------------
\* serve_n and serve_once.  serve_once handles its connection itself, so a panic
\* unwinds into its caller: this is its "error" too.

ServeN(b) ==
  /\ pc[b] = "start"
  /\ Goto(b, IF Count = 0 THEN "join" ELSE "accept")
  /\ UNCHANGED <<listener, conn, shutdown, taken, pool, outcome>>

ThreadEnds(b, c, how) ==
  /\ \E i \in DOMAIN mine[b] : mine[b][i] = c
  /\ conn[c] = "handling"
  /\ how = "panicked" => c \in Faulty
  /\ conn' = [conn EXCEPT ![c] = how]
  /\ UNCHANGED <<listener, shutdown, pc, taken, pool, outcome>>

\* The threads are joined in order; the first error returns at once.
JoinThread(b) ==
  LET c == mine[b][joined[b] + 1]
  IN  /\ pc[b] = "join"
      /\ joined[b] < Len(mine[b])
      /\ conn[c] \in Finished
      /\ \/ /\ conn[c] = "served"
            /\ joined' = [joined EXCEPT ![b] = @ + 1]
            /\ UNCHANGED <<pc, result>>
         \/ /\ conn[c] # "served"
            /\ result' = [result EXCEPT ![b] = "error"]
            /\ Goto(b, "done")
            /\ UNCHANGED joined
      /\ UNCHANGED <<listener, conn, shutdown, taken, pool, verdict>>

BatchReturns(b) ==
  /\ pc[b] = "join"
  /\ joined[b] = Len(mine[b])
  /\ result' = [result EXCEPT ![b] = "ok"]
  /\ Goto(b, "done")
  /\ UNCHANGED <<listener, conn, shutdown, taken, pool, verdict, joined>>

-----------------------------------------------------------------------------
Acceptor(s) ==
  \/ Poll(s) \/ Accept(s) \/ Block(s) \/ Sleep(s) \/ Send(s)
  \/ JoinWorkers(s) \/ Restore(s)

Worker(s, w) ==
  \/ Lock(s, w) \/ Recv(s, w) \/ RecvFails(s, w)
  \/ job[s][w] \notin Hanging /\ \E how \in Finished : Handled(s, w, how)

Batch(b) ==
  \/ ServeN(b) \/ Accept(b) \/ Block(b) \/ GiveUp(b) \/ JoinThread(b) \/ BatchReturns(b)
  \/ \E c \in Connections, how \in Finished : ThreadEnds(b, c, how)

Next ==
  \/ \E c \in Connections : Connect(c)
  \/ \E s \in Servers :
       \/ RequestShutdown(s) \/ ServeUntil(s) \/ StopAccepting(s) \/ Acceptor(s)
       \/ \E w \in Workers :
            Worker(s, w) \/ \E how \in Finished : Handled(s, w, how)
  \/ \E b \in Batches : Batch(b)

\* Every thread of a serve_until call is scheduled again and again, and a
\* handler that is not in Hanging returns: its I/O has a timeout.  Nothing makes
\* clients connect, callers call or the shutdown flag rise.
Spec ==
  /\ Init /\ [][Next]_vars
  /\ \A s \in Servers :
       WF_vars(Acceptor(s)) /\ \A w \in Workers : WF_vars(Worker(s, w))

-----------------------------------------------------------------------------
Types ==
  /\ backlog \in Seq(Connections)
  /\ conn \in [Connections -> {"new", "backlog", "accepted", "handling"} \cup Finished]
  /\ nonblocking \in BOOLEAN
  /\ shutdown \in [Servers -> BOOLEAN]
  /\ pc \in [Calls -> {"start", "poll", "accept", "blocked", "send", "join", "restore", "done"}]
  /\ mine \in [Calls -> Seq(Connections)]
  /\ queue \in [Servers -> Seq(Connections)]
  /\ mutex \in [Servers -> Workers \cup {None}]
  /\ wpc \in [Servers -> [Workers -> {"unborn", "lock", "recv", "handle", "ended", "panicked"}]]
  /\ job \in [Servers -> [Workers -> Connections \cup {None}]]
  /\ verdict \in [Servers -> {"ok", "error"}]
  /\ joined \in [Batches -> Nat]
  /\ result \in [Calls -> {"none", "ok", "error"}]

\* Type invariant of the listener, the calls and their threads; a serve_n call takes
\* no connection beyond those it was asked for (transport.rs:294, 298).
TypeOK ==
  /\ Types /\ late \in [Servers -> Nat]
  /\ \A b \in Batches : joined[b] <= Len(mine[b]) /\ Len(mine[b]) <= Count

Accepted(x) == {mine[x][i] : i \in DOMAIN mine[x]}

\* A serve_until call that returns Ok has drained: every connection it accepted
\* has been handled, those that were in the channel when the sender was dropped
\* included (transport.rs:328, 400-410).  A serve_n call that returns Ok has
\* served all its connections.
OkMeansHandled ==
  \A x \in Calls : result[x] = "ok" =>
    \A c \in Accepted(x) : conn[c] \in IF x \in Servers THEN {"served", "failed"} ELSE {"served"}

\* Back pressure: however many clients connect, a serve_until call holds no more
\* connections than its channel, its workers and its own thread can
\* (transport.rs:349-354, 389).
PendingBounded ==
  \A s \in Servers :
    Cardinality({c \in Accepted(s) : conn[c] \notin Finished})
      <= QueueCapacity + Cardinality(Workers) + 1

\* Shutdown stops a serve_until call whatever its clients do: once the flag is set
\* it accepts at most one more connection, the one it was about to take, however
\* many are waiting (transport.rs:382-387).
OneMoreAtMost == \A s \in Servers : late[s] <= 1

\* A connection a serve_until call has accepted is handled, although shutdown
\* may be requested before a worker takes it and other handlers may hang, as
\* long as one worker is left.
AcceptedIsHandled ==
  \A s \in Servers, c \in Connections \ Hanging :
    (c \in Accepted(s)) ~> (conn[c] \in Finished)

\* transport.rs:328-331: a serve_until call returns once its flag is set,
\* without a connection to wake it up, unless a handler never returns.
ShutdownReturns ==
  \A s \in Servers :
    (shutdown[s] /\ pc[s] # "start") ~>
      (result[s] # "none" \/ \E w \in Workers : job[s][w] \in Hanging)
=============================================================================
