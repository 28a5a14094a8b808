---------------------------- MODULE TcpServerProofs ----------------------------
(***************************************************************************)
(* Proofs about TcpServer, for any number of calls, connections and        *)
(* workers and any capacity of the channel.                                *)
(***************************************************************************)
EXTENDS TcpServer, FiniteSetTheorems, TLAPS

-----------------------------------------------------------------------------
\* The inductive invariant.

\* The entries of a sequence, and that none occurs twice.
Items(q) == {q[i] : i \in DOMAIN q}
NoDup(q) == \A i, j \in DOMAIN q : q[i] = q[j] => i = j

\* The listener hands each connection out once.
BacklogOk ==
  /\ NoDup(backlog)
  /\ \A c \in Items(backlog) : conn[c] = "backlog"
  /\ \A x \in Calls : \A c \in Items(mine[x]) : conn[c] \notin {"new", "backlog"}
  /\ \A x, y \in Calls : x # y => \A c \in Items(mine[x]) : c \notin Items(mine[y])

\* A connection a serve_until call has accepted and no worker has taken is in its
\* channel, or is the one its thread is about to send.
QueueOk ==
  \A s \in Servers :
    /\ NoDup(queue[s])
    /\ Len(queue[s]) <= QueueCapacity
    /\ \A c \in Items(queue[s]) : c \in Items(mine[s]) /\ conn[c] = "accepted"
    /\ pc[s] = "send" => /\ mine[s] # <<>>
                         /\ conn[Last(s)] = "accepted"
                         /\ Last(s) \notin Items(queue[s])
    /\ \A c \in Items(mine[s]) : conn[c] = "accepted" =>
         c \in Items(queue[s]) \/ (pc[s] = "send" /\ c = Last(s))

\* A connection in the hands of a serve_until call's worker is that worker's alone;
\* one whose handler panicked has taken a worker with it.
JobsOk ==
  \A s \in Servers :
    /\ \A w \in Workers :
         /\ job[s][w] # None <=> wpc[s][w] = "handle"
         /\ job[s][w] # None => job[s][w] \in Items(mine[s]) /\ conn[job[s][w]] = "handling"
         /\ \A v \in Workers : v # w /\ job[s][w] # None => job[s][w] # job[s][v]
    /\ \A c \in Items(mine[s]) :
         /\ conn[c] = "handling" => \E w \in Workers : job[s][w] = c
         /\ conn[c] = "panicked" => Panicked(s)

\* The workers of a serve_until call: none before it starts, none ends while the
\* channel may still carry something, none is left when the call has joined them.
PoolOk ==
  \A s \in Servers :
    /\ pc[s] = "start" => mine[s] = <<>> /\ \A w \in Workers : wpc[s][w] = "unborn"
    /\ \A w \in Workers : wpc[s][w] = "ended" => queue[s] = <<>> /\ SenderDropped(s)
    /\ pc[s] \in {"restore", "done"} =>
         /\ \A w \in Workers : wpc[s][w] \in {"ended", "panicked"}
         /\ Panicked(s) => verdict[s] = "error"
    /\ result[s] # "none" => pc[s] = "done" /\ result[s] = verdict[s]

\* What a serve_n call has joined so far was served.
BatchOk ==
  \A b \in Batches :
    /\ joined[b] <= Len(mine[b])
    /\ \A i \in 1..joined[b] : conn[mine[b][i]] = "served"
    /\ result[b] = "ok" => pc[b] = "done" /\ joined[b] = Len(mine[b])

\* A serve_n call still accepts only while connections are missing.
CountOk ==
  \A b \in Batches :
    /\ pc[b] = "start" => Len(mine[b]) = 0
    /\ pc[b] \in {"accept", "blocked"} => Len(mine[b]) < Count
    /\ Len(mine[b]) <= Count

\* A serve_until call that has accepted a connection since its flag was set does not
\* get to accept again: it looks at the flag first, and the flag stays set.
Accepting == {"start", "accept", "blocked"}
LateOk ==
  \A s \in Servers :
    late[s] \in {0, 1} /\ (late[s] = 1 => shutdown[s] /\ pc[s] \notin Accepting)

\* Every connection is in one place at a time, from the listener to its handler.
IInv == TypeOK /\ BacklogOk /\ QueueOk /\ JobsOk /\ PoolOk /\ BatchOk /\ CountOk /\ LateOk

-----------------------------------------------------------------------------
\* Sequences.

\* What Append does to the entries of a sequence.
LEMMA AppendItems ==
  ASSUME NEW S, NEW q \in Seq(S), NEW c \in S
  PROVE  /\ Append(q, c) \in Seq(S) /\ Append(q, c) # <<>> /\ Len(Append(q, c)) = Len(q) + 1
         /\ Items(Append(q, c)) = Items(q) \cup {c}
         /\ Append(q, c)[Len(Append(q, c))] = c
         /\ \A i \in 1..Len(q) : Append(q, c)[i] = q[i]
         /\ NoDup(q) /\ c \notin Items(q) => NoDup(Append(q, c))
<1>1. /\ Append(q, c) \in Seq(S) /\ Append(q, c) # <<>>
      /\ Len(Append(q, c)) = Len(q) + 1 /\ Append(q, c)[Len(Append(q, c))] = c
      /\ Len(q) \in Nat /\ DOMAIN q = 1..Len(q) /\ DOMAIN Append(q, c) = 1..(Len(q) + 1)
      /\ \A i \in 1..Len(q) : Append(q, c)[i] = q[i]
  OBVIOUS
<1>2. DOMAIN Append(q, c) = DOMAIN q \cup {Len(Append(q, c))}
  BY <1>1
<1>3. Items(Append(q, c)) = Items(q) \cup {c}
  <2>1. Items(Append(q, c)) \subseteq Items(q) \cup {c}
    BY <1>1, <1>2 DEF Items
  <2>2. c \in Items(Append(q, c))
    BY <1>1, <1>2 DEF Items
  <2>3. Items(q) \subseteq Items(Append(q, c))
    BY <1>1, <1>2 DEF Items
  <2>4. QED
    BY <2>1, <2>2, <2>3
<1>4. ASSUME NoDup(q), c \notin Items(q)
      PROVE  NoDup(Append(q, c))
  <2>1. \A i \in DOMAIN q : Append(q, c)[i] # c /\ Append(q, c)[i] = q[i]
    BY <1>1, <1>4 DEF Items
  <2>2. QED
    BY <1>1, <1>2, <1>4, <2>1 DEF NoDup
<1>5. QED
  BY <1>1, <1>3, <1>4

\* What Tail does to the entries of a sequence without duplicates.
LEMMA TailItems ==
  ASSUME NEW S, NEW q \in Seq(S), q # <<>>
  PROVE  /\ Tail(q) \in Seq(S) /\ Len(Tail(q)) = Len(q) - 1
         /\ Head(q) \in S /\ Head(q) \in Items(q)
         /\ NoDup(q) => NoDup(Tail(q)) /\ Items(Tail(q)) = Items(q) \ {Head(q)}
<1>1. /\ Len(q) \in Nat /\ Len(q) >= 1 /\ DOMAIN q = 1..Len(q)
      /\ Tail(q) \in Seq(S) /\ Len(Tail(q)) = Len(q) - 1 /\ DOMAIN Tail(q) = 1..(Len(q) - 1)
      /\ Head(q) = q[1] /\ q[1] \in S
      /\ \A i \in 1..(Len(q) - 1) : Tail(q)[i] = q[i + 1]
  OBVIOUS
<1>2. Head(q) \in Items(q)
  BY <1>1 DEF Items
<1>3. ASSUME NoDup(q)
      PROVE  NoDup(Tail(q))
  BY <1>1, <1>3 DEF NoDup
<1>4. ASSUME NoDup(q)
      PROVE  Items(Tail(q)) = Items(q) \ {Head(q)}
  <2>1. ASSUME NEW c \in Items(Tail(q))
        PROVE  c \in Items(q) /\ c # Head(q)
    <3>1. PICK i \in 1..(Len(q) - 1) : c = q[i + 1]
      BY <1>1 DEF Items
    <3>2. i + 1 \in DOMAIN q /\ 1 \in DOMAIN q /\ i + 1 # 1
      BY <1>1
    <3>3. QED
      BY <1>1, <1>4, <3>1, <3>2 DEF Items, NoDup
  <2>2. ASSUME NEW c \in Items(q), c # Head(q)
        PROVE  c \in Items(Tail(q))
    <3>1. PICK i \in DOMAIN q : c = q[i]
      BY DEF Items
    <3>2. i - 1 \in DOMAIN Tail(q) /\ (i - 1) + 1 = i
      BY <1>1, <2>2, <3>1
    <3>3. Tail(q)[i - 1] = c
      BY <1>1, <3>1, <3>2
    <3>4. QED
      BY <3>2, <3>3 DEF Items
  <2>3. QED
    BY <2>1, <2>2
<1>5. QED
  BY <1>1, <1>2, <1>3, <1>4

\* The entries of a sequence are of its type; the last one is among them.
LEMMA ItemsType ==
  ASSUME NEW S, NEW q \in Seq(S)
  PROVE  /\ Items(q) \subseteq S
         /\ q # <<>> => q[Len(q)] \in Items(q)
         /\ \A i \in 1..Len(q) : q[i] \in Items(q)
         /\ q = <<>> => Items(q) = {}
<1>1. Len(q) \in Nat /\ DOMAIN q = 1..Len(q) /\ \A i \in 1..Len(q) : q[i] \in S
  OBVIOUS
<1>2. q # <<>> => Len(q) \in DOMAIN q
  BY <1>1
<1>3. q = <<>> => DOMAIN q = {}
  BY <1>1
<1>4. QED
  BY <1>1, <1>2, <1>3 DEF Items

-----------------------------------------------------------------------------
\* What the actions do, entry by entry.

WorkerLabels == {"unborn", "lock", "recv", "handle", "ended", "panicked"}

\* A step of one worker keeps the type of what a call keeps per worker, and changes
\* nothing of other workers.
LEMMA WorkerUpdate ==
  ASSUME NEW S, NEW f \in [Servers -> [Workers -> S]], NEW s \in Servers, NEW w \in Workers,
         NEW x \in S
  PROVE  /\ [f EXCEPT ![s][w] = x] \in [Servers -> [Workers -> S]]
         /\ \A r \in Servers, v \in Workers :
              [f EXCEPT ![s][w] = x][r][v] = IF r = s /\ v = w THEN x ELSE f[r][v]
  OBVIOUS

\* WorkerAt moves one worker.
LEMMA WorkerAtEffect ==
  ASSUME TypeOK, NEW s \in Servers, NEW w \in Workers, NEW label \in WorkerLabels,
         WorkerAt(s, w, label)
  PROVE  /\ wpc' \in [Servers -> [Workers -> WorkerLabels]]
         /\ \A r \in Servers, v \in Workers :
              wpc'[r][v] = IF r = s /\ v = w THEN label ELSE wpc[r][v]
<1>1. wpc \in [Servers -> [Workers -> WorkerLabels]]
  BY DEF TypeOK, Types, WorkerLabels
<1>2. wpc' = [wpc EXCEPT ![s][w] = label]
  BY DEF WorkerAt
<1>3. QED
  BY <1>1, <1>2, WorkerUpdate

\* Goto moves the thread of one call.
LEMMA GotoEffect ==
  ASSUME TypeOK, NEW x \in Calls, NEW label, Goto(x, label)
  PROVE  pc'[x] = label /\ \A y \in Calls \ {x} : pc'[y] = pc[y]
  BY DEF TypeOK, Types, Goto

\* A connection leaves the listener for the call that accepts it.
LEMMA AcceptEffect ==
  ASSUME IInv, NEW x \in Calls, Accept(x)
  PROVE  \E c \in Connections :
           /\ conn[c] = "backlog"
           /\ \A y \in Calls : c \notin Items(mine[y])
           /\ backlog' \in Seq(Connections) /\ NoDup(backlog')
           /\ Items(backlog') = Items(backlog) \ {c}
           /\ mine' \in [Calls -> Seq(Connections)]
           /\ Items(mine'[x]) = Items(mine[x]) \cup {c}
           /\ mine'[x] # <<>> /\ mine'[x][Len(mine'[x])] = c
           /\ Len(mine'[x]) = Len(mine[x]) + 1
           /\ \A i \in 1..Len(mine[x]) : mine'[x][i] = mine[x][i]
           /\ \A y \in Calls \ {x} : mine'[y] = mine[y]
           /\ conn'[c] = IF x \in Servers THEN "accepted" ELSE "handling"
           /\ \A d \in Connections \ {c} : conn'[d] = conn[d]
           /\ pc[x] \in {"accept", "blocked"}
           /\ pc'[x] \in {"send", "join", "accept"} /\ (x \in Servers => pc'[x] = "send")
           /\ \A y \in Calls \ {x} : pc'[y] = pc[y]
           /\ UNCHANGED <<queue, wpc, job, verdict, joined, result>>
<1>1. PICK c : c = Head(backlog)
  OBVIOUS
<1>2. /\ backlog # <<>> /\ backlog' = Tail(backlog)
      /\ mine' = [mine EXCEPT ![x] = Append(@, c)]
      /\ conn' = [conn EXCEPT ![c] = IF x \in Servers THEN "accepted" ELSE "handling"]
      /\ pc[x] \in {"accept", "blocked"}
      /\ UNCHANGED <<queue, wpc, job, verdict, joined, result>>
  BY <1>1 DEF Accept, pool, outcome, taken
<1>3. /\ c \in Connections /\ c \in Items(backlog)
      /\ backlog' \in Seq(Connections) /\ NoDup(backlog')
      /\ Items(backlog') = Items(backlog) \ {c}
  BY <1>1, <1>2, TailItems DEF IInv, TypeOK, Types, BacklogOk
<1>4. conn[c] = "backlog" /\ \A y \in Calls : c \notin Items(mine[y])
  BY <1>3 DEF IInv, BacklogOk
<1>5. /\ mine'[x] = Append(mine[x], c) /\ mine[x] \in Seq(Connections)
      /\ \A y \in Calls \ {x} : mine'[y] = mine[y]
      /\ mine' \in [Calls -> Seq(Connections)]
  BY <1>2, <1>3 DEF IInv, TypeOK, Types
<1>6. /\ Items(mine'[x]) = Items(mine[x]) \cup {c}
      /\ mine'[x] # <<>> /\ mine'[x][Len(mine'[x])] = c
      /\ Len(mine'[x]) = Len(mine[x]) + 1
      /\ \A i \in 1..Len(mine[x]) : mine'[x][i] = mine[x][i]
  BY <1>3, <1>5, AppendItems, SMTT(30)
<1>7. /\ conn'[c] = IF x \in Servers THEN "accepted" ELSE "handling"
      /\ \A d \in Connections \ {c} : conn'[d] = conn[d]
  BY <1>2, <1>3 DEF IInv, TypeOK, Types
<1>8. /\ pc'[x] \in {"send", "join", "accept"} /\ (x \in Servers => pc'[x] = "send")
      /\ \A y \in Calls \ {x} : pc'[y] = pc[y]
  BY GotoEffect DEF IInv, Accept
<1>9. QED
  BY <1>2, <1>3, <1>4, <1>5, <1>6, <1>7, <1>8

\* A worker takes the next connection, c, out of the channel.
Takes(s, w, c) ==
  /\ c \in Items(queue[s]) /\ conn[c] = "accepted"
  /\ queue' \in [Servers -> Seq(Connections)]
  /\ NoDup(queue'[s]) /\ Items(queue'[s]) = Items(queue[s]) \ {c}
  /\ Len(queue'[s]) <= Len(queue[s]) /\ queue[s] # <<>>
  /\ \A r \in Servers \ {s} : queue'[r] = queue[r]
  /\ job' \in [Servers -> [Workers -> Connections \cup {None}]]
  /\ \A r \in Servers, v \in Workers :
       job'[r][v] = IF r = s /\ v = w THEN c ELSE job[r][v]
  /\ wpc[s][w] = "recv"
  /\ wpc' \in [Servers -> [Workers -> WorkerLabels]]
  /\ \A r \in Servers, v \in Workers :
       wpc'[r][v] = IF r = s /\ v = w THEN "handle" ELSE wpc[r][v]
  /\ conn'[c] = "handling"
  /\ \A d \in Connections \ {c} : conn'[d] = conn[d]
  /\ UNCHANGED <<backlog, pc, mine, verdict, joined, result>>

\* It is what Recv does.
LEMMA RecvEffect ==
  ASSUME IInv, NEW s \in Servers, NEW w \in Workers, Recv(s, w)
  PROVE  \E c \in Connections : Takes(s, w, c)
<1>1. PICK c : c = Head(queue[s])
  OBVIOUS
<1>2. /\ queue[s] # <<>> /\ queue' = [queue EXCEPT ![s] = Tail(@)] /\ wpc[s][w] = "recv"
      /\ job' = [job EXCEPT ![s][w] = c] /\ WorkerAt(s, w, "handle")
      /\ conn' = [conn EXCEPT ![c] = "handling"]
      /\ UNCHANGED <<backlog, pc, mine, verdict, joined, result>>
  BY <1>1 DEF Recv, listener, outcome, taken
<1>3. queue[s] \in Seq(Connections) /\ NoDup(queue[s])
  BY DEF IInv, TypeOK, Types, QueueOk
<1>4. /\ c \in Connections /\ c \in Items(queue[s])
      /\ Tail(queue[s]) \in Seq(Connections) /\ NoDup(Tail(queue[s]))
      /\ Len(Tail(queue[s])) = Len(queue[s]) - 1
      /\ Items(Tail(queue[s])) = Items(queue[s]) \ {c}
  BY <1>1, <1>2, <1>3, TailItems
<1>5. conn[c] = "accepted"
  BY <1>4 DEF IInv, QueueOk
<1>6. /\ queue' \in [Servers -> Seq(Connections)] /\ queue'[s] = Tail(queue[s])
      /\ \A r \in Servers \ {s} : queue'[r] = queue[r]
  BY <1>2, <1>4 DEF IInv, TypeOK, Types
<1>7. Len(queue'[s]) <= Len(queue[s])
  BY <1>3, <1>4, <1>6
<1>8. /\ job' \in [Servers -> [Workers -> Connections \cup {None}]]
      /\ \A r \in Servers, v \in Workers :
           job'[r][v] = IF r = s /\ v = w THEN c ELSE job[r][v]
  <2>1. job \in [Servers -> [Workers -> Connections \cup {None}]] /\ c \in Connections \cup {None}
    BY <1>4 DEF IInv, TypeOK, Types
  <2>2. QED
    BY <1>2, <2>1, WorkerUpdate
<1>9. /\ wpc' \in [Servers -> [Workers -> WorkerLabels]]
      /\ \A r \in Servers, v \in Workers :
           wpc'[r][v] = IF r = s /\ v = w THEN "handle" ELSE wpc[r][v]
  BY <1>2, WorkerAtEffect DEF IInv, WorkerLabels
<1>10. conn'[c] = "handling" /\ \A d \in Connections \ {c} : conn'[d] = conn[d]
  BY <1>2, <1>4 DEF IInv, TypeOK, Types
<1>11. QED
  BY <1>2, <1>4, <1>5, <1>6, <1>7, <1>8, <1>9, <1>10 DEF Takes

\* A worker has done with its connection, c.
Finishes(s, w, how, c) ==
  /\ wpc[s][w] = "handle" /\ job[s][w] = c
  /\ c \in Items(mine[s]) /\ conn[c] = "handling"
  /\ job' \in [Servers -> [Workers -> Connections \cup {None}]]
  /\ \A r \in Servers, v \in Workers :
       job'[r][v] = IF r = s /\ v = w THEN None ELSE job[r][v]
  /\ wpc' \in [Servers -> [Workers -> WorkerLabels]]
  /\ \A r \in Servers, v \in Workers :
       wpc'[r][v] = IF r = s /\ v = w
                    THEN IF how = "panicked" THEN "panicked" ELSE "lock"
                    ELSE wpc[r][v]
  /\ conn'[c] = how
  /\ \A d \in Connections \ {c} : conn'[d] = conn[d]
  /\ UNCHANGED <<backlog, pc, mine, queue, verdict, joined, result>>

\* It is what Handled does.
LEMMA HandledEffect ==
  ASSUME IInv, NEW s \in Servers, NEW w \in Workers, NEW how \in Finished, Handled(s, w, how)
  PROVE  \E c \in Connections : Finishes(s, w, how, c)
<1>1. PICK c : c = job[s][w]
  OBVIOUS
<1>2. PICK label \in WorkerLabels : label = IF how = "panicked" THEN "panicked" ELSE "lock"
  BY DEF WorkerLabels
<1>3. /\ wpc[s][w] = "handle" /\ job' = [job EXCEPT ![s][w] = None] /\ WorkerAt(s, w, label)
      /\ conn' = [conn EXCEPT ![c] = how]
      /\ UNCHANGED <<backlog, pc, mine, queue, verdict, joined, result>>
  BY <1>1, <1>2 DEF Handled, listener, outcome, taken
<1>4. c \in Connections /\ c \in Items(mine[s]) /\ conn[c] = "handling"
  <2>1. c # None /\ c \in Items(mine[s]) /\ conn[c] = "handling"
    BY <1>1, <1>3 DEF IInv, JobsOk
  <2>2. Items(mine[s]) \subseteq Connections
    BY ItemsType DEF IInv, TypeOK, Types, Calls
  <2>3. QED
    BY <2>1, <2>2
<1>5. /\ job' \in [Servers -> [Workers -> Connections \cup {None}]]
      /\ \A r \in Servers, v \in Workers :
           job'[r][v] = IF r = s /\ v = w THEN None ELSE job[r][v]
  <2>1. job \in [Servers -> [Workers -> Connections \cup {None}]]
    BY DEF IInv, TypeOK, Types
  <2>2. QED
    BY <1>3, <2>1, WorkerUpdate
<1>6. /\ wpc' \in [Servers -> [Workers -> WorkerLabels]]
      /\ \A r \in Servers, v \in Workers :
           wpc'[r][v] = IF r = s /\ v = w THEN label ELSE wpc[r][v]
  BY <1>3, WorkerAtEffect DEF IInv
<1>7. conn'[c] = how /\ \A d \in Connections \ {c} : conn'[d] = conn[d]
  BY <1>3, <1>4 DEF IInv, TypeOK, Types
<1>8. QED
  BY <1>1, <1>2, <1>3, <1>4, <1>5, <1>6, <1>7 DEF Finishes

\* The thread of a serve_n call has done with its connection.
LEMMA ThreadEndsEffect ==
  ASSUME IInv, NEW b \in Batches, NEW c \in Connections, NEW how \in Finished,
         ThreadEnds(b, c, how)
  PROVE  /\ c \in Items(mine[b]) /\ conn[c] = "handling"
         /\ \A s \in Servers : c \notin Items(mine[s])
         /\ conn'[c] = how
         /\ \A d \in Connections \ {c} : conn'[d] = conn[d]
         /\ UNCHANGED <<backlog, pc, mine, queue, wpc, job, verdict, joined, result>>
<1>1. c \in Items(mine[b]) /\ conn[c] = "handling"
      /\ UNCHANGED <<backlog, pc, mine, queue, wpc, job, verdict, joined, result>>
  BY DEF ThreadEnds, Items, listener, pool, outcome, taken
<1>2. \A s \in Servers : c \notin Items(mine[s])
  BY <1>1, CallsAssumption DEF IInv, BacklogOk, Calls
<1>3. conn'[c] = how /\ \A d \in Connections \ {c} : conn'[d] = conn[d]
  BY DEF ThreadEnds, IInv, TypeOK, Types
<1>4. QED
  BY <1>1, <1>2, <1>3

\* The connection just accepted enters the channel.
LEMMA SendEffect ==
  ASSUME IInv, NEW s \in Servers, Send(s)
  PROVE  /\ pc[s] = "send" /\ Last(s) \in Connections /\ Last(s) \in Items(mine[s])
         /\ conn[Last(s)] = "accepted"
         /\ queue' \in [Servers -> Seq(Connections)]
         /\ NoDup(queue'[s]) /\ Items(queue'[s]) = Items(queue[s]) \cup {Last(s)}
         /\ Len(queue'[s]) <= QueueCapacity
         /\ \A r \in Servers \ {s} : queue'[r] = queue[r]
         /\ pc'[s] = "poll" /\ \A y \in Calls \ {s} : pc'[y] = pc[y]
         /\ UNCHANGED <<backlog, conn, mine, wpc, job, verdict, joined, result>>
<1>1. /\ pc[s] = "send" /\ Len(queue[s]) < QueueCapacity
      /\ queue' = [queue EXCEPT ![s] = Append(@, Last(s))]
      /\ UNCHANGED <<backlog, conn, mine, wpc, job, verdict, joined, result>>
  BY DEF Send, listener, outcome, taken
<1>2. /\ mine[s] # <<>> /\ conn[Last(s)] = "accepted" /\ Last(s) \notin Items(queue[s])
      /\ NoDup(queue[s])
  BY <1>1 DEF IInv, QueueOk
<1>3. mine[s] \in Seq(Connections) /\ queue[s] \in Seq(Connections)
  BY DEF IInv, TypeOK, Types, Calls
<1>4. Last(s) \in Items(mine[s]) /\ Last(s) \in Connections
  BY <1>2, <1>3, ItemsType DEF Last
<1>5. /\ queue'[s] = Append(queue[s], Last(s)) /\ \A r \in Servers \ {s} : queue'[r] = queue[r]
      /\ queue' \in [Servers -> Seq(Connections)]
  BY <1>1, <1>4 DEF IInv, TypeOK, Types
<1>6. /\ NoDup(queue'[s]) /\ Items(queue'[s]) = Items(queue[s]) \cup {Last(s)}
      /\ Len(queue'[s]) = Len(queue[s]) + 1
  BY <1>2, <1>3, <1>4, <1>5, AppendItems
<1>7. Len(queue'[s]) <= QueueCapacity
  BY <1>1, <1>3, <1>6, CountAssumption
<1>8. pc'[s] = "poll" /\ \A y \in Calls \ {s} : pc'[y] = pc[y]
  BY GotoEffect DEF Send, IInv, Calls
<1>9. QED
  BY <1>1, <1>2, <1>4, <1>5, <1>6, <1>7, <1>8

\* A client's connection reaches the listener.
LEMMA ConnectEffect ==
  ASSUME IInv, NEW c \in Connections, Connect(c)
  PROVE  /\ conn[c] = "new"
         /\ backlog' \in Seq(Connections) /\ NoDup(backlog')
         /\ Items(backlog') = Items(backlog) \cup {c}
         /\ conn'[c] = "backlog"
         /\ \A d \in Connections \ {c} : conn'[d] = conn[d]
         /\ UNCHANGED <<pc, mine, queue, wpc, job, verdict, joined, result>>
<1>1. /\ conn[c] = "new" /\ conn' = [conn EXCEPT ![c] = "backlog"]
      /\ backlog' = Append(backlog, c)
      /\ UNCHANGED <<pc, mine, queue, wpc, job, verdict, joined, result>>
  BY DEF Connect, pool, outcome, taken
<1>2. c \notin Items(backlog) /\ NoDup(backlog) /\ backlog \in Seq(Connections)
  BY <1>1 DEF IInv, BacklogOk, TypeOK, Types
<1>3. /\ backlog' \in Seq(Connections) /\ NoDup(backlog')
      /\ Items(backlog') = Items(backlog) \cup {c}
  BY <1>1, <1>2, AppendItems
<1>4. conn'[c] = "backlog" /\ \A d \in Connections \ {c} : conn'[d] = conn[d]
  BY <1>1 DEF IInv, TypeOK, Types
<1>5. QED
  BY <1>1, <1>3, <1>4

\* The workers of a serve_until call start.
LEMMA ServeUntilEffect ==
  ASSUME IInv, NEW s \in Servers, ServeUntil(s)
  PROVE  /\ pc[s] = "start" /\ pc'[s] = "poll" /\ \A y \in Calls \ {s} : pc'[y] = pc[y]
         /\ \A w \in Workers : wpc'[s][w] = "lock"
         /\ \A r \in Servers \ {s} : wpc'[r] = wpc[r]
         /\ UNCHANGED <<backlog, conn, mine, queue, job, verdict, joined, result>>
<1>1. /\ pc[s] = "start" /\ wpc' = [wpc EXCEPT ![s] = [w \in Workers |-> "lock"]]
      /\ UNCHANGED <<backlog, conn, mine, queue, job, verdict, joined, result>>
  BY DEF ServeUntil, outcome, taken
<1>2. pc'[s] = "poll" /\ \A y \in Calls \ {s} : pc'[y] = pc[y]
  BY GotoEffect DEF ServeUntil, IInv, Calls
<1>3. QED
  BY <1>1, <1>2 DEF IInv, TypeOK, Types

\* A worker gets the mutex, or ends.
LEMMA WorkerStepEffect ==
  ASSUME IInv, NEW s \in Servers, NEW w \in Workers, Lock(s, w) \/ RecvFails(s, w)
  PROVE  \E label \in {"recv", "ended"} :
           /\ wpc[s][w] \in {"lock", "recv"}
           /\ \A r \in Servers, v \in Workers :
                wpc'[r][v] = IF r = s /\ v = w THEN label ELSE wpc[r][v]
           /\ label = "ended" => queue[s] = <<>> /\ SenderDropped(s)
           /\ UNCHANGED <<backlog, conn, pc, mine, queue, job, verdict, joined, result>>
<1>1. CASE Lock(s, w)
  <2>1. \A r \in Servers, v \in Workers :
          wpc'[r][v] = IF r = s /\ v = w THEN "recv" ELSE wpc[r][v]
    BY <1>1, WorkerAtEffect DEF Lock, IInv, WorkerLabels
  <2>2. /\ wpc[s][w] = "lock"
        /\ UNCHANGED <<backlog, conn, pc, mine, queue, job, verdict, joined, result>>
    BY <1>1 DEF Lock, listener, outcome, taken
  <2>3. QED
    BY <2>1, <2>2
<1>2. CASE RecvFails(s, w)
  <2>1. \A r \in Servers, v \in Workers :
          wpc'[r][v] = IF r = s /\ v = w THEN "ended" ELSE wpc[r][v]
    BY <1>2, WorkerAtEffect DEF RecvFails, IInv, WorkerLabels
  <2>2. /\ wpc[s][w] = "recv" /\ queue[s] = <<>> /\ SenderDropped(s)
        /\ UNCHANGED <<backlog, conn, pc, mine, queue, job, verdict, joined, result>>
    BY <1>2 DEF RecvFails, listener, outcome, taken
  <2>3. QED
    BY <2>1, <2>2
<1>3. QED
  BY <1>1, <1>2

\* The steps of a call that touch neither connections nor workers: how its thread
\* moves, what it has joined and what it returns.
CallMoves(x) ==
  /\ UNCHANGED <<backlog, conn, mine, queue, wpc, job>>
  /\ \A y \in Calls \ {x} : pc'[y] = pc[y] /\ result'[y] = result[y]
  /\ \A s \in Servers \ {x} : verdict'[s] = verdict[s]
  /\ \A b \in Batches \ {x} : joined'[b] = joined[b]
  /\ pc'[x] # "send" /\ pc'[x] # "start" /\ pc[x] # "send"
  /\ x \in Servers =>
       \/ /\ pc[x] \notin {"join", "restore", "done"} /\ pc'[x] \notin {"restore", "done"}
          /\ result'[x] = result[x]
       \/ /\ pc[x] = "join" /\ pc'[x] = "restore" /\ result'[x] = result[x]
          /\ \A w \in Workers : wpc[x][w] \in {"ended", "panicked"}
          /\ Panicked(x) => verdict'[x] = "error"
       \/ /\ pc[x] = "restore" /\ pc'[x] = "done"
          /\ result'[x] = verdict[x] /\ verdict'[x] = verdict[x]
  /\ x \in Batches =>
       \/ joined'[x] = joined[x] /\ result'[x] = result[x] /\ pc[x] # "done"
       \/ /\ joined'[x] = joined[x] + 1 /\ joined[x] < Len(mine[x])
          /\ conn[mine[x][joined[x] + 1]] = "served"
          /\ result'[x] = result[x] /\ pc[x] = "join"
       \/ joined'[x] = joined[x] /\ pc'[x] = "done" /\ pc[x] # "done"
          /\ (result'[x] = "error" \/ joined[x] = Len(mine[x]))

\* They are these.
LEMMA CallMovesStep ==
  ASSUME IInv
  PROVE  /\ \A s \in Servers :
              (\/ Block(s) \/ Sleep(s) \/ StopAccepting(s) \/ Poll(s) \/ JoinWorkers(s)
               \/ Restore(s)) => CallMoves(s)
         /\ \A b \in Batches :
              (\/ Block(b) \/ GiveUp(b) \/ ServeN(b) \/ JoinThread(b)
               \/ BatchReturns(b)) => CallMoves(b)
<1>1. ASSUME NEW s \in Servers
      PROVE  s \in Calls /\ s \notin Batches
  BY CallsAssumption DEF Calls
<1>2. ASSUME NEW b \in Batches
      PROVE  b \in Calls /\ b \notin Servers
  BY CallsAssumption DEF Calls
<1>3. ASSUME NEW s \in Servers, Block(s) \/ Sleep(s) \/ Poll(s)
      PROVE  CallMoves(s)
  <2>1. /\ UNCHANGED <<backlog, conn, mine, queue, wpc, job, verdict, joined, result>>
        /\ pc[s] \in {"accept", "poll"}
    BY <1>3 DEF Block, Sleep, Poll, listener, pool, outcome, taken
  <2>2. pc'[s] \in {"blocked", "poll", "join", "accept"} /\ \A y \in Calls \ {s} : pc'[y] = pc[y]
    BY <1>1, <1>3, GotoEffect DEF Block, Sleep, Poll, IInv
  <2>3. QED
    BY <1>1, <2>1, <2>2 DEF CallMoves
<1>4. ASSUME NEW s \in Servers, StopAccepting(s)
      PROVE  CallMoves(s)
  <2>1. /\ UNCHANGED <<backlog, conn, mine, queue, wpc, job, joined, result>>
        /\ pc[s] \in {"accept", "blocked"}
        /\ \A r \in Servers \ {s} : verdict'[r] = verdict[r]
    BY <1>4 DEF StopAccepting, listener, pool, IInv, TypeOK, Types, taken
  <2>2. pc'[s] = "join" /\ \A y \in Calls \ {s} : pc'[y] = pc[y]
    BY <1>1, <1>4, GotoEffect DEF StopAccepting, IInv
  <2>3. QED
    BY <1>1, <2>1, <2>2 DEF CallMoves
<1>5. ASSUME NEW s \in Servers, JoinWorkers(s)
      PROVE  CallMoves(s)
  <2>1. /\ UNCHANGED <<backlog, conn, mine, queue, wpc, job, joined, result>>
        /\ pc[s] = "join" /\ \A w \in Workers : wpc[s][w] \in {"ended", "panicked"}
        /\ \A r \in Servers \ {s} : verdict'[r] = verdict[r]
        /\ Panicked(s) => verdict'[s] = "error"
    BY <1>5 DEF JoinWorkers, listener, pool, IInv, TypeOK, Types, taken
  <2>2. pc'[s] = "restore" /\ \A y \in Calls \ {s} : pc'[y] = pc[y]
    BY <1>1, <1>5, GotoEffect DEF JoinWorkers, IInv
  <2>3. QED
    BY <1>1, <2>1, <2>2 DEF CallMoves
<1>6. ASSUME NEW s \in Servers, Restore(s)
      PROVE  CallMoves(s)
  <2>1. /\ UNCHANGED <<backlog, conn, mine, queue, wpc, job, joined, verdict>>
        /\ pc[s] = "restore" /\ result'[s] = verdict[s]
        /\ \A y \in Calls \ {s} : result'[y] = result[y]
    BY <1>1, <1>6 DEF Restore, pool, IInv, TypeOK, Types, taken
  <2>2. pc'[s] = "done" /\ \A y \in Calls \ {s} : pc'[y] = pc[y]
    BY <1>1, <1>6, GotoEffect DEF Restore, IInv
  <2>3. QED
    BY <1>1, <2>1, <2>2 DEF CallMoves
<1>7. ASSUME NEW b \in Batches, Block(b) \/ ServeN(b)
      PROVE  CallMoves(b)
  <2>1. /\ UNCHANGED <<backlog, conn, mine, queue, wpc, job, verdict, joined, result>>
        /\ pc[b] \in {"accept", "start"}
    BY <1>7 DEF Block, ServeN, listener, pool, outcome, taken
  <2>2. pc'[b] \in {"blocked", "join", "accept"} /\ \A y \in Calls \ {b} : pc'[y] = pc[y]
    BY <1>2, <1>7, GotoEffect DEF Block, ServeN, IInv
  <2>3. QED
    BY <1>2, <2>1, <2>2 DEF CallMoves
<1>8. ASSUME NEW b \in Batches, GiveUp(b) \/ BatchReturns(b)
      PROVE  CallMoves(b)
  <2>1. /\ UNCHANGED <<backlog, conn, mine, queue, wpc, job, verdict, joined>>
        /\ pc[b] \in {"accept", "blocked", "join"}
        /\ result'[b] = "error" \/ joined[b] = Len(mine[b])
        /\ \A y \in Calls \ {b} : result'[y] = result[y]
    BY <1>2, <1>8 DEF GiveUp, BatchReturns, listener, pool, IInv, TypeOK, Types, taken
  <2>2. pc'[b] = "done" /\ \A y \in Calls \ {b} : pc'[y] = pc[y]
    BY <1>2, <1>8, GotoEffect DEF GiveUp, BatchReturns, IInv
  <2>3. QED
    BY <1>2, <2>1, <2>2 DEF CallMoves
<1>9. ASSUME NEW b \in Batches, JoinThread(b)
      PROVE  CallMoves(b)
  <2>1. /\ UNCHANGED <<backlog, conn, mine, queue, wpc, job, verdict>>
        /\ pc[b] = "join" /\ joined[b] < Len(mine[b])
    BY <1>9 DEF JoinThread, listener, pool, taken
  <2>2. CASE /\ conn[mine[b][joined[b] + 1]] = "served"
             /\ joined' = [joined EXCEPT ![b] = @ + 1] /\ UNCHANGED <<pc, result>>
    <3>1. joined'[b] = joined[b] + 1 /\ \A d \in Batches \ {b} : joined'[d] = joined[d]
      BY <2>2 DEF IInv, TypeOK, Types
    <3>2. QED
      BY <1>2, <2>1, <2>2, <3>1 DEF CallMoves
  <2>3. CASE /\ result' = [result EXCEPT ![b] = "error"] /\ Goto(b, "done")
             /\ UNCHANGED joined
    <3>1. /\ result'[b] = "error" /\ \A y \in Calls \ {b} : result'[y] = result[y]
          /\ pc'[b] = "done" /\ \A y \in Calls \ {b} : pc'[y] = pc[y]
      BY <1>2, <2>3, GotoEffect DEF IInv, TypeOK, Types
    <3>2. QED
      BY <1>2, <2>1, <2>3, <3>1 DEF CallMoves
  <2>4. QED
    BY <1>9, <2>2, <2>3 DEF JoinThread
<1>10. QED
  BY <1>3, <1>4, <1>5, <1>6, <1>7, <1>8, <1>9

\* What IInv reads of the state.
seen == <<backlog, conn, pc, mine, queue, wpc, job, verdict, joined, result>>

\* The steps by what they do to that part of the state.
LEMMA StepCases ==
  ASSUME IInv, [Next]_vars
  PROVE  \/ UNCHANGED seen
         \/ \E x \in Calls : CallMoves(x) \/ Accept(x)
         \/ \E c \in Connections : Connect(c)
         \/ \E s \in Servers : ServeUntil(s) \/ Send(s)
         \/ \E s \in Servers, w \in Workers :
              \/ Lock(s, w) \/ RecvFails(s, w) \/ Recv(s, w)
              \/ \E how \in Finished : Handled(s, w, how)
         \/ \E b \in Batches, c \in Connections, how \in Finished : ThreadEnds(b, c, how)
<1>1. CASE UNCHANGED vars
  BY <1>1 DEF vars, seen, listener, pool, outcome, taken
<1>2. ASSUME NEW s \in Servers, RequestShutdown(s)
      PROVE  UNCHANGED seen
  BY <1>2 DEF RequestShutdown, seen, listener, pool, outcome, taken
<1>3. Servers \subseteq Calls /\ Batches \subseteq Calls
  BY DEF Calls
<1>4. ASSUME NEW s \in Servers, Acceptor(s) \/ StopAccepting(s)
      PROVE  CallMoves(s) \/ Accept(s) \/ Send(s)
  BY <1>4, CallMovesStep DEF Acceptor
<1>5. ASSUME NEW b \in Batches, Batch(b)
      PROVE  \/ CallMoves(b) \/ Accept(b)
             \/ \E c \in Connections, how \in Finished : ThreadEnds(b, c, how)
  BY <1>5, CallMovesStep DEF Batch
<1>6. ASSUME NEW s \in Servers, NEW w \in Workers, Worker(s, w)
      PROVE  \/ Lock(s, w) \/ RecvFails(s, w) \/ Recv(s, w)
             \/ \E how \in Finished : Handled(s, w, how)
  BY <1>6 DEF Worker
<1>7. QED
  BY <1>1, <1>2, <1>3, <1>4, <1>5, <1>6 DEF Next

\* Servers and batches are calls, and the connections of a call are connections.
LEMMA CallFacts ==
  ASSUME TypeOK
  PROVE  /\ \A s \in Servers : s \in Calls /\ s \notin Batches
         /\ \A b \in Batches : b \in Calls /\ b \notin Servers
         /\ \A x \in Calls : /\ mine[x] \in Seq(Connections) /\ Len(mine[x]) \in Nat
                             /\ Items(mine[x]) \subseteq Connections
                             /\ \A i \in 1..Len(mine[x]) : mine[x][i] \in Items(mine[x])
         /\ \A s \in Servers : Items(queue[s]) \subseteq Connections
         /\ Items(backlog) \subseteq Connections
<1>1. \A x \in Calls : mine[x] \in Seq(Connections) /\ Len(mine[x]) \in Nat
  BY DEF TypeOK, Types
<1>2. \A s \in Servers : queue[s] \in Seq(Connections)
  BY DEF TypeOK, Types
<1>3. backlog \in Seq(Connections)
  BY DEF TypeOK, Types
<1>4. QED
  BY <1>1, <1>2, <1>3, ItemsType, CallsAssumption DEF Calls

\* The connection a serve_until call is about to send is its own.
LEMMA LastType ==
  ASSUME TypeOK, QueueOk
  PROVE  \A s \in Servers : pc[s] = "send" =>
           Last(s) \in Items(mine[s]) /\ Last(s) \in Connections
<1>1. \A s \in Servers : mine[s] \in Seq(Connections)
  BY DEF TypeOK, Types, Calls
<1>2. QED
  BY <1>1, ItemsType DEF QueueOk, Last

\* Every step preserves BacklogOk.
LEMMA BacklogStep ==
  ASSUME IInv, [Next]_vars
  PROVE  BacklogOk'
<1>1. ASSUME UNCHANGED <<backlog, conn, mine>>
      PROVE  BacklogOk'
  BY <1>1 DEF IInv, BacklogOk, Items, NoDup
<1>2. ASSUME UNCHANGED <<backlog, mine>>, NEW c \in Connections,
             conn[c] # "backlog", conn'[c] \notin {"new", "backlog"},
             \A d \in Connections \ {c} : conn'[d] = conn[d]
      PROVE  BacklogOk'
  <2>1. \A d \in Connections : conn[d] = "backlog" => conn'[d] = "backlog"
    BY <1>2
  <2>2. \A d \in Connections : conn[d] \notin {"new", "backlog"} =>
          conn'[d] \notin {"new", "backlog"}
    BY <1>2
  <2>3. QED
    BY <1>2, <2>1, <2>2, CallFacts DEF IInv, BacklogOk
<1>3. ASSUME NEW x \in Calls, Accept(x)
      PROVE  BacklogOk'
  <2>1. PICK c \in Connections :
          /\ conn[c] = "backlog"
          /\ \A y \in Calls : c \notin Items(mine[y])
          /\ NoDup(backlog') /\ Items(backlog') = Items(backlog) \ {c}
          /\ Items(mine'[x]) = Items(mine[x]) \cup {c}
          /\ \A y \in Calls \ {x} : mine'[y] = mine[y]
          /\ conn'[c] \in {"accepted", "handling"}
          /\ \A d \in Connections \ {c} : conn'[d] = conn[d]
    BY <1>3, AcceptEffect, ZenonT(40)
  <2>2. \A d \in Items(backlog') : conn'[d] = "backlog"
    BY <2>1, CallFacts DEF IInv, BacklogOk
  <2>3. \A y \in Calls : \A d \in Items(mine'[y]) : d = c \/ d \in Items(mine[y])
    BY <2>1
  <2>4. \A y \in Calls : \A d \in Items(mine'[y]) : conn'[d] \notin {"new", "backlog"}
    BY <2>1, <2>3, CallFacts DEF IInv, BacklogOk
  <2>5. \A y \in Calls \ {x} : Items(mine'[y]) = Items(mine[y])
    BY <2>1
  <2>6. \A y, z \in Calls : y # z => \A d \in Items(mine'[y]) : d \notin Items(mine'[z])
    BY <2>1, <2>5 DEF IInv, BacklogOk
  <2>7. QED
    BY <2>1, <2>2, <2>4, <2>6 DEF BacklogOk
<1>4. ASSUME NEW c \in Connections, Connect(c)
      PROVE  BacklogOk'
  <2>1. /\ conn[c] = "new" /\ NoDup(backlog') /\ Items(backlog') = Items(backlog) \cup {c}
        /\ conn'[c] = "backlog" /\ mine' = mine
        /\ \A d \in Connections \ {c} : conn'[d] = conn[d]
    BY <1>4, ConnectEffect
  <2>2. QED
    BY <2>1, CallFacts DEF IInv, BacklogOk
<1>5. ASSUME NEW s \in Servers, NEW w \in Workers, Recv(s, w)
      PROVE  BacklogOk'
  <2>1. PICK c \in Connections :
          /\ conn[c] = "accepted" /\ conn'[c] = "handling" /\ UNCHANGED <<backlog, mine>>
          /\ \A d \in Connections \ {c} : conn'[d] = conn[d]
    BY <1>5, RecvEffect DEF Takes
  <2>2. QED
    BY <1>2, <2>1
<1>6. ASSUME NEW s \in Servers, NEW w \in Workers, NEW how \in Finished, Handled(s, w, how)
      PROVE  BacklogOk'
  <2>1. PICK c \in Connections :
          /\ conn[c] = "handling" /\ conn'[c] = how /\ UNCHANGED <<backlog, mine>>
          /\ \A d \in Connections \ {c} : conn'[d] = conn[d]
    BY <1>6, HandledEffect DEF Finishes
  <2>2. QED
    BY <1>2, <2>1 DEF Finished
<1>7. ASSUME NEW b \in Batches, NEW c \in Connections, NEW how \in Finished, ThreadEnds(b, c, how)
      PROVE  BacklogOk'
  <2>1. /\ conn[c] = "handling" /\ conn'[c] = how /\ UNCHANGED <<backlog, mine>>
        /\ \A d \in Connections \ {c} : conn'[d] = conn[d]
    BY <1>7, ThreadEndsEffect
  <2>2. QED
    BY <1>2, <2>1 DEF Finished
<1>8. ASSUME NEW s \in Servers, ServeUntil(s) \/ Send(s)
      PROVE  UNCHANGED <<backlog, conn, mine>>
  BY <1>8, ServeUntilEffect, SendEffect
<1>9. ASSUME NEW s \in Servers, NEW w \in Workers, Lock(s, w) \/ RecvFails(s, w)
      PROVE  UNCHANGED <<backlog, conn, mine>>
  BY <1>9, WorkerStepEffect
<1>10. ASSUME NEW x \in Calls, CallMoves(x)
      PROVE  UNCHANGED <<backlog, conn, mine>>
  BY <1>10 DEF CallMoves
<1>11. UNCHANGED seen => UNCHANGED <<backlog, conn, mine>>
  BY DEF seen
<1>12. QED
  BY <1>1, <1>3, <1>4, <1>5, <1>6, <1>7, <1>8, <1>9, <1>10, <1>11, StepCases

\* Every step preserves QueueOk.
LEMMA QueueStep ==
  ASSUME IInv, [Next]_vars
  PROVE  QueueOk'
<1>1. ASSUME UNCHANGED <<conn, mine, queue>>,
             \A s \in Servers : pc'[s] = pc[s] \/ (pc'[s] # "send" /\ pc[s] # "send")
      PROVE  QueueOk'
  <2>1. \A s \in Servers : Last(s)' = Last(s)
    BY <1>1 DEF Last
  <2>2. QED
    BY <1>1, <2>1 DEF IInv, QueueOk
<1>2. ASSUME NEW c \in Connections, UNCHANGED <<mine, queue, pc>>,
             conn[c] # "accepted", conn'[c] # "accepted",
             \A d \in Connections \ {c} : conn'[d] = conn[d]
      PROVE  QueueOk'
  <2>1. \A s \in Servers : Last(s)' = Last(s)
    BY <1>2 DEF Last
  <2>2. \A d \in Connections : conn[d] = "accepted" <=> conn'[d] = "accepted"
    BY <1>2
  <2>3. \A s \in Servers : pc[s] = "send" => Last(s) \in Connections
    BY LastType DEF IInv
  <2>4. QED
    BY <1>2, <2>1, <2>2, <2>3, CallFacts DEF IInv, QueueOk
<1>3. ASSUME NEW x \in Calls, Accept(x)
      PROVE  QueueOk'
  <2>1. PICK c \in Connections :
          /\ conn[c] = "backlog"
          /\ \A y \in Calls : c \notin Items(mine[y])
          /\ Items(mine'[x]) = Items(mine[x]) \cup {c}
          /\ mine'[x] # <<>> /\ mine'[x][Len(mine'[x])] = c
          /\ \A y \in Calls \ {x} : mine'[y] = mine[y]
          /\ conn'[c] = IF x \in Servers THEN "accepted" ELSE "handling"
          /\ \A d \in Connections \ {c} : conn'[d] = conn[d]
          /\ pc[x] \in {"accept", "blocked"}
          /\ (x \in Servers => pc'[x] = "send")
          /\ \A y \in Calls \ {x} : pc'[y] = pc[y]
          /\ UNCHANGED queue
    BY <1>3, AcceptEffect
  <2>2. ASSUME NEW s \in Servers
        PROVE  \A d \in Items(queue[s]) : d # c /\ d \in Items(mine'[s]) /\ conn'[d] = "accepted"
    <3>1. \A d \in Items(queue[s]) : d \in Items(mine[s]) /\ conn[d] = "accepted"
      BY DEF IInv, QueueOk
    <3>2. QED
      BY <2>1, <3>1, CallFacts DEF IInv
  <2>3. ASSUME NEW s \in Servers, s = x
        PROVE  /\ pc'[s] = "send" /\ mine'[s] # <<>> /\ conn'[Last(s)'] = "accepted"
               /\ Last(s)' = c /\ Last(s)' \notin Items(queue[s])
               /\ \A d \in Items(mine'[s]) : conn'[d] = "accepted" =>
                    d \in Items(queue[s]) \/ d = c
    <3>1. Last(s)' = c
      BY <2>1, <2>3 DEF Last
    <3>2. \A d \in Items(mine[s]) : conn[d] = "accepted" => d \in Items(queue[s])
      BY <2>1, <2>3 DEF IInv, QueueOk
    <3>3. QED
      BY <2>1, <2>2, <2>3, <3>1, <3>2, CallFacts DEF IInv
  <2>4. ASSUME NEW s \in Servers, s # x
        PROVE  /\ pc'[s] = "send" => /\ mine'[s] # <<>> /\ conn'[Last(s)'] = "accepted"
                                     /\ Last(s)' \notin Items(queue[s])
               /\ \A d \in Items(mine'[s]) : conn'[d] = "accepted" =>
                    d \in Items(queue[s]) \/ (pc'[s] = "send" /\ d = Last(s)')
    <3>1. mine'[s] = mine[s] /\ Last(s)' = Last(s) /\ pc'[s] = pc[s]
      BY <2>1, <2>4, CallFacts DEF IInv, Last
    <3>2. pc[s] = "send" => Last(s) \in Items(mine[s])
      BY LastType DEF IInv
    <3>3. \A d \in Items(mine[s]) : d # c /\ d \in Connections /\ conn'[d] = conn[d]
      BY <2>1, CallFacts DEF IInv
    <3>4. QED
      BY <2>1, <3>1, <3>2, <3>3 DEF IInv, QueueOk
  <2>5. \A s \in Servers : NoDup(queue'[s]) /\ Len(queue'[s]) <= QueueCapacity
    BY <2>1 DEF IInv, QueueOk
  <2>6. queue' = queue
    BY <2>1
  <2>7. QED
    BY <2>2, <2>3, <2>4, <2>5, <2>6 DEF QueueOk
<1>4. ASSUME NEW c \in Connections, Connect(c)
      PROVE  QueueOk'
  <2>1. /\ conn[c] = "new" /\ conn'[c] = "backlog" /\ UNCHANGED <<mine, queue, pc>>
        /\ \A d \in Connections \ {c} : conn'[d] = conn[d]
    BY <1>4, ConnectEffect
  <2>2. QED
    BY <1>2, <2>1
<1>5. ASSUME NEW s \in Servers, NEW w \in Workers, Recv(s, w)
      PROVE  QueueOk'
  <2>0. PICK c \in Connections : Takes(s, w, c)
    BY <1>5, RecvEffect
  <2>1.   /\ c \in Items(queue[s]) /\ conn[c] = "accepted"
          /\ queue' \in [Servers -> Seq(Connections)]
          /\ NoDup(queue'[s]) /\ Items(queue'[s]) = Items(queue[s]) \ {c}
          /\ Len(queue'[s]) <= Len(queue[s])
          /\ \A r \in Servers \ {s} : queue'[r] = queue[r]
          /\ conn'[c] = "handling"
          /\ \A d \in Connections \ {c} : conn'[d] = conn[d]
          /\ UNCHANGED <<pc, mine>>
    BY <2>0 DEF Takes
  <2>2. Len(queue'[s]) <= QueueCapacity
    <3>1. Len(queue[s]) \in Nat /\ Len(queue'[s]) \in Nat /\ Len(queue[s]) <= QueueCapacity
      BY <2>1 DEF IInv, QueueOk, TypeOK, Types
    <3>2. QED
      BY <2>1, <3>1, CountAssumption
  <2>3. c \in Items(mine[s]) /\ (pc[s] = "send" => Last(s) # c)
    BY <2>1 DEF IInv, QueueOk
  <2>4. \A r \in Servers \ {s} : c \notin Items(mine[r])
    BY <2>3, CallFacts DEF IInv, BacklogOk
  <2>5. \A r \in Servers : Last(r)' = Last(r)
    BY <2>1 DEF Last
  <2>6. \A r \in Servers : pc[r] = "send" => Last(r) \in Items(mine[r])
    BY LastType DEF IInv
  <2>7. ASSUME NEW r \in Servers, r # s
        PROVE  \A d \in Items(mine[r]) : d # c /\ conn'[d] = conn[d]
    BY <2>1, <2>4, <2>7, CallFacts DEF IInv
  <2>8. \A d \in Items(mine[s]) : d \in Connections
    BY CallFacts DEF IInv
  <2>9. ASSUME NEW r \in Servers, r # s
        PROVE  /\ \A d \in Items(queue[r]) : d \in Items(mine[r]) /\ conn'[d] = "accepted"
               /\ pc[r] = "send" => conn'[Last(r)] = "accepted"
               /\ \A d \in Items(mine[r]) : conn'[d] = "accepted" =>
                    d \in Items(queue[r]) \/ (pc[r] = "send" /\ d = Last(r))
    BY <2>6, <2>7, <2>9 DEF IInv, QueueOk
  <2>10. /\ \A d \in Items(queue'[s]) : d \in Items(mine[s]) /\ conn'[d] = "accepted"
         /\ pc[s] = "send" => conn'[Last(s)] = "accepted"
         /\ \A d \in Items(mine[s]) : conn'[d] = "accepted" =>
              d \in Items(queue'[s]) \/ (pc[s] = "send" /\ d = Last(s))
    <3>1. \A d \in Items(mine[s]) : d # c => conn'[d] = conn[d]
      BY <2>1, <2>8
    <3>2. \A d \in Items(queue'[s]) : d \in Items(mine[s]) /\ d # c /\ conn[d] = "accepted"
      BY <2>1 DEF IInv, QueueOk
    <3>3. pc[s] = "send" => Last(s) \in Items(mine[s]) /\ conn[Last(s)] = "accepted"
      BY <2>6 DEF IInv, QueueOk
    <3>4. \A d \in Items(mine[s]) : conn[d] = "accepted" /\ d # c =>
            d \in Items(queue'[s]) \/ (pc[s] = "send" /\ d = Last(s))
      BY <2>1 DEF IInv, QueueOk
    <3>5. QED
      BY <2>1, <2>3, <3>1, <3>2, <3>3, <3>4
  <2>11. ASSUME NEW r \in Servers
         PROVE  /\ NoDup(queue'[r]) /\ Len(queue'[r]) <= QueueCapacity
                /\ pc[r] = "send" => mine[r] # <<>> /\ Last(r) \notin Items(queue'[r])
    BY <2>1, <2>2 DEF IInv, QueueOk
  <2>12. ASSUME NEW r \in Servers
         PROVE  /\ \A d \in Items(queue'[r]) : d \in Items(mine[r]) /\ conn'[d] = "accepted"
                /\ pc[r] = "send" => conn'[Last(r)] = "accepted"
                /\ \A d \in Items(mine[r]) : conn'[d] = "accepted" =>
                     d \in Items(queue'[r]) \/ (pc[r] = "send" /\ d = Last(r))
    <3>1. CASE r = s
      BY <2>10, <3>1
    <3>2. CASE r # s
      BY <2>1, <2>9, <3>2
    <3>3. QED
      BY <3>1, <3>2
  <2>13. pc' = pc /\ mine' = mine
    BY <2>1
  <2>14. QED
    BY <2>5, <2>11, <2>12, <2>13 DEF QueueOk
<1>6. ASSUME NEW s \in Servers, NEW w \in Workers, NEW how \in Finished, Handled(s, w, how)
      PROVE  QueueOk'
  <2>1. PICK c \in Connections :
          /\ conn[c] = "handling" /\ conn'[c] = how /\ UNCHANGED <<mine, queue, pc>>
          /\ \A d \in Connections \ {c} : conn'[d] = conn[d]
    BY <1>6, HandledEffect DEF Finishes
  <2>2. QED
    BY <1>2, <2>1 DEF Finished
<1>7. ASSUME NEW b \in Batches, NEW c \in Connections, NEW how \in Finished, ThreadEnds(b, c, how)
      PROVE  QueueOk'
  <2>1. /\ conn[c] = "handling" /\ conn'[c] = how /\ UNCHANGED <<mine, queue, pc>>
        /\ \A d \in Connections \ {c} : conn'[d] = conn[d]
    BY <1>7, ThreadEndsEffect
  <2>2. QED
    BY <1>2, <2>1 DEF Finished
<1>8. ASSUME NEW s \in Servers, ServeUntil(s)
      PROVE  QueueOk'
  <2>1. /\ UNCHANGED <<conn, mine, queue>>
        /\ \A r \in Servers : pc'[r] = pc[r] \/ (pc'[r] # "send" /\ pc[r] # "send")
    <3>1. /\ UNCHANGED <<conn, mine, queue>> /\ pc[s] = "start" /\ pc'[s] = "poll"
          /\ \A y \in Calls \ {s} : pc'[y] = pc[y]
      BY <1>8, ServeUntilEffect
    <3>2. QED
      BY <3>1, CallFacts DEF IInv
  <2>2. QED
    BY <1>1, <2>1
<1>9. ASSUME NEW s \in Servers, Send(s)
      PROVE  QueueOk'
  <2>1. /\ pc[s] = "send" /\ Last(s) \in Items(mine[s]) /\ conn[Last(s)] = "accepted"
        /\ NoDup(queue'[s]) /\ Items(queue'[s]) = Items(queue[s]) \cup {Last(s)}
        /\ Len(queue'[s]) <= QueueCapacity
        /\ \A r \in Servers \ {s} : queue'[r] = queue[r]
        /\ pc'[s] = "poll" /\ \A y \in Calls \ {s} : pc'[y] = pc[y]
        /\ UNCHANGED <<conn, mine>>
    BY <1>9, SendEffect
  <2>2. \A r \in Servers : Last(r)' = Last(r)
    BY <2>1 DEF Last
  <2>3. \A r \in Servers \ {s} : pc'[r] = pc[r]
    BY <2>1, CallFacts DEF IInv
  <2>4. QED
    BY <2>1, <2>2, <2>3 DEF IInv, QueueOk
<1>10. ASSUME NEW s \in Servers, NEW w \in Workers, Lock(s, w) \/ RecvFails(s, w)
      PROVE  QueueOk'
  <2>1. UNCHANGED <<conn, mine, queue, pc>>
    BY <1>10, WorkerStepEffect
  <2>2. QED
    BY <1>1, <2>1
<1>11. ASSUME NEW x \in Calls, CallMoves(x)
      PROVE  QueueOk'
  <2>1. /\ UNCHANGED <<conn, mine, queue>>
        /\ \A r \in Servers : pc'[r] = pc[r] \/ (pc'[r] # "send" /\ pc[r] # "send")
    <3>1. /\ UNCHANGED <<conn, mine, queue>> /\ pc[x] # "send" /\ pc'[x] # "send"
          /\ \A y \in Calls \ {x} : pc'[y] = pc[y]
      BY <1>11 DEF CallMoves
    <3>2. QED
      BY <3>1, CallFacts DEF IInv
  <2>2. QED
    BY <1>1, <2>1
<1>12. CASE UNCHANGED seen
  <2>1. UNCHANGED <<conn, mine, queue, pc>>
    BY <1>12 DEF seen
  <2>2. QED
    BY <1>1, <2>1
<1>13. QED
  BY <1>3, <1>4, <1>5, <1>6, <1>7, <1>8, <1>9, <1>10, <1>11, <1>12, StepCases

\* Every step preserves JobsOk.
LEMMA JobsStep ==
  ASSUME IInv, [Next]_vars
  PROVE  JobsOk'
<1>1. ASSUME UNCHANGED <<wpc, job>>,
             \A s \in Servers :
               /\ Items(mine[s]) \subseteq Items(mine'[s])
               /\ \A d \in Items(mine[s]) : conn'[d] = conn[d]
               /\ \A d \in Items(mine'[s]) \ Items(mine[s]) : conn'[d] = "accepted"
      PROVE  JobsOk'
  <2>1. SUFFICES ASSUME NEW s \in Servers
                 PROVE  JobsOk!(s)'
    BY DEF JobsOk
  <2>2. QED
    BY <1>1 DEF IInv, JobsOk, Panicked
<1>2. ASSUME UNCHANGED <<conn, mine, job>>,
             \A s \in Servers :
               /\ \A w \in Workers : wpc'[s][w] = "handle" <=> wpc[s][w] = "handle"
               /\ Panicked(s) => Panicked(s)' \/ Items(mine[s]) = {}
      PROVE  JobsOk'
  BY <1>2 DEF IInv, JobsOk
<1>3. ASSUME NEW x \in Calls, Accept(x)
      PROVE  JobsOk'
  <2>1. PICK c \in Connections :
          /\ \A y \in Calls : c \notin Items(mine[y])
          /\ Items(mine'[x]) = Items(mine[x]) \cup {c}
          /\ \A y \in Calls \ {x} : mine'[y] = mine[y]
          /\ conn'[c] = IF x \in Servers THEN "accepted" ELSE "handling"
          /\ \A d \in Connections \ {c} : conn'[d] = conn[d]
          /\ UNCHANGED <<wpc, job>>
    BY <1>3, AcceptEffect
  <2>2. ASSUME NEW s \in Servers
        PROVE  /\ Items(mine[s]) \subseteq Items(mine'[s])
               /\ \A d \in Items(mine[s]) : conn'[d] = conn[d]
               /\ \A d \in Items(mine'[s]) \ Items(mine[s]) : conn'[d] = "accepted"
    <3>1. s \in Calls /\ Items(mine[s]) \subseteq Connections
      BY CallFacts DEF IInv
    <3>2. \A d \in Items(mine[s]) : conn'[d] = conn[d]
      BY <2>1, <3>1
    <3>3. CASE s = x
      BY <2>1, <3>2, <3>3
    <3>4. CASE s # x
      BY <2>1, <3>1, <3>2, <3>4
    <3>5. QED
      BY <3>3, <3>4
  <2>3. QED
    BY <1>1, <2>1, <2>2
<1>4. ASSUME NEW c \in Connections, UNCHANGED <<mine, wpc, job>>,
             \A s \in Servers : c \notin Items(mine[s]),
             \A d \in Connections \ {c} : conn'[d] = conn[d]
      PROVE  JobsOk'
  <2>1. \A s \in Servers : \A d \in Items(mine[s]) : conn'[d] = conn[d]
    BY <1>4, CallFacts DEF IInv
  <2>2. QED
    BY <1>1, <1>4, <2>1
<1>5. ASSUME NEW c \in Connections, Connect(c)
      PROVE  JobsOk'
  <2>1. /\ conn[c] = "new" /\ UNCHANGED <<mine, wpc, job>>
        /\ \A d \in Connections \ {c} : conn'[d] = conn[d]
    BY <1>5, ConnectEffect
  <2>2. \A s \in Servers : c \notin Items(mine[s])
    BY <2>1, CallFacts DEF IInv, BacklogOk
  <2>3. QED
    BY <1>4, <2>1, <2>2
<1>6. ASSUME NEW b \in Batches, NEW c \in Connections, NEW how \in Finished, ThreadEnds(b, c, how)
      PROVE  JobsOk'
  <2>1. /\ \A s \in Servers : c \notin Items(mine[s])
        /\ UNCHANGED <<mine, wpc, job>> /\ \A d \in Connections \ {c} : conn'[d] = conn[d]
    BY <1>6, ThreadEndsEffect
  <2>2. QED
    BY <1>4, <2>1
<1>7. ASSUME NEW s \in Servers, ServeUntil(s)
      PROVE  JobsOk'
  <2>1. /\ pc[s] = "start" /\ UNCHANGED <<conn, mine, job>>
        /\ \A w \in Workers : wpc'[s][w] = "lock"
        /\ \A r \in Servers \ {s} : wpc'[r] = wpc[r]
    BY <1>7, ServeUntilEffect
  <2>2. mine[s] = <<>> /\ \A w \in Workers : wpc[s][w] = "unborn"
    BY <2>1 DEF IInv, PoolOk
  <2>3. Items(mine[s]) = {}
    BY <2>2, CallFacts, ItemsType DEF IInv
  <2>4. \A r \in Servers : \A w \in Workers : wpc'[r][w] = "handle" <=> wpc[r][w] = "handle"
    BY <2>1, <2>2
  <2>5. \A r \in Servers : Panicked(r) => Panicked(r)' \/ Items(mine[r]) = {}
    BY <2>1, <2>3 DEF Panicked
  <2>6. QED
    BY <1>2, <2>1, <2>4, <2>5
<1>8. ASSUME NEW s \in Servers, NEW w \in Workers, Lock(s, w) \/ RecvFails(s, w)
      PROVE  JobsOk'
  <2>1. PICK label \in {"recv", "ended"} :
          /\ wpc[s][w] \in {"lock", "recv"} /\ UNCHANGED <<conn, mine, job>>
          /\ \A r \in Servers, v \in Workers :
               wpc'[r][v] = IF r = s /\ v = w THEN label ELSE wpc[r][v]
    BY <1>8, WorkerStepEffect
  <2>2. \A r \in Servers, v \in Workers : wpc'[r][v] = "handle" <=> wpc[r][v] = "handle"
    BY <2>1
  <2>3. \A r \in Servers : Panicked(r) => Panicked(r)'
    BY <2>1 DEF Panicked
  <2>4. QED
    BY <1>2, <2>1, <2>2, <2>3
<1>9. ASSUME NEW s \in Servers, NEW w \in Workers, Recv(s, w)
      PROVE  JobsOk'
  <2>1. PICK c \in Connections : Takes(s, w, c)
    BY <1>9, RecvEffect
  <2>2. /\ c \in Items(mine[s]) /\ conn[c] = "accepted" /\ conn'[c] = "handling" /\ mine' = mine
        /\ \A d \in Connections \ {c} : conn'[d] = conn[d]
    BY <2>1 DEF Takes, IInv, QueueOk
  <2>3. /\ wpc[s][w] = "recv"
        /\ \A r \in Servers, v \in Workers :
             /\ job'[r][v] = IF r = s /\ v = w THEN c ELSE job[r][v]
             /\ wpc'[r][v] = IF r = s /\ v = w THEN "handle" ELSE wpc[r][v]
    BY <2>1 DEF Takes
  <2>4. \A r \in Servers \ {s} : c \notin Items(mine[r])
    BY <2>2, CallFacts DEF IInv, BacklogOk
  <2>5. \A r \in Servers : \A d \in Items(mine[r]) : d # c => conn'[d] = conn[d]
    BY <2>2, CallFacts DEF IInv
  <2>6. c # None /\ \A r \in Servers, v \in Workers : job[r][v] # c
    BY <2>2, ConnectionsAssumption DEF IInv, JobsOk
  <2>7. ASSUME NEW r \in Servers, NEW v \in Workers
        PROVE  /\ job'[r][v] # None <=> wpc'[r][v] = "handle"
               /\ job'[r][v] # None => job'[r][v] \in Items(mine[r]) /\ conn'[job'[r][v]] = "handling"
    BY <2>2, <2>3, <2>5, <2>6 DEF IInv, JobsOk
  <2>8. ASSUME NEW r \in Servers, NEW v \in Workers, NEW u \in Workers, u # v, job'[r][v] # None
        PROVE  job'[r][v] # job'[r][u]
    BY <2>3, <2>6, <2>8 DEF IInv, JobsOk
  <2>9. \A r \in Servers : Panicked(r) => Panicked(r)'
    BY <2>3 DEF Panicked
  <2>10. ASSUME NEW r \in Servers, NEW d \in Items(mine[r])
         PROVE  /\ conn'[d] = "handling" => \E v \in Workers : job'[r][v] = d
                /\ conn'[d] = "panicked" => Panicked(r)'
    <3>1. CASE d = c
      BY <2>2, <2>3, <2>4, <3>1
    <3>2. CASE d # c
      <4>1. conn'[d] = conn[d]
        BY <2>5, <3>2
      <4>2. ASSUME conn[d] = "handling"
            PROVE  \E v \in Workers : job'[r][v] = d
        <5>1. PICK v \in Workers : job[r][v] = d
          BY <4>2 DEF IInv, JobsOk
        <5>2. d # None
          BY CallFacts, ConnectionsAssumption DEF IInv
        <5>3. wpc[r][v] = "handle"
          BY <5>1, <5>2 DEF IInv, JobsOk
        <5>4. job'[r][v] = d
          BY <2>3, <5>1, <5>3
        <5>5. QED
          BY <5>4
      <4>3. conn[d] = "panicked" => Panicked(r)
        BY DEF IInv, JobsOk
      <4>4. QED
        BY <2>9, <4>1, <4>2, <4>3
    <3>3. QED
      BY <3>1, <3>2
  <2>11. QED
    BY <2>2, <2>7, <2>8, <2>10 DEF JobsOk
<1>10. ASSUME NEW s \in Servers, NEW w \in Workers, NEW how \in Finished, Handled(s, w, how)
      PROVE  JobsOk'
  <2>1. PICK c \in Connections : Finishes(s, w, how, c)
    BY <1>10, HandledEffect
  <2>2. /\ c \in Items(mine[s]) /\ job[s][w] = c /\ conn'[c] = how /\ mine' = mine
        /\ \A d \in Connections \ {c} : conn'[d] = conn[d]
    BY <2>1 DEF Finishes
  <2>3. /\ wpc[s][w] = "handle"
        /\ \A r \in Servers, v \in Workers :
             /\ job'[r][v] = IF r = s /\ v = w THEN None ELSE job[r][v]
             /\ wpc'[r][v] = IF r = s /\ v = w
                             THEN IF how = "panicked" THEN "panicked" ELSE "lock"
                             ELSE wpc[r][v]
    BY <2>1 DEF Finishes
  <2>4. \A r \in Servers \ {s} : c \notin Items(mine[r])
    BY <2>2, CallFacts DEF IInv, BacklogOk
  <2>5. \A r \in Servers : \A d \in Items(mine[r]) : d # c => conn'[d] = conn[d]
    BY <2>2, CallFacts DEF IInv
  <2>6. c # None /\ \A r \in Servers, v \in Workers : job'[r][v] # c
    <3>1. c # None
      BY ConnectionsAssumption
    <3>2. \A v \in Workers \ {w} : job[s][v] # c
      BY <2>2, <3>1 DEF IInv, JobsOk
    <3>3. \A r \in Servers \ {s}, v \in Workers : job[r][v] # c
      BY <2>4, <3>1 DEF IInv, JobsOk
    <3>4. QED
      BY <2>3, <3>1, <3>2, <3>3
  <2>7. ASSUME NEW r \in Servers, NEW v \in Workers
        PROVE  /\ job'[r][v] # None <=> wpc'[r][v] = "handle"
               /\ job'[r][v] # None => job'[r][v] \in Items(mine[r]) /\ conn'[job'[r][v]] = "handling"
    BY <2>2, <2>3, <2>5, <2>6 DEF IInv, JobsOk
  <2>8. ASSUME NEW r \in Servers, NEW v \in Workers, NEW u \in Workers, u # v, job'[r][v] # None
        PROVE  job'[r][v] # job'[r][u]
    BY <2>3, <2>8 DEF IInv, JobsOk
  <2>9. \A r \in Servers : Panicked(r) => Panicked(r)'
    BY <2>3 DEF Panicked
  <2>10. ASSUME NEW r \in Servers, NEW d \in Items(mine[r])
         PROVE  /\ conn'[d] = "handling" => \E v \in Workers : job'[r][v] = d
                /\ conn'[d] = "panicked" => Panicked(r)'
    <3>1. CASE d = c
      <4>1. r = s /\ how # "handling"
        BY <2>4, <3>1 DEF Finished
      <4>2. how = "panicked" => Panicked(s)'
        BY <2>3 DEF Panicked
      <4>3. QED
        BY <2>2, <3>1, <4>1, <4>2
    <3>2. CASE d # c
      <4>1. conn'[d] = conn[d]
        BY <2>5, <3>2
      <4>2. ASSUME conn[d] = "handling"
            PROVE  \E v \in Workers : job'[r][v] = d
        <5>1. PICK v \in Workers : job[r][v] = d
          BY <4>2 DEF IInv, JobsOk
        <5>2. job'[r][v] = d
          BY <2>2, <2>3, <3>2, <5>1
        <5>3. QED
          BY <5>2
      <4>3. conn[d] = "panicked" => Panicked(r)
        BY DEF IInv, JobsOk
      <4>4. QED
        BY <2>9, <4>1, <4>2, <4>3
    <3>3. QED
      BY <3>1, <3>2
  <2>11. QED
    BY <2>2, <2>7, <2>8, <2>10 DEF JobsOk
<1>11. ASSUME UNCHANGED <<conn, mine, wpc, job>>
      PROVE  JobsOk'
  BY <1>1, <1>11
<1>12. ASSUME NEW s \in Servers, Send(s)
      PROVE  JobsOk'
  BY <1>11, <1>12, SendEffect
<1>13. ASSUME NEW x \in Calls, CallMoves(x)
      PROVE  JobsOk'
  BY <1>11, <1>13 DEF CallMoves
<1>14. UNCHANGED seen => JobsOk'
  BY <1>11 DEF seen
<1>15. QED
  BY <1>3, <1>5, <1>6, <1>7, <1>8, <1>9, <1>10, <1>12, <1>13, <1>14, StepCases

\* Every step preserves PoolOk.
LEMMA PoolStep ==
  ASSUME IInv, [Next]_vars
  PROVE  PoolOk'
<1> USE DEF SenderDropped
<1>1. ASSUME UNCHANGED <<pc, mine, queue, wpc, verdict, result>>
      PROVE  PoolOk'
  BY <1>1 DEF IInv, PoolOk, Panicked
<1>2. ASSUME NEW x \in Calls, Accept(x)
      PROVE  PoolOk'
  <2>1. /\ pc[x] \in {"accept", "blocked"} /\ (x \in Servers => pc'[x] = "send")
        /\ \A y \in Calls \ {x} : pc'[y] = pc[y] /\ mine'[y] = mine[y]
        /\ UNCHANGED <<queue, wpc, verdict, result>>
    BY <1>2, AcceptEffect
  <2>2. ASSUME NEW s \in Servers, s # x
        PROVE  pc'[s] = pc[s] /\ mine'[s] = mine[s]
    BY <2>1, <2>2, CallFacts DEF IInv
  <2>3. \A s \in Servers : Panicked(s)' <=> Panicked(s)
    BY <2>1 DEF Panicked
  <2>4. QED
    BY <2>1, <2>2, <2>3 DEF IInv, PoolOk
<1>3. ASSUME NEW s \in Servers, ServeUntil(s)
      PROVE  PoolOk'
  <2>1. /\ pc[s] = "start" /\ pc'[s] = "poll" /\ UNCHANGED <<mine, queue, verdict, result>>
        /\ \A y \in Calls \ {s} : pc'[y] = pc[y]
        /\ \A w \in Workers : wpc'[s][w] = "lock"
        /\ \A r \in Servers \ {s} : wpc'[r] = wpc[r]
    BY <1>3, ServeUntilEffect
  <2>2. ASSUME NEW r \in Servers, r # s
        PROVE  pc'[r] = pc[r] /\ (Panicked(r)' <=> Panicked(r))
    BY <2>1, <2>2, CallFacts DEF IInv, Panicked
  <2>3. QED
    BY <2>1, <2>2 DEF IInv, PoolOk
<1>4. ASSUME NEW s \in Servers, Send(s)
      PROVE  PoolOk'
  <2>1. /\ pc[s] = "send" /\ pc'[s] = "poll" /\ UNCHANGED <<mine, wpc, verdict, result>>
        /\ \A y \in Calls \ {s} : pc'[y] = pc[y]
        /\ \A r \in Servers \ {s} : queue'[r] = queue[r]
    BY <1>4, SendEffect
  <2>2. ASSUME NEW r \in Servers, r # s
        PROVE  pc'[r] = pc[r]
    BY <2>1, <2>2, CallFacts DEF IInv
  <2>3. \A r \in Servers : Panicked(r)' <=> Panicked(r)
    BY <2>1 DEF Panicked
  <2>4. QED
    BY <2>1, <2>2, <2>3 DEF IInv, PoolOk
<1>5. ASSUME NEW s \in Servers, NEW w \in Workers,
             NEW label \in {"recv", "handle", "lock", "panicked", "ended"},
             wpc[s][w] \in {"lock", "recv", "handle"}, UNCHANGED <<pc, mine, verdict, result>>,
             label = "ended" => queue'[s] = <<>> /\ SenderDropped(s),
             queue'[s] = queue[s] \/ queue[s] # <<>>,
             \A r \in Servers \ {s} : queue'[r] = queue[r],
             \A r \in Servers, v \in Workers :
               wpc'[r][v] = IF r = s /\ v = w THEN label ELSE wpc[r][v]
      PROVE  PoolOk'
  <2>1. pc[s] \notin {"start", "restore", "done"}
    BY <1>5 DEF IInv, PoolOk
  <2>2. \A r \in Servers : r # s => (Panicked(r)' <=> Panicked(r))
    BY <1>5 DEF Panicked
  <2>3. ASSUME NEW r \in Servers, NEW v \in Workers, wpc'[r][v] = "ended"
        PROVE  queue'[r] = <<>> /\ SenderDropped(r)
    BY <1>5, <2>3 DEF IInv, PoolOk
  <2>4. ASSUME NEW r \in Servers
        PROVE  /\ pc[r] = "start" => mine[r] = <<>> /\ \A v \in Workers : wpc'[r][v] = "unborn"
               /\ pc[r] \in {"restore", "done"} =>
                    /\ \A v \in Workers : wpc'[r][v] \in {"ended", "panicked"}
                    /\ Panicked(r)' => verdict[r] = "error"
               /\ result[r] # "none" => pc[r] = "done" /\ result[r] = verdict[r]
    BY <1>5, <2>1, <2>2 DEF IInv, PoolOk
  <2>5. QED
    BY <1>5, <2>3, <2>4 DEF PoolOk
<1>6. ASSUME NEW s \in Servers, NEW w \in Workers, Lock(s, w) \/ RecvFails(s, w)
      PROVE  PoolOk'
  <2>1. PICK label \in {"recv", "ended"} :
          /\ wpc[s][w] \in {"lock", "recv"}
          /\ \A r \in Servers, v \in Workers :
               wpc'[r][v] = IF r = s /\ v = w THEN label ELSE wpc[r][v]
          /\ label = "ended" => queue[s] = <<>> /\ SenderDropped(s)
          /\ UNCHANGED <<pc, mine, queue, verdict, result>>
    BY <1>6, WorkerStepEffect
  <2>2. QED
    BY <1>5, <2>1
<1>7. ASSUME NEW s \in Servers, NEW w \in Workers, Recv(s, w)
      PROVE  PoolOk'
  <2>1. PICK c \in Connections : Takes(s, w, c)
    BY <1>7, RecvEffect
  <2>2. /\ wpc[s][w] = "recv" /\ queue[s] # <<>> /\ UNCHANGED <<pc, mine, verdict, result>>
        /\ \A r \in Servers \ {s} : queue'[r] = queue[r]
        /\ \A r \in Servers, v \in Workers :
             wpc'[r][v] = IF r = s /\ v = w THEN "handle" ELSE wpc[r][v]
    BY <2>1 DEF Takes
  <2>3. QED
    BY <1>5, <2>2
<1>8. ASSUME NEW s \in Servers, NEW w \in Workers, NEW how \in Finished, Handled(s, w, how)
      PROVE  PoolOk'
  <2>1. PICK c \in Connections : Finishes(s, w, how, c)
    BY <1>8, HandledEffect
  <2>2. PICK label \in {"lock", "panicked"} : label = IF how = "panicked" THEN "panicked" ELSE "lock"
    OBVIOUS
  <2>3. /\ wpc[s][w] = "handle" /\ UNCHANGED <<pc, mine, queue, verdict, result>>
        /\ \A r \in Servers, v \in Workers :
             wpc'[r][v] = IF r = s /\ v = w THEN label ELSE wpc[r][v]
    BY <2>1, <2>2 DEF Finishes
  <2>4. QED
    BY <1>5, <2>3
<1>9. ASSUME NEW x \in Calls, CallMoves(x)
      PROVE  PoolOk'
  <2>1. /\ UNCHANGED <<mine, queue, wpc>>
        /\ \A y \in Calls \ {x} : pc'[y] = pc[y] /\ result'[y] = result[y]
        /\ \A s \in Servers \ {x} : verdict'[s] = verdict[s]
        /\ pc'[x] # "start"
    BY <1>9 DEF CallMoves
  <2>2. \A s \in Servers : Panicked(s)' <=> Panicked(s)
    BY <2>1 DEF Panicked
  <2>3. ASSUME NEW s \in Servers, s # x
        PROVE  pc'[s] = pc[s] /\ result'[s] = result[s] /\ verdict'[s] = verdict[s]
    BY <2>1, <2>3, CallFacts DEF IInv
  <2>4. CASE x \notin Servers
    BY <2>1, <2>2, <2>3, <2>4 DEF IInv, PoolOk
  <2>5. CASE x \in Servers
    <3>1. CASE /\ pc[x] \notin {"join", "restore", "done"} /\ pc'[x] \notin {"restore", "done"}
               /\ result'[x] = result[x]
      BY <2>1, <2>2, <2>3, <2>5, <3>1 DEF IInv, PoolOk
    <3>2. CASE /\ pc[x] = "join" /\ pc'[x] = "restore" /\ result'[x] = result[x]
               /\ \A w \in Workers : wpc[x][w] \in {"ended", "panicked"}
               /\ Panicked(x) => verdict'[x] = "error"
      BY <2>1, <2>2, <2>3, <2>5, <3>2 DEF IInv, PoolOk
    <3>3. CASE /\ pc[x] = "restore" /\ pc'[x] = "done"
               /\ result'[x] = verdict[x] /\ verdict'[x] = verdict[x]
      BY <2>1, <2>2, <2>3, <2>5, <3>3 DEF IInv, PoolOk
    <3>4. QED
      BY <1>9, <2>5, <3>1, <3>2, <3>3 DEF CallMoves
  <2>6. QED
    BY <2>4, <2>5
<1>10. ASSUME NEW c \in Connections, Connect(c)
      PROVE  PoolOk'
  BY <1>1, <1>10, ConnectEffect
<1>11. ASSUME NEW b \in Batches, NEW c \in Connections, NEW how \in Finished, ThreadEnds(b, c, how)
      PROVE  PoolOk'
  BY <1>1, <1>11, ThreadEndsEffect
<1>12. UNCHANGED seen => PoolOk'
  BY <1>1 DEF seen
<1>13. QED
  BY <1>2, <1>3, <1>4, <1>6, <1>7, <1>8, <1>9, <1>10, <1>11, <1>12, StepCases

\* Every step preserves BatchOk.
LEMMA BatchStep ==
  ASSUME IInv, [Next]_vars
  PROVE  BatchOk'
<1>1. ASSUME UNCHANGED <<mine, joined, result>>,
             \A b \in Batches : pc'[b] = pc[b],
             \A d \in Connections : conn[d] = "served" => conn'[d] = "served"
      PROVE  BatchOk'
  <2>1. \A b \in Batches : \A i \in 1..joined[b] : mine[b][i] \in Connections
    <3>1. \A b \in Batches : joined[b] \in Nat /\ joined[b] <= Len(mine[b])
      BY DEF IInv, BatchOk, TypeOK, Types
    <3>2. \A b \in Batches : \A i \in 1..Len(mine[b]) : mine[b][i] \in Connections /\ Len(mine[b]) \in Nat
      BY CallFacts DEF IInv
    <3>3. QED
      BY <3>1, <3>2
  <2>2. QED
    BY <1>1, <2>1 DEF IInv, BatchOk
<1>2. ASSUME NEW c \in Connections, UNCHANGED <<mine, joined, result, pc>>, conn[c] # "served",
             \A d \in Connections \ {c} : conn'[d] = conn[d]
      PROVE  BatchOk'
  BY <1>1, <1>2
<1>3. ASSUME NEW x \in Calls, Accept(x)
      PROVE  BatchOk'
  <2>1. PICK c \in Connections :
          /\ conn[c] = "backlog"
          /\ Len(mine'[x]) = Len(mine[x]) + 1
          /\ \A i \in 1..Len(mine[x]) : mine'[x][i] = mine[x][i]
          /\ \A y \in Calls \ {x} : mine'[y] = mine[y]
          /\ \A d \in Connections \ {c} : conn'[d] = conn[d]
          /\ pc[x] \in {"accept", "blocked"}
          /\ \A y \in Calls \ {x} : pc'[y] = pc[y]
          /\ UNCHANGED <<joined, result>>
    BY <1>3, AcceptEffect
  <2>2. ASSUME NEW b \in Batches
        PROVE  /\ b \in Calls /\ joined[b] \in Nat /\ Len(mine[b]) \in Nat
               /\ joined[b] <= Len(mine[b])
               /\ \A i \in 1..joined[b] : /\ i \in 1..Len(mine[b]) /\ mine[b][i] \in Connections
                                           /\ conn[mine[b][i]] = "served"
    <3>1. b \in Calls /\ joined[b] \in Nat /\ Len(mine[b]) \in Nat /\ joined[b] <= Len(mine[b])
      BY CallFacts DEF IInv, BatchOk, TypeOK, Types
    <3>2. \A i \in 1..joined[b] : i \in 1..Len(mine[b])
      BY <3>1
    <3>3. \A i \in 1..Len(mine[b]) : mine[b][i] \in Connections
      BY <3>1, CallFacts DEF IInv
    <3>4. \A i \in 1..joined[b] : conn[mine[b][i]] = "served"
      BY DEF IInv, BatchOk
    <3>5. QED
      BY <3>1, <3>2, <3>3, <3>4
  <2>3. ASSUME NEW b \in Batches
        PROVE  /\ \A i \in 1..joined[b] : mine'[b][i] = mine[b][i] /\ conn'[mine[b][i]] = "served"
               /\ joined[b] <= Len(mine'[b])
    <3>1. CASE b = x
      BY <2>1, <2>2, <3>1
    <3>2. CASE b # x
      BY <2>1, <2>2, <3>2
    <3>3. QED
      BY <3>1, <3>2
  <2>4. ASSUME NEW b \in Batches, result[b] = "ok"
        PROVE  b # x /\ pc[b] = "done" /\ joined[b] = Len(mine[b])
    BY <2>1, <2>4 DEF IInv, BatchOk
  <2>5. ASSUME NEW b \in Batches, result[b] = "ok"
        PROVE  pc'[b] = "done" /\ joined[b] = Len(mine'[b])
    BY <2>1, <2>2, <2>4, <2>5
  <2>6. joined' = joined /\ result' = result
    BY <2>1
  <2>7. QED
    BY <2>3, <2>5, <2>6 DEF BatchOk
<1>4. ASSUME NEW c \in Connections, Connect(c)
      PROVE  BatchOk'
  BY <1>2, <1>4, ConnectEffect
<1>5. ASSUME NEW s \in Servers, NEW w \in Workers, Recv(s, w)
      PROVE  BatchOk'
  <2>1. PICK c \in Connections :
          /\ conn[c] = "accepted" /\ UNCHANGED <<mine, joined, result, pc>>
          /\ \A d \in Connections \ {c} : conn'[d] = conn[d]
    BY <1>5, RecvEffect DEF Takes
  <2>2. QED
    BY <1>2, <2>1
<1>6. ASSUME NEW s \in Servers, NEW w \in Workers, NEW how \in Finished, Handled(s, w, how)
      PROVE  BatchOk'
  <2>1. PICK c \in Connections :
          /\ conn[c] = "handling" /\ UNCHANGED <<mine, joined, result, pc>>
          /\ \A d \in Connections \ {c} : conn'[d] = conn[d]
    BY <1>6, HandledEffect DEF Finishes
  <2>2. QED
    BY <1>2, <2>1
<1>7. ASSUME NEW b \in Batches, NEW c \in Connections, NEW how \in Finished, ThreadEnds(b, c, how)
      PROVE  BatchOk'
  BY <1>2, <1>7, ThreadEndsEffect
<1>8. ASSUME NEW s \in Servers, ServeUntil(s) \/ Send(s)
      PROVE  BatchOk'
  <2>1. /\ UNCHANGED <<conn, mine, joined, result>>
        /\ \A y \in Calls \ {s} : pc'[y] = pc[y]
    BY <1>8, ServeUntilEffect, SendEffect
  <2>2. \A b \in Batches : pc'[b] = pc[b]
    BY <2>1, CallFacts DEF IInv
  <2>3. QED
    BY <1>1, <2>1, <2>2
<1>9. ASSUME UNCHANGED <<conn, mine, joined, result, pc>>
      PROVE  BatchOk'
  BY <1>1, <1>9
<1>10. ASSUME NEW s \in Servers, NEW w \in Workers, Lock(s, w) \/ RecvFails(s, w)
      PROVE  BatchOk'
  BY <1>9, <1>10, WorkerStepEffect
<1>11. ASSUME NEW x \in Calls, CallMoves(x)
      PROVE  BatchOk'
  <2>1. /\ UNCHANGED <<conn, mine>>
        /\ \A y \in Calls \ {x} : pc'[y] = pc[y] /\ result'[y] = result[y]
        /\ \A b \in Batches \ {x} : joined'[b] = joined[b]
    BY <1>11 DEF CallMoves
  <2>2. ASSUME NEW b \in Batches, b # x
        PROVE  pc'[b] = pc[b] /\ result'[b] = result[b] /\ joined'[b] = joined[b]
    BY <2>1, <2>2, CallFacts DEF IInv
  <2>3. ASSUME x \in Batches
        PROVE  /\ joined'[x] <= Len(mine[x])
               /\ \A i \in 1..joined'[x] : conn[mine[x][i]] = "served"
               /\ result'[x] = "ok" => pc'[x] = "done" /\ joined'[x] = Len(mine[x])
    <3>1. joined[x] \in Nat /\ Len(mine[x]) \in Nat
      BY <2>3, CallFacts DEF IInv, TypeOK, Types
    <3>2. /\ joined[x] <= Len(mine[x]) /\ \A i \in 1..joined[x] : conn[mine[x][i]] = "served"
          /\ result[x] = "ok" => pc[x] = "done" /\ joined[x] = Len(mine[x])
      BY <2>3 DEF IInv, BatchOk
    <3>3. CASE joined'[x] = joined[x] /\ result'[x] = result[x] /\ pc[x] # "done"
      BY <3>2, <3>3
    <3>4. CASE /\ joined'[x] = joined[x] + 1 /\ joined[x] < Len(mine[x])
               /\ conn[mine[x][joined[x] + 1]] = "served"
               /\ result'[x] = result[x] /\ pc[x] = "join"
      <4>1. \A i \in 1..joined'[x] : i \in 1..joined[x] \/ i = joined[x] + 1
        BY <3>1, <3>4
      <4>2. joined'[x] <= Len(mine[x])
        BY <3>1, <3>4
      <4>3. QED
        BY <3>2, <3>4, <4>1, <4>2
    <3>5. CASE /\ joined'[x] = joined[x] /\ pc'[x] = "done" /\ pc[x] # "done"
               /\ (result'[x] = "error" \/ joined[x] = Len(mine[x]))
      BY <3>2, <3>5
    <3>6. QED
      BY <1>11, <2>3, <3>3, <3>4, <3>5 DEF CallMoves
  <2>4. QED
    BY <2>1, <2>2, <2>3 DEF IInv, BatchOk
<1>12. UNCHANGED seen => BatchOk'
  BY <1>9 DEF seen
<1>13. QED
  BY <1>3, <1>4, <1>5, <1>6, <1>7, <1>8, <1>10, <1>11, <1>12, StepCases

\* Every step preserves Types.
LEMMA TypeStep ==
  ASSUME IInv, [Next]_vars
  PROVE  Types'
<1>0. Types
  BY DEF IInv, TypeOK
<1> USE DEF listener, pool, outcome, taken
<1>1. CASE UNCHANGED vars
  BY <1>0, <1>1 DEF Types, vars
<1>2. \A s \in Servers : s \in Calls
  BY DEF Calls
<1>3. \A b \in Batches : b \in Calls
  BY DEF Calls
<1>4. ASSUME NEW c \in Connections, Connect(c)
      PROVE  Types'
  BY <1>0, <1>4 DEF Types, Connect
<1>5. ASSUME NEW x \in Calls, Accept(x)
      PROVE  Types'
  <2>1. PICK c \in Connections :
          /\ backlog' \in Seq(Connections)
          /\ mine' \in [Calls -> Seq(Connections)]
    BY <1>5, AcceptEffect
  <2>2. pc' \in [Calls -> {"start", "poll", "accept", "blocked", "send", "join", "restore", "done"}]
    BY <1>0, <1>5 DEF Types, Accept, Goto
  <2>3. conn' \in [Connections -> {"new", "backlog", "accepted", "handling"} \cup Finished]
    BY <1>0, <1>5 DEF Types, Accept
  <2>4. UNCHANGED <<nonblocking, shutdown, pool, outcome>>
    BY <1>5 DEF Accept
  <2>5. QED
    BY <1>0, <2>1, <2>2, <2>3, <2>4 DEF Types
<1>6. ASSUME NEW s \in Servers,
             \/ RequestShutdown(s) \/ Poll(s) \/ Block(s) \/ Sleep(s)
             \/ StopAccepting(s) \/ JoinWorkers(s) \/ Restore(s)
      PROVE  Types'
  <2>1. CASE RequestShutdown(s)
    BY <1>0, <1>2, <2>1 DEF Types, RequestShutdown
  <2>2. CASE Poll(s) \/ Block(s) \/ Sleep(s)
    BY <1>0, <1>2, <2>2 DEF Types, Poll, Block, Sleep, Goto
  <2>3. CASE StopAccepting(s) \/ JoinWorkers(s)
    <3>1. PICK v \in {"ok", "error"} : verdict' = [verdict EXCEPT ![s] = v]
      BY <1>0, <2>3 DEF Types, StopAccepting, JoinWorkers
    <3>2. verdict' \in [Servers -> {"ok", "error"}]
      BY <1>0, <3>1 DEF Types
    <3>3. pc' \in [Calls -> {"start", "poll", "accept", "blocked", "send", "join", "restore", "done"}]
      BY <1>0, <1>2, <2>3, ZenonT(40) DEF Types, StopAccepting, JoinWorkers, Goto
    <3>4. UNCHANGED <<listener, conn, shutdown, mine, pool, joined, result>>
      BY <2>3 DEF StopAccepting, JoinWorkers
    <3>5. QED
      BY <1>0, <3>2, <3>3, <3>4 DEF Types
  <2>4. CASE Restore(s)
    BY <1>0, <1>2, <2>4 DEF Types, Restore, Goto
  <2>5. QED
    BY <1>6, <2>1, <2>2, <2>3, <2>4
<1>7. ASSUME NEW s \in Servers, ServeUntil(s)
      PROVE  Types'
  BY <1>0, <1>2, <1>7 DEF Types, ServeUntil, Goto
<1>8. ASSUME NEW s \in Servers, Send(s)
      PROVE  Types'
  <2>1. queue' \in [Servers -> Seq(Connections)]
    BY <1>8, SendEffect
  <2>2. pc' \in [Calls -> {"start", "poll", "accept", "blocked", "send", "join", "restore", "done"}]
    BY <1>0, <1>2, <1>8 DEF Types, Send, Goto
  <2>3. UNCHANGED <<listener, conn, shutdown, mine, mutex, wpc, job, outcome>>
    BY <1>8 DEF Send
  <2>4. QED
    BY <1>0, <2>1, <2>2, <2>3 DEF Types
<1>9. ASSUME NEW s \in Servers, NEW w \in Workers, Lock(s, w) \/ RecvFails(s, w)
      PROVE  Types'
  <2>1. wpc' \in [Servers -> [Workers -> WorkerLabels]]
    BY <1>9, WorkerAtEffect DEF IInv, Lock, RecvFails, WorkerLabels
  <2>2. mutex' \in [Servers -> Workers \cup {None}]
    BY <1>0, <1>9 DEF Types, Lock, RecvFails
  <2>3. UNCHANGED <<listener, conn, shutdown, pc, mine, queue, job, outcome>>
    BY <1>9 DEF Lock, RecvFails
  <2>4. QED
    BY <1>0, <2>1, <2>2, <2>3 DEF Types, WorkerLabels
<1>10. ASSUME NEW s \in Servers, NEW w \in Workers, Recv(s, w)
       PROVE  Types'
  <2>1. /\ queue' \in [Servers -> Seq(Connections)]
        /\ job' \in [Servers -> [Workers -> Connections \cup {None}]]
        /\ wpc' \in [Servers -> [Workers -> WorkerLabels]]
    BY <1>10, RecvEffect DEF Takes
  <2>2. mutex' \in [Servers -> Workers \cup {None}]
    BY <1>0, <1>10 DEF Types, Recv
  <2>3. conn' \in [Connections -> {"new", "backlog", "accepted", "handling"} \cup Finished]
    BY <1>0, <1>10 DEF Types, Recv
  <2>4. UNCHANGED <<listener, shutdown, pc, mine, outcome>>
    BY <1>10 DEF Recv
  <2>5. QED
    BY <1>0, <2>1, <2>2, <2>3, <2>4 DEF Types, WorkerLabels
<1>11. ASSUME NEW s \in Servers, NEW w \in Workers, NEW how \in Finished, Handled(s, w, how)
       PROVE  Types'
  <2>1. /\ job' \in [Servers -> [Workers -> Connections \cup {None}]]
        /\ wpc' \in [Servers -> [Workers -> WorkerLabels]]
    BY <1>11, HandledEffect DEF Finishes
  <2>2. conn' \in [Connections -> {"new", "backlog", "accepted", "handling"} \cup Finished]
    BY <1>0, <1>11 DEF Types, Handled
  <2>3. UNCHANGED <<listener, shutdown, pc, mine, queue, mutex, outcome>>
    BY <1>11 DEF Handled
  <2>4. QED
    BY <1>0, <2>1, <2>2, <2>3 DEF Types, WorkerLabels
<1>12. ASSUME NEW b \in Batches, ServeN(b) \/ Block(b) \/ GiveUp(b) \/ JoinThread(b) \/ BatchReturns(b)
       PROVE  Types'
  <2>1. CASE ServeN(b) \/ Block(b)
    BY <1>0, <1>3, <2>1 DEF Types, ServeN, Block, Goto
  <2>2. CASE GiveUp(b) \/ BatchReturns(b)
    BY <1>0, <1>3, <2>2 DEF Types, GiveUp, BatchReturns, Goto
  <2>3. CASE JoinThread(b)
    <3>1. /\ joined' \in [Batches -> Nat] /\ result' \in [Calls -> {"none", "ok", "error"}]
          /\ pc' \in [Calls -> {"start", "poll", "accept", "blocked", "send", "join", "restore", "done"}]
      <4>1. CASE joined' = [joined EXCEPT ![b] = @ + 1] /\ UNCHANGED <<pc, result>>
        BY <1>0, <4>1 DEF Types
      <4>2. CASE result' = [result EXCEPT ![b] = "error"] /\ Goto(b, "done") /\ UNCHANGED joined
        BY <1>0, <1>3, <4>2 DEF Types, Goto
      <4>3. QED
        BY <2>3, <4>1, <4>2 DEF JoinThread
    <3>2. UNCHANGED <<listener, conn, shutdown, mine, pool, verdict>>
      BY <2>3 DEF JoinThread
    <3>3. QED
      BY <1>0, <3>1, <3>2 DEF Types
  <2>4. QED
    BY <1>12, <2>1, <2>2, <2>3
<1>13. ASSUME NEW b \in Batches, NEW c \in Connections, NEW how \in Finished, ThreadEnds(b, c, how)
       PROVE  Types'
  BY <1>0, <1>13 DEF Types, ThreadEnds
<1>14. ASSUME NEW s \in Servers, Acceptor(s)
       PROVE  Types'
  BY <1>2, <1>5, <1>6, <1>8, <1>14 DEF Acceptor
<1>15. ASSUME NEW s \in Servers, NEW w \in Workers, Worker(s, w)
       PROVE  Types'
  BY <1>9, <1>10, <1>11, <1>15 DEF Worker
<1>16. ASSUME NEW b \in Batches, Batch(b)
       PROVE  Types'
  BY <1>3, <1>5, <1>12, <1>13, <1>16 DEF Batch
<1>17. QED
  BY <1>1, <1>4, <1>6, <1>7, <1>11, <1>14, <1>15, <1>16 DEF Next

\* Every step preserves CountOk.
LEMMA CountStep ==
  ASSUME IInv, [Next]_vars
  PROVE  CountOk'
<1>1. ASSUME \A b \in Batches :
               /\ mine'[b] = mine[b]
               /\ \/ pc'[b] = pc[b]
                  \/ pc'[b] \notin Accepting
                  \/ pc[b] = "accept" /\ pc'[b] = "blocked"
                  \/ pc[b] = "start" /\ pc'[b] = "accept" /\ Count # 0
      PROVE  CountOk'
  <2>1. \A b \in Batches : Len(mine'[b]) = Len(mine[b])
    BY <1>1
  <2>2. \A b \in Batches : pc'[b] = "start" => Len(mine[b]) = 0
    BY <1>1 DEF IInv, CountOk, Accepting
  <2>3. \A b \in Batches : pc'[b] \in {"accept", "blocked"} => Len(mine[b]) < Count
    BY <1>1, CountAssumption DEF IInv, CountOk, Accepting
  <2>4. \A b \in Batches : Len(mine[b]) <= Count
    BY DEF IInv, CountOk
  <2>5. QED
    BY <2>1, <2>2, <2>3, <2>4 DEF CountOk
<1>2. ASSUME NEW x \in Calls, Accept(x)
      PROVE  CountOk'
  <2>1. /\ Len(mine'[x]) = Len(mine[x]) + 1
        /\ \A y \in Calls \ {x} : mine'[y] = mine[y] /\ pc'[y] = pc[y]
        /\ pc[x] \in {"accept", "blocked"}
    BY <1>2, AcceptEffect
  <2>2. x \in Batches =>
          pc'[x] = IF Len(mine[x]) + 1 = Count THEN "join" ELSE "accept"
    BY <1>2, GotoEffect, CallFacts DEF IInv, Accept
  <2>3. ASSUME NEW b \in Batches
        PROVE  /\ pc'[b] = "start" => Len(mine'[b]) = 0
               /\ pc'[b] \in {"accept", "blocked"} => Len(mine'[b]) < Count
               /\ Len(mine'[b]) <= Count
    <3>1. Len(mine[b]) \in Nat /\ Count \in Nat /\ b \in Calls
      BY CallFacts, CountAssumption DEF IInv
    <3>2. CASE b = x
      <4>1. Len(mine[b]) < Count
        BY <2>1, <3>2 DEF IInv, CountOk
      <4>2. QED
        BY <2>1, <2>2, <3>1, <3>2, <4>1
    <3>3. CASE b # x
      BY <2>1, <3>1, <3>3 DEF IInv, CountOk
    <3>4. QED
      BY <3>2, <3>3
  <2>4. QED
    BY <2>3 DEF CountOk
<1>3. ASSUME NEW s \in Servers,
             \/ ServeUntil(s) \/ StopAccepting(s) \/ Poll(s) \/ Block(s) \/ Sleep(s)
             \/ Send(s) \/ JoinWorkers(s) \/ Restore(s)
      PROVE  CountOk'
  <2>1. mine' = mine /\ \E label : Goto(s, label)
    BY <1>3 DEF ServeUntil, StopAccepting, Poll, Block, Sleep, Send, JoinWorkers, Restore, taken
  <2>2. \A b \in Batches : pc'[b] = pc[b]
    BY <2>1, GotoEffect, CallFacts DEF IInv
  <2>3. QED
    BY <1>1, <2>1, <2>2
<1>4. ASSUME NEW x \in Batches,
             \/ ServeN(x) \/ Block(x) \/ GiveUp(x) \/ JoinThread(x) \/ BatchReturns(x)
      PROVE  CountOk'
  <2>1. mine' = mine
    BY <1>4 DEF ServeN, Block, GiveUp, JoinThread, BatchReturns, taken
  <2>2. \/ pc' = pc
        \/ Goto(x, "join") \/ Goto(x, "done")
        \/ pc[x] = "accept" /\ Goto(x, "blocked")
        \/ pc[x] = "start" /\ Goto(x, "accept") /\ Count # 0
    BY <1>4 DEF ServeN, Block, GiveUp, JoinThread, BatchReturns
  <2>3. x \in Calls /\ TypeOK
    BY CallFacts DEF IInv
  <2>4. \A b \in Batches : b \in Calls
    BY CallFacts DEF IInv
  <2>5. ASSUME NEW b \in Batches
        PROVE  \/ pc'[b] = pc[b]
               \/ pc'[b] \notin Accepting
               \/ pc[b] = "accept" /\ pc'[b] = "blocked"
               \/ pc[b] = "start" /\ pc'[b] = "accept" /\ Count # 0
    <3>1. ASSUME NEW label, Goto(x, label)
          PROVE  pc'[b] = IF b = x THEN label ELSE pc[b]
      BY <2>3, <2>4, <3>1, GotoEffect
    <3>2. CASE Goto(x, "join")
      BY <3>1, <3>2 DEF Accepting
    <3>3. CASE Goto(x, "done")
      BY <3>1, <3>3 DEF Accepting
    <3>4. CASE pc[x] = "accept" /\ Goto(x, "blocked")
      BY <3>1, <3>4
    <3>5. CASE pc[x] = "start" /\ Goto(x, "accept") /\ Count # 0
      BY <3>1, <3>5
    <3>6. QED
      BY <2>2, <3>2, <3>3, <3>4, <3>5
  <2>6. QED
    BY <1>1, <2>1, <2>5
<1>5. ASSUME UNCHANGED <<mine, pc>>
      PROVE  CountOk'
  BY <1>1, <1>5
<1>6. ASSUME NEW s \in Servers, NEW w \in Workers,
             Worker(s, w) \/ \E how \in Finished : Handled(s, w, how)
      PROVE  CountOk'
  BY <1>5, <1>6 DEF Worker, Lock, Recv, RecvFails, Handled, taken
<1>7. ASSUME NEW b \in Batches, NEW c \in Connections, NEW how \in Finished, ThreadEnds(b, c, how)
      PROVE  CountOk'
  BY <1>5, <1>7 DEF ThreadEnds, taken
<1>8. ASSUME NEW c \in Connections, Connect(c)
      PROVE  CountOk'
  BY <1>5, <1>8 DEF Connect, taken
<1>9. ASSUME NEW s \in Servers, RequestShutdown(s)
      PROVE  CountOk'
  BY <1>5, <1>9 DEF RequestShutdown, taken
<1>10. CASE UNCHANGED vars
  BY <1>5, <1>10 DEF vars, taken
<1>11. ASSUME NEW s \in Servers, Acceptor(s)
       PROVE  CountOk'
  BY <1>2, <1>3, <1>11 DEF Acceptor, Calls
<1>12. ASSUME NEW b \in Batches, Batch(b)
       PROVE  CountOk'
  BY <1>2, <1>4, <1>7, <1>12 DEF Batch, Calls
<1>13. QED
  BY <1>3, <1>6, <1>8, <1>9, <1>10, <1>11, <1>12 DEF Next

\* Every step preserves LateOk.
LEMMA LateStep ==
  ASSUME IInv, [Next]_vars
  PROVE  LateOk' /\ late' \in [Servers -> Nat]
<1>0. late \in [Servers -> Nat] /\ TypeOK
  BY DEF IInv, TypeOK
<1>1. ASSUME late' = late, \A s \in Servers : shutdown[s] => shutdown'[s],
             \A s \in Servers : pc'[s] \in Accepting => pc[s] \in Accepting \/ ~ shutdown[s]
      PROVE  LateOk' /\ late' \in [Servers -> Nat]
  BY <1>0, <1>1 DEF IInv, LateOk
<1>2. ASSUME NEW x \in Calls, Accept(x)
      PROVE  LateOk' /\ late' \in [Servers -> Nat]
  <2>1. /\ late' = [s \in Servers |-> IF s = x /\ shutdown[s] THEN late[s] + 1 ELSE late[s]]
        /\ shutdown' = shutdown /\ pc[x] \in {"accept", "blocked"}
    BY <1>2 DEF Accept
  <2>2. (x \in Servers => pc'[x] = "send") /\ \A y \in Calls \ {x} : pc'[y] = pc[y]
    BY <1>2, AcceptEffect
  <2>3. ASSUME NEW s \in Servers
        PROVE  late'[s] \in {0, 1} /\ (late'[s] = 1 => shutdown'[s] /\ pc'[s] \notin Accepting)
    <3>1. s \in Calls /\ late[s] \in {0, 1} /\ (late[s] = 1 => shutdown[s] /\ pc[s] \notin Accepting)
      BY CallFacts DEF IInv, LateOk
    <3>2. CASE s = x
      <4>1. late[s] = 0 /\ pc'[s] \notin Accepting
        BY <2>1, <2>2, <3>1, <3>2 DEF Accepting
      <4>2. QED
        BY <2>1, <3>2, <4>1
    <3>3. CASE s # x
      BY <2>1, <2>2, <3>1, <3>3
    <3>4. QED
      BY <3>2, <3>3
  <2>4. late' \in [Servers -> Nat]
    BY <1>0, <2>1
  <2>5. QED
    BY <2>3, <2>4 DEF LateOk
<1>3. ASSUME NEW s \in Servers,
             \/ ServeUntil(s) \/ StopAccepting(s) \/ Poll(s) \/ Block(s) \/ Sleep(s)
             \/ Send(s) \/ JoinWorkers(s) \/ Restore(s)
      PROVE  LateOk' /\ late' \in [Servers -> Nat]
  <2>1. late' = late /\ shutdown' = shutdown
    BY <1>3 DEF ServeUntil, StopAccepting, Poll, Block, Sleep, Send, JoinWorkers, Restore, taken
  <2>2. \E label : Goto(s, label) /\ (label \in Accepting => pc[s] \in Accepting \/ ~ shutdown[s])
    <3>1. CASE Poll(s)
      BY <3>1 DEF Poll, Accepting
    <3>2. CASE Block(s)
      BY <3>2 DEF Block, Accepting
    <3>3. CASE ServeUntil(s) \/ Sleep(s) \/ Send(s)
      <4>1. Goto(s, "poll")
        BY <3>3 DEF ServeUntil, Sleep, Send
      <4>2. QED
        BY <4>1 DEF Accepting
    <3>4. CASE StopAccepting(s)
      BY <3>4 DEF StopAccepting, Accepting
    <3>5. CASE JoinWorkers(s)
      BY <3>5 DEF JoinWorkers, Accepting
    <3>6. CASE Restore(s)
      BY <3>6 DEF Restore, Accepting
    <3>7. QED
      BY <1>3, <3>1, <3>2, <3>3, <3>4, <3>5, <3>6
  <2>3. PICK label : Goto(s, label) /\ (label \in Accepting => pc[s] \in Accepting \/ ~ shutdown[s])
    BY <2>2
  <2>4. pc'[s] = label /\ \A y \in Calls \ {s} : pc'[y] = pc[y]
    BY <1>0, <2>3, CallFacts, GotoEffect
  <2>5. \A r \in Servers : pc'[r] \in Accepting => pc[r] \in Accepting \/ ~ shutdown[r]
    BY <1>0, <2>3, <2>4, CallFacts
  <2>6. QED
    BY <1>1, <2>1, <2>5
<1>4. ASSUME NEW b \in Batches,
             \/ ServeN(b) \/ Block(b) \/ GiveUp(b) \/ JoinThread(b) \/ BatchReturns(b)
      PROVE  LateOk' /\ late' \in [Servers -> Nat]
  <2>1. /\ late' = late /\ shutdown' = shutdown
        /\ pc' = pc \/ \E label : Goto(b, label)
    BY <1>4 DEF ServeN, Block, GiveUp, JoinThread, BatchReturns, taken
  <2>2. \A s \in Servers : pc'[s] = pc[s]
    BY <1>0, <2>1, GotoEffect, CallFacts
  <2>3. QED
    BY <1>1, <2>1, <2>2
<1>5. ASSUME UNCHANGED <<late, shutdown, pc>>
      PROVE  LateOk' /\ late' \in [Servers -> Nat]
  BY <1>1, <1>5
<1>6. ASSUME NEW s \in Servers, NEW w \in Workers,
             Worker(s, w) \/ \E how \in Finished : Handled(s, w, how)
      PROVE  LateOk' /\ late' \in [Servers -> Nat]
  BY <1>5, <1>6 DEF Worker, Lock, Recv, RecvFails, Handled, taken
<1>7. ASSUME NEW b \in Batches, NEW c \in Connections, NEW how \in Finished, ThreadEnds(b, c, how)
      PROVE  LateOk' /\ late' \in [Servers -> Nat]
  BY <1>5, <1>7 DEF ThreadEnds, taken
<1>8. ASSUME NEW c \in Connections, Connect(c)
      PROVE  LateOk' /\ late' \in [Servers -> Nat]
  BY <1>5, <1>8 DEF Connect, taken
<1>9. ASSUME NEW s \in Servers, RequestShutdown(s)
      PROVE  LateOk' /\ late' \in [Servers -> Nat]
  <2>1. late' = late /\ pc' = pc
    BY <1>9 DEF RequestShutdown, taken
  <2>2. \A r \in Servers : shutdown[r] => shutdown'[r]
    BY <1>0, <1>9 DEF RequestShutdown, TypeOK, Types
  <2>3. QED
    BY <1>1, <2>1, <2>2
<1>10. CASE UNCHANGED vars
  BY <1>5, <1>10 DEF vars, taken
<1>11. ASSUME NEW s \in Servers, Acceptor(s)
       PROVE  LateOk' /\ late' \in [Servers -> Nat]
  BY <1>2, <1>3, <1>11 DEF Acceptor, Calls
<1>12. ASSUME NEW b \in Batches, Batch(b)
       PROVE  LateOk' /\ late' \in [Servers -> Nat]
  BY <1>2, <1>4, <1>7, <1>12 DEF Batch, Calls
<1>13. QED
  BY <1>3, <1>6, <1>8, <1>9, <1>10, <1>11, <1>12 DEF Next

\* The initial state satisfies the invariant.
LEMMA InvInit == Init => IInv
<1>1. ASSUME Init
      PROVE  TypeOK
  <2>1. <<>> \in Seq(Connections)
    OBVIOUS
  <2>2. /\ backlog \in Seq(Connections) /\ mine \in [Calls -> Seq(Connections)]
        /\ queue \in [Servers -> Seq(Connections)]
    BY <1>1, <2>1 DEF Init
  <2>3. /\ wpc \in [Servers -> [Workers -> {"unborn", "lock", "recv", "handle", "ended", "panicked"}]]
        /\ job \in [Servers -> [Workers -> Connections \cup {None}]]
        /\ mutex \in [Servers -> Workers \cup {None}]
    BY <1>1 DEF Init
  <2>4. Types
    BY <1>1, <2>2, <2>3 DEF Init, Types
  <2>5. late \in [Servers -> Nat] /\ \A b \in Batches : joined[b] = 0 /\ Len(mine[b]) = 0
    BY <1>1 DEF Init, Calls
  <2>6. QED
    BY <2>4, <2>5, CountAssumption DEF TypeOK
<1>2. ASSUME Init
      PROVE  Items(backlog) = {} /\ NoDup(backlog)
  BY <1>2 DEF Init, Items, NoDup
<1>3. ASSUME Init, NEW x \in Calls
      PROVE  Items(mine[x]) = {}
  BY <1>3 DEF Init, Items
<1>4. ASSUME Init, NEW s \in Servers
      PROVE  Items(queue[s]) = {} /\ NoDup(queue[s]) /\ Len(queue[s]) <= QueueCapacity
  BY <1>4, CountAssumption DEF Init, Items, NoDup
<1>5. Init => BacklogOk
  BY <1>2, <1>3 DEF BacklogOk
<1>6. Init => QueueOk
  BY <1>3, <1>4 DEF QueueOk, Init, Calls
<1>7. Init => JobsOk
  <2>1. Init => \A s \in Servers : Items(mine[s]) = {}
    BY <1>3 DEF Calls
  <2>2. Init => \A s \in Servers, w \in Workers : job[s][w] = None /\ wpc[s][w] = "unborn"
    BY DEF Init
  <2>3. QED
    BY <2>1, <2>2 DEF JobsOk
<1>8. Init => PoolOk
  BY DEF PoolOk, Init, Calls, Panicked
<1>9. Init => BatchOk
  BY DEF BatchOk, Init, Calls
<1>10. Init => CountOk /\ LateOk
  BY CountAssumption DEF CountOk, LateOk, Init, Calls
<1>11. QED
  BY <1>1, <1>5, <1>6, <1>7, <1>8, <1>9, <1>10 DEF IInv

\* At every step of the listener, the calls and their workers, each connection is
\* in one place, and workers end only when nothing can reach them any more
\* (transport.rs:322-412).
THEOREM InvHolds == Spec => []IInv
<1>1. IInv /\ [Next]_vars => IInv'
  <2>1. SUFFICES ASSUME IInv, [Next]_vars
                 PROVE  IInv'
    OBVIOUS
  <2>2. BacklogOk' /\ QueueOk' /\ JobsOk' /\ PoolOk'
    BY <2>1, BacklogStep, QueueStep, JobsStep, PoolStep
  <2>3. BatchOk' /\ CountOk' /\ LateOk'
    BY <2>1, BatchStep, CountStep, LateStep
  <2>4. TypeOK'
    BY <2>1, <2>3, TypeStep, LateStep DEF TypeOK, BatchOk, CountOk
  <2>5. QED
    BY <2>2, <2>3, <2>4 DEF IInv
<1>2. QED
  BY <1>1, InvInit, PTL DEF Spec

\* The listener, the calls and their threads keep their types.
THEOREM TypeHolds == Spec => []TypeOK
<1>1. IInv => TypeOK
  BY DEF IInv
<1>2. QED
  BY <1>1, InvHolds, PTL

\* A serve_until call that returns Ok has handled everything it accepted, the
\* connections that were in the channel when the sender was dropped included; a
\* serve_n call that returns Ok has served all (transport.rs:328, 400-410).
THEOREM OkCallsHandledAll == Spec => []OkMeansHandled
<1>1. ASSUME IInv
      PROVE  OkMeansHandled
  <2>1. \A x \in Calls : Accepted(x) = Items(mine[x])
    BY DEF Accepted, Items
  <2>2. ASSUME NEW s \in Servers, result[s] = "ok", NEW c \in Items(mine[s])
        PROVE  conn[c] \in {"served", "failed"}
    <3>1. pc[s] = "done" /\ ~ Panicked(s) /\ \A w \in Workers : wpc[s][w] \in {"ended", "panicked"}
      BY <1>1, <2>2 DEF IInv, PoolOk
    <3>2. \A w \in Workers : wpc[s][w] = "ended" /\ job[s][w] = None
      BY <1>1, <3>1 DEF IInv, JobsOk, Panicked
    <3>3. queue[s] = <<>>
      BY <1>1, <3>2, WorkersAssumption DEF IInv, PoolOk
    <3>4. Items(queue[s]) = {}
      BY <1>1, <3>3, ItemsType DEF IInv, TypeOK, Types
    <3>5. conn[c] # "accepted"
      BY <1>1, <3>1, <3>4 DEF IInv, QueueOk
    <3>6. c \in Connections
      BY <1>1, CallFacts DEF IInv
    <3>7. conn[c] # "handling" /\ conn[c] # "panicked"
      BY <1>1, <3>1, <3>2, <3>6, ConnectionsAssumption DEF IInv, JobsOk
    <3>8. conn[c] \notin {"new", "backlog"}
      BY <1>1, CallFacts DEF IInv, BacklogOk
    <3>9. QED
      BY <1>1, <3>5, <3>6, <3>7, <3>8 DEF IInv, TypeOK, Types, Finished
  <2>3. ASSUME NEW b \in Batches, result[b] = "ok", NEW c \in Items(mine[b])
        PROVE  conn[c] = "served"
    <3>1. mine[b] \in Seq(Connections)
      BY <1>1, CallFacts DEF IInv
    <3>2. PICK i \in 1..Len(mine[b]) : c = mine[b][i]
      BY <3>1 DEF Items
    <3>3. QED
      BY <1>1, <2>3, <3>2 DEF IInv, BatchOk
  <2>4. \A x \in Calls : x \in Servers \/ (x \notin Servers /\ x \in Batches)
    BY DEF Calls
  <2>5. QED
    BY <2>1, <2>2, <2>3, <2>4 DEF OkMeansHandled
<1>2. QED
  BY <1>1, InvHolds, PTL

\* Once its flag is set, a serve_until call accepts at most one more connection,
\* whatever its clients do and whatever other calls do to the listener's mode
\* (transport.rs:382-387).
THEOREM ShutdownStopsAccepting == Spec => []OneMoreAtMost
<1>1. IInv => OneMoreAtMost
  BY DEF IInv, LateOk, OneMoreAtMost
<1>2. QED
  BY <1>1, InvHolds, PTL

\* A sequence has no more entries than its length.
LEMMA ItemsBound ==
  ASSUME NEW S, NEW q \in Seq(S)
  PROVE  IsFiniteSet(Items(q)) /\ Cardinality(Items(q)) <= Len(q)
<1>1. Len(q) \in Nat /\ DOMAIN q = 1..Len(q)
  OBVIOUS
<1>2. IsFiniteSet(1..Len(q)) /\ Cardinality(1..Len(q)) = Len(q)
  BY <1>1, FS_Interval
<1>3. PICK f : f = [i \in 1..Len(q) |-> q[i]]
  OBVIOUS
<1>4. f \in Surjection(1..Len(q), Items(q))
  BY <1>1, <1>3 DEF Surjection, Items
<1>5. QED
  BY <1>2, <1>4, FS_Surjection

\* Back pressure: a serve_until call never holds more connections than its
\* channel, its workers and its own thread can (transport.rs:349-354, 389).
THEOREM BackPressureHolds == Spec => []PendingBounded
<1>1. ASSUME IInv, NEW s \in Servers
      PROVE  Cardinality({c \in Accepted(s) : conn[c] \notin Finished})
               <= QueueCapacity + Cardinality(Workers) + 1
  <2> DEFINE P == {c \in Accepted(s) : conn[c] \notin Finished}
             Q == Items(queue[s])
             J == {job[s][w] : w \in Workers}
             L == {Last(s)}
  <2>1. P \subseteq (Q \cup J) \cup L
    <3>1. ASSUME NEW c \in Items(mine[s]), conn[c] \notin Finished
          PROVE  c \in (Q \cup J) \cup L
      <4>1. conn[c] \in {"accepted", "handling"}
        BY <1>1, <3>1, CallFacts DEF IInv, TypeOK, Types, BacklogOk
      <4>2. conn[c] = "accepted" => c \in Q \/ c = Last(s)
        BY <1>1 DEF IInv, QueueOk
      <4>3. conn[c] = "handling" => c \in J
        BY <1>1 DEF IInv, JobsOk
      <4>4. QED
        BY <4>1, <4>2, <4>3
    <3>2. QED
      BY <3>1 DEF Accepted, Items
  <2>2. IsFiniteSet(Q) /\ Cardinality(Q) <= QueueCapacity
    <3>1. queue[s] \in Seq(Connections) /\ Len(queue[s]) <= QueueCapacity /\ Len(queue[s]) \in Nat
      BY <1>1 DEF IInv, TypeOK, Types, QueueOk
    <3>2. IsFiniteSet(Q) /\ Cardinality(Q) <= Len(queue[s])
      BY <3>1, ItemsBound
    <3>3. Cardinality(Q) \in Nat
      BY <3>2, FS_CardinalityType
    <3>4. QED
      BY <3>1, <3>2, <3>3, CountAssumption
  <2>3. IsFiniteSet(J) /\ Cardinality(J) <= Cardinality(Workers)
    <3>1. PICK f : f = [w \in Workers |-> job[s][w]]
      OBVIOUS
    <3>2. f \in Surjection(Workers, J)
      BY <3>1 DEF Surjection
    <3>3. QED
      BY <3>2, FS_Surjection, WorkersAssumption
  <2>4. IsFiniteSet(L) /\ Cardinality(L) = 1
    BY FS_Singleton
  <2> HIDE DEF P, Q, J, L
  <2>5. IsFiniteSet(Q \cup J) /\ Cardinality(Q \cup J) <= Cardinality(Q) + Cardinality(J)
    <3>1. /\ IsFiniteSet(Q \cup J) /\ IsFiniteSet(Q \cap J)
          /\ Cardinality(Q \cup J) = Cardinality(Q) + Cardinality(J) - Cardinality(Q \cap J)
      BY <2>2, <2>3, FS_Union, FS_Intersection
    <3>2. Cardinality(Q) \in Nat /\ Cardinality(J) \in Nat /\ Cardinality(Q \cap J) \in Nat
      BY <2>2, <2>3, <3>1, FS_CardinalityType
    <3>3. QED
      BY <3>1, <3>2
  <2>6. /\ IsFiniteSet((Q \cup J) \cup L)
        /\ Cardinality((Q \cup J) \cup L) <= Cardinality(Q \cup J) + 1
    <3>1. /\ IsFiniteSet((Q \cup J) \cup L) /\ IsFiniteSet((Q \cup J) \cap L)
          /\ Cardinality((Q \cup J) \cup L)
               = Cardinality(Q \cup J) + Cardinality(L) - Cardinality((Q \cup J) \cap L)
      BY <2>4, <2>5, FS_Union, FS_Intersection
    <3>2. Cardinality(Q \cup J) \in Nat /\ Cardinality((Q \cup J) \cap L) \in Nat
      BY <2>5, <3>1, FS_CardinalityType
    <3>3. QED
      BY <2>4, <3>1, <3>2
  <2>7. IsFiniteSet(P) /\ Cardinality(P) <= Cardinality((Q \cup J) \cup L)
    BY <2>1, <2>6, FS_Subset
  <2>8. /\ Cardinality(P) \in Nat /\ Cardinality(Q) \in Nat /\ Cardinality(J) \in Nat
        /\ Cardinality(Q \cup J) \in Nat /\ Cardinality((Q \cup J) \cup L) \in Nat
        /\ Cardinality(Workers) \in Nat
    BY <2>2, <2>3, <2>5, <2>6, <2>7, FS_CardinalityType, WorkersAssumption
  <2>9. Cardinality(P) <= QueueCapacity + Cardinality(Workers) + 1
    BY <2>2, <2>3, <2>5, <2>6, <2>7, <2>8, CountAssumption
  <2>10. QED
    BY <2>9 DEF P
<1>2. IInv => PendingBounded
  BY <1>1 DEF PendingBounded
<1>3. QED
  BY <1>2, InvHolds, PTL
=============================================================================
