------------------------------ MODULE Connection ------------------------------
(***************************************************************************)
(* One request over one connection: TcpTransport and TlsTcpTransport       *)
(* (transport.rs:510-590) against handle_connection (414-473) of a server  *)
(* bound with bind or bind_mtls (transport.rs:216-272).                    *)
(*                                                                         *)
(* The server also meets clients that are other programs: they write what  *)
(* they like, over plain TCP or over TLS, and wait as long as they like.   *)
(*                                                                         *)
(* What one side writes arrives at the other number by number, or stops    *)
(* arriving; each side waits no longer than IO_TIMEOUT for the next, and   *)
(* neither learns why the other stopped.  TLS (rustls) is external: the    *)
(* client has verified the server when its handshake ends, and the server  *)
(* verifies the client's certificate only after that (TLS 1.3).            *)
(***************************************************************************)
EXTENDS Codec

CONSTANTS
  Requests,       \* what callers dispatch
  Answers,        \* what the execution handler can return
  Versions,       \* the versions clients write
  Foreign,        \* what clients that are not of this crate write
  Grants,         \* participant ids with the PEM chains given for them
  MaxGrants,      \* bound: the length of a list of grants
  ClientChains,   \* the chains clients have a key for
  Verified,       \* the chains that the server's client CA vouches for
  HostOf,         \* the host in a locator, None if it has no host and port
  ServerHosts,    \* the names in the server's certificate
  Error           \* the result of a dispatch that fails

ASSUME MessagesAssumption ==
  /\ Requests \subseteq ExecutionRequest /\ Answers \subseteq ExecutionResponse
  /\ None \notin Requests
  /\ Versions \subseteq Nat /\ Foreign \subseteq String

ASSUME GrantsAssumption ==
  /\ MaxGrants \in Nat
  /\ None \notin UNION {[1..n -> Grants] : n \in 0..MaxGrants}
  /\ None \notin {"frame", "client"}

VARIABLES
  grants,      \* what the server was bound with: None for plain TCP
  allowlist,   \* its ClientAllowlist
  chain,       \* the client's chain: None for plain TCP, <<>> if it has none
  request,     \* what the client dispatches: None for a client that is not of this crate
  client,      \* "idle", "handshake", "reading", "done"; "foreign"
  server,      \* "unbound", "accept", "handshake", "reading", "handling", "closed",
               \* "panicked": the worker has unwound
  up, down,    \* what was written to the server and to the client
  seen, got,   \* how much of it has arrived
  handled,     \* the request the handler was called with
  answer,      \* what it answered
  refused,     \* why the server refused what it read: "frame", "client"
  result       \* what dispatch returned

setup == <<grants, allowlist>>
calling == <<chain, request>>
streams == <<up, down, seen, got>>
handling == <<handled, answer, refused>>
vars == <<setup, calling, client, server, streams, handling, result>>

Init ==
  /\ grants = None /\ allowlist = None
  /\ chain = None /\ request = None
  /\ client = "idle" /\ server = "unbound"
  /\ up = <<>> /\ down = <<>> /\ seen = 0 /\ got = 0
  /\ handled = None /\ answer = None /\ refused = None
  /\ result = None

-----------------------------------------------------------------------------
\* The server's configuration.

\* load_certificates refuses a file without certificates.
loads(pem) == pem # <<>>

\* AuthorizedClientCertificate::from_pem takes the first certificate.
from_pem(grant) == [participant_id |-> grant.id, certificate |-> Head(grant.pem)]

\* Mutant: a certificate may be granted to several participants.
grantableTwice(list) == list # <<>>

\* build_client_allowlist refuses an empty list and a certificate that is there
\* twice, for one participant or for two.
grantable(list) ==
  /\ list # <<>>
  /\ \A i, j \in DOMAIN list : list[i].certificate = list[j].certificate => i = j

build_client_allowlist(list) ==
  [id \in {list[i].participant_id : i \in DOMAIN list} |->
     {list[i].certificate : i \in {j \in DOMAIN list : list[j].participant_id = id}}]

GrantLists == UNION {[1..n -> {g \in Grants : loads(g.pem)}] : n \in 0..MaxGrants}

Bind ==
  /\ server = "unbound"
  /\ server' = "accept"
  /\ UNCHANGED <<setup, calling, client, streams, handling, result>>

BindMtls(list) ==
  LET granted == [i \in DOMAIN list |-> from_pem(list[i])]
  IN  /\ server = "unbound"
      /\ grantable(granted)
      /\ grants' = list
      /\ allowlist' = build_client_allowlist(granted)
      /\ server' = "accept"
      /\ UNCHANGED <<calling, client, streams, handling, result>>

\* The client verifier of build_server_tls_config: a client must present a chain
\* that leads to one of the client CAs.
client_verified(pem) == pem \in Verified

-----------------------------------------------------------------------------
\* The client.

\* Plain TCP; TLS with a chain from from_pem_files; TLS with a configuration of the
\* caller's that has no client certificate.
Transports == {None, <<>>} \cup {pem \in ClientChains : loads(pem)}

Return(outcome) == client' = "done" /\ result' = outcome

\* server_name_for_locator
server_name(locator) == HostOf[locator]

\* Over TLS the request needs a source and the locator a host.
sendable(q, pem) ==
  /\ validate_transport_request(q)
  /\ pem # None => q.source # None /\ server_name(q.endpoint.locator) # None

\* A client hello: read as the length of a frame it is far too large.
Hello == <<MaxFrame + 1>>

\* write_request: refused before anything is written when the frame is too large.
WriteRequest(version, q) ==
  LET payload == write_request(version, q)
  IN  IF fits(payload) THEN up' = up \o frame(payload) /\ client' = "reading" /\ UNCHANGED result
      ELSE Return(Error) /\ UNCHANGED up

\* dispatch up to the request over plain TCP, or to the client hello.  The server
\* must have been bound for the connection to be made.
Dispatch(q, pem, version) ==
  /\ client = "idle" /\ server = "accept"
  /\ chain' = pem /\ request' = q
  /\ IF ~ sendable(q, pem) THEN Return(Error) /\ UNCHANGED up
     ELSE IF pem = None THEN WriteRequest(version, q)
     ELSE client' = "handshake" /\ up' = Hello /\ UNCHANGED result
  /\ UNCHANGED <<setup, server, down, seen, got, handling>>

\* Another program connects and writes.  Over TLS it has a client hello to send and
\* its part of the handshake; it need not verify the server.
Connect(pem, bytes) ==
  /\ client = "idle" /\ server = "accept"
  /\ client' = "foreign" /\ chain' = pem
  /\ up' = IF pem = None THEN bytes ELSE Hello \o bytes
  /\ UNCHANGED <<setup, request, server, down, seen, got, handling, result>>

\* The server has proved to be who the locator names.
HostVerified(locator) == server_name(locator) \in ServerHosts

\* The client's handshake ends and it writes the request.
ClientHandshake(version) ==
  /\ client = "handshake" /\ server = "handshake" /\ up = Hello
  /\ HostVerified(request.endpoint.locator)
  /\ WriteRequest(version, request)
  /\ UNCHANGED <<setup, calling, server, down, seen, got, handling>>

\* Connecting, the handshake, writing or reading fails, or nothing comes in time.
ClientFails ==
  /\ client \in {"handshake", "reading"}
  /\ Return(Error)
  /\ UNCHANGED <<setup, calling, server, streams, handling>>

\* Mutant: whatever answer arrives is taken.
answersAny(a, q) == TRUE

\* ResponseIdMismatch otherwise.
answers(a, q) == a.request_id = q.request_id

Arrived(stream, n) == SubSeq(stream, 1, n)

\* The whole response has arrived.
ReadResponse ==
  /\ client = "reading"
  /\ whole_frame(Arrived(down, got))
  /\ \E read \in {UNION {read_response(p) : p \in read_frame(Arrived(down, got))}} :
       \/ \E a \in read : answers(a, request) /\ Return(a)
       \/ (\A a \in read : ~ answers(a, request)) /\ Return(Error)
  /\ UNCHANGED <<setup, calling, server, streams, handling>>

-----------------------------------------------------------------------------
\* The network delivers the next number of either stream.
Deliver ==
  \/ seen < Len(up) /\ seen' = seen + 1 /\ UNCHANGED got
  \/ got < Len(down) /\ got' = got + 1 /\ UNCHANGED seen

Network ==
  /\ Deliver
  /\ UNCHANGED <<setup, calling, client, server, up, down, handling, result>>

-----------------------------------------------------------------------------
\* The server: handle_connection, once the stream has come through the pool.

Accept ==
  /\ server = "accept" /\ client # "idle"
  /\ request # None => sendable(request, chain)
  /\ server' = IF grants = None THEN "reading" ELSE "handshake"
  /\ UNCHANGED <<setup, calling, client, streams, handling, result>>

\* complete_io: a client that speaks TLS, has done its part of the handshake and has
\* a chain that verifies.
ServerHandshake ==
  /\ server = "handshake"
  /\ client = "foreign" \/ up # Hello
  /\ seen > 0 /\ Head(up) = Head(Hello)
  /\ client_verified(chain)
  /\ server' = "reading"
  /\ UNCHANGED <<setup, calling, client, streams, handling, result>>

\* What the server reads the request from: over TLS, what follows the handshake.
Readable == IF grants = None THEN Arrived(up, seen) ELSE Tail(Arrived(up, seen))

\* The source is granted the leaf certificate the client presented.
authorized(q) ==
  grants # None =>
    /\ q.source # None
    /\ q.source.id \in DOMAIN allowlist
    /\ Head(chain) \in allowlist[q.source.id]

\* A length that is too large is refused when it arrives, anything else with the
\* rest of the frame.
FrameRead(stream) ==
  stream # <<>> /\ (acceptable_length(Head(stream)) => whole_frame(stream))

ReaderPanics == \E payload \in read_frame(Readable) : panics(payload)

\* read_request and the authorization of handle_request_stream.
ReadRequest ==
  /\ server = "reading"
  /\ FrameRead(Readable) /\ ~ ReaderPanics
  /\ \E read \in {UNION {read_request(p) : p \in read_frame(Readable)}} :
       \/ \E q \in read :
            /\ authorized(q)
            /\ server' = "handling" /\ handled' = q /\ UNCHANGED refused
       \/ /\ \A q \in read : ~ authorized(q)
          /\ server' = "closed" /\ refused' = (IF read = {} THEN "frame" ELSE "client")
          /\ UNCHANGED handled
  /\ UNCHANGED <<setup, calling, client, streams, answer, result>>

\* The lifetime in the request is more than a Duration: read_request unwinds, and
\* with it the thread that serves the connection.
ReadPanics ==
  /\ server = "reading"
  /\ FrameRead(Readable) /\ ReaderPanics
  /\ server' = "panicked"
  /\ UNCHANGED <<setup, calling, client, streams, handling, result>>

\* The handler returns a response of its own making; one that fails or refuses the
\* request is answered for.  The connection ends with the response.
HandlerReturns(a) ==
  LET payload == write_response(a)
  IN  /\ server = "handling"
      /\ answer' = a
      /\ down' = IF fits(payload) THEN frame(payload) ELSE <<>>
      /\ server' = "closed"
      /\ UNCHANGED <<setup, calling, client, up, seen, got, handled, refused, result>>

\* The handler unwinds.
HandlerPanics ==
  /\ server = "handling"
  /\ server' = "panicked"
  /\ UNCHANGED <<setup, calling, client, streams, handling, result>>

\* Mutant: the time-outs of configure_stream are not set, and only the end of the
\* stream ends a read.
ServerFailsAtEnd ==
  /\ server \in {"handshake", "reading"} /\ client = "done"
  /\ server' = "closed"
  /\ UNCHANGED <<setup, calling, client, streams, handling, result>>

\* The handshake fails, the connection breaks, or the next number does not come in
\* time.
ServerFails ==
  /\ server \in {"handshake", "reading"}
  /\ server' = "closed"
  /\ UNCHANGED <<setup, calling, client, streams, handling, result>>

-----------------------------------------------------------------------------
Client == ClientFails \/ ReadResponse \/ \E v \in Versions : ClientHandshake(v)
Serve == ServerHandshake \/ ReadRequest \/ ReadPanics
Server == Serve \/ ServerFails \/ HandlerPanics

Next ==
  \/ Bind \/ \E list \in GrantLists : BindMtls(list)
  \/ \E q \in Requests, pem \in Transports, v \in Versions :
       Dispatch(q, pem, v)
  \/ \E pem \in Transports, bytes \in Foreign : Connect(pem, bytes)
  \/ Network \/ Client \/ Accept \/ Server
  \/ \E a \in Answers : HandlerReturns(a)

\* Nothing more is on its way to the server: the time-out that configure_stream has
\* set for the socket runs out.
TimeOut == seen = Len(up) /\ ServerFails

\* What is sent arrives unless the connection breaks, and the thread that serves the
\* connection runs: it goes on with what has arrived, and a read to which nothing
\* comes ends with the time-out, which each arrival starts anew.  Nothing is assumed
\* of the client, and nothing makes a handler return.
Spec ==
  /\ Init /\ [][Next]_vars
  /\ WF_vars(Network) /\ WF_vars(Serve) /\ WF_vars(TimeOut)

-----------------------------------------------------------------------------
\* The handler is called with exactly the request the client dispatched, and a
\* request that has arrived whole is not refused for its encoding, up to the
\* largest frame, unless the peer is of another version or speaks TLS to a plain
\* server.  No request of this crate's clients makes the reader panic, whatever its
\* lifetime (transport.rs:709-998).
ReadAsSent ==
  request # None =>
    /\ handled # None => handled = request
    /\ server = "panicked" => handled # None
    /\ refused = "frame" =>
         \/ grants = None /\ chain # None
         \/ \E v \in Versions \ {PROTOCOL_VERSION} :
              frame(write_request(v, request)) \in {up, Tail(up)}

\* README.md:130: "a caller cannot claim a different participant ID using a
\* certificate assigned to another identity".  What a handler of an mTLS server is
\* called with comes from a client that presented a verified chain, whose leaf the
\* operator granted to the source of the request and to nobody else, whatever
\* program the client is; and a client of this crate that is granted its source is
\* not turned away, with any of several certificates (transport.rs:450-465, 475-501).
NoBorrowedIdentity ==
  LET owners == {grants[i].id : i \in {j \in DOMAIN grants :
                                         Head(grants[j].pem) = Head(chain)}}
  IN  /\ handled # None /\ grants # None =>
           chain \in Verified /\ owners = {handled.source.id}
      /\ refused = "client" =>
           grants # None /\ (request # None => request.source.id \notin owners)

\* A response dispatch returns is what the handler answered to this very request,
\* from the server the locator names when the client asked for TLS
\* (transport.rs:519-531, 564-590).
AnsweredOwn ==
  result \notin {None, Error} =>
    /\ handled = request /\ result = answer
    /\ result.request_id = request.request_id
    /\ chain # None => grants # None /\ server_name(request.endpoint.locator) \in ServerHosts

\* Neither end waits for what the other does not send: once all that was written has
\* arrived, a server that reads has the whole request and a client that was answered
\* has the whole response, so that no time-out is needed between two ends that work
\* (transport.rs:721-847).
NoStandoff ==
  client = "reading" =>
    /\ server = "reading" /\ seen = Len(up) => FrameRead(Readable)
    /\ down # <<>> /\ got = Len(down) => whole_frame(Arrived(down, got))

\* A connection does not keep a worker of the server waiting: whatever a client
\* sends, of this crate or not, and wherever it stops, the connection gets to the
\* handler or ends, at the latest with the time-out (transport.rs:503-508).  It may
\* end with the worker, where the reader panics (transport.rs:974).
WorkerFreed ==
  server \in {"handshake", "reading"} ~> server \in {"handling", "closed", "panicked"}
=============================================================================
