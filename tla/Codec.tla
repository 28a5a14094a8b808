-------------------------------- MODULE Codec --------------------------------
(***************************************************************************)
(* The wire format of requests and responses (transport.rs:706-1010).      *)
(*                                                                         *)
(* A stream is a sequence of numbers: one for each integer or float,       *)
(* whatever its width, and one for each byte of a string.  Writing and     *)
(* reading are separate definitions, as in the code, and a reader takes    *)
(* what it finds where it is: nothing in the stream says what a number     *)
(* stands for.  Strings are short sequences of bytes; UTF-8 is left out.   *)
(***************************************************************************)
EXTENDS Naturals, Sequences, Functions

CONSTANTS
  Uuids,      \* the strings that are canonical version 4 UUIDs
  NotAShare,  \* stands for the floats that are no CPU share: NaN, infinite, negative
  MaxFrame,   \* MAX_FRAME_SIZE
  MaxSeconds,      \* u64::MAX, the seconds of the longest Duration
  NanosPerSecond,  \* where the nanoseconds of a Duration end: fewer than a u32 holds
  None

ASSUME FrameAssumption == MaxFrame \in Nat /\ NotAShare \in Nat

ASSUME DurationAssumption == MaxSeconds \in Nat /\ NanosPerSecond \in Nat \ {0}

PROTOCOL_VERSION == 1

Kind == <<"Participant", "LogicalNode", "Lease", "VirtualMachine">>
ExecutionStatus == <<"Pending", "Dispatched", "Running", "Completed", "Failed", "Cancelled">>

String == Seq(Nat)

\* Identities come from Identity::new and Identity::parse: the fields are public,
\* and nothing else fills them in.
Identity == [id : Uuids, kind : Range(Kind)]

\* Seconds and nanoseconds, as std keeps them.
Duration == {d \in [1..2 -> Nat] : d[1] <= MaxSeconds /\ d[2] < NanosPerSecond}

ResourceFragment == [amounts : [1..5 -> Nat], lifetime : Duration \cup {None}]

ExecutionRequest ==
  [request_id : String, source : Identity \cup {None}, workload_id : String,
   payload : String, node_id : Identity, runtime : [name : String, version : String],
   unit : [participant_id : Identity, resources : ResourceFragment],
   endpoint : [participant_id : Identity, locator : String]]

ExecutionResponse ==
  [request_id : String, status : Range(ExecutionStatus), error : String \cup {None}]

ASSUME NoneAssumption == Uuids \subseteq String /\ None \notin String \cup Identity

\* A fragment is the five amounts in the order of the format, the CPU share
\* first, and a lifetime.
validate_requirement(r) == r.amounts[1] # NotAShare /\ r.amounts # <<0, 0, 0, 0, 0>>

\* What Identity::parse accepts.
valid_identity(id) == id \in Uuids

\* The checks both sides make: the client before it connects, the server after
\* it has read the request.
validate_transport_request(q) ==
  /\ q.request_id # <<>> /\ q.workload_id # <<>>
  /\ q.node_id.kind = "LogicalNode"
  /\ q.source # None => q.source.kind = "Participant" /\ valid_identity(q.source.id)
  /\ q.runtime.name # <<>> /\ q.runtime.version # <<>>
  /\ q.unit.participant_id.kind = "Participant"
  /\ q.endpoint.participant_id = q.unit.participant_id
  /\ validate_requirement(q.unit.resources)

-----------------------------------------------------------------------------
\* Writing.

write_string(s) == <<Len(s)>> \o s

CodeOf(name, names) == (CHOOSE i \in DOMAIN names : names[i] = name) - 1

write_identity(identity) == write_string(identity.id) \o <<CodeOf(identity.kind, Kind)>>

write_option(x, written) == IF x = None THEN <<0>> ELSE <<1>> \o written

write_resources(r) == r.amounts \o write_option(r.lifetime, r.lifetime)

\* A peer of another release writes its own version.
write_request(version, q) ==
  <<version>> \o write_string(q.request_id)
  \o write_option(q.source, write_identity(q.source))
  \o write_string(q.workload_id) \o write_string(q.payload) \o write_identity(q.node_id)
  \o write_string(q.runtime.name) \o write_string(q.runtime.version)
  \o write_identity(q.unit.participant_id) \o write_resources(q.unit.resources)
  \o write_identity(q.endpoint.participant_id) \o write_string(q.endpoint.locator)

write_response(a) ==
  <<PROTOCOL_VERSION>> \o write_string(a.request_id) \o <<CodeOf(a.status, ExecutionStatus)>>
  \o write_option(a.error, write_string(a.error))

\* write_frame refuses a longer payload.
fits(payload) == Len(payload) <= MaxFrame

frame(payload) == <<Len(payload)>> \o payload

-----------------------------------------------------------------------------
\* Reading.  A reader maps the rest of the payload to whether it found its item,
\* the item, and what is left; a reader that fails returns an error or panics.

Found(value, rest) == [ok |-> TRUE, value |-> value, rest |-> rest]
NotFound == [ok |-> FALSE, value |-> None, rest |-> <<>>]
Panics == [ok |-> FALSE, value |-> "panic", rest |-> <<>>]
Where(ok, found) == IF ok THEN found ELSE NotFound

number(b) == IF b = <<>> THEN NotFound ELSE Found(Head(b), Tail(b))

\* take: n more, if they are there.
take(b, n) == IF n > Len(b) THEN NotFound
              ELSE Found(SubSeq(b, 1, n), SubSeq(b, n + 1, Len(b)))

string(b) == LET length == number(b)
             IN  IF length.ok THEN take(length.rest, length.value) ELSE NotFound

code(b, names) ==
  LET n == number(b)
  IN  IF n.ok /\ n.value + 1 \in DOMAIN names THEN Found(names[n.value + 1], n.rest)
      ELSE NotFound

identity(b) ==
  LET id == string(b)
      kind == code(id.rest, Kind)
  IN  Where(id.ok /\ kind.ok /\ valid_identity(id.value),
            Found([id |-> id.value, kind |-> kind.value], kind.rest))

\* option: absent, or present and then read from what follows the tag.
option(b, present) ==
  LET tag == number(b)
  IN  CASE tag.ok /\ tag.value = 0 -> Found(None, tag.rest)
        [] tag.ok /\ tag.value = 1 -> present
        [] OTHER -> NotFound

\* Mutant: the nanoseconds are dropped.
durationInSeconds(b) ==
  LET read == take(b, 2)
  IN  Where(read.ok, Found(<<read.value[1], 0>>, read.rest))

\* Duration::new carries whole seconds among the nanoseconds over to the seconds,
\* and panics when these overflow.
duration(b) ==
  LET read == take(b, 2)
      seconds == read.value[1] + read.value[2] \div NanosPerSecond
  IN  CASE ~ read.ok -> NotFound
        [] read.ok /\ seconds > MaxSeconds -> Panics
        [] OTHER -> Found(<<seconds, read.value[2] % NanosPerSecond>>, read.rest)

\* The lifetime is put together before the fragment is looked at.
resources(b) ==
  LET amounts == take(b, 5)
      lifetime == option(amounts.rest, duration(number(amounts.rest).rest))
      r == [amounts |-> amounts.value, lifetime |-> lifetime.value]
  IN  IF lifetime.ok THEN Where(validate_requirement(r), Found(r, lifetime.rest))
      ELSE lifetime

\* The items of a layout, one after the other.
item(kind, b) ==
  CASE kind = "byte" -> number(b)
    [] kind = "string" -> string(b)
    [] kind = "identity" -> identity(b)
    [] kind = "source" -> option(b, identity(number(b).rest))
    [] kind = "resources" -> resources(b)
    [] kind = "status" -> code(b, ExecutionStatus)
    [] kind = "error" -> option(b, string(number(b).rest))

\* The first reader that fails ends the reading.
Followed(before, one) ==
  IF ~ before.ok THEN before
  ELSE IF ~ one.ok THEN one
  ELSE Found(Append(before.value, one.value), one.rest)

NextItem(kind, sofar) == {Followed(before, item(kind, before.rest)) : before \in sofar}

\* What reading comes to: a set of one, so that TLC works each reading out once.
items(layout, payload) ==
  LET upto[n \in 0..Len(layout)] ==
        IF n = 0 THEN {Found(<<>>, payload)} ELSE NextItem(layout[n], upto[n - 1])
  IN  upto[Len(layout)]

\* finish: nothing is left over; and the version is known.
Complete(all) == all.ok /\ all.rest = <<>> /\ Head(all.value) = PROTOCOL_VERSION

RequestLayout ==
  <<"byte", "string", "source", "string", "string", "identity", "string", "string",
    "identity", "resources", "identity", "string">>

RequestOf(v) ==
  [request_id |-> v[2], source |-> v[3], workload_id |-> v[4], payload |-> v[5],
   node_id |-> v[6], runtime |-> [name |-> v[7], version |-> v[8]],
   unit |-> [participant_id |-> v[9], resources |-> v[10]],
   endpoint |-> [participant_id |-> v[11], locator |-> v[12]]]

\* The request in a payload, if read_request accepts it: a set of at most one.
read_request(payload) ==
  {q \in {RequestOf(all.value) : all \in {r \in items(RequestLayout, payload) : Complete(r)}} :
     validate_transport_request(q)}

\* read_request panics on a payload: it gets that far only with a known version.
panics(payload) ==
  /\ payload # <<>> /\ Head(payload) = PROTOCOL_VERSION
  /\ Panics \in items(RequestLayout, payload)

ResponseOf(v) == [request_id |-> v[2], status |-> v[3], error |-> v[4]]

read_response(payload) ==
  {ResponseOf(all.value) : all \in
     {r \in items(<<"byte", "string", "status", "error">>, payload) : Complete(r)}}

\* read_frame looks at the length before it makes room for the payload.
acceptable_length(n) == n <= MaxFrame

\* Mutant: the reader waits for one number more than the length says.
whole_frameAndMore(stream) == stream # <<>> /\ Len(stream) - 1 > Head(stream)

\* What has arrived of a stream is a whole frame.
whole_frame(stream) == stream # <<>> /\ Len(stream) - 1 >= Head(stream)

\* The payload read_frame returns: a set of at most one.
read_frame(stream) ==
  IF acceptable_length(Head(stream)) THEN {SubSeq(stream, 2, Head(stream) + 1)} ELSE {}
=============================================================================
