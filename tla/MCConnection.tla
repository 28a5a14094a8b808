----------------------------- MODULE MCConnection -----------------------------
(* Small instances of Connection for TLC. *)
EXTENDS Connection, TLC

P1 == <<1>>
P2 == <<2>>
N1 == <<3>>
SmallUuids == {P1, P2, N1}

Participant(id) == [id |-> id, kind |-> "Participant"]

\* Locators: of the server, of the server under another name, without a port.
Here == <<1>>
There == <<2>>
Nowhere == <<>>
SmallHosts == (Here :> "host") @@ (There :> "alias") @@ (Nowhere :> None)

Base ==
  [request_id |-> <<1>>, source |-> Participant(P1), workload_id |-> <<2>>, payload |-> <<>>,
   node_id |-> [id |-> N1, kind |-> "LogicalNode"],
   runtime |-> [name |-> <<1>>, version |-> <<1>>],
   unit |-> [participant_id |-> Participant(P2),
             resources |-> [amounts |-> <<1, 0, 0, 0, 0>>, lifetime |-> None]],
   endpoint |-> [participant_id |-> Participant(P2), locator |-> Here]]

\* Of another source or of none, at the limit of a frame and beyond it, with the
\* longest lifetime, for the other locators, and invalid ones.
SmallRequests ==
  {Base, [Base EXCEPT !.source = None], [Base EXCEPT !.source = Participant(P2)],
   [Base EXCEPT !.payload = <<1, 1, 0>>], [Base EXCEPT !.payload = <<1, 1, 0, 1>>],
   [Base EXCEPT !.unit.resources.lifetime = <<MaxSeconds, NanosPerSecond - 1>>, !.source = None],
   [Base EXCEPT !.endpoint.locator = There], [Base EXCEPT !.endpoint.locator = Nowhere],
   [Base EXCEPT !.request_id = <<>>],
   [Base EXCEPT !.unit.resources.amounts = <<9, 0, 0, 0, 0>>]}

\* What other programs write: nothing, a length that is too large, a request that
\* stops early, one with an item too many, one in another's name, lifetimes that
\* carry over and one that overflows, in a frame of this and of another version.
Lasting(lifetime) == [Base EXCEPT !.unit.resources.lifetime = lifetime]
SmallForeign ==
  LET valid == write_request(PROTOCOL_VERSION, Base)
      tooLong == <<MaxSeconds, NanosPerSecond>>
  IN  {<<>>, <<MaxFrame + 1, 1>>, SubSeq(frame(valid), 1, 9), frame(valid \o <<1>>),
       frame(write_request(PROTOCOL_VERSION, [Base EXCEPT !.source = Participant(P2)])),
       frame(write_request(PROTOCOL_VERSION, Lasting(<<1, NanosPerSecond>>))) \o <<1>>,
       frame(write_request(PROTOCOL_VERSION, Lasting(tooLong))),
       frame(write_request(PROTOCOL_VERSION + 1, Lasting(tooLong)))}

SmallAnswers ==
  {[request_id |-> <<1>>, status |-> "Completed", error |-> None],
   [request_id |-> <<1>>, status |-> "Failed", error |-> <<1, 2>>],
   [request_id |-> <<2>>, status |-> "Completed", error |-> None],
   [request_id |-> <<1>>, status |-> "Failed", error |-> [i \in 1..MaxFrame |-> 1]]}

\* Chains: of each participant, a second one for the first, one that the CA does
\* not vouch for, and a file without certificates.
Chain1 == <<"cert1", "ca">>
Chain2 == <<"cert2", "ca">>
Rotated == <<"cert3", "ca">>
Stray == <<"cert4", "other">>
SmallGrants ==
  {[id |-> P1, pem |-> Chain1], [id |-> P1, pem |-> Rotated], [id |-> P2, pem |-> Chain1],
   [id |-> P2, pem |-> Chain2], [id |-> P1, pem |-> Stray], [id |-> P1, pem |-> <<>>]}
SmallChains == {Chain1, Chain2, Rotated, Stray, <<>>}
SmallVerified == {Chain1, Chain2, Rotated}
=============================================================================
