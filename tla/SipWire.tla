------------------------------ MODULE SipWire ------------------------------
(***************************************************************************)
(* The UDP path between our SIP client and a SIP listener, for one Call-ID. *)
(* Requests keep their order and may be lost or repeated; responses, and    *)
(* the listener's own BYE, are lost and reordered, and repeated when their  *)
(* request is.                                                              *)
(***************************************************************************)
EXTENDS Naturals, Sequences

CONSTANTS
    MaxInFlight,   \* bound on the requests under way when another is caused
    Losable        \* kinds of messages the network may lose

ASSUME WireConstants == MaxInFlight \in Nat \ {0}

VARIABLES
    toListener,    \* requests under way, in order
    toClient       \* responses and requests under way to the client

wire == <<toListener, toClient>>

\* Kinds of requests; an ACK of a final error belongs to the INVITE's own
\* transaction and is told apart by its branch.
RequestKinds == {"INVITE", "ACK", "ACK error", "CANCEL", "BYE"}

\* "final" is any response of 300 or more to the INVITE.
ResponseKinds == {"100", "180", "200", "final", "401",
                  "CANCEL 200", "CANCEL 481", "BYE 200", "BYE 481", "BYE"}

Requests == [kind : RequestKinds, seq : Nat]
Responses == [kind : ResponseKinds, seq : Nat]

WireTypeOK == toListener \in Seq(Requests) /\ toClient \subseteq Responses

Request(k, n) == [kind |-> k, seq |-> n]
Response(k, n) == [kind |-> k, seq |-> n]

Room == Len(toListener) < MaxInFlight

\* sip_client._send_raw and _send_dialog_request
Send(requests) == toListener' = toListener \o requests

\* SipUdpEndpoint._send
Answer(responses) == toClient' = toClient \cup responses

\* The reader takes a message, with room for what it may have to send.
Taken(m) == Room /\ toClient' = toClient \ {m}

\* A datagram that is lost, a request the saturated listener drops, a response
\* pushed out of the client's full queue.
LoseRequest ==
    /\ toListener # <<>> /\ Head(toListener).kind \in Losable
    /\ toListener' = Tail(toListener)
    /\ UNCHANGED toClient

LoseResponse(m) ==
    /\ m \in toClient /\ m.kind \in Losable
    /\ toClient' = toClient \ {m}
    /\ UNCHANGED toListener

=============================================================================
