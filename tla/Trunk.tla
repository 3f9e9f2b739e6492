------------------------------- MODULE Trunk -------------------------------
(***************************************************************************)
(* The trunk clients that register, one SipTrunkClient each: start, the     *)
(* REGISTER transaction with its one authenticated retry, the refresh loop  *)
(* and stop. A client that is stopped is replaced by the next one, with the *)
(* same contact and a Call-ID of its own.                                   *)
(***************************************************************************)
EXTENDS Naturals

CONSTANTS
    Clients,             \* the clients, each with its own Call-ID
    ContactOf,           \* the contact a client advertises
    Replaces,            \* pairs <<new, old>>: new starts once old is closed
    LeavesWithWildcard   \* phones of other vendors, that unregister with "*"

VARIABLES
    client,      \* per client: what it is doing and what it knows
    requests,    \* REGISTERs on the wire, and the copies the network keeps
    responses    \* responses on the wire

trunk == <<client, requests, responses>>

\* phase: "new", "register" (its first or a later one), "rest" between two of
\* them, "unregister", "closed".
NewClient == [phase |-> "new", cseq |-> 1, retried |-> FALSE, registered |-> FALSE,
              nonce |-> 0, password |-> 0]
ClosedClient == [NewClient EXCEPT !.phase = "closed"]

TrunkInit(present) ==
    /\ client = [c \in Clients |-> IF c \in present THEN NewClient ELSE ClosedClient]
    /\ requests = {} /\ responses = {}

RequestOf(c, state) ==
    LET leaves == state.phase = "unregister"
    IN [call |-> c, cseq |-> state.cseq, expires |-> IF leaves THEN 0 ELSE 1,
        contact |-> IF leaves /\ c \in LeavesWithWildcard THEN "*" ELSE ContactOf[c],
        nonce |-> state.nonce, password |-> state.password]

Of(c, wire) == {m \in wire : m.call = c}

\* What the client waits for is on its way, there or back.
UnderWay(c) == \E m \in requests \cup responses : m.call = c /\ m.cseq = client[c].cseq

\* A request that nobody waits for any more matters when it is signed; without
\* a nonce it can only bring a challenge, and is forgotten.
Signed(c) == {m \in requests : m.call = c => m.nonce # 0}

\* A request is sent with the next CSeq; an answer to an earlier one no longer
\* matches and is skipped, so it is forgotten too.
Sends(c, state) ==
    LET next == [state EXCEPT !.cseq = @ + 1]
    IN /\ client' = [client EXCEPT ![c] = next]
       /\ requests' = Signed(c) \cup {RequestOf(c, next)}
       /\ responses' = responses \ Of(c, responses)

\* register() returns: to the refresh loop, or to stop(), which closes all.
Returns(c, registered) ==
    /\ client' = [client EXCEPT ![c] =
         IF @.phase = "unregister" THEN ClosedClient
         ELSE [@ EXCEPT !.phase = "rest", !.registered = registered,
                        !.retried = FALSE, !.nonce = 0]]
    /\ responses' = responses \ Of(c, responses)
    /\ requests' = Signed(c)

Waits(c) == client[c].phase \in {"register", "unregister"}

\* The predecessor is stopped before the next client is made.
MayStart(c) == client[c].phase = "new" /\ \A r \in Replaces : r[1] = c => client[r[2]].phase = "closed"

Start(c, password) ==
    /\ MayStart(c)
    /\ Sends(c, [client[c] EXCEPT !.phase = "register", !.password = password])

\* Variant: only a registered client is refreshed.
RefreshRegistered(c) ==
    /\ client[c].phase = "rest" /\ client[c].registered
    /\ Sends(c, [client[c] EXCEPT !.phase = "register"])

\* The refresh loop's wait is over: its delay, or a flow that was lost.
Refresh(c) ==
    /\ client[c].phase = "rest"
    /\ Sends(c, [client[c] EXCEPT !.phase = "register"])

\* The connection cannot be opened: the loop tries again later.
RefreshFails(c) ==
    /\ client[c].phase = "rest"
    /\ client' = [client EXCEPT ![c].registered = FALSE]
    /\ UNCHANGED <<requests, responses>>

StartFails(c, password) ==
    /\ MayStart(c)
    /\ client' = [client EXCEPT ![c].phase = "rest", ![c].password = password]
    /\ UNCHANGED <<requests, responses>>

\* The first challenge is answered, with a nonce and a CSeq of its own.
Retry(c, r) ==
    /\ r.code = 401 /\ ~client[c].retried
    /\ Sends(c, [client[c] EXCEPT !.retried = TRUE, !.nonce = r.nonce])

Settle(c, r) ==
    /\ r.code # 401 \/ client[c].retried
    /\ Returns(c, r.code = 200 /\ client[c].phase # "unregister")

Receive(c, r) ==
    /\ Waits(c) /\ r \in responses /\ r.call = c /\ r.cseq = client[c].cseq
    /\ Retry(c, r) \/ Settle(c, r)

\* UDP only: the same bytes again.
Retransmit(c) ==
    /\ Waits(c) /\ ~UnderWay(c)
    /\ requests' = requests \cup {RequestOf(c, client[c])}
    /\ UNCHANGED <<client, responses>>

TimesOut(c) == Waits(c) /\ Returns(c, FALSE)

\* TCP only: the flow is gone with what was on it; a register() under way
\* waits for its timeout.
FlowLost(c) ==
    /\ client[c].phase \in {"register", "rest", "unregister"}
    /\ client' = [client EXCEPT ![c].registered = FALSE]
    /\ requests' = requests \ Of(c, requests)
    /\ responses' = responses \ Of(c, responses)

\* stop() cancels the start or the refresh wherever it is. A client that
\* believes it is registered takes its leave; the others just close.
Stop(c) ==
    /\ client[c].phase \in {"register", "rest"}
    /\ LET idle == [client[c] EXCEPT !.retried = FALSE, !.nonce = 0]
       IN IF idle.registered
          THEN Sends(c, [idle EXCEPT !.phase = "unregister"])
          ELSE /\ client' = [client EXCEPT ![c] = ClosedClient]
               /\ responses' = responses \ Of(c, responses)
               /\ requests' = Signed(c)
=============================================================================
