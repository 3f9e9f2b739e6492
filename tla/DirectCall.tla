----------------------------- MODULE DirectCall -----------------------------
(***************************************************************************)
(* Calls between two parties.  A bridged call comes in as an INVITE and is *)
(* sent on to one SIP destination: the direct branch of _on_invite and its *)
(* _finish_bridge (endpoint_runtime.py).  A routed call comes from the     *)
(* trunk and is pre-answered; the digits it sends lead the trunk's router  *)
(* to one SIP destination (_run_trunk_inbound_route).  A placed call       *)
(* starts at a Home Assistant phone: softphone_originate.py and            *)
(* outbound_lifecycle.py.                                                  *)
(*                                                                         *)
(* Each call has a handler (the INVITE callback or the service call, pc)   *)
(* up to the first answer of the far end, and then a watcher (watch).      *)
(* They share the endpoints' claims, the phone's public state (store) and  *)
(* the index of SIP clients, which a phone that dials clears of old ones.  *)
(***************************************************************************)
EXTENDS Naturals, FiniteSets

CONSTANTS
    Bridged,        \* calls that come in
    Routed,         \* calls from the trunk that send digits
    Placed,         \* calls that the phone starts
    Phone,          \* its endpoint, the default one
    Ends,           \* [call -> the endpoints it claims, the source among them]
    Dest,           \* [call -> the endpoint of its far end], none for a routed one
    Nobody,
    MaxCalls        \* bound: the calls that are made

Calls == Bridged \cup Placed \cup Routed
Endpoints == {Phone} \cup UNION {Ends[c] : c \in Calls}

ASSUME DirectConstants ==
    /\ Bridged \cap Placed = {} /\ Routed \cap (Bridged \cup Placed) = {}
    /\ MaxCalls \in Nat /\ Nobody \notin Calls \cup Endpoints
    /\ \A c \in Bridged \cup Placed : Dest[c] \in Ends[c]
    /\ \A c \in Routed : Ends[c] = {}
    /\ \A c \in Placed : Phone \in Ends[c]
    /\ \A c \in Bridged : Phone \notin Ends[c]

VARIABLES
    pc, watch,      \* where the handler and the watcher of each call await
    cancelled,      \* the watcher's cancellation is on its way
    watched,        \* the watcher is in client_watchers
    far,            \* the far end's side of the dialog
    client, bridge, \* the call's client and bridge are in the registry
    source,         \* the caller's dialog; a placed call has none
    pair, relay,    \* the relay's ports and the relay
    session, tomb, closed,
    giveUp,         \* request_cancel() while invite() runs
    stale, cut,     \* old clients that a phone which dials still closes, the one it is at
    claim,          \* active_call_id of each endpoint
    store,          \* the phone's public call and state
    term, hang      \* the end by the caller, the hangup service

workVars == <<pc, watch, cancelled, watched, giveUp, stale, cut>>
callVars == <<far, client, bridge, source, pair, relay>>
registryVars == <<session, tomb, closed, claim>>
vars == <<workVars, callVars, registryVars, store, term, hang>>

MayBegin == Cardinality({c \in Calls : pc[c] # "idle"}) < MaxCalls

All(value) == [c \in Calls |-> value]

DirectInit ==
    /\ pc = All("idle") /\ watch = All("none") /\ cancelled = All(FALSE) /\ watched = All(FALSE)
    /\ far = All("none") /\ client = All(FALSE) /\ bridge = All(FALSE) /\ source = All("none")
    /\ pair = All("free") /\ relay = All("none") /\ session = All("none")
    /\ tomb = All(FALSE) /\ closed = All(FALSE) /\ giveUp = All(FALSE) /\ stale = All({}) /\ cut = Nobody
    /\ claim = [e \in Endpoints |-> Nobody]
    /\ store = [call |-> Nobody, state |-> "idle"]
    /\ term = All("no") /\ hang = All("no")

-----------------------------------------------------------------------------
(* The registry. *)

\* claim_endpoint() of one endpoint after the other, up to one that is busy.
BusyEnds(c) == {e \in Ends[c] : claim[e] \notin {Nobody, c}}
Claims(c) ==
    claim' = [e \in Endpoints |->
        IF e \in Ends[c] /\ claim[e] = Nobody /\ (BusyEnds(c) = {} \/ e # Dest[c]) THEN c ELSE claim[e]]

\* finish_and_pop(): the call is remembered and its session's barrier asked for.
Popped(c) ==
    /\ tomb' = [tomb EXCEPT ![c] = TRUE]
    /\ bridge' = [bridge EXCEPT ![c] = FALSE]
    /\ session' = [session EXCEPT ![c] = IF @ = "live" THEN "closing" ELSE @]

\* _registry_call_is_active()
Active(c) == ~tomb[c] /\ (session[c] = "live" \/ client[c] \/ watched[c] \/ relay[c] = "running")

\* Variant of Shown: an event of an old call is shown over the call there is.
ShownAlways(c, state) == TRUE

\* _set_ha_softphone_call_state(): a live call of the phone is not overwritten by
\* another one's events, and no call that has ended comes back.
Shown(c, state) ==
    /\ state # "idle" => ~tomb[c]
    /\ store.call \in Calls \ {c} /\ store.state # "idle" => ~Active(store.call)

SetStore(c, state) ==
    IF Shown(c, state)
    THEN /\ store' = [call |-> c, state |-> state]
         /\ claim' = [claim EXCEPT ![Phone] =
                IF state = "idle" THEN (IF @ = c THEN Nobody ELSE @)
                ELSE IF @ = Nobody THEN c ELSE @]
    ELSE UNCHANGED <<store, claim>>

\* close() ends whatever dialog or INVITE is left.
Closed(c) == far' = [far EXCEPT ![c] = "none"]

OwnReleased(c) == pair' = [pair EXCEPT ![c] = IF @ = "held" THEN "free" ELSE @]

-----------------------------------------------------------------------------
(* The far end. *)

FarEnd(c) ==
    /\ \/ far[c] = "trying" /\ \E s \in {"ringing", "up", "failed"} : far' = [far EXCEPT ![c] = s]
       \/ far[c] = "ringing" /\ \E s \in {"up", "failed"} : far' = [far EXCEPT ![c] = s]
       \/ far[c] = "up" /\ far' = [far EXCEPT ![c] = "ended"]
    /\ UNCHANGED <<workVars, client, bridge, source, pair, relay, registryVars, store, term, hang>>

\* Timer B, and the timeout of wait_for_final().
TimesOut(c) ==
    /\ far[c] \in {"trying", "ringing"} /\ far' = [far EXCEPT ![c] = "failed"]
    /\ UNCHANGED <<workVars, client, bridge, source, pair, relay, registryVars, store, term, hang>>

-----------------------------------------------------------------------------
(* A bridged call: the handler of the INVITE. *)

\* The INVITE of the second leg leaves when nobody of the two is in another call.
Offered(c) ==
    /\ Claims(c)
    /\ \/ /\ BusyEnds(c) # {}
          /\ pc' = [pc EXCEPT ![c] = "closing"] /\ UNCHANGED far
       \/ /\ BusyEnds(c) = {}
          /\ pc' = [pc EXCEPT ![c] = "invite"] /\ far' = [far EXCEPT ![c] = "trying"]

\* Ports first, then the claims, then the INVITE.
Invited(c) ==
    /\ c \in Bridged /\ pc[c] = "idle" /\ MayBegin
    /\ source' = [source EXCEPT ![c] = "waiting"]
    /\ pair' = [pair EXCEPT ![c] = "held"]
    /\ session' = [session EXCEPT ![c] = "live"]
    /\ Offered(c)
    /\ UNCHANGED <<watch, cancelled, watched, giveUp, stale, cut, client, bridge, relay, tomb, closed, store, term, hang>>

StillWanted(c) == ~closed[c]

Linked(c) == /\ client' = [client EXCEPT ![c] = TRUE]
             /\ bridge' = [bridge EXCEPT ![c] = TRUE]
             /\ session' = [session EXCEPT ![c] = "live"]

Watching(c, place) ==
    /\ pc' = [pc EXCEPT ![c] = "done"] /\ watch' = [watch EXCEPT ![c] = place]
    /\ watched' = [watched EXCEPT ![c] = TRUE]

InviteReturns(c) ==
    /\ c \in Bridged /\ pc[c] = "invite" /\ far[c] # "trying"
    /\ \/ /\ StillWanted(c) /\ far[c] \in {"ringing", "up"}
          /\ Linked(c)
          /\ Watching(c, IF far[c] = "up" THEN "relay" ELSE "final")
          /\ relay' = [relay EXCEPT ![c] = IF far[c] = "up" THEN "starting" ELSE @]
          /\ source' = [source EXCEPT ![c] = IF @ = "waiting" THEN "ringing" ELSE @]
          /\ UNCHANGED closed
       \/ /\ ~StillWanted(c) \/ far[c] \notin {"ringing", "up"}
          /\ closed' = [closed EXCEPT ![c] = FALSE]
          /\ pc' = [pc EXCEPT ![c] = "closing"]
          /\ UNCHANGED <<client, bridge, session, watch, watched, relay, source>>
    /\ UNCHANGED <<cancelled, giveUp, stale, cut, far, pair, tomb, claim, store, term, hang>>

\* Busy, failed or given up: the client is closed, the ports come back and the
\* INVITE is refused.
HandlerClosed(c) ==
    /\ c \in Bridged /\ pc[c] = "closing"
    /\ pc' = [pc EXCEPT ![c] = "done"]
    /\ Closed(c) /\ OwnReleased(c) /\ Popped(c)
    /\ source' = [source EXCEPT ![c] = "over"]
    /\ UNCHANGED <<watch, cancelled, watched, giveUp, stale, cut, client, relay, closed, claim, store, term, hang>>

-----------------------------------------------------------------------------
(* A bridged call: _finish_bridge. *)

At(c, place) == watch[c] = place /\ ~cancelled[c]

WatchEnds(c) ==
    /\ watch' = [watch EXCEPT ![c] = "none"] /\ watched' = [watched EXCEPT ![c] = FALSE]
    /\ cancelled' = [cancelled EXCEPT ![c] = FALSE]

\* What follows a failure: the caller is told, the call taken out of the registry
\* by the watcher itself, the client closed.
BridgeFails(c) ==
    /\ watch' = [watch EXCEPT ![c] = "failing"] /\ watched' = [watched EXCEPT ![c] = FALSE]
    /\ source' = [source EXCEPT ![c] = "over"]
    /\ client' = [client EXCEPT ![c] = FALSE] /\ Popped(c)

FinalReturns(c) ==
    /\ c \in Bridged /\ At(c, "final") /\ far[c] # "ringing"
    /\ \/ /\ far[c] = "up"
          /\ watch' = [watch EXCEPT ![c] = "relay"] /\ relay' = [relay EXCEPT ![c] = "starting"]
          /\ UNCHANGED <<watched, source, client, tomb, bridge, session>>
       \/ far[c] # "up" /\ BridgeFails(c) /\ UNCHANGED relay
    /\ UNCHANGED <<pc, cancelled, giveUp, stale, cut, far, pair, closed, claim, store, term, hang>>

\* The relay has the ports from here; the caller gets its 200.
RelayStarts(c) ==
    /\ At(c, "relay")
    /\ watch' = [watch EXCEPT ![c] = "talk"]
    /\ relay' = [relay EXCEPT ![c] = "running"] /\ pair' = [pair EXCEPT ![c] = "relay"]
    /\ source' = [source EXCEPT ![c] = IF @ = "ringing" THEN "up" ELSE @]
    /\ session' = [session EXCEPT ![c] = "live"]
    /\ UNCHANGED <<pc, cancelled, watched, giveUp, stale, cut, far, client, bridge, tomb, closed, claim, store, term, hang>>

\* A start that fails gives the ports back by itself.
RelayFails(c) ==
    /\ At(c, "relay")
    /\ relay' = [relay EXCEPT ![c] = "none"] /\ pair' = [pair EXCEPT ![c] = "free"]
    /\ BridgeFails(c)
    /\ UNCHANGED <<pc, cancelled, giveUp, stale, cut, far, closed, claim, store, term, hang>>

FailureClosed(c) ==
    /\ c \in Bridged /\ watch[c] = "failing"
    /\ Closed(c) /\ OwnReleased(c) /\ WatchEnds(c)
    /\ UNCHANGED <<pc, giveUp, stale, cut, client, bridge, source, relay, registryVars, store, term, hang>>

\* The callee has hung up: the cleanup that the watcher awaits stops the relay and
\* then cancels and awaits the watcher.
CalleeEnds(c) ==
    /\ c \in Bridged /\ At(c, "talk") /\ far[c] = "ended"
    /\ watch' = [watch EXCEPT ![c] = "selfjoin"] /\ cancelled' = [cancelled EXCEPT ![c] = TRUE]
    /\ watched' = [watched EXCEPT ![c] = FALSE]
    /\ bridge' = [bridge EXCEPT ![c] = FALSE] /\ client' = [client EXCEPT ![c] = FALSE]
    /\ relay' = [relay EXCEPT ![c] = "none"] /\ pair' = [pair EXCEPT ![c] = "free"]
    /\ UNCHANGED <<pc, giveUp, stale, cut, far, source, registryVars, store, term, hang>>

-----------------------------------------------------------------------------
(* A routed call: _run_trunk_inbound_route, once its digits name a SIP     *)
(* destination.  It has no watcher.                                        *)

\* on_invite answers for the digits to come: 200 when they come by SIP INFO, 183
\* when they come in early media.
Preanswered(c) ==
    /\ c \in Routed /\ pc[c] = "idle" /\ MayBegin
    /\ \E s \in {"early", "up"} : source' = [source EXCEPT ![c] = s]
    /\ pair' = [pair EXCEPT ![c] = "held"]
    /\ session' = [session EXCEPT ![c] = "live"]
    /\ pc' = [pc EXCEPT ![c] = "collect"]
    /\ UNCHANGED <<watch, cancelled, watched, giveUp, stale, cut, far, client, bridge, relay, tomb, closed, claim, store, term, hang>>

\* send_bye() needs a dialog: a 183 has none, and its INVITE stays pending.
SourceBye(c) == source' = [source EXCEPT ![c] = IF @ = "up" THEN "over" ELSE @]

\* Closed in the meantime, no address for the extension, or the INVITE.
RouteChosen(c) ==
    /\ pc[c] = "collect"
    /\ \/ /\ closed[c]
          /\ pc' = [pc EXCEPT ![c] = "done"] /\ closed' = [closed EXCEPT ![c] = FALSE]
          /\ OwnReleased(c) /\ UNCHANGED <<far, source>>
       \/ /\ ~closed[c]
          /\ pc' = [pc EXCEPT ![c] = "done"] /\ SourceBye(c)
          /\ OwnReleased(c) /\ UNCHANGED <<far, closed>>
       \/ /\ ~closed[c]
          /\ pc' = [pc EXCEPT ![c] = "invite"] /\ far' = [far EXCEPT ![c] = "trying"]
          /\ UNCHANGED <<pair, closed, source>>
    /\ UNCHANGED <<watch, cancelled, watched, giveUp, stale, cut, client, bridge, relay, session, tomb, claim, store, term, hang>>

\* Nobody asks whether the caller is still there.
RoutedReturns(c) ==
    /\ c \in Routed /\ pc[c] = "invite" /\ far[c] \notin {"trying", "ringing"}
    /\ IF far[c] = "up"
       THEN pc' = [pc EXCEPT ![c] = "relay"] /\ relay' = [relay EXCEPT ![c] = "starting"]
       ELSE pc' = [pc EXCEPT ![c] = "closing"] /\ UNCHANGED relay
    /\ UNCHANGED <<watch, cancelled, watched, giveUp, stale, cut, far, client, bridge, source, pair, registryVars, store, term, hang>>

\* The end of a route that failed: the registry keeps the call.
RoutedClosed(c) ==
    /\ c \in Routed /\ pc[c] = "closing"
    /\ pc' = [pc EXCEPT ![c] = "done"]
    /\ Closed(c) /\ OwnReleased(c) /\ SourceBye(c)
    /\ UNCHANGED <<watch, cancelled, watched, giveUp, stale, cut, client, bridge, relay, registryVars, store, term, hang>>

RoutedRelayFails(c) ==
    /\ pc[c] = "relay"
    /\ pc' = [pc EXCEPT ![c] = "closing"]
    /\ relay' = [relay EXCEPT ![c] = "none"] /\ pair' = [pair EXCEPT ![c] = "free"]
    /\ UNCHANGED <<watch, cancelled, watched, giveUp, stale, cut, far, client, bridge, source, registryVars, store, term, hang>>

\* The bridge is registered, in a new session when the one of the call is gone.
RoutedBridged(c) ==
    /\ pc[c] = "relay" /\ session[c] \notin {"closing", "joining"}
    /\ pc' = [pc EXCEPT ![c] = "done"]
    /\ relay' = [relay EXCEPT ![c] = "running"] /\ pair' = [pair EXCEPT ![c] = "relay"]
    /\ Linked(c)
    /\ UNCHANGED <<watch, cancelled, watched, giveUp, stale, cut, far, source, tomb, closed, claim, store, term, hang>>

\* While the session terminates the registry refuses, and the guard of the task
\* releases the ports under the relay that runs on them.
RoutedRefused(c) ==
    /\ pc[c] = "relay" /\ session[c] \in {"closing", "joining"}
    /\ pc' = [pc EXCEPT ![c] = "done"]
    /\ relay' = [relay EXCEPT ![c] = "orphan"] /\ OwnReleased(c)
    /\ SourceBye(c) /\ Popped(c)
    /\ UNCHANGED <<watch, cancelled, watched, giveUp, stale, cut, far, client, closed, claim, store, term, hang>>

-----------------------------------------------------------------------------
(* A placed call: the service call. *)

\* Variant of Idle: the phone's state is not looked at.
IdleOrNot == TRUE
Idle == store.state = "idle"

\* async_prepare_ha_outbound_call(): whatever client the index has for the phone,
\* and a session without a phone of its own counts as the default one's.
Stale == {d \in Calls : client[d]}

\* The phone's state, the destination's; then one start at a time.
Dial(c) ==
    /\ c \in Placed /\ pc[c] = "idle" /\ MayBegin
    /\ \A d \in Placed : pc[d] # "prepare"
    /\ \/ /\ Idle /\ claim[Dest[c]] = Nobody
          /\ pc' = [pc EXCEPT ![c] = "prepare"] /\ stale' = [stale EXCEPT ![c] = Stale]
       \/ /\ ~Idle \/ claim[Dest[c]] # Nobody
          /\ pc' = [pc EXCEPT ![c] = "done"] /\ UNCHANGED stale
    /\ UNCHANGED <<watch, cancelled, watched, giveUp, cut, callVars, registryVars, store, term, hang>>

\* An old client and its watcher are detached, cancelled and closed ...
StaleTaken(c) ==
    /\ pc[c] = "prepare" /\ cut = Nobody
    /\ \E d \in stale[c] :
         /\ stale' = [stale EXCEPT ![c] = @ \ {d}]
         /\ \/ /\ client[d] /\ cut' = d
               /\ client' = [client EXCEPT ![d] = FALSE]
               /\ watched' = [watched EXCEPT ![d] = FALSE]
               /\ cancelled' = [cancelled EXCEPT ![d] = @ \/ watched[d]]
               /\ UNCHANGED <<tomb, bridge, session>>
            \/ ~client[d] /\ Popped(d) /\ UNCHANGED <<cut, client, watched, cancelled>>
    /\ UNCHANGED <<pc, watch, giveUp, far, source, pair, relay, closed, claim, store, term, hang>>

\* A watcher whose cancellation was asked for has ended.
Joined(c) == watch[c] = "none" \/ ~cancelled[c]

\* ... and its call leaves the registry.
StaleGone(c) ==
    /\ pc[c] = "prepare" /\ cut # Nobody /\ Joined(cut)
    /\ Closed(cut) /\ Popped(cut) /\ cut' = Nobody
    /\ UNCHANGED <<pc, watch, cancelled, watched, giveUp, stale, client, source, pair, relay, closed, claim, store, term, hang>>

\* From the lock to the INVITE nothing is awaited.
Started(c) ==
    /\ pc[c] = "prepare" /\ stale[c] = {} /\ cut = Nobody
    /\ Claims(c)
    /\ \/ /\ BusyEnds(c) # {}
          /\ pc' = [pc EXCEPT ![c] = "closing"]
          /\ session' = [session EXCEPT ![c] = "closing"] /\ tomb' = [tomb EXCEPT ![c] = TRUE]
          /\ UNCHANGED <<far, client, store>>
       \/ /\ BusyEnds(c) = {}
          /\ pc' = [pc EXCEPT ![c] = "invite"] /\ far' = [far EXCEPT ![c] = "trying"]
          /\ session' = [session EXCEPT ![c] = "live"] /\ client' = [client EXCEPT ![c] = TRUE]
          /\ store' = [call |-> c, state |-> "calling"]
          /\ UNCHANGED tomb
    /\ UNCHANGED <<watch, cancelled, watched, giveUp, stale, cut, bridge, source, pair, relay, closed, term, hang>>

\* Variant of Revoked: a call hung up during invite() is not seen.
NeverRevoked(c) == FALSE
Revoked(c) == ~client[c]

\* invite() returns; up to the watcher nothing is awaited.
PlacedReturns(c) ==
    /\ c \in Placed /\ pc[c] = "invite" /\ far[c] # "trying"
    /\ \/ /\ Revoked(c) \/ giveUp[c]
          /\ pc' = [pc EXCEPT ![c] = "closing"]
          /\ UNCHANGED <<watch, watched, client, session, tomb, bridge, store, claim>>
       \/ /\ ~Revoked(c) /\ far[c] \in {"ringing", "up"}
          /\ SetStore(c, IF far[c] = "up" THEN "in_call" ELSE "remote_ringing")
          /\ session' = [session EXCEPT ![c] = "live"]
          /\ client' = [client EXCEPT ![c] = TRUE]
          /\ Watching(c, IF far[c] = "up" THEN "talk" ELSE "final")
          /\ UNCHANGED <<tomb, bridge>>
       \/ /\ ~Revoked(c) /\ far[c] \in {"failed", "ended"}
          /\ SetStore(c, "idle")
          /\ client' = [client EXCEPT ![c] = FALSE] /\ Popped(c)
          /\ pc' = [pc EXCEPT ![c] = "closing"]
          /\ UNCHANGED <<watch, watched>>
    /\ UNCHANGED <<cancelled, giveUp, stale, cut, far, source, pair, relay, closed, term, hang>>

\* An exception of invite(): the client is closed before the phone is told.
PlacedRaises(c) ==
    /\ c \in Placed /\ pc[c] = "invite" /\ far[c] = "failed"
    /\ client' = [client EXCEPT ![c] = FALSE]
    /\ pc' = [pc EXCEPT ![c] = "raising"]
    /\ UNCHANGED <<watch, cancelled, watched, giveUp, stale, cut, far, bridge, source, pair, relay, registryVars, store, term, hang>>

PlacedClosed(c) ==
    /\ c \in Placed
    /\ \/ /\ pc[c] = "closing" /\ UNCHANGED <<session, tomb, bridge, store, claim>>
       \/ /\ pc[c] = "raising" /\ SetStore(c, "idle") /\ Popped(c)
    /\ pc' = [pc EXCEPT ![c] = "done"]
    /\ Closed(c)
    /\ UNCHANGED <<watch, cancelled, watched, giveUp, stale, cut, client, source, pair, relay, closed, term, hang>>

-----------------------------------------------------------------------------
(* A placed call: _watch_sip_lifecycle.  Whoever takes its client cancels  *)
(* it, so it never finds the client gone (WatchInv of CallProofs).         *)

PlacedFinal(c) ==
    /\ c \in Placed /\ At(c, "final") /\ far[c] # "ringing"
    /\ \/ /\ far[c] = "up"
          /\ session' = [session EXCEPT ![c] = "live"] /\ SetStore(c, "in_call")
          /\ watch' = [watch EXCEPT ![c] = "talk"]
          /\ UNCHANGED <<watched, client, tomb, bridge>>
       \/ /\ far[c] # "up"
          /\ SetStore(c, "idle")
          /\ client' = [client EXCEPT ![c] = FALSE] /\ Popped(c)
          /\ watch' = [watch EXCEPT ![c] = "failing"] /\ watched' = [watched EXCEPT ![c] = FALSE]
    /\ UNCHANGED <<pc, cancelled, giveUp, stale, cut, far, source, pair, relay, closed, term, hang>>

RemoteEnds(c) ==
    /\ c \in Placed /\ At(c, "talk") /\ far[c] = "ended"
    /\ client' = [client EXCEPT ![c] = FALSE]
    /\ watch' = [watch EXCEPT ![c] = "ending"] /\ watched' = [watched EXCEPT ![c] = FALSE]
    /\ UNCHANGED <<pc, cancelled, giveUp, stale, cut, far, bridge, source, pair, relay, registryVars, store, term, hang>>

\* The client is closed; only then the phone is told that the far end has left.
PlacedWatchClosed(c) ==
    /\ c \in Placed
    /\ \/ watch[c] = "failing" /\ UNCHANGED <<session, tomb, bridge, store, claim>>
       \/ watch[c] = "ending" /\ SetStore(c, "idle") /\ Popped(c)
    /\ Closed(c) /\ WatchEnds(c)
    /\ UNCHANGED <<pc, giveUp, stale, cut, client, source, pair, relay, closed, term, hang>>

-----------------------------------------------------------------------------
(* The ends. *)

\* The pair of a bridge that nobody will release or detach any more.
Stranded(c) == pair' = [pair EXCEPT ![c] = IF @ = "held" THEN "stranded" ELSE @]

\* The waits of a watcher end at once, and nothing of _finish_bridge or of
\* _watch_sip_lifecycle follows.
Interrupted(c) ==
    /\ cancelled[c]
    /\ \/ watch[c] = "talk" /\ UNCHANGED <<pair, relay>>
       \/ watch[c] = "final" /\ Stranded(c) /\ UNCHANGED relay
       \/ /\ watch[c] = "relay"             \* the start is cancelled with it
          /\ relay' = [relay EXCEPT ![c] = "none"] /\ pair' = [pair EXCEPT ![c] = "free"]
       \/ /\ watch[c] = "relay"             \* the start has just ended
          /\ relay' = [relay EXCEPT ![c] = "late"] /\ Stranded(c)
    /\ WatchEnds(c)
    /\ UNCHANGED <<pc, giveUp, stale, cut, far, client, bridge, source, registryVars, store, term, hang>>

Unwatched(c) ==
    /\ watched' = [watched EXCEPT ![c] = FALSE]
    /\ cancelled' = [cancelled EXCEPT ![c] = @ \/ watched[c]]

\* CANCEL, BYE or the expiry of the INVITE: _on_terminated takes what the registry
\* has, and awaits its cleanup.  Until the router has chosen, the registry has
\* the pre-answered media.
CallerEnds(c) ==
    /\ source[c] \in {"waiting", "ringing", "early", "up"}
    /\ source' = [source EXCEPT ![c] = "over"]
    /\ tomb' = [tomb EXCEPT ![c] = TRUE]
    /\ pair' = [pair EXCEPT ![c] = IF pc[c] = "collect" /\ ~tomb[c] THEN "free" ELSE @]
    /\ \/ /\ ~tomb[c] /\ term' = [term EXCEPT ![c] = "taking"]
          /\ closed' = [closed EXCEPT ![c] = TRUE]
          /\ IF bridge[c]
             THEN /\ bridge' = [bridge EXCEPT ![c] = FALSE] /\ client' = [client EXCEPT ![c] = FALSE]
                  /\ relay' = [relay EXCEPT ![c] = IF @ = "running" THEN "taken" ELSE @]
                  /\ Unwatched(c)
             ELSE UNCHANGED <<bridge, client, relay, watched, cancelled>>
       \/ tomb[c] /\ UNCHANGED <<term, closed, bridge, client, relay, watched, cancelled>>
    /\ UNCHANGED <<pc, watch, giveUp, stale, cut, far, session, claim, store, hang>>

CallerGone(c) ==
    /\ term[c] = "taking" /\ Joined(c)
    /\ term' = [term EXCEPT ![c] = "done"]
    /\ IF pc[c] = "done" /\ (c \in Routed => relay[c] = "taken") THEN Closed(c) ELSE UNCHANGED far
    /\ relay' = [relay EXCEPT ![c] = IF @ = "taken" THEN "none" ELSE @]
    /\ pair' = [pair EXCEPT ![c] = IF relay[c] = "taken" THEN "free" ELSE @]
    /\ Popped(c)
    /\ UNCHANGED <<pc, watch, cancelled, watched, giveUp, stale, cut, client, source, closed, claim, store, hang>>

\* The hangup service.  A client whose INVITE has no answer yet is asked to give
\* up; otherwise the watcher and the client are taken and their end awaited.
Hangup(c) ==
    /\ c \in Placed /\ store.call = c /\ store.state # "idle" /\ hang[c] = "no"
    /\ client' = [client EXCEPT ![c] = FALSE] /\ Unwatched(c)
    /\ \/ /\ client[c] /\ ~watched[c] /\ far[c] # "up"
          /\ giveUp' = [giveUp EXCEPT ![c] = TRUE]
          /\ hang' = [hang EXCEPT ![c] = "asked"] /\ SetStore(c, "idle") /\ Popped(c)
       \/ /\ client[c] /\ (watched[c] \/ far[c] = "up")
          /\ hang' = [hang EXCEPT ![c] = "taking"] /\ UNCHANGED <<giveUp, tomb, bridge, session, store, claim>>
       \/ /\ ~client[c]
          /\ hang' = [hang EXCEPT ![c] = "done"] /\ SetStore(c, "idle") /\ Popped(c) /\ UNCHANGED giveUp
    /\ UNCHANGED <<pc, watch, stale, cut, far, source, pair, relay, closed, term>>

HungUp(c) ==
    /\ hang[c] = "taking" /\ Joined(c)
    /\ hang' = [hang EXCEPT ![c] = "done"]
    /\ Closed(c) /\ SetStore(c, "idle") /\ Popped(c)
    /\ UNCHANGED <<pc, watch, cancelled, watched, giveUp, stale, cut, client, source, pair, relay, closed, term>>

\* A CANCEL reaches a far end that has answered provisionally, or is answered by it.
GivenUp(c) ==
    /\ giveUp[c] /\ far[c] \in {"ringing", "up"} /\ pc[c] = "invite"
    /\ far' = [far EXCEPT ![c] = "failed"]
    /\ UNCHANGED <<workVars, client, bridge, source, pair, relay, registryVars, store, term, hang>>

BarrierStarts(c) ==
    /\ session[c] = "closing" /\ session' = [session EXCEPT ![c] = "joining"]
    /\ cancelled' = [cancelled EXCEPT ![c] = @ \/ watched[c]]
    /\ UNCHANGED <<pc, watch, watched, giveUp, stale, cut, callVars, tomb, closed, claim, store, term, hang>>

\* The barrier closes what the session still owns and gives the claims back.
BarrierEnds(c) ==
    /\ session[c] = "joining" /\ ~watched[c]
    /\ session' = [session EXCEPT ![c] = "gone"]
    /\ claim' = [e \in Endpoints |-> IF claim[e] = c THEN Nobody ELSE claim[e]]
    /\ client' = [client EXCEPT ![c] = FALSE]
    /\ far' = [far EXCEPT ![c] = IF client[c] THEN "none" ELSE @]
    /\ relay' = [relay EXCEPT ![c] = IF @ = "running" THEN "none" ELSE @]
    /\ pair' = [pair EXCEPT ![c] = IF relay[c] = "running" THEN "free" ELSE @]
    /\ UNCHANGED <<workVars, bridge, source, tomb, closed, store, term, hang>>

-----------------------------------------------------------------------------
Handler(c) ==
    \/ InviteReturns(c) \/ HandlerClosed(c)
    \/ RouteChosen(c) \/ RoutedReturns(c) \/ RoutedClosed(c)
    \/ RoutedRelayFails(c) \/ RoutedBridged(c) \/ RoutedRefused(c)
    \/ StaleTaken(c) \/ StaleGone(c) \/ Started(c) \/ PlacedReturns(c) \/ PlacedRaises(c) \/ PlacedClosed(c)

Watcher(c) ==
    \/ FinalReturns(c) \/ RelayStarts(c) \/ RelayFails(c) \/ FailureClosed(c) \/ CalleeEnds(c)
    \/ PlacedFinal(c) \/ RemoteEnds(c) \/ PlacedWatchClosed(c) \/ Interrupted(c)

Cleanup(c) == CallerGone(c) \/ HungUp(c) \/ BarrierStarts(c) \/ BarrierEnds(c)

DirectNext == \E c \in Calls :
    \/ Invited(c) \/ Preanswered(c) \/ Dial(c) \/ FarEnd(c) \/ TimesOut(c) \/ CallerEnds(c) \/ Hangup(c) \/ GivenUp(c)
    \/ Handler(c) \/ Watcher(c) \/ Cleanup(c)

DirectSpec == DirectInit /\ [][DirectNext]_vars

\* The loop runs what is ready; invite() and wait_for_final() end by themselves.
FairDirectSpec ==
    /\ DirectSpec
    /\ \A c \in Calls : /\ WF_vars(Handler(c)) /\ WF_vars(Watcher(c)) /\ WF_vars(Cleanup(c))
                        /\ WF_vars(TimesOut(c)) /\ WF_vars(GivenUp(c))

-----------------------------------------------------------------------------
TasksTyped ==
    /\ pc \in [Calls -> {"idle", "prepare", "collect", "invite", "relay", "closing", "raising", "done"}]
    /\ watch \in [Calls -> {"none", "final", "relay", "failing", "talk", "ending", "selfjoin"}]
    /\ stale \in [Calls -> SUBSET Calls] /\ cut \in Calls \cup {Nobody}

FlagsTyped ==
    /\ cancelled \in [Calls -> BOOLEAN] /\ watched \in [Calls -> BOOLEAN]
    /\ client \in [Calls -> BOOLEAN] /\ bridge \in [Calls -> BOOLEAN] /\ tomb \in [Calls -> BOOLEAN]
    /\ closed \in [Calls -> BOOLEAN] /\ giveUp \in [Calls -> BOOLEAN]

PartiesTyped ==
    /\ far \in [Calls -> {"none", "trying", "ringing", "up", "failed", "ended"}]
    /\ source \in [Calls -> {"none", "waiting", "ringing", "early", "up", "over"}]
    /\ pair \in [Calls -> {"free", "held", "relay", "stranded"}]
    /\ relay \in [Calls -> {"none", "starting", "running", "taken", "orphan", "late"}]

FrontTyped ==
    /\ session \in [Calls -> {"none", "live", "closing", "joining", "gone"}]
    /\ claim \in [Endpoints -> Calls \cup {Nobody}]
    /\ store \in [call : Calls \cup {Nobody}, state : {"idle", "calling", "remote_ringing", "in_call"}]
    /\ term \in [Calls -> {"no", "taking", "done"}]
    /\ hang \in [Calls -> {"no", "asked", "taking", "done"}]

DirectTypeOK == TasksTyped /\ FlagsTyped /\ PartiesTyped /\ FrontTyped

\* Nobody is at work on the call.
Quiet(c) ==
    /\ pc[c] \in {"idle", "done"} /\ watch[c] = "none" /\ cut # c
    /\ term[c] # "taking" /\ hang[c] # "taking"
    /\ session[c] \in {"none", "gone"}

\* A call that is through with has left nothing behind: no dialog with the far end,
\* no client or bridge in the registry, no claim of an endpoint, no relay and no
\* ports; but for three losses.  A routed call whose bridge was refused leaves its
\* destination and its relay (orphan), on ports that were given back; a bridged call
\* whose watcher is cancelled while the far end rings leaves its ports (stranded),
\* and in the tick in which the relay has started its relay with them (late).
NothingLeft == \A c \in Calls : (Quiet(c) /\ pc[c] = "done") =>
    /\ far[c] # "none" => c \in Routed /\ relay[c] = "orphan"
    /\ ~client[c] /\ ~bridge[c]
    /\ \A e \in Endpoints : claim[e] # c
    /\ \/ relay[c] = "none" /\ (pair[c] = "free" \/ (c \in Bridged /\ pair[c] = "stranded"))
       \/ c \in Routed /\ relay[c] = "orphan" /\ pair[c] = "free"
       \/ c \in Bridged /\ relay[c] = "late" /\ pair[c] = "stranded"
    /\ ~(store.call = c /\ store.state # "idle")

\* "Owned RTP relay port pair that must be released or detached" (media_ports.py):
\* the ports of a call that is through with are in the pool again.
PortsComeBack == \A c \in Calls : (Quiet(c) /\ pc[c] = "done") => pair[c] = "free"

\* A phone shows the call that it has: a dialog that is up, or rings, and that
\* nobody is ending, is the one of the phone's state.
PhoneShowsItsCall == \A c \in Placed :
    (watch[c] \in {"final", "talk"} /\ ~cancelled[c] /\ ~tomb[c]) =>
        /\ store.call = c
        /\ store.state = IF watch[c] = "talk" THEN "in_call" ELSE "remote_ringing"

\* A routed call whose destination answered after the caller had left.
Revived(c) ==
    /\ c \in Routed /\ pc[c] = "done" /\ source[c] = "over"
    /\ relay[c] = "orphan" \/ (bridge[c] /\ session[c] = "live")

\* Whoever hangs up a call, its far end is released and so are its endpoints; but for
\* the watcher of a bridge that awaits the cleanup which awaits the watcher, and for
\* a routed call that is revived.
EndIsThrough == \A c \in Calls : (tomb[c] /\ session[c] # "none")
    ~> (\/ watch[c] = "selfjoin"
        \/ Revived(c)
        \/ far[c] = "none" /\ (\A e \in Endpoints : claim[e] # c))

\* A caller whose digits lead to a phone that answers is answered, however the
\* digits came: HA answers the trunk leg and bridges it to the extension.
RoutedIsAnswered == \A c \in Routed : bridge[c] => source[c] # "early"

=============================================================================
