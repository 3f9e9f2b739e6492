# Formal models of the VoIP stack

TLA+ models of the call control of the `voip_stack` Home Assistant integration
(`custom_components/voip_stack/`, paths below are relative to it unless they
start with `docs/`), the TLC configurations that check them and the theorems
that TLAPS proves about them.

The integration is a small PBX inside Home Assistant. Everything runs on one
asyncio loop: two pieces of code interleave only where one of them awaits. What
makes it hard is that one call is worked on by many tasks (the SIP listener, the
inbound policy, dial tasks, watchers of dialogs, the services a card calls, a
cleanup barrier, the reload of the integration), that each of them awaits
network operations in the middle of its work, and that any of them may end the
call while the others hold pieces of it.

Throughout the models **one action is the code between two awaits**. A place
where the code awaits is a state in which every other action may happen. Where
two tasks race across a network (SIP client and listener, trunk and registrar),
sending and receiving are actions of their own.

## 1. Inventory

### Parts of the system

| part | state it keeps | operations | correct when | module |
|---|---|---|---|---|
| call session (`endpoint_session.py`, `session_cleanup.py`) | phase, legs, resources with a cleanup stage, owned tasks, one termination task | `transition`, `add_leg`, `add_resource`, `release_*`, `own_task`, `start_termination`, `terminate` | teardown runs once, in order, after the call's tasks; a terminal call takes nothing | `EndpointSession` |
| registry and runtime (`call_registry.py`, `pbx_runtime.py`) | sessions by Call-ID, generations, tombstones, indexes of clients, relays, watchers, bridges, media | `upsert`, `finish`, `pop`, `attach_*`, `detach_bridge`, `claim_endpoint` | a late event of an ended call creates nothing; an index names what a live session owns | in the call modules |
| inbound call (`sip_listener.py`, `inbound_answer.py`, `softphone_*.py`, `trunk_*.py`, part of `endpoint_runtime.py`) | pending INVITEs, invites of cards, early media, the trunk router's task | INVITE, CANCEL, BYE, expiry, answer, decline, hangup, end of digit collection | one final response; ports, session and dialog agree | `InboundCall` |
| dial fork (`dial_fork.py`) | tiers, dial tasks, winner, control tasks | `run`, `_run_candidates`, close barrier | one winner at most, losers closed, no answer lost | `DialFork` |
| ring group (`endpoint_runtime.py`, `outbound_attempts.py`, `bridge_manager.py`) | prepared legs and reservations, relay, bridge index | prepare, fork, bridge, answer, hangup, cleanup | nothing left behind; a hangup gets through | `RingGroup` |
| forward (`endpoint_runtime.py`, `softphone_forward.py`) | the source call, the forward task, the pending route decision | forward, replace, reroute, cancel, resume | the caller is served by somebody; its end gets through | `ForwardCall` |
| direct, routed and placed calls (`endpoint_runtime.py`, `softphone_originate.py`, `outbound_lifecycle.py`) | handler, watcher, client, bridge, public state of the phone | INVITE to one destination, digits of a trunk call to one, call from a card | both parties go; the phone shows the call it has | `DirectCall` |
| conference (`conference.py`) | rooms, legs, mixer, cleanup and close tasks, reservations | join, leave, ring, mix, close, shut down | a room ends with its last leg and forgets nobody | `Conference` |
| SIP client and listener (`sip_client.py`, `sip_listener.py`, `sip_transaction.py`) | transactions, dialogs, deferred CANCEL, response caches | INVITE, CANCEL, ACK, BYE, provisionals, retransmission, timers | both ends agree on the call, whatever is lost or repeated | `SipCall` |
| negotiation (`sdp.py`, `media_renegotiation.py`, `media_offer_answer.py`) | contract of each dialog, staged ports, versions of answers | first offer and answer, re-INVITE, UPDATE, prepare, commit, roll back | the peers and the bridge agree on formats and directions | `Sdp`, `Renegotiation` |
| media sockets (`websocket_owner.py`, `*_ws_view.py`, `media_*`, `local_softphone_bridge.py`) | owner per call and channel, pins, leases, queues, active sessions | claim, handoff, takeover, release, shutdown | one browser document owns a call's media | `MediaOwner` |
| registrar and trunk (`sip_registrar.py`, `sip_trunk.py`, `phone_config.py`) | bindings, nonces, registration, the phone's availability | register, challenge, refresh, expire, edit the account | bindings end with their account, availability follows bindings, a client gets back | `Registration` |
| endpoint registry (`endpoint_registry.py`) | `active_call_id`, availability | claim, release | a phone is in one call | in `RingGroup`, `DirectCall`, `Registrar` |
| RTP port pool, relays (`media_ports.py`, `sip_rtp_bridge.py`) | ports in use, relay sockets | allocate, release, start, stop | everything returns | in the call modules |
| reload (`endpoint_lifecycle.py`) | runtime tasks | cancel, join, shut down sessions | it ends, and leaves no task | in `RingGroup`, `Conference`, `MediaOwner` |
| the rest | | routing, phonebook, text of SIP and SDP, codecs, RTP, entities, cards, firmware | data and presentation; unit tests cover them | |

### How the parts meet

* The listener calls `on_invite` and **awaits** it; the INVITE is already
  pending, so CANCEL and expiry can come before the policy returns.
* `on_terminated` is the one callback for the end of a dialog; services and
  watchers end calls by themselves, too. The tombstone of the registry decides
  who was first.
* The registry is an index. Whoever attaches a client, a relay or a watcher to
  a call with a session hands it to the session (`own_resource`, `own_task`);
  `detach_bridge` takes it out again for an explicit cleanup.
* The session's barrier (`_run_termination`) cancels and joins the tasks the
  session owns, then closes what it owns by stage: media (30) and 40 before
  legs (20), legs before port reservations (10).
* `async_wait_for_cleanup` shields a cleanup from any number of cancellations
  of the task that waits for it.
* A re-INVITE is prepared, answered and committed by the owner of the media
  (bridge, card, Assist, pre-answered trunk call); the sockets of the cards see
  the commit by a generation number.
* The registrar tells an observer when an account's first binding comes and its
  last one goes; the observer sets the phone's availability. The entry's update
  listener tells the registrar of edited accounts.
* A reload cancels the tasks that are registered as runtime tasks and gathers
  them, then shuts the sessions down.

### What is hard

The complete list with lines is in `PROJECT.json` under `hazards`. In short:
state read before an await and used after it (policy against CANCEL, router
against the caller, fork winner against the end of the call), teardown of one
thing by several actors, tasks that wait for each other, resources with two
owners, messages that are lost, late or repeated, and results that come after
the call has ended. Four hazards have no property, because the code does not
have the property one would state; section 6 says what happens instead. Others
have one that names the exception and holds; section 3 lists the sentences without it, and
the configurations that show them violated.

## 2. Modules

| module | models | uses |
|---|---|---|
| `CallLifetime` | what a session promises: own while live; only drop once closing; gone when nothing is held | |
| `EndpointSession` | `EndpointCallSession` and `async_wait_for_cleanup` | refines `CallLifetime` |
| `CallProofs` | theorems about `EndpointSession` and about `DirectCall` | |
| `InboundCall` | an INVITE from the listener to a card, with the trunk router | takes the session's barrier as one step |
| `ForkPromise` | what a fork promises: one answered winner, everything else closed before it settles | |
| `DialFork` | `DialForkController` | refines `ForkPromise` |
| `RingGroup` | `_run_ring_group_call`, its cleanup, the removers of a bridge, the barrier, a reload | takes the session at `CallLifetime`, the fork at `ForkPromise` |
| `RingGroupProofs` | theorems about it | |
| `ForwardCall` | the forward of a ringing call to a peer, a phone, a group, Assist | session at `CallLifetime`, the fork's close barrier in short |
| `ForwardProofs` | theorems about it | |
| `DirectCall` | bridged, routed and placed calls between two parties | session at `CallLifetime` |
| `Conference` | rooms, their mixers, cleanups and close tasks | |
| `ConferenceProofs` | theorems about it | |
| `SipWire`, `SipClient`, `SipListener`, `SipCall` | a lossy network, `SipCallClient`, the listener's transactions, the three together | `SipCall` composes |
| `OutboundProofs` | theorems about `DialFork`, the refinement among them, and about `SipCall` | |
| `Sdp`, `Renegotiation` | offer/answer as operators; later offers in the two dialogs of a call | `Renegotiation` extends `Sdp` |
| `RenegotiationProofs` | lemmas about the operators of `Sdp`, theorems about `Renegotiation` | |
| `MediaOwner` | the media sockets of one call | |
| `MediaOwnerProofs` | theorems about it | |
| `Registrar`, `Trunk`, `Registration` | the registrar and its observer, the trunk's clients, both over a network | `Registration` composes |
| `InboundRequestProofs` | theorems about `InboundCall` and about `Registration` | |
| `MC...` | small instances for TLC | |

Some definitions are marked *Variant of ...*: they are faulty versions of the
definition they stand next to (a dropped guard, a forgotten release). No action
uses them. They are there to be put in the place of the real one, to see that a
property notices; `PROJECT.json` lists which variant breaks which property.

Every module with a state has a type invariant (`...TypeOK`). Two are listed in
configurations; the others document what the variables hold, and were seen to hold on
the instances of section 3. Where section 4 has theorems about a module, the type
invariant is part of the inductive invariant that is proved.

### EndpointSession

`custody[i]` says who must close a leg or a resource: nobody yet (`free`), the
session (`session`) or an explicit cleanup path it was released to (`legacy`).
`stamp` is the insertion order, from which `ClosesBefore` derives the order of
`_run_termination` (stages at LEG and above, then legs, then the rest; newest
first within a stage). `barrier` is where the termination task is: `scheduled`
(created, not run yet), `joining` (in `gather`), `closing`, `done`. `task` is the
state of a task that is owned or that waits for `terminate()`. A closer ends in
success or in an exception, which the barrier treats alike.

Abstracted: diagnostics, timestamps, error texts. Watchers (tasks the session
owns) start terminations but never wait for the barrier; services do. This is the
assumption `SessionConstants` makes on purpose: where the code breaks it,
`RingGroup`, `ForwardCall` and `DirectCall` model what happens.

### InboundCall

`tx` and `expiry` are the listener's pending INVITE. `policy` is `on_invite`,
with the three routes that reach a card: `direct` (180), `early` (183 with early
media to collect digits) and `confirmed` (200 at once, digits by INFO). `router`
is the task that waits for the digits. `record`, `tomb`, `invite`, `closed` are the
registry. `phase[g]` is the session of generation `g`, whose barrier is one step
(`SessionCloses`). `where[m]` and `owner[m]` say who has an RTP reservation.
`tablet[t]` is one concurrent call of the answer service; `loop` keeps other
actions out between `AnswerStart` and the commit when the dialog was answered
before, where the code does not await.

Abstracted: caller and callee, the digits, SDP, video. A transport send that fails
is `sent = FALSE`. Left out: the router's Assist destination (1166-1223; its
failure never pops the call) and the forward an automation asks for. The router's
SIP destination is in `DirectCall`, the forward of a ringing call in `ForwardCall`.

### DialFork

`task[c]` is a dial task, `leg[c]` the dialog it works on; the far end answers,
fails or hangs up when it likes. `pc` is where `_run_candidates` awaits, `run`
where `run()` awaits beside it when there is a route control. `after` and
`toClose` are the close barrier. The deadline, the end of the call, the session's
termination and the cancellation of the whole fork come at any await.

### RingGroup

`pc` is where the flow's task is; the places in `InRun` have no await, so nothing
else acts there. `life`, `held`, `owned` are the session; `known`, `tomb`, `index`
the registry; `holder`, `claims` the endpoint registry; `leg`, `resv`, `pair`,
`used` the legs, their reservations and the pool; `relay` the audio relay. A bridge
is taken by one of three removers: the flow itself when the callee hangs up,
`_on_terminated`, and the hangup service; `taken[r]` is what `detach_bridge` gave
it. A member of the group that is neither phone nor browser is a contact that is
prepared and then refused (the caller's own, or one that another call claims
meanwhile); closing it is an await in the middle of the preparation; `late` are the
phones claimed after it for a call that was over. Other calls
take and return port pairs and claim shared phones.

Abstracted: groups called from a card (`_start_ring_group_from_ha`), video, the
announcement of states, the 500 of an unexpected exception, a 200 that the transport
refuses, `MAX_RING_GROUP_ATTEMPTS`, and what a reload drops of the registry when it has
shut the sessions down (`clear_runtime`, `endpoint_lifecycle.py` 166).

### ForwardCall

The source is a call a card holds: `pending` (its INVITE waits), perhaps with `pre`
media, or answered. `req[r]` is one call of the forward service: it joins the forward
that is running, decides on a destination, may hand a reroute to the offer that is
open, and starts the task. `pc` is where that task awaits; `leg`, `held`, `shed`,
`lost` are the far ends it dials and who must close them; `pair` and `relay` are the
media; `term` is `_on_terminated` and `hang` the hangup service. Two variables remember
what properties name: `overtaken`, that a group or Assist began while the end of the call
waited for another forward task; `deserted`, that a request was refused after it had
cancelled the forward. `route` goes over
`FirstRoutes` until a forward has run and over `LaterRoutes` after it; `Fresh` lets
only untouched far ends be dialled. A phone may answer in the tick after the caller has
left (`Answers`): the final response is refused then and the call is over.

Abstracted: video and DTMF; the home claim of a routing decision; the five seconds a
reroute's handoff waits (`softphone_forward.py` 73); the awaits of a phone's answer,
which are `InboundCall`'s; when no task runs the end of a caller is one step. The
policy on failure does not change in a run.

### DirectCall

Three kinds of calls share the endpoints, the phone's public state `store` and the
client index. `Bridged` calls come in and are sent to one SIP destination
(`_on_invite`, `_finish_bridge`). `Routed` calls come from the trunk and are
pre-answered; the digits name a SIP destination, and the router's task dials,
starts the relay and registers the bridge (`_run_trunk_inbound_route`). `Placed`
calls start at the phone, which first closes its old clients (`stale`, `cut`).
`pc` is the handler up to the first answer of the far end, `watch` the watcher after
it, `cancelled` its cancellation on the way. `pair` is the pair of ports of the bridge:
`stranded` when its only holder, the watcher, was cancelled before it gave it back; a
`late` relay is one that has started in the tick of that cancellation.

Abstracted: the phone is the default endpoint; the pool of pairs is not bounded; video;
the hangup service on a ringing bridged call; inbound calls at the phone (they are
`InboundCall`'s). `_termination_initiator` is not cancelled by its own barrier.

### Conference

`legs[r]` are the parties of room `r`; `mixer[r]` and `mixLeg[r]` its mixer and the
leg whose `leave` it awaits; `closing[r]` the close task. `pc[p]` is what a party is
doing, `leave[p]` the cleanup of its leg, `resv[p]` a phone reserved for a join,
`unannounced` the reserved phones that the join has left behind,
`port[p]` the port of a dialog's leg. `manager` is the unload. What is mixed, and
RTP itself, is data; a leg whose party is gone falls silent, and the mixer drops it
(`MixTimeout`). `Listeners` are the dialogs on hold or receive-only, whose silence the
mixer does not count.

### SipCall

`SipWire` keeps requests in order and lets responses overtake; both may be lost, and
repeated when their request is. `SipClient` has the two reading tasks (`inv`, `fin`),
the deferred CANCEL (`cancelReq`, `cancelSent`, `prov`), `terminate()` and `_close()`
with what they have seen. `SipListener` has the pending INVITE, the completed error, the
dialog with its unacknowledged 200, the last BYE. A proxy may challenge the first
INVITE (external). Timers may fire at any time, within the assumptions below.

Assumptions: requests keep order; no copy of an INVITE travels or is sent for the 32
seconds of a timer, nor across a user's hang-up (`Settled`); every flow that has left has
a cleanup. Messages of every kind may be lost, a BYE too, which either end sends once;
`byeLost` remembers that a BYE to the listener was. TCP and INFO are left out.

### Sdp and Renegotiation

`Sdp` holds the pure algorithms: directional negotiation of audio, the video formats,
holds, packet times, the compatibility of passthrough video. `Renegotiation` has the
two dialogs `left` and `right` of a call as `leg` (what this side holds) and `peer`
(what the other end holds), the responses and ACKs on the way, and the owner of the
media: a relay, a card, a pre-answered call, Assist, a call from a card. Prepare,
response and commit of one offer have no await between them, so `Handle` is one action.

Left out: `update_in_progress` (500), a failing commit and `media_unchanged` without a
handler, which need an await that is not there; the limit of 16 cached responses, not
reached in two offers; RTCP, `sprop`, feedback and keypad parameters. The owner does
not change in a run; peers retransmit until answered and ACK every copy of a 2xx.

### MediaOwner

A request is one HTTP handler that asks for the audio or the video of the call for one
browser document; `pc[r]` is where it awaits, from the view's checks over the handoff
to the end of its packet loop. `owner[ch]` is the owner of a channel, `pin` the
document of a SIP call's session, `lease` that of a local call. `gen`, `offer` and
`seen` are the re-INVITEs, `phase` the unload. The owner locks are never held across an
await, so what happens under them is one step; the identity lock is held by the request
in `handoff`.

### Registration

`Registrar` handles a REGISTER in one step (it has no await); `entry` is the account in
the config entry, `account` what the registrar knows of it, `listeners` the update
listeners that have yet to tell it, `endpoint` the phone's availability. The
registrations of the account come from one address, so they share the cached nonce;
the record of nonce uses only lets exact copies through, and cnonces are fresh. `Trunk`
has the clients: register, challenge, rest, refresh, unregister, closed. `Registration`
adds the network (`reliable` chooses TCP or UDP), the clock and the edits. One client
is another vendor's phone, which leaves with a wildcard. Unsigned REGISTERs that nobody
waits for are forgotten.

## 3. Runs

Passing runs (all explore their whole state space):

| run | instance | distinct states | properties |
|---|---|---|---|
| `session_barrier` | one leg, a relay (stage 30), a port reservation (10), two watchers, one service, 3 admissions | 252 k | `SessionTypeOK`, `TeardownOrder`, `NoCloseUnderRunningTask`, `BarrierHolds`, `ImplementsLifetime`, `TerminationCompletes` |
| `inbound_custody` | two cards, three reservations, all routes, sends that fail, 2 generations | 7 k | `InboundTypeOK`, `OneFinalResponse`, `PortsAccounted` |
| `fork_tiers` | two branches in a parallel tier, one in a sequential tier, with and without a control that cancels, reroutes, answers or declines | 457 k | `CancelledForkLeavesNothing`, `AnswerWins`, `KeepsPromise`, `ForkSettles` |
| `ring_call` | two phones with a refused contact between them, a browser; two port pairs; one phone shared with other calls | 191 k | `CustodyHolds`, `AnswerIsBridged`, `TeardownCompletes` |
| `forward_call` | two cards, two far ends, two requests, every destination, refused ones included, first or later, both policies | 676 k | `CallerEndLeavesNothing`, `CallerIsServed`, `EndGetsThrough` |
| `direct_call` | a bridged, a routed and two placed calls, two of them in one behaviour | 73 k | `NothingLeft`, `PhoneShowsItsCall`, `EndIsThrough` |
| `conference` | a caller, a dialled member and a phone in two rooms for two, one after the other; two callers, one of whom only listens, and a phone in one room | 288 k | `LegsAreServed`, `NobodyForgotten`, `RoomEnds` |
| `sip_call` | two requests in flight, messages of every kind may be lost | 1.9 M | `ConfirmedAgrees`, `EndsAtBothEnds` |
| `renegotiation` | first offers of every shape to every owner; calls with two later offers and one fault | 85 k | `ContractsAgree`, `VersionsIdentify`, `VideoPortsUsed`, `VideoStaysDecodable`, `OfferSettles` |
| `media_owner` | three requests, two documents, one accepted re-INVITE, one frame per queue | 1.2 M | `SocketsAreOwned`, `LiveEdge`, `ShutdownFinal`, `CallEndFreesMedia` |
| `registration` | a client, its successor, another vendor's phone; up to two faults, two edits whose listeners may overlap | 149 k | `BindingsBelong`, `ShownAsRegistered`, `SequenceHolds`, `RegistrationRecovers` |

One run shows the code at odds with what it documents: `direct_routed`
(`RoutedIsAnswered`, item 1 of section 6). Six configurations beside the runs do the same;
each checks the sentence without the exception that the passing run of the same module
names, and TLC finds it violated:

| configuration | module | property | section 6 |
|---|---|---|---|
| `MCForkBrowser.cfg` | `MCDialFork` | `FirstEndpointWins` | item 2 |
| `MCForwardRefused.cfg` | `MCForwardCall` | `ResumeRestores` | item 3 |
| `MCForwardLate.cfg` | `MCForwardCall` | `LateWinnersStayOut` | item 4 |
| `MCConferencePhones.cfg` | `MCConference` | `PhonesComeBack` | item 5 |
| `MCRingClaims.cfg` | `MCRingGroup` | `EndpointsReturn` | item 6 |
| `MCDirectPorts.cfg` | `MCDirectCall` | `PortsComeBack` | item 7 |

Other differences were shown in the same way while the models were made; they are
described in section 6 without a configuration of their own.

### What the properties say

* **Session.** `TeardownOrder`: media before legs, legs before ports, newest first.
  `NoCloseUnderRunningTask`: nothing is closed under a task the barrier joined.
  `BarrierHolds`: nobody gets past `terminate()` before the end. `ImplementsLifetime`:
  every step is one of `CallLifetime`.
* **Inbound.** `OneFinalResponse` to each INVITE, whoever answers, declines, cancels or
  expires. `PortsAccounted`: each reservation is in somebody's custody.
* **Fork.** `KeepsPromise` (it implements `ForkPromise`), `CancelledForkLeavesNothing`,
  `AnswerWins`: among the phones the first that answers wins, also when a control answers
  that nobody looks at; `ForkSettles` after the deadline. That a browser's answer wins,
  too (`FirstEndpointWins`), does not hold.
* **Ring group.** `CustodyHolds`: nothing is left when everybody is through but the claim
  of a phone that was prepared after the call was over (`late`; `EndpointsReturn` is the
  sentence without it), and the
  winner alone keeps something while the caller talks. `AnswerIsBridged`: 200 only for a
  live call over a running relay or browser media. `TeardownCompletes`: an ended call is
  torn down and a reload ends, except in `SelfJoin`.
* **Forward.** `CallerEndLeavesNothing`: when the caller has gone no dialog, relay, port
  or claim of the call is left, but for what `lost`, `orphan` and `overtaken` name.
  `CallerIsServed`: a live source call that nobody
  is working on rings at a phone, talks to one, or talks to Assist, unless a refused
  replacement has left it alone (`deserted`) or a cancelled group its offer (`stale`).
  `EndGetsThrough`. `ResumeRestores` and `LateWinnersStayOut` are two sentences of the
  documentation without these exceptions.
* **Direct.** `NothingLeft`: no dialog, client, bridge, relay, claim or pair of ports is
  left of a call that is through with, but for three losses, each named with the kind of
  call it may meet: a refused route's relay (`orphan`), a bridge's ports (`stranded`), and
  both in the tick in which the relay starts (`late`). `PhoneShowsItsCall`: late events of an old call do not
  overwrite the state of the phone's new one; `EndIsThrough`: whoever hangs up, the far
  end and the endpoints are released.
* **Conference.** `LegsAreServed`: never more legs than the limit, and a room with legs
  is mixed. `NobodyForgotten`: a port in use has a leg or a join, a phone that rings or is
  in has its room, and a phone that is reserved has the join that reserved it; but for the
  phones `unannounced` names, which nobody releases (`PhonesComeBack` does not hold).
  `RoomEnds`.
* **SIP.** `ConfirmedAgrees`: an acknowledged dialog of the listener is the client's, too,
  or a BYE is on its way or was lost. `EndsAtBothEnds`: when the client's flow is over, the
  listener comes to rest, with no pending INVITE and no error to repeat, and with no dialog
  but one whose BYE was lost.
* **Renegotiation.** `ContractsAgree`: audio, video and validity of what both ends agreed
  on; `VersionsIdentify`: one version of the o= line, one description; `VideoPortsUsed`:
  no video port is held without a stream that was answered with one; `VideoStaysDecodable` on a bridge; `OfferSettles`.
* **Media.** `SocketsAreOwned`: audio and video are in one document, which is the pinned or
  leased one. `LiveEdge`: no document hears what was queued for another. `ShutdownFinal`:
  nothing takes a channel behind an unload. `CallEndFreesMedia`.
* **Registration.** `BindingsBelong` to the account's current password. `ShownAsRegistered`:
  a phone that is shown available has a binding, and one that has a binding is taken
  offline only by the edit that overtakes a listener (item 16 of section 6). `SequenceHolds`: while
  a contact stays bound by one Call-ID, a late copy does not take it back (after a lapse, and
  for a wildcard, it may). `RegistrationRecovers`.

The exceptions some of them name (`SelfJoin`, `Orphan`, `Stuck`, `Revived`, `lost`, `late`,
`overtaken`, `deserted`, `stale`, `stranded`, `unannounced`, `byeLost`) are
states of the real code; without the exception TLC finds the behaviour that section 6
describes.

### Why the bounds are enough to see the interesting cases

* Session: three items of the three different stages are the least that have an
  order with something before and after the legs; two watchers and a service are
  an initiator, a task to be joined and a waiter to be cancelled. `MaxAdmissions`
  bounds `stamp`. The proofs cover the rest.
* Inbound: two cards race; a third only loses. A Call-ID is brought back once at
  most (`MaxGenerations` 2). The cards and the reservations they make are symmetric;
  the run has no temporal property.
* Fork: a parallel tier followed by a sequential one, with more than one branch in
  the first, exercises every path of both kinds of tier and the step between them.
* Ring group: two phones are a winner and a loser; `Pairs` has as many pairs as
  phones and `MaxForeign` lets other calls take them all, so that the preparation
  meets an empty pool. The refused contact stands between the phones, so that the call can
  end with one phone prepared and one to come.
* Forward: one forward and the one that replaces it. `FirstRoutes` has
  every destination, `LaterRoutes` every one but one: only a first forward, the one that selects the route of a
  trunk call, may ring the Home Assistant members of a group (`initial_selection`,
  `endpoint_runtime.py` 1897-1901), which `selection` is.
* Direct: `MaxCalls` 2 of the four calls; every pair that shares an endpoint or the
  client index is among the pairs.
* Conference: three kinds of party, one each, each once; `MaxLegs` 2 makes a full room,
  `MaxRooms` 2 a room that is made while the old one of the same name ends. A second
  caller, which is what finds a room in use with phones reserved anew, is in a second setup
  without the member and with one room still to be made (`Setups`): all parties together in
  two rooms are too many for TLC. The theorems hold for any setup.
* SIP: two requests in flight are an INVITE and its CANCEL, or a request and its copy;
  a third BYE does not differ from the second (`MaxByes`). `Losable` has every kind.
* Renegotiation: setups in which first offers vary have no later ones; setups with later
  offers have one or two first ones. Two offers of both peers together are an offer and
  one that meets its result; `MaxFaults` 1.
* Media: three requests are an owner, one that takes over, and one of the other channel
  or document. `MaxQueue` 1, `MaxUpdates` 1 and `MaxAnswers` 1: one frame may be stale,
  one re-INVITE may be accepted between two steps of a handler.
* Registration: each setup has what one story needs (faults, edits, refreshes); the
  four setups together have every pair of a client, its successor and a phone that the
  code treats differently. `MaxListeners` 2: two edits whose listeners overlap.

Deadlock is not checked: a call that has ended has no next step, and peers, browsers
and users owe the system nothing.

### Fairness

Weak fairness of what the loop runs when it is ready: a step of a task that is
not waiting, a closer that ends (every closer bounds its own I/O), the joins. Timers
that nobody cancels fire: the expiry of an INVITE, Timer B and the 32 s of an
unacknowledged 2xx, the time-out of `invite()` and `wait_for_final()`, the RTP time-out
of a silent conference leg that has to send (not one on hold or receive-only, which the code
exempts and `Listeners` are; `RoomEnds` asks nothing for those), the wait for a media
owner's release. Nothing is assumed of
far ends, callers, users, other calls or the dial plan's deadline: `ForkSettles` says
what follows *once* the deadline has passed.

* `SipCall` has fairness on delivering the head of the request queue and on timers, and
  none on losses. What is sent once may be lost for good, and the properties say so
  (`byeLost`).
* `Renegotiation` states the weak fairness of `Handle` as
  `[]<>~Waiting(s) \/ []<><<Handle(s)>>_vars`: `Waiting` is the enabling condition
  written out, because evaluating `ENABLED` of the negotiation takes TLC far too long
  (their equivalence was checked on the setups with Assist as the owner).
* `Registration`: the registrar handles what has arrived, a client reads, retransmits,
  gives up a dead transaction and refreshes; faults, edits and lapses are not fair.

## 4. Theorems

### EndpointSession, for every set of legs, resources, stages and tasks

`SessionInv` is the inductive invariant: the type invariant; `BarrierMatchesPhase`
(the barrier runs exactly when the call is terminating); `TaskBookkeeping` (what is
still owned once the barrier runs is being joined, and all of it is done when
closing starts); `ItemBookkeeping` (the session closes what it holds only behind
the joined tasks; after the barrier nothing is left); `TeardownOrder`;
`ClosedByItsOwner`. `TeardownOrder` alone is not inductive: that an item with an
older stamp is still open when a newer one starts to close depends on nothing
being admitted any more, which `BarrierMatchesPhase` gives.

* `SessionTyped`, `SessionInvariant`: the invariant holds in every behaviour.
* `TeardownIsOrdered`, `TasksEndFirst`, `BarrierIsComplete`: the safety properties of
  `session_barrier`; `OneOwnerCloses` and `TerminalStaysFinal`: what is released is
  closed by its new owner alone, and a terminal call takes and hands over nothing.
* `SessionImplementsLifetime`: every step is a step of `CallLifetime` or leaves it
  alone.

Assumption: `SessionConstants` (disjoint names, finite sets of items, stages from
`CleanupStage`, watchers are not awaiters).

### InboundCall, for any number of cards, reservations and generations

In `InboundRequestProofs`, with Registration below.

`InboundInv`: the type invariant; `NothingBeforePolicy` and `InviteFirst` (no
session and no router before the policy has decided, no policy without an INVITE,
which is why its `upsert` always finds a generation); `SeenIsSession`;
`WaitingHasNoFinal` (an INVITE that waits has had no final response: what makes
`OneFinalResponse` inductive); `PortsAccounted`, which is inductive together with
`SeenIsSession`, because no step but the end of a barrier takes a session out of
use (`SessionsStay`) and that step returns what the session owns.

* `InboundTyped`, `InboundInvariant`, `OneFinalOnly` (`OneFinalResponse`),
  `CustodyIsKept` (`PortsAccounted`).

Assumption: `InboundConstants`. The lemma `SmallestGeneration` takes the smallest
unused generation by the well-foundedness of inclusion on finite sets.

### DialFork, for any finite set of branches, tiers, orders and control outcomes

In `OutboundProofs`, with SipCall below.

`ForkInv`: `WinnerKnown` (a branch about to win has answered); `LegsCovered` (each close
barrier waits for every open leg but the winner's); `Untouched` (branches of later tiers
are idle and have no leg); `RunKnows` (what `run()`, which awaits the route control beside
the branches, may conclude from them); `NoneMissed` (before the deadline no answer of a
branch is passed over). `CancelledForkLeavesNothing` alone is not inductive: that a
cancelled fork closes everything depends on what each place of `_run_candidates` has in
its barrier, which is `LegsCovered`.

* `ForkInvariant`, `CancellationLeavesNothing` (`CancelledForkLeavesNothing`).
* `FirstAnswerWins` (`AnswerWins`): before the deadline a fork gives up only if no branch
  has answered, and commits to a branch only if every other one that has answered comes
  after it (`FollowsIn`). Nothing is supposed of the control's outcomes; what the property
  does not say is that an answer of the control itself wins (item 2 of section 6).
* `ForkKeepsPromise` (`KeepsPromise`): the initial states and every step of the
  controller are those of `ForkPromise`, or leave it alone.

Assumption: `ForkConstants` (tiers are counted from the first that is dialled; the
configured order tells branches apart). `Smallest`, from the well-foundedness of inclusion
on finite sets, gives the next tier and the first branch.

### RingGroup, for any group, pool and number of other calls

`RingInv` says for each place of the flow what it holds and who will clean up the rest:

* `CallInv`, `CallerInv`: the call is in the registry as long as its session lives or a
  reload has joined the flow; before the answer the caller has heard at most a refusal,
  and only a reload cancels the flow.
* `PlaceInv`, `BridgeInv`: there is nothing of a bridge before there is a winner; the bridge
  is in the index until *one* remover takes what hangs on it, and whatever a remover has
  taken it is still working at. This is the argument against two removers that tear at one
  bridge, or none.
* `LegInv`, `RelayInv`: an open leg has its ports, and every leg or relay that lives has
  somebody whose clean-up it waits for (`FlowHasLeg`, `Custody`), but for `Orphan`.
* `PoolInv`: the pool counts as used what other calls have and what this call holds, no ports
  twice. It needs that the preparation can choose distinct free ports for the phones it
  dials, which `SmallerFits` gives from the cardinalities.
* `TalkInv`: what is claimed, and that the winner alone is while the caller talks.
* `ClaimInv`: the session has every claim, except those of browsers that a call which is
  already over is still preparing, which the flow releases, and those in `late`.

* `RingInvariant`: `RingInv`, with `RingTypeOK`; `AnswersAreBridged`: `AnswerIsBridged`.
* `ClaimInvariant`: `ClaimInv`; `CustodyIsKept`: `CustodyHolds`. Both for a group in any
  order; the claims that item 6 of section 6 shows are the ones `late` names, and no others
  stay.

Assumption: `RingConstants` (a group lists its members once each; the pool is finite; no
endpoint has the name of a part of the call).

### Conference, for any parties, size of a room and number of rooms made

`ConferenceInv`: `RoomsAreMade` (a room not made yet is as it was); `ClosedRooms`
(a closed room has no legs but those its close task disposes of); `MixedRooms` (legs have
a mixer, and a mixer that closes has asked for the close); `RoomsAreFull`;
`PartiesArePlaced` (a party has a leg in one room at most, and is then neither on its way
in nor out); `DialogsEnd`; `PortsAreUsed`, `PhoneHasRoom` and `ReservationIsHeld`. That a port comes back
exactly once needs `PartiesArePlaced`: a leg is disposed of by its own cleanup or by the
close of its room, never both.

* `ConferenceInvariant`, `LegsStayServed` (`LegsAreServed`), `NobodyIsForgotten`
  (`NobodyForgotten`).

Assumption: `ConferenceConstants`. What is proved allows the deadlock `Stuck`, which is a
matter of liveness. `NobodyIsForgotten` is about the phones that are not `unannounced`; what
becomes of those is item 5 of section 6.

### MediaOwner, for any requests, documents, leases, re-INVITEs and queue length

`MediaInv`: `OneHandoff` (the identity lock); `NoSocketBeforeCall`; `HandoffIsOfDocument`
(while a request waits for a previous owner all owners are of its document, which is why
`SocketsAreOwned` survives the wait); `SocketsAreOwned`; `LiveEdge`;
`NoneBehindShutdown` (once the unload has listed the owners, nobody becomes one).

* `MediaInvariant`, `SocketsOwned` (`SocketsAreOwned`), `QueueIsLive` (`LiveEdge`),
  `ShutdownIsFinal` (`ShutdownFinal`).

Assumption: `MediaAssumption`.

### Registration, for any clients, contacts, passwords, faults, edits and listeners

`RegistrationInv`: `BindingsBelong`; `Shown` (one binding for a contact, a phone shown
available has one); `AccountIsKnown` (without an account no bindings; when no update
listener is left the registrar knows the entry's account).

* `RegistrationInvariant`, `BindingsOfTheAccount` (`BindingsBelong`), `PhoneIsShown`
  (`ShownAsRegistered`), `SequenceIsKept` (`SequenceHolds`).

Assumptions: `AccountMayBeMissing`, `RegistrationBounds`.

### SipCall, for any queues, numbers of BYEs and losses

`SipInv`, in parts:

* `QueueInv`: no INVITE is behind an ACK or a BYE, and none has a number that the client
  has not reached. It is why an ACK, once read, cannot be followed by a new INVITE.
* `WireInv`: what a message under way says of the listener: a 200 is of the transaction
  it serves, a BYE or its 200 means that the listener's dialog is over.
* `ClientInv`: which of the client's tasks can be where; a dialog outlives the forced end
  of its tasks in `close()` only with a BYE sent or lost, or gone at the listener.
* `ListenerInv`: an answered call has no INVITE pending, and either the listener's dialog
  is there or no INVITE can reach it any more (`NoMoreInvites`). Without it a repeated
  INVITE could open a second dialog behind the client's back.
* `Agreement` says what `ConfirmedAgrees` says, from the moment an ACK is on its way.

* `SipInvariant`: `SipInv` and `SipTypeOK`; `EndsAgree`: `ConfirmedAgrees`.

Assumptions: `WireConstants`, `ClientConstants`; `Losable` may be any set of kinds. Client
and listener send a BYE once, and neither has another way to learn of the end: the theorems
say that a dialog is out of step with the other end only if such a BYE was lost (`byeLost`).

### DirectCall, for any number of calls of each kind, any phone and endpoints

`CallProofs` also has these. They follow from `DirectInv`:

* `KindInv` and `FreshInv` say which places the three kinds of call go through, and what
  a call has before its INVITE leaves. What a phone that dials finds in the client index
  belongs to calls whose handlers are done.
* `KeepingInv` and `ClaimInv` let the session outlive the client, the bridge, the relay
  and the claims, so that its barrier finds them.
* `WatchInv`: a watcher that nobody has cancelled has its client, and a bridged one its
  bridge; whoever takes the client cancels the watcher in the same step. Once the caller
  has left, the call is not bridged any more, because an `invite()` that is still running
  finds the call closed.
* `FarInv` names for every dialog or INVITE at a far end who has still to close it: the
  handler, the watcher, a phone that clears old clients, the hangup service, the end by
  the caller, or the barrier with the client. The destination of a refused route has
  nobody (relay `orphan`, section 6).
* `PairInv` does the same for the ports of a bridge: the handler or the watcher has them, the
  relay uses them, they are free, or they are `stranded`, of which a bridged call alone is
  capable.
* `PrepareInv`, `DialledInv` and `ShownInv` relate a phone to its calls. It prepares one
  call at a time and shows none then; while a placed call has its client, the phone shows
  this call in the state that the handler or the watcher has reached; and while the phone
  shows a call, that call has its client or somebody has still to tell the phone.

`DirectInvariant` is that invariant; `NothingIsLeft` (`NothingLeft`) and `PhoneIsRight`
(`PhoneShowsItsCall`) follow. TLC confirmed the invariant for two and for three calls
before it was proved. `NothingLeft` needs `FarInv` through every step that hands a client
over; `PhoneShowsItsCall` needs that a hangup, a watcher or an old client of another call
cannot overwrite the store (`Shown`), which holds because the call that the phone shows is
active. Assumption: `DirectConstants`.

### Renegotiation, for any descriptions, capabilities, owners, offers and faults

First come lemmas about the operators of `Sdp`, for all their inputs. Every choice there is
"the first that passes", which `FirstSuch` and `FirstOf` define by a minimum (`LeastOne`,
from the well-foundedness of the naturals, says that there is one). With it:

* `AudioIs`, `VideoIs` (which section a description is read by), `SectionsIs` (an answer has
  the sections of the offer, in order), `AnswerIs` (its audio under the offer's number);
* `AudioRead`, `StreamIs`, `DialogVideoIs`, `DialogAudioAlike`: what each negotiation
  returns was offered, under which number and within which limit;
* `AnswerToRight`, `LocalAnswerRight`, `CallerAnswerRight`, `DialogRight`: every answer that
  Home Assistant makes, and everything that it makes of an answer, is read alike by both ends
  and passes the client's own validation. `SourceIs`: a bridge that is set up passes frames on
  that can be decoded in both directions.

`AllInv` is the inductive invariant; TLC confirmed it before it was proved.

* `DialogInv`: a peer has one request open, and its number is the highest; responses under
  way are remembered ones, one for each number; a copy of a request arrives only after its
  original was answered. This is why a late copy is never taken for a new offer.
* `VersionInv` extends `VersionsIdentify` to the responses under way and to those that are
  remembered, and relates the newest version to the current answer. Without it a lost 200
  followed by a changed description could show the peer one version twice.
* `AgreeInv`: from the moment an offer is committed until its 200 arrives, the two ends hold
  different contracts. `ContractsAgree` looks away then (`Settled`); the invariant says that
  Home Assistant's contract fits the offer and the answer that the peer *will* hold.
* `OfferInv` ties what the owner offered to the invitation it holds while it waits for the
  callee; `RelayInv` the callee's half of a bridge to the callee's contract, against which
  the caller's later offers are judged; `PortInv` the port to the answer.

* `Invariant`: `AllInv`; `ContractsHold` (`ContractsAgree`), `VersionsHold`
  (`VersionsIdentify`), `PortsHold` (`VideoPortsUsed`), `DecodableHolds`
  (`VideoStaysDecodable`).

Assumption: `RenegotiationConstants`, that descriptions are as a parser leaves them (sections
with all their attributes; a payload number names one format, as the `rtpmap` is a dictionary)
and local formats have a frame length. Its last line says that the audio of an own offer is a
description with a packet time. That is a fact about the local formats (one of them can be
carried in RTP) and about a sort: `SetToSortSeq` picks a bijection, whose existence is proved
by induction on the set. TLC evaluates all of it on the instance.

### ForwardCall, for any phones, far ends, requests and destinations

`IInv` in `ForwardProofs` is the inductive invariant; TLC confirmed it before it was proved.
Next to the types it says that what has overtaken the end of the call did so while that end
was on its way (`Overtaken`), and that until then the parts of `Coherent` hold:

* `RequestInv`: the claim `claimed` is the task's or one deciding request's, never both. It
  is why a task that starts finds no other one.
* `PlaceInv`: what each await of the task is about. Its last line speaks of an end of the
  call that has joined the task it cancelled and has not gone on yet, while a request has
  started another one: unless that one has overtaken the end, it is a dial of the peer.
* `BridgeInv`, `RelayInv`, `OfferInv`: the registry knows a bridge exactly as long as the
  task is at a place that has one and the session lives; a relay that runs has an index
  entry, a task, or an end of the call that stops it; and the place of the task says where
  the ports of the source are. Ports in the hands of the task (`pair = "forward"`) come
  back at every place where it can be cancelled.
* `LegInv`: every open leg is one of the task (`TaskLegs`, by its place), one that is being
  shed, or a known loss (section 6).
* `EndInv`: once the end of the call has taken what the registry holds, nothing comes back.
  `CallerEndLeavesNothing` alone is not inductive: a task that dials still while the call
  ends leaves nothing only because it finds the call `closed` when the far end answers,
  and because no phone can revive a call whose source is over.
* `ServedInv`: as long as nobody has ended the call, the source rings at a phone, talks,
  or is worked on by the task or a request, or is `deserted` or has a `stale` offer. It is
  what `Resumes` restores.

* `ForwardInvariant`, `ForwardTyped`; `NothingIsLeft` (`CallerEndLeavesNothing`);
  `CallerStaysServed` (`CallerIsServed`).

Assumptions: `ForwardConstants` (phones, far ends and the names of the media have no name in
common). Requests, first or later, may go anywhere, a refused destination included; only the
group with Home Assistant members is left to a first one, as in the code. A later forward to a group or to
Assist can begin after the end of the call has joined the task it cancelled and before it
goes on (item 4 of section 6): `_on_terminated` does not look for it, and it starts a relay
for a call that is over. Nothing but the types is claimed of a call once that has happened
(`overtaken`); a peer dialled in the same place does no harm, which is proved.

### Only model-checked

All liveness (`TerminationCompletes`, `ForkSettles`, `TeardownCompletes`, `EndsAtBothEnds`,
`CallEndFreesMedia`, `EndGetsThrough`, `EndIsThrough`, `RoomEnds`, `OfferSettles`,
`RegistrationRecovers`): the prover has no rule for fairness and `ENABLED`. Every safety
property that a passing run checks is a theorem. Facts by induction over data (what a recursive function computes for every input)
are out of its reach as well; what `Renegotiation` needs of the sort in `OfferFormats` is an
assumption for that reason.

## 5. Reading the models beside the code

`PROJECT.json` maps each definition to the lines it stands for. The names follow
the code where TLA+ allows it (`FinishAndPop` is `finish_and_pop`, `OnTerminated`
is `_on_terminated`, `CloseLeg` is `async_close_outbound_leg`). An action's comment
says which await it starts from. A helper that the code calls in several places is
one operator with primed variables, used by all of them. Where a function that several
modules need does something different for each (the end of a call in `_on_terminated`),
each module has the part that concerns it.

## 6. Where the code and its documentation differ

### Shown by a run or a configuration

1. **A routed trunk call is never answered** (`direct_routed`). With digits sent as RTP
   telephone-events the trunk call is only pre-answered with 183
   (`endpoint_runtime.py` 5044-5050). When they name a SIP destination the router bridges
   it (1366-1502) without the 200 it sends for Assist (1191-1198); the INVITE's expiry
   ends the call. `docs/CALL_FLOWS.md:219` and `docs/ARCHITECTURE.md:292` say that HA
   answers the trunk leg and bridges it.

2. **A browser in a mixed group answers** (`MCForkBrowser.cfg`; `dial_fork.py` 452). Its answer
   comes through the route control; `run()` looks among the finished controls for two
   outcomes, and "answered" is neither. The fork goes on, and when the phones fail the group
   fails after the answer. `docs/GROUPS.md:17`: "The first endpoint that answers wins."
3. **A replacement that is refused** (`MCForwardRefused.cfg`; `endpoint_runtime.py` 1569). The
   forward that rings is cancelled and joined before its successor's destination is looked
   at; when that is refused, nothing is restored and nobody rings, although `on_failure` is
   `resume`. `docs/CALL_FLOWS.md:275`: the failure "restores HA ringing exactly once."
4. **A forward behind the end of the call** (`MCForwardLate.cfg`; `endpoint_runtime.py` 2232).
   The caller leaves while a forward runs; `_on_terminated` cancels it and waits for it
   (6500-6502). After that and before `_on_terminated` goes on, a second request finds no
   task and starts one, to a group; nobody looks for it, and when a member answers its
   bridge is registered without `expected_generation`, which revives the session. With
   Assist it is a relay that nobody stops. `docs/ARCHITECTURE.md:105`: late dial winners
   "cannot resurrect the call"; the docstring of `register_bridge` (`call_registry.py` 1192)
   says the same.
5. **Phones reserved for a room in use** (`MCConferencePhones.cfg`; `conference.py` 188). Only the
   first join announces the reserved phones, and only announced ones are released; a later
   join leaves them busy for ever. The comment at 794 says that they are released.
6. **A claim that stays** (`MCRingClaims.cfg`; `endpoint_runtime.py` 3076). Closing a refused
   member awaits in the middle of `_prepare_candidates`. If the call ends there, a phone that
   is prepared afterwards is claimed for a call without a session, and nothing releases the
   claim (`docs/RELEASE_2026_8_0.md:195`).
7. **Ports of a bridge whose caller leaves** (`MCDirectPorts.cfg`; `endpoint_runtime.py` 5957). The
   watcher of a bridge that rings has the ports of the bridge in a local variable and awaits
   the final answer outside of any `try`. When the caller leaves there, the watcher is
   cancelled, and nobody returns the pair (`media_ports.py:22`: "must be released or
   detached").

### Met while modelling, each shown by TLC at the time

Each of these is part of the model where it is named; the property that showed it is
not checked any more, or names it as its exception.

8. **Hangup with early media** (`softphone_termination.py` 240): a card that hangs up a
   call whose digits were collected over early media sends a BYE although no dialog
   exists; the INVITE gets no final response before its expiry
   (`docs/CALL_FLOWS.md:39`).
9. **CANCEL during the inbound policy** (`sip_listener.py` 1348): the end is reported once
   before the policy publishes the call and once after; the second is dropped as a
   duplicate, so the card rings for an ended call (comment at 1344).
10. **Hangup during digit collection** (`endpoint_runtime.py` 1016): the router looks at
   `trunk_closed_calls`, which a local hangup does not set, and publishes the call again
   (`docs/ARCHITECTURE.md:105`).
11. **Two cards answer** (`softphone_answer.py` 371): the loser ends the winner's session,
   the dialog stays open (`docs/reference.md:159`).
12. **The callee hangs up** (`session_cleanup.py` 101): the flow is the bridge's watcher,
   and awaits a cleanup that runs in its own task, cancels the watcher and awaits it. The
   shielded wait absorbs the cancellation, so the flow waits for the cleanup and the
   cleanup for the flow; the caller gets no BYE until it hangs up itself, a reload waits
   for ever (`docs/CALL_FLOWS.md:173`). The same code is in the ring group, the forward
   flow and the direct bridge (`endpoint_runtime.py` 2333, 4126, 6162); it is `SelfJoin`
   in `RingGroup` and the place `selfjoin` in the other two.
13. **A relay that fails to start** (`endpoint_runtime.py` 3951): the relay and the winner's
   leg both return the pair, with an await between; a call that was given the pair in
   between loses it (comment at `sip_rtp_bridge.py` 524).
14. **Other calls' clients** (`outbound_lifecycle.py` 276): a phone that dials closes the
   clients of every call whose session names no endpoint, bridged and routed ones included,
   though the docstring (268) speaks of its own stale clients.
15. **A video stream taken out of a bridge** (`media_renegotiation.py` 508): the check of a
   bridged re-offer runs only if the new offer has video, so the left side may remove it
   and gets 200 while the relay goes on; the right side refuses (`endpoint_runtime.py` 317;
   `docs/CALL_FLOWS.md:124`).
16. **Overlapping edits of an account**: two edits (disable, enable) whose update listeners
   overlap, as `config_entry_runtime` awaits between the two halves, leave a registered
   phone shown offline (comment at `phone_config.py` 518). `ShownAsRegistered` says that
   nothing else does: a bound phone is taken offline only when the entry has no account
   while another listener has yet to end.
17. **A socket that attaches late** (`video_ws_view.py` 301, `audio_ws_view.py` 457): the
   session is resolved before awaits and registered after them; a re-INVITE accepted in
   between leaves the socket on the previous media.

### Without a line of documentation to hold against them

* **Routed calls**: the router does not look at the caller again once the digits are in,
  so a call whose caller has left is revived in a new session, its destination talks to
  nobody (`Revived`); no watcher is attached, so the destination's hang-up of a routed
  bridge goes unnoticed; `register_bridge` that raises because the session is terminating
  returns the ports under a running relay and leaves the client open (relay `orphan`); a
  route that fails sends a BYE but never pops the session; the BYE of an early-media call
  has no dialog, so its INVITE waits for the expiry.
* **Reload** in the tick in which `relay.start()` ends leaves a running relay in nobody's
  hands (`Orphan` in `RingGroup`, `orphan` in `ForwardCall`, `late` in `DirectCall`, where a
  caller that leaves in that tick does the same).
* **Inbound**: a final response that the transport refuses leaves the INVITE pending
  without its expiry timer (`sip_listener.py` 1449): only a retransmission, a CANCEL or
  another service call concludes it.
* **Ring group**: a hangup by service while `relay.start()` awaits is answered with 200
  and then BYE.
* **Forward**: a cancellation while dial tasks are joined (2139) or losing legs closed
  (2159) loses the winner or the attempts with their ports, and leaves the offer to the
  phones open (`lost`, `stale`); the hangup service on a connected forwarded call sends no
  BYE to its source; a failed or cancelled `relay.start()` returns the pre-answered pair
  while `preanswered` still holds it.
* **Direct**: an entry of `trunk_closed_calls` may be left after an exception.
* **Conference**: `_close` (388-390) cancels and joins the mixer while the mixer awaits a
  `leave` whose cleanup awaits the same close, or the close itself from its `finally`
  (512-516): the room never finishes (`Stuck`). `leave_call` (969) and a failing join take
  the room out by its name without looking whether it is theirs. A caller that CANCELs
  during the bind stays as a leg until the RTP time-out. A room that the manager closes
  sends its callers no BYE, and its members ring on for up to 45 s. A phone rung by an old
  room may join the new one and be idled by the old one's close.
* **SIP**: `terminate()` ignores a provisional, so a CANCEL deferred after an invite
  time-out is never sent (`sip_client.py` 2159); `_received_provisional` stays set after
  the authenticated retry; an ACK forgets a completed INVITE at once, so a copy delayed
  beyond it would start a call nobody made; `_handle_dialog_media_request` may arm the 2xx
  task after the close.
* **Renegotiation**: the caller of a bridged H264 call whose callee answered a lower level
  gets 488 when it repeats its offer or resumes from a hold (`docs/CALL_FLOWS.md:121`); a
  call from a browser refuses that video is added or removed (`softphone_originate.py`
  562, `docs/CALL_FLOWS.md:124`); a re-offer of the left side while the right one holds is
  answered one-way and never offered again (`README.md:369` of the repository); a caller
  whose video the bridge rejected gets 488 for every later offer of it; a hold of the
  right side with `inactive` and a change of level on the left make the right's resume
  refused for ever.
* **Media**: a claim refused because of a shutdown has already moved the pin or the lease;
  the audio port may be bound after the call's reservation was released.
* **Registration**: a late copy of a REGISTER whose binding has lapsed adds it again
  (`sip_registrar.py` 612), a late wildcard drops newer bindings; `stop()` during the first
  REGISTER sends no unregister; an old client's late unregister removes its successor's
  binding until the next refresh; `_registration_expires` takes the lifetime of the last
  contact listed.

## 7. Not modelled

* **Pure I/O and data**: text of SIP and SDP, RTP, RTCP, codecs, transcoding, mixing, the
  packet loops of the two views: no protocol state, covered by unit tests.
* **Routing, dial plan, phonebook**: pure functions from configuration to candidates; the
  flows take their results as constants or choices.
* **TCP servers and the bounded writer queue** (`sip_tcp_io.py`), INFO, OPTIONS, MESSAGE,
  the trunk's queue of inbound requests.
* **Local calls' ringing** (`local_softphone_bridge.py`, `call_deadlines.py`): one timer
  that an answer cancels; only the media of a local call are modelled.
* **Groups called from a card** (`_start_ring_group_from_ha`), the router's Assist
  destination, voice intents.
* **Eviction**: the registry forgets tombstones after 512 calls and `trunk_closed_calls`
  arbitrary members (`endpoint_runtime.py` 6506); neither bound is reached in two calls.
* **Home Assistant surface, browser card, ESPHome components**: presentation, user
  interface, C++ audio (the VoIP component of the devices is not in this repository).

## 8. Plan

Done: the modules of section 2 and the proofs of section 4.

Next: local calls with their deadlines, and the bounded TCP queue between the SIP
client and the listener.

## 9. Running the checks

    tlc -workers 2 -config MCRingGroup.cfg MCRingGroup
    tlc -workers 2 -config MCDirectRouted.cfg MCDirectCall
    tlapm CallProofs.tla
    tlapm InboundRequestProofs.tla       # and the other ...Proofs modules
