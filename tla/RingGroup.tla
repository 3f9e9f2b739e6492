----------------------------- MODULE RingGroup -----------------------------
(***************************************************************************)
(* A call to a ring group (endpoint_runtime.py, _run_ring_group_call): the *)
(* members are prepared and claimed, the dial fork runs, the winner is     *)
(* bridged to the caller through an RTP relay, and a hangup of either side *)
(* tears the bridge down.  Around the task that runs the group: the        *)
(* caller's CANCEL or BYE (_on_terminated), a hangup service call and the  *)
(* callee's BYE (async_terminate_sip_bridge), the cleanup barrier of the   *)
(* call's session, and the reload of the SIP endpoint.                     *)
(*                                                                         *)
(* The session is taken at its interface, CallLifetime (EndpointSession    *)
(* implements it), the fork at ForkPromise (DialFork implements it).       *)
(* asyncio is cooperative: the places in InRun are not awaits, and nothing *)
(* else runs while the task is at one of them.                             *)
(***************************************************************************)
EXTENDS Naturals, FiniteSets, Sequences, Functions

CONSTANTS
    Group,        \* the members of the group, in order, without repetition
    Phones,       \* members dialled over SIP
    Browsers,     \* members that are Home Assistant softphones
    Pairs,        \* the RTP port pairs of the relay pool
    NoPair,
    Nobody,
    Shared,       \* endpoints that other calls use, too
    MaxForeign    \* bound on the pairs that other calls hold

\* A member that is neither has a contact that is prepared and then refused:
\* it is the caller's own, or another call holds it; closing it is an await.
ASSUME RingConstants ==
    /\ Group \in Seq(Range(Group)) /\ IsInjective(Group)
    /\ Phones \cap Browsers = {}
    /\ Phones \cup Browsers \subseteq Range(Group)
    /\ (Phones \cup Browsers) \cap {"route", "bridge", "client", "relay", "watcher", "media"} = {}
    /\ IsFiniteSet(Pairs) /\ NoPair \notin Pairs /\ Nobody \notin Phones \cup Browsers
    /\ Shared \subseteq Phones \cup Browsers
    /\ MaxForeign \in Nat

Endpoints == Phones \cup Browsers
Removers == {"flow", "source", "service"}
Media == {"relay", "client"}

VARIABLES
    life,      \* session of the call: "live", "closing", "gone"
    held,      \* what that session must close
    owned,     \* the flow as a task of the session: "no", "yes", "cancelled"
    known,     \* CallRegistry.sessions has the call
    tomb,      \* the call is in terminated_call_ids
    index,     \* the other CallRegistry indexes that name the call
    holder,    \* [Endpoints -> active_call_id: "free", "call", "other"]
    claims,    \* endpoint_claims of the call
    late,      \* history: the phones claimed when the call was over
    leg,       \* [Phones -> "none", "open", "ended" (BYE received), "closed"]
    resv,      \* [Phones -> RtpPortReservation: "none", "held", "over"]
    pair,      \* [Phones -> the ports of that reservation]
    used,      \* pairs marked used in the pool
    foreign,   \* pairs that other calls were given and still use
    relay,     \* "none", "starting", "running", "stopped"
    pc,        \* where the flow is
    next,      \* the next member to prepare
    refused,   \* some member was busy
    winner,    \* the member that won the fork
    aborting,  \* the flow is in its CancelledError handler
    cancelled, \* task.cancel() was called on the flow and not delivered yet
    spared,    \* the winner's leg is left out of the fork's cleanup
    removing,  \* [Removers -> "idle", "cleaning", "ended"]
    taken,     \* [Removers -> what detach_bridge gave them to clean up]
    caller,    \* "ringing", "talking", "refused", "cancelled", "hungup", "bye"
    reload     \* "no", "stopping" (joins the flow), "stopped"

session == <<life, held, owned>>
registry == <<known, tomb, index>>
endpoints == <<holder, claims, late>>
legs == <<leg, resv, pair>>
media == <<legs, used, relay>>
flow == <<pc, next, refused, winner, aborting, cancelled, spared>>
removal == <<removing, taken>>
ringVars == <<session, registry, endpoints, media, foreign, flow, removal, caller, reload>>

Places == {"prepare", "reject", "prepared", "unprepare", "fork", "won", "video",
           "bridging", "unwin", "start", "unrelay", "talk", "hangup", "abort",
           "cleanup", "unbridge", "unfork", "done", "handed"}

\* The places without an await: nothing else runs.
InRun == pc \in {"prepare", "prepared", "won", "bridging", "abort", "cleanup"}

Over == pc \in {"done", "handed"}

SessionTyped ==
    /\ life \in {"live", "closing", "gone"}
    /\ held \subseteq Endpoints \cup Media \cup {"media"}
    /\ owned \in {"no", "yes", "cancelled"}

RegistryTyped ==
    /\ known \in BOOLEAN /\ tomb \in BOOLEAN
    /\ index \subseteq {"route", "bridge", "client", "relay", "watcher", "media"}
    /\ caller \in {"ringing", "talking", "refused", "cancelled", "hungup", "bye"}
    /\ reload \in {"no", "stopping", "stopped"}

EndpointsTyped ==
    /\ holder \in [Endpoints -> {"free", "call", "other"}]
    /\ claims \subseteq Endpoints /\ late \subseteq Phones

MediaTyped ==
    /\ leg \in [Phones -> {"none", "open", "ended", "closed"}]
    /\ resv \in [Phones -> {"none", "held", "over"}]
    /\ pair \in [Phones -> Pairs \cup {NoPair}]
    /\ used \subseteq Pairs /\ foreign \subseteq Pairs
    /\ relay \in {"none", "starting", "running", "stopped"}

FlowTyped ==
    /\ pc \in Places /\ winner \in Phones \cup {Nobody}
    /\ refused \in BOOLEAN /\ aborting \in BOOLEAN
    /\ cancelled \in BOOLEAN /\ spared \in BOOLEAN

RemovalTyped ==
    /\ removing \in [Removers -> {"idle", "cleaning", "ended"}]
    /\ taken \in [Removers -> SUBSET (Media \cup {"watcher", "join"})]

RingTypeOK ==
    /\ SessionTyped /\ RegistryTyped /\ EndpointsTyped /\ MediaTyped
    /\ FlowTyped /\ RemovalTyped /\ next \in 1..(Len(Group) + 1)

RingInit ==
    /\ life = "live" /\ held = {} /\ owned = "no"
    /\ known = TRUE /\ tomb = FALSE /\ index = {}
    /\ holder \in {h \in [Endpoints -> {"free", "other"}] :
                      \A e \in Endpoints \ Shared : h[e] = "free"}
    /\ claims = {} /\ late = {}
    /\ leg = [p \in Phones |-> "none"]
    /\ resv = [p \in Phones |-> "none"]
    /\ pair = [p \in Phones |-> NoPair]
    /\ foreign \in {f \in SUBSET Pairs : Cardinality(f) <= MaxForeign}
    /\ used = foreign /\ relay = "none"
    /\ pc = "prepare" /\ next = 1 /\ refused = FALSE /\ winner = Nobody
    /\ aborting = FALSE /\ cancelled = FALSE /\ spared = FALSE
    /\ removing = [r \in Removers |-> "idle"]
    /\ taken = [r \in Removers |-> {}]
    /\ caller = "ringing" /\ reload = "no"

-----------------------------------------------------------------------------
(* What the registry and the session do when asked *)

\* is_generation_current
Current == known /\ ~tomb

\* own_resource, observe_leg: refused once the session is not live.
Owning(things) == IF known /\ life = "live" THEN held \cup things ELSE held

\* release_resource, release_leg: likewise.
Disowning(things) == IF known /\ life = "live" THEN held \ things ELSE held

\* release_call: only the matching call is cleared.
Freed(es) ==
    [e \in Endpoints |->
        IF e \in es \cap claims /\ holder[e] = "call" THEN "free" ELSE holder[e]]

ReleaseClaims(es) ==
    /\ holder' = Freed(es)
    /\ claims' = claims \ es
    /\ UNCHANGED late

\* finish_and_pop: the call is remembered as terminated, its session asked to
\* terminate, and the record dropped with the bridge and the pending route.
FinishAndPop(gone) ==
    /\ tomb' = TRUE
    /\ known' = FALSE
    /\ index' = index \ ({"bridge", "route"} \cup gone)
    /\ life' = IF known /\ life = "live" THEN "closing" ELSE life

\* What detach_bridge hands to its caller.
Detached == IF "bridge" \in index THEN index \cap {"relay", "client", "watcher"} ELSE {}

\* A client close leaves the reservation alone.
CloseClient(p) == leg' = [leg EXCEPT ![p] = "closed"]

\* relay.stop: the pair goes back to the pool once.
StopRelay ==
    /\ relay' = "stopped"
    /\ used' = IF relay \in {"starting", "running"} THEN used \ {pair[winner]} ELSE used

\* Variant of CloseLeg: the reservation is forgotten.
CloseLegOnly(p) == CloseClient(p) /\ UNCHANGED <<resv, used, pair>>

\* async_close_outbound_leg: the client, then the reservation if it is still held.
CloseLeg(p) ==
    /\ CloseClient(p)
    /\ resv' = [resv EXCEPT ![p] = "over"]
    /\ used' = IF resv[p] = "held" THEN used \ {pair[p]} ELSE used
    /\ UNCHANGED pair

\* Variant of CancelFlow: the task is awaited, not cancelled.
LeaveFlow == UNCHANGED cancelled

\* task.cancel() of a task that may be done.
CancelFlow == cancelled' = (cancelled \/ ~Over)

-----------------------------------------------------------------------------
(* Preparing the members *)

\* The contact of this member is refused, which takes an await.
Refused(c) == c <= Len(Group) /\ Group[c] \notin Endpoints

\* How far the preparation may come before it awaits or ends.
Reach == {c \in next..(Len(Group) + 1) : \A i \in next..(c - 1) : ~Refused(i)}

\* _prepare_outbound_leg for each of these phones: a pair, and a client on it.
PreparesLegs(dial, ports) ==
    /\ leg' = [p \in Phones |-> IF p \in dial THEN "open" ELSE leg[p]]
    /\ resv' = [p \in Phones |-> IF p \in dial THEN "held" ELSE resv[p]]
    /\ pair' = [p \in Phones |-> IF p \in dial THEN ports[p] ELSE pair[p]]
    /\ used' = used \cup {ports[p] : p \in dial}

\* _prepare_candidates up to its next await: endpoints in other calls are
\* failures, the rest is claimed; a phone that has a contact gets a client and
\* a port pair.  Without a pair for it the preparation ends there.
Prepare ==
    /\ pc = "prepare"
    /\ \E c \in Reach :
        LET run == {Group[i] : i \in next..(c - 1)}
            busy == {e \in run : holder[e] = "other"}
        IN
        \E dial \in SUBSET ((run \cap Phones) \ busy) :
            LET mine == dial \cup ((run \cap Browsers) \ busy)
                ports == CHOOSE f \in Injection(dial, Pairs \ used) : TRUE
                exhausted == Cardinality(dial) = Cardinality(Pairs \ used)
            IN
            /\ Cardinality(dial) <= Cardinality(Pairs \ used)
            /\ c <= Len(Group) /\ ~Refused(c) =>
                   Group[c] \in Phones /\ holder[Group[c]] # "other" /\ exhausted
            /\ holder' = [e \in Endpoints |-> IF e \in mine THEN "call" ELSE holder[e]]
            /\ claims' = claims \cup mine
            /\ late' = IF Current THEN late ELSE late \cup dial
            /\ held' = Owning(mine)
            /\ PreparesLegs(dial, ports)
            /\ refused' = (refused \/ busy # {})
            /\ IF Refused(c)
               THEN pc' = "reject" /\ next' = c + 1
               ELSE pc' = "prepared" /\ next' = Len(Group) + 1
    /\ UNCHANGED <<life, owned, registry, foreign, relay, winner, aborting,
                   cancelled, spared, removal, caller, reload>>

\* _settle_browser_candidates, nobody kept.
SettleBrowsers ==
    /\ ReleaseClaims(Browsers)
    /\ held' = Disowning(Browsers)

RejectClosed ==
    /\ pc = "reject"
    /\ IF cancelled
       THEN pc' = "unprepare" /\ SettleBrowsers
       ELSE pc' = "prepare" /\ UNCHANGED <<held, endpoints>>
    /\ aborting' = cancelled
    /\ cancelled' = FALSE
    /\ UNCHANGED <<life, owned, registry, media, foreign, next, refused, winner,
                   spared, removal, caller, reload>>

StalePrepared ==
    /\ pc = "prepared"
    /\ ~Current
    /\ SettleBrowsers
    /\ pc' = "unprepare"
    /\ UNCHANGED <<life, owned, registry, media, foreign, next, refused, winner,
                   aborting, cancelled, spared, removal, caller, reload>>

Dialable == (\E p \in Phones : leg[p] # "none") \/ claims \cap Browsers # {} \/ refused

\* _sip_send_final_response with a failure: only while the INVITE is pending.
Refuse == caller' = IF caller = "ringing" THEN "refused" ELSE caller

NobodyToDial ==
    /\ pc = "prepared"
    /\ Current
    /\ ~Dialable
    /\ Refuse
    /\ FinishAndPop({})
    /\ pc' = "done"
    /\ UNCHANGED <<held, owned, endpoints, media, foreign, next, refused, winner,
                   aborting, cancelled, spared, removal, reload>>

\* The session of a call that is current is live (SessionOutlivesCall), so the
\* upsert between these points does not raise.
ForkStarts ==
    /\ pc = "prepared"
    /\ Current
    /\ Dialable
    /\ index' = index \cup {"route"}
    /\ pc' = "fork"
    /\ UNCHANGED <<session, known, tomb, endpoints, media, foreign, next, refused,
                   winner, aborting, cancelled, spared, removal, caller, reload>>

UnprepareLeg(p) ==
    /\ pc = "unprepare"
    /\ leg[p] = "open"
    /\ CloseLeg(p)
    /\ UNCHANGED <<session, registry, endpoints, relay, foreign, flow, removal,
                   caller, reload>>

\* A cancellation that came while the legs were closed is raised at the end.
UnprepareEnds ==
    /\ pc = "unprepare"
    /\ \A p \in Phones : leg[p] # "open"
    /\ IF aborting /\ ~cancelled
       THEN FinishAndPop({})
       ELSE UNCHANGED <<registry, life>>
    /\ pc' = IF cancelled /\ ~aborting THEN "unprepare" ELSE "done"
    /\ aborting' = (aborting \/ cancelled)
    /\ cancelled' = FALSE
    /\ UNCHANGED <<held, owned, endpoints, media, foreign, next, refused, winner,
                   spared, removal, caller, reload>>

-----------------------------------------------------------------------------
(* The fork: what ForkPromise says of it, and what the group makes of it *)

ForkClosesLeg(p) ==
    /\ pc = "fork"
    /\ leg[p] = "open"
    /\ CloseLeg(p)
    /\ UNCHANGED <<session, registry, endpoints, relay, foreign, flow, removal,
                   caller, reload>>

OpenLegs == {p \in Phones : leg[p] = "open"}

\* The fork returns a winner when every other leg is closed.
AloneOpen(p) == OpenLegs = {p}

\* ForkPromise!Win
ForkWins(p) ==
    /\ pc = "fork" /\ ~cancelled
    /\ AloneOpen(p)
    /\ Current
    /\ winner' = p
    /\ pc' = "won"
    /\ UNCHANGED <<session, registry, endpoints, media, foreign, next, refused,
                   aborting, cancelled, spared, removal, caller, reload>>

ForkLost == pc = "fork" /\ ~cancelled /\ OpenLegs = {}

ForkFails ==
    /\ ForkLost
    /\ Current
    /\ ReleaseClaims(Endpoints)
    /\ held' = Disowning(Endpoints)
    /\ Refuse
    /\ FinishAndPop({})
    /\ pc' = "done"
    /\ UNCHANGED <<owned, media, foreign, next, refused, winner, aborting,
                   cancelled, spared, removal, reload>>

\* A browser user redirects the call; the new route goes on from here.
ForkReroutes ==
    /\ ForkLost
    /\ Current
    /\ claims \cap Browsers # {}
    /\ ReleaseClaims(Endpoints)
    /\ held' = Disowning(Endpoints)
    /\ index' = index \ {"route"}
    /\ pc' = "handed"
    /\ UNCHANGED <<life, owned, known, tomb, media, foreign, next, refused, winner,
                   aborting, cancelled, spared, removal, caller, reload>>

\* Without branches to dial, the browsers' answer is what the fork waits for.
ForkBrowserAnswers(b) ==
    /\ ForkLost
    /\ Current
    /\ b \in claims
    /\ ~refused /\ \A p \in Phones : leg[p] = "none"
    /\ ReleaseClaims(Endpoints \ {b})
    /\ held' = Disowning(Endpoints \ {b}) \cup {"media"}
    /\ index' = (index \ {"route"}) \cup {"media"}
    /\ caller' = "talking"
    /\ pc' = "done"
    /\ UNCHANGED <<life, owned, known, tomb, media, foreign, next, refused, winner,
                   aborting, cancelled, spared, removal, reload>>

\* _abort_stale_ring_group
ForkStale ==
    /\ ForkLost
    /\ ~Current
    /\ SettleBrowsers
    /\ pc' = "cleanup"
    /\ UNCHANGED <<life, owned, registry, media, foreign, next, refused, winner,
                   aborting, cancelled, spared, removal, caller, reload>>

-----------------------------------------------------------------------------
(* The winner is bridged *)

Won ==
    /\ pc = "won"
    /\ ReleaseClaims(Endpoints \ {winner})
    /\ held' = Disowning(Endpoints \ {winner})
    /\ index' = index \ {"route"}
    /\ pc' \in {"bridging", "video"}
    /\ UNCHANGED <<life, owned, known, tomb, media, foreign, next, refused, winner,
                   aborting, cancelled, spared, removal, caller, reload>>

\* The winner took the audio but not the video: its video relay is stopped.
VideoStopped ==
    /\ pc = "video" /\ ~cancelled
    /\ pc' = "bridging"
    /\ UNCHANGED <<session, registry, endpoints, media, foreign, next, refused,
                   winner, aborting, cancelled, spared, removal, caller, reload>>

\* register_bridge, guarded by the generation; the relay is built and started.
Bridge ==
    /\ pc = "bridging"
    /\ IF Current
       THEN /\ index' = index \cup {"bridge", "client"}
            /\ held' = Owning({"client"})
            /\ relay' = "starting"
            /\ pc' = "start"
       ELSE /\ pc' = "unwin"
            /\ UNCHANGED <<index, held, relay>>
    /\ UNCHANGED <<life, owned, known, tomb, endpoints, legs, used, foreign, next,
                   refused, winner, aborting, cancelled, spared, removal, caller,
                   reload>>

WinnerClosed ==
    /\ pc = "unwin"
    /\ CloseLeg(winner)
    /\ pc' = IF cancelled THEN "abort" ELSE "done"
    /\ UNCHANGED <<session, registry, endpoints, relay, foreign, next, refused,
                   winner, aborting, cancelled, spared, removal, caller, reload>>

RelayStarts ==
    /\ relay = "starting"
    /\ relay' = "running"
    /\ UNCHANGED <<session, registry, endpoints, legs, used, foreign, flow, removal,
                   caller, reload>>

\* A port that cannot be bound; the relay gives its pair back by itself.
RelayFails ==
    /\ relay = "starting"
    /\ StopRelay
    /\ UNCHANGED <<session, registry, endpoints, legs, foreign, flow, removal,
                   caller, reload>>

\* Variant of RelayReady: the start is not awaited.
RelayAsked == relay \in {"starting", "running"}

RelayReady == relay = "running"

\* The ports now belong to the relay; the call is committed, the relay and the
\* flow, as watcher of the callee's dialog, are handed to the session, and the
\* caller gets its 200 OK.
Answer ==
    /\ pc = "start" /\ ~cancelled
    /\ RelayReady
    /\ Current /\ caller = "ringing"
    /\ resv' = [resv EXCEPT ![winner] = "over"]
    /\ index' = index \cup {"relay", "watcher"}
    /\ held' = Owning({"relay"})
    /\ owned' = IF life = "live" THEN "yes" ELSE owned
    /\ caller' = "talking"
    /\ pc' = "talk"
    /\ UNCHANGED <<life, known, tomb, endpoints, leg, pair, used, relay, foreign, next,
                   refused, winner, aborting, cancelled, spared, removal, reload>>

StaleStart ==
    /\ pc = "start" /\ ~cancelled
    /\ relay = "running"
    /\ ~Current
    /\ pc' = "unrelay"
    /\ UNCHANGED <<session, registry, endpoints, media, foreign, next, refused,
                   winner, aborting, cancelled, spared, removal, caller, reload>>

\* 488, discard_bridge_session, and the winner's leg is closed.
StartFailed ==
    /\ pc = "start" /\ ~cancelled
    /\ relay = "stopped"
    /\ Refuse
    /\ held' = IF "client" \in index THEN Disowning({"client"}) ELSE held
    /\ FinishAndPop({"client"})
    /\ pc' = "unwin"
    /\ UNCHANGED <<owned, endpoints, media, foreign, next, refused, winner,
                   aborting, cancelled, spared, removal, reload>>

RelayUndone ==
    /\ pc = "unrelay"
    /\ StopRelay
    /\ pc' = IF cancelled THEN "abort" ELSE "cleanup"
    /\ UNCHANGED <<session, registry, endpoints, legs, foreign, next, refused,
                   winner, aborting, cancelled, spared, removal, caller, reload>>

-----------------------------------------------------------------------------
(* Taking the bridge out of the registry, and tearing it down *)

\* detach_bridge: remover r now has to clean up what the bridge held.
TakeBridge(r) ==
    /\ taken' = [taken EXCEPT ![r] = Detached]
    /\ index' = index \ (Detached \cup {"bridge", "media"})
    /\ held' = Disowning((Detached \cap Media) \cup {"media"})
    /\ owned' = IF "watcher" \in Detached /\ known /\ life = "live" THEN "no" ELSE owned

\* The callee's BYE reaches the flow, which terminates the bridge; it awaits
\* the cleanup, so its own place is "hangup".
DialogOver ==
    /\ pc = "talk" /\ ~cancelled
    /\ leg[winner] \in {"ended", "closed"}
    /\ IF "bridge" \in index
       THEN /\ TakeBridge("flow")
            /\ removing' = [removing EXCEPT !["flow"] = "cleaning"]
            /\ pc' = "hangup"
       ELSE /\ pc' = "done"
            /\ index' = index \ {"watcher"}
            /\ owned' = "no"
            /\ UNCHANGED <<removal, held>>
    /\ UNCHANGED <<life, known, tomb, endpoints, media, foreign, next, refused, winner,
                   aborting, cancelled, spared, caller, reload>>

\* The caller's CANCEL or BYE, or its INVITE expires after 60 s.
CallerLeaves ==
    \/ caller = "ringing" /\ caller' \in {"cancelled", "refused"}
    \/ caller = "talking" /\ caller' = "hungup"

\* _on_terminated: only the first to claim the termination tears down.
SourceEnds ==
    /\ CallerLeaves
    /\ IF tomb
       THEN UNCHANGED <<session, registry, removal>>
       ELSE IF "bridge" \in index
       THEN /\ tomb' = TRUE
            /\ TakeBridge("source")
            /\ removing' = [removing EXCEPT !["source"] = "cleaning"]
            /\ UNCHANGED <<life, known>>
       ELSE /\ FinishAndPop({"media"})
            /\ held' = Disowning({"media"})
            /\ UNCHANGED <<owned, removal>>
    /\ UNCHANGED <<endpoints, media, foreign, flow, reload>>

\* A hangup service call for this call.
ServiceHangup ==
    /\ "bridge" \in index
    /\ TakeBridge("service")
    /\ removing' = [removing EXCEPT !["service"] = "cleaning"]
    /\ UNCHANGED <<life, known, tomb, endpoints, media, foreign, flow, caller, reload>>

\* relay_first, or the relay last.
CleanupOrder(r) ==
    IF r = "source" THEN <<"watcher", "join", "client", "relay">>
                    ELSE <<"relay", "watcher", "join", "client">>

\* x is what remover r has to clean up now.
Due(r, x) ==
    /\ removing[r] = "cleaning"
    /\ x \in taken[r]
    /\ \A i, j \in 1..4 : CleanupOrder(r)[i] = x /\ j < i => CleanupOrder(r)[j] \notin taken[r]

RemoverCancels(r) ==
    /\ Due(r, "watcher")
    /\ CancelFlow
    /\ taken' = [taken EXCEPT ![r] = (@ \ {"watcher"}) \cup {"join"}]
    /\ UNCHANGED <<session, registry, endpoints, media, foreign, pc, next, refused,
                   winner, aborting, spared, removing, caller, reload>>

RemoverJoins(r) ==
    /\ Due(r, "join")
    /\ Over
    /\ taken' = [taken EXCEPT ![r] = @ \ {"join"}]
    /\ UNCHANGED <<session, registry, endpoints, media, foreign, flow, removing,
                   caller, reload>>

RemoverStopsRelay(r) ==
    /\ Due(r, "relay")
    /\ StopRelay
    /\ taken' = [taken EXCEPT ![r] = @ \ {"relay"}]
    /\ UNCHANGED <<session, registry, endpoints, legs, foreign, flow, removing,
                   caller, reload>>

RemoverClosesClient(r) ==
    /\ Due(r, "client")
    /\ CloseClient(winner)
    /\ taken' = [taken EXCEPT ![r] = @ \ {"client"}]
    /\ UNCHANGED <<session, registry, endpoints, resv, pair, used, relay, foreign,
                   flow, removing, caller, reload>>

\* Afterwards: BYE to the caller, unless the caller ended the call.
ByeToCaller(r) ==
    caller' = IF r # "source" /\ caller = "talking" THEN "bye" ELSE caller

RemoverEnds(r) ==
    /\ removing[r] = "cleaning" /\ taken[r] = {}
    /\ removing' = [removing EXCEPT ![r] = "ended"]
    /\ ByeToCaller(r)
    /\ FinishAndPop(IF r = "flow" THEN {"watcher"} ELSE {})
    /\ IF r = "flow"
       THEN owned' = "no" /\ pc' = IF cancelled THEN "abort" ELSE "done"
       ELSE UNCHANGED <<owned, pc>>
    /\ UNCHANGED <<held, endpoints, media, foreign, next, refused, winner,
                   aborting, cancelled, spared, taken, reload>>

-----------------------------------------------------------------------------
(* The flow is cancelled, or finds that its call is over *)

\* A relay that is still starting is stopped with its starter; one that has
\* just started is nobody's.
FlowCancelled ==
    /\ cancelled
    /\ \/ pc = "fork" /\ Cardinality(OpenLegs) <= 1
       \/ pc \in {"video", "start", "talk"}
    /\ IF pc = "start" /\ relay = "starting" THEN StopRelay ELSE UNCHANGED <<used, relay>>
    /\ pc' = "abort"
    /\ UNCHANGED <<session, registry, endpoints, legs, foreign, next, refused, winner,
                   aborting, cancelled, spared, removal, caller, reload>>

Abort ==
    /\ pc = "abort"
    /\ SettleBrowsers
    /\ aborting' = TRUE
    /\ cancelled' = FALSE
    /\ pc' = "cleanup"
    /\ UNCHANGED <<life, owned, registry, media, foreign, next, refused, winner,
                   spared, removal, caller, reload>>

\* _cleanup_ring_resources; the winner's leg is left out if the bridge had it.
Cleanup ==
    /\ pc = "cleanup"
    /\ taken' = [taken EXCEPT !["flow"] = Detached \cap Media]
    /\ index' = index \ (Detached \cup {"bridge", "route"})
    /\ held' = Disowning(Detached \cap Media)
    /\ owned' = IF "watcher" \in Detached /\ known /\ life = "live" THEN "no" ELSE owned
    /\ spared' = ("client" \in Detached)
    /\ pc' = IF Detached \cap Media = {} THEN "unfork" ELSE "unbridge"
    /\ UNCHANGED <<life, known, tomb, endpoints, media, foreign, next, refused, winner,
                   aborting, cancelled, removing, caller, reload>>

FlowStopsRelay ==
    /\ pc = "unbridge" /\ "relay" \in taken["flow"]
    /\ StopRelay
    /\ taken' = [taken EXCEPT !["flow"] = @ \ {"relay"}]
    /\ UNCHANGED <<session, registry, endpoints, legs, foreign, flow, removing,
                   caller, reload>>

FlowClosesClient ==
    /\ pc = "unbridge" /\ taken["flow"] = {"client"}
    /\ CloseClient(winner)
    /\ taken' = [taken EXCEPT !["flow"] = {}]
    /\ UNCHANGED <<session, registry, endpoints, resv, pair, used, relay, foreign,
                   flow, removing, caller, reload>>

\* A cancellation that came during an await of the cleanup: the handler
\* cleans up once more, unless it is the handler that was cancelled.
Interrupted ==
    /\ pc' = IF aborting THEN "done" ELSE "abort"
    /\ index' = IF aborting THEN index \ {"watcher"} ELSE index
    /\ owned' = IF aborting THEN "no" ELSE owned
    /\ UNCHANGED <<life, known, tomb>>

UnbridgeEnds ==
    /\ pc = "unbridge" /\ taken["flow"] = {}
    /\ IF cancelled
       THEN Interrupted
       ELSE pc' = "unfork" /\ UNCHANGED <<life, owned, registry>>
    /\ UNCHANGED <<held, endpoints, media, foreign, next, refused, winner, aborting,
                   cancelled, spared, removal, caller, reload>>

\* What _cleanup_outbound_attempts has still to close.
Unreleased ==
    {p \in Phones \ (IF spared THEN {winner} ELSE {}) :
        leg[p] \in {"open", "ended"} \/ resv[p] = "held"}

UnforkLeg(p) ==
    /\ pc = "unfork"
    /\ p \in Unreleased
    /\ CloseLeg(p)
    /\ UNCHANGED <<session, registry, endpoints, relay, foreign, flow, removal,
                   caller, reload>>

UnforkEnds ==
    /\ pc = "unfork"
    /\ Unreleased = {}
    /\ IF cancelled
       THEN Interrupted /\ UNCHANGED held
       ELSE /\ FinishAndPop({"media", "watcher"})
            /\ held' = Disowning({"media"})
            /\ owned' = "no"
            /\ pc' = "done"
    /\ UNCHANGED <<endpoints, media, foreign, next, refused, winner, aborting,
                   cancelled, spared, removal, caller, reload>>

-----------------------------------------------------------------------------
(* The cleanup barrier of the session, at its interface (CallLifetime) *)

BarrierCancels ==
    /\ life = "closing"
    /\ owned = "yes"
    /\ owned' = "cancelled"
    /\ cancelled' = TRUE
    /\ UNCHANGED <<life, held, registry, endpoints, media, foreign, pc, next, refused,
                   winner, aborting, spared, removal, caller, reload>>

\* Its tasks joined, the session closes the media, the legs, the rest.
MayClose(x) ==
    /\ life = "closing" /\ owned = "no"
    /\ x \in held
    /\ x # "relay" => "relay" \notin held
    /\ x \notin Media => "client" \notin held

BarrierCloses(x) ==
    /\ MayClose(x)
    /\ held' = held \ {x}
    /\ index' = index \ {x}
    /\ IF x \in Endpoints THEN ReleaseClaims({x}) ELSE UNCHANGED endpoints
    /\ IF x = "client" THEN CloseClient(winner) ELSE UNCHANGED leg
    /\ IF x = "relay" THEN StopRelay ELSE UNCHANGED <<used, relay>>
    /\ UNCHANGED <<life, owned, known, tomb, resv, pair, foreign, flow, removal,
                   caller, reload>>

BarrierEnds ==
    /\ life = "closing" /\ owned = "no" /\ held = {}
    /\ life' = "gone"
    /\ UNCHANGED <<held, owned, registry, endpoints, media, foreign, flow, removal,
                   caller, reload>>

-----------------------------------------------------------------------------
(* The reload of the SIP endpoint, and what goes on around the call *)

\* async_stop_sip_endpoint: 503 or BYE to the caller, and the runtime tasks,
\* the flow among them, are cancelled and gathered.
ReloadStarts ==
    /\ reload = "no"
    /\ reload' = "stopping"
    /\ caller' = CASE caller = "ringing" -> "refused"
                   [] caller = "talking" -> "bye"
                   [] OTHER -> caller
    /\ CancelFlow
    /\ UNCHANGED <<session, registry, endpoints, media, foreign, pc, next, refused,
                   winner, aborting, spared, removal>>

\* The PBX runtime shuts down every session.
ReloadJoined ==
    /\ reload = "stopping"
    /\ Over
    /\ reload' = "stopped"
    /\ life' = IF life = "live" THEN "closing" ELSE life
    /\ UNCHANGED <<held, owned, registry, endpoints, media, foreign, flow, removal,
                   caller>>

PeerEnds ==
    /\ winner # Nobody /\ pc \notin {"won", "bridging"}
    /\ leg[winner] = "open"
    /\ leg' = [leg EXCEPT ![winner] = "ended"]
    /\ UNCHANGED <<session, registry, endpoints, resv, pair, used, relay, foreign, flow,
                   removal, caller, reload>>

\* Other calls come and go; the state of a physical phone, once idle, clears
\* whatever claim there is (sync_transport_call).
EndpointMoves(e) ==
    /\ \/ holder[e] = "free" /\ holder' = [holder EXCEPT ![e] = "other"]
       \/ holder[e] = "other" /\ holder' = [holder EXCEPT ![e] = "free"]
       \/ e \in Phones /\ holder[e] = "call" /\ holder' = [holder EXCEPT ![e] = "free"]
    /\ UNCHANGED <<session, registry, claims, late, media, foreign, flow, removal, caller,
                   reload>>

ForeignTakes(q) ==
    /\ q \notin used
    /\ Cardinality(foreign) < MaxForeign
    /\ used' = used \cup {q}
    /\ foreign' = foreign \cup {q}
    /\ UNCHANGED <<session, registry, endpoints, legs, relay, flow, removal, caller,
                   reload>>

ForeignReturns(q) ==
    /\ q \in foreign
    /\ used' = used \ {q}
    /\ foreign' = foreign \ {q}
    /\ UNCHANGED <<session, registry, endpoints, legs, relay, flow, removal, caller,
                   reload>>

-----------------------------------------------------------------------------

FlowStep ==
    \/ Prepare \/ RejectClosed \/ StalePrepared \/ NobodyToDial \/ ForkStarts
    \/ \E p \in Phones : UnprepareLeg(p) \/ ForkClosesLeg(p) \/ ForkWins(p) \/ UnforkLeg(p)
    \/ UnprepareEnds \/ ForkFails \/ ForkReroutes \/ ForkStale
    \/ \E b \in Browsers : ForkBrowserAnswers(b)
    \/ Won \/ VideoStopped \/ Bridge \/ WinnerClosed
    \/ Answer \/ StaleStart \/ StartFailed \/ RelayUndone
    \/ DialogOver \/ FlowCancelled \/ Abort \/ Cleanup
    \/ FlowStopsRelay \/ FlowClosesClient \/ UnbridgeEnds \/ UnforkEnds

RelayStep == RelayStarts \/ RelayFails

RemoverStep(r) ==
    \/ RemoverCancels(r) \/ RemoverJoins(r)
    \/ RemoverStopsRelay(r) \/ RemoverClosesClient(r)
    \/ RemoverEnds(r)

BarrierStep ==
    BarrierCancels \/ BarrierEnds \/ \E x \in held : BarrierCloses(x)

Surroundings ==
    \/ SourceEnds \/ ServiceHangup
    \/ ReloadStarts \/ ReloadJoined
    \/ PeerEnds
    \/ \E e \in Shared : EndpointMoves(e)
    \/ \E q \in Pairs : ForeignTakes(q) \/ ForeignReturns(q)

RingNext ==
    \/ FlowStep
    \/ /\ ~InRun
       /\ \/ RelayStep
          \/ \E r \in Removers : RemoverStep(r)
          \/ BarrierStep
          \/ Surroundings

RingSpec == RingInit /\ [][RingNext]_ringVars

\* The event loop runs every task that is ready; an INVITE that is not
\* answered expires; nobody has to hang up.
InviteExpires == SourceEnds /\ caller' = "refused"

RingFairness ==
    /\ WF_ringVars(FlowStep)
    /\ WF_ringVars(~InRun /\ RelayStep)
    /\ \A r \in Removers : WF_ringVars(~InRun /\ RemoverStep(r))
    /\ WF_ringVars(~InRun /\ BarrierStep)
    /\ WF_ringVars(~InRun /\ ReloadJoined)
    /\ WF_ringVars(~InRun /\ InviteExpires)

FairRingSpec == RingSpec /\ RingFairness

-----------------------------------------------------------------------------
(* Properties *)

\* The flow waits in a cleanup that waits for the flow.
SelfJoin == pc = "hangup" /\ Due("flow", "join")

Settled ==
    /\ Over /\ life = "gone"
    /\ \A r \in Removers : removing[r] # "cleaning"

\* A relay that had just started when a reload cancelled the flow: nobody's.
Orphan == relay = "running" /\ reload # "no" /\ caller \in {"refused", "cancelled"}

\* When everybody is through with a call it has left nothing behind: no open
\* leg, no endpoint claim, no index entry, no port pair, no relay; but for the
\* relay whose start ends in the tick in which a reload cancels the flow, and the
\* claim of a phone that was prepared when the call was over, which no session releases.
NothingLeft ==
    Settled =>
        /\ \A p \in Phones : leg[p] \in {"none", "closed"}
        /\ claims \subseteq late /\ \A e \in Endpoints \ late : holder[e] # "call"
        /\ index = {}
        /\ relay \in {"none", "stopped"} \/ Orphan
        /\ used \subseteq foreign \cup (IF Orphan THEN {pair[winner]} ELSE {})

\* What the release notes say: the cleanup of a call is followed by its endpoints being idle.
EndpointsReturn == Settled => \A e \in Endpoints : holder[e] # "call"

\* While the caller talks, the winner alone keeps an endpoint and a leg.
OnlyWinnerKept ==
    caller = "talking" =>
        /\ Cardinality(claims) <= 1
        /\ \A p \in Phones \ {winner} : leg[p] \in {"none", "closed"}

\* What a ring group takes for its members is given back: to the winner's call while
\* it lasts, and then to nobody.
CustodyHolds == NothingLeft /\ OnlyWinnerKept

\* The caller hears 200 OK only for a call that nobody terminated, over a
\* relay that runs on ports of its own, or from a browser with media.
AnswerIsBridged ==
    [][caller # "talking" /\ caller' = "talking" =>
        /\ Current
        /\ \/ relay = "running" /\ pair[winner] \in used \ foreign
           \/ "media" \in index']_ringVars

\* A call that was terminated is torn down to the end, whoever else tears at
\* it, except when the flow waits for itself.
EndedCallIsTornDown ==
    tomb ~> ((Settled /\ caller \notin {"ringing", "talking"}) \/ SelfJoin)

\* Likewise a reload of the endpoint.
ReloadCompletes == (reload = "stopping") ~> (reload = "stopped" \/ SelfJoin)

\* Whatever ends a call, or the endpoint, is carried through.
TeardownCompletes == EndedCallIsTornDown /\ ReloadCompletes

=============================================================================
