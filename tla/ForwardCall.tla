---------------------------- MODULE ForwardCall ----------------------------
(***************************************************************************)
(* A call that a Home Assistant phone holds, unanswered, and that is sent  *)
(* on: _async_forward_existing_call and _run_forward of                    *)
(* endpoint_runtime.py, with the ends that race them: the caller           *)
(* (_on_terminated) and the hangup service.                                *)
(*                                                                         *)
(* The source call is a pending INVITE, perhaps with early media or        *)
(* answered already for the trunk (pre).  A request resolves its           *)
(* destination and starts the forward task, whose place pc is where it     *)
(* awaits.  A forward that already rings may be replaced: its task is      *)
(* cancelled and joined first.                                             *)
(*                                                                         *)
(* The legs are SIP clients of Members; a forward to one peer uses the leg *)
(* Peer.  The session is taken at CallLifetime: once it closes, its        *)
(* barrier cancels and joins the task it owns and closes what it owns.     *)
(***************************************************************************)
EXTENDS FiniteSets, Naturals

CONSTANTS
    Cards,          \* the Home Assistant phones
    Home,           \* the one that rings at first
    Members,        \* far ends that a forward may dial
    Peer,           \* the one that a forward to a single destination dials
    Requests,       \* calls of voip_stack.forward
    FirstRoutes,    \* where a first forward may go
    LaterRoutes,    \* where one may go once a forward task has run
    Policies,       \* on_failure
    Nobody

Routes == {"peer", "phone", "group", "selection", "assist", "refused"}

ASSUME ForwardConstants ==
    /\ Home \in Cards /\ Peer \in Members /\ Nobody \notin Cards \cup Members
    /\ Cards \cap Members = {} /\ "assist" \notin Members \cup {Nobody}
    /\ FirstRoutes \subseteq Routes /\ LaterRoutes \subseteq Routes \ {"selection"}
    /\ Policies \subseteq {"resume", "terminate"}

VARIABLES
    source,     \* the source dialog: "ringing", "up", "over"
    pending,    \* the call is in pending_invites
    pre,        \* the call has pre-answered media
    state,      \* the public state of the call
    owner,      \* who has the routing of the call
    home,       \* the phone the session names
    session,    \* "live", "closing", "joining", "gone"
    tomb,       \* begin_termination or finish_and_pop has remembered the call
    closed,     \* the call is in trunk_closed_calls
    claims,     \* phones claimed for the call
    claimed,    \* forward_claims
    req,        \* where each request is
    pc,         \* where the forward task awaits
    cancelled,  \* the task's cancellation is on its way
    route, policy,
    winner,     \* the leg or phone that answered
    offer,      \* the future of the pending route of ringing phones
    picked,     \* the phone that resolved it
    leg, held,  \* state of each leg; legs that hold a port pair of their own
    pair,       \* who holds the pair of the source side
    relay, index, watcher,
    shed,       \* losing legs whose closing nobody waits for
    lost,       \* legs whose task was cancelled while it closed the losers
    overtaken,  \* a group or Assist began while the end of the call waited for another task
    deserted,   \* a request was refused after it had cancelled the forward of the call
    term, hang  \* the ends by the caller and by the hangup service

callVars == <<source, pending, pre, state, owner, home, session, tomb, closed>>
offerVars == <<offer, picked, claims>>
taskVars == <<pc, cancelled, route, policy, winner>>
legVars == <<leg, held, shed, lost>>
mediaVars == <<pair, relay, index, watcher>>
pastVars == <<overtaken, deserted>>
vars == <<callVars, offerVars, claimed, req, taskVars, legVars, mediaVars, pastVars, term, hang>>

-----------------------------------------------------------------------------
(* What the handlers share. *)

ForwardInit ==
    /\ pending = TRUE /\ state = "ringing" /\ owner = "ha_softphone" /\ home = Home
    /\ pre \in BOOLEAN /\ source \in IF pre THEN {"ringing", "up"} ELSE {"ringing"}
    /\ pair = IF pre THEN "pre" ELSE "free"
    /\ session = "live" /\ tomb = FALSE /\ closed = FALSE /\ claims = {Home}
    /\ claimed = FALSE /\ req = [r \in Requests |-> "idle"]
    /\ pc = "none" /\ cancelled = FALSE /\ route = "refused" /\ policy \in Policies
    /\ winner = Nobody /\ offer = "none" /\ picked = Nobody
    /\ leg = [m \in Members |-> "none"] /\ held = {} /\ shed = {} /\ lost = {}
    /\ relay = "none" /\ index = Nobody /\ watcher = FALSE
    /\ term = "no" /\ hang = "no" /\ overtaken = FALSE /\ deserted = FALSE

\* Who cancelled the task and waits for it goes on when it has ended, also
\* when another forward has begun in between.
TaskJoined == pc = "none" \/ ~cancelled

\* The finally of _run_forward, and the watcher's done callback.
TaskEnds ==
    /\ pc' = "none" /\ cancelled' = FALSE /\ claimed' = FALSE /\ watcher' = FALSE
    /\ UNCHANGED <<route, policy, winner>>

\* release() of the forward's own reservation, no matter what came before.
OwnReleased == IF pair = "forward" THEN "free" ELSE pair

\* upsert(): a call that has ended comes back in a new generation.
Upserted == session' = "live"

\* finish_and_pop()
FinishAndPop == session' = IF session = "live" THEN "closing" ELSE session

\* The final response or the BYE that the source call is owed.
SourceTold == source' = "over"

Resumes == policy = "resume" /\ ~closed

RestoreOrTerminate ==
    \/ /\ Resumes
       /\ IF session = "live" /\ owner \in {"router", "bridge", "assist"}
          THEN owner' = "ha_softphone" /\ state' = "ringing"
          ELSE UNCHANGED <<owner, state>>
       /\ pair' = OwnReleased
       /\ UNCHANGED <<source, pending, pre, session, tomb>>
    \/ /\ ~Resumes
       /\ pending' = FALSE /\ pre' = FALSE /\ pair' = IF pre THEN "free" ELSE OwnReleased
       /\ SourceTold /\ owner' = "terminal" /\ state' = "idle"
       /\ FinishAndPop /\ tomb' = TRUE

\* An exception before there is a client to close.
FailsNow ==
    /\ RestoreOrTerminate /\ TaskEnds
    /\ UNCHANGED <<home, closed, relay, index>>

\* An exception once there is one: the bridge is taken out of the registry and
\* the client's closing is awaited.
FailsClosing ==
    /\ pc' = "failing" /\ index' = Nobody /\ watcher' = FALSE /\ pair' = OwnReleased
    /\ UNCHANGED <<callVars, claimed, cancelled, route, policy, winner>>

-----------------------------------------------------------------------------
(* The service call, up to the start of the task. *)

AlreadyForwarded(r) ==
    req' = [req EXCEPT ![r] = "done"] /\ UNCHANGED <<claimed, cancelled>>

MayReplace == state = "remote_ringing"

Free == ~claimed

Ask(r) ==
    \/ /\ pc # "none" /\ ~MayReplace /\ AlreadyForwarded(r)
    \/ /\ pc # "none" /\ MayReplace
       /\ cancelled' = TRUE /\ req' = [req EXCEPT ![r] = "joining"] /\ UNCHANGED claimed
    \/ /\ pc = "none" /\ ~Free /\ AlreadyForwarded(r)
    \/ /\ pc = "none" /\ Free
       /\ claimed' = TRUE /\ req' = [req EXCEPT ![r] = "deciding"] /\ UNCHANGED cancelled

Forward(r) ==
    /\ req[r] = "idle" /\ pending /\ offer \in {"none", "handed"} /\ Ask(r)
    /\ UNCHANGED <<callVars, offerVars, pc, route, policy, winner, legVars, mediaVars, pastVars, term, hang>>

\* softphone_forward.py: the phones of a group that rings are asked first, and
\* the forward waits until the group has let go of the call.
Reroute(r) ==
    /\ req[r] = "idle" /\ offer = "open"
    /\ offer' = "reroute" /\ req' = [req EXCEPT ![r] = "handoff"]
    /\ UNCHANGED <<callVars, picked, claims, claimed, taskVars, legVars, mediaVars, pastVars, term, hang>>

HandedOff(r) ==
    /\ req[r] = "handoff"
    /\ \/ /\ offer = "handed" /\ pc = "none" /\ offer' = "none"
          /\ IF pending /\ Free
             THEN claimed' = TRUE /\ req' = [req EXCEPT ![r] = "replacing"] /\ UNCHANGED cancelled
             ELSE AlreadyForwarded(r)
       \/ offer \notin {"reroute", "handed"} /\ AlreadyForwarded(r) /\ UNCHANGED offer
    /\ UNCHANGED <<callVars, picked, claims, pc, route, policy, winner, legVars, mediaVars, pastVars, term, hang>>

PreviousJoined(r) ==
    /\ req[r] = "joining" /\ TaskJoined
    /\ \/ ~Free /\ AlreadyForwarded(r)
       \/ Free /\ claimed' = TRUE /\ req' = [req EXCEPT ![r] = "replacing"] /\ UNCHANGED cancelled
    /\ UNCHANGED <<callVars, offerVars, pc, route, policy, winner, legVars, mediaVars, pastVars, term, hang>>

\* route is "refused" until a forward task has run.
RoutesOf(r) == IF route = "refused" THEN FirstRoutes ELSE LaterRoutes

\* The call changed while the destination was resolved, or the destination is
\* none that a call can be sent to.
Refuse(r) ==
    /\ req[r] \in {"deciding", "replacing"}
    /\ ~pending \/ "refused" \in RoutesOf(r)
    /\ claimed' = FALSE /\ req' = [req EXCEPT ![r] = "done"]
    /\ deserted' = (deserted \/ (pending /\ owner # "ha_softphone"))
    /\ UNCHANGED <<callVars, offerVars, taskVars, legVars, mediaVars, overtaken, term, hang>>

StillPending == pending

Decided(r, d) ==
    /\ req[r] \in {"deciding", "replacing"} /\ d \in RoutesOf(r) /\ StillPending
    /\ d = "selection" => pre
    /\ req' = [req EXCEPT ![r] = "done"]

\* Bound: a far end has the leg of one forward at a time.
Fresh(legs) == \A m \in legs : leg[m] = "none"

Reserved == pair' = IF pre THEN pair ELSE "forward"

\* The end of the call goes on after the task it has cancelled, with this one behind.
Overtaking == overtaken' = (overtaken \/ term = "joining")

\* The router has the call; the task runs up to its first await.
DecidePeer(r) ==
    /\ Decided(r, "peer") /\ Fresh({Peer})
    /\ Reserved
    /\ pc' = "invite" /\ route' = "peer" /\ winner' = Peer
    /\ leg' = [leg EXCEPT ![Peer] = "trying"]
    /\ owner' = "router" /\ state' = "connecting"
    /\ deserted' = FALSE
    /\ UNCHANGED <<source, pending, pre, home, session, tomb, closed, offerVars, claimed, cancelled, policy, held, shed, lost, relay, index, watcher, overtaken, term, hang>>

\* A phone that is busy, an address that is none, no port, an empty group.
DecideFails(r) ==
    /\ \E d \in {"peer", "phone", "group", "selection"} : Decided(r, d)
    /\ FailsNow
    /\ deserted' = FALSE
    /\ UNCHANGED <<offerVars, legVars, overtaken, term, hang>>

DecideAssist(r) ==
    /\ Decided(r, "assist") /\ Reserved
    /\ pc' = "assist" /\ route' = "assist" /\ winner' = Nobody
    /\ owner' = "assist" /\ state' = "connecting"
    /\ deserted' = FALSE /\ Overtaking
    /\ UNCHANGED <<source, pending, pre, session, tomb, home, closed, offerVars, claimed, cancelled, policy, legVars, relay, index, watcher, term, hang>>

\* Another phone of Home Assistant takes the claim and rings; nothing is awaited.
DecidePhone(r) ==
    /\ Decided(r, "phone")
    /\ \E c \in Cards \ {home} :
         /\ claims' = (claims \ {home}) \cup {c} /\ home' = c
         /\ owner' = "ha_softphone" /\ state' = "ringing" /\ pending' = TRUE /\ Upserted
    /\ claimed' = FALSE
    /\ deserted' = FALSE
    /\ UNCHANGED <<source, pre, tomb, closed, offer, picked, taskVars, legVars, mediaVars, overtaken, term, hang>>

DecideGroup(r) ==
    /\ \E d \in {"group", "selection"} :
         /\ Decided(r, d) /\ route' = d
         /\ IF d = "selection"
            THEN offer' = "open" /\ claims' = claims \cup Cards /\ Upserted
            ELSE UNCHANGED <<offer, claims, session>>
    /\ Fresh(Members) /\ Reserved
    /\ pc' = "fork" /\ winner' = Nobody
    /\ leg' = [m \in Members |-> "trying"] /\ held' = Members
    /\ owner' = "router" /\ state' = "connecting"
    /\ deserted' = FALSE /\ Overtaking
    /\ UNCHANGED <<source, pending, pre, tomb, home, closed, picked, claimed, cancelled, policy, shed, lost, relay, index, watcher, term, hang>>

-----------------------------------------------------------------------------
(* The far ends. *)

LegStep(m, from, to) == leg[m] \in from /\ leg' = [leg EXCEPT ![m] = to]

Rings(m) ==
    /\ LegStep(m, {"trying"}, "ringing")
    /\ state' = IF pc = "fork" THEN "remote_ringing" ELSE state
    /\ UNCHANGED <<source, pending, pre, owner, home, session, tomb, closed, offerVars, claimed, req, taskVars, held, shed, lost, mediaVars, pastVars, term, hang>>

FarEnd(m) ==
    /\ \/ LegStep(m, {"trying", "ringing"}, "up") \/ LegStep(m, {"trying", "ringing"}, "failed")
       \/ LegStep(m, {"up"}, "ended")
    /\ UNCHANGED <<callVars, offerVars, claimed, req, taskVars, held, shed, lost, mediaVars, pastVars, term, hang>>

\* invite() and wait_for_final() give up by themselves.
TimesOut(m) ==
    /\ LegStep(m, {"trying", "ringing"}, "failed")
    /\ UNCHANGED <<callVars, offerVars, claimed, req, taskVars, held, shed, lost, mediaVars, pastVars, term, hang>>

\* What closing a set of legs leaves: no dialog, no pair.
Closed(legs) ==
    /\ leg' = [m \in Members |-> IF m \in legs THEN "none" ELSE leg[m]]
    /\ held' = held \ legs

Open == {m \in Members : leg[m] # "none"}

-----------------------------------------------------------------------------
(* The task, from await to await. *)

\* Who joined an earlier task goes on before a later one comes past its first
\* await.
Runs(place) == pc = place /\ ~cancelled /\ term # "joining" /\ hang # "joining"

\* register_bridge() and attach_client_watcher()
Bridged(m, watched) ==
    /\ index' = m /\ watcher' = watched /\ owner' = "bridge" /\ Upserted

\* Variant of StillWanted: the end of the call during invite() goes unnoticed.
WantedAnyway == TRUE
StillWanted == ~closed

InviteReturns ==
    /\ Runs("invite") /\ leg[Peer] # "trying"
    /\ \/ /\ StillWanted /\ leg[Peer] \in {"ringing", "up"}
          /\ Bridged(Peer, TRUE)
          /\ state' = IF leg[Peer] = "ringing" THEN "remote_ringing" ELSE "connecting"
          /\ IF leg[Peer] = "up" THEN pc' = "relay" /\ relay' = "starting"
                                 ELSE pc' = "final" /\ UNCHANGED relay
          /\ UNCHANGED <<source, pending, pre, home, tomb, closed, claimed, cancelled, route, policy, winner, pair>>
       \/ /\ StillWanted /\ leg[Peer] \notin {"ringing", "up"}
          /\ FailsClosing /\ UNCHANGED relay
       \/ /\ ~StillWanted
          /\ closed' = FALSE
          /\ pc' = "failing" /\ pair' = OwnReleased
          /\ UNCHANGED <<source, pending, pre, state, owner, home, session, tomb, claimed, cancelled, route, policy, winner, relay, index, watcher>>
    /\ UNCHANGED <<offerVars, req, legVars, pastVars, term, hang>>

FinalReturns ==
    /\ Runs("final") /\ leg[Peer] \in {"up", "failed", "ended"}
    /\ \/ /\ leg[Peer] = "up" /\ pc' = "relay" /\ relay' = "starting"
          /\ UNCHANGED <<callVars, claimed, cancelled, route, policy, winner, pair, index, watcher>>
       \/ leg[Peer] # "up" /\ FailsClosing /\ UNCHANGED relay
    /\ UNCHANGED <<offerVars, req, legVars, pastVars, term, hang>>

\* The relay has both pairs from here; the source call is answered.
RelayStarts ==
    /\ Runs("relay")
    /\ relay' = "running" /\ pair' = "relay" /\ pc' = "talk" /\ watcher' = TRUE
    /\ pending' = FALSE /\ pre' = FALSE /\ state' = "in_call"
    /\ owner' = "bridge" /\ Upserted
    /\ source' = IF source = "ringing" THEN "up" ELSE source
    /\ held' = held \ {winner}
    /\ UNCHANGED <<home, tomb, closed, offerVars, claimed, req, cancelled, route, policy, winner, leg, shed, lost, index, pastVars, term, hang>>

\* A start that fails gives the ports back by itself.
RelayFails ==
    /\ Runs("relay") /\ relay' = "none" /\ held' = held \ {winner}
    /\ \/ /\ route = "peer" /\ pc' = "failing" /\ index' = Nobody /\ watcher' = FALSE
       \/ /\ route # "peer" /\ pc' = "closeWinner" /\ index' = Nobody /\ UNCHANGED watcher
    /\ pair' = "free"
    /\ UNCHANGED <<callVars, offerVars, claimed, req, cancelled, route, policy, winner, leg, shed, lost, pastVars, term, hang>>

WinnerClosed ==
    /\ Runs("closeWinner")
    /\ Closed({winner}) /\ RestoreOrTerminate /\ TaskEnds
    /\ UNCHANGED <<home, closed, offerVars, req, shed, lost, relay, index, pastVars, term, hang>>

\* The callee has hung up.  The cleanup that the task awaits stops the relay and
\* then cancels and awaits the watcher, which is this task.
CalleeEnds ==
    /\ Runs("talk") /\ leg[winner] = "ended"
    /\ \/ /\ index = winner
          /\ pc' = "selfjoin" /\ cancelled' = TRUE /\ index' = Nobody /\ watcher' = FALSE
          /\ relay' = "none" /\ pair' = "free"
          /\ UNCHANGED <<claimed, route, policy, winner>>
       \/ /\ index # winner /\ TaskEnds /\ UNCHANGED <<pair, relay, index>>
    /\ UNCHANGED <<callVars, offerVars, req, legVars, pastVars, term, hang>>

\* The client is closed and the failure is turned into what on_failure says.
FailureClosed ==
    /\ Runs("failing") /\ Closed({Peer} \cap Open)
    /\ RestoreOrTerminate /\ TaskEnds
    /\ UNCHANGED <<home, closed, offerVars, req, shed, lost, relay, index, pastVars, term, hang>>

AssistStarts ==
    /\ Runs("assist")
    /\ index' = "assist" /\ relay' = "running" /\ pair' = "relay"
    /\ owner' = "assist" /\ state' = "in_call" /\ Upserted
    /\ pending' = FALSE /\ pre' = FALSE
    /\ source' = IF source = "ringing" THEN "up" ELSE source
    /\ TaskEnds
    /\ UNCHANGED <<home, tomb, closed, offerVars, req, legVars, pastVars, term, hang>>

AssistFails ==
    /\ Runs("assist") /\ FailsNow
    /\ UNCHANGED <<offerVars, req, legVars, pastVars, term, hang>>

-----------------------------------------------------------------------------
(* The ring group of a forward. *)

\* A dialog, a phone, another route or nobody ends the wait; the dial tasks are
\* cancelled and joined.
ForkEnds ==
    /\ Runs("fork") /\ pc' = "dialsJoin"
    /\ \/ \E m \in Members : leg[m] = "up" /\ winner' = m
       \/ route = "selection" /\ offer = "answer" /\ winner' = picked
       \/ winner' = Nobody                  \* the deadline, no leg left, another route
    /\ offer' = IF offer = "open" THEN "stale" ELSE offer
    /\ UNCHANGED <<callVars, picked, claims, claimed, req, cancelled, route, policy, legVars, mediaVars, pastVars, term, hang>>

Losers == Open \ {winner}

\* A phone's answer does not wait for the losing legs.
DialsJoined ==
    /\ Runs("dialsJoin")
    /\ \/ /\ winner \notin Cards
          /\ pc' = "losers"
          /\ UNCHANGED <<pending, state, owner, home, session, offer, claims, shed>>
       \/ /\ winner \in Cards
          /\ pc' = "commit" /\ shed' = Losers /\ offer' = "none" /\ claims' = claims \ (Cards \ {winner})
          /\ pending' = TRUE /\ state' = "ringing" /\ owner' = "ha_softphone" /\ home' = winner /\ Upserted
    /\ UNCHANGED <<source, pre, tomb, closed, picked, claimed, req, cancelled, route, policy, winner, leg, held, lost, mediaVars, pastVars, term, hang>>

\* Only a group with phones of its own looks at the decision of the route.
Rerouted == route = "selection" /\ offer = "reroute"

LosersClosed ==
    /\ Runs("losers") /\ Closed(Losers)
    /\ offer' = IF winner = Nobody /\ Rerouted THEN "handed" ELSE "none"
    /\ claims' = IF route = "selection" THEN claims \ Cards ELSE claims
    /\ \/ /\ winner \in Members
          /\ Bridged(winner, FALSE) /\ state' = "connecting"
          /\ pc' = "relay" /\ relay' = "starting"
          /\ UNCHANGED <<source, pending, pre, tomb, claimed, cancelled, route, policy, winner, pair>>
       \/ /\ winner = Nobody /\ Rerouted
          /\ TaskEnds /\ UNCHANGED <<source, pending, pre, state, owner, session, tomb, pair, relay, index>>
       \/ /\ winner = Nobody /\ ~Rerouted
          /\ RestoreOrTerminate /\ TaskEnds /\ UNCHANGED <<relay, index>>
    /\ UNCHANGED <<home, closed, picked, req, shed, lost, pastVars, term, hang>>

ShedClosed ==
    /\ shed # {} /\ Closed(shed) /\ shed' = {}
    /\ UNCHANGED <<callVars, offerVars, claimed, req, taskVars, lost, mediaVars, pastVars, term, hang>>

\* The answer of a phone, by itself or through the service the group calls.  When
\* the caller has just left, the final response is refused and the call is over;
\* nothing is sent for a call that was answered for the trunk.
Answers ==
    /\ pending' = FALSE /\ pre' = FALSE /\ state' = "in_call"
    /\ owner' = "ha_softphone" /\ pair' = "phone"
    /\ \/ source # "over" /\ source' = "up" /\ UNCHANGED <<session, tomb>>
       \/ source = "over" /\ pre /\ UNCHANGED <<source, session, tomb>>
       \/ source = "over" /\ UNCHANGED source /\ FinishAndPop /\ tomb' = TRUE

CommitEnds ==
    /\ Runs("commit")
    /\ \/ pending /\ source # "over" /\ Answers
       \/ RestoreOrTerminate
    /\ TaskEnds
    /\ UNCHANGED <<home, closed, offerVars, req, legVars, relay, index, pastVars, term, hang>>

\* Variant of MayAnswer: a phone answers although the call is being forwarded.
AnswersAnyway == TRUE
MayAnswer == ~claimed /\ pc = "none"

Answer(c) ==
    \/ /\ offer = "open" /\ offer' = "answer" /\ picked' = c
       /\ UNCHANGED <<callVars, claims, pair>>
    \/ /\ offer = "none" /\ MayAnswer /\ pending /\ home = c /\ session = "live"
       /\ Answers
       /\ UNCHANGED <<home, closed, offerVars>>

PhoneAnswers ==
    /\ \E c \in Cards : Answer(c)
    /\ UNCHANGED <<claimed, req, taskVars, legVars, relay, index, watcher, pastVars, term, hang>>

-----------------------------------------------------------------------------
(* The cancellation of the task. *)

\* The waits for the far end that end at once.
\* Variant of Interruptible: the wait for the end of the dialog is shielded.
TalkShielded == {"invite", "final"}
Interruptible == {"invite", "final", "talk"}

\* An await that nothing shields ends at once.
Interrupted ==
    /\ cancelled
    /\ \/ /\ pc \in Interruptible
          /\ pc' = "unwind" /\ index' = Nobody /\ watcher' = FALSE /\ pair' = OwnReleased
          /\ UNCHANGED <<offer, claims, claimed, cancelled, route, policy, winner, held, lost, relay>>
       \/ /\ pc = "relay"                   \* the start is cancelled with it
          /\ pc' = "unwind" /\ index' = Nobody /\ watcher' = FALSE
          /\ relay' = "none" /\ pair' = "free" /\ held' = held \ {winner}
          /\ UNCHANGED <<offer, claims, claimed, cancelled, route, policy, winner, lost>>
       \/ /\ pc = "relay"                   \* the start has just ended
          /\ pc' = "unwind" /\ index' = Nobody /\ watcher' = FALSE
          /\ relay' = "orphan" /\ pair' = OwnReleased
          /\ lost' = IF route = "peer" THEN lost ELSE lost \cup {winner}
          /\ UNCHANGED <<offer, claims, claimed, cancelled, route, policy, winner, held>>
       \/ /\ pc = "fork"
          /\ pc' = "unwind" /\ offer' = "none"
          /\ claims' = IF route = "selection" THEN claims \ Cards ELSE claims
          /\ UNCHANGED <<claimed, cancelled, route, policy, winner, held, lost, mediaVars>>
       \/ /\ pc \in {"assist", "commit"}
          /\ TaskEnds /\ pair' = OwnReleased
          /\ UNCHANGED <<offer, claims, held, lost, relay, index>>
    /\ UNCHANGED <<callVars, picked, req, leg, shed, pastVars, term, hang>>

\* A cleanup is waited for to its end; what came after it is not done.
Unwound ==
    /\ cancelled
    /\ \/ /\ pc \in {"unwind", "failing"}
          /\ Closed((IF winner \in Members THEN {winner} ELSE Open) \ (lost \ {winner}))
          /\ UNCHANGED lost
       \/ /\ pc = "closeWinner" /\ Closed({winner}) /\ UNCHANGED lost
       \/ /\ pc = "dialsJoin" /\ lost' = lost \cup Open /\ UNCHANGED <<leg, held>>
       \/ /\ pc = "losers" /\ Closed(Losers) /\ lost' = lost \cup ({winner} \cap Open)
    /\ offer' = IF pc \in {"dialsJoin", "losers"} /\ offer # "none" THEN "stale" ELSE offer
    /\ pair' = OwnReleased
    /\ TaskEnds
    /\ UNCHANGED <<callVars, picked, claims, req, shed, relay, index, pastVars, term, hang>>

-----------------------------------------------------------------------------
(* The ends of the call. *)

Given == IF pair \in {"pre", "phone"} THEN "free" ELSE pair

\* Everything the registry holds of the call is taken out of it at once.
Taken ==
    /\ closed' = TRUE /\ offer' = "none" /\ pending' = FALSE /\ pre' = FALSE
    /\ index' = Nobody /\ relay' = IF index # Nobody THEN "taken" ELSE relay
    /\ pair' = Given
    /\ term' = "taking"

\* BYE, CANCEL and the expiry of the INVITE all come to _on_terminated; a task
\* that forwards the call is cancelled and joined first.
CallerEnds ==
    /\ source # "over" /\ source' = "over"
    /\ tomb' = TRUE
    /\ \/ ~tomb /\ pc = "none" /\ Taken /\ UNCHANGED cancelled
       \/ /\ ~tomb /\ pc # "none" /\ term' = "joining" /\ cancelled' = TRUE
          /\ UNCHANGED <<closed, offer, pending, pre, index, relay, pair>>
       \/ tomb /\ UNCHANGED <<closed, offer, pending, pre, index, relay, pair, term, cancelled>>
    /\ UNCHANGED <<state, owner, home, session, picked, claims, claimed, req, pc, route, policy, winner, legVars, watcher, pastVars, hang>>

TermTakes ==
    /\ term = "joining" /\ TaskJoined /\ Taken
    /\ UNCHANGED <<source, state, owner, home, session, tomb, picked, claims, claimed, req, taskVars, legVars, watcher, pastVars, hang>>

TermEnds ==
    /\ term = "taking" /\ term' = "done" /\ FinishAndPop
    /\ IF relay = "taken" THEN relay' = "none" /\ pair' = "free" ELSE UNCHANGED <<relay, pair>>
    /\ UNCHANGED <<source, pending, pre, state, owner, home, tomb, closed, offerVars, claimed, req, taskVars, legVars, index, watcher, pastVars, hang>>

\* async_hangup_browser_call, once no forward runs.
HangTakes ==
    \/ /\ offer = "open" /\ offer' = "cancel" /\ hang' = "done"
       /\ UNCHANGED <<source, pending, pre, session, tomb, pair, relay, index>>
    \/ /\ offer # "open" /\ offer' = "none"
       /\ \/ /\ index # Nobody
             /\ index' = Nobody /\ relay' = "taken" /\ hang' = "bye"
             /\ UNCHANGED <<source, pending, pre, session, tomb, pair>>
          \/ /\ index = Nobody /\ relay = "running"
             /\ relay' = "taken" /\ hang' = "silent"
             /\ UNCHANGED <<source, pending, pre, session, tomb, pair, index>>
          \/ /\ index = Nobody /\ relay # "running"
             /\ pending' = FALSE /\ pre' = FALSE /\ pair' = Given
             /\ source' = IF pre /\ source = "ringing" THEN source ELSE "over"
             /\ FinishAndPop /\ tomb' = TRUE /\ hang' = "done"
             /\ UNCHANGED <<relay, index>>

Hangup ==
    /\ \/ /\ hang = "no" /\ session = "live" /\ pc # "none"
          /\ hang' = "joining" /\ cancelled' = TRUE
          /\ UNCHANGED <<source, pending, pre, session, tomb, offer, pair, relay, index>>
       \/ hang = "no" /\ session = "live" /\ pc = "none" /\ HangTakes /\ UNCHANGED cancelled
       \/ hang = "joining" /\ TaskJoined /\ HangTakes /\ UNCHANGED cancelled
    /\ UNCHANGED <<state, owner, home, closed, picked, claims, claimed, req, pc, route, policy, winner, legVars, watcher, pastVars, term>>

HangupEnds ==
    /\ hang \in {"bye", "silent"} /\ hang' = "done"
    /\ relay' = "none" /\ pair' = "free"
    /\ source' = IF hang = "bye" THEN "over" ELSE source
    /\ FinishAndPop /\ tomb' = TRUE
    /\ UNCHANGED <<pending, pre, state, owner, home, closed, offerVars, claimed, req, taskVars, legVars, index, watcher, pastVars, term>>

\* The pipeline ends the call itself.
AssistEnds ==
    /\ index = "assist"
    /\ index' = Nobody /\ relay' = "none" /\ pair' = "free"
    /\ SourceTold /\ FinishAndPop /\ tomb' = TRUE
    /\ UNCHANGED <<pending, pre, state, owner, home, closed, offerVars, claimed, req, taskVars, legVars, watcher, pastVars, term, hang>>

BarrierStarts ==
    /\ session = "closing" /\ session' = "joining"
    /\ cancelled' = (cancelled \/ watcher)
    /\ UNCHANGED <<source, pending, pre, state, owner, home, tomb, closed, offerVars, claimed, req, pc, route, policy, winner, legVars, mediaVars, pastVars, term, hang>>

\* What the session still owns: the indexed relay and client, media, claims.
BarrierEnds ==
    /\ session = "joining" /\ ~watcher /\ session' = "gone"
    /\ claims' = {} /\ index' = Nobody
    /\ Closed({index} \cap Members)
    /\ IF relay = "running" THEN relay' = "none" /\ pair' = "free"
                            ELSE relay' = relay /\ pair' = Given
    /\ UNCHANGED <<source, pending, pre, state, owner, home, tomb, closed, offer, picked, claimed, req, taskVars, shed, lost, watcher, pastVars, term, hang>>

-----------------------------------------------------------------------------
Request(r) ==
    \/ Forward(r) \/ Reroute(r) \/ HandedOff(r) \/ PreviousJoined(r) \/ Refuse(r)
    \/ DecidePeer(r) \/ DecideAssist(r) \/ DecidePhone(r) \/ DecideGroup(r) \/ DecideFails(r)

Task ==
    \/ InviteReturns \/ FinalReturns \/ RelayStarts \/ RelayFails \/ WinnerClosed \/ CalleeEnds
    \/ FailureClosed \/ AssistStarts \/ AssistFails
    \/ ForkEnds \/ DialsJoined \/ LosersClosed \/ CommitEnds \/ Interrupted \/ Unwound

Ends == TermTakes \/ TermEnds \/ HangupEnds \/ BarrierStarts \/ BarrierEnds \/ ShedClosed

ForwardNext ==
    \/ \E r \in Requests : Request(r)
    \/ \E m \in Members : Rings(m) \/ FarEnd(m) \/ TimesOut(m)
    \/ Task \/ Ends \/ PhoneAnswers \/ CallerEnds \/ Hangup \/ AssistEnds

ForwardSpec == ForwardInit /\ [][ForwardNext]_vars

\* The loop runs what is ready; invite() and wait_for_final() end by themselves.
FairForwardSpec ==
    /\ ForwardSpec
    /\ WF_vars(Task) /\ WF_vars(Ends) /\ WF_vars(Hangup /\ hang = "joining")
    /\ \A m \in Members : WF_vars(TimesOut(m))

-----------------------------------------------------------------------------
ForwardTypeOK ==
    /\ source \in {"ringing", "up", "over"} /\ pending \in BOOLEAN /\ pre \in BOOLEAN
    /\ tomb \in BOOLEAN /\ closed \in BOOLEAN /\ overtaken \in BOOLEAN /\ deserted \in BOOLEAN
    /\ claimed \in BOOLEAN /\ cancelled \in BOOLEAN /\ watcher \in BOOLEAN
    /\ state \in {"ringing", "connecting", "remote_ringing", "in_call", "idle"}
    /\ owner \in {"ha_softphone", "router", "bridge", "assist", "terminal"}
    /\ home \in Cards /\ claims \subseteq Cards
    /\ session \in {"live", "closing", "joining", "gone"}
    /\ req \in [Requests -> {"idle", "joining", "deciding", "replacing", "handoff", "done"}]
    /\ pc \in {"none", "invite", "final", "relay", "talk", "selfjoin", "failing", "assist",
               "fork", "dialsJoin", "losers", "commit", "closeWinner", "unwind"}
    /\ route \in Routes /\ policy \in Policies /\ winner \in Members \cup Cards \cup {Nobody}
    /\ offer \in {"none", "open", "answer", "reroute", "handed", "cancel", "stale"} /\ picked \in Cards \cup {Nobody}
    /\ leg \in [Members -> {"none", "trying", "ringing", "up", "failed", "ended"}]
    /\ held \subseteq Members /\ shed \subseteq Members /\ lost \subseteq Members
    /\ pair \in {"free", "pre", "forward", "relay", "phone"}
    /\ relay \in {"none", "starting", "running", "taken", "orphan"}
    /\ index \in Members \cup {"assist", Nobody}
    /\ term \in {"no", "joining", "taking", "done"} /\ hang \in {"no", "joining", "bye", "silent", "done"}
    /\ pc \in {"invite", "final"} => winner = Peer
    /\ pc \in {"relay", "talk", "selfjoin", "closeWinner"} => winner \in Members

\* A call that the caller has ended leaves no dialog with a far end, no relay, no
\* ports and no claim behind, wherever the forward was.  Three losses are known:
\* the legs of a group whose task is cancelled while it closes the losing ones,
\* a relay whose start ended in the tick of the cancellation, and all that a group
\* or Assist has which began while the end of the call waited for another task.
CallerGone ==
    /\ term = "done" /\ hang \in {"no", "done"} /\ shed = {}
    /\ pc \in {"none", "talk"} /\ session \notin {"closing", "joining"}
CallerEndLeavesNothing ==
    CallerGone =>
        \/ /\ pc = "none" /\ session = "gone"
           /\ Open \cup held \subseteq lost
           /\ relay \in {"none", "orphan"} /\ index = Nobody
           /\ pair = "free" /\ claims = {}
        \/ overtaken

\* A live source call that nobody is working on rings at a phone that may answer
\* it, talks to one, or talks to Assist: a forward that fails or is replaced does
\* not leave the caller alone.  Two states are known in which it does: a request
\* was refused after it had cancelled the forward, and a group that was cancelled
\* while it closed the losing legs has left its route, which no phone can answer.
Quiet ==
    /\ pc = "none" /\ session = "live" /\ source # "over" /\ term = "no" /\ hang = "no"
    /\ \A r \in Requests : req[r] \in {"idle", "done"}
Served ==
    \/ owner = "ha_softphone" /\ ((pending /\ offer = "none") \/ pair = "phone")
    \/ index = "assist" /\ relay = "running"
CallerIsServed == Quiet => Served \/ deserted \/ offer = "stale"

\* "On route failure, `on_failure: resume` restores HA ringing exactly once."
\* (docs/CALL_FLOWS.md): with that policy nobody is left alone.
ResumeRestores == Quiet /\ policy = "resume" => Served

\* "late dial winners ... cannot resurrect the call" (docs/ARCHITECTURE.md): once the
\* end of the call is through, no far end is bridged to it.
LateWinnersStayOut == term = "done" => index \notin Members

\* The end of a call gets through the forward: the task is cancelled, joined and
\* the call removed, unless the task waits for itself.
EndGetsThrough == term = "joining" ~> (term = "done" \/ pc = "selfjoin")
=============================================================================
