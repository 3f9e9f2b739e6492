----------------------------- MODULE MediaOwner -----------------------------
(***************************************************************************)
(* The browser sockets of one call at one endpoint: websocket_owner.py,    *)
(* media_ws_session.py, media_call_lifetime.py, media_session_updates.py,  *)
(* the handlers of audio_ws_view.py and video_ws_view.py, the media leases *)
(* of local_softphone_bridge.py and the shutdown of websocket_api.py.      *)
(*                                                                         *)
(* A request is one HTTP handler: it asks for the audio or the video of    *)
(* the call for one browser document.  Two calls differ only in who keeps  *)
(* the pinned document: a SIP call in the registry's session, a call       *)
(* between two Home Assistant phones in the bridge's lease.                *)
(*                                                                         *)
(* The owner locks are never held across an await, so a step under them is *)
(* one action.  The identity lock of the key is: by the request that waits *)
(* for the previous owner (pc "handoff").                                  *)
(***************************************************************************)
EXTENDS Naturals, FiniteSets, Sequences

CONSTANTS
  Requests,     \* HTTP handlers
  Documents,    \* browser documents: the pair of Home Assistant user and client id
  Asks,         \* the ways the requests may ask: request -> channel and document
  None,         \* no document, no request, no lease
  MaxQueue,     \* frames a media queue of the bridge holds (maxsize)
  MaxUpdates,   \* bound: accepted re-INVITEs
  MaxAnswers    \* bound: leases made by the start or the answers of the call

Channels == {"audio", "video"}

\* A lease is named by what made it: the start or an answer of the call (1, 2, ...)
\* or the request that acquired it.
Tokens == Requests \cup 1..MaxAnswers
Leases == [document : Documents, token : Tokens]

ASSUME MediaAssumption ==
  /\ None \notin Documents \cup Tokens \cup Leases
  /\ Requests \cap Nat = {}
  /\ Asks \subseteq [Requests -> [channel : Channels, document : Documents]]
  /\ MaxQueue \in Nat \ {0} /\ MaxUpdates \in Nat /\ MaxAnswers \in Nat \ {0}

VARIABLES
  local,        \* the call is between two Home Assistant phones
  callee,       \* and this endpoint is its callee
  ask,          \* ask[r]: channel and document of request r
  call,         \* "ringing", "up" or "over"
  pin,          \* SIP: media_client_id of the call's session
  lease,        \* local: media.lease of the endpoint
  answerOwner,  \* local: answer_owner_id
  answers,      \* local: leases the start or the answers made
  queue,        \* local: queue[ch], the lease for which each frame was queued
  owner,        \* owner[ch]: the request in <ch>_ws_owners
  pc,           \* pc[r]: where the handler is
  held,         \* held[r]: the token of its lease
  revoked,      \* requests whose websocket was closed by revoke()
  ended,        \* requests whose call_ended event is set
  gen,          \* SIP: accepted media updates
  seen,         \* SIP: seen[r], the update in the handler's session object
  offer,        \* SIP: requests a re-INVITE in progress will update, or None
  phase,        \* of the integration: "on", "gated", "waiting", "down"
  asked         \* owners the shutdown waits for, then those it could not confirm

callVars == <<call, pin, lease, answerOwner, answers, queue>>
reqVars == <<owner, pc, held, revoked, ended, seen>>
inviteVars == <<gen, offer>>
shutVars == <<phase, asked>>
setting == <<local, callee, ask>>
vars == <<setting, callVars, reqVars, inviteVars, shutVars>>

-----------------------------------------------------------------------------
Chan(r) == ask[r].channel
Doc(r) == ask[r].document
Live == {owner[ch] : ch \in Channels} \ {None}

\* async_claim_media_owner waits for the previous owner under the identity lock.
LockFree == \A r \in Requests : pc[r] # "handoff"

Released(r) == pc[r] \in {"leasing", "done"}
Shutting == phase # "on"

Goto(r, l) == pc' = [pc EXCEPT ![r] = l]

\* Variant of ClearQueue: frames stay when the lease changes.
KeepQueue == UNCHANGED queue

\* clear_queued_media, wherever a lease is made or given up.
ClearQueue == queue' = IF lease' = lease THEN queue ELSE [ch \in Channels |-> <<>>]

\* _acquire_media: may document d have the leg?  The document that answered keeps
\* it from every other one.
MayAcquire(d, ls, ao) ==
  /\ callee => ao \in {None, d}
  /\ ls # None => ls.document = d

\* _acquire_media, its effect: the lease d already has or a new one named t, and
\* the callee's first document becomes the answering one.
Acquire(d, t, ls, ao) ==
  /\ lease' = IF ls = None THEN [document |-> d, token |-> t] ELSE ls
  /\ answerOwner' = IF callee /\ ao = None THEN d ELSE ao

\* release_media and the first half of rebind_media_owner: who answered is
\* forgotten with its lease.
AnswerAfterRelease(ls) ==
  IF callee /\ answerOwner = ls.document THEN None ELSE answerOwner

-----------------------------------------------------------------------------
\* A call that this endpoint takes part in exists.  The document that starts a
\* local call has its lease at once; a SIP call has the document that answered
\* or dialled, or none when it was started without a card.
Init ==
  /\ local \in BOOLEAN
  /\ callee \in BOOLEAN
  /\ ~local => ~callee
  /\ ask \in Asks
  /\ call = "ringing"
  /\ pin \in IF local THEN {None} ELSE Documents \cup {None}
  /\ lease \in IF local /\ ~callee
               THEN {None} \cup [document : Documents, token : {1}]
               ELSE {None}
  /\ answerOwner = None /\ answers = IF lease = None THEN 0 ELSE 1
  /\ queue = [ch \in Channels |-> <<>>]
  /\ owner = [ch \in Channels |-> None]
  /\ pc = [r \in Requests |-> "new"]
  /\ held = [r \in Requests |-> None]
  /\ revoked = {} /\ ended = {}
  /\ gen = 0 /\ seen = [r \in Requests |-> 0] /\ offer = None
  /\ phase = "on" /\ asked = {}

-----------------------------------------------------------------------------
\* The call.

\* answer: the callee's card (or a service, without a document), or the far end.
\* A later answer of the same document takes its lease back; one of another
\* document is refused.
Answer(d) ==
  /\ call # "over"
  /\ call' = "up"
  /\ IF local /\ callee /\ d # None
     THEN /\ call = "up" => answerOwner \in {None, d}
          /\ MayAcquire(d, lease, answerOwner)
          /\ lease = None => answers < MaxAnswers
          /\ Acquire(d, answers + 1, lease, answerOwner)
          /\ answers' = IF lease = None THEN answers + 1 ELSE answers
          /\ ClearQueue
     ELSE call = "ringing" /\ UNCHANGED <<lease, answerOwner, answers, queue>>
  /\ UNCHANGED <<setting, pin, reqVars, inviteVars, shutVars>>

\* _finish of the bridge, or the terminal transition of a SIP call: the call, its
\* lease and its pinned document go, and every attached socket's lifetime ends.
EndCall ==
  /\ call # "over"
  /\ call' = "over"
  /\ pin' = None /\ lease' = None /\ answerOwner' = None /\ ClearQueue
  /\ UNCHANGED answers
  /\ ended' = ended \cup {r \in Requests : pc[r] = "open"}
  /\ UNCHANGED <<setting, owner, pc, held, revoked, seen, inviteVars, shutVars>>

-----------------------------------------------------------------------------
\* The claim of a request.

\* get(), up to the await of the authorization.
View(r) ==
  /\ pc[r] = "new"
  /\ Goto(r, IF call = "up" THEN "asking" ELSE "refused")
  /\ UNCHANGED <<setting, callVars, owner, held, revoked, ended, seen, inviteVars, shutVars>>

\* The authorization fails, the claim is refused, the wait for the previous owner
\* times out, or the handler is cancelled before it owns anything.
Refuse(r) ==
  /\ pc[r] \in {"asking", "handoff"}
  /\ Goto(r, "refused")
  /\ UNCHANGED <<setting, callVars, owner, held, revoked, ended, seen, inviteVars, shutVars>>

\* Variant of MayClaim: a claim that looks only at its own channel.
MayClaimByChannel(r) ==
  /\ call # "over"
  /\ LET o == owner[Chan(r)] IN
     IF local THEN o # None => Doc(o) = Doc(r) ELSE pin = Doc(r) \/ o = None

\* Another document may have the call's media only when no socket of it is left.
MayClaim(r) ==
  /\ call # "over"
  /\ IF local
     THEN /\ \A o \in Live : Doc(o) = Doc(r)
          /\ lease # None /\ lease.document # Doc(r) => Live = {}
     ELSE pin = Doc(r) \/ Live = {}

\* rebind_media_owner: the lease of a document that went away passes to this one.
Rebinds(r) == local /\ lease # None /\ lease.document # Doc(r)
MayRebind(r) == MayAcquire(Doc(r), None, AnswerAfterRelease(lease))

\* The owner's slot is taken and the call resolved again in the same step, after
\* the lease ls and the answering document ao: a local handler acquires its lease,
\* a SIP handler takes its session's snapshot.
TakeSlot(r, ls, ao) ==
  LET resolves == call = "up" /\ (local => MayAcquire(Doc(r), ls, ao)) IN
  /\ owner' = [owner EXCEPT ![Chan(r)] = r]
  /\ Goto(r, IF resolves THEN "prepared" ELSE "closing")
  /\ IF resolves /\ local
     THEN Acquire(Doc(r), r, ls, ao) /\ held' = [held EXCEPT ![r] = lease'.token]
     ELSE lease' = ls /\ answerOwner' = ao /\ UNCHANGED held
  /\ seen' = IF resolves /\ ~local THEN [seen EXCEPT ![r] = gen] ELSE seen

\* The lease and the answering document after a claim's rebind.
ReboundLease(r) ==
  IF ~Rebinds(r) THEN lease
  ELSE IF MayRebind(r) THEN [document |-> Doc(r), token |-> r] ELSE None
ReboundAnswer(r) ==
  IF ~Rebinds(r) THEN answerOwner
  ELSE IF callee /\ MayRebind(r) THEN Doc(r) ELSE AnswerAfterRelease(lease)

\* async_claim_call_media_owner, up to the wait for the previous owner.  The pinned
\* document is replaced before the shutdown is looked at.
Claim(r) ==
  LET prev == owner[Chan(r)]
      refused == \/ Rebinds(r) /\ ~MayRebind(r)
                 \/ Shutting
                 \/ (prev # None /\ Doc(prev) # Doc(r))
      NoSlot == /\ lease' = ReboundLease(r) /\ answerOwner' = ReboundAnswer(r)
                /\ UNCHANGED <<owner, held, seen>>
  IN
  /\ pc[r] = "asking" /\ LockFree /\ MayClaim(r)
  /\ pin' = IF local THEN None ELSE Doc(r)
  /\ \/ refused /\ Goto(r, "refused") /\ NoSlot /\ UNCHANGED revoked
     \/ ~refused /\ prev # None /\ Goto(r, "handoff") /\ NoSlot /\ revoked' = revoked \cup {prev}
     \/ ~refused /\ prev = None /\ TakeSlot(r, ReboundLease(r), ReboundAnswer(r))
        /\ UNCHANGED revoked
  /\ ClearQueue
  /\ UNCHANGED <<setting, call, answers, ended, inviteVars, shutVars>>

\* Variant of Resume: the shutdown is not looked at after the wait.
ResumeUnchecked(r) ==
  /\ pc[r] = "handoff" /\ owner[Chan(r)] = None
  /\ TakeSlot(r, lease, answerOwner) /\ ClearQueue
  /\ UNCHANGED <<setting, call, pin, answers, revoked, ended, inviteVars, shutVars>>

\* The previous owner has released; the shutdown is looked at again.
Resume(r) ==
  /\ pc[r] = "handoff" /\ owner[Chan(r)] = None
  /\ IF Shutting
     THEN Goto(r, "refused") /\ UNCHANGED <<owner, held, seen, lease, answerOwner>>
     ELSE TakeSlot(r, lease, answerOwner)
  /\ ClearQueue
  /\ UNCHANGED <<setting, call, pin, answers, revoked, ended, inviteVars, shutVars>>

-----------------------------------------------------------------------------
\* The handler that owns its channel.

PortBound(r) == ~local /\ pc[r] \in {"bound", "open", "stopping"}

\* ws.prepare, then the bind of the call's RTP port (SIP) or nothing (local).
Prepare(r) ==
  /\ pc[r] = "prepared"
  /\ \A o \in Requests : ~(PortBound(o) /\ Chan(o) = Chan(r))
  /\ Goto(r, "bound")
  /\ UNCHANGED <<setting, callVars, owner, held, revoked, ended, seen, inviteVars, shutVars>>

\* Variant of EndedAtRegistration: only an event still to come ends the socket.
OnlyLaterEvents(r) == {}

\* listen_for_media_call_end also looks at the state it finds.
EndedAtRegistration(r) == IF call = "over" THEN {r} ELSE {}

\* The greeting is sent, the tasks start, the session is in active_*_sessions.
Open(r) ==
  /\ pc[r] = "bound"
  /\ Goto(r, "open")
  /\ ended' = ended \cup EndedAtRegistration(r)
  /\ UNCHANGED <<setting, callVars, owner, held, revoked, seen, inviteVars, shutVars>>

\* The port is taken, the websocket is gone, or the handler is cancelled: the
\* handler leaves before it attached.
Fail(r) ==
  /\ pc[r] \in {"prepared", "bound"}
  /\ Goto(r, "closing")
  /\ UNCHANGED <<setting, callVars, owner, held, revoked, ended, seen, inviteVars, shutVars>>

\* The end of an attached socket: its call ended, it was revoked (Detach), or the
\* browser left, a media task failed, the handler was cancelled (Leave).
Stop(r) ==
  /\ pc[r] = "open"
  /\ Goto(r, "stopping")
  /\ UNCHANGED <<setting, callVars, owner, held, revoked, ended, seen, inviteVars, shutVars>>
Detach(r) == r \in ended \cup revoked /\ Stop(r)
Leave(r) == r \notin ended \cup revoked /\ Stop(r)

\* The media tasks are joined and the transport is closed.
Joined(r) ==
  /\ pc[r] = "stopping"
  /\ Goto(r, "closing")
  /\ UNCHANGED <<setting, callVars, owner, held, revoked, ended, seen, inviteVars, shutVars>>

\* async_release_media_owner, in a task the handler's cancellation does not reach;
\* what only the handler's body read goes with it.
ReleaseOwner(r) ==
  /\ pc[r] = "closing"
  /\ owner' = [owner EXCEPT ![Chan(r)] = IF @ = r THEN None ELSE @]
  /\ Goto(r, IF held[r] = None THEN "done" ELSE "leasing")
  /\ revoked' = revoked \ {r} /\ ended' = ended \ {r}
  /\ seen' = [seen EXCEPT ![r] = 0]
  /\ UNCHANGED <<setting, callVars, held, inviteVars, shutVars>>

\* async_release_local_media_if_unowned and release_media: only the last socket
\* gives the lease up, and only the lease it holds.
GivesUp(r) == Live = {} /\ lease # None /\ lease.token = held[r]

ReleaseLease(r) ==
  /\ pc[r] = "leasing" /\ LockFree
  /\ Goto(r, "done")
  /\ held' = [held EXCEPT ![r] = None]
  /\ IF GivesUp(r)
     THEN lease' = None /\ answerOwner' = AnswerAfterRelease(lease)
     ELSE UNCHANGED <<lease, answerOwner>>
  /\ ClearQueue
  /\ UNCHANGED <<setting, call, pin, answers, owner, revoked, ended, seen, inviteVars, shutVars>>

-----------------------------------------------------------------------------
\* Media.

\* _send_media of the peer: nothing is queued for an endpoint without a lease, and
\* the oldest frame makes room for the newest.
Send(ch) ==
  /\ local /\ call = "up" /\ lease # None
  /\ LET q == Append(queue[ch], lease.token)
     IN  queue' = [queue EXCEPT ![ch] = IF Len(q) > MaxQueue THEN Tail(q) ELSE q]
  /\ UNCHANGED <<setting, call, pin, lease, answerOwner, answers, reqVars, inviteVars, shutVars>>

\* _receive_media: a frame for the handler that holds the lease.
Receive(r) ==
  /\ local /\ pc[r] = "open" /\ call = "up"
  /\ lease # None /\ lease.token = held[r]
  /\ queue[Chan(r)] # <<>>
  /\ queue' = [queue EXCEPT ![Chan(r)] = Tail(@)]
  /\ UNCHANGED <<setting, call, pin, lease, answerOwner, answers, reqVars, inviteVars, shutVars>>

\* A re-INVITE finds the attached sockets, awaits, and commits to those it found.
Offer ==
  /\ ~local /\ call = "up" /\ offer = None /\ gen < MaxUpdates
  /\ offer' = {r \in Requests : pc[r] = "open"}
  /\ UNCHANGED <<setting, callVars, reqVars, gen, shutVars>>
Commit ==
  /\ offer # None /\ call = "up"
  /\ gen' = gen + 1 /\ offer' = None
  /\ seen' = [r \in Requests |-> IF r \in offer /\ pc[r] = "open" THEN gen' ELSE seen[r]]
  /\ UNCHANGED <<setting, callVars, owner, pc, held, revoked, ended, shutVars>>
Rollback ==
  /\ offer # None
  /\ offer' = None
  /\ UNCHANGED <<setting, callVars, reqVars, gen, shutVars>>

-----------------------------------------------------------------------------
\* Unload: claims are gated, then the owners found are revoked and waited for.
Gate ==
  /\ phase = "on"
  /\ phase' = "gated"
  /\ UNCHANGED <<setting, callVars, reqVars, inviteVars, asked>>
RevokeAll ==
  /\ phase = "gated"
  /\ phase' = "waiting" /\ asked' = Live /\ revoked' = revoked \cup Live
  /\ UNCHANGED <<setting, callVars, owner, pc, held, ended, seen, inviteVars>>
\* Every wait ended, by the release or by its timeout.
Down ==
  /\ phase = "waiting"
  /\ phase' = "down" /\ asked' = {r \in asked : ~Released(r)}
  /\ UNCHANGED <<setting, callVars, reqVars, inviteVars>>
\* A new setup opens the gate again.
Setup ==
  /\ phase = "down"
  /\ phase' = "on" /\ asked' = {}
  /\ UNCHANGED <<setting, callVars, reqVars, inviteVars>>

-----------------------------------------------------------------------------
Handler(r) ==
  \/ View(r) \/ Claim(r) \/ Resume(r) \/ Prepare(r) \/ Open(r)
  \/ Detach(r) \/ Joined(r) \/ ReleaseOwner(r) \/ ReleaseLease(r)

Next ==
  \/ \E d \in Documents \cup {None} : Answer(d)
  \/ EndCall
  \/ \E r \in Requests : Handler(r) \/ Refuse(r) \/ Fail(r) \/ Leave(r) \/ Receive(r)
  \/ \E ch \in Channels : Send(ch)
  \/ Offer \/ Commit \/ Rollback
  \/ Gate \/ RevokeAll \/ Down \/ Setup

\* A handler that can go on does; its waits have timeouts.  Browsers, calls and
\* unloads owe nothing.
Spec ==
  /\ Init /\ [][Next]_vars
  /\ \A r \in Requests : WF_vars(Handler(r)) /\ WF_vars(Refuse(r))

-----------------------------------------------------------------------------
\* Every variable has its type, a request that owns a channel is in its handler's
\* body, and a channel has at most one request in it.
Places == {"new", "asking", "handoff", "refused", "prepared", "bound", "open",
           "stopping", "closing", "leasing", "done"}
InBody(r) == pc[r] \in {"prepared", "bound", "open", "stopping", "closing"}

MediaTypeOK ==
  /\ local \in BOOLEAN /\ callee \in BOOLEAN /\ ask \in Asks
  /\ call \in {"ringing", "up", "over"}
  /\ pin \in Documents \cup {None} /\ lease \in Leases \cup {None}
  /\ answerOwner \in Documents \cup {None} /\ answers \in 0..MaxAnswers
  /\ queue \in [Channels -> Seq(Tokens)]
  /\ \A ch \in Channels : Len(queue[ch]) <= MaxQueue
  /\ owner \in [Channels -> Requests \cup {None}]
  /\ pc \in [Requests -> Places]
  /\ held \in [Requests -> Tokens \cup {None}]
  /\ seen \in [Requests -> 0..MaxUpdates]
  /\ \A ch \in Channels, r \in Requests : owner[ch] = r <=> Chan(r) = ch /\ InBody(r)
  /\ revoked \subseteq Requests /\ ended \subseteq Requests /\ asked \subseteq Requests
  /\ gen \in 0..MaxUpdates /\ offer \in (SUBSET Requests) \cup {None}
  /\ offer # None => gen < MaxUpdates
  /\ phase \in {"on", "gated", "waiting", "down"}

\* The audio and the video of a call are never in two browser documents: every
\* live owner is of one document, and it is the one the call is pinned to (claims
\* of websocket_owner.py, by the registry or by the bridge).
OneDocument ==
  /\ \A o, p \in Live : Doc(o) = Doc(p)
  /\ \A o \in Live : call = "up" /\ ~local => pin = Doc(o)

\* A handler that serves a local call holds the lease that is current, whatever
\* handler of the same document gives its own lease up late (release_media by
\* token, and only without owners).
SocketHasLease ==
  \A r \in Requests :
    local /\ call = "up" /\ pc[r] \in {"prepared", "bound", "open"}
      => lease # None /\ lease.token = held[r] /\ lease.document = Doc(r)

\* Sockets, pins and leases name one browser document per call.
SocketsAreOwned == OneDocument /\ SocketHasLease

\* A document never hears what was queued for another one: every frame in a queue
\* was queued for the current lease (clear_queued_media on acquire and release).
LiveEdge ==
  \A ch \in Channels : \A i \in 1..Len(queue[ch]) :
    lease # None /\ queue[ch][i] = lease.token

\* When the unload goes on, the only sockets left are those it reported as not
\* confirmed: no request took a channel behind it (_async_shutdown_all).
ShutdownFinal == phase = "down" => Live \subseteq asked

\* After the end of the call every socket gives its channel up, one that was
\* attaching at that moment included.
CallEndFreesMedia == (call = "over") ~> (Live = {})

=============================================================================
