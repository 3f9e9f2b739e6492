---------------------------- MODULE InboundCall ----------------------------
(***************************************************************************)
(* One inbound INVITE on its way to a browser phone, from the SIP listener *)
(* (sip_listener.py) over the inbound policy and the trunk router          *)
(* (endpoint_runtime.py) to the answer, decline and hangup services        *)
(* (softphone_*.py, inbound_answer.py) and the termination callback.       *)
(*                                                                         *)
(* asyncio is cooperative: code between two awaits is one action.  The     *)
(* session's own cleanup barrier is EndpointSession; here it is one step,  *)
(* SessionCloses, that gives back what the session still owns.             *)
(***************************************************************************)
EXTENDS Naturals, FiniteSets

CONSTANTS
    Tablets,        \* concurrent calls of the answer service
    Ports,          \* RTP reservations, each allocated at most once
    BridgePorts,    \* the one the trunk reserves to pre-answer
    NoPorts,        \* no reservation in hand
    Routes,         \* what the inbound policy may do with the INVITE:
                    \*   "direct"    180, the phone rings (no early media)
                    \*   "early"     183, digits by RFC 4733 in early media
                    \*   "confirmed" 200 at once, digits by SIP INFO
    SendOutcomes,   \* results of handing a message to the transport
    MaxGenerations  \* bound on the sessions created for this Call-ID

Generations == 1 .. MaxGenerations

ASSUME InboundConstants ==
    /\ Routes \subseteq {"direct", "early", "confirmed"}
    /\ SendOutcomes \subseteq BOOLEAN /\ TRUE \in SendOutcomes
    /\ BridgePorts \in Ports /\ NoPorts \notin Ports \cup Tablets
    /\ Tablets \cap {"free", "preanswered", "softphone", "released"} = {}
    /\ MaxGenerations \in Nat \ {0}

VARIABLES
    tx,        \* the listener's INVITE: "idle", "routing" (on_invite awaits),
               \* "pending" (deferred), "rejected", "dialog", "ended"
    stored,    \* final status kept by a failed send: "none", "2xx", "non2xx"
    finals,    \* how many final responses the INVITE was sent
    expiry,    \* the pending INVITE's expiry task is armed
    policy,    \* on_invite: "none", "awaiting", "done"
    route,     \* what on_invite decides
    router,    \* the trunk DTMF task: "none", "collecting", "done"
    invite,    \* registry.pending_invites holds the call
    record,    \* generation of registry.sessions[call_id], 0 without a record
    tomb,      \* the Call-ID is in terminated_call_ids
    closed,    \* the Call-ID is in trunk_closed_calls
    phase,     \* [Generations -> "none", "live", "terminating", "terminated"]
    where,     \* [Ports -> "free", an answering tablet, "preanswered",
               \*           "softphone", "released"]
    owner,     \* [Ports -> the generation whose session closes them, or 0]
    tablet,    \* [Tablets -> "idle", "awaiting", "rollback", "failing",
               \*             "terminating", "done"]
    hand,      \* [Tablets -> the reservation a tablet answers with]
    seen,      \* [Tablets -> the generation it answers]
    loop       \* the task that has not yielded yet, or NoPorts

listener == <<tx, stored, finals, expiry>>
dispatch == <<policy, route, router>>
registry == <<invite, record, tomb, closed>>
media == <<where, owner>>
answers == <<tablet, hand, seen>>
inboundVars == <<listener, dispatch, registry, phase, media, answers, loop>>

InboundTypeOK ==
    /\ tx \in {"idle", "routing", "pending", "rejected", "dialog", "ended"}
    /\ stored \in {"none", "2xx", "non2xx"}
    /\ finals \in Nat
    /\ expiry \in BOOLEAN
    /\ policy \in {"none", "awaiting", "done"}
    /\ route \in Routes
    /\ router \in {"none", "collecting", "done"}
    /\ invite \in BOOLEAN /\ tomb \in BOOLEAN /\ closed \in BOOLEAN
    /\ record \in {0} \cup Generations
    /\ phase \in [Generations -> {"none", "live", "terminating", "terminated"}]
    /\ where \in [Ports -> Tablets \cup {"free", "preanswered", "softphone", "released"}]
    /\ owner \in [Ports -> {0} \cup Generations]
    /\ tablet \in [Tablets -> {"idle", "awaiting", "rollback", "failing", "terminating", "done"}]
    /\ hand \in [Tablets -> Ports \cup {NoPorts}]
    /\ \A t \in Tablets : hand[t] = NoPorts => tablet[t] \in {"idle", "awaiting"}
    /\ seen \in [Tablets -> {0} \cup Generations]
    /\ loop \in Tablets \cup {NoPorts}

Yielded == loop = NoPorts

-----------------------------------------------------------------------------
(* The SIP listener *)

\* The listener still has the INVITE in its pending_invites.
TxPending == tx \in {"routing", "pending"}

\* Variant of FinalFrom: the answered INVITE stays among the pending ones.
FinalKeepsPending(kind) == tx

FinalFrom(kind) == IF kind = "2xx" THEN "dialog" ELSE "rejected"

\* send_final_response: returns whether the response went out.  The expiry
\* is cancelled and the status stored even when it did not.
SendFinal(kind, sent) ==
    IF ~TxPending
      THEN ~sent /\ UNCHANGED listener
      ELSE /\ sent \in SendOutcomes
           /\ expiry' = FALSE
           /\ IF sent
                THEN /\ tx' = FinalFrom(kind)
                     /\ finals' = finals + 1
                     /\ stored' = "none"
                ELSE /\ stored' = kind
                     /\ UNCHANGED <<tx, finals>>

\* send_bye: only an active dialog can be sent a BYE.
SendBye ==
    \E sent \in SendOutcomes :
        /\ tx' = IF tx = "dialog" /\ sent THEN "ended" ELSE tx
        /\ UNCHANGED <<stored, finals, expiry>>

-----------------------------------------------------------------------------
(* The registry and the runtime's sessions *)

LiveGenerations == {g \in Generations : phase[g] = "live"}

EndSession(g) == [h \in Generations |->
    IF h = g /\ phase[h] = "live" THEN "terminating" ELSE phase[h]]

\* finish_and_pop
FinishAndPop ==
    /\ invite' = FALSE
    /\ record' = 0
    /\ tomb' = TRUE
    /\ phase' = EndSession(record)

\* upsert, when it does not raise: join the live session or start the next
\* generation; a record that is still there keeps its own generation.
CanUpsert ==
    /\ \A g \in Generations : phase[g] # "terminating"
    /\ \E g \in Generations : phase[g] \in {"live", "none"}

UpsertGeneration ==
    IF LiveGenerations # {}
      THEN CHOOSE g \in Generations : phase[g] = "live"
      ELSE CHOOSE g \in Generations :
              /\ phase[g] = "none"
              /\ \A h \in Generations : phase[h] = "none" => g <= h

Upsert ==
    /\ phase' = [phase EXCEPT ![UpsertGeneration] = "live"]
    /\ record' = IF record = 0 THEN UpsertGeneration ELSE record

Early == {m \in Ports : where[m] = "preanswered"}
Active == {m \in Ports : where[m] = "softphone"}

Returned(S) ==
    /\ where' = [m \in Ports |-> IF m \in S THEN "released" ELSE where[m]]
    /\ UNCHANGED owner

\* _on_terminated: the first observer of the end tears the call down.
OnTerminated ==
    IF tomb
      THEN UNCHANGED <<registry, phase, media>>
      ELSE /\ FinishAndPop
           /\ closed' = TRUE
           /\ Returned(Early \cup Active)

\* The cleanup barrier of a session gives back what it still owns.
SessionCloses(g) ==
    /\ phase[g] = "terminating"
    /\ phase' = [phase EXCEPT ![g] = "terminated"]
    /\ Returned({m \in Early \cup Active : owner[m] = g})
    /\ UNCHANGED <<listener, dispatch, registry, answers, loop>>

-----------------------------------------------------------------------------

InboundInit ==
    /\ tx = "idle" /\ stored = "none" /\ finals = 0 /\ expiry = FALSE
    /\ policy = "none" /\ route \in Routes /\ router = "none"
    /\ invite = FALSE /\ record = 0 /\ tomb = FALSE /\ closed = FALSE
    /\ phase = [g \in Generations |-> "none"]
    /\ where = [m \in Ports |-> "free"] /\ owner = [m \in Ports |-> 0]
    /\ tablet = [t \in Tablets |-> "idle"]
    /\ hand = [t \in Tablets |-> NoPorts]
    /\ seen = [t \in Tablets |-> 0]
    /\ loop = NoPorts

\* 100 Trying goes out and on_invite starts to route.
ReceiveInvite ==
    /\ tx = "idle"
    /\ tx' = "routing"
    /\ policy' = "awaiting"
    /\ UNCHANGED <<stored, finals, expiry, route, router, registry, phase, media, answers, loop>>

\* The listener's turn after on_invite returned a deferred response: arm the
\* expiry, or report the CANCEL that won the race once more.
Defer ==
    IF tx = "routing"
      THEN tx' = "pending" /\ expiry' = TRUE /\ UNCHANGED <<stored, finals>>
      ELSE UNCHANGED listener

\* _defer_invite_to_ha_softphone called by on_invite.  A CANCEL that came
\* first has left its tombstone, so its second report changes nothing.
PolicyRings ==
    /\ policy = "awaiting" /\ route = "direct"
    /\ policy' = "done"
    /\ invite' = TRUE
    /\ Upsert
    /\ Defer
    /\ UNCHANGED <<route, router, tomb, closed, media, answers, loop>>

\* The trunk pre-answers to collect digits and starts the router task.
PolicyPreanswers ==
    /\ policy = "awaiting" /\ route \in {"early", "confirmed"}
    /\ policy' = "done"
    /\ router' = "collecting"
    /\ closed' = FALSE
    /\ invite' = TRUE
    /\ Upsert
    /\ where' = [where EXCEPT ![BridgePorts] = "preanswered"]
    /\ owner' = [owner EXCEPT ![BridgePorts] = UpsertGeneration]
    /\ IF route = "early" \/ tx # "routing"
         THEN Defer
         ELSE \E sent \in SendOutcomes :
                IF sent
                  THEN tx' = "dialog" /\ finals' = finals + 1 /\ UNCHANGED <<stored, expiry>>
                  ELSE stored' = "2xx" /\ UNCHANGED <<tx, finals, expiry>>
    /\ UNCHANGED <<route, tomb, answers, loop>>

ExpireInvite ==
    /\ expiry /\ tx = "pending"
    /\ \E sent \in SendOutcomes :
        /\ tx' = IF sent THEN "rejected" ELSE "ended"
        /\ finals' = IF sent THEN finals + 1 ELSE finals
    /\ expiry' = FALSE
    /\ UNCHANGED <<stored, dispatch, answers, loop>>
    /\ OnTerminated

\* CANCEL of the pending INVITE: 487 and the termination callback.
ReceiveCancel ==
    /\ TxPending
    /\ \E sent \in SendOutcomes : finals' = IF sent THEN finals + 1 ELSE finals
    /\ tx' = "rejected"
    /\ expiry' = FALSE
    /\ UNCHANGED <<stored, dispatch, answers, loop>>
    /\ OnTerminated

ReceiveBye ==
    /\ tx = "dialog"
    /\ tx' = "ended"
    /\ UNCHANGED <<stored, finals, expiry, dispatch, answers, loop>>
    /\ OnTerminated

\* A retransmitted INVITE is answered with the stored final response.
ReceiveRetransmission ==
    /\ TxPending /\ stored # "none"
    /\ tx' = FinalFrom(stored)
    /\ finals' = finals + 1
    /\ UNCHANGED <<stored, expiry, dispatch, registry, phase, media, answers, loop>>

-----------------------------------------------------------------------------
(* The trunk DTMF router task, from the moment the digits are collected *)

\* The caller hung up while digits were collected.
RouterStops ==
    /\ router = "collecting" /\ closed
    /\ router' = "done"
    /\ closed' = FALSE
    /\ Returned({BridgePorts})
    /\ UNCHANGED <<listener, policy, route, invite, record, tomb, phase, answers, loop>>

\* Declined by the automation, or no such extension.
RouterRejects ==
    /\ router = "collecting" /\ ~closed
    /\ router' = "done"
    /\ IF BridgePorts \in Early /\ route = "early"
         THEN \E sent \in BOOLEAN : SendFinal("non2xx", sent)
         ELSE SendBye
    /\ Returned({BridgePorts})
    /\ FinishAndPop
    /\ UNCHANGED <<policy, route, closed, answers, loop>>

\* The digits lead to the browser phone: it rings with the pre-answered call.
RouterRings ==
    /\ router = "collecting" /\ ~closed
    /\ router' = "done"
    /\ CanUpsert
    /\ invite' = TRUE
    /\ Upsert
    /\ UNCHANGED <<listener, policy, route, tomb, closed, media, answers, loop>>

\* The guard of the task: upsert raised, the route fails closed.
RouterFails ==
    /\ router = "collecting" /\ ~closed
    /\ router' = "done"
    /\ \E g \in Generations : phase[g] = "terminating"
    /\ SendBye
    /\ Returned({BridgePorts})
    /\ FinishAndPop
    /\ UNCHANGED <<policy, route, closed, answers, loop>>

-----------------------------------------------------------------------------
(* The answer service: AnswerTransaction around one claim *)

ResponseAlreadySent(t) == hand[t] = BridgePorts /\ route = "confirmed"

\* Take the early media, if it is still there, before the first await; a
\* dialog that was answered before has nothing to await.
AnswerStart(t) ==
    /\ tablet[t] = "idle"
    /\ invite
    /\ \E g \in LiveGenerations :
        /\ record \in {0, g}
        /\ seen' = [seen EXCEPT ![t] = g]
    /\ tablet' = [tablet EXCEPT ![t] = "awaiting"]
    /\ IF BridgePorts \in Early
         THEN /\ hand' = [hand EXCEPT ![t] = BridgePorts]
              /\ where' = [where EXCEPT ![BridgePorts] = t]
              /\ owner' = [owner EXCEPT ![BridgePorts] = 0]
              /\ loop' = IF route = "confirmed" THEN t ELSE NoPorts
         ELSE UNCHANGED <<hand, media, loop>>
    /\ UNCHANGED <<listener, dispatch, registry, phase>>

\* Variant of PortsFor: no reservation is made.
TakesNothing(t) == {hand[t]}

\* The reservation t answers with: the early media or a new one.
PortsFor(t) ==
    IF hand[t] # NoPorts THEN {hand[t]}
    ELSE {m \in Ports \ {BridgePorts} : where[m] = "free"}

MayCommit(t) ==
    /\ phase[seen[t]] = "live"
    /\ ~\E m \in Active : owner[m] = seen[t]
    /\ invite
    /\ record = seen[t]

\* commit(): claim, transfer to the session, final response, without a yield.
AnswerCommits(t) ==
    /\ tablet[t] = "awaiting"
    /\ MayCommit(t)
    /\ invite' = FALSE
    /\ \E m \in PortsFor(t) :
        /\ hand' = [hand EXCEPT ![t] = m]
        /\ where' = [where EXCEPT ![m] = "softphone"]
        /\ owner' = [owner EXCEPT ![m] = seen[t]]
    /\ IF ResponseAlreadySent(t)
         THEN /\ tablet' = [tablet EXCEPT ![t] = "done"]
              /\ UNCHANGED <<listener, phase>>
         ELSE \E sent \in BOOLEAN :
                /\ SendFinal("2xx", sent)
                /\ tablet' = [tablet EXCEPT ![t] = IF sent THEN "done" ELSE "terminating"]
                /\ phase' = IF sent THEN phase ELSE EndSession(seen[t])
    /\ loop' = NoPorts
    /\ UNCHANGED <<dispatch, record, tomb, closed, seen>>

\* Stale call, lost claim or a name conflict in the session: roll back.
AnswerLoses(t) ==
    /\ tablet[t] = "awaiting"
    /\ ~MayCommit(t)
    /\ \E m \in PortsFor(t) :
        /\ hand' = [hand EXCEPT ![t] = m]
        /\ where' = [where EXCEPT ![m] = IF @ = "free" THEN t ELSE @]
    /\ tablet' = [tablet EXCEPT ![t] = "rollback"]
    /\ loop' = NoPorts
    /\ UNCHANGED <<listener, dispatch, registry, phase, owner, seen>>

\* Variant of RolledBack: the prepared reservation is forgotten.
Forgotten(t) == {}

RolledBack(t) == {hand[t]}

Rollback(t) ==
    /\ tablet[t] = "rollback"
    /\ tablet' = [tablet EXCEPT ![t] = "failing"]
    /\ Returned(RolledBack(t))
    /\ UNCHANGED <<listener, dispatch, registry, phase, hand, seen, loop>>

\* The answer service ends the call it could not answer.
AnswerFails(t) ==
    /\ \/ tablet[t] = "failing"
       \/ tablet[t] = "terminating" /\ phase[seen[t]] = "terminated"
    /\ tablet' = [tablet EXCEPT ![t] = "done"]
    /\ IF ResponseAlreadySent(t) THEN SendBye ELSE UNCHANGED listener
    /\ FinishAndPop
    /\ UNCHANGED <<dispatch, closed, media, hand, seen, loop>>

-----------------------------------------------------------------------------
(* Decline and hangup from a card that shows the call *)

OnCard == invite \/ record # 0

Decline ==
    /\ OnCard
    /\ IF Early # {}
         THEN /\ IF route = "confirmed"
                   THEN SendBye
                   ELSE \E sent \in BOOLEAN : SendFinal("non2xx", sent)
              /\ FinishAndPop
         ELSE \E sent \in BOOLEAN :
                /\ SendFinal("non2xx", sent)
                /\ IF sent
                     THEN FinishAndPop
                     ELSE invite' = FALSE /\ UNCHANGED <<record, tomb, phase>>
    /\ Returned(Early)
    /\ UNCHANGED <<dispatch, closed, answers, loop>>

\* A pending INVITE without early media is due a final response; with early
\* media it is taken for an answered dialog.
FinalDue == invite /\ Early = {} /\ TxPending

Hangup ==
    /\ OnCard
    /\ IF FinalDue
         THEN \E sent \in BOOLEAN : SendFinal("non2xx", sent)
         ELSE SendBye
    /\ Returned(Active \cup (IF invite THEN Early ELSE {}))
    /\ FinishAndPop
    /\ UNCHANGED <<dispatch, closed, answers, loop>>

-----------------------------------------------------------------------------

Remote == ReceiveInvite \/ ReceiveCancel \/ ReceiveBye \/ ReceiveRetransmission

Policy == PolicyRings \/ PolicyPreanswers

Router == RouterStops \/ RouterRejects \/ RouterRings \/ RouterFails

Answer(t) == AnswerCommits(t) \/ AnswerLoses(t) \/ Rollback(t) \/ AnswerFails(t)

InboundNext ==
    \/ Yielded /\ (Remote \/ Policy \/ ExpireInvite \/ Router \/ Decline \/ Hangup)
    \/ Yielded /\ \E g \in Generations : SessionCloses(g)
    \/ \E t \in Tablets : Yielded /\ AnswerStart(t)
    \/ \E t \in Tablets : loop \in {NoPorts, t} /\ Answer(t)

InboundSpec == InboundInit /\ [][InboundNext]_inboundVars

-----------------------------------------------------------------------------
(* Properties *)

\* The INVITE transaction gets one final response, whoever of the caller, the
\* expiry timer, the router and the services comes first (RFC 3261 17.2.1).
OneFinalResponse == finals <= 1

\* Every reservation that is in use has somebody who will give it back: an
\* answer in progress, or a session that is live or still tearing down.
PortsAccounted ==
    \A m \in Ports :
        /\ where[m] \in Tablets =>
              hand[where[m]] = m /\ tablet[where[m]] \in {"awaiting", "rollback"}
        /\ where[m] \in {"preanswered", "softphone"} =>
              owner[m] # 0 /\ phase[owner[m]] \in {"live", "terminating"}

=============================================================================
