----------------------------- MODULE SipClient -----------------------------
(***************************************************************************)
(* SipCallClient (sip_client.py): one outbound INVITE, its cancellation,    *)
(* the dialog and the client's close, over UDP.                             *)
(*                                                                         *)
(* The flow that places the call awaits invite(), wait_for_final() and      *)
(* wait_for_dialog_termination() in turn and may be cancelled in each; a    *)
(* cleanup calls terminate() and close(), or close() alone, at any time.    *)
(* Whoever awaits _read_response takes the next message of the one queue:   *)
(* two readers may compete for it.  Every timeout may come at any time.     *)
(***************************************************************************)
EXTENDS SipWire

CONSTANT MaxByes   \* bound: later BYEs share the last number

ASSUME ClientConstants == MaxByes \in Nat \ {0}

VARIABLES
    inv,         \* the INVITE task: "none", "running" or how it ended
    fin,         \* the task of wait_for_final, likewise
    active,      \* _invite_transaction_active
    cancelReq,   \* _cancel_requested
    cancelSent,  \* _cancel_sent
    prov,        \* _received_provisional
    progress,    \* received_provisional of the INVITE being repeated
    dialog,      \* self.dialog is not None
    cseq,        \* _invite_cseq, with its branch
    byes,        \* BYEs sent; the last one's _bye_cseq
    closing,     \* _closing
    flow,        \* what the caller's task awaits
    cleanup,     \* the cleanup: "none", "terminate", "close" or "done"
    term,        \* where terminate() awaits
    saw,         \* what terminate() has seen of a cancelled INVITE
    closeAt      \* where _close() awaits

clientTx == <<active, cancelReq, cancelSent, prov, progress, cseq>>
clientTasks == <<inv, fin>>
clientClose == <<cleanup, term, saw, closeAt, closing>>
clientVars == <<clientTasks, clientTx, dialog, byes, flow, clientClose>>

HasSignalingPath == closeAt # "closed"      \* self.transport is not None

\* How the tasks end; "failed" is every end that leaves no call (timeout,
\* cancelled, declined, aborted).
InviteEnds == {"ringing", "in_call", "failed"}

ClientTypeOK ==
    /\ inv \in {"none", "running"} \cup InviteEnds
    /\ fin \in {"none", "running"} \cup (InviteEnds \ {"ringing"})
    /\ active \in BOOLEAN /\ cancelReq \in BOOLEAN /\ cancelSent \in BOOLEAN
    /\ prov \in BOOLEAN /\ progress \in BOOLEAN /\ dialog \in BOOLEAN
    /\ cseq \in {1, 2} /\ byes \in 0 .. MaxByes /\ closing \in BOOLEAN
    /\ flow \in {"invite", "final", "dialog", "left"}
    /\ cleanup \in {"none", "terminate", "close", "done"}
    /\ term \in {"none", "starting", "bye", "join", "cancel", "returned"}
    /\ saw \subseteq {"cancel ok", "invite over", "race bye"}
    /\ closeAt \in {"none", "starting", "signaling", "joining", "closed"}
    /\ ~HasSignalingPath => "running" \notin {inv, fin}

ClientInit ==
    /\ inv = "none" /\ fin = "none"
    /\ active = FALSE /\ cancelReq = FALSE /\ cancelSent = FALSE
    /\ prov = FALSE /\ progress = FALSE /\ dialog = FALSE
    /\ cseq = 1 /\ byes = 0 /\ closing = FALSE
    /\ flow = "invite" /\ cleanup = "none"
    /\ term = "none" /\ saw = {} /\ closeAt = "none"

Ack == Request("ACK", cseq)
AckError == Request("ACK error", cseq)
NextBye == IF byes < MaxByes THEN byes + 1 ELSE byes
Bye == Request("BYE", NextBye)

-----------------------------------------------------------------------------
(* Cancelling *)

CancelNow == prov /\ ~cancelSent

\* request_cancel of an active transaction; `before' is sent in front of it.
RequestCancel(before) ==
    /\ cancelReq' = TRUE
    /\ cancelSent' = (cancelSent \/ CancelNow)
    /\ Send(before \o IF CancelNow THEN <<Request("CANCEL", cseq)>> ELSE <<>>)

NoCancel == UNCHANGED <<cancelReq, cancelSent>>

-----------------------------------------------------------------------------
(* The INVITE task, _run_invite *)

InviteStarts ==
    /\ flow = "invite" /\ inv = "none" /\ ~closing
    /\ inv' = "running" /\ active' = TRUE
    /\ Send(<<Request("INVITE", cseq)>>)
    /\ UNCHANGED <<toClient, fin, cancelReq, cancelSent, prov, progress, cseq, dialog, byes, flow, clientClose>>

\* Timer A, until a provisional response
InviteRepeats ==
    /\ inv = "running" /\ ~progress /\ Room
    /\ Send(<<Request("INVITE", cseq)>>)
    /\ UNCHANGED <<toClient, clientVars>>

InviteTimesOut ==
    /\ inv = "running"
    /\ inv' = "failed"
    /\ UNCHANGED <<wire, fin, clientTx, dialog, byes, flow, clientClose>>

\* Variant of Commits: a client that is closing accepts the late answer.
CommitsAlways(compatible) == compatible

\* _commit_200_ok accepts the answer; otherwise it acknowledges and ends it.
Commits(compatible) == compatible /\ ~closing

\* What a 2xx makes the client send, and what becomes of the dialog; `ended' is
\* whether the reader says BYE to a dialog it has just accepted.
CommitAnswer(compatible, ended) ==
    /\ active' = FALSE
    /\ dialog' = (dialog \/ Commits(compatible))
    /\ IF ended \/ ~Commits(compatible)
         THEN Send(<<Ack, Bye>>) /\ byes' = NextBye
         ELSE Send(<<Ack>>) /\ UNCHANGED byes

InviteReads(m) ==
    /\ inv = "running" /\ m \in toClient /\ Taken(m)
    /\ IF m.kind \notin {"100", "180", "200", "401", "final"} \/ m.seq # cseq
         THEN UNCHANGED <<toListener, inv, clientTx, dialog, byes>>
         ELSE \/ /\ m.kind \in {"100", "180"}
                 /\ prov' = TRUE /\ progress' = TRUE
                 /\ inv' = IF m.kind = "180" /\ ~cancelReq THEN "ringing" ELSE inv
                 /\ cancelSent' = (cancelSent \/ cancelReq)
                 /\ Send(IF cancelReq /\ ~cancelSent THEN <<Request("CANCEL", cseq)>> ELSE <<>>)
                 /\ UNCHANGED <<active, cancelReq, cseq, dialog, byes>>
              \/ /\ m.kind = "200"
                 /\ \E compatible \in BOOLEAN :
                      /\ CommitAnswer(compatible, cancelReq)
                      /\ inv' = IF Commits(compatible) /\ ~cancelReq THEN "in_call" ELSE "failed"
                 /\ NoCancel /\ UNCHANGED <<prov, progress, cseq>>
              \/ /\ m.kind = "401" /\ cseq = 1 /\ ~cancelReq
                 /\ cseq' = 2 /\ progress' = FALSE
                 /\ Send(<<AckError, Request("INVITE", 2)>>)
                 /\ NoCancel /\ UNCHANGED <<inv, active, prov, dialog, byes>>
              \/ /\ m.kind = "final" \/ (m.kind = "401" /\ cancelReq)
                 /\ inv' = "failed"
                 /\ active' = FALSE
                 /\ Send(<<AckError>>)
                 /\ NoCancel /\ UNCHANGED <<prov, progress, cseq, dialog, byes>>
    /\ UNCHANGED <<fin, flow, clientClose>>

-----------------------------------------------------------------------------
(* The task of wait_for_final *)

FinalReads(m) ==
    /\ fin = "running" /\ m \in toClient /\ Taken(m)
    /\ IF m.kind \notin {"200", "final", "401"} \/ m.seq # cseq
         THEN UNCHANGED <<toListener, fin, active, dialog, byes>>
         ELSE \/ /\ m.kind = "200"
                 /\ \E compatible \in BOOLEAN :
                      /\ CommitAnswer(compatible, FALSE)
                      /\ fin' = IF Commits(compatible) THEN "in_call" ELSE "failed"
              \/ /\ m.kind # "200"
                 /\ fin' = "failed" /\ active' = FALSE
                 /\ Send(<<AckError>>)
                 /\ UNCHANGED <<dialog, byes>>
    /\ UNCHANGED <<inv, cancelReq, cancelSent, prov, progress, cseq, flow, clientClose>>

FinalTimesOut ==
    /\ fin = "running"
    /\ fin' = "failed"
    /\ UNCHANGED <<wire, inv, clientTx, dialog, byes, flow, clientClose>>

-----------------------------------------------------------------------------
(* The flow that uses the client *)

FlowGoesOn ==
    /\ \/ /\ flow = "invite" /\ inv = "ringing"
          /\ IF closing
               THEN flow' = "left" /\ UNCHANGED fin
               ELSE IF dialog
                 THEN flow' = "dialog" /\ UNCHANGED fin
                 ELSE flow' = "final" /\ fin' = "running"
       \/ /\ flow = "invite" /\ inv \in InviteEnds \ {"ringing"}
          /\ flow' = IF inv = "in_call" THEN "dialog" ELSE "left"
          /\ UNCHANGED fin
       \/ /\ flow = "final" /\ fin \in InviteEnds
          /\ flow' = IF fin = "in_call" THEN "dialog" ELSE "left"
          /\ UNCHANGED fin
    /\ UNCHANGED <<wire, inv, clientTx, dialog, byes, clientClose>>

\* CancelledError in invite() or wait_for_final(): the task they shield goes on.
FlowCancelled ==
    /\ flow # "left" /\ inv # "none"
    /\ flow' = "left"
    /\ IF flow # "dialog" /\ active
         THEN RequestCancel(<<>>)
         ELSE NoCancel /\ UNCHANGED toListener
    /\ UNCHANGED <<toClient, clientTasks, active, prov, progress, cseq, dialog, byes, clientClose>>

\* wait_for_dialog_termination: the far end's BYE ends the dialog, a repeated
\* 2xx is acknowledged again.
DialogReads(m) ==
    /\ flow = "dialog" /\ HasSignalingPath /\ m \in toClient /\ Taken(m)
    /\ IF m.kind = "BYE"
         THEN /\ dialog' = FALSE
              /\ flow' = IF dialog THEN "left" ELSE flow
              /\ UNCHANGED toListener
         ELSE /\ UNCHANGED <<dialog, flow>>
              /\ Send(IF dialog /\ m.kind = "200" /\ m.seq = cseq THEN <<Ack>> ELSE <<>>)
    /\ UNCHANGED <<clientTasks, clientTx, byes, clientClose>>

-----------------------------------------------------------------------------
(* terminate() *)

TerminateStarts ==
    /\ term = "starting"
    /\ saw' = {}
    /\ IF dialog
         THEN term' = "bye" /\ Send(<<Bye>>) /\ byes' = NextBye /\ NoCancel
         ELSE /\ UNCHANGED byes
              /\ IF active
                   THEN /\ term' = IF inv = "running" THEN "join" ELSE "cancel"
                        /\ RequestCancel(<<>>)
                   ELSE term' = "returned" /\ NoCancel /\ UNCHANGED toListener
    /\ UNCHANGED <<toClient, clientTasks, active, prov, progress, cseq, dialog, flow, cleanup, closeAt, closing>>

\* The loop after BYE
ByeReads(m) ==
    /\ term = "bye" /\ m \in toClient /\ Taken(m)
    /\ IF m.kind = "BYE 200" /\ m.seq = byes
         THEN term' = "returned" /\ dialog' = FALSE /\ UNCHANGED toListener
         ELSE /\ UNCHANGED <<term, dialog>>
              /\ Send(IF dialog /\ m.kind = "200" /\ m.seq = cseq THEN <<Ack>> ELSE <<>>)
    /\ UNCHANGED <<clientTasks, clientTx, byes, flow, cleanup, saw, closeAt, closing>>

\* "RFC 3261 requires us to accept it, ACK it, then end the confirmed dialog."
AnswerAfterCancel(compatible) == CommitAnswer(compatible, TRUE)

\* The loop after CANCEL: 200 to the CANCEL and a final response, or the 200 to
\* the INVITE that crossed it.
CancelReads(m) ==
    /\ term = "cancel" /\ m \in toClient /\ Taken(m)
    /\ \/ /\ m.kind = "CANCEL 200" /\ m.seq = cseq
          /\ saw' = saw \cup {"cancel ok"}
          /\ UNCHANGED <<toListener, active, dialog, byes>>
       \/ /\ m.kind = "200" /\ m.seq = cseq
          /\ \E compatible \in BOOLEAN : AnswerAfterCancel(compatible)
          /\ saw' = saw \cup {"race bye"}
       \/ /\ m.kind \in {"final", "401"} /\ m.seq = cseq
          /\ active' = FALSE /\ saw' = saw \cup {"invite over"}
          /\ Send(<<AckError>>)
          /\ UNCHANGED <<dialog, byes>>
       \/ /\ m.kind = "BYE 200" /\ m.seq = byes
          /\ dialog' = (dialog /\ "race bye" \notin saw)
          /\ UNCHANGED <<toListener, active, byes, saw>>
       \/ /\ m.kind \notin {"CANCEL 200", "200", "final", "401", "BYE 200"}
             \/ (m.kind # "BYE 200" /\ m.seq # cseq) \/ (m.kind = "BYE 200" /\ m.seq # byes)
          /\ UNCHANGED <<toListener, active, dialog, byes, saw>>
    /\ term' = IF \/ {"cancel ok", "invite over"} \subseteq saw'
                  \/ m.kind = "BYE 200" /\ m.seq = byes /\ "race bye" \in saw
               THEN "returned" ELSE term
    /\ UNCHANGED <<clientTasks, cancelReq, cancelSent, prov, progress, cseq, flow, cleanup, closeAt, closing>>

\* The INVITE task has ended, or the 1.5 s are over.  The close that terminate()
\* leaves behind for a pending INVITE is the one its caller starts next.
TerminateReturns ==
    /\ term \in {"bye", "join", "cancel"}
    /\ term' = "returned"
    /\ UNCHANGED <<wire, clientTasks, clientTx, dialog, byes, flow, cleanup, saw, closeAt, closing>>

-----------------------------------------------------------------------------
(* async_cleanup_sip_runtime and close() *)

CleanupStarts ==
    /\ cleanup = "none" /\ inv # "none"
    /\ \/ cleanup' = "terminate" /\ term' = "starting" /\ UNCHANGED <<closeAt, closing>>
       \/ cleanup' = "close" /\ closing' = TRUE /\ closeAt' = "starting" /\ UNCHANGED term
    /\ UNCHANGED <<wire, clientTasks, clientTx, dialog, byes, flow, saw>>

CleanupCloses ==
    /\ cleanup = "terminate" /\ term = "returned"
    /\ cleanup' = "close" /\ closing' = TRUE /\ closeAt' = "starting" /\ term' = "none"
    /\ UNCHANGED <<wire, clientTasks, clientTx, dialog, byes, flow, saw>>

\* The task that _close() gives 1.5 s, one it creates if there is none.
OwnedTask ==
    IF fin = "running" THEN "final"
    ELSE IF inv = "running" THEN "invite"
    ELSE IF dialog \/ active THEN "terminate" ELSE "none"

CloseRuns ==
    /\ closeAt = "starting"
    /\ closeAt' = IF OwnedTask = "none" THEN "joining" ELSE "signaling"
    /\ term' = IF OwnedTask = "terminate" THEN "starting" ELSE term
    /\ IF active
         THEN RequestCancel(<<>>)
         ELSE NoCancel /\ UNCHANGED toListener
    /\ UNCHANGED <<toClient, clientTasks, active, prov, progress, cseq, dialog, byes, flow, cleanup, saw, closing>>

Aborted(task) == IF task = "running" THEN "failed" ELSE task

\* The owned task has ended or the 1.5 s are over: what lingers is cancelled.
\* A terminate() that starts in the same tick has always sent its request.
CloseForces ==
    /\ closeAt = "signaling" /\ term # "starting"
    /\ closeAt' = "joining"
    /\ inv' = Aborted(inv) /\ fin' = Aborted(fin)
    /\ term' = "returned"
    /\ UNCHANGED <<wire, clientTx, dialog, byes, flow, cleanup, saw, closing>>

\* The lingering tasks are joined, the transport goes.
CloseEnds ==
    /\ closeAt = "joining"
    /\ closeAt' = "closed" /\ cleanup' = "done"
    /\ active' = FALSE /\ dialog' = FALSE
    /\ UNCHANGED <<wire, clientTasks, cancelReq, cancelSent, prov, progress, cseq, byes, flow, term, saw, closing>>

-----------------------------------------------------------------------------

ClientReads(m) == InviteReads(m) \/ FinalReads(m) \/ DialogReads(m) \/ ByeReads(m) \/ CancelReads(m)

ClientTimeouts == InviteTimesOut \/ FinalTimesOut \/ TerminateReturns \/ CloseForces

ClientRuns == FlowGoesOn \/ TerminateStarts \/ CleanupCloses \/ CloseRuns \/ CloseEnds

=============================================================================
