------------------------------ MODULE SipCall ------------------------------
(***************************************************************************)
(* One call between our SIP client and a SIP listener (another instance of  *)
(* the same integration) over UDP: what each end believes of the dialog.    *)
(***************************************************************************)
EXTENDS SipClient, SipListener

vars == <<wire, clientVars, listenerVars>>

Init == ClientInit /\ ListenerInit /\ toListener = <<>> /\ toClient = {}

Client == UNCHANGED listenerVars
Listener == UNCHANGED <<clientVars, byeLost>>

-----------------------------------------------------------------------------
(* Timers.  The listener gives up after 32 s, the client's own Timer B; no   *)
(* copy of the INVITE travels, or is still sent, for so long.  Nobody hangs  *)
(* up within the round trip of his own answer.                               *)

Settled ==
    /\ \A i \in 1 .. Len(toListener) : toListener[i].kind # "INVITE"
    /\ inv # "running" \/ progress

ListenerGivesUp == ErrorForgotten /\ Settled /\ Listener

NoAckComes == ListenerHangsUp /\ ackPending /\ Settled /\ Listener

UserHangsUp == ListenerHangsUp /\ Settled /\ Listener

-----------------------------------------------------------------------------

ListenerRuns == (PolicyReturns \/ UserDecides \/ FinalRepeats) /\ Listener

Delivers(again) == (again => Room) /\ Receives(again) /\ Listener

ClientActs ==
    /\ \/ InviteStarts \/ InviteRepeats \/ FlowCancelled \/ CleanupStarts
       \/ ClientTimeouts \/ ClientRuns
       \/ \E m \in toClient : ClientReads(m)
    /\ Client

\* The network remembers a lost BYE, which its sender does not repeat.
Loses ==
    /\ \/ LoseRequest /\ byeLost' = (byeLost \/ Head(toListener).kind = "BYE")
       \/ (\E m \in toClient : LoseResponse(m)) /\ UNCHANGED byeLost
    /\ UNCHANGED <<clientVars, auth, pend, comp, act, ackPending, byeDone>>

Next ==
    \/ ClientActs
    \/ ListenerRuns
    \/ \E again \in BOOLEAN : Delivers(again)
    \/ UserHangsUp
    \/ ListenerGivesUp
    \/ Loses

\* Tasks run and timers go off; the network delivers at last what it does not
\* lose, and whoever reads the client's queue drains it.
Fairness ==
    /\ WF_vars(Delivers(FALSE))
    /\ WF_vars(PolicyReturns /\ Listener)
    /\ WF_vars(UserDecides /\ Listener)
    /\ WF_vars(NoAckComes)
    /\ WF_vars(ListenerGivesUp)
    /\ WF_vars(ClientRuns /\ Client)
    /\ WF_vars(ClientTimeouts /\ Client)
    /\ WF_vars(CleanupStarts /\ flow = "left" /\ Client)

Spec == Init /\ [][Next]_vars /\ Fairness

-----------------------------------------------------------------------------
(* Properties *)

\* Types of the wire, of SipCallClient and of SipUdpEndpoint.
SipTypeOK == WireTypeOK /\ ClientTypeOK /\ ListenerTypeOK

\* The ends agree on a call: while the listener holds a dialog whose answer was
\* acknowledged, the client holds it too or its BYE is on the way or was lost there,
\* whichever of CANCEL, timeout, close and late 200 came first (sip_client._close,
\* _commit_200_ok, terminate).
ConfirmedAgrees ==
    act /\ ~ackPending =>
        \/ dialog
        \/ \E i \in 1 .. Len(toListener) : toListener[i].kind = "BYE"
        \/ byeLost

\* Once the client's flow is over, the client closes and the listener is left with no
\* pending INVITE, no error to repeat and no dialog, though messages of every kind are
\* lost, repeated and reordered: no phone rings on for a caller that has gone.  The
\* client sends its BYE once (terminate, _send_dialog_request), so a dialog whose BYE
\* was lost stays, and nothing else does.
EndsAtBothEnds == flow = "left" ~> /\ cleanup = "done" /\ pend = "none" /\ comp = "none"
                                   /\ act => byeLost

=============================================================================
