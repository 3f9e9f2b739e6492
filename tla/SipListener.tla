---------------------------- MODULE SipListener ----------------------------
(***************************************************************************)
(* SipUdpEndpoint (sip_listener.py) for one Call-ID over UDP: the pending   *)
(* INVITE, its final response repeated until the ACK, CANCEL, the dialog    *)
(* and its BYE.  What the call does above the listener is in InboundCall.   *)
(*                                                                         *)
(* A proxy in front of the listener may challenge the first INVITE.         *)
(***************************************************************************)
EXTENDS SipWire

VARIABLES
    auth,          \* the proxy challenges the INVITE of CSeq 1
    pend,          \* pending_invites: "none" or the state of the entry
    comp,          \* completed_invites holds an error, repeated until its ACK
    act,           \* active_dialogs has the dialog
    ackPending,    \* its pending_ack_cseq is not 0 and the 200 is repeated
    byeDone,       \* the CSeq of the BYE in completed_byes, 0 if none
    byeLost        \* history: a BYE to this end was lost on its way

listenerVars == <<auth, pend, comp, act, ackPending, byeDone, byeLost>>

ListenerTypeOK ==
    /\ auth \in BOOLEAN
    /\ pend \in {"none", "trying", "ringing"}
    /\ comp \in {"none", "cancelled", "rejected"}
    /\ act \in BOOLEAN /\ ackPending \in BOOLEAN /\ byeDone \in Nat /\ byeLost \in BOOLEAN

ListenerInit ==
    /\ auth \in BOOLEAN
    /\ pend = "none" /\ comp = "none"
    /\ act = FALSE /\ ackPending = FALSE /\ byeDone = 0 /\ byeLost = FALSE

\* The CSeq of the INVITE that reaches the listener
Served == IF auth THEN 2 ELSE 1

Idle == pend = "none" /\ comp = "none" /\ ~act

-----------------------------------------------------------------------------
(* Final responses *)

\* A 2xx opens the dialog and is repeated until its ACK, an error until its own.
Concludes(answered, cause) ==
    /\ pend' = "none"
    /\ Answer({Response(IF answered THEN "200" ELSE "final", Served)})
    /\ IF answered
         THEN act' = TRUE /\ ackPending' = TRUE /\ UNCHANGED comp
         ELSE comp' = cause /\ UNCHANGED <<act, ackPending>>

\* on_invite returns: the call rings, or the policy answers or rejects it.
PolicyReturns ==
    /\ pend = "trying"
    /\ \/ /\ pend' = "ringing"
          /\ Answer({Response("180", Served)})
          /\ UNCHANGED <<comp, act, ackPending>>
       \/ \E answered \in BOOLEAN : Concludes(answered, "rejected")
    /\ UNCHANGED <<toListener, auth, byeDone>>

\* send_final_response by the user, or by the expiry of the pending INVITE
UserDecides ==
    /\ pend = "ringing"
    /\ \E answered \in BOOLEAN : Concludes(answered, "rejected")
    /\ UNCHANGED <<toListener, auth, byeDone>>

\* Timer G, and the 2xx of a dialog without ACK
FinalRepeats ==
    /\ \/ ackPending /\ Answer({Response("200", Served)})
       \/ comp # "none" /\ Answer({Response("final", Served)})
    /\ UNCHANGED <<toListener, auth, pend, comp, act, ackPending, byeDone>>

\* Timer H
ErrorForgotten ==
    /\ comp # "none"
    /\ comp' = "none"
    /\ UNCHANGED <<wire, auth, pend, act, ackPending, byeDone>>

\* send_bye: by the user, or because no ACK came in time
ListenerHangsUp ==
    /\ act
    /\ act' = FALSE /\ ackPending' = FALSE
    /\ Answer({Response("BYE", Served)})
    /\ UNCHANGED <<toListener, auth, pend, comp, byeDone>>

-----------------------------------------------------------------------------
(* Requests *)

\* The answer the listener repeats to a repeated INVITE
Repeated == IF act THEN "200" ELSE IF pend = "trying" THEN "100"
            ELSE IF pend = "ringing" THEN "180" ELSE "final"

GetsInvite ==
    /\ IF Idle THEN pend' = "trying" /\ Answer({Response("100", Served)})
               ELSE Answer({Response(Repeated, Served)}) /\ UNCHANGED pend
    /\ UNCHANGED <<comp, act, ackPending, byeDone>>

GetsCancel(n) ==
    /\ IF pend # "none" /\ n = Served
         THEN /\ pend' = "none" /\ comp' = "cancelled"
              /\ Answer({Response("CANCEL 200", n), Response("final", n)})
         ELSE /\ Answer({Response(IF comp = "cancelled" /\ n = Served
                                    THEN "CANCEL 200" ELSE "CANCEL 481", n)})
              /\ UNCHANGED <<pend, comp>>
    /\ UNCHANGED <<act, ackPending, byeDone>>

GetsErrorAck(n) ==
    /\ comp' = IF n = Served THEN "none" ELSE comp
    /\ UNCHANGED <<toClient, pend, act, ackPending, byeDone>>

GetsAck ==
    /\ ackPending' = FALSE
    /\ UNCHANGED <<toClient, pend, comp, act, byeDone>>

\* Variant of GetsBye: the dialog stays until the user hangs up.
ByeKeepsDialog(n) ==
    /\ byeDone' = n /\ Answer({Response("BYE 200", n)})
    /\ UNCHANGED <<pend, comp, act, ackPending>>

GetsBye(n) ==
    /\ act' = FALSE /\ ackPending' = FALSE
    /\ byeDone' = IF act THEN n ELSE byeDone
    /\ Answer({Response(IF act \/ byeDone = n THEN "BYE 200" ELSE "BYE 481", n)})
    /\ UNCHANGED <<pend, comp>>

\* The proxy, for the INVITE it challenges
ProxyGets(m) ==
    /\ Answer(IF m.kind = "INVITE" THEN {Response("401", m.seq)}
              ELSE IF m.kind = "CANCEL" THEN {Response("CANCEL 481", m.seq)} ELSE {})
    /\ UNCHANGED <<pend, comp, act, ackPending, byeDone>>

Gets(m) ==
    IF m.seq < Served /\ m.kind \in {"INVITE", "CANCEL", "ACK error"}
      THEN ProxyGets(m)
      ELSE \/ m.kind = "INVITE" /\ GetsInvite
           \/ m.kind = "CANCEL" /\ GetsCancel(m.seq)
           \/ m.kind = "ACK error" /\ GetsErrorAck(m.seq)
           \/ m.kind = "ACK" /\ GetsAck
           \/ m.kind = "BYE" /\ GetsBye(m.seq)

\* _handle_datagram of the oldest request, delivered once or to be repeated
Receives(again) ==
    /\ toListener # <<>>
    /\ Gets(Head(toListener))
    /\ toListener' = IF again THEN toListener ELSE Tail(toListener)
    /\ UNCHANGED auth

=============================================================================
