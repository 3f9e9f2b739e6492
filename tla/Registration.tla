---------------------------- MODULE Registration ----------------------------
(***************************************************************************)
(* Trunk clients that keep an account registered at a registrar, over UDP   *)
(* (lost, late and repeated datagrams) or TCP (a flow that is lost), while  *)
(* the account is edited, bindings and nonces run out and clients are       *)
(* replaced.                                                                *)
(***************************************************************************)
EXTENDS Registrar, Trunk

CONSTANTS
    Setups,         \* sets of clients that come together, each with the bounds
                    \* [faults, edits, refreshes] on what may happen to them
    MaxListeners    \* bound on the update listeners that run at once

ASSUME RegistrationBounds ==
    /\ MaxListeners \in Nat
    /\ \A s \in Setups : s.clients \subseteq Clients
                       /\ s.bounds \in [{"faults", "edits", "refreshes"} -> Nat]

VARIABLES
    reliable,    \* the clients use TCP
    left         \* what is left of the bounds: faults of the network and of time,
                 \* edits of the account, refreshes that nothing calls for

vars == <<registrar, trunk, reliable, left>>

Init ==
    /\ RegistrarInit
    /\ reliable \in BOOLEAN
    /\ \E s \in Setups : TrunkInit(s.clients) /\ left = s.bounds

Spends(what) == left[what] > 0 /\ left' = [left EXCEPT ![what] = @ - 1]

Free == UNCHANGED left

OfClients == UNCHANGED registrar /\ UNCHANGED reliable
OfRegistrar == UNCHANGED trunk /\ UNCHANGED reliable

Bound(c) == \E b \in Live : b.call = c
Matches(c) == client[c].password = account

\* The next message of a TCP flow, any message of UDP.
Arrives(m) == reliable => \A o \in Of(m.call, requests) : m.cseq <= o.cseq

\* The registrar answers, and keeps silent to a client that no longer reads.
Answered(m, reply) ==
    responses' = IF Waits(m.call) /\ client[m.call].cseq = m.cseq
                 THEN responses \cup {[call |-> m.call, cseq |-> m.cseq,
                                       code |-> reply.code, nonce |-> reply.nonce]}
                 ELSE responses

Handle(m) ==
    /\ m \in requests /\ Arrives(m)
    /\ \E code \in {200, 401, 500}, n \in 0..(nonce + 1) :
         LET reply == Reply(code, n)
         IN HandleRegister(m, reply) /\ Answered(m, reply)
    /\ requests' = requests \ {m}
    /\ UNCHANGED <<client, reliable>> /\ Free

\* UDP: a copy of the request stays under way, and may arrive much later.
HandleOneCopy(m) ==
    /\ m \in requests /\ ~reliable
    /\ \E code \in {200, 401, 500}, n \in 0..(nonce + 1) :
         LET reply == Reply(code, n)
         IN HandleRegister(m, reply) /\ Answered(m, reply)
    /\ UNCHANGED <<client, requests, reliable>> /\ Spends("faults")

LoseRequest(m) ==
    /\ m \in requests /\ ~reliable /\ requests' = requests \ {m}
    /\ UNCHANGED <<client, responses>> /\ OfClients /\ Spends("faults")

LoseResponse(r) ==
    /\ r \in responses /\ ~reliable /\ responses' = responses \ {r}
    /\ UNCHANGED <<client, requests>> /\ OfClients /\ Spends("faults")

\* A client is given the password the account has when it is made.
Starts(c) == entry # NoAccount /\ Start(c, entry) /\ OfClients /\ Free
StartFailing(c) == entry # NoAccount /\ StartFails(c, entry) /\ OfClients /\ Spends("faults")

Receives(c) == \E r \in responses : Receive(c, r) /\ OfClients /\ Free

Retransmits(c) == ~reliable /\ Retransmit(c) /\ OfClients /\ Free

\* A transaction whose messages are gone with the flow times out; another one
\* only when the network is that slow.
Dead(c) == reliable /\ ~UnderWay(c)

GivesUp(c) ==
    /\ TimesOut(c) /\ OfClients
    /\ IF Dead(c) THEN Free ELSE Spends("faults")

\* A refresh that has something to mend, or one of the bounded others.
NeedsRefresh(c) == Matches(c) /\ ~(client[c].registered /\ Bound(c))

Refreshes(c) ==
    /\ Refresh(c) /\ OfClients
    /\ IF NeedsRefresh(c) THEN Free ELSE Spends("refreshes")

RefreshFailing(c) == RefreshFails(c) /\ OfClients /\ Spends("faults")

LosesFlow(c) == reliable /\ FlowLost(c) /\ OfClients /\ Spends("faults")

Stops(c) == Stop(c) /\ OfClients /\ Free

Edits(a) ==
    /\ listeners < MaxListeners
    /\ EntryEdited(a) \/ ServiceEdits(a)
    /\ OfRegistrar /\ Spends("edits")

Withdraws == RemoveRegistration /\ OfRegistrar /\ Spends("edits")
Listens == ListenerEnds /\ OfRegistrar /\ Free
Expires == Expire /\ OfRegistrar /\ Free
Lapses(b) == BindingLapses(b) /\ OfRegistrar /\ Spends("faults")
LosesNonce == NonceLapses /\ OfRegistrar /\ Spends("faults")

ClientStep(c) ==
    \/ Starts(c) \/ StartFailing(c) \/ Receives(c) \/ Retransmits(c) \/ GivesUp(c)
    \/ Refreshes(c) \/ RefreshFailing(c) \/ LosesFlow(c) \/ Stops(c)

Next ==
    \/ \E c \in Clients : ClientStep(c)
    \/ \E m \in requests : Handle(m) \/ HandleOneCopy(m) \/ LoseRequest(m)
    \/ \E r \in responses : LoseResponse(r)
    \/ \E a \in Passwords \cup {NoAccount} : Edits(a)
    \/ Withdraws \/ Listens \/ Expires \/ LosesNonce
    \/ \E b \in bindings : Lapses(b)

\* The registrar handles what arrives; a client reads, repeats, gives up a lost
\* transaction and refreshes; the event loop runs the listeners.
Fairness ==
    /\ WF_vars(\E m \in requests : Handle(m))
    /\ WF_vars(Listens)
    /\ \A c \in Clients :
         /\ WF_vars(Receives(c)) /\ WF_vars(Retransmits(c))
         /\ WF_vars(Dead(c) /\ GivesUp(c))
         /\ WF_vars(NeedsRefresh(c) /\ Refreshes(c))

Spec == Init /\ [][Next]_vars /\ Fairness

-----------------------------------------------------------------------------
(* Properties *)

Contacts == {ContactOf[c] : c \in Clients} \cup {Wildcard}
Bindings == [contact : Contacts, call : Clients, cseq : Nat, password : Passwords, lapsed : BOOLEAN]
ClientStates == [phase : {"new", "register", "rest", "unregister", "closed"}, cseq : Nat,
                 retried : BOOLEAN, registered : BOOLEAN, nonce : Nat, password : Passwords \cup {0}]
Messages == [call : Clients, cseq : Nat, expires : {0, 1}, contact : Contacts, nonce : Nat,
             password : Passwords \cup {0}]
Responses == [call : Clients, cseq : Nat, code : {200, 401, 500}, nonce : Nat]

RegistrarTypeOK ==
    /\ entry \in Passwords \cup {NoAccount} /\ account \in Passwords \cup {NoAccount}
    /\ bindings \subseteq Bindings
    /\ nonce \in Nat /\ fresh \in BOOLEAN
    /\ endpoint \in {"available", "offline", "unavailable"} /\ listeners \in 0..MaxListeners

TrunkTypeOK ==
    client \in [Clients -> ClientStates] /\ requests \subseteq Messages /\ responses \subseteq Responses

\* Every variable has its type, and no more listeners run than the bound allows.
RegistrationTypeOK ==
    /\ RegistrarTypeOK /\ TrunkTypeOK
    /\ reliable \in BOOLEAN /\ left \in [{"faults", "edits", "refreshes"} -> Nat]

\* Every binding was made with the password the account has now: a changed,
\* disabled or removed account keeps none of its phones registered
\* (sip_registrar.update_accounts, handle_register), however late a REGISTER
\* signed with the old password arrives.
BindingsBelong == \A b \in bindings : b.password = account

\* The phone is shown as the registrar knows it, whatever registers, lapses, is
\* withdrawn or edited (endpoint_runtime._on_registration_change,
\* phone_config.sync_registry_from_entry). There is one binding per contact, a
\* disabled phone is shown unavailable, and none that left is shown available. And
\* a phone that has a binding is never taken offline, where no refresh would mend it,
\* but by an edit that enables it again before the listener has dropped the bindings
\* of the edit that disabled it.
Shown ==
    /\ \A b, o \in bindings : b.contact = o.contact => b = o
    /\ endpoint = "unavailable" <=> entry = NoAccount
    /\ endpoint = "available" => bindings # {}
BoundOffline == endpoint = "offline" /\ bindings # {}
TakenOffline == ~BoundOffline /\ BoundOffline'
ShownAsRegistered ==
    [][Shown' /\ (TakenOffline => entry = NoAccount /\ listeners > 0)]_vars

\* As long as a contact stays bound by one Call-ID its CSeq does not fall,
\* whatever copy of an earlier REGISTER arrives late (handle_register's
\* comparison with the current binding).  That a late copy undoes nothing is
\* not said and not true: once the binding has lapsed it adds it again, and a
\* wildcard is compared with nothing.
SequenceHolds ==
    [][\A b \in Live, n \in bindings' :
         b.contact = n.contact /\ b.call = n.call => b.cseq <= n.cseq]_vars

\* A running client whose password is the account's gets registered, and its
\* binding is there, whatever was lost, late, repeated, expired or withdrawn
\* before (SipTrunkClient._refresh_loop): unless it is stopped, or the account
\* is changed.
Recovers(c) == client[c].phase \in {"register", "rest"} /\ Matches(c)
Recovered(c) ==
    \/ client[c].registered /\ Bound(c)
    \/ client[c].phase \in {"unregister", "closed"}
    \/ ~Matches(c)
RegistrationRecovers == \A c \in Clients : Recovers(c) ~> Recovered(c)
=============================================================================
