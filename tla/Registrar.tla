----------------------------- MODULE Registrar -----------------------------
(***************************************************************************)
(* The SIP registrar for one account: who may register, the bindings, and   *)
(* what the observer makes of them in the endpoint registry. A REGISTER is  *)
(* handled without an await, so it is one step. The registrations of the    *)
(* account come from one address and share its cached nonce.                *)
(***************************************************************************)
EXTENDS Naturals, FiniteSets

CONSTANTS
    Passwords,   \* passwords the account may be given
    NoAccount    \* the account is missing or disabled

ASSUME AccountMayBeMissing == Passwords # {} /\ NoAccount \notin Passwords

VARIABLES
    entry,       \* the account in the config entry: its password, or NoAccount
    account,     \* the account as the registrar knows it
    bindings,    \* registrations: [contact, call, cseq, password, lapsed]
    nonce,       \* the nonce handed out last, 0 before the first
    fresh,       \* that nonce has neither expired nor been evicted
    endpoint,    \* availability of the account's endpoint
    listeners    \* entry update listeners that have yet to tell the registrar

registrar == <<entry, account, bindings, nonce, fresh, endpoint, listeners>>

Wildcard == "*"

RegistrarInit ==
    /\ entry = (CHOOSE p \in Passwords : TRUE) /\ account = entry
    /\ bindings = {} /\ nonce = 0 /\ fresh = FALSE
    /\ endpoint = "offline" /\ listeners = 0

\* The observer: a disabled phone is not touched, any other follows what it is told.
Observed(shown, registered) ==
    IF shown = "unavailable" THEN shown
    ELSE IF registered THEN "available" ELSE "offline"

\* Variant: nobody tells of a last binding that goes.
ToldOfFirst(shown, before, after) ==
    IF before = {} /\ after # {} THEN Observed(shown, TRUE) ELSE shown

\* The observer hears of a change between having bindings and having none.
Told(shown, before, after) ==
    IF (before = {}) = (after = {}) THEN shown ELSE Observed(shown, after # {})

Live == {b \in bindings : ~b.lapsed}

\* Authorization: the digest of the account's password over a nonce that still
\* counts. Every client sends a cnonce of its own, so that the record of its
\* uses lets nothing through but an exact copy.
Authorized(m) == account # NoAccount /\ m.password = account /\ fresh /\ m.nonce = nonce

\* Variant: the Call-IDs are compared the wrong way round.
KnownElsewhere(m) == {b \in Live : b.contact = m.contact /\ b.call # m.call}

\* A binding of this contact made by an earlier request of the same Call-ID.
Known(m) == {b \in Live : b.contact = m.contact /\ b.call = m.call}

Stale(m) == \E b \in Known(m) : m.cseq < b.cseq
Repeated(m) == \E b \in Known(m) : m.cseq = b.cseq

Applied(m) ==
    IF m.contact = Wildcard THEN {}
    ELSE {b \in Live : b.contact # m.contact} \cup
         {[contact |-> m.contact, call |-> m.call, cseq |-> m.cseq,
           password |-> m.password, lapsed |-> FALSE] : x \in {y \in {m} : y.expires > 0}}

Reply(code, n) == [code |-> code, nonce |-> n]

\* 401 with the source's cached nonce, or a new one when it no longer counts.
Challenge(m, reply) ==
    /\ ~Authorized(m)
    /\ nonce' = IF fresh THEN nonce ELSE nonce + 1
    /\ fresh' = TRUE
    /\ reply = Reply(401, nonce')
    /\ UNCHANGED <<bindings, endpoint>>

Register(m, reply) ==
    /\ Authorized(m)
    /\ bindings' = IF Stale(m) \/ Repeated(m) THEN Live ELSE Applied(m)
    /\ endpoint' = Told(Told(endpoint, bindings, Live), Live, bindings')
    /\ reply = Reply(IF Stale(m) THEN 500 ELSE 200, 0)
    /\ UNCHANGED <<nonce, fresh>>

HandleRegister(m, reply) ==
    /\ Challenge(m, reply) \/ Register(m, reply)
    /\ UNCHANGED <<entry, account, listeners>>

\* Any reader of the registrations drops the ones whose time is over.
Expire ==
    /\ Live # bindings
    /\ bindings' = Live
    /\ endpoint' = Told(endpoint, bindings, Live)
    /\ UNCHANGED <<entry, account, nonce, fresh, listeners>>

\* Time passes: a binding or the nonce is past its expiry.
BindingLapses(b) ==
    /\ b \in Live
    /\ bindings' = (bindings \ {b}) \cup {[b EXCEPT !.lapsed = TRUE]}
    /\ UNCHANGED <<entry, account, nonce, fresh, endpoint, listeners>>

NonceLapses ==
    /\ fresh /\ fresh' = FALSE
    /\ UNCHANGED <<entry, account, bindings, nonce, endpoint, listeners>>

\* An unanswered call to the account, or a service that withdraws it.
RemoveRegistration ==
    /\ bindings # {} /\ bindings' = {}
    /\ endpoint' = Told(endpoint, bindings, {})
    /\ UNCHANGED <<entry, account, nonce, fresh, listeners>>

\* The endpoint registry takes over the entry: a phone that is enabled again
\* starts offline.
Synced(a) ==
    IF a = NoAccount THEN "unavailable"
    ELSE IF endpoint = "unavailable" THEN "offline" ELSE endpoint

\* Variant: the passwords are not compared.
UpdateIfPresent(a, shown) ==
    /\ account' = a
    /\ bindings' = IF a # NoAccount THEN bindings ELSE {}
    /\ endpoint' = Told(shown, bindings, bindings')

\* A new password or no account ends what was registered with the old one.
UpdateAccounts(a, shown) ==
    /\ account' = a
    /\ bindings' = IF a # NoAccount /\ a = account THEN bindings ELSE {}
    /\ endpoint' = Told(shown, bindings, bindings')

\* The phone's subentry is edited: the listener applies it to the endpoint registry
\* at once, and to the registrar after it has loaded the stores and awaited the
\* endpoint sensor, where nothing keeps other listeners from running.
EntryEdited(a) ==
    /\ entry # a /\ entry' = a
    /\ endpoint' = Synced(a)
    /\ listeners' = listeners + 1
    /\ UNCHANGED <<account, bindings, nonce, fresh>>

\* An account service writes the entry and tells the registrar itself.
ServiceEdits(a) ==
    /\ entry # a /\ entry' = a
    /\ UpdateAccounts(a, Synced(a))
    /\ listeners' = listeners + 1
    /\ UNCHANGED <<nonce, fresh>>

ListenerEnds ==
    /\ listeners > 0 /\ listeners' = listeners - 1
    /\ UpdateAccounts(entry, endpoint)
    /\ UNCHANGED <<entry, nonce, fresh>>
=============================================================================
