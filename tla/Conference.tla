----------------------------- MODULE Conference -----------------------------
(***************************************************************************)
(* Conference rooms: conference.py, the INVITE that joins one and the      *)
(* dialling of its members (endpoint_runtime.py).  A room is an object     *)
(* with its legs and a mixer task; the manager knows the current one of a  *)
(* name.  Callers come in by an INVITE, members are dialled when somebody  *)
(* joins, phones are rung and answer inside Home Assistant.                *)
(*                                                                         *)
(* Who leaves a room is taken out of it at once; a cleanup task disposes   *)
(* of the leg and, if it was the last one, closes the room, and the close  *)
(* joins the mixer.  The mixer is itself somebody who makes legs leave.    *)
(***************************************************************************)
EXTENDS Naturals, FiniteSets

CONSTANTS
    Callers, Members, Phones,
    Listeners,      \* the callers and members that are on hold or may not send
    MaxLegs,
    MaxRooms,       \* bound: the rooms that are made
    Setups,         \* who takes part, and how many rooms of the name were before
    Nobody

Parties == Callers \cup Members \cup Phones
Dialogs == Callers \cup Members
RoomIds == 1 .. MaxRooms
NoRoom == 0

ASSUME ConferenceConstants ==
    /\ MaxLegs \in Nat \ {0} /\ MaxRooms \in Nat /\ Nobody \notin Parties
    /\ Callers \cap Members = {} /\ Dialogs \cap Phones = {} /\ IsFiniteSet(Parties)
    /\ Listeners \subseteq Dialogs
    /\ Setups \subseteq [cast : SUBSET Parties, past : 0 .. MaxRooms]

VARIABLES
    manager,        \* open, closing
    room, made,     \* the name's room, the rooms made
    legs, isClosed, \* of each room
    closing, byMixer,   \* its close task, and whether the mixer asked for it
    dropped,        \* the legs it disposes of
    mixer, mixLeg,  \* the mixer, and whose leave it awaits
    announced,      \* the phones a room has rung or let in
    pc, home,       \* what each party does, and in which room
    leave,          \* the cleanup of its leg
    resv,           \* the join that has reserved a phone
    unannounced,    \* history: the phones reserved by a join that found a leg in its room
    toRing,         \* who has joined and not yet had the members rung
    dialog, port    \* of callers and members

roomVars == <<room, made, legs, isClosed, closing, byMixer, dropped, mixer, mixLeg, announced>>
partyVars == <<pc, home, leave, resv, unannounced, toRing, dialog, port>>
vars == <<manager, roomVars, partyVars>>

\* Rooms of the past are closed; parties that take no part have had their call.
Prepared(s) ==
    /\ made = s.past
    /\ isClosed = [r \in RoomIds |-> r <= s.past]
    /\ closing = [r \in RoomIds |-> IF r <= s.past THEN "done" ELSE "no"]
    /\ mixer = [r \in RoomIds |-> IF r <= s.past THEN "done" ELSE "none"]
    /\ pc = [p \in Parties |-> IF p \in s.cast THEN "idle" ELSE "over"]
    /\ dialog = [p \in Dialogs |-> IF p \in s.cast THEN "none" ELSE "gone"]

ConferenceInit ==
    /\ manager = "open" /\ room = NoRoom /\ \E s \in Setups : Prepared(s)
    /\ legs = [r \in RoomIds |-> {}] /\ byMixer = [r \in RoomIds |-> FALSE]
    /\ dropped = [r \in RoomIds |-> {}] /\ mixLeg = [r \in RoomIds |-> Nobody]
    /\ announced = [r \in RoomIds |-> {}] /\ home = [p \in Parties |-> NoRoom]
    /\ leave = [p \in Parties |-> "no"] /\ resv = [p \in Phones |-> Nobody]
    /\ unannounced = {} /\ toRing = {} /\ port = [p \in Dialogs |-> FALSE]

-----------------------------------------------------------------------------
(* Rooms. *)

NeedsRoom == room = NoRoom \/ isClosed[room]
CanMake == NeedsRoom => made < MaxRooms
TheRoom == IF NeedsRoom THEN made + 1 ELSE room
RoomMade == /\ room' = TheRoom /\ made' = IF NeedsRoom THEN made + 1 ELSE made

HasPlace(r) == Cardinality(legs[r]) < MaxLegs

\* Variant of StillFits: what was true before the bind is taken to be true after it.
FitsAnyway(r) == TRUE
StillFits(r) == ~isClosed[r] /\ HasPlace(r)

\* A leg is put in, and the mixer started if there is none.
Entered(r, p) ==
    /\ legs' = [legs EXCEPT ![r] = @ \cup {p}]
    /\ mixer' = [mixer EXCEPT ![r] = IF @ \in {"none", "done"} THEN "run" ELSE @]

\* ConferenceRoom.leave(): the leg goes at once, its cleanup is a task.
Left(r, p) ==
    /\ legs' = [legs EXCEPT ![r] = @ \ {p}]
    /\ leave' = [leave EXCEPT ![p] = "queued"] /\ home' = [home EXCEPT ![p] = r]

\* ConferenceRoom.close(): one close task per room.
CloseAsked(r, mixerAsks) ==
    /\ closing' = [closing EXCEPT ![r] = IF @ = "no" THEN "queued" ELSE @]
    /\ byMixer' = [byMixer EXCEPT ![r] = IF closing[r] = "no" THEN mixerAsks ELSE @]

Knows(p) == room # NoRoom /\ p \in legs[room]

Emptied(r) == room' = IF legs[r] = {} /\ room = r THEN NoRoom ELSE room

-----------------------------------------------------------------------------
(* A caller joins. *)

\* Those whose endpoint can be claimed.
IdlePhones == {p \in Phones : pc[p] = "idle"}

Reserved(c) == {p \in Phones : pc[p] = "reserved" /\ resv[p] = c}

\* A 200 goes out, and a task will ring the members.
WillRing(c) ==
    /\ toRing' = toRing \cup {c}
    /\ dialog' = [dialog EXCEPT ![c] = IF @ = "none" THEN "up" ELSE @]

Announce(r, phones) == announced' = [announced EXCEPT ![r] = @ \cup phones]

\* The phones of the group are reserved before the socket is bound.
Join(c) ==
    /\ c \in Callers /\ pc[c] = "idle" /\ manager = "open" /\ CanMake
    /\ RoomMade
    /\ \/ /\ HasPlace(TheRoom)
          /\ pc' = [p \in Parties |-> IF p = c THEN "binding" ELSE IF p \in IdlePhones THEN "reserved" ELSE pc[p]]
          /\ resv' = [p \in Phones |-> IF p \in IdlePhones THEN c ELSE resv[p]]
          /\ home' = [home EXCEPT ![c] = TheRoom] /\ port' = [port EXCEPT ![c] = TRUE]
          /\ UNCHANGED dialog
       \/ /\ ~HasPlace(TheRoom)
          /\ pc' = [pc EXCEPT ![c] = "over"] /\ dialog' = [dialog EXCEPT ![c] = "gone"]
          /\ UNCHANGED <<resv, home, port>>
    /\ UNCHANGED <<manager, legs, isClosed, closing, byMixer, dropped, mixer, mixLeg, announced, leave, unannounced, toRing>>

\* Only the first leg of a room announces the phones that its join reserved.
Bound(c) ==
    /\ c \in Callers /\ pc[c] = "binding" /\ StillFits(home[c])
    /\ LET rung == IF legs[home[c]] = {} THEN Reserved(c) ELSE {}
       IN /\ pc' = [p \in Parties |-> IF p = c THEN "in" ELSE IF p \in rung THEN "ringing" ELSE pc[p]]
          /\ Announce(home[c], rung)
          /\ resv' = [p \in Phones |-> IF p \in rung THEN Nobody ELSE resv[p]]
          /\ unannounced' = unannounced \cup (Reserved(c) \ rung)
    /\ Entered(home[c], c) /\ home' = [home EXCEPT ![c] = NoRoom]
    /\ WillRing(c)
    /\ UNCHANGED <<manager, room, made, isClosed, closing, byMixer, dropped, mixLeg, leave, port>>

\* Variant of ReservationsReleased: a join that fails keeps its phones.
OnlyJoinOver(c) == pc' = [pc EXCEPT ![c] = "over"] /\ UNCHANGED resv

\* The phones that the join has reserved are idle again.
ReservationsReleased(c) ==
    /\ pc' = [p \in Parties |-> IF p = c THEN "over" ELSE IF p \in Reserved(c) THEN "idle" ELSE pc[p]]
    /\ resv' = [p \in Phones |-> IF resv[p] = c THEN Nobody ELSE resv[p]]

\* Full or closed by now, or the socket cannot be bound.
JoinFails(c) ==
    /\ c \in Callers /\ pc[c] = "binding" /\ ReservationsReleased(c)
    /\ dialog' = [dialog EXCEPT ![c] = "gone"] /\ port' = [port EXCEPT ![c] = FALSE]
    /\ Emptied(home[c]) /\ home' = [home EXCEPT ![c] = NoRoom]
    /\ UNCHANGED <<manager, made, legs, isClosed, closing, byMixer, dropped, mixer, mixLeg, announced, leave,
                   unannounced, toRing>>

\* BYE or CANCEL: leave_call() looks in the room that the manager knows.
CallerEnds(c) ==
    /\ c \in Callers /\ dialog[c] # "gone" /\ pc[c] \in {"binding", "in"}
    /\ dialog' = [dialog EXCEPT ![c] = "gone"]
    /\ \/ /\ pc[c] = "binding" /\ UNCHANGED <<pc, legs, leave, home>>
       \/ /\ pc[c] = "in" /\ Knows(c)
          /\ Left(room, c) /\ pc' = [pc EXCEPT ![c] = "leaving"]
       \/ /\ pc[c] = "in" /\ ~Knows(c)
          /\ pc' = [pc EXCEPT ![c] = "over"] /\ UNCHANGED <<legs, leave, home>>
    /\ UNCHANGED <<manager, room, made, isClosed, closing, byMixer, dropped, mixer, mixLeg, announced,
                   resv, unannounced, toRing, port>>

-----------------------------------------------------------------------------
(* The members: rung by a task of whoever has joined. *)

\* ring_ha_endpoints: of the phones that are free, if the room is still there.
PhonesRung(chosen) == IF NeedsRoom THEN {} ELSE chosen \cap IdlePhones

\* As many of them as there are places now; each is called once at a time.
RingMembers(c) ==
    /\ c \in toRing /\ toRing' = toRing \ {c}
    /\ LET places == IF NeedsRoom THEN MaxLegs ELSE MaxLegs - Cardinality(legs[room])
           others == Members \cup (Phones \ {c})
       IN \E chosen \in SUBSET others :
            /\ Cardinality(chosen) <= places
            /\ Cardinality(chosen) < places => chosen = others
            /\ LET rung == PhonesRung(chosen)
                   called == {m \in chosen \cap Members : pc[m] = "idle"}
               IN /\ pc' = [p \in Parties |->
                        IF p \in rung THEN "ringing" ELSE IF p \in called THEN "calling" ELSE pc[p]]
                  /\ announced' = [r \in RoomIds |-> IF r = room THEN announced[r] \cup rung ELSE announced[r]]
                  /\ port' = [p \in Dialogs |-> IF p \in called THEN TRUE ELSE port[p]]
    /\ UNCHANGED <<manager, room, made, legs, isClosed, closing, byMixer, dropped, mixer, mixLeg,
                   home, leave, resv, unannounced, dialog>>

\* Not taken in: the dialog is ended and the ports come back.
Dismissed(m) ==
    /\ pc' = [pc EXCEPT ![m] = "over"]
    /\ dialog' = [dialog EXCEPT ![m] = "gone"] /\ port' = [port EXCEPT ![m] = FALSE]

\* A member that answers is only taken into a room that is still there.
MemberAnswers(m) ==
    /\ m \in Members /\ pc[m] = "calling"
    /\ \/ /\ manager = "open" /\ ~NeedsRoom /\ HasPlace(room)
          /\ dialog' = [dialog EXCEPT ![m] = "up"]
          /\ pc' = [pc EXCEPT ![m] = "adding"] /\ home' = [home EXCEPT ![m] = room] /\ UNCHANGED port
       \/ ~(manager = "open" /\ ~NeedsRoom /\ HasPlace(room)) /\ Dismissed(m) /\ UNCHANGED home
    /\ UNCHANGED <<manager, roomVars, leave, resv, unannounced, toRing>>

MemberFails(m) ==
    /\ m \in Members /\ pc[m] = "calling" /\ Dismissed(m)
    /\ UNCHANGED <<manager, roomVars, home, leave, resv, unannounced, toRing>>

MemberBound(m) ==
    /\ m \in Members /\ pc[m] = "adding"
    /\ \/ /\ StillFits(home[m]) /\ Entered(home[m], m)
          /\ pc' = [pc EXCEPT ![m] = "in"] /\ UNCHANGED <<dialog, port>>
       \/ ~StillFits(home[m]) /\ Dismissed(m) /\ UNCHANGED <<legs, mixer>>
    /\ home' = [home EXCEPT ![m] = NoRoom]
    /\ UNCHANGED <<manager, room, made, isClosed, closing, byMixer, dropped, mixLeg, announced,
                   leave, resv, unannounced, toRing>>

MemberHangs(m) ==
    /\ m \in Members /\ dialog[m] = "up" /\ dialog' = [dialog EXCEPT ![m] = "gone"]
    /\ UNCHANGED <<manager, roomVars, pc, home, leave, resv, unannounced, toRing, port>>

\* wait_for_dialog_termination() returns, whoever has ended the dialog.
MemberEnds(m) ==
    /\ m \in Members /\ pc[m] = "in" /\ dialog[m] = "gone"
    /\ \/ /\ Knows(m)
          /\ Left(room, m) /\ pc' = [pc EXCEPT ![m] = "leaving"]
       \/ /\ ~Knows(m)
          /\ pc' = [pc EXCEPT ![m] = "over"] /\ UNCHANGED <<legs, leave, home>>
    /\ UNCHANGED <<manager, room, made, isClosed, closing, byMixer, dropped, mixer, mixLeg, announced,
                   resv, unannounced, toRing, dialog, port>>

-----------------------------------------------------------------------------
(* The phones. *)

PhoneEntered(r, p) == Entered(r, p) /\ Announce(r, {p}) /\ pc' = [pc EXCEPT ![p] = "in"]

\* The current room takes the phone, whichever room has rung it; a full one ends
\* the phone's call.
PhoneAnswers(p) ==
    /\ p \in Phones /\ pc[p] = "ringing" /\ manager = "open" /\ ~NeedsRoom
    /\ \/ HasPlace(room) /\ PhoneEntered(room, p)
       \/ /\ ~HasPlace(room)
          /\ announced' = [announced EXCEPT ![room] = @ \ {p}]
          /\ pc' = [pc EXCEPT ![p] = "over"] /\ UNCHANGED <<legs, mixer>>
    /\ UNCHANGED <<manager, room, made, isClosed, closing, byMixer, dropped, mixLeg, home, leave, resv, unannounced, toRing, dialog, port>>

PhoneDeclines(p) ==
    /\ p \in Phones /\ pc[p] = "ringing" /\ (room # NoRoom => p \in announced[room])
    /\ pc' = [pc EXCEPT ![p] = "over"]
    /\ announced' = [r \in RoomIds |-> IF r = room THEN announced[r] \ {p} ELSE announced[r]]
    /\ UNCHANGED <<manager, room, made, legs, isClosed, closing, byMixer, dropped, mixer, mixLeg,
                   home, leave, resv, unannounced, toRing, dialog, port>>

\* A free phone may make the room it joins.
CanStart(p) ==
    p \in Phones /\ pc[p] = "idle" /\ manager = "open" /\ CanMake /\ HasPlace(TheRoom)

PhoneStarts(p) ==
    /\ CanStart(p) /\ RoomMade /\ PhoneEntered(TheRoom, p)
    /\ toRing' = toRing \cup {p}
    /\ UNCHANGED <<manager, isClosed, closing, byMixer, dropped, mixLeg, home, leave, resv, unannounced, dialog, port>>

\* The hangup service; a phone that the room no longer has is just idle again.
PhoneHangs(p) ==
    /\ p \in Phones /\ pc[p] = "in"
    /\ \/ /\ Knows(p)
          /\ Left(room, p) /\ pc' = [pc EXCEPT ![p] = "leaving"] /\ UNCHANGED announced
       \/ /\ ~Knows(p)
          /\ pc' = [pc EXCEPT ![p] = "over"] /\ UNCHANGED <<legs, leave, home>>
          /\ announced' = [r \in RoomIds |-> IF r = room THEN announced[r] \ {p} ELSE announced[r]]
    /\ UNCHANGED <<manager, room, made, isClosed, closing, byMixer, dropped, mixer, mixLeg, resv, unannounced, toRing, dialog, port>>

-----------------------------------------------------------------------------
(* The cleanup of a leg. *)

\* The leg's socket and ports go; a member gets a BYE, and a caller too if its media
\* timed out (otherwise it has ended the dialog itself).
Released(p) ==
    /\ dialog' = [q \in Dialogs |-> IF q = p THEN "gone" ELSE dialog[q]]
    /\ port' = [q \in Dialogs |-> IF q = p THEN FALSE ELSE port[q]]

\* _finish_leave: the leg, then the room, if it is empty.
LegDisposed(p) ==
    /\ leave[p] = "queued" /\ Released(p)
    /\ \/ /\ legs[home[p]] = {}
          /\ leave' = [leave EXCEPT ![p] = "closing"]
          /\ CloseAsked(home[p], mixLeg[home[p]] = p)
       \/ /\ legs[home[p]] # {}
          /\ leave' = [leave EXCEPT ![p] = "done"] /\ UNCHANGED <<closing, byMixer>>
    /\ UNCHANGED <<manager, room, made, legs, isClosed, dropped, mixer, mixLeg, announced, pc, home, resv, unannounced, toRing>>

LeaveClosed(p) ==
    /\ leave[p] = "closing" /\ closing[home[p]] = "done"
    /\ leave' = [leave EXCEPT ![p] = "done"]
    /\ UNCHANGED <<manager, roomVars, pc, home, resv, unannounced, toRing, dialog, port>>

\* leave_call() goes on: a closed room is taken out of the manager by its name.
Gone(p) ==
    /\ pc[p] = "leaving" /\ leave[p] = "done"
    /\ leave' = [leave EXCEPT ![p] = "no"] /\ home' = [home EXCEPT ![p] = NoRoom]
    /\ \/ /\ p \in Dialogs
          /\ pc' = [pc EXCEPT ![p] = "over"]
          /\ room' = IF isClosed[home[p]] THEN NoRoom ELSE room
          /\ UNCHANGED announced
       \/ /\ p \in Phones
          /\ pc' = [pc EXCEPT ![p] = "over"]
          /\ room' = IF isClosed[home[p]] /\ room = home[p] THEN NoRoom ELSE room
          /\ announced' = [announced EXCEPT ![home[p]] = @ \ {p}]
    /\ UNCHANGED <<manager, made, legs, isClosed, closing, byMixer, dropped, mixer, mixLeg, resv, unannounced, toRing, dialog, port>>

-----------------------------------------------------------------------------
(* The close task of a room. *)

CloseRuns(r) ==
    /\ closing[r] = "queued" /\ closing' = [closing EXCEPT ![r] = "disposing"]
    /\ isClosed' = [isClosed EXCEPT ![r] = TRUE]
    /\ dropped' = [dropped EXCEPT ![r] = legs[r]] /\ legs' = [legs EXCEPT ![r] = {}]
    /\ UNCHANGED <<manager, room, made, byMixer, mixer, mixLeg, announced, partyVars>>

\* A member gets a BYE; a caller's dialog is not this task's.
CloseDisposed(r) ==
    /\ closing[r] = "disposing" /\ closing' = [closing EXCEPT ![r] = "joining"]
    /\ dialog' = [p \in Dialogs |-> IF p \in dropped[r] \cap Members THEN "gone" ELSE dialog[p]]
    /\ port' = [p \in Dialogs |-> IF p \in dropped[r] THEN FALSE ELSE port[p]]
    /\ dropped' = [dropped EXCEPT ![r] = {}]
    /\ UNCHANGED <<manager, room, made, legs, isClosed, byMixer, mixer, mixLeg, announced, pc, home, leave, resv, unannounced, toRing>>

\* Variant of MixerJoined: the mixer is awaited even if it has asked for the close.
JoinedAlways(r) == mixer[r] \in {"none", "done"}

MixerJoined(r) == mixer[r] \in {"none", "done"} \/ byMixer[r]

PhonesFreed(r) == announced[r]

CloseEnds(r) ==
    /\ closing[r] = "joining" /\ MixerJoined(r)
    /\ closing' = [closing EXCEPT ![r] = "done"] /\ byMixer' = [byMixer EXCEPT ![r] = FALSE]
    /\ pc' = [p \in Parties |-> IF p \in PhonesFreed(r) /\ pc[p] # "leaving" THEN "over" ELSE pc[p]]
    /\ announced' = [announced EXCEPT ![r] = {}]
    /\ room' = IF room = r THEN NoRoom ELSE room
    /\ UNCHANGED <<manager, made, legs, isClosed, dropped, mixer, mixLeg, home, leave, resv, unannounced, toRing, dialog, port>>

\* ConferenceManager.close(), when the integration is unloaded.
Shutdown ==
    /\ manager = "open" /\ manager' = "closing" /\ room' = NoRoom
    /\ IF room = NoRoom THEN UNCHANGED <<closing, byMixer>> ELSE CloseAsked(room, FALSE)
    /\ UNCHANGED <<made, legs, isClosed, dropped, mixer, mixLeg, announced, partyVars>>

-----------------------------------------------------------------------------
(* The mixer. *)

\* Who has to send: a phone, or a leg that only listens, never counts as silent.
Senders == Dialogs \ Listeners

Silent(r) == \E p \in legs[r] \cap Senders : dialog[p] = "gone"

\* A leg that has sent nothing for too long.
MixTimeout(r) ==
    /\ mixer[r] = "run"
    /\ \E p \in legs[r] \cap Senders :
         /\ Left(r, p) /\ mixLeg' = [mixLeg EXCEPT ![r] = p]
    /\ mixer' = [mixer EXCEPT ![r] = "leaving"]
    /\ UNCHANGED <<manager, room, made, isClosed, closing, byMixer, dropped, announced, pc, resv, unannounced, toRing, dialog, port>>

Cancelled(r) == closing[r] = "joining" /\ ~byMixer[r]

MixGoesOn(r) ==
    /\ mixer[r] = "leaving" /\ leave[mixLeg[r]] = "done"
    /\ mixer' = [mixer EXCEPT ![r] = IF Cancelled(r) THEN "done" ELSE "run"]
    /\ mixLeg' = [mixLeg EXCEPT ![r] = Nobody]
    /\ leave' = [leave EXCEPT ![mixLeg[r]] = "no"] /\ home' = [home EXCEPT ![mixLeg[r]] = NoRoom]
    /\ UNCHANGED <<manager, room, made, legs, isClosed, closing, byMixer, dropped, announced, pc, resv, unannounced, toRing, dialog, port>>

\* It ends when it is cancelled in its sleep, or finds no leg; then it closes the
\* room that nobody else has closed.
MixEnds(r) ==
    /\ mixer[r] = "run" /\ (Cancelled(r) \/ legs[r] = {})
    /\ IF isClosed[r]
       THEN mixer' = [mixer EXCEPT ![r] = "done"] /\ UNCHANGED <<closing, byMixer>>
       ELSE mixer' = [mixer EXCEPT ![r] = "closing"] /\ CloseAsked(r, TRUE)
    /\ UNCHANGED <<manager, room, made, legs, isClosed, dropped, mixLeg, announced, partyVars>>

MixClosed(r) ==
    /\ mixer[r] = "closing" /\ closing[r] = "done" /\ mixer' = [mixer EXCEPT ![r] = "done"]
    /\ UNCHANGED <<manager, room, made, legs, isClosed, closing, byMixer, dropped, mixLeg, announced, partyVars>>

-----------------------------------------------------------------------------
Party(p) == \/ Bound(p) \/ MemberBound(p) \/ MemberEnds(p) \/ Gone(p)
            \/ LegDisposed(p) \/ LeaveClosed(p) \/ RingMembers(p)

RoomStep(r) == \/ CloseRuns(r) \/ CloseDisposed(r) \/ CloseEnds(r)
               \/ MixGoesOn(r) \/ MixEnds(r) \/ MixClosed(r)

ConferenceNext ==
    \/ \E p \in Parties :
         \/ Party(p)
         \/ Join(p) \/ JoinFails(p) \/ CallerEnds(p)
         \/ MemberAnswers(p) \/ MemberFails(p) \/ MemberHangs(p)
         \/ PhoneAnswers(p) \/ PhoneDeclines(p) \/ PhoneStarts(p) \/ PhoneHangs(p)
    \/ \E r \in RoomIds : RoomStep(r) \/ MixTimeout(r)
    \/ Shutdown

ConferenceSpec == ConferenceInit /\ [][ConferenceNext]_vars

\* The loop runs what is ready; a leg that has to send falls silent when its party is gone.
FairConferenceSpec ==
    /\ ConferenceSpec
    /\ \A p \in Parties : WF_vars(Party(p)) /\ WF_vars(JoinFails(p))
    /\ \A r \in RoomIds : /\ WF_vars(RoomStep(r))
                          /\ WF_vars(MixTimeout(r) /\ Silent(r))

-----------------------------------------------------------------------------
RoomsTyped ==
    /\ manager \in {"open", "closing"}
    /\ legs \in [RoomIds -> SUBSET Parties] /\ dropped \in [RoomIds -> SUBSET Parties]
    /\ isClosed \in [RoomIds -> BOOLEAN] /\ byMixer \in [RoomIds -> BOOLEAN]
    /\ closing \in [RoomIds -> {"no", "queued", "disposing", "joining", "done"}]
    /\ mixer \in [RoomIds -> {"none", "run", "leaving", "closing", "done"}]
    /\ mixLeg \in [RoomIds -> Parties \cup {Nobody}] /\ announced \in [RoomIds -> SUBSET Phones]

PartiesTyped ==
    /\ pc \in [Parties -> {"idle", "binding", "calling", "adding", "reserved", "ringing", "in", "leaving", "over"}]
    /\ home \in [Parties -> RoomIds \cup {NoRoom}] /\ leave \in [Parties -> {"no", "queued", "closing", "done"}]
    /\ resv \in [Phones -> Callers \cup {Nobody}] /\ unannounced \subseteq Phones /\ toRing \subseteq Parties
    /\ dialog \in [Dialogs -> {"none", "up", "gone"}] /\ port \in [Dialogs -> BOOLEAN]

ConferenceTypeOK ==
    /\ made \in 0 .. MaxRooms /\ room \in RoomIds \cup {NoRoom}
    /\ RoomsTyped /\ PartiesTyped

\* However the joins interleave, a room never has more legs than the mixer takes, and
\* a room with legs is open and mixed, or about to be closed with them.
LegsAreServed == \A r \in RoomIds :
    /\ Cardinality(legs[r]) <= MaxLegs
    /\ legs[r] # {} => ~isClosed[r] /\ (mixer[r] \in {"run", "leaving"} \/ closing[r] = "queued")

\* Ports belong to a leg, to somebody who is on the way into a room, or to a cleanup
\* that has still to end the dialog; nobody else keeps any.
PortsAreUsed == \A p \in Dialogs :
    port[p] <=> \/ pc[p] \in {"binding", "calling", "adding"}
                \/ leave[p] = "queued"
                \/ \E r \in RoomIds : p \in legs[r] \cup dropped[r]

\* A phone that rings, or is in, is known to a room that will tell it of its end.
PhoneHasRoom == \A p \in Phones : pc[p] \in {"ringing", "in"} =>
    \E r \in RoomIds : p \in announced[r] /\ closing[r] # "done"

\* A reserved phone is that of a join that is still to announce or to release it. Known:
\* a join that finds a leg in its room does neither.
ReservationIsHeld == \A p \in Phones \ unannounced : pc[p] = "reserved" =>
    resv[p] \in Callers /\ pc[resv[p]] = "binding"

\* Nobody is forgotten: what a party has of the room, the room, a join or a cleanup will
\* take back, save the phones of a join that found the room in use.
NobodyForgotten == PortsAreUsed /\ PhoneHasRoom /\ ReservationIsHeld

\* What the release of the reservations says: no phone stays busy for ever.
PhonesComeBack == \A p \in Phones : pc[p] = "reserved" ~> pc[p] # "reserved"

\* Known: the close task waits for a mixer that waits for the close.
Stuck(r) == closing[r] = "joining" /\ ~byMixer[r]
    /\ (mixer[r] = "closing" \/ (mixer[r] = "leaving" /\ leave[mixLeg[r]] = "closing"))

\* A room that has lost its last leg is closed, and its mixer ends; a caller who has
\* left, were it during the bind, does not stay in. Known: one who only listens, and has
\* left during the bind, is missed by nobody.
RoomEnds == \A r \in RoomIds :
    /\ (made >= r /\ mixer[r] # "none" /\ legs[r] = {})
          ~> (legs[r] # {} \/ Stuck(r) \/ (closing[r] = "done" /\ mixer[r] = "done"))
    /\ \A c \in Callers \ Listeners : (c \in legs[r] /\ dialog[c] = "gone") ~> c \notin legs[r]

=============================================================================
