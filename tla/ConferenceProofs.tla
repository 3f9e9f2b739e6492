-------------------------- MODULE ConferenceProofs --------------------------
(***************************************************************************)
(* Proofs about Conference for any callers, members and phones, any size of *)
(* a room and any number of rooms that are made.                            *)
(***************************************************************************)
EXTENDS Conference, FiniteSetTheorems, TLAPS

-----------------------------------------------------------------------------
(* The inductive invariant *)

\* The rooms that have been made; the others are as they were.
Made == {r \in RoomIds : r <= made}

Fresh(r) == legs[r] = {} /\ ~isClosed[r] /\ closing[r] = "no" /\ mixer[r] = "none"

RoomsAreMade ==
    /\ room \in Made \cup {NoRoom} /\ home \in [Parties -> Made \cup {NoRoom}]
    /\ \A r \in RoomIds : r \notin Made => Fresh(r)

\* A closed room has no legs, but those that its close task disposes of.
ClosedRooms == \A r \in RoomIds :
    /\ isClosed[r] <=> closing[r] \in {"disposing", "joining", "done"}
    /\ isClosed[r] => legs[r] = {}
    /\ dropped[r] # {} => closing[r] = "disposing"

\* Legs have a mixer, and a mixer that closes has asked for the close.
MixedRooms == \A r \in RoomIds :
    /\ legs[r] # {} => mixer[r] \in {"run", "leaving", "closing"}
    /\ mixer[r] = "closing" => closing[r] # "no"
    /\ (mixer[r] = "leaving") = (mixLeg[r] # Nobody)

RoomsAreFull == \A r \in RoomIds : Cardinality(legs[r]) <= MaxLegs

\* The rooms that a party has a leg in, or one that is disposed of.
Places(p) == {r \in RoomIds : p \in legs[r] \cup dropped[r]}

\* A party is in one room, and is then neither on the way in nor out.
PlacedWell(p) ==
    /\ pc[p] \in {"binding", "adding"} \/ leave[p] # "no" => home[p] # NoRoom
    /\ leave[p] # "no" => pc[p] \in {"in", "leaving", "over"}
    /\ Places(p) # {} => leave[p] = "no" /\ pc[p] \in {"in", "over"}
    /\ \A r, s \in Places(p) : r = s

PartiesArePlaced == \A p \in Parties : PlacedWell(p)

\* Who has left or is over has no dialog.
DialogsEnd == \A p \in Dialogs : pc[p] \in {"leaving", "over"} => dialog[p] = "gone"

ConferenceInv ==
    /\ ConferenceTypeOK
    /\ RoomsAreMade /\ ClosedRooms /\ MixedRooms /\ RoomsAreFull
    /\ PartiesArePlaced /\ DialogsEnd
    /\ PortsAreUsed /\ PhoneHasRoom /\ ReservationIsHeld

-----------------------------------------------------------------------------
(* The rooms that are made *)

\* The name that has no room is told from every room.
LEMMA NoRoomIsNone == NoRoom \notin RoomIds
  BY ConferenceConstants DEF RoomIds, NoRoom

\* A join that may make a room names one that is open.
LEMMA RoomNamed ==
  ASSUME made \in 0 .. MaxRooms, RoomsAreMade, CanMake, RoomMade
  PROVE  /\ TheRoom \in RoomIds /\ room' = TheRoom /\ ~isClosed[TheRoom] /\ TheRoom \in Made'
         /\ Made \subseteq Made' /\ made' \in 0 .. MaxRooms
<1>1. CASE NeedsRoom
  <2>1. made < MaxRooms /\ made' = made + 1 /\ TheRoom = made + 1 /\ room' = TheRoom
    BY <1>1 DEF CanMake, RoomMade, TheRoom
  <2>2. made + 1 \in RoomIds /\ made + 1 \notin Made /\ Made \subseteq Made' /\ made + 1 \in Made' /\ made' \in 0 .. MaxRooms
    BY <2>1, ConferenceConstants DEF RoomIds, Made
  <2>3. ~isClosed[made + 1]
    BY <2>2 DEF RoomsAreMade, Fresh
  <2>4. QED
    BY <2>1, <2>2, <2>3
<1>2. CASE ~NeedsRoom
  <2>1. room \in Made /\ ~isClosed[room]
    BY <1>2 DEF NeedsRoom, RoomsAreMade
  <2>2. TheRoom = room /\ room' = room /\ made' = made
    BY <1>2 DEF TheRoom, RoomMade
  <2>3. Made' = Made /\ Made \subseteq RoomIds
    BY <2>2 DEF Made
  <2>4. QED
    BY <2>1, <2>2, <2>3
<1>3. QED
  BY <1>1, <1>2

\* A room that is there is open.
LEMMA RoomIsOpen == RoomsAreMade /\ ~NeedsRoom => room \in RoomIds /\ room \in Made /\ ~isClosed[room]
  BY DEF RoomsAreMade, NeedsRoom, Made

-----------------------------------------------------------------------------
(* The invariant holds initially *)

\* A manager whose rooms are closed and that has no parties satisfies the invariant.
LEMMA InitConference == ConferenceInit => ConferenceInv
<1> SUFFICES ASSUME ConferenceInit, NEW s \in Setups, Prepared(s) PROVE ConferenceInv
  BY DEF ConferenceInit
<1> USE DEF ConferenceInit, Prepared
<1>1. made = s.past /\ room = NoRoom /\ made \in 0 .. MaxRooms /\ Made = {r \in RoomIds : r <= s.past}
  BY ConferenceConstants DEF Made
<1>2. RoomsTyped /\ PartiesTyped
  BY NoRoomIsNone DEF RoomsTyped, PartiesTyped
<1>3. RoomsAreMade
  BY <1>1 DEF RoomsAreMade, Fresh
<1>4. ClosedRooms /\ MixedRooms
  BY DEF ClosedRooms, MixedRooms
<1>5. RoomsAreFull
  BY FS_EmptySet, ConferenceConstants DEF RoomsAreFull
<1>6. PartiesArePlaced /\ DialogsEnd /\ PhoneHasRoom /\ ReservationIsHeld
  BY DEF PartiesArePlaced, PlacedWell, DialogsEnd, PhoneHasRoom, ReservationIsHeld, Places, Dialogs, Parties
<1>7. PortsAreUsed
  BY DEF PortsAreUsed, Dialogs, Parties
<1>8. QED
  BY <1>1, <1>2, <1>3, <1>4, <1>5, <1>6, <1>7 DEF ConferenceInv, ConferenceTypeOK

-----------------------------------------------------------------------------
(* What a step does to the rooms *)

\* A leg is put into an open room that has a place.
Entering == \E r \in RoomIds, p \in Parties :
    /\ r \in Made' /\ ~isClosed[r] /\ HasPlace(r) /\ Entered(r, p)
    /\ UNCHANGED <<isClosed, closing, dropped, mixLeg>>

\* A leg is taken out, by its party or by the mixer.
Leaving == \E r \in RoomIds, p \in Parties :
    /\ p \in legs[r] /\ legs' = [legs EXCEPT ![r] = @ \ {p}]
    /\ \/ UNCHANGED <<mixer, mixLeg>>
       \/ mixer[r] = "run" /\ mixer' = [mixer EXCEPT ![r] = "leaving"] /\ mixLeg' = [mixLeg EXCEPT ![r] = p]
    /\ UNCHANGED <<isClosed, closing, dropped>>

\* A room that is made is asked to close, by its mixer or by somebody else.
Asking == \E r \in RoomIds :
    /\ r \in Made /\ closing' = [closing EXCEPT ![r] = IF @ = "no" THEN "queued" ELSE @]
    /\ \/ UNCHANGED mixer
       \/ mixer[r] = "run" /\ mixer' = [mixer EXCEPT ![r] = "closing"]
    /\ UNCHANGED <<legs, isClosed, dropped, mixLeg>>

\* The mixer goes on, or ends with its room closed.
Mixing == \E r \in RoomIds :
    /\ \/ mixer[r] \in {"run", "closing"} /\ isClosed[r] /\ mixer' = [mixer EXCEPT ![r] = "done"] /\ UNCHANGED mixLeg
       \/ /\ mixer[r] = "leaving" /\ mixLeg' = [mixLeg EXCEPT ![r] = Nobody]
          /\ mixer' = [mixer EXCEPT ![r] = IF isClosed[r] THEN mixer'[r] ELSE "run"]
          /\ mixer'[r] \in {"run", "done"}
    /\ UNCHANGED <<legs, isClosed, closing, dropped>>

ClosingRoom == \E r \in RoomIds : CloseRuns(r) \/ CloseDisposed(r) \/ CloseEnds(r)

roomState == <<legs, isClosed, closing, dropped, mixer, mixLeg>>

\* Every step does one of six things to the rooms, or nothing.
LEMMA RoomSteps ==
  ConferenceInv /\ [ConferenceNext]_vars =>
    Entering \/ Leaving \/ Asking \/ Mixing \/ ClosingRoom \/ UNCHANGED roomState
<1> SUFFICES ASSUME ConferenceInv, [ConferenceNext]_vars
             PROVE  Entering \/ Leaving \/ Asking \/ Mixing \/ ClosingRoom \/ UNCHANGED roomState
  OBVIOUS
<1> USE DEF roomVars, partyVars, roomState
<1>0. /\ RoomsTyped /\ PartiesTyped /\ made \in 0 .. MaxRooms
      /\ RoomsAreMade /\ ClosedRooms /\ MixedRooms /\ PartiesArePlaced
  BY DEF ConferenceInv, ConferenceTypeOK
<1>1. ASSUME NEW p \in Parties, Bound(p) \/ (MemberBound(p) /\ StillFits(home[p])) PROVE Entering
  <2>1. home[p] \in RoomIds /\ home[p] \in Made /\ made' = made
    BY <1>0, <1>1 DEF Bound, MemberBound, PartiesArePlaced, PlacedWell, RoomsAreMade, Made
  <2>2. Made' = Made
    BY <2>1 DEF Made
  <2>3. StillFits(home[p]) /\ Entered(home[p], p) /\ UNCHANGED <<isClosed, closing, dropped, mixLeg>>
    BY <1>1 DEF Bound, MemberBound
  <2>4. QED
    BY <2>1, <2>2, <2>3 DEF Entering, StillFits
<1>2. ASSUME NEW p \in Parties, PhoneAnswers(p) PROVE Entering \/ UNCHANGED roomState
  <2>1. room \in RoomIds /\ room \in Made' /\ ~isClosed[room]
    BY <1>0, <1>2, RoomIsOpen DEF PhoneAnswers, Made
  <2>2. QED
    BY <1>2, <2>1 DEF PhoneAnswers, PhoneEntered, Entering
<1>3. ASSUME NEW p \in Parties, PhoneStarts(p) PROVE Entering
  <2>1. TheRoom \in RoomIds /\ TheRoom \in Made' /\ ~isClosed[TheRoom]
    BY <1>0, <1>3, RoomNamed DEF PhoneStarts, CanStart
  <2>2. QED
    BY <1>3, <2>1 DEF PhoneStarts, CanStart, PhoneEntered, Entering
<1>4. ASSUME NEW p \in Parties, CallerEnds(p) \/ MemberEnds(p) \/ PhoneHangs(p) PROVE Leaving \/ UNCHANGED roomState
  <2>1. Knows(p) => room \in RoomIds /\ p \in legs[room]
    BY <1>0 DEF Knows, RoomsAreMade, Made
  <2>2. CASE Knows(p)
    BY <1>4, <2>1, <2>2 DEF CallerEnds, MemberEnds, PhoneHangs, Left, Leaving
  <2>3. CASE ~Knows(p)
    BY <1>4, <2>3 DEF CallerEnds, MemberEnds, PhoneHangs
  <2>4. QED
    BY <2>2, <2>3
<1>5. ASSUME NEW r \in RoomIds, MixTimeout(r) PROVE Leaving
  <2>1. PICK p \in legs[r] : Left(r, p) /\ mixLeg' = [mixLeg EXCEPT ![r] = p]
    BY <1>5 DEF MixTimeout
  <2>2. p \in Parties
    BY <1>0 DEF RoomsTyped
  <2>3. QED
    BY <1>5, <2>1, <2>2 DEF MixTimeout, Left, Leaving
<1>6. ASSUME NEW p \in Parties, LegDisposed(p) PROVE Asking \/ UNCHANGED roomState
  <2>1. home[p] \in RoomIds /\ home[p] \in Made
    BY <1>0, <1>6 DEF LegDisposed, PartiesArePlaced, PlacedWell, RoomsAreMade, Made
  <2>2. QED
    BY <1>6, <2>1 DEF LegDisposed, CloseAsked, Asking
<1>7. CASE Shutdown
  BY <1>0, <1>7 DEF Shutdown, CloseAsked, Asking, RoomsAreMade, Made
<1>8. ASSUME NEW r \in RoomIds, MixEnds(r) PROVE Asking \/ Mixing
  <2>1. r \in Made
    BY <1>0, <1>8 DEF MixEnds, RoomsAreMade, Fresh
  <2>2. QED
    BY <1>8, <2>1 DEF MixEnds, CloseAsked, Asking, Mixing
<1>9. ASSUME NEW r \in RoomIds, MixClosed(r) PROVE Mixing
  BY <1>0, <1>9 DEF MixClosed, Mixing, ClosedRooms
<1>10. ASSUME NEW r \in RoomIds, MixGoesOn(r) PROVE Mixing
  <2>1. Cancelled(r) => isClosed[r]
    BY <1>0 DEF Cancelled, ClosedRooms
  <2>2. mixer' = [mixer EXCEPT ![r] = IF isClosed[r] THEN mixer'[r] ELSE "run"] /\ mixer'[r] \in {"run", "done"}
    BY <1>0, <1>10, <2>1 DEF MixGoesOn, RoomsTyped
  <2>3. QED
    BY <1>10, <2>2 DEF MixGoesOn, Mixing
<1>11. ASSUME NEW p \in Parties,
              \/ Join(p) \/ JoinFails(p) \/ RingMembers(p) \/ MemberAnswers(p) \/ MemberFails(p) \/ MemberHangs(p)
              \/ (MemberBound(p) /\ ~StillFits(home[p])) \/ PhoneDeclines(p) \/ LeaveClosed(p) \/ Gone(p)
       PROVE  UNCHANGED roomState
  BY <1>11 DEF Join, JoinFails, RingMembers, MemberAnswers, MemberFails, MemberHangs, MemberBound, PhoneDeclines,
               LeaveClosed, Gone
<1>12. UNCHANGED vars => UNCHANGED roomState
  BY DEF vars
<1>13. QED
  BY <1>1, <1>2, <1>3, <1>4, <1>5, <1>6, <1>7, <1>8, <1>9, <1>10, <1>11, <1>12
     DEF ConferenceNext, Party, RoomStep, ClosingRoom

\* What the kinds of steps do keeps the rooms in order.
LEMMA RoomsStayTyped == ConferenceInv /\ [ConferenceNext]_vars => RoomsTyped'
<1> SUFFICES ASSUME ConferenceInv, [ConferenceNext]_vars PROVE RoomsTyped'
  OBVIOUS
<1> USE DEF roomVars, partyVars, roomState
<1>0. RoomsTyped /\ RoomsAreMade /\ PartiesTyped
  BY DEF ConferenceInv, ConferenceTypeOK
<1>1. /\ legs' \in [RoomIds -> SUBSET Parties] /\ dropped' \in [RoomIds -> SUBSET Parties]
      /\ isClosed' \in [RoomIds -> BOOLEAN]
      /\ closing' \in [RoomIds -> {"no", "queued", "disposing", "joining", "done"}]
      /\ mixer' \in [RoomIds -> {"none", "run", "leaving", "closing", "done"}]
      /\ mixLeg' \in [RoomIds -> Parties \cup {Nobody}]
  <2>1. CASE Entering
    BY <1>0, <2>1 DEF Entering, Entered, RoomsTyped
  <2>2. CASE Leaving
    BY <1>0, <2>2 DEF Leaving, RoomsTyped
  <2>3. CASE Asking
    BY <1>0, <2>3 DEF Asking, RoomsTyped
  <2>4. CASE Mixing
    BY <1>0, <2>4 DEF Mixing, RoomsTyped
  <2>5. CASE ClosingRoom
    <3>1. ASSUME NEW r \in RoomIds, CloseRuns(r)
          PROVE  /\ legs' \in [RoomIds -> SUBSET Parties] /\ dropped' \in [RoomIds -> SUBSET Parties]
                 /\ isClosed' \in [RoomIds -> BOOLEAN] /\ UNCHANGED <<mixer, mixLeg>>
                 /\ closing' \in [RoomIds -> {"no", "queued", "disposing", "joining", "done"}]
      BY <1>0, <3>1 DEF CloseRuns, RoomsTyped
    <3>2. ASSUME NEW r \in RoomIds, CloseDisposed(r)
          PROVE  /\ dropped' \in [RoomIds -> SUBSET Parties] /\ UNCHANGED <<legs, isClosed, mixer, mixLeg>>
                 /\ closing' \in [RoomIds -> {"no", "queued", "disposing", "joining", "done"}]
      BY <1>0, <3>2 DEF CloseDisposed, RoomsTyped
    <3>3. ASSUME NEW r \in RoomIds, CloseEnds(r)
          PROVE  /\ UNCHANGED <<legs, dropped, isClosed, mixer, mixLeg>>
                 /\ closing' \in [RoomIds -> {"no", "queued", "disposing", "joining", "done"}]
      BY <1>0, <3>3 DEF CloseEnds, RoomsTyped
    <3>4. QED
      BY <1>0, <2>5, <3>1, <3>2, <3>3 DEF ClosingRoom, RoomsTyped
  <2>6. CASE UNCHANGED roomState
    BY <1>0, <2>6 DEF RoomsTyped
  <2>7. QED
    BY <2>1, <2>2, <2>3, <2>4, <2>5, <2>6, RoomSteps
<1>2. manager' \in {"open", "closing"}
  <2>1. ASSUME ~Shutdown PROVE UNCHANGED manager
    BY <2>1 DEF vars, ConferenceNext, Party, RoomStep, Join, Bound, JoinFails, CallerEnds, RingMembers,
                MemberAnswers, MemberFails, MemberBound, MemberHangs, MemberEnds, PhoneAnswers, PhoneDeclines,
                PhoneStarts, PhoneHangs, LegDisposed, LeaveClosed, Gone, CloseRuns, CloseDisposed, CloseEnds,
                MixTimeout, MixGoesOn, MixEnds, MixClosed
  <2>2. QED
    BY <1>0, <2>1 DEF RoomsTyped, Shutdown
<1>3. byMixer' \in [RoomIds -> BOOLEAN]
  <2>1. ASSUME NEW r, NEW mixerAsks \in BOOLEAN, CloseAsked(r, mixerAsks) PROVE byMixer' \in [RoomIds -> BOOLEAN]
    BY <1>0, <2>1 DEF CloseAsked, RoomsTyped
  <2>2. ASSUME NEW p \in Parties, LegDisposed(p) PROVE byMixer' \in [RoomIds -> BOOLEAN]
    <3>1. CloseAsked(home[p], mixLeg[home[p]] = p) \/ UNCHANGED byMixer
      BY <2>2 DEF LegDisposed
    <3>2. (mixLeg[home[p]] = p) \in BOOLEAN
      OBVIOUS
    <3>3. QED
      BY <1>0, <2>1, <3>1, <3>2 DEF RoomsTyped
  <2>3. CASE Shutdown
    BY <1>0, <2>1, <2>3 DEF Shutdown, RoomsTyped
  <2>4. ASSUME NEW r \in RoomIds, MixEnds(r) PROVE byMixer' \in [RoomIds -> BOOLEAN]
    BY <1>0, <2>1, <2>4 DEF MixEnds, RoomsTyped
  <2>5. ASSUME NEW r \in RoomIds, CloseEnds(r) PROVE byMixer' \in [RoomIds -> BOOLEAN]
    BY <1>0, <2>5 DEF CloseEnds, RoomsTyped
  <2>6. ASSUME ~Shutdown, \A p \in Parties : ~LegDisposed(p), \A r \in RoomIds : ~MixEnds(r) /\ ~CloseEnds(r)
        PROVE  UNCHANGED byMixer
    BY <2>6 DEF vars, ConferenceNext, Party, RoomStep, Join, Bound, JoinFails, CallerEnds, RingMembers,
                MemberAnswers, MemberFails, MemberBound, MemberHangs, MemberEnds, PhoneAnswers, PhoneDeclines,
                PhoneStarts, PhoneHangs, LeaveClosed, Gone, CloseRuns, CloseDisposed, MixTimeout, MixGoesOn, MixClosed
  <2>7. QED
    BY <1>0, <2>2, <2>3, <2>4, <2>5, <2>6 DEF RoomsTyped
<1>4. announced' \in [RoomIds -> SUBSET Phones]
  <2>1. ASSUME NEW r, NEW phones, phones \subseteq Phones, Announce(r, phones) PROVE announced' \in [RoomIds -> SUBSET Phones]
    BY <1>0, <2>1 DEF Announce, RoomsTyped
  <2>2. ASSUME NEW p \in Parties, Bound(p) PROVE announced' \in [RoomIds -> SUBSET Phones]
    <3>1. PICK rung \in {{}, Reserved(p)} : Announce(home[p], rung)
      BY <2>2 DEF Bound
    <3>2. rung \subseteq Phones
      BY DEF Reserved
    <3>3. QED
      BY <2>1, <3>1, <3>2
  <2>3. ASSUME NEW p \in Parties, RingMembers(p) PROVE announced' \in [RoomIds -> SUBSET Phones]
    <3>1. PICK chosen : announced' = [r \in RoomIds |-> IF r = room THEN announced[r] \cup PhonesRung(chosen) ELSE announced[r]]
      BY <2>3 DEF RingMembers
    <3>2. PhonesRung(chosen) \subseteq Phones
      BY DEF PhonesRung, IdlePhones
    <3>3. QED
      BY <1>0, <3>1, <3>2 DEF RoomsTyped
  <2>4. ASSUME NEW p \in Parties, PhoneAnswers(p) \/ PhoneStarts(p) PROVE announced' \in [RoomIds -> SUBSET Phones]
    BY <1>0, <2>1, <2>4 DEF PhoneAnswers, PhoneStarts, CanStart, PhoneEntered, RoomsTyped
  <2>5. ASSUME NEW p \in Parties, PhoneDeclines(p) \/ PhoneHangs(p) \/ Gone(p) PROVE announced' \in [RoomIds -> SUBSET Phones]
    BY <1>0, <2>5 DEF PhoneDeclines, PhoneHangs, Gone, RoomsTyped
  <2>6. ASSUME NEW r \in RoomIds, CloseEnds(r) PROVE announced' \in [RoomIds -> SUBSET Phones]
    BY <1>0, <2>6 DEF CloseEnds, RoomsTyped
  <2>7. ASSUME \A r \in RoomIds : ~CloseEnds(r),
               \A p \in Parties : ~(\/ Bound(p) \/ RingMembers(p) \/ PhoneAnswers(p) \/ PhoneStarts(p) \/ PhoneDeclines(p)
                                 \/ PhoneHangs(p) \/ Gone(p))
        PROVE  UNCHANGED announced
    BY <2>7 DEF vars, ConferenceNext, Party, RoomStep, Join, JoinFails, CallerEnds, MemberAnswers, MemberFails,
                MemberBound, MemberHangs, MemberEnds, LegDisposed, LeaveClosed, CloseRuns, CloseDisposed, Shutdown,
                MixTimeout, MixGoesOn, MixEnds, MixClosed
  <2>8. QED
    BY <1>0, <2>2, <2>3, <2>4, <2>5, <2>6, <2>7 DEF RoomsTyped
<1>5. QED
  BY <1>1, <1>2, <1>3, <1>4 DEF RoomsTyped

\* Closed rooms keep no legs, and legs keep a mixer.
LEMMA RoomsStayInOrder == ConferenceInv /\ [ConferenceNext]_vars => ClosedRooms' /\ MixedRooms'
<1> SUFFICES ASSUME ConferenceInv, [ConferenceNext]_vars PROVE ClosedRooms' /\ MixedRooms'
  OBVIOUS
<1> USE DEF roomState, ClosedRooms, MixedRooms
<1>0. RoomsTyped /\ ClosedRooms /\ MixedRooms
  BY DEF ConferenceInv, ConferenceTypeOK
<1>1. CASE Entering
  BY <1>0, <1>1 DEF Entering, Entered, RoomsTyped
<1>2. CASE Leaving
  <2>1. Nobody \notin Parties
    BY ConferenceConstants
  <2>2. QED
    BY <1>0, <1>2, <2>1 DEF Leaving, RoomsTyped
<1>3. CASE Asking
  BY <1>0, <1>3 DEF Asking, RoomsTyped
<1>4. CASE Mixing
  BY <1>0, <1>4 DEF Mixing, RoomsTyped
<1>5. ASSUME NEW r \in RoomIds, CloseRuns(r) PROVE ClosedRooms' /\ MixedRooms'
  BY <1>0, <1>5 DEF CloseRuns, RoomsTyped
<1>6. ASSUME NEW r \in RoomIds, CloseDisposed(r) \/ CloseEnds(r) PROVE ClosedRooms' /\ MixedRooms'
  <2>1. UNCHANGED <<legs, isClosed, mixer, mixLeg>> /\ isClosed[r] /\ closing[r] \in {"disposing", "joining"}
    BY <1>0, <1>6 DEF CloseDisposed, CloseEnds
  <2>2. closing' \in {[closing EXCEPT ![r] = "joining"], [closing EXCEPT ![r] = "done"]}
    BY <1>6 DEF CloseDisposed, CloseEnds
  <2>3. dropped'[r] = {} /\ \A q \in RoomIds : q # r => dropped'[q] = dropped[q]
    <3>1. CASE CloseDisposed(r)
      BY <1>0, <3>1 DEF CloseDisposed, RoomsTyped
    <3>2. CASE CloseEnds(r)
      BY <1>0, <3>2 DEF CloseEnds
    <3>3. QED
      BY <1>6, <3>1, <3>2
  <2>4. QED
    BY <1>0, <2>1, <2>2, <2>3 DEF RoomsTyped
<1>7. CASE UNCHANGED roomState
  BY <1>0, <1>7
<1>8. QED
  BY <1>1, <1>2, <1>3, <1>4, <1>5, <1>6, <1>7, RoomSteps DEF ClosingRoom

\* No step fills a room beyond its places.
LEMMA RoomsStayFull == ConferenceInv /\ [ConferenceNext]_vars => RoomsAreFull'
<1> SUFFICES ASSUME ConferenceInv, [ConferenceNext]_vars PROVE RoomsAreFull'
  OBVIOUS
<1> USE DEF roomState
<1>0. RoomsTyped /\ RoomsAreFull /\ MaxLegs \in Nat \ {0}
  BY ConferenceConstants DEF ConferenceInv, ConferenceTypeOK
<1>1. \A r \in RoomIds : IsFiniteSet(legs[r]) /\ Cardinality(legs[r]) \in Nat
  BY <1>0, FS_Subset, FS_CardinalityType, ConferenceConstants DEF RoomsTyped
<1>2. CASE Entering
  <2>1. PICK r \in RoomIds, p \in Parties : HasPlace(r) /\ legs' = [legs EXCEPT ![r] = @ \cup {p}]
    BY <1>2 DEF Entering, Entered
  <2>2. Cardinality(legs[r] \cup {p}) <= MaxLegs
    <3>1. Cardinality(legs[r] \cup {p}) \in {Cardinality(legs[r]), Cardinality(legs[r]) + 1}
      BY <1>1, FS_AddElement
    <3>2. Cardinality(legs[r]) \in Nat /\ Cardinality(legs[r]) < MaxLegs /\ MaxLegs \in Nat
      BY <1>0, <1>1, <2>1 DEF HasPlace
    <3>3. QED
      BY <3>1, <3>2
  <2>3. QED
    BY <1>0, <2>1, <2>2 DEF RoomsAreFull, RoomsTyped
<1>3. CASE Leaving
  <2>1. PICK r \in RoomIds, p \in Parties : p \in legs[r] /\ legs' = [legs EXCEPT ![r] = @ \ {p}]
    BY <1>3 DEF Leaving
  <2>2. Cardinality(legs[r] \ {p}) <= MaxLegs
    <3>1. Cardinality(legs[r] \ {p}) = Cardinality(legs[r]) - 1
      BY <1>1, <2>1, FS_RemoveElement
    <3>2. Cardinality(legs[r]) \in Nat /\ Cardinality(legs[r]) <= MaxLegs /\ MaxLegs \in Nat
      BY <1>0, <1>1 DEF RoomsAreFull
    <3>3. QED
      BY <3>1, <3>2
  <2>3. QED
    BY <1>0, <2>1, <2>2 DEF RoomsAreFull, RoomsTyped
<1>4. CASE Asking \/ Mixing \/ UNCHANGED roomState
  BY <1>0, <1>4 DEF Asking, Mixing, RoomsAreFull
<1>5. ASSUME NEW r \in RoomIds, CloseRuns(r) PROVE RoomsAreFull'
  BY <1>0, <1>5, FS_EmptySet DEF CloseRuns, RoomsAreFull, RoomsTyped
<1>6. ASSUME NEW r \in RoomIds, CloseDisposed(r) \/ CloseEnds(r) PROVE RoomsAreFull'
  BY <1>0, <1>6 DEF CloseDisposed, CloseEnds, RoomsAreFull
<1>7. QED
  BY <1>2, <1>3, <1>4, <1>5, <1>6, RoomSteps DEF ClosingRoom

\* Rooms are only made, and the manager forgets rooms but knows no other.
LEMMA RoomsAreKept ==
  ConferenceInv /\ [ConferenceNext]_vars =>
    Made \subseteq Made' /\ made' \in 0 .. MaxRooms /\ room' \in Made' \cup {NoRoom}
<1> SUFFICES ASSUME ConferenceInv, [ConferenceNext]_vars
             PROVE  Made \subseteq Made' /\ made' \in 0 .. MaxRooms /\ room' \in Made' \cup {NoRoom}
  OBVIOUS
<1>0. RoomsAreMade /\ made \in 0 .. MaxRooms
  BY DEF ConferenceInv, ConferenceTypeOK
<1>1. ASSUME NEW p \in Parties, Join(p) \/ PhoneStarts(p)
      PROVE  Made \subseteq Made' /\ made' \in 0 .. MaxRooms /\ room' \in Made' \cup {NoRoom}
  BY <1>0, <1>1, RoomNamed DEF Join, PhoneStarts, CanStart
<1>2. ASSUME \A p \in Parties : ~Join(p) /\ ~PhoneStarts(p)
      PROVE  made' = made /\ room' \in {room, NoRoom}
  BY <1>2 DEF vars, roomVars, ConferenceNext, Party, RoomStep, Bound, JoinFails, CallerEnds, RingMembers,
              MemberAnswers, MemberFails, MemberBound, MemberHangs, MemberEnds, PhoneAnswers, PhoneDeclines,
              PhoneHangs, LegDisposed, LeaveClosed, Gone, CloseRuns, CloseDisposed, CloseEnds, Shutdown,
              MixTimeout, MixGoesOn, MixEnds, MixClosed, Emptied
<1>3. QED
  <2>1. made' = made => Made' = Made
    BY DEF Made
  <2>2. QED
    BY <1>0, <1>1, <1>2, <2>1 DEF RoomsAreMade

\* A room that is not made yet is as it was, and nobody is at home in one.
LEMMA RoomsStayMade == ConferenceInv /\ [ConferenceNext]_vars => RoomsAreMade'
<1> SUFFICES ASSUME ConferenceInv, [ConferenceNext]_vars PROVE RoomsAreMade'
  OBVIOUS
<1> USE DEF roomState
<1>0. RoomsTyped /\ PartiesTyped /\ RoomsAreMade /\ made \in 0 .. MaxRooms
  BY DEF ConferenceInv, ConferenceTypeOK
<1>1. Made \subseteq Made' /\ room' \in Made' \cup {NoRoom}
  BY RoomsAreKept
<1>2. ASSUME NEW r \in RoomIds, r \notin Made' PROVE Fresh(r)'
  <2>1. Fresh(r) /\ r \notin Made
    BY <1>0, <1>1, <1>2 DEF RoomsAreMade
  <2>2. CASE Entering
    BY <1>0, <1>2, <2>1, <2>2 DEF Entering, Entered, Fresh, RoomsTyped
  <2>3. CASE Leaving
    BY <1>0, <2>1, <2>3 DEF Leaving, Fresh, RoomsTyped
  <2>4. CASE Asking
    BY <1>0, <2>1, <2>4 DEF Asking, Fresh, RoomsTyped
  <2>5. CASE Mixing
    BY <1>0, <2>1, <2>5 DEF Mixing, Fresh, RoomsTyped
  <2>6. ASSUME NEW q \in RoomIds, CloseRuns(q) \/ CloseDisposed(q) \/ CloseEnds(q) PROVE Fresh(r)'
    <3>1. q # r
      BY <2>1, <2>6 DEF CloseRuns, CloseDisposed, CloseEnds, Fresh
    <3>2. legs'[r] = legs[r] /\ isClosed'[r] = isClosed[r] /\ closing'[r] = closing[r] /\ mixer' = mixer
      BY <1>0, <2>6, <3>1 DEF CloseRuns, CloseDisposed, CloseEnds, RoomsTyped
    <3>3. QED
      BY <2>1, <3>2 DEF Fresh
  <2>7. CASE UNCHANGED roomState
    BY <2>1, <2>7 DEF Fresh
  <2>8. QED
    BY <2>2, <2>3, <2>4, <2>5, <2>6, <2>7, RoomSteps DEF ClosingRoom
<1>3. home' \in [Parties -> Made' \cup {NoRoom}]
  <2>0. home \in [Parties -> Made' \cup {NoRoom}]
    BY <1>0, <1>1 DEF RoomsAreMade
  <2>1. ASSUME NEW p \in Parties, Join(p) PROVE home' \in [Parties -> Made' \cup {NoRoom}]
    <3>1. TheRoom \in Made'
      BY <1>0, <2>1, RoomNamed DEF Join
    <3>2. QED
      BY <2>0, <2>1, <3>1 DEF Join
  <2>2. ASSUME NEW p \in Parties, Bound(p) \/ JoinFails(p) \/ MemberBound(p) \/ Gone(p) PROVE home' \in [Parties -> Made' \cup {NoRoom}]
    BY <2>0, <2>2 DEF Bound, JoinFails, MemberBound, Gone
  <2>3. ASSUME NEW p \in Parties, CallerEnds(p) \/ MemberEnds(p) \/ PhoneHangs(p) PROVE home' \in [Parties -> Made' \cup {NoRoom}]
    <3>1. Knows(p) => room \in Made'
      BY <1>0, <1>1 DEF Knows, RoomsAreMade
    <3>2. QED
      BY <2>0, <2>3, <3>1 DEF CallerEnds, MemberEnds, PhoneHangs, Left
  <2>4. ASSUME NEW p \in Parties, MemberAnswers(p) PROVE home' \in [Parties -> Made' \cup {NoRoom}]
    BY <1>0, <1>1, <2>0, <2>4, RoomIsOpen DEF MemberAnswers
  <2>5. ASSUME NEW r \in RoomIds, MixTimeout(r) PROVE home' \in [Parties -> Made' \cup {NoRoom}]
    <3>1. r \in Made'
      BY <1>0, <1>1, <2>5 DEF MixTimeout, RoomsAreMade, Fresh
    <3>2. QED
      BY <2>0, <2>5, <3>1 DEF MixTimeout, Left
  <2>6. ASSUME NEW r \in RoomIds, MixGoesOn(r) PROVE home' \in [Parties -> Made' \cup {NoRoom}]
    BY <2>0, <2>6 DEF MixGoesOn
  <2>7. ASSUME \A p \in Parties : ~(\/ Join(p) \/ Bound(p) \/ JoinFails(p) \/ MemberBound(p) \/ Gone(p) \/ CallerEnds(p)
                                 \/ MemberEnds(p) \/ PhoneHangs(p) \/ MemberAnswers(p)),
               \A r \in RoomIds : ~MixTimeout(r) /\ ~MixGoesOn(r)
        PROVE  UNCHANGED home
    BY <2>7 DEF vars, partyVars, ConferenceNext, Party, RoomStep, RingMembers, MemberFails, MemberHangs, PhoneAnswers,
                PhoneDeclines, PhoneStarts, LegDisposed, LeaveClosed, CloseRuns, CloseDisposed, CloseEnds, Shutdown,
                MixEnds, MixClosed
  <2>8. QED
    BY <2>0, <2>1, <2>2, <2>3, <2>4, <2>5, <2>6, <2>7
<1>4. QED
  BY <1>1, <1>2, <1>3 DEF RoomsAreMade

-----------------------------------------------------------------------------
(* What a step does to the parties *)

\* Members are called, and phones rung.
Called(chosen) == {m \in chosen \cap Members : pc[m] = "idle"}
Rings(chosen) ==
    /\ pc' = [q \in Parties |->
                IF q \in PhonesRung(chosen) THEN "ringing" ELSE IF q \in Called(chosen) THEN "calling" ELSE pc[q]]
    /\ announced' = [r \in RoomIds |-> IF r = room THEN announced[r] \cup PhonesRung(chosen) ELSE announced[r]]
    /\ port' = [q \in Dialogs |-> IF q \in Called(chosen) THEN TRUE ELSE port[q]]

\* Every step keeps the types of what the parties have.
LEMMA PartiesStayTyped == ConferenceInv /\ [ConferenceNext]_vars => PartiesTyped'
<1> SUFFICES ASSUME ConferenceInv, [ConferenceNext]_vars PROVE PartiesTyped'
  OBVIOUS
<1> USE DEF roomVars, partyVars
<1>0. RoomsTyped /\ PartiesTyped /\ MixedRooms
  BY DEF ConferenceInv, ConferenceTypeOK
<1>1. home' \in [Parties -> RoomIds \cup {NoRoom}]
  BY RoomsStayMade DEF RoomsAreMade, Made
<1>2. ASSUME NEW p \in Parties, Join(p) PROVE PartiesTyped'
  <2>1. p \in Callers /\ UNCHANGED <<leave, unannounced, toRing>>
    BY <1>2 DEF Join
  <2>2. CASE HasPlace(TheRoom)
    <3>1. /\ pc' = [q \in Parties |-> IF q = p THEN "binding" ELSE IF q \in IdlePhones THEN "reserved" ELSE pc[q]]
          /\ resv' = [q \in Phones |-> IF q \in IdlePhones THEN p ELSE resv[q]]
          /\ port' = [port EXCEPT ![p] = TRUE] /\ UNCHANGED dialog
      BY <1>2, <2>2 DEF Join
    <3>2. pc' \in [Parties -> {"idle", "binding", "calling", "adding", "reserved", "ringing", "in", "leaving", "over"}]
      BY <1>0, <3>1 DEF PartiesTyped
    <3>3. resv' \in [Phones -> Callers \cup {Nobody}]
      BY <1>0, <2>1, <3>1 DEF PartiesTyped
    <3>4. QED
      BY <1>0, <1>1, <2>1, <3>1, <3>2, <3>3 DEF PartiesTyped
  <2>3. CASE ~HasPlace(TheRoom)
    BY <1>0, <1>1, <1>2, <2>1, <2>3 DEF Join, PartiesTyped
  <2>4. QED
    BY <2>2, <2>3
<1>3. ASSUME NEW p \in Parties, Bound(p) PROVE PartiesTyped'
  <2>1. unannounced' \subseteq Phones
    BY <1>0, <1>3 DEF Bound, Reserved, PartiesTyped
  <2>2. QED
    BY <1>0, <1>1, <1>3, <2>1 DEF Bound, WillRing, PartiesTyped
<1>4. ASSUME NEW p \in Parties, JoinFails(p) PROVE PartiesTyped'
  BY <1>0, <1>1, <1>4 DEF JoinFails, ReservationsReleased, PartiesTyped
<1>5. ASSUME NEW p \in Parties, CallerEnds(p) PROVE PartiesTyped'
  BY <1>0, <1>1, <1>5 DEF CallerEnds, Left, PartiesTyped
<1>6. ASSUME NEW p \in Parties, RingMembers(p) PROVE PartiesTyped'
  <2>1. UNCHANGED <<leave, resv, unannounced, dialog>> /\ toRing' \subseteq toRing
    BY <1>6 DEF RingMembers
  <2>2. PICK chosen \in SUBSET (Members \cup (Phones \ {p})) : Rings(chosen)
    BY <1>6 DEF RingMembers, Rings, Called
  <2>3. QED
    BY <1>0, <1>1, <2>1, <2>2 DEF Rings, PartiesTyped
<1>7. ASSUME NEW p \in Parties, MemberAnswers(p) \/ MemberFails(p) \/ MemberBound(p) PROVE PartiesTyped'
  BY <1>0, <1>1, <1>7 DEF MemberAnswers, MemberFails, MemberBound, Dismissed, PartiesTyped
<1>8. ASSUME NEW p \in Parties, MemberHangs(p) \/ MemberEnds(p) PROVE PartiesTyped'
  BY <1>0, <1>1, <1>8 DEF MemberHangs, MemberEnds, Left, PartiesTyped
<1>9. ASSUME NEW p \in Parties, PhoneAnswers(p) \/ PhoneDeclines(p) \/ PhoneStarts(p) \/ PhoneHangs(p) PROVE PartiesTyped'
  BY <1>0, <1>1, <1>9 DEF PhoneAnswers, PhoneDeclines, PhoneStarts, PhoneHangs, PhoneEntered, Left, PartiesTyped
<1>10. ASSUME NEW p \in Parties, LegDisposed(p) PROVE PartiesTyped'
  BY <1>0, <1>1, <1>10 DEF LegDisposed, Released, PartiesTyped
<1>11. ASSUME NEW p \in Parties, LeaveClosed(p) \/ Gone(p) PROVE PartiesTyped'
  BY <1>0, <1>1, <1>11 DEF LeaveClosed, Gone, PartiesTyped
<1>12. ASSUME NEW r \in RoomIds, CloseDisposed(r) PROVE PartiesTyped'
  BY <1>0, <1>1, <1>12 DEF CloseDisposed, PartiesTyped
<1>13. ASSUME NEW r \in RoomIds, CloseEnds(r) PROVE PartiesTyped'
  BY <1>0, <1>1, <1>13 DEF CloseEnds, PartiesTyped
<1>14. ASSUME NEW r \in RoomIds, MixTimeout(r) \/ MixGoesOn(r) PROVE PartiesTyped'
  BY <1>0, <1>1, <1>14 DEF MixTimeout, MixGoesOn, Left, PartiesTyped
<1>15. ASSUME NEW r \in RoomIds, CloseRuns(r) \/ MixEnds(r) \/ MixClosed(r) PROVE PartiesTyped'
  BY <1>0, <1>1, <1>15 DEF CloseRuns, MixEnds, MixClosed, PartiesTyped
<1>16. CASE Shutdown \/ UNCHANGED vars
  BY <1>0, <1>1, <1>16 DEF Shutdown, vars, PartiesTyped
<1>17. QED
  BY <1>2, <1>3, <1>4, <1>5, <1>6, <1>7, <1>8, <1>9, <1>10, <1>11, <1>12, <1>13, <1>14, <1>15, <1>16
     DEF ConferenceNext, Party, RoomStep

-----------------------------------------------------------------------------
(* The places of the parties *)

\* A leg that enters adds one place to its party, and to no other.
LEMMA EnterPlaces ==
  ASSUME RoomsTyped, NEW r \in RoomIds, NEW p \in Parties, Entered(r, p), UNCHANGED dropped
  PROVE  Places(p)' = Places(p) \cup {r} /\ \A q \in Parties : q # p => Places(q)' = Places(q)
  BY DEF RoomsTyped, Entered, Places

\* A party that leaves its room has no place left, the others keep theirs.
LEMMA LeftPlaces ==
  ASSUME RoomsTyped, ClosedRooms, PartiesArePlaced, NEW r \in RoomIds, NEW p \in Parties,
         p \in legs[r], legs' = [legs EXCEPT ![r] = @ \ {p}], UNCHANGED dropped
  PROVE  Places(p)' = {} /\ \A q \in Parties : q # p => Places(q)' = Places(q)
<1>1. r \in Places(p) /\ dropped[r] = {}
  BY DEF Places, ClosedRooms
<1>2. Places(p) = {r}
  BY <1>1 DEF PartiesArePlaced, PlacedWell
<1>3. Places(p)' = Places(p) \ {r}
  BY <1>1 DEF Places, RoomsTyped
<1>4. \A q \in Parties : q # p => Places(q)' = Places(q)
  BY DEF Places, RoomsTyped
<1>5. QED
  BY <1>2, <1>3, <1>4

\* Places change only with the legs and what is disposed of.
LEMMA SamePlaces ==
  ASSUME UNCHANGED <<legs, dropped>>, NEW q
  PROVE  Places(q)' = Places(q)
  BY DEF Places

\* A close moves legs to those it disposes of, then takes those away.
LEMMA ClosedPlaces ==
  ASSUME RoomsTyped, ClosedRooms, NEW r \in RoomIds, NEW q \in Parties
  PROVE  /\ CloseRuns(r) => Places(q)' = Places(q)
         /\ CloseDisposed(r) => Places(q)' \subseteq Places(q) /\ (q \notin dropped[r] => Places(q)' = Places(q))
         /\ CloseEnds(r) => Places(q)' = Places(q)
<1>1. CASE CloseRuns(r)
  <2>1. dropped[r] = {} /\ closing[r] = "queued"
    BY <1>1 DEF CloseRuns, ClosedRooms
  <2>2. \A s \in RoomIds : legs'[s] \cup dropped'[s] = legs[s] \cup dropped[s]
    BY <1>1, <2>1 DEF CloseRuns, RoomsTyped
  <2>3. ~CloseDisposed(r) /\ ~CloseEnds(r)
    BY <2>1 DEF CloseDisposed, CloseEnds
  <2>4. QED
    BY <2>2, <2>3 DEF Places
<1>2. CASE CloseDisposed(r)
  <2>1. ~CloseRuns(r) /\ ~CloseEnds(r)
    BY <1>2 DEF CloseRuns, CloseDisposed, CloseEnds
  <2>2. QED
    BY <1>2, <2>1 DEF CloseDisposed, Places, RoomsTyped
<1>3. CASE CloseEnds(r)
  <2>1. ~CloseRuns(r) /\ ~CloseDisposed(r)
    BY <1>3 DEF CloseRuns, CloseDisposed, CloseEnds
  <2>2. QED
    BY <1>3, <2>1 DEF CloseEnds, Places
<1>4. QED
  BY <1>1, <1>2, <1>3

\* A party whose places stay, or become fewer, and who is not moved, is placed as well.
LEMMA StaysPlaced ==
  ASSUME NEW q, PlacedWell(q), Places(q)' \subseteq Places(q), UNCHANGED <<pc[q], home[q], leave[q]>>
  PROVE  PlacedWell(q)'
  BY DEF PlacedWell

\* Who is not yet in may be moved on, up to the room, or out.
Early == {"idle", "binding", "calling", "adding", "reserved", "ringing"}

\* A party on the way in, that is moved on, in or out, is placed well.
LEMMA MovesOn ==
  ASSUME NEW q, PlacedWell(q), pc[q] \in Early, leave'[q] = leave[q],
         pc'[q] \in {"binding", "adding"} => home'[q] # NoRoom,
         \/ Places(q)' = Places(q)
         \/ pc'[q] \in {"in", "over"} /\ \E r : Places(q)' = Places(q) \cup {r}
  PROVE  PlacedWell(q)'
  BY DEF PlacedWell, Early

\* No step puts a party into two rooms, or into one while it leaves another.
LEMMA StayPlaced == ConferenceInv /\ [ConferenceNext]_vars => PartiesArePlaced'
<1> SUFFICES ASSUME ConferenceInv, [ConferenceNext]_vars, NEW q \in Parties PROVE PlacedWell(q)'
  BY DEF PartiesArePlaced
<1> USE DEF roomVars, partyVars
<1>0. /\ RoomsTyped /\ PartiesTyped /\ ClosedRooms /\ MixedRooms /\ RoomsAreMade /\ PartiesArePlaced
      /\ PlacedWell(q) /\ made \in 0 .. MaxRooms
  BY DEF ConferenceInv, ConferenceTypeOK, PartiesArePlaced
<1>1. ASSUME NEW p \in Parties, Join(p) PROVE PlacedWell(q)'
  <2>1. Places(q)' = Places(q) /\ leave' = leave
    BY <1>1, SamePlaces DEF Join
  <2>2. TheRoom # NoRoom
    BY <1>0, <1>1, RoomNamed, NoRoomIsNone DEF Join
  <2>3. CASE q = p
    <3>1. pc[q] = "idle" /\ (pc'[q] = "over" \/ (pc'[q] = "binding" /\ home'[q] # NoRoom))
      BY <1>0, <1>1, <2>2, <2>3 DEF Join, PartiesTyped
    <3>2. QED
      BY <1>0, <2>1, <3>1, MovesOn DEF Early
  <2>4. CASE q # p
    <3>1. home'[q] = home[q] /\ (pc'[q] = pc[q] \/ (pc[q] = "idle" /\ pc'[q] = "reserved"))
      BY <1>0, <1>1, <2>4 DEF Join, PartiesTyped, IdlePhones
    <3>2. QED
      BY <1>0, <2>1, <3>1, StaysPlaced, MovesOn DEF Early
  <2>5. QED
    BY <2>3, <2>4
<1>2. ASSUME NEW p \in Parties, Bound(p) PROVE PlacedWell(q)'
  <2>1. leave' = leave /\ pc[p] = "binding" /\ home[p] \in RoomIds
    BY <1>0, <1>2 DEF Bound, PartiesArePlaced, PlacedWell, PartiesTyped
  <2>2. Places(p)' = Places(p) \cup {home[p]} /\ \A o \in Parties : o # p => Places(o)' = Places(o)
    BY <1>0, <1>2, <2>1, EnterPlaces DEF Bound
  <2>3. CASE q = p
    <3>1. pc'[q] = "in"
      BY <1>0, <1>2, <2>3 DEF Bound, PartiesTyped
    <3>2. QED
      BY <1>0, <2>1, <2>2, <2>3, <3>1, MovesOn DEF Early
  <2>4. CASE q # p
    <3>1. home'[q] = home[q] /\ (pc'[q] = pc[q] \/ (pc[q] = "reserved" /\ pc'[q] = "ringing"))
      BY <1>0, <1>2, <2>4 DEF Bound, PartiesTyped, Reserved
    <3>2. QED
      BY <1>0, <2>1, <2>2, <2>4, <3>1, StaysPlaced, MovesOn DEF Early
  <2>5. QED
    BY <2>3, <2>4
<1>3. ASSUME NEW p \in Parties, JoinFails(p) PROVE PlacedWell(q)'
  <2>1. Places(q)' = Places(q) /\ leave' = leave
    BY <1>3, SamePlaces DEF JoinFails
  <2>2. CASE q = p
    <3>1. pc[q] = "binding" /\ pc'[q] = "over"
      BY <1>0, <1>3, <2>2 DEF JoinFails, ReservationsReleased, PartiesTyped
    <3>2. QED
      BY <1>0, <2>1, <3>1, MovesOn DEF Early
  <2>3. CASE q # p
    <3>1. home'[q] = home[q] /\ (pc'[q] = pc[q] \/ (pc[q] = "reserved" /\ pc'[q] = "idle"))
      BY <1>0, <1>3, <2>3 DEF JoinFails, ReservationsReleased, PartiesTyped, Reserved
    <3>2. QED
      BY <1>0, <2>1, <3>1, StaysPlaced, MovesOn DEF Early
  <2>4. QED
    BY <2>2, <2>3
<1>4. ASSUME NEW p \in Parties, RingMembers(p) PROVE PlacedWell(q)'
  <2>1. Places(q)' = Places(q) /\ leave' = leave /\ home' = home
    BY <1>4, SamePlaces DEF RingMembers
  <2>2. PICK chosen \in SUBSET (Members \cup (Phones \ {p})) : Rings(chosen)
    BY <1>4 DEF RingMembers, Rings, Called
  <2>3. pc'[q] = pc[q] \/ (pc[q] = "idle" /\ pc'[q] \in {"ringing", "calling"})
    BY <1>0, <2>2 DEF Rings, PhonesRung, IdlePhones, Called, PartiesTyped
  <2>4. QED
    BY <1>0, <2>1, <2>3, StaysPlaced, MovesOn DEF Early
<1>5. ASSUME NEW p \in Parties, MemberAnswers(p) \/ MemberFails(p) \/ PhoneDeclines(p) PROVE PlacedWell(q)'
  <2>1. Places(q)' = Places(q) /\ leave' = leave
    BY <1>5, SamePlaces DEF MemberAnswers, MemberFails, PhoneDeclines
  <2>2. \/ pc'[q] = pc[q] /\ home'[q] = home[q]
        \/ pc[q] \in {"calling", "ringing"} /\ (pc'[q] = "over" \/ (pc'[q] = "adding" /\ home'[q] # NoRoom))
    BY <1>0, <1>5, RoomIsOpen, NoRoomIsNone DEF MemberAnswers, MemberFails, PhoneDeclines, Dismissed, PartiesTyped
  <2>3. QED
    BY <1>0, <2>1, <2>2, StaysPlaced, MovesOn DEF Early
<1>6. ASSUME NEW p \in Parties, MemberBound(p) PROVE PlacedWell(q)'
  <2>1. leave' = leave /\ pc[p] = "adding" /\ home[p] \in RoomIds
    BY <1>0, <1>6 DEF MemberBound, PartiesArePlaced, PlacedWell, PartiesTyped
  <2>2. /\ q # p => Places(q)' = Places(q)
        /\ Places(p)' = Places(p) \/ (Places(p)' = Places(p) \cup {home[p]} /\ pc'[p] = "in")
    <3>1. CASE Entered(home[p], p) /\ pc' = [pc EXCEPT ![p] = "in"]
      BY <1>0, <1>6, <2>1, <3>1, EnterPlaces DEF MemberBound, PartiesTyped
    <3>2. CASE UNCHANGED legs
      BY <1>6, <3>2, SamePlaces DEF MemberBound
    <3>3. QED
      BY <1>6, <3>1, <3>2 DEF MemberBound
  <2>3. CASE q = p
    <3>1. pc'[q] \in {"in", "over"}
      BY <1>0, <1>6, <2>3 DEF MemberBound, Dismissed, PartiesTyped
    <3>2. QED
      BY <1>0, <2>1, <2>2, <2>3, <3>1, MovesOn DEF Early
  <2>4. CASE q # p
    <3>1. home'[q] = home[q] /\ pc'[q] = pc[q]
      BY <1>0, <1>6, <2>4 DEF MemberBound, Dismissed, PartiesTyped
    <3>2. QED
      BY <1>0, <2>1, <2>2, <2>4, <3>1, StaysPlaced
  <2>5. QED
    BY <2>3, <2>4
<1>7. ASSUME NEW p \in Parties, NEW r \in RoomIds, p \in legs[r], Left(r, p), UNCHANGED dropped,
             pc' = pc \/ pc' = [pc EXCEPT ![p] = "leaving"]
      PROVE  PlacedWell(q)'
  <2>1. Places(p)' = {} /\ (q # p => Places(q)' = Places(q))
    BY <1>0, <1>7, LeftPlaces DEF Left
  <2>2. CASE q = p
    <3>1. pc'[q] \in {"in", "leaving", "over"} /\ home'[q] = r /\ r # NoRoom
      <4>1. Places(p) # {}
        BY <1>7 DEF Places
      <4>2. pc[p] \in {"in", "over"}
        BY <1>0, <4>1 DEF PartiesArePlaced, PlacedWell
      <4>3. QED
        BY <1>0, <1>7, <2>2, <4>2, NoRoomIsNone DEF Left, PartiesTyped
    <3>2. QED
      BY <2>1, <2>2, <3>1 DEF PlacedWell
  <2>3. CASE q # p
    <3>1. UNCHANGED <<pc[q], home[q], leave[q]>>
      BY <1>0, <1>7, <2>3 DEF Left, PartiesTyped
    <3>2. QED
      BY <1>0, <2>1, <2>3, <3>1, StaysPlaced
  <2>4. QED
    BY <2>2, <2>3
<1>8. ASSUME NEW p \in Parties, CallerEnds(p) \/ MemberEnds(p) \/ PhoneHangs(p) PROVE PlacedWell(q)'
  <2>1. Knows(p) => room \in RoomIds /\ p \in legs[room]
    BY <1>0 DEF Knows, RoomsAreMade, Made
  <2>2. CASE Left(room, p) /\ Knows(p) /\ pc' = [pc EXCEPT ![p] = "leaving"]
    BY <1>7, <1>8, <2>1, <2>2 DEF CallerEnds, MemberEnds, PhoneHangs
  <2>3. CASE /\ UNCHANGED <<legs, leave, home>>
             /\ pc' = pc \/ (pc[p] = "in" /\ pc' = [pc EXCEPT ![p] = "over"])
    <3>1. Places(q)' = Places(q)
      BY <1>8, <2>3, SamePlaces DEF CallerEnds, MemberEnds, PhoneHangs
    <3>2. pc'[q] = pc[q] \/ (pc[q] = "in" /\ pc'[q] = "over")
      BY <1>0, <2>3 DEF PartiesTyped
    <3>3. QED
      BY <1>0, <2>3, <3>1, <3>2 DEF PlacedWell
  <2>4. QED
    BY <1>8, <2>2, <2>3 DEF CallerEnds, MemberEnds, PhoneHangs
<1>9. ASSUME NEW p \in Parties, PhoneAnswers(p) \/ PhoneStarts(p) PROVE PlacedWell(q)'
  <2>1. UNCHANGED <<leave, home, dropped>> /\ pc[p] \in {"idle", "ringing"}
    BY <1>9 DEF PhoneAnswers, PhoneStarts, CanStart
  <2>2. room \in RoomIds \/ ~PhoneAnswers(p)
    BY <1>0, RoomIsOpen DEF PhoneAnswers
  <2>3. TheRoom \in RoomIds \/ ~PhoneStarts(p)
    BY <1>0, RoomNamed DEF PhoneStarts, CanStart
  <2>4. (\E r \in RoomIds : PhoneEntered(r, p)) \/ (UNCHANGED legs /\ pc' = [pc EXCEPT ![p] = "over"])
    BY <1>9, <2>2, <2>3 DEF PhoneAnswers, PhoneStarts
  <2>5. ASSUME NEW r \in RoomIds, PhoneEntered(r, p) PROVE PlacedWell(q)'
    <3>1. Places(p)' = Places(p) \cup {r} /\ (q # p => Places(q)' = Places(q))
      BY <1>0, <2>1, <2>5, EnterPlaces DEF PhoneEntered
    <3>2. pc'[p] = "in" /\ (q # p => pc'[q] = pc[q])
      BY <1>0, <2>5 DEF PhoneEntered, PartiesTyped
    <3>3. QED
      BY <1>0, <2>1, <3>1, <3>2, StaysPlaced, MovesOn DEF Early
  <2>6. ASSUME UNCHANGED legs, pc' = [pc EXCEPT ![p] = "over"] PROVE PlacedWell(q)'
    <3>1. Places(q)' = Places(q) /\ pc'[p] = "over" /\ (q # p => pc'[q] = pc[q])
      BY <1>0, <2>1, <2>6, SamePlaces DEF PartiesTyped
    <3>2. QED
      BY <1>0, <2>1, <3>1, StaysPlaced, MovesOn DEF Early
  <2>7. QED
    BY <2>4, <2>5, <2>6
<1>10. ASSUME NEW p \in Parties, LegDisposed(p) \/ LeaveClosed(p) PROVE PlacedWell(q)'
  <2>1. Places(q)' = Places(q) /\ UNCHANGED <<pc, home>>
    BY <1>10, SamePlaces DEF LegDisposed, LeaveClosed
  <2>2. leave'[q] = leave[q] \/ (leave[q] # "no" /\ leave'[q] # "no")
    BY <1>0, <1>10 DEF LegDisposed, LeaveClosed, PartiesTyped
  <2>3. QED
    BY <1>0, <2>1, <2>2 DEF PlacedWell
<1>11. ASSUME NEW p \in Parties, leave[p] # "no", leave' = [leave EXCEPT ![p] = "no"], home' = [home EXCEPT ![p] = NoRoom],
              pc' = pc \/ pc' = [pc EXCEPT ![p] = "over"], UNCHANGED <<legs, dropped>>
       PROVE  PlacedWell(q)'
  <2>1. Places(q)' = Places(q)
    BY <1>11, SamePlaces
  <2>2. CASE q = p
    <3>1. leave'[q] = "no" /\ pc'[q] \in {"in", "leaving", "over"} /\ Places(q) = {}
      BY <1>0, <1>11, <2>2 DEF PlacedWell, PartiesTyped
    <3>2. QED
      BY <2>1, <3>1 DEF PlacedWell
  <2>3. CASE q # p
    <3>1. UNCHANGED <<pc[q], home[q], leave[q]>>
      BY <1>0, <1>11, <2>3 DEF PartiesTyped
    <3>2. QED
      BY <1>0, <2>1, <3>1, StaysPlaced
  <2>4. QED
    BY <2>2, <2>3
<1>12. ASSUME NEW p \in Parties, Gone(p) PROVE PlacedWell(q)'
  BY <1>11, <1>12 DEF Gone
<1>13. ASSUME NEW r \in RoomIds, CloseRuns(r) \/ CloseDisposed(r) PROVE PlacedWell(q)'
  <2>1. Places(q)' \subseteq Places(q) /\ UNCHANGED <<pc, home, leave>>
    BY <1>0, <1>13, ClosedPlaces DEF CloseRuns, CloseDisposed
  <2>2. QED
    BY <1>0, <2>1, StaysPlaced
<1>14. ASSUME NEW r \in RoomIds, CloseEnds(r) PROVE PlacedWell(q)'
  <2>1. Places(q)' = Places(q) /\ UNCHANGED <<home, leave>>
    BY <1>0, <1>14, ClosedPlaces DEF CloseEnds
  <2>2. pc'[q] = pc[q] \/ pc'[q] = "over"
    BY <1>0, <1>14 DEF CloseEnds, PartiesTyped
  <2>3. QED
    BY <1>0, <2>1, <2>2 DEF PlacedWell
<1>15. ASSUME NEW r \in RoomIds, MixTimeout(r) PROVE PlacedWell(q)'
  <2>1. PICK p \in legs[r] : Left(r, p)
    BY <1>15 DEF MixTimeout
  <2>2. p \in Parties /\ UNCHANGED <<pc, dropped>>
    BY <1>0, <1>15 DEF MixTimeout, RoomsTyped
  <2>3. QED
    BY <1>7, <2>1, <2>2
<1>16. ASSUME NEW r \in RoomIds, MixGoesOn(r) PROVE PlacedWell(q)'
  <2>1. mixLeg[r] \in Parties /\ leave[mixLeg[r]] = "done"
    BY <1>0, <1>16 DEF MixGoesOn, MixedRooms, RoomsTyped
  <2>2. QED
    BY <1>11, <1>16, <2>1 DEF MixGoesOn
<1>17. CASE \/ (\E p \in Parties : MemberHangs(p)) \/ (\E r \in RoomIds : MixEnds(r) \/ MixClosed(r))
            \/ Shutdown \/ UNCHANGED vars
  <2>1. UNCHANGED <<legs, dropped, pc, home, leave>>
    BY <1>17 DEF MemberHangs, MixEnds, MixClosed, Shutdown, vars
  <2>2. QED
    BY <1>0, <2>1, SamePlaces, StaysPlaced
<1>18. QED
  BY <1>1, <1>2, <1>3, <1>4, <1>5, <1>6, <1>8, <1>9, <1>10, <1>12, <1>13, <1>14, <1>15, <1>16, <1>17
     DEF ConferenceNext, Party, RoomStep

-----------------------------------------------------------------------------
(* Dialogs and ports *)

\* A dialog that has ended stays so once its party has left or is over.
LEMMA DialogsStayEnded == ConferenceInv /\ [ConferenceNext]_vars => DialogsEnd'
<1> SUFFICES ASSUME ConferenceInv, [ConferenceNext]_vars, NEW q \in Dialogs, pc'[q] \in {"leaving", "over"}
             PROVE  dialog'[q] = "gone"
  BY DEF DialogsEnd
<1> USE DEF partyVars
<1>0. /\ RoomsTyped /\ PartiesTyped /\ q \notin Phones /\ q \in Parties
      /\ pc[q] \in {"leaving", "over"} => dialog[q] = "gone"
  BY ConferenceConstants DEF ConferenceInv, ConferenceTypeOK, DialogsEnd, Parties, Dialogs
<1>1. ASSUME NEW p \in Parties, Join(p) \/ Bound(p) \/ JoinFails(p) PROVE dialog'[q] = "gone"
  BY <1>0, <1>1 DEF Join, Bound, JoinFails, WillRing, ReservationsReleased, IdlePhones, Reserved, PartiesTyped
<1>2. ASSUME NEW p \in Parties, CallerEnds(p) \/ MemberEnds(p) PROVE dialog'[q] = "gone"
  BY <1>0, <1>2 DEF CallerEnds, MemberEnds, PartiesTyped
<1>3. ASSUME NEW p \in Parties, RingMembers(p) PROVE dialog'[q] = "gone"
  <2>1. PICK chosen \in SUBSET (Members \cup (Phones \ {p})) : Rings(chosen)
    BY <1>3 DEF RingMembers, Rings, Called
  <2>2. pc[q] \in {"leaving", "over"} /\ UNCHANGED dialog
    BY <1>0, <1>3, <2>1 DEF RingMembers, Rings
  <2>3. QED
    BY <1>0, <2>2
<1>4. ASSUME NEW p \in Parties, MemberAnswers(p) \/ MemberFails(p) \/ MemberBound(p) \/ MemberHangs(p) PROVE dialog'[q] = "gone"
  BY <1>0, <1>4 DEF MemberAnswers, MemberFails, MemberBound, MemberHangs, Dismissed, PartiesTyped
<1>5. ASSUME NEW p \in Parties, PhoneAnswers(p) \/ PhoneDeclines(p) \/ PhoneStarts(p) \/ PhoneHangs(p) PROVE dialog'[q] = "gone"
  BY <1>0, <1>5 DEF PhoneAnswers, PhoneDeclines, PhoneStarts, PhoneHangs, CanStart, PhoneEntered, PartiesTyped
<1>6. ASSUME NEW p \in Parties, LegDisposed(p) \/ LeaveClosed(p) \/ Gone(p) PROVE dialog'[q] = "gone"
  BY <1>0, <1>6 DEF LegDisposed, Released, LeaveClosed, Gone, PartiesTyped
<1>7. ASSUME NEW r \in RoomIds, CloseEnds(r) PROVE dialog'[q] = "gone"
  BY <1>0, <1>7 DEF CloseEnds, PhonesFreed, RoomsTyped
<1>8. ASSUME NEW r \in RoomIds, CloseDisposed(r) PROVE dialog'[q] = "gone"
  BY <1>0, <1>8 DEF CloseDisposed
<1>9. ASSUME NEW r \in RoomIds, CloseRuns(r) \/ MixTimeout(r) \/ MixGoesOn(r) \/ MixEnds(r) \/ MixClosed(r) PROVE dialog'[q] = "gone"
  BY <1>0, <1>9 DEF CloseRuns, MixTimeout, MixGoesOn, MixEnds, MixClosed
<1>10. CASE Shutdown \/ UNCHANGED vars
  BY <1>0, <1>10 DEF Shutdown, vars
<1>11. QED
  BY <1>1, <1>2, <1>3, <1>4, <1>5, <1>6, <1>7, <1>8, <1>9, <1>10 DEF ConferenceNext, Party, RoomStep

\* What a port is for.
Used(p) == pc[p] \in {"binding", "calling", "adding"} \/ leave[p] = "queued" \/ Places(p) # {}

\* PortsAreUsed, by what a port is for.
LEMMA UsedMeansUsed == PortsAreUsed <=> \A p \in Dialogs : port[p] <=> Used(p)
  BY DEF PortsAreUsed, Used, Places

\* Who is not yet in has no leg, nor the cleanup of one.
LEMMA EarlyHasNoLeg ==
  ASSUME NEW q, PlacedWell(q), leave[q] \in {"no", "queued", "closing", "done"}, pc[q] \in Early
  PROVE  leave[q] = "no" /\ Places(q) = {}
  BY DEF PlacedWell, Early

\* Nothing that decides about the port of a party changes.
LEMMA StaysUsed ==
  ASSUME NEW q \in Dialogs, port[q] <=> Used(q), port'[q] = port[q], pc'[q] = pc[q],
         leave'[q] = leave[q], Places(q)' = Places(q)
  PROVE  port'[q] <=> Used(q)'
  BY DEF Used

\* Every step that takes the use of a port away gives the port back.
LEMMA PortsStayUsed == ConferenceInv /\ [ConferenceNext]_vars => PortsAreUsed'
<1> SUFFICES ASSUME ConferenceInv, [ConferenceNext]_vars, NEW q \in Dialogs PROVE port'[q] <=> Used(q)'
  BY DEF PortsAreUsed, Used, Places
<1> USE DEF roomVars, partyVars
<1>0. /\ RoomsTyped /\ PartiesTyped /\ ClosedRooms /\ MixedRooms /\ RoomsAreMade /\ PartiesArePlaced
      /\ q \in Parties /\ q \notin Phones /\ (port[q] <=> Used(q)) /\ PlacedWell(q)
  BY UsedMeansUsed, ConferenceConstants DEF ConferenceInv, ConferenceTypeOK, PartiesArePlaced, Parties, Dialogs
<1>1. ASSUME pc[q] \in Early PROVE leave[q] = "no" /\ Places(q) = {}
  BY <1>0, <1>1, EarlyHasNoLeg DEF PartiesTyped
<1>2. ASSUME NEW p \in Parties, Join(p) PROVE port'[q] <=> Used(q)'
  <2>1. Places(q)' = Places(q) /\ leave' = leave /\ pc[p] = "idle" /\ p \in Callers
    BY <1>2, SamePlaces DEF Join
  <2>2. CASE q = p
    <3>1. (pc'[q] = "binding" /\ port'[q]) \/ (pc'[q] = "over" /\ port'[q] = port[q])
      BY <1>0, <1>2, <2>2 DEF Join, PartiesTyped
    <3>2. QED
      BY <1>0, <1>1, <2>1, <2>2, <3>1 DEF Used, Early
  <2>3. CASE q # p
    <3>1. pc'[q] = pc[q] /\ port'[q] = port[q]
      BY <1>0, <1>2, <2>3 DEF Join, IdlePhones, PartiesTyped
    <3>2. QED
      BY <1>0, <2>1, <3>1, StaysUsed
  <2>4. QED
    BY <2>2, <2>3
<1>3. ASSUME NEW p \in Parties, Bound(p) PROVE port'[q] <=> Used(q)'
  <2>1. UNCHANGED <<leave, port>> /\ pc[p] = "binding" /\ home[p] \in RoomIds
    BY <1>0, <1>3 DEF Bound, PartiesArePlaced, PlacedWell, PartiesTyped
  <2>2. Places(p)' = Places(p) \cup {home[p]} /\ \A o \in Parties : o # p => Places(o)' = Places(o)
    BY <1>0, <1>3, <2>1, EnterPlaces DEF Bound
  <2>3. q # p => pc'[q] = pc[q]
    BY <1>0, <1>3 DEF Bound, Reserved, PartiesTyped
  <2>4. QED
    BY <1>0, <2>1, <2>2, <2>3, StaysUsed DEF Used
<1>4. ASSUME NEW p \in Parties, JoinFails(p) PROVE port'[q] <=> Used(q)'
  <2>1. Places(q)' = Places(q) /\ leave' = leave /\ pc[p] = "binding"
    BY <1>4, SamePlaces DEF JoinFails
  <2>2. q = p => pc'[q] = "over" /\ ~port'[q]
    BY <1>0, <1>4 DEF JoinFails, ReservationsReleased, PartiesTyped
  <2>3. q # p => pc'[q] = pc[q] /\ port'[q] = port[q]
    BY <1>0, <1>4 DEF JoinFails, ReservationsReleased, Reserved, PartiesTyped
  <2>4. QED
    BY <1>0, <1>1, <2>1, <2>2, <2>3, StaysUsed DEF Used, Early
<1>5. ASSUME NEW p \in Parties, NEW r \in RoomIds, p \in legs[r], Left(r, p), UNCHANGED <<dropped, port>>,
             pc' = pc \/ pc' = [pc EXCEPT ![p] = "leaving"]
      PROVE  port'[q] <=> Used(q)'
  <2>1. Places(p)' = {} /\ (q # p => Places(q)' = Places(q))
    BY <1>0, <1>5, LeftPlaces DEF Left
  <2>2. CASE q = p
    <3>1. Places(q) # {} /\ leave'[q] = "queued"
      BY <1>0, <1>5, <2>2 DEF Places, Left, PartiesTyped
    <3>2. QED
      BY <1>0, <1>5, <3>1 DEF Used
  <2>3. CASE q # p
    <3>1. pc'[q] = pc[q] /\ leave'[q] = leave[q]
      BY <1>0, <1>5, <2>3 DEF Left, PartiesTyped
    <3>2. QED
      BY <1>0, <1>5, <2>1, <2>3, <3>1, StaysUsed
  <2>4. QED
    BY <2>2, <2>3
<1>6. ASSUME NEW p \in Parties, CallerEnds(p) \/ MemberEnds(p) \/ PhoneHangs(p) PROVE port'[q] <=> Used(q)'
  <2>1. Knows(p) => room \in RoomIds /\ p \in legs[room]
    BY <1>0 DEF Knows, RoomsAreMade, Made
  <2>2. CASE Left(room, p) /\ Knows(p) /\ pc' = [pc EXCEPT ![p] = "leaving"]
    BY <1>5, <1>6, <2>1, <2>2 DEF CallerEnds, MemberEnds, PhoneHangs
  <2>3. CASE /\ UNCHANGED <<legs, leave, home>>
             /\ pc' = pc \/ (pc[p] = "in" /\ pc' = [pc EXCEPT ![p] = "over"])
    <3>1. Places(q)' = Places(q) /\ UNCHANGED port
      BY <1>6, <2>3, SamePlaces DEF CallerEnds, MemberEnds, PhoneHangs
    <3>2. pc'[q] = pc[q] \/ (pc[q] = "in" /\ pc'[q] = "over")
      BY <1>0, <2>3 DEF PartiesTyped
    <3>3. QED
      BY <1>0, <2>3, <3>1, <3>2 DEF Used
  <2>4. QED
    BY <1>6, <2>2, <2>3 DEF CallerEnds, MemberEnds, PhoneHangs
<1>7. ASSUME NEW p \in Parties, RingMembers(p) PROVE port'[q] <=> Used(q)'
  <2>1. Places(q)' = Places(q) /\ leave' = leave
    BY <1>7, SamePlaces DEF RingMembers
  <2>2. PICK chosen \in SUBSET (Members \cup (Phones \ {p})) : Rings(chosen)
    BY <1>7 DEF RingMembers, Rings, Called
  <2>3. CASE q \in Called(chosen)
    BY <1>0, <2>2, <2>3 DEF Rings, PhonesRung, IdlePhones, Used
  <2>4. CASE q \notin Called(chosen)
    <3>1. pc'[q] = pc[q] /\ port'[q] = port[q]
      BY <1>0, <2>2, <2>4 DEF Rings, PhonesRung, IdlePhones
    <3>2. QED
      BY <1>0, <2>1, <3>1, StaysUsed
  <2>5. QED
    BY <2>3, <2>4
<1>8. ASSUME NEW p \in Parties, MemberAnswers(p) \/ MemberFails(p) PROVE port'[q] <=> Used(q)'
  <2>1. Places(q)' = Places(q) /\ leave' = leave /\ pc[p] = "calling"
    BY <1>8, SamePlaces DEF MemberAnswers, MemberFails
  <2>2. q # p => pc'[q] = pc[q] /\ port'[q] = port[q]
    BY <1>0, <1>8 DEF MemberAnswers, MemberFails, Dismissed, PartiesTyped
  <2>3. q = p => (pc'[q] = "adding" /\ port'[q] = port[q]) \/ (pc'[q] = "over" /\ ~port'[q])
    BY <1>0, <1>8 DEF MemberAnswers, MemberFails, Dismissed, PartiesTyped
  <2>4. QED
    BY <1>0, <1>1, <2>1, <2>2, <2>3, StaysUsed DEF Used, Early
<1>9. ASSUME NEW p \in Parties, MemberBound(p) PROVE port'[q] <=> Used(q)'
  <2>1. leave' = leave /\ pc[p] = "adding" /\ home[p] \in RoomIds
    BY <1>0, <1>9 DEF MemberBound, PartiesArePlaced, PlacedWell, PartiesTyped
  <2>2. CASE Entered(home[p], p) /\ pc' = [pc EXCEPT ![p] = "in"] /\ UNCHANGED port
    <3>1. Places(p)' = Places(p) \cup {home[p]} /\ (q # p => Places(q)' = Places(q))
      BY <1>0, <1>9, <2>1, <2>2, EnterPlaces DEF MemberBound
    <3>2. q # p => pc'[q] = pc[q]
      BY <1>0, <2>2 DEF PartiesTyped
    <3>3. QED
      BY <1>0, <2>1, <2>2, <3>1, <3>2, StaysUsed DEF Used
  <2>3. CASE Dismissed(p) /\ UNCHANGED legs
    <3>1. Places(q)' = Places(q)
      BY <1>9, <2>3, SamePlaces DEF MemberBound
    <3>2. q # p => pc'[q] = pc[q] /\ port'[q] = port[q]
      BY <1>0, <2>3 DEF Dismissed, PartiesTyped
    <3>3. q = p => pc'[q] = "over" /\ ~port'[q]
      BY <1>0, <2>3 DEF Dismissed, PartiesTyped
    <3>4. QED
      BY <1>0, <1>1, <2>1, <3>1, <3>2, <3>3, StaysUsed DEF Used, Early
  <2>4. QED
    BY <1>9, <2>2, <2>3 DEF MemberBound
<1>10. ASSUME NEW p \in Parties, p \in Phones, NEW r \in RoomIds, Entered(r, p) \/ UNCHANGED legs,
              UNCHANGED <<dropped, leave, port>>, \A o \in Parties : o # p => pc'[o] = pc[o]
       PROVE  port'[q] <=> Used(q)'
  <2>1. Places(q)' = Places(q)
    BY <1>0, <1>10, EnterPlaces, SamePlaces
  <2>2. QED
    BY <1>0, <1>10, <2>1, StaysUsed
<1>11. ASSUME NEW p \in Parties, PhoneAnswers(p) \/ PhoneStarts(p) PROVE port'[q] <=> Used(q)'
  <2>1. room \in RoomIds \/ ~PhoneAnswers(p)
    BY <1>0, RoomIsOpen DEF PhoneAnswers
  <2>2. TheRoom \in RoomIds \/ ~PhoneStarts(p)
    BY <1>0, RoomNamed DEF PhoneStarts, CanStart, ConferenceInv, ConferenceTypeOK
  <2>3. /\ p \in Phones /\ UNCHANGED <<dropped, leave, port>>
        /\ \A o \in Parties : o # p => pc'[o] = pc[o]
        /\ \E r \in RoomIds : Entered(r, p) \/ UNCHANGED legs
    BY <1>0, <1>11, <2>1, <2>2 DEF PhoneAnswers, PhoneStarts, CanStart, PhoneEntered, PartiesTyped
  <2>4. QED
    BY <1>10, <2>3
<1>12. ASSUME NEW p \in Parties, PhoneDeclines(p) PROVE port'[q] <=> Used(q)'
  <2>1. Places(q)' = Places(q) /\ UNCHANGED <<leave, port>> /\ pc'[q] = pc[q]
    BY <1>0, <1>12, SamePlaces DEF PhoneDeclines, PartiesTyped
  <2>2. QED
    BY <1>0, <2>1, StaysUsed
<1>13. ASSUME NEW p \in Parties, LegDisposed(p) PROVE port'[q] <=> Used(q)'
  <2>1. Places(q)' = Places(q) /\ UNCHANGED pc /\ leave[p] = "queued"
    BY <1>13, SamePlaces DEF LegDisposed
  <2>2. CASE q = p
    <3>1. Places(q) = {} /\ pc[q] \in {"in", "leaving", "over"}
      BY <1>0, <2>1, <2>2 DEF PlacedWell
    <3>2. leave'[q] \in {"closing", "done"} /\ ~port'[q]
      BY <1>0, <1>13, <2>2 DEF LegDisposed, Released, PartiesTyped
    <3>3. QED
      BY <2>1, <3>1, <3>2 DEF Used
  <2>3. CASE q # p
    <3>1. leave'[q] = leave[q] /\ port'[q] = port[q]
      BY <1>0, <1>13, <2>3 DEF LegDisposed, Released, PartiesTyped
    <3>2. QED
      BY <1>0, <2>1, <3>1, StaysUsed
  <2>4. QED
    BY <2>2, <2>3
<1>14. ASSUME NEW p \in Parties, LeaveClosed(p) \/ Gone(p) PROVE port'[q] <=> Used(q)'
  <2>1. Places(q)' = Places(q) /\ UNCHANGED port
    BY <1>14, SamePlaces DEF LeaveClosed, Gone
  <2>2. leave'[q] = leave[q] \/ (leave[q] # "queued" /\ leave'[q] # "queued")
    BY <1>0, <1>14 DEF LeaveClosed, Gone, PartiesTyped
  <2>3. pc'[q] = pc[q] \/ (pc[q] = "leaving" /\ pc'[q] = "over")
    BY <1>0, <1>14 DEF LeaveClosed, Gone, PartiesTyped
  <2>4. QED
    BY <1>0, <2>1, <2>2, <2>3 DEF Used
<1>15. ASSUME NEW r \in RoomIds, CloseRuns(r) PROVE port'[q] <=> Used(q)'
  <2>1. Places(q)' = Places(q) /\ UNCHANGED <<port, pc, leave>>
    BY <1>0, <1>15, ClosedPlaces DEF CloseRuns
  <2>2. QED
    BY <1>0, <2>1, StaysUsed
<1>16. ASSUME NEW r \in RoomIds, CloseDisposed(r) PROVE port'[q] <=> Used(q)'
  <2>1. UNCHANGED <<pc, leave>>
    BY <1>16 DEF CloseDisposed
  <2>2. CASE q \in dropped[r]
    <3>1. r \in Places(q)
      BY <2>2 DEF Places
    <3>2. leave[q] = "no" /\ pc[q] \in {"in", "over"} /\ Places(q) = {r} /\ legs[r] = {}
      BY <1>0, <1>16, <3>1 DEF PlacedWell, ClosedRooms, CloseDisposed
    <3>3. r \notin Places(q)' /\ Places(q)' \subseteq Places(q)
      BY <1>0, <1>16, <3>2 DEF CloseDisposed, Places, RoomsTyped
    <3>4. ~port'[q]
      BY <1>16, <2>2 DEF CloseDisposed
    <3>5. QED
      BY <2>1, <3>2, <3>3, <3>4 DEF Used
  <2>3. CASE q \notin dropped[r]
    <3>1. Places(q)' = Places(q) /\ port'[q] = port[q]
      BY <1>0, <1>16, <2>3, ClosedPlaces DEF CloseDisposed
    <3>2. QED
      BY <1>0, <2>1, <3>1, StaysUsed
  <2>4. QED
    BY <2>2, <2>3
<1>17. ASSUME NEW r \in RoomIds, CloseEnds(r) PROVE port'[q] <=> Used(q)'
  <2>1. Places(q)' = Places(q) /\ UNCHANGED <<port, leave>>
    BY <1>0, <1>17, ClosedPlaces DEF CloseEnds
  <2>2. pc'[q] = pc[q]
    BY <1>0, <1>17 DEF CloseEnds, PhonesFreed, RoomsTyped
  <2>3. QED
    BY <1>0, <2>1, <2>2, StaysUsed
<1>18. ASSUME NEW r \in RoomIds, MixTimeout(r) PROVE port'[q] <=> Used(q)'
  <2>1. PICK p \in legs[r] : Left(r, p)
    BY <1>18 DEF MixTimeout
  <2>2. p \in Parties /\ UNCHANGED <<pc, dropped, port>>
    BY <1>0, <1>18 DEF MixTimeout, RoomsTyped
  <2>3. QED
    BY <1>5, <2>1, <2>2
<1>19. ASSUME NEW r \in RoomIds, MixGoesOn(r) PROVE port'[q] <=> Used(q)'
  <2>1. Places(q)' = Places(q) /\ UNCHANGED <<port, pc>>
    BY <1>19, SamePlaces DEF MixGoesOn
  <2>2. leave'[q] = leave[q] \/ (leave[q] # "queued" /\ leave'[q] # "queued")
    BY <1>0, <1>19 DEF MixGoesOn, PartiesTyped
  <2>3. QED
    BY <1>0, <2>1, <2>2 DEF Used
<1>20. CASE \/ (\E p \in Parties : MemberHangs(p)) \/ (\E r \in RoomIds : MixEnds(r) \/ MixClosed(r))
            \/ Shutdown \/ UNCHANGED vars
  <2>1. UNCHANGED <<legs, dropped, pc, port, leave>>
    BY <1>20 DEF MemberHangs, MixEnds, MixClosed, Shutdown, vars
  <2>2. QED
    BY <1>0, <2>1, SamePlaces, StaysUsed
<1>21. QED
  BY <1>2, <1>3, <1>4, <1>6, <1>7, <1>8, <1>9, <1>11, <1>12, <1>13, <1>14, <1>15, <1>16, <1>17, <1>18, <1>19, <1>20
     DEF ConferenceNext, Party, RoomStep

-----------------------------------------------------------------------------
(* The phones *)

\* The open rooms that have announced a phone.
Hosts(p) == {r \in RoomIds : p \in announced[r] /\ closing[r] # "done"}

\* A phone that was ringing or in is still so, or is over; its host remains.
LEMMA KeepsHost ==
  ASSUME NEW q \in Phones, pc[q] \in {"ringing", "in"} => Hosts(q) # {},
         pc'[q] \in {"ringing", "in"} => pc[q] \in {"ringing", "in"} /\ Hosts(q) \subseteq Hosts(q)'
  PROVE  pc'[q] \in {"ringing", "in"} => Hosts(q)' # {}
  OBVIOUS

\* A phone that starts to ring, or comes in, is announced by an open room; whoever takes its room away tells it.
LEMMA PhonesKeepRooms == ConferenceInv /\ [ConferenceNext]_vars => PhoneHasRoom'
<1> SUFFICES ASSUME ConferenceInv, [ConferenceNext]_vars, NEW q \in Phones
             PROVE  pc'[q] \in {"ringing", "in"} => Hosts(q)' # {}
  BY DEF PhoneHasRoom, Hosts
<1> USE DEF roomVars, partyVars
<1>0. /\ RoomsTyped /\ PartiesTyped /\ ClosedRooms /\ RoomsAreMade /\ PartiesArePlaced /\ PlacedWell(q)
      /\ q \in Parties /\ q \notin Dialogs /\ (pc[q] \in {"ringing", "in"} => Hosts(q) # {}) /\ made \in 0 .. MaxRooms
  BY ConferenceConstants DEF ConferenceInv, ConferenceTypeOK, PartiesArePlaced, Parties, Dialogs, PhoneHasRoom, Hosts
<1> DEFINE Kept == pc'[q] \in {"ringing", "in"} => pc[q] \in {"ringing", "in"} /\ Hosts(q) \subseteq Hosts(q)'
           Goal == pc'[q] \in {"ringing", "in"} => Hosts(q)' # {}
<1>1. Kept => Goal
  BY <1>0, KeepsHost
<1>2. ASSUME UNCHANGED <<announced, closing>> PROVE Hosts(q)' = Hosts(q)
  BY <1>2 DEF Hosts
<1>3. ASSUME NEW p \in Parties, Join(p) \/ JoinFails(p) PROVE Kept
  <2>1. Hosts(q)' = Hosts(q)
    BY <1>2, <1>3 DEF Join, JoinFails
  <2>2. pc'[q] \in {"ringing", "in"} => pc[q] \in {"ringing", "in"}
    BY <1>0, <1>3 DEF Join, JoinFails, ReservationsReleased, PartiesTyped
  <2>3. QED
    BY <2>1, <2>2
<1>4. ASSUME NEW p \in Parties, Bound(p) PROVE Goal
  <2>1. home[p] \in RoomIds /\ p # q /\ closing[home[p]] # "done" /\ UNCHANGED closing
    BY <1>0, <1>4 DEF Bound, StillFits, ClosedRooms, PartiesArePlaced, PlacedWell, PartiesTyped, Dialogs
  <2>2. PICK rung \in SUBSET Phones :
           /\ pc' = [o \in Parties |-> IF o = p THEN "in" ELSE IF o \in rung THEN "ringing" ELSE pc[o]]
           /\ Announce(home[p], rung)
    BY <1>4 DEF Bound, Reserved
  <2>3. CASE q \in rung
    <3>1. home[p] \in Hosts(q)'
      BY <1>0, <2>1, <2>2, <2>3 DEF Announce, Hosts, RoomsTyped
    <3>2. QED
      BY <3>1
  <2>4. CASE q \notin rung
    <3>1. pc'[q] = pc[q] /\ Hosts(q) \subseteq Hosts(q)'
      BY <1>0, <2>1, <2>2, <2>4 DEF Announce, Hosts, RoomsTyped
    <3>2. QED
      BY <1>1, <3>1
  <2>5. QED
    BY <2>3, <2>4
<1>5. ASSUME NEW p \in Parties, RingMembers(p) PROVE Goal
  <2>1. PICK chosen \in SUBSET (Members \cup (Phones \ {p})) : Rings(chosen)
    BY <1>5 DEF RingMembers, Rings, Called
  <2>2. UNCHANGED closing /\ Hosts(q) \subseteq Hosts(q)'
    BY <1>0, <1>5, <2>1 DEF RingMembers, Rings, Hosts
  <2>3. CASE q \in PhonesRung(chosen)
    <3>1. ~NeedsRoom /\ room \in RoomIds /\ closing[room] # "done"
      BY <1>0, <2>3, RoomIsOpen DEF PhonesRung, ClosedRooms
    <3>2. room \in Hosts(q)'
      BY <1>0, <2>1, <2>2, <2>3, <3>1 DEF Rings, Hosts
    <3>3. QED
      BY <3>2
  <2>4. CASE q \notin PhonesRung(chosen)
    <3>1. pc'[q] \in {pc[q], "calling"}
      BY <1>0, <2>1, <2>4 DEF Rings
    <3>2. QED
      BY <1>1, <2>2, <3>1
  <2>5. QED
    BY <2>3, <2>4
<1>6. ASSUME NEW p \in Parties, CallerEnds(p) \/ MemberAnswers(p) \/ MemberFails(p) \/ MemberBound(p) \/ MemberHangs(p)
                                \/ MemberEnds(p)
      PROVE  Kept
  <2>1. Hosts(q)' = Hosts(q)
    BY <1>2, <1>6 DEF CallerEnds, MemberAnswers, MemberFails, MemberBound, MemberHangs, MemberEnds
  <2>2. p \in Dialogs /\ p # q
    BY <1>0, <1>6 DEF CallerEnds, MemberAnswers, MemberFails, MemberBound, MemberHangs, MemberEnds, Dialogs
  <2>3. pc'[q] = pc[q]
    BY <1>0, <1>6, <2>2 DEF CallerEnds, MemberAnswers, MemberFails, MemberBound, MemberHangs, MemberEnds, Dismissed, PartiesTyped
  <2>4. QED
    BY <2>1, <2>3
<1>7. ASSUME NEW p \in Parties, NEW r \in RoomIds, PhoneEntered(r, p), closing[r] # "done", UNCHANGED closing PROVE Goal
  <2>1. CASE q = p
    <3>1. r \in Hosts(q)'
      BY <1>0, <1>7, <2>1 DEF PhoneEntered, Announce, Hosts, RoomsTyped
    <3>2. QED
      BY <3>1
  <2>2. CASE q # p
    <3>1. pc'[q] = pc[q] /\ Hosts(q) \subseteq Hosts(q)'
      BY <1>0, <1>7, <2>2 DEF PhoneEntered, Announce, Hosts, RoomsTyped, PartiesTyped
    <3>2. QED
      BY <1>1, <3>1
  <2>3. QED
    BY <2>1, <2>2
<1>8. ASSUME NEW p \in Parties, UNCHANGED closing, \A o \in Parties : o # p => pc'[o] = pc[o],
             pc'[p] \notin {"ringing", "in"},
             \A r \in RoomIds : announced[r] \ {p} \subseteq announced'[r]
      PROVE  Kept
  BY <1>0, <1>8 DEF Hosts
<1>9. ASSUME NEW p \in Parties, PhoneAnswers(p) PROVE Goal
  <2>1. room \in RoomIds /\ closing[room] # "done" /\ UNCHANGED closing
    BY <1>0, <1>9, RoomIsOpen DEF PhoneAnswers, ClosedRooms
  <2>2. CASE PhoneEntered(room, p)
    BY <1>7, <2>1, <2>2
  <2>3. CASE announced' = [announced EXCEPT ![room] = @ \ {p}] /\ pc' = [pc EXCEPT ![p] = "over"]
    <3>1. /\ \A o \in Parties : o # p => pc'[o] = pc[o]
          /\ pc'[p] = "over"
          /\ \A r \in RoomIds : announced[r] \ {p} \subseteq announced'[r]
      BY <1>0, <2>3 DEF RoomsTyped, PartiesTyped
    <3>2. QED
      BY <1>1, <1>8, <2>1, <3>1
  <2>4. QED
    BY <1>9, <2>2, <2>3 DEF PhoneAnswers
<1>10. ASSUME NEW p \in Parties, PhoneDeclines(p) \/ (PhoneHangs(p) /\ ~Knows(p)) PROVE Kept
  <2>1. /\ UNCHANGED closing /\ pc' = [pc EXCEPT ![p] = "over"]
        /\ announced' = [r \in RoomIds |-> IF r = room THEN announced[r] \ {p} ELSE announced[r]]
    BY <1>10 DEF PhoneDeclines, PhoneHangs
  <2>2. /\ \A o \in Parties : o # p => pc'[o] = pc[o]
        /\ pc'[p] = "over"
        /\ \A r \in RoomIds : announced[r] \ {p} \subseteq announced'[r]
    BY <1>0, <2>1 DEF PartiesTyped
  <2>3. QED
    BY <1>8, <2>1, <2>2
<1>11. ASSUME NEW p \in Parties, PhoneHangs(p), Knows(p) PROVE Kept
  <2>1. UNCHANGED <<announced, closing>> /\ pc' = [pc EXCEPT ![p] = "leaving"]
    BY <1>11 DEF PhoneHangs
  <2>2. pc'[q] = pc[q] \/ pc'[q] = "leaving"
    BY <1>0, <2>1 DEF PartiesTyped
  <2>3. QED
    BY <1>2, <2>1, <2>2
<1>12. ASSUME NEW p \in Parties, PhoneStarts(p) PROVE Goal
  <2>1. TheRoom \in RoomIds /\ ~isClosed[TheRoom]
    BY <1>0, <1>12, RoomNamed DEF PhoneStarts, CanStart
  <2>2. closing[TheRoom] # "done"
    BY <1>0, <2>1 DEF ClosedRooms
  <2>3. PhoneEntered(TheRoom, p) /\ UNCHANGED closing
    BY <1>12 DEF PhoneStarts
  <2>4. QED
    BY <1>7, <2>1, <2>2, <2>3
<1>13. ASSUME NEW p \in Parties, Gone(p) PROVE Kept
  <2>1. UNCHANGED closing /\ pc' = [pc EXCEPT ![p] = "over"]
    BY <1>13 DEF Gone
  <2>2. announced' = announced \/ announced' = [announced EXCEPT ![home[p]] = @ \ {p}]
    BY <1>13 DEF Gone
  <2>3. /\ \A o \in Parties : o # p => pc'[o] = pc[o]
        /\ pc'[p] = "over"
    BY <1>0, <2>1 DEF PartiesTyped
  <2>4. \A r \in RoomIds : announced[r] \ {p} \subseteq announced'[r]
    BY <1>0, <2>2 DEF RoomsTyped
  <2>5. QED
    BY <1>8, <2>1, <2>3, <2>4
<1>14. ASSUME UNCHANGED <<pc, announced>>, \A r \in RoomIds : closing[r] # "done" => closing'[r] # "done" PROVE Kept
  BY <1>14 DEF Hosts
<1>15. ASSUME NEW p \in Parties, LegDisposed(p) \/ LeaveClosed(p) PROVE Kept
  <2>1. /\ UNCHANGED <<pc, announced>>
        /\ \A r \in RoomIds : closing[r] # "done" => closing'[r] # "done"
    BY <1>0, <1>15 DEF LegDisposed, LeaveClosed, CloseAsked, RoomsTyped
  <2>2. QED
    BY <1>14, <2>1
<1>16. ASSUME NEW r \in RoomIds, CloseRuns(r) \/ CloseDisposed(r) \/ MixTimeout(r) \/ MixGoesOn(r) \/ MixEnds(r) \/ MixClosed(r)
       PROVE  Kept
  <2>1. /\ UNCHANGED <<pc, announced>>
        /\ \A s \in RoomIds : closing[s] # "done" => closing'[s] # "done"
    BY <1>0, <1>16 DEF CloseRuns, CloseDisposed, MixTimeout, MixGoesOn, MixEnds, MixClosed, CloseAsked, RoomsTyped
  <2>2. QED
    BY <1>14, <2>1
<1>17. ASSUME NEW r \in RoomIds, CloseEnds(r) PROVE Kept
  <2>1. CASE q \in announced[r]
    BY <1>0, <1>17, <2>1 DEF CloseEnds, PhonesFreed
  <2>2. CASE q \notin announced[r]
    BY <1>0, <1>17, <2>2 DEF CloseEnds, PhonesFreed, Hosts, RoomsTyped
  <2>3. QED
    BY <2>1, <2>2
<1>18. CASE Shutdown \/ UNCHANGED vars
  <2>1. /\ UNCHANGED <<pc, announced>>
        /\ \A r \in RoomIds : closing[r] # "done" => closing'[r] # "done"
    BY <1>0, <1>18 DEF Shutdown, CloseAsked, RoomsTyped, vars
  <2>2. QED
    BY <1>1, <1>14, <2>1
<1>19. Kept \/ Goal
  BY <1>3, <1>4, <1>5, <1>6, <1>9, <1>10, <1>11, <1>12, <1>13, <1>15, <1>16, <1>17, <1>18
     DEF ConferenceNext, Party, RoomStep
<1>20. QED
  BY <1>1, <1>19

-----------------------------------------------------------------------------
(* The reservations *)

\* A reserved phone stays with a join that is still binding, or is announced or released
\* with it; only the phones of a join that found a leg in its room do not.
LEMMA ReservationsStayHeld == ConferenceInv /\ [ConferenceNext]_vars => ReservationIsHeld'
<1> SUFFICES ASSUME ConferenceInv, [ConferenceNext]_vars, NEW q \in Phones, q \notin unannounced', pc'[q] = "reserved"
             PROVE  resv'[q] \in Callers /\ pc'[resv'[q]] = "binding"
  BY DEF ReservationIsHeld
<1> USE DEF roomVars, partyVars
<1>0. /\ RoomsTyped /\ PartiesTyped /\ q \in Parties /\ q \notin Dialogs
      /\ (q \notin unannounced /\ pc[q] = "reserved" => resv[q] \in Callers /\ pc[resv[q]] = "binding")
      /\ Callers \subseteq Parties /\ Callers \cap Members = {} /\ Callers \cap Phones = {}
  BY ConferenceConstants DEF ConferenceInv, ConferenceTypeOK, Parties, Dialogs, ReservationIsHeld
<1> DEFINE Goal == resv'[q] \in Callers /\ pc'[resv'[q]] = "binding"
           Kept == /\ UNCHANGED <<resv, unannounced>> /\ pc[q] = "reserved"
                   /\ \A c \in Callers : pc[c] = "binding" => pc'[c] = "binding"
<1>1. Kept => Goal
  BY <1>0
<1>2. ASSUME NEW p \in Parties, Join(p) PROVE Goal
  <2>1. p \in Callers /\ pc[p] = "idle" /\ p # q /\ UNCHANGED unannounced
    BY <1>0, <1>2 DEF Join, Dialogs
  <2>2. CASE HasPlace(TheRoom)
    <3>1. /\ pc' = [o \in Parties |-> IF o = p THEN "binding" ELSE IF o \in IdlePhones THEN "reserved" ELSE pc[o]]
          /\ resv' = [o \in Phones |-> IF o \in IdlePhones THEN p ELSE resv[o]]
      BY <1>2, <2>2 DEF Join
    <3>2. CASE q \in IdlePhones
      BY <1>0, <2>1, <3>1, <3>2
    <3>3. CASE q \notin IdlePhones
      <4>1. resv'[q] = resv[q] /\ pc[q] = "reserved"
        BY <1>0, <2>1, <3>1, <3>3
      <4>2. resv[q] \in Callers /\ pc[resv[q]] = "binding" /\ resv[q] \notin IdlePhones
        BY <1>0, <2>1, <4>1 DEF IdlePhones
      <4>3. QED
        BY <1>0, <3>1, <4>1, <4>2
    <3>4. QED
      BY <3>2, <3>3
  <2>3. CASE ~HasPlace(TheRoom)
    <3>1. Kept
      BY <1>0, <1>2, <2>1, <2>3 DEF Join, PartiesTyped
    <3>2. QED
      BY <1>1, <3>1
  <2>4. QED
    BY <2>2, <2>3
<1>3. ASSUME NEW p \in Parties, Bound(p) PROVE Goal
  <2>1. PICK rung \in SUBSET Phones :
           /\ pc' = [o \in Parties |-> IF o = p THEN "in" ELSE IF o \in rung THEN "ringing" ELSE pc[o]]
           /\ resv' = [o \in Phones |-> IF o \in rung THEN Nobody ELSE resv[o]]
           /\ unannounced' = unannounced \cup (Reserved(p) \ rung)
    BY <1>3 DEF Bound, Reserved
  <2>2. p \in Callers /\ q # p
    BY <1>0, <1>3 DEF Bound, Dialogs
  <2>3. q \notin rung /\ pc[q] = "reserved"
    BY <1>0, <2>1, <2>2
  <2>4. resv'[q] = resv[q] /\ q \notin unannounced /\ resv[q] # p
    BY <1>0, <2>1, <2>3 DEF Reserved
  <2>5. resv[q] \in Callers /\ pc[resv[q]] = "binding" /\ resv[q] \notin rung
    BY <1>0, <2>1, <2>3, <2>4
  <2>6. QED
    BY <1>0, <2>1, <2>4, <2>5
<1>4. ASSUME NEW p \in Parties, JoinFails(p) PROVE Goal
  <2>1. /\ p \in Callers /\ q # p /\ UNCHANGED unannounced
        /\ pc' = [o \in Parties |-> IF o = p THEN "over" ELSE IF o \in Reserved(p) THEN "idle" ELSE pc[o]]
        /\ resv' = [o \in Phones |-> IF resv[o] = p THEN Nobody ELSE resv[o]]
    BY <1>0, <1>4 DEF JoinFails, ReservationsReleased, Dialogs
  <2>2. q \notin Reserved(p) /\ pc[q] = "reserved" /\ resv[q] # p /\ resv'[q] = resv[q]
    BY <1>0, <2>1 DEF Reserved
  <2>3. resv[q] \in Callers /\ pc[resv[q]] = "binding" /\ resv[q] \notin Reserved(p)
    BY <1>0, <2>1, <2>2 DEF Reserved
  <2>4. QED
    BY <1>0, <2>1, <2>2, <2>3
<1>5. ASSUME NEW p \in Parties, RingMembers(p) PROVE Kept
  <2>1. PICK chosen \in SUBSET (Members \cup (Phones \ {p})) : Rings(chosen)
    BY <1>5 DEF RingMembers, Rings, Called
  <2>2. PhonesRung(chosen) \subseteq Phones /\ Called(chosen) \subseteq Members
    BY DEF PhonesRung, IdlePhones, Called
  <2>3. UNCHANGED <<resv, unannounced>>
    BY <1>5 DEF RingMembers
  <2>4. QED
    BY <1>0, <2>1, <2>2, <2>3 DEF Rings
<1>6. ASSUME NEW p \in Parties, CallerEnds(p) \/ MemberAnswers(p) \/ MemberFails(p) \/ MemberBound(p) \/ MemberHangs(p)
                                \/ MemberEnds(p)
      PROVE  Kept
  <2>1. UNCHANGED <<resv, unannounced>> /\ p \in Dialogs
    BY <1>6 DEF CallerEnds, MemberAnswers, MemberFails, MemberBound, MemberHangs, MemberEnds, Dialogs
  <2>2. pc'[q] = pc[q]
    BY <1>0, <1>6, <2>1 DEF CallerEnds, MemberAnswers, MemberFails, MemberBound, MemberHangs, MemberEnds, Dismissed, PartiesTyped
  <2>3. ASSUME NEW c \in Callers, pc[c] = "binding" PROVE pc'[c] = "binding"
    BY <1>0, <1>6, <2>3 DEF CallerEnds, MemberAnswers, MemberFails, MemberBound, MemberHangs, MemberEnds, Dismissed, PartiesTyped
  <2>4. QED
    BY <2>1, <2>2, <2>3
<1>7. ASSUME NEW p \in Parties, PhoneAnswers(p) \/ PhoneDeclines(p) \/ PhoneStarts(p) \/ PhoneHangs(p) PROVE Kept
  <2>1. /\ UNCHANGED <<resv, unannounced>> /\ p \in Phones
        /\ pc' = [pc EXCEPT ![p] = pc'[p]] /\ pc'[p] \in {"in", "over", "leaving"}
    BY <1>0, <1>7 DEF PhoneAnswers, PhoneDeclines, PhoneStarts, CanStart, PhoneHangs, PhoneEntered, PartiesTyped
  <2>2. QED
    BY <1>0, <2>1 DEF PartiesTyped
<1>8. ASSUME NEW p \in Parties, Gone(p) PROVE Kept
  BY <1>0, <1>8 DEF Gone, PartiesTyped
<1>9. ASSUME NEW r \in RoomIds, CloseEnds(r) PROVE Kept
  <2>1. announced[r] \subseteq Phones /\ UNCHANGED <<resv, unannounced>>
    BY <1>0, <1>9 DEF CloseEnds, RoomsTyped
  <2>2. QED
    BY <1>0, <1>9, <2>1 DEF CloseEnds, PhonesFreed, PartiesTyped
<1>10. ASSUME UNCHANGED <<pc, resv, unannounced>> PROVE Kept
  BY <1>10
<1>11. ASSUME NEW p \in Parties, LegDisposed(p) \/ LeaveClosed(p) PROVE Kept
  BY <1>10, <1>11 DEF LegDisposed, LeaveClosed
<1>12. ASSUME NEW r \in RoomIds, CloseRuns(r) \/ CloseDisposed(r) \/ MixTimeout(r) \/ MixGoesOn(r) \/ MixEnds(r) \/ MixClosed(r)
       PROVE  Kept
  BY <1>10, <1>12 DEF CloseRuns, CloseDisposed, MixTimeout, MixGoesOn, MixEnds, MixClosed
<1>13. CASE Shutdown \/ UNCHANGED vars
  <2>1. Kept
    BY <1>10, <1>13 DEF Shutdown, vars
  <2>2. QED
    BY <1>1, <2>1
<1>14. QED
  BY <1>1, <1>2, <1>3, <1>4, <1>5, <1>6, <1>7, <1>8, <1>9, <1>11, <1>12, <1>13
     DEF ConferenceNext, Party, RoomStep

-----------------------------------------------------------------------------
(* The theorems *)

\* Every step keeps the inductive invariant.
LEMMA ConferenceStep == ConferenceInv /\ [ConferenceNext]_vars => ConferenceInv'
<1> SUFFICES ASSUME ConferenceInv, [ConferenceNext]_vars PROVE ConferenceInv'
  OBVIOUS
<1>1. ConferenceTypeOK'
  BY RoomsAreKept, RoomsStayTyped, RoomsStayMade, PartiesStayTyped DEF ConferenceTypeOK, RoomsAreMade, Made
<1>2. RoomsAreMade' /\ ClosedRooms' /\ MixedRooms' /\ RoomsAreFull'
  BY RoomsStayMade, RoomsStayInOrder, RoomsStayFull
<1>3. PartiesArePlaced' /\ DialogsEnd'
  BY StayPlaced, DialogsStayEnded
<1>4. PortsAreUsed' /\ PhoneHasRoom' /\ ReservationIsHeld'
  BY PortsStayUsed, PhonesKeepRooms, ReservationsStayHeld
<1>5. QED
  BY <1>1, <1>2, <1>3, <1>4 DEF ConferenceInv

\* However the joins, the leaves, the mixers and the closes of any rooms interleave,
\* the state of the rooms and of the parties stays coherent.
THEOREM ConferenceInvariant == ConferenceSpec => []ConferenceInv
<1>1. QED
  BY InitConference, ConferenceStep, PTL DEF ConferenceSpec

\* LegsAreServed (conference.py, the second look after the socket is bound): a room never
\* has more legs than it may have, and one with legs is open and mixed, or about to be closed.
THEOREM LegsStayServed == ConferenceSpec => []LegsAreServed
<1>1. ConferenceInv => LegsAreServed
  <2> SUFFICES ASSUME ConferenceInv, NEW r \in RoomIds
               PROVE  /\ Cardinality(legs[r]) <= MaxLegs
                      /\ legs[r] # {} => ~isClosed[r] /\ (mixer[r] \in {"run", "leaving"} \/ closing[r] = "queued")
    BY DEF LegsAreServed
  <2>1. Cardinality(legs[r]) <= MaxLegs
    BY DEF ConferenceInv, RoomsAreFull
  <2>2. legs[r] # {} => ~isClosed[r] /\ (mixer[r] \in {"run", "leaving"} \/ closing[r] = "queued")
    BY DEF ConferenceInv, ConferenceTypeOK, RoomsTyped, ClosedRooms, MixedRooms
  <2>3. QED
    BY <2>1, <2>2
<1>2. QED
  BY <1>1, ConferenceInvariant, PTL

\* NobodyForgotten: the ports of a caller or a member are those of a leg, of a join or of
\* a cleanup that is still to come, a phone that rings or is in has a room that will tell
\* it of its end, and a reserved phone has a join that is still to announce or to release
\* it, unless that join has found a leg in its room (conference.py, 188).
THEOREM NobodyIsForgotten == ConferenceSpec => []NobodyForgotten
<1>1. ConferenceInv => NobodyForgotten
  BY DEF ConferenceInv, NobodyForgotten
<1>2. QED
  BY <1>1, ConferenceInvariant, PTL

=============================================================================
