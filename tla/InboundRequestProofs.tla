----------------------- MODULE InboundRequestProofs -----------------------
(***************************************************************************)
(* Proofs about the two requests that reach Home Assistant from outside.   *)
(*                                                                         *)
(* INVITE, module InboundCall: for any number of answering cards, of RTP   *)
(* reservations and of session generations, and for every set of routes    *)
(* and of transport outcomes.                                              *)
(*                                                                         *)
(* REGISTER, module Registration: for any number of clients, of contacts,  *)
(* of passwords, of nonces, of faults, edits and refreshes, and of         *)
(* listeners that run at once.                                             *)
(*                                                                         *)
(* The two modules share no variable.                                      *)
(***************************************************************************)
EXTENDS InboundCall, Registration, FiniteSetTheorems, TLAPS

-----------------------------------------------------------------------------
(* An inbound call: the generation upsert chooses *)

\* A set of generations has a smallest one: of the intervals 1 .. g the
\* smallest for inclusion ends in it.
LEMMA SmallestGeneration ==
    ASSUME NEW S, S \subseteq Generations, S # {}
    PROVE  \E g \in S : \A h \in S : g <= h
<1> DEFINE Intervals == {1 .. g : g \in S}
<1>1. S \subseteq Nat \ {0}
  BY InboundConstants DEF Generations
<1>2. \A g \in S : 1 .. g \subseteq Nat /\ IsFiniteSet(1 .. g)
  BY <1>1, FS_Interval
<1>3. Intervals \subseteq FiniteSubsetsOf(Nat) /\ Intervals # {}
  BY <1>2 DEF FiniteSubsetsOf
<1>4. PICK I \in Intervals : \A J \in Intervals : <<J, I>> \notin StrictSubsetOrdering(Nat)
  <2> HIDE DEF Intervals
  <2>1. IsWellFoundedOn(StrictSubsetOrdering(Nat), FiniteSubsetsOf(Nat))
    BY FS_StrictSubsetOrderingWellFounded
  <2>2. QED
    BY <1>3, <2>1, WFMin
<1>5. PICK g \in S : I = 1 .. g
  OBVIOUS
<1>6. ASSUME NEW h \in S, h < g PROVE FALSE
  <2>1. 1 .. h \subseteq 1 .. g /\ 1 .. h # 1 .. g
    <3>1. g \in 1 .. g /\ g \notin 1 .. h
      BY <1>1, <1>6
    <3>2. 1 .. h \subseteq 1 .. g
      BY <1>1, <1>6
    <3>3. QED
      BY <3>1, <3>2
  <2>2. <<1 .. h, 1 .. g>> \in StrictSubsetOrdering(Nat)
    BY <1>2, <2>1 DEF StrictSubsetOrdering
  <2>3. QED
    BY <1>4, <1>5, <2>2
<1>7. QED
  BY <1>1, <1>6

\* Unless every session has come and gone, upsert finds a generation that is
\* live or has not been used.
LEMMA UpsertFinds ==
    ASSUME InboundTypeOK, \E g \in Generations : phase[g] \in {"live", "none"}
    PROVE  /\ UpsertGeneration \in Generations
           /\ phase[UpsertGeneration] \in {"live", "none"}
<1> DEFINE Fresh == {g \in Generations : phase[g] = "none"}
<1>1. CASE LiveGenerations # {}
  BY <1>1 DEF UpsertGeneration, LiveGenerations
<1>2. CASE LiveGenerations = {}
  <2>1. \E g \in Fresh : \A h \in Fresh : g <= h
    <3>1. Fresh # {} /\ Fresh \subseteq Generations
      BY <1>2 DEF LiveGenerations
    <3>2. QED
      BY <3>1, SmallestGeneration
  <2>2. \E g \in Generations :
           /\ phase[g] = "none"
           /\ \A h \in Generations : phase[h] = "none" => g <= h
    BY <2>1
  <2>3. QED
    BY <1>2, <2>2 DEF UpsertGeneration
<1>3. QED
  BY <1>1, <1>2
-----------------------------------------------------------------------------
(* The inductive invariant *)

\* Until the inbound policy has decided, nothing of the call exists.
NothingBeforePolicy ==
    policy # "done" => router = "none" /\ \A g \in Generations : phase[g] = "none"

\* There is no inbound policy without an INVITE.
InviteFirst == tx = "idle" => policy = "none"

\* A card answers a session.
SeenIsSession == \A t \in Tablets : tablet[t] # "idle" => seen[t] # 0

\* An INVITE that still waits has had no final response.
WaitingHasNoFinal == (tx = "idle" \/ TxPending) => finals = 0

InboundInv ==
    /\ InboundTypeOK
    /\ NothingBeforePolicy
    /\ InviteFirst
    /\ SeenIsSession
    /\ WaitingHasNoFinal
    /\ OneFinalResponse
    /\ PortsAccounted

\* A listener without a call satisfies the invariant.
LEMMA InitInbound == InboundInit => InboundInv
<1> SUFFICES ASSUME InboundInit PROVE InboundInv
  OBVIOUS
<1> USE InboundConstants DEF InboundInit
<1>1. InboundTypeOK
  BY DEF InboundTypeOK
<1>2. NothingBeforePolicy /\ InviteFirst /\ SeenIsSession
  BY DEF NothingBeforePolicy, InviteFirst, SeenIsSession
<1>3. WaitingHasNoFinal /\ OneFinalResponse
  BY DEF WaitingHasNoFinal, OneFinalResponse
<1>4. PortsAccounted
  BY DEF PortsAccounted
<1>5. QED
  BY <1>1, <1>2, <1>3, <1>4 DEF InboundInv

-----------------------------------------------------------------------------
(* Type correctness *)

\* The type invariant by the parts that helpers change together.
ListenerType ==
    /\ tx \in {"idle", "routing", "pending", "rejected", "dialog", "ended"}
    /\ stored \in {"none", "2xx", "non2xx"}
    /\ finals \in Nat
    /\ expiry \in BOOLEAN

CallType ==
    /\ invite \in BOOLEAN /\ tomb \in BOOLEAN
    /\ record \in {0} \cup Generations
    /\ phase \in [Generations -> {"none", "live", "terminating", "terminated"}]

MediaType ==
    /\ where \in [Ports -> Tablets \cup {"free", "preanswered", "softphone", "released"}]
    /\ owner \in [Ports -> {0} \cup Generations]

\* A final response keeps the types of the transaction.
LEMMA SendFinalTyped ==
    ASSUME InboundTypeOK, NEW kind \in {"2xx", "non2xx"}, NEW sent \in BOOLEAN, SendFinal(kind, sent)
    PROVE  ListenerType'
<1>1. finals' = finals \/ finals' = finals + 1
  BY Zenon DEF SendFinal, listener
<1>2. tx' = tx \/ tx' = FinalFrom(kind)
  BY Zenon DEF SendFinal, listener
<1>3. stored' \in {stored, "none", kind}
  BY Zenon DEF SendFinal, listener
<1>4. expiry' \in BOOLEAN
  BY Zenon DEF SendFinal, listener, InboundTypeOK
<1>5. QED
  BY <1>1, <1>2, <1>3, <1>4 DEF InboundTypeOK, ListenerType, FinalFrom

\* A BYE keeps the types of the transaction.
LEMMA SendByeTyped ==
    ASSUME InboundTypeOK, SendBye
    PROVE  ListenerType'
  BY DEF InboundTypeOK, ListenerType, SendBye

\* The end of a session keeps the types of the sessions.
LEMMA EndSessionTyped ==
    ASSUME InboundTypeOK, NEW g
    PROVE  EndSession(g) \in [Generations -> {"none", "live", "terminating", "terminated"}]
  BY DEF InboundTypeOK, EndSession

\* The end of a call keeps the types of the registry.
LEMMA FinishTyped ==
    ASSUME InboundTypeOK, FinishAndPop
    PROVE  CallType'
  BY EndSessionTyped DEF InboundTypeOK, CallType, FinishAndPop

\* Reservations that are returned keep the types of their custody.
LEMMA ReturnedTyped ==
    ASSUME InboundTypeOK, NEW S, Returned(S)
    PROVE  MediaType'
  BY DEF InboundTypeOK, MediaType, Returned

\* The report of an end keeps the types of registry and custody.
LEMMA TerminatedTyped ==
    ASSUME InboundTypeOK, OnTerminated
    PROVE  CallType' /\ MediaType' /\ closed' \in BOOLEAN
<1>1. CASE tomb
  BY <1>1 DEF OnTerminated, InboundTypeOK, CallType, MediaType, registry, media
<1>2. CASE ~tomb
  BY <1>2, FinishTyped, ReturnedTyped DEF OnTerminated
<1>3. QED
  BY <1>1, <1>2

\* The publication of a call keeps the types of the registry.
LEMMA UpsertTyped ==
    ASSUME InboundTypeOK, Upsert, \E g \in Generations : phase[g] \in {"live", "none"}
    PROVE  /\ record' \in {0} \cup Generations
           /\ phase' \in [Generations -> {"none", "live", "terminating", "terminated"}]
           /\ UpsertGeneration \in Generations
  BY UpsertFinds DEF Upsert, InboundTypeOK

\* The policy always finds a generation for its upsert.
LEMMA PolicyFinds ==
    ASSUME InboundInv, policy = "awaiting"
    PROVE  \E g \in Generations : phase[g] \in {"live", "none"}
  BY InboundConstants DEF InboundInv, NothingBeforePolicy, Generations

\* Every step of an inbound call keeps the types.
LEMMA InboundTypeStep == InboundInv /\ [InboundNext]_inboundVars => InboundTypeOK'
<1> SUFFICES ASSUME InboundInv, [InboundNext]_inboundVars
             PROVE  InboundTypeOK'
  OBVIOUS
<1>0. InboundTypeOK
  BY DEF InboundInv
<1> USE <1>0, InboundConstants DEF listener, dispatch, registry, media, answers,
        ListenerType, CallType, MediaType
<1>1. CASE ReceiveInvite
  BY <1>1 DEF ReceiveInvite, InboundTypeOK
<1>2. CASE ReceiveCancel
  <2>1. ListenerType'
    <3>1. finals' = finals \/ finals' = finals + 1
      BY <1>2, Zenon DEF ReceiveCancel
    <3>2. tx' \in {"rejected", "ended"} /\ expiry' \in BOOLEAN /\ stored' = stored
      BY <1>2, Zenon DEF ReceiveCancel
    <3>3. QED
      BY <3>1, <3>2 DEF InboundTypeOK
  <2>2. CallType' /\ MediaType' /\ closed' \in BOOLEAN
    BY <1>2, TerminatedTyped DEF ReceiveCancel
  <2>3. QED
    BY <1>2, <2>1, <2>2 DEF ReceiveCancel, InboundTypeOK
<1>3. CASE ReceiveBye
  BY <1>3, TerminatedTyped DEF ReceiveBye, InboundTypeOK
<1>4. CASE ReceiveRetransmission
  BY <1>4 DEF ReceiveRetransmission, FinalFrom, InboundTypeOK
<1>5. CASE PolicyRings
  <2>1. record' \in {0} \cup Generations
        /\ phase' \in [Generations -> {"none", "live", "terminating", "terminated"}]
    BY <1>5, PolicyFinds, UpsertTyped DEF PolicyRings
  <2>2. ListenerType'
    BY <1>5 DEF PolicyRings, Defer, InboundTypeOK
  <2>3. QED
    BY <1>5, <2>1, <2>2 DEF PolicyRings, InboundTypeOK
<1>6. CASE PolicyPreanswers
  <2>1. /\ record' \in {0} \cup Generations
        /\ phase' \in [Generations -> {"none", "live", "terminating", "terminated"}]
        /\ UpsertGeneration \in Generations
    BY <1>6, PolicyFinds, UpsertTyped DEF PolicyPreanswers
  <2>2. ListenerType'
    <3>1. CASE route = "early" \/ tx # "routing"
      BY <1>6, <3>1 DEF PolicyPreanswers, Defer, InboundTypeOK
    <3>2. CASE ~(route = "early" \/ tx # "routing")
      <4>1. \/ tx' = "dialog" /\ finals' = finals + 1 /\ UNCHANGED <<stored, expiry>>
            \/ stored' = "2xx" /\ UNCHANGED <<tx, finals, expiry>>
        BY <1>6, <3>2, Zenon DEF PolicyPreanswers
      <4>2. QED
        BY <4>1 DEF InboundTypeOK
    <3>3. QED
      BY <3>1, <3>2
  <2>3. QED
    BY <1>6, <2>1, <2>2 DEF PolicyPreanswers, InboundTypeOK
<1>7. CASE ExpireInvite
  <2>1. ListenerType'
    <3>1. finals' = finals \/ finals' = finals + 1
      BY <1>7, Zenon DEF ExpireInvite
    <3>2. tx' \in {"rejected", "ended"} /\ expiry' \in BOOLEAN /\ stored' = stored
      BY <1>7, Zenon DEF ExpireInvite
    <3>3. QED
      BY <3>1, <3>2 DEF InboundTypeOK
  <2>2. CallType' /\ MediaType' /\ closed' \in BOOLEAN
    BY <1>7, TerminatedTyped DEF ExpireInvite
  <2>3. QED
    BY <1>7, <2>1, <2>2 DEF ExpireInvite, InboundTypeOK
<1>8. CASE RouterStops
  <2>1. MediaType'
    BY <1>8, ReturnedTyped DEF RouterStops
  <2>2. ListenerType' /\ CallType'
    BY <1>8 DEF RouterStops, InboundTypeOK
  <2>3. QED
    BY <1>8, <2>1, <2>2 DEF RouterStops, InboundTypeOK
<1>9. CASE RouterRejects
  <2>1. ListenerType'
    BY <1>9, SendFinalTyped, SendByeTyped DEF RouterRejects
  <2>2. QED
    BY <1>9, <2>1, ReturnedTyped, FinishTyped DEF RouterRejects, InboundTypeOK
<1>10. CASE RouterRings
  BY <1>10, UpsertTyped DEF RouterRings, CanUpsert, InboundTypeOK
<1>11. CASE RouterFails
  BY <1>11, ReturnedTyped, FinishTyped, SendByeTyped DEF RouterFails, InboundTypeOK
<1>12. CASE Decline
  <2>1. ListenerType'
    BY <1>12, SendFinalTyped, SendByeTyped DEF Decline
  <2>2. CallType'
    BY <1>12, FinishTyped DEF Decline, InboundTypeOK
  <2>3. QED
    BY <1>12, <2>1, <2>2, ReturnedTyped DEF Decline, InboundTypeOK
<1>13. CASE Hangup
  <2>1. ListenerType'
    BY <1>13, SendFinalTyped, SendByeTyped DEF Hangup
  <2>2. QED
    BY <1>13, <2>1, FinishTyped, ReturnedTyped DEF Hangup, InboundTypeOK
<1>14. ASSUME NEW g \in Generations, SessionCloses(g) PROVE InboundTypeOK'
  BY <1>14, ReturnedTyped DEF SessionCloses, InboundTypeOK
<1>15. ASSUME NEW t \in Tablets, AnswerStart(t) PROVE InboundTypeOK'
  BY <1>15 DEF AnswerStart, LiveGenerations, Early, InboundTypeOK
<1>16. ASSUME NEW t \in Tablets, AnswerCommits(t) PROVE InboundTypeOK'
  <2>1. PICK m \in PortsFor(t) :
           /\ hand' = [hand EXCEPT ![t] = m]
           /\ where' = [where EXCEPT ![m] = "softphone"]
           /\ owner' = [owner EXCEPT ![m] = seen[t]]
    BY <1>16 DEF AnswerCommits
  <2>2. m \in Ports
    BY <2>1 DEF PortsFor, InboundTypeOK
  <2>3. ListenerType'
        /\ phase' \in [Generations -> {"none", "live", "terminating", "terminated"}]
        /\ \E s \in {"done", "terminating"} : tablet' = [tablet EXCEPT ![t] = s]
    BY <1>16, SendFinalTyped, EndSessionTyped DEF AnswerCommits, InboundTypeOK
  <2>4. /\ where' \in [Ports -> Tablets \cup {"free", "preanswered", "softphone", "released"}]
        /\ owner' \in [Ports -> {0} \cup Generations]
        /\ hand' \in [Tablets -> Ports \cup {NoPorts}]
        /\ hand'[t] # NoPorts
    BY <2>1, <2>2 DEF InboundTypeOK
  <2>5. /\ tablet' \in [Tablets -> {"idle", "awaiting", "rollback", "failing", "terminating", "done"}]
        /\ \A u \in Tablets : hand'[u] = NoPorts => tablet'[u] \in {"idle", "awaiting"}
    BY <2>1, <2>3, <2>4 DEF InboundTypeOK
  <2>6. QED
    BY <1>16, <2>3, <2>4, <2>5 DEF AnswerCommits, InboundTypeOK
<1>17. ASSUME NEW t \in Tablets, AnswerLoses(t) PROVE InboundTypeOK'
  <2>1. PICK m \in PortsFor(t) :
           /\ hand' = [hand EXCEPT ![t] = m]
           /\ where' = [where EXCEPT ![m] = IF @ = "free" THEN t ELSE @]
    BY <1>17 DEF AnswerLoses
  <2>2. m \in Ports
    BY <2>1 DEF PortsFor, InboundTypeOK
  <2>3. QED
    BY <1>17, <2>1, <2>2 DEF AnswerLoses, InboundTypeOK
<1>18. ASSUME NEW t \in Tablets, Rollback(t) PROVE InboundTypeOK'
  BY <1>18, ReturnedTyped DEF Rollback, InboundTypeOK
<1>19. ASSUME NEW t \in Tablets, AnswerFails(t) PROVE InboundTypeOK'
  BY <1>19, SendByeTyped, FinishTyped DEF AnswerFails, InboundTypeOK
<1>20. CASE UNCHANGED inboundVars
  BY <1>20 DEF inboundVars, InboundTypeOK
<1>21. QED
  BY <1>1, <1>2, <1>3, <1>4, <1>5, <1>6, <1>7, <1>8, <1>9, <1>10, <1>11, <1>12,
     <1>13, <1>14, <1>15, <1>16, <1>17, <1>18, <1>19, <1>20
  DEF InboundNext, Remote, Policy, Router, Answer

-----------------------------------------------------------------------------
(* One final response *)

Waiting == tx = "idle" \/ TxPending

\* What a step may do to the count of final responses: nothing, or conclude an
\* INVITE that waits.  No INVITE is taken back.
FinalsStep ==
    /\ tx' = "idle" => tx = "idle"
    /\ \/ finals' = finals /\ (Waiting' => Waiting)
       \/ finals' = finals + 1 /\ Waiting /\ ~Waiting'

\* A final response is counted once, and only while the INVITE is pending.
LEMMA SendFinalCounts ==
    ASSUME InboundTypeOK, NEW kind \in {"2xx", "non2xx"}, NEW sent, SendFinal(kind, sent)
    PROVE  FinalsStep
<1>1. CASE ~TxPending
  <2>1. tx' = tx /\ finals' = finals
    BY <1>1, Zenon DEF SendFinal, listener
  <2>2. QED
    BY <2>1 DEF FinalsStep, Waiting, TxPending
<1>2. CASE TxPending
  <2>1. \/ tx' = FinalFrom(kind) /\ finals' = finals + 1
        \/ tx' = tx /\ finals' = finals
    BY <1>2, Zenon DEF SendFinal
  <2>2. FinalFrom(kind) \in {"dialog", "rejected"}
    BY DEF FinalFrom
  <2>3. QED
    BY <1>2, <2>1, <2>2 DEF FinalsStep, Waiting, TxPending
<1>3. QED
  BY <1>1, <1>2

\* A BYE is no final response.
LEMMA SendByeCounts == ASSUME SendBye PROVE FinalsStep
<1>1. finals' = finals /\ (tx' = tx \/ tx' = "ended")
  BY Zenon DEF SendBye
<1>2. QED
  BY <1>1 DEF FinalsStep, Waiting, TxPending

\* Every step counts the final responses as they are sent.
LEMMA NextCounts == InboundTypeOK /\ [InboundNext]_inboundVars => FinalsStep
<1> SUFFICES ASSUME InboundTypeOK, [InboundNext]_inboundVars
             PROVE  FinalsStep
  OBVIOUS
<1>0. ASSUME UNCHANGED <<tx, finals>> PROVE FinalsStep
  BY <1>0 DEF FinalsStep, Waiting, TxPending
<1>1. CASE ReceiveInvite
  BY <1>1 DEF ReceiveInvite, FinalsStep, Waiting, TxPending
<1>2. CASE ReceiveCancel
  <2>1. TxPending /\ tx' = "rejected" /\ (finals' = finals \/ finals' = finals + 1)
    BY <1>2, Zenon DEF ReceiveCancel
  <2>2. QED
    BY <2>1 DEF FinalsStep, Waiting, TxPending
<1>3. CASE ReceiveBye
  BY <1>3 DEF ReceiveBye, FinalsStep, Waiting, TxPending
<1>4. CASE ReceiveRetransmission
  BY <1>4 DEF ReceiveRetransmission, FinalFrom, FinalsStep, Waiting, TxPending
<1>5. CASE PolicyRings
  BY <1>5 DEF PolicyRings, Defer, listener, FinalsStep, Waiting, TxPending
<1>6. CASE PolicyPreanswers
  <2>1. CASE route = "early" \/ tx # "routing"
    BY <1>6, <2>1 DEF PolicyPreanswers, Defer, listener, FinalsStep, Waiting, TxPending
  <2>2. CASE ~(route = "early" \/ tx # "routing")
    <3>1. \/ tx' = "dialog" /\ finals' = finals + 1
          \/ UNCHANGED <<tx, finals>>
      BY <1>6, <2>2, Zenon DEF PolicyPreanswers
    <3>2. QED
      BY <2>2, <3>1 DEF FinalsStep, Waiting, TxPending
  <2>3. QED
    BY <2>1, <2>2
<1>7. CASE ExpireInvite
  <2>1. TxPending /\ tx' \in {"rejected", "ended"} /\ (finals' = finals \/ finals' = finals + 1)
    <3>1. tx = "pending" /\ tx' \in {"rejected", "ended"} /\ (finals' = finals \/ finals' = finals + 1)
      BY <1>7, Zenon DEF ExpireInvite
    <3>2. QED
      BY <3>1 DEF TxPending
  <2>2. QED
    BY <2>1 DEF FinalsStep, Waiting, TxPending
<1>8. CASE RouterStops
  BY <1>0, <1>8 DEF RouterStops, listener
<1>9. CASE RouterRejects
  BY <1>9, SendFinalCounts, SendByeCounts DEF RouterRejects
<1>10. CASE RouterRings
  BY <1>0, <1>10 DEF RouterRings, listener
<1>11. CASE RouterFails
  BY <1>11, SendByeCounts DEF RouterFails
<1>12. CASE Decline
  BY <1>12, SendFinalCounts, SendByeCounts DEF Decline
<1>13. CASE Hangup
  BY <1>13, SendFinalCounts, SendByeCounts DEF Hangup
<1>14. ASSUME NEW g \in Generations, SessionCloses(g) PROVE FinalsStep
  BY <1>0, <1>14 DEF SessionCloses, listener
<1>15. ASSUME NEW t \in Tablets, AnswerStart(t) PROVE FinalsStep
  BY <1>0, <1>15 DEF AnswerStart, listener
<1>16. ASSUME NEW t \in Tablets, AnswerCommits(t) PROVE FinalsStep
  BY <1>0, <1>16, SendFinalCounts DEF AnswerCommits, listener
<1>17. ASSUME NEW t \in Tablets, AnswerLoses(t) PROVE FinalsStep
  BY <1>0, <1>17 DEF AnswerLoses, listener
<1>18. ASSUME NEW t \in Tablets, Rollback(t) PROVE FinalsStep
  BY <1>0, <1>18 DEF Rollback, listener
<1>19. ASSUME NEW t \in Tablets, AnswerFails(t) PROVE FinalsStep
  BY <1>0, <1>19, SendByeCounts DEF AnswerFails, listener
<1>20. CASE UNCHANGED inboundVars
  BY <1>0, <1>20 DEF inboundVars, listener
<1>21. QED
  BY <1>1, <1>2, <1>3, <1>4, <1>5, <1>6, <1>7, <1>8, <1>9, <1>10, <1>11, <1>12,
     <1>13, <1>14, <1>15, <1>16, <1>17, <1>18, <1>19, <1>20
  DEF InboundNext, Remote, Policy, Router, Answer

\* A step that counts so keeps the number of final responses in line with the transaction.
LEMMA FinalsInv ==
    InboundInv /\ [InboundNext]_inboundVars => WaitingHasNoFinal' /\ OneFinalResponse'
<1> SUFFICES ASSUME InboundInv, FinalsStep PROVE WaitingHasNoFinal' /\ OneFinalResponse'
  BY NextCounts DEF InboundInv
<1>1. finals \in {0, 1} /\ (Waiting => finals = 0)
  BY DEF InboundInv, InboundTypeOK, WaitingHasNoFinal, OneFinalResponse, Waiting
<1>2. QED
  BY <1>1 DEF FinalsStep, WaitingHasNoFinal, OneFinalResponse, Waiting

-----------------------------------------------------------------------------
(* Sessions: used before the policy decides by nobody, and never left live *)
(* or terminating by a step other than the end of their barrier            *)

\* No session starts, and none that is live or terminating ends.
PhasesKept ==
    \A g \in Generations :
        /\ phase[g] \in {"live", "terminating"} => phase'[g] \in {"live", "terminating"}
        /\ phase[g] = "none" => phase'[g] = "none"

\* The end of a session takes none back.
LEMMA EndSessionKeeps ==
    ASSUME InboundTypeOK, NEW h, phase' = EndSession(h)
    PROVE  PhasesKept
  BY DEF InboundTypeOK, EndSession, PhasesKept

\* The end of a call takes no session back.
LEMMA FinishKeeps ==
    ASSUME InboundTypeOK, FinishAndPop PROVE PhasesKept
  BY EndSessionKeeps DEF FinishAndPop

\* The report of an end takes no session back.
LEMMA TerminatedKeeps ==
    ASSUME InboundTypeOK, OnTerminated PROVE PhasesKept
<1>1. CASE tomb
  BY <1>1 DEF OnTerminated, PhasesKept
<1>2. CASE ~tomb
  BY <1>2, FinishKeeps DEF OnTerminated
<1>3. QED
  BY <1>1, <1>2

\* Before the inbound policy has run there is nothing of the call.
LEMMA NothingStep ==
    InboundInv /\ [InboundNext]_inboundVars => NothingBeforePolicy'
<1> SUFFICES ASSUME InboundInv, [InboundNext]_inboundVars
             PROVE  NothingBeforePolicy'
  OBVIOUS
<1>0. InboundTypeOK /\ NothingBeforePolicy /\ InviteFirst
  BY DEF InboundInv
<1>a. ASSUME UNCHANGED <<policy, router>>, PhasesKept PROVE NothingBeforePolicy'
  BY <1>0, <1>a DEF NothingBeforePolicy, PhasesKept
<1>b. ASSUME UNCHANGED <<policy, router, phase>> PROVE NothingBeforePolicy'
  BY <1>0, <1>b DEF NothingBeforePolicy
<1>c. ASSUME router = "collecting", UNCHANGED policy PROVE NothingBeforePolicy'
  BY <1>0, <1>c DEF NothingBeforePolicy
<1>1. CASE ReceiveInvite
  BY <1>0, <1>1 DEF ReceiveInvite, NothingBeforePolicy, InviteFirst
<1>2. CASE ReceiveCancel
  BY <1>0, <1>2, <1>a, TerminatedKeeps DEF ReceiveCancel, dispatch
<1>3. CASE ReceiveBye
  BY <1>0, <1>3, <1>a, TerminatedKeeps DEF ReceiveBye, dispatch
<1>4. CASE ReceiveRetransmission
  BY <1>4, <1>b DEF ReceiveRetransmission, dispatch
<1>5. CASE PolicyRings
  BY <1>5 DEF PolicyRings, NothingBeforePolicy
<1>6. CASE PolicyPreanswers
  BY <1>6 DEF PolicyPreanswers, NothingBeforePolicy
<1>7. CASE ExpireInvite
  BY <1>0, <1>7, <1>a, TerminatedKeeps DEF ExpireInvite, dispatch
<1>8. CASE RouterStops
  BY <1>8, <1>c DEF RouterStops
<1>9. CASE RouterRejects
  BY <1>9, <1>c DEF RouterRejects
<1>10. CASE RouterRings
  BY <1>10, <1>c DEF RouterRings
<1>11. CASE RouterFails
  BY <1>11, <1>c DEF RouterFails
<1>12. CASE Decline
  <2>1. PhasesKept
    <3>1. CASE UNCHANGED phase
      BY <3>1 DEF PhasesKept
    <3>2. QED
      BY <1>0, <1>12, <3>1, FinishKeeps DEF Decline
  <2>2. QED
    BY <1>12, <1>a, <2>1 DEF Decline, dispatch
<1>13. CASE Hangup
  BY <1>0, <1>13, <1>a, FinishKeeps DEF Hangup, dispatch
<1>14. ASSUME NEW g \in Generations, SessionCloses(g) PROVE NothingBeforePolicy'
  BY <1>0, <1>14 DEF SessionCloses, NothingBeforePolicy, dispatch
<1>15. ASSUME NEW t \in Tablets, AnswerStart(t) PROVE NothingBeforePolicy'
  BY <1>15, <1>b DEF AnswerStart, dispatch
<1>16. ASSUME NEW t \in Tablets, AnswerCommits(t) PROVE NothingBeforePolicy'
  <2>1. PhasesKept
    <3>1. CASE UNCHANGED phase
      BY <3>1 DEF PhasesKept
    <3>2. QED
      BY <1>0, <1>16, <3>1, EndSessionKeeps DEF AnswerCommits
  <2>2. QED
    BY <1>16, <1>a, <2>1 DEF AnswerCommits, dispatch
<1>17. ASSUME NEW t \in Tablets, AnswerLoses(t) PROVE NothingBeforePolicy'
  BY <1>17, <1>b DEF AnswerLoses, dispatch
<1>18. ASSUME NEW t \in Tablets, Rollback(t) PROVE NothingBeforePolicy'
  BY <1>18, <1>b DEF Rollback, dispatch
<1>19. ASSUME NEW t \in Tablets, AnswerFails(t) PROVE NothingBeforePolicy'
  BY <1>0, <1>19, <1>a, FinishKeeps DEF AnswerFails, dispatch
<1>20. CASE UNCHANGED inboundVars
  BY <1>20, <1>b DEF inboundVars, dispatch
<1>21. QED
  BY <1>1, <1>2, <1>3, <1>4, <1>5, <1>6, <1>7, <1>8, <1>9, <1>10, <1>11, <1>12,
     <1>13, <1>14, <1>15, <1>16, <1>17, <1>18, <1>19, <1>20
  DEF InboundNext, Remote, Policy, Router, Answer

\* Every step keeps that the INVITE comes before all else.
LEMMA InviteFirstStep ==
    InboundInv /\ [InboundNext]_inboundVars => InviteFirst'
<1> SUFFICES ASSUME InboundInv, [InboundNext]_inboundVars, tx' = "idle"
             PROVE  policy' = "none"
  BY DEF InviteFirst
<1>1. tx = "idle" /\ policy = "none"
  BY NextCounts DEF InboundInv, FinalsStep, InviteFirst
<1>2. ~ReceiveInvite /\ ~Policy
  BY <1>1 DEF ReceiveInvite, Policy, PolicyRings, PolicyPreanswers
<1>3. UNCHANGED policy
  BY <1>2, Zenon
  DEF InboundNext, Remote, Router, Answer, ReceiveCancel, ReceiveBye, ReceiveRetransmission,
      ExpireInvite, RouterStops, RouterRejects, RouterRings, RouterFails, Decline, Hangup,
      SessionCloses, AnswerStart, AnswerCommits, AnswerLoses, Rollback, AnswerFails,
      inboundVars, dispatch
<1>4. QED
  BY <1>1, <1>3

\* A card that is at work has seen a session of the call.
LEMMA SeenStep == InboundInv /\ [InboundNext]_inboundVars => SeenIsSession'
<1> SUFFICES ASSUME InboundInv, [InboundNext]_inboundVars
             PROVE  SeenIsSession'
  OBVIOUS
<1>0. InboundTypeOK /\ SeenIsSession
  BY DEF InboundInv
<1>1. ASSUME NEW t \in Tablets, AnswerStart(t) PROVE SeenIsSession'
  BY <1>0, <1>1 DEF AnswerStart, LiveGenerations, Generations, InboundTypeOK, SeenIsSession
<1>2. ASSUME UNCHANGED seen, \A t \in Tablets : tablet[t] = "idle" => tablet'[t] = "idle"
      PROVE  SeenIsSession'
  BY <1>0, <1>2 DEF SeenIsSession
<1>3. ASSUME NEW t \in Tablets, Answer(t) PROVE SeenIsSession'
  <2>1. tablet[t] # "idle" /\ UNCHANGED seen
    BY <1>3 DEF Answer, AnswerCommits, AnswerLoses, Rollback, AnswerFails
  <2>2. \E s : tablet' = [tablet EXCEPT ![t] = s]
    BY <1>3 DEF Answer, AnswerCommits, AnswerLoses, Rollback, AnswerFails
  <2>3. QED
    BY <1>0, <1>2, <2>1, <2>2 DEF InboundTypeOK
<1>4. ASSUME UNCHANGED answers PROVE SeenIsSession'
  BY <1>2, <1>4 DEF answers
<1>5. ASSUME Remote \/ Policy \/ ExpireInvite \/ Router \/ Decline \/ Hangup PROVE SeenIsSession'
  <2>1. UNCHANGED answers
    BY <1>5, Zenon
    DEF Remote, Policy, Router, ReceiveInvite, ReceiveCancel, ReceiveBye, ReceiveRetransmission,
        PolicyRings, PolicyPreanswers, ExpireInvite, RouterStops, RouterRejects, RouterRings,
        RouterFails, Decline, Hangup, answers
  <2>2. QED
    BY <1>4, <2>1
<1>6. ASSUME NEW g \in Generations, SessionCloses(g) PROVE SeenIsSession'
  BY <1>4, <1>6 DEF SessionCloses, answers
<1>7. CASE UNCHANGED inboundVars
  BY <1>4, <1>7 DEF inboundVars
<1>8. QED
  BY <1>1, <1>3, <1>5, <1>6, <1>7 DEF InboundNext

-----------------------------------------------------------------------------
(* Custody of the RTP reservations *)

\* No session in use is lost.
SessionsStay ==
    \A g \in Generations :
        phase[g] \in {"live", "terminating"} => phase'[g] \in {"live", "terminating"}

\* The publication of a call keeps the sessions there are.
LEMMA UpsertStays == ASSUME InboundTypeOK, Upsert PROVE SessionsStay
  BY DEF InboundTypeOK, Upsert, SessionsStay

\* Who changes no phase keeps the sessions there are.
LEMMA KeptStays == ASSUME PhasesKept PROVE SessionsStay
  BY DEF PhasesKept, SessionsStay

\* A step that loses no session, touches no card and at most gives reservations
\* back keeps the custody.
LEMMA CustodyKept ==
    ASSUME InboundTypeOK, PortsAccounted, SessionsStay,
           \A m \in Ports : where'[m] \in {where[m], "released"} /\ owner'[m] = owner[m],
           UNCHANGED <<tablet, hand>>
    PROVE  PortsAccounted'
<1>1. ASSUME NEW m \in Ports, where'[m] \in Tablets
      PROVE  /\ hand'[where'[m]] = m
             /\ tablet'[where'[m]] \in {"awaiting", "rollback"}
  BY <1>1, InboundConstants DEF PortsAccounted
<1>2. ASSUME NEW m \in Ports, where'[m] \in {"preanswered", "softphone"}
      PROVE  owner'[m] # 0 /\ phase'[owner'[m]] \in {"live", "terminating"}
  <2>1. owner[m] \in Generations /\ phase[owner[m]] \in {"live", "terminating"}
    BY <1>2 DEF PortsAccounted, InboundTypeOK
  <2>2. QED
    BY <2>1 DEF SessionsStay, Generations
<1>3. QED
  BY <1>1, <1>2 DEF PortsAccounted

\* Reservations that are returned leave the custody of the rest alone.
LEMMA ReturnedCustody ==
    ASSUME InboundTypeOK, NEW S, Returned(S)
    PROVE  \A m \in Ports : where'[m] \in {where[m], "released"} /\ owner'[m] = owner[m]
  BY DEF Returned, InboundTypeOK

\* The report of an end hands the reservations to nobody new.
LEMMA TerminatedCustody ==
    ASSUME InboundTypeOK, OnTerminated
    PROVE  \A m \in Ports : where'[m] \in {where[m], "released"} /\ owner'[m] = owner[m]
<1>1. CASE tomb
  BY <1>1 DEF OnTerminated, media
<1>2. CASE ~tomb
  BY <1>2, ReturnedCustody DEF OnTerminated
<1>3. QED
  BY <1>1, <1>2

\* Every step keeps each reservation in somebody's hands.
LEMMA CustodyStep ==
    InboundInv /\ [InboundNext]_inboundVars => PortsAccounted'
<1> SUFFICES ASSUME InboundInv, [InboundNext]_inboundVars
             PROVE  PortsAccounted'
  OBVIOUS
<1>0. InboundTypeOK /\ PortsAccounted
  BY DEF InboundInv
<1>a. ASSUME UNCHANGED <<phase, where, owner, tablet, hand>> PROVE PortsAccounted'
  BY <1>0, <1>a DEF PortsAccounted
<1>b. ASSUME SessionsStay, UNCHANGED <<where, owner, tablet, hand>> PROVE PortsAccounted'
  BY <1>0, <1>b, CustodyKept
<1>1. CASE ReceiveInvite
  BY <1>1, <1>a DEF ReceiveInvite, media, answers
<1>2. CASE ReceiveCancel
  BY <1>0, <1>2, TerminatedKeeps, KeptStays, TerminatedCustody, CustodyKept DEF ReceiveCancel, answers
<1>3. CASE ReceiveBye
  BY <1>0, <1>3, TerminatedKeeps, KeptStays, TerminatedCustody, CustodyKept DEF ReceiveBye, answers
<1>4. CASE ReceiveRetransmission
  BY <1>4, <1>a DEF ReceiveRetransmission, media, answers
<1>5. CASE PolicyRings
  BY <1>0, <1>5, <1>b, UpsertStays DEF PolicyRings, media, answers
<1>6. CASE PolicyPreanswers
  <2>1. SessionsStay /\ UNCHANGED <<tablet, hand>>
    BY <1>0, <1>6, UpsertStays DEF PolicyPreanswers, answers
  <2>2. UpsertGeneration \in Generations /\ phase'[UpsertGeneration] = "live"
    BY <1>0, <1>6, PolicyFinds, UpsertTyped DEF PolicyPreanswers, Upsert, InboundTypeOK
  <2>3. /\ where' = [where EXCEPT ![BridgePorts] = "preanswered"]
        /\ owner' = [owner EXCEPT ![BridgePorts] = UpsertGeneration]
    BY <1>6 DEF PolicyPreanswers
  <2>4. ASSUME NEW m \in Ports, m # BridgePorts
        PROVE  where'[m] = where[m] /\ owner'[m] = owner[m]
    BY <1>0, <2>3, <2>4 DEF InboundTypeOK
  <2>5. ASSUME NEW m \in Ports, where'[m] \in Tablets
        PROVE  hand'[where'[m]] = m /\ tablet'[where'[m]] \in {"awaiting", "rollback"}
    BY <1>0, <2>1, <2>3, <2>4, <2>5, InboundConstants DEF PortsAccounted, InboundTypeOK
  <2>6. ASSUME NEW m \in Ports, where'[m] \in {"preanswered", "softphone"}
        PROVE  owner'[m] # 0 /\ phase'[owner'[m]] \in {"live", "terminating"}
    <3>1. CASE m = BridgePorts
      BY <1>0, <2>2, <2>3, <3>1, InboundConstants DEF InboundTypeOK, Generations
    <3>2. CASE m # BridgePorts
      BY <1>0, <2>1, <2>4, <2>6, <3>2 DEF PortsAccounted, SessionsStay, InboundTypeOK
    <3>3. QED
      BY <3>1, <3>2
  <2>7. QED
    BY <2>5, <2>6 DEF PortsAccounted
<1>7. CASE ExpireInvite
  BY <1>0, <1>7, TerminatedKeeps, KeptStays, TerminatedCustody, CustodyKept DEF ExpireInvite, answers
<1>8. CASE RouterStops
  <2>1. SessionsStay
    BY <1>8 DEF RouterStops, SessionsStay
  <2>2. QED
    BY <1>0, <1>8, <2>1, ReturnedCustody, CustodyKept DEF RouterStops, answers
<1>9. CASE RouterRejects
  BY <1>0, <1>9, FinishKeeps, KeptStays, ReturnedCustody, CustodyKept DEF RouterRejects, answers
<1>10. CASE RouterRings
  BY <1>0, <1>10, <1>b, UpsertStays DEF RouterRings, media, answers
<1>11. CASE RouterFails
  BY <1>0, <1>11, FinishKeeps, KeptStays, ReturnedCustody, CustodyKept DEF RouterFails, answers
<1>12. CASE Decline
  <2>1. SessionsStay
    <3>1. CASE UNCHANGED phase
      BY <3>1 DEF SessionsStay
    <3>2. QED
      BY <1>0, <1>12, <3>1, FinishKeeps, KeptStays DEF Decline
  <2>2. QED
    BY <1>0, <1>12, <2>1, ReturnedCustody, CustodyKept DEF Decline, answers
<1>13. CASE Hangup
  BY <1>0, <1>13, FinishKeeps, KeptStays, ReturnedCustody, CustodyKept DEF Hangup, answers
<1>14. ASSUME NEW g \in Generations, SessionCloses(g) PROVE PortsAccounted'
  <2>1. UNCHANGED <<owner, tablet, hand>>
    BY <1>14 DEF SessionCloses, Returned, answers
  <2>2. \A h \in Generations \ {g} : phase'[h] = phase[h]
    BY <1>0, <1>14 DEF SessionCloses, InboundTypeOK
  <2>3. \A m \in Ports :
           /\ where'[m] \in {where[m], "released"}
           /\ where'[m] \in {"preanswered", "softphone"} => owner[m] # g
    BY <1>14 DEF SessionCloses, Returned, Early, Active
  <2>4. ASSUME NEW m \in Ports, where'[m] \in Tablets
        PROVE  hand'[where'[m]] = m /\ tablet'[where'[m]] \in {"awaiting", "rollback"}
    BY <1>0, <2>1, <2>3, <2>4, InboundConstants DEF PortsAccounted
  <2>5. ASSUME NEW m \in Ports, where'[m] \in {"preanswered", "softphone"}
        PROVE  owner'[m] # 0 /\ phase'[owner'[m]] \in {"live", "terminating"}
    BY <1>0, <2>1, <2>2, <2>3, <2>5 DEF PortsAccounted, InboundTypeOK
  <2>6. QED
    BY <2>4, <2>5 DEF PortsAccounted
<1>15. ASSUME NEW t \in Tablets, AnswerStart(t) PROVE PortsAccounted'
  <2>1. tablet[t] = "idle" /\ tablet' = [tablet EXCEPT ![t] = "awaiting"] /\ UNCHANGED phase
    BY <1>15 DEF AnswerStart
  <2>2. \A m \in Ports : where[m] # t
    BY <1>0, <2>1 DEF PortsAccounted
  <2>3. CASE BridgePorts \in Early
    <3>1. /\ hand' = [hand EXCEPT ![t] = BridgePorts]
          /\ where' = [where EXCEPT ![BridgePorts] = t]
          /\ owner' = [owner EXCEPT ![BridgePorts] = 0]
      BY <1>15, <2>3 DEF AnswerStart
    <3>2. QED
      BY <1>0, <2>1, <2>2, <3>1, InboundConstants DEF PortsAccounted, InboundTypeOK
  <2>4. CASE BridgePorts \notin Early
    <3>1. UNCHANGED <<hand, where, owner>>
      BY <1>15, <2>4 DEF AnswerStart, media
    <3>2. QED
      BY <1>0, <2>1, <2>2, <3>1 DEF PortsAccounted, InboundTypeOK
  <2>5. QED
    BY <2>3, <2>4
<1>16. ASSUME NEW t \in Tablets, AnswerCommits(t) PROVE PortsAccounted'
  <2>1. PICK m \in PortsFor(t) :
           /\ hand' = [hand EXCEPT ![t] = m]
           /\ where' = [where EXCEPT ![m] = "softphone"]
           /\ owner' = [owner EXCEPT ![m] = seen[t]]
    BY <1>16 DEF AnswerCommits
  <2>2. m \in Ports /\ (hand[t] # NoPorts => m = hand[t])
    BY <1>0, <2>1 DEF PortsFor, InboundTypeOK
  <2>3. seen[t] \in Generations /\ phase[seen[t]] = "live"
    <3>1. record = seen[t] /\ phase[seen[t]] = "live" /\ tablet[t] = "awaiting"
      BY <1>16 DEF AnswerCommits, MayCommit
    <3>2. seen[t] # 0
      BY <3>1 DEF InboundInv, SeenIsSession
    <3>3. QED
      BY <1>0, <3>1, <3>2 DEF InboundTypeOK
  <2>4. SessionsStay
    <3>1. CASE UNCHANGED phase
      BY <3>1 DEF SessionsStay
    <3>2. QED
      BY <1>0, <1>16, <3>1, EndSessionKeeps, KeptStays DEF AnswerCommits
  <2>5. \A u \in Tablets \ {t} : tablet'[u] = tablet[u] /\ hand'[u] = hand[u]
    BY <1>0, <1>16, <2>1 DEF AnswerCommits, InboundTypeOK
  <2>6. \A n \in Ports \ {m} : where[n] # t
    BY <1>0, <2>2, InboundConstants DEF PortsAccounted
  <2>7. ASSUME NEW n \in Ports, where'[n] \in Tablets
        PROVE  hand'[where'[n]] = n /\ tablet'[where'[n]] \in {"awaiting", "rollback"}
    <3>1. n # m /\ where'[n] = where[n]
      BY <1>0, <2>1, <2>2, <2>7, InboundConstants DEF InboundTypeOK
    <3>2. QED
      BY <1>0, <2>5, <2>6, <2>7, <3>1 DEF PortsAccounted
  <2>8. ASSUME NEW n \in Ports, where'[n] \in {"preanswered", "softphone"}
        PROVE  owner'[n] # 0 /\ phase'[owner'[n]] \in {"live", "terminating"}
    <3>1. CASE n = m
      BY <1>0, <2>1, <2>2, <2>3, <2>4, <3>1 DEF SessionsStay, InboundTypeOK, Generations
    <3>2. CASE n # m
      <4>1. where'[n] = where[n] /\ owner'[n] = owner[n]
        BY <1>0, <2>1, <3>2 DEF InboundTypeOK
      <4>2. QED
        BY <1>0, <2>4, <2>8, <4>1 DEF PortsAccounted, SessionsStay, InboundTypeOK
    <3>3. QED
      BY <3>1, <3>2
  <2>9. QED
    BY <2>7, <2>8 DEF PortsAccounted
<1>17. ASSUME NEW t \in Tablets, AnswerLoses(t) PROVE PortsAccounted'
  <2>1. PICK m \in PortsFor(t) :
           /\ hand' = [hand EXCEPT ![t] = m]
           /\ where' = [where EXCEPT ![m] = IF @ = "free" THEN t ELSE @]
    BY <1>17 DEF AnswerLoses
  <2>2. m \in Ports /\ (hand[t] # NoPorts => m = hand[t])
    BY <1>0, <2>1 DEF PortsFor, InboundTypeOK
  <2>3. tablet' = [tablet EXCEPT ![t] = "rollback"] /\ UNCHANGED <<phase, owner>>
    BY <1>17 DEF AnswerLoses
  <2>4. \A n \in Ports \ {m} : where[n] # t
    BY <1>0, <2>2, InboundConstants DEF PortsAccounted
  <2>5. ASSUME NEW n \in Ports, where'[n] \in Tablets
        PROVE  hand'[where'[n]] = n /\ tablet'[where'[n]] \in {"awaiting", "rollback"}
    <3>1. CASE n = m /\ where[m] \in {"free", t}
      BY <1>0, <2>1, <2>2, <2>3, <3>1, InboundConstants DEF InboundTypeOK
    <3>2. CASE ~(n = m /\ where[m] \in {"free", t})
      <4>1. where'[n] = where[n] /\ where[n] # t
        BY <1>0, <2>1, <2>4, <3>2 DEF InboundTypeOK
      <4>2. QED
        BY <1>0, <2>1, <2>3, <2>5, <4>1 DEF PortsAccounted, InboundTypeOK
    <3>3. QED
      BY <3>1, <3>2
  <2>6. ASSUME NEW n \in Ports, where'[n] \in {"preanswered", "softphone"}
        PROVE  owner'[n] # 0 /\ phase'[owner'[n]] \in {"live", "terminating"}
    <3>1. where'[n] = where[n]
      BY <1>0, <2>1, <2>6, InboundConstants DEF InboundTypeOK
    <3>2. QED
      BY <1>0, <2>3, <2>6, <3>1 DEF PortsAccounted
  <2>7. QED
    BY <2>5, <2>6 DEF PortsAccounted
<1>18. ASSUME NEW t \in Tablets, Rollback(t) PROVE PortsAccounted'
  <2>1. /\ where' = [m \in Ports |-> IF m = hand[t] THEN "released" ELSE where[m]]
        /\ tablet' = [tablet EXCEPT ![t] = "failing"]
        /\ UNCHANGED <<phase, owner, hand>>
    BY <1>18 DEF Rollback, RolledBack, Returned
  <2>2. ASSUME NEW n \in Ports, where'[n] \in Tablets
        PROVE  hand'[where'[n]] = n /\ tablet'[where'[n]] \in {"awaiting", "rollback"}
    <3>1. n # hand[t] /\ where'[n] = where[n]
      BY <2>1, <2>2, InboundConstants
    <3>2. where[n] # t
      BY <1>0, <3>1 DEF PortsAccounted
    <3>3. QED
      BY <1>0, <2>1, <2>2, <3>1, <3>2 DEF PortsAccounted, InboundTypeOK
  <2>3. ASSUME NEW n \in Ports, where'[n] \in {"preanswered", "softphone"}
        PROVE  owner'[n] # 0 /\ phase'[owner'[n]] \in {"live", "terminating"}
    <3>1. where'[n] = where[n]
      BY <2>1, <2>3
    <3>2. QED
      BY <1>0, <2>1, <2>3, <3>1 DEF PortsAccounted
  <2>4. QED
    BY <2>2, <2>3 DEF PortsAccounted
<1>19. ASSUME NEW t \in Tablets, AnswerFails(t) PROVE PortsAccounted'
  <2>1. /\ tablet[t] \in {"failing", "terminating"}
        /\ tablet' = [tablet EXCEPT ![t] = "done"]
        /\ UNCHANGED <<where, owner, hand>>
    BY <1>19 DEF AnswerFails, media
  <2>2. SessionsStay
    BY <1>0, <1>19, FinishKeeps, KeptStays DEF AnswerFails
  <2>3. \A n \in Ports : where[n] # t
    BY <1>0, <2>1 DEF PortsAccounted
  <2>4. ASSUME NEW n \in Ports, where[n] \in Tablets
        PROVE  hand'[where[n]] = n /\ tablet'[where[n]] \in {"awaiting", "rollback"}
    BY <1>0, <2>1, <2>3, <2>4 DEF PortsAccounted, InboundTypeOK
  <2>5. ASSUME NEW n \in Ports, where[n] \in {"preanswered", "softphone"}
        PROVE  owner[n] # 0 /\ phase'[owner[n]] \in {"live", "terminating"}
    BY <1>0, <2>2, <2>5 DEF PortsAccounted, SessionsStay, InboundTypeOK
  <2>6. QED
    BY <2>1, <2>4, <2>5 DEF PortsAccounted
<1>20. CASE UNCHANGED inboundVars
  BY <1>20, <1>a DEF inboundVars, media, answers
<1>21. QED
  BY <1>1, <1>2, <1>3, <1>4, <1>5, <1>6, <1>7, <1>8, <1>9, <1>10, <1>11, <1>12,
     <1>13, <1>14, <1>15, <1>16, <1>17, <1>18, <1>19, <1>20
  DEF InboundNext, Remote, Policy, Router, Answer

-----------------------------------------------------------------------------
(* Theorems about an inbound call *)

\* Every step of an inbound call keeps the invariant.
LEMMA NextInbound == InboundInv /\ [InboundNext]_inboundVars => InboundInv'
  BY InboundTypeStep, NothingStep, InviteFirstStep, SeenStep, FinalsInv, CustodyStep DEF InboundInv

\* The invariant that relates the INVITE transaction, the inbound policy, the
\* sessions and the custody of reservations holds in every behaviour.
THEOREM InboundInvariant == InboundSpec => []InboundInv
  BY InitInbound, NextInbound, PTL DEF InboundSpec

\* The variables of an inbound call keep their types for any number of cards,
\* reservations and generations.
THEOREM InboundTyped == InboundSpec => []InboundTypeOK
<1>1. InboundInv => InboundTypeOK
  BY DEF InboundInv
<1>2. QED
  BY <1>1, InboundInvariant, PTL

\* However many cards answer, decline and hang up, and whatever CANCEL, expiry,
\* router and retransmission do: the INVITE gets one final response at most.
THEOREM OneFinalOnly == InboundSpec => []OneFinalResponse
<1>1. InboundInv => OneFinalResponse
  BY DEF InboundInv
<1>2. QED
  BY <1>1, InboundInvariant, PTL

\* No reservation of an inbound call is ever without an owner that gives it
\* back: the answer that prepares it, or a session that still has to close.
THEOREM CustodyIsKept == InboundSpec => []PortsAccounted
<1>1. InboundInv => PortsAccounted
  BY DEF InboundInv
<1>2. QED
  BY <1>1, InboundInvariant, PTL

-----------------------------------------------------------------------------
(* Registration: the inductive invariant *)

\* The registrar holds nothing for an account it does not have, and knows the account
\* of the entry when no listener has yet to tell it.
AccountIsKnown ==
    /\ account = NoAccount => bindings = {}
    /\ listeners = 0 => account = entry

RegistrationInv ==
    /\ RegistrationTypeOK
    /\ BindingsBelong
    /\ Shown
    /\ AccountIsKnown

\* Before the first REGISTER the invariant holds.
LEMMA InitRegistration == Init => RegistrationInv
<1> SUFFICES ASSUME Init PROVE RegistrationInv
  OBVIOUS
<1> USE AccountMayBeMissing, RegistrationBounds DEF Init, RegistrarInit, TrunkInit
<1>1. entry \in Passwords
  OBVIOUS
<1>2. client \in [Clients -> ClientStates]
  <2>1. PICK s \in Setups : client = [c \in Clients |-> IF c \in s.clients THEN NewClient ELSE ClosedClient]
    OBVIOUS
  <2>2. QED
    BY <2>1 DEF NewClient, ClosedClient, ClientStates
<1>3. left \in [{"faults", "edits", "refreshes"} -> Nat]
  OBVIOUS
<1>4. RegistrationTypeOK
  <2>1. /\ bindings = {} /\ requests = {} /\ responses = {} /\ account = entry
        /\ nonce = 0 /\ fresh = FALSE /\ endpoint = "offline" /\ listeners = 0 /\ reliable \in BOOLEAN
    OBVIOUS
  <2>2. /\ entry \in Passwords \cup {NoAccount} /\ account \in Passwords \cup {NoAccount}
        /\ nonce \in Nat /\ fresh \in BOOLEAN /\ reliable \in BOOLEAN
        /\ endpoint \in {"available", "offline", "unavailable"} /\ listeners \in 0..MaxListeners
    <3>1. listeners \in 0..MaxListeners /\ nonce \in Nat
      BY <2>1
    <3>2. QED
      BY <1>1, <2>1, <3>1
  <2> HIDE DEF Init
  <2>3. QED
    BY <1>2, <1>3, <2>1, <2>2 DEF RegistrationTypeOK, RegistrarTypeOK, TrunkTypeOK
<1>5. BindingsBelong /\ Shown /\ AccountIsKnown
  BY <1>1 DEF BindingsBelong, Shown, AccountIsKnown
<1>6. QED
  BY <1>4, <1>5 DEF RegistrationInv

-----------------------------------------------------------------------------
(* What the observer makes of a change *)

\* The observer moves a phone that is not disabled, to what it is told.
LEMMA ToldIs ==
  ASSUME NEW shown \in {"available", "offline", "unavailable"}, NEW before, NEW after_
  PROVE  /\ Told(shown, before, after_) \in {"available", "offline", "unavailable"}
         /\ Told(shown, before, after_) = "unavailable" <=> shown = "unavailable"
         /\ (before = {}) = (after_ = {}) => Told(shown, before, after_) = shown
         /\ (before = {}) # (after_ = {}) /\ shown # "unavailable" =>
              Told(shown, before, after_) = IF after_ # {} THEN "available" ELSE "offline"
  BY DEF Told, Observed

\* The steps of the registrar and of the entry it follows.
RegistrarStep ==
    \/ \E m \in requests, code \in {200, 401, 500}, n \in 0..(nonce + 1) : HandleRegister(m, Reply(code, n))
    \/ Expire \/ (\E b \in bindings : BindingLapses(b)) \/ NonceLapses \/ RemoveRegistration
    \/ \E a \in Passwords \cup {NoAccount} : (EntryEdited(a) \/ ServiceEdits(a)) /\ listeners < MaxListeners
    \/ ListenerEnds

\* Every step of the system is one of them or leaves the registrar alone.
LEMMA NextRegistrar == [Next]_vars => RegistrarStep \/ UNCHANGED registrar
<1>1. ASSUME NEW c \in Clients, ClientStep(c) PROVE UNCHANGED registrar
  BY <1>1 DEF ClientStep, Starts, StartFailing, Receives, Retransmits, GivesUp, Refreshes, RefreshFailing,
              LosesFlow, Stops, OfClients
<1>2. ASSUME NEW m \in requests, Handle(m) \/ HandleOneCopy(m) PROVE RegistrarStep
  BY <1>2 DEF Handle, HandleOneCopy, RegistrarStep
<1>3. ASSUME NEW m, LoseRequest(m) \/ LoseResponse(m) PROVE UNCHANGED registrar
  BY <1>3 DEF LoseRequest, LoseResponse, OfClients
<1>4. ASSUME NEW a \in Passwords \cup {NoAccount}, Edits(a) PROVE RegistrarStep
  BY <1>4 DEF Edits, RegistrarStep
<1>5. Withdraws \/ Listens \/ Expires \/ LosesNonce \/ (\E b \in bindings : Lapses(b)) => RegistrarStep
  BY DEF Withdraws, Listens, Expires, LosesNonce, Lapses, RegistrarStep
<1>6. UNCHANGED vars => UNCHANGED registrar
  BY DEF vars
<1>7. QED
  BY <1>1, <1>2, <1>3, <1>4, <1>5, <1>6 DEF Next

-----------------------------------------------------------------------------
(* Type correctness *)

\* A binding that a REGISTER adds is the account's.
LEMMA AppliedTyped ==
  ASSUME RegistrationTypeOK, NEW m \in requests, Authorized(m)
  PROVE  Applied(m) \subseteq Bindings
<1>1. m \in Messages /\ m.password \in Passwords /\ Live \subseteq Bindings
  BY DEF Authorized, Live, RegistrationTypeOK, RegistrarTypeOK, TrunkTypeOK, Messages
<1>2. [contact |-> m.contact, call |-> m.call, cseq |-> m.cseq, password |-> m.password, lapsed |-> FALSE] \in Bindings
  BY <1>1 DEF Bindings, Messages
<1>3. QED
  BY <1>1, <1>2 DEF Applied

\* Every step of the registrar keeps its types.
LEMMA RegistrarTyped ==
  ASSUME RegistrationTypeOK, RegistrarStep
  PROVE  RegistrarTypeOK'
<1> USE DEF RegistrationTypeOK, RegistrarTypeOK
<1>0. Live \subseteq bindings
  BY DEF Live
<1>1. ASSUME NEW m \in requests, NEW code \in {200, 401, 500}, NEW n \in 0..(nonce + 1),
             HandleRegister(m, Reply(code, n))
      PROVE  RegistrarTypeOK'
  <2>1. UNCHANGED <<entry, account, listeners>>
    BY <1>1 DEF HandleRegister
  <2>2. CASE Challenge(m, Reply(code, n))
    BY <2>1, <2>2 DEF Challenge
  <2>3. CASE Register(m, Reply(code, n))
    <3>1. bindings' \subseteq Bindings
      BY <1>0, <2>3, AppliedTyped DEF Register
    <3>2. endpoint' \in {"available", "offline", "unavailable"}
      BY <2>3, ToldIs DEF Register
    <3>3. UNCHANGED <<nonce, fresh>>
      BY <2>3 DEF Register
    <3>4. QED
      BY <2>1, <3>1, <3>2, <3>3
  <2>4. QED
    BY <1>1, <2>2, <2>3 DEF HandleRegister
<1>2. CASE Expire
  BY <1>0, <1>2, ToldIs DEF Expire
<1>3. ASSUME NEW b \in bindings, BindingLapses(b) PROVE RegistrarTypeOK'
  <2>1. [b EXCEPT !.lapsed = TRUE] \in Bindings
    BY DEF Bindings
  <2>2. QED
    BY <1>3, <2>1 DEF BindingLapses
<1>4. CASE NonceLapses
  BY <1>4 DEF NonceLapses
<1>5. CASE RemoveRegistration
  BY <1>5, ToldIs DEF RemoveRegistration
<1>6. ASSUME NEW a \in Passwords \cup {NoAccount}, listeners < MaxListeners, EntryEdited(a) \/ ServiceEdits(a)
      PROVE  RegistrarTypeOK'
  <2>1. Synced(a) \in {"available", "offline", "unavailable"}
    BY DEF Synced
  <2>2. listeners' \in 0..MaxListeners
    BY <1>6, RegistrationBounds DEF EntryEdited, ServiceEdits
  <2>3. CASE EntryEdited(a)
    BY <2>1, <2>2, <2>3 DEF EntryEdited
  <2>4. CASE ServiceEdits(a)
    BY <2>1, <2>2, <2>4, ToldIs DEF ServiceEdits, UpdateAccounts
  <2>5. QED
    BY <1>6, <2>3, <2>4
<1>7. CASE ListenerEnds
  <2>1. listeners' \in 0..MaxListeners
    BY <1>7, RegistrationBounds DEF ListenerEnds
  <2>2. QED
    BY <1>7, <2>1, ToldIs DEF ListenerEnds, UpdateAccounts
<1>8. QED
  BY <1>1, <1>2, <1>3, <1>4, <1>5, <1>6, <1>7 DEF RegistrarStep

\* The states that clients pass through.
LEMMA ClientStateUpdates ==
  \A s \in ClientStates :
    /\ \A p \in {"register", "rest"}, word \in Passwords \cup {0} :
         [s EXCEPT !.phase = p, !.password = word] \in ClientStates
    /\ \A n \in Nat : [s EXCEPT !.retried = TRUE, !.nonce = n] \in ClientStates
    /\ [s EXCEPT !.phase = "register"] \in ClientStates
    /\ [s EXCEPT !.registered = FALSE] \in ClientStates
    /\ [s EXCEPT !.retried = FALSE, !.nonce = 0] \in ClientStates
    /\ [s EXCEPT !.phase = "unregister"] \in ClientStates
  BY DEF ClientStates

\* What a client sends is well formed.
LEMMA SendsTyped ==
  ASSUME RegistrationTypeOK, NEW c \in Clients, NEW state \in ClientStates, Sends(c, state)
  PROVE  TrunkTypeOK'
<1> DEFINE next == [state EXCEPT !.cseq = @ + 1]
<1>1. next \in ClientStates
  BY DEF ClientStates
<1>2. RequestOf(c, next) \in Messages
  <2>1. ContactOf[c] \in Contacts /\ "*" \in Contacts
    BY DEF Contacts, Wildcard
  <2> HIDE DEF next
  <2>2. QED
    BY <1>1, <2>1 DEF RequestOf, Messages, ClientStates
<1>3. client' = [client EXCEPT ![c] = next] /\ requests' \subseteq requests \cup {RequestOf(c, next)} /\ responses' \subseteq responses
  BY DEF Sends, Signed
<1> HIDE DEF next
<1>4. QED
  BY <1>1, <1>2, <1>3 DEF RegistrationTypeOK, TrunkTypeOK

\* A response that comes back keeps the types of the trunk.
LEMMA ReturnsTyped ==
  ASSUME RegistrationTypeOK, NEW c \in Clients, NEW registered \in BOOLEAN, Returns(c, registered)
  PROVE  TrunkTypeOK'
<1>1. client[c] \in ClientStates
  BY DEF RegistrationTypeOK, TrunkTypeOK
<1>2. ClosedClient \in ClientStates
  BY DEF ClosedClient, NewClient, ClientStates
<1>3. [client[c] EXCEPT !.phase = "rest", !.registered = registered, !.retried = FALSE, !.nonce = 0] \in ClientStates
  BY <1>1 DEF ClientStates
<1>4. client' \in [Clients -> ClientStates]
  BY <1>2, <1>3 DEF Returns, RegistrationTypeOK, TrunkTypeOK
<1>5. requests' \subseteq requests /\ responses' \subseteq responses
  BY DEF Returns, Signed
<1>6. QED
  BY <1>4, <1>5 DEF RegistrationTypeOK, TrunkTypeOK

\* A client's steps, with the passwords the entry has.
LEMMA ClientTyped ==
  ASSUME RegistrationTypeOK, NEW c \in Clients, ClientStep(c)
  PROVE  RegistrationTypeOK'
<1>0. \A r \in responses : r.nonce \in Nat
  BY DEF RegistrationTypeOK, TrunkTypeOK, Responses
<1>1. client[c] \in ClientStates
  BY DEF RegistrationTypeOK, TrunkTypeOK
<1>2. TrunkTypeOK'
  <2>1. CASE Starts(c)
    <3>1. entry \in Passwords \cup {0}
      BY <2>1 DEF Starts, RegistrationTypeOK, RegistrarTypeOK
    <3>2. [client[c] EXCEPT !.phase = "register", !.password = entry] \in ClientStates
      BY <1>1, <3>1, ClientStateUpdates
    <3>3. QED
      BY <2>1, <3>2, SendsTyped DEF Starts, Start
  <2>2. CASE StartFailing(c)
    <3>1. entry \in Passwords \cup {0}
      BY <2>2 DEF StartFailing, RegistrationTypeOK, RegistrarTypeOK
    <3>2. [client[c] EXCEPT !.phase = "rest", !.password = entry] \in ClientStates
      BY <1>1, <3>1, ClientStateUpdates
    <3>3. client' = [client EXCEPT ![c] = [client[c] EXCEPT !.phase = "rest", !.password = entry]]
          /\ UNCHANGED <<requests, responses>>
      BY <2>2 DEF StartFailing, StartFails, RegistrationTypeOK, TrunkTypeOK
    <3>4. QED
      BY <3>2, <3>3 DEF RegistrationTypeOK, TrunkTypeOK
  <2>3. CASE Receives(c)
    <3>1. PICK r \in responses : Receive(c, r)
      BY <2>3 DEF Receives
    <3>2. CASE Retry(c, r)
      <4>1. [client[c] EXCEPT !.retried = TRUE, !.nonce = r.nonce] \in ClientStates
        BY <1>0, <1>1, ClientStateUpdates
      <4>2. QED
        BY <3>2, <4>1, SendsTyped DEF Retry
    <3>3. CASE Settle(c, r)
      BY <3>3, ReturnsTyped DEF Settle
    <3>4. QED
      BY <3>1, <3>2, <3>3 DEF Receive
  <2>4. CASE Retransmits(c)
    <3>1. RequestOf(c, client[c]) \in Messages
      <4>1. ContactOf[c] \in Contacts /\ "*" \in Contacts
        BY DEF Contacts, Wildcard
      <4>2. QED
        BY <1>1, <4>1 DEF RequestOf, Messages, ClientStates
    <3>2. QED
      BY <2>4, <3>1 DEF Retransmits, Retransmit, RegistrationTypeOK, TrunkTypeOK
  <2>5. CASE GivesUp(c)
    BY <2>5, ReturnsTyped DEF GivesUp, TimesOut
  <2>6. CASE Refreshes(c)
    <3>1. [client[c] EXCEPT !.phase = "register"] \in ClientStates
      BY <1>1, ClientStateUpdates
    <3>2. QED
      BY <2>6, <3>1, SendsTyped DEF Refreshes, Refresh
  <2>7. CASE RefreshFailing(c) \/ LosesFlow(c)
    <3>1. [client[c] EXCEPT !.registered = FALSE] \in ClientStates
      BY <1>1, ClientStateUpdates
    <3>2. /\ client' = [client EXCEPT ![c] = [client[c] EXCEPT !.registered = FALSE]]
          /\ requests' \subseteq requests /\ responses' \subseteq responses
      BY <2>7 DEF RefreshFailing, RefreshFails, LosesFlow, FlowLost, RegistrationTypeOK, TrunkTypeOK
    <3>3. QED
      BY <3>1, <3>2 DEF RegistrationTypeOK, TrunkTypeOK
  <2>8. CASE Stops(c)
    <3> DEFINE idle == [client[c] EXCEPT !.retried = FALSE, !.nonce = 0]
    <3>1. [idle EXCEPT !.phase = "unregister"] \in ClientStates /\ ClosedClient \in ClientStates
      <4>1. idle \in ClientStates
        BY <1>1, ClientStateUpdates
      <4> HIDE DEF idle
      <4>2. ClosedClient \in ClientStates
        BY DEF ClosedClient, NewClient, ClientStates
      <4>3. QED
        BY <4>1, <4>2, ClientStateUpdates
    <3>2. CASE Sends(c, [idle EXCEPT !.phase = "unregister"])
      <4> HIDE DEF idle
      <4>1. QED
        BY <3>1, <3>2, SendsTyped
    <3>3. CASE /\ client' = [client EXCEPT ![c] = ClosedClient]
               /\ requests' \subseteq requests /\ responses' \subseteq responses
      BY <3>1, <3>3 DEF RegistrationTypeOK, TrunkTypeOK
    <3>4. QED
      BY <2>8, <3>2, <3>3 DEF Stops, Stop, Signed
  <2>9. QED
    BY <2>1, <2>2, <2>3, <2>4, <2>5, <2>6, <2>7, <2>8 DEF ClientStep
<1>3. UNCHANGED registrar /\ reliable' = reliable
  BY DEF ClientStep, Starts, StartFailing, Receives, Retransmits, GivesUp, Refreshes, RefreshFailing,
         LosesFlow, Stops, OfClients
<1>4. left' \in [{"faults", "edits", "refreshes"} -> Nat]
  BY DEF ClientStep, Starts, StartFailing, Receives, Retransmits, GivesUp, Refreshes, RefreshFailing,
         LosesFlow, Stops, Free, Spends, RegistrationTypeOK
<1>5. QED
  BY <1>2, <1>3, <1>4 DEF RegistrationTypeOK, RegistrarTypeOK, registrar

\* The registrar's answer, and what it leaves on the wire.
LEMMA AnsweredTyped ==
  ASSUME RegistrationTypeOK, NEW m \in requests, NEW code \in {200, 401, 500}, NEW n \in 0..(nonce + 1),
         Answered(m, Reply(code, n))
  PROVE  responses' \subseteq Responses
<1>1. m.call \in Clients /\ m.cseq \in Nat /\ n \in Nat
  BY DEF RegistrationTypeOK, RegistrarTypeOK, TrunkTypeOK, Messages
<1>2. [call |-> m.call, cseq |-> m.cseq, code |-> code, nonce |-> n] \in Responses
  BY <1>1 DEF Responses
<1>3. QED
  BY <1>2 DEF Answered, Reply, RegistrationTypeOK, TrunkTypeOK

\* Every step of registrar and trunks keeps the types.
LEMMA TypeStep ==
  ASSUME RegistrationTypeOK, [Next]_vars
  PROVE  RegistrationTypeOK'
<1> USE DEF RegistrationTypeOK
<1>1. RegistrarTypeOK'
  <2>1. CASE RegistrarStep
    BY <2>1, RegistrarTyped
  <2>2. CASE UNCHANGED registrar
    BY <2>2 DEF registrar, RegistrarTypeOK
  <2>3. QED
    BY <2>1, <2>2, NextRegistrar
<1>2. ASSUME NEW c \in Clients, ClientStep(c) PROVE RegistrationTypeOK'
  BY <1>2, ClientTyped
<1>3. ASSUME NEW what \in {"faults", "edits", "refreshes"}, Spends(what) \/ Free
      PROVE  left' \in [{"faults", "edits", "refreshes"} -> Nat]
  BY <1>3 DEF Spends, Free
<1>4. ASSUME NEW m \in requests, Handle(m) \/ HandleOneCopy(m)
      PROVE  TrunkTypeOK' /\ UNCHANGED reliable /\ (Spends("faults") \/ Free)
  <2>1. responses' \subseteq Responses
    BY <1>4, AnsweredTyped DEF Handle, HandleOneCopy
  <2>2. QED
    BY <1>4, <2>1 DEF Handle, HandleOneCopy, TrunkTypeOK
<1>5. ASSUME NEW m, LoseRequest(m) \/ LoseResponse(m)
      PROVE  TrunkTypeOK' /\ UNCHANGED reliable /\ Spends("faults")
  BY <1>5 DEF LoseRequest, LoseResponse, OfClients, TrunkTypeOK
<1>6. ASSUME NEW a \in Passwords \cup {NoAccount}, Edits(a)
      PROVE  TrunkTypeOK' /\ UNCHANGED reliable /\ Spends("edits")
  BY <1>6 DEF Edits, OfRegistrar, trunk, TrunkTypeOK
<1>7. ASSUME Withdraws \/ Listens \/ Expires \/ LosesNonce \/ \E b \in bindings : Lapses(b)
      PROVE  TrunkTypeOK' /\ UNCHANGED reliable /\ (Spends("edits") \/ Spends("faults") \/ Free)
  BY <1>7 DEF Withdraws, Listens, Expires, LosesNonce, Lapses, OfRegistrar, trunk, TrunkTypeOK
<1>8. CASE UNCHANGED vars
  BY <1>1, <1>8 DEF vars, trunk, TrunkTypeOK
<1>9. QED
  BY <1>1, <1>2, <1>3, <1>4, <1>5, <1>6, <1>7, <1>8 DEF Next

-----------------------------------------------------------------------------
(* Bindings *)

\* A REGISTER that is let in has the account's password; what it leaves are bindings
\* there were, or its own, one per contact and none older than it was.
LEMMA RegisterBindings ==
  ASSUME RegistrationInv, NEW m \in requests, NEW reply, Register(m, reply)
  PROVE  /\ account # NoAccount
         /\ \A b \in bindings' : b.password = account
         /\ \A b, o \in bindings' : b.contact = o.contact => b = o
         /\ \A b \in Live, n \in bindings' : b.contact = n.contact /\ b.call = n.call => b.cseq <= n.cseq
<1> USE DEF RegistrationInv
<1> DEFINE own == [contact |-> m.contact, call |-> m.call, cseq |-> m.cseq,
                   password |-> m.password, lapsed |-> FALSE]
<1>1. /\ account # NoAccount /\ m.password = account /\ m.cseq \in Nat
      /\ \A b \in bindings : b.cseq \in Nat
      /\ Live \subseteq bindings
  BY DEF Register, Authorized, RegistrationTypeOK, TrunkTypeOK, RegistrarTypeOK, Messages, Bindings, Live
<1>2. /\ \A b \in Live : b.password = account
      /\ \A b, o \in Live : b.contact = o.contact => b = o
      /\ \A b, o \in Live : b.contact = o.contact => b.cseq <= o.cseq
  BY <1>1 DEF BindingsBelong, Shown
<1>3. CASE bindings' = Live
  BY <1>1, <1>2, <1>3
<1>4. CASE ~(Stale(m) \/ Repeated(m)) /\ bindings' = Applied(m)
  <2>1. \A b \in Live : b.contact = m.contact /\ b.call = m.call => b.cseq <= m.cseq
    BY <1>1, <1>4 DEF Stale, Repeated, Known
  <2>2. \A b \in bindings' : b = own \/ (b \in Live /\ b.contact # m.contact)
    BY <1>4 DEF Applied
  <2>3. /\ own.contact = m.contact /\ own.call = m.call /\ own.cseq = m.cseq
        /\ own.password = m.password
    OBVIOUS
  <2> HIDE DEF own
  <2>4. QED
    BY <1>1, <1>2, <2>1, <2>2, <2>3
<1>5. QED
  BY <1>3, <1>4 DEF Register

\* Whatever else happens to the bindings: some go, all go, or one is past its time.
LEMMA OtherBindings ==
  ASSUME RegistrationInv, RegistrarStep
  PROVE  \/ \E m \in requests, code \in {200, 401, 500}, n \in 0..(nonce + 1) : Register(m, Reply(code, n))
         \/ bindings' \subseteq bindings
         \/ \E b \in bindings : bindings' = (bindings \ {b}) \cup {[b EXCEPT !.lapsed = TRUE]}
  BY DEF RegistrarStep, HandleRegister, Challenge, Expire, BindingLapses, NonceLapses, RemoveRegistration,
         EntryEdited, ServiceEdits, ListenerEnds, UpdateAccounts, Live

\* The bindings after a step are of what they were before or of the one REGISTER that
\* made its own.
LEMMA BindingsStep ==
  ASSUME RegistrationInv, RegistrarStep
  PROVE  /\ \A b, o \in bindings' : b.contact = o.contact => b = o
         /\ \A b \in Live, n \in bindings' : b.contact = n.contact /\ b.call = n.call => b.cseq <= n.cseq
<1> USE DEF RegistrationInv
<1>1. /\ \A b, o \in bindings : b.contact = o.contact => b = o
      /\ \A b \in bindings : b.cseq \in Nat /\ b \in Bindings
      /\ Live \subseteq bindings
  BY DEF Shown, RegistrationTypeOK, RegistrarTypeOK, Bindings, Live
<1>2. CASE \E m \in requests, code \in {200, 401, 500}, n \in 0..(nonce + 1) : Register(m, Reply(code, n))
  BY <1>2, RegisterBindings
<1>3. CASE bindings' \subseteq bindings
  <2>1. \A b, o \in bindings : b.contact = o.contact => b.cseq <= o.cseq
    BY <1>1
  <2>2. QED
    BY <1>1, <1>3, <2>1
<1>4. ASSUME NEW b \in bindings, bindings' = (bindings \ {b}) \cup {[b EXCEPT !.lapsed = TRUE]}
      PROVE  /\ \A d, o \in bindings' : d.contact = o.contact => d = o
             /\ \A d \in Live, n \in bindings' : d.contact = n.contact /\ d.call = n.call => d.cseq <= n.cseq
  <2> DEFINE lapsed == [b EXCEPT !.lapsed = TRUE]
  <2>1. lapsed.contact = b.contact /\ lapsed.call = b.call /\ lapsed.cseq = b.cseq
    BY <1>1 DEF Bindings
  <2> HIDE DEF lapsed
  <2>2. \A n \in bindings' : n = lapsed \/ (n \in bindings /\ n # b)
    BY <1>4 DEF lapsed
  <2>3. \A d, o \in bindings : d.contact = o.contact => d.cseq <= o.cseq
    BY <1>1
  <2>4. QED
    BY <1>1, <2>1, <2>2, <2>3
<1>5. QED
  BY <1>2, <1>3, <1>4, OtherBindings

-----------------------------------------------------------------------------
(* The account, and how its phone is shown *)

\* An account that changes keeps no binding.
LEMMA UpdateBelongs ==
  ASSUME RegistrationInv, NEW a \in Passwords \cup {NoAccount},
         NEW shown \in {"available", "offline", "unavailable"}, UpdateAccounts(a, shown),
         shown = "available" => bindings # {}
  PROVE  /\ account' = a
         /\ BindingsBelong'
         /\ account' = NoAccount => bindings' = {}
         /\ endpoint' \in {"available", "offline", "unavailable"}
         /\ endpoint' = "unavailable" <=> shown = "unavailable"
         /\ endpoint' = "available" => bindings' # {}
         /\ bindings' # {} => endpoint' = shown /\ bindings' = bindings /\ account = a /\ a # NoAccount
  BY ToldIs DEF UpdateAccounts, RegistrationInv, BindingsBelong

\* Every step keeps what the registrar knows of the account.
LEMMA AccountStep ==
  ASSUME RegistrationInv, RegistrarStep
  PROVE  /\ BindingsBelong' /\ AccountIsKnown'
         /\ (endpoint = "unavailable" <=> entry = NoAccount)'
         /\ (endpoint = "available" => bindings # {})'
         /\ TakenOffline => entry = NoAccount /\ listeners > 0
<1> DEFINE Goal == /\ BindingsBelong' /\ AccountIsKnown'
                   /\ (endpoint = "unavailable" <=> entry = NoAccount)'
                   /\ (endpoint = "available" => bindings # {})'
                   /\ TakenOffline => entry = NoAccount /\ listeners > 0
<1> USE DEF RegistrationInv, Shown, BindingsBelong, AccountIsKnown, TakenOffline, BoundOffline
<1>0. /\ endpoint \in {"available", "offline", "unavailable"} /\ listeners \in Nat /\ Live \subseteq bindings
      /\ entry \in Passwords \cup {NoAccount}
  BY DEF RegistrationTypeOK, RegistrarTypeOK, Live
<1>1. ASSUME NEW m \in requests, NEW reply, HandleRegister(m, reply) PROVE Goal
  <2>1. UNCHANGED <<entry, account, listeners>>
    BY <1>1 DEF HandleRegister
  <2>2. CASE Challenge(m, reply)
    BY <2>1, <2>2 DEF Challenge
  <2>3. CASE Register(m, reply)
    <3>1. account # NoAccount /\ BindingsBelong'
      BY <2>1, <2>3, RegisterBindings
    <3> DEFINE shown == Told(endpoint, bindings, Live)
    <3>2. shown \in {"available", "offline", "unavailable"} /\ (shown = "unavailable" <=> endpoint = "unavailable")
          /\ (Live = {} /\ bindings # {} => shown # "available")
          /\ (Live # {} => shown = endpoint) /\ (bindings = {} => shown = endpoint)
      BY <1>0, ToldIs
    <3>3. endpoint' = Told(shown, Live, bindings')
      BY <2>3 DEF Register
    <3> HIDE DEF shown
    <3>4. /\ endpoint' = "unavailable" <=> shown = "unavailable"
          /\ Live = {} /\ bindings' # {} => endpoint' \in {"available", "unavailable"}
          /\ Live # {} /\ bindings' # {} => endpoint' = shown
          /\ bindings' = {} => endpoint' # "available"
      BY <3>2, <3>3, ToldIs
    <3>5. QED
      BY <1>0, <2>1, <3>1, <3>2, <3>4
  <2>4. QED
    BY <1>1, <2>2, <2>3 DEF HandleRegister
<1>2. CASE Expire \/ RemoveRegistration
  BY <1>0, <1>2, ToldIs DEF Expire, RemoveRegistration
<1>3. ASSUME NEW b \in bindings, BindingLapses(b) PROVE Goal
  <2>1. [b EXCEPT !.lapsed = TRUE].password = b.password
    BY DEF RegistrationTypeOK, RegistrarTypeOK, Bindings
  <2>2. QED
    BY <1>3, <2>1 DEF BindingLapses
<1>4. CASE NonceLapses
  BY <1>4 DEF NonceLapses
<1>5. ASSUME NEW a \in Passwords \cup {NoAccount}, EntryEdited(a) \/ ServiceEdits(a) PROVE Goal
  <2>1. /\ Synced(a) \in {"available", "offline", "unavailable"}
        /\ Synced(a) = "unavailable" <=> a = NoAccount
        /\ Synced(a) = "available" => endpoint = "available"
        /\ Synced(a) = "offline" => endpoint = "offline" \/ entry = NoAccount
    BY <1>0 DEF Synced
  <2>2. entry' = a /\ listeners' = listeners + 1
    BY <1>5 DEF EntryEdited, ServiceEdits
  <2>3. listeners' # 0 /\ (listeners = 0 \/ listeners > 0)
    BY <1>0, <2>2
  <2>4. CASE EntryEdited(a)
    BY <1>0, <2>1, <2>2, <2>3, <2>4 DEF EntryEdited
  <2>5. CASE ServiceEdits(a)
    BY <1>0, <2>1, <2>2, <2>3, <2>5, UpdateBelongs DEF ServiceEdits
  <2>6. QED
    BY <1>5, <2>4, <2>5
<1>6. CASE ListenerEnds
  BY <1>0, <1>6, UpdateBelongs DEF ListenerEnds
<1>7. QED
  BY <1>1, <1>2, <1>3, <1>4, <1>5, <1>6 DEF RegistrarStep

-----------------------------------------------------------------------------
(* The invariant and the action properties *)

\* Every step keeps the invariant, and neither shows a phone wrongly nor lowers a sequence number.
LEMMA InvariantStep ==
  ASSUME RegistrationInv, [Next]_vars
  PROVE  /\ RegistrationInv'
         /\ TakenOffline => entry = NoAccount /\ listeners > 0
         /\ \A b \in Live, n \in bindings' : b.contact = n.contact /\ b.call = n.call => b.cseq <= n.cseq
<1> USE DEF RegistrationInv
<1>1. RegistrationTypeOK'
  BY TypeStep
<1>2. CASE RegistrarStep
  BY <1>1, <1>2, BindingsStep, AccountStep DEF Shown
<1>3. CASE UNCHANGED registrar
  <2>1. \A b \in Live, n \in bindings : b.contact = n.contact => b.cseq <= n.cseq
    BY DEF Live, Shown, RegistrationTypeOK, RegistrarTypeOK, Bindings
  <2>2. QED
    BY <1>1, <1>3, <2>1 DEF registrar, BindingsBelong, Shown, AccountIsKnown, TakenOffline, BoundOffline
<1>4. QED
  BY <1>2, <1>3, NextRegistrar

\* The inductive invariant: the types, what the bindings belong to, how the phone is
\* shown, and what the registrar knows of the account between two listeners.
THEOREM RegistrationInvariant == Spec => []RegistrationInv
<1>1. Init => RegistrationInv
  BY InitRegistration
<1>2. RegistrationInv /\ [Next]_vars => RegistrationInv'
  BY InvariantStep
<1>3. QED
  BY <1>1, <1>2, PTL DEF Spec

\* Every binding was made with the password the account has now, however many clients
\* and however late a REGISTER signed with an earlier one arrives.
THEOREM BindingsOfTheAccount == Spec => []BindingsBelong
<1>1. RegistrationInv => BindingsBelong
  BY DEF RegistrationInv
<1>2. QED
  BY <1>1, RegistrationInvariant, PTL

\* One binding per contact; a phone is shown available only with a binding, and one
\* that has a binding is taken offline only by the edit that overtakes a listener,
\* however many edits and listeners run at once.
THEOREM PhoneIsShown == Spec => ShownAsRegistered
<1>1. RegistrationInv /\ [Next]_vars =>
        [Shown' /\ (TakenOffline => entry = NoAccount /\ listeners > 0)]_vars
  BY InvariantStep DEF RegistrationInv
<1>2. QED
  BY <1>1, RegistrationInvariant, PTL DEF Spec, ShownAsRegistered

\* While a contact stays bound by one Call-ID its CSeq only grows, whatever copies of
\* earlier REGISTERs arrive late.
THEOREM SequenceIsKept == Spec => SequenceHolds
<1>1. RegistrationInv /\ [Next]_vars =>
        [\A b \in Live, n \in bindings' :
           b.contact = n.contact /\ b.call = n.call => b.cseq <= n.cseq]_vars
  BY InvariantStep
<1>2. QED
  BY <1>1, RegistrationInvariant, PTL DEF Spec, SequenceHolds

=============================================================================
