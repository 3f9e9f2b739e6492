--------------------------- MODULE ForwardProofs ---------------------------
(***************************************************************************)
(* Proofs about ForwardCall, for any phones, far ends, requests and routes. *)
(*                                                                          *)
(* A group or Assist that a later request starts after the task that the    *)
(* end of the call waits for, and before that end goes on, outlives the     *)
(* call (_on_terminated joins one task and does not look for another one).  *)
(* From there on, when overtaken, only the types are claimed; the invariant *)
(* says what holds until then.                                              *)
(***************************************************************************)
EXTENDS ForwardCall, TLAPS

-----------------------------------------------------------------------------
(* The inductive invariant *)

\* The types, and what the places of the task say of the winner.
FlagsTyped ==
    /\ pending \in BOOLEAN /\ pre \in BOOLEAN /\ tomb \in BOOLEAN /\ closed \in BOOLEAN
    /\ claimed \in BOOLEAN /\ cancelled \in BOOLEAN /\ watcher \in BOOLEAN
    /\ overtaken \in BOOLEAN /\ deserted \in BOOLEAN
CallTyped ==
    /\ source \in {"ringing", "up", "over"}
    /\ state \in {"ringing", "connecting", "remote_ringing", "in_call", "idle"}
    /\ owner \in {"ha_softphone", "router", "bridge", "assist", "terminal"}
    /\ home \in Cards /\ claims \subseteq Cards
    /\ session \in {"live", "closing", "joining", "gone"}
ReqTyped == req \in [Requests -> {"idle", "joining", "deciding", "replacing", "handoff", "done"}]
TaskTyped ==
    /\ pc \in {"none", "invite", "final", "relay", "talk", "selfjoin", "failing", "assist",
               "fork", "dialsJoin", "losers", "commit", "closeWinner", "unwind"}
    /\ route \in Routes /\ policy \in Policies /\ winner \in Members \cup Cards \cup {Nobody}
    /\ offer \in {"none", "open", "answer", "reroute", "handed", "cancel", "stale"}
    /\ picked \in Cards \cup {Nobody}
LegTyped ==
    /\ leg \in [Members -> {"none", "trying", "ringing", "up", "failed", "ended"}]
    /\ held \subseteq Members /\ shed \subseteq Members /\ lost \subseteq Members
MediaTyped ==
    /\ pair \in {"free", "pre", "forward", "relay", "phone"}
    /\ relay \in {"none", "starting", "running", "taken", "orphan"}
    /\ index \in Members \cup {"assist", Nobody}
    /\ term \in {"no", "joining", "taking", "done"} /\ hang \in {"no", "joining", "bye", "silent", "done"}
PlaceTyped ==
    /\ pc \in {"invite", "final"} => winner = Peer
    /\ pc \in {"relay", "talk", "selfjoin", "closeWinner"} => winner \in Members
Typed ==
    /\ FlagsTyped /\ CallTyped /\ ReqTyped /\ TaskTyped /\ LegTyped /\ MediaTyped /\ PlaceTyped

WinnerInv ==
    /\ pc \in {"invite", "final"} => route = "peer"
    /\ pc \in {"relay", "talk", "closeWinner"} => leg[winner] # "none"

\* A request that holds the claim while it resolves its destination.
Deciding(r) == req[r] \in {"deciding", "replacing"}

\* One task or one deciding request has the claim, never both.
RequestInv ==
    /\ pc # "none" => claimed /\ \A r \in Requests : ~Deciding(r)
    /\ \A r \in Requests : Deciding(r) => claimed
    /\ \A r, s \in Requests : Deciding(r) /\ Deciding(s) => r = s
    /\ claimed /\ pc = "none" => \E r \in Requests : Deciding(r)
    /\ pc # "none" \/ "joining" \in {term, hang} => route # "refused"
    /\ cancelled => pc # "none"

\* What each await of the task is about.  Who ends the call and does not find the
\* task that it has cancelled finds one that has just begun: for the caller's end
\* it dials a peer.
PlaceInv ==
    /\ route = "peer" /\ pc # "none" => winner = Peer
    /\ pc = "failing" => route = "peer"
    /\ pc \in {"relay", "talk", "selfjoin"} => route \in {"peer", "group", "selection"}
    /\ pc \in {"closeWinner", "fork", "dialsJoin", "losers"} => route \in {"group", "selection"}
    /\ pc = "dialsJoin" /\ winner \in Cards => route = "selection"
    /\ pc = "losers" => winner \notin Cards
    /\ pc = "fork" => winner = Nobody
    /\ pc = "commit" => winner \in Cards /\ route = "selection"
    /\ pc = "assist" => route = "assist"
    /\ term = "joining" /\ pc # "none" /\ ~cancelled => pc = "invite"
    /\ hang = "joining" /\ pc # "none" /\ ~cancelled =>
         pc \in {"invite", "assist"} \/ (pc = "fork" /\ route = "group")

\* The registry knows the bridge as long as its session lives, and the session
\* watches no other task.
BridgeInv ==
    /\ pc \in {"final", "relay", "talk"} => index = winner /\ session = "live"
    /\ index \in Members => pc \in {"final", "relay", "talk"}
    /\ index = "assist" => pc = "none" /\ relay = "running" /\ ~pending
    /\ watcher => pc \in {"final", "relay", "talk"}
    /\ watcher /\ pc = "relay" => route = "peer"

\* A relay has a task, an index entry or an end of the call that stops it, and the
\* ports of the source are where the place of the task says.
RelayInv ==
    /\ relay = "starting" <=> pc = "relay"
    /\ relay \in {"running", "taken"} => pc \in {"none", "talk", "unwind"} /\ ~pending
    /\ relay = "running" => session # "gone"
    /\ relay = "taken" => pc = "none" /\ (term = "taking" \/ hang \in {"bye", "silent"})
    /\ hang \in {"bye", "silent"} => pc = "none" /\ ~pending /\ index = Nobody
    /\ pair = "relay" => relay \in {"running", "taken"}
    /\ pair = "forward" => pc \notin {"none", "talk", "selfjoin"}
    /\ pair = "phone" => pc = "none" /\ ~pending

\* Media of the trunk is in the hands of the call until it is answered, also while a
\* group of phones rings.  A route that can be decided is the one of that group, and a
\* request that asked its phones waits for the group.
OfferInv ==
    /\ pre => pair # "forward"
    /\ pc \in {"fork", "dialsJoin", "losers"} /\ route = "selection" => pre
    /\ route = "refused" => offer = "none"
    /\ offer \in {"open", "answer", "reroute", "cancel"} =>
         pc \in {"fork", "dialsJoin", "losers"} /\ route = "selection"
    /\ offer \in {"reroute", "handed"} => \E r \in Requests : req[r] = "handoff"

\* The legs that the task closes or hands on, from where it is.
TaskLegs ==
    CASE pc \in {"invite", "final", "failing"} -> {Peer}
      [] pc \in {"relay", "talk", "selfjoin", "closeWinner"} -> {winner}
      [] pc = "unwind" -> IF winner \in Members THEN {winner} ELSE Members
      [] pc \in {"fork", "dialsJoin", "losers"} -> Members
      [] OTHER -> {}

\* Every open leg is one of the task, or one that is being shed, or a known loss.
LegInv ==
    /\ Open \subseteq lost \cup shed \cup TaskLegs
    /\ held \subseteq Open
    /\ shed \subseteq Open \ TaskLegs
    /\ pc \in {"dialsJoin", "losers"} /\ winner \in Members => leg[winner] # "none"

\* Once the end of the call has taken what the registry holds, nothing comes back:
\* a task that runs still is about to see that the call is closed.
EndInv ==
    /\ term # "no" => tomb /\ source = "over"
    /\ term \in {"taking", "done"} =>
        /\ ~pending /\ ~pre /\ index = Nobody /\ offer = "none"
        /\ pair \in {"free", "forward", "relay"}
        /\ pc \in {"none", "invite", "failing", "unwind"}
        /\ pc = "invite" => closed
    /\ term = "done" => session # "live"
    /\ session = "gone" => claims = {}

\* Nobody has ended the call.
Unended == source # "over" /\ term = "no" /\ hang = "no"

\* While nobody ends the call its session lives, and the caller is served, is being
\* forwarded, or is waited for by the next request, but for the two known losses.
ServedInv == Unended =>
    /\ session = "live" /\ ~closed /\ owner # "terminal"
    /\ route = "refused" => owner = "ha_softphone" /\ (pending \/ pair = "phone")
    /\ cancelled /\ pc # "selfjoin" => pending /\ \E r \in Requests : req[r] = "joining"
    /\ pc \notin {"none", "talk", "selfjoin"} => pending
    /\ pc = "none" =>
        \/ Served \/ deserted \/ offer = "stale"
        \/ pending /\ (offer = "handed" \/ \E r \in Requests : Deciding(r) \/ req[r] = "joining")

Coherent ==
    /\ WinnerInv /\ RequestInv /\ PlaceInv /\ BridgeInv /\ RelayInv /\ OfferInv /\ LegInv
    /\ EndInv /\ ServedInv

\* What has overtaken the end of the call was started while that end was on its way.
Overtaken == overtaken => term # "no"

IInv == Typed /\ Overtaken /\ (overtaken \/ Coherent)

-----------------------------------------------------------------------------
(* The types *)

\* Whatever has been lost, every step keeps the types.
LEMMA TypedKeeps == Typed /\ [ForwardNext]_vars => Typed'
<1> SUFFICES ASSUME Typed, [ForwardNext]_vars PROVE Typed' OBVIOUS
<1> USE DEF callVars, offerVars, taskVars, legVars, mediaVars, pastVars
<1>1. ASSUME NEW r \in Requests, Forward(r) PROVE Typed'
  <2>1. FlagsTyped'
    BY <1>1, ForwardConstants DEF Typed, FlagsTyped, Forward, Ask, MayReplace, AlreadyForwarded, Free
  <2>2. CallTyped'
    BY <1>1, ForwardConstants DEF Typed, CallTyped, Forward, Ask, MayReplace, AlreadyForwarded, Free
  <2>3. ReqTyped'
    BY <1>1, ForwardConstants DEF Typed, ReqTyped, Forward, Ask, MayReplace, AlreadyForwarded, Free
  <2>4. TaskTyped'
    BY <1>1, ForwardConstants DEF Typed, TaskTyped, PlaceTyped, Forward, Ask, MayReplace,
       AlreadyForwarded, Free
  <2>5. LegTyped'
    BY <1>1, ForwardConstants DEF Typed, LegTyped, TaskTyped, PlaceTyped, Forward, Ask, MayReplace,
       AlreadyForwarded, Free
  <2>6. MediaTyped'
    BY <1>1, ForwardConstants DEF Typed, MediaTyped, TaskTyped, PlaceTyped, LegTyped, Forward, Ask,
       MayReplace, AlreadyForwarded, Free
  <2>7. PlaceTyped'
    BY <1>1, ForwardConstants DEF Typed, PlaceTyped, TaskTyped, LegTyped, Forward, Ask, MayReplace,
       AlreadyForwarded, Free
  <2> QED BY <2>1, <2>2, <2>3, <2>4, <2>5, <2>6, <2>7 DEF Typed
<1>2. ASSUME NEW r \in Requests, Reroute(r) PROVE Typed'
  <2>1. FlagsTyped' /\ CallTyped' /\ ReqTyped'
    BY <1>2, ForwardConstants DEF Typed, FlagsTyped, CallTyped, ReqTyped, Reroute
  <2>2. TaskTyped'
    BY <1>2, ForwardConstants DEF Typed, TaskTyped, PlaceTyped, Reroute
  <2>3. LegTyped'
    BY <1>2, ForwardConstants DEF Typed, LegTyped, TaskTyped, PlaceTyped, Reroute
  <2>4. MediaTyped'
    BY <1>2, ForwardConstants DEF Typed, MediaTyped, TaskTyped, PlaceTyped, LegTyped, Reroute
  <2>5. PlaceTyped'
    BY <1>2, ForwardConstants DEF Typed, PlaceTyped, TaskTyped, LegTyped, Reroute
  <2> QED BY <2>1, <2>2, <2>3, <2>4, <2>5 DEF Typed
<1>3. ASSUME NEW r \in Requests, HandedOff(r) PROVE Typed'
  <2>1. FlagsTyped'
    BY <1>3, ForwardConstants DEF Typed, FlagsTyped, HandedOff, Free, AlreadyForwarded
  <2>2. CallTyped'
    BY <1>3, ForwardConstants DEF Typed, CallTyped, HandedOff, Free, AlreadyForwarded
  <2>3. ReqTyped'
    BY <1>3, ForwardConstants DEF Typed, ReqTyped, HandedOff, Free, AlreadyForwarded
  <2>4. TaskTyped'
    BY <1>3, ForwardConstants DEF Typed, TaskTyped, PlaceTyped, HandedOff, Free, AlreadyForwarded
  <2>5. LegTyped'
    BY <1>3, ForwardConstants DEF Typed, LegTyped, TaskTyped, PlaceTyped, HandedOff, Free,
       AlreadyForwarded
  <2>6. MediaTyped'
    BY <1>3, ForwardConstants DEF Typed, MediaTyped, TaskTyped, PlaceTyped, LegTyped, HandedOff, Free,
       AlreadyForwarded
  <2>7. PlaceTyped'
    BY <1>3, ForwardConstants DEF Typed, PlaceTyped, TaskTyped, LegTyped, HandedOff, Free,
       AlreadyForwarded
  <2> QED BY <2>1, <2>2, <2>3, <2>4, <2>5, <2>6, <2>7 DEF Typed
<1>4. ASSUME NEW r \in Requests, PreviousJoined(r) PROVE Typed'
  <2>1. FlagsTyped'
    BY <1>4, ForwardConstants DEF Typed, FlagsTyped, PreviousJoined, TaskJoined, Free, AlreadyForwarded
  <2>2. CallTyped'
    BY <1>4, ForwardConstants DEF Typed, CallTyped, PreviousJoined, TaskJoined, Free, AlreadyForwarded
  <2>3. ReqTyped'
    BY <1>4, ForwardConstants DEF Typed, ReqTyped, PreviousJoined, TaskJoined, Free, AlreadyForwarded
  <2>4. TaskTyped'
    BY <1>4, ForwardConstants DEF Typed, TaskTyped, PlaceTyped, PreviousJoined, TaskJoined, Free,
       AlreadyForwarded
  <2>5. LegTyped'
    BY <1>4, ForwardConstants DEF Typed, LegTyped, TaskTyped, PlaceTyped, PreviousJoined, TaskJoined,
       Free, AlreadyForwarded
  <2>6. MediaTyped'
    BY <1>4, ForwardConstants DEF Typed, MediaTyped, TaskTyped, PlaceTyped, LegTyped, PreviousJoined,
       TaskJoined, Free, AlreadyForwarded
  <2>7. PlaceTyped'
    BY <1>4, ForwardConstants DEF Typed, PlaceTyped, TaskTyped, LegTyped, PreviousJoined, TaskJoined,
       Free, AlreadyForwarded
  <2> QED BY <2>1, <2>2, <2>3, <2>4, <2>5, <2>6, <2>7 DEF Typed
<1>5. ASSUME NEW r \in Requests, Refuse(r) PROVE Typed'
  <2>1. FlagsTyped'
    BY <1>5, ForwardConstants DEF Typed, FlagsTyped, Refuse, RoutesOf
  <2>2. CallTyped'
    BY <1>5, ForwardConstants DEF Typed, CallTyped, Refuse, RoutesOf
  <2>3. ReqTyped'
    BY <1>5, ForwardConstants DEF Typed, ReqTyped, Refuse, RoutesOf
  <2>4. TaskTyped'
    BY <1>5, ForwardConstants DEF Typed, TaskTyped, PlaceTyped, Refuse, RoutesOf
  <2>5. LegTyped'
    BY <1>5, ForwardConstants DEF Typed, LegTyped, TaskTyped, PlaceTyped, Refuse, RoutesOf
  <2>6. MediaTyped'
    BY <1>5, ForwardConstants DEF Typed, MediaTyped, TaskTyped, PlaceTyped, LegTyped, Refuse, RoutesOf
  <2>7. PlaceTyped'
    BY <1>5, ForwardConstants DEF Typed, PlaceTyped, TaskTyped, LegTyped, Refuse, RoutesOf
  <2> QED BY <2>1, <2>2, <2>3, <2>4, <2>5, <2>6, <2>7 DEF Typed
<1>6. ASSUME NEW r \in Requests, DecidePeer(r) PROVE Typed'
  <2>1. FlagsTyped' /\ CallTyped' /\ ReqTyped'
    BY <1>6, ForwardConstants DEF Typed, FlagsTyped, CallTyped, ReqTyped, DecidePeer, Decided, RoutesOf,
       StillPending, Fresh, Reserved
  <2>2. TaskTyped'
    BY <1>6, ForwardConstants DEF Typed, TaskTyped, PlaceTyped, DecidePeer, Decided, RoutesOf,
       StillPending, Fresh, Reserved, Routes
  <2>3. LegTyped'
    BY <1>6, ForwardConstants DEF Typed, LegTyped, TaskTyped, PlaceTyped, DecidePeer, Decided, RoutesOf,
       StillPending, Fresh, Reserved
  <2>4. MediaTyped'
    BY <1>6, ForwardConstants DEF Typed, MediaTyped, TaskTyped, PlaceTyped, LegTyped, DecidePeer,
       Decided, RoutesOf, StillPending, Fresh, Reserved
  <2>5. PlaceTyped'
    BY <1>6, ForwardConstants DEF Typed, PlaceTyped, TaskTyped, LegTyped, DecidePeer, Decided, RoutesOf,
       StillPending, Fresh, Reserved
  <2> QED BY <2>1, <2>2, <2>3, <2>4, <2>5 DEF Typed
<1>7. ASSUME NEW r \in Requests, DecideAssist(r) PROVE Typed'
  <2>1. FlagsTyped' /\ CallTyped' /\ ReqTyped'
    BY <1>7, ForwardConstants DEF Typed, FlagsTyped, CallTyped, ReqTyped, DecideAssist, Decided,
       RoutesOf, StillPending, Reserved, Overtaking
  <2>2. TaskTyped'
    BY <1>7, ForwardConstants DEF Typed, TaskTyped, PlaceTyped, DecideAssist, Decided, RoutesOf,
       StillPending, Reserved, Overtaking, Routes
  <2>3. LegTyped'
    BY <1>7, ForwardConstants DEF Typed, LegTyped, TaskTyped, PlaceTyped, DecideAssist, Decided,
       RoutesOf, StillPending, Reserved, Overtaking
  <2>4. MediaTyped'
    BY <1>7, ForwardConstants DEF Typed, MediaTyped, TaskTyped, PlaceTyped, LegTyped, DecideAssist,
       Decided, RoutesOf, StillPending, Reserved, Overtaking
  <2>5. PlaceTyped'
    BY <1>7, ForwardConstants DEF Typed, PlaceTyped, TaskTyped, LegTyped, DecideAssist, Decided,
       RoutesOf, StillPending, Reserved, Overtaking
  <2> QED BY <2>1, <2>2, <2>3, <2>4, <2>5 DEF Typed
<1>8. ASSUME NEW r \in Requests, DecidePhone(r) PROVE Typed'
  <2>1. FlagsTyped' /\ CallTyped' /\ ReqTyped'
    BY <1>8, ForwardConstants DEF Typed, FlagsTyped, CallTyped, ReqTyped, DecidePhone, Decided,
       RoutesOf, StillPending, Upserted
  <2>2. TaskTyped'
    BY <1>8, ForwardConstants DEF Typed, TaskTyped, PlaceTyped, DecidePhone, Decided, RoutesOf,
       StillPending, Upserted, Routes
  <2>3. LegTyped'
    BY <1>8, ForwardConstants DEF Typed, LegTyped, TaskTyped, PlaceTyped, DecidePhone, Decided,
       RoutesOf, StillPending, Upserted
  <2>4. MediaTyped'
    BY <1>8, ForwardConstants DEF Typed, MediaTyped, TaskTyped, PlaceTyped, LegTyped, DecidePhone,
       Decided, RoutesOf, StillPending, Upserted
  <2>5. PlaceTyped'
    BY <1>8, ForwardConstants DEF Typed, PlaceTyped, TaskTyped, LegTyped, DecidePhone, Decided,
       RoutesOf, StillPending, Upserted
  <2> QED BY <2>1, <2>2, <2>3, <2>4, <2>5 DEF Typed
<1>9. ASSUME NEW r \in Requests, DecideGroup(r) PROVE Typed'
  <2>1. FlagsTyped' /\ CallTyped' /\ ReqTyped'
    BY <1>9, ForwardConstants DEF Typed, FlagsTyped, CallTyped, ReqTyped, DecideGroup, Decided,
       RoutesOf, StillPending, Upserted, Fresh, Reserved, Overtaking
  <2>2. TaskTyped'
    BY <1>9, ForwardConstants DEF Typed, TaskTyped, PlaceTyped, DecideGroup, Decided, RoutesOf,
       StillPending, Upserted, Fresh, Reserved, Overtaking, Routes
  <2>3. LegTyped'
    BY <1>9, ForwardConstants DEF Typed, LegTyped, TaskTyped, PlaceTyped, DecideGroup, Decided,
       RoutesOf, StillPending, Upserted, Fresh, Reserved, Overtaking
  <2>4. MediaTyped'
    BY <1>9, ForwardConstants DEF Typed, MediaTyped, TaskTyped, PlaceTyped, LegTyped, DecideGroup,
       Decided, RoutesOf, StillPending, Upserted, Fresh, Reserved, Overtaking
  <2>5. PlaceTyped'
    BY <1>9, ForwardConstants DEF Typed, PlaceTyped, TaskTyped, LegTyped, DecideGroup, Decided,
       RoutesOf, StillPending, Upserted, Fresh, Reserved, Overtaking
  <2> QED BY <2>1, <2>2, <2>3, <2>4, <2>5 DEF Typed
<1>10. ASSUME NEW r \in Requests, DecideFails(r) PROVE Typed'
  <2>1. FlagsTyped' /\ CallTyped' /\ ReqTyped'
    BY <1>10, ForwardConstants DEF Typed, FlagsTyped, CallTyped, ReqTyped, DecideFails, Decided,
       RoutesOf, StillPending, FailsNow, RestoreOrTerminate, Resumes, OwnReleased, SourceTold,
       FinishAndPop, TaskEnds
  <2>2. TaskTyped'
    BY <1>10, ForwardConstants DEF Typed, TaskTyped, PlaceTyped, DecideFails, Decided, RoutesOf,
       StillPending, FailsNow, RestoreOrTerminate, Resumes, OwnReleased, SourceTold, FinishAndPop,
       TaskEnds, Routes
  <2>3. LegTyped'
    BY <1>10, ForwardConstants DEF Typed, LegTyped, TaskTyped, PlaceTyped, DecideFails, Decided,
       RoutesOf, StillPending, FailsNow, RestoreOrTerminate, Resumes, OwnReleased, SourceTold,
       FinishAndPop, TaskEnds
  <2>4. MediaTyped'
    BY <1>10, ForwardConstants DEF Typed, MediaTyped, TaskTyped, PlaceTyped, LegTyped, DecideFails,
       Decided, RoutesOf, StillPending, FailsNow, RestoreOrTerminate, Resumes, OwnReleased, SourceTold,
       FinishAndPop, TaskEnds
  <2>5. PlaceTyped'
    BY <1>10, ForwardConstants DEF Typed, PlaceTyped, TaskTyped, LegTyped, DecideFails, Decided,
       RoutesOf, StillPending, FailsNow, RestoreOrTerminate, Resumes, OwnReleased, SourceTold,
       FinishAndPop, TaskEnds
  <2> QED BY <2>1, <2>2, <2>3, <2>4, <2>5 DEF Typed
<1>11. ASSUME NEW m \in Members, Rings(m) PROVE Typed'
  <2>1. FlagsTyped' /\ CallTyped' /\ ReqTyped'
    BY <1>11, ForwardConstants DEF Typed, FlagsTyped, CallTyped, ReqTyped, Rings, LegStep
  <2>2. TaskTyped'
    BY <1>11, ForwardConstants DEF Typed, TaskTyped, PlaceTyped, Rings, LegStep
  <2>3. LegTyped'
    BY <1>11, ForwardConstants DEF Typed, LegTyped, TaskTyped, PlaceTyped, Rings, LegStep
  <2>4. MediaTyped'
    BY <1>11, ForwardConstants DEF Typed, MediaTyped, TaskTyped, PlaceTyped, LegTyped, Rings, LegStep
  <2>5. PlaceTyped'
    BY <1>11, ForwardConstants DEF Typed, PlaceTyped, TaskTyped, LegTyped, Rings, LegStep
  <2> QED BY <2>1, <2>2, <2>3, <2>4, <2>5 DEF Typed
<1>12. ASSUME NEW m \in Members, FarEnd(m) PROVE Typed'
  <2>1. FlagsTyped' /\ CallTyped' /\ ReqTyped'
    BY <1>12, ForwardConstants DEF Typed, FlagsTyped, CallTyped, ReqTyped, FarEnd, LegStep
  <2>2. TaskTyped'
    BY <1>12, ForwardConstants DEF Typed, TaskTyped, PlaceTyped, FarEnd, LegStep
  <2>3. LegTyped'
    BY <1>12, ForwardConstants DEF Typed, LegTyped, TaskTyped, PlaceTyped, FarEnd, LegStep
  <2>4. MediaTyped'
    BY <1>12, ForwardConstants DEF Typed, MediaTyped, TaskTyped, PlaceTyped, LegTyped, FarEnd, LegStep
  <2>5. PlaceTyped'
    BY <1>12, ForwardConstants DEF Typed, PlaceTyped, TaskTyped, LegTyped, FarEnd, LegStep
  <2> QED BY <2>1, <2>2, <2>3, <2>4, <2>5 DEF Typed
<1>13. ASSUME NEW m \in Members, TimesOut(m) PROVE Typed'
  <2>1. FlagsTyped' /\ CallTyped' /\ ReqTyped'
    BY <1>13, ForwardConstants DEF Typed, FlagsTyped, CallTyped, ReqTyped, TimesOut, LegStep
  <2>2. TaskTyped'
    BY <1>13, ForwardConstants DEF Typed, TaskTyped, PlaceTyped, TimesOut, LegStep
  <2>3. LegTyped'
    BY <1>13, ForwardConstants DEF Typed, LegTyped, TaskTyped, PlaceTyped, TimesOut, LegStep
  <2>4. MediaTyped'
    BY <1>13, ForwardConstants DEF Typed, MediaTyped, TaskTyped, PlaceTyped, LegTyped, TimesOut, LegStep
  <2>5. PlaceTyped'
    BY <1>13, ForwardConstants DEF Typed, PlaceTyped, TaskTyped, LegTyped, TimesOut, LegStep
  <2> QED BY <2>1, <2>2, <2>3, <2>4, <2>5 DEF Typed
<1>14. ASSUME InviteReturns PROVE Typed'
  <2>1. FlagsTyped'
    BY <1>14, ForwardConstants DEF Typed, FlagsTyped, InviteReturns, Runs, StillWanted, Bridged,
       Upserted, FailsClosing, OwnReleased
  <2>2. CallTyped'
    BY <1>14, ForwardConstants DEF Typed, CallTyped, InviteReturns, Runs, StillWanted, Bridged,
       Upserted, FailsClosing, OwnReleased
  <2>3. ReqTyped'
    BY <1>14, ForwardConstants DEF Typed, ReqTyped, InviteReturns, Runs, StillWanted, Bridged, Upserted,
       FailsClosing, OwnReleased
  <2>4. TaskTyped'
    BY <1>14, ForwardConstants DEF Typed, TaskTyped, PlaceTyped, InviteReturns, Runs, StillWanted,
       Bridged, Upserted, FailsClosing, OwnReleased
  <2>5. LegTyped'
    BY <1>14, ForwardConstants DEF Typed, LegTyped, TaskTyped, PlaceTyped, InviteReturns, Runs,
       StillWanted, Bridged, Upserted, FailsClosing, OwnReleased
  <2>6. MediaTyped'
    BY <1>14, ForwardConstants DEF Typed, MediaTyped, TaskTyped, PlaceTyped, LegTyped, InviteReturns,
       Runs, StillWanted, Bridged, Upserted, FailsClosing, OwnReleased
  <2>7. PlaceTyped'
    BY <1>14, ForwardConstants DEF Typed, PlaceTyped, TaskTyped, LegTyped, InviteReturns, Runs,
       StillWanted, Bridged, Upserted, FailsClosing, OwnReleased
  <2> QED BY <2>1, <2>2, <2>3, <2>4, <2>5, <2>6, <2>7 DEF Typed
<1>15. ASSUME FinalReturns PROVE Typed'
  <2>1. FlagsTyped'
    BY <1>15, ForwardConstants DEF Typed, FlagsTyped, FinalReturns, Runs, FailsClosing, OwnReleased
  <2>2. CallTyped'
    BY <1>15, ForwardConstants DEF Typed, CallTyped, FinalReturns, Runs, FailsClosing, OwnReleased
  <2>3. ReqTyped'
    BY <1>15, ForwardConstants DEF Typed, ReqTyped, FinalReturns, Runs, FailsClosing, OwnReleased
  <2>4. TaskTyped'
    BY <1>15, ForwardConstants DEF Typed, TaskTyped, PlaceTyped, FinalReturns, Runs, FailsClosing,
       OwnReleased
  <2>5. LegTyped'
    BY <1>15, ForwardConstants DEF Typed, LegTyped, TaskTyped, PlaceTyped, FinalReturns, Runs,
       FailsClosing, OwnReleased
  <2>6. MediaTyped'
    BY <1>15, ForwardConstants DEF Typed, MediaTyped, TaskTyped, PlaceTyped, LegTyped, FinalReturns,
       Runs, FailsClosing, OwnReleased
  <2>7. PlaceTyped'
    BY <1>15, ForwardConstants DEF Typed, PlaceTyped, TaskTyped, LegTyped, FinalReturns, Runs,
       FailsClosing, OwnReleased
  <2> QED BY <2>1, <2>2, <2>3, <2>4, <2>5, <2>6, <2>7 DEF Typed
<1>16. ASSUME RelayStarts PROVE Typed'
  <2>1. FlagsTyped' /\ CallTyped' /\ ReqTyped'
    BY <1>16, ForwardConstants DEF Typed, FlagsTyped, CallTyped, ReqTyped, RelayStarts, Runs, Upserted
  <2>2. TaskTyped'
    BY <1>16, ForwardConstants DEF Typed, TaskTyped, PlaceTyped, RelayStarts, Runs, Upserted
  <2>3. LegTyped'
    BY <1>16, ForwardConstants DEF Typed, LegTyped, TaskTyped, PlaceTyped, RelayStarts, Runs, Upserted
  <2>4. MediaTyped'
    BY <1>16, ForwardConstants DEF Typed, MediaTyped, TaskTyped, PlaceTyped, LegTyped, RelayStarts,
       Runs, Upserted
  <2>5. PlaceTyped'
    BY <1>16, ForwardConstants DEF Typed, PlaceTyped, TaskTyped, LegTyped, RelayStarts, Runs, Upserted
  <2> QED BY <2>1, <2>2, <2>3, <2>4, <2>5 DEF Typed
<1>17. ASSUME RelayFails PROVE Typed'
  <2>1. FlagsTyped'
    BY <1>17, ForwardConstants DEF Typed, FlagsTyped, RelayFails, Runs
  <2>2. CallTyped'
    BY <1>17, ForwardConstants DEF Typed, CallTyped, RelayFails, Runs
  <2>3. ReqTyped'
    BY <1>17, ForwardConstants DEF Typed, ReqTyped, RelayFails, Runs
  <2>4. TaskTyped'
    BY <1>17, ForwardConstants DEF Typed, TaskTyped, PlaceTyped, RelayFails, Runs
  <2>5. LegTyped'
    BY <1>17, ForwardConstants DEF Typed, LegTyped, TaskTyped, PlaceTyped, RelayFails, Runs
  <2>6. MediaTyped'
    BY <1>17, ForwardConstants DEF Typed, MediaTyped, TaskTyped, PlaceTyped, LegTyped, RelayFails, Runs
  <2>7. PlaceTyped'
    BY <1>17, ForwardConstants DEF Typed, PlaceTyped, TaskTyped, LegTyped, RelayFails, Runs
  <2> QED BY <2>1, <2>2, <2>3, <2>4, <2>5, <2>6, <2>7 DEF Typed
<1>18. ASSUME WinnerClosed PROVE Typed'
  <2>1. FlagsTyped'
    BY <1>18, ForwardConstants DEF Typed, FlagsTyped, WinnerClosed, Runs, Closed, RestoreOrTerminate,
       Resumes, OwnReleased, SourceTold, FinishAndPop, TaskEnds
  <2>2. CallTyped'
    BY <1>18, ForwardConstants DEF Typed, CallTyped, WinnerClosed, Runs, Closed, RestoreOrTerminate,
       Resumes, OwnReleased, SourceTold, FinishAndPop, TaskEnds
  <2>3. ReqTyped'
    BY <1>18, ForwardConstants DEF Typed, ReqTyped, WinnerClosed, Runs, Closed, RestoreOrTerminate,
       Resumes, OwnReleased, SourceTold, FinishAndPop, TaskEnds
  <2>4. TaskTyped'
    BY <1>18, ForwardConstants DEF Typed, TaskTyped, PlaceTyped, WinnerClosed, Runs, Closed,
       RestoreOrTerminate, Resumes, OwnReleased, SourceTold, FinishAndPop, TaskEnds
  <2>5. LegTyped'
    BY <1>18, ForwardConstants DEF Typed, LegTyped, TaskTyped, PlaceTyped, WinnerClosed, Runs, Closed,
       RestoreOrTerminate, Resumes, OwnReleased, SourceTold, FinishAndPop, TaskEnds
  <2>6. MediaTyped'
    BY <1>18, ForwardConstants DEF Typed, MediaTyped, TaskTyped, PlaceTyped, LegTyped, WinnerClosed,
       Runs, Closed, RestoreOrTerminate, Resumes, OwnReleased, SourceTold, FinishAndPop, TaskEnds
  <2>7. PlaceTyped'
    BY <1>18, ForwardConstants DEF Typed, PlaceTyped, TaskTyped, LegTyped, WinnerClosed, Runs, Closed,
       RestoreOrTerminate, Resumes, OwnReleased, SourceTold, FinishAndPop, TaskEnds
  <2> QED BY <2>1, <2>2, <2>3, <2>4, <2>5, <2>6, <2>7 DEF Typed
<1>19. ASSUME CalleeEnds PROVE Typed'
  <2>1. FlagsTyped'
    BY <1>19, ForwardConstants DEF Typed, FlagsTyped, CalleeEnds, Runs, TaskEnds
  <2>2. CallTyped'
    BY <1>19, ForwardConstants DEF Typed, CallTyped, CalleeEnds, Runs, TaskEnds
  <2>3. ReqTyped'
    BY <1>19, ForwardConstants DEF Typed, ReqTyped, CalleeEnds, Runs, TaskEnds
  <2>4. TaskTyped'
    BY <1>19, ForwardConstants DEF Typed, TaskTyped, PlaceTyped, CalleeEnds, Runs, TaskEnds
  <2>5. LegTyped'
    BY <1>19, ForwardConstants DEF Typed, LegTyped, TaskTyped, PlaceTyped, CalleeEnds, Runs, TaskEnds
  <2>6. MediaTyped'
    BY <1>19, ForwardConstants DEF Typed, MediaTyped, TaskTyped, PlaceTyped, LegTyped, CalleeEnds, Runs,
       TaskEnds
  <2>7. PlaceTyped'
    BY <1>19, ForwardConstants DEF Typed, PlaceTyped, TaskTyped, LegTyped, CalleeEnds, Runs, TaskEnds
  <2> QED BY <2>1, <2>2, <2>3, <2>4, <2>5, <2>6, <2>7 DEF Typed
<1>20. ASSUME FailureClosed PROVE Typed'
  <2>1. FlagsTyped'
    BY <1>20, ForwardConstants DEF Typed, FlagsTyped, FailureClosed, Runs, Closed, RestoreOrTerminate,
       Resumes, OwnReleased, SourceTold, FinishAndPop, TaskEnds
  <2>2. CallTyped'
    BY <1>20, ForwardConstants DEF Typed, CallTyped, FailureClosed, Runs, Closed, RestoreOrTerminate,
       Resumes, OwnReleased, SourceTold, FinishAndPop, TaskEnds
  <2>3. ReqTyped'
    BY <1>20, ForwardConstants DEF Typed, ReqTyped, FailureClosed, Runs, Closed, RestoreOrTerminate,
       Resumes, OwnReleased, SourceTold, FinishAndPop, TaskEnds
  <2>4. TaskTyped'
    BY <1>20, ForwardConstants DEF Typed, TaskTyped, PlaceTyped, FailureClosed, Runs, Closed,
       RestoreOrTerminate, Resumes, OwnReleased, SourceTold, FinishAndPop, TaskEnds
  <2>5. LegTyped'
    BY <1>20, ForwardConstants DEF Typed, LegTyped, TaskTyped, PlaceTyped, FailureClosed, Runs, Closed,
       RestoreOrTerminate, Resumes, OwnReleased, SourceTold, FinishAndPop, TaskEnds
  <2>6. MediaTyped'
    BY <1>20, ForwardConstants DEF Typed, MediaTyped, TaskTyped, PlaceTyped, LegTyped, FailureClosed,
       Runs, Closed, RestoreOrTerminate, Resumes, OwnReleased, SourceTold, FinishAndPop, TaskEnds
  <2>7. PlaceTyped'
    BY <1>20, ForwardConstants DEF Typed, PlaceTyped, TaskTyped, LegTyped, FailureClosed, Runs, Closed,
       RestoreOrTerminate, Resumes, OwnReleased, SourceTold, FinishAndPop, TaskEnds
  <2> QED BY <2>1, <2>2, <2>3, <2>4, <2>5, <2>6, <2>7 DEF Typed
<1>21. ASSUME AssistStarts PROVE Typed'
  <2>1. FlagsTyped' /\ CallTyped' /\ ReqTyped'
    BY <1>21, ForwardConstants DEF Typed, FlagsTyped, CallTyped, ReqTyped, AssistStarts, Runs, Upserted,
       TaskEnds
  <2>2. TaskTyped'
    BY <1>21, ForwardConstants DEF Typed, TaskTyped, PlaceTyped, AssistStarts, Runs, Upserted, TaskEnds
  <2>3. LegTyped'
    BY <1>21, ForwardConstants DEF Typed, LegTyped, TaskTyped, PlaceTyped, AssistStarts, Runs, Upserted,
       TaskEnds
  <2>4. MediaTyped'
    BY <1>21, ForwardConstants DEF Typed, MediaTyped, TaskTyped, PlaceTyped, LegTyped, AssistStarts,
       Runs, Upserted, TaskEnds
  <2>5. PlaceTyped'
    BY <1>21, ForwardConstants DEF Typed, PlaceTyped, TaskTyped, LegTyped, AssistStarts, Runs, Upserted,
       TaskEnds
  <2> QED BY <2>1, <2>2, <2>3, <2>4, <2>5 DEF Typed
<1>22. ASSUME AssistFails PROVE Typed'
  <2>1. FlagsTyped'
    BY <1>22, ForwardConstants DEF Typed, FlagsTyped, AssistFails, Runs, FailsNow, RestoreOrTerminate,
       Resumes, OwnReleased, SourceTold, FinishAndPop, TaskEnds
  <2>2. CallTyped'
    BY <1>22, ForwardConstants DEF Typed, CallTyped, AssistFails, Runs, FailsNow, RestoreOrTerminate,
       Resumes, OwnReleased, SourceTold, FinishAndPop, TaskEnds
  <2>3. ReqTyped'
    BY <1>22, ForwardConstants DEF Typed, ReqTyped, AssistFails, Runs, FailsNow, RestoreOrTerminate,
       Resumes, OwnReleased, SourceTold, FinishAndPop, TaskEnds
  <2>4. TaskTyped'
    BY <1>22, ForwardConstants DEF Typed, TaskTyped, PlaceTyped, AssistFails, Runs, FailsNow,
       RestoreOrTerminate, Resumes, OwnReleased, SourceTold, FinishAndPop, TaskEnds
  <2>5. LegTyped'
    BY <1>22, ForwardConstants DEF Typed, LegTyped, TaskTyped, PlaceTyped, AssistFails, Runs, FailsNow,
       RestoreOrTerminate, Resumes, OwnReleased, SourceTold, FinishAndPop, TaskEnds
  <2>6. MediaTyped'
    BY <1>22, ForwardConstants DEF Typed, MediaTyped, TaskTyped, PlaceTyped, LegTyped, AssistFails,
       Runs, FailsNow, RestoreOrTerminate, Resumes, OwnReleased, SourceTold, FinishAndPop, TaskEnds
  <2>7. PlaceTyped'
    BY <1>22, ForwardConstants DEF Typed, PlaceTyped, TaskTyped, LegTyped, AssistFails, Runs, FailsNow,
       RestoreOrTerminate, Resumes, OwnReleased, SourceTold, FinishAndPop, TaskEnds
  <2> QED BY <2>1, <2>2, <2>3, <2>4, <2>5, <2>6, <2>7 DEF Typed
<1>23. ASSUME ForkEnds PROVE Typed'
  <2>1. FlagsTyped' /\ CallTyped' /\ ReqTyped'
    BY <1>23, ForwardConstants DEF Typed, FlagsTyped, CallTyped, ReqTyped, ForkEnds, Runs
  <2>2. TaskTyped'
    BY <1>23, ForwardConstants DEF Typed, TaskTyped, PlaceTyped, ForkEnds, Runs
  <2>3. LegTyped'
    BY <1>23, ForwardConstants DEF Typed, LegTyped, TaskTyped, PlaceTyped, ForkEnds, Runs
  <2>4. MediaTyped'
    BY <1>23, ForwardConstants DEF Typed, MediaTyped, TaskTyped, PlaceTyped, LegTyped, ForkEnds, Runs
  <2>5. PlaceTyped'
    BY <1>23, ForwardConstants DEF Typed, PlaceTyped, TaskTyped, LegTyped, ForkEnds, Runs
  <2> QED BY <2>1, <2>2, <2>3, <2>4, <2>5 DEF Typed
<1>24. ASSUME DialsJoined PROVE Typed'
  <2>1. FlagsTyped'
    BY <1>24, ForwardConstants DEF Typed, FlagsTyped, DialsJoined, Runs, Losers, Upserted
  <2>2. CallTyped'
    BY <1>24, ForwardConstants DEF Typed, CallTyped, DialsJoined, Runs, Losers, Upserted
  <2>3. ReqTyped'
    BY <1>24, ForwardConstants DEF Typed, ReqTyped, DialsJoined, Runs, Losers, Upserted
  <2>4. TaskTyped'
    BY <1>24, ForwardConstants DEF Typed, TaskTyped, PlaceTyped, DialsJoined, Runs, Losers, Upserted
  <2>5. LegTyped'
    BY <1>24, ForwardConstants DEF Typed, LegTyped, TaskTyped, PlaceTyped, DialsJoined, Runs, Losers,
       Open, Upserted
  <2>6. MediaTyped'
    BY <1>24, ForwardConstants DEF Typed, MediaTyped, TaskTyped, PlaceTyped, LegTyped, DialsJoined,
       Runs, Losers, Upserted
  <2>7. PlaceTyped'
    BY <1>24, ForwardConstants DEF Typed, PlaceTyped, TaskTyped, LegTyped, DialsJoined, Runs, Losers,
       Open, Upserted
  <2> QED BY <2>1, <2>2, <2>3, <2>4, <2>5, <2>6, <2>7 DEF Typed
<1>25. ASSUME LosersClosed PROVE Typed'
  <2>1. FlagsTyped'
    BY <1>25, ForwardConstants DEF Typed, FlagsTyped, LosersClosed, Runs, Closed, Losers, Bridged,
       Upserted, TaskEnds, RestoreOrTerminate, Resumes, OwnReleased, SourceTold, FinishAndPop
  <2>2. CallTyped'
    BY <1>25, ForwardConstants DEF Typed, CallTyped, LosersClosed, Runs, Closed, Losers, Bridged,
       Upserted, TaskEnds, RestoreOrTerminate, Resumes, OwnReleased, SourceTold, FinishAndPop
  <2>3. ReqTyped'
    BY <1>25, ForwardConstants DEF Typed, ReqTyped, LosersClosed, Runs, Closed, Losers, Bridged,
       Upserted, TaskEnds, RestoreOrTerminate, Resumes, OwnReleased, SourceTold, FinishAndPop
  <2>4. TaskTyped'
    BY <1>25, ForwardConstants DEF Typed, TaskTyped, PlaceTyped, LosersClosed, Runs, Closed, Losers,
       Bridged, Upserted, TaskEnds, RestoreOrTerminate, Resumes, OwnReleased, SourceTold, FinishAndPop
  <2>5. LegTyped'
    BY <1>25, ForwardConstants DEF Typed, LegTyped, TaskTyped, PlaceTyped, LosersClosed, Runs, Closed,
       Losers, Bridged, Upserted, TaskEnds, RestoreOrTerminate, Resumes, OwnReleased, SourceTold,
       FinishAndPop
  <2>6. MediaTyped'
    BY <1>25, ForwardConstants DEF Typed, MediaTyped, TaskTyped, PlaceTyped, LegTyped, LosersClosed,
       Runs, Closed, Losers, Bridged, Upserted, TaskEnds, RestoreOrTerminate, Resumes, OwnReleased,
       SourceTold, FinishAndPop
  <2>7. PlaceTyped'
    BY <1>25, ForwardConstants DEF Typed, PlaceTyped, TaskTyped, LegTyped, LosersClosed, Runs, Closed,
       Losers, Bridged, Upserted, TaskEnds, RestoreOrTerminate, Resumes, OwnReleased, SourceTold,
       FinishAndPop
  <2> QED BY <2>1, <2>2, <2>3, <2>4, <2>5, <2>6, <2>7 DEF Typed
<1>26. ASSUME ShedClosed PROVE Typed'
  <2>1. FlagsTyped' /\ CallTyped' /\ ReqTyped'
    BY <1>26, ForwardConstants DEF Typed, FlagsTyped, CallTyped, ReqTyped, ShedClosed, Closed
  <2>2. TaskTyped'
    BY <1>26, ForwardConstants DEF Typed, TaskTyped, PlaceTyped, ShedClosed, Closed
  <2>3. LegTyped'
    BY <1>26, ForwardConstants DEF Typed, LegTyped, TaskTyped, PlaceTyped, ShedClosed, Closed
  <2>4. MediaTyped'
    BY <1>26, ForwardConstants DEF Typed, MediaTyped, TaskTyped, PlaceTyped, LegTyped, ShedClosed,
       Closed
  <2>5. PlaceTyped'
    BY <1>26, ForwardConstants DEF Typed, PlaceTyped, TaskTyped, LegTyped, ShedClosed, Closed
  <2> QED BY <2>1, <2>2, <2>3, <2>4, <2>5 DEF Typed
<1>27. ASSUME CommitEnds PROVE Typed'
  <2>1. FlagsTyped'
    BY <1>27, ForwardConstants DEF Typed, FlagsTyped, CommitEnds, Runs, Answers, FinishAndPop,
       RestoreOrTerminate, Resumes, OwnReleased, SourceTold, TaskEnds
  <2>2. CallTyped'
    BY <1>27, ForwardConstants DEF Typed, CallTyped, CommitEnds, Runs, Answers, FinishAndPop,
       RestoreOrTerminate, Resumes, OwnReleased, SourceTold, TaskEnds
  <2>3. ReqTyped'
    BY <1>27, ForwardConstants DEF Typed, ReqTyped, CommitEnds, Runs, Answers, FinishAndPop,
       RestoreOrTerminate, Resumes, OwnReleased, SourceTold, TaskEnds
  <2>4. TaskTyped'
    BY <1>27, ForwardConstants DEF Typed, TaskTyped, PlaceTyped, CommitEnds, Runs, Answers,
       FinishAndPop, RestoreOrTerminate, Resumes, OwnReleased, SourceTold, TaskEnds
  <2>5. LegTyped'
    BY <1>27, ForwardConstants DEF Typed, LegTyped, TaskTyped, PlaceTyped, CommitEnds, Runs, Answers,
       FinishAndPop, RestoreOrTerminate, Resumes, OwnReleased, SourceTold, TaskEnds
  <2>6. MediaTyped'
    BY <1>27, ForwardConstants DEF Typed, MediaTyped, TaskTyped, PlaceTyped, LegTyped, CommitEnds, Runs,
       Answers, FinishAndPop, RestoreOrTerminate, Resumes, OwnReleased, SourceTold, TaskEnds
  <2>7. PlaceTyped'
    BY <1>27, ForwardConstants DEF Typed, PlaceTyped, TaskTyped, LegTyped, CommitEnds, Runs, Answers,
       FinishAndPop, RestoreOrTerminate, Resumes, OwnReleased, SourceTold, TaskEnds
  <2> QED BY <2>1, <2>2, <2>3, <2>4, <2>5, <2>6, <2>7 DEF Typed
<1>28. ASSUME PhoneAnswers PROVE Typed'
  <2>1. FlagsTyped'
    BY <1>28, ForwardConstants DEF Typed, FlagsTyped, PhoneAnswers, Answer, MayAnswer, Answers,
       FinishAndPop
  <2>2. CallTyped'
    BY <1>28, ForwardConstants DEF Typed, CallTyped, PhoneAnswers, Answer, MayAnswer, Answers,
       FinishAndPop
  <2>3. ReqTyped'
    BY <1>28, ForwardConstants DEF Typed, ReqTyped, PhoneAnswers, Answer, MayAnswer, Answers,
       FinishAndPop
  <2>4. TaskTyped'
    BY <1>28, ForwardConstants DEF Typed, TaskTyped, PlaceTyped, PhoneAnswers, Answer, MayAnswer,
       Answers, FinishAndPop
  <2>5. LegTyped'
    BY <1>28, ForwardConstants DEF Typed, LegTyped, TaskTyped, PlaceTyped, PhoneAnswers, Answer,
       MayAnswer, Answers, FinishAndPop
  <2>6. MediaTyped'
    BY <1>28, ForwardConstants DEF Typed, MediaTyped, TaskTyped, PlaceTyped, LegTyped, PhoneAnswers,
       Answer, MayAnswer, Answers, FinishAndPop
  <2>7. PlaceTyped'
    BY <1>28, ForwardConstants DEF Typed, PlaceTyped, TaskTyped, LegTyped, PhoneAnswers, Answer,
       MayAnswer, Answers, FinishAndPop
  <2> QED BY <2>1, <2>2, <2>3, <2>4, <2>5, <2>6, <2>7 DEF Typed
<1>29. ASSUME Interrupted PROVE Typed'
  <2>1. FlagsTyped'
    BY <1>29, ForwardConstants DEF Typed, FlagsTyped, Interrupted, Interruptible, OwnReleased, TaskEnds
  <2>2. CallTyped'
    BY <1>29, ForwardConstants DEF Typed, CallTyped, Interrupted, Interruptible, OwnReleased, TaskEnds
  <2>3. ReqTyped'
    BY <1>29, ForwardConstants DEF Typed, ReqTyped, Interrupted, Interruptible, OwnReleased, TaskEnds
  <2>4. TaskTyped'
    BY <1>29, ForwardConstants DEF Typed, TaskTyped, PlaceTyped, Interrupted, Interruptible,
       OwnReleased, TaskEnds
  <2>5. LegTyped'
    BY <1>29, ForwardConstants DEF Typed, LegTyped, TaskTyped, PlaceTyped, Interrupted, Interruptible,
       OwnReleased, TaskEnds
  <2>6. MediaTyped'
    BY <1>29, ForwardConstants DEF Typed, MediaTyped, TaskTyped, PlaceTyped, LegTyped, Interrupted,
       Interruptible, OwnReleased, TaskEnds
  <2>7. PlaceTyped'
    BY <1>29, ForwardConstants DEF Typed, PlaceTyped, TaskTyped, LegTyped, Interrupted, Interruptible,
       OwnReleased, TaskEnds
  <2> QED BY <2>1, <2>2, <2>3, <2>4, <2>5, <2>6, <2>7 DEF Typed
<1>30. ASSUME Unwound PROVE Typed'
  <2>1. FlagsTyped'
    BY <1>30, ForwardConstants DEF Typed, FlagsTyped, Unwound, Closed, Losers, Open, OwnReleased, TaskEnds
  <2>2. CallTyped'
    BY <1>30, ForwardConstants DEF Typed, CallTyped, Unwound, Closed, Losers, Open, OwnReleased, TaskEnds
  <2>3. ReqTyped'
    BY <1>30, ForwardConstants DEF Typed, ReqTyped, Unwound, Closed, Losers, Open, OwnReleased, TaskEnds
  <2>4. TaskTyped'
    BY <1>30, ForwardConstants DEF Typed, TaskTyped, PlaceTyped, Unwound, Closed, Losers, Open, OwnReleased,
       TaskEnds
  <2>5. LegTyped'
    BY <1>30, ForwardConstants DEF Typed, LegTyped, TaskTyped, PlaceTyped, Unwound, Closed, Losers, Open,
       OwnReleased, TaskEnds
  <2>6. MediaTyped'
    BY <1>30, ForwardConstants DEF Typed, MediaTyped, TaskTyped, PlaceTyped, LegTyped, Unwound, Closed,
       Losers, OwnReleased, TaskEnds
  <2>7. PlaceTyped'
    BY <1>30, ForwardConstants DEF Typed, PlaceTyped, TaskTyped, LegTyped, Unwound, Closed, Losers, Open,
       OwnReleased, TaskEnds
  <2> QED BY <2>1, <2>2, <2>3, <2>4, <2>5, <2>6, <2>7 DEF Typed
<1>31. ASSUME TermTakes PROVE Typed'
  <2>1. FlagsTyped'
    BY <1>31, ForwardConstants DEF Typed, FlagsTyped, TermTakes, TaskJoined, Taken, Given
  <2>2. CallTyped'
    BY <1>31, ForwardConstants DEF Typed, CallTyped, TermTakes, TaskJoined, Taken, Given
  <2>3. ReqTyped'
    BY <1>31, ForwardConstants DEF Typed, ReqTyped, TermTakes, TaskJoined, Taken, Given
  <2>4. TaskTyped'
    BY <1>31, ForwardConstants DEF Typed, TaskTyped, PlaceTyped, TermTakes, TaskJoined, Taken, Given
  <2>5. LegTyped'
    BY <1>31, ForwardConstants DEF Typed, LegTyped, TaskTyped, PlaceTyped, TermTakes, TaskJoined, Taken,
       Given
  <2>6. MediaTyped'
    BY <1>31, ForwardConstants DEF Typed, MediaTyped, TaskTyped, PlaceTyped, LegTyped, TermTakes,
       TaskJoined, Taken, Given
  <2>7. PlaceTyped'
    BY <1>31, ForwardConstants DEF Typed, PlaceTyped, TaskTyped, LegTyped, TermTakes, TaskJoined, Taken,
       Given
  <2> QED BY <2>1, <2>2, <2>3, <2>4, <2>5, <2>6, <2>7 DEF Typed
<1>32. ASSUME TermEnds PROVE Typed'
  <2>1. FlagsTyped' /\ CallTyped' /\ ReqTyped'
    BY <1>32, ForwardConstants DEF Typed, FlagsTyped, CallTyped, ReqTyped, TermEnds, FinishAndPop
  <2>2. TaskTyped'
    BY <1>32, ForwardConstants DEF Typed, TaskTyped, PlaceTyped, TermEnds, FinishAndPop
  <2>3. LegTyped'
    BY <1>32, ForwardConstants DEF Typed, LegTyped, TaskTyped, PlaceTyped, TermEnds, FinishAndPop
  <2>4. MediaTyped'
    BY <1>32, ForwardConstants DEF Typed, MediaTyped, TaskTyped, PlaceTyped, LegTyped, TermEnds,
       FinishAndPop
  <2>5. PlaceTyped'
    BY <1>32, ForwardConstants DEF Typed, PlaceTyped, TaskTyped, LegTyped, TermEnds, FinishAndPop
  <2> QED BY <2>1, <2>2, <2>3, <2>4, <2>5 DEF Typed
<1>33. ASSUME CallerEnds PROVE Typed'
  <2>1. FlagsTyped'
    BY <1>33, ForwardConstants DEF Typed, FlagsTyped, CallerEnds, Taken, Given
  <2>2. CallTyped'
    BY <1>33, ForwardConstants DEF Typed, CallTyped, CallerEnds, Taken, Given
  <2>3. ReqTyped'
    BY <1>33, ForwardConstants DEF Typed, ReqTyped, CallerEnds, Taken, Given
  <2>4. TaskTyped'
    BY <1>33, ForwardConstants DEF Typed, TaskTyped, PlaceTyped, CallerEnds, Taken, Given
  <2>5. LegTyped'
    BY <1>33, ForwardConstants DEF Typed, LegTyped, TaskTyped, PlaceTyped, CallerEnds, Taken, Given
  <2>6. MediaTyped'
    BY <1>33, ForwardConstants DEF Typed, MediaTyped, TaskTyped, PlaceTyped, LegTyped, CallerEnds,
       Taken, Given
  <2>7. PlaceTyped'
    BY <1>33, ForwardConstants DEF Typed, PlaceTyped, TaskTyped, LegTyped, CallerEnds, Taken, Given
  <2> QED BY <2>1, <2>2, <2>3, <2>4, <2>5, <2>6, <2>7 DEF Typed
<1>34. ASSUME Hangup PROVE Typed'
  <2>1. FlagsTyped'
    BY <1>34, ForwardConstants DEF Typed, FlagsTyped, Hangup, HangTakes, Given, FinishAndPop, TaskJoined
  <2>2. CallTyped'
    BY <1>34, ForwardConstants DEF Typed, CallTyped, Hangup, HangTakes, Given, FinishAndPop, TaskJoined
  <2>3. ReqTyped'
    BY <1>34, ForwardConstants DEF Typed, ReqTyped, Hangup, HangTakes, Given, FinishAndPop, TaskJoined
  <2>4. TaskTyped'
    BY <1>34, ForwardConstants DEF Typed, TaskTyped, PlaceTyped, Hangup, HangTakes, Given, FinishAndPop,
       TaskJoined
  <2>5. LegTyped'
    BY <1>34, ForwardConstants DEF Typed, LegTyped, TaskTyped, PlaceTyped, Hangup, HangTakes, Given,
       FinishAndPop, TaskJoined
  <2>6. MediaTyped'
    BY <1>34, ForwardConstants DEF Typed, MediaTyped, TaskTyped, PlaceTyped, LegTyped, Hangup,
       HangTakes, Given, FinishAndPop, TaskJoined
  <2>7. PlaceTyped'
    BY <1>34, ForwardConstants DEF Typed, PlaceTyped, TaskTyped, LegTyped, Hangup, HangTakes, Given,
       FinishAndPop, TaskJoined
  <2> QED BY <2>1, <2>2, <2>3, <2>4, <2>5, <2>6, <2>7 DEF Typed
<1>35. ASSUME HangupEnds PROVE Typed'
  <2>1. FlagsTyped' /\ CallTyped' /\ ReqTyped'
    BY <1>35, ForwardConstants DEF Typed, FlagsTyped, CallTyped, ReqTyped, HangupEnds, FinishAndPop
  <2>2. TaskTyped'
    BY <1>35, ForwardConstants DEF Typed, TaskTyped, PlaceTyped, HangupEnds, FinishAndPop
  <2>3. LegTyped'
    BY <1>35, ForwardConstants DEF Typed, LegTyped, TaskTyped, PlaceTyped, HangupEnds, FinishAndPop
  <2>4. MediaTyped'
    BY <1>35, ForwardConstants DEF Typed, MediaTyped, TaskTyped, PlaceTyped, LegTyped, HangupEnds,
       FinishAndPop
  <2>5. PlaceTyped'
    BY <1>35, ForwardConstants DEF Typed, PlaceTyped, TaskTyped, LegTyped, HangupEnds, FinishAndPop
  <2> QED BY <2>1, <2>2, <2>3, <2>4, <2>5 DEF Typed
<1>36. ASSUME AssistEnds PROVE Typed'
  <2>1. FlagsTyped' /\ CallTyped' /\ ReqTyped'
    BY <1>36, ForwardConstants DEF Typed, FlagsTyped, CallTyped, ReqTyped, AssistEnds, SourceTold,
       FinishAndPop
  <2>2. TaskTyped'
    BY <1>36, ForwardConstants DEF Typed, TaskTyped, PlaceTyped, AssistEnds, SourceTold, FinishAndPop
  <2>3. LegTyped'
    BY <1>36, ForwardConstants DEF Typed, LegTyped, TaskTyped, PlaceTyped, AssistEnds, SourceTold,
       FinishAndPop
  <2>4. MediaTyped'
    BY <1>36, ForwardConstants DEF Typed, MediaTyped, TaskTyped, PlaceTyped, LegTyped, AssistEnds,
       SourceTold, FinishAndPop
  <2>5. PlaceTyped'
    BY <1>36, ForwardConstants DEF Typed, PlaceTyped, TaskTyped, LegTyped, AssistEnds, SourceTold,
       FinishAndPop
  <2> QED BY <2>1, <2>2, <2>3, <2>4, <2>5 DEF Typed
<1>37. ASSUME BarrierStarts PROVE Typed'
  <2>1. FlagsTyped' /\ CallTyped' /\ ReqTyped'
    BY <1>37, ForwardConstants DEF Typed, FlagsTyped, CallTyped, ReqTyped, BarrierStarts
  <2>2. TaskTyped'
    BY <1>37, ForwardConstants DEF Typed, TaskTyped, PlaceTyped, BarrierStarts
  <2>3. LegTyped'
    BY <1>37, ForwardConstants DEF Typed, LegTyped, TaskTyped, PlaceTyped, BarrierStarts
  <2>4. MediaTyped'
    BY <1>37, ForwardConstants DEF Typed, MediaTyped, TaskTyped, PlaceTyped, LegTyped, BarrierStarts
  <2>5. PlaceTyped'
    BY <1>37, ForwardConstants DEF Typed, PlaceTyped, TaskTyped, LegTyped, BarrierStarts
  <2> QED BY <2>1, <2>2, <2>3, <2>4, <2>5 DEF Typed
<1>38. ASSUME BarrierEnds PROVE Typed'
  <2>1. FlagsTyped' /\ CallTyped' /\ ReqTyped'
    BY <1>38, ForwardConstants DEF Typed, FlagsTyped, CallTyped, ReqTyped, BarrierEnds, Closed, Given
  <2>2. TaskTyped'
    BY <1>38, ForwardConstants DEF Typed, TaskTyped, PlaceTyped, BarrierEnds, Closed, Given
  <2>3. LegTyped'
    BY <1>38, ForwardConstants DEF Typed, LegTyped, TaskTyped, PlaceTyped, BarrierEnds, Closed, Given
  <2>4. MediaTyped'
    BY <1>38, ForwardConstants DEF Typed, MediaTyped, TaskTyped, PlaceTyped, LegTyped, BarrierEnds,
       Closed, Given
  <2>5. PlaceTyped'
    BY <1>38, ForwardConstants DEF Typed, PlaceTyped, TaskTyped, LegTyped, BarrierEnds, Closed, Given
  <2> QED BY <2>1, <2>2, <2>3, <2>4, <2>5 DEF Typed
<1>39. CASE UNCHANGED vars
  BY <1>39 DEF Typed, FlagsTyped, CallTyped, ReqTyped, TaskTyped, LegTyped, MediaTyped, PlaceTyped, vars
<1> QED BY <1>1, <1>2, <1>3, <1>4, <1>5, <1>6, <1>7, <1>8, <1>9, <1>10, <1>11, <1>12, <1>13, <1>14,
     <1>15, <1>16, <1>17, <1>18, <1>19, <1>20, <1>21, <1>22, <1>23, <1>24, <1>25, <1>26, <1>27, <1>28,
     <1>29, <1>30, <1>31, <1>32, <1>33, <1>34, <1>35, <1>36, <1>37, <1>38, <1>39
     DEF ForwardNext, Request, Task, Ends

-----------------------------------------------------------------------------
(* The service call, up to the start of the task *)

\* A request that joins a task, takes the claim, or is told that the call is being forwarded.
LEMMA ForwardStep ==
    ASSUME Typed, Coherent, NEW r \in Requests, Forward(r)
    PROVE  Coherent'
<1>1. WinnerInv' /\ PlaceInv' /\ BridgeInv' /\ RelayInv' /\ OfferInv' /\ EndInv'
  BY DEF Typed, Coherent, ReqTyped, MediaTyped, PlaceTyped, LegTyped, WinnerInv, PlaceInv, BridgeInv,
     RelayInv, OfferInv, EndInv, Forward, Ask, MayReplace, AlreadyForwarded, Free, callVars, offerVars,
     legVars, mediaVars, pastVars
<1>2. RequestInv'
  BY DEF Typed, Coherent, ReqTyped, RequestInv, Deciding, Forward, Ask, MayReplace, AlreadyForwarded,
     Free, callVars, offerVars, legVars, mediaVars, pastVars
<1>3. LegInv'
  BY DEF Typed, Coherent, LegInv, TaskLegs, Open, Forward, Ask, MayReplace, AlreadyForwarded, Free,
     callVars, offerVars, legVars, mediaVars, pastVars
<1>4. ServedInv'
  BY DEF Typed, Coherent, ReqTyped, ServedInv, Unended, Deciding, Forward, Ask, MayReplace,
     AlreadyForwarded, Free, callVars, offerVars, legVars, mediaVars, pastVars, Served
<1> QED BY <1>1, <1>2, <1>3, <1>4 DEF Coherent

\* A request that asks the phones of a group that rings first.
LEMMA RerouteStep ==
    ASSUME Typed, Coherent, NEW r \in Requests, Reroute(r)
    PROVE  Coherent'
<1>1. WinnerInv' /\ RequestInv' /\ PlaceInv' /\ BridgeInv' /\ RelayInv' /\ OfferInv' /\ EndInv' /\
      ServedInv'
  BY DEF Typed, Coherent, CallTyped, MediaTyped, ReqTyped, PlaceTyped, LegTyped, WinnerInv, RequestInv,
     PlaceInv, BridgeInv, RelayInv, OfferInv, EndInv, ServedInv, Deciding, Unended, Reroute, callVars,
     taskVars, legVars, mediaVars, pastVars, Served
<1>2. LegInv'
  BY DEF Typed, Coherent, LegInv, TaskLegs, Open, Reroute, callVars, taskVars, legVars, mediaVars,
     pastVars
<1> QED BY <1>1, <1>2 DEF Coherent

\* The group has let go of the call, or was not asked.
LEMMA HandedOffStep ==
    ASSUME Typed, Coherent, NEW r \in Requests, HandedOff(r)
    PROVE  Coherent'
<1>1. WinnerInv' /\ PlaceInv' /\ BridgeInv' /\ RelayInv' /\ OfferInv' /\ EndInv'
  BY DEF Typed, Coherent, WinnerInv, PlaceInv, BridgeInv, RelayInv, OfferInv, EndInv, HandedOff, Free,
     AlreadyForwarded, callVars, legVars, mediaVars, pastVars
<1>2. RequestInv'
  BY DEF Typed, Coherent, ReqTyped, RequestInv, Deciding, HandedOff, Free, AlreadyForwarded, callVars,
     legVars, mediaVars, pastVars
<1>3. LegInv'
  BY DEF Typed, Coherent, LegInv, TaskLegs, Open, HandedOff, Free, AlreadyForwarded, callVars, legVars,
     mediaVars, pastVars
<1>4. ServedInv'
  BY DEF Typed, Coherent, ReqTyped, RequestInv, ServedInv, Deciding, Unended, HandedOff, Free,
     AlreadyForwarded, callVars, legVars, mediaVars, pastVars, Served
<1> QED BY <1>1, <1>2, <1>3, <1>4 DEF Coherent

\* The request that has cancelled the task goes on when it has ended.
LEMMA PreviousJoinedStep ==
    ASSUME Typed, Coherent, NEW r \in Requests, PreviousJoined(r)
    PROVE  Coherent'
<1>1. WinnerInv' /\ PlaceInv' /\ BridgeInv' /\ RelayInv' /\ OfferInv' /\ EndInv'
  BY DEF Typed, Coherent, ReqTyped, MediaTyped, PlaceTyped, LegTyped, WinnerInv, PlaceInv, BridgeInv,
     RelayInv, OfferInv, EndInv, PreviousJoined, TaskJoined, Free, AlreadyForwarded, callVars,
     offerVars, legVars, mediaVars, pastVars
<1>2. RequestInv'
  BY DEF Typed, Coherent, ReqTyped, RequestInv, Deciding, PreviousJoined, TaskJoined, Free,
     AlreadyForwarded, callVars, offerVars, legVars, mediaVars, pastVars
<1>3. LegInv'
  BY DEF Typed, Coherent, LegInv, TaskLegs, Open, PreviousJoined, TaskJoined, Free, AlreadyForwarded,
     callVars, offerVars, legVars, mediaVars, pastVars
<1>4. ServedInv'
  BY DEF Typed, Coherent, ReqTyped, RequestInv, ServedInv, Deciding, Unended, PreviousJoined,
     TaskJoined, Free, AlreadyForwarded, callVars, offerVars, legVars, mediaVars, pastVars, Served
<1> QED BY <1>1, <1>2, <1>3, <1>4 DEF Coherent

\* No destination: the caller was served before by a phone, or is deserted if the request had
\* cancelled a forward.
LEMMA RefuseStep ==
    ASSUME Typed, Coherent, NEW r \in Requests, Refuse(r)
    PROVE  Coherent'
<1>1. WinnerInv' /\ PlaceInv' /\ BridgeInv' /\ RelayInv' /\ EndInv'
  BY DEF Typed, Coherent, CallTyped, ReqTyped, MediaTyped, PlaceTyped, LegTyped, WinnerInv, PlaceInv,
     BridgeInv, RelayInv, EndInv, Unended, Deciding, Refuse, RoutesOf, callVars, offerVars, taskVars,
     legVars, mediaVars, pastVars, Served
<1>2. OfferInv'
  BY DEF Typed, Coherent, ReqTyped, RequestInv, OfferInv, Unended, Deciding, Refuse, RoutesOf, callVars,
     offerVars, taskVars, legVars, mediaVars, pastVars, Served
<1>3. ServedInv'
  BY DEF Typed, Coherent, CallTyped, ReqTyped, TaskTyped, MediaTyped, OfferInv, RequestInv, ServedInv,
     Unended, Deciding, Refuse, RoutesOf, callVars, offerVars, taskVars, legVars, mediaVars, pastVars,
     Served
<1>4. RequestInv'
  BY DEF Typed, Coherent, ReqTyped, RequestInv, Deciding, Refuse, RoutesOf, callVars, offerVars,
     taskVars, legVars, mediaVars, pastVars
<1>5. LegInv'
  BY DEF Typed, Coherent, LegInv, TaskLegs, Open, Refuse, RoutesOf, callVars, offerVars, taskVars,
     legVars, mediaVars, pastVars
<1> QED BY <1>1, <1>2, <1>3, <1>4, <1>5 DEF Coherent

\* A forward to one far end starts; its leg is one that nobody closes.
LEMMA DecidePeerStep ==
    ASSUME Typed, Coherent, NEW r \in Requests, DecidePeer(r)
    PROVE  Coherent'
<1>1. PlaceInv' /\ EndInv'
  BY DEF Typed, Coherent, ReqTyped, MediaTyped, PlaceTyped, PlaceInv, EndInv, DecidePeer, Decided,
     RoutesOf, StillPending, Fresh, Reserved, offerVars, pastVars
<1>2. OfferInv'
  BY DEF Typed, Coherent, ReqTyped, RequestInv, Deciding, OfferInv, DecidePeer, Decided, RoutesOf,
     StillPending, Fresh, Reserved, offerVars, pastVars
<1>3. WinnerInv'
  BY DEF Typed, Coherent, WinnerInv, RequestInv, Deciding, DecidePeer, Decided, RoutesOf, StillPending,
     Fresh, Reserved, offerVars, pastVars
<1>4. RequestInv'
  BY DEF Typed, Coherent, ReqTyped, RequestInv, Deciding, DecidePeer, Decided, RoutesOf, StillPending,
     Fresh, Reserved, offerVars, pastVars
<1>5. BridgeInv'
  BY DEF Typed, Coherent, RequestInv, BridgeInv, Deciding, DecidePeer, Decided, RoutesOf, StillPending,
     Fresh, Reserved, offerVars, pastVars
<1>6. RelayInv'
  BY DEF Typed, Coherent, RequestInv, RelayInv, Deciding, DecidePeer, Decided, RoutesOf, StillPending,
     Fresh, Reserved, offerVars, pastVars
<1>7. LegInv'
  BY DEF Typed, Coherent, RequestInv, LegInv, TaskLegs, Open, Deciding, DecidePeer, Decided, RoutesOf,
     StillPending, Fresh, Reserved, offerVars, pastVars
<1>8. ServedInv'
  BY DEF Typed, Coherent, CallTyped, ReqTyped, TaskTyped, MediaTyped, OfferInv, RequestInv, ServedInv,
     Unended, Deciding, DecidePeer, Decided, RoutesOf, StillPending, Fresh, Reserved, offerVars,
     pastVars, Served
<1> QED BY <1>1, <1>2, <1>3, <1>4, <1>5, <1>6, <1>7, <1>8 DEF Coherent

\* Assist is asked; no end of the call waits for a task, or it is overtaken.
LEMMA DecideAssistStep ==
    ASSUME Typed, Coherent, ~overtaken', NEW r \in Requests, DecideAssist(r)
    PROVE  Coherent'
<1>1. EndInv'
  BY DEF Typed, Coherent, MediaTyped, ReqTyped, EndInv, DecideAssist, Decided, RoutesOf, StillPending,
     Reserved, offerVars, legVars, pastVars
<1>2. OfferInv'
  BY DEF Typed, Coherent, ReqTyped, RequestInv, Deciding, OfferInv, DecideAssist, Decided, RoutesOf,
     StillPending, Reserved, offerVars, legVars, pastVars
<1>3. WinnerInv'
  BY DEF Typed, Coherent, WinnerInv, RequestInv, Deciding, DecideAssist, Decided, RoutesOf,
     StillPending, Reserved, offerVars, legVars, pastVars
<1>4. RequestInv'
  BY DEF Typed, Coherent, ReqTyped, RequestInv, Deciding, DecideAssist, Decided, RoutesOf, StillPending,
     Reserved, offerVars, legVars, pastVars
<1>5. PlaceInv'
  BY ForwardConstants DEF Typed, Coherent, Overtaking, MediaTyped, PlaceTyped, RequestInv, PlaceInv,
     Deciding, DecideAssist, Decided, RoutesOf, StillPending, Reserved, offerVars, legVars, pastVars
<1>6. BridgeInv'
  BY DEF Typed, Coherent, RequestInv, BridgeInv, Deciding, DecideAssist, Decided, RoutesOf,
     StillPending, Reserved, offerVars, legVars, pastVars
<1>7. RelayInv'
  BY DEF Typed, Coherent, RequestInv, RelayInv, Deciding, DecideAssist, Decided, RoutesOf, StillPending,
     Reserved, offerVars, legVars, pastVars
<1>8. LegInv'
  BY DEF Typed, Coherent, RequestInv, LegInv, TaskLegs, Open, Deciding, DecideAssist, Decided, RoutesOf,
     StillPending, Reserved, offerVars, legVars, pastVars
<1>9. ServedInv'
  BY DEF Typed, Coherent, CallTyped, ReqTyped, TaskTyped, MediaTyped, OfferInv, RequestInv, ServedInv,
     Unended, Deciding, DecideAssist, Decided, RoutesOf, StillPending, Reserved, offerVars, legVars,
     pastVars, Served
<1> QED BY <1>1, <1>2, <1>3, <1>4, <1>5, <1>6, <1>7, <1>8, <1>9 DEF Coherent

\* Another phone rings.
LEMMA DecidePhoneStep ==
    ASSUME Typed, Coherent, NEW r \in Requests, DecidePhone(r)
    PROVE  Coherent'
<1>1. WinnerInv' /\ PlaceInv' /\ BridgeInv' /\ RelayInv' /\ EndInv'
  BY DEF Typed, Coherent, CallTyped, ReqTyped, MediaTyped, PlaceTyped, LegTyped, WinnerInv, PlaceInv,
     BridgeInv, RelayInv, EndInv, Unended, Deciding, DecidePhone, Decided, RoutesOf, StillPending,
     Upserted, taskVars, legVars, mediaVars, pastVars, Served
<1>2. OfferInv'
  BY DEF Typed, Coherent, ReqTyped, RequestInv, OfferInv, Unended, Deciding, DecidePhone, Decided,
     RoutesOf, StillPending, Upserted, taskVars, legVars, mediaVars, pastVars, Served
<1>3. ServedInv'
  BY DEF Typed, Coherent, CallTyped, ReqTyped, TaskTyped, MediaTyped, OfferInv, RequestInv, ServedInv,
     Unended, Deciding, DecidePhone, Decided, RoutesOf, StillPending, Upserted, taskVars, legVars,
     mediaVars, pastVars, Served
<1>4. RequestInv'
  BY DEF Typed, Coherent, ReqTyped, RequestInv, Deciding, DecidePhone, Decided, RoutesOf, StillPending,
     Upserted, taskVars, legVars, mediaVars, pastVars
<1>5. LegInv'
  BY DEF Typed, Coherent, LegInv, TaskLegs, Open, DecidePhone, Decided, RoutesOf, StillPending,
     Upserted, taskVars, legVars, mediaVars, pastVars
<1> QED BY <1>1, <1>2, <1>3, <1>4, <1>5 DEF Coherent

\* A group is dialled; no offer to phones is open while a request decides.
LEMMA DecideGroupStep ==
    ASSUME Typed, Coherent, ~overtaken', NEW r \in Requests, DecideGroup(r)
    PROVE  Coherent'
<1>1. WinnerInv' /\ EndInv'
  BY DEF Typed, Coherent, WinnerInv, EndInv, DecideGroup, Decided, RoutesOf, StillPending, Upserted,
     Fresh, Reserved, pastVars
<1>2. RequestInv'
  BY DEF Typed, Coherent, ReqTyped, RequestInv, Deciding, DecideGroup, Decided, RoutesOf, StillPending,
     Upserted, Fresh, Reserved, pastVars
<1>3. PlaceInv'
  BY ForwardConstants DEF Typed, Coherent, Overtaking, MediaTyped, PlaceTyped, RequestInv, PlaceInv,
     Deciding, DecideGroup, Decided, RoutesOf, StillPending, Upserted, Fresh, Reserved, pastVars
<1>4. BridgeInv'
  BY DEF Typed, Coherent, RequestInv, BridgeInv, Deciding, DecideGroup, Decided, RoutesOf, StillPending,
     Upserted, Fresh, Reserved, pastVars
<1>5. RelayInv'
  BY DEF Typed, Coherent, RequestInv, RelayInv, Deciding, DecideGroup, Decided, RoutesOf, StillPending,
     Upserted, Fresh, Reserved, pastVars
<1>6. OfferInv'
  BY ForwardConstants DEF Typed, Coherent, ReqTyped, RequestInv, Deciding, OfferInv, DecideGroup,
     Decided, RoutesOf, StillPending, Upserted, Fresh, Reserved, pastVars
<1>7. LegInv'
  BY DEF Typed, Coherent, LegInv, TaskLegs, Open, DecideGroup, Decided, RoutesOf, StillPending,
     Upserted, Fresh, Reserved, pastVars
<1>8. ServedInv'
  BY DEF Typed, Coherent, RequestInv, ServedInv, Unended, Deciding, DecideGroup, Decided, RoutesOf,
     StillPending, Upserted, Fresh, Reserved, pastVars, Served
<1> QED BY <1>1, <1>2, <1>3, <1>4, <1>5, <1>6, <1>7, <1>8 DEF Coherent

\* What fails before its client is there leaves a caller who is served or told.
LEMMA DecideFailsStep ==
    ASSUME Typed, Coherent, NEW r \in Requests, DecideFails(r)
    PROVE  Coherent'
<1>1. PlaceInv'
  BY DEF Typed, Coherent, ReqTyped, MediaTyped, PlaceTyped, PlaceInv, DecideFails, Decided, RoutesOf,
     StillPending, FailsNow, RestoreOrTerminate, Resumes, OwnReleased, SourceTold, FinishAndPop,
     TaskEnds, offerVars, legVars, pastVars
<1>2. OfferInv'
  BY DEF Typed, Coherent, ReqTyped, RequestInv, Deciding, OfferInv, DecideFails, Decided, RoutesOf,
     StillPending, FailsNow, RestoreOrTerminate, Resumes, OwnReleased, SourceTold, FinishAndPop,
     TaskEnds, offerVars, legVars, pastVars
<1>3. WinnerInv'
  BY DEF Typed, Coherent, WinnerInv, RequestInv, Deciding, DecideFails, Decided, RoutesOf, StillPending,
     FailsNow, RestoreOrTerminate, Resumes, OwnReleased, SourceTold, FinishAndPop, TaskEnds, offerVars,
     legVars, pastVars
<1>4. RequestInv'
  BY DEF Typed, Coherent, ReqTyped, RequestInv, Deciding, DecideFails, Decided, RoutesOf, StillPending,
     FailsNow, RestoreOrTerminate, Resumes, OwnReleased, SourceTold, FinishAndPop, TaskEnds, offerVars,
     legVars, pastVars
<1>5. BridgeInv'
  BY DEF Typed, Coherent, RequestInv, BridgeInv, Deciding, DecideFails, Decided, RoutesOf, StillPending,
     FailsNow, RestoreOrTerminate, Resumes, OwnReleased, SourceTold, FinishAndPop, TaskEnds, offerVars,
     legVars, pastVars
<1>6. RelayInv'
  BY DEF Typed, Coherent, RequestInv, RelayInv, Deciding, DecideFails, Decided, RoutesOf, StillPending,
     FailsNow, RestoreOrTerminate, Resumes, OwnReleased, SourceTold, FinishAndPop, TaskEnds, offerVars,
     legVars, pastVars
<1>7. LegInv'
  BY DEF Typed, Coherent, RequestInv, LegInv, TaskLegs, Open, Deciding, DecideFails, Decided, RoutesOf,
     StillPending, FailsNow, RestoreOrTerminate, Resumes, OwnReleased, SourceTold, FinishAndPop,
     TaskEnds, offerVars, legVars, pastVars
<1>8. EndInv'
  <2>1. term \notin {"taking", "done"}
    BY DEF Typed, Coherent, EndInv, DecideFails, Decided, StillPending, pastVars
  <2>2. UNCHANGED <<term, claims>> /\ (session' = session \/ session' = "closing")
    BY DEF DecideFails, FailsNow, RestoreOrTerminate, FinishAndPop, offerVars, pastVars
  <2>3. (tomb' = TRUE /\ source' = "over") \/ UNCHANGED <<tomb, source>>
    BY DEF DecideFails, FailsNow, RestoreOrTerminate, SourceTold, pastVars
  <2> QED BY <2>1, <2>2, <2>3 DEF Typed, Coherent, EndInv
<1>9. ServedInv'
  BY DEF Typed, Coherent, TaskTyped, MediaTyped, RequestInv, PlaceTyped, OfferInv, ReqTyped, CallTyped,
     ServedInv, Unended, Deciding, DecideFails, Decided, RoutesOf, StillPending, FailsNow,
     RestoreOrTerminate, Resumes, OwnReleased, SourceTold, FinishAndPop, TaskEnds, offerVars, legVars,
     pastVars, Served
<1> QED BY <1>1, <1>2, <1>3, <1>4, <1>5, <1>6, <1>7, <1>8, <1>9 DEF Coherent

-----------------------------------------------------------------------------
(* The far ends *)

\* A far end rings.
LEMMA RingsStep ==
    ASSUME Typed, Coherent, NEW m \in Members, Rings(m)
    PROVE  Coherent'
<1>1. WinnerInv' /\ RequestInv' /\ PlaceInv' /\ BridgeInv' /\ RelayInv' /\ OfferInv' /\ EndInv' /\
      ServedInv'
  BY DEF Typed, Coherent, WinnerInv, RequestInv, PlaceInv, BridgeInv, RelayInv, OfferInv, EndInv,
     ServedInv, Deciding, Unended, Rings, LegStep, offerVars, taskVars, mediaVars, pastVars, Served
<1>2. LegInv'
  BY DEF Typed, Coherent, LegInv, TaskLegs, Open, Rings, LegStep, offerVars, taskVars, mediaVars,
     pastVars
<1> QED BY <1>1, <1>2 DEF Coherent

\* A far end answers, refuses or hangs up.
LEMMA FarEndStep ==
    ASSUME Typed, Coherent, NEW m \in Members, FarEnd(m)
    PROVE  Coherent'
<1>1. RequestInv' /\ PlaceInv' /\ BridgeInv' /\ RelayInv' /\ OfferInv' /\ EndInv' /\ ServedInv'
  BY DEF Typed, Coherent, RequestInv, PlaceInv, BridgeInv, RelayInv, OfferInv, EndInv, ServedInv,
     Deciding, Unended, FarEnd, LegStep, callVars, offerVars, taskVars, mediaVars, pastVars, Served
<1>2. WinnerInv'
  BY DEF Typed, Coherent, PlaceTyped, LegTyped, WinnerInv, FarEnd, LegStep, callVars, offerVars,
     taskVars, mediaVars, pastVars
<1>3. LegInv'
  BY DEF Typed, Coherent, LegTyped, LegInv, TaskLegs, Open, FarEnd, LegStep, callVars, offerVars,
     taskVars, mediaVars, pastVars
<1> QED BY <1>1, <1>2, <1>3 DEF Coherent

\* The wait for a far end gives up.
LEMMA TimesOutStep ==
    ASSUME Typed, Coherent, NEW m \in Members, TimesOut(m)
    PROVE  Coherent'
<1>1. WinnerInv' /\ RequestInv' /\ PlaceInv' /\ BridgeInv' /\ RelayInv' /\ OfferInv' /\ EndInv' /\
      ServedInv'
  BY DEF Typed, Coherent, WinnerInv, RequestInv, PlaceInv, BridgeInv, RelayInv, OfferInv, EndInv,
     ServedInv, Deciding, Unended, TimesOut, LegStep, callVars, offerVars, taskVars, mediaVars,
     pastVars, Served
<1>2. LegInv'
  BY DEF Typed, Coherent, LegInv, TaskLegs, Open, TimesOut, LegStep, callVars, offerVars, taskVars,
     mediaVars, pastVars
<1> QED BY <1>1, <1>2 DEF Coherent

-----------------------------------------------------------------------------
(* The task, from await to await *)

\* The first answer of the far end; after the end of the call the task only unwinds.
LEMMA InviteReturnsStep ==
    ASSUME Typed, Coherent, InviteReturns
    PROVE  Coherent'
<1>1. RelayInv' /\ OfferInv' /\ EndInv'
  BY DEF Typed, Coherent, RelayInv, OfferInv, EndInv, InviteReturns, Runs, StillWanted, Bridged,
     Upserted, FailsClosing, OwnReleased, callVars, offerVars, legVars, pastVars
<1>2. WinnerInv'
  BY ForwardConstants DEF Typed, Coherent, PlaceTyped, LegTyped, WinnerInv, InviteReturns, Runs,
     StillWanted, Bridged, Upserted, FailsClosing, OwnReleased, callVars, offerVars, legVars, pastVars
<1>3. RequestInv'
  <2>1. pc # "none" /\ pc' # "none" /\ UNCHANGED <<claimed, req, cancelled, route, term, hang>>
    BY DEF InviteReturns, Runs, FailsClosing, callVars, pastVars
  <2> QED BY <2>1 DEF Typed, Coherent, RequestInv, Deciding
<1>4. PlaceInv'
  BY ForwardConstants DEF Typed, Coherent, WinnerInv, MediaTyped, PlaceTyped, PlaceInv, InviteReturns,
     Runs, StillWanted, Bridged, Upserted, FailsClosing, OwnReleased, callVars, offerVars, legVars,
     pastVars
<1>5. BridgeInv'
  BY ForwardConstants DEF Typed, Coherent, WinnerInv, LegTyped, MediaTyped, PlaceTyped, PlaceInv,
     BridgeInv, InviteReturns, Runs, StillWanted, Bridged, Upserted, FailsClosing, OwnReleased,
     callVars, offerVars, legVars, pastVars
<1>6. LegInv'
  BY DEF Typed, Coherent, PlaceTyped, LegTyped, PlaceInv, LegInv, TaskLegs, Open, InviteReturns, Runs,
     StillWanted, Bridged, Upserted, FailsClosing, OwnReleased, callVars, offerVars, legVars, pastVars
<1>7. ServedInv'
  BY DEF Typed, Coherent, TaskTyped, WinnerInv, PlaceTyped, OfferInv, CallTyped, ReqTyped, PlaceInv,
     ServedInv, Unended, Deciding, InviteReturns, Runs, StillWanted, Bridged, Upserted, FailsClosing,
     OwnReleased, callVars, offerVars, legVars, pastVars, Served
<1> QED BY <1>1, <1>2, <1>3, <1>4, <1>5, <1>6, <1>7 DEF Coherent

\* The final answer of the far end.
LEMMA FinalReturnsStep ==
    ASSUME Typed, Coherent, FinalReturns
    PROVE  Coherent'
<1>1. RelayInv' /\ OfferInv' /\ EndInv' /\ ServedInv'
  BY DEF Typed, Coherent, TaskTyped, WinnerInv, RelayInv, OfferInv, EndInv, ServedInv, Unended,
     Deciding, FinalReturns, Runs, callVars, FailsClosing, OwnReleased, offerVars, legVars, pastVars,
     Served
<1>2. WinnerInv'
  BY ForwardConstants DEF Typed, Coherent, PlaceTyped, LegTyped, WinnerInv, FinalReturns, Runs,
     callVars, FailsClosing, OwnReleased, offerVars, legVars, pastVars
<1>3. RequestInv'
  <2>1. pc # "none" /\ pc' # "none" /\ UNCHANGED <<claimed, req, cancelled, route, term, hang>>
    BY DEF FinalReturns, Runs, FailsClosing, callVars, pastVars
  <2> QED BY <2>1 DEF Typed, Coherent, RequestInv, Deciding
<1>4. PlaceInv'
  BY ForwardConstants DEF Typed, Coherent, WinnerInv, MediaTyped, PlaceTyped, PlaceInv, FinalReturns,
     Runs, callVars, FailsClosing, OwnReleased, offerVars, legVars, pastVars
<1>5. BridgeInv'
  BY ForwardConstants DEF Typed, Coherent, WinnerInv, LegTyped, MediaTyped, PlaceTyped, PlaceInv,
     BridgeInv, FinalReturns, Runs, callVars, FailsClosing, OwnReleased, offerVars, legVars, pastVars
<1>6. LegInv'
  BY DEF Typed, Coherent, PlaceTyped, LegTyped, PlaceInv, LegInv, TaskLegs, Open, FinalReturns, Runs,
     callVars, FailsClosing, OwnReleased, offerVars, legVars, pastVars
<1> QED BY <1>1, <1>2, <1>3, <1>4, <1>5, <1>6 DEF Coherent

\* The relay has the ports of both sides, and the leg none of its own.
LEMMA RelayStartsStep ==
    ASSUME Typed, Coherent, RelayStarts
    PROVE  Coherent'
<1>1. WinnerInv' /\ RequestInv' /\ PlaceInv' /\ BridgeInv' /\ RelayInv' /\ OfferInv' /\ EndInv'
  BY DEF Typed, Coherent, WinnerInv, RequestInv, PlaceInv, BridgeInv, RelayInv, OfferInv, EndInv,
     Deciding, RelayStarts, Runs, Upserted, offerVars, pastVars
<1>2. LegInv'
  BY DEF Typed, Coherent, LegInv, TaskLegs, Open, RelayStarts, Runs, Upserted, offerVars, pastVars
<1>3. ServedInv'
  BY DEF Typed, Coherent, PlaceInv, ServedInv, Unended, Deciding, RelayStarts, Runs, Upserted,
     offerVars, pastVars, Served
<1> QED BY <1>1, <1>2, <1>3 DEF Coherent

\* A start that fails gives the ports back.
LEMMA RelayFailsStep ==
    ASSUME Typed, Coherent, RelayFails
    PROVE  Coherent'
<1>1. WinnerInv' /\ RequestInv' /\ PlaceInv' /\ RelayInv' /\ OfferInv' /\ EndInv' /\ ServedInv'
  BY DEF Typed, Coherent, WinnerInv, RequestInv, PlaceInv, RelayInv, OfferInv, EndInv, ServedInv,
     Deciding, Unended, RelayFails, Runs, callVars, offerVars, pastVars, Served
<1>2. BridgeInv'
  BY ForwardConstants DEF Typed, Coherent, BridgeInv, RelayFails, Runs, callVars, offerVars, pastVars
<1>3. LegInv'
  BY DEF Typed, Coherent, PlaceInv, LegInv, TaskLegs, Open, RelayFails, Runs, callVars, offerVars,
     pastVars
<1> QED BY <1>1, <1>2, <1>3 DEF Coherent

\* The winner of a group whose relay failed is closed.
LEMMA WinnerClosedStep ==
    ASSUME Typed, Coherent, WinnerClosed
    PROVE  Coherent'
<1>1. WinnerInv' /\ RequestInv' /\ PlaceInv' /\ BridgeInv' /\ RelayInv' /\ OfferInv' /\ EndInv'
  BY DEF Typed, Coherent, WinnerInv, RequestInv, PlaceInv, BridgeInv, RelayInv, OfferInv, EndInv,
     Deciding, WinnerClosed, Runs, Closed, RestoreOrTerminate, Resumes, OwnReleased, SourceTold,
     FinishAndPop, TaskEnds, offerVars, pastVars
<1>2. LegInv'
  BY DEF Typed, Coherent, LegInv, TaskLegs, Open, WinnerClosed, Runs, Closed, RestoreOrTerminate,
     Resumes, OwnReleased, SourceTold, FinishAndPop, TaskEnds, offerVars, pastVars
<1>3. ServedInv'
  BY DEF Typed, Coherent, PlaceInv, TaskTyped, PlaceTyped, OfferInv, ReqTyped, CallTyped, ServedInv,
     Unended, Deciding, WinnerClosed, Runs, Closed, RestoreOrTerminate, Resumes, OwnReleased,
     SourceTold, FinishAndPop, TaskEnds, offerVars, pastVars, Served
<1> QED BY <1>1, <1>2, <1>3 DEF Coherent

\* The far end hangs up: the task waits for itself, or has lost its bridge to who ends the call.
LEMMA CalleeEndsStep ==
    ASSUME Typed, Coherent, CalleeEnds
    PROVE  Coherent'
<1>1. WinnerInv' /\ PlaceInv' /\ RelayInv' /\ OfferInv' /\ EndInv'
  BY DEF Typed, Coherent, WinnerInv, PlaceInv, RelayInv, OfferInv, EndInv, CalleeEnds, Runs, TaskEnds,
     callVars, offerVars, legVars, pastVars
<1>2. RequestInv'
  BY DEF Typed, Coherent, RequestInv, BridgeInv, Deciding, CalleeEnds, Runs, TaskEnds, callVars,
     offerVars, legVars, pastVars
<1>3. BridgeInv'
  BY ForwardConstants DEF Typed, Coherent, BridgeInv, CalleeEnds, Runs, TaskEnds, callVars, offerVars,
     legVars, pastVars
<1>4. LegInv'
  BY DEF Typed, Coherent, BridgeInv, LegInv, TaskLegs, Open, CalleeEnds, Runs, TaskEnds, callVars,
     offerVars, legVars, pastVars
<1>5. ServedInv'
  BY DEF Typed, Coherent, PlaceInv, BridgeInv, ServedInv, Unended, Deciding, CalleeEnds, Runs, TaskEnds,
     callVars, offerVars, legVars, pastVars, Served
<1> QED BY <1>1, <1>2, <1>3, <1>4, <1>5 DEF Coherent

\* A failure is turned into what the policy says.
LEMMA FailureClosedStep ==
    ASSUME Typed, Coherent, FailureClosed
    PROVE  Coherent'
<1>1. WinnerInv' /\ RequestInv' /\ PlaceInv' /\ BridgeInv' /\ RelayInv' /\ OfferInv' /\ EndInv'
  BY DEF Typed, Coherent, WinnerInv, RequestInv, PlaceInv, BridgeInv, RelayInv, OfferInv, EndInv,
     Deciding, FailureClosed, Runs, Closed, Open, RestoreOrTerminate, Resumes, OwnReleased, SourceTold,
     FinishAndPop, TaskEnds, offerVars, pastVars
<1>2. LegInv'
  BY DEF Typed, Coherent, LegInv, TaskLegs, Open, FailureClosed, Runs, Closed, RestoreOrTerminate,
     Resumes, OwnReleased, SourceTold, FinishAndPop, TaskEnds, offerVars, pastVars
<1>3. ServedInv'
  BY DEF Typed, Coherent, PlaceInv, TaskTyped, PlaceTyped, OfferInv, ReqTyped, CallTyped, ServedInv,
     Unended, Deciding, FailureClosed, Runs, Closed, Open, RestoreOrTerminate, Resumes, OwnReleased,
     SourceTold, FinishAndPop, TaskEnds, offerVars, pastVars, Served
<1> QED BY <1>1, <1>2, <1>3 DEF Coherent

\* Assist has the call, and no task has it any more.
LEMMA AssistStartsStep ==
    ASSUME Typed, Coherent, AssistStarts
    PROVE  Coherent'
<1>1. WinnerInv' /\ RequestInv' /\ PlaceInv' /\ RelayInv' /\ OfferInv' /\ EndInv'
  BY DEF Typed, Coherent, WinnerInv, RequestInv, PlaceInv, RelayInv, OfferInv, EndInv, Deciding,
     AssistStarts, Runs, Upserted, TaskEnds, offerVars, legVars, pastVars
<1>2. BridgeInv'
  BY ForwardConstants DEF Typed, Coherent, BridgeInv, AssistStarts, Runs, Upserted, TaskEnds, offerVars,
     legVars, pastVars
<1>3. LegInv'
  BY DEF Typed, Coherent, LegInv, TaskLegs, Open, AssistStarts, Runs, Upserted, TaskEnds, offerVars,
     legVars, pastVars
<1>4. ServedInv'
  BY DEF Typed, Coherent, PlaceInv, ServedInv, Unended, Deciding, AssistStarts, Runs, Upserted,
     TaskEnds, offerVars, legVars, pastVars, Served
<1> QED BY <1>1, <1>2, <1>3, <1>4 DEF Coherent

\* Assist does not start.
LEMMA AssistFailsStep ==
    ASSUME Typed, Coherent, AssistFails
    PROVE  Coherent'
<1>1. WinnerInv' /\ RequestInv' /\ PlaceInv' /\ BridgeInv' /\ RelayInv' /\ OfferInv' /\ EndInv'
  BY DEF Typed, Coherent, WinnerInv, RequestInv, PlaceInv, BridgeInv, RelayInv, OfferInv, EndInv,
     Deciding, AssistFails, Runs, FailsNow, RestoreOrTerminate, Resumes, OwnReleased, SourceTold,
     FinishAndPop, TaskEnds, offerVars, legVars, pastVars
<1>2. LegInv'
  BY DEF Typed, Coherent, LegInv, TaskLegs, Open, AssistFails, Runs, FailsNow, RestoreOrTerminate,
     Resumes, OwnReleased, SourceTold, FinishAndPop, TaskEnds, offerVars, legVars, pastVars
<1>3. ServedInv'
  BY DEF Typed, Coherent, PlaceInv, TaskTyped, PlaceTyped, OfferInv, ReqTyped, CallTyped, ServedInv,
     Unended, Deciding, AssistFails, Runs, FailsNow, RestoreOrTerminate, Resumes, OwnReleased,
     SourceTold, FinishAndPop, TaskEnds, offerVars, legVars, pastVars, Served
<1> QED BY <1>1, <1>2, <1>3 DEF Coherent

-----------------------------------------------------------------------------
(* The ring group of a forward, and the phones *)

\* The wait of a group ends, with a winner whose leg is up, a phone, or nobody.
LEMMA ForkEndsStep ==
    ASSUME Typed, Coherent, ForkEnds
    PROVE  Coherent'
<1>1. WinnerInv' /\ RequestInv' /\ BridgeInv' /\ RelayInv' /\ EndInv'
  BY DEF Typed, Coherent, CallTyped, MediaTyped, ReqTyped, PlaceTyped, LegTyped, WinnerInv, RequestInv,
     BridgeInv, RelayInv, EndInv, Deciding, Unended, ForkEnds, Runs, callVars, offerVars, legVars,
     mediaVars, pastVars, Served
<1>2. PlaceInv'
  BY ForwardConstants DEF Typed, Coherent, TaskTyped, PlaceInv, Deciding, Unended, ForkEnds, Runs,
     callVars, offerVars, legVars, mediaVars, pastVars, Served
<1>3. OfferInv'
  BY DEF Typed, Coherent, TaskTyped, OfferInv, Deciding, Unended, ForkEnds, Runs, callVars, offerVars,
     legVars, mediaVars, pastVars, Served
<1>4. ServedInv'
  BY DEF Typed, Coherent, PlaceInv, TaskTyped, ServedInv, Deciding, Unended, ForkEnds, Runs, callVars,
     offerVars, legVars, mediaVars, pastVars, Served
<1>5. LegInv'
  BY ForwardConstants DEF Typed, Coherent, TaskTyped, LegInv, TaskLegs, Open, ForkEnds, Runs, callVars,
     offerVars, legVars, mediaVars, pastVars
<1> QED BY <1>1, <1>2, <1>3, <1>4, <1>5 DEF Coherent

\* A phone rings alone and the other legs are shed, or the losing legs are closed.
LEMMA DialsJoinedStep ==
    ASSUME Typed, Coherent, DialsJoined
    PROVE  Coherent'
<1>1. WinnerInv' /\ RequestInv' /\ PlaceInv' /\ BridgeInv' /\ RelayInv' /\ OfferInv' /\ EndInv'
  BY DEF Typed, Coherent, WinnerInv, RequestInv, PlaceInv, BridgeInv, RelayInv, OfferInv, EndInv,
     Deciding, DialsJoined, Runs, Losers, Open, Upserted, mediaVars, pastVars
<1>2. LegInv'
  BY ForwardConstants DEF Typed, Coherent, LegInv, TaskLegs, Open, DialsJoined, Runs, Losers, Upserted,
     mediaVars, pastVars
<1>3. ServedInv'
  <2>1. /\ pc = "dialsJoin" /\ pc' \in {"losers", "commit"} /\ ~cancelled'
        /\ UNCHANGED <<source, term, hang, closed, route>>
        /\ owner' \in {owner, "ha_softphone"} /\ session' \in {session, "live"}
        /\ pending' = pending \/ pending' = TRUE
    BY DEF DialsJoined, Runs, Upserted, pastVars
  <2>2. route # "refused" BY <2>1 DEF Typed, Coherent, PlaceInv
  <2> SUFFICES ASSUME Unended' PROVE ServedInv' BY DEF ServedInv
  <2>3. Unended BY <2>1 DEF Unended
  <2>4. session = "live" /\ ~closed /\ owner # "terminal" /\ pending = TRUE
    BY <2>1, <2>3 DEF Typed, Coherent, FlagsTyped, ServedInv, Served
  <2> QED BY <2>1, <2>2, <2>4 DEF ServedInv, Served
<1> QED BY <1>1, <1>2, <1>3 DEF Coherent

\* Only the leg of the winner is left: it is bridged, or the offer is handed over, or the
\* caller is served.
LEMMA LosersClosedStep ==
    ASSUME Typed, Coherent, LosersClosed
    PROVE  Coherent'
<1>1. PlaceInv' /\ OfferInv' /\ EndInv'
  <2>1. PlaceInv'
    BY DEF Typed, Coherent, PlaceTyped, PlaceInv, LosersClosed, Runs, Closed, Losers,
       Open, Bridged, Upserted, TaskEnds, RestoreOrTerminate, Resumes, OwnReleased, SourceTold,
       FinishAndPop, Rerouted, pastVars
  <2>2. OfferInv'
    BY DEF Typed, Coherent, ReqTyped, PlaceInv, OfferInv, LosersClosed, Runs, Closed, Losers,
       Open, Bridged, Upserted, TaskEnds, RestoreOrTerminate, Resumes, OwnReleased, SourceTold,
       FinishAndPop, Rerouted, pastVars
  <2>3. EndInv'
    BY DEF Typed, Coherent, EndInv, LosersClosed, Runs, Closed, Losers,
       Open, Bridged, Upserted, TaskEnds, RestoreOrTerminate, Resumes, OwnReleased, SourceTold,
       FinishAndPop, Rerouted, pastVars
  <2> QED BY <2>1, <2>2, <2>3
<1>2. WinnerInv'
  BY DEF Typed, Coherent, WinnerInv, LegInv, TaskLegs, Open, LosersClosed, Runs, Closed, Losers,
     Bridged, Upserted, TaskEnds, RestoreOrTerminate, Resumes, OwnReleased, SourceTold, FinishAndPop,
     pastVars
<1>3. RequestInv'
  <2>1. /\ pc = "losers" /\ UNCHANGED <<req, route, term, hang>>
        /\ \/ pc' = "relay" /\ UNCHANGED <<claimed, cancelled>>
           \/ pc' = "none" /\ claimed' = FALSE /\ cancelled' = FALSE
    BY DEF LosersClosed, Runs, TaskEnds, pastVars
  <2>2. route # "refused" BY <2>1 DEF Typed, Coherent, PlaceInv
  <2> QED BY <2>1, <2>2 DEF Typed, Coherent, RequestInv, Deciding
<1>4. BridgeInv'
  BY ForwardConstants DEF Typed, Coherent, BridgeInv, LosersClosed, Runs, Closed, Losers, Open, Bridged,
     Upserted, TaskEnds, RestoreOrTerminate, Resumes, OwnReleased, SourceTold, FinishAndPop, pastVars
<1>5. RelayInv'
  <2>1. /\ pc = "losers" /\ UNCHANGED <<term, hang>>
        /\ relay \in {"none", "orphan"} /\ hang \notin {"bye", "silent"} /\ pair \notin {"relay", "phone"}
    BY DEF Typed, Coherent, RelayInv, MediaTyped, LosersClosed, Runs, pastVars
  <2>2. CASE pc' = "relay"
    <3>1. relay' = "starting" /\ pair' = pair BY <2>2 DEF LosersClosed, TaskEnds, pastVars
    <3> QED BY <2>1, <2>2, <3>1 DEF RelayInv
  <2>3. CASE pc' # "relay"
    <3>1. pc' = "none" /\ relay' = relay /\ (pair' = "free" \/ pair' \in {pair} \ {"forward"})
      <4>1. Rerouted => pair # "forward"
        BY <2>1 DEF Coherent, OfferInv, Rerouted
      <4> QED BY <2>3, <4>1 DEF LosersClosed, TaskEnds, RestoreOrTerminate, OwnReleased, pastVars
    <3> QED BY <2>1, <2>3, <3>1 DEF RelayInv
  <2> QED BY <2>2, <2>3
<1>6. LegInv'
  BY ForwardConstants DEF Typed, Coherent, LegInv, TaskLegs, Open, LosersClosed, Runs, Closed, Losers,
     Bridged, Upserted, TaskEnds, RestoreOrTerminate, Resumes, OwnReleased, SourceTold, FinishAndPop,
     pastVars
<1>7. ServedInv'
  <2> SUFFICES ASSUME Unended' PROVE ServedInv' BY DEF ServedInv
  <2>1. /\ pc = "losers" /\ ~cancelled /\ UNCHANGED <<term, hang, closed, route>>
    BY DEF LosersClosed, Runs, TaskEnds, pastVars
  <2>c. winner \in Members \/ winner = Nobody
    BY <2>1 DEF Typed, TaskTyped, Coherent, PlaceInv
  <2>b. source' # "over" BY DEF Unended
  <2>a. route # "refused" BY <2>1 DEF Typed, Coherent, PlaceInv
  <2>2. /\ Unended /\ session = "live" /\ ~closed /\ owner # "terminal" /\ pending
    <3>1. source' = source \/ source' = "over" BY DEF LosersClosed, RestoreOrTerminate, SourceTold,
       pastVars
    <3> QED BY <2>1, <2>b, <3>1 DEF Typed, Coherent, ServedInv, Unended, Served
  <2>3. CASE winner \in Members
    <3>1. /\ pc' = "relay" /\ pending' = pending /\ owner' = "bridge" /\ session' = "live"
          /\ cancelled' = cancelled
      BY <2>3, ForwardConstants DEF LosersClosed, Bridged, Upserted, pastVars
    <3> QED BY <2>1, <2>a, <2>2, <3>1 DEF ServedInv, Served
  <2>4. CASE winner \notin Members /\ Rerouted
    <3>1. /\ pc' = "none" /\ cancelled' = FALSE /\ offer' = "handed"
          /\ UNCHANGED <<pending, owner, session>>
      BY <2>4, <2>c DEF LosersClosed, TaskEnds
    <3> QED BY <2>1, <2>a, <2>2, <3>1 DEF ServedInv, Served
  <2>5. CASE winner \notin Members /\ ~Rerouted
    <3>1. /\ pc' = "none" /\ cancelled' = FALSE /\ RestoreOrTerminate /\ offer' = "none"
      BY <2>5, <2>c DEF LosersClosed, TaskEnds
    <3>2. Resumes BY <2>b, <3>1 DEF RestoreOrTerminate, SourceTold, pastVars
    <3>3. pending' = pending /\ session' = session /\ owner' = "ha_softphone"
      BY <2>2, <3>1, <3>2 DEF RestoreOrTerminate, Typed, Coherent, CallTyped, pastVars
    <3> QED BY <2>1, <2>a, <2>2, <3>1, <3>3 DEF ServedInv, Served
  <2> QED BY <2>3, <2>4, <2>5
<1> QED BY <1>1, <1>2, <1>3, <1>4, <1>5, <1>6, <1>7 DEF Coherent

\* The losing legs of a phone's answer are closed, none of which a task has.
LEMMA ShedClosedStep ==
    ASSUME Typed, Coherent, ShedClosed
    PROVE  Coherent'
<1>1. RequestInv' /\ PlaceInv' /\ BridgeInv' /\ RelayInv' /\ OfferInv' /\ EndInv' /\ ServedInv'
  BY DEF Typed, Coherent, RequestInv, PlaceInv, BridgeInv, RelayInv, OfferInv, EndInv, ServedInv,
     Deciding, Unended, ShedClosed, Closed, callVars, offerVars, taskVars, mediaVars, pastVars, Served
<1>2. WinnerInv'
  BY DEF Typed, Coherent, PlaceTyped, LegTyped, WinnerInv, LegInv, TaskLegs, Open, ShedClosed, Closed,
     callVars, offerVars, taskVars, mediaVars, pastVars
<1>3. LegInv'
  BY DEF Typed, Coherent, LegInv, TaskLegs, Open, ShedClosed, Closed, callVars, offerVars, taskVars,
     mediaVars, pastVars
<1> QED BY <1>1, <1>2, <1>3 DEF Coherent

\* The phone that won answers, or the caller rings on.
LEMMA CommitEndsStep ==
    ASSUME Typed, Coherent, CommitEnds
    PROVE  Coherent'
<1>1. WinnerInv' /\ RequestInv' /\ PlaceInv' /\ BridgeInv' /\ RelayInv' /\ OfferInv' /\ EndInv'
  BY DEF Typed, Coherent, WinnerInv, RequestInv, PlaceInv, BridgeInv, RelayInv, OfferInv, EndInv,
     Deciding, CommitEnds, Runs, Answers, FinishAndPop, RestoreOrTerminate, Resumes, OwnReleased,
     SourceTold, TaskEnds, offerVars, legVars, pastVars
<1>2. LegInv'
  BY DEF Typed, Coherent, LegInv, TaskLegs, Open, CommitEnds, Runs, Answers, FinishAndPop,
     RestoreOrTerminate, Resumes, OwnReleased, SourceTold, TaskEnds, offerVars, legVars, pastVars
<1>3. ServedInv'
  BY DEF Typed, Coherent, PlaceInv, TaskTyped, PlaceTyped, OfferInv, ReqTyped, CallTyped, ServedInv,
     Unended, Deciding, CommitEnds, Runs, Answers, FinishAndPop, RestoreOrTerminate, Resumes,
     OwnReleased, SourceTold, TaskEnds, offerVars, legVars, pastVars, Served
<1> QED BY <1>1, <1>2, <1>3 DEF Coherent

\* A phone answers the call, or the offer of a group.
LEMMA PhoneAnswersStep ==
    ASSUME Typed, Coherent, PhoneAnswers
    PROVE  Coherent'
<1>1. WinnerInv' /\ RequestInv' /\ PlaceInv' /\ BridgeInv' /\ RelayInv' /\ OfferInv' /\ EndInv'
  BY DEF Typed, Coherent, WinnerInv, RequestInv, PlaceInv, BridgeInv, RelayInv, OfferInv, EndInv,
     Deciding, PhoneAnswers, Answer, callVars, MayAnswer, Answers, FinishAndPop, offerVars, taskVars,
     legVars, pastVars
<1>2. LegInv'
  BY DEF Typed, Coherent, LegInv, TaskLegs, Open, PhoneAnswers, Answer, callVars, MayAnswer, Answers,
     FinishAndPop, offerVars, taskVars, legVars, pastVars
<1>3. ServedInv'
  BY DEF Typed, Coherent, RequestInv, ServedInv, Unended, Deciding, PhoneAnswers, Answer, callVars,
     MayAnswer, Answers, FinishAndPop, offerVars, taskVars, legVars, pastVars, Served
<1> QED BY <1>1, <1>2, <1>3 DEF Coherent

-----------------------------------------------------------------------------
(* The cancellation of the task *)

\* The cancellation ends an await; what was reserved goes back or is closed in "unwind".
LEMMA InterruptedStep ==
    ASSUME Typed, Coherent, Interrupted
    PROVE  Coherent'
<1>1. WinnerInv' /\ PlaceInv' /\ RelayInv' /\ OfferInv' /\ EndInv' /\ ServedInv'
  BY DEF Typed, Coherent, WinnerInv, PlaceInv, RelayInv, OfferInv, EndInv, ServedInv, Unended, Deciding,
     Interrupted, Interruptible, OwnReleased, mediaVars, TaskEnds, callVars, pastVars, Served
<1>2. RequestInv'
  <2>1. /\ pc # "none" /\ UNCHANGED <<req, route, term, hang>>
        /\ \/ pc' = "unwind" /\ UNCHANGED <<claimed, cancelled>>
           \/ pc' = "none" /\ claimed' = FALSE /\ cancelled' = FALSE
    BY DEF Interrupted, Interruptible, TaskEnds, pastVars
  <2>2. claimed /\ route # "refused" /\ \A r \in Requests : ~Deciding(r)
    BY <2>1 DEF Typed, Coherent, RequestInv
  <2>3. \A r \in Requests : ~Deciding(r)' BY <2>1, <2>2 DEF Deciding
  <2> QED BY <2>1, <2>2, <2>3 DEF RequestInv
<1>3. BridgeInv'
  <2>1. /\ session' = session
        /\ \/ pc' = "unwind" /\ index' = Nobody /\ watcher' = FALSE
           \/ pc' = "unwind" /\ pc = "fork" /\ UNCHANGED <<index, watcher>>
           \/ pc' = "none" /\ pc \in {"assist", "commit"} /\ index' = index /\ watcher' = FALSE
    BY DEF Interrupted, TaskEnds, callVars, mediaVars, pastVars
  <2> QED BY <2>1, ForwardConstants DEF Typed, Coherent, BridgeInv
<1>4. LegInv'
  BY ForwardConstants DEF Typed, Coherent, PlaceTyped, LegTyped, PlaceInv, LegInv, TaskLegs, Open,
     Interrupted, Interruptible, OwnReleased, mediaVars, TaskEnds, callVars, pastVars
<1> QED BY <1>1, <1>2, <1>3, <1>4 DEF Coherent

\* The cleanup of a cancelled task has ended.
LEMMA UnwoundStep ==
    ASSUME Typed, Coherent, Unwound
    PROVE  Coherent'
<1>1. WinnerInv' /\ RequestInv' /\ PlaceInv' /\ BridgeInv' /\ RelayInv' /\ OfferInv' /\ EndInv' /\
      ServedInv'
  BY DEF Typed, Coherent, WinnerInv, RequestInv, PlaceInv, BridgeInv, RelayInv, OfferInv, EndInv,
     ServedInv, Deciding, Unended, Unwound, Closed, Open, Losers, OwnReleased, TaskEnds, callVars,
     offerVars, pastVars, Served
<1>2. LegInv'
  BY ForwardConstants DEF Typed, Coherent, PlaceInv, LegInv, TaskLegs, Open, Unwound, Closed, Losers,
     OwnReleased, TaskEnds, callVars, offerVars, pastVars
<1> QED BY <1>1, <1>2 DEF Coherent

-----------------------------------------------------------------------------
(* The ends of the call *)

\* The task is joined, and what the registry holds of the call is taken out of it.
LEMMA TermTakesStep ==
    ASSUME Typed, Coherent, TermTakes
    PROVE  Coherent'
<1>1. WinnerInv' /\ RequestInv' /\ PlaceInv' /\ ServedInv'
  BY DEF Typed, Coherent, WinnerInv, RequestInv, PlaceInv, ServedInv, Deciding, Unended, TermTakes,
     TaskJoined, Taken, Given, taskVars, legVars, pastVars, Served
<1>2. BridgeInv'
  BY ForwardConstants DEF Typed, Coherent, PlaceInv, BridgeInv, TermTakes, TaskJoined, Taken, Given,
     taskVars, legVars, pastVars
<1>3. RelayInv'
  BY DEF Typed, Coherent, MediaTyped, PlaceInv, BridgeInv, RelayInv, TermTakes, TaskJoined, Taken,
     Given, taskVars, legVars, pastVars
<1>4. OfferInv'
  BY DEF Typed, Coherent, PlaceInv, OfferInv, TermTakes, TaskJoined, Taken, Given, taskVars, legVars,
     pastVars
<1>5. LegInv'
  BY DEF Typed, Coherent, LegInv, TaskLegs, Open, TermTakes, TaskJoined, Taken, Given, taskVars,
     legVars, pastVars
<1>6. EndInv'
  BY DEF Typed, Coherent, MediaTyped, PlaceInv, EndInv, TermTakes, TaskJoined, Taken, Given, taskVars,
     legVars, pastVars
<1> QED BY <1>1, <1>2, <1>3, <1>4, <1>5, <1>6 DEF Coherent

\* The call is removed.
LEMMA TermEndsStep ==
    ASSUME Typed, Coherent, TermEnds
    PROVE  Coherent'
<1>1. WinnerInv' /\ RequestInv' /\ PlaceInv' /\ RelayInv' /\ OfferInv' /\ EndInv' /\ ServedInv'
  BY DEF Typed, Coherent, WinnerInv, RequestInv, PlaceInv, RelayInv, OfferInv, EndInv, ServedInv,
     Deciding, Unended, TermEnds, FinishAndPop, offerVars, taskVars, legVars, pastVars, Served
<1>2. BridgeInv'
  BY DEF Typed, Coherent, BridgeInv, EndInv, TermEnds, FinishAndPop, offerVars, taskVars, legVars,
     pastVars
<1>3. LegInv'
  BY DEF Typed, Coherent, LegInv, TaskLegs, Open, TermEnds, FinishAndPop, offerVars, taskVars, legVars,
     pastVars
<1> QED BY <1>1, <1>2, <1>3 DEF Coherent

\* The caller leaves; what is left of the call is taken at once or once the task is joined.
LEMMA CallerEndsStep ==
    ASSUME Typed, Coherent, CallerEnds
    PROVE  Coherent'
<1>1. WinnerInv' /\ RequestInv' /\ PlaceInv' /\ RelayInv' /\ OfferInv' /\ ServedInv'
  BY DEF Typed, Coherent, WinnerInv, RequestInv, PlaceInv, RelayInv, OfferInv, ServedInv, Deciding,
     Unended, CallerEnds, Taken, Given, legVars, pastVars, Served
<1>2. BridgeInv'
  BY ForwardConstants DEF Typed, Coherent, BridgeInv, CallerEnds, Taken, Given, legVars, pastVars
<1>3. LegInv'
  BY DEF Typed, Coherent, LegInv, TaskLegs, Open, CallerEnds, Taken, Given, legVars, pastVars
<1>4. EndInv'
  BY DEF Typed, Coherent, MediaTyped, EndInv, CallerEnds, Taken, Given, legVars, pastVars
<1> QED BY <1>1, <1>2, <1>3, <1>4 DEF Coherent

\* The hangup service joins the task, then takes the bridge, the relay or the INVITE.
LEMMA HangupStep ==
    ASSUME Typed, Coherent, Hangup
    PROVE  Coherent'
<1>1. WinnerInv' /\ RequestInv' /\ PlaceInv' /\ EndInv' /\ ServedInv'
  BY DEF Typed, Coherent, WinnerInv, RequestInv, PlaceInv, EndInv, ServedInv, Deciding, Unended, Hangup,
     HangTakes, Given, FinishAndPop, TaskJoined, legVars, pastVars, Served
<1>2. BridgeInv'
  BY ForwardConstants DEF Typed, Coherent, PlaceInv, BridgeInv, Hangup, HangTakes, Given, FinishAndPop,
     TaskJoined, legVars, pastVars
<1>3. RelayInv'
  BY DEF Typed, Coherent, MediaTyped, PlaceInv, BridgeInv, RelayInv, Hangup, HangTakes, Given,
     FinishAndPop, TaskJoined, legVars, pastVars
<1>4. OfferInv'
  BY DEF Typed, Coherent, PlaceInv, OfferInv, Hangup, HangTakes, Given, FinishAndPop, TaskJoined,
     legVars, pastVars
<1>5. LegInv'
  BY DEF Typed, Coherent, LegInv, TaskLegs, Open, Hangup, HangTakes, Given, FinishAndPop, TaskJoined,
     legVars, pastVars
<1> QED BY <1>1, <1>2, <1>3, <1>4, <1>5 DEF Coherent

\* The hangup service has closed what it took.
LEMMA HangupEndsStep ==
    ASSUME Typed, Coherent, HangupEnds
    PROVE  Coherent'
<1>1. WinnerInv' /\ RequestInv' /\ PlaceInv' /\ RelayInv' /\ OfferInv' /\ EndInv' /\ ServedInv'
  BY DEF Typed, Coherent, WinnerInv, RequestInv, PlaceInv, RelayInv, OfferInv, EndInv, ServedInv,
     Deciding, Unended, HangupEnds, FinishAndPop, offerVars, taskVars, legVars, pastVars, Served
<1>2. BridgeInv'
  BY ForwardConstants DEF Typed, Coherent, BridgeInv, RelayInv, HangupEnds, FinishAndPop, offerVars,
     taskVars, legVars, pastVars
<1>3. LegInv'
  BY DEF Typed, Coherent, LegInv, TaskLegs, Open, HangupEnds, FinishAndPop, offerVars, taskVars,
     legVars, pastVars
<1> QED BY <1>1, <1>2, <1>3 DEF Coherent

\* The pipeline ends the call.
LEMMA AssistEndsStep ==
    ASSUME Typed, Coherent, AssistEnds
    PROVE  Coherent'
<1>1. WinnerInv' /\ RequestInv' /\ PlaceInv' /\ OfferInv' /\ EndInv' /\ ServedInv'
  BY DEF Typed, Coherent, WinnerInv, RequestInv, PlaceInv, OfferInv, EndInv, ServedInv, Deciding,
     Unended, AssistEnds, SourceTold, FinishAndPop, offerVars, taskVars, legVars, pastVars, Served
<1>2. BridgeInv'
  BY ForwardConstants DEF Typed, Coherent, BridgeInv, AssistEnds, SourceTold, FinishAndPop, offerVars,
     taskVars, legVars, pastVars
<1>3. RelayInv'
  BY DEF Typed, Coherent, BridgeInv, RelayInv, AssistEnds, SourceTold, FinishAndPop, offerVars,
     taskVars, legVars, pastVars
<1>4. LegInv'
  BY DEF Typed, Coherent, LegInv, TaskLegs, Open, AssistEnds, SourceTold, FinishAndPop, offerVars,
     taskVars, legVars, pastVars
<1> QED BY <1>1, <1>2, <1>3, <1>4 DEF Coherent

\* The barrier of the session cancels the task that the session watches.
LEMMA BarrierStartsStep ==
    ASSUME Typed, Coherent, BarrierStarts
    PROVE  Coherent'
<1>1. WinnerInv'
  BY DEF Typed, Coherent, WinnerInv, BarrierStarts, offerVars, legVars, mediaVars, pastVars
<1>2. PlaceInv'
  BY DEF Typed, Coherent, PlaceInv, BarrierStarts, offerVars, legVars, mediaVars, pastVars
<1>3. BridgeInv'
  BY DEF Typed, Coherent, BridgeInv, BarrierStarts, offerVars, legVars, mediaVars, pastVars
<1>4. RelayInv'
  BY DEF Typed, Coherent, RelayInv, BarrierStarts, offerVars, legVars, mediaVars, pastVars
<1>5. OfferInv'
  BY DEF Typed, Coherent, OfferInv, BarrierStarts, offerVars, legVars, mediaVars, pastVars
<1>6. EndInv'
  BY DEF Typed, Coherent, EndInv, BarrierStarts, offerVars, legVars, mediaVars, pastVars
<1>7. ServedInv'
  BY DEF Typed, Coherent, ServedInv, Unended, Deciding, BarrierStarts, offerVars, legVars, mediaVars,
     pastVars, Served
<1>8. RequestInv'
  BY DEF Typed, Coherent, RequestInv, BridgeInv, Deciding, BarrierStarts, offerVars, legVars, mediaVars,
     pastVars
<1>9. LegInv'
  BY DEF Typed, Coherent, LegInv, TaskLegs, Open, BarrierStarts, offerVars, legVars, mediaVars, pastVars
<1> QED BY <1>1, <1>2, <1>3, <1>4, <1>5, <1>6, <1>7, <1>8, <1>9 DEF Coherent

\* The barrier has closed what the session owned.
LEMMA BarrierEndsStep ==
    ASSUME Typed, Coherent, BarrierEnds
    PROVE  Coherent'
<1>1. RequestInv' /\ PlaceInv' /\ RelayInv' /\ OfferInv' /\ EndInv' /\ ServedInv'
  BY DEF Typed, Coherent, RequestInv, PlaceInv, RelayInv, OfferInv, EndInv, ServedInv, Deciding,
     Unended, BarrierEnds, Closed, Given, taskVars, pastVars, Served
<1>2. WinnerInv'
  BY DEF Typed, Coherent, PlaceTyped, LegTyped, WinnerInv, BridgeInv, BarrierEnds, Closed, Given,
     taskVars, pastVars
<1>3. BridgeInv'
  BY ForwardConstants DEF Typed, Coherent, BridgeInv, BarrierEnds, Closed, Given, taskVars, pastVars
<1>4. LegInv'
  BY DEF Typed, Coherent, BridgeInv, LegInv, TaskLegs, Open, BarrierEnds, Closed, Given, taskVars,
     pastVars
<1> QED BY <1>1, <1>2, <1>3, <1>4 DEF Coherent

-----------------------------------------------------------------------------
(* The theorems *)

\* The invariant holds of a call that rings at its first phone.
LEMMA Initial == ForwardInit => IInv
<1> SUFFICES ASSUME ForwardInit PROVE IInv OBVIOUS
<1>1. FlagsTyped BY DEF ForwardInit, FlagsTyped
<1>2. CallTyped /\ ReqTyped /\ TaskTyped /\ LegTyped /\ MediaTyped /\ PlaceTyped
  BY ForwardConstants DEF ForwardInit, CallTyped, ReqTyped, TaskTyped, LegTyped, MediaTyped, PlaceTyped,
     Routes
<1>3. WinnerInv /\ PlaceInv /\ BridgeInv /\ RelayInv /\ OfferInv
  BY ForwardConstants DEF ForwardInit, WinnerInv, PlaceInv, BridgeInv, RelayInv, OfferInv
<1>4. RequestInv BY DEF ForwardInit, RequestInv, Deciding
<1>5. LegInv BY DEF ForwardInit, LegInv, Open, TaskLegs
<1>6. EndInv /\ ServedInv BY DEF ForwardInit, EndInv, ServedInv, Unended, Served
<1>7. Overtaken BY DEF ForwardInit, Overtaken
<1> QED BY <1>1, <1>2, <1>3, <1>4, <1>5, <1>6, <1>7 DEF IInv, Typed, Coherent

\* A step that changes nothing keeps what holds.
LEMMA StutterStep == Coherent /\ UNCHANGED vars => Coherent'
<1> SUFFICES ASSUME Coherent, UNCHANGED vars PROVE Coherent' OBVIOUS
<1> USE DEF vars, callVars, offerVars, taskVars, legVars, mediaVars, pastVars
<1>1. WinnerInv' /\ PlaceInv' /\ BridgeInv' /\ RelayInv' /\ OfferInv' /\ EndInv'
  BY DEF Coherent, WinnerInv, PlaceInv, BridgeInv, RelayInv, OfferInv, EndInv
<1>2. RequestInv' BY DEF Coherent, RequestInv, Deciding
<1>3. LegInv' BY DEF Coherent, LegInv, Open, TaskLegs
<1>4. ServedInv' BY DEF Coherent, ServedInv, Unended, Deciding, Served
<1> QED BY <1>1, <1>2, <1>3, <1>4 DEF Coherent

\* Until a group or Assist overtakes the end of the call, every step keeps it.
LEMMA CoherentKeeps == Typed /\ Coherent /\ [ForwardNext]_vars => overtaken' \/ Coherent'
<1> SUFFICES ASSUME Typed, Coherent, [ForwardNext]_vars, ~overtaken' PROVE Coherent' OBVIOUS
<1>1. CASE UNCHANGED vars BY <1>1, StutterStep
<1>2. ASSUME NEW r \in Requests, Request(r) PROVE Coherent'
  BY <1>2, ForwardStep, RerouteStep, HandedOffStep, PreviousJoinedStep, RefuseStep, DecidePeerStep,
     DecideAssistStep, DecidePhoneStep, DecideGroupStep, DecideFailsStep DEF Request
<1>3. ASSUME NEW m \in Members, Rings(m) \/ FarEnd(m) \/ TimesOut(m) PROVE Coherent'
  BY <1>3, RingsStep, FarEndStep, TimesOutStep
<1>4. CASE Task
  BY <1>4, InviteReturnsStep, FinalReturnsStep, RelayStartsStep, RelayFailsStep, WinnerClosedStep,
     CalleeEndsStep, FailureClosedStep, AssistStartsStep, AssistFailsStep, ForkEndsStep, DialsJoinedStep,
     LosersClosedStep, CommitEndsStep, InterruptedStep, UnwoundStep DEF Task
<1>5. CASE Ends
  BY <1>5, TermTakesStep, TermEndsStep, HangupEndsStep, BarrierStartsStep, BarrierEndsStep,
     ShedClosedStep DEF Ends
<1>6. CASE PhoneAnswers \/ CallerEnds \/ Hangup \/ AssistEnds
  BY <1>6, PhoneAnswersStep, CallerEndsStep, HangupStep, AssistEndsStep
<1> QED BY <1>1, <1>2, <1>3, <1>4, <1>5, <1>6 DEF ForwardNext

\* What has overtaken the end of the call stays so, as does that end.
LEMMA OvertakenStays ==
    Typed /\ Overtaken /\ [ForwardNext]_vars => (overtaken => overtaken') /\ Overtaken'
<1> SUFFICES ASSUME Typed, Overtaken, [ForwardNext]_vars
             PROVE  (overtaken => overtaken') /\ Overtaken'
  OBVIOUS
<1> USE DEF Typed, MediaTyped, Overtaken
<1>1. ASSUME NEW r \in Requests, Request(r) PROVE  (overtaken => overtaken') /\ Overtaken'
  BY <1>1 DEF Request, Forward, Reroute, HandedOff, PreviousJoined, Refuse, DecidePeer, DecideAssist,
     DecidePhone, DecideGroup, DecideFails, Overtaking, FlagsTyped, pastVars
<1>2. ASSUME NEW m \in Members, Rings(m) \/ FarEnd(m) \/ TimesOut(m)
      PROVE  (overtaken => overtaken') /\ Overtaken'
  BY <1>2 DEF Rings, FarEnd, TimesOut, pastVars
<1>3. CASE Task
  <2>1. UNCHANGED <<overtaken, term>>
    BY <1>3 DEF Task, InviteReturns, FinalReturns, RelayStarts, RelayFails, WinnerClosed, CalleeEnds,
       FailureClosed, AssistStarts, AssistFails, ForkEnds, DialsJoined, LosersClosed, CommitEnds,
       Interrupted, Unwound, pastVars
  <2> QED BY <2>1
<1>4. CASE Ends
  BY <1>4 DEF Ends, TermTakes, Taken, TermEnds, HangupEnds, BarrierStarts, BarrierEnds,
     ShedClosed, pastVars
<1>5. CASE PhoneAnswers \/ CallerEnds \/ Hangup \/ AssistEnds
  BY <1>5 DEF PhoneAnswers, CallerEnds, Taken, Hangup, AssistEnds, pastVars
<1>6. CASE UNCHANGED vars BY <1>6 DEF vars, pastVars
<1> QED BY <1>1, <1>2, <1>3, <1>4, <1>5, <1>6 DEF ForwardNext

\* However requests, far ends, phones, the caller and the hangup service interleave,
\* the types hold, and the forward task, the registry and the ports stay coherent
\* unless a group or Assist overtakes the end of the call.
THEOREM ForwardInvariant == ForwardSpec => []IInv
<1>1. IInv /\ [ForwardNext]_vars => IInv'
  BY TypedKeeps, CoherentKeeps, OvertakenStays DEF IInv
<1> QED BY <1>1, Initial, PTL DEF ForwardSpec

\* The variables of the model keep their types, and a task that bridges has a winner
\* among the far ends (_run_forward of endpoint_runtime.py).
THEOREM ForwardTyped == ForwardSpec => []ForwardTypeOK
<1>1. IInv => ForwardTypeOK
  BY DEF IInv, Typed, ForwardTypeOK, FlagsTyped, CallTyped, ReqTyped, TaskTyped, LegTyped, MediaTyped,
     PlaceTyped
<1> QED BY <1>1, ForwardInvariant, PTL

\* CallerEndLeavesNothing (_on_terminated against _run_forward): a call that its caller
\* has ended leaves no dialog, no relay, no ports and no claim behind, wherever its
\* forward was and whatever request would have replaced it, unless a group or Assist
\* began while the end of the call waited for another task.
THEOREM NothingIsLeft == ForwardSpec => []CallerEndLeavesNothing
<1>1. IInv => CallerEndLeavesNothing
  <2> SUFFICES ASSUME Typed, Coherent, CallerGone
               PROVE  /\ pc = "none" /\ session = "gone" /\ Open \cup held \subseteq lost
                      /\ relay \in {"none", "orphan"} /\ index = Nobody /\ pair = "free" /\ claims = {}
    BY DEF IInv, CallerEndLeavesNothing
  <2>1. pc = "none" /\ session = "gone" /\ index = Nobody /\ claims = {}
    BY DEF CallerGone, Typed, Coherent, EndInv, CallTyped
  <2>2. relay \in {"none", "orphan"} /\ pair = "free"
    BY <2>1 DEF CallerGone, Typed, Coherent, RelayInv, EndInv, MediaTyped
  <2>3. Open \cup held \subseteq lost
    BY <2>1 DEF CallerGone, Coherent, LegInv, TaskLegs
  <2> QED BY <2>1, <2>2, <2>3
<1> QED BY <1>1, ForwardInvariant, PTL

\* CallerIsServed (_restore_or_terminate, and the replacement of a forward that rings):
\* a live source call that nobody works on rings at a phone that may answer, talks to
\* one or to Assist, whatever later requests go to, but for the request that is refused
\* after it has cancelled the forward and the route that a cancelled group leaves.
THEOREM CallerStaysServed == ForwardSpec => []CallerIsServed
<1>1. IInv => CallerIsServed
  BY DEF IInv, Overtaken, Coherent, OfferInv, ServedInv, Unended, Deciding, CallerIsServed, Quiet
<1> QED BY <1>1, ForwardInvariant, PTL

=============================================================================
