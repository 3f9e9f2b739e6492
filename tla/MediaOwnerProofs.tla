-------------------------- MODULE MediaOwnerProofs --------------------------
(***************************************************************************)
(* Proofs about MediaOwner for any number of requests, of browser          *)
(* documents, of leases and of re-INVITEs, and however the requests ask.   *)
(***************************************************************************)
EXTENDS MediaOwner, SequenceTheorems, TLAPS

-----------------------------------------------------------------------------
(* The inductive invariant *)

\* One request at a time waits for a previous owner.
OneHandoff == \A r, o \in Requests : pc[r] = "handoff" /\ pc[o] = "handoff" => r = o

\* While the call rings no request has come further than its first look.
NoSocketBeforeCall == call = "ringing" => \A r \in Requests : pc[r] \in {"new", "refused"}

\* Whoever waits for a previous owner is of the document that has the call.
HandoffIsOfDocument ==
  \A r \in Requests : pc[r] = "handoff" =>
    /\ \A o \in Live : Doc(o) = Doc(r)
    /\ call = "up" /\ ~local => pin = Doc(r)

\* Once the unload has listed the owners, nobody becomes one.
NoneBehindShutdown == phase \in {"waiting", "down"} => Live \subseteq asked

MediaInv ==
  /\ MediaTypeOK
  /\ OneHandoff
  /\ NoSocketBeforeCall
  /\ HandoffIsOfDocument
  /\ SocketsAreOwned
  /\ LiveEdge
  /\ NoneBehindShutdown

\* Before the first request the invariant holds.
LEMMA InitMedia == Init => MediaInv
<1> SUFFICES ASSUME Init PROVE MediaInv
  OBVIOUS
<1> USE MediaAssumption DEF Init
<1>1. Live = {}
  BY DEF Live
<1>2. lease \in Leases \cup {None} /\ answers \in 0..MaxAnswers
  BY DEF Leases, Tokens
<1>3. pin \in Documents \cup {None}
  OBVIOUS
<1>4. queue \in [Channels -> Seq(Tokens)] /\ \A ch \in Channels : Len(queue[ch]) = 0
  OBVIOUS
<1>5. MediaTypeOK
  <2>1. \A ch \in Channels, r \in Requests : owner[ch] # r /\ ~InBody(r)
    BY DEF InBody, Tokens
  <2>2. /\ owner \in [Channels -> Requests \cup {None}] /\ pc \in [Requests -> Places]
        /\ held \in [Requests -> Tokens \cup {None}] /\ seen \in [Requests -> 0..MaxUpdates]
    BY DEF Places
  <2>3. \A ch \in Channels : Len(queue[ch]) <= MaxQueue
    BY <1>4
  <2>4. local \in BOOLEAN /\ callee \in BOOLEAN /\ ask \in Asks
    OBVIOUS
  <2>5. gen \in 0..MaxUpdates
    OBVIOUS
  <2>6. QED
    BY <1>2, <1>3, <1>4, <2>1, <2>2, <2>3, <2>4, <2>5 DEF MediaTypeOK
<1>6. OneHandoff /\ NoSocketBeforeCall /\ HandoffIsOfDocument
  BY DEF OneHandoff, NoSocketBeforeCall, HandoffIsOfDocument
<1>7. SocketsAreOwned
  BY <1>1 DEF SocketsAreOwned, OneDocument, SocketHasLease
<1>8. LiveEdge /\ NoneBehindShutdown
  BY <1>4 DEF LiveEdge, NoneBehindShutdown
<1>9. QED
  BY <1>5, <1>6, <1>7, <1>8 DEF MediaInv

-----------------------------------------------------------------------------
(* What steps do, in the terms of the invariant *)

\* Who is in the body of a handler, by its channel.
LEMMA LiveIsInBody ==
  ASSUME MediaTypeOK
  PROVE  \A r \in Requests : r \in Live <=> InBody(r)
<1>1. \A r \in Requests : Chan(r) \in Channels
  BY MediaAssumption DEF MediaTypeOK, Chan
<1>2. QED
  BY <1>1, MediaAssumption DEF MediaTypeOK, Live, Tokens

\* The requests that are alive are requests.
LEMMA LiveAreRequests ==
  ASSUME MediaTypeOK
  PROVE  Live \subseteq Requests
  BY DEF MediaTypeOK, Live

\* ClearQueue keeps what was queued for the current lease, or nothing.
LEMMA QueueCleared ==
  ASSUME MediaTypeOK, LiveEdge, ClearQueue
  PROVE  /\ queue' \in [Channels -> Seq(Tokens)]
         /\ \A ch \in Channels : Len(queue'[ch]) <= MaxQueue
         /\ LiveEdge'
<1>1. CASE lease' = lease
  BY <1>1 DEF ClearQueue, MediaTypeOK, LiveEdge
<1>2. CASE lease' # lease
  <2>1. queue' = [ch \in Channels |-> <<>>]
    BY <1>2 DEF ClearQueue
  <2>2. QED
    BY <2>1, MediaAssumption DEF LiveEdge
<1>3. QED
  BY <1>1, <1>2

\* A step of a request that stays in its body, or outside of it, and keeps the owners.
LEMMA MovesOnTyped ==
  ASSUME MediaTypeOK, NEW r \in Requests, NEW l \in Places, Goto(r, l), owner' = owner, ask' = ask,
         InBody(r) <=> l \in {"prepared", "bound", "open", "stopping", "closing"}
  PROVE  /\ pc' \in [Requests -> Places]
         /\ \A ch \in Channels, o \in Requests : owner'[ch] = o <=> (Chan(o) = ch /\ InBody(o))'
<1>1. pc' \in [Requests -> Places]
  BY DEF MediaTypeOK, Goto
<1>2. \A o \in Requests : InBody(o)' <=> InBody(o)
  BY DEF MediaTypeOK, Goto, InBody
<1>3. QED
  BY <1>1, <1>2 DEF MediaTypeOK, Chan

\* An acquired lease is the document's, made by r if there was none.
LEMMA AcquireTyped ==
  ASSUME MediaTypeOK, NEW d \in Documents, NEW t \in Tokens, NEW ls \in Leases \cup {None},
         NEW ao \in Documents \cup {None}, Acquire(d, t, ls, ao)
  PROVE  /\ lease' \in Leases /\ lease' # None
         /\ answerOwner' \in Documents \cup {None}
         /\ lease' = IF ls = None THEN [document |-> d, token |-> t] ELSE ls
  BY MediaAssumption DEF Acquire, Leases

\* TakeSlot makes r the owner of its channel, which nobody had.
LEMMA TakeSlotTyped ==
  ASSUME MediaTypeOK, NEW r \in Requests, pc[r] \in {"asking", "handoff"}, owner[Chan(r)] = None,
         NEW ls \in Leases \cup {None}, NEW ao \in Documents \cup {None}, TakeSlot(r, ls, ao), ask' = ask
  PROVE  /\ lease' \in Leases \cup {None} /\ answerOwner' \in Documents \cup {None}
         /\ owner' = [owner EXCEPT ![Chan(r)] = r]
         /\ owner' \in [Channels -> Requests \cup {None}]
         /\ \E l \in {"prepared", "closing"} : Goto(r, l)
         /\ pc' \in [Requests -> Places]
         /\ held' \in [Requests -> Tokens \cup {None}]
         /\ seen' \in [Requests -> 0..MaxUpdates]
         /\ \A ch \in Channels, o \in Requests : owner'[ch] = o <=> (Chan(o) = ch /\ InBody(o))'
<1>1. Doc(r) \in Documents /\ Chan(r) \in Channels /\ r \in Tokens /\ gen \in 0..MaxUpdates
  BY MediaAssumption DEF MediaTypeOK, Doc, Chan, Tokens
<1>2. owner' = [owner EXCEPT ![Chan(r)] = r] /\ \E l \in {"prepared", "closing"} : Goto(r, l)
  BY DEF TakeSlot
<1>3. /\ lease' \in Leases \cup {None} /\ answerOwner' \in Documents \cup {None}
      /\ held' \in [Requests -> Tokens \cup {None}]
  <2>1. CASE Acquire(Doc(r), r, ls, ao) /\ held' = [held EXCEPT ![r] = lease'.token]
    <3>1. lease' \in Leases /\ answerOwner' \in Documents \cup {None}
      BY <1>1, <2>1, AcquireTyped
    <3>2. QED
      BY <2>1, <3>1 DEF MediaTypeOK, Leases
  <2>2. CASE lease' = ls /\ answerOwner' = ao /\ UNCHANGED held
    BY <2>2 DEF MediaTypeOK
  <2>3. QED
    BY <2>1, <2>2 DEF TakeSlot
<1>4. seen' \in [Requests -> 0..MaxUpdates]
  BY <1>1 DEF TakeSlot, MediaTypeOK
<1>5. pc' \in [Requests -> Places] /\ owner' \in [Channels -> Requests \cup {None}]
  BY <1>1, <1>2 DEF MediaTypeOK, Goto, Places
<1>6. /\ InBody(r)'
      /\ \A o \in Requests \ {r} : InBody(o)' <=> InBody(o)
  BY <1>2 DEF MediaTypeOK, Goto, InBody
<1>7. \A ch \in Channels, o \in Requests : owner'[ch] = o <=> (Chan(o) = ch /\ InBody(o))'
  <2>1. SUFFICES ASSUME NEW ch \in Channels, NEW o \in Requests
                 PROVE  owner'[ch] = o <=> (Chan(o) = ch /\ InBody(o))'
    OBVIOUS
  <2>2. owner[ch] = o <=> Chan(o) = ch /\ InBody(o)
    BY DEF MediaTypeOK
  <2>3. owner'[ch] = IF ch = Chan(r) THEN r ELSE owner[ch]
    BY <1>2 DEF MediaTypeOK
  <2>4. (ch = Chan(r) /\ o # r) => ~(Chan(o) = ch /\ InBody(o))
    BY <2>2, MediaAssumption DEF Tokens
  <2>5. (ch # Chan(r) /\ o = r) => owner[ch] # r
    BY <2>2
  <2>6. QED
    BY <1>6, <2>2, <2>3, <2>4, <2>5 DEF Chan
<1>8. QED
  BY <1>2, <1>3, <1>4, <1>5, <1>7

-----------------------------------------------------------------------------
(* Type correctness *)

\* What a claim leaves of the lease and the answering document when it rebinds.
LEMMA ReboundTyped ==
  ASSUME MediaTypeOK, NEW r \in Requests
  PROVE  ReboundLease(r) \in Leases \cup {None} /\ ReboundAnswer(r) \in Documents \cup {None}
<1>1. Doc(r) \in Documents /\ r \in Tokens
  BY MediaAssumption DEF MediaTypeOK, Doc, Tokens
<1>2. AnswerAfterRelease(lease) \in Documents \cup {None}
  BY DEF AnswerAfterRelease, MediaTypeOK
<1>3. QED
  BY <1>1, <1>2 DEF ReboundLease, ReboundAnswer, MediaTypeOK, Leases

\* An answer keeps the types.
LEMMA AnswerTyped ==
  ASSUME MediaTypeOK, LiveEdge, NEW d \in Documents \cup {None}, Answer(d)
  PROVE  MediaTypeOK' /\ LiveEdge'
<1> USE DEF setting, reqVars, inviteVars, shutVars
<1>1. CASE local /\ callee /\ d # None
  <2>1. Acquire(d, answers + 1, lease, answerOwner) /\ (lease = None => answers < MaxAnswers)
    BY <1>1 DEF Answer
  <2>2. lease' \in Leases \cup {None} /\ answerOwner' \in Documents \cup {None}
    <3>1. CASE lease = None
      <4>1. answers + 1 \in Tokens
        BY <2>1, <3>1, MediaAssumption DEF MediaTypeOK, Tokens
      <4>2. QED
        BY <1>1, <2>1, <4>1, AcquireTyped DEF MediaTypeOK
    <3>2. CASE lease # None
      BY <1>1, <2>1, <3>2 DEF Acquire, MediaTypeOK
    <3>3. QED
      BY <3>1, <3>2
  <2>3. answers' \in 0..MaxAnswers
    BY <1>1, <2>1, MediaAssumption DEF Answer, MediaTypeOK
  <2>4. ClearQueue
    BY <1>1 DEF Answer
  <2>5. QED
    BY <2>2, <2>3, <2>4, QueueCleared DEF Answer, MediaTypeOK, Chan, InBody
<1>2. CASE ~(local /\ callee /\ d # None)
  BY <1>2 DEF Answer, MediaTypeOK, LiveEdge, Chan, InBody
<1>3. QED
  BY <1>1, <1>2

\* The end of a call keeps the types.
LEMMA EndCallTyped ==
  ASSUME MediaTypeOK, LiveEdge, EndCall
  PROVE  MediaTypeOK' /\ LiveEdge'
<1>1. ClearQueue
  BY DEF EndCall
<1>2. QED
  BY <1>1, QueueCleared DEF EndCall, MediaTypeOK, setting, inviteVars, shutVars, Chan, InBody

\* A claim keeps the types.
LEMMA ClaimTyped ==
  ASSUME MediaTypeOK, LiveEdge, NEW r \in Requests, Claim(r)
  PROVE  MediaTypeOK' /\ LiveEdge'
<1> USE DEF setting, inviteVars, shutVars
<1>1. ClearQueue /\ pc[r] = "asking" /\ ask' = ask
  BY DEF Claim
<1>2. /\ Doc(r) \in Documents /\ ReboundLease(r) \in Leases \cup {None}
      /\ ReboundAnswer(r) \in Documents \cup {None}
  BY ReboundTyped, MediaAssumption DEF MediaTypeOK, Doc
<1>3. /\ pin' \in Documents \cup {None} /\ lease' \in Leases \cup {None}
      /\ answerOwner' \in Documents \cup {None}
      /\ owner' \in [Channels -> Requests \cup {None}]
      /\ pc' \in [Requests -> Places]
      /\ held' \in [Requests -> Tokens \cup {None}]
      /\ seen' \in [Requests -> 0..MaxUpdates]
      /\ revoked' \subseteq Requests
      /\ \A ch \in Channels, o \in Requests : owner'[ch] = o <=> (Chan(o) = ch /\ InBody(o))'
  <2>0. pin' \in Documents \cup {None}
    BY <1>2 DEF Claim
  <2>1. CASE TakeSlot(r, ReboundLease(r), ReboundAnswer(r)) /\ owner[Chan(r)] = None /\ UNCHANGED revoked
    BY <1>1, <1>2, <2>0, <2>1, TakeSlotTyped DEF MediaTypeOK
  <2>2. CASE /\ lease' = ReboundLease(r) /\ answerOwner' = ReboundAnswer(r)
             /\ UNCHANGED <<owner, held, seen>>
             /\ \E l \in {"refused", "handoff"} : Goto(r, l)
             /\ \/ revoked' = revoked
                \/ owner[Chan(r)] # None /\ revoked' = revoked \cup {owner[Chan(r)]}
    <3>1. PICK l \in {"refused", "handoff"} : Goto(r, l)
      BY <2>2
    <3>2. /\ pc' \in [Requests -> Places]
          /\ \A ch \in Channels, o \in Requests : owner'[ch] = o <=> (Chan(o) = ch /\ InBody(o))'
      BY <1>1, <2>2, <3>1, MovesOnTyped DEF Places, InBody
    <3>3. owner[Chan(r)] # None => owner[Chan(r)] \in Requests
      BY MediaAssumption DEF MediaTypeOK, Chan
    <3>4. QED
      BY <1>2, <2>0, <2>2, <3>2, <3>3 DEF MediaTypeOK
  <2>3. CASE /\ Goto(r, "refused") /\ revoked' = revoked
             /\ lease' = ReboundLease(r) /\ answerOwner' = ReboundAnswer(r)
             /\ UNCHANGED <<owner, held, seen>>
    BY <2>2, <2>3
  <2>4. CASE /\ owner[Chan(r)] # None /\ Goto(r, "handoff")
             /\ revoked' = revoked \cup {owner[Chan(r)]}
             /\ lease' = ReboundLease(r) /\ answerOwner' = ReboundAnswer(r)
             /\ UNCHANGED <<owner, held, seen>>
    BY <2>2, <2>4
  <2>5. QED
    BY <2>1, <2>3, <2>4 DEF Claim
<1>4. QED
  BY <1>1, <1>3, QueueCleared DEF Claim, MediaTypeOK

\* A request that goes on after its wait keeps the types.
LEMMA ResumeTyped ==
  ASSUME MediaTypeOK, LiveEdge, NEW r \in Requests, Resume(r)
  PROVE  MediaTypeOK' /\ LiveEdge'
<1> USE DEF setting, inviteVars, shutVars
<1>1. ClearQueue /\ pc[r] = "handoff" /\ owner[Chan(r)] = None /\ ask' = ask
  BY DEF Resume
<1>2. lease \in Leases \cup {None} /\ answerOwner \in Documents \cup {None}
  BY DEF MediaTypeOK
<1>3. CASE Shutting
  <2>1. Goto(r, "refused") /\ UNCHANGED <<owner, held, seen, lease, answerOwner>>
    BY <1>3 DEF Resume
  <2>2. /\ pc' \in [Requests -> Places]
        /\ \A ch \in Channels, o \in Requests : owner'[ch] = o <=> (Chan(o) = ch /\ InBody(o))'
    BY <1>1, <2>1, MovesOnTyped DEF Places, InBody
  <2>3. QED
    BY <1>1, <2>1, <2>2, QueueCleared DEF Resume, MediaTypeOK
<1>4. CASE ~Shutting
  <2>1. TakeSlot(r, lease, answerOwner)
    BY <1>4 DEF Resume
  <2>2. /\ lease' \in Leases \cup {None} /\ answerOwner' \in Documents \cup {None}
        /\ owner' \in [Channels -> Requests \cup {None}]
        /\ pc' \in [Requests -> Places]
        /\ held' \in [Requests -> Tokens \cup {None}]
        /\ seen' \in [Requests -> 0..MaxUpdates]
        /\ \A ch \in Channels, o \in Requests : owner'[ch] = o <=> (Chan(o) = ch /\ InBody(o))'
    BY <1>1, <1>2, <2>1, TakeSlotTyped
  <2>3. QED
    BY <1>1, <2>2, QueueCleared DEF Resume, MediaTypeOK
<1>5. QED
  BY <1>3, <1>4

\* The release of a channel keeps the types.
LEMMA ReleaseOwnerTyped ==
  ASSUME MediaTypeOK, LiveEdge, NEW r \in Requests, ReleaseOwner(r)
  PROVE  MediaTypeOK' /\ LiveEdge'
<1>1. /\ pc[r] = "closing" /\ \E l \in {"done", "leasing"} : Goto(r, l)
      /\ owner' = [owner EXCEPT ![Chan(r)] = IF @ = r THEN None ELSE @]
      /\ ask' = ask
  BY DEF ReleaseOwner, setting
<1>2. Chan(r) \in Channels /\ owner[Chan(r)] = r
  BY <1>1, MediaAssumption DEF MediaTypeOK, Chan, InBody
<1>3. pc' \in [Requests -> Places] /\ owner' \in [Channels -> Requests \cup {None}]
  BY <1>1, <1>2 DEF MediaTypeOK, Goto, Places
<1>4. ~InBody(r)' /\ \A o \in Requests \ {r} : InBody(o)' <=> InBody(o)
  BY <1>1 DEF MediaTypeOK, Goto, InBody
<1>5. \A ch \in Channels, o \in Requests : owner'[ch] = o <=> (Chan(o) = ch /\ InBody(o))'
  <2>1. SUFFICES ASSUME NEW ch \in Channels, NEW o \in Requests
                 PROVE  owner'[ch] = o <=> (Chan(o) = ch /\ InBody(o))'
    OBVIOUS
  <2>2. owner[ch] = o <=> Chan(o) = ch /\ InBody(o)
    BY DEF MediaTypeOK
  <2>3. owner'[ch] = IF ch = Chan(r) THEN None ELSE owner[ch]
    BY <1>1, <1>2 DEF MediaTypeOK
  <2>4. QED
    BY <1>1, <1>2, <1>4, <2>2, <2>3, MediaAssumption DEF Chan, Tokens
<1>6. seen' \in [Requests -> 0..MaxUpdates] /\ revoked' \subseteq Requests /\ ended' \subseteq Requests
  BY MediaAssumption DEF ReleaseOwner, MediaTypeOK
<1>7. QED
  BY <1>3, <1>5, <1>6 DEF ReleaseOwner, MediaTypeOK, LiveEdge, setting, callVars, inviteVars, shutVars

\* The release of a lease keeps the types.
LEMMA ReleaseLeaseTyped ==
  ASSUME MediaTypeOK, LiveEdge, NEW r \in Requests, ReleaseLease(r)
  PROVE  MediaTypeOK' /\ LiveEdge'
<1>1. ClearQueue /\ pc[r] = "leasing" /\ Goto(r, "done") /\ UNCHANGED <<ask, owner>>
  BY DEF ReleaseLease, setting
<1>2. /\ pc' \in [Requests -> Places]
      /\ \A ch \in Channels, o \in Requests : owner'[ch] = o <=> (Chan(o) = ch /\ InBody(o))'
  BY <1>1, MovesOnTyped DEF Places, InBody
<1>3. /\ lease' \in Leases \cup {None} /\ answerOwner' \in Documents \cup {None}
      /\ held' \in [Requests -> Tokens \cup {None}]
  BY DEF ReleaseLease, AnswerAfterRelease, MediaTypeOK
<1>4. QED
  BY <1>1, <1>2, <1>3, QueueCleared DEF ReleaseLease, MediaTypeOK, setting, inviteVars, shutVars

\* A frame queued for the current lease, where the oldest makes room.
LEMMA SendTyped ==
  ASSUME MediaTypeOK, LiveEdge, NEW ch \in Channels, Send(ch)
  PROVE  MediaTypeOK' /\ LiveEdge'
<1> DEFINE q == Append(queue[ch], lease.token)
           q2 == IF Len(q) > MaxQueue THEN Tail(q) ELSE q
<1>1. queue[ch] \in Seq(Tokens) /\ Len(queue[ch]) <= MaxQueue /\ lease.token \in Tokens
  BY DEF Send, MediaTypeOK, Leases
<1>2. /\ q \in Seq(Tokens) /\ Len(q) = Len(queue[ch]) + 1
      /\ \A i \in 1..Len(q) : q[i] = lease.token
  <2>1. \A i \in 1..Len(queue[ch]) : queue[ch][i] = lease.token
    BY DEF LiveEdge
  <2>2. QED
    BY <1>1, <2>1
<1>3. q2 \in Seq(Tokens) /\ Len(q2) <= MaxQueue /\ \A i \in 1..Len(q2) : q2[i] = lease.token
  <2>1. CASE Len(q) > MaxQueue
    <3>1. /\ Tail(q) \in Seq(Tokens) /\ Len(Tail(q)) = Len(q) - 1
          /\ \A i \in 1..Len(Tail(q)) : Tail(q)[i] = q[i+1]
      <4>1. q # <<>>
        BY <1>1, <1>2
      <4>2. QED
        BY <1>2, <4>1, HeadTailProperties
    <3>2. QED
      BY <1>1, <1>2, <2>1, <3>1, MediaAssumption
  <2>2. CASE ~(Len(q) > MaxQueue)
    BY <1>2, <2>2, MediaAssumption
  <2>3. QED
    BY <2>1, <2>2
<1>4. queue' = [queue EXCEPT ![ch] = q2]
  BY DEF Send
<1>5. /\ queue' \in [Channels -> Seq(Tokens)]
      /\ \A c \in Channels : Len(queue'[c]) <= MaxQueue
      /\ \A c \in Channels : \A i \in 1..Len(queue'[c]) : queue'[c][i] = lease.token
  <2> HIDE DEF q2
  <2>1. QED
    BY <1>3, <1>4 DEF MediaTypeOK, LiveEdge
<1>6. QED
  BY <1>5 DEF Send, MediaTypeOK, LiveEdge, setting, reqVars, inviteVars, shutVars, Chan, InBody

\* A packet that is received keeps the types.
LEMMA ReceiveTyped ==
  ASSUME MediaTypeOK, LiveEdge, NEW r \in Requests, Receive(r)
  PROVE  MediaTypeOK' /\ LiveEdge'
<1> DEFINE q == queue[Chan(r)]
<1>1. Chan(r) \in Channels
  BY MediaAssumption DEF MediaTypeOK, Chan
<1>2. q \in Seq(Tokens) /\ Len(q) <= MaxQueue /\ q # <<>> /\ \A i \in 1..Len(q) : q[i] = lease.token
  BY <1>1 DEF Receive, MediaTypeOK, LiveEdge
<1>3. /\ Tail(q) \in Seq(Tokens) /\ Len(Tail(q)) = Len(q) - 1
      /\ \A i \in 1..Len(Tail(q)) : Tail(q)[i] = q[i+1]
  BY <1>2, HeadTailProperties
<1>4. Len(Tail(q)) <= MaxQueue /\ \A i \in 1..Len(Tail(q)) : Tail(q)[i] = lease.token
  BY <1>2, <1>3, MediaAssumption
<1>5. queue' = [queue EXCEPT ![Chan(r)] = Tail(q)]
  BY DEF Receive
<1>6. /\ queue' \in [Channels -> Seq(Tokens)]
      /\ \A c \in Channels : Len(queue'[c]) <= MaxQueue
      /\ \A c \in Channels : \A i \in 1..Len(queue'[c]) : queue'[c][i] = lease.token
  BY <1>1, <1>3, <1>4, <1>5 DEF MediaTypeOK, LiveEdge
<1>7. QED
  BY <1>6 DEF Receive, MediaTypeOK, LiveEdge, setting, reqVars, inviteVars, shutVars, Chan, InBody

\* Every step but those of the media and the claims, where only pc, the re-INVITE,
\* the unload or sets of requests move.
LEMMA SimpleTyped ==
  ASSUME MediaTypeOK, LiveEdge, NEW r \in Requests,
         View(r) \/ Refuse(r) \/ Prepare(r) \/ Open(r) \/ Fail(r) \/ Stop(r) \/ Joined(r)
  PROVE  MediaTypeOK' /\ LiveEdge'
<1> USE DEF setting, callVars, inviteVars, shutVars
<1>1. PICK l \in Places : Goto(r, l) /\ (InBody(r) <=> l \in {"prepared", "bound", "open", "stopping", "closing"})
  BY DEF View, Refuse, Prepare, Open, Fail, Stop, Joined, Places, InBody
<1>2. UNCHANGED <<setting, callVars, owner, held, revoked, seen, inviteVars, shutVars>>
  BY DEF View, Refuse, Prepare, Open, Fail, Stop, Joined
<1>3. ended' \subseteq Requests
  BY DEF View, Refuse, Prepare, Open, Fail, Stop, Joined, MediaTypeOK, EndedAtRegistration
<1>4. /\ pc' \in [Requests -> Places]
      /\ \A ch \in Channels, o \in Requests : owner'[ch] = o <=> (Chan(o) = ch /\ InBody(o))'
  BY <1>1, <1>2, MovesOnTyped
<1>5. QED
  BY <1>2, <1>3, <1>4 DEF MediaTypeOK, LiveEdge

\* The re-INVITE and the unload.
LEMMA OtherTyped ==
  ASSUME MediaTypeOK, LiveEdge, Offer \/ Commit \/ Rollback \/ Gate \/ RevokeAll \/ Down \/ Setup
  PROVE  MediaTypeOK' /\ LiveEdge'
<1> USE DEF setting, callVars, reqVars, inviteVars, shutVars, MediaTypeOK, LiveEdge, Chan, InBody
<1>1. CASE Offer
  BY <1>1 DEF Offer
<1>2. CASE Rollback \/ Gate \/ Setup
  BY <1>2 DEF Rollback, Gate, Setup
<1>3. CASE RevokeAll
  BY <1>3, LiveAreRequests DEF RevokeAll
<1>4. CASE Down
  BY <1>4 DEF Down
<1>5. CASE Commit
  <2>1. gen' \in 0..MaxUpdates /\ offer' = None
    BY <1>5, MediaAssumption DEF Commit
  <2>2. seen' \in [Requests -> 0..MaxUpdates]
    BY <1>5, <2>1 DEF Commit
  <2>3. QED
    BY <1>5, <2>1, <2>2 DEF Commit
<1>6. QED
  BY <1>1, <1>2, <1>3, <1>4, <1>5

\* Every step of the sockets keeps the types.
LEMMA TypeStep ==
  ASSUME MediaTypeOK, LiveEdge, [Next]_vars
  PROVE  MediaTypeOK' /\ LiveEdge'
<1>1. CASE UNCHANGED vars
  BY <1>1 DEF vars, setting, callVars, reqVars, inviteVars, shutVars, MediaTypeOK, LiveEdge, Chan, InBody
<1>2. ASSUME NEW r \in Requests, Handler(r) \/ Refuse(r) \/ Fail(r) \/ Leave(r) \/ Receive(r)
      PROVE  MediaTypeOK' /\ LiveEdge'
  BY <1>2, SimpleTyped, ClaimTyped, ResumeTyped, ReleaseOwnerTyped, ReleaseLeaseTyped, ReceiveTyped
     DEF Handler, Detach, Leave
<1>3. QED
  BY <1>1, <1>2, AnswerTyped, EndCallTyped, SendTyped, OtherTyped DEF Next

-----------------------------------------------------------------------------
(* Steps that make no owner *)

Serving(r) == pc[r] \in {"prepared", "bound", "open"}

\* A step that lets no request into the body or into the wait for a previous owner,
\* keeps the document of a call that is up, and takes a lease from no socket.
Quiet ==
  /\ UNCHANGED setting
  /\ \A r \in Requests :
       /\ InBody(r)' => InBody(r)
       /\ pc'[r] = "handoff" => pc[r] = "handoff"
       /\ Serving(r)' => Serving(r) /\ held'[r] = held[r]
       /\ call' = "ringing" /\ pc[r] \in {"new", "refused"} => pc'[r] \in {"new", "refused"}
  /\ call' = "ringing" => call = "ringing"
  /\ call' = "up" =>
       /\ call # "over" /\ pin' = pin
       /\ lease' = lease \/ lease = None \/ Live = {}

\* A step that makes no owner leaves the live ones among those there were.
LEMMA QuietLive ==
  ASSUME MediaTypeOK, MediaTypeOK', Quiet
  PROVE  Live' \subseteq Live
<1>1. \A r \in Requests : r \in Live <=> InBody(r)
  BY LiveIsInBody
<1>2. (\A r \in Requests : r \in Live <=> InBody(r))'
  <2>1. \A r \in Requests : Chan(r)' \in Channels
    BY MediaAssumption DEF MediaTypeOK, Chan
  <2>2. QED
    BY <2>1, MediaAssumption DEF MediaTypeOK, Live, Tokens
<1>3. Live' \subseteq Requests
  BY DEF MediaTypeOK, Live
<1>4. QED
  BY <1>1, <1>2, <1>3 DEF Quiet

\* A step that changes nothing of the owners keeps what holds of them.
LEMMA QuietStep ==
  ASSUME MediaInv, MediaTypeOK', Quiet
  PROVE  OneHandoff' /\ NoSocketBeforeCall' /\ HandoffIsOfDocument' /\ SocketsAreOwned'
<1> USE DEF MediaInv, setting
<1>1. /\ Live' \subseteq Live /\ Live' \subseteq Requests
      /\ \A r \in Requests : Doc(r)' = Doc(r)
  <2>1. Live' \subseteq Live
    BY QuietLive
  <2>2. Live' \subseteq Requests
    BY DEF MediaTypeOK, Live
  <2>3. QED
    BY <2>1, <2>2 DEF Quiet, Doc
<1>2. OneHandoff'
  BY DEF Quiet, OneHandoff
<1>3. NoSocketBeforeCall'
  BY DEF Quiet, NoSocketBeforeCall
<1>4. call' = "up" => call = "up" \/ \A r \in Requests : pc[r] \in {"new", "refused"}
  BY DEF Quiet, NoSocketBeforeCall, MediaTypeOK
<1>5. HandoffIsOfDocument'
  <2>1. SUFFICES ASSUME NEW r \in Requests, pc'[r] = "handoff"
                 PROVE  /\ \A o \in Live' : Doc(o)' = Doc(r)'
                        /\ call' = "up" /\ ~local' => pin' = Doc(r)'
    BY DEF HandoffIsOfDocument
  <2>2. pc[r] = "handoff"
    BY <2>1 DEF Quiet
  <2>3. QED
    BY <1>1, <1>4, <2>2 DEF HandoffIsOfDocument, Quiet
<1>6. OneDocument'
  <2>1. \A o, p \in Live' : Doc(o)' = Doc(p)'
    BY <1>1 DEF SocketsAreOwned, OneDocument
  <2>2. ASSUME NEW o \in Live', call' = "up", ~local'
        PROVE  pin' = Doc(o)'
    <3>1. InBody(o)
      BY <1>1, LiveIsInBody
    <3>2. call = "up"
      BY <1>1, <1>4, <2>2, <3>1 DEF InBody
    <3>3. QED
      BY <1>1, <2>2, <3>2 DEF SocketsAreOwned, OneDocument, Quiet
  <2>3. QED
    BY <2>1, <2>2 DEF OneDocument
<1>7. SocketHasLease'
  <2>1. SUFFICES ASSUME NEW r \in Requests, local', call' = "up", pc'[r] \in {"prepared", "bound", "open"}
                 PROVE  lease' # None /\ lease'.token = held'[r] /\ lease'.document = Doc(r)'
    BY DEF SocketHasLease
  <2>2. Serving(r) /\ held'[r] = held[r]
    BY <2>1 DEF Quiet, Serving
  <2>3. call = "up" /\ r \in Live
    BY <1>4, <2>1, <2>2, LiveIsInBody DEF Serving, InBody
  <2>4. lease # None /\ lease.token = held[r] /\ lease.document = Doc(r)
    BY <2>1, <2>2, <2>3 DEF SocketsAreOwned, SocketHasLease, Serving, Quiet
  <2>5. QED
    BY <1>1, <2>1, <2>2, <2>3, <2>4 DEF Quiet
<1>8. QED
  BY <1>2, <1>3, <1>5, <1>6, <1>7 DEF SocketsAreOwned

\* The steps of a handler that are neither a claim nor the end of the wait.
LEMMA HandlerQuiet ==
  ASSUME MediaInv, NEW r \in Requests,
         \/ View(r) \/ Refuse(r) \/ Prepare(r) \/ Open(r) \/ Fail(r) \/ Stop(r) \/ Joined(r)
         \/ ReleaseOwner(r) \/ Receive(r)
  PROVE  Quiet
<1> USE DEF setting, callVars, MediaInv, MediaTypeOK
<1>1. CASE View(r)
  BY <1>1 DEF View, Quiet, Goto, InBody, Serving
<1>2. CASE Refuse(r)
  BY <1>2 DEF Refuse, Quiet, Goto, InBody, Serving
<1>3. CASE Prepare(r)
  BY <1>3 DEF Prepare, Quiet, Goto, InBody, Serving
<1>4. CASE Open(r)
  BY <1>4 DEF Open, Quiet, Goto, InBody, Serving
<1>5. CASE Fail(r) \/ Stop(r) \/ Joined(r)
  BY <1>5 DEF Fail, Stop, Joined, Quiet, Goto, InBody, Serving
<1>6. CASE ReleaseOwner(r)
  BY <1>6 DEF ReleaseOwner, Quiet, Goto, InBody, Serving
<1>7. CASE Receive(r)
  BY <1>7 DEF Receive, Quiet, InBody, Serving, reqVars
<1>8. QED
  BY <1>1, <1>2, <1>3, <1>4, <1>5, <1>6, <1>7

\* A lease is given up when no socket is left.
LEMMA ReleaseLeaseQuiet ==
  ASSUME MediaInv, NEW r \in Requests, ReleaseLease(r)
  PROVE  Quiet
<1>1. /\ pc[r] = "leasing" /\ Goto(r, "done") /\ UNCHANGED <<setting, call, pin>>
      /\ held' = [held EXCEPT ![r] = None]
      /\ lease' = lease \/ Live = {}
  BY DEF ReleaseLease, GivesUp
<1>2. call' = "up" => call # "over"
  BY <1>1
<1>3. QED
  BY <1>1, <1>2 DEF Quiet, Goto, InBody, Serving, MediaInv, MediaTypeOK

\* The call, the queues, the re-INVITE and the unload.
LEMMA OthersQuiet ==
  ASSUME MediaInv,
         \/ \E d \in Documents \cup {None} : Answer(d)
         \/ EndCall \/ (\E ch \in Channels : Send(ch)) \/ Offer \/ Commit \/ Rollback
         \/ Gate \/ RevokeAll \/ Down \/ Setup \/ UNCHANGED vars
  PROVE  Quiet
<1> USE DEF setting, callVars, reqVars, Quiet, InBody, Serving
<1>1. CASE \E d \in Documents \cup {None} : Answer(d)
  <2>1. PICK d \in Documents \cup {None} : Answer(d)
    BY <1>1
  <2>2. lease' = lease \/ lease = None
    BY <2>1 DEF Answer, Acquire
  <2>3. QED
    BY <2>1, <2>2 DEF Answer
<1>2. CASE EndCall
  BY <1>2 DEF EndCall
<1>3. CASE \E ch \in Channels : Send(ch)
  BY <1>3 DEF Send
<1>4. CASE Offer \/ Commit \/ Rollback
  BY <1>4 DEF Offer, Commit, Rollback
<1>5. CASE Gate \/ RevokeAll \/ Down \/ Setup \/ UNCHANGED vars
  BY <1>5 DEF Gate, RevokeAll, Down, Setup, vars
<1>6. QED
  BY <1>1, <1>2, <1>3, <1>4, <1>5

-----------------------------------------------------------------------------
(* Claims *)

\* The owner that TakeSlot makes is of the document of those there are, and holds
\* the lease they hold.
LEMMA SlotTaken ==
  ASSUME MediaInv, NEW r \in Requests, pc[r] \in {"asking", "handoff"}, owner[Chan(r)] = None,
         NEW ls \in Leases \cup {None}, NEW ao \in Documents \cup {None}, TakeSlot(r, ls, ao),
         UNCHANGED setting, call' = call, Live # {} => ls = lease,
         \A o \in Live : Doc(o) = Doc(r), call = "up" /\ ~local => pin' = Doc(r),
         \A o \in Requests \ {r} : pc[o] # "handoff"
  PROVE  /\ OneHandoff' /\ NoSocketBeforeCall' /\ HandoffIsOfDocument' /\ SocketsAreOwned'
         /\ Live' \subseteq Live \cup {r}
<1> USE DEF MediaInv, setting
<1>1. /\ owner' = [owner EXCEPT ![Chan(r)] = r]
      /\ \E l \in {"prepared", "closing"} : Goto(r, l)
  BY DEF TakeSlot
<1>2. Live' \subseteq Live \cup {r} /\ Live \subseteq Requests
  BY <1>1 DEF Live, MediaTypeOK
<1>3. /\ \A o \in Requests : pc'[o] # "handoff"
      /\ \A o \in Requests \ {r} : pc'[o] = pc[o]
      /\ \A o \in Requests : Doc(o)' = Doc(o)
  BY <1>1 DEF Goto, MediaTypeOK, Doc
<1>4. call # "ringing"
  BY DEF NoSocketBeforeCall
<1>5. OneHandoff' /\ NoSocketBeforeCall' /\ HandoffIsOfDocument'
  BY <1>3, <1>4 DEF OneHandoff, NoSocketBeforeCall, HandoffIsOfDocument
<1>6. OneDocument'
  BY <1>2, <1>3 DEF OneDocument
<1>7. SocketHasLease'
  <2>1. SUFFICES ASSUME NEW o \in Requests, local, call = "up", pc'[o] \in {"prepared", "bound", "open"}
                 PROVE  lease' # None /\ lease'.token = held'[o] /\ lease'.document = Doc(o)'
    BY DEF SocketHasLease
  <2>2. CASE o = r
    <3>1. MayAcquire(Doc(r), ls, ao) /\ Acquire(Doc(r), r, ls, ao) /\ held' = [held EXCEPT ![r] = lease'.token]
      BY <1>1, <2>1, <2>2 DEF TakeSlot, Goto, MediaTypeOK
    <3>2. held'[r] = lease'.token
      BY <3>1 DEF MediaTypeOK
    <3>3. lease' # None /\ lease'.document = Doc(r)
      <4>1. r \in Tokens /\ Doc(r) \in Documents
        BY MediaAssumption DEF Tokens, Doc, MediaTypeOK
      <4>2. QED
        BY <3>1, <4>1, MediaAssumption DEF Acquire, MayAcquire, Leases
    <3>4. QED
      BY <1>3, <2>2, <3>2, <3>3
  <2>3. CASE o # r
    <3>1. pc[o] \in {"prepared", "bound", "open"}
      BY <1>3, <2>1, <2>3
    <3>2. lease # None /\ lease.token = held[o] /\ lease.document = Doc(o)
      BY <2>1, <3>1 DEF SocketsAreOwned, SocketHasLease
    <3>3. ls = lease
      BY <3>1, LiveIsInBody DEF InBody
    <3>4. lease' = lease /\ held'[o] = held[o]
      BY <2>3, <3>2, <3>3 DEF TakeSlot, Acquire, MediaTypeOK
    <3>5. QED
      BY <1>3, <3>2, <3>4
  <2>4. QED
    BY <2>2, <2>3
<1>8. QED
  BY <1>2, <1>5, <1>6, <1>7 DEF SocketsAreOwned

\* A claim is of the document that has the call, or finds no socket.
LEMMA ClaimStep ==
  ASSUME MediaInv, MediaTypeOK', NEW r \in Requests, Claim(r)
  PROVE  /\ OneHandoff' /\ NoSocketBeforeCall' /\ HandoffIsOfDocument' /\ SocketsAreOwned'
         /\ IF Shutting THEN Live' = Live ELSE Live' \subseteq Live \cup {r}
<1> USE DEF MediaInv, setting
<1>1. /\ pc[r] = "asking" /\ (\A o \in Requests : pc[o] # "handoff") /\ MayClaim(r)
      /\ UNCHANGED <<setting, call>> /\ pin' = IF local THEN None ELSE Doc(r)
  BY DEF Claim, LockFree
<1>2. call = "up"
  BY <1>1 DEF NoSocketBeforeCall, MayClaim, MediaTypeOK
<1>3. \A o \in Live : Doc(o) = Doc(r)
  BY <1>1, <1>2 DEF MayClaim, SocketsAreOwned, OneDocument
<1>4. Live # {} => ReboundLease(r) = lease
  BY <1>1 DEF MayClaim, ReboundLease, Rebinds
<1>5. ReboundLease(r) \in Leases \cup {None} /\ ReboundAnswer(r) \in Documents \cup {None}
  BY ReboundTyped
<1>6. CASE owner[Chan(r)] = None /\ ~Shutting /\ TakeSlot(r, ReboundLease(r), ReboundAnswer(r))
  BY <1>1, <1>3, <1>4, <1>5, <1>6, SlotTaken
<1>7. CASE /\ \E l \in {"refused", "handoff"} : Goto(r, l)
           /\ lease' = ReboundLease(r) /\ UNCHANGED <<owner, held>>
  <2>1. /\ Live' = Live /\ Live \subseteq Requests
        /\ \A o \in Requests : Doc(o)' = Doc(o)
        /\ \A o \in Requests \ {r} : pc'[o] = pc[o]
        /\ pc'[r] \in {"refused", "handoff"}
    BY <1>1, <1>7 DEF Live, Doc, Goto, MediaTypeOK
  <2>2. OneHandoff' /\ NoSocketBeforeCall'
    BY <1>1, <1>2, <2>1 DEF OneHandoff, NoSocketBeforeCall
  <2>3. HandoffIsOfDocument' /\ OneDocument'
    BY <1>1, <1>3, <2>1 DEF HandoffIsOfDocument, OneDocument
  <2>4. SocketHasLease'
    <3>1. SUFFICES ASSUME NEW o \in Requests, local, call = "up", pc'[o] \in {"prepared", "bound", "open"}
                   PROVE  lease' # None /\ lease'.token = held'[o] /\ lease'.document = Doc(o)'
      BY <1>1 DEF SocketHasLease
    <3>2. pc[o] \in {"prepared", "bound", "open"}
      BY <2>1, <3>1
    <3>3. lease # None /\ lease.token = held[o] /\ lease.document = Doc(o)
      BY <3>1, <3>2 DEF SocketsAreOwned, SocketHasLease
    <3>4. Live # {}
      BY <3>2, LiveIsInBody DEF InBody
    <3>5. QED
      BY <1>4, <1>7, <2>1, <3>3, <3>4
  <2>5. QED
    BY <2>1, <2>2, <2>3, <2>4 DEF SocketsAreOwned
<1>8. CASE Goto(r, "refused") /\ lease' = ReboundLease(r) /\ UNCHANGED <<owner, held>>
  BY <1>7, <1>8
<1>9. CASE Goto(r, "handoff") /\ lease' = ReboundLease(r) /\ UNCHANGED <<owner, held>>
  BY <1>7, <1>9
<1>10. QED
  BY <1>6, <1>8, <1>9 DEF Claim

\* Whoever waited for the previous owner is still of the document that has the call.
LEMMA ResumeStep ==
  ASSUME MediaInv, MediaTypeOK', NEW r \in Requests, Resume(r)
  PROVE  /\ OneHandoff' /\ NoSocketBeforeCall' /\ HandoffIsOfDocument' /\ SocketsAreOwned'
         /\ IF Shutting THEN Live' = Live ELSE Live' \subseteq Live \cup {r}
<1> USE DEF MediaInv, setting
<1>1. pc[r] = "handoff" /\ owner[Chan(r)] = None /\ UNCHANGED <<setting, call, pin>>
  BY DEF Resume
<1>2. CASE Shutting
  <2>1. Goto(r, "refused") /\ UNCHANGED <<owner, held, lease>>
    BY <1>2 DEF Resume
  <2>2. Quiet
    BY <1>1, <2>1 DEF Quiet, Goto, InBody, Serving, MediaTypeOK
  <2>3. QED
    BY <1>2, <2>1, <2>2, QuietStep DEF Live
<1>3. CASE ~Shutting
  <2>1. TakeSlot(r, lease, answerOwner)
    BY <1>3 DEF Resume
  <2>2. /\ \A o \in Live : Doc(o) = Doc(r)
        /\ call = "up" /\ ~local => pin' = Doc(r)
    BY <1>1 DEF HandoffIsOfDocument
  <2>3. \A o \in Requests \ {r} : pc[o] # "handoff"
    BY <1>1 DEF OneHandoff
  <2>4. lease \in Leases \cup {None} /\ answerOwner \in Documents \cup {None}
    BY DEF MediaTypeOK
  <2>5. QED
    BY <1>1, <1>3, <2>1, <2>2, <2>3, <2>4, SlotTaken
<1>4. QED
  BY <1>2, <1>3

-----------------------------------------------------------------------------
(* The invariant *)

\* What each step does to the owners: the two that make one do so only while the
\* integration is on.
LEMMA OwnersStep ==
  ASSUME MediaInv, MediaTypeOK', [Next]_vars
  PROVE  /\ OneHandoff' /\ NoSocketBeforeCall' /\ HandoffIsOfDocument' /\ SocketsAreOwned'
         /\ Shutting => Live' \subseteq Live
<1>1. CASE Quiet
  BY <1>1, QuietStep, QuietLive DEF MediaInv
<1>2. CASE \E r \in Requests : Claim(r) \/ Resume(r)
  BY <1>2, ClaimStep, ResumeStep
<1>3. ASSUME NEW r \in Requests, Handler(r) \/ Refuse(r) \/ Fail(r) \/ Leave(r) \/ Receive(r)
      PROVE  Quiet \/ Claim(r) \/ Resume(r)
  BY <1>3, HandlerQuiet, ReleaseLeaseQuiet DEF Handler, Detach, Leave
<1>4. QED
  BY <1>1, <1>2, <1>3, OthersQuiet DEF Next

\* No step brings a socket in behind the unload.
LEMMA ShutdownStep ==
  ASSUME MediaInv, MediaTypeOK', [Next]_vars
  PROVE  NoneBehindShutdown'
<1> USE DEF MediaInv, setting, callVars, reqVars, inviteVars, shutVars, NoneBehindShutdown
<1>1. Shutting => Live' \subseteq Live
  BY OwnersStep
<1>2. CASE UNCHANGED <<phase, asked>>
  BY <1>1, <1>2 DEF Shutting
<1>3. CASE Gate \/ Setup
  BY <1>3 DEF Gate, Setup
<1>4. CASE RevokeAll
  BY <1>4 DEF RevokeAll, Live
<1>5. CASE Down
  <2>1. Live' = Live /\ asked' = {r \in asked : ~Released(r)} /\ phase = "waiting"
    BY <1>5 DEF Down, Live
  <2>2. \A r \in Live : ~Released(r)
    BY LiveIsInBody, LiveAreRequests DEF Released, InBody
  <2>3. QED
    BY <2>1, <2>2
<1>6. ASSUME NEW r \in Requests, Handler(r) \/ Refuse(r) \/ Fail(r) \/ Leave(r) \/ Receive(r)
      PROVE  UNCHANGED <<phase, asked>>
  BY <1>6 DEF Handler, View, Claim, Resume, Prepare, Open, Detach, Leave, Stop, Joined, ReleaseOwner,
              ReleaseLease, Refuse, Fail, Receive
<1>7. ASSUME \/ \E d \in Documents \cup {None} : Answer(d)
             \/ EndCall \/ (\E ch \in Channels : Send(ch)) \/ Offer \/ Commit \/ Rollback \/ UNCHANGED vars
      PROVE  UNCHANGED <<phase, asked>>
  BY <1>7 DEF Answer, EndCall, Send, Offer, Commit, Rollback, vars
<1>8. QED
  BY <1>2, <1>3, <1>4, <1>5, <1>6, <1>7 DEF Next

\* The inductive invariant: every variable has its type, a channel's owner is the
\* request in its handler's body (the <ch>_ws_owners of websocket_owner.py), and the
\* claims, the documents, the leases, the queues and the unload agree as its parts say.
THEOREM MediaInvariant == Spec => []MediaInv
<1>1. Init => MediaInv
  BY InitMedia
<1>2. MediaInv /\ [Next]_vars => MediaInv'
  BY TypeStep, OwnersStep, ShutdownStep DEF MediaInv
<1>3. QED
  BY <1>1, <1>2, PTL DEF Spec

\* Sockets, pins and leases name one browser document per call, whatever requests
\* claim, wait for, take and release their channels in whatever order.
THEOREM SocketsOwned == Spec => []SocketsAreOwned
<1>1. MediaInv => SocketsAreOwned
  BY DEF MediaInv
<1>2. QED
  BY <1>1, MediaInvariant, PTL

\* What a document hears was queued for its own lease (clear_queued_media).
THEOREM QueueIsLive == Spec => []LiveEdge
<1>1. MediaInv => LiveEdge
  BY DEF MediaInv
<1>2. QED
  BY <1>1, MediaInvariant, PTL

\* No request takes a channel behind the unload: the sockets left when it goes on
\* are those it could not confirm (_async_shutdown_all).
THEOREM ShutdownIsFinal == Spec => []ShutdownFinal
<1>1. MediaInv => ShutdownFinal
  BY DEF MediaInv, NoneBehindShutdown, ShutdownFinal
<1>2. QED
  BY <1>1, MediaInvariant, PTL

=============================================================================
