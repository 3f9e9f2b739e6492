---------------------------- MODULE Renegotiation ----------------------------
(***************************************************************************)
(* The media of one call: its first offers and answers, and the re-INVITEs  *)
(* and UPDATEs that its peers send later.  "left" is the dialog in which    *)
(* Home Assistant is the server (sip_listener.py with media_renegotiation), *)
(* "right" the one that it opened itself (sip_client.py with the owner's    *)
(* own preparation).  A relay has both, a softphone, a preanswered trunk    *)
(* call and Assist only the left one, a call from a browser the right one.  *)
(* The preparation, the response and the commit of one offer contain no     *)
(* suspension point that another request of the dialog could use.           *)
(***************************************************************************)
EXTENDS Sdp

CONSTANTS Setups,      \* [owner, send, recv, common, video, passthrough, camera, first, answers, offers]
          MaxOffers,   \* later offers of both peers together
          MaxFaults    \* lost responses and ACKs, responses that the transport cannot take,
                       \* copies of a request that arrive after its transaction

\* Descriptions as a parser leaves them: sections with all their attributes, in each of which a
\* payload number names one format, and local formats with a frame length.
IsSequence(x) == x \in Seq(ToSet(x))
Numbered(formats) == \A i, j \in DOMAIN formats : formats[i].pt = formats[j].pt => formats[i] = formats[j]
IsVideo(formats) ==
    /\ IsSequence(formats) /\ Numbered(formats)
    /\ \A f \in ToSet(formats) :
         DOMAIN f = {"pt", "codec", "rtp", "mode", "sub", "level", "asym", "fmtp", "dir"}
IsSection(x) ==
    /\ DOMAIN x = {"media", "on", "rtp", "usable", "formats", "dir", "held", "ptime", "minptime", "maxptime"}
    /\ x.dir \subseteq Sendrecv /\ IsSequence(x.formats) /\ Numbered(x.formats)
    /\ x.media = "video" => IsVideo(x.formats)
IsDescription(sdp) == IsSequence(sdp) /\ \A x \in ToSet(sdp) : IsSection(x)
IsLocal(formats) ==
    IsSequence(formats) /\ \A l \in ToSet(formats) : l.pcm \in DOMAIN Carries /\ l.frame \in Nat

\* What a call from a browser shows, and the audio of an offer that Home Assistant makes.
Shown(u) == SelectSeq(u.video, LAMBDA f : u.camera => BrowserSends(f))
OwnOffer(u, video) == BuildOffer(u.send, u.recv, u.common, Sendrecv, video)

ASSUME RenegotiationConstants ==
    /\ MaxOffers \in Nat /\ MaxFaults \in Nat
    /\ \A u \in Setups :
         /\ IsDescription(u.first) /\ \A s \in {"left", "right"} : \A x \in u.offers[s] : IsDescription(x)
         /\ IsVideo(u.video) /\ IsVideo(Shown(u)) /\ IsLocal(u.send) /\ IsLocal(u.recv)
         /\ IsDescription(OwnOffer(u, <<>>)) /\ OwnOffer(u, <<>>)[1].ptime \in Nat \ {0}

VARIABLES setup, stage, leg, peer, resp, acks, late, vrelay, vport, faults
vars == <<setup, stage, leg, peer, resp, acks, late, vrelay, vport, faults>>

Sides == {"left", "right"}
Live(owner) == CASE owner = "relay" -> Sides [] owner = "browser" -> {"right"} [] OTHER -> {"left"}
NoBody == <<>>
NoInvite == [audio |-> <<>>, dir |-> {}, held |-> FALSE, video |-> <<>>, vheld |-> FALSE]
NoLeg == [inv |-> NoInvite, formats |-> <<>>, answer |-> <<>>, version |-> 0, cseq |-> 0,
          cache |-> {}, ack |-> 0]
NoPeer == [mine |-> <<>>, theirs |-> <<>>, asked |-> FALSE, out |-> <<>>, cseq |-> 0, seen |-> {},
           dead |-> FALSE]

Init ==
    /\ setup \in Setups
    /\ stage = "invite"
    /\ leg = [s \in Sides |-> NoLeg]
    /\ peer = [s \in Sides |-> NoPeer]
    /\ resp = [s \in Sides |-> {}]
    /\ acks = [s \in Sides |-> {}]
    /\ late = [s \in Sides |-> {}]
    /\ vrelay = <<>>
    /\ vport = FALSE
    /\ faults = 0

----------------------------------------------------------------------------
(* What one description means for one dialog *)

Invite(s, offer, formats) ==
    LET audio == NegotiateDirectional(offer, setup.send, setup.recv)
        video == IF formats = <<>> THEN <<>>
                 ELSE NegotiateVideoOffer(offer, formats, s = "right" /\ setup.camera,
                                          s = "left" /\ setup.passthrough)
    IN  [i \in DOMAIN audio |->
           [audio |-> audio[i], dir |-> AudioDir(offer), held |-> AudioHeld(offer),
            video |-> video, vheld |-> ~Missing(video) /\ VideoHeld(offer)]]

\* The client reads an answer against its own offer.
Dialog(answer, offer, formats) ==
    LET audio == IF ValidAnswer(offer, answer)
                 THEN NegotiateAnswer(answer, setup.send, setup.recv, offer) ELSE <<>>
        video == NegotiateVideoAnswer(answer, formats)
    IN  [i \in DOMAIN audio |->
           [audio |-> audio[i], dir |-> AudioDir(answer), held |-> AudioHeld(answer),
            video |-> [k \in DOMAIN video |-> [send |-> video[k].send, recv |-> video[k].recv,
                                               answer |-> video[k].recv]],
            vheld |-> ~Missing(video) /\ VideoHeld(answer)]]

CanSend(s) == "send" \in leg[s].inv.dir
CanReceive(s) == "recv" \in leg[s].inv.dir /\ ~leg[s].inv.held
VideoPeer(inv) == [video |-> inv.video[1], held |-> inv.vheld]

----------------------------------------------------------------------------
(* The first offer and its answer *)

Established(inv, formats, description) ==
    [NoLeg EXCEPT !.inv = inv, !.formats = formats, !.answer = description]
PeerKnows(mine, theirs, asked) ==
    [NoPeer EXCEPT !.mine = mine, !.theirs = theirs, !.asked = asked, !.seen = {<<0, theirs>>}]

\* Who may send video: a preanswered call says so before anybody has answered, a softphone
\* only with the user's consent, Assist never.
MaySendVideo(inv) ==
    ~inv.vheld /\ (setup.owner = "preanswer" \/ (setup.owner = "softphone" /\ setup.camera))

LocalAnswer(inv, offer, port) ==
    BuildAnswer(inv.audio, offer, IF port THEN <<inv.video[1].answer>> ELSE <<>>,
                LocalDirectionForOffer(inv.dir, inv.held),
                IF port THEN ConstrainedDirection(inv.video[1].send.dir, MaySendVideo(inv), TRUE) ELSE {})

\* The caller's INVITE reaches an owner that answers it itself.
AnsweredLocally ==
    /\ stage = "invite" /\ setup.owner \in {"softphone", "preanswer", "assist"}
    /\ \E inv \in ToSet(Invite("left", setup.first, setup.video)), got \in BOOLEAN :
         LET answer == LocalAnswer(inv, setup.first, got)
         IN  /\ got => ~Missing(inv.video) /\ setup.owner # "assist"
             /\ vport' = got
             /\ leg' = [leg EXCEPT !["left"] = Established(inv, setup.video, answer)]
             /\ peer' = [peer EXCEPT !["left"] = PeerKnows(setup.first, answer, TRUE)]
    /\ stage' = "up"
    /\ UNCHANGED <<setup, resp, acks, late, vrelay, faults>>

\* A call through Home Assistant: the only video that it offers is the caller's format.
Offered ==
    /\ stage = "invite" /\ setup.owner = "relay"
    /\ \E inv \in ToSet(Invite("left", setup.first, setup.video)), got \in BOOLEAN :
         LET formats == IF got THEN <<inv.video[1].send>> ELSE <<>>
             video == [k \in DOMAIN formats |->
                         Section("video", formats[k].rtp, formats, formats[k].dir, 0)]
             offer == OwnOffer(setup, video)
         IN  /\ got => ~Missing(inv.video)
             /\ leg' = [s \in Sides |-> IF s = "left" THEN Established(inv, setup.video, <<>>)
                                        ELSE Established(NoInvite, formats, offer)]
    /\ stage' = "offered"
    /\ UNCHANGED <<setup, peer, resp, acks, late, vrelay, vport, faults>>

\* A call from a browser: everything that it can show, or only what it can also send.
Originated ==
    /\ stage = "invite" /\ setup.owner = "browser"
    /\ LET formats == Shown(setup)
           dir == IF setup.camera THEN Sendrecv ELSE {"recv"}
           video == IF Missing(formats) THEN <<>> ELSE <<Section("video", "AVP", formats, dir, 0)>>
           offer == OwnOffer(setup, video)
       IN  leg' = [leg EXCEPT !["right"] = Established(NoInvite, formats, offer)]
    /\ stage' = "offered"
    /\ UNCHANGED <<setup, peer, resp, acks, late, vrelay, vport, faults>>

\* The callee's description: one codec of the offer, perhaps under another number.
PeerAnswer(offer, style) ==
    LET Answer(section) ==
          CASE section.media = "audio" ->
                 [section EXCEPT !.dir = style.dir \cap Flip(section.dir), !.held = style.held,
                    !.ptime = style.ptime, !.maxptime = 0,
                    !.formats = <<Codec(style.pt, style.codec)>> \o
                                FirstSuch(section.formats, LAMBDA f : f.codec = "TELEPHONE")]
            [] section.media = "video" /\ style.level # 0 ->
                 [section EXCEPT !.dir = Flip(section.dir),
                    !.formats = <<[section.formats[1] EXCEPT !.level = style.level, !.asym = style.asym]>>]
            [] OTHER -> Rejected(section)
    IN  [i \in 1..(IF style.omit THEN 1 ELSE Len(offer)) |-> Answer(offer[i])]

\* The two halves of a bridge carry encoded video: the caller is answered with the callee's
\* level, if the streams of both directions then fit.
SourceVideo(inv, dialog) ==
    IF Missing(inv.video) \/ Missing(dialog.video) THEN <<>>
    ELSE LET callee == dialog.video[1]
             contract == AnswerContract(inv.video[1].send, callee.send)
             streams == IF Missing(contract) THEN <<>>
                        ELSE OfferAnswerDirectional(inv.video[1].send, contract[1])
         IN  FirstSuch(streams, LAMBDA d : /\ PassthroughCompatible(d.recv, callee.send)
                                           /\ PassthroughCompatible(callee.recv, d.send))

CallerAnswer(inv, dialog) ==
    LET source == SourceVideo(inv, dialog)
        vdir == IF Missing(source) THEN {}
                ELSE ConstrainedDirection(inv.video[1].send.dir,
                        RemoteSends(dialog.video[1].send) /\ ~inv.vheld,
                        RemoteReceives(dialog.video[1].send, dialog.vheld))
    IN  BuildAnswer(inv.audio, setup.first, [k \in DOMAIN source |-> source[k].answer],
                    LocalDirectionForOffer(inv.dir, inv.held), vdir)

\* A callee whose description cannot be used is acknowledged and hung up.
CalleeUnusable(answer) ==
    /\ Missing(Dialog(answer, leg["right"].answer, leg["right"].formats))
    /\ stage' = "over"
    /\ UNCHANGED <<leg, peer, vrelay>>

CalleeAccepted(answer) ==
    \E dialog \in ToSet(Dialog(answer, leg["right"].answer, leg["right"].formats)) :
        LET inv == leg["left"].inv
            source == SourceVideo(inv, dialog)
            callee == PeerKnows(answer, leg["right"].answer, FALSE)
        IN  /\ stage' = "up"
            /\ IF setup.owner = "browser"
               THEN /\ leg' = [leg EXCEPT !["right"].inv = dialog]
                    /\ peer' = [peer EXCEPT !["right"] = callee]
                    /\ UNCHANGED vrelay
               ELSE /\ leg' = [leg EXCEPT !["left"].answer = CallerAnswer(inv, dialog), !["right"].inv = dialog]
                    /\ peer' = [s \in Sides |-> IF s = "right" THEN callee
                                                ELSE PeerKnows(setup.first, CallerAnswer(inv, dialog), TRUE)]
                    /\ vrelay' = [k \in DOMAIN source |->
                                    [left |-> [video |-> source[k], held |-> inv.vheld],
                                     right |-> VideoPeer(dialog)]]

CalleeAnswers ==
    /\ stage = "offered"
    /\ \E style \in setup.answers :
         LET answer == PeerAnswer(leg["right"].answer, style)
         IN  CalleeUnusable(answer) \/ CalleeAccepted(answer)
    /\ UNCHANGED <<setup, resp, acks, late, vport, faults>>

----------------------------------------------------------------------------
(* A peer's later offer, and what the owner of the media makes of it *)

PeerOffers(s) ==
    /\ stage = "up" /\ s \in Live(setup.owner) /\ ~peer[s].dead
    /\ peer[s].out = <<>> /\ peer["left"].cseq + peer["right"].cseq < MaxOffers
    /\ \E method \in {"INVITE", "UPDATE"}, sdp \in setup.offers[s] :
         peer' = [peer EXCEPT ![s].cseq = @ + 1,
                              ![s].out = <<[cseq |-> peer[s].cseq + 1, method |-> method, sdp |-> sdp]>>]
    /\ UNCHANGED <<setup, stage, leg, resp, acks, late, vrelay, vport, faults>>

\* A video port is reserved for the offer that adds the stream.
PortNeeded(inv) ==
    /\ setup.owner \in {"softphone", "preanswer"} /\ ~vport /\ ~Missing(inv.video)
    /\ setup.owner = "softphone" => Missing(leg["left"].inv.video)

RelayAccepts(s, inv) ==
    LET before == leg[s].inv
    IN  IF s = "left"
        THEN ~Missing(inv.video) =>
               /\ ~Missing(vrelay)
               /\ BridgedReofferAccepted(before.video, inv.video, inv.vheld,
                                         vrelay[1].right.video, vrelay[1].right.held)
        ELSE inv # before =>
               /\ Missing(before.video) = Missing(inv.video)
               /\ ~Missing(inv.video) =>
                    /\ ~Missing(vrelay)
                    /\ PassthroughCompatible(vrelay[1].left.video.recv, inv.video[1].send)
                    /\ PassthroughCompatible(inv.video[1].recv, vrelay[1].left.video.send)

BrowserAccepts(before, inv) ==
    /\ Missing(before.video) = Missing(inv.video)
    /\ ~Missing(inv.video) =>
         /\ RenegotiationCompatible(before.video[1].send, inv.video[1].send)
         /\ RenegotiationCompatible(before.video[1].recv, inv.video[1].recv)

OwnerAccepts(s, inv, got) ==
    CASE setup.owner \in {"softphone", "preanswer"} ->
           DirectReofferAccepted(leg[s].inv.video, inv.video) /\ (PortNeeded(inv) => got)
      [] setup.owner = "relay" -> RelayAccepts(s, inv)
      [] setup.owner = "browser" -> BrowserAccepts(leg[s].inv, inv)
      [] OTHER -> TRUE

\* Variant: the port outlives the stream.
PortKept(inv, got) == vport \/ got

PortAfter(inv, got) == ~Missing(inv.video) /\ (vport \/ got)

\* The caller of a relay is answered with what the callee's last offer allows.
RelayAnswer(inv, offer) ==
    LET audio == ConstrainedDirection(inv.dir, CanSend("right") /\ ~inv.held, CanReceive("right"))
        callee == vrelay[1].right
        vdir == IF Missing(inv.video) THEN {}
                ELSE ConstrainedDirection(inv.video[1].send.dir, RemoteSends(callee.video.send) /\ ~inv.vheld,
                                          RemoteReceives(callee.video.send, callee.held))
    IN  BuildAnswer(inv.audio, offer, [k \in DOMAIN inv.video |-> inv.video[k].answer], audio, vdir)

\* The client knows nothing of the other dialog: its own offer's direction bounds the video.
ClientAnswer(inv, offer) ==
    LET may == IF setup.owner = "browser" THEN (IF setup.camera THEN Sendrecv ELSE {"recv"})
               ELSE leg["right"].formats[1].dir
        vdir == IF Missing(inv.video) THEN {}
                ELSE ConstrainedDirection(inv.video[1].send.dir,
                        /\ "send" \in may /\ ~inv.vheld
                        /\ setup.owner = "browser" => BrowserSends(inv.video[1].send),
                        "recv" \in may)
    IN  BuildAnswer(inv.audio, offer, [k \in DOMAIN inv.video |-> inv.video[k].answer],
                    LocalDirectionForOffer(inv.dir, inv.held), vdir)

AnswerTo(s, inv, offer, port) ==
    CASE s = "right" -> ClientAnswer(inv, offer)
      [] s = "left" /\ setup.owner = "relay" -> RelayAnswer(inv, offer)
      [] OTHER -> LocalAnswer(inv, offer, port /\ setup.owner # "assist")

Arriving(s) == IF stage = "up" THEN ToSet(peer[s].out) \cup late[s] ELSE {}
Cached(s, m) == {r \in leg[s].cache : r.cseq = m.cseq}
Response(m, status, sdp, version) ==
    [cseq |-> m.cseq, method |-> m.method, status |-> status, sdp |-> sdp, version |-> version]

\* A transaction that has its response is given the same one again.
RepeatAnswer(s, m) ==
    /\ m \in Arriving(s) /\ Cached(s, m) # {}
    /\ resp' = [resp EXCEPT ![s] = @ \cup Cached(s, m)]
    /\ late' = [late EXCEPT ![s] = @ \ {m}]
    /\ UNCHANGED <<setup, stage, leg, peer, acks, vrelay, vport, faults>>

Remembered(s, m, r) ==
    [leg[s] EXCEPT !.cseq = m.cseq, !.cache = @ \cup {r}]

\* Without a body an UPDATE refreshes the session; a re-INVITE would ask for our offer.
Declined(s, m, status) ==
    LET r == Response(m, status, NoBody, 0)
    IN  /\ leg' = [leg EXCEPT ![s] = Remembered(s, m, r)]
        /\ resp' = [resp EXCEPT ![s] = @ \cup {r}]
        /\ UNCHANGED <<setup, stage, peer, acks, late, vrelay, vport, faults>>

RefreshSession(s, m) ==
    /\ m \in Arriving(s) /\ Cached(s, m) = {} /\ m.sdp = NoBody
    /\ Declined(s, m, IF m.method = "UPDATE" THEN 200 ELSE 488)

RefuseOffer(s, m) ==
    /\ m \in Arriving(s) /\ Cached(s, m) = {} /\ m.sdp # NoBody
    /\ \A inv \in ToSet(Invite(s, m.sdp, leg[s].formats)) : ~OwnerAccepts(s, inv, FALSE)
    /\ Declined(s, m, 488)

\* The response leaves before the commit; both belong to one step.
Committed(s, inv) ==
    IF Missing(vrelay) \/ Missing(inv.video) THEN vrelay
    ELSE <<[vrelay[1] EXCEPT ![s] = VideoPeer(inv)]>>

AcceptOffer(s, m) ==
    /\ m \in Arriving(s) /\ Cached(s, m) = {} /\ m.sdp # NoBody
    /\ \E inv \in ToSet(Invite(s, m.sdp, leg[s].formats)), got \in BOOLEAN :
         LET port == PortAfter(inv, got)
             answer == AnswerTo(s, inv, m.sdp, port)
             version == NextVersion(leg[s].answer, answer, leg[s].version)
             r == Response(m, 200, answer, version)
         IN  /\ got => PortNeeded(inv)
             /\ OwnerAccepts(s, inv, got)
             /\ leg' = [leg EXCEPT ![s] = [Remembered(s, m, r) EXCEPT
                          !.inv = inv, !.answer = answer, !.version = version,
                          !.ack = IF m.method = "INVITE" THEN m.cseq ELSE @]]
             /\ resp' = [resp EXCEPT ![s] = @ \cup {r}]
             /\ vrelay' = Committed(s, inv)
             /\ vport' = (port /\ setup.owner \in {"softphone", "preanswer"})
    /\ UNCHANGED <<setup, stage, peer, acks, late, faults>>

\* A response that cannot be sent leaves the old media in place; the client gives its dialog up.
AnswerUnsent(s, m) ==
    /\ m \in Arriving(s) /\ Cached(s, m) = {} /\ faults < MaxFaults
    /\ faults' = faults + 1
    /\ stage' = IF s = "right" THEN "over" ELSE stage
    /\ UNCHANGED <<setup, leg, peer, resp, acks, late, vrelay, vport>>

----------------------------------------------------------------------------
(* Responses and ACKs *)

PeerReceives(s, r) ==
    LET mine == /\ peer[s].out # <<>>
                /\ peer[s].out[1].cseq = r.cseq
        learned == IF r.status = 200 /\ r.sdp # NoBody
                   THEN [peer[s] EXCEPT !.mine = peer[s].out[1].sdp, !.theirs = r.sdp, !.asked = TRUE,
                                        !.seen = @ \cup {<<r.version, r.sdp>>}, !.out = <<>>]
                   ELSE [peer[s] EXCEPT !.out = <<>>]
    IN  /\ r \in resp[s] /\ ~peer[s].dead /\ stage = "up"
        /\ resp' = [resp EXCEPT ![s] = @ \ {r}]
        /\ peer' = IF mine THEN [peer EXCEPT ![s] = learned] ELSE peer
        /\ acks' = IF r.status = 200 /\ r.method = "INVITE"
                   THEN [acks EXCEPT ![s] = @ \cup {r.cseq}] ELSE acks
        /\ \E copy \in BOOLEAN :
             /\ copy => mine /\ faults < MaxFaults
             /\ late' = IF copy THEN [late EXCEPT ![s] = @ \cup {peer[s].out[1]}] ELSE late
             /\ faults' = IF copy THEN faults + 1 ELSE faults
    /\ UNCHANGED <<setup, stage, leg, vrelay, vport>>

HearAck(s, cseq) ==
    /\ stage = "up" /\ cseq \in acks[s]
    /\ acks' = [acks EXCEPT ![s] = @ \ {cseq}]
    /\ leg' = IF leg[s].ack = cseq THEN [leg EXCEPT ![s].ack = 0] ELSE leg
    /\ UNCHANGED <<setup, stage, peer, resp, late, vrelay, vport, faults>>

\* Variant: the next request of the dialog ends the repetition.
RepeatNewest(s) ==
    /\ stage = "up" /\ leg[s].ack # 0 /\ leg[s].ack = leg[s].cseq
    /\ resp' = [resp EXCEPT ![s] = @ \cup {r \in leg[s].cache : r.cseq = leg[s].ack}]
    /\ UNCHANGED <<setup, stage, leg, peer, acks, late, vrelay, vport, faults>>

\* A 2xx of an INVITE is repeated over every transport until its ACK comes.
RepeatFinal(s) ==
    /\ stage = "up" /\ leg[s].ack # 0
    /\ resp' = [resp EXCEPT ![s] = @ \cup {r \in leg[s].cache : r.cseq = leg[s].ack}]
    /\ UNCHANGED <<setup, stage, leg, peer, acks, late, vrelay, vport, faults>>

\* Thirty-two seconds without an ACK: whoever never acknowledged is gone.
AckTimeout(s) ==
    /\ stage = "up" /\ leg[s].ack # 0 /\ peer[s].dead /\ acks[s] = {}
    /\ stage' = "over"
    /\ UNCHANGED <<setup, leg, peer, resp, acks, late, vrelay, vport, faults>>

Lost(s) ==
    /\ stage = "up" /\ faults < MaxFaults
    /\ \/ \E r \in resp[s] : resp' = [resp EXCEPT ![s] = @ \ {r}] /\ UNCHANGED acks
       \/ \E c \in acks[s] : acks' = [acks EXCEPT ![s] = @ \ {c}] /\ UNCHANGED resp
    /\ faults' = faults + 1
    /\ UNCHANGED <<setup, stage, leg, peer, late, vrelay, vport>>

\* The peer is gone before it has acknowledged.
PeerDies(s) ==
    /\ stage = "up" /\ leg[s].ack # 0 /\ ~peer[s].dead
    /\ peer' = [peer EXCEPT ![s].dead = TRUE]
    /\ UNCHANGED <<setup, stage, leg, resp, acks, late, vrelay, vport, faults>>

Handle(s) ==
    \E m \in Arriving(s) : RepeatAnswer(s, m) \/ RefreshSession(s, m) \/ RefuseOffer(s, m)
                           \/ AcceptOffer(s, m) \/ AnswerUnsent(s, m)
Receive(s) == \E r \in resp[s] : PeerReceives(s, r)
Acked(s) == \E c \in acks[s] : HearAck(s, c)

Next ==
    \/ AnsweredLocally \/ Offered \/ Originated \/ CalleeAnswers
    \/ \E s \in Sides : \/ PeerOffers(s) \/ Handle(s) \/ Receive(s) \/ Acked(s)
                        \/ RepeatFinal(s) \/ AckTimeout(s) \/ Lost(s) \/ PeerDies(s)

\* Exactly the states in which Handle(s) can change something.
Waiting(s) ==
    \E m \in Arriving(s) : Cached(s, m) = {} \/ m \in late[s] \/ ~(Cached(s, m) \subseteq resp[s])

\* The signalling task reads what arrives (weak fairness of Handle, with its enabling condition
\* written out: TLC evaluates ENABLED of the negotiation far too slowly), the 2xx task repeats and
\* times out.
Fairness ==
    \A s \in Sides : /\ []<>~Waiting(s) \/ []<><<Handle(s)>>_vars
                     /\ WF_vars(Receive(s)) /\ WF_vars(Acked(s))
                     /\ WF_vars(RepeatFinal(s)) /\ WF_vars(AckTimeout(s))

Spec == Init /\ [][Next]_vars /\ Fairness
----------------------------------------------------------------------------
(* Properties *)

RenegotiationTypeOK ==
    /\ setup \in Setups /\ stage \in {"invite", "offered", "up", "over"} /\ vport \in BOOLEAN
    /\ \A s \in Sides :
         /\ leg[s].cseq \in 0..MaxOffers /\ leg[s].ack \in 0..leg[s].cseq /\ leg[s].version \in Nat
         /\ leg[s].inv.dir \subseteq Sendrecv /\ Len(leg[s].inv.video) <= 1
         /\ {r.cseq : r \in resp[s]} \cup acks[s] \cup {m.cseq : m \in late[s]} \subseteq 1..peer[s].cseq
         /\ \A r \in leg[s].cache : r.cseq <= leg[s].cseq /\ r.status \in {200, 488}
    /\ Len(vrelay) <= 1 /\ (vrelay # <<>> => setup.owner = "relay")

\* The dialogs whose last offer has been answered as the peer sees it.
Settled == {s \in Live(setup.owner) : stage = "up" /\ peer[s].out = <<>>}
PtOf(sdp, codec) == {f.pt : f \in {f \in ToSet(Audio(sdp)[1].formats) : f.codec = codec}}

\* A peer's description, ours, whether the peer's was the offer, and what Home Assistant made of
\* them.  While a direction is open, it sends the codec of the answer under the peer's own number
\* for it and in frames that the peer's section allows, and expects the number and the frame
\* length that it told the peer.
AudioReadAlike(mine, theirs, asked, audio) ==
    LET p == Audio(mine)[1]
        h == Audio(theirs)[1]
        codec == Audio(IF asked THEN theirs ELSE mine)[1].formats[1].codec
    IN  /\ "recv" \in p.dir /\ "send" \in h.dir =>
             /\ audio.send.codec = codec /\ audio.send.pt \in PtOf(mine, codec)
             /\ FrameFits([frame |-> p.ptime, min |-> p.minptime, max |-> p.maxptime], audio.send.frame)
        /\ "send" \in p.dir /\ "recv" \in h.dir =>
             /\ audio.recv.codec = codec /\ audio.recv.pt \in PtOf(theirs, codec)
             /\ audio.recv.frame = h.ptime

\* Both ends of a dialog read the two descriptions of its audio alike.
AudioAgrees ==
    \A s \in Settled : AudioReadAlike(peer[s].mine, peer[s].theirs, peer[s].asked, leg[s].inv.audio)

\* What the halves of a bridge carry, or what an owner that ends the call itself negotiated.
Carried(s) ==
    IF setup.owner = "relay" THEN [k \in DOMAIN vrelay |-> vrelay[k][s].video] ELSE leg[s].inv.video
Limit(f, offered, answered) ==
    CASE f.codec = "H264" -> IF offered.asym /\ answered.asym THEN f.level ELSE answered.level
      [] OTHER -> f.fmtp

\* A stream that the answer accepts is sent within the limit of its receiver: RFC 6184's level (the
\* answer's, unless both ends declared asymmetry) or the limit that a VP8 receiver declared.
VideoReadAlike(mine, theirs, asked, stream) ==
    LET answer == Video(IF asked THEN theirs ELSE mine)
        offer == Video(IF asked THEN mine ELSE theirs)
    IN  \A k \in DOMAIN answer :
          LET answered == answer[k].formats[1]
              offered == CHOOSE f \in ToSet(offer[1].formats) : f.pt = answered.pt
              p == IF asked THEN offered ELSE answered
              h == IF asked THEN answered ELSE offered
          IN  /\ stream.send.codec = p.codec /\ stream.send.pt = p.pt /\ stream.recv.pt = h.pt
              /\ Limit(stream.send, stream.send, stream.send) = Limit(p, offered, answered)
              /\ Limit(stream.recv, stream.recv, stream.recv) = Limit(h, offered, answered)

VideoAgrees ==
    \A s \in Settled : \A v \in ToSet(Carried(s)) :
        VideoReadAlike(peer[s].mine, peer[s].theirs, peer[s].asked, v)

\* Whatever Home Assistant answers keeps the sections of the offer, names a codec of it and claims
\* no direction that the offer excludes: a peer that validates it as the client does accepts it.
AnswersAreValid ==
    \A s \in Sides : peer[s].asked => ValidAnswer(peer[s].mine, peer[s].theirs)

\* What the two ends of a dialog agreed on holds at both of them.
ContractsAgree == AudioAgrees /\ VideoAgrees /\ AnswersAreValid

\* RFC 3264: a version of the o= line that a peer has seen names one description, so a peer that
\* skips a version it knows skips nothing.
VersionsIdentify ==
    \A s \in Sides : \A x, y \in peer[s].seen : x[1] = y[1] => x[2] = y[2]

\* A port for a softphone's or a preanswered call's video is held only while the dialog's
\* contract has a video stream that was answered with a port: whatever became of the offers
\* that staged one, none stays behind.
VideoPortsUsed ==
    stage = "up" /\ setup.owner # "relay" =>
        (vport => leg["left"].inv.video # <<>> /\ ~Missing(Video(leg["left"].answer)))

\* Encoded frames go through a bridge untouched, so the path of every open direction must be one
\* that its receiver can decode, whatever offers of either side were accepted in between.
VideoStaysDecodable ==
    \A v \in ToSet(vrelay) : \A from \in Sides : \A to \in Sides \ {from} :
        RemoteSends(v[from].video.send) /\ RemoteReceives(v[to].video.send, v[to].held)
          => PassthroughCompatible(v[from].video.recv, v[to].video.send)

\* An offer is settled and a 2xx acknowledged although responses and ACKs are lost and requests
\* come twice, unless the peer itself is gone; then the dialog is given up.
OfferSettles ==
    \A s \in Sides :
       /\ (peer[s].out # <<>>) ~> (peer[s].out = <<>> \/ peer[s].dead \/ stage = "over")
       /\ (leg[s].ack # 0) ~> (leg[s].ack = 0 \/ stage = "over")

============================================================================
