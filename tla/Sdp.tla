-------------------------------- MODULE Sdp --------------------------------
(***************************************************************************)
(* The offer/answer algorithms of sdp.py and of the policies that use them. *)
(*                                                                          *)
(* A description is a sequence of media sections                            *)
(*   [media, on, rtp, usable, formats, dir, held, ptime, minptime, maxptime] *)
(* where "on" is a port other than zero, "usable" stands for a connection   *)
(* that this profile can answer, and a direction is the set of what its     *)
(* author does: {"send", "recv"}, one of the two, or nothing.  A format     *)
(* that may be missing is a sequence of at most one element.                *)
(***************************************************************************)
EXTENDS Integers, Sequences, FiniteSets, SequencesExt

Missing(x) == x = <<>>

\* The first element that passes, and the first result of Op that is not missing.
FirstSuch(s, Test(_)) ==
    LET I == {i \in 1..Len(s) : Test(s[i])} IN IF I = {} THEN <<>> ELSE <<s[Min(I)]>>
FirstOf(s, Op(_)) ==
    LET I == {i \in 1..Len(s) : ~Missing(Op(s[i]))} IN IF I = {} THEN <<>> ELSE Op(s[Min(I)])
FirstPair(outer, inner, Op(_, _)) ==
    FirstOf(outer, LAMBDA x : FirstOf(inner, LAMBDA y : Op(x, y)))

----------------------------------------------------------------------------
(* Directions *)

Sendrecv == {"send", "recv"}
Flip(d) == {IF x = "send" THEN "recv" ELSE "send" : x \in d}

ConstrainedDirection(remote, allowSend, allowReceive) ==
    {x \in Flip(remote) : IF x = "send" THEN allowSend ELSE allowReceive}

LocalDirectionForOffer(remote, held) == ConstrainedDirection(remote, ~held, TRUE)

SuppressLocalSend(d) == d \ {"send"}

\* Which local capabilities decide the formats; a held stream keeps those of its resumption.
FormatDirection(remote, local, inactiveDefault) ==
    CASE local # {} -> local
      [] local = {} /\ Cardinality(remote) = 1 -> Flip(remote)
      [] OTHER -> IF inactiveDefault = {} THEN Sendrecv ELSE inactiveDefault

----------------------------------------------------------------------------
(* Audio: a local format is [pcm, frame], a payload [pt, codec, frame, min, max] *)

Payload(pt, codec, frame) == [pt |-> pt, codec |-> codec, frame |-> frame, min |-> 0, max |-> 0]

Carries == [wide   |-> {"L16wide"}, deep |-> {"L24wide"}, stereo |-> {"OPUS"},
            narrow |-> {"L16narrow", "PCMA", "PCMU"}]

Mappable(l) == l.pcm # "stereo"

FrameFits(o, f) ==
    \/ f = o.frame
    \/ /\ o.min # 0 => f >= o.min
       /\ o.max # 0 => f <= o.max
       /\ o.frame # 0 => /\ o.min # 0 \/ o.max # 0
                         /\ o.max = 0 => f <= o.frame
                         /\ o.min = 0 => f >= o.frame

\* A payload number that names no codec is skipped by whoever reads the section.
StaticCodec == [pt \in {0, 8, 26} |-> CASE pt = 0 -> "PCMU" [] pt = 8 -> "PCMA" [] pt = 26 -> "JPEG"]
Mapped(f) == f.pt >= 96 \/ (f.pt \in DOMAIN StaticCodec /\ StaticCodec[f.pt] = f.codec)

CompatibleAudio(o, l) ==
    IF /\ Mapped(o) /\ FrameFits(o, l.frame)
       /\ o.codec \in Carries[l.pcm]
       /\ o.codec = "OPUS" => l.frame = 20
    THEN <<Payload(o.pt, o.codec, l.frame)>> ELSE <<>>

FirstMatch(offered, locals) == FirstPair(offered, locals, CompatibleAudio)
BestMatch(offered, locals) == FirstPair(locals, offered, LAMBDA l, o : CompatibleAudio(o, l))

BidirectionalMatch(offered, sendF, recvF) ==
    LET Usable(s, o) == IF \E r \in ToSet(recvF) : CompatibleAudio(o, r) = CompatibleAudio(o, s)
                        THEN CompatibleAudio(o, s) ELSE <<>>
        Both(x) == [send |-> x, recv |-> x]
        found == FirstPair(sendF, offered, Usable)
    IN  [i \in DOMAIN found |-> Both(found[i])]

NegotiateForDirection(offered, sendF, recvF, dir) ==
    LET one == BestMatch(offered, IF dir = {"send"} THEN sendF ELSE recvF)
    IN  IF dir = Sendrecv THEN BidirectionalMatch(offered, sendF, recvF)
        ELSE [i \in DOMAIN one |-> [send |-> one[i], recv |-> one[i]]]

\* The answer's payload numbers name what we send, our offer's what we receive.
NegotiateWithOfferPayloads(answered, offered, sendF, recvF, dir) ==
    LET Contract(a, o) ==
          LET s == FirstMatch(<<a>>, sendF)
              r == FirstMatch(<<o>>, recvF)
          IN  CASE a.codec # o.codec -> <<>>
                [] a.codec = o.codec /\ dir = {"send"} /\ ~Missing(s) ->
                     <<[send |-> s[1], recv |-> [s[1] EXCEPT !.pt = o.pt, !.frame = o.frame]]>>
                [] a.codec = o.codec /\ dir = {"recv"} /\ ~Missing(r) ->
                     <<[send |-> [r[1] EXCEPT !.pt = a.pt, !.frame = a.frame], recv |-> r[1]]>>
                [] a.codec = o.codec /\ dir = Sendrecv /\ ~Missing(s) /\ ~Missing(r) ->
                     <<[send |-> s[1], recv |-> r[1]]>>
                [] OTHER -> <<>>
    IN  FirstPair(answered, offered, Contract)

----------------------------------------------------------------------------
(* What a description says *)

\* The first active RTP/AVP section; without a connection that can be used the description is none.
Audio(sdp) ==
    LET a == FirstSuch(sdp, LAMBDA s : s.media = "audio" /\ s.on /\ s.rtp = "AVP")
    IN  IF ~Missing(a) /\ a[1].usable THEN a ELSE <<>>

\* The first video section, when this profile can answer it.
Video(sdp) ==
    LET v == FirstSuch(sdp, LAMBDA s : s.media = "video")
    IN  IF ~Missing(v) /\ v[1].on /\ v[1].usable THEN v ELSE <<>>

\* ptime, minptime and maxptime belong to the section, so to each of its payloads.
OfferedPcm(sdp) ==
    IF Missing(Audio(sdp)) THEN <<>>
    ELSE LET s == Audio(sdp)[1]
         IN  [k \in DOMAIN s.formats |->
                [pt |-> s.formats[k].pt, codec |-> s.formats[k].codec,
                 frame |-> s.ptime, min |-> s.minptime, max |-> s.maxptime]]

\* The keypad events, under the first number that names them.
OfferedDtmf(sdp) ==
    IF Missing(Audio(sdp)) THEN <<>>
    ELSE FirstSuch(Audio(sdp)[1].formats, LAMBDA f : Mapped(f) /\ f.codec = "TELEPHONE")

OfferedVideo(sdp) ==
    IF Missing(Video(sdp)) THEN <<>>
    ELSE LET s == Video(sdp)[1]
         IN  [k \in DOMAIN s.formats |-> [s.formats[k] EXCEPT !.dir = s.dir, !.rtp = s.rtp]]

AudioDir(sdp) == Audio(sdp)[1].dir
AudioHeld(sdp) == Audio(sdp)[1].held
VideoHeld(sdp) == ~Missing(Video(sdp)) /\ Video(sdp)[1].held

NegotiateDirectional(remote, sendF, recvF) ==
    IF Missing(Audio(remote)) THEN <<>>
    ELSE LET d == LocalDirectionForOffer(AudioDir(remote), AudioHeld(remote))
         IN  NegotiateForDirection(OfferedPcm(remote), sendF, recvF,
                                   FormatDirection(AudioDir(remote), d, Sendrecv))

\* Variant: both directions use the numbers of the answer.
NegotiateAnswerNumbers(remote, sendF, recvF, offer) ==
    LET d == LocalDirectionForOffer(AudioDir(remote), AudioHeld(remote))
    IN  NegotiateWithOfferPayloads(OfferedPcm(remote), OfferedPcm(remote), sendF, recvF,
                                   FormatDirection(AudioDir(remote), d, AudioDir(offer)))

NegotiateAnswer(remote, sendF, recvF, offer) ==
    IF Missing(Audio(remote)) THEN <<>>
    ELSE LET d == LocalDirectionForOffer(AudioDir(remote), AudioHeld(remote))
         IN  NegotiateWithOfferPayloads(OfferedPcm(remote), OfferedPcm(offer), sendF, recvF,
                                        FormatDirection(AudioDir(remote), d, AudioDir(offer)))

----------------------------------------------------------------------------
(* Video: [pt, codec, rtp, mode, sub, level, asym, fmtp, dir]; fmtp is the    *)
(* receiver's limit of a codec that has one and the whole contract of one     *)
(* that must be repeated exactly.                                             *)

SameCodec(a, b) == a.codec = b.codec /\ a.rtp = b.rtp
SameProfile(a, b) == a.mode = b.mode /\ a.sub = b.sub
BothAsymmetric(a, b) == a.asym /\ b.asym

LevelSize == [l \in {10, 11, 13, 20, 22, 31, 40} |->
    CASE l = 10 -> 99 [] l \in {11, 13, 20} -> 396 [] l = 22 -> 1620 [] l = 31 -> 3600 [] l = 40 -> 8192]

\* An explicit limit may only extend what the level requires.
Envelope(f) == {x \in {IF f.fmtp = 0 THEN LevelSize[f.level] ELSE f.fmtp} : x >= LevelSize[f.level]}

StreamFits(source, destination) ==
    /\ source.sub = destination.sub
    /\ source.level <= destination.level
    /\ \E x \in Envelope(source), y \in Envelope(destination) : x <= y

PassthroughCompatible(source, destination) ==
    /\ SameCodec(source, destination)
    /\ source.codec = "H264" => source.mode = destination.mode /\ StreamFits(source, destination)
    /\ source.codec \notin {"H264", "VP8"} => source.fmtp = destination.fmtp

RenegotiationCompatible(previous, updated) ==
    /\ SameCodec(previous, updated)
    /\ previous.codec = "H264" => SameProfile(previous, updated)
    /\ previous.codec \notin {"H264", "VP8"} => previous.fmtp = updated.fmtp

RemoteSends(f) == "send" \in f.dir
RemoteReceives(f, held) == "recv" \in f.dir /\ ~held

\* Only a path that was active and stays active must keep its codec.
DirectionalCompatible(previous, updated) ==
    /\ RemoteReceives(previous.send, FALSE) /\ RemoteReceives(updated.send, FALSE)
         => RenegotiationCompatible(previous.send, updated.send)
    /\ RemoteSends(previous.send) /\ RemoteSends(updated.send)
         => RenegotiationCompatible(previous.recv, updated.recv)

\* Without asymmetry on both sides an answer may lower the level and never raise it.
AnswerCompatible(offered, answered) ==
    /\ SameProfile(offered, answered)
    /\ BothAsymmetric(offered, answered) \/ answered.level <= offered.level

\* The level that the destination selected, on the offerer's own payload.
AnswerContract(offered, answered) ==
    CASE ~SameCodec(offered, answered) -> <<>>
      [] SameCodec(offered, answered) /\ offered.codec = "VP8" -> <<[offered EXCEPT !.fmtp = answered.fmtp]>>
      [] SameCodec(offered, answered) /\ offered.codec = "H264" ->
           IF AnswerCompatible(offered, answered)
           THEN <<[answered EXCEPT !.pt = offered.pt, !.dir = offered.dir,
                                   !.asym = BothAsymmetric(offered, answered)]>> ELSE <<>>
      [] OTHER -> IF offered.fmtp = answered.fmtp THEN <<offered>> ELSE <<>>

OfferAnswerDirectional(offered, answered) ==
    CASE ~SameCodec(offered, answered) -> <<>>
      [] SameCodec(offered, answered) /\ offered.codec = "H264" ->
           IF ~AnswerCompatible(offered, answered) THEN <<>>
           ELSE IF BothAsymmetric(offered, answered)
                THEN <<[send |-> offered, recv |-> answered, answer |-> answered]>>
                ELSE <<[send |-> [offered EXCEPT !.level = answered.level, !.asym = FALSE],
                        recv |-> [answered EXCEPT !.asym = FALSE], answer |-> answered]>>
      [] OTHER -> IF offered.codec = "VP8" \/ offered.fmtp = answered.fmtp
                  THEN <<[send |-> offered, recv |-> answered, answer |-> answered]>> ELSE <<>>

MatchingLocal(offered, locals) ==
    FirstSuch(locals, LAMBDA l : /\ l.codec = offered.codec
                                 /\ offered.codec = "H264" => SameProfile(offered, l))

ProjectLocalAnswer(offered, local) ==
    LET both == BothAsymmetric(offered, local)
        level == IF both \/ local.level < offered.level THEN local.level ELSE offered.level
        receiver == [offered EXCEPT !.level = level, !.asym = both, !.fmtp = local.fmtp]
        echo == [local EXCEPT !.pt = offered.pt, !.dir = offered.dir, !.rtp = offered.rtp]
    IN  IF offered.codec = "H264"
        THEN <<[send |-> IF both THEN offered ELSE receiver, recv |-> receiver, answer |-> receiver]>>
        ELSE IF offered.codec = "VP8" \/ offered.fmtp = echo.fmtp
             THEN <<[send |-> offered, recv |-> echo, answer |-> echo]>> ELSE <<>>

BrowserSends(f) == f.codec = "VP8" \/ (f.codec = "H264" /\ f.mode = 1)
BrowserReceives(f) == f.codec \in {"H264", "VP8", "JPEG"}

\* The offer's order within each class: what a browser can also send, then what it can show.
NegotiateVideoOffer(remote, locals, preferSend, passthrough) ==
    LET Negotiated(o) ==
          LET m == MatchingLocal(o, locals)
          IN  IF ~Mapped(o) THEN <<>>
              ELSE IF ~Missing(m) THEN ProjectLocalAnswer(o, m[1])
              ELSE IF passthrough THEN ProjectLocalAnswer(o, o) ELSE <<>>
        Class(Test(_)) ==
          FirstOf(OfferedVideo(remote),
                  LAMBDA o : IF ~Missing(Negotiated(o)) /\ Test(Negotiated(o)[1]) THEN Negotiated(o) ELSE <<>>)
        sendable == Class(LAMBDA d : preferSend /\ BrowserSends(d.send))
        viewable == Class(LAMBDA d : BrowserReceives(d.recv))
    IN  IF ~Missing(sendable) THEN sendable
        ELSE IF ~Missing(viewable) THEN viewable ELSE Class(LAMBDA d : TRUE)

\* A payload number of the offer always names the offer's codec; another number may be new.
MatchingOffered(selected, offered) ==
    LET exact == FirstSuch(offered, LAMBDA o : o.pt = selected.pt)
        Accepts(o) == /\ SameCodec(o, selected)
                      /\ o.codec = "H264" => AnswerCompatible(o, selected)
                      /\ o.codec \notin {"H264", "VP8"} => o.fmtp = selected.fmtp
    IN  FirstSuch(IF Missing(exact) THEN offered ELSE exact, Accepts)

NegotiateVideoAnswer(remote, offered) ==
    LET Contract(s) ==
          LET c == MatchingOffered(s, offered)
          IN  CASE Missing(c) \/ ~Mapped(s) -> <<>>
                [] ~Missing(c) /\ Mapped(s) /\ s.codec = "H264" /\ ~BothAsymmetric(c[1], s) ->
                     LET common == [AnswerContract(c[1], s)[1] EXCEPT !.dir = s.dir]
                     IN  <<[send |-> [common EXCEPT !.pt = s.pt], recv |-> common]>>
                [] OTHER -> <<[send |-> s, recv |-> [c[1] EXCEPT !.dir = s.dir]]>>
    IN  FirstOf(OfferedVideo(remote), Contract)

----------------------------------------------------------------------------
(* Building descriptions *)

Section(media, rtp, formats, dir, frame) ==
    [media |-> media, on |-> TRUE, rtp |-> rtp, usable |-> TRUE, formats |-> formats, dir |-> dir,
     held |-> FALSE, ptime |-> frame, minptime |-> 0, maxptime |-> frame]
Rejected(section) == [section EXCEPT !.on = FALSE]
Codec(pt, codec) == [pt |-> pt, codec |-> codec]

FormatsForDirection(sendF, recvF, dir) ==
    CASE dir = {"send"} -> sendF
      [] dir = {"recv"} -> recvF
      [] OTHER -> SelectSeq(sendF, LAMBDA l : l \in ToSet(recvF))

\* One frame length for a section: that of the format that ranks first.
OfferFormats(formats) ==
    LET Rank(l) == 100 * (CASE l.pcm = "wide" -> 0 [] l.pcm = "narrow" -> 1 [] OTHER -> 2) + l.frame
        ranked == SetToSortSeq({l \in ToSet(formats) : Mappable(l)}, LAMBDA a, b : Rank(a) < Rank(b))
    IN  SelectSeq(ranked, LAMBDA l : l.frame = ranked[1].frame)

CommonCodecs(formats) ==
    (IF [pcm |-> "stereo", frame |-> 20] \in ToSet(formats) THEN <<Codec(98, "OPUS")>> ELSE <<>>)
    \o (IF [pcm |-> "narrow", frame |-> 20] \in ToSet(formats)
        THEN <<Codec(8, "PCMA"), Codec(0, "PCMU")>> ELSE <<>>)

LinearCodec(l) == CASE l.pcm = "wide" -> "L16wide" [] l.pcm = "deep" -> "L24wide" [] OTHER -> "L16narrow"

BuildOffer(sendF, recvF, common, dir, video) ==
    LET formats == FormatsForDirection(sendF, recvF, dir)
        pcm == OfferFormats(formats)
        shared == IF common THEN CommonCodecs(formats) ELSE <<>>
        free == SelectSeq([i \in 1..10 |-> 95 + i], LAMBDA pt : pt \notin {c.pt : c \in ToSet(shared)})
        linear == [i \in DOMAIN pcm |-> Codec(free[i], LinearCodec(pcm[i]))]
        frame == IF shared = <<>> THEN pcm[1].frame ELSE 20
        keypad == Codec(free[Len(pcm) + 1], "TELEPHONE")
    IN  <<Section("audio", "AVP", shared \o linear \o <<keypad>>, dir, frame)>> \o video

\* The sections of the offer in their order; whatever is not selected has port zero.
AnswerSections(remote, audio, video, videoDir) ==
    LET firstAudio == SelectInSeq(remote, LAMBDA s : s.media = "audio" /\ s.on /\ s.rtp = "AVP" /\ s.usable)
        firstVideo == SelectInSeq(remote, LAMBDA s : s.media = "video")
        Taken(s) == /\ ~Missing(video) /\ s.on /\ s.usable
                    /\ \E f \in ToSet(s.formats) : f.pt = video[1].pt
        Dir(s) == IF s.held THEN SuppressLocalSend(videoDir) ELSE videoDir
    IN  [i \in DOMAIN remote |->
           IF i = firstAudio THEN audio
           ELSE IF i = firstVideo /\ Taken(remote[i])
                THEN Section("video", video[1].rtp, video, Dir(remote[i]), 0)
                ELSE Rejected(remote[i])]

BuildAnswer(contract, remote, video, audioDir, videoDir) ==
    LET dir == IF AudioHeld(remote) THEN SuppressLocalSend(audioDir) ELSE audioDir
        selected == IF FormatDirection(AudioDir(remote), dir, Sendrecv) = {"recv"}
                    THEN contract.recv ELSE contract.send
        keypad == FirstSuch(OfferedDtmf(remote), LAMBDA f : f.pt # selected.pt)
        audio == Section("audio", "AVP", <<Codec(selected.pt, selected.codec)>> \o keypad, dir, selected.frame)
    IN  AnswerSections(remote, audio, video, videoDir)

\* Variant: the o= line of the first answer is sent for ever.
FirstVersion(previous, updated, version) == version

\* The version of o= rises exactly when the description differs from the last one.
NextVersion(previous, updated, version) == IF previous = updated THEN version ELSE version + 1

----------------------------------------------------------------------------
(* validate_sdp_answer: the same sections in the same order, a codec of the offer,   *)
(* no number that changes its codec, and a direction that the offer allows.          *)

KeepsMapping(o, a) ==
    \A x \in ToSet(a.formats), y \in ToSet(o.formats) : x.pt = y.pt => x.codec = y.codec
SharesCodec(o, a) ==
    \E x \in ToSet(a.formats), y \in ToSet(o.formats) : x.codec = y.codec

ValidSection(o, a) ==
    /\ a.media = o.media /\ a.rtp = o.rtp
    /\ a.on => /\ o.on
               /\ KeepsMapping(o, a) /\ SharesCodec(o, a)
               /\ a.dir \subseteq Flip(o.dir)

\* Gateways that leave out the sections they reject are tolerated, never without audio.
ValidAnswer(offer, answer) ==
    /\ Len(answer) \in 1..Len(offer)
    /\ \A i \in DOMAIN answer : ValidSection(offer[i], answer[i])
    /\ \A i \in DOMAIN offer : i > Len(answer) => offer[i].media # "audio"

----------------------------------------------------------------------------
(* media_offer_answer.py *)

DirectReofferAccepted(previous, updated) ==
    ~Missing(previous) /\ ~Missing(updated) => DirectionalCompatible(previous[1], updated[1])

\* Variant: only the path from the caller is looked at.
CallerPathAccepted(previous, updated, updatedHeld, peer, peerHeld) ==
    /\ Missing(previous) = Missing(updated)
    /\ ~Missing(updated) /\ RemoteSends(updated[1].send) /\ RemoteReceives(peer.send, peerHeld)
         => PassthroughCompatible(updated[1].recv, peer.send)

BridgedReofferAccepted(previous, updated, updatedHeld, peer, peerHeld) ==
    /\ Missing(previous) = Missing(updated)
    /\ ~Missing(updated) =>
         /\ RemoteSends(updated[1].send) /\ RemoteReceives(peer.send, peerHeld)
              => PassthroughCompatible(updated[1].recv, peer.send)
         /\ RemoteReceives(updated[1].send, updatedHeld) /\ RemoteSends(peer.send)
              => PassthroughCompatible(peer.recv, updated[1].send)
============================================================================
