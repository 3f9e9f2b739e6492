--------------------------- MODULE MCRenegotiation ---------------------------
EXTENDS Renegotiation

Wide == [pcm |-> "wide", frame |-> 32]
Narrow == [pcm |-> "narrow", frame |-> 20]
Stereo == [pcm |-> "stereo", frame |-> 20]

Video264(pt, level, asym) ==
    [pt |-> pt, codec |-> "H264", rtp |-> "AVP", mode |-> 1, sub |-> "base", level |-> level,
     asym |-> asym, fmtp |-> 0, dir |-> Sendrecv]
Video8(pt, limit) ==
    [Video264(pt, 0, FALSE) EXCEPT !.codec = "VP8", !.mode = 0, !.fmtp = limit]
VideoJpeg == [Video264(26, 0, FALSE) EXCEPT !.codec = "JPEG", !.mode = 0]

\* A phone's description: its audio codecs, a keypad, perhaps one video stream.
Sound(codecs, dir, held, ptime) ==
    [Section("audio", "AVP", codecs \o <<Codec(101, "TELEPHONE")>>, dir, ptime)
        EXCEPT !.held = held, !.maxptime = 0]
Picture(formats, dir, rtp) == Section("video", rtp, formats, dir, 0)

Phone == <<Codec(0, "PCMU"), Codec(8, "PCMA")>>
Linear == <<Codec(97, "L16wide"), Codec(8, "PCMA")>>
Music == <<Codec(111, "OPUS"), Codec(0, "PCMU")>>

Plain == <<Sound(Phone, Sendrecv, FALSE, 20)>>
Held == <<Sound(Phone, {"send"}, FALSE, 20)>>
HeldOldStyle == <<Sound(Phone, Sendrecv, TRUE, 20)>>
SeenBy(v, dir) == <<Sound(Phone, Sendrecv, FALSE, 20), Picture(<<v>>, dir, "AVP")>>
Seen(v) == SeenBy(v, Sendrecv)

Style(pt, codec, ptime, dir) ==
    [pt |-> pt, codec |-> codec, ptime |-> ptime, dir |-> dir, held |-> FALSE, level |-> 0,
     asym |-> FALSE, omit |-> FALSE]

Quiet == [left |-> {}, right |-> {}]
Base == [owner |-> "softphone", send |-> <<Narrow, Wide, Stereo>>, recv |-> <<Wide, Narrow, Stereo>>,
         common |-> TRUE, video |-> <<>>, passthrough |-> FALSE, camera |-> FALSE, first |-> Plain,
         answers |-> {}, offers |-> Quiet]

\* First offers of every shape to each owner; no peer renegotiates.
FirstOffers ==
    {[Base EXCEPT !.owner = o, !.camera = c, !.video = v, !.send = w, !.first = <<Sound(codecs, d, h, p)>> \o pic] :
        o \in {"softphone", "preanswer", "assist"}, c \in BOOLEAN,
        v \in {<<>>, <<Video264(96, 31, TRUE), Video8(97, 0), VideoJpeg>>},
        w \in {<<Narrow, Wide>>, <<Wide, Narrow, Stereo>>},
        codecs \in {Phone, Linear, Music}, d \in {Sendrecv, {"send"}, {"recv"}}, h \in BOOLEAN, p \in {20, 32},
        pic \in {<<>>, <<Picture(<<Video264(99, 22, FALSE), Video8(100, 5)>>, Sendrecv, "AVP")>>,
                 <<Picture(<<Video264(99, 40, TRUE)>>, {"send"}, "AVPF")>>}}

\* Callees of every kind for calls through a bridge and from a browser.
Styles ==
    {[Style(x[1], x[2], p, d) EXCEPT !.level = l, !.asym = a, !.held = h, !.omit = (l = 0 /\ a)] :
        x \in {<<8, "PCMA">>, <<96, "L16wide">>, <<100, "L16wide">>, <<97, "OPUS">>},
        p \in {20, 32}, d \in {Sendrecv, {"recv"}}, l \in {0, 22, 31}, a \in BOOLEAN, h \in BOOLEAN}

Callees ==
    {[Base EXCEPT !.owner = o, !.camera = c, !.passthrough = ~c, !.common = k, !.video = v, !.first = f, !.answers = Styles] :
        o \in {"relay", "browser"}, c \in BOOLEAN, k \in BOOLEAN,
        v \in {<<>>, <<Video264(96, 31, TRUE), Video8(97, 0)>>, <<VideoJpeg>>},
        f \in {Plain, Seen(Video264(99, 31, TRUE)), Seen(Video264(99, 40, FALSE)), Seen(Video8(99, 5))}}

\* Two later offers of each peer, with the network's and the transport's faults.
Deep == [Base EXCEPT !.video = <<Video264(96, 31, TRUE), Video8(97, 0)>>]
Talks ==
    {[Deep EXCEPT !.owner = o, !.camera = TRUE, !.first = Seen(Video264(99, 22, FALSE)),
                  !.offers.left = {Plain, Held, Seen(Video264(99, 31, FALSE)), Seen(Video8(100, 5)), NoBody}] :
        o \in {"softphone", "preanswer"}}
    \cup {[Deep EXCEPT !.owner = "assist", !.first = HeldOldStyle,
                       !.offers.left = {<<Sound(Linear, Sendrecv, FALSE, 32)>>, NoBody}],
          [Deep EXCEPT !.owner = "browser", !.answers = {[Style(8, "PCMA", 20, Sendrecv) EXCEPT !.level = 22]},
                       !.offers.right = {Held, Seen(Video264(105, 31, FALSE)), Seen(Video8(105, 5)), NoBody}]}

Lowered == [Style(8, "PCMA", 20, Sendrecv) EXCEPT !.level = 22]
Bridges ==
    {[Deep EXCEPT !.owner = "relay", !.video = <<Video264(96, 31, a)>>, !.first = Seen(Video264(99, 31, a)),
                  !.answers = {Lowered, [Lowered EXCEPT !.asym = TRUE]},
                  !.offers = [left |-> {Held, Seen(Video264(99, 22, a)), SeenBy(Video264(99, 22, a), {"recv"})},
                              right |-> {Seen(Video264(96, 31, a)), Seen(Video264(96, 22, a))}]] : a \in BOOLEAN}

MCSetups == FirstOffers \cup Callees \cup Talks \cup Bridges
=============================================================================
