------------------------- MODULE RenegotiationProofs -------------------------
(***************************************************************************)
(* Proofs about Renegotiation, and the lemmas about the operators of Sdp   *)
(* that they rest on, for every set of set-ups whose descriptions are      *)
(* well formed, for any number of offers and of faults, whoever owns the   *)
(* call.                                                                    *)
(***************************************************************************)
EXTENDS Renegotiation, SequenceTheorems, WellFoundedInduction, TLAPS

-----------------------------------------------------------------------------
(* The audio of an offer: which section is read, which payloads it offers, and*)
(* what a negotiation over them returns                                       *)

\* The minimum that SelectInSeq takes: a nonempty set of numbers has one.
LEMMA LeastOne ==
    ASSUME NEW I \in SUBSET Nat, I # {}
    PROVE  Min(I) \in I /\ \A i \in I : Min(I) <= i
<1> DEFINE less == {x \in Nat \X Nat : x[1] < x[2]}
<1>0. IsWellFoundedOn(less, Nat) BY NatLessThanWellFounded DEF OpToRel
<1> HIDE DEF less
<1>3. PICK n \in I : \A i \in I : <<i, n>> \notin less BY <1>0, WFMin
<1>1. ASSUME NEW i \in I PROVE n <= i
  <2>1. <<i, n>> \in Nat \X Nat /\ <<i, n>>[1] = i /\ <<i, n>>[2] = n OBVIOUS
  <2>2. ~(i < n) BY <2>1, <1>3 DEF less
  <2> QED BY <2>2
<1>2. Min(I) = CHOOSE x \in I : \A y \in I : x <= y BY DEF Min
<1> QED BY <1>1, <1>2

\* A sequence is a function on 1 .. Len.
LEMMA SequenceShape ==
    ASSUME NEW x, IsSequence(x)
    PROVE  Len(x) \in Nat /\ DOMAIN x = 1..Len(x)
  BY DEF IsSequence

\* An optional value that is there.
LEMMA Singleton ==
    ASSUME NEW a
    PROVE  Len(<<a>>) = 1 /\ <<a>>[1] = a /\ <<a>> # <<>> /\ DOMAIN <<a>> = {1}
  OBVIOUS

\* The sections that Audio looks for.
IsAudio(x) == x.media = "audio" /\ x.on /\ x.rtp = "AVP"

\* Audio reads the first active RTP/AVP section, and none when that one is unusable.
LEMMA AudioIs ==
    ASSUME NEW sdp, IsSequence(sdp)
    PROVE  \/ /\ Audio(sdp) = <<>>
              /\ \A i \in 1..Len(sdp) : IsAudio(sdp[i]) /\ (\A j \in 1..Len(sdp) : IsAudio(sdp[j]) => i <= j)
                   => ~sdp[i].usable
           \/ \E i \in 1..Len(sdp) : /\ Audio(sdp) = <<sdp[i]>> /\ IsAudio(sdp[i]) /\ sdp[i].usable
                                     /\ \A j \in 1..Len(sdp) : IsAudio(sdp[j]) => i <= j
<1> DEFINE I == {i \in 1..Len(sdp) : sdp[i].media = "audio" /\ sdp[i].on /\ sdp[i].rtp = "AVP"}
           a == FirstSuch(sdp, LAMBDA s : s.media = "audio" /\ s.on /\ s.rtp = "AVP")
<1>1. I \in SUBSET Nat BY SequenceShape
<1>2. a = IF I = {} THEN <<>> ELSE <<sdp[Min(I)]>>
  BY DEF FirstSuch
<1>3. Audio(sdp) = IF a # <<>> /\ a[1].usable THEN a ELSE <<>>
  BY DEF Audio, Missing
<1> HIDE DEF a
<1>4. CASE I = {}
  BY <1>2, <1>3, <1>4 DEF IsAudio
<1>5. CASE I # {}
  <2>1. Min(I) \in I /\ \A i \in I : Min(I) <= i
    BY <1>1, <1>5, LeastOne
  <2>3. Min(I) # 0 BY <2>1, SequenceShape
  <2>2. a = <<sdp[Min(I)]>> BY <1>2, <1>5, <2>3
  <2>4. \A j \in 1..Len(sdp) : IsAudio(sdp[j]) => j \in I BY DEF IsAudio
  <2>5. \A i \in 1..Len(sdp) : IsAudio(sdp[i]) /\ (\A j \in 1..Len(sdp) : IsAudio(sdp[j]) => i <= j)
          => i = Min(I)
    <3>1. IsAudio(sdp[Min(I)]) /\ Min(I) \in 1..Len(sdp) BY <2>1 DEF IsAudio
    <3>2. ASSUME NEW i \in 1..Len(sdp), IsAudio(sdp[i]), \A j \in 1..Len(sdp) : IsAudio(sdp[j]) => i <= j
          PROVE i = Min(I)
      <4>1. i <= Min(I) /\ Min(I) <= i BY <3>1, <3>2, <2>1, <2>4
      <4> QED BY <4>1, <3>1, SequenceShape
    <3> QED BY <3>2
  <2>6. a[1] = sdp[Min(I)] /\ a # <<>> BY <2>2, Singleton
  <2>7. CASE sdp[Min(I)].usable BY <2>1, <2>2, <2>4, <2>6, <2>7, <1>3 DEF IsAudio
  <2>8. CASE ~sdp[Min(I)].usable BY <2>5, <2>6, <2>8, <1>3
  <2> QED BY <2>7, <2>8
<1> QED BY <1>4, <1>5

\* Video reads the first video section, and none when that one is off or unusable.
LEMMA VideoIs ==
    ASSUME NEW sdp, IsSequence(sdp)
    PROVE  \/ /\ Video(sdp) = <<>>
              /\ \A i \in 1..Len(sdp) : sdp[i].media = "video"
                   /\ (\A j \in 1..Len(sdp) : sdp[j].media = "video" => i <= j)
                                         => ~(sdp[i].on /\ sdp[i].usable)
           \/ \E i \in 1..Len(sdp) : /\ Video(sdp) = <<sdp[i]>> /\ sdp[i].media = "video" /\ sdp[i].on
                                          /\ sdp[i].usable
                                     /\ \A j \in 1..Len(sdp) : sdp[j].media = "video" => i <= j
<1> DEFINE I == {i \in 1..Len(sdp) : sdp[i].media = "video"}
           a == FirstSuch(sdp, LAMBDA s : s.media = "video")
<1>1. I \in SUBSET Nat BY SequenceShape
<1>2. a = IF I = {} THEN <<>> ELSE <<sdp[Min(I)]>>
  BY DEF FirstSuch
<1>3. Video(sdp) = IF a # <<>> /\ a[1].on /\ a[1].usable THEN a ELSE <<>>
  BY DEF Video, Missing
<1> HIDE DEF a
<1>4. CASE I = {}
  BY <1>2, <1>3, <1>4
<1>5. CASE I # {}
  <2>1. Min(I) \in I /\ \A i \in I : Min(I) <= i
    BY <1>1, <1>5, LeastOne
  <2>3. Min(I) # 0 BY <2>1, SequenceShape
  <2>2. a = <<sdp[Min(I)]>> BY <1>2, <1>5, <2>3
  <2>5. \A i \in 1..Len(sdp) : sdp[i].media = "video"
          /\ (\A j \in 1..Len(sdp) : sdp[j].media = "video" => i <= j) => i = Min(I)
    <3>1. sdp[Min(I)].media = "video" /\ Min(I) \in 1..Len(sdp) BY <2>1
    <3>2. ASSUME NEW i \in 1..Len(sdp), sdp[i].media = "video", \A j \in 1..Len(sdp) : sdp[j].media = "video"
                   => i <= j PROVE i = Min(I)
      <4>1. i <= Min(I) /\ Min(I) <= i BY <3>1, <3>2, <2>1
      <4> QED BY <4>1, <3>1, SequenceShape
    <3> QED BY <3>2
  <2>6. a[1] = sdp[Min(I)] /\ a # <<>> BY <2>2, Singleton
  <2>7. CASE sdp[Min(I)].on /\ sdp[Min(I)].usable BY <2>1, <2>2, <2>6, <2>7, <1>3
  <2>8. CASE ~(sdp[Min(I)].on /\ sdp[Min(I)].usable) BY <2>5, <2>6, <2>8, <1>3
  <2> QED BY <2>7, <2>8
<1> QED BY <1>4, <1>5

\* What SelectInSeq returns: the first index that passes, 0 when none does.
LEMMA FirstIndex ==
    ASSUME NEW x, IsSequence(x), NEW I, I \subseteq DOMAIN x
    PROVE  LET i == IF I # {} THEN Min(I) ELSE 0
           IN  IF I = {} THEN i = 0 ELSE i # 0 /\ i \in I /\ \A j \in I : i <= j
<1>1. I \in SUBSET Nat /\ 0 \notin I BY SequenceShape
<1> QED BY <1>1, LeastOne

\* A function on 1 .. n is a sequence of length n.
LEMMA FunctionIsSequence ==
    ASSUME NEW n \in Nat, NEW f, f = [k \in 1..n |-> f[k]]
    PROVE  IsSequence(f) /\ Len(f) = n /\ DOMAIN f = 1..n
  BY DEF IsSequence, ToSet

\* The offered payloads are the formats of the audio section, with its frame lengths.
LEMMA PcmIs ==
    ASSUME NEW sdp, IsSequence(sdp), \A x \in ToSet(sdp) : IsSequence(x.formats)
    PROVE  /\ IsSequence(OfferedPcm(sdp))
           /\ \A k \in DOMAIN OfferedPcm(sdp) :
                LET x == Audio(sdp)[1] IN
                 /\ Audio(sdp) # <<>> /\ k \in DOMAIN x.formats
                 /\ OfferedPcm(sdp)[k] = [pt |-> x.formats[k].pt, codec |-> x.formats[k].codec,
                                           frame |-> x.ptime, min |-> x.minptime, max |-> x.maxptime]
<1>1. CASE Audio(sdp) = <<>>
  <2>1. OfferedPcm(sdp) = <<>> BY <1>1 DEF OfferedPcm, Missing
  <2>2. IsSequence(<<>>) BY DEF IsSequence
  <2> QED BY <2>1, <2>2
<1>2. CASE Audio(sdp) # <<>>
  <2> DEFINE x == Audio(sdp)[1]
  <2>1. PICK i \in 1..Len(sdp) : Audio(sdp) = <<sdp[i]>> BY AudioIs, <1>2
  <2>2. x \in ToSet(sdp) BY <2>1, SequenceShape DEF ToSet
  <2>3. Len(x.formats) \in Nat /\ DOMAIN x.formats = 1..Len(x.formats) BY <2>2, SequenceShape
  <2>4. OfferedPcm(sdp) = [k \in DOMAIN x.formats |-> [pt |-> x.formats[k].pt, codec |-> x.formats[k].codec,
                                           frame |-> x.ptime, min |-> x.minptime, max |-> x.maxptime]]
    BY <1>2 DEF OfferedPcm, Missing
  <2> HIDE DEF x
  <2> DEFINE f == [k \in DOMAIN x.formats |-> [pt |-> x.formats[k].pt, codec |-> x.formats[k].codec,
                                           frame |-> x.ptime, min |-> x.minptime, max |-> x.maxptime]]
  <2>5. IsSequence(f)
    <3>1. f = [k \in 1..Len(x.formats) |-> f[k]] BY <2>3
    <3> HIDE DEF f
    <3> QED BY <3>1, <2>3, FunctionIsSequence
  <2> QED BY <2>4, <2>5, <1>2 DEF x
<1> QED BY <1>1, <1>2

\* A payload that can be read out of a description with one of the local formats.
Reads(p, sdp) ==
    /\ Audio(sdp) # <<>>
    /\ \E f \in ToSet(Audio(sdp)[1].formats) :
         Mapped(f) /\ f.codec # "TELEPHONE" /\ p.pt = f.pt /\ p.codec = f.codec
    /\ LET x == Audio(sdp)[1] IN FrameFits([frame |-> x.ptime, min |-> x.minptime, max |-> x.maxptime],
         p.frame)

\* A payload that a local format can carry keeps its number and its codec.
LEMMA CompatibleIs ==
    ASSUME NEW o, NEW l, CompatibleAudio(o, l) # <<>>
    PROVE  /\ CompatibleAudio(o, l) = <<Payload(o.pt, o.codec, l.frame)>>
           /\ Mapped(o) /\ FrameFits(o, l.frame) /\ o.codec \in Carries[l.pcm]
  BY DEF CompatibleAudio

\* The fields of a payload.
LEMMA PayloadIs ==
    ASSUME NEW pt, NEW c, NEW f
    PROVE  Payload(pt, c, f).pt = pt /\ Payload(pt, c, f).codec = c /\ Payload(pt, c, f).frame = f
  BY DEF Payload

\* The keypad is no codec that a local format carries.
LEMMA CarriesSound == \A p \in DOMAIN Carries : "TELEPHONE" \notin Carries[p]
  BY DEF Carries

\* The best match is a match of some offered payload with some local format.
LEMMA BestMatchIs ==
    ASSUME NEW offered, NEW locals, IsSequence(offered), IsSequence(locals), BestMatch(offered, locals) # <<>>
    PROVE  \E i \in DOMAIN offered, j \in DOMAIN locals :
             BestMatch(offered, locals) = CompatibleAudio(offered[i], locals[j])
<1> DEFINE Inner(l) == FirstOf(offered, LAMBDA o : CompatibleAudio(o, l))
           I == {i \in 1..Len(locals) : ~Missing(Inner(locals[i]))}
           J(l) == {i \in 1..Len(offered) : ~Missing(CompatibleAudio(offered[i], l))}
<1>0. BestMatch(offered, locals) = FirstOf(locals, Inner)
  BY DEF BestMatch, FirstPair
<1> HIDE DEF Inner
<1>a. FirstOf(locals, Inner) = IF I = {} THEN <<>> ELSE Inner(locals[Min(I)])
  BY DEF FirstOf
<1>1. BestMatch(offered, locals) = IF I = {} THEN <<>> ELSE Inner(locals[Min(I)])
  BY <1>0, <1>a
<1>2. ASSUME NEW l PROVE Inner(l) = IF J(l) = {} THEN <<>> ELSE CompatibleAudio(offered[Min(J(l))], l)
  BY DEF FirstOf, Inner
<1>3. I \subseteq DOMAIN locals /\ \A l : J(l) \subseteq DOMAIN offered BY SequenceShape
<1> HIDE DEF I, J
<1>4. I # {} /\ Min(I) \in I BY <1>1, <1>3, FirstIndex
<1>5. BestMatch(offered, locals) = Inner(locals[Min(I)]) BY <1>1, <1>4, <1>3, FirstIndex
<1>6. J(locals[Min(I)]) # {} /\ Min(J(locals[Min(I)])) \in J(locals[Min(I)]) BY <1>2, <1>5, <1>3, FirstIndex
<1> QED BY <1>2, <1>3, <1>4, <1>5, <1>6

\* A match in both directions is one payload, used in both.
LEMMA BidirectionalIs ==
    ASSUME NEW offered, NEW sendF, NEW recvF, IsSequence(offered), IsSequence(sendF),
           NEW c \in ToSet(BidirectionalMatch(offered, sendF, recvF))
    PROVE  \E i \in DOMAIN offered, j \in DOMAIN sendF :
             /\ CompatibleAudio(offered[i], sendF[j]) # <<>>
             /\ c = [send |-> CompatibleAudio(offered[i], sendF[j])[1], recv |-> CompatibleAudio(offered[i],
                  sendF[j])[1]]
<1> DEFINE Usable(s, o) == IF \E r \in ToSet(recvF) : CompatibleAudio(o, r) = CompatibleAudio(o, s)
                           THEN CompatibleAudio(o, s) ELSE <<>>
           Inner(s) == FirstOf(offered, LAMBDA o : Usable(s, o))
           found == FirstOf(sendF, Inner)
           I == {i \in 1..Len(sendF) : ~Missing(Inner(sendF[i]))}
           J(s) == {i \in 1..Len(offered) : ~Missing(Usable(s, offered[i]))}
<1>0. BidirectionalMatch(offered, sendF, recvF) = [i \in DOMAIN found |-> [send |-> found[i],
        recv |-> found[i]]]
  BY DEF BidirectionalMatch, FirstPair
<1>9. \A s, o : Usable(s, o) # <<>> => Usable(s, o) = CompatibleAudio(o, s)
  OBVIOUS
<1> HIDE DEF Usable
<1>2. ASSUME NEW l PROVE Inner(l) = IF J(l) = {} THEN <<>> ELSE Usable(l, offered[Min(J(l))])
  BY DEF FirstOf
<1> HIDE DEF Inner
<1>1. found = IF I = {} THEN <<>> ELSE Inner(sendF[Min(I)])
  BY DEF FirstOf
<1> HIDE DEF found
<1>4. PICK k \in DOMAIN found : c = [send |-> found[k], recv |-> found[k]]
  BY <1>0 DEF ToSet
<1>5. found # <<>> BY <1>4
<1>3. I \subseteq DOMAIN sendF /\ \A l : J(l) \subseteq DOMAIN offered BY SequenceShape
<1> HIDE DEF I, J
<1>6. I # {} /\ Min(I) \in I /\ found = Inner(sendF[Min(I)]) BY <1>1, <1>3, <1>5, FirstIndex
<1> DEFINE l == sendF[Min(I)]
<1>7. J(l) # {} /\ Min(J(l)) \in J(l) /\ found = Usable(l, offered[Min(J(l))])
  BY <1>2, <1>5, <1>6, <1>3, FirstIndex
<1>8. found = CompatibleAudio(offered[Min(J(l))], l) BY <1>7, <1>9, <1>5
<1>10. k = 1 BY <1>8, <1>4, <1>5, CompatibleIs, Singleton
<1> QED BY <1>8, <1>4, <1>10, <1>3, <1>6, <1>7, <1>5

\* Every match can be read out of the description.
LEMMA PayloadReads ==
    ASSUME NEW sdp, IsSequence(sdp), \A x \in ToSet(sdp) : IsSequence(x.formats),
           NEW k \in DOMAIN OfferedPcm(sdp), NEW l, l.pcm \in DOMAIN Carries,
             CompatibleAudio(OfferedPcm(sdp)[k], l) # <<>>
    PROVE  Reads(CompatibleAudio(OfferedPcm(sdp)[k], l)[1], sdp)
<1> DEFINE x == Audio(sdp)[1]
           o == OfferedPcm(sdp)[k]
           f == x.formats[k]
<1>1. /\ Audio(sdp) # <<>> /\ k \in DOMAIN x.formats
      /\ o = [pt |-> f.pt, codec |-> f.codec, frame |-> x.ptime, min |-> x.minptime, max |-> x.maxptime]
  BY PcmIs
<1>2. /\ CompatibleAudio(o, l)[1] = Payload(f.pt, f.codec, l.frame)
      /\ Mapped(o) /\ FrameFits(o, l.frame) /\ f.codec \in Carries[l.pcm]
  <2> HIDE DEF o, f
  <2>1. CompatibleAudio(o, l)[1] = Payload(o.pt, o.codec, l.frame) /\ Mapped(o) /\ FrameFits(o, l.frame)
          /\ o.codec \in Carries[l.pcm]
    BY CompatibleIs, Singleton DEF o
  <2>2. o.pt = f.pt /\ o.codec = f.codec BY <1>1
  <2> QED BY <2>1, <2>2
<1>3. f.codec # "TELEPHONE"
  BY <1>2 DEF Carries
<1>4. f \in ToSet(x.formats) BY <1>1 DEF ToSet
<1>5. Mapped(f) BY <1>1, <1>2 DEF Mapped
<1>6. FrameFits([frame |-> x.ptime, min |-> x.minptime, max |-> x.maxptime], l.frame)
  <2> HIDE DEF f, x
  <2> QED BY <1>1, <1>2 DEF FrameFits
<1> DEFINE q == CompatibleAudio(o, l)[1]
<1>7. q.pt = f.pt /\ q.codec = f.codec /\ q.frame = l.frame
  BY <1>2, PayloadIs
<1> HIDE DEF o, f, q
<1>8. Reads(q, sdp)
  BY <1>1, <1>3, <1>4, <1>5, <1>6, <1>7 DEF Reads
<1> QED BY <1>8 DEF o, q

\* Whatever the negotiation of an offer returns can be read out of that offer, and is the
\* same in both directions.
LEMMA AudioRead ==
    ASSUME NEW sdp, IsSequence(sdp), \A x \in ToSet(sdp) : IsSequence(x.formats),
           NEW sendF, NEW recvF, IsLocal(sendF), IsLocal(recvF),
           NEW c \in ToSet(NegotiateDirectional(sdp, sendF, recvF))
    PROVE  c.send = c.recv /\ Reads(c.send, sdp)
<1> DEFINE offered == OfferedPcm(sdp)
<1>1. IsSequence(offered) /\ IsSequence(sendF) /\ IsSequence(recvF) BY PcmIs DEF IsLocal
<1>2. PICK dir : c \in ToSet(NegotiateForDirection(offered, sendF, recvF, dir))
  BY DEF NegotiateDirectional, ToSet, Missing
<1>3. CASE dir = Sendrecv
  <2>1. c \in ToSet(BidirectionalMatch(offered, sendF, recvF)) BY <1>2, <1>3 DEF NegotiateForDirection
  <2>2. PICK i \in DOMAIN offered, j \in DOMAIN sendF :
             /\ CompatibleAudio(offered[i], sendF[j]) # <<>>
             /\ c = [send |-> CompatibleAudio(offered[i], sendF[j])[1], recv |-> CompatibleAudio(offered[i],
                  sendF[j])[1]]
    BY <2>1, <1>1, BidirectionalIs
  <2>3. sendF[j].pcm \in DOMAIN Carries BY DEF IsLocal, ToSet
  <2> QED BY <2>2, <2>3, PayloadReads
<1>4. CASE dir # Sendrecv
  <2> DEFINE locals == IF dir = {"send"} THEN sendF ELSE recvF
             one == BestMatch(offered, locals)
  <2>1. PICK k \in DOMAIN one : c = [send |-> one[k], recv |-> one[k]]
    BY <1>2, <1>4 DEF NegotiateForDirection, ToSet
  <2>2. PICK i \in DOMAIN offered, j \in DOMAIN locals : one = CompatibleAudio(offered[i], locals[j])
    BY <2>1, <1>1, BestMatchIs
  <2>3. k = 1 /\ one # <<>> BY <2>1, <2>2, CompatibleIs, Singleton
  <2>4. locals[j].pcm \in DOMAIN Carries BY DEF IsLocal, ToSet
  <2> QED BY <2>1, <2>2, <2>3, <2>4, PayloadReads
<1> QED BY <1>3, <1>4

-----------------------------------------------------------------------------
(* The sections of an answer *)

\* The fields of a section.
LEMMA SectionIs ==
    ASSUME NEW m, NEW r, NEW fs, NEW d, NEW t
    PROVE  /\ Section(m, r, fs, d, t).media = m /\ Section(m, r, fs, d, t).on
           /\ Section(m, r, fs, d, t).rtp = r
           /\ Section(m, r, fs, d, t).usable /\ Section(m, r, fs, d, t).formats = fs
           /\ Section(m, r, fs, d, t).dir = d
           /\ ~Section(m, r, fs, d, t).held /\ Section(m, r, fs, d, t).ptime = t
           /\ Section(m, r, fs, d, t).minptime = 0 /\ Section(m, r, fs, d, t).maxptime = t
  BY DEF Section

\* A rejected section keeps its medium, its profile and its formats.
LEMMA RejectedIs ==
    ASSUME NEW x, IsSection(x)
    PROVE  /\ Rejected(x).media = x.media /\ ~Rejected(x).on /\ Rejected(x).rtp = x.rtp
           /\ Rejected(x).formats = x.formats
  BY DEF IsSection, Rejected

\* The video section that an answer gives to x, and when it gives one to section j.
VideoSection(x, video, videoDir) ==
    Section("video", video[1].rtp, video, IF x.held THEN SuppressLocalSend(videoDir) ELSE videoDir, 0)
Takes(offer, j, video) ==
    /\ Video(offer) = <<offer[j]>> /\ offer[j].media = "video" /\ offer[j].on /\ offer[j].usable
    /\ video # <<>> /\ \E f \in ToSet(offer[j].formats) : f.pt = video[1].pt

\* An answer has the sections of the offer in their order: the audio where the offer has it,
\* the video where the answer takes it up, and every other section rejected.
LEMMA SectionsIs ==
    ASSUME NEW offer, IsDescription(offer), Audio(offer) # <<>>,
           NEW audio, IsAudio(audio), audio.usable, NEW video, NEW videoDir
    PROVE  LET answer == AnswerSections(offer, audio, video, videoDir) IN
           /\ IsSequence(answer) /\ DOMAIN answer = DOMAIN offer /\ Len(answer) = Len(offer)
           /\ Audio(answer) = <<audio>>
           /\ \E i \in DOMAIN offer :
                /\ Audio(offer) = <<offer[i]>> /\ IsAudio(offer[i]) /\ answer[i] = audio
                /\ \A j \in DOMAIN offer \ {i} :
                     \/ answer[j] = Rejected(offer[j])
                     \/ answer[j] = VideoSection(offer[j], video, videoDir) /\ Takes(offer, j, video)
           /\ \/ Video(answer) = <<>>
              \/ \E j \in DOMAIN offer : Takes(offer, j, video)
                   /\ Video(answer) = <<VideoSection(offer[j], video, videoDir)>>
           /\ \A j \in DOMAIN offer : Takes(offer, j, video)
                => Video(answer) = <<VideoSection(offer[j], video, videoDir)>>
<1> DEFINE I == {i \in 1..Len(offer) : offer[i].media = "audio" /\ offer[i].on /\ offer[i].rtp = "AVP"
             /\ offer[i].usable}
           V == {i \in 1..Len(offer) : offer[i].media = "video"}
           fa == SelectInSeq(offer, LAMBDA s : s.media = "audio" /\ s.on /\ s.rtp = "AVP" /\ s.usable)
           fv == SelectInSeq(offer, LAMBDA s : s.media = "video")
           Taken(s) == /\ ~Missing(video) /\ s.on /\ s.usable
                       /\ \E f \in ToSet(s.formats) : f.pt = video[1].pt
           answer == AnswerSections(offer, audio, video, videoDir)
<1>1. Len(offer) \in Nat /\ DOMAIN offer = 1..Len(offer) /\ \A i \in DOMAIN offer : IsSection(offer[i])
  BY SequenceShape DEF IsDescription, ToSet
<1>2. answer = [i \in DOMAIN offer |->
           IF i = fa THEN audio
           ELSE IF i = fv /\ Taken(offer[i]) THEN VideoSection(offer[i], video, videoDir)
                ELSE Rejected(offer[i])]
  BY DEF AnswerSections, VideoSection
<1>3. fa = IF I # {} THEN Min(I) ELSE 0 BY DEF SelectInSeq
<1>4. fv = IF V # {} THEN Min(V) ELSE 0 BY DEF SelectInSeq
<1> HIDE DEF fa, fv, answer
<1>5. PICK i \in 1..Len(offer) : /\ Audio(offer) = <<offer[i]>> /\ IsAudio(offer[i]) /\ offer[i].usable
                                 /\ \A j \in 1..Len(offer) : IsAudio(offer[j]) => i <= j
  BY AudioIs DEF IsDescription
<1>6. fa = i
  <2>1. i \in I BY <1>5 DEF IsAudio
  <2>2. fa \in I /\ \A j \in I : fa <= j
    BY <2>1, <1>3, <1>1, FirstIndex DEF IsDescription
  <2>3. fa <= i /\ i <= fa BY <2>1, <2>2, <1>5 DEF IsAudio
  <2> QED BY <2>3, <2>2, <1>1
<1>7. IsSequence(answer) /\ DOMAIN answer = DOMAIN offer /\ Len(answer) = Len(offer)
  <2>1. answer = [k \in 1..Len(offer) |-> answer[k]] BY <1>1, <1>2
  <2> QED BY <2>1, <1>1, FunctionIsSequence
<1>8. answer[i] = audio BY <1>2, <1>6, <1>1
<1>9. \A j \in DOMAIN offer \ {i} : answer[j] = IF j = fv /\ Taken(offer[j])
        THEN VideoSection(offer[j], video, videoDir) ELSE Rejected(offer[j])
  BY <1>2, <1>6
<1>10. IF V = {} THEN fv = 0 ELSE fv # 0 /\ fv \in V /\ \A j \in V : fv <= j
  BY <1>4, <1>1, FirstIndex DEF IsDescription
<1>11. ASSUME fv \in V, offer[fv].on, offer[fv].usable PROVE Video(offer) = <<offer[fv]>>
  <2>1. \A j \in 1..Len(offer) : offer[j].media = "video" => fv <= j BY <1>10, <1>11
  <2>2. ~(Video(offer) = <<>> /\ \A k \in 1..Len(offer) : offer[k].media = "video"
          /\ (\A j \in 1..Len(offer) : offer[j].media = "video" => k <= j)
                                         => ~(offer[k].on /\ offer[k].usable))
    BY <2>1, <1>11
  <2>3. PICK k \in 1..Len(offer) : /\ Video(offer) = <<offer[k]>> /\ offer[k].media = "video"
                                     /\ \A j \in 1..Len(offer) : offer[j].media = "video" => k <= j
    BY <2>2, VideoIs DEF IsDescription
  <2>4. k <= fv /\ fv <= k BY <2>1, <2>3, <1>11
  <2>5. k = fv BY <2>4, <1>1, <1>11
  <2> QED BY <2>3, <2>5
<1>12. \A j \in DOMAIN offer : j = fv /\ Taken(offer[j]) <=> j = fv /\ Takes(offer, j, video)
  <2>1. ASSUME NEW j \in DOMAIN offer, j = fv, Taken(offer[j]) PROVE Takes(offer, j, video)
    <3>1. fv \in V BY <1>10, <2>1, <1>1
    <3> QED BY <1>11, <2>1, <3>1 DEF Takes, Missing
  <2> QED BY <2>1 DEF Takes, Missing
<1>13. \A j \in DOMAIN offer : Takes(offer, j, video) => Video(offer) = <<offer[fv]>> /\ fv \in V
  <2> SUFFICES ASSUME NEW j \in DOMAIN offer, Takes(offer, j, video)
               PROVE Video(offer) = <<offer[fv]>> /\ fv \in V OBVIOUS
  <2>1. PICK k \in 1..Len(offer) : /\ Video(offer) = <<offer[k]>> /\ offer[k].media = "video"
                                     /\ \A h \in 1..Len(offer) : offer[h].media = "video" => k <= h
    <3>1. Video(offer) # <<>> BY Singleton DEF Takes
    <3> QED BY <3>1, VideoIs DEF IsDescription
  <2>2. k \in V BY <2>1
  <2>3. k <= fv /\ fv <= k /\ fv \in V BY <2>1, <2>2, <1>10
  <2>4. k = fv BY <2>3, <1>1
  <2> QED BY <2>1, <2>3, <2>4
<1>14. \A j \in DOMAIN offer \ {i} :
         \/ answer[j] = Rejected(offer[j])
         \/ j = fv /\ answer[j] = VideoSection(offer[j], video, videoDir) /\ Takes(offer, j, video)
  BY <1>9, <1>12
<1>15. Audio(answer) = <<audio>>
  <2>1. \A j \in DOMAIN offer : IsAudio(answer[j]) <=> j = i
    <3>1. \A j \in DOMAIN offer : ~IsAudio(Rejected(offer[j]))
            /\ ~IsAudio(VideoSection(offer[j], video, videoDir))
      BY <1>1, RejectedIs, SectionIs DEF IsAudio, VideoSection
    <3> QED BY <3>1, <1>14, <1>8, <1>1
  <2>2. i \in 1..Len(answer) /\ \A j \in 1..Len(answer) : IsAudio(answer[j]) => i <= j
    BY <2>1, <1>7, <1>1
  <2>3. ~(Audio(answer) = <<>> /\ \A k \in 1..Len(answer) : IsAudio(answer[k]) /\ (\A j \in 1..Len(answer) :
          IsAudio(answer[j]) => k <= j) => ~answer[k].usable)
    BY <2>1, <2>2, <1>8, <1>7, <1>1
  <2>4. PICK k \in 1..Len(answer) : Audio(answer) = <<answer[k]>> /\ IsAudio(answer[k])
    BY <2>3, <1>7, AudioIs
  <2> QED BY <2>4, <2>1, <1>8, <1>7, <1>1
<1>16. \A j \in DOMAIN offer : answer[j].media = "video" <=> offer[j].media = "video"
  <2>1. \A j \in DOMAIN offer : Rejected(offer[j]).media = offer[j].media
          /\ VideoSection(offer[j], video, videoDir).media = "video"
    BY <1>1, RejectedIs, SectionIs DEF VideoSection
  <2> QED BY <2>1, <1>14, <1>8, <1>5 DEF IsAudio, Takes
<1>17. fv \in V => \A k \in 1..Len(answer) : answer[k].media = "video"
         /\ (\A j \in 1..Len(answer) : answer[j].media = "video" => k <= j) => k = fv
  <2> SUFFICES ASSUME fv \in V, NEW k \in 1..Len(answer), answer[k].media = "video",
                      \A j \in 1..Len(answer) : answer[j].media = "video" => k <= j
               PROVE  k = fv
    OBVIOUS
  <2>1. k \in V /\ fv \in 1..Len(answer) /\ answer[fv].media = "video" BY <1>16, <1>7, <1>1
  <2>2. k <= fv /\ fv <= k BY <2>1, <1>10
  <2> QED BY <2>2, <2>1, <1>1
<1>18. ASSUME NEW j \in DOMAIN offer, Takes(offer, j, video)
       PROVE  Takes(offer, fv, video) /\ fv \in V /\ offer[fv] = offer[j]
                /\ Video(answer) = <<VideoSection(offer[j], video, videoDir)>>
  <2>1. Video(offer) = <<offer[fv]>> /\ fv \in V /\ offer[fv] = offer[j] BY <1>13, <1>18, Singleton DEF Takes
  <2>2. Takes(offer, fv, video) BY <2>1, <1>18 DEF Takes
  <2>3. fv \in DOMAIN offer \ {i} BY <2>1, <1>1, <1>5 DEF IsAudio
  <2>4. answer[fv] = VideoSection(offer[fv], video, videoDir) BY <2>2, <2>3, <1>9, <1>12
  <2>5. answer[fv].media = "video" /\ answer[fv].on /\ answer[fv].usable BY <2>4, SectionIs DEF VideoSection
  <2>6. \A h \in 1..Len(answer) : answer[h].media = "video" => fv <= h BY <1>16, <1>10, <1>7, <1>1
  <2>7. fv \in 1..Len(answer) BY <2>3, <1>7
  <2>8. ~(Video(answer) = <<>> /\ \A k \in 1..Len(answer) : answer[k].media = "video"
          /\ (\A h \in 1..Len(answer) : answer[h].media = "video" => k <= h)
                                         => ~(answer[k].on /\ answer[k].usable))
    BY <2>5, <2>6, <2>7
  <2>9. PICK k \in 1..Len(answer) : Video(answer) = <<answer[k]>> /\ answer[k].media = "video"
               /\ \A h \in 1..Len(answer) : answer[h].media = "video" => k <= h
    BY <2>8, <1>7, VideoIs
  <2>10. k = fv BY <2>9, <2>1, <1>17
  <2> QED BY <2>1, <2>2, <2>4, <2>9, <2>10
<1>19. \/ Video(answer) = <<>>
       \/ \E j \in DOMAIN offer : Takes(offer, j, video)
            /\ Video(answer) = <<VideoSection(offer[j], video, videoDir)>>
  <2> SUFFICES ASSUME Video(answer) # <<>>
               PROVE  \E j \in DOMAIN offer : Takes(offer, j, video)
                        /\ Video(answer) = <<VideoSection(offer[j], video, videoDir)>>
    OBVIOUS
  <2>1. PICK k \in 1..Len(answer) : Video(answer) = <<answer[k]>> /\ answer[k].media = "video" /\ answer[k].on
    BY <1>7, VideoIs
  <2>2. k \in DOMAIN offer \ {i} BY <2>1, <1>16, <1>7, <1>5 DEF IsAudio
  <2>3. answer[k] # Rejected(offer[k]) BY <2>1, <2>2, <1>1, RejectedIs
  <2> QED BY <2>1, <2>2, <2>3, <1>14
<1>20. \E k \in DOMAIN offer :
                /\ Audio(offer) = <<offer[k]>> /\ IsAudio(offer[k]) /\ answer[k] = audio
                /\ \A j \in DOMAIN offer \ {k} :
                     \/ answer[j] = Rejected(offer[j])
                     \/ answer[j] = VideoSection(offer[j], video, videoDir) /\ Takes(offer, j, video)
  <2>1. i \in DOMAIN offer BY <1>1
  <2>2. \A j \in DOMAIN offer \ {i} :
                     \/ answer[j] = Rejected(offer[j])
                     \/ answer[j] = VideoSection(offer[j], video, videoDir) /\ Takes(offer, j, video)
    BY <1>14
  <2> QED BY <2>1, <2>2, <1>5, <1>8
<1>21. \A j \in DOMAIN offer : Takes(offer, j, video)
         => Video(answer) = <<VideoSection(offer[j], video, videoDir)>>
  BY <1>18
<1> QED BY <1>7, <1>15, <1>19, <1>20, <1>21 DEF answer

-----------------------------------------------------------------------------
(* The audio section that BuildAnswer writes *)

\* One format of an offer, under its number: what an answer takes up.
Names(v, formats) == \E f \in ToSet(formats) : f.pt = v.pt /\ f.codec = v.codec

\* The keypad number of an answer is one of the offer, and not the number of its codec.
LEMMA KeypadIs ==
    ASSUME NEW offer, IsDescription(offer), Audio(offer) # <<>>, NEW x
    PROVE  LET keypad == FirstSuch(OfferedDtmf(offer), LAMBDA f : f.pt # x.pt) IN
           \/ keypad = <<>>
           \/ \E f \in ToSet(Audio(offer)[1].formats) : keypad = <<f>> /\ f.pt # x.pt
<1> DEFINE dtmf == OfferedDtmf(offer)
           keypad == FirstSuch(dtmf, LAMBDA f : f.pt # x.pt)
           a == Audio(offer)[1]
           I == {i \in 1..Len(a.formats) : Mapped(a.formats[i]) /\ a.formats[i].codec = "TELEPHONE"}
           J == {i \in 1..Len(dtmf) : dtmf[i].pt # x.pt}
<1>1. IsSequence(a.formats)
  BY AudioIs, SequenceShape, Singleton DEF IsDescription, IsSection, ToSet
<1>2. dtmf = IF I = {} THEN <<>> ELSE <<a.formats[Min(I)]>>
  BY DEF OfferedDtmf, FirstSuch, Missing
<1> HIDE DEF dtmf
<1>3. keypad = IF J = {} THEN <<>> ELSE <<dtmf[Min(J)]>>
  BY DEF FirstSuch
<1> HIDE DEF keypad
<1>4. \/ dtmf = <<>>
      \/ \E f \in ToSet(a.formats) : dtmf = <<f>>
  <2>1. I \subseteq DOMAIN a.formats BY <1>1, SequenceShape
  <2> HIDE DEF I, a
  <2>2. I # {} => Min(I) \in DOMAIN a.formats BY <2>1, <1>1, FirstIndex
  <2> QED BY <1>2, <2>1, <2>2 DEF ToSet
<1>5. CASE dtmf = <<>>
  <2>1. J = {} BY <1>5
  <2> QED BY <2>1, <1>3 DEF keypad, dtmf
<1>6. ASSUME NEW f \in ToSet(a.formats), dtmf = <<f>> PROVE keypad = <<>> \/ (keypad = <<f>> /\ f.pt # x.pt)
  <2>1. J \subseteq {1} /\ (J # {} => f.pt # x.pt) BY <1>6
  <2>2. IsSequence(<<1>>) /\ DOMAIN <<1>> = {1} BY DEF IsSequence, ToSet
  <2> HIDE DEF J
  <2>4. J \in SUBSET Nat BY <2>1
  <2>3. J # {} => Min(J) = 1 BY <2>1, <2>4, LeastOne
  <2> QED BY <2>1, <2>3, <1>3, <1>6
<1>7. keypad = <<>> \/ \E f \in ToSet(a.formats) : keypad = <<f>> /\ f.pt # x.pt
  BY <1>4, <1>5, <1>6 DEF keypad, dtmf
<1> QED BY <1>7 DEF keypad, dtmf

\* A held stream is not sent.
LEMMA DirIs ==
    ASSUME NEW d, NEW e, NEW x
    PROVE  (d \subseteq Flip(x) => SuppressLocalSend(d) \subseteq Flip(x))
           /\ SuppressLocalSend(d) \subseteq d
  BY DEF SuppressLocalSend

\* A constrained direction lies within what the offer leaves, and within what is allowed.
LEMMA ConstrainedIs ==
    ASSUME NEW d, NEW a, NEW b
    PROVE  ConstrainedDirection(d, a, b) \subseteq Flip(d)
             /\ ("send" \in ConstrainedDirection(d, a, b) => a)
                  /\ ("recv" \in ConstrainedDirection(d, a, b) => b)
  BY DEF ConstrainedDirection

\* A codec and a keypad are two formats.
LEMMA OneAndOne ==
    ASSUME NEW a, NEW f
    PROVE  LET c == <<a>> \o <<f>> IN DOMAIN c = {1, 2} /\ c[1] = a /\ c[2] = f
<1>1. <<a>> \in Seq({a, f}) /\ <<f>> \in Seq({a, f}) /\ Len(<<a>>) = 1 /\ Len(<<f>>) = 1 OBVIOUS
<1> DEFINE c == <<a>> \o <<f>>
<1>2. Len(c) = 2 /\ c \in Seq({a, f}) /\ c[1] = <<a>>[1] /\ c[2] = <<f>>[1]
  BY <1>1, ConcatProperties
<1> HIDE DEF c
<1>3. DOMAIN c = 1..2 BY <1>2
<1> QED BY <1>3, <1>2 DEF c

\* A codec without a keypad is one format.
LEMMA One ==
    ASSUME NEW a
    PROVE  <<a>> \o <<>> = <<a>>
  BY ConcatEmptySeq

\* The audio of an answer: the negotiated payload first, under the number of the offer, every
\* other format one of the offer, and no direction that the offer excludes.
LEMMA AnswerIs ==
    ASSUME NEW offer, IsDescription(offer), NEW contract, contract.send = contract.recv, Reads(contract.send,
           offer),
           NEW video, NEW audioDir, audioDir \subseteq Flip(AudioDir(offer)), NEW videoDir
    PROVE  LET x == contract.send IN
           \E audio :
           /\ BuildAnswer(contract, offer, video, audioDir, videoDir) = AnswerSections(offer, audio, video,
                videoDir)
           /\ IsAudio(audio) /\ audio.usable /\ audio.dir \subseteq audioDir /\ audio.ptime = x.frame
           /\ audio.formats[1].pt = x.pt /\ audio.formats[1].codec = x.codec
           /\ audio.formats[1] \in ToSet(audio.formats)
           /\ \A g \in ToSet(audio.formats) :
                (g.pt = x.pt /\ g.codec = x.codec) \/ g \in ToSet(Audio(offer)[1].formats)
<1> DEFINE x == contract.send
           dir == IF AudioHeld(offer) THEN SuppressLocalSend(audioDir) ELSE audioDir
           keypad == FirstSuch(OfferedDtmf(offer), LAMBDA f : f.pt # x.pt)
           audio == Section("audio", "AVP", <<Codec(x.pt, x.codec)>> \o keypad, dir, x.frame)
<1>1. BuildAnswer(contract, offer, video, audioDir, videoDir) = AnswerSections(offer, audio, video, videoDir)
  BY DEF BuildAnswer
<1>2. keypad = <<>> \/ \E f \in ToSet(Audio(offer)[1].formats) : keypad = <<f>> /\ f.pt # x.pt
  BY ZenonT(30), KeypadIs DEF Reads
<1>3. dir \subseteq audioDir BY DirIs
<1> HIDE DEF keypad, dir
<1>4. IsAudio(audio) /\ audio.usable /\ audio.dir = dir /\ audio.ptime = x.frame
        /\ audio.formats = <<Codec(x.pt, x.codec)>> \o keypad
  <2> DEFINE fs == <<Codec(x.pt, x.codec)>> \o keypad
  <2> HIDE DEF fs
  <2>1. audio = Section("audio", "AVP", fs, dir, x.frame) BY DEF fs
  <2> HIDE DEF audio
  <2>2. IsAudio(audio) /\ audio.usable /\ audio.dir = dir /\ audio.ptime = x.frame /\ audio.formats = fs
    BY <2>1, SectionIs DEF IsAudio
  <2> QED BY <2>2 DEF fs
<1>5. Codec(x.pt, x.codec).pt = x.pt /\ Codec(x.pt, x.codec).codec = x.codec BY DEF Codec
<1> HIDE DEF audio
<1>6. /\ audio.formats[1] = Codec(x.pt, x.codec) /\ audio.formats[1] \in ToSet(audio.formats)
      /\ \A g \in ToSet(audio.formats) : g = Codec(x.pt, x.codec) \/ g \in ToSet(Audio(offer)[1].formats)
  <2>1. CASE keypad = <<>>
    <3>1. audio.formats = <<Codec(x.pt, x.codec)>> BY <2>1, <1>4, One
    <3> QED BY <3>1 DEF ToSet
  <2>2. CASE \E f \in ToSet(Audio(offer)[1].formats) : keypad = <<f>>
    <3>1. PICK f \in ToSet(Audio(offer)[1].formats) : keypad = <<f>> BY <2>2
    <3>2. DOMAIN audio.formats = {1, 2} /\ audio.formats[1] = Codec(x.pt, x.codec) /\ audio.formats[2] = f
      BY <3>1, <1>4, OneAndOne
    <3> QED BY <3>2 DEF ToSet
  <2> QED BY <1>2, <2>1, <2>2
<1> QED BY <1>1, <1>3, <1>4, <1>5, <1>6

-----------------------------------------------------------------------------
(* An answer is valid, and both ends read its audio alike *)

\* Both ends read the audio of an offer and of its answer alike.
LEMMA AnswerAudioAlike ==
    ASSUME NEW offer, IsDescription(offer), NEW contract, contract.send = contract.recv, Reads(contract.send,
           offer),
           NEW video, NEW audioDir, audioDir \subseteq Flip(AudioDir(offer)), NEW videoDir
    PROVE  AudioReadAlike(offer, BuildAnswer(contract, offer, video, audioDir, videoDir), TRUE, contract)
<1> DEFINE x == contract.send
           answer == BuildAnswer(contract, offer, video, audioDir, videoDir)
           p == Audio(offer)[1]
<1>1. PICK audio :
           /\ answer = AnswerSections(offer, audio, video, videoDir)
           /\ IsAudio(audio) /\ audio.usable /\ audio.dir \subseteq audioDir /\ audio.ptime = x.frame
           /\ audio.formats[1].pt = x.pt /\ audio.formats[1].codec = x.codec
           /\ audio.formats[1] \in ToSet(audio.formats)
  BY AnswerIs
<1> HIDE DEF answer
<1>2. Audio(answer) = <<audio>> BY <1>1, SectionsIs DEF Reads
<1>3. Audio(answer)[1] = audio BY <1>2
<1>4. x.pt \in PtOf(offer, x.codec) BY DEF Reads, PtOf
<1>5. x.pt \in PtOf(answer, x.codec)
  <2>1. audio.formats[1] \in {f \in ToSet(Audio(answer)[1].formats) : f.codec = x.codec} BY <1>1, <1>3
  <2> QED BY <2>1, <1>1 DEF PtOf
<1>6. FrameFits([frame |-> p.ptime, min |-> p.minptime, max |-> p.maxptime], x.frame) BY DEF Reads
<1> HIDE DEF p
<1> QED BY <1>1, <1>3, <1>4, <1>5, <1>6 DEF AudioReadAlike, p, answer

\* What BuildAnswer makes of an offer passes the validation that the client applies to answers.
LEMMA AnswerValid ==
    ASSUME NEW offer, IsDescription(offer), NEW contract, contract.send = contract.recv, Reads(contract.send,
           offer),
           NEW video, NEW audioDir, audioDir \subseteq Flip(AudioDir(offer)), NEW videoDir,
           NEW v, video = <<>> \/ video = <<v>>,
           video # <<>> => /\ v.rtp = Video(offer)[1].rtp /\ Names(v, Video(offer)[1].formats)
                           /\ videoDir \subseteq Flip(Video(offer)[1].dir)
    PROVE  ValidAnswer(offer, BuildAnswer(contract, offer, video, audioDir, videoDir))
<1> DEFINE x == contract.send
           answer == BuildAnswer(contract, offer, video, audioDir, videoDir)
           p == Audio(offer)[1]
<1>1. PICK audio :
           /\ answer = AnswerSections(offer, audio, video, videoDir)
           /\ IsAudio(audio) /\ audio.usable /\ audio.dir \subseteq audioDir /\ audio.ptime = x.frame
           /\ audio.formats[1].pt = x.pt /\ audio.formats[1].codec = x.codec
           /\ audio.formats[1] \in ToSet(audio.formats)
           /\ \A g \in ToSet(audio.formats) : (g.pt = x.pt /\ g.codec = x.codec) \/ g \in ToSet(p.formats)
  BY AnswerIs
<1> HIDE DEF answer
<1>2. /\ DOMAIN answer = DOMAIN offer /\ Len(answer) = Len(offer)
      /\ \E i \in DOMAIN offer :
                /\ Audio(offer) = <<offer[i]>> /\ IsAudio(offer[i]) /\ answer[i] = audio
                /\ \A j \in DOMAIN offer \ {i} :
                     \/ answer[j] = Rejected(offer[j])
                     \/ answer[j] = VideoSection(offer[j], video, videoDir) /\ Takes(offer, j, video)
  BY <1>1, SectionsIs DEF Reads
<1>3. PICK i \in DOMAIN offer :
                /\ Audio(offer) = <<offer[i]>> /\ IsAudio(offer[i]) /\ answer[i] = audio
                /\ \A j \in DOMAIN offer \ {i} :
                     \/ answer[j] = Rejected(offer[j])
                     \/ answer[j] = VideoSection(offer[j], video, videoDir) /\ Takes(offer, j, video)
  BY <1>2
<1>4. Len(offer) \in Nat /\ DOMAIN offer = 1..Len(offer) /\ \A j \in DOMAIN offer : IsSection(offer[j])
  BY SequenceShape DEF IsDescription, ToSet
<1>5. p = offer[i] BY <1>3
<1>6. \A g, h \in ToSet(p.formats) : g.pt = h.pt => g = h
  BY <1>4, <1>5 DEF IsSection, Numbered, ToSet
<1>7. PICK f \in ToSet(p.formats) : f.pt = x.pt /\ f.codec = x.codec BY DEF Reads
<1>8. ValidSection(offer[i], answer[i])
  <2> HIDE DEF p
  <2>1. KeepsMapping(p, audio)
    <3> SUFFICES ASSUME NEW g \in ToSet(audio.formats), NEW h \in ToSet(p.formats), g.pt = h.pt
                 PROVE g.codec = h.codec
      BY DEF KeepsMapping
    <3>1. CASE g.pt = x.pt /\ g.codec = x.codec BY <3>1, <1>6, <1>7
    <3>2. CASE g \in ToSet(p.formats) BY <3>2, <1>6
    <3> QED BY <3>1, <3>2, <1>1
  <2>2. SharesCodec(p, audio) BY <1>1, <1>7 DEF SharesCodec
  <2>3. audio.dir \subseteq Flip(p.dir) BY <1>1 DEF AudioDir, p
  <2> QED BY <2>1, <2>2, <2>3, <1>3, <1>5, <1>1 DEF ValidSection, IsAudio
<1>9. ASSUME NEW j \in DOMAIN offer \ {i} PROVE ValidSection(offer[j], answer[j])
  <2>1. CASE answer[j] = Rejected(offer[j]) BY <2>1, <1>4, RejectedIs DEF ValidSection
  <2>2. CASE answer[j] = VideoSection(offer[j], video, videoDir) /\ Takes(offer, j, video)
    <3> DEFINE o == offer[j]
               dir == IF o.held THEN SuppressLocalSend(videoDir) ELSE videoDir
    <3>1. Video(offer) = <<o>> /\ o.media = "video" /\ o.on /\ video # <<>> BY <2>2 DEF Takes
    <3>2. Video(offer)[1] = o BY <3>1
    <3>3. video = <<v>> /\ v.rtp = o.rtp /\ Names(v, o.formats) /\ videoDir \subseteq Flip(o.dir)
      BY <3>1, <3>2
    <3>4. IsSection(o) BY <1>4
    <3> HIDE DEF o
    <3>5. /\ answer[j].media = "video" /\ answer[j].rtp = v.rtp /\ answer[j].formats = <<v>>
          /\ answer[j].on /\ answer[j].dir = dir
      BY <2>2, <3>3, SectionIs DEF VideoSection, o
    <3>6. dir \subseteq Flip(o.dir) BY <3>3, DirIs
    <3>7. ToSet(<<v>>) = {v} BY DEF ToSet
    <3>8. \A g, h \in ToSet(o.formats) : g.pt = h.pt => g = h
      BY <3>4 DEF IsSection, Numbered, ToSet
    <3>9. KeepsMapping(o, answer[j]) /\ SharesCodec(o, answer[j])
      BY <3>3, <3>5, <3>7, <3>8 DEF KeepsMapping, SharesCodec, Names
    <3> QED BY <3>1, <3>3, <3>5, <3>6, <3>9 DEF ValidSection, o
  <2> QED BY <2>1, <2>2, <1>3
<1>10. Len(answer) \in 1..Len(offer) BY <1>2, <1>3, <1>4
<1>11. \A j \in DOMAIN offer : j <= Len(answer) BY <1>2, <1>4
<1>12. \A j \in DOMAIN answer : ValidSection(offer[j], answer[j]) BY <1>8, <1>9, <1>2
<1>13. \A j \in DOMAIN offer : j > Len(answer) => offer[j].media # "audio" BY <1>11, <1>4, <1>2
<1> QED BY <1>10, <1>12, <1>13 DEF ValidAnswer, answer

-----------------------------------------------------------------------------
(* The video of an offer, and the projection of a local capability on it *)

\* The fields of a video format.
VideoFields == {"pt", "codec", "rtp", "mode", "sub", "level", "asym", "fmtp", "dir"}

\* A format of a section, with what the section says.
InSection(x, f) == [f EXCEPT !.dir = x.dir, !.rtp = x.rtp]

\* Of two sides of a stream, what it takes up of the format that was offered.
TakesUp(d, o) ==
    /\ d.send.pt = o.pt /\ d.recv.pt = o.pt /\ d.answer.pt = o.pt
    /\ d.send.codec = o.codec /\ d.answer.codec = o.codec /\ d.recv.codec = o.codec
    /\ IF o.codec = "H264"
       THEN /\ d.send.level = (IF o.asym /\ d.answer.asym THEN o.level ELSE d.answer.level)
            /\ d.recv.level = d.answer.level
       ELSE d.send.fmtp = o.fmtp /\ d.recv.fmtp = d.answer.fmtp

\* A sending half that a bridge may hand to the other side.
Sends(f, o) ==
    /\ DOMAIN f = VideoFields
    /\ f.pt = o.pt /\ f.codec = o.codec /\ f.rtp = o.rtp /\ f.dir = o.dir
    /\ IF o.codec = "H264" THEN f.asym => o.asym /\ f.level = o.level
       ELSE f.fmtp = o.fmtp

\* Only the direction and the profile of a format come from its section.
LEMMA InSectionIs ==
    ASSUME NEW x, NEW f, DOMAIN f = VideoFields
    PROVE  LET o == InSection(x, f) IN
           /\ DOMAIN o = VideoFields /\ o.pt = f.pt /\ o.codec = f.codec /\ o.level = f.level
           /\ o.asym = f.asym
           /\ o.fmtp = f.fmtp /\ o.mode = f.mode /\ o.sub = f.sub /\ o.dir = x.dir /\ o.rtp = x.rtp
  BY DEF InSection, VideoFields

\* A local capability projected on an offered format takes it up.
LEMMA ProjectedIs ==
    ASSUME NEW o, NEW l, DOMAIN o = VideoFields, DOMAIN l = VideoFields, o.codec = l.codec,
           ProjectLocalAnswer(o, l) # <<>>
    PROVE  LET d == ProjectLocalAnswer(o, l)[1] IN
           /\ ProjectLocalAnswer(o, l) = <<d>>
           /\ TakesUp(d, o) /\ Sends(d.send, o) /\ d.answer.rtp = o.rtp
<1> DEFINE both == BothAsymmetric(o, l)
           level == IF both \/ l.level < o.level THEN l.level ELSE o.level
           receiver == [o EXCEPT !.level = level, !.asym = both, !.fmtp = l.fmtp]
           echo == [l EXCEPT !.pt = o.pt, !.dir = o.dir, !.rtp = o.rtp]
           sent == IF both THEN o ELSE receiver
           d == ProjectLocalAnswer(o, l)[1]
<1>1. ProjectLocalAnswer(o, l) =
        IF o.codec = "H264"
        THEN <<[send |-> sent, recv |-> receiver, answer |-> receiver]>>
        ELSE IF o.codec = "VP8" \/ o.fmtp = echo.fmtp
             THEN <<[send |-> o, recv |-> echo, answer |-> echo]>> ELSE <<>>
  BY DEF ProjectLocalAnswer
<1>2. /\ DOMAIN receiver = VideoFields /\ receiver.pt = o.pt /\ receiver.codec = o.codec
      /\ receiver.rtp = o.rtp
      /\ receiver.dir = o.dir /\ receiver.level = level /\ receiver.asym = both
  <2> HIDE DEF both, level
  <2> QED BY DEF VideoFields
<1>3. /\ DOMAIN echo = VideoFields /\ echo.pt = o.pt /\ echo.codec = l.codec /\ echo.rtp = o.rtp
      /\ echo.dir = o.dir
  BY DEF VideoFields
<1>4. both => o.asym BY DEF BothAsymmetric
<1> HIDE DEF receiver, echo, both, level
<1>5. CASE o.codec = "H264"
  <2>1. d = [send |-> sent, recv |-> receiver, answer |-> receiver] /\ ProjectLocalAnswer(o, l) = <<d>>
    BY <1>1, <1>5
  <2>2. d.send = sent /\ d.recv = receiver /\ d.answer = receiver BY <2>1
  <2> HIDE DEF d
  <2>3. CASE both
    <3>1. level = l.level /\ sent = o BY <2>3 DEF level
    <3> QED BY <2>1, <2>2, <2>3, <3>1, <1>2, <1>4, <1>5 DEF TakesUp, Sends, d
  <2>4. CASE ~both
    <3>1. sent = receiver BY <2>4
    <3> HIDE DEF sent
    <3> QED BY <2>1, <2>2, <2>4, <3>1, <1>2, <1>5 DEF TakesUp, Sends, d
  <2> QED BY <2>3, <2>4
<1>6. CASE o.codec # "H264"
  <2>1. d = [send |-> o, recv |-> echo, answer |-> echo] /\ ProjectLocalAnswer(o, l) = <<d>> BY <1>1, <1>6
  <2>2. d.send = o /\ d.recv = echo /\ d.answer = echo BY <2>1
  <2> HIDE DEF d
  <2> QED BY <2>1, <2>2, <1>3, <1>6 DEF TakesUp, Sends, d
<1> QED BY <1>5, <1>6

\* The video section of a description is one of its sections.
LEMMA VideoOf ==
    ASSUME NEW sdp, IsDescription(sdp), Video(sdp) # <<>>
    PROVE  /\ \E i \in DOMAIN sdp : Video(sdp) = <<sdp[i]>>
           /\ IsSection(Video(sdp)[1]) /\ IsVideo(Video(sdp)[1].formats)
           /\ Video(sdp)[1].dir \in SUBSET Sendrecv
<1>1. PICK i \in 1..Len(sdp) : Video(sdp) = <<sdp[i]>> /\ sdp[i].media = "video"
  BY VideoIs DEF IsDescription
<1>2. DOMAIN sdp = 1..Len(sdp) /\ IsSection(sdp[i])
  BY <1>1, SequenceShape DEF IsDescription, ToSet
<1> QED BY <1>1, <1>2, Singleton DEF IsSection

\* One format is a list of formats.
LEMMA OneVideo ==
    ASSUME NEW g, DOMAIN g = VideoFields
    PROVE  IsVideo(<<g>>)
  BY DEF IsVideo, IsSequence, Numbered, ToSet, VideoFields

\* The offered formats are those of the section, each with what the section says.
LEMMA OfferedVideoIs ==
    ASSUME NEW sdp, Video(sdp) # <<>> => IsVideo(Video(sdp)[1].formats)
    PROVE  /\ IsSequence(OfferedVideo(sdp))
           /\ OfferedVideo(sdp) # <<>> => Video(sdp) # <<>>
           /\ \A k \in DOMAIN OfferedVideo(sdp) :
                LET x == Video(sdp)[1] IN
                 /\ Video(sdp) # <<>> /\ k \in DOMAIN x.formats /\ DOMAIN x.formats[k] = VideoFields
                 /\ OfferedVideo(sdp)[k] = InSection(x, x.formats[k])
<1>1. CASE Video(sdp) = <<>>
  <2>1. OfferedVideo(sdp) = <<>> BY <1>1 DEF OfferedVideo, Missing
  <2>2. IsSequence(<<>>) BY DEF IsSequence
  <2> QED BY <2>1, <2>2
<1>2. CASE Video(sdp) # <<>>
  <2> DEFINE x == Video(sdp)[1]
             f == [k \in DOMAIN x.formats |-> InSection(x, x.formats[k])]
  <2>1. IsVideo(x.formats) BY <1>2
  <2>2. OfferedVideo(sdp) = f BY <1>2 DEF OfferedVideo, Missing, InSection
  <2> HIDE DEF x
  <2>3. Len(x.formats) \in Nat /\ DOMAIN x.formats = 1..Len(x.formats) BY <2>1, SequenceShape DEF IsVideo
  <2>4. \A k \in DOMAIN x.formats : DOMAIN x.formats[k] = VideoFields BY <2>1 DEF IsVideo, VideoFields, ToSet
  <2>5. IsSequence(f)
    <3>1. f = [k \in 1..Len(x.formats) |-> f[k]] BY <2>3
    <3> HIDE DEF f
    <3> QED BY <3>1, <2>3, FunctionIsSequence
  <2> QED BY <2>2, <2>4, <2>5, <1>2 DEF x
<1> QED BY <1>1, <1>2

-----------------------------------------------------------------------------
(* What the negotiation of a video offer selects *)

\* A matching capability has the codec of the offer.
LEMMA MatchingLocalIs ==
    ASSUME NEW o, NEW locals, IsVideo(locals), MatchingLocal(o, locals) # <<>>
    PROVE  LET l == MatchingLocal(o, locals)[1] IN DOMAIN l = VideoFields /\ l.codec = o.codec
<1> DEFINE Test(l) == l.codec = o.codec /\ (o.codec = "H264" => SameProfile(o, l))
           I == {i \in 1..Len(locals) : Test(locals[i])}
           m == MatchingLocal(o, locals)
<1>1. m = IF I = {} THEN <<>> ELSE <<locals[Min(I)]>>
  BY DEF MatchingLocal, FirstSuch
<1>2. IsSequence(locals) /\ I \subseteq DOMAIN locals BY SequenceShape DEF IsVideo
<1> HIDE DEF m
<1>3. I # {} /\ Min(I) \in I /\ m = <<locals[Min(I)]>>
  <2> HIDE DEF I
  <2> QED BY <1>1, <1>2, FirstIndex DEF m
<1>4. m[1] = locals[Min(I)] /\ Min(I) \in DOMAIN locals BY <1>2, <1>3
<1> QED BY <1>3, <1>4 DEF IsVideo, VideoFields, ToSet, m

\* Whatever the negotiation of a video offer returns takes up one format of that offer,
\* whether a capability of ours or the offer itself is projected.
LEMMA StreamIs ==
    ASSUME NEW offer, IsDescription(offer), NEW formats, IsVideo(formats), NEW prefer, NEW pass,
           NegotiateVideoOffer(offer, formats, prefer, pass) # <<>>
    PROVE  LET d == NegotiateVideoOffer(offer, formats, prefer, pass)[1]
               x == Video(offer)[1]
           IN  /\ Video(offer) # <<>> /\ NegotiateVideoOffer(offer, formats, prefer, pass) = <<d>>
               /\ \E f \in ToSet(x.formats) :
                    /\ DOMAIN f = VideoFields
                    /\ TakesUp(d, InSection(x, f)) /\ Sends(d.send, InSection(x, f)) /\ d.answer.rtp = x.rtp
<1> DEFINE N(o) == LET m == MatchingLocal(o, formats)
                   IN  IF ~Mapped(o) THEN <<>>
                       ELSE IF ~Missing(m) THEN ProjectLocalAnswer(o, m[1])
                       ELSE IF pass THEN ProjectLocalAnswer(o, o) ELSE <<>>
           s == OfferedVideo(offer)
           Op1(o) == IF ~Missing(N(o)) /\ (prefer /\ BrowserSends(N(o)[1].send)) THEN N(o) ELSE <<>>
           Op2(o) == IF ~Missing(N(o)) /\ BrowserReceives(N(o)[1].recv) THEN N(o) ELSE <<>>
           Op3(o) == IF ~Missing(N(o)) /\ TRUE THEN N(o) ELSE <<>>
           I1 == {i \in 1..Len(s) : ~Missing(Op1(s[i]))}
           I2 == {i \in 1..Len(s) : ~Missing(Op2(s[i]))}
           I3 == {i \in 1..Len(s) : ~Missing(Op3(s[i]))}
           c1 == FirstOf(s, Op1)
           c2 == FirstOf(s, Op2)
           c3 == FirstOf(s, Op3)
           video == NegotiateVideoOffer(offer, formats, prefer, pass)
           d == video[1]
           x == Video(offer)[1]
<1>1. video = IF ~Missing(c1) THEN c1 ELSE IF ~Missing(c2) THEN c2 ELSE c3
  BY DEF NegotiateVideoOffer
<1>0. Video(offer) # <<>> => IsVideo(x.formats) BY VideoOf
<1>2. IsSequence(s) BY <1>0, OfferedVideoIs
<1>3. ASSUME NEW o, DOMAIN o = VideoFields, N(o) # <<>>
      PROVE  N(o) = <<N(o)[1]>> /\ TakesUp(N(o)[1], o) /\ Sends(N(o)[1].send, o) /\ N(o)[1].answer.rtp = o.rtp
  <2> DEFINE m == MatchingLocal(o, formats)
  <2>1. PICK l : DOMAIN l = VideoFields /\ l.codec = o.codec /\ N(o) = ProjectLocalAnswer(o, l)
    <3>1. CASE Mapped(o) /\ ~Missing(m)
      <4>1. N(o) = ProjectLocalAnswer(o, m[1]) BY <3>1
      <4>2. DOMAIN m[1] = VideoFields /\ m[1].codec = o.codec BY <3>1, MatchingLocalIs DEF Missing
      <4> QED BY <4>1, <4>2
    <3>2. CASE Mapped(o) /\ Missing(m) /\ pass
      <4>1. N(o) = ProjectLocalAnswer(o, o) BY <3>2
      <4> QED BY <4>1, <1>3
    <3> QED BY <3>1, <3>2, <1>3
  <2> HIDE DEF N
  <2> QED BY <2>1, <1>3, ProjectedIs
<1> HIDE DEF N
<1>4. ASSUME NEW i \in 1..Len(s), video = N(s[i])
      PROVE  /\ Video(offer) # <<>> /\ video = <<d>>
             /\ \E f \in ToSet(x.formats) :
                    /\ DOMAIN f = VideoFields
                    /\ TakesUp(d, InSection(x, f)) /\ Sends(d.send, InSection(x, f)) /\ d.answer.rtp = x.rtp
  <2>1. i \in DOMAIN s BY <1>2, SequenceShape
  <2>2. /\ Video(offer) # <<>> /\ i \in DOMAIN x.formats /\ DOMAIN x.formats[i] = VideoFields
        /\ s[i] = InSection(x, x.formats[i])
    BY <1>0, <2>1, OfferedVideoIs
  <2>3. N(s[i]) # <<>> BY <1>4
  <2>4. DOMAIN s[i] = VideoFields /\ s[i].rtp = x.rtp BY <2>2, InSectionIs
  <2>5. video = <<d>> /\ TakesUp(d, s[i]) /\ Sends(d.send, s[i]) /\ d.answer.rtp = x.rtp
    BY <2>3, <2>4, <1>3, <1>4
  <2>6. x.formats[i] \in ToSet(x.formats) BY <2>2 DEF ToSet
  <2> HIDE DEF d, x, s, video
  <2> QED BY <2>2, <2>5, <2>6
<1>5. /\ c1 = IF I1 = {} THEN <<>> ELSE Op1(s[Min(I1)])
      /\ c2 = IF I2 = {} THEN <<>> ELSE Op2(s[Min(I2)])
      /\ c3 = IF I3 = {} THEN <<>> ELSE Op3(s[Min(I3)])
  <2> HIDE DEF Op1, Op2, Op3
  <2> QED BY DEF FirstOf
<1>6. \A o : /\ Op1(o) # <<>> => Op1(o) = N(o)
             /\ Op2(o) # <<>> => Op2(o) = N(o)
             /\ Op3(o) # <<>> => Op3(o) = N(o)
  OBVIOUS
<1>7. I1 \subseteq DOMAIN s /\ I2 \subseteq DOMAIN s /\ I3 \subseteq DOMAIN s /\ DOMAIN s = 1..Len(s)
  BY <1>2, SequenceShape
<1> HIDE DEF Op1, Op2, Op3, I1, I2, I3, c1, c2, c3
<1>8. \A c \in {c1, c2, c3} : c # <<>> => \E i \in 1..Len(s) : c = N(s[i])
  <2>1. c1 # <<>> => \E i \in 1..Len(s) : c1 = N(s[i]) BY <1>2, <1>5, <1>6, <1>7, FirstIndex
  <2>2. c2 # <<>> => \E i \in 1..Len(s) : c2 = N(s[i]) BY <1>2, <1>5, <1>6, <1>7, FirstIndex
  <2>3. c3 # <<>> => \E i \in 1..Len(s) : c3 = N(s[i]) BY <1>2, <1>5, <1>6, <1>7, FirstIndex
  <2> QED BY <2>1, <2>2, <2>3
<1>9. video # <<>> OBVIOUS
<1>10. PICK i \in 1..Len(s) : video = N(s[i])
  BY <1>1, <1>8, <1>9
<1> QED BY <1>4, <1>10

-----------------------------------------------------------------------------
(* Both ends read the video of an answer alike *)

\* A stream that an answer to this offer may take up.
Streams(d, offer) ==
    /\ Video(offer) # <<>>
    /\ \E f \in ToSet(Video(offer)[1].formats) :
         DOMAIN f = VideoFields /\ TakesUp(d, InSection(Video(offer)[1], f))
    /\ d.answer.rtp = Video(offer)[1].rtp

\* Both ends read a stream that an answer takes up alike: within the limit of its receiver.
LEMMA StreamReadAlike ==
    ASSUME NEW offer, IsDescription(offer), NEW d, Streams(d, offer),
           NEW answer, Video(answer) = <<>> \/ \E y : Video(answer) = <<y>> /\ y.formats = <<d.answer>>
    PROVE  VideoReadAlike(offer, answer, TRUE, d)
<1>1. CASE Video(answer) = <<>>
  BY <1>1 DEF VideoReadAlike
<1>2. CASE Video(answer) # <<>>
  <2> DEFINE x == Video(offer)[1]
             formats == x.formats
  <2>1. PICK y : Video(answer) = <<y>> /\ y.formats = <<d.answer>> BY <1>2
  <2>2. PICK f \in ToSet(formats) : DOMAIN f = VideoFields /\ TakesUp(d, InSection(x, f)) BY DEF Streams
  <2>3. DOMAIN Video(answer) = {1} /\ Video(answer)[1].formats[1] = d.answer BY <2>1
  <2>4. /\ InSection(x, f).pt = f.pt /\ InSection(x, f).codec = f.codec /\ InSection(x, f).level = f.level
        /\ InSection(x, f).asym = f.asym /\ InSection(x, f).fmtp = f.fmtp
    BY <2>2, InSectionIs
  <2>5. \A g, h \in ToSet(formats) : g.pt = h.pt => g = h
    BY VideoOf DEF IsVideo, Numbered, Streams, ToSet
  <2> DEFINE o == CHOOSE g \in ToSet(formats) : g.pt = d.answer.pt
  <2>6. f.pt = d.answer.pt BY <2>2, <2>4 DEF TakesUp
  <2>7. o = f
    <3>1. o \in ToSet(formats) /\ o.pt = d.answer.pt BY <2>6
    <3> QED BY <3>1, <2>5, <2>6
  <2>8. /\ d.send.codec = f.codec /\ d.send.pt = f.pt /\ d.recv.pt = d.answer.pt
        /\ Limit(d.send, d.send, d.send) = Limit(f, f, d.answer)
        /\ Limit(d.recv, d.recv, d.recv) = Limit(d.answer, f, d.answer)
    <3> DEFINE i == InSection(x, f)
    <3>1. TakesUp(d, i) /\ i.pt = f.pt /\ i.codec = f.codec /\ i.level = f.level /\ i.asym = f.asym
            /\ i.fmtp = f.fmtp BY <2>2, <2>4
    <3> HIDE DEF i, x
    <3>2. CASE f.codec = "H264" BY <3>1, <3>2 DEF TakesUp, Limit
    <3>3. CASE f.codec # "H264" BY <3>1, <3>3 DEF TakesUp, Limit
    <3> QED BY <3>1, <3>2, <3>3 DEF TakesUp
  <2>9. ASSUME NEW k \in DOMAIN Video(answer)
        PROVE  LET answered == Video(answer)[k].formats[1]
                   offered == CHOOSE g \in ToSet(Video(offer)[1].formats) : g.pt = answered.pt
                   p == offered
                   h == answered
               IN  /\ d.send.codec = p.codec /\ d.send.pt = p.pt /\ d.recv.pt = h.pt
                   /\ Limit(d.send, d.send, d.send) = Limit(p, offered, answered)
                   /\ Limit(d.recv, d.recv, d.recv) = Limit(h, offered, answered)
    <3>1. k = 1 /\ Video(answer)[k].formats[1] = d.answer BY <2>3
    <3>2. (CHOOSE g \in ToSet(Video(offer)[1].formats) : g.pt = Video(answer)[k].formats[1].pt) = f
      BY <3>1, <2>7
    <3> QED BY <3>1, <3>2, <2>8
  <2> QED BY <2>9 DEF VideoReadAlike
<1> QED BY <1>1, <1>2

\* An answer built from what an offer was read as: valid, and both media read alike.
LEMMA BuiltRight ==
    ASSUME NEW offer, IsDescription(offer), NEW audio, audio.send = audio.recv, Reads(audio.send, offer),
           NEW d, NEW video, video \in {<<>>, <<d>>}, video # <<>> => Streams(d, offer),
           NEW shown, shown = <<>> \/ (video # <<>> /\ shown = <<d.answer>>),
           NEW audioDir, audioDir \subseteq Flip(AudioDir(offer)),
           NEW videoDir, shown # <<>> => videoDir \subseteq Flip(Video(offer)[1].dir),
           NEW answer, answer = BuildAnswer(audio, offer, shown, audioDir, videoDir)
    PROVE  /\ ValidAnswer(offer, answer)
           /\ AudioReadAlike(offer, answer, TRUE, audio)
           /\ \A v : VideoReadAlike(offer, answer, TRUE, v) \/ shown # <<>>
           /\ \A v \in ToSet(video) : VideoReadAlike(offer, answer, TRUE, v)
           /\ shown # <<>> => Video(answer) # <<>>
<1>1. AudioReadAlike(offer, answer, TRUE, audio) BY AnswerAudioAlike
<1>2. shown # <<>> => Names(d.answer, Video(offer)[1].formats) /\ d.answer.rtp = Video(offer)[1].rtp
  <2> SUFFICES ASSUME shown # <<>>
               PROVE Names(d.answer, Video(offer)[1].formats) /\ d.answer.rtp = Video(offer)[1].rtp OBVIOUS
  <2>1. Streams(d, offer) OBVIOUS
  <2>2. PICK f \in ToSet(Video(offer)[1].formats) :
         DOMAIN f = VideoFields /\ TakesUp(d, InSection(Video(offer)[1], f)) BY <2>1 DEF Streams
  <2>3. d.answer.pt = f.pt /\ d.answer.codec = f.codec BY <2>2, InSectionIs DEF TakesUp
  <2> QED BY <2>1, <2>3 DEF Streams, Names
<1>3. ValidAnswer(offer, answer)
  <2>1. shown = <<>> \/ shown = <<d.answer>> OBVIOUS
  <2>2. ValidAnswer(offer, BuildAnswer(audio, offer, shown, audioDir, videoDir)) BY <1>2, <2>1, AnswerValid
  <2> QED BY <2>2
<1>4. PICK sound : answer = AnswerSections(offer, sound, shown, videoDir) /\ IsAudio(sound) /\ sound.usable
  BY AnswerIs
<1>5. /\ \/ Video(answer) = <<>>
         \/ \E j \in DOMAIN offer : Takes(offer, j, shown)
              /\ Video(answer) = <<VideoSection(offer[j], shown, videoDir)>>
      /\ \A j \in DOMAIN offer : Takes(offer, j, shown)
           => Video(answer) = <<VideoSection(offer[j], shown, videoDir)>>
  BY <1>4, SectionsIs DEF Reads
<1>6. shown = <<>> => Video(answer) = <<>>
  BY <1>5 DEF Takes
<1>7. shown = <<>> => \A v : VideoReadAlike(offer, answer, TRUE, v)
  BY <1>6 DEF VideoReadAlike
<1>8. \A v \in ToSet(video) : VideoReadAlike(offer, answer, TRUE, v)
  <2>1. CASE shown = <<>> BY <1>7, <2>1
  <2>2. CASE shown # <<>>
    <3>1. Video(answer) = <<>> \/ \E y : Video(answer) = <<y>> /\ y.formats = <<d.answer>>
      <4> SUFFICES ASSUME NEW j \in DOMAIN offer, Video(answer) = <<VideoSection(offer[j], shown, videoDir)>>
                   PROVE  \E y : Video(answer) = <<y>> /\ y.formats = <<d.answer>>
        BY <1>5
      <4>1. VideoSection(offer[j], shown, videoDir).formats = shown BY SectionIs DEF VideoSection
      <4> QED BY <4>1, <2>2
    <3>2. VideoReadAlike(offer, answer, TRUE, d) BY <3>1, <2>2, StreamReadAlike
    <3>3. ToSet(<<d>>) = {d} BY DEF ToSet
    <3> QED BY <3>2, <3>3, <2>2
  <2> QED BY <2>1, <2>2
<1>9. shown # <<>> => Video(answer) # <<>>
  <2> SUFFICES ASSUME shown # <<>> PROVE Video(answer) # <<>> OBVIOUS
  <2>0. shown = <<d.answer>> /\ shown[1] = d.answer OBVIOUS
  <2>1. Video(offer) # <<>> BY DEF Streams
  <2>2. PICK j \in 1..Len(offer) : /\ Video(offer) = <<offer[j]>> /\ offer[j].media = "video"
                                        /\ offer[j].on /\ offer[j].usable
    BY <2>1, VideoIs DEF IsDescription
  <2>3. Video(offer)[1] = offer[j] BY <2>2
  <2>4. \E f \in ToSet(offer[j].formats) : f.pt = shown[1].pt
    BY <1>2, <2>0, <2>3 DEF Names
  <2>5. Takes(offer, j, shown) BY <2>2, <2>4 DEF Takes
  <2>6. j \in DOMAIN offer BY SequenceShape DEF IsDescription
  <2>7. Video(answer) = <<VideoSection(offer[j], shown, videoDir)>> BY <2>5, <2>6, <1>5
  <2> QED BY <2>7
<1> QED BY <1>1, <1>3, <1>7, <1>8, <1>9

-----------------------------------------------------------------------------
(* The audio of an answer to our own offer *)

\* The first match of one payload is one with some local format.
LEMMA FirstMatchIs ==
    ASSUME NEW a, NEW locals, IsSequence(locals), FirstMatch(<<a>>, locals) # <<>>
    PROVE  \E j \in DOMAIN locals : FirstMatch(<<a>>, locals) = CompatibleAudio(a, locals[j])
<1> DEFINE outer == <<a>>
           Inner(x) == FirstOf(locals, LAMBDA y : CompatibleAudio(x, y))
           I == {i \in 1..Len(outer) : ~Missing(Inner(outer[i]))}
           J(x) == {i \in 1..Len(locals) : ~Missing(CompatibleAudio(x, locals[i]))}
           m == FirstMatch(outer, locals)
<1>0. m = FirstOf(outer, Inner) BY DEF FirstMatch, FirstPair
<1>2. ASSUME NEW x PROVE Inner(x) = IF J(x) = {} THEN <<>> ELSE CompatibleAudio(x, locals[Min(J(x))])
  BY DEF FirstOf
<1> HIDE DEF Inner
<1>a. FirstOf(outer, Inner) = IF I = {} THEN <<>> ELSE Inner(outer[Min(I)])
  BY DEF FirstOf
<1>3. \A x : J(x) \subseteq DOMAIN locals BY SequenceShape
<1>4. IsSequence(outer) /\ DOMAIN outer = {1} /\ Len(outer) = 1 /\ outer[1] = a BY DEF IsSequence, ToSet
<1>5. I \subseteq DOMAIN outer BY <1>4
<1> HIDE DEF J, m, outer
<1>6. I # {} /\ Min(I) \in I /\ m = Inner(outer[Min(I)])
  <2>1. m # <<>> BY DEF m, outer
  <2>2. m = IF I = {} THEN <<>> ELSE Inner(outer[Min(I)]) BY <1>0, <1>a
  <2> HIDE DEF I
  <2> QED BY <2>1, <2>2, <1>4, <1>5, FirstIndex
<1>7. m = Inner(a) BY <1>4, <1>5, <1>6
<1>8. J(a) # {} /\ Min(J(a)) \in J(a) /\ m = CompatibleAudio(a, locals[Min(J(a))])
  <2>1. m # <<>> BY DEF m, outer
  <2> QED BY <2>1, <1>2, <1>3, <1>7, FirstIndex
<1> QED BY <1>3, <1>8 DEF m, outer

\* A section with one codec besides the keypad, and one with a single frame length.
OneCodec(formats) == \A f \in ToSet(formats) : f = formats[1] \/ f.codec = "TELEPHONE"
OneFrame(x) == x.ptime \in Nat \ {0} /\ x.minptime = 0 /\ x.maxptime = x.ptime

\* When the peer answered our offer with one codec, what NegotiateAnswer makes of it sends under
\* the number of the answer and receives under the number of the offer.
LEMMA DialogAudioAlike ==
    ASSUME NEW mine, IsSequence(mine), \A x \in ToSet(mine) : IsSequence(x.formats),
           NEW theirs, IsSequence(theirs), \A x \in ToSet(theirs) : IsSequence(x.formats),
           NEW sendF, NEW recvF, IsLocal(sendF), IsLocal(recvF),
           OneCodec(Audio(mine)[1].formats), OneFrame(Audio(theirs)[1]),
           NEW c \in ToSet(NegotiateAnswer(mine, sendF, recvF, theirs))
    PROVE  AudioReadAlike(mine, theirs, FALSE, c)
<1> DEFINE answered == OfferedPcm(mine)
           offered == OfferedPcm(theirs)
           p == Audio(mine)[1]
           h == Audio(theirs)[1]
           fits == [frame |-> p.ptime, min |-> p.minptime, max |-> p.maxptime]
<1>1. PICK dir : c \in ToSet(NegotiateWithOfferPayloads(answered, offered, sendF, recvF, dir))
  BY DEF NegotiateAnswer, ToSet, Missing
<1> DEFINE S(a) == FirstMatch(<<a>>, sendF)
           R(o) == FirstMatch(<<o>>, recvF)
           Contract(a, o) == CASE a.codec # o.codec -> <<>>
                [] a.codec = o.codec /\ dir = {"send"} /\ ~Missing(S(a)) ->
                     <<[send |-> S(a)[1], recv |-> [S(a)[1] EXCEPT !.pt = o.pt, !.frame = o.frame]]>>
                [] a.codec = o.codec /\ dir = {"recv"} /\ ~Missing(R(o)) ->
                     <<[send |-> [R(o)[1] EXCEPT !.pt = a.pt, !.frame = a.frame], recv |-> R(o)[1]]>>
                [] a.codec = o.codec /\ dir = Sendrecv /\ ~Missing(S(a)) /\ ~Missing(R(o)) ->
                     <<[send |-> S(a)[1], recv |-> R(o)[1]]>>
                [] OTHER -> <<>>
           Inner(a) == FirstOf(offered, LAMBDA o : Contract(a, o))
           found == NegotiateWithOfferPayloads(answered, offered, sendF, recvF, dir)
           I == {i \in 1..Len(answered) : ~Missing(Inner(answered[i]))}
           J(a) == {i \in 1..Len(offered) : ~Missing(Contract(a, offered[i]))}
<1>2. found = FirstOf(answered, Inner) BY DEF NegotiateWithOfferPayloads, FirstPair
<1>3. IsSequence(answered) /\ IsSequence(offered) /\ IsSequence(sendF) /\ IsSequence(recvF)
  BY PcmIs DEF IsLocal
<1> HIDE DEF Contract
<1>4. ASSUME NEW a PROVE Inner(a) = IF J(a) = {} THEN <<>> ELSE Contract(a, offered[Min(J(a))])
  BY DEF FirstOf
<1> HIDE DEF Inner
<1>5. FirstOf(answered, Inner) = IF I = {} THEN <<>> ELSE Inner(answered[Min(I)])
  BY DEF FirstOf
<1>6. I \subseteq DOMAIN answered /\ \A a : J(a) \subseteq DOMAIN offered BY <1>3, SequenceShape
<1> HIDE DEF I, J, found
<1>7. PICK n \in DOMAIN found : c = found[n] BY <1>1 DEF ToSet, found
<1>8. PICK i \in DOMAIN answered, j \in DOMAIN offered : found = Contract(answered[i], offered[j])
  <2>1. I # {} /\ Min(I) \in I /\ found = Inner(answered[Min(I)]) BY <1>2, <1>3, <1>5, <1>6, <1>7, FirstIndex
  <2>2. J(answered[Min(I)]) # {} /\ Min(J(answered[Min(I)])) \in J(answered[Min(I)])
        /\ found = Contract(answered[Min(I)], offered[Min(J(answered[Min(I)]))])
    BY <2>1, <1>3, <1>4, <1>6, <1>7, FirstIndex
  <2> QED BY <2>1, <2>2, <1>6
<1> DEFINE a == answered[i]
           o == offered[j]
           f == p.formats[i]
           g == h.formats[j]
<1>9. /\ Audio(mine) # <<>> /\ i \in DOMAIN p.formats
      /\ a = [pt |-> f.pt, codec |-> f.codec, frame |-> p.ptime, min |-> p.minptime, max |-> p.maxptime]
      /\ Audio(theirs) # <<>> /\ j \in DOMAIN h.formats
      /\ o = [pt |-> g.pt, codec |-> g.codec, frame |-> h.ptime, min |-> h.minptime, max |-> h.maxptime]
  BY PcmIs
<1>10. /\ f \in ToSet(p.formats) /\ g \in ToSet(h.formats) BY <1>9 DEF ToSet
<1>11. a.pt = f.pt /\ a.codec = f.codec /\ a.frame = p.ptime /\ a.min = p.minptime /\ a.max = p.maxptime
       /\ o.pt = g.pt /\ o.codec = g.codec /\ o.frame = h.ptime /\ o.min = 0 /\ o.max = h.ptime
  BY <1>9 DEF OneFrame
<1> HIDE DEF a, o, f, g, answered, offered
<1>12. S(a) # <<>> => /\ DOMAIN S(a)[1] = {"pt", "codec", "frame", "min", "max"} /\ S(a)[1].pt = f.pt
                           /\ S(a)[1].codec = f.codec
                      /\ FrameFits(fits, S(a)[1].frame) /\ f.codec # "TELEPHONE"
  <2> SUFFICES ASSUME S(a) # <<>>
               PROVE  /\ DOMAIN S(a)[1] = {"pt", "codec", "frame", "min", "max"} /\ S(a)[1].pt = f.pt
                      /\ S(a)[1].codec = f.codec
                      /\ FrameFits(fits, S(a)[1].frame) /\ f.codec # "TELEPHONE"
    OBVIOUS
  <2>1. PICK k \in DOMAIN sendF : S(a) = CompatibleAudio(a, sendF[k]) BY <1>3, FirstMatchIs
  <2>2. sendF[k].pcm \in DOMAIN Carries BY DEF IsLocal, ToSet
  <2>3. S(a)[1] = Payload(a.pt, a.codec, sendF[k].frame) /\ FrameFits(a, sendF[k].frame)
          /\ a.codec \in Carries[sendF[k].pcm]
    <3>1. CompatibleAudio(a, sendF[k]) # <<>> BY <2>1
    <3>2. CompatibleAudio(a, sendF[k]) = <<Payload(a.pt, a.codec, sendF[k].frame)>>
            /\ FrameFits(a, sendF[k].frame) /\ a.codec \in Carries[sendF[k].pcm]
      BY <3>1, CompatibleIs
    <3> QED BY <3>2, <2>1
  <2>4. FrameFits(fits, sendF[k].frame) BY <2>3, <1>11 DEF FrameFits
  <2>5. DOMAIN Payload(a.pt, a.codec, sendF[k].frame) = {"pt", "codec", "frame", "min", "max"} BY DEF Payload
  <2> QED BY <2>2, <2>3, <2>4, <2>5, <1>11, CarriesSound, PayloadIs
<1>13. R(o) # <<>> => /\ DOMAIN R(o)[1] = {"pt", "codec", "frame", "min", "max"} /\ R(o)[1].pt = g.pt
                           /\ R(o)[1].codec = g.codec
                      /\ R(o)[1].frame = h.ptime /\ g.codec # "TELEPHONE"
  <2> SUFFICES ASSUME R(o) # <<>>
               PROVE  /\ DOMAIN R(o)[1] = {"pt", "codec", "frame", "min", "max"} /\ R(o)[1].pt = g.pt
                      /\ R(o)[1].codec = g.codec
                      /\ R(o)[1].frame = h.ptime /\ g.codec # "TELEPHONE"
    OBVIOUS
  <2>1. PICK k \in DOMAIN recvF : R(o) = CompatibleAudio(o, recvF[k]) BY <1>3, FirstMatchIs
  <2>2. recvF[k].pcm \in DOMAIN Carries /\ recvF[k].frame \in Nat BY DEF IsLocal, ToSet
  <2>3. R(o)[1] = Payload(o.pt, o.codec, recvF[k].frame) /\ FrameFits(o, recvF[k].frame)
          /\ o.codec \in Carries[recvF[k].pcm]
    <3>1. CompatibleAudio(o, recvF[k]) # <<>> BY <2>1
    <3>2. CompatibleAudio(o, recvF[k]) = <<Payload(o.pt, o.codec, recvF[k].frame)>>
            /\ FrameFits(o, recvF[k].frame) /\ o.codec \in Carries[recvF[k].pcm]
      BY <3>1, CompatibleIs
    <3> QED BY <3>2, <2>1
  <2>4. recvF[k].frame = h.ptime
    BY <2>2, <2>3, <1>11 DEF FrameFits, OneFrame
  <2>5. DOMAIN Payload(o.pt, o.codec, recvF[k].frame) = {"pt", "codec", "frame", "min", "max"} BY DEF Payload
  <2> QED BY <2>2, <2>3, <2>4, <2>5, <1>11, CarriesSound, PayloadIs
<1> HIDE DEF S, R
<1>14. /\ f.codec = g.codec /\ f.codec # "TELEPHONE"
       /\ c.send.codec = f.codec /\ c.send.pt = f.pt /\ FrameFits(fits, c.send.frame)
       /\ c.recv.codec = f.codec /\ c.recv.pt = g.pt /\ c.recv.frame = h.ptime
  <2>0. found = Contract(a, o) BY <1>8 DEF a, o
  <2>1. /\ a.codec = o.codec
        /\ \/ /\ dir = {"send"} /\ S(a) # <<>>
              /\ found = <<[send |-> S(a)[1], recv |-> [S(a)[1] EXCEPT !.pt = o.pt, !.frame = o.frame]]>>
           \/ /\ dir = {"recv"} /\ R(o) # <<>>
              /\ found = <<[send |-> [R(o)[1] EXCEPT !.pt = a.pt, !.frame = a.frame], recv |-> R(o)[1]]>>
           \/ dir = Sendrecv /\ S(a) # <<>> /\ R(o) # <<>> /\ found = <<[send |-> S(a)[1], recv |-> R(o)[1]]>>
    <3>1. found # <<>> BY <1>7
    <3> QED BY <2>0, <3>1 DEF Contract, Missing
  <2>2. CASE dir = {"send"} /\ S(a) # <<>>
               /\ found = <<[send |-> S(a)[1], recv |-> [S(a)[1] EXCEPT !.pt = o.pt, !.frame = o.frame]]>>
    <3>1. c = [send |-> S(a)[1], recv |-> [S(a)[1] EXCEPT !.pt = o.pt, !.frame = o.frame]] BY <2>2, <1>7
    <3>2. c.send = S(a)[1] /\ c.recv = [S(a)[1] EXCEPT !.pt = o.pt, !.frame = o.frame] BY <3>1
    <3>3. c.recv.codec = S(a)[1].codec /\ c.recv.pt = o.pt /\ c.recv.frame = o.frame BY <3>2, <2>2, <1>12
    <3> HIDE DEF fits
    <3> QED BY ZenonT(30), <3>2, <3>3, <2>1, <2>2, <1>11, <1>12
  <2>3. CASE dir = {"recv"} /\ R(o) # <<>>
               /\ found = <<[send |-> [R(o)[1] EXCEPT !.pt = a.pt, !.frame = a.frame], recv |-> R(o)[1]]>>
    <3>1. c = [send |-> [R(o)[1] EXCEPT !.pt = a.pt, !.frame = a.frame], recv |-> R(o)[1]] BY <2>3, <1>7
    <3>2. c.recv = R(o)[1] /\ c.send = [R(o)[1] EXCEPT !.pt = a.pt, !.frame = a.frame] BY <3>1
    <3>3. c.send.codec = R(o)[1].codec /\ c.send.pt = a.pt /\ c.send.frame = a.frame BY <3>2, <2>3, <1>13
    <3>4. FrameFits(fits, p.ptime) BY DEF FrameFits
    <3> HIDE DEF fits
    <3> QED BY ZenonT(30), <3>2, <3>3, <3>4, <2>1, <2>3, <1>11, <1>13
  <2>4. CASE dir = Sendrecv /\ S(a) # <<>> /\ R(o) # <<>> /\ found = <<[send |-> S(a)[1], recv |-> R(o)[1]]>>
    <3>1. c = [send |-> S(a)[1], recv |-> R(o)[1]] BY <2>4, <1>7
    <3>2. c.send = S(a)[1] /\ c.recv = R(o)[1] BY <3>1
    <3> HIDE DEF fits
    <3> QED BY <3>2, <2>1, <2>4, <1>11, <1>12, <1>13
  <2> QED BY <2>1, <2>2, <2>3, <2>4
<1>15. f = p.formats[1] BY <1>10, <1>14 DEF OneCodec
<1>16. f.pt \in PtOf(mine, f.codec) /\ g.pt \in PtOf(theirs, f.codec)
  BY <1>10, <1>14 DEF PtOf
<1>17. AudioReadAlike(mine, theirs, FALSE, c)
  <2> HIDE DEF p, h
  <2>1. p = Audio(mine)[1] /\ h = Audio(theirs)[1] BY DEF p, h
  <2> QED BY <1>14, <1>15, <1>16, <2>1 DEF AudioReadAlike
<1> QED BY <1>17

-----------------------------------------------------------------------------
(* The video of an answer to our own offer *)

\* A number of our offer that the answer names is the format that it stands for.
LEMMA ExactOfferedIs ==
    ASSUME NEW s, NEW offered, IsVideo(offered), NEW n \in DOMAIN offered, offered[n].pt = s.pt,
           MatchingOffered(s, offered) # <<>>
    PROVE  /\ MatchingOffered(s, offered) = <<offered[n]>> /\ DOMAIN offered[n] = VideoFields
           /\ SameCodec(offered[n], s) /\ (s.codec = "H264" => AnswerCompatible(offered[n], s))
<1> DEFINE Accepts(o) == /\ SameCodec(o, s)
                         /\ o.codec = "H264" => AnswerCompatible(o, s)
                         /\ o.codec \notin {"H264", "VP8"} => o.fmtp = s.fmtp
           exact == FirstSuch(offered, LAMBDA o : o.pt = s.pt)
           I == {i \in 1..Len(offered) : offered[i].pt = s.pt}
           m == MatchingOffered(s, offered)
           J == {i \in 1..Len(exact) : Accepts(exact[i])}
<1>1. exact = IF I = {} THEN <<>> ELSE <<offered[Min(I)]>>
  BY DEF FirstSuch
<1>2. IsSequence(offered) /\ DOMAIN offered = 1..Len(offered) /\ I \subseteq DOMAIN offered /\ n \in I
  BY SequenceShape DEF IsVideo
<1>3. \A i \in I : offered[i] = offered[n] BY <1>2 DEF IsVideo, Numbered
<1>4. m = FirstSuch(IF Missing(exact) THEN offered ELSE exact, Accepts) BY DEF MatchingOffered
<1> HIDE DEF exact, Accepts
<1>5. exact = <<offered[n]>>
  <2> HIDE DEF I
  <2> QED BY <1>1, <1>2, <1>3, FirstIndex
<1>6. m = IF J = {} THEN <<>> ELSE <<exact[Min(J)]>>
  BY <1>4, <1>5 DEF FirstSuch, Missing
<1>7. IsSequence(exact) /\ DOMAIN exact = {1} /\ Len(exact) = 1 /\ exact[1] = offered[n]
  BY <1>5 DEF IsSequence, ToSet
<1>8. J \subseteq DOMAIN exact BY <1>7
<1> HIDE DEF m
<1>9. J # {} /\ Min(J) \in J /\ m = <<exact[Min(J)]>>
  <2>1. m # <<>> BY DEF m
  <2> HIDE DEF J
  <2> QED BY <2>1, <1>6, <1>7, <1>8, FirstIndex
<1>10. m = <<offered[n]>> /\ Accepts(offered[n]) BY <1>7, <1>8, <1>9
<1>11. DOMAIN offered[n] = VideoFields BY <1>2 DEF IsVideo, VideoFields, ToSet
<1> QED BY <1>10, <1>11 DEF Accepts, m, SameCodec

\* The stream that NegotiateVideoAnswer makes of an answer with one format: each direction under
\* the number of its receiver and within its level.
LEMMA DialogVideoIs ==
    ASSUME NEW mine, NEW formats, IsVideo(formats),
           NEW g, DOMAIN g = VideoFields, Video(mine) = <<>> \/ Video(mine)[1].formats = <<g>>,
           NEW n \in DOMAIN formats, formats[n].pt = g.pt,
           NegotiateVideoAnswer(mine, formats) # <<>>
    PROVE  LET d == NegotiateVideoAnswer(mine, formats)[1]
               c == formats[n]
           IN  /\ NegotiateVideoAnswer(mine, formats) = <<d>> /\ Video(mine) # <<>>
               /\ DOMAIN d.send = VideoFields
               /\ d.send.codec = g.codec /\ d.send.pt = g.pt /\ c.codec = g.codec
               /\ d.recv.codec = g.codec /\ d.recv.pt = c.pt
               /\ IF g.codec = "H264"
                  THEN d.send.level = g.level /\ d.recv.level = (IF c.asym /\ g.asym THEN c.level
                    ELSE g.level)
                  ELSE d.send.fmtp = g.fmtp /\ d.recv.fmtp = c.fmtp
<1> DEFINE M(s) == MatchingOffered(s, formats)
           Common(s) == [AnswerContract(M(s)[1], s)[1] EXCEPT !.dir = s.dir]
           Contract(s) == CASE Missing(M(s)) \/ ~Mapped(s) -> <<>>
                            [] ~Missing(M(s)) /\ Mapped(s) /\ s.codec = "H264"
                              /\ ~BothAsymmetric(M(s)[1], s) ->
                                 <<[send |-> [Common(s) EXCEPT !.pt = s.pt], recv |-> Common(s)]>>
                            [] OTHER -> <<[send |-> s, recv |-> [M(s)[1] EXCEPT !.dir = s.dir]]>>
           read == OfferedVideo(mine)
           result == NegotiateVideoAnswer(mine, formats)
           I == {i \in 1..Len(read) : ~Missing(Contract(read[i]))}
           x == Video(mine)[1]
           c == formats[n]
<1>1. result = FirstOf(read, Contract) BY DEF NegotiateVideoAnswer
<1> HIDE DEF Contract
<1>2. FirstOf(read, Contract) = IF I = {} THEN <<>> ELSE Contract(read[Min(I)])
  BY DEF FirstOf
<1>0. Video(mine) # <<>> => IsVideo(x.formats) BY OneVideo
<1>3. IsSequence(read) /\ I \subseteq DOMAIN read BY <1>0, OfferedVideoIs, SequenceShape
<1> HIDE DEF result
<1>4. I # {} /\ Min(I) \in I /\ result = Contract(read[Min(I)])
  <2>1. result # <<>> BY DEF result
  <2> HIDE DEF I, read
  <2> QED BY <2>1, <1>1, <1>2, <1>3, FirstIndex
<1> DEFINE i == Min(I)
           s == read[i]
<1>5. Video(mine) # <<>> /\ i \in DOMAIN x.formats /\ s = InSection(x, x.formats[i])
  <2> HIDE DEF I, read
  <2> QED BY <1>0, <1>3, <1>4, OfferedVideoIs DEF read
<1>6. x.formats[i] = g BY <1>5
<1> HIDE DEF I, i, read, s
<1>7. /\ DOMAIN s = VideoFields /\ s.pt = g.pt /\ s.codec = g.codec /\ s.level = g.level /\ s.asym = g.asym
      /\ s.fmtp = g.fmtp
  BY <1>5, <1>6, InSectionIs
<1>8. result = Contract(s) /\ result # <<>> BY <1>4 DEF i, s, result
<1>9. M(s) # <<>> BY <1>8 DEF Contract, Missing
<1>10. M(s) = <<c>> /\ DOMAIN c = VideoFields /\ SameCodec(c, s)
         /\ (s.codec = "H264" => AnswerCompatible(c, s))
  BY <1>7, <1>9, ExactOfferedIs
<1>11. M(s)[1] = c BY <1>10
<1> HIDE DEF M, c
<1>12. CASE s.codec = "H264" /\ ~BothAsymmetric(c, s)
  <2> DEFINE contract == [s EXCEPT !.pt = c.pt, !.dir = c.dir, !.asym = BothAsymmetric(c, s)]
             common == [contract EXCEPT !.dir = s.dir]
             sent == [common EXCEPT !.pt = s.pt]
  <2>1. AnswerContract(c, s) = <<contract>> BY <1>10, <1>12 DEF AnswerContract, SameCodec
  <2>2. DOMAIN contract = VideoFields /\ contract.pt = c.pt /\ contract.codec = s.codec
          /\ contract.level = s.level
    BY <1>7 DEF VideoFields
  <2>3. AnswerContract(c, s)[1] = contract BY <2>1
  <2> HIDE DEF contract
  <2>4. Common(s) = common BY <1>11, <2>3
  <2>5. DOMAIN common = VideoFields /\ common.pt = c.pt /\ common.codec = s.codec /\ common.level = s.level
    BY <2>2 DEF VideoFields
  <2> HIDE DEF common, Common
  <2>6. DOMAIN sent = VideoFields /\ sent.pt = s.pt /\ sent.codec = s.codec /\ sent.level = s.level
    BY <2>5 DEF VideoFields
  <2>7. result = <<[send |-> [Common(s) EXCEPT !.pt = s.pt], recv |-> Common(s)]>>
    BY <1>8, <1>9, <1>11, <1>12 DEF Contract, Missing
  <2>8. result = <<[send |-> sent, recv |-> common]>> BY <2>7, <2>4
  <2> HIDE DEF sent
  <2>9. result = <<result[1]>> /\ result[1] = [send |-> sent, recv |-> common] BY <2>8 DEF result
  <2>10. result[1].send = sent /\ result[1].recv = common BY <2>9
  <2>11. ~(c.asym /\ g.asym) BY <1>12, <1>7 DEF BothAsymmetric
  <2> QED BY <2>5, <2>6, <2>9, <2>10, <2>11, <1>5, <1>7, <1>10, <1>12 DEF result, SameCodec, c
<1>13. CASE ~(s.codec = "H264" /\ ~BothAsymmetric(c, s))
  <2> DEFINE recv == [c EXCEPT !.dir = s.dir]
  <2>1. result = <<[send |-> s, recv |-> [M(s)[1] EXCEPT !.dir = s.dir]]>>
    BY <1>8, <1>9, <1>11, <1>13 DEF Contract, Missing
  <2>2. DOMAIN recv = VideoFields /\ recv.pt = c.pt /\ recv.codec = c.codec /\ recv.level = c.level
          /\ recv.fmtp = c.fmtp
    BY <1>10 DEF VideoFields
  <2>3. result = <<[send |-> s, recv |-> recv]>> BY <2>1, <1>11
  <2> HIDE DEF recv
  <2>4. result = <<result[1]>> /\ result[1] = [send |-> s, recv |-> recv] BY <2>3 DEF result
  <2>5. result[1].send = s /\ result[1].recv = recv BY <2>4
  <2>6. g.codec = "H264" => c.asym /\ g.asym BY <1>13, <1>7 DEF BothAsymmetric
  <2>7. c.codec = g.codec BY <1>10, <1>7 DEF SameCodec
  <2> QED BY <2>2, <2>4, <2>5, <2>6, <2>7, <1>5, <1>7 DEF result, c
<1> QED BY <1>12, <1>13

\* Both ends read the video of the answer to our offer alike.
LEMMA DialogVideoAlike ==
    ASSUME NEW mine, NEW theirs, NEW formats, IsVideo(formats),
           NEW g, DOMAIN g = VideoFields, Video(mine) = <<>> \/ \E y : Video(mine) = <<y>>
             /\ y.formats = <<g>>,
           NEW n \in DOMAIN formats, formats[n].pt = g.pt,
           Video(theirs)[1].formats = formats,
           NegotiateVideoAnswer(mine, formats) # <<>>, NEW v,
           v.send = NegotiateVideoAnswer(mine, formats)[1].send, v.recv = NegotiateVideoAnswer(mine,
             formats)[1].recv
    PROVE  VideoReadAlike(mine, theirs, FALSE, v)
<1> DEFINE c == formats[n]
           d == NegotiateVideoAnswer(mine, formats)[1]
<1>1. Video(mine) = <<>> \/ Video(mine)[1].formats = <<g>> OBVIOUS
<1>2. /\ d.send.codec = g.codec /\ d.send.pt = g.pt /\ c.codec = g.codec
      /\ d.recv.codec = g.codec /\ d.recv.pt = c.pt
      /\ IF g.codec = "H264"
         THEN d.send.level = g.level /\ d.recv.level = (IF c.asym /\ g.asym THEN c.level ELSE g.level)
         ELSE d.send.fmtp = g.fmtp /\ d.recv.fmtp = c.fmtp
  BY <1>1, DialogVideoIs
<1>3. \A f, h \in ToSet(formats) : f.pt = h.pt => f = h BY DEF IsVideo, Numbered, ToSet
<1>4. c \in ToSet(formats) /\ c.pt = g.pt BY DEF ToSet
<1>5. (CHOOSE f \in ToSet(formats) : f.pt = g.pt) = c
  <2> DEFINE o == CHOOSE f \in ToSet(formats) : f.pt = g.pt
  <2>1. o \in ToSet(formats) /\ o.pt = g.pt BY <1>4
  <2> QED BY <2>1, <1>3, <1>4
<1> HIDE DEF c
<1>6. /\ v.send.codec = g.codec /\ v.send.pt = g.pt /\ v.recv.pt = c.pt
      /\ Limit(v.send, v.send, v.send) = Limit(g, c, g)
      /\ Limit(v.recv, v.recv, v.recv) = Limit(c, c, g)
  <2>1. v.send = d.send /\ v.recv = d.recv OBVIOUS
  <2> HIDE DEF d
  <2>2. CASE g.codec = "H264" BY <1>2, <2>1, <2>2 DEF Limit
  <2>3. CASE g.codec # "H264" BY <1>2, <2>1, <2>3 DEF Limit
  <2> QED BY <2>2, <2>3, <1>2, <2>1
<1>7. ASSUME NEW h \in DOMAIN Video(mine)
      PROVE  LET answered == Video(mine)[h].formats[1]
                 offered == CHOOSE f \in ToSet(Video(theirs)[1].formats) : f.pt = answered.pt
             IN  /\ v.send.codec = answered.codec /\ v.send.pt = answered.pt /\ v.recv.pt = offered.pt
                 /\ Limit(v.send, v.send, v.send) = Limit(answered, offered, answered)
                 /\ Limit(v.recv, v.recv, v.recv) = Limit(offered, offered, answered)
  <2>1. PICK y : Video(mine) = <<y>> /\ y.formats = <<g>> BY <1>7
  <2>2. h = 1 /\ Video(mine)[h].formats[1] = g BY <2>1, <1>7
  <2>3. (CHOOSE f \in ToSet(Video(theirs)[1].formats) : f.pt = Video(mine)[h].formats[1].pt) = c BY <2>2, <1>5
  <2> QED BY <2>2, <2>3, <1>6
<1> QED BY <1>7 DEF VideoReadAlike

\* An answer without video negotiates none.
LEMMA NoDialogVideo ==
    ASSUME NEW mine, Video(mine) = <<>>, NEW formats
    PROVE  NegotiateVideoAnswer(mine, formats) = <<>>
<1>1. OfferedVideo(mine) = <<>> BY DEF OfferedVideo, Missing
<1> QED BY <1>1 DEF NegotiateVideoAnswer, FirstOf

-----------------------------------------------------------------------------
(* The two contracts of a bridge *)

\* The level that the destination selected, on the offerer's own payload.
LEMMA ContractIs ==
    ASSUME NEW o, NEW a, NEW i, Sends(o, i), DOMAIN a = VideoFields, NEW k \in DOMAIN AnswerContract(o, a)
    PROVE  LET c == AnswerContract(o, a)[k] IN
           /\ k = 1 /\ c.pt = i.pt /\ c.codec = i.codec /\ c.rtp = i.rtp
           /\ i.codec = "H264" /\ c.asym => o.asym
<1>1. SameCodec(o, a) BY DEF AnswerContract
<1>2. o.pt = i.pt /\ o.codec = i.codec /\ o.rtp = i.rtp /\ a.codec = o.codec /\ a.rtp = o.rtp
        /\ DOMAIN o = VideoFields
  BY <1>1 DEF Sends, SameCodec
<1> DEFINE c == AnswerContract(o, a)[k]
<1>3. CASE o.codec = "H264"
  <2> DEFINE contract == [a EXCEPT !.pt = o.pt, !.dir = o.dir, !.asym = BothAsymmetric(o, a)]
  <2>1. k = 1 /\ c = contract BY <1>1, <1>3 DEF AnswerContract
  <2>2. contract.pt = o.pt /\ contract.codec = a.codec /\ contract.rtp = a.rtp
          /\ contract.asym = BothAsymmetric(o, a)
    BY DEF VideoFields
  <2>3. BothAsymmetric(o, a) => o.asym BY DEF BothAsymmetric
  <2> HIDE DEF contract, c
  <2> QED BY <1>2, <2>1, <2>2, <2>3 DEF c
<1>4. CASE o.codec = "VP8"
  <2> DEFINE contract == [o EXCEPT !.fmtp = a.fmtp]
  <2>1. k = 1 /\ c = contract BY <1>1, <1>4 DEF AnswerContract
  <2>2. contract.pt = o.pt /\ contract.codec = o.codec /\ contract.rtp = o.rtp BY <1>2 DEF VideoFields
  <2> HIDE DEF contract, c
  <2> QED BY <1>2, <1>4, <2>1, <2>2 DEF c
<1>5. CASE o.codec \notin {"H264", "VP8"}
  <2>1. k = 1 /\ c = o BY <1>1, <1>5 DEF AnswerContract
  <2> HIDE DEF c
  <2> QED BY <1>2, <1>5, <2>1 DEF c
<1> QED BY <1>3, <1>4, <1>5

\* The halves that follow from such a contract take up the format of the offer.
LEMMA DirectedIs ==
    ASSUME NEW o, NEW c, NEW i, Sends(o, i), c.pt = i.pt, c.codec = i.codec, c.rtp = i.rtp,
           i.codec = "H264" /\ c.asym => o.asym, DOMAIN c = VideoFields,
           NEW k \in DOMAIN OfferAnswerDirectional(o, c)
    PROVE  LET d == OfferAnswerDirectional(o, c)[k] IN
           /\ k = 1 /\ TakesUp(d, i) /\ d.answer.rtp = i.rtp
<1> DEFINE d == OfferAnswerDirectional(o, c)[k]
<1>1. SameCodec(o, c) /\ o.pt = i.pt /\ o.codec = i.codec /\ DOMAIN o = VideoFields BY DEF SameCodec, Sends
<1>2. CASE o.codec = "H264" /\ ~BothAsymmetric(o, c)
  <2> DEFINE sent == [o EXCEPT !.level = c.level, !.asym = FALSE]
             recv == [c EXCEPT !.asym = FALSE]
  <2>1. k = 1 /\ d = [send |-> sent, recv |-> recv, answer |-> c]
    <3>1. OfferAnswerDirectional(o, c) = IF ~AnswerCompatible(o, c) THEN <<>>
            ELSE <<[send |-> sent, recv |-> recv, answer |-> c]>>
      BY <1>1, <1>2 DEF OfferAnswerDirectional
    <3> HIDE DEF sent, recv
    <3> QED BY <3>1
  <2>2. /\ sent.pt = o.pt /\ sent.codec = o.codec /\ sent.level = c.level
        /\ recv.pt = c.pt /\ recv.codec = c.codec /\ recv.level = c.level
    BY <1>1 DEF VideoFields
  <2>3. d.send = sent /\ d.recv = recv /\ d.answer = c BY <2>1
  <2>4. ~c.asym BY <1>1, <1>2 DEF BothAsymmetric
  <2> HIDE DEF sent, recv, d
  <2> QED BY <1>1, <1>2, <2>1, <2>2, <2>3, <2>4 DEF TakesUp, d
<1>3. CASE ~(o.codec = "H264" /\ ~BothAsymmetric(o, c))
  <2>1. k = 1 /\ d = [send |-> o, recv |-> c, answer |-> c] BY <1>1, <1>3 DEF OfferAnswerDirectional
  <2>2. d.send = o /\ d.recv = c /\ d.answer = c BY <2>1
  <2>3. o.codec = "H264" => o.asym /\ c.asym BY <1>3 DEF BothAsymmetric
  <2> HIDE DEF d
  <2> QED BY <1>1, <1>3, <2>1, <2>2, <2>3 DEF TakesUp, Sends, d
<1> QED BY <1>2, <1>3

\* A contract has the fields of a format.
LEMMA ContractFields ==
    ASSUME NEW o, NEW a, DOMAIN o = VideoFields, DOMAIN a = VideoFields, NEW k \in DOMAIN AnswerContract(o, a)
    PROVE  DOMAIN AnswerContract(o, a)[k] = VideoFields
<1>1. CASE o.codec = "H264"
  <2> DEFINE contract == [a EXCEPT !.pt = o.pt, !.dir = o.dir, !.asym = BothAsymmetric(o, a)]
  <2>1. DOMAIN contract = VideoFields OBVIOUS
  <2>2. AnswerContract(o, a) = <<>> \/ AnswerContract(o, a) = <<contract>> BY <1>1 DEF AnswerContract
  <2> HIDE DEF contract
  <2> QED BY <2>1, <2>2
<1>2. CASE o.codec # "H264" BY <1>2 DEF AnswerContract, VideoFields
<1> QED BY <1>1, <1>2

\* What the halves of a bridge carry fits both ways, and the caller can be answered with it.
LEMMA SourceIs ==
    ASSUME NEW inv, NEW dialog, NEW i, inv.video # <<>> => Sends(inv.video[1].send, i),
           dialog.video # <<>> => DOMAIN dialog.video[1].send = VideoFields,
           SourceVideo(inv, dialog) # <<>>
    PROVE  LET d == SourceVideo(inv, dialog)[1] IN
           /\ SourceVideo(inv, dialog) = <<d>>
           /\ inv.video # <<>> /\ dialog.video # <<>>
           /\ TakesUp(d, i) /\ d.answer.rtp = i.rtp
           /\ PassthroughCompatible(d.recv, dialog.video[1].send)
           /\ PassthroughCompatible(dialog.video[1].recv, d.send)
<1> DEFINE callee == dialog.video[1]
           o == inv.video[1].send
           contract == AnswerContract(o, callee.send)
           streams == IF Missing(contract) THEN <<>> ELSE OfferAnswerDirectional(o, contract[1])
           Fits(d) == /\ PassthroughCompatible(d.recv, callee.send)
                      /\ PassthroughCompatible(callee.recv, d.send)
           I == {n \in 1..Len(streams) : Fits(streams[n])}
           source == SourceVideo(inv, dialog)
<1>1. inv.video # <<>> /\ dialog.video # <<>> /\ source = FirstSuch(streams, Fits)
  BY DEF SourceVideo, Missing
<1>2. Sends(o, i) /\ DOMAIN callee.send = VideoFields BY <1>1
<1>3. contract # <<>> => 1 \in DOMAIN contract BY DEF AnswerContract
<1>4. streams # <<>> => /\ contract # <<>> /\ IsSequence(streams)
                        /\ \A n \in DOMAIN streams : n = 1 /\ TakesUp(streams[n], i)
                             /\ streams[n].answer.rtp = i.rtp
  <2> SUFFICES ASSUME streams # <<>>
               PROVE  /\ contract # <<>> /\ IsSequence(streams)
                      /\ \A n \in DOMAIN streams : n = 1 /\ TakesUp(streams[n], i)
                           /\ streams[n].answer.rtp = i.rtp
    OBVIOUS
  <2>1. contract # <<>> /\ streams = OfferAnswerDirectional(o, contract[1]) BY DEF Missing
  <2>2. /\ contract[1].pt = i.pt /\ contract[1].codec = i.codec /\ contract[1].rtp = i.rtp
        /\ i.codec = "H264" /\ contract[1].asym => o.asym
    BY <1>2, <1>3, <2>1, ContractIs
  <2>3. DOMAIN contract[1] = VideoFields BY <1>2, <1>3, <2>1, ContractFields DEF Sends
  <2> HIDE DEF contract, o
  <2>4. IsSequence(streams)
    <3>1. \E d : streams = <<d>> BY <2>1 DEF OfferAnswerDirectional
    <3> HIDE DEF streams
    <3> QED BY <3>1 DEF IsSequence, ToSet
  <2>5. ASSUME NEW n \in DOMAIN streams
        PROVE  n = 1 /\ TakesUp(streams[n], i) /\ streams[n].answer.rtp = i.rtp
    <3>1. n \in DOMAIN OfferAnswerDirectional(o, contract[1])
            /\ streams[n] = OfferAnswerDirectional(o, contract[1])[n] BY <2>1
    <3> HIDE DEF streams
    <3> QED BY <3>1, <2>2, <2>3, <1>2, DirectedIs
  <2> QED BY <2>1, <2>4, <2>5
<1> HIDE DEF streams, Fits
<1>5. FirstSuch(streams, Fits) = IF I = {} THEN <<>> ELSE <<streams[Min(I)]>>
  BY DEF FirstSuch
<1>6. streams # <<>>
  <2>1. source # <<>> OBVIOUS
  <2>2. streams = <<>> => I = {} OBVIOUS
  <2> HIDE DEF I, source
  <2> QED BY <2>1, <2>2, <1>1, <1>5
<1>7. I \subseteq DOMAIN streams BY <1>4, <1>6, SequenceShape
<1>8. I # {} /\ Min(I) \in I /\ source = <<streams[Min(I)]>>
  <2>1. source # <<>> OBVIOUS
  <2> HIDE DEF I, source
  <2> QED BY <2>1, <1>1, <1>4, <1>5, <1>6, <1>7, FirstIndex
<1>9. source = <<streams[1]>> /\ Fits(streams[1]) /\ 1 \in DOMAIN streams BY <1>4, <1>6, <1>7, <1>8
<1>10. source[1] = streams[1] BY <1>9
<1> HIDE DEF source
<1>11. source = <<source[1]>> /\ TakesUp(source[1], i) /\ source[1].answer.rtp = i.rtp
  BY <1>4, <1>6, <1>9, <1>10
<1> QED BY <1>1, <1>9, <1>10, <1>11 DEF Fits, source

-----------------------------------------------------------------------------
(* Invitations *)

\* An invitation that was read out of an offer.
Invited(inv, offer) ==
    /\ Audio(offer) # <<>> /\ inv.audio.send = inv.audio.recv /\ Reads(inv.audio.send, offer)
    /\ inv.dir = AudioDir(offer)
    /\ inv.video # <<>> =>
         /\ inv.video = <<inv.video[1]>>
         /\ Streams(inv.video[1], offer)
         /\ \E f : Sends(inv.video[1].send, InSection(Video(offer)[1], f))
              /\ TakesUp(inv.video[1], InSection(Video(offer)[1], f)) /\ DOMAIN f = VideoFields
                   /\ f \in ToSet(Video(offer)[1].formats)

\* Whatever an offer is accepted as was read out of that offer.
LEMMA InviteIs ==
    ASSUME setup \in Setups, NEW s, NEW offer, IsDescription(offer), NEW formats, IsVideo(formats),
           NEW inv \in ToSet(Invite(s, offer, formats))
    PROVE  Invited(inv, offer)
<1> DEFINE audio == NegotiateDirectional(offer, setup.send, setup.recv)
           video == IF formats = <<>> THEN <<>>
                    ELSE NegotiateVideoOffer(offer, formats, s = "right" /\ setup.camera, s = "left"
                      /\ setup.passthrough)
           Inv(i) == [audio |-> audio[i], dir |-> AudioDir(offer), held |-> AudioHeld(offer),
                      video |-> video, vheld |-> ~Missing(video) /\ VideoHeld(offer)]
<1>1. Invite(s, offer, formats) = [i \in DOMAIN audio |-> Inv(i)] BY DEF Invite
<1> HIDE DEF audio, video
<1>2. PICK i \in DOMAIN audio : inv = Inv(i) BY <1>1 DEF ToSet
<1>3. inv.audio = audio[i] /\ inv.dir = AudioDir(offer) /\ inv.video = video BY <1>2
<1>4. audio[i] \in ToSet(audio) BY DEF ToSet
<1>5. IsLocal(setup.send) /\ IsLocal(setup.recv) BY RenegotiationConstants
<1>6. IsSequence(offer) /\ \A x \in ToSet(offer) : IsSequence(x.formats) BY DEF IsDescription, IsSection
<1>7. inv.audio.send = inv.audio.recv /\ Reads(inv.audio.send, offer)
  BY <1>3, <1>4, <1>5, <1>6, AudioRead DEF audio
<1>8. Audio(offer) # <<>> BY <1>7 DEF Reads
<1>9. ASSUME inv.video # <<>>
      PROVE  /\ inv.video = <<inv.video[1]>>
             /\ Streams(inv.video[1], offer)
             /\ \E f : Sends(inv.video[1].send, InSection(Video(offer)[1], f))
                  /\ TakesUp(inv.video[1], InSection(Video(offer)[1], f)) /\ DOMAIN f = VideoFields
                       /\ f \in ToSet(Video(offer)[1].formats)
  <2> DEFINE n == NegotiateVideoOffer(offer, formats, s = "right" /\ setup.camera, s = "left"
               /\ setup.passthrough)
  <2>1. video = n /\ n # <<>> BY <1>3, <1>9 DEF video
  <2>3. /\ Video(offer) # <<>> /\ n = <<n[1]>>
        /\ \E f \in ToSet(Video(offer)[1].formats) :
             /\ DOMAIN f = VideoFields
             /\ TakesUp(n[1], InSection(Video(offer)[1], f))
             /\ Sends(n[1].send, InSection(Video(offer)[1], f)) /\ n[1].answer.rtp = Video(offer)[1].rtp
    BY <2>1, StreamIs
  <2>4. inv.video = n BY <2>1, <1>3
  <2> HIDE DEF n
  <2> QED BY <2>3, <2>4 DEF Streams
<1> QED BY <1>3, <1>7, <1>8, <1>9 DEF Invited

-----------------------------------------------------------------------------
(* Every answer that Home Assistant makes is right *)

\* A function on one element.
LEMMA Single ==
    ASSUME NEW f, NEW x, f = <<x>>
    PROVE  DOMAIN f = {1} /\ f[1] = x /\ f # <<>> /\ ToSet(f) = {x}
  BY DEF ToSet

\* The format that an answer shows for the stream of an invitation.
LEMMA AnswerOf ==
    ASSUME NEW v
    PROVE  /\ v = <<>> => [k \in DOMAIN v |-> v[k].answer] = <<>>
           /\ v = <<v[1]>> => [k \in DOMAIN v |-> v[k].answer] = <<v[1].answer>>
<1>1. v = <<>> => [k \in DOMAIN v |-> v[k].answer] = <<>> OBVIOUS
<1>2. ASSUME v = <<v[1]>> PROVE [k \in DOMAIN v |-> v[k].answer] = <<v[1].answer>>
  <2>1. DOMAIN v = 1..1 BY <1>2
  <2> DEFINE f == [k \in 1..1 |-> v[k].answer]
  <2>2. f = <<f[1]>> OBVIOUS
  <2> QED BY <2>1, <2>2
<1> QED BY <1>1, <1>2

\* What each end makes of the answer to an offer.
Right(offer, answer, audio, video) ==
    /\ ValidAnswer(offer, answer)
    /\ AudioReadAlike(offer, answer, TRUE, audio)
    /\ \A v \in ToSet(video) : VideoReadAlike(offer, answer, TRUE, v)

\* Whatever an invitation is answered with, in directions that the offer leaves, is right.
LEMMA InvitedRight ==
    ASSUME NEW offer, IsDescription(offer), NEW inv, Invited(inv, offer),
           NEW shown, shown = <<>> \/ (inv.video # <<>> /\ shown = <<inv.video[1].answer>>),
           NEW audioDir, audioDir \subseteq Flip(inv.dir),
           NEW videoDir, shown # <<>> => videoDir \subseteq Flip(inv.video[1].send.dir)
    PROVE  LET answer == BuildAnswer(inv.audio, offer, shown, audioDir, videoDir)
           IN  /\ Right(offer, answer, inv.audio, inv.video)
               /\ shown = <<>> => \A v : VideoReadAlike(offer, answer, TRUE, v)
               /\ shown # <<>> => Video(answer) # <<>>
<1> DEFINE answer == BuildAnswer(inv.audio, offer, shown, audioDir, videoDir)
           d == inv.video[1]
           video == inv.video
<1>1. audioDir \subseteq Flip(AudioDir(offer)) BY DEF Invited
<1>2. video \in {<<>>, <<d>>} /\ (video # <<>> => Streams(d, offer)) BY DEF Invited
<1>3. shown = <<>> \/ (video # <<>> /\ shown = <<d.answer>>) OBVIOUS
<1>4. shown # <<>> => videoDir \subseteq Flip(Video(offer)[1].dir)
  <2> SUFFICES ASSUME shown # <<>> PROVE videoDir \subseteq Flip(Video(offer)[1].dir) OBVIOUS
  <2>1. PICK f : Sends(d.send, InSection(Video(offer)[1], f)) /\ DOMAIN f = VideoFields BY DEF Invited
  <2>2. d.send.dir = Video(offer)[1].dir BY <2>1, InSectionIs DEF Sends
  <2> QED BY <2>2
<1>5. inv.audio.send = inv.audio.recv /\ Reads(inv.audio.send, offer) BY DEF Invited
<1> HIDE DEF d, video, answer
<1>6. answer = BuildAnswer(inv.audio, offer, shown, audioDir, videoDir) BY DEF answer
<1>7. /\ ValidAnswer(offer, answer)
      /\ AudioReadAlike(offer, answer, TRUE, inv.audio)
      /\ \A v : VideoReadAlike(offer, answer, TRUE, v) \/ shown # <<>>
      /\ \A v \in ToSet(video) : VideoReadAlike(offer, answer, TRUE, v)
      /\ shown # <<>> => Video(answer) # <<>>
  BY <1>1, <1>2, <1>3, <1>4, <1>5, <1>6, BuiltRight
<1> QED BY <1>7 DEF Right, answer, video

\* The local direction lies within what the offer leaves.
LEMMA LocalDirIs ==
    ASSUME NEW d, NEW held PROVE LocalDirectionForOffer(d, held) \subseteq Flip(d)
  BY ConstrainedIs DEF LocalDirectionForOffer

\* Every answer to a later offer, whoever makes it.
LEMMA AnswerToRight ==
    ASSUME NEW offer, IsDescription(offer), NEW inv, Invited(inv, offer), NEW s, NEW port, port
             => inv.video # <<>>
    PROVE  LET answer == AnswerTo(s, inv, offer, port)
           IN  /\ Right(offer, answer, inv.audio, inv.video)
               /\ inv.video = <<>> => \A v : VideoReadAlike(offer, answer, TRUE, v)
               /\ port /\ s = "left" /\ setup.owner \in {"softphone", "preanswer"} => Video(answer) # <<>>
<1> DEFINE answer == AnswerTo(s, inv, offer, port)
           all == [k \in DOMAIN inv.video |-> inv.video[k].answer]
<1>0. (all = <<>> /\ inv.video = <<>>) \/ (inv.video # <<>> /\ all = <<inv.video[1].answer>>)
  BY AnswerOf DEF Invited
<1> HIDE DEF all
<1>1. CASE s = "right"
  <2> DEFINE may == IF setup.owner = "browser" THEN (IF setup.camera THEN Sendrecv ELSE {"recv"})
                    ELSE leg["right"].formats[1].dir
             vdir == IF Missing(inv.video) THEN {}
                     ELSE ConstrainedDirection(inv.video[1].send.dir,
                             /\ "send" \in may /\ ~inv.vheld
                             /\ setup.owner = "browser" => BrowserSends(inv.video[1].send),
                             "recv" \in may)
             adir == LocalDirectionForOffer(inv.dir, inv.held)
  <2>1. answer = BuildAnswer(inv.audio, offer, all, adir, vdir) BY <1>1 DEF AnswerTo, ClientAnswer, all
  <2>2. adir \subseteq Flip(inv.dir) BY LocalDirIs
  <2>3. all # <<>> => vdir \subseteq Flip(inv.video[1].send.dir) BY <1>0, ConstrainedIs DEF Missing
  <2> HIDE DEF vdir, adir, answer
  <2>4. /\ Right(offer, answer, inv.audio, inv.video)
        /\ all = <<>> => \A v : VideoReadAlike(offer, answer, TRUE, v)
    BY <1>0, <2>1, <2>2, <2>3, InvitedRight
  <2> QED BY <1>0, <2>4, <1>1 DEF answer
<1>2. CASE s = "left" /\ setup.owner = "relay"
  <2> DEFINE adir == ConstrainedDirection(inv.dir, CanSend("right") /\ ~inv.held, CanReceive("right"))
             callee == vrelay[1].right
             vdir == IF Missing(inv.video) THEN {}
                     ELSE ConstrainedDirection(inv.video[1].send.dir, RemoteSends(callee.video.send)
                       /\ ~inv.vheld,
                                          RemoteReceives(callee.video.send, callee.held))
  <2>1. answer = BuildAnswer(inv.audio, offer, all, adir, vdir) BY <1>2 DEF AnswerTo, RelayAnswer, all
  <2>2. adir \subseteq Flip(inv.dir) BY ConstrainedIs
  <2>3. all # <<>> => vdir \subseteq Flip(inv.video[1].send.dir) BY <1>0, ConstrainedIs DEF Missing
  <2> HIDE DEF vdir, adir, answer
  <2>4. /\ Right(offer, answer, inv.audio, inv.video)
        /\ all = <<>> => \A v : VideoReadAlike(offer, answer, TRUE, v)
    BY <1>0, <2>1, <2>2, <2>3, InvitedRight
  <2> QED BY <1>0, <2>4, <1>2 DEF answer
<1>3. CASE s # "right" /\ ~(s = "left" /\ setup.owner = "relay")
  <2> DEFINE has == port /\ setup.owner # "assist"
             shown == IF has THEN <<inv.video[1].answer>> ELSE <<>>
             adir == LocalDirectionForOffer(inv.dir, inv.held)
             vdir == IF has THEN ConstrainedDirection(inv.video[1].send.dir, MaySendVideo(inv), TRUE) ELSE {}
  <2>1. answer = BuildAnswer(inv.audio, offer, shown, adir, vdir) BY <1>3 DEF AnswerTo, LocalAnswer
  <2>2. adir \subseteq Flip(inv.dir) BY LocalDirIs
  <2>3. vdir \subseteq Flip(inv.video[1].send.dir) BY ConstrainedIs
  <2>4. shown = <<>> \/ (inv.video # <<>> /\ shown = <<inv.video[1].answer>>) OBVIOUS
  <2>5. inv.video = <<>> => shown = <<>> OBVIOUS
  <2>6. has => shown # <<>> OBVIOUS
  <2> HIDE DEF vdir, adir, answer, shown
  <2>7. /\ Right(offer, answer, inv.audio, inv.video)
        /\ shown = <<>> => \A v : VideoReadAlike(offer, answer, TRUE, v)
        /\ shown # <<>> => Video(answer) # <<>>
    BY <2>1, <2>2, <2>3, <2>4, InvitedRight
  <2> QED BY <2>5, <2>6, <2>7, <1>3 DEF answer
<1> QED BY <1>1, <1>2, <1>3

\* The first answer of an owner that ends the call itself.
LEMMA LocalAnswerRight ==
    ASSUME NEW offer, IsDescription(offer), NEW inv, Invited(inv, offer), NEW port, port => inv.video # <<>>
    PROVE  LET answer == LocalAnswer(inv, offer, port)
           IN  /\ Right(offer, answer, inv.audio, inv.video)
               /\ port => Video(answer) # <<>>
<1> DEFINE shown == IF port THEN <<inv.video[1].answer>> ELSE <<>>
           adir == LocalDirectionForOffer(inv.dir, inv.held)
           vdir == IF port THEN ConstrainedDirection(inv.video[1].send.dir, MaySendVideo(inv), TRUE) ELSE {}
           answer == LocalAnswer(inv, offer, port)
<1>1. answer = BuildAnswer(inv.audio, offer, shown, adir, vdir) BY DEF LocalAnswer
<1>2. adir \subseteq Flip(inv.dir) BY LocalDirIs
<1>3. vdir \subseteq Flip(inv.video[1].send.dir) BY ConstrainedIs
<1>4. shown = <<>> \/ (inv.video # <<>> /\ shown = <<inv.video[1].answer>>) OBVIOUS
<1>5. port => shown # <<>> OBVIOUS
<1> HIDE DEF vdir, adir, answer, shown
<1>6. /\ Right(offer, answer, inv.audio, inv.video)
      /\ shown # <<>> => Video(answer) # <<>>
  BY <1>1, <1>2, <1>3, <1>4, InvitedRight
<1> QED BY <1>5, <1>6 DEF answer

\* The first answer to a bridge's caller, with what its callee took up.
LEMMA CallerAnswerRight ==
    ASSUME NEW inv, IsDescription(setup.first), Invited(inv, setup.first),
           NEW dialog, dialog.video # <<>> => DOMAIN dialog.video[1].send = VideoFields
    PROVE  LET source == SourceVideo(inv, dialog)
           IN  /\ Right(setup.first, CallerAnswer(inv, dialog), inv.audio, source)
               /\ source # <<>> =>
                    /\ source = <<source[1]>> /\ inv.video # <<>> /\ dialog.video # <<>>
                    /\ PassthroughCompatible(source[1].recv, dialog.video[1].send)
                    /\ PassthroughCompatible(dialog.video[1].recv, source[1].send)
<1> DEFINE offer == setup.first
           source == SourceVideo(inv, dialog)
           x == Video(offer)[1]
           d == source[1]
           shown == [k \in DOMAIN source |-> source[k].answer]
           vdir == IF Missing(source) THEN {}
                   ELSE ConstrainedDirection(inv.video[1].send.dir,
                        RemoteSends(dialog.video[1].send) /\ ~inv.vheld,
                        RemoteReceives(dialog.video[1].send, dialog.vheld))
           adir == LocalDirectionForOffer(inv.dir, inv.held)
           answer == CallerAnswer(inv, dialog)
<1>1. answer = BuildAnswer(inv.audio, offer, shown, adir, vdir) BY DEF CallerAnswer
<1>2. adir \subseteq Flip(AudioDir(offer)) BY LocalDirIs DEF Invited
<1>3. inv.audio.send = inv.audio.recv /\ Reads(inv.audio.send, offer) BY DEF Invited
<1>4. ASSUME source # <<>>
      PROVE  /\ source = <<d>> /\ inv.video # <<>> /\ dialog.video # <<>>
             /\ PassthroughCompatible(d.recv, dialog.video[1].send)
             /\ PassthroughCompatible(dialog.video[1].recv, d.send)
             /\ Streams(d, offer) /\ inv.video[1].send.dir = x.dir
  <2>1. inv.video # <<>> BY <1>4 DEF SourceVideo, Missing
  <2>2. PICK f : Sends(inv.video[1].send, InSection(x, f)) /\ DOMAIN f = VideoFields /\ f \in ToSet(x.formats)
    BY <2>1 DEF Invited
  <2>3. Video(offer) # <<>> BY <2>1 DEF Invited, Streams
  <2> DEFINE i == InSection(x, f)
  <2>4. Sends(inv.video[1].send, i) /\ i.rtp = x.rtp /\ i.dir = x.dir BY <2>2, InSectionIs
  <2>5. /\ source = <<d>> /\ inv.video # <<>> /\ dialog.video # <<>>
        /\ TakesUp(d, i) /\ d.answer.rtp = i.rtp
        /\ PassthroughCompatible(d.recv, dialog.video[1].send)
        /\ PassthroughCompatible(dialog.video[1].recv, d.send)
    BY <1>4, <2>4, SourceIs
  <2>6. Streams(d, offer) BY <2>2, <2>3, <2>4, <2>5 DEF Streams
  <2>7. inv.video[1].send.dir = x.dir BY <2>4 DEF Sends
  <2> QED BY <2>5, <2>6, <2>7
<1>5. shown = <<>> \/ (source # <<>> /\ shown = <<d.answer>>)
  <2>1. CASE source = <<>> BY <2>1, AnswerOf
  <2>2. CASE source # <<>> BY <2>2, <1>4, AnswerOf
  <2> QED BY <2>1, <2>2
<1>6. shown # <<>> => source # <<>> BY AnswerOf
<1>7. source # <<>> => vdir \subseteq Flip(inv.video[1].send.dir) BY ConstrainedIs DEF Missing
<1>8. source \in {<<>>, <<d>>} BY <1>4
<1> HIDE DEF offer, source, d, shown, vdir, adir, answer, x
<1>9. shown # <<>> => vdir \subseteq Flip(Video(offer)[1].dir) BY <1>4, <1>6, <1>7 DEF x
<1>10. IsDescription(offer) BY DEF offer
<1>11. source # <<>> => Streams(d, offer) BY <1>4
<1>12. /\ ValidAnswer(offer, answer)
       /\ AudioReadAlike(offer, answer, TRUE, inv.audio)
       /\ \A v \in ToSet(source) : VideoReadAlike(offer, answer, TRUE, v)
  BY <1>1, <1>2, <1>3, <1>5, <1>8, <1>9, <1>10, <1>11, BuiltRight
<1> QED BY <1>4, <1>12 DEF Right, answer, offer, source, d

-----------------------------------------------------------------------------
(* Our own offer, and what a callee makes of it *)

\* The fields of a section.
SectionFields == {"media", "on", "rtp", "usable", "formats", "dir", "held", "ptime", "minptime", "maxptime"}

\* The section that carries the video of an offer of ours.
Streaming(z, formats) ==
    /\ DOMAIN z = SectionFields /\ z.media = "video" /\ z.on /\ z.usable /\ z.formats = formats
    /\ formats # <<>> /\ IsVideo(formats)

\* A section has these fields.
LEMMA SectionDomain ==
    ASSUME NEW m, NEW r, NEW fs, NEW d, NEW t
    PROVE  DOMAIN Section(m, r, fs, d, t) = SectionFields
  BY DEF Section, SectionFields

\* Our offer: one audio section with one frame length, and the video section if there is one.
LEMMA OwnOfferIs ==
    ASSUME NEW u \in Setups, NEW z, NEW formats, NEW video, video = <<>> \/ (video = <<z>> /\ Streaming(z,
           formats))
    PROVE  LET o == OwnOffer(u, video) IN
           /\ IsSequence(o) /\ DOMAIN o = 1..Len(o) /\ Audio(o) = <<o[1]>> /\ IsAudio(o[1]) /\ o[1].usable
           /\ OneFrame(o[1]) /\ DOMAIN o[1] = SectionFields /\ IsSequence(o[1].formats)
           /\ IF video = <<>> THEN Len(o) = 1 /\ Video(o) = <<>>
              ELSE Len(o) = 2 /\ o[2] = z /\ Video(o) = <<z>>
<1> DEFINE o == OwnOffer(u, video)
<1>1. PICK fs, t : \A v : OwnOffer(u, v) = <<Section("audio", "AVP", fs, Sendrecv, t)>> \o v
  BY DEF OwnOffer, BuildOffer
<1> DEFINE a == Section("audio", "AVP", fs, Sendrecv, t)
<1>2. OwnOffer(u, <<>>) = <<a>>
  <2> HIDE DEF a
  <2>1. OwnOffer(u, <<>>) = <<a>> \o <<>> BY <1>1 DEF a
  <2> QED BY <2>1, One
<1>3. IsDescription(<<a>>) /\ <<a>>[1].ptime \in Nat \ {0}
  <2> HIDE DEF a
  <2> QED BY <1>2, RenegotiationConstants
<1>4. a \in ToSet(<<a>>) /\ <<a>>[1] = a
  <2> HIDE DEF a
  <2> QED BY DEF ToSet
<1>5. IsSection(a) /\ a.ptime \in Nat \ {0}
  <2> HIDE DEF a
  <2> QED BY <1>3, <1>4 DEF IsDescription
<1>6. IsAudio(a) /\ a.usable /\ OneFrame(a) /\ DOMAIN a = SectionFields /\ IsSequence(a.formats)
  <2>1. DOMAIN a = SectionFields BY SectionDomain
  <2>2. IsAudio(a) /\ a.usable /\ a.minptime = 0 /\ a.maxptime = a.ptime BY SectionIs DEF IsAudio
  <2> HIDE DEF a
  <2> QED BY <1>5, <2>1, <2>2 DEF OneFrame, IsSection
<1> HIDE DEF a
<1>7. o = <<a>> \o video BY <1>1 DEF a
<1> HIDE DEF o
<1>8. /\ IsSequence(o) /\ o[1] = a /\ DOMAIN o = 1..Len(o)
      /\ IF video = <<>> THEN Len(o) = 1 ELSE Len(o) = 2 /\ o[2] = z
  <2>1. CASE video = <<>>
    <3>1. o = <<a>> BY <1>7, <2>1, One
    <3> QED BY <3>1, <2>1 DEF IsSequence, ToSet
  <2>2. CASE video = <<z>>
    <3>1. o = <<a>> \o <<z>> BY <1>7, <2>2
    <3>2. <<a>> \in Seq({a, z}) /\ <<z>> \in Seq({a, z}) /\ Len(<<a>>) = 1 /\ Len(<<z>>) = 1 OBVIOUS
    <3>3. o \in Seq({a, z}) /\ Len(o) = 2 BY <3>1, <3>2, ConcatProperties
    <3>4. o[1] = a /\ o[2] = z BY <3>1, OneAndOne
    <3>5. o = [k \in 1..2 |-> o[k]] /\ DOMAIN o = 1..2 BY <3>3
    <3>6. IsSequence(o) BY <3>5, FunctionIsSequence
    <3> QED BY <3>3, <3>4, <3>5, <3>6, <2>2
  <2> QED BY <2>1, <2>2
<1>9. \A j \in 1..Len(o) : IsAudio(o[j]) => j = 1
  BY <1>8 DEF Streaming, IsAudio
<1>10. Audio(o) = <<o[1]>>
  <2>1. ~(Audio(o) = <<>> /\ \A i \in 1..Len(o) : IsAudio(o[i]) /\ (\A j \in 1..Len(o) : IsAudio(o[j])
          => i <= j) => ~o[i].usable)
    BY <1>6, <1>8, <1>9
  <2> QED BY <2>1, <1>8, <1>9, AudioIs
<1>11. CASE video = <<>>
  <2>1. Video(o) = <<>> BY <1>6, <1>8, <1>11, VideoIs DEF IsAudio
  <2> QED BY <2>1, <1>6, <1>8, <1>10, <1>11 DEF o
<1>12. CASE video # <<>>
  <2>1. o[2].media = "video" /\ o[2].on /\ o[2].usable /\ o[1].media # "video" /\ Len(o) = 2
    BY <1>6, <1>8, <1>12 DEF Streaming, IsAudio
  <2>2. \A j \in 1..Len(o) : o[j].media = "video" => j = 2 BY <2>1
  <2>3. ~(Video(o) = <<>> /\ \A i \in 1..Len(o) : o[i].media = "video" /\ (\A j \in 1..Len(o) :
          o[j].media = "video" => i <= j)
                                         => ~(o[i].on /\ o[i].usable))
    BY <2>1, <2>2
  <2>4. Video(o) = <<o[2]>> BY <2>2, <2>3, <1>8, VideoIs
  <2> QED BY <2>4, <1>6, <1>8, <1>10, <1>12 DEF o
<1> QED BY <1>11, <1>12

\* The keypad of a section is at most one format.
LEMMA KeypadOf ==
    ASSUME NEW fs, IsSequence(fs)
    PROVE  LET k == FirstSuch(fs, LAMBDA f : f.codec = "TELEPHONE") IN
           k = <<>> \/ \E f : k = <<f>> /\ f.codec = "TELEPHONE"
<1> DEFINE I == {i \in 1..Len(fs) : fs[i].codec = "TELEPHONE"}
           k == FirstSuch(fs, LAMBDA f : f.codec = "TELEPHONE")
<1>1. k = IF I = {} THEN <<>> ELSE <<fs[Min(I)]>>
  BY DEF FirstSuch
<1>2. I \subseteq DOMAIN fs BY SequenceShape
<1> HIDE DEF k
<1>3. k = <<>> \/ (I # {} /\ Min(I) \in I /\ k = <<fs[Min(I)]>>)
  <2> HIDE DEF I
  <2> QED BY <1>1, <1>2, FirstIndex
<1> QED BY <1>3 DEF k

\* A codec and perhaps a keypad: one codec.
LEMMA KeypadSeq ==
    ASSUME NEW c, NEW k, NEW f, k = <<>> \/ (k = <<f>> /\ f.codec = "TELEPHONE"), NEW fs, fs = <<c>> \o k
    PROVE  IsSequence(fs) /\ fs[1] = c /\ OneCodec(fs)
<1>1. CASE k = <<>>
  <2>1. fs = <<c>> BY <1>1, One
  <2>2. ToSet(fs) = {c} /\ fs[1] = c BY <2>1, Single
  <2>3. IsSequence(<<c>>) BY DEF IsSequence, ToSet
  <2> QED BY <2>1, <2>2, <2>3 DEF OneCodec
<1>2. CASE k # <<>>
  <2>1. k = <<f>> /\ f.codec = "TELEPHONE" BY <1>2
  <2>2. DOMAIN fs = {1, 2} /\ fs[1] = c /\ fs[2] = f BY <2>1, OneAndOne
  <2>3. fs \in Seq({c, f}) /\ Len(fs) = 2
    <3>1. <<c>> \in Seq({c, f}) /\ <<f>> \in Seq({c, f}) /\ Len(<<c>>) = 1 /\ Len(<<f>>) = 1 OBVIOUS
    <3> QED BY <3>1, <2>1, ConcatProperties
  <2>4. fs = [i \in 1..2 |-> fs[i]] BY <2>3
  <2>5. IsSequence(fs) BY <2>4, FunctionIsSequence
  <2> QED BY <2>1, <2>2, <2>5 DEF ToSet, OneCodec
<1> QED BY <1>1, <1>2

\* What a callee makes of our offer.
LEMMA PeerAnswerIs ==
    ASSUME NEW u \in Setups, NEW z, NEW formats, NEW video, video = <<>> \/ (video = <<z>> /\ Streaming(z,
           formats)),
           NEW style
    PROVE  LET o == OwnOffer(u, video)
               answer == PeerAnswer(o, style)
           IN  /\ IsSequence(answer) /\ \A x \in ToSet(answer) : IsSequence(x.formats)
               /\ Audio(answer) = <<answer[1]>> /\ OneCodec(answer[1].formats)
               /\ \/ Video(answer) = <<>>
                  \/ \E y, g : /\ video # <<>> /\ Video(answer) = <<y>> /\ y.formats = <<g>>
                              /\ DOMAIN g = VideoFields /\ g.pt = formats[1].pt
<1> DEFINE o == OwnOffer(u, video)
           n == IF style.omit THEN 1 ELSE Len(o)
           Codecs(x) == <<Codec(style.pt, style.codec)>> \o FirstSuch(x.formats, LAMBDA f :
             f.codec = "TELEPHONE")
           G(x) == [x.formats[1] EXCEPT !.level = style.level, !.asym = style.asym]
           Answer(x) ==
             CASE x.media = "audio" ->
                    [x EXCEPT !.dir = style.dir \cap Flip(x.dir), !.held = style.held,
                       !.ptime = style.ptime, !.maxptime = 0, !.formats = Codecs(x)]
               [] x.media = "video" /\ style.level # 0 ->
                    [x EXCEPT !.dir = Flip(x.dir), !.formats = <<G(x)>>]
               [] OTHER -> Rejected(x)
           answer == PeerAnswer(o, style)
<1>1. answer = [i \in 1..n |-> Answer(o[i])] BY DEF PeerAnswer
<1>2. /\ IsSequence(o) /\ DOMAIN o = 1..Len(o) /\ Audio(o) = <<o[1]>> /\ IsAudio(o[1]) /\ o[1].usable
      /\ DOMAIN o[1] = SectionFields /\ IsSequence(o[1].formats)
      /\ IF video = <<>> THEN Len(o) = 1 /\ Video(o) = <<>>
         ELSE Len(o) = 2 /\ o[2] = z /\ Video(o) = <<z>>
  BY OwnOfferIs
<1> HIDE DEF o, answer
<1>3. n \in {1, 2} /\ (video = <<>> => n = 1) /\ (n = 2 => video = <<z>> /\ Streaming(z, formats)) BY <1>2
<1> HIDE DEF n
<1>4. IsSequence(answer) /\ DOMAIN answer = 1..n /\ Len(answer) = n
  <2>1. answer = [i \in 1..n |-> answer[i]] BY <1>1
  <2> QED BY <2>1, <1>3, FunctionIsSequence
<1>5. \A i \in 1..n : answer[i] = Answer(o[i]) BY <1>1
<1>6. /\ IsAudio(answer[1]) /\ answer[1].usable /\ OneCodec(answer[1].formats)
      /\ IsSequence(answer[1].formats)
  <2> DEFINE x == o[1]
             cs == Codecs(x)
             y == [x EXCEPT !.dir = style.dir \cap Flip(x.dir), !.held = style.held,
                       !.ptime = style.ptime, !.maxptime = 0, !.formats = cs]
  <2>1. IsSequence(cs) /\ OneCodec(cs)
    <3> DEFINE k == FirstSuch(x.formats, LAMBDA f : f.codec = "TELEPHONE")
    <3>1. k = <<>> \/ \E f : k = <<f>> /\ f.codec = "TELEPHONE" BY <1>2, KeypadOf
    <3> HIDE DEF k
    <3>2. \E c : cs = <<c>> \o k BY DEF k
    <3> HIDE DEF cs
    <3>3. PICK c : cs = <<c>> \o k BY <3>2
    <3>4. PICK f : k = <<>> \/ (k = <<f>> /\ f.codec = "TELEPHONE") BY <3>1
    <3> QED BY <3>3, <3>4, KeypadSeq
  <2>2. Answer(x) = y BY <1>2 DEF IsAudio
  <2>3. answer[1] = y
    <3> HIDE DEF Answer, y
    <3> QED BY <1>3, <1>5, <2>2
  <2> HIDE DEF cs, x, Answer
  <2>4. DOMAIN x = SectionFields /\ IsAudio(x) /\ x.usable BY <1>2 DEF x
  <2>5. y.media = x.media /\ y.on = x.on /\ y.rtp = x.rtp /\ y.usable = x.usable /\ y.formats = cs
    BY <2>4 DEF SectionFields
  <2> HIDE DEF y
  <2> QED BY <2>1, <2>3, <2>4, <2>5 DEF IsAudio
<1>7. ASSUME n = 2
      PROVE  /\ answer[2].media = "video" /\ IsSequence(answer[2].formats)
             /\ ~answer[2].on \/ \E g : answer[2].formats = <<g>> /\ DOMAIN g = VideoFields
                  /\ g.pt = formats[1].pt
  <2>1. o[2] = z /\ Streaming(z, formats) BY <1>2, <1>3, <1>7
  <2>2. answer[2] = Answer(z)
    <3> HIDE DEF Answer
    <3> QED BY <1>5, <1>7, <2>1
  <2>3. CASE style.level # 0
    <3> DEFINE g == [formats[1] EXCEPT !.level = style.level, !.asym = style.asym]
               y == [z EXCEPT !.dir = Flip(z.dir), !.formats = <<g>>]
    <3>1. answer[2] = y BY <2>1, <2>2, <2>3 DEF Streaming
    <3>2. 1 \in DOMAIN formats
      <4>1. Len(formats) \in Nat /\ DOMAIN formats = 1..Len(formats) /\ formats # <<>>
        BY <2>1, SequenceShape DEF Streaming, IsVideo
      <4>2. Len(formats) # 0 BY <4>1, <2>1 DEF Streaming, IsVideo, IsSequence
      <4> QED BY <4>1, <4>2
    <3>3. DOMAIN formats[1] = VideoFields BY <3>2, <2>1 DEF Streaming, IsVideo, VideoFields, ToSet
    <3>4. DOMAIN g = VideoFields /\ g.pt = formats[1].pt BY <3>3 DEF VideoFields
    <3> HIDE DEF g
    <3>5. y.media = "video" /\ y.formats = <<g>> BY <2>1 DEF Streaming, SectionFields
    <3>6. IsSequence(<<g>>) BY DEF IsSequence, ToSet
    <3> QED BY <3>1, <3>4, <3>5, <3>6
  <2>4. CASE style.level = 0
    <3>1. answer[2] = Rejected(z) BY <2>1, <2>2, <2>4 DEF Streaming
    <3>2. Rejected(z).media = "video" /\ ~Rejected(z).on /\ Rejected(z).formats = formats
      BY <2>1 DEF Streaming, Rejected, SectionFields
    <3> QED BY <3>1, <3>2, <2>1 DEF Streaming, IsVideo
  <2> QED BY <2>3, <2>4
<1>8. Audio(answer) = <<answer[1]>>
  <2>1. \A j \in 1..Len(answer) : IsAudio(answer[j]) => j = 1 BY <1>3, <1>4, <1>7 DEF IsAudio
  <2>2. ~(Audio(answer) = <<>> /\ \A i \in 1..Len(answer) : IsAudio(answer[i]) /\ (\A j \in 1..Len(answer) :
          IsAudio(answer[j]) => i <= j) => ~answer[i].usable)
    BY <2>1, <1>3, <1>4, <1>6
  <2> QED BY <2>1, <2>2, <1>4, AudioIs
<1>9. ASSUME Video(answer) # <<>>
      PROVE  \E y, g : /\ video # <<>> /\ Video(answer) = <<y>> /\ y.formats = <<g>>
                       /\ DOMAIN g = VideoFields /\ g.pt = formats[1].pt
  <2>1. PICK i \in 1..Len(answer) : Video(answer) = <<answer[i]>> /\ answer[i].media = "video" /\ answer[i].on
    BY <1>4, <1>9, VideoIs
  <2>2. i = 2 /\ n = 2 BY <2>1, <1>3, <1>4, <1>6 DEF IsAudio
  <2>3. PICK g : answer[2].formats = <<g>> /\ DOMAIN g = VideoFields /\ g.pt = formats[1].pt
    BY <2>1, <2>2, <1>7
  <2>4. video # <<>> BY <2>2, <1>3
  <2> QED BY <2>1, <2>2, <2>3, <2>4
<1>10. \A x \in ToSet(answer) : IsSequence(x.formats) BY <1>3, <1>4, <1>6, <1>7 DEF ToSet
<1> QED BY <1>4, <1>6, <1>8, <1>9, <1>10 DEF answer, o

-----------------------------------------------------------------------------
(* What the client makes of the answer to our offer *)

\* What the client makes of the callee's answer.
Understood(answer, offer, dialog) ==
    /\ AudioReadAlike(answer, offer, FALSE, dialog.audio)
    /\ dialog.video # <<>> =>
         /\ dialog.video = <<dialog.video[1]>> /\ DOMAIN dialog.video[1].send = VideoFields
         /\ VideoReadAlike(answer, offer, FALSE, dialog.video[1])

\* Both ends read our offer and the answer of the callee alike.
LEMMA DialogRight ==
    ASSUME setup \in Setups, NEW z, NEW formats, NEW video, NEW style, NEW offer, NEW answer, NEW dialog,
           video = <<>> \/ (video = <<z>> /\ Streaming(z, formats)),
           offer = OwnOffer(setup, video), answer = PeerAnswer(offer, style),
           dialog \in ToSet(Dialog(answer, offer, formats))
    PROVE  Understood(answer, offer, dialog)
<1> DEFINE audio == IF ValidAnswer(offer, answer) THEN NegotiateAnswer(answer, setup.send, setup.recv, offer)
             ELSE <<>>
           read == NegotiateVideoAnswer(answer, formats)
           streams == [k \in DOMAIN read |-> [send |-> read[k].send, recv |-> read[k].recv,
             answer |-> read[k].recv]]
           D(i) == [audio |-> audio[i], dir |-> AudioDir(answer), held |-> AudioHeld(answer),
                    video |-> streams, vheld |-> ~Missing(read) /\ VideoHeld(answer)]
<1>1. Dialog(answer, offer, formats) = [i \in DOMAIN audio |-> D(i)] BY DEF Dialog
<1> HIDE DEF audio, streams
<1>2. PICK i \in DOMAIN audio : dialog = D(i) BY <1>1 DEF ToSet
<1>3. dialog.audio = audio[i] /\ dialog.video = streams BY <1>2
<1>4. audio[i] \in ToSet(NegotiateAnswer(answer, setup.send, setup.recv, offer))
  BY DEF audio, ToSet
<1>5. /\ IsSequence(offer) /\ DOMAIN offer = 1..Len(offer) /\ Audio(offer) = <<offer[1]>>
      /\ OneFrame(offer[1])
      /\ IsSequence(offer[1].formats)
      /\ IF video = <<>> THEN Len(offer) = 1 /\ Video(offer) = <<>>
         ELSE Len(offer) = 2 /\ offer[2] = z /\ Video(offer) = <<z>>
  BY OwnOfferIs
<1>6. /\ IsSequence(answer) /\ \A x \in ToSet(answer) : IsSequence(x.formats)
      /\ Audio(answer) = <<answer[1]>> /\ OneCodec(answer[1].formats)
      /\ \/ Video(answer) = <<>>
         \/ \E y, g : /\ video # <<>> /\ Video(answer) = <<y>> /\ y.formats = <<g>>
                      /\ DOMAIN g = VideoFields /\ g.pt = formats[1].pt
  BY PeerAnswerIs
<1>7. \A x \in ToSet(offer) : IsSequence(x.formats)
  <2>1. CASE video = <<>> BY <1>5, <2>1 DEF ToSet
  <2>2. CASE video # <<>>
    <3>1. IsSequence(z.formats) BY <2>2 DEF Streaming, IsVideo
    <3>2. \A k \in DOMAIN offer : k = 1 \/ k = 2 BY <1>5, <2>2
    <3> QED BY <1>5, <2>2, <3>1, <3>2 DEF ToSet
  <2> QED BY <2>1, <2>2
<1>8. IsLocal(setup.send) /\ IsLocal(setup.recv) BY RenegotiationConstants
<1>9. AudioReadAlike(answer, offer, FALSE, dialog.audio)
  BY <1>3, <1>4, <1>5, <1>6, <1>7, <1>8, DialogAudioAlike, Singleton
<1>10. ASSUME dialog.video # <<>>
       PROVE  /\ dialog.video = <<dialog.video[1]>> /\ DOMAIN dialog.video[1].send = VideoFields
              /\ VideoReadAlike(answer, offer, FALSE, dialog.video[1])
  <2>1. read # <<>> BY <1>3, <1>10 DEF streams
  <2>2. PICK y, g : /\ video # <<>> /\ Video(answer) = <<y>> /\ y.formats = <<g>>
                    /\ DOMAIN g = VideoFields /\ g.pt = formats[1].pt
    BY <1>6, <2>1, NoDialogVideo
  <2>3. IsVideo(formats) /\ z.formats = formats /\ Video(offer) = <<z>> BY <1>5, <2>2 DEF Streaming
  <2>4. 1 \in DOMAIN formats
    <3>1. Len(formats) \in Nat /\ DOMAIN formats = 1..Len(formats) /\ formats # <<>>
      BY <2>2, <2>3, SequenceShape DEF Streaming, IsVideo
    <3>2. Len(formats) # 0 BY <3>1, <2>3 DEF IsVideo, IsSequence
    <3> QED BY <3>1, <3>2
  <2>5. Video(answer)[1].formats = <<g>> /\ Video(offer)[1].formats = formats BY <2>2, <2>3
  <2>6. read = <<read[1]>> /\ DOMAIN read[1].send = VideoFields
    BY <2>1, <2>2, <2>3, <2>4, <2>5, DialogVideoIs
  <2> DEFINE v == [send |-> read[1].send, recv |-> read[1].recv, answer |-> read[1].recv]
  <2>7. streams = <<v>>
    <3>1. DOMAIN read = 1..1 BY <2>6
    <3> HIDE DEF read
    <3>2. streams = [k \in 1..1 |-> [send |-> read[k].send, recv |-> read[k].recv,
            answer |-> read[k].recv]] BY <3>1 DEF streams
    <3>3. DOMAIN streams = 1..1 /\ streams[1] = v BY <3>2
    <3> HIDE DEF v
    <3> QED BY <3>2, <3>3
  <2>8. v.send = read[1].send /\ v.recv = read[1].recv OBVIOUS
  <2> HIDE DEF v
  <2>9. VideoReadAlike(answer, offer, FALSE, v)
    BY <2>1, <2>2, <2>3, <2>4, <2>5, <2>8, DialogVideoAlike
  <2> HIDE DEF read
  <2>10. dialog.video = <<v>> BY <1>3, <2>7
  <2>11. dialog.video[1] = v BY <2>10
  <2>12. DOMAIN v.send = VideoFields BY <2>6, <2>8
  <2> QED BY <2>9, <2>10, <2>11, <2>12
<1> QED BY <1>9, <1>10 DEF Understood

-----------------------------------------------------------------------------
(* The inductive invariant *)

\* The fields of a dialog, and of its peer.
LegFields == {"inv", "formats", "answer", "version", "cseq", "cache", "ack"}
PeerFields == {"mine", "theirs", "asked", "out", "cseq", "seen", "dead"}

\* The records have their fields.
HasLegs ==
    /\ setup \in Setups
    /\ DOMAIN leg = Sides /\ DOMAIN peer = Sides /\ DOMAIN resp = Sides /\ DOMAIN late = Sides
    /\ \A s \in Sides : DOMAIN leg[s] = LegFields /\ DOMAIN peer[s] = PeerFields

\* A dialog that nobody has offered anything in.
Silent(s) ==
    /\ peer[s].out = <<>> /\ peer[s].seen = {} /\ ~peer[s].asked /\ late[s] = {}
    /\ resp[s] = {} /\ leg[s].cache = {} /\ leg[s].version = 0

\* The requests and responses of one dialog.
DialogInv(s) ==
    /\ stage \in {"invite", "offered"} \/ s \notin Live(setup.owner) => Silent(s)
    /\ peer[s].cseq \in Nat
    /\ peer[s].out # <<>> => \E method \in {"INVITE", "UPDATE"}, sdp \in setup.offers[s] :
                                peer[s].out = <<[cseq |-> peer[s].cseq, method |-> method, sdp |-> sdp]>>
    /\ resp[s] \subseteq leg[s].cache
    /\ \A r \in leg[s].cache : r.cseq \in Nat /\ r.cseq <= peer[s].cseq
    /\ \A q, r \in leg[s].cache : q.cseq = r.cseq => q = r
    /\ \A m \in late[s] : Cached(s, m) # {}

\* The descriptions that responses carry, and all of ours that a peer knows or may yet learn.
Bodies(rs) == {<<r.version, r.sdp>> : r \in {r \in rs : r.status = 200 /\ r.sdp # NoBody}}
Told(s) == peer[s].seen \cup Bodies(resp[s]) \cup Bodies(leg[s].cache)

\* A version that was told names one description; the newest is that of the current answer.
VersionInv(s) ==
    /\ leg[s].version \in Nat
    /\ \A x \in Told(s) : x[1] \in 0..leg[s].version /\ (x[1] = leg[s].version => x[2] = leg[s].answer)
    /\ \A x, y \in Told(s) : x[1] = y[1] => x[2] = y[2]

\* What the owner offered, and the caller's invitation that it holds while it waits.
StreamOffered ==
    LET formats == leg["right"].formats
    IN  IF setup.owner = "relay"
        THEN [k \in DOMAIN formats |-> Section("video", formats[k].rtp, formats, formats[k].dir, 0)]
        ELSE IF Missing(formats) THEN <<>>
             ELSE <<Section("video", "AVP", formats, IF setup.camera THEN Sendrecv ELSE {"recv"}, 0)>>
OfferInv ==
    /\ \A s \in Sides : IsVideo(leg[s].formats)
    /\ setup.owner = "relay" => Len(leg["right"].formats) \in {0, 1}
    /\ stage = "offered" =>
         /\ setup.owner \in {"relay", "browser"}
         /\ leg["right"].answer = OwnOffer(setup, StreamOffered)
         /\ setup.owner = "relay" => leg["left"].inv \in ToSet(Invite("left", setup.first, setup.video))

\* A bridge exists only once its callee has answered; the callee's half follows its invitation.
RelayInv ==
    /\ vrelay # <<>> =>
         /\ setup.owner = "relay" /\ stage \in {"up", "over"}
         /\ vrelay = <<vrelay[1]>> /\ DOMAIN vrelay[1] = Sides
         /\ leg["right"].inv.video # <<>> /\ vrelay[1].right = VideoPeer(leg["right"].inv)
    /\ VideoStaysDecodable

\* A port is held for a stream that was answered with one.
PortInv ==
    vport => /\ setup.owner \in {"softphone", "preanswer"}
             /\ leg["left"].inv.video # <<>> /\ Video(leg["left"].answer) # <<>>

\* The answer to the offer that a peer waits for, once it exists.
Heard(s) ==
    {r \in leg[s].cache : /\ peer[s].out # <<>> /\ r.cseq = peer[s].out[1].cseq
                          /\ r.status = 200 /\ r.sdp # NoBody}
Agreed(s, mine, theirs, asked) ==
    /\ AudioReadAlike(mine, theirs, asked, leg[s].inv.audio)
    /\ \A v \in ToSet(Carried(s)) : VideoReadAlike(mine, theirs, asked, v)

\* The two ends agree, as long as no answer is on its way, on what the peer last learned; and once
\* it exists, on the answer that the peer will learn: the commit of an offer precedes it.
AgreeInv(s) ==
    /\ stage = "up" /\ s \in Live(setup.owner) =>
         /\ Heard(s) = {} => Agreed(s, peer[s].mine, peer[s].theirs, peer[s].asked)
         /\ \A r \in Heard(s) : Agreed(s, peer[s].out[1].sdp, r.sdp, TRUE)
    /\ peer[s].asked => ValidAnswer(peer[s].mine, peer[s].theirs)
    /\ \A r \in Heard(s) : ValidAnswer(peer[s].out[1].sdp, r.sdp)
AllInv ==
    /\ HasLegs /\ OfferInv /\ RelayInv /\ PortInv
    /\ \A s \in Sides : DialogInv(s) /\ VersionInv(s) /\ AgreeInv(s)

-----------------------------------------------------------------------------
(* Steps that leave the agreement alone *)

\* What the invariant reads of a dialog, and of its peer; and a step that leaves the stage up
\* or ends the call.
LegSame(t) ==
    /\ leg'[t].inv = leg[t].inv /\ leg'[t].formats = leg[t].formats /\ leg'[t].answer = leg[t].answer
    /\ leg'[t].version = leg[t].version /\ leg'[t].cache = leg[t].cache
PeerSame(t) ==
    /\ peer'[t].mine = peer[t].mine /\ peer'[t].theirs = peer[t].theirs /\ peer'[t].asked = peer[t].asked
    /\ peer'[t].out = peer[t].out /\ peer'[t].cseq = peer[t].cseq /\ peer'[t].seen = peer[t].seen
Later == setup' = setup /\ stage' \in {stage, "over"}

\* Each part of the invariant depends on these fields alone: the responses that are remembered,
LEMMA CachedFrame ==
    ASSUME NEW t \in Sides, LegSame(t), NEW m
    PROVE  Cached(t, m)' = Cached(t, m)
  BY DEF Cached, LegSame

\* the requests and the responses of a dialog,
LEMMA DialogFrame ==
    ASSUME NEW t \in Sides, DialogInv(t), Later, LegSame(t), PeerSame(t),
           resp'[t] \subseteq leg[t].cache, late'[t] \subseteq late[t]
    PROVE  DialogInv(t)'
<1>1. (stage \in {"invite", "offered"} \/ t \notin Live(setup.owner) => Silent(t))'
  BY DEF DialogInv, Later, LegSame, PeerSame, Silent
<1>2. \A m \in late'[t] : Cached(t, m)' # {}
  BY CachedFrame DEF DialogInv
<1> QED BY <1>1, <1>2 DEF DialogInv, Later, LegSame, PeerSame, Cached

\* its versions,
LEMMA VersionFrame ==
    ASSUME NEW t \in Sides, VersionInv(t), LegSame(t), PeerSame(t), resp'[t] \subseteq leg[t].cache
    PROVE  VersionInv(t)'
<1>1. Told(t)' \subseteq Told(t)
  BY DEF Told, Bodies, LegSame, PeerSame
<1> QED BY <1>1 DEF VersionInv, LegSame

\* its agreement,
LEMMA AgreeFrame ==
    ASSUME NEW t \in Sides, AgreeInv(t), Later, LegSame(t), PeerSame(t), Carried(t)' = Carried(t)
    PROVE  AgreeInv(t)'
<1>1. Heard(t)' = Heard(t) BY DEF Heard, LegSame, PeerSame
<1>2. \A a, b, c : Agreed(t, a, b, c) => Agreed(t, a, b, c)'
  BY DEF Agreed, LegSame
<1> QED BY <1>1, <1>2 DEF AgreeInv, Later, PeerSame

\* the streams that are carried,
LEMMA CarriedFrame ==
    ASSUME NEW t \in Sides, Later, LegSame(t), vrelay' = vrelay
    PROVE  Carried(t)' = Carried(t)
  BY DEF Carried, Later, LegSame

\* the offer that waits for its answer,
LEMMA OfferFrame ==
    ASSUME OfferInv, Later, \A t \in Sides : leg'[t].formats = leg[t].formats, stage = "offered"
             => LegSame("left") /\ LegSame("right")
    PROVE  OfferInv'
<1>1. StreamOffered' = StreamOffered BY DEF StreamOffered, Later, Sides
<1>2. \A a, b, c : Invite(a, b, c)' = Invite(a, b, c) BY DEF Invite, Later
<1>3. (stage' = "offered" => stage = "offered") BY DEF Later
<1> QED BY <1>1, <1>2, <1>3 DEF OfferInv, Later, LegSame, Sides

\* the bridge,
LEMMA RelayFrame ==
    ASSUME RelayInv, Later, vrelay' = vrelay, leg'["right"].inv = leg["right"].inv
    PROVE  RelayInv'
<1>1. VideoStaysDecodable' BY DEF RelayInv, VideoStaysDecodable, RemoteSends, RemoteReceives
<1>2. VideoPeer(leg["right"].inv)' = VideoPeer(leg["right"].inv) BY DEF VideoPeer
<1> QED BY <1>1, <1>2 DEF RelayInv, Later

\* and the port.
LEMMA PortFrame ==
    ASSUME PortInv, Later, vport' = vport, LegSame("left")
    PROVE  PortInv'
  BY DEF PortInv, Later, LegSame

\* The records keep their fields.
Domains ==
    /\ DOMAIN leg' = Sides /\ DOMAIN peer' = Sides /\ DOMAIN resp' = Sides /\ DOMAIN late' = Sides
    /\ \A s \in Sides : DOMAIN leg'[s] = LegFields /\ DOMAIN peer'[s] = PeerFields

\* A step that changes none of these fields, repeats or loses responses and forgets late copies
\* preserves the invariant.
LEMMA QuietStep ==
    ASSUME AllInv, Later, Domains, vrelay' = vrelay, vport' = vport,
           \A t \in Sides : LegSame(t) /\ PeerSame(t) /\ resp'[t] \subseteq leg[t].cache
             /\ late'[t] \subseteq late[t]
    PROVE  AllInv'
<1>1. HasLegs' BY DEF AllInv, HasLegs, Domains, Later
<1>2. \A t \in Sides : DialogInv(t)' BY DialogFrame DEF AllInv
<1>3. \A t \in Sides : VersionInv(t)' BY VersionFrame DEF AllInv
<1>4. \A t \in Sides : AgreeInv(t)' BY AgreeFrame, CarriedFrame DEF AllInv
<1>5. OfferInv' /\ RelayInv' /\ PortInv'
  BY OfferFrame, RelayFrame, PortFrame DEF AllInv, Sides, LegSame
<1> QED BY <1>1, <1>2, <1>3, <1>4, <1>5 DEF AllInv

\* A dialog that a step does not touch keeps them.
LEMMA Unmoved ==
    ASSUME HasLegs
    PROVE  /\ \A t \in Sides : leg'[t] = leg[t] => LegSame(t) /\ DOMAIN leg'[t] = LegFields
           /\ \A t \in Sides : peer'[t] = peer[t] => PeerSame(t) /\ DOMAIN peer'[t] = PeerFields
  BY DEF HasLegs, LegSame, PeerSame

\* A response that is given again is the remembered one.
LEMMA RepeatAnswerStep ==
    ASSUME AllInv, NEW s \in Sides, NEW m, RepeatAnswer(s, m)
    PROVE  AllInv'
<1>1. HasLegs /\ \A t \in Sides : resp[t] \subseteq leg[t].cache BY DEF AllInv, DialogInv
<1>2. Later /\ leg' = leg /\ peer' = peer /\ vrelay' = vrelay /\ vport' = vport
      /\ resp' = [resp EXCEPT ![s] = @ \cup Cached(s, m)] /\ late' = [late EXCEPT ![s] = @ \ {m}]
  BY DEF RepeatAnswer, Later
<1>3. Cached(s, m) \subseteq leg[s].cache BY DEF Cached
<1>4. \A t \in Sides : resp'[t] \subseteq leg[t].cache /\ late'[t] \subseteq late[t]
  BY <1>1, <1>2, <1>3 DEF HasLegs
<1>5. Domains /\ \A t \in Sides : LegSame(t) /\ PeerSame(t)
  BY <1>1, <1>2, Unmoved DEF HasLegs, Domains
<1> QED BY <1>2, <1>4, <1>5, QuietStep

\* A response that cannot be sent changes nothing, or ends the call.
LEMMA AnswerUnsentStep ==
    ASSUME AllInv, NEW s \in Sides, NEW m, AnswerUnsent(s, m)
    PROVE  AllInv'
<1>1. HasLegs /\ \A t \in Sides : resp[t] \subseteq leg[t].cache BY DEF AllInv, DialogInv
<1>2. Later /\ leg' = leg /\ peer' = peer /\ vrelay' = vrelay /\ vport' = vport /\ resp' = resp
        /\ late' = late
  BY DEF AnswerUnsent, Later
<1>5. Domains /\ \A t \in Sides : LegSame(t) /\ PeerSame(t)
  BY <1>1, <1>2, Unmoved DEF HasLegs, Domains
<1> QED BY <1>1, <1>2, <1>5, QuietStep

\* An ACK stops the repetition.
LEMMA HearAckStep ==
    ASSUME AllInv, NEW s \in Sides, NEW c, HearAck(s, c)
    PROVE  AllInv'
<1>1. HasLegs /\ \A t \in Sides : resp[t] \subseteq leg[t].cache BY DEF AllInv, DialogInv
<1>2. Later /\ peer' = peer /\ vrelay' = vrelay /\ vport' = vport /\ resp' = resp /\ late' = late
      /\ leg' = IF leg[s].ack = c THEN [leg EXCEPT ![s].ack = 0] ELSE leg
  BY DEF HearAck, Later
<1>3. \A t \in Sides : LegSame(t) /\ DOMAIN leg'[t] = LegFields
  BY <1>1, <1>2 DEF HasLegs, LegFields, LegSame
<1>4. DOMAIN leg' = Sides BY <1>1, <1>2 DEF HasLegs
<1>5. Domains /\ \A t \in Sides : LegSame(t) /\ PeerSame(t)
  BY <1>1, <1>2, <1>3, <1>4, Unmoved DEF HasLegs, Domains
<1> QED BY <1>1, <1>2, <1>5, QuietStep

\* A repeated final response is a remembered one.
LEMMA RepeatFinalStep ==
    ASSUME AllInv, NEW s \in Sides, RepeatFinal(s)
    PROVE  AllInv'
<1>1. HasLegs /\ \A t \in Sides : resp[t] \subseteq leg[t].cache BY DEF AllInv, DialogInv
<1>2. Later /\ leg' = leg /\ peer' = peer /\ vrelay' = vrelay /\ vport' = vport /\ late' = late
      /\ resp' = [resp EXCEPT ![s] = @ \cup {r \in leg[s].cache : r.cseq = leg[s].ack}]
  BY DEF RepeatFinal, Later
<1>4. \A t \in Sides : resp'[t] \subseteq leg[t].cache
  BY <1>1, <1>2 DEF HasLegs
<1>5. Domains /\ \A t \in Sides : LegSame(t) /\ PeerSame(t)
  BY <1>1, <1>2, Unmoved DEF HasLegs, Domains
<1> QED BY <1>2, <1>4, <1>5, QuietStep

\* Without an ACK the dialog is given up.
LEMMA AckTimeoutStep ==
    ASSUME AllInv, NEW s \in Sides, AckTimeout(s)
    PROVE  AllInv'
<1>1. HasLegs /\ \A t \in Sides : resp[t] \subseteq leg[t].cache BY DEF AllInv, DialogInv
<1>2. Later /\ leg' = leg /\ peer' = peer /\ vrelay' = vrelay /\ vport' = vport /\ resp' = resp
        /\ late' = late
  BY DEF AckTimeout, Later
<1>5. Domains /\ \A t \in Sides : LegSame(t) /\ PeerSame(t)
  BY <1>1, <1>2, Unmoved DEF HasLegs, Domains
<1> QED BY <1>1, <1>2, <1>5, QuietStep

\* Responses and ACKs are lost.
LEMMA LostStep ==
    ASSUME AllInv, NEW s \in Sides, Lost(s)
    PROVE  AllInv'
<1>1. HasLegs /\ \A t \in Sides : resp[t] \subseteq leg[t].cache BY DEF AllInv, DialogInv
<1>2. Later /\ leg' = leg /\ peer' = peer /\ vrelay' = vrelay /\ vport' = vport /\ late' = late
      /\ (resp' = resp \/ \E r : resp' = [resp EXCEPT ![s] = @ \ {r}])
  BY DEF Lost, Later
<1>4. DOMAIN resp' = Sides /\ \A t \in Sides : resp'[t] \subseteq leg[t].cache
  BY <1>1, <1>2 DEF HasLegs
<1>5. Domains /\ \A t \in Sides : LegSame(t) /\ PeerSame(t)
  BY <1>1, <1>2, <1>4, Unmoved DEF HasLegs, Domains
<1> QED BY <1>2, <1>4, <1>5, QuietStep

\* A peer is gone.
LEMMA PeerDiesStep ==
    ASSUME AllInv, NEW s \in Sides, PeerDies(s)
    PROVE  AllInv'
<1>1. HasLegs /\ \A t \in Sides : resp[t] \subseteq leg[t].cache BY DEF AllInv, DialogInv
<1>2. Later /\ leg' = leg /\ peer' = [peer EXCEPT ![s].dead = TRUE] /\ vrelay' = vrelay /\ vport' = vport
      /\ resp' = resp /\ late' = late
  BY DEF PeerDies, Later
<1>3. DOMAIN peer' = Sides /\ \A t \in Sides : PeerSame(t) /\ DOMAIN peer'[t] = PeerFields
  BY <1>1, <1>2 DEF HasLegs, PeerFields, PeerSame
<1>5. Domains /\ \A t \in Sides : LegSame(t)
  BY <1>1, <1>2, <1>3, Unmoved DEF HasLegs, Domains
<1> QED BY <1>1, <1>2, <1>3, <1>5, QuietStep

-----------------------------------------------------------------------------
(* Initial states, and an offer of a peer *)

\* No dialog exists at first.
LEMMA InitStep == Init => AllInv
<1> SUFFICES ASSUME Init PROVE AllInv OBVIOUS
<1>1. /\ \A s \in Sides : leg[s] = NoLeg /\ peer[s] = NoPeer /\ resp[s] = {} /\ late[s] = {}
      /\ DOMAIN leg = Sides /\ DOMAIN peer = Sides /\ DOMAIN resp = Sides /\ DOMAIN late = Sides
      /\ setup \in Setups /\ stage = "invite" /\ vrelay = <<>> /\ ~vport
  BY DEF Init
<1>2. /\ DOMAIN NoLeg = LegFields /\ DOMAIN NoPeer = PeerFields
      /\ NoLeg.version = 0 /\ NoLeg.cache = {} /\ NoLeg.formats = <<>>
      /\ NoPeer.seen = {} /\ NoPeer.out = <<>> /\ ~NoPeer.asked /\ NoPeer.cseq = 0
  BY DEF LegFields, PeerFields, NoLeg, NoPeer
<1>3. HasLegs BY <1>1, <1>2 DEF HasLegs
<1>4. OfferInv
  <2>1. IsVideo(<<>>) BY DEF IsVideo, IsSequence, Numbered, ToSet
  <2> QED BY <1>1, <1>2, <2>1 DEF OfferInv, Sides
<1>5. RelayInv /\ PortInv BY <1>1 DEF RelayInv, PortInv, VideoStaysDecodable, ToSet
<1>6. ASSUME NEW s \in Sides PROVE DialogInv(s) /\ VersionInv(s) /\ AgreeInv(s)
  <2>1. leg[s].version = 0 /\ leg[s].cache = {} /\ peer[s].seen = {} /\ peer[s].out = <<>> /\ ~peer[s].asked
        /\ peer[s].cseq = 0 /\ resp[s] = {} /\ late[s] = {}
    BY <1>1, <1>2
  <2>2. DialogInv(s) BY <2>1 DEF DialogInv, Silent, Cached
  <2>3. Told(s) = {} BY <2>1 DEF Told, Bodies
  <2>4. VersionInv(s) BY <2>1, <2>3 DEF VersionInv
  <2>5. AgreeInv(s) BY <2>1, <1>1 DEF AgreeInv, Heard
  <2> QED BY <2>2, <2>4, <2>5
<1> QED BY <1>3, <1>4, <1>5, <1>6 DEF AllInv

\* A request that has no response yet is the one that the peer waits for.
LEMMA Fresh ==
    ASSUME AllInv, NEW s \in Sides, NEW m \in Arriving(s), Cached(s, m) = {}
    PROVE  /\ stage = "up" /\ s \in Live(setup.owner) /\ peer[s].out = <<m>> /\ peer[s].out[1] = m
           /\ m.cseq = peer[s].cseq
           /\ IsDescription(m.sdp) /\ Heard(s) = {} /\ \A r \in leg[s].cache : r.cseq # m.cseq
<1>1. DialogInv(s) /\ setup \in Setups BY DEF AllInv, HasLegs
<1>2. stage = "up" /\ m \in ToSet(peer[s].out) BY <1>1 DEF Arriving, DialogInv
<1>3. peer[s].out # <<>> BY <1>2 DEF ToSet
<1>4. s \in Live(setup.owner) BY <1>1, <1>3 DEF DialogInv, Silent
<1>5. PICK method \in {"INVITE", "UPDATE"}, sdp \in setup.offers[s] :
         peer[s].out = <<[cseq |-> peer[s].cseq, method |-> method, sdp |-> sdp]>>
  BY <1>1, <1>3 DEF DialogInv
<1>6. m = [cseq |-> peer[s].cseq, method |-> method, sdp |-> sdp] BY <1>2, <1>5 DEF ToSet
<1>7. m.cseq = peer[s].cseq /\ m.sdp = sdp BY <1>6
<1>8. IsDescription(m.sdp) BY <1>1, <1>7, RenegotiationConstants DEF Sides
<1>9. \A r \in leg[s].cache : r.cseq # m.cseq BY DEF Cached
<1>10. peer[s].out = <<m>> /\ peer[s].out[1] = m BY <1>5, <1>6
<1>11. Heard(s) = {} BY <1>9, <1>10 DEF Heard
<1> QED BY <1>2, <1>4, <1>7, <1>8, <1>9, <1>10, <1>11

\* The peer offers again: its number is fresh, so nothing remembered answers it.
LEMMA PeerOffersStep ==
    ASSUME AllInv, NEW s \in Sides, PeerOffers(s)
    PROVE  AllInv'
<1>1. PICK method \in {"INVITE", "UPDATE"}, sdp \in setup.offers[s] :
         peer' = [peer EXCEPT ![s].cseq = @ + 1,
                              ![s].out = <<[cseq |-> peer[s].cseq + 1, method |-> method, sdp |-> sdp]>>]
  BY DEF PeerOffers
<1>2. /\ stage = "up" /\ s \in Live(setup.owner) /\ peer[s].out = <<>>
      /\ setup' = setup /\ stage' = stage /\ leg' = leg /\ resp' = resp /\ late' = late
      /\ vrelay' = vrelay /\ vport' = vport /\ Later
  BY DEF PeerOffers, Later
<1>3. HasLegs /\ \A t \in Sides : DialogInv(t) /\ VersionInv(t) /\ AgreeInv(t) BY DEF AllInv
<1> DEFINE new == [cseq |-> peer[s].cseq + 1, method |-> method, sdp |-> sdp]
<1>4. /\ DOMAIN peer' = Sides /\ DOMAIN peer'[s] = PeerFields
      /\ peer'[s].cseq = peer[s].cseq + 1 /\ peer'[s].out = <<new>>
      /\ peer'[s].mine = peer[s].mine /\ peer'[s].theirs = peer[s].theirs /\ peer'[s].asked = peer[s].asked
      /\ peer'[s].seen = peer[s].seen
  <2> HIDE DEF new
  <2>1. peer' = [peer EXCEPT ![s].cseq = @ + 1, ![s].out = <<new>>] BY <1>1 DEF new
  <2> QED BY <2>1, <1>3 DEF HasLegs, PeerFields
<1>5. \A t \in Sides \ {s} : peer'[t] = peer[t] BY <1>1, <1>3 DEF HasLegs
<1>6. HasLegs' BY <1>2, <1>3, <1>4, <1>5 DEF HasLegs
<1>7. \A t \in Sides : LegSame(t) BY <1>2, <1>3, Unmoved
<1>8. \A t \in Sides \ {s} : PeerSame(t) BY <1>3, <1>5, Unmoved
<1>9. \A t \in Sides : Carried(t)' = Carried(t) BY <1>2, <1>7, CarriedFrame
<1>10. \A t \in Sides : resp'[t] \subseteq leg[t].cache /\ late'[t] \subseteq late[t]
  BY <1>2, <1>3 DEF DialogInv
<1>11. \A t \in Sides \ {s} : DialogInv(t)' /\ VersionInv(t)' /\ AgreeInv(t)'
  BY <1>2, <1>3, <1>7, <1>8, <1>9, <1>10, DialogFrame, VersionFrame, AgreeFrame
<1>12. DialogInv(s)'
  <2>1. new.cseq = peer'[s].cseq /\ peer'[s].cseq \in Nat BY <1>3, <1>4 DEF DialogInv
  <2>2. setup'.offers[s] = setup.offers[s] BY <1>2
  <2>3. \E me \in {"INVITE", "UPDATE"}, x \in setup'.offers[s] :
                                peer'[s].out = <<[cseq |-> peer'[s].cseq, method |-> me, sdp |-> x]>>
    BY <1>4, <2>2
  <2>4. leg'[s].cache = leg[s].cache BY <1>2
  <2>5. \A m : Cached(s, m)' = Cached(s, m) BY <1>2 DEF Cached
  <2>6. \A r \in leg[s].cache : r.cseq \in Nat /\ r.cseq <= peer[s].cseq /\ peer[s].cseq \in Nat
    BY <1>3 DEF DialogInv
  <2>7. \A r \in leg'[s].cache : r.cseq \in Nat /\ r.cseq <= peer'[s].cseq BY <2>4, <2>6, <1>4
  <2>8. stage' \notin {"invite", "offered"} /\ s \in Live(setup'.owner) BY <1>2
  <2> QED BY <1>2, <1>3, <2>1, <2>3, <2>4, <2>5, <2>7, <2>8 DEF DialogInv
<1>13. VersionInv(s)'
  <2>1. Told(s)' = Told(s) BY <1>2, <1>4 DEF Told, Bodies
  <2> QED BY <1>2, <1>3, <2>1 DEF VersionInv
<1>14. AgreeInv(s)'
  <2>1. \A r \in leg[s].cache : r.cseq \in Nat /\ r.cseq <= peer[s].cseq /\ peer[s].cseq \in Nat
    BY <1>3 DEF DialogInv
  <2>2. Heard(s)' = {}
    <3>1. peer'[s].out[1].cseq = peer[s].cseq + 1 BY <1>4
    <3> QED BY <2>1, <3>1, <1>2 DEF Heard
  <2>3. Heard(s) = {} BY <1>2 DEF Heard
  <2>4. \A a, b, c : Agreed(s, a, b, c) => Agreed(s, a, b, c)' BY <1>2, <1>9 DEF Agreed
  <2> QED BY <1>2, <1>3, <1>4, <2>2, <2>3, <2>4 DEF AgreeInv
<1>15. OfferInv' /\ RelayInv' /\ PortInv'
  BY <1>2, <1>7, OfferFrame, RelayFrame, PortFrame DEF AllInv, Sides
<1> QED BY <1>6, <1>11, <1>12, <1>13, <1>14, <1>15 DEF AllInv

-----------------------------------------------------------------------------
(* Requests that are declined, and responses that arrive *)

\* One new response, to the request that waits.
LEMMA Responded ==
    ASSUME AllInv, NEW s \in Sides, NEW m \in Arriving(s), Cached(s, m) = {}, NEW r, r.cseq = m.cseq,
           leg'[s].cache = leg[s].cache \cup {r}, resp'[s] = resp[s] \cup {r},
           late' = late, peer' = peer, setup' = setup, stage' = stage
    PROVE  DialogInv(s)'
<1>1. /\ stage = "up" /\ s \in Live(setup.owner) /\ m.cseq = peer[s].cseq /\ \A q \in leg[s].cache :
           q.cseq # m.cseq
  BY Fresh
<1>2. DialogInv(s) BY DEF AllInv
<1>3. \A q \in leg'[s].cache : q.cseq \in Nat /\ q.cseq <= peer[s].cseq BY <1>1, <1>2 DEF DialogInv
<1>4. \A q, p \in leg'[s].cache : q.cseq = p.cseq => q = p BY <1>1, <1>2 DEF DialogInv
<1>5. \A n \in late[s] : Cached(s, n)' # {}
  <2>1. \A n : Cached(s, n) \subseteq Cached(s, n)' BY DEF Cached
  <2> QED BY <1>2, <2>1 DEF DialogInv
<1>6. resp'[s] \subseteq leg'[s].cache BY <1>2 DEF DialogInv
<1> QED BY <1>1, <1>2, <1>3, <1>4, <1>5, <1>6 DEF DialogInv

\* A refusal leaves the media in place.
LEMMA DeclinedStep ==
    ASSUME AllInv, NEW s \in Sides, NEW m \in Arriving(s), Cached(s, m) = {}, NEW status, Declined(s, m,
           status)
    PROVE  AllInv'
<1> DEFINE r == Response(m, status, NoBody, 0)
           l == Remembered(s, m, r)
<1>1. /\ leg' = [leg EXCEPT ![s] = l] /\ resp' = [resp EXCEPT ![s] = @ \cup {r}]
      /\ setup' = setup /\ stage' = stage /\ peer' = peer /\ late' = late /\ vrelay' = vrelay
      /\ vport' = vport /\ Later
  BY DEF Declined, Later
<1>2. r.cseq = m.cseq /\ r.sdp = NoBody BY DEF Response
<1>3. HasLegs /\ \A t \in Sides : DialogInv(t) /\ VersionInv(t) /\ AgreeInv(t) BY DEF AllInv
<1> HIDE DEF r
<1>4. /\ DOMAIN l = LegFields
      /\ l.inv = leg[s].inv /\ l.formats = leg[s].formats /\ l.answer = leg[s].answer
      /\ l.version = leg[s].version
      /\ l.cache = leg[s].cache \cup {r}
  BY <1>3 DEF Remembered, HasLegs, LegFields
<1> HIDE DEF l
<1>5. leg'[s] = l /\ DOMAIN leg' = Sides /\ \A t \in Sides \ {s} : leg'[t] = leg[t] BY <1>1, <1>3 DEF HasLegs
<1>6. resp'[s] = resp[s] \cup {r} /\ DOMAIN resp' = Sides /\ \A t \in Sides \ {s} : resp'[t] = resp[t]
  BY <1>1, <1>3 DEF HasLegs
<1>7. HasLegs' BY <1>1, <1>3, <1>4, <1>5, <1>6 DEF HasLegs
<1>8. \A t \in Sides \ {s} : LegSame(t) BY <1>3, <1>5, Unmoved
<1>9. \A t \in Sides : PeerSame(t) BY <1>1, <1>3, Unmoved
<1>10. \A t \in Sides \ {s} : DialogInv(t)' /\ VersionInv(t)' /\ AgreeInv(t)'
  <2>1. \A t \in Sides \ {s} : resp'[t] \subseteq leg[t].cache /\ late'[t] \subseteq late[t]
    BY <1>1, <1>3, <1>6 DEF DialogInv
  <2>2. \A t \in Sides \ {s} : Carried(t)' = Carried(t) BY <1>1, <1>8, CarriedFrame
  <2> QED BY <1>1, <1>3, <1>8, <1>9, <2>1, <2>2, DialogFrame, VersionFrame, AgreeFrame
<1>11. DialogInv(s)' BY <1>1, <1>2, <1>4, <1>5, <1>6, Responded
<1>12. VersionInv(s)'
  <2>1. Told(s)' = Told(s) BY <1>1, <1>2, <1>4, <1>5, <1>6 DEF Told, Bodies
  <2> QED BY <1>3, <1>4, <1>5, <2>1 DEF VersionInv
<1>13. AgreeInv(s)'
  <2>1. Heard(s)' = Heard(s) BY <1>1, <1>2, <1>4, <1>5 DEF Heard
  <2>2. Carried(s)' = Carried(s) BY <1>1, <1>4, <1>5 DEF Carried
  <2>3. \A a, b, c : Agreed(s, a, b, c) => Agreed(s, a, b, c)' BY <1>4, <1>5, <2>2 DEF Agreed
  <2> QED BY <1>1, <1>3, <2>1, <2>3 DEF AgreeInv
<1>14. OfferInv' /\ RelayInv' /\ PortInv'
  <2>1. \A t \in Sides : /\ leg'[t].formats = leg[t].formats /\ leg'[t].inv = leg[t].inv
                              /\ leg'[t].answer = leg[t].answer
    BY <1>4, <1>5
  <2>2. stage # "offered" BY Fresh
  <2>3. OfferInv' BY <1>1, <2>1, <2>2, OfferFrame DEF AllInv
  <2>4. RelayInv' BY <1>1, <2>1, RelayFrame DEF AllInv, Sides
  <2>5. PortInv' BY <1>1, <2>1 DEF AllInv, PortInv, Sides
  <2> QED BY <2>3, <2>4, <2>5
<1> QED BY <1>7, <1>10, <1>11, <1>12, <1>13, <1>14 DEF AllInv

\* A session refresh has no body.
LEMMA RefreshSessionStep ==
    ASSUME AllInv, NEW s \in Sides, NEW m, RefreshSession(s, m)
    PROVE  AllInv'
  BY DeclinedStep DEF RefreshSession

\* An offer that no reading accepts is refused.
LEMMA RefuseOfferStep ==
    ASSUME AllInv, NEW s \in Sides, NEW m, RefuseOffer(s, m)
    PROVE  AllInv'
  BY DeclinedStep DEF RefuseOffer

\* The peer takes the response to the request that it waits for, and drops every other.
LEMMA PeerReceivesStep ==
    ASSUME AllInv, NEW s \in Sides, NEW r, PeerReceives(s, r)
    PROVE  AllInv'
<1> DEFINE mine == peer[s].out # <<>> /\ peer[s].out[1].cseq = r.cseq
           body == r.status = 200 /\ r.sdp # NoBody
           learned == IF body
                   THEN [peer[s] EXCEPT !.mine = peer[s].out[1].sdp, !.theirs = r.sdp, !.asked = TRUE,
                                        !.seen = @ \cup {<<r.version, r.sdp>>}, !.out = <<>>]
                   ELSE [peer[s] EXCEPT !.out = <<>>]
<1>1. /\ r \in resp[s] /\ stage = "up"
      /\ resp' = [resp EXCEPT ![s] = @ \ {r}]
      /\ peer' = IF mine THEN [peer EXCEPT ![s] = learned] ELSE peer
      /\ late' = late \/ (mine /\ late' = [late EXCEPT ![s] = @ \cup {peer[s].out[1]}])
      /\ setup' = setup /\ stage' = stage /\ leg' = leg /\ vrelay' = vrelay /\ vport' = vport /\ Later
  BY DEF PeerReceives, Later
<1>2. HasLegs /\ \A t \in Sides : DialogInv(t) /\ VersionInv(t) /\ AgreeInv(t) BY DEF AllInv
<1>3. r \in leg[s].cache /\ s \in Live(setup.owner) BY <1>1, <1>2 DEF DialogInv, Silent
<1>4. DOMAIN resp' = Sides /\ DOMAIN late' = Sides /\ \A t \in Sides : resp'[t] \subseteq leg[t].cache
  BY <1>1, <1>2 DEF HasLegs, DialogInv
<1>5. \A t \in Sides : LegSame(t) BY <1>1, <1>2, Unmoved
<1>6. CASE ~mine
  <2>1. peer' = peer /\ late' = late BY <1>1, <1>6
  <2>2. Domains /\ \A t \in Sides : PeerSame(t) BY <1>1, <1>2, <1>4, <2>1, Unmoved DEF HasLegs, Domains
  <2> QED BY <1>1, <1>4, <1>5, <2>1, <2>2, QuietStep
<1>7. CASE mine
  <2>1. /\ DOMAIN learned = PeerFields /\ learned.out = <<>> /\ learned.cseq = peer[s].cseq
        /\ body => /\ learned.mine = peer[s].out[1].sdp /\ learned.theirs = r.sdp /\ learned.asked = TRUE
                   /\ learned.seen = peer[s].seen \cup {<<r.version, r.sdp>>}
        /\ ~body => /\ learned.mine = peer[s].mine /\ learned.theirs = peer[s].theirs
                         /\ learned.asked = peer[s].asked
                    /\ learned.seen = peer[s].seen
    BY <1>2 DEF HasLegs, PeerFields
  <2> HIDE DEF learned
  <2>2. DOMAIN peer' = Sides /\ peer'[s] = learned /\ \A t \in Sides \ {s} : peer'[t] = peer[t]
    BY <1>1, <1>2, <1>7 DEF HasLegs
  <2>3. HasLegs' BY <1>1, <1>2, <1>4, <2>1, <2>2 DEF HasLegs
  <2>4. \A t \in Sides \ {s} : PeerSame(t) /\ late'[t] = late[t] BY <1>1, <1>2, <2>2, Unmoved DEF HasLegs
  <2>5. \A t \in Sides : Carried(t)' = Carried(t) BY <1>1, <1>5, CarriedFrame
  <2>6. \A t \in Sides \ {s} : DialogInv(t)' /\ VersionInv(t)' /\ AgreeInv(t)'
    BY <1>1, <1>2, <1>4, <1>5, <2>4, <2>5, DialogFrame, VersionFrame, AgreeFrame
  <2>7. DialogInv(s)'
    <3>1. \A m : Cached(s, m)' = Cached(s, m) BY <1>1 DEF Cached
    <3>2. \A m \in late'[s] : m \in late[s] \/ m = peer[s].out[1] BY <1>1, <1>2 DEF HasLegs
    <3>3. r \in Cached(s, peer[s].out[1]) BY <1>3, <1>7 DEF Cached
    <3>4. \A m \in late'[s] : Cached(s, m)' # {} BY <1>2, <3>1, <3>2, <3>3 DEF DialogInv
    <3>5. stage' \notin {"invite", "offered"} /\ s \in Live(setup'.owner) BY <1>1, <1>3
    <3> QED BY <1>1, <1>2, <1>4, <2>1, <2>2, <3>4, <3>5 DEF DialogInv
  <2>8. VersionInv(s)'
    <3>1. body => <<r.version, r.sdp>> \in Bodies(resp[s]) BY <1>1 DEF Bodies
    <3>2. Bodies(resp[s])' \subseteq Bodies(resp[s]) BY <1>1, <1>2 DEF Bodies, HasLegs
    <3>3. Bodies(leg[s].cache)' = Bodies(leg[s].cache) BY <1>1 DEF Bodies
    <3>4. peer'[s].seen \subseteq peer[s].seen \cup Bodies(resp[s]) BY <2>1, <2>2, <3>1
    <3>5. Told(s)' \subseteq Told(s) BY <3>2, <3>3, <3>4 DEF Told
    <3> QED BY <1>1, <1>2, <3>5 DEF VersionInv
  <2>9. AgreeInv(s)'
    <3>1. Heard(s)' = {} BY <2>1, <2>2 DEF Heard
    <3>2. \A a, b, c : Agreed(s, a, b, c) => Agreed(s, a, b, c)' BY <1>1, <2>5 DEF Agreed
    <3>3. CASE body
      <4>1. r \in Heard(s) BY <1>3, <1>7, <3>3 DEF Heard
      <4>2. Agreed(s, peer[s].out[1].sdp, r.sdp, TRUE) /\ ValidAnswer(peer[s].out[1].sdp, r.sdp)
        BY <4>1, <1>1, <1>2, <1>3 DEF AgreeInv
      <4>3. peer'[s].mine = peer[s].out[1].sdp /\ peer'[s].theirs = r.sdp /\ peer'[s].asked = TRUE
        BY <2>1, <2>2, <3>3
      <4>4. (Agreed(s, peer[s].mine, peer[s].theirs, peer[s].asked) /\ ValidAnswer(peer[s].mine,
              peer[s].theirs))'
        <5> DEFINE a == peer[s].out[1].sdp
                   b == r.sdp
        <5>1. PICK x : x = a OBVIOUS
        <5>2. PICK y : y = b OBVIOUS
        <5>3. peer'[s].mine = x /\ peer'[s].theirs = y /\ peer'[s].asked = TRUE BY <4>3, <5>1, <5>2
        <5>4. Agreed(s, x, y, TRUE) /\ ValidAnswer(x, y) BY <4>2, <5>1, <5>2
        <5>5. Agreed(s, x, y, TRUE)' BY <3>2, <5>4
        <5> QED BY <5>3, <5>4, <5>5
      <4> QED BY <3>1, <4>4 DEF AgreeInv
    <3>4. CASE ~body
      <4>1. Heard(s) = {}
        <5>1. \A q \in Heard(s) : q = r BY <1>2, <1>3, <1>7 DEF Heard, DialogInv
        <5> QED BY <5>1, <3>4 DEF Heard
      <4> QED BY <1>1, <1>2, <2>1, <2>2, <3>1, <3>2, <3>4, <4>1 DEF AgreeInv
    <3> QED BY <3>3, <3>4
  <2>10. OfferInv' /\ RelayInv' /\ PortInv'
    BY <1>1, <1>5, OfferFrame, RelayFrame, PortFrame DEF AllInv, Sides
  <2> QED BY <2>3, <2>6, <2>7, <2>8, <2>9, <2>10 DEF AllInv
<1> QED BY <1>6, <1>7

-----------------------------------------------------------------------------
(* An offer that is accepted *)

\* What an accepted offer changes, field by field.
Accepting(s, m, inv, got, answer, version, r) ==
    /\ answer = AnswerTo(s, inv, m.sdp, PortAfter(inv, got))
    /\ version = NextVersion(leg[s].answer, answer, leg[s].version)
    /\ r = Response(m, 200, answer, version)
    /\ leg' = [leg EXCEPT ![s] = leg'[s]] /\ DOMAIN leg'[s] = LegFields
    /\ leg'[s].inv = inv /\ leg'[s].formats = leg[s].formats /\ leg'[s].answer = answer
    /\ leg'[s].version = version /\ leg'[s].cache = leg[s].cache \cup {r}
    /\ resp' = [resp EXCEPT ![s] = @ \cup {r}]
    /\ OwnerAccepts(s, inv, got) /\ vrelay' = Committed(s, inv)
    /\ vport' = (PortAfter(inv, got) /\ setup.owner \in {"softphone", "preanswer"})

\* AcceptOffer, with names for what it computes.
LEMMA Accepted ==
    ASSUME HasLegs, NEW s \in Sides, NEW m, AcceptOffer(s, m)
    PROVE \E inv \in ToSet(Invite(s, m.sdp, leg[s].formats)), got \in BOOLEAN :
            \E answer, version, r : Accepting(s, m, inv, got, answer, version, r)
<1>1. PICK inv \in ToSet(Invite(s, m.sdp, leg[s].formats)), got \in BOOLEAN :
         LET port == PortAfter(inv, got)
             answer == AnswerTo(s, inv, m.sdp, port)
             version == NextVersion(leg[s].answer, answer, leg[s].version)
             r == Response(m, 200, answer, version)
         IN  /\ got => PortNeeded(inv)
             /\ OwnerAccepts(s, inv, got)
             /\ leg' = [leg EXCEPT ![s] = [Remembered(s, m, r) EXCEPT
                          !.inv = inv, !.answer = answer, !.version = version,
                          !.ack = IF m.method = "INVITE" THEN m.cseq ELSE @]]
             /\ resp' = [resp EXCEPT ![s] = @ \cup {r}]
             /\ vrelay' = Committed(s, inv)
             /\ vport' = (port /\ setup.owner \in {"softphone", "preanswer"})
  BY DEF AcceptOffer
<1> DEFINE answer == AnswerTo(s, inv, m.sdp, PortAfter(inv, got))
           version == NextVersion(leg[s].answer, answer, leg[s].version)
           r == Response(m, 200, answer, version)
           l1 == Remembered(s, m, r)
<1>2. /\ DOMAIN l1 = LegFields
      /\ l1.inv = leg[s].inv /\ l1.formats = leg[s].formats /\ l1.ack = leg[s].ack /\ l1.cseq = m.cseq
      /\ l1.cache = leg[s].cache \cup {r}
  <2> HIDE DEF r
  <2> QED BY DEF Remembered, HasLegs, LegFields
<1> HIDE DEF answer, version, r, l1
<1>3. leg' = [leg EXCEPT ![s] = [l1 EXCEPT
                          !.inv = inv, !.answer = answer, !.version = version,
                          !.ack = IF m.method = "INVITE" THEN m.cseq ELSE @]]
   BY <1>1 DEF answer, version, r, l1
<1>4. leg'[s] = [l1 EXCEPT
                          !.inv = inv, !.answer = answer, !.version = version,
                          !.ack = IF m.method = "INVITE" THEN m.cseq ELSE @]
   BY <1>3 DEF HasLegs
<1>5. /\ DOMAIN leg'[s] = LegFields
             /\ leg'[s].inv = inv /\ leg'[s].formats = leg[s].formats /\ leg'[s].answer = answer
             /\ leg'[s].version = version /\ leg'[s].cseq = m.cseq /\ leg'[s].cache = leg[s].cache \cup {r}
             /\ leg'[s].ack = IF m.method = "INVITE" THEN m.cseq ELSE leg[s].ack
   BY <1>4, <1>2 DEF LegFields
<1>6. leg' = [leg EXCEPT ![s] = leg'[s]]
   BY <1>3, <1>4
<1>7. /\ OwnerAccepts(s, inv, got)
      /\ resp' = [resp EXCEPT ![s] = @ \cup {r}]
      /\ vrelay' = Committed(s, inv)
      /\ vport' = (PortAfter(inv, got) /\ setup.owner \in {"softphone", "preanswer"})
  BY <1>1 DEF r, version, answer
<1>8. /\ answer = AnswerTo(s, inv, m.sdp, PortAfter(inv, got))
      /\ version = NextVersion(leg[s].answer, answer, leg[s].version)
      /\ r = Response(m, 200, answer, version)
  BY DEF answer, version, r
<1>9. Accepting(s, m, inv, got, answer, version, r) BY <1>5, <1>6, <1>7, <1>8 DEF Accepting
<1> QED BY <1>9

\* An accepted offer: the answer is right, its version new unless it is the same answer, the
\* bridge decodable in both directions and the port in use.
LEMMA AcceptOfferStep ==
    ASSUME AllInv, NEW s \in Sides, NEW m, AcceptOffer(s, m)
    PROVE  AllInv'
<1>1. /\ m \in Arriving(s) /\ Cached(s, m) = {}
      /\ setup' = setup /\ stage' = stage /\ peer' = peer /\ late' = late /\ Later
  BY DEF AcceptOffer, Later
<1>2. /\ HasLegs /\ OfferInv /\ RelayInv /\ PortInv
      /\ \A t \in Sides : DialogInv(t) /\ VersionInv(t) /\ AgreeInv(t)
  BY DEF AllInv
<1>3. PICK inv \in ToSet(Invite(s, m.sdp, leg[s].formats)), got \in BOOLEAN :
         \E answer, version, r : Accepting(s, m, inv, got, answer, version, r)
  BY <1>2, Accepted
<1>4. PICK answer, version, r : Accepting(s, m, inv, got, answer, version, r) BY <1>3
<1> DEFINE port == PortAfter(inv, got)
<1>5. /\ r.cseq = m.cseq /\ r.status = 200 /\ r.sdp = answer /\ r.version = version
      /\ version = IF leg[s].answer = answer THEN leg[s].version ELSE leg[s].version + 1
  BY <1>4 DEF Accepting, Response, NextVersion
<1>6. port => inv.video # <<>> BY DEF PortAfter, Missing
<1> HIDE DEF port
<1>7. /\ leg' = [leg EXCEPT ![s] = leg'[s]] /\ DOMAIN leg'[s] = LegFields
      /\ leg'[s].inv = inv /\ leg'[s].formats = leg[s].formats /\ leg'[s].answer = answer
      /\ leg'[s].version = version /\ leg'[s].cache = leg[s].cache \cup {r}
      /\ resp' = [resp EXCEPT ![s] = @ \cup {r}] /\ answer = AnswerTo(s, inv, m.sdp, port)
      /\ OwnerAccepts(s, inv, got) /\ vrelay' = Committed(s, inv)
      /\ vport' = (port /\ setup.owner \in {"softphone", "preanswer"})
  BY <1>4 DEF Accepting, port
<1>8. /\ stage = "up" /\ s \in Live(setup.owner) /\ peer[s].out = <<m>> /\ peer[s].out[1] = m
      /\ IsDescription(m.sdp) /\ Heard(s) = {} /\ \A q \in leg[s].cache : q.cseq # m.cseq
  BY <1>1, Fresh
<1>9. Invited(inv, m.sdp)
  BY <1>2, <1>8, InviteIs DEF HasLegs, OfferInv
<1>10. /\ ValidAnswer(m.sdp, answer) /\ AudioReadAlike(m.sdp, answer, TRUE, inv.audio)
       /\ \A v \in ToSet(inv.video) : VideoReadAlike(m.sdp, answer, TRUE, v)
       /\ inv.video = <<>> => \A v : VideoReadAlike(m.sdp, answer, TRUE, v)
       /\ port /\ s = "left" /\ setup.owner \in {"softphone", "preanswer"} => Video(answer) # <<>>
  <2>1. LET a == AnswerTo(s, inv, m.sdp, port)
        IN  /\ Right(m.sdp, a, inv.audio, inv.video)
            /\ inv.video = <<>> => \A v : VideoReadAlike(m.sdp, a, TRUE, v)
            /\ port /\ s = "left" /\ setup.owner \in {"softphone", "preanswer"} => Video(a) # <<>>
    BY <1>6, <1>8, <1>9, AnswerToRight
  <2>2. answer = AnswerTo(s, inv, m.sdp, port) BY <1>7
  <2> QED BY <2>1, <2>2 DEF Right
<1>11. answer # NoBody
  <2>1. Len(answer) \in 1..Len(m.sdp) BY <1>10 DEF ValidAnswer
  <2>2. Len(<<>>) = 0 OBVIOUS
  <2> QED BY <2>1, <2>2 DEF NoBody
<1>12. DOMAIN leg' = Sides /\ \A t \in Sides \ {s} : leg'[t] = leg[t]
  <2>1. PICK l : leg' = [leg EXCEPT ![s] = l] BY <1>7
  <2> QED BY <2>1, <1>2 DEF HasLegs
<1>13. resp'[s] = resp[s] \cup {r} /\ DOMAIN resp' = Sides /\ \A t \in Sides \ {s} : resp'[t] = resp[t]
  BY <1>7, <1>2 DEF HasLegs
<1>14. HasLegs' BY <1>1, <1>2, <1>7, <1>12, <1>13 DEF HasLegs
<1>15. \A t \in Sides \ {s} : LegSame(t) BY <1>2, <1>12, Unmoved
<1>16. \A t \in Sides : PeerSame(t) BY <1>1, <1>2, Unmoved
<1>17. /\ vrelay = <<>> => vrelay' = <<>>
       /\ vrelay # <<>> => /\ setup.owner = "relay" /\ vrelay' = <<vrelay'[1]>> /\ DOMAIN vrelay'[1] = Sides
                           /\ vrelay'[1][s] = (IF inv.video = <<>> THEN vrelay[1][s] ELSE VideoPeer(inv))
                           /\ \A t \in Sides \ {s} : vrelay'[1][t] = vrelay[1][t]
  <2>1. vrelay' = IF vrelay = <<>> \/ inv.video = <<>> THEN vrelay
          ELSE <<[vrelay[1] EXCEPT ![s] = VideoPeer(inv)]>>
    BY <1>7 DEF Committed, Missing
  <2>2. CASE vrelay = <<>> BY <2>1, <2>2
  <2>3. CASE vrelay # <<>> /\ inv.video = <<>> BY <2>1, <2>3, <1>2 DEF RelayInv
  <2>4. CASE vrelay # <<>> /\ inv.video # <<>>
    <3> DEFINE w == [vrelay[1] EXCEPT ![s] = VideoPeer(inv)]
    <3>1. DOMAIN vrelay[1] = Sides /\ setup.owner = "relay" BY <1>2, <2>4 DEF RelayInv
    <3>2. DOMAIN w = Sides /\ w[s] = VideoPeer(inv) /\ \A t \in Sides \ {s} : w[t] = vrelay[1][t] BY <3>1
    <3> HIDE DEF w
    <3>3. vrelay' = <<w>> BY <2>1, <2>4 DEF w
    <3> QED BY <3>1, <3>2, <3>3, <2>4
  <2> QED BY <2>2, <2>3, <2>4
<1>18. \A t \in Sides \ {s} : Carried(t)' = Carried(t)
  <2>1. CASE setup.owner # "relay" BY <2>1, <1>1, <1>12 DEF Carried
  <2>2. CASE setup.owner = "relay"
    <3>1. DOMAIN vrelay' = DOMAIN vrelay
      <4>1. CASE vrelay = <<>> BY <4>1, <1>17
      <4>2. CASE vrelay # <<>>
        <5>1. vrelay = <<vrelay[1]>> BY <4>2, <1>2 DEF RelayInv
        <5>2. vrelay' = <<vrelay'[1]>> BY <4>2, <1>17
        <5> QED BY <5>1, <5>2, Single
      <4> QED BY <4>1, <4>2
    <3>2. \A t \in Sides \ {s} : \A k \in DOMAIN vrelay : vrelay'[k][t] = vrelay[k][t]
      <4>1. CASE vrelay = <<>> BY <4>1
      <4>2. CASE vrelay # <<>>
        <5>1. DOMAIN vrelay = {1} BY <4>2, <1>2, Single DEF RelayInv
        <5> QED BY <5>1, <4>2, <1>17
      <4> QED BY <4>1, <4>2
    <3> QED BY <3>1, <3>2, <2>2, <1>1 DEF Carried
  <2> QED BY <2>1, <2>2
<1>19. \A t \in Sides \ {s} : DialogInv(t)' /\ VersionInv(t)' /\ AgreeInv(t)'
  <2>1. \A t \in Sides \ {s} : resp'[t] \subseteq leg[t].cache /\ late'[t] \subseteq late[t]
    BY <1>1, <1>2, <1>13 DEF DialogInv
  <2> QED BY <1>1, <1>2, <1>15, <1>16, <1>18, <2>1, DialogFrame, VersionFrame, AgreeFrame
<1>20. DialogInv(s)' BY <1>1, <1>5, <1>7, <1>13, Responded
<1>21. VersionInv(s)'
  <2>1. Told(s)' \subseteq Told(s) \cup {<<version, answer>>}
    BY <1>1, <1>5, <1>7, <1>13 DEF Told, Bodies
  <2>2. VersionInv(s) BY <1>2
  <2> DEFINE old == leg[s].version
             told == Told(s)
  <2>3. /\ old \in Nat /\ version \in Nat /\ old <= version
        /\ (version = old /\ leg[s].answer = answer) \/ version = old + 1
    BY <2>2, <1>5 DEF VersionInv
  <2>4. \A x \in told : x[1] \in 0..old /\ (x[1] = old => x[2] = leg[s].answer) BY <2>2 DEF VersionInv
  <2>5. \A x, y \in told : x[1] = y[1] => x[2] = y[2] BY <2>2 DEF VersionInv
  <2> HIDE DEF told, old
  <2>6. \A x \in told \cup {<<version, answer>>} : x[1] \in 0..version /\ (x[1] = version => x[2] = answer)
    BY <2>3, <2>4 DEF old
  <2>7. \A x, y \in told \cup {<<version, answer>>} : x[1] = y[1] => x[2] = y[2]
    BY <2>4, <2>5, <2>6
  <2>8. Told(s)' \subseteq told \cup {<<version, answer>>} BY <2>1 DEF told
  <2> QED BY <1>7, <2>3, <2>6, <2>7, <2>8 DEF VersionInv
<1>22. \A v \in ToSet(Carried(s)') : VideoReadAlike(m.sdp, answer, TRUE, v)
  <2>1. CASE setup.owner # "relay"
    <3>1. Carried(s)' = inv.video BY <2>1, <1>1, <1>7 DEF Carried
    <3> QED BY <3>1, <1>10
  <2>2. CASE setup.owner = "relay" /\ vrelay = <<>>
    <3>1. Carried(s)' = [k \in DOMAIN vrelay' |-> vrelay'[k][s].video] /\ vrelay' = <<>>
      BY <2>2, <1>1, <1>17 DEF Carried
    <3>2. ToSet(Carried(s)') = {} BY <3>1 DEF ToSet
    <3> QED BY <3>2
  <2>3. CASE setup.owner = "relay" /\ vrelay # <<>>
    <3>1. CASE inv.video = <<>> BY <3>1, <1>10
    <3>2. CASE inv.video # <<>>
      <4>1. Carried(s)' = [k \in DOMAIN vrelay' |-> vrelay'[k][s].video] BY <2>3, <1>1 DEF Carried
      <4>2. DOMAIN vrelay' = {1} /\ vrelay'[1][s] = VideoPeer(inv) BY <2>3, <3>2, <1>17, Single
      <4>3. vrelay'[1][s].video = inv.video[1] BY <4>2 DEF VideoPeer
      <4>4. ToSet(Carried(s)') = {inv.video[1]} BY <4>1, <4>2, <4>3 DEF ToSet
      <4>5. inv.video[1] \in ToSet(inv.video)
        <5>1. inv.video = <<inv.video[1]>> BY <1>9, <3>2 DEF Invited
        <5> QED BY <5>1 DEF ToSet
      <4> QED BY <4>4, <4>5, <1>10
    <3> QED BY <3>1, <3>2
  <2> QED BY <2>1, <2>2, <2>3
<1>23. AgreeInv(s)'
  <2>1. Heard(s)' = {r} BY <1>1, <1>5, <1>7, <1>8, <1>11 DEF Heard
  <2>2. PICK a : a = m.sdp OBVIOUS
  <2>3. PICK b : b = answer OBVIOUS
  <2>4. Agreed(s, a, b, TRUE)' BY <1>7, <1>10, <1>22, <2>2, <2>3 DEF Agreed
  <2>5. ValidAnswer(a, b) BY <1>10, <2>2, <2>3
  <2>6. r.sdp = b /\ peer'[s].out[1].sdp = a BY <1>1, <1>5, <1>8, <2>2, <2>3
  <2>7. (\A q \in Heard(s) : Agreed(s, peer[s].out[1].sdp, q.sdp, TRUE) /\ ValidAnswer(peer[s].out[1].sdp,
          q.sdp))'
    BY <2>1, <2>4, <2>5, <2>6
  <2>8. peer'[s].asked => ValidAnswer(peer'[s].mine, peer'[s].theirs) BY <1>1, <1>2 DEF AgreeInv
  <2> QED BY <2>1, <2>7, <2>8 DEF AgreeInv
<1>24. OfferInv'
  BY <1>1, <1>2, <1>7, <1>8, <1>12, OfferFrame
<1>25. RelayInv'
  <2>1. CASE vrelay = <<>>
    BY <2>1, <1>17 DEF RelayInv, VideoStaysDecodable, ToSet
  <2>2. CASE vrelay # <<>>
    <3> DEFINE w == vrelay[1]
               x == vrelay'[1]
    <3>1. /\ setup.owner = "relay" /\ vrelay = <<w>> /\ leg["right"].inv.video # <<>>
          /\ w.right = VideoPeer(leg["right"].inv)
          /\ x[s] = (IF inv.video = <<>> THEN w[s] ELSE VideoPeer(inv)) /\ \A t \in Sides \ {s} : x[t] = w[t]
          /\ vrelay' = <<x>> /\ DOMAIN x = Sides
      BY <1>2, <1>17, <2>2 DEF RelayInv
    <3>2. RelayAccepts(s, inv) BY <1>7, <3>1 DEF OwnerAccepts
    <3>3. \A from \in Sides : \A to \in Sides \ {from} :
            RemoteSends(w[from].video.send) /\ RemoteReceives(w[to].video.send, w[to].held)
              => PassthroughCompatible(w[from].video.recv, w[to].video.send)
      <4>1. w \in ToSet(vrelay) BY <3>1, Single
      <4> QED BY <4>1, <1>2 DEF RelayInv, VideoStaysDecodable
    <3>4. CASE s = "left" /\ inv.video # <<>>
      <4>1. x.left = VideoPeer(inv) /\ x.right = w.right BY <3>1, <3>4 DEF Sides
      <4>2. BridgedReofferAccepted(leg["left"].inv.video, inv.video, inv.vheld, w.right.video, w.right.held)
        BY <3>2, <3>4 DEF RelayAccepts, Missing
      <4>3. x.left.video = inv.video[1] /\ x.left.held = inv.vheld BY <4>1 DEF VideoPeer
      <4>4. /\ RemoteSends(x.left.video.send) /\ RemoteReceives(x.right.video.send, x.right.held)
                 => PassthroughCompatible(x.left.video.recv, x.right.video.send)
            /\ RemoteReceives(x.left.video.send, x.left.held) /\ RemoteSends(x.right.video.send)
                 => PassthroughCompatible(x.right.video.recv, x.left.video.send)
        BY <3>4, <4>1, <4>2, <4>3 DEF BridgedReofferAccepted, Missing
      <4>5. VideoStaysDecodable'
        <5>1. ToSet(vrelay') = {x} BY <3>1, Single
        <5> HIDE DEF x, w
        <5> QED BY <5>1, <4>4 DEF VideoStaysDecodable, Sides
      <4>6. leg'["right"].inv = leg["right"].inv BY <1>12, <3>4 DEF Sides
      <4>7. VideoPeer(leg["right"].inv)' = VideoPeer(leg["right"].inv) BY <4>6 DEF VideoPeer
      <4> QED BY <1>1, <1>8, <3>1, <4>1, <4>5, <4>6, <4>7 DEF RelayInv
    <3>5. CASE s = "right"
      <4>1. inv.video # <<>> /\ x.right = VideoPeer(inv) /\ x.left = w.left
        <5>1. inv.video # <<>> BY <3>1, <3>2, <3>5 DEF RelayAccepts, Missing
        <5> QED BY <5>1, <3>1, <3>5 DEF Sides
      <4>2. leg'["right"].inv = inv BY <1>7, <3>5
      <4>3. VideoPeer(leg["right"].inv)' = VideoPeer(inv) BY <4>2 DEF VideoPeer
      <4>4. ToSet(vrelay') = {x} BY <3>1, Single
      <4>5. VideoStaysDecodable'
        <5>1. CASE inv = leg["right"].inv
          <6>1. x.left = w.left /\ x.right = w.right BY <5>1, <3>1, <4>1
          <6> HIDE DEF x, w
          <6> QED BY <4>4, <6>1, <3>3 DEF VideoStaysDecodable, Sides
        <5>2. CASE inv # leg["right"].inv
          <6>1. /\ PassthroughCompatible(w.left.video.recv, inv.video[1].send)
                /\ PassthroughCompatible(inv.video[1].recv, w.left.video.send)
            BY <5>2, <3>2, <3>5, <4>1 DEF RelayAccepts, Missing
          <6>2. x.right.video = inv.video[1] BY <4>1 DEF VideoPeer
          <6> HIDE DEF x, w
          <6> QED BY <4>1, <4>4, <6>1, <6>2 DEF VideoStaysDecodable, Sides
        <5> QED BY <5>1, <5>2
      <4> QED BY <1>1, <1>8, <3>1, <4>1, <4>2, <4>3, <4>5 DEF RelayInv
    <3>6. CASE s = "left" /\ inv.video = <<>>
      <4>1. x.left = w.left /\ x.right = w.right BY <3>1, <3>6 DEF Sides
      <4>2. ToSet(vrelay') = {x} BY <3>1, Single
      <4>5. VideoStaysDecodable'
        <5> HIDE DEF x, w
        <5> QED BY <4>1, <4>2, <3>3 DEF VideoStaysDecodable, Sides
      <4>6. leg'["right"].inv = leg["right"].inv BY <1>12, <3>6 DEF Sides
      <4>7. VideoPeer(leg["right"].inv)' = VideoPeer(leg["right"].inv) BY <4>6 DEF VideoPeer
      <4> QED BY <1>1, <1>8, <3>1, <4>1, <4>5, <4>6, <4>7 DEF RelayInv
    <3> QED BY <3>4, <3>5, <3>6 DEF Sides
  <2> QED BY <2>1, <2>2
<1>26. PortInv'
  <2> SUFFICES ASSUME vport'
               PROVE  setup.owner \in {"softphone", "preanswer"} /\ leg'["left"].inv.video # <<>>
                        /\ Video(leg'["left"].answer) # <<>>
    BY <1>1 DEF PortInv
  <2>1. port /\ setup.owner \in {"softphone", "preanswer"} BY <1>7
  <2>2. s = "left" BY <2>1, <1>8 DEF Live
  <2> QED BY <2>1, <2>2, <1>6, <1>7, <1>10
<1> QED BY <1>14, <1>19, <1>20, <1>21, <1>23, <1>24, <1>25, <1>26 DEF AllInv

-----------------------------------------------------------------------------
(* The first answer, by an owner that ends the call itself *)

\* The fields of a dialog that has just been answered.
LEMMA EstablishedIs ==
    ASSUME NEW i, NEW f, NEW d
    PROVE  LET l == Established(i, f, d) IN
           /\ DOMAIN l = LegFields /\ l.inv = i /\ l.formats = f /\ l.answer = d /\ l.version = 0
           /\ l.cache = {}
  BY DEF Established, NoLeg, LegFields

\* A dialog that nobody has offered anything in yet, and one that has just been answered.
LEMMA SilentAfter ==
    ASSUME NEW t \in Sides, Silent(t)', peer'[t].cseq \in Nat, stage' # "up" \/ t \notin Live(setup'.owner)
    PROVE  DialogInv(t)' /\ VersionInv(t)' /\ AgreeInv(t)'
<1>1. DialogInv(t)' BY DEF DialogInv, Silent
<1>2. Told(t)' = {} BY DEF Told, Bodies, Silent
<1>3. VersionInv(t)' BY <1>2 DEF VersionInv, Silent
<1>4. AgreeInv(t)' BY DEF AgreeInv, Heard, Silent
<1> QED BY <1>1, <1>3, <1>4

\* A dialog that has just been answered.
LEMMA AnsweredAfter ==
    ASSUME NEW t \in Sides, stage' = "up", t \in Live(setup'.owner),
           leg'[t].version = 0, leg'[t].cache = {}, resp'[t] = {}, late'[t] = {},
           peer'[t].out = <<>>, peer'[t].cseq = 0, peer'[t].seen = {<<0, leg'[t].answer>>},
           peer'[t].asked => ValidAnswer(peer'[t].mine, peer'[t].theirs),
           Agreed(t, peer[t].mine, peer[t].theirs, peer[t].asked)'
    PROVE  DialogInv(t)' /\ VersionInv(t)' /\ AgreeInv(t)'
<1>1. DialogInv(t)' BY DEF DialogInv, Cached
<1>2. Told(t)' = {<<0, leg'[t].answer>>} BY DEF Told, Bodies
<1>3. VersionInv(t)' BY <1>2 DEF VersionInv
<1>4. Heard(t)' = {} BY DEF Heard
<1>5. AgreeInv(t)' BY <1>4 DEF AgreeInv
<1> QED BY <1>1, <1>3, <1>5

\* Until the first answer nobody has offered anything else.
LEMMA NothingYet ==
    ASSUME AllInv, stage \in {"invite", "offered"}
    PROVE  /\ HasLegs /\ OfferInv /\ vrelay = <<>> /\ setup \in Setups
           /\ \A t \in Sides : Silent(t) /\ peer[t].cseq \in Nat
           /\ setup.owner \notin {"softphone", "preanswer"} => ~vport
  BY DEF AllInv, HasLegs, RelayInv, PortInv, DialogInv

\* The softphone, Assist or a preanswered call answers its caller.
LEMMA AnsweredLocallyStep ==
    ASSUME AllInv, AnsweredLocally
    PROVE  AllInv'
<1>1. PICK inv \in ToSet(Invite("left", setup.first, setup.video)), got \in BOOLEAN :
         LET answer == LocalAnswer(inv, setup.first, got)
         IN  /\ got => ~Missing(inv.video) /\ setup.owner # "assist"
             /\ vport' = got
             /\ leg' = [leg EXCEPT !["left"] = Established(inv, setup.video, answer)]
             /\ peer' = [peer EXCEPT !["left"] = PeerKnows(setup.first, answer, TRUE)]
  BY DEF AnsweredLocally
<1>2. /\ stage = "invite" /\ setup.owner \in {"softphone", "preanswer", "assist"}
      /\ stage' = "up" /\ setup' = setup /\ resp' = resp /\ late' = late /\ vrelay' = vrelay
  BY DEF AnsweredLocally
<1>3. PICK answer : answer = LocalAnswer(inv, setup.first, got) OBVIOUS
<1>4. /\ HasLegs /\ OfferInv /\ vrelay = <<>> /\ setup \in Setups /\ \A t \in Sides : Silent(t)
           /\ peer[t].cseq \in Nat
  BY <1>2, NothingYet
<1>5. IsDescription(setup.first) /\ IsVideo(setup.video) BY <1>4, RenegotiationConstants
<1>6. Invited(inv, setup.first) BY <1>4, <1>5, InviteIs
<1>7. /\ Right(setup.first, answer, inv.audio, inv.video)
      /\ got => Video(answer) # <<>> /\ inv.video # <<>>
  <2>1. got => inv.video # <<>> BY <1>1 DEF Missing
  <2>2. LET a == LocalAnswer(inv, setup.first, got)
        IN  Right(setup.first, a, inv.audio, inv.video) /\ (got => Video(a) # <<>>)
    BY <1>5, <1>6, <2>1, LocalAnswerRight
  <2> QED BY <1>3, <2>1, <2>2
<1> DEFINE l == Established(inv, setup.video, answer)
           p == PeerKnows(setup.first, answer, TRUE)
<1>8. /\ DOMAIN l = LegFields /\ l.inv = inv /\ l.formats = setup.video /\ l.answer = answer
      /\ l.version = 0 /\ l.cache = {}
  BY EstablishedIs
<1>9. /\ DOMAIN p = PeerFields /\ p.mine = setup.first /\ p.theirs = answer /\ p.asked = TRUE
      /\ p.seen = {<<0, answer>>}
      /\ p.out = <<>> /\ p.cseq = 0
  BY DEF PeerKnows, NoPeer, PeerFields
<1> HIDE DEF l, p
<1>10. leg' = [leg EXCEPT !["left"] = l] /\ peer' = [peer EXCEPT !["left"] = p] /\ vport' = got
  BY <1>1, <1>3 DEF l, p
<1>11. /\ DOMAIN leg' = Sides /\ leg'["left"] = l /\ leg'["right"] = leg["right"]
       /\ DOMAIN peer' = Sides /\ peer'["left"] = p /\ peer'["right"] = peer["right"]
  BY <1>4, <1>10 DEF HasLegs, Sides
<1>12. HasLegs' BY <1>2, <1>4, <1>8, <1>9, <1>11 DEF HasLegs, Sides
<1>13. OfferInv' BY <1>2, <1>4, <1>5, <1>8, <1>11 DEF OfferInv, Sides
<1>14. RelayInv' BY <1>2, <1>4 DEF RelayInv, VideoStaysDecodable, ToSet
<1>15. PortInv'
  <2>1. got => setup.owner \in {"softphone", "preanswer"} BY <1>1, <1>2
  <2> QED BY <1>2, <1>7, <1>8, <1>10, <1>11, <2>1 DEF PortInv
<1>16. "left" \in Live(setup'.owner) /\ "right" \notin Live(setup'.owner) BY <1>2 DEF Live
<1>17. DialogInv("left")' /\ VersionInv("left")' /\ AgreeInv("left")'
  <2>1. Carried("left")' = inv.video BY <1>2, <1>8, <1>11 DEF Carried
  <2>2. Agreed("left", peer["left"].mine, peer["left"].theirs, peer["left"].asked)'
    BY <1>7, <1>8, <1>9, <1>11, <2>1 DEF Agreed, Right
  <2>3. resp'["left"] = {} /\ late'["left"] = {} BY <1>2, <1>4 DEF Silent, Sides
  <2>4. ValidAnswer(peer'["left"].mine, peer'["left"].theirs) BY <1>7, <1>9, <1>11 DEF Right
  <2>5. /\ leg'["left"].version = 0 /\ leg'["left"].cache = {} /\ peer'["left"].out = <<>>
        /\ peer'["left"].cseq = 0
        /\ peer'["left"].seen = {<<0, leg'["left"].answer>>}
    BY <1>8, <1>9, <1>11
  <2> QED BY <1>2, <1>16, <2>2, <2>3, <2>4, <2>5, AnsweredAfter DEF Sides
<1>18. DialogInv("right")' /\ VersionInv("right")' /\ AgreeInv("right")'
  <2>1. Silent("right")' /\ peer'["right"].cseq \in Nat BY <1>2, <1>4, <1>11 DEF Silent, Sides
  <2> QED BY <1>16, <2>1, SilentAfter DEF Sides
<1> QED BY <1>12, <1>13, <1>14, <1>15, <1>17, <1>18 DEF AllInv, Sides

\* A bridge offers its callee what it can carry.
LEMMA OfferedStep ==
    ASSUME AllInv, Offered
    PROVE  AllInv'
<1>1. PICK inv \in ToSet(Invite("left", setup.first, setup.video)), got \in BOOLEAN :
         LET formats == IF got THEN <<inv.video[1].send>> ELSE <<>>
             video == [k \in DOMAIN formats |->
                         Section("video", formats[k].rtp, formats, formats[k].dir, 0)]
             offer == OwnOffer(setup, video)
         IN  /\ got => ~Missing(inv.video)
             /\ leg' = [s \in Sides |-> IF s = "left" THEN Established(inv, setup.video, <<>>)
                                        ELSE Established(NoInvite, formats, offer)]
  BY DEF Offered
<1>2. /\ stage = "invite" /\ setup.owner = "relay" /\ stage' = "offered"
      /\ setup' = setup /\ peer' = peer /\ resp' = resp /\ late' = late /\ vrelay' = vrelay /\ vport' = vport
  BY DEF Offered
<1>3. /\ HasLegs /\ OfferInv /\ vrelay = <<>> /\ setup \in Setups /\ ~vport
      /\ \A t \in Sides : Silent(t) /\ peer[t].cseq \in Nat
  BY <1>2, NothingYet
<1>4. IsDescription(setup.first) /\ IsVideo(setup.video) BY <1>3, RenegotiationConstants
<1>5. Invited(inv, setup.first) BY <1>3, <1>4, InviteIs
<1>6. PICK formats : formats = IF got THEN <<inv.video[1].send>> ELSE <<>> OBVIOUS
<1>7. IsVideo(formats) /\ Len(formats) \in {0, 1}
  <2>1. CASE got
    <3>1. inv.video # <<>> BY <1>1, <2>1 DEF Missing
    <3>2. PICK f : Sends(inv.video[1].send, InSection(Video(setup.first)[1], f)) BY <1>5, <3>1 DEF Invited
    <3>3. DOMAIN inv.video[1].send = VideoFields BY <3>2 DEF Sends
    <3> QED BY <1>6, <2>1, <3>3, OneVideo
  <2>2. CASE ~got BY <1>6, <2>2 DEF IsVideo, IsSequence, Numbered, ToSet
  <2> QED BY <2>1, <2>2
<1> DEFINE video == [k \in DOMAIN formats |-> Section("video", formats[k].rtp, formats, formats[k].dir, 0)]
           offer == OwnOffer(setup, video)
           l == Established(inv, setup.video, <<>>)
           r == Established(NoInvite, formats, offer)
<1>8. leg' = [s \in Sides |-> IF s = "left" THEN l ELSE r] BY <1>1, <1>6
<1>9. /\ DOMAIN l = LegFields /\ l.inv = inv /\ l.formats = setup.video /\ l.version = 0 /\ l.cache = {}
  BY EstablishedIs
<1>10. /\ DOMAIN r = LegFields /\ r.formats = formats /\ r.answer = offer /\ r.version = 0 /\ r.cache = {}
  <2> HIDE DEF offer
  <2> QED BY EstablishedIs
<1> HIDE DEF l, r, offer
<1>11. DOMAIN leg' = Sides /\ leg'["left"] = l /\ leg'["right"] = r BY <1>8 DEF Sides
<1>12. HasLegs' BY <1>2, <1>3, <1>9, <1>10, <1>11 DEF HasLegs, Sides
<1>13. OfferInv'
  <2>1. StreamOffered' = video BY <1>2, <1>10, <1>11 DEF StreamOffered
  <2>2. leg'["right"].answer = OwnOffer(setup', StreamOffered') BY <1>2, <1>10, <1>11, <2>1 DEF offer
  <2>3. Invite("left", setup.first, setup.video)' = Invite("left", setup.first, setup.video)
    BY <1>2 DEF Invite
  <2>4. leg'["left"].inv \in ToSet(Invite("left", setup.first, setup.video))' BY <1>9, <1>11, <2>3
  <2>5. IsVideo(leg'["left"].formats) /\ IsVideo(leg'["right"].formats)
          /\ Len(leg'["right"].formats) \in {0, 1}
    BY <1>4, <1>7, <1>9, <1>10, <1>11
  <2> QED BY <1>2, <2>2, <2>4, <2>5 DEF OfferInv, Sides
<1>14. RelayInv' /\ PortInv' BY <1>2, <1>3 DEF RelayInv, PortInv, VideoStaysDecodable, ToSet
<1>15. \A t \in Sides : DialogInv(t)' /\ VersionInv(t)' /\ AgreeInv(t)'
  <2>1. \A t \in Sides : Silent(t)' /\ peer'[t].cseq \in Nat
    BY <1>2, <1>3, <1>9, <1>10, <1>11 DEF Silent, Sides
  <2> QED BY <1>2, <2>1, SilentAfter
<1> QED BY <1>12, <1>13, <1>14, <1>15 DEF AllInv

\* The softphone calls.
LEMMA OriginatedStep ==
    ASSUME AllInv, Originated
    PROVE  AllInv'
<1> DEFINE formats == Shown(setup)
           dir == IF setup.camera THEN Sendrecv ELSE {"recv"}
           video == IF Missing(formats) THEN <<>> ELSE <<Section("video", "AVP", formats, dir, 0)>>
           offer == OwnOffer(setup, video)
           r == Established(NoInvite, formats, offer)
<1>1. /\ stage = "invite" /\ setup.owner = "browser" /\ stage' = "offered"
      /\ leg' = [leg EXCEPT !["right"] = r]
      /\ setup' = setup /\ peer' = peer /\ resp' = resp /\ late' = late /\ vrelay' = vrelay /\ vport' = vport
  BY DEF Originated
<1>2. /\ HasLegs /\ OfferInv /\ vrelay = <<>> /\ setup \in Setups /\ ~vport
      /\ \A t \in Sides : Silent(t) /\ peer[t].cseq \in Nat
  BY <1>1, NothingYet
<1>3. /\ DOMAIN r = LegFields /\ r.formats = formats /\ r.answer = offer /\ r.version = 0 /\ r.cache = {}
  <2> HIDE DEF offer, formats
  <2> QED BY EstablishedIs
<1>4. IsVideo(formats) BY <1>2, RenegotiationConstants
<1> HIDE DEF r, offer, formats
<1>5. DOMAIN leg' = Sides /\ leg'["left"] = leg["left"] /\ leg'["right"] = r BY <1>1, <1>2 DEF HasLegs, Sides
<1>6. HasLegs' BY <1>1, <1>2, <1>3, <1>5 DEF HasLegs, Sides
<1>7. OfferInv'
  <2>1. StreamOffered' = video BY <1>1, <1>3, <1>5 DEF StreamOffered
  <2>2. leg'["right"].answer = OwnOffer(setup', StreamOffered') BY <1>1, <1>3, <1>5, <2>1 DEF offer
  <2>3. IsVideo(leg'["left"].formats) /\ IsVideo(leg'["right"].formats)
    BY <1>2, <1>3, <1>4, <1>5 DEF OfferInv, Sides
  <2> QED BY <1>1, <2>2, <2>3 DEF OfferInv, Sides
<1>8. RelayInv' /\ PortInv' BY <1>1, <1>2 DEF RelayInv, PortInv, VideoStaysDecodable, ToSet
<1>9. \A t \in Sides : DialogInv(t)' /\ VersionInv(t)' /\ AgreeInv(t)'
  <2>1. \A t \in Sides : Silent(t)' /\ peer'[t].cseq \in Nat
    BY <1>1, <1>2, <1>3, <1>5 DEF Silent, Sides
  <2> QED BY <1>1, <2>1, SilentAfter
<1> QED BY <1>6, <1>7, <1>8, <1>9 DEF AllInv

-----------------------------------------------------------------------------
(* The first answer, by a callee *)

\* The stream of the offer that waits for its answer.
LEMMA StreamOfferedIs ==
    ASSUME OfferInv, setup.owner \in {"relay", "browser"}
    PROVE  \E z : StreamOffered = <<>> \/ (StreamOffered = <<z>> /\ Streaming(z, leg["right"].formats))
<1> DEFINE formats == leg["right"].formats
<1>1. IsVideo(formats) BY DEF OfferInv, Sides
<1>2. CASE setup.owner = "relay"
  <2> DEFINE video == [k \in DOMAIN formats |-> Section("video", formats[k].rtp, formats, formats[k].dir, 0)]
             z == Section("video", formats[1].rtp, formats, formats[1].dir, 0)
  <2>1. StreamOffered = video BY <1>2 DEF StreamOffered
  <2>2. DOMAIN formats = 1..Len(formats) /\ Len(formats) \in {0, 1}
    BY <1>1, <1>2, SequenceShape DEF OfferInv, IsVideo
  <2>3. DOMAIN z = SectionFields /\ z.media = "video" /\ z.on /\ z.usable /\ z.formats = formats
    BY SectionDomain, SectionIs
  <2>4. video[1] = z \/ 1 \notin DOMAIN formats OBVIOUS
  <2> HIDE DEF formats, z
  <2>5. Len(formats) = 1 => formats # <<>> OBVIOUS
  <2>6. CASE Len(formats) = 0
    <3>1. DOMAIN formats = {} BY <2>2, <2>6
    <3>2. video = <<>> BY <3>1
    <3> QED BY <2>1, <3>2
  <2>7. CASE Len(formats) = 1
    <3>1. DOMAIN video = 1..1 /\ video[1] = z BY <2>2, <2>4, <2>7
    <3>2. video = <<z>>
      <4>1. video = [k \in 1..1 |-> video[k]] BY <3>1
      <4> HIDE DEF video
      <4> QED BY <3>1, <4>1
    <3>3. Streaming(z, formats) BY <1>1, <2>3, <2>5, <2>7 DEF Streaming
    <3> QED BY <2>1, <3>2, <3>3 DEF formats
  <2> QED BY <2>2, <2>6, <2>7
<1>3. CASE setup.owner = "browser"
  <2> DEFINE z == Section("video", "AVP", formats, IF setup.camera THEN Sendrecv ELSE {"recv"}, 0)
  <2>1. StreamOffered = IF formats = <<>> THEN <<>> ELSE <<z>> BY <1>3 DEF StreamOffered, Missing
  <2>2. DOMAIN z = SectionFields /\ z.media = "video" /\ z.on /\ z.usable /\ z.formats = formats
    BY SectionDomain, SectionIs
  <2>3. formats # <<>> => Streaming(z, formats) BY <1>1, <2>2 DEF Streaming
  <2> QED BY <2>1, <2>3
<1> QED BY <1>2, <1>3

\* A callee's answer that cannot be used ends the call.
LEMMA CalleeUnusableStep ==
    ASSUME AllInv, CalleeAnswers, stage' = "over", UNCHANGED <<leg, peer, vrelay>>
    PROVE  AllInv'
<1>1. HasLegs /\ \A t \in Sides : resp[t] \subseteq leg[t].cache BY DEF AllInv, DialogInv
<1>2. Later /\ leg' = leg /\ peer' = peer /\ vrelay' = vrelay /\ vport' = vport /\ resp' = resp
        /\ late' = late
  BY DEF CalleeAnswers, Later
<1>3. Domains /\ \A t \in Sides : LegSame(t) /\ PeerSame(t)
  BY <1>1, <1>2, Unmoved DEF HasLegs, Domains
<1> QED BY <1>1, <1>2, <1>3, QuietStep

\* A callee answers: both dialogs of a bridge are settled in this one step.
LEMMA CalleeAcceptedStep ==
    ASSUME AllInv, CalleeAnswers, NEW style, NEW answer, answer = PeerAnswer(leg["right"].answer, style),
           CalleeAccepted(answer)
    PROVE  AllInv'
<1> DEFINE offer == leg["right"].answer
           formats == leg["right"].formats
           inv == leg["left"].inv
<1>1. /\ stage = "offered" /\ stage' = "up" /\ setup' = setup /\ resp' = resp /\ late' = late
      /\ vport' = vport
  BY DEF CalleeAnswers, CalleeAccepted
<1>2. /\ HasLegs /\ OfferInv /\ vrelay = <<>> /\ setup \in Setups /\ setup.owner \in {"relay", "browser"}
      /\ ~vport
      /\ \A t \in Sides : Silent(t) /\ peer[t].cseq \in Nat
  <2>1. OfferInv BY DEF AllInv
  <2>2. setup.owner \in {"relay", "browser"} BY <1>1, <2>1 DEF OfferInv
  <2> QED BY <1>1, <2>2, NothingYet
<1>3. PICK dialog \in ToSet(Dialog(answer, offer, formats)) :
        LET source == SourceVideo(inv, dialog)
            callee == PeerKnows(answer, offer, FALSE)
        IN  IF setup.owner = "browser"
               THEN /\ leg' = [leg EXCEPT !["right"].inv = dialog]
                    /\ peer' = [peer EXCEPT !["right"] = callee]
                    /\ UNCHANGED vrelay
               ELSE /\ leg' = [leg EXCEPT !["left"].answer = CallerAnswer(inv, dialog),
                         !["right"].inv = dialog]
                    /\ peer' = [s \in Sides |-> IF s = "right" THEN callee
                                                ELSE PeerKnows(setup.first, CallerAnswer(inv, dialog), TRUE)]
                    /\ vrelay' = [k \in DOMAIN source |->
                                    [left |-> [video |-> source[k], held |-> inv.vheld],
                                     right |-> VideoPeer(dialog)]]
  BY DEF CalleeAccepted
<1>4. PICK z : StreamOffered = <<>> \/ (StreamOffered = <<z>> /\ Streaming(z, formats))
  BY <1>2, StreamOfferedIs
<1>5. offer = OwnOffer(setup, StreamOffered) BY <1>1, <1>2 DEF OfferInv
<1>6. /\ AudioReadAlike(answer, offer, FALSE, dialog.audio)
      /\ dialog.video # <<>> =>
           /\ dialog.video = <<dialog.video[1]>> /\ DOMAIN dialog.video[1].send = VideoFields
           /\ VideoReadAlike(answer, offer, FALSE, dialog.video[1])
  <2>1. PICK video : video = StreamOffered OBVIOUS
  <2>2. video = <<>> \/ (video = <<z>> /\ Streaming(z, formats)) BY <1>4, <2>1
  <2>3. offer = OwnOffer(setup, video) /\ answer = PeerAnswer(offer, style) BY <1>5, <2>1
  <2>4. dialog \in ToSet(Dialog(answer, offer, formats)) BY <1>3
  <2> HIDE DEF offer, formats
  <2>5. setup \in Setups BY <1>2
  <2>6. Understood(answer, offer, dialog) BY <2>2, <2>3, <2>4, <2>5, DialogRight
  <2> QED BY <2>6 DEF Understood
<1> DEFINE p == PeerKnows(answer, offer, FALSE)
<1>7. /\ DOMAIN p = PeerFields /\ p.mine = answer /\ p.theirs = offer /\ p.asked = FALSE
      /\ p.seen = {<<0, offer>>}
      /\ p.out = <<>> /\ p.cseq = 0
  BY DEF PeerKnows, NoPeer, PeerFields
<1> HIDE DEF p, inv
<1>8. PICK source : source = SourceVideo(inv, dialog) OBVIOUS
<1>9. CASE setup.owner = "browser"
  <2>1. leg' = [leg EXCEPT !["right"].inv = dialog] /\ peer' = [peer EXCEPT !["right"] = p]
          /\ vrelay' = vrelay
    BY <1>3, <1>9 DEF p
  <2>2. /\ DOMAIN leg' = Sides /\ leg'["left"] = leg["left"] /\ DOMAIN leg'["right"] = LegFields
        /\ leg'["right"].inv = dialog /\ leg'["right"].formats = formats /\ leg'["right"].answer = offer
        /\ leg'["right"].version = leg["right"].version /\ leg'["right"].cache = leg["right"].cache
        /\ DOMAIN peer' = Sides /\ peer'["left"] = peer["left"] /\ peer'["right"] = p
    BY <1>2, <2>1 DEF HasLegs, Sides, LegFields
  <2>3. HasLegs' BY <1>1, <1>2, <1>7, <2>2 DEF HasLegs, Sides
  <2>4. OfferInv' BY <1>1, <1>2, <1>9, <2>2 DEF OfferInv, Sides
  <2>5. RelayInv' /\ PortInv' BY <1>1, <1>2, <2>1 DEF RelayInv, PortInv, VideoStaysDecodable, ToSet
  <2>6. "left" \notin Live(setup'.owner) /\ "right" \in Live(setup'.owner) BY <1>1, <1>9 DEF Live
  <2>7. DialogInv("left")' /\ VersionInv("left")' /\ AgreeInv("left")'
    <3>1. Silent("left")' /\ peer'["left"].cseq \in Nat BY <1>1, <1>2, <2>2 DEF Silent, Sides
    <3> QED BY <2>6, <3>1, SilentAfter DEF Sides
  <2>8. DialogInv("right")' /\ VersionInv("right")' /\ AgreeInv("right")'
    <3>1. Carried("right")' = dialog.video BY <1>1, <1>9, <2>2 DEF Carried
    <3>2. \A v \in ToSet(dialog.video) : VideoReadAlike(answer, offer, FALSE, v)
      <4>1. CASE dialog.video = <<>> BY <4>1 DEF ToSet
      <4>2. CASE dialog.video # <<>>
        <5>1. ToSet(dialog.video) = {dialog.video[1]} BY <1>6, <4>2, Single
        <5> QED BY <1>6, <4>2, <5>1
      <4> QED BY <4>1, <4>2
    <3>3. Agreed("right", peer["right"].mine, peer["right"].theirs, peer["right"].asked)'
      BY <1>6, <1>7, <2>2, <3>1, <3>2 DEF Agreed
    <3>4. resp'["right"] = {} /\ late'["right"] = {} /\ leg'["right"].version = 0 /\ leg'["right"].cache = {}
      BY <1>1, <1>2, <2>2 DEF Silent, Sides
    <3>5. /\ peer'["right"].out = <<>> /\ peer'["right"].cseq = 0 /\ ~peer'["right"].asked
          /\ peer'["right"].seen = {<<0, leg'["right"].answer>>}
      BY <1>7, <2>2
    <3> QED BY <1>1, <2>6, <3>3, <3>4, <3>5, AnsweredAfter DEF Sides
  <2> QED BY <2>3, <2>4, <2>5, <2>7, <2>8 DEF AllInv, Sides
<1>10. CASE setup.owner = "relay"
  <2>1. PICK a : a = CallerAnswer(inv, dialog) OBVIOUS
  <2> DEFINE q == PeerKnows(setup.first, a, TRUE)
  <2>2. /\ leg' = [leg EXCEPT !["left"].answer = a, !["right"].inv = dialog]
        /\ peer' = [s \in Sides |-> IF s = "right" THEN p ELSE q]
        /\ vrelay' = [k \in DOMAIN source |->
                         [left |-> [video |-> source[k], held |-> inv.vheld], right |-> VideoPeer(dialog)]]
    BY <1>3, <1>8, <1>10, <2>1 DEF p
  <2>3. /\ DOMAIN q = PeerFields /\ q.mine = setup.first /\ q.theirs = a /\ q.asked = TRUE
        /\ q.seen = {<<0, a>>}
        /\ q.out = <<>> /\ q.cseq = 0
    BY DEF PeerKnows, NoPeer, PeerFields
  <2> HIDE DEF q
  <2>4. /\ DOMAIN leg' = Sides /\ DOMAIN leg'["left"] = LegFields /\ DOMAIN leg'["right"] = LegFields
        /\ leg'["right"].inv = dialog /\ leg'["right"].formats = formats /\ leg'["right"].answer = offer
        /\ leg'["right"].version = leg["right"].version /\ leg'["right"].cache = leg["right"].cache
        /\ leg'["left"].inv = inv /\ leg'["left"].formats = leg["left"].formats /\ leg'["left"].answer = a
        /\ leg'["left"].version = leg["left"].version /\ leg'["left"].cache = leg["left"].cache
    BY <1>2, <2>2 DEF HasLegs, Sides, LegFields, inv
  <2>5. DOMAIN peer' = Sides /\ peer'["left"] = q /\ peer'["right"] = p BY <2>2 DEF Sides
  <2>6. HasLegs' BY <1>1, <1>2, <1>7, <2>3, <2>4, <2>5 DEF HasLegs, Sides
  <2>7. OfferInv' BY <1>1, <1>2, <1>10, <2>4 DEF OfferInv, Sides
  <2>8. IsDescription(setup.first) /\ IsVideo(setup.video) BY <1>2, RenegotiationConstants
  <2>9. Invited(inv, setup.first)
    <3>1. inv \in ToSet(Invite("left", setup.first, setup.video)) BY <1>1, <1>2, <1>10 DEF OfferInv, inv
    <3> QED BY <1>2, <2>8, <3>1, InviteIs
  <2>10. /\ Right(setup.first, a, inv.audio, source)
         /\ source # <<>> =>
                    /\ source = <<source[1]>> /\ inv.video # <<>> /\ dialog.video # <<>>
                    /\ PassthroughCompatible(source[1].recv, dialog.video[1].send)
                    /\ PassthroughCompatible(dialog.video[1].recv, source[1].send)
    BY <1>6, <1>8, <2>1, <2>8, <2>9, CallerAnswerRight
  <2> DEFINE w == [left |-> [video |-> source[1], held |-> inv.vheld], right |-> VideoPeer(dialog)]
  <2>11. /\ source = <<>> => vrelay' = <<>>
         /\ source # <<>> => vrelay' = <<w>>
    <3>1. CASE source = <<>> BY <3>1, <2>2
    <3>2. CASE source # <<>>
      <4>1. source = <<source[1]>> BY <2>10, <3>2
      <4>2. DOMAIN source = {1} BY <4>1, Single
      <4>3. vrelay' = [k \in {1} |-> w] BY <2>2, <4>2
      <4>4. {1} = 1..1 OBVIOUS
      <4> HIDE DEF w
      <4>5. vrelay' = [k \in 1..1 |-> w] BY <4>3, <4>4
      <4> QED BY <4>5, <3>2
    <3> QED BY <3>1, <3>2
  <2>12. /\ DOMAIN w = Sides /\ w["left"].video = source[1] /\ w["left"].held = inv.vheld
         /\ w["right"] = VideoPeer(dialog) /\ w.right = VideoPeer(dialog)
    BY DEF Sides
  <2> HIDE DEF w
  <2>13. w["right"].video = dialog.video[1] BY <2>12 DEF VideoPeer
  <2>14. RelayInv'
    <3>1. CASE source = <<>> BY <2>11, <3>1 DEF RelayInv, VideoStaysDecodable, ToSet
    <3>2. CASE source # <<>>
      <4>1. vrelay' = <<w>> /\ vrelay'[1] = w /\ ToSet(vrelay') = {w} BY <2>11, <3>2, Single
      <4>2. VideoStaysDecodable' BY <2>10, <2>12, <2>13, <3>2, <4>1 DEF VideoStaysDecodable, Sides
      <4>3. leg'["right"].inv = dialog BY <2>4
      <4>4. VideoPeer(leg["right"].inv)' = VideoPeer(dialog) BY <4>3 DEF VideoPeer
      <4>5. leg'["right"].inv.video # <<>> BY <4>3, <2>10, <3>2
      <4> QED BY <1>1, <1>10, <2>12, <4>1, <4>2, <4>4, <4>5 DEF RelayInv
    <3> QED BY <3>1, <3>2
  <2>15. PortInv' BY <1>1, <1>2 DEF PortInv
  <2>16. "left" \in Live(setup'.owner) /\ "right" \in Live(setup'.owner) BY <1>1, <1>10 DEF Live, Sides
  <2>17. /\ source = <<>> => ToSet(Carried("left")') = {} /\ ToSet(Carried("right")') = {}
         /\ source # <<>> => ToSet(Carried("left")') = {source[1]}
              /\ ToSet(Carried("right")') = {dialog.video[1]}
    <3>1. \A s \in Sides : Carried(s)' = [k \in DOMAIN vrelay' |-> vrelay'[k][s].video]
      BY <1>1, <1>10 DEF Carried
    <3>2. CASE source = <<>>
      <4>1. DOMAIN vrelay' = {} BY <2>11, <3>2
      <4> QED BY <3>1, <3>2, <4>1 DEF ToSet, Sides
    <3>3. CASE source # <<>>
      <4>1. DOMAIN vrelay' = {1} /\ vrelay'[1] = w BY <2>11, <3>3, Single
      <4> QED BY <3>1, <3>3, <4>1, <2>12, <2>13 DEF ToSet, Sides
    <3> QED BY <3>2, <3>3
  <2>18. DialogInv("left")' /\ VersionInv("left")' /\ AgreeInv("left")'
    <3>1. \A v \in ToSet(Carried("left")') : VideoReadAlike(setup.first, a, TRUE, v)
      <4>1. source # <<>> => source[1] \in ToSet(source) BY <2>10, Single
      <4> QED BY <2>10, <2>17, <4>1 DEF Right
    <3>2. Agreed("left", peer["left"].mine, peer["left"].theirs, peer["left"].asked)'
      BY <2>3, <2>4, <2>5, <2>10, <3>1 DEF Agreed, Right
    <3>3. ValidAnswer(peer'["left"].mine, peer'["left"].theirs) BY <2>3, <2>5, <2>10 DEF Right
    <3>4. resp'["left"] = {} /\ late'["left"] = {} /\ leg'["left"].version = 0 /\ leg'["left"].cache = {}
      BY <1>1, <1>2, <2>4 DEF Silent, Sides
    <3>5. /\ peer'["left"].out = <<>> /\ peer'["left"].cseq = 0
          /\ peer'["left"].seen = {<<0, leg'["left"].answer>>}
      BY <2>3, <2>4, <2>5
    <3> QED BY <1>1, <2>16, <3>2, <3>3, <3>4, <3>5, AnsweredAfter DEF Sides
  <2>19. DialogInv("right")' /\ VersionInv("right")' /\ AgreeInv("right")'
    <3>1. \A v \in ToSet(Carried("right")') : VideoReadAlike(answer, offer, FALSE, v) BY <1>6, <2>10, <2>17
    <3>3. Agreed("right", peer["right"].mine, peer["right"].theirs, peer["right"].asked)'
      BY <1>6, <1>7, <2>4, <2>5, <3>1 DEF Agreed
    <3>4. resp'["right"] = {} /\ late'["right"] = {} /\ leg'["right"].version = 0 /\ leg'["right"].cache = {}
      BY <1>1, <1>2, <2>4 DEF Silent, Sides
    <3>5. /\ peer'["right"].out = <<>> /\ peer'["right"].cseq = 0 /\ ~peer'["right"].asked
          /\ peer'["right"].seen = {<<0, leg'["right"].answer>>}
      BY <1>7, <2>4, <2>5
    <3> QED BY <1>1, <2>16, <3>3, <3>4, <3>5, AnsweredAfter DEF Sides
  <2> QED BY <2>6, <2>7, <2>14, <2>15, <2>18, <2>19 DEF AllInv, Sides
<1> QED BY <1>2, <1>9, <1>10

\* Both outcomes of an answer.
LEMMA CalleeAnswersStep ==
    ASSUME AllInv, CalleeAnswers
    PROVE  AllInv'
<1>1. PICK style \in setup.answers : LET answer == PeerAnswer(leg["right"].answer, style)
                                     IN  CalleeUnusable(answer) \/ CalleeAccepted(answer)
  BY DEF CalleeAnswers
<1>2. PICK answer : answer = PeerAnswer(leg["right"].answer, style) OBVIOUS
<1>3. CASE CalleeUnusable(answer) BY <1>3, CalleeUnusableStep DEF CalleeUnusable
<1>4. CASE CalleeAccepted(answer) BY <1>2, <1>4, CalleeAcceptedStep
<1> QED BY <1>1, <1>2, <1>3, <1>4

\* Every step.
LEMMA NextStep == AllInv /\ [Next]_vars => AllInv'
<1> SUFFICES ASSUME AllInv, [Next]_vars PROVE AllInv' OBVIOUS
<1>1. CASE AnsweredLocally BY <1>1, AnsweredLocallyStep
<1>2. CASE Offered BY <1>2, OfferedStep
<1>3. CASE Originated BY <1>3, OriginatedStep
<1>4. CASE CalleeAnswers BY <1>4, CalleeAnswersStep
<1>5. ASSUME NEW s \in Sides, PeerOffers(s) PROVE AllInv' BY <1>5, PeerOffersStep
<1>6. ASSUME NEW s \in Sides, Handle(s) PROVE AllInv'
  BY <1>6, RepeatAnswerStep, RefreshSessionStep, RefuseOfferStep, AcceptOfferStep, AnswerUnsentStep DEF Handle
<1>7. ASSUME NEW s \in Sides, Receive(s) PROVE AllInv' BY <1>7, PeerReceivesStep DEF Receive
<1>8. ASSUME NEW s \in Sides, Acked(s) PROVE AllInv' BY <1>8, HearAckStep DEF Acked
<1>9. ASSUME NEW s \in Sides, RepeatFinal(s) PROVE AllInv' BY <1>9, RepeatFinalStep
<1>10. ASSUME NEW s \in Sides, AckTimeout(s) PROVE AllInv' BY <1>10, AckTimeoutStep
<1>11. ASSUME NEW s \in Sides, Lost(s) PROVE AllInv' BY <1>11, LostStep
<1>12. ASSUME NEW s \in Sides, PeerDies(s) PROVE AllInv' BY <1>12, PeerDiesStep
<1>13. CASE UNCHANGED vars
  <2>1. HasLegs /\ \A t \in Sides : resp[t] \subseteq leg[t].cache BY DEF AllInv, DialogInv
  <2>2. Later /\ leg' = leg /\ peer' = peer /\ vrelay' = vrelay /\ vport' = vport /\ resp' = resp
          /\ late' = late
    BY <1>13 DEF vars, Later
  <2>3. Domains /\ \A t \in Sides : LegSame(t) /\ PeerSame(t)
    BY <2>1, <2>2, Unmoved DEF HasLegs, Domains
  <2> QED BY <2>1, <2>2, <2>3, QuietStep
<1> QED BY <1>1, <1>2, <1>3, <1>4, <1>5, <1>6, <1>7, <1>8, <1>9, <1>10, <1>11, <1>12, <1>13 DEF Next

\* The inductive invariant of the specification.
THEOREM Invariant == Spec => []AllInv
  BY InitStep, NextStep, PTL DEF Spec

\* The invariant implies the properties.
LEMMA Consequences == AllInv => VersionsIdentify /\ VideoStaysDecodable /\ VideoPortsUsed /\ ContractsAgree
<1> SUFFICES ASSUME AllInv PROVE VersionsIdentify /\ VideoStaysDecodable /\ VideoPortsUsed /\ ContractsAgree
  OBVIOUS
<1>1. VersionsIdentify BY DEF AllInv, VersionInv, VersionsIdentify, Told
<1>2. VideoStaysDecodable BY DEF AllInv, RelayInv
<1>3. VideoPortsUsed BY DEF AllInv, PortInv, VideoPortsUsed, Missing
<1>4. AnswersAreValid BY DEF AllInv, AgreeInv, AnswersAreValid
<1>5. ASSUME NEW s \in Settled
      PROVE  Agreed(s, peer[s].mine, peer[s].theirs, peer[s].asked)
  <2>1. s \in Sides /\ s \in Live(setup.owner) /\ stage = "up" /\ peer[s].out = <<>>
    BY DEF Settled, Live, Sides
  <2>2. Heard(s) = {} BY <2>1 DEF Heard
  <2> QED BY <2>1, <2>2 DEF AllInv, AgreeInv
<1>6. AudioAgrees /\ VideoAgrees BY <1>5 DEF Agreed, AudioAgrees, VideoAgrees
<1> QED BY <1>1, <1>2, <1>3, <1>4, <1>6 DEF ContractsAgree

-----------------------------------------------------------------------------
(* Theorems *)

\* RFC 3264 agreement, whoever owns the call: once a peer has the answer to its last offer, it and
\* Home Assistant read the audio and the video of the two descriptions alike, and every answer
\* that it was given passes validate_sdp_answer_shape; offers that are refused, answers that are
\* repeated or lost and copies of old requests included.
THEOREM ContractsHold == Spec => []ContractsAgree
  BY Invariant, Consequences, PTL

\* next_dialog_description: a version of the o= line that a peer has seen names one description.
THEOREM VersionsHold == Spec => []VersionsIdentify
  BY Invariant, Consequences, PTL

\* The port of a softphone's or a preanswered call's video is held only for a stream that the
\* dialog's contract has and that was answered with a port.
THEOREM PortsHold == Spec => []VideoPortsUsed
  BY Invariant, Consequences, PTL

\* The encoded frames that a bridge passes on can be decoded by their receiver, whatever offers of
\* either side were accepted in between.
THEOREM DecodableHolds == Spec => []VideoStaysDecodable
  BY Invariant, Consequences, PTL

=============================================================================
