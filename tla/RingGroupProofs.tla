--------------------------- MODULE RingGroupProofs ---------------------------
(***************************************************************************)
(* Proofs about RingGroup for any group of phones, browsers and contacts   *)
(* that are refused, any pool of ports and any number of other calls.      *)
(***************************************************************************)
EXTENDS RingGroup, FiniteSetTheorems, TLAPS

-----------------------------------------------------------------------------
(* The inductive invariant *)

Lone(S) == \A a, b \in S : a = b

\* Where the flow is, by what there is of the winner and of its bridge.
BeforeWin == {"prepare", "reject", "prepared", "unprepare", "fork"}
Winning == {"won", "video", "bridging"}
Bridged == {"start", "unrelay", "talk", "hangup", "unbridge"}
BeforeAnswer == BeforeWin \cup Winning \cup {"start"}

\* A part of the bridge that the session, or a remover, has yet to clean up.
Custody(y) == y \in held \/ \E r \in Removers : y \in taken[r]

\* A call is in the registry as long as its session lives, or until a reload
\* that has joined the flow.
CallInv ==
    /\ known => life = "live" \/ reload = "stopped"
    /\ ~known => tomb /\ life # "live"
    /\ reload = "stopped" => Over
    /\ life = "gone" => held = {}

\* Until the flow answers it, the caller has heard nothing but a refusal; and
\* only a reload cancels the flow, which is no task of the session.
CallerInv ==
    /\ reload # "no" => caller # "ringing"
    /\ pc \in BeforeAnswer =>
        /\ caller \in {"ringing", "refused", "cancelled"}
        /\ cancelled => reload # "no"
        /\ owned = "no" /\ \A r \in Removers : "watcher" \notin taken[r]

NoBridge ==
    /\ "bridge" \notin index /\ held \cap Media = {} /\ relay = "none" /\ ~spared
    /\ \A r \in Removers : taken[r] = {} /\ removing[r] = "idle"

\* There is a winner after the fork, and a bridge after there is a winner.
PlaceInv ==
    /\ pc \in BeforeWin \cup {"handed"} => winner = Nobody
    /\ pc \in Winning \cup Bridged \cup {"unwin"} => winner # Nobody
    /\ winner = Nobody \/ pc \in Winning => NoBridge
    /\ relay = "starting" => pc = "start"
    /\ pc \in Bridged \/ spared \/ index \cap {"bridge", "relay"} # {} \/ Custody("relay") =>
         relay # "none"

\* The bridge is in the index until one remover takes all that hangs on it.
BridgeInv ==
    /\ "bridge" \in index =>
        /\ pc \in {"start", "unrelay", "talk", "abort", "cleanup"}
        /\ \A r \in Removers : taken[r] = {} /\ removing[r] = "idle"
        /\ "client" \in index \/ leg[winner] = "closed"
    /\ "client" \in index => "bridge" \in index
    /\ index \cap {"relay", "media"} \subseteq held
    /\ "watcher" \in index => pc \in {"talk", "abort", "cleanup", "unbridge", "unfork"}
    /\ \A r \in Removers : taken[r] # {} =>
           removing[r] = "cleaning" \/ (r = "flow" /\ pc = "unbridge")
    /\ removing["flow"] = "cleaning" <=> pc = "hangup"
    /\ "route" \in index => pc \in {"fork", "won", "abort", "cleanup"}
    /\ "relay" \in index \/ Custody("relay") => pc \notin BeforeAnswer

\* The flow has still to come to the winner's leg.
FlowHasLeg ==
    pc \in Winning \cup {"unwin", "abort", "cleanup"} \/ (pc = "unfork" /\ ~spared)

\* An open leg has its ports; once there is a winner, no other leg is open,
\* and somebody has still to close the winner's.
LegInv ==
    /\ winner = Nobody => \A p \in Phones :
        leg[p] \in {"none", "open", "closed"} /\ (resv[p] = "held" <=> leg[p] = "open")
    /\ winner = Nobody /\ Over => OpenLegs = {}
    /\ winner # Nobody =>
        \A p \in Phones \ {winner} : leg[p] \in {"none", "closed"} /\ resv[p] # "held"
    /\ winner # Nobody /\ leg[winner] \in {"open", "ended"} => FlowHasLeg \/ Custody("client")
    /\ winner # Nobody /\ resv[winner] = "held" => FlowHasLeg \/ relay # "none"
    /\ pc \in Winning \cup {"start"} => resv[winner] = "held"
    /\ pc \in {"prepare", "reject"} =>
        \A i \in next .. Len(Group) : Group[i] \in Phones => leg[Group[i]] = "none"

\* Somebody has still to stop a relay that runs, but the one nobody has.
RelayInv == relay = "running" => pc \in {"start", "unrelay"} \/ Custody("relay") \/ Orphan

\* The phones whose ports are not given back.
Holding == {p \in Phones : \/ resv[p] = "held" /\ ~(p = winner /\ relay = "stopped")
                           \/ p = winner /\ relay \in {"starting", "running"}}

\* The pool has the ports of this call and of others as used, no others, and
\* no ports twice.
PoolInv ==
    /\ used \subseteq foreign \cup {pair[p] : p \in Holding}
    /\ pc \in BeforeAnswer /\ relay # "stopped" =>
        /\ foreign \subseteq used
        /\ \A p \in Phones : resv[p] = "held" => pair[p] \in used \ foreign
        /\ \A p, q \in Phones : resv[p] = "held" /\ resv[q] = "held" /\ pair[p] = pair[q] => p = q

\* Endpoints in the call are claimed; the winner, or one browser, keeps its claim.
TalkInv ==
    /\ \A e \in Endpoints : holder[e] = "call" => e \in claims
    /\ pc \in {"video", "bridging", "start"} => claims \subseteq {winner}
    /\ caller = "talking" =>
        /\ pc \notin BeforeWin /\ Lone(claims)
        /\ \A p \in Phones \ {winner} : leg[p] \in {"none", "closed"}

RingInv ==
    /\ RingTypeOK
    /\ CallInv /\ CallerInv /\ PlaceInv /\ BridgeInv
    /\ LegInv /\ RelayInv /\ PoolInv /\ TalkInv

\* The session has every claim, but for those of phones that were claimed when the call
\* was over, and those of browsers that a call which is over is still preparing.
Loose == claims \ (held \cup late)

ClaimInv == Loose # {} => Loose \subseteq Browsers /\ ~Current /\ pc \in {"prepare", "reject", "prepared"}

USE DEF session, registry, endpoints, legs, media, flow, removal

-----------------------------------------------------------------------------
(* The steps by what they are about *)

Preparing ==
    \/ RejectClosed \/ StalePrepared \/ NobodyToDial \/ ForkStarts \/ UnprepareEnds
    \/ \E p \in Phones : UnprepareLeg(p)

Forking ==
    \/ \E p \in Phones : ForkClosesLeg(p) \/ ForkWins(p)
    \/ ForkFails \/ ForkReroutes \/ ForkStale
    \/ \E b \in Browsers : ForkBrowserAnswers(b)

Bridging ==
    \/ Won \/ VideoStopped \/ Bridge \/ WinnerClosed
    \/ Answer \/ StaleStart \/ StartFailed \/ RelayUndone \/ DialogOver

Cleaning ==
    \/ FlowCancelled \/ Abort \/ FlowStopsRelay \/ FlowClosesClient
    \/ UnbridgeEnds \/ UnforkEnds \/ \E p \in Phones : UnforkLeg(p)

Ending == SourceEnds \/ ServiceHangup

Around ==
    \/ ReloadStarts \/ ReloadJoined \/ PeerEnds
    \/ \E e \in Shared : EndpointMoves(e)
    \/ \E q \in Pairs : ForeignTakes(q) \/ ForeignReturns(q)

\* These are all the steps.
LEMMA StepIsOfAKind ==
  RingNext =>
    \/ Prepare \/ Preparing \/ Forking \/ Bridging \/ Cleaning \/ Cleanup
    \/ /\ ~InRun
       /\ \/ RelayStep \/ \E r \in Removers : RemoverStep(r)
          \/ BarrierStep \/ Ending \/ Around
  BY DEF RingNext, FlowStep, Surroundings, Preparing, Forking, Bridging, Cleaning, Ending, Around

-----------------------------------------------------------------------------
(* What the operators of the model do *)

\* The session gains or loses nothing but what it is asked to.
LEMMA SessionAsked ==
  ASSUME NEW S
  PROVE  /\ held \subseteq Owning(S) /\ Owning(S) \subseteq held \cup S
         /\ held \ S \subseteq Disowning(S) /\ Disowning(S) \subseteq held
         /\ Detached \subseteq index
  BY DEF Owning, Disowning, Detached

\* What finish_and_pop leaves of a call.
LEMMA CallPopped ==
  ASSUME NEW S, FinishAndPop(S)
  PROVE  /\ tomb' = TRUE /\ known' = FALSE
         /\ index' = index \ ({"bridge", "route"} \cup S)
         /\ life' \in {life, "closing"}
  BY DEF FinishAndPop

\* The group has its members at its positions, finitely many and each once.
LEMMA GroupIsList ==
  /\ Group \in [1 .. Len(Group) -> Range(Group)] /\ Len(Group) \in Nat
  /\ IsFiniteSet(Range(Group)) /\ IsFiniteSet(Endpoints)
  /\ \A e \in Endpoints : \E i \in 1 .. Len(Group) : Group[i] = e
  /\ \A i, j \in 1 .. Len(Group) : Group[i] = Group[j] => i = j
<1>1. Group \in [1 .. Len(Group) -> Range(Group)] /\ Len(Group) \in Nat
  BY RingConstants
<1>2. Group \in Surjection(1 .. Len(Group), Range(Group))
  BY <1>1 DEF Surjection, Range
<1>3. IsFiniteSet(1 .. Len(Group))
  BY <1>1, FS_Interval
<1>4. IsFiniteSet(Range(Group))
  BY <1>2, <1>3, FS_Surjection
<1>5. Endpoints \subseteq Range(Group)
  BY RingConstants DEF Endpoints
<1>6. IsFiniteSet(Endpoints)
  BY <1>4, <1>5, FS_Subset
<1>7. \A e \in Endpoints : \E i \in 1 .. Len(Group) : Group[i] = e
  BY <1>1, <1>5 DEF Range
<1>8. \A i, j \in 1 .. Len(Group) : Group[i] = Group[j] => i = j
  BY <1>1, RingConstants DEF IsInjective
<1>9. QED
  BY <1>1, <1>4, <1>6, <1>7, <1>8

\* A set that is no larger than another can be put into it one to one.
LEMMA SmallerFits ==
  ASSUME NEW S, NEW T, IsFiniteSet(S), IsFiniteSet(T), Cardinality(S) <= Cardinality(T)
  PROVE  \E f : f \in Injection(S, T)
<1> DEFINE n == Cardinality(S)
           m == Cardinality(T)
<1>1. n \in Nat /\ m \in Nat /\ n <= m
  BY FS_CardinalityType
<1>2. PICK g : g \in Bijection(1 .. n, S)
  BY FS_CardinalityType DEF ExistsBijection
<1>3. PICK h : h \in Bijection(1 .. m, T)
  BY FS_CardinalityType DEF ExistsBijection
<1> DEFINE place(x) == CHOOSE i \in 1 .. n : g[i] = x
           f == [x \in S |-> h[place(x)]]
<1>4. \A x \in S : place(x) \in 1 .. n /\ g[place(x)] = x
  BY <1>2 DEF Bijection, Surjection
<1>5. /\ h \in [1 .. m -> T]
      /\ \A i, j \in 1 .. m : h[i] = h[j] => i = j
  BY <1>3 DEF Bijection, Injection, IsInjective
<1> HIDE DEF n, m, place
<1>6. \A x \in S : place(x) \in 1 .. m
  BY <1>1, <1>4
<1>7. f \in [S -> T]
  BY <1>5, <1>6
<1>8. ASSUME NEW x \in S, NEW y \in S, f[x] = f[y]
      PROVE  x = y
  BY <1>4, <1>5, <1>6, <1>8
<1>9. f \in Injection(S, T)
  BY <1>7, <1>8 DEF Injection, IsInjective
<1>10. QED
  BY <1>9

\* The pool is right as long as nobody takes or gives back ports.
LEMMA PoolStays ==
  ASSUME PoolInv, UNCHANGED <<resv, pair, used, foreign, winner, relay>>,
         pc' \in BeforeAnswer => pc \in BeforeAnswer
  PROVE  PoolInv'
<1>1. Holding' = Holding
  BY DEF Holding
<1>2. QED
  BY <1>1 DEF PoolInv

\* The pool is right after a leg is closed: its ports, if they were still held, are free.
LEMMA PoolAfterLeg ==
  ASSUME RingTypeOK, PoolInv, NEW p \in Phones, CloseLeg(p),
         UNCHANGED <<foreign, winner, relay>>,
         pc' \in BeforeAnswer => pc \in BeforeAnswer
  PROVE  PoolInv'
<1>1. /\ pair' = pair /\ resv' = [resv EXCEPT ![p] = "over"]
      /\ used' = IF resv[p] = "held" THEN used \ {pair[p]} ELSE used
  BY DEF CloseLeg
<1>2. \A q \in Phones : resv'[q] = IF q = p THEN "over" ELSE resv[q]
  BY <1>1 DEF RingTypeOK, MediaTyped
<1>3. \A q \in Holding : q \in Holding' \/ (q = p /\ resv[p] = "held")
  BY <1>2 DEF Holding
<1>4. used' \subseteq foreign' \cup {pair'[q] : q \in Holding'}
  <2>1. used \subseteq foreign \cup {pair[q] : q \in Holding}
    BY DEF PoolInv
  <2>2. QED
    BY <1>1, <1>3, <2>1
<1>5. ASSUME pc' \in BeforeAnswer, relay' # "stopped"
      PROVE  /\ foreign' \subseteq used'
             /\ \A q \in Phones : resv'[q] = "held" => pair'[q] \in used' \ foreign'
             /\ \A q, r \in Phones :
                    resv'[q] = "held" /\ resv'[r] = "held" /\ pair'[q] = pair'[r] => q = r
  <2>1. /\ foreign \subseteq used
        /\ \A q \in Phones : resv[q] = "held" => pair[q] \in used \ foreign
        /\ \A q, r \in Phones : resv[q] = "held" /\ resv[r] = "held" /\ pair[q] = pair[r] => q = r
    BY <1>5 DEF PoolInv
  <2>2. QED
    BY <1>1, <1>2, <2>1
<1>6. QED
  BY <1>4, <1>5 DEF PoolInv

-----------------------------------------------------------------------------
(* The preparation of the members *)

\* What a run of the preparation does: mine is what it claims of the members
\* from next to c - 1, dial the phones in it, each with ports of its own.
Takes(c, dial, mine, ports) ==
    /\ c \in next .. (Len(Group) + 1)
    /\ dial \subseteq Phones /\ mine \subseteq Endpoints /\ mine \cap Phones = dial
    /\ \A e \in mine : holder[e] # "other" /\ \E i \in next .. (c - 1) : Group[i] = e
    /\ ports \in Injection(dial, Pairs \ used)
    /\ holder' = [e \in Endpoints |-> IF e \in mine THEN "call" ELSE holder[e]]
    /\ claims' = claims \cup mine /\ late' = (IF Current THEN late ELSE late \cup dial)
    /\ held' = Owning(mine)
    /\ PreparesLegs(dial, ports)
    /\ \/ Refused(c) /\ pc' = "reject" /\ next' = c + 1
       \/ pc' = "prepared" /\ next' = Len(Group) + 1

\* There are ports to choose, so that the preparation does this.
LEMMA PrepareTakes ==
  ASSUME RingTypeOK, Prepare
  PROVE  /\ pc = "prepare"
         /\ \E c, dial, mine, ports : Takes(c, dial, mine, ports)
<1> DEFINE run(c) == {Group[i] : i \in next .. (c - 1)}
           busy(c) == {e \in run(c) : holder[e] = "other"}
           ports(dial) == CHOOSE f \in Injection(dial, Pairs \ used) : TRUE
           Effect(c, dial, mine) ==
               /\ Cardinality(dial) <= Cardinality(Pairs \ used)
               /\ holder' = [e \in Endpoints |-> IF e \in mine THEN "call" ELSE holder[e]]
               /\ claims' = claims \cup mine /\ late' = (IF Current THEN late ELSE late \cup dial)
               /\ held' = Owning(mine)
               /\ PreparesLegs(dial, ports(dial))
               /\ IF Refused(c)
                  THEN pc' = "reject" /\ next' = c + 1
                  ELSE pc' = "prepared" /\ next' = Len(Group) + 1
<1>1. PICK c \in Reach : \E dial \in SUBSET ((run(c) \cap Phones) \ busy(c)) :
        Effect(c, dial, dial \cup ((run(c) \cap Browsers) \ busy(c)))
  BY DEF Prepare
<1>2. PICK dial \in SUBSET ((run(c) \cap Phones) \ busy(c)) :
        Effect(c, dial, dial \cup ((run(c) \cap Browsers) \ busy(c)))
  BY <1>1
<1> DEFINE mine == dial \cup ((run(c) \cap Browsers) \ busy(c))
<1>3. /\ mine \subseteq Endpoints /\ mine \cap Phones = dial /\ mine \subseteq run(c)
      /\ dial \subseteq Phones /\ \A e \in mine : holder[e] # "other"
  BY RingConstants DEF Endpoints
<1>4. IsFiniteSet(dial) /\ IsFiniteSet(Pairs \ used)
  <2>1. dial \subseteq Endpoints /\ Pairs \ used \subseteq Pairs
    BY DEF Endpoints
  <2>2. QED
    BY <2>1, GroupIsList, RingConstants, FS_Subset
<1>5. ports(dial) \in Injection(dial, Pairs \ used)
  <2>1. \E f : f \in Injection(dial, Pairs \ used)
    BY <1>2, <1>4, SmallerFits
  <2>2. QED
    BY <2>1
<1>6. c \in next .. (Len(Group) + 1)
  BY DEF Reach
<1>7. Effect(c, dial, mine)
  BY <1>2
<1> HIDE DEF ports, mine
<1>8. Takes(c, dial, mine, ports(dial))
  BY <1>3, <1>5, <1>6, <1>7 DEF Takes
<1>9. QED
  BY <1>8 DEF Prepare

\* A preparation keeps the types.
LEMMA PrepareTyped ==
  ASSUME RingTypeOK, Prepare
  PROVE  RingTypeOK'
<1>1. PICK c, dial, mine, ports : Takes(c, dial, mine, ports)
  BY PrepareTakes
<1>2. /\ life' = life /\ owned' = owned /\ known' = known /\ tomb' = tomb /\ index' = index
      /\ caller' = caller /\ reload' = reload /\ foreign' = foreign /\ relay' = relay
      /\ winner' = winner /\ aborting' = aborting /\ cancelled' = cancelled /\ spared' = spared
      /\ removing' = removing /\ taken' = taken
  BY DEF Prepare
<1>3. SessionTyped'
  BY <1>1, <1>2, SessionAsked DEF Takes, RingTypeOK, SessionTyped
<1>4. RegistryTyped' /\ RemovalTyped'
  BY <1>2 DEF RingTypeOK, RegistryTyped, RemovalTyped
<1>5. EndpointsTyped'
  BY <1>1 DEF Takes, RingTypeOK, EndpointsTyped
<1>6. MediaTyped'
  <2>1. ports \in [dial -> Pairs \ used]
    BY <1>1 DEF Takes, Injection
  <2>2. /\ leg' \in [Phones -> {"none", "open", "ended", "closed"}]
        /\ resv' \in [Phones -> {"none", "held", "over"}]
    BY <1>1 DEF Takes, PreparesLegs, RingTypeOK, MediaTyped
  <2>3. pair' \in [Phones -> Pairs \cup {NoPair}]
    BY <1>1, <2>1 DEF Takes, PreparesLegs, RingTypeOK, MediaTyped
  <2>4. used' \subseteq Pairs
    BY <1>1, <2>1 DEF Takes, PreparesLegs, RingTypeOK, MediaTyped
  <2>5. QED
    BY <1>2, <2>2, <2>3, <2>4 DEF RingTypeOK, MediaTyped
<1>7. FlowTyped'
  <2>1. pc' \in Places
    BY <1>1 DEF Takes, Places
  <2>2. refused' \in BOOLEAN
    BY DEF Prepare, RingTypeOK, FlowTyped
  <2>3. QED
    BY <1>2, <2>1, <2>2 DEF RingTypeOK, FlowTyped
<1>8. next' \in 1 .. (Len(Group) + 1)
  BY <1>1, GroupIsList DEF Takes, Refused, RingTypeOK
<1>9. QED
  BY <1>3, <1>4, <1>5, <1>6, <1>7, <1>8 DEF RingTypeOK

\* A preparation keeps the invariant: the phones it dials had no leg yet, and
\* their ports were free.
LEMMA PrepareKeeps ==
  ASSUME RingInv, Prepare
  PROVE  RingInv'
<1> USE DEF RingInv
<1>1. PICK c, dial, mine, ports : Takes(c, dial, mine, ports)
  BY PrepareTakes
<1>2. pc = "prepare" /\ pc' \in {"reject", "prepared"} /\ winner = Nobody /\ NoBridge
  BY <1>1, PrepareTakes DEF Takes, PlaceInv, BeforeWin
<1>3. /\ life' = life /\ owned' = owned /\ known' = known /\ tomb' = tomb /\ index' = index
      /\ caller' = caller /\ reload' = reload /\ foreign' = foreign /\ relay' = relay
      /\ winner' = winner /\ cancelled' = cancelled /\ spared' = spared
      /\ removing' = removing /\ taken' = taken
  BY DEF Prepare
<1>4. /\ held \subseteq held' /\ held' \subseteq held \cup Endpoints
      /\ life = "gone" => held' = held
  BY <1>1, SessionAsked DEF Takes, Owning
<1>5. Media \cap Endpoints = {}
  BY RingConstants DEF Media, Endpoints
<1>6. NoBridge'
  BY <1>2, <1>3, <1>4, <1>5 DEF NoBridge
<1>7. CallInv' /\ CallerInv'
  BY <1>2, <1>3, <1>4 DEF CallInv, CallerInv, Over, BeforeAnswer, BeforeWin, Winning
<1>8. PlaceInv'
  BY <1>2, <1>3, <1>6 DEF PlaceInv, NoBridge, Custody, Media, BeforeWin, Winning, Bridged
<1>9. BridgeInv'
  BY <1>2, <1>3, <1>4, <1>6 DEF BridgeInv, NoBridge, Custody, Media
<1>10. \A p \in dial : leg[p] = "none" /\ resv[p] # "held"
  <2>1. ASSUME NEW p \in dial PROVE leg[p] = "none"
    <3>1. PICK i \in next .. (c - 1) : Group[i] = p
      BY <1>1, <2>1 DEF Takes
    <3>2. i \in next .. Len(Group) /\ p \in Phones
      BY <1>1, <3>1, GroupIsList DEF Takes, RingTypeOK
    <3>3. QED
      BY <1>2, <3>1, <3>2 DEF LegInv
  <2>2. QED
    BY <1>1, <1>2, <2>1 DEF Takes, LegInv
<1>11. dial \subseteq Phones /\ \A p \in Phones :
         /\ leg'[p] = IF p \in dial THEN "open" ELSE leg[p]
         /\ resv'[p] = IF p \in dial THEN "held" ELSE resv[p]
         /\ pair'[p] = IF p \in dial THEN ports[p] ELSE pair[p]
  BY <1>1 DEF Takes, PreparesLegs
<1>12. LegInv'
  <2>1. \A p \in Phones :
          leg'[p] \in {"none", "open", "closed"} /\ (resv'[p] = "held" <=> leg'[p] = "open")
    BY <1>2, <1>11 DEF LegInv
  <2>2. ASSUME pc' = "reject", NEW i \in next' .. Len(Group), Group[i] \in Phones
        PROVE  leg'[Group[i]] = "none"
    <3>1. /\ c \in Nat /\ next \in Nat /\ next <= c /\ i > c
          /\ i \in next .. Len(Group) /\ i \in 1 .. Len(Group)
      BY <1>1, <2>2, GroupIsList DEF Takes, RingTypeOK
    <3>2. Group[i] \notin dial
      <4>1. \A j \in next .. (c - 1) : j # i /\ j \in 1 .. Len(Group)
        BY <1>1, <3>1, GroupIsList DEF Takes, RingTypeOK
      <4>2. \A j \in next .. (c - 1) : Group[j] # Group[i]
        BY <3>1, <4>1, GroupIsList
      <4>3. QED
        BY <1>1, <4>2 DEF Takes
    <3>3. QED
      BY <1>2, <1>11, <2>2, <3>1, <3>2 DEF LegInv
  <2>3. QED
    BY <1>2, <1>3, <2>1, <2>2 DEF LegInv, Over, Winning, OpenLegs
<1>13. RelayInv'
  BY <1>3, <1>6 DEF RelayInv, NoBridge
<1>14. PoolInv'
  <2>1. /\ ports \in [dial -> Pairs \ used]
        /\ \A p, q \in dial : ports[p] = ports[q] => p = q
    BY <1>1 DEF Takes, Injection, IsInjective
  <2>2. used' = used \cup {ports[p] : p \in dial}
    BY <1>1 DEF Takes, PreparesLegs
  <2>3. relay = "none" /\ pc \in BeforeAnswer
    BY <1>2 DEF NoBridge, BeforeAnswer, BeforeWin
  <2>4. Holding' = Holding \cup dial /\ Holding \cap dial = {}
    BY <1>2, <1>3, <1>10, <1>11, <2>3, RingConstants DEF Holding
  <2>5. used' \subseteq foreign \cup {pair'[p] : p \in Holding'}
    <3>1. \A p \in Holding : pair'[p] = pair[p]
      BY <1>11, <2>4 DEF Holding
    <3>2. \A p \in dial : pair'[p] = ports[p]
      BY <1>11
    <3>3. QED
      BY <2>2, <2>4, <3>1, <3>2 DEF PoolInv
  <2>6. foreign \subseteq used /\ \A p \in Phones : resv[p] = "held" => pair[p] \in used \ foreign
    BY <2>3 DEF PoolInv
  <2>7. \A p \in Phones : resv'[p] = "held" => pair'[p] \in used' \ foreign
    BY <1>11, <2>1, <2>2, <2>6 DEF PoolInv
  <2>8. \A p, q \in Phones : resv'[p] = "held" /\ resv'[q] = "held" /\ pair'[p] = pair'[q] => p = q
    BY <1>11, <2>1, <2>3, <2>6 DEF PoolInv
  <2>9. QED
    BY <1>3, <2>2, <2>5, <2>6, <2>7, <2>8 DEF PoolInv
<1>15. TalkInv'
  <2>1. caller # "talking"
    BY <1>2 DEF CallerInv, BeforeAnswer, BeforeWin
  <2>2. QED
    BY <1>1, <1>2, <1>3, <2>1 DEF Takes, TalkInv
<1>16. QED
  BY <1>7, <1>8, <1>9, <1>12, <1>13, <1>14, <1>15, PrepareTyped

-----------------------------------------------------------------------------
(* What every kind of step does to the invariant *)

\* The steps after the preparation keep the invariant.
LEMMA PreparingKeeps ==
  ASSUME RingInv, Preparing
  PROVE  RingInv'
<1> USE RingConstants DEF Preparing, RejectClosed, SettleBrowsers, Disowning, ReleaseClaims,
          Freed, Endpoints, StalePrepared, Current, NobodyToDial, FinishAndPop, Dialable, Refuse,
          ForkStarts, UnprepareEnds, UnprepareLeg, CloseLeg, CloseClient
<1>0. /\ RingTypeOK /\ CallInv /\ CallerInv /\ PlaceInv /\ BridgeInv
      /\ LegInv /\ RelayInv /\ PoolInv /\ TalkInv
  BY DEF RingInv
<1>1. SessionTyped'
  BY <1>0 DEF SessionTyped, RingTypeOK
<1>2. RegistryTyped'
  BY <1>0 DEF RegistryTyped, RingTypeOK
<1>3. EndpointsTyped'
  BY <1>0 DEF EndpointsTyped, RingTypeOK
<1>4. MediaTyped'
  BY <1>0 DEF MediaTyped, RingTypeOK
<1>5. FlowTyped'
  BY <1>0 DEF FlowTyped, Places, RingTypeOK
<1>6. RemovalTyped'
  BY <1>0 DEF RemovalTyped, RingTypeOK
<1>7. next' \in 1 .. (Len(Group) + 1)
  BY <1>0 DEF RingTypeOK
<1>8. CallInv'
  BY <1>0 DEF CallInv, Over
<1>9. CallerInv'
  BY <1>0 DEF CallerInv, BeforeAnswer, BeforeWin
<1>10. PlaceInv'
  BY <1>0 DEF PlaceInv, NoBridge, BeforeWin, Winning, Bridged, Custody
<1>11. BridgeInv'
  BY <1>0 DEF BridgeInv, BeforeWin, Custody, BeforeAnswer
<1>12. LegInv'
  BY <1>0 DEF LegInv, OpenLegs, PlaceInv, BeforeWin, Winning, Over, RingTypeOK, MediaTyped
<1>13. RelayInv'
  BY <1>0 DEF RelayInv, Custody, Orphan
<1>14. PoolInv'
  <2>1. CASE \E p \in Phones : UnprepareLeg(p)
    BY <1>0, <2>1, PoolAfterLeg
  <2>2. CASE RejectClosed \/ StalePrepared \/ NobodyToDial \/ ForkStarts \/ UnprepareEnds
    BY <1>0, <2>2, PoolStays DEF BeforeAnswer, BeforeWin
  <2>3. QED
    BY <2>1, <2>2
<1>15. TalkInv'
  BY <1>0 DEF TalkInv, BeforeWin
<1>16. QED
  BY <1>1, <1>2, <1>3, <1>4, <1>5, <1>6, <1>7, <1>8, <1>9, <1>10, <1>11, <1>12, <1>13,
     <1>14, <1>15 DEF RingInv, RingTypeOK

\* The steps of the fork keep the invariant.
LEMMA ForkingKeeps ==
  ASSUME RingInv, Forking
  PROVE  RingInv'
<1> USE RingConstants DEF Forking, ForkClosesLeg, CloseLeg, CloseClient, ForkWins, Current,
          AloneOpen, OpenLegs, ForkFails, Endpoints, Disowning, ReleaseClaims, Freed, FinishAndPop,
          Refuse, ForkLost, ForkReroutes, ForkStale, SettleBrowsers, ForkBrowserAnswers
<1>0. /\ RingTypeOK /\ CallInv /\ CallerInv /\ PlaceInv /\ BridgeInv
      /\ LegInv /\ RelayInv /\ PoolInv /\ TalkInv
  BY DEF RingInv
<1>1. SessionTyped'
  BY <1>0 DEF SessionTyped, RingTypeOK
<1>2. RegistryTyped'
  <2>1. known' \in BOOLEAN /\ tomb' \in BOOLEAN
    BY <1>0 DEF RegistryTyped, RingTypeOK
  <2>2. index' \subseteq {"route", "bridge", "client", "relay", "watcher", "media"}
    BY <1>0 DEF RegistryTyped, RingTypeOK
  <2>3. caller' \in {"ringing", "talking", "refused", "cancelled", "hungup", "bye"}
        /\ reload' \in {"no", "stopping", "stopped"}
    BY <1>0 DEF RegistryTyped, RingTypeOK
  <2>4. QED
    BY <2>1, <2>2, <2>3 DEF RegistryTyped
<1>3. EndpointsTyped'
  BY <1>0 DEF EndpointsTyped, RingTypeOK
<1>4. MediaTyped'
  BY <1>0 DEF MediaTyped, RingTypeOK, SessionTyped
<1>5. FlowTyped'
  BY <1>0 DEF FlowTyped, Places, RingTypeOK
<1>6. RemovalTyped'
  BY <1>0 DEF RemovalTyped, RingTypeOK
<1>7. next' \in 1 .. (Len(Group) + 1)
  BY <1>0 DEF RingTypeOK
<1>8. CallInv'
  BY <1>0 DEF CallInv, Over
<1>9. CallerInv'
  BY <1>0 DEF CallerInv, BeforeAnswer, BeforeWin, Winning
<1>10. PlaceInv'
  BY <1>0 DEF PlaceInv, NoBridge, BeforeWin, Winning, Bridged, Custody, Media
<1>11. BridgeInv'
  BY <1>0 DEF BridgeInv, BeforeWin, Custody, BeforeAnswer
<1>12. LegInv'
  BY <1>0 DEF LegInv, FlowHasLeg, PlaceInv, BeforeWin, Winning, Over, RingTypeOK, MediaTyped
<1>13. RelayInv'
  BY <1>0 DEF RelayInv, PlaceInv, NoBridge, BeforeWin
<1>14. PoolInv'
  <2>1. CASE \E p \in Phones : ForkClosesLeg(p)
    BY <1>0, <2>1, PoolAfterLeg
  <2>2. CASE \/ ForkFails \/ ForkReroutes \/ ForkStale
             \/ \E b \in Browsers : ForkBrowserAnswers(b)
    BY <1>0, <2>2, PoolStays DEF BeforeAnswer, BeforeWin
  <2>3. CASE \E p \in Phones : ForkWins(p)
    BY <1>0, <2>3 DEF PoolInv, Holding, PlaceInv, NoBridge, BeforeAnswer, BeforeWin
  <2>4. QED
    BY <2>1, <2>2, <2>3
<1>15. TalkInv'
  BY <1>0 DEF TalkInv, Lone, BeforeWin, RingTypeOK, EndpointsTyped
<1>16. QED
  BY <1>1, <1>2, <1>3, <1>4, <1>5, <1>6, <1>7, <1>8, <1>9, <1>10, <1>11, <1>12, <1>13,
     <1>14, <1>15 DEF RingInv, RingTypeOK

\* The steps from the winner to the answer, and the end of the dialog, keep the invariant.
LEMMA BridgingKeeps ==
  ASSUME RingInv, Bridging
  PROVE  RingInv'
<1> USE RingConstants DEF Bridging, Won, Endpoints, Disowning, ReleaseClaims, Freed,
          VideoStopped, Bridge, Current, Owning, WinnerClosed, CloseLeg, CloseClient, Answer, RelayReady,
          StaleStart, StartFailed, FinishAndPop, Refuse, RelayUndone, StopRelay, DialogOver, TakeBridge,
          Media, Detached
<1>0. /\ RingTypeOK /\ CallInv /\ CallerInv /\ PlaceInv /\ BridgeInv
      /\ LegInv /\ RelayInv /\ PoolInv /\ TalkInv
  BY DEF RingInv
<1>1. SessionTyped'
  BY <1>0 DEF SessionTyped, RingTypeOK
<1>2. RegistryTyped'
  BY <1>0 DEF RegistryTyped, RingTypeOK
<1>3. EndpointsTyped'
  BY <1>0 DEF EndpointsTyped, RingTypeOK
<1>4. MediaTyped'
  BY <1>0 DEF MediaTyped, RingTypeOK
<1>5. FlowTyped'
  BY <1>0 DEF FlowTyped, Places, RingTypeOK
<1>6. RemovalTyped'
  BY <1>0 DEF RemovalTyped, RingTypeOK
<1>7. next' \in 1 .. (Len(Group) + 1)
  BY <1>0 DEF RingTypeOK
<1>8. CallInv'
  BY <1>0 DEF CallInv, Over
<1>9. CallerInv'
  BY <1>0 DEF CallerInv, BeforeAnswer, BeforeWin, Winning
<1>10. PlaceInv'
  BY <1>0 DEF PlaceInv, NoBridge, BeforeWin, Winning, Bridged, Custody
<1>11. BridgeInv'
  BY <1>0 DEF PlaceInv, NoBridge, BridgeInv, BeforeWin, Winning, Custody, Removers, CallInv,
     Over, BeforeAnswer, RingTypeOK, RegistryTyped, RemovalTyped
<1>12. LegInv'
  BY <1>0 DEF LegInv, FlowHasLeg, CallInv, PlaceInv, BridgeInv, Winning, Bridged, Custody,
     Removers, Over, RingTypeOK, MediaTyped, FlowTyped, RemovalTyped
<1>13. RelayInv'
  BY <1>0 DEF RelayInv, CallInv, BridgeInv, Custody, Removers, Over, Orphan, RingTypeOK,
     RemovalTyped
<1>14. PoolInv'
  BY <1>0 DEF PoolInv, Holding, PlaceInv, NoBridge, BeforeWin, Winning, Bridged,
     BeforeAnswer, RingTypeOK, MediaTyped
<1>15. TalkInv'
  BY <1>0 DEF TalkInv, Lone, PlaceInv, LegInv, BeforeWin, Bridged, RingTypeOK,
     EndpointsTyped, MediaTyped
<1>16. QED
  BY <1>1, <1>2, <1>3, <1>4, <1>5, <1>6, <1>7, <1>8, <1>9, <1>10, <1>11, <1>12, <1>13,
     <1>14, <1>15 DEF RingInv, RingTypeOK

\* The clean-up by the flow itself keeps the invariant.
LEMMA CleaningKeeps ==
  ASSUME RingInv, Cleaning
  PROVE  RingInv'
<1> USE RingConstants DEF Cleaning, FlowCancelled, StopRelay, OpenLegs, Abort, SettleBrowsers,
          Disowning, ReleaseClaims, Freed, Endpoints, FlowStopsRelay, FlowClosesClient, CloseClient,
          UnbridgeEnds, Interrupted, UnforkEnds, FinishAndPop, Unreleased, UnforkLeg, CloseLeg
<1>0. /\ RingTypeOK /\ CallInv /\ CallerInv /\ PlaceInv /\ BridgeInv
      /\ LegInv /\ RelayInv /\ PoolInv /\ TalkInv
  BY DEF RingInv
<1>1. SessionTyped'
  BY <1>0 DEF SessionTyped, RingTypeOK
<1>2. RegistryTyped'
  <2>1. known' \in BOOLEAN /\ tomb' \in BOOLEAN
    BY <1>0 DEF RegistryTyped, RingTypeOK
  <2>2. index' \subseteq {"route", "bridge", "client", "relay", "watcher", "media"}
    BY <1>0 DEF RegistryTyped, RingTypeOK
  <2>3. caller' \in {"ringing", "talking", "refused", "cancelled", "hungup", "bye"}
        /\ reload' \in {"no", "stopping", "stopped"}
    BY <1>0 DEF RegistryTyped, RingTypeOK
  <2>4. QED
    BY <2>1, <2>2, <2>3 DEF RegistryTyped
<1>3. EndpointsTyped'
  BY <1>0 DEF EndpointsTyped, RingTypeOK
<1>4. MediaTyped'
  BY <1>0 DEF MediaTyped, RingTypeOK, SessionTyped, RegistryTyped, FlowTyped
<1>5. FlowTyped'
  BY <1>0 DEF FlowTyped, Places, RingTypeOK
<1>6. RemovalTyped'
  BY <1>0 DEF RemovalTyped, RingTypeOK
<1>7. next' \in 1 .. (Len(Group) + 1)
  BY <1>0 DEF RingTypeOK
<1>8. CallInv'
  BY <1>0 DEF CallInv, Over
<1>9. CallerInv'
  BY <1>0 DEF CallerInv, BeforeAnswer, BeforeWin, Winning
<1>10. PlaceInv'
  BY <1>0 DEF PlaceInv, NoBridge, BeforeWin, Winning, Bridged, Custody
<1>11. BridgeInv'
  BY <1>0 DEF BridgeInv, BeforeWin, Winning, BeforeAnswer, RingTypeOK, RemovalTyped
<1>12. LegInv'
  BY <1>0 DEF LegInv, FlowHasLeg, PlaceInv, Winning, Bridged, Custody, Over, RingTypeOK,
     MediaTyped, FlowTyped, RemovalTyped
<1>13. RelayInv'
  BY <1>0 DEF RelayInv, CallerInv, BeforeAnswer, Custody, Orphan, RingTypeOK, RemovalTyped
<1>14. PoolInv'
  BY <1>0 DEF PoolInv, Holding, LegInv, FlowHasLeg, BeforeWin, Winning, BeforeAnswer,
     RingTypeOK, MediaTyped
<1>15. TalkInv'
  BY <1>0 DEF TalkInv, Lone, BeforeWin, RingTypeOK, MediaTyped
<1>16. QED
  BY <1>1, <1>2, <1>3, <1>4, <1>5, <1>6, <1>7, <1>8, <1>9, <1>10, <1>11, <1>12, <1>13,
     <1>14, <1>15 DEF RingInv, RingTypeOK

\* The clean-up that takes the bridge out of the registry keeps the invariant.
LEMMA CleanupKeeps ==
  ASSUME RingInv, Cleanup
  PROVE  RingInv'
<1> USE RingConstants DEF Cleanup, Media, Disowning, Detached
<1>0. /\ RingTypeOK /\ CallInv /\ CallerInv /\ PlaceInv /\ BridgeInv
      /\ LegInv /\ RelayInv /\ PoolInv /\ TalkInv
  BY DEF RingInv
<1>1. SessionTyped'
  BY <1>0 DEF SessionTyped, RingTypeOK
<1>2. RegistryTyped'
  BY <1>0 DEF RegistryTyped, RingTypeOK
<1>3. EndpointsTyped'
  BY <1>0 DEF EndpointsTyped, RingTypeOK
<1>4. MediaTyped'
  BY <1>0 DEF MediaTyped, RingTypeOK
<1>5. FlowTyped'
  BY <1>0 DEF FlowTyped, Places, RingTypeOK
<1>6. RemovalTyped'
  BY <1>0 DEF RemovalTyped, RingTypeOK
<1>7. next' \in 1 .. (Len(Group) + 1)
  BY <1>0 DEF RingTypeOK
<1>8. CallInv'
  BY <1>0 DEF CallInv, Over
<1>9. CallerInv'
  BY <1>0 DEF CallerInv, BeforeAnswer, BeforeWin, Winning
<1>10. PlaceInv'
  <2>1. CASE "bridge" \in index
    BY <1>0, <2>1 DEF PlaceInv, NoBridge, BeforeWin, Winning
  <2>2. CASE "bridge" \notin index
    BY <1>0, <2>2 DEF PlaceInv, NoBridge, BeforeWin, Winning, Bridged, Custody, RingTypeOK,
       FlowTyped
  <2>3. QED
    BY <2>1, <2>2
<1>11. BridgeInv'
  BY <1>0 DEF BridgeInv, BeforeWin, Winning, BeforeAnswer
<1>12. LegInv'
  <2>1. /\ pc = "cleanup" /\ pc' \in {"unfork", "unbridge"}
        /\ leg' = leg /\ resv' = resv /\ winner' = winner /\ relay' = relay
        /\ spared' = ("client" \in Detached)
        /\ taken' = [taken EXCEPT !["flow"] = Detached \cap Media]
    OBVIOUS
  <2>2. \A p \in Phones :
          winner = Nobody => leg[p] \in {"none", "open", "closed"} /\ (resv[p] = "held" <=> leg[p] = "open")
    BY <1>0 DEF LegInv
  <2>3. \A p \in Phones \ {winner} :
          winner # Nobody => leg[p] \in {"none", "closed"} /\ resv[p] # "held"
    BY <1>0 DEF LegInv
  <2>4. ASSUME winner # Nobody, leg[winner] \in {"open", "ended"}
        PROVE  FlowHasLeg' \/ Custody("client")'
    <3>1. CASE "client" \in Detached
      <4>1. "client" \in taken'["flow"]
        BY <1>0, <2>1, <3>1 DEF RingTypeOK, RemovalTyped, Removers
      <4>2. QED
        BY <4>1 DEF Custody, Removers
    <3>2. CASE "client" \notin Detached
      <4>1. "bridge" \notin index
        BY <1>0, <2>1, <2>4, <3>2 DEF BridgeInv
      <4>2. QED
        BY <2>1, <4>1 DEF FlowHasLeg
    <3>3. QED
      BY <3>1, <3>2
  <2>5. ASSUME winner # Nobody, resv[winner] = "held"
        PROVE  FlowHasLeg' \/ relay' # "none"
    BY <1>0, <2>1 DEF FlowHasLeg, PlaceInv
  <2>6. QED
    BY <2>1, <2>2, <2>3, <2>4, <2>5 DEF LegInv, Over, Winning
<1>13. RelayInv'
  BY <1>0 DEF RelayInv, BridgeInv, Custody, Removers, Orphan, RingTypeOK, RemovalTyped
<1>14. PoolInv'
  BY <1>0 DEF PoolInv, Holding, BeforeWin, Winning, BeforeAnswer
<1>15. TalkInv'
  BY <1>0 DEF TalkInv, BeforeWin
<1>16. QED
  BY <1>1, <1>2, <1>3, <1>4, <1>5, <1>6, <1>7, <1>8, <1>9, <1>10, <1>11, <1>12, <1>13,
     <1>14, <1>15 DEF RingInv, RingTypeOK

\* The start of the relay keeps the invariant.
LEMMA RelayStepKeeps ==
  ASSUME RingInv, RelayStep
  PROVE  RingInv'
<1> USE RingConstants DEF RelayStep, RelayStarts, RelayFails, StopRelay
<1>0. /\ RingTypeOK /\ CallInv /\ CallerInv /\ PlaceInv /\ BridgeInv
      /\ LegInv /\ RelayInv /\ PoolInv /\ TalkInv
  BY DEF RingInv
<1>1. SessionTyped'
  BY <1>0 DEF SessionTyped, RingTypeOK
<1>2. RegistryTyped'
  BY <1>0 DEF RegistryTyped, RingTypeOK
<1>3. EndpointsTyped'
  BY <1>0 DEF EndpointsTyped, RingTypeOK
<1>4. MediaTyped'
  BY <1>0 DEF MediaTyped, RingTypeOK
<1>5. FlowTyped'
  BY <1>0 DEF FlowTyped, RingTypeOK
<1>6. RemovalTyped'
  BY <1>0 DEF RemovalTyped, RingTypeOK
<1>7. next' \in 1 .. (Len(Group) + 1)
  BY <1>0 DEF RingTypeOK
<1>8. CallInv'
  BY <1>0 DEF CallInv, Over
<1>9. CallerInv'
  BY <1>0 DEF CallerInv
<1>10. PlaceInv'
  BY <1>0 DEF PlaceInv, Winning, Bridged
<1>11. BridgeInv'
  BY <1>0 DEF BridgeInv, Custody
<1>12. LegInv'
  BY <1>0 DEF LegInv, FlowHasLeg, PlaceInv, Custody, Over
<1>13. RelayInv'
  BY <1>0 DEF RelayInv, PlaceInv
<1>14. PoolInv'
  <2>1. winner # Nobody /\ winner \in Phones
    BY <1>0 DEF PlaceInv, Bridged, RingTypeOK, FlowTyped
  <2>2. CASE RelayStarts
    <3>1. pair' = pair /\ resv' = resv /\ used' = used /\ foreign' = foreign /\ pc' = pc
          /\ winner' = winner /\ relay = "starting" /\ relay' = "running"
      BY <2>2
    <3>2. Holding' = Holding
      BY <3>1 DEF Holding
    <3>3. QED
      BY <1>0, <3>1, <3>2 DEF PoolInv
  <2>3. CASE RelayFails
    <3>1. /\ pair' = pair /\ resv' = resv /\ winner' = winner /\ foreign' = foreign
          /\ relay' = "stopped" /\ relay = "starting" /\ used' = used \ {pair[winner]}
      BY <2>3
    <3>2. Holding = {winner}
      BY <1>0, <2>1, <3>1 DEF Holding, LegInv
    <3>3. QED
      BY <1>0, <3>1, <3>2 DEF PoolInv
  <2>4. QED
    BY <2>2, <2>3
<1>15. TalkInv'
  BY <1>0 DEF TalkInv
<1>16. QED
  BY <1>1, <1>2, <1>3, <1>4, <1>5, <1>6, <1>7, <1>8, <1>9, <1>10, <1>11, <1>12, <1>13,
     <1>14, <1>15 DEF RingInv, RingTypeOK

\* Whoever removes the bridge keeps the invariant.
LEMMA RemoverStepKeeps ==
  ASSUME RingInv, NEW r \in Removers, RemoverStep(r)
  PROVE  RingInv'
<1> USE RingConstants DEF RemoverStep, RemoverCancels, CancelFlow, Over, Due, CleanupOrder,
          RemoverJoins, RemoverStopsRelay, StopRelay, RemoverClosesClient, CloseClient, RemoverEnds,
          FinishAndPop, ByeToCaller
<1>0. /\ RingTypeOK /\ CallInv /\ CallerInv /\ PlaceInv /\ BridgeInv
      /\ LegInv /\ RelayInv /\ PoolInv /\ TalkInv
  BY DEF RingInv
<1>1. SessionTyped'
  BY <1>0 DEF SessionTyped, RingTypeOK
<1>2. RegistryTyped'
  BY <1>0 DEF RegistryTyped, RingTypeOK
<1>3. EndpointsTyped'
  BY <1>0 DEF EndpointsTyped, RingTypeOK
<1>4. MediaTyped'
  BY <1>0 DEF MediaTyped, RingTypeOK
<1>5. FlowTyped'
  <2>1. pc' \in Places /\ winner' \in Phones \cup {Nobody}
    BY <1>0 DEF FlowTyped, Places, RingTypeOK
  <2>2. refused' \in BOOLEAN /\ aborting' \in BOOLEAN /\ spared' \in BOOLEAN
    BY <1>0 DEF FlowTyped, RingTypeOK
  <2>3. cancelled' \in BOOLEAN
    BY <1>0 DEF FlowTyped, RingTypeOK
  <2>4. QED
    BY <2>1, <2>2, <2>3 DEF FlowTyped
<1>6. RemovalTyped'
  BY <1>0 DEF RemovalTyped, RingTypeOK
<1>7. next' \in 1 .. (Len(Group) + 1)
  BY <1>0 DEF RingTypeOK
<1>8. CallInv'
  BY <1>0 DEF CallInv, BridgeInv
<1>9. CallerInv'
  BY <1>0 DEF CallerInv, BeforeAnswer, BeforeWin, Winning, RingTypeOK, RemovalTyped
<1>10. PlaceInv'
  BY <1>0 DEF PlaceInv, NoBridge, BridgeInv, BeforeWin, Winning, Bridged, Custody,
     RingTypeOK, RemovalTyped
<1>11. BridgeInv'
  BY <1>0 DEF BridgeInv, BeforeWin, Winning, Custody, Removers, BeforeAnswer, RingTypeOK,
     RemovalTyped
<1>12. LegInv'
  BY <1>0 DEF LegInv, FlowHasLeg, PlaceInv, NoBridge, BridgeInv, BeforeWin, Winning,
     Custody, RingTypeOK, MediaTyped, FlowTyped, RemovalTyped
<1>13. RelayInv'
  BY <1>0 DEF RelayInv, BridgeInv, Custody, Orphan, RingTypeOK, RemovalTyped
<1>14. PoolInv'
  BY <1>0 DEF PoolInv, Holding, PlaceInv, BeforeWin, Winning, BeforeAnswer, Custody,
     RingTypeOK, MediaTyped
<1>15. TalkInv'
  BY <1>0 DEF TalkInv, RingTypeOK, MediaTyped
<1>16. QED
  BY <1>1, <1>2, <1>3, <1>4, <1>5, <1>6, <1>7, <1>8, <1>9, <1>10, <1>11, <1>12, <1>13,
     <1>14, <1>15 DEF RingInv, RingTypeOK

\* The cleanup barrier keeps the invariant.
LEMMA BarrierStepKeeps ==
  ASSUME RingInv, BarrierStep
  PROVE  RingInv'
<1> USE RingConstants DEF BarrierStep, BarrierCancels, BarrierEnds, BarrierCloses, Endpoints,
          ReleaseClaims, Freed, CloseClient, StopRelay, MayClose, Media
<1>0. /\ RingTypeOK /\ CallInv /\ CallerInv /\ PlaceInv /\ BridgeInv
      /\ LegInv /\ RelayInv /\ PoolInv /\ TalkInv
  BY DEF RingInv
<1>1. SessionTyped'
  BY <1>0 DEF SessionTyped, RingTypeOK
<1>2. RegistryTyped'
  <2>1. known' \in BOOLEAN /\ tomb' \in BOOLEAN
    BY <1>0 DEF RegistryTyped, RingTypeOK
  <2>2. index' \subseteq {"route", "bridge", "client", "relay", "watcher", "media"}
    BY <1>0 DEF RegistryTyped, RingTypeOK
  <2>3. caller' \in {"ringing", "talking", "refused", "cancelled", "hungup", "bye"}
        /\ reload' \in {"no", "stopping", "stopped"}
    BY <1>0 DEF RegistryTyped, RingTypeOK
  <2>4. QED
    BY <2>1, <2>2, <2>3 DEF RegistryTyped
<1>3. EndpointsTyped'
  BY <1>0 DEF EndpointsTyped, RingTypeOK
<1>4. MediaTyped'
  BY <1>0 DEF MediaTyped, RingTypeOK
<1>5. FlowTyped'
  <2>1. pc' \in Places /\ winner' \in Phones \cup {Nobody}
    BY <1>0 DEF FlowTyped, RingTypeOK
  <2>2. refused' \in BOOLEAN /\ aborting' \in BOOLEAN /\ spared' \in BOOLEAN
    BY <1>0 DEF FlowTyped, RingTypeOK
  <2>3. cancelled' \in BOOLEAN
    BY <1>0 DEF FlowTyped, RingTypeOK
  <2>4. QED
    BY <2>1, <2>2, <2>3 DEF FlowTyped
<1>6. RemovalTyped'
  BY <1>0 DEF RemovalTyped, RingTypeOK
<1>7. next' \in 1 .. (Len(Group) + 1)
  BY <1>0 DEF RingTypeOK
<1>8. CallInv'
  BY <1>0 DEF CallInv, Over
<1>9. CallerInv'
  BY <1>0 DEF CallerInv
<1>10. PlaceInv'
  BY <1>0 DEF PlaceInv, NoBridge, Custody
<1>11. BridgeInv'
  BY <1>0 DEF PlaceInv, NoBridge, BridgeInv, Custody, RingTypeOK, SessionTyped, MediaTyped,
     FlowTyped
<1>12. LegInv'
  BY <1>0 DEF LegInv, FlowHasLeg, OpenLegs, PlaceInv, BeforeWin, Custody, Over, RingTypeOK,
     MediaTyped, FlowTyped
<1>13. RelayInv'
  BY <1>0 DEF RelayInv, Custody, Orphan
<1>14. PoolInv'
  BY <1>0 DEF PoolInv, Holding, PlaceInv, Custody, RingTypeOK, MediaTyped
<1>15. TalkInv'
  BY <1>0 DEF TalkInv, Lone, RingTypeOK, MediaTyped
<1>16. QED
  BY <1>1, <1>2, <1>3, <1>4, <1>5, <1>6, <1>7, <1>8, <1>9, <1>10, <1>11, <1>12, <1>13,
     <1>14, <1>15 DEF RingInv, RingTypeOK

\* The caller, or the hangup service, ends the call, and keeps the invariant.
LEMMA EndingKeeps ==
  ASSUME RingInv, Ending
  PROVE  RingInv'
<1> USE RingConstants DEF Ending, SourceEnds, Disowning, FinishAndPop, TakeBridge, Media,
          Detached, CallerLeaves, ServiceHangup
<1>0. /\ RingTypeOK /\ CallInv /\ CallerInv /\ PlaceInv /\ BridgeInv
      /\ LegInv /\ RelayInv /\ PoolInv /\ TalkInv
  BY DEF RingInv
<1>1. SessionTyped'
  BY <1>0 DEF SessionTyped, RingTypeOK
<1>2. RegistryTyped'
  BY <1>0 DEF RegistryTyped, RingTypeOK
<1>3. EndpointsTyped'
  BY <1>0 DEF EndpointsTyped, RingTypeOK
<1>4. MediaTyped'
  BY <1>0 DEF MediaTyped, RingTypeOK
<1>5. FlowTyped'
  BY <1>0 DEF FlowTyped, RingTypeOK
<1>6. RemovalTyped'
  BY <1>0 DEF RemovalTyped, RingTypeOK
<1>7. next' \in 1 .. (Len(Group) + 1)
  BY <1>0 DEF RingTypeOK
<1>8. CallInv'
  BY <1>0 DEF CallInv, Over
<1>9. CallerInv'
  BY <1>0 DEF CallerInv, BridgeInv, BeforeAnswer, BeforeWin, Winning, RingTypeOK,
     RemovalTyped
<1>10. PlaceInv'
  BY <1>0 DEF PlaceInv, NoBridge, Custody
<1>11. BridgeInv'
  BY <1>0 DEF BridgeInv, Custody, Removers, RingTypeOK, RemovalTyped
<1>12. LegInv'
  BY <1>0 DEF LegInv, FlowHasLeg, OpenLegs, BridgeInv, Custody, Removers, Over, RingTypeOK,
     RemovalTyped
<1>13. RelayInv'
  BY <1>0 DEF RelayInv, BridgeInv, Custody, Removers, Orphan, RingTypeOK, RemovalTyped
<1>14. PoolInv'
  BY <1>0 DEF PoolInv, Holding
<1>15. TalkInv'
  BY <1>0 DEF TalkInv
<1>16. QED
  BY <1>1, <1>2, <1>3, <1>4, <1>5, <1>6, <1>7, <1>8, <1>9, <1>10, <1>11, <1>12, <1>13,
     <1>14, <1>15 DEF RingInv, RingTypeOK

\* A reload, the callee and other calls keep the invariant.
LEMMA AroundKeeps ==
  ASSUME RingInv, Around
  PROVE  RingInv'
<1> USE RingConstants DEF Around, ReloadStarts, CancelFlow, Over, ReloadJoined, PeerEnds,
          EndpointMoves, ForeignTakes, ForeignReturns
<1>0. /\ RingTypeOK /\ CallInv /\ CallerInv /\ PlaceInv /\ BridgeInv
      /\ LegInv /\ RelayInv /\ PoolInv /\ TalkInv
  BY DEF RingInv
<1>1. SessionTyped'
  BY <1>0 DEF SessionTyped, RingTypeOK
<1>2. RegistryTyped'
  BY <1>0 DEF RegistryTyped, RingTypeOK
<1>3. EndpointsTyped'
  BY <1>0 DEF EndpointsTyped, RingTypeOK
<1>4. MediaTyped'
  BY <1>0 DEF MediaTyped, RingTypeOK, RegistryTyped
<1>5. FlowTyped'
  <2>1. pc' \in Places /\ winner' \in Phones \cup {Nobody}
    BY <1>0 DEF FlowTyped, RingTypeOK
  <2>2. refused' \in BOOLEAN /\ aborting' \in BOOLEAN /\ spared' \in BOOLEAN
    BY <1>0 DEF FlowTyped, RingTypeOK
  <2>3. cancelled' \in BOOLEAN
    BY <1>0 DEF FlowTyped, RingTypeOK
  <2>4. QED
    BY <2>1, <2>2, <2>3 DEF FlowTyped
<1>6. RemovalTyped'
  BY <1>0 DEF RemovalTyped, RingTypeOK
<1>7. next' \in 1 .. (Len(Group) + 1)
  BY <1>0 DEF RingTypeOK
<1>8. CallInv'
  BY <1>0 DEF CallInv
<1>9. CallerInv'
  BY <1>0 DEF CallerInv
<1>10. PlaceInv'
  BY <1>0 DEF PlaceInv, NoBridge, Custody
<1>11. BridgeInv'
  BY <1>0 DEF BridgeInv, Custody
<1>12. LegInv'
  BY <1>0 DEF LegInv, FlowHasLeg, OpenLegs, Custody, RingTypeOK, MediaTyped
<1>13. RelayInv'
  BY <1>0 DEF RelayInv, Custody, Orphan
<1>14. PoolInv'
  BY <1>0 DEF PoolInv, Holding
<1>15. TalkInv'
  BY <1>0 DEF TalkInv, RingTypeOK, EndpointsTyped, MediaTyped
<1>16. QED
  BY <1>1, <1>2, <1>3, <1>4, <1>5, <1>6, <1>7, <1>8, <1>9, <1>10, <1>11, <1>12, <1>13,
     <1>14, <1>15 DEF RingInv, RingTypeOK

-----------------------------------------------------------------------------
(* The invariant *)

\* The initial states satisfy the invariant.
LEMMA InitRing == RingInit => RingInv
<1> SUFFICES ASSUME RingInit PROVE RingInv
  OBVIOUS
<1> USE DEF RingInit
<1>1. SessionTyped /\ RegistryTyped /\ RemovalTyped
  BY DEF SessionTyped, RegistryTyped, RemovalTyped
<1>2. EndpointsTyped /\ MediaTyped
  BY DEF EndpointsTyped, MediaTyped
<1>3. FlowTyped
  BY DEF FlowTyped, Places
<1>4. next \in 1 .. (Len(Group) + 1)
  BY GroupIsList
<1>5. CallInv /\ CallerInv /\ PlaceInv /\ BridgeInv
  BY RingConstants DEF CallInv, CallerInv, PlaceInv, NoBridge, BridgeInv, Custody, Removers,
     Winning, Bridged
<1>6. LegInv
  BY GroupIsList DEF LegInv, Winning, OpenLegs
<1>7. RelayInv /\ PoolInv
  BY DEF RelayInv, PoolInv
<1>8. TalkInv
  BY DEF TalkInv
<1>9. QED
  BY <1>1, <1>2, <1>3, <1>4, <1>5, <1>6, <1>7, <1>8 DEF RingInv, RingTypeOK

\* A step that changes nothing keeps the invariant.
LEMMA StutterKeeps == RingInv /\ UNCHANGED ringVars => RingInv'
<1> SUFFICES ASSUME RingInv, UNCHANGED ringVars PROVE RingInv'
  OBVIOUS
<1> USE DEF ringVars, RingInv, RingTypeOK
<1>1. RingTypeOK'
  BY DEF SessionTyped, RegistryTyped, EndpointsTyped, MediaTyped, FlowTyped, RemovalTyped
<1>2. CallInv' /\ CallerInv' /\ PlaceInv' /\ BridgeInv'
  BY DEF CallInv, CallerInv, PlaceInv, NoBridge, BridgeInv, Custody, Over
<1>3. LegInv' /\ RelayInv' /\ TalkInv'
  BY DEF LegInv, FlowHasLeg, RelayInv, TalkInv, Orphan, Custody, Over, OpenLegs
<1>4. PoolInv'
  BY DEF PoolInv, Holding
<1>5. QED
  BY <1>1, <1>2, <1>3, <1>4

\* Every step keeps the invariant.
LEMMA StepKeeps == RingInv /\ [RingNext]_ringVars => RingInv'
  BY StutterKeeps, StepIsOfAKind, PrepareKeeps, PreparingKeeps, ForkingKeeps, BridgingKeeps,
     CleaningKeeps, CleanupKeeps, RelayStepKeeps, RemoverStepKeeps, BarrierStepKeeps,
     EndingKeeps, AroundKeeps

\* Whatever the group, the pool and the other calls, and whenever the caller, a
\* hangup, the barrier or a reload comes in between: the invariant holds, with the
\* types (_run_ring_group_call).
THEOREM RingInvariant == RingSpec => []RingInv
<1>1. RingInit => RingInv
  BY InitRing
<1>2. RingInv /\ [RingNext]_ringVars => RingInv'
  BY StepKeeps
<1>3. QED
  BY <1>1, <1>2, PTL DEF RingSpec

-----------------------------------------------------------------------------
(* The caller's answer *)

\* A step that answers the caller is the flow's, with the relay running on the
\* winner's ports, or the browser's, with its media.
LEMMA AnswerStep ==
  ASSUME RingInv, RingNext, caller # "talking", caller' = "talking"
  PROVE  /\ Current
         /\ \/ relay = "running" /\ pair[winner] \in used \ foreign
            \/ "media" \in index'
<1>1. Answer \/ \E b \in Browsers : ForkBrowserAnswers(b)
  <2>1. ~Prepare /\ ~Cleanup
    BY DEF Prepare, Cleanup
  <2>2. ~Preparing /\ ~Cleaning
    BY DEF Preparing, RejectClosed, StalePrepared, NobodyToDial, Refuse, ForkStarts,
       UnprepareEnds, UnprepareLeg, Cleaning, FlowCancelled, Abort, FlowStopsRelay,
       FlowClosesClient, UnbridgeEnds, UnforkEnds, UnforkLeg
  <2>3. Forking => \E b \in Browsers : ForkBrowserAnswers(b)
    BY DEF Forking, ForkClosesLeg, ForkWins, ForkFails, Refuse, ForkReroutes, ForkStale
  <2>4. Bridging => Answer
    BY DEF Bridging, Won, VideoStopped, Bridge, WinnerClosed, StaleStart, StartFailed,
       Refuse, RelayUndone, DialogOver
  <2>5. ~RelayStep /\ ~BarrierStep /\ \A r \in Removers : ~RemoverStep(r)
    BY DEF RelayStep, RelayStarts, RelayFails, BarrierStep, BarrierCancels, BarrierEnds,
       BarrierCloses, RemoverStep, RemoverCancels, RemoverJoins, RemoverStopsRelay,
       RemoverClosesClient, RemoverEnds, ByeToCaller
  <2>6. ~Ending /\ ~Around
    BY DEF Ending, SourceEnds, CallerLeaves, ServiceHangup, Around, ReloadStarts,
       ReloadJoined, PeerEnds, EndpointMoves, ForeignTakes, ForeignReturns
  <2>7. QED
    BY StepIsOfAKind, <2>1, <2>2, <2>3, <2>4, <2>5, <2>6
<1>2. CASE Answer
  <2>1. pc = "start" /\ relay = "running" /\ Current
    BY <1>2 DEF Answer, RelayReady
  <2>2. winner \in Phones /\ resv[winner] = "held"
    BY <2>1 DEF RingInv, RingTypeOK, FlowTyped, PlaceInv, Bridged, LegInv
  <2>3. pair[winner] \in used \ foreign
    BY <2>1, <2>2 DEF RingInv, PoolInv, BeforeAnswer
  <2>4. QED
    BY <2>1, <2>3
<1>3. CASE \E b \in Browsers : ForkBrowserAnswers(b)
  BY <1>3 DEF ForkBrowserAnswers
<1>4. QED
  BY <1>1, <1>2, <1>3

\* The caller hears 200 OK only for a call that nobody terminated, over a relay
\* that runs on ports which are no other call's, or from a browser with media.
THEOREM AnswersAreBridged == RingSpec => AnswerIsBridged
<1>1. RingInv /\ [RingNext]_ringVars =>
        [caller # "talking" /\ caller' = "talking" =>
            /\ Current
            /\ \/ relay = "running" /\ pair[winner] \in used \ foreign
               \/ "media" \in index']_ringVars
  BY AnswerStep
<1>2. QED
  BY <1>1, RingInvariant, PTL DEF RingSpec, AnswerIsBridged

-----------------------------------------------------------------------------
(* The claims, and what is left of a call *)

\* The session, or the flow, has every claim that was made while the call was current.
LEMMA ClaimsKept ==
  ASSUME RingInv, ClaimInv, RingNext
  PROVE  ClaimInv'
<1>0. /\ Endpoints \cap (Media \cup {"media"}) = {} /\ claims \subseteq Endpoints
      /\ Browsers \cap Phones = {} /\ Endpoints = Phones \cup Browsers
      /\ CallInv
  BY RingConstants DEF Endpoints, Media, RingInv, RingTypeOK, EndpointsTyped
<1> USE DEF Loose
<1>1. CASE Prepare
  <2>1. PICK c, dial, mine, ports : Takes(c, dial, mine, ports)
    BY <1>1, PrepareTakes DEF RingInv
  <2>2. known' = known /\ tomb' = tomb /\ life' = life /\ pc = "prepare"
    BY <1>1 DEF Prepare
  <2>3. /\ claims' = claims \cup mine /\ held' = Owning(mine) /\ held \subseteq held' /\ late \subseteq late'
        /\ pc' \in {"reject", "prepared"} /\ mine \subseteq Endpoints /\ mine \cap Phones = dial
    BY <2>1, SessionAsked DEF Takes
  <2>4. Current => mine \subseteq held'
    BY <1>0, <2>2, <2>3 DEF CallInv, Current, Owning, Over
  <2>5. ~Current => mine \subseteq Browsers \cup late'
    BY <1>0, <2>1, <2>3 DEF Takes
  <2>6. Loose' \subseteq Loose \cup (mine \ (held' \cup late'))
    BY <2>3
  <2>7. Current' = Current
    BY <2>2 DEF Current
  <2>8. QED
    BY <2>3, <2>4, <2>5, <2>6, <2>7 DEF ClaimInv
<1>2. CASE Preparing
  BY <1>0, <1>2 DEF Preparing, RejectClosed, SettleBrowsers, Disowning, ReleaseClaims,
     StalePrepared, Current, NobodyToDial, ForkStarts, UnprepareEnds, UnprepareLeg, ClaimInv
<1>3. CASE Forking
  BY <1>0, <1>3 DEF Forking, ForkClosesLeg, ForkWins, ForkFails, Disowning, ReleaseClaims,
     ForkReroutes, ForkStale, SettleBrowsers, ForkBrowserAnswers, ClaimInv
<1>4. CASE Bridging
  BY <1>0, <1>4 DEF Bridging, Won, Disowning, ReleaseClaims, VideoStopped, Bridge, Owning,
     WinnerClosed, Answer, StaleStart, StartFailed, RelayUndone, DialogOver, TakeBridge, Media,
     ClaimInv
<1>5. CASE Cleaning
  BY <1>0, <1>5 DEF Cleaning, FlowCancelled, Abort, SettleBrowsers, Disowning,
     ReleaseClaims, FlowStopsRelay, FlowClosesClient, UnbridgeEnds, Interrupted, UnforkEnds,
     UnforkLeg, ClaimInv
<1>6. CASE Cleanup
  BY <1>0, <1>6 DEF Cleanup, Disowning, ClaimInv
<1>7. CASE RelayStep
  BY <1>0, <1>7 DEF RelayStep, RelayStarts, RelayFails, ClaimInv, Current
<1>8. CASE ~InRun /\ \E r \in Removers : RemoverStep(r)
  <2>1. PICK r \in Removers : RemoverStep(r)
    BY <1>8
  <2>2. CASE RemoverCancels(r) \/ RemoverJoins(r) \/ RemoverStopsRelay(r) \/ RemoverClosesClient(r)
    BY <2>2 DEF RemoverCancels, RemoverJoins, RemoverStopsRelay, RemoverClosesClient,
       ClaimInv, Current
  <2>3. CASE RemoverEnds(r)
    <3>1. /\ claims' = claims /\ held' = held /\ late' = late /\ ~Current'
          /\ pc' = pc \/ (pc = "hangup" /\ pc' \in {"abort", "done"})
      BY <2>3, CallPopped DEF RemoverEnds, Current, RingInv, BridgeInv
    <3>2. QED
      BY <3>1 DEF ClaimInv
  <2>4. QED
    BY <2>1, <2>2, <2>3 DEF RemoverStep
<1>9. CASE BarrierStep
  BY <1>0, <1>9 DEF BarrierStep, BarrierCancels, BarrierEnds, BarrierCloses, ReleaseClaims,
     MayClose, ClaimInv, CallInv, Current, Over
<1>10. CASE ~InRun /\ Ending
  BY <1>0, <1>10 DEF Ending, SourceEnds, Disowning, TakeBridge, ServiceHangup, ClaimInv,
     CallInv, Current, InRun
<1>11. CASE Around
  BY <1>0, <1>11 DEF Around, ReloadStarts, ReloadJoined, PeerEnds, EndpointMoves,
     ForeignTakes, ForeignReturns, ClaimInv, Current
<1>12. QED
  BY StepIsOfAKind, <1>1, <1>2, <1>3, <1>4, <1>5, <1>6, <1>7, <1>8, <1>9, <1>10, <1>11

\* The session has what was claimed in time.
LEMMA ClaimInvariant == RingSpec => []ClaimInv
<1>1. RingInit => ClaimInv
  BY DEF RingInit, ClaimInv, Loose
<1>2. RingInv /\ ClaimInv /\ [RingNext]_ringVars => ClaimInv'
  <2>1. CASE UNCHANGED ringVars
    BY <2>1 DEF ringVars, ClaimInv, Loose, Current
  <2>2. QED
    BY <2>1, ClaimsKept
<1>3. QED
  BY <1>1, <1>2, RingInvariant, PTL DEF RingSpec

\* When everybody is through with a call, the invariant leaves nothing of it.
LEMMA SettledLeavesNothing == RingInv /\ ClaimInv => NothingLeft
<1> SUFFICES ASSUME RingInv, ClaimInv, Settled
             PROVE  /\ \A p \in Phones : leg[p] \in {"none", "closed"}
                    /\ claims \subseteq late /\ \A e \in Endpoints \ late : holder[e] # "call"
                    /\ index = {}
                    /\ relay \in {"none", "stopped"} \/ Orphan
                    /\ used \subseteq foreign \cup (IF Orphan THEN {pair[winner]} ELSE {})
  BY DEF NothingLeft
<1> USE DEF RingInv
<1>1. pc \in {"done", "handed"} /\ held = {}
  BY DEF Settled, Over, CallInv
<1>2. \A r \in Removers : taken[r] = {}
  BY <1>1 DEF Settled, BridgeInv
<1>3. \A y : ~Custody(y)
  BY <1>1, <1>2 DEF Custody
<1>4. ~FlowHasLeg
  BY <1>1 DEF FlowHasLeg, Winning
<1>5. \A p \in Phones : leg[p] \in {"none", "closed"}
  <2>1. CASE winner = Nobody
    BY <1>1, <2>1 DEF LegInv, Over, OpenLegs
  <2>2. CASE winner # Nobody
    <3>1. winner \in Phones /\ leg[winner] \in {"none", "closed"}
      BY <1>3, <1>4, <2>2 DEF LegInv, RingTypeOK, FlowTyped, MediaTyped
    <3>2. QED
      BY <2>2, <3>1 DEF LegInv
  <2>3. QED
    BY <2>1, <2>2
<1>6. claims \subseteq late /\ \A e \in Endpoints \ late : holder[e] # "call"
  BY <1>1 DEF ClaimInv, Loose, TalkInv
<1>7. index = {}
  BY <1>1 DEF BridgeInv, RingTypeOK, RegistryTyped
<1>8. relay \in {"none", "stopped"} \/ Orphan
  BY <1>1, <1>3 DEF PlaceInv, RelayInv, RingTypeOK, MediaTyped
<1>9. Holding \subseteq (IF Orphan THEN {winner} ELSE {})
  <2>1. SUFFICES ASSUME NEW p \in Holding PROVE Orphan /\ p = winner
    OBVIOUS
  <2>2. p \in Phones /\ winner # Nobody
    BY <1>5, <2>1, RingConstants DEF Holding, LegInv
  <2>3. p = winner
    BY <2>1, <2>2 DEF Holding, LegInv
  <2>4. relay \notin {"none", "stopped"}
    BY <1>4, <2>1, <2>2, <2>3 DEF Holding, LegInv
  <2>5. QED
    BY <1>8, <2>3, <2>4
<1>10. used \subseteq foreign \cup (IF Orphan THEN {pair[winner]} ELSE {})
  BY <1>9 DEF PoolInv
<1>11. QED
  BY <1>5, <1>6, <1>7, <1>8, <1>10

\* Nobody but the winner is kept while the caller talks.
LEMMA TalkIsAlone == RingInv => OnlyWinnerKept
<1> SUFFICES ASSUME RingInv, caller = "talking"
             PROVE  /\ Cardinality(claims) <= 1
                    /\ \A p \in Phones \ {winner} : leg[p] \in {"none", "closed"}
  BY DEF OnlyWinnerKept
<1>1. Lone(claims) /\ \A p \in Phones \ {winner} : leg[p] \in {"none", "closed"}
  BY DEF RingInv, TalkInv
<1>2. claims = {} \/ \E e : claims = {e}
  BY <1>1 DEF Lone
<1>3. Cardinality(claims) <= 1
  <2>1. CASE claims = {}
    BY <2>1, FS_EmptySet
  <2>2. CASE \E e : claims = {e}
    <3>1. PICK e : claims = {e}
      BY <2>2
    <3>2. Cardinality(claims) = 1
      BY <3>1, FS_Singleton
    <3>3. QED
      BY <3>2
  <2>3. QED
    BY <1>2, <2>1, <2>2
<1>4. QED
  BY <1>1, <1>3

\* What a ring group takes for its members is given back, in every group and wherever a
\* refused contact stands in it; but for the claim of a phone that is prepared when the
\* call is over (endpoint_runtime.py, 3076) and the relay that starts as it ends.
THEOREM CustodyIsKept == RingSpec => []CustodyHolds
<1>1. RingInv /\ ClaimInv => CustodyHolds
  BY SettledLeavesNothing, TalkIsAlone DEF CustodyHolds
<1>2. QED
  BY <1>1, RingInvariant, ClaimInvariant, PTL

=============================================================================
