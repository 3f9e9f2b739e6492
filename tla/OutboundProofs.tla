-------------------------- MODULE OutboundProofs --------------------------
(***************************************************************************)
(* Proofs about what Home Assistant dials.                                  *)
(*                                                                          *)
(* DialFork, for any finite set of branches in any tiers, in any configured *)
(* order, however dials and route controls may end, among them that the     *)
(* controller implements ForkPromise.                                       *)
(*                                                                          *)
(* SipCall, the call that each branch of the fork is: for any number of     *)
(* requests under way, of BYEs and for any kinds of messages that the       *)
(* network loses, BYE excepted.                                             *)
(***************************************************************************)
EXTENDS DialFork, SipCall, FiniteSetTheorems, SequenceTheorems, WellFoundedInduction, TLAPS

-----------------------------------------------------------------------------
(* The fork: its inductive invariant *)

Stepping == pc = "closing" /\ after \in {"step timeout", "step"}
Committing == \/ pc = "closing" /\ after = "commit"
              \/ pc = "unwind" /\ verdict = "answered"

\* A branch that is about to win has answered.
WinnerKnown ==
    /\ pc = "closing" => after \in {"commit", "step timeout", "step", "failed", "cancelled", "raised"} \cup Stops
    /\ Stepping \/ pc = "ringing" => winner \in Branches
    /\ Committing \/ pc = "won" => winner \in Branches /\ task[winner] = "answered"

\* The barriers wait for every open leg but the winner's, and so the branches end
\* with no other.
LegsCovered ==
    /\ pc = "closing" /\ after = "commit" => Open \subseteq toClose \cup {winner}
    /\ pc = "closing" /\ after \in BranchEnd => Open \subseteq toClose
    /\ pc = "won" => Open \subseteq {winner}
    /\ BranchesDone /\ pc # "won" => Open = {}

\* A branch whose tier has not come is untouched, and so is its leg, which nothing closes.
Untouched ==
    \A c \in Branches :
        /\ Tier[c] > tier => task[c] = "idle"
        /\ task[c] = "idle" => leg[c] = "none"
        /\ leg[c] = "none" => c \notin toClose

\* run() goes past the branches when they have ended, and past a barrier of its own
\* when it has closed the winner.
RunKnows ==
    /\ run \in {"controls", "commit", "discard", "settled"} => BranchesDone
    /\ run \in {"wait", "join", "controls", "commit", "discard"} => controlled
    /\ run \in {"join", "controls"} => ctl \in Stops
    /\ run = "join" => \/ taskCancelled /\ ~BranchesDone
                       \/ pc = "closing" /\ after = "raised"
                       \/ pc = "raised"
    /\ run = "controls" => Open = {}
    /\ run = "discard" => pc = "won" /\ Open \subseteq toClose
    /\ result # "none" => run = "settled"

\* Before the deadline no answer of a branch is passed over: a branch the tier has
\* looked at, or that an earlier tier dialled, has not answered and no longer may.
Missed(c) == task[c] \in {"dialing", "answered"}
NoneMissed ==
    late \/
    /\ pc = "next" \/ pc = "step" \/ Stepping \/ (pc = "unwind" /\ verdict = "none") =>
         \A c \in Branches : ~Missed(c)
    /\ pc = "ringing" => \A c \in Branches : c # winner => ~Missed(c)
    /\ pc \in {"wait", "judge"} => \A c \in Branches : Tier[c] # tier \/ c \in counted => ~Missed(c)
    /\ pc = "judge" => \A c \in batch : task[c] # "dialing"
    /\ pc = "unwind" /\ verdict = "answered" =>
         \A c \in Branches : Missed(c) => c = winner \/ (FollowsIn(winner, c) /\ (c \in counted => task[c] = "answered"))

ForkInv ==
    /\ ForkTypeOK
    /\ WinnerKnown
    /\ LegsCovered
    /\ Untouched
    /\ RunKnows
    /\ NoneMissed

-----------------------------------------------------------------------------
(* The controller's choices: the next tier and the first branch *)

\* A set of numbers that is not empty has a smallest one.
LEMMA Smallest ==
  ASSUME NEW S, S \subseteq Nat, S # {}
  PROVE  \E m \in S : \A n \in S : m <= n
<1> DEFINE T == {0..n : n \in S}
           R == StrictSubsetOrdering(Nat)
<1>1. IsWellFoundedOn(R, FiniteSubsetsOf(Nat))
  BY FS_StrictSubsetOrderingWellFounded
<1>2. ASSUME NEW n \in S PROVE 0..n \in FiniteSubsetsOf(Nat)
  <2>1. IsFiniteSet(0..n)
    BY FS_Interval
  <2>2. QED
    BY <2>1 DEF FiniteSubsetsOf
<1>3. T \subseteq FiniteSubsetsOf(Nat) /\ T # {}
  BY <1>2
<1>4. \E x \in T : \A y \in T : ~ (<<y, x>> \in R)
  <2> HIDE DEF T, R
  <2>1. QED
    BY <1>1, <1>3, WFMin
<1>5. PICK m \in S : \A n \in S : ~ (<<0..n, 0..m>> \in R)
  BY <1>4
<1>6. ASSUME NEW n \in S, n < m PROVE FALSE
  <2>1. 0..n \subseteq 0..m /\ m \in 0..m /\ m \notin 0..n
    BY <1>6
  <2>3. <<0..n, 0..m>> \in R
    BY <2>1 DEF StrictSubsetOrdering
  <2>4. QED
    BY <1>5, <2>3
<1>7. QED
  BY <1>6

\* The next tier is the first of those after the current one.
LEMMA NextTierIsFirst ==
  ASSUME tier \in Nat, LaterTiers # {},
         NEW t, t = CHOOSE u \in LaterTiers : \A v \in LaterTiers : u <= v
  PROVE  /\ t \in Nat /\ t > tier
         /\ \A c \in Branches : Tier[c] > tier => Tier[c] >= t
<1>1. LaterTiers \subseteq Nat
  BY ForkConstants DEF LaterTiers
<1>2. \E u \in LaterTiers : \A v \in LaterTiers : u <= v
  BY <1>1, Smallest
<1>3. t \in LaterTiers /\ \A v \in LaterTiers : t <= v
  BY <1>2
<1>4. \A c \in Branches : Tier[c] > tier => Tier[c] \in LaterTiers
  BY DEF LaterTiers
<1>5. QED
  <2>1. t \in Nat /\ t > tier
    BY <1>1, <1>3 DEF LaterTiers
  <2>2. ASSUME NEW c \in Branches, Tier[c] > tier PROVE Tier[c] >= t
    <3>1. Tier[c] \in Nat /\ t <= Tier[c]
      BY <1>1, <1>3, <1>4, <2>2
    <3>2. QED
      BY <2>1, <3>1
  <2>3. QED
    BY <2>1, <2>2

\* The first branch of a set is one of the set, and none comes before it.
LEMMA FirstIsOneOf ==
  ASSUME NEW S, S \subseteq Branches, S # {}
  PROVE  First(S) \in S /\ \A c \in S : Rank[First(S)] <= Rank[c]
<1>1. {Rank[c] : c \in S} \subseteq Nat /\ {Rank[c] : c \in S} # {}
  BY ForkConstants
<1>2. PICK m \in {Rank[c] : c \in S} : \A n \in {Rank[c] : c \in S} : m <= n
  BY <1>1, Smallest
<1>3. \E c \in S : \A d \in S : Rank[c] <= Rank[d]
  BY <1>2
<1>4. QED
  BY <1>3 DEF First

-----------------------------------------------------------------------------
(* The invariant holds initially *)

\* A fork that has not begun satisfies the invariant.
LEMMA InitFork == ForkInit => ForkInv
<1> SUFFICES ASSUME ForkInit PROVE ForkInv
  OBVIOUS
<1>1. ForkTypeOK
  <2>1. FlagsTyped /\ RunTyped
    BY DEF ForkInit, FlagsTyped, RunTyped, Results
  <2>2. task \in [Branches -> Undialled] /\ leg \in [Branches -> {"none"}] /\ tier = 0
    BY DEF ForkInit, Undialled
  <2>3. /\ pc = "next" /\ verdict = "none" /\ winner = NoBranch /\ after = "" /\ reason = ""
        /\ counted = {} /\ batch = {} /\ failures = {} /\ toClose = {}
    BY DEF ForkInit
  <2>4. BranchesTyped
    BY <2>2, <2>3 DEF BranchesTyped
  <2>5. QED
    BY <2>1, <2>2, <2>4 DEF ForkTypeOK
<1>2. WinnerKnown /\ RunKnows
  BY DEF ForkInit, WinnerKnown, RunKnows, Committing, Stepping, Stops, BranchEnd
<1>3. LegsCovered /\ Untouched
  BY DEF ForkInit, LegsCovered, Untouched, BranchesDone, BranchEnd, Stops
<1>4. NoneMissed
  BY DEF ForkInit, NoneMissed, Missed, Stepping
<1>5. QED
  BY <1>1, <1>2, <1>3, <1>4 DEF ForkInv

\* What a parallel tier concludes from the branches it woke for.
Abandons == verdict' \in {"cancelled"} \cup Stops /\ pc' = "unwind" /\ UNCHANGED winner
TakesWinner ==
    /\ BatchWinner(batch) # {} /\ winner' = First(BatchWinner(batch))
    /\ verdict' = "answered" /\ pc' = "unwind"
FindsNone ==
    /\ BatchWinner(batch) = {} /\ UNCHANGED winner
    /\ \/ pc' = "unwind" /\ verdict' = "none" /\ (InTier(tier) \subseteq counted' \/ late)
       \/ pc' = "wait" /\ UNCHANGED verdict

\* Branches that are judged lead to a winner, to none or to the end, and count as seen.
LEMMA Judgement ==
  ASSUME ParallelJudges
  PROVE  /\ Abandons \/ TakesWinner \/ FindsNone
         /\ counted' = counted \cup batch /\ batch' = {}
         /\ UNCHANGED <<source, legs, tier, closeVars, reason, taskCancelled, outer>>
<1>1. CASE ~alive \/ OutcomesOf(batch) \cap Stops # {}
  BY <1>1 DEF ParallelJudges, Abandons, Stops
<1>2. CASE alive /\ OutcomesOf(batch) \cap Stops = {} /\ BatchWinner(batch) # {}
  BY <1>2 DEF ParallelJudges, TakesWinner
<1>3. CASE alive /\ OutcomesOf(batch) \cap Stops = {} /\ BatchWinner(batch) = {}
  BY <1>3 DEF ParallelJudges, FindsNone, StillRinging
<1>4. QED
  BY <1>1, <1>2, <1>3 DEF ParallelJudges

-----------------------------------------------------------------------------
(* Type correctness *)

\* Closing a set of legs waits for branches, and only for what is open.
LEMMA ClosingTyped ==
  ASSUME NEW S, NEW next \in {"commit", "step timeout", "step"} \cup BranchEnd, Closing(S, next)
  PROVE  pc' = "closing" /\ toClose' \subseteq Branches /\ after' = next
  BY DEF Closing, Open

\* So does the rest of a step.
LEMMA StepTyped ==
  ASSUME NEW o \in Failures \cup Stops \cup {"answered"}, failures \subseteq Failures, StepOutcome(o)
  PROVE  /\ pc' = "closing" /\ toClose' \subseteq Branches /\ failures' \subseteq Failures
         /\ after' \in {"commit", "step"} \cup BranchEnd
<1> USE DEF StepOutcome, BranchEnd
<1>1. CASE ~alive
  BY <1>1, ClosingTyped
<1>2. CASE alive /\ o \in Stops
  <2>1. Closing(Branches, o) /\ UNCHANGED failures /\ o \in BranchEnd
    BY <1>2
  <2>2. pc' = "closing" /\ toClose' \subseteq Branches /\ after' = o
    BY <2>1, ClosingTyped
  <2>3. QED
    BY <2>1, <2>2
<1>3. CASE alive /\ o = "answered"
  BY <1>3, ClosingTyped DEF Stops
<1>4. CASE alive /\ o \in Failures
  BY <1>4, ClosingTyped DEF Failures, Stops
<1>5. QED
  BY <1>1, <1>2, <1>3, <1>4

\* What the branches keep.
LEMMA BranchesStayTyped == ForkTypeOK /\ WinnerKnown /\ [ForkNext]_forkVars => BranchesTyped'
<1> SUFFICES ASSUME BranchesTyped, RunTyped, WinnerKnown, [ForkNext]_forkVars PROVE BranchesTyped'
  BY DEF ForkTypeOK
<1> USE DEF source, legs, tierVars, closeVars, outer
<1>1. CASE NextTier
  <2>1. CASE LaterTiers = {}
    BY <1>1, <2>1, ClosingTyped DEF NextTier, GiveUp, Reduced, BranchesTyped, BranchEnd, Stops, Failures, Undialled
  <2>2. ASSUME LaterTiers # {}, NEW t, t = CHOOSE u \in LaterTiers : \A v \in LaterTiers : u <= v
        PROVE  BranchesTyped'
    <3>2. DialTier(t) /\ UNCHANGED <<source, winner, taskCancelled, outer>>
      BY <1>1, <2>2 DEF NextTier
    <3>3. CASE t \in SequentialTiers
      BY <3>2, <3>3 DEF DialTier, BranchesTyped, BranchEnd, Stops, Failures, Undialled
    <3>4. CASE t \notin SequentialTiers
      BY <3>2, <3>4 DEF DialTier, EnterWait, BranchesTyped, BranchEnd, Stops, Failures, Undialled
    <3>5. QED
      BY <3>3, <3>4
  <2>3. QED
    BY <2>1, <2>2
<1>2. CASE ParallelWakes
  BY <1>2 DEF ParallelWakes, DoneIn, InTier, BranchesTyped, BranchEnd, Stops, Failures, Undialled
<1>3. CASE ParallelJudges
  <2>1. UNCHANGED <<legs, tier, closeVars, reason>> /\ batch' = {} /\ counted' \subseteq Branches
    BY <1>3, Judgement DEF BranchesTyped
  <2>2. pc' \in {"unwind", "wait"} /\ verdict' \in {verdict, "none", "answered", "cancelled"} \cup Stops
    BY <1>3, Judgement DEF Abandons, TakesWinner, FindsNone
  <2>3. failures' \subseteq Failures
    BY <1>3 DEF ParallelJudges, Failed, BranchesTyped, Failures
  <2>4. winner' \in Branches \cup {NoBranch}
    <3>1. winner' = winner \/ (BatchWinner(batch) # {} /\ winner' = First(BatchWinner(batch)))
      <4>1. Abandons \/ TakesWinner \/ FindsNone
        BY <1>3, Judgement
      <4>2. QED
        BY <4>1 DEF Abandons, TakesWinner, FindsNone
    <3>2. BatchWinner(batch) \subseteq Branches
      BY DEF BatchWinner, BranchesTyped
    <3>3. QED
      BY <3>1, <3>2, FirstIsOneOf DEF BranchesTyped
  <2>5. QED
    BY <2>1, <2>2, <2>3, <2>4 DEF BranchesTyped
<1>4. CASE TierReturns
  BY <1>4, ClosingTyped DEF TierReturns, CancelDials, BranchesTyped, BranchEnd, Stops, Failures, Undialled
<1>5. CASE NextStep
  <2> DEFINE rest == {c \in InTier(tier) : task[c] = "idle"}
  <2>1. rest # {} => First(rest) \in Branches
    BY FirstIsOneOf DEF InTier
  <2>2. UNCHANGED <<tierVars, reason>>
    BY <1>5 DEF NextStep
  <2>3. CASE ~alive
    BY <1>5, <2>2, <2>3, ClosingTyped DEF NextStep, BranchesTyped, BranchEnd
  <2>4. CASE alive /\ (rest = {} \/ late)
    BY <1>5, <2>2, <2>4 DEF NextStep, BranchesTyped
  <2>5. CASE alive /\ rest # {} /\ ~late
    <3>1. /\ pc' = "ringing" /\ winner' = First(rest) /\ UNCHANGED closeVars
          /\ task' = [task EXCEPT ![First(rest)] = "dialing"] /\ leg' = [leg EXCEPT ![First(rest)] = "calling"]
      BY <1>5, <2>5 DEF NextStep
    <3> HIDE DEF rest
    <3>2. QED
      BY <2>1, <2>2, <2>5, <3>1 DEF BranchesTyped, Undialled
  <2>6. QED
    BY <2>3, <2>4, <2>5
<1>6. CASE StepTimesOut
  BY <1>6, ClosingTyped DEF StepTimesOut, BranchesTyped, BranchEnd, Stops, Failures, Undialled
<1>7. CASE StepEnds
  <2>1. task[winner] \in Failures \cup Stops \cup {"answered"}
    <3>1. winner \in Branches /\ task[winner] \notin Undialled
      BY <1>7 DEF StepEnds, WinnerKnown
    <3>2. QED
      BY <3>1, ForkConstants DEF BranchesTyped, Failures
  <2>2. failures \subseteq Failures
    BY DEF BranchesTyped
  <2>3. StepOutcome(task[winner]) /\ UNCHANGED <<legs, tier, counted, batch, verdict, winner, reason>>
    BY <1>7 DEF StepEnds
  <2>4. QED
    BY <2>1, <2>2, <2>3, StepTyped DEF BranchesTyped
<1>8. CASE BarrierEnds
  <2>1. UNCHANGED <<legs, tier, counted, batch, verdict, winner, reason>> /\ after \in {"", "commit", "step timeout", "step"} \cup BranchEnd
    BY <1>8 DEF BarrierEnds, BranchesTyped
  <2>2. CASE after = "step timeout"
    <3>1. StepOutcome("timeout") /\ "timeout" \in Failures /\ failures \subseteq Failures
      BY <1>8, <2>2 DEF BarrierEnds, Failures, BranchesTyped
    <3>2. QED
      BY <2>1, <3>1, StepTyped DEF BranchesTyped
  <2>3. CASE after = "commit"
    BY <1>8, <2>1, <2>3, ClosingTyped DEF BarrierEnds, BranchesTyped, BranchEnd
  <2>4. CASE after \notin {"step timeout", "commit"}
    <3>1. pc' = after /\ UNCHANGED <<closeVars, failures>>
      BY <1>8, <2>4 DEF BarrierEnds
    <3>2. after \in {"step"} \cup BranchEnd
      BY <1>8, <2>1, <2>4 DEF BarrierEnds, WinnerKnown, BranchEnd
    <3>3. QED
      BY <2>1, <3>1, <3>2 DEF BranchesTyped
  <2>5. QED
    BY <2>2, <2>3, <2>4
<1>9. CASE BranchesUnwind
  BY <1>9, ClosingTyped DEF BranchesUnwind, CancelDials, BranchesTyped, BranchEnd, Stops, Failures, Undialled
<1>10. CASE RunStep \/ RunCancelled
  <2>1. UNCHANGED <<legs, pc, tierVars, after, winner, reason>> /\ toClose' \in {toClose, {winner} \cap Open}
    BY <1>10 DEF RunStep, RunWakes, BranchesJoined, BranchesReturn, RunCommits, WinnerDiscarded, ControlsClosed,
                 RunUnwinds, RunCancelled, Settle
  <2>2. QED
    BY <2>1 DEF BranchesTyped, Open
<1>11. ASSUME NEW c \in Branches, LegAnswers(c) \/ LegHangsUp(c) \/ CloseLeg(c) PROVE BranchesTyped'
  <2>1. UNCHANGED <<pc, tierVars, after, winner, reason>> /\ toClose' \in {toClose, toClose \ {c}}
    BY <1>11 DEF LegAnswers, LegHangsUp, CloseLeg
  <2>2. task' \in {task, [task EXCEPT ![c] = IF @ = "dialing" THEN "answered" ELSE @]}
    BY <1>11 DEF LegAnswers, LegHangsUp, CloseLeg
  <2>3. leg' \in {[leg EXCEPT ![c] = "answered"], [leg EXCEPT ![c] = "over"]}
    BY <1>11 DEF LegAnswers, LegHangsUp, CloseLeg
  <2>4. task' \in [Branches -> Undialled \cup DialOutcomes \cup {"answered", "timeout"}]
    BY <2>2 DEF BranchesTyped
  <2>5. leg' \in [Branches -> {"none", "calling", "answered", "over"}]
    BY <2>3 DEF BranchesTyped
  <2>6. QED
    BY <2>1, <2>4, <2>5 DEF BranchesTyped
<1>12. ASSUME NEW c \in Branches, NEW o \in DialOutcomes, LegFails(c, o) PROVE BranchesTyped'
  <2>1. UNCHANGED <<pc, tierVars, closeVars, winner, reason>>
    BY <1>12 DEF LegFails
  <2>2. /\ task' = [task EXCEPT ![c] = IF @ = "dialing" THEN o ELSE @]
        /\ leg' = [leg EXCEPT ![c] = IF o = "timeout" THEN @ ELSE "over"]
    BY <1>12 DEF LegFails
  <2>3. QED
    BY <2>1, <2>2 DEF BranchesTyped
<1>13. CASE (\E o \in ControlOutcomes : ControlEnds(o)) \/ Deadline \/ CallEnds \/ TerminationStarts \/ UNCHANGED forkVars
  <2>1. UNCHANGED <<legs, pc, tierVars, closeVars, winner, reason>>
    BY <1>13 DEF ControlEnds, Deadline, CallEnds, TerminationStarts, forkVars
  <2>2. QED
    BY <2>1 DEF BranchesTyped
<1>15. QED
  BY <1>1, <1>2, <1>3, <1>4, <1>5, <1>6, <1>7, <1>8, <1>9, <1>10, <1>11, <1>12, <1>13 DEF ForkNext, BranchStep

\* The flags and what run() keeps.
LEMMA RunStaysTyped == ForkTypeOK /\ RunKnows /\ [ForkNext]_forkVars => FlagsTyped' /\ RunTyped' /\ tier' \in Nat
<1> SUFFICES ASSUME ForkTypeOK, RunKnows, [ForkNext]_forkVars PROVE FlagsTyped' /\ RunTyped' /\ tier' \in Nat
  OBVIOUS
<1> USE DEF source, legs, tierVars, closeVars, outer, BranchesDone
<1>1. FlagsTyped /\ RunTyped /\ tier \in Nat
  BY DEF ForkTypeOK
<1>2. CASE BranchStep
  <2>1. UNCHANGED <<source, outer>> /\ taskCancelled' \in {taskCancelled, FALSE}
    BY <1>2 DEF BranchStep, NextTier, ParallelWakes, ParallelJudges, TierReturns, NextStep, StepTimesOut, StepEnds,
                BarrierEnds, BranchesUnwind
  <2>2. FlagsTyped' /\ RunTyped'
    BY <1>1, <2>1 DEF FlagsTyped, RunTyped
  <2>3. tier' \in Nat
    <3>1. CASE NextTier
      <4>1. CASE LaterTiers = {}
        BY <1>1, <3>1, <4>1 DEF NextTier, GiveUp
      <4>2. CASE LaterTiers # {}
        BY <1>1, <3>1, <4>2, NextTierIsFirst DEF NextTier, DialTier
      <4>3. QED
        BY <4>1, <4>2
    <3>2. CASE ~NextTier
      <4>1. tier' = tier
        BY <1>2, <3>2 DEF BranchStep, ParallelWakes, ParallelJudges, TierReturns, NextStep, StepTimesOut,
                          StepEnds, BarrierEnds, BranchesUnwind
      <4>2. QED
        BY <1>1, <4>1
    <3>3. QED
      BY <3>1, <3>2
  <2>4. QED
    BY <2>2, <2>3
<1>3. CASE RunStep \/ RunCancelled
  <2>1. UNCHANGED <<source, tier, controlled, ctl>> /\ taskCancelled' \in {taskCancelled, TRUE, ~BranchesDone}
    BY <1>3 DEF RunStep, RunWakes, BranchesJoined, BranchesReturn, RunCommits, WinnerDiscarded, ControlsClosed,
                RunUnwinds, RunCancelled, Settle
  <2>2. run' \in {"wait", "join", "branches", "controls", "commit", "discard", "unwinding", "settled"}
    BY <1>3 DEF RunStep, RunWakes, BranchesJoined, BranchesReturn, RunCommits, WinnerDiscarded, ControlsClosed,
                RunUnwinds, RunCancelled, Settle
  <2>3. result' \in Results
    <3>1. CASE BranchesReturn \/ RunCommits
      BY <1>1, <3>1 DEF BranchesReturn, RunCommits, Settle, Results, RunKnows, RunTyped
    <3>2. CASE WinnerDiscarded \/ ControlsClosed \/ RunUnwinds
      BY <1>1, <3>2 DEF WinnerDiscarded, ControlsClosed, RunUnwinds, Settle, Results, BranchEnd, RunKnows, RunTyped
    <3>3. CASE RunWakes \/ BranchesJoined \/ RunCancelled
      BY <1>1, <3>3 DEF RunWakes, BranchesJoined, RunCancelled, RunTyped
    <3>4. QED
      BY <1>3, <3>1, <3>2, <3>3 DEF RunStep
  <2>4. FlagsTyped' /\ RunTyped'
    BY <1>1, <2>1, <2>2, <2>3 DEF FlagsTyped, RunTyped
  <2>5. QED
    BY <1>1, <2>1, <2>4
<1>4. CASE ~(BranchStep \/ RunStep \/ RunCancelled)
  <2>1. UNCHANGED <<tier, taskCancelled, controlled, run, result>> /\ ctl' \in {ctl} \cup ControlOutcomes
    BY <1>4 DEF ForkNext, LegAnswers, LegHangsUp, CloseLeg, LegFails, ControlEnds, Deadline, CallEnds, TerminationStarts, forkVars
  <2>2. current' \in {current, FALSE} /\ alive' \in {alive, FALSE} /\ late' \in {late, TRUE}
    BY <1>4 DEF ForkNext, LegAnswers, LegHangsUp, CloseLeg, LegFails, ControlEnds, Deadline, CallEnds, TerminationStarts, forkVars
  <2>3. FlagsTyped' /\ RunTyped'
    BY <1>1, <2>1, <2>2 DEF FlagsTyped, RunTyped
  <2>4. QED
    BY <1>1, <2>1, <2>3
<1>5. QED
  BY <1>2, <1>3, <1>4

-----------------------------------------------------------------------------
(* The steps that are not the controller's *)

LegStep(c) == \/ LegAnswers(c) \/ LegHangsUp(c) \/ CloseLeg(c)
              \/ \E o \in DialOutcomes : LegFails(c, o)

WorldStep == \/ \E o \in ControlOutcomes : ControlEnds(o)
             \/ Deadline \/ CallEnds \/ TerminationStarts

\* A step of the fork is one of a leg, of run() or of the world around it.
LEMMA NextStepOf ==
  [ForkNext]_forkVars <=>
     \/ BranchStep \/ RunStep \/ RunCancelled
     \/ \E c \in Branches : LegStep(c)
     \/ WorldStep \/ UNCHANGED forkVars
  BY DEF ForkNext, LegStep, WorldStep

\* A step of a far end opens no leg and moves no task but a dialling one, to its outcome.
LEMMA LegSteps ==
  ASSUME BranchesTyped, Untouched, NEW c \in Branches, LegStep(c)
  PROVE  /\ UNCHANGED <<source, pc, tierVars, after, winner, reason, taskCancelled, outer>>
         /\ Open' \subseteq Open /\ toClose' \subseteq toClose
         /\ toClose \ toClose' \subseteq {c} /\ (toClose' # toClose => c \notin Open')
         /\ \A d \in Branches : task'[d] # task[d] => task[d] = "dialing" /\ task'[d] \notin Undialled
         /\ \A d \in Branches : (leg'[d] = "none") = (leg[d] = "none")
<1> USE DEF source, legs, tierVars, closeVars, outer
<1>1. DialOutcomes \cap Undialled = {} /\ "answered" \notin Undialled
  BY ForkConstants DEF Failures, Stops, Undialled
<1>2. UNCHANGED <<source, pc, tierVars, after, winner, reason, taskCancelled, outer>>
  BY DEF LegStep, LegAnswers, LegHangsUp, CloseLeg, LegFails
<1>3. toClose' = toClose \/ (CloseLeg(c) /\ toClose' = toClose \ {c} /\ leg' = [leg EXCEPT ![c] = "over"])
  BY DEF LegStep, LegAnswers, LegHangsUp, CloseLeg, LegFails
<1>4. \A d \in Branches : task'[d] # task[d] => task[d] = "dialing" /\ task'[d] \notin Undialled
  <2>1. CASE LegAnswers(c)
    BY <1>1, <2>1 DEF LegAnswers, BranchesTyped
  <2>2. ASSUME NEW o \in DialOutcomes, LegFails(c, o)
        PROVE  \A d \in Branches : task'[d] # task[d] => task[d] = "dialing" /\ task'[d] \notin Undialled
    BY <1>1, <2>2 DEF LegFails, BranchesTyped
  <2>3. CASE LegHangsUp(c) \/ CloseLeg(c)
    BY <2>3 DEF LegHangsUp, CloseLeg
  <2>4. QED
    BY <2>1, <2>2, <2>3 DEF LegStep
<1>5. /\ leg[c] # "none"
      /\ \/ leg' \in {leg, [leg EXCEPT ![c] = "over"]}
         \/ leg[c] = "calling" /\ leg' = [leg EXCEPT ![c] = "answered"]
  <2>1. leg[c] # "none"
    BY DEF LegStep, LegAnswers, LegHangsUp, CloseLeg, LegFails, Untouched
  <2>2. CASE LegAnswers(c) \/ LegHangsUp(c) \/ CloseLeg(c)
    BY <2>1, <2>2 DEF LegAnswers, LegHangsUp, CloseLeg
  <2>3. ASSUME NEW o \in DialOutcomes, LegFails(c, o) PROVE leg' \in {leg, [leg EXCEPT ![c] = "over"]}
    BY <2>3 DEF LegFails, BranchesTyped
  <2>4. QED
    BY <2>1, <2>2, <2>3 DEF LegStep
<1>6. /\ Open' \subseteq Open
      /\ \A d \in Branches : (leg'[d] = "none") = (leg[d] = "none")
  BY <1>5 DEF BranchesTyped, Open
<1>7. toClose' # toClose => c \notin Open'
  BY <1>3 DEF BranchesTyped, Open
<1>8. QED
  BY <1>2, <1>3, <1>4, <1>6, <1>7

\* The clock, the caller, the session and the route control leave the branches alone.
LEMMA WorldSteps ==
  ASSUME WorldStep \/ UNCHANGED forkVars
  PROVE  /\ UNCHANGED <<legs, pc, tierVars, closeVars, winner, reason, taskCancelled, controlled, run, result>>
         /\ ctl # "dialing" => ctl' = ctl
         /\ late => late'
  BY DEF WorldStep, ControlEnds, Deadline, CallEnds, TerminationStarts, forkVars, source, legs, tierVars, closeVars, outer

\* run() leaves the branches to themselves.
LEMMA RunSteps ==
  ASSUME RunStep \/ RunCancelled
  PROVE  /\ UNCHANGED <<source, legs, pc, tierVars, after, winner, reason, controlled, ctl>>
         /\ pc \notin BranchEnd => UNCHANGED toClose
  BY DEF RunStep, RunWakes, BranchesJoined, BranchesReturn, RunCommits, WinnerDiscarded, ControlsClosed,
         RunUnwinds, RunCancelled, Settle, BranchesDone, BranchEnd, source, legs, tierVars, closeVars, outer

-----------------------------------------------------------------------------
(* A winner has answered *)

\* Cancelling dials takes no answer back.
LEMMA CancelledDials ==
  ASSUME NEW S, NEW c \in Branches, task' = CancelDials(S)
  PROVE  /\ task[c] # "dialing" => task'[c] = task[c]
         /\ task'[c] # task[c] => task'[c] = "cancelled"
         /\ task[c] = "dialing" /\ c \in S => task'[c] = "cancelled"
  BY DEF CancelDials

\* What the controller closes once it knows the outcome of a step.
LEMMA StepCloses ==
  ASSUME NEW o \in Failures \cup Stops \cup {"answered"}, StepOutcome(o)
  PROVE  \/ o = "answered" /\ Closing(Losers(winner), "commit")
         \/ o \in Failures /\ Closing({winner}, "step")
         \/ \E e \in {"cancelled"} \cup Stops : Closing(Branches, e)
  BY DEF StepOutcome

\* The winner remains a branch that answered, with its leg open.
LEMMA WinnerStaysKnown == ForkInv /\ [ForkNext]_forkVars => WinnerKnown'
<1> SUFFICES ASSUME ForkInv, [ForkNext]_forkVars PROVE WinnerKnown'
  OBVIOUS
<1> USE DEF source, legs, tierVars, closeVars, outer, Committing, Stepping
<1>0. BranchesTyped /\ WinnerKnown /\ Untouched
  BY DEF ForkInv, ForkTypeOK
<1>1. CASE NextTier
  <2>1. pc' \in {"closing", "step", "unwind", "wait"}
    BY <1>1 DEF NextTier, GiveUp, DialTier, EnterWait, Closing
  <2>2. pc' = "closing" => after' = "failed"
    BY <1>1 DEF NextTier, GiveUp, DialTier, EnterWait, Closing
  <2>3. pc' = "unwind" => verdict' # "answered"
    BY <1>1 DEF NextTier, GiveUp, DialTier, EnterWait, Closing
  <2>4. QED
    BY <2>1, <2>2, <2>3 DEF WinnerKnown
<1>2. CASE ParallelWakes
  BY <1>2 DEF ParallelWakes, WinnerKnown
<1>3. CASE ParallelJudges
  <2>1. CASE Abandons \/ FindsNone
    BY <1>3, <2>1, Judgement DEF Abandons, FindsNone, WinnerKnown, Stops
  <2>2. CASE TakesWinner
    <3>1. BatchWinner(batch) \subseteq Branches
      BY <1>0 DEF BatchWinner, BranchesTyped
    <3>2. winner' \in BatchWinner(batch)
      BY <2>2, <3>1, FirstIsOneOf DEF TakesWinner
    <3>3. QED
      BY <1>3, <2>2, <3>1, <3>2, Judgement DEF TakesWinner, BatchWinner, WinnerKnown
  <2>3. QED
    BY <1>3, <2>1, <2>2, Judgement
<1>4. CASE TierReturns
  <2>1. CASE verdict = "none"
    BY <1>4, <2>1 DEF TierReturns, WinnerKnown
  <2>2. CASE verdict = "answered"
    <3>1. winner \in Branches /\ task[winner] = "answered"
      BY <1>0, <1>4, <2>2 DEF TierReturns, WinnerKnown
    <3>2. task'[winner] = "answered" /\ winner' = winner /\ pc' = "closing" /\ after' = "commit"
      BY <1>4, <2>2, <3>1, CancelledDials DEF TierReturns, Closing
    <3>3. QED
      BY <3>1, <3>2 DEF WinnerKnown
  <2>3. CASE verdict \notin {"none", "answered"}
    BY <1>0, <1>4, <2>3 DEF TierReturns, Closing, WinnerKnown, BranchesTyped, Stops
  <2>4. QED
    BY <2>1, <2>2, <2>3
<1>5. CASE NextStep
  <2>1. {c \in InTier(tier) : task[c] = "idle"} \subseteq Branches
    BY DEF InTier
  <2>2. QED
    BY <1>5, <2>1, FirstIsOneOf DEF NextStep, Closing, WinnerKnown
<1>6. CASE StepTimesOut
  BY <1>0, <1>6 DEF StepTimesOut, Closing, WinnerKnown
<1>7. CASE StepEnds
  <2>1. winner \in Branches /\ task[winner] \in Failures \cup Stops \cup {"answered"}
    BY <1>0, <1>7, ForkConstants DEF StepEnds, WinnerKnown, BranchesTyped, Failures
  <2>2. UNCHANGED <<task, winner>>
    BY <1>7 DEF StepEnds
  <2>3. QED
    BY <1>7, <2>1, <2>2, StepCloses DEF StepEnds, Closing, WinnerKnown, Stops
<1>8. CASE BarrierEnds
  <2>1. UNCHANGED <<task, winner>>
    BY <1>8 DEF BarrierEnds
  <2>2. CASE after = "step timeout"
    <3>1. winner \in Branches /\ StepOutcome("timeout") /\ "timeout" \in Failures
      BY <1>0, <1>8, <2>2 DEF BarrierEnds, WinnerKnown, Failures
    <3>2. QED
      BY <2>1, <3>1, StepCloses DEF Closing, WinnerKnown, Stops
  <2>3. CASE after = "commit"
    BY <1>0, <1>8, <2>1, <2>3 DEF BarrierEnds, WinnerKnown, Closing
  <2>4. CASE after \notin {"step timeout", "commit"}
    BY <1>0, <1>8, <2>1, <2>4 DEF BarrierEnds, WinnerKnown, Stops
  <2>5. QED
    BY <2>2, <2>3, <2>4
<1>9. CASE BranchesUnwind
  BY <1>9 DEF BranchesUnwind, Closing, WinnerKnown
<1>10. CASE RunStep \/ RunCancelled
  BY <1>0, <1>10, RunSteps DEF WinnerKnown
<1>11. ASSUME NEW c \in Branches, LegStep(c) PROVE WinnerKnown'
  <2>1. UNCHANGED <<pc, verdict, after, winner>> /\ \A d \in Branches : task[d] = "answered" => task'[d] = "answered"
    BY <1>0, <1>11, LegSteps
  <2>2. QED
    BY <1>0, <2>1 DEF WinnerKnown
<1>12. CASE WorldStep \/ UNCHANGED forkVars
  BY <1>0, <1>12, WorldSteps DEF WinnerKnown
<1>13. QED
  BY <1>1, <1>2, <1>3, <1>4, <1>5, <1>6, <1>7, <1>8, <1>9, <1>10, <1>11, <1>12, NextStepOf DEF BranchStep

-----------------------------------------------------------------------------
(* The barriers cover what is open *)

\* Nothing outside the set is left open by a barrier that closes it.
LEMMA ClosingCovers ==
  ASSUME NEW S, NEW next, Closing(S, next), UNCHANGED leg
  PROVE  pc' = "closing" /\ after' = next /\ toClose' = S \cap Open /\ Open' = Open
  BY DEF Closing, Open

\* No step leaves a leg open that nobody will close.
LEMMA LegsStayCovered == ForkInv /\ [ForkNext]_forkVars => LegsCovered'
<1> SUFFICES ASSUME ForkInv, [ForkNext]_forkVars PROVE LegsCovered'
  OBVIOUS
<1> USE DEF source, legs, tierVars, closeVars, outer, BranchesDone
<1>0. BranchesTyped /\ WinnerKnown /\ LegsCovered /\ Untouched /\ RunKnows /\ Open \subseteq Branches
  BY DEF ForkInv, ForkTypeOK, Open
<1>1. ASSUME pc' \in {"next", "wait", "judge", "unwind", "step", "ringing"} PROVE LegsCovered'
  BY <1>1 DEF LegsCovered, BranchEnd, Stops
<1>2. ASSUME NEW e \in BranchEnd, Closing(Branches, e), UNCHANGED leg PROVE LegsCovered'
  BY <1>0, <1>2, ClosingCovers DEF LegsCovered, BranchEnd, Stops
<1>3. ASSUME Closing(Losers(winner), "commit"), UNCHANGED <<leg, winner>> PROVE LegsCovered'
  BY <1>0, <1>3, ClosingCovers DEF LegsCovered, Losers, BranchEnd, Stops
<1>4. ASSUME NEW S, NEW e \in {"step", "step timeout"}, Closing(S, e) PROVE LegsCovered'
  BY <1>4 DEF Closing, LegsCovered, BranchEnd, Stops
<1>5. CASE NextTier
  BY <1>1, <1>2, <1>5 DEF NextTier, GiveUp, DialTier, EnterWait, BranchEnd
<1>6. CASE ParallelWakes \/ ParallelJudges
  BY <1>1, <1>6 DEF ParallelWakes, ParallelJudges
<1>7. CASE TierReturns
  <2>1. verdict \notin {"none", "answered"} => verdict \in BranchEnd
    BY <1>0 DEF BranchesTyped, BranchEnd
  <2>2. QED
    BY <1>1, <1>2, <1>3, <1>7, <2>1 DEF TierReturns
<1>8. CASE NextStep
  BY <1>1, <1>2, <1>8 DEF NextStep, BranchEnd
<1>9. CASE StepTimesOut
  BY <1>4, <1>9 DEF StepTimesOut
<1>10. ASSUME NEW o \in Failures \cup Stops \cup {"answered"}, StepOutcome(o), UNCHANGED <<leg, winner>>
       PROVE  LegsCovered'
  BY <1>2, <1>3, <1>4, <1>10, StepCloses DEF BranchEnd
<1>11. CASE StepEnds
  <2>1. task[winner] \in Failures \cup Stops \cup {"answered"}
    BY <1>0, <1>11, ForkConstants DEF StepEnds, WinnerKnown, BranchesTyped, Failures
  <2>2. QED
    BY <1>10, <1>11, <2>1 DEF StepEnds
<1>12. CASE BarrierEnds
  <2>1. CASE after = "step timeout"
    BY <1>10, <1>12, <2>1 DEF BarrierEnds, Failures
  <2>2. CASE after = "commit"
    <3>1. Open \subseteq {winner} /\ UNCHANGED <<leg, winner>>
      BY <1>0, <1>12, <2>2 DEF BarrierEnds, LegsCovered
    <3>2. CASE MayWin
      BY <1>12, <2>2, <3>1, <3>2 DEF BarrierEnds, LegsCovered, Open, BranchEnd
    <3>3. CASE ~MayWin
      <4>1. Closing({winner}, "cancelled")
        BY <1>12, <2>2, <3>3 DEF BarrierEnds
      <4>2. QED
        BY <3>1, <4>1, ClosingCovers DEF LegsCovered, BranchEnd, Stops
    <3>4. QED
      BY <3>2, <3>3
  <2>3. CASE after = "step"
    BY <1>1, <1>12, <2>3 DEF BarrierEnds
  <2>4. CASE after \notin {"step timeout", "commit", "step"}
    <3>1. after \in BranchEnd /\ after # "won" /\ toClose = {} /\ pc = "closing"
      BY <1>0, <1>12, <2>4 DEF BarrierEnds, WinnerKnown, BranchEnd, Stops
    <3>2. Open = {} /\ pc' = after /\ UNCHANGED leg
      BY <1>0, <1>12, <2>4, <3>1 DEF BarrierEnds, LegsCovered
    <3>3. QED
      BY <3>1, <3>2 DEF LegsCovered, Open, BranchEnd, Stops
  <2>5. QED
    BY <2>1, <2>2, <2>3, <2>4
<1>13. CASE BranchesUnwind
  BY <1>2, <1>13 DEF BranchesUnwind, BranchEnd
<1>14. CASE RunStep \/ RunCancelled
  <2>1. Open' = Open
    BY <1>14, RunSteps DEF Open
  <2>2. QED
    BY <1>0, <1>14, <2>1, RunSteps DEF LegsCovered, BranchEnd, Stops
<1>15. ASSUME NEW c \in Branches, LegStep(c) PROVE LegsCovered'
  BY <1>0, <1>15, LegSteps DEF LegsCovered
<1>16. CASE WorldStep \/ UNCHANGED forkVars
  <2>1. Open' = Open
    BY <1>16, WorldSteps DEF Open
  <2>2. QED
    BY <1>0, <1>16, <2>1, WorldSteps DEF LegsCovered
<1>17. QED
  BY <1>5, <1>6, <1>7, <1>8, <1>9, <1>11, <1>12, <1>13, <1>14, <1>15, <1>16, NextStepOf DEF BranchStep

-----------------------------------------------------------------------------
(* A branch whose tier has not come is untouched *)

\* The branches of later tiers stay idle, and who is idle has no leg to close.
LEMMA StaysUntouched == ForkInv /\ [ForkNext]_forkVars => Untouched'
<1> SUFFICES ASSUME ForkInv, [ForkNext]_forkVars PROVE Untouched'
  OBVIOUS
<1> USE DEF source, legs, tierVars, closeVars, outer
<1>0. BranchesTyped /\ WinnerKnown /\ Untouched /\ tier \in Nat
  BY DEF ForkInv, ForkTypeOK
<1>1. ASSUME UNCHANGED leg, toClose' \subseteq toClose \cup Open PROVE \A c \in Branches : leg'[c] = "none" => c \notin toClose'
  BY <1>0, <1>1 DEF Untouched, Open
<1>2. ASSUME UNCHANGED <<tier, leg>>, toClose' \subseteq toClose \cup Open,
             \A c \in Branches : (task'[c] = "idle") = (task[c] = "idle")
      PROVE  Untouched'
  BY <1>0, <1>1, <1>2 DEF Untouched
<1>3. \A S, e : Closing(S, e) => toClose' \subseteq toClose \cup Open
  BY DEF Closing
<1>4. CASE NextTier
  <2>1. CASE LaterTiers = {}
    <3>1. UNCHANGED <<tier, legs>> /\ Closing(Branches, "failed")
      BY <1>4, <2>1 DEF NextTier, GiveUp
    <3>2. QED
      BY <1>2, <1>3, <3>1
  <2>2. ASSUME LaterTiers # {}, NEW t, t = CHOOSE u \in LaterTiers : \A v \in LaterTiers : u <= v
        PROVE  Untouched'
    <3>1. /\ t \in Nat /\ t > tier
          /\ \A c \in Branches : Tier[c] > tier => Tier[c] >= t
      BY <1>0, <2>2, NextTierIsFirst
    <3>2. DialTier(t)
      BY <1>4, <2>2 DEF NextTier
    <3>3. \A c \in Branches : Tier[c] > t => task[c] = "idle" /\ Tier[c] # t
      <4>1. \A c \in Branches : Tier[c] \in Nat
        BY ForkConstants
      <4>2. QED
        BY <1>0, <3>1, <4>1 DEF Untouched
    <3>4. tier' = t /\ UNCHANGED toClose
      BY <3>2 DEF DialTier
    <3> DEFINE D == IF t \in SequentialTiers \/ pc' # "wait" THEN {} ELSE InTier(t)
    <3>5. /\ task' = [c \in Branches |-> IF c \in D THEN "dialing" ELSE task[c]]
          /\ leg' = [c \in Branches |-> IF c \in D THEN "calling" ELSE leg[c]]
      <4>1. CASE t \in SequentialTiers
        BY <1>0, <3>2, <4>1 DEF DialTier, BranchesTyped
      <4>2. CASE t \notin SequentialTiers
        BY <3>2, <4>2 DEF DialTier
      <4>3. QED
        BY <4>1, <4>2
    <3> HIDE DEF D
    <3>6. \A c \in Branches : task'[c] = "idle" => leg'[c] = "none"
      BY <1>0, <3>5 DEF Untouched
    <3>7. \A c \in Branches : leg'[c] = "none" => c \notin toClose'
      BY <1>0, <3>4, <3>5 DEF Untouched
    <3>8. \A c \in Branches : Tier[c] > tier' => task'[c] = "idle"
      <4>1. \A c \in D : Tier[c] = t
        BY DEF D, InTier
      <4>2. QED
        BY <3>3, <3>4, <3>5, <4>1
    <3>9. QED
      BY <3>6, <3>7, <3>8 DEF Untouched
  <2>3. QED
    BY <2>1, <2>2
<1>5. CASE ParallelWakes \/ ParallelJudges
  <2>1. UNCHANGED <<tier, legs, toClose>>
    BY <1>5, Judgement DEF ParallelWakes
  <2>2. QED
    BY <1>2, <2>1
<1>6. CASE TierReturns
  <2>1. \A c \in Branches : (task'[c] = "idle") = (task[c] = "idle")
    BY <1>6, CancelledDials DEF TierReturns
  <2>2. QED
    BY <1>2, <1>3, <1>6, <2>1 DEF TierReturns
<1>7. CASE NextStep
  <2> DEFINE rest == {c \in InTier(tier) : task[c] = "idle"}
  <2>1. rest # {} => First(rest) \in rest
    BY FirstIsOneOf DEF InTier
  <2>2. CASE ~alive \/ rest = {} \/ late
    <3>1. UNCHANGED <<legs, tier>> /\ toClose' \subseteq toClose \cup Open
      BY <1>3, <1>7, <2>2 DEF NextStep
    <3>2. QED
      BY <1>2, <3>1
  <2>3. ASSUME alive, rest # {}, ~late, NEW c \in rest, c = First(rest) PROVE Untouched'
    <3>1. /\ task' = [task EXCEPT ![c] = "dialing"] /\ leg' = [leg EXCEPT ![c] = "calling"]
          /\ UNCHANGED <<tier, toClose>>
      BY <1>7, <2>3 DEF NextStep
    <3>2. c \in Branches /\ Tier[c] = tier
      BY <2>3 DEF InTier
    <3>3. \A d \in Branches : (task'[d] = "idle" => task[d] = "idle") /\ (leg'[d] = "none" => leg[d] = "none")
      BY <1>0, <3>1 DEF BranchesTyped
    <3>4. ~(Tier[c] > tier)
      BY <1>0, <3>2
    <3>5. \A d \in Branches : Tier[d] > tier => task'[d] = task[d]
      BY <1>0, <3>1, <3>2, <3>4 DEF BranchesTyped
    <3>6. \A d \in Branches : task'[d] = "idle" => leg'[d] = "none"
      BY <1>0, <3>1, <3>2 DEF Untouched, BranchesTyped
    <3> HIDE DEF rest
    <3>7. QED
      BY <1>0, <3>1, <3>3, <3>5, <3>6 DEF Untouched
  <2>4. QED
    BY <2>1, <2>2, <2>3
<1>8. CASE StepTimesOut
  <2>1. \A c \in Branches : (task'[c] = "idle") = (task[c] = "idle")
    BY <1>0, <1>8 DEF StepTimesOut, StepTimeout, BranchesTyped
  <2>2. QED
    BY <1>2, <1>3, <1>8, <2>1 DEF StepTimesOut
<1>9. CASE StepEnds
  BY <1>2, <1>3, <1>9 DEF StepEnds, StepOutcome
<1>10. CASE BarrierEnds
  BY <1>2, <1>3, <1>10 DEF BarrierEnds, StepOutcome
<1>11. CASE BranchesUnwind
  <2>1. \A c \in Branches : (task'[c] = "idle") = (task[c] = "idle")
    BY <1>11, CancelledDials DEF BranchesUnwind
  <2>2. QED
    BY <1>2, <1>3, <1>11, <2>1 DEF BranchesUnwind
<1>12. CASE RunStep \/ RunCancelled
  <2>1. toClose' \in {toClose, {winner} \cap Open}
    BY <1>12 DEF RunStep, RunWakes, BranchesJoined, BranchesReturn, RunCommits, WinnerDiscarded, ControlsClosed,
                 RunUnwinds, RunCancelled, Settle
  <2>2. QED
    BY <1>2, <1>12, <2>1, RunSteps
<1>13. ASSUME NEW c \in Branches, LegStep(c) PROVE Untouched'
  <2>1. /\ tier' = tier /\ toClose' \subseteq toClose
        /\ \A d \in Branches : (leg'[d] = "none") = (leg[d] = "none")
    BY <1>0, <1>13, LegSteps
  <2>2. \A d \in Branches : (task'[d] = "idle") = (task[d] = "idle")
    BY <1>0, <1>13, LegSteps DEF Undialled
  <2>3. QED
    BY <1>0, <2>1, <2>2 DEF Untouched
<1>14. CASE WorldStep \/ UNCHANGED forkVars
  BY <1>2, <1>14, WorldSteps
<1>15. QED
  BY <1>4, <1>5, <1>6, <1>7, <1>8, <1>9, <1>10, <1>11, <1>12, <1>13, <1>14, NextStepOf DEF BranchStep

-----------------------------------------------------------------------------
(* run() goes by what the branches have done *)

\* What run() knows of its branches remains true.
LEMMA RunStaysKnowing == ForkInv /\ [ForkNext]_forkVars => RunKnows'
<1> SUFFICES ASSUME ForkInv, [ForkNext]_forkVars PROVE RunKnows'
  OBVIOUS
<1> USE DEF source, legs, tierVars, closeVars, outer, BranchesDone
<1>0. WinnerKnown /\ LegsCovered /\ RunKnows /\ BranchesTyped /\ Untouched /\ RunTyped
  BY DEF ForkInv, ForkTypeOK
<1>1. CASE BranchStep
  <2>1. UNCHANGED outer /\ pc \notin BranchEnd
    BY <1>1 DEF BranchStep, NextTier, ParallelWakes, ParallelJudges, TierReturns, NextStep, StepTimesOut, StepEnds,
                BarrierEnds, BranchesUnwind, BranchEnd, Stops
  <2>2. run \notin {"controls", "commit", "discard", "settled"}
    BY <1>0, <2>1 DEF RunKnows
  <2>3. ASSUME run = "join" PROVE (pc' = "closing" /\ after' = "raised") \/ pc' = "raised"
    <3>1. CASE BranchesUnwind
      BY <3>1 DEF BranchesUnwind, Closing
    <3>2. CASE ~BranchesUnwind
      <4>1. ~taskCancelled
        BY <1>1, <3>2 DEF BranchStep, NextTier, ParallelWakes, ParallelJudges, TierReturns, NextStep, StepTimesOut,
                          StepEnds, BarrierEnds
      <4>2. pc = "closing" /\ after = "raised"
        BY <1>0, <2>1, <2>3, <4>1 DEF RunKnows, BranchEnd
      <4>3. BarrierEnds
        BY <1>1, <3>2, <4>2 DEF BranchStep, NextTier, ParallelWakes, ParallelJudges, TierReturns, NextStep,
                                StepTimesOut, StepEnds
      <4>4. QED
        BY <4>2, <4>3 DEF BarrierEnds
    <3>3. QED
      BY <3>1, <3>2
  <2>4. QED
    BY <1>0, <2>1, <2>2, <2>3 DEF RunKnows
<1>2. CASE RunWakes
  <2>1. UNCHANGED <<legs, pc, after, winner, controlled, ctl, result>> /\ run = "wait" /\ result = "none" /\ controlled
    BY <1>0, <1>2 DEF RunWakes, RunKnows
  <2>2. Open' = Open
    BY <2>1 DEF Open
  <2>3. CASE run' = "branches"
    BY <2>1, <2>3 DEF RunKnows
  <2>4. CASE run' = "join"
    BY <1>2, <2>1, <2>4 DEF RunWakes, RunKnows
  <2>5. CASE run' = "controls"
    BY <1>0, <1>2, <2>1, <2>2, <2>5 DEF RunWakes, RunKnows, LegsCovered
  <2>6. CASE run' = "discard"
    <3>1. pc = "won" /\ toClose' = {winner} \cap Open
      BY <1>2, <2>6 DEF RunWakes
    <3>2. QED
      BY <1>0, <2>1, <2>2, <2>6, <3>1 DEF RunKnows, LegsCovered, BranchEnd
  <2>7. QED
    BY <1>2, <2>3, <2>4, <2>5, <2>6 DEF RunWakes
<1>3. CASE BranchesJoined
  <2>1. UNCHANGED <<legs, pc, controlled, ctl, result>> /\ run = "join" /\ run' = "controls" /\ BranchesDone
    BY <1>3 DEF BranchesJoined
  <2>2. pc = "raised" /\ Open' = Open
    BY <1>0, <2>1 DEF RunKnows, Open, BranchEnd, Stops
  <2>3. QED
    BY <1>0, <2>1, <2>2 DEF RunKnows, LegsCovered
<1>4. CASE BranchesReturn
  BY <1>0, <1>4 DEF BranchesReturn, Settle, RunKnows
<1>5. CASE RunCommits
  <2>1. UNCHANGED <<legs, pc, winner, controlled, ctl>> /\ run = "commit" /\ Open' = Open
    BY <1>5 DEF RunCommits, Open
  <2>2. CASE run' = "discard"
    <3>1. pc = "won" /\ toClose' = {winner} \cap Open /\ result' = result
      BY <1>5, <2>2 DEF RunCommits, Settle
    <3>2. QED
      BY <1>0, <2>1, <2>2, <3>1 DEF RunKnows, LegsCovered
  <2>3. CASE run' = "settled"
    BY <1>0, <2>1, <2>3 DEF RunKnows
  <2>4. QED
    BY <1>5, <2>2, <2>3 DEF RunCommits, Settle
<1>6. CASE WinnerDiscarded
  <2>1. UNCHANGED <<legs, pc, controlled, ctl>> /\ run = "discard" /\ toClose = {} /\ Open' = Open
    BY <1>6 DEF WinnerDiscarded, Open
  <2>2. Open = {} /\ BranchesDone /\ controlled /\ result = "none"
    BY <1>0, <2>1 DEF RunKnows
  <2>3. CASE run' = "controls"
    BY <1>6, <2>1, <2>2, <2>3 DEF WinnerDiscarded, Settle, RunKnows
  <2>4. CASE run' = "settled"
    BY <2>1, <2>2, <2>4 DEF RunKnows
  <2>5. QED
    BY <1>6, <2>3, <2>4 DEF WinnerDiscarded, Settle
<1>7. CASE ControlsClosed \/ RunUnwinds
  BY <1>0, <1>7 DEF ControlsClosed, RunUnwinds, Settle, RunKnows
<1>8. CASE RunCancelled
  BY <1>0, <1>8 DEF RunCancelled, RunKnows
<1>9. ASSUME NEW c \in Branches, LegStep(c) PROVE RunKnows'
  <2>1. /\ UNCHANGED <<pc, after, taskCancelled, outer>> /\ Open' \subseteq Open
        /\ toClose \ toClose' \subseteq {c} /\ (toClose' # toClose => c \notin Open')
    BY <1>0, <1>9, LegSteps
  <2>2. Open \subseteq toClose => Open' \subseteq toClose'
    BY <2>1
  <2>3. QED
    BY <1>0, <2>1, <2>2 DEF RunKnows
<1>10. CASE WorldStep \/ UNCHANGED forkVars
  <2>1. /\ UNCHANGED <<pc, after, toClose, taskCancelled, controlled, run, result>> /\ Open' = Open
        /\ ctl \in Stops => ctl' = ctl
    BY <1>10, WorldSteps DEF Open, Stops
  <2>2. QED
    BY <1>0, <2>1 DEF RunKnows
<1>11. QED
  BY <1>1, <1>2, <1>3, <1>4, <1>5, <1>6, <1>7, <1>8, <1>9, <1>10, NextStepOf DEF RunStep

-----------------------------------------------------------------------------
(* No answer is passed over before the deadline *)

\* No step passes over an answer before the deadline.
LEMMA NoneIsMissed == ForkInv /\ [ForkNext]_forkVars => NoneMissed'
<1> SUFFICES ASSUME ForkInv, [ForkNext]_forkVars, ~late' PROVE NoneMissed'
  BY DEF NoneMissed
<1> USE DEF source, legs, tierVars, closeVars, outer, Stepping, Missed
<1>0. WinnerKnown /\ NoneMissed /\ BranchesTyped /\ Untouched
  BY DEF ForkInv, ForkTypeOK
<1>1. ~late
  <2>1. BranchStep => late' = late
    BY DEF BranchStep, NextTier, ParallelWakes, ParallelJudges, TierReturns, NextStep, StepTimesOut, StepEnds,
           BarrierEnds, BranchesUnwind
  <2>2. \A c \in Branches : LegStep(c) => late' = late
    BY <1>0, LegSteps
  <2>3. QED
    BY <2>1, <2>2, RunSteps, WorldSteps, NextStepOf
<1>2. ASSUME pc' = "closing", after' \notin {"step", "step timeout"} PROVE NoneMissed'
  BY <1>2 DEF NoneMissed
<1>3. ASSUME pc' \in {"next", "step"}, \A c \in Branches : ~Missed(c)' PROVE NoneMissed'
  BY <1>3 DEF NoneMissed
<1>4. CASE NextTier
  <2>1. \A c \in Branches : ~Missed(c)
    BY <1>0, <1>1, <1>4 DEF NextTier, NoneMissed
  <2>2. CASE LaterTiers = {}
    BY <1>2, <1>4, <2>2 DEF NextTier, GiveUp, Closing
  <2>3. ASSUME NEW t, DialTier(t), t \in SequentialTiers PROVE NoneMissed'
    BY <1>3, <2>1, <2>3 DEF DialTier
  <2>4. ASSUME NEW t, DialTier(t), t \notin SequentialTiers PROVE NoneMissed'
    <3>1. (pc' = "unwind" /\ verdict' = "cancelled") \/ pc' = "wait"
      BY <1>1, <2>4 DEF DialTier, EnterWait
    <3>2. /\ tier' = t /\ counted' = {}
          /\ \A c \in Branches : c \in InTier(t) \/ task'[c] = task[c]
      BY <2>4 DEF DialTier
    <3>3. \A c \in Branches : Tier[c] # tier' => ~Missed(c)'
      BY <2>1, <3>2 DEF InTier
    <3>4. QED
      BY <3>1, <3>2, <3>3 DEF NoneMissed
  <2>5. QED
    BY <1>4, <2>2, <2>3, <2>4 DEF NextTier
<1>5. CASE ParallelWakes
  BY <1>0, <1>1, <1>5 DEF ParallelWakes, DoneIn, InTier, Undialled, NoneMissed
<1>6. CASE ParallelJudges
  <2>1. CASE Abandons
    BY <2>1 DEF Abandons, NoneMissed, Stops
  <2>4. CASE TakesWinner
    <3>1. UNCHANGED <<task, tier>> /\ counted' = counted \cup batch
      BY <1>6, Judgement
    <3>2. /\ \A c \in Branches : Tier[c] # tier \/ c \in counted => ~Missed(c)
          /\ \A c \in batch : task[c] # "dialing"
      BY <1>0, <1>1, <1>6 DEF ParallelJudges, NoneMissed
    <3>3. \A c \in Branches : c \in counted' /\ Missed(c) => c \in BatchWinner(batch)
      BY <3>1, <3>2 DEF BatchWinner
    <3>4. ASSUME NEW c \in BatchWinner(batch) PROVE c = winner' \/ Rank[winner'] < Rank[c]
      <4>1. BatchWinner(batch) \subseteq Branches
        BY <1>0 DEF BranchesTyped, BatchWinner
      <4>2. winner' \in Branches /\ c \in Branches /\ Rank[winner'] <= Rank[c]
        BY <2>4, <4>1, FirstIsOneOf DEF TakesWinner
      <4>3. QED
        BY <4>2, ForkConstants
    <3>5. ASSUME NEW c \in Branches, Missed(c) PROVE c = winner' \/ (Tier[c] = tier /\ (c \in counted' => Rank[winner'] < Rank[c] /\ task[c] = "answered"))
      BY <3>2, <3>3, <3>4, <3>5 DEF BatchWinner
    <3>6. QED
      BY <2>4, <3>1, <3>5 DEF TakesWinner, NoneMissed, FollowsIn
  <2>2. CASE FindsNone
    <3>1. UNCHANGED <<task, tier>> /\ counted' = counted \cup batch
      BY <1>6, Judgement
    <3>2. \A c \in batch : ~Missed(c)
      BY <1>0, <1>1, <1>6, <2>2 DEF ParallelJudges, FindsNone, BatchWinner, NoneMissed
    <3>3. \A c \in Branches : Tier[c] # tier \/ c \in counted \/ c \in batch => ~Missed(c)'
      BY <1>0, <1>1, <1>6, <3>1, <3>2 DEF ParallelJudges, NoneMissed
    <3>4. CASE pc' = "wait"
      BY <3>1, <3>3, <3>4 DEF NoneMissed
    <3>5. CASE pc' = "unwind" /\ InTier(tier) \subseteq counted'
      BY <3>1, <3>3, <3>5 DEF NoneMissed, InTier
    <3>6. QED
      BY <1>1, <2>2, <3>4, <3>5 DEF FindsNone
  <2>3. QED
    BY <1>6, <2>1, <2>2, <2>4, Judgement
<1>7. CASE TierReturns
  <2>1. CASE verdict = "none"
    <3>1. \A c \in Branches : ~Missed(c)
      BY <1>0, <1>1, <1>7, <2>1 DEF TierReturns, NoneMissed
    <3>2. \A c \in Branches : ~Missed(c)'
      BY <1>7, <3>1, CancelledDials DEF TierReturns
    <3>3. QED
      BY <1>3, <1>7, <2>1, <3>2 DEF TierReturns
  <2>2. CASE verdict # "none"
    BY <1>0, <1>2, <1>7, <2>2 DEF TierReturns, Closing, BranchesTyped, Stops
  <2>3. QED
    BY <2>1, <2>2
<1>8. CASE NextStep
  <2> DEFINE rest == {c \in InTier(tier) : task[c] = "idle"}
  <2>1. \A c \in Branches : ~Missed(c)
    BY <1>0, <1>1, <1>8 DEF NextStep, NoneMissed
  <2>2. CASE ~alive
    BY <1>2, <1>8, <2>2 DEF NextStep, Closing
  <2>3. CASE alive /\ rest = {}
    BY <1>1, <1>3, <1>8, <2>1, <2>3 DEF NextStep
  <2>4. CASE alive /\ rest # {}
    <3>1. pc' = "ringing" /\ task' = [task EXCEPT ![winner'] = "dialing"]
      BY <1>1, <1>8, <2>4 DEF NextStep
    <3>2. \A c \in Branches : c # winner' => ~Missed(c)'
      BY <1>0, <2>1, <3>1 DEF BranchesTyped
    <3>3. QED
      BY <3>1, <3>2 DEF NoneMissed
  <2>5. QED
    BY <2>2, <2>3, <2>4
<1>9. CASE StepTimesOut
  <2>1. pc' = "closing" /\ task' = [task EXCEPT ![winner] = "timeout"] /\ winner \in Branches
    BY <1>0, <1>9 DEF StepTimesOut, Closing, WinnerKnown
  <2>2. \A c \in Branches : ~Missed(c)'
    BY <1>0, <1>1, <1>9, <2>1 DEF StepTimesOut, NoneMissed, BranchesTyped
  <2>3. QED
    BY <2>1, <2>2 DEF NoneMissed
<1>10. ASSUME NEW o \in Failures \cup Stops \cup {"answered"}, StepOutcome(o), UNCHANGED task,
              o \in Failures => \A c \in Branches : ~Missed(c)
       PROVE  NoneMissed'
  <2>1. CASE o \in Failures
    BY <1>10, <2>1, StepCloses DEF Closing, NoneMissed
  <2>2. CASE o \notin Failures
    BY <1>2, <1>10, <2>2, StepCloses DEF Closing, Stops
  <2>3. QED
    BY <2>1, <2>2
<1>11. CASE StepEnds
  <2>1. task[winner] \in Failures \cup Stops \cup {"answered"}
    BY <1>0, <1>11, ForkConstants DEF StepEnds, WinnerKnown, BranchesTyped, Failures
  <2>2. \A c \in Branches : c # winner => ~Missed(c)
    BY <1>0, <1>1, <1>11 DEF StepEnds, NoneMissed
  <2>3. task[winner] \in Failures => ~Missed(winner)
    BY DEF Failures
  <2>4. QED
    BY <1>10, <1>11, <2>1, <2>2, <2>3 DEF StepEnds
<1>12. CASE BarrierEnds
  <2>1. CASE after = "step timeout"
    <3>1. \A c \in Branches : ~Missed(c)
      BY <1>0, <1>1, <1>12, <2>1 DEF BarrierEnds, NoneMissed
    <3>2. QED
      BY <1>10, <1>12, <2>1, <3>1 DEF BarrierEnds, Failures
  <2>2. CASE after = "step"
    <3>1. \A c \in Branches : ~Missed(c)
      BY <1>0, <1>1, <1>12, <2>2 DEF BarrierEnds, NoneMissed
    <3>2. QED
      BY <1>3, <1>12, <2>2, <3>1 DEF BarrierEnds
  <2>3. CASE after \notin {"step timeout", "step"}
    <3>1. pc' \in {"won", "failed", "cancelled", "raised"} \cup Stops \/ (pc' = "closing" /\ after' = "cancelled")
      BY <1>0, <1>12, <2>3 DEF BarrierEnds, WinnerKnown, Closing
    <3>2. QED
      BY <1>2, <3>1 DEF NoneMissed, Stops
  <2>4. QED
    BY <2>1, <2>2, <2>3
<1>13. CASE BranchesUnwind
  BY <1>2, <1>13 DEF BranchesUnwind, Closing
<1>14. CASE RunStep \/ RunCancelled
  BY <1>0, <1>1, <1>14, RunSteps DEF NoneMissed, FollowsIn
<1>15. ASSUME NEW c \in Branches, LegStep(c) PROVE NoneMissed'
  <2>1. UNCHANGED <<pc, tierVars, after, winner>> /\ \A d \in Branches : task'[d] # task[d] => task[d] = "dialing"
    BY <1>0, <1>15, LegSteps
  <2>2. \A d \in Branches : (~Missed(d) => ~Missed(d)') /\ (task[d] # "dialing" => task'[d] # "dialing")
    BY <2>1
  <2>3. batch \subseteq Branches
    BY <1>0 DEF BranchesTyped
  <2>4. QED
    BY <1>0, <1>1, <2>1, <2>2, <2>3 DEF NoneMissed, FollowsIn
<1>16. CASE WorldStep \/ UNCHANGED forkVars
  BY <1>0, <1>1, <1>16, WorldSteps DEF NoneMissed, FollowsIn
<1>17. QED
  BY <1>4, <1>5, <1>6, <1>7, <1>8, <1>9, <1>11, <1>12, <1>13, <1>14, <1>15, <1>16, NextStepOf DEF BranchStep

\* The invariant is inductive.
LEMMA ForkStep == ForkInv /\ [ForkNext]_forkVars => ForkInv'
<1>1. ForkInv /\ [ForkNext]_forkVars => ForkTypeOK'
  BY BranchesStayTyped, RunStaysTyped DEF ForkInv, ForkTypeOK
<1>2. QED
  BY <1>1, WinnerStaysKnown, LegsStayCovered, StaysUntouched, RunStaysKnowing, NoneIsMissed DEF ForkInv

-----------------------------------------------------------------------------
(* The controller keeps its promise *)

\* A branch that is dialled has been let alone before; nothing that has answered is
\* forgotten by the controller, and it closes no leg itself.
LEMMA ControllerOnlyDials ==
  ForkInv /\ BranchStep => Open \subseteq Open' /\ HasAnswered' = HasAnswered
<1> SUFFICES ASSUME ForkInv, BranchStep
             PROVE  Open \subseteq Open' /\ HasAnswered' = HasAnswered
  OBVIOUS
<1> USE DEF source, legs, tierVars, closeVars, outer
<1>0. Untouched /\ BranchesTyped /\ tier \in Nat
  BY DEF ForkInv, ForkTypeOK
<1>1. ASSUME NEW D, D \subseteq Branches, \A c \in D : task[c] = "idle",
             \A c \in Branches : task'[c] = (IF c \in D THEN "dialing" ELSE task[c])
                                /\ leg'[c] = (IF c \in D THEN "calling" ELSE leg[c])
      PROVE  Open \subseteq Open' /\ HasAnswered' = HasAnswered
  <2>1. \A c \in D : leg[c] = "none" /\ task[c] = "idle"
    BY <1>0, <1>1 DEF Untouched
  <2>2. QED
    BY <1>1, <2>1 DEF Open, HasAnswered
<1>2. ASSUME UNCHANGED leg, \A c \in Branches : (task'[c] = "answered") = (task[c] = "answered")
      PROVE  Open \subseteq Open' /\ HasAnswered' = HasAnswered
  BY <1>2 DEF Open, HasAnswered
<1>3. CASE NextTier
  <2>1. CASE LaterTiers = {}
    BY <1>2, <1>3, <2>1 DEF NextTier, GiveUp
  <2>2. ASSUME LaterTiers # {}, NEW t, t = CHOOSE u \in LaterTiers : \A v \in LaterTiers : u <= v
        PROVE  Open \subseteq Open' /\ HasAnswered' = HasAnswered
    <3>1. DialTier(t) /\ t > tier
      BY <1>0, <1>3, <2>2, NextTierIsFirst DEF NextTier
    <3>2. CASE t \in SequentialTiers
      BY <1>2, <3>1, <3>2 DEF DialTier
    <3>3. CASE t \notin SequentialTiers
      <4> DEFINE D == IF pc' = "wait" THEN InTier(t) ELSE {}
      <4>1. \A c \in D : c \in Branches /\ task[c] = "idle"
        BY <1>0, <3>1 DEF InTier, Untouched
      <4>2. \A c \in Branches : task'[c] = (IF c \in D THEN "dialing" ELSE task[c])
                               /\ leg'[c] = (IF c \in D THEN "calling" ELSE leg[c])
        BY <3>1, <3>3 DEF DialTier
      <4> HIDE DEF D
      <4>3. QED
        BY <1>1, <4>1, <4>2
    <3>4. QED
      BY <3>2, <3>3
  <2>3. QED
    BY <2>1, <2>2
<1>4. CASE ParallelWakes \/ ParallelJudges
  <2>1. UNCHANGED legs
    BY <1>4, Judgement DEF ParallelWakes
  <2>2. QED
    BY <1>2, <2>1
<1>5. CASE TierReturns \/ BranchesUnwind
  <2>1. UNCHANGED leg /\ \A c \in Branches : (task'[c] = "answered") = (task[c] = "answered")
    BY <1>5, CancelledDials DEF TierReturns, BranchesUnwind
  <2>2. QED
    BY <1>2, <2>1
<1>6. CASE NextStep
  <2> DEFINE rest == {c \in InTier(tier) : task[c] = "idle"}
  <2>1. rest # {} => First(rest) \in rest
    BY FirstIsOneOf DEF InTier
  <2>2. CASE ~alive \/ rest = {} \/ late
    BY <1>2, <1>6, <2>2 DEF NextStep
  <2>3. ASSUME alive, rest # {}, ~late, NEW c \in rest, c = First(rest)
        PROVE  Open \subseteq Open' /\ HasAnswered' = HasAnswered
    <3>1. task' = [task EXCEPT ![c] = "dialing"] /\ leg' = [leg EXCEPT ![c] = "calling"]
      BY <1>6, <2>3 DEF NextStep
    <3>2. \A d \in Branches : task'[d] = (IF d \in {c} THEN "dialing" ELSE task[d])
                              /\ leg'[d] = (IF d \in {c} THEN "calling" ELSE leg[d])
      BY <1>0, <3>1 DEF BranchesTyped
    <3>3. {c} \subseteq Branches /\ \A d \in {c} : task[d] = "idle"
      BY DEF InTier
    <3>4. QED
      BY <1>1, <3>2, <3>3
  <2>4. QED
    BY <2>1, <2>2, <2>3
<1>7. CASE StepTimesOut
  <2>1. UNCHANGED leg /\ \A c \in Branches : (task'[c] = "answered") = (task[c] = "answered")
    BY <1>0, <1>7 DEF StepTimesOut, StepTimeout, BranchesTyped
  <2>2. QED
    BY <1>2, <2>1
<1>8. CASE StepEnds \/ BarrierEnds
  BY <1>2, <1>8 DEF StepEnds, BarrierEnds
<1>9. QED
  BY <1>3, <1>4, <1>5, <1>6, <1>7, <1>8 DEF BranchStep

\* Every step is one of the promise or changes nothing of it.
LEMMA StepKeepsPromise == ForkInv /\ [ForkNext]_forkVars => [Promise!PromiseNext]_Promise!promiseVars
<1> SUFFICES ASSUME ForkInv, [ForkNext]_forkVars PROVE [Promise!PromiseNext]_Promise!promiseVars
  OBVIOUS
<1> USE DEF source, legs, tierVars, closeVars, outer, BranchesDone
<1>0. WinnerKnown /\ LegsCovered /\ Untouched /\ RunKnows /\ BranchesTyped /\ RunTyped
  BY DEF ForkInv, ForkTypeOK
<1>00. LegsCovered'
  BY LegsStayCovered
<1>1. ASSUME Open' = Open, HasAnswered' = HasAnswered, current' = current, Settlement' = Settlement
      PROVE  UNCHANGED Promise!promiseVars
  BY <1>1 DEF Promise!promiseVars
<1>2. ASSUME UNCHANGED legs PROVE Open' = Open /\ HasAnswered' = HasAnswered
  BY <1>2 DEF Open, HasAnswered
<1>3. ASSUME UNCHANGED <<controlled, result, pc>> PROVE Settlement' = Settlement
  BY <1>3 DEF Settlement, Told, BranchEnd, Stops
<1>4. CASE BranchStep /\ ~BarrierEnds
  <2>1. UNCHANGED <<current, controlled, result, run>> /\ pc \notin BranchEnd /\ pc' \notin BranchEnd
    BY <1>4 DEF BranchStep, NextTier, GiveUp, DialTier, EnterWait, ParallelWakes, ParallelJudges, TierReturns, NextStep,
                StepTimesOut, StepEnds, StepOutcome, BranchesUnwind, Closing, BranchEnd, Stops
  <2>2. Settlement = "no" /\ Settlement' = "no"
    <3>1. result = "none"
      BY <1>0, <2>1 DEF RunKnows
    <3>2. QED
      BY <2>1, <3>1 DEF Settlement, Told
  <2>3. Open \subseteq Open' /\ HasAnswered' = HasAnswered
    BY <1>4, ControllerOnlyDials
  <2>4. Promise!Dial
    BY <2>1, <2>2, <2>3 DEF Promise!Dial
  <2>5. QED
    BY <2>4 DEF Promise!PromiseNext
<1>5. CASE BarrierEnds
  <2>1. UNCHANGED <<current, legs, winner, controlled, result, run>> /\ pc \notin BranchEnd
    BY <1>5 DEF BarrierEnds, BranchEnd, Stops
  <2>2. result = "none" /\ Settlement = "no"
    <3>1. result = "none"
      BY <1>0, <2>1 DEF RunKnows
    <3>2. QED
      BY <2>1, <3>1 DEF Settlement, Told
  <2>3. CASE controlled \/ pc' \notin BranchEnd \/ pc' = "raised"
    <3>1. Settlement' = "no"
      BY <2>1, <2>2, <2>3 DEF Settlement, Told
    <3>2. QED
      BY <1>1, <1>2, <2>1, <2>2, <3>1
  <2>4. CASE ~controlled /\ pc' = "won"
    <3>1. Settlement' = "won"
      BY <2>1, <2>4 DEF Settlement, Told, BranchEnd
    <3>2. after = "commit" /\ MayWin /\ pc = "closing"
      BY <1>0, <1>5, <2>4 DEF BarrierEnds, WinnerKnown, StepOutcome, Closing, Stops
    <3>3. winner \in HasAnswered
      BY <1>0, <3>2 DEF WinnerKnown, Committing, HasAnswered
    <3>4. Open \subseteq {winner}
      BY <1>0, <1>5, <3>2 DEF LegsCovered, BarrierEnds
    <3>5. current
      BY <2>4, <3>2 DEF MayWin
    <3>6. Promise!Win
      BY <1>2, <2>1, <2>2, <3>1, <3>3, <3>4, <3>5 DEF Promise!Win
    <3>7. QED
      BY <3>6 DEF Promise!PromiseNext
  <2>5. CASE ~controlled /\ pc' \in BranchEnd \ {"won", "raised"}
    <3>1. Settlement' = "lost" /\ Open = {}
      BY <1>00, <1>2, <2>1, <2>5 DEF Settlement, Told, BranchEnd, Stops, LegsCovered
    <3>2. Promise!Lose
      BY <1>2, <2>1, <2>2, <3>1 DEF Promise!Lose
    <3>3. QED
      BY <3>2 DEF Promise!PromiseNext
  <2>6. QED
    BY <2>3, <2>4, <2>5
<1>6. ASSUME RunStep \/ RunCancelled, result' = result PROVE UNCHANGED Promise!promiseVars
  BY <1>1, <1>2, <1>3, <1>6, RunSteps
<1>7. ASSUME UNCHANGED <<legs, current, pc, controlled>>, result = "none"
      PROVE  /\ ~controlled \/ result' = "raised" => UNCHANGED Promise!promiseVars
             /\ controlled /\ result' = "won" /\ current /\ pc = "won" => Promise!Win
             /\ controlled /\ result' \notin {"none", "won", "raised"} /\ Open = {} => Promise!Lose
  <2>1. Open' = Open /\ HasAnswered' = HasAnswered
    BY <1>2, <1>7
  <2>2. ASSUME ~controlled \/ result' = "raised" PROVE Settlement' = Settlement
    BY <1>7, <2>2 DEF Settlement, Told
  <2>3. ASSUME controlled PROVE Settlement = "no"
    BY <1>7, <2>3 DEF Settlement, Told
  <2>4. ASSUME pc = "won" PROVE winner \in HasAnswered /\ Open \subseteq {winner}
    BY <1>0, <2>4 DEF WinnerKnown, LegsCovered, HasAnswered
  <2>5. ASSUME controlled, result' = "won", current, pc = "won" PROVE Promise!Win
    <3>1. Settlement' = "won"
      BY <1>7, <2>5 DEF Settlement, Told
    <3>2. QED
      BY <1>7, <2>1, <2>3, <2>4, <2>5, <3>1 DEF Promise!Win
  <2>6. ASSUME controlled, result' \notin {"none", "won", "raised"}, Open = {} PROVE Promise!Lose
    <3>1. Settlement' = "lost"
      BY <1>7, <2>6 DEF Settlement, Told
    <3>2. QED
      BY <1>7, <2>1, <2>3, <2>6, <3>1 DEF Promise!Lose
  <2>7. QED
    BY <1>1, <1>7, <2>1, <2>2, <2>5, <2>6
<1>8. CASE RunStep /\ result' # result
  <2>1. /\ UNCHANGED <<legs, current, pc, controlled>> /\ run # "settled"
        /\ BranchesReturn \/ RunCommits \/ WinnerDiscarded \/ ControlsClosed \/ RunUnwinds
    BY <1>8, RunSteps DEF RunStep, RunWakes, BranchesJoined, BranchesReturn, RunCommits, WinnerDiscarded, ControlsClosed,
                          RunUnwinds
  <2>2. result = "none"
    BY <1>0, <2>1 DEF RunKnows
  <2>3. CASE BranchesReturn
    <3>1. ~controlled \/ result' = "raised"
      BY <1>8, <2>3 DEF BranchesReturn, Settle
    <3>2. QED
      BY <1>7, <2>1, <2>2, <3>1
  <2>4. CASE RunCommits
    <3>1. result' = pc /\ controlled /\ pc \in BranchEnd /\ (pc = "won" => current)
      BY <1>0, <1>8, <2>4 DEF RunCommits, Settle, StillWanted, RunKnows
    <3>2. pc # "won" => Open = {}
      BY <1>0, <3>1 DEF LegsCovered
    <3>3. pc # "none"
      BY <3>1 DEF BranchEnd, Stops
    <3>4. QED
      BY <1>7, <2>1, <2>2, <3>1, <3>2, <3>3 DEF Promise!PromiseNext
  <2>5. CASE WinnerDiscarded
    <3>1. result' = "cancelled" /\ controlled /\ Open = {}
      BY <1>0, <1>8, <2>5 DEF WinnerDiscarded, Settle, RunKnows
    <3>2. QED
      BY <1>7, <2>1, <2>2, <3>1 DEF Promise!PromiseNext
  <2>6. CASE ControlsClosed
    <3>1. result' \in Stops /\ controlled /\ Open = {}
      BY <1>0, <2>6 DEF ControlsClosed, Settle, RunKnows
    <3>2. QED
      BY <1>7, <2>1, <2>2, <3>1 DEF Stops, Promise!PromiseNext
  <2>7. CASE RunUnwinds
    <3>1. result' = "raised"
      BY <2>7 DEF RunUnwinds, Settle
    <3>2. QED
      BY <1>7, <2>1, <2>2, <3>1
  <2>8. QED
    BY <2>1, <2>3, <2>4, <2>5, <2>6, <2>7
<1>9. RunCancelled => result' = result
  BY DEF RunCancelled
<1>10. ASSUME NEW c \in Branches, LegStep(c) PROVE [Promise!PromiseNext]_Promise!promiseVars
  <2>1. current' = current /\ Settlement' = Settlement
    BY <1>0, <1>3, <1>10, LegSteps
  <2>2. CASE LegAnswers(c)
    <3>1. c \in Open /\ Open' = Open /\ HasAnswered' = HasAnswered \cup {c}
      BY <1>0, <2>2 DEF LegAnswers, Open, HasAnswered, BranchesTyped
    <3>2. Promise!LegAnswers
      BY <2>1, <3>1 DEF Promise!LegAnswers
    <3>3. QED
      BY <3>2 DEF Promise!PromiseNext
  <2>3. ASSUME leg' = [leg EXCEPT ![c] = "over"], c \in Open,
               \A d \in Branches : (task'[d] = "answered") = (task[d] = "answered")
        PROVE  [Promise!PromiseNext]_Promise!promiseVars
    <3>1. Open' = Open \ {c} /\ HasAnswered' \in {HasAnswered, HasAnswered \ {c}}
      <4>1. Open' = Open \ {c}
        BY <1>0, <2>3 DEF Open, BranchesTyped
      <4>2. \A d \in Branches : d # c => (d \in HasAnswered' <=> d \in HasAnswered)
        BY <1>0, <2>3 DEF HasAnswered, BranchesTyped
      <4>3. c \in HasAnswered' => c \in HasAnswered
        BY <1>0, <2>3 DEF HasAnswered, BranchesTyped
      <4>4. HasAnswered \subseteq Branches /\ HasAnswered' \subseteq Branches
        BY DEF HasAnswered
      <4>5. QED
        BY <4>1, <4>2, <4>3, <4>4
    <3>2. Promise!LegEnds
      BY <2>1, <2>3, <3>1 DEF Promise!LegEnds
    <3>3. QED
      BY <3>2 DEF Promise!PromiseNext
  <2>4. CASE LegHangsUp(c)
    BY <2>3, <2>4 DEF LegHangsUp, Open
  <2>5. CASE CloseLeg(c)
    <3>1. leg[c] # "none" /\ leg' = [leg EXCEPT ![c] = "over"] /\ task' = task
      BY <1>0, <2>5 DEF CloseLeg, Untouched
    <3>2. CASE leg[c] = "over"
      <4>1. UNCHANGED legs
        BY <1>0, <3>1, <3>2 DEF BranchesTyped
      <4>2. QED
        BY <1>1, <1>2, <2>1, <4>1
    <3>3. CASE leg[c] # "over"
      <4>1. c \in Open
        BY <1>0, <3>1, <3>3 DEF Open, BranchesTyped
      <4>2. QED
        BY <2>3, <3>1, <4>1
    <3>4. QED
      BY <3>2, <3>3
  <2>6. ASSUME NEW o \in DialOutcomes, LegFails(c, o) PROVE [Promise!PromiseNext]_Promise!promiseVars
    <3>1. c \in Open /\ \A d \in Branches : (task'[d] = "answered") = (task[d] = "answered")
      <4>1. o # "answered"
        BY ForkConstants DEF Failures, Stops
      <4>2. QED
        BY <1>0, <2>6, <4>1 DEF LegFails, Open, BranchesTyped
    <3>2. CASE o = "timeout"
      <4>1. Open' = Open /\ HasAnswered' = HasAnswered
        BY <1>0, <2>6, <3>1, <3>2 DEF LegFails, Open, HasAnswered, BranchesTyped
      <4>2. QED
        BY <1>1, <2>1, <4>1
    <3>3. CASE o # "timeout"
      BY <2>3, <2>6, <3>1, <3>3 DEF LegFails
    <3>4. QED
      BY <3>2, <3>3
  <2>7. QED
    BY <1>10, <2>2, <2>4, <2>5, <2>6 DEF LegStep
<1>11. CASE WorldStep \/ UNCHANGED forkVars
  <2>1. Open' = Open /\ HasAnswered' = HasAnswered /\ Settlement' = Settlement
    BY <1>2, <1>3, <1>11, WorldSteps
  <2>2. current' = current \/ current' = FALSE
    BY <1>11 DEF WorldStep, ControlEnds, Deadline, CallEnds, TerminationStarts, forkVars
  <2>3. CASE current' = FALSE
    BY <2>1, <2>3 DEF Promise!PromiseNext, Promise!CallEnds
  <2>4. QED
    BY <1>1, <2>1, <2>2, <2>3
<1>12. QED
  BY <1>4, <1>5, <1>6, <1>8, <1>9, <1>10, <1>11, NextStepOf DEF BranchStep

-----------------------------------------------------------------------------
(* The fork: theorems *)

\* However a fork goes, it keeps track of its legs: a barrier waits for all that is
\* open, a winner has answered, run() goes by what the branches did, and no answer is
\* passed over before the deadline (dial_fork.py, DialForkController).
THEOREM ForkInvariant == ForkSpec => []ForkInv
<1>1. ForkInit => ForkInv
  BY InitFork
<1>2. ForkInv /\ [ForkNext]_forkVars => ForkInv'
  BY ForkStep
<1>3. QED
  BY <1>1, <1>2, PTL DEF ForkSpec

\* A cancelled fork leaves no leg behind but a winner it had not handed out yet: the
\* unwinding of run() and of _run_candidates closes every other.
THEOREM CancellationLeavesNothing == ForkSpec => []CancelledForkLeavesNothing
<1>1. ForkInv => CancelledForkLeavesNothing
  BY DEF ForkInv, RunKnows, LegsCovered, CancelledForkLeavesNothing
<1>2. QED
  BY <1>1, ForkInvariant, PTL

\* Only a fork without a further tier gives up.
LEMMA GivesUp == ForkInv /\ [ForkNext]_forkVars /\ after # "failed" /\ after' = "failed" => pc = "next"
<1> SUFFICES ASSUME ForkInv, [ForkNext]_forkVars, after # "failed", after' = "failed", pc # "next" PROVE FALSE
  OBVIOUS
<1> USE DEF source, legs, tierVars, closeVars, outer
<1>0. WinnerKnown /\ BranchesTyped /\ Untouched
  BY DEF ForkInv, ForkTypeOK
<1>1. ASSUME NEW o \in Failures \cup Stops \cup {"answered"}, StepOutcome(o) PROVE after' # "failed"
  BY <1>1, StepCloses DEF Closing, Stops
<1>2. CASE BranchStep
  <2>1. ~StepEnds
    <3>1. StepEnds => task[winner] \in Failures \cup Stops \cup {"answered"}
      BY <1>0, ForkConstants DEF StepEnds, WinnerKnown, BranchesTyped, Failures
    <3>2. QED
      BY <1>1, <3>1 DEF StepEnds
  <2>2. ~BarrierEnds
    BY <1>1 DEF BarrierEnds, Closing, Failures
  <2>3. ~TierReturns
    BY <1>0 DEF TierReturns, Closing, BranchesTyped, Stops
  <2>4. QED
    BY <1>2, <2>1, <2>2, <2>3 DEF BranchStep, NextTier, ParallelWakes, ParallelJudges, NextStep, StepTimesOut,
                                  BranchesUnwind, Closing
<1>3. ASSUME NEW c \in Branches, LegStep(c) PROVE FALSE
  BY <1>0, <1>3, LegSteps
<1>4. QED
  BY <1>2, <1>3, RunSteps, WorldSteps, NextStepOf

\* A fork that commits has a branch that answered, in the tier's unwinding or alone in
\* a step.
LEMMA CommitsWhen == ForkInv /\ [ForkNext]_forkVars /\ after # "commit" /\ after' = "commit" =>
                   \/ pc = "unwind" /\ verdict = "answered"
                   \/ pc = "ringing"
<1> SUFFICES ASSUME ForkInv, [ForkNext]_forkVars, after # "commit", after' = "commit"
             PROVE  (pc = "unwind" /\ verdict = "answered") \/ pc = "ringing"
  OBVIOUS
<1> USE DEF source, legs, tierVars, closeVars, outer
<1>0. WinnerKnown /\ BranchesTyped /\ Untouched
  BY DEF ForkInv, ForkTypeOK
<1>1. CASE BranchStep
  <2>1. ~BarrierEnds
    BY DEF BarrierEnds, Closing, StepOutcome, Stops
  <2>2. CASE TierReturns
    BY <1>0, <2>2 DEF TierReturns, Closing, BranchesTyped, Stops
  <2>3. QED
    BY <1>1, <2>1, <2>2 DEF BranchStep, NextTier, DialTier, GiveUp, ParallelWakes, ParallelJudges, NextStep, StepTimesOut,
                            StepEnds, BranchesUnwind, Closing
<1>2. ASSUME NEW c \in Branches, LegStep(c) PROVE FALSE
  BY <1>0, <1>2, LegSteps
<1>3. QED
  BY <1>1, <1>2, RunSteps, WorldSteps, NextStepOf

\* Among the phones the first that answers wins, whatever outcome the route control
\* ends with: no answer is passed over before the deadline, and of several that the
\* tier has seen the first in the configured order is the winner.
THEOREM FirstAnswerWins == ForkSpec => AnswerWins
<1>1. ASSUME ForkInv, [ForkNext]_forkVars, ~late, after # "failed", after' = "failed"
      PROVE  \A c \in Branches : task[c] # "answered"
  BY <1>1, GivesUp DEF ForkInv, NoneMissed, Missed
<1>2. ASSUME ForkInv, [ForkNext]_forkVars, ~late, after # "commit", after' = "commit",
             NEW c \in Branches, task[c] = "answered"
      PROVE  c = winner \/ FollowsIn(winner, c)
  BY <1>2, CommitsWhen DEF ForkInv, NoneMissed, Missed
<1>3. ForkInv /\ [ForkNext]_forkVars => HeedsAnswers
  BY <1>1, <1>2 DEF HeedsAnswers
<1>4. QED
  BY <1>3, ForkInvariant, PTL DEF ForkSpec, AnswerWins

\* The controller implements the promise: it settles once, as won with an answered leg
\* and nothing else open while the call is current, or as lost with every leg closed.
THEOREM ForkKeepsPromise == ForkSpec => KeepsPromise
<1>1. ForkInit => Promise!PromiseInit
  BY DEF ForkInit, Promise!PromiseInit, Open, HasAnswered, Settlement, Told, BranchesDone, BranchEnd, Stops
<1>2. ForkInv /\ [ForkNext]_forkVars => [Promise!PromiseNext]_Promise!promiseVars
  BY StepKeepsPromise
<1>3. QED
  BY <1>1, <1>2, ForkInvariant, PTL DEF ForkSpec, KeepsPromise, Promise!PromiseSpec

-----------------------------------------------------------------------------
(* The SIP call: its inductive invariant *)

\* A queue holds a request of kind k.
Has(q, k) == \E i \in 1 .. Len(q) : q[i].kind = k

\* No INVITE is behind an ACK or a BYE, and none has a number above n.
InOrder(q) == \A i, j \in 1 .. Len(q) :
    i < j /\ q[i].kind \in {"ACK", "BYE"} => q[j].kind # "INVITE"
Known(q, n) == \A i \in 1 .. Len(q) : q[i].kind = "INVITE" => q[i].seq \in 1 .. n

Travels(k) == Has(toListener, k)
Heard(k) == \E m \in toClient : m.kind = k

\* The INVITE that is in use is the one the listener serves.
Current == cseq = Served
Parted == byes > 0

\* The listener has answered the call, as somebody can still tell.
Answered == dialog \/ Travels("ACK") \/ Parted \/ Heard("200") \/ Heard("BYE")

\* No INVITE will reach the listener any more.
NoMoreInvites ==
    /\ inv # "none" /\ ~Travels("INVITE")
    /\ inv = "running" => progress /\ Current

\* The dialog is over at the listener, or about to be unless its BYE was lost.
Byed == Travels("BYE") \/ ~act \/ byeLost

\* SipTypeOK in parts.
ClientFlags ==
    /\ active \in BOOLEAN /\ cancelReq \in BOOLEAN /\ cancelSent \in BOOLEAN
    /\ prov \in BOOLEAN /\ progress \in BOOLEAN /\ dialog \in BOOLEAN /\ closing \in BOOLEAN

ClientPlaces ==
    /\ inv \in {"none", "running"} \cup InviteEnds
    /\ fin \in {"none", "running"} \cup (InviteEnds \ {"ringing"})
    /\ flow \in {"invite", "final", "dialog", "left"}
    /\ cleanup \in {"none", "terminate", "close", "done"}
    /\ term \in {"none", "starting", "bye", "join", "cancel", "returned"}
    /\ saw \subseteq {"cancel ok", "invite over", "race bye"}
    /\ closeAt \in {"none", "starting", "signaling", "joining", "closed"}

ClientCounts == cseq \in {1, 2} /\ byes \in 0 .. MaxByes

QueueInv == InOrder(toListener) /\ Known(toListener, cseq)

WireInv ==
    /\ Travels("BYE") => Parted
    /\ \A m \in toClient :
        /\ m.kind = "401" => auth
        /\ m.kind = "200" => m.seq = Served
        /\ m.kind = "BYE 200" => Parted
        /\ m.kind \in {"BYE", "BYE 200"} => ~act

ClientInv ==
    /\ dialog \/ Travels("ACK") \/ Parted => inv \notin {"none", "running"}
    /\ fin # "none" => inv = "ringing"
    /\ term = "cancel" => inv \notin {"none", "running"}
    /\ cleanup # "none" => inv # "none"
    /\ cleanup = "none" => term = "none" /\ closeAt = "none"
    /\ closeAt # "none" => closing
    /\ closeAt \in {"joining", "closed"} => "running" \notin {inv, fin}
    /\ dialog /\ fin = "running" => Byed
    /\ closeAt = "signaling" /\ dialog => Byed \/ term = "starting"
    /\ closeAt \in {"joining", "closed"} /\ dialog => Byed

ListenerInv ==
    /\ pend # "none" => ~act
    /\ ackPending => act
    /\ pend # "none" \/ act \/ Answered => Current
    /\ pend # "none" \/ act \/ Travels("INVITE") => inv # "none"
    /\ Answered => pend = "none" /\ (act \/ NoMoreInvites)

\* What ConfirmedAgrees says, from the moment an ACK is on its way, and for a client
\* that has not gone yet.
Agreement == act /\ (~ackPending \/ Travels("ACK")) =>
    Travels("BYE") \/ byeLost \/ (dialog /\ closeAt \notin {"joining", "closed"})

SipInv ==
    /\ WireTypeOK /\ ClientFlags /\ ClientPlaces /\ ClientCounts /\ ListenerTypeOK
    /\ cseq <= Served
    /\ QueueInv /\ WireInv /\ ClientInv /\ ListenerInv /\ Agreement

\* What a step adds to the queue, as far as the invariant tells requests apart.
Adds(kinds) ==
    /\ toListener' \in Seq(Requests) /\ QueueInv'
    /\ \A k \in {"INVITE", "ACK", "BYE"} : Travels(k)' <=> Travels(k) \/ k \in kinds

-----------------------------------------------------------------------------
(* Queues *)

\* What a queue holds after some requests were added (_send_raw).
LEMMA HasConcat ==
  ASSUME NEW p \in Seq(Requests), NEW s \in Seq(Requests)
  PROVE  \A k : Has(p \o s, k) <=> Has(p, k) \/ Has(s, k)
<1> SUFFICES ASSUME NEW k PROVE Has(p \o s, k) <=> Has(p, k) \/ Has(s, k)
  OBVIOUS
<1>1. /\ Len(p \o s) = Len(p) + Len(s) /\ Len(p) \in Nat /\ Len(s) \in Nat
      /\ \A i \in 1 .. Len(p) : (p \o s)[i] = p[i]
      /\ \A i \in 1 .. Len(s) : (p \o s)[Len(p) + i] = s[i]
  BY ConcatProperties, LenProperties
<1>2. ASSUME Has(p, k) PROVE Has(p \o s, k)
  BY <1>1, <1>2 DEF Has
<1>3. ASSUME Has(s, k) PROVE Has(p \o s, k)
  <2>1. PICK i \in 1 .. Len(s) : s[i].kind = k
    BY <1>3 DEF Has
  <2>2. Len(p) + i \in 1 .. Len(p \o s) /\ (p \o s)[Len(p) + i] = s[i]
    BY <1>1
  <2>3. QED
    BY <2>1, <2>2 DEF Has
<1>4. ASSUME Has(p \o s, k) PROVE Has(p, k) \/ Has(s, k)
  <2>1. PICK i \in 1 .. Len(p \o s) : (p \o s)[i].kind = k
    BY <1>4 DEF Has
  <2>2. CASE i \in 1 .. Len(p)
    BY <1>1, <2>1, <2>2 DEF Has
  <2>3. CASE i \notin 1 .. Len(p)
    <3>1. i - Len(p) \in 1 .. Len(s) /\ Len(p) + (i - Len(p)) = i
      BY <1>1, <2>3
    <3>2. s[i - Len(p)].kind = k
      BY <1>1, <2>1, <3>1
    <3>3. QED
      BY <3>1, <3>2 DEF Has
  <2>4. QED
    BY <2>2, <2>3
<1>5. QED
  BY <1>2, <1>3, <1>4

\* Short queues.
LEMMA HasFew ==
  ASSUME NEW r \in Requests, NEW t \in Requests
  PROVE  /\ \A k : ~Has(<<>>, k)
         /\ \A k : Has(<<r>>, k) <=> r.kind = k
         /\ \A k : Has(<<r, t>>, k) <=> (r.kind = k \/ t.kind = k)
BY DEF Has

\* The head of a queue and what is behind it (_handle_datagram).
LEMMA HasTail ==
  ASSUME NEW q \in Seq(Requests), q # <<>>
  PROVE  \A k : Has(q, k) <=> Head(q).kind = k \/ Has(Tail(q), k)
<1> SUFFICES ASSUME NEW k PROVE Has(q, k) <=> Head(q).kind = k \/ Has(Tail(q), k)
  OBVIOUS
<1>1. /\ Len(q) \in Nat /\ Len(q) >= 1 /\ Len(Tail(q)) = Len(q) - 1 /\ Head(q) = q[1]
      /\ \A i \in 1 .. Len(Tail(q)) : Tail(q)[i] = q[i + 1]
  BY HeadTailProperties, LenProperties, EmptySeq
<1>2. ASSUME Has(Tail(q), k) PROVE Has(q, k)
  <2>1. PICK i \in 1 .. Len(Tail(q)) : Tail(q)[i].kind = k
    BY <1>2 DEF Has
  <2>2. i + 1 \in 1 .. Len(q) /\ q[i + 1].kind = k
    BY <1>1, <2>1
  <2>3. QED
    BY <2>2 DEF Has
<1>3. ASSUME Head(q).kind = k PROVE Has(q, k)
  BY <1>1, <1>3 DEF Has
<1>4. ASSUME Has(q, k), Head(q).kind # k PROVE Has(Tail(q), k)
  <2>1. PICK i \in 1 .. Len(q) : q[i].kind = k
    BY <1>4 DEF Has
  <2>2. i - 1 \in 1 .. Len(Tail(q)) /\ (i - 1) + 1 = i
    BY <1>1, <1>4, <2>1
  <2>3. Tail(q)[i - 1] = q[i]
    BY <1>1, <2>2
  <2>4. QED
    BY <2>1, <2>2, <2>3 DEF Has
<1>5. QED
  BY <1>2, <1>3, <1>4

\* The order is kept when no INVITE follows an ACK or a BYE.
LEMMA OrderConcat ==
  ASSUME NEW p \in Seq(Requests), NEW s \in Seq(Requests), NEW n \in Nat,
         InOrder(p), InOrder(s), Known(p, n), Known(s, n),
         Has(s, "INVITE") => ~Has(p, "ACK") /\ ~Has(p, "BYE")
  PROVE  InOrder(p \o s) /\ Known(p \o s, n)
<1>1. /\ Len(p \o s) = Len(p) + Len(s) /\ Len(p) \in Nat /\ Len(s) \in Nat
      /\ \A i \in 1 .. Len(p) : (p \o s)[i] = p[i]
      /\ \A i \in 1 .. Len(s) : (p \o s)[Len(p) + i] = s[i]
  BY ConcatProperties, LenProperties
<1>2. ASSUME NEW i \in 1 .. Len(p \o s), i \notin 1 .. Len(p)
      PROVE  i - Len(p) \in 1 .. Len(s) /\ (p \o s)[i] = s[i - Len(p)]
  <2>1. i - Len(p) \in 1 .. Len(s) /\ Len(p) + (i - Len(p)) = i
    BY <1>1, <1>2
  <2>2. QED
    BY <1>1, <2>1
<1>3. Known(p \o s, n)
  <2> SUFFICES ASSUME NEW i \in 1 .. Len(p \o s), (p \o s)[i].kind = "INVITE"
               PROVE  (p \o s)[i].seq \in 1 .. n
    BY DEF Known
  <2>1. CASE i \in 1 .. Len(p)
    BY <1>1, <2>1 DEF Known
  <2>2. CASE i \notin 1 .. Len(p)
    BY <1>2, <2>2 DEF Known
  <2>3. QED
    BY <2>1, <2>2
<1>4. InOrder(p \o s)
  <2> SUFFICES ASSUME NEW i \in 1 .. Len(p \o s), NEW j \in 1 .. Len(p \o s), i < j,
                      (p \o s)[i].kind \in {"ACK", "BYE"}, (p \o s)[j].kind = "INVITE"
               PROVE  FALSE
    BY DEF InOrder
  <2>1. CASE j \in 1 .. Len(p)
    <3>1. i \in 1 .. Len(p)
      BY <1>1, <2>1
    <3>2. QED
      BY <1>1, <2>1, <3>1 DEF InOrder
  <2>2. CASE j \notin 1 .. Len(p) /\ i \notin 1 .. Len(p)
    <3>1. i - Len(p) < j - Len(p)
      BY <1>1
    <3>2. QED
      BY <1>2, <2>2, <3>1 DEF InOrder
  <2>3. CASE j \notin 1 .. Len(p) /\ i \in 1 .. Len(p)
    <3>1. Has(s, "INVITE")
      BY <1>2, <2>3 DEF Has
    <3>2. Has(p, "ACK") \/ Has(p, "BYE")
      BY <1>1, <2>3 DEF Has
    <3>3. QED
      BY <3>1, <3>2
  <2>4. QED
    BY <2>1, <2>2, <2>3
<1>5. QED
  BY <1>3, <1>4

\* The order is kept when the head goes, and a request ahead of an INVITE is no ACK.
LEMMA OrderTail ==
  ASSUME NEW q \in Seq(Requests), q # <<>>, NEW n \in Nat, InOrder(q), Known(q, n)
  PROVE  /\ InOrder(Tail(q)) /\ Known(Tail(q), n)
         /\ Head(q).kind \in {"ACK", "BYE"} => ~Has(q, "INVITE")
         /\ Head(q).kind = "INVITE" => Head(q).seq \in 1 .. n
<1>1. /\ Len(q) \in Nat /\ Len(q) >= 1 /\ Len(Tail(q)) = Len(q) - 1 /\ Head(q) = q[1]
      /\ \A i \in 1 .. Len(Tail(q)) : Tail(q)[i] = q[i + 1]
  BY HeadTailProperties, LenProperties, EmptySeq
<1>2. InOrder(Tail(q))
  <2> SUFFICES ASSUME NEW i \in 1 .. Len(Tail(q)), NEW j \in 1 .. Len(Tail(q)), i < j,
                      Tail(q)[i].kind \in {"ACK", "BYE"}
               PROVE  Tail(q)[j].kind # "INVITE"
    BY DEF InOrder
  <2>1. i + 1 \in 1 .. Len(q) /\ j + 1 \in 1 .. Len(q) /\ i + 1 < j + 1
    BY <1>1
  <2>2. q[i + 1].kind \in {"ACK", "BYE"} /\ Tail(q)[j] = q[j + 1]
    BY <1>1
  <2>3. QED
    BY <2>1, <2>2 DEF InOrder
<1>3. Known(Tail(q), n)
  <2> SUFFICES ASSUME NEW i \in 1 .. Len(Tail(q)), Tail(q)[i].kind = "INVITE"
               PROVE  Tail(q)[i].seq \in 1 .. n
    BY DEF Known
  <2>1. i + 1 \in 1 .. Len(q) /\ Tail(q)[i] = q[i + 1]
    BY <1>1
  <2>2. QED
    BY <2>1 DEF Known
<1>4. ASSUME Head(q).kind \in {"ACK", "BYE"} PROVE ~Has(q, "INVITE")
  <2> SUFFICES ASSUME NEW j \in 1 .. Len(q), q[j].kind = "INVITE" PROVE FALSE
    BY DEF Has
  <2>1. 1 \in 1 .. Len(q) /\ 1 < j
    BY <1>1, <1>4
  <2>2. QED
    BY <1>1, <1>4, <2>1 DEF InOrder
<1>5. Head(q).kind = "INVITE" => Head(q).seq \in 1 .. n
  BY <1>1 DEF Known
<1>6. QED
  BY <1>2, <1>3, <1>4, <1>5


\* What the requests a step sends change of the queue (_send_raw).
LEMMA SendEffect ==
  ASSUME NEW s \in Seq(Requests), toListener \in Seq(Requests), Send(s)
  PROVE  /\ toListener' \in Seq(Requests)
         /\ \A k : Travels(k)' <=> Travels(k) \/ Has(s, k)
<1>1. toListener' = toListener \o s
  BY DEF Send
<1>2. toListener' \in Seq(Requests)
  BY <1>1, ConcatProperties
<1>3. \A k : Has(toListener', k) <=> Has(toListener, k) \/ Has(s, k)
  BY <1>1, HasConcat
<1>4. QED
  BY <1>2, <1>3 DEF Travels

\* The queue keeps its order when none of the requests sent is an INVITE.
LEMMA SendOrder ==
  ASSUME NEW s \in Seq(Requests), toListener \in Seq(Requests), cseq \in {1, 2}, cseq' \in {1, 2},
         cseq <= cseq', QueueInv, Send(s), InOrder(s), Known(s, cseq'),
         Has(s, "INVITE") => ~Travels("ACK") /\ ~Travels("BYE")
  PROVE  QueueInv'
<1>1. toListener' = toListener \o s
  BY DEF Send
<1>2. Known(toListener, cseq')
  <2> SUFFICES ASSUME NEW i \in 1 .. Len(toListener), toListener[i].kind = "INVITE"
               PROVE  toListener[i].seq \in 1 .. cseq'
    BY DEF Known
  <2>1. toListener[i].seq \in 1 .. cseq
    BY DEF QueueInv, Known
  <2>2. QED
    BY <2>1
<1>3. InOrder(toListener \o s) /\ Known(toListener \o s, cseq')
  BY <1>2, OrderConcat DEF QueueInv, Travels
<1>4. QED
  BY <1>1, <1>3 DEF QueueInv

\* Queues of up to two requests of which none is an INVITE, and of an INVITE.
LEMMA FewInOrder ==
  ASSUME NEW r \in Requests, NEW t \in Requests, NEW n \in Nat, t.kind # "INVITE"
  PROVE  /\ <<>> \in Seq(Requests) /\ InOrder(<<>>) /\ Known(<<>>, n)
         /\ <<t>> \in Seq(Requests) /\ InOrder(<<t>>) /\ Known(<<t>>, n)
         /\ r.kind # "INVITE" =>
              <<t, r>> \in Seq(Requests) /\ InOrder(<<t, r>>) /\ Known(<<t, r>>, n)
         /\ r.seq \in 1 .. n => <<r>> \in Seq(Requests) /\ InOrder(<<r>>) /\ Known(<<r>>, n)
         /\ r.seq \in 1 .. n /\ t.kind \notin {"ACK", "BYE"} =>
              <<t, r>> \in Seq(Requests) /\ InOrder(<<t, r>>) /\ Known(<<t, r>>, n)
BY DEF InOrder, Known

\* What each list of requests that the client sends adds to the queue.
LEMMA Sending ==
  ASSUME SipInv, cseq' = cseq, NEW t \in Requests, NEW r \in Requests,
         t.kind # "INVITE", r.kind # "INVITE"
  PROVE  /\ UNCHANGED toListener => Adds({})
         /\ Send(<<>>) => Adds({})
         /\ Send(<<t>>) => Adds({t.kind})
         /\ Send(<<t, r>>) => Adds({t.kind, r.kind})
<1>1. toListener \in Seq(Requests) /\ QueueInv /\ cseq \in {1, 2} /\ cseq <= cseq'
  <2>1. toListener \in Seq(Requests) /\ QueueInv /\ cseq \in {1, 2}
    BY DEF SipInv, WireTypeOK, ClientCounts
  <2>2. QED
    BY <2>1
<1>2. UNCHANGED toListener => Adds({})
  BY <1>1 DEF Adds, Travels, QueueInv
<1>3. /\ <<>> \in Seq(Requests) /\ InOrder(<<>>) /\ Known(<<>>, cseq')
      /\ <<t>> \in Seq(Requests) /\ InOrder(<<t>>) /\ Known(<<t>>, cseq')
      /\ <<t, r>> \in Seq(Requests) /\ InOrder(<<t, r>>) /\ Known(<<t, r>>, cseq')
  BY <1>1, FewInOrder
<1>4. /\ \A k : ~Has(<<>>, k)
      /\ \A k : Has(<<t>>, k) <=> t.kind = k
      /\ \A k : Has(<<t, r>>, k) <=> (t.kind = k \/ r.kind = k)
  BY HasFew
<1>5. ASSUME Send(<<>>) PROVE Adds({})
  BY <1>1, <1>3, <1>4, <1>5, SendEffect, SendOrder DEF Adds
<1>6. ASSUME Send(<<t>>) PROVE Adds({t.kind})
  BY <1>1, <1>3, <1>4, <1>6, SendEffect, SendOrder DEF Adds
<1>7. ASSUME Send(<<t, r>>) PROVE Adds({t.kind, r.kind})
  BY <1>1, <1>3, <1>4, <1>7, SendEffect, SendOrder DEF Adds
<1>8. QED
  BY <1>2, <1>5, <1>6, <1>7

\* The requests of the client.
LEMMA Typed ==
  ASSUME SipInv
  PROVE  /\ Ack \in Requests /\ Ack.kind = "ACK"
         /\ AckError \in Requests /\ AckError.kind = "ACK error"
         /\ Bye \in Requests /\ Bye.kind = "BYE" /\ NextBye \in 0 .. MaxByes /\ NextBye > 0
         /\ Request("CANCEL", cseq) \in Requests /\ Request("CANCEL", cseq).kind = "CANCEL"
<1>1. cseq \in {1, 2} /\ byes \in 0 .. MaxByes
  BY DEF SipInv, ClientCounts
<1>2. NextBye \in 0 .. MaxByes /\ NextBye > 0
  BY <1>1, ClientConstants DEF NextBye
<1>3. QED
  BY <1>1, <1>2 DEF Ack, AckError, Bye, Request, Requests, RequestKinds

\* A step of the client keeps what the invariant says of the wire, of the listener and
\* of the agreement, if its ACK comes with the dialog or a BYE, if it lets a dialog go
\* only with a BYE, and if it starts no INVITE again.
LEMMA ClientStep ==
  ASSUME SipInv, NEW kinds, Adds(kinds), UNCHANGED listenerVars, toClient' \subseteq toClient,
         cseq' = cseq, Parted => Parted', "BYE" \in kinds => Parted',
         dialog' \/ "ACK" \in kinds \/ Parted' => Answered,
         inv # "none" => inv' # "none",
         "INVITE" \in kinds => inv' # "none" /\ ~NoMoreInvites,
         NoMoreInvites /\ inv' = "running" => inv = "running" /\ progress',
         "ACK" \in kinds => Byed' \/ (dialog' /\ closeAt' \notin {"joining", "closed"}),
         dialog /\ closeAt \notin {"joining", "closed"} =>
             Byed' \/ (dialog' /\ closeAt' \notin {"joining", "closed"})
  PROVE  /\ WireTypeOK' /\ ListenerTypeOK' /\ cseq' <= Served'
         /\ QueueInv' /\ WireInv' /\ ListenerInv' /\ Agreement'
         /\ Byed => Byed'
<1> USE DEF SipInv, listenerVars
<1>1. (Current' <=> Current) /\ Served' = Served
  BY DEF Current, Served
<1>2. \A k \in {"200", "BYE"} : Heard(k)' => Heard(k)
  BY DEF Heard
<1>3. /\ Travels("BYE")' <=> Travels("BYE") \/ "BYE" \in kinds
      /\ Travels("ACK")' <=> Travels("ACK") \/ "ACK" \in kinds
      /\ Travels("INVITE")' <=> Travels("INVITE") \/ "INVITE" \in kinds
      /\ QueueInv'
  BY DEF Adds
<1>4. WireInv'
  <2>1. Travels("BYE")' => Parted'
    BY <1>3 DEF WireInv
  <2>2. \A m \in toClient' :
          /\ m.kind = "401" => auth'
          /\ m.kind = "200" => m.seq = Served'
          /\ m.kind = "BYE 200" => Parted'
          /\ m.kind \in {"BYE", "BYE 200"} => ~act'
    BY <1>1 DEF WireInv
  <2>3. QED
    BY <2>1, <2>2 DEF WireInv
<1>5. Answered' => Answered
  BY <1>2, <1>3 DEF Answered
<1>6. NoMoreInvites /\ "INVITE" \notin kinds => NoMoreInvites'
  BY <1>1, <1>3 DEF NoMoreInvites
<1>7. ListenerInv'
  BY <1>1, <1>3, <1>5, <1>6 DEF ListenerInv
<1>8. Byed => Byed'
  BY <1>3 DEF Byed
<1>9. Agreement'
  BY <1>3, <1>8 DEF Agreement, Byed
<1>10. WireTypeOK' /\ ListenerTypeOK'
  BY DEF Adds, WireTypeOK, ListenerTypeOK
<1>11. QED
  BY <1>1, <1>3, <1>4, <1>7, <1>8, <1>9, <1>10

\* The INVITE goes out while nothing that ends it has (_run_invite).
LEMMA SendingInvite ==
  ASSUME SipInv, cseq' = cseq, inv \in {"none", "running"}, Send(<<Request("INVITE", cseq)>>)
  PROVE  Adds({"INVITE"})
<1>1. toListener \in Seq(Requests) /\ QueueInv /\ cseq \in {1, 2}
  BY DEF SipInv, WireTypeOK, ClientCounts
<1>2. ~Travels("ACK") /\ ~Travels("BYE")
  BY DEF SipInv, WireInv, ClientInv
<1> DEFINE r == Request("INVITE", cseq)
<1>3. r \in Requests /\ r.kind = "INVITE" /\ r.seq = cseq /\ cseq \in 1 .. cseq /\ cseq \in Nat /\ cseq <= cseq
  <2>1. cseq \in Nat /\ cseq <= cseq /\ cseq \in 1 .. cseq
    BY <1>1
  <2>2. QED
    BY <2>1 DEF Request, Requests, RequestKinds
<1>4. Ack \in Requests /\ Ack.kind = "ACK"
  BY Typed
<1> HIDE DEF r
<1>5. <<r>> \in Seq(Requests) /\ InOrder(<<r>>) /\ Known(<<r>>, cseq)
  BY <1>3, <1>4, FewInOrder
<1>6. \A k : Has(<<r>>, k) <=> r.kind = k
  BY <1>3, HasFew
<1>7. Send(<<r>>)
  BY DEF r
<1>8. QueueInv'
  BY <1>1, <1>2, <1>3, <1>5, <1>7, SendOrder
<1>9. QED
  BY <1>1, <1>3, <1>5, <1>6, <1>7, <1>8, SendEffect DEF Adds

-----------------------------------------------------------------------------
(* The steps of the client *)

\* The INVITE leaves, or is repeated, or times out.
LEMMA InviteSteps ==
  ASSUME SipInv, InviteStarts \/ InviteRepeats \/ InviteTimesOut, Client
  PROVE  SipInv'
<1> USE DEF Client
<1>1. CASE InviteStarts
  <2> USE <1>1 DEF InviteStarts, clientTx, clientTasks, clientClose
  <2>1. cseq' = cseq /\ Adds({"INVITE"})
    BY SendingInvite
  <2>2. ~NoMoreInvites /\ ~dialog /\ ~Travels("ACK") /\ ~Parted /\ fin = "none" /\ cleanup = "none"
    BY DEF SipInv, ClientInv, NoMoreInvites
  <2>3. Parted' = Parted /\ UNCHANGED Byed
    BY <2>1 DEF Parted, Byed, Adds, listenerVars
  <2>4. /\ WireTypeOK' /\ ListenerTypeOK' /\ cseq' <= Served'
        /\ QueueInv' /\ WireInv' /\ ListenerInv' /\ Agreement'
    BY <2>1, <2>2, <2>3, ClientStep DEF Answered
  <2>5. ClientInv'
    BY <2>1, <2>2, <2>3 DEF SipInv, ClientInv, Adds
  <2>6. ClientFlags' /\ ClientCounts'
    BY DEF SipInv, ClientFlags, ClientCounts
  <2>7. ClientPlaces'
    BY DEF SipInv, ClientPlaces
  <2>8. QED
    BY <2>4, <2>5, <2>6, <2>7 DEF SipInv
<1>2. CASE InviteRepeats
  <2> USE <1>2 DEF InviteRepeats, clientVars, clientTx, clientTasks, clientClose
  <2>1. cseq' = cseq /\ Adds({"INVITE"})
    BY SendingInvite
  <2>2. ~NoMoreInvites /\ ~dialog /\ ~Travels("ACK") /\ ~Parted
    BY DEF SipInv, ClientInv, NoMoreInvites
  <2>3. Parted' = Parted /\ UNCHANGED Byed
    BY <2>1 DEF Parted, Byed, Adds, listenerVars
  <2>4. /\ WireTypeOK' /\ ListenerTypeOK' /\ cseq' <= Served'
        /\ QueueInv' /\ WireInv' /\ ListenerInv' /\ Agreement'
    BY <2>1, <2>2, <2>3, ClientStep DEF Answered
  <2>5. ClientInv'
    BY <2>1, <2>2, <2>3 DEF SipInv, ClientInv, Adds
  <2>6. ClientFlags' /\ ClientCounts'
    BY DEF SipInv, ClientFlags, ClientCounts
  <2>7. ClientPlaces'
    BY DEF SipInv, ClientPlaces
  <2>8. QED
    BY <2>4, <2>5, <2>6, <2>7 DEF SipInv
<1>3. CASE InviteTimesOut
  <2> USE <1>3 DEF InviteTimesOut, wire, clientTx, clientTasks, clientClose
  <2>1. cseq' = cseq /\ Adds({})
    BY Sending, Typed
  <2>2. ~dialog /\ fin = "none" /\ ~Parted /\ Parted' = Parted
    BY DEF SipInv, ClientInv, Parted
  <2>3. UNCHANGED Byed /\ Travels("ACK")' = Travels("ACK")
    BY <2>1 DEF Byed, Travels, listenerVars
  <2>4. /\ WireTypeOK' /\ ListenerTypeOK' /\ cseq' <= Served'
        /\ QueueInv' /\ WireInv' /\ ListenerInv' /\ Agreement'
    BY <2>1, <2>2, <2>3, ClientStep DEF Answered
  <2>5. ClientInv'
    BY <2>1, <2>2, <2>3 DEF SipInv, ClientInv
  <2>6. ClientFlags' /\ ClientCounts'
    BY DEF SipInv, ClientFlags, ClientCounts
  <2>7. ClientPlaces'
    BY DEF SipInv, ClientPlaces, InviteEnds
  <2>8. QED
    BY <2>4, <2>5, <2>6, <2>7 DEF SipInv
<1>4. QED
  BY <1>1, <1>2, <1>3

\* The client's steps that send nothing and leave the dialog as it is.
LEMMA QuietSteps ==
  ASSUME SipInv, Client,
         FinalTimesOut \/ FlowGoesOn \/ TerminateReturns \/ CleanupStarts \/ CleanupCloses \/ CloseForces
  PROVE  SipInv'
<1> USE DEF Client
<1>1. /\ UNCHANGED <<wire, active, cancelReq, cancelSent, prov, progress, cseq, dialog, byes>>
      /\ inv' = inv \/ inv' = Aborted(inv)
      /\ \/ closeAt' = closeAt
         \/ closeAt' = "starting"
         \/ closeAt = "signaling" /\ closeAt' = "joining" /\ term # "starting"
  BY DEF FinalTimesOut, FlowGoesOn, TerminateReturns, CleanupStarts, CleanupCloses, CloseForces,
         clientTx, clientTasks, clientClose
<1>2. cseq' = cseq /\ Adds({}) /\ toClient' = toClient
  BY <1>1, Sending, Typed DEF wire
<1>3. Parted' = Parted /\ Byed' = Byed /\ Travels("ACK")' = Travels("ACK")
  BY <1>1 DEF Parted, Byed, Travels, listenerVars, wire
<1>4. /\ inv = "none" <=> inv' = "none"
      /\ NoMoreInvites /\ inv' = "running" => inv = "running" /\ progress'
  BY <1>1 DEF Aborted, NoMoreInvites
<1>5. dialog /\ closeAt \notin {"joining", "closed"} =>
             Byed' \/ (dialog' /\ closeAt' \notin {"joining", "closed"})
  BY <1>1, <1>3 DEF SipInv, ClientInv
<1>6. /\ WireTypeOK' /\ ListenerTypeOK' /\ cseq' <= Served'
      /\ QueueInv' /\ WireInv' /\ ListenerInv' /\ Agreement'
  BY <1>1, <1>2, <1>3, <1>4, <1>5, ClientStep DEF Answered
<1>7. ClientFlags' /\ ClientCounts'
  BY <1>1 DEF SipInv, ClientFlags, ClientCounts, FinalTimesOut, FlowGoesOn,
         TerminateReturns, CleanupStarts, CleanupCloses, CloseForces, clientClose
<1>8. ClientInv'
  <2> USE DEF SipInv, ClientInv, clientTasks, clientClose
  <2>1. CASE FinalTimesOut
    BY <1>1, <1>3, <2>1 DEF FinalTimesOut
  <2>2. CASE FlowGoesOn
    BY <1>1, <1>3, <2>2 DEF FlowGoesOn, InviteEnds
  <2>3. CASE TerminateReturns
    BY <1>1, <1>3, <2>3 DEF TerminateReturns
  <2>4. CASE CleanupStarts
    BY <1>1, <1>3, <2>4 DEF CleanupStarts
  <2>5. CASE CleanupCloses
    BY <1>1, <1>3, <2>5 DEF CleanupCloses
  <2>6. CASE CloseForces
    BY <1>1, <1>3, <2>6 DEF CloseForces, Aborted
  <2>7. QED
    BY <2>1, <2>2, <2>3, <2>4, <2>5, <2>6
<1>9. ClientPlaces'
  <2> USE DEF SipInv, ClientPlaces, clientTasks, clientClose, InviteEnds
  <2>1. CASE FinalTimesOut
    BY <2>1 DEF FinalTimesOut
  <2>2. CASE FlowGoesOn
    <3>1. UNCHANGED <<inv, cleanup, term, saw, closeAt>> /\ fin' \in {fin, "running"}
      BY <2>2 DEF FlowGoesOn
    <3>2. flow' \in {"dialog", "left", "final"}
      BY <2>2 DEF FlowGoesOn
    <3>3. fin' \in {"none", "running"} \cup (InviteEnds \ {"ringing"})
      BY <3>1
    <3>4. inv' \in {"none", "running"} \cup InviteEnds /\ UNCHANGED <<cleanup, term, saw, closeAt>>
      BY <3>1
    <3>5. QED
      BY <3>2, <3>3, <3>4
  <2>3. CASE TerminateReturns
    BY <2>3 DEF TerminateReturns
  <2>4. CASE CleanupStarts
    BY <2>4 DEF CleanupStarts
  <2>5. CASE CleanupCloses
    BY <2>5 DEF CleanupCloses
  <2>6. CASE CloseForces
    BY <2>6 DEF CloseForces, Aborted
  <2>7. QED
    BY <2>1, <2>2, <2>3, <2>4, <2>5, <2>6
<1>10. QED
  BY <1>6, <1>7, <1>8, <1>9 DEF SipInv

\* A CANCEL changes nothing that the invariant looks at (request_cancel).
LEMMA Cancelling ==
  ASSUME SipInv, cseq' = cseq, RequestCancel(<<>>)
  PROVE  Adds({}) /\ cancelReq' \in BOOLEAN /\ cancelSent' \in BOOLEAN
<1> DEFINE t == Request("CANCEL", cseq)
<1>1. t \in Requests /\ t.kind = "CANCEL"
  BY Typed
<1>2. cancelReq' \in BOOLEAN /\ cancelSent' \in BOOLEAN
  BY DEF RequestCancel
<1>3. Send(<<>>) \/ Send(<<t>>)
  <2>1. <<t>> \in Seq(Requests) /\ <<>> \in Seq(Requests)
    BY <1>1
  <2>2. <<>> \o <<t>> = <<t>> /\ <<>> \o <<>> = <<>>
    BY <2>1, ConcatEmptySeq
  <2>3. CASE CancelNow
    BY <2>2, <2>3 DEF RequestCancel
  <2>4. CASE ~CancelNow
    BY <2>2, <2>4 DEF RequestCancel
  <2>5. QED
    BY <2>3, <2>4
<1>4. Adds({}) \/ Adds({"CANCEL"})
  BY <1>1, <1>3, Sending
<1>5. QED
  BY <1>2, <1>4 DEF Adds

\* A 200 is acknowledged, and its dialog taken or ended at once (_commit_200_ok).
LEMMA Answering ==
  ASSUME SipInv, cseq' = cseq, NEW compatible \in BOOLEAN, NEW ended \in BOOLEAN,
         CommitAnswer(compatible, ended)
  PROVE  /\ active' = FALSE /\ dialog' \in BOOLEAN /\ byes' \in 0 .. MaxByes
         /\ Parted => Parted'
         /\ dialog' <=> dialog \/ Commits(compatible)
         /\ \/ Adds({"ACK"}) /\ Parted' = Parted /\ dialog' /\ ~closing
            \/ Adds({"ACK", "BYE"}) /\ Parted'
<1>1. /\ Ack \in Requests /\ Ack.kind = "ACK"
      /\ Bye \in Requests /\ Bye.kind = "BYE" /\ NextBye \in 0 .. MaxByes /\ NextBye > 0
  BY Typed
<1>2. active' = FALSE /\ (dialog' <=> dialog \/ Commits(compatible)) /\ dialog' \in BOOLEAN
  BY DEF CommitAnswer
<1>3. byes \in 0 .. MaxByes
  BY DEF SipInv, ClientCounts
<1>4. CASE ended \/ ~Commits(compatible)
  <2>1. Send(<<Ack, Bye>>) /\ byes' = NextBye
    BY <1>4 DEF CommitAnswer
  <2>2. Adds({"ACK", "BYE"})
    BY <1>1, <2>1, Sending
  <2>3. Parted' /\ byes' \in 0 .. MaxByes
    BY <1>1, <2>1 DEF Parted
  <2>4. QED
    BY <1>2, <2>2, <2>3
<1>5. CASE ~(ended \/ ~Commits(compatible))
  <2>1. Send(<<Ack>>) /\ byes' = byes
    BY <1>5 DEF CommitAnswer
  <2>2. Adds({"ACK"})
    BY <1>1, <2>1, Sending
  <2>3. Parted' = Parted /\ byes' \in 0 .. MaxByes
    BY <1>3, <2>1 DEF Parted
  <2>4. dialog' /\ ~closing
    BY <1>2, <1>5 DEF Commits
  <2>5. QED
    BY <1>2, <2>2, <2>3, <2>4
<1>6. QED
  BY <1>4, <1>5

\* What the invariant says after a reader has committed to an answer, but for the
\* places of its own task.
LEMMA AnswerStep ==
  ASSUME SipInv, NEW m \in toClient, m.kind = "200", toClient' \subseteq toClient,
         NEW compatible \in BOOLEAN, NEW ended \in BOOLEAN, CommitAnswer(compatible, ended),
         UNCHANGED <<listenerVars, cseq, closeAt, progress>>, inv' = inv \/ inv' \in {"in_call", "failed"},
         inv # "none"
  PROVE  /\ WireTypeOK' /\ ListenerTypeOK' /\ cseq' <= Served'
         /\ QueueInv' /\ WireInv' /\ ListenerInv' /\ Agreement'
         /\ Byed => Byed'
         /\ active' = FALSE /\ dialog' \in BOOLEAN /\ ClientCounts'
         /\ (dialog' /\ ~closing) \/ Byed'
         /\ dialog' => dialog \/ ~closing
<1>1. cseq' = cseq
  OBVIOUS
<1>2. /\ active' = FALSE /\ dialog' \in BOOLEAN /\ byes' \in 0 .. MaxByes
      /\ Parted => Parted'
      /\ dialog' <=> dialog \/ Commits(compatible)
      /\ \/ Adds({"ACK"}) /\ Parted' = Parted /\ dialog' /\ ~closing
         \/ Adds({"ACK", "BYE"}) /\ Parted'
  BY <1>1, Answering
<1>3. Answered
  BY DEF Answered, Heard
<1>4. ~closing => closeAt' = "none"
  BY DEF SipInv, ClientInv
<1>5. inv # "none" => inv' # "none"
  OBVIOUS
<1>6. NoMoreInvites /\ inv' = "running" => inv = "running" /\ progress'
  BY DEF NoMoreInvites
<1>7. UNCHANGED listenerVars /\ dialog' \in BOOLEAN /\ ClientCounts'
  BY <1>2 DEF SipInv, ClientCounts
<1>8. CASE Adds({"ACK"}) /\ Parted' = Parted /\ dialog' /\ ~closing
  <2>1. Parted' => Answered
    BY <1>8 DEF Answered
  <2>2. closeAt' \notin {"joining", "closed"}
    BY <1>4, <1>8
  <2>3. /\ WireTypeOK' /\ ListenerTypeOK' /\ cseq' <= Served'
        /\ QueueInv' /\ WireInv' /\ ListenerInv' /\ Agreement'
        /\ Byed => Byed'
    BY <1>1, <1>3, <1>5, <1>6, <1>7, <1>8, <2>1, <2>2, ClientStep
  <2>4. QED
    BY <1>2, <1>7, <1>8, <2>3
<1>9. CASE Adds({"ACK", "BYE"}) /\ Parted'
  <2>1. Byed'
    BY <1>9 DEF Adds, Byed
  <2>2. /\ WireTypeOK' /\ ListenerTypeOK' /\ cseq' <= Served'
        /\ QueueInv' /\ WireInv' /\ ListenerInv' /\ Agreement'
        /\ Byed => Byed'
    BY <1>1, <1>3, <1>5, <1>6, <1>7, <1>9, <2>1, ClientStep
  <2>3. dialog' => dialog \/ ~closing
    BY <1>2 DEF Commits
  <2>4. QED
    BY <1>2, <1>7, <2>1, <2>2, <2>3
<1>10. QED
  BY <1>2, <1>8, <1>9

\* The INVITE and its waiting task end as they may, and the rest of the client's
\* places stay.
LEMMA PlacesKept ==
  ASSUME ClientPlaces, inv' = inv \/ inv' \in InviteEnds,
         fin' = fin \/ fin' \in InviteEnds \ {"ringing"},
         UNCHANGED <<flow, cleanup, term, saw, closeAt>>
  PROVE  ClientPlaces'
<1>1. inv' \in {"none", "running"} \cup InviteEnds
  BY DEF ClientPlaces
<1>2. fin' \in {"none", "running"} \cup (InviteEnds \ {"ringing"})
  BY DEF ClientPlaces
<1>3. QED
  BY <1>1, <1>2 DEF ClientPlaces

\* The INVITE task reads a response (_run_invite).
LEMMA InviteReadStep ==
  ASSUME SipInv, NEW m, InviteReads(m), Client
  PROVE  SipInv'
<1> USE DEF Client
<1>1. /\ inv = "running" /\ m \in toClient /\ toClient' = toClient \ {m}
      /\ UNCHANGED <<fin, flow, cleanup, term, saw, closeAt, closing, listenerVars>>
  BY DEF InviteReads, Taken, clientClose
<1>2. ~dialog /\ ~Travels("ACK") /\ ~Parted /\ fin = "none" /\ term # "cancel"
  BY <1>1 DEF SipInv, ClientInv
<1>3. m \in Responses /\ toClient' \subseteq toClient
  BY <1>1 DEF SipInv, WireTypeOK
\* What is left to show when the INVITE and its number stay.
<1>4. ASSUME Adds({}), cseq' = cseq, byes' = byes, dialog' = dialog, inv' \in {"running", "ringing", "failed"},
             ClientFlags', inv' = "running" => progress' \/ progress' = progress
      PROVE  SipInv'
  <2>1. Parted' = Parted /\ (Byed' <=> Byed) /\ (Travels("ACK")' <=> Travels("ACK"))
    BY <1>1, <1>4 DEF Parted, Byed, Adds, listenerVars
  <2>2. NoMoreInvites /\ inv' = "running" => inv = "running" /\ progress'
    BY <1>1, <1>4 DEF NoMoreInvites
  <2>3. inv' # "none" /\ UNCHANGED listenerVars
    BY <1>1, <1>4
  <2>4. /\ WireTypeOK' /\ ListenerTypeOK' /\ cseq' <= Served'
        /\ QueueInv' /\ WireInv' /\ ListenerInv' /\ Agreement'
    BY <1>2, <1>3, <1>4, <2>1, <2>2, <2>3, ClientStep DEF Answered
  <2>5. ClientInv'
    BY <1>1, <1>2, <1>4, <2>1 DEF SipInv, ClientInv
  <2>6. ClientCounts'
    BY <1>4 DEF SipInv, ClientCounts
  <2>7. ClientPlaces'
    <3>1. inv' = inv \/ inv' \in InviteEnds
      BY <1>1, <1>4 DEF InviteEnds
    <3>2. UNCHANGED <<fin, flow, cleanup, term, saw, closeAt>>
      BY <1>1
    <3>3. QED
      BY <3>1, <3>2, PlacesKept DEF SipInv
  <2>8. QED
    BY <1>4, <2>4, <2>5, <2>6, <2>7 DEF SipInv
<1>5. CASE m.kind \notin {"100", "180", "200", "401", "final"} \/ m.seq # cseq
  <2>1. UNCHANGED <<toListener, inv, active, cancelReq, cancelSent, prov, progress, cseq, dialog, byes>>
    BY <1>5 DEF InviteReads, clientTx
  <2>2. Adds({})
    BY <2>1, Sending, Typed
  <2>3. ClientFlags'
    BY <1>1, <2>1 DEF SipInv, ClientFlags
  <2>4. QED
    BY <1>1, <1>4, <2>1, <2>2, <2>3
<1>6. CASE m.kind \in {"100", "180", "200", "401", "final"} /\ m.seq = cseq
  <2>1. CASE /\ m.kind \in {"100", "180"}
             /\ prov' = TRUE /\ progress' = TRUE
             /\ inv' = IF m.kind = "180" /\ ~cancelReq THEN "ringing" ELSE inv
             /\ cancelSent' = (cancelSent \/ cancelReq)
             /\ Send(IF cancelReq /\ ~cancelSent THEN <<Request("CANCEL", cseq)>> ELSE <<>>)
             /\ UNCHANGED <<active, cancelReq, cseq, dialog, byes>>
    <3>1. Send(<<Request("CANCEL", cseq)>>) \/ Send(<<>>)
      BY <2>1
    <3>2. Adds({"CANCEL"}) \/ Adds({})
      BY <2>1, <3>1, Sending, Typed
    <3>3. Adds({})
      BY <3>2 DEF Adds
    <3>4. ClientFlags'
      BY <1>1, <2>1 DEF SipInv, ClientFlags
    <3>5. inv' \in {"running", "ringing"}
      BY <1>1, <2>1
    <3>6. QED
      BY <1>4, <2>1, <3>3, <3>4, <3>5
  <2>2. CASE /\ m.kind = "200"
             /\ \E compatible \in BOOLEAN :
                  /\ CommitAnswer(compatible, cancelReq)
                  /\ inv' = IF Commits(compatible) /\ ~cancelReq THEN "in_call" ELSE "failed"
             /\ NoCancel /\ UNCHANGED <<prov, progress, cseq>>
    <3>1. PICK compatible \in BOOLEAN :
                  /\ CommitAnswer(compatible, cancelReq)
                  /\ inv' = IF Commits(compatible) /\ ~cancelReq THEN "in_call" ELSE "failed"
      BY <2>2
    <3>2. cancelReq \in BOOLEAN /\ inv' \in {"in_call", "failed"} /\ inv # "none"
      BY <1>1, <3>1 DEF SipInv, ClientFlags
    <3>3. UNCHANGED <<listenerVars, cseq, closeAt, progress>>
      BY <1>1, <2>2
    <3>4. /\ WireTypeOK' /\ ListenerTypeOK' /\ cseq' <= Served'
          /\ QueueInv' /\ WireInv' /\ ListenerInv' /\ Agreement'
          /\ Byed => Byed'
          /\ active' = FALSE /\ dialog' \in BOOLEAN /\ ClientCounts'
          /\ (dialog' /\ ~closing) \/ Byed'
          /\ dialog' => dialog \/ ~closing
      BY <1>1, <1>3, <2>2, <3>1, <3>2, <3>3, AnswerStep
    <3>5. ClientInv'
      BY <1>1, <1>2, <3>2, <3>4 DEF SipInv, ClientInv
    <3>6. ClientFlags'
      BY <1>1, <2>2, <3>4 DEF SipInv, ClientFlags, NoCancel
    <3>7. ClientPlaces'
      <4>1. inv' \in InviteEnds
        BY <3>2 DEF InviteEnds
      <4>2. UNCHANGED <<fin, flow, cleanup, term, saw, closeAt>>
        BY <1>1
      <4>3. QED
        BY <4>1, <4>2, PlacesKept DEF SipInv
    <3>8. QED
      BY <3>4, <3>5, <3>6, <3>7 DEF SipInv
  <2>3. CASE /\ m.kind = "401" /\ cseq = 1 /\ ~cancelReq
             /\ cseq' = 2 /\ progress' = FALSE
             /\ Send(<<AckError, Request("INVITE", 2)>>)
             /\ NoCancel /\ UNCHANGED <<inv, active, prov, dialog, byes>>
    <3> DEFINE t == AckError
               r == Request("INVITE", 2)
    <3>1. auth /\ Served = 2 /\ ~Current
      <4>1. auth
        BY <1>1, <2>3 DEF SipInv, WireInv
      <4>2. QED
        BY <2>3, <4>1 DEF Served, Current
    <3>2. pend = "none" /\ ~act /\ ~Answered /\ ~ackPending
      BY <3>1 DEF SipInv, ListenerInv
    <3>3. t \in Requests /\ t.kind = "ACK error"
      BY Typed
    <3>4. r \in Requests /\ r.kind = "INVITE" /\ r.seq = 2
      BY DEF Request, Requests, RequestKinds
    <3> HIDE DEF t, r
    <3>5. <<t, r>> \in Seq(Requests) /\ InOrder(<<t, r>>) /\ Known(<<t, r>>, 2)
      <4>1. 2 \in Nat /\ r.seq \in 1 .. 2
        BY <3>4
      <4>2. t.kind # "INVITE" /\ t.kind \notin {"ACK", "BYE"}
        BY <3>3
      <4>3. QED
        BY <3>3, <3>4, <4>1, <4>2, FewInOrder
    <3>6. \A k : Has(<<t, r>>, k) <=> (t.kind = k \/ r.kind = k)
      BY <3>3, <3>4, HasFew
    <3>7. Send(<<t, r>>) /\ toListener \in Seq(Requests) /\ QueueInv /\ cseq = 1 /\ cseq' = 2
      BY <2>3 DEF t, r, SipInv, WireTypeOK
    <3> DEFINE s == <<t, r>>
    <3>20. cseq \in {1, 2} /\ cseq' \in {1, 2} /\ cseq <= cseq'
      BY <3>7
    <3>8. ~Travels("ACK") /\ ~Travels("BYE")
      BY <1>2 DEF SipInv, WireInv
    <3>9. /\ toListener' \in Seq(Requests)
          /\ \A k : Travels(k)' <=> Travels(k) \/ Has(<<t, r>>, k)
      BY <3>5, <3>7, SendEffect
    <3>10. QueueInv'
      <4>1. s \in Seq(Requests) /\ InOrder(s) /\ Known(s, cseq') /\ Send(s)
        BY <3>5, <3>7
      <4> HIDE DEF s
      <4>2. QED
        BY <3>7, <3>8, <3>20, <4>1, SendOrder
    <3>11. ~Travels("ACK")' /\ ~Travels("BYE")' /\ Parted' = Parted /\ Served' = 2
      <4>1. ~Travels("ACK")' /\ ~Travels("BYE")'
        BY <3>3, <3>4, <3>6, <3>8, <3>9
      <4>2. QED
        BY <1>1, <2>3, <3>1, <4>1 DEF Parted, listenerVars, Served
    <3>12. WireTypeOK' /\ ListenerTypeOK'
      BY <1>1, <1>3, <3>9 DEF SipInv, WireTypeOK, ListenerTypeOK, listenerVars
    <3>13. WireInv'
      <4>1. auth' /\ ~act' /\ toClient' \subseteq toClient /\ Served' = Served
        BY <1>1, <1>3, <3>1, <3>2, <3>11 DEF listenerVars
      <4>2. QED
        BY <1>2, <3>11, <4>1 DEF SipInv, WireInv
    <3>14. ClientInv'
      BY <1>1, <1>2, <2>3, <3>11 DEF SipInv, ClientInv
    <3>15. ~Heard("200")' /\ ~Heard("BYE")' /\ ~Answered'
      BY <1>2, <1>3, <2>3, <3>2, <3>11 DEF Answered, Heard
    <3>16. ListenerInv' /\ Agreement'
      BY <1>1, <2>3, <3>2, <3>15 DEF ListenerInv, Agreement, listenerVars
    <3>17. ClientFlags' /\ ClientCounts' /\ cseq' <= Served'
      <4>1. ClientFlags'
        BY <1>1, <2>3 DEF SipInv, ClientFlags, NoCancel
      <4>2. ClientCounts' /\ cseq' <= Served'
        BY <2>3, <3>11 DEF SipInv, ClientCounts
      <4>3. QED
        BY <4>1, <4>2
    <3>18. ClientPlaces'
      BY <1>1, <2>3 DEF SipInv, ClientPlaces
    <3>19. QED
      BY <3>10, <3>12, <3>13, <3>14, <3>16, <3>17, <3>18 DEF SipInv
  <2>4. CASE /\ m.kind = "final" \/ (m.kind = "401" /\ cancelReq)
             /\ inv' = "failed"
             /\ active' = FALSE
             /\ Send(<<AckError>>)
             /\ NoCancel /\ UNCHANGED <<prov, progress, cseq, dialog, byes>>
    <3>1. Adds({"ACK error"})
      BY <2>4, Sending, Typed
    <3>2. Adds({})
      BY <3>1 DEF Adds
    <3>3. ClientFlags'
      BY <1>1, <2>4 DEF SipInv, ClientFlags, NoCancel
    <3>4. QED
      BY <1>4, <2>4, <3>2, <3>3
  <2>5. QED
    BY <1>6, <2>1, <2>2, <2>3, <2>4 DEF InviteReads
<1>7. QED
  BY <1>5, <1>6

\* The task of wait_for_final reads a response.
LEMMA FinalReadStep ==
  ASSUME SipInv, NEW m, FinalReads(m), Client
  PROVE  SipInv'
<1> USE DEF Client
<1>1. /\ fin = "running" /\ m \in toClient /\ toClient' = toClient \ {m}
      /\ UNCHANGED <<inv, cancelReq, cancelSent, prov, progress, cseq, flow>>
      /\ UNCHANGED <<cleanup, term, saw, closeAt, closing, listenerVars>>
  BY DEF FinalReads, Taken, clientClose
<1>2. inv = "ringing" /\ closeAt \notin {"joining", "closed"}
  BY <1>1 DEF SipInv, ClientInv
<1>3. toClient' \subseteq toClient
  BY <1>1
\* What is left to show when no answer is committed to.
<1>4. ASSUME Adds({}), byes' = byes, dialog' = dialog, fin' \in {"running", "failed"},
             active' \in BOOLEAN
      PROVE  SipInv'
  <2>1. Parted' = Parted /\ (Byed' <=> Byed) /\ (Travels("ACK")' <=> Travels("ACK"))
    BY <1>1, <1>4 DEF Parted, Byed, Adds, listenerVars
  <2>2. inv' # "running" /\ inv' # "none" /\ cseq' = cseq /\ UNCHANGED listenerVars
    BY <1>1, <1>2
  <2>3. /\ WireTypeOK' /\ ListenerTypeOK' /\ cseq' <= Served'
        /\ QueueInv' /\ WireInv' /\ ListenerInv' /\ Agreement'
    BY <1>1, <1>2, <1>3, <1>4, <2>1, <2>2, ClientStep DEF Answered
  <2>4. ClientInv'
    BY <1>1, <1>2, <1>4, <2>1 DEF SipInv, ClientInv
  <2>5. ClientFlags' /\ ClientCounts'
    BY <1>1, <1>4 DEF SipInv, ClientFlags, ClientCounts
  <2>6. ClientPlaces'
    <3>1. fin' = fin \/ fin' \in InviteEnds \ {"ringing"}
      BY <1>1, <1>4 DEF InviteEnds
    <3>2. UNCHANGED <<inv, flow, cleanup, term, saw, closeAt>>
      BY <1>1
    <3>3. QED
      BY <3>1, <3>2, PlacesKept DEF SipInv
  <2>7. QED
    BY <2>3, <2>4, <2>5, <2>6 DEF SipInv
<1>5. CASE m.kind \notin {"200", "final", "401"} \/ m.seq # cseq
  <2>1. UNCHANGED <<toListener, fin, active, dialog, byes>>
    BY <1>5 DEF FinalReads
  <2>2. Adds({})
    BY <1>1, <2>1, Sending, Typed
  <2>3. active' \in BOOLEAN
    BY <2>1 DEF SipInv, ClientFlags
  <2>4. QED
    BY <1>1, <1>4, <2>1, <2>2, <2>3
<1>6. CASE m.kind \in {"200", "final", "401"} /\ m.seq = cseq
  <2>1. CASE /\ m.kind = "200"
             /\ \E compatible \in BOOLEAN :
                  /\ CommitAnswer(compatible, FALSE)
                  /\ fin' = IF Commits(compatible) THEN "in_call" ELSE "failed"
    <3>1. PICK compatible \in BOOLEAN :
                  /\ CommitAnswer(compatible, FALSE)
                  /\ fin' = IF Commits(compatible) THEN "in_call" ELSE "failed"
      BY <2>1
    <3>2. fin' \in {"in_call", "failed"} /\ inv # "none" /\ FALSE \in BOOLEAN /\ inv' = inv
      BY <1>1, <1>2, <3>1
    <3>3. UNCHANGED <<listenerVars, cseq, closeAt, progress>>
      BY <1>1
    <3>4. /\ WireTypeOK' /\ ListenerTypeOK' /\ cseq' <= Served'
          /\ QueueInv' /\ WireInv' /\ ListenerInv' /\ Agreement'
          /\ Byed => Byed'
          /\ active' = FALSE /\ dialog' \in BOOLEAN /\ ClientCounts'
          /\ (dialog' /\ ~closing) \/ Byed'
          /\ dialog' => dialog \/ ~closing
      BY <1>1, <1>3, <2>1, <3>1, <3>2, <3>3, AnswerStep
    <3>5. ClientInv'
      BY <1>1, <1>2, <3>2, <3>4 DEF SipInv, ClientInv
    <3>6. ClientFlags'
      BY <1>1, <3>4 DEF SipInv, ClientFlags
    <3>7. ClientPlaces'
      <4>1. fin' \in InviteEnds \ {"ringing"}
        BY <3>2 DEF InviteEnds
      <4>2. UNCHANGED <<inv, flow, cleanup, term, saw, closeAt>>
        BY <1>1
      <4>3. QED
        BY <4>1, <4>2, PlacesKept DEF SipInv
    <3>8. QED
      BY <3>4, <3>5, <3>6, <3>7 DEF SipInv
  <2>2. CASE /\ m.kind # "200"
             /\ fin' = "failed" /\ active' = FALSE
             /\ Send(<<AckError>>)
             /\ UNCHANGED <<dialog, byes>>
    <3>1. Adds({"ACK error"})
      BY <1>1, <2>2, Sending, Typed
    <3>2. Adds({})
      BY <3>1 DEF Adds
    <3>3. QED
      BY <1>4, <2>2, <3>2
  <2>3. QED
    BY <1>6, <2>1, <2>2 DEF FinalReads
<1>7. QED
  BY <1>5, <1>6

\* What is left to show of a step that adds no request the invariant looks at, and
\* sends or ends no BYE.
LEMMA IdleStep ==
  ASSUME SipInv, UNCHANGED <<listenerVars, inv, fin, cseq, byes, dialog, progress, closing>>,
         Adds({}), toClient' \subseteq toClient
  PROVE  /\ Parted' = Parted /\ (Byed' <=> Byed) /\ (Travels("ACK")' <=> Travels("ACK"))
         /\ \/ closeAt' \notin {"joining", "closed"} \/ closeAt' = closeAt \/ ~dialog \/ Byed
            => /\ WireTypeOK' /\ ListenerTypeOK' /\ cseq' <= Served'
               /\ QueueInv' /\ WireInv' /\ ListenerInv' /\ Agreement'
<1>1. Parted' = Parted /\ (Byed' <=> Byed) /\ (Travels("ACK")' <=> Travels("ACK"))
  BY DEF Parted, Byed, Adds, listenerVars
<1>2. ASSUME \/ closeAt' \notin {"joining", "closed"} \/ closeAt' = closeAt \/ ~dialog \/ Byed
      PROVE  /\ WireTypeOK' /\ ListenerTypeOK' /\ cseq' <= Served'
             /\ QueueInv' /\ WireInv' /\ ListenerInv' /\ Agreement'
  <2>1. NoMoreInvites /\ inv' = "running" => inv = "running" /\ progress'
    BY DEF NoMoreInvites
  <2>2. UNCHANGED listenerVars /\ cseq' = cseq /\ dialog' = dialog /\ inv' = inv
    OBVIOUS
  <2>3. QED
    BY <1>1, <1>2, <2>1, <2>2, ClientStep DEF Answered
<1>3. QED
  BY <1>1, <1>2

\* The caller's task is cancelled (CancelledError in invite or wait_for_final).
LEMMA FlowCancelledStep ==
  ASSUME SipInv, FlowCancelled, Client
  PROVE  SipInv'
<1> USE DEF Client, clientTasks, clientClose
<1>1. UNCHANGED <<listenerVars, inv, fin, active, prov, progress, cseq, dialog, byes>>
  BY DEF FlowCancelled
<1>2. UNCHANGED <<toClient, cleanup, term, saw, closeAt, closing>> /\ flow' = "left"
  BY DEF FlowCancelled
<1>3. Adds({}) /\ cancelReq' \in BOOLEAN /\ cancelSent' \in BOOLEAN
  <2>1. CASE RequestCancel(<<>>)
    BY <1>1, <2>1, Cancelling
  <2>2. CASE NoCancel /\ UNCHANGED toListener
    BY <1>1, <2>2, Sending, Typed DEF NoCancel, SipInv, ClientFlags
  <2>3. QED
    BY <2>1, <2>2 DEF FlowCancelled
<1>4. /\ Parted' = Parted /\ (Byed' <=> Byed) /\ (Travels("ACK")' <=> Travels("ACK"))
      /\ WireTypeOK' /\ ListenerTypeOK' /\ cseq' <= Served'
      /\ QueueInv' /\ WireInv' /\ ListenerInv' /\ Agreement'
  BY <1>1, <1>2, <1>3, IdleStep
<1>5. ClientInv'
  BY <1>1, <1>2, <1>4 DEF SipInv, ClientInv
<1>6. ClientFlags' /\ ClientCounts'
  BY <1>1, <1>2, <1>3 DEF SipInv, ClientFlags, ClientCounts
<1>7. ClientPlaces'
  BY <1>1, <1>2 DEF SipInv, ClientPlaces
<1>8. QED
  BY <1>4, <1>5, <1>6, <1>7 DEF SipInv

\* close() begins: it asks for the end of the task it finds (_close).
LEMMA CloseRunsStep ==
  ASSUME SipInv, CloseRuns, Client
  PROVE  SipInv'
<1> USE DEF Client, clientTasks, clientClose
<1>1. UNCHANGED <<listenerVars, inv, fin, active, prov, progress, cseq, dialog, byes>>
  BY DEF CloseRuns
<1>2. /\ UNCHANGED <<toClient, flow, cleanup, saw, closing>> /\ closeAt = "starting"
      /\ closeAt' = IF OwnedTask = "none" THEN "joining" ELSE "signaling"
      /\ term' = IF OwnedTask = "terminate" THEN "starting" ELSE term
  BY DEF CloseRuns
<1>3. Adds({}) /\ cancelReq' \in BOOLEAN /\ cancelSent' \in BOOLEAN
  <2>1. CASE RequestCancel(<<>>)
    BY <1>1, <2>1, Cancelling
  <2>2. CASE NoCancel /\ UNCHANGED toListener
    BY <1>1, <2>2, Sending, Typed DEF NoCancel, SipInv, ClientFlags
  <2>3. QED
    BY <2>1, <2>2 DEF CloseRuns
<1>4. closeAt' = "joining" => ~dialog /\ fin # "running" /\ inv # "running"
  BY <1>2 DEF OwnedTask
<1>5. /\ Parted' = Parted /\ (Byed' <=> Byed) /\ (Travels("ACK")' <=> Travels("ACK"))
      /\ WireTypeOK' /\ ListenerTypeOK' /\ cseq' <= Served'
      /\ QueueInv' /\ WireInv' /\ ListenerInv' /\ Agreement'
  BY <1>1, <1>2, <1>3, <1>4, IdleStep
<1>6. closeAt' = "signaling" /\ dialog => Byed \/ term' = "starting"
  BY <1>2 DEF OwnedTask, SipInv, ClientInv
<1>7. term' = "cancel" => term = "cancel"
  BY <1>2
<1>8. ClientInv'
  BY <1>1, <1>2, <1>4, <1>5, <1>6, <1>7 DEF SipInv, ClientInv
<1>9. ClientFlags' /\ ClientCounts'
  BY <1>1, <1>2, <1>3 DEF SipInv, ClientFlags, ClientCounts
<1>10. ClientPlaces'
  BY <1>1, <1>2 DEF SipInv, ClientPlaces
<1>11. QED
  BY <1>5, <1>8, <1>9, <1>10 DEF SipInv

\* A repeated 200 is acknowledged again, as long as there is a dialog
\* (_ack_retransmitted_invite_2xx).
LEMMA Acknowledging ==
  ASSUME SipInv, Client, NEW c, c => dialog, Send(IF c THEN <<Ack>> ELSE <<>>),
         UNCHANGED <<inv, fin, cseq, byes, dialog, progress, closing, closeAt>>, toClient' \subseteq toClient
  PROVE  /\ Parted' = Parted /\ (Byed => Byed') /\ (Travels("ACK")' => Travels("ACK") \/ dialog)
         /\ WireTypeOK' /\ ListenerTypeOK' /\ cseq' <= Served'
         /\ QueueInv' /\ WireInv' /\ ListenerInv' /\ Agreement'
<1>1. UNCHANGED listenerVars /\ cseq' = cseq
  BY DEF Client
<1>2. CASE c
  <2>1. Send(<<Ack>>) /\ dialog
    BY <1>2
  <2>2. Adds({"ACK"})
    BY <1>1, <2>1, Sending, Typed
  <2>3. Parted' = Parted /\ (Byed' <=> Byed) /\ Answered /\ dialog' /\ inv' = inv
    BY <1>1, <2>1, <2>2 DEF Parted, Byed, Adds, Answered, listenerVars
  <2>4. NoMoreInvites /\ inv' = "running" => inv = "running" /\ progress'
    BY DEF NoMoreInvites
  <2>5. closeAt \in {"joining", "closed"} => Byed'
    BY <2>1, <2>3 DEF SipInv, ClientInv
  <2>6. closeAt' = closeAt
    OBVIOUS
  <2>7. /\ WireTypeOK' /\ ListenerTypeOK' /\ cseq' <= Served'
        /\ QueueInv' /\ WireInv' /\ ListenerInv' /\ Agreement'
    BY <1>1, <2>2, <2>3, <2>4, <2>5, <2>6, ClientStep
  <2>8. QED
    BY <2>1, <2>3, <2>7
<1>3. CASE ~c
  <2>1. Adds({})
    BY <1>1, <1>3, Sending, Typed
  <2>2. QED
    BY <1>1, <2>1, IdleStep
<1>4. QED
  BY <1>2, <1>3

\* A dialog that is over at the listener, or has its BYE, is forgotten.
LEMMA DialogEnds ==
  ASSUME SipInv, UNCHANGED <<listenerVars, inv, fin, cseq, byes, progress, closing, toListener>>,
         toClient' \subseteq toClient, dialog' => dialog, ~dialog \/ Byed
  PROVE  /\ Parted' = Parted /\ (Byed' <=> Byed) /\ (Travels("ACK")' <=> Travels("ACK"))
         /\ WireTypeOK' /\ ListenerTypeOK' /\ cseq' <= Served'
         /\ QueueInv' /\ WireInv' /\ ListenerInv' /\ Agreement'
<1>1. Adds({}) /\ cseq' = cseq
  BY Sending, Typed
<1>2. Parted' = Parted /\ (Byed' <=> Byed) /\ (Travels("ACK")' <=> Travels("ACK"))
  BY <1>1 DEF Parted, Byed, Adds, listenerVars
<1>3. NoMoreInvites /\ inv' = "running" => inv = "running" /\ progress'
  BY DEF NoMoreInvites
<1>4. inv' = inv /\ UNCHANGED listenerVars
  OBVIOUS
<1>5. /\ WireTypeOK' /\ ListenerTypeOK' /\ cseq' <= Served'
      /\ QueueInv' /\ WireInv' /\ ListenerInv' /\ Agreement'
  BY <1>1, <1>2, <1>3, <1>4, ClientStep DEF Answered
<1>6. QED
  BY <1>2, <1>5

\* The task that waits for the end of the dialog reads a message.
LEMMA DialogReadStep ==
  ASSUME SipInv, NEW m, DialogReads(m), Client
  PROVE  SipInv'
<1>1. /\ m \in toClient /\ toClient' = toClient \ {m} /\ UNCHANGED listenerVars
      /\ UNCHANGED <<inv, fin, active, cancelReq, cancelSent, prov, progress, cseq, byes>>
      /\ UNCHANGED <<cleanup, term, saw, closeAt, closing>>
  BY DEF DialogReads, Taken, clientTasks, clientTx, clientClose, Client
<1>2. toClient' \subseteq toClient
  BY <1>1
<1>3. /\ flow' \in {flow, "left"}
      /\ dialog' = dialog \/ dialog' = FALSE
  BY DEF DialogReads
<1>4. ClientFlags' /\ ClientCounts'
  BY <1>1, <1>3 DEF SipInv, ClientFlags, ClientCounts
<1>5. ClientPlaces'
  <2>1. UNCHANGED <<inv, fin, cleanup, term, saw, closeAt>>
    BY <1>1
  <2>2. flow' = flow \/ flow' = "left"
    BY <1>3
  <2>3. ClientPlaces /\ flow' \in {"invite", "final", "dialog", "left"}
    BY <2>2 DEF SipInv, ClientPlaces
  <2>4. QED
    BY <2>1, <2>3 DEF ClientPlaces
<1>6. CASE m.kind = "BYE"
  <2>1. dialog' = FALSE /\ toListener' = toListener
    BY <1>6 DEF DialogReads
  <2>2. Byed
    BY <1>1, <1>6 DEF SipInv, WireInv, Byed
  <2>3. /\ Parted' = Parted /\ (Byed' <=> Byed) /\ (Travels("ACK")' <=> Travels("ACK"))
        /\ WireTypeOK' /\ ListenerTypeOK' /\ cseq' <= Served'
        /\ QueueInv' /\ WireInv' /\ ListenerInv' /\ Agreement'
    BY <1>1, <1>2, <2>1, <2>2, DialogEnds
  <2>4. ClientInv'
    BY <1>1, <2>1, <2>3 DEF SipInv, ClientInv
  <2>5. QED
    BY <1>4, <1>5, <2>3, <2>4 DEF SipInv
<1>7. CASE m.kind # "BYE"
  <2> DEFINE c == dialog /\ m.kind = "200" /\ m.seq = cseq
  <2>1. dialog' = dialog /\ Send(IF c THEN <<Ack>> ELSE <<>>) /\ (c => dialog)
    BY <1>7 DEF DialogReads
  <2> HIDE DEF c
  <2>2. /\ Parted' = Parted /\ (Byed => Byed') /\ (Travels("ACK")' => Travels("ACK") \/ dialog)
        /\ WireTypeOK' /\ ListenerTypeOK' /\ cseq' <= Served'
        /\ QueueInv' /\ WireInv' /\ ListenerInv' /\ Agreement'
    BY <1>1, <1>2, <2>1, Acknowledging
  <2>3. ClientInv'
    BY <1>1, <2>1, <2>2 DEF SipInv, ClientInv
  <2>4. QED
    BY <1>4, <1>5, <2>2, <2>3 DEF SipInv
<1>8. QED
  BY <1>6, <1>7

\* terminate() after its BYE.
LEMMA ByeReadStep ==
  ASSUME SipInv, NEW m, ByeReads(m), Client
  PROVE  SipInv'
<1>1. /\ m \in toClient /\ toClient' = toClient \ {m} /\ UNCHANGED listenerVars /\ term = "bye"
      /\ UNCHANGED <<inv, fin, active, cancelReq, cancelSent, prov, progress, cseq, byes>>
      /\ UNCHANGED <<flow, cleanup, saw, closeAt, closing>>
  BY DEF ByeReads, Taken, clientTasks, clientTx, Client
<1>2. toClient' \subseteq toClient
  BY <1>1
<1>3. /\ term' \in {"bye", "returned"}
      /\ dialog' = dialog \/ dialog' = FALSE
  BY DEF ByeReads
<1>4. ClientFlags' /\ ClientCounts'
  BY <1>1, <1>3 DEF SipInv, ClientFlags, ClientCounts
<1>5. ClientPlaces'
  BY <1>1, <1>3 DEF SipInv, ClientPlaces
<1>6. CASE m.kind = "BYE 200" /\ m.seq = byes
  <2>1. dialog' = FALSE /\ toListener' = toListener
    BY <1>6 DEF ByeReads
  <2>2. Byed
    BY <1>1, <1>6 DEF SipInv, WireInv, Byed
  <2>3. /\ Parted' = Parted /\ (Byed' <=> Byed) /\ (Travels("ACK")' <=> Travels("ACK"))
        /\ WireTypeOK' /\ ListenerTypeOK' /\ cseq' <= Served'
        /\ QueueInv' /\ WireInv' /\ ListenerInv' /\ Agreement'
    BY <1>1, <1>2, <2>1, <2>2, DialogEnds
  <2>4. ClientInv'
    BY <1>1, <1>3, <2>1, <2>3 DEF SipInv, ClientInv
  <2>5. QED
    BY <1>4, <1>5, <2>3, <2>4 DEF SipInv
<1>7. CASE ~(m.kind = "BYE 200" /\ m.seq = byes)
  <2> DEFINE c == dialog /\ m.kind = "200" /\ m.seq = cseq
  <2>1. dialog' = dialog /\ Send(IF c THEN <<Ack>> ELSE <<>>) /\ (c => dialog)
    BY <1>7 DEF ByeReads
  <2> HIDE DEF c
  <2>2. /\ Parted' = Parted /\ (Byed => Byed') /\ (Travels("ACK")' => Travels("ACK") \/ dialog)
        /\ WireTypeOK' /\ ListenerTypeOK' /\ cseq' <= Served'
        /\ QueueInv' /\ WireInv' /\ ListenerInv' /\ Agreement'
    BY <1>1, <1>2, <2>1, Acknowledging
  <2>3. ClientInv'
    BY <1>1, <1>3, <2>1, <2>2 DEF SipInv, ClientInv
  <2>4. QED
    BY <1>4, <1>5, <2>2, <2>3 DEF SipInv
<1>8. QED
  BY <1>6, <1>7

\* close() ends: the transport is gone, and with it the dialog (_close).
LEMMA CloseEndsStep ==
  ASSUME SipInv, CloseEnds, Client
  PROVE  SipInv'
<1>1. /\ closeAt = "joining" /\ closeAt' = "closed" /\ cleanup' = "done"
      /\ active' = FALSE /\ dialog' = FALSE
      /\ UNCHANGED <<toListener, toClient, inv, fin, cancelReq, cancelSent, prov, progress, cseq, byes>>
      /\ UNCHANGED <<flow, term, saw, closing, listenerVars>>
  BY DEF CloseEnds, wire, clientTasks, Client
<1>2. ~dialog \/ Byed
  BY <1>1 DEF SipInv, ClientInv
<1>3. toClient' \subseteq toClient
  BY <1>1
<1>4. /\ Parted' = Parted /\ (Byed' <=> Byed) /\ (Travels("ACK")' <=> Travels("ACK"))
      /\ WireTypeOK' /\ ListenerTypeOK' /\ cseq' <= Served'
      /\ QueueInv' /\ WireInv' /\ ListenerInv' /\ Agreement'
  BY <1>1, <1>2, <1>3, DialogEnds
<1>5. ClientInv'
  BY <1>1, <1>4 DEF SipInv, ClientInv
<1>6. ClientFlags' /\ ClientCounts'
  BY <1>1 DEF SipInv, ClientFlags, ClientCounts
<1>7. ClientPlaces'
  BY <1>1 DEF SipInv, ClientPlaces
<1>8. QED
  BY <1>4, <1>5, <1>6, <1>7 DEF SipInv

\* terminate() begins: a BYE for a dialog, a CANCEL for an INVITE.
LEMMA TerminateStartsStep ==
  ASSUME SipInv, TerminateStarts, Client
  PROVE  SipInv'
<1>1. /\ UNCHANGED <<toClient, inv, fin, active, prov, progress, cseq, dialog>>
      /\ UNCHANGED <<flow, cleanup, closeAt, closing, listenerVars>> /\ term = "starting" /\ saw' = {}
  BY DEF TerminateStarts, clientTasks, Client
<1>2. inv # "none"
  BY <1>1 DEF SipInv, ClientInv
<1>3. CASE dialog
  <2>1. term' = "bye" /\ Send(<<Bye>>) /\ byes' = NextBye /\ NoCancel
    BY <1>3 DEF TerminateStarts
  <2>2. Adds({"BYE"}) /\ Parted' /\ byes' \in 0 .. MaxByes
    BY <1>1, <2>1, Sending, Typed DEF Parted
  <2>3. Byed' /\ (Travels("ACK")' <=> Travels("ACK")) /\ Answered
    BY <1>3, <2>2 DEF Byed, Adds, Answered
  <2>4. NoMoreInvites /\ inv' = "running" => inv = "running" /\ progress'
    BY <1>1 DEF NoMoreInvites
  <2>5. UNCHANGED listenerVars /\ toClient' \subseteq toClient /\ cseq' = cseq /\ inv' = inv
    BY <1>1
  <2>6. /\ WireTypeOK' /\ ListenerTypeOK' /\ cseq' <= Served'
        /\ QueueInv' /\ WireInv' /\ ListenerInv' /\ Agreement'
    BY <1>1, <2>2, <2>3, <2>4, <2>5, ClientStep
  <2>7. ClientInv'
    BY <1>1, <1>3, <2>1, <2>2, <2>3 DEF SipInv, ClientInv
  <2>8. ClientFlags' /\ ClientCounts'
    BY <1>1, <2>1, <2>2 DEF SipInv, ClientFlags, ClientCounts, NoCancel
  <2>9. ClientPlaces'
    BY <1>1, <2>1 DEF SipInv, ClientPlaces
  <2>10. QED
    BY <2>6, <2>7, <2>8, <2>9 DEF SipInv
<1>4. CASE ~dialog
  <2>1. byes' = byes
    BY <1>4 DEF TerminateStarts
  <2>2. /\ Adds({}) /\ cancelReq' \in BOOLEAN /\ cancelSent' \in BOOLEAN
        /\ term' \in {"join", "cancel", "returned"} /\ (term' = "cancel" => inv # "running")
    <3>1. CASE active
      <4>1. /\ term' = IF inv = "running" THEN "join" ELSE "cancel"
            /\ RequestCancel(<<>>)
        BY <1>4, <3>1 DEF TerminateStarts
      <4>2. QED
        BY <1>1, <4>1, Cancelling
    <3>2. CASE ~active
      <4>1. term' = "returned" /\ NoCancel /\ UNCHANGED toListener
        BY <1>4, <3>2 DEF TerminateStarts
      <4>2. QED
        BY <1>1, <4>1, Sending, Typed DEF NoCancel, SipInv, ClientFlags
    <3>3. QED
      BY <3>1, <3>2
  <2>3. UNCHANGED <<listenerVars, inv, fin, cseq, byes, dialog, progress, closing>> /\ toClient' \subseteq toClient
    BY <1>1, <2>1
  <2>4. /\ Parted' = Parted /\ (Byed' <=> Byed) /\ (Travels("ACK")' <=> Travels("ACK"))
        /\ WireTypeOK' /\ ListenerTypeOK' /\ cseq' <= Served'
        /\ QueueInv' /\ WireInv' /\ ListenerInv' /\ Agreement'
    BY <1>4, <2>2, <2>3, IdleStep
  <2>5. ClientInv'
    BY <1>1, <1>2, <1>4, <2>2, <2>4 DEF SipInv, ClientInv
  <2>6. ClientFlags' /\ ClientCounts'
    BY <1>1, <2>1, <2>2 DEF SipInv, ClientFlags, ClientCounts
  <2>7. ClientPlaces'
    BY <1>1, <2>2 DEF SipInv, ClientPlaces
  <2>8. QED
    BY <2>4, <2>5, <2>6, <2>7 DEF SipInv
<1>5. QED
  BY <1>3, <1>4

\* terminate() after its CANCEL.
LEMMA CancelReadStep ==
  ASSUME SipInv, NEW m, CancelReads(m), Client
  PROVE  SipInv'
<1>1. /\ m \in toClient /\ toClient' = toClient \ {m} /\ UNCHANGED listenerVars /\ term = "cancel"
      /\ UNCHANGED <<inv, fin, cancelReq, cancelSent, prov, progress, cseq>>
      /\ UNCHANGED <<flow, cleanup, closeAt, closing>>
  BY DEF CancelReads, Taken, clientTasks, Client
<1>2. toClient' \subseteq toClient /\ inv \notin {"none", "running"}
  BY <1>1 DEF SipInv, ClientInv
<1>3. term' \in {"cancel", "returned"}
  BY <1>1 DEF CancelReads
<1>4. saw' \subseteq saw \cup {"cancel ok", "race bye", "invite over"}
  BY <1>1 DEF CancelReads
<1>5. ClientPlaces'
  BY <1>1, <1>3, <1>4 DEF SipInv, ClientPlaces
<1>6. CASE UNCHANGED <<toListener, active, dialog, byes>>
  <2>1. Adds({})
    BY <1>1, <1>6, Sending, Typed
  <2>2. /\ Parted' = Parted /\ (Byed' <=> Byed) /\ (Travels("ACK")' <=> Travels("ACK"))
        /\ WireTypeOK' /\ ListenerTypeOK' /\ cseq' <= Served'
        /\ QueueInv' /\ WireInv' /\ ListenerInv' /\ Agreement'
    BY <1>1, <1>2, <1>6, <2>1, IdleStep
  <2>3. ClientInv'
    BY <1>1, <1>2, <1>3, <1>6, <2>2 DEF SipInv, ClientInv
  <2>4. ClientFlags' /\ ClientCounts'
    BY <1>1, <1>6 DEF SipInv, ClientFlags, ClientCounts
  <2>5. QED
    BY <1>5, <2>2, <2>3, <2>4 DEF SipInv
<1>7. CASE m.kind = "200" /\ \E compatible \in BOOLEAN : AnswerAfterCancel(compatible)
  <2>1. PICK compatible \in BOOLEAN : CommitAnswer(compatible, TRUE)
    BY <1>7 DEF AnswerAfterCancel
  <2>2. UNCHANGED <<listenerVars, cseq, closeAt, progress>> /\ inv' = inv /\ inv # "none" /\ TRUE \in BOOLEAN
    BY <1>1, <1>2
  <2>3. /\ WireTypeOK' /\ ListenerTypeOK' /\ cseq' <= Served'
        /\ QueueInv' /\ WireInv' /\ ListenerInv' /\ Agreement'
        /\ Byed => Byed'
        /\ active' = FALSE /\ dialog' \in BOOLEAN /\ ClientCounts'
        /\ dialog' => dialog \/ ~closing
    BY <1>1, <1>2, <1>7, <2>1, <2>2, AnswerStep
  <2>4. Adds({"ACK", "BYE"})
    <3>1. Send(<<Ack, Bye>>)
      BY <2>1 DEF CommitAnswer
    <3>2. QED
      BY <2>2, <3>1, Sending, Typed
  <2>5. Byed'
    BY <2>4 DEF Adds, Byed
  <2>6. ClientInv'
    BY <1>1, <1>2, <1>3, <2>3, <2>5 DEF SipInv, ClientInv
  <2>7. ClientFlags'
    BY <1>1, <2>3 DEF SipInv, ClientFlags
  <2>8. QED
    BY <1>5, <2>3, <2>6, <2>7 DEF SipInv
<1>8. CASE active' = FALSE /\ Send(<<AckError>>) /\ UNCHANGED <<dialog, byes>>
  <2>1. Adds({"ACK error"})
    BY <1>1, <1>8, Sending, Typed
  <2>2. Adds({})
    BY <2>1 DEF Adds
  <2>3. /\ Parted' = Parted /\ (Byed' <=> Byed) /\ (Travels("ACK")' <=> Travels("ACK"))
        /\ WireTypeOK' /\ ListenerTypeOK' /\ cseq' <= Served'
        /\ QueueInv' /\ WireInv' /\ ListenerInv' /\ Agreement'
    BY <1>1, <1>2, <1>8, <2>2, IdleStep
  <2>4. ClientInv'
    BY <1>1, <1>2, <1>3, <1>8, <2>3 DEF SipInv, ClientInv
  <2>5. ClientFlags' /\ ClientCounts'
    BY <1>1, <1>8 DEF SipInv, ClientFlags, ClientCounts
  <2>6. QED
    BY <1>5, <2>3, <2>4, <2>5 DEF SipInv
<1>9. CASE /\ m.kind = "BYE 200" /\ dialog' = (dialog /\ "race bye" \notin saw)
           /\ UNCHANGED <<toListener, active, byes>>
  <2>1. Byed
    BY <1>1, <1>9 DEF SipInv, WireInv, Byed
  <2>2. (dialog' => dialog) /\ dialog' \in BOOLEAN
    BY <1>9
  <2>3. /\ Parted' = Parted /\ (Byed' <=> Byed) /\ (Travels("ACK")' <=> Travels("ACK"))
        /\ WireTypeOK' /\ ListenerTypeOK' /\ cseq' <= Served'
        /\ QueueInv' /\ WireInv' /\ ListenerInv' /\ Agreement'
    BY <1>1, <1>2, <1>9, <2>1, <2>2, DialogEnds
  <2>4. ClientInv'
    BY <1>1, <1>2, <1>3, <2>1, <2>2, <2>3 DEF SipInv, ClientInv
  <2>5. ClientFlags' /\ ClientCounts'
    BY <1>1, <1>9, <2>2 DEF SipInv, ClientFlags, ClientCounts
  <2>6. QED
    BY <1>5, <2>3, <2>4, <2>5 DEF SipInv
<1>10. QED
  BY <1>6, <1>7, <1>8, <1>9 DEF CancelReads

\* Every step of the client keeps the invariant.
LEMMA ClientSteps ==
  ASSUME SipInv, ClientActs
  PROVE  SipInv'
<1>1. Client
  BY DEF ClientActs
<1>2. ASSUME NEW m \in toClient, ClientReads(m) PROVE SipInv'
  BY <1>1, <1>2, InviteReadStep, FinalReadStep, DialogReadStep, ByeReadStep, CancelReadStep DEF ClientReads
<1>3. CASE InviteStarts \/ InviteRepeats \/ InviteTimesOut
  BY <1>1, <1>3, InviteSteps
<1>4. CASE FinalTimesOut \/ FlowGoesOn \/ TerminateReturns \/ CleanupStarts \/ CleanupCloses \/ CloseForces
  BY <1>1, <1>4, QuietSteps
<1>5. CASE FlowCancelled \/ TerminateStarts \/ CloseRuns \/ CloseEnds
  BY <1>1, <1>5, FlowCancelledStep, TerminateStartsStep, CloseRunsStep, CloseEndsStep
<1>6. QED
  BY <1>2, <1>3, <1>4, <1>5 DEF ClientActs, ClientTimeouts, ClientRuns

-----------------------------------------------------------------------------
(* The steps of the listener and of the network *)

\* A step of the listener or of the network keeps the invariant, if it answers only a
\* pending INVITE, if an INVITE that pends has come, if a dialog that goes leaves no
\* INVITE on its way, and if only the ACK ends the wait for it.
LEMMA ListenerStep ==
  ASSUME SipInv, UNCHANGED clientVars, auth' = auth,
         WireTypeOK', ListenerTypeOK', QueueInv',
         \A k \in {"INVITE", "ACK", "BYE"} : Travels(k)' => Travels(k),
         \A m \in toClient' : m \in toClient \/
            /\ m.kind = "401" => auth
            /\ m.kind = "200" => m.seq = Served /\ act'
            /\ m.kind = "BYE 200" => Parted
            /\ m.kind \in {"BYE", "BYE 200"} => ~act'
            /\ m.kind = "BYE" => act,
         act' => act \/ pend # "none",
         pend' # "none" => ~act' /\ (pend # "none" \/ (Travels("INVITE") /\ ~act /\ Current)),
         ackPending' => act',
         act' /\ ~ackPending' => act /\ (~ackPending \/ Travels("ACK")),
         act /\ ~act' => NoMoreInvites',
         Travels("BYE") => Byed', byeLost => byeLost'
  PROVE  SipInv'
<1> USE DEF SipInv
<1>1. /\ UNCHANGED <<inv, fin, active, cancelReq, cancelSent, prov, progress, cseq, dialog, byes>>
      /\ UNCHANGED <<closing, flow, cleanup, term, saw, closeAt>>
  BY DEF clientVars, clientTx, clientTasks, clientClose
<1>2. Served' = Served /\ (Current' <=> Current) /\ Parted' = Parted
  BY <1>1 DEF Served, Current, Parted
<1>3. ClientFlags' /\ ClientCounts' /\ cseq' <= Served'
  <2>1. ClientFlags'
    BY <1>1 DEF ClientFlags
  <2>2. ClientCounts' /\ cseq' <= Served'
    BY <1>1, <1>2 DEF ClientCounts
  <2>3. QED
    BY <2>1, <2>2
<1>4. ClientPlaces'
  BY <1>1 DEF ClientPlaces
<1>5. Answered => ~pend # "none" /\ (act' => act)
  BY DEF ListenerInv
<1>6. NoMoreInvites => NoMoreInvites'
  BY <1>1, <1>2 DEF NoMoreInvites
<1>7. Answered /\ Byed => Byed'
  BY <1>5 DEF Byed
<1>8. dialog => Answered
  BY DEF Answered
<1>9. ClientInv'
  BY <1>1, <1>2, <1>7, <1>8 DEF ClientInv
<1>10. WireInv'
  <2>1. Travels("BYE")' => Parted'
    BY <1>2 DEF WireInv
  <2>2. ASSUME NEW m \in toClient'
        PROVE  /\ m.kind = "401" => auth'
               /\ m.kind = "200" => m.seq = Served'
               /\ m.kind = "BYE 200" => Parted'
               /\ m.kind \in {"BYE", "BYE 200"} => ~act'
    <3>1. CASE m \in toClient
      <4>1. m.kind \in {"BYE", "BYE 200"} => Answered /\ ~act
        BY <3>1 DEF WireInv, Answered, Heard
      <4>2. QED
        BY <1>2, <1>5, <3>1, <4>1 DEF WireInv
    <3>2. CASE m \notin toClient
      BY <1>2, <3>2
    <3>3. QED
      BY <3>1, <3>2
  <2>3. QED
    BY <2>1, <2>2 DEF WireInv
<1>11. Answered' => Answered \/ act' \/ act
  <2>1. ASSUME NEW m \in toClient', m.kind \in {"200", "BYE"} PROVE Answered \/ act' \/ act
    BY <2>1 DEF Answered, Heard
  <2>2. QED
    BY <1>1, <1>2, <2>1 DEF Answered, Heard
<1>12. ListenerInv'
  <2>1. pend' # "none" \/ act' \/ Answered' => Current'
    BY <1>2, <1>11 DEF ListenerInv
  <2>2. pend' # "none" \/ act' \/ Travels("INVITE")' => inv' # "none"
    BY <1>1 DEF ListenerInv
  <2>3. ASSUME Answered' PROVE pend' = "none" /\ (act' \/ NoMoreInvites')
    <3>1. act => pend' = "none" /\ (act' \/ NoMoreInvites')
      BY DEF ListenerInv
    <3>2. Answered /\ ~act => pend' = "none" /\ NoMoreInvites'
      BY <1>5, <1>6 DEF ListenerInv, NoMoreInvites
    <3>3. QED
      BY <1>11, <2>3, <3>1, <3>2
  <2>4. QED
    BY <2>1, <2>2, <2>3 DEF ListenerInv
<1>13. Agreement'
  <2> SUFFICES ASSUME act', ~ackPending' \/ Travels("ACK")'
               PROVE  Travels("BYE")' \/ byeLost' \/ (dialog' /\ closeAt' \notin {"joining", "closed"})
    BY DEF Agreement
  <2>1. act /\ (~ackPending \/ Travels("ACK"))
    BY <1>5 DEF Answered
  <2>2. QED
    BY <1>1, <2>1 DEF Agreement, Byed
<1>14. QED
  BY <1>3, <1>4, <1>9, <1>10, <1>12, <1>13

\* A request that is handled or lost was the oldest.
LEMMA Shrinking ==
  ASSUME SipInv, cseq' = cseq, toListener # <<>>, toListener' \in {toListener, Tail(toListener)}
  PROVE  /\ toListener' \in Seq(Requests) /\ QueueInv' /\ Head(toListener) \in Requests
         /\ \A k : Travels(k)' => Travels(k)
         /\ \A k : Travels(k) => Travels(k)' \/ Head(toListener).kind = k
         /\ Travels(Head(toListener).kind)
         /\ Head(toListener).kind \in {"ACK", "BYE"} => ~Travels("INVITE")
         /\ Head(toListener).kind = "INVITE" => Head(toListener).seq \in 1 .. cseq
<1>1. toListener \in Seq(Requests) /\ InOrder(toListener) /\ Known(toListener, cseq) /\ cseq \in Nat
  BY DEF SipInv, WireTypeOK, QueueInv, ClientCounts
<1>2. Head(toListener) \in Requests /\ Tail(toListener) \in Seq(Requests)
  BY <1>1, HeadTailProperties
<1>3. \A k : Travels(k) <=> Head(toListener).kind = k \/ Has(Tail(toListener), k)
  BY <1>1, HasTail DEF Travels
<1>4. /\ InOrder(Tail(toListener)) /\ Known(Tail(toListener), cseq)
      /\ Head(toListener).kind \in {"ACK", "BYE"} => ~Travels("INVITE")
      /\ Head(toListener).kind = "INVITE" => Head(toListener).seq \in 1 .. cseq
  BY <1>1, OrderTail DEF Travels
<1>5. CASE toListener' = toListener
  BY <1>1, <1>2, <1>3, <1>4, <1>5 DEF Travels, QueueInv
<1>6. CASE toListener' = Tail(toListener)
  BY <1>2, <1>3, <1>4, <1>6 DEF Travels, QueueInv
<1>7. QED
  BY <1>5, <1>6

\* The network loses a message; it remembers a BYE.
LEMMA LosingStep ==
  ASSUME SipInv, Loses
  PROVE  SipInv'
<1>1. UNCHANGED clientVars /\ UNCHANGED <<auth, pend, comp, act, ackPending, byeDone, cseq>>
  BY DEF Loses, clientVars, clientTx
<1>2. (ackPending => act) /\ (pend # "none" => ~act)
  BY DEF SipInv, ListenerInv
<1>6. byeLost' \in BOOLEAN => ListenerTypeOK'
  BY <1>1 DEF SipInv, ListenerTypeOK
<1>3. CASE LoseRequest /\ byeLost' = (byeLost \/ Head(toListener).kind = "BYE")
  <2>1. /\ toListener # <<>> /\ toListener' = Tail(toListener) /\ toClient' = toClient
        /\ ListenerTypeOK' /\ (byeLost => byeLost') /\ (Head(toListener).kind = "BYE" => byeLost')
    BY <1>3, <1>6 DEF LoseRequest
  <2>2. /\ toListener' \in Seq(Requests) /\ QueueInv'
        /\ \A k : Travels(k)' => Travels(k)
        /\ Travels("BYE") => Travels("BYE")' \/ byeLost'
    BY <1>1, <2>1, Shrinking
  <2>3. WireTypeOK' /\ (Travels("BYE") => Byed')
    BY <2>1, <2>2 DEF SipInv, WireTypeOK, Byed
  <2>4. QED
    BY <1>1, <1>2, <2>1, <2>2, <2>3, ListenerStep
<1>4. CASE (\E m \in toClient : LoseResponse(m)) /\ UNCHANGED byeLost
  <2>1. toListener' = toListener /\ toClient' \subseteq toClient /\ ListenerTypeOK' /\ byeLost' = byeLost
    BY <1>4, <1>6 DEF LoseResponse, SipInv, ListenerTypeOK
  <2>2. QueueInv' /\ WireTypeOK' /\ (\A k : Travels(k)' => Travels(k)) /\ (Travels("BYE") => Byed')
    BY <1>1, <2>1 DEF SipInv, QueueInv, WireTypeOK, Travels, Byed
  <2>3. QED
    BY <1>1, <1>2, <2>1, <2>2, ListenerStep
<1>5. QED
  BY <1>3, <1>4 DEF Loses

\* The call above the listener decides, a final response is repeated or forgotten, or
\* the listener's user hangs up.
LEMMA ListenerRunStep ==
  ASSUME SipInv, ListenerRuns \/ UserHangsUp \/ ListenerGivesUp
  PROVE  SipInv'
<1>1. /\ UNCHANGED clientVars /\ UNCHANGED <<toListener, auth, byeDone, byeLost, cseq, inv, progress>>
  BY DEF ListenerRuns, UserHangsUp, ListenerGivesUp, Listener, PolicyReturns, UserDecides, FinalRepeats,
         ListenerHangsUp, ErrorForgotten, listenerVars, wire, clientVars, clientTx, clientTasks
<1>2. QueueInv' /\ toListener' \in Seq(Requests) /\ \A k : Travels(k)' <=> Travels(k)
  BY <1>1 DEF SipInv, QueueInv, WireTypeOK, Travels
<1>3. Served \in Nat /\ Served' = Served
  BY <1>1 DEF Served
<1>4. \A k \in ResponseKinds : Response(k, Served) \in Responses /\ Response(k, Served).kind = k
                               /\ Response(k, Served).seq = Served
  BY <1>3 DEF Response, Responses
<1>5. pend \in {"none", "trying", "ringing"} /\ act \in BOOLEAN /\ ackPending \in BOOLEAN /\ byeDone \in Nat
      /\ comp \in {"none", "cancelled", "rejected"} /\ auth \in BOOLEAN /\ byeLost \in BOOLEAN
  BY DEF SipInv, ListenerTypeOK
<1>6. (pend # "none" => ~act) /\ (ackPending => act)
  BY DEF SipInv, ListenerInv
<1>7. CASE PolicyReturns \/ UserDecides
  <2>1. pend # "none" /\ ~act
    BY <1>6, <1>7 DEF PolicyReturns, UserDecides
  <2>2. CASE pend' = "ringing" /\ Answer({Response("180", Served)}) /\ UNCHANGED <<comp, act, ackPending>>
    <3>1. toClient' = toClient \cup {Response("180", Served)}
      BY <2>2 DEF Answer
    <3>2. WireTypeOK' /\ ListenerTypeOK'
      BY <1>1, <1>2, <1>4, <1>5, <2>2, <3>1 DEF SipInv, WireTypeOK, ListenerTypeOK, ResponseKinds
    <3>3. \A m \in toClient' : m \in toClient \/ m.kind = "180"
      BY <1>4, <3>1 DEF ResponseKinds
    <3>4. Travels("BYE") => Byed'
      BY <1>2 DEF Byed
    <3>5. QED
      BY <1>1, <1>2, <1>6, <2>1, <2>2, <3>2, <3>3, <3>4, ListenerStep
  <2>3. CASE \E answered \in BOOLEAN : Concludes(answered, "rejected")
    <3>1. PICK answered \in BOOLEAN : Concludes(answered, "rejected")
      BY <2>3
    <3>2. CASE answered
      <4>1. toClient' = toClient \cup {Response("200", Served)} /\ pend' = "none" /\ act' /\ ackPending' /\ comp' = comp
        BY <3>1, <3>2 DEF Concludes, Answer
      <4>2. act' = TRUE /\ ackPending' = TRUE
        BY <3>1, <3>2 DEF Concludes
      <4>3. WireTypeOK' /\ ListenerTypeOK'
        BY <1>1, <1>2, <1>4, <1>5, <4>1, <4>2 DEF SipInv, WireTypeOK, ListenerTypeOK, ResponseKinds
      <4>4. \A m \in toClient' : m \in toClient \/ (m.kind = "200" /\ m.seq = Served)
        BY <1>4, <4>1 DEF ResponseKinds
      <4>5. Travels("BYE") => Byed'
        BY <1>2 DEF Byed
      <4>6. QED
        BY <1>1, <1>2, <2>1, <4>1, <4>3, <4>4, <4>5, ListenerStep
    <3>3. CASE ~answered
      <4>1. toClient' = toClient \cup {Response("final", Served)} /\ pend' = "none" /\ comp' = "rejected"
            /\ act' = act /\ ackPending' = ackPending
        BY <3>1, <3>3 DEF Concludes, Answer
      <4>2. WireTypeOK' /\ ListenerTypeOK'
        BY <1>1, <1>2, <1>4, <1>5, <4>1 DEF SipInv, WireTypeOK, ListenerTypeOK, ResponseKinds
      <4>3. \A m \in toClient' : m \in toClient \/ m.kind = "final"
        BY <1>4, <4>1 DEF ResponseKinds
      <4>4. Travels("BYE") => Byed'
        BY <1>2 DEF Byed
      <4>5. QED
        BY <1>1, <1>2, <1>6, <2>1, <4>1, <4>2, <4>3, <4>4, ListenerStep
    <3>4. QED
      BY <3>2, <3>3
  <2>4. QED
    BY <1>7, <2>2, <2>3 DEF PolicyReturns, UserDecides
<1>8. CASE FinalRepeats
  <2>1. UNCHANGED <<pend, comp, act, ackPending>>
    BY <1>8 DEF FinalRepeats, listenerVars
  <2>2. \/ toClient' = toClient \cup {Response("200", Served)} /\ act
        \/ toClient' = toClient \cup {Response("final", Served)}
    BY <1>6, <1>8 DEF FinalRepeats, Answer
  <2>3. WireTypeOK' /\ ListenerTypeOK'
    BY <1>1, <1>2, <1>4, <1>5, <2>1, <2>2 DEF SipInv, WireTypeOK, ListenerTypeOK, ResponseKinds
  <2>4. \A m \in toClient' : m \in toClient \/ (m.kind = "200" /\ m.seq = Served /\ act) \/ m.kind = "final"
    BY <1>4, <2>2 DEF ResponseKinds
  <2>5. Travels("BYE") => Byed'
    BY <1>2 DEF Byed
  <2>6. QED
    BY <1>1, <1>2, <1>6, <2>1, <2>3, <2>4, <2>5, ListenerStep
<1>9. CASE UserHangsUp
  <2>1. /\ act /\ act' = FALSE /\ ackPending' = FALSE /\ UNCHANGED <<pend, comp>>
        /\ toClient' = toClient \cup {Response("BYE", Served)} /\ Settled
    BY <1>9 DEF UserHangsUp, ListenerHangsUp, Answer
  <2>2. NoMoreInvites'
    <3>1. inv # "none" /\ Current
      BY <2>1 DEF SipInv, ListenerInv
    <3>2. ~Travels("INVITE") /\ (inv = "running" => progress)
      BY <2>1 DEF Settled, Travels, Has
    <3>3. QED
      BY <1>1, <1>2, <1>3, <3>1, <3>2 DEF NoMoreInvites, Current
  <2>3. WireTypeOK' /\ ListenerTypeOK'
    BY <1>1, <1>2, <1>4, <1>5, <2>1 DEF SipInv, WireTypeOK, ListenerTypeOK, ResponseKinds
  <2>4. \A m \in toClient' : m \in toClient \/ m.kind = "BYE"
    BY <1>4, <2>1 DEF ResponseKinds
  <2>5. Travels("BYE") => Byed'
    BY <2>1 DEF Byed
  <2>6. QED
    BY <1>1, <1>2, <1>6, <2>1, <2>2, <2>3, <2>4, <2>5, ListenerStep
<1>10. CASE ListenerGivesUp
  <2>1. UNCHANGED <<pend, act, ackPending, toClient>> /\ comp' = "none"
    BY <1>10 DEF ListenerGivesUp, ErrorForgotten, wire
  <2>2. WireTypeOK' /\ ListenerTypeOK' /\ (Travels("BYE") => Byed')
    BY <1>1, <1>2, <1>5, <2>1 DEF SipInv, WireTypeOK, ListenerTypeOK, Byed
  <2>3. QED
    BY <1>1, <1>2, <1>6, <2>1, <2>2, ListenerStep
<1>11. QED
  BY <1>7, <1>8, <1>9, <1>10 DEF ListenerRuns

\* The listener handles the oldest request (_handle_datagram).
LEMMA ReceivingStep ==
  ASSUME SipInv, NEW again \in BOOLEAN, Delivers(again)
  PROVE  SipInv'
<1> DEFINE h == Head(toListener)
<1>1. /\ toListener # <<>> /\ Gets(h) /\ toListener' \in {toListener, Tail(toListener)}
      /\ auth' = auth /\ byeLost' = byeLost /\ UNCHANGED clientVars
  BY DEF Delivers, Receives, Listener
<1>2. UNCHANGED <<cseq, inv, progress, byes>>
  BY <1>1 DEF clientVars, clientTx, clientTasks
<1>3. /\ toListener' \in Seq(Requests) /\ QueueInv' /\ h \in Requests
      /\ \A k : Travels(k)' => Travels(k)
      /\ \A k : Travels(k) => Travels(k)' \/ h.kind = k
      /\ Travels(h.kind)
      /\ h.kind \in {"ACK", "BYE"} => ~Travels("INVITE")
      /\ h.kind = "INVITE" => h.seq \in 1 .. cseq
  BY <1>1, <1>2, Shrinking
<1>4. h.kind \in RequestKinds /\ h.seq \in Nat
  BY <1>3 DEF Requests
<1> HIDE DEF h
<1>5. Served \in Nat /\ Served' = Served /\ cseq \in {1, 2} /\ cseq <= Served
  BY <1>1 DEF Served, SipInv, ClientCounts
<1>6. \A n \in Nat : \A k \in ResponseKinds :
        Response(k, n) \in Responses /\ Response(k, n).kind = k /\ Response(k, n).seq = n
  BY DEF Response, Responses
<1>7. pend \in {"none", "trying", "ringing"} /\ act \in BOOLEAN /\ ackPending \in BOOLEAN /\ byeDone \in Nat
      /\ comp \in {"none", "cancelled", "rejected"} /\ auth \in BOOLEAN /\ byeLost \in BOOLEAN
  BY DEF SipInv, ListenerTypeOK
<1>8. (pend # "none" => ~act) /\ (ackPending => act)
  BY DEF SipInv, ListenerInv
\* What is left to show when the dialog stays as it is and the answer is no BYE.
<1>9. ASSUME NEW k \in ResponseKinds \ {"BYE", "BYE 200"}, NEW n \in Nat, NEW o \in ResponseKinds \ {"BYE", "BYE 200"},
             k = "401" => auth, o # "401", o # "200", k = "200" => n = Served /\ act,
             toClient' \subseteq toClient \cup {Response(k, n), Response(o, n)},
             act' = act, ackPending' = ackPending, byeDone' = byeDone, comp' \in {comp, "none", "cancelled"},
             pend' \in {pend, "none"} \/ (pend' = "trying" /\ Travels("INVITE") /\ ~act /\ Current),
             h.kind # "BYE"
      PROVE  SipInv'
  <2> DEFINE answer == Response(k, n)
             other == Response(o, n)
  <2>7. /\ answer \in Responses /\ answer.kind = k /\ answer.seq = n
        /\ other \in Responses /\ other.kind = o
    BY <1>6
  <2>8. toClient' \subseteq toClient \cup {answer, other}
    BY <1>9
  <2> HIDE DEF answer, other
  <2>1. WireTypeOK' /\ ListenerTypeOK'
    <3>1. WireTypeOK'
      BY <1>3, <2>7, <2>8 DEF SipInv, WireTypeOK
    <3>2. ListenerTypeOK'
      BY <1>1, <1>7, <1>9 DEF ListenerTypeOK
    <3>3. QED
      BY <3>1, <3>2
  <2>2. \A m \in toClient' : m \in toClient \/ m.kind = o
                             \/ (m.kind = k /\ m.seq = n)
    BY <2>7, <2>8
  <2>3. Travels("BYE") => Byed'
    BY <1>3, <1>9 DEF Byed
  <2>4. pend' # "none" => ~act' /\ (pend # "none" \/ (Travels("INVITE") /\ ~act /\ Current))
    BY <1>8, <1>9
  <2>5. \A m \in toClient' : m \in toClient \/
            /\ m.kind = "401" => auth
            /\ m.kind = "200" => m.seq = Served /\ act'
            /\ m.kind = "BYE 200" => Parted
            /\ m.kind \in {"BYE", "BYE 200"} => ~act'
            /\ m.kind = "BYE" => act
    BY <1>9, <2>2
  <2>6. QED
    BY <1>1, <1>3, <1>8, <1>9, <2>1, <2>3, <2>4, <2>5, ListenerStep
<1>10. CASE h.seq < Served /\ h.kind \in {"INVITE", "CANCEL", "ACK error"}
  <2>1. ProxyGets(h)
    BY <1>1, <1>10 DEF Gets
  <2>2. h.kind = "INVITE" => auth
    BY <1>3, <1>5, <1>10 DEF Served
  <2>3. UNCHANGED <<pend, comp, act, ackPending, byeDone>> /\ h.kind # "BYE"
    BY <1>10, <2>1 DEF ProxyGets
  <2>4. CASE h.kind = "INVITE"
    <3>1. toClient' \subseteq toClient \cup {Response("401", h.seq), Response("100", h.seq)}
      BY <2>1, <2>4 DEF ProxyGets, Answer
    <3>2. /\ "401" \in ResponseKinds \ {"BYE", "BYE 200"} /\ "100" \in ResponseKinds \ {"BYE", "BYE 200"}
          /\ comp' \in {comp, "none", "cancelled"} /\ pend' \in {pend, "none"} /\ h.kind # "BYE"
      BY <2>3 DEF ResponseKinds
    <3>3. QED
      BY <1>4, <1>9, <2>2, <2>3, <2>4, <3>1, <3>2
  <2>5. CASE h.kind # "INVITE"
    <3>1. toClient' \subseteq toClient \cup {Response("CANCEL 481", h.seq), Response("100", h.seq)}
      BY <2>1, <2>5 DEF ProxyGets, Answer
    <3>2. /\ "CANCEL 481" \in ResponseKinds \ {"BYE", "BYE 200"} /\ "100" \in ResponseKinds \ {"BYE", "BYE 200"}
          /\ comp' \in {comp, "none", "cancelled"} /\ pend' \in {pend, "none"} /\ h.kind # "BYE"
      BY <2>3 DEF ResponseKinds
    <3>3. QED
      BY <1>4, <1>9, <2>3, <3>1, <3>2
  <2>6. QED
    BY <2>4, <2>5
<1>11. CASE h.kind = "INVITE" /\ GetsInvite /\ ~(h.seq < Served)
  <2>1. Current
    BY <1>3, <1>5, <1>11 DEF Current
  <2>2. UNCHANGED <<comp, act, ackPending, byeDone>>
    BY <1>11 DEF GetsInvite
  <2>3. CASE Idle
    <3>1. /\ pend' = "trying" /\ ~act
          /\ toClient' \subseteq toClient \cup {Response("100", Served), Response("100", Served)}
      BY <1>11, <2>3 DEF GetsInvite, Idle, Answer
    <3>2. /\ "100" \in ResponseKinds \ {"BYE", "BYE 200"} /\ Travels("INVITE") /\ h.kind # "BYE"
          /\ comp' \in {comp, "none", "cancelled"}
      BY <1>3, <1>11, <2>2 DEF ResponseKinds
    <3>3. UNCHANGED <<act, ackPending, byeDone>> /\ Served \in Nat
      BY <1>5, <2>2
    <3>4. QED
      BY <1>9, <2>1, <3>1, <3>2, <3>3
  <2>4. CASE ~Idle
    <3>1. /\ pend' = pend
          /\ toClient' \subseteq toClient \cup {Response(Repeated, Served), Response("100", Served)}
      BY <1>11, <2>4 DEF GetsInvite, Answer
    <3>2. Repeated \in ResponseKinds \ {"BYE", "BYE 200", "401"} /\ (Repeated = "200" => act)
      BY DEF Repeated, ResponseKinds
    <3>3. /\ "100" \in ResponseKinds \ {"BYE", "BYE 200"} /\ h.kind # "BYE"
          /\ comp' \in {comp, "none", "cancelled"} /\ pend' \in {pend, "none"}
      BY <1>11, <2>2, <3>1 DEF ResponseKinds
    <3>4. UNCHANGED <<act, ackPending, byeDone>> /\ Served \in Nat
      BY <1>5, <2>2
    <3>5. QED
      BY <1>9, <3>1, <3>2, <3>3, <3>4
  <2>5. QED
    BY <2>3, <2>4
<1>12. CASE h.kind = "CANCEL" /\ GetsCancel(h.seq)
  <2>1. UNCHANGED <<act, ackPending, byeDone>>
    BY <1>12 DEF GetsCancel
  <2>2. CASE pend # "none" /\ h.seq = Served
    <3>1. /\ pend' = "none" /\ comp' = "cancelled"
          /\ toClient' \subseteq toClient \cup {Response("CANCEL 200", h.seq), Response("final", h.seq)}
      BY <1>12, <2>2 DEF GetsCancel, Answer
    <3>2. /\ "CANCEL 200" \in ResponseKinds \ {"BYE", "BYE 200"} /\ "final" \in ResponseKinds \ {"BYE", "BYE 200"}
          /\ comp' \in {comp, "none", "cancelled"} /\ pend' \in {pend, "none"} /\ h.kind # "BYE"
      BY <1>12, <3>1 DEF ResponseKinds
    <3>3. QED
      BY <1>4, <1>9, <2>1, <3>1, <3>2
  <2>3. CASE ~(pend # "none" /\ h.seq = Served)
    <3>1. /\ UNCHANGED <<pend, comp>>
          /\ toClient' \subseteq toClient \cup {Response("CANCEL 200", h.seq), Response("CANCEL 481", h.seq)}
      BY <1>12, <2>3 DEF GetsCancel, Answer
    <3>2. /\ "CANCEL 200" \in ResponseKinds \ {"BYE", "BYE 200"} /\ "CANCEL 481" \in ResponseKinds \ {"BYE", "BYE 200"}
          /\ comp' \in {comp, "none", "cancelled"} /\ pend' \in {pend, "none"} /\ h.kind # "BYE"
      BY <1>12, <3>1 DEF ResponseKinds
    <3>3. QED
      BY <1>4, <1>9, <2>1, <3>1, <3>2
  <2>4. QED
    BY <2>2, <2>3
<1>13. CASE h.kind = "ACK error" /\ GetsErrorAck(h.seq)
  <2>1. /\ UNCHANGED <<pend, act, ackPending, byeDone>> /\ comp' \in {comp, "none"}
        /\ toClient' \subseteq toClient \cup {Response("100", h.seq), Response("100", h.seq)}
    BY <1>13 DEF GetsErrorAck
  <2>2. /\ "100" \in ResponseKinds \ {"BYE", "BYE 200"} /\ h.kind # "BYE"
        /\ comp' \in {comp, "none", "cancelled"} /\ pend' \in {pend, "none"}
    BY <1>13, <2>1 DEF ResponseKinds
  <2>3. QED
    BY <1>4, <1>9, <2>1, <2>2
<1>14. CASE h.kind = "ACK" /\ GetsAck
  <2>1. UNCHANGED <<toClient, pend, comp, act, byeDone>> /\ ackPending' = FALSE
    BY <1>14 DEF GetsAck
  <2>2. WireTypeOK' /\ ListenerTypeOK' /\ (Travels("BYE") => Byed') /\ Travels("ACK")
    BY <1>1, <1>3, <1>7, <1>14, <2>1 DEF SipInv, WireTypeOK, ListenerTypeOK, Byed
  <2>3. QED
    BY <1>1, <1>3, <1>8, <2>1, <2>2, ListenerStep
<1>15. CASE h.kind = "BYE" /\ GetsBye(h.seq)
  <2>1. /\ act' = FALSE /\ ackPending' = FALSE /\ UNCHANGED <<pend, comp>>
        /\ byeDone' \in {h.seq, byeDone}
        /\ toClient' \subseteq toClient \cup {Response("BYE 200", h.seq), Response("BYE 481", h.seq)}
    BY <1>15 DEF GetsBye, Answer
  <2>2. Parted /\ ~Travels("INVITE") /\ ~Travels("INVITE")'
    BY <1>3, <1>15 DEF SipInv, WireInv
  <2>3. NoMoreInvites'
    BY <1>2, <2>2 DEF NoMoreInvites, SipInv, ClientInv
  <2> DEFINE answer == Response("BYE 200", h.seq)
             other == Response("BYE 481", h.seq)
  <2>4. /\ answer \in Responses /\ answer.kind = "BYE 200"
        /\ other \in Responses /\ other.kind = "BYE 481"
    BY <1>4, <1>6 DEF ResponseKinds
  <2>5. toClient' \subseteq toClient \cup {answer, other}
    BY <2>1
  <2> HIDE DEF answer, other
  <2>6. WireTypeOK' /\ ListenerTypeOK' /\ (Travels("BYE") => Byed')
    <3>1. WireTypeOK'
      BY <1>3, <2>4, <2>5 DEF SipInv, WireTypeOK
    <3>2. ListenerTypeOK'
      BY <1>1, <1>4, <1>7, <2>1 DEF ListenerTypeOK
    <3>3. QED
      BY <2>1, <3>1, <3>2 DEF Byed
  <2>7. \A m \in toClient' : m \in toClient \/ m.kind \in {"BYE 200", "BYE 481"}
    BY <2>4, <2>5
  <2>8. QED
    BY <1>1, <1>3, <1>8, <2>1, <2>2, <2>3, <2>6, <2>7, ListenerStep
<1>16. QED
  <2>1. CASE ~(h.seq < Served /\ h.kind \in {"INVITE", "CANCEL", "ACK error"})
    <3>1. \/ h.kind = "INVITE" /\ GetsInvite
          \/ h.kind = "CANCEL" /\ GetsCancel(h.seq)
          \/ h.kind = "ACK error" /\ GetsErrorAck(h.seq)
          \/ h.kind = "ACK" /\ GetsAck
          \/ h.kind = "BYE" /\ GetsBye(h.seq)
      BY <1>1, <2>1 DEF Gets
    <3>2. QED
      BY <1>11, <1>12, <1>13, <1>14, <1>15, <2>1, <3>1
  <2>2. QED
    BY <1>10, <2>1

-----------------------------------------------------------------------------
(* The SIP call: theorems *)

\* Before the INVITE the invariant holds.
LEMMA InitSip == Init => SipInv
<1> SUFFICES ASSUME Init PROVE SipInv
  OBVIOUS
<1> USE DEF Init, ClientInit, ListenerInit
<1>1. \A k : ~Travels(k)
  BY DEF Travels, Has
<1>2. ~Heard("200") /\ ~Heard("BYE") /\ ~Parted /\ ~Answered
  BY <1>1, ClientConstants DEF Heard, Parted, Answered
<1>3. WireTypeOK /\ QueueInv
  BY DEF WireTypeOK, QueueInv, InOrder, Known
<1>4. ClientFlags /\ ClientPlaces
  BY DEF ClientFlags, ClientPlaces
<1>5. ClientCounts
  BY ClientConstants DEF ClientCounts
<1>6. cseq <= Served /\ ListenerTypeOK
  <2>1. cseq = 1 /\ Served \in {1, 2}
    BY DEF Served
  <2>2. cseq <= Served
    BY <2>1
  <2>3. QED
    BY <2>2 DEF ListenerTypeOK
<1>7. WireInv
  BY <1>1 DEF WireInv
<1>8. ClientInv
  BY <1>1, <1>2 DEF ClientInv
<1>9. ListenerInv /\ Agreement
  BY <1>1, <1>2 DEF ListenerInv, Agreement
<1>10. QED
  BY <1>3, <1>4, <1>5, <1>6, <1>7, <1>8, <1>9 DEF SipInv

\* A step that changes nothing.
LEMMA SipStutters ==
  ASSUME SipInv, UNCHANGED vars
  PROVE  SipInv'
<1>1. UNCHANGED clientVars /\ UNCHANGED <<toListener, toClient, auth, pend, comp, act, ackPending, byeDone, byeLost>>
  BY DEF vars, wire, listenerVars
<1>2. cseq' = cseq
  BY <1>1 DEF clientVars, clientTx
<1>3. WireTypeOK' /\ ListenerTypeOK' /\ QueueInv' /\ (\A k : Travels(k)' => Travels(k)) /\ (Travels("BYE") => Byed')
  BY <1>1, <1>2 DEF SipInv, WireTypeOK, ListenerTypeOK, QueueInv, Travels, Byed
<1>4. (pend # "none" => ~act) /\ (ackPending => act)
  BY DEF SipInv, ListenerInv
<1>5. QED
  BY <1>1, <1>3, <1>4, ListenerStep

\* The parts of the invariant that say what SipTypeOK says.
LEMMA SipTypes == SipInv => SipTypeOK
<1> SUFFICES ASSUME SipInv PROVE SipTypeOK
  OBVIOUS
<1>1. ~HasSignalingPath => "running" \notin {inv, fin}
  BY DEF SipInv, ClientInv, HasSignalingPath
<1>2. ClientTypeOK
  BY <1>1 DEF SipInv, ClientFlags, ClientPlaces, ClientCounts, ClientTypeOK
<1>3. QED
  BY <1>2 DEF SipInv, SipTypeOK

\* Whatever MaxInFlight and MaxByes are and whichever messages the network loses, every
\* reachable state has its type and SipInv: requests keep their order,
\* nothing is left of an INVITE once its answer is over.
THEOREM SipInvariant == Spec => [](SipTypeOK /\ SipInv)
<1>1. Init => SipInv
  BY InitSip
<1>2. SipInv /\ [Next]_vars => SipInv'
  <2> SUFFICES ASSUME SipInv, [Next]_vars PROVE SipInv'
    OBVIOUS
  <2>1. CASE ClientActs
    BY <2>1, ClientSteps
  <2>2. CASE ListenerRuns \/ UserHangsUp \/ ListenerGivesUp
    BY <2>2, ListenerRunStep
  <2>3. CASE \E again \in BOOLEAN : Delivers(again)
    BY <2>3, ReceivingStep
  <2>4. CASE Loses
    BY <2>4, LosingStep
  <2>5. CASE UNCHANGED vars
    BY <2>5, SipStutters
  <2>6. QED
    BY <2>1, <2>2, <2>3, <2>4, <2>5 DEF Next
<1>3. QED
  BY <1>1, <1>2, SipTypes, PTL DEF Spec

\* While the listener holds a dialog whose answer was acknowledged, the client holds it
\* too or its BYE is on the way or was lost there, for any bounds and any losses.
THEOREM EndsAgree == Spec => []ConfirmedAgrees
<1>1. SipInv => ConfirmedAgrees
  BY DEF SipInv, Agreement, ConfirmedAgrees, Travels, Has
<1>2. QED
  BY <1>1, SipInvariant, PTL

=============================================================================
