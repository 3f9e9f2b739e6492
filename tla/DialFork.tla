------------------------------ MODULE DialFork ------------------------------
(***************************************************************************)
(* DialForkController (dial_fork.py): one bounded fork over tiers of SIP   *)
(* branches, dialled in parallel or one by one, with an optional route     *)
(* control (the browsers' answer button, or the caller's cancel) that      *)
(* run() waits for beside the branches.                                    *)
(*                                                                         *)
(* A branch has two states: its dial task, which the controller awaits and *)
(* cancels, and its leg, the client's dialog, which answers when the far   *)
(* end likes and lasts until it is closed.  The session's termination, the *)
(* deadline, late answers and the cancellation of the whole fork come at   *)
(* any moment the controller awaits.                                       *)
(***************************************************************************)
EXTENDS Naturals, FiniteSets

CONSTANTS
    Branches,          \* the SIP candidates
    Tier,              \* [Branches -> Nat \ {0}], counted from the first tier to dial
    Rank,              \* [Branches -> Nat], the configured order
    SequentialTiers,   \* tiers dialled one by one
    DialOutcomes,      \* how a dial may end without an answer
    ControlOutcomes,   \* how the route control may end, if there is one
    NoBranch

Failures == {"busy", "dnd", "declined", "unavailable", "timeout", "media_incompatible"}
Stops == {"source_cancelled", "reroute"}

ASSUME ForkConstants ==
    /\ IsFiniteSet(Branches) /\ Branches # {} /\ NoBranch \notin Branches
    /\ Tier \in [Branches -> Nat \ {0}]
    /\ Rank \in [Branches -> Nat]
    /\ \A c, d \in Branches : Rank[c] = Rank[d] => c = d
    /\ DialOutcomes \subseteq Failures \cup Stops
    /\ ControlOutcomes \subseteq Stops \cup {"answered", "declined"}

VARIABLES
    current,    \* registry.is_generation_current for the caller's call
    alive,      \* the session's termination has not started
    late,       \* the overall deadline has passed
    task,       \* [Branches -> "idle", "dialing", "cancelled" or the outcome]
    leg,        \* [Branches -> "none", "calling", "answered", "over"]
    pc,         \* where _run_candidates awaits, or how it ended
    tier,       \* the tier being dialled, 0 before the first
    counted,    \* branches whose outcome the tier has looked at
    batch,      \* branches done when asyncio.wait returned
    verdict,    \* what the parallel tier returns once its tasks are joined
    winner,
    failures,   \* failed outcomes so far
    toClose,    \* legs the close barrier still waits for
    after,      \* what follows the barrier
    reason,     \* the reduced outcome of a failed fork
    taskCancelled,  \* the branches' task was cancelled
    controlled, \* a route control stands beside the branches
    ctl,        \* the route control: "dialing" or its outcome
    run,        \* where run() awaits
    result

source == <<current, alive, late>>
legs == <<task, leg>>
tierVars == <<tier, counted, batch, verdict, failures>>
closeVars == <<toClose, after>>
outer == <<controlled, ctl, run, result>>
forkVars == <<source, legs, pc, tierVars, closeVars, winner, reason, taskCancelled, outer>>

BranchEnd == {"won", "failed", "cancelled", "raised"} \cup Stops
Results == BranchEnd \cup {"none"}
Undialled == {"idle", "dialing", "cancelled"}

FlagsTyped ==
    /\ current \in BOOLEAN /\ alive \in BOOLEAN /\ late \in BOOLEAN
    /\ taskCancelled \in BOOLEAN /\ controlled \in BOOLEAN

BranchesTyped ==
    /\ task \in [Branches -> Undialled \cup DialOutcomes \cup {"answered", "timeout"}]
    /\ leg \in [Branches -> {"none", "calling", "answered", "over"}]
    /\ pc \in {"next", "wait", "judge", "unwind", "step", "ringing", "closing"} \cup BranchEnd
    /\ counted \subseteq Branches /\ batch \subseteq Branches
    /\ verdict \in {"none", "answered", "cancelled"} \cup Stops
    /\ winner \in Branches \cup {NoBranch}
    /\ failures \subseteq Failures
    /\ toClose \subseteq Branches
    /\ after \in {"", "commit", "step timeout", "step"} \cup BranchEnd
    /\ reason \in Failures \cup {""}

RunTyped ==
    /\ ctl \in {"dialing"} \cup ControlOutcomes
    /\ run \in {"wait", "join", "branches", "controls", "commit", "discard", "unwinding", "settled"}
    /\ result \in Results

ForkTypeOK == tier \in Nat /\ FlagsTyped /\ BranchesTyped /\ RunTyped

Open == {c \in Branches : leg[c] \in {"calling", "answered"}}
InTier(t) == {c \in Branches : Tier[c] = t}
LaterTiers == {t \in {Tier[c] : c \in Branches} : t > tier}
First(S) == CHOOSE c \in S : \A d \in S : Rank[c] <= Rank[d]

-----------------------------------------------------------------------------
(* The close barrier, _close_candidates: the controller goes on when every *)
(* leg it was given is closed, also when its own task is cancelled.        *)

\* Variant of Closing: the legs are told to close and not waited for.
FireAndForget(S, next) == pc' = "closing" /\ toClose' = {} /\ after' = next

Closing(S, next) == pc' = "closing" /\ toClose' = S \cap Open /\ after' = next

CloseLeg(c) ==
    /\ c \in toClose
    /\ toClose' = toClose \ {c}
    /\ leg' = [leg EXCEPT ![c] = "over"]
    /\ UNCHANGED <<source, task, pc, tierVars, after, winner, reason, taskCancelled, outer>>

Losers(w) == Branches \ {w}

\* _reduce_failures
Reduced(F) ==
    IF F = {"declined"} THEN "declined"
    ELSE IF "busy" \in F THEN "busy"
    ELSE IF "dnd" \in F THEN "dnd"
    ELSE IF F = {"media_incompatible"} THEN "media_incompatible"
    ELSE IF F = {"timeout"} THEN "timeout"
    ELSE "unavailable"

-----------------------------------------------------------------------------

ForkInit ==
    /\ current = TRUE /\ alive = TRUE /\ late = FALSE
    /\ task = [c \in Branches |-> "idle"]
    /\ leg = [c \in Branches |-> "none"]
    /\ pc = "next" /\ tier = 0 /\ counted = {} /\ batch = {}
    /\ verdict = "none" /\ winner = NoBranch /\ failures = {}
    /\ toClose = {} /\ after = "" /\ reason = "" /\ taskCancelled = FALSE
    /\ controlled \in BOOLEAN /\ ctl = "dialing"
    /\ run = IF controlled THEN "wait" ELSE "branches"
    /\ result = "none"

(* The far ends, the caller and the clock *)

LegAnswers(c) ==
    /\ leg[c] = "calling"
    /\ leg' = [leg EXCEPT ![c] = "answered"]
    /\ task' = [task EXCEPT ![c] = IF @ = "dialing" THEN "answered" ELSE @]
    /\ UNCHANGED <<source, pc, tierVars, closeVars, winner, reason, taskCancelled, outer>>

\* A dial that ends in a timeout leaves its leg calling.
LegFails(c, outcome) ==
    /\ leg[c] = "calling"
    /\ outcome = "timeout" => task[c] = "dialing"
    /\ leg' = [leg EXCEPT ![c] = IF outcome = "timeout" THEN @ ELSE "over"]
    /\ task' = [task EXCEPT ![c] = IF @ = "dialing" THEN outcome ELSE @]
    /\ UNCHANGED <<source, pc, tierVars, closeVars, winner, reason, taskCancelled, outer>>

\* The far end hangs up after its answer.
LegHangsUp(c) ==
    /\ leg[c] = "answered"
    /\ leg' = [leg EXCEPT ![c] = "over"]
    /\ UNCHANGED <<source, task, pc, tierVars, closeVars, winner, reason, taskCancelled, outer>>

Deadline ==
    /\ ~late /\ late' = TRUE
    /\ UNCHANGED <<current, alive, legs, pc, tierVars, closeVars, winner, reason, taskCancelled, outer>>

CallEnds ==
    /\ current /\ current' = FALSE
    /\ UNCHANGED <<alive, late, legs, pc, tierVars, closeVars, winner, reason, taskCancelled, outer>>

TerminationStarts ==
    /\ alive /\ alive' = FALSE
    /\ UNCHANGED <<current, late, legs, pc, tierVars, closeVars, winner, reason, taskCancelled, outer>>

-----------------------------------------------------------------------------
(* _run_candidates *)

\* No further tier: close everything and reduce the failures.
GiveUp ==
    /\ Closing(Branches, "failed")
    /\ reason' = Reduced(failures)
    /\ UNCHANGED <<legs, tier, counted, batch, verdict, failures>>

\* The top of the parallel tier's loop, where it looks at session and clock.
EnterWait ==
    IF ~alive
      THEN pc' = "unwind" /\ verdict' = "cancelled" /\ UNCHANGED failures
      ELSE IF late
        THEN pc' = "unwind" /\ verdict' = "none" /\ failures' = failures \cup {"timeout"}
        ELSE pc' = "wait" /\ verdict' = "none" /\ UNCHANGED failures

DialTier(t) ==
    /\ tier' = t /\ counted' = {} /\ batch' = {}
    /\ IF t \in SequentialTiers
         THEN pc' = "step" /\ UNCHANGED <<legs, verdict, failures>>
         ELSE /\ EnterWait
              /\ LET dialled == IF pc' = "wait" THEN InTier(t) ELSE {} IN
                  /\ task' = [c \in Branches |-> IF c \in dialled THEN "dialing" ELSE task[c]]
                  /\ leg' = [c \in Branches |-> IF c \in dialled THEN "calling" ELSE leg[c]]
    /\ UNCHANGED <<closeVars, reason>>

NextTier ==
    /\ pc = "next" /\ ~taskCancelled
    /\ IF LaterTiers = {}
         THEN GiveUp
         ELSE DialTier(CHOOSE t \in LaterTiers : \A u \in LaterTiers : t <= u)
    /\ UNCHANGED <<source, winner, taskCancelled, outer>>

DoneIn(S) == {c \in S : task[c] \notin Undialled}

WokenBy == DoneIn(InTier(tier) \ counted) # {} \/ late \/ ~alive

\* asyncio.wait returns; joining the termination waiter is one more await.
ParallelWakes ==
    /\ pc = "wait" /\ ~taskCancelled /\ WokenBy
    /\ batch' = DoneIn(InTier(tier) \ counted)
    /\ pc' = "judge"
    /\ UNCHANGED <<source, legs, tier, counted, verdict, failures, closeVars, winner, reason, taskCancelled, outer>>

OutcomesOf(S) == {task[c] : c \in S}

\* Variant of BatchWinner: whichever branch answered, in any order.
FailuresFirst(S) == {c \in S : task[c] = "answered" /\ OutcomesOf(S) = {"answered"}}

BatchWinner(S) == {c \in S : task[c] = "answered"}

Failed(S) == failures \cup (OutcomesOf(S) \cap Failures)

StillRinging(seen) == InTier(tier) \ seen

\* Route controls first, then the answers in the configured order.
ParallelJudges ==
    /\ pc = "judge" /\ ~taskCancelled
    /\ counted' = counted \cup batch
    /\ batch' = {}
    /\ IF ~alive
         THEN pc' = "unwind" /\ verdict' = "cancelled" /\ UNCHANGED <<winner, failures>>
         ELSE IF OutcomesOf(batch) \cap Stops # {}
           THEN /\ pc' = "unwind"
                /\ verdict' = IF "source_cancelled" \in OutcomesOf(batch) THEN "source_cancelled" ELSE "reroute"
                /\ UNCHANGED <<winner, failures>>
           ELSE IF BatchWinner(batch) # {}
             THEN /\ pc' = "unwind" /\ verdict' = "answered"
                  /\ winner' = First(BatchWinner(batch))
                  /\ failures' = Failed({c \in batch : Rank[c] < Rank[winner']})
             ELSE /\ UNCHANGED winner
                  /\ LET pending == StillRinging(counted') IN
                      IF pending = {} \/ late
                        THEN /\ pc' = "unwind" /\ verdict' = "none"
                             /\ failures' = Failed(batch) \cup IF pending = {} THEN {} ELSE {"timeout"}
                        ELSE pc' = "wait" /\ UNCHANGED verdict /\ failures' = Failed(batch)
    /\ UNCHANGED <<source, legs, tier, closeVars, reason, taskCancelled, outer>>

CancelDials(S) == [c \in Branches |->
    IF c \in S /\ task[c] = "dialing" THEN "cancelled" ELSE task[c]]

\* The tier's tasks are cancelled and joined before it returns.
TierReturns ==
    /\ pc = "unwind" /\ ~taskCancelled
    /\ task' = CancelDials(InTier(tier))
    /\ IF verdict = "none"
         THEN pc' = "next" /\ UNCHANGED closeVars
         ELSE IF verdict = "answered"
           THEN Closing(Losers(winner), "commit")
           ELSE Closing(Branches, verdict)
    /\ UNCHANGED <<source, leg, tierVars, winner, reason, taskCancelled, outer>>

\* The sequential tier takes its next branch.
NextStep ==
    /\ pc = "step" /\ ~taskCancelled
    /\ LET rest == {c \in InTier(tier) : task[c] = "idle"} IN
        IF ~alive
          THEN Closing(Branches, "cancelled") /\ UNCHANGED <<legs, winner>>
          ELSE IF rest = {} \/ late
            THEN pc' = "next" /\ UNCHANGED <<legs, closeVars, winner>>
            ELSE /\ pc' = "ringing"
                 /\ winner' = First(rest)
                 /\ task' = [task EXCEPT ![First(rest)] = "dialing"]
                 /\ leg' = [leg EXCEPT ![First(rest)] = "calling"]
                 /\ UNCHANGED closeVars
    /\ UNCHANGED <<source, tierVars, reason, taskCancelled, outer>>

\* Variant of StepTimeout: the sequential dial waits without a limit.
NoStepTimeout == FALSE

\* wait_for gives up on the branch after step_timeout or at the deadline.
StepTimeout == task[winner] = "dialing"

StepTimesOut ==
    /\ pc = "ringing" /\ ~taskCancelled /\ StepTimeout
    /\ task' = [task EXCEPT ![winner] = "timeout"]
    /\ Closing({winner}, "step timeout")
    /\ UNCHANGED <<source, leg, tierVars, winner, reason, taskCancelled, outer>>

\* The rest of a step, once its outcome is known.
StepOutcome(outcome) ==
    IF ~alive
      THEN Closing(Branches, "cancelled") /\ UNCHANGED failures
      ELSE IF outcome \in Stops
        THEN Closing(Branches, outcome) /\ UNCHANGED failures
        ELSE IF outcome = "answered"
          THEN Closing(Losers(winner), "commit") /\ UNCHANGED failures
          ELSE Closing({winner}, "step") /\ failures' = failures \cup {outcome}

StepEnds ==
    /\ pc = "ringing" /\ ~taskCancelled
    /\ task[winner] \notin Undialled
    /\ StepOutcome(task[winner])
    /\ UNCHANGED <<source, legs, tier, counted, batch, verdict, winner, reason, taskCancelled, outer>>

\* Variant of MayWin: the answer of the closing barrier is not looked at.
WinsAnyway == TRUE

\* After the losers' barrier: the session must still own the call and, when no
\* route control is left to ask, so must the registry.
MayWin == alive /\ (controlled \/ current)

BarrierEnds ==
    /\ pc = "closing" /\ toClose = {} /\ ~taskCancelled
    /\ IF after = "step timeout"
         THEN StepOutcome("timeout")
         ELSE /\ UNCHANGED failures
              /\ IF after = "commit"
                   THEN IF MayWin
                          THEN pc' = "won" /\ UNCHANGED closeVars
                          ELSE Closing({winner}, "cancelled")
                   ELSE pc' = after /\ UNCHANGED closeVars
    /\ UNCHANGED <<source, legs, tier, counted, batch, verdict, winner, reason, taskCancelled, outer>>

\* CancelledError at any await: whatever is open is closed before it goes on.
BranchesUnwind ==
    /\ taskCancelled /\ pc \notin BranchEnd
    /\ pc = "closing" => toClose = {}
    /\ taskCancelled' = FALSE
    /\ task' = CancelDials(Branches)
    /\ Closing(Branches, "raised")
    /\ UNCHANGED <<source, leg, tierVars, winner, reason, outer>>

BranchStep ==
    \/ NextTier \/ ParallelWakes \/ ParallelJudges \/ TierReturns
    \/ NextStep \/ StepTimesOut \/ StepEnds \/ BarrierEnds \/ BranchesUnwind

-----------------------------------------------------------------------------
(* run(): the arbitration between the branches and the route control *)

\* The control's own wait: an answer or a decline at a browser, the caller's
\* cancel, a forward.
ControlEnds(outcome) ==
    /\ controlled /\ ctl = "dialing"
    /\ ctl' = outcome
    /\ UNCHANGED <<source, legs, pc, tierVars, closeVars, winner, reason, taskCancelled, controlled, run, result>>

BranchesDone == pc \in BranchEnd

Settle(r) == run' = "settled" /\ result' = r

RunWakes ==
    /\ run = "wait"
    /\ IF ctl \in Stops
         THEN IF BranchesDone
                THEN /\ UNCHANGED taskCancelled
                     /\ IF pc = "won"
                          THEN run' = "discard" /\ toClose' = {winner} \cap Open
                          ELSE run' = "controls" /\ UNCHANGED toClose
                ELSE run' = "join" /\ taskCancelled' = TRUE /\ UNCHANGED toClose
         ELSE /\ ctl # "dialing" \/ BranchesDone \/ late
              /\ run' = "branches"
              /\ UNCHANGED <<taskCancelled, toClose>>
    /\ UNCHANGED <<source, legs, pc, tierVars, after, winner, reason, controlled, ctl, result>>

BranchesJoined ==
    /\ run = "join" /\ BranchesDone
    /\ run' = "controls"
    /\ UNCHANGED <<source, legs, pc, tierVars, closeVars, winner, reason, taskCancelled, controlled, ctl, result>>

\* Closing the controls is one more await before the result is committed.
BranchesReturn ==
    /\ run = "branches" /\ BranchesDone
    /\ IF controlled /\ pc # "raised"
         THEN run' = "commit" /\ UNCHANGED result
         ELSE Settle(pc)
    /\ UNCHANGED <<source, legs, pc, tierVars, closeVars, winner, reason, taskCancelled, controlled, ctl>>

StillWanted == current

RunCommits ==
    /\ run = "commit"
    /\ IF pc = "won" /\ ~StillWanted
         THEN run' = "discard" /\ toClose' = {winner} \cap Open /\ UNCHANGED result
         ELSE Settle(pc) /\ UNCHANGED toClose
    /\ UNCHANGED <<source, legs, pc, tierVars, after, winner, reason, taskCancelled, controlled, ctl>>

WinnerDiscarded ==
    /\ run = "discard" /\ toClose = {}
    /\ IF ctl \in Stops
         THEN run' = "controls" /\ UNCHANGED result
         ELSE Settle("cancelled")
    /\ UNCHANGED <<source, legs, pc, tierVars, closeVars, winner, reason, taskCancelled, controlled, ctl>>

ControlsClosed ==
    /\ run = "controls"
    /\ Settle(ctl)
    /\ UNCHANGED <<source, legs, pc, tierVars, closeVars, winner, reason, taskCancelled, controlled, ctl>>

\* The task that awaits run() is cancelled: the branches are cancelled and
\* joined, a barrier in progress is waited for.
RunCancelled ==
    /\ run \notin {"unwinding", "settled"}
    /\ controlled \/ ~BranchesDone
    /\ run' = "unwinding"
    /\ taskCancelled' = ~BranchesDone
    /\ UNCHANGED <<source, legs, pc, tierVars, closeVars, winner, reason, controlled, ctl, result>>

RunUnwinds ==
    /\ run = "unwinding" /\ BranchesDone /\ toClose = {}
    /\ Settle("raised")
    /\ UNCHANGED <<source, legs, pc, tierVars, closeVars, winner, reason, taskCancelled, controlled, ctl>>

RunStep ==
    \/ RunWakes \/ BranchesJoined \/ BranchesReturn \/ RunCommits
    \/ WinnerDiscarded \/ ControlsClosed \/ RunUnwinds

ForkNext ==
    \/ BranchStep \/ RunStep \/ RunCancelled
    \/ \E c \in Branches : LegAnswers(c) \/ LegHangsUp(c) \/ CloseLeg(c)
    \/ \E c \in Branches, o \in DialOutcomes : LegFails(c, o)
    \/ \E o \in ControlOutcomes : ControlEnds(o)
    \/ Deadline \/ CallEnds \/ TerminationStarts

ForkSpec == ForkInit /\ [][ForkNext]_forkVars

\* The loop runs what is ready and closers end.  Nothing is assumed of the far
\* ends, of the caller or of the clock.
ForkFairness ==
    /\ WF_forkVars(BranchStep)
    /\ WF_forkVars(RunStep)
    /\ \A c \in Branches : WF_forkVars(CloseLeg(c))

FairForkSpec == ForkSpec /\ ForkFairness

-----------------------------------------------------------------------------
(* Properties *)

\* What the caller of run() has been told; without a route control run() is
\* the branches' own coroutine.
Told == IF controlled THEN result ELSE IF BranchesDone THEN pc ELSE "none"

HasAnswered == {c \in Branches : leg[c] = "answered" \/ task[c] = "answered"}

\* A fork that ends in an exception promises nothing about a winner it had
\* already returned.
Settlement == IF Told \in {"none", "raised"} THEN "no" ELSE IF Told = "won" THEN "won" ELSE "lost"

Promise == INSTANCE ForkPromise WITH open <- Open, answered <- HasAnswered, settled <- Settlement

\* The controller keeps the promise of ForkPromise.
KeepsPromise == Promise!PromiseSpec

\* A cancelled fork leaves no leg behind but the branch winner that run() had
\* not handed out yet; its caller holds that leg among its attempts.
CancelledForkLeavesNothing ==
    result = "raised" => Open \subseteq (IF pc = "won" THEN {winner} ELSE {})

\* Among the phones the first that answers wins, whatever the route control does:
\* before the deadline the fork gives up only if no branch has answered, and it
\* commits to a branch only if every other one that has answered is of the same tier
\* and comes after it in the configured order or was not seen yet.
FollowsIn(w, c) == Tier[c] = tier /\ (c \in counted => Rank[w] < Rank[c])
HeedsAnswers ==
    ~late =>
      /\ after # "failed" /\ after' = "failed" => \A c \in Branches : task[c] # "answered"
      /\ after # "commit" /\ after' = "commit" =>
           \A c \in Branches : task[c] = "answered" => c = winner \/ FollowsIn(winner, c)

AnswerWins == [][HeedsAnswers]_forkVars

\* "The first endpoint that answers wins" (docs/GROUPS.md) of a member that answers
\* as the route control, which a browser does: the group does not fail before the
\* deadline once it has answered.
FirstEndpointWins ==
    [][~late /\ after # "failed" /\ after' = "failed" => ctl # "answered"]_forkVars

\* After the deadline the fork settles although no far end ever says a word.
ForkSettles == late ~> Told # "none"

=============================================================================
