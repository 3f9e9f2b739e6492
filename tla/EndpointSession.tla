-------------------------- MODULE EndpointSession --------------------------
(***************************************************************************)
(* EndpointCallSession (endpoint_session.py): the owner of one logical PBX *)
(* call.  It holds legs, managed resources and background tasks, and tears *)
(* them down behind one cleanup barrier: cancel and join the tasks, close  *)
(* the resources of stage LEG and above, close the legs, close the rest.   *)
(*                                                                         *)
(* asyncio is cooperative, so a run of code between two awaits is one      *)
(* action; every await is a point where other actions interleave.          *)
(* Time is abstracted away: a closer is a task that ends in success or in  *)
(* an exception some time after it started.                                *)
(***************************************************************************)
EXTENDS Naturals, FiniteSets

CONSTANTS
    Legs,          \* CallLeg objects that may be handed to the call
    Resources,     \* ManagedResource objects that may be handed to the call
    StageOf,       \* [Resources -> CleanupStage]
    Watchers,      \* tasks that may be given to own_task (client watchers)
    Awaiters,      \* tasks that await terminate() (services, shutdown)
    NoTask,        \* current_task() in a transport callback: no task at all
    LivePhases,    \* the values of SessionPhase in which the call is live
    Reasons,       \* terminal reasons
    NoReason,      \* the empty terminal_reason of a call that is live
    MaxAdmissions  \* bound on the number of add_leg / add_resource calls

CleanupStage == {0, 10, 20, 30, 40}
LegStage == 20
Items == Legs \cup Resources
Tasks == Watchers \cup Awaiters

\* The tasks given to own_task are the client watchers of CallRegistry; they
\* start a termination but never wait for its barrier (an owned task that
\* waited would be joined by the barrier it waits for).
ASSUME SessionConstants ==
    /\ Legs \cap Resources = {}
    /\ IsFiniteSet(Legs) /\ IsFiniteSet(Resources)
    /\ StageOf \in [Resources -> CleanupStage]
    /\ Watchers \cap Awaiters = {}
    /\ NoTask \notin Watchers \cup Awaiters
    /\ LivePhases # {}
    /\ {"terminating", "terminated"} \cap LivePhases = {}
    /\ NoReason \notin Reasons
    /\ MaxAdmissions \in Nat

VARIABLES
    phase,      \* SessionPhase of the session
    reason,     \* terminal_reason
    custody,    \* [Items -> who must close it: "free", "session", "legacy"]
    stamp,      \* [Items -> place in the insertion order of legs/resources]
    admissions, \* number of admissions so far, the next stamp
    closing,    \* [Items -> "open", "closing", "closed"]
    closedBy,   \* [Items -> the owners whose closer ran on it]
    owned,      \* session.tasks
    initiator,  \* _termination_initiator, NoTask if there is none
    barrier,    \* _run_termination: "none", "scheduled", "joining", "closing", "done"
    joined,     \* the tasks the barrier cancels and gathers
    task,       \* [Tasks -> "running", "cancelling", "waiting", "done"]
    answered    \* awaiters whose terminate() returned or raised

sessionVars == <<phase, reason, custody, stamp, admissions, closing, closedBy,
                 owned, initiator, barrier, joined, task, answered>>

itemVars == <<custody, stamp, admissions, closing, closedBy>>
taskVars == <<owned, task, answered>>
barrierVars == <<initiator, barrier, joined>>

SessionTypeOK ==
    /\ phase \in LivePhases \cup {"terminating", "terminated"}
    /\ reason \in Reasons \cup {NoReason}
    /\ custody \in [Items -> {"free", "session", "legacy"}]
    /\ stamp \in [Items -> Nat]
    /\ admissions \in Nat
    /\ closing \in [Items -> {"open", "closing", "closed"}]
    /\ closedBy \in [Items -> SUBSET {"session", "legacy"}]
    /\ owned \subseteq Watchers
    /\ initiator \in Tasks \cup {NoTask}
    /\ barrier \in {"none", "scheduled", "joining", "closing", "done"}
    /\ joined \subseteq Watchers
    /\ task \in [Tasks -> {"running", "cancelling", "waiting", "done"}]
    /\ answered \subseteq Awaiters

-----------------------------------------------------------------------------

Live == phase \in LivePhases

InSession(i) == custody[i] = "session"

\* Teardown rank of an item: resources of stage LEG and above come before the
\* legs, the legs before the rest.
Stage(i) == IF i \in Legs THEN LegStage ELSE StageOf[i]

ClosesBefore(i, j) ==
    \/ Stage(i) > Stage(j)
    \/ Stage(i) = Stage(j) /\ i \in Resources /\ j \in Legs
    \/ /\ Stage(i) = Stage(j)
       /\ (i \in Legs) = (j \in Legs)
       /\ stamp[i] > stamp[j]

Unclosed == {i \in Items : InSession(i) /\ closing[i] # "closed"}

-----------------------------------------------------------------------------

SessionInit ==
    /\ phase \in LivePhases
    /\ reason = NoReason
    /\ custody = [i \in Items |-> "free"]
    /\ stamp = [i \in Items |-> 0]
    /\ admissions = 0
    /\ closing = [i \in Items |-> "open"]
    /\ closedBy = [i \in Items |-> {}]
    /\ owned = {}
    /\ initiator = NoTask
    /\ barrier = "none"
    /\ joined = {}
    /\ task = [t \in Tasks |-> "running"]
    /\ answered = {}

Transition(p) ==
    /\ Live
    /\ phase' = p
    /\ UNCHANGED <<reason, itemVars, taskVars, barrierVars>>

\* Variant of MayAdmit: ensure_live is missing.
AdmitAnyTime(i) == ~InSession(i) /\ closing[i] = "open"

MayAdmit(i) == Live /\ ~InSession(i) /\ closing[i] = "open"

\* add_leg, add_resource: only while live, only once under one name.
Admit(i) ==
    /\ MayAdmit(i)
    /\ admissions < MaxAdmissions
    /\ custody' = [custody EXCEPT ![i] = "session"]
    /\ admissions' = admissions + 1
    /\ stamp' = [stamp EXCEPT ![i] = admissions + 1]
    /\ UNCHANGED <<phase, reason, closing, closedBy, taskVars, barrierVars>>

\* release_leg, release_resource: the caller takes over the cleanup.
Release(i) ==
    /\ Live
    /\ InSession(i)
    /\ custody' = [custody EXCEPT ![i] = "legacy"]
    /\ stamp' = [stamp EXCEPT ![i] = 0]
    /\ UNCHANGED <<phase, reason, admissions, closing, closedBy, taskVars, barrierVars>>

\* The explicit cleanup path that took the item closes it, at any later time.
LegacyClose(i) ==
    /\ custody[i] = "legacy" /\ closing[i] = "open"
    /\ closing' = [closing EXCEPT ![i] = "closed"]
    /\ closedBy' = [closedBy EXCEPT ![i] = @ \cup {"legacy"}]
    /\ UNCHANGED <<phase, reason, custody, stamp, admissions, taskVars, barrierVars>>

OwnTask(t) ==
    /\ Live
    /\ task[t] = "running" /\ t \notin owned
    /\ owned' = owned \cup {t}
    /\ UNCHANGED <<phase, reason, itemVars, task, answered, barrierVars>>

ReleaseTask(t) ==
    /\ Live
    /\ t \in owned
    /\ owned' = owned \ {t}
    /\ UNCHANGED <<phase, reason, itemVars, task, answered, barrierVars>>

\* A watcher ends by itself, or by unwinding after its cancellation; the done
\* callback discards it from session.tasks.
TaskEnds(t) ==
    /\ task[t] \in {"running", "cancelling"}
    /\ task' = [task EXCEPT ![t] = "done"]
    /\ owned' = owned \ {t}
    /\ UNCHANGED <<phase, reason, itemVars, answered, barrierVars>>

NotStarted == barrier = "none"

\* start_termination: terminal before anybody yields, exactly one barrier.
StartTermination(t, r) ==
    /\ NotStarted
    /\ initiator' = t
    /\ owned' = owned \ {t}
    /\ phase' = "terminating"
    /\ reason' = r
    /\ barrier' = "scheduled"
    /\ UNCHANGED <<itemVars, joined, answered>>

\* A transport callback, or a watcher, that observes the end of the call.
RequestTermination(t, r) ==
    /\ t = NoTask \/ (t \in Watchers /\ task[t] = "running")
    /\ StartTermination(t, r)
    /\ UNCHANGED task

\* terminate(): start the barrier, or join the one that exists, and wait.
Terminate(t, r) ==
    /\ task[t] = "running"
    /\ task' = [task EXCEPT ![t] = "waiting"]
    /\ IF NotStarted
         THEN StartTermination(t, r)
         ELSE UNCHANGED <<phase, reason, itemVars, owned, answered, barrierVars>>

\* async_wait_for_cleanup swallows every cancellation of the waiter until the
\* owned cleanup is over; the waiter then raises, but the barrier is unharmed.
CancelWaiter(t) ==
    /\ task[t] = "waiting"
    /\ task' = [task EXCEPT ![t] = "cancelling"]
    /\ UNCHANGED <<phase, reason, itemVars, owned, answered, barrierVars>>

\* Variants of MayReturn: the second cancellation is not shielded; only the
\* caller that started the barrier is woken by it.
UnshieldedReturn(t) == barrier = "done" \/ task[t] = "cancelling"

MayReturn(t) == barrier = "done"

WaiterReturns(t) ==
    /\ task[t] \in {"waiting", "cancelling"}
    /\ MayReturn(t)
    /\ task' = [task EXCEPT ![t] = "done"]
    /\ answered' = answered \cup {t}
    /\ UNCHANGED <<phase, reason, itemVars, owned, barrierVars>>

-----------------------------------------------------------------------------
(* _run_termination, one action per stretch between two awaits.            *)

\* Variant of ToJoin: the barrier joins the task that started it, too.
JoinStarter == owned \cup {initiator}

ToJoin == owned \ {initiator}

\* Variant of AfterCancel: gather without cancel().
GatherOnly == task

AfterCancel ==
    [t \in Tasks |-> IF t \in ToJoin THEN "cancelling" ELSE task[t]]

\* First stretch: cancel every owned task except the one that started it.
CancelTasks ==
    /\ barrier = "scheduled"
    /\ joined' = ToJoin
    /\ task' = AfterCancel
    /\ barrier' = "joining"
    /\ UNCHANGED <<phase, reason, itemVars, owned, answered, initiator>>

\* Variant of AllJoined: cancel() is taken for the end of the task.
AllCancelled == \A t \in joined : task[t] # "running"

AllJoined == \A t \in joined : task[t] = "done"

\* The gather over the cancelled tasks completes.
TasksJoined ==
    /\ barrier = "joining"
    /\ AllJoined
    /\ barrier' = "closing"
    /\ UNCHANGED <<phase, reason, itemVars, taskVars, initiator, joined>>

\* Variant of NextToClose: the loops run over the items in any order.
AnyToClose(i) == i \in Unclosed /\ \A j \in Unclosed : closing[j] = "open"

NextToClose(i) ==
    /\ i \in Unclosed
    /\ \A j \in Unclosed : ~ClosesBefore(j, i) /\ closing[j] = "open"

\* The barrier is sequential: an item is closed when everything that closes
\* before it is closed.
CloseItem(i) ==
    /\ barrier = "closing"
    /\ NextToClose(i)
    /\ closing' = [closing EXCEPT ![i] = "closing"]
    /\ closedBy' = [closedBy EXCEPT ![i] = @ \cup {"session"}]
    /\ UNCHANGED <<phase, reason, custody, stamp, admissions, taskVars, barrierVars>>

\* The closer returns or raises; teardown goes on in both cases.
CloserEnds(i) ==
    /\ closing[i] = "closing"
    /\ closing' = [closing EXCEPT ![i] = "closed"]
    /\ UNCHANGED <<phase, reason, custody, stamp, admissions, closedBy, taskVars, barrierVars>>

FinishTermination ==
    /\ barrier = "closing"
    /\ Unclosed = {}
    /\ barrier' = "done"
    /\ phase' = "terminated"
    /\ UNCHANGED <<reason, itemVars, taskVars, initiator, joined>>

-----------------------------------------------------------------------------

BarrierStep ==
    \/ CancelTasks
    \/ TasksJoined
    \/ \E i \in Items : CloseItem(i) \/ CloserEnds(i)
    \/ FinishTermination

SessionNext ==
    \/ \E p \in LivePhases : Transition(p)
    \/ \E i \in Items : Admit(i) \/ Release(i) \/ LegacyClose(i)
    \/ \E t \in Watchers : OwnTask(t) \/ ReleaseTask(t) \/ TaskEnds(t)
    \/ \E t \in Watchers \cup {NoTask}, r \in Reasons : RequestTermination(t, r)
    \/ \E t \in Awaiters, r \in Reasons : Terminate(t, r)
    \/ \E t \in Awaiters : CancelWaiter(t) \/ WaiterReturns(t)
    \/ BarrierStep

SessionSpec == SessionInit /\ [][SessionNext]_sessionVars

\* The event loop runs every ready task: the barrier task makes progress, a
\* closer ends (each one bounds its own I/O), a cancelled watcher unwinds.
SessionFairness ==
    /\ WF_sessionVars(BarrierStep)
    /\ \A t \in Watchers : WF_sessionVars(task[t] = "cancelling" /\ TaskEnds(t))
    /\ \A t \in Awaiters : WF_sessionVars(WaiterReturns(t))

FairSessionSpec == SessionSpec /\ SessionFairness

-----------------------------------------------------------------------------
(* Properties *)

\* Teardown order: by the time the closer of an item has started, everything
\* the call owns that closes before it (media before legs, legs before the
\* port reservations, newest first) has finished closing.
TeardownOrder ==
    \A i, j \in Items :
        /\ InSession(i) /\ closing[i] # "open"
        /\ InSession(j) /\ ClosesBefore(j, i)
        => closing[j] = "closed"

\* No resource or leg is closed under a background task of the call that is
\* still running: only the task that started the teardown may survive it.
NoCloseUnderRunningTask ==
    (\E i \in Items : InSession(i) /\ closing[i] # "open")
        => owned = {} /\ \A t \in joined : task[t] = "done"

\* An item is closed by one owner only: what was released to an explicit
\* cleanup path is never closed by the barrier, and the other way round.
ClosedByItsOwner ==
    \A i \in Items :
        /\ closedBy[i] \subseteq {custody[i]}
        /\ closing[i] # "open" => closedBy[i] # {}

\* Nobody gets past terminate() before the whole call is closed.
BarrierHolds ==
    (answered # {} \/ phase = "terminated") =>
        /\ phase = "terminated"
        /\ \A i \in Items : InSession(i) => closing[i] = "closed"
        /\ \A t \in joined : task[t] = "done"

\* Once terminal a call takes and hands over nothing, and the first terminal
\* reason is the one everybody sees.
TerminalIsFinal ==
    [][~Live => /\ ~Live'
                /\ custody' = custody
                /\ owned' \subseteq owned
                /\ reason' = reason]_sessionVars

\* Every termination reaches the end of its barrier and wakes every waiter.
TerminationCompletes == (phase = "terminating") ~> (phase = "terminated")

-----------------------------------------------------------------------------

Lifetime == INSTANCE CallLifetime WITH
    life <- IF Live THEN "live" ELSE IF phase = "terminating" THEN "closing" ELSE "gone",
    held <- Unclosed

\* The session implements the abstract lifetime of a call.
ImplementsLifetime == Lifetime!LifetimeSpec

=============================================================================
