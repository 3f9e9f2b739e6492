----------------------------- MODULE CallProofs -----------------------------
(***************************************************************************)
(* Proofs about the session of one call, EndpointSession, for any number   *)
(* of legs, resources, tasks and stages; and about calls between two       *)
(* parties, DirectCall, for any number of calls of each kind, any phone    *)
(* and any endpoints that the calls claim.                                 *)
(***************************************************************************)
EXTENDS EndpointSession, DirectCall, TLAPS

-----------------------------------------------------------------------------
(* The session of a call.  Its safety properties follow from one inductive *)
(* invariant, SessionInv.                                                  *)

\* The barrier variable and the phase tell the same story.
BarrierMatchesPhase ==
    /\ (barrier = "none") <=> Live
    /\ (barrier = "done") <=> (phase = "terminated")
    /\ answered # {} => barrier = "done"

\* No task that ended stays in session.tasks, the initiator of the teardown
\* never is in it, and what is left once the barrier runs is being joined.
TaskBookkeeping ==
    /\ barrier = "none" => initiator = NoTask
    /\ initiator \notin owned
    /\ \A t \in owned : task[t] # "done"
    /\ barrier \in {"joining", "closing", "done"} => owned \subseteq joined
    /\ barrier \in {"closing", "done"} => \A t \in joined : task[t] = "done"

\* The session closes what it holds only behind the joined tasks, and a closer
\* that never started has nobody to its name.
ItemBookkeeping ==
    /\ \A i \in Items : InSession(i) /\ closing[i] # "open" => barrier \in {"closing", "done"}
    /\ \A i \in Items : closing[i] = "open" => closedBy[i] = {}
    /\ barrier = "done" => Unclosed = {}

SessionInv ==
    /\ SessionTypeOK
    /\ BarrierMatchesPhase
    /\ TaskBookkeeping
    /\ ItemBookkeeping
    /\ TeardownOrder
    /\ ClosedByItsOwner

-----------------------------------------------------------------------------
(* Type correctness *)

\* A new session has the types.
LEMMA InitTyped == SessionInit => SessionTypeOK
  BY SessionConstants DEF SessionInit, SessionTypeOK, Items, Tasks

\* Every step of a session keeps the types.
LEMMA NextTyped == SessionTypeOK /\ [SessionNext]_sessionVars => SessionTypeOK'
<1> SUFFICES ASSUME SessionTypeOK, [SessionNext]_sessionVars
             PROVE  SessionTypeOK'
  OBVIOUS
<1> USE SessionConstants DEF SessionTypeOK, itemVars, taskVars, barrierVars
<1>1. ASSUME NEW p \in LivePhases, Transition(p) PROVE SessionTypeOK'
  BY <1>1 DEF Transition
<1>2. ASSUME NEW i \in Items, Admit(i) PROVE SessionTypeOK'
  BY <1>2 DEF Admit
<1>3. ASSUME NEW i \in Items, Release(i) PROVE SessionTypeOK'
  BY <1>3 DEF Release
<1>4. ASSUME NEW i \in Items, LegacyClose(i) PROVE SessionTypeOK'
  BY <1>4 DEF LegacyClose
<1>5. ASSUME NEW t \in Watchers, OwnTask(t) PROVE SessionTypeOK'
  BY <1>5 DEF OwnTask
<1>6. ASSUME NEW t \in Watchers, ReleaseTask(t) PROVE SessionTypeOK'
  BY <1>6 DEF ReleaseTask
<1>7. ASSUME NEW t \in Watchers, TaskEnds(t) PROVE SessionTypeOK'
  BY <1>7 DEF TaskEnds
<1>8. ASSUME NEW t \in Watchers \cup {NoTask}, NEW r \in Reasons, RequestTermination(t, r)
      PROVE  SessionTypeOK'
  BY <1>8 DEF RequestTermination, StartTermination, Tasks
<1>9. ASSUME NEW t \in Awaiters, NEW r \in Reasons, Terminate(t, r) PROVE SessionTypeOK'
  BY <1>9 DEF Terminate, StartTermination, Tasks
<1>10. ASSUME NEW t \in Awaiters, CancelWaiter(t) PROVE SessionTypeOK'
  BY <1>10 DEF CancelWaiter
<1>11. ASSUME NEW t \in Awaiters, WaiterReturns(t) PROVE SessionTypeOK'
  BY <1>11 DEF WaiterReturns
<1>12. CASE CancelTasks
  BY <1>12 DEF CancelTasks, ToJoin, AfterCancel
<1>13. CASE TasksJoined
  BY <1>13 DEF TasksJoined
<1>14. ASSUME NEW i \in Items, CloseItem(i) PROVE SessionTypeOK'
  BY <1>14 DEF CloseItem
<1>15. ASSUME NEW i \in Items, CloserEnds(i) PROVE SessionTypeOK'
  BY <1>15 DEF CloserEnds
<1>16. CASE FinishTermination
  BY <1>16 DEF FinishTermination
<1>17. CASE UNCHANGED sessionVars
  BY <1>17 DEF sessionVars
<1>18. QED
  BY <1>1, <1>2, <1>3, <1>4, <1>5, <1>6, <1>7, <1>8, <1>9, <1>10, <1>11,
     <1>12, <1>13, <1>14, <1>15, <1>16, <1>17 DEF SessionNext, BarrierStep

\* The variables of endpoint_session.py keep their types for every number of
\* legs, resources, tasks and stages.
THEOREM SessionTyped == SessionSpec => []SessionTypeOK
  BY InitTyped, NextTyped, PTL DEF SessionSpec

-----------------------------------------------------------------------------
(* The inductive invariant, one part at a time *)

\* Every step keeps what holds of the barrier in its phase.
LEMMA BarrierPhaseStep ==
    SessionTypeOK /\ BarrierMatchesPhase /\ [SessionNext]_sessionVars => BarrierMatchesPhase'
<1> SUFFICES ASSUME SessionTypeOK, BarrierMatchesPhase, [SessionNext]_sessionVars
             PROVE  BarrierMatchesPhase'
  OBVIOUS
<1> USE SessionConstants DEF SessionTypeOK, BarrierMatchesPhase, Live, itemVars, taskVars,
   barrierVars
<1>1. ASSUME NEW p \in LivePhases, Transition(p) PROVE BarrierMatchesPhase'
  BY <1>1 DEF Transition
<1>2. ASSUME NEW i \in Items, Admit(i) PROVE BarrierMatchesPhase'
  BY <1>2 DEF Admit, MayAdmit
<1>3. ASSUME NEW i \in Items, Release(i) PROVE BarrierMatchesPhase'
  BY <1>3 DEF Release
<1>4. ASSUME NEW i \in Items, LegacyClose(i) PROVE BarrierMatchesPhase'
  BY <1>4 DEF LegacyClose
<1>5. ASSUME NEW t \in Watchers, OwnTask(t) PROVE BarrierMatchesPhase'
  BY <1>5 DEF OwnTask
<1>6. ASSUME NEW t \in Watchers, ReleaseTask(t) PROVE BarrierMatchesPhase'
  BY <1>6 DEF ReleaseTask
<1>7. ASSUME NEW t \in Watchers, TaskEnds(t) PROVE BarrierMatchesPhase'
  BY <1>7 DEF TaskEnds
<1>8. ASSUME NEW t \in Watchers \cup {NoTask}, NEW r \in Reasons, RequestTermination(t, r)
      PROVE  BarrierMatchesPhase'
  BY <1>8 DEF RequestTermination, StartTermination, NotStarted
<1>9. ASSUME NEW t \in Awaiters, NEW r \in Reasons, Terminate(t, r)
      PROVE  BarrierMatchesPhase'
  BY <1>9 DEF Terminate, StartTermination, NotStarted
<1>10. ASSUME NEW t \in Awaiters, CancelWaiter(t) PROVE BarrierMatchesPhase'
  BY <1>10 DEF CancelWaiter
<1>11. ASSUME NEW t \in Awaiters, WaiterReturns(t) PROVE BarrierMatchesPhase'
  BY <1>11 DEF WaiterReturns, MayReturn
<1>12. CASE CancelTasks
  BY <1>12 DEF CancelTasks, ToJoin, AfterCancel
<1>13. CASE TasksJoined
  BY <1>13 DEF TasksJoined, AllJoined
<1>14. ASSUME NEW i \in Items, CloseItem(i) PROVE BarrierMatchesPhase'
  BY <1>14 DEF CloseItem, NextToClose
<1>15. ASSUME NEW i \in Items, CloserEnds(i) PROVE BarrierMatchesPhase'
  BY <1>15 DEF CloserEnds
<1>16. CASE FinishTermination
  BY <1>16 DEF FinishTermination
<1>17. CASE UNCHANGED sessionVars
  BY <1>17 DEF sessionVars
<1>18. QED
  BY <1>1, <1>2, <1>3, <1>4, <1>5, <1>6, <1>7, <1>8, <1>9, <1>10, <1>11,
     <1>12, <1>13, <1>14, <1>15, <1>16, <1>17 DEF SessionNext, BarrierStep

\* Every step keeps what holds of the owned tasks.
LEMMA TaskStep ==
    SessionTypeOK /\ BarrierMatchesPhase /\ TaskBookkeeping /\ [SessionNext]_sessionVars
      => TaskBookkeeping'
<1> SUFFICES ASSUME SessionTypeOK, BarrierMatchesPhase, TaskBookkeeping, [SessionNext]_sessionVars
             PROVE  TaskBookkeeping'
  OBVIOUS
<1> USE SessionConstants DEF SessionTypeOK, BarrierMatchesPhase, TaskBookkeeping, Live,
   Tasks, itemVars, taskVars, barrierVars
<1>1. ASSUME NEW p \in LivePhases, Transition(p) PROVE TaskBookkeeping'
  BY <1>1 DEF Transition
<1>2. ASSUME NEW i \in Items, Admit(i) PROVE TaskBookkeeping'
  BY <1>2 DEF Admit, MayAdmit
<1>3. ASSUME NEW i \in Items, Release(i) PROVE TaskBookkeeping'
  BY <1>3 DEF Release
<1>4. ASSUME NEW i \in Items, LegacyClose(i) PROVE TaskBookkeeping'
  BY <1>4 DEF LegacyClose
<1>5. ASSUME NEW t \in Watchers, OwnTask(t) PROVE TaskBookkeeping'
  BY <1>5 DEF OwnTask
<1>6. ASSUME NEW t \in Watchers, ReleaseTask(t) PROVE TaskBookkeeping'
  BY <1>6 DEF ReleaseTask
<1>7. ASSUME NEW t \in Watchers, TaskEnds(t) PROVE TaskBookkeeping'
  BY <1>7 DEF TaskEnds
<1>8. ASSUME NEW t \in Watchers \cup {NoTask}, NEW r \in Reasons, RequestTermination(t, r)
      PROVE  TaskBookkeeping'
  BY <1>8 DEF RequestTermination, StartTermination, NotStarted
<1>9. ASSUME NEW t \in Awaiters, NEW r \in Reasons, Terminate(t, r)
      PROVE  TaskBookkeeping'
  BY <1>9 DEF Terminate, StartTermination, NotStarted
<1>10. ASSUME NEW t \in Awaiters, CancelWaiter(t) PROVE TaskBookkeeping'
  BY <1>10 DEF CancelWaiter
<1>11. ASSUME NEW t \in Awaiters, WaiterReturns(t) PROVE TaskBookkeeping'
  BY <1>11 DEF WaiterReturns, MayReturn
<1>12. CASE CancelTasks
  BY <1>12 DEF CancelTasks, ToJoin, AfterCancel
<1>13. CASE TasksJoined
  BY <1>13 DEF TasksJoined, AllJoined
<1>14. ASSUME NEW i \in Items, CloseItem(i) PROVE TaskBookkeeping'
  BY <1>14 DEF CloseItem, NextToClose
<1>15. ASSUME NEW i \in Items, CloserEnds(i) PROVE TaskBookkeeping'
  BY <1>15 DEF CloserEnds
<1>16. CASE FinishTermination
  BY <1>16 DEF FinishTermination
<1>17. CASE UNCHANGED sessionVars
  BY <1>17 DEF sessionVars
<1>18. QED
  BY <1>1, <1>2, <1>3, <1>4, <1>5, <1>6, <1>7, <1>8, <1>9, <1>10, <1>11,
     <1>12, <1>13, <1>14, <1>15, <1>16, <1>17 DEF SessionNext, BarrierStep

\* Every step keeps what holds of the owned legs and resources.
LEMMA ItemStep ==
    SessionTypeOK /\ BarrierMatchesPhase /\ ItemBookkeeping /\ [SessionNext]_sessionVars
      => ItemBookkeeping'
<1> SUFFICES ASSUME SessionTypeOK, BarrierMatchesPhase, ItemBookkeeping, [SessionNext]_sessionVars
             PROVE  ItemBookkeeping'
  OBVIOUS
<1> USE SessionConstants DEF SessionTypeOK, BarrierMatchesPhase, ItemBookkeeping, Live,
   InSession, Unclosed, itemVars, taskVars, barrierVars
<1>1. ASSUME NEW p \in LivePhases, Transition(p) PROVE ItemBookkeeping'
  BY <1>1 DEF Transition
<1>2. ASSUME NEW i \in Items, Admit(i) PROVE ItemBookkeeping'
  BY <1>2 DEF Admit, MayAdmit
<1>3. ASSUME NEW i \in Items, Release(i) PROVE ItemBookkeeping'
  BY <1>3 DEF Release
<1>4. ASSUME NEW i \in Items, LegacyClose(i) PROVE ItemBookkeeping'
  BY <1>4 DEF LegacyClose
<1>5. ASSUME NEW t \in Watchers, OwnTask(t) PROVE ItemBookkeeping'
  BY <1>5 DEF OwnTask
<1>6. ASSUME NEW t \in Watchers, ReleaseTask(t) PROVE ItemBookkeeping'
  BY <1>6 DEF ReleaseTask
<1>7. ASSUME NEW t \in Watchers, TaskEnds(t) PROVE ItemBookkeeping'
  BY <1>7 DEF TaskEnds
<1>8. ASSUME NEW t \in Watchers \cup {NoTask}, NEW r \in Reasons, RequestTermination(t, r)
      PROVE  ItemBookkeeping'
  BY <1>8 DEF RequestTermination, StartTermination, NotStarted
<1>9. ASSUME NEW t \in Awaiters, NEW r \in Reasons, Terminate(t, r)
      PROVE  ItemBookkeeping'
  BY <1>9 DEF Terminate, StartTermination, NotStarted
<1>10. ASSUME NEW t \in Awaiters, CancelWaiter(t) PROVE ItemBookkeeping'
  BY <1>10 DEF CancelWaiter
<1>11. ASSUME NEW t \in Awaiters, WaiterReturns(t) PROVE ItemBookkeeping'
  BY <1>11 DEF WaiterReturns, MayReturn
<1>12. CASE CancelTasks
  BY <1>12 DEF CancelTasks, ToJoin, AfterCancel
<1>13. CASE TasksJoined
  BY <1>13 DEF TasksJoined, AllJoined
<1>14. ASSUME NEW i \in Items, CloseItem(i) PROVE ItemBookkeeping'
  BY <1>14 DEF CloseItem, NextToClose
<1>15. ASSUME NEW i \in Items, CloserEnds(i) PROVE ItemBookkeeping'
  BY <1>15 DEF CloserEnds
<1>16. CASE FinishTermination
  BY <1>16 DEF FinishTermination
<1>17. CASE UNCHANGED sessionVars
  BY <1>17 DEF sessionVars
<1>18. QED
  BY <1>1, <1>2, <1>3, <1>4, <1>5, <1>6, <1>7, <1>8, <1>9, <1>10, <1>11,
     <1>12, <1>13, <1>14, <1>15, <1>16, <1>17 DEF SessionNext, BarrierStep

\* Every step keeps the order of the teardown.
LEMMA OrderStep ==
    /\ SessionTypeOK /\ BarrierMatchesPhase /\ ItemBookkeeping /\ TeardownOrder
    /\ [SessionNext]_sessionVars
    => TeardownOrder'
<1> SUFFICES ASSUME SessionTypeOK, BarrierMatchesPhase, ItemBookkeeping, TeardownOrder,
                    [SessionNext]_sessionVars
             PROVE  TeardownOrder'
  OBVIOUS
<1> USE SessionConstants DEF SessionTypeOK, BarrierMatchesPhase, ItemBookkeeping,
   TeardownOrder, Live, InSession, Unclosed, ClosesBefore, Stage, itemVars, taskVars,
   barrierVars
<1>1. ASSUME NEW p \in LivePhases, Transition(p) PROVE TeardownOrder'
  BY <1>1 DEF Transition
<1>2. ASSUME NEW i \in Items, Admit(i) PROVE TeardownOrder'
  BY <1>2 DEF Admit, MayAdmit
<1>3. ASSUME NEW i \in Items, Release(i) PROVE TeardownOrder'
  BY <1>3 DEF Release
<1>4. ASSUME NEW i \in Items, LegacyClose(i) PROVE TeardownOrder'
  BY <1>4 DEF LegacyClose
<1>5. ASSUME NEW t \in Watchers, OwnTask(t) PROVE TeardownOrder'
  BY <1>5 DEF OwnTask
<1>6. ASSUME NEW t \in Watchers, ReleaseTask(t) PROVE TeardownOrder'
  BY <1>6 DEF ReleaseTask
<1>7. ASSUME NEW t \in Watchers, TaskEnds(t) PROVE TeardownOrder'
  BY <1>7 DEF TaskEnds
<1>8. ASSUME NEW t \in Watchers \cup {NoTask}, NEW r \in Reasons, RequestTermination(t, r)
      PROVE  TeardownOrder'
  BY <1>8 DEF RequestTermination, StartTermination, NotStarted
<1>9. ASSUME NEW t \in Awaiters, NEW r \in Reasons, Terminate(t, r)
      PROVE  TeardownOrder'
  BY <1>9 DEF Terminate, StartTermination, NotStarted
<1>10. ASSUME NEW t \in Awaiters, CancelWaiter(t) PROVE TeardownOrder'
  BY <1>10 DEF CancelWaiter
<1>11. ASSUME NEW t \in Awaiters, WaiterReturns(t) PROVE TeardownOrder'
  BY <1>11 DEF WaiterReturns, MayReturn
<1>12. CASE CancelTasks
  BY <1>12 DEF CancelTasks, ToJoin, AfterCancel
<1>13. CASE TasksJoined
  BY <1>13 DEF TasksJoined, AllJoined
<1>14. ASSUME NEW i \in Items, CloseItem(i) PROVE TeardownOrder'
  BY <1>14 DEF CloseItem, NextToClose
<1>15. ASSUME NEW i \in Items, CloserEnds(i) PROVE TeardownOrder'
  BY <1>15 DEF CloserEnds
<1>16. CASE FinishTermination
  BY <1>16 DEF FinishTermination
<1>17. CASE UNCHANGED sessionVars
  BY <1>17 DEF sessionVars
<1>18. QED
  BY <1>1, <1>2, <1>3, <1>4, <1>5, <1>6, <1>7, <1>8, <1>9, <1>10, <1>11,
     <1>12, <1>13, <1>14, <1>15, <1>16, <1>17 DEF SessionNext, BarrierStep

\* Every step keeps what was closed by its owner.
LEMMA OwnerStep ==
    /\ SessionTypeOK /\ BarrierMatchesPhase /\ ItemBookkeeping /\ ClosedByItsOwner
    /\ [SessionNext]_sessionVars
    => ClosedByItsOwner'
<1> SUFFICES ASSUME SessionTypeOK, BarrierMatchesPhase, ItemBookkeeping, ClosedByItsOwner,
                    [SessionNext]_sessionVars
             PROVE  ClosedByItsOwner'
  OBVIOUS
<1> USE SessionConstants DEF SessionTypeOK, BarrierMatchesPhase, ItemBookkeeping,
   ClosedByItsOwner, Live, InSession, Unclosed, itemVars, taskVars, barrierVars
<1>1. ASSUME NEW p \in LivePhases, Transition(p) PROVE ClosedByItsOwner'
  BY <1>1 DEF Transition
<1>2. ASSUME NEW i \in Items, Admit(i) PROVE ClosedByItsOwner'
  BY <1>2 DEF Admit, MayAdmit
<1>3. ASSUME NEW i \in Items, Release(i) PROVE ClosedByItsOwner'
  BY <1>3 DEF Release
<1>4. ASSUME NEW i \in Items, LegacyClose(i) PROVE ClosedByItsOwner'
  BY <1>4 DEF LegacyClose
<1>5. ASSUME NEW t \in Watchers, OwnTask(t) PROVE ClosedByItsOwner'
  BY <1>5 DEF OwnTask
<1>6. ASSUME NEW t \in Watchers, ReleaseTask(t) PROVE ClosedByItsOwner'
  BY <1>6 DEF ReleaseTask
<1>7. ASSUME NEW t \in Watchers, TaskEnds(t) PROVE ClosedByItsOwner'
  BY <1>7 DEF TaskEnds
<1>8. ASSUME NEW t \in Watchers \cup {NoTask}, NEW r \in Reasons, RequestTermination(t, r)
      PROVE  ClosedByItsOwner'
  BY <1>8 DEF RequestTermination, StartTermination, NotStarted
<1>9. ASSUME NEW t \in Awaiters, NEW r \in Reasons, Terminate(t, r)
      PROVE  ClosedByItsOwner'
  BY <1>9 DEF Terminate, StartTermination, NotStarted
<1>10. ASSUME NEW t \in Awaiters, CancelWaiter(t) PROVE ClosedByItsOwner'
  BY <1>10 DEF CancelWaiter
<1>11. ASSUME NEW t \in Awaiters, WaiterReturns(t) PROVE ClosedByItsOwner'
  BY <1>11 DEF WaiterReturns, MayReturn
<1>12. CASE CancelTasks
  BY <1>12 DEF CancelTasks, ToJoin, AfterCancel
<1>13. CASE TasksJoined
  BY <1>13 DEF TasksJoined, AllJoined
<1>14. ASSUME NEW i \in Items, CloseItem(i) PROVE ClosedByItsOwner'
  BY <1>14 DEF CloseItem, NextToClose
<1>15. ASSUME NEW i \in Items, CloserEnds(i) PROVE ClosedByItsOwner'
  BY <1>15 DEF CloserEnds
<1>16. CASE FinishTermination
  BY <1>16 DEF FinishTermination
<1>17. CASE UNCHANGED sessionVars
  BY <1>17 DEF sessionVars
<1>18. QED
  BY <1>1, <1>2, <1>3, <1>4, <1>5, <1>6, <1>7, <1>8, <1>9, <1>10, <1>11,
     <1>12, <1>13, <1>14, <1>15, <1>16, <1>17 DEF SessionNext, BarrierStep

\* A new session satisfies the invariant.
LEMMA InitInv == SessionInit => SessionInv
  BY InitTyped, SessionConstants
  DEF SessionInit, SessionInv, BarrierMatchesPhase, TaskBookkeeping, ItemBookkeeping,
      TeardownOrder, ClosedByItsOwner, Live, InSession, Unclosed, Items

\* Every step of a session keeps the invariant.
LEMMA NextInv == SessionInv /\ [SessionNext]_sessionVars => SessionInv'
  BY NextTyped, BarrierPhaseStep, TaskStep, ItemStep, OrderStep, OwnerStep DEF SessionInv

\* SessionInv holds throughout every call.
THEOREM SessionInvariant == SessionSpec => []SessionInv
  BY InitInv, NextInv, PTL DEF SessionSpec

-----------------------------------------------------------------------------
(* The safety properties *)

\* Media objects close before legs, legs before reservations, newest first,
\* whatever is admitted, released or cancelled around the teardown.
THEOREM TeardownIsOrdered == SessionSpec => []TeardownOrder
<1>1. SessionInv => TeardownOrder
  BY DEF SessionInv
<1>2. QED
  BY <1>1, SessionInvariant, PTL

\* The barrier closes an item only behind the last background task of the call.
THEOREM TasksEndFirst == SessionSpec => []NoCloseUnderRunningTask
<1>1. SessionInv => NoCloseUnderRunningTask
  BY DEF SessionInv, NoCloseUnderRunningTask, TaskBookkeeping, ItemBookkeeping
<1>2. QED
  BY <1>1, SessionInvariant, PTL

\* Nothing is closed by an owner that does not have it.
THEOREM OneOwnerCloses == SessionSpec => []ClosedByItsOwner
<1>1. SessionInv => ClosedByItsOwner
  BY DEF SessionInv
<1>2. QED
  BY <1>1, SessionInvariant, PTL

\* terminate() returns, or raises, only when the whole call is closed.
THEOREM BarrierIsComplete == SessionSpec => []BarrierHolds
<1>1. SessionInv => BarrierHolds
  BY DEF SessionInv, BarrierHolds, BarrierMatchesPhase, TaskBookkeeping, ItemBookkeeping,
         Unclosed
<1>2. QED
  BY <1>1, SessionInvariant, PTL

\* What a step may not do to a call that is no longer live.
TerminalStep ==
    ~Live => /\ ~Live'
             /\ custody' = custody
             /\ owned' \subseteq owned
             /\ reason' = reason

\* No step takes back what is terminal.
LEMMA StepKeepsTerminal == SessionInv /\ [SessionNext]_sessionVars => TerminalStep
<1> SUFFICES ASSUME SessionTypeOK, BarrierMatchesPhase, [SessionNext]_sessionVars
             PROVE  TerminalStep
  BY DEF SessionInv
<1> USE SessionConstants DEF SessionTypeOK, BarrierMatchesPhase, TerminalStep, Live, MayAdmit,
        itemVars, taskVars, barrierVars
<1>1. ASSUME NEW p \in LivePhases, Transition(p) PROVE TerminalStep
  BY <1>1 DEF Transition
<1>2. ASSUME NEW i \in Items, Admit(i) PROVE TerminalStep
  BY <1>2 DEF Admit, MayAdmit
<1>3. ASSUME NEW i \in Items, Release(i) PROVE TerminalStep
  BY <1>3 DEF Release
<1>4. ASSUME NEW i \in Items, LegacyClose(i) PROVE TerminalStep
  BY <1>4 DEF LegacyClose
<1>5. ASSUME NEW t \in Watchers, OwnTask(t) PROVE TerminalStep
  BY <1>5 DEF OwnTask
<1>6. ASSUME NEW t \in Watchers, ReleaseTask(t) PROVE TerminalStep
  BY <1>6 DEF ReleaseTask
<1>7. ASSUME NEW t \in Watchers, TaskEnds(t) PROVE TerminalStep
  BY <1>7 DEF TaskEnds
<1>8. ASSUME NEW t \in Watchers \cup {NoTask}, NEW r \in Reasons, RequestTermination(t, r)
      PROVE  TerminalStep
  BY <1>8 DEF RequestTermination, StartTermination, NotStarted
<1>9. ASSUME NEW t \in Awaiters, NEW r \in Reasons, Terminate(t, r)
      PROVE  TerminalStep
  BY <1>9 DEF Terminate, StartTermination, NotStarted
<1>10. ASSUME NEW t \in Awaiters, CancelWaiter(t) PROVE TerminalStep
  BY <1>10 DEF CancelWaiter
<1>11. ASSUME NEW t \in Awaiters, WaiterReturns(t) PROVE TerminalStep
  BY <1>11 DEF WaiterReturns, MayReturn
<1>12. CASE CancelTasks
  BY <1>12 DEF CancelTasks, ToJoin, AfterCancel
<1>13. CASE TasksJoined
  BY <1>13 DEF TasksJoined, AllJoined
<1>14. ASSUME NEW i \in Items, CloseItem(i) PROVE TerminalStep
  BY <1>14 DEF CloseItem, NextToClose
<1>15. ASSUME NEW i \in Items, CloserEnds(i) PROVE TerminalStep
  BY <1>15 DEF CloserEnds
<1>16. CASE FinishTermination
  BY <1>16 DEF FinishTermination
<1>17. CASE UNCHANGED sessionVars
  BY <1>17 DEF sessionVars
<1>18. QED
  BY <1>1, <1>2, <1>3, <1>4, <1>5, <1>6, <1>7, <1>8, <1>9,
     <1>10, <1>11, <1>12, <1>13, <1>14, <1>15, <1>16, <1>17 DEF SessionNext, BarrierStep

\* A terminal call admits, hands over and renames nothing, in any behaviour.
THEOREM TerminalStaysFinal == SessionSpec => TerminalIsFinal
<1>1. SessionInv /\ [SessionNext]_sessionVars => [TerminalStep]_sessionVars
  BY StepKeepsTerminal
<1>2. QED
  BY <1>1, SessionInvariant, PTL DEF SessionSpec, TerminalIsFinal, TerminalStep

-----------------------------------------------------------------------------
(* Refinement: every step of the session is a step of CallLifetime or none. *)

\* A new session is a new lifetime.
LEMMA InitRefines == SessionInit => Lifetime!LifetimeInit
  BY SessionConstants
  DEF SessionInit, Lifetime!LifetimeInit, Live, Unclosed, InSession

\* Every step of a session is a step of its lifetime, or changes nothing of it.
LEMMA StepRefines ==
    SessionInv /\ [SessionNext]_sessionVars
    => [Lifetime!LifetimeNext]_(Lifetime!lifetimeVars)
<1> SUFFICES ASSUME SessionTypeOK, BarrierMatchesPhase, ItemBookkeeping, [SessionNext]_sessionVars
             PROVE  [Lifetime!LifetimeNext]_(Lifetime!lifetimeVars)
  BY DEF SessionInv
<1> DEFINE Goal == [Lifetime!LifetimeNext]_(Lifetime!lifetimeVars)
<1> USE SessionConstants DEF SessionTypeOK, BarrierMatchesPhase, ItemBookkeeping, Live, InSession,
        Unclosed, itemVars, taskVars, barrierVars, Lifetime!LifetimeNext, Lifetime!lifetimeVars,
        Lifetime!Acquire, Lifetime!Transfer, Lifetime!Drop, Lifetime!BeginClosing, Lifetime!Finish
<1>1. ASSUME NEW p \in LivePhases, Transition(p) PROVE Goal
  BY <1>1 DEF Transition
<1>2. ASSUME NEW i \in Items, Admit(i) PROVE Goal
  BY <1>2 DEF Admit, MayAdmit
<1>3. ASSUME NEW i \in Items, Release(i) PROVE Goal
  BY <1>3 DEF Release
<1>4. ASSUME NEW i \in Items, LegacyClose(i) PROVE Goal
  BY <1>4 DEF LegacyClose
<1>5. ASSUME NEW t \in Watchers, OwnTask(t) PROVE Goal
  BY <1>5 DEF OwnTask
<1>6. ASSUME NEW t \in Watchers, ReleaseTask(t) PROVE Goal
  BY <1>6 DEF ReleaseTask
<1>7. ASSUME NEW t \in Watchers, TaskEnds(t) PROVE Goal
  BY <1>7 DEF TaskEnds
<1>8. ASSUME NEW t \in Watchers \cup {NoTask}, NEW r \in Reasons, RequestTermination(t, r)
      PROVE  Goal
  BY <1>8 DEF RequestTermination, StartTermination, NotStarted
<1>9. ASSUME NEW t \in Awaiters, NEW r \in Reasons, Terminate(t, r) PROVE Goal
  BY <1>9 DEF Terminate, StartTermination, NotStarted
<1>10. ASSUME NEW t \in Awaiters, CancelWaiter(t) PROVE Goal
  BY <1>10 DEF CancelWaiter
<1>11. ASSUME NEW t \in Awaiters, WaiterReturns(t) PROVE Goal
  BY <1>11 DEF WaiterReturns, MayReturn
<1>12. CASE CancelTasks
  BY <1>12 DEF CancelTasks, ToJoin, AfterCancel
<1>13. CASE TasksJoined
  BY <1>13 DEF TasksJoined, AllJoined
<1>14. ASSUME NEW i \in Items, CloseItem(i) PROVE Goal
  BY <1>14 DEF CloseItem, NextToClose
<1>15. ASSUME NEW i \in Items, CloserEnds(i) PROVE Goal
  BY <1>15 DEF CloserEnds
<1>16. CASE FinishTermination
  BY <1>16 DEF FinishTermination
<1>17. CASE UNCHANGED sessionVars
  BY <1>17 DEF sessionVars
<1>18. QED
  BY <1>1, <1>2, <1>3, <1>4, <1>5, <1>6, <1>7, <1>8, <1>9,
     <1>10, <1>11, <1>12, <1>13, <1>14, <1>15, <1>16, <1>17 DEF SessionNext, BarrierStep

\* EndpointCallSession keeps the promise CallLifetime states.
THEOREM SessionImplementsLifetime == SessionSpec => ImplementsLifetime
  BY InitRefines, StepRefines, SessionInvariant, PTL
  DEF SessionSpec, ImplementsLifetime, Lifetime!LifetimeSpec

-----------------------------------------------------------------------------
(* Calls between two parties: the inductive invariant *)

\* The watcher of a call awaits its far end, the relay or the end of the talk.
Attended(c) == watch[c] \in {"final", "relay", "talk"} /\ ~cancelled[c]

\* The three kinds of call go through different places.
KindInv == \A c \in Calls :
    /\ c \in Routed => /\ watch[c] = "none" /\ ~cancelled[c]
                       /\ pc[c] \in {"idle", "collect", "invite", "relay", "closing", "done"}
    /\ c \in Placed => /\ pc[c] \in {"idle", "prepare", "invite", "closing", "raising", "done"}
                       /\ watch[c] \in {"none", "final", "talk", "failing", "ending"}
                       /\ ~bridge[c] /\ relay[c] = "none" /\ source[c] = "none" /\ term[c] = "no"
    /\ c \in Bridged => /\ pc[c] \in {"idle", "invite", "closing", "done"}
                        /\ watch[c] # "ending"
    /\ hang[c] # "no" => c \in Placed

\* A call that has not sent its INVITE has nothing yet; what a phone that dials
\* found in the index are the clients of other calls, whose handlers are done.
FreshInv == \A c \in Calls :
    /\ pc[c] = "idle" => source[c] = "none" /\ term[c] = "no"
    /\ pc[c] \in {"idle", "prepare"} => session[c] = "none" /\ ~tomb[c]
    /\ pc[c] \in {"idle", "prepare"} => hang[c] = "no" /\ ~giveUp[c]
    /\ pc[c] \in {"idle", "prepare", "collect"} => far[c] = "none" /\ ~client[c] /\ ~bridge[c]
    /\ pc[c] # "prepare" => stale[c] = {}
    /\ \A o \in stale[c] : o \notin Placed /\ pc[o] = "done"

\* The session outlives the client, the bridge and the relay, so that its barrier
\* finds what is left of them.
KeepingInv == \A c \in Calls :
    /\ client[c] \/ relay[c] = "running" => session[c] \in {"live", "closing", "joining"}
    /\ bridge[c] => session[c] = "live"

\* It outlives the claims too.
ClaimInv == \A e \in Endpoints, c \in Calls :
    claim[e] = c => session[c] \in {"live", "closing", "joining"}

\* A watcher follows its handler, and has the client until somebody takes the client
\* and cancels the watcher.  A caller who has left is not bridged any more.
WatchInv == \A c \in Calls :
    /\ watch[c] # "none" => pc[c] = "done"
    /\ watched[c] \/ cancelled[c] => watch[c] # "none"
    /\ Attended(c) => client[c] /\ watched[c] /\ (c \in Bridged => bridge[c])
    /\ bridge[c] => pc[c] = "done" /\ (c \in Routed => relay[c] = "running")
    /\ client[c] /\ c \notin Placed => pc[c] = "done"
    /\ c \in Bridged /\ term[c] # "no" => ~bridge[c] /\ (pc[c] = "invite" => closed[c])
    /\ relay[c] = "starting" => "relay" \in {watch[c], pc[c]}
    /\ relay[c] = "taken" => term[c] = "taking"

\* As long as there is something of the far end, somebody has still to close it: the
\* handler, the watcher, a phone that dials, the hangup service, the barrier with the
\* client, or the end by the caller; but for the orphan of a routed call.
FarInv == \A c \in Calls : far[c] # "none" =>
    \/ pc[c] \in {"invite", "relay", "closing", "raising"}
    \/ watch[c] \in {"failing", "ending", "selfjoin"}
    \/ cut = c \/ hang[c] = "taking" \/ client[c]
    \/ term[c] = "taking" /\ pc[c] = "done" /\ (c \in Routed => relay[c] = "taken")
    \/ c \in Routed /\ relay[c] = "orphan"

\* A pair is in the hands of the handler or the watcher that will give it back, or of
\* the relay, or it is a loss of the kind that the relay tells.
PairInv == \A c \in Calls :
    /\ pair[c] = "held" =>
         \/ c \in Bridged /\ (pc[c] \in {"invite", "closing"} \/ watch[c] \in {"final", "relay", "failing"})
         \/ c \in Routed /\ pc[c] \in {"collect", "invite", "relay", "closing"}
    /\ c \in Bridged /\ (pc[c] = "invite" \/ watch[c] \in {"final", "relay"}) => pair[c] = "held"
    /\ pc[c] = "relay" \/ watch[c] = "relay" => relay[c] = "starting"
    /\ pc[c] \in {"idle", "collect", "invite"} \/ watch[c] = "final" => relay[c] = "none"
    /\ pair[c] = "relay" => relay[c] \in {"running", "taken"}
    /\ pair[c] = "stranded" => c \in Bridged
    /\ relay[c] = "late" => c \in Bridged /\ pair[c] = "stranded"
    /\ relay[c] = "orphan" => c \in Routed /\ pair[c] = "free"

\* A phone prepares one call at a time, while it shows none, and then no call of its
\* own is in the way.
PrepareInv ==
    /\ cut # Nobody => cut \in Calls \ Placed /\ pc[cut] = "done" /\ ~client[cut]
    /\ \A c \in Placed : pc[c] = "prepare" => store.state = "idle"
    /\ \A c, o \in Placed : pc[c] = "prepare" /\ pc[o] = "prepare" => c = o

\* The client of a placed call is in the index exactly while the phone shows the call
\* in the state its handler or its watcher has brought it to.
DialledInv == \A c \in Placed :
    /\ watched[c] => client[c]
    /\ client[c] =>
        /\ hang[c] = "no" /\ ~giveUp[c]
        /\ session[c] = "live" /\ ~tomb[c] /\ store.call = c
        /\ \/ pc[c] = "invite" /\ store.state = "calling"
           \/ /\ pc[c] = "done" /\ watched[c] /\ ~cancelled[c]
              /\ \/ watch[c] = "final" /\ store.state = "remote_ringing"
                 \/ watch[c] = "talk" /\ store.state = "in_call"

\* A phone that shows a call has its client, or somebody has still to tell the phone.
ShownInv == store.state # "idle" =>
    /\ store.call \in Placed
    /\ \/ client[store.call] \/ pc[store.call] = "raising" \/ watch[store.call] = "ending"
       \/ hang[store.call] = "taking"

DirectInv ==
    /\ DirectTypeOK
    /\ KindInv /\ FreshInv /\ KeepingInv /\ ClaimInv /\ WatchInv /\ FarInv
    /\ PairInv /\ PrepareInv /\ DialledInv /\ ShownInv

USE DEF vars, workVars, callVars, registryVars

-----------------------------------------------------------------------------
(* The steps by what they are about *)

Bridging(c) == Invited(c) \/ InviteReturns(c) \/ HandlerClosed(c)

BridgeWatching(c) ==
    \/ FinalReturns(c) \/ RelayStarts(c) \/ RelayFails(c) \/ FailureClosed(c)
    \/ CalleeEnds(c)

Routing(c) == Preanswered(c) \/ RouteChosen(c) \/ RoutedReturns(c) \/ RoutedClosed(c)

Relaying(c) == RoutedRelayFails(c) \/ RoutedBridged(c) \/ RoutedRefused(c)

Dialing(c) == Dial(c) \/ StaleGone(c)

Taking(c) == StaleTaken(c)

Starting(c) == Started(c)

Placing(c) == PlacedReturns(c) \/ PlacedRaises(c) \/ PlacedClosed(c)

PlacedWatching(c) == PlacedFinal(c) \/ RemoteEnds(c) \/ PlacedWatchClosed(c)

Leaving(c) == CallerEnds(c) \/ CallerGone(c) \/ Interrupted(c)

HangingUp(c) == Hangup(c) \/ HungUp(c) \/ GivenUp(c)

Barrier(c) == BarrierStarts(c) \/ BarrierEnds(c)

Answering(c) == FarEnd(c) \/ TimesOut(c)

\* These are all the steps.
LEMMA StepIsOfAKind ==
  DirectNext => \E c \in Calls :
    \/ Bridging(c) \/ BridgeWatching(c) \/ Routing(c) \/ Relaying(c) \/ Dialing(c) \/ Taking(c)
    \/ Starting(c) \/ Placing(c) \/ PlacedWatching(c)
    \/ Leaving(c) \/ HangingUp(c) \/ Barrier(c) \/ Answering(c)
  BY DEF DirectNext, Handler, Watcher, Cleanup, Bridging, BridgeWatching, Routing, Relaying,
     Dialing, Taking, Starting, Placing, PlacedWatching, Leaving, HangingUp, Barrier, Answering

\* A flag that is set or taken back is still a flag.
LEMMA FlagKept ==
  ASSUME NEW f \in [Calls -> BOOLEAN], NEW x \in Calls, NEW b
  PROVE  /\ [f EXCEPT ![x] = @ \/ b] \in [Calls -> BOOLEAN]
         /\ [f EXCEPT ![x] = FALSE] \in [Calls -> BOOLEAN]
         /\ [f EXCEPT ![x] = TRUE] \in [Calls -> BOOLEAN]
<1>1. (f[x] \/ b) \in BOOLEAN
  OBVIOUS
<1>2. QED
  BY <1>1

-----------------------------------------------------------------------------
(* What every kind of step does to the invariant *)

\* The handler of a bridged call keeps the invariant.
LEMMA BridgingKeeps ==
  ASSUME DirectInv, NEW c \in Calls, Bridging(c)
  PROVE  DirectInv'
<1> USE DirectConstants DEF Calls, Bridging, Invited, MayBegin, Offered, BusyEnds, Claims,
   InviteReturns, StillWanted, Linked, Watching, HandlerClosed, Popped, Closed, OwnReleased
<1>0. /\ DirectTypeOK /\ KindInv /\ FreshInv /\ KeepingInv /\ ClaimInv
      /\ WatchInv /\ FarInv /\ PairInv /\ PrepareInv /\ DialledInv /\ ShownInv
  BY DEF DirectInv
<1>1. TasksTyped'
  BY <1>0 DEF DirectTypeOK, TasksTyped
<1>2. FlagsTyped'
  BY <1>0 DEF DirectTypeOK, FlagsTyped
<1>3. PartiesTyped'
  BY <1>0 DEF DirectTypeOK, PartiesTyped
<1>4. FrontTyped'
  BY <1>0 DEF DirectTypeOK, FrontTyped
<1>5. KindInv'
  BY <1>0 DEF KindInv, DirectTypeOK, TasksTyped, FlagsTyped, PartiesTyped
<1>6. FreshInv'
  BY <1>0 DEF FreshInv, DirectTypeOK, TasksTyped, FlagsTyped, PartiesTyped, FrontTyped
<1>7. KeepingInv'
  BY <1>0 DEF KeepingInv, DirectTypeOK, FlagsTyped, PartiesTyped, FrontTyped
<1>8. ClaimInv'
  BY <1>0 DEF ClaimInv, DirectTypeOK, FrontTyped
<1>9. WatchInv'
  BY <1>0 DEF WatchInv, Attended, FreshInv, DirectTypeOK, TasksTyped, FlagsTyped,
     PartiesTyped
<1>10. FarInv'
  BY <1>0 DEF FarInv, DirectTypeOK, TasksTyped, FlagsTyped, PartiesTyped
<1>11. PrepareInv'
  BY <1>0 DEF PrepareInv, KindInv, DirectTypeOK, TasksTyped, FlagsTyped
<1>12. DialledInv'
  BY <1>0 DEF DialledInv, KindInv, DirectTypeOK, TasksTyped, FlagsTyped, FrontTyped
<1>13. ShownInv'
  BY <1>0 DEF ShownInv, DirectTypeOK, TasksTyped, FlagsTyped
<1>14. PairInv'
  <2>1. CASE Invited(c)
    BY <1>0, <2>1 DEF PairInv, KindInv, WatchInv, DirectTypeOK, TasksTyped, PartiesTyped
  <2>2. CASE InviteReturns(c)
    BY <1>0, <2>2 DEF PairInv, KindInv, WatchInv, DirectTypeOK, TasksTyped, PartiesTyped
  <2>3. CASE HandlerClosed(c)
    BY <1>0, <2>3 DEF PairInv, KindInv, WatchInv, DirectTypeOK, TasksTyped, PartiesTyped
  <2>4. QED
    BY <2>1, <2>2, <2>3
<1>15. QED
  BY <1>1, <1>2, <1>3, <1>4, <1>5, <1>6, <1>7, <1>8, <1>9, <1>10, <1>11, <1>12, <1>13, <1>14
     DEF DirectInv, DirectTypeOK

\* The watcher of a bridged call keeps the invariant.
LEMMA BridgeWatchingKeeps ==
  ASSUME DirectInv, NEW c \in Calls, BridgeWatching(c)
  PROVE  DirectInv'
<1> USE DirectConstants DEF Calls, BridgeWatching, FinalReturns, At, BridgeFails, Popped,
   RelayStarts, RelayFails, FailureClosed, Closed, OwnReleased, WatchEnds, CalleeEnds
<1>0. /\ DirectTypeOK /\ KindInv /\ FreshInv /\ KeepingInv /\ ClaimInv
      /\ WatchInv /\ FarInv /\ PairInv /\ PrepareInv /\ DialledInv /\ ShownInv
  BY DEF DirectInv
<1>1. TasksTyped'
  BY <1>0 DEF DirectTypeOK, TasksTyped
<1>2. FlagsTyped'
  <2>1. CASE FinalReturns(c)
    BY <1>0, <2>1, FlagKept DEF DirectTypeOK, FlagsTyped
  <2>2. CASE RelayStarts(c) \/ RelayFails(c)
    BY <1>0, <2>2, FlagKept DEF DirectTypeOK, FlagsTyped
  <2>3. CASE FailureClosed(c) \/ CalleeEnds(c)
    BY <1>0, <2>3, FlagKept DEF DirectTypeOK, FlagsTyped
  <2>4. QED
    BY <2>1, <2>2, <2>3
<1>3. PartiesTyped'
  BY <1>0 DEF DirectTypeOK, PartiesTyped
<1>4. FrontTyped'
  BY <1>0 DEF DirectTypeOK, FrontTyped
<1>5. KindInv'
  BY <1>0 DEF KindInv, FreshInv, DirectTypeOK, TasksTyped, FlagsTyped, PartiesTyped
<1>6. FreshInv'
  BY <1>0 DEF FreshInv, WatchInv, DirectTypeOK, FlagsTyped, PartiesTyped, FrontTyped
<1>7. KeepingInv'
  BY <1>0 DEF KeepingInv, DirectTypeOK, FlagsTyped, PartiesTyped, FrontTyped
<1>8. ClaimInv'
  BY <1>0 DEF ClaimInv, DirectTypeOK, FrontTyped
<1>9. WatchInv'
  BY <1>0 DEF WatchInv, Attended, DirectTypeOK, TasksTyped, FlagsTyped, PartiesTyped
<1>10. FarInv'
  BY <1>0 DEF FarInv, KindInv, DirectTypeOK, TasksTyped, FlagsTyped, PartiesTyped
<1>11. PrepareInv'
  BY <1>0 DEF PrepareInv, DirectTypeOK, FlagsTyped
<1>12. DialledInv'
  BY <1>0 DEF DialledInv, KindInv, DirectTypeOK, TasksTyped, FlagsTyped, FrontTyped
<1>13. ShownInv'
  BY <1>0 DEF ShownInv, WatchInv, DialledInv, DirectTypeOK, TasksTyped, FlagsTyped
<1>14. PairInv'
  BY <1>0 DEF PairInv, KindInv, WatchInv, Attended, DirectTypeOK, TasksTyped, FlagsTyped,
     PartiesTyped
<1>15. QED
  BY <1>1, <1>2, <1>3, <1>4, <1>5, <1>6, <1>7, <1>8, <1>9, <1>10, <1>11, <1>12, <1>13, <1>14
     DEF DirectInv, DirectTypeOK

\* The router of a trunk call keeps the invariant.
LEMMA RoutingKeeps ==
  ASSUME DirectInv, NEW c \in Calls, Routing(c)
  PROVE  DirectInv'
<1> USE DirectConstants DEF Calls, Routing, Preanswered, MayBegin, RouteChosen, OwnReleased,
   SourceBye, RoutedReturns, RoutedClosed, Closed
<1>0. /\ DirectTypeOK /\ KindInv /\ FreshInv /\ KeepingInv /\ ClaimInv
      /\ WatchInv /\ FarInv /\ PairInv /\ PrepareInv /\ DialledInv /\ ShownInv
  BY DEF DirectInv
<1>1. TasksTyped'
  BY <1>0 DEF DirectTypeOK, TasksTyped
<1>2. FlagsTyped'
  BY <1>0 DEF DirectTypeOK, FlagsTyped
<1>3. PartiesTyped'
  BY <1>0 DEF DirectTypeOK, PartiesTyped
<1>4. FrontTyped'
  BY <1>0 DEF DirectTypeOK, FrontTyped
<1>5. KindInv'
  BY <1>0 DEF KindInv, DirectTypeOK, TasksTyped, PartiesTyped
<1>6. FreshInv'
  BY <1>0 DEF FreshInv, DirectTypeOK, TasksTyped, PartiesTyped, FrontTyped
<1>7. KeepingInv'
  BY <1>0 DEF KeepingInv, DirectTypeOK, PartiesTyped, FrontTyped
<1>8. ClaimInv'
  BY <1>0 DEF ClaimInv, DirectTypeOK, FrontTyped
<1>9. WatchInv'
  BY <1>0 DEF WatchInv, Attended, KindInv, DirectTypeOK, TasksTyped, FlagsTyped,
     PartiesTyped
<1>10. FarInv'
  BY <1>0 DEF FarInv, KindInv, DirectTypeOK, TasksTyped, PartiesTyped
<1>11. PrepareInv'
  BY <1>0 DEF PrepareInv, DirectTypeOK, TasksTyped
<1>12. DialledInv'
  BY <1>0 DEF DialledInv, DirectTypeOK, TasksTyped, FrontTyped
<1>13. ShownInv'
  BY <1>0 DEF ShownInv, DirectTypeOK, TasksTyped
<1>14. PairInv'
  <2>1. CASE Preanswered(c)
    BY <1>0, <2>1 DEF PairInv, KindInv, WatchInv, Attended, DirectTypeOK, TasksTyped,
       FlagsTyped, PartiesTyped
  <2>2. CASE RouteChosen(c)
    BY <1>0, <2>2 DEF PairInv, KindInv, WatchInv, Attended, DirectTypeOK, TasksTyped,
       FlagsTyped, PartiesTyped
  <2>3. CASE RoutedReturns(c)
    BY <1>0, <2>3 DEF PairInv, KindInv, WatchInv, Attended, DirectTypeOK, TasksTyped,
       FlagsTyped, PartiesTyped
  <2>4. CASE RoutedClosed(c)
    BY <1>0, <2>4 DEF PairInv, KindInv, WatchInv, Attended, DirectTypeOK, TasksTyped,
       FlagsTyped, PartiesTyped
  <2>5. QED
    BY <2>1, <2>2, <2>3, <2>4
<1>15. QED
  BY <1>1, <1>2, <1>3, <1>4, <1>5, <1>6, <1>7, <1>8, <1>9, <1>10, <1>11, <1>12, <1>13, <1>14
     DEF DirectInv, DirectTypeOK

\* The relay and the bridge of a routed call keeps the invariant.
LEMMA RelayingKeeps ==
  ASSUME DirectInv, NEW c \in Calls, Relaying(c)
  PROVE  DirectInv'
<1> USE DirectConstants DEF Calls, Relaying, RoutedRelayFails, RoutedBridged, Linked,
   RoutedRefused, Popped, OwnReleased, SourceBye
<1>0. /\ DirectTypeOK /\ KindInv /\ FreshInv /\ KeepingInv /\ ClaimInv
      /\ WatchInv /\ FarInv /\ PairInv /\ PrepareInv /\ DialledInv /\ ShownInv
  BY DEF DirectInv
<1>1. TasksTyped'
  BY <1>0 DEF DirectTypeOK, TasksTyped
<1>2. FlagsTyped'
  BY <1>0 DEF DirectTypeOK, FlagsTyped
<1>3. PartiesTyped'
  BY <1>0 DEF DirectTypeOK, PartiesTyped
<1>4. FrontTyped'
  BY <1>0 DEF DirectTypeOK, FrontTyped
<1>5. KindInv'
  BY <1>0 DEF KindInv, DirectTypeOK, TasksTyped, FlagsTyped, PartiesTyped
<1>6. FreshInv'
  BY <1>0 DEF FreshInv, DirectTypeOK, TasksTyped, FlagsTyped, PartiesTyped, FrontTyped
<1>7. KeepingInv'
  BY <1>0 DEF KeepingInv, FreshInv, ShownInv, DirectTypeOK, FlagsTyped, PartiesTyped,
     FrontTyped
<1>8. ClaimInv'
  BY <1>0 DEF ClaimInv, DirectTypeOK, FrontTyped
<1>9. WatchInv'
  BY <1>0 DEF WatchInv, Attended, KindInv, DirectTypeOK, TasksTyped, FlagsTyped,
     PartiesTyped
<1>10. FarInv'
  BY <1>0 DEF FarInv, WatchInv, KindInv, DirectTypeOK, TasksTyped, FlagsTyped, PartiesTyped
<1>11. PrepareInv'
  BY <1>0 DEF PrepareInv, DirectTypeOK, TasksTyped, FlagsTyped
<1>12. DialledInv'
  BY <1>0 DEF DialledInv, KindInv, DirectTypeOK, TasksTyped, FlagsTyped, FrontTyped
<1>13. ShownInv'
  BY <1>0 DEF ShownInv, KindInv, DirectTypeOK, TasksTyped, FlagsTyped
<1>14. PairInv'
  BY <1>0 DEF PairInv, KindInv, WatchInv, Attended, DirectTypeOK, TasksTyped, FlagsTyped,
     PartiesTyped
<1>15. QED
  BY <1>1, <1>2, <1>3, <1>4, <1>5, <1>6, <1>7, <1>8, <1>9, <1>10, <1>11, <1>12, <1>13, <1>14
     DEF DirectInv, DirectTypeOK

\* A phone that dials, and leaves the old clients, keeps the invariant.
LEMMA DialingKeeps ==
  ASSUME DirectInv, NEW c \in Calls, Dialing(c)
  PROVE  DirectInv'
<1> USE DirectConstants DEF Calls, Dialing, Dial, MayBegin, Idle, Stale, StaleGone, Popped,
   Closed, Joined
<1>0. /\ DirectTypeOK /\ KindInv /\ FreshInv /\ KeepingInv /\ ClaimInv
      /\ WatchInv /\ FarInv /\ PairInv /\ PrepareInv /\ DialledInv /\ ShownInv
  BY DEF DirectInv
<1>1. TasksTyped'
  BY <1>0 DEF DirectTypeOK, TasksTyped
<1>2. FlagsTyped'
  BY <1>0 DEF DirectTypeOK, FlagsTyped
<1>3. PartiesTyped'
  BY <1>0 DEF DirectTypeOK, PartiesTyped
<1>4. FrontTyped'
  BY <1>0 DEF DirectTypeOK, FrontTyped
<1>5. KindInv'
  BY <1>0 DEF KindInv, DirectTypeOK, TasksTyped, FlagsTyped
<1>6. FreshInv'
  BY <1>0 DEF FreshInv, KindInv, WatchInv, PrepareInv, DialledInv, DirectTypeOK, TasksTyped,
     FlagsTyped, PartiesTyped, FrontTyped
<1>7. KeepingInv'
  BY <1>0 DEF KeepingInv, DirectTypeOK, FlagsTyped, FrontTyped
<1>8. ClaimInv'
  BY <1>0 DEF ClaimInv, DirectTypeOK, FrontTyped
<1>9. WatchInv'
  BY <1>0 DEF WatchInv, Attended, KindInv, PrepareInv, DirectTypeOK, TasksTyped, FlagsTyped
<1>10. FarInv'
  BY <1>0 DEF FarInv, DirectTypeOK, TasksTyped, PartiesTyped
<1>11. PrepareInv'
  BY <1>0 DEF PrepareInv, DirectTypeOK, TasksTyped
<1>12. DialledInv'
  BY <1>0 DEF DialledInv, PrepareInv, DirectTypeOK, TasksTyped, FlagsTyped, FrontTyped
<1>13. ShownInv'
  BY <1>0 DEF ShownInv, DirectTypeOK, TasksTyped
<1>14. PairInv'
  BY <1>0 DEF PairInv, KindInv, WatchInv, Attended, DirectTypeOK, TasksTyped, FlagsTyped,
     PartiesTyped
<1>15. QED
  BY <1>1, <1>2, <1>3, <1>4, <1>5, <1>6, <1>7, <1>8, <1>9, <1>10, <1>11, <1>12, <1>13, <1>14
     DEF DirectInv, DirectTypeOK

\* Taking an old client leaves the flags of the calls of their type.
LEMMA StaleTakenTyped ==
  ASSUME FlagsTyped, TasksTyped, NEW c \in Calls, StaleTaken(c)
  PROVE  FlagsTyped'
<1>1. PICK o \in stale[c] :
        \/ /\ client' = [client EXCEPT ![o] = FALSE] /\ watched' = [watched EXCEPT ![o] = FALSE]
           /\ cancelled' = [cancelled EXCEPT ![o] = @ \/ watched[o]]
           /\ UNCHANGED <<tomb, bridge>>
        \/ Popped(o) /\ UNCHANGED <<client, watched, cancelled>>
  BY DEF StaleTaken
<1>2. o \in Calls
  BY DEF TasksTyped
<1>3. closed' = closed /\ giveUp' = giveUp
  BY DEF StaleTaken
<1> USE DEF FlagsTyped
<1>4. cancelled' \in [Calls -> BOOLEAN] /\ watched' \in [Calls -> BOOLEAN]
  BY <1>1, <1>2, FlagKept
<1>5. tomb' \in [Calls -> BOOLEAN] /\ bridge' \in [Calls -> BOOLEAN]
  BY <1>1, <1>2, FlagKept DEF Popped
<1>6. client' \in [Calls -> BOOLEAN] /\ closed' \in [Calls -> BOOLEAN]
      /\ giveUp' \in [Calls -> BOOLEAN]
  BY <1>1, <1>2, <1>3, FlagKept
<1>7. QED
  BY <1>4, <1>5, <1>6

\* A phone that dials and takes an old client keeps the invariant.
LEMMA TakingKeeps ==
  ASSUME DirectInv, NEW c \in Calls, Taking(c)
  PROVE  DirectInv'
<1> USE DirectConstants DEF Calls, Taking, StaleTaken, Popped
<1>0. /\ DirectTypeOK /\ KindInv /\ FreshInv /\ KeepingInv /\ ClaimInv
      /\ WatchInv /\ FarInv /\ PairInv /\ PrepareInv /\ DialledInv /\ ShownInv
  BY DEF DirectInv
<1>1. TasksTyped'
  BY <1>0 DEF DirectTypeOK, TasksTyped
<1>2. FlagsTyped'
  BY <1>0, StaleTakenTyped DEF DirectTypeOK
<1>3. PartiesTyped'
  BY <1>0 DEF DirectTypeOK, PartiesTyped
<1>4. FrontTyped'
  BY <1>0 DEF DirectTypeOK, FrontTyped
<1>5. KindInv'
  BY <1>0 DEF KindInv, WatchInv, DirectTypeOK, FlagsTyped
<1>6. FreshInv'
  BY <1>0 DEF FreshInv, ShownInv, DirectTypeOK, FlagsTyped, FrontTyped
<1>7. KeepingInv'
  BY <1>0 DEF KeepingInv, DirectTypeOK, FlagsTyped, FrontTyped
<1>8. ClaimInv'
  BY <1>0 DEF ClaimInv, DirectTypeOK, FrontTyped
<1>9. WatchInv'
  BY <1>0 DEF WatchInv, Attended, DirectTypeOK, FlagsTyped
<1>10. FarInv'
  BY <1>0 DEF FarInv, DirectTypeOK, FlagsTyped
<1>11. PrepareInv'
  BY <1>0 DEF PrepareInv, FreshInv, DirectTypeOK, TasksTyped, FlagsTyped
<1>12. DialledInv'
  BY <1>0 DEF DialledInv, DirectTypeOK, FlagsTyped, FrontTyped
<1>13. ShownInv'
  BY <1>0 DEF ShownInv, KindInv, PrepareInv
<1>14. PairInv'
  BY <1>0 DEF PairInv, KindInv, WatchInv, Attended, DirectTypeOK, TasksTyped, FlagsTyped,
     PartiesTyped
<1>15. QED
  BY <1>1, <1>2, <1>3, <1>4, <1>5, <1>6, <1>7, <1>8, <1>9, <1>10, <1>11, <1>12, <1>13, <1>14
     DEF DirectInv, DirectTypeOK

\* The start of a placed call keeps the invariant.
LEMMA StartingKeeps ==
  ASSUME DirectInv, NEW c \in Calls, Starting(c)
  PROVE  DirectInv'
<1> USE DirectConstants DEF Calls, Starting, Started, BusyEnds, Claims
<1>0. /\ DirectTypeOK /\ KindInv /\ FreshInv /\ KeepingInv /\ ClaimInv
      /\ WatchInv /\ FarInv /\ PairInv /\ PrepareInv /\ DialledInv /\ ShownInv
  BY DEF DirectInv
<1>1. TasksTyped'
  BY <1>0 DEF DirectTypeOK, TasksTyped
<1>2. FlagsTyped'
  BY <1>0 DEF DirectTypeOK, FlagsTyped
<1>3. PartiesTyped'
  BY <1>0 DEF DirectTypeOK, PartiesTyped
<1>4. FrontTyped'
  BY <1>0 DEF DirectTypeOK, FrontTyped
<1>5. KindInv'
  BY <1>0 DEF KindInv, DirectTypeOK, TasksTyped
<1>6. FreshInv'
  BY <1>0 DEF FreshInv, DirectTypeOK, TasksTyped, FlagsTyped, PartiesTyped, FrontTyped
<1>7. KeepingInv'
  BY <1>0 DEF KeepingInv, WatchInv, DirectTypeOK, FlagsTyped, FrontTyped
<1>8. ClaimInv'
  BY <1>0 DEF ClaimInv, DirectTypeOK, FrontTyped
<1>9. WatchInv'
  BY <1>0 DEF WatchInv, Attended, KindInv, DirectTypeOK, TasksTyped, FlagsTyped
<1>10. FarInv'
  BY <1>0 DEF FarInv, DirectTypeOK, TasksTyped, FlagsTyped, PartiesTyped
<1>11. PrepareInv'
  BY <1>0 DEF PrepareInv, KindInv, DirectTypeOK, TasksTyped
<1>12. DialledInv'
  BY <1>0 DEF DialledInv, KindInv, FreshInv, PrepareInv, KeepingInv, DirectTypeOK, TasksTyped,
     FlagsTyped, FrontTyped
<1>13. ShownInv'
  BY <1>0 DEF ShownInv, KindInv, DirectTypeOK, TasksTyped, FlagsTyped
<1>14. PairInv'
  BY <1>0 DEF PairInv, KindInv, WatchInv, Attended, DirectTypeOK, TasksTyped, FlagsTyped,
     PartiesTyped
<1>15. QED
  BY <1>1, <1>2, <1>3, <1>4, <1>5, <1>6, <1>7, <1>8, <1>9, <1>10, <1>11, <1>12, <1>13, <1>14
     DEF DirectInv, DirectTypeOK

\* The service call of a phone keeps the invariant.
LEMMA PlacingKeeps ==
  ASSUME DirectInv, NEW c \in Calls, Placing(c)
  PROVE  DirectInv'
<1> USE DirectConstants DEF Calls, Placing, PlacedReturns, Popped, SetStore, Shown, Active,
   Watching, Revoked, PlacedRaises, PlacedClosed, Closed
<1>0. /\ DirectTypeOK /\ KindInv /\ FreshInv /\ KeepingInv /\ ClaimInv
      /\ WatchInv /\ FarInv /\ PairInv /\ PrepareInv /\ DialledInv /\ ShownInv
  BY DEF DirectInv
<1>1. TasksTyped'
  BY <1>0 DEF DirectTypeOK, TasksTyped
<1>2. FlagsTyped'
  BY <1>0 DEF DirectTypeOK, FlagsTyped
<1>3. PartiesTyped'
  BY <1>0 DEF DirectTypeOK, PartiesTyped
<1>4. FrontTyped'
  BY <1>0 DEF DirectTypeOK, FrontTyped
<1>5. KindInv'
  BY <1>0 DEF KindInv, FreshInv, WatchInv, Attended, DirectTypeOK, TasksTyped, FlagsTyped,
     PartiesTyped, FrontTyped
<1>6. FreshInv'
  BY <1>0 DEF FreshInv, DirectTypeOK, TasksTyped, FlagsTyped, PartiesTyped, FrontTyped
<1>7. KeepingInv'
  BY <1>0 DEF KeepingInv, DirectTypeOK, FlagsTyped, FrontTyped
<1>8. ClaimInv'
  BY <1>0 DEF ClaimInv, DirectTypeOK, FrontTyped
<1>9. WatchInv'
  BY <1>0 DEF WatchInv, Attended, DirectTypeOK, TasksTyped, FlagsTyped
<1>10. FarInv'
  BY <1>0 DEF FarInv, DirectTypeOK, TasksTyped, FlagsTyped, PartiesTyped
<1>11. PrepareInv'
  BY <1>0 DEF PrepareInv, DialledInv, DirectTypeOK, TasksTyped, FlagsTyped
<1>12. DialledInv'
  BY <1>0 DEF DialledInv, KindInv, WatchInv, Attended, DirectTypeOK, TasksTyped, FlagsTyped,
     FrontTyped
<1>13. ShownInv'
  BY <1>0 DEF ShownInv, DirectTypeOK, TasksTyped, FlagsTyped
<1>14. PairInv'
  BY <1>0 DEF PairInv, KindInv, WatchInv, Attended, DirectTypeOK, TasksTyped, FlagsTyped,
     PartiesTyped
<1>15. QED
  BY <1>1, <1>2, <1>3, <1>4, <1>5, <1>6, <1>7, <1>8, <1>9, <1>10, <1>11, <1>12, <1>13, <1>14
     DEF DirectInv, DirectTypeOK

\* The watcher of a placed call keeps the invariant.
LEMMA PlacedWatchingKeeps ==
  ASSUME DirectInv, NEW c \in Calls, PlacedWatching(c)
  PROVE  DirectInv'
<1> USE DirectConstants DEF Calls, PlacedWatching, PlacedFinal, Popped, SetStore, Shown, Active,
   At, RemoteEnds, PlacedWatchClosed, Closed, WatchEnds
<1>0. /\ DirectTypeOK /\ KindInv /\ FreshInv /\ KeepingInv /\ ClaimInv
      /\ WatchInv /\ FarInv /\ PairInv /\ PrepareInv /\ DialledInv /\ ShownInv
  BY DEF DirectInv
<1>1. TasksTyped'
  BY <1>0 DEF DirectTypeOK, TasksTyped
<1>2. FlagsTyped'
  BY <1>0 DEF DirectTypeOK, FlagsTyped
<1>3. PartiesTyped'
  BY <1>0 DEF DirectTypeOK, PartiesTyped
<1>4. FrontTyped'
  BY <1>0 DEF DirectTypeOK, FrontTyped
<1>5. KindInv'
  BY <1>0 DEF KindInv, DirectTypeOK, TasksTyped, FlagsTyped
<1>6. FreshInv'
  BY <1>0 DEF FreshInv, WatchInv, DirectTypeOK, FlagsTyped, PartiesTyped, FrontTyped
<1>7. KeepingInv'
  BY <1>0 DEF KeepingInv, DirectTypeOK, FlagsTyped, FrontTyped
<1>8. ClaimInv'
  BY <1>0 DEF ClaimInv, DirectTypeOK, FrontTyped
<1>9. WatchInv'
  BY <1>0 DEF WatchInv, Attended, DirectTypeOK, TasksTyped, FlagsTyped
<1>10. FarInv'
  BY <1>0 DEF FarInv, WatchInv, Attended, KindInv, DirectTypeOK, TasksTyped, FlagsTyped,
     PartiesTyped
<1>11. PrepareInv'
  BY <1>0 DEF PrepareInv, WatchInv, Attended, DialledInv, DirectTypeOK, FlagsTyped
<1>12. DialledInv'
  BY <1>0 DEF DialledInv, WatchInv, DirectTypeOK, TasksTyped, FlagsTyped, FrontTyped
<1>13. ShownInv'
  BY <1>0 DEF ShownInv, WatchInv, Attended, DirectTypeOK, TasksTyped, FlagsTyped
<1>14. PairInv'
  BY <1>0 DEF PairInv, KindInv, WatchInv, Attended, DirectTypeOK, TasksTyped, FlagsTyped,
     PartiesTyped
<1>15. QED
  BY <1>1, <1>2, <1>3, <1>4, <1>5, <1>6, <1>7, <1>8, <1>9, <1>10, <1>11, <1>12, <1>13, <1>14
     DEF DirectInv, DirectTypeOK

\* The end by the caller leaves the flags of the calls of their type.
LEMMA CallerEndsTyped ==
  ASSUME FlagsTyped, NEW c \in Calls, CallerEnds(c)
  PROVE  FlagsTyped'
<1> USE DEF FlagsTyped
<1>1. /\ tomb' = [tomb EXCEPT ![c] = TRUE] /\ giveUp' = giveUp
      /\ closed' = closed \/ closed' = [closed EXCEPT ![c] = TRUE]
  BY DEF CallerEnds
<1>2. \/ UNCHANGED <<bridge, client, watched, cancelled>>
      \/ /\ bridge' = [bridge EXCEPT ![c] = FALSE] /\ client' = [client EXCEPT ![c] = FALSE]
         /\ Unwatched(c)
  BY DEF CallerEnds
<1>3. client' \in [Calls -> BOOLEAN] /\ bridge' \in [Calls -> BOOLEAN]
  BY <1>2, FlagKept
<1>4. cancelled' \in [Calls -> BOOLEAN] /\ watched' \in [Calls -> BOOLEAN]
  BY <1>2, FlagKept DEF Unwatched
<1>5. tomb' \in [Calls -> BOOLEAN] /\ closed' \in [Calls -> BOOLEAN]
      /\ giveUp' \in [Calls -> BOOLEAN]
  BY <1>1, FlagKept
<1>6. QED
  BY <1>3, <1>4, <1>5

\* The end by the caller keeps the invariant.
LEMMA LeavingKeeps ==
  ASSUME DirectInv, NEW c \in Calls, Leaving(c)
  PROVE  DirectInv'
<1> USE DirectConstants DEF Calls, Leaving, CallerEnds, Unwatched, CallerGone, Popped, Closed,
   Joined, Interrupted, Stranded, WatchEnds
<1>0. /\ DirectTypeOK /\ KindInv /\ FreshInv /\ KeepingInv /\ ClaimInv
      /\ WatchInv /\ FarInv /\ PairInv /\ PrepareInv /\ DialledInv /\ ShownInv
  BY DEF DirectInv
<1>1. TasksTyped'
  BY <1>0 DEF DirectTypeOK, TasksTyped
<1>2. FlagsTyped'
  <2>1. CASE Interrupted(c)
    BY <1>0, <2>1 DEF DirectTypeOK, FlagsTyped
  <2>2. CASE CallerGone(c)
    BY <1>0, <2>2 DEF DirectTypeOK, FlagsTyped
  <2>3. CASE CallerEnds(c)
    BY <1>0, <2>3, CallerEndsTyped DEF DirectTypeOK
  <2>4. QED
    BY <2>1, <2>2, <2>3
<1>3. PartiesTyped'
  BY <1>0 DEF DirectTypeOK, PartiesTyped
<1>4. FrontTyped'
  BY <1>0 DEF DirectTypeOK, FrontTyped
<1>5. KindInv'
  BY <1>0 DEF KindInv, WatchInv, DirectTypeOK, TasksTyped, FlagsTyped, PartiesTyped,
     FrontTyped
<1>6. FreshInv'
  BY <1>0 DEF FreshInv, KindInv, DirectTypeOK, FlagsTyped, PartiesTyped, FrontTyped
<1>7. KeepingInv'
  BY <1>0 DEF KeepingInv, DialledInv, DirectTypeOK, FlagsTyped, PartiesTyped, FrontTyped
<1>8. ClaimInv'
  BY <1>0 DEF ClaimInv, DirectTypeOK, FrontTyped
<1>9. WatchInv'
  BY <1>0 DEF WatchInv, Attended, KindInv, DirectTypeOK, TasksTyped, FlagsTyped,
     PartiesTyped, FrontTyped
<1>10. FarInv'
  BY <1>0 DEF FarInv, WatchInv, KindInv, DirectTypeOK, TasksTyped, FlagsTyped, PartiesTyped,
     FrontTyped
<1>11. PrepareInv'
  BY <1>0 DEF PrepareInv, DirectTypeOK, FlagsTyped
<1>12. DialledInv'
  BY <1>0 DEF DialledInv, KindInv, DirectTypeOK, TasksTyped, FlagsTyped, FrontTyped
<1>13. ShownInv'
  BY <1>0 DEF ShownInv, KindInv, DirectTypeOK, TasksTyped, FlagsTyped
<1>14. PairInv'
  <2>1. CASE CallerEnds(c)
    BY <1>0, <2>1 DEF PairInv, KindInv, WatchInv, Attended, DirectTypeOK, TasksTyped,
       FlagsTyped, PartiesTyped
  <2>2. CASE CallerGone(c)
    BY <1>0, <2>2 DEF PairInv, KindInv, WatchInv, Attended, DirectTypeOK, TasksTyped,
       FlagsTyped, PartiesTyped
  <2>3. CASE Interrupted(c)
    BY <1>0, <2>3 DEF PairInv, KindInv, WatchInv, Attended, DirectTypeOK, TasksTyped,
       FlagsTyped, PartiesTyped
  <2>4. QED
    BY <2>1, <2>2, <2>3
<1>15. QED
  BY <1>1, <1>2, <1>3, <1>4, <1>5, <1>6, <1>7, <1>8, <1>9, <1>10, <1>11, <1>12, <1>13, <1>14
     DEF DirectInv, DirectTypeOK

\* The hangup service leaves the flags of the calls of their type.
LEMMA HangupTyped ==
  ASSUME FlagsTyped, NEW c \in Calls, Hangup(c)
  PROVE  FlagsTyped'
<1> USE DEF FlagsTyped
<1>1. /\ client' = [client EXCEPT ![c] = FALSE] /\ Unwatched(c) /\ closed' = closed
      /\ giveUp' = giveUp \/ giveUp' = [giveUp EXCEPT ![c] = TRUE]
      /\ UNCHANGED <<tomb, bridge>> \/ Popped(c)
  BY DEF Hangup
<1>2. cancelled' \in [Calls -> BOOLEAN] /\ watched' \in [Calls -> BOOLEAN]
  BY <1>1, FlagKept DEF Unwatched
<1>3. tomb' \in [Calls -> BOOLEAN] /\ bridge' \in [Calls -> BOOLEAN]
  BY <1>1, FlagKept DEF Popped
<1>4. client' \in [Calls -> BOOLEAN] /\ closed' \in [Calls -> BOOLEAN]
      /\ giveUp' \in [Calls -> BOOLEAN]
  BY <1>1, FlagKept
<1>5. QED
  BY <1>2, <1>3, <1>4

\* The hangup service keeps the invariant.
LEMMA HangingUpKeeps ==
  ASSUME DirectInv, NEW c \in Calls, HangingUp(c)
  PROVE  DirectInv'
<1> USE DirectConstants DEF Calls, HangingUp, Hangup, Popped, SetStore, Shown, Active,
   Unwatched, HungUp, Closed, Joined, GivenUp
<1>0. /\ DirectTypeOK /\ KindInv /\ FreshInv /\ KeepingInv /\ ClaimInv
      /\ WatchInv /\ FarInv /\ PairInv /\ PrepareInv /\ DialledInv /\ ShownInv
  BY DEF DirectInv
<1>1. TasksTyped'
  BY <1>0 DEF DirectTypeOK, TasksTyped
<1>2. FlagsTyped'
  <2>1. CASE Hangup(c)
    BY <1>0, <2>1, HangupTyped DEF DirectTypeOK
  <2>2. CASE HungUp(c) \/ GivenUp(c)
    BY <1>0, <2>2 DEF DirectTypeOK, FlagsTyped
  <2>3. QED
    BY <2>1, <2>2
<1>3. PartiesTyped'
  BY <1>0 DEF DirectTypeOK, PartiesTyped
<1>4. FrontTyped'
  BY <1>0 DEF DirectTypeOK, FrontTyped
<1>5. KindInv'
  BY <1>0 DEF KindInv, DirectTypeOK, FlagsTyped, FrontTyped
<1>6. FreshInv'
  BY <1>0 DEF FreshInv, WatchInv, ShownInv, DirectTypeOK, FlagsTyped, PartiesTyped,
     FrontTyped
<1>7. KeepingInv'
  BY <1>0 DEF KeepingInv, DirectTypeOK, FlagsTyped, FrontTyped
<1>8. ClaimInv'
  BY <1>0 DEF ClaimInv, DirectTypeOK, FrontTyped
<1>9. WatchInv'
  BY <1>0 DEF WatchInv, Attended, KindInv, DirectTypeOK, FlagsTyped
<1>10. FarInv'
  BY <1>0 DEF FarInv, Attended, DialledInv, DirectTypeOK, FlagsTyped, PartiesTyped,
     FrontTyped
<1>11. PrepareInv'
  BY <1>0 DEF PrepareInv, KindInv, DirectTypeOK, FlagsTyped
<1>12. DialledInv'
  BY <1>0 DEF DialledInv, KindInv, FreshInv, WatchInv, PrepareInv, DirectTypeOK, FlagsTyped,
     PartiesTyped, FrontTyped
<1>13. ShownInv'
  BY <1>0 DEF ShownInv, DirectTypeOK, FrontTyped
<1>14. PairInv'
  BY <1>0 DEF PairInv, KindInv, WatchInv, Attended, DirectTypeOK, TasksTyped, FlagsTyped,
     PartiesTyped
<1>15. QED
  BY <1>1, <1>2, <1>3, <1>4, <1>5, <1>6, <1>7, <1>8, <1>9, <1>10, <1>11, <1>12, <1>13, <1>14
     DEF DirectInv, DirectTypeOK

\* The cleanup barrier keeps the invariant.
LEMMA BarrierKeeps ==
  ASSUME DirectInv, NEW c \in Calls, Barrier(c)
  PROVE  DirectInv'
<1> USE DirectConstants DEF Calls, Barrier, BarrierStarts, BarrierEnds
<1>0. /\ DirectTypeOK /\ KindInv /\ FreshInv /\ KeepingInv /\ ClaimInv
      /\ WatchInv /\ FarInv /\ PairInv /\ PrepareInv /\ DialledInv /\ ShownInv
  BY DEF DirectInv
<1>1. TasksTyped'
  BY <1>0 DEF DirectTypeOK, TasksTyped
<1>2. FlagsTyped'
  BY <1>0 DEF DirectTypeOK, FlagsTyped
<1>3. PartiesTyped'
  BY <1>0 DEF DirectTypeOK, PartiesTyped
<1>4. FrontTyped'
  BY <1>0 DEF DirectTypeOK, FrontTyped
<1>5. KindInv'
  BY <1>0 DEF KindInv, WatchInv, DirectTypeOK, FlagsTyped, PartiesTyped
<1>6. FreshInv'
  BY <1>0 DEF FreshInv, DirectTypeOK, FlagsTyped, PartiesTyped, FrontTyped
<1>7. KeepingInv'
  BY <1>0 DEF KeepingInv, FreshInv, WatchInv, DirectTypeOK, FlagsTyped, PartiesTyped,
     FrontTyped
<1>8. ClaimInv'
  BY <1>0 DEF ClaimInv, DirectTypeOK, FrontTyped
<1>9. WatchInv'
  BY <1>0 DEF WatchInv, Attended, KeepingInv, DirectTypeOK, FlagsTyped, PartiesTyped
<1>10. FarInv'
  BY <1>0 DEF FarInv, WatchInv, DirectTypeOK, FlagsTyped, PartiesTyped
<1>11. PrepareInv'
  BY <1>0 DEF PrepareInv, DirectTypeOK, FlagsTyped
<1>12. DialledInv'
  BY <1>0 DEF DialledInv, DirectTypeOK, FlagsTyped, FrontTyped
<1>13. ShownInv'
  BY <1>0 DEF ShownInv, DialledInv, DirectTypeOK, FlagsTyped
<1>14. PairInv'
  <2>1. CASE BarrierStarts(c)
    BY <1>0, <2>1 DEF PairInv, KindInv, WatchInv, Attended, DirectTypeOK, TasksTyped,
       FlagsTyped, PartiesTyped
  <2>2. CASE BarrierEnds(c)
    BY <1>0, <2>2 DEF PairInv, KindInv, WatchInv, Attended, DirectTypeOK, TasksTyped,
       FlagsTyped, PartiesTyped
  <2>3. QED
    BY <2>1, <2>2
<1>15. QED
  BY <1>1, <1>2, <1>3, <1>4, <1>5, <1>6, <1>7, <1>8, <1>9, <1>10, <1>11, <1>12, <1>13, <1>14
     DEF DirectInv, DirectTypeOK

\* The far end keeps the invariant.
LEMMA AnsweringKeeps ==
  ASSUME DirectInv, NEW c \in Calls, Answering(c)
  PROVE  DirectInv'
<1> USE DirectConstants DEF Calls, Answering, FarEnd, TimesOut
<1>0. /\ DirectTypeOK /\ KindInv /\ FreshInv /\ KeepingInv /\ ClaimInv
      /\ WatchInv /\ FarInv /\ PairInv /\ PrepareInv /\ DialledInv /\ ShownInv
  BY DEF DirectInv
<1>1. TasksTyped'
  BY <1>0 DEF DirectTypeOK, TasksTyped
<1>2. FlagsTyped'
  BY <1>0 DEF DirectTypeOK, FlagsTyped
<1>3. PartiesTyped'
  BY <1>0 DEF DirectTypeOK, PartiesTyped
<1>4. FrontTyped'
  BY <1>0 DEF DirectTypeOK, FrontTyped
<1>5. KindInv'
  BY <1>0 DEF KindInv
<1>6. FreshInv'
  BY <1>0 DEF FreshInv, DirectTypeOK, PartiesTyped
<1>7. KeepingInv'
  BY <1>0 DEF KeepingInv
<1>8. ClaimInv'
  BY <1>0 DEF ClaimInv
<1>9. WatchInv'
  BY <1>0 DEF WatchInv, Attended
<1>10. FarInv'
  BY <1>0 DEF FarInv, DirectTypeOK, PartiesTyped
<1>11. PrepareInv'
  BY <1>0 DEF PrepareInv
<1>12. DialledInv'
  BY <1>0 DEF DialledInv
<1>13. ShownInv'
  BY <1>0 DEF ShownInv
<1>14. PairInv'
  BY <1>0 DEF PairInv
<1>15. QED
  BY <1>1, <1>2, <1>3, <1>4, <1>5, <1>6, <1>7, <1>8, <1>9, <1>10, <1>11, <1>12, <1>13, <1>14
     DEF DirectInv, DirectTypeOK

-----------------------------------------------------------------------------
(* The calls between two parties: the theorems *)

\* The invariant holds in every behaviour.
THEOREM DirectInvariant == DirectSpec => []DirectInv
<1> USE DirectConstants DEF DirectInv, Calls
<1>1. DirectInit => DirectInv
  <2> SUFFICES ASSUME DirectInit PROVE DirectInv
    OBVIOUS
  <2>1. DirectTypeOK
    BY DEF DirectInit, All, DirectTypeOK, TasksTyped, FlagsTyped, PartiesTyped, FrontTyped
  <2>2. KindInv /\ FreshInv /\ KeepingInv
    BY DEF DirectInit, All, KindInv, FreshInv, KeepingInv
  <2>3. ClaimInv
    BY DEF DirectInit, ClaimInv
  <2>4. WatchInv /\ FarInv /\ PairInv
    BY DEF DirectInit, All, WatchInv, FarInv, PairInv, Attended
  <2>5. PrepareInv /\ DialledInv /\ ShownInv
    BY DEF DirectInit, All, PrepareInv, DialledInv, ShownInv
  <2>6. QED
    BY <2>1, <2>2, <2>3, <2>4, <2>5
<1>2. DirectInv /\ [DirectNext]_vars => DirectInv'
  <2> SUFFICES ASSUME DirectInv, [DirectNext]_vars PROVE DirectInv'
    OBVIOUS
  <2>1. CASE UNCHANGED vars
    BY <2>1 DEF DirectTypeOK, TasksTyped, FlagsTyped, PartiesTyped, FrontTyped, KindInv,
       FreshInv, KeepingInv, ClaimInv, WatchInv, FarInv, PairInv, Attended, PrepareInv, DialledInv,
       ShownInv
  <2>2. CASE DirectNext
    BY <2>2, StepIsOfAKind, BridgingKeeps, BridgeWatchingKeeps, RoutingKeeps, RelayingKeeps,
       DialingKeeps, TakingKeeps, StartingKeeps, PlacingKeeps, PlacedWatchingKeeps, LeavingKeeps,
       HangingUpKeeps, BarrierKeeps, AnsweringKeeps
  <2>3. QED
    BY <2>1, <2>2
<1>3. QED
  BY <1>1, <1>2, PTL DEF DirectSpec

\* A call that is through with has left nothing behind, whoever ended it and however
\* many calls, phones and endpoints there are, but for the three losses that NothingLeft
\* names: the far end and relay of a refused routed bridge, the ports of a bridge whose
\* watcher is cancelled while the far end rings, and the relay that starts in that tick.
THEOREM NothingIsLeft == DirectSpec => []NothingLeft
<1>1. DirectInv => NothingLeft
  <2> SUFFICES ASSUME DirectInv, NEW c \in Calls, Quiet(c), pc[c] = "done"
               PROVE  /\ far[c] # "none" => c \in Routed /\ relay[c] = "orphan"
                      /\ ~client[c] /\ ~bridge[c]
                      /\ \A e \in Endpoints : claim[e] # c
                      /\ \/ relay[c] = "none" /\ (pair[c] = "free" \/ (c \in Bridged /\ pair[c] = "stranded"))
                         \/ c \in Routed /\ relay[c] = "orphan" /\ pair[c] = "free"
                         \/ c \in Bridged /\ relay[c] = "late" /\ pair[c] = "stranded"
                      /\ ~(store.call = c /\ store.state # "idle")
    BY DEF NothingLeft
  <2> USE DEF DirectInv, Quiet
  <2>1. ~client[c] /\ ~bridge[c] /\ \A e \in Endpoints : claim[e] # c
    BY DEF KeepingInv, ClaimInv
  <2>2. far[c] # "none" => c \in Routed /\ relay[c] = "orphan"
    BY <2>1 DEF FarInv
  <2>3. relay[c] \in {"none", "orphan", "late"}
    BY DEF KeepingInv, WatchInv, DirectTypeOK, PartiesTyped
  <2>4. pair[c] \in {"free", "stranded"}
    BY <2>3 DEF PairInv, DirectTypeOK, PartiesTyped
  <2>5. \/ relay[c] = "none" /\ (pair[c] = "free" \/ (c \in Bridged /\ pair[c] = "stranded"))
        \/ c \in Routed /\ relay[c] = "orphan" /\ pair[c] = "free"
        \/ c \in Bridged /\ relay[c] = "late" /\ pair[c] = "stranded"
    BY <2>3, <2>4 DEF PairInv
  <2>6. ~(store.call = c /\ store.state # "idle")
    BY <2>1 DEF ShownInv
  <2>7. QED
    BY <2>1, <2>2, <2>5, <2>6
<1>2. QED
  BY <1>1, DirectInvariant, PTL

\* A phone whose dialog rings or is up, and that nobody is ending, shows this call and
\* no other, though other calls' events reach the same phone.
THEOREM PhoneIsRight == DirectSpec => []PhoneShowsItsCall
<1>1. DirectInv => PhoneShowsItsCall
  BY DEF DirectInv, PhoneShowsItsCall, WatchInv, DialledInv, Attended, Calls
<1>2. QED
  BY <1>1, DirectInvariant, PTL

=============================================================================
