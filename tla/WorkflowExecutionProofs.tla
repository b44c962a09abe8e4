----------------------- MODULE WorkflowExecutionProofs -----------------------
(***************************************************************************)
(* Theorems about WorkflowExecution, for every graph, every error-route    *)
(* table, every set of concurrent calls and every set of faults.           *)
(***************************************************************************)
EXTENDS WorkflowExecution, FiniteSetTheorems, TLAPS

-----------------------------------------------------------------------------
(* The status table.                                                        *)

\* No row of the transition table starts in a terminal status.
LEMMA TerminalAbsorbs ==
    ASSUME NEW s \in Terminal, NEW t \in Status
    PROVE  ~TransitionAllowed(s, t) /\ AfterTransition(s, t) = s
  BY DEF Terminal, Status, TransitionAllowed, AfterTransition

\* The step on a status keeps it a status.
LEMMA AfterTransitionType ==
    ASSUME NEW s \in Status, NEW t \in Status
    PROVE  AfterTransition(s, t) \in Status
  BY DEF AfterTransition

\* A transition either happens or leaves the status alone.
LEMMA AfterTransitionStep ==
    ASSUME NEW s \in Status, NEW t \in Status
    PROVE  /\ AfterTransition(s, t) \in {s, t}
           /\ s \in Terminal => AfterTransition(s, t) = s
  BY TerminalAbsorbs DEF AfterTransition

\* The names of the actors are distinct from each other.
LEMMA DriverFacts ==
    /\ Executor \in Drivers
    /\ Resumers \subseteq Drivers
    /\ Drivers \subseteq Actors
    /\ Pausers \subseteq Actors
    /\ Cancellers \subseteq Actors
    /\ \A p \in Pausers \cup Cancellers : p \notin Drivers
  BY ActorAssumption DEF Drivers, Actors

\* Recording whether a run succeeded keeps a driver's state well formed.
LEMMA SetOk ==
    ASSUME drv \in [Drivers -> DriverState], NEW d \in Drivers, NEW b \in BOOLEAN
    PROVE  [drv EXCEPT ![d].ok = b] \in [Drivers -> DriverState]
  BY DEF DriverState

\* So does copying what the entity has completed.
LEMMA SetSeen ==
    ASSUME drv \in [Drivers -> DriverState], NEW d \in Drivers,
           NEW seen \in SUBSET Nodes, NEW n \in Nat
    PROVE  [drv EXCEPT ![d].done = seen, ![d].steps = n] \in [Drivers -> DriverState]
  BY DEF DriverState

\* So does a run that ends with an error.
LEMMA SetFailed ==
    ASSUME drv \in [Drivers -> DriverState], NEW d \in Drivers
    PROVE  [drv EXCEPT ![d].ok = FALSE] \in [Drivers -> DriverState]
  <1>1. FALSE \in BOOLEAN
    OBVIOUS
  <1> QED
    BY <1>1, SetOk, Zenon

\* So does the loss of its future.
LEMMA SetDropped ==
    ASSUME drv \in [Drivers -> DriverState], NEW d \in Drivers
    PROVE  Dropped(d) \in [Drivers -> DriverState]
  <1>1. PICK b \in BOOLEAN : b = (pc[d] = "parkCursor")
    OBVIOUS
  <1>2. Dropped(d) = [drv EXCEPT ![d].ok = FALSE, ![d].torn = b]
    BY <1>1, Zenon DEF Dropped
  <1> QED
    BY <1>2 DEF DriverState

-----------------------------------------------------------------------------
(* Type correctness.                                                        *)

\* A freshly spawned execution is well typed.
LEMMA TypeInit == Init => TypeOK
  <1> SUFFICES ASSUME Init PROVE TypeOK
    OBVIOUS
  <1>1. FreshDriver \in DriverState
    BY GraphAssumption DEF FreshDriver, DriverState, Category, Status
  <1>2. drv \in [Drivers -> DriverState]
    BY <1>1 DEF Init
  <1>3. pc \in [Actors -> DriverPc \cup ControlPc]
    BY DEF Init, DriverPc, ControlPc
  <1> QED
    BY <1>2, <1>3, DriverFacts DEF Init, TypeOK, AtNode, Status, Signal

\* run_workflow up to the coordinator keeps the types.
LEMMA TypeLaunch ==
    ASSUME TypeOK, NEW d \in Drivers, Launch(d)
    PROVE  TypeOK'
  <1> USE DriverFacts, AfterTransitionType
          DEF TypeOK, AtNode, Goto, progress, history, Transition, EndPause
  <1>1. CASE RunBeforeMiddleware(d)
    BY <1>1 DEF RunBeforeMiddleware, DriverPc
  <1>2. CASE RejectByMiddleware(d)
    BY <1>2 DEF RejectByMiddleware, DriverPc
  <1>3. CASE BeginRun(d)
    <2>1. PICK seen \in SUBSET Nodes, n \in Nat :
            drv' = [drv EXCEPT ![d].done = seen, ![d].steps = n]
      <3>1. PICK seen \in SeenCompleted :
              drv' = [drv EXCEPT ![d].done = seen, ![d].steps = SeenSteps(seen)]
        BY <1>3, Zenon DEF BeginRun
      <3>2. seen \in SUBSET Nodes /\ SeenSteps(seen) \in Nat
        BY DEF SeenCompleted, SeenSteps
      <3> QED
        BY <3>1, <3>2, Zenon
    <2>2. drv' \in [Drivers -> DriverState]
      BY <2>1, SetSeen
    <2>3. \A e \in Drivers : drv'[e].at = drv[e].at
      BY <2>1 DEF DriverState
    <2> QED
      BY <1>3, <2>2, <2>3 DEF BeginRun, DriverPc, Status
  <1>4. CASE BuildRecord(d, "draftStart", "saveStart")
    BY <1>4 DEF BuildRecord, DriverPc, DriverState
  <1>5. CASE SaveRecord(d, "saveStart", "start")
    BY <1>5 DEF SaveRecord, DriverPc, DriverState
  <1>6. CASE FailSetup(d)
    BY <1>6 DEF FailSetup, DriverPc
  <1> QED
    BY <1>1, <1>2, <1>3, <1>4, <1>5, <1>6 DEF Launch, PersistStart

\* resume() up to the coordinator keeps the types: the node it seeds exists.
LEMMA TypeResume ==
    ASSUME TypeOK, NEW r \in Resumers, Resume(r)
    PROVE  TypeOK'
  <1> USE DriverFacts, AfterTransitionType
          DEF TypeOK, AtNode, Goto, progress, history, Transition, EndPause
  <1>1. CASE CheckResumable(r)
    <2>1. PICK b \in BOOLEAN : drv' = [drv EXCEPT ![r].ok = b]
      <3>1. (status = "Completed" /\ output) \in BOOLEAN
        OBVIOUS
      <3> QED
        BY <1>1, <3>1, Zenon DEF CheckResumable
    <2>2. drv' \in [Drivers -> DriverState]
      BY <2>1 DEF DriverState
    <2>3. pc' \in [Actors -> DriverPc \cup ControlPc]
      BY <1>1 DEF CheckResumable, DriverPc
    <2> QED
      BY <1>1, <2>2, <2>3 DEF CheckResumable
  <1>2. CASE SeedCoordinator(r)
    <2>1. PICK seen \in SUBSET Nodes :
            LET done  == seen \cup results
                steps == SeenSteps(seen) + Cardinality(results \ seen)
                at    == IF cursor # NoNode /\ cursor \notin done
                         THEN cursor ELSE Start
            IN  /\ Goto(r, "seed", "resume")
                /\ drv' = [drv EXCEPT ![r].at = at, ![r].done = done,
                                      ![r].steps = steps]
                /\ UNCHANGED <<status, signal, progress, output, record, history>>
      BY <1>2 DEF SeedCoordinator, SeenCompleted
    <2>2. Cardinality(results \ seen) \in Nat
      <3>1. IsFiniteSet(Nodes) /\ results \ seen \subseteq Nodes
        BY GraphAssumption
      <3>2. IsFiniteSet(results \ seen)
        BY <3>1, FS_Subset, Zenon
      <3> QED
        BY <3>2, FS_CardinalityType, Zenon
    <2>3. Start \in Nodes
      BY GraphAssumption
    <2>4. SeenSteps(seen) + Cardinality(results \ seen) \in Nat
      BY <2>2 DEF SeenSteps
    <2>5. PICK at \in Nodes \cup {NoNode}, done \in SUBSET Nodes, n \in Nat :
            drv' = [drv EXCEPT ![r].at = at, ![r].done = done, ![r].steps = n]
      BY <2>1, <2>3, <2>4
    <2>6. drv' \in [Drivers -> DriverState]
      <3>1. drv[r] \in DriverState
        BY DEF TypeOK, Drivers
      <3>2. [drv[r] EXCEPT !.at = at, !.done = done, !.steps = n] \in DriverState
        BY <3>1 DEF DriverState
      <3>3. drv' = [drv EXCEPT ![r] = [drv[r] EXCEPT !.at = at, !.done = done,
                                                     !.steps = n]]
        BY <2>5
      <3> QED BY <3>2, <3>3 DEF TypeOK
    <2> QED
      BY <2>1, <2>6 DEF DriverPc
  <1>3. CASE ResumeState(r)
    BY <1>3 DEF ResumeState, DriverPc, Status
  <1>4. CASE ResumeSignal(r)
    BY <1>4 DEF ResumeSignal, DriverPc, Signal
  <1> QED
    BY <1>1, <1>2, <1>3, <1>4 DEF Resume

\* The coordinator loop keeps the types: past its head it has a node.
LEMMA TypeLoop ==
    ASSUME TypeOK, NEW d \in Drivers, Loop(d)
    PROVE  TypeOK'
  <1> USE DriverFacts, AfterTransitionType
          DEF TypeOK, AtNode, Goto, Fail, progress, history, Transition, EndPause
  <1>1. CASE StartRun(d)
    BY <1>1 DEF StartRun, DriverPc, Status
  <1>2. CASE LoopHead(d)
    <2>1. CASE UNCHANGED drv
      BY <1>2, <2>1 DEF LoopHead, Interrupted, OverBudget, DriverPc, DriverState
    <2>2. CASE Fail(d, "loop")
      <3>1. drv' \in [Drivers -> DriverState]
        BY <2>2, SetFailed, Zenon
      <3> QED
        BY <1>2, <2>2, <3>1 DEF LoopHead, DriverPc
    <2> QED
      BY <1>2, <2>1, <2>2 DEF LoopHead, Interrupted, OverBudget
  <1>3. CASE ExpireBudget(d)
    <2>1. drv' \in [Drivers -> DriverState]
      BY <1>3, SetFailed, Zenon DEF ExpireBudget
    <2> QED
      BY <1>3, <2>1 DEF ExpireBudget, DriverPc, Status
  <1>4. CASE BreakAtMaxSteps(d)
    BY <1>4 DEF BreakAtMaxSteps, DriverPc
  <1>5. CASE TripBackstop(d)
    <2>1. drv' \in [Drivers -> DriverState]
      BY <1>5, SetFailed, Zenon DEF TripBackstop
    <2> QED
      BY <1>5, <2>1 DEF TripBackstop, DriverPc
  <1>6. CASE SkipCompleted(d)
    <2>1. PICK n \in Succ[drv[d].at] :
             drv' = [drv EXCEPT ![d].at = n, ![d].visits = @ + 1]
      BY <1>6 DEF SkipCompleted
    <2>2. n \in Nodes \cup {NoNode}
      BY <1>6, <2>1, GraphAssumption DEF SkipCompleted, DriverState
    <2>3. drv' \in [Drivers -> DriverState]
      BY <2>1, <2>2 DEF DriverState
    <2> QED
      BY <1>6, <2>3 DEF SkipCompleted, DriverPc
  <1>7. CASE EnterNode(d)
    BY <1>7 DEF EnterNode, DriverPc, DriverState
  <1>8. CASE CompleteRun(d)
    <2>1. PICK won \in BOOLEAN : drv' = [drv EXCEPT ![d].ok = won]
      <3>1. TransitionAllowed(status, "Completed") \in BOOLEAN
        BY DEF TransitionAllowed
      <3> QED
        BY <1>8, <3>1, Zenon DEF CompleteRun
    <2>2. drv' \in [Drivers -> DriverState]
      BY <2>1 DEF DriverState
    <2>3. winners' \in SUBSET Drivers
      BY <1>8 DEF CompleteRun
    <2>4. pc' \in [Actors -> DriverPc \cup ControlPc] /\ status' \in Status
      BY <1>8 DEF CompleteRun, DriverPc, Status
    <2> QED
      BY <1>8, <2>2, <2>3, <2>4 DEF CompleteRun
  <1> QED
    BY <1>1, <1>2, <1>3, <1>4, <1>5, <1>6, <1>7, <1>8 DEF Loop

\* Executing a node keeps the types, and the node in hand.
LEMMA TypeNode ==
    ASSUME TypeOK, NEW d \in Drivers, RunNode(d) \/ HandlerReturns(d)
    PROVE  TypeOK'
  <1> USE DriverFacts DEF TypeOK, AtNode, Goto, FailNode, progress, history
  <1>1. CASE VetoNode(d)
    BY <1>1 DEF VetoNode, DriverPc, DriverState, Category
  <1>2. CASE StartHandler(d)
    BY <1>2 DEF StartHandler, DriverPc, DriverState, Category
  <1>3. CASE HandlerStopped(d)
    BY <1>3 DEF HandlerStopped, DriverPc, DriverState, Category
  <1>4. CASE NodeTimesOut(d)
    BY <1>4 DEF NodeTimesOut, DriverPc, DriverState, Category
  <1>5. CASE MarkNode(d)
    BY <1>5 DEF MarkNode, DriverPc
  <1>11. CASE KeepResult(d)
    <2>1. drv[d].at \in Nodes
      BY <1>11 DEF KeepResult
    <2>2. drv' \in [Drivers -> DriverState]
      BY <1>11, <2>1 DEF KeepResult, DriverState
    <2>3. drv'[d].at = drv[d].at
      BY <1>11 DEF KeepResult, DriverState
    <2> QED
      BY <1>11, <2>1, <2>2, <2>3 DEF KeepResult, DriverPc
  <1>6. CASE RecordSuccess(d)
    <2>1. PICK next \in Succ[drv[d].at] : drv' = [drv EXCEPT ![d].at = next]
      BY <1>6 DEF RecordSuccess
    <2>2. drv[d].at \in Nodes /\ next \in Nodes \cup {NoNode}
      BY <1>6, <2>1, GraphAssumption DEF RecordSuccess, DriverState
    <2>3. drv' \in [Drivers -> DriverState]
      BY <2>1, <2>2 DEF DriverState
    <2> QED
      BY <1>6, <2>2, <2>3 DEF RecordSuccess, DriverPc
  <1>7. CASE HandlerSucceeds(d)
    BY <1>7 DEF HandlerSucceeds, DriverPc, DriverState, Category
  <1>8. CASE HandlerFails(d)
    BY <1>8, GraphAssumption DEF HandlerFails, DriverPc, DriverState
  <1>9. CASE HandlerParks(d)
    BY <1>9 DEF HandlerParks, DriverPc, DriverState, Category, Signal
  <1>10. CASE AbandonNode(d)
    <2>1. drv' \in [Drivers -> DriverState]
      BY <1>10, SetFailed, Zenon DEF AbandonNode, Fail
    <2> QED
      BY <1>10, <2>1 DEF AbandonNode, Fail, DriverPc
  <1> QED
    BY <1>1, <1>2, <1>3, <1>4, <1>5, <1>6, <1>7, <1>8, <1>9, <1>10, <1>11
       DEF RunNode, HandlerReturns

\* Routing a failure keeps the types: only targets in the graph are taken.
LEMMA TypeRoute ==
    ASSUME TypeOK, NEW d \in Drivers, RouteFailure(d)
    PROVE  TypeOK'
  <1> USE DriverFacts DEF TypeOK, AtNode, Goto, Fail, progress, history
  <1>1. CASE RouteNowhere(d)
    BY <1>1 DEF RouteNowhere, DriverPc
  <1>2. CASE RouteToSuspend(d)
    BY <1>2 DEF RouteToSuspend, DriverPc, DriverState
  <1>11. CASE ParkCursor(d)
    BY <1>11 DEF ParkCursor, DriverPc, DriverState
  <1>3. CASE RouteToBranch(d)
    BY <1>3 DEF RouteToBranch, DriverPc, DriverState
  <1>4. CASE RouteDangling(d)
    <2>1. drv' \in [Drivers -> DriverState]
      BY <1>4, SetFailed, Zenon DEF RouteDangling
    <2> QED
      BY <1>4, <2>1 DEF RouteDangling, DriverPc
  <1>5. CASE ParkSignal(d)
    BY <1>5 DEF ParkSignal, DriverPc, Signal
  <1>6. CASE ParkCheck(d)
    <2>1. CASE UNCHANGED drv
      BY <1>6, <2>1 DEF ParkCheck, Interrupted, OverBudget, DriverPc
    <2>2. CASE Fail(d, "parkCheck")
      <3>1. drv' \in [Drivers -> DriverState]
        BY <2>2, SetFailed, Zenon
      <3> QED
        BY <1>6, <2>2, <3>1 DEF ParkCheck, Interrupted, OverBudget, DriverPc
    <2> QED
      BY <1>6, <2>1, <2>2 DEF ParkCheck, Interrupted, OverBudget
  <1>7. CASE ClearCheck(d)
    BY <1>7 DEF ClearCheck, DriverPc
  <1>8. CASE ClearPause(d)
    BY <1>8 DEF ClearPause, DriverPc, Signal
  <1>9. CASE Interrupt(d)
    <2>1. CASE UNCHANGED drv
      BY <1>9, <2>1 DEF Interrupt, DriverPc
    <2>2. CASE Fail(d, "interrupt")
      <3>1. drv' \in [Drivers -> DriverState]
        BY <2>2, SetFailed, Zenon
      <3> QED
        BY <1>9, <2>2, <3>1 DEF Interrupt, DriverPc
    <2> QED
      BY <1>9, <2>1, <2>2 DEF Interrupt
  <1>10. CASE Recheck(d)
    <2>1. CASE UNCHANGED drv
      BY <1>10, <2>1 DEF Recheck, OverBudget, DriverPc
    <2>2. CASE Fail(d, "recheck")
      <3>1. drv' \in [Drivers -> DriverState]
        BY <2>2, SetFailed, Zenon
      <3> QED
        BY <1>10, <2>2, <3>1 DEF Recheck, OverBudget, DriverPc
    <2> QED
      BY <1>10, <2>1, <2>2 DEF Recheck, OverBudget
  <1> QED
    BY <1>1, <1>2, <1>3, <1>4, <1>5, <1>6, <1>7, <1>8, <1>9, <1>10, <1>11
       DEF RouteFailure

\* persist_final and the tails of execute and resume keep the types.
LEMMA TypeFinalize ==
    ASSUME TypeOK, NEW d \in Drivers, Finalize(d)
    PROVE  TypeOK'
  <1> USE DriverFacts, AfterTransitionType
          DEF TypeOK, AtNode, Goto, progress, history, Transition
  <1>1. CASE ReadStatus(d)
    BY <1>1 DEF ReadStatus, DriverPc
  <1>2. CASE ReadSignal(d)
    BY <1>2 DEF ReadSignal, DriverPc, Signal
  <1>3. CASE Settle(d)
    BY <1>3 DEF Settle, DriverPc, Status
  <1>4. CASE BuildRecord(d, "draftFinal", "saveFinal")
    BY <1>4 DEF BuildRecord, DriverPc, DriverState
  <1>5. CASE SaveRecord(d, "saveFinal", "after")
    BY <1>5 DEF SaveRecord, DriverPc, DriverState
  <1>6. CASE ReturnOk(d)
    <2>1. output' \in BOOLEAN
      BY <1>6, Zenon DEF ReturnOk
    <2>2. pc' \in [Actors -> DriverPc \cup ControlPc]
      BY <1>6 DEF ReturnOk, DriverPc
    <2> QED
      BY <1>6, <2>1, <2>2 DEF ReturnOk
  <1>7. CASE ReturnErr(d)
    BY <1>7 DEF ReturnErr, DriverPc
  <1>8. CASE SpoilByMiddleware(d)
    <2>1. drv' \in [Drivers -> DriverState]
      BY <1>8, SetFailed, Zenon DEF SpoilByMiddleware
    <2> QED
      BY <1>8, <2>1 DEF SpoilByMiddleware, DriverPc
  <1>9. CASE MarkFailed(d)
    BY <1>9 DEF MarkFailed, DriverPc, Status
  <1>10. CASE FlipRecord(d)
    BY <1>10 DEF FlipRecord, DriverPc, Status
  <1> QED
    BY <1>1, <1>2, <1>3, <1>4, <1>5, <1>6, <1>7, <1>8, <1>9, <1>10
       DEF Finalize, PersistFinal

\* pause(), its timer and cancel() keep the types.
LEMMA TypeControl ==
    ASSUME TypeOK,
           NEW a \in Pausers \cup Cancellers,
           (a \in Pausers /\ Pauser(a)) \/ (a \in Cancellers /\ Canceller(a))
    PROVE  TypeOK'
  <1> USE DriverFacts, AfterTransitionType
          DEF TypeOK, AtNode, Goto, progress, history, Transition
  <1>1. CASE a \in Pausers /\ PauseState(a)
    BY <1>1 DEF PauseState, ControlPc, Status
  <1>2. CASE PauseSignal(a)
    BY <1>2 DEF PauseSignal, ControlPc, Signal
  <1>3. CASE TimerWakes(a)
    BY <1>3 DEF TimerWakes, ControlPc
  <1>4. CASE StopRead(a, "stopRead") \/ StopRead(a, "idle")
    BY <1>4 DEF StopRead, ControlPc
  <1>5. CASE StopState(a)
    BY <1>5 DEF StopState, ControlPc, Status
  <1>6. CASE StopSignal(a)
    BY <1>6 DEF StopSignal, ControlPc, Signal
  <1> QED
    BY <1>1, <1>2, <1>3, <1>4, <1>5, <1>6 DEF Pauser, Canceller

\* A driver dropped at an await point keeps the types.
LEMMA TypeDrop ==
    ASSUME TypeOK, NEW d \in Drivers, EntryTimeout(d) \/ Abort(d)
    PROVE  TypeOK'
  <1>1. drv' \in [Drivers -> DriverState]
    BY SetDropped, Zenon DEF TypeOK, EntryTimeout, Abort
  <1>2. \A e \in Drivers : drv'[e].at = drv[e].at
    BY DEF TypeOK, EntryTimeout, Abort, Dropped, DriverState
  <1> QED
    BY <1>1, <1>2, DriverFacts DEF TypeOK, AtNode, EntryTimeout, Abort, Goto, progress,
                             history, DriverPc

\* Every step keeps the types.
LEMMA TypeStep == TypeOK /\ [Next]_vars => TypeOK'
  <1> SUFFICES ASSUME TypeOK, [Next]_vars PROVE TypeOK'
    OBVIOUS
  <1>1. ASSUME NEW d \in Drivers, Engine(d) \/ HandlerReturns(d) PROVE TypeOK'
    BY <1>1, TypeLaunch, TypeLoop, TypeNode, TypeRoute, TypeFinalize DEF Engine
  <1>2. ASSUME NEW d \in Drivers, EntryTimeout(d) \/ Abort(d) PROVE TypeOK'
    BY <1>2, TypeDrop
  <1>3. ASSUME NEW r \in Resumers, Resume(r) PROVE TypeOK'
    BY <1>3, TypeResume
  <1>4. ASSUME NEW p \in Pausers, Pauser(p) PROVE TypeOK'
    BY <1>4, TypeControl
  <1>5. ASSUME NEW c \in Cancellers, Canceller(c) PROVE TypeOK'
    BY <1>5, TypeControl
  <1>6. CASE UNCHANGED vars
    BY <1>6 DEF TypeOK, vars, progress, history
  <1> QED
    BY <1>1, <1>2, <1>3, <1>4, <1>5, <1>6 DEF Next

\* Every reachable state of an execution, whatever its graph and whoever
\* calls it, is one the variables were declared for.
THEOREM TypeCorrect == Spec => []TypeOK
  <1>1. TypeOK /\ [Next]_vars => TypeOK'
    BY TypeStep
  <1> QED
    BY <1>1, TypeInit, PTL DEF Spec

-----------------------------------------------------------------------------
(* What any step may do to the verdict, the record and the drivers.         *)

Effect ==
    /\ status \in Terminal => status' = status
    /\ status' = status \/ record' = record
    /\ IF status' = "Completed" /\ status # "Completed"
       THEN \E d \in Drivers : winners' = winners \cup {d}
       ELSE winners' = winners
    /\ \A d \in Drivers : drv'[d].ok => drv[d].ok \/ status' = "Completed"
    /\ \A d \in Drivers :
          \/ /\ drv'[d].draft = drv[d].draft
             /\ pc'[d] \in Saving => pc[d] = pc'[d]
          \/ drv'[d].draft = status /\ status' = status /\ record' = record
    /\ \/ record' = record
       \/ record' = "Failed"
       \/ \E d \in Drivers : pc[d] \in Saving /\ record' = drv[d].draft
    /\ \A d \in Drivers :
          Live(d)' => \/ Live(d)
                      \/ SerialResume => \A e \in Drivers \ {d} : ~Live(e) /\ ~Live(e)'

\* run_workflow up to the coordinator has at most the effects above.
LEMMA EffectLaunch ==
    ASSUME TypeOK, NEW d \in Drivers, Launch(d)
    PROVE  Effect
  <1> USE DriverFacts
          DEF TypeOK, Effect, Live, Saving, Goto, Fail, FailNode, Transition,
              EndPause, progress, history, DriverState
  <1>1. CASE RunBeforeMiddleware(d)
    BY <1>1 DEF RunBeforeMiddleware
  <1>2. CASE RejectByMiddleware(d)
    BY <1>2 DEF RejectByMiddleware
  <1>3. CASE BeginRun(d)
    <2>1. status' \in {status, "Running"} /\ (status \in Terminal => status' = status)
      BY <1>3, AfterTransitionStep DEF BeginRun, Status
    <2> QED
      BY <1>3, <2>1 DEF BeginRun
  <1>4. CASE BuildRecord(d, "draftStart", "saveStart")
    BY <1>4 DEF BuildRecord
  <1>5. CASE SaveRecord(d, "saveStart", "start")
    BY <1>5 DEF SaveRecord
  <1>6. CASE FailSetup(d)
    BY <1>6 DEF FailSetup
  <1> QED
    BY <1>1, <1>2, <1>3, <1>4, <1>5, <1>6 DEF Launch, PersistStart

\* resume() up to the coordinator has at most the effects above.
LEMMA EffectResume ==
    ASSUME TypeOK, NEW r \in Resumers, Resume(r)
    PROVE  Effect
  <1> USE DriverFacts
          DEF TypeOK, Effect, Live, Saving, Goto, Fail, FailNode, Transition,
              EndPause, progress, history, DriverState
  <1>1. CASE CheckResumable(r)
    BY <1>1 DEF CheckResumable
  <1>2. CASE SeedCoordinator(r)
    BY <1>2 DEF SeedCoordinator
  <1>3. CASE ResumeState(r)
    <2>1. status' \in {status, "Running"} /\ (status \in Terminal => status' = status)
      BY <1>3, AfterTransitionStep DEF ResumeState, Status
    <2> QED
      BY <1>3, <2>1 DEF ResumeState
  <1>4. CASE ResumeSignal(r)
    BY <1>4 DEF ResumeSignal
  <1> QED
    BY <1>1, <1>2, <1>3, <1>4 DEF Resume

\* The coordinator loop has at most the effects above.
LEMMA EffectLoop ==
    ASSUME TypeOK, NEW d \in Drivers, Loop(d)
    PROVE  Effect
  <1> USE DriverFacts
          DEF TypeOK, Effect, Live, Saving, Goto, Fail, FailNode, Transition,
              EndPause, progress, history, DriverState
  <1>1. CASE StartRun(d)
    <2>1. status' \in {status, "Running"} /\ (status \in Terminal => status' = status)
      BY <1>1, AfterTransitionStep DEF StartRun, Status
    <2> QED
      BY <1>1, <2>1 DEF StartRun
  <1>2. CASE LoopHead(d)
    BY <1>2 DEF LoopHead, Interrupted, OverBudget
  <1>3. CASE ExpireBudget(d)
    <2>1. status' \in {status, "Timeout"} /\ (status \in Terminal => status' = status)
      BY <1>3, AfterTransitionStep DEF ExpireBudget, Status
    <2> QED
      BY <1>3, <2>1 DEF ExpireBudget
  <1>4. CASE BreakAtMaxSteps(d)
    BY <1>4 DEF BreakAtMaxSteps
  <1>5. CASE TripBackstop(d)
    BY <1>5 DEF TripBackstop
  <1>6. CASE SkipCompleted(d)
    BY <1>6 DEF SkipCompleted
  <1>7. CASE EnterNode(d)
    BY <1>7 DEF EnterNode
  <1>8. CASE CompleteRun(d)
    <2>1. CASE TransitionAllowed(status, "Completed")
      <3>1. status' = "Completed" /\ status # "Completed" /\ status \notin Terminal
        BY <1>8, <2>1, TerminalAbsorbs DEF CompleteRun, AfterTransition, Status,
           Terminal
      <3>2. winners' = winners \cup {d}
        BY <1>8, <2>1 DEF CompleteRun
      <3>3. record' = record
        BY <1>8 DEF CompleteRun
      <3>4. \A e \in Drivers : drv'[e].draft = drv[e].draft
        BY <1>8 DEF CompleteRun
      <3> QED
        BY <1>8, <3>1, <3>2, <3>3, <3>4 DEF CompleteRun
    <2>2. CASE ~TransitionAllowed(status, "Completed")
      <3>1. status' = status /\ winners' = winners /\ record' = record
        BY <1>8, <2>2 DEF CompleteRun, AfterTransition
      <3>2. drv' = [drv EXCEPT ![d].ok = FALSE]
        <4>1. drv' = [drv EXCEPT ![d].ok = TransitionAllowed(status, "Completed")]
          BY <1>8, Zenon DEF CompleteRun
        <4>2. TransitionAllowed(status, "Completed") = FALSE
          BY <2>2 DEF TransitionAllowed
        <4> QED
          BY <4>1, <4>2, Zenon
      <3> QED
        BY <1>8, <3>1, <3>2 DEF CompleteRun
    <2> QED
      BY <2>1, <2>2
  <1> QED
    BY <1>1, <1>2, <1>3, <1>4, <1>5, <1>6, <1>7, <1>8 DEF Loop

\* Executing a node has at most the effects above.
LEMMA EffectNode ==
    ASSUME TypeOK, NEW d \in Drivers, RunNode(d) \/ HandlerReturns(d)
    PROVE  Effect
  <1> USE DriverFacts
          DEF TypeOK, Effect, Live, Saving, Goto, Fail, FailNode, Transition,
              EndPause, progress, history, DriverState
  <1>1. CASE VetoNode(d)
    BY <1>1 DEF VetoNode
  <1>2. CASE StartHandler(d)
    BY <1>2 DEF StartHandler
  <1>3. CASE HandlerStopped(d)
    BY <1>3 DEF HandlerStopped
  <1>4. CASE NodeTimesOut(d)
    BY <1>4 DEF NodeTimesOut
  <1>5. CASE MarkNode(d)
    BY <1>5 DEF MarkNode
  <1>11. CASE KeepResult(d)
    BY <1>11 DEF KeepResult
  <1>6. CASE RecordSuccess(d)
    BY <1>6 DEF RecordSuccess
  <1>7. CASE HandlerSucceeds(d)
    BY <1>7 DEF HandlerSucceeds
  <1>8. CASE HandlerFails(d)
    BY <1>8 DEF HandlerFails
  <1>9. CASE HandlerParks(d)
    BY <1>9 DEF HandlerParks
  <1>10. CASE AbandonNode(d)
    BY <1>10 DEF AbandonNode
  <1> QED
    BY <1>1, <1>2, <1>3, <1>4, <1>5, <1>6, <1>7, <1>8, <1>9, <1>10, <1>11
       DEF RunNode, HandlerReturns

\* Routing a failure has at most the effects above.
LEMMA EffectRoute ==
    ASSUME TypeOK, NEW d \in Drivers, RouteFailure(d)
    PROVE  Effect
  <1> USE DriverFacts
          DEF TypeOK, Effect, Live, Saving, Goto, Fail, FailNode, Transition,
              EndPause, progress, history, DriverState
  <1>1. CASE RouteNowhere(d)
    BY <1>1 DEF RouteNowhere
  <1>2. CASE RouteToSuspend(d)
    BY <1>2 DEF RouteToSuspend
  <1>11. CASE ParkCursor(d)
    BY <1>11 DEF ParkCursor
  <1>3. CASE RouteToBranch(d)
    BY <1>3 DEF RouteToBranch
  <1>4. CASE RouteDangling(d)
    BY <1>4 DEF RouteDangling
  <1>5. CASE ParkSignal(d)
    BY <1>5 DEF ParkSignal
  <1>6. CASE ParkCheck(d)
    BY <1>6 DEF ParkCheck, Interrupted, OverBudget
  <1>7. CASE ClearCheck(d)
    BY <1>7 DEF ClearCheck
  <1>8. CASE ClearPause(d)
    BY <1>8 DEF ClearPause
  <1>9. CASE Interrupt(d)
    BY <1>9 DEF Interrupt
  <1>10. CASE Recheck(d)
    BY <1>10 DEF Recheck, OverBudget
  <1> QED
    BY <1>1, <1>2, <1>3, <1>4, <1>5, <1>6, <1>7, <1>8, <1>9, <1>10, <1>11
       DEF RouteFailure

\* The final record and the verdict of the API have at most the effects above.
LEMMA EffectFinalize ==
    ASSUME TypeOK, NEW d \in Drivers, Finalize(d)
    PROVE  Effect
  <1> USE DriverFacts
          DEF TypeOK, Effect, Live, Saving, Goto, Fail, FailNode, Transition,
              EndPause, progress, history, DriverState
  <1>1. CASE ReadStatus(d)
    BY <1>1 DEF ReadStatus
  <1>2. CASE ReadSignal(d)
    BY <1>2 DEF ReadSignal, Signal
  <1>3. CASE Settle(d)
    <2>1. status' \in {status, "Cancelled", "Paused", "Failed"} /\ (status \in Terminal => status' = status)
      BY <1>3, AfterTransitionStep DEF Settle, Status
    <2> QED
      BY <1>3, <2>1 DEF Settle
  <1>4. CASE BuildRecord(d, "draftFinal", "saveFinal")
    BY <1>4 DEF BuildRecord
  <1>5. CASE SaveRecord(d, "saveFinal", "after")
    BY <1>5 DEF SaveRecord
  <1>6. CASE ReturnOk(d)
    BY <1>6 DEF ReturnOk
  <1>7. CASE ReturnErr(d)
    BY <1>7 DEF ReturnErr
  <1>8. CASE SpoilByMiddleware(d)
    BY <1>8 DEF SpoilByMiddleware
  <1>9. CASE MarkFailed(d)
    <2>1. status' \in {status, "Failed"} /\ (status \in Terminal => status' = status)
      BY <1>9, AfterTransitionStep DEF MarkFailed, Status
    <2> QED
      BY <1>9, <2>1 DEF MarkFailed
  <1>10. CASE FlipRecord(d)
    BY <1>10 DEF FlipRecord
  <1> QED
    BY <1>1, <1>2, <1>3, <1>4, <1>5, <1>6, <1>7, <1>8, <1>9, <1>10 DEF Finalize, PersistFinal

\* pause(), its timer and cancel() have at most the effects above.
LEMMA EffectControl ==
    ASSUME TypeOK, NEW a \in Pausers \cup Cancellers, Pauser(a) \/ Canceller(a)
    PROVE  Effect
  <1> USE DriverFacts
          DEF TypeOK, Effect, Live, Saving, Goto, Transition, progress, history,
              DriverState
  <1>1. CASE PauseState(a)
    <2>1. status' \in {status, "Paused"} /\ (status \in Terminal => status' = status)
      BY <1>1, AfterTransitionStep DEF PauseState, Status
    <2> QED
      BY <1>1, <2>1 DEF PauseState
  <1>2. CASE PauseSignal(a)
    BY <1>2 DEF PauseSignal
  <1>3. CASE TimerWakes(a)
    BY <1>3 DEF TimerWakes
  <1>4. CASE StopRead(a, "stopRead") \/ StopRead(a, "idle")
    BY <1>4 DEF StopRead
  <1>5. CASE StopState(a)
    <2>1. status' \in {status, "Cancelled"} /\ (status \in Terminal => status' = status)
      BY <1>5, AfterTransitionStep DEF StopState, Status
    <2> QED
      BY <1>5, <2>1 DEF StopState
  <1>6. CASE StopSignal(a)
    BY <1>6 DEF StopSignal
  <1> QED
    BY <1>1, <1>2, <1>3, <1>4, <1>5, <1>6 DEF Pauser, Canceller

\* Dropping a driver has at most the effects above.
LEMMA EffectDrop ==
    ASSUME TypeOK, NEW d \in Drivers, EntryTimeout(d) \/ Abort(d)
    PROVE  Effect
  BY DriverFacts DEF TypeOK, Effect, Live, Saving, EntryTimeout, Abort, Dropped, Goto,
                     AwaitPoint, progress, history, DriverState

\* Every step has at most these effects.
LEMMA EffectStep == TypeOK /\ [Next]_vars => Effect
  <1> SUFFICES ASSUME TypeOK, [Next]_vars PROVE Effect
    OBVIOUS
  <1>1. ASSUME NEW d \in Drivers, Engine(d) \/ HandlerReturns(d) PROVE Effect
    BY <1>1, EffectLaunch, EffectLoop, EffectNode, EffectRoute, EffectFinalize
       DEF Engine
  <1>2. ASSUME NEW d \in Drivers, EntryTimeout(d) \/ Abort(d) PROVE Effect
    BY <1>2, EffectDrop
  <1>3. ASSUME NEW r \in Resumers, Resume(r) PROVE Effect
    BY <1>3, EffectResume
  <1>4. ASSUME NEW p \in Pausers, Pauser(p) PROVE Effect
    BY <1>4, EffectControl
  <1>5. ASSUME NEW c \in Cancellers, Canceller(c) PROVE Effect
    BY <1>5, EffectControl
  <1>6. CASE UNCHANGED vars
    BY <1>6 DEF Effect, Live, Saving, vars, progress, history
  <1> QED
    BY <1>1, <1>2, <1>3, <1>4, <1>5, <1>6 DEF Next

-----------------------------------------------------------------------------
(* The outcome is decided once and recorded honestly.                       *)

\* A freshly spawned execution has no outcome and no record.
LEMMA OutcomeInit == Init => OutcomeInv
  <1> SUFFICES ASSUME Init PROVE OutcomeInv
    OBVIOUS
  <1>1. OneWinner
    BY DEF Init, OneWinner, FreshDriver
  <1>2. RecordHonest
    BY ActorAssumption DEF Init, RecordHonest, Terminal, Status
  <1>3. DraftHonest
    BY DEF Init, DraftHonest, FreshDriver, Terminal
  <1>4. NoStaleDraft
    BY DriverFacts DEF Init, NoStaleDraft, Live, Drivers, Saving
  <1> QED
    BY <1>1, <1>2, <1>3, <1>4 DEF OutcomeInv

\* A step with these effects keeps the outcome decided once and honest.
LEMMA OutcomeStep == TypeOK /\ OutcomeInv /\ Effect => OutcomeInv'
  <1> SUFFICES ASSUME TypeOK, OutcomeInv, Effect PROVE OutcomeInv'
    OBVIOUS
  <1>1. OneWinner'
    <2>1. CASE status' = "Completed" /\ status # "Completed"
      <3>1. winners = {}
        BY <2>1 DEF OutcomeInv, OneWinner
      <3>2. PICK d \in Drivers : winners' = winners \cup {d}
        BY <2>1 DEF Effect
      <3>3. winners' = {d}
        BY <3>1, <3>2
      <3> QED
        BY <2>1, <3>3 DEF OneWinner
    <2>2. CASE status' = "Completed" /\ status = "Completed"
      BY <2>2 DEF OutcomeInv, OneWinner, Effect
    <2>3. CASE status' # "Completed"
      <3>1. status # "Completed"
        BY <2>3 DEF Effect, Terminal
      <3>2. winners = {} /\ winners' = {}
        BY <2>3, <3>1 DEF OutcomeInv, OneWinner, Effect
      <3>3. \A d \in Drivers : ~drv'[d].ok
        BY <2>3, <3>1 DEF OutcomeInv, OneWinner, Effect
      <3> QED
        BY <2>3, <3>2, <3>3 DEF OneWinner
    <2> QED
      BY <2>1, <2>2, <2>3
  <1>2. DraftHonest'
    BY DEF OutcomeInv, DraftHonest, Effect
  <1>3. RecordHonest'
    <2>1. CASE record' = record
      BY <2>1 DEF OutcomeInv, RecordHonest, Effect
    <2>2. CASE record' = "Failed"
      BY <2>2 DEF RecordHonest
    <2>3. CASE record' # record /\ \E d \in Drivers : record' = drv[d].draft
      BY <2>3 DEF OutcomeInv, DraftHonest, RecordHonest, Effect
    <2> QED
      BY <2>1, <2>2, <2>3 DEF Effect
  <1>4. NoStaleDraft'
    <2> SUFFICES ASSUME SerialResume
                 PROVE  /\ \A d, e \in Drivers : Live(d)' /\ Live(e)' => d = e
                        /\ \A d \in Drivers :
                              pc'[d] \in Saving /\ drv'[d].draft \notin Terminal
                                 => record' \notin Terminal \ {"Failed"}
      BY DEF NoStaleDraft
    <2>1. ASSUME NEW d \in Drivers, NEW e \in Drivers, Live(d)', Live(e)', d # e
          PROVE  FALSE
      <3>1. Live(d) \/ ~Live(e)'
        BY <2>1 DEF Effect
      <3>2. Live(e) \/ ~Live(d)'
        BY <2>1 DEF Effect
      <3> QED
        BY <2>1, <3>1, <3>2 DEF OutcomeInv, NoStaleDraft
    <2>2. ASSUME NEW d \in Drivers,
                 pc'[d] \in Saving, drv'[d].draft \notin Terminal
          PROVE  record' \notin Terminal \ {"Failed"}
      <3>1. CASE drv'[d].draft = status /\ status' = status /\ record' = record
        BY <2>2, <3>1 DEF OutcomeInv, RecordHonest
      <3>2. CASE drv'[d].draft = drv[d].draft /\ pc[d] = pc'[d]
        <4>1. record \notin Terminal \ {"Failed"}
          BY <2>2, <3>2 DEF OutcomeInv, NoStaleDraft
        <4>2. ASSUME NEW e \in Drivers, pc[e] \in Saving, record' = drv[e].draft
              PROVE  record' \notin Terminal
          BY <2>2, <3>2, <4>2 DEF OutcomeInv, NoStaleDraft, Live, Saving
        <4> QED
          BY <4>1, <4>2 DEF Effect
      <3> QED
        BY <2>2, <3>1, <3>2 DEF Effect
    <2> QED
      BY <2>1, <2>2
  <1> QED
    BY <1>1, <1>2, <1>3, <1>4 DEF OutcomeInv

\* The strengthening holds in every reachable state.
THEOREM OutcomeDecidedOnce == Spec => []OutcomeInv
  <1>1. Init => TypeOK /\ OutcomeInv
    BY TypeInit, OutcomeInit
  <1>2. TypeOK /\ OutcomeInv /\ [Next]_vars => (TypeOK /\ OutcomeInv)'
    BY TypeStep, EffectStep, OutcomeStep
  <1> QED
    BY <1>1, <1>2, PTL DEF Spec

\* However many calls drive an execution, at most one completes it and only
\* a completed execution is answered with success.
THEOREM OneWinnerAlways == Spec => []OneWinner
  <1>1. OutcomeInv => OneWinner
    BY DEF OutcomeInv
  <1> QED
    BY <1>1, OutcomeDecidedOnce, PTL

\* The store never reports a completion, cancellation or timeout that the
\* execution has not had.
THEOREM RecordAlwaysHonest == Spec => []RecordHonest
  <1>1. OutcomeInv => RecordHonest
    BY DEF OutcomeInv
  <1> QED
    BY <1>1, OutcomeDecidedOnce, PTL

-----------------------------------------------------------------------------
(* Refinement of ExecutionOutcome.                                          *)

\* A step with these effects is a step of ExecutionOutcome, or none.
LEMMA PromiseStep ==
    ASSUME TypeOK, OutcomeInv, Effect
    PROVE  [Promise!Next]_<<Verdict(status), Verdict(record)>>
  <1>1. CASE record' = record
    <2>1. CASE status \in Terminal \/ status' \notin Terminal
      <3>1. Verdict(status)' = Verdict(status) /\ Verdict(record)' = Verdict(record)
        BY <1>1, <2>1 DEF Effect, Verdict
      <3> QED
        BY <3>1
    <2>2. CASE status \notin Terminal /\ status' \in Terminal
      <3>1. Promise!Decide
        BY <1>1, <2>2 DEF Verdict, Terminal, Promise!Decide, Promise!Outcome
      <3> QED
        BY <3>1 DEF Promise!Next
    <2> QED
      BY <2>1, <2>2
  <1>2. CASE record' # record
    <2>1. status' = status /\ Verdict(status)' = Verdict(status)
      BY <1>2 DEF Effect, Verdict
    <2>2. CASE record' = "Failed"
      <3>1. Promise!Publish
        BY <2>1, <2>2 DEF Verdict, Terminal, Promise!Publish
      <3> QED
        BY <3>1 DEF Promise!Next
    <2>3. CASE record' # "Failed"
      <3>1. PICK d \in Drivers : pc[d] \in Saving /\ record' = drv[d].draft
        BY <1>2, <2>3 DEF Effect
      <3>2. CASE record' \in Terminal
        <4>1. record' = status
          BY <3>1, <3>2 DEF OutcomeInv, DraftHonest
        <4>2. Promise!Publish
          BY <2>1, <4>1, <3>2 DEF Verdict, Promise!Publish
        <4> QED
          BY <4>2 DEF Promise!Next
      <3>3. CASE record' \notin Terminal
        <4>1. SerialResume => record \notin Terminal \ {"Failed"}
          BY <3>1, <3>3 DEF OutcomeInv, NoStaleDraft
        <4>2. CASE record \notin Terminal
          <5>1. Verdict(record)' = Verdict(record)
            BY <3>3, <4>2 DEF Verdict
          <5> QED
            BY <2>1, <5>1
        <4>3. CASE record \in Terminal
          <5>1. Promise!Withdraw
            BY <2>1, <3>3, <4>1, <4>3 DEF Verdict, Promise!Withdraw
          <5> QED
            BY <5>1 DEF Promise!Next
        <4> QED
          BY <4>2, <4>3
      <3> QED
        BY <3>2, <3>3
    <2> QED
      BY <2>2, <2>3
  <1> QED
    BY <1>1, <1>2

\* An execution keeps the promise of ExecutionOutcome: its outcome is decided
\* once, a stored verdict is that outcome or Failed, and where drivers do
\* not overlap a stored verdict other than Failed is never taken back.
THEOREM KeepsPromise == Spec => OutcomePromise
  <1>1. Init => Promise!Init
    BY ActorAssumption DEF Init, Promise!Init, Verdict, Terminal, Status
  <1>2. TypeOK /\ OutcomeInv /\ [Next]_vars
          => [Promise!Next]_<<Verdict(status), Verdict(record)>>
    BY EffectStep, PromiseStep
  <1> QED
    BY <1>1, <1>2, TypeCorrect, OutcomeDecidedOnce, PTL
       DEF Spec, OutcomePromise, Promise!Spec

=============================================================================
