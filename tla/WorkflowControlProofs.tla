------------------------ MODULE WorkflowControlProofs ------------------------
(***************************************************************************)
(* Theorems about what a caller of WorkflowExecution may rely on: the      *)
(* record it finds after execute(), a pause or a cancellation that was     *)
(* answered, the place a suspended run is parked at, and the work a        *)
(* resumed run does not repeat.                                            *)
(***************************************************************************)
EXTENDS WorkflowExecutionProofs

\* The execution is driven by execute() alone.
NoResume == Resumers = {}

\* Then the only driver is the Executor.
LEMMA OnlyExecutor == NoResume => Drivers = {Executor}
  BY DEF NoResume, Drivers

-----------------------------------------------------------------------------
(* The record after execute().                                              *)

\* An Ok result appears at the end of the loop only, is drafted as Completed
\* and saved before it is answered; an error leaves through FlipRecord.
Closing ==
    /\ drv[Executor].ok =>
          pc[Executor] \in {"exit", "draftFinal", "saveFinal", "after", "returned"}
    /\ drv[Executor].ok /\ pc[Executor] = "saveFinal" =>
          drv[Executor].draft = "Completed"
    /\ drv[Executor].ok /\ pc[Executor] \in {"after", "returned"} =>
          record = "Completed"
    /\ ~drv[Executor].ok /\ pc[Executor] = "returned" =>
          record \in {NoRecord, "Failed"}

\* Every step of a single driver whose saves and whose future are not lost
\* keeps it so.
LEMMA ClosingStep ==
    ASSUME NoResume, "store" \notin Faults, "abort" \notin Faults
    PROVE  TypeOK /\ OneWinner /\ Closing /\ [Next]_vars => Closing'
  <1> SUFFICES ASSUME TypeOK, OneWinner, Closing, [Next]_vars PROVE Closing'
    OBVIOUS
  <1> DEFINE x == Executor
  <1>0. Drivers = {x} /\ x \in Actors /\ drv[x] \in DriverState
    BY OnlyExecutor, DriverFacts DEF TypeOK
  <1> HIDE DEF x
  <1> USE <1>0 DEF TypeOK, Closing, Goto, Fail, FailNode, Transition, EndPause,
                   progress, history, DriverState
  <1>1. CASE Launch(x)
    <2>1. CASE BeginRun(x)
      BY <1>1, <2>1 DEF BeginRun, x
    <2>2. CASE BuildRecord(x, "draftStart", "saveStart") \/ FailSetup(x)
      BY <1>1, <2>2 DEF BuildRecord, FailSetup, x
    <2>3. CASE SaveRecord(x, "saveStart", "start")
      BY <1>1, <2>3 DEF SaveRecord, x
    <2>4. CASE RunBeforeMiddleware(x) \/ RejectByMiddleware(x)
      BY <1>1, <2>4 DEF RunBeforeMiddleware, RejectByMiddleware, x
    <2> QED BY <1>1, <2>1, <2>2, <2>3, <2>4 DEF Launch, PersistStart
  <1>2. CASE Loop(x) /\ ~CompleteRun(x)
    <2>1. CASE StartRun(x) \/ LoopHead(x) \/ ExpireBudget(x)
      BY <1>2, <2>1 DEF StartRun, LoopHead, Interrupted, OverBudget, ExpireBudget, x
    <2>2. CASE BreakAtMaxSteps(x) \/ TripBackstop(x)
      BY <1>2, <2>2 DEF BreakAtMaxSteps, TripBackstop, x
    <2>3. CASE SkipCompleted(x)
      BY <1>2, <2>3 DEF SkipCompleted, x
    <2>4. CASE EnterNode(x)
      BY <1>2, <2>4 DEF EnterNode, x
    <2> QED BY <1>2, <2>1, <2>2, <2>3, <2>4 DEF Loop
  <1>3. CASE CompleteRun(x)
    BY <1>3 DEF CompleteRun, x
  <1>4. CASE RunNode(x) \/ HandlerReturns(x)
    <2>1. CASE VetoNode(x) \/ AbandonNode(x) \/ StartHandler(x)
      BY <1>4, <2>1 DEF VetoNode, AbandonNode, StartHandler, x
    <2>2. CASE HandlerStopped(x) \/ NodeTimesOut(x) \/ MarkNode(x)
      BY <1>4, <2>2 DEF HandlerStopped, NodeTimesOut, MarkNode, x
    <2>5. CASE KeepResult(x)
      BY <1>4, <2>5 DEF KeepResult, x
    <2>3. CASE RecordSuccess(x)
      BY <1>4, <2>3 DEF RecordSuccess, x
    <2>4. CASE HandlerReturns(x)
      BY <1>4, <2>4
      DEF HandlerReturns, HandlerSucceeds, HandlerFails, HandlerParks, x
    <2> QED BY <1>4, <2>1, <2>2, <2>3, <2>4, <2>5 DEF RunNode
  <1>5. CASE RouteFailure(x)
    BY <1>5 DEF RouteFailure, RouteNowhere, RouteToSuspend, RouteToBranch,
       RouteDangling, ParkCursor, ParkSignal, ParkCheck, ClearCheck, ClearPause, Interrupt,
       Recheck, Interrupted, OverBudget, x
  <1>6. CASE Finalize(x)
    BY <1>6 DEF Finalize, PersistFinal, ReadStatus, ReadSignal, Settle, BuildRecord,
       SaveRecord, ReturnOk, ReturnErr, SpoilByMiddleware, MarkFailed,
       FlipRecord, OneWinner, Settled, Signal, x
  <1>7. CASE EntryTimeout(x)
    BY <1>7 DEF EntryTimeout, Dropped, AwaitPoint, x
  <1>8. ASSUME NEW a \in Pausers \cup Cancellers, Pauser(a) \/ Canceller(a)
        PROVE  Closing'
    <2>1. a # x /\ a \in Actors
      BY DriverFacts
    <2>2. UNCHANGED <<record, drv>> /\ pc'[x] = pc[x]
      BY <1>8, <2>1 DEF Pauser, Canceller, PauseState, PauseSignal, TimerWakes,
         StopRead, StopState, StopSignal
    <2> QED BY <2>2 DEF x
  <1>9. CASE UNCHANGED vars
    BY <1>9 DEF vars
  <1> QED
    BY <1>1, <1>2, <1>3, <1>4, <1>5, <1>6, <1>7, <1>8, <1>9
       DEF Next, Engine, Abort, NoResume

\* When execute() has returned and the run did not end as paused, the record is
\* closed and an Ok answer is on it as Completed: for every graph, route table and set of pauses, cancellations,
\* timeouts and failures, as long as nobody resumes the execution, the store
\* takes its writes and the caller waits for the answer.
THEOREM RecordAlwaysSettled ==
    ASSUME NoResume, "store" \notin Faults, "abort" \notin Faults
    PROVE  Spec => []RecordSettled
  <1>1. Init => Closing
    BY DriverFacts DEF Init, Closing, FreshDriver
  <1>2. Closing => RecordSettled
    BY DEF Closing, RecordSettled, Terminal
  <1> QED
    BY <1>1, <1>2, ClosingStep, TypeCorrect, OneWinnerAlways, PTL DEF Spec

-----------------------------------------------------------------------------
(* Where a suspended run is parked.                                         *)

\* The places of a run between the suspend record and its end.
Parked ==
    {"parkCursor", "parkSignal", "parkCheck", "timedOut", "exit", "settle",
     "settleCancel", "settlePause", "settleFail", "draftFinal", "saveFinal",
     "after", "markFailed", "flip", "returned"}

\* A run with a pending suspend record enters no further node, so that the
\* cursor, once it has followed, stays at the target; before that the driver
\* has the target in hand.
Parking ==
    /\ suspend # NoNode =>
          /\ pc[Executor] \in Parked
          /\ cursor = suspend \/ pc[Executor] = "parkCursor" \/ drv[Executor].torn
    /\ pc[Executor] = "parkCursor" => suspend = drv[Executor].at
    /\ drv[Executor].torn => pc[Executor] \in {"markFailed", "flip", "returned"}

\* Every step of a single driver keeps it parked.
LEMMA ParkingStep ==
    ASSUME NoResume
    PROVE  TypeOK /\ Parking /\ [Next]_vars => Parking'
  <1> SUFFICES ASSUME TypeOK, Parking, [Next]_vars PROVE Parking'
    OBVIOUS
  <1> DEFINE x == Executor
  <1>0. Drivers = {x} /\ x \in Actors /\ drv[x] \in DriverState
    BY OnlyExecutor, DriverFacts DEF TypeOK
  <1> HIDE DEF x
  <1> USE <1>0 DEF TypeOK, Parking, Parked, Goto, Fail, FailNode, Transition,
                   progress, history, DriverState
  <1>a. ASSUME pc[x] \notin Parked, pc'[x] # "parkCursor",
               drv'[x].torn = drv[x].torn, suspend' = suspend
        PROVE  Parking'
    BY <1>a DEF x
  <1>1. CASE Launch(x)
    <2>1. pc[x] \notin Parked /\ pc'[x] # "parkCursor" /\ suspend' = suspend
      BY <1>1 DEF Launch, PersistStart, RunBeforeMiddleware, RejectByMiddleware,
         BeginRun, FailSetup, BuildRecord, SaveRecord
    <2>2. CASE BeginRun(x)
      BY <1>a, <2>1, <2>2 DEF BeginRun
    <2>3. CASE BuildRecord(x, "draftStart", "saveStart")
      BY <1>a, <2>1, <2>3 DEF BuildRecord
    <2>4. CASE UNCHANGED drv
      BY <1>a, <2>1, <2>4
    <2> QED BY <1>1, <2>2, <2>3, <2>4 DEF Launch, PersistStart, RunBeforeMiddleware,
            RejectByMiddleware, FailSetup, SaveRecord
  <1>2. CASE Loop(x)
    <2>1. CASE ExpireBudget(x)
      BY <1>2, <2>1 DEF ExpireBudget, x
    <2>2. ASSUME ~ExpireBudget(x)
          PROVE  pc[x] \notin Parked /\ pc'[x] # "parkCursor" /\ suspend' = suspend
      BY <1>2, <2>2 DEF Loop, StartRun, LoopHead, Interrupted, OverBudget,
         BreakAtMaxSteps, TripBackstop, SkipCompleted, EnterNode, CompleteRun
    <2>3. drv'[x].torn = drv[x].torn
      <3>1. CASE SkipCompleted(x)
        BY <3>1 DEF SkipCompleted
      <3>2. CASE EnterNode(x) \/ CompleteRun(x)
        BY <3>2 DEF EnterNode, CompleteRun
      <3> QED BY <1>2, <3>1, <3>2 DEF Loop, StartRun, LoopHead, Interrupted,
              OverBudget, ExpireBudget, BreakAtMaxSteps, TripBackstop
    <2> QED BY <1>a, <2>1, <2>2, <2>3
  <1>3. CASE RunNode(x) \/ HandlerReturns(x)
    BY <1>3 DEF RunNode, HandlerReturns, VetoNode, AbandonNode, StartHandler,
       HandlerStopped, NodeTimesOut, MarkNode, KeepResult, RecordSuccess,
       HandlerSucceeds, HandlerFails, HandlerParks, x
  <1>4. CASE RouteFailure(x)
    BY <1>4 DEF RouteFailure, RouteNowhere, RouteToSuspend, RouteToBranch,
       RouteDangling, ParkCursor, ParkSignal, ParkCheck, ClearCheck, ClearPause, Interrupt,
       Recheck, Interrupted, OverBudget, x
  <1>5. CASE Finalize(x)
    BY <1>5 DEF Finalize, PersistFinal, ReadStatus, ReadSignal, Settle, BuildRecord,
       SaveRecord, ReturnOk, ReturnErr, SpoilByMiddleware, MarkFailed,
       FlipRecord, Signal, x
  <1>6. CASE EntryTimeout(x) \/ Abort(x)
    BY <1>6 DEF EntryTimeout, Abort, Dropped, AwaitPoint, x
  <1>7. ASSUME NEW a \in Pausers \cup Cancellers, Pauser(a) \/ Canceller(a)
        PROVE  Parking'
    <2>1. a # x /\ a \in Actors
      BY DriverFacts
    <2>2. UNCHANGED <<cursor, suspend, drv>> /\ pc'[x] = pc[x]
      BY <1>7, <2>1 DEF Pauser, Canceller, PauseState, PauseSignal, TimerWakes,
         StopRead, StopState, StopSignal
    <2> QED BY <2>2 DEF x
  <1>8. CASE UNCHANGED vars
    BY <1>8 DEF vars
  <1> QED
    BY <1>1, <1>2, <1>3, <1>4, <1>5, <1>6, <1>7, <1>8 DEF Next, Engine, NoResume

\* In a run that nobody resumes the suspend record and the entity's cursor name
\* the same node, except between the two writes of suspend_error_branch and
\* after a future was dropped exactly there; a future dropped anywhere else, a
\* lost write, a cancellation or a node timeout does not part them.
THEOREM SuspendAlwaysAtCursor ==
    ASSUME NoResume
    PROVE  Spec => []SuspendAtCursor
  <1>1. Init => Parking
    BY DriverFacts DEF Init, Parking, FreshDriver
  <1>2. Parking => SuspendAtCursor
    BY DriverFacts DEF Parking, SuspendAtCursor
  <1> QED
    BY <1>1, <1>2, ParkingStep, TypeCorrect, PTL DEF Spec

-----------------------------------------------------------------------------
(* An interruption that was answered.                                       *)

\* No error edge leads on: a route parks the run, or there is none.  (A route
\* that continues clears a pause on purpose, route_node_failure.)
NoContinue ==
    \A n \in Nodes, c \in Category :
        LET route == Resolve(n, c)
        IN  route = NoRoute \/ route.target \notin Nodes \/ route.suspend

\* Nobody is about to clear the signal, and after an answer it is set.
Held ==
    /\ pc[Executor] \notin {"clearCheck", "clearPause"}
    /\ PauseAcked \/ CancelAcked => signal # "Active"

\* A handler starts only while the signal is Active.
Guarded == Starts(Executor) => signal = "Active"

\* Every step of a single driver keeps the signal of an answered interruption.
LEMMA HeldStep ==
    ASSUME NoResume, NoContinue
    PROVE  TypeOK /\ Held /\ [Next]_vars => Held' /\ Guarded
  <1> SUFFICES ASSUME TypeOK, Held, [Next]_vars PROVE Held' /\ Guarded
    OBVIOUS
  <1> DEFINE x == Executor
  <1>0. /\ Drivers = {x} /\ x \in Actors /\ drv[x] \in DriverState
        /\ \A a \in Pausers \cup Cancellers : a # x /\ a \in Actors
    BY OnlyExecutor, DriverFacts DEF TypeOK
  <1> HIDE DEF x
  <1>a. ASSUME \A a \in Actors : a # x => pc'[a] = pc[a],
               signal' = signal \/ signal' # "Active",
               pc'[x] \notin {"clearCheck", "clearPause"}
        PROVE  Held'
    BY <1>0, <1>a DEF Held, PauseAcked, CancelAcked, x
  <1> USE DEF Goto, Fail, FailNode, Transition
  <1>1. CASE Launch(x)
    <2>1. /\ \A a \in Actors : a # x => pc'[a] = pc[a]
          /\ signal' = signal /\ pc[x] # "enter"
          /\ pc'[x] \notin {"clearCheck", "clearPause"}
      BY <1>0, <1>1 DEF TypeOK, Launch, PersistStart, RunBeforeMiddleware,
         RejectByMiddleware, BeginRun, FailSetup, BuildRecord, SaveRecord
    <2> QED BY <1>a, <2>1 DEF Guarded, Starts, x
  <1>2. CASE Loop(x)
    <2>1. /\ \A a \in Actors : a # x => pc'[a] = pc[a]
          /\ signal' = signal /\ pc[x] # "enter"
          /\ pc'[x] \notin {"clearCheck", "clearPause"}
      BY <1>0, <1>2 DEF TypeOK, Loop, StartRun, LoopHead, Interrupted, OverBudget,
         ExpireBudget, BreakAtMaxSteps, TripBackstop, SkipCompleted, EnterNode,
         CompleteRun
    <2> QED BY <1>a, <2>1 DEF Guarded, Starts, x
  <1>3. CASE RunNode(x) \/ HandlerReturns(x)
    <2>1. /\ \A a \in Actors : a # x => pc'[a] = pc[a]
          /\ signal' = signal \/ signal' = "Pause"
          /\ pc[x] = "enter" /\ pc'[x] = "handler" => signal = "Active"
          /\ pc'[x] \notin {"clearCheck", "clearPause"}
      BY <1>0, <1>3 DEF TypeOK, RunNode, HandlerReturns, VetoNode, AbandonNode,
         StartHandler, HandlerStopped, NodeTimesOut, MarkNode, KeepResult,
         RecordSuccess, HandlerSucceeds, HandlerFails, HandlerParks
    <2> QED BY <1>a, <2>1 DEF Guarded, Starts, x
  <1>4. CASE RouteFailure(x)
    <2>1. ~RouteToBranch(x)
      <3>1. pc[x] = "failed" => drv[x].at \in Nodes /\ drv[x].cause \in Category
        BY <1>0 DEF TypeOK, AtNode, DriverState
      <3> QED BY <3>1 DEF RouteToBranch, NoContinue
    <2>2. /\ \A a \in Actors : a # x => pc'[a] = pc[a]
          /\ signal' = signal \/ signal' = "Pause"
          /\ pc[x] # "enter"
          /\ pc'[x] \notin {"clearCheck", "clearPause"}
      BY <1>0, <1>4, <2>1 DEF TypeOK, Held, RouteFailure, RouteNowhere,
         RouteToSuspend, RouteDangling, ParkCursor, ParkSignal, ParkCheck, ClearCheck,
         ClearPause, Interrupt, Recheck, Interrupted, OverBudget, x
    <2> QED BY <1>a, <2>2 DEF Guarded, Starts, x
  <1>5. CASE Finalize(x)
    <2>1. /\ \A a \in Actors : a # x => pc'[a] = pc[a]
          /\ signal' = signal /\ pc[x] # "enter"
          /\ pc'[x] \notin {"clearCheck", "clearPause"}
      BY <1>0, <1>5 DEF TypeOK, Signal, Finalize, PersistFinal, ReadStatus,
         ReadSignal, Settle, BuildRecord, SaveRecord, ReturnOk, ReturnErr,
         SpoilByMiddleware, MarkFailed, FlipRecord
    <2> QED BY <1>a, <2>1 DEF Guarded, Starts, x
  <1>6. CASE EntryTimeout(x) \/ Abort(x)
    <2>1. /\ \A a \in Actors : a # x => pc'[a] = pc[a]
          /\ signal' = signal /\ pc'[x] \in {"markFailed", "returned"}
      BY <1>0, <1>6 DEF TypeOK, EntryTimeout, Abort, AwaitPoint, DriverPc
    <2> QED BY <1>a, <2>1 DEF Guarded, Starts, x
  <1>7. ASSUME NEW a \in Pausers \cup Cancellers,
               (a \in Pausers /\ Pauser(a)) \/ (a \in Cancellers /\ Canceller(a))
        PROVE  Held' /\ Guarded
    <2>1. /\ pc'[x] = pc[x]
          /\ \A b \in Actors : b # a => pc'[b] = pc[b]
      BY <1>0, <1>7 DEF TypeOK, Pauser, Canceller, PauseState, PauseSignal,
         TimerWakes, StopRead, StopState, StopSignal
    <2>2. \/ signal' \in {"Pause", "Stop"}
          \/ /\ signal' = signal
             /\ a \in Pausers => pc[a] # "pauseSignal"
             /\ a \in Pausers /\ pc[a] \in {"idle", "refused"} =>
                   pc'[a] \in {"pauseSignal", "refused"}
             /\ a \in Cancellers => pc'[a] # "returned"
      BY <1>0, <1>7, ActorAssumption DEF TypeOK, Pauser, Canceller, PauseState,
         PauseSignal, TimerWakes, StopRead, StopState, StopSignal
    <2>3. CASE signal' \in {"Pause", "Stop"}
      BY <2>1, <2>3 DEF Held, Guarded, Starts, x
    <2>4. CASE /\ signal' = signal
               /\ a \in Pausers => pc[a] # "pauseSignal"
               /\ a \in Pausers /\ pc[a] \in {"idle", "refused"} =>
                     pc'[a] \in {"pauseSignal", "refused"}
               /\ a \in Cancellers => pc'[a] # "returned"
      <3>1. PauseAcked' => PauseAcked
        BY <1>0, <2>1, <2>4 DEF PauseAcked
      <3>2. CancelAcked' => CancelAcked
        BY <1>0, <2>1, <2>4 DEF CancelAcked
      <3> QED BY <2>1, <2>4, <3>1, <3>2 DEF Held, Guarded, Starts, x
    <2> QED BY <2>2, <2>3, <2>4
  <1>8. CASE UNCHANGED vars
    BY <1>8 DEF vars, Held, Guarded, Starts, PauseAcked, CancelAcked
  <1> QED
    BY <1>0, <1>1, <1>2, <1>3, <1>4, <1>5, <1>6, <1>7, <1>8
       DEF Next, Engine, NoResume

\* Once pause() or cancel() has been answered no further handler starts, for
\* any number of concurrent pauses and cancellations and every fault, in a run
\* that nobody resumes and whose error edges park it.
THEOREM InterruptionAlwaysHolds ==
    ASSUME NoResume, NoContinue
    PROVE  Spec => InterruptionHolds
  <1>1. Init => Held
    BY DriverFacts, ActorAssumption
       DEF Init, Held, PauseAcked, CancelAcked, Actors
  <1>2. TypeOK /\ Held /\ [Next]_vars =>
           [(PauseAcked \/ CancelAcked) => \A d \in Drivers : ~Starts(d)]_vars
    <2> SUFFICES ASSUME TypeOK, Held, [Next]_vars, PauseAcked \/ CancelAcked,
                        NEW d \in Drivers, Starts(d)
                 PROVE  FALSE
      OBVIOUS
    <2>1. d = Executor /\ Guarded
      BY OnlyExecutor, HeldStep
    <2> QED BY <2>1 DEF Held, Guarded
  <1> QED
    BY <1>1, <1>2, HeldStep, TypeCorrect, PTL DEF Spec, InterruptionHolds

-----------------------------------------------------------------------------
(* What a resumed run does not repeat.                                      *)

\* What driver d goes by covers every recorded result, from the moment it has
\* been seeded, and the node it has entered is not among it.
Knows(d) ==
    /\ Live(d) /\ pc[d] # "seed" => results \subseteq drv[d].done
    /\ pc[d] = "enter" => drv[d].at \notin drv[d].done
    /\ pc[d] = "begin" => d = Executor
    /\ pc[d] \in {"idle", "seed"} => d # Executor

\* Nothing is recorded before execute() has built its coordinator.
Blank == pc[Executor] \in {"before", "begin"} => results = {}

Informed == Blank /\ \A d \in Drivers : Knows(d)

\* A step of one driver that records nothing and keeps what it goes by.
LEMMA KnowsOn ==
    ASSUME TypeOK, Informed, NEW d \in Drivers,
           \A e \in Drivers \ {d} : pc'[e] = pc[e] /\ drv'[e] = drv[e],
           results' = results, Blank', Knows(d)'
    PROVE  Informed'
  BY DEF Informed, Knows, Live

\* Every step keeps what the drivers go by complete, if they do not overlap.
LEMMA InformedStep ==
    ASSUME SerialResume
    PROVE  TypeOK /\ NoStaleDraft /\ Informed /\ [Next]_vars => Informed'
  <1> SUFFICES ASSUME TypeOK, NoStaleDraft, Informed, [Next]_vars PROVE Informed'
    OBVIOUS
  <1>0. /\ \A d \in Drivers : drv[d] \in DriverState /\ d \in Actors
        /\ \A d \in Drivers : Knows(d)
    BY DriverFacts DEF TypeOK, Informed
  <1>a. ASSUME NEW d \in Drivers, pc[d] \notin {"idle", "returned", "seed"},
               pc'[d] \notin {"idle", "seed", "enter", "begin"},
               pc'[d] = "before" => pc[d] = "resumeSignal" /\ d # Executor,
               \A e \in Drivers \ {d} : pc'[e] = pc[e] /\ drv'[e] = drv[e],
               results' = results, drv'[d].done = drv[d].done
        PROVE  Informed'
    <2>1. Knows(d)' /\ Blank'
      BY <1>0, <1>a, DriverFacts DEF Informed, Knows, Live, Blank
    <2> QED BY <1>a, <2>1, KnowsOn
  <1> USE DEF Goto, Fail, FailNode, Transition, progress, history
  <1>1. ASSUME NEW d \in Drivers, Launch(d) PROVE Informed'
    <2>1. CASE RunBeforeMiddleware(d)
      <3>1. /\ \A e \in Drivers \ {d} : pc'[e] = pc[e] /\ drv'[e] = drv[e]
            /\ results' = results /\ drv' = drv /\ pc[d] = "before"
            /\ pc'[d] = IF d = Executor THEN "begin" ELSE "draftStart"
        BY <1>0, <2>1 DEF TypeOK, RunBeforeMiddleware
      <3>2. Knows(d)' /\ Blank'
        BY <1>0, <3>1, DriverFacts DEF Informed, Knows, Live, Blank
      <3> QED BY <3>1, <3>2, KnowsOn
    <2>2. CASE BeginRun(d)
      <3>1. /\ \A e \in Drivers \ {d} : pc'[e] = pc[e] /\ drv'[e] = drv[e]
            /\ results' = results /\ pc[d] = "begin" /\ pc'[d] = "draftStart"
        BY <1>0, <2>2 DEF TypeOK, BeginRun
      <3>2. d = Executor /\ results = {}
        BY <1>0, <3>1 DEF Informed, Knows, Blank
      <3>3. Knows(d)' /\ Blank'
        BY <3>1, <3>2 DEF Knows, Live, Blank
      <3> QED BY <3>1, <3>3, KnowsOn
    <2>3. CASE FailSetup(d)
      <3>1. /\ \A e \in Drivers \ {d} : pc'[e] = pc[e] /\ drv'[e] = drv[e]
            /\ results' = results /\ drv' = drv
            /\ pc[d] \notin {"idle", "returned"} /\ pc[d] \in {"draftStart", "seed"}
            /\ pc'[d] \in {"markFailed", "returned"}
            /\ pc'[d] = "markFailed" => pc[d] = "draftStart"
        BY <1>0, <2>3 DEF TypeOK, FailSetup
      <3>2. Knows(d)' /\ Blank'
        BY <1>0, <3>1, DriverFacts DEF Informed, Knows, Live, Blank
      <3> QED BY <3>1, <3>2, KnowsOn
    <2>4. CASE RejectByMiddleware(d) \/ PersistStart(d)
      BY <1>0, <1>a, <2>4 DEF TypeOK, RejectByMiddleware, PersistStart, BuildRecord,
         SaveRecord, DriverState
    <2> QED BY <1>1, <2>1, <2>2, <2>3, <2>4 DEF Launch
  <1>2. ASSUME NEW d \in Drivers, Loop(d) PROVE Informed'
    <2>1. CASE EnterNode(d)
      <3>1. /\ \A e \in Drivers \ {d} : pc'[e] = pc[e] /\ drv'[e] = drv[e]
            /\ results' = results /\ pc[d] = "step" /\ pc'[d] = "enter"
            /\ drv'[d].done = drv[d].done /\ drv'[d].at = drv[d].at
            /\ drv[d].at \notin drv[d].done
        BY <1>0, <2>1 DEF TypeOK, EnterNode, DriverState
      <3>2. Knows(d)' /\ Blank'
        BY <1>0, <3>1, DriverFacts DEF Informed, Knows, Live, Blank
      <3> QED BY <3>1, <3>2, KnowsOn
    <2>2. CASE SkipCompleted(d)
      <3>1. /\ \A e \in Drivers \ {d} : pc'[e] = pc[e] /\ drv'[e] = drv[e]
            /\ results' = results /\ pc[d] = "step" /\ pc'[d] = "loop"
            /\ drv'[d].done = drv[d].done
        BY <1>0, <2>2 DEF TypeOK, SkipCompleted, DriverState
      <3> QED BY <1>a, <3>1
    <2>3. CASE \/ StartRun(d) \/ LoopHead(d) \/ ExpireBudget(d)
               \/ BreakAtMaxSteps(d) \/ TripBackstop(d) \/ CompleteRun(d)
      BY <1>0, <1>a, <2>3 DEF TypeOK, StartRun, LoopHead, Interrupted, OverBudget,
         ExpireBudget, BreakAtMaxSteps, TripBackstop, CompleteRun, DriverState
    <2> QED BY <1>2, <2>1, <2>2, <2>3 DEF Loop
  <1>3. ASSUME NEW d \in Drivers, RunNode(d) \/ HandlerReturns(d) PROVE Informed'
    <2>1. CASE KeepResult(d)
      <3>1. /\ \A e \in Drivers \ {d} : pc'[e] = pc[e] /\ drv'[e] = drv[e]
            /\ results' = results \cup {drv[d].at}
            /\ pc[d] = "afterHooks" /\ pc'[d] = "succeeded"
            /\ drv'[d].done = drv[d].done \cup {drv[d].at}
        BY <1>0, <2>1 DEF TypeOK, KeepResult, DriverState
      <3>2. \A e \in Drivers \ {d} : ~Live(e)
        BY <3>1 DEF NoStaleDraft, Live
      <3>3. Knows(d)'
        BY <1>0, <3>1 DEF Knows, Live
      <3>4. \A e \in Drivers \ {d} : Knows(e)'
        BY <1>0, <3>1, <3>2 DEF Knows, Live
      <3>5. Blank'
        BY <3>1, <3>2, DriverFacts DEF Blank, Live
      <3> QED BY <3>3, <3>4, <3>5 DEF Informed
    <2>2. CASE VetoNode(d) \/ AbandonNode(d) \/ StartHandler(d) \/ HandlerStopped(d)
      BY <1>0, <1>a, <2>2 DEF TypeOK, VetoNode, AbandonNode, StartHandler,
         HandlerStopped, DriverState
    <2>3. CASE NodeTimesOut(d) \/ MarkNode(d) \/ RecordSuccess(d)
      BY <1>0, <1>a, <2>3 DEF TypeOK, NodeTimesOut, MarkNode, RecordSuccess, DriverState
    <2>4. CASE HandlerReturns(d)
      BY <1>0, <1>a, <2>4 DEF TypeOK, HandlerReturns, HandlerSucceeds, HandlerFails,
         HandlerParks, DriverState
    <2> QED BY <1>3, <2>1, <2>2, <2>3, <2>4 DEF RunNode
  <1>4. ASSUME NEW d \in Drivers, RouteFailure(d) PROVE Informed'
    BY <1>0, <1>a, <1>4 DEF TypeOK, RouteFailure, RouteNowhere, RouteToSuspend,
       RouteToBranch, RouteDangling, ParkCursor, ParkSignal, ParkCheck, ClearCheck,
       ClearPause, Interrupt, Recheck, Interrupted, OverBudget, DriverState
  <1>5. ASSUME NEW d \in Drivers, Finalize(d) PROVE Informed'
    BY <1>0, <1>a, <1>5 DEF TypeOK, Signal, Finalize, PersistFinal, ReadStatus,
       ReadSignal, Settle, BuildRecord, SaveRecord, ReturnOk, ReturnErr,
       SpoilByMiddleware, MarkFailed, FlipRecord, DriverState
  <1>6. ASSUME NEW d \in Drivers, EntryTimeout(d) \/ Abort(d) PROVE Informed'
    <2>1. /\ \A e \in Drivers \ {d} : pc'[e] = pc[e] /\ drv'[e] = drv[e]
          /\ results' = results /\ drv'[d].done = drv[d].done
          /\ pc[d] \notin {"idle", "returned"}
          /\ \/ pc'[d] = "returned"
             \/ pc'[d] = "markFailed" /\ d = Executor
      BY <1>0, <1>6 DEF TypeOK, EntryTimeout, Abort, Dropped, AwaitPoint, DriverPc,
         DriverState
    <2>2. Knows(d)' /\ Blank'
      BY <1>0, <2>1, DriverFacts DEF Informed, Knows, Live, Blank
    <2> QED BY <2>1, <2>2, KnowsOn
  <1>7. ASSUME NEW r \in Resumers, Resume(r) PROVE Informed'
    <2>0. r \in Drivers /\ r # Executor
      BY DriverFacts, ActorAssumption
    <2>1. CASE CheckResumable(r)
      <3>1. /\ \A e \in Drivers \ {r} : pc'[e] = pc[e] /\ drv'[e] = drv[e]
            /\ results' = results /\ pc'[r] \in {"returned", "seed"}
        BY <1>0, <2>0, <2>1 DEF TypeOK, CheckResumable
      <3>2. Knows(r)' /\ Blank'
        BY <2>0, <3>1, DriverFacts DEF Informed, Knows, Live, Blank
      <3> QED BY <2>0, <3>1, <3>2, KnowsOn
    <2>2. CASE SeedCoordinator(r)
      <3>1. /\ \A e \in Drivers \ {r} : pc'[e] = pc[e] /\ drv'[e] = drv[e]
            /\ results' = results /\ pc'[r] = "resume"
            /\ results \subseteq drv'[r].done
        BY <1>0, <2>0, <2>2 DEF TypeOK, SeedCoordinator, DriverState
      <3>2. Knows(r)' /\ Blank'
        BY <2>0, <3>1, DriverFacts DEF Informed, Knows, Live, Blank
      <3> QED BY <2>0, <3>1, <3>2, KnowsOn
    <2>3. CASE ResumeState(r) \/ ResumeSignal(r)
      BY <1>0, <1>a, <2>0, <2>3 DEF TypeOK, ResumeState, ResumeSignal
    <2> QED BY <1>7, <2>1, <2>2, <2>3 DEF Resume
  <1>8. ASSUME NEW a \in Pausers \cup Cancellers, Pauser(a) \/ Canceller(a)
        PROVE  Informed'
    <2>1. a \notin Drivers /\ a \in Actors
      BY DriverFacts
    <2>2. UNCHANGED <<results, drv>> /\ \A d \in Drivers : pc'[d] = pc[d]
      BY <1>0, <1>8, <2>1 DEF TypeOK, Pauser, Canceller, PauseState, PauseSignal,
         TimerWakes, StopRead, StopState, StopSignal
    <2> QED BY <2>2, DriverFacts DEF Informed, Knows, Live, Blank
  <1>9. CASE UNCHANGED vars
    BY <1>9 DEF vars, Informed, Knows, Live, Blank
  <1> QED
    BY <1>1, <1>2, <1>3, <1>4, <1>5, <1>6, <1>7, <1>8, <1>9 DEF Next, Engine

\* A node whose result is recorded is not executed again, for every graph,
\* every fault and any number of pauses and resumes, as long as resume() is
\* called when no other driver is live.
THEOREM ResultsNeverRerun ==
    ASSUME SerialResume
    PROVE  Spec => ResultsNotRerun
  <1>1. Init => Informed
    BY DriverFacts, ActorAssumption DEF Init, Informed, Blank, Knows, Live, FreshDriver
  <1>2. Informed /\ [Next]_vars =>
           [\A d \in Drivers : Starts(d) => drv[d].at \notin results]_vars
    BY DEF Informed, Knows, Live, Starts
  <1>3. OutcomeInv => NoStaleDraft
    BY DEF OutcomeInv
  <1> QED
    BY <1>1, <1>2, <1>3, InformedStep, TypeCorrect, OutcomeDecidedOnce, PTL
       DEF Spec, ResultsNotRerun

==============================================================================
