-------------------------- MODULE WorkflowExecution --------------------------
(***************************************************************************)
(* One workflow execution as the API drives it: a shared entity (status    *)
(* machine, interruption signal, progress), the execution record in the    *)
(* store, and the tasks that touch them concurrently:                      *)
(*                                                                         *)
(*   Executor    the call of execute()/stream(): runs the coordinator on a *)
(*               fresh entity and finalizes it on an error;                *)
(*   Resumers    calls of resume(): each builds a second coordinator on    *)
(*               the same entity and drives it;                            *)
(*   Pausers     calls of pause(), each with its detached expiry timer;    *)
(*   Cancellers  calls of cancel().                                        *)
(*                                                                         *)
(* Every call is made at most once (one actor is one call).  A step of the *)
(* model is what a task does between two points at which another task can  *)
(* run and see the difference: one acquisition of the entity's state lock, *)
(* one read or write of the watch channel, one store operation.            *)
(*                                                                         *)
(* The graph has no LOOP, FORK, SYNC or SUBGRAPH nodes here, the run has   *)
(* no parent interruption and no internal signal bus (the API attaches     *)
(* none).  Variables, messages, hooks, events and checkpoints carry no     *)
(* control in these paths and are left out.                                *)
(***************************************************************************)
EXTENDS ExecutionStatus, ErrorRoutes, FiniteSets

CONSTANTS
    Start,       \* the start node
    Succ,        \* the next nodes the outgoing edges of a node may choose
    NavLimit,    \* node count x max_navigation_multiplier; 0 is unlimited
    MaxSteps,    \* options.max_steps, or NoLimit
    NoLimit,
    NoRecord,    \* the store holds no record of the execution
    Executor, Resumers, Pausers, Cancellers,
    HandlerCategories, \* the categories with which handlers fail
    SerialResume, \* resume() is only called when no other driver is live
    Faults       \* what the environment may do to a run, see FaultKind

(***************************************************************************)
(*   setup        the coordinator cannot be built, or a resume is refused  *)
(*   middleware   a plugin lifecycle middleware returns an error           *)
(*   entryTimeout the API entry timeout drops the driver's future          *)
(*   abort        the caller disconnects or the context shuts down         *)
(*   store        the record store fails (the failure is only logged)      *)
(*   nodeTimeout  a node exceeds its own timeout                           *)
(*   budget       the run exceeds max_execution_time                       *)
(*   compression  a handler fails and asks for a pause                     *)
(*   handler      a handler returns an error, panics or is vetoed          *)
(*   contention   try_read/try_write finds the state lock taken            *)
(*   pauseExpiry  max_pause_duration is configured                         *)
(***************************************************************************)
FaultKind == {"setup", "middleware", "entryTimeout", "abort", "store",
              "nodeTimeout", "budget", "compression", "handler", "contention", "pauseExpiry"}

Drivers == {Executor} \cup Resumers
Actors  == Drivers \cup Pausers \cup Cancellers

ASSUME GraphAssumption ==
    /\ Start \in Nodes
    /\ Succ \in [Nodes -> SUBSET (Nodes \cup {NoNode})]
    /\ \A n \in Nodes : Succ[n] # {}
    /\ IsFiniteSet(Nodes)
    /\ NavLimit \in Nat
    /\ HandlerCategories \subseteq Category
    /\ MaxSteps \in Nat \cup {NoLimit}

ASSUME ActorAssumption ==
    /\ Executor \notin Resumers \cup Pausers \cup Cancellers
    /\ Resumers \cap (Pausers \cup Cancellers) = {}
    /\ Pausers \cap Cancellers = {}
    /\ SerialResume \in BOOLEAN
    /\ Faults \subseteq FaultKind
    /\ NoRecord \notin Status

VARIABLES
    status,     \* WorkflowExecutionState.status
    signal,     \* the value in the interruption watch channel
    cursor,     \* state.current_node_id
    completed,  \* the members of state.completed_nodes ...
    marks,      \* ... and its length: a node may be pushed more than once
    results,    \* the keys of entity.node_results
    suspend,    \* the target in state.error_suspend, or NoNode
    output,     \* entity.output is set
    record,     \* the status in the stored record, or NoRecord
    pc,         \* where each actor is
    drv,        \* the local state of each driver (its coordinator)
    winners,    \* history: drivers whose complete() succeeded
    finished,   \* history: nodes whose handler returned Ok
    pausedBy    \* history: the pauser of the current pause, or NoRecord

progress == <<cursor, completed, marks, results, suspend>>
history  == <<winners, finished, pausedBy>>
vars == <<status, signal, progress, output, record, pc, drv, history>>

Signal == {"Active", "Pause", "Stop"}

\* The coordinator's own fields: current node, completed_nodes (members and
\* length), visits counted by the backstop, category of the last failure,
\* the record last built, whether the run succeeded, and (history) whether
\* its future was dropped between the two writes of a suspend.
DriverState ==
    [at : Nodes \cup {NoNode}, done : SUBSET Nodes, steps : Nat, visits : Nat,
     cause : Category, draft : Status, ok : BOOLEAN, torn : BOOLEAN]

DriverPc ==
    {"idle", "seed", "resume", "resumeSignal", "before", "begin", "draftStart",
     "saveStart", "start", "loop", "timedOut", "step", "enter", "handler", "mark",
     "afterHooks", "succeeded", "failed", "parkCursor", "parkSignal", "parkCheck",
     "clearCheck", "clearPause", "interrupt", "recheck", "finish", "exit",
     "settle", "settleCancel", "settlePause", "settleFail", "draftFinal",
     "saveFinal", "after", "markFailed", "flip", "returned"}

ControlPc ==
    {"idle", "pauseSignal", "timer", "stopRead", "stopState", "stopSignal",
     "refused", "expired", "returned"}

\* Where a driver has a node in hand.
AtNode == {"step", "enter", "handler", "mark", "afterHooks", "succeeded", "failed"}

\* The variables hold what their declarations say, and a driver that works
\* on a node has one: the loop never carries "no node" past its head.
TypeOK ==
    /\ status \in Status
    /\ signal \in Signal
    /\ cursor \in Nodes \cup {NoNode}
    /\ completed \in SUBSET Nodes
    /\ marks \in Nat
    /\ results \in SUBSET Nodes
    /\ suspend \in Nodes \cup {NoNode}
    /\ output \in BOOLEAN
    /\ record \in Status \cup {NoRecord}
    /\ pc \in [Actors -> DriverPc \cup ControlPc]
    /\ drv \in [Drivers -> DriverState]
    /\ \A d \in Drivers : pc[d] \in AtNode => drv[d].at \in Nodes
    /\ winners \in SUBSET Drivers
    /\ finished \in SUBSET Nodes
    /\ pausedBy \in Pausers \cup {NoRecord}

\* WorkflowCoordinator::new starts at the start node with nothing completed.
FreshDriver ==
    [at |-> Start, done |-> {}, steps |-> 0, visits |-> 0,
     cause |-> "BusinessFailure", draft |-> "Created", ok |-> FALSE, torn |-> FALSE]

\* spawn_entity has registered a fresh entity; its driver is about to run.
Init ==
    /\ status = "Created"
    /\ signal = "Active"
    /\ cursor = NoNode
    /\ completed = {}
    /\ marks = 0
    /\ results = {}
    /\ suspend = NoNode
    /\ output = FALSE
    /\ record = NoRecord
    /\ pc = [a \in Actors |-> IF a = Executor THEN "before" ELSE "idle"]
    /\ drv = [d \in Drivers |-> FreshDriver]
    /\ winners = {}
    /\ finished = {}
    /\ pausedBy = NoRecord

-----------------------------------------------------------------------------
(* Moves of a program counter, and transitions of the shared status.        *)

Goto(a, from, to) == pc[a] = from /\ pc' = [pc EXCEPT ![a] = to]

\* A step of the coordinator that ends the run with an error.
Fail(d, from) ==
    Goto(d, from, "exit") /\ drv' = [drv EXCEPT ![d].ok = FALSE]

\* state.transition(t)?: on to one label when legal, to another when not.
Transition(a, from, t, legal, illegal) ==
    /\ Goto(a, from, IF TransitionAllowed(status, t) THEN legal ELSE illegal)
    /\ status' = AfterTransition(status, t)

\* A legal transition to Running ends the pause that was in force.
EndPause == pausedBy' = IF status' = "Running" THEN NoRecord ELSE pausedBy

-----------------------------------------------------------------------------
(* run_workflow and resume up to the coordinator's execute().               *)

\* run_lifecycle_middleware(BeforeWorkflowExecution)?
RunBeforeMiddleware(d) ==
    /\ Goto(d, "before", IF d = Executor THEN "begin" ELSE "draftStart")
    /\ UNCHANGED <<status, signal, progress, output, record, drv, history>>

\* Its error leaves run_workflow for finalize_failed, and resume at once.
RejectByMiddleware(d) ==
    /\ "middleware" \in Faults
    /\ Goto(d, "before", IF d = Executor THEN "markFailed" ELSE "returned")
    /\ UNCHANGED <<status, signal, progress, output, record, drv, history>>

\* with_entity_arc copies state.completed_nodes: nothing when try_read finds
\* the lock taken.
SeenCompleted == {completed} \cup IF "contention" \in Faults THEN {{}} ELSE {}
SeenSteps(seen) == IF seen = {} THEN 0 ELSE marks

\* `let _ = entity.state.write().await.start()` in run_workflow, and the new
\* coordinator on the entity.
BeginRun(d) ==
    /\ Transition(d, "begin", "Running", "draftStart", "draftStart")
    /\ EndPause
    /\ \E seen \in SeenCompleted :
          drv' = [drv EXCEPT ![d].done = seen, ![d].steps = SeenSteps(seen)]
    /\ UNCHANGED <<signal, progress, output, record, winners, finished>>

\* WorkflowCoordinator::new(..)? after the start, or the definition, input
\* and graph checks of resume().
FailSetup(d) ==
    /\ "setup" \in Faults
    /\ IF d = Executor THEN Goto(d, "draftStart", "markFailed")
                       ELSE Goto(d, "seed", "returned")
    /\ UNCHANGED <<status, signal, progress, output, record, drv, history>>

\* resume() refuses a terminal execution; a completed one answers with the
\* output kept on the entity.  Any other status, Running too, is driven.
CheckResumable(r) ==
    /\ SerialResume => \A d \in Drivers \ {r} : pc[d] \in {"idle", "returned"}
    /\ Goto(r, "idle", IF status \in Terminal THEN "returned" ELSE "seed")
    /\ drv' = [drv EXCEPT ![r].ok = status = "Completed" /\ output]
    /\ UNCHANGED <<status, signal, progress, output, record, history>>

\* A resumed coordinator that forgets what the entity has finished.
SeedCoordinator_Forgets(r) ==
    /\ Goto(r, "seed", "resume")
    /\ drv' = [drv EXCEPT ![r].at = IF cursor = NoNode THEN Start ELSE cursor]
    /\ UNCHANGED <<status, signal, progress, output, record, history>>

\* with_entity_arc, then resume_from, which adds the nodes that have a result
\* and moves to the entity's current node unless that one is completed.
SeedCoordinator(r) ==
    \E seen \in SeenCompleted :
        LET done  == seen \cup results
            steps == SeenSteps(seen) + Cardinality(results \ seen)
            at    == IF cursor # NoNode /\ cursor \notin done
                     THEN cursor ELSE Start
        IN  /\ Goto(r, "seed", "resume")
            /\ drv' = [drv EXCEPT ![r].at = at, ![r].done = done,
                                  ![r].steps = steps]
            /\ UNCHANGED <<status, signal, progress, output, record, history>>

\* entity.resume(): first the status ...
ResumeState(r) ==
    /\ Transition(r, "resume", "Running", "resumeSignal", "returned")
    /\ EndPause
    /\ UNCHANGED <<signal, progress, output, record, drv, winners, finished>>

\* ... then the signal, whatever it holds.
ResumeSignal(r) ==
    /\ Goto(r, "resumeSignal", "before")
    /\ signal' = "Active"
    /\ UNCHANGED <<status, progress, output, record, drv, history>>

-----------------------------------------------------------------------------
(* Persisting the record: built from the entity, saved in a later step.     *)

\* build_workflow_execution
BuildRecord(d, from, to) ==
    /\ Goto(d, from, to)
    /\ drv' = [drv EXCEPT ![d].draft = status]
    /\ UNCHANGED <<status, signal, progress, output, record, history>>

\* A save that never writes the final status.
SaveRecord_Dropped(d, from, to) ==
    /\ Goto(d, from, to)
    /\ record' = IF from = "saveFinal" THEN record ELSE drv[d].draft
    /\ UNCHANGED <<status, signal, progress, output, drv, history>>

\* ExecutionStateManager::persist_workflow: a store error is only logged.
SaveRecord(d, from, to) ==
    /\ Goto(d, from, to)
    /\ \/ record' = drv[d].draft
       \/ "store" \in Faults /\ record' = record
    /\ UNCHANGED <<status, signal, progress, output, drv, history>>

\* persist_start
PersistStart(d) ==
    \/ BuildRecord(d, "draftStart", "saveStart")
    \/ SaveRecord(d, "saveStart", "start")

-----------------------------------------------------------------------------
(* execute_inner: the coordinator's loop.                                   *)

\* entity.state.write().await.start()?
StartRun(d) ==
    /\ Transition(d, "start", "Running", "loop", "exit")
    /\ EndPause
    /\ UNCHANGED <<signal, progress, output, record, drv, winners, finished>>

\* check_interruption_and_timeout as a pair of moves: an interruption ends
\* the run, otherwise the wall-clock budget may have run out.
Interrupted(d, from) == signal # "Active" /\ Fail(d, from)
OverBudget(d, from)  ==
    /\ signal = "Active"
    /\ "budget" \in Faults
    /\ Goto(d, from, "timedOut")
    /\ UNCHANGED drv

\* A loop that does not notice the end of the graph.
LoopHead_Endless(d) ==
    /\ \/ Interrupted(d, "loop")
       \/ OverBudget(d, "loop")
       \/ signal = "Active" /\ Goto(d, "loop", "step") /\ UNCHANGED drv
    /\ UNCHANGED <<status, signal, progress, output, record, history>>

\* The head of the loop: no node left, or the boundary check.
LoopHead(d) ==
    /\ \/ drv[d].at = NoNode /\ Goto(d, "loop", "finish") /\ UNCHANGED drv
       \/ drv[d].at # NoNode /\ Interrupted(d, "loop")
       \/ drv[d].at # NoNode /\ OverBudget(d, "loop")
       \/ /\ drv[d].at # NoNode
          /\ signal = "Active"
          /\ Goto(d, "loop", "step")
          /\ UNCHANGED drv
    /\ UNCHANGED <<status, signal, progress, output, record, history>>

\* state.timeout(..)?
ExpireBudget(d) ==
    /\ Transition(d, "timedOut", "Timeout", "exit", "exit")
    /\ drv' = [drv EXCEPT ![d].ok = FALSE]
    /\ UNCHANGED <<signal, progress, output, record, history>>

OutOfSteps(d) == MaxSteps # NoLimit /\ drv[d].steps >= MaxSteps

\* check_navigation_backstop outside loops
OverNavLimit(d) == NavLimit > 0 /\ drv[d].visits + 1 > NavLimit

\* max_steps reached: the loop breaks and the run completes.
BreakAtMaxSteps(d) ==
    /\ OutOfSteps(d)
    /\ Goto(d, "step", "finish")
    /\ UNCHANGED <<status, signal, progress, output, record, drv, history>>

TripBackstop(d) ==
    /\ ~OutOfSteps(d) /\ OverNavLimit(d)
    /\ Fail(d, "step")
    /\ UNCHANGED <<status, signal, progress, output, record, history>>

\* skip_completed_node outside loops: navigate along the outgoing edges.
SkipCompleted(d) ==
    /\ ~OutOfSteps(d) /\ ~OverNavLimit(d)
    /\ drv[d].at \in drv[d].done
    /\ Goto(d, "step", "loop")
    /\ \E n \in Succ[drv[d].at] :
          drv' = [drv EXCEPT ![d].at = n, ![d].visits = @ + 1]
    /\ UNCHANGED <<status, signal, progress, output, record, history>>

\* A visit that the backstop does not count.
EnterNode_Uncounted(d) ==
    /\ ~OutOfSteps(d) /\ ~OverNavLimit(d)
    /\ drv[d].at \notin drv[d].done
    /\ Goto(d, "step", "enter")
    /\ cursor' = drv[d].at
    /\ UNCHANGED <<status, signal, completed, marks, results, suspend,
                   output, record, drv, history>>

\* set_current_node, then the node is handed to the NodeCoordinator.
EnterNode(d) ==
    /\ ~OutOfSteps(d) /\ ~OverNavLimit(d)
    /\ drv[d].at \notin drv[d].done
    /\ Goto(d, "step", "enter")
    /\ cursor' = drv[d].at
    /\ drv' = [drv EXCEPT ![d].visits = @ + 1]
    /\ UNCHANGED <<status, signal, completed, marks, results, suspend,
                   output, record, history>>

\* complete()?
CompleteRun(d) ==
    /\ Transition(d, "finish", "Completed", "exit", "exit")
    /\ LET won == TransitionAllowed(status, "Completed")
       IN  /\ drv' = [drv EXCEPT ![d].ok = won]
           /\ winners' = IF won THEN winners \cup {d} ELSE winners
    /\ UNCHANGED <<signal, progress, output, record, finished, pausedBy>>

-----------------------------------------------------------------------------
(* NodeCoordinator::execute_node and execute_with_interruption_handling.    *)

\* The node fails with a category and is about to be routed.
FailNode(d, from, c) ==
    Goto(d, from, "failed") /\ drv' = [drv EXCEPT ![d].cause = c]

\* A BEFORE_EXECUTE veto: the handler never runs.
VetoNode(d) ==
    /\ "handler" \in Faults
    /\ FailNode(d, "enter", "BusinessFailure")
    /\ UNCHANGED <<status, signal, progress, output, record, history>>

\* The node's configuration or context cannot be built: the error is not
\* routed, it ends the run.
AbandonNode(d) ==
    /\ "handler" \in Faults
    /\ Fail(d, "enter")
    /\ UNCHANGED <<status, signal, progress, output, record, history>>

\* A node that starts without looking at the signal again.
StartHandler_Unchecked(d) ==
    /\ Goto(d, "enter", "handler")
    /\ UNCHANGED <<status, signal, progress, output, record, drv, history>>

\* The check before the handler.
StartHandler(d) ==
    /\ \/ signal = "Active" /\ Goto(d, "enter", "handler") /\ UNCHANGED drv
       \/ signal # "Active" /\ FailNode(d, "enter", "CancelledInterrupted")
    /\ UNCHANGED <<status, signal, progress, output, record, history>>

\* The handler returns Ok; the check after it turns the result into an
\* interruption when a Pause or a Stop has arrived meanwhile.
HandlerSucceeds(d) ==
    /\ pc[d] = "handler"
    /\ finished' = finished \cup {drv[d].at}
    /\ \/ signal = "Active" /\ Goto(d, "handler", "mark") /\ UNCHANGED drv
       \/ signal # "Active" /\ FailNode(d, "handler", "CancelledInterrupted")
    /\ UNCHANGED <<status, signal, progress, output, record, winners, pausedBy>>

\* mark_node_completed, once the state lock has been acquired.
MarkNode(d) ==
    /\ Goto(d, "mark", "afterHooks")
    /\ completed' = completed \cup {drv[d].at}
    /\ marks' = marks + 1
    /\ UNCHANGED <<status, signal, cursor, results, suspend, output, record, drv,
                   history>>

\* The handler returns an error or panics: no check after it.
HandlerFails(d) ==
    /\ "handler" \in Faults
    /\ \E c \in HandlerCategories : FailNode(d, "handler", c)
    /\ UNCHANGED <<status, signal, progress, output, record, history>>

\* pause_for_compression_failure: the handler signals a pause and fails.
HandlerParks(d) ==
    /\ "compression" \in Faults
    /\ FailNode(d, "handler", "CompressionFailure")
    /\ signal' = "Pause"
    /\ UNCHANGED <<status, progress, output, record, history>>

\* A handler that runs on after a Stop.
HandlerStopped_Ignored(d) == FALSE /\ UNCHANGED vars

\* The select! races the handler against a Stop in the channel.
HandlerStopped(d) ==
    /\ signal = "Stop"
    /\ FailNode(d, "handler", "CancelledInterrupted")
    /\ UNCHANGED <<status, signal, progress, output, record, history>>

\* execute_node_once: the node timeout covers the hooks as well.
NodeTimesOut(d) ==
    /\ "nodeTimeout" \in Faults
    /\ \E from \in {"enter", "handler", "mark", "afterHooks"} :
          FailNode(d, from, "TransportTimeout")
    /\ UNCHANGED <<status, signal, progress, output, record, history>>

\* The AFTER_EXECUTE hooks are done and record_node_success begins: the
\* coordinator's list and the result on the entity, with no await before them.
\* (record_loop_iteration_completion fails on a damaged loop stack only, and
\* these graphs have no loop.)
KeepResult(d) ==
    LET n == drv[d].at
    IN  /\ Goto(d, "afterHooks", "succeeded")
        /\ results' = results \cup {n}
        /\ drv' = [drv EXCEPT ![d].done = @ \cup {n}, ![d].steps = @ + 1]
        /\ UNCHANGED <<status, signal, cursor, completed, marks, suspend, output,
                       record, history>>

\* The rest of record_node_success, which marks the node a second time, and
\* determine_next_node, which has no error to return.
RecordSuccess(d) ==
    LET n == drv[d].at
    IN  /\ Goto(d, "succeeded", "loop")
        /\ completed' = completed \cup {n}
        /\ marks' = marks + 1
        /\ \E next \in Succ[n] : drv' = [drv EXCEPT ![d].at = next]
        /\ UNCHANGED <<status, signal, cursor, results, suspend, output, record,
                       history>>

-----------------------------------------------------------------------------
(* route_node_failure and the branches it takes.                            *)

\* A pending Stop, or no route: the failure interrupts the run.
RouteNowhere(d) ==
    /\ Goto(d, "failed", "interrupt")
    /\ signal = "Stop" \/ Resolve(drv[d].at, drv[d].cause) = NoRoute
    /\ UNCHANGED <<status, signal, progress, output, record, drv, history>>

\* A route that suspends: set_error_suspend first.  (drv.at stands for the
\* argument target_node_id; current_node_id itself follows in ParkCheck, and
\* nobody reads it before.)
RouteToSuspend(d) ==
    /\ pc[d] = "failed" /\ signal # "Stop"
    /\ LET route == Resolve(drv[d].at, drv[d].cause)
       IN  /\ route # NoRoute
           /\ route.target \in Nodes /\ route.suspend
           /\ Goto(d, "failed", "parkCursor")
           /\ suspend' = route.target
           /\ drv' = [drv EXCEPT ![d].at = route.target]
    /\ UNCHANGED <<status, signal, cursor, completed, marks, results, output,
                   record, history>>

\* A suspend that leaves the cursor at the failed node.
ParkCursor_Kept(d) ==
    /\ Goto(d, "parkCursor", "parkSignal")
    /\ UNCHANGED <<status, signal, progress, output, record, drv, history>>

\* set_current_node, under the lock acquired anew.
ParkCursor(d) ==
    /\ Goto(d, "parkCursor", "parkSignal")
    /\ cursor' = drv[d].at
    /\ UNCHANGED <<status, signal, completed, marks, results, suspend, output,
                   record, drv, history>>

\* A target that is not in the graph is a configuration error.
RouteDangling(d) ==
    /\ pc[d] = "failed" /\ signal # "Stop"
    /\ LET route == Resolve(drv[d].at, drv[d].cause)
       IN  route # NoRoute /\ route.target \notin Nodes
    /\ Fail(d, "failed")
    /\ UNCHANGED <<status, signal, progress, output, record, history>>

\* A route that continues on its target.
RouteToBranch(d) ==
    /\ pc[d] = "failed" /\ signal # "Stop"
    /\ LET route == Resolve(drv[d].at, drv[d].cause)
       IN  /\ route # NoRoute
           /\ route.target \in Nodes /\ ~route.suspend
           /\ Goto(d, "failed", "clearCheck")
           /\ drv' = [drv EXCEPT ![d].at = route.target]
    /\ UNCHANGED <<status, signal, progress, output, record, history>>

\* `let _ = entity.interruption().pause()` of suspend_error_branch
ParkSignal(d) ==
    /\ Goto(d, "parkSignal", "parkCheck")
    /\ signal' = "Pause"
    /\ UNCHANGED <<status, progress, output, record, drv, history>>

\* The check that ends the run as paused; when the pause has been cleared
\* in between, the record is consumed and the run takes the branch.
ParkCheck(d) ==
    /\ \/ Interrupted(d, "parkCheck") /\ UNCHANGED suspend
       \/ OverBudget(d, "parkCheck") /\ UNCHANGED suspend
       \/ /\ signal = "Active"
          /\ Goto(d, "parkCheck", "loop")
          /\ suspend' = NoNode
          /\ UNCHANGED drv
    /\ UNCHANGED <<status, signal, cursor, completed, marks, results, output,
                   record, history>>

\* A continue route takes precedence over a pause: it is looked for ...
ClearCheck(d) ==
    /\ Goto(d, "clearCheck", IF signal = "Pause" THEN "clearPause" ELSE "loop")
    /\ UNCHANGED <<status, signal, progress, output, record, drv, history>>

\* ... and cleared by a separate, unconditional resume().
ClearPause(d) ==
    /\ Goto(d, "clearPause", "loop")
    /\ signal' = "Active"
    /\ UNCHANGED <<status, progress, output, record, drv, history>>

\* The Interrupt arm of execute_inner: a pause is checked once more.
Interrupt(d) ==
    /\ \/ signal = "Pause" /\ Goto(d, "interrupt", "recheck") /\ UNCHANGED drv
       \/ signal # "Pause" /\ Fail(d, "interrupt")
    /\ UNCHANGED <<status, signal, progress, output, record, history>>

Recheck(d) ==
    /\ \/ Fail(d, "recheck")
       \/ OverBudget(d, "recheck")
    /\ UNCHANGED <<status, signal, progress, output, record, history>>

-----------------------------------------------------------------------------
(* persist_final, then the tail of run_workflow, execute and resume.        *)

\* The statuses persist_final leaves alone (Timeout is not among them).
Settled == {"Completed", "Failed", "Cancelled", "Stopped", "Paused"}

ReadStatus(d) ==
    /\ Goto(d, "exit", IF status \in Settled THEN "draftFinal" ELSE "settle")
    /\ UNCHANGED <<status, signal, progress, output, record, drv, history>>

\* An unsettled run settles by its signal ...
ReadSignal(d) ==
    /\ Goto(d, "settle", CASE signal = "Stop"   -> "settleCancel"
                           [] signal = "Pause"  -> "settlePause"
                           [] signal = "Active" -> "settleFail")
    /\ UNCHANGED <<status, signal, progress, output, record, drv, history>>

\* ... and an illegal transition is dropped.
Settle(d) ==
    /\ \/ Transition(d, "settleCancel", "Cancelled", "draftFinal", "draftFinal")
       \/ Transition(d, "settlePause", "Paused", "draftFinal", "draftFinal")
       \/ Transition(d, "settleFail", "Failed", "draftFinal", "draftFinal")
    /\ UNCHANGED <<signal, progress, output, record, drv, history>>

PersistFinal(d) ==
    \/ BuildRecord(d, "draftFinal", "saveFinal")
    \/ SaveRecord(d, "saveFinal", "after")

\* AfterWorkflowExecution middleware passes.  Only run_workflow keeps the
\* output on the entity; on an error resume() skips the middleware.
ReturnOk(d) ==
    /\ drv[d].ok
    /\ Goto(d, "after", "returned")
    /\ output' = (output \/ d = Executor)
    /\ UNCHANGED <<status, signal, progress, record, drv, history>>

ReturnErr(d) ==
    /\ ~drv[d].ok
    /\ Goto(d, "after", "markFailed")
    /\ UNCHANGED <<status, signal, progress, output, record, drv, history>>

\* The middleware's error replaces the outcome: run_workflow's caller
\* finalizes, resume() just returns it.
SpoilByMiddleware(d) ==
    /\ "middleware" \in Faults
    /\ d = Executor \/ drv[d].ok
    /\ Goto(d, "after", IF d = Executor THEN "markFailed" ELSE "returned")
    /\ drv' = [drv EXCEPT ![d].ok = FALSE]
    /\ UNCHANGED <<status, signal, progress, output, record, history>>

\* mark_failed: try_write, so a taken lock skips it.  Only execute/stream
\* go on to flip the stored record.
MarkFailed(d) ==
    /\ Goto(d, "markFailed", IF d = Executor THEN "flip" ELSE "returned")
    /\ \/ status' = AfterTransition(status, "Failed")
       \/ "contention" \in Faults /\ status' = status
    /\ UNCHANGED <<signal, progress, output, record, drv, history>>

\* update_workflow_status(Failed): no-op without a record.
FlipRecord(d) ==
    /\ Goto(d, "flip", "returned")
    /\ \/ record' = IF record = NoRecord THEN NoRecord ELSE "Failed"
       \/ "store" \in Faults /\ record' = record
    /\ UNCHANGED <<status, signal, progress, output, drv, history>>

-----------------------------------------------------------------------------
(* pause() with its expiry timer, cancel(), and entity.stop() under both.   *)

PauseState(p) ==
    /\ Transition(p, "idle", "Paused", "pauseSignal", "refused")
    /\ pausedBy' = IF TransitionAllowed(status, "Paused") THEN p ELSE pausedBy
    /\ UNCHANGED <<signal, progress, output, record, drv, winners, finished>>

PauseSignal(p) ==
    /\ Goto(p, "pauseSignal", IF "pauseExpiry" \in Faults THEN "timer" ELSE "returned")
    /\ signal' = "Pause"
    /\ UNCHANGED <<status, progress, output, record, drv, history>>

\* The timer wakes up and looks at the status.
TimerWakes(p) ==
    /\ Goto(p, "timer", IF status = "Paused" THEN "stopRead" ELSE "expired")
    /\ UNCHANGED <<status, signal, progress, output, record, drv, history>>

\* stop() on a terminal execution is a successful no-op.
StopRead(a, from) ==
    /\ Goto(a, from, IF status \in Terminal THEN "expired" ELSE "stopState")
    /\ UNCHANGED <<status, signal, progress, output, record, drv, history>>

StopState(a) ==
    /\ Transition(a, "stopState", "Cancelled", "stopSignal", "refused")
    /\ UNCHANGED <<signal, progress, output, record, drv, history>>

StopSignal(a) ==
    /\ Goto(a, "stopSignal", "returned")
    /\ signal' = "Stop"
    /\ UNCHANGED <<status, progress, output, record, drv, history>>

Pauser(p) ==
    \/ PauseState(p) \/ PauseSignal(p) \/ TimerWakes(p)
    \/ StopRead(p, "stopRead") \/ StopState(p) \/ StopSignal(p)

Canceller(c) == StopRead(c, "idle") \/ StopState(c) \/ StopSignal(c)

-----------------------------------------------------------------------------
(* A driver's future dropped at an await point.                             *)

\* No await precedes these steps: they follow the one before at once.
AwaitPoint ==
    DriverPc \ {"idle", "resumeSignal", "clearPause", "parkSignal",
                "markFailed", "returned"}

\* What is left of the driver: no answer.
Dropped(d) ==
    [drv EXCEPT ![d].ok = FALSE, ![d].torn = pc[d] = "parkCursor"]

\* with_timeout in execute/stream: the coordinator is dropped mid-run and
\* the execution is finalized as failed.
EntryTimeout(d) ==
    /\ "entryTimeout" \in Faults
    /\ d = Executor
    /\ \E from \in AwaitPoint \ {"flip"} : Goto(d, from, "markFailed")
    /\ drv' = Dropped(d)
    /\ UNCHANGED <<status, signal, progress, output, record, history>>

\* The stream's consumer goes away, the caller of resume() disconnects, or
\* the context shuts down: nothing after the await runs.
Abort(d) ==
    /\ "abort" \in Faults
    /\ \E from \in AwaitPoint : Goto(d, from, "returned")
    /\ drv' = Dropped(d)
    /\ UNCHANGED <<status, signal, progress, output, record, history>>

-----------------------------------------------------------------------------
HandlerReturns(d) == HandlerSucceeds(d) \/ HandlerFails(d) \/ HandlerParks(d)

RunNode(d) ==
    \/ VetoNode(d) \/ AbandonNode(d) \/ StartHandler(d) \/ HandlerStopped(d)
    \/ NodeTimesOut(d) \/ MarkNode(d) \/ KeepResult(d) \/ RecordSuccess(d)

RouteFailure(d) ==
    \/ RouteNowhere(d) \/ RouteToSuspend(d) \/ RouteToBranch(d)
    \/ RouteDangling(d) \/ ParkCursor(d) \/ ParkSignal(d) \/ ParkCheck(d)
    \/ ClearCheck(d) \/ ClearPause(d) \/ Interrupt(d) \/ Recheck(d)

Loop(d) ==
    \/ StartRun(d) \/ LoopHead(d) \/ ExpireBudget(d) \/ BreakAtMaxSteps(d)
    \/ TripBackstop(d) \/ SkipCompleted(d) \/ EnterNode(d) \/ CompleteRun(d)

Finalize(d) ==
    \/ ReadStatus(d) \/ ReadSignal(d) \/ Settle(d) \/ PersistFinal(d)
    \/ ReturnOk(d) \/ ReturnErr(d) \/ SpoilByMiddleware(d)
    \/ MarkFailed(d) \/ FlipRecord(d)

Launch(d) ==
    \/ RunBeforeMiddleware(d) \/ RejectByMiddleware(d) \/ BeginRun(d)
    \/ FailSetup(d) \/ PersistStart(d)

Resume(r) ==
    CheckResumable(r) \/ SeedCoordinator(r) \/ ResumeState(r) \/ ResumeSignal(r)

\* What a driver does by itself; only the return of a handler is not its own.
Engine(d) == Launch(d) \/ Loop(d) \/ RunNode(d) \/ RouteFailure(d) \/ Finalize(d)

Next ==
    \/ \E d \in Drivers : Engine(d) \/ HandlerReturns(d) \/ EntryTimeout(d) \/ Abort(d)
    \/ \E r \in Resumers : Resume(r)
    \/ \E p \in Pausers : Pauser(p)
    \/ \E c \in Cancellers : Canceller(c)

Spec == Init /\ [][Next]_vars

-----------------------------------------------------------------------------
(* Properties.                                                              *)

Live(d) == pc[d] \notin {"idle", "returned"}

Starts(d) == pc[d] = "enter" /\ pc'[d] = "handler"

\* At most one driver ever completes the execution, however many resume()
\* calls drive it at once; a completed execution has that one winner, and
\* only its driver (or a caller that read the kept output) answers Ok.
OneWinner ==
    /\ status = "Completed" <=> \E d \in Drivers : winners = {d}
    /\ status # "Completed" => winners = {}
    /\ \A d \in Drivers : drv[d].ok => status = "Completed"

\* A stored verdict other than Failed is the entity's: no interleaving of
\* drivers, dropped futures and failing stores makes the store report a
\* completion, a cancellation or a timeout that did not happen.
RecordHonest ==
    record \in Terminal \ {"Failed"} => status = record

\* What a driver is about to save: a terminal status it has read from the
\* entity is still the entity's.
DraftHonest ==
    \A d \in Drivers : drv[d].draft \in Terminal => status = drv[d].draft

Saving == {"saveStart", "saveFinal"}

\* Where drivers do not overlap, a record built while the execution was open
\* is not saved over a verdict.
NoStaleDraft ==
    SerialResume =>
        /\ \A d, e \in Drivers : Live(d) /\ Live(e) => d = e
        /\ \A d \in Drivers : pc[d] \in Saving /\ drv[d].draft \notin Terminal
                             => record \notin Terminal \ {"Failed"}

\* The strengthening from which OneWinner, RecordHonest and the outcome
\* promise follow by induction.
OutcomeInv == OneWinner /\ RecordHonest /\ DraftHonest /\ NoStaleDraft

\* The execution implements the outcome promised in ExecutionOutcome.
Verdict(s) == IF s \in Terminal THEN s ELSE "Undecided"
Promise == INSTANCE ExecutionOutcome WITH
               Serial <- SerialResume,
               outcome <- Verdict(status), published <- Verdict(record)
OutcomePromise == Promise!Spec

\* When execute() has returned and the run did not end as paused, its record
\* does not read as still open, and an Ok answer is on record as Completed
\* (persist_start, persist_final and finalize_failed between them cover every
\* way out).  What becomes of a paused run's record is PauseRecorded, below.
RecordSettled ==
    pc[Executor] = "returned" /\ drv[Executor].draft # "Paused" =>
        /\ record \in Terminal \cup {NoRecord}
        /\ drv[Executor].ok => record = "Completed"

PauseAcked  == \E p \in Pausers : pc[p] \notin {"idle", "refused", "pauseSignal"}
CancelAcked == \E c \in Cancellers : pc[c] = "returned"

\* Once pause() or cancel() has been answered, no further handler starts
\* until someone resumes: the check at the boundary and the one in front of
\* the handler leave no gap.
InterruptionHolds ==
    [][(PauseAcked \/ CancelAcked) => \A d \in Drivers : ~Starts(d)]_vars

\* A pending error-branch suspend and the entity's cursor name the same node,
\* so whoever resumes the execution continues at the branch target and not at
\* the failed node.  Only between the two writes of suspend_error_branch, or
\* when the future was dropped just there, do they differ.
SuspendAtCursor ==
    suspend # NoNode =>
        \/ cursor = suspend
        \/ \E d \in Drivers : pc[d] = "parkCursor" \/ drv[d].torn

\* A node whose result is recorded is not executed again: a resumed driver
\* skips it.
ResultsNotRerun ==
    [][\A d \in Drivers : Starts(d) => drv[d].at \notin results]_vars

\* A node whose handler returned Ok is not executed again.
FinishedNotRerun ==
    [][\A d \in Drivers : Starts(d) => drv[d].at \notin finished]_vars

-----------------------------------------------------------------------------
(* Fairness: the tasks run on a scheduler that polls every ready task, so   *)
(* each driver and each controller that can take a step by itself keeps     *)
(* moving.  A handler (an LLM call, a tool, a script) may take forever; it  *)
(* is assumed to return only where a property says so.                      *)

FairSpec ==
    /\ Spec
    /\ \A d \in Drivers : WF_vars(Engine(d))
    /\ \A r \in Resumers : WF_vars(Resume(r) /\ pc[r] # "idle")
    /\ \A p \in Pausers : WF_vars(Pauser(p) /\ pc[p] # "idle")
    /\ \A c \in Cancellers : WF_vars(Canceller(c) /\ pc[c] # "idle")

\* Handlers that return.
FairHandlers == \A d \in Drivers : WF_vars(HandlerReturns(d))

\* An acknowledged cancel() ends the run even if the handler never returns.
CancelEnds == CancelAcked ~> pc[Executor] = "returned"

\* Every driver that has started returns, if handlers do: neither skipped
\* nodes nor error routes that lead back keep a run going for ever, because
\* check_navigation_backstop counts every visit.
DriversReturn ==
    FairHandlers => \A d \in Drivers : Live(d) ~> pc[d] = "returned"

-----------------------------------------------------------------------------
(***************************************************************************)
(* What comments of the code say and the model refutes; no run checks      *)
(* these, the README gives the constants that show each one violated.      *)
(***************************************************************************)
\* A run that ended through the paused protocol stays on record as Paused
\* ("a final record after the execution reaches a terminal state (completed /
\* failed / cancelled / paused)": WorkflowCoordinator::execute); but execute()
\* finalizes the pause error like a failure.
PauseRecorded ==
    pc[Executor] = "returned" /\ drv[Executor].draft = "Paused" => record = "Paused"

\* A dropped future leaves no suspend record apart from its cursor ("The failed
\* node itself never re-runs": suspend_error_branch, which writes them under
\* two acquisitions of the lock).
SuspendNotTorn == \A d \in Drivers : ~drv[d].torn

\* Once cancel() has been answered no further handler starts ("A Stop is never
\* cleared": route_node_failure; its check and its resume() are two steps).
CancelHolds == [][CancelAcked => \A d \in Drivers : ~Starts(d)]_vars

\* Only the pause that armed it is ended by a pause-expiry timer.
TimerEndsOwnPause ==
    [][\A p \in Pausers :
          pc[p] = "stopState" /\ pc'[p] = "stopSignal" => pausedBy = p]_vars

\* An execution that has completed has consumed its suspend record: nothing
\* is left that a later restore could take up again.
SuspendConsumed == status = "Completed" => suspend = NoNode

==============================================================================
