----------------------------- MODULE AgentLoop -----------------------------
(***************************************************************************)
(* One agent loop execution: the driver that runs its iterations (gate,    *)
(* LLM call, tool round, retries), the control calls that pause, resume    *)
(* and cancel it from other tasks, the trigger signals it drains, the wall *)
(* clock and pause timers, the runtime inputs, its checkpoints, and the    *)
(* crash that an in-place resume recovers from.                            *)
(*                                                                         *)
(* pause(), resume() and stop() are each several writes (status, signal,   *)
(* timer, abort token) with nothing held across them: every write is a     *)
(* step.  The driver takes a step per await.                               *)
(*                                                                         *)
(* Left out: the text of messages, compression, streaming, a host shutdown *)
(* in progress; a checkpoint coordinator is configured, its writes succeed *)
(* (CheckpointChain has the failing ones) and a restore returns the newest *)
(* row.                                                                    *)
(***************************************************************************)
EXTENDS Integers, Sequences

CONSTANTS
  Callers,         \* tasks that may issue control calls
  Types, KindOf,   \* retryable error types, and the ErrorKind of each
  RetryLimit,      \* max_retries of the failure policy
  MaxIterations,   \* iterations one driver may start
  WallClock,       \* max_execution_time is configured
  PauseLimit,      \* max_pause_duration is configured
  Cadence,         \* interval_iterations: every how many iterations the
                   \*   iteration checkpoint is due
  Triggers,        \* the boundaries that are switched on: "error" (on_error),
                   \*   "tool" (on_tool_call)
  Midway,          \* a checkpoint may be taken between the start of an
                   \*   iteration and its LLM call (hook opt-in, manual)
  Api,             \* the run is driven through the API's blocking run()
  MaxCalls, MaxSignals, MaxInputs, MaxCrashes   \* bounds of the environment

Kinds == {KindOf[t] : t \in Types}
NoError == "none"
Fatal == "fatal"     \* an error no policy retries (validation, cancellation)

ASSUME AgentAssumption ==
  /\ KindOf \in [Types -> Kinds]
  /\ NoError \notin Types /\ Fatal \notin Types
  /\ {RetryLimit, MaxIterations, MaxCalls, MaxSignals, MaxInputs, MaxCrashes} \subseteq Nat
  /\ Cadence \in Nat \ {0} /\ Triggers \subseteq {"error", "tool"}
  /\ WallClock \in BOOLEAN /\ PauseLimit \in BOOLEAN
  /\ Midway \in BOOLEAN /\ Api \in BOOLEAN

VARIABLES
  status,    \* AgentLoopState.status
  signal,    \* the interruption watch value
  abort,     \* the entity's cancellation token
  expired,   \* timeout_expired: a timer has fired
  wall,      \* the wall-clock timer is armed
  pauser,    \* the pause timer is armed
  permit,    \* the entity holds a permit of the capacity gate
  drv,       \* the driver's locals
  st,        \* loop state: current_iteration, retry totals, error counts
  conv,      \* conversation: messages, and an unanswered tool call
  queue,     \* runtime inputs: buffered for the next iteration or for the end
             \*   of the run, drained and in the driver's hand, heard
  mail,      \* trigger signals not yet drained
  saved,     \* the newest checkpoint row
  call,      \* caller -> where its control call stands
  spent,     \* retries performed, of the run and all its resumes
  used,      \* how much of the environment's bounds is used
  asked,     \* somebody asked for a stop
  stopped    \* a stop() has returned

vars == <<status, signal, abort, expired, wall, pauser, permit, drv, st, conv,
          queue, mail, saved, call, spent, used, asked, stopped>>

Terminal == {"Completed", "Failed", "Cancelled", "Timeout"}
Statuses == {"Created", "Running", "Paused"} \cup Terminal
Signals == {"Active", "Pause", "Stop"}

\* the transition table of AgentLoopState (Stopped is never asked for here)
Allowed(from, to) ==
  \/ from = "Created" /\ to \in {"Running", "Paused", "Cancelled"}
  \/ from = "Running" /\ to \in Statuses \ {"Created"}
  \/ from = "Paused" /\ to \in {"Running", "Failed", "Cancelled", "Timeout"}

Pcs == {"start", "arm", "head", "gate", "steer", "iterate", "llm", "replied",
        "tools", "failed", "granted", "backoff", "closed", "decide", "follow",
        "ok", "err", "apifail", "ended"}

NewDriver == [pc |-> "start", iter |-> 0, attempt |-> 0, err |-> NoError,
              more |-> FALSE, cause |-> "none"]

Driver == [pc : Pcs, iter : 0..MaxIterations, attempt : Nat,
           err : Types \cup {NoError, Fatal}, more : BOOLEAN,
           cause : {"none", "Cancelled", "Timeout", "Failed"}]

Zero == [cur |-> 0, charged |-> [k \in Kinds |-> 0], seen |-> [t \in Types |-> 0]]
LoopState == [cur : Nat, charged : [Kinds -> Nat], seen : [Types -> Nat]]
Conv == [msgs : Nat, open : BOOLEAN]
NoRow == [status |-> "none"]
Inputs == {"steer", "follow", "hand", "heard"}
Budgets == {"calls", "signals", "inputs", "crashes"}

Init ==
  /\ status = "Created" /\ signal = "Active"
  /\ abort = FALSE /\ expired = FALSE /\ wall = FALSE /\ pauser = FALSE
  /\ permit = TRUE
  /\ drv = NewDriver
  /\ st = Zero /\ conv = [msgs |-> 1, open |-> FALSE]
  /\ queue = [q \in Inputs |-> 0]
  /\ mail = <<>> /\ saved = NoRow
  /\ call = [c \in Callers |-> "idle"]
  /\ spent = [k \in Kinds |-> 0]
  /\ used = [u \in Budgets |-> 0]
  /\ asked = FALSE /\ stopped = FALSE

control == <<status, signal, abort, expired, pauser, permit>>
env == <<mail, call, used, asked, stopped>>

-----------------------------------------------------------------------------
(***************************************************************************)
(* Checkpoints.  The duplicate gate compares the progress coordinates      *)
(* (conversation, iteration, status) and leaves an equal row as it is.     *)
(* Lifecycle checkpoints (start, pause, outcome) are always taken; those   *)
(* of an iteration, an error or a tool round pass the strategy's gate.     *)
(***************************************************************************)
RowOf(s, l, v) == [status |-> s, loop |-> l, conv |-> v]

Duplicate(s, l, v) ==
  /\ saved # NoRow
  /\ saved.status = s /\ saved.loop.cur = l.cur /\ saved.conv = v

Checkpoint(s, l, v) ==
  saved' = IF Duplicate(s, l, v) THEN saved ELSE RowOf(s, l, v)

\* should_checkpoint: iteration zero is never due
Due(timing, l) ==
  /\ l.cur > 0
  /\ \/ timing = "iteration" /\ l.cur % Cadence = 0
     \/ timing \in Triggers

\* create_checkpoint_gated
Gated(timing, l, v) ==
  IF Due(timing, l) THEN Checkpoint(status, l, v) ELSE UNCHANGED saved

-----------------------------------------------------------------------------
(***************************************************************************)
(* The driver.                                                             *)
(***************************************************************************)
At(p) == drv.pc = p
To(p) == drv' = [drv EXCEPT !.pc = p]

\* the error leaves the driver; the API run has one more step to do
Fails == To(IF Api THEN "apifail" ELSE "ended")

\* start_agent_loop; its refusal is returned without settling anything
Start ==
  /\ At("start")
  /\ \/ /\ Allowed(status, "Running")
        /\ status' = "Running" /\ To("arm")
     \/ /\ ~Allowed(status, "Running")
        /\ Fails /\ UNCHANGED status
  /\ UNCHANGED <<signal, abort, expired, wall, pauser, permit, st, conv, queue,
                 saved, spent, env>>

\* the start checkpoint, then execute() registers the wall clock
Arm ==
  /\ At("arm")
  /\ Checkpoint(status, st, conv)
  /\ wall' = WallClock
  /\ To("head")
  /\ UNCHANGED <<control, st, conv, queue, spent, env>>

\* mutant: the cause of a stop is not looked up
MutStoppedError == "Cancelled"

StoppedError ==
  IF status \notin Terminal /\ expired THEN "Timeout" ELSE "Cancelled"

\* run_iterations returns an error: the wall clock is cancelled
Leave(cause) ==
  /\ drv' = [drv EXCEPT !.pc = "err", !.cause = cause]
  /\ wall' = FALSE

\* mutant: one iteration too many
MutExhausted == drv.iter > MaxIterations

Exhausted == drv.iter = MaxIterations

\* head of the for loop: drain the trigger signals, snapshot a pause
LoopHead ==
  /\ At("head")
  /\ IF Exhausted
       THEN /\ To("ok") /\ wall' = FALSE
            /\ UNCHANGED <<signal, mail, saved>>
       ELSE /\ To("gate")
            /\ signal' = IF mail = <<>> THEN signal ELSE mail[Len(mail)]
            /\ mail' = <<>>
            /\ IF status = "Paused" THEN Checkpoint(status, st, conv)
                                    ELSE UNCHANGED saved
            /\ UNCHANGED wall
  /\ UNCHANGED <<status, abort, expired, pauser, permit, st, conv, queue, spent, call, used,
                 asked, stopped>>

\* the suspension gate, then the steering inputs are drained
Gate ==
  /\ At("gate") /\ signal # "Pause"
  /\ \/ /\ signal = "Stop" /\ Leave(StoppedError)
        /\ UNCHANGED queue
     \/ /\ signal = "Active"
        /\ drv' = [drv EXCEPT !.pc = IF queue.steer > 0 THEN "steer" ELSE "iterate",
                              !.attempt = 0]
        /\ queue' = [queue EXCEPT !.steer = 0, !.hand = queue.steer]
        /\ UNCHANGED wall
  /\ UNCHANGED <<control, st, conv, saved, spent, env>>

\* the drained inputs enter the conversation, as one message
Inject ==
  /\ conv' = [conv EXCEPT !.msgs = @ + 1]
  /\ queue' = [queue EXCEPT !.hand = 0, !.heard = @ + queue.hand]

InjectSteering ==
  /\ At("steer") /\ Inject
  /\ To("iterate")
  /\ UNCHANGED <<control, wall, st, saved, spent, env>>

\* start_iteration; an interruption closes it before the LLM call
Iterate ==
  /\ At("iterate")
  /\ st' = [st EXCEPT !.cur = @ + 1]
  /\ \/ /\ signal # "Active"
        /\ drv' = [drv EXCEPT !.pc = "closed", !.more = FALSE]
        /\ UNCHANGED saved
     \/ /\ signal = "Active" /\ To("llm")
        /\ \/ UNCHANGED saved
           \/ Midway /\ Checkpoint(status, st', conv)
  /\ UNCHANGED <<control, wall, conv, queue, spent, env>>

\* The LLM gateway returns: a reply, an error, or the abort it was given.  It
\* is a library outside the repository: that it gives no reply once its token
\* is cancelled is taken on its word.
Generate ==
  /\ At("llm")
  /\ \/ ~abort /\ To("replied")
     \/ \E t \in Types : drv' = [drv EXCEPT !.pc = "failed", !.err = t]
     \/ drv' = [drv EXCEPT !.pc = "failed", !.err = Fatal]
  /\ UNCHANGED <<control, wall, st, conv, queue, saved, spent, env>>

\* the reply is dropped on an interruption; otherwise it enters the
\* conversation, with the pre-tool checkpoint when it carries tool calls
Reply ==
  /\ At("replied")
  /\ \/ /\ signal # "Active"
        /\ drv' = [drv EXCEPT !.pc = "closed", !.more = FALSE]
        /\ UNCHANGED <<conv, saved>>
     \/ /\ signal = "Active"
        /\ conv' = [conv EXCEPT !.msgs = @ + 1]
        /\ drv' = [drv EXCEPT !.pc = "closed", !.more = FALSE]
        /\ UNCHANGED saved
     \/ /\ signal = "Active"
        /\ conv' = [msgs |-> conv.msgs + 1, open |-> TRUE]
        /\ To("tools")
        /\ Gated("tool", st, conv')
  /\ UNCHANGED <<control, wall, st, queue, spent, env>>

\* the tool round; an interruption drops its results
RunTools ==
  /\ At("tools")
  /\ \/ /\ signal # "Active"
        /\ drv' = [drv EXCEPT !.pc = "closed", !.more = FALSE]
        /\ UNCHANGED <<conv, saved>>
     \/ /\ signal = "Active"
        /\ conv' = [msgs |-> conv.msgs + 1, open |-> FALSE]
        /\ \/ \E more \in BOOLEAN : drv' = [drv EXCEPT !.pc = "closed", !.more = more]
              /\ Gated("tool", st, conv')
           \/ drv' = [drv EXCEPT !.pc = "failed", !.err = Fatal]  \* scope violations
              /\ UNCHANGED saved
  /\ UNCHANGED <<control, wall, st, queue, spent, env>>

\* decide_retry, on the counts with this failure recorded
Decision(l, t) ==
  IF t = Fatal THEN "Stop"
  ELSE IF l.seen[t] >= 2 /\ l.seen[t] >= RetryLimit THEN "Trip"
  ELSE IF drv.attempt >= RetryLimit \/ l.charged[KindOf[t]] >= RetryLimit THEN "Stop"
  ELSE "Grant"

Recorded(t) == IF t = Fatal THEN st ELSE [st EXCEPT !.seen[t] = @ + 1]

\* record_error and the decision under one lock; a grant is charged before
\* the error checkpoint
Fail ==
  /\ At("failed")
  /\ LET l == Recorded(drv.err)
     IN  \/ /\ Decision(l, drv.err) = "Grant"
            /\ st' = [l EXCEPT !.charged[KindOf[drv.err]] = @ + 1]
            /\ To("granted")
            /\ UNCHANGED <<wall, saved>>
         \/ /\ Decision(l, drv.err) # "Grant"
            /\ st' = l /\ Gated("error", l, conv)
            /\ Leave("Failed")
  /\ UNCHANGED <<control, conv, queue, spent, env>>

\* mutant: the error checkpoint of a grant carries the state before it
MutGrant ==
  /\ At("granted")
  /\ Gated("error", [st EXCEPT !.charged[KindOf[drv.err]] = @ - 1], conv)
  /\ To("backoff")
  /\ UNCHANGED <<control, wall, st, conv, queue, spent, env>>

\* the error checkpoint of a granted retry
Grant ==
  /\ At("granted")
  /\ Gated("error", st, conv)
  /\ To("backoff")
  /\ UNCHANGED <<control, wall, st, conv, queue, spent, env>>

\* after the backoff the next attempt begins
Retry ==
  /\ At("backoff")
  /\ drv' = [drv EXCEPT !.pc = "iterate", !.attempt = @ + 1, !.err = NoError]
  /\ spent' = [spent EXCEPT ![KindOf[drv.err]] = @ + 1]
  /\ UNCHANGED <<control, wall, st, conv, queue, saved, env>>

\* the iteration checkpoint
Close ==
  /\ At("closed")
  /\ Gated("iteration", st, conv)
  /\ To("decide")
  /\ UNCHANGED <<control, wall, st, conv, queue, spent, env>>

\* the loop goes on, is suspended, is stopped, drains follow-ups or is done
NextIteration == drv' = [drv EXCEPT !.pc = "head", !.iter = @ + 1]
Decide ==
  /\ At("decide")
  /\ \/ /\ drv.more \/ signal = "Pause"
        /\ NextIteration /\ UNCHANGED <<wall, queue>>
     \/ /\ ~drv.more /\ signal = "Stop"
        /\ Leave(StoppedError) /\ UNCHANGED queue
     \/ /\ ~drv.more /\ signal = "Active" /\ queue.follow > 0
        /\ queue' = [queue EXCEPT !.follow = 0, !.hand = queue.follow]
        /\ To("follow") /\ UNCHANGED wall
     \/ /\ ~drv.more /\ signal = "Active" /\ queue.follow = 0
        /\ To("ok") /\ wall' = FALSE /\ UNCHANGED queue
  /\ UNCHANGED <<control, st, conv, saved, spent, env>>

InjectFollowup ==
  /\ At("follow") /\ Inject
  /\ NextIteration
  /\ UNCHANGED <<control, wall, st, saved, spent, env>>

\* complete_agent_loop: a refused transition is returned as the error
Complete ==
  /\ At("ok")
  /\ \/ /\ Allowed(status, "Completed")
        /\ status' = "Completed" /\ permit' = FALSE
        /\ Checkpoint("Completed", st, conv)
        /\ To("ended")
     \/ /\ ~Allowed(status, "Completed")
        /\ Fails /\ UNCHANGED <<status, permit, saved>>
  /\ UNCHANGED <<signal, abort, expired, wall, pauser, st, conv, queue, spent, env>>

\* settle by the kind of error unless the run is settled, then the outcome
\* checkpoint
Settle ==
  /\ At("err")
  /\ \/ /\ status \notin Terminal
        /\ status' = drv.cause /\ permit' = FALSE
     \/ /\ status \in Terminal
        /\ UNCHANGED <<status, permit>>
  /\ Checkpoint(status', st, conv)
  /\ Fails
  /\ UNCHANGED <<signal, abort, expired, wall, pauser, st, conv, queue, spent, env>>

\* the outer timeout of the API run drops the driver wherever it stands;
\* the timers it registered stay, the inputs in its hand are gone
OuterTimeout ==
  /\ Api /\ drv.pc \notin {"apifail", "ended"}
  /\ To("apifail")
  /\ UNCHANGED <<control, wall, st, conv, queue, saved, spent, env>>

\* run() marks the live entity failed after any error
ApiFail ==
  /\ At("apifail")
  /\ status' = IF Allowed(status, "Failed") THEN "Failed" ELSE status
  /\ To("ended")
  /\ UNCHANGED <<signal, abort, expired, wall, pauser, permit, st, conv, queue,
                 saved, spent, env>>

Drive ==
  \/ Start \/ Arm \/ LoopHead \/ Gate \/ InjectSteering \/ Iterate \/ Generate
  \/ Reply \/ RunTools \/ Fail \/ Grant \/ Retry \/ Close \/ Decide \/ InjectFollowup
  \/ Complete \/ Settle \/ ApiFail

-----------------------------------------------------------------------------
(***************************************************************************)
(* Control calls.  Each write of a call is a step of its caller.           *)
(***************************************************************************)
Goes(c, p) == call' = [call EXCEPT ![c] = p]
rest == <<drv, wall, st, conv, queue, mail, saved, spent>>

Ask(c, p) ==
  /\ call[c] = "idle" /\ used.calls < MaxCalls
  /\ used' = [used EXCEPT !.calls = @ + 1]
  /\ asked' = (asked \/ p = "stop")
  /\ Goes(c, p)
  /\ UNCHANGED <<rest, control, stopped>>

\* the API refuses to resume a settled run; Timeout is not among them
AskResume(c) == status \notin {"Completed", "Failed", "Cancelled"} /\ Ask(c, "unpause")
AskPause(c) == Ask(c, "pause")
AskStop(c) == status \notin Terminal /\ Ask(c, "stop")

\* pause: status, signal, timer
PauseStatus(c) ==
  /\ call[c] = "pause"
  /\ IF Allowed(status, "Paused")
       THEN status' = "Paused" /\ Goes(c, "pauseSignal")
       ELSE Goes(c, "idle") /\ UNCHANGED status
  /\ UNCHANGED <<rest, signal, abort, expired, pauser, permit, used, asked, stopped>>

PauseSignal(c) ==
  /\ call[c] = "pauseSignal"
  /\ signal' = "Pause" /\ Goes(c, "pauseTimer")
  /\ UNCHANGED <<rest, status, abort, expired, pauser, permit, used, asked, stopped>>

\* mutant: the pause is not bounded
MutPauseTimer(c) ==
  /\ call[c] = "pauseTimer" /\ Goes(c, "idle")
  /\ UNCHANGED <<rest, control, used, asked, stopped>>

PauseTimer(c) ==
  /\ call[c] = "pauseTimer"
  /\ pauser' = PauseLimit /\ Goes(c, "idle")
  /\ UNCHANGED <<rest, status, signal, abort, expired, permit, used, asked, stopped>>

\* resume: timer, status, signal
ResumeTimer(c) ==
  /\ call[c] = "unpause"
  /\ pauser' = FALSE /\ Goes(c, "resume")
  /\ UNCHANGED <<rest, status, signal, abort, expired, permit, used, asked, stopped>>

ResumeStatus(c) ==
  /\ call[c] = "resume"
  /\ IF Allowed(status, "Running")
       THEN status' = "Running" /\ Goes(c, "resumeSignal")
       ELSE Goes(c, "idle") /\ UNCHANGED status
  /\ UNCHANGED <<rest, signal, abort, expired, pauser, permit, used, asked, stopped>>

ResumeSignal(c) ==
  /\ call[c] = "resumeSignal"
  /\ signal' = "Active" /\ Goes(c, "idle")
  /\ UNCHANGED <<rest, status, abort, expired, pauser, permit, used, asked, stopped>>

\* stop: status and permit, signal, abort token
StopStatus(c) ==
  /\ call[c] = "stop"
  /\ IF Allowed(status, "Cancelled")
       THEN status' = "Cancelled" /\ permit' = FALSE /\ Goes(c, "stopSignal")
       ELSE Goes(c, "idle") /\ UNCHANGED <<status, permit>>
  /\ UNCHANGED <<rest, signal, abort, expired, pauser, used, asked, stopped>>

StopSignal(c) ==
  /\ call[c] = "stopSignal"
  /\ signal' = "Stop" /\ Goes(c, "stopToken")
  /\ UNCHANGED <<rest, status, abort, expired, pauser, permit, used, asked, stopped>>

\* mutant: stop() leaves the abort token alone
MutStopToken(c) ==
  /\ call[c] = "stopToken"
  /\ Goes(c, "idle") /\ stopped' = TRUE
  /\ UNCHANGED <<rest, control, used, asked>>

StopToken(c) ==
  /\ call[c] = "stopToken"
  /\ abort' = TRUE /\ stopped' = TRUE /\ Goes(c, "idle")
  /\ UNCHANGED <<rest, status, signal, expired, pauser, permit, used, asked>>

CallStep(c) ==
  \/ PauseStatus(c) \/ PauseSignal(c) \/ PauseTimer(c)
  \/ ResumeTimer(c) \/ ResumeStatus(c) \/ ResumeSignal(c)
  \/ StopStatus(c) \/ StopSignal(c) \/ StopToken(c)

-----------------------------------------------------------------------------
(***************************************************************************)
(* Timers, trigger signals, runtime inputs, crash.                         *)
(***************************************************************************)
Expire ==
  /\ expired' = TRUE /\ signal' = "Stop"
  /\ UNCHANGED <<status, abort, permit, drv, st, conv, queue, mail, saved,
                 call, spent, used, asked, stopped>>

WallFires == wall /\ wall' = FALSE /\ Expire /\ UNCHANGED pauser
PauseFires == pauser /\ pauser' = FALSE /\ Expire /\ UNCHANGED wall

\* a trigger action publishes a signal for this execution
Trigger(s) ==
  /\ used.signals < MaxSignals
  /\ used' = [used EXCEPT !.signals = @ + 1]
  /\ asked' = (asked \/ s = "Stop")
  /\ mail' = Append(mail, s)
  /\ UNCHANGED <<control, drv, wall, st, conv, queue, saved, call, spent, stopped>>

Input(q) ==
  /\ used.inputs < MaxInputs /\ status \notin Terminal
  /\ used' = [used EXCEPT !.inputs = @ + 1]
  /\ queue' = [queue EXCEPT ![q] = @ + 1]
  /\ UNCHANGED <<control, drv, wall, st, conv, mail, saved, call, spent,
                 asked, stopped>>

\* mutant: the follow-up buffer is copied, not moved
MutConvertPending ==
  /\ status \notin Terminal /\ queue.follow > 0 /\ queue.steer = 0
  /\ queue' = [queue EXCEPT !.steer = queue.follow]
  /\ UNCHANGED <<control, drv, wall, st, conv, saved, spent, env>>

ConvertPending ==
  /\ status \notin Terminal /\ queue.follow > 0
  /\ queue' = [queue EXCEPT !.steer = @ + queue.follow, !.follow = 0]
  /\ UNCHANGED <<control, drv, wall, st, conv, saved, spent, env>>

\* The process dies and the run is resumed in place from the newest row,
\* which must record a live run: a fresh entity with the recorded status,
\* loop state and conversation.
Crash ==
  /\ used.crashes < MaxCrashes /\ saved # NoRow
  /\ saved.status \notin Terminal
  /\ status' = saved.status /\ st' = saved.loop /\ conv' = saved.conv
  /\ signal' = "Active" /\ abort' = FALSE /\ expired' = FALSE
  /\ wall' = FALSE /\ pauser' = FALSE /\ permit' = TRUE
  /\ drv' = NewDriver
  /\ queue' = [queue EXCEPT !.steer = 0, !.follow = 0, !.hand = 0]
  /\ mail' = <<>> /\ call' = [c \in Callers |-> "idle"]
  /\ used' = [used EXCEPT !.crashes = @ + 1]
  /\ asked' = FALSE /\ stopped' = FALSE
  /\ UNCHANGED <<saved, spent>>

Next ==
  \/ Drive \/ OuterTimeout
  \/ \E c \in Callers : AskPause(c) \/ AskResume(c) \/ AskStop(c) \/ CallStep(c)
  \/ WallFires \/ PauseFires
  \/ \E s \in Signals : Trigger(s)
  \/ \E q \in {"steer", "follow"} : Input(q)
  \/ ConvertPending \/ Crash

Spec == Init /\ [][Next]_vars

\* The driver's task and the callers' tasks are scheduled; a timer that
\* stays armed fires.  Fairness of Drive also says that an LLM call and a tool
\* round return, and with the round the user who is asked to approve a tool
\* call: that wait has no limit and pauses both timers.  Nothing else is
\* assumed of the users of the run.
FairSpec ==
  /\ Spec
  /\ WF_vars(Drive)
  /\ \A c \in Callers : WF_vars(CallStep(c))
  /\ WF_vars(WallFires) /\ WF_vars(PauseFires)

-----------------------------------------------------------------------------
(***************************************************************************)
(* Properties.                                                             *)
(***************************************************************************)
Rows == [status : Statuses, loop : LoopState, conv : Conv]

\* The variables hold what their declarations say; a driver never starts more
\* than MaxIterations iterations (Driver), and every row is one of a live or
\* settled loop (Rows).
TypeOK ==
  /\ status \in Statuses /\ signal \in Signals
  /\ abort \in BOOLEAN /\ expired \in BOOLEAN /\ wall \in BOOLEAN
  /\ pauser \in BOOLEAN /\ permit \in BOOLEAN
  /\ drv \in Driver /\ st \in LoopState /\ conv \in Conv
  /\ queue \in [Inputs -> Nat]
  /\ mail \in Seq(Signals)
  /\ saved \in Rows \cup {NoRow}
  /\ call \in [Callers -> {"idle", "pause", "pauseSignal", "pauseTimer", "unpause",
                "resume", "resumeSignal", "stop", "stopSignal", "stopToken"}]
  /\ spent \in [Kinds -> Nat]
  /\ used \in [Budgets -> Nat]
  /\ asked \in BOOLEAN /\ stopped \in BOOLEAN

\* The retry budget belongs to the run, not to the process: every retry the
\* run ever performed is on its account, and the account stays within the
\* limit, whatever the order of error types, iterations and crashes
\* (execution.rs: "Charge the grant before the checkpoint so a restore never
\* hands back a spent retry").  It needs the error checkpoints switched on and
\* none taken midway: the README has the two refutations.
RetriesCharged ==
  \A k \in Kinds : spent[k] <= st.charged[k] /\ st.charged[k] <= RetryLimit

\* A run is reported as timed out only when one of its timers fired and as
\* cancelled only when somebody asked for it (stopped_error, settle_kind).
HonestStatus ==
  /\ status = "Timeout" => expired
  /\ status = "Cancelled" => asked

\* After stop() has returned no LLM call of the run is answered any more,
\* even when a concurrent resume() put the signal back to Active: the abort
\* token is what a resume cannot undo.  What is checked is that no stop()
\* returns before the token the gateway watches is cancelled.
CancelSticks ==
  [][At("llm") /\ drv'.pc = "replied" => ~stopped]_vars

\* While the process lives an accepted runtime input is in one place: in one
\* of the buffers, in the conversation, or drained by a driver that appends it
\* next.  The one driver that never will is one the API's outer timeout
\* dropped between the drain and the append.
InputsOnce ==
  used.crashes = 0 =>
    /\ queue.steer + queue.follow + queue.hand + queue.heard = used.inputs
    /\ queue.hand > 0 => \/ drv.pc \in {"steer", "follow"}
                         \/ Api /\ drv.pc \in {"apifail", "ended"}

\* With both timers configured and no trigger pausing the loop, the driver
\* returns: no interleaving of control calls, timers and retries leaves it
\* waiting at the gate for ever.
DriverEnds == [](used.signals = 0) => <>[](At("ended"))

-----------------------------------------------------------------------------
(***************************************************************************)
(* What the comments of the code say and the model refutes; the README     *)
(* tells how.                                                              *)
(***************************************************************************)
\* A stop() that returned ends the driver ("a forced stop (wall-clock /
\* pause timeout / explicit stop) exits below").
StopExits == stopped ~> At("ended")

\* Every tool call in the conversation has its results before the model is
\* asked again ("so the model always sees one tool result per tool call").
ToolCallsAnswered == At("llm") => ~conv.open

\* A settled run holds no permit of the capacity gate ("released when the
\* execution reaches a terminal state").
PermitReleased == status \in Terminal /\ At("ended") => ~permit

\* A pause suspends the loop instead of terminating it: a driver that found
\* its run complete leaves it Completed, or cancelled by a call.
PauseSuspends ==
  [][At("ok") /\ drv'.pc # "ok" => status' \in {"Completed", "Cancelled"}]_vars

\* A run does not complete over an input it accepted.
InputsHeard == status = "Completed" => queue.steer + queue.follow = 0
=============================================================================
