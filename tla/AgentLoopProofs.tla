-------------------------- MODULE AgentLoopProofs --------------------------
(***************************************************************************)
(* Theorems about AgentLoop, for every set of callers and error types,     *)
(* every limit and every number of control calls, signals, inputs and      *)
(* crashes.                                                                *)
(*                                                                         *)
(* The typing of the state is proved per group of variables; DriverOK adds *)
(* what the driver's place says of its locals.  Budget is the              *)
(* strengthening that makes the retry account inductive: the newest row    *)
(* always lies between what was spent and what is charged, and a granted   *)
(* retry meets a row of an earlier iteration, so that its checkpoint is    *)
(* never taken for a duplicate.  Reasons follows every cause of a stop     *)
(* from whoever asked for it to the status it ends in.                     *)
(***************************************************************************)
EXTENDS AgentLoop, TLAPS

\* control calls never touch the driver, its state or its checkpoints
LEMMA CallLeaves ==
  ASSUME NEW c \in Callers,
         AskPause(c) \/ AskResume(c) \/ AskStop(c) \/ CallStep(c)
  PROVE  UNCHANGED rest
  BY DEF AskPause, AskResume, AskStop, Ask, CallStep, PauseStatus, PauseSignal, PauseTimer,
     ResumeTimer, ResumeStatus, ResumeSignal, StopStatus, StopSignal, StopToken, rest

\* neither do the timers, the triggers and the inputs
LEMMA EnvLeaves ==
  ASSUME WallFires \/ PauseFires \/ (\E s \in Signals : Trigger(s))
           \/ (\E q \in {"steer", "follow"} : Input(q)) \/ ConvertPending
  PROVE  UNCHANGED <<drv, st, conv, saved, spent>>
  BY DEF WallFires, PauseFires, Expire, Trigger, Input, ConvertPending

\* the driver does not touch the control calls and the bounds
LEMMA DriveLeaves ==
  ASSUME Drive \/ OuterTimeout
  PROVE  UNCHANGED <<call, used, asked, stopped>>
  BY DEF Drive, OuterTimeout, Start, Arm, LoopHead, Gate, InjectSteering, Iterate, Generate,
     Reply, RunTools, Fail, Grant, Retry, Close, Decide, InjectFollowup, Complete, Settle,
     ApiFail, env

\* the typing of the control state
ControlOK ==
  /\ status \in Statuses /\ signal \in Signals
  /\ abort \in BOOLEAN /\ expired \in BOOLEAN /\ wall \in BOOLEAN
  /\ pauser \in BOOLEAN /\ permit \in BOOLEAN

\* the driver is inside an iteration
InLoop == {"gate", "steer", "iterate", "llm", "replied", "tools", "failed", "granted",
           "backoff", "closed", "decide", "follow"}

\* the typing of the driver's locals, and what its place says of them
DriverOK ==
  /\ drv \in Driver
  /\ drv.pc \in InLoop => drv.iter < MaxIterations
  /\ drv.pc \in {"start", "arm"} => drv.iter = 0
  /\ drv.pc = "err" => drv.cause # "none"
  /\ drv.pc \in {"failed", "granted", "backoff"} => drv.err # NoError
  /\ drv.pc \in {"granted", "backoff"} => drv.err \in Types

\* every step keeps the control state typed
LEMMA ControlStep == TypeOK /\ DriverOK /\ [Next]_vars => ControlOK'
  <1> SUFFICES ASSUME TypeOK, DriverOK, [Next]_vars PROVE ControlOK'
    OBVIOUS
  <1> USE DEF ControlOK
  <1>1. ControlOK
    BY DEF TypeOK
  <1>2. CASE Start
    BY <1>1, <1>2 DEF Start, Statuses
  <1>3. CASE Arm
    BY <1>1, <1>3, AgentAssumption DEF Arm, control
  <1>4. CASE LoopHead
    <2>1. mail \in Seq(Signals)
      BY DEF TypeOK
    <2>2. mail # <<>> => mail[Len(mail)] \in Signals
      BY <2>1
    <2> QED  BY <1>1, <1>4, <2>2 DEF LoopHead
  <1>5. CASE Gate \/ InjectSteering \/ Iterate \/ Generate \/ Reply \/ RunTools
    BY <1>1, <1>5 DEF Gate, InjectSteering, Iterate, Generate, Reply, RunTools, Leave, control
  <1>6. CASE Fail \/ Grant \/ Retry \/ Close \/ Decide \/ InjectFollowup
    BY <1>1, <1>6 DEF Fail, Grant, Retry, Close, Decide, InjectFollowup, Leave, control
  <1>7. CASE Complete
    BY <1>1, <1>7 DEF Complete, Statuses, Terminal
  <1>8. CASE Settle
    <2>1. drv.cause \in {"Cancelled", "Timeout", "Failed"}
      BY <1>8 DEF Settle, At, DriverOK, Driver
    <2> QED  BY <1>1, <1>8, <2>1 DEF Settle, Statuses, Terminal
  <1>9. CASE ApiFail
    BY <1>1, <1>9 DEF ApiFail, Statuses, Terminal
  <1>10. CASE OuterTimeout
    BY <1>1, <1>10 DEF OuterTimeout, control
  <1>11. ASSUME NEW c \in Callers, AskPause(c) \/ AskResume(c) \/ AskStop(c) PROVE ControlOK'
    BY <1>1, <1>11 DEF AskPause, AskResume, AskStop, Ask, control, rest
  <1>12. ASSUME NEW c \in Callers, CallStep(c) PROVE ControlOK'
    <2>1. CASE PauseStatus(c) \/ ResumeStatus(c) \/ StopStatus(c)
      BY <1>1, <2>1 DEF PauseStatus, ResumeStatus, StopStatus, rest, Statuses, Terminal
    <2>2. CASE PauseSignal(c) \/ ResumeSignal(c) \/ StopSignal(c)
      BY <1>1, <2>2 DEF PauseSignal, ResumeSignal, StopSignal, rest, Signals
    <2>3. CASE PauseTimer(c) \/ ResumeTimer(c) \/ StopToken(c)
      BY <1>1, <2>3, AgentAssumption DEF PauseTimer, ResumeTimer, StopToken, rest
    <2> QED  BY <1>12, <2>1, <2>2, <2>3 DEF CallStep
  <1>13. CASE WallFires \/ PauseFires
    BY <1>1, <1>13 DEF WallFires, PauseFires, Expire, Signals
  <1>14. ASSUME NEW s \in Signals, Trigger(s) PROVE ControlOK'
    BY <1>1, <1>14 DEF Trigger, control
  <1>15. ASSUME NEW q \in {"steer", "follow"}, Input(q) PROVE ControlOK'
    BY <1>1, <1>15 DEF Input, control
  <1>16. CASE ConvertPending
    BY <1>1, <1>16 DEF ConvertPending, control
  <1>17. CASE Crash
    <2>1. saved \in Rows
      BY <1>17 DEF TypeOK, Crash
    <2> QED  BY <1>1, <1>17, <2>1 DEF Crash, Signals, Rows
  <1>18. CASE UNCHANGED vars
    BY <1>1, <1>18 DEF vars
  <1> QED
    BY <1>2, <1>3, <1>4, <1>5, <1>6, <1>7, <1>8, <1>9, <1>10, <1>11, <1>12, <1>13,
       <1>14, <1>15, <1>16, <1>17, <1>18 DEF Next, Drive

\* every step keeps the driver's locals typed; the iteration counter never
\* passes MaxIterations
LEMMA DriverStep == TypeOK /\ DriverOK /\ [Next]_vars => DriverOK'
  <1> SUFFICES ASSUME TypeOK, DriverOK, [Next]_vars PROVE DriverOK'
    OBVIOUS
  <1> USE DEF DriverOK, Driver, Pcs, InLoop
  <1>1. DriverOK /\ MaxIterations \in Nat
    BY AgentAssumption
  <1>2. CASE Start
    BY <1>1, <1>2 DEF Start, Fails, At, To
  <1>3. CASE Arm
    BY <1>1, <1>3 DEF Arm, At, To
  <1>4. CASE LoopHead
    BY <1>1, <1>4 DEF LoopHead, At, To, Exhausted
  <1>5. CASE Gate
    <2>1. StoppedError \in {"Cancelled", "Timeout"}
      BY DEF StoppedError
    <2>2. CASE Leave(StoppedError)
      BY <1>1, <2>1, <2>2 DEF Leave
    <2>3. ASSUME NEW p \in {"steer", "iterate"}, drv' = [drv EXCEPT !.pc = p, !.attempt = 0]
          PROVE  DriverOK'
      BY <1>1, <1>5, <2>3 DEF Gate, At
    <2> QED  BY <1>5, <2>2, <2>3 DEF Gate
  <1>6. CASE Iterate
    BY <1>1, <1>6 DEF Iterate, At, To
  <1>7. CASE Generate
    <2>1. CASE To("replied")
      BY <1>1, <1>7, <2>1 DEF Generate, At, To
    <2>2. ASSUME NEW t \in Types \cup {Fatal}, drv' = [drv EXCEPT !.pc = "failed", !.err = t]
          PROVE  DriverOK'
      <3>1. t # NoError
        BY AgentAssumption DEF NoError, Fatal
      <3> QED  BY <1>1, <1>7, <2>2, <3>1 DEF Generate, At
    <2> QED  BY <1>7, <2>1, <2>2 DEF Generate
  <1>8. CASE Reply
    BY <1>1, <1>8 DEF Reply, At, To
  <1>9. CASE RunTools
    BY <1>1, <1>9 DEF RunTools, At, To, NoError, Fatal
  <1>10. CASE Fail
    BY <1>1, <1>10 DEF Fail, At, To, Leave, Decision
  <1>11. CASE Grant
    BY <1>1, <1>11 DEF Grant, At, To
  <1>12. CASE Retry
    <2>1. drv.pc = "backoff" /\ drv.attempt + 1 \in Nat
      BY <1>1, <1>12 DEF Retry, At
    <2> QED  BY <1>1, <1>12, <2>1 DEF Retry
  <1>13. CASE Close
    BY <1>1, <1>13 DEF Close, At, To
  <1>14. CASE Decide
    <2>1. StoppedError \in {"Cancelled", "Timeout"}
      BY DEF StoppedError
    <2>2. CASE Leave(StoppedError)
      BY <1>1, <2>1, <2>2 DEF Leave
    <2>3. CASE NextIteration
      <3>1. drv.iter + 1 \in 0..MaxIterations
        BY <1>1, <1>14 DEF Decide, At
      <3> QED  BY <1>1, <2>3, <3>1 DEF NextIteration
    <2>4. CASE To("ok")
      BY <1>1, <2>4 DEF To
    <2>5. CASE To("follow")
      BY <1>1, <1>14, <2>5 DEF Decide, At, To
    <2> QED  BY <1>14, <2>2, <2>3, <2>4, <2>5 DEF Decide
  <1>15. CASE Complete \/ Settle \/ ApiFail \/ OuterTimeout
    BY <1>1, <1>15 DEF Complete, Settle, ApiFail, OuterTimeout, Fails, At, To
  <1>16. CASE Crash
    BY <1>1, <1>16 DEF Crash, NewDriver, NoError
  <1>17. CASE UNCHANGED drv
    BY <1>1, <1>17
  <1>18. CASE InjectSteering
    BY <1>1, <1>18 DEF InjectSteering, At, To
  <1>19. CASE InjectFollowup
    <2>1. drv.iter + 1 \in 0..MaxIterations
      BY <1>1, <1>19 DEF InjectFollowup, At
    <2> QED  BY <1>1, <1>19, <2>1 DEF InjectFollowup, NextIteration
  <1> QED
    BY <1>2, <1>3, <1>4, <1>5, <1>6, <1>7, <1>8, <1>9, <1>10, <1>11, <1>12, <1>13,
       <1>14, <1>15, <1>16, <1>17, <1>18, <1>19, CallLeaves, EnvLeaves DEF Next, Drive, rest, vars
\* a checkpoint of typed state is a typed row, or leaves the newest one
LEMMA RowTyped ==
  ASSUME NEW s \in Statuses, NEW l \in LoopState, NEW v \in Conv,
         saved \in Rows \cup {NoRow}, Checkpoint(s, l, v)
  PROVE  saved' \in Rows \cup {NoRow}
  <1>1. RowOf(s, l, v) \in Rows
    BY DEF RowOf, Rows
  <1>2. saved' = saved \/ saved' = RowOf(s, l, v)
    BY DEF Checkpoint
  <1> QED  BY <1>1, <1>2

\* recording an error keeps the loop state typed
LEMMA RecordedTyped ==
  ASSUME st \in LoopState, NEW t \in Types \cup {Fatal}
  PROVE  Recorded(t) \in LoopState
  BY DEF Recorded, LoopState

\* charging a kind keeps the loop state typed
LEMMA ChargedTyped ==
  ASSUME NEW l \in LoopState, NEW k \in Kinds
  PROVE  [l EXCEPT !.charged[k] = @ + 1] \in LoopState
  BY DEF LoopState

\* every error type has a kind
LEMMA KindTyped ==
  ASSUME NEW t \in Types
  PROVE  KindOf[t] \in Kinds
  BY AgentAssumption

\* the typing of the loop state, the conversation, the newest row, the retries
DataOK ==
  /\ st \in LoopState /\ conv \in Conv /\ saved \in Rows \cup {NoRow}
  /\ spent \in [Kinds -> Nat]

\* every step keeps them typed
LEMMA DataStep == TypeOK /\ DriverOK /\ ControlOK' /\ [Next]_vars => DataOK'
  <1> SUFFICES ASSUME TypeOK, DriverOK, ControlOK', [Next]_vars PROVE DataOK'
    OBVIOUS
  <1> USE DEF DataOK
  <1>1. DataOK /\ status \in Statuses /\ status' \in Statuses
    BY DEF TypeOK, ControlOK
  <1>2. CASE Start \/ Generate \/ ApiFail \/ OuterTimeout
    BY <1>1, <1>2 DEF Start, Generate, ApiFail, OuterTimeout
  <1>3. CASE Arm \/ LoopHead \/ Grant \/ Close
    <2>1. UNCHANGED <<st, conv, spent>>
      BY <1>3 DEF Arm, LoopHead, Grant, Close
    <2>2. Checkpoint(status, st, conv) \/ UNCHANGED saved
      BY <1>3 DEF Arm, LoopHead, Grant, Close, Gated
    <2> QED  BY <1>1, <2>1, <2>2, RowTyped
  <1>4. CASE Gate \/ Decide \/ InjectSteering \/ InjectFollowup
    <2>1. UNCHANGED <<st, saved, spent>>
      BY <1>4 DEF Gate, Decide, InjectSteering, InjectFollowup
    <2>2. UNCHANGED conv \/ conv' = [conv EXCEPT !.msgs = @ + 1]
      BY <1>4 DEF Gate, Decide, InjectSteering, InjectFollowup, Inject
    <2>3. conv' \in Conv
      BY <1>1, <2>2 DEF Conv
    <2> QED  BY <1>1, <2>1, <2>3
  <1>5. CASE Iterate
    <2>1. UNCHANGED <<conv, spent>> /\ st' = [st EXCEPT !.cur = @ + 1]
      BY <1>5 DEF Iterate
    <2>2. st' \in LoopState
      BY <1>1, <2>1 DEF LoopState
    <2>3. Checkpoint(status, st', conv) \/ UNCHANGED saved
      BY <1>5 DEF Iterate
    <2> QED  BY <1>1, <2>1, <2>2, <2>3, RowTyped
  <1>6. CASE Reply \/ RunTools
    <2>1. UNCHANGED <<st, spent>>
      BY <1>6 DEF Reply, RunTools
    <2>2. \/ UNCHANGED conv
          \/ conv' = [conv EXCEPT !.msgs = @ + 1]
          \/ conv' = [msgs |-> conv.msgs + 1, open |-> TRUE]
          \/ conv' = [msgs |-> conv.msgs + 1, open |-> FALSE]
      BY <1>6 DEF Reply, RunTools
    <2>3. conv' \in Conv
      <3>1. conv.msgs + 1 \in Nat
        BY <1>1 DEF Conv
      <3>2. CASE conv' = [conv EXCEPT !.msgs = @ + 1]
        BY <1>1, <3>2 DEF Conv
      <3>3. ASSUME NEW b \in BOOLEAN, conv' = [msgs |-> conv.msgs + 1, open |-> b]
            PROVE  conv' \in Conv
        BY <3>1, <3>3 DEF Conv
      <3> QED  BY <1>1, <2>2, <3>2, <3>3
    <2>4. Checkpoint(status, st, conv') \/ UNCHANGED saved
      BY <1>6 DEF Reply, RunTools, Gated
    <2> QED  BY <1>1, <2>1, <2>3, <2>4, RowTyped
  <1>7. CASE Fail
    <2>1. drv.err \in Types \cup {Fatal}
      BY <1>7 DEF Fail, At, DriverOK, Driver
    <2> DEFINE l == Recorded(drv.err)
    <2>2. l \in LoopState
      BY <1>1, <2>1, RecordedTyped
    <2>3. UNCHANGED <<conv, spent>>
      BY <1>7 DEF Fail
    <2>4. CASE /\ Decision(l, drv.err) = "Grant"
               /\ st' = [l EXCEPT !.charged[KindOf[drv.err]] = @ + 1]
               /\ UNCHANGED saved
      <3>1. KindOf[drv.err] \in Kinds
        BY <2>1, <2>4, KindTyped DEF Decision
      <3>2. st' \in LoopState
        BY <2>2, <2>4, <3>1, ChargedTyped
      <3> QED  BY <1>1, <2>3, <2>4, <3>2
    <2>5. CASE st' = l /\ (Checkpoint(status, l, conv) \/ UNCHANGED saved)
      BY <1>1, <2>2, <2>3, <2>5, RowTyped
    <2> QED  BY <1>7, <2>4, <2>5 DEF Fail, Gated
  <1>8. CASE Retry
    <2>1. KindOf[drv.err] \in Kinds
      BY <1>8, KindTyped DEF Retry, At, DriverOK
    <2>2. UNCHANGED <<st, conv, saved>>
          /\ spent' = [spent EXCEPT ![KindOf[drv.err]] = @ + 1]
      BY <1>8 DEF Retry
    <2> QED  BY <1>1, <2>1, <2>2
  <1>9. CASE Complete \/ Settle
    <2>1. UNCHANGED <<st, conv, spent>>
      BY <1>9 DEF Complete, Settle
    <2>2. Checkpoint(status', st, conv) \/ UNCHANGED saved
      BY <1>9 DEF Complete, Settle
    <2> QED  BY <1>1, <2>1, <2>2, RowTyped
  <1>10. CASE Crash
    <2>1. saved \in Rows
      BY <1>1, <1>10 DEF Crash
    <2>2. saved.loop \in LoopState /\ saved.conv \in Conv
      BY <2>1 DEF Rows
    <2> QED  BY <1>1, <1>10, <2>2 DEF Crash
  <1>11. CASE UNCHANGED <<st, conv, saved, spent>>
    BY <1>1, <1>11
  <1> QED
    BY <1>2, <1>3, <1>4, <1>5, <1>6, <1>7, <1>8, <1>9, <1>10, <1>11,
       CallLeaves, EnvLeaves DEF Next, Drive, rest, vars

CallPcs == {"idle", "pause", "pauseSignal", "pauseTimer", "unpause",
            "resume", "resumeSignal", "stop", "stopSignal", "stopToken"}

\* the typing of inputs, trigger signals, control calls and bounds
EnvOK ==
  /\ queue \in [Inputs -> Nat]
  /\ mail \in Seq(Signals)
  /\ call \in [Callers -> CallPcs]
  /\ used \in [Budgets -> Nat]
  /\ asked \in BOOLEAN /\ stopped \in BOOLEAN

\* two updates of a function to the naturals
LEMMA TwoUpdates ==
  ASSUME NEW S, NEW f \in [S -> Nat], NEW a \in S, NEW b \in S, NEW m \in Nat, NEW n \in Nat
  PROVE  [f EXCEPT ![a] = m, ![b] = n] \in [S -> Nat]
  OBVIOUS

\* every step keeps them typed
LEMMA EnvStep == TypeOK /\ [Next]_vars => EnvOK'
  <1> SUFFICES ASSUME TypeOK, [Next]_vars PROVE EnvOK'
    OBVIOUS
  <1> USE DEF EnvOK
  <1>1. EnvOK
    BY DEF TypeOK, CallPcs
  <1>2. CASE Drive \/ OuterTimeout
    <2>1. mail' = mail \/ mail' = <<>>
      BY <1>2 DEF Drive, OuterTimeout, Start, Arm, LoopHead, Gate, InjectSteering, Iterate,
         Generate, Reply, RunTools, Fail, Grant, Retry, Close, Decide, InjectFollowup,
         Complete, Settle, ApiFail, env
    <2>2. mail' \in Seq(Signals)
      <3>1. <<>> \in Seq(Signals)
        OBVIOUS
      <3> QED  BY <1>1, <2>1, <3>1
    <2>3. queue' \in [Inputs -> Nat]
      <3>1. \/ UNCHANGED queue
            \/ queue' = [queue EXCEPT !.steer = 0, !.hand = queue.steer]
            \/ queue' = [queue EXCEPT !.follow = 0, !.hand = queue.follow]
            \/ queue' = [queue EXCEPT !.hand = 0, !.heard = @ + queue.hand]
        BY <1>2 DEF Drive, OuterTimeout, Start, Arm, LoopHead, Gate, InjectSteering, Inject,
           Iterate, Generate, Reply, RunTools, Fail, Grant, Retry, Close, Decide,
           InjectFollowup, Complete, Settle, ApiFail
      <3>2. /\ queue.steer \in Nat /\ queue.follow \in Nat
            /\ queue.heard + queue.hand \in Nat
        BY <1>1 DEF Inputs
      <3>3. CASE queue' = [queue EXCEPT !.steer = 0, !.hand = queue.steer]
        BY <1>1, <3>2, <3>3, TwoUpdates DEF Inputs
      <3>4. CASE queue' = [queue EXCEPT !.follow = 0, !.hand = queue.follow]
        BY <1>1, <3>2, <3>4, TwoUpdates DEF Inputs
      <3>5. CASE queue' = [queue EXCEPT !.hand = 0, !.heard = @ + queue.hand]
        BY <1>1, <3>2, <3>5, TwoUpdates DEF Inputs
      <3> QED  BY <1>1, <3>1, <3>3, <3>4, <3>5
    <2>4. UNCHANGED <<call, used, asked, stopped>>
      BY <1>2, DriveLeaves
    <2> QED  BY <1>1, <2>2, <2>3, <2>4
  <1>3. ASSUME NEW c \in Callers, NEW p \in CallPcs, Ask(c, p) PROVE EnvOK'
    BY <1>1, <1>3 DEF Ask, Goes, rest, Budgets
  <1>4. ASSUME NEW c \in Callers, CallStep(c) PROVE EnvOK'
    <2>1. \E p \in CallPcs : Goes(c, p)
      BY <1>4 DEF CallStep, PauseStatus, PauseSignal, PauseTimer, ResumeTimer, ResumeStatus,
         ResumeSignal, StopStatus, StopSignal, StopToken, CallPcs
    <2>2. call' \in [Callers -> CallPcs]
      BY <1>1, <2>1 DEF Goes
    <2>3. UNCHANGED <<queue, mail, used, asked>> /\ stopped' \in BOOLEAN
      BY <1>1, <1>4 DEF CallStep, PauseStatus, PauseSignal, PauseTimer, ResumeTimer, ResumeStatus,
         ResumeSignal, StopStatus, StopSignal, StopToken, rest
    <2> QED  BY <1>1, <2>2, <2>3
  <1>5. CASE WallFires \/ PauseFires
    BY <1>1, <1>5 DEF WallFires, PauseFires, Expire
  <1>6. ASSUME NEW s \in Signals, Trigger(s) PROVE EnvOK'
    <2>1. used' \in [Budgets -> Nat]
      <3>1. used' = [used EXCEPT !.signals = @ + 1]
        BY <1>6 DEF Trigger
      <3> QED  BY <1>1, <3>1 DEF Budgets
    <2>2. mail' \in Seq(Signals)
      BY <1>1, <1>6 DEF Trigger
    <2> QED  BY <1>1, <1>6, <2>1, <2>2 DEF Trigger
  <1>7. ASSUME NEW q \in {"steer", "follow"}, Input(q) PROVE EnvOK'
    <2>1. used' \in [Budgets -> Nat]
      <3>1. used' = [used EXCEPT !.inputs = @ + 1]
        BY <1>7 DEF Input
      <3> QED  BY <1>1, <3>1 DEF Budgets
    <2>2. queue' \in [Inputs -> Nat]
      BY <1>1, <1>7 DEF Input, Inputs
    <2> QED  BY <1>1, <1>7, <2>1, <2>2 DEF Input
  <1>8. CASE ConvertPending
    <2>1. queue' \in [Inputs -> Nat]
      <3>1. queue.steer + queue.follow \in Nat
        BY <1>1 DEF Inputs
      <3> QED  BY <1>1, <1>8, <3>1, TwoUpdates DEF ConvertPending, Inputs
    <2> QED  BY <1>1, <1>8, <2>1 DEF ConvertPending, env
  <1>9. CASE Crash
    <2>1. queue' \in [Inputs -> Nat]
      BY <1>1, <1>9 DEF Crash, Inputs
    <2>2. used' \in [Budgets -> Nat]
      BY <1>1, <1>9 DEF Crash, Budgets
    <2>3. mail' \in Seq(Signals) /\ call' \in [Callers -> CallPcs]
      BY <1>9 DEF Crash, CallPcs
    <2> QED  BY <1>9, <2>1, <2>2, <2>3 DEF Crash
  <1>10. CASE UNCHANGED vars
    BY <1>1, <1>10 DEF vars
  <1>11. "pause" \in CallPcs /\ "unpause" \in CallPcs /\ "stop" \in CallPcs
    BY DEF CallPcs
  <1> QED
    BY <1>2, <1>3, <1>4, <1>5, <1>6, <1>7, <1>8, <1>9, <1>10, <1>11
       DEF Next, AskPause, AskResume, AskStop
\* the type invariant with DriverOK is inductive
LEMMA AgentTypeInvariant == Spec => [](TypeOK /\ DriverOK)
  <1>1. Init => TypeOK /\ DriverOK
    <2> SUFFICES ASSUME Init PROVE TypeOK /\ DriverOK
      OBVIOUS
    <2>1. drv \in Driver /\ DriverOK
      BY AgentAssumption DEF Init, NewDriver, Driver, DriverOK, Pcs, InLoop, NoError
    <2>2. st \in LoopState /\ conv \in Conv
      BY DEF Init, Zero, LoopState, Conv
    <2>3. mail \in Seq(Signals) /\ used \in [Budgets -> Nat]
      BY DEF Init
    <2> QED  BY <2>1, <2>2, <2>3 DEF Init, TypeOK, Statuses, Signals
  <1>2. TypeOK /\ DriverOK /\ [Next]_vars => TypeOK' /\ DriverOK'
    <2> SUFFICES ASSUME TypeOK, DriverOK, [Next]_vars PROVE TypeOK' /\ DriverOK'
      OBVIOUS
    <2>1. ControlOK' /\ DriverOK' /\ EnvOK'
      BY ControlStep, DriverStep, EnvStep
    <2>2. DataOK'
      BY <2>1, DataStep
    <2> QED  BY <2>1, <2>2 DEF TypeOK, ControlOK, DriverOK, DataOK, EnvOK, CallPcs
  <1> QED  BY <1>1, <1>2, PTL DEF Spec
\* Type correctness: whatever the control calls, timers, triggers, inputs and
\* crashes, every field of the agent loop keeps its type, the iteration counter
\* of a driver within its limit
THEOREM AgentTypeCorrect == Spec => []TypeOK
  BY AgentTypeInvariant, PTL

\* the row lies between the retries performed and the account l
Covers(row, sp, l) ==
  /\ row.loop.cur <= l.cur
  /\ \A k \in Kinds : sp[k] <= row.loop.charged[k] /\ row.loop.charged[k] <= l.charged[k]

\* the account is within the limit
Affordable(l) == \A k \in Kinds : l.charged[k] <= RetryLimit

\* the newest row is of an earlier iteration
Fresh == drv.pc \in {"llm", "granted"} \/ (drv.pc = "failed" /\ drv.err # Fatal)

\* the inductive strengthening of RetriesCharged
Budget ==
  /\ Affordable(st)
  /\ saved = NoRow => /\ \A k \in Kinds : spent[k] = 0
                      /\ drv.pc \in {"start", "arm", "apifail", "ended"}
  /\ saved # NoRow => Covers(saved, spent, st)
  /\ Fresh => saved.loop.cur < st.cur
  /\ drv.pc = "granted" => spent[KindOf[drv.err]] < st.charged[KindOf[drv.err]]
  /\ drv.pc = "backoff" => spent[KindOf[drv.err]] < saved.loop.charged[KindOf[drv.err]]

\* a checkpoint of l covers l, and holds l itself when l is of a later
\* iteration than the newest row
LEMMA CheckpointCovers ==
  ASSUME NEW s \in Statuses, NEW l \in LoopState, NEW v, NEW sp \in [Kinds -> Nat],
         \A k \in Kinds : sp[k] <= l.charged[k],
         saved # NoRow => Covers(saved, sp, l),
         Checkpoint(s, l, v)
  PROVE  /\ saved' # NoRow /\ Covers(saved', sp, l)
         /\ saved = NoRow \/ saved.loop.cur < l.cur => saved'.loop = l
  <1>1. RowOf(s, l, v) # NoRow /\ RowOf(s, l, v).loop = l
    BY DEF RowOf, NoRow, Statuses, Terminal
  <1>2. CASE Duplicate(s, l, v)
    <2>1. saved # NoRow /\ saved' = saved /\ saved.loop.cur = l.cur
      BY <1>2 DEF Duplicate, Checkpoint
    <2>2. l.cur \in Nat
      BY DEF LoopState
    <2>3. ~(saved.loop.cur < l.cur)
      BY <2>1, <2>2
    <2> QED  BY <2>1, <2>3
  <1>3. CASE ~Duplicate(s, l, v)
    <2>1. saved' # NoRow /\ saved'.loop = l
      BY <1>1, <1>3 DEF Checkpoint
    <2> QED  BY <2>1 DEF Covers, LoopState
  <1> QED  BY <1>2, <1>3

\* every step keeps Budget when the error checkpoints are on and none is taken
\* midway
LEMMA BudgetStep ==
  ASSUME "error" \in Triggers, ~Midway, TypeOK, DriverOK, Budget, [Next]_vars
  PROVE  Budget'
  <1> USE DEF Budget, Fresh
  <1>1. /\ status \in Statuses /\ st \in LoopState /\ spent \in [Kinds -> Nat]
        /\ saved \in Rows \cup {NoRow} /\ drv \in Driver
    BY DEF TypeOK
  <1>2. \A k \in Kinds : spent[k] <= st.charged[k]
    <2>1. CASE saved = NoRow
      BY <1>1, <2>1 DEF LoopState
    <2>2. CASE saved # NoRow
      <3>1. saved \in Rows
        BY <1>1, <2>2
      <3>2. saved.loop \in LoopState
        BY <3>1 DEF Rows
      <3> QED  BY <1>1, <2>2, <3>2 DEF Covers, LoopState
    <2> QED  BY <2>1, <2>2
  <1>3. CASE /\ UNCHANGED <<st, saved, spent>>
             /\ drv'.pc \notin {"llm", "failed", "granted", "backoff"}
             /\ \/ drv.pc \notin {"start", "arm", "apifail", "ended"}
                \/ drv'.pc \in {"start", "arm", "apifail", "ended"}
    BY <1>3
  <1>4. CASE \/ Start \/ ApiFail \/ OuterTimeout \/ Gate \/ InjectSteering
             \/ Decide \/ InjectFollowup
    <2>1. UNCHANGED <<st, saved, spent>>
      BY <1>4 DEF Start, ApiFail, OuterTimeout, Gate, InjectSteering, Decide, InjectFollowup
    <2>2. CASE Start \/ ApiFail \/ OuterTimeout
      <3>1. drv'.pc \in {"arm", "apifail", "ended"}
        BY <1>1, <2>2 DEF Start, ApiFail, OuterTimeout, At, To, Fails, Driver
      <3> QED  BY <1>3, <2>1, <3>1
    <2>3. CASE Gate \/ InjectSteering
      <3>1. drv.pc \in {"gate", "steer"} /\ drv'.pc \in {"err", "steer", "iterate"}
        BY <1>1, <2>3 DEF Gate, InjectSteering, Leave, At, To, Driver
      <3> QED  BY <1>3, <2>1, <3>1
    <2>4. CASE Decide \/ InjectFollowup
      <3>1. drv.pc \in {"decide", "follow"} /\ drv'.pc \in {"head", "err", "ok", "follow"}
        BY <1>1, <2>4 DEF Decide, InjectFollowup, Leave, NextIteration, At, To, Driver
      <3> QED  BY <1>3, <2>1, <3>1
    <2> QED  BY <1>4, <2>2, <2>3, <2>4
  <1>5. ASSUME NEW s \in Statuses, NEW v, Checkpoint(s, st, v), UNCHANGED <<st, spent>>,
               drv'.pc \notin {"llm", "failed", "granted", "backoff"}
        PROVE  Budget'
    <2>1. saved' # NoRow /\ Covers(saved', spent, st)
      BY <1>1, <1>2, <1>5, CheckpointCovers
    <2> QED  BY <1>5, <2>1
  <1>6. CASE Arm \/ LoopHead \/ Close
    <2>1. drv.pc \notin {"start", "arm", "apifail", "ended"} \/ Arm
      BY <1>6 DEF LoopHead, Close, At
    <2>2. /\ drv'.pc \in {"head", "ok", "gate", "decide"}
          /\ UNCHANGED <<st, spent>>
          /\ Checkpoint(status, st, conv) \/ (UNCHANGED saved /\ ~Arm)
      BY <1>1, <1>6 DEF Arm, LoopHead, Close, Gated, At, To, Driver
    <2> QED  BY <1>1, <1>3, <1>5, <2>1, <2>2
  <1>7. CASE Complete \/ Settle
    <2>1. status' \in Statuses
      BY ControlStep DEF ControlOK
    <2>2. /\ drv.pc \in {"ok", "err"} /\ drv'.pc \in {"apifail", "ended"}
          /\ UNCHANGED <<st, spent>>
          /\ Checkpoint(status', st, conv) \/ UNCHANGED saved
      BY <1>1, <1>7 DEF Complete, Settle, At, To, Fails, Driver
    <2> QED  BY <1>3, <1>5, <2>1, <2>2
  <1>8. CASE Reply \/ RunTools
    <2>1. /\ drv.pc \in {"replied", "tools"}
          /\ UNCHANGED <<st, spent>>
          /\ Checkpoint(status, st, conv') \/ UNCHANGED saved
      BY <1>1, <1>8 DEF Reply, RunTools, Gated, At
    <2>2. \/ drv'.pc \in {"closed", "tools"}
          \/ drv'.pc = "failed" /\ drv'.err = Fatal /\ UNCHANGED saved
      BY <1>1, <1>8 DEF Reply, RunTools, At, To, Driver
    <2>3. CASE drv'.pc \in {"closed", "tools"}
      BY <1>1, <1>3, <1>5, <2>1, <2>3
    <2>4. CASE drv'.pc = "failed" /\ drv'.err = Fatal /\ UNCHANGED saved
      BY <2>1, <2>4
    <2> QED  BY <2>2, <2>3, <2>4
  <1>9. saved # NoRow => saved.loop \in LoopState
    BY <1>1 DEF Rows
  <1>10. CASE Iterate
    <2>1. /\ drv.pc = "iterate" /\ UNCHANGED <<saved, spent>>
          /\ st' = [st EXCEPT !.cur = @ + 1]
      BY <1>10 DEF Iterate, At
    <2>2. drv'.pc \in {"closed", "llm"}
      BY <1>1, <1>10 DEF Iterate, To, Driver
    <2>3. st'.charged = st.charged /\ st'.cur = st.cur + 1 /\ st.cur \in Nat
      BY <1>1, <2>1 DEF LoopState
    <2>4. saved # NoRow /\ saved.loop.cur \in Nat
      BY <1>9, <2>1 DEF LoopState
    <2>5. Covers(saved, spent, st')
      BY <2>3, <2>4 DEF Covers
    <2>6. saved.loop.cur < st'.cur
      BY <2>3, <2>4 DEF Covers
    <2>7. Affordable(st')
      BY <2>3 DEF Affordable
    <2> QED  BY <2>1, <2>2, <2>4, <2>5, <2>6, <2>7
  <1>11. CASE Generate
    <2>1. drv.pc = "llm" /\ UNCHANGED <<st, saved, spent>>
      BY <1>11 DEF Generate, At
    <2>2. drv'.pc \in {"replied", "failed"}
      BY <1>1, <1>11 DEF Generate, To, Driver
    <2> QED  BY <2>1, <2>2
  <1>12. CASE Fail
    <2>1. drv.pc = "failed" /\ UNCHANGED spent /\ drv.err \in Types \cup {Fatal}
      BY <1>12 DEF Fail, At, DriverOK, Driver
    <2> DEFINE l == Recorded(drv.err)
    <2>2. l \in LoopState /\ l.charged = st.charged /\ l.cur = st.cur
      BY <1>1, <2>1, RecordedTyped DEF Recorded, LoopState
    <2>3. saved # NoRow /\ Covers(saved, spent, l) /\ Affordable(l)
      BY <2>1, <2>2 DEF Covers, Affordable
    <2>4. CASE /\ Decision(l, drv.err) = "Grant"
               /\ st' = [l EXCEPT !.charged[KindOf[drv.err]] = @ + 1]
               /\ To("granted") /\ UNCHANGED saved
      <3> DEFINE k == KindOf[drv.err]
      <3>1. drv.err # Fatal /\ l.charged[k] < RetryLimit
        <4>1. drv.err # Fatal /\ ~(l.charged[k] >= RetryLimit)
          BY <2>4 DEF Decision
        <4>2. k \in Kinds
          BY <2>1, <4>1, KindTyped
        <4> QED  BY <2>2, <4>1, <4>2, AgentAssumption DEF LoopState
      <3>2. k \in Kinds /\ drv'.pc = "granted" /\ drv'.err = drv.err
        BY <1>1, <2>1, <2>4, <3>1, KindTyped DEF To, Driver
      <3>3. /\ st'.cur = l.cur
            /\ \A j \in Kinds : st'.charged[j] = IF j = k THEN l.charged[j] + 1 ELSE l.charged[j]
        BY <2>2, <2>4, <3>2 DEF LoopState
      <3>4. \A j \in Kinds : /\ l.charged[j] \in Nat /\ spent[j] \in Nat
                             /\ saved.loop.charged[j] \in Nat
        BY <1>1, <1>9, <2>2, <2>3 DEF LoopState
      <3>5. Covers(saved, spent, st')
        BY <2>3, <3>3, <3>4 DEF Covers
      <3>6. Affordable(st')
        BY <2>3, <3>1, <3>3, <3>4, AgentAssumption DEF Affordable
      <3>7. saved.loop.cur < st'.cur
        BY <2>1, <2>2, <3>1, <3>3
      <3>8. spent[k] < st'.charged[k]
        BY <1>2, <2>2, <3>2, <3>3, <3>4
      <3> QED  BY <2>1, <2>3, <2>4, <3>2, <3>5, <3>6, <3>7, <3>8
    <2>5. CASE /\ st' = l /\ Leave("Failed")
               /\ Checkpoint(status, l, conv) \/ UNCHANGED saved
      <3>1. saved' # NoRow /\ Covers(saved', spent, l)
        BY <1>1, <1>2, <2>2, <2>3, <2>5, CheckpointCovers
      <3>2. drv'.pc = "err"
        BY <1>1, <2>5 DEF Leave, Driver
      <3> QED  BY <2>1, <2>3, <2>5, <3>1, <3>2
    <2> QED  BY <1>12, <2>4, <2>5 DEF Fail, Gated
  <1>13. CASE Grant
    <2>1. /\ drv.pc = "granted" /\ Checkpoint(status, st, conv)
          /\ UNCHANGED <<st, spent>>
      <3>1. drv.pc = "granted" /\ UNCHANGED <<st, spent>> /\ Gated("error", st, conv)
        BY <1>13 DEF Grant, At
      <3>2. st.cur > 0
        BY <1>1, <1>9, <3>1 DEF LoopState
      <3> QED  BY <3>1, <3>2 DEF Gated, Due
    <2>2. drv'.pc = "backoff" /\ drv'.err = drv.err
      BY <1>1, <1>13 DEF Grant, To, Driver
    <2>3. saved' # NoRow /\ Covers(saved', spent, st) /\ saved'.loop = st
      BY <1>1, <1>2, <2>1, CheckpointCovers
    <2> QED  BY <2>1, <2>2, <2>3
  <1>14. CASE Retry
    <2> DEFINE k == KindOf[drv.err]
    <2>1. drv.pc = "backoff" /\ k \in Kinds /\ UNCHANGED <<st, saved>>
      BY <1>14, KindTyped DEF Retry, At, DriverOK
    <2>2. drv'.pc = "iterate"
      BY <1>1, <1>14 DEF Retry, Driver
    <2>3. spent' = [spent EXCEPT ![k] = @ + 1]
      BY <1>14 DEF Retry
    <2>4. \A j \in Kinds : spent[j] \in Nat /\ saved.loop.charged[j] \in Nat
      BY <1>1, <1>9, <2>1 DEF LoopState
    <2>5. Covers(saved, spent', st)
      BY <1>1, <2>1, <2>3, <2>4 DEF Covers
    <2> QED  BY <2>1, <2>2, <2>5
  <1>15. CASE Crash
    <2>1. saved # NoRow /\ UNCHANGED <<saved, spent>> /\ st' = saved.loop /\ drv'.pc = "start"
      BY <1>15 DEF Crash, NewDriver
    <2>2. saved.loop \in LoopState
      BY <1>9, <2>1
    <2>3. Covers(saved, spent, saved.loop)
      BY <2>1, <2>2 DEF Covers, LoopState
    <2>4. Affordable(saved.loop)
      BY <1>1, <2>1, <2>2, AgentAssumption DEF Affordable, Covers, LoopState
    <2> QED  BY <2>1, <2>3, <2>4
  <1>16. CASE UNCHANGED <<drv, st, saved, spent>>
    BY <1>16
  <1> QED
    BY <1>4, <1>6, <1>7, <1>8, <1>10, <1>11, <1>12, <1>13, <1>14, <1>15, <1>16,
       CallLeaves, EnvLeaves DEF Next, Drive, rest, vars

\* When the error checkpoints are switched on and none is taken between the
\* start of an iteration and its LLM call, the retries a run performs, over all
\* its crashes and resumes, are on its account and within max_retries of the
\* failure policy, however seldom the iteration checkpoint is due: the grant is
\* charged before the error checkpoint, and that checkpoint is written
THEOREM RetriesAlwaysCharged ==
  "error" \in Triggers /\ ~Midway => (Spec => []RetriesCharged)
  <1> SUFFICES ASSUME "error" \in Triggers, ~Midway PROVE Spec => []RetriesCharged
    OBVIOUS
  <1>1. Init => Budget
    BY AgentAssumption DEF Init, Budget, Affordable, Fresh, Zero, NewDriver, NoRow
  <1>2. TypeOK /\ DriverOK /\ Budget => RetriesCharged
    <2> SUFFICES ASSUME TypeOK, DriverOK, Budget PROVE RetriesCharged
      OBVIOUS
    <2>1. st \in LoopState /\ spent \in [Kinds -> Nat] /\ saved \in Rows \cup {NoRow}
      BY DEF TypeOK
    <2>2. CASE saved = NoRow
      BY <2>1, <2>2 DEF Budget, Affordable, RetriesCharged, LoopState
    <2>3. CASE saved # NoRow
      <3>1. saved.loop \in LoopState
        BY <2>1, <2>3 DEF Rows
      <3> QED  BY <2>1, <2>3, <3>1 DEF Budget, Affordable, Covers, RetriesCharged, LoopState
    <2> QED  BY <2>2, <2>3
  <1> QED  BY <1>1, <1>2, AgentTypeInvariant, BudgetStep, PTL DEF Spec
\* the inductive strengthening of HonestStatus: every pending stop has a reason
Reasons ==
  /\ HonestStatus
  /\ signal = "Stop" => expired \/ asked
  /\ \A i \in DOMAIN mail : mail[i] = "Stop" => asked
  /\ \A c \in Callers : call[c] \in {"stop", "stopSignal"} => asked
  /\ drv.pc = "err" /\ status \notin Terminal =>
       /\ drv.cause = "Timeout" => expired
       /\ drv.cause = "Cancelled" => asked

\* every step keeps Reasons
LEMMA ReasonsStep ==
  ASSUME TypeOK, DriverOK, Reasons, [Next]_vars
  PROVE  Reasons'
  <1> USE DEF Reasons, HonestStatus
  <1>1. /\ status \in Statuses /\ drv \in Driver /\ mail \in Seq(Signals)
        /\ call \in [Callers -> CallPcs]
    BY DEF TypeOK, CallPcs
  <1>2. ASSUME UNCHANGED <<status, signal, expired, mail, call, asked>>,
               drv'.pc # "err"
        PROVE  Reasons'
    BY <1>2
  <1>3. CASE Arm \/ Iterate \/ Generate \/ Reply \/ RunTools
    <2>1. UNCHANGED <<status, signal, expired, mail, call, asked>>
      BY <1>3 DEF Arm, Iterate, Generate, Reply, RunTools, control, env
    <2>2. drv'.pc # "err"
      BY <1>1, <1>3 DEF Arm, Iterate, Generate, Reply, RunTools, To, Driver
    <2> QED  BY <1>2, <2>1, <2>2
  <1>4. CASE Grant \/ Retry \/ Close \/ OuterTimeout
    <2>1. UNCHANGED <<status, signal, expired, mail, call, asked>>
      BY <1>4 DEF Grant, Retry, Close, OuterTimeout, control, env
    <2>2. drv'.pc # "err"
      BY <1>1, <1>4 DEF Grant, Retry, Close, OuterTimeout, To, Driver
    <2> QED  BY <1>2, <2>1, <2>2
  <1>5. ASSUME UNCHANGED <<status, signal, expired, mail, call, asked>>,
               signal = "Stop", Leave(StoppedError)
        PROVE  Reasons'
    <2>1. drv'.cause = StoppedError
      BY <1>1, <1>5 DEF Leave, Driver
    <2> QED  BY <1>5, <2>1 DEF StoppedError
  <1>6. CASE Gate \/ Decide \/ InjectSteering \/ InjectFollowup
    <2>1. UNCHANGED <<status, signal, expired, mail, call, asked>>
      BY <1>6 DEF Gate, Decide, InjectSteering, InjectFollowup, control, env
    <2>2. \/ signal = "Stop" /\ Leave(StoppedError)
          \/ drv'.pc # "err"
      BY <1>1, <1>6 DEF Gate, Decide, InjectSteering, InjectFollowup, NextIteration, To, Driver
    <2> QED  BY <1>2, <1>5, <2>1, <2>2
  <1>7. CASE Fail
    <2>1. UNCHANGED <<status, signal, expired, mail, call, asked>>
      BY <1>7 DEF Fail, control, env
    <2>2. drv'.pc # "err" \/ drv'.cause = "Failed"
      BY <1>1, <1>7 DEF Fail, To, Leave, Driver
    <2> QED  BY <2>1, <2>2
  <1>8. CASE Start \/ Complete \/ ApiFail
    <2>1. UNCHANGED <<signal, expired, mail, call, asked>>
      BY <1>8 DEF Start, Complete, ApiFail, env
    <2>2. status' \in {status, "Running", "Completed", "Failed"}
      BY <1>8 DEF Start, Complete, ApiFail
    <2>3. drv'.pc # "err"
      BY <1>1, <1>8 DEF Start, Complete, ApiFail, To, Fails, Driver
    <2> QED  BY <2>1, <2>2, <2>3
  <1>9. CASE Settle
    <2>1. UNCHANGED <<signal, expired, mail, call, asked>> /\ drv.pc = "err"
      BY <1>9 DEF Settle, At, env
    <2>2. drv'.pc # "err"
      BY <1>1, <1>9 DEF Settle, To, Fails, Driver
    <2>3. status' = status \/ (status \notin Terminal /\ status' = drv.cause)
      BY <1>9 DEF Settle
    <2> QED  BY <2>1, <2>2, <2>3
  <1>10. CASE LoopHead
    <2>1. UNCHANGED <<status, expired, call, asked>>
      BY <1>10 DEF LoopHead
    <2>2. drv'.pc # "err"
      BY <1>1, <1>10 DEF LoopHead, To, Driver
    <2>3. \/ UNCHANGED <<signal, mail>>
          \/ mail' = <<>> /\ signal' = signal
          \/ mail' = <<>> /\ mail # <<>> /\ signal' = mail[Len(mail)]
      BY <1>10 DEF LoopHead
    <2>4. mail # <<>> => Len(mail) \in DOMAIN mail
      BY <1>1
    <2>5. mail' = <<>> => DOMAIN mail' = {}
      OBVIOUS
    <2> QED  BY <2>1, <2>2, <2>3, <2>4, <2>5
  <1>11. ASSUME NEW c \in Callers, NEW p \in {"pause", "unpause", "stop"}, Ask(c, p)
         PROVE  Reasons'
    <2>1. /\ UNCHANGED <<status, signal, expired, mail, drv>>
          /\ asked' = (asked \/ p = "stop") /\ call' = [call EXCEPT ![c] = p]
      BY <1>11 DEF Ask, Goes, control, rest
    <2> QED  BY <1>1, <2>1
  <1>12. ASSUME NEW c \in Callers, CallStep(c) PROVE Reasons'
    <2>1. UNCHANGED <<drv, mail, asked, expired>>
      BY <1>12 DEF CallStep, PauseStatus, PauseSignal, PauseTimer, ResumeTimer, ResumeStatus,
         ResumeSignal, StopStatus, StopSignal, StopToken, rest
    <2>2. CASE PauseStatus(c) \/ ResumeStatus(c)
      <3>1. UNCHANGED signal /\ status' \in {status, "Running", "Paused"}
        BY <2>2 DEF PauseStatus, ResumeStatus
      <3>2. status \in Terminal => status' = status
        BY <2>2 DEF PauseStatus, ResumeStatus, Allowed, Terminal
      <3>3. \E p \in {"idle", "pauseSignal", "resumeSignal"} : call' = [call EXCEPT ![c] = p]
        BY <2>2 DEF PauseStatus, ResumeStatus, Goes
      <3> QED  BY <1>1, <2>1, <3>1, <3>2, <3>3
    <2>3. CASE StopStatus(c)
      <3>1. call[c] = "stop" /\ UNCHANGED signal /\ status' \in {status, "Cancelled"}
        BY <2>3 DEF StopStatus
      <3>2. \E p \in {"idle", "stopSignal"} : call' = [call EXCEPT ![c] = p]
        BY <2>3 DEF StopStatus, Goes
      <3> QED  BY <1>1, <2>1, <3>1, <3>2 DEF Terminal
    <2>4. CASE PauseSignal(c) \/ ResumeSignal(c) \/ StopSignal(c)
      <3>1. UNCHANGED status /\ signal' \in {"Pause", "Active", "Stop"}
            /\ (signal' = "Stop" => call[c] = "stopSignal")
        BY <2>4 DEF PauseSignal, ResumeSignal, StopSignal
      <3>2. \E p \in {"idle", "pauseTimer", "stopToken"} : call' = [call EXCEPT ![c] = p]
        BY <2>4 DEF PauseSignal, ResumeSignal, StopSignal, Goes
      <3> QED  BY <1>1, <2>1, <3>1, <3>2
    <2>5. CASE PauseTimer(c) \/ ResumeTimer(c) \/ StopToken(c)
      <3>1. UNCHANGED <<status, signal>>
        BY <2>5 DEF PauseTimer, ResumeTimer, StopToken
      <3>2. \E p \in {"idle", "resume"} : call' = [call EXCEPT ![c] = p]
        BY <2>5 DEF PauseTimer, ResumeTimer, StopToken, Goes
      <3> QED  BY <1>1, <2>1, <3>1, <3>2
    <2> QED  BY <1>12, <2>2, <2>3, <2>4, <2>5 DEF CallStep
  <1>13. CASE WallFires \/ PauseFires
    <2>1. expired' = TRUE /\ UNCHANGED <<status, drv, mail, call, asked>>
      BY <1>13 DEF WallFires, PauseFires, Expire
    <2> QED  BY <2>1
  <1>14. ASSUME NEW s \in Signals, Trigger(s) PROVE Reasons'
    <2>1. /\ UNCHANGED <<status, signal, expired, drv, call>>
          /\ asked' = (asked \/ s = "Stop") /\ mail' = Append(mail, s)
      BY <1>14 DEF Trigger, control
    <2>2. \A i \in DOMAIN mail' : mail'[i] = "Stop" => asked'
      <3>1. /\ DOMAIN mail' = 1..(Len(mail) + 1) /\ DOMAIN mail = 1..Len(mail)
            /\ Len(mail) \in Nat /\ mail'[Len(mail) + 1] = s
            /\ \A i \in 1..Len(mail) : mail'[i] = mail[i]
        BY <1>1, <2>1
      <3>2. (asked => asked') /\ (s = "Stop" => asked')
        BY <2>1
      <3> QED  BY <3>1, <3>2
    <2> QED  BY <2>1, <2>2
  <1>15. CASE ConvertPending \/ (\E q \in {"steer", "follow"} : Input(q)) \/ UNCHANGED vars
    <2>1. UNCHANGED <<status, signal, expired, mail, call, asked, drv>>
      BY <1>15 DEF ConvertPending, Input, control, env, vars
    <2> QED  BY <2>1
  <1>16. CASE Crash
    <2>1. /\ status' \notin Terminal /\ signal' = "Active" /\ mail' = <<>>
          /\ call' = [c \in Callers |-> "idle"] /\ drv'.pc = "start"
      BY <1>16 DEF Crash, NewDriver
    <2> QED  BY <2>1 DEF Terminal
  <1> QED
    BY <1>3, <1>4, <1>6, <1>7, <1>8, <1>9, <1>10, <1>11, <1>12, <1>13, <1>14, <1>15, <1>16
       DEF Next, Drive, AskPause, AskResume, AskStop

\* A run is Timeout only after one of its timers fired and Cancelled only after
\* somebody asked for a stop, whatever calls, triggers and timers race
THEOREM StatusAlwaysHonest == Spec => []HonestStatus
  <1>1. Init => Reasons
    BY DEF Init, Reasons, HonestStatus, NewDriver
  <1>2. Reasons => HonestStatus
    BY DEF Reasons
  <1> QED  BY <1>1, <1>2, AgentTypeInvariant, ReasonsStep, PTL DEF Spec

\* stop() returns after the abort token is cancelled
Aborted == stopped => abort

\* After a stop() returned no LLM call of the run is answered, whatever resume()
\* calls race with it: the token is cancelled by then and never reset, and a
\* gateway whose token is cancelled does not reply (the assumption of Generate)
THEOREM CancelAlwaysSticks == Spec => CancelSticks
  <1>1. Init => Aborted
    BY DEF Init, Aborted
  <1>2. Aborted /\ [Next]_vars => Aborted'
    <2> SUFFICES ASSUME Aborted, [Next]_vars PROVE Aborted'
      OBVIOUS
    <2> USE DEF Aborted
    <2>1. CASE Drive \/ OuterTimeout
      BY <2>1 DEF Drive, OuterTimeout, Start, Arm, LoopHead, Gate, InjectSteering, Iterate,
         Generate, Reply, RunTools, Fail, Grant, Retry, Close, Decide, InjectFollowup,
         Complete, Settle, ApiFail, control, env
    <2>2. ASSUME NEW c \in Callers, AskPause(c) \/ AskResume(c) \/ AskStop(c) PROVE Aborted'
      BY <2>2 DEF AskPause, AskResume, AskStop, Ask, control
    <2>3. ASSUME NEW c \in Callers, CallStep(c) PROVE Aborted'
      BY <2>3 DEF CallStep, PauseStatus, PauseSignal, PauseTimer, ResumeTimer, ResumeStatus,
         ResumeSignal, StopStatus, StopSignal, StopToken
    <2>4. CASE WallFires \/ PauseFires \/ (\E s \in Signals : Trigger(s))
                 \/ (\E q \in {"steer", "follow"} : Input(q)) \/ ConvertPending
      BY <2>4 DEF WallFires, PauseFires, Expire, Trigger, Input, ConvertPending, control, env
    <2>5. CASE Crash
      BY <2>5 DEF Crash
    <2>6. CASE UNCHANGED vars
      BY <2>6 DEF vars
    <2> QED  BY <2>1, <2>2, <2>3, <2>4, <2>5, <2>6 DEF Next
  <1>3. TypeOK /\ Aborted /\ [Next]_vars => [At("llm") /\ drv'.pc = "replied" => ~stopped]_vars
    <2> SUFFICES ASSUME TypeOK, Aborted, Next, At("llm"), drv'.pc = "replied" PROVE ~stopped
      OBVIOUS
    <2>1. drv \in Driver /\ drv.pc = "llm"
      BY DEF TypeOK, At
    <2>2. Generate
      <3>1. CASE Drive
        BY <2>1, <3>1 DEF Drive, Start, Arm, LoopHead, Gate, InjectSteering, Iterate, Reply,
           RunTools, Fail, Grant, Retry, Close, Decide, InjectFollowup, Complete, Settle,
           ApiFail, At
      <3>2. CASE OuterTimeout
        BY <2>1, <3>2 DEF OuterTimeout, To, Driver
      <3>3. CASE Crash
        BY <3>3 DEF Crash, NewDriver
      <3>4. CASE UNCHANGED drv
        BY <2>1, <3>4
      <3> QED  BY <3>1, <3>2, <3>3, <3>4, CallLeaves, EnvLeaves DEF Next, rest
    <2>3. ~abort
      BY <2>1, <2>2 DEF Generate, Driver
    <2> QED  BY <2>3 DEF Aborted
  <1> QED  BY <1>1, <1>2, <1>3, AgentTypeInvariant, PTL DEF Spec, CancelSticks

\* the inputs accepted so far, wherever they are
Total(q) == q.steer + q.follow + q.hand + q.heard

\* the places of a driver with drained inputs in its hand
InHand ==
  queue.hand > 0 => \/ drv.pc \in {"steer", "follow"}
                    \/ Api /\ drv.pc \in {"apifail", "ended"}

\* a driver step that leaves the inputs alone is not one of a driver with
\* inputs in its hand, unless it drops them
LEMMA InHandStep ==
  ASSUME TypeOK, InHand, Drive \/ OuterTimeout, UNCHANGED queue
  PROVE  InHand'
  <1>1. drv \in Driver
    BY DEF TypeOK
  <1>2. queue.hand \in Nat /\ queue.heard \in Nat
    BY DEF TypeOK, Inputs
  <1>3. CASE queue.hand > 0 /\ drv.pc \in {"steer", "follow"} /\ Drive
    <2>1. InjectSteering \/ InjectFollowup
      BY <1>3 DEF Drive, Start, Arm, LoopHead, Gate, Iterate, Generate, Reply,
         RunTools, Fail, Grant, Retry, Close, Decide, Complete, Settle, ApiFail, At
    <2>2. queue' = [queue EXCEPT !.hand = 0, !.heard = @ + queue.hand]
      BY <2>1 DEF InjectSteering, InjectFollowup, Inject
    <2>3. queue'.hand = 0
      BY <2>2 DEF TypeOK, Inputs
    <2> QED  BY <1>3, <2>3
  <1>4. CASE OuterTimeout
    BY <1>1, <1>4 DEF OuterTimeout, InHand, To, Driver
  <1>5. CASE queue.hand > 0 /\ Api /\ drv.pc \in {"apifail", "ended"} /\ Drive
    <2>1. ApiFail
      BY <1>5 DEF Drive, Start, Arm, LoopHead, Gate, InjectSteering, Iterate, Generate, Reply,
         RunTools, Fail, Grant, Retry, Close, Decide, InjectFollowup, Complete, Settle, At
    <2> QED  BY <1>1, <1>5, <2>1 DEF ApiFail, InHand, To, Driver
  <1>6. CASE ~(queue.hand > 0)
    BY <1>6 DEF InHand
  <1> QED  BY <1>3, <1>4, <1>5, <1>6 DEF InHand

\* While the process lives every accepted runtime input is in one of the
\* buffers, drained and about to be appended, or in the conversation, and
\* counted once; only a driver the API's outer timeout dropped keeps one in
\* its hand for ever
THEOREM InputsAlwaysOnce == Spec => []InputsOnce
  <1>0. InputsOnce <=> (used.crashes = 0 => Total(queue) = used.inputs /\ InHand)
    BY DEF InputsOnce, Total, InHand
  <1>1. Init => InputsOnce
    BY DEF Init, InputsOnce, Budgets, Inputs
  <1>2. TypeOK /\ InputsOnce /\ [Next]_vars => InputsOnce'
    <2> SUFFICES ASSUME TypeOK, InputsOnce, [Next]_vars, used'.crashes = 0
                 PROVE  Total(queue') = used'.inputs /\ InHand'
      BY DEF InputsOnce, Total, InHand
    <2>1. queue \in [Inputs -> Nat] /\ used \in [Budgets -> Nat] /\ drv \in Driver
      BY DEF TypeOK
    <2>2. /\ queue.steer \in Nat /\ queue.follow \in Nat
          /\ queue.hand \in Nat /\ queue.heard \in Nat
          /\ used.crashes \in Nat /\ used.inputs \in Nat
      BY <2>1 DEF Inputs, Budgets
    <2>3. CASE used.crashes = 0
      <3>1. Total(queue) = used.inputs /\ InHand
        BY <1>0, <2>3
      <3>2. CASE Gate \/ Decide
        <4>1. UNCHANGED used /\ drv.pc \in {"gate", "decide"}
          BY <3>2 DEF Gate, Decide, env, At
        <4>2. queue.hand = 0
          BY <2>2, <3>1, <4>1 DEF InHand
        <4>3. CASE queue' = queue
          BY <3>1, <4>1, <4>2, <4>3 DEF InHand
        <4>4. CASE /\ queue' = [queue EXCEPT !.steer = 0, !.hand = queue.steer]
                   /\ drv'.pc = IF queue.steer > 0 THEN "steer" ELSE "iterate"
          <5>1. /\ queue'.steer = 0 /\ queue'.follow = queue.follow
                /\ queue'.hand = queue.steer /\ queue'.heard = queue.heard
            BY <2>1, <4>4 DEF Inputs
          <5>2. Total(queue') = used'.inputs
            BY <2>2, <3>1, <4>1, <4>2, <5>1 DEF Total
          <5> QED  BY <2>2, <4>4, <5>1, <5>2 DEF InHand
        <4>5. CASE /\ queue' = [queue EXCEPT !.follow = 0, !.hand = queue.follow]
                   /\ drv'.pc = "follow"
          <5>1. /\ queue'.steer = queue.steer /\ queue'.follow = 0
                /\ queue'.hand = queue.follow /\ queue'.heard = queue.heard
            BY <2>1, <4>5 DEF Inputs
          <5>2. Total(queue') = used'.inputs
            BY <2>2, <3>1, <4>1, <4>2, <5>1 DEF Total
          <5> QED  BY <4>5, <5>2 DEF InHand
        <4> QED  BY <2>1, <3>2, <4>3, <4>4, <4>5 DEF Gate, Decide, To, Driver
      <3>3. CASE InjectSteering \/ InjectFollowup
        <4>1. UNCHANGED used
          BY <3>3 DEF InjectSteering, InjectFollowup, env
        <4>2. queue' = [queue EXCEPT !.hand = 0, !.heard = @ + queue.hand]
          BY <3>3 DEF InjectSteering, InjectFollowup, Inject
        <4>3. /\ queue'.steer = queue.steer /\ queue'.follow = queue.follow
              /\ queue'.hand = 0 /\ queue'.heard = queue.heard + queue.hand
          BY <2>1, <4>2 DEF Inputs
        <4>4. Total(queue') = used'.inputs
          BY <2>2, <3>1, <4>1, <4>3 DEF Total
        <4> QED  BY <4>3, <4>4 DEF InHand
      <3>4. CASE ConvertPending
        <4>1. UNCHANGED <<used, drv>>
          BY <3>4 DEF ConvertPending, env
        <4>2. queue' = [queue EXCEPT !.steer = @ + queue.follow, !.follow = 0]
          BY <3>4 DEF ConvertPending
        <4>3. /\ queue'.steer = queue.steer + queue.follow /\ queue'.follow = 0
              /\ queue'.hand = queue.hand /\ queue'.heard = queue.heard
          BY <2>1, <4>2 DEF Inputs
        <4>4. Total(queue') = used'.inputs
          BY <2>2, <3>1, <4>1, <4>3 DEF Total
        <4> QED  BY <3>1, <4>1, <4>3, <4>4 DEF InHand
      <3>5. ASSUME UNCHANGED <<queue, drv>>, used'.inputs = used.inputs
            PROVE  Total(queue') = used'.inputs /\ InHand'
        BY <3>1, <3>5 DEF InHand
      <3>6. CASE /\ Drive \/ OuterTimeout
                 /\ ~Gate /\ ~Decide /\ ~InjectSteering /\ ~InjectFollowup
        <4>1. UNCHANGED queue
          BY <3>6 DEF Drive, OuterTimeout, Start, Arm, LoopHead, Iterate, Generate, Reply,
             RunTools, Fail, Grant, Retry, Close, Complete, Settle, ApiFail
        <4>2. UNCHANGED used
          BY <3>6, DriveLeaves
        <4> QED  BY <3>1, <3>6, <4>1, <4>2, InHandStep
      <3>7. ASSUME NEW c \in Callers, NEW p, Ask(c, p)
            PROVE  Total(queue') = used'.inputs /\ InHand'
        <4>1. UNCHANGED <<queue, drv>> /\ used' = [used EXCEPT !.calls = @ + 1]
          BY <3>7 DEF Ask, rest
        <4>2. used'.inputs = used.inputs
          BY <2>1, <4>1 DEF Budgets
        <4> QED  BY <3>5, <4>1, <4>2
      <3>8. ASSUME NEW c \in Callers, CallStep(c)
            PROVE  Total(queue') = used'.inputs /\ InHand'
        BY <3>5, <3>8 DEF CallStep, PauseStatus, PauseSignal, PauseTimer, ResumeTimer,
           ResumeStatus, ResumeSignal, StopStatus, StopSignal, StopToken, rest
      <3>9. ASSUME NEW s \in Signals, Trigger(s)
            PROVE  Total(queue') = used'.inputs /\ InHand'
        <4>1. UNCHANGED <<queue, drv>> /\ used' = [used EXCEPT !.signals = @ + 1]
          BY <3>9 DEF Trigger
        <4>2. used'.inputs = used.inputs
          BY <2>1, <4>1 DEF Budgets
        <4> QED  BY <3>5, <4>1, <4>2
      <3>10. ASSUME NEW q \in {"steer", "follow"}, Input(q)
             PROVE  Total(queue') = used'.inputs /\ InHand'
        <4>1. /\ used' = [used EXCEPT !.inputs = @ + 1]
              /\ queue' = [queue EXCEPT ![q] = @ + 1] /\ UNCHANGED drv
          BY <3>10 DEF Input
        <4>2. used'.inputs = used.inputs + 1
          BY <2>1, <4>1 DEF Budgets
        <4>3. /\ queue'.hand = queue.hand /\ queue'.heard = queue.heard
              /\ \/ queue'.steer = queue.steer + 1 /\ queue'.follow = queue.follow
                 \/ queue'.steer = queue.steer /\ queue'.follow = queue.follow + 1
          <5>1. CASE q = "steer"
            BY <2>1, <4>1, <5>1 DEF Inputs
          <5>2. CASE q = "follow"
            BY <2>1, <4>1, <5>2 DEF Inputs
          <5> QED  BY <5>1, <5>2
        <4>4. Total(queue') = used'.inputs
          BY <2>2, <3>1, <4>2, <4>3 DEF Total
        <4> QED  BY <3>1, <4>1, <4>3, <4>4 DEF InHand
      <3>11. CASE WallFires \/ PauseFires \/ UNCHANGED vars
        BY <3>5, <3>11 DEF WallFires, PauseFires, Expire, vars
      <3>12. ~Crash
        <4>1. Crash => used'.crashes = used.crashes + 1
          BY <2>1 DEF Crash, Budgets
        <4> QED  BY <2>3, <4>1
      <3> QED
        BY <3>2, <3>3, <3>4, <3>6, <3>7, <3>8, <3>9, <3>10, <3>11, <3>12
           DEF Next, Drive, AskPause, AskResume, AskStop
    <2>4. used.crashes = 0
      <3>1. used'.crashes \in {used.crashes, used.crashes + 1}
        <4>1. CASE UNCHANGED used
          BY <4>1
        <4>2. ASSUME NEW b \in Budgets, used' = [used EXCEPT ![b] = @ + 1]
              PROVE  used'.crashes \in {used.crashes, used.crashes + 1}
          BY <2>1, <4>2 DEF Budgets
        <4>3. \/ UNCHANGED used
              \/ \E b \in Budgets : used' = [used EXCEPT ![b] = @ + 1]
          <5>1. CASE Drive \/ OuterTimeout
            BY <5>1, DriveLeaves
          <5>2. ASSUME NEW c \in Callers, AskPause(c) \/ AskResume(c) \/ AskStop(c)
                PROVE  used' = [used EXCEPT !["calls"] = @ + 1]
            BY <5>2 DEF AskPause, AskResume, AskStop, Ask
          <5>3. ASSUME NEW c \in Callers, CallStep(c) PROVE UNCHANGED used
            BY <5>3 DEF CallStep, PauseStatus, PauseSignal, PauseTimer, ResumeTimer,
               ResumeStatus, ResumeSignal, StopStatus, StopSignal, StopToken
          <5>4. CASE WallFires \/ PauseFires \/ ConvertPending \/ UNCHANGED vars
            BY <5>4 DEF WallFires, PauseFires, Expire, ConvertPending, env, vars
          <5>5. ASSUME NEW s \in Signals, Trigger(s)
                PROVE  used' = [used EXCEPT !["signals"] = @ + 1]
            BY <5>5 DEF Trigger
          <5>6. ASSUME NEW q \in {"steer", "follow"}, Input(q)
                PROVE  used' = [used EXCEPT !["inputs"] = @ + 1]
            BY <5>6 DEF Input
          <5>7. CASE Crash
            BY <5>7 DEF Crash, Budgets
          <5> QED
            BY <5>1, <5>2, <5>3, <5>4, <5>5, <5>6, <5>7 DEF Next, Budgets
        <4> QED  BY <4>1, <4>2, <4>3
      <3> QED  BY <2>2, <3>1
    <2> QED  BY <2>3, <2>4
  <1> QED  BY <1>1, <1>2, AgentTypeCorrect, PTL DEF Spec
=============================================================================
