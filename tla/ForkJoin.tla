------------------------------- MODULE ForkJoin -------------------------------
(***************************************************************************)
(* A FORK node, its branches and the JOIN node, around the fork registry   *)
(* they share.  The parent coordinator runs the FORK handler and then the  *)
(* JOIN handler; it may come back to the FORK (a loop iteration, or an     *)
(* error route), with the same registry.  Each branch is a task that runs  *)
(* a subgraph and settles its record; a SYNC node in it waits for another  *)
(* branch to settle.  A stop() of the parent may arrive at any time.       *)
(*                                                                         *)
(* A step of a task ends where another task can see the difference: one    *)
(* critical section of the registry, one notification, one await.          *)
(*                                                                         *)
(* A branch's outputs, variables and messages are left out; a record keeps *)
(* the visit of the FORK whose task has settled it.  Nested forks, SYNC    *)
(* nodes of the parent graph, and a node timeout on the FORK itself are    *)
(* not in the model.                                                       *)
(***************************************************************************)
EXTENDS Integers, Sequences, FiniteSets

CONSTANTS
    Paths,      \* the fork_paths, in configuration order
    Modes,      \* the configurations of FORK and JOIN under study
    MaxVisits,  \* bound: how often the parent may execute the FORK
    PanicIn,    \* the launch strategies under which a branch may panic
    JoinTimeout,\* the JOIN has a timeout
    Source,     \* the branches with a SYNC node -> the branch it waits for
    SyncTimeout \* a SYNC has a timeout, or its branch a child_execution_timeout

Branches == {Paths[i] : i \in DOMAIN Paths}
Visits   == 1 .. MaxVisits

(***************************************************************************)
(*   launch    fork_strategy "serial", or "parallel", or parallel without  *)
(*             wait_for_completion                                         *)
(*   failFast  failure_strategy fail_fast                                  *)
(*   percent   the failure rate the strategy tolerates: 0 for fail_fast,   *)
(*             100 for continue_on_error                                   *)
(*   budget    a positive total_branch_timeout                             *)
(*   required  how many settled branches the JOIN waits for                *)
(***************************************************************************)
Mode == [launch : {"serial", "parallel", "detached"}, failFast : BOOLEAN,
         percent : 0 .. 100, budget : BOOLEAN, required : 0 .. Len(Paths)]

ASSUME ForkAssumption ==
    /\ Paths \in Seq(Branches) /\ Len(Paths) > 0
    /\ \A i, j \in 1 .. Len(Paths) : Paths[i] = Paths[j] => i = j
    /\ Modes \subseteq Mode
    /\ \A m \in Modes : m.failFast => m.percent = 0
    /\ MaxVisits \in Nat \ {0}
    /\ PanicIn \subseteq {"serial", "parallel", "detached"}
    /\ JoinTimeout \in BOOLEAN /\ SyncTimeout \in BOOLEAN
    /\ DOMAIN Source \subseteq Branches /\ Source \in [DOMAIN Source -> Branches]

VARIABLES
    mode,       \* the configuration of this workflow
    visit,      \* which execution of the FORK this is
    pc,         \* where the parent is
    next,       \* run_serial: the index of the branch it runs
    joining,    \* run_parallel: the tasks still in the JoinSet
    present,    \* the branches that have a result of their own ...
    total,      \* ... the number of results ...
    failures,   \* ... and of those that are failures
    outcome,    \* what the FORK of this visit has concluded
    record,     \* the fork registry: status and settling visit per branch
    task,       \* the branch tasks, by branch and visit
    sync,       \* where the SYNC node of a branch task is
    notified,   \* the JOIN's waiter has been notified
    joined,     \* what the JOIN of this visit has aggregated, per branch
    cancelled   \* the parent has been stopped

fork  == <<next, joining, present, total, failures, outcome>>
vars  == <<mode, visit, pc, fork, record, task, sync, notified, joined, cancelled>>

RecordStatus == {"absent", "Running", "Completed", "Failed", "Cancelled"}

\* okNotify and failNotify: the record is settled, its waiters not yet woken.
TaskPc == {"none", "running", "okNotify", "failNotify", "ok", "failed",
           "panicked", "aborted"}

ParentPc == {"fork", "serial", "collect", "evaluate", "check", "listen",
             "recheck", "sleep", "read", "joined", "failed", "timedOut", "stopped"}

JoinWaiting == {"check", "listen", "recheck", "sleep"}

SyncPc == {"before", "recheck", "sleep", "after"}

\* The variables hold what their declarations say; the counters stay within
\* one result of a branch, one for its panic and one filled in.
TypeOK ==
    /\ mode \in Modes
    /\ visit \in Visits
    /\ pc \in ParentPc
    /\ next \in 1 .. Len(Paths)
    /\ joining \in SUBSET Branches
    /\ present \in SUBSET Branches
    /\ total \in 0 .. 2 * Len(Paths)
    /\ failures \in 0 .. total
    /\ outcome \in {"none", "Succeeded", "Partial", "Failed", "Detached"}
    /\ record \in [Branches -> [status : RecordStatus, by : Visits \cup {0}]]
    /\ task \in [Branches -> [Visits -> TaskPc]]
    /\ sync \in [Branches -> [Visits -> SyncPc]]
    /\ notified \in BOOLEAN
    /\ joined \in [Branches -> {"none", "ok", "failed"}]
    /\ cancelled \in BOOLEAN

\* The registry is created with the coordinator and is empty.
Init ==
    /\ mode \in Modes
    /\ visit = 1
    /\ pc = "fork"
    /\ next = 1
    /\ joining = {}
    /\ present = {}
    /\ total = 0
    /\ failures = 0
    /\ outcome = "none"
    /\ record = [b \in Branches |-> [status |-> "absent", by |-> 0]]
    /\ task = [b \in Branches |-> [v \in Visits |-> "none"]]
    /\ sync = [b \in Branches |-> [v \in Visits |-> "before"]]
    /\ notified = FALSE
    /\ joined = [b \in Branches |-> "none"]
    /\ cancelled = FALSE

-----------------------------------------------------------------------------
(* The registry.                                                            *)

Settled(b) == record[b].status \in {"Completed", "Failed", "Cancelled"}

SettledCount == Cardinality({b \in Branches : Settled(b)})

\* settle_with_messages: the first settlement wins.
Settle(b, v, ok) ==
    record' = IF Settled(b) THEN record
              ELSE [record EXCEPT ![b] =
                       [status |-> IF ok THEN "Completed" ELSE "Failed", by |-> v]]

\* cancel() and the second half of abort_all(), for a set of branches.
Cancelled(bs) ==
    [b \in Branches |-> IF b \in bs /\ ~Settled(b)
                        THEN [record[b] EXCEPT !.status = "Cancelled"]
                        ELSE record[b]]

\* abort() on the tasks of this visit: one that runs never settles.
Aborted(bs) ==
    [b \in Branches |->
        IF b \in bs /\ task[b][visit] = "running"
        THEN [task[b] EXCEPT ![visit] = "aborted"] ELSE task[b]]

\* Mutant: only the registry-wide waiters are woken, not those of the path.
Notify_PathForgotten(b) ==
    /\ notified' = (notified \/ pc \in {"recheck", "sleep"})
    /\ sync' = sync

\* notify_waiters() stores no permit: only a waiter that listens is woken, the
\* JOIN by the registry-wide signal and the SYNC nodes by that of the branch.
\* A SYNC that is woken registers again and looks at the record.
Notify(b) ==
    /\ notified' = (notified \/ pc \in {"recheck", "sleep"})
    /\ sync' = [a \in Branches |-> [v \in Visits |->
                  IF a \in DOMAIN Source /\ Source[a] = b /\ sync[a][v] = "sleep"
                  THEN "recheck" ELSE sync[a][v]]]

-----------------------------------------------------------------------------
(* A branch task: run_branch, and the wrapper of spawn_non_blocking.        *)

\* The branch is inside the wait_for of its SYNC node.
SyncWaits(b, v) == task[b][v] = "running" /\ sync[b][v] \in {"recheck", "sleep"}

\* Mutant: a failing branch returns without settling its record.
BranchReturns_Unsettled(b, v) ==
    /\ task[b][v] = "running"
    /\ ~SyncWaits(b, v)
    /\ \E ok \in BOOLEAN :
          /\ IF ok THEN Settle(b, v, ok) ELSE UNCHANGED record
          /\ task' = [task EXCEPT ![b][v] =
                IF Settled(b) \/ ~ok THEN IF ok THEN "ok" ELSE "failed"
                              ELSE "okNotify"]
    /\ UNCHANGED <<mode, visit, pc, fork, sync, notified, joined, cancelled>>

\* The subgraph ends, times out or is cancelled by the parent's token, and
\* the record is settled at once; a settled record wakes nobody again.  Only
\* the token ends a branch that waits in its SYNC node.
BranchReturns(b, v) ==
    /\ task[b][v] = "running"
    /\ SyncWaits(b, v) => cancelled
    /\ \E ok \in BOOLEAN :
          /\ ok => ~SyncWaits(b, v)
          /\ Settle(b, v, ok)
          /\ task' = [task EXCEPT ![b][v] =
                IF Settled(b) THEN IF ok THEN "ok" ELSE "failed"
                              ELSE IF ok THEN "okNotify" ELSE "failNotify"]
    /\ UNCHANGED <<mode, visit, pc, fork, sync, notified, joined, cancelled>>

\* A panic outside of a node handler.  Only the detached wrapper settles the
\* record; a serial branch runs inline, so that the FORK handler panics with it.
BranchPanics(b, v) ==
    /\ mode.launch \in PanicIn
    /\ task[b][v] = "running" /\ ~SyncWaits(b, v)
    /\ IF mode.launch = "detached"
       THEN /\ Settle(b, v, FALSE)
            /\ task' = [task EXCEPT ![b][v] =
                           IF Settled(b) THEN "failed" ELSE "failNotify"]
       ELSE task' = [task EXCEPT ![b][v] = "panicked"] /\ UNCHANGED record
    /\ pc' = IF mode.launch # "serial" THEN pc
             ELSE IF cancelled THEN "stopped" ELSE "failed"
    /\ UNCHANGED <<mode, visit, fork, sync, notified, joined, cancelled>>

BranchNotifies(b, v) ==
    /\ task[b][v] \in {"okNotify", "failNotify"}
    /\ task' = [task EXCEPT ![b][v] = IF @ = "okNotify" THEN "ok" ELSE "failed"]
    /\ Notify(b)
    /\ UNCHANGED <<mode, visit, pc, fork, record, joined, cancelled>>

SyncGoes(b, v, from, to) ==
    /\ task[b][v] = "running" /\ sync[b][v] = from
    /\ sync' = [sync EXCEPT ![b][v] = to]
    /\ UNCHANGED <<mode, visit, pc, fork, record, task, notified, joined, cancelled>>

\* Mutant: the SYNC sleeps without a look at the record after it registered.
SyncBegins_NoRecheck(b, v) == b \in DOMAIN Source /\ SyncGoes(b, v, "before", "sleep")

\* The branch reaches its SYNC node; wait_for registers the waiter first ...
SyncBegins(b, v) == b \in DOMAIN Source /\ SyncGoes(b, v, "before", "recheck")

\* ... and looks at the record then.
SyncRechecks(b, v) ==
    SyncGoes(b, v, "recheck", IF Settled(Source[b]) THEN "after" ELSE "sleep")

\* The bounded wait expires: the SYNC node fails with TransportTimeout, or the
\* branch does.
SyncTimesOut(b, v) == SyncTimeout /\ SyncGoes(b, v, "sleep", "after")

-----------------------------------------------------------------------------
(* The FORK handler.                                                        *)

\* register(): a record that exists keeps its status.
Registered ==
    [b \in Branches |-> IF record[b].status = "absent"
                        THEN [status |-> "Running", by |-> 0] ELSE record[b]]

Started(bs) ==
    [b \in Branches |-> IF b \in bs THEN [task[b] EXCEPT ![visit] = "running"]
                                    ELSE task[b]]

LaunchSerial ==
    /\ pc = "fork" /\ mode.launch = "serial"
    /\ pc' = "serial"
    /\ record' = Registered
    /\ task' = Started({Paths[1]})
    /\ UNCHANGED <<mode, visit, fork, sync, notified, joined, cancelled>>

LaunchParallel ==
    /\ pc = "fork" /\ mode.launch = "parallel"
    /\ pc' = "collect"
    /\ joining' = Branches
    /\ record' = Registered
    /\ task' = Started(Branches)
    /\ UNCHANGED <<mode, visit, next, present, total, failures, outcome,
                   sync, notified, joined, cancelled>>

\* The FORK returns at once; the JOIN waits through the registry.
LaunchDetached ==
    /\ pc = "fork" /\ mode.launch = "detached"
    /\ pc' = "check"
    /\ outcome' = "Detached"
    /\ record' = Registered
    /\ task' = Started(Branches)
    /\ UNCHANGED <<mode, visit, next, joining, present, total, failures,
                   sync, notified, joined, cancelled>>

Finished(b) == task[b][visit] \in {"ok", "failed", "panicked"}

\* run_parallel names the result of a panicked task "branch", not its path.
Named(b) == IF task[b][visit] = "panicked" THEN {} ELSE {b}

\* results.push: branch b's result; then a failure for each of `others`.
Results(b, others) ==
    /\ present' = present \cup Named(b) \cup others
    /\ total' = total + 1 + Cardinality(others)
    /\ failures' = failures + (IF task[b][visit] = "ok" THEN 0 ELSE 1)
                            + Cardinality(others)
    /\ UNCHANGED outcome

\* run_serial, when the branch it runs has returned.
SerialNext ==
    LET b == Paths[next] IN
    /\ pc = "serial" /\ task[b][visit] \in {"ok", "failed"}
    /\ ~cancelled /\ ~(mode.failFast /\ task[b][visit] = "failed")
    /\ Results(b, {})
    /\ IF next = Len(Paths)
       THEN pc' = "evaluate" /\ UNCHANGED <<next, task>>
       ELSE /\ next' = next + 1
            /\ task' = Started({Paths[next + 1]})
            /\ UNCHANGED pc
    /\ UNCHANGED <<mode, visit, joining, record, sync, notified, joined, cancelled>>

Skipped == {Paths[i] : i \in next + 1 .. Len(Paths)}

\* Mutant: the skipped branches keep their Running records.
SerialFailFast_NoCancel ==
    LET b == Paths[next] IN
    /\ pc = "serial" /\ task[b][visit] = "failed"
    /\ ~cancelled /\ mode.failFast
    /\ Results(b, Skipped)
    /\ pc' = "evaluate"
    /\ UNCHANGED <<mode, visit, next, joining, record, task, sync, notified, joined,
                   cancelled>>

\* fail_fast: the branches that will not run are cancelled in the registry.
SerialFailFast ==
    LET b == Paths[next] IN
    /\ pc = "serial" /\ task[b][visit] = "failed"
    /\ ~cancelled /\ mode.failFast
    /\ Results(b, Skipped)
    /\ record' = Cancelled(Skipped)
    /\ pc' = "evaluate"
    /\ UNCHANGED <<mode, visit, next, joining, task, sync, notified, joined, cancelled>>

\* The parent is stopped: the loop ends and the other records stay Running.
SerialCancelled ==
    LET b == Paths[next] IN
    /\ pc = "serial" /\ task[b][visit] \in {"ok", "failed"}
    /\ cancelled
    /\ Results(b, {})
    /\ pc' = "evaluate"
    /\ UNCHANGED <<mode, visit, next, joining, record, task, sync, notified, joined,
                   cancelled>>

\* Mutant: the tasks are detached instead of aborted.
AbortRest_Detaches(missing, n, f) ==
    /\ record' = Cancelled(Branches)
    /\ present' = present \cup missing
    /\ total' = n + Cardinality(missing)
    /\ failures' = f + Cardinality(missing)
    /\ joining' = {}
    /\ pc' = "evaluate"
    /\ UNCHANGED <<mode, visit, next, outcome, task, sync, notified, joined, cancelled>>

\* Mutant: the branches without a result are not counted.
AbortRest_NoFill(missing, n, f) ==
    /\ record' = Cancelled(Branches)
    /\ task' = Aborted(Branches)
    /\ present' = present
    /\ total' = n
    /\ failures' = f
    /\ joining' = {}
    /\ pc' = "evaluate"
    /\ UNCHANGED <<mode, visit, next, outcome, sync, notified, joined, cancelled>>

\* run_parallel's epilogue after an early end: the tasks are aborted, their
\* records cancelled, and every branch without a result gets a failure.
AbortRest(missing, n, f) ==
    /\ record' = Cancelled(Branches)
    /\ task' = Aborted(Branches)
    /\ present' = present \cup missing
    /\ total' = n + Cardinality(missing)
    /\ failures' = f + Cardinality(missing)
    /\ joining' = {}
    /\ pc' = "evaluate"
    /\ UNCHANGED <<mode, visit, next, outcome, sync, notified, joined, cancelled>>

\* Mutant: a task that was joined stays in the set.
Collect_Requeued(b) ==
    /\ pc = "collect" /\ b \in joining /\ Finished(b)
    /\ ~cancelled /\ ~(mode.failFast /\ task[b][visit] = "failed")
    /\ Results(b, {})
    /\ UNCHANGED <<mode, visit, pc, next, joining, record, task, sync, notified, joined,
                   cancelled>>

\* join_next() returns a task: its result is kept and the next one awaited.
Collect(b) ==
    /\ pc = "collect" /\ b \in joining /\ Finished(b)
    /\ ~cancelled /\ ~(mode.failFast /\ task[b][visit] = "failed")
    /\ Results(b, {})
    /\ joining' = joining \ {b}
    /\ UNCHANGED <<mode, visit, pc, next, record, task, sync, notified, joined, cancelled>>

CollectFailFast(b) ==
    /\ pc = "collect" /\ b \in joining /\ task[b][visit] = "failed"
    /\ ~cancelled /\ mode.failFast
    /\ AbortRest(Branches \ (present \cup {b}), total + 1, failures + 1)

\* The token is read after join_next(): the task's result is discarded.
CollectCancelled(b) ==
    /\ pc = "collect" /\ b \in joining /\ Finished(b)
    /\ cancelled
    /\ AbortRest(Branches \ present, total, failures)

\* With a budget the select does not poll an empty JoinSet: only the deadline
\* is left (TotalTimeout).
AllCollected ==
    /\ pc = "collect" /\ joining = {}
    /\ ~mode.budget
    /\ pc' = "evaluate"
    /\ UNCHANGED <<mode, visit, fork, record, task, sync, notified, joined, cancelled>>

TotalTimeout ==
    /\ pc = "collect" /\ mode.budget
    /\ AbortRest(Branches \ present, total, failures)

\* FailureStrategy::evaluate: the share of failures against the tolerated one.
Verdict == CASE 100 * failures > mode.percent * total -> "Failed"
             [] 100 * failures \in 1 .. mode.percent * total -> "Partial"
             [] failures = 0 -> "Succeeded"

\* The executor looks at the token once more after the handler.
ForkReturns ==
    /\ pc = "evaluate"
    /\ outcome' = Verdict
    /\ pc' = CASE cancelled -> "stopped"
               [] ~cancelled /\ Verdict = "Failed" -> "failed"
               [] ~cancelled /\ Verdict # "Failed" -> "check"
    /\ UNCHANGED <<mode, visit, next, joining, present, total, failures, record,
                   task, sync, notified, joined, cancelled>>

-----------------------------------------------------------------------------
(* The JOIN handler: wait_for_count, then a read of the records.            *)

Enough == SettledCount >= mode.required

JoinGoes(from, to) ==
    /\ pc = from
    /\ pc' = to
    /\ UNCHANGED <<mode, visit, fork, record, task, sync, joined, cancelled>>

JoinCheck ==
    JoinGoes("check", IF Enough THEN "read" ELSE "listen") /\ UNCHANGED notified

\* Mutant: the waiter sleeps without looking at the records again.
JoinListen_NoRecheck == JoinGoes("listen", "sleep") /\ notified' = FALSE

\* The first poll of the Notified future registers the waiter.
JoinListen == JoinGoes("listen", "recheck") /\ notified' = FALSE

JoinRecheck ==
    JoinGoes("recheck", IF Enough THEN "read" ELSE "sleep") /\ UNCHANGED notified

JoinWake == notified /\ JoinGoes("sleep", "check") /\ UNCHANGED notified

JoinTimesOut ==
    JoinTimeout /\ JoinGoes("sleep", "timedOut") /\ UNCHANGED notified

\* The select takes the token's arm: abort_all() reaches the tasks whose
\* handles the registry holds, which are those of the latest visit, cancels
\* every record and wakes the SYNC nodes of the tasks that are left.
JoinCancelled ==
    /\ cancelled
    /\ pc \in {"check", "sleep"}
    /\ pc' = "stopped"
    /\ record' = Cancelled(Branches)
    /\ task' = Aborted(Branches)
    /\ sync' = [b \in Branches |-> [v \in Visits |->
                  IF sync[b][v] = "sleep" THEN "recheck" ELSE sync[b][v]]]
    /\ UNCHANGED <<mode, visit, fork, notified, joined, cancelled>>

\* A Completed record is a success; any other, Running included, a failure.
JoinRead ==
    /\ pc = "read"
    /\ joined' = [b \in Branches |->
                    IF record[b].status = "Completed" THEN "ok" ELSE "failed"]
    /\ pc' = IF cancelled THEN "stopped" ELSE "joined"
    /\ UNCHANGED <<mode, visit, fork, record, task, sync, notified, cancelled>>

-----------------------------------------------------------------------------
(* The parent coordinator around the two handlers.                          *)

\* The FORK's ERROR edge leads to the JOIN.
RouteToJoin ==
    ~cancelled /\ JoinGoes("failed", "check") /\ UNCHANGED notified

\* A loop iteration, or an ERROR edge, executes the FORK again.  The
\* registries were created with the coordinator and stay as they are.
Reenter ==
    /\ pc \in {"joined", "failed", "timedOut"} /\ visit < MaxVisits
    /\ ~cancelled
    /\ visit' = visit + 1
    /\ pc' = "fork"
    /\ next' = 1
    /\ joining' = {}
    /\ present' = {}
    /\ total' = 0
    /\ failures' = 0
    /\ outcome' = "none"
    /\ joined' = [b \in Branches |-> "none"]
    /\ UNCHANGED <<mode, record, task, sync, notified, cancelled>>

\* stop() on the parent: the interruption token the handlers share.
Stop ==
    /\ ~cancelled
    /\ cancelled' = TRUE
    /\ UNCHANGED <<mode, visit, pc, fork, record, task, sync, notified, joined>>

\* The executor's own select drops the handler: the branch run_serial awaits
\* and the JoinSet die with it, detached tasks and all records stay.
HandlerDropped ==
    /\ cancelled
    /\ pc \in {"serial", "collect", "sleep"}
    /\ pc' = "stopped"
    /\ task' = IF mode.launch = "detached" THEN task ELSE Aborted(Branches)
    /\ UNCHANGED <<mode, visit, fork, record, sync, notified, joined, cancelled>>

-----------------------------------------------------------------------------
ForkStep ==
    \/ LaunchSerial \/ LaunchParallel \/ LaunchDetached
    \/ SerialNext \/ SerialFailFast \/ SerialCancelled
    \/ \E b \in Branches : Collect(b) \/ CollectFailFast(b) \/ CollectCancelled(b)
    \/ AllCollected \/ TotalTimeout \/ ForkReturns

JoinStep ==
    \/ JoinCheck \/ JoinListen \/ JoinRecheck \/ JoinWake
    \/ JoinCancelled \/ JoinRead

BranchStep(b, v) ==
    \/ BranchReturns(b, v) \/ BranchPanics(b, v) \/ BranchNotifies(b, v)
    \/ SyncBegins(b, v) \/ SyncRechecks(b, v)

Next ==
    \/ ForkStep \/ JoinStep
    \/ \E b \in Branches, v \in Visits : BranchStep(b, v) \/ SyncTimesOut(b, v)
    \/ JoinTimesOut \/ RouteToJoin \/ Reenter \/ Stop \/ HandlerDropped

Spec == Init /\ [][Next]_vars

\* Tokio polls a woken task and a deadline passes; a subgraph is taken to end.
FairSpec ==
    /\ Spec
    /\ WF_vars(ForkStep) /\ WF_vars(JoinStep)
    /\ \A b \in Branches, v \in Visits : WF_vars(BranchStep(b, v))

-----------------------------------------------------------------------------
(* Properties.                                                              *)

\* While the JOIN waits without a limit, whoever is to settle a branch still
\* exists: a record that is Running belongs to a task that runs or settles.
\* run_serial and run_parallel must leave no record behind on any of their
\* early ends.
NoOrphan ==
    pc \in JoinWaiting =>
        \A b \in Branches : ~Settled(b) =>
            \E v \in Visits : task[b][v] = "running"

\* A blocking FORK that has ended, in whatever way, has left no branch task
\* running: neither an early end of run_serial and run_parallel nor the drop of
\* the handler lets a branch go on next to the JOIN or the stopped parent.
NoStrayBranch ==
    mode.launch # "detached" /\ pc \notin {"serial", "collect"} =>
        \A b \in Branches, v \in Visits : task[b][v] # "running"

NotOk == {b \in Branches : task[b][visit] \notin {"okNotify", "ok"}}

\* The verdict the parent goes on with is about all branches: Succeeded means
\* that every task of this visit succeeded, Partial that no more failed, were
\* aborted or never ran than the strategy tolerates.
ForkVerdict ==
    pc # "stopped" =>
        /\ outcome = "Succeeded" => NotOk = {}
        /\ outcome = "Partial" =>
              /\ ~mode.failFast
              /\ 100 * Cardinality(NotOk) <= mode.percent * Len(Paths)

\* Somebody is about to wake the waiters of the branches bs.
WakeDue(bs) ==
    \E b \in bs, v \in Visits : task[b][v] \in {"okNotify", "failNotify"}

\* Nobody sleeps past what it waits for: a SYNC node or a JOIN that is asleep
\* although its branches have settled has a notification on its way.  The
\* settlement and its notify_waiters() are two steps, the waiter's look at the
\* record and its sleep are two others, and none of the orders loses the wake.
NoLostWakeup ==
    /\ \A b \in DOMAIN Source, v \in Visits :
          task[b][v] = "running" /\ sync[b][v] = "sleep" /\ Settled(Source[b])
             => WakeDue({Source[b]})
    /\ pc = "sleep" /\ Enough /\ ~notified => WakeDue(Branches)

\* A SYNC node that waits waits for a branch that somebody is going to settle:
\* neither an abort, a failure, a stop nor a second execution of the FORK takes
\* the source branch away and leaves the waiter behind.
SyncServed ==
    \A b \in DOMAIN Source, v \in Visits :
        SyncWaits(b, v) /\ ~Settled(Source[b]) =>
            \E u \in Visits : task[Source[b]][u] = "running"

\* The wait of a SYNC node ends.
SyncReturns ==
    \A b \in DOMAIN Source, v \in Visits : SyncWaits(b, v) ~> ~SyncWaits(b, v)

\* The JOIN's wait ends: a settlement between its check and its sleep is not
\* lost, although notify_waiters() leaves no permit.
JoinReturns == (pc \in JoinWaiting) ~> (pc \notin JoinWaiting)

-----------------------------------------------------------------------------
(***************************************************************************)
(* What comments of the code say and the model refutes; no run checks      *)
(* these, the README gives the constants that show each one violated.      *)
(***************************************************************************)
\* The deadline of total_branch_timeout ends a FORK only while a branch is in
\* flight: a FORK that has collected every branch does not wait for it.
DeadlineMeetsBranch == [][TotalTimeout => joining # {}]_vars

\* What the JOIN aggregates as a success is the settlement of a branch of this
\* execution of the FORK, not of an earlier one.
JoinFresh ==
    pc = "joined" =>
        \A b \in Branches : joined[b] = "ok" => record[b].by = visit

=============================================================================
