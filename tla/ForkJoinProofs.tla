---------------------------- MODULE ForkJoinProofs ----------------------------
(***************************************************************************)
(* Proofs about ForkJoin, for every list of fork paths, every set of       *)
(* configurations and any number of executions of the FORK.                *)
(*                                                                         *)
(* NoStrayBranch rests on OneRunner: a running task of a blocking FORK is  *)
(* the one its handler awaits.  NoOrphan rests on NobodyLost: a branch     *)
(* that is not settled is still the business of somebody.  NoLostWakeup    *)
(* needs OneRunner (where records are cancelled without a notification     *)
(* nobody is left to wait) and Fresh (a task starts outside of its SYNC).  *)
(* The counters of the results play no part in any of them: they are the   *)
(* subject of ForkCountProofs.                                             *)
(***************************************************************************)
EXTENDS ForkJoin, TLAPS

\* The types of the variables that decide who runs and who has settled, and
\* the launch strategy that the parent's location implies.
Shape ==
    /\ mode \in Modes
    /\ visit \in Visits
    /\ pc \in ParentPc
    /\ next \in 1 .. Len(Paths)
    /\ pc = "fork" => next = 1
    /\ pc = "serial" => mode.launch = "serial"
    /\ pc = "collect" => mode.launch = "parallel"
    /\ joining \in SUBSET Branches
    /\ record \in [Branches -> [status : RecordStatus, by : Visits \cup {0}]]
    /\ task \in [Branches -> [Visits -> TaskPc]]
    /\ sync \in [Branches -> [Visits -> SyncPc]]
    /\ cancelled \in BOOLEAN

\* A blocking FORK: only a task of this visit runs, and only while the handler
\* awaits it, inline in run_serial or in the JoinSet of run_parallel.
OneRunner ==
    mode.launch # "detached" =>
        \A b \in Branches, v \in Visits : task[b][v] = "running" =>
            /\ v = visit
            /\ \/ pc = "serial" /\ b = Paths[next]
               \/ pc = "collect" /\ b \in joining

\* A task that has returned has settled its record before it did.
SettledFirst ==
    \A b \in Branches, v \in Visits :
        task[b][v] \in {"ok", "failed", "okNotify", "failNotify"} => Settled(b)

\* Branch b is settled, or somebody is going to settle it, or the parent is on
\* its way to a stop.
Owed(b) ==
    \/ Settled(b)
    \/ \E v \in Visits : task[b][v] = "running"
    \/ pc = "fork" /\ record[b].status = "absent"
    \/ pc = "serial" /\ b \in Skipped
    \/ pc = "evaluate" /\ cancelled

NobodyLost ==
    pc # "stopped" => \A b \in Branches : Owed(b)

\* The task of b in visit v is still to be started: it has not begun its SYNC.
Unborn(b, v) ==
    \/ v > visit
    \/ v = visit /\ pc = "fork"
    \/ v = visit /\ pc = "serial" /\ b \in Skipped

Fresh ==
    \A b \in Branches, v \in Visits :
        Unborn(b, v) => task[b][v] = "none" /\ sync[b][v] = "before"

\* A step of a SYNC node.
SyncStep(b, v) == SyncBegins(b, v) \/ SyncRechecks(b, v) \/ SyncTimesOut(b, v)

-----------------------------------------------------------------------------
\* The branches are the fork paths, each at one index.
LEMMA PathFacts ==
  /\ Len(Paths) \in Nat \ {0}
  /\ \A i \in 1 .. Len(Paths) : Paths[i] \in Branches
  /\ \A b \in Branches : \E i \in 1 .. Len(Paths) : b = Paths[i]
  /\ \A i, j \in 1 .. Len(Paths) : Paths[i] = Paths[j] => i = j
  BY ForkAssumption DEF Branches

\* A SYNC node changes nothing but its own location.
LEMMA SyncAlone ==
  ASSUME NEW b \in Branches, NEW v \in Visits, SyncStep(b, v)
  PROVE  /\ UNCHANGED <<mode, visit, pc, next, joining, present, total, failures,
                        outcome, record, task, notified, joined, cancelled>>
         /\ task[b][v] = "running"
         /\ \E x \in SyncPc : sync' = [sync EXCEPT ![b][v] = x]
  BY DEF SyncStep, SyncBegins, SyncRechecks, SyncTimesOut, SyncGoes, SyncPc, fork

\* Cancelling records and aborting tasks keeps the types.
LEMMA AbortTypes ==
  ASSUME Shape, NEW bs
  PROVE  /\ Cancelled(bs)
               \in [Branches -> [status : RecordStatus, by : Visits \cup {0}]]
         /\ Aborted(bs) \in [Branches -> [Visits -> TaskPc]]
  <1>1. Cancelled(bs)
           \in [Branches -> [status : RecordStatus, by : Visits \cup {0}]]
    BY DEF Shape, Cancelled, RecordStatus
  <1>2. Aborted(bs) \in [Branches -> [Visits -> TaskPc]]
    BY DEF Shape, Aborted, TaskPc
  <1>. QED BY <1>1, <1>2

\* Every step keeps the types.
LEMMA ShapeStep == Shape /\ [Next]_vars => Shape'
  <1> SUFFICES ASSUME Shape, [Next]_vars PROVE Shape'
    OBVIOUS
  <1> USE ForkAssumption
  <1>0. CASE UNCHANGED vars
    BY <1>0 DEF Shape, Visits, ParentPc, RecordStatus, TaskPc, vars, fork
  <1>1. CASE LaunchSerial
    BY <1>1 DEF Shape, Visits, ParentPc, RecordStatus, TaskPc, LaunchSerial,
       Registered, Started, fork
  <1>2. CASE LaunchParallel
    BY <1>2 DEF Shape, Visits, ParentPc, RecordStatus, TaskPc, LaunchParallel,
       Registered, Started, fork
  <1>3. CASE LaunchDetached
    BY <1>3 DEF Shape, Visits, ParentPc, RecordStatus, TaskPc, LaunchDetached,
       Registered, Started, fork
  <1>4. CASE SerialNext
    <2>1. CASE next = Len(Paths)
      BY <1>4, <2>1
      DEF Shape, Visits, ParentPc, RecordStatus, TaskPc, SerialNext, Results,
          fork
    <2>2. CASE next # Len(Paths)
      <3>1. /\ next' = next + 1 /\ next + 1 \in 1 .. Len(Paths)
            /\ task' = Started({Paths[next + 1]})
            /\ pc = "serial" /\ pc' = "serial"
            /\ task[Paths[next]][visit] \in {"ok", "failed"}
            /\ UNCHANGED <<mode, visit, joining, record, sync, cancelled>>
        BY <1>4, <2>2 DEF Shape, SerialNext
      <3>. QED
        BY <3>1 DEF Shape, Visits, ParentPc, RecordStatus, TaskPc, Started
    <2>. QED BY <2>1, <2>2
  <1>5. CASE SerialFailFast
    BY <1>5, AbortTypes DEF Shape, ParentPc, SerialFailFast
  <1>6. CASE SerialCancelled
    BY <1>6 DEF Shape, Visits, ParentPc, RecordStatus, TaskPc, SerialCancelled,
       Results, fork
  <1>7. ASSUME NEW b \in Branches, Collect(b)
        PROVE  Shape'
    BY <1>7
    DEF Shape, Visits, ParentPc, RecordStatus, TaskPc, Collect, Results, fork
  <1>8. ASSUME NEW b \in Branches, CollectFailFast(b)
        PROVE  Shape'
    BY <1>8, AbortTypes DEF Shape, ParentPc, CollectFailFast, AbortRest
  <1>9. ASSUME NEW b \in Branches, CollectCancelled(b)
        PROVE  Shape'
    BY <1>9, AbortTypes DEF Shape, ParentPc, CollectCancelled, AbortRest
  <1>10. CASE AllCollected
    BY <1>10
    DEF Shape, Visits, ParentPc, RecordStatus, TaskPc, AllCollected, fork
  <1>11. CASE TotalTimeout
    BY <1>11, AbortTypes DEF Shape, ParentPc, TotalTimeout, AbortRest
  <1>12. CASE ForkReturns
    BY <1>12
    DEF Shape, Visits, ParentPc, RecordStatus, TaskPc, ForkReturns, fork
  <1>13. CASE JoinCheck
    BY <1>13
    DEF Shape, Visits, ParentPc, RecordStatus, TaskPc, JoinCheck, JoinGoes,
        fork
  <1>14. CASE JoinListen
    BY <1>14
    DEF Shape, Visits, ParentPc, RecordStatus, TaskPc, JoinListen, JoinGoes,
        fork
  <1>15. CASE JoinRecheck
    BY <1>15
    DEF Shape, Visits, ParentPc, RecordStatus, TaskPc, JoinRecheck, JoinGoes,
        fork
  <1>16. CASE JoinWake
    BY <1>16
    DEF Shape, Visits, ParentPc, RecordStatus, TaskPc, JoinWake, JoinGoes,
        fork
  <1>17. CASE JoinCancelled
    BY <1>17, AbortTypes DEF Shape, ParentPc, SyncPc, JoinCancelled, fork
  <1>18. CASE JoinRead
    BY <1>18 DEF Shape, Visits, ParentPc, RecordStatus, TaskPc, JoinRead, fork
  <1>19. ASSUME NEW b \in Branches, NEW v \in Visits, BranchReturns(b, v)
        PROVE  Shape'
    BY <1>19
    DEF Shape, Visits, ParentPc, RecordStatus, TaskPc, BranchReturns, Settle,
        fork
  <1>20. ASSUME NEW b \in Branches, NEW v \in Visits, BranchPanics(b, v)
        PROVE  Shape'
    <2>1. CASE mode.launch = "detached"
      <3>1. /\ task[b][v] = "running" /\ Settle(b, v, FALSE)
            /\ \E x \in {"failed", "failNotify"} :
                  task' = [task EXCEPT ![b][v] = x]
            /\ UNCHANGED <<mode, visit, pc, next, joining, sync, cancelled>>
        BY <1>20, <2>1 DEF BranchPanics, fork
      <3>. QED
        BY <2>1, <3>1 DEF Shape, Visits, ParentPc, RecordStatus, TaskPc, Settle
    <2>2. CASE mode.launch # "detached"
      <3>1. /\ task[b][v] = "running"
            /\ task' = [task EXCEPT ![b][v] = "panicked"]
            /\ \/ mode.launch = "serial" /\ pc' \in {"stopped", "failed"}
               \/ mode.launch # "serial" /\ pc' = pc
            /\ UNCHANGED <<mode, visit, next, joining, record, sync, cancelled>>
        BY <1>20, <2>2 DEF BranchPanics, fork
      <3>. QED
        BY <2>2, <3>1 DEF Shape, Visits, ParentPc, RecordStatus, TaskPc
    <2>. QED BY <2>1, <2>2
  <1>21. ASSUME NEW b \in Branches, NEW v \in Visits, BranchNotifies(b, v)
        PROVE  Shape'
    BY <1>21
    DEF Shape, Visits, ParentPc, RecordStatus, TaskPc, SyncPc, BranchNotifies,
        Notify, fork
  <1>22. CASE JoinTimesOut
    BY <1>22
    DEF Shape, Visits, ParentPc, RecordStatus, TaskPc, JoinTimesOut, JoinGoes,
        fork
  <1>23. CASE RouteToJoin
    BY <1>23
    DEF Shape, Visits, ParentPc, RecordStatus, TaskPc, RouteToJoin, JoinGoes,
        fork
  <1>24. CASE Reenter
    BY <1>24 DEF Shape, Visits, ParentPc, RecordStatus, TaskPc, Reenter, fork
  <1>25. CASE Stop
    BY <1>25 DEF Shape, Visits, ParentPc, RecordStatus, TaskPc, Stop, fork
  <1>26. CASE HandlerDropped
    BY <1>26, AbortTypes DEF Shape, ParentPc, HandlerDropped, fork
  <1>27. ASSUME NEW b \in Branches, NEW v \in Visits, SyncStep(b, v)
        PROVE  Shape'
    <2>0. PICK x \in SyncPc : sync' = [sync EXCEPT ![b][v] = x]
      BY <1>27, SyncAlone
    <2>1. sync' \in [Branches -> [Visits -> SyncPc]]
      BY <2>0 DEF Shape
    <2>. QED BY <1>27, <2>1, SyncAlone DEF Shape
  <1>. QED
    BY <1>0, <1>1, <1>2, <1>3, <1>4, <1>5, <1>6, <1>7, <1>8, <1>9, <1>10,
       <1>11, <1>12, <1>13, <1>14, <1>15, <1>16, <1>17, <1>18, <1>19,
       <1>20, <1>21, <1>22, <1>23, <1>24, <1>25, <1>26, <1>27
    DEF Next, ForkStep, JoinStep, BranchStep, SyncStep

-----------------------------------------------------------------------------
\* Every step keeps the running tasks of a blocking FORK under its handler: the
\* early ends abort what still runs, and no visit starts before the last ended.
LEMMA RunnerStep == Shape /\ OneRunner /\ [Next]_vars => OneRunner'
  <1> SUFFICES ASSUME Shape, OneRunner, [Next]_vars PROVE OneRunner'
    OBVIOUS
  <1> USE ForkAssumption
  <1>0. CASE UNCHANGED vars
    BY <1>0 DEF Shape, OneRunner, vars, fork
  <1>1. CASE LaunchSerial
    BY <1>1 DEF Shape, OneRunner, LaunchSerial, Registered, Started, fork
  <1>2. CASE LaunchParallel
    BY <1>2 DEF Shape, OneRunner, LaunchParallel, Registered, Started, fork
  <1>3. CASE LaunchDetached
    BY <1>3 DEF Shape, OneRunner, LaunchDetached, Registered, Started, fork
  <1>4. CASE SerialNext
    <2>1. CASE next = Len(Paths)
      BY <1>4, <2>1 DEF Shape, OneRunner, SerialNext, Results, fork
    <2>2. CASE next # Len(Paths)
      <3>1. /\ next' = next + 1 /\ next + 1 \in 1 .. Len(Paths)
            /\ task' = Started({Paths[next + 1]})
            /\ pc = "serial" /\ pc' = "serial"
            /\ task[Paths[next]][visit] \in {"ok", "failed"}
            /\ UNCHANGED <<mode, visit, joining, record, cancelled>>
        BY <1>4, <2>2 DEF Shape, SerialNext
      <3>. QED
        BY <3>1 DEF Shape, OneRunner, Started
    <2>. QED BY <2>1, <2>2
  <1>5. CASE SerialFailFast
    BY <1>5 DEF Shape, OneRunner, SerialFailFast, Results, Cancelled, fork
  <1>6. CASE SerialCancelled
    BY <1>6 DEF Shape, OneRunner, SerialCancelled, Results, fork
  <1>7. ASSUME NEW b \in Branches, Collect(b)
        PROVE  OneRunner'
    BY <1>7 DEF Shape, OneRunner, Collect, Finished, Results, fork
  <1>8. ASSUME NEW b \in Branches, CollectFailFast(b)
        PROVE  OneRunner'
    BY <1>8
    DEF Shape, OneRunner, CollectFailFast, AbortRest, Cancelled, Aborted, fork
  <1>9. ASSUME NEW b \in Branches, CollectCancelled(b)
        PROVE  OneRunner'
    BY <1>9
    DEF Shape, OneRunner, CollectCancelled, AbortRest, Cancelled, Aborted,
        fork
  <1>10. CASE AllCollected
    BY <1>10 DEF Shape, OneRunner, AllCollected, fork
  <1>11. CASE TotalTimeout
    BY <1>11
    DEF Shape, OneRunner, TotalTimeout, AbortRest, Cancelled, Aborted, fork
  <1>12. CASE ForkReturns
    BY <1>12 DEF Shape, OneRunner, ForkReturns, fork
  <1>13. CASE JoinCheck
    BY <1>13 DEF Shape, OneRunner, JoinCheck, JoinGoes, fork
  <1>14. CASE JoinListen
    BY <1>14 DEF Shape, OneRunner, JoinListen, JoinGoes, fork
  <1>15. CASE JoinRecheck
    BY <1>15 DEF Shape, OneRunner, JoinRecheck, JoinGoes, fork
  <1>16. CASE JoinWake
    BY <1>16 DEF Shape, OneRunner, JoinWake, JoinGoes, fork
  <1>17. CASE JoinCancelled
    BY <1>17 DEF Shape, OneRunner, JoinCancelled, Cancelled, Aborted, fork
  <1>18. CASE JoinRead
    BY <1>18 DEF Shape, OneRunner, JoinRead, fork
  <1>19. ASSUME NEW b \in Branches, NEW v \in Visits, BranchReturns(b, v)
        PROVE  OneRunner'
    BY <1>19 DEF Shape, OneRunner, BranchReturns, Settle, fork
  <1>20. ASSUME NEW b \in Branches, NEW v \in Visits, BranchPanics(b, v)
        PROVE  OneRunner'
    <2>1. CASE mode.launch = "detached"
      <3>1. /\ task[b][v] = "running" /\ Settle(b, v, FALSE)
            /\ \E x \in {"failed", "failNotify"} :
                  task' = [task EXCEPT ![b][v] = x]
            /\ UNCHANGED <<mode, visit, pc, next, joining, cancelled>>
        BY <1>20, <2>1 DEF BranchPanics, fork
      <3>. QED
        BY <2>1, <3>1 DEF Shape, OneRunner, Settle
    <2>2. CASE mode.launch # "detached"
      <3>1. /\ task[b][v] = "running"
            /\ task' = [task EXCEPT ![b][v] = "panicked"]
            /\ \/ mode.launch = "serial" /\ pc' \in {"stopped", "failed"}
               \/ mode.launch # "serial" /\ pc' = pc
            /\ UNCHANGED <<mode, visit, next, joining, record, cancelled>>
        BY <1>20, <2>2 DEF BranchPanics, fork
      <3>. QED
        BY <2>2, <3>1 DEF Shape, OneRunner
    <2>. QED BY <2>1, <2>2
  <1>21. ASSUME NEW b \in Branches, NEW v \in Visits, BranchNotifies(b, v)
        PROVE  OneRunner'
    BY <1>21 DEF Shape, OneRunner, BranchNotifies, Notify, fork
  <1>22. CASE JoinTimesOut
    BY <1>22 DEF Shape, OneRunner, JoinTimesOut, JoinGoes, fork
  <1>23. CASE RouteToJoin
    BY <1>23 DEF Shape, OneRunner, RouteToJoin, JoinGoes, fork
  <1>24. CASE Reenter
    BY <1>24 DEF Shape, OneRunner, Reenter, fork
  <1>25. CASE Stop
    BY <1>25 DEF Shape, OneRunner, Stop, fork
  <1>26. CASE HandlerDropped
    BY <1>26 DEF Shape, OneRunner, HandlerDropped, Aborted, fork
  <1>27. ASSUME NEW b \in Branches, NEW v \in Visits, SyncStep(b, v)
        PROVE  OneRunner'
    BY <1>27, SyncAlone DEF OneRunner
  <1>. QED
    BY <1>0, <1>1, <1>2, <1>3, <1>4, <1>5, <1>6, <1>7, <1>8, <1>9, <1>10,
       <1>11, <1>12, <1>13, <1>14, <1>15, <1>16, <1>17, <1>18, <1>19,
       <1>20, <1>21, <1>22, <1>23, <1>24, <1>25, <1>26, <1>27
    DEF Next, ForkStep, JoinStep, BranchStep, SyncStep

-----------------------------------------------------------------------------
\* Every step keeps settled records settled and settles before it returns.
LEMMA SettledStep == Shape /\ SettledFirst /\ [Next]_vars => SettledFirst'
  <1> SUFFICES ASSUME Shape, SettledFirst, [Next]_vars PROVE SettledFirst'
    OBVIOUS
  <1> USE ForkAssumption
  <1>0. CASE UNCHANGED vars
    BY <1>0 DEF Shape, SettledFirst, Settled, vars, fork
  <1>1. CASE LaunchSerial
    BY <1>1
    DEF Shape, SettledFirst, Settled, LaunchSerial, Registered, Started, fork
  <1>2. CASE LaunchParallel
    BY <1>2
    DEF Shape, SettledFirst, Settled, LaunchParallel, Registered, Started,
        fork
  <1>3. CASE LaunchDetached
    BY <1>3
    DEF Shape, SettledFirst, Settled, LaunchDetached, Registered, Started,
        fork
  <1>4. CASE SerialNext
    <2>1. CASE next = Len(Paths)
      BY <1>4, <2>1 DEF Shape, SettledFirst, Settled, SerialNext, Results, fork
    <2>2. CASE next # Len(Paths)
      <3>1. /\ next' = next + 1 /\ next + 1 \in 1 .. Len(Paths)
            /\ task' = Started({Paths[next + 1]})
            /\ pc = "serial" /\ pc' = "serial"
            /\ task[Paths[next]][visit] \in {"ok", "failed"}
            /\ UNCHANGED <<mode, visit, joining, record, cancelled>>
        BY <1>4, <2>2 DEF Shape, SerialNext
      <3>. QED
        BY <3>1 DEF Shape, SettledFirst, Settled, Started
    <2>. QED BY <2>1, <2>2
  <1>5. CASE SerialFailFast
    BY <1>5
    DEF Shape, SettledFirst, Settled, SerialFailFast, Results, Cancelled, fork
  <1>6. CASE SerialCancelled
    BY <1>6 DEF Shape, SettledFirst, Settled, SerialCancelled, Results, fork
  <1>7. ASSUME NEW b \in Branches, Collect(b)
        PROVE  SettledFirst'
    BY <1>7 DEF Shape, SettledFirst, Settled, Collect, Results, fork
  <1>8. ASSUME NEW b \in Branches, CollectFailFast(b)
        PROVE  SettledFirst'
    BY <1>8
    DEF Shape, SettledFirst, Settled, CollectFailFast, AbortRest, Cancelled,
        Aborted, fork
  <1>9. ASSUME NEW b \in Branches, CollectCancelled(b)
        PROVE  SettledFirst'
    BY <1>9
    DEF Shape, SettledFirst, Settled, CollectCancelled, AbortRest, Cancelled,
        Aborted, fork
  <1>10. CASE AllCollected
    BY <1>10 DEF Shape, SettledFirst, Settled, AllCollected, fork
  <1>11. CASE TotalTimeout
    BY <1>11
    DEF Shape, SettledFirst, Settled, TotalTimeout, AbortRest, Cancelled,
        Aborted, fork
  <1>12. CASE ForkReturns
    BY <1>12 DEF Shape, SettledFirst, Settled, ForkReturns, fork
  <1>13. CASE JoinCheck
    BY <1>13 DEF Shape, SettledFirst, Settled, JoinCheck, JoinGoes, fork
  <1>14. CASE JoinListen
    BY <1>14 DEF Shape, SettledFirst, Settled, JoinListen, JoinGoes, fork
  <1>15. CASE JoinRecheck
    BY <1>15 DEF Shape, SettledFirst, Settled, JoinRecheck, JoinGoes, fork
  <1>16. CASE JoinWake
    BY <1>16 DEF Shape, SettledFirst, Settled, JoinWake, JoinGoes, fork
  <1>17. CASE JoinCancelled
    BY <1>17
    DEF Shape, SettledFirst, Settled, JoinCancelled, Cancelled, Aborted, fork
  <1>18. CASE JoinRead
    BY <1>18 DEF Shape, SettledFirst, Settled, JoinRead, fork
  <1>19. ASSUME NEW b \in Branches, NEW v \in Visits, BranchReturns(b, v)
        PROVE  SettledFirst'
    BY <1>19 DEF Shape, SettledFirst, Settled, BranchReturns, Settle, fork
  <1>20. ASSUME NEW b \in Branches, NEW v \in Visits, BranchPanics(b, v)
        PROVE  SettledFirst'
    <2>1. CASE mode.launch = "detached"
      <3>1. /\ task[b][v] = "running" /\ Settle(b, v, FALSE)
            /\ \E x \in {"failed", "failNotify"} :
                  task' = [task EXCEPT ![b][v] = x]
            /\ UNCHANGED <<mode, visit, pc, next, joining, cancelled>>
        BY <1>20, <2>1 DEF BranchPanics, fork
      <3>. QED
        BY <2>1, <3>1 DEF Shape, SettledFirst, Settled, Settle
    <2>2. CASE mode.launch # "detached"
      <3>1. /\ task[b][v] = "running"
            /\ task' = [task EXCEPT ![b][v] = "panicked"]
            /\ \/ mode.launch = "serial" /\ pc' \in {"stopped", "failed"}
               \/ mode.launch # "serial" /\ pc' = pc
            /\ UNCHANGED <<mode, visit, next, joining, record, cancelled>>
        BY <1>20, <2>2 DEF BranchPanics, fork
      <3>. QED
        BY <2>2, <3>1 DEF Shape, SettledFirst, Settled
    <2>. QED BY <2>1, <2>2
  <1>21. ASSUME NEW b \in Branches, NEW v \in Visits, BranchNotifies(b, v)
        PROVE  SettledFirst'
    BY <1>21 DEF Shape, SettledFirst, Settled, BranchNotifies, Notify, fork
  <1>22. CASE JoinTimesOut
    BY <1>22 DEF Shape, SettledFirst, Settled, JoinTimesOut, JoinGoes, fork
  <1>23. CASE RouteToJoin
    BY <1>23 DEF Shape, SettledFirst, Settled, RouteToJoin, JoinGoes, fork
  <1>24. CASE Reenter
    BY <1>24 DEF Shape, SettledFirst, Settled, Reenter, fork
  <1>25. CASE Stop
    BY <1>25 DEF Shape, SettledFirst, Settled, Stop, fork
  <1>26. CASE HandlerDropped
    BY <1>26 DEF Shape, SettledFirst, Settled, HandlerDropped, Aborted, fork
  <1>27. ASSUME NEW b \in Branches, NEW v \in Visits, SyncStep(b, v)
        PROVE  SettledFirst'
    BY <1>27, SyncAlone DEF SettledFirst, Settled
  <1>. QED
    BY <1>0, <1>1, <1>2, <1>3, <1>4, <1>5, <1>6, <1>7, <1>8, <1>9, <1>10,
       <1>11, <1>12, <1>13, <1>14, <1>15, <1>16, <1>17, <1>18, <1>19,
       <1>20, <1>21, <1>22, <1>23, <1>24, <1>25, <1>26, <1>27
    DEF Next, ForkStep, JoinStep, BranchStep, SyncStep

-----------------------------------------------------------------------------
\* If no branch can panic under a blocking FORK, every step leaves each branch
\* settled or in somebody's hands.
LEMMA LostStep ==
  ASSUME PanicIn \subseteq {"detached"}
  PROVE  Shape /\ SettledFirst /\ NobodyLost /\ [Next]_vars => NobodyLost'
  <1> SUFFICES ASSUME Shape, SettledFirst, NobodyLost, [Next]_vars PROVE NobodyLost'
    OBVIOUS
  <1> USE ForkAssumption
  <1>0. CASE UNCHANGED vars
    BY <1>0
    DEF Shape, SettledFirst, NobodyLost, Owed, Settled, Skipped, vars, fork
  <1>1. CASE LaunchSerial
    <2>1. /\ pc = "fork" /\ pc' = "serial" /\ next = 1
          /\ record' = Registered /\ task' = Started({Paths[1]})
          /\ UNCHANGED <<next, visit>>
      BY <1>1 DEF Shape, LaunchSerial, fork
    <2>2. ASSUME NEW b \in Branches PROVE Owed(b)'
      <3>1. CASE b = Paths[1]
        BY <2>1, <3>1 DEF Shape, Owed, Started
      <3>2. CASE b # Paths[1]
        <4>1. PICK i \in 1 .. Len(Paths) : b = Paths[i]
          BY PathFacts
        <4>2. i \in 2 .. Len(Paths)
          BY <3>2, <4>1
        <4>3. Skipped' = {Paths[k] : k \in 2 .. Len(Paths)}
          BY <2>1 DEF Skipped
        <4>. QED BY <2>1, <4>1, <4>2, <4>3 DEF Owed
      <3>. QED BY <3>1, <3>2
    <2>. QED BY <2>2 DEF NobodyLost
  <1>2. CASE LaunchParallel
    BY <1>2 DEF Shape, SettledFirst, NobodyLost, Owed, Settled, Skipped,
       LaunchParallel, Registered, Started, fork
  <1>3. CASE LaunchDetached
    BY <1>3 DEF Shape, SettledFirst, NobodyLost, Owed, Settled, Skipped,
       LaunchDetached, Registered, Started, fork
  <1>4. CASE SerialNext
    <2>1. CASE next = Len(Paths)
      BY <1>4, <2>1
      DEF Shape, SettledFirst, NobodyLost, Owed, Settled, Skipped, SerialNext,
          Results, fork
    <2>2. CASE next # Len(Paths)
      <3>1. /\ next' = next + 1 /\ next + 1 \in 1 .. Len(Paths)
            /\ task' = Started({Paths[next + 1]})
            /\ pc = "serial" /\ pc' = "serial"
            /\ task[Paths[next]][visit] \in {"ok", "failed"}
            /\ UNCHANGED <<mode, visit, joining, record, cancelled>>
        BY <1>4, <2>2 DEF Shape, SerialNext
      <3>2. ASSUME NEW b \in Branches PROVE Owed(b)'
        <4>1. CASE b = Paths[next + 1]
          BY <3>1, <4>1 DEF Shape, Owed, Started
        <4>2. CASE b # Paths[next + 1]
          <5>1. task'[b] = task[b] /\ record'[b] = record[b]
            BY <3>1, <4>2 DEF Started
          <5>2. b \in Skipped => b \in Skipped'
            <6>1. SUFFICES ASSUME b \in Skipped PROVE b \in Skipped'
              OBVIOUS
            <6>2. PICK i \in next + 1 .. Len(Paths) : b = Paths[i]
              BY <6>1 DEF Skipped
            <6>3. i \in next' + 1 .. Len(Paths)
              BY <3>1, <4>2, <6>2, ForkAssumption DEF Shape
            <6>. QED BY <6>2, <6>3 DEF Skipped
          <5>. QED BY <3>1, <5>1, <5>2 DEF NobodyLost, Owed, Settled
        <4>. QED BY <4>1, <4>2
      <3>. QED BY <3>2 DEF NobodyLost
    <2>. QED BY <2>1, <2>2
  <1>5. CASE SerialFailFast
    BY <1>5 DEF Shape, SettledFirst, NobodyLost, Owed, Settled, Skipped,
       SerialFailFast, Results, Cancelled, fork
  <1>6. CASE SerialCancelled
    BY <1>6 DEF Shape, SettledFirst, NobodyLost, Owed, Settled, Skipped,
       SerialCancelled, Results, fork
  <1>7. ASSUME NEW b \in Branches, Collect(b)
        PROVE  NobodyLost'
    BY <1>7
    DEF Shape, SettledFirst, NobodyLost, Owed, Settled, Skipped, Collect,
        Results, fork
  <1>8. ASSUME NEW b \in Branches, CollectFailFast(b)
        PROVE  NobodyLost'
    BY <1>8 DEF Shape, SettledFirst, NobodyLost, Owed, Settled, Skipped,
       CollectFailFast, AbortRest, Cancelled, Aborted, fork
  <1>9. ASSUME NEW b \in Branches, CollectCancelled(b)
        PROVE  NobodyLost'
    BY <1>9 DEF Shape, SettledFirst, NobodyLost, Owed, Settled, Skipped,
       CollectCancelled, AbortRest, Cancelled, Aborted, fork
  <1>10. CASE AllCollected
    BY <1>10
    DEF Shape, SettledFirst, NobodyLost, Owed, Settled, Skipped, AllCollected,
        fork
  <1>11. CASE TotalTimeout
    BY <1>11
    DEF Shape, SettledFirst, NobodyLost, Owed, Settled, Skipped, TotalTimeout,
        AbortRest, Cancelled, Aborted, fork
  <1>12. CASE ForkReturns
    BY <1>12
    DEF Shape, SettledFirst, NobodyLost, Owed, Settled, Skipped, ForkReturns,
        fork
  <1>13. CASE JoinCheck
    BY <1>13
    DEF Shape, SettledFirst, NobodyLost, Owed, Settled, Skipped, JoinCheck,
        JoinGoes, fork
  <1>14. CASE JoinListen
    BY <1>14
    DEF Shape, SettledFirst, NobodyLost, Owed, Settled, Skipped, JoinListen,
        JoinGoes, fork
  <1>15. CASE JoinRecheck
    BY <1>15
    DEF Shape, SettledFirst, NobodyLost, Owed, Settled, Skipped, JoinRecheck,
        JoinGoes, fork
  <1>16. CASE JoinWake
    BY <1>16
    DEF Shape, SettledFirst, NobodyLost, Owed, Settled, Skipped, JoinWake,
        JoinGoes, fork
  <1>17. CASE JoinCancelled
    BY <1>17 DEF Shape, SettledFirst, NobodyLost, Owed, Settled, Skipped,
       JoinCancelled, Cancelled, Aborted, fork
  <1>18. CASE JoinRead
    BY <1>18
    DEF Shape, SettledFirst, NobodyLost, Owed, Settled, Skipped, JoinRead,
        fork
  <1>19. ASSUME NEW b \in Branches, NEW v \in Visits, BranchReturns(b, v)
        PROVE  NobodyLost'
    BY <1>19 DEF Shape, SettledFirst, NobodyLost, Owed, Settled, Skipped,
       BranchReturns, Settle, fork
  <1>20. ASSUME NEW b \in Branches, NEW v \in Visits, BranchPanics(b, v)
        PROVE  NobodyLost'
    <2>1. CASE mode.launch = "detached"
      <3>1. /\ task[b][v] = "running" /\ Settle(b, v, FALSE)
            /\ \E x \in {"failed", "failNotify"} :
                  task' = [task EXCEPT ![b][v] = x]
            /\ UNCHANGED <<mode, visit, pc, next, joining, cancelled>>
        BY <1>20, <2>1 DEF BranchPanics, fork
      <3>. QED
        BY <2>1, <3>1
        DEF Shape, SettledFirst, NobodyLost, Owed, Settled, Skipped, Settle
    <2>2. mode.launch = "detached"
      BY <1>20 DEF BranchPanics
    <2>. QED BY <2>1, <2>2
  <1>21. ASSUME NEW b \in Branches, NEW v \in Visits, BranchNotifies(b, v)
        PROVE  NobodyLost'
    BY <1>21 DEF Shape, SettledFirst, NobodyLost, Owed, Settled, Skipped,
       BranchNotifies, Notify, fork
  <1>22. CASE JoinTimesOut
    BY <1>22
    DEF Shape, SettledFirst, NobodyLost, Owed, Settled, Skipped, JoinTimesOut,
        JoinGoes, fork
  <1>23. CASE RouteToJoin
    BY <1>23
    DEF Shape, SettledFirst, NobodyLost, Owed, Settled, Skipped, RouteToJoin,
        JoinGoes, fork
  <1>24. CASE Reenter
    BY <1>24
    DEF Shape, SettledFirst, NobodyLost, Owed, Settled, Skipped, Reenter, fork
  <1>25. CASE Stop
    BY <1>25
    DEF Shape, SettledFirst, NobodyLost, Owed, Settled, Skipped, Stop, fork
  <1>26. CASE HandlerDropped
    BY <1>26 DEF Shape, SettledFirst, NobodyLost, Owed, Settled, Skipped,
       HandlerDropped, Aborted, fork
  <1>27. ASSUME NEW b \in Branches, NEW v \in Visits, SyncStep(b, v)
        PROVE  NobodyLost'
    BY <1>27, SyncAlone DEF NobodyLost, Owed, Settled, Skipped
  <1>. QED
    BY <1>0, <1>1, <1>2, <1>3, <1>4, <1>5, <1>6, <1>7, <1>8, <1>9, <1>10,
       <1>11, <1>12, <1>13, <1>14, <1>15, <1>16, <1>17, <1>18, <1>19,
       <1>20, <1>21, <1>22, <1>23, <1>24, <1>25, <1>26, <1>27
    DEF Next, ForkStep, JoinStep, BranchStep, SyncStep

-----------------------------------------------------------------------------
\* A branch that is still to be started has neither a task nor a SYNC in this
\* visit.
LEMMA FreshStep == Shape /\ Fresh /\ [Next]_vars => Fresh'
  <1> SUFFICES ASSUME Shape, Fresh, [Next]_vars PROVE Fresh'
    OBVIOUS
  <1> USE ForkAssumption DEF Visits
  <1>0. CASE UNCHANGED vars
    BY <1>0 DEF Shape, Fresh, Unborn, Skipped, vars, fork
  <1>1. CASE LaunchSerial
    <2>1. /\ pc = "fork" /\ pc' = "serial" /\ next = 1
          /\ task' = Started({Paths[1]})
          /\ UNCHANGED <<next, visit, sync>>
      BY <1>1 DEF Shape, LaunchSerial, fork
    <2>2. Paths[1] \notin Skipped'
      BY <2>1 DEF Skipped
    <2>. QED BY <2>1, <2>2 DEF Shape, Fresh, Unborn, Started
  <1>2. CASE LaunchParallel
    BY <1>2 DEF Shape, Fresh, Unborn, LaunchParallel, Started
  <1>3. CASE LaunchDetached
    BY <1>3 DEF Shape, Fresh, Unborn, LaunchDetached, Started
  <1>4. CASE SerialNext
    <2>1. CASE next = Len(Paths)
      BY <1>4, <2>1 DEF Shape, Fresh, Unborn, SerialNext
    <2>2. CASE next # Len(Paths)
      <3>1. /\ next' = next + 1 /\ next + 1 \in 1 .. Len(Paths)
            /\ task' = Started({Paths[next + 1]})
            /\ pc = "serial" /\ pc' = "serial"
            /\ UNCHANGED <<visit, sync>>
        BY <1>4, <2>2 DEF Shape, SerialNext
      <3>2. Skipped' \subseteq Skipped
        BY <3>1 DEF Shape, Skipped
      <3>3. ASSUME NEW i \in next' + 1 .. Len(Paths)
            PROVE  Paths[i] # Paths[next + 1]
        <4>1. i \in 1 .. Len(Paths) /\ i # next + 1
          BY <3>1 DEF Shape
        <4>. QED BY <3>1, <4>1
      <3>4. Paths[next + 1] \notin Skipped'
        BY <3>3 DEF Skipped
      <3>. QED BY <3>1, <3>2, <3>4 DEF Shape, Fresh, Unborn, Started
    <2>. QED BY <2>1, <2>2
  <1>5. CASE SerialFailFast
    BY <1>5 DEF Shape, Fresh, Unborn, SerialFailFast
  <1>6. CASE SerialCancelled
    BY <1>6 DEF Shape, Fresh, Unborn, SerialCancelled
  <1>7. ASSUME NEW b \in Branches, Collect(b)
        PROVE  Fresh'
    BY <1>7 DEF Shape, Fresh, Unborn, Collect
  <1>8. ASSUME NEW b \in Branches,
               CollectFailFast(b) \/ CollectCancelled(b) \/ TotalTimeout
        PROVE  Fresh'
    <2>1. pc' = "evaluate" /\ task' = Aborted(Branches) /\ UNCHANGED <<visit, sync>>
      BY <1>8 DEF CollectFailFast, CollectCancelled, TotalTimeout, AbortRest
    <2>. QED BY <2>1 DEF Shape, Fresh, Unborn, Aborted
  <1>9. CASE AllCollected \/ ForkReturns \/ JoinRead
    BY <1>9 DEF Shape, Fresh, Unborn, AllCollected, ForkReturns, JoinRead, fork
  <1>10. CASE JoinCheck \/ JoinListen \/ JoinRecheck \/ JoinWake \/ JoinTimesOut
              \/ RouteToJoin
    BY <1>10 DEF Shape, Fresh, Unborn, JoinCheck, JoinListen, JoinRecheck,
       JoinWake, JoinTimesOut, RouteToJoin, JoinGoes, fork
  <1>11. CASE JoinCancelled
    BY <1>11 DEF Shape, Fresh, Unborn, JoinCancelled, Aborted, fork
  <1>12. ASSUME NEW b \in Branches, NEW v \in Visits, BranchReturns(b, v)
        PROVE  Fresh'
    BY <1>12 DEF Shape, Fresh, Unborn, Skipped, BranchReturns, fork
  <1>13. ASSUME NEW b \in Branches, NEW v \in Visits, BranchPanics(b, v)
        PROVE  Fresh'
    <2>1. /\ task[b][v] = "running"
          /\ \E x \in TaskPc : task' = [task EXCEPT ![b][v] = x]
          /\ pc' = pc \/ pc' \in {"stopped", "failed"}
          /\ UNCHANGED <<visit, next, sync>>
      BY <1>13 DEF BranchPanics, TaskPc, fork
    <2>. QED BY <2>1 DEF Shape, Fresh, Unborn, Skipped
  <1>14. ASSUME NEW b \in Branches, NEW v \in Visits, BranchNotifies(b, v)
        PROVE  Fresh'
    BY <1>14 DEF Shape, Fresh, Unborn, Skipped, BranchNotifies, Notify, fork
  <1>15. CASE Reenter
    BY <1>15 DEF Shape, Fresh, Unborn, Reenter
  <1>16. CASE Stop
    BY <1>16 DEF Shape, Fresh, Unborn, Skipped, Stop, fork
  <1>17. CASE HandlerDropped
    BY <1>17 DEF Shape, Fresh, Unborn, HandlerDropped, Aborted, fork
  <1>18. ASSUME NEW b \in Branches, NEW v \in Visits, SyncStep(b, v)
        PROVE  Fresh'
    <2>1. PICK x \in SyncPc : sync' = [sync EXCEPT ![b][v] = x]
      BY <1>18, SyncAlone
    <2>2. task[b][v] = "running" /\ UNCHANGED <<visit, pc, next, task>>
      BY <1>18, SyncAlone
    <2>. QED BY <2>1, <2>2 DEF Shape, Fresh, Unborn, Skipped
  <1>. QED
    BY <1>0, <1>1, <1>2, <1>3, <1>4, <1>5, <1>6, <1>7, <1>8, <1>9, <1>10,
       <1>11, <1>12, <1>13, <1>14, <1>15, <1>16, <1>17, <1>18
    DEF Next, ForkStep, JoinStep, BranchStep, SyncStep

-----------------------------------------------------------------------------
\* A step that changes no record, no task and no SYNC, and that does not put
\* the JOIN to sleep, loses no wake-up.
LEMMA NothingLost ==
  ASSUME NoLostWakeup, UNCHANGED <<mode, record, task, sync>>,
         pc' = "sleep" => pc = "sleep" /\ notified' = notified
  PROVE  NoLostWakeup'
  <1>1. Enough' = Enough /\ \A b : Settled(b)' = Settled(b)
    BY DEF Enough, SettledCount, Settled
  <1>2. \A bs : WakeDue(bs)' = WakeDue(bs)
    BY DEF WakeDue
  <1>. QED BY <1>1, <1>2 DEF NoLostWakeup

\* A task that is about to notify goes on to.
LEMMA WakeKept ==
  ASSUME NEW bs \in SUBSET Branches,
         \A b \in Branches, v \in Visits :
            task[b][v] \in {"okNotify", "failNotify"} => task'[b][v] = task[b][v]
  PROVE  WakeDue(bs) => WakeDue(bs)'
  BY DEF WakeDue

\* A branch that settles is about to notify: its waiters may go on sleeping.
LEMMA SettlingWakes ==
  ASSUME Shape, NoLostWakeup, NEW b \in Branches, NEW v \in Visits,
         task[b][v] = "running",
         NEW x \in TaskPc \ {"running"}, task' = [task EXCEPT ![b][v] = x],
         Settled(b) => record' = record,
         ~Settled(b) => /\ x \in {"okNotify", "failNotify"}
                        /\ \A c \in Branches \ {b} : record'[c] = record[c],
         UNCHANGED <<mode, pc, sync, notified>>
  PROVE  NoLostWakeup'
  <1>1. \A c \in Branches, u \in Visits :
           task'[c][u] = IF c = b /\ u = v THEN x ELSE task[c][u]
    BY DEF Shape
  <1>2. \A bs \in SUBSET Branches : WakeDue(bs) => WakeDue(bs)'
    BY <1>1, WakeKept
  <1>3. \A c \in Branches, u \in Visits :
           task'[c][u] = "running" => task[c][u] = "running"
    BY <1>1
  <1>4. CASE Settled(b)
    <2>1. Enough' = Enough /\ \A c : Settled(c)' = Settled(c)
      BY <1>4 DEF Enough, SettledCount, Settled
    <2>. QED BY <1>2, <1>3, <2>1, ForkAssumption DEF NoLostWakeup
  <1>5. CASE ~Settled(b)
    <2>1. WakeDue({b})' /\ WakeDue(Branches)'
      BY <1>1, <1>5 DEF WakeDue
    <2>2. \A c \in Branches : c # b => Settled(c)' = Settled(c)
      BY <1>5 DEF Settled
    <2>3. ASSUME NEW c \in DOMAIN Source, NEW u \in Visits,
                 task'[c][u] = "running", sync'[c][u] = "sleep",
                 Settled(Source[c])'
          PROVE  WakeDue({Source[c]})'
      <3>1. c \in Branches /\ Source[c] \in Branches
        BY ForkAssumption
      <3>2. CASE Source[c] = b
        BY <2>1, <3>2
      <3>3. CASE Source[c] # b
        BY <1>2, <1>3, <2>2, <2>3, <3>1, <3>3 DEF NoLostWakeup
      <3>. QED BY <3>2, <3>3
    <2>. QED BY <2>1, <2>3 DEF NoLostWakeup
  <1>. QED BY <1>4, <1>5

\* Every step keeps the wake-ups: whoever finds a branch unsettled is registered
\* before it sleeps, and where records are cancelled without a notification no
\* task is left that could wait for them.
LEMMA WakeStep ==
  Shape /\ OneRunner /\ Fresh /\ NoLostWakeup /\ [Next]_vars => NoLostWakeup'
  <1> SUFFICES ASSUME Shape, OneRunner, Fresh, NoLostWakeup, [Next]_vars
               PROVE  NoLostWakeup'
    OBVIOUS
  <1> USE ForkAssumption
  <1>0. CASE UNCHANGED vars
    BY <1>0, NothingLost DEF vars
  <1>1. CASE LaunchSerial \/ LaunchParallel \/ LaunchDetached
    <2>1. PICK bs \in SUBSET Branches : task' = Started(bs)
      BY <1>1, PathFacts DEF LaunchSerial, LaunchParallel, LaunchDetached
    <2>2. /\ pc = "fork" /\ pc' # "sleep" /\ record' = Registered
          /\ UNCHANGED <<visit, sync>>
      BY <1>1 DEF LaunchSerial, LaunchParallel, LaunchDetached
    <2>3. \A b \in Branches : Settled(b)' = Settled(b)
      BY <2>2 DEF Shape, Registered, Settled
    <2>4. \A b \in Branches : sync[b][visit] = "before" /\ task[b][visit] = "none"
      BY <2>2 DEF Shape, Fresh, Unborn
    <2>5. \A b \in Branches, v \in Visits :
             /\ v # visit => task'[b][v] = task[b][v]
             /\ v = visit => task'[b][v] \in {"none", "running"}
      BY <2>1, <2>4 DEF Shape, Started
    <2>6. \A b \in Branches, v \in Visits :
             task[b][v] \in {"okNotify", "failNotify"} => task'[b][v] = task[b][v]
      BY <2>4, <2>5
    <2>7. \A bs1 \in SUBSET Branches : WakeDue(bs1) => WakeDue(bs1)'
      BY <2>6, WakeKept
    <2>8. ASSUME NEW b \in DOMAIN Source, NEW v \in Visits,
                 task'[b][v] = "running", sync'[b][v] = "sleep",
                 Settled(Source[b])'
          PROVE  WakeDue({Source[b]})'
      <3>1. v # visit /\ task[b][v] = "running" /\ sync[b][v] = "sleep"
        BY <2>2, <2>4, <2>5, <2>8
      <3>2. Source[b] \in Branches /\ Settled(Source[b])
        BY <2>3, <2>8
      <3>. QED BY <2>7, <3>1, <3>2 DEF NoLostWakeup
    <2>. QED BY <2>2, <2>8 DEF NoLostWakeup
  <1>2. CASE SerialNext
    <2>1. CASE next = Len(Paths)
      BY <1>2, <2>1, NothingLost DEF SerialNext
    <2>2. CASE next # Len(Paths)
      <3>1. /\ next' = next + 1 /\ next + 1 \in 1 .. Len(Paths)
            /\ task' = Started({Paths[next + 1]})
            /\ pc = "serial" /\ pc' = "serial"
            /\ UNCHANGED <<visit, record, sync>>
        BY <1>2, <2>2 DEF Shape, SerialNext
      <3>2. DEFINE c == Paths[next + 1]
      <3>3. c \in Branches /\ c \in Skipped
        <4>1. next + 1 \in next + 1 .. Len(Paths)
          BY <3>1 DEF Shape
        <4>. QED BY <3>1, <4>1, PathFacts DEF Skipped
      <3>4. sync[c][visit] = "before" /\ task[c][visit] = "none"
        BY <3>1, <3>3 DEF Shape, Fresh, Unborn
      <3> HIDE DEF c
      <3>5. task' = [task EXCEPT ![c][visit] = "running"]
        BY <3>1, <3>3 DEF Shape, Started, c
      <3>6. \A b \in Branches, v \in Visits :
               task'[b][v] = IF b = c /\ v = visit THEN "running" ELSE task[b][v]
        BY <3>5 DEF Shape
      <3>7. \A bs \in SUBSET Branches : WakeDue(bs) => WakeDue(bs)'
        BY <3>4, <3>6, WakeKept
      <3>8. \A b : Settled(b)' = Settled(b)
        BY <3>1 DEF Settled
      <3>9. ASSUME NEW b \in DOMAIN Source, NEW v \in Visits,
                   task'[b][v] = "running", sync'[b][v] = "sleep",
                   Settled(Source[b])'
            PROVE  WakeDue({Source[b]})'
        <4>1. b \in Branches /\ Source[b] \in Branches
          OBVIOUS
        <4>2. task[b][v] = "running" /\ sync[b][v] = "sleep"
          BY <3>1, <3>4, <3>6, <3>9, <4>1
        <4>. QED BY <3>7, <3>8, <3>9, <4>1, <4>2 DEF NoLostWakeup
      <3>. QED BY <3>1, <3>9 DEF NoLostWakeup
    <2>. QED BY <2>1, <2>2
  <1>3. CASE SerialFailFast
    <2>1. \A b \in Branches, v \in Visits : task'[b][v] # "running"
      BY <1>3 DEF Shape, OneRunner, SerialFailFast
    <2>. QED BY <1>3, <2>1 DEF SerialFailFast, NoLostWakeup
  <1>4. CASE SerialCancelled \/ AllCollected \/ ForkReturns \/ JoinRead \/ Stop
    BY <1>4, NothingLost
    DEF SerialCancelled, AllCollected, ForkReturns, JoinRead, Stop
  <1>5. ASSUME NEW b \in Branches, Collect(b)
        PROVE  NoLostWakeup'
    BY <1>5, NothingLost DEF Collect
  <1>6. ASSUME NEW b \in Branches,
               CollectFailFast(b) \/ CollectCancelled(b) \/ TotalTimeout
        PROVE  NoLostWakeup'
    <2>1. pc = "collect" /\ pc' = "evaluate" /\ task' = Aborted(Branches)
      BY <1>6 DEF CollectFailFast, CollectCancelled, TotalTimeout, AbortRest
    <2>2. \A c \in Branches, v \in Visits : task'[c][v] # "running"
      BY <2>1 DEF Shape, OneRunner, Aborted
    <2>. QED BY <2>1, <2>2 DEF NoLostWakeup
  <1>7. CASE JoinCheck \/ JoinListen \/ JoinWake \/ JoinTimesOut \/ RouteToJoin
    BY <1>7, NothingLost DEF JoinCheck, JoinListen, JoinWake, JoinTimesOut,
       RouteToJoin, JoinGoes
  <1>8. CASE JoinRecheck
    <2>1. CASE Enough
      BY <1>8, <2>1, NothingLost DEF JoinRecheck, JoinGoes
    <2>2. CASE ~Enough
      <3>1. UNCHANGED <<mode, record, task, sync>>
        BY <1>8 DEF JoinRecheck, JoinGoes
      <3>2. Enough' = Enough /\ \A b : Settled(b)' = Settled(b)
        BY <3>1 DEF Enough, SettledCount, Settled
      <3>3. \A bs : WakeDue(bs)' = WakeDue(bs)
        BY <3>1 DEF WakeDue
      <3>. QED BY <2>2, <3>1, <3>2, <3>3 DEF NoLostWakeup
    <2>. QED BY <2>1, <2>2
  <1>9. CASE JoinCancelled
    BY <1>9 DEF Shape, JoinCancelled, NoLostWakeup
  <1>10. ASSUME NEW b \in Branches, NEW v \in Visits, BranchReturns(b, v)
        PROVE  NoLostWakeup'
    <2>1. PICK ok \in BOOLEAN :
             /\ Settle(b, v, ok)
             /\ task' = [task EXCEPT ![b][v] =
                   IF Settled(b) THEN IF ok THEN "ok" ELSE "failed"
                                 ELSE IF ok THEN "okNotify" ELSE "failNotify"]
      BY <1>10 DEF BranchReturns
    <2>2. PICK x \in TaskPc \ {"running"} :
             /\ task' = [task EXCEPT ![b][v] = x]
             /\ ~Settled(b) => x \in {"okNotify", "failNotify"}
      BY <2>1 DEF TaskPc
    <2>3. /\ Settled(b) => record' = record
          /\ ~Settled(b) => \A c \in Branches \ {b} : record'[c] = record[c]
      BY <2>1 DEF Settle, Shape
    <2>4. task[b][v] = "running" /\ UNCHANGED <<mode, pc, sync, notified>>
      BY <1>10 DEF BranchReturns
    <2>. QED BY <2>2, <2>3, <2>4, SettlingWakes
  <1>11. ASSUME NEW b \in Branches, NEW v \in Visits, BranchPanics(b, v)
        PROVE  NoLostWakeup'
    <2>1. CASE mode.launch = "detached"
      <3>1. /\ Settle(b, v, FALSE)
            /\ task' = [task EXCEPT ![b][v] =
                           IF Settled(b) THEN "failed" ELSE "failNotify"]
            /\ task[b][v] = "running" /\ UNCHANGED <<mode, pc, sync, notified>>
        BY <1>11, <2>1 DEF BranchPanics
      <3>2. PICK x \in TaskPc \ {"running"} :
               /\ task' = [task EXCEPT ![b][v] = x]
               /\ ~Settled(b) => x \in {"okNotify", "failNotify"}
        BY <3>1 DEF TaskPc
      <3>3. /\ Settled(b) => record' = record
            /\ ~Settled(b) => \A c \in Branches \ {b} : record'[c] = record[c]
        BY <3>1 DEF Settle, Shape
      <3>4. task[b][v] = "running" /\ UNCHANGED <<mode, pc, sync, notified>>
        BY <3>1
      <3>. QED BY <3>2, <3>3, <3>4, SettlingWakes
    <2>2. CASE mode.launch # "detached"
      <3>1. /\ task[b][v] = "running"
            /\ task' = [task EXCEPT ![b][v] = "panicked"]
            /\ UNCHANGED <<mode, record, sync, notified>>
            /\ pc' = "sleep" => pc = "sleep"
        BY <1>11, <2>2 DEF BranchPanics
      <3>2. Enough' = Enough /\ \A c : Settled(c)' = Settled(c)
        BY <3>1 DEF Enough, SettledCount, Settled
      <3>3. \A bs : WakeDue(bs) => WakeDue(bs)'
        BY <3>1 DEF Shape, WakeDue
      <3>4. \A c \in Branches, u \in Visits :
               task'[c][u] = "running" => task[c][u] = "running"
        BY <3>1 DEF Shape
      <3>. QED BY <3>1, <3>2, <3>3, <3>4 DEF NoLostWakeup
    <2>. QED BY <2>1, <2>2
  <1>12. ASSUME NEW b \in Branches, NEW v \in Visits, BranchNotifies(b, v)
        PROVE  NoLostWakeup'
    <2>1. /\ \E x \in {"ok", "failed"} : task' = [task EXCEPT ![b][v] = x]
          /\ Notify(b)
          /\ UNCHANGED <<mode, pc, record>>
      BY <1>12 DEF BranchNotifies
    <2>2. Enough' = Enough /\ \A c : Settled(c)' = Settled(c)
      BY <2>1 DEF Enough, SettledCount, Settled
    <2>3. \A c \in Branches \ {b} : WakeDue({c}) => WakeDue({c})'
      BY <2>1 DEF Shape, WakeDue
    <2>4. \A c \in Branches, u \in Visits :
             task'[c][u] = "running" => task[c][u] = "running"
      BY <2>1 DEF Shape
    <2>5. \A c \in DOMAIN Source, u \in Visits :
             sync'[c][u] = "sleep" => sync[c][u] = "sleep" /\ Source[c] # b
      BY <2>1 DEF Shape, Notify
    <2>6. pc' = "sleep" => notified'
      BY <2>1 DEF Notify
    <2>. QED BY <2>2, <2>3, <2>4, <2>5, <2>6 DEF NoLostWakeup
  <1>13. CASE Reenter
    BY <1>13, NothingLost DEF Reenter
  <1>14. CASE HandlerDropped
    <2>1. /\ pc' = "stopped" /\ UNCHANGED <<mode, record, sync>>
          /\ task' = task \/ task' = Aborted(Branches)
      BY <1>14 DEF HandlerDropped
    <2>2. \A b : Settled(b)' = Settled(b)
      BY <2>1 DEF Settled
    <2>3. \A b \in Branches, v \in Visits :
             /\ task'[b][v] = "running" => task[b][v] = "running"
             /\ task[b][v] \in {"okNotify", "failNotify"} => task'[b][v] = task[b][v]
      BY <2>1 DEF Shape, Aborted
    <2>4. \A bs \in SUBSET Branches : WakeDue(bs) => WakeDue(bs)'
      BY <2>3 DEF WakeDue
    <2>. QED BY <2>1, <2>2, <2>3, <2>4 DEF NoLostWakeup
  <1>15. ASSUME NEW b \in Branches, NEW v \in Visits, SyncStep(b, v)
        PROVE  NoLostWakeup'
    <2>0. PICK x \in SyncPc :
             /\ sync' = [sync EXCEPT ![b][v] = x]
             /\ x = "sleep" => ~Settled(Source[b])
      BY <1>15
      DEF SyncStep, SyncBegins, SyncRechecks, SyncTimesOut, SyncGoes, SyncPc
    <2>1. /\ UNCHANGED <<mode, pc, record, task, notified>>
          /\ \A c \in Branches, u \in Visits :
                sync'[c][u] = "sleep" =>
                   sync[c][u] = "sleep" \/ ~Settled(Source[c])
      BY <1>15, <2>0, SyncAlone DEF Shape
    <2>2. Enough' = Enough /\ \A c : Settled(c)' = Settled(c)
      BY <2>1 DEF Enough, SettledCount, Settled
    <2>3. \A bs : WakeDue(bs)' = WakeDue(bs)
      BY <2>1 DEF WakeDue
    <2>. QED BY <2>1, <2>2, <2>3 DEF NoLostWakeup
  <1>. QED
    BY <1>0, <1>1, <1>2, <1>3, <1>4, <1>5, <1>6, <1>7, <1>8, <1>9, <1>10,
       <1>11, <1>12, <1>13, <1>14, <1>15
    DEF Next, ForkStep, JoinStep, BranchStep, SyncStep

-----------------------------------------------------------------------------
\* The variables that decide who runs and who has settled keep their types.
THEOREM ShapeAlways == Spec => []Shape
  <1>1. Init => Shape
    <2> SUFFICES ASSUME Init PROVE Shape
      OBVIOUS
    <2>1. /\ visit \in Visits
          /\ next \in 1 .. Len(Paths)
      BY ForkAssumption DEF Init, Visits
    <2>2. record \in [Branches -> [status : RecordStatus, by : Visits \cup {0}]]
      BY DEF Init, RecordStatus
    <2>3. task \in [Branches -> [Visits -> TaskPc]]
      BY DEF Init, TaskPc
    <2>4. sync \in [Branches -> [Visits -> SyncPc]]
      BY DEF Init, SyncPc
    <2>. QED BY <2>1, <2>2, <2>3, <2>4 DEF Init, Shape, ParentPc
  <1>. QED BY <1>1, ShapeStep, PTL DEF Spec

\* A blocking FORK that has ended, by success, failure, deadline or stop(), has
\* left no branch task running, for any number of branches and executions.
THEOREM NoStrayBranchAlways == Spec => []NoStrayBranch
  <1>1. Init => OneRunner
    BY DEF Init, OneRunner
  <1>2. OneRunner => NoStrayBranch
    BY DEF OneRunner, NoStrayBranch
  <1>. QED BY <1>1, <1>2, RunnerStep, ShapeAlways, PTL DEF Spec

\* While the JOIN waits, every branch that has not settled still has a task
\* that will settle it, as long as panics stay within detached branches (which
\* alone are settled by their wrapper).
THEOREM NoOrphanAlways ==
  ASSUME PanicIn \subseteq {"detached"}
  PROVE  Spec => []NoOrphan
  <1>1. Init => SettledFirst /\ NobodyLost
    BY DEF Init, SettledFirst, NobodyLost, Owed
  <1>2. NobodyLost => NoOrphan
    BY DEF NobodyLost, Owed, NoOrphan, JoinWaiting
  <1>3. Shape /\ SettledFirst /\ NobodyLost /\ [Next]_vars
            => SettledFirst' /\ NobodyLost'
    BY SettledStep, LostStep
  <1>. QED BY <1>1, <1>2, <1>3, ShapeAlways, PTL DEF Spec

\* No wake-up of a JOIN or a SYNC node is lost, whichever branches wait for
\* each other and however often the FORK is executed: a sleeper whose branches
\* have settled has a notification on its way.
THEOREM NoLostWakeupAlways == Spec => []NoLostWakeup
  <1>1. Init => OneRunner /\ Fresh /\ NoLostWakeup
    BY ForkAssumption DEF Init, OneRunner, Fresh, NoLostWakeup
  <1>2. Shape /\ OneRunner /\ Fresh /\ NoLostWakeup /\ [Next]_vars
            => OneRunner' /\ Fresh' /\ NoLostWakeup'
    BY RunnerStep, FreshStep, WakeStep
  <1>. QED BY <1>1, <1>2, ShapeAlways, PTL DEF Spec

=============================================================================
