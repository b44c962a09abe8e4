---------------------------- MODULE ForkCountProofs ----------------------------
(***************************************************************************)
(* Further proofs about ForkJoin: who serves a waiting SYNC node, and what *)
(* the counters of the FORK's results say about its branches.              *)
(*                                                                         *)
(* SyncServed needs, besides NobodyLost, that a branch of a detached FORK  *)
(* stays settled or served wherever the parent is (Served).  ForkVerdict   *)
(* needs to know what has been counted: while the handler collects, one    *)
(* result for each branch that has left it (Counting); at the verdict, at  *)
(* least one failure for each branch that is not ok, and one more for each *)
(* result beyond the number of branches, which a panicked task leaves      *)
(* behind because its own result has another name (Covered).               *)
(***************************************************************************)
EXTENDS ForkJoinProofs, FiniteSetTheorems

-----------------------------------------------------------------------------
(* SYNC nodes.                                                              *)

\* A SYNC node in a branch that run_serial runs waits for itself or for an
\* earlier branch: a later one would not start before the SYNC returns.
SyncsBackward ==
    (\E m \in Modes : m.launch = "serial") =>
        \A i, j \in 1 .. Len(Paths) :
            Paths[i] \in DOMAIN Source /\ Source[Paths[i]] = Paths[j] => j <= i

\* A detached FORK that has started its tasks: each branch is settled, or one
\* of its tasks runs, until none runs at all.
Served ==
    mode.launch = "detached" =>
        \A b \in Branches :
            \/ Settled(b)
            \/ \E v \in Visits : task[b][v] = "running"
            \/ \A c \in Branches, v \in Visits : task[c][v] # "running"

\* Settled records stay settled and running tasks run on.
LEMMA ServedOn ==
    ASSUME Served, UNCHANGED mode,
           \A b \in Branches : Settled(b) => Settled(b)',
           \A b \in Branches, v \in Visits :
              \/ task'[b][v] = "running" <=> task[b][v] = "running"
              \/ Settled(b)' /\ task'[b][v] # "running"
    PROVE  Served'
  BY DEF Served

\* Every step keeps the branches of a detached FORK served: its tasks settle
\* when they end, and the one step that aborts them cancels every record.
LEMMA ServedStep == Shape /\ Served /\ [Next]_vars => Served'
  <1> SUFFICES ASSUME Shape, Served, [Next]_vars PROVE Served'
    OBVIOUS
  <1>0. UNCHANGED mode
    BY DEF Next, ForkStep, JoinStep, BranchStep, LaunchSerial, LaunchParallel,
       LaunchDetached, SerialNext, SerialFailFast, SerialCancelled, Collect,
       CollectFailFast, CollectCancelled, AllCollected, TotalTimeout, AbortRest,
       ForkReturns, JoinCheck, JoinListen, JoinRecheck, JoinWake, JoinCancelled,
       JoinRead, JoinGoes, BranchReturns, BranchPanics, BranchNotifies, SyncBegins,
       SyncRechecks, SyncTimesOut, SyncGoes, JoinTimesOut, RouteToJoin, Reenter,
       Stop, HandlerDropped, vars
  <1> SUFFICES ASSUME mode.launch = "detached" PROVE Served'
    BY <1>0 DEF Served
  <1>1. CASE LaunchSerial \/ LaunchParallel
    BY <1>1 DEF LaunchSerial, LaunchParallel
  <1>2. CASE LaunchDetached
    <2>1. \A b \in Branches : task'[b][visit] = "running"
      BY <1>2 DEF Shape, LaunchDetached, Started
    <2>. QED BY <2>1 DEF Shape, Served
  <1>3. CASE \/ SerialNext \/ SerialFailFast \/ SerialCancelled
             \/ AllCollected \/ TotalTimeout
    BY <1>3 DEF Shape, SerialNext, SerialFailFast, SerialCancelled, AllCollected,
       TotalTimeout
  <1>4. ASSUME NEW b \in Branches,
               Collect(b) \/ CollectFailFast(b) \/ CollectCancelled(b)
        PROVE  FALSE
    BY <1>4 DEF Shape, Collect, CollectFailFast, CollectCancelled
  <1>5. CASE \/ ForkReturns \/ JoinCheck \/ JoinListen \/ JoinRecheck \/ JoinWake
             \/ JoinRead \/ JoinTimesOut \/ RouteToJoin \/ Reenter \/ Stop
             \/ UNCHANGED vars
    <2>1. UNCHANGED <<record, task>>
      BY <1>5 DEF ForkReturns, JoinCheck, JoinListen, JoinRecheck, JoinWake,
         JoinRead, JoinTimesOut, RouteToJoin, Reenter, Stop, JoinGoes, vars
    <2>. QED BY <1>0, <2>1, ServedOn DEF Settled
  <1>6. CASE JoinCancelled
    <2>1. record' = Cancelled(Branches)
      BY <1>6 DEF JoinCancelled
    <2>2. \A b \in Branches : Settled(b)'
      BY <2>1 DEF Shape, Cancelled, Settled
    <2>. QED BY <2>2 DEF Served
  <1>7. CASE HandlerDropped
    <2>1. UNCHANGED <<record, task>>
      BY <1>7 DEF HandlerDropped
    <2>. QED BY <1>0, <2>1, ServedOn DEF Settled
  <1>8. ASSUME NEW b \in Branches, NEW v \in Visits, BranchReturns(b, v)
        PROVE  Served'
    <2>1. /\ \E ok \in BOOLEAN : Settle(b, v, ok)
          /\ \E x \in TaskPc \ {"running"} : task' = [task EXCEPT ![b][v] = x]
      BY <1>8 DEF BranchReturns, TaskPc
    <2>2. Settled(b)' /\ \A c \in Branches : Settled(c) => Settled(c)'
      BY <2>1 DEF Shape, Settle, Settled
    <2>3. \A c \in Branches, u \in Visits :
             \/ task'[c][u] = "running" <=> task[c][u] = "running"
             \/ Settled(c)' /\ task'[c][u] # "running"
      BY <2>1, <2>2 DEF Shape
    <2>. QED BY <1>0, <2>2, <2>3, ServedOn
  <1>9. ASSUME NEW b \in Branches, NEW v \in Visits, BranchPanics(b, v)
        PROVE  Served'
    <2>1. /\ Settle(b, v, FALSE)
          /\ \E x \in TaskPc \ {"running"} : task' = [task EXCEPT ![b][v] = x]
      BY <1>9 DEF BranchPanics, TaskPc
    <2>2. Settled(b)' /\ \A c \in Branches : Settled(c) => Settled(c)'
      BY <2>1 DEF Shape, Settle, Settled
    <2>3. \A c \in Branches, u \in Visits :
             \/ task'[c][u] = "running" <=> task[c][u] = "running"
             \/ Settled(c)' /\ task'[c][u] # "running"
      BY <2>1, <2>2 DEF Shape
    <2>. QED BY <1>0, <2>2, <2>3, ServedOn
  <1>10. ASSUME NEW b \in Branches, NEW v \in Visits, BranchNotifies(b, v)
         PROVE  Served'
    <2>1. /\ UNCHANGED record /\ task[b][v] # "running"
          /\ \E x \in TaskPc \ {"running"} : task' = [task EXCEPT ![b][v] = x]
      BY <1>10 DEF BranchNotifies, TaskPc
    <2>2. \A c \in Branches, u \in Visits :
             task'[c][u] = "running" <=> task[c][u] = "running"
      BY <2>1 DEF Shape
    <2>. QED BY <1>0, <2>1, <2>2, ServedOn DEF Settled
  <1>11. ASSUME NEW b \in Branches, NEW v \in Visits, SyncStep(b, v)
         PROVE  Served'
    BY <1>0, <1>11, SyncAlone, ServedOn DEF Settled
  <1>. QED
    BY <1>1, <1>2, <1>3, <1>4, <1>5, <1>6, <1>7, <1>8, <1>9, <1>10, <1>11
    DEF Next, ForkStep, JoinStep, BranchStep, SyncStep

\* A SYNC node that waits waits for a branch that a task is going to settle, for
\* any fork paths, any SYNC nodes that look backward under run_serial, and any
\* number of executions of the FORK, as long as panics stay within detached
\* branches.
THEOREM SyncAlwaysServed ==
    ASSUME PanicIn \subseteq {"detached"}, SyncsBackward
    PROVE  Spec => []SyncServed
  <1>1. Init => Served /\ OneRunner /\ SettledFirst /\ NobodyLost
    BY DEF Init, Served, OneRunner, SettledFirst, NobodyLost, Owed
  <1>2. Shape /\ Served /\ OneRunner /\ NobodyLost => SyncServed
    <2> SUFFICES ASSUME Shape, Served, OneRunner, NobodyLost,
                        NEW b \in DOMAIN Source, NEW v \in Visits,
                        SyncWaits(b, v), ~Settled(Source[b])
                 PROVE  \E u \in Visits : task[Source[b]][u] = "running"
      BY DEF SyncServed
    <2>0. b \in Branches /\ Source[b] \in Branches /\ task[b][v] = "running"
      BY ForkAssumption DEF SyncWaits
    <2>1. CASE mode.launch = "detached"
      BY <2>0, <2>1 DEF Served
    <2>2. CASE mode.launch # "detached"
      <3>1. \/ pc = "serial" /\ b = Paths[next]
            \/ pc = "collect"
        BY <2>0, <2>2 DEF OneRunner
      <3>2. Owed(Source[b])
        BY <2>0, <3>1 DEF NobodyLost
      <3>3. CASE pc = "collect"
        BY <3>2, <3>3 DEF Owed
      <3>4. CASE pc = "serial" /\ b = Paths[next]
        <4>1. Source[b] \notin Skipped
          <5>1. mode.launch = "serial" /\ mode \in Modes /\ next \in 1 .. Len(Paths)
            BY <3>4 DEF Shape
          <5>2. SUFFICES ASSUME NEW j \in next + 1 .. Len(Paths), Source[b] = Paths[j]
                         PROVE  FALSE
            BY DEF Skipped
          <5>3. j \in 1 .. Len(Paths) /\ j > next
            BY <5>1, <5>2, PathFacts
          <5>. QED BY <3>4, <5>1, <5>2, <5>3 DEF SyncsBackward
        <4>. QED BY <3>2, <3>4, <4>1 DEF Owed
      <3>. QED BY <3>1, <3>3, <3>4
    <2>. QED BY <2>1, <2>2
  <1>3. Shape /\ Served /\ OneRunner /\ SettledFirst /\ NobodyLost /\ [Next]_vars
            => Served' /\ OneRunner' /\ SettledFirst' /\ NobodyLost'
    BY ServedStep, RunnerStep, SettledStep, LostStep
  <1>. QED BY <1>1, <1>2, <1>3, ShapeAlways, PTL DEF Spec

-----------------------------------------------------------------------------
(* The counters.                                                            *)

N == Len(Paths)

\* The results of this visit that are not a success.
Bad(bs) == {b \in bs : task[b][visit] # "ok"}

\* One result has been counted for each branch of bs, all of which have ended;
\* that of a panicked task is under another name.
Tally(bs) ==
    /\ total = Cardinality(bs)
    /\ failures = Cardinality(Bad(bs))
    /\ present = {b \in bs : task[b][visit] # "panicked"}
    /\ \A b \in bs : Finished(b)

\* The branches the handler is done with.
Counted == IF pc = "serial" THEN {Paths[i] : i \in 1 .. next - 1}
                            ELSE Branches \ joining

Handling == {"fork", "serial", "collect", "evaluate"}

Counting ==
    /\ pc \in {"serial", "collect"} => Tally(Counted)
    /\ pc = "fork" => total = 0 /\ failures = 0 /\ present = {} /\ joining = {}
    /\ pc \in Handling => outcome = "none"

\* What the verdict is going to be computed from.
Covered ==
    pc = "evaluate" /\ ~cancelled =>
        total >= N /\ failures >= Cardinality(NotOk) + (total - N)

\* A verdict, unlike the immediate return of a detached FORK, is about tasks
\* that have all ended.
Blocking ==
    pc = "evaluate" \/ outcome \in {"Succeeded", "Partial"} => mode.launch # "detached"

Bounds ==
    /\ total \in 0 .. 2 * N
    /\ failures \in 0 .. total
    /\ present \in SUBSET Branches
    /\ outcome \in {"none", "Succeeded", "Partial", "Failed", "Detached"}
    /\ notified \in BOOLEAN
    /\ joined \in [Branches -> {"none", "ok", "failed"}]

CountInv == Bounds /\ Counting /\ Covered /\ Blocking /\ ForkVerdict

\* There are as many branches as fork paths.
LEMMA BranchCount ==
  /\ IsFiniteSet(Branches) /\ Cardinality(Branches) = N /\ N \in Nat \ {0}
  /\ \A S \in SUBSET Branches :
        IsFiniteSet(S) /\ Cardinality(S) \in Nat /\ Cardinality(S) <= N
  <1> DEFINE f == [i \in 1 .. N |-> Paths[i]]
  <1>1. f \in Bijection(1 .. N, Branches)
    BY PathFacts DEF Bijection, Injection, Surjection, IsInjective, N
  <1>2. ExistsBijection(1 .. N, Branches)
    BY <1>1 DEF ExistsBijection
  <1>3. N \in Nat \ {0}
    BY PathFacts DEF N
  <1>4. IsFiniteSet(Branches) /\ Cardinality(Branches) = N
    BY <1>2, <1>3, FS_NatBijection, FS_CountingElements
  <1>5. ASSUME NEW S \in SUBSET Branches
        PROVE  IsFiniteSet(S) /\ Cardinality(S) \in Nat /\ Cardinality(S) <= N
    BY <1>4, FS_Subset, FS_CardinalityType
  <1>. QED BY <1>3, <1>4, <1>5

\* Two disjoint sets of branches count as their sum.
LEMMA CountSum ==
  ASSUME NEW S \in SUBSET Branches, NEW T \in SUBSET Branches, S \cap T = {}
  PROVE  Cardinality(S \cup T) = Cardinality(S) + Cardinality(T)
  <1>1. /\ IsFiniteSet(S) /\ IsFiniteSet(T)
        /\ Cardinality(S) \in Nat /\ Cardinality(T) \in Nat
    BY BranchCount
  <1>2. Cardinality(S \cup T) =
           Cardinality(S) + Cardinality(T) - Cardinality(S \cap T)
    BY <1>1, FS_Union
  <1>3. Cardinality(S \cap T) = 0
    BY FS_EmptySet
  <1>. QED BY <1>1, <1>2, <1>3

\* A subset counts no more than its superset.
LEMMA CountSub ==
  ASSUME NEW S \in SUBSET Branches, NEW T \in SUBSET S
  PROVE  Cardinality(T) <= Cardinality(S)
  BY BranchCount, FS_Subset

\* One branch counts once.
LEMMA CountOne ==
  ASSUME NEW b \in Branches PROVE Cardinality({b}) = 1 /\ {b} \in SUBSET Branches
  BY FS_Singleton

\* A tolerated share of all results is at most that share of the branches, when
\* every result beyond their number is a failure.
LEMMA ShareOf ==
  ASSUME NEW p \in 0 .. 100, NEW f \in Nat, NEW t \in Nat, NEW n \in Nat,
         NEW k \in Nat, t >= n, f >= k + (t - n), 100 * f <= p * t
  PROVE  100 * k <= p * n
  <1> DEFINE e == t - n
  <1>1. e \in Nat /\ t = n + e
    OBVIOUS
  <1>2. p * t = p * n + p * e
    BY <1>1, SMT
  <1>3. p * e <= 100 * e
    BY <1>1, SMT
  <1>4. p * n \in Int /\ p * e \in Int
    BY <1>1
  <1> HIDE DEF e
  <1>. QED BY <1>1, <1>2, <1>3, <1>4

\* One more branch has ended and its result is counted.
LEMMA AddResult ==
  ASSUME NEW C \in SUBSET Branches, Tally(C), NEW b \in Branches \ C, Finished(b),
         Results(b, {}), visit' = visit,
         \A c \in C \cup {b} : task'[c][visit] = task[c][visit]
  PROVE  Tally(C \cup {b})'
  <1> DEFINE D == C \cup {b}
  <1>1. total' = Cardinality(D)
    <2>1. Cardinality(D) = Cardinality(C) + 1
      BY CountSum, CountOne
    <2>. QED BY <2>1, BranchCount, FS_EmptySet DEF Tally, Results
  <1>2. failures' = Cardinality(Bad(D)')
    <2>0. Bad(C) \in SUBSET Branches /\ failures = Cardinality(Bad(C))
      BY DEF Bad, Tally
    <2>1. CASE task[b][visit] = "ok"
      <3>1. Bad(D)' = Bad(C)
        BY <2>1 DEF Bad
      <3>. QED BY <2>0, <2>1, <3>1, BranchCount, FS_EmptySet DEF Results
    <2>2. CASE task[b][visit] # "ok"
      <3>1. Bad(D)' = Bad(C) \cup {b} /\ Bad(C) \cap {b} = {}
        BY <2>2 DEF Bad
      <3>2. Cardinality(Bad(D)') = Cardinality(Bad(C)) + 1
        BY <2>0, <3>1, CountSum, CountOne
      <3>. QED BY <2>0, <2>2, <3>2, BranchCount, FS_EmptySet DEF Results
    <2>. QED BY <2>1, <2>2
  <1>3. present' = {c \in D : task'[c][visit'] # "panicked"}
    BY DEF Tally, Results, Named
  <1>4. \A c \in D : Finished(c)'
    BY DEF Tally, Finished
  <1>. QED BY <1>1, <1>2, <1>3, <1>4 DEF Tally

\* An early end: the results of C and X, all of X failures, and a failure for
\* every branch of M, which holds all the others.  The verdict then counts at
\* least the branches that are not ok, and what it counts twice is a failure.
LEMMA FillIn ==
  ASSUME NEW C \in SUBSET Branches, Tally(C), NEW X \in SUBSET (Branches \ C),
         NEW M \in SUBSET (Branches \ X), Branches \ (C \cup X) \subseteq M,
         NEW n, n = total + Cardinality(X) + Cardinality(M),
         NEW f, f = failures + Cardinality(X) + Cardinality(M)
  PROVE  /\ n \in N .. 2 * N
         /\ f \in 0 .. n
         /\ \A K \in SUBSET (Bad(C) \cup (Branches \ C)) :
               f >= Cardinality(K) + (n - N)
  <1> DEFINE R == Branches \ (C \cup X)
             Q == M \cap C
             B == Bad(C)
  <1>0. /\ B \in SUBSET C /\ B \in SUBSET Branches /\ R \in SUBSET Branches
        /\ Q \in SUBSET Branches
        /\ X \in SUBSET Branches /\ M \in SUBSET Branches
        /\ total = Cardinality(C) /\ failures = Cardinality(B)
    BY DEF Bad, Tally
  <1>1. Cardinality(C) + Cardinality(X) + Cardinality(R) = N
    <2>1. Cardinality(C \cup X) = Cardinality(C) + Cardinality(X)
      BY CountSum, <1>0
    <2>2. Cardinality((C \cup X) \cup R) = Cardinality(C \cup X) + Cardinality(R)
      BY CountSum, <1>0
    <2>3. (C \cup X) \cup R = Branches
      BY <1>0
    <2>. QED BY <2>1, <2>2, <2>3, BranchCount
  <1>2. Cardinality(M) = Cardinality(R) + Cardinality(Q)
    <2>1. M = R \cup Q /\ R \cap Q = {}
      OBVIOUS
    <2>. QED BY <1>0, <2>1, CountSum
  <1>3. Cardinality(B) <= Cardinality(C)
    BY <1>0, CountSub
  <1>4. /\ Cardinality(B) \in Nat /\ Cardinality(C) \in Nat
        /\ Cardinality(X) \in Nat /\ Cardinality(R) \in Nat
        /\ Cardinality(Q) \in Nat /\ Cardinality(Q) <= N /\ N \in Nat
    BY <1>0, BranchCount
  <1>5. ASSUME NEW K \in SUBSET (Bad(C) \cup (Branches \ C))
        PROVE  /\ Cardinality(K) <= Cardinality(B) + Cardinality(X) + Cardinality(R)
               /\ Cardinality(K) \in Nat
    <2>1. K \in SUBSET ((B \cup X) \cup R)
      OBVIOUS
    <2>2. Cardinality(K) <= Cardinality((B \cup X) \cup R)
      BY <1>0, <2>1, CountSub
    <2>3. Cardinality(B \cup X) = Cardinality(B) + Cardinality(X)
      BY <1>0, CountSum
    <2>4. Cardinality((B \cup X) \cup R) = Cardinality(B \cup X) + Cardinality(R)
      BY <1>0, CountSum
    <2>5. Cardinality(K) \in Nat
      BY <1>0, BranchCount
    <2>. QED BY <2>2, <2>3, <2>4, <2>5
  <1> HIDE DEF R, Q, B
  <1>6. n = N + Cardinality(Q) /\ f = Cardinality(B) + Cardinality(X) + Cardinality(R) + Cardinality(Q)
    BY <1>0, <1>1, <1>2, <1>4
  <1>. QED BY <1>1, <1>3, <1>4, <1>5, <1>6

\* run_serial is done with the branches before `next`, runs that one and has
\* the skipped ones ahead of it.
LEMMA SerialSplit ==
  ASSUME NEW k \in 1 .. N
  PROVE  LET C == {Paths[i] : i \in 1 .. k - 1}
             S == {Paths[i] : i \in k + 1 .. N}
         IN  /\ C \in SUBSET Branches /\ S \in SUBSET Branches
             /\ Paths[k] \in Branches \ (C \cup S) /\ C \cap S = {}
             /\ Branches = C \cup {Paths[k]} \cup S
             /\ C \cup {Paths[k]} = {Paths[i] : i \in 1 .. k}
  <1> DEFINE C == {Paths[i] : i \in 1 .. k - 1}
             S == {Paths[i] : i \in k + 1 .. N}
  <1>0. /\ N \in Nat
        /\ \A i \in 1 .. k - 1 : i \in 1 .. N /\ i < k
        /\ \A i \in k + 1 .. N : i \in 1 .. N /\ i > k
        /\ \A i \in 1 .. N : i \in 1 .. k - 1 \/ i = k \/ i \in k + 1 .. N
        /\ \A i \in 1 .. k : i \in 1 .. k - 1 \/ i = k
        /\ \A i \in 1 .. k - 1 : i \in 1 .. k
    BY PathFacts DEF N
  <1>1. C \in SUBSET Branches /\ S \in SUBSET Branches /\ Paths[k] \in Branches
    BY <1>0, PathFacts DEF N
  <1>2. Paths[k] \notin C /\ Paths[k] \notin S /\ C \cap S = {}
    BY <1>0, PathFacts DEF N
  <1>3. Branches \subseteq C \cup {Paths[k]} \cup S
    <2>1. SUFFICES ASSUME NEW b \in Branches PROVE b \in C \cup {Paths[k]} \cup S
      OBVIOUS
    <2>2. PICK i \in 1 .. N : b = Paths[i]
      BY PathFacts DEF N
    <2>. QED BY <1>0, <2>2
  <1>4. C \cup {Paths[k]} = {Paths[i] : i \in 1 .. k}
    BY <1>0
  <1>. QED BY <1>1, <1>2, <1>3, <1>4

\* A step that neither counts nor starts a branch: the results counted and the
\* verdict stay what they are about.
LEMMA CountQuiet ==
  ASSUME Shape, CountInv,
         UNCHANGED <<mode, visit, next, joining, present, total, failures, outcome>>,
         notified' \in BOOLEAN, joined' \in [Branches -> {"none", "ok", "failed"}],
         cancelled => cancelled',
         pc' = pc \/ pc' \notin Handling,
         pc = "stopped" => pc' = "stopped",
         \A b \in Branches : Finished(b) => task'[b][visit] = task[b][visit],
         mode.launch # "detached" /\ pc \notin {"fork", "serial", "collect"} =>
            \A b \in Branches : task'[b][visit] \in {"okNotify", "ok"}
                                   <=> task[b][visit] \in {"okNotify", "ok"}
  PROVE  CountInv'
  <1>1. Bounds'
    BY DEF CountInv, Bounds
  <1>2. Counting'
    <2>1. ASSUME pc' \in {"serial", "collect"} PROVE Tally(Counted)'
      <3>1. pc' = pc /\ Tally(Counted) /\ Counted' = Counted
        BY <2>1 DEF CountInv, Counting, Handling, Counted
      <3>2. Counted \in SUBSET Branches
        <4>1. CASE pc = "serial"
          BY <4>1, SerialSplit DEF Counted, Shape, N
        <4>2. CASE pc # "serial"
          BY <4>2 DEF Counted
        <4>. QED BY <4>1, <4>2
      <3>3. \A b \in Counted : task'[b][visit'] = task[b][visit]
        BY <3>1, <3>2 DEF Tally
      <3>. QED BY <3>1, <3>3 DEF Tally, Bad, Finished
    <2>. QED BY <2>1 DEF CountInv, Counting, Handling
  <1>3. mode.launch # "detached" /\ pc \notin {"fork", "serial", "collect"}
           => NotOk' = NotOk
    BY DEF NotOk
  <1>4. Covered' /\ Blocking'
    BY <1>3 DEF CountInv, Covered, Blocking, Handling
  <1>5. ForkVerdict'
    <2>1. CASE pc \in {"fork", "serial", "collect"}
      BY <2>1 DEF CountInv, Counting, Handling, ForkVerdict
    <2>2. CASE pc \notin {"fork", "serial", "collect"}
      BY <1>3, <2>2 DEF CountInv, Blocking, ForkVerdict
    <2>. QED BY <2>1, <2>2
  <1>. QED BY <1>1, <1>2, <1>4, <1>5 DEF CountInv

\* The handler goes on collecting: a tally is all that is needed.
LEMMA CountGoesOn ==
  ASSUME Bounds, pc' \in {"serial", "collect"}, outcome' = "none",
         UNCHANGED <<notified, joined>>,
         Counted' \in SUBSET Branches, Tally(Counted)'
  PROVE  CountInv'
  <1>1. /\ Cardinality(Counted') \in 0 .. N /\ N \in Nat
        /\ Cardinality(Bad(Counted)') \in 0 .. Cardinality(Counted')
    <2>1. Bad(Counted)' \in SUBSET (Counted')
      BY DEF Bad
    <2>2. Cardinality(Bad(Counted)') <= Cardinality(Counted')
      BY <2>1, CountSub
    <2>. QED BY <2>1, <2>2, BranchCount
  <1>2. Bounds'
    <2>1. total' \in 0 .. 2 * N /\ failures' \in 0 .. total'
      BY <1>1 DEF Tally
    <2>. QED BY <2>1 DEF Bounds, Tally
  <1>. QED BY <1>2 DEF CountInv, Counting, Covered, Blocking, ForkVerdict, Handling

\* The handler has all it is going to count.
LEMMA CountEnds ==
  ASSUME Bounds, pc' = "evaluate", outcome' = "none", mode'.launch # "detached",
         UNCHANGED <<notified, joined>>, present' \in SUBSET Branches,
         total' \in 0 .. 2 * N, failures' \in 0 .. total', Covered'
  PROVE  CountInv'
  BY DEF CountInv, Bounds, Counting, Blocking, ForkVerdict, Handling

\* Every branch has been counted.
LEMMA CoveredByAll ==
  ASSUME Tally(Branches)'
  PROVE  /\ total' \in 0 .. 2 * N /\ failures' \in 0 .. total'
         /\ present' \in SUBSET Branches /\ Covered'
  <1>1. NotOk' \in SUBSET (Bad(Branches)') /\ Bad(Branches)' \in SUBSET Branches
    BY DEF NotOk, Bad
  <1>2. Cardinality(NotOk') <= Cardinality(Bad(Branches)')
    BY <1>1, CountSub
  <1>3. /\ Cardinality(NotOk') \in Nat
        /\ Cardinality(Bad(Branches)') \in 0 .. N /\ N \in Nat
    BY <1>1, BranchCount
  <1>4. /\ total' = N /\ failures' = Cardinality(Bad(Branches)')
        /\ present' \in SUBSET Branches
    BY BranchCount DEF Tally
  <1>. QED BY <1>2, <1>3, <1>4 DEF Covered

\* Every step keeps the count: each branch is counted when it leaves the
\* handler, once, and the early ends count every other branch as failed.
LEMMA CountStep ==
  Shape /\ OneRunner /\ CountInv /\ [Next]_vars => CountInv'
  <1> SUFFICES ASSUME Shape, OneRunner, CountInv, [Next]_vars PROVE CountInv'
    OBVIOUS
  <1>0. /\ Bounds /\ Counting /\ Covered /\ Blocking /\ visit \in Visits
        /\ next \in 1 .. N /\ N \in Nat \ {0}
    BY BranchCount DEF CountInv, Shape, N
  <1>c. PICK C : C = {Paths[i] : i \in 1 .. next - 1}
    OBVIOUS
  <1>x. PICK x : x = Paths[next]
    OBVIOUS
  <1>s. /\ C \in SUBSET Branches /\ x \in Branches \ C /\ Skipped \in SUBSET Branches
        /\ Skipped = Branches \ (C \cup {x}) /\ x \notin Skipped
        /\ C \cup {x} = {Paths[i] : i \in 1 .. next}
    <2> DEFINE S == {Paths[i] : i \in next + 1 .. N}
    <2>1. /\ C \in SUBSET Branches /\ S \in SUBSET Branches
          /\ x \in Branches \ (C \cup S) /\ C \cap S = {}
          /\ Branches = C \cup {x} \cup S
          /\ C \cup {x} = {Paths[i] : i \in 1 .. next}
      BY <1>0, <1>c, <1>x, SerialSplit
    <2>2. Skipped = S
      BY DEF Skipped, N
    <2>. QED BY <2>1, <2>2
  <1>t. pc = "serial" => Tally(C) /\ outcome = "none" /\ mode.launch = "serial"
    BY <1>0, <1>c DEF Shape, Counting, Counted, Handling
  <1>u. pc = "collect" => /\ Tally(Branches \ joining) /\ outcome = "none"
                          /\ mode.launch = "parallel"
    BY <1>0 DEF Shape, Counting, Counted, Handling
  <1>1. CASE LaunchSerial
    <2>1. /\ pc' = "serial" /\ next' = 1 /\ outcome' = "none" /\ total' = 0
          /\ failures' = 0 /\ present' = {} /\ UNCHANGED <<notified, joined>>
      BY <1>0, <1>1 DEF Shape, LaunchSerial, Counting, Handling, fork
    <2>2. Counted' = {}
      BY <2>1 DEF Counted
    <2>3. Tally(Counted)'
      BY <2>1, <2>2, FS_EmptySet DEF Tally, Bad
    <2>. QED BY <1>0, <2>1, <2>2, <2>3, CountGoesOn
  <1>2. CASE LaunchParallel
    <2>1. /\ pc' = "collect" /\ joining' = Branches /\ outcome' = "none" /\ total' = 0
          /\ failures' = 0 /\ present' = {} /\ UNCHANGED <<notified, joined>>
      BY <1>0, <1>2 DEF Shape, LaunchParallel, Counting, Handling, fork
    <2>2. Counted' = {}
      BY <2>1 DEF Counted
    <2>3. Tally(Counted)'
      BY <2>1, <2>2, FS_EmptySet DEF Tally, Bad
    <2>. QED BY <1>0, <2>1, <2>2, <2>3, CountGoesOn
  <1>3. CASE LaunchDetached
    BY <1>0, <1>3 DEF LaunchDetached, CountInv, Bounds, Counting, Covered, Blocking,
       ForkVerdict, Handling
  <1>4. CASE SerialNext
    <2>1. /\ pc = "serial" /\ Finished(x) /\ Results(x, {})
          /\ UNCHANGED <<mode, visit, notified, joined, outcome>>
      BY <1>4, <1>x DEF SerialNext, Finished, Results
    <2>2. CASE next = Len(Paths)
      <3>1. pc' = "evaluate" /\ task' = task
        BY <1>4, <2>2 DEF SerialNext
      <3>2. Skipped = {} /\ C \cup {x} = Branches
        BY <1>0, <1>s, <2>2 DEF Skipped, Branches, N
      <3>3. Tally(Branches)'
        BY <1>s, <1>t, <2>1, <3>1, <3>2, AddResult
      <3>. QED BY <1>0, <1>t, <2>1, <3>1, <3>3, CoveredByAll, CountEnds
    <2>3. CASE next # Len(Paths)
      <3>1. pc' = "serial" /\ next' = next + 1 /\ task' = Started({Paths[next + 1]})
        BY <1>4, <2>1, <2>3 DEF SerialNext
      <3>2. Paths[next + 1] \in Skipped
        BY <1>0, <2>3 DEF Skipped, N
      <3>3. \A c \in C \cup {x} : task'[c][visit] = task[c][visit]
        BY <1>s, <3>1, <3>2 DEF Started
      <3>4. Tally(C \cup {x})'
        BY <1>s, <1>t, <2>1, <3>3, AddResult
      <3>5. next' - 1 = next /\ Counted' = {Paths[i] : i \in 1 .. next}
        BY <1>0, <3>1 DEF Counted
      <3>6. Counted' = C \cup {x}
        BY <1>s, <3>5
      <3>7. Tally(Counted)'
        BY <3>4, <3>6 DEF Tally, Bad
      <3>. QED BY <1>0, <1>s, <1>t, <2>1, <3>1, <3>6, <3>7, CountGoesOn
    <2>. QED BY <2>2, <2>3
  <1>5. CASE SerialFailFast
    <2>1. /\ pc = "serial" /\ Results(x, Skipped) /\ task[x][visit] = "failed"
          /\ pc' = "evaluate"
          /\ UNCHANGED <<mode, visit, task, notified, joined, outcome>>
      BY <1>5, <1>x DEF SerialFailFast, Results
    <2>2. /\ total' = total + Cardinality({x}) + Cardinality(Skipped)
          /\ failures' = failures + Cardinality({x}) + Cardinality(Skipped)
          /\ present' \in SUBSET Branches
      BY <1>0, <1>s, <2>1, CountOne DEF Results, Named, Bounds
    <2>3. /\ total' \in N .. 2 * N /\ failures' \in 0 .. total'
          /\ \A K \in SUBSET (Bad(C) \cup (Branches \ C)) :
                failures' >= Cardinality(K) + (total' - N)
      BY <1>s, <1>t, <2>1, <2>2, FillIn
    <2>4. NotOk' \in SUBSET (Bad(C) \cup (Branches \ C))
      BY <2>1 DEF NotOk, Bad
    <2>5. Covered' /\ total' \in 0 .. 2 * N
      BY <1>0, <2>3, <2>4 DEF Covered
    <2>. QED BY <1>0, <1>t, <2>1, <2>2, <2>3, <2>5, CountEnds
  <1>6. CASE SerialCancelled
    <2>1. /\ pc = "serial" /\ Finished(x) /\ Results(x, {}) /\ cancelled'
          /\ pc' = "evaluate"
          /\ UNCHANGED <<mode, visit, task, notified, joined, outcome>>
      BY <1>6, <1>x DEF SerialCancelled, Finished, Results
    <2>2. Tally(C \cup {x})'
      BY <1>s, <1>t, <2>1, AddResult
    <2>3. /\ Bad(C \cup {x})' \in SUBSET (C \cup {x}) /\ C \cup {x} \in SUBSET Branches
      BY <1>s DEF Bad
    <2>4. /\ Cardinality(C \cup {x}) \in 0 .. N
          /\ Cardinality(Bad(C \cup {x})') \in 0 .. Cardinality(C \cup {x})
      BY <2>3, CountSub, BranchCount
    <2>5. total' \in 0 .. 2 * N /\ failures' \in 0 .. total' /\ present' \in SUBSET Branches
      BY <1>0, <2>2, <2>3, <2>4 DEF Tally
    <2>. QED BY <1>0, <1>t, <2>1, <2>5, CountEnds DEF Covered
  <1>7. ASSUME NEW b \in Branches, Collect(b) PROVE CountInv'
    <2>1. /\ pc = "collect" /\ pc' = "collect" /\ b \in joining /\ Finished(b)
          /\ Results(b, {}) /\ joining' = joining \ {b}
          /\ UNCHANGED <<mode, visit, task, notified, joined, outcome>>
      BY <1>7 DEF Collect, Results
    <2>0. PICK D : D = Branches \ joining
      OBVIOUS
    <2>2. Tally(D \cup {b})'
      BY <1>u, <2>0, <2>1, AddResult
    <2>3. Counted' = D \cup {b}
      BY <2>0, <2>1 DEF Counted
    <2>4. Tally(Counted)'
      BY <2>2, <2>3 DEF Tally, Bad
    <2>. QED BY <1>0, <1>u, <2>0, <2>1, <2>3, <2>4, CountGoesOn
  <1>8. ASSUME NEW X \in SUBSET joining, NEW M \in SUBSET Branches,
               M = Branches \ (present \cup X), pc = "collect",
               AbortRest(M, total + Cardinality(X), failures + Cardinality(X))
        PROVE  CountInv'
    <2>1. /\ pc' = "evaluate" /\ task' = Aborted(Branches)
          /\ total' = total + Cardinality(X) + Cardinality(M)
          /\ failures' = failures + Cardinality(X) + Cardinality(M)
          /\ present' \in SUBSET Branches
          /\ UNCHANGED <<mode, visit, notified, joined, outcome>>
      BY <1>0, <1>8 DEF AbortRest, Bounds
    <2>2. /\ present \subseteq Branches \ joining /\ joining \in SUBSET Branches
          /\ Tally(Branches \ joining)
      BY <1>8, <1>u DEF Tally, Shape
    <2>3. /\ total' \in N .. 2 * N /\ failures' \in 0 .. total'
          /\ \A K \in SUBSET (Bad(Branches \ joining)
                              \cup (Branches \ (Branches \ joining))) :
                failures' >= Cardinality(K) + (total' - N)
      <3> DEFINE D == Branches \ joining
      <3>1. /\ D \in SUBSET Branches /\ X \in SUBSET (Branches \ D)
            /\ M \in SUBSET (Branches \ X) /\ Branches \ (D \cup X) \subseteq M
        BY <1>8, <2>2
      <3>. QED BY <2>1, <2>2, <3>1, FillIn
    <2>4. NotOk' \in SUBSET (Bad(Branches \ joining)
                             \cup (Branches \ (Branches \ joining)))
      BY <1>0, <2>1, <2>2 DEF NotOk, Bad, Aborted, Shape, Tally, Finished
    <2>5. Covered' /\ total' \in 0 .. 2 * N
      <3>1. failures' >= Cardinality(NotOk') + (total' - N)
        BY <2>3, <2>4, Zenon
      <3>. QED BY <1>0, <2>3, <3>1 DEF Covered
    <2>. QED BY <1>0, <1>u, <1>8, <2>1, <2>3, <2>5, CountEnds
  <1>9. ASSUME NEW b \in Branches, CollectFailFast(b) PROVE CountInv'
    <2>1. Cardinality({b}) = 1 /\ {b} \in SUBSET joining /\ pc = "collect"
      BY <1>9, CountOne DEF CollectFailFast
    <2>. QED BY <1>8, <1>9, <2>1 DEF CollectFailFast
  <1>10. ASSUME NEW b \in Branches, CollectCancelled(b) \/ TotalTimeout PROVE CountInv'
    <2>1. /\ total + Cardinality({}) = total /\ failures + Cardinality({}) = failures
          /\ present \cup {} = present
      BY <1>0, FS_EmptySet DEF Bounds
    <2>. QED BY <1>8, <1>10, <2>1 DEF CollectCancelled, TotalTimeout
  <1>11. CASE AllCollected
    <2>1. /\ pc = "collect" /\ joining = {} /\ pc' = "evaluate"
          /\ UNCHANGED <<mode, visit, task, present, total, failures, notified, joined,
                         outcome>>
      BY <1>11 DEF AllCollected, fork
    <2>2. Tally(Branches)'
      BY <1>u, <2>1 DEF Tally, Bad, Finished
    <2>. QED BY <1>0, <1>u, <2>1, <2>2, CoveredByAll, CountEnds
  <1>12. CASE ForkReturns
    <2>1. /\ pc = "evaluate" /\ outcome' = Verdict
          /\ pc' \in {"stopped", "failed", "check"}
          /\ cancelled => pc' = "stopped"
          /\ UNCHANGED <<mode, visit, task, present, total, failures, notified, joined>>
      BY <1>12 DEF ForkReturns
    <2>2. /\ mode \in Mode /\ mode.percent \in 0 .. 100
          /\ mode.failFast => mode.percent = 0
      BY ForkAssumption DEF Shape, Mode
    <2>3. total \in Nat /\ failures \in Nat /\ mode.percent * total \in Nat
      <3>1. total \in Nat /\ failures \in Nat
        BY <1>0 DEF Bounds
      <3>2. mode.percent * total \in Nat
        BY <2>2, <3>1, SMT
      <3>. QED BY <3>1, <3>2
    <2>4. /\ Verdict \in {"Succeeded", "Partial", "Failed"}
          /\ Verdict = "Succeeded" => failures = 0
          /\ Verdict = "Partial" => 1 <= 100 * failures
                                    /\ 100 * failures <= mode.percent * total
      BY <2>3 DEF Verdict
    <2>5. NotOk' = NotOk /\ NotOk \in SUBSET Branches /\ Cardinality(NotOk) \in Nat
      BY <2>1, BranchCount DEF NotOk
    <2>6. ForkVerdict'
      <3>1. SUFFICES ASSUME pc' # "stopped"
                     PROVE  /\ outcome' = "Succeeded" => NotOk' = {}
                            /\ outcome' = "Partial" =>
                                  /\ ~mode.failFast
                                  /\ 100 * Cardinality(NotOk) <= mode.percent * N
        BY <2>1, <2>5 DEF ForkVerdict, N
      <3>2. total >= N /\ failures >= Cardinality(NotOk) + (total - N)
        BY <1>0, <2>1, <3>1 DEF Covered, Shape
      <3>3. outcome' = "Succeeded" => NotOk' = {}
        <4>1. failures = 0 => Cardinality(NotOk) = 0
          BY <1>0, <2>3, <2>5, <3>2
        <4>. QED BY <2>1, <2>4, <2>5, <4>1, BranchCount, FS_EmptySet
      <3>4. ASSUME outcome' = "Partial"
            PROVE  /\ ~mode.failFast
                   /\ 100 * Cardinality(NotOk) <= mode.percent * N
        <4>1. 1 <= 100 * failures /\ 100 * failures <= mode.percent * total
          BY <2>1, <2>4, <3>4
        <4>2. mode.percent # 0
          BY <2>3, <4>1
        <4>3. 100 * Cardinality(NotOk) <= mode.percent * N
          BY <1>0, <2>2, <2>3, <2>5, <3>2, <4>1, ShareOf
        <4>. QED BY <2>2, <4>2, <4>3
      <3>. QED BY <3>3, <3>4
    <2>. QED
      BY <1>0, <2>1, <2>4, <2>6
      DEF CountInv, Bounds, Counting, Covered, Blocking, Handling
  <1>13. CASE Reenter
    BY <1>0, <1>13 DEF Reenter, CountInv, Bounds, Counting, Covered, Blocking,
       ForkVerdict, Handling
  <1>14. CASE \/ JoinCheck \/ JoinListen \/ JoinRecheck \/ JoinWake \/ JoinTimesOut
              \/ RouteToJoin \/ Stop \/ UNCHANGED vars
    <2>1. /\ UNCHANGED <<mode, visit, next, joining, present, total, failures,
                         outcome, task, joined>>
          /\ notified' = FALSE \/ notified' = notified
          /\ cancelled => cancelled'
          /\ pc' = pc \/ (pc # "stopped" /\ pc' \notin Handling)
      BY <1>14 DEF Handling, JoinCheck, JoinListen, JoinRecheck, JoinWake,
         JoinTimesOut, RouteToJoin, JoinGoes, Stop, fork, vars
    <2>. QED BY <1>0, <2>1, CountQuiet DEF Bounds
  <1>j. CASE JoinRead
    <2>1. /\ UNCHANGED <<mode, visit, next, joining, present, total, failures,
                         outcome, task, notified, cancelled>>
          /\ pc = "read" /\ pc' \notin Handling
      BY <1>j DEF Handling, JoinRead, fork
    <2>2. joined' \in [Branches -> {"none", "ok", "failed"}]
      BY <1>j DEF JoinRead
    <2>. QED BY <1>0, <2>1, <2>2, CountQuiet DEF Bounds
  <1>15. CASE JoinCancelled \/ HandlerDropped
    <2>1. /\ UNCHANGED <<mode, visit, next, joining, present, total, failures,
                         outcome, notified, joined, cancelled>>
          /\ pc' = "stopped" /\ "stopped" \notin Handling
          /\ task' = task \/ task' = Aborted(Branches)
      BY <1>15 DEF Handling, JoinCancelled, HandlerDropped, fork
    <2>2. \A b \in Branches : Finished(b) => task'[b][visit] = task[b][visit]
      BY <2>1 DEF Finished, Aborted
    <2>3. mode.launch # "detached" /\ pc \notin {"fork", "serial", "collect"} =>
             \A b \in Branches : task'[b][visit] = task[b][visit]
      BY <1>0, <2>1 DEF OneRunner, Aborted
    <2>. QED BY <1>0, <2>1, <2>2, <2>3, CountQuiet DEF Bounds
  <1>16. ASSUME NEW b \in Branches, NEW v \in Visits,
                BranchReturns(b, v) \/ BranchPanics(b, v)
         PROVE  CountInv'
    <2>1. /\ UNCHANGED <<mode, visit, next, joining, present, total, failures,
                         outcome, notified, joined, cancelled>>
          /\ task[b][v] = "running"
          /\ pc' = pc \/ (mode.launch = "serial" /\ pc' \in {"stopped", "failed"})
          /\ \E y \in TaskPc : task' = [task EXCEPT ![b][v] = y]
      BY <1>16 DEF BranchReturns, BranchPanics, TaskPc, fork
    <2>2. \A c \in Branches : Finished(c) => task'[c][visit] = task[c][visit]
      BY <1>0, <2>1 DEF Finished, Shape
    <2>3. mode.launch # "detached" => pc \in {"serial", "collect"}
      BY <2>1 DEF OneRunner
    <2>4. /\ pc' = pc \/ pc' \notin Handling
          /\ pc = "stopped" => pc' = "stopped"
      BY <2>1, <2>3 DEF Handling
    <2>. QED BY <1>0, <2>1, <2>2, <2>3, <2>4, CountQuiet DEF Bounds
  <1>17. ASSUME NEW b \in Branches, NEW v \in Visits, BranchNotifies(b, v)
         PROVE  CountInv'
    <2>1. /\ UNCHANGED <<mode, visit, pc, next, joining, present, total, failures,
                         outcome, joined, cancelled>>
          /\ task[b][v] \in {"okNotify", "failNotify"}
          /\ task' = [task EXCEPT ![b][v] =
                         IF task[b][v] = "okNotify" THEN "ok" ELSE "failed"]
          /\ notified' \in BOOLEAN
      BY <1>0, <1>17 DEF BranchNotifies, Notify, Bounds, fork, Shape
    <2>2. \A c \in Branches : Finished(c) => task'[c][visit] = task[c][visit]
      BY <1>0, <2>1 DEF Finished, Shape
    <2>3. \A c \in Branches : task'[c][visit] \in {"okNotify", "ok"}
                                 <=> task[c][visit] \in {"okNotify", "ok"}
      BY <1>0, <2>1 DEF Shape
    <2>. QED BY <1>0, <2>1, <2>2, <2>3, CountQuiet DEF Bounds
  <1>18. ASSUME NEW b \in Branches, NEW v \in Visits, SyncStep(b, v)
         PROVE  CountInv'
    BY <1>0, <1>18, SyncAlone, CountQuiet DEF Bounds
  <1>. QED
    BY <1>1, <1>2, <1>3, <1>4, <1>5, <1>6, <1>7, <1>9, <1>10, <1>11, <1>12, <1>13,
       <1>14, <1>j, <1>15, <1>16, <1>17, <1>18, PathFacts
    DEF Next, ForkStep, JoinStep, BranchStep, SyncStep

-----------------------------------------------------------------------------
\* What the FORK has counted is right, for every list of branches and every
\* way of launching them, panics included.
THEOREM CountAlways == Spec => []CountInv
  <1>1. Init => OneRunner /\ CountInv
    <2> SUFFICES ASSUME Init PROVE OneRunner /\ CountInv
      OBVIOUS
    <2>1. Bounds
      <3>1. total \in 0 .. 2 * N /\ failures \in 0 .. total
        BY BranchCount DEF Init
      <3>. QED BY <3>1 DEF Init, Bounds
    <2>2. OneRunner
      BY DEF Init, OneRunner
    <2>3. Counting /\ Covered /\ Blocking /\ ForkVerdict
      BY DEF Init, Counting, Covered, Blocking, ForkVerdict, Handling
    <2>. QED BY <2>1, <2>2, <2>3 DEF CountInv
  <1>2. Shape /\ OneRunner /\ CountInv /\ [Next]_vars => OneRunner' /\ CountInv'
    BY RunnerStep, CountStep
  <1>. QED BY <1>1, <1>2, ShapeAlways, PTL DEF Spec

\* The variables keep their types, and the counters stay within one result per
\* branch and one filled in for it.
THEOREM ForkTypeCorrect == Spec => []TypeOK
  <1>1. Shape /\ CountInv => TypeOK
    BY DEF Shape, CountInv, Bounds, TypeOK, N
  <1>. QED BY <1>1, ShapeAlways, CountAlways, PTL

\* A FORK that goes on as succeeded or partial has counted every branch: none,
\* or no more than the strategy tolerates, failed, panicked, was aborted or
\* never ran.
THEOREM ForkVerdictAlways == Spec => []ForkVerdict
  <1>1. CountInv => ForkVerdict
    BY DEF CountInv
  <1>. QED BY <1>1, CountAlways, PTL

=============================================================================
