---------------------- MODULE ContextCompressionProofs ----------------------
(***************************************************************************)
(* Theorems about ContextCompression, for every tail, every size of a      *)
(* batch, every threshold, with and without a taker, and any number of     *)
(* requests, inputs, pauses, nested agents and lost answers.               *)
(*                                                                         *)
(* Each theorem has its own strengthening.  SnapInv follows a snapshot     *)
(* from the request through the signal, the run and the event to the       *)
(* landing.  FlightInv covers the window between the dispatch of a signal  *)
(* and the anchoring of its flight, in which the answer may already be     *)
(* consumed.  OnceInv relates the versions the service was given to the    *)
(* emission guard of the ledger.                                           *)
(***************************************************************************)
EXTENDS ContextCompression, TLAPS

\* a published event goes behind the ones that wait
LEMMA Queued ==
  ASSUME NEW S, NEW q \in Seq(S), NEW e \in S
  PROVE  /\ Append(q, e) \in Seq(S) /\ Len(Append(q, e)) = Len(q) + 1
         /\ \A i \in 1..Len(q) : Append(q, e)[i] = q[i]
         /\ Append(q, e)[Len(q) + 1] = e
  OBVIOUS

\* receiving moves every later event up by one
LEMMA Received ==
  ASSUME NEW S, NEW q \in Seq(S), q # <<>>
  PROVE  /\ Head(q) \in S /\ Head(q) = q[1] /\ Len(q) \in Nat \ {0}
         /\ Tail(q) \in Seq(S) /\ Len(Tail(q)) = Len(q) - 1
         /\ \A i \in 1..Len(Tail(q)) : Tail(q)[i] = q[i + 1] /\ i + 1 \in 1..Len(q)
         /\ \A i \in 2..Len(q) : i - 1 \in 1..Len(Tail(q)) /\ Tail(q)[i - 1] = q[i]
  OBVIOUS

-----------------------------------------------------------------------------
(* Typing.                                                                 *)

LEMMA TypeInit == Init => TypeOK
  <1> SUFFICES ASSUME Init PROVE TypeOK
    OBVIOUS
  <1>1. used \in [BoundNames -> Nat] /\ sig \in [v : Nat, snap : Nat, path : {"budget", "forced"}]
    BY DEF Init
  <1>2. events \in Seq(BusEvent)
    BY DEF Init
  <1>3. /\ len \in Nat \ {0} /\ from \in 1..len /\ at \in Nat
        /\ emitted \in Nat /\ flight \in Nat /\ streak \in Nat
    BY DEF Init
  <1>4. pc \in Pcs /\ back \in {"check", "finish"} /\ note \in {"none", "over", "fits"}
    BY DEF Init, Pcs
  <1>5. paused \in BOOLEAN /\ up \in BOOLEAN
    BY DEF Init
  <1>6. /\ runs \subseteq Run /\ recent \subseteq Nat /\ nested \subseteq Nat /\ lost \subseteq Nat
        /\ claimed \subseteq Nat /\ late \subseteq Nat /\ dropped \subseteq Nat
    BY DEF Init
  <1> QED BY <1>1, <1>2, <1>3, <1>4, <1>5, <1>6 DEF TypeOK

LEMMA TypeStep == TypeOK /\ [Next]_vars => TypeOK'
  <1> SUFFICES ASSUME TypeOK, [Next]_vars PROVE TypeOK'
    OBVIOUS
  <1> USE CompressionAssumption
  <1>1. CASE LoopHead
    <2> used' \in [BoundNames -> Nat]
      BY <1>1 DEF LoopHead, Use, BoundNames, TypeOK
    <2> len' \in Nat \ {0} /\ from' \in 1..len'
      BY <1>1 DEF LoopHead, Appends, Go, conv, TypeOK
    <2> QED BY <1>1 DEF LoopHead, Go, conv, guard, driver, service, consumer, ghosts, Pcs, TypeOK
  <1>2. CASE Exhaust
    BY <1>2 DEF Exhaust, Go, conv, guard, driver, service, consumer, ghosts, Pcs, TypeOK
  <1>3. CASE Iterate
    BY <1>3 DEF Iterate, Interrupted, Go, conv, guard, driver, service, consumer, ghosts,
       Pcs, TypeOK
  <1>4. CASE Gate
    BY <1>4 DEF Gate, conv, guard, driver, service, consumer, ghosts, Pcs, TypeOK
  <1>5. CASE Scan
    BY <1>5 DEF Scan, Park, Go, conv, guard, driver, service, consumer, ghosts, Pcs, TypeOK
  <1>6. CASE Settle
    BY <1>6 DEF Settle, Park, Go, conv, guard, driver, service, consumer, ghosts, Pcs,
       TypeOK
  <1>7. CASE SettleTimeout
    BY <1>7 DEF SettleTimeout, Park, conv, guard, driver, service, consumer, ghosts, Pcs,
       TypeOK
  <1>8. CASE Parked
    BY <1>8 DEF Parked, Interrupted, Go, conv, guard, driver, service, consumer, ghosts,
       Pcs, TypeOK
  <1>9. CASE Escalate
    BY <1>9 DEF Escalate, Go, conv, guard, driver, service, consumer, ghosts, Pcs, TypeOK
  <1>10. CASE ResetStreak
    BY <1>10 DEF ResetStreak, Park, conv, guard, driver, service, consumer, ghosts, Pcs,
       TypeOK
  <1>11. CASE Build
    <2> used' \in [BoundNames -> Nat]
      BY <1>11 DEF Build, Use, BoundNames, TypeOK
    <2> QED BY <1>11 DEF Build, conv, guard, driver, service, consumer, ghosts, Pcs, TypeOK
  <1>12. CASE Call
    BY <1>12 DEF Call, Go, conv, guard, driver, service, consumer, ghosts, Pcs, TypeOK
  <1>13. CASE Retry
    BY <1>13 DEF Retry, Go, conv, guard, driver, service, consumer, ghosts, Pcs, TypeOK
  <1>14. CASE ForcedSignal
    <2> Signal(at, "forced") \in [v : Nat, snap : Nat, path : {"budget", "forced"}]
      BY DEF Signal, TypeOK
    <2> sig' \in [v : Nat, snap : Nat, path : {"budget", "forced"}]
      BY <1>14 DEF ForcedSignal, ShouldEmit, TypeOK
    <2> QED BY <1>14 DEF ForcedSignal, conv, guard, driver, service, consumer, ghosts, Pcs, TypeOK
  <1>15. CASE Hold
    BY <1>15 DEF Hold, Go, conv, guard, driver, service, consumer, ghosts, Pcs, TypeOK
  <1>16. CASE Decide
    <2> Signal(len, "budget") \in [v : Nat, snap : Nat, path : {"budget", "forced"}]
      BY DEF Signal, TypeOK
    <2> sig' \in [v : Nat, snap : Nat, path : {"budget", "forced"}]
      BY <1>16 DEF Decide, ShouldEmit, TypeOK
    <2> QED BY <1>16 DEF Decide, conv, guard, driver, service, consumer, ghosts, Pcs, TypeOK
  <1>17. CASE Dispatch
    <2> DEFINE r == [v |-> sig.v, snap |-> sig.snap,
                     st |-> IF Routed THEN "mailed" ELSE "running"]
    <2>1. r \in Run /\ sig.v \in Nat
      BY DEF Run, TypeOK
    <2>2. runs' \subseteq Run /\ claimed' \subseteq Nat
      BY <1>17, <2>1 DEF Dispatch, TypeOK
    <2> QED BY <1>17, <2>2 DEF Dispatch, Go, conv, guard, driver, service, consumer, ghosts, Pcs, TypeOK
  <1>18. CASE Mark
    BY <1>18 DEF Mark, Go, conv, guard, driver, service, consumer, ghosts, Pcs, TypeOK
  <1>19. CASE Reply
    <2> len' \in Nat \ {0} /\ from' \in 1..len'
      BY <1>19 DEF Reply, Appends, Go, conv, TypeOK
    <2> QED BY <1>19 DEF Reply, Go, Use, conv, guard, driver, service, consumer, ghosts, BoundNames,
        Pcs, TypeOK
  <1>20. CASE Tools
    <2> len' \in Nat \ {0} /\ from' \in 1..len'
      BY <1>20 DEF Tools, Appends, Go, conv, TypeOK
    <2> QED BY <1>20 DEF Tools, Go, Use, conv, guard, driver, service, consumer, ghosts, BoundNames,
        Pcs, TypeOK
  <1>21. CASE Finish
    <2> used' \in [BoundNames -> Nat]
      BY <1>21 DEF Finish, Use, BoundNames, TypeOK
    <2> len' \in Nat \ {0} /\ from' \in 1..len'
      BY <1>21 DEF Finish, Appends, Go, conv, TypeOK
    <2> QED BY <1>21 DEF Finish, Go, conv, guard, driver, service, consumer, ghosts, Pcs, TypeOK
  <1>22. CASE PickUp
    <2> PICK r \in runs : runs' \subseteq runs \cup {[r EXCEPT !.st = "running"]}
      BY <1>22 DEF PickUp
    <2>1. [r EXCEPT !.st = "running"] \in Run
      BY DEF Run, TypeOK
    <2> QED BY <1>22, <2>1 DEF PickUp, conv, guard, driver, consumer, ghosts, TypeOK
  <1>23. CASE \E r \in runs : RunCompletes(r)
    <2> PICK r \in runs : RunCompletes(r)
      BY <1>23
    <2> PICK b \in Batches, fit \in {"over", "fits"} :
          Publish(Event("completed", r.v, r.snap, b, fit))
      BY DEF RunCompletes
    <2> Event("completed", r.v, r.snap, b, fit) \in BusEvent
      BY DEF Plain, Event, BusEvent, Kinds, TypeOK, Run
    <2> QED BY Queued DEF RunCompletes, Publish, conv, guard, driver, ghosts, TypeOK
  <1>24. CASE \E r \in runs : RunFails(r)
    <2> PICK r \in runs : RunFails(r)
      BY <1>24
    <2> Plain("failed", r.v) \in BusEvent /\ r.v \in Nat
      BY DEF Plain, Event, BusEvent, Kinds, TypeOK, Run
    <2> QED BY Queued DEF RunFails, Publish, conv, guard, driver, ghosts, TypeOK
  <1>25. CASE \E r \in runs : RunVanishes(r)
    <2> PICK r \in runs : RunVanishes(r)
      BY <1>25
    <2> r.v \in Nat
      BY DEF Run, TypeOK
    <2> used' \in [BoundNames -> Nat]
      BY DEF RunVanishes, Use, BoundNames, TypeOK
    <2> QED BY DEF RunVanishes, conv, guard, driver, service, consumer, ghosts, TypeOK
  <1>26. CASE \E v \in recent : Evict(v)
    <2> PICK v \in recent : Evict(v)
      BY <1>26
    <2>1. used' \in [BoundNames -> Nat]
      BY DEF Evict, Use, BoundNames, TypeOK
    <2>2. recent' \subseteq Nat /\ lost' \subseteq Nat
      BY DEF Evict, TypeOK
    <2> QED BY <2>1, <2>2 DEF Evict, conv, guard, driver, consumer, ghosts, TypeOK
  <1>27. CASE Land
    <2> DEFINE e == Head(events)
               first == Max2(1, len + e.batch - TailKeep)
    <2>1. e \in BusEvent /\ Tail(events) \in Seq(BusEvent)
      BY <1>27, Received DEF Land, Receive, TypeOK
    <2>2. e.batch \in Nat /\ e.fit \in {"over", "fits"}
      BY <2>1 DEF BusEvent
    <2>3. len + e.batch \in Nat \ {0} /\ first \in 1..(len + e.batch)
      <3> len \in Nat \ {0} /\ TailKeep \in Nat
        BY DEF TypeOK
      <3> QED BY <2>2 DEF Max2
    <2>4. len' = len + e.batch /\ from' = first /\ events' = Tail(events) /\ note' = e.fit
      BY <1>27 DEF Land
    <2>5. late' \subseteq Nat
      <3> (len + 1)..(len + e.batch) \subseteq Nat
        BY <2>2 DEF TypeOK
      <3> QED BY <1>27 DEF Land, Arrive, TypeOK
    <2>6. dropped' \subseteq Nat
      <3> {m \in from..(first - 1) : e.snap < m /\ m <= len} \subseteq Nat
        BY <2>3 DEF TypeOK
      <3> QED BY <1>27 DEF Land, TypeOK
    <2> QED BY <1>27, <2>1, <2>2, <2>3, <2>4, <2>5, <2>6 DEF Land, EndFlight, driver, service, TypeOK
  <1>28. CASE Discard
    <2> Head(events) \in BusEvent /\ Tail(events) \in Seq(BusEvent)
      BY <1>28, Received DEF Discard, Receive, TypeOK
    <2> Plain("discarded", Head(events).v) \in BusEvent
      BY DEF Plain, Event, BusEvent, Kinds
    <2> events' \in Seq(BusEvent)
      BY <1>28, Queued DEF Discard
    <2> QED BY <1>28 DEF Discard, EndFlight, conv, driver, service, ghosts, TypeOK
  <1>29. CASE NoteBudget
    <2>1. emitted' \in Nat /\ streak' \in Nat /\ note' = "none"
      BY <1>29 DEF NoteBudget, TypeOK
    <2> QED BY <1>29, <2>1 DEF NoteBudget, conv, driver, service, ghosts, TypeOK
  <1>30. CASE Release
    <2> Tail(events) \in Seq(BusEvent)
      BY <1>30, Received DEF Release, Receive, TypeOK
    <2> QED BY <1>30 DEF Release, EndFlight, conv, driver, service, ghosts, TypeOK
  <1>31. CASE Writeback
    <2>1. Tail(events) \in Seq(BusEvent)
      BY <1>31, Received DEF Writeback, Receive, TypeOK
    <2>2. len' \in Nat \ {0} /\ from' \in 1..len'
      BY <1>31 DEF Writeback, Appends, conv, TypeOK
    <2>3. late' \subseteq Nat
      <3> (len + 1)..(len + 1) \subseteq Nat
        BY DEF TypeOK
      <3> QED BY <1>31 DEF Writeback, Arrive, TypeOK
    <2> QED BY <1>31, <2>1, <2>2, <2>3 DEF Writeback, guard, driver, service, TypeOK
  <1>32. CASE Lag
    <2> used' \in [BoundNames -> Nat]
      BY <1>32 DEF Lag, Use, BoundNames, TypeOK
    <2> QED BY <1>32 DEF Lag, conv, guard, driver, service, consumer, ghosts, Pcs, TypeOK
  <1>33. CASE NestedStarts
    <2> used' \in [BoundNames -> Nat]
      BY <1>33 DEF NestedStarts, Use, BoundNames, TypeOK
    <2> QED BY <1>33 DEF NestedStarts, conv, guard, driver, service, consumer, ghosts, Pcs, TypeOK
  <1>34. CASE \E a \in nested : NestedReplies(a)
    <2> PICK a \in nested : NestedReplies(a)
      BY <1>34
    <2> Plain("writeback", a) \in BusEvent
      BY DEF Plain, Event, BusEvent, Kinds, TypeOK
    <2> QED BY Queued DEF NestedReplies, Publish, conv, guard, driver, service, ghosts, TypeOK
  <1>35. CASE Pause
    <2> used' \in [BoundNames -> Nat]
      BY <1>35 DEF Pause, Use, BoundNames, TypeOK
    <2> QED BY <1>35 DEF Pause, conv, guard, driver, service, consumer, ghosts, Pcs, TypeOK
  <1>36. CASE Resume
    BY <1>36 DEF Resume, conv, guard, driver, service, consumer, ghosts, Pcs, TypeOK
  <1>37. CASE UNCHANGED vars
    BY <1>37 DEF vars, Pcs, TypeOK
  <1> QED BY <1>1, <1>2, <1>3, <1>4, <1>5, <1>6, <1>7, <1>8, <1>9, <1>10, <1>11, <1>12,
     <1>13, <1>14, <1>15, <1>16, <1>17, <1>18, <1>19, <1>20, <1>21, <1>22, <1>23, <1>24,
     <1>25, <1>26, <1>27, <1>28, <1>29, <1>30, <1>31, <1>32, <1>33, <1>34, <1>35, <1>36,
     <1>37 DEF Next, Driver, RunEnds, Consume, Faults, Environment

\* Type correctness: the conversation, the driver, the service and the consumer
\* stay well formed.
THEOREM CompressionTypeCorrect == Spec => []TypeOK
  BY TypeInit, TypeStep, PTL DEF Spec

-----------------------------------------------------------------------------
(* Versions only grow, and nothing names one that is still to come.        *)

BaseInv ==
  /\ flight <= len
  /\ pc \in {"dispatch", "mark"} => sig.v <= len
  /\ \A r \in runs : r.v <= len
  /\ \A i \in 1..Len(events) :
       /\ events[i].kind = "completed" => events[i].batch >= 1
       /\ events[i].kind # "writeback" => events[i].v <= len

LEMMA BaseStep == TypeOK /\ BaseInv /\ [Next]_vars => BaseInv' /\ len' >= len
  <1> SUFFICES ASSUME TypeOK, BaseInv, [Next]_vars PROVE BaseInv' /\ len' >= len
    OBVIOUS
  <1>t. /\ len \in Nat \ {0} /\ flight \in Nat /\ emitted \in Nat /\ at \in Nat
        /\ sig.v \in Nat /\ sig.snap \in Nat /\ events \in Seq(BusEvent)
        /\ runs \subseteq Run /\ claimed \subseteq Nat /\ late \subseteq Nat
    BY DEF TypeOK
  <1>e. /\ \A i \in 1..Len(events) : events[i].v \in Nat /\ events[i].snap \in Nat
        /\ \A r \in runs : r.v \in Nat /\ r.snap \in Nat
    <2>1. \A i \in 1..Len(events) : events[i] \in BusEvent
      BY <1>t
    <2>2. \A e \in BusEvent : e.v \in Nat /\ e.snap \in Nat
      BY DEF BusEvent
    <2>3. \A r \in Run : r.v \in Nat /\ r.snap \in Nat
      BY DEF Run
    <2> QED BY <1>t, <2>1, <2>2, <2>3
  <1>1. CASE LoopHead
    <2>1. len' = len \/ len' = len + 1
      BY <1>1 DEF LoopHead, Appends, conv
    <2> QED BY <1>1, <1>t, <1>e, <2>1 DEF LoopHead, Go, guard, service, consumer, BaseInv
  <1>2. CASE Exhaust
    BY <1>2, <1>t DEF Exhaust, Go, conv, guard, driver, service, consumer, ghosts, BaseInv
  <1>3. CASE Iterate
    BY <1>3, <1>t DEF Iterate, Interrupted, Go, conv, guard, driver, service, consumer,
       ghosts, BaseInv
  <1>4. CASE Gate
    BY <1>4, <1>t DEF Gate, conv, guard, driver, service, consumer, ghosts, BaseInv
  <1>5. CASE Scan
    BY <1>5, <1>t DEF Scan, Park, Go, conv, guard, driver, service, consumer, ghosts,
       BaseInv
  <1>6. CASE Settle
    BY <1>6, <1>t DEF Settle, Park, Go, conv, guard, driver, service, consumer, ghosts,
       BaseInv
  <1>7. CASE SettleTimeout
    BY <1>7, <1>t DEF SettleTimeout, Park, conv, guard, driver, service, consumer, ghosts,
       BaseInv
  <1>8. CASE Parked
    <2>1. pc' \notin {"dispatch", "mark"}
      BY <1>8 DEF Parked, Interrupted, Go, TypeOK
    <2> QED BY <1>8, <1>t, <2>1 DEF Parked, conv, guard, service, consumer, BaseInv
  <1>9. CASE Escalate
    BY <1>9, <1>t DEF Escalate, Go, conv, guard, driver, service, consumer, ghosts, BaseInv
  <1>10. CASE ResetStreak
    BY <1>10, <1>t DEF ResetStreak, Park, conv, guard, driver, service, consumer, ghosts,
       BaseInv
  <1>11. CASE Build
    BY <1>11, <1>t DEF Build, Use, conv, guard, driver, service, consumer, ghosts, BaseInv
  <1>12. CASE Call
    BY <1>12, <1>t DEF Call, Go, conv, guard, driver, service, consumer, ghosts, BaseInv
  <1>13. CASE Retry
    BY <1>13, <1>t DEF Retry, Go, conv, guard, driver, service, consumer, ghosts, BaseInv
  <1>14. CASE ForcedSignal
    BY <1>14, <1>t DEF ForcedSignal, Signal, ShouldEmit, conv, guard, driver, service,
       consumer, ghosts, BaseInv
  <1>15. CASE Hold
    BY <1>15, <1>t DEF Hold, Go, conv, guard, driver, service, consumer, ghosts, BaseInv
  <1>16. CASE Decide
    BY <1>16, <1>t DEF Decide, Signal, ShouldEmit, conv, guard, driver, service, consumer,
       ghosts, BaseInv
  <1>17. CASE Dispatch
    BY <1>17, <1>t DEF Dispatch, Go, conv, guard, driver, service, consumer, ghosts,
       BaseInv
  <1>18. CASE Mark
    BY <1>18, <1>t DEF Mark, Go, conv, guard, driver, service, consumer, ghosts, BaseInv
  <1>19. CASE Reply
    <2>1. len' = len \/ len' = len + 1
      BY <1>19 DEF Reply, Appends, conv
    <2> QED BY <1>19, <1>t, <1>e, <2>1 DEF Reply, Go, guard, service, consumer, BaseInv
  <1>20. CASE Tools
    <2>1. len' = len \/ len' = len + 1
      BY <1>20 DEF Tools, Appends, conv
    <2> QED BY <1>20, <1>t, <1>e, <2>1 DEF Tools, Go, guard, service, consumer, BaseInv
  <1>21. CASE Finish
    <2>1. len' = len \/ len' = len + 1
      BY <1>21 DEF Finish, Appends, conv
    <2> QED BY <1>21, <1>t, <1>e, <2>1 DEF Finish, Go, guard, service, consumer, BaseInv
  <1>22. CASE PickUp
    <2> PICK r \in runs : runs' \subseteq runs \cup {[r EXCEPT !.st = "running"]}
      BY <1>22 DEF PickUp
    <2>1. [r EXCEPT !.st = "running"].v = r.v
      BY <1>t DEF Run
    <2>2. \A x \in runs' : x.v <= len
      BY <2>1 DEF BaseInv
    <2> QED BY <1>22, <1>t, <2>2 DEF PickUp, conv, guard, driver, consumer, BaseInv
  <1>23. CASE \E r \in runs : RunCompletes(r)
    <2> PICK r \in runs : RunCompletes(r)
      BY <1>23
    <2> PICK b \in Batches, fit \in {"over", "fits"} :
          Publish(Event("completed", r.v, r.snap, b, fit))
      BY DEF RunCompletes
    <2> DEFINE e == Event("completed", r.v, r.snap, b, fit)
    <2>1. e \in BusEvent /\ e.v = r.v /\ e.batch = b /\ b >= 1 /\ r.v <= len
      BY <1>t, CompressionAssumption DEF Event, BusEvent, Kinds, Run, BaseInv
    <2>2. events' = Append(events, e)
      BY DEF Publish
    <2> HIDE DEF e
    <2>3. \A i \in 1..Len(events') : events'[i] = e \/ (i \in 1..Len(events) /\ events'[i] = events[i])
      BY <1>t, <2>1, <2>2, Queued
    <2> QED BY <1>t, <2>1, <2>3 DEF RunCompletes, conv, guard, driver, BaseInv
  <1>24. CASE \E r \in runs : RunFails(r)
    <2> PICK r \in runs : RunFails(r)
      BY <1>24
    <2> DEFINE e == Plain("failed", r.v)
    <2>1. e \in BusEvent /\ e.v = r.v /\ e.kind = "failed" /\ r.v <= len
      BY <1>t DEF Plain, Event, BusEvent, Kinds, Run, TypeOK, BaseInv
    <2>2. events' = Append(events, e)
      BY DEF RunFails, Publish
    <2> HIDE DEF e
    <2>3. \A i \in 1..Len(events') : events'[i] = e \/ (i \in 1..Len(events) /\ events'[i] = events[i])
      BY <1>t, <2>1, <2>2, Queued
    <2> QED BY <1>t, <2>1, <2>3 DEF RunFails, conv, guard, driver, BaseInv
  <1>25. CASE \E r \in runs : RunVanishes(r)
    BY <1>25, <1>t DEF RunVanishes, Use, conv, guard, driver, service, consumer, ghosts,
       BaseInv
  <1>26. CASE \E v \in recent : Evict(v)
    BY <1>26, <1>t DEF Evict, Use, conv, guard, driver, service, consumer, ghosts, BaseInv
  <1>27. CASE Land
    <2>1. /\ Head(events) = events[1] /\ 1 \in 1..Len(events) /\ Head(events) \in BusEvent
          /\ Tail(events) \in Seq(BusEvent)
          /\ \A i \in 1..Len(Tail(events)) : Tail(events)[i] = events[i + 1] /\ i + 1 \in 1..Len(events)
      BY <1>27, <1>t, Received DEF Land, Receive
    <2>2. Head(events).batch \in Nat /\ Head(events).batch >= 1
      BY <1>27, <1>t, <2>1 DEF Land, Receive, BusEvent, BaseInv
    <2>3. len' = len + Head(events).batch /\ events' = Tail(events)
      BY <1>27 DEF Land
    <2>4. flight' <= len
      BY <1>27, <1>t DEF Land, EndFlight, BaseInv
    <2>5. /\ \A i \in 1..Len(events') : events'[i] = events[i + 1] /\ i + 1 \in 1..Len(events)
          /\ len' \in Nat /\ len <= len' /\ flight' \in Nat
      BY <1>27, <1>t, <2>1, <2>2, <2>3 DEF Land, EndFlight
    <2>6. \A i \in 1..Len(events') :
            /\ events'[i].kind = "completed" => events'[i].batch >= 1
            /\ events'[i].kind # "writeback" => events'[i].v <= len'
      BY <1>t, <1>e, <2>5 DEF BaseInv
    <2>7. runs' = runs /\ pc' = pc /\ sig' = sig
      BY <1>27 DEF Land, driver, service
    <2>8. flight' <= len' /\ (pc' \in {"dispatch", "mark"} => sig'.v <= len')
      BY <1>t, <2>4, <2>5, <2>7 DEF BaseInv
    <2>9. \A r \in runs' : r.v <= len'
      BY <1>t, <1>e, <2>5, <2>7 DEF BaseInv
    <2> QED BY <1>t, <2>5, <2>6, <2>8, <2>9 DEF BaseInv
  <1>28. CASE Discard
    <2>1. /\ Head(events) = events[1] /\ 1 \in 1..Len(events) /\ Head(events) \in BusEvent
          /\ Tail(events) \in Seq(BusEvent)
          /\ \A i \in 1..Len(Tail(events)) : Tail(events)[i] = events[i + 1] /\ i + 1 \in 1..Len(events)
      BY <1>28, <1>t, Received DEF Discard, Receive
    <2> DEFINE d == Plain("discarded", Head(events).v)
    <2>2. d \in BusEvent /\ d.kind = "discarded" /\ d.v = Head(events).v
      BY <2>1 DEF Plain, Event, BusEvent, Kinds
    <2>3. Head(events).v <= len /\ Head(events).v # len /\ Head(events).v \in Nat
      BY <1>28, <2>1 DEF Discard, Receive, CheckAnchor, BusEvent, BaseInv
    <2>4. events' = Append(Tail(events), d)
      BY <1>28 DEF Discard
    <2> HIDE DEF d
    <2>5. \A i \in 1..Len(events') :
            events'[i] = d \/ (i + 1 \in 1..Len(events) /\ events'[i] = events[i + 1])
      BY <1>t, <2>1, <2>2, <2>4, Queued
    <2> QED BY <1>28, <1>t, <2>2, <2>3, <2>5 DEF Discard, EndFlight, conv, driver, service, BaseInv
  <1>29. CASE NoteBudget
    BY <1>29, <1>t DEF NoteBudget, conv, guard, driver, service, consumer, ghosts, BaseInv
  <1>30. CASE Release
    <2>1. /\ Head(events) = events[1] /\ 1 \in 1..Len(events) /\ Head(events) \in BusEvent
          /\ Tail(events) \in Seq(BusEvent)
          /\ \A i \in 1..Len(Tail(events)) : Tail(events)[i] = events[i + 1] /\ i + 1 \in 1..Len(events)
      BY <1>30, <1>t, Received DEF Release, Receive
    <2> QED BY <1>30, <1>t, <2>1 DEF Release, EndFlight, conv, driver, service, BaseInv
  <1>31. CASE Writeback
    <2>1. /\ Head(events) = events[1] /\ 1 \in 1..Len(events) /\ Head(events) \in BusEvent
          /\ Tail(events) \in Seq(BusEvent)
          /\ \A i \in 1..Len(Tail(events)) : Tail(events)[i] = events[i + 1] /\ i + 1 \in 1..Len(events)
      BY <1>31, <1>t, Received DEF Writeback, Receive
    <2>2. events' = Tail(events) /\ (len' = len \/ len' = len + 1)
      BY <1>31 DEF Writeback, Appends, conv
    <2> QED BY <1>31, <1>t, <1>e, <2>1, <2>2 DEF Writeback, guard, driver, service, BaseInv
  <1>32. CASE Lag
    BY <1>32, <1>t DEF Lag, Use, conv, guard, driver, service, consumer, ghosts, BaseInv
  <1>33. CASE NestedStarts
    BY <1>33, <1>t DEF NestedStarts, Use, conv, guard, driver, service, consumer, ghosts,
       BaseInv
  <1>34. CASE \E a \in nested : NestedReplies(a)
    <2> PICK a \in nested : NestedReplies(a)
      BY <1>34
    <2> DEFINE e == Plain("writeback", a)
    <2>1. e \in BusEvent /\ e.v = a /\ e.kind = "writeback"
      BY <1>t DEF Plain, Event, BusEvent, Kinds, Run, TypeOK, BaseInv
    <2>2. events' = Append(events, e)
      BY DEF NestedReplies, Publish
    <2> HIDE DEF e
    <2>3. \A i \in 1..Len(events') : events'[i] = e \/ (i \in 1..Len(events) /\ events'[i] = events[i])
      BY <1>t, <2>1, <2>2, Queued
    <2> QED BY <1>t, <2>1, <2>3 DEF NestedReplies, conv, guard, driver, service, BaseInv
  <1>35. CASE Pause
    BY <1>35, <1>t DEF Pause, Use, conv, guard, driver, service, consumer, ghosts, BaseInv
  <1>36. CASE Resume
    BY <1>36, <1>t DEF Resume, conv, guard, driver, service, consumer, ghosts, BaseInv
  <1>37. CASE UNCHANGED vars
    BY <1>37, <1>t DEF vars, BaseInv
  <1> QED BY <1>1, <1>2, <1>3, <1>4, <1>5, <1>6, <1>7, <1>8, <1>9, <1>10, <1>11, <1>12,
     <1>13, <1>14, <1>15, <1>16, <1>17, <1>18, <1>19, <1>20, <1>21, <1>22, <1>23, <1>24,
     <1>25, <1>26, <1>27, <1>28, <1>29, <1>30, <1>31, <1>32, <1>33, <1>34, <1>35, <1>36,
     <1>37 DEF Next, Driver, RunEnds, Consume, Faults, Environment

LEMMA BaseInit == Init => BaseInv
  BY DEF Init, BaseInv

-----------------------------------------------------------------------------
(* The snapshot of a summary.                                              *)

\* the messages after s and up to v are all in L
Fresh(s, v, L) == \A m \in Nat : s < m /\ m <= v => m \in L

SnapInv ==
  /\ pc \in {"call", "force"} => Fresh(at, len, late)
  /\ pc = "dispatch" => Fresh(sig.snap, sig.v, late)
  /\ \A r \in runs : Fresh(r.snap, r.v, late)
  /\ \A i \in 1..Len(events) :
       events[i].kind = "completed" => Fresh(events[i].snap, events[i].v, late)
  /\ NewerMessagesWin

LEMMA FreshGrows ==
  ASSUME NEW L, NEW M, L \subseteq M
  PROVE  \A s, v : Fresh(s, v, L) => Fresh(s, v, M)
  BY DEF Fresh

LEMMA SnapInit == Init => SnapInv
  BY DEF Init, SnapInv, NewerMessagesWin

LEMMA SnapStep == TypeOK /\ BaseInv /\ SnapInv /\ [Next]_vars => SnapInv'
  <1> SUFFICES ASSUME TypeOK, BaseInv, SnapInv, [Next]_vars PROVE SnapInv'
    OBVIOUS
  <1>t. /\ len \in Nat \ {0} /\ flight \in Nat /\ emitted \in Nat /\ at \in Nat
        /\ sig.v \in Nat /\ sig.snap \in Nat /\ events \in Seq(BusEvent)
        /\ runs \subseteq Run /\ claimed \subseteq Nat /\ late \subseteq Nat
    BY DEF TypeOK
  <1>e. /\ \A i \in 1..Len(events) : events[i].v \in Nat /\ events[i].snap \in Nat
        /\ \A r \in runs : r.v \in Nat /\ r.snap \in Nat
    <2>1. \A i \in 1..Len(events) : events[i] \in BusEvent
      BY <1>t
    <2>2. \A e \in BusEvent : e.v \in Nat /\ e.snap \in Nat
      BY DEF BusEvent
    <2>3. \A r \in Run : r.v \in Nat /\ r.snap \in Nat
      BY DEF Run
    <2> QED BY <1>t, <2>1, <2>2, <2>3
  <1>1. CASE LoopHead
    BY <1>1 DEF LoopHead, Go, Use, Appends, conv, guard, driver, service, consumer, ghosts,
       SnapInv, NewerMessagesWin
  <1>2. CASE Exhaust
    BY <1>2 DEF Exhaust, Go, conv, guard, driver, service, consumer, ghosts, SnapInv,
       NewerMessagesWin
  <1>3. CASE Iterate
    BY <1>3 DEF Iterate, Interrupted, Go, conv, guard, driver, service, consumer, ghosts,
       SnapInv, NewerMessagesWin
  <1>4. CASE Gate
    BY <1>4 DEF Gate, conv, guard, driver, service, consumer, ghosts, SnapInv,
       NewerMessagesWin
  <1>5. CASE Scan
    BY <1>5 DEF Scan, Park, Go, conv, guard, driver, service, consumer, ghosts, SnapInv,
       NewerMessagesWin
  <1>6. CASE Settle
    BY <1>6 DEF Settle, Park, Go, conv, guard, driver, service, consumer, ghosts, SnapInv,
       NewerMessagesWin
  <1>7. CASE SettleTimeout
    BY <1>7 DEF SettleTimeout, Park, conv, guard, driver, service, consumer, ghosts,
       SnapInv, NewerMessagesWin
  <1>8. CASE Parked
    <2>1. pc' \notin {"call", "force", "dispatch"}
      BY <1>8 DEF Parked, Interrupted, Go, TypeOK
    <2> QED BY <1>8, <2>1 DEF Parked, conv, guard, service, consumer, ghosts, SnapInv, NewerMessagesWin
  <1>9. CASE Escalate
    BY <1>9 DEF Escalate, Go, conv, guard, driver, service, consumer, ghosts, SnapInv,
       NewerMessagesWin
  <1>10. CASE ResetStreak
    BY <1>10 DEF ResetStreak, Park, conv, guard, driver, service, consumer, ghosts,
       SnapInv, NewerMessagesWin
  <1>11. CASE Build
    <2>1. Fresh(at', len', late')
      BY <1>11, <1>t DEF Build, Fresh, conv, ghosts
    <2> QED BY <1>11, <2>1 DEF Build, service, consumer, ghosts, SnapInv, NewerMessagesWin
  <1>12. CASE Call
    BY <1>12 DEF Call, Go, conv, guard, driver, service, consumer, ghosts, SnapInv,
       NewerMessagesWin
  <1>13. CASE Retry
    BY <1>13 DEF Retry, Go, conv, guard, driver, service, consumer, ghosts, SnapInv,
       NewerMessagesWin
  <1>14. CASE ForcedSignal
    <2>1. pc' = "dispatch" => Fresh(sig'.snap, sig'.v, late')
      BY <1>14 DEF ForcedSignal, Signal, ghosts, SnapInv
    <2> QED BY <1>14, <2>1 DEF ForcedSignal, service, consumer, ghosts, SnapInv, NewerMessagesWin
  <1>15. CASE Hold
    BY <1>15 DEF Hold, Go, conv, guard, driver, service, consumer, ghosts, SnapInv,
       NewerMessagesWin
  <1>16. CASE Decide
    <2>1. pc' = "dispatch" => Fresh(sig'.snap, sig'.v, late')
      BY <1>16, <1>t DEF Decide, Signal, Fresh, ghosts
    <2> QED BY <1>16, <2>1 DEF Decide, service, consumer, ghosts, SnapInv, NewerMessagesWin
  <1>17. CASE Dispatch
    <2>1. \A r \in runs' : r \in runs \/ (r.v = sig.v /\ r.snap = sig.snap)
      BY <1>17 DEF Dispatch
    <2>2. \A r \in runs' : Fresh(r.snap, r.v, late)
      BY <1>17, <2>1 DEF Dispatch, Go, SnapInv
    <2> QED BY <1>17, <2>2 DEF Dispatch, Go, consumer, SnapInv, NewerMessagesWin
  <1>18. CASE Mark
    BY <1>18 DEF Mark, Go, conv, guard, driver, service, consumer, ghosts, SnapInv,
       NewerMessagesWin
  <1>19. CASE Reply
    BY <1>19 DEF Reply, Go, Appends, conv, guard, driver, service, consumer, ghosts,
       SnapInv, NewerMessagesWin
  <1>20. CASE Tools
    BY <1>20 DEF Tools, Go, Appends, conv, guard, driver, service, consumer, ghosts,
       SnapInv, NewerMessagesWin
  <1>21. CASE Finish
    BY <1>21 DEF Finish, Go, Use, Appends, conv, guard, driver, service, consumer, ghosts,
       SnapInv, NewerMessagesWin
  <1>22. CASE PickUp
    <2> PICK r \in runs : runs' \subseteq runs \cup {[r EXCEPT !.st = "running"]}
      BY <1>22 DEF PickUp
    <2>1. [r EXCEPT !.st = "running"].v = r.v /\ [r EXCEPT !.st = "running"].snap = r.snap
      BY <1>t DEF Run
    <2>2. \A x \in runs' : Fresh(x.snap, x.v, late)
      BY <2>1 DEF SnapInv
    <2> QED BY <1>22, <2>2 DEF PickUp, conv, driver, consumer, ghosts, SnapInv, NewerMessagesWin
  <1>23. CASE \E r \in runs : RunCompletes(r)
    <2> PICK r \in runs : RunCompletes(r)
      BY <1>23
    <2> PICK b \in Batches, fit \in {"over", "fits"} :
          Publish(Event("completed", r.v, r.snap, b, fit))
      BY DEF RunCompletes
    <2> DEFINE e == Event("completed", r.v, r.snap, b, fit)
    <2>1. /\ e \in BusEvent /\ e.v = r.v /\ e.snap = r.snap
      BY <1>t, CompressionAssumption DEF Event, BusEvent, Kinds, Run
    <2>2. events' = Append(events, e)
      BY DEF Publish
    <2> HIDE DEF e
    <2>3. \A i \in 1..Len(events') : events'[i] = e \/ (i \in 1..Len(events) /\ events'[i] = events[i])
      BY <1>t, <2>1, <2>2, Queued
    <2> QED BY <2>1, <2>3 DEF RunCompletes, conv, driver, ghosts, SnapInv, NewerMessagesWin
  <1>24. CASE \E r \in runs : RunFails(r)
    <2> PICK r \in runs : RunFails(r)
      BY <1>24
    <2> DEFINE e == Plain("failed", r.v)
    <2>1. e \in BusEvent /\ e.v = r.v /\ e.kind = "failed"
      BY <1>t DEF Plain, Event, BusEvent, Kinds, Run, TypeOK, BaseInv
    <2>2. events' = Append(events, e)
      BY DEF RunFails, Publish
    <2> HIDE DEF e
    <2>3. \A i \in 1..Len(events') : events'[i] = e \/ (i \in 1..Len(events) /\ events'[i] = events[i])
      BY <1>t, <2>1, <2>2, Queued
    <2> QED BY <1>t, <2>1, <2>3 DEF RunFails, conv, driver, ghosts, SnapInv, NewerMessagesWin
  <1>25. CASE \E r \in runs : RunVanishes(r)
    BY <1>25 DEF RunVanishes, Use, conv, guard, driver, service, consumer, ghosts, SnapInv,
       NewerMessagesWin
  <1>26. CASE \E v \in recent : Evict(v)
    BY <1>26 DEF Evict, Use, conv, guard, driver, service, consumer, ghosts, SnapInv,
       NewerMessagesWin
  <1>27. CASE Land
    <2>1. /\ Head(events) = events[1] /\ 1 \in 1..Len(events) /\ Head(events) \in BusEvent
          /\ Tail(events) \in Seq(BusEvent)
          /\ \A i \in 1..Len(Tail(events)) : Tail(events)[i] = events[i + 1] /\ i + 1 \in 1..Len(events)
      BY <1>27, <1>t, Received DEF Land, Receive
    <2> DEFINE e == Head(events)
    <2>2. e.batch \in Nat /\ e.snap \in Nat /\ e.v = len /\ Fresh(e.snap, len, late)
      BY <1>27, <2>1 DEF Land, Receive, CheckAnchor, BusEvent, SnapInv
    <2>3. events' = Tail(events) /\ len' = len + e.batch /\ runs' = runs /\ pc' = pc /\ at' = at /\ sig' = sig
      BY <1>27 DEF Land, driver, service
    <2>4. late \subseteq late' /\ (pc \in {"call", "force"} => late' = late \cup (len + 1)..(len + e.batch))
      BY <1>27 DEF Land, Arrive
    <2> HIDE DEF e
    <2>5. pc \in {"call", "force"} => Fresh(at, len', late')
      <3> SUFFICES ASSUME pc \in {"call", "force"}, NEW m \in Nat, at < m, m <= len' PROVE m \in late'
        BY DEF Fresh
      <3>1. CASE m <= len
        BY <1>t, <2>4, <3>1 DEF SnapInv, Fresh
      <3>2. CASE m > len
        BY <1>t, <2>2, <2>3, <2>4, <3>2
      <3> QED BY <1>t, <3>1, <3>2
    <2>6. dropped' \subseteq late'
      <3>1. \A m \in dropped' : m \in dropped \/ (m \in Int /\ e.snap < m /\ m <= len)
        BY <1>27, <1>t DEF Land, e, TypeOK
      <3>2. \A m \in Int : e.snap < m /\ m <= len => m \in late
        BY <1>t, <2>2 DEF Fresh
      <3> QED BY <2>4, <3>1, <3>2 DEF SnapInv, NewerMessagesWin
    <2>7. \A s, v : Fresh(s, v, late) => Fresh(s, v, late')
      BY <2>4, FreshGrows
    <2> QED BY <2>1, <2>3, <2>5, <2>6, <2>7 DEF SnapInv, NewerMessagesWin
  <1>28. CASE Discard
    <2>1. /\ Head(events) = events[1] /\ 1 \in 1..Len(events) /\ Head(events) \in BusEvent
          /\ Tail(events) \in Seq(BusEvent)
          /\ \A i \in 1..Len(Tail(events)) : Tail(events)[i] = events[i + 1] /\ i + 1 \in 1..Len(events)
      BY <1>28, <1>t, Received DEF Discard, Receive
    <2> DEFINE d == Plain("discarded", Head(events).v)
    <2>2. d \in BusEvent /\ d.kind = "discarded" /\ d.v = Head(events).v
      BY <2>1 DEF Plain, Event, BusEvent, Kinds
    <2>3. Head(events).v <= len /\ Head(events).v # len /\ Head(events).v \in Nat
      BY <1>28, <2>1 DEF Discard, Receive, CheckAnchor, BusEvent, BaseInv
    <2>4. events' = Append(Tail(events), d)
      BY <1>28 DEF Discard
    <2> HIDE DEF d
    <2>5. \A i \in 1..Len(events') :
            events'[i] = d \/ (i + 1 \in 1..Len(events) /\ events'[i] = events[i + 1])
      BY <1>t, <2>1, <2>2, <2>4, Queued
    <2> QED BY <1>28, <2>2, <2>5 DEF Discard, conv, driver, service, ghosts, SnapInv, NewerMessagesWin
  <1>29. CASE NoteBudget
    BY <1>29 DEF NoteBudget, conv, guard, driver, service, consumer, ghosts, SnapInv,
       NewerMessagesWin
  <1>30. CASE Release
    <2>1. /\ Head(events) = events[1] /\ 1 \in 1..Len(events) /\ Head(events) \in BusEvent
          /\ Tail(events) \in Seq(BusEvent)
          /\ \A i \in 1..Len(Tail(events)) : Tail(events)[i] = events[i + 1] /\ i + 1 \in 1..Len(events)
      BY <1>30, <1>t, Received DEF Release, Receive
    <2> QED BY <1>30, <2>1 DEF Release, conv, driver, service, ghosts, SnapInv, NewerMessagesWin
  <1>31. CASE Writeback
    <2>1. /\ Head(events) = events[1] /\ 1 \in 1..Len(events) /\ Head(events) \in BusEvent
          /\ Tail(events) \in Seq(BusEvent)
          /\ \A i \in 1..Len(Tail(events)) : Tail(events)[i] = events[i + 1] /\ i + 1 \in 1..Len(events)
      BY <1>31, <1>t, Received DEF Writeback, Receive
    <2>2. /\ events' = Tail(events) /\ runs' = runs /\ pc' = pc /\ at' = at /\ sig' = sig
          /\ dropped' = dropped /\ late \subseteq late'
          /\ len' = len \/ (len' = len + 1 /\ (pc \in {"call", "force"} => len + 1 \in late'))
      BY <1>31, <1>t DEF Writeback, Appends, Arrive, conv, driver, service
    <2>3. pc \in {"call", "force"} => Fresh(at, len', late')
      BY <1>t, <2>2 DEF SnapInv, Fresh
    <2>4. \A s, v : Fresh(s, v, late) => Fresh(s, v, late')
      BY <2>2, FreshGrows
    <2> QED BY <2>1, <2>2, <2>3, <2>4 DEF SnapInv, NewerMessagesWin
  <1>32. CASE Lag
    BY <1>32 DEF Lag, Use, conv, guard, driver, service, consumer, ghosts, SnapInv,
       NewerMessagesWin
  <1>33. CASE NestedStarts
    BY <1>33 DEF NestedStarts, Use, conv, guard, driver, service, consumer, ghosts,
       SnapInv, NewerMessagesWin
  <1>34. CASE \E a \in nested : NestedReplies(a)
    <2> PICK a \in nested : NestedReplies(a)
      BY <1>34
    <2> DEFINE e == Plain("writeback", a)
    <2>1. e \in BusEvent /\ e.v = a /\ e.kind = "writeback"
      BY <1>t DEF Plain, Event, BusEvent, Kinds, Run, TypeOK, BaseInv
    <2>2. events' = Append(events, e)
      BY DEF NestedReplies, Publish
    <2> HIDE DEF e
    <2>3. \A i \in 1..Len(events') : events'[i] = e \/ (i \in 1..Len(events) /\ events'[i] = events[i])
      BY <1>t, <2>1, <2>2, Queued
    <2> QED BY <1>t, <2>1, <2>3 DEF NestedReplies, conv, driver, service, ghosts, SnapInv, NewerMessagesWin
  <1>35. CASE Pause
    BY <1>35 DEF Pause, Use, conv, guard, driver, service, consumer, ghosts, SnapInv,
       NewerMessagesWin
  <1>36. CASE Resume
    BY <1>36 DEF Resume, conv, guard, driver, service, consumer, ghosts, SnapInv,
       NewerMessagesWin
  <1>37. CASE UNCHANGED vars
    BY <1>37 DEF vars, SnapInv, NewerMessagesWin
  <1> QED BY <1>1, <1>2, <1>3, <1>4, <1>5, <1>6, <1>7, <1>8, <1>9, <1>10, <1>11, <1>12,
     <1>13, <1>14, <1>15, <1>16, <1>17, <1>18, <1>19, <1>20, <1>21, <1>22, <1>23, <1>24,
     <1>25, <1>26, <1>27, <1>28, <1>29, <1>30, <1>31, <1>32, <1>33, <1>34, <1>35, <1>36,
     <1>37 DEF Next, Driver, RunEnds, Consume, Faults, Environment

\* Newer messages always win: a landing hides no message that its summary was
\* not made from, but for those the consumer appended while a request was out.
THEOREM NewerMessagesAlwaysWin == Spec => []NewerMessagesWin
  <1> DEFINE Inv == TypeOK /\ BaseInv /\ SnapInv
  <1>1. Init => Inv
    BY TypeInit, BaseInit, SnapInit
  <1>2. Inv /\ [Next]_vars => Inv'
    BY TypeStep, BaseStep, SnapStep
  <1>3. Inv => NewerMessagesWin
    BY DEF SnapInv
  <1> QED BY <1>1, <1>2, <1>3, PTL DEF Spec

-----------------------------------------------------------------------------
(* The versions the service was given.                                     *)

OnceInv ==
  /\ \A v \in claimed : v <= len
  /\ pc \in {"dispatch", "mark"} => \A v \in claimed : v <= sig.v
  /\ len \in claimed => emitted = len \/ (pc = "mark" /\ sig.v = len)
  /\ SignalledOnce

LEMMA OnceInit == Init => OnceInv
  BY DEF Init, OnceInv, SignalledOnce

LEMMA OnceStep == TypeOK /\ BaseInv /\ OnceInv /\ [Next]_vars => OnceInv'
  <1> SUFFICES ASSUME TypeOK, BaseInv, OnceInv, [Next]_vars PROVE OnceInv'
    OBVIOUS
  <1>t. /\ len \in Nat \ {0} /\ flight \in Nat /\ emitted \in Nat /\ at \in Nat
        /\ sig.v \in Nat /\ sig.snap \in Nat /\ events \in Seq(BusEvent)
        /\ runs \subseteq Run /\ claimed \subseteq Nat /\ late \subseteq Nat
    BY DEF TypeOK
  <1>1. CASE LoopHead
    <2>1. len' = len \/ len' = len + 1
      BY <1>1 DEF LoopHead, Appends, conv
    <2> QED BY <1>1, <1>t, <2>1 DEF LoopHead, Go, guard, ghosts, OnceInv, SignalledOnce
  <1>2. CASE Exhaust
    BY <1>2, <1>t DEF Exhaust, Go, conv, guard, driver, service, consumer, ghosts, OnceInv,
       SignalledOnce
  <1>3. CASE Iterate
    BY <1>3, <1>t DEF Iterate, Interrupted, Go, conv, guard, driver, service, consumer,
       ghosts, OnceInv, SignalledOnce
  <1>4. CASE Gate
    BY <1>4, <1>t DEF Gate, conv, guard, driver, service, consumer, ghosts, OnceInv,
       SignalledOnce
  <1>5. CASE Scan
    BY <1>5, <1>t DEF Scan, Park, Go, conv, guard, driver, service, consumer, ghosts,
       OnceInv, SignalledOnce
  <1>6. CASE Settle
    BY <1>6, <1>t DEF Settle, Park, Go, conv, guard, driver, service, consumer, ghosts,
       OnceInv, SignalledOnce
  <1>7. CASE SettleTimeout
    BY <1>7, <1>t DEF SettleTimeout, Park, conv, guard, driver, service, consumer, ghosts,
       OnceInv, SignalledOnce
  <1>8. CASE Parked
    <2>1. pc' \notin {"dispatch", "mark"} /\ pc # "mark"
      BY <1>8 DEF Parked, Interrupted, Go, TypeOK
    <2> QED BY <1>8, <2>1 DEF Parked, conv, guard, ghosts, OnceInv, SignalledOnce
  <1>9. CASE Escalate
    BY <1>9, <1>t DEF Escalate, Go, conv, guard, driver, service, consumer, ghosts,
       OnceInv, SignalledOnce
  <1>10. CASE ResetStreak
    BY <1>10, <1>t DEF ResetStreak, Park, conv, guard, driver, service, consumer, ghosts,
       OnceInv, SignalledOnce
  <1>11. CASE Build
    BY <1>11, <1>t DEF Build, Use, conv, guard, driver, service, consumer, ghosts, OnceInv,
       SignalledOnce
  <1>12. CASE Call
    BY <1>12, <1>t DEF Call, Go, conv, guard, driver, service, consumer, ghosts, OnceInv,
       SignalledOnce
  <1>13. CASE Retry
    BY <1>13, <1>t DEF Retry, Go, conv, guard, driver, service, consumer, ghosts, OnceInv,
       SignalledOnce
  <1>14. CASE ForcedSignal
    BY <1>14, <1>t DEF ForcedSignal, Signal, ShouldEmit, conv, guard, driver, service,
       consumer, ghosts, OnceInv, SignalledOnce
  <1>15. CASE Hold
    BY <1>15, <1>t DEF Hold, Go, conv, guard, driver, service, consumer, ghosts, OnceInv,
       SignalledOnce
  <1>16. CASE Decide
    BY <1>16, <1>t DEF Decide, Signal, ShouldEmit, conv, guard, driver, service, consumer,
       ghosts, OnceInv, SignalledOnce
  <1>17. CASE Dispatch
    <2>1. claimed' \subseteq claimed \cup {sig.v} /\ sig' = sig /\ pc' = "mark" /\ pc = "dispatch"
      BY <1>17 DEF Dispatch, Go
    <2>2. sig.v <= len /\ len' = len /\ emitted' = emitted
      BY <1>17 DEF Dispatch, Go, conv, guard, BaseInv
    <2> QED BY <1>t, <2>1, <2>2 DEF OnceInv, SignalledOnce
  <1>18. CASE Mark
    BY <1>18, <1>t DEF Mark, Go, conv, guard, driver, service, consumer, ghosts, BaseInv,
       OnceInv, SignalledOnce
  <1>19. CASE Reply
    <2>1. len' = len \/ len' = len + 1
      BY <1>19 DEF Reply, Appends, conv
    <2> QED BY <1>19, <1>t, <2>1 DEF Reply, Go, guard, ghosts, OnceInv, SignalledOnce
  <1>20. CASE Tools
    <2>1. len' = len \/ len' = len + 1
      BY <1>20 DEF Tools, Appends, conv
    <2> QED BY <1>20, <1>t, <2>1 DEF Tools, Go, guard, ghosts, OnceInv, SignalledOnce
  <1>21. CASE Finish
    <2>1. len' = len \/ len' = len + 1
      BY <1>21 DEF Finish, Appends, conv
    <2> QED BY <1>21, <1>t, <2>1 DEF Finish, Go, guard, ghosts, OnceInv, SignalledOnce
  <1>22. CASE PickUp
    BY <1>22, <1>t DEF PickUp, conv, guard, driver, service, consumer, ghosts, OnceInv,
       SignalledOnce
  <1>23. CASE \E r \in runs : RunCompletes(r)
    BY <1>23, <1>t DEF RunCompletes, Publish, Plain, Event, conv, guard, driver, service,
       consumer, ghosts, OnceInv, SignalledOnce
  <1>24. CASE \E r \in runs : RunFails(r)
    BY <1>24, <1>t DEF RunFails, Publish, Plain, Event, conv, guard, driver, service,
       consumer, ghosts, OnceInv, SignalledOnce
  <1>25. CASE \E r \in runs : RunVanishes(r)
    BY <1>25, <1>t DEF RunVanishes, Use, conv, guard, driver, service, consumer, ghosts,
       OnceInv, SignalledOnce
  <1>26. CASE \E v \in recent : Evict(v)
    BY <1>26, <1>t DEF Evict, Use, conv, guard, driver, service, consumer, ghosts, OnceInv,
       SignalledOnce
  <1>27. CASE Land
    <2>1. len' \in Nat /\ len' > len
      <3>1. Head(events) = events[1] /\ 1 \in 1..Len(events) /\ Head(events) \in BusEvent
        BY <1>27, <1>t, Received DEF Land, Receive
      <3>2. Head(events).batch \in Nat /\ Head(events).batch >= 1
        BY <1>27, <3>1 DEF Land, Receive, BusEvent, BaseInv
      <3> QED BY <1>27, <1>t, <3>2 DEF Land
    <2>2. claimed' = claimed /\ pc' = pc /\ sig' = sig /\ emitted' = emitted
      BY <1>27 DEF Land, driver
    <2> QED BY <1>t, <2>1, <2>2 DEF OnceInv, SignalledOnce
  <1>28. CASE Discard
    BY <1>28, <1>t DEF Discard, Receive, EndFlight, CheckAnchor, Plain, Event, conv, guard,
       driver, service, consumer, ghosts, OnceInv, SignalledOnce
  <1>29. CASE NoteBudget
    BY <1>29, <1>t DEF NoteBudget, conv, guard, driver, service, consumer, ghosts, OnceInv,
       SignalledOnce
  <1>30. CASE Release
    BY <1>30, <1>t DEF Release, Receive, EndFlight, conv, guard, driver, service, consumer,
       ghosts, OnceInv, SignalledOnce
  <1>31. CASE Writeback
    BY <1>31, <1>t DEF Writeback, Receive, CheckAnchor, Arrive, Appends, conv, guard,
       driver, service, consumer, ghosts, OnceInv, SignalledOnce
  <1>32. CASE Lag
    BY <1>32, <1>t DEF Lag, Use, conv, guard, driver, service, consumer, ghosts, OnceInv,
       SignalledOnce
  <1>33. CASE NestedStarts
    BY <1>33, <1>t DEF NestedStarts, Use, conv, guard, driver, service, consumer, ghosts,
       OnceInv, SignalledOnce
  <1>34. CASE \E a \in nested : NestedReplies(a)
    BY <1>34, <1>t DEF NestedReplies, Publish, Plain, Event, conv, guard, driver, service,
       consumer, ghosts, OnceInv, SignalledOnce
  <1>35. CASE Pause
    BY <1>35, <1>t DEF Pause, Use, conv, guard, driver, service, consumer, ghosts, OnceInv,
       SignalledOnce
  <1>36. CASE Resume
    BY <1>36, <1>t DEF Resume, conv, guard, driver, service, consumer, ghosts, OnceInv,
       SignalledOnce
  <1>37. CASE UNCHANGED vars
    BY <1>37, <1>t DEF vars, OnceInv, SignalledOnce
  <1> QED BY <1>1, <1>2, <1>3, <1>4, <1>5, <1>6, <1>7, <1>8, <1>9, <1>10, <1>11, <1>12,
     <1>13, <1>14, <1>15, <1>16, <1>17, <1>18, <1>19, <1>20, <1>21, <1>22, <1>23, <1>24,
     <1>25, <1>26, <1>27, <1>28, <1>29, <1>30, <1>31, <1>32, <1>33, <1>34, <1>35, <1>36,
     <1>37 DEF Next, Driver, RunEnds, Consume, Faults, Environment

\* A version is always signalled at most once: the emission guard of the ledger
\* keeps every dispatch away from a version that the service was given before.
THEOREM AlwaysSignalledOnce == Spec => []SignalledOnce
  <1> DEFINE Inv == TypeOK /\ BaseInv /\ OnceInv
  <1>1. Init => Inv
    BY TypeInit, BaseInit, OnceInit
  <1>2. Inv /\ [Next]_vars => Inv'
    BY TypeStep, BaseStep, OnceStep
  <1>3. Inv => SignalledOnce
    BY DEF OnceInv
  <1> QED BY <1>1, <1>2, <1>3, PTL DEF Spec

-----------------------------------------------------------------------------
(* The flight that the next iteration waits on.                            *)

Served(v) == Coming(v) \/ v \in recent \cup lost \/ ~up

FlightInv ==
  /\ FlightServed
  /\ pc = "mark" /\ Taker /\ sig.v = len => Served(len)
  /\ \A i \in 1..Len(events) :
       /\ events[i].kind = "failed" => events[i].v \in recent \cup lost
       /\ events[i].kind = "discarded" => events[i].v < len

LEMMA FlightInit == Init => FlightInv
  BY DEF Init, FlightInv, FlightServed

LEMMA FlightStep == TypeOK /\ BaseInv /\ FlightInv /\ [Next]_vars => FlightInv'
  <1> SUFFICES ASSUME TypeOK, BaseInv, FlightInv, [Next]_vars PROVE FlightInv'
    OBVIOUS
  <1>t. /\ len \in Nat \ {0} /\ flight \in Nat /\ emitted \in Nat /\ at \in Nat
        /\ sig.v \in Nat /\ sig.snap \in Nat /\ events \in Seq(BusEvent)
        /\ runs \subseteq Run /\ claimed \subseteq Nat /\ late \subseteq Nat
    BY DEF TypeOK
  <1>e. /\ \A i \in 1..Len(events) : events[i].v \in Nat /\ events[i].snap \in Nat
        /\ \A r \in runs : r.v \in Nat /\ r.snap \in Nat
    <2>1. \A i \in 1..Len(events) : events[i] \in BusEvent
      BY <1>t
    <2>2. \A e \in BusEvent : e.v \in Nat /\ e.snap \in Nat
      BY DEF BusEvent
    <2>3. \A r \in Run : r.v \in Nat /\ r.snap \in Nat
      BY DEF Run
    <2> QED BY <1>t, <2>1, <2>2, <2>3
  <1>1. CASE LoopHead
    <2>1. len' = len \/ len' = len + 1
      BY <1>1 DEF LoopHead, Appends, conv
    <2>2. len' = len + 1 => flight' # len'
      BY <1>1, <1>t DEF LoopHead, guard, BaseInv
    <2>3. \A i \in 1..Len(events) : events[i].kind = "discarded" => events[i].v < len'
      BY <1>t, <1>e, <2>1 DEF FlightInv
    <2> QED BY <1>1, <2>1, <2>2, <2>3 DEF LoopHead, Go, guard, service, consumer, FlightInv, FlightServed,
        Served, Coming
  <1>2. CASE Exhaust
    BY <1>2, <1>t DEF Exhaust, Go, conv, guard, driver, service, consumer, ghosts,
       FlightInv, FlightServed, Served, Coming
  <1>3. CASE Iterate
    BY <1>3, <1>t DEF Iterate, Interrupted, Go, conv, guard, driver, service, consumer,
       ghosts, FlightInv, FlightServed, Served, Coming
  <1>4. CASE Gate
    BY <1>4, <1>t DEF Gate, conv, guard, driver, service, consumer, ghosts, FlightInv,
       FlightServed, Served, Coming
  <1>5. CASE Scan
    BY <1>5, <1>t DEF Scan, Park, Go, conv, guard, driver, service, consumer, ghosts,
       FlightInv, FlightServed, Served, Coming
  <1>6. CASE Settle
    BY <1>6, <1>t DEF Settle, Park, Go, conv, guard, driver, service, consumer, ghosts,
       FlightInv, FlightServed, Served, Coming
  <1>7. CASE SettleTimeout
    BY <1>7, <1>t DEF SettleTimeout, Park, conv, guard, driver, service, consumer, ghosts,
       FlightInv, FlightServed, Served, Coming
  <1>8. CASE Parked
    <2>1. pc' # "mark"
      BY <1>8 DEF Parked, Interrupted, Go, TypeOK
    <2> QED BY <1>8, <2>1 DEF Parked, conv, guard, service, consumer, FlightInv, FlightServed, Served, Coming
  <1>9. CASE Escalate
    BY <1>9, <1>t DEF Escalate, Go, conv, guard, driver, service, consumer, ghosts,
       FlightInv, FlightServed, Served, Coming
  <1>10. CASE ResetStreak
    BY <1>10, <1>t DEF ResetStreak, Park, conv, guard, driver, service, consumer, ghosts,
       FlightInv, FlightServed, Served, Coming
  <1>11. CASE Build
    BY <1>11, <1>t DEF Build, Use, conv, guard, driver, service, consumer, ghosts,
       FlightInv, FlightServed, Served, Coming
  <1>12. CASE Call
    BY <1>12, <1>t DEF Call, Go, conv, guard, driver, service, consumer, ghosts, FlightInv,
       FlightServed, Served, Coming
  <1>13. CASE Retry
    BY <1>13, <1>t DEF Retry, Go, conv, guard, driver, service, consumer, ghosts,
       FlightInv, FlightServed, Served, Coming
  <1>14. CASE ForcedSignal
    BY <1>14, <1>t DEF ForcedSignal, Signal, ShouldEmit, conv, guard, driver, service,
       consumer, ghosts, FlightInv, FlightServed, Served, Coming
  <1>15. CASE Hold
    BY <1>15, <1>t DEF Hold, Go, conv, guard, driver, service, consumer, ghosts, FlightInv,
       FlightServed, Served, Coming
  <1>16. CASE Decide
    <2>1. flight' # len'
      BY <1>16, <1>t DEF Decide, conv
    <2> QED BY <1>16, <2>1 DEF Decide, conv, service, consumer, FlightInv, FlightServed, Served, Coming
  <1>17. CASE Dispatch
    <2>1. /\ Taker => \E r \in runs' : r.v = sig.v
          /\ runs \subseteq runs'
      <3> DEFINE r == [v |-> sig.v, snap |-> sig.snap,
                       st |-> IF Routed THEN "mailed" ELSE "running"]
      <3>1. (Taker /\ (Routed \/ ~Handled(sig.v))) => runs' = runs \cup {r}
        BY <1>17 DEF Dispatch
      <3>2. ~(Taker /\ (Routed \/ ~Handled(sig.v))) => runs' = runs
        BY <1>17 DEF Dispatch
      <3>3. r.v = sig.v
        OBVIOUS
      <3> HIDE DEF r
      <3>4. Handled(sig.v) => \E x \in runs : x.v = sig.v
        BY DEF Handled
      <3> QED BY <3>1, <3>2, <3>3, <3>4
    <2> QED BY <1>17, <2>1 DEF Dispatch, Go, conv, guard, consumer, FlightInv, FlightServed, Served, Coming
  <1>18. CASE Mark
    <2>1. flight' = len => flight = len \/ (Taker /\ sig.v = len)
      BY <1>18 DEF Mark
    <2> QED BY <1>18, <2>1 DEF Mark, Go, conv, service, consumer, FlightInv, FlightServed, Served, Coming
  <1>19. CASE Reply
    <2>1. len' = len \/ len' = len + 1
      BY <1>19 DEF Reply, Appends, conv
    <2>2. len' = len + 1 => flight' # len'
      BY <1>19, <1>t DEF Reply, guard, BaseInv
    <2>3. \A i \in 1..Len(events) : events[i].kind = "discarded" => events[i].v < len'
      BY <1>t, <1>e, <2>1 DEF FlightInv
    <2> QED BY <1>19, <2>1, <2>2, <2>3 DEF Reply, Go, guard, service, consumer, FlightInv, FlightServed,
        Served, Coming
  <1>20. CASE Tools
    <2>1. len' = len \/ len' = len + 1
      BY <1>20 DEF Tools, Appends, conv
    <2>2. len' = len + 1 => flight' # len'
      BY <1>20, <1>t DEF Tools, guard, BaseInv
    <2>3. \A i \in 1..Len(events) : events[i].kind = "discarded" => events[i].v < len'
      BY <1>t, <1>e, <2>1 DEF FlightInv
    <2> QED BY <1>20, <2>1, <2>2, <2>3 DEF Tools, Go, guard, service, consumer, FlightInv, FlightServed,
        Served, Coming
  <1>21. CASE Finish
    <2>1. len' = len \/ len' = len + 1
      BY <1>21 DEF Finish, Appends, conv
    <2>2. len' = len + 1 => flight' # len'
      BY <1>21, <1>t DEF Finish, guard, BaseInv
    <2>3. \A i \in 1..Len(events) : events[i].kind = "discarded" => events[i].v < len'
      BY <1>t, <1>e, <2>1 DEF FlightInv
    <2> QED BY <1>21, <2>1, <2>2, <2>3 DEF Finish, Go, guard, service, consumer, FlightInv, FlightServed,
        Served, Coming
  <1>22. CASE PickUp
    <2> PICK r \in runs :
          /\ r.st = "mailed"
          /\ runs' = (runs \ {r}) \cup {x \in {[r EXCEPT !.st = "running"]} : ~Handled(r.v)}
      BY <1>22 DEF PickUp
    <2> DEFINE s == [r EXCEPT !.st = "running"]
    <2>1. s.v = r.v
      BY <1>t DEF Run
    <2>2. \A x \in runs : \E y \in runs' : y.v = x.v
      <3>1. CASE Handled(r.v)
        <4> PICK y \in runs : y.v = r.v /\ y.st = "running"
          BY <3>1 DEF Handled
        <4> y \in runs'
          OBVIOUS
        <4> QED OBVIOUS
      <3>2. CASE ~Handled(r.v)
        <4> s \in runs' /\ runs \ {r} \subseteq runs'
          BY <3>2
        <4> QED BY <2>1
      <3> QED BY <3>1, <3>2
    <2> QED BY <1>22, <2>2 DEF PickUp, conv, guard, driver, consumer, FlightInv, FlightServed, Served, Coming
  <1>23. CASE \E r \in runs : RunCompletes(r)
    <2> PICK r \in runs : RunCompletes(r)
      BY <1>23
    <2> PICK b \in Batches, fit \in {"over", "fits"} :
          Publish(Event("completed", r.v, r.snap, b, fit))
      BY DEF RunCompletes
    <2> DEFINE e == Event("completed", r.v, r.snap, b, fit)
    <2>1. e \in BusEvent /\ e.v = r.v /\ e.kind = "completed"
      BY <1>t, CompressionAssumption DEF Plain, Event, BusEvent, Kinds, Run, TypeOK
    <2>2. events' = Append(events, e)
      BY DEF RunCompletes, Publish
    <2> HIDE DEF e
    <2>3. /\ \A i \in 1..Len(events') : events'[i] = e \/ (i \in 1..Len(events) /\ events'[i] = events[i])
          /\ \A i \in 1..Len(events) : i \in 1..Len(events') /\ events'[i] = events[i]
          /\ Len(events') \in 1..Len(events') /\ events'[Len(events')] = e
      BY <1>t, <2>1, <2>2, Queued
    <2>4. Coming(len) => Coming(len)'
      BY <2>1, <2>3 DEF RunCompletes, conv, service, Coming
    <2> QED BY <2>1, <2>3, <2>4 DEF RunCompletes, conv, guard, driver, service, FlightInv, FlightServed, Served
  <1>24. CASE \E r \in runs : RunFails(r)
    <2> PICK r \in runs : RunFails(r)
      BY <1>24
    <2> DEFINE e == Plain("failed", r.v)
    <2>1. e \in BusEvent /\ e.v = r.v /\ e.kind = "failed"
      BY <1>t, CompressionAssumption DEF Plain, Event, BusEvent, Kinds, Run, TypeOK
    <2>2. events' = Append(events, e)
      BY DEF RunFails, Publish
    <2> HIDE DEF e
    <2>3. /\ \A i \in 1..Len(events') : events'[i] = e \/ (i \in 1..Len(events) /\ events'[i] = events[i])
          /\ \A i \in 1..Len(events) : i \in 1..Len(events') /\ events'[i] = events[i]
          /\ Len(events') \in 1..Len(events') /\ events'[Len(events')] = e
      BY <1>t, <2>1, <2>2, Queued
    <2>4. Coming(len) => Coming(len)'
      BY <2>1, <2>3 DEF RunFails, conv, service, Coming
    <2> QED BY <2>1, <2>3, <2>4 DEF RunFails, conv, guard, driver, service, FlightInv, FlightServed, Served
  <1>25. CASE \E r \in runs : RunVanishes(r)
    BY <1>25, <1>t DEF RunVanishes, Use, conv, guard, driver, service, consumer, ghosts,
       FlightInv, FlightServed, Served, Coming
  <1>26. CASE \E v \in recent : Evict(v)
    BY <1>26, <1>t DEF Evict, Use, conv, guard, driver, service, consumer, ghosts,
       FlightInv, FlightServed, Served, Coming
  <1>27. CASE Land
    <2>1. /\ Head(events) = events[1] /\ 1 \in 1..Len(events) /\ Head(events) \in BusEvent
          /\ Tail(events) \in Seq(BusEvent)
          /\ \A i \in 1..Len(Tail(events)) : Tail(events)[i] = events[i + 1] /\ i + 1 \in 1..Len(events)
      BY <1>27, <1>t, Received DEF Land, Receive
    <2>2. len' \in Nat /\ len' > len
      <3>1. Head(events).batch \in Nat /\ Head(events).batch >= 1
        BY <1>27, <2>1 DEF Land, Receive, BusEvent, BaseInv
      <3> QED BY <1>27, <1>t, <3>1 DEF Land
    <2>3. flight' # len'
      BY <1>27, <1>t, <2>2 DEF Land, EndFlight, BaseInv
    <2>4. events' = Tail(events) /\ pc' = pc /\ sig' = sig /\ recent' = recent /\ lost' = lost
      BY <1>27 DEF Land, driver, service
    <2>5. pc = "mark" => sig.v # len'
      BY <1>t, <2>2 DEF BaseInv
    <2>6. \A i \in 1..Len(events') :
            /\ events'[i].kind = "failed" => events'[i].v \in recent \cup lost
            /\ events'[i].kind = "discarded" => events'[i].v < len'
      BY <1>t, <1>e, <2>1, <2>2, <2>4 DEF FlightInv
    <2> QED BY <2>3, <2>4, <2>5, <2>6 DEF FlightInv, FlightServed
  <1>28. CASE Discard
    <2>1. /\ Head(events) = events[1] /\ 1 \in 1..Len(events) /\ Head(events) \in BusEvent
          /\ Tail(events) \in Seq(BusEvent)
          /\ \A i \in 1..Len(Tail(events)) : Tail(events)[i] = events[i + 1] /\ i + 1 \in 1..Len(events)
      BY <1>28, <1>t, Received DEF Discard, Receive
    <2> DEFINE d == Plain("discarded", Head(events).v)
    <2>2. d \in BusEvent /\ d.kind = "discarded" /\ d.v = Head(events).v
      BY <2>1 DEF Plain, Event, BusEvent, Kinds
    <2>3. Head(events).v <= len /\ Head(events).v # len /\ Head(events).v \in Nat
      BY <1>28, <2>1 DEF Discard, Receive, CheckAnchor, BusEvent, BaseInv
    <2>4. events' = Append(Tail(events), d)
      BY <1>28 DEF Discard
    <2> HIDE DEF d
    <2>5. \A i \in 1..Len(events') :
            events'[i] = d \/ (i + 1 \in 1..Len(events) /\ events'[i] = events[i + 1])
      BY <1>t, <2>1, <2>2, <2>4, Queued
    <2>b. \A i \in 2..Len(events) : i - 1 \in 1..Len(Tail(events)) /\ Tail(events)[i - 1] = events[i]
      BY <1>28, <1>t, Received DEF Discard, Receive
    <2>6. \A i \in 1..Len(events) : i # 1 => \E j \in 1..Len(events') : events'[j] = events[i]
      <3> SUFFICES ASSUME NEW i \in 1..Len(events), i # 1
                   PROVE  \E j \in 1..Len(events') : events'[j] = events[i]
        OBVIOUS
      <3>1. i - 1 \in 1..Len(Tail(events)) /\ Tail(events)[i - 1] = events[i]
        BY <1>t, <2>b
      <3>2. i - 1 \in 1..Len(events') /\ events'[i - 1] = Tail(events)[i - 1]
        BY <2>1, <2>2, <2>4, <3>1, Queued
      <3> QED BY <3>1, <3>2
    <2>7. Coming(len) => Coming(len)'
      <3> SUFFICES ASSUME Coming(len) PROVE Coming(len)'
        OBVIOUS
      <3>0. len' = len /\ runs' = runs
        BY <1>28 DEF Discard, conv, service
      <3>1. CASE \E r \in runs : r.v = len
        BY <3>0, <3>1 DEF Coming
      <3>2. CASE \E i \in 1..Len(events) : events[i].v = len /\ events[i].kind # "writeback"
        <4> PICK i \in 1..Len(events) : events[i].v = len /\ events[i].kind # "writeback"
          BY <3>2
        <4>1. PICK j \in 1..Len(events') : events'[j] = events[i]
          BY <2>1, <2>3, <2>6
        <4> QED BY <3>0, <4>1 DEF Coming
      <3> QED BY <3>1, <3>2 DEF Coming
    <2>8. flight' = len => flight = len
      BY <1>28, <1>t DEF Discard, EndFlight
    <2>9. \A i \in 1..Len(events') :
            /\ events'[i].kind = "failed" => events'[i].v \in recent \cup lost
            /\ events'[i].kind = "discarded" => events'[i].v < len
      BY <1>t, <2>2, <2>3, <2>5 DEF FlightInv
    <2> QED BY <1>28, <2>7, <2>8, <2>9 DEF Discard, conv, driver, service, FlightInv, FlightServed, Served
  <1>29. CASE NoteBudget
    BY <1>29, <1>t DEF NoteBudget, conv, guard, driver, service, consumer, ghosts,
       FlightInv, FlightServed, Served, Coming
  <1>30. CASE Release
    <2>1. /\ Head(events) = events[1] /\ 1 \in 1..Len(events) /\ Head(events) \in BusEvent
          /\ Tail(events) \in Seq(BusEvent)
          /\ \A i \in 1..Len(Tail(events)) : Tail(events)[i] = events[i + 1] /\ i + 1 \in 1..Len(events)
      BY <1>30, <1>t, Received DEF Release, Receive
    <2>b. \A i \in 2..Len(events) : i - 1 \in 1..Len(Tail(events)) /\ Tail(events)[i - 1] = events[i]
      BY <1>30, <1>t, Received DEF Release, Receive
    <2>2. events' = Tail(events) /\ len' = len /\ runs' = runs /\ recent' = recent /\ lost' = lost
          /\ pc' = pc /\ sig' = sig /\ up' = up
      BY <1>30 DEF Release, conv, driver, service
    <2>3. events[1].v = len => len \in recent \cup lost
      BY <1>30, <1>t, <1>e, <2>1 DEF Release, Receive, FlightInv
    <2>4. \A i \in 1..Len(events) : i # 1 => \E j \in 1..Len(events') : events'[j] = events[i]
      <3> SUFFICES ASSUME NEW i \in 1..Len(events), i # 1
                   PROVE  \E j \in 1..Len(events') : events'[j] = events[i]
        OBVIOUS
      <3>1. i \in 2..Len(events)
        BY <1>t
      <3> QED BY <2>2, <2>b, <3>1
    <2>5. Served(len) => Served(len)'
      <3>1. CASE \E r \in runs : r.v = len
        BY <2>2, <3>1 DEF Served, Coming
      <3>2. CASE \E i \in 1..Len(events) : events[i].v = len /\ events[i].kind # "writeback"
        <4> PICK i \in 1..Len(events) : events[i].v = len /\ events[i].kind # "writeback"
          BY <3>2
        <4>1. CASE i = 1
          BY <2>2, <2>3, <4>1 DEF Served
        <4>2. CASE i # 1
          <5>1. PICK j \in 1..Len(events') : events'[j] = events[i]
            BY <2>4, <4>2
          <5> QED BY <2>2, <5>1 DEF Served, Coming
        <4> QED BY <4>1, <4>2
      <3> QED BY <2>2, <3>1, <3>2 DEF Served, Coming
    <2>6. flight' = len => flight = len
      BY <1>30, <1>t DEF Release, EndFlight
    <2> QED BY <2>1, <2>2, <2>5, <2>6 DEF FlightInv, FlightServed, Served
  <1>31. CASE Writeback
    <2>1. /\ Head(events) = events[1] /\ 1 \in 1..Len(events) /\ Head(events) \in BusEvent
          /\ Tail(events) \in Seq(BusEvent)
          /\ \A i \in 1..Len(Tail(events)) : Tail(events)[i] = events[i + 1] /\ i + 1 \in 1..Len(events)
      BY <1>31, <1>t, Received DEF Writeback, Receive
    <2>b. \A i \in 2..Len(events) : i - 1 \in 1..Len(Tail(events)) /\ Tail(events)[i - 1] = events[i]
      BY <1>31, <1>t, Received DEF Writeback, Receive
    <2>2. events' = Tail(events) /\ runs' = runs /\ recent' = recent /\ lost' = lost
          /\ pc' = pc /\ sig' = sig /\ up' = up /\ flight' = flight
          /\ (len' = len \/ len' = len + 1)
      BY <1>31 DEF Writeback, Appends, conv, guard, driver, service
    <2>3. events[1].kind = "writeback"
      BY <1>31, <2>1 DEF Writeback, Receive
    <2>4. \A i \in 1..Len(events) : i # 1 => \E j \in 1..Len(events') : events'[j] = events[i]
      <3> SUFFICES ASSUME NEW i \in 1..Len(events), i # 1
                   PROVE  \E j \in 1..Len(events') : events'[j] = events[i]
        OBVIOUS
      <3>1. i \in 2..Len(events)
        BY <1>t
      <3> QED BY <2>2, <2>b, <3>1
    <2>5. len' = len => (Served(len) => Served(len)')
      <3> SUFFICES ASSUME len' = len, Served(len) PROVE Served(len)'
        OBVIOUS
      <3>1. CASE \E r \in runs : r.v = len
        BY <2>2, <3>1 DEF Served, Coming
      <3>2. CASE \E i \in 1..Len(events) : events[i].v = len /\ events[i].kind # "writeback"
        <4> PICK i \in 1..Len(events) : events[i].v = len /\ events[i].kind # "writeback"
          BY <3>2
        <4>1. PICK j \in 1..Len(events') : events'[j] = events[i]
          BY <2>3, <2>4
        <4> QED BY <2>2, <4>1 DEF Served, Coming
      <3> QED BY <2>2, <3>1, <3>2 DEF Served, Coming
    <2>6. len' = len + 1 => flight' # len' /\ (pc = "mark" => sig.v # len')
      BY <1>t, <2>2 DEF BaseInv
    <2>7. \A i \in 1..Len(events') :
            /\ events'[i].kind = "failed" => events'[i].v \in recent \cup lost
            /\ events'[i].kind = "discarded" => events'[i].v < len'
      BY <1>t, <1>e, <2>1, <2>2 DEF FlightInv
    <2> QED BY <2>2, <2>5, <2>6, <2>7 DEF FlightInv, FlightServed, Served
  <1>32. CASE Lag
    BY <1>32, <1>t DEF Lag, Use, conv, guard, driver, service, consumer, ghosts, FlightInv,
       FlightServed, Served, Coming
  <1>33. CASE NestedStarts
    BY <1>33, <1>t DEF NestedStarts, Use, conv, guard, driver, service, consumer, ghosts,
       FlightInv, FlightServed, Served, Coming
  <1>34. CASE \E a \in nested : NestedReplies(a)
    <2> PICK a \in nested : NestedReplies(a)
      BY <1>34
    <2> DEFINE e == Plain("writeback", a)
    <2>1. e \in BusEvent /\ e.kind = "writeback"
      BY <1>t, CompressionAssumption DEF Plain, Event, BusEvent, Kinds, Run, TypeOK
    <2>2. events' = Append(events, e)
      BY DEF NestedReplies, Publish
    <2> HIDE DEF e
    <2>3. /\ \A i \in 1..Len(events') : events'[i] = e \/ (i \in 1..Len(events) /\ events'[i] = events[i])
          /\ \A i \in 1..Len(events) : i \in 1..Len(events') /\ events'[i] = events[i]
          /\ Len(events') \in 1..Len(events') /\ events'[Len(events')] = e
      BY <1>t, <2>1, <2>2, Queued
    <2>4. Coming(len) => Coming(len)'
      BY <2>1, <2>3 DEF NestedReplies, conv, service, Coming
    <2> QED BY <2>1, <2>3, <2>4 DEF NestedReplies, conv, guard, driver, service, FlightInv, FlightServed, Served
  <1>35. CASE Pause
    BY <1>35, <1>t DEF Pause, Use, conv, guard, driver, service, consumer, ghosts,
       FlightInv, FlightServed, Served, Coming
  <1>36. CASE Resume
    BY <1>36, <1>t DEF Resume, conv, guard, driver, service, consumer, ghosts, FlightInv,
       FlightServed, Served, Coming
  <1>37. CASE UNCHANGED vars
    BY <1>37, <1>t DEF vars, FlightInv, FlightServed, Served, Coming
  <1> QED BY <1>1, <1>2, <1>3, <1>4, <1>5, <1>6, <1>7, <1>8, <1>9, <1>10, <1>11, <1>12,
     <1>13, <1>14, <1>15, <1>16, <1>17, <1>18, <1>19, <1>20, <1>21, <1>22, <1>23, <1>24,
     <1>25, <1>26, <1>27, <1>28, <1>29, <1>30, <1>31, <1>32, <1>33, <1>34, <1>35, <1>36,
     <1>37 DEF Next, Driver, RunEnds, Consume, Faults, Environment

\* The flight is always served: while it anchors the version of the
\* conversation, an answer is on its way or a failure is known, unless lost.
THEOREM FlightAlwaysServed == Spec => []FlightServed
  <1> DEFINE Inv == TypeOK /\ BaseInv /\ FlightInv
  <1>1. Init => Inv
    BY TypeInit, BaseInit, FlightInit
  <1>2. Inv /\ [Next]_vars => Inv'
    BY TypeStep, BaseStep, FlightStep
  <1>3. Inv => FlightServed
    BY DEF FlightInv
  <1> QED BY <1>1, <1>2, <1>3, PTL DEF Spec
=============================================================================
