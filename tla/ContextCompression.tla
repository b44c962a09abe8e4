------------------------ MODULE ContextCompression ------------------------
(***************************************************************************)
(* Context compression of an agent conversation.  The loop's driver emits  *)
(* a compression signal when a request nears the budget (or the provider   *)
(* refuses it as too long), the compression service runs a summary, the    *)
(* conversation's consumer applies the answer from the event bus, and the  *)
(* next iteration waits for an answer that is still out.                   *)
(*                                                                         *)
(* The conversation is behind a lock: one step per lock section.  Between  *)
(* two sections of the driver the consumer, the summary runs, nested       *)
(* agents and the control calls move.  A message is its place in the       *)
(* append-only history, so the ledger's version, which every append bumps, *)
(* is the length of the history; the view is a suffix of it.               *)
(*                                                                         *)
(* This is the single-summary strategy, and the forced path of every       *)
(* strategy.  Left out: block plans and the handoff document, token        *)
(* counts (a free choice), how the service trims a snapshot, boundary      *)
(* checkpoints, stop (AgentLoop has it).                                   *)
(***************************************************************************)
EXTENDS Integers, Sequences

CONSTANTS
  TailKeep,     \* messages kept visible beside a summary
  Batches,      \* sizes of the batch a summary run (or its fallback) returns
  Threshold,    \* STILL_OVER_BUDGET_ESCALATION_THRESHOLD
  Taker,        \* a hook registry takes the signal
  Routed,       \* the service hands the signal over on the bus
  MaxTurns,     \* bound: requests
  MaxExtras,    \* bound: inputs, pauses and nested agents together
  MaxLosses     \* bound: answers lost

ASSUME CompressionAssumption ==
  /\ TailKeep \in Nat /\ Threshold \in Nat \ {0} /\ Batches \subseteq Nat \ {0}
  /\ Taker \in BOOLEAN /\ Routed \in BOOLEAN
  /\ {MaxTurns, MaxExtras, MaxLosses} \subseteq Nat

VARIABLES
  len,       \* messages in the history, and the conversation's version
  from,      \* the view shows the messages from..len
  emitted,   \* last_emitted_version of the ledger, 0 for none
  flight,    \* version the compression flight anchors, 0 for none
  streak,    \* consecutive results that were still over budget
  paused,    \* the interruption watch holds a pause
  pc, at,    \* the driver's place; the version it has read
  back,      \* where a park continues when a resume has overtaken it
  sig,       \* the signal being emitted
  runs,      \* summary runs that have not ended
  events,    \* what the consumer has yet to receive
  note,      \* what the consumer has still to note about a landed result
  up,        \* the consumer receives events
  recent,    \* versions with a failure in the bus's recent events
  nested,    \* anchors of nested agents that have not answered
  used,      \* how much of the bounds is used
  claimed,   \* versions the service was given
  lost,      \* versions whose answer cannot come any more
  late,      \* messages the consumer appended while a request was out
  dropped    \* messages a landing hid that its snapshot did not hold

conv == <<len, from>>
guard == <<emitted, flight>>
driver == <<pc, at, back, sig>>
service == <<runs, recent, lost>>
consumer == <<events, note, up>>
ghosts == <<claimed, late, dropped>>
vars == <<len, from, emitted, flight, streak, paused, pc, at, back, sig, runs,
          events, note, up, recent, nested, used, claimed, lost, late, dropped>>

Pcs == {"start", "iterate", "gate", "scan", "wait", "parking", "check", "reset", "build",
        "call", "force", "decide", "dispatch", "mark", "after", "tools", "finish", "failed",
        "ended"}

Bounds == [turns |-> MaxTurns, extras |-> MaxExtras, losses |-> MaxLosses]
BoundNames == {"turns", "extras", "losses"}
Spare(what) == used[what] < Bounds[what]
Use(what) == used' = [used EXCEPT ![what] = @ + 1]

\* an event names the version it answers; a completed one carries the end of
\* its snapshot, the size of its batch and whether that is still over budget
Event(kind, v, snap, batch, fit) ==
  [kind |-> kind, v |-> v, snap |-> snap, batch |-> batch, fit |-> fit]
Plain(kind, v) == Event(kind, v, 0, 0, "fits")

Init ==
  /\ len = 1 /\ from = 1 /\ emitted = 0 /\ flight = 0 /\ streak = 0
  /\ paused = FALSE
  /\ pc = "start" /\ at = 0 /\ back = "check"
  /\ sig = [v |-> 0, snap |-> 0, path |-> "budget"]
  /\ runs = {} /\ recent = {} /\ lost = {}
  /\ events = <<>> /\ note = "none" /\ up = TRUE
  /\ nested = {} /\ used = [b \in BoundNames |-> 0]
  /\ claimed = {} /\ late = {} /\ dropped = {}

-----------------------------------------------------------------------------
(* The driver: one iteration, from the loop head to its tool results.      *)

\* the driver goes on; nothing else changes
Go(p, q) ==
  /\ pc = p /\ pc' = q
  /\ UNCHANGED <<at, back, sig>>

\* the driver appends k messages of its own
Appends(k) == len' = len + k /\ UNCHANGED from

\* the loop head: past the suspension gate, with or without a steering input
LoopHead ==
  /\ Go("start", "iterate") /\ ~paused
  /\ \/ UNCHANGED <<conv, used>>
     \/ Spare("extras") /\ Use("extras") /\ Appends(1)
  /\ UNCHANGED <<guard, streak, paused, service, consumer, nested, ghosts>>

\* max_iterations is reached
Exhaust ==
  /\ Go("start", "ended") /\ used["turns"] > 0
  /\ UNCHANGED <<conv, guard, streak, paused, service, consumer, nested, used, ghosts>>

\* an interruption check that finds a pause ends the iteration
Interrupted(p, q) == IF paused THEN Go(p, "start") ELSE Go(p, q)

\* the events of an iteration go to a sink, whose error fails the iteration
Iterate ==
  /\ Interrupted("iterate", "gate") \/ Go("iterate", "failed")
  /\ UNCHANGED <<conv, guard, streak, paused, service, consumer, nested, used, ghosts>>

\* settle_compression_flight: is an answer for this version out?
Gate ==
  /\ pc = "gate"
  /\ IF flight = len THEN pc' = "scan" /\ at' = len ELSE pc' = "check" /\ UNCHANGED at
  /\ UNCHANGED <<back, sig, conv, guard, streak, paused, service, consumer, nested, used, ghosts>>

\* a park: pause the loop; where to go on if a resume overtakes the pause
Park(p, on) ==
  /\ pc = p /\ pc' = "parking" /\ back' = on
  /\ paused' = TRUE
  /\ UNCHANGED <<at, sig>>

\* a failure that is already known parks at once
Scan ==
  /\ IF at \in recent THEN Park("scan", "check") ELSE Go("scan", "wait") /\ UNCHANGED paused
  /\ UNCHANGED <<conv, guard, streak, service, consumer, nested, used, ghosts>>

MutSettled == len # at

Settled == len # at \/ flight # at \/ at \in recent

\* the wait is over: go on with the new version, park on anything else
Settle ==
  /\ Settled
  /\ IF len # at THEN Go("wait", "check") /\ UNCHANGED paused ELSE Park("wait", "check")
  /\ UNCHANGED <<conv, guard, streak, service, consumer, nested, used, ghosts>>

\* the settle budget has elapsed
SettleTimeout ==
  /\ Park("wait", "check")
  /\ UNCHANGED <<conv, guard, streak, service, consumer, nested, used, ghosts>>

Parked ==
  /\ Interrupted("parking", back)
  /\ UNCHANGED <<conv, guard, streak, paused, service, consumer, nested, used, ghosts>>

\* results that never fit: read the streak, then forget it and park
Escalate ==
  /\ Go("check", IF streak >= Threshold THEN "reset" ELSE "build")
  /\ UNCHANGED <<conv, guard, streak, paused, service, consumer, nested, used, ghosts>>

ResetStreak ==
  /\ streak' = 0
  /\ Park("reset", "finish")
  /\ UNCHANGED <<conv, guard, service, consumer, nested, used, ghosts>>

\* build_agent_request over the view, which may fail
Build ==
  /\ pc = "build" /\ pc' \in {"call", "failed"} /\ at' = len
  /\ Spare("turns") /\ Use("turns")
  /\ UNCHANGED <<back, sig, conv, guard, streak, paused, service, consumer, nested, ghosts>>

\* the provider answers, refuses the length, or fails otherwise
Call ==
  /\ \/ Go("call", "decide") \/ Go("call", "force") \/ Go("call", "failed")
  /\ UNCHANGED <<conv, guard, streak, paused, service, consumer, nested, used, ghosts>>

\* the retry loop runs the iteration again or gives up
Retry ==
  /\ Go("failed", "iterate") \/ Go("failed", "ended")
  /\ UNCHANGED <<conv, guard, streak, paused, service, consumer, nested, used, ghosts>>

MutShouldEmit == TRUE

\* should_emit: the single-shot guard of the ledger
ShouldEmit == emitted # len

Signal(snap, path) == [v |-> len, snap |-> snap, path |-> path]

\* publish_forced_compression: the version of now, the messages of the request
ForcedSignal ==
  /\ pc = "force"
  /\ IF ShouldEmit THEN pc' = "dispatch" /\ sig' = Signal(at, "forced")
                   ELSE pc' = "failed" /\ UNCHANGED sig
  /\ UNCHANGED <<at, back, conv, guard, streak, paused, service, consumer, nested, used, ghosts>>

\* record_compaction_decision: under budget, or a flight is out
Hold ==
  /\ Go("decide", "after")
  /\ UNCHANGED <<conv, guard, streak, paused, service, consumer, nested, used, ghosts>>

\* over budget: no flight, or one that has expired and is released first
Decide ==
  /\ pc = "decide"
  /\ flight' = 0
  /\ IF ShouldEmit THEN pc' = "dispatch" /\ sig' = Signal(len, "budget")
                   ELSE pc' = "after" /\ UNCHANGED sig
  /\ UNCHANGED <<at, back, conv, emitted, streak, paused, service, consumer, nested, used, ghosts>>

\* a version is claimed while a run for it has not ended
Handled(v) == \E r \in runs : r.v = v /\ r.st = "running"

\* dispatch_compression_signal: the service claims the version and starts a
\* run, or hands the signal to the trigger listener
Dispatch ==
  /\ Go("dispatch", "mark")
  /\ IF Taker /\ (Routed \/ ~Handled(sig.v))
     THEN /\ runs' = runs \cup {[v |-> sig.v, snap |-> sig.snap, st |-> IF Routed THEN "mailed" ELSE "running"]}
          /\ claimed' = claimed \cup {sig.v}
     ELSE UNCHANGED <<runs, claimed>>
  /\ UNCHANGED <<conv, guard, streak, paused, recent, lost, consumer, nested, used, late, dropped>>

MutMark ==
  /\ Go("mark", IF sig.path = "forced" THEN "failed" ELSE "after")
  /\ emitted' = sig.v
  /\ flight' = IF Taker THEN len ELSE flight
  /\ UNCHANGED <<conv, streak, paused, service, consumer, nested, used, ghosts>>

\* mark_compression_emitted, and anchor the flight if somebody took the signal
Mark ==
  /\ Go("mark", IF sig.path = "forced" THEN "failed" ELSE "after")
  /\ emitted' = sig.v
  /\ flight' = IF Taker THEN sig.v ELSE flight
  /\ UNCHANGED <<conv, streak, paused, service, consumer, nested, used, ghosts>>

\* the reply enters the history unless a pause has arrived
Reply ==
  /\ IF paused
     THEN Go("after", "start") /\ UNCHANGED conv
     ELSE (\E q \in {"tools", "finish", "failed"} : Go("after", q)) /\ Appends(1)
  /\ UNCHANGED <<guard, streak, paused, service, consumer, nested, used, ghosts>>

\* so do the tool results; a failed round is retried with or without them
Tools ==
  /\ \/ Go("tools", "failed") /\ UNCHANGED conv
     \/ paused /\ Go("tools", "start") /\ UNCHANGED conv
     \/ ~paused /\ (\E q \in {"start", "finish", "failed"} : Go("tools", q)) /\ Appends(1)
  /\ UNCHANGED <<guard, streak, paused, service, consumer, nested, used, ghosts>>

\* the loop would stop here: a pause suspends it, a follow-up input keeps it going
Finish ==
  /\ \/ paused /\ Go("finish", "start") /\ UNCHANGED <<conv, used>>
     \/ ~paused /\ Go("finish", "start") /\ Spare("extras") /\ Use("extras") /\ Appends(1)
     \/ ~paused /\ Go("finish", "ended") /\ UNCHANGED <<conv, used>>
  /\ UNCHANGED <<guard, streak, paused, service, consumer, nested, ghosts>>

-----------------------------------------------------------------------------
(* The service and its summary runs.                                       *)

Publish(e) == events' = Append(events, e)

\* the listener picks a handed-over signal up, unless a run has its version
PickUp ==
  /\ \E r \in runs :
       /\ r.st = "mailed"
       /\ runs' = (runs \ {r}) \cup {x \in {[r EXCEPT !.st = "running"]} : ~Handled(r.v)}
  /\ UNCHANGED <<conv, guard, streak, paused, driver, recent, lost, consumer, nested, used, ghosts>>

\* a run ends with a summary or the degraded window of the fallback
RunCompletes(r) ==
  /\ r.st = "running" /\ runs' = runs \ {r}
  /\ \E b \in Batches, fit \in {"over", "fits"} : Publish(Event("completed", r.v, r.snap, b, fit))
  /\ UNCHANGED <<conv, guard, streak, paused, driver, recent, lost, note, up, nested, used, ghosts>>

\* every attempt has failed, or the listener shuts down
RunFails(r) ==
  /\ r.st = "running" /\ runs' = runs \ {r}
  /\ Publish(Plain("failed", r.v))
  /\ recent' = recent \cup {r.v}
  /\ UNCHANGED <<conv, guard, streak, paused, driver, lost, note, up, nested, used, ghosts>>

\* the run's task panics, or its handed-over signal is dropped
RunVanishes(r) ==
  /\ runs' = runs \ {r} /\ lost' = lost \cup {r.v}
  /\ Spare("losses") /\ Use("losses")
  /\ UNCHANGED <<conv, guard, streak, paused, driver, recent, consumer, nested, ghosts>>

\* newer events push a failure out of the recent ones
Evict(v) ==
  /\ recent' = recent \ {v} /\ lost' = lost \cup {v}
  /\ Spare("losses") /\ Use("losses")
  /\ UNCHANGED <<conv, guard, streak, paused, driver, runs, consumer, nested, ghosts>>

-----------------------------------------------------------------------------
(* The conversation's consumer of bus events.                              *)

MutMax2(m, n) == n

Max2(m, n) == IF m > n THEN m ELSE n

\* end_compression_flight: only the flight that anchors v
EndFlight(v) == flight' = IF flight = v THEN 0 ELSE flight

\* messages that arrive while a request is out
Arrive(n) == late' = IF pc \in {"call", "force"} THEN late \cup (len + 1)..(len + n) ELSE late

MutCheckAnchor(v) == TRUE

CheckAnchor(v) == v = len

Receive(kinds) ==
  /\ up /\ note = "none" /\ pc # "ended"
  /\ events # <<>> /\ Head(events).kind \in kinds

\* apply_compression: the batch enters the history, the view is its tail
Land ==
  LET e == Head(events)
      first == Max2(1, len + e.batch - TailKeep)
  IN
  /\ Receive({"completed"}) /\ CheckAnchor(e.v)
  /\ events' = Tail(events)
  /\ len' = len + e.batch /\ from' = first
  /\ EndFlight(e.v)
  /\ note' = e.fit
  /\ Arrive(e.batch)
  /\ dropped' = dropped \cup {m \in from..(first - 1) : e.snap < m /\ m <= len}
  /\ UNCHANGED <<emitted, streak, paused, driver, service, up, nested, used, claimed>>

\* a result for an older version: release its flight, publish the discard (in
\* sections of their own, but no later state has that version again)
Discard ==
  LET e == Head(events) IN
  /\ Receive({"completed"}) /\ ~CheckAnchor(e.v)
  /\ events' = Append(Tail(events), Plain("discarded", e.v))
  /\ EndFlight(e.v)
  /\ UNCHANGED <<conv, emitted, streak, paused, driver, service, note, up, nested, used, ghosts>>

\* after a landing: hold back the version that is still over budget
NoteBudget ==
  /\ note # "none" /\ note' = "none"
  /\ IF note = "over" THEN emitted' = len /\ streak' = streak + 1
                      ELSE streak' = 0 /\ UNCHANGED emitted
  /\ pc # "ended"
  /\ UNCHANGED <<conv, flight, paused, driver, service, events, up, nested, used, ghosts>>

\* failures and discards release the flight they name
Release ==
  /\ Receive({"failed", "discarded"})
  /\ events' = Tail(events)
  /\ EndFlight(Head(events).v)
  /\ UNCHANGED <<conv, emitted, streak, paused, driver, service, note, up, nested, used, ghosts>>

\* apply_versioned_writeback: the reply of a nested agent
Writeback ==
  /\ Receive({"writeback"})
  /\ events' = Tail(events)
  /\ IF CheckAnchor(Head(events).v) THEN Appends(1) /\ Arrive(1) ELSE UNCHANGED <<conv, late>>
  /\ UNCHANGED <<guard, streak, paused, driver, service, note, up, nested, used, claimed, dropped>>

\* the subscription lags behind the bus: its error ends the consumer
Lag ==
  /\ up /\ note = "none" /\ up' = FALSE
  /\ Spare("losses") /\ Use("losses")
  /\ UNCHANGED <<conv, guard, streak, paused, driver, service, events, note, nested, ghosts>>

-----------------------------------------------------------------------------
(* Nested agents and control calls.                                        *)

\* the event that opens or closes an iteration triggers a nested agent, which
\* keeps the event's anchor
NestedStarts ==
  /\ pc = "iterate" \/ (pc \in {"start", "finish"} /\ used["turns"] > 0)
  /\ nested' = nested \cup {len}
  /\ Spare("extras") /\ Use("extras")
  /\ UNCHANGED <<conv, guard, streak, paused, driver, service, consumer, ghosts>>

\* write_back_result
NestedReplies(a) ==
  /\ nested' = nested \ {a}
  /\ Publish(Plain("writeback", a))
  /\ UNCHANGED <<conv, guard, streak, paused, driver, service, note, up, used, ghosts>>

Pause ==
  /\ ~paused /\ paused' = TRUE
  /\ Spare("extras") /\ Use("extras")
  /\ UNCHANGED <<conv, guard, streak, driver, service, consumer, nested, ghosts>>

Resume ==
  /\ paused /\ paused' = FALSE
  /\ UNCHANGED <<conv, guard, streak, driver, service, consumer, nested, used, ghosts>>

-----------------------------------------------------------------------------
Driver ==
  \/ LoopHead \/ Exhaust \/ Iterate \/ Gate \/ Scan \/ Settle \/ SettleTimeout \/ Parked
  \/ Escalate \/ ResetStreak \/ Build \/ Call \/ Retry \/ ForcedSignal \/ Hold \/ Decide
  \/ Dispatch \/ Mark \/ Reply \/ Tools \/ Finish

RunEnds == \E r \in runs : RunCompletes(r) \/ RunFails(r)
Consume == Land \/ Discard \/ NoteBudget \/ Release \/ Writeback

Faults == (\E r \in runs : RunVanishes(r)) \/ (\E v \in recent : Evict(v)) \/ Lag

Environment == NestedStarts \/ (\E a \in nested : NestedReplies(a)) \/ Pause \/ Resume

Next == Driver \/ PickUp \/ RunEnds \/ Consume \/ Faults \/ Environment

Spec == Init /\ [][Next]_vars

\* tasks of the runtime keep running: every attempt of a run has a timeout,
\* and the driver polls; nothing is assumed of the settle budget
FairSpec == Spec /\ WF_vars(Settle) /\ WF_vars(PickUp) /\ WF_vars(RunEnds) /\ WF_vars(Consume)

-----------------------------------------------------------------------------
Run == [v : Nat, snap : Nat, st : {"mailed", "running"}]
Kinds == {"completed", "failed", "discarded", "writeback"}
BusEvent == [kind : Kinds, v : Nat, snap : Nat, batch : Nat, fit : {"over", "fits"}]

\* the state of the conversation, the driver, the service and the consumer
\* is well formed
TypeOK ==
  /\ len \in Nat \ {0} /\ from \in 1..len
  /\ emitted \in Nat /\ flight \in Nat /\ streak \in Nat /\ paused \in BOOLEAN
  /\ pc \in Pcs /\ at \in Nat /\ back \in {"check", "finish"}
  /\ sig \in [v : Nat, snap : Nat, path : {"budget", "forced"}]
  /\ runs \subseteq Run
  /\ events \in Seq(BusEvent) /\ note \in {"none", "over", "fits"} /\ up \in BOOLEAN
  /\ recent \subseteq Nat /\ nested \subseteq Nat /\ lost \subseteq Nat
  /\ used \in [BoundNames -> Nat]
  /\ claimed \subseteq Nat /\ late \subseteq Nat /\ dropped \subseteq Nat

\* Newer messages win: whatever a landing hides was in the snapshot its
\* signal carried, but for what the consumer itself appended while a
\* request was out (a refused request is summarised as it was sent, under the
\* version the conversation has by then).
NewerMessagesWin == dropped \subseteq late

\* The answer for version v is still on its way to the consumer
Coming(v) ==
  \/ \E r \in runs : r.v = v
  \/ \E i \in 1..Len(events) : events[i].v = v /\ events[i].kind # "writeback"

\* Nobody waits in vain: while the flight anchors the conversation's version,
\* which is what the next iteration waits on, an answer is on its way or a
\* failure is known, unless the answer was lost on the bus.
FlightServed == flight = len => Coming(len) \/ len \in recent \cup lost \/ ~up

\* A version is summarised at most once: no signal is dispatched for a
\* version that the service was given before, ended or not.
SignalledOnce == pc = "dispatch" => sig.v \notin claimed

\* A driver that waits for a compression goes on, without the help of the
\* settle budget, unless the answer was lost.
WaitEnds == pc = "wait" ~> (pc # "wait" \/ lost # {} \/ ~up)

-----------------------------------------------------------------------------
(* Refuted: what the repository says of the code and TLC finds violated.   *)

\* docs/analysis/context-compaction-design.md: the next round waits for the
\* compression to land.  The reply that follows a signal moves the version on,
\* so the gate does not wait and the summary is discarded as stale.
LandsBeforeRequest == pc = "build" => runs = {}

\* apply_compression: "newer messages win".  A write-back that lands during a
\* refused request is hidden by a summary that was not made from it.
NothingUnsummarised == dropped = {}
=============================================================================
