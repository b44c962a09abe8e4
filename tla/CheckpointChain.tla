-------------------------- MODULE CheckpointChain --------------------------
(***************************************************************************)
(* The checkpoint chain of ONE execution: the rows the checkpoint store    *)
(* keeps for it, the creators that append to it, the retention cleanup     *)
(* that removes from it, the restore that reads it, and the crashes and    *)
(* manual deletes in between.                                              *)
(*                                                                         *)
(* A creator is a task that awaits the store between any two of its reads  *)
(* and writes; every await is a step of its own, so creators, cleanups and *)
(* deletes interleave exactly where the code lets go of the thread.        *)
(*   Engine  creators follow the engine integrations: duplicate gate,      *)
(*           expected predecessor, build, predecessor check with one       *)
(*           rebuild, persist, retention.                                  *)
(*   Direct  creators follow the API: snapshot, build, persist; no gate,   *)
(*           no predecessor check and no retention policy.                 *)
(*                                                                         *)
(* The execution state is abstracted to two fields that a delta treats     *)
(* differently: `done`, how many nodes have a result (node results only    *)
(* accumulate), and `flag`, the value of a field that may come back to an  *)
(* earlier value (a variable, the status, the current node).               *)
(***************************************************************************)
EXTENDS Integers, FiniteSets, FiniteSetsExt, Sequences

CONSTANTS
  Engine, Direct,      \* the creators
  Interval,            \* min(baseline_interval, max_delta_chain_length)
  FullScan,            \* FULL_SCAN_INTERVAL of the cleanup
  MaxCheckpoints,      \* retention by count, 0 when not configured
  MaxAge,              \* retention by age, 0 when not configured
  Flags,               \* the values of `flag`; 0 is the initial one
  Lenient,             \* fail_on_checkpoint_error is Some(false)
  Rewind,              \* whether a restore may pick an older row
  MaxRows, MaxDone, MaxTime,  \* bounds: rows ever built, nodes, clock ticks
  MaxFaults, MaxDeletes       \* bounds: storage failures and crashes, deletes

Creators == Engine \cup Direct

ASSUME ChainAssumption ==
  /\ Engine \cap Direct = {}
  /\ Interval \in Nat \ {0}
  /\ FullScan \in Nat \ {0}
  /\ 0 \in Flags /\ Flags \subseteq Nat
  /\ Lenient \in BOOLEAN /\ Rewind \in BOOLEAN
  /\ {MaxCheckpoints, MaxAge, MaxRows, MaxDone, MaxTime, MaxFaults, MaxDeletes}
        \subseteq Nat
  /\ MaxTime >= 1

VARIABLES
  rows,       \* the store: row id -> row
  seqno,      \* the ids given out (uuid v7: increasing)
  now,        \* the checkpoint clock
  watermark,  \* cleanup metadata: newest surviving timestamp, or None
  runs,       \* cleanup metadata: cleanup run count
  live,       \* the live execution state
  job,        \* creator -> the locals of its call
  ack,        \* creator -> id its last call returned, 0 when it failed
  deleted,    \* ids removed through the API
  faults      \* storage failures and crashes so far

vars == <<rows, seqno, now, watermark, runs, live, job, ack, deleted, faults>>

None == -1
Ids == 1..MaxRows
State == [done : 0..MaxDone, flag : Flags]

(***************************************************************************)
(* A row carries the FULL snapshot or the DELTA (`done` = 0 and            *)
(* `flag` = None where the field did not change), its links, and the       *)
(* progress coordinates of the state it was built from.  `map` tells       *)
(* whether it carries a node result map of its own: a FULL row that has    *)
(* one, or a DELTA that brings the whole map because its base has none.    *)
(* The engine leaves an empty map out of a snapshot, the API does not.     *)
(***************************************************************************)
Row == [full : BOOLEAN, prev : 0..MaxRows, root : 0..MaxRows, pos : 0..MaxRows,
        ts : 1..MaxTime, done : 0..MaxDone, map : BOOLEAN,
        flag : {None} \cup Flags, coords : State]

Locals == {"idle", "merge", "expect", "latest", "build", "check", "chain",
           "save", "retain", "list", "apply"}

\* the row id lands with contents r, replacing what was there
Put(R, id, r) ==
  [i \in DOMAIN R \cup {id} |-> IF i = id THEN r ELSE R[i]]

Without(R, gone) == [i \in DOMAIN R \ gone |-> R[i]]

Latest(R) == IF DOMAIN R = {} THEN 0 ELSE Max(DOMAIN R)

-----------------------------------------------------------------------------
(***************************************************************************)
(* Chains.  RestoreChain(R, e) is the set of ids the walk along the        *)
(* previous links visits from e: it stops after a FULL row and at an id    *)
(* that has no row in R.                                                   *)
(***************************************************************************)
ClosedBack(R, S) ==
  \A i \in S \cap DOMAIN R : ~R[i].full => R[i].prev \in S

RestoreChain(R, e) ==
  {p \in 1..e : \A S \in SUBSET (1..e) : e \in S /\ ClosedBack(R, S) => p \in S}

\* restore succeeds: every row of the chain is there, down to a FULL one
Restorable(R, e) == e # 0 /\ RestoreChain(R, e) \subseteq DOMAIN R

\* mutant: the delta alone, without the snapshot it is relative to
MutRestoredDone(R, e) == R[e].done

\* The base snapshot with every delta of the chain applied in order: a whole
\* map replaces what was restored before it, other results are merged in.
RestoredDone(R, e) ==
  LET chain == RestoreChain(R, e)
      start == Max({i \in chain : R[i].full \/ R[i].map})
  IN  Max({R[i].done : i \in chain \ 0..(start - 1)})

RestoredFlag(R, e) ==
  R[Max({i \in RestoreChain(R, e) : R[i].flag # None})].flag
Restored(R, e) == [done |-> RestoredDone(R, e), flag |-> RestoredFlag(R, e)]

\* the nearest FULL row behind e, 0 when the walk meets a missing row
FindBase(R, e) ==
  IF Restorable(R, e) THEN CHOOSE i \in RestoreChain(R, e) : R[i].full ELSE 0

-----------------------------------------------------------------------------
(***************************************************************************)
(* Building a row.                                                         *)
(***************************************************************************)
FullRow(s, prev, map) ==
  [full |-> TRUE, prev |-> prev, root |-> 0, pos |-> 0, ts |-> now,
   done |-> s.done, map |-> map, flag |-> s.flag, coords |-> s]

\* the diff is taken against the chain base, whatever the deltas in between
DeltaRow(s, prev, map, base) ==
  [full |-> FALSE, prev |-> prev, root |-> 0, pos |-> 0, ts |-> now,
   done |-> IF s.done > base.done THEN s.done ELSE 0,
   map |-> map /\ ~base.map,
   flag |-> IF s.flag # base.flag THEN s.flag ELSE None, coords |-> s]

\* mutant: no fallback to FULL when the walk meets a missing row
MutBuildRow(R, prevPos, s, prev, map) ==
  IF prev = 0 \/ (prevPos + 1) % Interval = 0 THEN FullRow(s, prev, map)
  ELSE DeltaRow(s, prev, map, [done |-> 0, map |-> FALSE, flag |-> 0])

\* type by chain position of the predecessor metadata; FULL when no base
BuildRow(R, prevPos, s, prev, map) ==
  LET base == FindBase(R, prev)
  IN  IF prev = 0 \/ (prevPos + 1) % Interval = 0 \/ base = 0
        THEN FullRow(s, prev, map)
        ELSE DeltaRow(s, prev, map, R[base])

\* compute_chain_info: a FULL row heads its chain, a DELTA extends the chain
\* of its stored predecessor
WithChainInfo(R, id, r) ==
  [r EXCEPT !.root = IF r.full THEN id ELSE R[r.prev].root,
            !.pos = IF r.full THEN 0 ELSE R[r.prev].pos + 1]

-----------------------------------------------------------------------------
(***************************************************************************)
(* Retention.  The view of a cleanup run is every row on a full scan and   *)
(* the rows newer than the watermark otherwise.                            *)
(***************************************************************************)
\* mutant: only the very first run looks at every row
MutIsFullScan == watermark = None

IsFullScan == runs % FullScan = 0 \/ watermark = None

View == IF IsFullScan THEN rows
        ELSE Without(rows, {i \in DOMAIN rows : rows[i].ts <= watermark})

Expired(r) == now - r.ts > MaxAge

\* mutant: min_retention dropped, the newest row may be a candidate
MutCandidates(V, strategy) ==
  {i \in DOMAIN V :
     \/ strategy = "time" /\ Expired(V[i])
     \/ strategy = "count" /\ Cardinality({j \in DOMAIN V : j > i}) >= MaxCheckpoints}

\* min_retention is 1: the newest row is never a candidate
Candidates(V, strategy) ==
  {i \in DOMAIN V \ {Latest(V)} :
     \/ strategy = "time" /\ Expired(V[i])
     \/ strategy = "count" /\ Cardinality({j \in DOMAIN V : j > i}) >= MaxCheckpoints}

\* the ids on the restore chains of the deltas of V that are not in Gone
Needed(V, Gone) ==
  UNION {RestoreChain(V, V[i].prev) : i \in {j \in DOMAIN V \ Gone : ~V[j].full}}

ChainGroup(V, cand) == {i \in cand : V[i].root # i /\ V[i].root \notin cand}

\* mutant: no dependency protection
MutRemoval(V, strategy) == Candidates(V, strategy)

Removal(V, strategy) ==
  LET cand == Candidates(V, strategy)
      kept == cand \ (Needed(V, cand) \cup ChainGroup(V, cand))
  IN  (kept \ Needed(V, kept)) \ {Latest(V)}

\* mutant: an empty incremental view resets the watermark to zero
MutNextWatermark(V, cut) ==
  LET left == DOMAIN V \ cut
  IN  IF left # {} THEN Max({V[i].ts : i \in left}) ELSE 0

NextWatermark(V, cut) ==
  LET left == DOMAIN V \ cut
  IN  IF left # {} THEN Max({V[i].ts : i \in left}) ELSE watermark

Strategies == (IF MaxCheckpoints > 0 THEN <<"count">> ELSE <<>>)
                \o (IF MaxAge > 0 THEN <<"time">> ELSE <<>>)

RetentionExceeded ==
  \/ MaxCheckpoints > 0 /\ Cardinality(DOMAIN rows) > MaxCheckpoints
  \/ MaxAge > 0 /\ rows # <<>> /\ Expired(rows[Min(DOMAIN rows)])

-----------------------------------------------------------------------------
Origin == [done |-> 0, flag |-> 0]

NoRow == [full |-> TRUE, prev |-> 0, root |-> 0, pos |-> 0, ts |-> 1,
          done |-> 0, map |-> FALSE, flag |-> 0, coords |-> Origin]

NoJob == [pc |-> "idle", want |-> 0, calm |-> FALSE, exp |-> 0, retried |-> FALSE,
          snap |-> Origin, prev |-> 0, pos |-> 0, id |-> 0, draft |-> NoRow,
          todo |-> <<>>, cut |-> {}, mark |-> None, scan |-> FALSE]

Job == [pc : Locals, want : 0..MaxDone, calm : BOOLEAN, exp : Nat,
        retried : BOOLEAN, snap : State, prev : 0..MaxRows, pos : 0..MaxRows,
        id : 0..MaxRows, draft : Row, todo : Seq({"count", "time"}),
        cut : SUBSET Ids, mark : {None} \cup 1..MaxTime, scan : BOOLEAN]

Init ==
  /\ rows = <<>>
  /\ seqno = 0
  /\ now = 1
  /\ watermark = None
  /\ runs = 0
  /\ live = Origin
  /\ job = [c \in Creators |-> NoJob]
  /\ ack = [c \in Creators |-> 0]
  /\ deleted = {}
  /\ faults = 0

-----------------------------------------------------------------------------
(***************************************************************************)
(* The steps of a call.  At(c, p) is the guard of a step, Go(c, j) its     *)
(* next locals; a call ends with Return: the id it hands to its caller, or *)
(* 0 for an error.  Fault is the store failing this one read or write, or  *)
(* every read of the step where it makes two.                              *)
(***************************************************************************)
At(c, p) == job[c].pc = p
Go(c, j) == job' = [job EXCEPT ![c] = j]
To(c, p) == Go(c, [job[c] EXCEPT !.pc = p])
Return(c, id) ==
  /\ Go(c, NoJob)
  /\ ack' = [ack EXCEPT ![c] = id]

Fault == faults < MaxFaults /\ faults' = faults + 1

store == <<rows, watermark, runs>>
world == <<seqno, now, live, deleted>>

\* A call begins.  The API takes its snapshot first; the engine asks the
\* duplicate gate, which is fail-open when the store cannot be read.
CallDirect(c) ==
  /\ c \in Direct /\ At(c, "idle") /\ seqno < MaxRows
  /\ Go(c, [NoJob EXCEPT !.pc = "latest", !.want = live.done,
                         !.calm = TRUE, !.snap = live])
  /\ ack' = [ack EXCEPT ![c] = 0]
  /\ UNCHANGED <<store, world, faults>>

CallEngine(c) ==
  /\ c \in Engine /\ At(c, "idle") /\ seqno < MaxRows
  /\ LET j == [NoJob EXCEPT !.want = live.done, !.calm = TRUE]
         l == Latest(rows)
         dup == l # 0 /\ rows[l].coords = live
     IN  \/ ~dup /\ Go(c, [j EXCEPT !.pc = "expect"])
            /\ ack' = [ack EXCEPT ![c] = 0] /\ UNCHANGED faults
         \/ dup /\ Fault /\ Go(c, [j EXCEPT !.pc = "expect"])
            /\ ack' = [ack EXCEPT ![c] = 0]
         \/ dup /\ Go(c, NoJob) /\ ack' = [ack EXCEPT ![c] = l]
            /\ UNCHANGED faults                   \* same or no description
         \/ dup /\ Go(c, [j EXCEPT !.pc = "merge", !.id = l, !.draft = rows[l]])
            /\ ack' = [ack EXCEPT ![c] = 0] /\ UNCHANGED faults
  /\ UNCHANGED <<store, world>>

\* merge_description_back: the loaded row is saved again under its id, with
\* the chain fields recomputed; a vanished predecessor refuses the save
Merge(c) ==
  /\ At(c, "merge")
  /\ LET r == job[c].draft
     IN  \/ /\ r.full \/ r.prev \in DOMAIN rows
            /\ rows' = Put(rows, job[c].id, WithChainInfo(rows, job[c].id, r))
            /\ Return(c, job[c].id) /\ UNCHANGED faults
         \/ /\ ~r.full /\ r.prev \notin DOMAIN rows
            /\ Return(c, 0) /\ UNCHANGED <<rows, faults>>
         \/ Fault /\ Return(c, 0) /\ UNCHANGED rows
  /\ UNCHANGED <<watermark, runs, world>>

\* expected = get_latest().ok().flatten(), then the snapshot
Expect(c) ==
  /\ At(c, "expect")
  /\ \/ /\ Go(c, [job[c] EXCEPT !.pc = "latest", !.exp = Latest(rows), !.snap = live])
        /\ UNCHANGED faults
     \/ /\ Fault
        /\ Go(c, [job[c] EXCEPT !.pc = "latest", !.exp = 0, !.snap = live])
  /\ UNCHANGED <<store, world, ack>>

\* Build reads its own predecessor.  A failed build is the call's error; a
\* failed REbuild answers with the latest row, or goes on with the first draft
\* when there is none or it cannot be read either.
ReadLatest(c) ==
  /\ At(c, "latest")
  /\ LET l == Latest(rows)
     IN  \/ /\ Go(c, [job[c] EXCEPT !.pc = "build", !.prev = l,
                        !.pos = IF l = 0 THEN 0 ELSE rows[l].pos])
            /\ UNCHANGED <<ack, faults>>
         \/ Fault /\ ~job[c].retried /\ Return(c, 0)
         \/ Fault /\ job[c].retried /\ l # 0 /\ Return(c, l)
         \/ Fault /\ job[c].retried /\ To(c, "check") /\ UNCHANGED ack
  /\ UNCHANGED <<store, world>>

\* then it walks to the base, diffs and gives the id; the code stamps the time,
\* which orders the rows, before the walk (README)
Build(c) ==
  /\ At(c, "build") /\ seqno < MaxRows
  /\ seqno' = seqno + 1
  /\ Go(c, [job[c] EXCEPT
       !.pc = IF c \in Direct THEN "chain" ELSE "check",
       !.id = seqno + 1,
       !.draft = BuildRow(rows, job[c].pos, job[c].snap, job[c].prev,
                          c \in Direct \/ job[c].snap.done > 0)])
  /\ UNCHANGED <<store, now, live, deleted, ack, faults>>

\* The predecessor check: a moved (or unreadable) head rebuilds once from a
\* fresh snapshot; the second check compares with the FIRST expectation and
\* its failure returns the id of the latest row, when there is one that can be
\* read; otherwise the draft is persisted all the same.
Check(c) ==
  /\ At(c, "check")
  /\ LET l == Latest(rows)
         moved == l # job[c].exp
         conflict ==
           IF ~job[c].retried
             THEN /\ Go(c, [job[c] EXCEPT !.pc = "latest", !.retried = TRUE, !.snap = live])
                  /\ UNCHANGED ack
             ELSE IF l # 0 THEN Return(c, l) ELSE To(c, "chain") /\ UNCHANGED ack
     IN  \/ ~moved /\ To(c, "chain") /\ UNCHANGED <<ack, faults>>
         \/ moved /\ conflict /\ UNCHANGED faults
         \/ ~moved /\ Fault /\ conflict
         \/ Fault /\ job[c].retried /\ To(c, "chain") /\ UNCHANGED ack
  /\ UNCHANGED <<store, world>>

\* only engine creators carry a retention policy
Persisted(c) ==
  IF c \in Engine /\ Strategies # <<>>
    THEN To(c, "retain") /\ UNCHANGED ack
    ELSE Return(c, job[c].id)

\* A save that fails is the call's error; a lenient error handler of an engine
\* creator swallows it, and the call goes on without a row.
SaveFails(c) == IF Lenient /\ c \in Engine THEN Persisted(c) ELSE Return(c, 0)

\* save, first half: chain root and position from the stored predecessor
ChainInfo(c) ==
  /\ At(c, "chain")
  /\ LET d == job[c].draft
     IN  \/ /\ d.full \/ d.prev \in DOMAIN rows
            /\ Go(c, [job[c] EXCEPT !.pc = "save",
                 !.draft = WithChainInfo(rows, job[c].id, d)])
            /\ UNCHANGED <<ack, faults>>
         \/ ~d.full /\ d.prev \notin DOMAIN rows /\ SaveFails(c) /\ UNCHANGED faults
         \/ Fault /\ SaveFails(c)
  /\ UNCHANGED <<store, world>>

\* save, second half: the row lands
Save(c) ==
  /\ At(c, "save")
  /\ \/ rows' = Put(rows, job[c].id, job[c].draft) /\ Persisted(c) /\ UNCHANGED faults
     \/ Fault /\ SaveFails(c) /\ UNCHANGED rows
  /\ UNCHANGED <<watermark, runs, world>>

\* enforce_retention: the cheap gate; a failed read skips the cleanup
Retain(c) ==
  /\ At(c, "retain")
  /\ \/ /\ RetentionExceeded
        /\ Go(c, [job[c] EXCEPT !.pc = "list", !.todo = Strategies])
        /\ UNCHANGED <<ack, faults>>
     \/ ~RetentionExceeded /\ Return(c, job[c].id) /\ UNCHANGED faults
     \/ Fault /\ Return(c, job[c].id)
  /\ UNCHANGED <<store, world>>

\* the strategy at the head of todo is done (or failed: best effort)
NextStrategy(c) ==
  IF Len(job[c].todo) = 1
    THEN Return(c, job[c].id)
    ELSE /\ Go(c, [job[c] EXCEPT !.pc = "list", !.todo = Tail(@), !.cut = {}, !.mark = None])
         /\ UNCHANGED ack

\* execute_cleanup_for_entity, first half: list, load metadata, evaluate
CleanList(c) ==
  /\ At(c, "list")
  /\ \/ /\ LET cut == Removal(View, Head(job[c].todo))
           IN  IF rows = <<>>
                 THEN NextStrategy(c)
                 ELSE /\ Go(c, [job[c] EXCEPT !.pc = "apply", !.cut = cut,
                             !.mark = NextWatermark(View, cut), !.exp = runs,
                             !.scan = @ \/ IsFullScan])
                      /\ UNCHANGED ack
        /\ UNCHANGED faults
     \/ Fault /\ NextStrategy(c)
  /\ UNCHANGED <<store, world>>

\* second half: deletes, watermark and run count land in one batch
CleanApply(c) ==
  /\ At(c, "apply")
  /\ \/ /\ rows' = Without(rows, job[c].cut)
        /\ watermark' = job[c].mark
        /\ runs' = job[c].exp + 1
        /\ NextStrategy(c) /\ UNCHANGED faults
     \/ Fault /\ NextStrategy(c) /\ UNCHANGED store
  /\ UNCHANGED world

-----------------------------------------------------------------------------
(***************************************************************************)
(* The environment of the creators.                                        *)
(***************************************************************************)
\* a node completes and leaves its result
Progress ==
  /\ live.done < MaxDone
  /\ live' = [live EXCEPT !.done = @ + 1]
  /\ UNCHANGED <<store, seqno, now, deleted, job, ack, faults>>

\* a variable (or the status, or the cursor) changes, possibly back
Flip ==
  /\ \E v \in Flags \ {live.flag} : live' = [live EXCEPT !.flag = v]
  /\ UNCHANGED <<store, seqno, now, deleted, job, ack, faults>>

Tick ==
  /\ now < MaxTime
  /\ now' = now + 1
  /\ UNCHANGED <<store, seqno, live, deleted, job, ack, faults>>

\* the API deletes a row, whatever depends on it; the calls in flight are no
\* longer calm (which only the properties look at)
Delete(e) ==
  /\ Cardinality(deleted) < MaxDeletes
  /\ rows' = Without(rows, {e})
  /\ deleted' = deleted \cup {e}
  /\ job' = [c \in Creators |-> [job[c] EXCEPT !.calm = FALSE]]
  /\ UNCHANGED <<watermark, runs, seqno, now, live, ack, faults>>

\* mutant: the restore takes the oldest row that restores
MutCrash ==
  /\ Fault
  /\ LET good == {e \in DOMAIN rows : Restorable(rows, e)}
     IN  live' = IF good = {} THEN Origin
                 ELSE Restored(rows, Min(good))
  /\ job' = [c \in Creators |-> NoJob]
  /\ ack' = [c \in Creators |-> 0]
  /\ UNCHANGED <<store, seqno, now, deleted>>

\* The process dies with every call in flight and the execution is restored:
\* from the newest row that restores, from the row the caller named, or from
\* nothing when no row restores.
Crash ==
  /\ Fault
  /\ LET good == {e \in DOMAIN rows : Restorable(rows, e)}
     IN  \/ good = {} /\ live' = Origin
         \/ \E e \in good : /\ Rewind \/ e = Max(good)
                            /\ live' = Restored(rows, e)
  /\ job' = [c \in Creators |-> NoJob]
  /\ ack' = [c \in Creators |-> 0]
  /\ UNCHANGED <<store, seqno, now, deleted>>

Step(c) ==
  \/ CallDirect(c) \/ CallEngine(c) \/ Merge(c) \/ Expect(c) \/ ReadLatest(c)
  \/ Build(c) \/ Check(c) \/ ChainInfo(c) \/ Save(c) \/ Retain(c)
  \/ CleanList(c) \/ CleanApply(c)

Next ==
  \/ \E c \in Creators : Step(c)
  \/ \E e \in DOMAIN rows : Delete(e)
  \/ Progress \/ Flip \/ Tick \/ Crash

Spec == Init /\ [][Next]_vars

-----------------------------------------------------------------------------
(***************************************************************************)
(* Properties.                                                             *)
(***************************************************************************)
\* The variables hold what their declarations say; the ids of stored and of
\* deleted rows have been given out, and a chain position stays below the id.
TypeOK ==
  /\ DOMAIN rows \subseteq 1..seqno
  /\ \A e \in DOMAIN rows : rows[e] \in Row /\ rows[e].pos < e
  /\ seqno \in 0..MaxRows /\ now \in 1..MaxTime
  /\ watermark \in {None} \cup 1..MaxTime /\ runs \in Nat
  /\ live \in State
  /\ job \in [Creators -> Job]
  /\ ack \in [Creators -> 0..MaxRows]
  /\ deleted \subseteq 1..seqno /\ faults \in 0..MaxFaults

\* Retention and crashes never tear a chain: the predecessor of a stored
\* delta is stored too, unless somebody deleted it through the API
\* (CleanupExecutor::evaluate_protected, "a surviving delta must never lose
\* its base").
ChainIntact ==
  \A e \in DOMAIN rows :
    rows[e].full \/ rows[e].prev \in DOMAIN rows \/ rows[e].prev \in deleted

\* What a restore brings back is what the row recorded: replaying the chain
\* of a restorable row yields exactly the node results the execution had
\* when the row was built, however many deltas lie in between.
RestoresNodeResults ==
  \A e \in DOMAIN rows :
    Restorable(rows, e) => RestoredDone(rows, e) = rows[e].coords.done

\* No restorable row forgets a node result it recorded, whoever wrote the
\* rows of its chain and in whatever order they landed.
NoResultLost ==
  \A e \in DOMAIN rows :
    Restorable(rows, e) => RestoredDone(rows, e) >= rows[e].coords.done

\* The same for a field that may return to an earlier value.
RestoresFlag ==
  \A e \in DOMAIN rows :
    Restorable(rows, e) => RestoredFlag(rows, e) = rows[e].coords.flag

\* Retention overshoots its limit by a bounded number of rows: one partial
\* generation kept for its chain and what the incremental runs between two
\* full scans do not look at.  A failed run may cost one more, except that
\* with both limits configured a single failure swaps which of the two
\* strategies gets the full scans, and no bound is left for the other.
RetentionBounded ==
  MaxCheckpoints > 0 /\ (MaxAge = 0 \/ faults = 0) =>
    Cardinality(DOMAIN rows) <= MaxCheckpoints + Interval + FullScan - 1 + faults

\* Progress once durable stays durable: whatever cleanups, storage failures
\* and crashes do, the most advanced state that can be restored never moves
\* back; only a delete may cost one.
Best(R) == Max({0} \cup {R[e].coords.done : e \in {i \in DOMAIN R : Restorable(R, i)}})
DurableProgress ==
  [][(\E e \in DOMAIN rows : Delete(e)) \/ Best(rows') >= Best(rows)]_vars

Returns(c) == job[c].pc # "idle" /\ job'[c].pc = "idle" /\ ack'[c] # 0
Settled(c) == job[c].calm

\* A creation that answers with a new id has stored a row, and one that
\* restores: after a delete tore the chain the next row stands on its own
\* (find_base falls back to FULL, compute_chain_info refuses a lost link),
\* unless the delete falls into the creation itself.  A lenient error handler
\* answers with the id of a row that was never written.
NewRowRestores ==
  [][\A c \in Creators :
       Returns(c) /\ Settled(c) /\ ack'[c] = job[c].id /\ ~At(c, "merge") /\ ~Lenient
         => Restorable(rows', job[c].id)]_vars

-----------------------------------------------------------------------------
(***************************************************************************)
(* What comments of the code say and the model refutes; no run checks      *)
(* these, the README gives the constants that show each one violated.      *)
(***************************************************************************)
\* A creation that answers with an id has that id cover the state the caller
\* asked to save.
AckCovers ==
  [][\A c \in Creators :
       Returns(c) /\ Settled(c) /\ ack'[c] \in DOMAIN rows'
         => rows'[ack'[c]].coords.done >= job[c].want]_vars

\* Retention by age: once a full scan has run on behalf of a creation, the
\* rows still beyond max_age are the newest one and those whose generation
\* has a younger member.
AgeEnforced ==
  [][\A c \in Creators :
       Returns(c) /\ job[c].pc = "apply" /\ job[c].scan /\ faults' = faults =>
         \A e \in DOMAIN rows' :
           \/ ~Expired(rows'[e]) \/ e = Latest(rows')
           \/ \E f \in DOMAIN rows' :
                rows'[f].root = rows'[e].root /\ ~Expired(rows'[f])]_vars
=============================================================================
