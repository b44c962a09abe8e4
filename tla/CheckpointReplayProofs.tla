----------------------- MODULE CheckpointReplayProofs -----------------------
(***************************************************************************)
(* Theorems about what a restore brings back, what stays restorable, and   *)
(* how many rows retention leaves.                                         *)
(*                                                                         *)
(* The argument is a history H of every row ever built, as it was built    *)
(* and with the chain root it belongs to.  Rows come and go, a merge may   *)
(* bring a deleted one back, and a draft may wait in any call; but all of  *)
(* them are copies of what H records (Told).  H itself is sound: a delta   *)
(* shares the root of its predecessor and is relative to the FULL row at   *)
(* that root.  So every chain that restores replays one generation.        *)
(***************************************************************************)
EXTENDS CheckpointChainProofs

\* r is a copy of h, but for its chain coordinates
Same(r, h) ==
  /\ r.full = h.full /\ r.prev = h.prev /\ r.done = h.done
  /\ r.map = h.map /\ r.coords = h.coords

\* the delta r says what it must relative to the FULL row w
Relative(r, w) ==
  /\ w.full
  /\ r.coords.done > w.done => r.done = r.coords.done
  /\ r.map => ~w.map

\* row i of a history is what the builder makes of an execution state
SoundAt(H, i) ==
  /\ H[i].done \in {0, H[i].coords.done}
  /\ H[i].full => /\ H[i].root = i /\ H[i].done = H[i].coords.done
                  /\ H[i].done = 0 \/ H[i].map
  /\ ~H[i].full => /\ H[i].prev \in 1..(i - 1) /\ H[i].root \in 1..(i - 1)
                   /\ H[i].root = H[H[i].prev].root
                   /\ Relative(H[i], H[H[i].root])

\* a history of the ids up to n
Sound(H, n) == H \in [1..n -> Row] /\ \A i \in 1..n : SoundAt(H, i)

\* the rows of R are copies of the history's, roots included
Kept(R, H) == \A e \in DOMAIN R : Same(R[e], H[e]) /\ R[e].root = H[e].root

\* so is the draft of a call; its root is settled once the chain was looked up
JobKept(j, H) ==
  Drafts(j) => /\ Same(j.draft, H[j.id])
               /\ j.pc = "save" => j.draft.root = H[j.id].root

\* H tells all the rows of the store and of the calls in flight
Told(H) ==
  /\ Sound(H, seqno)
  /\ Kept(rows, H)
  /\ \A c \in Creators : JobKept(job[c], H)

\* there is such a history
Recorded == \E H : Told(H)

-----------------------------------------------------------------------------
\* A restorable row's chain is one generation: all its rows have the same root,
\* which is the only FULL row among them
LEMMA OneGeneration ==
  ASSUME NEW n \in Nat, NEW R, StoreOK(R, n), NEW H, Sound(H, n), Kept(R, H),
         NEW e \in DOMAIN R, Restorable(R, e)
  PROVE  /\ R[e].root \in RestoreChain(R, e) /\ R[R[e].root].full
         /\ \A i \in RestoreChain(R, e) : R[i].root = R[e].root
         /\ \A i \in RestoreChain(R, e) : R[i].full => i = R[e].root
  <1> DEFINE S == {p \in 1..e : p \in DOMAIN R => R[p].root = R[e].root}
  <1>1. e \in Nat \ {0} /\ DOMAIN R \subseteq 1..n /\ RestoreChain(R, e) \subseteq DOMAIN R
    BY DEF StoreOK, Restorable
  <1>2. S \in SUBSET (1..e) /\ e \in S
    BY <1>1
  <1>3. ClosedBack(R, S)
    <2> SUFFICES ASSUME NEW i \in S, i \in DOMAIN R, ~R[i].full PROVE R[i].prev \in S
      BY DEF ClosedBack
    <2>1. R[i].prev \in 1..(i - 1) /\ i \in 1..e /\ R[i].root = R[e].root
      BY DEF StoreOK, RowOK
    <2>2. R[i].prev \in DOMAIN R => R[R[i].prev].root = R[i].root
      <3>1. SoundAt(H, i) /\ Same(R[i], H[i]) /\ R[i].root = H[i].root
        BY <1>1 DEF Sound, Kept
      <3>2. H[i].root = H[H[i].prev].root /\ H[i].prev = R[i].prev
        BY <3>1 DEF SoundAt, Same
      <3> QED  BY <3>1, <3>2 DEF Kept
    <2> QED  BY <1>1, <2>1, <2>2
  <1>4. \A i \in RestoreChain(R, e) : R[i].root = R[e].root
    <2> HIDE DEF S
    <2>1. RestoreChain(R, e) \subseteq S
      BY <1>2, <1>3 DEF RestoreChain
    <2> QED  BY <1>1, <2>1 DEF S
  <1>5. \A i \in RestoreChain(R, e) : R[i].full => i = R[e].root
    <2> SUFFICES ASSUME NEW i \in RestoreChain(R, e), R[i].full PROVE i = R[e].root
      OBVIOUS
    <2>1. SoundAt(H, i) /\ Same(R[i], H[i]) /\ R[i].root = H[i].root
      BY <1>1 DEF Sound, Kept
    <2> QED  BY <1>4, <2>1 DEF SoundAt, Same
  <1>6. \E i \in RestoreChain(R, e) : R[i].full
    BY ChainHasFull
  <1> QED  BY <1>4, <1>5, <1>6

\* A row of a chain that restores is what the builder made of its state, a delta
\* relative to the root
LEMMA RelativeToRoot ==
  ASSUME NEW n \in Nat, NEW R, StoreOK(R, n), NEW H, Sound(H, n), Kept(R, H),
         NEW e \in DOMAIN R, Restorable(R, e), NEW i \in RestoreChain(R, e)
  PROVE  /\ i \in DOMAIN R /\ R[i] \in Row
         /\ R[i].done \in {0, R[i].coords.done}
         /\ R[i].full => R[i].done = R[i].coords.done /\ (R[i].done = 0 \/ R[i].map)
         /\ ~R[i].full => Relative(R[i], R[R[e].root])
  <1>1. i \in DOMAIN R /\ DOMAIN R \subseteq 1..n /\ R[i] \in Row
    BY DEF Restorable, StoreOK, RowOK
  <1>2. R[e].root \in DOMAIN R /\ R[i].root = R[e].root
    BY OneGeneration DEF Restorable
  <1>3. SoundAt(H, i) /\ Same(R[i], H[i]) /\ R[i].root = H[i].root
    BY <1>1 DEF Sound, Kept
  <1>4. Same(R[R[e].root], H[R[e].root])
    BY <1>2 DEF Kept
  <1>5. ~R[i].full => Relative(R[i], R[R[e].root])
    <2> DEFINE w == R[R[e].root]
               v == H[R[e].root]
    <2>1. ~R[i].full => Relative(H[i], v)
      BY <1>2, <1>3 DEF SoundAt, Same
    <2> HIDE DEF w, v
    <2>2. ~R[i].full => Relative(R[i], w)
      <3>1. Same(w, v)
        BY <1>4 DEF w, v
      <3> QED  BY <1>3, <2>1, <3>1 DEF Same, Relative
    <2> QED  BY <2>2 DEF w
  <1> QED  BY <1>1, <1>3, <1>5 DEF SoundAt, Same

\* What a restore replays is bounded below by the state the row was built from,
\* and by the states of the rows of its chain from above
LEMMA ReplayCovers ==
  ASSUME NEW n \in Nat, NEW R, StoreOK(R, n), NEW H, Sound(H, n), Kept(R, H),
         NEW e \in DOMAIN R, Restorable(R, e)
  PROVE  /\ RestoredDone(R, e) >= R[e].coords.done
         /\ \E i \in RestoreChain(R, e) : RestoredDone(R, e) \in {0, R[i].coords.done}
  <1> DEFINE C == RestoreChain(R, e)
             b == R[e].root
             T == {i \in C : R[i].full \/ R[i].map}
             D == {R[i].done : i \in C \ 0..(Max(T) - 1)}
  <1>1. /\ e \in Nat \ {0} /\ C \subseteq DOMAIN R /\ DOMAIN R \subseteq 1..n
        /\ e \in C /\ C \subseteq 1..e
    <2>1. e \in Nat \ {0} /\ C \subseteq DOMAIN R /\ DOMAIN R \subseteq 1..n
      BY DEF StoreOK, Restorable
    <2> QED  BY <2>1, ChainSelf DEF RestoreChain
  <1>2. b \in C /\ R[b].full /\ \A i \in C : R[i].full => i = b
    BY OneGeneration
  <1>3. \A i \in C : /\ R[i] \in Row /\ R[i].done \in {0, R[i].coords.done}
                     /\ R[i].full => R[i].done = R[i].coords.done /\ (R[i].done = 0 \/ R[i].map)
                     /\ ~R[i].full => Relative(R[i], R[b])
    BY RelativeToRoot
  <1>4. \A i \in C : R[i].done \in 0..MaxDone /\ R[i].coords.done \in 0..MaxDone
    BY <1>3 DEF Row, State
  <1> HIDE DEF C, b
  <1>5. Max(T) \in T /\ Max(T) \in Nat /\ Max(T) <= e
    <2>1. T \subseteq 0..e /\ T # {}
      BY <1>1, <1>2
    <2>2. Max(T) \in T
      BY <1>1, <2>1, MaxExists
    <2> QED  BY <1>1, <2>1, <2>2
  <1> DEFINE t == Max(T)
  <1> HIDE DEF t
  <1>6. \A i \in C : i >= t => R[i].done \in D
    <2> SUFFICES ASSUME NEW i \in C, i >= t PROVE i \in C \ 0..(t - 1)
      BY DEF t
    <2> QED  BY <1>1, <1>5 DEF t
  <1>7. t \in C /\ e >= t /\ t \in Nat
    BY <1>5 DEF t
  <1>8. D \subseteq 0..MaxDone /\ D # {} /\ MaxDone \in Nat
    BY <1>4, <1>6, <1>7, <1>1, ChainAssumption
  <1>9. RestoredDone(R, e) \in D /\ \A x \in D : x <= RestoredDone(R, e)
    <2>1. RestoredDone(R, e) = Max(D)
      BY DEF RestoredDone, C
    <2> HIDE DEF D
    <2>2. Max(D) \in D /\ \A x \in D : x <= Max(D)
      BY <1>8, MaxExists
    <2> QED  BY <2>1, <2>2
  <1>10. \E i \in C : RestoredDone(R, e) \in {0, R[i].coords.done}
    <2>1. PICK i \in C : RestoredDone(R, e) = R[i].done
      BY <1>9
    <2> QED  BY <1>3, <2>1
  <1>11. RestoredDone(R, e) >= R[e].coords.done
    <2>1. R[e].done \in D /\ R[e].done <= RestoredDone(R, e)
      BY <1>1, <1>6, <1>7, <1>9
    <2>2. RestoredDone(R, e) \in 0..MaxDone
      BY <1>8, <1>9
    <2> HIDE DEF D
    <2>3. CASE R[e].done = R[e].coords.done
      BY <1>1, <1>4, <2>1, <2>2, <2>3
    <2>4. CASE R[e].done # R[e].coords.done
      <3>1. ~R[e].full /\ Relative(R[e], R[b])
        BY <1>1, <1>3, <2>4
      <3>2. R[e].coords.done <= R[b].done
        BY <1>1, <1>2, <1>4, <2>4, <3>1 DEF Relative
      <3>3. CASE R[b].done = 0
        BY <1>1, <1>4, <2>2, <3>2, <3>3
      <3>4. CASE R[b].done # 0
        <4>1. R[b].map
          BY <1>2, <1>3, <3>4
        <4>2. \A i \in C : R[i].map => i = b
          BY <1>2, <1>3, <4>1 DEF Relative
        <4>3. t = b
          BY <1>2, <1>5, <4>2 DEF t
        <4>4. R[b].done \in D
          BY <1>1, <1>2, <1>6, <4>3
        <4>5. R[b].done <= RestoredDone(R, e)
          BY <1>9, <4>4
        <4> QED  BY <1>1, <1>2, <1>4, <2>2, <3>2, <4>5
      <3> QED  BY <3>3, <3>4
    <2> QED  BY <2>3, <2>4
  <1> QED  BY <1>10, <1>11 DEF C

-----------------------------------------------------------------------------
(***************************************************************************)
(* The steps of a call, sorted by what they do to the rows.                *)
(***************************************************************************)
Cleaning == {"retain", "list", "apply"}

\* a save that fails, by a failure of the store or for want of the predecessor
Unsaved(j) ==
  /\ j.pc \in {"chain", "save"}
  /\ faults' # 0 \/ (j.pc = "chain" /\ ~j.draft.full /\ j.draft.prev \notin DOMAIN rows)

\* the call goes on to locals k with the draft, the snapshot and the id it had,
\* or without; a new snapshot is of the live state, a predecessor is the newest
\* row, a new cut is a cleanup's verdict; the cleanups begin without a row where a
\* failed write was swallowed
Onward(j, k) ==
  /\ k.pc \notin {"merge", "save"}
  /\ Drafts(k) => /\ Drafts(j) /\ j.pc # "merge"
                  /\ k.id = j.id /\ k.draft = j.draft /\ k.calm = j.calm
  /\ k.pc \in {"latest", "build"} =>
       k.snap = live \/ (j.pc \in {"latest", "build"} /\ k.snap = j.snap)
  /\ k.pc = "build" => /\ k.prev = Latest(rows)
                       /\ k.prev # 0 => k.pos = rows[k.prev].pos
  /\ k.pc \in Cleaning =>
       /\ k.id = j.id /\ k.calm = j.calm
       /\ j.pc \in Cleaning \/ (Lenient /\ Unsaved(j) /\ k.pc = "retain")
       /\ k.pc = "apply" => \E s : k.cut = Removal(View, s)

\* a step that reads, fails or gives up
Reads(c) ==
  /\ UNCHANGED <<rows, seqno, live>>
  /\ \E k : Go(c, k) /\ Onward(job[c], k)

\* the newest row, which records the live state, is loaded to be saved again
Loads(c) ==
  /\ UNCHANGED <<rows, seqno, live>>
  /\ Latest(rows) # 0 /\ rows[Latest(rows)].coords = live
  /\ \E k : /\ Go(c, k)
            /\ k.pc = "merge" /\ k.id = Latest(rows) /\ k.draft = rows[Latest(rows)]

\* a draft gets its chain coordinates
Roots(c) ==
  /\ UNCHANGED <<rows, seqno, live>>
  /\ job[c].pc = "chain"
  /\ job[c].draft.full \/ job[c].draft.prev \in DOMAIN rows
  /\ \E k : /\ Go(c, k) /\ k.pc = "save" /\ k.id = job[c].id /\ k.calm = job[c].calm
            /\ k.draft = WithChainInfo(rows, job[c].id, job[c].draft)

\* a row lands
Writes(c) ==
  /\ UNCHANGED <<seqno, live>>
  /\ \E k, r :
       /\ rows' = Put(rows, job[c].id, r)
       /\ Go(c, k)
       /\ \/ k.pc = "idle"
          \/ /\ k.pc = "retain" /\ job[c].pc = "save"
             /\ k.id = job[c].id /\ k.calm = job[c].calm
       /\ \/ job[c].pc = "save" /\ r = job[c].draft
          \/ /\ job[c].pc = "merge"
             /\ job[c].draft.full \/ job[c].draft.prev \in DOMAIN rows
             /\ r = WithChainInfo(rows, job[c].id, job[c].draft)

\* a cleanup deletes rows
Cleans(c) ==
  /\ UNCHANGED <<seqno, live>>
  /\ job[c].pc = "apply"
  /\ rows' = Without(rows, job[c].cut)
  /\ \E k : Go(c, k) /\ (k.pc = "idle" \/ (k.pc = "list" /\ k.id = job[c].id /\ k.calm = job[c].calm))

\* going on to the next strategy is going onward
LEMMA StrategyOnward ==
  ASSUME NEW c \in Creators, job[c] \in Job, job[c].pc \in {"list", "apply"}, NextStrategy(c)
  PROVE  \E k : /\ Go(c, k) /\ Onward(job[c], k)
                /\ k.pc = "idle" \/ (k.pc = "list" /\ k.id = job[c].id /\ k.calm = job[c].calm)
  <1> DEFINE t == Tail(job[c].todo)
             k == [job[c] EXCEPT !.pc = "list", !.todo = t, !.cut = {}, !.mark = None]
  <1>1. Go(c, NoJob) \/ Go(c, k)
    BY DEF NextStrategy, Return
  <1> HIDE DEF t
  <1>2. k.pc = "list" /\ k.id = job[c].id /\ k.calm = job[c].calm
    BY DEF Job
  <1> HIDE DEF k
  <1>3. NoJob.pc = "idle"
    BY DEF NoJob
  <1>4. Onward(job[c], k) /\ Onward(job[c], NoJob)
    BY <1>2, <1>3 DEF Onward, Drafts, Cleaning
  <1> QED  BY <1>1, <1>2, <1>3, <1>4

\* every step of a call is one of these
LEMMA StepKinds ==
  ASSUME Shape, NEW c \in Creators, Step(c)
  PROVE  Reads(c) \/ Loads(c) \/ Build(c) \/ Roots(c) \/ Writes(c) \/ Cleans(c)
  <1>1. job[c] \in Job /\ JobOK(job[c], seqno)
    BY DEF Shape, JobsOK
  <1>2. NoJob.pc = "idle" /\ ~NoJob.retried
    BY DEF NoJob
  <1>3. Onward(job[c], NoJob)
    BY <1>2 DEF Onward, Drafts, Cleaning
  <1>4. ASSUME NEW id, Return(c, id), UNCHANGED <<rows, seqno, live>> PROVE Reads(c)
    BY <1>3, <1>4 DEF Return, Reads
  <1>5. CASE CallDirect(c)
    <2> DEFINE k == [NoJob EXCEPT !.pc = "latest", !.want = live.done,
                         !.calm = TRUE, !.snap = live]
    <2>1. Go(c, k) /\ UNCHANGED <<rows, seqno, live>>
      BY <1>5 DEF CallDirect, store, world
    <2>2. k.pc = "latest" /\ ~k.retried /\ k.snap = live
      BY DEF NoJob
    <2> HIDE DEF k
    <2>3. Onward(job[c], k)
      BY <2>2 DEF Onward, Drafts, Cleaning
    <2> QED  BY <2>1, <2>3 DEF Reads
  <1>6. CASE CallEngine(c)
    <2>1. UNCHANGED <<rows, seqno, live>>
      BY <1>6 DEF CallEngine, store, world
    <2> DEFINE j == [NoJob EXCEPT !.want = live.done, !.calm = TRUE]
               l == Latest(rows)
               k2 == [j EXCEPT !.pc = "expect"]
               k3 == [j EXCEPT !.pc = "merge", !.id = l, !.draft = rows[l]]
    <2>2. k2.pc = "expect" /\ k3.pc = "merge" /\ k3.id = l /\ k3.draft = rows[l]
      BY DEF NoJob
    <2>3. Go(c, k2) \/ Go(c, NoJob) \/ (l # 0 /\ rows[l].coords = live /\ Go(c, k3))
      BY <1>6 DEF CallEngine
    <2> HIDE DEF j, k2, k3
    <2>4. Onward(job[c], k2)
      BY <2>2 DEF Onward, Drafts, Cleaning
    <2> QED  BY <1>3, <2>1, <2>2, <2>3, <2>4 DEF Reads, Loads
  <1>7. CASE Merge(c)
    <2>1. UNCHANGED <<seqno, live>> /\ job[c].pc = "merge"
      BY <1>7 DEF Merge, world, At
    <2>2. CASE UNCHANGED rows /\ Return(c, 0)
      BY <1>4, <2>1, <2>2
    <2>3. CASE /\ job[c].draft.full \/ job[c].draft.prev \in DOMAIN rows
               /\ rows' = Put(rows, job[c].id, WithChainInfo(rows, job[c].id, job[c].draft))
               /\ Return(c, job[c].id)
      <3> DEFINE r == WithChainInfo(rows, job[c].id, job[c].draft)
      <3> HIDE DEF r
      <3>1. rows' = Put(rows, job[c].id, r) /\ Go(c, NoJob)
        BY <2>3 DEF r, Return
      <3> QED  BY <1>2, <2>1, <2>3, <3>1 DEF Writes, r
    <2> QED  BY <1>7, <2>2, <2>3 DEF Merge
  <1>8. CASE Expect(c)
    <2>1. PICK x : Go(c, [job[c] EXCEPT !.pc = "latest", !.exp = x, !.snap = live])
      BY <1>8 DEF Expect
    <2> DEFINE k == [job[c] EXCEPT !.pc = "latest", !.exp = x, !.snap = live]
    <2>2. ~job[c].retried
      BY <1>1, <1>8 DEF Expect, At, JobOK
    <2>3. k.pc = "latest" /\ ~k.retried /\ k.snap = live
      BY <1>1, <2>2 DEF Job
    <2>4. Go(c, k) /\ UNCHANGED <<rows, seqno, live>>
      BY <1>8, <2>1 DEF Expect, store, world
    <2> HIDE DEF k
    <2>5. Onward(job[c], k)
      BY <2>3 DEF Onward, Drafts, Cleaning
    <2> QED  BY <2>4, <2>5 DEF Reads
  <1>9. CASE ReadLatest(c)
    <2>1. UNCHANGED <<rows, seqno, live>> /\ job[c].pc = "latest"
      BY <1>9 DEF ReadLatest, store, world, At
    <2> DEFINE l == Latest(rows)
               q == IF l = 0 THEN 0 ELSE rows[l].pos
               k == [job[c] EXCEPT !.pc = "build", !.prev = l, !.pos = q]
               h == [job[c] EXCEPT !.pc = "check"]
    <2>2. \/ Return(c, 0)
          \/ Return(c, l)
          \/ job[c].retried /\ Go(c, h)
          \/ Go(c, k)
      BY <1>9 DEF ReadLatest, To
    <2> HIDE DEF l, q
    <2>3. /\ k.pc = "build" /\ k.draft = job[c].draft /\ k.id = job[c].id
          /\ k.retried = job[c].retried /\ k.calm = job[c].calm /\ k.snap = job[c].snap
          /\ k.prev = l /\ k.pos = q
          /\ h.pc = "check" /\ h.draft = job[c].draft /\ h.id = job[c].id /\ h.calm = job[c].calm
      BY <1>1 DEF Job
    <2> HIDE DEF k, h
    <2>4. Onward(job[c], k) /\ (job[c].retried => Onward(job[c], h))
      BY <2>1, <2>3 DEF Onward, Drafts, Cleaning, l, q
    <2> QED  BY <1>4, <2>1, <2>2, <2>4 DEF Reads
  <1>10. CASE Check(c)
    <2>1. UNCHANGED <<rows, seqno, live>> /\ job[c].pc = "check"
      BY <1>10 DEF Check, store, world, At
    <2> DEFINE k == [job[c] EXCEPT !.pc = "latest", !.retried = TRUE, !.snap = live]
               h == [job[c] EXCEPT !.pc = "chain"]
    <2>2. Go(c, k) \/ Go(c, h) \/ \E id : Return(c, id)
      BY <1>10 DEF Check, To
    <2>3. /\ k.pc = "latest" /\ k.draft = job[c].draft /\ k.id = job[c].id /\ k.snap = live
          /\ k.calm = job[c].calm
          /\ h.pc = "chain" /\ h.draft = job[c].draft /\ h.id = job[c].id /\ h.calm = job[c].calm
      BY <1>1 DEF Job
    <2> HIDE DEF k, h
    <2>4. Onward(job[c], k) /\ Onward(job[c], h)
      BY <2>1, <2>3 DEF Onward, Drafts, Cleaning
    <2> QED  BY <1>4, <2>1, <2>2, <2>4 DEF Reads
  <1>11. CASE ChainInfo(c)
    <2>1. UNCHANGED <<rows, seqno, live>> /\ job[c].pc = "chain"
      BY <1>11 DEF ChainInfo, store, world, At
    <2> DEFINE d == WithChainInfo(rows, job[c].id, job[c].draft)
               k == [job[c] EXCEPT !.pc = "save", !.draft = d]
               h == [job[c] EXCEPT !.pc = "retain"]
    <2>2. \/ \E id : Return(c, id)
          \/ (job[c].draft.full \/ job[c].draft.prev \in DOMAIN rows) /\ Go(c, k)
          \/ Lenient /\ Unsaved(job[c]) /\ Go(c, h)
      <3>1. Fault => faults' # 0
        BY DEF Fault, Shape, WorldOK
      <3> QED  BY <1>11, <2>1, <3>1 DEF ChainInfo, SaveFails, Persisted, To, Unsaved
    <2> HIDE DEF d
    <2>3. /\ k.pc = "save" /\ k.draft = d /\ k.id = job[c].id /\ k.calm = job[c].calm
          /\ h.pc = "retain" /\ h.id = job[c].id /\ h.calm = job[c].calm
      BY <1>1 DEF Job
    <2> HIDE DEF k, h
    <2>4. CASE Lenient /\ Unsaved(job[c]) /\ Go(c, h)
      <3>1. Onward(job[c], h)
        BY <2>1, <2>3, <2>4 DEF Onward, Drafts, Cleaning
      <3> QED  BY <2>1, <2>4, <3>1 DEF Reads
    <2> QED  BY <1>4, <2>1, <2>2, <2>3, <2>4 DEF Roots, d
  <1>12. CASE Save(c)
    <2>1. UNCHANGED <<seqno, live>> /\ job[c].pc = "save"
      BY <1>12 DEF Save, world, At
    <2>2. CASE UNCHANGED rows /\ Return(c, 0)
      BY <1>4, <2>1, <2>2
    <2> DEFINE k == [job[c] EXCEPT !.pc = "retain"]
    <2>3. k.pc = "retain" /\ k.id = job[c].id /\ k.calm = job[c].calm
      BY <1>1 DEF Job
    <2>4. ASSUME rows' = Put(rows, job[c].id, job[c].draft), Go(c, k) \/ Go(c, NoJob)
          PROVE  Writes(c)
      <3> HIDE DEF k
      <3> QED  BY <1>2, <2>1, <2>3, <2>4 DEF Writes
    <2>5. ASSUME Lenient, Fault, UNCHANGED rows, Go(c, k) PROVE Reads(c)
      <3> HIDE DEF k
      <3>1. faults' # 0
        BY <2>5 DEF Fault, Shape, WorldOK
      <3>2. Onward(job[c], k)
        BY <2>1, <2>3, <2>5, <3>1 DEF Onward, Unsaved, Drafts, Cleaning
      <3> QED  BY <2>1, <2>5, <3>2 DEF Reads
    <2>6. CASE UNCHANGED rows /\ Return(c, job[c].id)
      BY <1>4, <2>1, <2>6
    <2> QED  BY <1>12, <2>2, <2>4, <2>5, <2>6 DEF Save, SaveFails, Persisted, To, Return
  <1>13. CASE Retain(c)
    <2>1. UNCHANGED <<rows, seqno, live>> /\ job[c].pc = "retain"
      BY <1>13 DEF Retain, store, world, At
    <2> DEFINE k == [job[c] EXCEPT !.pc = "list", !.todo = Strategies]
    <2>2. Go(c, k) \/ Return(c, job[c].id)
      BY <1>13 DEF Retain
    <2>3. k.pc = "list" /\ k.id = job[c].id /\ k.calm = job[c].calm
      BY <1>1 DEF Job
    <2> HIDE DEF k
    <2>4. Onward(job[c], k)
      BY <2>1, <2>3 DEF Onward, Drafts, Cleaning
    <2> QED  BY <1>4, <2>1, <2>2, <2>4 DEF Reads
  <1>14. CASE CleanList(c)
    <2>1. UNCHANGED <<rows, seqno, live>> /\ job[c].pc = "list"
      BY <1>14 DEF CleanList, store, world, At
    <2>2. CASE NextStrategy(c)
      BY <1>1, <2>1, <2>2, StrategyOnward DEF Reads
    <2> DEFINE cut == Removal(View, Head(job[c].todo))
               m == NextWatermark(View, cut)
               b == job[c].scan \/ IsFullScan
               k == [job[c] EXCEPT !.pc = "apply", !.cut = cut, !.mark = m, !.exp = runs,
                                   !.scan = b]
    <2>3. CASE Go(c, k)
      <3> HIDE DEF cut, m, b
      <3>1. k.pc = "apply" /\ k.cut = cut /\ k.id = job[c].id /\ k.calm = job[c].calm
        BY <1>1 DEF Job
      <3> HIDE DEF k
      <3>2. \E s : k.cut = Removal(View, s)
        BY <3>1 DEF cut
      <3>3. Onward(job[c], k)
        BY <2>1, <3>1, <3>2 DEF Onward, Drafts, Cleaning
      <3> QED  BY <2>1, <2>3, <3>3 DEF Reads
    <2> QED  BY <1>14, <2>2, <2>3 DEF CleanList
  <1>15. CASE CleanApply(c)
    <2>1. UNCHANGED <<seqno, live>> /\ job[c].pc = "apply" /\ NextStrategy(c)
      BY <1>15 DEF CleanApply, world, At
    <2>2. rows' = Without(rows, job[c].cut) \/ UNCHANGED rows
      BY <1>15 DEF CleanApply, store
    <2>3. \E k : /\ Go(c, k) /\ Onward(job[c], k)
                 /\ k.pc = "idle" \/ (k.pc = "list" /\ k.id = job[c].id /\ k.calm = job[c].calm)
      BY <1>1, <2>1, StrategyOnward
    <2> QED  BY <2>1, <2>2, <2>3 DEF Reads, Cleans
  <1> QED  BY <1>5, <1>6, <1>7, <1>8, <1>9, <1>10, <1>11, <1>12, <1>13, <1>14, <1>15 DEF Step

\* a step of one creator changes its own locals only
LEMMA GoOnly ==
  ASSUME Shape, NEW c \in Creators, NEW k, Go(c, k)
  PROVE  \A d \in Creators : job'[d] = IF d = c THEN k ELSE job[d]
  BY DEF Go, Shape, JobsOK

-----------------------------------------------------------------------------
\* compute_chain_info finds the root the history has
LEMMA RootTold ==
  ASSUME NEW n \in Nat, NEW H, Sound(H, n), Kept(rows, H), DOMAIN rows \subseteq 1..n,
         NEW id \in 1..n, NEW r \in Row, Same(r, H[id]), r.full \/ r.prev \in DOMAIN rows
  PROVE  LET q == WithChainInfo(rows, id, r)
         IN  Same(q, H[id]) /\ q.root = H[id].root
  <1> DEFINE rt == IF r.full THEN id ELSE rows[r.prev].root
             ps == IF r.full THEN 0 ELSE rows[r.prev].pos + 1
  <1>1. SoundAt(H, id)
    BY DEF Sound
  <1>2. rt = H[id].root
    <2>1. CASE r.full
      BY <1>1, <2>1 DEF SoundAt, Same
    <2>2. CASE ~r.full
      <3>1. H[id].root = H[r.prev].root
        BY <1>1, <2>2 DEF SoundAt, Same
      <3> QED  BY <2>2, <3>1 DEF Kept
    <2> QED  BY <2>1, <2>2
  <1> HIDE DEF rt, ps
  <1>3. WithChainInfo(rows, id, r) = [r EXCEPT !.root = rt, !.pos = ps]
    BY DEF WithChainInfo, rt, ps
  <1> QED  BY <1>2, <1>3 DEF Same, Row

\* a row that is what the history says may land
LEMMA PutKept ==
  ASSUME NEW R, NEW H, Kept(R, H), NEW id, NEW r, Same(r, H[id]), r.root = H[id].root
  PROVE  Kept(Put(R, id, r), H)
  BY DEF Kept, Put

\* rows may go
LEMMA WithoutKept ==
  ASSUME NEW R, NEW H, Kept(R, H), NEW gone
  PROVE  Kept(Without(R, gone), H)
  BY DEF Kept, Without

\* the history goes on telling when one call changes and no id is given out
LEMMA StillTold ==
  ASSUME Shape, NEW H, Told(H), NEW c \in Creators, NEW k, Go(c, k), JobKept(k, H),
         Kept(rows', H), UNCHANGED seqno
  PROVE  Told(H)'
  <1>1. \A d \in Creators : JobKept(job'[d], H)
    <2>1. \A d \in Creators : job'[d] = IF d = c THEN k ELSE job[d]
      BY GoOnly
    <2> QED  BY <2>1 DEF Told
  <1> QED  BY <1>1 DEF Told

\* What is built is recorded: a FULL row heads a generation, a delta joins that of
\* the predecessor, whose base is the one the walk found
LEMMA BuildTold ==
  ASSUME Shape, NEW H, Told(H), NEW c \in Creators, Build(c)
  PROVE  Recorded'
  <1> DEFINE n == seqno
             p == job[c].prev
             s == job[c].snap
             mp == c \in Direct \/ s.done > 0
             d == BuildRow(rows, job[c].pos, s, p, mp)
             q == IF c \in Direct THEN "chain" ELSE "check"
             k == [job[c] EXCEPT !.pc = q, !.id = n + 1, !.draft = d]
  <1>1. /\ n \in Nat /\ n < MaxRows /\ seqno' = n + 1 /\ UNCHANGED rows /\ MaxRows \in Nat
        /\ now \in 1..MaxTime /\ StoreOK(rows, n) /\ DOMAIN rows \subseteq 1..n
        /\ job[c] \in Job /\ JobOK(job[c], n) /\ Go(c, k)
    <2>1. n \in Nat /\ StoreOK(rows, n) /\ MaxRows \in Nat /\ now \in 1..MaxTime
      BY ChainAssumption DEF Shape, WorldOK
    <2>2. n < MaxRows /\ seqno' = n + 1 /\ UNCHANGED rows /\ Go(c, k)
      BY DEF Build, store
    <2> QED  BY <2>1, <2>2 DEF Shape, JobsOK, StoreOK
  <1>2. p \in 0..MaxRows /\ p < n + 1 /\ s \in State /\ s.done \in Nat
    <2>1. p \in 0..MaxRows /\ s \in State /\ p <= n
      BY <1>1 DEF Job, JobOK
    <2> QED  BY <1>1, <2>1 DEF State
  <1>3. RowOK(d, n + 1) /\ d \in Row /\ d.prev = p
    <2>1. mp \in BOOLEAN
      OBVIOUS
    <2> HIDE DEF mp
    <2>2. n + 1 \in Nat /\ now \in 1..MaxTime
      BY <1>1
    <2> DEFINE m == n + 1
    <2> HIDE DEF p, s, m
    <2>3. p \in 0..MaxRows /\ p < m /\ s \in State /\ m \in Nat
      BY <1>2, <2>2 DEF m
    <2>4. RowOK(d, m) /\ d.prev = p
      BY <2>1, <2>2, <2>3, BuildTyped
    <2> QED  BY <2>4 DEF RowOK, m
  <1> DEFINE rt == IF d.full THEN n + 1 ELSE H[p].root
             h == [d EXCEPT !.root = rt]
             G == [i \in 1..(n + 1) |-> IF i <= n THEN H[i] ELSE h]
  <1>4. Sound(H, n) /\ Kept(rows, H) /\ \A x \in Creators : JobKept(job[x], H)
    BY DEF Told
  \* what the builder promises of a delta
  <1>5. ASSUME ~d.full
        PROVE  /\ p \in 1..n /\ H[p].root \in 1..n
               /\ d.done \in {0, d.coords.done} /\ Relative(d, H[H[p].root])
    <2> DEFINE base == FindBase(rows, p)
    <2>1. p # 0 /\ base # 0 /\ d = DeltaRow(s, p, mp, rows[base])
      <3>1. FullRow(s, p, mp).full
        BY DEF FullRow
      <3> QED  BY <1>5, <3>1 DEF BuildRow
    <2>2. Restorable(rows, p)
      BY <2>1 DEF FindBase
    <2>3. p \in Nat /\ p \in DOMAIN rows
      <3>1. p \in Nat \ {0}
        BY <1>1, <1>2, <2>1
      <3>2. p \in RestoreChain(rows, p)
        BY <3>1, ChainSelf
      <3> QED  BY <2>2, <3>1, <3>2 DEF Restorable
    <2>4. base \in RestoreChain(rows, p) /\ rows[base].full
      <3>1. \E i \in RestoreChain(rows, p) : rows[i].full
        BY <1>1, <2>2, <2>3, ChainHasFull
      <3> QED  BY <2>2, <3>1 DEF FindBase
    <2> HIDE DEF base, mp, d
    <2>5. base = rows[p].root /\ base \in DOMAIN rows
      BY <1>1, <1>4, <2>2, <2>3, <2>4, OneGeneration DEF Restorable
    <2>6. H[p].root = base /\ Same(rows[base], H[base])
      BY <1>4, <2>3, <2>5 DEF Kept
    <2> DEFINE w == rows[base]
               v == H[base]
    <2> HIDE DEF w, v
    <2>7. /\ d.coords = s /\ d.done = (IF s.done > w.done THEN s.done ELSE 0)
          /\ d.map = (mp /\ ~w.map)
      BY <2>1 DEF DeltaRow, w
    <2>8. Relative(d, v)
      BY <2>4, <2>6, <2>7 DEF Relative, Same, w, v
    <2>9. d.done \in {0, d.coords.done}
      BY <2>7
    <2> QED  BY <1>1, <2>3, <2>5, <2>6, <2>8, <2>9 DEF v
  \* and of a FULL row
  <1>6. d.full => d.done = d.coords.done /\ (d.done = 0 \/ d.map)
    <2>1. CASE d = FullRow(s, p, mp)
      <3>1. d.done = s.done /\ d.coords = s /\ d.map = mp
        BY <2>1 DEF FullRow
      <3>2. s.done = 0 \/ mp
        BY <1>2
      <3> HIDE DEF mp, d
      <3> QED  BY <3>1, <3>2
    <2>2. CASE d # FullRow(s, p, mp)
      <3>1. d = DeltaRow(s, p, mp, rows[FindBase(rows, p)])
        BY <2>2 DEF BuildRow
      <3>2. ~DeltaRow(s, p, mp, rows[FindBase(rows, p)]).full
        BY DEF DeltaRow
      <3> QED  BY <3>1, <3>2
    <2> QED  BY <2>1, <2>2
  <1> HIDE DEF d, q
  <1>7. k.id = n + 1 /\ k.draft = d /\ k.pc = q
    BY <1>1 DEF Job
  <1>8. q \in {"chain", "check"}
    BY DEF q
  <1> HIDE DEF k, mp, p, s
  <1>9. rt \in 0..MaxRows
    BY <1>1, <1>5
  <1> HIDE DEF rt
  <1>10. h \in Row /\ Same(d, h) /\ h.root = rt
    BY <1>3, <1>9 DEF Same, Row
  <1> HIDE DEF h
  <1>11. G \in [1..(n + 1) -> Row] /\ G[n + 1] = h /\ \A i \in 1..n : G[i] = H[i]
    BY <1>1, <1>4, <1>10 DEF Sound
  <1> HIDE DEF G
  <1>12. Sound(G, n + 1)
    <2> SUFFICES ASSUME NEW i \in 1..(n + 1) PROVE SoundAt(G, i)
      BY <1>11 DEF Sound
    <2>1. CASE i \in 1..n
      <3>1. SoundAt(H, i) /\ G[i] = H[i]
        BY <1>4, <1>11, <2>1 DEF Sound
      <3>2. ASSUME ~H[i].full
            PROVE  G[H[i].prev] = H[H[i].prev] /\ G[H[i].root] = H[H[i].root]
        BY <1>1, <1>11, <2>1, <3>1, <3>2 DEF SoundAt
      <3> QED  BY <3>1, <3>2 DEF SoundAt
    <2>2. CASE i = n + 1
      <3>1. G[i] = h /\ h.full = d.full /\ h.prev = p /\ h.done = d.done /\ h.map = d.map
            /\ h.coords = d.coords
        BY <1>3, <1>10, <1>11, <2>2 DEF Same
      <3>2. CASE d.full
        BY <1>6, <1>10, <2>2, <3>1, <3>2 DEF SoundAt, rt
      <3>3. CASE ~d.full
        <4>1. /\ p \in 1..n /\ H[p].root \in 1..n
              /\ d.done \in {0, d.coords.done} /\ Relative(d, H[H[p].root])
          BY <1>5, <3>3
        <4>2. h.root = H[p].root /\ G[p] = H[p] /\ G[h.root] = H[h.root]
          BY <1>10, <1>11, <3>3, <4>1 DEF rt
        <4>3. Relative(h, G[h.root])
          BY <3>1, <4>1, <4>2 DEF Relative
        <4> QED  BY <1>1, <2>2, <3>1, <3>3, <4>1, <4>2, <4>3 DEF SoundAt
      <3> QED  BY <3>2, <3>3
    <2> QED  BY <1>1, <2>1, <2>2
  <1>13. Kept(rows', G)
    BY <1>1, <1>4, <1>11 DEF Kept
  <1>14. ASSUME NEW x \in Creators PROVE JobKept(job'[x], G)
    <2>1. job'[x] = IF x = c THEN k ELSE job[x]
      BY <1>1, GoOnly
    <2>2. CASE x = c
      BY <1>7, <1>8, <1>10, <1>11, <2>1, <2>2 DEF JobKept
    <2>3. CASE x # c
      <3>1. JobKept(job[x], H) /\ JobOK(job[x], n)
        BY <1>4 DEF Shape, JobsOK
      <3>2. Drafts(job[x]) => G[job[x].id] = H[job[x].id]
        BY <1>11, <3>1 DEF JobOK
      <3> QED  BY <2>1, <2>3, <3>1, <3>2 DEF JobKept
    <2> QED  BY <2>2, <2>3
  <1>15. PICK F : F = G
    OBVIOUS
  <1>16. Told(F)'
    BY <1>1, <1>12, <1>13, <1>14, <1>15 DEF Told
  <1> QED  BY <1>16 DEF Recorded

\* no other step of a call gives out an id: it copies what the history tells
LEMMA StepTold ==
  ASSUME Shape, NEW H, Told(H), NEW c \in Creators,
         Reads(c) \/ Loads(c) \/ Roots(c) \/ Writes(c) \/ Cleans(c)
  PROVE  Told(H)'
  <1>1. /\ seqno \in 0..MaxRows /\ seqno \in Nat /\ DOMAIN rows \subseteq 1..seqno
        /\ JobOK(job[c], seqno)
    BY ChainAssumption DEF Shape, StoreOK, WorldOK, JobsOK
  <1>2. Sound(H, seqno) /\ Kept(rows, H) /\ JobKept(job[c], H)
    BY DEF Told
  <1>3. Drafts(job[c]) => /\ job[c].id \in 1..seqno /\ job[c].draft \in Row
                          /\ Same(job[c].draft, H[job[c].id])
    BY <1>1, <1>2 DEF JobOK, RowOK, JobKept
  <1>4. UNCHANGED seqno
    BY DEF Reads, Loads, Roots, Writes, Cleans
  <1>5. CASE Reads(c)
    <2>1. PICK k : Go(c, k) /\ Onward(job[c], k)
      BY <1>5 DEF Reads
    <2>2. JobKept(k, H)
      BY <1>3, <2>1 DEF JobKept, Onward
    <2> QED  BY <1>2, <1>4, <1>5, <2>1, <2>2, StillTold DEF Reads
  <1>6. CASE Loads(c)
    <2> DEFINE l == Latest(rows)
    <2>1. l # 0 /\ l \in DOMAIN rows
      BY <1>1, <1>6, LatestTyped DEF Loads
    <2>2. PICK k : Go(c, k) /\ k.pc = "merge" /\ k.id = l /\ k.draft = rows[l]
      BY <1>6 DEF Loads
    <2> HIDE DEF l
    <2>3. JobKept(k, H)
      BY <1>2, <2>1, <2>2 DEF JobKept, Kept
    <2> QED  BY <1>2, <1>4, <1>6, <2>2, <2>3, StillTold DEF Loads
  <1>7. CASE Roots(c)
    <2> DEFINE q == WithChainInfo(rows, job[c].id, job[c].draft)
    <2>1. PICK k : Go(c, k) /\ k.pc = "save" /\ k.id = job[c].id /\ k.draft = q
      BY <1>7 DEF Roots
    <2>2. Drafts(job[c]) /\ (job[c].draft.full \/ job[c].draft.prev \in DOMAIN rows)
      BY <1>7 DEF Roots, Drafts
    <2>3. Same(q, H[job[c].id]) /\ q.root = H[job[c].id].root
      BY <1>1, <1>2, <1>3, <2>2, RootTold
    <2> HIDE DEF q
    <2>4. JobKept(k, H)
      BY <2>1, <2>3 DEF JobKept
    <2> QED  BY <1>2, <1>4, <1>7, <2>1, <2>4, StillTold DEF Roots
  <1>8. CASE Writes(c)
    <2>1. PICK k, r :
            /\ rows' = Put(rows, job[c].id, r) /\ Go(c, k) /\ k.pc \in {"idle", "retain"}
            /\ \/ job[c].pc = "save" /\ r = job[c].draft
               \/ /\ job[c].pc = "merge"
                  /\ job[c].draft.full \/ job[c].draft.prev \in DOMAIN rows
                  /\ r = WithChainInfo(rows, job[c].id, job[c].draft)
      BY <1>8 DEF Writes
    <2>2. Same(r, H[job[c].id]) /\ r.root = H[job[c].id].root
      <3>1. Drafts(job[c])
        BY <2>1 DEF Drafts
      <3>2. CASE job[c].pc = "save" /\ r = job[c].draft
        BY <1>2, <1>3, <3>1, <3>2 DEF JobKept
      <3>3. CASE /\ job[c].draft.full \/ job[c].draft.prev \in DOMAIN rows
                 /\ r = WithChainInfo(rows, job[c].id, job[c].draft)
        BY <1>1, <1>2, <1>3, <3>1, <3>3, RootTold
      <3> QED  BY <2>1, <3>2, <3>3
    <2>3. Kept(rows', H)
      BY <1>2, <2>1, <2>2, PutKept
    <2>4. JobKept(k, H)
      BY <2>1 DEF JobKept, Drafts
    <2> QED  BY <1>4, <2>1, <2>3, <2>4, StillTold
  <1>9. CASE Cleans(c)
    <2>1. PICK k : Go(c, k) /\ k.pc \in {"idle", "list"}
      BY <1>9 DEF Cleans
    <2>2. Kept(rows', H)
      BY <1>2, <1>9, WithoutKept DEF Cleans
    <2>3. JobKept(k, H)
      BY <2>1 DEF JobKept, Drafts
    <2> QED  BY <1>4, <2>1, <2>2, <2>3, StillTold
  <1> QED  BY <1>5, <1>6, <1>7, <1>8, <1>9

\* nor does the rest of the world
LEMMA OutsideTold ==
  ASSUME Shape, NEW H, Told(H),
         Progress \/ Flip \/ Tick \/ Crash \/ (\E e \in DOMAIN rows : Delete(e)) \/ UNCHANGED vars
  PROVE  Told(H)'
  <1>1. CASE Progress \/ Flip \/ Tick \/ UNCHANGED vars
    <2>1. UNCHANGED <<rows, seqno, job>>
      BY <1>1 DEF Progress, Flip, Tick, vars, store
    <2> QED  BY <2>1 DEF Told
  <1>2. CASE Crash
    <2>1. UNCHANGED <<rows, seqno>> /\ job' = [c \in Creators |-> NoJob]
      BY <1>2 DEF Crash, store
    <2>2. NoJob.pc = "idle"
      BY DEF NoJob
    <2>3. JobKept(NoJob, H)
      BY <2>2 DEF JobKept, Drafts
    <2> QED  BY <2>1, <2>3 DEF Told
  <1>3. ASSUME NEW e \in DOMAIN rows, Delete(e) PROVE Told(H)'
    <2>1. /\ UNCHANGED seqno /\ rows' = Without(rows, {e})
          /\ job' = [c \in Creators |-> [job[c] EXCEPT !.calm = FALSE]]
      BY <1>3 DEF Delete
    <2>2. Kept(rows', H)
      BY <2>1, WithoutKept DEF Told
    <2>3. ASSUME NEW c \in Creators PROVE JobKept(job'[c], H)
      <3>1. job[c] \in Job /\ JobOK(job[c], seqno) /\ JobKept(job[c], H)
        BY DEF Shape, JobsOK, Told
      <3>2. Alike(job[c], job'[c])
        BY <2>1, <3>1, UneasyTyped
      <3> QED  BY <3>1, <3>2 DEF Alike, JobKept, Drafts
    <2> QED  BY <2>1, <2>2, <2>3 DEF Told
  <1> QED  BY <1>1, <1>2, <1>3

\* at every step there is a history
LEMMA RecordedStep == Shape /\ Recorded /\ [Next]_vars => Recorded'
  <1> SUFFICES ASSUME Shape, Recorded, [Next]_vars PROVE Recorded'
    OBVIOUS
  <1>1. PICK H : Told(H)
    BY DEF Recorded
  <1>2. Told(H)' => Recorded'
    BY DEF Recorded
  <1>3. ASSUME NEW c \in Creators, Step(c) PROVE Recorded'
    <2>1. Reads(c) \/ Loads(c) \/ Build(c) \/ Roots(c) \/ Writes(c) \/ Cleans(c)
      BY <1>3, StepKinds
    <2> QED  BY <1>1, <1>2, <2>1, StepTold, BuildTold
  <1> QED  BY <1>1, <1>2, <1>3, OutsideTold DEF Next

\* in the beginning it is empty
LEMMA RecordedInit == Init => Recorded
  <1> SUFFICES ASSUME Init PROVE Recorded
    OBVIOUS
  <1>1. rows = <<>> /\ seqno = 0 /\ \A c \in Creators : job[c] = NoJob
    BY DEF Init
  <1>2. NoJob.pc = "idle" /\ ~NoJob.retried
    BY DEF NoJob
  <1> DEFINE H == [i \in 1..0 |-> NoRow]
  <1>3. Sound(H, 0)
    BY DEF Sound
  <1>4. Kept(rows, H)
    BY <1>1 DEF Kept
  <1>5. JobKept(NoJob, H)
    BY <1>2 DEF JobKept, Drafts
  <1> HIDE DEF H
  <1>6. Told(H)
    BY <1>1, <1>3, <1>4, <1>5 DEF Told
  <1> QED  BY <1>6 DEF Recorded

\* there always is a history
LEMMA RecordedAlways == Spec => []Recorded
  BY RecordedInit, RecordedStep, ShapeAlways, PTL DEF Spec

\* No restorable row ever forgets a node result it recorded: for any creators, with
\* or without a duplicate gate, any cleanups, deletes, storage failures, crashes and
\* rewinds, and any order in which drafts land
THEOREM NoResultEverLost == Spec => []NoResultLost
  <1>1. Shape /\ Recorded => NoResultLost
    <2> SUFFICES ASSUME Shape, Recorded, NEW e \in DOMAIN rows, Restorable(rows, e)
                 PROVE  RestoredDone(rows, e) >= rows[e].coords.done
      BY DEF NoResultLost
    <2>1. PICK H : Told(H)
      BY DEF Recorded
    <2>2. seqno \in Nat /\ StoreOK(rows, seqno) /\ Sound(H, seqno) /\ Kept(rows, H)
      BY <2>1, ChainAssumption DEF Shape, WorldOK, Told
    <2> QED  BY <2>2, ReplayCovers
  <1> QED  BY <1>1, RecordedAlways, ShapeAlways, PTL

-----------------------------------------------------------------------------
(***************************************************************************)
(* What changes of the store leave restorable.                             *)
(***************************************************************************)
\* A restore chain depends on the flags and links of its rows only
LEMMA ChainSame ==
  ASSUME NEW n \in Nat, NEW R, StoreOK(R, n), NEW Q, NEW e \in Nat \ {0}, Restorable(R, e),
         \A i \in RestoreChain(R, e) :
            i \in DOMAIN Q /\ Q[i].full = R[i].full /\ Q[i].prev = R[i].prev
  PROVE  RestoreChain(Q, e) = RestoreChain(R, e) /\ Restorable(Q, e)
  <1> DEFINE C == RestoreChain(R, e)
             D == RestoreChain(Q, e)
  <1>1. C \subseteq DOMAIN R /\ e \in C /\ C \subseteq 1..e
    BY ChainSelf DEF Restorable, RestoreChain
  <1>2. \A i \in C : ~R[i].full => R[i].prev \in C /\ R[i].prev \in 1..(i - 1)
    <2> SUFFICES ASSUME NEW i \in C, ~R[i].full PROVE R[i].prev \in C /\ R[i].prev \in 1..(i - 1)
      OBVIOUS
    <2>1. i \in DOMAIN R /\ R[i].prev \in 1..(i - 1)
      BY <1>1 DEF StoreOK, RowOK
    <2> QED  BY <2>1, ChainClosed
  <1>3. D \subseteq C
    <2>1. ClosedBack(Q, C)
      BY <1>2 DEF ClosedBack
    <2> HIDE DEF C
    <2> QED  BY <1>1, <2>1 DEF RestoreChain
  <1>4. e \in D /\ D \subseteq 1..e
    BY ChainSelf DEF RestoreChain
  <1>5. ClosedBack(R, D)
    <2> SUFFICES ASSUME NEW i \in D, ~R[i].full PROVE R[i].prev \in D
      BY DEF ClosedBack
    <2>1. i \in C /\ i \in DOMAIN Q /\ ~Q[i].full /\ Q[i].prev = R[i].prev
      BY <1>3
    <2>2. Q[i].prev \in 1..(i - 1)
      BY <1>2, <2>1
    <2> QED  BY <2>1, <2>2, ChainClosed
  <1>6. C \subseteq D
    <2> HIDE DEF D
    <2> QED  BY <1>4, <1>5 DEF RestoreChain
  <1> QED  BY <1>3, <1>6 DEF Restorable

\* a row of a chain that restores restores by itself
LEMMA ChainMember ==
  ASSUME NEW n \in Nat, NEW R, StoreOK(R, n), NEW e \in Nat \ {0}, Restorable(R, e),
         NEW i \in RestoreChain(R, e)
  PROVE  i \in DOMAIN R /\ i \in 1..e /\ Restorable(R, i)
  <1> DEFINE C == RestoreChain(R, e)
             S == C \cap (1..i)
  <1>1. C \subseteq DOMAIN R /\ i \in 1..e
    BY DEF Restorable, RestoreChain
  <1>2. ClosedBack(R, S)
    <2> SUFFICES ASSUME NEW j \in S, ~R[j].full PROVE R[j].prev \in S
      BY DEF ClosedBack
    <2>1. j \in DOMAIN R /\ R[j].prev \in 1..(j - 1) /\ j \in 1..i
      BY <1>1 DEF StoreOK, RowOK
    <2>2. R[j].prev \in C
      BY <2>1, ChainClosed
    <2> QED  BY <1>1, <2>1, <2>2
  <1>3. S \in SUBSET (1..i) /\ i \in S
    BY <1>1
  <1> HIDE DEF S
  <1>4. RestoreChain(R, i) \subseteq S
    BY <1>2, <1>3 DEF RestoreChain
  <1> QED  BY <1>1, <1>4 DEF Restorable, S

\* a FULL row restores, and so does a delta whose predecessor does
LEMMA HeadRestores ==
  ASSUME NEW n \in Nat, NEW R, StoreOK(R, n), NEW e \in DOMAIN R,
         R[e].full \/ Restorable(R, R[e].prev)
  PROVE  Restorable(R, e)
  <1>1. e \in Nat \ {0}
    BY DEF StoreOK
  <1>2. CASE R[e].full
    <2>1. {e} \in SUBSET (1..e) /\ ClosedBack(R, {e})
      BY <1>1, <1>2 DEF ClosedBack
    <2>2. RestoreChain(R, e) \subseteq {e}
      BY <2>1 DEF RestoreChain
    <2> QED  BY <1>1, <2>2 DEF Restorable
  <1>3. CASE ~R[e].full
    <2> DEFINE p == R[e].prev
               C == RestoreChain(R, p)
               S == C \cup {e}
    <2>1. p \in 1..(e - 1) /\ C \subseteq DOMAIN R /\ C \subseteq 1..p
      BY <1>3 DEF StoreOK, RowOK, Restorable, RestoreChain
    <2>2. p \in C
      BY <2>1, ChainSelf
    <2>3. ASSUME NEW i \in C, ~R[i].full PROVE R[i].prev \in C
      <3>1. i \in DOMAIN R /\ R[i].prev \in 1..(i - 1)
        BY <2>1, <2>3 DEF StoreOK, RowOK
      <3> QED  BY <2>1, <2>3, <3>1, ChainClosed
    <2> HIDE DEF C
    <2>4. S \in SUBSET (1..e) /\ e \in S /\ ClosedBack(R, S)
      BY <1>1, <2>1, <2>2, <2>3 DEF ClosedBack
    <2> HIDE DEF S
    <2>5. RestoreChain(R, e) \subseteq S
      BY <2>4 DEF RestoreChain
    <2> QED  BY <1>1, <2>1, <2>5 DEF Restorable, S
  <1> QED  BY <1>2, <1>3

\* a row that lands, or lands again unchanged, costs no other row its chain
LEMMA PutRestores ==
  ASSUME NEW n \in Nat, NEW R, StoreOK(R, n), NEW id, NEW r,
         id \in DOMAIN R => r.full = R[id].full /\ r.prev = R[id].prev,
         NEW e \in Nat \ {0}, Restorable(R, e)
  PROVE  Restorable(Put(R, id, r), e)
  <1> DEFINE Q == Put(R, id, r)
  <1>1. DOMAIN R \subseteq DOMAIN Q /\ \A i \in DOMAIN R : Q[i] = IF i = id THEN r ELSE R[i]
    BY DEF Put
  <1>2. RestoreChain(R, e) \subseteq DOMAIN R
    BY DEF Restorable
  <1> HIDE DEF Q
  <1>3. Restorable(Q, e)
    BY <1>1, <1>2, ChainSame
  <1> QED  BY <1>3 DEF Q

\* the newest row that lands gives no older row a chain
LEMMA PutRestoresNoOther ==
  ASSUME NEW n \in Nat, NEW R, StoreOK(R, n), NEW id \in 1..n, NEW r, RowOK(r, id),
         \A i \in DOMAIN R : i <= id,
         NEW e \in DOMAIN R, e # id, Restorable(Put(R, id, r), e)
  PROVE  Restorable(R, e)
  <1> DEFINE Q == Put(R, id, r)
  <1>1. /\ StoreOK(Q, n) /\ DOMAIN Q = DOMAIN R \cup {id}
        /\ \A i \in DOMAIN R : i # id => Q[i] = R[i]
    BY DEF StoreOK, Put
  <1>2. e \in Nat \ {0} /\ e < id
    BY DEF StoreOK
  <1> HIDE DEF Q
  <1>3. Restorable(Q, e)
    BY DEF Q
  <1>4. \A i \in RestoreChain(Q, e) : i \in DOMAIN R /\ Q[i] = R[i]
    BY <1>1, <1>2, <1>3 DEF Restorable, RestoreChain
  <1> QED  BY <1>1, <1>2, <1>3, <1>4, ChainSame

\* deleting rows gives no row a chain
LEMMA WithoutRestoresNone ==
  ASSUME NEW n \in Nat, NEW R, StoreOK(R, n), NEW gone,
         NEW e \in DOMAIN R \ gone, Restorable(Without(R, gone), e)
  PROVE  Restorable(R, e)
  <1> DEFINE Q == Without(R, gone)
  <1>1. /\ StoreOK(Q, n) /\ DOMAIN Q = DOMAIN R \ gone
        /\ \A i \in DOMAIN R \ gone : Q[i] = R[i]
    BY WithoutTyped
  <1>2. e \in Nat \ {0}
    BY DEF StoreOK
  <1> HIDE DEF Q
  <1>3. Restorable(Q, e)
    BY DEF Q
  <1>4. \A i \in RestoreChain(Q, e) : i \in DOMAIN R /\ Q[i] = R[i]
    BY <1>1, <1>3 DEF Restorable
  <1> QED  BY <1>1, <1>2, <1>3, <1>4, ChainSame

\* a safe cut leaves every restorable row it does not take restorable
LEMMA CutRestores ==
  ASSUME NEW n \in Nat, StoreOK(rows, n), NEW cut, CutSafe(cut),
         NEW e \in DOMAIN rows \ cut, Restorable(rows, e)
  PROVE  Restorable(Without(rows, cut), e)
  <1> DEFINE C == RestoreChain(rows, e)
             S == C \ cut
             Q == Without(rows, cut)
  <1>1. e \in Nat \ {0} /\ C \subseteq DOMAIN rows /\ C \subseteq 1..e
    BY DEF StoreOK, Restorable, RestoreChain
  <1>2. e \in S
    BY <1>1, ChainSelf
  <1>3. ClosedBack(rows, S)
    <2> SUFFICES ASSUME NEW i \in S, ~rows[i].full PROVE rows[i].prev \in S
      BY DEF ClosedBack
    <2>1. i \in DOMAIN rows \ cut /\ rows[i].prev \in 1..(i - 1)
      BY <1>1 DEF StoreOK, RowOK
    <2>2. rows[i].prev \in C
      BY <1>1, <2>1, ChainClosed
    <2> QED  BY <2>1, <2>2 DEF CutSafe
  <1>4. C \subseteq S
    <2> HIDE DEF S
    <2>1. S \in SUBSET (1..e)
      BY <1>1 DEF S
    <2> QED  BY <1>2, <1>3, <2>1 DEF RestoreChain
  <1>5. DOMAIN Q = DOMAIN rows \ cut /\ \A i \in DOMAIN rows \ cut : Q[i] = rows[i]
    BY WithoutTyped
  <1> HIDE DEF Q
  <1>6. Restorable(Q, e)
    BY <1>1, <1>4, <1>5, ChainSame
  <1> QED  BY <1>6 DEF Q

-----------------------------------------------------------------------------
(***************************************************************************)
(* A single creator that always restores the newest restorable row records *)
(* ever more results.  (Rows that no longer restore are left out: after a  *)
(* delete the execution may resume from behind them.)                      *)
(***************************************************************************)
Good(R) == {e \in DOMAIN R : Restorable(R, e)}

\* no restorable row records more than x results
UpTo(x) == \A e \in Good(rows) : rows[e].coords.done <= x

\* a later restorable row records no less than an earlier one
Ascending == \A e, f \in Good(rows) : e <= f => rows[e].coords.done <= rows[f].coords.done

\* a draft or a snapshot lies between the restorable rows and the live state
Between(s) == UpTo(s.done) /\ s.done <= live.done
JobUpward(j) ==
  /\ Drafts(j) => Between(j.draft.coords)
  /\ j.pc \in {"latest", "build"} => Between(j.snap)

Upward ==
  /\ Ascending
  /\ UpTo(live.done)
  /\ \A c \in Creators : JobUpward(job[c])

\* the numbers of results are numbers
LEMMA ResultsTyped ==
  ASSUME Shape
  PROVE  /\ \A e \in DOMAIN rows : rows[e].coords.done \in Nat /\ e \in Nat \ {0}
         /\ live.done \in Nat
         /\ \A c \in Creators : job[c].draft.coords.done \in Nat /\ job[c].snap.done \in Nat
  <1>1. MaxDone \in Nat /\ live \in State /\ seqno \in Nat /\ DOMAIN rows \subseteq 1..seqno
    BY ChainAssumption DEF Shape, WorldOK, StoreOK
  <1>2. ASSUME NEW e \in DOMAIN rows PROVE rows[e].coords.done \in Nat /\ e \in Nat \ {0}
    <2>1. rows[e] \in Row
      BY DEF Shape, StoreOK, RowOK
    <2>2. rows[e].coords \in State
      BY <2>1 DEF Row
    <2> QED  BY <1>1, <2>2 DEF State
  <1>3. ASSUME NEW c \in Creators
        PROVE  job[c].draft.coords.done \in Nat /\ job[c].snap.done \in Nat
    <2>1. job[c].draft \in Row /\ job[c].snap \in State
      BY DEF Shape, JobsOK, Job
    <2>2. job[c].draft.coords \in State
      BY <2>1 DEF Row
    <2> QED  BY <2>1, <2>2 DEF State
  <1> QED  BY <1>1, <1>2, <1>3 DEF State

\* with fewer restorable rows, all as they were, every bound still holds
LEMMA FewerUpward ==
  ASSUME Upward, Good(rows') \subseteq Good(rows), \A e \in Good(rows') : rows'[e] = rows[e],
         UNCHANGED live,
         \A c \in Creators : Alike(job[c], job'[c]) \/ JobUpward(job'[c])
  PROVE  Upward'
  <1>1. Ascending' /\ UpTo(live.done)'
    BY DEF Upward, Ascending, UpTo
  <1>2. ASSUME NEW c \in Creators PROVE JobUpward(job[c])'
    <2>1. JobUpward(job[c])
      BY DEF Upward
    <2>2. CASE Alike(job[c], job'[c])
      BY <2>1, <2>2 DEF Alike, JobUpward, Drafts, Between, UpTo
    <2>3. CASE JobUpward(job'[c])
      BY <2>3 DEF JobUpward, Between, UpTo
    <2> QED  BY <2>2, <2>3
  <1> QED  BY <1>1, <1>2 DEF Upward

\* locals without draft or snapshot threaten nothing
LEMMA IdleUpward ==
  ASSUME NEW k, k.pc \in {"idle", "retain", "list", "apply"}
  PROVE  JobUpward(k)
  BY DEF JobUpward, Drafts

\* one call at a time: its steps keep Upward
LEMMA StepUpward ==
  ASSUME Solo, Shape, Links, Recorded, Upward, NEW c \in Creators, Step(c)
  PROVE  Upward'
  <1>1. /\ seqno \in Nat /\ StoreOK(rows, seqno) /\ DOMAIN rows \subseteq 1..seqno
        /\ job[c] \in Job /\ JobOK(job[c], seqno) /\ JobUpward(job[c]) /\ TimeOK(job[c])
    BY ChainAssumption DEF Shape, WorldOK, StoreOK, JobsOK, Upward, Links
  <1>2. \A k : Go(c, k) => \A d \in Creators : job'[d] = k
    BY GoOnly DEF Solo
  <1>3. ASSUME NEW k, Go(c, k), JobUpward(k), UNCHANGED <<rows, live>> PROVE Upward'
    BY <1>2, <1>3, FewerUpward
  <1>4. CASE Reads(c)
    <2>1. PICK k : Go(c, k) /\ Onward(job[c], k)
      BY <1>4 DEF Reads
    <2>2. Between(live)
      BY ResultsTyped DEF Upward, Between
    <2>3. JobUpward(k)
      BY <1>1, <2>1, <2>2 DEF JobUpward, Onward
    <2> QED  BY <1>3, <1>4, <2>1, <2>3 DEF Reads
  <1>5. CASE Loads(c)
    <2>1. PICK k : Go(c, k) /\ k.pc = "merge" /\ k.draft.coords = live
      BY <1>5 DEF Loads
    <2>2. Between(live)
      BY ResultsTyped DEF Upward, Between
    <2>3. JobUpward(k)
      BY <2>1, <2>2 DEF JobUpward
    <2> QED  BY <1>3, <1>5, <2>1, <2>3 DEF Loads
  <1>6. CASE Build(c)
    <2> DEFINE mp == c \in Direct \/ job[c].snap.done > 0
               d == BuildRow(rows, job[c].pos, job[c].snap, job[c].prev, mp)
               q == IF c \in Direct THEN "chain" ELSE "check"
               k == [job[c] EXCEPT !.pc = q, !.id = seqno + 1, !.draft = d]
    <2>1. Go(c, k) /\ UNCHANGED <<rows, live>> /\ job[c].pc = "build"
      BY <1>6 DEF Build, store, At
    <2>2. d.coords = job[c].snap
      BY DEF BuildRow, FullRow, DeltaRow
    <2>3. q \in {"chain", "check"}
      OBVIOUS
    <2> HIDE DEF d, q
    <2>4. k.pc = q /\ k.draft = d
      BY <1>1 DEF Job
    <2> HIDE DEF k
    <2>5. JobUpward(k)
      BY <1>1, <2>1, <2>2, <2>3, <2>4 DEF JobUpward
    <2> QED  BY <1>3, <2>1, <2>5
  <1>7. CASE Roots(c)
    <2> DEFINE r == WithChainInfo(rows, job[c].id, job[c].draft)
    <2>1. PICK k : Go(c, k) /\ k.pc = "save" /\ k.draft = r
      BY <1>7 DEF Roots
    <2>2. Drafts(job[c]) /\ job[c].draft \in Row
      BY <1>7, <1>1 DEF Roots, Drafts, Job
    <2>3. r.coords = job[c].draft.coords
      BY <2>2 DEF WithChainInfo, Row
    <2> HIDE DEF r
    <2>4. JobUpward(k)
      BY <1>1, <2>1, <2>2, <2>3 DEF JobUpward
    <2> QED  BY <1>3, <1>7, <2>1, <2>4 DEF Roots
  <1>8. CASE Writes(c)
    <2> DEFINE id == job[c].id
               dr == job[c].draft
    <2>1. PICK k, r :
            /\ rows' = Put(rows, id, r) /\ Go(c, k) /\ k.pc \in {"idle", "retain"}
            /\ job[c].pc \in {"save", "merge"}
            /\ \/ r = dr
               \/ /\ dr.full \/ dr.prev \in DOMAIN rows
                  /\ r = WithChainInfo(rows, id, dr)
      BY <1>8 DEF Writes
    <2>2. Drafts(job[c]) /\ id \in 1..seqno /\ RowOK(dr, id) /\ dr \in Row
      BY <1>1, <2>1 DEF Drafts, JobOK, RowOK
    <2>3. RowOK(r, id) /\ r.coords = dr.coords
      <3>1. CASE r = dr
        BY <2>2, <3>1
      <3>2. CASE (dr.full \/ dr.prev \in DOMAIN rows) /\ r = WithChainInfo(rows, id, dr)
        <4>1. seqno \in 0..MaxRows
          BY DEF Shape, WorldOK
        <4>2. RowOK(r, id)
          BY <1>1, <2>2, <3>2, <4>1, ChainInfoTyped
        <4>3. r.coords = dr.coords
          BY <2>2, <3>2 DEF WithChainInfo, Row
        <4> QED  BY <4>2, <4>3
      <3> QED  BY <2>1, <3>1, <3>2
    <2>4. Between(dr.coords) /\ \A e \in DOMAIN rows : e <= id
      BY <1>1, <2>2 DEF JobUpward, TimeOK
    <2> HIDE DEF id, dr
    <2>5. /\ DOMAIN rows' = DOMAIN rows \cup {id} /\ rows'[id] = r
          /\ \A i \in DOMAIN rows : i # id => rows'[i] = rows[i]
      BY <2>1 DEF Put
    <2>6. \A e \in Good(rows') : e = id \/ (e \in Good(rows) /\ rows'[e] = rows[e])
      <3> SUFFICES ASSUME NEW e \in Good(rows'), e # id
                   PROVE  e \in Good(rows) /\ rows'[e] = rows[e]
        OBVIOUS
      <3>1. e \in DOMAIN rows /\ Restorable(Put(rows, id, r), e)
        BY <2>1, <2>5 DEF Good
      <3>2. Restorable(rows, e)
        BY <1>1, <2>2, <2>3, <2>4, <3>1, PutRestoresNoOther DEF id
      <3> QED  BY <2>5, <3>1, <3>2 DEF Good
    <2>7. rows'[id].coords.done = dr.coords.done /\ dr.coords.done <= live.done
          /\ \A e \in Good(rows) : rows[e].coords.done <= dr.coords.done
      BY <2>3, <2>4, <2>5 DEF Between, UpTo
    <2>8. dr.coords.done \in Nat /\ live.done \in Nat /\ id \in Nat
          /\ \A e \in DOMAIN rows : e \in Nat /\ rows[e].coords.done \in Nat
      BY <1>1, <2>2, ResultsTyped DEF dr, id
    <2>9. UpTo(live.done)'
      <3>1. UNCHANGED live
        BY <1>8 DEF Writes
      <3> QED  BY <2>6, <2>7, <2>8, <3>1 DEF UpTo, Upward
    <2>10. Ascending'
      <3> SUFFICES ASSUME NEW e \in Good(rows'), NEW f \in Good(rows'), e <= f
                   PROVE  rows'[e].coords.done <= rows'[f].coords.done
        BY DEF Ascending
      <3>1. CASE f = id
        <4>1. CASE e = id
          BY <2>7, <2>8, <3>1, <4>1
        <4>2. CASE e # id
          BY <2>6, <2>7, <3>1, <4>2
        <4> QED  BY <4>1, <4>2
      <3>2. CASE f # id
        <4>1. f \in Good(rows) /\ rows'[f] = rows[f] /\ f \in DOMAIN rows /\ f <= id
          BY <2>4, <2>6, <3>2 DEF Good
        <4>2. e # id
          BY <2>8, <3>2, <4>1
        <4> QED  BY <2>6, <4>1, <4>2 DEF Upward, Ascending
      <3> QED  BY <3>1, <3>2
    <2>11. \A d \in Creators : JobUpward(job[d])'
      <3>1. \A d \in Creators : job'[d] = k
        BY <1>2, <2>1
      <3> QED  BY <2>1, <3>1 DEF JobUpward, Drafts
    <2> QED  BY <2>9, <2>10, <2>11 DEF Upward
  <1>9. CASE Cleans(c)
    <2>1. PICK k : Go(c, k) /\ k.pc \in {"idle", "list"}
      BY <1>9 DEF Cleans
    <2>2. \A e \in Good(rows') : e \in Good(rows) /\ rows'[e] = rows[e]
      <3> SUFFICES ASSUME NEW e \in Good(rows') PROVE e \in Good(rows) /\ rows'[e] = rows[e]
        OBVIOUS
      <3>1. rows' = Without(rows, job[c].cut)
        BY <1>9 DEF Cleans
      <3>2. e \in DOMAIN rows \ job[c].cut /\ rows'[e] = rows[e]
        BY <3>1 DEF Good, Without
      <3>3. Restorable(rows, e)
        BY <1>1, <3>1, <3>2, WithoutRestoresNone DEF Good
      <3> QED  BY <3>2, <3>3 DEF Good
    <2>3. \A d \in Creators : JobUpward(job'[d])
      BY <1>2, <2>1, IdleUpward
    <2> QED  BY <1>9, <2>2, <2>3, FewerUpward DEF Cleans
  <1> QED  BY <1>4, <1>5, <1>6, <1>7, <1>8, <1>9, StepKinds

\* Progress only adds, a delete only takes rows away, and a crash restores the
\* newest restorable row, which is the most advanced one
LEMMA OutsideUpward ==
  ASSUME ~Rewind, Shape, Recorded, Upward,
         Progress \/ Flip \/ Tick \/ Crash \/ (\E e \in DOMAIN rows : Delete(e)) \/ UNCHANGED vars
  PROVE  Upward'
  <1>1. seqno \in Nat /\ StoreOK(rows, seqno) /\ DOMAIN rows \subseteq 1..seqno
    BY ChainAssumption DEF Shape, WorldOK, StoreOK
  <1>2. CASE Progress \/ Flip \/ Tick \/ UNCHANGED vars
    <2>1. UNCHANGED <<rows, job>>
      BY <1>2 DEF Progress, Flip, Tick, vars, store
    <2>2. live'.done >= live.done /\ live'.done \in Nat
      <3>1. live \in State /\ live.done \in Nat
        BY ResultsTyped DEF Shape, WorldOK
      <3> QED  BY <1>2, <3>1 DEF Progress, Flip, Tick, vars, State
    <2>3. Ascending' /\ UpTo(live.done)'
      BY <2>1, <2>2, ResultsTyped DEF Upward, Ascending, UpTo, Good
    <2>4. ASSUME NEW c \in Creators PROVE JobUpward(job[c])'
      <3>1. JobUpward(job[c]) /\ job'[c] = job[c]
        BY <2>1 DEF Upward
      <3> QED  BY <2>1, <2>2, <3>1, ResultsTyped DEF JobUpward, Between, UpTo
    <2> QED  BY <2>3, <2>4 DEF Upward
  <1>3. ASSUME NEW x \in DOMAIN rows, Delete(x) PROVE Upward'
    <2>1. /\ rows' = Without(rows, {x}) /\ UNCHANGED live
          /\ job' = [c \in Creators |-> [job[c] EXCEPT !.calm = FALSE]]
      BY <1>3 DEF Delete
    <2>2. \A e \in Good(rows') : e \in Good(rows) /\ rows'[e] = rows[e]
      <3> SUFFICES ASSUME NEW e \in Good(rows') PROVE e \in Good(rows) /\ rows'[e] = rows[e]
        OBVIOUS
      <3>1. e \in DOMAIN rows \ {x} /\ rows'[e] = rows[e]
        BY <2>1 DEF Good, Without
      <3>2. Restorable(rows, e)
        BY <1>1, <2>1, <3>1, WithoutRestoresNone DEF Good
      <3> QED  BY <3>1, <3>2 DEF Good
    <2>3. \A c \in Creators : Alike(job[c], job'[c])
      <3>1. \A c \in Creators : job[c] \in Job /\ JobOK(job[c], seqno)
        BY DEF Shape, JobsOK
      <3> QED  BY <2>1, <3>1, UneasyTyped
    <2> QED  BY <2>1, <2>2, <2>3, FewerUpward
  <1>4. CASE Crash
    <2> DEFINE good == Good(rows)
    <2>1. UNCHANGED rows /\ job' = [c \in Creators |-> NoJob]
      BY <1>4 DEF Crash, store
    <2>2. NoJob.pc = "idle"
      BY DEF NoJob
    <2>3. UpTo(live'.done)
      <3>1. CASE good = {}
        BY <3>1 DEF UpTo
      <3>2. CASE good # {}
        <4>1. Max(good) \in good /\ \A e \in good : e <= Max(good)
          <5>1. good \in SUBSET (0..seqno)
            BY <1>1 DEF Good
          <5> QED  BY <1>1, <3>2, <5>1, MaxExists
        <4>2. live' = Restored(rows, Max(good))
          BY <1>4, <3>2 DEF Crash, Good
        <4> DEFINE m == Max(good)
        <4> HIDE DEF m
        <4>3. live'.done >= rows[m].coords.done
          <5>1. PICK H : Told(H)
            BY DEF Recorded
          <5>2. Sound(H, seqno) /\ Kept(rows, H) /\ m \in DOMAIN rows /\ Restorable(rows, m)
            BY <4>1, <5>1 DEF Told, Good, m
          <5>3. RestoredDone(rows, m) >= rows[m].coords.done
            BY <1>1, <5>2, ReplayCovers
          <5> QED  BY <4>2, <5>3 DEF Restored, m
        <4>4. RestoredDone(rows, m) \in Nat /\ live'.done = RestoredDone(rows, m)
          <5>1. m \in DOMAIN rows /\ Restorable(rows, m)
            BY <4>1 DEF Good, m
          <5>2. Restored(rows, m) \in State
            BY <1>1, <5>1, RestoredTyped
          <5> QED  BY <4>2, <5>2, ChainAssumption DEF Restored, State, m
        <4>5. \A e \in good : rows[e].coords.done <= rows[m].coords.done
          BY <4>1 DEF Upward, Ascending, m
        <4>6. \A e \in good : rows[e].coords.done \in Nat
          BY ResultsTyped DEF Good
        <4>7. m \in good
          BY <4>1 DEF m
        <4> HIDE DEF good
        <4>8. \A e \in good : rows[e].coords.done <= live'.done
          BY <4>3, <4>4, <4>5, <4>6, <4>7
        <4> QED  BY <4>8 DEF UpTo, good
      <3> QED  BY <3>1, <3>2
    <2>4. Ascending' /\ UpTo(live.done)'
      BY <2>1, <2>3 DEF Upward, Ascending, UpTo
    <2>5. \A c \in Creators : JobUpward(job[c])'
      BY <2>1, <2>2 DEF JobUpward, Drafts
    <2> QED  BY <2>4, <2>5 DEF Upward
  <1> QED  BY <1>2, <1>3, <1>4

\* Upward is an invariant of a single creator that never rewinds
LEMMA UpwardAlways == Solo /\ ~Rewind => (Spec => []Upward)
  <1> SUFFICES ASSUME Solo, ~Rewind PROVE Spec => []Upward
    OBVIOUS
  <1>1. Init => Upward
    <2> SUFFICES ASSUME Init PROVE Upward
      OBVIOUS
    <2>1. Good(rows) = {} /\ \A c \in Creators : job[c] = NoJob
      BY DEF Init, Good
    <2>2. NoJob.pc = "idle"
      BY DEF NoJob
    <2> QED  BY <2>1, <2>2, IdleUpward DEF Upward, Ascending, UpTo
  <1>2. Shape /\ Links /\ Recorded /\ Upward /\ [Next]_vars => Upward'
    <2> SUFFICES ASSUME Shape, Links, Recorded, Upward, [Next]_vars PROVE Upward'
      OBVIOUS
    <2> QED  BY StepUpward, OutsideUpward DEF Next
  <1>3. Spec => []Links
    BY LinksAlways DEF Quiet
  <1> QED  BY <1>1, <1>2, <1>3, ShapeAlways, RecordedAlways, PTL DEF Spec

\* What a restore brings back is exactly what the row recorded: with one creator and
\* restores of the newest restorable row, replaying the chain of any restorable row
\* yields the results the execution had when the row was built, for every interval
\* and retention policy and whatever is deleted or fails.  (Two creators, or a
\* rewind, may land a row with fewer results behind one with more, and its chain
\* then restores more than it recorded.)
THEOREM RestoresExactly == Solo /\ ~Rewind => (Spec => []RestoresNodeResults)
  <1> SUFFICES ASSUME Solo, ~Rewind PROVE Spec => []RestoresNodeResults
    OBVIOUS
  <1>1. Shape /\ Recorded /\ Upward => RestoresNodeResults
    <2> SUFFICES ASSUME Shape, Recorded, Upward, NEW e \in DOMAIN rows, Restorable(rows, e)
                 PROVE  RestoredDone(rows, e) = rows[e].coords.done
      BY DEF RestoresNodeResults
    <2>1. PICK H : Told(H)
      BY DEF Recorded
    <2>2. seqno \in Nat /\ StoreOK(rows, seqno) /\ Sound(H, seqno) /\ Kept(rows, H)
      BY <2>1, ChainAssumption DEF Shape, WorldOK, Told
    <2>3. RestoredDone(rows, e) >= rows[e].coords.done
      BY <2>2, ReplayCovers
    <2>4. PICK i \in RestoreChain(rows, e) : RestoredDone(rows, e) \in {0, rows[i].coords.done}
      BY <2>2, ReplayCovers
    <2>5. e \in Nat \ {0} /\ rows[e].coords.done \in Nat
      BY ResultsTyped
    <2>6. i \in DOMAIN rows /\ i \in 1..e /\ Restorable(rows, i)
      BY <2>2, <2>5, ChainMember
    <2>7. rows[i].coords.done <= rows[e].coords.done /\ rows[i].coords.done \in Nat
      BY <2>5, <2>6, ResultsTyped DEF Upward, Ascending, Good
    <2> QED  BY <2>3, <2>4, <2>5, <2>7
  <1>2. Spec => []Upward
    BY UpwardAlways
  <1> QED  BY <1>1, <1>2, ShapeAlways, RecordedAlways, PTL

-----------------------------------------------------------------------------
(***************************************************************************)
(* What a call in flight can rely on.                                      *)
(***************************************************************************)
\* no save has failed unnoticed
Stored == ~Lenient \/ (faults = 0 /\ deleted = {})

\* A delta that no delete disturbed still finds a predecessor that restores; while
\* the cleanup runs, the row just stored is the newest one; the newest row is spared
JobReady(j) ==
  /\ Drafts(j) /\ j.pc # "merge" /\ (j.calm \/ deleted = {}) /\ ~j.draft.full
       => Restorable(rows, j.draft.prev)
  /\ j.pc \in Cleaning => /\ \A e \in DOMAIN rows : e <= j.id
                          /\ Stored => j.id \in DOMAIN rows \cup deleted
                          /\ ~Lenient /\ j.calm => Restorable(rows, j.id)
  /\ j.pc = "apply" => j.id \notin j.cut /\ (deleted = {} => Latest(rows) \notin j.cut)

Ready == \A c \in Creators : JobReady(job[c])

\* a cleanup spares the newest row, whatever part of the store it looks at
LEMMA NewestSpared ==
  ASSUME NEW n \in Nat, StoreOK(rows, n), NEW id \in Nat, \A e \in DOMAIN rows : e <= id, NEW s
  PROVE  id \notin Removal(View, s)
  <1> SUFFICES ASSUME id \in Removal(View, s) PROVE FALSE
    OBVIOUS
  <1>1. DOMAIN View \subseteq DOMAIN rows /\ DOMAIN View \subseteq 1..n
    BY ViewTyped DEF StoreOK
  <1>2. id \in DOMAIN View
    BY RemovalTyped
  <1>3. id # Latest(View)
    BY DEF Removal
  <1>4. /\ Latest(View) \in 0..n /\ (Latest(View) # 0 => Latest(View) \in DOMAIN View)
        /\ id <= Latest(View)
    BY <1>1, <1>2, LatestTyped
  <1>5. id # 0 /\ Latest(View) # 0
    BY <1>1, <1>2, <1>4
  <1>6. Latest(View) <= id
    BY <1>1, <1>4, <1>5
  <1> QED  BY <1>3, <1>4, <1>6

\* a row that lands is what is stored under its id already, if anything is
LEMMA SameAgain ==
  ASSUME NEW H, Told(H), Told(H)', NEW id \in DOMAIN rows, id \in DOMAIN rows'
  PROVE  /\ rows'[id].full = rows[id].full /\ rows'[id].prev = rows[id].prev
         /\ rows'[id].coords = rows[id].coords
  BY DEF Told, Kept, Same

\* no step of a call is a delete
LEMMA StepDeletesNone ==
  ASSUME NEW c \in Creators, Step(c)
  PROVE  UNCHANGED deleted
  BY DEF Step, CallDirect, CallEngine, Merge, Expect, ReadLatest, Build, Check, ChainInfo,
         Save, Retain, CleanList, CleanApply, world

\* and failures are only counted up
LEMMA StoredBefore ==
  ASSUME Shape, NEW c \in Creators, Step(c), Stored'
  PROVE  Stored
  <1>1. faults \in Nat
    BY DEF Shape, WorldOK
  <1>2. faults' \in {faults, faults + 1}
    BY DEF Step, CallDirect, CallEngine, Merge, Expect, ReadLatest, Build, Check, ChainInfo,
           Save, Retain, CleanList, CleanApply, Fault
  <1> QED  BY <1>1, <1>2, StepDeletesNone DEF Stored

\* a row that lands: what the store is afterwards, and what still restores
LEMMA WriteEffect ==
  ASSUME Shape, NEW H, Told(H), NEW c \in Creators, Writes(c)
  PROVE  /\ job[c].id \in 1..seqno /\ DOMAIN rows' = DOMAIN rows \cup {job[c].id}
         /\ rows'[job[c].id].full = job[c].draft.full
         /\ rows'[job[c].id].prev = job[c].draft.prev
         /\ \A e \in DOMAIN rows : rows'[e].coords = rows[e].coords
         /\ \A e \in Nat \ {0} : Restorable(rows, e) => Restorable(rows', e)
  <1> DEFINE id == job[c].id
             d == job[c].draft
  <1>1. seqno \in Nat /\ seqno \in 0..MaxRows /\ StoreOK(rows, seqno) /\ JobOK(job[c], seqno)
    BY ChainAssumption DEF Shape, WorldOK, JobsOK
  <1>2. PICK r :
            /\ rows' = Put(rows, id, r)
            /\ job[c].pc \in {"save", "merge"}
            /\ \/ r = d
               \/ /\ d.full \/ d.prev \in DOMAIN rows
                  /\ r = WithChainInfo(rows, id, d)
    BY DEF Writes
  <1>3. Drafts(job[c]) /\ id \in 1..seqno /\ RowOK(d, id)
    BY <1>1, <1>2 DEF Drafts, JobOK
  <1>4. r.full = d.full /\ r.prev = d.prev
    BY <1>1, <1>2, <1>3, ChainInfoTyped
  <1>5. Told(H)'
    BY StepTold
  <1> HIDE DEF id, d
  <1>6. /\ DOMAIN rows' = DOMAIN rows \cup {id} /\ rows'[id] = r
        /\ \A i \in DOMAIN rows : i # id => rows'[i] = rows[i]
    BY <1>2 DEF Put
  <1>7. id \in DOMAIN rows => /\ r.full = rows[id].full /\ r.prev = rows[id].prev
                              /\ r.coords = rows[id].coords
    BY <1>5, <1>6, SameAgain
  <1>8. \A e \in Nat \ {0} : Restorable(rows, e) => Restorable(rows', e)
    BY <1>1, <1>2, <1>7, PutRestores
  <1> QED  BY <1>3, <1>4, <1>6, <1>7, <1>8 DEF id, d

\* the row that lands restores, unless a delete fell into the creation
LEMMA WriteRestores ==
  ASSUME Shape, NEW H, Told(H), NEW c \in Creators, Writes(c), Shape', JobReady(job[c]),
         job[c].calm, job[c].pc # "merge"
  PROVE  Restorable(rows', job[c].id)
  <1> DEFINE id == job[c].id
             d == job[c].draft
  <1>1. /\ id \in DOMAIN rows' /\ rows'[id].full = d.full /\ rows'[id].prev = d.prev
        /\ \A e \in Nat \ {0} : Restorable(rows, e) => Restorable(rows', e)
    BY WriteEffect
  <1>2. Drafts(job[c])
    BY DEF Writes, Drafts
  <1>3. ~d.full => d.prev \in Nat \ {0}
    <2>1. RowOK(d, id) /\ id \in Nat
      BY <1>2, ChainAssumption DEF Shape, JobsOK, JobOK, WorldOK
    <2> QED  BY <2>1 DEF RowOK
  <1>4. d.full \/ Restorable(rows', d.prev)
    BY <1>1, <1>2, <1>3 DEF JobReady
  <1>5. seqno' \in Nat /\ StoreOK(rows', seqno')
    BY ChainAssumption DEF Shape, WorldOK
  <1> HIDE DEF id, d
  <1>6. Restorable(rows', id)
    BY <1>1, <1>4, <1>5, HeadRestores
  <1> QED  BY <1>6 DEF id

\* a cleanup leaves the row just stored where it is
LEMMA CleanRestores ==
  ASSUME Shape, Links, NEW c \in Creators, Cleans(c), JobReady(job[c])
  PROVE  /\ Stored => job[c].id \in DOMAIN rows' \cup deleted
         /\ ~Lenient /\ job[c].calm => Restorable(rows', job[c].id)
         /\ DOMAIN rows' \subseteq DOMAIN rows
  <1> DEFINE id == job[c].id
             cut == job[c].cut
  <1>1. /\ seqno \in Nat /\ StoreOK(rows, seqno) /\ job[c].pc = "apply"
        /\ rows' = Without(rows, cut) /\ JobOK(job[c], seqno)
    BY ChainAssumption DEF Shape, WorldOK, JobsOK, Cleans
  <1>2. /\ id \notin cut /\ (Stored => id \in DOMAIN rows \cup deleted)
        /\ ~Lenient /\ job[c].calm => Restorable(rows, id)
        /\ CutSafe(cut) /\ id \in Nat \ {0}
    BY <1>1 DEF JobReady, Cleaning, Links, LinkOK, JobOK, Owning
  <1> HIDE DEF id, cut
  <1>3. DOMAIN rows' = DOMAIN rows \ cut
    BY <1>1 DEF Without
  <1>4. Restorable(rows, id) => id \in DOMAIN rows
    BY <1>2, ChainSelf DEF Restorable
  <1>5. Restorable(rows, id) => Restorable(rows', id)
    BY <1>1, <1>2, <1>4, CutRestores
  <1> QED  BY <1>2, <1>3, <1>5 DEF id

\* the steps of a call keep everyone ready
LEMMA StepReady ==
  ASSUME Quiet, Shape, Links, Recorded, Ready, NEW c \in Creators, Step(c), Shape', Links'
  PROVE  Ready'
  <1>1. /\ seqno \in Nat /\ StoreOK(rows, seqno) /\ DOMAIN rows \subseteq 1..seqno
        /\ job[c] \in Job /\ JobOK(job[c], seqno) /\ JobReady(job[c])
    BY ChainAssumption DEF Shape, WorldOK, StoreOK, JobsOK, Ready
  <1>2. UNCHANGED deleted /\ (Stored' => Stored)
    BY StepDeletesNone, StoredBefore
  <1>3. ASSUME NEW k, Go(c, k), JobReady(k), UNCHANGED rows PROVE Ready'
    <2>1. \A d \in Creators : JobReady(job'[d])
      BY <1>3, GoOnly DEF Ready
    <2> QED  BY <1>2, <1>3, <2>1 DEF Ready, JobReady
  <1>4. CASE Reads(c)
    <2>1. PICK k : Go(c, k) /\ Onward(job[c], k)
      BY <1>4 DEF Reads
    <2>2. k.pc = "apply" => k.id \notin k.cut /\ Latest(rows) \notin k.cut
      <3> SUFFICES ASSUME k.pc = "apply" PROVE k.id \notin k.cut /\ Latest(rows) \notin k.cut
        OBVIOUS
      <3>1. job[c].pc \in Cleaning /\ k.id = job[c].id /\ \E s : k.cut = Removal(View, s)
        BY <2>1 DEF Onward, Cleaning
      <3>2. k.id \in Nat /\ \A e \in DOMAIN rows : e <= k.id
        BY <1>1, <3>1 DEF JobReady, JobOK, Owning, Cleaning
      <3>3. Latest(rows) \in Nat /\ \A e \in DOMAIN rows : e <= Latest(rows)
        BY <1>1, LatestTyped
      <3> QED  BY <1>1, <3>1, <3>2, <3>3, NewestSpared
    <2>3. CASE k.pc \notin Cleaning \/ job[c].pc \in Cleaning
      <3>1. JobReady(k)
        BY <1>1, <2>1, <2>2, <2>3 DEF JobReady, Onward
      <3> QED  BY <1>3, <1>4, <2>1, <3>1 DEF Reads
    <2>4. CASE k.pc \in Cleaning /\ job[c].pc \notin Cleaning
      <3>1. /\ Lenient /\ Unsaved(job[c]) /\ k.pc = "retain" /\ k.id = job[c].id
            /\ UNCHANGED rows /\ Drafts(job[c]) /\ job[c].pc # "merge"
        BY <1>4, <2>1, <2>4 DEF Onward, Reads, Unsaved, Drafts
      <3>2. job'[c] = k
        BY <2>1, GoOnly
      <3>3. Solo
        BY <3>1, <3>2 DEF Links, LinkOK, Quiet
      <3>4. \A e \in DOMAIN rows : e <= k.id
        BY <3>1, <3>3 DEF Links, TimeOK, Drafts
      <3>5. \A d \in Creators : job'[d] = k
        BY <3>2, <3>3 DEF Solo
      <3>6. ASSUME ~job[c].draft.full, deleted = {} PROVE job[c].draft.prev \in DOMAIN rows
        <4>1. Restorable(rows, job[c].draft.prev)
          BY <1>1, <3>1, <3>6 DEF JobReady
        <4>2. job[c].draft.prev \in Nat \ {0}
          BY <1>1, <3>1, <3>6 DEF JobOK, RowOK
        <4> QED  BY <1>1, <4>1, <4>2, ChainSelf DEF Restorable
      <3>7. ~Stored'
        BY <1>2, <3>1, <3>6 DEF Unsaved, Stored
      <3> QED  BY <3>1, <3>4, <3>5, <3>7 DEF Ready, JobReady, Drafts
    <2> QED  BY <2>3, <2>4
  <1>5. CASE Loads(c)
    <2>1. PICK k : Go(c, k) /\ k.pc = "merge"
      BY <1>5 DEF Loads
    <2>2. JobReady(k)
      BY <2>1 DEF JobReady, Cleaning
    <2> QED  BY <1>3, <1>5, <2>1, <2>2 DEF Loads
  <1>6. CASE Build(c)
    <2> DEFINE mp == c \in Direct \/ job[c].snap.done > 0
               p == job[c].prev
               d == BuildRow(rows, job[c].pos, job[c].snap, p, mp)
               q == IF c \in Direct THEN "chain" ELSE "check"
               k == [job[c] EXCEPT !.pc = q, !.id = seqno + 1, !.draft = d]
    <2>1. Go(c, k) /\ UNCHANGED rows
      BY <1>6 DEF Build, store
    <2>2. d.full \/ (d.prev = p /\ Restorable(rows, p))
      <3>1. FullRow(job[c].snap, p, mp).full
        BY DEF FullRow
      <3>2. CASE d = FullRow(job[c].snap, p, mp)
        BY <3>1, <3>2
      <3>3. CASE d # FullRow(job[c].snap, p, mp)
        <4>1. d = DeltaRow(job[c].snap, p, mp, rows[FindBase(rows, p)]) /\ FindBase(rows, p) # 0
          BY <3>3 DEF BuildRow
        <4>2. Restorable(rows, p)
          BY <4>1 DEF FindBase
        <4>3. DeltaRow(job[c].snap, p, mp, rows[FindBase(rows, p)]).prev = p
          BY DEF DeltaRow
        <4> QED  BY <4>1, <4>2, <4>3
      <3> QED  BY <3>2, <3>3
    <2>3. q \in {"chain", "check"}
      OBVIOUS
    <2> HIDE DEF d, q, p
    <2>4. k.pc = q /\ k.draft = d
      BY <1>1 DEF Job
    <2> HIDE DEF k
    <2>5. JobReady(k)
      BY <2>2, <2>3, <2>4 DEF JobReady, Cleaning
    <2> QED  BY <1>3, <2>1, <2>5
  <1>7. CASE Roots(c)
    <2> DEFINE r == WithChainInfo(rows, job[c].id, job[c].draft)
    <2>1. PICK k : Go(c, k) /\ k.pc = "save" /\ k.draft = r /\ k.calm = job[c].calm
      BY <1>7 DEF Roots
    <2>2. /\ job[c].pc = "chain" /\ Drafts(job[c])
          /\ job[c].draft.full \/ job[c].draft.prev \in DOMAIN rows
      BY <1>7 DEF Roots, Drafts
    <2>3. r.full = job[c].draft.full /\ r.prev = job[c].draft.prev
      <3>1. job[c].id \in 1..seqno /\ RowOK(job[c].draft, job[c].id) /\ seqno \in 0..MaxRows
        BY <1>1, <2>2 DEF JobOK, Shape, WorldOK
      <3> QED  BY <1>1, <2>2, <3>1, ChainInfoTyped
    <2> HIDE DEF r
    <2>4. JobReady(k)
      BY <1>1, <2>1, <2>2, <2>3 DEF JobReady, Cleaning
    <2> QED  BY <1>3, <1>7, <2>1, <2>4 DEF Roots
  <1>8. CASE Writes(c)
    <2>1. PICK H : Told(H)
      BY DEF Recorded
    <2>2. PICK k : /\ Go(c, k)
                   /\ \/ k.pc = "idle"
                      \/ /\ k.pc = "retain" /\ job[c].pc = "save"
                         /\ k.id = job[c].id /\ k.calm = job[c].calm
      BY <1>8 DEF Writes
    <2>3. /\ DOMAIN rows' = DOMAIN rows \cup {job[c].id} /\ job[c].id \in 1..seqno
          /\ \A e \in Nat \ {0} : Restorable(rows, e) => Restorable(rows', e)
      BY <1>8, <2>1, WriteEffect
    <2>4. JobReady(job[c])'
      <3>1. job'[c] = k
        BY <2>2, GoOnly
      <3>2. CASE k.pc = "idle"
        BY <3>1, <3>2 DEF JobReady, Drafts, Cleaning
      <3>3. CASE /\ k.pc = "retain" /\ job[c].pc = "save"
                 /\ k.id = job[c].id /\ k.calm = job[c].calm
        <4>1. Solo
          BY <3>1, <3>3 DEF Links, LinkOK, Quiet
        <4>2. \A e \in DOMAIN rows : e <= job[c].id
          BY <3>3, <4>1 DEF Links, TimeOK, Drafts
        <4>3. k.calm => Restorable(rows', k.id)
          BY <1>1, <1>8, <2>1, <3>3, WriteRestores
        <4>4. \A e \in DOMAIN rows' : e <= k.id
          BY <1>1, <2>3, <3>3, <4>2
        <4> QED  BY <2>3, <3>1, <3>3, <4>3, <4>4 DEF JobReady, Drafts
      <3> QED  BY <2>2, <3>2, <3>3
    <2>5. ASSUME NEW d \in Creators, d # c PROVE JobReady(job[d])'
      <3>1. job'[d] = job[d] /\ JobReady(job[d]) /\ JobOK(job[d], seqno)
        BY <2>2, <2>5, GoOnly DEF Ready, Shape, JobsOK
      <3>2. job[d].pc \notin Cleaning
        BY <2>5 DEF Quiet, Solo, Links, LinkOK, Cleaning
      <3>3. ASSUME Drafts(job[d]), ~job[d].draft.full PROVE job[d].draft.prev \in Nat \ {0}
        BY <1>1, <3>1, <3>3 DEF JobOK, RowOK
      <3> QED  BY <1>2, <2>3, <3>1, <3>2, <3>3 DEF JobReady, Cleaning
    <2> QED  BY <2>4, <2>5 DEF Ready
  <1>9. CASE Cleans(c)
    <2>1. PICK k : /\ Go(c, k)
                   /\ k.pc = "idle" \/ (k.pc = "list" /\ k.id = job[c].id /\ k.calm = job[c].calm)
      BY <1>9 DEF Cleans
    <2>2. Solo /\ job[c].pc \in Cleaning
      BY <1>9 DEF Cleans, Links, LinkOK, Quiet, Cleaning
    <2>3. \A d \in Creators : job'[d] = k
      BY <2>1, <2>2, GoOnly DEF Solo
    <2>4. /\ Stored => job[c].id \in DOMAIN rows' \cup deleted
          /\ ~Lenient /\ job[c].calm => Restorable(rows', job[c].id)
          /\ DOMAIN rows' \subseteq DOMAIN rows
      BY <1>1, <1>9, CleanRestores
    <2>5. \A e \in DOMAIN rows : e <= job[c].id
      BY <1>1, <2>2 DEF JobReady
    <2>6. ASSUME NEW d \in Creators PROVE JobReady(job[d])'
      BY <1>2, <2>1, <2>3, <2>4, <2>5 DEF JobReady, Drafts, Cleaning
    <2> QED  BY <2>6 DEF Ready
  <1> QED  BY <1>4, <1>5, <1>6, <1>7, <1>8, <1>9, StepKinds

\* so does the rest of the world: a delete disturbs every call in flight
LEMMA OutsideReady ==
  ASSUME Shape, Ready,
         Progress \/ Flip \/ Tick \/ Crash \/ (\E e \in DOMAIN rows : Delete(e)) \/ UNCHANGED vars
  PROVE  Ready'
  <1>1. CASE Progress \/ Flip \/ Tick \/ UNCHANGED vars
    <2>1. UNCHANGED <<rows, deleted, job, faults>>
      BY <1>1 DEF Progress, Flip, Tick, vars, store
    <2> QED  BY <2>1 DEF Ready, JobReady, Stored
  <1>2. CASE Crash
    <2>1. job' = [c \in Creators |-> NoJob] /\ NoJob.pc = "idle"
      BY <1>2 DEF Crash, NoJob
    <2> QED  BY <2>1 DEF Ready, JobReady, Drafts, Cleaning
  <1>3. ASSUME NEW x \in DOMAIN rows, Delete(x) PROVE Ready'
    <2>1. /\ rows' = Without(rows, {x}) /\ deleted' = deleted \cup {x} /\ UNCHANGED faults
          /\ job' = [c \in Creators |-> [job[c] EXCEPT !.calm = FALSE]]
      BY <1>3 DEF Delete
    <2>2. DOMAIN rows' = DOMAIN rows \ {x}
      BY <2>1 DEF Without
    <2>3. ASSUME NEW c \in Creators PROVE JobReady(job[c])'
      <3>1. job[c] \in Job /\ JobOK(job[c], seqno) /\ JobReady(job[c])
        BY DEF Shape, JobsOK, Ready
      <3>2. Alike(job[c], job'[c]) /\ ~job'[c].calm
        BY <2>1, <3>1, UneasyTyped DEF Job
      <3> QED  BY <2>1, <2>2, <3>1, <3>2 DEF Alike, JobReady, Stored
    <2> QED  BY <2>3 DEF Ready
  <1> QED  BY <1>1, <1>2, <1>3

\* Ready is an invariant without a policy, and with one for a single creator
LEMMA ReadyAlways == Quiet => (Spec => []Ready)
  <1> SUFFICES ASSUME Quiet PROVE Spec => []Ready
    OBVIOUS
  <1>1. Init => Ready
    <2> SUFFICES ASSUME Init PROVE Ready
      OBVIOUS
    <2>1. (\A c \in Creators : job[c] = NoJob) /\ NoJob.pc = "idle"
      BY DEF Init, NoJob
    <2> QED  BY <2>1 DEF Ready, JobReady, Drafts, Cleaning
  <1>2. /\ Shape /\ Links /\ Recorded /\ Ready /\ [Next]_vars /\ Shape' /\ Links'
        => Ready'
    <2> SUFFICES ASSUME Shape, Links, Recorded, Ready, [Next]_vars, Shape', Links' PROVE Ready'
      OBVIOUS
    <2> QED  BY StepReady, OutsideReady DEF Next
  <1>3. Spec => []Links
    BY LinksAlways
  <1> QED  BY <1>1, <1>2, <1>3, ShapeAlways, RecordedAlways, PTL DEF Spec

\* A draft whose id is stored already, by whatever way, restores under it
LEMMA DraftRestores ==
  ASSUME Shape, Recorded, NEW c \in Creators, JobReady(job[c]), Drafts(job[c]),
         job[c].pc # "merge", job[c].calm, job[c].id \in DOMAIN rows
  PROVE  Restorable(rows, job[c].id)
  <1>1. PICK H : Told(H)
    BY DEF Recorded
  <1>2. Same(job[c].draft, H[job[c].id]) /\ Same(rows[job[c].id], H[job[c].id])
    BY <1>1 DEF Told, JobKept, Kept
  <1>3. rows[job[c].id].full \/ Restorable(rows, rows[job[c].id].prev)
    BY <1>2 DEF Same, JobReady
  <1>4. seqno \in Nat /\ StoreOK(rows, seqno)
    BY ChainAssumption DEF Shape, WorldOK
  <1> QED  BY <1>3, <1>4, HeadRestores

\* the answer of a call that ends
LEMMA ReturnAck ==
  ASSUME Shape, NEW c \in Creators, NEW id, Return(c, id)
  PROVE  ack'[c] = id
  BY DEF Return, Shape, WorldOK

\* a call that answers with its own id has stored a row that restores
LEMMA ReturnRestores ==
  ASSUME Shape, Shape', Links, Recorded, Ready, NEW c \in Creators, Step(c), ~Lenient,
         Returns(c), Settled(c), ack'[c] = job[c].id, ~At(c, "merge")
  PROVE  Restorable(rows', job[c].id)
  <1>1. /\ seqno \in Nat /\ DOMAIN rows \subseteq 1..seqno /\ job[c] \in Job
        /\ JobOK(job[c], seqno) /\ JobReady(job[c]) /\ job[c].calm
        /\ job[c].pc \notin {"idle", "merge"} /\ job'[c].pc = "idle" /\ job[c].id # 0
    BY ChainAssumption DEF Shape, WorldOK, StoreOK, JobsOK, Ready, Settled, Returns, At
  <1>2. PICK H : Told(H)
    BY DEF Recorded
  <1>3. ASSUME Drafts(job[c]), UNCHANGED rows, Return(c, Latest(rows)) PROVE Restorable(rows', job[c].id)
    <2>1. job[c].id = Latest(rows)
      BY <1>3, ReturnAck
    <2>2. job[c].id \in DOMAIN rows
      BY <1>1, <2>1, LatestTyped
    <2> QED  BY <1>1, <1>3, <2>2, DraftRestores
  <1>4. ASSUME Return(c, 0) PROVE FALSE
    BY <1>1, <1>4, ReturnAck
  <1>5. ASSUME NEW k, Go(c, k), k.pc # "idle" PROVE FALSE
    BY <1>1, <1>5, GoOnly
  <1>6. CASE CallDirect(c) \/ CallEngine(c) \/ Merge(c)
    BY <1>1, <1>6 DEF CallDirect, CallEngine, Merge, At
  <1>7. CASE Expect(c)
    <2>1. PICK x : Go(c, [job[c] EXCEPT !.pc = "latest", !.exp = x, !.snap = live])
      BY <1>7 DEF Expect
    <2>2. [job[c] EXCEPT !.pc = "latest", !.exp = x, !.snap = live].pc = "latest"
      BY <1>1 DEF Job
    <2> QED  BY <1>5, <2>1, <2>2
  <1>8. CASE ReadLatest(c)
    <2> DEFINE l == Latest(rows)
               q == IF l = 0 THEN 0 ELSE rows[l].pos
               k == [job[c] EXCEPT !.pc = "build", !.prev = l, !.pos = q]
               h == [job[c] EXCEPT !.pc = "check"]
    <2>1. UNCHANGED rows /\ job[c].pc = "latest"
      BY <1>8 DEF ReadLatest, store, At
    <2>2. \/ Return(c, 0)
          \/ job[c].retried /\ Return(c, l)
          \/ Go(c, h)
          \/ Go(c, k)
      BY <1>8 DEF ReadLatest, To
    <2> HIDE DEF q
    <2>3. k.pc = "build" /\ h.pc = "check"
      BY <1>1 DEF Job
    <2> HIDE DEF k, h
    <2>4. job[c].retried => Drafts(job[c])
      BY <2>1 DEF Drafts
    <2> QED  BY <1>3, <1>4, <1>5, <2>1, <2>2, <2>3, <2>4
  <1>9. CASE Build(c)
    <2> DEFINE d == BuildRow(rows, job[c].pos, job[c].snap, job[c].prev,
                             c \in Direct \/ job[c].snap.done > 0)
               q == IF c \in Direct THEN "chain" ELSE "check"
               k == [job[c] EXCEPT !.pc = q, !.id = seqno + 1, !.draft = d]
    <2>1. Go(c, k)
      BY <1>9 DEF Build
    <2>2. q # "idle"
      OBVIOUS
    <2> HIDE DEF d, q
    <2>3. k.pc = q
      BY <1>1 DEF Job
    <2> HIDE DEF k
    <2> QED  BY <1>5, <2>1, <2>2, <2>3
  <1>10. CASE Check(c)
    <2>1. UNCHANGED rows /\ Drafts(job[c])
      BY <1>10 DEF Check, store, At, Drafts
    <2> DEFINE k == [job[c] EXCEPT !.pc = "latest", !.retried = TRUE, !.snap = live]
               h == [job[c] EXCEPT !.pc = "chain"]
    <2>2. Go(c, k) \/ Go(c, h) \/ Return(c, Latest(rows))
      BY <1>10 DEF Check, To
    <2>3. k.pc = "latest" /\ h.pc = "chain"
      BY <1>1 DEF Job
    <2> HIDE DEF k, h
    <2> QED  BY <1>3, <1>5, <2>1, <2>2, <2>3
  <1>11. CASE ChainInfo(c)
    <2> DEFINE d == WithChainInfo(rows, job[c].id, job[c].draft)
               k == [job[c] EXCEPT !.pc = "save", !.draft = d]
    <2>1. Return(c, 0) \/ Go(c, k)
      BY <1>11 DEF ChainInfo, SaveFails
    <2> HIDE DEF d
    <2>2. k.pc = "save"
      BY <1>1 DEF Job
    <2> HIDE DEF k
    <2> QED  BY <1>4, <1>5, <2>1, <2>2
  <1>12. CASE Save(c)
    <2>1. job[c].pc = "save" /\ UNCHANGED <<seqno, live>>
      BY <1>12 DEF Save, At, world
    <2> DEFINE k == [job[c] EXCEPT !.pc = "retain"]
    <2>2. \/ Return(c, 0)
          \/ rows' = Put(rows, job[c].id, job[c].draft) /\ (Go(c, k) \/ Go(c, NoJob))
      BY <1>12 DEF Save, SaveFails, Persisted, To, Return
    <2>3. k.pc = "retain"
      BY <1>1 DEF Job
    <2> HIDE DEF k
    <2>4. rows' = Put(rows, job[c].id, job[c].draft) /\ Go(c, NoJob)
      BY <1>4, <1>5, <2>2, <2>3
    <2>5. NoJob.pc = "idle"
      BY DEF NoJob
    <2>6. Writes(c)
      BY <2>1, <2>4, <2>5 DEF Writes
    <2> QED  BY <1>1, <1>2, <2>6, WriteRestores
  <1>13. CASE Retain(c) \/ CleanList(c)
    <2>1. UNCHANGED rows /\ job[c].pc \in Cleaning
      BY <1>13 DEF Retain, CleanList, store, At, Cleaning
    <2> QED  BY <1>1, <2>1 DEF JobReady
  <1>14. CASE CleanApply(c)
    <2>1. job[c].pc = "apply" /\ UNCHANGED <<seqno, live>> /\ NextStrategy(c)
      BY <1>14 DEF CleanApply, At, world
    <2>2. CASE UNCHANGED rows
      BY <1>1, <2>1, <2>2 DEF JobReady, Cleaning
    <2>3. CASE rows' = Without(rows, job[c].cut)
      <3>1. \E k : /\ Go(c, k) /\ Onward(job[c], k)
                   /\ k.pc = "idle" \/ (k.pc = "list" /\ k.id = job[c].id /\ k.calm = job[c].calm)
        BY <1>1, <2>1, StrategyOnward
      <3>2. Cleans(c)
        BY <2>1, <2>3, <3>1 DEF Cleans
      <3> QED  BY <1>1, <3>2, CleanRestores
    <2> QED  BY <1>14, <2>2, <2>3 DEF CleanApply, store
  <1> QED  BY <1>6, <1>7, <1>8, <1>9, <1>10, <1>11, <1>12, <1>13, <1>14 DEF Step

\* A creation that answers with a new id has stored a row that restores, unless the
\* error handler is lenient: without a retention policy
\* for any set of concurrent creators and with one for a single creator: its base was
\* reachable when it was built, and nothing but a delete takes a link of that chain
\* away before the call answers
THEOREM NewRowAlwaysRestores == Quiet => (Spec => NewRowRestores)
  <1> SUFFICES ASSUME Quiet PROVE Spec => NewRowRestores
    OBVIOUS
  <1> DEFINE A == \A c \in Creators :
                    Returns(c) /\ Settled(c) /\ ack'[c] = job[c].id /\ ~At(c, "merge") /\ ~Lenient
                      => Restorable(rows', job[c].id)
  <1>1. Shape /\ Shape' /\ Links /\ Recorded /\ Ready /\ Next => A
    <2> SUFFICES ASSUME Shape, Shape', Links, Recorded, Ready, Next, NEW c \in Creators,
                        Returns(c), Settled(c), ack'[c] = job[c].id, ~At(c, "merge"), ~Lenient
                 PROVE  Restorable(rows', job[c].id)
      OBVIOUS
    <2>1. job[c].pc # "idle" /\ job'[c].pc = "idle" /\ ack'[c] # 0
      BY DEF Returns
    <2>2. ASSUME NEW d \in Creators, Step(d) PROVE Restorable(rows', job[c].id)
      <3>1. CASE d = c
        BY <2>2, <3>1, ReturnRestores
      <3>2. CASE d # c
        <4>1. \E k : Go(d, k)
          BY <2>2, StepKinds DEF Reads, Loads, Build, Roots, Writes, Cleans
        <4>2. job'[c] = job[c]
          BY <3>2, <4>1, GoOnly
        <4> QED  BY <2>1, <4>2
      <3> QED  BY <3>1, <3>2
    <2>3. CASE Progress \/ Flip \/ Tick
      <3>1. UNCHANGED job
        BY <2>3 DEF Progress, Flip, Tick
      <3> QED  BY <2>1, <3>1
    <2>4. CASE Crash
      <3>1. ack' = [d \in Creators |-> 0]
        BY <2>4 DEF Crash
      <3> QED  BY <2>1, <3>1
    <2>5. CASE \E e \in DOMAIN rows : Delete(e)
      <3>1. job' = [d \in Creators |-> [job[d] EXCEPT !.calm = FALSE]]
        BY <2>5 DEF Delete
      <3>2. job[c] \in Job /\ JobOK(job[c], seqno)
        BY DEF Shape, JobsOK
      <3>3. Alike(job[c], job'[c])
        BY <3>1, <3>2, UneasyTyped
      <3> QED  BY <2>1, <3>3 DEF Alike
    <2> QED  BY <2>2, <2>3, <2>4, <2>5 DEF Next
  <1>2. (Shape /\ Links /\ Recorded /\ Ready) /\ [Next]_vars /\ Shape' => [A]_vars
    BY <1>1
  <1>3. Spec => []Links
    BY LinksAlways
  <1>4. Spec => []Ready
    BY ReadyAlways
  <1>5. NewRowRestores <=> [][A]_vars
    BY DEF NewRowRestores
  <1> HIDE DEF A
  <1> QED  BY <1>2, <1>3, <1>4, <1>5, ShapeAlways, RecordedAlways, PTL DEF Spec

-----------------------------------------------------------------------------
\* a store whose restorable rows cover those of another is no worse
LEMMA BestCovers ==
  ASSUME NEW n \in Nat, NEW R, StoreOK(R, n), NEW m \in Nat, NEW Q, StoreOK(Q, m),
         \A e \in Good(R) : \E f \in Good(Q) : R[e].coords.done <= Q[f].coords.done
  PROVE  Best(Q) >= Best(R)
  <1> DEFINE B(S) == {0} \cup {S[e].coords.done : e \in {i \in DOMAIN S : Restorable(S, i)}}
  <1>1. MaxDone \in Nat
    BY ChainAssumption
  <1>2. ASSUME NEW S, NEW k \in Nat, StoreOK(S, k)
        PROVE  /\ \A e \in DOMAIN S : S[e].coords.done \in 0..MaxDone
               /\ Best(S) \in B(S) /\ Best(S) \in 0..MaxDone /\ \A x \in B(S) : x <= Best(S)
    <2>1. \A e \in DOMAIN S : S[e].coords.done \in 0..MaxDone
      <3> SUFFICES ASSUME NEW e \in DOMAIN S PROVE S[e].coords.done \in 0..MaxDone
        OBVIOUS
      <3>1. S[e] \in Row
        BY <1>2 DEF StoreOK, RowOK
      <3>2. S[e].coords \in State
        BY <3>1 DEF Row
      <3> QED  BY <3>2 DEF State
    <2>2. B(S) \in SUBSET (0..MaxDone) /\ B(S) # {}
      BY <1>1, <2>1
    <2>3. Best(S) = Max(B(S))
      BY DEF Best
    <2> HIDE DEF B
    <2>4. Max(B(S)) \in B(S) /\ \A x \in B(S) : x <= Max(B(S))
      BY <1>1, <2>2, MaxExists
    <2> QED  BY <2>1, <2>2, <2>3, <2>4
  <1>3. /\ Best(R) \in B(R) /\ Best(R) \in 0..MaxDone /\ Best(Q) \in 0..MaxDone
        /\ \A x \in B(Q) : x <= Best(Q)
        /\ \A e \in DOMAIN Q : Q[e].coords.done \in 0..MaxDone
    BY <1>2
  <1>4. CASE Best(R) = 0
    BY <1>1, <1>3, <1>4
  <1>5. CASE Best(R) # 0
    <2>1. PICK e \in Good(R) : Best(R) = R[e].coords.done
      BY <1>3, <1>5 DEF Good
    <2>2. PICK f \in Good(Q) : R[e].coords.done <= Q[f].coords.done
      BY <2>1
    <2>3. Q[f].coords.done \in B(Q) /\ f \in DOMAIN Q
      BY <2>2 DEF Good
    <2> HIDE DEF B
    <2>4. Q[f].coords.done <= Best(Q) /\ Q[f].coords.done \in 0..MaxDone
      BY <1>3, <2>3
    <2> QED  BY <1>1, <1>3, <2>1, <2>2, <2>4
  <1> QED  BY <1>4, <1>5

\* when nothing was deleted, every stored row restores
LEMMA AllRestore ==
  ASSUME NEW n \in Nat, StoreOK(rows, n), ChainIntact, deleted = {}, NEW e \in DOMAIN rows
  PROVE  Restorable(rows, e)
  <1> DEFINE S == DOMAIN rows \cap (1..e)
  <1>1. e \in Nat \ {0}
    BY DEF StoreOK
  <1>2. ClosedBack(rows, S)
    <2> SUFFICES ASSUME NEW i \in S, ~rows[i].full PROVE rows[i].prev \in S
      BY DEF ClosedBack
    <2>1. rows[i].prev \in DOMAIN rows
      BY DEF ChainIntact
    <2>2. rows[i].prev \in 1..(i - 1) /\ i \in 1..e
      BY DEF StoreOK, RowOK
    <2> QED  BY <1>1, <2>1, <2>2
  <1>3. S \in SUBSET (1..e) /\ e \in S
    BY <1>1
  <1> HIDE DEF S
  <1>4. RestoreChain(rows, e) \subseteq S
    BY <1>2, <1>3 DEF RestoreChain
  <1> QED  BY <1>1, <1>4 DEF Restorable, S

\* a policy may run where one creator appends, restores take the newest row and
\* nobody deletes rows by hand
Tended == Solo /\ ~Rewind /\ MaxDeletes = 0

\* where deletes by hand are ruled out, no row counts as deleted
LEMMA NothingDeleted ==
  ASSUME Shape, MaxDeletes = 0
  PROVE  deleted = {}
  <1>1. IsFiniteSet(deleted) /\ Cardinality(deleted) <= 0
    BY DEF Shape, WorldOK
  <1>2. Cardinality(deleted) \in Nat
    BY <1>1, FS_CardinalityType
  <1>3. Cardinality(deleted) = 0
    BY <1>1, <1>2
  <1> QED  BY <1>1, <1>3, FS_EmptySet

\* a cleanup keeps the most advanced state: that of the newest row
LEMMA CleanDurable ==
  ASSUME Tended, Shape, Links, Ready, Upward, NEW c \in Creators, Cleans(c), Shape'
  PROVE  Best(rows') >= Best(rows)
  <1> DEFINE id == Latest(rows)
  <1>1. /\ seqno \in Nat /\ StoreOK(rows, seqno) /\ seqno' \in Nat /\ StoreOK(rows', seqno')
        /\ JobOK(job[c], seqno) /\ JobReady(job[c]) /\ job[c].pc = "apply"
        /\ rows' = Without(rows, job[c].cut)
    BY ChainAssumption DEF Shape, WorldOK, JobsOK, Ready, Cleans
  <1>2. deleted = {}
    BY NothingDeleted DEF Tended
  <1> SUFFICES ASSUME DOMAIN rows # {} PROVE Best(rows') >= Best(rows)
    BY <1>1, BestCovers DEF Good
  <1>3. id \in DOMAIN rows /\ id \notin job[c].cut /\ \A e \in DOMAIN rows : e <= id
    <2>1. DOMAIN rows \subseteq 1..seqno
      BY <1>1 DEF StoreOK
    <2> QED  BY <1>1, <1>2, <2>1, LatestTyped DEF JobReady
  <1>4. Restorable(rows, id)
    BY <1>1, <1>2, <1>3, AllRestore DEF Links
  <1>5. CutSafe(job[c].cut)
    BY <1>1 DEF Links, LinkOK
  <1>6. Restorable(rows', id)
    BY <1>1, <1>3, <1>4, <1>5, CutRestores
  <1>7. id \in DOMAIN rows' /\ rows'[id] = rows[id]
    BY <1>1, <1>3 DEF Without
  <1>8. \A e \in Good(rows) : rows[e].coords.done <= rows'[id].coords.done
    <2> SUFFICES ASSUME NEW e \in Good(rows) PROVE rows[e].coords.done <= rows[id].coords.done
      BY <1>7
    <2>1. id \in Good(rows) /\ e <= id
      BY <1>3, <1>4 DEF Good
    <2> QED  BY <2>1 DEF Upward, Ascending
  <1>9. id \in Good(rows')
    BY <1>6, <1>7 DEF Good
  <1> HIDE DEF id
  <1> QED  BY <1>1, <1>8, <1>9, BestCovers

\* a step that keeps every restorable row and its record loses nothing
LEMMA KeptDurable ==
  ASSUME Shape, Shape', DOMAIN rows \subseteq DOMAIN rows',
         \A e \in DOMAIN rows : rows'[e].coords = rows[e].coords,
         \A e \in Nat \ {0} : Restorable(rows, e) => Restorable(rows', e)
  PROVE  Best(rows') >= Best(rows)
  <1>1. seqno \in Nat /\ StoreOK(rows, seqno) /\ seqno' \in Nat /\ StoreOK(rows', seqno')
    BY ChainAssumption DEF Shape, WorldOK
  <1>2. \A e \in Good(rows) : e \in Good(rows') /\ rows[e].coords.done <= rows'[e].coords.done
    BY ResultsTyped DEF Good
  <1> QED  BY <1>1, <1>2, BestCovers

\* Progress once durable stays durable: without a retention policy, whatever the
\* creators, crashes and rewinds, and with one where a single creator appends, no
\* step but a delete moves the most advanced restorable state back
THEOREM ProgressStaysDurable == Strategies = <<>> \/ Tended => (Spec => DurableProgress)
  <1> SUFFICES ASSUME Strategies = <<>> \/ Tended PROVE Spec => DurableProgress
    OBVIOUS
  <1> DEFINE D == \E e \in DOMAIN rows : Delete(e)
             A == D \/ Best(rows') >= Best(rows)
             Up == Tended => Upward
  <1>1. Quiet
    BY DEF Quiet, Tended
  <1>2. Shape /\ Shape' /\ Links /\ Recorded /\ Ready /\ Up /\ Next => A
    <2> SUFFICES ASSUME Shape, Shape', Links, Recorded, Ready, Up, Next, ~D
                 PROVE  Best(rows') >= Best(rows)
      OBVIOUS
    <2>1. ASSUME UNCHANGED rows PROVE Best(rows') >= Best(rows)
      BY <2>1, KeptDurable
    <2>2. ASSUME NEW c \in Creators, Step(c) PROVE Best(rows') >= Best(rows)
      <3>1. CASE Reads(c) \/ Loads(c) \/ Build(c) \/ Roots(c)
        BY <2>1, <3>1 DEF Reads, Loads, Build, Roots, store
      <3>2. CASE Writes(c)
        <4>1. PICK H : Told(H)
          BY DEF Recorded
        <4> QED  BY <3>2, <4>1, WriteEffect, KeptDurable
      <3>3. CASE Cleans(c)
        <4>1. Strategies # <<>>
          BY <3>3 DEF Cleans, Links, LinkOK
        <4> QED  BY <3>3, <4>1, CleanDurable
      <3> QED  BY <2>2, <3>1, <3>2, <3>3, StepKinds
    <2>3. CASE Progress \/ Flip \/ Tick \/ Crash
      BY <2>1, <2>3 DEF Progress, Flip, Tick, Crash, store
    <2> QED  BY <2>2, <2>3 DEF Next
  <1>3. (Shape /\ Links /\ Recorded /\ Ready /\ Up) /\ [Next]_vars /\ Shape' => [A]_vars
    BY <1>2
  <1>4. (Spec => []Links) /\ (Spec => []Ready)
    BY <1>1, LinksAlways, ReadyAlways
  <1>5. Spec => []Up
    <2>1. CASE Tended
      <3>1. Spec => []Upward
        BY <2>1, UpwardAlways DEF Tended
      <3>2. Upward => Up
        OBVIOUS
      <3> QED  BY <3>1, <3>2, PTL
    <2>2. CASE ~Tended
      <3>1. Up
        BY <2>2
      <3> QED  BY <3>1, PTL
    <2> QED  BY <2>1, <2>2
  <1>6. DurableProgress <=> [][A]_vars
    BY DEF DurableProgress
  <1> HIDE DEF A, Up
  <1> QED  BY <1>3, <1>4, <1>5, <1>6, ShapeAlways, RecordedAlways, PTL DEF Spec

-----------------------------------------------------------------------------
(***************************************************************************)
(* Retention by count.  The rows of a single creator rank: generations     *)
(* follow each other, and within one the positions ascend, so the newest   *)
(* MaxCheckpoints rows need less than one generation below them            *)
(* (ScanLeaves).                                                           *)
(* Between two full scans each call owes the row it added until its own    *)
(* cleanup by count has run, and the tally of those cleanups says how many *)
(* rows an incremental view may have hidden.                               *)
(***************************************************************************)
\* A row knows its generation and its place in it; generations follow each other,
\* and a position is used once in a generation
Ranked(R) ==
  /\ \A e \in DOMAIN R :
       /\ R[e].pos < Interval /\ R[e].root \in 1..e
       /\ R[e].full => R[e].root = e /\ R[e].pos = 0
       /\ ~R[e].full => /\ R[e].prev \in DOMAIN R
                        /\ R[e].root = R[R[e].prev].root
                        /\ R[e].pos = R[R[e].prev].pos + 1
  /\ \A d, e \in DOMAIN R : d < e =>
       /\ R[d].root <= R[e].root
       /\ R[d].root = R[e].root => R[d].pos < R[e].pos

\* r may be the next row of R, under the id of its own
NextIn(R, id, r) ==
  /\ \A e \in DOMAIN R : e < id
  /\ ~r.full => r.prev = Latest(R) /\ R[r.prev].pos + 1 < Interval

\* the call builds on the newest row
JobRanked(j) ==
  /\ j.pc = "build" => /\ j.prev = Latest(rows)
                       /\ j.prev # 0 => j.pos = rows[j.prev].pos
  /\ Drafts(j) /\ j.pc # "merge" => NextIn(rows, j.id, j.draft)
  /\ j.pc = "save" =>
       /\ j.draft.full => j.draft.root = j.id /\ j.draft.pos = 0
       /\ ~j.draft.full => /\ j.draft.root = rows[j.draft.prev].root
                           /\ j.draft.pos = rows[j.draft.prev].pos + 1
  /\ j.pc = "merge" => j.id \in DOMAIN rows /\ j.draft = rows[j.id]

InRank == Ranked(rows) /\ \A c \in Creators : JobRanked(job[c])

\* the next row keeps the ranks
LEMMA PutRanked ==
  ASSUME NEW n \in 0..MaxRows, NEW R, StoreOK(R, n), Ranked(R), NEW id \in 1..n, NEW r,
         RowOK(r, id), NextIn(R, id, r),
         r.full => r.root = id /\ r.pos = 0,
         ~r.full => r.root = R[r.prev].root /\ r.pos = R[r.prev].pos + 1
  PROVE  Ranked(Put(R, id, r))
  <1> DEFINE Q == Put(R, id, r)
             l == Latest(R)
  <1>0. n \in Nat /\ MaxRows \in Nat /\ Interval \in Nat \ {0}
    BY ChainAssumption
  <1>1. /\ DOMAIN Q = DOMAIN R \cup {id} /\ Q[id] = r /\ id \notin DOMAIN R
        /\ \A i \in DOMAIN R : Q[i] = R[i] /\ i \in 1..n /\ i < id
    <2>1. /\ DOMAIN Q = DOMAIN R \cup {id} /\ Q[id] = r
          /\ \A i \in DOMAIN R : i # id => Q[i] = R[i]
      BY <1>0, PutTyped
    <2>2. id \in Nat /\ \A i \in DOMAIN R : i \in 1..n /\ i < id
      BY <1>0 DEF NextIn, StoreOK
    <2> HIDE DEF Q
    <2> QED  BY <2>1, <2>2
  <1>2. /\ r.full \in BOOLEAN /\ r.prev \in Nat /\ r.root \in Nat /\ r.pos \in Nat
        /\ \A i \in DOMAIN R : /\ R[i].full \in BOOLEAN /\ R[i].prev \in Nat
                               /\ R[i].root \in Nat /\ R[i].pos \in Nat
    BY <1>0 DEF RowOK, Row, StoreOK
  <1>3. ~r.full => l \in DOMAIN R /\ r.prev = l /\ R[l].pos + 1 < Interval
    <2>1. l # 0 => l \in DOMAIN R
      BY <1>0, LatestTyped DEF StoreOK
    <2>2. ~r.full => r.prev # 0
      BY <1>1 DEF RowOK
    <2> QED  BY <2>1, <2>2 DEF NextIn
  <1>4. \A i \in DOMAIN R : i <= l
    BY <1>0, LatestTyped DEF StoreOK
  <1> HIDE DEF Q, l
  <1>5. ASSUME NEW e \in DOMAIN Q
        PROVE  /\ Q[e].pos < Interval /\ Q[e].root \in 1..e
               /\ Q[e].full => Q[e].root = e /\ Q[e].pos = 0
               /\ ~Q[e].full => /\ Q[e].prev \in DOMAIN Q
                                /\ Q[e].root = Q[Q[e].prev].root
                                /\ Q[e].pos = Q[Q[e].prev].pos + 1
    <2>1. CASE e \in DOMAIN R
      BY <1>1, <2>1 DEF Ranked
    <2>2. CASE e = id /\ r.full
      BY <1>0, <1>1, <2>2
    <2>3. CASE e = id /\ ~r.full
      <3>1. R[l].root \in 1..l /\ l < id
        BY <1>1, <1>3, <2>3 DEF Ranked
      <3>2. Q[l] = R[l] /\ l \in DOMAIN Q
        BY <1>1, <1>3, <2>3
      <3> QED  BY <1>1, <1>2, <1>3, <2>3, <3>1, <3>2
    <2> QED  BY <1>1, <2>1, <2>2, <2>3
  <1>6. ASSUME NEW d \in DOMAIN Q, NEW e \in DOMAIN Q, d < e
        PROVE  /\ Q[d].root <= Q[e].root
               /\ Q[d].root = Q[e].root => Q[d].pos < Q[e].pos
    <2>1. d \in DOMAIN R /\ Q[d] = R[d]
      BY <1>1, <1>6
    <2>2. CASE e \in DOMAIN R
      BY <1>1, <1>6, <2>1, <2>2 DEF Ranked
    <2>3. CASE e = id /\ r.full
      <3>1. R[d].root \in 1..d
        BY <2>1 DEF Ranked
      <3> QED  BY <1>1, <2>1, <2>3, <3>1
    <2>4. CASE e = id /\ ~r.full
      <3>1. /\ R[d].root <= R[l].root
            /\ R[d].root = R[l].root => R[d].pos <= R[l].pos
        <4>1. CASE d = l
          BY <1>2, <1>3, <2>4, <4>1
        <4>2. CASE d < l
          BY <1>2, <1>3, <2>1, <2>4, <4>2 DEF Ranked
        <4> QED  BY <1>1, <1>3, <1>4, <2>1, <2>4, <4>1, <4>2
      <3> QED  BY <1>1, <1>2, <1>3, <2>1, <2>4, <3>1
    <2> QED  BY <1>1, <2>2, <2>3, <2>4
  <1>7. Ranked(Q)
    BY <1>5, <1>6 DEF Ranked
  <1> QED  BY <1>7 DEF Q

\* so does a safe cut
LEMMA CutRanked ==
  ASSUME Ranked(rows), NEW cut, CutSafe(cut)
  PROVE  Ranked(Without(rows, cut))
  <1> DEFINE Q == Without(rows, cut)
  <1>1. DOMAIN Q = DOMAIN rows \ cut /\ \A i \in DOMAIN rows \ cut : Q[i] = rows[i]
    BY DEF Without
  <1> HIDE DEF Q
  <1>2. ASSUME NEW e \in DOMAIN Q
        PROVE  /\ Q[e].pos < Interval /\ Q[e].root \in 1..e
               /\ Q[e].full => Q[e].root = e /\ Q[e].pos = 0
               /\ ~Q[e].full => /\ Q[e].prev \in DOMAIN Q
                                /\ Q[e].root = Q[Q[e].prev].root
                                /\ Q[e].pos = Q[Q[e].prev].pos + 1
    BY <1>1 DEF Ranked, CutSafe
  <1>3. Ranked(Q)
    BY <1>1, <1>2 DEF Ranked
  <1> QED  BY <1>3 DEF Q

\* the next locals of a single creator keep the ranks if the store does
LEMMA LocalRanked ==
  ASSUME Shape, Solo, NEW c \in Creators, NEW k, Go(c, k), Ranked(rows'),
         \/ UNCHANGED rows /\ JobRanked(k)
         \/ k.pc \in {"idle", "retain", "list"}
  PROVE  InRank'
  <1>1. \A d \in Creators : job'[d] = k
    BY GoOnly DEF Solo
  <1>2. CASE UNCHANGED rows /\ JobRanked(k)
    BY <1>1, <1>2 DEF InRank, JobRanked
  <1>3. CASE k.pc \in {"idle", "retain", "list"}
    BY <1>1, <1>3 DEF InRank, JobRanked, Drafts
  <1> QED  BY <1>2, <1>3

\* the steps of a single creator keep the ranks
LEMMA StepRanked ==
  ASSUME Shape, Links, InRank, Solo, NEW c \in Creators, Step(c)
  PROVE  InRank'
  <1> DEFINE j == job[c]
  <1>1. /\ seqno \in Nat /\ seqno \in 0..MaxRows /\ StoreOK(rows, seqno) /\ JobOK(j, seqno)
        /\ Interval \in Nat \ {0} /\ MaxRows \in Nat /\ j \in Job
    BY ChainAssumption DEF Shape, WorldOK, JobsOK
  <1>2. Ranked(rows) /\ JobRanked(j)
    BY DEF InRank
  <1>3. CASE Reads(c)
    <2>1. PICK k : Go(c, k) /\ Onward(j, k)
      BY <1>3 DEF Reads
    <2>2. JobRanked(k)
      BY <1>2, <2>1 DEF JobRanked, Onward
    <2>3. UNCHANGED rows
      BY <1>3 DEF Reads
    <2> QED  BY <1>2, <2>1, <2>2, <2>3, LocalRanked
  <1>4. CASE Loads(c)
    <2>1. PICK k : Go(c, k) /\ k.pc = "merge" /\ k.id = Latest(rows) /\ k.draft = rows[Latest(rows)]
      BY <1>4 DEF Loads
    <2>2. Latest(rows) \in DOMAIN rows /\ UNCHANGED rows
      BY <1>1, <1>4, LatestTyped DEF Loads, StoreOK
    <2>3. JobRanked(k)
      BY <2>1, <2>2 DEF JobRanked
    <2> QED  BY <1>2, <2>1, <2>2, <2>3, LocalRanked
  <1>5. CASE Build(c)
    <2> DEFINE p == IF c \in Direct THEN "chain" ELSE "check"
               b == c \in Direct \/ j.snap.done > 0
               r == BuildRow(rows, j.pos, j.snap, j.prev, b)
               k == [j EXCEPT !.pc = p, !.id = seqno + 1, !.draft = r]
    <2>1. Go(c, k) /\ j.pc = "build" /\ UNCHANGED rows
      BY <1>5 DEF Build, At, store
    <2>2. NextIn(rows, seqno + 1, r)
      <3>1. \A e \in DOMAIN rows : e < seqno + 1
        BY <1>1 DEF StoreOK
      <3>2. ASSUME ~r.full PROVE r.prev = Latest(rows) /\ rows[r.prev].pos + 1 < Interval
        <4>1. j.prev = Latest(rows) /\ (j.prev # 0 => j.pos = rows[j.prev].pos)
          BY <1>2, <2>1 DEF JobRanked
        <4>2. /\ j.prev # 0 /\ (j.pos + 1) % Interval # 0
              /\ r = DeltaRow(j.snap, j.prev, b, rows[FindBase(rows, j.prev)])
          BY <3>2 DEF BuildRow, FullRow
        <4>3. r.prev = j.prev
          BY <4>2 DEF DeltaRow
        <4>4. j.prev \in DOMAIN rows
          BY <1>1, <4>1, <4>2, LatestTyped DEF StoreOK
        <4>5. j.pos \in Nat /\ j.pos < Interval
          BY <1>1, <1>2, <4>1, <4>2, <4>4 DEF Ranked, Job
        <4>6. j.pos + 1 # Interval
          BY <1>1, <4>2
        <4> QED  BY <1>1, <4>1, <4>2, <4>3, <4>5, <4>6
      <3> QED  BY <3>1, <3>2 DEF NextIn
    <2> HIDE DEF r, b
    <2>3. k.pc \in {"chain", "check"} /\ k.id = seqno + 1 /\ k.draft = r
      BY <1>1 DEF Job
    <2> HIDE DEF k
    <2>4. JobRanked(k)
      BY <2>2, <2>3 DEF JobRanked
    <2> QED  BY <1>2, <2>1, <2>4, LocalRanked
  <1>6. CASE Roots(c)
    <2> DEFINE d == j.draft
               q == WithChainInfo(rows, j.id, d)
    <2>1. /\ j.pc = "chain" /\ UNCHANGED rows /\ (d.full \/ d.prev \in DOMAIN rows)
      BY <1>6 DEF Roots
    <2>2. PICK k : Go(c, k) /\ k.pc = "save" /\ k.id = j.id /\ k.draft = q
      BY <1>6 DEF Roots
    <2>3. NextIn(rows, j.id, d) /\ j.id \in 1..seqno /\ RowOK(d, j.id)
      BY <1>1, <1>2, <2>1 DEF JobRanked, Drafts, JobOK
    <2>4. /\ q.full = d.full /\ q.prev = d.prev
          /\ q.root = IF d.full THEN j.id ELSE rows[d.prev].root
          /\ q.pos = IF d.full THEN 0 ELSE rows[d.prev].pos + 1
      <3> DEFINE x == IF d.full THEN j.id ELSE rows[d.prev].root
                 y == IF d.full THEN 0 ELSE rows[d.prev].pos + 1
      <3>1. q = [d EXCEPT !.root = x, !.pos = y]
        BY DEF WithChainInfo
      <3> HIDE DEF x, y, q
      <3>2. q.full = d.full /\ q.prev = d.prev /\ q.root = x /\ q.pos = y
        BY <2>3, <3>1 DEF RowOK, Row
      <3> QED  BY <3>2 DEF x, y
    <2> HIDE DEF q, d
    <2>5. JobRanked(k)
      <3>1. NextIn(rows, k.id, k.draft)
        BY <2>2, <2>3, <2>4 DEF NextIn
      <3> QED  BY <2>2, <2>4, <3>1 DEF JobRanked
    <2> QED  BY <1>2, <2>1, <2>2, <2>5, LocalRanked
  <1>7. CASE Writes(c)
    <2>1. PICK k, r :
            /\ rows' = Put(rows, j.id, r) /\ Go(c, k) /\ k.pc \in {"idle", "retain"}
            /\ \/ j.pc = "save" /\ r = j.draft
               \/ j.pc = "merge" /\ r = WithChainInfo(rows, j.id, j.draft)
      BY <1>7 DEF Writes
    <2>2. j.id \in 1..seqno /\ RowOK(j.draft, j.id)
      BY <1>1, <2>1 DEF JobOK, Drafts
    <2>3. CASE j.pc = "save" /\ r = j.draft
      <3>1. Drafts(j) /\ j.pc # "merge"
        BY <2>3 DEF Drafts
      <3>2. /\ NextIn(rows, j.id, r)
            /\ r.full => r.root = j.id /\ r.pos = 0
            /\ ~r.full => r.root = rows[r.prev].root /\ r.pos = rows[r.prev].pos + 1
        BY <1>2, <2>3, <3>1 DEF JobRanked
      <3>3. Ranked(Put(rows, j.id, r))
        BY <1>1, <1>2, <2>2, <2>3, <3>2, PutRanked
      <3> QED  BY <2>1, <3>3, LocalRanked
    <2>4. CASE j.pc = "merge" /\ r = WithChainInfo(rows, j.id, j.draft)
      <3>1. j.id \in DOMAIN rows /\ j.draft = rows[j.id]
        BY <1>2, <2>4 DEF JobRanked
      <3> DEFINE d == rows[j.id]
                 x == IF d.full THEN j.id ELSE rows[d.prev].root
                 y == IF d.full THEN 0 ELSE rows[d.prev].pos + 1
      <3>2. r = [d EXCEPT !.root = x, !.pos = y]
        BY <2>4, <3>1 DEF WithChainInfo
      <3>3. x = d.root /\ y = d.pos /\ d \in Row
        BY <1>2, <2>2, <3>1 DEF Ranked, RowOK
      <3> HIDE DEF x, y, d
      <3>4. r = d
        BY <3>2, <3>3 DEF Row
      <3>5. DOMAIN rows' = DOMAIN rows /\ \A i \in DOMAIN rows : rows'[i] = rows[i]
        BY <2>1, <3>1, <3>4 DEF Put, d
      <3>6. Ranked(rows')
        BY <1>2, <3>5 DEF Ranked
      <3> QED  BY <2>1, <3>6, LocalRanked
    <2> QED  BY <2>1, <2>3, <2>4
  <1>8. CASE Cleans(c)
    <2>1. PICK k : Go(c, k) /\ k.pc \in {"idle", "list"}
      BY <1>8 DEF Cleans
    <2>2. rows' = Without(rows, j.cut) /\ CutSafe(j.cut)
      BY <1>8 DEF Cleans, Links, LinkOK
    <2>3. Ranked(rows')
      BY <1>2, <2>2, CutRanked
    <2> QED  BY <2>1, <2>3, LocalRanked
  <1> QED  BY <1>3, <1>4, <1>5, <1>6, <1>7, <1>8, StepKinds

\* Retention is on its own: one engine creator appends, and nobody deletes rows by
\* hand
Sole == (\E c : Engine = {c}) /\ Direct = {} /\ MaxDeletes = 0

\* then the rows are ranked
LEMMA RankAlways == Sole => (Spec => []InRank)
  <1> SUFFICES ASSUME Sole PROVE Spec => []InRank
    OBVIOUS
  <1>1. Solo
    BY DEF Sole, Solo, Creators
  <1>2. Init => InRank
    <2> SUFFICES ASSUME Init PROVE InRank
      OBVIOUS
    <2>1. DOMAIN rows = {} /\ \A c \in Creators : job[c].pc = "idle"
      BY DEF Init, NoJob
    <2> QED  BY <2>1 DEF InRank, Ranked, JobRanked, Drafts
  <1>3. Shape /\ Links /\ InRank /\ [Next]_vars => InRank'
    <2> SUFFICES ASSUME Shape, Links, InRank, [Next]_vars PROVE InRank'
      OBVIOUS
    <2>1. ASSUME UNCHANGED <<rows, job>> PROVE InRank'
      BY <2>1 DEF InRank, JobRanked
    <2>2. CASE Crash
      <3>1. UNCHANGED rows /\ \A c \in Creators : job'[c].pc = "idle"
        BY <2>2 DEF Crash, store, NoJob
      <3> QED  BY <3>1 DEF InRank, JobRanked, Drafts
    <2>3. CASE \E e \in DOMAIN rows : Delete(e)
      <3>1. Cardinality(deleted) < 0
        BY <2>3 DEF Delete, Sole
      <3>2. Cardinality(deleted) = 0
        BY NothingDeleted, FS_EmptySet DEF Sole
      <3> QED  BY <3>1, <3>2
    <2>4. CASE Progress \/ Flip \/ Tick \/ UNCHANGED vars
      BY <2>1, <2>4 DEF Progress, Flip, Tick, store, vars
    <2> QED  BY <1>1, <2>2, <2>3, <2>4, StepRanked DEF Next
  <1>4. Spec => []Links
    BY <1>1, LinksAlways DEF Quiet
  <1> QED  BY <1>2, <1>3, <1>4, ShapeAlways, PTL DEF Spec

-----------------------------------------------------------------------------
\* the chain of a row of a chain is a part of it
LEMMA ChainPart ==
  ASSUME NEW n \in Nat, NEW R, StoreOK(R, n), NEW e \in Nat \ {0}, NEW i \in RestoreChain(R, e)
  PROVE  RestoreChain(R, i) \subseteq RestoreChain(R, e)
  <1> DEFINE C == RestoreChain(R, e)
             S == C \cap (1..i)
  <1>1. i \in 1..e
    BY DEF RestoreChain
  <1>2. ClosedBack(R, S)
    <2> SUFFICES ASSUME NEW d \in S, d \in DOMAIN R, ~R[d].full PROVE R[d].prev \in S
      BY DEF ClosedBack
    <2>1. R[d].prev \in 1..(d - 1) /\ d \in 1..i
      BY <1>1 DEF StoreOK, RowOK
    <2>2. R[d].prev \in C
      BY <2>1, ChainClosed
    <2> QED  BY <1>1, <2>1, <2>2
  <1>3. S \in SUBSET (1..i) /\ i \in S
    BY <1>1
  <1> HIDE DEF S
  <1>4. RestoreChain(R, i) \subseteq S
    BY <1>2, <1>3 DEF RestoreChain
  <1> QED  BY <1>4 DEF S

\* the newer rows of a store
Above(R, i) == {d \in DOMAIN R : d > i}

\* rows are finitely many
LEMMA RowsFinite ==
  ASSUME NEW n \in Nat, NEW R, StoreOK(R, n), NEW T \in SUBSET DOMAIN R
  PROVE  IsFiniteSet(T) /\ Cardinality(T) \in Nat
  <1>1. IsFiniteSet(1..n) /\ T \in SUBSET (1..n)
    BY FS_Interval DEF StoreOK
  <1>2. IsFiniteSet(T)
    BY <1>1, FS_Subset
  <1> QED  BY <1>2, FS_CardinalityType

\* Retention by count spares MaxCheckpoints rows, the newest ones
LEMMA SparedNewest ==
  ASSUME NEW n \in Nat, NEW R, StoreOK(R, n), DOMAIN R # {}, MaxCheckpoints > 0
  PROVE  LET cand == Candidates(R, "count")
         IN  \E m \in DOMAIN R \ cand :
               /\ \A i \in cand : i < m /\ \A d \in DOMAIN R : d < i => d \in cand
               /\ \A i \in DOMAIN R \ cand : m <= i
               /\ Cardinality(DOMAIN R \ cand) <= MaxCheckpoints
  <1> DEFINE cand == Candidates(R, "count")
             K == DOMAIN R \ cand
             l == Latest(R)
  <1>0. MaxCheckpoints \in Nat /\ DOMAIN R \subseteq Nat
    BY ChainAssumption DEF StoreOK
  <1>1. l \in DOMAIN R /\ (\A i \in DOMAIN R : i <= l) /\ l \in K
    <2>1. (l # 0 => l \in DOMAIN R) /\ (\A i \in DOMAIN R : i <= l)
      BY LatestTyped DEF StoreOK
    <2>2. l # 0
      BY <2>1 DEF StoreOK
    <2>3. l \notin cand
      BY DEF Candidates
    <2> QED  BY <2>1, <2>2, <2>3
  <1>2. PICK m \in K : \A y \in K : ~(<<y, m>> \in OpToRel(<, Nat))
    <2>1. K \subseteq Nat /\ K # {}
      BY <1>0, <1>1
    <2> HIDE DEF K
    <2> QED  BY <2>1, NatLessThanWellFounded, WFMin
  <1>3. \A y \in K : m <= y
    <2>1. K \subseteq Nat
      BY <1>0
    <2> HIDE DEF K
    <2>2. \A y \in K : ~(y < m)
      BY <1>2, <2>1 DEF OpToRel
    <2> QED  BY <2>1, <2>2
  <1>4. \A i \in DOMAIN R : i \in cand <=> i # l /\ Cardinality(Above(R, i)) >= MaxCheckpoints
    BY DEF Candidates, Above
  <1>5. \A i, d \in DOMAIN R : d < i => Cardinality(Above(R, i)) <= Cardinality(Above(R, d))
    <2> SUFFICES ASSUME NEW i \in DOMAIN R, NEW d \in DOMAIN R, d < i
                 PROVE  Cardinality(Above(R, i)) <= Cardinality(Above(R, d))
      OBVIOUS
    <2>1. Above(R, i) \in SUBSET Above(R, d) /\ Above(R, d) \in SUBSET DOMAIN R
      BY <1>0 DEF Above
    <2> QED  BY <2>1, RowsFinite, FS_Subset
  <1>6. \A i \in DOMAIN R : Cardinality(Above(R, i)) \in Nat /\ IsFiniteSet(Above(R, i))
    <2>1. \A i \in DOMAIN R : Above(R, i) \in SUBSET DOMAIN R
      BY DEF Above
    <2> QED  BY <2>1, RowsFinite
  <1>7. ASSUME NEW i \in cand PROVE i < m /\ \A d \in DOMAIN R : d < i => d \in cand
    <2>1. i \in DOMAIN R /\ i # l /\ Cardinality(Above(R, i)) >= MaxCheckpoints
      BY <1>4 DEF Candidates
    <2>2. ASSUME NEW d \in DOMAIN R, d < i PROVE d \in cand
      <3>1. d # l
        BY <1>0, <1>1, <2>1, <2>2
      <3>2. Cardinality(Above(R, d)) >= MaxCheckpoints
        BY <1>0, <1>5, <1>6, <2>1, <2>2
      <3> QED  BY <1>4, <3>1, <3>2
    <2>3. i # m /\ ~(m < i)
      BY <2>2
    <2> QED  BY <1>0, <2>1, <2>2, <2>3
  <1>8. Cardinality(Above(R, m)) <= MaxCheckpoints - 1
    <2>1. CASE m = l
      <3>1. Above(R, m) = {}
        BY <1>0, <1>1, <2>1 DEF Above
      <3>2. Cardinality(Above(R, m)) = 0
        BY <3>1, FS_EmptySet
      <3> QED  BY <1>0, <3>2
    <2>2. CASE m # l
      BY <1>0, <1>4, <1>6, <2>2
    <2> QED  BY <2>1, <2>2
  <1>9. Cardinality(K) <= MaxCheckpoints
    <2> DEFINE A == Above(R, m)
    <2>1. K \in SUBSET (A \cup {m})
      BY <1>0, <1>3 DEF Above
    <2>2. IsFiniteSet(A) /\ Cardinality(A) \in Nat /\ Cardinality(A) <= MaxCheckpoints - 1
      BY <1>6, <1>8
    <2> HIDE DEF A, K
    <2>3. IsFiniteSet(A \cup {m}) /\ Cardinality(A \cup {m}) <= Cardinality(A) + 1
      BY <2>2, FS_AddElement
    <2>4. Cardinality(A \cup {m}) \in Nat
      BY <2>3, FS_CardinalityType
    <2>5. Cardinality(K) <= Cardinality(A \cup {m}) /\ IsFiniteSet(K)
      BY <2>1, <2>3, FS_Subset
    <2>6. Cardinality(K) \in Nat
      BY <2>5, FS_CardinalityType
    <2> QED  BY <1>0, <2>2, <2>3, <2>4, <2>5, <2>6
  <1> QED  BY <1>3, <1>7, <1>9

\* What such a cleanup spares because newer rows need it is a part of the generation
\* of the oldest of them
LEMMA NeededFew ==
  ASSUME NEW n \in Nat, NEW R, StoreOK(R, n), NEW H, Sound(H, n), Kept(R, H), Ranked(R),
         \A e \in DOMAIN R : Restorable(R, e),
         NEW cand \in SUBSET DOMAIN R, NEW m \in DOMAIN R \ cand,
         \A i \in cand : i < m, \A i \in DOMAIN R \ cand : m <= i
  PROVE  Cardinality(cand \cap Needed(R, cand)) <= Interval - 1
  <1> DEFINE G == cand \cap Needed(R, cand)
             p == R[m].pos
             f == [i \in G |-> R[i].pos]
  <1>0. DOMAIN R \subseteq Nat \ {0} /\ \A i \in DOMAIN R : R[i].root \in Nat /\ R[i].pos \in Nat
    BY ChainAssumption DEF StoreOK, RowOK, Row
  <1>1. ASSUME NEW i \in G PROVE R[i].root = R[m].root /\ R[i].pos < p /\ i \in DOMAIN R
    <2>1. PICK j \in DOMAIN R \ cand : ~R[j].full /\ i \in RestoreChain(R, R[j].prev)
      BY DEF Needed
    <2>2. R[j].prev \in DOMAIN R /\ R[j].root = R[R[j].prev].root
      BY <2>1 DEF Ranked
    <2>3. R[i].root = R[j].root
      BY <2>1, <2>2, OneGeneration
    <2>4. i \in DOMAIN R /\ i < m /\ m <= j
      OBVIOUS
    <2>5. R[i].root <= R[m].root /\ (R[i].root = R[m].root => R[i].pos < R[m].pos)
      BY <2>4 DEF Ranked
    <2>6. R[m].root <= R[j].root
      <3>1. CASE m = j
        BY <1>0, <3>1
      <3>2. CASE m < j
        BY <2>1, <3>2 DEF Ranked
      <3> QED  BY <1>0, <2>1, <2>4, <3>1, <3>2
    <2> QED  BY <1>0, <2>1, <2>3, <2>4, <2>5, <2>6
  <1>2. p \in Nat /\ p <= Interval - 1 /\ Interval \in Nat
    BY <1>0, ChainAssumption DEF Ranked
  <1>3. \A i, d \in G : R[i].pos = R[d].pos => i = d
    <2> SUFFICES ASSUME NEW i \in G, NEW d \in G, i < d PROVE R[i].pos < R[d].pos
      BY <1>0, <1>1
    <2> QED  BY <1>1 DEF Ranked
  <1>4. \A i \in G : R[i].pos \in 0..(p - 1)
    BY <1>0, <1>1, <1>2
  <1> HIDE DEF G, p
  <1>5. f \in Injection(G, 0..(p - 1))
    BY <1>3, <1>4 DEF Injection, IsInjective
  <1>6. IsFiniteSet(0..(p - 1)) /\ Cardinality(0..(p - 1)) = p
    BY <1>2, FS_Interval
  <1> HIDE DEF f
  <1>7. Cardinality(G) <= p /\ IsFiniteSet(G)
    BY <1>5, <1>6, FS_Injection
  <1>8. Cardinality(G) \in Nat
    BY <1>7, FS_CardinalityType
  <1> QED  BY <1>2, <1>7, <1>8 DEF G

\* A full scan by count leaves MaxCheckpoints rows and the part of one generation
\* that these need
LEMMA ScanLeaves ==
  ASSUME NEW n \in Nat, NEW R, StoreOK(R, n), NEW H, Sound(H, n), Kept(R, H), Ranked(R),
         \A e \in DOMAIN R : Restorable(R, e), MaxCheckpoints > 0
  PROVE  Cardinality(DOMAIN R \ Removal(R, "count")) <= MaxCheckpoints + Interval - 1
  <1>0. MaxCheckpoints \in Nat /\ Interval \in Nat \ {0} /\ DOMAIN R \subseteq Nat \ {0}
    BY ChainAssumption DEF StoreOK
  <1>1. CASE DOMAIN R = {}
    <2>1. DOMAIN R \ Removal(R, "count") = {}
      BY <1>1
    <2>2. Cardinality(DOMAIN R \ Removal(R, "count")) = 0
      BY <2>1, FS_EmptySet
    <2> QED  BY <1>0, <2>2
  <1>2. CASE DOMAIN R # {}
    <2> DEFINE cand == Candidates(R, "count")
               K == DOMAIN R \ cand
               N == Needed(R, cand)
               G == cand \cap N
               kept == cand \ (N \cup ChainGroup(R, cand))
    <2>1. PICK m \in K :
               /\ \A i \in cand : i < m /\ \A d \in DOMAIN R : d < i => d \in cand
               /\ \A i \in K : m <= i
               /\ Cardinality(K) <= MaxCheckpoints
      BY <1>2, SparedNewest
    <2>2. cand \in SUBSET DOMAIN R /\ Latest(R) \notin cand
      BY DEF Candidates
    <2>3. Removal(R, "count") = (kept \ Needed(R, kept)) \ {Latest(R)}
      BY DEF Removal
    <2>4. ChainGroup(R, cand) = {}
      <3> SUFFICES ASSUME NEW i \in cand, R[i].root # i PROVE R[i].root \in cand
        BY DEF ChainGroup
      <3>1. R[i].root \in RestoreChain(R, i)
        BY <2>2, OneGeneration
      <3>2. R[i].root \in DOMAIN R
        BY <2>2, <3>1 DEF Restorable
      <3>3. R[i].root \in 1..i
        BY <2>2 DEF Ranked
      <3> QED  BY <1>0, <2>1, <2>2, <3>2, <3>3
    <2> HIDE DEF cand
    <2>5. ASSUME NEW i \in kept PROVE i \notin Needed(R, kept)
      <3> SUFFICES ASSUME i \in Needed(R, kept) PROVE FALSE
        OBVIOUS
      <3>1. PICK j \in DOMAIN R \ kept : ~R[j].full /\ i \in RestoreChain(R, R[j].prev)
        BY DEF Needed
      <3>2. j \in K \/ j \in N
        BY <2>4
      <3>3. CASE j \in K
        <4>1. i \in N
          BY <3>1, <3>3 DEF Needed
        <4> QED  BY <4>1
      <3>4. CASE j \in N
        <4>1. PICK h \in DOMAIN R \ cand : ~R[h].full /\ j \in RestoreChain(R, R[h].prev)
          BY <3>4 DEF Needed
        <4> DEFINE q == R[h].prev
        <4>2. q \in Nat \ {0}
          BY <1>0, <4>1 DEF StoreOK, RowOK
        <4>3. R[j].prev \in 1..(j - 1)
          BY <3>1 DEF StoreOK, RowOK
        <4>4. R[j].prev \in RestoreChain(R, q)
          BY <3>1, <4>1, <4>2, <4>3, ChainClosed
        <4>5. i \in RestoreChain(R, q)
          BY <3>1, <4>2, <4>4, ChainPart
        <4>6. i \in N
          BY <4>1, <4>5 DEF Needed
        <4> QED  BY <4>6
      <3> QED  BY <3>2, <3>3, <3>4
    <2> DEFINE L == DOMAIN R \ Removal(R, "count")
    <2>6. L \in SUBSET (K \cup G)
      <3> SUFFICES ASSUME NEW i \in cand, i \notin N PROVE i \in Removal(R, "count")
        OBVIOUS
      <3>1. i \in kept
        BY <2>4
      <3> QED  BY <2>2, <2>3, <2>5, <3>1
    <2>7. Cardinality(G) <= Interval - 1
      BY <2>1, <2>2, NeededFew
    <2>8. /\ IsFiniteSet(K) /\ Cardinality(K) \in Nat /\ IsFiniteSet(G) /\ Cardinality(G) \in Nat
          /\ IsFiniteSet(K \cup G) /\ Cardinality(K \cup G) \in Nat
          /\ IsFiniteSet(K \cap G) /\ Cardinality(K \cap G) \in Nat
          /\ IsFiniteSet(L) /\ Cardinality(L) \in Nat
      <3>1. /\ K \in SUBSET DOMAIN R /\ G \in SUBSET DOMAIN R /\ (K \cup G) \in SUBSET DOMAIN R
            /\ (K \cap G) \in SUBSET DOMAIN R /\ L \in SUBSET DOMAIN R
        BY <2>2
      <3> HIDE DEF K, G, L
      <3> QED  BY <3>1, RowsFinite
    <2> HIDE DEF K, G, L
    <2>9. Cardinality(K \cup G) = Cardinality(K) + Cardinality(G) - Cardinality(K \cap G)
      BY <2>8, FS_Union
    <2>10. Cardinality(L) <= Cardinality(K \cup G)
      BY <2>6, <2>8, FS_Subset
    <2>11. Cardinality(L) <= MaxCheckpoints + Interval - 1
      BY <1>0, <2>1, <2>7, <2>8, <2>9, <2>10
    <2> QED  BY <2>11 DEF L
  <1> QED  BY <1>1, <1>2

-----------------------------------------------------------------------------
\* division leaves a remainder below the divisor
LEMMA Division ==
  ASSUME NEW d \in Nat \ {0}, NEW x \in Nat
  PROVE  x \div d \in Nat /\ x - (x % d) = d * (x \div d) /\ x % d \in 0..(d - 1)
  <1>1. x - (x % d) = d * (x \div d)
    BY Z3
  <1>2. x \div d \in Nat /\ x % d \in 0..(d - 1)
    OBVIOUS
  <1> QED  BY <1>1, <1>2

\* and only one number is that remainder
LEMMA RemainderUnique ==
  ASSUME NEW d \in Nat \ {0}, NEW k \in Nat, NEW r \in 0..(d - 1), NEW x \in Nat, x - r = d * k
  PROVE  x % d = r
  <1> DEFINE m == x \div d
             s == x % d
  <1>1. s \in 0..(d - 1) /\ x - s = d * m /\ m \in Nat
    BY Division
  <1> SUFFICES s = r
    OBVIOUS
  <1> HIDE DEF s, m
  <1>2. CASE m < k
    <2>1. d * (m + 1) <= d * k
      BY <1>1, <1>2
    <2>2. d * (m + 1) = d * m + d
      BY <1>1
    <2> QED  BY <1>1, <2>1, <2>2
  <1>3. CASE m > k
    <2>1. d * (k + 1) <= d * m
      BY <1>1, <1>3
    <2>2. d * (k + 1) = d * k + d
      BY <1>1
    <2> QED  BY <1>1, <2>1, <2>2
  <1>4. CASE m = k
    <2>1. d * m = d * k
      BY <1>4
    <2> QED  BY <1>1, <2>1
  <1> QED  BY <1>1, <1>2, <1>3, <1>4

\* so the remainder of a number is one more than that of the number before, or 0
LEMMA RemainderBefore ==
  ASSUME NEW d \in Nat \ {0}, NEW x \in Nat, x % d # 0
  PROVE  x > 0 /\ ((x - 1) % d) + 1 = x % d
  <1> DEFINE k == x \div d
             r == x % d
  <1>1. r \in 0..(d - 1) /\ x - r = d * k /\ k \in Nat
    BY Division
  <1>2. r # 0
    OBVIOUS
  <1> HIDE DEF r, k
  <1>3. x > 0
    <2>1. d * k >= 0
      BY <1>1
    <2> QED  BY <1>1, <1>2, <2>1
  <1>4. r - 1 \in 0..(d - 1) /\ x - 1 \in Nat /\ (x - 1) - (r - 1) = d * k
    BY <1>1, <1>2, <1>3
  <1>5. (x - 1) % d = r - 1
    BY <1>1, <1>4, RemainderUnique
  <1> QED  BY <1>1, <1>3, <1>5 DEF r

\* and twice a multiple is a multiple
LEMMA RemainderTwice ==
  ASSUME NEW d \in Nat \ {0}, NEW x \in Nat, x % d = 0
  PROVE  (2 * x) % d = 0
  <1> DEFINE k == x \div d
  <1>1. x = d * k /\ k \in Nat
    BY Division
  <1> HIDE DEF k
  <1>2. 2 * x - 0 = d * (2 * k) /\ 2 * k \in Nat /\ 0 \in 0..(d - 1)
    BY <1>1
  <1> QED  BY <1>2, RemainderUnique

-----------------------------------------------------------------------------
\* what a full scan by count leaves at most
Base == MaxCheckpoints + Interval - 1

\* the cleanups by count that may have looked at a part of the store only since the
\* last full scan, when there were q of them: every FullScan-th looks at all of it
Since(q) == IF q = 0 THEN 0 ELSE (q - 1) % FullScan

\* strategy s of the call is next
Cleanup(j, s) == j.pc \in {"list", "apply"} /\ Head(j.todo) = s

\* the call has added a row and its cleanup by count is still to come
Owes(j) == j.pc = "retain" \/ Cleanup(j, "count")

\* q cleanups by count have run, each followed by one by age if there is such a
\* policy; each of them has made up for one row
Turn(j, q) ==
  /\ runs = IF MaxAge = 0 THEN q ELSE IF Cleanup(j, "time") THEN 2 * q - 1 ELSE 2 * q
  /\ Cardinality(DOMAIN rows) <= Base + Since(q) + (IF Owes(j) THEN 1 ELSE 0) + faults

\* the strategies of the call in order; a cleanup about to be applied still goes by
\* the runs it has read, and a full scan takes all but Base rows
JobTurn(j) ==
  /\ j.pc \in {"list", "apply"} =>
       IF MaxAge = 0 THEN j.todo = <<"count">>
       ELSE j.todo = <<"count", "time">> \/ j.todo = <<"time">>
  /\ j.pc = "apply" =>
       /\ j.exp = runs
       /\ Head(j.todo) = "count" /\ runs % FullScan = 0 =>
            Cardinality(DOMAIN rows \ j.cut) <= Base

Tally(j) == JobTurn(j) /\ (MaxAge = 0 \/ faults = 0 => \E q \in Nat : Turn(j, q))

\* the rows are accounted for
Tallied == \A c \in Creators : Tally(job[c])

\* the strategies of a policy with a limit on the count
LEMMA CountFirst ==
  ASSUME MaxCheckpoints > 0
  PROVE  Strategies = IF MaxAge = 0 THEN <<"count">> ELSE <<"count", "time">>
  <1>1. MaxAge \in Nat
    BY ChainAssumption
  <1>2. CASE MaxAge = 0
    <2>1. Strategies = <<"count">> \o <<>>
      BY <1>2 DEF Strategies
    <2>2. <<"count">> \o <<>> = <<"count">>
      OBVIOUS
    <2> QED  BY <1>2, <2>1, <2>2
  <1>3. CASE MaxAge # 0
    <2>1. Strategies = <<"count">> \o <<"time">>
      BY <1>1, <1>3 DEF Strategies
    <2>2. <<"count">> \o <<"time">> = <<"count", "time">>
      <3> DEFINE t == <<"count">> \o <<"time">>
                 u == <<"count", "time">>
      <3>1. /\ t \in Seq({"count", "time"}) /\ Len(t) = 2 /\ t[1] = "count" /\ t[2] = "time"
        OBVIOUS
      <3>2. /\ u \in Seq({"count", "time"}) /\ Len(u) = 2 /\ u[1] = "count" /\ u[2] = "time"
        OBVIOUS
      <3> HIDE DEF t, u
      <3>3. t = u
        BY <3>1, <3>2
      <3> QED  BY <3>3 DEF t, u
    <2> QED  BY <1>3, <2>1, <2>2
  <1> QED  BY <1>2, <1>3

\* what is tallied are numbers, and rows are finitely many
LEMMA TallyTyped ==
  ASSUME Shape
  PROVE  /\ faults \in Nat /\ runs \in Nat /\ FullScan \in Nat \ {0} /\ Base \in Nat
         /\ MaxCheckpoints <= Base /\ MaxAge \in Nat /\ MaxCheckpoints \in Nat
         /\ \A q \in Nat : Since(q) \in 0..(FullScan - 1)
         /\ \A T \in SUBSET DOMAIN rows : IsFiniteSet(T) /\ Cardinality(T) \in Nat
  <1>1. faults \in Nat /\ runs \in Nat /\ FullScan \in Nat \ {0} /\ Base \in Nat
        /\ MaxCheckpoints <= Base /\ MaxAge \in Nat /\ MaxCheckpoints \in Nat
    BY ChainAssumption DEF Shape, WorldOK, Base
  <1>2. ASSUME NEW q \in Nat PROVE Since(q) \in 0..(FullScan - 1)
    BY <1>1, <1>2 DEF Since
  <1>3. seqno \in Nat /\ StoreOK(rows, seqno)
    BY ChainAssumption DEF Shape, WorldOK
  <1> QED  BY <1>1, <1>2, <1>3, RowsFinite

\* the locals of the only creator are accounted for
LEMMA TallyTo ==
  ASSUME Shape, Solo, NEW c \in Creators, NEW k, Go(c, k), Tally(k)'
  PROVE  Tallied'
  <1>1. \A d \in Creators : job'[d] = k
    BY GoOnly DEF Solo
  <1> QED  BY <1>1 DEF Tallied, Tally, JobTurn, Turn, Owes, Cleanup

\* a step of a call that has not come to its cleanups
LEMMA CalmTally ==
  ASSUME Shape, Shape', NEW j, Tally(j), NEW k, k.pc \notin {"list", "apply"}, j.pc \notin Cleaning,
         UNCHANGED runs, faults' \in {faults, faults + 1},
         Cardinality(DOMAIN rows') <= Cardinality(DOMAIN rows)
  PROVE  Tally(k)'
  <1>1. /\ faults \in Nat /\ FullScan \in Nat \ {0} /\ Base \in Nat
        /\ Cardinality(DOMAIN rows) \in Nat /\ \A q \in Nat : Since(q) \in 0..(FullScan - 1)
    BY TallyTyped
  <1>2. Cardinality(DOMAIN rows') \in Nat
    <2>1. seqno' \in Nat /\ StoreOK(rows', seqno')
      BY ChainAssumption DEF Shape, WorldOK
    <2> QED  BY <2>1, RowsFinite
  <1>3. JobTurn(k)'
    BY DEF JobTurn, Cleaning
  <1>4. ASSUME MaxAge = 0 \/ faults' = 0 PROVE (\E q \in Nat : Turn(k, q))'
    <2>1. PICK q \in Nat : Turn(j, q)
      BY <1>1, <1>4 DEF Tally
    <2>2. ~Owes(j) /\ ~Cleanup(j, "time") /\ ~Cleanup(k, "time")
      BY DEF Owes, Cleanup, Cleaning
    <2>3. runs' = IF MaxAge = 0 THEN q ELSE 2 * q
      BY <2>1, <2>2 DEF Turn
    <2>4. /\ Cardinality(DOMAIN rows') <= Base + Since(q) + 0 + faults'
          /\ Cardinality(DOMAIN rows') <= Base + Since(q) + 1 + faults'
      <3>1. Cardinality(DOMAIN rows) <= Base + Since(q) + 0 + faults
        BY <2>1, <2>2 DEF Turn
      <3> QED  BY <1>1, <1>2, <3>1
    <2>5. Turn(k, q)'
      BY <2>2, <2>3, <2>4 DEF Turn
    <2> QED  BY <2>5
  <1> QED  BY <1>3, <1>4 DEF Tally

\* a call leaves its cleanups, or goes on to the one by age, because of a failure
LEMMA FaultTally ==
  ASSUME Shape, NEW j, Tally(j), NEW k, UNCHANGED <<rows, runs>>, faults' = faults + 1,
         k.pc = "idle" \/ (MaxAge # 0 /\ k.pc = "list" /\ k.todo = <<"time">>)
  PROVE  Tally(k)'
  <1>1. /\ faults \in Nat /\ FullScan \in Nat \ {0} /\ Base \in Nat
        /\ Cardinality(DOMAIN rows) \in Nat /\ \A q \in Nat : Since(q) \in 0..(FullScan - 1)
    BY TallyTyped
  <1>2. JobTurn(k)'
    BY DEF JobTurn
  <1>3. ASSUME MaxAge = 0 \/ faults' = 0 PROVE (\E q \in Nat : Turn(k, q))'
    <2>1. MaxAge = 0 /\ k.pc = "idle"
      BY <1>1, <1>3
    <2>2. PICK q \in Nat : Turn(j, q)
      BY <2>1 DEF Tally
    <2>3. ~Owes(k)
      BY <2>1 DEF Owes, Cleanup
    <2>4. Cardinality(DOMAIN rows) <= Base + Since(q) + 1 + faults
      <3>1. Cardinality(DOMAIN rows) <= Base + Since(q) + (IF Owes(j) THEN 1 ELSE 0) + faults
        BY <2>2 DEF Turn
      <3> QED  BY <1>1, <3>1
    <2>5. Cardinality(DOMAIN rows') <= Base + Since(q) + 0 + faults'
      BY <1>1, <2>4
    <2>6. runs' = q
      BY <2>1, <2>2 DEF Turn
    <2>7. Turn(k, q)'
      BY <2>1, <2>3, <2>5, <2>6 DEF Turn
    <2> QED  BY <2>7
  <1> QED  BY <1>2, <1>3 DEF Tally

\* only a cleanup counts as a run, and a step fails at most once
LEMMA RunsKept ==
  ASSUME Shape, NEW c \in Creators, Step(c), job[c].pc \notin Cleaning
  PROVE  UNCHANGED runs /\ faults' \in {faults, faults + 1}
  <1>1. CASE CallDirect(c) \/ CallEngine(c)
    BY <1>1 DEF CallDirect, CallEngine, Fault, store
  <1>2. CASE Merge(c) \/ Save(c)
    BY <1>2 DEF Merge, Save, Fault
  <1>3. CASE Expect(c) \/ ReadLatest(c)
    BY <1>3 DEF Expect, ReadLatest, Fault, store
  <1>4. CASE Build(c) \/ Check(c)
    BY <1>4 DEF Build, Check, Fault, store
  <1>5. CASE ChainInfo(c)
    BY <1>5 DEF ChainInfo, Fault, store
  <1>6. ~Retain(c) /\ ~CleanList(c) /\ ~CleanApply(c)
    BY DEF Retain, CleanList, CleanApply, At, Cleaning
  <1> QED  BY <1>1, <1>2, <1>3, <1>4, <1>5, <1>6 DEF Step

\* on its way to the store a call adds no row
LEMMA BeforeTally ==
  ASSUME Shape, Shape', Solo, InRank, Tallied, NEW c \in Creators, Step(c),
         job[c].pc \notin Cleaning \cup {"save"}
  PROVE  Tallied'
  <1>1. PICK j : j = job[c]
    OBVIOUS
  <1>2. Tally(j) /\ j.pc \notin Cleaning /\ j.pc # "save"
    BY <1>1 DEF Tallied
  <1>3. UNCHANGED runs /\ faults' \in {faults, faults + 1}
    BY RunsKept
  <1>4. Cardinality(DOMAIN rows) \in Nat
    BY TallyTyped
  <1>5. ASSUME DOMAIN rows' = DOMAIN rows, NEW k, Go(c, k), k.pc \notin {"list", "apply"} PROVE Tallied'
    <2>1. Cardinality(DOMAIN rows') <= Cardinality(DOMAIN rows)
      BY <1>4, <1>5
    <2>2. Tally(k)'
      BY <1>2, <1>3, <1>5, <2>1, CalmTally
    <2> QED  BY <1>5, <2>2, TallyTo
  <1>6. CASE Reads(c)
    <2>1. PICK k : Go(c, k) /\ Onward(job[c], k)
      BY <1>6 DEF Reads
    <2>2. k.pc \notin {"list", "apply"}
      BY <1>1, <1>2, <2>1 DEF Onward, Cleaning
    <2> QED  BY <1>5, <1>6, <2>1, <2>2 DEF Reads
  <1>7. CASE Loads(c)
    <2>1. PICK k : Go(c, k) /\ k.pc = "merge"
      BY <1>7 DEF Loads
    <2> QED  BY <1>5, <1>7, <2>1 DEF Loads, Cleaning
  <1>8. CASE Build(c)
    <2>1. PICK k : Go(c, k) /\ k.pc \in {"chain", "check"}
      <3> DEFINE p == IF c \in Direct THEN "chain" ELSE "check"
                 r == BuildRow(rows, job[c].pos, job[c].snap, job[c].prev,
                               c \in Direct \/ job[c].snap.done > 0)
                 k == [job[c] EXCEPT !.pc = p, !.id = seqno + 1, !.draft = r]
      <3>1. Go(c, k)
        BY <1>8 DEF Build
      <3>2. job[c] \in Job
        BY DEF Shape, JobsOK
      <3> HIDE DEF r
      <3>3. k.pc \in {"chain", "check"}
        BY <3>2 DEF Job
      <3> QED  BY <3>1, <3>3
    <2>2. UNCHANGED rows
      BY <1>8 DEF Build, store
    <2> QED  BY <1>5, <2>1, <2>2 DEF Cleaning
  <1>9. CASE Roots(c)
    <2>1. PICK k : Go(c, k) /\ k.pc = "save"
      BY <1>9 DEF Roots
    <2> QED  BY <1>5, <1>9, <2>1 DEF Roots, Cleaning
  <1>10. CASE Writes(c)
    <2>1. PICK k, r : /\ rows' = Put(rows, job[c].id, r) /\ Go(c, k) /\ job[c].pc = "merge"
                      /\ k.pc = "idle"
      BY <1>1, <1>2, <1>10 DEF Writes
    <2>2. job[c].id \in DOMAIN rows
      BY <2>1 DEF InRank, JobRanked
    <2>3. DOMAIN rows' = DOMAIN rows
      BY <2>1, <2>2 DEF Put
    <2> QED  BY <1>5, <2>1, <2>3 DEF Cleaning
  <1>11. ~Cleans(c)
    BY <1>1, <1>2 DEF Cleans, Cleaning
  <1> QED  BY <1>6, <1>7, <1>8, <1>9, <1>10, <1>11, StepKinds

\* the row that lands is owed
LEMMA SaveTally ==
  ASSUME Shape, Shape', Solo, Tallied, NEW c \in Creators, c \in Engine, MaxCheckpoints > 0, Save(c)
  PROVE  Tallied'
  <1>1. PICK j : j = job[c]
    OBVIOUS
  <1>2. Tally(j) /\ j.pc = "save" /\ j \in Job
    BY <1>1 DEF Tallied, Save, At, Shape, JobsOK
  <1>3. /\ faults \in Nat /\ FullScan \in Nat \ {0} /\ Base \in Nat /\ IsFiniteSet(DOMAIN rows)
        /\ Cardinality(DOMAIN rows) \in Nat /\ \A q \in Nat : Since(q) \in 0..(FullScan - 1)
    BY TallyTyped
  <1>4. CASE Fault /\ Return(c, 0) /\ UNCHANGED rows
    <2>1. PICK k : k = NoJob
      OBVIOUS
    <2>2. k.pc = "idle" /\ Go(c, k)
      BY <1>4, <2>1 DEF NoJob, Return
    <2>3. UNCHANGED <<rows, runs>> /\ faults' = faults + 1
      BY <1>4 DEF Save, Fault
    <2>4. Tally(k)'
      BY <1>2, <2>2, <2>3, FaultTally
    <2> QED  BY <2>2, <2>4, TallyTo
  <1>5. CASE /\ rows' = Put(rows, job[c].id, job[c].draft)
             /\ Persisted(c) /\ UNCHANGED faults
    <2>1. Strategies # <<>>
      BY CountFirst
    <2>2. PICK k : k = [job[c] EXCEPT !.pc = "retain"]
      OBVIOUS
    <2>3. Go(c, k)
      BY <1>5, <2>1, <2>2 DEF Persisted, To
    <2>4. k.pc = "retain"
      BY <1>1, <1>2, <2>2 DEF Job
    <2>5. DOMAIN rows' = DOMAIN rows \cup {job[c].id}
      BY <1>5 DEF Put
    <2>6. /\ Cardinality(DOMAIN rows') <= Cardinality(DOMAIN rows) + 1
          /\ Cardinality(DOMAIN rows') \in Nat
      <3>1. CASE job[c].id \in DOMAIN rows
        <4>1. DOMAIN rows' = DOMAIN rows
          BY <2>5, <3>1
        <4> QED  BY <1>3, <4>1
      <3>2. CASE job[c].id \notin DOMAIN rows
        <4>1. Cardinality(DOMAIN rows') = Cardinality(DOMAIN rows) + 1
          BY <1>3, <2>5, <3>2, FS_AddElement
        <4> QED  BY <1>3, <4>1
      <3> QED  BY <3>1, <3>2
    <2>7. JobTurn(k)'
      BY <2>4 DEF JobTurn
    <2>8. ASSUME MaxAge = 0 \/ faults' = 0 PROVE (\E q \in Nat : Turn(k, q))'
      <3>1. PICK q \in Nat : Turn(j, q)
        BY <1>2, <1>5, <2>8 DEF Tally
      <3>2. ~Owes(j) /\ Owes(k) /\ ~Cleanup(j, "time") /\ ~Cleanup(k, "time")
        BY <1>2, <2>4 DEF Owes, Cleanup
      <3>3. runs' = runs /\ faults' = faults
        BY <1>5 DEF Save
      <3>4. Cardinality(DOMAIN rows) <= Base + Since(q) + 0 + faults
        BY <3>1, <3>2 DEF Turn
      <3>5. Cardinality(DOMAIN rows') <= Base + Since(q) + 1 + faults'
        BY <1>3, <2>6, <3>3, <3>4
      <3>6. Turn(k, q)'
        BY <3>1, <3>2, <3>3, <3>5 DEF Turn
      <3> QED  BY <3>6
    <2>9. Tally(k)'
      BY <2>7, <2>8 DEF Tally
    <2> QED  BY <2>3, <2>9, TallyTo
  <1>6. CASE Fault /\ Persisted(c) /\ UNCHANGED rows
    <2>1. Strategies # <<>>
      BY CountFirst
    <2>2. PICK k : k = [job[c] EXCEPT !.pc = "retain"]
      OBVIOUS
    <2>3. Go(c, k)
      BY <1>6, <2>1, <2>2 DEF Persisted, To
    <2>4. k.pc = "retain" /\ runs' = runs /\ faults' = faults + 1
      BY <1>1, <1>2, <1>6, <2>2 DEF Job, Save, Fault
    <2>5. Tally(k)'
      BY <1>2, <1>3, <1>6, <2>4, CalmTally DEF Cleaning
    <2> QED  BY <2>3, <2>5, TallyTo
  <1> QED  BY <1>4, <1>5, <1>6 DEF Save, SaveFails

\* the gate lets a call go only if there is nothing to clean
LEMMA RetainTally ==
  ASSUME Shape, Shape', Solo, Tallied, NEW c \in Creators, MaxCheckpoints > 0, Retain(c)
  PROVE  Tallied'
  <1>1. PICK j : j = job[c]
    OBVIOUS
  <1>2. Tally(j) /\ j.pc = "retain" /\ j \in Job
    BY <1>1 DEF Tallied, Retain, At, Shape, JobsOK
  <1>3. /\ faults \in Nat /\ FullScan \in Nat \ {0} /\ Base \in Nat
        /\ MaxCheckpoints \in Nat /\ MaxCheckpoints <= Base
        /\ Cardinality(DOMAIN rows) \in Nat /\ \A q \in Nat : Since(q) \in 0..(FullScan - 1)
    BY TallyTyped
  <1>4. UNCHANGED <<rows, runs>>
    BY DEF Retain, store
  <1>5. CASE Fault /\ Return(c, job[c].id)
    <2>1. PICK k : k = NoJob
      OBVIOUS
    <2>2. k.pc = "idle" /\ Go(c, k) /\ faults' = faults + 1
      BY <1>5, <2>1 DEF NoJob, Return, Fault
    <2>3. Tally(k)'
      BY <1>2, <1>4, <2>2, FaultTally
    <2> QED  BY <2>2, <2>3, TallyTo
  <1>6. CASE ~RetentionExceeded /\ Return(c, job[c].id) /\ UNCHANGED faults
    <2>1. PICK k : k = NoJob
      OBVIOUS
    <2>2. k.pc = "idle" /\ Go(c, k)
      BY <1>6, <2>1 DEF NoJob, Return
    <2>3. Cardinality(DOMAIN rows) <= MaxCheckpoints
      BY <1>3, <1>6 DEF RetentionExceeded
    <2>4. JobTurn(k)'
      BY <2>2 DEF JobTurn
    <2>5. ASSUME MaxAge = 0 \/ faults' = 0 PROVE (\E q \in Nat : Turn(k, q))'
      <3>1. PICK q \in Nat : Turn(j, q)
        BY <1>2, <1>6, <2>5 DEF Tally
      <3>2. ~Owes(k) /\ ~Cleanup(j, "time") /\ ~Cleanup(k, "time")
        BY <1>2, <2>2 DEF Owes, Cleanup
      <3>3. Cardinality(DOMAIN rows') <= Base + Since(q) + 0 + faults'
        BY <1>3, <1>4, <1>6, <2>3
      <3>4. Turn(k, q)'
        BY <1>4, <3>1, <3>2, <3>3 DEF Turn
      <3> QED  BY <3>4
    <2>6. Tally(k)'
      BY <2>4, <2>5 DEF Tally
    <2> QED  BY <2>2, <2>6, TallyTo
  <1>7. CASE /\ Go(c, [job[c] EXCEPT !.pc = "list", !.todo = Strategies])
             /\ UNCHANGED <<ack, faults>>
    <2> DEFINE S == Strategies
    <2>1. PICK k : k = [job[c] EXCEPT !.pc = "list", !.todo = S]
      OBVIOUS
    <2>2. Go(c, k)
      BY <1>7, <2>1
    <2>3. S = IF MaxAge = 0 THEN <<"count">> ELSE <<"count", "time">>
      BY CountFirst
    <2> HIDE DEF S
    <2>4. k.pc = "list" /\ k.todo = S
      BY <1>1, <1>2, <2>1 DEF Job
    <2>5. Cleanup(k, "count") /\ ~Cleanup(k, "time")
      BY <2>3, <2>4 DEF Cleanup
    <2>6. JobTurn(k)'
      BY <2>3, <2>4 DEF JobTurn
    <2>7. ASSUME MaxAge = 0 \/ faults' = 0 PROVE (\E q \in Nat : Turn(k, q))'
      <3>1. PICK q \in Nat : Turn(j, q)
        BY <1>2, <1>7, <2>7 DEF Tally
      <3>2. Owes(j) /\ Owes(k) /\ ~Cleanup(j, "time")
        BY <1>2, <2>5 DEF Owes, Cleanup
      <3>3. Turn(k, q)'
        BY <1>4, <1>7, <2>5, <3>1, <3>2 DEF Turn
      <3> QED  BY <3>3
    <2>8. Tally(k)'
      BY <2>6, <2>7 DEF Tally
    <2> QED  BY <2>2, <2>8, TallyTo
  <1> QED  BY <1>5, <1>6, <1>7 DEF Retain

\* after the cleanup by count comes the one by age, if there is such a policy
LEMMA StageAfter ==
  ASSUME Shape, NEW c \in Creators, job[c].pc \in {"list", "apply"}, JobTurn(job[c]),
         NextStrategy(c)
  PROVE  \E k : /\ Go(c, k)
                /\ \/ k.pc = "idle" /\ (MaxAge = 0 \/ Head(job[c].todo) = "time")
                   \/ /\ MaxAge # 0 /\ Head(job[c].todo) = "count"
                      /\ k.pc = "list" /\ k.todo = <<"time">>
  <1>1. job[c] \in Job
    BY DEF Shape, JobsOK
  <1>2. CASE job[c].todo = <<"count">> \/ job[c].todo = <<"time">>
    <2>1. Len(job[c].todo) = 1
      BY <1>2
    <2>2. Go(c, NoJob) /\ NoJob.pc = "idle"
      BY <2>1 DEF NextStrategy, Return, NoJob
    <2>3. MaxAge = 0 \/ Head(job[c].todo) = "time"
      <3>1. MaxAge # 0 => job[c].todo # <<"count">>
        <4>1. <<"count">> # <<"time">> /\ <<"count">> # <<"count", "time">>
          BY Len(<<"count">>) = 1, Len(<<"count", "time">>) = 2
        <4> QED  BY <4>1 DEF JobTurn
      <3>2. Head(<<"time">>) = "time"
        OBVIOUS
      <3> QED  BY <1>2, <3>1, <3>2
    <2> QED  BY <2>2, <2>3
  <1>3. CASE job[c].todo = <<"count", "time">> /\ MaxAge # 0
    <2> DEFINE t == Tail(job[c].todo)
               k == [job[c] EXCEPT !.pc = "list", !.todo = t, !.cut = {}, !.mark = None]
    <2>1. /\ Len(job[c].todo) = 2 /\ t = <<"time">> /\ Head(job[c].todo) = "count"
      BY <1>3
    <2>2. Go(c, k)
      BY <2>1 DEF NextStrategy
    <2> HIDE DEF t
    <2>3. k.pc = "list" /\ k.todo = t
      BY <1>1 DEF Job
    <2> HIDE DEF k
    <2> QED  BY <1>3, <2>1, <2>2, <2>3
  <1> QED  BY <1>2, <1>3 DEF JobTurn

\* a cleanup that fails is skipped
LEMMA SkipTally ==
  ASSUME Shape, Solo, Tallied, NEW c \in Creators, job[c].pc \in {"list", "apply"},
         NextStrategy(c), UNCHANGED <<rows, runs>>, Fault
  PROVE  Tallied'
  <1>1. PICK j : j = job[c]
    OBVIOUS
  <1>2. Tally(j) /\ JobTurn(job[c])
    BY <1>1 DEF Tallied, Tally
  <1>3. PICK k : /\ Go(c, k)
                 /\ \/ k.pc = "idle"
                    \/ MaxAge # 0 /\ k.pc = "list" /\ k.todo = <<"time">>
    BY <1>2, StageAfter
  <1>4. Tally(k)'
    BY <1>2, <1>3, FaultTally DEF Fault
  <1> QED  BY <1>3, <1>4, TallyTo

\* a cleanup that looks at the whole store finds what is too much
LEMMA ListTally ==
  ASSUME Shape, Solo, Links, Recorded, Ready, InRank, Tallied, MaxDeletes = 0,
         NEW c \in Creators, MaxCheckpoints > 0, CleanList(c)
  PROVE  Tallied'
  <1>1. PICK j : j = job[c]
    OBVIOUS
  <1>2. Tally(j) /\ j.pc = "list" /\ j \in Job /\ JobReady(j)
    BY <1>1 DEF Tallied, CleanList, At, Shape, JobsOK, Ready
  <1>3. UNCHANGED <<rows, runs>>
    BY DEF CleanList, store
  <1>4. deleted = {}
    BY NothingDeleted
  <1>5. CASE rows = <<>> /\ NextStrategy(c) /\ UNCHANGED faults
    <2>1. faults # 0
      <3>1. j.id \notin DOMAIN rows
        BY <1>5
      <3> QED  BY <1>2, <1>4, <3>1 DEF JobReady, Cleaning, Stored
    <2>2. PICK k : Go(c, k) /\ (k.pc = "idle" \/ (MaxAge # 0 /\ k.pc = "list" /\ k.todo = <<"time">>))
      BY <1>1, <1>2, <1>5, StageAfter DEF Tally
    <2>3. JobTurn(k)'
      BY <2>2 DEF JobTurn
    <2>4. ASSUME MaxAge = 0 \/ faults' = 0 PROVE (\E q \in Nat : Turn(k, q))'
      <3>1. MaxAge = 0 /\ k.pc = "idle"
        BY <1>5, <2>1, <2>2, <2>4
      <3>2. PICK q \in Nat : Turn(j, q)
        BY <1>2, <3>1 DEF Tally
      <3>3. runs = q /\ ~Owes(k)
        BY <3>1, <3>2 DEF Turn, Owes, Cleanup
      <3>4. Cardinality(DOMAIN rows) = 0
        <4>1. DOMAIN rows = {}
          BY <1>5
        <4> QED  BY <4>1, FS_EmptySet
      <3>5. faults \in Nat /\ Base \in Nat /\ Since(q) \in 0..(FullScan - 1) /\ FullScan \in Nat
        BY TallyTyped
      <3>6. Cardinality(DOMAIN rows) <= Base + Since(q) + 0 + faults
        BY <3>4, <3>5
      <3>7. Turn(k, q)'
        BY <1>3, <1>5, <3>1, <3>3, <3>6 DEF Turn
      <3> QED  BY <3>7
    <2>5. Tally(k)'
      BY <2>3, <2>4 DEF Tally
    <2> QED  BY <2>2, <2>5, TallyTo
  <1>6. CASE Fault /\ NextStrategy(c)
    BY <1>1, <1>2, <1>3, <1>6, SkipTally
  <1>7. CASE rows # <<>> /\ ~(Fault /\ NextStrategy(c))
    <2> DEFINE cut == Removal(View, Head(job[c].todo))
               m == NextWatermark(View, cut)
               f == job[c].scan \/ IsFullScan
    <2>1. PICK k : k = [job[c] EXCEPT !.pc = "apply", !.cut = cut, !.mark = m, !.exp = runs,
                                      !.scan = f]
      OBVIOUS
    <2>2. Go(c, k) /\ UNCHANGED faults
      BY <1>7, <2>1 DEF CleanList
    <2> HIDE DEF m, f
    <2>3. k.pc = "apply" /\ k.todo = j.todo /\ k.exp = runs /\ k.cut = Removal(View, Head(j.todo))
      <3> HIDE DEF cut
      <3>1. k.pc = "apply" /\ k.todo = j.todo /\ k.exp = runs /\ k.cut = cut
        BY <1>1, <1>2, <2>1 DEF Job
      <3> QED  BY <1>1, <3>1 DEF cut
    <2>4. ASSUME Head(j.todo) = "count", runs % FullScan = 0
          PROVE  Cardinality(DOMAIN rows \ k.cut) <= Base
      <3>1. k.cut = Removal(rows, "count")
        BY <2>3, <2>4 DEF View, IsFullScan
      <3>2. PICK H : Told(H)
        BY DEF Recorded
      <3>3. seqno \in Nat /\ StoreOK(rows, seqno) /\ ChainIntact
        BY ChainAssumption DEF Shape, WorldOK, Links
      <3>4. \A e \in DOMAIN rows : Restorable(rows, e)
        BY <1>4, <3>3, AllRestore
      <3>5. Sound(H, seqno) /\ Kept(rows, H) /\ Ranked(rows)
        BY <3>2 DEF Told, InRank
      <3>6. Cardinality(DOMAIN rows \ Removal(rows, "count")) <= MaxCheckpoints + Interval - 1
        BY <3>3, <3>4, <3>5, ScanLeaves
      <3> QED  BY <3>1, <3>6 DEF Base
    <2>5. JobTurn(k)'
      BY <1>2, <1>3, <2>3, <2>4 DEF Tally, JobTurn
    <2>6. ASSUME MaxAge = 0 \/ faults' = 0 PROVE (\E q \in Nat : Turn(k, q))'
      <3>1. PICK q \in Nat : Turn(j, q)
        BY <1>2, <2>2, <2>6 DEF Tally
      <3>2. (Owes(k) <=> Owes(j)) /\ (Cleanup(k, "time") <=> Cleanup(j, "time"))
        BY <1>2, <2>3 DEF Owes, Cleanup
      <3>3. Turn(k, q)'
        BY <1>3, <2>2, <3>1, <3>2 DEF Turn
      <3> QED  BY <3>3
    <2>7. Tally(k)'
      BY <2>5, <2>6 DEF Tally
    <2> QED  BY <2>2, <2>7, TallyTo
  <1> QED  BY <1>5, <1>6, <1>7 DEF CleanList

\* a cleanup makes up for the row, or for all that are too many
LEMMA ApplyTally ==
  ASSUME Shape, Shape', Solo, Tallied, NEW c \in Creators, MaxCheckpoints > 0, CleanApply(c)
  PROVE  Tallied'
  <1>1. PICK j : j = job[c]
    OBVIOUS
  <1>2. Tally(j) /\ JobTurn(job[c]) /\ j.pc = "apply" /\ j \in Job
    BY <1>1 DEF Tallied, Tally, CleanApply, At, Shape, JobsOK
  <1>3. /\ faults \in Nat /\ runs \in Nat /\ FullScan \in Nat \ {0} /\ Base \in Nat
        /\ MaxAge \in Nat /\ IsFiniteSet(DOMAIN rows)
        /\ Cardinality(DOMAIN rows) \in Nat /\ \A q \in Nat : Since(q) \in 0..(FullScan - 1)
    BY TallyTyped
  <1>4. CASE Fault /\ NextStrategy(c) /\ UNCHANGED store
    BY <1>1, <1>2, <1>4, SkipTally DEF store
  <1>5. CASE /\ rows' = Without(rows, job[c].cut)
             /\ watermark' = job[c].mark
             /\ runs' = job[c].exp + 1
             /\ NextStrategy(c) /\ UNCHANGED faults
    <2>1. /\ DOMAIN rows' = DOMAIN rows \ j.cut /\ runs' = runs + 1
      BY <1>1, <1>2, <1>5 DEF Without, JobTurn
    <2>2. /\ Cardinality(DOMAIN rows') <= Cardinality(DOMAIN rows)
          /\ Cardinality(DOMAIN rows') \in Nat
      <3>1. DOMAIN rows' \in SUBSET DOMAIN rows
        BY <2>1
      <3> QED  BY <1>3, <3>1, FS_Subset, FS_CardinalityType
    <2>3. PICK k : /\ Go(c, k)
                   /\ \/ k.pc = "idle" /\ (MaxAge = 0 \/ Head(j.todo) = "time")
                      \/ /\ MaxAge # 0 /\ Head(j.todo) = "count"
                         /\ k.pc = "list" /\ k.todo = <<"time">>
      BY <1>1, <1>2, <1>5, StageAfter
    <2>4. JobTurn(k)'
      BY <2>3 DEF JobTurn
    <2>5. ~Owes(k)
      <3>1. Head(<<"time">>) # "count"
        OBVIOUS
      <3> QED  BY <2>3, <3>1 DEF Owes, Cleanup
    <2>6. ASSUME MaxAge = 0 \/ faults' = 0 PROVE (\E q \in Nat : Turn(k, q))'
      <3>1. PICK q \in Nat : Turn(j, q)
        BY <1>2, <1>5, <2>6 DEF Tally
      <3>2. CASE Head(j.todo) = "count"
        <4>1. Owes(j) /\ ~Cleanup(j, "time") /\ (MaxAge # 0 => Cleanup(k, "time"))
          <5>1. Head(<<"time">>) = "time"
            OBVIOUS
          <5> QED  BY <1>2, <2>3, <3>2, <5>1 DEF Owes, Cleanup
        <4>2. runs = IF MaxAge = 0 THEN q ELSE 2 * q
          BY <3>1, <4>1 DEF Turn
        <4>3. runs' = IF MaxAge = 0 THEN q + 1 ELSE 2 * (q + 1) - 1
          BY <2>1, <4>2
        <4>4. Since(q + 1) = q % FullScan
          BY DEF Since
        <4>5. Cardinality(DOMAIN rows') <= Base + Since(q + 1) + 0 + faults'
          <5>1. CASE q % FullScan = 0
            <6>1. runs % FullScan = 0
              BY <1>3, <4>2, <5>1, RemainderTwice
            <6>2. Cardinality(DOMAIN rows') <= Base
              BY <1>2, <2>1, <3>2, <6>1 DEF Tally, JobTurn
            <6> QED  BY <1>3, <1>5, <2>2, <4>4, <5>1, <6>2
          <5>2. CASE q % FullScan # 0
            <6>1. q > 0 /\ ((q - 1) % FullScan) + 1 = q % FullScan
              BY <1>3, <5>2, RemainderBefore
            <6>2. Since(q) = (q - 1) % FullScan
              BY <6>1 DEF Since
            <6>3. Since(q) + 1 = Since(q + 1) /\ Since(q) \in Nat
              BY <1>3, <4>4, <6>1, <6>2
            <6>4. Cardinality(DOMAIN rows) <= Base + Since(q) + 1 + faults
              BY <3>1, <4>1 DEF Turn
            <6> HIDE DEF Since
            <6> QED  BY <1>3, <1>5, <2>2, <6>3, <6>4
          <5> QED  BY <5>1, <5>2
        <4>6. Turn(k, q + 1)'
          BY <2>5, <4>1, <4>3, <4>5 DEF Turn
        <4>7. q + 1 \in Nat
          OBVIOUS
        <4> QED  BY <4>6, <4>7
      <3>3. CASE Head(j.todo) # "count"
        <4>1. MaxAge # 0 /\ j.todo = <<"time">>
          BY <1>2, <3>3 DEF Tally, JobTurn
        <4>2. Cleanup(j, "time") /\ ~Owes(j) /\ k.pc = "idle"
          BY <1>2, <2>3, <3>3, <4>1 DEF Cleanup, Owes
        <4>3. ~Cleanup(k, "time")
          BY <4>2 DEF Cleanup
        <4>4. runs = 2 * q - 1 /\ Cardinality(DOMAIN rows) <= Base + Since(q) + 0 + faults
          BY <3>1, <4>1, <4>2 DEF Turn
        <4>5. runs' = 2 * q /\ Cardinality(DOMAIN rows') <= Base + Since(q) + 0 + faults'
          BY <1>3, <1>5, <2>1, <2>2, <4>4
        <4>6. Turn(k, q)'
          BY <2>5, <4>1, <4>3, <4>5 DEF Turn
        <4> QED  BY <4>6
      <3> QED  BY <3>2, <3>3
    <2>7. Tally(k)'
      BY <2>4, <2>6 DEF Tally
    <2> QED  BY <2>3, <2>7, TallyTo
  <1> QED  BY <1>4, <1>5 DEF CleanApply

\* a crash drops the call
LEMMA CrashTally ==
  ASSUME Shape, Solo, Tallied, NEW c \in Creators, Crash
  PROVE  Tallied'
  <1>1. PICK j : j = job[c]
    OBVIOUS
  <1>2. PICK k : k = NoJob
    OBVIOUS
  <1>3. Tally(j) /\ k.pc = "idle" /\ UNCHANGED <<rows, runs>> /\ faults' = faults + 1
    BY <1>1, <1>2 DEF Tallied, Crash, Fault, store, NoJob
  <1>4. Tally(k)'
    BY <1>3, FaultTally
  <1>5. \A d \in Creators : job'[d] = k
    BY <1>2 DEF Crash
  <1> QED  BY <1>4, <1>5 DEF Tallied, Tally, JobTurn, Turn, Owes, Cleanup

\* with a limit on the count, the rows are accounted for
LEMMA TalliedAlways == Sole /\ MaxCheckpoints > 0 => (Spec => []Tallied)
  <1> SUFFICES ASSUME Sole, MaxCheckpoints > 0 PROVE Spec => []Tallied
    OBVIOUS
  <1>1. Solo /\ (\A c \in Creators : c \in Engine) /\ \E c : c \in Creators
    BY DEF Sole, Solo, Creators
  <1>2. Init => Tallied
    <2> SUFFICES ASSUME Init, NEW c \in Creators PROVE Tally(job[c])
      BY DEF Tallied
    <2>1. /\ rows = <<>> /\ runs = 0 /\ faults = 0 /\ job[c].pc = "idle"
      BY DEF Init, NoJob
    <2>2. Cardinality(DOMAIN rows) = 0
      <3>1. DOMAIN rows = {}
        BY <2>1
      <3> QED  BY <3>1, FS_EmptySet
    <2>3. Base \in Nat /\ Since(0) = 0
      BY ChainAssumption DEF Base, Since
    <2>4. ~Owes(job[c]) /\ ~Cleanup(job[c], "time")
      BY <2>1 DEF Owes, Cleanup
    <2>5. Turn(job[c], 0)
      BY <2>1, <2>2, <2>3, <2>4 DEF Turn
    <2>6. JobTurn(job[c])
      BY <2>1 DEF JobTurn
    <2> QED  BY <2>5, <2>6 DEF Tally
  <1>3. /\ Shape /\ Shape' /\ Links /\ Recorded /\ Ready /\ InRank /\ Tallied /\ [Next]_vars
        => Tallied'
    <2> SUFFICES ASSUME Shape, Shape', Links, Recorded, Ready, InRank, Tallied, [Next]_vars
                 PROVE  Tallied'
      OBVIOUS
    <2>1. ASSUME NEW c \in Creators, Step(c) PROVE Tallied'
      <3>1. CASE job[c].pc \notin Cleaning \cup {"save"}
        BY <1>1, <2>1, <3>1, BeforeTally
      <3>2. CASE Save(c)
        BY <1>1, <2>1, <3>2, SaveTally
      <3>3. CASE Retain(c)
        BY <1>1, <2>1, <3>3, RetainTally
      <3>4. CASE CleanList(c)
        BY <1>1, <2>1, <3>4, ListTally DEF Sole
      <3>5. CASE CleanApply(c)
        BY <1>1, <2>1, <3>5, ApplyTally
      <3>6. job[c].pc \in Cleaning \cup {"save"} =>
              Save(c) \/ Retain(c) \/ CleanList(c) \/ CleanApply(c)
        BY <2>1 DEF Step, CallDirect, CallEngine, Merge, Expect, ReadLatest, Build, Check,
                    ChainInfo, At, Cleaning
      <3> QED  BY <3>1, <3>2, <3>3, <3>4, <3>5, <3>6
    <2>2. CASE Crash
      BY <1>1, <2>2, CrashTally
    <2>3. CASE \E e \in DOMAIN rows : Delete(e)
      <3>1. Cardinality(deleted) < 0
        BY <2>3 DEF Delete, Sole
      <3>2. Cardinality(deleted) = 0
        BY NothingDeleted, FS_EmptySet DEF Sole
      <3> QED  BY <3>1, <3>2
    <2>4. ASSUME UNCHANGED <<rows, runs, job, faults>> PROVE Tallied'
      BY <2>4 DEF Tallied, Tally, JobTurn, Turn, Owes, Cleanup
    <2>5. CASE Progress \/ Flip \/ Tick \/ UNCHANGED vars
      BY <2>4, <2>5 DEF Progress, Flip, Tick, store, vars
    <2> QED  BY <2>1, <2>2, <2>3, <2>5 DEF Next
  <1>4. (Spec => []Links) /\ (Spec => []Ready) /\ (Spec => []InRank)
    BY <1>1, LinksAlways, ReadyAlways, RankAlways DEF Quiet
  <1> QED  BY <1>2, <1>3, <1>4, ShapeAlways, RecordedAlways, PTL DEF Spec

\* Retention by count is bounded: where one engine creator appends and nobody deletes
\* rows by hand, the store never holds more than the limit, the part of a generation
\* the kept rows need, what the incremental cleanups between two full scans cannot
\* see, and one row for each storage failure or crash (none may have happened where a
\* limit on the age is configured too)
THEOREM RetentionAlwaysBounded == Sole => (Spec => []RetentionBounded)
  <1> SUFFICES ASSUME Sole PROVE Spec => []RetentionBounded
    OBVIOUS
  <1>1. CASE MaxCheckpoints > 0
    <2>1. PICK c : c \in Creators
      BY DEF Sole, Creators
    <2>2. Shape /\ Tallied => RetentionBounded
      <3> SUFFICES ASSUME Shape, Tallied, MaxAge = 0 \/ faults = 0
                   PROVE  Cardinality(DOMAIN rows)
                            <= MaxCheckpoints + Interval + FullScan - 1 + faults
        BY DEF RetentionBounded
      <3>1. /\ faults \in Nat /\ FullScan \in Nat \ {0} /\ Base \in Nat
            /\ Cardinality(DOMAIN rows) \in Nat /\ \A q \in Nat : Since(q) \in 0..(FullScan - 1)
        BY TallyTyped
      <3>2. PICK q \in Nat : Turn(job[c], q)
        BY <2>1 DEF Tallied, Tally
      <3>3. Cardinality(DOMAIN rows) <= Base + Since(q) + 1 + faults
        <4>1. Cardinality(DOMAIN rows)
                <= Base + Since(q) + (IF Owes(job[c]) THEN 1 ELSE 0) + faults
          BY <3>2 DEF Turn
        <4> QED  BY <3>1, <4>1
      <3>4. Base + FullScan = MaxCheckpoints + Interval + FullScan - 1
        BY ChainAssumption DEF Base
      <3> QED  BY <3>1, <3>3, <3>4
    <2>3. Spec => []Tallied
      BY <1>1, TalliedAlways
    <2> QED  BY <2>2, <2>3, ShapeAlways, PTL
  <1>2. CASE ~(MaxCheckpoints > 0)
    <2>1. RetentionBounded
      BY <1>2 DEF RetentionBounded
    <2> QED  BY <2>1, PTL
  <1> QED  BY <1>1, <1>2
=============================================================================
