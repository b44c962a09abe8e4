----------------------- MODULE CheckpointChainProofs -----------------------
(***************************************************************************)
(* Theorems about CheckpointChain, for every set of creators, every        *)
(* interval and retention limit, and any number of rows, storage failures, *)
(* crashes and deletes.                                                    *)
(*                                                                         *)
(* Shape types the store and the locals of every call in flight.  Links    *)
(* says in addition what those calls are about to do to the chain: the     *)
(* delta a creator is about to save still finds its predecessor, and the   *)
(* rows a cleanup is about to delete carry no other row.  The second half  *)
(* rests on RemovalKeepsChains, a fact about the cleanup's set arithmetic. *)
(***************************************************************************)
EXTENDS CheckpointChain, WellFoundedInduction, FiniteSetTheorems, TLAPS

\* a non-empty bounded set of naturals has a maximum, and Max finds it
LEMMA MaxExists ==
  ASSUME NEW n \in Nat, NEW S \in SUBSET (0..n), S # {}
  PROVE  Max(S) \in S /\ \A y \in S : y <= Max(S)
  <1> DEFINE T == {n - x : x \in S}
  <1>1. T \subseteq Nat /\ T # {}
    <2>1. \A x \in S : n - x \in Nat
      OBVIOUS
    <2> QED  BY <2>1
  <1> DEFINE R == OpToRel(<, Nat)
  <1>2. \E x \in T : \A y \in T : ~ (<<y, x>> \in R)
    BY <1>1, NatLessThanWellFounded, WFMin
  <1>3. PICK x \in T : \A y \in T : ~ (<<y, x>> \in R)
    BY <1>2
  <1>4. \A y \in T : ~(y < x)
    BY <1>1, <1>3 DEF OpToRel
  <1>5. PICK z \in S : x = n - z
    OBVIOUS
  <1>6. \A y \in S : z >= y
    <2> SUFFICES ASSUME NEW y \in S PROVE z >= y
      OBVIOUS
    <2>1. ~(n - y < n - z)
      BY <1>4, <1>5
    <2> QED  BY <2>1
  <1>7. Max(S) \in S /\ \A y \in S : Max(S) >= y
    BY <1>6 DEF Max
  <1> QED  BY <1>7

\* row e is typed; a delta links to an earlier id, its position is below its id
RowOK(r, e) ==
  /\ r \in Row /\ r.pos < e
  /\ r.full => r.flag \in Flags
  /\ ~r.full => r.prev \in 1..(e - 1)

\* a store of ids up to n holds typed rows
StoreOK(R, n) ==
  /\ DOMAIN R \subseteq 1..n
  /\ \A e \in DOMAIN R : RowOK(R[e], e)

\* the places of a call that has been given an id
Owning == {"merge", "check", "chain", "save", "retain", "list", "apply"}
\* a call holds a draft it may still save: on its way to the store, or while it
\* tries to build a better one
Drafts(j) ==
  \/ j.pc \in {"merge", "check", "chain", "save"}
  \/ j.retried /\ j.pc \in {"latest", "build"}

\* the locals of a call are typed, and as its place demands
JobOK(j, n) ==
  /\ j \in Job /\ j.prev <= n
  /\ j.pc \in Owning => j.id \in 1..n
  /\ j.pc = "expect" => ~j.retried
  /\ Drafts(j) => j.id \in 1..n /\ RowOK(j.draft, j.id)
  /\ j.pc \in {"list", "apply"} => j.todo # <<>>

\* every creator's locals are fine
JobsOK ==
  /\ job \in [Creators -> Job]
  /\ \A c \in Creators : JobOK(job[c], seqno)

\* the typing of everything else
WorldOK ==
  /\ seqno \in 0..MaxRows /\ now \in 1..MaxTime
  /\ watermark \in {None} \cup 1..MaxTime /\ runs \in Nat
  /\ live \in State
  /\ ack \in [Creators -> 0..MaxRows]
  /\ deleted \subseteq 1..seqno /\ IsFiniteSet(deleted)
  /\ Cardinality(deleted) <= MaxDeletes
  /\ faults \in 0..MaxFaults

\* the inductive strengthening of TypeOK
Shape == StoreOK(rows, seqno) /\ JobsOK /\ WorldOK

-----------------------------------------------------------------------------
\* a restore chain begins with the row it is asked for
LEMMA ChainSelf ==
  ASSUME NEW R, NEW e \in Nat \ {0}
  PROVE  e \in RestoreChain(R, e)
  BY DEF RestoreChain

\* a restore chain follows the previous link of each of its deltas
LEMMA ChainClosed ==
  ASSUME NEW R, NEW e \in Nat, NEW i \in RestoreChain(R, e), i \in DOMAIN R,
         ~R[i].full, R[i].prev \in 1..(i - 1)
  PROVE  R[i].prev \in RestoreChain(R, e)
  <1>1. i \in 1..e /\ R[i].prev \in 1..e
    BY DEF RestoreChain
  <1>2. ASSUME NEW S \in SUBSET (1..e), e \in S, ClosedBack(R, S)
        PROVE  R[i].prev \in S
    <2>1. i \in S
      BY <1>2 DEF RestoreChain
    <2> QED  BY <1>2, <2>1 DEF ClosedBack
  <1> QED  BY <1>1, <1>2 DEF RestoreChain

\* a chain with no missing row ends in a FULL one: otherwise its smallest
\* id would link to a smaller one
LEMMA ChainHasFull ==
  ASSUME NEW n \in Nat, NEW R, StoreOK(R, n), NEW e, Restorable(R, e), e \in DOMAIN R
  PROVE  \E i \in RestoreChain(R, e) : R[i].full
  <1>1. e \in Nat \ {0}
    BY DEF StoreOK
  <1>2. RestoreChain(R, e) \subseteq Nat /\ RestoreChain(R, e) # {}
    BY <1>1, ChainSelf DEF RestoreChain
  <1>3. \E i \in RestoreChain(R, e) : \A y \in RestoreChain(R, e) :
           ~(<<y, i>> \in OpToRel(<, Nat))
    BY <1>2, NatLessThanWellFounded, WFMin
  <1>4. PICK i \in RestoreChain(R, e) : \A y \in RestoreChain(R, e) :
           ~(<<y, i>> \in OpToRel(<, Nat))
    BY <1>3
  <1>5. \A y \in RestoreChain(R, e) : ~(y < i)
    BY <1>2, <1>4 DEF OpToRel
  <1>6. i \in DOMAIN R
    BY DEF Restorable
  <1>7. CASE ~R[i].full
    <2>1. R[i].prev \in 1..(i - 1)
      BY <1>6, <1>7 DEF StoreOK, RowOK
    <2>2. R[i].prev \in RestoreChain(R, e)
      BY <1>1, <1>6, <1>7, <2>1, ChainClosed
    <2> QED  BY <1>2, <1>5, <2>1, <2>2
  <1> QED  BY <1>7

\* the newest row is the one with the greatest id
LEMMA LatestTyped ==
  ASSUME NEW n \in Nat, NEW R, DOMAIN R \subseteq 1..n
  PROVE  /\ Latest(R) \in 0..n
         /\ Latest(R) # 0 => Latest(R) \in DOMAIN R
         /\ \A i \in DOMAIN R : i <= Latest(R)
  <1>1. CASE DOMAIN R = {}
    BY <1>1 DEF Latest
  <1>2. CASE DOMAIN R # {}
    <2>1. DOMAIN R \in SUBSET (0..n)
      OBVIOUS
    <2>2. Max(DOMAIN R) \in DOMAIN R /\ \A y \in DOMAIN R : y <= Max(DOMAIN R)
      BY <1>2, <2>1, MaxExists
    <2> QED  BY <1>2, <2>2 DEF Latest
  <1> QED  BY <1>1, <1>2

\* what a restore replays is an execution state
LEMMA RestoredTyped ==
  ASSUME NEW n \in Nat, NEW R, StoreOK(R, n), NEW e \in DOMAIN R, Restorable(R, e)
  PROVE  Restored(R, e) \in State
  <1>1. e \in Nat \ {0} /\ RestoreChain(R, e) \subseteq DOMAIN R
    BY DEF StoreOK, Restorable
  <1>2. RestoredDone(R, e) \in 0..MaxDone
    <2> DEFINE chain == RestoreChain(R, e)
               T == {i \in chain : R[i].full \/ R[i].map}
               S == {R[i].done : i \in chain \ 0..(Max(T) - 1)}
    <2>1. Max(T) \in T
      <3>1. T \subseteq 0..n
        BY <1>1 DEF StoreOK
      <3>2. T # {}
        BY ChainHasFull
      <3> QED  BY <3>1, <3>2, MaxExists
    <2>2. S \subseteq 0..MaxDone
      BY <1>1 DEF StoreOK, RowOK, Row
    <2>3. S # {}
      <3>1. Max(T) \in chain /\ Max(T) \in Nat
        BY <1>1, <2>1 DEF StoreOK
      <3> HIDE DEF T
      <3>2. Max(T) \in chain \ 0..(Max(T) - 1)
        BY <3>1
      <3> QED  BY <3>2
    <2>4. MaxDone \in Nat
      BY ChainAssumption
    <2>5. Max(S) \in S
      BY <2>2, <2>3, <2>4, MaxExists
    <2>6. RestoredDone(R, e) = Max(S)
      BY DEF RestoredDone
    <2> QED  BY <2>2, <2>5, <2>6
  <1>3. RestoredFlag(R, e) \in Flags
    <2> DEFINE S == {i \in RestoreChain(R, e) : R[i].flag # None}
    <2>1. S \subseteq 0..n
      BY <1>1 DEF StoreOK
    <2>2. S # {}
      <3>1. PICK i \in RestoreChain(R, e) : R[i].full
        BY ChainHasFull
      <3>2. R[i].flag \in Flags
        BY <1>1, <3>1 DEF StoreOK, RowOK
      <3>3. R[i].flag # None
        BY <3>2, ChainAssumption DEF None
      <3> QED  BY <3>3
    <2>3. Max(S) \in S
      BY <2>1, <2>2, MaxExists
    <2>4. R[Max(S)].flag \in {None} \cup Flags /\ R[Max(S)].flag # None
      BY <1>1, <2>3 DEF StoreOK, RowOK, Row
    <2> QED  BY <2>4 DEF RestoredFlag
  <1> QED  BY <1>2, <1>3 DEF Restored, State

\* compute_chain_info keeps a row typed
LEMMA ChainInfoTyped ==
  ASSUME NEW n \in 0..MaxRows, NEW R, StoreOK(R, n), NEW id \in 1..n, NEW r,
         RowOK(r, id), r.full \/ r.prev \in DOMAIN R
  PROVE  LET q == WithChainInfo(R, id, r)
         IN  /\ RowOK(q, id)
             /\ q.full = r.full /\ q.prev = r.prev /\ q.ts = r.ts
  <1> DEFINE rt == IF r.full THEN id ELSE R[r.prev].root
             ps == IF r.full THEN 0 ELSE R[r.prev].pos + 1
  <1>1. MaxRows \in Nat /\ r \in Row
    BY ChainAssumption DEF RowOK
  <1>2. rt \in 0..MaxRows /\ ps \in 0..MaxRows /\ ps < id
    <2>1. CASE r.full
      BY <1>1, <2>1
    <2>2. CASE ~r.full
      <3>1. r.prev \in 1..(id - 1) /\ R[r.prev] \in Row /\ R[r.prev].pos < r.prev
        BY <2>2 DEF StoreOK, RowOK
      <3> QED  BY <1>1, <2>2, <3>1 DEF Row
    <2> QED  BY <2>1, <2>2
  <1> HIDE DEF rt, ps
  <1>3. WithChainInfo(R, id, r) = [r EXCEPT !.root = rt, !.pos = ps]
    BY DEF WithChainInfo, rt, ps
  <1> QED  BY <1>1, <1>2, <1>3 DEF RowOK, Row

\* what saving a row does to the store
LEMMA PutTyped ==
  ASSUME NEW n \in Nat, NEW R, StoreOK(R, n), NEW id \in 1..n, NEW r, RowOK(r, id)
  PROVE  /\ StoreOK(Put(R, id, r), n)
         /\ DOMAIN Put(R, id, r) = DOMAIN R \cup {id}
         /\ Put(R, id, r)[id] = r
         /\ \A i \in DOMAIN R : i # id => Put(R, id, r)[i] = R[i]
  BY DEF StoreOK, Put

\* what deleting rows does to the store
LEMMA WithoutTyped ==
  ASSUME NEW n \in Nat, NEW R, StoreOK(R, n), NEW gone
  PROVE  /\ StoreOK(Without(R, gone), n)
         /\ DOMAIN Without(R, gone) = DOMAIN R \ gone
         /\ \A i \in DOMAIN R \ gone : Without(R, gone)[i] = R[i]
  BY DEF StoreOK, Without

\* a built row is typed, and a delta links to the predecessor that was read
LEMMA BuildTyped ==
  ASSUME NEW R, NEW p, NEW s \in State, NEW prev \in 0..MaxRows, NEW id \in Nat, prev < id,
         NEW map \in BOOLEAN, now \in 1..MaxTime
  PROVE  /\ RowOK(BuildRow(R, p, s, prev, map), id)
         /\ BuildRow(R, p, s, prev, map).prev = prev /\ BuildRow(R, p, s, prev, map).ts = now
  <1>1. MaxRows \in Nat
    BY ChainAssumption
  <1>2. /\ RowOK(FullRow(s, prev, map), id)
        /\ FullRow(s, prev, map).prev = prev /\ FullRow(s, prev, map).ts = now
    BY <1>1 DEF FullRow, RowOK, Row, State
  <1>3. ASSUME NEW base, prev # 0
        PROVE  /\ RowOK(DeltaRow(s, prev, map, base), id)
               /\ DeltaRow(s, prev, map, base).prev = prev /\ DeltaRow(s, prev, map, base).ts = now
    <2> DEFINE dn == IF s.done > base.done THEN s.done ELSE 0
               fl == IF s.flag # base.flag THEN s.flag ELSE None
               mp == map /\ ~base.map
    <2>1. dn \in 0..MaxDone /\ mp \in BOOLEAN /\ fl \in {None} \cup Flags
      BY ChainAssumption DEF State
    <2> HIDE DEF dn, fl, mp
    <2>2. DeltaRow(s, prev, map, base) =
            [full |-> FALSE, prev |-> prev, root |-> 0, pos |-> 0, ts |-> now,
             done |-> dn, map |-> mp, flag |-> fl, coords |-> s]
      BY DEF DeltaRow, dn, fl, mp
    <2> QED  BY <1>1, <1>3, <2>1, <2>2 DEF RowOK, Row
  <1>4. \/ BuildRow(R, p, s, prev, map) = FullRow(s, prev, map)
        \/ prev # 0 /\ BuildRow(R, p, s, prev, map) = DeltaRow(s, prev, map, R[FindBase(R, prev)])
    BY DEF BuildRow
  <1> QED  BY <1>2, <1>3, <1>4

\* what a cleanup run looks at: rows of the store, the others at or below
\* the watermark
LEMMA ViewTyped ==
  ASSUME NEW n \in Nat, StoreOK(rows, n)
  PROVE  /\ StoreOK(View, n) /\ DOMAIN View \subseteq DOMAIN rows
         /\ \A i \in DOMAIN View : View[i] = rows[i]
         /\ \A i \in DOMAIN rows \ DOMAIN View : rows[i].ts <= watermark
         /\ \A i \in DOMAIN View : DOMAIN View # DOMAIN rows => ~(rows[i].ts <= watermark)
  <1>1. CASE IsFullScan
    BY <1>1 DEF View
  <1>2. CASE ~IsFullScan
    <2>1. View = Without(rows, {i \in DOMAIN rows : rows[i].ts <= watermark})
      BY <1>2 DEF View
    <2> DEFINE old == {i \in DOMAIN rows : rows[i].ts <= watermark}
    <2>2. /\ StoreOK(View, n) /\ DOMAIN View = DOMAIN rows \ old
          /\ \A i \in DOMAIN rows \ old : View[i] = rows[i]
      BY <2>1, WithoutTyped
    <2> QED  BY <2>2
  <1> QED  BY <1>1, <1>2

\* the next watermark is a time, or still none
LEMMA WatermarkTyped ==
  ASSUME NEW n \in Nat, NEW V, StoreOK(V, n), NEW cut, watermark \in {None} \cup 1..MaxTime
  PROVE  NextWatermark(V, cut) \in {None} \cup 1..MaxTime
  <1> DEFINE S == {V[i].ts : i \in DOMAIN V \ cut}
  <1>1. S \subseteq 1..MaxTime /\ MaxTime \in Nat
    BY ChainAssumption DEF StoreOK, RowOK, Row
  <1>2. CASE DOMAIN V \ cut = {}
    BY <1>2 DEF NextWatermark
  <1>3. CASE DOMAIN V \ cut # {}
    <2>1. S # {} /\ S \subseteq 0..MaxTime
      BY <1>1, <1>3
    <2>2. Max(S) \in S
      BY <1>1, <2>1, MaxExists
    <2> QED  BY <1>1, <1>3, <2>2 DEF NextWatermark
  <1> QED  BY <1>2, <1>3

\* a cleanup removes rows of its view only
LEMMA RemovalTyped ==
  ASSUME NEW V, NEW s
  PROVE  Removal(V, s) \subseteq DOMAIN V
  BY DEF Removal, Candidates

\* the strategies a policy runs
LEMMA StrategiesTyped == Strategies \in Seq({"count", "time"})
  <1> DEFINE S == Seq({"count", "time"})
  <1>1. <<>> \in S /\ <<"count">> \in S /\ <<"time">> \in S
    OBVIOUS
  <1>2. \A a \in S, b \in S : a \o b \in S
    OBVIOUS
  <1> HIDE DEF S
  <1>3. Strategies \in S
    BY <1>1, <1>2 DEF Strategies
  <1> QED  BY <1>3 DEF S

-----------------------------------------------------------------------------
\* no call at all is a fine call
LEMMA IdleTyped ==
  ASSUME NEW n \in Nat
  PROVE  JobOK(NoJob, n)
  <1>1. NoJob \in Job
    BY ChainAssumption DEF Job, NoJob, Locals, State, Origin, NoRow, Row
  <1> QED  BY <1>1 DEF JobOK, NoJob, Owning, Drafts

\* giving one creator fine locals keeps all of them fine
LEMMA GoTyped ==
  ASSUME JobsOK, NEW c \in Creators, NEW j, JobOK(j, seqno'), Go(c, j),
         seqno \in Nat, seqno' \in Nat, seqno <= seqno'
  PROVE  JobsOK'
  <1>1. \A d \in Creators : JobOK(job[d], seqno')
    <2> SUFFICES ASSUME NEW d \in Creators PROVE JobOK(job[d], seqno')
      OBVIOUS
    <2>1. job[d] \in Job /\ JobOK(job[d], seqno)
      BY DEF JobsOK
    <2>2. job[d].prev \in 0..MaxRows /\ MaxRows \in Nat
      BY <2>1, ChainAssumption DEF Job
    <2> QED  BY <2>1, <2>2 DEF JobOK
  <1>2. job' = [job EXCEPT ![c] = j] /\ j \in Job
    BY DEF Go, JobOK
  <1>3. job' \in [Creators -> Job]
    BY <1>2 DEF JobsOK
  <1>4. \A d \in Creators : job'[d] = IF d = c THEN j ELSE job[d]
    BY <1>2 DEF JobsOK
  <1> QED  BY <1>1, <1>3, <1>4 DEF JobsOK

\* an acknowledged id is typed
LEMMA AckTyped ==
  ASSUME WorldOK, NEW c \in Creators, NEW id \in 0..MaxRows, ack' = [ack EXCEPT ![c] = id]
  PROVE  ack' \in [Creators -> 0..MaxRows]
  BY DEF WorldOK

\* a call that ends leaves everything fine
LEMMA ReturnTyped ==
  ASSUME JobsOK, WorldOK, NEW c \in Creators, NEW id \in 0..MaxRows, Return(c, id),
         UNCHANGED seqno
  PROVE  JobsOK' /\ ack' \in [Creators -> 0..MaxRows]
  <1>1. seqno \in Nat
    BY ChainAssumption DEF WorldOK
  <1>2. JobsOK'
    BY <1>1, IdleTyped, GoTyped DEF Return
  <1> QED  BY <1>2, AckTyped DEF Return

\* a step that changes locals and answers only keeps the world fine
LEMMA WorldKept ==
  ASSUME WorldOK, UNCHANGED world, faults' = faults \/ Fault,
         ack' \in [Creators -> 0..MaxRows],
         watermark' \in {None} \cup 1..MaxTime, runs' \in Nat
  PROVE  WorldOK'
  <1>1. faults' \in 0..MaxFaults
    BY ChainAssumption DEF WorldOK, Fault
  <1> QED  BY <1>1 DEF WorldOK, world

\* a step of one creator that does not touch the store keeps Shape
LEMMA LocalStep ==
  ASSUME Shape, NEW c \in Creators, NEW k, JobOK(k, seqno), Go(c, k),
         UNCHANGED <<store, world>>, faults' = faults \/ Fault,
         ack' \in [Creators -> 0..MaxRows]
  PROVE  Shape'
  <1>1. seqno \in Nat /\ seqno' = seqno /\ rows' = rows /\ watermark' = watermark /\ runs' = runs
    BY ChainAssumption DEF Shape, WorldOK, store, world
  <1>2. JobOK(k, seqno') /\ seqno' \in Nat /\ seqno <= seqno'
    BY <1>1
  <1>3. JobsOK'
    BY <1>1, <1>2, GoTyped DEF Shape
  <1>4. WorldOK'
    BY <1>1, WorldKept DEF Shape, WorldOK
  <1> QED  BY <1>1, <1>3, <1>4 DEF Shape

\* so does one that ends the call
LEMMA ReturnStep ==
  ASSUME Shape, NEW c \in Creators, NEW id \in 0..MaxRows, Return(c, id),
         UNCHANGED <<store, world>>, faults' = faults \/ Fault
  PROVE  Shape'
  <1>1. seqno \in Nat
    BY ChainAssumption DEF Shape, WorldOK
  <1>2. ack' \in [Creators -> 0..MaxRows]
    BY AckTyped DEF Shape, Return
  <1> QED  BY <1>1, <1>2, IdleTyped, LocalStep DEF Return

\* the beginning of a call keeps Shape
LEMMA CallStep ==
  ASSUME Shape, NEW c \in Creators, CallDirect(c) \/ CallEngine(c)
  PROVE  Shape'
  <1>1. seqno \in Nat /\ live \in State /\ MaxRows \in Nat
    BY ChainAssumption DEF Shape, WorldOK
  <1>2. UNCHANGED <<store, world>> /\ (faults' = faults \/ Fault)
    BY DEF CallDirect, CallEngine
  <1>4. live.done \in 0..MaxDone
    BY <1>1 DEF State
  <1>5. NoJob \in Job /\ JobOK(NoJob, seqno)
    BY <1>1, IdleTyped DEF JobOK
  <1> DEFINE j == [NoJob EXCEPT !.want = live.done, !.calm = TRUE]
             l == Latest(rows)
  <1>6. j \in Job /\ j.pc = "idle" /\ j.prev = 0 /\ ~j.retried
    BY <1>4, <1>5 DEF Job, NoJob
  <1>7. /\ l \in 0..seqno
        /\ l # 0 => l \in DOMAIN rows
    BY <1>1, LatestTyped DEF Shape, StoreOK
  <1>8. l \in 0..MaxRows
    BY <1>1, <1>7 DEF Shape, WorldOK
  <1> HIDE DEF j, l
  <1>9. CASE CallDirect(c)
    <2> DEFINE k == [NoJob EXCEPT !.pc = "latest", !.want = live.done,
                         !.calm = TRUE, !.snap = live]
    <2>1. k \in Job /\ k.pc = "latest" /\ k.prev = 0 /\ ~k.retried
      BY <1>1, <1>4, <1>5 DEF Job, NoJob, Locals
    <2>2. JobOK(k, seqno)
      BY <1>1, <2>1 DEF JobOK, Owning, Drafts
    <2>3. Go(c, k) /\ ack' = [ack EXCEPT ![c] = 0]
      BY <1>9 DEF CallDirect
    <2> HIDE DEF k
    <2>4. ack' \in [Creators -> 0..MaxRows]
      <3>1. 0 \in 0..MaxRows
        BY <1>1
      <3> QED  BY <2>3, <3>1, AckTyped DEF Shape
    <2> QED  BY <1>2, <2>2, <2>3, <2>4, LocalStep
  <1>10. ASSUME NEW k, JobOK(k, seqno), Go(c, k), NEW id \in 0..MaxRows,
                ack' = [ack EXCEPT ![c] = id]
         PROVE  Shape'
    <2>1. ack' \in [Creators -> 0..MaxRows]
      BY <1>10, AckTyped DEF Shape
    <2> QED  BY <1>2, <1>10, <2>1, LocalStep
  <1>11. CASE CallEngine(c)
    <2>1. JobOK([j EXCEPT !.pc = "expect"], seqno)
      <3>1. [j EXCEPT !.pc = "expect"] \in Job /\ [j EXCEPT !.pc = "expect"].pc = "expect"
            /\ [j EXCEPT !.pc = "expect"].prev = 0 /\ ~[j EXCEPT !.pc = "expect"].retried
        BY <1>6 DEF Job, Locals
      <3> QED  BY <1>1, <3>1 DEF JobOK, Owning, Drafts
    <2>2. ASSUME l # 0
          PROVE  JobOK([j EXCEPT !.pc = "merge", !.id = l, !.draft = rows[l]], seqno)
      <3> DEFINE k == [j EXCEPT !.pc = "merge", !.id = l, !.draft = rows[l]]
      <3>1. RowOK(rows[l], l) /\ rows[l] \in Row
        BY <1>7, <2>2 DEF Shape, StoreOK, RowOK
      <3>2. k \in Job /\ k.pc = "merge" /\ k.prev = 0 /\ k.id = l /\ k.draft = rows[l]
        BY <1>6, <1>8, <3>1 DEF Job, Locals
      <3> HIDE DEF k
      <3>3. JobOK(k, seqno)
        BY <1>1, <1>7, <2>2, <3>1, <3>2 DEF JobOK, Owning, Drafts
      <3> QED  BY <3>3 DEF k
    <2>3. \/ Go(c, [j EXCEPT !.pc = "expect"]) /\ ack' = [ack EXCEPT ![c] = 0]
          \/ Go(c, NoJob) /\ ack' = [ack EXCEPT ![c] = l]
          \/ /\ l # 0 /\ Go(c, [j EXCEPT !.pc = "merge", !.id = l, !.draft = rows[l]])
             /\ ack' = [ack EXCEPT ![c] = 0]
      BY <1>11 DEF CallEngine, j, l
    <2> QED  BY <1>1, <1>5, <1>8, <1>10, <2>1, <2>2, <2>3
  <1> QED  BY <1>9, <1>11

\* writing a row, as a merge or a save, keeps Shape
LEMMA SaveStep ==
  ASSUME Shape, NEW c \in Creators, Merge(c) \/ Save(c)
  PROVE  Shape'
  <1>1. /\ seqno \in Nat /\ MaxRows \in Nat /\ seqno <= MaxRows /\ seqno \in 0..MaxRows
        /\ job[c] \in Job /\ JobOK(job[c], seqno)
    BY ChainAssumption DEF Shape, WorldOK, JobsOK
  <1>2. UNCHANGED <<watermark, runs, world>> /\ (faults' = faults \/ Fault)
    BY DEF Merge, Save
  <1>3. job[c].pc \in {"merge", "save"}
    BY DEF Merge, Save, At
  <1>4. job[c].id \in 1..seqno /\ RowOK(job[c].draft, job[c].id)
    BY <1>1, <1>3 DEF JobOK, Owning, Drafts
  <1>5. StoreOK(rows', seqno)
    <2>1. CASE UNCHANGED rows
      BY <2>1 DEF Shape
    <2>2. CASE /\ job[c].draft.full \/ job[c].draft.prev \in DOMAIN rows
               /\ rows' = Put(rows, job[c].id, WithChainInfo(rows, job[c].id, job[c].draft))
      BY <1>1, <1>4, <2>2, ChainInfoTyped, PutTyped DEF Shape
    <2>3. CASE rows' = Put(rows, job[c].id, job[c].draft)
      BY <1>1, <1>4, <2>3, PutTyped DEF Shape
    <2> QED  BY <2>1, <2>2, <2>3 DEF Merge, Save
  <1>6. JobsOK' /\ ack' \in [Creators -> 0..MaxRows]
    <2>1. job[c].id \in 0..MaxRows /\ 0 \in 0..MaxRows /\ UNCHANGED seqno
      BY <1>1, <1>2, <1>4 DEF world
    <2>2. CASE Return(c, job[c].id) \/ Return(c, 0)
      BY <2>1, <2>2, ReturnTyped DEF Shape
    <2>3. CASE To(c, "retain") /\ UNCHANGED ack
      <3> DEFINE k == [job[c] EXCEPT !.pc = "retain"]
      <3>1. k \in Job /\ k.pc = "retain" /\ k.prev = job[c].prev /\ k.id = job[c].id
        BY <1>1 DEF Job, Locals
      <3>2. JobOK(k, seqno)
        BY <1>1, <1>4, <3>1 DEF JobOK, Owning, Drafts
      <3>3. Go(c, k)
        BY <2>3 DEF To
      <3> HIDE DEF k
      <3> QED  BY <1>1, <2>1, <2>3, <3>2, <3>3, GoTyped DEF Shape, WorldOK
    <2> QED  BY <2>2, <2>3 DEF Merge, Save, SaveFails, Persisted
  <1> QED  BY <1>2, <1>5, <1>6, WorldKept DEF Shape, world, WorldOK

\* the reading steps, the retention gate included, keep Shape
LEMMA ReadStep ==
  ASSUME Shape, NEW c \in Creators, Expect(c) \/ ReadLatest(c) \/ Check(c)
  PROVE  Shape'
  <1>1. /\ seqno \in Nat /\ MaxRows \in Nat /\ seqno <= MaxRows /\ live \in State
        /\ job[c] \in Job /\ JobOK(job[c], seqno) /\ ack \in [Creators -> 0..MaxRows]
    BY ChainAssumption DEF Shape, WorldOK, JobsOK
  <1>2. UNCHANGED <<store, world>> /\ (faults' = faults \/ Fault)
    BY DEF Expect, ReadLatest, Check
  <1> DEFINE l == Latest(rows)
  <1>3. l \in 0..seqno /\ (l # 0 => l \in DOMAIN rows)
    BY <1>1, LatestTyped DEF Shape, StoreOK
  <1>4. l \in 0..MaxRows /\ 0 \in 0..MaxRows
    BY <1>1, <1>3
  <1> HIDE DEF l
  <1>5. ASSUME NEW id \in 0..MaxRows, Return(c, id) PROVE Shape'
    BY <1>2, <1>5, ReturnStep
  <1>6. ASSUME NEW k, JobOK(k, seqno), Go(c, k), UNCHANGED ack PROVE Shape'
    BY <1>1, <1>2, <1>6, LocalStep
  <1>7. CASE Expect(c)
    <2>1. ASSUME NEW x \in Nat
          PROVE  JobOK([job[c] EXCEPT !.pc = "latest", !.exp = x, !.snap = live], seqno)
      <3> DEFINE k == [job[c] EXCEPT !.pc = "latest", !.exp = x, !.snap = live]
      <3>1. k \in Job /\ k.pc = "latest" /\ k.prev = job[c].prev /\ ~k.retried
        <4>1. ~job[c].retried
          BY <1>1, <1>7 DEF Expect, At, JobOK
        <4> QED  BY <1>1, <4>1 DEF Job, Locals
      <3> HIDE DEF k
      <3>2. JobOK(k, seqno)
        BY <1>1, <3>1 DEF JobOK, Owning, Drafts
      <3> QED  BY <3>2 DEF k
    <2>2. \E x \in Nat : Go(c, [job[c] EXCEPT !.pc = "latest", !.exp = x, !.snap = live])
      <3>1. l \in Nat /\ 0 \in Nat
        BY <1>1, <1>3
      <3>2. \/ Go(c, [job[c] EXCEPT !.pc = "latest", !.exp = l, !.snap = live])
            \/ Go(c, [job[c] EXCEPT !.pc = "latest", !.exp = 0, !.snap = live])
        BY <1>7 DEF Expect, l
      <3> QED  BY <3>1, <3>2
    <2>3. UNCHANGED ack
      BY <1>7 DEF Expect
    <2> QED  BY <1>6, <2>1, <2>2, <2>3
  <1>8. CASE ReadLatest(c)
    <2> DEFINE ps == IF l = 0 THEN 0 ELSE rows[l].pos
               k == [job[c] EXCEPT !.pc = "build", !.prev = l, !.pos = ps]
    <2>1. ps \in 0..MaxRows
      BY <1>3, <1>4 DEF Shape, StoreOK, RowOK, Row
    <2> HIDE DEF ps
    <2>2. /\ k \in Job /\ k.pc = "build" /\ k.prev = l /\ k.id = job[c].id
          /\ k.draft = job[c].draft /\ k.retried = job[c].retried
      BY <1>1, <1>4, <2>1 DEF Job, Locals
    <2> HIDE DEF k
    <2>3. JobOK(k, seqno)
      <3>1. job[c].pc = "latest"
        BY <1>8 DEF ReadLatest, At
      <3> QED  BY <1>1, <1>3, <2>2, <3>1 DEF JobOK, Owning, Drafts
    <2> DEFINE h == [job[c] EXCEPT !.pc = "check"]
    <2>4. \/ Go(c, k) /\ UNCHANGED ack
          \/ Return(c, 0)
          \/ Return(c, l)
          \/ job[c].retried /\ Go(c, h) /\ UNCHANGED ack
      BY <1>8 DEF ReadLatest, To, k, ps, l
    <2>5. job[c].retried => JobOK(h, seqno)
      <3>1. job[c].pc = "latest"
        BY <1>8 DEF ReadLatest, At
      <3>2. /\ h \in Job /\ h.pc = "check" /\ h.prev = job[c].prev /\ h.id = job[c].id
            /\ h.draft = job[c].draft
        BY <1>1 DEF Job, Locals
      <3> HIDE DEF h
      <3> QED  BY <1>1, <3>1, <3>2 DEF JobOK, Owning, Drafts
    <2> HIDE DEF h
    <2> QED  BY <1>4, <1>5, <1>6, <2>3, <2>4, <2>5
  <1>9. CASE Check(c)
    <2>1. job[c].pc = "check"
      BY <1>9 DEF Check, At
    <2> DEFINE k == [job[c] EXCEPT !.pc = "latest", !.retried = TRUE, !.snap = live]
               h == [job[c] EXCEPT !.pc = "chain"]
    <2>2. JobOK(k, seqno)
      <3>1. /\ k \in Job /\ k.pc = "latest" /\ k.prev = job[c].prev
            /\ k.id = job[c].id /\ k.draft = job[c].draft
        BY <1>1 DEF Job, Locals
      <3> HIDE DEF k
      <3> QED  BY <1>1, <2>1, <3>1 DEF JobOK, Owning, Drafts
    <2>3. JobOK(h, seqno)
      <3>1. h \in Job /\ h.pc = "chain" /\ h.prev = job[c].prev /\ h.id = job[c].id
            /\ h.draft = job[c].draft
        BY <1>1 DEF Job, Locals
      <3> HIDE DEF h
      <3> QED  BY <1>1, <2>1, <3>1 DEF JobOK, Owning, Drafts
    <2>4. (Go(c, k) /\ UNCHANGED ack) \/ (Go(c, h) /\ UNCHANGED ack) \/ Return(c, l)
      BY <1>9 DEF Check, To, l
    <2> HIDE DEF k, h
    <2> QED  BY <1>4, <1>5, <1>6, <2>2, <2>3, <2>4
  <1> QED  BY <1>7, <1>8, <1>9

\* building a row keeps Shape
LEMMA BuildStep ==
  ASSUME Shape, NEW c \in Creators, Build(c)
  PROVE  Shape'
  <1>1. /\ seqno \in Nat /\ MaxRows \in Nat /\ live \in State
        /\ job[c] \in Job /\ JobOK(job[c], seqno) /\ now \in 1..MaxTime
    BY ChainAssumption DEF Shape, WorldOK, JobsOK
  <1>2. /\ seqno < MaxRows /\ seqno' = seqno + 1
        /\ UNCHANGED <<store, now, live, deleted, ack, faults>>
    BY DEF Build
  <1>3. job[c].prev \in 0..MaxRows /\ job[c].prev < seqno + 1 /\ job[c].snap \in State
    BY <1>1 DEF JobOK, Job
  <1> DEFINE mp == c \in Direct \/ job[c].snap.done > 0
             d == BuildRow(rows, job[c].pos, job[c].snap, job[c].prev, mp)
             p == IF c \in Direct THEN "chain" ELSE "check"
             k == [job[c] EXCEPT !.pc = p, !.id = seqno + 1, !.draft = d]
  <1>4. RowOK(d, seqno + 1)
    <2>1. mp \in BOOLEAN
      OBVIOUS
    <2> HIDE DEF mp
    <2> QED  BY <1>1, <1>3, <2>1, BuildTyped
  <1>5. d \in Row /\ p \in {"chain", "check"}
    BY <1>4 DEF RowOK
  <1>6. Go(c, k)
    BY DEF Build
  <1> HIDE DEF d, p
  <1>7. k \in Job /\ k.pc = p /\ k.prev = job[c].prev /\ k.id = seqno + 1 /\ k.draft = d
    <2>1. seqno + 1 \in 0..MaxRows /\ p \in Locals
      BY <1>1, <1>2, <1>5 DEF Locals
    <2> QED  BY <1>1, <1>5, <2>1 DEF Job
  <1> HIDE DEF k
  <1>8. JobOK(k, seqno')
    BY <1>1, <1>2, <1>3, <1>4, <1>5, <1>7 DEF JobOK, Owning, Drafts
  <1>9. JobsOK'
    BY <1>1, <1>2, <1>6, <1>8, GoTyped DEF Shape
  <1>10. StoreOK(rows', seqno')
    BY <1>1, <1>2 DEF Shape, StoreOK, store
  <1>11. WorldOK'
    BY <1>1, <1>2 DEF Shape, WorldOK, store
  <1> QED  BY <1>9, <1>10, <1>11 DEF Shape

\* the first half of save keeps Shape
LEMMA ChainInfoStep ==
  ASSUME Shape, NEW c \in Creators, ChainInfo(c)
  PROVE  Shape'
  <1>1. /\ seqno \in 0..MaxRows /\ MaxRows \in Nat
        /\ job[c] \in Job /\ JobOK(job[c], seqno) /\ ack \in [Creators -> 0..MaxRows]
    BY ChainAssumption DEF Shape, WorldOK, JobsOK
  <1>2. /\ UNCHANGED <<store, world>> /\ (faults' = faults \/ Fault)
        /\ job[c].pc = "chain"
    BY DEF ChainInfo, At
  <1>3. job[c].id \in 1..seqno /\ RowOK(job[c].draft, job[c].id)
    BY <1>1, <1>2 DEF JobOK, Owning, Drafts
  <1>4. CASE Return(c, 0)
    <2>1. 0 \in 0..MaxRows
      BY <1>1
    <2> QED  BY <1>2, <1>4, <2>1, ReturnStep
  <1> DEFINE d == WithChainInfo(rows, job[c].id, job[c].draft)
             k == [job[c] EXCEPT !.pc = "save", !.draft = d]
  <1>5. CASE /\ job[c].draft.full \/ job[c].draft.prev \in DOMAIN rows
             /\ Go(c, k) /\ UNCHANGED ack
    <2>1. RowOK(d, job[c].id)
      BY <1>1, <1>3, <1>5, ChainInfoTyped DEF Shape
    <2>2. d \in Row
      BY <2>1 DEF RowOK
    <2> HIDE DEF d
    <2>3. k \in Job /\ k.pc = "save" /\ k.prev = job[c].prev /\ k.id = job[c].id /\ k.draft = d
      BY <1>1, <2>2 DEF Job, Locals
    <2> HIDE DEF k
    <2>4. JobOK(k, seqno)
      BY <1>1, <1>3, <2>1, <2>3 DEF JobOK, Owning, Drafts
    <2> QED  BY <1>1, <1>2, <1>5, <2>4, LocalStep
  <1>6. CASE Return(c, job[c].id)
    <2>1. job[c].id \in 0..MaxRows
      BY <1>1, <1>3
    <2> QED  BY <1>2, <1>6, <2>1, ReturnStep
  <1>7. CASE To(c, "retain") /\ UNCHANGED ack
    <2> DEFINE h == [job[c] EXCEPT !.pc = "retain"]
    <2>1. h \in Job /\ h.pc = "retain" /\ h.prev = job[c].prev /\ h.id = job[c].id
      BY <1>1 DEF Job, Locals
    <2>2. JobOK(h, seqno)
      BY <1>1, <1>3, <2>1 DEF JobOK, Owning, Drafts
    <2>3. Go(c, h)
      BY <1>7 DEF To
    <2> HIDE DEF h
    <2> QED  BY <1>1, <1>2, <1>7, <2>2, <2>3, LocalStep
  <1> QED  BY <1>4, <1>5, <1>6, <1>7 DEF ChainInfo, SaveFails, Persisted

\* going on to the next strategy keeps the locals fine
LEMMA StrategyTyped ==
  ASSUME Shape, NEW c \in Creators, job[c].pc \in {"list", "apply"}, NextStrategy(c),
         UNCHANGED seqno
  PROVE  JobsOK' /\ ack' \in [Creators -> 0..MaxRows]
  <1>1. /\ seqno \in Nat /\ seqno <= MaxRows /\ MaxRows \in Nat
        /\ job[c] \in Job /\ JobOK(job[c], seqno) /\ ack \in [Creators -> 0..MaxRows]
    BY ChainAssumption DEF Shape, WorldOK, JobsOK
  <1>2. job[c].id \in 1..seqno /\ job[c].todo # <<>>
    BY <1>1 DEF JobOK, Owning
  <1>3. job[c].id \in 0..MaxRows
    BY <1>1, <1>2
  <1>4. CASE Return(c, job[c].id)
    BY <1>3, <1>4, ReturnTyped DEF Shape
  <1> DEFINE t == Tail(job[c].todo)
             k == [job[c] EXCEPT !.pc = "list", !.todo = t, !.cut = {}, !.mark = None]
  <1>5. CASE Len(job[c].todo) # 1 /\ Go(c, k) /\ UNCHANGED ack
    <2>1. job[c].todo \in Seq({"count", "time"})
      BY <1>1 DEF Job
    <2>2. t \in Seq({"count", "time"}) /\ Len(t) = Len(job[c].todo) - 1
      BY <1>2, <2>1
    <2>3. Len(job[c].todo) \in Nat /\ Len(job[c].todo) # 0
      BY <1>2, <2>1
    <2> HIDE DEF t
    <2>4. t # <<>>
      <3>1. Len(t) # 0
        BY <1>5, <2>2, <2>3
      <3>2. Len(<<>>) = 0
        OBVIOUS
      <3> QED  BY <3>1, <3>2, Zenon
    <2>5. k \in Job /\ k.pc = "list" /\ k.prev = job[c].prev /\ k.id = job[c].id /\ k.todo = t
      BY <1>1, <2>2 DEF Job, Locals
    <2> HIDE DEF k
    <2>6. JobOK(k, seqno')
      BY <1>1, <1>2, <2>4, <2>5 DEF JobOK, Owning, Drafts
    <2> QED  BY <1>1, <1>5, <2>6, GoTyped DEF Shape
  <1> QED  BY <1>4, <1>5 DEF NextStrategy

\* a cleanup run keeps Shape
LEMMA CleanStep ==
  ASSUME Shape, NEW c \in Creators, Retain(c) \/ CleanList(c) \/ CleanApply(c)
  PROVE  Shape'
  <1>1. /\ seqno \in Nat /\ seqno <= MaxRows /\ MaxRows \in Nat
        /\ job[c] \in Job /\ JobOK(job[c], seqno) /\ ack \in [Creators -> 0..MaxRows]
        /\ runs \in Nat /\ watermark \in {None} \cup 1..MaxTime
    BY ChainAssumption DEF Shape, WorldOK, JobsOK
  <1>2. UNCHANGED world /\ (faults' = faults \/ Fault)
        /\ job[c].pc \in {"retain", "list", "apply"}
    BY DEF Retain, CleanList, CleanApply, At
  <1>3. job[c].id \in 1..seqno /\ UNCHANGED seqno
    BY <1>1, <1>2 DEF JobOK, Owning, world
  <1>4. job[c].id \in 0..MaxRows
    BY <1>1, <1>3
  <1>5. CASE Retain(c)
    <2> DEFINE k == [job[c] EXCEPT !.pc = "list", !.todo = Strategies]
    <2>1. UNCHANGED store /\ (Return(c, job[c].id)
                             \/ (RetentionExceeded /\ Go(c, k) /\ UNCHANGED ack))
      BY <1>5 DEF Retain
    <2>2. CASE Return(c, job[c].id)
      BY <1>2, <1>4, <2>1, <2>2, ReturnStep
    <2>3. CASE RetentionExceeded /\ Go(c, k) /\ UNCHANGED ack
      <3>1. Strategies # <<>>
        <4>1. MaxCheckpoints > 0 \/ MaxAge > 0
          BY <2>3 DEF RetentionExceeded
        <4>2. CASE MaxCheckpoints > 0
          <5>1. Len(Strategies) >= 1
            BY <4>2 DEF Strategies
          <5> QED  BY <5>1
        <4>3. CASE ~(MaxCheckpoints > 0) /\ MaxAge > 0
          <5>1. Strategies = <<>> \o <<"time">>
            BY <4>3 DEF Strategies
          <5>2. Len(Strategies) = 1
            BY <5>1
          <5> QED  BY <5>2
        <4> QED  BY <4>1, <4>2, <4>3
      <3>2. k \in Job /\ k.pc = "list" /\ k.prev = job[c].prev /\ k.id = job[c].id
            /\ k.todo = Strategies
        BY <1>1, StrategiesTyped DEF Job, Locals
      <3> HIDE DEF k
      <3>3. JobOK(k, seqno)
        BY <1>1, <1>3, <3>1, <3>2 DEF JobOK, Owning, Drafts
      <3> QED  BY <1>1, <1>2, <2>1, <2>3, <3>3, LocalStep
    <2> QED  BY <2>1, <2>2, <2>3
  <1>6. CASE CleanList(c)
    <2>1. job[c].pc = "list" /\ UNCHANGED store
      BY <1>6 DEF CleanList, At
    <2>2. CASE NextStrategy(c)
      <3>1. JobsOK' /\ ack' \in [Creators -> 0..MaxRows]
        BY <1>3, <2>1, <2>2, StrategyTyped
      <3> QED  BY <1>1, <1>2, <2>1, <3>1, WorldKept DEF Shape, store, world
    <2> DEFINE cut == Removal(View, Head(job[c].todo))
               m == NextWatermark(View, cut)
               b == job[c].scan \/ IsFullScan
               k == [job[c] EXCEPT !.pc = "apply", !.cut = cut, !.mark = m, !.exp = runs,
                                   !.scan = b]
    <2>3. CASE Go(c, k) /\ UNCHANGED ack
      <3>1. StoreOK(View, seqno)
        BY <1>1, ViewTyped DEF Shape
      <3>2. cut \in SUBSET Ids
        BY <1>1, <3>1, RemovalTyped DEF StoreOK, Ids
      <3>3. m \in {None} \cup 1..MaxTime
        BY <1>1, <3>1, WatermarkTyped
      <3>4. b \in BOOLEAN
        OBVIOUS
      <3> HIDE DEF cut, m, b
      <3>5. k \in Job /\ k.pc = "apply" /\ k.prev = job[c].prev /\ k.id = job[c].id
            /\ k.todo = job[c].todo
        BY <1>1, <3>2, <3>3, <3>4 DEF Job, Locals
      <3> HIDE DEF k
      <3>6. JobOK(k, seqno)
        BY <1>1, <1>3, <2>1, <3>5 DEF JobOK, Owning, Drafts
      <3> QED  BY <1>1, <1>2, <2>1, <2>3, <3>6, LocalStep
    <2> QED  BY <1>6, <2>2, <2>3 DEF CleanList
  <1>7. CASE CleanApply(c)
    <2>1. job[c].pc = "apply" /\ NextStrategy(c)
      BY <1>7 DEF CleanApply, At
    <2>2. JobsOK' /\ ack' \in [Creators -> 0..MaxRows]
      BY <1>3, <2>1, StrategyTyped
    <2>3. job[c].mark \in {None} \cup 1..MaxTime /\ job[c].exp \in Nat
      BY <1>1 DEF Job
    <2>4. \/ UNCHANGED store
          \/ /\ rows' = Without(rows, job[c].cut) /\ watermark' = job[c].mark
             /\ runs' = job[c].exp + 1
      BY <1>7 DEF CleanApply
    <2>5. StoreOK(rows', seqno)
      <3>1. StoreOK(rows, seqno)
        BY DEF Shape
      <3>2. StoreOK(Without(rows, job[c].cut), seqno)
        BY <1>1, <3>1, WithoutTyped
      <3> QED  BY <2>4, <3>1, <3>2 DEF store
    <2>6. watermark' \in {None} \cup 1..MaxTime /\ runs' \in Nat
      BY <1>1, <2>3, <2>4 DEF store
    <2> QED  BY <1>2, <1>3, <2>2, <2>5, <2>6, WorldKept DEF Shape
  <1> QED  BY <1>5, <1>6, <1>7

\* two calls that differ in nothing the steps of a call look at
Alike(j, k) ==
  /\ k.pc = j.pc /\ k.id = j.id /\ k.draft = j.draft /\ k.retried = j.retried
  /\ k.prev = j.prev /\ k.pos = j.pos /\ k.snap = j.snap /\ k.todo = j.todo /\ k.cut = j.cut

\* a call that a delete disturbs remembers that and nothing else
LEMMA UneasyTyped ==
  ASSUME NEW n, NEW j \in Job, JobOK(j, n)
  PROVE  JobOK([j EXCEPT !.calm = FALSE], n) /\ Alike(j, [j EXCEPT !.calm = FALSE])
  <1> DEFINE k == [j EXCEPT !.calm = FALSE]
  <1>1. k \in Job /\ Alike(j, k)
    BY DEF Job, Alike
  <1> HIDE DEF k
  <1>2. JobOK(k, n)
    BY <1>1 DEF JobOK, Alike, Drafts
  <1> QED  BY <1>1, <1>2 DEF k

\* so do progress, the clock, deletes and crashes
LEMMA OutsideStep ==
  ASSUME Shape, Progress \/ Flip \/ Tick \/ Crash \/ (\E e \in DOMAIN rows : Delete(e))
  PROVE  Shape'
  <1>1. /\ StoreOK(rows, seqno) /\ JobsOK /\ WorldOK /\ seqno \in Nat /\ live \in State
        /\ MaxDone \in Nat /\ MaxTime \in Nat /\ MaxRows \in Nat /\ MaxDeletes \in Nat
    BY ChainAssumption DEF Shape, WorldOK
  <1>2. CASE Progress \/ Flip \/ Tick
    <2>1. UNCHANGED <<store, seqno, deleted, job, ack, faults>>
      BY <1>2 DEF Progress, Flip, Tick
    <2>2. live' \in State
      BY <1>1, <1>2 DEF Progress, Flip, Tick, State
    <2>3. now' \in 1..MaxTime
      BY <1>1, <1>2 DEF Progress, Flip, Tick, WorldOK
    <2> QED  BY <1>1, <2>1, <2>2, <2>3 DEF Shape, JobsOK, WorldOK, store
  <1>3. ASSUME NEW e \in DOMAIN rows, Delete(e) PROVE Shape'
    <2>1. /\ Cardinality(deleted) < MaxDeletes /\ rows' = Without(rows, {e})
          /\ deleted' = deleted \cup {e}
          /\ job' = [c \in Creators |-> [job[c] EXCEPT !.calm = FALSE]]
          /\ UNCHANGED <<watermark, runs, seqno, now, live, ack, faults>>
      BY <1>3 DEF Delete
    <2>2. StoreOK(rows', seqno)
      BY <1>1, <2>1, WithoutTyped
    <2>3. e \in 1..seqno /\ IsFiniteSet(deleted) /\ Cardinality(deleted) \in Nat
      BY <1>1, FS_CardinalityType DEF StoreOK, WorldOK
    <2>4. IsFiniteSet(deleted') /\ Cardinality(deleted') <= MaxDeletes
      <3>1. /\ IsFiniteSet(deleted \cup {e})
            /\ Cardinality(deleted \cup {e}) =
                 IF e \in deleted THEN Cardinality(deleted) ELSE Cardinality(deleted) + 1
        BY <2>3, FS_AddElement
      <3> QED  BY <1>1, <2>1, <2>3, <3>1
    <2>5. deleted' \subseteq 1..seqno
      BY <1>1, <2>1, <2>3 DEF WorldOK
    <2>6. JobsOK'
      <3>1. \A c \in Creators : [job[c] EXCEPT !.calm = FALSE] \in Job
                              /\ JobOK([job[c] EXCEPT !.calm = FALSE], seqno)
        BY <1>1, UneasyTyped DEF JobsOK, JobOK
      <3> QED  BY <2>1, <3>1 DEF JobsOK
    <2> QED  BY <1>1, <2>1, <2>2, <2>4, <2>5, <2>6 DEF Shape, WorldOK
  <1>4. CASE Crash
    <2>1. /\ UNCHANGED <<store, seqno, now, deleted>> /\ Fault
          /\ job' = [c \in Creators |-> NoJob] /\ ack' = [c \in Creators |-> 0]
      BY <1>4 DEF Crash
    <2>2. live' = Origin \/ \E e \in DOMAIN rows : Restorable(rows, e) /\ live' = Restored(rows, e)
      BY <1>4 DEF Crash
    <2>3. Origin \in State
      BY ChainAssumption DEF Origin, State
    <2>4. live' \in State
      BY <1>1, <2>2, <2>3, RestoredTyped
    <2>5. JobsOK'
      <3>1. NoJob \in Job /\ JobOK(NoJob, seqno)
        BY <1>1, IdleTyped DEF JobOK
      <3> QED  BY <2>1, <3>1 DEF JobsOK
    <2>6. faults' \in 0..MaxFaults
      BY <1>1, <2>1, ChainAssumption DEF Fault, WorldOK
    <2> QED  BY <1>1, <2>1, <2>4, <2>5, <2>6 DEF Shape, WorldOK, store
  <1> QED  BY <1>2, <1>3, <1>4

\* Shape is inductive
LEMMA ShapeStep == Shape /\ [Next]_vars => Shape'
  <1> SUFFICES ASSUME Shape, [Next]_vars PROVE Shape'
    OBVIOUS
  <1>1. CASE UNCHANGED vars
    BY <1>1 DEF vars, Shape, StoreOK, JobsOK, WorldOK
  <1>2. ASSUME NEW c \in Creators, Step(c) PROVE Shape'
    BY <1>2, CallStep, SaveStep, ReadStep, BuildStep, ChainInfoStep, CleanStep DEF Step
  <1> QED  BY <1>1, <1>2, OutsideStep DEF Next

\* Shape holds initially
LEMMA ShapeInit == Init => Shape
  <1> SUFFICES ASSUME Init PROVE Shape
    OBVIOUS
  <1>1. DOMAIN rows = {} /\ StoreOK(rows, 0)
    BY DEF Init, StoreOK
  <1>2. JobsOK
    BY IdleTyped DEF Init, JobsOK, JobOK
  <1>3. IsFiniteSet(deleted) /\ Cardinality(deleted) = 0
    BY FS_EmptySet DEF Init
  <1>4. WorldOK
    BY <1>3, ChainAssumption DEF Init, WorldOK, Origin, State
  <1> QED  BY <1>1, <1>2, <1>4 DEF Shape, Init

\* Shape is an invariant
LEMMA ShapeAlways == Spec => []Shape
  BY ShapeInit, ShapeStep, PTL DEF Spec

\* Type correctness, whatever creators, cleanups, deletes, storage failures and
\* crashes interleave: typed rows under ids that were given out, chain positions
\* below their ids, typed locals of every call
THEOREM ChainTypeCorrect == Spec => []TypeOK
  <1>1. Shape => TypeOK
    BY DEF Shape, StoreOK, RowOK, JobsOK, WorldOK, TypeOK
  <1> QED  BY <1>1, ShapeAlways, PTL

-----------------------------------------------------------------------------
\* The heart of it: a delta of the view that survives a cleanup keeps its
\* predecessor.  Either it was never a candidate, and then its chain is needed
\* by itself, or it was kept for the chain of another survivor, which passes
\* through its predecessor too
LEMMA RemovalKeepsChains ==
  ASSUME NEW n \in Nat, NEW V, StoreOK(V, n), NEW s, NEW e \in DOMAIN V \ Removal(V, s),
         ~V[e].full
  PROVE  V[e].prev \notin Removal(V, s)
  <1> DEFINE cand == Candidates(V, s)
             kept == cand \ (Needed(V, cand) \cup ChainGroup(V, cand))
  <1>1. Removal(V, s) = (kept \ Needed(V, kept)) \ {Latest(V)}
    BY DEF Removal
  <1>2. Latest(V) \notin kept
    BY DEF Candidates
  <1>3. e \notin kept \/ e \in Needed(V, kept)
    BY <1>1, <1>2
  <1>4. V[e].prev \in 1..(e - 1) /\ e \in Nat
    BY DEF StoreOK, RowOK
  <1> HIDE DEF kept
  <1>5. CASE e \notin kept
    <2>1. V[e].prev \in RestoreChain(V, V[e].prev)
      BY <1>4, ChainSelf
    <2>2. V[e].prev \in Needed(V, kept)
      BY <1>5, <2>1 DEF Needed
    <2> QED  BY <1>1, <2>2
  <1>6. CASE e \in Needed(V, kept)
    <2>1. PICK i \in DOMAIN V \ kept : ~V[i].full /\ e \in RestoreChain(V, V[i].prev)
      BY <1>6 DEF Needed
    <2>2. V[i].prev \in Nat
      BY <2>1 DEF StoreOK, RowOK
    <2>3. V[e].prev \in RestoreChain(V, V[i].prev)
      BY <1>4, <2>1, <2>2, ChainClosed
    <2>4. V[e].prev \in Needed(V, kept)
      BY <2>1, <2>3 DEF Needed
    <2> QED  BY <1>1, <2>4
  <1> QED  BY <1>3, <1>5, <1>6

\* no row comes from the future, and no predecessor is younger than its delta
RowsOrdered ==
  /\ \A e \in DOMAIN rows : rows[e].ts <= now
  /\ \A e \in DOMAIN rows :
       ~rows[e].full /\ rows[e].prev \in DOMAIN rows => rows[rows[e].prev].ts <= rows[e].ts

\* deleting the rows in cut leaves no stored delta without its predecessor
CutSafe(cut) == \A e \in DOMAIN rows \ cut : rows[e].full \/ rows[e].prev \notin cut

\* a cleanup whose view is the rows above the watermark is safe for the rows
\* below it as well, because predecessors are older
LEMMA RemovalSafe ==
  ASSUME NEW n \in Nat, StoreOK(rows, n), RowsOrdered,
         watermark \in {None} \cup 1..MaxTime, NEW s
  PROVE  CutSafe(Removal(View, s))
  <1> SUFFICES ASSUME NEW e \in DOMAIN rows \ Removal(View, s), ~rows[e].full
               PROVE  rows[e].prev \notin Removal(View, s)
    BY DEF CutSafe
  <1>1. /\ StoreOK(View, n) /\ DOMAIN View \subseteq DOMAIN rows
        /\ \A i \in DOMAIN View : View[i] = rows[i]
    BY ViewTyped
  <1>2. CASE e \in DOMAIN View
    BY <1>1, <1>2, RemovalKeepsChains
  <1>3. CASE e \notin DOMAIN View
    <2> SUFFICES ASSUME rows[e].prev \in DOMAIN View PROVE FALSE
      BY RemovalTyped
    <2>1. rows[e].ts <= watermark /\ ~(rows[rows[e].prev].ts <= watermark)
      BY <1>3, ViewTyped
    <2>2. rows[rows[e].prev].ts <= rows[e].ts
      BY <1>1 DEF RowsOrdered
    <2>3. rows[e].ts \in Int /\ rows[rows[e].prev].ts \in Int /\ watermark \in Int
      <3>1. rows[e] \in Row /\ rows[rows[e].prev] \in Row
        BY <1>1 DEF StoreOK, RowOK
      <3> QED  BY <3>1, ChainAssumption DEF Row, None
    <2> QED  BY <2>1, <2>2, <2>3
  <1> QED  BY <1>2, <1>3

\* there is at most one creator
Solo == \A c, d \in Creators : c = d

\* what a call in flight will do to the chain: save a delta whose predecessor is
\* there, or delete rows nothing depends on
LinkOK(j) ==
  /\ j.pc = "save" /\ ~j.draft.full => j.draft.prev \in DOMAIN rows \cup deleted
  /\ j.pc \in {"retain", "list", "apply"} => Strategies # <<>>
  /\ j.pc = "apply" => CutSafe(j.cut)

\* a draft is the newest row and no older than its predecessor
TimeOK(j) ==
  Drafts(j) =>
    /\ j.draft.ts <= now
    /\ \A e \in DOMAIN rows : e <= j.id
    /\ ~j.draft.full /\ j.draft.prev \in DOMAIN rows => rows[j.draft.prev].ts <= j.draft.ts

\* The strengthening of ChainIntact.  The order of rows in time, on which the
\* incremental cleanup rests, is an invariant for a single creator only
Links ==
  /\ ChainIntact
  /\ \A c \in Creators : LinkOK(job[c])
  /\ Solo => RowsOrdered /\ \A c \in Creators : TimeOK(job[c])

\* a step of one creator that leaves the store alone keeps Links
LEMMA LocalLinks ==
  ASSUME Shape, Links, NEW c \in Creators, NEW k, Go(c, k), LinkOK(k), Solo => TimeOK(k),
         UNCHANGED <<rows, deleted, now>>
  PROVE  Links'
  <1>1. \A d \in Creators : job'[d] = IF d = c THEN k ELSE job[d]
    BY DEF Go, Shape, JobsOK
  <1>2. \A d \in Creators : LinkOK(job'[d]) /\ (Solo => TimeOK(job'[d]))
    BY <1>1 DEF Links
  <1>3. \A d \in Creators : LinkOK(job[d])' /\ (Solo => TimeOK(job[d])')
    BY <1>2 DEF LinkOK, TimeOK, CutSafe
  <1>4. ChainIntact' /\ (Solo => RowsOrdered')
    BY DEF Links, ChainIntact, RowsOrdered
  <1> QED  BY <1>3, <1>4 DEF Links, Solo

\* no call at all threatens no chain
LEMMA IdleLinks == LinkOK(NoJob) /\ TimeOK(NoJob)
  BY DEF LinkOK, TimeOK, NoJob, Drafts

\* nor does a call that ends
LEMMA ReturnLinks ==
  ASSUME Shape, Links, NEW c \in Creators, NEW id, Return(c, id),
         UNCHANGED <<rows, deleted, now>>
  PROVE  Links'
  BY IdleLinks, LocalLinks DEF Return

\* nor one that goes on without a row
LEMMA PersistedLinks ==
  ASSUME Shape, Links, NEW c \in Creators, Persisted(c), UNCHANGED <<rows, deleted, now>>
  PROVE  Links'
  <1> DEFINE k == [job[c] EXCEPT !.pc = "retain"]
  <1>1. k.pc = "retain"
    BY DEF Shape, JobsOK, JobOK, Job
  <1>2. (Strategies # <<>> /\ Go(c, k)) \/ Return(c, job[c].id)
    BY DEF Persisted, To
  <1> HIDE DEF k
  <1>3. CASE Strategies # <<>> /\ Go(c, k)
    <2>1. LinkOK(k) /\ TimeOK(k)
      BY <1>1, <1>3 DEF LinkOK, TimeOK, Drafts
    <2> QED  BY <1>3, <2>1, LocalLinks
  <1> QED  BY <1>2, <1>3, ReturnLinks

\* nor the beginning of one
LEMMA CallLinks ==
  ASSUME Shape, Links, NEW c \in Creators, CallDirect(c) \/ CallEngine(c)
  PROVE  Links'
  <1>1. UNCHANGED <<rows, deleted, now>>
    BY DEF CallDirect, CallEngine, store, world
  <1> DEFINE j == [NoJob EXCEPT !.want = live.done, !.calm = TRUE]
             l == Latest(rows)
             k1 == [NoJob EXCEPT !.pc = "latest", !.want = live.done,
                         !.calm = TRUE, !.snap = live]
             k2 == [j EXCEPT !.pc = "expect"]
             k3 == [j EXCEPT !.pc = "merge", !.id = l, !.draft = rows[l]]
  <1>2. /\ k1.pc = "latest" /\ ~k1.retried /\ k2.pc = "expect"
        /\ k3.pc = "merge" /\ k3.id = l /\ k3.draft = rows[l]
    BY DEF NoJob
  <1>3. \/ Go(c, k1) \/ Go(c, k2) \/ Go(c, NoJob)
        \/ l # 0 /\ Go(c, k3)
    BY DEF CallDirect, CallEngine
  <1> HIDE DEF j, k1, k2, k3
  <1>4. LinkOK(k1) /\ TimeOK(k1) /\ LinkOK(k2) /\ TimeOK(k2) /\ LinkOK(k3)
    BY <1>2 DEF LinkOK, TimeOK, Drafts
  <1>5. l # 0 /\ Solo => TimeOK(k3)
    <2>1. seqno \in Nat /\ DOMAIN rows \subseteq 1..seqno
      BY ChainAssumption DEF Shape, WorldOK, StoreOK
    <2>2. (l # 0 => l \in DOMAIN rows) /\ \A i \in DOMAIN rows : i <= l
      BY <2>1, LatestTyped
    <2> QED  BY <1>2, <2>2 DEF Links, RowsOrdered, TimeOK
  <1> QED  BY <1>1, <1>3, <1>4, <1>5, IdleLinks, LocalLinks

\* nor the steps that read
LEMMA ReadLinks ==
  ASSUME Shape, Links, NEW c \in Creators,
         Expect(c) \/ ReadLatest(c) \/ Check(c) \/ ChainInfo(c) \/ Retain(c)
  PROVE  Links'
  <1>1. UNCHANGED <<rows, deleted, now>>
    BY DEF Expect, ReadLatest, Check, ChainInfo, Retain, store, world
  <1>2. job[c] \in Job /\ LinkOK(job[c]) /\ (Solo => TimeOK(job[c]))
    BY DEF Shape, JobsOK, Links
  <1>3. ASSUME NEW k, Go(c, k), k.pc \in {"latest", "build", "check"},
               Drafts(k) => Drafts(job[c]) /\ k.draft = job[c].draft /\ k.id = job[c].id
        PROVE  Links'
    <2>1. LinkOK(k) /\ (Solo => TimeOK(k))
      BY <1>2, <1>3 DEF LinkOK, TimeOK
    <2> QED  BY <1>1, <1>3, <2>1, LocalLinks
  <1>4. CASE Expect(c)
    <2>1. PICK x : Go(c, [job[c] EXCEPT !.pc = "latest", !.exp = x, !.snap = live])
      BY <1>4 DEF Expect
    <2> DEFINE k == [job[c] EXCEPT !.pc = "latest", !.exp = x, !.snap = live]
    <2>2. ~job[c].retried
      BY <1>4 DEF Expect, At, Shape, JobsOK, JobOK
    <2>3. k.pc = "latest" /\ ~k.retried
      BY <1>2, <2>2 DEF Job
    <2> HIDE DEF k
    <2>4. ~Drafts(k)
      BY <2>3 DEF Drafts
    <2>5. Go(c, k)
      BY <2>1 DEF k
    <2> QED  BY <1>3, <2>3, <2>4, <2>5
  <1>5. CASE ReadLatest(c)
    <2>1. CASE \E id : Return(c, id)
      BY <1>1, <2>1, ReturnLinks
    <2>2. job[c].pc = "latest"
      BY <1>5 DEF ReadLatest, At
    <2>3. ASSUME NEW l, NEW p, Go(c, [job[c] EXCEPT !.pc = "build", !.prev = l, !.pos = p])
          PROVE  Links'
      <3> DEFINE k == [job[c] EXCEPT !.pc = "build", !.prev = l, !.pos = p]
      <3>1. /\ k.pc = "build" /\ k.draft = job[c].draft /\ k.id = job[c].id
            /\ k.retried = job[c].retried
        BY <1>2 DEF Job
      <3>2. Go(c, k)
        BY <2>3
      <3> HIDE DEF k
      <3>3. Drafts(k) => Drafts(job[c])
        BY <2>2, <3>1 DEF Drafts
      <3> QED  BY <1>3, <3>1, <3>2, <3>3
    <2>4. CASE job[c].retried /\ To(c, "check")
      <3> DEFINE k == [job[c] EXCEPT !.pc = "check"]
      <3>1. k.pc = "check" /\ k.draft = job[c].draft /\ k.id = job[c].id
        BY <1>2 DEF Job
      <3>2. Go(c, k)
        BY <2>4 DEF To
      <3> HIDE DEF k
      <3>3. Drafts(job[c])
        BY <2>2, <2>4 DEF Drafts
      <3> QED  BY <1>3, <3>1, <3>2, <3>3
    <2> DEFINE l == Latest(rows)
               q == IF l = 0 THEN 0 ELSE rows[l].pos
               k == [job[c] EXCEPT !.pc = "build", !.prev = l, !.pos = q]
    <2>5. \/ Return(c, 0)
          \/ Return(c, l)
          \/ job[c].retried /\ To(c, "check")
          \/ Go(c, k)
      BY <1>5 DEF ReadLatest
    <2> HIDE DEF l, q
    <2> QED  BY <2>1, <2>3, <2>4, <2>5
  <1>6. CASE Check(c)
    <2>1. job[c].pc = "check"
      BY <1>6 DEF Check, At
    <2> DEFINE k == [job[c] EXCEPT !.pc = "latest", !.retried = TRUE, !.snap = live]
               h == [job[c] EXCEPT !.pc = "chain"]
    <2>2. Go(c, k) \/ Go(c, h) \/ \E id : Return(c, id)
      BY <1>6 DEF Check, To
    <2>3. /\ k.pc = "latest" /\ k.draft = job[c].draft /\ k.id = job[c].id
          /\ h.pc = "chain" /\ h.draft = job[c].draft /\ h.id = job[c].id
      BY <1>2 DEF Job
    <2> HIDE DEF k, h
    <2>4. LinkOK(h) /\ (Solo => TimeOK(h))
      BY <1>2, <2>1, <2>3 DEF LinkOK, TimeOK, Drafts
    <2>5. Drafts(job[c])
      BY <2>1 DEF Drafts
    <2> QED  BY <1>1, <1>3, <2>2, <2>3, <2>4, <2>5, LocalLinks, ReturnLinks
  <1>7. CASE ChainInfo(c)
    <2>1. CASE Return(c, 0)
      BY <1>1, <2>1, ReturnLinks
    <2> DEFINE d == WithChainInfo(rows, job[c].id, job[c].draft)
               k == [job[c] EXCEPT !.pc = "save", !.draft = d]
    <2>2. CASE (job[c].draft.full \/ job[c].draft.prev \in DOMAIN rows) /\ Go(c, k)
      <3>1. job[c].pc = "chain" /\ JobOK(job[c], seqno) /\ seqno \in 0..MaxRows
            /\ StoreOK(rows, seqno)
        BY <1>7 DEF ChainInfo, At, Shape, JobsOK, WorldOK
      <3>2. job[c].id \in 1..seqno /\ RowOK(job[c].draft, job[c].id)
        BY <3>1 DEF JobOK, Owning, Drafts
      <3>3. d.full = job[c].draft.full /\ d.prev = job[c].draft.prev /\ d.ts = job[c].draft.ts
        BY <2>2, <3>1, <3>2, ChainInfoTyped
      <3> HIDE DEF d
      <3>4. k.pc = "save" /\ k.draft = d /\ k.id = job[c].id
        BY <1>2 DEF Job
      <3> HIDE DEF k
      <3>5. LinkOK(k) /\ (Solo => TimeOK(k))
        BY <1>2, <2>2, <3>1, <3>3, <3>4 DEF LinkOK, TimeOK, Drafts
      <3> QED  BY <1>1, <2>2, <3>5, LocalLinks
    <2>3. CASE Persisted(c)
      BY <1>1, <2>3, PersistedLinks
    <2> QED  BY <1>7, <2>1, <2>2, <2>3 DEF ChainInfo, SaveFails
  <1>8. CASE Retain(c)
    <2> DEFINE k == [job[c] EXCEPT !.pc = "list", !.todo = Strategies]
    <2>1. Go(c, k) \/ Return(c, job[c].id)
      BY <1>8 DEF Retain
    <2>2. k.pc = "list" /\ job[c].pc = "retain"
      BY <1>2, <1>8 DEF Job, Retain, At
    <2> HIDE DEF k
    <2>3. LinkOK(k) /\ TimeOK(k)
      BY <1>2, <2>2 DEF LinkOK, TimeOK, Drafts
    <2> QED  BY <1>1, <2>1, <2>3, LocalLinks, ReturnLinks
  <1> QED  BY <1>4, <1>5, <1>6, <1>7, <1>8

\* a built row links to the newest one there is, or to one deleted meanwhile
LEMMA BuildLinks ==
  ASSUME Shape, Links, NEW c \in Creators, Build(c)
  PROVE  Links'
  <1>1. UNCHANGED <<rows, deleted, now>>
    BY DEF Build, store
  <1>2. /\ job[c] \in Job /\ seqno \in Nat /\ seqno < MaxRows /\ now \in 1..MaxTime
        /\ JobOK(job[c], seqno) /\ DOMAIN rows \subseteq 1..seqno
    <2>1. job[c] \in Job /\ JobOK(job[c], seqno)
      BY DEF Shape, JobsOK
    <2>2. seqno \in Nat /\ now \in 1..MaxTime /\ seqno < MaxRows
      BY ChainAssumption DEF Shape, WorldOK, Build
    <2>3. DOMAIN rows \subseteq 1..seqno
      BY DEF Shape, StoreOK
    <2> QED  BY <2>1, <2>2, <2>3
  <1>3. job[c].prev \in 0..MaxRows /\ job[c].prev < seqno + 1 /\ job[c].snap \in State
    <2>1. job[c].prev \in 0..MaxRows /\ job[c].snap \in State
      BY <1>2 DEF Job
    <2>2. job[c].prev <= seqno
      BY <1>2 DEF JobOK
    <2> QED  BY <1>2, <2>1, <2>2, ChainAssumption
  <1> DEFINE mp == c \in Direct \/ job[c].snap.done > 0
             d == BuildRow(rows, job[c].pos, job[c].snap, job[c].prev, mp)
             p == IF c \in Direct THEN "chain" ELSE "check"
             k == [job[c] EXCEPT !.pc = p, !.id = seqno + 1, !.draft = d]
  <1>4. d.ts = now
    BY DEF BuildRow, FullRow, DeltaRow
  <1>5. Go(c, k) /\ p \in {"chain", "check"}
    BY DEF Build
  <1> HIDE DEF d, p
  <1>6. k.pc = p /\ k.id = seqno + 1 /\ k.draft = d
    BY <1>2 DEF Job
  <1> HIDE DEF k
  <1>7. LinkOK(k)
    BY <1>5, <1>6 DEF LinkOK
  <1>8. Solo => TimeOK(k)
    <2> SUFFICES ASSUME Solo PROVE TimeOK(k)
      OBVIOUS
    <2>1. \A e \in DOMAIN rows : e <= seqno + 1
      BY <1>2
    <2>2. \A e \in DOMAIN rows : rows[e].ts <= now
      BY DEF Links, RowsOrdered
    <2> QED  BY <1>2, <1>4, <1>6, <2>1, <2>2 DEF TimeOK
  <1> QED  BY <1>1, <1>5, <1>7, <1>8, LocalLinks

\* no retention policy, or no second creator to race with its cleanup
Quiet == Strategies = <<>> \/ Solo

\* a row that lands keeps Links when its predecessor is there
LEMMA PutLinks ==
  ASSUME Quiet, Shape, Links, NEW c \in Creators, NEW id \in 1..seqno, NEW r, RowOK(r, id),
         rows' = Put(rows, id, r), UNCHANGED <<deleted, now>>,
         ~r.full => r.prev \in DOMAIN rows \cup deleted,
         Solo => /\ r.ts <= now /\ \A e \in DOMAIN rows : e <= id
                 /\ ~r.full /\ r.prev \in DOMAIN rows => rows[r.prev].ts <= r.ts,
         NEW k, Go(c, k), k.pc \in {"idle", "retain"}, k.pc = "retain" => Strategies # <<>>
  PROVE  Links'
  <1>1. seqno \in Nat /\ StoreOK(rows, seqno)
    BY ChainAssumption DEF Shape, WorldOK
  <1>2. /\ DOMAIN rows' = DOMAIN rows \cup {id} /\ rows'[id] = r
        /\ \A i \in DOMAIN rows : i # id => rows'[i] = rows[i]
    BY DEF Put
  <1>3. \A d \in Creators : job'[d] = IF d = c THEN k ELSE job[d]
    BY DEF Go, Shape, JobsOK
  <1>4. ChainIntact'
    BY <1>2 DEF Links, ChainIntact
  <1>5. ASSUME NEW d \in Creators PROVE LinkOK(job[d])' /\ (Solo => TimeOK(job[d])')
    <2>1. CASE d = c
      BY <1>3, <2>1 DEF LinkOK, TimeOK, Drafts
    <2>2. CASE d # c
      <3>1. ~Solo /\ Strategies = <<>>
        BY <2>2 DEF Quiet, Solo
      <3>2. job'[d] = job[d] /\ LinkOK(job[d])
        BY <1>3, <2>2 DEF Links
      <3>3. job[d].pc \notin {"retain", "list", "apply"}
        BY <3>1, <3>2 DEF LinkOK
      <3> QED  BY <1>2, <3>1, <3>2, <3>3 DEF LinkOK
    <2> QED  BY <2>1, <2>2
  <1>6. ASSUME Solo PROVE RowsOrdered'
    <2>1. RowsOrdered
      BY <1>6 DEF Links
    <2>2. \A e \in DOMAIN rows' : rows'[e].ts <= now'
      BY <1>2, <1>6, <2>1 DEF RowsOrdered
    <2>3. ASSUME NEW e \in DOMAIN rows', ~rows'[e].full, rows'[e].prev \in DOMAIN rows'
          PROVE  rows'[rows'[e].prev].ts <= rows'[e].ts
      <3>1. e \in 1..seqno /\ e <= id
        BY <1>1, <1>2, <1>6 DEF StoreOK
      <3>2. rows'[e].prev \in 1..(e - 1)
        BY <1>1, <1>2, <2>3 DEF StoreOK, RowOK
      <3>3. rows'[e].prev # id /\ rows'[e].prev \in DOMAIN rows
        BY <1>2, <2>3, <3>1, <3>2
      <3>4. rows'[rows'[e].prev] = rows[rows'[e].prev]
        BY <1>2, <3>3
      <3>5. CASE e = id
        BY <1>2, <1>6, <2>3, <3>3, <3>4, <3>5
      <3>6. CASE e # id
        BY <1>2, <2>1, <2>3, <3>3, <3>4, <3>6 DEF RowsOrdered
      <3> QED  BY <3>5, <3>6
    <2> QED  BY <2>2, <2>3 DEF RowsOrdered
  <1> QED  BY <1>4, <1>5, <1>6 DEF Links, Solo

\* merges and saves keep Links
LEMMA SaveLinks ==
  ASSUME Quiet, Shape, Links, NEW c \in Creators, Merge(c) \/ Save(c)
  PROVE  Links'
  <1>1. /\ seqno \in 0..MaxRows /\ StoreOK(rows, seqno) /\ job[c] \in Job
        /\ JobOK(job[c], seqno) /\ LinkOK(job[c]) /\ (Solo => TimeOK(job[c]))
    BY DEF Shape, WorldOK, JobsOK, Links
  <1>2. UNCHANGED <<deleted, now>> /\ job[c].pc \in {"merge", "save"}
    BY DEF Merge, Save, world, At
  <1>3. job[c].id \in 1..seqno /\ RowOK(job[c].draft, job[c].id)
    BY <1>1, <1>2 DEF JobOK, Owning, Drafts
  <1>4. CASE UNCHANGED rows /\ Return(c, 0)
    BY <1>2, <1>4, ReturnLinks
  <1>5. Solo => /\ job[c].draft.ts <= now /\ \A e \in DOMAIN rows : e <= job[c].id
                /\ ~job[c].draft.full /\ job[c].draft.prev \in DOMAIN rows
                     => rows[job[c].draft.prev].ts <= job[c].draft.ts
    BY <1>1, <1>2 DEF TimeOK, Drafts
  <1>6. NoJob.pc = "idle"
    BY DEF NoJob
  <1>7. CASE /\ job[c].draft.full \/ job[c].draft.prev \in DOMAIN rows
             /\ rows' = Put(rows, job[c].id, WithChainInfo(rows, job[c].id, job[c].draft))
             /\ Return(c, job[c].id)
    <2> DEFINE r == WithChainInfo(rows, job[c].id, job[c].draft)
    <2>1. /\ RowOK(r, job[c].id) /\ r.full = job[c].draft.full /\ r.prev = job[c].draft.prev
          /\ r.ts = job[c].draft.ts
      BY <1>1, <1>3, <1>7, ChainInfoTyped
    <2> HIDE DEF r
    <2>2. rows' = Put(rows, job[c].id, r) /\ Go(c, NoJob)
      BY <1>7 DEF r, Return
    <2>3. ~r.full => r.prev \in DOMAIN rows \cup deleted
      BY <1>7, <2>1
    <2>4. Solo => /\ r.ts <= now /\ \A e \in DOMAIN rows : e <= job[c].id
                  /\ ~r.full /\ r.prev \in DOMAIN rows => rows[r.prev].ts <= r.ts
      BY <1>5, <2>1
    <2> QED  BY <1>2, <1>3, <1>6, <2>1, <2>2, <2>3, <2>4, PutLinks
  <1>8. CASE Save(c) /\ rows' = Put(rows, job[c].id, job[c].draft)
    <2>1. job[c].pc = "save"
      BY <1>8 DEF Save, At
    <2>2. ~job[c].draft.full => job[c].draft.prev \in DOMAIN rows \cup deleted
      BY <1>1, <2>1 DEF LinkOK
    <2> DEFINE k == [job[c] EXCEPT !.pc = "retain"]
    <2>3. k.pc = "retain"
      BY <1>1 DEF Job
    <2>4. (Strategies # <<>> /\ Go(c, k)) \/ Go(c, NoJob)
      <3>1. CASE ~Fault \/ rows' # rows
        BY <1>8 DEF Save, SaveFails, Persisted, To, Return
      <3>2. CASE Fault /\ rows' = rows
        BY <1>8 DEF Save, SaveFails, Persisted, To, Return
      <3> QED  BY <3>1, <3>2
    <2> HIDE DEF k
    <2> QED  BY <1>2, <1>3, <1>5, <1>6, <1>8, <2>2, <2>3, <2>4, PutLinks
  <1>9. CASE UNCHANGED rows /\ Persisted(c)
    BY <1>2, <1>9, PersistedLinks
  <1> QED  BY <1>4, <1>7, <1>8, <1>9 DEF Merge, Save, SaveFails

\* a cleanup run keeps Links
LEMMA CleanLinks ==
  ASSUME Quiet, Shape, Links, NEW c \in Creators, CleanList(c) \/ CleanApply(c)
  PROVE  Links'
  <1>1. /\ seqno \in Nat /\ StoreOK(rows, seqno) /\ job[c] \in Job
        /\ LinkOK(job[c]) /\ watermark \in {None} \cup 1..MaxTime
    BY ChainAssumption DEF Shape, WorldOK, JobsOK, Links
  <1>2. UNCHANGED <<deleted, now>> /\ job[c].pc \in {"list", "apply"}
    BY DEF CleanList, CleanApply, world, At
  <1>3. Strategies # <<>> /\ Solo
    BY <1>1, <1>2 DEF LinkOK, Quiet
  <1> DEFINE t == [job[c] EXCEPT !.pc = "list", !.todo = Tail(@), !.cut = {}, !.mark = None]
  <1>4. t.pc = "list"
    BY <1>1 DEF Job
  <1>5. ASSUME NextStrategy(c)
        PROVE  \E k : Go(c, k) /\ LinkOK(k) /\ TimeOK(k) /\ k.pc \in {"list", "idle"}
    <2>1. LinkOK(t) /\ TimeOK(t)
      BY <1>3, <1>4 DEF LinkOK, TimeOK, Drafts
    <2>2. Go(c, t) \/ Go(c, NoJob)
      BY <1>5 DEF NextStrategy, Return
    <2>3. NoJob.pc = "idle"
      BY DEF NoJob
    <2> HIDE DEF t
    <2> QED  BY <1>4, <2>1, <2>2, <2>3, IdleLinks
  <1> HIDE DEF t
  <1>6. CASE UNCHANGED rows /\ NextStrategy(c)
    BY <1>2, <1>5, <1>6, LocalLinks
  <1>7. CASE CleanList(c)
    <2>1. UNCHANGED rows /\ job[c].pc = "list"
      BY <1>7 DEF CleanList, store, At
    <2> DEFINE cut == Removal(View, Head(job[c].todo))
               m == NextWatermark(View, cut)
               b == job[c].scan \/ IsFullScan
               k == [job[c] EXCEPT !.pc = "apply", !.cut = cut, !.mark = m, !.exp = runs,
                                   !.scan = b]
    <2>2. CASE Go(c, k)
      <3>1. CutSafe(cut)
        BY <1>1, <1>3, RemovalSafe DEF Links
      <3> HIDE DEF cut, m, b
      <3>2. k.pc = "apply" /\ k.cut = cut
        BY <1>1 DEF Job
      <3> HIDE DEF k
      <3>3. LinkOK(k) /\ TimeOK(k)
        BY <1>3, <3>1, <3>2 DEF LinkOK, TimeOK, Drafts
      <3> QED  BY <1>2, <2>1, <2>2, <3>3, LocalLinks
    <2> QED  BY <1>6, <1>7, <2>1, <2>2 DEF CleanList
  <1>8. CASE CleanApply(c) /\ rows' = Without(rows, job[c].cut)
    <2> DEFINE cut == job[c].cut
    <2>1. job[c].pc = "apply" /\ NextStrategy(c)
      BY <1>8 DEF CleanApply, At
    <2>2. CutSafe(cut)
      BY <1>1, <2>1 DEF LinkOK
    <2> HIDE DEF cut
    <2>3. /\ DOMAIN rows' = DOMAIN rows \ cut
          /\ \A i \in DOMAIN rows \ cut : rows'[i] = rows[i]
      BY <1>1, <1>8, WithoutTyped DEF cut
    <2>4. ChainIntact'
      BY <1>2, <2>2, <2>3 DEF Links, ChainIntact, CutSafe
    <2>5. RowsOrdered'
      BY <1>2, <1>3, <2>3 DEF Links, RowsOrdered
    <2>6. PICK k : Go(c, k) /\ k.pc \in {"list", "idle"}
      BY <1>5, <2>1
    <2>7. \A d \in Creators : job'[d] = k
      BY <1>3, <2>6 DEF Solo, Go, Shape, JobsOK
    <2>8. \A d \in Creators : LinkOK(job[d])' /\ TimeOK(job[d])'
      BY <1>3, <2>6, <2>7 DEF LinkOK, TimeOK, Drafts
    <2> QED  BY <2>4, <2>5, <2>8 DEF Links
  <1> QED  BY <1>6, <1>7, <1>8 DEF CleanApply, store

\* progress, the clock, deletes and crashes keep Links
LEMMA OutsideLinks ==
  ASSUME Shape, Links,
         Progress \/ Flip \/ Tick \/ Crash \/ (\E e \in DOMAIN rows : Delete(e)) \/ UNCHANGED vars
  PROVE  Links'
  <1>1. CASE Progress \/ Flip \/ UNCHANGED vars
    <2>1. UNCHANGED <<rows, deleted, now, job>>
      BY <1>1 DEF Progress, Flip, store, vars
    <2> QED  BY <2>1 DEF Links, ChainIntact, RowsOrdered, LinkOK, TimeOK, CutSafe, Solo
  <1>2. CASE Tick
    <2>1. UNCHANGED <<rows, deleted, job>> /\ now' = now + 1 /\ now \in Int
      BY <1>2 DEF Tick, store, Shape, WorldOK
    <2>2. ASSUME NEW e \in DOMAIN rows PROVE rows[e].ts \in Int
      BY <2>2 DEF Shape, StoreOK, RowOK, Row
    <2>3. ASSUME NEW c \in Creators PROVE job[c].draft.ts \in Int
      <3>1. job[c] \in Job
        BY DEF Shape, JobsOK
      <3>2. job[c].draft \in Row
        BY <3>1 DEF Job
      <3> QED  BY <3>2 DEF Row
    <2>4. ChainIntact' /\ \A c \in Creators : LinkOK(job[c])'
      BY <2>1 DEF Links, ChainIntact, LinkOK, CutSafe
    <2>5. Solo => RowsOrdered'
      BY <2>1, <2>2 DEF Links, RowsOrdered
    <2>6. ASSUME Solo, NEW c \in Creators PROVE TimeOK(job[c])'
      <3>1. TimeOK(job[c])
        BY <2>6 DEF Links
      <3> QED  BY <2>1, <2>3, <3>1 DEF TimeOK
    <2> QED  BY <2>4, <2>5, <2>6 DEF Links, Solo
  <1>3. ASSUME NEW e \in DOMAIN rows, Delete(e) PROVE Links'
    <2>1. /\ rows' = Without(rows, {e}) /\ deleted' = deleted \cup {e}
          /\ UNCHANGED now
      BY <1>3 DEF Delete
    <2>2. seqno \in Nat /\ StoreOK(rows, seqno)
      BY ChainAssumption DEF Shape, WorldOK
    <2>8. \A c \in Creators : Alike(job[c], job'[c])
      <3>1. job' = [c \in Creators |-> [job[c] EXCEPT !.calm = FALSE]]
        BY <1>3 DEF Delete
      <3>2. \A c \in Creators : job[c] \in Job /\ JobOK(job[c], seqno)
        BY DEF Shape, JobsOK
      <3> QED  BY <3>1, <3>2, UneasyTyped
    <2>3. /\ DOMAIN rows' = DOMAIN rows \ {e}
          /\ \A i \in DOMAIN rows \ {e} : rows'[i] = rows[i]
      BY <2>1, <2>2, WithoutTyped
    <2>4. ChainIntact'
      BY <2>1, <2>3 DEF Links, ChainIntact
    <2>5. ASSUME NEW c \in Creators PROVE LinkOK(job[c])'
      <3>1. LinkOK(job[c]) /\ Alike(job[c], job'[c])
        BY <2>8 DEF Links
      <3> QED  BY <2>1, <2>3, <3>1 DEF LinkOK, CutSafe, Alike
    <2>6. Solo => RowsOrdered'
      BY <2>1, <2>3 DEF Links, RowsOrdered
    <2>7. ASSUME Solo, NEW c \in Creators PROVE TimeOK(job[c])'
      <3>1. TimeOK(job[c]) /\ Alike(job[c], job'[c])
        BY <2>7, <2>8 DEF Links
      <3> QED  BY <2>1, <2>3, <3>1 DEF TimeOK, Alike, Drafts
    <2> QED  BY <2>4, <2>5, <2>6, <2>7 DEF Links, Solo
  <1>4. CASE Crash
    <2>1. UNCHANGED <<rows, deleted, now>> /\ job' = [c \in Creators |-> NoJob]
      BY <1>4 DEF Crash, store
    <2>2. NoJob.pc = "idle"
      BY DEF NoJob
    <2>3. \A c \in Creators : LinkOK(job[c])' /\ TimeOK(job[c])'
      BY <2>1, <2>2 DEF LinkOK, TimeOK, Drafts
    <2> QED  BY <2>1, <2>3 DEF Links, ChainIntact, RowsOrdered
  <1> QED  BY <1>1, <1>2, <1>3, <1>4

\* Links holds throughout, without a policy or with a single creator
LEMMA LinksAlways == Quiet => (Spec => []Links)
  <1> SUFFICES ASSUME Quiet PROVE Spec => []Links
    OBVIOUS
  <1>1. Init => Links
    <2> SUFFICES ASSUME Init PROVE Links
      OBVIOUS
    <2>1. DOMAIN rows = {} /\ \A c \in Creators : job[c] = NoJob
      BY DEF Init
    <2> QED  BY <2>1, IdleLinks DEF Links, ChainIntact, RowsOrdered
  <1>2. Shape /\ Links /\ [Next]_vars => Links'
    <2> SUFFICES ASSUME Shape, Links, [Next]_vars PROVE Links'
      OBVIOUS
    <2>1. ASSUME NEW c \in Creators, Step(c) PROVE Links'
      BY <2>1, CallLinks, ReadLinks, BuildLinks, SaveLinks, CleanLinks DEF Step
    <2> QED  BY <2>1, OutsideLinks DEF Next
  <1> QED  BY <1>1, <1>2, ShapeAlways, PTL DEF Spec

\* Retention, storage failures and crashes never tear a chain: without a retention
\* policy for any set of concurrent creators, and with one for a single creator,
\* the predecessor of every stored delta is stored too or was deleted through the
\* API.  (With a policy and two creators it is not so: a cleanup may delete the
\* predecessor between the chain lookup and the save of the other creator.)
THEOREM ChainAlwaysIntact == Quiet => (Spec => []ChainIntact)
  <1> SUFFICES ASSUME Quiet PROVE Spec => []ChainIntact
    OBVIOUS
  <1>1. Links => ChainIntact
    BY DEF Links
  <1>2. Spec => []Links
    BY LinksAlways
  <1> QED  BY <1>1, <1>2, PTL
=============================================================================
