------------------------ MODULE SessionIngestProofs ------------------------
(***************************************************************************)
(* Proofs about SessionIngest for all workers, sessions, batches, bounds   *)
(* and both stores: types first, then the inductive invariant IInv part by *)
(* part and the properties that follow from it; then LInv, which adds what *)
(* keeps sequences and ids apart, and the refinement of the ledger; last   *)
(* SInv, for what only holds when transactions run one after the other.    *)
(***************************************************************************)
EXTENDS SessionIngest, FiniteSetTheorems, TLAPS

(***************************************************************************)
(* Rows, batches and views                                                 *)
(***************************************************************************)

\* The row operations of the store yield rows.
LEMMA RowOperations ==
  /\ NoRow \in Row
  /\ \A c, t \in Nat : NewRow(c, t) \in Row
  /\ \A row \in Row, t \in Nat :
       Tick(row, t) \in Row /\ EndByClient(row, t) \in Row /\ SweepRow(row, t) \in Row
<1>1. NoRow \in Row
  BY NumberAssumption DEF Row, NoRow, NoTime, NoCid
<1>2. ASSUME NEW c \in Nat, NEW t \in Nat
      PROVE  NewRow(c, t) \in Row
  BY NumberAssumption DEF Row, NewRow, NoTime
<1>3. ASSUME NEW row \in Row, NEW t \in Nat
      PROVE  /\ Tick(row, t) \in Row /\ EndByClient(row, t) \in Row
             /\ SweepStalled(row, t) \in Row /\ SweepEnded(row, t) \in Row
  <2>1. Tick(row, t) \in Row
    <3>1. row.count \in Nat
      BY DEF Row
    <3>2. row.count + 1 \in Nat
      BY <3>1
    <3> QED
      BY <3>2 DEF Row, Tick
  <2>2. EndByClient(row, t) \in Row
    BY DEF Row, EndByClient
  <2>3. SweepStalled(row, t) \in Row
    BY DEF Row, SweepStalled
  <2>4. SweepEnded(row, t) \in Row
    BY DEF Row, SweepEnded
  <2> QED
    BY <2>1, <2>2, <2>3, <2>4
<1> QED
  BY <1>1, <1>2, <1>3 DEF SweepRow

\* A worker that is not idle has a current event, one of its batch's.
LEMMA CurrentEvent ==
  ASSUME TypeOK, NEW w \in Workers, pc[w] # "idle"
  PROVE  /\ batch[w] \in Batches /\ batch[w] \in Batch
         /\ pos[w] \in 1 .. Len(batch[w].events)
         /\ Len(batch[w].events) \in Nat
         /\ \A i \in 1 .. Len(batch[w].events) :
              batch[w].events[i] \in EventInput /\ batch[w].events[i].session \in Sessions
         /\ Event(w) \in EventInput /\ Session(w) \in Sessions
<1>1. batch[w] \in Batches /\ pos[w] \in 1 .. Len(batch[w].events)
  BY DEF TypeOK
<1>2. batch[w] \in Batch
  BY <1>1, BatchAssumption
<1>3. batch[w].events \in Seq(EventInput)
  BY <1>2 DEF Batch
<1>4. \A i \in 1 .. Len(batch[w].events) : batch[w].events[i] \in EventInput
  BY <1>3
<1>5. \A e \in EventInput : e.session \in Sessions
  BY DEF EventInput
<1> QED
  BY <1>1, <1>2, <1>3, <1>4, <1>5 DEF Event, Session

\* A view is a row.
LEMMA ViewIsRow ==
  ASSUME TypeOK, NEW w \in Workers, NEW s \in Sessions
  PROVE  View(w, s) \in Row
BY DEF TypeOK, View

\* What the current event writes is a row.
LEMMA WrittenIsRow ==
  ASSUME TypeOK, NEW w \in Workers, pc[w] # "idle"
  PROVE  Written(w) \in Row /\ Ticked(w) \in Row /\ Inserted(w) \in Row
<1>1. Session(w) \in Sessions
  BY CurrentEvent
<1>2. View(w, Session(w)) \in Row /\ at[w] \in Nat /\ cand[w][Session(w)] \in Nat
  BY <1>1, ViewIsRow DEF TypeOK
<1>3. Ticked(w) \in Row /\ Inserted(w) \in Row
  BY <1>2, RowOperations DEF Ticked, Inserted
<1> QED
  BY <1>2, <1>3, RowOperations DEF Written

(***************************************************************************)
(* Types                                                                   *)
(***************************************************************************)

\* A request that ends leaves a well-typed idle worker.
LEMMA ForgetKeepsTypes ==
  ASSUME TypeOK, NEW w \in Workers, Forget(w)
  PROVE  /\ pc' \in [Workers -> Stages]
         /\ batch' \in [Workers -> Batches \cup {NoBatch}]
         /\ \A v \in Workers : pc'[v] # "idle" =>
              batch'[v] \in Batches /\ pos'[v] \in 1 .. Len(batch'[v].events)
         /\ pos' \in [Workers -> Nat \ {0}]
         /\ at' \in [Workers -> Nat] /\ firstSeq' \in [Workers -> Nat]
         /\ cand' \in [Workers -> [Sessions -> Nat]]
         /\ found' \in [Workers -> BOOLEAN]
BY DEF Forget, Goto, TypeOK, Stages, NoCid

\* Moving on in a batch stays within the batch.
LEMMA AdvanceKeepsTypes ==
  ASSUME TypeOK, NEW w \in Workers, pc[w] # "idle",
         NEW again \in Stages, NEW next \in Stages,
         Advance(w, again, next), batch' = batch
  PROVE  /\ pc' \in [Workers -> Stages]
         /\ pos' \in [Workers -> Nat \ {0}]
         /\ \A v \in Workers : pc'[v] # "idle" =>
              batch'[v] \in Batches /\ pos'[v] \in 1 .. Len(batch'[v].events)
<1>1. pc' \in [Workers -> Stages]
  BY DEF Advance, Goto, TypeOK
<1>2. pos[w] \in 1 .. Len(batch[w].events) /\ Len(batch[w].events) \in Nat
  BY CurrentEvent
<1>3. pos'[w] \in 1 .. Len(batch[w].events)
      /\ pos' = [pos EXCEPT ![w] = pos'[w]] /\ \A v \in Workers \ {w} : pc'[v] = pc[v]
  <2>1. CASE LastEvent(w)
    BY <2>1, <1>2 DEF Advance, Goto, TypeOK
  <2>2. CASE ~LastEvent(w)
    BY <2>2, <1>2 DEF Advance, Goto, LastEvent, TypeOK
  <2> QED
    BY <2>1, <2>2
<1>4. pos' \in [Workers -> Nat \ {0}]
  BY <1>2, <1>3 DEF TypeOK
<1>5. \A v \in Workers : pc'[v] # "idle" =>
        batch'[v] \in Batches /\ pos'[v] \in 1 .. Len(batch'[v].events)
  BY <1>3 DEF TypeOK
<1> QED
  BY <1>1, <1>4, <1>5

\* The first state is well-typed.
LEMMA TypeInit == Init => TypeOK
BY NumberAssumption, RowOperations, SessionAssumption
   DEF Init, TypeOK, NoCid, NoTime, Stages

\* The type invariant is inductive together with Tidy.
LEMMA TypeStep ==
  ASSUME TypeOK, Tidy, [Next]_vars
  PROVE  TypeOK'
<1> USE DEF vars, store, tx, counters, clock, worker, bounds
<1>1. ASSUME NEW w \in Workers, NEW b \in Batches, Receive(w, b)
      PROVE  TypeOK'
  <2>1. b \in Batch /\ Len(b.events) \in Nat \ {0}
    BY BatchAssumption DEF Batch
  <2>2. pos[w] = 1
    BY <1>1 DEF Receive, Tidy
  <2> QED
    BY <1>1, <2>1, <2>2 DEF TypeOK, Receive, Goto, Stages
<1>2. ASSUME NEW b \in Batches, Reject(b)
      PROVE  TypeOK'
  <2>1. nextSeq' \in Nat \ {0}
    BY <1>2 DEF TypeOK, Reject
  <2> QED
    BY <1>2, <2>1 DEF TypeOK, Reject
<1>3. ASSUME NEW w \in Workers, Serve(w)
      PROVE  TypeOK'
  <2>0. pc[w] # "idle"
    BY <1>3 DEF Serve, Resolve, BeginUpsert, UpsertRead, UpsertWrite, CommitUpsert,
                SetSampleRate, AppendBoundaries, BeginAppend, Insert, CommitAppend
  <2>s. Session(w) \in Sessions /\ Event(w) \in EventInput
    BY <2>0, CurrentEvent
  <2>1. CASE Resolve(w)
    <3>1. /\ pc' \in [Workers -> Stages] /\ pos' \in [Workers -> Nat \ {0}]
          /\ \A v \in Workers : pc'[v] # "idle" =>
               batch'[v] \in Batches /\ pos'[v] \in 1 .. Len(batch'[v].events)
      BY <2>0, <2>1, AdvanceKeepsTypes DEF Resolve, Stages
    <3>2. sessions[Session(w)].cid \in Nat
      BY <2>s DEF TypeOK, Row
    <3>3. cand' \in [Workers -> [Sessions -> Nat]] /\ nextCid' \in Nat \ {0}
      <4>1. CASE UNCHANGED <<cand, nextCid>>
        BY <4>1 DEF TypeOK
      <4>2. CASE cand' = [cand EXCEPT ![w][Session(w)] = sessions[Session(w)].cid]
                 /\ UNCHANGED nextCid
        BY <4>2, <2>s, <3>2 DEF TypeOK
      <4>3. CASE cand' = [cand EXCEPT ![w][Session(w)] = nextCid]
                 /\ nextCid' = nextCid + 1
        BY <4>3, <2>s DEF TypeOK
      <4> QED
        BY <2>1, <4>1, <4>2, <4>3 DEF Resolve
    <3> QED
      BY <2>1, <3>1, <3>3 DEF Resolve, TypeOK
  <2>2. CASE BeginUpsert(w)
    BY <2>2 DEF BeginUpsert, BeginTx, Goto, TypeOK, Stages
  <2>3. CASE UpsertRead(w)
    BY <2>3 DEF UpsertRead, Exists, Goto, TypeOK, Stages
  <2>4. CASE UpsertWrite(w)
    <3>1. /\ pc' \in [Workers -> Stages] /\ pos' \in [Workers -> Nat \ {0}]
          /\ \A v \in Workers : pc'[v] # "idle" =>
               batch'[v] \in Batches /\ pos'[v] \in 1 .. Len(batch'[v].events)
      BY <2>0, <2>4, AdvanceKeepsTypes DEF UpsertWrite, Stages
    <3>2. staged' \in [Workers -> [Sessions -> Row]]
      BY <2>0, <2>4, <2>s, WrittenIsRow DEF UpsertWrite, TypeOK
    <3>3. Canonical(w) \in Nat
      <4>1. View(w, Session(w)).cid \in Nat /\ cand[w][Session(w)] \in Nat
        BY <2>s, ViewIsRow, SMTT(30) DEF TypeOK, Row
      <4> QED
        BY <4>1 DEF Canonical
    <3>4. cand' \in [Workers -> [Sessions -> Nat]]
      BY <2>4, <2>s, <3>3 DEF UpsertWrite, TypeOK
    <3> QED
      BY <2>4, <3>1, <3>2, <3>4 DEF UpsertWrite, TypeOK
  <2>5. CASE CommitUpsert(w)
    <3>1. sessions' \in [Sessions -> Row]
      BY <2>5, ViewIsRow DEF CommitUpsert
    <3>2. staged' \in [Workers -> [Sessions -> Row]]
      BY <2>5, RowOperations DEF CommitUpsert, TypeOK
    <3> QED
      BY <2>5, <3>1, <3>2 DEF CommitUpsert, EndTx, Goto, TypeOK, Stages
  <2>6. CASE SetSampleRate(w)
    <3>1. /\ pc' \in [Workers -> Stages] /\ pos' \in [Workers -> Nat \ {0}]
          /\ \A v \in Workers : pc'[v] # "idle" =>
               batch'[v] \in Batches /\ pos'[v] \in 1 .. Len(batch'[v].events)
      BY <2>0, <2>6, AdvanceKeepsTypes DEF SetSampleRate, Stages
    <3>2. sessions' \in [Sessions -> Row] /\ drift' \in Nat
      <4>1. Event(w).rate \in 1 .. FullRate
        BY <2>s DEF EventInput
      <4>2. \A row \in Row, r \in 1 .. FullRate : [row EXCEPT !.rate = r] \in Row
        BY DEF Row
      <4> QED
        <5>1. CASE UNCHANGED <<sessions, drift>>
          BY <5>1 DEF TypeOK
        <5>2. CASE UNCHANGED drift
                   /\ sessions' = [sessions EXCEPT ![Session(w)].rate = Event(w).rate]
          <6>1. sessions[Session(w)] \in Row
            BY <2>s DEF TypeOK
          <6>2. [sessions[Session(w)] EXCEPT !.rate = Event(w).rate] \in Row
            BY <6>1, <4>1, <4>2
          <6> QED
            BY <5>2, <2>s, <6>2 DEF TypeOK
        <5>3. CASE UNCHANGED sessions /\ drift' \in {drift, drift + 1}
          BY <5>3 DEF TypeOK
        <5> QED
          BY <2>6, <5>1, <5>2, <5>3 DEF SetSampleRate
    <3> QED
      BY <2>6, <3>1, <3>2 DEF SetSampleRate, TypeOK
  <2>7. CASE AppendBoundaries(w)
    <3>1. batch[w].boundaries \in SUBSET Sessions
      BY <2>0, CurrentEvent DEF Batch
    <3> QED
      BY <2>7, <3>1 DEF AppendBoundaries, Goto, TypeOK, Stages
  <2>8. CASE BeginAppend(w)
    BY <2>8 DEF BeginAppend, BeginTx, Goto, TypeOK, Stages
  <2>9. CASE Insert(w)
    <3>1. /\ pc' \in [Workers -> Stages] /\ pos' \in [Workers -> Nat \ {0}]
          /\ \A v \in Workers : pc'[v] # "idle" =>
               batch'[v] \in Batches /\ pos'[v] \in 1 .. Len(batch'[v].events)
      BY <2>0, <2>9, AdvanceKeepsTypes DEF Insert, Stages
    <3>2. EventRow(w) \in EventRecord
      <4>1. /\ firstSeq[w] + pos[w] - 1 \in Nat
            /\ cand[w][Event(w).session] \in Nat
        BY <2>0, <2>s DEF TypeOK, Session
      <4>2. Delivery(Event(w), Visible(w)) \in {"accepted", "duplicate_suspected"}
        BY DEF Delivery
      <4> QED
        BY <2>s, <4>1, <4>2 DEF EventRow, EventRecord, EventInput
    <3> QED
      BY <2>9, <3>1, <3>2 DEF Insert, TypeOK
  <2>10. CASE CommitAppend(w)
    BY <2>10, ForgetKeepsTypes DEF CommitAppend, EndTx, TypeOK
  <2> QED
    BY <1>3, <2>1, <2>2, <2>3, <2>4, <2>5, <2>6, <2>7, <2>8, <2>9, <2>10 DEF Serve
<1>4. ASSUME NEW w \in Workers, Rollback(w), Forget(w),
             UNCHANGED <<sessions, events, boundaries, nextSeq, nextCid, drift, now, sweepAt>>,
             requests' = requests, failures' \in Nat
      PROVE  TypeOK'
  BY <1>4, ForgetKeepsTypes, RowOperations DEF Rollback, TypeOK
<1>5. ASSUME NEW w \in Workers, Fail(w) \/ AbortDeadlock(w)
      PROVE  TypeOK'
  <2>1. failures' \in Nat
    BY <1>5 DEF Fail, AbortDeadlock, TypeOK
  <2> QED
    BY <1>4, <1>5, <2>1 DEF Fail, AbortDeadlock
<1>6. CASE Restart
  <2>1. nextSeq' \in Nat \ {0}
    BY <1>6 DEF Restart, Reseed, TypeOK, EventRecord
  <2>2. failures' \in Nat
    BY <1>6 DEF Restart, TypeOK
  <2>3. /\ staged' \in [Workers -> [Sessions -> Row]]
        /\ cand' \in [Workers -> [Sessions -> Nat]]
    BY <1>6, RowOperations DEF Restart, NoCid
  <2>4. /\ pc' \in [Workers -> Stages] /\ pos' \in [Workers -> Nat \ {0}]
        /\ \A v \in Workers : pc'[v] = "idle"
    BY <1>6 DEF Restart, Stages
  <2> QED
    BY <1>6, <2>1, <2>2, <2>3, <2>4 DEF Restart, TypeOK
<1>7. CASE StartSweep \/ FailSweep \/ Clock
  <2>1. CASE StartSweep
    BY <2>1 DEF StartSweep, TypeOK
  <2>2. CASE FailSweep
    BY <2>2 DEF FailSweep, TypeOK
  <2>3. CASE Clock
    BY <2>3 DEF Clock, TypeOK
  <2> QED
    BY <1>7, <2>1, <2>2, <2>3
<1>8. CASE RunSweep
  <2>1. sweepAt \in Nat
    BY <1>8 DEF RunSweep, TypeOK
  <2>2. sessions' \in [Sessions -> Row]
    BY <1>8, <2>1, RowOperations DEF RunSweep, TypeOK
  <2> QED
    BY <1>8, <2>2 DEF RunSweep, TypeOK
<1>9. CASE UNCHANGED vars
  BY <1>9 DEF TypeOK
<1> QED
  BY <1>1, <1>2, <1>3, <1>5, <1>6, <1>7, <1>8, <1>9 DEF Next

(***************************************************************************)
(* Who a step touches                                                      *)
(***************************************************************************)

\* The step leaves v alone.
Same(v) ==
  /\ pc'[v] = pc[v] /\ batch'[v] = batch[v] /\ pos'[v] = pos[v]
  /\ at'[v] = at[v] /\ firstSeq'[v] = firstSeq[v]
  /\ cand'[v] = cand[v] /\ found'[v] = found[v]
  /\ staged'[v] = staged[v] /\ pending'[v] = pending[v]

\* The step ends the request of v.
Cleared(v) ==
  /\ pc'[v] = "idle" /\ pos'[v] = 1
  /\ cand'[v] = [s \in Sessions |-> NoCid]
  /\ staged'[v] = [s \in Sessions |-> NoRow] /\ pending'[v] = {}

\* A step leaves a worker alone, ends its request or is one of its own.
LEMMA WhoMoves ==
  ASSUME TypeOK, [Next]_vars, NEW v \in Workers
  PROVE  \/ Same(v)
         \/ Cleared(v) /\ UNCHANGED store
         \/ \E b \in Batches : Receive(v, b)
         \/ Serve(v)
<1> USE DEF vars, store, tx, counters, clock, worker, bounds
<1>1. ASSUME NEW w \in Workers, NEW b \in Batches, Receive(w, b), v # w
      PROVE  Same(v)
  BY <1>1 DEF Receive, Goto, Same, TypeOK
<1>2. CASE \E b \in Batches : Reject(b)
  BY <1>2 DEF Reject, Same
<1>3. ASSUME NEW w \in Workers, Serve(w), v # w
      PROVE  Same(v)
  <2> USE DEF Same, Goto, Advance
  <2>1. CASE Resolve(w)
    BY <1>3, <2>1 DEF Resolve, TypeOK
  <2>2. CASE BeginUpsert(w)
    BY <1>3, <2>2 DEF BeginUpsert, TypeOK
  <2>3. CASE UpsertRead(w)
    BY <1>3, <2>3 DEF UpsertRead, TypeOK
  <2>4. CASE UpsertWrite(w)
    BY <1>3, <2>4 DEF UpsertWrite, TypeOK
  <2>5. CASE CommitUpsert(w)
    BY <1>3, <2>5 DEF CommitUpsert, TypeOK
  <2>6. CASE SetSampleRate(w)
    BY <1>3, <2>6 DEF SetSampleRate, TypeOK
  <2>7. CASE AppendBoundaries(w)
    BY <1>3, <2>7 DEF AppendBoundaries, TypeOK
  <2>8. CASE BeginAppend(w)
    BY <1>3, <2>8 DEF BeginAppend, TypeOK
  <2>9. CASE Insert(w)
    BY <1>3, <2>9 DEF Insert, TypeOK
  <2>10. CASE CommitAppend(w)
    BY <1>3, <2>10 DEF CommitAppend, Forget, TypeOK
  <2> QED
    BY <1>3, <2>1, <2>2, <2>3, <2>4, <2>5, <2>6, <2>7, <2>8, <2>9, <2>10 DEF Serve
<1>4. ASSUME NEW w \in Workers, Fail(w) \/ AbortDeadlock(w)
      PROVE  Same(v) \/ (Cleared(v) /\ UNCHANGED store)
  <2>1. Rollback(w) /\ Forget(w) /\ UNCHANGED store
    BY <1>4 DEF Fail, AbortDeadlock
  <2>2. CASE v = w
    BY <2>1, <2>2 DEF Rollback, Forget, Goto, Cleared, TypeOK
  <2>3. CASE v # w
    BY <2>1, <2>3 DEF Rollback, Forget, Goto, Same, TypeOK
  <2> QED
    BY <2>2, <2>3
<1>5. CASE Restart
  BY <1>5 DEF Restart, Cleared
<1>6. CASE StartSweep \/ RunSweep \/ FailSweep \/ Clock \/ UNCHANGED vars
  BY <1>6 DEF StartSweep, RunSweep, FailSweep, Clock, Same
<1> QED
  BY <1>1, <1>2, <1>3, <1>4, <1>5, <1>6 DEF Next

\* Only three actions change a stored session.
LEMMA WhoWritesSessions ==
  ASSUME [Next]_vars
  PROVE  \/ UNCHANGED sessions
         \/ \E w \in Workers : CommitUpsert(w) \/ SetSampleRate(w)
         \/ RunSweep
<1> USE DEF vars, store
<1>1. ASSUME NEW w \in Workers, Serve(w)
      PROVE  UNCHANGED sessions \/ CommitUpsert(w) \/ SetSampleRate(w)
  BY <1>1 DEF Serve, Resolve, BeginUpsert, UpsertRead, UpsertWrite,
              AppendBoundaries, BeginAppend, Insert, CommitAppend
<1> QED
  BY <1>1 DEF Next, Receive, Reject, Fail, AbortDeadlock, Restart, StartSweep,
              FailSweep, Clock

(***************************************************************************)
(* Tidy and RowLocks                                                       *)
(***************************************************************************)

\* What a worker holds belongs to where it stands, after any step as well.
LEMMA TidyStep ==
  ASSUME TypeOK, Tidy, [Next]_vars
  PROVE  Tidy'
<1> USE DEF vars, store, tx, counters, clock, worker, bounds
<1> SUFFICES ASSUME NEW w \in Workers
             PROVE  /\ pc'[w] \in {"idle", "begin"} => pos'[w] = 1
                    /\ pc'[w] \notin {"read", "write", "commit"} =>
                         \A s \in Sessions : ~Exists(staged'[w][s])
  BY DEF Tidy
<1>0. \A s \in Sessions : [x \in Sessions |-> NoRow][s] = NoRow /\ ~Exists(NoRow)
  BY DEF Exists, NoRow
<1>1. CASE Same(w)
  BY <1>1 DEF Same, Tidy
<1>2. CASE Cleared(w)
  BY <1>0, <1>2 DEF Cleared
<1>3. ASSUME NEW b \in Batches, Receive(w, b)
      PROVE  pc'[w] = "resolve" /\ staged' = staged /\ pc[w] = "idle"
  BY <1>3 DEF Receive, Goto, TypeOK
<1>4. CASE Serve(w)
  <2> USE DEF Goto, Advance
  <2>1. CASE Resolve(w)
    BY <2>1 DEF Resolve, Tidy, TypeOK
  <2>2. CASE BeginUpsert(w)
    BY <2>2 DEF BeginUpsert, TypeOK
  <2>3. CASE UpsertRead(w)
    BY <2>3 DEF UpsertRead, TypeOK
  <2>4. CASE UpsertWrite(w)
    BY <2>4 DEF UpsertWrite, TypeOK
  <2>5. CASE CommitUpsert(w)
    BY <1>0, <2>5 DEF CommitUpsert, TypeOK
  <2>6. CASE SetSampleRate(w)
    BY <2>6 DEF SetSampleRate, Tidy, TypeOK
  <2>7. CASE AppendBoundaries(w)
    BY <2>7 DEF AppendBoundaries, Tidy, TypeOK
  <2>8. CASE BeginAppend(w)
    BY <2>8 DEF BeginAppend, Tidy, TypeOK
  <2>9. CASE Insert(w)
    BY <2>9 DEF Insert, Tidy, TypeOK
  <2>10. CASE CommitAppend(w)
    BY <2>10 DEF CommitAppend, Forget, Tidy, TypeOK
  <2> QED
    BY <1>4, <2>1, <2>2, <2>3, <2>4, <2>5, <2>6, <2>7, <2>8, <2>9, <2>10 DEF Serve
<1> QED
  BY <1>1, <1>2, <1>3, <1>4, WhoMoves DEF Tidy

\* What a worker stages it has staged before, or it waited for the lock.
LEMMA WhoStages ==
  ASSUME TypeOK, [Next]_vars, NEW w \in Workers, NEW s \in Sessions,
         Exists(staged'[w][s])
  PROVE  \/ staged'[w][s] = staged[w][s]
         \/ UpsertWrite(w) /\ s = Session(w) /\ Exists(Written(w))
              /\ staged'[w][s] = Written(w)
<1> USE DEF vars, store, tx, counters, clock, worker, bounds
<1>0. [x \in Sessions |-> NoRow][s] = NoRow /\ ~Exists(NoRow)
  BY DEF Exists, NoRow
<1>1. ASSUME NEW b \in Batches, Receive(w, b)
      PROVE  staged' = staged
  BY <1>1 DEF Receive
<1>2. CASE Serve(w)
  <2>1. CASE UpsertWrite(w)
    BY <2>1 DEF UpsertWrite, TypeOK
  <2>2. CASE CommitUpsert(w)
    BY <1>0, <2>2 DEF CommitUpsert, TypeOK
  <2>3. CASE staged' = staged
    BY <2>3
  <2> QED
    BY <1>2, <2>1, <2>2, <2>3 DEF Serve, Resolve, BeginUpsert, UpsertRead,
       SetSampleRate, AppendBoundaries, BeginAppend, Insert, CommitAppend
<1> QED
  BY <1>0, <1>1, <1>2, WhoMoves DEF Same, Cleared

\* Two transactions never write one session: the second waits for the row.
LEMMA RowLocksStep ==
  ASSUME TypeOK, Tidy, RowLocks, NoGhosts, [Next]_vars
  PROVE  RowLocks'
<1> SUFFICES ASSUME NEW v \in Workers, NEW w \in Workers, v # w, NEW s \in Sessions,
                    Exists(staged'[v][s]), Exists(staged'[w][s])
             PROVE  FALSE
  BY DEF RowLocks
<1>1. \A x, y \in Workers :
        x # y /\ UpsertWrite(x) /\ s = Session(x) /\ Exists(Written(x))
          => ~Exists(staged[y][s])
  <2> SUFFICES ASSUME NEW x \in Workers, NEW y \in Workers, x # y,
                      UpsertWrite(x), s = Session(x), Exists(Written(x))
               PROVE  ~Exists(staged[y][s])
    OBVIOUS
  <2>1. ~LostInsert(x)
    BY DEF Written, Exists, NoRow
  <2>2. Exists(sessions[s]) => Exists(View(x, s))
    BY DEF View
  <2>3. Unlocked(x, s)
    BY <2>1, <2>2 DEF UpsertWrite, MayWrite, LostInsert
  <2> QED
    BY <2>3 DEF Unlocked
<1>2. \A x, y \in Workers : x # y => ~(UpsertWrite(x) /\ UpsertWrite(y))
  <2> SUFFICES ASSUME NEW x \in Workers, NEW y \in Workers, x # y,
                      UpsertWrite(x), UpsertWrite(y)
               PROVE  FALSE
    OBVIOUS
  <2>1. pc'[x] \in {"read", "commit"} /\ pc[x] = "write"
    BY DEF UpsertWrite, Advance, Goto, TypeOK
  <2>2. pc'[x] = pc[x]
    BY SMTT(30) DEF UpsertWrite, Advance, Goto, TypeOK
  <2> QED
    BY <2>1, <2>2
<1> QED
  BY <1>1, <1>2, WhoStages DEF RowLocks

(***************************************************************************)
(* What a step does to a stored session                                    *)
(***************************************************************************)

\* new may follow old in the store: the rate may be set once.
Follows(old, new) ==
  /\ Exists(new) /\ new.cid = old.cid /\ new.count >= old.count
  /\ old.rate # FullRate => new.rate = old.rate
  /\ old.state = "ended" =>
       new.state = "ended" /\ new.ended = old.ended /\ new.source = old.source

\* The row operations on an existing row.
LEMMA OperationsContinue ==
  ASSUME NEW row \in Row, NEW t \in Nat, Exists(row)
  PROVE  /\ Exists(Tick(row, t)) /\ Continues(row, Tick(row, t))
         /\ Exists(EndByClient(Tick(row, t), t))
         /\ Continues(row, EndByClient(Tick(row, t), t))
         /\ Exists(SweepRow(row, t)) /\ Continues(row, SweepRow(row, t))
<1>1. Exists(Tick(row, t)) /\ Continues(row, Tick(row, t)) /\ Tick(row, t) \in Row
  <2>1. row.count \in Nat /\ row.count + 1 >= row.count
    BY DEF Row
  <2> QED
    BY <2>1, RowOperations DEF Tick, Continues, Exists, Row
<1>2. Exists(EndByClient(Tick(row, t), t))
      /\ Continues(row, EndByClient(Tick(row, t), t))
  BY <1>1 DEF EndByClient, Continues, Exists, Row
<1>3. Exists(SweepRow(row, t)) /\ Continues(row, SweepRow(row, t))
  <2>1. row.count \in Nat
    BY DEF Row
  <2> QED
    BY <2>1 DEF SweepRow, SweepEnded, SweepStalled, Continues, Exists, Row
<1> QED
  BY <1>1, <1>2, <1>3

\* The sweep does not touch what is not there.
LEMMA SweepOfNoRow ==
  ASSUME NEW t \in Nat
  PROVE  SweepRow(NoRow, t) = NoRow
BY DEF SweepRow, SweepEnded, SweepStalled, NoRow

\* A row that a worker has staged is not changed under it.
LEMMA LockedRowsAreFixed ==
  ASSUME TypeOK, Tidy, RowLocks, [Next]_vars, NEW w \in Workers, NEW s \in Sessions,
         Exists(staged[w][s]), ~CommitUpsert(w)
  PROVE  sessions'[s] = sessions[s]
<1>1. ASSUME NEW v \in Workers, CommitUpsert(v)
      PROVE  sessions'[s] = sessions[s]
  BY <1>1 DEF CommitUpsert, RowLocks, View
<1>2. ASSUME NEW v \in Workers, SetSampleRate(v)
      PROVE  sessions'[s] = sessions[s]
  <2>1. v # w /\ pc[v] = "rate"
    BY <1>2 DEF SetSampleRate, Tidy
  <2>2. Session(v) \in Sessions
    BY <2>1, CurrentEvent
  <2> QED
    BY <1>2, <2>1, <2>2 DEF SetSampleRate, Unlocked, TypeOK
<1>3. CASE RunSweep
  BY <1>3 DEF RunSweep
<1> QED
  BY <1>1, <1>2, <1>3, WhoWritesSessions

\* A session that is stored stays stored, with its identity, its count and its
\* end.
LEMMA SessionsFollow ==
  ASSUME IInv, [Next]_vars, NEW s \in Sessions, Exists(sessions[s])
  PROVE  Follows(sessions[s], sessions'[s])
<1> USE DEF IInv
<1>0. sessions[s] \in Row /\ sessions[s].count \in Nat
  BY DEF TypeOK, Row
<1>1. ASSUME NEW v \in Workers, CommitUpsert(v)
      PROVE  Follows(sessions[s], sessions'[s])
  <2>1. sessions'[s] = View(v, s)
    BY <1>1 DEF CommitUpsert
  <2> QED
    BY <1>0, <2>1 DEF View, StagedContinues, Continues, Follows
<1>2. ASSUME NEW v \in Workers, SetSampleRate(v)
      PROVE  Follows(sessions[s], sessions'[s])
  <2>1. sessions'[s] = sessions[s] \/
          /\ sessions[s].rate = FullRate
          /\ sessions'[s] = [sessions[s] EXCEPT !.rate = Event(v).rate]
    BY <1>2 DEF SetSampleRate, TypeOK
  <2> QED
    BY <1>0, <2>1 DEF Follows, Exists, Row
<1>3. CASE RunSweep
  <2>1. sweepAt \in Nat /\ sessions'[s] = SweepRow(sessions[s], sweepAt)
    BY <1>3 DEF RunSweep, TypeOK
  <2> QED
    BY <1>0, <2>1, OperationsContinue DEF Follows, Continues
<1>4. CASE UNCHANGED sessions
  BY <1>0, <1>4 DEF Follows
<1> QED
  BY <1>1, <1>2, <1>3, <1>4, WhoWritesSessions

\* A worker keeps seeing a row it saw, with the same correlation id.
LEMMA ViewsFollow ==
  ASSUME IInv, [Next]_vars, NEW w \in Workers, NEW s \in Sessions,
         Exists(View(w, s)), staged'[w] = staged[w]
  PROVE  Exists(View(w, s)') /\ View(w, s)'.cid = View(w, s).cid
BY SessionsFollow DEF View, Follows

(***************************************************************************)
(* The other parts of the invariant                                        *)
(***************************************************************************)

\* The sample rate is set on a row that exists.
LEMMA SampledRowExists ==
  ASSUME IInv, NEW w \in Workers, SetSampleRate(w)
  PROVE  Exists(sessions[Session(w)])
<1> USE DEF IInv
<1>1. pc[w] = "rate"
  BY DEF SetSampleRate
<1>2. pos[w] \in Behind(w, {"read", "write"}) /\ Session(w) \in Sessions
  BY <1>1, CurrentEvent DEF Behind
<1>3. Exists(View(w, Session(w)))
  BY <1>1, <1>2 DEF Upserted, Session, Event
<1> QED
  BY <1>1, <1>2, <1>3 DEF View, Tidy

\* A session that does not exist has nothing left in its row, whatever is rolled
\* back.
LEMMA NoGhostsStep ==
  ASSUME IInv, [Next]_vars
  PROVE  NoGhosts'
<1> USE DEF IInv
<1>1. ASSUME NEW s \in Sessions, ~Exists(sessions'[s])
      PROVE  sessions'[s] = NoRow
  <2>1. ~Exists(sessions[s]) /\ sessions[s] = NoRow
    BY <1>1, SessionsFollow DEF Follows, NoGhosts
  <2>2. ASSUME NEW v \in Workers, CommitUpsert(v)
        PROVE  sessions'[s] = NoRow
    BY <1>1, <2>1, <2>2 DEF CommitUpsert, View
  <2>3. ASSUME NEW v \in Workers, SetSampleRate(v)
        PROVE  sessions'[s] = NoRow
    BY <2>1, <2>3, SampledRowExists DEF SetSampleRate, TypeOK
  <2>4. CASE RunSweep
    BY <2>1, <2>4, SweepOfNoRow DEF RunSweep, TypeOK
  <2> QED
    BY <2>1, <2>2, <2>3, <2>4, WhoWritesSessions
<1>2. ASSUME NEW w \in Workers, pc'[w] = "write", found'[w]
      PROVE  Exists(View(w, Session(w))')
  <2>1. CASE Same(w)
    <3>1. Exists(View(w, Session(w))) /\ Session(w)' = Session(w) /\ Session(w) \in Sessions
      BY <1>2, <2>1, CurrentEvent DEF Same, NoGhosts, Session, Event
    <3> QED
      BY <2>1, <3>1, ViewsFollow DEF Same, View
  <2>2. CASE Cleared(w) \/ \E b \in Batches : Receive(w, b)
    BY <1>2, <2>2 DEF Cleared, Receive, Goto, TypeOK
  <2>3. CASE Serve(w)
    <3>1. UpsertRead(w)
      BY <1>2, <2>3 DEF Serve, Resolve, BeginUpsert, UpsertWrite, CommitUpsert,
         SetSampleRate, AppendBoundaries, BeginAppend, Insert, CommitAppend,
         Forget, Goto, Advance, TypeOK
    <3>2. Session(w) \in Sessions
      BY <3>1, CurrentEvent DEF UpsertRead
    <3>3. found'[w] = Exists(View(w, Session(w))) /\ Session(w)' = Session(w)
          /\ View(w, Session(w))' = View(w, Session(w))
      BY <3>1, <3>2 DEF UpsertRead, TypeOK, Session, Event, View, store, tx
    <3> QED
      BY <1>2, <3>3
  <2> QED
    BY <2>1, <2>2, <2>3, WhoMoves
<1> QED
  BY <1>1, <1>2 DEF NoGhosts

\* What a transaction is about to commit of a session continues what is stored,
\* even if others have written since it began.
LEMMA StagedContinuesStep ==
  ASSUME IInv, [Next]_vars
  PROVE  StagedContinues'
<1> USE DEF IInv
<1> SUFFICES ASSUME NEW w \in Workers, NEW s \in Sessions,
                    Exists(staged'[w][s]), Exists(sessions'[s])
             PROVE  Continues(sessions'[s], staged'[w][s])
  BY DEF StagedContinues
<1>1. CASE UpsertWrite(w) /\ s = Session(w) /\ Exists(Written(w))
           /\ staged'[w][s] = Written(w)
  <2>1. sessions' = sessions /\ pc[w] = "write"
    BY <1>1 DEF UpsertWrite, store
  <2>2. View(w, s) \in Row /\ at[w] \in Nat /\ sessions[s] \in Row
    BY <2>1, ViewIsRow DEF TypeOK
  <2>3. Exists(View(w, s)) /\ Continues(sessions[s], View(w, s))
    BY <2>1, <2>2 DEF View, StagedContinues, Continues, Row
  <2>4. found[w]
    BY <1>1, <2>3 DEF Written, LostInsert, Exists, NoRow
  <2>5. Continues(View(w, s), Written(w)) /\ Written(w) \in Row
    BY <1>1, <2>1, <2>2, <2>3, <2>4, OperationsContinue, WrittenIsRow
       DEF Written, LostInsert, Ticked
  <2> QED
    BY <1>1, <2>1, <2>2, <2>3, <2>5 DEF Continues, Row
<1>2. CASE staged'[w][s] = staged[w][s]
  <2>1. ~CommitUpsert(w)
    BY <1>2 DEF CommitUpsert, TypeOK, Exists, NoRow
  <2>2. sessions'[s] = sessions[s]
    BY <1>2, <2>1, LockedRowsAreFixed
  <2> QED
    BY <1>2, <2>2 DEF StagedContinues
<1> QED
  BY <1>1, <1>2, WhoStages

\* A session of this release never loses its correlation id.
LEMMA IdentifiedStep ==
  ASSUME IInv, [Next]_vars
  PROVE  Identified'
<1> USE DEF IInv
<1> SUFFICES ASSUME NEW s \in Sessions \ LegacySessions
             PROVE  /\ Exists(sessions'[s]) => sessions'[s].cid # NoCid
                    /\ \A w \in Workers :
                         Exists(staged'[w][s]) => staged'[w][s].cid # NoCid
  BY DEF Identified
<1>1. ASSUME Exists(sessions'[s])
      PROVE  sessions'[s].cid # NoCid
  <2>1. CASE Exists(sessions[s])
    BY <2>1, SessionsFollow DEF Follows, Identified
  <2>2. CASE ~Exists(sessions[s])
    <3>1. sessions[s] = NoRow
      BY <2>2 DEF NoGhosts
    <3>2. ASSUME NEW v \in Workers, CommitUpsert(v)
          PROVE  sessions'[s].cid # NoCid
      BY <1>1, <2>2, <3>2 DEF CommitUpsert, View, Identified
    <3>3. ASSUME NEW v \in Workers, SetSampleRate(v)
          PROVE  sessions'[s] = NoRow
      BY <2>2, <3>1, <3>3, SampledRowExists DEF SetSampleRate, TypeOK
    <3>4. CASE RunSweep
      BY <3>1, <3>4, <1>1, <2>2, SweepOfNoRow DEF RunSweep, TypeOK
    <3> QED
      BY <1>1, <2>2, <3>1, <3>2, <3>3, <3>4, WhoWritesSessions
  <2> QED
    BY <2>1, <2>2
<1>2. ASSUME NEW w \in Workers, Exists(staged'[w][s])
      PROVE  staged'[w][s].cid # NoCid
  <2>1. CASE staged'[w][s] = staged[w][s]
    BY <1>2, <2>1 DEF Identified
  <2>2. CASE UpsertWrite(w) /\ s = Session(w) /\ Exists(Written(w))
             /\ staged'[w][s] = Written(w)
    <3>1. pc[w] = "write" /\ View(w, s) \in Row /\ at[w] \in Nat
      BY <2>2, ViewIsRow DEF UpsertWrite, TypeOK
    <3>2. CASE found[w]
      <4>1. Exists(View(w, s)) /\ View(w, s).cid # NoCid
        BY <2>2, <3>1, <3>2 DEF NoGhosts, View, Identified
      <4>2. Written(w).cid = View(w, s).cid
        BY <2>2, <3>1, <3>2, <4>1, OperationsContinue
           DEF Written, LostInsert, Ticked, Continues
      <4> QED
        BY <2>2, <4>1, <4>2
    <3>3. CASE ~found[w]
      <4>1. pos[w] \in Behind(w, {"resolve"})
        BY <3>1, CurrentEvent DEF Behind
      <4>2. cand[w][s] # NoCid
        BY <2>2, <3>1, <4>1 DEF Resolved, Session, Event
      <4>3. Written(w).cid = cand[w][s]
        BY <2>2, <3>3 DEF Written, Inserted, NewRow, EndByClient, Exists, NoRow
      <4> QED
        BY <2>2, <4>2, <4>3
    <3> QED
      BY <3>2, <3>3
  <2> QED
    BY <1>2, <2>1, <2>2, WhoStages
<1> QED
  BY <1>1, <1>2

\* An operator of a worker that a step leaves alone keeps its value.
LEMMA SameEvents ==
  ASSUME NEW w \in Workers, Same(w), NEW D
  PROVE  Behind(w, D)' = Behind(w, D)
BY DEF Same, Behind

\* An event a worker has passed while resolving has a candidate id.
LEMMA ResolvedStep ==
  ASSUME IInv, [Next]_vars
  PROVE  Resolved'
<1> USE DEF IInv
<1> SUFFICES ASSUME NEW w \in Workers, pc'[w] # "idle",
                    NEW i \in Behind(w, {"resolve"})'
             PROVE  cand'[w][batch'[w].events[i].session] # NoCid
  BY DEF Resolved
<1>1. CASE Same(w)
  BY <1>1, SameEvents DEF Same, Resolved
<1>2. CASE Cleared(w)
  BY <1>2 DEF Cleared
<1>3. ASSUME NEW b \in Batches, Receive(w, b)
      PROVE  FALSE
  BY <1>3 DEF Receive, Goto, Behind, Tidy, TypeOK
<1>4. CASE Serve(w)
  <2>0. pc[w] # "idle" /\ batch'[w] = batch[w]
    BY <1>4 DEF Serve, Resolve, BeginUpsert, UpsertRead, UpsertWrite, CommitUpsert,
                SetSampleRate, AppendBoundaries, BeginAppend, Insert, CommitAppend,
                Forget, Goto, TypeOK
  <2>1. /\ Session(w) \in Sessions /\ pos[w] \in 1 .. Len(batch[w].events)
        /\ i \in 1 .. Len(batch[w].events) /\ Len(batch[w].events) \in Nat
        /\ batch[w].events[i].session \in Sessions
    BY <2>0, CurrentEvent DEF Behind
  <2>2. CASE Resolve(w)
    <3>1. cand'[w][Session(w)] # NoCid
          /\ \A s \in Sessions : cand[w][s] # NoCid => cand'[w][s] # NoCid
      <4>1. sessions[Session(w)].cid \in Nat
        BY <2>1 DEF TypeOK, Row
      <4> QED
        BY <2>1, <2>2, <4>1 DEF Resolve, TypeOK, NoCid
    <3>2. i < pos[w] \/ i = pos[w]
      BY <2>0, <2>1, <2>2 DEF Behind, Resolve, Advance, LastEvent, Goto, TypeOK
    <3>3. CASE i < pos[w]
      <4>1. i \in Behind(w, {"resolve"})
        BY <2>1, <3>3 DEF Behind
      <4> QED
        BY <2>0, <2>1, <3>1, <4>1 DEF Resolved
    <3>4. CASE i = pos[w]
      BY <2>0, <3>1, <3>4 DEF Session, Event
    <3> QED
      BY <3>2, <3>3, <3>4
  <2>3. CASE UpsertWrite(w)
    <3>1. i \in Behind(w, {"resolve"})
      BY <2>1, <2>3 DEF Behind, UpsertWrite
    <3>2. Canonical(w) = cand[w][Session(w)] \/ Canonical(w) # NoCid
      BY DEF Canonical
    <3> QED
      BY <2>0, <2>1, <2>3, <3>1, <3>2 DEF UpsertWrite, TypeOK, Resolved
  <2>4. CASE pc[w] # "resolve" /\ UNCHANGED cand
    <3>1. i \in Behind(w, {"resolve"})
      BY <2>1, <2>4 DEF Behind
    <3> QED
      BY <2>0, <2>4, <3>1 DEF Resolved
  <2> QED
    BY <1>4, <2>2, <2>3, <2>4, CurrentEvent
       DEF Serve, BeginUpsert, UpsertRead, CommitUpsert,
           SetSampleRate, AppendBoundaries, BeginAppend, Insert, CommitAppend,
           Forget, Goto, TypeOK
<1> QED
  BY <1>1, <1>2, <1>3, <1>4, WhoMoves

\* UpsertWrite leaves the worker with the id of the row it sees.
LEMMA CanonicalIsTheRows ==
  ASSUME IInv, [Next]_vars, NEW w \in Workers, UpsertWrite(w),
         NEW s, s = Session(w)
  PROVE  /\ Exists(View(w, s)')
         /\ s \notin LegacySessions => cand'[w][s] = View(w, s)'.cid
<1> USE DEF IInv
<1>0. /\ pc[w] = "write" /\ s \in Sessions /\ at[w] \in Nat /\ sessions' = sessions
      /\ cand'[w][s] = Canonical(w)
      /\ staged'[w][s] = IF Exists(Written(w)) THEN Written(w) ELSE staged[w][s]
  BY CurrentEvent DEF UpsertWrite, TypeOK, store
<1>1. View(w, s) \in Row
  BY <1>0, ViewIsRow
<1>2. Exists(View(w, s)) /\ s \notin LegacySessions => View(w, s).cid # NoCid
  BY <1>0 DEF View, Identified
<1>3. CASE found[w]
  <2>1. Exists(View(w, s))
    BY <1>0, <1>3 DEF NoGhosts
  <2>2. Exists(Written(w)) /\ Written(w).cid = View(w, s).cid
    BY <1>0, <1>1, <1>3, <2>1, OperationsContinue
       DEF Written, LostInsert, Ticked, Continues
  <2> QED
    BY <1>0, <1>2, <2>1, <2>2 DEF View, Canonical
<1>4. CASE LostInsert(w)
  <2>1. ~Exists(Written(w)) /\ Exists(View(w, s))
    BY <1>4 DEF Written, LostInsert, Exists, NoRow
  <2> QED
    BY <1>0, <1>2, <2>1 DEF View, Canonical
<1>5. CASE ~found[w] /\ ~Exists(View(w, s))
  <2>1. Exists(Written(w)) /\ Written(w).cid = cand[w][s]
    BY <1>5 DEF Written, LostInsert, Inserted, NewRow, EndByClient, Exists
  <2> QED
    BY <1>0, <1>5, <2>1 DEF View, Canonical
<1> QED
  BY <1>3, <1>4, <1>5 DEF LostInsert

\* An event a worker has passed while writing has a session to belong to.
LEMMA UpsertedStep ==
  ASSUME IInv, [Next]_vars
  PROVE  Upserted'
<1> USE DEF IInv
<1> DEFINE Early == {"idle", "resolve", "begin"}
<1> SUFFICES ASSUME NEW w \in Workers, pc'[w] \notin Early,
                    NEW i \in Behind(w, {"read", "write"})',
                    NEW s, s = batch'[w].events[i].session
             PROVE  /\ Exists(View(w, s)')
                    /\ s \notin LegacySessions => cand'[w][s] = View(w, s)'.cid
  BY SMTT(30) DEF Upserted, View
<1>1. ASSUME pc[w] \notin Early, i \in Behind(w, {"read", "write"}),
             batch'[w] = batch[w]
      PROVE  s \in Sessions /\ Exists(View(w, s))
             /\ (s \notin LegacySessions => cand[w][s] = View(w, s).cid)
  <2>1. s \in Sessions
    BY <1>1, CurrentEvent DEF Behind
  <2> QED
    BY <1>1, <2>1 DEF Upserted
<1>2. ASSUME pc[w] \notin Early, i \in Behind(w, {"read", "write"}),
             batch'[w] = batch[w], staged'[w] = staged[w], cand'[w] = cand[w]
      PROVE  Exists(View(w, s)') /\ (s \notin LegacySessions => cand'[w][s] = View(w, s)'.cid)
  BY <1>1, <1>2, ViewsFollow
<1>3. CASE Same(w)
  BY <1>2, <1>3, SameEvents DEF Same
<1>4. CASE Cleared(w) \/ \E b \in Batches : Receive(w, b)
  BY <1>4 DEF Cleared, Receive, Goto, TypeOK
<1>5. CASE Serve(w)
  <2>0. batch'[w] = batch[w] /\ pc[w] # "idle"
    BY <1>5 DEF Serve, Resolve, BeginUpsert, UpsertRead, UpsertWrite, CommitUpsert,
                SetSampleRate, AppendBoundaries, BeginAppend, Insert, CommitAppend,
                Forget, Goto, TypeOK
  <2>1. /\ Session(w) \in Sessions /\ pos[w] \in 1 .. Len(batch[w].events)
        /\ i \in 1 .. Len(batch[w].events) /\ Len(batch[w].events) \in Nat
        /\ s \in Sessions
    BY <2>0, CurrentEvent DEF Behind
  <2>2. CASE Resolve(w)
    BY <2>2 DEF Resolve, Advance, Goto, TypeOK
  <2>3. CASE BeginUpsert(w)
    BY <2>1, <2>3 DEF BeginUpsert, Goto, TypeOK, Behind, Tidy
  <2>4. CASE UpsertRead(w)
    BY <1>2, <2>0, <2>1, <2>4 DEF UpsertRead, Goto, TypeOK, Behind, tx
  <2>5. CASE UpsertWrite(w)
    <3>1. CASE s = Session(w)
      BY <2>5, <3>1, CanonicalIsTheRows
    <3>2. CASE s # Session(w)
      <4>1. i # pos[w]
        BY <2>0, <3>2 DEF Session, Event
      <4>2. i \in Behind(w, {"read", "write"})
        BY <2>0, <2>1, <2>5, <4>1 DEF Behind, UpsertWrite, Advance, LastEvent, Goto, TypeOK
      <4>3. cand'[w][s] = cand[w][s] /\ staged'[w][s] = staged[w][s] /\ sessions' = sessions
        BY <2>1, <2>5, <3>2 DEF UpsertWrite, TypeOK, store
      <4> QED
        BY <1>1, <2>0, <2>5, <4>2, <4>3 DEF UpsertWrite, View
    <3> QED
      BY <3>1, <3>2
  <2>6. CASE CommitUpsert(w)
    <3>1. i \in Behind(w, {"read", "write"}) /\ cand' = cand
      BY <2>1, <2>6 DEF CommitUpsert, Behind
    <3>2. View(w, s)' = View(w, s)
      BY <2>1, <2>6 DEF CommitUpsert, TypeOK, View, Exists, NoRow
    <3> QED
      BY <1>1, <2>0, <2>6, <3>1, <3>2 DEF CommitUpsert
  <2>7. CASE SetSampleRate(w)
    BY <1>2, <2>0, <2>1, <2>7 DEF SetSampleRate, Behind, tx
  <2>8. CASE AppendBoundaries(w)
    BY <1>2, <2>0, <2>1, <2>8 DEF AppendBoundaries, Behind, tx
  <2>9. CASE BeginAppend(w)
    BY <1>2, <2>0, <2>1, <2>9 DEF BeginAppend, Behind
  <2>10. CASE Insert(w)
    BY <1>2, <2>0, <2>1, <2>10 DEF Insert, Behind
  <2>11. CASE CommitAppend(w)
    BY <2>11 DEF CommitAppend, Forget, Goto, TypeOK
  <2> QED
    BY <1>5, <2>2, <2>3, <2>4, <2>5, <2>6, <2>7, <2>8, <2>9, <2>10, <2>11 DEF Serve
<1> QED
  BY <1>3, <1>4, <1>5, WhoMoves

\* What is recorded carries the id of its session, and goes on doing so.
LEMMA RecordedStep ==
  ASSUME IInv, [Next]_vars
  PROVE  Recorded'
<1> USE DEF IInv
<1>1. ASSUME NEW e, e.session \in Sessions, Agrees(e)
      PROVE  Agrees(e)'
  BY <1>1, SessionsFollow DEF Agrees, Follows
<1>2. \A e \in EventRecord : e.session \in Sessions
  BY DEF EventRecord
<1>3. ASSUME NEW w \in Workers, Insert(w)
      PROVE  /\ sessions' = sessions
             /\ pending'[w] = pending[w] \cup {EventRow(w)} /\ Agrees(EventRow(w))
  <2>1. /\ pc[w] = "classify" /\ sessions' = sessions
        /\ pending'[w] = pending[w] \cup {EventRow(w)}
    BY <1>3 DEF Insert, TypeOK, store
  <2>2. /\ pos[w] \in Behind(w, {"read", "write"}) /\ pos[w] \in Behind(w, {"resolve"})
        /\ Session(w) \in Sessions
    BY <2>1, CurrentEvent DEF Behind
  <2>3. /\ Exists(View(w, Session(w)))
        /\ Session(w) \notin LegacySessions =>
             cand[w][Session(w)] = View(w, Session(w)).cid
        /\ cand[w][Session(w)] # NoCid
    BY <2>1, <2>2 DEF Upserted, Resolved, Session, Event
  <2>4. View(w, Session(w)) = sessions[Session(w)]
    BY <2>1, <2>2 DEF View, Tidy
  <2>5. EventRow(w).session = Session(w) /\ EventRow(w).cid = cand[w][Session(w)]
    BY DEF EventRow, Session
  <2> QED
    BY <2>1, <2>3, <2>4, <2>5 DEF Agrees
<1>4. ASSUME NEW e \in events'
      PROVE  Agrees(e)'
  <2>1. e \in events \/ \E w \in Workers : e \in pending[w]
    BY <1>4 DEF Next, Receive, Reject, Serve, Resolve, BeginUpsert, UpsertRead,
       UpsertWrite, CommitUpsert, SetSampleRate, AppendBoundaries, BeginAppend,
       Insert, CommitAppend, Fail, AbortDeadlock, Restart, StartSweep, RunSweep,
       FailSweep, Clock, vars, store
  <2>2. Agrees(e) /\ e.session \in Sessions
    BY <1>2, <2>1 DEF Recorded, TypeOK
  <2> QED
    BY <1>1, <2>2
<1>5. ASSUME NEW w \in Workers, NEW e \in pending'[w]
      PROVE  Agrees(e)'
  <2>1. CASE e \in pending[w]
    BY <1>1, <1>2, <2>1 DEF Recorded, TypeOK
  <2>2. CASE e \notin pending[w]
    <3>1. Insert(w)
      BY <1>5, <2>2, WhoMoves DEF Same, Cleared, Receive, Serve, Resolve,
         BeginUpsert, UpsertRead, UpsertWrite, CommitUpsert, SetSampleRate,
         AppendBoundaries, BeginAppend, CommitAppend, tx, TypeOK
    <3> QED
      BY <1>3, <1>5, <2>2, <3>1 DEF Agrees
  <2> QED
    BY <2>1, <2>2
<1>6. ASSUME NEW s \in boundaries'
      PROVE  Exists(sessions'[s])
  <2>1. CASE s \in boundaries
    BY <2>1, SessionsFollow DEF Recorded, Follows, TypeOK
  <2>2. ASSUME NEW w \in Workers, AppendBoundaries(w), s \in batch[w].boundaries
        PROVE  Exists(sessions'[s])
    <3>1. pc[w] = "boundaries" /\ sessions' = sessions
      BY <2>2 DEF AppendBoundaries
    <3>2. PICK i \in 1 .. Len(batch[w].events) : batch[w].events[i].session = s
      BY <2>2, <3>1, CurrentEvent, BatchAssumption
    <3>3. i \in Behind(w, {"read", "write"}) /\ s \in Sessions
      BY <3>1, <3>2, CurrentEvent DEF Behind
    <3>4. Exists(View(w, s))
      BY <3>1, <3>2, <3>3 DEF Upserted
    <3> QED
      BY <3>1, <3>3, <3>4 DEF View, Tidy
  <2>3. s \in boundaries \/ \E w \in Workers : AppendBoundaries(w) /\ s \in batch[w].boundaries
    BY <1>6 DEF Next, Receive, Reject, Serve, Resolve, BeginUpsert, UpsertRead,
       UpsertWrite, CommitUpsert, SetSampleRate, AppendBoundaries, BeginAppend,
       Insert, CommitAppend, Fail, AbortDeadlock, Restart, StartSweep, RunSweep,
       FailSweep, Clock, vars, store
  <2> QED
    BY <2>1, <2>2, <2>3
<1> QED
  BY <1>4, <1>5, <1>6 DEF Recorded

(***************************************************************************)
(* The invariant and what follows from it                                  *)
(***************************************************************************)

\* An empty store with its legacy sessions satisfies the invariant.
LEMMA InvariantInit == Init => IInv
<1> SUFFICES ASSUME Init
             PROVE  IInv
  OBVIOUS
<1>1. ~Exists(NoRow)
  BY DEF Exists, NoRow
<1>2. /\ \A w \in Workers, s \in Sessions : staged[w][s] = NoRow
      /\ \A w \in Workers : pc[w] = "idle" /\ pos[w] = 1 /\ pending[w] = {}
      /\ events = {} /\ boundaries = {}
      /\ \A s \in Sessions \ LegacySessions : sessions[s] = NoRow
  BY SessionAssumption DEF Init
<1>3. TypeOK
  BY TypeInit
<1>4. Tidy /\ RowLocks /\ StagedContinues /\ Resolved /\ Upserted /\ Recorded
  BY <1>1, <1>2 DEF Tidy, RowLocks, StagedContinues, Resolved, Upserted, Recorded
<1>5. Identified
  BY <1>1, <1>2 DEF Identified
<1>6. NoGhosts
  BY <1>1, <1>2 DEF NoGhosts, Init, NewRow, Exists
<1> QED
  BY <1>3, <1>4, <1>5, <1>6 DEF IInv

\* Every step keeps it.
LEMMA InvariantStep == IInv /\ [Next]_vars => IInv'
<1> SUFFICES ASSUME IInv, [Next]_vars
             PROVE  IInv'
  OBVIOUS
<1>1. TypeOK' /\ Tidy' /\ RowLocks'
  BY TypeStep, TidyStep, RowLocksStep DEF IInv
<1>2. NoGhosts' /\ StagedContinues' /\ Identified'
  BY NoGhostsStep, StagedContinuesStep, IdentifiedStep
<1>3. Resolved' /\ Upserted' /\ Recorded'
  BY ResolvedStep, UpsertedStep, RecordedStep
<1> QED
  BY <1>1, <1>2, <1>3 DEF IInv

\* The invariant of the ingest path holds in every state.
THEOREM Invariance == Spec => []IInv
BY InvariantInit, InvariantStep, PTL DEF Spec

\* Every variable of the ingest path keeps its type.
THEOREM TypeCorrect == Spec => []TypeOK
<1>1. IInv => TypeOK
  BY DEF IInv
<1> QED
  BY <1>1, Invariance, PTL

\* Concurrent first batches, retries, failures, deadlocks and restarts never
\* leave an event with another correlation id than its session.
THEOREM EventsCarryTheirSessionsId == Spec => []CorrelationAgreement
<1>1. IInv => CorrelationAgreement
  BY DEF IInv, Recorded, Agrees, CorrelationAgreement
<1> QED
  BY <1>1, Invariance, PTL

\* Whichever transaction of a request was its last one, what it stored belongs
\* to a stored session.
THEOREM EventsHaveSessions == Spec => []NoOrphans
<1>1. IInv => NoOrphans
  BY DEF IInv, Recorded, Agrees, NoOrphans
<1> QED
  BY <1>1, Invariance, PTL

\* A session that is not stored can only be replaced by something.
LEMMA AbsentSessions ==
  ASSUME IInv, NEW s \in Sessions, ~Exists(sessions[s])
  PROVE  /\ sessions[s].state = "none" /\ sessions[s].count = 0
         /\ sessions[s].rate = FullRate
BY DEF IInv, NoGhosts, NoRow

\* No late event, repeated session_ended or sweep moves the end of a session.
THEOREM EndsAreFinal == Spec => EndIsFinal
<1>1. IInv /\ [Next]_vars =>
        [\A s \in Sessions : sessions[s].state = "ended" =>
           /\ sessions[s]'.state = "ended"
           /\ sessions[s]'.ended = sessions[s].ended
           /\ sessions[s]'.source = sessions[s].source]_sessions
  BY SessionsFollow, AbsentSessions DEF Follows
<1> QED
  BY <1>1, Invariance, PTL DEF Spec, EndIsFinal

\* The id of a stored session and a rate below full are never rewritten.
THEOREM IdentityIsKept == Spec => IdentityIsImmutable
<1>1. IInv /\ [Next]_vars =>
        [\A s \in Sessions :
           /\ Exists(sessions[s]) => sessions[s]'.cid = sessions[s].cid
           /\ sessions[s].rate # FullRate =>
                sessions[s]'.rate = sessions[s].rate]_sessions
  BY SessionsFollow, AbsentSessions DEF Follows
<1> QED
  BY <1>1, Invariance, PTL DEF Spec, IdentityIsImmutable

\* A rate below full stays below full.
LEMMA RatesStay ==
  ASSUME IInv, [Next]_vars, NEW s \in Sessions, sessions[s].rate # FullRate
  PROVE  sessions'[s].rate # FullRate
BY SessionsFollow, AbsentSessions DEF Follows

\* Rates are looked at from the first event of the batch on.
CommitAtFirst == \A w \in Workers : pc[w] = "commit" => pos[w] = 1

LEMMA CommitAtFirstStep ==
  ASSUME IInv, [Next]_vars, CommitAtFirst
  PROVE  CommitAtFirst'
<1> SUFFICES ASSUME NEW w \in Workers, pc'[w] = "commit"
             PROVE  pos'[w] = 1
  BY DEF CommitAtFirst
<1>0. TypeOK
  BY DEF IInv
<1>1. CASE Same(w)
  BY <1>1 DEF Same, CommitAtFirst
<1>2. CASE Cleared(w)
  BY <1>2 DEF Cleared
<1>3. CASE \E b \in Batches : Receive(w, b)
  BY <1>0, <1>3 DEF Receive, Goto, TypeOK
<1>4. CASE Serve(w)
  <2>1. CASE UpsertWrite(w)
    BY <1>0, <2>1 DEF UpsertWrite, Advance, Goto, TypeOK
  <2>2. CASE ~UpsertWrite(w)
    BY <1>0, <1>4, <2>2 DEF Serve, Resolve, BeginUpsert, UpsertRead, CommitUpsert,
       SetSampleRate, AppendBoundaries, BeginAppend, Insert, CommitAppend,
       Forget, Advance, Goto, TypeOK
  <2> QED
    BY <2>1, <2>2
<1> QED
  BY <1>0, <1>1, <1>2, <1>3, <1>4, WhoMoves

\* What SetSampleRate leaves at the event it looks at: a rate that counts is
\* there, its own or another one.
LEMMA RateIsThere ==
  ASSUME TypeOK, NEW w \in Workers, SetSampleRate(w), BringsRate(w, pos[w])
  PROVE  sessions'[Session(w)].rate # FullRate
<1>1. FirstOfSession(w) /\ Event(w).rate # FullRate
  BY DEF BringsRate, FirstOfSession, Session, Event
<1>2. Session(w) \in Sessions
  BY CurrentEvent DEF SetSampleRate
<1>3. sessions \in [Sessions -> Row]
  BY DEF TypeOK
<1>4. \/ sessions' = [sessions EXCEPT ![Session(w)].rate = Event(w).rate]
      \/ sessions' = sessions /\ sessions[Session(w)].rate # FullRate
  BY <1>1 DEF SetSampleRate
<1> QED
  BY <1>1, <1>2, <1>3, <1>4 DEF Row

LEMMA RatesStep ==
  ASSUME IInv, [Next]_vars, CommitAtFirst, RatesPrecedeEvents
  PROVE  RatesPrecedeEvents'
<1> DEFINE after == {"rate", "boundaries", "append", "classify", "commitAppend"}
<1> SUFFICES ASSUME NEW w \in Workers, pc'[w] \in after,
                    NEW i \in Behind(w, {"rate"})', BringsRate(w, i)'
             PROVE  sessions'[batch'[w].events[i].session].rate # FullRate
  BY DEF RatesPrecedeEvents
<1>0. TypeOK
  BY DEF IInv
<1>1. ASSUME pc[w] \in after, batch'[w] = batch[w], i \in Behind(w, {"rate"})
      PROVE  sessions'[batch'[w].events[i].session].rate # FullRate
  <2>1. batch[w].events[i].session \in Sessions
    BY <1>0, <1>1, CurrentEvent DEF Behind
  <2>2. sessions[batch[w].events[i].session].rate # FullRate
    BY <1>1 DEF RatesPrecedeEvents, BringsRate
  <2> QED
    BY <1>1, <2>1, <2>2, RatesStay
<1>2. CASE Same(w)
  BY <1>1, <1>2, SameEvents DEF Same
<1>3. CASE Cleared(w)
  BY <1>3 DEF Cleared
<1>4. CASE \E b \in Batches : Receive(w, b)
  BY <1>0, <1>4 DEF Receive, Goto, TypeOK
<1>5. CASE Serve(w)
  <2>1. /\ pc[w] # "idle" /\ batch'[w] = batch[w]
        /\ pos[w] \in 1 .. Len(batch[w].events) /\ Len(batch[w].events) \in Nat
        /\ i \in 1 .. Len(batch[w].events)
    <3>1. pc[w] # "idle" /\ batch'[w] = batch[w]
      BY <1>0, <1>5 DEF Serve, Resolve, BeginUpsert, UpsertRead, UpsertWrite, CommitUpsert,
         SetSampleRate, AppendBoundaries, BeginAppend, Insert, CommitAppend,
         Forget, Goto, TypeOK
    <3> QED
      BY <1>0, <3>1, CurrentEvent DEF Behind
  <2>2. CASE CommitUpsert(w)
    BY <1>0, <2>1, <2>2 DEF CommitUpsert, CommitAtFirst, Behind, Goto, TypeOK
  <2>3. CASE SetSampleRate(w)
    <3>1. pc[w] = "rate" /\ (i < pos[w] \/ i = pos[w])
      BY <1>0, <2>1, <2>3 DEF SetSampleRate, Behind, Advance, LastEvent, Goto, TypeOK
    <3>2. CASE i < pos[w]
      BY <1>1, <2>1, <3>1, <3>2 DEF Behind
    <3>3. CASE i = pos[w]
      <4>1. BringsRate(w, pos[w])
        BY <2>1, <3>3 DEF BringsRate
      <4> QED
        BY <1>0, <2>1, <2>3, <3>3, <4>1, RateIsThere DEF Session, Event
    <3> QED
      BY <3>1, <3>2, <3>3
  <2>4. CASE pc[w] \in after \ {"rate"}
    BY <1>1, <2>1, <2>4 DEF Behind
  <2>5. CASE pc[w] \in {"resolve", "begin", "read", "write"}
    BY <1>0, <1>5, <2>5 DEF Serve, Resolve, BeginUpsert, UpsertRead, UpsertWrite,
       CommitUpsert, SetSampleRate, AppendBoundaries, BeginAppend, Insert, CommitAppend,
       Advance, Goto, TypeOK
  <2> QED
    BY <1>0, <1>5, <2>1, <2>2, <2>3, <2>4, <2>5
       DEF Serve, Resolve, BeginUpsert, UpsertRead, UpsertWrite, AppendBoundaries,
           BeginAppend, Insert, CommitAppend
<1> QED
  BY <1>0, <1>2, <1>3, <1>4, <1>5, WhoMoves

\* A batch that brings a rate below full along stores no event before its
\* session has one, whichever of its events came first and whoever set it.
THEOREM RatesAreStored == Spec => []RatesPrecedeEvents
<1>1. Init => CommitAtFirst /\ RatesPrecedeEvents
  BY DEF Init, CommitAtFirst, RatesPrecedeEvents
<1>2. IInv /\ [Next]_vars /\ CommitAtFirst /\ RatesPrecedeEvents
        => CommitAtFirst' /\ RatesPrecedeEvents'
  BY CommitAtFirstStep, RatesStep
<1> QED
  BY <1>1, <1>2, Invariance, PTL DEF Spec

\* No failure, deadlock, lost race or restart takes back an event, a boundary
\* or a count that was committed.
THEOREM NothingStoredIsLost == Spec => NothingIsLost
<1>1. ASSUME IInv, [Next]_vars
      PROVE  events \subseteq events' /\ boundaries \subseteq boundaries'
  BY <1>1 DEF Next, Receive, Reject, Serve, Resolve, BeginUpsert, UpsertRead,
     UpsertWrite, CommitUpsert, SetSampleRate, AppendBoundaries, BeginAppend,
     Insert, CommitAppend, Fail, AbortDeadlock, Restart, StartSweep, RunSweep,
     FailSweep, Clock, vars, store
<1>2. ASSUME IInv, [Next]_vars, TypeOK', NEW s \in Sessions
      PROVE  sessions'[s].count >= sessions[s].count
  <2>1. CASE Exists(sessions[s])
    BY <1>2, <2>1, SessionsFollow DEF Follows
  <2>2. CASE ~Exists(sessions[s])
    <3>1. sessions'[s].count \in Nat
      BY <1>2 DEF TypeOK, Row
    <3> QED
      BY <1>2, <2>2, <3>1, AbsentSessions
  <2> QED
    BY <2>1, <2>2
<1>3. IInv /\ [Next]_vars =>
        [/\ events \subseteq events'
         /\ boundaries \subseteq boundaries'
         /\ \A s \in Sessions : sessions[s]'.count >= sessions[s].count]_store
  BY <1>1, <1>2, InvariantStep DEF IInv
<1> QED
  BY <1>3, Invariance, PTL DEF Spec, NothingIsLost

(***************************************************************************)
(* Sequences, identities and lives: the second part of the invariant, for  *)
(* the properties that relate several sessions or several events.          *)
(***************************************************************************)

\* The ingest sequences of a request that is under way.
Drawn(w) == firstSeq[w] .. firstSeq[w] + Len(batch[w].events) - 1

\* e is the record of the i-th event of w's batch.
RecordOf(e, w, i) ==
  /\ e.seq = firstSeq[w] + i - 1
  /\ e.session = batch[w].events[i].session
  /\ e.ended = batch[w].events[i].ended

\* Events are stored under different sequences, all drawn before; what a
\* worker has inserted is the part of its batch that lies behind it.
Numbered ==
  /\ \A e \in events : e.seq < nextSeq
  /\ \A d, e \in events : d.seq = e.seq => d = e
  /\ \A w \in Workers : pc[w] # "idle" =>
       firstSeq[w] + Len(batch[w].events) <= nextSeq
  /\ \A w \in Workers : \A e \in pending[w] :
       /\ pc[w] \in {"classify", "commitAppend"}
       /\ \E i \in Behind(w, {"classify"}) : RecordOf(e, w, i)
       /\ \A d \in pending[w] : d.seq = e.seq => d = e

\* The correlation ids s has or may get.
IdsOf(s) ==
  ({sessions[s].cid} \cup UNION {{staged[w][s].cid, cand[w][s]} : w \in Workers})
    \ {NoCid}

\* An id was generated for one session only.
OwnIds ==
  \A s \in Sessions : \A c \in IdsOf(s) :
    /\ c < nextCid
    /\ \A r \in Sessions : c \in IdsOf(r) => r = s

\* A staged row is one step of the life of its session away from the stored
\* one; sessions of an earlier release are stored from the start.
LifeSteps ==
  /\ \A s \in LegacySessions : Exists(sessions[s])
  /\ \A w \in Workers, s \in Sessions : Exists(staged[w][s]) =>
       staged[w][s].state \in Ledger!May(sessions[s].state)

\* The invariant behind the ledger.
LInv == IInv /\ Numbered /\ SequencesUnique /\ OwnIds /\ LifeSteps

\* A worker that is under way after a step was so before, with the same batch
\* and sequences, or has just received them.
LEMMA WhoIsUnderWay ==
  ASSUME TypeOK, [Next]_vars, NEW w \in Workers, pc'[w] # "idle"
  PROVE  \/ /\ pc[w] # "idle" /\ batch'[w] = batch[w] /\ firstSeq'[w] = firstSeq[w]
            /\ nextSeq' >= nextSeq
         \/ \E b \in Batches : Receive(w, b) /\ batch'[w] = b
              /\ firstSeq'[w] = nextSeq /\ nextSeq' = nextSeq + Len(b.events)
<1> USE DEF vars, counters, worker, Goto
<1>1. ~Restart
  BY DEF Restart
<1>2. nextSeq' >= nextSeq
  <2>1. ASSUME NEW b \in Batches, Len(b.events) \in Nat,
               nextSeq' = nextSeq + Len(b.events) \/ \E k \in 1 .. Len(b.events) : nextSeq' = nextSeq + k
        PROVE  nextSeq' >= nextSeq
    BY <2>1 DEF TypeOK
  <2>2. \A b \in Batches : Len(b.events) \in Nat
    BY BatchAssumption DEF Batch
  <2>3. nextSeq' = nextSeq => nextSeq' >= nextSeq
    BY DEF TypeOK
  <2> QED
    BY <1>1, <2>1, <2>2, <2>3 DEF Next, Receive, Reject, Serve, Resolve, BeginUpsert,
       UpsertRead, UpsertWrite, CommitUpsert, SetSampleRate, AppendBoundaries,
       BeginAppend, Insert, CommitAppend, Fail, AbortDeadlock, StartSweep, RunSweep,
       FailSweep, Clock
<1>3. CASE Same(w)
  BY <1>2, <1>3 DEF Same
<1>4. CASE Cleared(w)
  BY <1>4 DEF Cleared
<1>5. ASSUME NEW b \in Batches, Receive(w, b)
      PROVE  batch'[w] = b /\ firstSeq'[w] = nextSeq /\ nextSeq' = nextSeq + Len(b.events)
  BY <1>5 DEF Receive, TypeOK
<1>6. CASE Serve(w)
  <2>1. pc[w] # "idle" /\ batch' = batch /\ firstSeq' = firstSeq
    BY <1>6 DEF Serve, Resolve, BeginUpsert, UpsertRead, UpsertWrite, CommitUpsert,
                SetSampleRate, AppendBoundaries, BeginAppend, Insert, CommitAppend,
                Forget, TypeOK
  <2> QED
    BY <1>2, <2>1
<1> QED
  BY <1>3, <1>4, <1>5, <1>6, WhoMoves

\* Events enter the store when a worker commits what it has inserted.
LEMMA WhoStores ==
  ASSUME TypeOK, [Next]_vars
  PROVE  \/ UNCHANGED events
         \/ \E w \in Workers : CommitAppend(w) /\ events' = events \cup pending[w]
BY DEF Next, Receive, Reject, Serve, Resolve, BeginUpsert, UpsertRead,
       UpsertWrite, CommitUpsert, SetSampleRate, AppendBoundaries, BeginAppend,
       Insert, CommitAppend, Fail, AbortDeadlock, Restart, StartSweep, RunSweep,
       FailSweep, Clock, vars, store

\* A worker inserts the record of its current event, or nothing.
LEMMA WhoInserts ==
  ASSUME TypeOK, [Next]_vars, NEW w \in Workers
  PROVE  \/ pending'[w] \in {pending[w], {}}
         \/ Insert(w) /\ pending'[w] = pending[w] \cup {EventRow(w)}
<1>1. ASSUME NEW b \in Batches, Receive(w, b)
      PROVE  pending'[w] = pending[w]
  BY <1>1 DEF Receive, tx
<1>2. CASE Serve(w)
  <2>1. CASE Insert(w)
    BY <2>1 DEF Insert, TypeOK
  <2>2. CASE CommitAppend(w)
    BY <2>2 DEF CommitAppend, TypeOK
  <2>3. CASE pending' = pending
    BY <2>3
  <2> QED
    BY <1>2, <2>1, <2>2, <2>3 DEF Serve, Resolve, BeginUpsert, UpsertRead, UpsertWrite,
       CommitUpsert, SetSampleRate, AppendBoundaries, BeginAppend, tx
<1> QED
  BY <1>1, <1>2, WhoMoves DEF Same, Cleared

\* What a worker has inserted carries sequences it drew.
LEMMA InsertedIsDrawn ==
  ASSUME TypeOK, Numbered, NEW w \in Workers, NEW e \in pending[w]
  PROVE  pc[w] # "idle" /\ e.seq \in Drawn(w) /\ e.seq < nextSeq
<1>1. pc[w] \in {"classify", "commitAppend"}
  BY DEF Numbered
<1>2. PICK i \in 1 .. Len(batch[w].events) : e.seq = firstSeq[w] + i - 1
  BY DEF Numbered, RecordOf, Behind
<1>3. /\ firstSeq[w] \in Nat /\ Len(batch[w].events) \in Nat /\ nextSeq \in Nat
      /\ firstSeq[w] + Len(batch[w].events) <= nextSeq
  BY <1>1, CurrentEvent DEF Numbered, TypeOK
<1> QED
  BY <1>1, <1>2, <1>3 DEF Drawn

\* Batches in flight keep to sequences of their own, also after a restart.
LEMMA NumberedStep ==
  ASSUME IInv, Numbered, SequencesUnique, [Next]_vars
  PROVE  Numbered' /\ SequencesUnique'
<1> USE DEF IInv
<1>0. /\ nextSeq \in Nat /\ nextSeq' \in Nat
      /\ \A e \in events \cup events' : e.seq \in Nat
      /\ \A w \in Workers : \A e \in pending[w] : e.seq \in Nat
      /\ \A w \in Workers : firstSeq[w] \in Nat
      /\ \A w \in Workers : pc[w] # "idle" => Len(batch[w].events) \in Nat
  BY TypeStep, CurrentEvent, SMTT(30) DEF TypeOK, EventRecord
<1>1. ASSUME Restart
      PROVE  /\ \A e \in events' : e.seq < nextSeq'
             /\ \A w \in Workers : pc'[w] = "idle"
  BY <1>0, <1>1 DEF Restart, Reseed, store
<1>2. CASE Restart
  <2>1. \A d, e \in events' : d.seq = e.seq => d = e
    BY <1>2 DEF Restart, store, Numbered
  <2>2. \A w \in Workers : pending'[w] = {}
    BY <1>2 DEF Restart
  <2> QED
    BY <1>1, <1>2, <2>1, <2>2 DEF Numbered, SequencesUnique
<1>3. CASE ~Restart
  <2>1. nextSeq' >= nextSeq
    <3>1. \A b \in Batches : Len(b.events) \in Nat
      BY BatchAssumption DEF Batch
    <3>2. ASSUME NEW k \in Nat, nextSeq' = nextSeq + k
          PROVE  nextSeq' >= nextSeq
      BY <1>0, <3>2
    <3>3. ASSUME NEW b \in Batches, Reject(b)
          PROVE  nextSeq' >= nextSeq
      BY <1>0, <3>1, <3>3 DEF Reject
    <3> QED
      BY <1>0, <1>3, <3>1, <3>2, <3>3
         DEF Next, Receive, Serve, Resolve, BeginUpsert, UpsertRead, UpsertWrite,
             CommitUpsert, SetSampleRate, AppendBoundaries, BeginAppend, Insert,
             CommitAppend, Fail, AbortDeadlock, StartSweep, RunSweep, FailSweep,
             Clock, vars, counters
  <2>2. ASSUME NEW w \in Workers, pc'[w] # "idle"
        PROVE  \/ /\ pc[w] # "idle"
                  /\ firstSeq'[w] = firstSeq[w] /\ batch'[w] = batch[w]
                  /\ firstSeq[w] + Len(batch[w].events) <= nextSeq
               \/ /\ firstSeq'[w] = nextSeq /\ Len(batch'[w].events) \in Nat
                  /\ firstSeq'[w] + Len(batch'[w].events) = nextSeq'
                  /\ \E b \in Batches : Receive(w, b)
    <3>1. \A b \in Batches : Len(b.events) \in Nat
      BY BatchAssumption DEF Batch
    <3> QED
      BY <2>2, <3>1, WhoIsUnderWay DEF Numbered
  <2>3. ASSUME NEW w \in Workers, pc'[w] # "idle"
        PROVE  firstSeq'[w] + Len(batch'[w].events) <= nextSeq'
    <3>1. CASE pc[w] # "idle" /\ firstSeq'[w] = firstSeq[w] /\ batch'[w] = batch[w]
               /\ firstSeq[w] + Len(batch[w].events) <= nextSeq
      BY <1>0, <2>1, <3>1
    <3>2. CASE firstSeq'[w] + Len(batch'[w].events) = nextSeq'
      BY <1>0, <3>2
    <3> QED
      BY <2>2, <2>3, <3>1, <3>2
  <2>4. ASSUME NEW e \in events'
        PROVE  e.seq < nextSeq'
    <3>1. e \in events \/ \E w \in Workers : e \in pending[w]
      BY <2>4, WhoStores
    <3>2. e.seq < nextSeq
      BY <3>1, InsertedIsDrawn DEF Numbered
    <3> QED
      BY <1>0, <2>1, <2>4, <3>2
  <2>5. ASSUME NEW d \in events', NEW e \in events', d.seq = e.seq
        PROVE  d = e
    <3>1. CASE UNCHANGED events
      BY <2>5, <3>1 DEF Numbered
    <3>2. ASSUME NEW w \in Workers, events' = events \cup pending[w]
          PROVE  d = e
      <4>1. \A x \in pending[w] : \A y \in events : x.seq # y.seq
        BY InsertedIsDrawn DEF SequencesUnique, Drawn
      <4> QED
        BY <2>5, <3>2, <4>1 DEF Numbered
    <3> QED
      BY <3>1, <3>2, WhoStores
  <2>6. ASSUME NEW w \in Workers, NEW e \in pending'[w]
        PROVE  /\ pc'[w] \in {"classify", "commitAppend"}
               /\ \E i \in Behind(w, {"classify"})' : RecordOf(e, w, i)'
               /\ \A d \in pending'[w] : d.seq = e.seq => d = e
    <3>1. ASSUME Insert(w), pending'[w] = pending[w] \cup {EventRow(w)}
          PROVE  /\ pc'[w] \in {"classify", "commitAppend"}
                 /\ \E i \in Behind(w, {"classify"})' : RecordOf(e, w, i)'
                 /\ \A d \in pending'[w] : d.seq = e.seq => d = e
      <4>1. /\ pc[w] = "classify" /\ batch' = batch /\ firstSeq' = firstSeq
            /\ pc'[w] \in {"classify", "commitAppend"}
            /\ pos[w] \in 1 .. Len(batch[w].events) /\ Len(batch[w].events) \in Nat
            /\ LastEvent(w) => pc'[w] = "commitAppend"
            /\ ~LastEvent(w) => pos'[w] = pos[w] + 1
        BY <3>1, CurrentEvent DEF Insert, Advance, Goto, TypeOK
      <4>2. \A i \in 1 .. Len(batch[w].events) :
              i <= pos[w] => i \in Behind(w, {"classify"})'
        BY <4>1 DEF Behind, LastEvent
      <4>3. RecordOf(EventRow(w), w, pos[w])
        BY DEF RecordOf, EventRow, Event
      <4>4. \A d \in pending[w] : \E i \in 1 .. Len(batch[w].events) :
              i < pos[w] /\ RecordOf(d, w, i)
        BY <4>1 DEF Numbered, Behind
      <4>5. \A d \in pending[w] : d.seq # EventRow(w).seq
        BY <1>0, <4>1, <4>3, <4>4 DEF RecordOf
      <4>6. \E i \in 1 .. Len(batch[w].events) : i <= pos[w] /\ RecordOf(e, w, i)
        BY <2>6, <3>1, <4>1, <4>3, <4>4
      <4>7. \E i \in Behind(w, {"classify"})' : RecordOf(e, w, i)'
        BY <4>1, <4>2, <4>6 DEF RecordOf
      <4>8. \A d \in pending'[w] : d.seq = e.seq => d = e
        BY <2>6, <3>1, <4>5 DEF Numbered
      <4> QED
        BY <4>1, <4>7, <4>8
    <3>2. ASSUME ~Insert(w), pending'[w] = pending[w]
          PROVE  /\ pc'[w] \in {"classify", "commitAppend"}
                 /\ \E i \in Behind(w, {"classify"})' : RecordOf(e, w, i)'
                 /\ \A d \in pending'[w] : d.seq = e.seq => d = e
      <4>1. pc[w] \in {"classify", "commitAppend"} /\ pending[w] # {}
        BY <2>6, <3>2 DEF Numbered
      <4>2. Same(w)
        <5>1. ~Cleared(w)
          BY <2>6, <4>1 DEF Cleared
        <5>2. \A b \in Batches : ~Receive(w, b)
          BY <4>1 DEF Receive
        <5>3. ~Serve(w)
          BY <2>6, <3>2, <4>1 DEF Serve, Resolve, BeginUpsert, UpsertRead, UpsertWrite,
             CommitUpsert, SetSampleRate, AppendBoundaries, BeginAppend, CommitAppend,
             TypeOK
        <5> QED
          BY <5>1, <5>2, <5>3, WhoMoves
      <4> QED
        BY <2>6, <3>2, <4>2, SameEvents DEF Same, Numbered, RecordOf
    <3>3. Insert(w) => pending'[w] = pending[w] \cup {EventRow(w)}
      BY DEF Insert, TypeOK
    <3> QED
      BY <2>6, <3>1, <3>2, <3>3, WhoInserts
  <2>7. Numbered'
    BY <2>3, <2>4, <2>5, <2>6 DEF Numbered
  <2>8. ASSUME NEW w \in Workers, pc'[w] # "idle", NEW e \in events'
        PROVE  e.seq \notin Drawn(w)'
    <3>1. CASE pc[w] # "idle" /\ firstSeq'[w] = firstSeq[w] /\ batch'[w] = batch[w]
      <4>1. CASE e \in events
        BY <3>1, <4>1 DEF SequencesUnique, Drawn
      <4>2. ASSUME NEW v \in Workers, CommitAppend(v), e \in pending[v]
            PROVE  e.seq \notin Drawn(w)'
        <5>1. v # w
          BY <2>8, <4>2 DEF CommitAppend, Forget, Goto, TypeOK
        <5>2. pc[v] # "idle" /\ e.seq \in Drawn(v)
          BY <4>2, InsertedIsDrawn
        <5>3. Drawn(v) \cap Drawn(w) = {}
          BY <3>1, <5>1, <5>2 DEF SequencesUnique, Drawn
        <5> QED
          BY <3>1, <5>2, <5>3 DEF Drawn
      <4> QED
        BY <2>8, <4>1, <4>2, WhoStores
    <3>2. CASE firstSeq'[w] = nextSeq /\ \E b \in Batches : Receive(w, b)
      <4>1. e \in events
        BY <2>8, <3>2 DEF Receive, store
      <4> QED
        BY <1>0, <3>2, <4>1 DEF Numbered, Drawn
    <3> QED
      BY <2>2, <2>8, <3>1, <3>2
  <2>9. ASSUME NEW v \in Workers, NEW w \in Workers, v # w,
               pc'[v] # "idle", pc'[w] # "idle"
        PROVE  (Drawn(v) \cap Drawn(w) = {})'
    <3>1. ~(\E b, c \in Batches : Receive(v, b) /\ Receive(w, c))
      BY <2>9 DEF Receive, Goto, TypeOK
    <3>2. ASSUME NEW x \in Workers, NEW y \in Workers, x # y, firstSeq'[x] = nextSeq,
                 pc[y] # "idle",
                 firstSeq'[y] = firstSeq[y] /\ batch'[y] = batch[y]
                 /\ firstSeq[y] + Len(batch[y].events) <= nextSeq
          PROVE  (Drawn(x) \cap Drawn(y) = {})'
      BY <1>0, <3>2 DEF Drawn
    <3>3. CASE pc[v] # "idle" /\ firstSeq'[v] = firstSeq[v] /\ batch'[v] = batch[v]
               /\ pc[w] # "idle" /\ firstSeq'[w] = firstSeq[w] /\ batch'[w] = batch[w]
      BY <2>9, <3>3 DEF SequencesUnique, Drawn
    <3> QED
      BY <2>2, <2>9, <3>1, <3>2, <3>3
  <2>10. SequencesUnique'
    BY <2>8, <2>9 DEF SequencesUnique, Drawn
  <2> QED
    BY <2>7, <2>10
<1> QED
  BY <1>2, <1>3

\* A worker stages the row its event writes, drops what it staged or leaves it.
LEMMA StagedBefore ==
  ASSUME TypeOK, [Next]_vars, NEW w \in Workers, NEW s \in Sessions
  PROVE  \/ staged'[w][s] \in {staged[w][s], NoRow}
         \/ UpsertWrite(w) /\ s = Session(w) /\ Exists(Written(w))
              /\ staged'[w][s] = Written(w)
<1>1. ASSUME NEW b \in Batches, Receive(w, b)
      PROVE  staged'[w][s] = staged[w][s]
  BY <1>1 DEF Receive, tx
<1>2. CASE Serve(w)
  <2>1. CASE UpsertWrite(w)
    BY <2>1 DEF UpsertWrite, TypeOK
  <2>2. CASE CommitUpsert(w)
    BY <2>2 DEF CommitUpsert, TypeOK
  <2>3. CASE staged' = staged
    BY <2>3
  <2> QED
    BY <1>2, <2>1, <2>2, <2>3 DEF Serve, Resolve, BeginUpsert, UpsertRead,
       SetSampleRate, AppendBoundaries, BeginAppend, Insert, CommitAppend, tx
<1> QED
  BY <1>1, <1>2, WhoMoves DEF Same, Cleared

\* What a written row takes over from what the worker sees.
LEMMA WrittenRow ==
  ASSUME IInv, NEW w \in Workers, pc[w] = "write", Exists(Written(w)),
         NEW s, s = Session(w)
  PROVE  \/ /\ found[w] /\ Exists(View(w, s))
            /\ Written(w).cid = View(w, s).cid
            /\ Written(w).state \in {View(w, s).state, "ended"}
            /\ Written(w).count = View(w, s).count + 1
         \/ /\ ~found[w] /\ ~Exists(View(w, s)) /\ View(w, s) = sessions[s]
            /\ Written(w).cid = cand[w][s]
            /\ Written(w).state \in {"active", "ended"}
            /\ Written(w).count = 1
<1> USE DEF IInv
<1>1. /\ s \in Sessions /\ View(w, s) \in Row /\ at[w] \in Nat
  BY CurrentEvent, ViewIsRow DEF TypeOK
<1>2. ~LostInsert(w)
  BY DEF Written, Exists, NoRow
<1>3. CASE found[w]
  BY <1>1, <1>2, <1>3 DEF NoGhosts, Written, Ticked, Tick, EndByClient, Row
<1>4. CASE ~found[w]
  <2>1. ~Exists(View(w, s)) /\ View(w, s) = sessions[s]
    BY <1>2, <1>4 DEF LostInsert, View
  <2> QED
    BY <1>2, <1>4, <2>1 DEF Written, Inserted, NewRow, EndByClient
<1> QED
  BY <1>3, <1>4

\* Where the ids of a session come from.
LEMMA WhereIdsComeFrom ==
  ASSUME IInv, [Next]_vars, NEW s \in Sessions, NEW c \in IdsOf(s)'
  PROVE  \/ c \in IdsOf(s)
         \/ \E w \in Workers : /\ Resolve(w) /\ s = Session(w)
              /\ cand' = [cand EXCEPT ![w][s] = nextCid]
              /\ c = nextCid /\ nextCid' = nextCid + 1
<1> USE DEF IInv
<1>0. c # NoCid
  BY DEF IdsOf
<1>1. CASE c = sessions'[s].cid
  <2>1. ASSUME NEW v \in Workers, CommitUpsert(v)
        PROVE  c \in IdsOf(s)
    BY <1>0, <1>1, <2>1 DEF CommitUpsert, View, IdsOf
  <2>2. ASSUME NEW v \in Workers, SetSampleRate(v)
        PROVE  c \in IdsOf(s)
    <3>1. sessions[s] \in Row
      BY DEF TypeOK
    <3>2. sessions'[s] = sessions[s] \/
            sessions'[s] = [sessions[s] EXCEPT !.rate = Event(v).rate]
      BY <2>2 DEF SetSampleRate, TypeOK
    <3>3. sessions'[s].cid = sessions[s].cid
      BY <3>1, <3>2 DEF Row
    <3> QED
      BY <1>0, <1>1, <3>3 DEF IdsOf
  <2>3. CASE RunSweep
    <3>1. sessions'[s].cid = sessions[s].cid
      BY <2>3 DEF RunSweep, TypeOK, SweepRow, SweepEnded, SweepStalled, Row
    <3> QED
      BY <1>0, <1>1, <3>1 DEF IdsOf
  <2> QED
    BY <1>0, <1>1, <2>1, <2>2, <2>3, WhoWritesSessions DEF IdsOf
<1>2. ASSUME NEW w \in Workers, c = staged'[w][s].cid
      PROVE  c \in IdsOf(s)
  <2>1. CASE staged'[w][s] \in {staged[w][s], NoRow}
    BY <1>0, <1>2, <2>1 DEF IdsOf, NoRow
  <2>2. CASE UpsertWrite(w) /\ s = Session(w) /\ Exists(Written(w))
             /\ staged'[w][s] = Written(w)
    <3>1. c = View(w, s).cid \/ c = cand[w][s]
      BY <1>2, <2>2, WrittenRow DEF UpsertWrite
    <3> QED
      BY <1>0, <3>1 DEF View, IdsOf
  <2> QED
    BY <2>1, <2>2, StagedBefore
<1>3. ASSUME NEW w \in Workers, c = cand'[w][s]
      PROVE  \/ c \in IdsOf(s)
             \/ /\ Resolve(w) /\ s = Session(w) /\ c = nextCid
                /\ cand' = [cand EXCEPT ![w][s] = nextCid] /\ nextCid' = nextCid + 1
  <2>1. CASE cand'[w][s] = cand[w][s]
    BY <1>0, <1>3, <2>1 DEF IdsOf
  <2>2. CASE Resolve(w)
    <3>1. Session(w) \in Sessions
      BY <2>2, CurrentEvent DEF Resolve
    <3>2. \/ cand'[w][s] = cand[w][s]
          \/ s = Session(w) /\ cand'[w][s] = sessions[s].cid
          \/ /\ s = Session(w) /\ cand'[w][s] = nextCid
             /\ cand' = [cand EXCEPT ![w][s] = nextCid] /\ nextCid' = nextCid + 1
      BY <2>2, <3>1 DEF Resolve, TypeOK
    <3> QED
      BY <1>0, <1>3, <2>2, <3>2 DEF IdsOf
  <2>3. CASE UpsertWrite(w)
    <3>1. cand'[w][s] \in {cand[w][s], View(w, s).cid}
      BY <2>3, CurrentEvent DEF UpsertWrite, Canonical, TypeOK
    <3> QED
      BY <1>0, <1>3, <3>1 DEF View, IdsOf
  <2>4. \/ cand'[w][s] = cand[w][s] \/ cand'[w][s] = NoCid
        \/ Resolve(w) \/ UpsertWrite(w)
    <3>1. ASSUME Serve(w), ~Resolve(w), ~UpsertWrite(w)
          PROVE  cand'[w][s] = cand[w][s] \/ cand'[w][s] = NoCid
      BY <3>1 DEF Serve, BeginUpsert, UpsertRead, CommitUpsert, SetSampleRate,
         AppendBoundaries, BeginAppend, Insert, CommitAppend, Forget, TypeOK
    <3>2. ASSUME NEW b \in Batches, Receive(w, b)
          PROVE  cand'[w][s] = cand[w][s]
      BY <3>2 DEF Receive
    <3>3. CASE Same(w)
      BY <3>3 DEF Same
    <3>4. CASE Cleared(w)
      BY <3>4 DEF Cleared
    <3> QED
      BY <3>1, <3>2, <3>3, <3>4, WhoMoves
  <2> QED
    BY <1>0, <1>3, <2>1, <2>2, <2>3, <2>4
<1> QED
  BY <1>1, <1>2, <1>3 DEF IdsOf

\* No two sessions ever share an id, or run for the same one.
LEMMA OwnIdsStep ==
  ASSUME IInv, OwnIds, [Next]_vars
  PROVE  OwnIds'
<1> USE DEF IInv
<1>0. nextCid \in Nat /\ \A s \in Sessions : \A c \in IdsOf(s) : c \in Nat
  BY SMTT(30) DEF TypeOK, IdsOf, Row
<1>1. nextCid' \in {nextCid, nextCid + 1}
  BY DEF Next, Receive, Reject, Serve, Resolve, BeginUpsert, UpsertRead,
     UpsertWrite, CommitUpsert, SetSampleRate, AppendBoundaries, BeginAppend,
     Insert, CommitAppend, Fail, AbortDeadlock, Restart, StartSweep, RunSweep,
     FailSweep, Clock, vars, counters
<1>2. ASSUME NEW s \in Sessions, NEW c \in IdsOf(s)'
      PROVE  c < nextCid'
  BY <1>0, <1>1, <1>2, WhereIdsComeFrom DEF OwnIds
<1>3. ASSUME NEW s \in Sessions, NEW r \in Sessions, NEW c \in IdsOf(s)', c \in IdsOf(r)'
      PROVE  r = s
  <2>1. CASE c \in IdsOf(s) /\ c \in IdsOf(r)
    BY <2>1 DEF OwnIds
  <2>2. ASSUME c = nextCid,
               NEW v \in Workers, cand' = [cand EXCEPT ![v][Session(v)] = nextCid],
               nextCid' = nextCid + 1, Resolve(v)
        PROVE  r = s
    <3>1. ~(c \in IdsOf(s)) /\ ~(c \in IdsOf(r))
      BY <1>0, <2>2 DEF OwnIds
    <3>2. PICK w \in Workers : Resolve(w) /\ s = Session(w)
      BY <1>3, <3>1, WhereIdsComeFrom
    <3>3. PICK x \in Workers : Resolve(x) /\ r = Session(x)
      BY <1>3, <3>1, WhereIdsComeFrom
    <3>4. \A y, z \in Workers : Resolve(y) /\ Resolve(z) => y = z
      <4>1. ASSUME NEW y \in Workers, NEW z \in Workers, y # z, Resolve(y), Resolve(z)
            PROVE  FALSE
        <5>1. pc'[y] = pc[y] /\ pos'[y] = pos[y]
          BY <4>1, SMTT(30) DEF Resolve, Advance, Goto, TypeOK
        <5>2. pc'[y] = "begin" \/ pos'[y] = pos[y] + 1
          BY <4>1 DEF Resolve, Advance, Goto, TypeOK
        <5>3. pc[y] = "resolve" /\ pos[y] \in Nat
          BY <4>1 DEF Resolve, TypeOK
        <5> QED
          BY <5>1, <5>2, <5>3
      <4> QED
        BY <4>1
    <3> QED
      BY <3>2, <3>3, <3>4
  <2>3. \A x \in Sessions : c \in IdsOf(x)' /\ ~(c \in IdsOf(x)) =>
          c = nextCid /\ nextCid' = nextCid + 1 /\ \E v \in Workers : Resolve(v)
             /\ cand' = [cand EXCEPT ![v][Session(v)] = nextCid]
    BY WhereIdsComeFrom
  <2> QED
    BY <1>3, <2>1, <2>2, <2>3
<1> QED
  BY <1>2, <1>3 DEF OwnIds

\* The states a stored session may go to.
LEMMA LifeMoves ==
  /\ Ledger!May("none") = {"none", "active", "ended"}
  /\ Ledger!May("active") = {"active", "stalled", "ended"}
  /\ Ledger!May("stalled") = {"stalled", "ended"}
  /\ Ledger!May("ended") = {"ended"}
BY DEF Ledger!May

\* A staged row keeps to the life of its session while it waits for commit.
LEMMA LifeStepsStep ==
  ASSUME IInv, LifeSteps, [Next]_vars
  PROVE  LifeSteps'
<1> USE DEF IInv
<1>1. \A s \in LegacySessions : Exists(sessions'[s])
  BY SessionsFollow, SessionAssumption DEF LifeSteps, Follows
<1>2. ASSUME NEW w \in Workers, NEW s \in Sessions, Exists(staged'[w][s])
      PROVE  staged'[w][s].state \in Ledger!May(sessions'[s].state)
  <2>1. CASE staged'[w][s] = staged[w][s]
    <3>1. ~CommitUpsert(w)
      BY <1>2, <2>1 DEF CommitUpsert, TypeOK, Exists, NoRow
    <3>2. sessions'[s] = sessions[s]
      BY <1>2, <2>1, <3>1, LockedRowsAreFixed
    <3> QED
      BY <1>2, <2>1, <3>2 DEF LifeSteps
  <2>2. CASE UpsertWrite(w) /\ s = Session(w) /\ Exists(Written(w))
             /\ staged'[w][s] = Written(w)
    <3>1. sessions' = sessions /\ pc[w] = "write"
      BY <2>2 DEF UpsertWrite, store
    <3>2. sessions[s].state \in {"none", "active", "stalled", "ended"}
      BY DEF TypeOK, Row
    <3>3. View(w, s).state \in Ledger!May(sessions[s].state)
      BY <3>2, LifeMoves DEF View, LifeSteps
    <3> QED
      BY <2>2, <3>1, <3>2, <3>3, WrittenRow, LifeMoves DEF Exists
  <2> QED
    BY <1>2, <2>1, <2>2, WhoStages
<1> QED
  BY <1>1, <1>2 DEF LifeSteps

(***************************************************************************)
(* The store is a ledger                                                   *)
(***************************************************************************)

\* An empty store satisfies the invariant behind the ledger.
LEMMA LedgerInvariantInit == Init => LInv
<1> SUFFICES ASSUME Init
             PROVE  LInv
  OBVIOUS
<1>1. IInv
  BY InvariantInit
<1>2. Numbered /\ SequencesUnique
  BY DEF Init, Numbered, SequencesUnique
<1>3. \A s \in Sessions : IdsOf(s) = {}
  BY DEF Init, IdsOf, NoRow, NewRow, NoCid
<1>4. OwnIds
  BY <1>3 DEF OwnIds
<1>5. LifeSteps
  BY SessionAssumption DEF Init, LifeSteps, Exists, NoRow, NewRow
<1> QED
  BY <1>1, <1>2, <1>4, <1>5 DEF LInv

\* Every step keeps it.
LEMMA LedgerInvariantStep == LInv /\ [Next]_vars => LInv'
BY InvariantStep, NumberedStep, OwnIdsStep, LifeStepsStep DEF LInv

\* No two events, sessions or requests ever share a sequence or an id.
THEOREM LedgerInvariance == Spec => []LInv
BY LedgerInvariantInit, LedgerInvariantStep, PTL DEF Spec

\* The sequences of concurrent batches, failed ones and those after a restart
\* included, never overlap with each other or with what is stored.
THEOREM SequencesAreUnique == Spec => []SequencesUnique
<1>1. LInv => SequencesUnique
  BY DEF LInv
<1> QED
  BY <1>1, LedgerInvariance, PTL

\* An empty store shows an empty ledger.
LEMMA LedgerInit == Init => Ledger!Init
<1> SUFFICES ASSUME Init
             PROVE  Ledger!Init
  OBVIOUS
<1>1. \A s \in Sessions : sessions[s] = IF s \in LegacySessions THEN NewRow(NoCid, 0) ELSE NoRow
  BY DEF Init
<1>2. \A s \in Sessions : /\ sessions[s].cid = 0
                          /\ sessions[s].state \in {"none", "active"}
                          /\ sessions[s].state = "active" <=> s \in LegacySessions
  BY <1>1 DEF NewRow, NoRow, NoCid
<1>3. events = {}
  BY DEF Init
<1> QED
  BY <1>2, <1>3 DEF Ledger!Init

\* A transaction on the sessions moves lives on and gives new sessions ids of
\* their own.
LEMMA SessionsMove ==
  ASSUME LInv, [Next]_vars, NEW s \in Sessions
  PROVE  /\ sessions'[s].state \in Ledger!May(sessions[s].state)
         /\ Exists(sessions[s]) \/ ~Exists(sessions'[s]) =>
              sessions'[s].cid = sessions[s].cid
         /\ ~Exists(sessions[s]) /\ Exists(sessions'[s]) => sessions'[s].cid # NoCid
<1> USE DEF LInv, IInv
<1>1. sessions[s] \in Row /\ sessions[s].state \in {"none", "active", "stalled", "ended"}
  BY DEF TypeOK, Row
<1>2. sessions'[s].state \in Ledger!May(sessions[s].state)
  <2>1. ASSUME NEW v \in Workers, CommitUpsert(v)
        PROVE  sessions'[s].state \in Ledger!May(sessions[s].state)
    BY <1>1, <2>1, LifeMoves DEF CommitUpsert, View, LifeSteps
  <2>2. ASSUME NEW v \in Workers, SetSampleRate(v)
        PROVE  sessions'[s].state \in Ledger!May(sessions[s].state)
    <3>1. sessions'[s] = sessions[s] \/
            sessions'[s] = [sessions[s] EXCEPT !.rate = Event(v).rate]
      BY <2>2 DEF SetSampleRate, TypeOK
    <3>2. sessions'[s].state = sessions[s].state
      BY <1>1, <3>1 DEF Row
    <3> QED
      BY <1>1, <3>2, LifeMoves
  <2>3. CASE RunSweep
    <3>1. sessions'[s] = SweepRow(sessions[s], sweepAt)
      BY <2>3 DEF RunSweep
    <3> QED
      BY <1>1, <3>1, LifeMoves DEF SweepRow, SweepEnded, SweepStalled, Row
  <2>4. CASE UNCHANGED sessions
    BY <1>1, <2>4, LifeMoves
  <2> QED
    BY <2>1, <2>2, <2>3, <2>4, WhoWritesSessions
<1>3. ASSUME Exists(sessions[s])
      PROVE  sessions'[s].cid = sessions[s].cid
  BY <1>3, SessionsFollow DEF Follows
<1>4. ASSUME ~Exists(sessions[s]), ~Exists(sessions'[s])
      PROVE  sessions'[s].cid = sessions[s].cid
  BY <1>4, NoGhostsStep DEF NoGhosts
<1>5. ASSUME ~Exists(sessions[s]), Exists(sessions'[s])
      PROVE  sessions'[s].cid # NoCid
  BY <1>5, IdentifiedStep DEF Identified, LifeSteps
<1> QED
  BY <1>2, <1>3, <1>4, <1>5

\* Every step is one of the ledger's or invisible in it.
LEMMA LedgerStep == LInv /\ [Next]_vars => [Ledger!Next]_(Ledger!ledger)
<1> SUFFICES ASSUME LInv, [Next]_vars
             PROVE  Ledger!Next \/ UNCHANGED Ledger!ledger
  OBVIOUS
<1>0. LInv'
  BY LedgerInvariantStep
<1> DEFINE life == [s \in Sessions |-> sessions[s].state]
           cid == [s \in Sessions |-> sessions[s].cid]
           log == {[seq |-> e.seq, session |-> e.session, cid |-> e.cid] : e \in events}
<1>1. CASE UNCHANGED events
  <2>1. life' \in [Sessions -> {"none", "active", "stalled", "ended"}]
    BY <1>0 DEF LInv, IInv, TypeOK, Row
  <2>2. \A s \in Sessions : life'[s] \in Ledger!May(life[s])
    BY SessionsMove
  <2>3. \A s \in Sessions : life[s] # "none" \/ life'[s] = "none" => cid'[s] = cid[s]
    BY SessionsMove DEF Exists
  <2>4. ASSUME NEW s \in Sessions, life[s] = "none", life'[s] # "none"
        PROVE  cid'[s] # 0 /\ \A r \in Sessions \ {s} : cid'[r] # cid'[s]
    <3>1. sessions'[s].cid # NoCid
      BY <2>4, SessionsMove DEF Exists
    <3>2. sessions'[s].cid \in IdsOf(s)'
      BY <3>1 DEF IdsOf
    <3>3. ASSUME NEW r \in Sessions \ {s}, sessions'[r].cid = sessions'[s].cid
          PROVE  FALSE
      <4>1. sessions'[s].cid \in IdsOf(r)'
        BY <3>1, <3>3 DEF IdsOf
      <4> QED
        BY <1>0, <3>2, <3>3, <4>1 DEF LInv, OwnIds
    <3> QED
      BY <3>1, <3>3 DEF NoCid
  <2>5. UNCHANGED log
    BY <1>1
  <2> HIDE DEF life, cid, log
  <2>6. Ledger!Move
    BY <2>1, <2>2, <2>3, <2>4, <2>5 DEF Ledger!Move, life, cid, log
  <2> QED
    BY <2>6 DEF Ledger!Next
<1>2. ASSUME NEW w \in Workers, CommitAppend(w), events' = events \cup pending[w]
      PROVE  Ledger!Next
  <2>1. UNCHANGED sessions
    BY <1>2 DEF CommitAppend
  <2>2. log \subseteq log'
    BY <1>2
  <2>3. ASSUME NEW x \in log' \ log
        PROVE  /\ life[x.session] # "none"
               /\ x.session \notin LegacySessions => x.cid = cid[x.session]
               /\ \A d \in log' \ {x} : d.seq # x.seq
    <3>1. PICK e \in events' : x = [seq |-> e.seq, session |-> e.session, cid |-> e.cid]
      BY <2>3
    <3>2. e \in pending[w] /\ e.session \in Sessions /\ Agrees(e)
      BY <1>2, <2>3, <3>1 DEF LInv, IInv, TypeOK, EventRecord, Recorded
    <3>3. \A d \in events' : d.seq = e.seq => d = e
      BY <1>0, <3>1 DEF LInv, Numbered
    <3>4. \A d \in log' \ {x} : d.seq # x.seq
      BY <3>1, <3>3
    <3> QED
      BY <3>1, <3>2, <3>4 DEF Agrees, Exists
  <2> HIDE DEF life, cid, log
  <2>4. Ledger!Record
    BY <2>1, <2>2, <2>3 DEF Ledger!Record, life, cid, log
  <2> QED
    BY <2>4 DEF Ledger!Next
<1> QED
  BY <1>1, <1>2, WhoStores DEF LInv, IInv

\* Whatever workers, deadlocks, failures, restarts and sweeps do in between, a
\* reader of the store sees sessions open, stall and end once and events
\* appear in whole batches, under identities that stay.
THEOREM StoreIsALedger == Spec => ImplementsLedger
BY LedgerInit, LedgerStep, LedgerInvariance, PTL DEF Spec, ImplementsLedger, Ledger!Spec

(***************************************************************************)
(* What one write transaction at a time adds: SQLite                       *)
(***************************************************************************)

\* The stages of an open upsert, and those after it is committed.
Upserting == {"read", "write", "commit"}
AfterUpsert == {"rate", "boundaries", "append", "classify", "commitAppend"}

\* A worker with an open transaction holds the write lock, so that what it
\* has read is still so when it writes.
OneWriter ==
  /\ \A w \in Workers :
       pc[w] \in Upserting \cup {"classify", "commitAppend"} => writer = w
  /\ \A w \in Workers :
       pc[w] = "write" => found[w] = Exists(View(w, Session(w)))

\* The sequences of those events of w in I that belong to s.
SequencesOf(w, s, I) ==
  {firstSeq[w] + i - 1 : i \in {j \in I : batch[w].events[j].session = s}}

\* Whatever the count of s has to cover: stored events, and those of requests
\* whose upsert is committed.
Covered(s) ==
  {e.seq : e \in {d \in events : d.session = s}} \cup
  UNION {SequencesOf(w, s, 1 .. Len(batch[w].events)) :
           w \in {v \in Workers : pc[v] \in AfterUpsert}}

\* The part of w's batch in s that its open upsert has counted.
Counted(w, s) == SequencesOf(w, s, Behind(w, {"read", "write"}))

Counts ==
  /\ \A s \in Sessions :
       IsFiniteSet(Covered(s)) /\ sessions[s].count >= Cardinality(Covered(s))
  /\ \A w \in Workers, s \in Sessions : pc[w] \in Upserting =>
       View(w, s).count >= Cardinality(Covered(s) \cup Counted(w, s))

\* A session_ended event ends its session in the upsert of its batch.
Ends ==
  /\ \A e \in events : e.ended => sessions[e.session].state = "ended"
  /\ \A w \in Workers : pc[w] \in Upserting \cup AfterUpsert =>
       \A i \in Behind(w, {"read", "write"}) : batch[w].events[i].ended =>
         View(w, batch[w].events[i].session).state = "ended"

\* No deduplication key is accepted twice in S.
KeyedOnce(S) ==
  \A d, e \in S :
    /\ d.session = e.session /\ d.seqno = e.seqno /\ d.seqno # NoSeqno
    /\ d.status = "accepted" /\ e.status = "accepted"
    => d.seq = e.seq

Keys ==
  KeyedOnce(events) /\ \A w \in Workers : KeyedOnce(events \cup pending[w])

\* The invariant of the SQLite store.
SInv == LInv /\ OneWriter /\ Counts /\ Ends /\ Keys

\* Under the write lock of w nobody else changes sessions or events.
LEMMA LockHolds ==
  ASSUME Store = "sqlite", TypeOK, OneWriter, [Next]_vars,
         NEW w \in Workers, writer = w
  PROVE  /\ CommitUpsert(w) \/ SetSampleRate(w) \/ UNCHANGED sessions
         /\ CommitAppend(w) \/ UNCHANGED events
<1>1. ~WriteLockFree
  BY WorkerAssumption DEF WriteLockFree
<1>2. ASSUME NEW v \in Workers, CommitUpsert(v) \/ CommitAppend(v)
      PROVE  v = w
  BY <1>2 DEF CommitUpsert, CommitAppend, OneWriter, Upserting
<1>3. ASSUME NEW v \in Workers, SetSampleRate(v)
      PROVE  UNCHANGED sessions
  BY <1>1, <1>3 DEF SetSampleRate
<1>4. ~RunSweep
  BY <1>1 DEF RunSweep
<1> QED
  BY <1>2, <1>3, <1>4, WhoWritesSessions, WhoStores

\* The lock is held from the begin of a transaction to its end.
LEMMA OneWriterStep ==
  ASSUME Store = "sqlite", IInv, OneWriter, [Next]_vars
  PROVE  OneWriter'
<1> USE DEF IInv
<1> DEFINE Open == Upserting \cup {"classify", "commitAppend"}
<1>1. ASSUME NEW w \in Workers, pc[w] \in Open, Same(w)
      PROVE  writer' = writer
  <2>1. writer = w /\ pc[w] # "idle" /\ pc'[w] # "idle"
    BY <1>1 DEF OneWriter, Upserting, Same
  <2>2. ~WriteLockFree
    BY <2>1, WorkerAssumption DEF WriteLockFree
  <2>3. ASSUME NEW v \in Workers,
               CommitUpsert(v) \/ CommitAppend(v) \/ Fail(v) \/ AbortDeadlock(v)
        PROVE  writer' = writer
    <3>1. v # w
      BY <1>1, <2>3 DEF Same, CommitUpsert, CommitAppend, Fail, AbortDeadlock, Forget,
                   Goto, TypeOK, Upserting
    <3>2. ~CommitUpsert(v) /\ ~CommitAppend(v)
      BY <2>1, <3>1 DEF CommitUpsert, CommitAppend, OneWriter, Upserting
    <3> QED
      BY <2>1, <2>3, <3>1, <3>2 DEF Fail, AbortDeadlock, Rollback
  <2>4. ~Restart
    BY <2>1 DEF Restart
  <2>5. \A v \in Workers : ~BeginUpsert(v) /\ ~BeginAppend(v)
    BY <2>2 DEF BeginUpsert, BeginAppend, BeginTx
  <2> QED
    BY <2>3, <2>4, <2>5 DEF Next, Serve, Receive, Reject, Resolve, UpsertRead,
       UpsertWrite, SetSampleRate, AppendBoundaries, Insert, StartSweep, RunSweep,
       FailSweep, Clock, vars, tx
<1>2. ASSUME NEW w \in Workers, pc'[w] \in Open
      PROVE  writer' = w
  <2>1. CASE Same(w)
    BY <1>1, <1>2, <2>1 DEF Same, OneWriter
  <2>2. CASE Cleared(w) \/ \E b \in Batches : Receive(w, b)
    BY <1>2, <2>2 DEF Cleared, Receive, Goto, TypeOK, Upserting
  <2>3. CASE Serve(w)
    <3>1. CASE BeginUpsert(w) \/ BeginAppend(w)
      BY <3>1 DEF BeginUpsert, BeginAppend, BeginTx
    <3>2. CASE UpsertRead(w) \/ UpsertWrite(w) \/ Insert(w)
      BY <3>2 DEF UpsertRead, UpsertWrite, Insert, tx, OneWriter, Upserting
    <3>3. ASSUME ~BeginUpsert(w), ~BeginAppend(w), ~UpsertRead(w), ~UpsertWrite(w),
                 ~Insert(w)
          PROVE  pc'[w] \notin Open
      BY <2>3, <3>3 DEF Serve, Resolve, CommitUpsert, SetSampleRate, AppendBoundaries,
         CommitAppend, Forget, Advance, Goto, TypeOK, Upserting
    <3> QED
      BY <1>2, <3>1, <3>2, <3>3
  <2> QED
    BY <2>1, <2>2, <2>3, WhoMoves
<1>3. ASSUME NEW w \in Workers, pc'[w] = "write"
      PROVE  found'[w] = Exists(View(w, Session(w)))'
  <2>1. CASE Same(w)
    <3>1. pc[w] = "write" /\ writer = w /\ Session(w)' = Session(w)
      BY <1>3, <2>1 DEF Same, OneWriter, Upserting, Session, Event
    <3>2. ~CommitUpsert(w) /\ ~SetSampleRate(w)
      BY <3>1 DEF CommitUpsert, SetSampleRate
    <3>3. sessions' = sessions
      BY <3>1, <3>2, LockHolds
    <3>4. found[w] = Exists(View(w, Session(w)))
      BY <3>1 DEF OneWriter
    <3> QED
      BY <2>1, <3>1, <3>3, <3>4 DEF Same, View
  <2>2. CASE Cleared(w) \/ \E b \in Batches : Receive(w, b)
    BY <1>3, <2>2 DEF Cleared, Receive, Goto, TypeOK
  <2>3. CASE Serve(w)
    <3>1. UpsertRead(w)
      BY <1>3, <2>3 DEF Serve, Resolve, BeginUpsert, UpsertWrite, CommitUpsert,
         SetSampleRate, AppendBoundaries, BeginAppend, Insert, CommitAppend,
         Forget, Goto, Advance, TypeOK
    <3> QED
      BY <3>1 DEF UpsertRead, TypeOK, Session, Event, View, store, tx
  <2> QED
    BY <2>1, <2>2, <2>3, WhoMoves
<1> QED
  BY <1>2, <1>3 DEF OneWriter

\* So an insert never meets a row it has not read.
LEMMA NoInsertIsLost ==
  ASSUME OneWriter, NEW w \in Workers, pc[w] = "write"
  PROVE  ~LostInsert(w) /\ Exists(Written(w))
<1>1. ~LostInsert(w)
  BY DEF OneWriter, LostInsert
<1>2. found[w] => Exists(View(w, Session(w)))
  BY DEF OneWriter
<1> QED
  BY <1>1, <1>2 DEF Written, Inserted, Ticked, Tick, NewRow, EndByClient, Exists

\* A session that has ended in the view of a worker stays so.
LEMMA EndedViewsStay ==
  ASSUME IInv, [Next]_vars, NEW w \in Workers, NEW s \in Sessions,
         View(w, s).state = "ended", staged'[w][s] = staged[w][s]
  PROVE  View(w, s)'.state = "ended"
BY SessionsFollow DEF View, Follows, Exists

\* Nor does the end get lost on the way from the batch to the event.
LEMMA EndsStep ==
  ASSUME Store = "sqlite", IInv, Numbered, OneWriter, Ends, [Next]_vars
  PROVE  Ends'
<1> USE DEF IInv
<1>1. ASSUME NEW e \in events', e.ended
      PROVE  sessions'[e.session].state = "ended"
  <2>1. e.session \in Sessions
    BY <1>1, TypeStep DEF TypeOK, EventRecord
  <2>2. sessions[e.session].state = "ended"
    <3>1. CASE e \in events
      BY <1>1, <3>1 DEF Ends
    <3>2. ASSUME NEW w \in Workers, CommitAppend(w), e \in pending[w]
          PROVE  sessions[e.session].state = "ended"
      <4>1. PICK i \in Behind(w, {"classify"}) : RecordOf(e, w, i)
        BY <3>2 DEF Numbered
      <4>2. pc[w] = "commitAppend" /\ i \in Behind(w, {"read", "write"})
        BY <3>2 DEF CommitAppend, Behind
      <4>3. View(w, e.session).state = "ended"
        BY <1>1, <4>1, <4>2 DEF Ends, RecordOf, AfterUpsert
      <4> QED
        BY <2>1, <4>2, <4>3 DEF View, Tidy
    <3> QED
      BY <1>1, <3>1, <3>2, WhoStores
  <2> QED
    BY <2>1, <2>2, SessionsFollow DEF Follows, Exists
<1>2. ASSUME NEW w \in Workers, pc'[w] \in Upserting \cup AfterUpsert,
             NEW i \in Behind(w, {"read", "write"})', batch'[w].events[i].ended,
             NEW s, s = batch'[w].events[i].session
      PROVE  View(w, s)'.state = "ended"
  <2>1. ASSUME pc[w] \in Upserting \cup AfterUpsert, i \in Behind(w, {"read", "write"}),
               batch'[w] = batch[w]
        PROVE  s \in Sessions /\ View(w, s).state = "ended"
    <3>1. s \in Sessions
      BY <1>2, <2>1, CurrentEvent DEF Behind, Upserting, AfterUpsert
    <3> QED
      BY <1>2, <2>1, <3>1 DEF Ends
  <2>2. CASE Same(w)
    BY <1>2, <2>1, <2>2, SameEvents, EndedViewsStay DEF Same
  <2>3. CASE Cleared(w) \/ \E b \in Batches : Receive(w, b)
    BY <1>2, <2>3 DEF Cleared, Receive, Goto, TypeOK, Upserting, AfterUpsert
  <2>4. CASE Serve(w)
    <3>0. batch'[w] = batch[w] /\ pc[w] # "idle"
      BY <1>2, <2>4, WhoIsUnderWay DEF Serve, Resolve, BeginUpsert, UpsertRead, UpsertWrite,
         CommitUpsert, SetSampleRate, AppendBoundaries, BeginAppend, Insert, CommitAppend,
         Forget, Goto, TypeOK, Upserting, AfterUpsert
    <3>1. /\ Session(w) \in Sessions /\ pos[w] \in 1 .. Len(batch[w].events)
          /\ i \in 1 .. Len(batch[w].events) /\ Len(batch[w].events) \in Nat
          /\ s \in Sessions
      BY <1>2, <3>0, CurrentEvent DEF Behind
    <3>2. CASE Resolve(w)
      BY <1>2, <3>2 DEF Resolve, Advance, Goto, TypeOK, Upserting, AfterUpsert
    <3>3. CASE BeginUpsert(w)
      BY <3>1, <3>3 DEF BeginUpsert, Goto, TypeOK, Behind, Tidy
    <3>4. CASE UpsertWrite(w)
      <4>1. pc[w] = "write" /\ sessions' = sessions
        BY <3>4 DEF UpsertWrite, store
      <4>2. CASE s = Session(w)
        <5>1. staged'[w][s] = Written(w) /\ Exists(Written(w))
          BY <3>1, <3>4, <4>1, <4>2, NoInsertIsLost DEF UpsertWrite, TypeOK
        <5>2. View(w, s)' = Written(w)
          BY <5>1 DEF View
        <5>3. i < pos[w] \/ i = pos[w]
          BY <3>0, <3>1, <3>4 DEF Behind, UpsertWrite, Advance, LastEvent, Goto, TypeOK
        <5>4. CASE i = pos[w]
          <6>1. Event(w).ended
            BY <1>2, <3>0, <5>4 DEF Event
          <6>2. \A row \in Row, t \in Nat : EndByClient(row, t).state = "ended"
            BY DEF EndByClient, Row
          <6>3. Written(w) = EndByClient(IF found[w] THEN Ticked(w) ELSE Inserted(w), at[w])
            BY <4>1, <6>1, NoInsertIsLost DEF Written
          <6>4. (IF found[w] THEN Ticked(w) ELSE Inserted(w)) \in Row /\ at[w] \in Nat
            BY <4>1, WrittenIsRow DEF TypeOK
          <6>5. Written(w).state = "ended"
            BY <6>2, <6>3, <6>4
          <6> QED
            BY <5>2, <6>5
        <5>5. CASE i < pos[w]
          <6>1. View(w, s).state = "ended"
            BY <2>1, <3>0, <3>1, <4>1, <5>5 DEF Behind, Upserting
          <6>2. Written(w).state \in {View(w, s).state, "ended"}
            BY <4>1, <4>2, <5>1, <6>1, WrittenRow DEF Exists
          <6> QED
            BY <5>2, <6>1, <6>2
        <5> QED
          BY <5>3, <5>4, <5>5
      <4>3. CASE s # Session(w)
        <5>1. i # pos[w]
          BY <1>2, <3>0, <4>3 DEF Session, Event
        <5>2. i \in Behind(w, {"read", "write"})
          BY <3>0, <3>1, <3>4, <5>1 DEF Behind, UpsertWrite, Advance, LastEvent, Goto, TypeOK
        <5>3. staged'[w][s] = staged[w][s]
          BY <3>1, <3>4, <4>3 DEF UpsertWrite, TypeOK
        <5> QED
          BY <2>1, <3>0, <4>1, <5>2, <5>3, EndedViewsStay DEF Upserting
      <4> QED
        BY <4>2, <4>3
    <3>5. CASE CommitUpsert(w)
      <4>1. i \in Behind(w, {"read", "write"}) /\ pc[w] = "commit"
        BY <3>1, <3>5 DEF CommitUpsert, Behind
      <4>2. View(w, s)' = View(w, s)
        BY <3>1, <3>5 DEF CommitUpsert, TypeOK, View, Exists, NoRow
      <4> QED
        BY <2>1, <3>0, <4>1, <4>2 DEF Upserting
    <3>6. ASSUME staged' = staged, pc[w] \in Upserting \cup AfterUpsert,
                 i \in Behind(w, {"read", "write"})
          PROVE  View(w, s)'.state = "ended"
      BY <2>1, <3>0, <3>6, EndedViewsStay
    <3>7. CASE UpsertRead(w)
      BY <3>0, <3>1, <3>6, <3>7 DEF UpsertRead, Goto, TypeOK, Behind, tx, Upserting
    <3>8. CASE SetSampleRate(w) \/ AppendBoundaries(w) \/ BeginAppend(w) \/ Insert(w)
      <4>1. staged' = staged /\ pc[w] \in AfterUpsert
        BY <3>8 DEF SetSampleRate, AppendBoundaries, BeginAppend, Insert, tx, AfterUpsert
      <4>2. i \in Behind(w, {"read", "write"})
        BY <3>1, <4>1 DEF Behind, AfterUpsert
      <4> QED
        BY <3>6, <4>1, <4>2
    <3>9. CASE CommitAppend(w)
      BY <1>2, <3>9 DEF CommitAppend, Forget, Goto, TypeOK, Upserting, AfterUpsert
    <3> QED
      BY <2>4, <3>2, <3>3, <3>4, <3>5, <3>7, <3>8, <3>9 DEF Serve
  <2> QED
    BY <2>2, <2>3, <2>4, WhoMoves
<1> QED
  BY <1>1, <1>2 DEF Ends, View

\* The lookup of a retried event sees all there is to see.
LEMMA KeysStep ==
  ASSUME Store = "sqlite", IInv, Numbered, OneWriter, Keys, [Next]_vars
  PROVE  Keys'
<1> USE DEF IInv
<1>1. ASSUME NEW v \in Workers, NEW w \in Workers, v # w, CommitAppend(v)
      PROVE  pending'[w] = {}
  <2>1. pc[w] \notin {"classify", "commitAppend"}
    BY <1>1 DEF OneWriter, CommitAppend
  <2>2. pending[w] = {} /\ ~Insert(w)
    BY <2>1 DEF Numbered, Insert
  <2> QED
    BY <2>2, WhoInserts
<1>2. KeyedOnce(events')
  BY WhoStores DEF Keys
<1>3. ASSUME NEW w \in Workers
      PROVE  KeyedOnce(events' \cup pending'[w])
  <2>1. CASE UNCHANGED events /\ pending'[w] \in {pending[w], {}}
    BY <1>2, <2>1 DEF Keys
  <2>2. CASE UNCHANGED events /\ Insert(w) /\ pending'[w] = pending[w] \cup {EventRow(w)}
    <3>1. KeyedOnce(events \cup pending[w])
      BY DEF Keys
    <3>2. ASSUME NEW d \in events \cup pending[w], d.session = EventRow(w).session,
                 d.seqno = EventRow(w).seqno, d.seqno # NoSeqno,
                 d.status = "accepted"
          PROVE  EventRow(w).status # "accepted"
      BY <3>2 DEF EventRow, Delivery, Visible
    <3> QED
      BY <2>2, <3>1, <3>2 DEF KeyedOnce
  <2>3. ASSUME NEW v \in Workers, CommitAppend(v), events' = events \cup pending[v]
        PROVE  KeyedOnce(events' \cup pending'[w])
    <3>1. pending'[w] = {}
      <4>1. CASE v = w
        BY <2>3, <4>1 DEF CommitAppend, TypeOK
      <4> QED
        BY <1>1, <2>3, <4>1
    <3> QED
      BY <1>2, <3>1
  <2> QED
    BY <2>1, <2>2, <2>3, WhoStores, WhoInserts
<1> QED
  BY <1>2, <1>3 DEF Keys

\* The sequences of a part of a batch are finitely many.
LEMMA SequencesAreFinite ==
  ASSUME TypeOK, NEW w \in Workers, pc[w] # "idle", NEW s,
         NEW I, I \subseteq 1 .. Len(batch[w].events)
  PROVE  IsFiniteSet(SequencesOf(w, s, I))
<1>1. /\ firstSeq[w] \in Nat /\ Len(batch[w].events) \in Nat
      /\ firstSeq[w] + Len(batch[w].events) \in Nat
  BY CurrentEvent DEF TypeOK
<1>2. \A n \in SequencesOf(w, s, I) : n \in Nat /\ n <= firstSeq[w] + Len(batch[w].events)
  BY <1>1 DEF SequencesOf
<1> QED
  BY <1>1, <1>2, FS_BoundedSetOfNaturals

\* Only the commit of an upsert adds to what a count has to cover.
LEMMA WhatIsCovered ==
  ASSUME IInv, Numbered, [Next]_vars, NEW s \in Sessions
  PROVE  \/ Covered(s)' \subseteq Covered(s)
         \/ \E w \in Workers : CommitUpsert(w) /\ Covered(s)' \subseteq
              Covered(s) \cup SequencesOf(w, s, 1 .. Len(batch[w].events))
<1> USE DEF IInv
<1>1. ASSUME NEW e \in events', e.session = s
      PROVE  e.seq \in Covered(s)
  <2>1. CASE e \in events
    BY <1>1, <2>1 DEF Covered
  <2>2. ASSUME NEW w \in Workers, CommitAppend(w), e \in pending[w]
        PROVE  e.seq \in Covered(s)
    <3>1. pc[w] \in AfterUpsert
      BY <2>2 DEF CommitAppend, AfterUpsert
    <3>2. PICK i \in 1 .. Len(batch[w].events) : RecordOf(e, w, i)
      BY <2>2 DEF Numbered, Behind
    <3>3. e.seq \in SequencesOf(w, s, 1 .. Len(batch[w].events))
      BY <1>1, <3>2 DEF RecordOf, SequencesOf
    <3> QED
      BY <3>1, <3>3 DEF Covered
  <2> QED
    BY <1>1, <2>1, <2>2, WhoStores
<1>2. ASSUME NEW w \in Workers, pc'[w] \in AfterUpsert
      PROVE  /\ pc[w] \in AfterUpsert \/ CommitUpsert(w)
             /\ SequencesOf(w, s, 1 .. Len(batch[w].events))'
                  = SequencesOf(w, s, 1 .. Len(batch[w].events))
  <2>1. pc'[w] # "idle" /\ pc'[w] # "resolve"
    BY <1>2 DEF AfterUpsert
  <2>2. batch'[w] = batch[w] /\ firstSeq'[w] = firstSeq[w]
    BY <2>1, WhoIsUnderWay DEF Receive, Goto, TypeOK
  <2>3. pc[w] \in AfterUpsert \/ CommitUpsert(w)
    BY <1>2, WhoMoves, ZenonT(40) DEF Same, Cleared, Receive, Serve, Resolve, BeginUpsert, UpsertRead,
       UpsertWrite, SetSampleRate, AppendBoundaries, BeginAppend, Insert, CommitAppend,
       Forget, Advance, Goto, TypeOK, AfterUpsert
  <2> QED
    BY <2>2, <2>3 DEF SequencesOf
<1>3. ASSUME NEW v \in Workers, NEW w \in Workers, CommitUpsert(v), CommitUpsert(w)
      PROVE  v = w
  BY <1>3 DEF CommitUpsert, Goto, TypeOK
<1>4. CASE \A w \in Workers : ~CommitUpsert(w)
  BY <1>1, <1>2, <1>4 DEF Covered
<1>5. ASSUME NEW w \in Workers, CommitUpsert(w)
      PROVE  Covered(s)' \subseteq
               Covered(s) \cup SequencesOf(w, s, 1 .. Len(batch[w].events))
  <2> SUFFICES ASSUME NEW n \in Covered(s)'
               PROVE  n \in Covered(s) \cup SequencesOf(w, s, 1 .. Len(batch[w].events))
    OBVIOUS
  <2>1. CASE \E e \in events' : e.session = s /\ n = e.seq
    BY <1>1, <2>1
  <2>2. ASSUME NEW v \in Workers, pc'[v] \in AfterUpsert,
               n \in SequencesOf(v, s, 1 .. Len(batch[v].events))'
        PROVE  n \in Covered(s) \cup SequencesOf(w, s, 1 .. Len(batch[w].events))
    <3>1. n \in SequencesOf(v, s, 1 .. Len(batch[v].events))
      BY <1>2, <2>2
    <3>2. pc[v] \in AfterUpsert \/ v = w
      BY <1>2, <1>3, <1>5, <2>2
    <3> QED
      BY <3>1, <3>2 DEF Covered
  <2> QED
    BY <2>1, <2>2 DEF Covered
<1> QED
  BY <1>4, <1>5

\* A smaller set is covered as well.
LEMMA SmallerIsCovered ==
  ASSUME NEW S, IsFiniteSet(S), NEW n \in Nat, n >= Cardinality(S), NEW T \in SUBSET S
  PROVE  IsFiniteSet(T) /\ n >= Cardinality(T)
<1>1. /\ IsFiniteSet(T) /\ Cardinality(T) <= Cardinality(S)
      /\ Cardinality(T) \in Nat /\ Cardinality(S) \in Nat
  BY FS_Subset, FS_CardinalityType
<1> QED
  BY <1>1

\* Every event is counted before it is stored.
LEMMA CountsStep ==
  ASSUME Store = "sqlite", IInv, Numbered, OneWriter, Counts, [Next]_vars
  PROVE  Counts'
<1> USE DEF IInv
<1>0. /\ TypeOK' /\ \A s \in Sessions : sessions[s].count \in Nat /\ sessions'[s].count \in Nat
  BY TypeStep DEF TypeOK, Row
<1>1. \A w \in Workers, s \in Sessions : View(w, s).count \in Nat /\ View(w, s)'.count \in Nat
  <2>1. \A w \in Workers, s \in Sessions : View(w, s) \in Row /\ View(w, s)' \in Row
    BY <1>0 DEF TypeOK, View
  <2> QED
    BY <2>1 DEF Row
<1>2. ASSUME NEW s \in Sessions
      PROVE  sessions'[s].count >= sessions[s].count
  <2>1. CASE Exists(sessions[s])
    BY <2>1, SessionsFollow DEF Follows
  <2>2. CASE ~Exists(sessions[s])
    BY <1>0, <2>2, AbsentSessions
  <2> QED
    BY <2>1, <2>2
<1>3. ASSUME NEW s \in Sessions
      PROVE  IsFiniteSet(Covered(s)') /\ sessions'[s].count >= Cardinality(Covered(s)')
  <2>1. CASE Covered(s)' \subseteq Covered(s)
    <3>1. IsFiniteSet(Covered(s)') /\ sessions[s].count >= Cardinality(Covered(s)')
      BY <1>0, <2>1, SmallerIsCovered DEF Counts
    <3>2. Cardinality(Covered(s)') \in Nat
      BY <3>1, FS_CardinalityType
    <3> QED
      BY <1>0, <1>2, <3>1, <3>2
  <2>2. ASSUME NEW w \in Workers, CommitUpsert(w),
               Covered(s)' \subseteq Covered(s) \cup SequencesOf(w, s, 1 .. Len(batch[w].events))
        PROVE  IsFiniteSet(Covered(s)') /\ sessions'[s].count >= Cardinality(Covered(s)')
    <3>1. pc[w] = "commit" /\ sessions'[s] = View(w, s)
      BY <2>2 DEF CommitUpsert
    <3>2. Behind(w, {"read", "write"}) = 1 .. Len(batch[w].events)
      BY <3>1 DEF Behind
    <3>3. View(w, s).count >= Cardinality(Covered(s) \cup SequencesOf(w, s, 1 .. Len(batch[w].events)))
      BY <3>1, <3>2 DEF Counts, Counted, Upserting
    <3>4. IsFiniteSet(Covered(s) \cup SequencesOf(w, s, 1 .. Len(batch[w].events)))
      BY <3>1, SequencesAreFinite, FS_Union DEF Counts
    <3> QED
      BY <1>1, <2>2, <3>1, <3>3, <3>4, SmallerIsCovered
  <2> QED
    BY <2>1, <2>2, WhatIsCovered
<1>4. ASSUME NEW w \in Workers, pc'[w] \in Upserting, NEW s \in Sessions
      PROVE  View(w, s)'.count >= Cardinality(Covered(s)' \cup Counted(w, s)')
  <2>1. ~CommitUpsert(w) /\ (writer = w => \A v \in Workers : ~CommitUpsert(v))
    BY <1>4 DEF CommitUpsert, Goto, TypeOK, OneWriter, Upserting
  <2>2. ASSUME writer = w
        PROVE  Covered(s)' \subseteq Covered(s)
    BY <2>1, <2>2, WhatIsCovered
  <2>3. ASSUME pc[w] \in Upserting, Counted(w, s)' \subseteq Counted(w, s), View(w, s)' = View(w, s)
        PROVE  View(w, s)'.count >= Cardinality(Covered(s)' \cup Counted(w, s)')
    <3>1. Covered(s)' \cup Counted(w, s)' \subseteq Covered(s) \cup Counted(w, s)
      BY <2>2, <2>3 DEF OneWriter
    <3>2. IsFiniteSet(Covered(s) \cup Counted(w, s))
      BY <2>3, SequencesAreFinite, FS_Union DEF Counts, Counted, Behind, Upserting
    <3>3. View(w, s).count >= Cardinality(Covered(s) \cup Counted(w, s))
      BY <2>3 DEF Counts
    <3> QED
      BY <1>1, <2>3, <3>1, <3>2, <3>3, SmallerIsCovered
  <2>4. CASE Same(w)
    <3>1. pc[w] \in Upserting /\ writer = w
      BY <1>4, <2>4 DEF Same, OneWriter
    <3>2. ~SetSampleRate(w)
      BY <3>1 DEF SetSampleRate, Upserting
    <3>3. View(w, s)' = View(w, s)
      BY <2>1, <2>4, <3>1, <3>2, LockHolds DEF Same, View
    <3>4. Counted(w, s)' = Counted(w, s)
      BY <2>4 DEF Same, Counted, SequencesOf, Behind
    <3> QED
      BY <2>3, <3>1, <3>3, <3>4
  <2>5. CASE Cleared(w) \/ \E b \in Batches : Receive(w, b)
    BY <1>4, <2>5 DEF Cleared, Receive, Goto, TypeOK, Upserting
  <2>6. CASE BeginUpsert(w)
    <3>1. /\ pc'[w] = "read" /\ pos'[w] = 1 /\ sessions' = sessions /\ staged' = staged
          /\ \A x \in Sessions : ~Exists(staged[w][x])
      BY <2>6 DEF BeginUpsert, Goto, TypeOK, store, Tidy
    <3>2. Counted(w, s)' = {}
      BY <3>1 DEF Counted, SequencesOf, Behind
    <3>3. View(w, s)' = sessions'[s]
      BY <3>1 DEF View
    <3> QED
      BY <1>3, <3>2, <3>3
  <2>7. CASE UpsertRead(w)
    <3>1. /\ pc[w] \in Upserting /\ sessions' = sessions /\ staged' = staged
          /\ batch' = batch /\ firstSeq' = firstSeq /\ pos' = pos
      BY <2>7 DEF UpsertRead, Upserting, store, tx
    <3>2. Counted(w, s)' \subseteq Counted(w, s)
      BY <1>4, <2>7, <3>1 DEF Counted, SequencesOf, Behind, UpsertRead, Goto, TypeOK
    <3>3. View(w, s)' = View(w, s)
      BY <3>1 DEF View
    <3> QED
      BY <2>3, <3>1, <3>2, <3>3
  <2>8. CASE UpsertWrite(w)
    <3>1. /\ pc[w] = "write" /\ sessions' = sessions
          /\ batch' = batch /\ firstSeq' = firstSeq
          /\ pos[w] \in 1 .. Len(batch[w].events) /\ Len(batch[w].events) \in Nat
          /\ Session(w) \in Sessions
      BY <2>8, CurrentEvent DEF UpsertWrite, store
    <3>2. \A i \in Behind(w, {"read", "write"})' :
            i \in Behind(w, {"read", "write"}) \/ i = pos[w]
      BY <2>8, <3>1 DEF UpsertWrite, Behind, Advance, LastEvent, Goto, TypeOK
    <3>3. CASE s # Session(w)
      <4>1. View(w, s)' = View(w, s)
        BY <2>8, <3>1, <3>3 DEF UpsertWrite, TypeOK, View
      <4>2. Counted(w, s)' \subseteq Counted(w, s)
        BY <3>1, <3>2, <3>3 DEF Counted, SequencesOf, Session, Event
      <4> QED
        BY <2>3, <3>1, <4>1, <4>2 DEF Upserting
    <3>4. CASE s = Session(w)
      <4> DEFINE old == Covered(s) \cup Counted(w, s)
                 new == firstSeq[w] + pos[w] - 1
      <4>1. Covered(s)' \cup Counted(w, s)' \subseteq old \cup {new}
        <5>1. Counted(w, s)' \subseteq Counted(w, s) \cup {new}
          BY <3>1, <3>2 DEF Counted, SequencesOf
        <5>2. Covered(s)' \subseteq Covered(s)
          BY <2>2, <3>1 DEF OneWriter, Upserting
        <5> QED
          BY <5>1, <5>2
      <4>2. IsFiniteSet(old)
        BY <3>1, SequencesAreFinite, FS_Union DEF Counts, Counted, Behind
      <4>3. View(w, s).count >= Cardinality(old)
        BY <3>1 DEF Counts, Upserting
      <4> HIDE DEF old, new
      <4>4. /\ IsFiniteSet(old \cup {new}) /\ Cardinality(old) \in Nat
            /\ Cardinality(old \cup {new}) \in Nat
            /\ Cardinality(old \cup {new}) <= Cardinality(old) + 1
        <5>1. IsFiniteSet(old \cup {new}) /\ Cardinality(old \cup {new}) =
                IF new \in old THEN Cardinality(old) ELSE Cardinality(old) + 1
          BY <4>2, FS_AddElement
        <5>2. Cardinality(old) \in Nat
          BY <4>2, FS_CardinalityType
        <5> QED
          BY <5>1, <5>2
      <4>5. View(w, s)' = Written(w) /\ Exists(Written(w))
        <5>1. Exists(Written(w)) /\ staged'[w][s] = Written(w)
          BY <2>8, <3>1, <3>4, NoInsertIsLost DEF UpsertWrite, TypeOK
        <5> QED
          BY <5>1 DEF View
      <4>6. Written(w).count = View(w, s).count + 1
        <5>1. CASE Written(w).count = View(w, s).count + 1
          BY <5>1
        <5>2. CASE ~Exists(View(w, s)) /\ View(w, s) = sessions[s] /\ Written(w).count = 1
          BY <5>2, <3>1, AbsentSessions
        <5> QED
          BY <3>1, <3>4, <4>5, <5>1, <5>2, WrittenRow
      <4>7. View(w, s)'.count >= Cardinality(old \cup {new})
        BY <1>1, <4>3, <4>4, <4>5, <4>6
      <4> QED
        BY <1>1, <4>1, <4>4, <4>7, SmallerIsCovered
    <3> QED
      BY <3>3, <3>4
  <2>9. ASSUME Serve(w), ~BeginUpsert(w), ~UpsertRead(w), ~UpsertWrite(w)
        PROVE  FALSE
    BY <1>4, <2>9 DEF Serve, Resolve, CommitUpsert, SetSampleRate, AppendBoundaries,
       BeginAppend, Insert, CommitAppend, Forget, Advance, Goto, TypeOK, Upserting
  <2> QED
    BY <2>4, <2>5, <2>6, <2>7, <2>8, <2>9, WhoMoves
<1> QED
  BY <1>3, <1>4 DEF Counts

\* An empty SQLite store satisfies its invariant.
LEMMA SqliteInvariantInit == Init => SInv
<1> SUFFICES ASSUME Init
             PROVE  SInv
  OBVIOUS
<1>1. LInv
  BY LedgerInvariantInit
<1>2. /\ \A w \in Workers : pc[w] = "idle" /\ pending[w] = {}
      /\ events = {} /\ \A s \in Sessions : sessions[s].count \in Nat
  BY <1>1 DEF Init, LInv, IInv, TypeOK, Row
<1>3. OneWriter /\ Ends /\ Keys
  BY <1>2 DEF OneWriter, Ends, Keys, KeyedOnce, Upserting, AfterUpsert
<1>4. \A s \in Sessions : Covered(s) = {}
  BY <1>2 DEF Covered, AfterUpsert
<1>5. Counts
  BY <1>2, <1>4, FS_EmptySet DEF Counts, Upserting
<1> QED
  BY <1>1, <1>3, <1>5 DEF SInv

\* On SQLite, whose transactions run one after the other, what a request has
\* read, counted, ended and looked up still holds when it commits.
THEOREM SqliteInvariance ==
  ASSUME Store = "sqlite"
  PROVE  Spec => []SInv
<1>1. SInv /\ [Next]_vars => SInv'
  BY LedgerInvariantStep, OneWriterStep, CountsStep, EndsStep, KeysStep DEF SInv, LInv
<1> QED
  BY <1>1, SqliteInvariantInit, PTL DEF Spec

\* On SQLite a stored session_ended event has ended its session, even in the
\* batch that races another one for the insert of the session.
THEOREM ClientEndsAreHonoured ==
  ASSUME Store = "sqlite"
  PROVE  Spec => []ClientEndHonoured
<1>1. SInv => ClientEndHonoured
  BY DEF SInv, Ends, ClientEndHonoured
<1> QED
  BY <1>1, SqliteInvariance, PTL

\* On SQLite no interleaving, failure or restart stores an event its session
\* has not counted.
THEOREM CountsCoverEvents ==
  ASSUME Store = "sqlite"
  PROVE  Spec => []CountCoversEvents
<1>1. ASSUME SInv, NEW s \in Sessions
      PROVE  sessions[s].count >= Cardinality({e \in events : e.session = s})
  <2> DEFINE own == {e \in events : e.session = s}
             f == [e \in own |-> e.seq]
  <2>1. IsFiniteSet(Covered(s)) /\ sessions[s].count >= Cardinality(Covered(s))
    BY <1>1 DEF SInv, Counts
  <2>2. \A e \in own : e.seq \in Covered(s)
    BY DEF Covered
  <2>3. \A d, e \in own : d.seq = e.seq => d = e
    BY <1>1 DEF SInv, LInv, Numbered
  <2>4. f \in Injection(own, Covered(s))
    BY <2>2, <2>3 DEF Injection, IsInjective
  <2>5. IsFiniteSet(own) /\ Cardinality(own) <= Cardinality(Covered(s))
    BY <2>1, <2>4, FS_Injection
  <2>6. Cardinality(own) \in Nat /\ Cardinality(Covered(s)) \in Nat
    BY <2>1, <2>5, FS_CardinalityType
  <2>7. sessions[s].count \in Nat
    BY <1>1 DEF SInv, LInv, IInv, TypeOK, Row
  <2> QED
    BY <2>1, <2>5, <2>6, <2>7
<1>2. SInv => CountCoversEvents
  BY <1>1 DEF CountCoversEvents
<1> QED
  BY <1>2, SqliteInvariance, PTL

\* On SQLite a retried batch, in flight beside its first attempt or after a
\* lost answer, is never accepted a second time.
THEOREM KeysAreAcceptedOnce ==
  ASSUME Store = "sqlite"
  PROVE  Spec => []OneAcceptedPerKey
<1>1. SInv => OneAcceptedPerKey
  BY DEF SInv, Keys, KeyedOnce, OneAcceptedPerKey
<1> QED
  BY <1>1, SqliteInvariance, PTL
=============================================================================
