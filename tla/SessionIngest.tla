--------------------------- MODULE SessionIngest ---------------------------
(***************************************************************************)
(* The ingest path of the m-trace API: RegisterPlaybackEventBatch run by   *)
(* concurrent request workers against one durable session/event store,     *)
(* together with the session sweeper, the clock, failing requests and      *)
(* process restarts.                                                       *)
(*                                                                         *)
(* One step is one store access of the use case.  The use case is not one  *)
(* transaction: sessions are upserted, sample rates set, boundaries        *)
(* written and events appended in four separate transactions, and the      *)
(* lookup that chooses the correlation id is outside all of them.          *)
(*                                                                         *)
(* Store = "sqlite": BEGIN IMMEDIATE, one write transaction at a time, one *)
(* process.  Store = "postgres": READ COMMITTED with row locks, so that    *)
(* the transactions of different workers interleave statement by statement.*)
(*                                                                         *)
(* A definition under a comment in parentheses is what its neighbour would *)
(* be with one plausible mistake; no action uses it.                       *)
(***************************************************************************)
EXTENDS Integers, Sequences, FiniteSets

CONSTANTS
  Workers,        \* request handlers that may be in flight together
  NoWorker,       \* "nobody holds the write lock"
  Sessions,       \* the session ids of one project
  LegacySessions, \* sessions stored before correlation ids existed
  Batches,        \* the batches a client may send
  Store,          \* "sqlite" or "postgres"
  FullRate,       \* SampleRateFull, the column default
  Tolerance,      \* SampleRateDriftTolerancePPM
  StalledAfter, EndedAfter,            \* sweeper thresholds
  MaxTime, MaxRequests, MaxFailures    \* bounds of the model

NoCid   == 0      \* the empty correlation id
NoTime  == -1     \* ended_at IS NULL
NoSeqno == -1     \* sequence_number IS NULL

EventInput == [session : Sessions, ended : BOOLEAN,
               seqno : Nat \cup {NoSeqno}, rate : 1 .. FullRate]
Batch == [events : Seq(EventInput), boundaries : SUBSET Sessions]

ASSUME WorkerAssumption  == NoWorker \notin Workers
ASSUME SessionAssumption == LegacySessions \subseteq Sessions
ASSUME StoreAssumption   == Store \in {"sqlite", "postgres"}
ASSUME BatchAssumption   ==
  \A b \in Batches :
    /\ b \in Batch /\ Len(b.events) > 0
    /\ \A s \in b.boundaries : \E i \in 1 .. Len(b.events) : b.events[i].session = s
ASSUME NumberAssumption  ==
  /\ FullRate \in Nat \ {0} /\ Tolerance \in Nat
  /\ StalledAfter \in Nat /\ EndedAfter \in Nat
  /\ MaxTime \in Nat /\ MaxRequests \in Nat /\ MaxFailures \in Nat

VARIABLES
  sessions,    \* stream_sessions, committed
  events,      \* playback_events, committed
  boundaries,  \* stream_session_boundaries: sessions that have one
  staged,      \* rows an open upsert transaction has written (and locked)
  pending,     \* rows an open append transaction has inserted
  writer,      \* sqlite: the worker whose transaction is open
  nextSeq,     \* IngestSequencer: the value Next() returns
  nextCid,     \* newCorrelationID(): never returns a value twice
  drift,       \* mtrace_sample_rate_drift_total
  now,         \* the wall clock
  sweepAt,     \* the time a running sweep captured, NoTime when none runs
  pc, batch, pos, at, firstSeq, cand, found,   \* per request worker
  requests, failures                           \* bounds

store    == <<sessions, events, boundaries>>
tx       == <<staged, pending, writer>>
counters == <<nextSeq, nextCid, drift>>
clock    == <<now, sweepAt>>
worker   == <<pc, batch, pos, at, firstSeq, cand, found>>
bounds   == <<requests, failures>>
vars     == <<store, tx, counters, clock, worker, bounds>>

(***************************************************************************)
(* Rows                                                                    *)
(***************************************************************************)
NoRow == [state |-> "none", started |-> 0, last |-> 0, ended |-> NoTime,
          source |-> "none", count |-> 0, cid |-> NoCid, rate |-> FullRate]

Exists(row) == row.state # "none"

NewRow(cid, t) ==
  [state |-> "active", started |-> t, last |-> t, ended |-> NoTime,
   source |-> "none", count |-> 1, cid |-> cid, rate |-> FullRate]

\* markSessionEndedSQL: only a session that has not ended yet is ended.
EndByClient(row, t) ==
  IF row.state = "ended" THEN row
  ELSE [row EXCEPT !.state = "ended", !.ended = t, !.source = "client"]

\* (late events not counted)
TickOpenOnly(row, t) ==
  [row EXCEPT !.last = t, !.count = IF row.state = "ended" THEN @ ELSE @ + 1]

\* updateSessionTickSQL: every event counts, late ones too.
Tick(row, t) == [row EXCEPT !.last = t, !.count = @ + 1]

\* Sweep on one row; both statements run in the same pass.
SweepStalled(row, t) ==
  IF row.state = "active" /\ t - row.last > StalledAfter
  THEN [row EXCEPT !.state = "stalled"] ELSE row

\* (any idle row / only rows the first statement left active)
SweepEndedAnyState(row, t) ==
  IF Exists(row) /\ t - row.last > EndedAfter
  THEN [row EXCEPT !.state = "ended", !.ended = t, !.source = "sweeper"]
  ELSE row
SweepEndedActive(row, t) ==
  IF row.state = "active" /\ t - row.last > EndedAfter
  THEN [row EXCEPT !.state = "ended", !.ended = t, !.source = "sweeper"]
  ELSE row

SweepEnded(row, t) ==
  IF row.state = "stalled" /\ t - row.last > EndedAfter
  THEN [row EXCEPT !.state = "ended", !.ended = t, !.source = "sweeper"]
  ELSE row

SweepRow(row, t) == SweepEnded(SweepStalled(row, t), t)

(***************************************************************************)
(* The initial state: an empty store, but for the legacy sessions.         *)
(***************************************************************************)
NoBatch == [events |-> <<>>, boundaries |-> {}]

Init ==
  /\ sessions = [s \in Sessions |->
                   IF s \in LegacySessions THEN NewRow(NoCid, 0) ELSE NoRow]
  /\ events = {} /\ boundaries = {}
  /\ staged = [w \in Workers |-> [s \in Sessions |-> NoRow]]
  /\ pending = [w \in Workers |-> {}]
  /\ writer = NoWorker
  /\ nextSeq = 1 /\ nextCid = NoCid + 1 /\ drift = 0
  /\ now = 0 /\ sweepAt = NoTime
  /\ pc = [w \in Workers |-> "idle"]
  /\ batch = [w \in Workers |-> NoBatch]
  /\ pos = [w \in Workers |-> 1]
  /\ at = [w \in Workers |-> 0]
  /\ firstSeq = [w \in Workers |-> 0]
  /\ cand = [w \in Workers |-> [s \in Sessions |-> NoCid]]
  /\ found = [w \in Workers |-> FALSE]
  /\ requests = 0 /\ failures = 0

(***************************************************************************)
(* What a worker sees and what it has to wait for                          *)
(***************************************************************************)
Event(w) == batch[w].events[pos[w]]
Session(w) == Event(w).session
LastEvent(w) == pos[w] = Len(batch[w].events)

\* Its own writes first, otherwise what is committed.
View(w, s) ==
  IF Exists(staged[w][s]) THEN staged[w][s] ELSE sessions[s]

\* A row another open transaction has written is locked.
Unlocked(w, s) == \A v \in Workers \ {w} : ~Exists(staged[v][s])

\* INSERT .. ON CONFLICT DO NOTHING waits for an uncommitted insert only;
\* the UPDATE of a tick waits for any uncommitted write of the row.
MayWrite(w) ==
  \/ Unlocked(w, Session(w))
  \/ ~found[w] /\ Exists(sessions[Session(w)])

WaitsFor(w, v) ==
  /\ v # w /\ pc[w] = "write" /\ ~MayWrite(w)
  /\ Exists(staged[v][Session(w)])

\* A set of transactions each waiting for another one of the set.
Deadlocked(w) ==
  \E S \in SUBSET Workers :
    /\ w \in S
    /\ \A x \in S : \E y \in S : WaitsFor(x, y)

WriteLockFree == Store = "sqlite" => writer = NoWorker
BeginTx(w)  == WriteLockFree /\ writer' = IF Store = "sqlite" THEN w ELSE writer
EndTx       == writer' = NoWorker

Goto(w, label) == pc' = [pc EXCEPT ![w] = label]

\* Next event of the batch, or the next stage from its first event.
Advance(w, again, next) ==
  IF LastEvent(w)
  THEN Goto(w, next) /\ pos' = [pos EXCEPT ![w] = 1]
  ELSE Goto(w, again) /\ pos' = [pos EXCEPT ![w] = @ + 1]

\* The request is over; nothing of it stays in memory.
Forget(w) ==
  /\ Goto(w, "idle")
  /\ batch' = [batch EXCEPT ![w] = NoBatch]
  /\ pos' = [pos EXCEPT ![w] = 1]
  /\ at' = [at EXCEPT ![w] = 0]
  /\ firstSeq' = [firstSeq EXCEPT ![w] = 0]
  /\ cand' = [cand EXCEPT ![w] = [s \in Sessions |-> NoCid]]
  /\ found' = [found EXCEPT ![w] = FALSE]

(***************************************************************************)
(* One request, store access by store access                               *)
(***************************************************************************)

\* authorizeAndAdmit passes and parseEvents reads the clock once, then draws
\* one ingest sequence per event.
Receive(w, b) ==
  /\ pc[w] = "idle" /\ requests < MaxRequests
  /\ requests' = requests + 1
  /\ Goto(w, "resolve")
  /\ batch' = [batch EXCEPT ![w] = b]
  /\ at' = [at EXCEPT ![w] = now]
  /\ firstSeq' = [firstSeq EXCEPT ![w] = nextSeq]
  /\ nextSeq' = nextSeq + Len(b.events)
  /\ UNCHANGED <<store, tx, clock, pos, cand, found, nextCid, drift, failures>>

\* A batch with an invalid event or boundary: rejected, but the sequences
\* drawn before the offending event are gone.
Reject(b) ==
  /\ requests < MaxRequests
  /\ requests' = requests + 1
  /\ \E k \in 1 .. Len(b.events) : nextSeq' = nextSeq + k
  /\ UNCHANGED <<store, tx, clock, worker, nextCid, drift, failures>>

\* resolveCorrelationIDs: the stored id, or a fresh one for a session that
\* is unknown or has none.
Resolve(w) ==
  LET s == Session(w) IN
  /\ pc[w] = "resolve"
  /\ \/ /\ cand[w][s] # NoCid
        /\ UNCHANGED <<cand, nextCid>>
     \/ /\ cand[w][s] = NoCid /\ sessions[s].cid # NoCid
        /\ cand' = [cand EXCEPT ![w][s] = sessions[s].cid]
        /\ UNCHANGED nextCid
     \/ /\ cand[w][s] = NoCid /\ sessions[s].cid = NoCid
        /\ cand' = [cand EXCEPT ![w][s] = nextCid]
        /\ nextCid' = nextCid + 1
  /\ Advance(w, "resolve", "begin")
  /\ UNCHANGED <<store, tx, clock, batch, at, firstSeq, found, nextSeq, drift,
                 bounds>>

BeginUpsert(w) ==
  /\ pc[w] = "begin" /\ BeginTx(w)
  /\ Goto(w, "read")
  /\ UNCHANGED <<store, staged, pending, counters, clock, batch, pos, at,
                 firstSeq, cand, found, bounds>>

\* readSessionTx.  Only whether there is a row matters later: its
\* correlation id is never written again.
UpsertRead(w) ==
  /\ pc[w] = "read"
  /\ found' = [found EXCEPT ![w] = Exists(View(w, Session(w)))]
  /\ Goto(w, "write")
  /\ UNCHANGED <<store, tx, counters, clock, batch, pos, at, firstSeq, cand,
                 bounds>>

\* (ON CONFLICT DO UPDATE instead)
LostInsertOverwrites(w) == FALSE

\* An insert that meets a row committed since the read does nothing.
LostInsert(w) == ~found[w] /\ Exists(View(w, Session(w)))

Inserted(w) == NewRow(cand[w][Session(w)], at[w])

Ticked(w) == Tick(View(w, Session(w)), at[w])

\* (session_ended is looked at for known sessions only)
WrittenEndOnTick(w) ==
  LET row == IF found[w] THEN Ticked(w) ELSE Inserted(w)
  IN IF LostInsert(w) THEN NoRow
     ELSE IF Event(w).ended /\ found[w] THEN EndByClient(row, at[w]) ELSE row

\* The row the current event leaves behind, NoRow when it writes none.
Written(w) ==
  LET row == IF found[w] THEN Ticked(w) ELSE Inserted(w)
  IN IF LostInsert(w) THEN NoRow
     ELSE IF Event(w).ended THEN EndByClient(row, at[w]) ELSE row

\* (the request goes on with the id it chose itself)
CanonicalIsCandidate(w) == cand[w][Session(w)]

\* The id handed back: of the row, unless that has none.
Canonical(w) ==
  LET row == View(w, Session(w))
  IN IF Exists(row) /\ row.cid # NoCid THEN row.cid ELSE cand[w][Session(w)]

UpsertWrite(w) ==
  LET s == Session(w) IN
  /\ pc[w] = "write" /\ MayWrite(w)
  /\ staged' = IF Exists(Written(w))
               THEN [staged EXCEPT ![w][s] = Written(w)] ELSE staged
  /\ cand' = [cand EXCEPT ![w][s] = Canonical(w)]
  /\ Advance(w, "read", "commit")
  /\ UNCHANGED <<store, pending, writer, counters, clock, batch, at, firstSeq,
                 found, bounds>>

\* (the transaction is never committed)
CommitUpsertForgotten(w) ==
  /\ pc[w] = "commit"
  /\ staged' = [staged EXCEPT ![w] = [s \in Sessions |-> NoRow]]
  /\ EndTx
  /\ Goto(w, "rate")
  /\ UNCHANGED <<store, pending, counters, clock, batch, pos, at, firstSeq,
                 cand, found, bounds>>

CommitUpsert(w) ==
  /\ pc[w] = "commit"
  /\ sessions' = [s \in Sessions |-> View(w, s)]
  /\ staged' = [staged EXCEPT ![w] = [s \in Sessions |-> NoRow]]
  /\ EndTx
  /\ Goto(w, "rate")
  /\ UNCHANGED <<events, boundaries, pending, counters, clock, batch, pos, at,
                 firstSeq, cand, found, bounds>>

\* (at the first event of the batch only)
FirstOfBatch(w) == pos[w] = 1

\* applySessionSampleRate looks at the first event of each session only.
FirstOfSession(w) ==
  \A i \in 1 .. pos[w] - 1 : batch[w].events[i].session # Session(w)

Deviates(a, b) == a - b > Tolerance \/ b - a > Tolerance

\* (a rate that is set is set anew)
SetSampleRateAnew(w) ==
  LET s == Session(w) IN
  /\ pc[w] = "rate"
  /\ \/ /\ ~FirstOfSession(w) \/ Event(w).rate = FullRate
        /\ UNCHANGED <<sessions, drift>>
     \/ /\ FirstOfSession(w) /\ Event(w).rate # FullRate
        /\ WriteLockFree /\ Unlocked(w, s)
        /\ sessions' = [sessions EXCEPT ![s].rate = Event(w).rate]
        /\ UNCHANGED drift
  /\ Advance(w, "rate", "boundaries")
  /\ UNCHANGED <<events, boundaries, tx, nextSeq, nextCid, clock, batch, at,
                 firstSeq, cand, found, bounds>>

SetSampleRate(w) ==
  LET s == Session(w) IN
  /\ pc[w] = "rate"
  /\ \/ /\ ~FirstOfSession(w) \/ Event(w).rate = FullRate
        /\ UNCHANGED <<sessions, drift>>
     \/ /\ FirstOfSession(w) /\ Event(w).rate # FullRate
        /\ sessions[s].rate = FullRate
        /\ WriteLockFree /\ Unlocked(w, s)
        /\ sessions' = [sessions EXCEPT ![s].rate = Event(w).rate]
        /\ UNCHANGED drift
     \/ /\ FirstOfSession(w) /\ Event(w).rate # FullRate
        /\ sessions[s].rate # FullRate
        /\ WriteLockFree
        /\ drift' = IF Deviates(sessions[s].rate, Event(w).rate)
                    THEN drift + 1 ELSE drift
        /\ UNCHANGED sessions
  /\ Advance(w, "rate", "boundaries")
  /\ UNCHANGED <<events, boundaries, tx, nextSeq, nextCid, clock, batch, at,
                 firstSeq, cand, found, bounds>>

AppendBoundaries(w) ==
  /\ pc[w] = "boundaries"
  /\ batch[w].boundaries # {} => WriteLockFree
  /\ boundaries' = boundaries \cup batch[w].boundaries
  /\ Goto(w, "append")
  /\ UNCHANGED <<sessions, events, tx, counters, clock, batch, pos, at,
                 firstSeq, cand, found, bounds>>

BeginAppend(w) ==
  /\ pc[w] = "append" /\ BeginTx(w)
  /\ Goto(w, "classify")
  /\ UNCHANGED <<store, staged, pending, counters, clock, batch, pos, at,
                 firstSeq, cand, found, bounds>>

\* classifyDelivery sees committed rows and its own inserts.
Delivery(e, visible) ==
  IF e.seqno # NoSeqno /\ \E r \in visible :
       r.session = e.session /\ r.seqno = e.seqno /\ r.status = "accepted"
  THEN "duplicate_suspected" ELSE "accepted"

\* (the lookup misses what the transaction itself inserted)
VisibleCommitted(w) == events

Visible(w) == events \cup pending[w]

\* The playback_events row the worker's current event becomes.
EventRow(w) ==
  LET e == Event(w) IN
  [seq |-> firstSeq[w] + pos[w] - 1, session |-> e.session,
   ended |-> e.ended, seqno |-> e.seqno, rate |-> e.rate,
   cid |-> cand[w][e.session],
   status |-> Delivery(e, Visible(w))]

Insert(w) ==
  /\ pc[w] = "classify"
  /\ pending' = [pending EXCEPT ![w] = @ \cup {EventRow(w)}]
  /\ Advance(w, "classify", "commitAppend")
  /\ UNCHANGED <<store, staged, writer, counters, clock, batch, at, firstSeq,
                 cand, found, bounds>>

\* Commit; the 202 follows without another store access.
CommitAppend(w) ==
  /\ pc[w] = "commitAppend"
  /\ events' = events \cup pending[w]
  /\ pending' = [pending EXCEPT ![w] = {}]
  /\ EndTx
  /\ Forget(w)
  /\ UNCHANGED <<sessions, boundaries, staged, counters, clock, bounds>>

(***************************************************************************)
(* What goes wrong                                                         *)
(***************************************************************************)

\* (no rollback on the error path: the row locks stay)
RollbackForgotten(w) == UNCHANGED tx

\* The deferred tx.Rollback().
Rollback(w) ==
  /\ staged' = [staged EXCEPT ![w] = [s \in Sessions |-> NoRow]]
  /\ pending' = [pending EXCEPT ![w] = {}]
  /\ writer' = IF writer = w THEN NoWorker ELSE writer

\* A store call returns an error or the client goes away: 5xx, and what
\* earlier transactions of the request committed stays.
Fail(w) ==
  /\ pc[w] # "idle" /\ failures < MaxFailures
  /\ failures' = failures + 1
  /\ Rollback(w) /\ Forget(w)
  /\ UNCHANGED <<store, counters, clock, requests>>

\* PostgreSQL aborts one transaction of a wait cycle: also a 5xx.
AbortDeadlock(w) ==
  /\ Deadlocked(w)
  /\ Rollback(w) /\ Forget(w)
  /\ UNCHANGED <<store, counters, clock, bounds>>

\* (the highest persisted sequence itself)
ReseedAtMax ==
  IF events = {} THEN nextSeq' = 1
  ELSE \E e \in events :
         (\A d \in events : d.seq <= e.seq) /\ nextSeq' = e.seq

\* NewIngestSequencer: Next() returns one more than the highest sequence
\* that is persisted.
Reseed ==
  IF events = {} THEN nextSeq' = 1
  ELSE \E e \in events :
         (\A d \in events : d.seq <= e.seq) /\ nextSeq' = e.seq + 1

\* The one process of a sqlite deployment stops and starts again.
Restart ==
  /\ Store = "sqlite" /\ failures < MaxFailures
  /\ failures' = failures + 1
  /\ staged' = [w \in Workers |-> [s \in Sessions |-> NoRow]]
  /\ pending' = [w \in Workers |-> {}]
  /\ writer' = NoWorker
  /\ Reseed
  /\ drift' = 0
  /\ sweepAt' = NoTime
  /\ pc' = [w \in Workers |-> "idle"]
  /\ batch' = [w \in Workers |-> NoBatch]
  /\ pos' = [w \in Workers |-> 1]
  /\ at' = [w \in Workers |-> 0]
  /\ firstSeq' = [w \in Workers |-> 0]
  /\ cand' = [w \in Workers |-> [s \in Sessions |-> NoCid]]
  /\ found' = [w \in Workers |-> FALSE]
  /\ UNCHANGED <<store, nextCid, now, requests>>

(***************************************************************************)
(* Sweeper and clock                                                       *)
(***************************************************************************)
StartSweep ==
  /\ sweepAt = NoTime
  /\ sweepAt' = now
  /\ UNCHANGED <<store, tx, counters, now, worker, bounds>>

\* Both statements in one transaction.  A row that is locked is waited for
\* and looked at again, so only rows that are free are changed.
RunSweep ==
  /\ sweepAt # NoTime /\ WriteLockFree
  /\ \A s \in Sessions :
       SweepRow(sessions[s], sweepAt) # sessions[s] =>
         \A w \in Workers : ~Exists(staged[w][s])
  /\ sessions' = [s \in Sessions |-> SweepRow(sessions[s], sweepAt)]
  /\ sweepAt' = NoTime
  /\ UNCHANGED <<events, boundaries, tx, counters, now, worker, bounds>>

\* The error is logged; the next tick tries again.
FailSweep ==
  /\ sweepAt # NoTime
  /\ sweepAt' = NoTime
  /\ UNCHANGED <<store, tx, counters, now, worker, bounds>>

Clock ==
  /\ now < MaxTime
  /\ now' = now + 1
  /\ UNCHANGED <<store, tx, counters, sweepAt, worker, bounds>>

Serve(w) ==
  \/ Resolve(w)
  \/ BeginUpsert(w) \/ UpsertRead(w) \/ UpsertWrite(w) \/ CommitUpsert(w)
  \/ SetSampleRate(w)
  \/ AppendBoundaries(w)
  \/ BeginAppend(w) \/ Insert(w) \/ CommitAppend(w)

Next ==
  \/ \E w \in Workers, b \in Batches : Receive(w, b)
  \/ \E b \in Batches : Reject(b)
  \/ \E w \in Workers : Serve(w)
  \/ \E w \in Workers : Fail(w)
  \/ \E w \in Workers : AbortDeadlock(w)
  \/ Restart
  \/ StartSweep \/ RunSweep \/ FailSweep
  \/ Clock

Spec == Init /\ [][Next]_vars

(***************************************************************************)
(* A goroutine that can run does run, PostgreSQL resolves deadlocks, time  *)
(* passes and the sweep ticker fires.  A sweep may fail, but not for ever: *)
(* hence strong fairness for its success.  A request needs no such favour: *)
(* with finitely many others the lock it waits for becomes free for good.  *)
(***************************************************************************)
Fairness ==
  /\ \A w \in Workers : WF_vars(Serve(w)) /\ WF_vars(AbortDeadlock(w))
  /\ WF_vars(Clock) /\ WF_vars(StartSweep) /\ SF_vars(RunSweep)

FairSpec == Spec /\ Fairness

(***************************************************************************)
(* Properties                                                              *)
(***************************************************************************)
Row == [state : {"none", "active", "stalled", "ended"},
        started : Nat, last : Nat, ended : Nat \cup {NoTime},
        source : {"none", "client", "sweeper"},
        count : Nat, cid : Nat, rate : 1 .. FullRate]

EventRecord == [seq : Nat, session : Sessions, ended : BOOLEAN,
                seqno : Nat \cup {NoSeqno}, rate : 1 .. FullRate, cid : Nat,
                status : {"accepted", "duplicate_suspected"}]

Stages == {"idle", "resolve", "begin", "read", "write", "commit", "rate",
           "boundaries", "append", "classify", "commitAppend"}

\* Type invariant of the ingest path.
TypeOK ==
  /\ sessions \in [Sessions -> Row]
  /\ events \in SUBSET EventRecord
  /\ boundaries \in SUBSET Sessions
  /\ staged \in [Workers -> [Sessions -> Row]]
  /\ pending \in [Workers -> SUBSET EventRecord]
  /\ writer \in Workers \cup {NoWorker}
  /\ nextSeq \in Nat \ {0} /\ nextCid \in Nat \ {0} /\ drift \in Nat
  /\ now \in Nat /\ sweepAt \in Nat \cup {NoTime}
  /\ pc \in [Workers -> Stages]
  /\ batch \in [Workers -> Batches \cup {NoBatch}]
  /\ \A w \in Workers : pc[w] # "idle" =>
       batch[w] \in Batches /\ pos[w] \in 1 .. Len(batch[w].events)
  /\ pos \in [Workers -> Nat \ {0}]
  /\ at \in [Workers -> Nat]
  /\ firstSeq \in [Workers -> Nat]
  /\ cand \in [Workers -> [Sessions -> Nat]]
  /\ found \in [Workers -> BOOLEAN]
  /\ requests \in Nat /\ failures \in Nat

\* Every stored event carries the correlation id of its session's row, even
\* when two first batches of a session race for the id (the comment on step
\* 10 of the use case).  Sessions older than correlation ids are left out.
CorrelationAgreement ==
  \A e \in events : e.session \notin LegacySessions =>
    /\ Exists(sessions[e.session])
    /\ e.cid # NoCid
    /\ e.cid = sessions[e.session].cid

\* A stored session_ended event means that the session has ended: the end is
\* taken from the first such event that arrives.
ClientEndHonoured ==
  \A e \in events : e.ended => sessions[e.session].state = "ended"

\* event_count is at least the number of stored events, whatever requests
\* fail in between: the count is committed before the events are.
CountCoversEvents ==
  \A s \in Sessions :
    sessions[s].count >= Cardinality({e \in events : e.session = s})

\* At most one accepted event for a deduplication key, whatever is retried.
OneAcceptedPerKey ==
  \A d, e \in events :
    /\ d.session = e.session /\ d.seqno = e.seqno /\ d.seqno # NoSeqno
    /\ d.status = "accepted" /\ e.status = "accepted"
    => d.seq = e.seq

\* No ingest sequence is handed out twice: not to two batches in flight and
\* not again after a restart for an event that is already stored.
SequencesUnique ==
  \A w \in Workers : pc[w] # "idle" =>
    LET mine == firstSeq[w] .. firstSeq[w] + Len(batch[w].events) - 1 IN
    /\ \A e \in events : e.seq \notin mine
    /\ \A v \in Workers \ {w} : pc[v] # "idle" =>
         mine \cap (firstSeq[v] .. firstSeq[v] + Len(batch[v].events) - 1) = {}

\* Events and boundaries belong to a session that is stored, whichever of
\* the request's transactions was the last one to commit.
NoOrphans ==
  /\ \A e \in events : Exists(sessions[e.session])
  /\ \A s \in boundaries : Exists(sessions[s])

\* The end of a session is final: a late event, a second session_ended or a
\* sweep racing with the client changes neither its time nor its source.
EndIsFinal ==
  [][\A s \in Sessions : sessions[s].state = "ended" =>
       /\ sessions[s]'.state = "ended"
       /\ sessions[s]'.ended = sessions[s].ended
       /\ sessions[s]'.source = sessions[s].source]_sessions

\* Correlation id and a sample rate below full are written once.
IdentityIsImmutable ==
  [][\A s \in Sessions :
       /\ Exists(sessions[s]) => sessions[s]'.cid = sessions[s].cid
       /\ sessions[s].rate # FullRate =>
            sessions[s]'.rate = sessions[s].rate]_sessions

\* The events of w whose stage lies behind it, in the stages of `during`.
Behind(w, during) ==
  {i \in 1 .. Len(batch[w].events) : pc[w] \in during => i < pos[w]}

\* Event i has a rate below full and is the one its session is judged by.
BringsRate(w, i) ==
  LET e == batch[w].events IN
  /\ e[i].rate # FullRate
  /\ \A j \in 1 .. i - 1 : e[j].session # e[i].session

\* A rate below full that a batch brings along is stored with its session
\* before an event of the batch is, whichever of its events came first and
\* whoever else has set the rate meanwhile (applySessionSampleRate comes
\* before Append).
RatesPrecedeEvents ==
  \A w \in Workers : pc[w] \in {"rate", "boundaries", "append", "classify", "commitAppend"} =>
    \A i \in Behind(w, {"rate"}) :
      BringsRate(w, i) => sessions[batch[w].events[i].session].rate # FullRate

\* What is stored stays stored: no failure, deadlock or restart takes back an
\* event, a count or a session.
NothingIsLost ==
  [][/\ events \subseteq events'
     /\ boundaries \subseteq boundaries'
     /\ \A s \in Sessions : sessions[s]'.count >= sessions[s].count]_store

\* Every request is answered: row locks taken in opposite orders, aborted
\* deadlocks and failing calls leave no worker waiting for ever.
RequestsFinish ==
  \A w \in Workers : pc[w] # "idle" ~> pc[w] = "idle"

\* A session without further events ends, although a stalled session never
\* becomes active again and sweeps may fail (times near the bound excepted).
IdleSessionEnds ==
  \A s \in Sessions :
    Exists(sessions[s]) /\ sessions[s].last + EndedAfter < MaxTime
      ~> \/ sessions[s].state = "ended"
         \/ sessions[s].last + EndedAfter >= MaxTime

\* The store of the ingest path, seen through the read API.
Ledger == INSTANCE SessionLedger WITH
  Unidentified <- LegacySessions,
  life <- [s \in Sessions |-> sessions[s].state],
  cid  <- [s \in Sessions |-> sessions[s].cid],
  log  <- {[seq |-> e.seq, session |-> e.session, cid |-> e.cid] : e \in events}

\* Interleaved batches, deadlocks, failures, restarts and sweeps together
\* never show a reader anything but a step of the ledger.
ImplementsLedger == Ledger!Spec
(***************************************************************************)
(* The inductive invariant behind the safety properties                    *)
(***************************************************************************)

\* Rows are staged by open upsert transactions only, and a request and its
\* upsert start at the first event.
Tidy ==
  \A w \in Workers :
    /\ pc[w] \in {"idle", "begin"} => pos[w] = 1
    /\ pc[w] \notin {"read", "write", "commit"} =>
         \A s \in Sessions : ~Exists(staged[w][s])

\* A row is locked by one transaction at a time.
RowLocks ==
  \A v, w \in Workers : v # w =>
    \A s \in Sessions : ~(Exists(staged[v][s]) /\ Exists(staged[w][s]))

\* Nothing is written to a row before it is inserted.
NoGhosts ==
  /\ \A s \in Sessions : ~Exists(sessions[s]) => sessions[s] = NoRow
  /\ \A w \in Workers : pc[w] = "write" /\ found[w] => Exists(View(w, Session(w)))

\* row may replace old: identity kept, no event uncounted, an end not undone.
Continues(old, row) ==
  /\ row.cid = old.cid /\ row.rate = old.rate /\ row.count >= old.count
  /\ old.state = "ended" =>
       row.state = "ended" /\ row.ended = old.ended /\ row.source = old.source

\* What an open transaction will commit continues what is committed by then.
StagedContinues ==
  \A w \in Workers, s \in Sessions :
    Exists(staged[w][s]) /\ Exists(sessions[s]) =>
      Continues(sessions[s], staged[w][s])

\* A row inserted by this code has a correlation id.
Identified ==
  \A s \in Sessions \ LegacySessions :
    /\ Exists(sessions[s]) => sessions[s].cid # NoCid
    /\ \A w \in Workers : Exists(staged[w][s]) => staged[w][s].cid # NoCid

\* Every session of a batch has a candidate id once it was looked up.
Resolved ==
  \A w \in Workers : pc[w] # "idle" =>
    \A i \in Behind(w, {"resolve"}) :
      cand[w][batch[w].events[i].session] # NoCid

\* From its upsert on the worker holds the id of the row it sees.
Upserted ==
  \A w \in Workers : pc[w] \notin {"idle", "resolve", "begin"} =>
    \A i \in Behind(w, {"read", "write"}) :
      LET s == batch[w].events[i].session IN
      /\ Exists(View(w, s))
      /\ s \notin LegacySessions => cand[w][s] = View(w, s).cid

\* Inserted events, committed or not, agree with the committed rows.
Agrees(e) ==
  /\ Exists(sessions[e.session])
  /\ e.session \notin LegacySessions =>
       e.cid # NoCid /\ e.cid = sessions[e.session].cid

Recorded ==
  /\ \A e \in events : Agrees(e)
  /\ \A w \in Workers : \A e \in pending[w] : Agrees(e)
  /\ \A s \in boundaries : Exists(sessions[s])

\* Holds in every state and in every step that starts from it: the argument
\* why concurrent upserts keep identity, ends, counts and events together.
IInv ==
  /\ TypeOK /\ Tidy /\ RowLocks /\ NoGhosts /\ StagedContinues
  /\ Identified /\ Resolved /\ Upserted /\ Recorded
=============================================================================
