---------------------------- MODULE SrtCollector ----------------------------
(***************************************************************************)
(* The SRT health collector: its polling loop with backoff, the evaluation *)
(* of a snapshot against the stored samples, and the repository that skips *)
(* a reading it already has.                                               *)
(*                                                                         *)
(* A reading is what the evaluation tells apart: the connection, its       *)
(* bytesReceived (the surrogate for a source sequence) and whether it is   *)
(* complete.  RTT, loss and bandwidth only grade an ok reading and are     *)
(* left out.  Time passes in polling intervals; ages stop at StaleAfter,   *)
(* the only age the code compares with.                                    *)
(* A definition under a comment in parentheses is what its neighbour would *)
(* be with one plausible mistake; no action uses it.  The specification is *)
(* named CollectorSpec: its proofs stand beside those of Lifecycle.        *)
(***************************************************************************)
EXTENDS Integers, Sequences, FiniteSets

CONSTANTS
  Streams, Connections,
  PathOf,       \* the stream (MediaMTX path) of a connection
  StaleAfter,   \* StaleAfterMillis
  MaxBackoff,   \* DefaultSrtHealthMaxBackoff
  MaxBytes, MaxTroubles   \* bounds of the model

PollInterval == 1
NoSample == -1   \* no earlier sample

ASSUME PathAssumption == PathOf \in [Connections -> Streams]
ASSUME LimitAssumption ==
  StaleAfter \in Nat \ {0} /\ MaxBackoff \in Nat \ {0} /\ MaxBytes \in Nat /\ MaxTroubles \in Nat

VARIABLES
  source,    \* MediaMTX: up, or down (no answer, an error status, one that does not parse)
  link,      \* each connection: none, setup, connected or gone, and its bytes
  batches,   \* srt_health_samples, in the order of their inserts
  stage,     \* of Run: waiting, evaluating, appending
  wait,      \* Run's wait
  timer,     \* time left of it
  readings,  \* the snapshot of this Collect
  overdue,   \* streams whose latest sample was old when the Collect began
  late,      \* time since then
  results,   \* the evaluated samples
  troubles   \* breakdowns, failing queries and restarts so far

loop  == <<stage, wait, timer, readings, overdue, late, results>>
world == <<source, link>>
collectorVars == <<world, batches, loop, troubles>>

CollectorInit ==
  /\ source = "up"
  /\ link = [c \in Connections |-> [state |-> "none", bytes |-> 0]]
  /\ batches = <<>>
  /\ stage = "waiting" /\ wait = PollInterval /\ timer = PollInterval
  /\ readings = {} /\ overdue = {} /\ late = 0 /\ results = {}
  /\ troubles = 0

Trouble == troubles < MaxTroubles /\ troubles' = troubles + 1

(***************************************************************************)
(* The media server.  Connection ids are never used twice.                 *)
(***************************************************************************)
Link(c, from, to) ==
  /\ link[c].state \in from
  /\ link' = [link EXCEPT ![c].state = to]
  /\ UNCHANGED <<source, batches, loop, troubles>>

Open(c)    == Link(c, {"none"}, "setup")
Publish(c) == Link(c, {"setup"}, "connected")
Close(c)   == Link(c, {"setup", "connected"}, "gone")

Traffic(c) ==
  /\ link[c].state = "connected" /\ link[c].bytes < MaxBytes
  /\ link' = [link EXCEPT ![c].bytes = @ + 1]
  /\ UNCHANGED <<source, batches, loop, troubles>>

Breakdown ==
  /\ source = "up" /\ source' = "down"
  /\ Trouble
  /\ UNCHANGED <<link, batches, loop>>

Recovery ==
  /\ source # "up" /\ source' = "up"
  /\ UNCHANGED <<link, batches, loop, troubles>>

(***************************************************************************)
(* The repository.                                                         *)
(***************************************************************************)
Of(b, s) == {r \in b.rows : PathOf[r.conn] = s}
HasRows(s) == \E i \in 1 .. Len(batches) : Of(batches[i], s) # {}

\* The rows of MAX(ingested_at) are those of the last batch that has any.
LatestBatch(s) ==
  CHOOSE i \in 1 .. Len(batches) :
    /\ Of(batches[i], s) # {}
    /\ \A j \in i + 1 .. Len(batches) : Of(batches[j], s) = {}
LatestByStream(s) == IF HasRows(s) THEN Of(batches[LatestBatch(s)], s) ELSE {}
LatestSequences(s) ==
  IF HasRows(s) THEN {r.bytes : r \in LatestByStream(s)} ELSE {NoSample}

\* (a reading is known by its stream and sequence alone)
KnownByStream(r) ==
  \E i \in 1 .. Len(batches) : \E q \in batches[i].rows :
    PathOf[q.conn] = PathOf[r.conn] /\ q.bytes = r.bytes

\* dedupeLookupSQL.  MediaMTX gives no source_observed_at.
Known(r) ==
  \E i \in 1 .. Len(batches) : \E q \in batches[i].rows :
    q.conn = r.conn /\ q.bytes = r.bytes

(***************************************************************************)
(* Collect.                                                                *)
(***************************************************************************)
\* /v3/srtconns/list lists what is being set up, too: mapState calls that
\* unknown.
Listed == {c \in Connections : link[c].state \in {"setup", "connected"}}
Snapshot == {[conn |-> c, bytes |-> link[c].bytes,
              connected |-> link[c].state = "connected"] : c \in Listed}

\* isStale: the latest sample of the stream has the same sequence and was
\* old when the Collect began.
\* (without a look at the age)
IsStaleYoung(r, previous) == r.connected /\ r.bytes = previous
IsStale(r, previous) ==
  r.connected /\ PathOf[r.conn] \in overdue /\ r.bytes = previous

StatusOf(r, previous) ==
  CASE IsStale(r, previous) -> "stale"
    [] ~IsStale(r, previous) /\ ~r.connected -> "partial"
    [] OTHER -> "ok"

\* Back to waiting, as after a poll that took from its start until now.
Wait(d) ==
  /\ stage' = "waiting" /\ wait' = d /\ timer' = d
  /\ readings' = {} /\ overdue' = {} /\ late' = 0 /\ results' = {}

\* (no maximum)
NextBackoffUnbounded == 2 * wait
NextBackoff == IF 2 * wait > MaxBackoff THEN MaxBackoff ELSE 2 * wait

Failed == Wait(NextBackoff)

\* SnapshotConnections answers; without a connection nothing is stored.
Poll ==
  /\ stage = "waiting" /\ timer = 0 /\ source = "up"
  /\ IF Snapshot = {}
     THEN Wait(PollInterval)
     ELSE /\ stage' = "evaluating"
          /\ readings' = Snapshot
          /\ overdue' = {s \in Streams : HasRows(s) /\ batches[LatestBatch(s)].age = StaleAfter}
          /\ late' = 0
          /\ UNCHANGED <<wait, timer, results>>
  /\ UNCHANGED <<world, batches, troubles>>

PollFails ==
  /\ stage = "waiting" /\ timer = 0 /\ source # "up"
  /\ Failed
  /\ UNCHANGED <<world, batches, troubles>>

\* LatestByStream and Evaluate.  Of several latest samples of a stream the
\* map keeps one, whichever the server listed first.
Evaluate ==
  /\ stage = "evaluating"
  /\ \E previous \in [Streams -> NoSample .. MaxBytes] :
       /\ \A s \in Streams : previous[s] \in LatestSequences(s)
       /\ results' = {[conn |-> r.conn, bytes |-> r.bytes,
                       status |-> StatusOf(r, previous[PathOf[r.conn]])] : r \in readings}
  /\ stage' = "appending" /\ readings' = {} /\ overdue' = {}
  /\ UNCHANGED <<world, batches, wait, timer, late, troubles>>

\* (without the lookup)
FreshUnchecked == results
Fresh == {r \in results : ~Known(r)}

\* Append: one transaction, known readings are skipped.
Store ==
  /\ stage = "appending"
  /\ batches' = IF Fresh = {} THEN batches
                ELSE Append(batches, [age |-> late, rows |-> Fresh])
  /\ Wait(PollInterval)
  /\ UNCHANGED <<world, troubles>>

\* A query or the transaction fails: Collect stores nothing.
StoreFails ==
  /\ stage \in {"evaluating", "appending"}
  /\ Failed /\ Trouble
  /\ UNCHANGED <<world, batches>>

\* The process stops and starts, wherever the loop is.
Restart ==
  /\ Wait(PollInterval) /\ Trouble
  /\ UNCHANGED <<world, batches>>

\* A timer that is due runs before time goes on.
Older(t) == IF t < StaleAfter THEN t + 1 ELSE t
Tick ==
  /\ stage # "waiting" \/ timer > 0
  /\ timer' = IF stage = "waiting" THEN timer - 1 ELSE timer
  /\ late' = IF stage = "waiting" THEN late ELSE Older(late)
  /\ batches' = [i \in 1 .. Len(batches) |-> [batches[i] EXCEPT !.age = Older(@)]]
  /\ UNCHANGED <<world, stage, wait, readings, overdue, results, troubles>>

Loop == Poll \/ PollFails \/ Evaluate \/ Store \/ Tick

CollectorNext ==
  \/ \E c \in Connections : Open(c) \/ Publish(c) \/ Close(c) \/ Traffic(c)
  \/ Breakdown \/ Recovery
  \/ Loop \/ StoreFails \/ Restart

CollectorSpec == CollectorInit /\ [][CollectorNext]_collectorVars

\* Time passes and the loop runs.  An outage may last, but not for ever.
CollectorLiveSpec == CollectorSpec /\ WF_collectorVars(Loop) /\ WF_collectorVars(Recovery)

(***************************************************************************)
(* Properties.                                                             *)
(***************************************************************************)
\* Every variable has its type; the wait between two polls stays within
\* MaxBackoff however many attempts fail (nextBackoff).
CollectorTypeOK ==
  /\ source \in {"up", "down"}
  /\ link \in [Connections -> [state : {"none", "setup", "connected", "gone"},
                               bytes : 0 .. MaxBytes]]
  /\ \A i \in 1 .. Len(batches) :
       /\ batches[i].age \in 0 .. StaleAfter
       /\ batches[i].rows \subseteq [conn : Connections, bytes : 0 .. MaxBytes,
                                     status : {"ok", "partial", "stale"}]
  /\ stage \in {"waiting", "evaluating", "appending"}
  /\ wait \in PollInterval .. MaxBackoff /\ timer \in 0 .. wait
  /\ overdue \subseteq Streams /\ late \in 0 .. StaleAfter

\* The samples of a connection are its history: each commit adds one at most,
\* with a higher count than all before, and none is ahead of the connection.
\* A reading is not stored again after an outage, a failing transaction or
\* a restart (Append), although it was taken long before it is stored.
SamplesAdvance ==
  \A j \in 1 .. Len(batches) : \A r \in batches[j].rows :
    /\ r.bytes <= link[r.conn].bytes
    /\ \A q \in batches[j].rows : q.conn = r.conn => q = r
    /\ \A i \in 1 .. j - 1 : \A q \in batches[i].rows : q.conn = r.conn => q.bytes < r.bytes

\* A sample is stored as stale only if its stream was sampled before with
\* the same count, and that sample is old (isStale): several latest samples
\* of a stream, a slow Collect and the ageing meanwhile make no difference.
StaleHasGround ==
  \A j \in 1 .. Len(batches) : \A r \in batches[j].rows :
    r.status = "stale" =>
      \E i \in 1 .. j - 1 :
        /\ batches[i].age = StaleAfter
        /\ \E q \in Of(batches[i], PathOf[r.conn]) : q.bytes = r.bytes

Sampled(c, n) ==
  \E i \in 1 .. Len(batches) : \E r \in batches[i].rows : r.conn = c /\ r.bytes >= n

\* What a connection has received shows in a stored sample of it in the end,
\* through outages, answers that do not parse, failing transactions and
\* restarts, unless the connection closes first (Run: log and go on).
TrafficIsSampled ==
  \A c \in Connections, n \in 1 .. MaxBytes :
    (link[c].state = "connected" /\ link[c].bytes >= n)
      ~> (Sampled(c, n) \/ link[c].state = "gone")

\* "Die Stale-Bewertung des Servers greift, wenn source_sequence über
\* StaleAfterMillis gleich bleibt und connection_state weiterhin connected
\* meldet" (docs/user/srt-health.md): a stream that is frozen that long is
\* shown as stale in the end.
Frozen(c) ==
  LET s == PathOf[c] IN
  /\ link[c].state = "connected" /\ HasRows(s)
  /\ batches[LatestBatch(s)].age = StaleAfter
  /\ \A r \in LatestByStream(s) : r.conn = c /\ r.bytes = link[c].bytes
FrozenIsReported ==
  \A c \in Connections :
    Frozen(c) ~> \/ ~Frozen(c)
                 \/ \E r \in LatestByStream(PathOf[c]) : r.status = "stale"
=============================================================================
