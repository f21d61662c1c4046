---------------------------- MODULE EventStream ----------------------------
(***************************************************************************)
(* From a stored event to the frame a dashboard receives: the ingest       *)
(* sequences of several API replicas, the in-process EventBroker of each   *)
(* replica, and the SSE handler with its backfill by Last-Event-ID.        *)
(*                                                                         *)
(* A connection is followed up to the frame the client has read.  Bytes    *)
(* under way in the network are not distinguished from a handler that has  *)
(* not written yet: both are lost when the connection breaks, and neither  *)
(* has moved the client's Last-Event-ID.  A slow consumer is one whose     *)
(* frames are not read while the broker publishes.                         *)
(*                                                                         *)
(* SQLite is the instance with one replica and BlockSize 1.                *)
(* A definition under a comment in parentheses is what its neighbour would *)
(* be with one plausible mistake; no action uses it.                       *)
(***************************************************************************)
EXTENDS Integers, Sequences, FiniteSets

CONSTANTS
  Replicas, Writers, Clients, Projects,
  NoReplica,     \* of a client that is not connected
  HomeOf,        \* the replica a request is handled by
  ProjectOf,     \* the project a client's token resolves to
  BlockSize,     \* sequences reserved per round trip
  BufferSize,    \* capacity of a subscriber's channel (64 in the code)
  BackfillLimit, \* sseBackfillLimit
  Attentive,     \* clients that go on reading and reconnecting
  MaxSeq, MaxBreaks    \* bounds of the model

None == 0       \* no Last-Event-ID: the client has read no frame yet

\* Between requests the project does not matter.
AnyProject == CHOOSE p \in Projects : TRUE

ASSUME ShapeAssumption ==
  /\ HomeOf \in [Writers -> Replicas] /\ ProjectOf \in [Clients -> Projects]
  /\ NoReplica \notin Replicas /\ Projects # {}
  /\ IsFiniteSet(Clients) /\ Attentive \subseteq Clients
ASSUME SizeAssumption ==
  /\ BlockSize \in Nat \ {0} /\ BufferSize \in Nat \ {0}
  /\ BackfillLimit \in Nat \ {0}
  /\ MaxSeq \in Nat /\ MaxBreaks \in Nat

VARIABLES
  nextval,     \* the database sequence behind ingest_sequence
  block,       \* IngestSequencer.buffer of each replica
  stored,      \* playback_events: [seq, project, home]
  phase,       \* of each request: idle, drawing, committed, publishing
  project,     \* the project of the request
  batch,       \* its sequences; while publishing, those not sent yet
  targets,     \* subscribers in the snapshot of Publish
  conn,        \* of each client: down, open, subscribed, live
  replica,     \* the replica a client is connected to
  channel,     \* the subscriber's channel
  backfill,    \* backfill frames not written yet
  lastId,      \* the client's lastEventID
  seen,        \* frames the client has read
  breaks,      \* bound
  \* History, read by properties only.
  before,      \* events stored before the stream owed the client anything
  dropped,     \* frames the client's full channel did not take
  elsewhere,   \* events stored by another replica while the client was live
  cut,         \* events a truncated backfill left out
  overtaken    \* events in flight when a later sequence became visible

requests == <<phase, project, batch, targets>>
streams  == <<conn, replica, channel, backfill, lastId, seen>>
history  == <<before, dropped, elsewhere, cut, overtaken>>
vars == <<nextval, block, stored, requests, streams, breaks, history>>

Elems(s) == {s[i] : i \in 1 .. Len(s)}

\* Sequences drawn or reserved for events that were not published yet.
InFlight == UNION ({Elems(block[r]) : r \in Replicas}
                   \cup {Elems(batch[w]) : w \in Writers})

Overtakes(seqs) == {m \in InFlight : \E n \in seqs : m < n}

Init ==
  /\ nextval = 1 /\ block = [r \in Replicas |-> <<>>]
  /\ stored = {}
  /\ phase = [w \in Writers |-> "idle"]
  /\ project = [w \in Writers |-> AnyProject]
  /\ batch = [w \in Writers |-> <<>>]
  /\ targets = [w \in Writers |-> {}]
  /\ conn = [c \in Clients |-> "down"]
  /\ replica = [c \in Clients |-> NoReplica]
  /\ channel = [c \in Clients |-> <<>>]
  /\ backfill = [c \in Clients |-> {}]
  /\ lastId = [c \in Clients |-> None]
  /\ seen = [c \in Clients |-> {}]
  /\ breaks = 0
  /\ before = [c \in Clients |-> {}]
  /\ dropped = [c \in Clients |-> {}]
  /\ elsewhere = [c \in Clients |-> {}]
  /\ cut = [c \in Clients |-> {}]
  /\ overtaken = {}

(***************************************************************************)
(* The request: draw sequences, store, publish.                            *)
(***************************************************************************)
Post(w, p) ==
  /\ phase[w] = "idle"
  /\ phase' = [phase EXCEPT ![w] = "drawing"]
  /\ project' = [project EXCEPT ![w] = p]
  /\ UNCHANGED <<nextval, block, stored, batch, targets, streams, breaks, history>>

\* reserveBlock: one round trip takes BlockSize fresh values.
Reserve(r) == [i \in 1 .. BlockSize |-> nextval + i - 1]

\* Next(), once per event of the batch.
Draw(w) ==
  LET r == HomeOf[w]
      values == IF block[r] = <<>> THEN Reserve(r) ELSE block[r]
  IN  /\ phase[w] = "drawing"
      /\ block[r] = <<>> => nextval + BlockSize - 1 <= MaxSeq
      /\ batch' = [batch EXCEPT ![w] = Append(@, Head(values))]
      /\ block' = [block EXCEPT ![r] = Tail(values)]
      /\ nextval' = IF block[r] = <<>> THEN nextval + BlockSize ELSE nextval
      /\ UNCHANGED <<stored, phase, project, targets, streams, breaks, history>>

\* The request ends before its append committed: rejected, failed, or Next()
\* panicked because no block could be reserved.
Abandon(w) ==
  /\ phase[w] = "drawing"
  /\ phase' = [phase EXCEPT ![w] = "idle"]
  /\ batch' = [batch EXCEPT ![w] = <<>>]
  /\ project' = [project EXCEPT ![w] = AnyProject]
  /\ UNCHANGED <<nextval, block, stored, targets, streams, breaks, history>>

\* The client waits for live frames and will not ask for a backfill.
Listening(c) == conn[c] = "live" \/ (conn[c] = "subscribed" /\ lastId[c] = None)

Rows(w) == {[seq |-> n, project |-> project[w], home |-> HomeOf[w]] : n \in Elems(batch[w])}

Commit(w) ==
  /\ phase[w] = "drawing" /\ batch[w] # <<>>
  /\ stored' = stored \cup Rows(w)
  /\ phase' = [phase EXCEPT ![w] = "committed"]
  /\ elsewhere' = [c \in Clients |->
        IF replica[c] # HomeOf[w] /\ Listening(c)
        THEN elsewhere[c] \cup Elems(batch[w]) ELSE elsewhere[c]]
  /\ UNCHANGED <<nextval, block, project, batch, targets, streams, breaks,
                 before, dropped, cut, overtaken>>

Subscribed(c) == conn[c] \in {"subscribed", "live"}

\* snapshotSubscribers of the replica's own broker.
Snapshot(w) ==
  /\ phase[w] = "committed"
  /\ targets' = [targets EXCEPT ![w] = {c \in Clients : Subscribed(c) /\ replica[c] = HomeOf[w]}]
  /\ phase' = [phase EXCEPT ![w] = "publishing"]
  /\ UNCHANGED <<nextval, block, stored, project, batch, streams, breaks, history>>

\* A send never waits: a full channel drops the frame.
CanSend(w) == TRUE
Room(c) == Len(channel[c]) < BufferSize
Receivers(w) == {c \in targets[w] : ProjectOf[c] = project[w]}

\* One event of Publish, to every subscriber of the snapshot.
Send(w) ==
  LET n == Head(batch[w])
      Takes(c) == c \in Receivers(w) /\ Room(c)
  IN  /\ phase[w] = "publishing" /\ batch[w] # <<>> /\ CanSend(w)
      /\ channel' = [c \in Clients |->
                       IF Takes(c) THEN Append(channel[c], n) ELSE channel[c]]
      /\ dropped' = [c \in Clients |->
                       IF c \in Receivers(w) /\ ~Takes(c)
                       THEN dropped[c] \cup {n} ELSE dropped[c]]
      /\ overtaken' = overtaken \cup Overtakes({n})
      /\ batch' = [batch EXCEPT ![w] = Tail(@)]
      /\ UNCHANGED <<nextval, block, stored, phase, project, targets, conn, replica,
                     backfill, lastId, seen, breaks, before, elsewhere, cut>>

Respond(w) ==
  /\ phase[w] = "publishing" /\ batch[w] = <<>>
  /\ phase' = [phase EXCEPT ![w] = "idle"]
  /\ targets' = [targets EXCEPT ![w] = {}]
  /\ project' = [project EXCEPT ![w] = AnyProject]
  /\ UNCHANGED <<nextval, block, stored, batch, streams, breaks, history>>

(***************************************************************************)
(* The connection: headers, Subscribe, backfill, live frames.              *)
(***************************************************************************)
Connect(c, r) ==
  /\ conn[c] = "down"
  /\ conn' = [conn EXCEPT ![c] = "open"]
  /\ replica' = [replica EXCEPT ![c] = r]
  /\ UNCHANGED <<nextval, block, stored, requests, channel, backfill, lastId, seen,
                 breaks, history>>

Own(c) == {e.seq : e \in {e \in stored : e.project = ProjectOf[c]}}

\* Without Last-Event-ID the stream starts with the next new event.
Subscribe(c) ==
  /\ conn[c] = "open"
  /\ conn' = [conn EXCEPT ![c] = "subscribed"]
  /\ before' = [before EXCEPT ![c] = IF lastId[c] = None THEN Own(c) ELSE @]
  /\ UNCHANGED <<nextval, block, stored, requests, replica, channel, backfill,
                 lastId, seen, breaks, dropped, elsewhere, cut, overtaken>>

\* (the id after the header's is left out)
AfterNext(c) == {n \in Own(c) : n > lastId[c] + 1}

\* ListAfterIngestSequence.
After(c) == {n \in Own(c) : n > lastId[c]}

\* The first k in ascending order.
Oldest(seqs, k) == {n \in seqs : Cardinality({m \in seqs : m < n}) < k}

\* What streamBackfill will write: nothing without a header, the oldest
\* BackfillLimit frames when there are more.
BackfillFrames(c) == IF lastId[c] = None THEN {} ELSE Oldest(After(c), BackfillLimit)

\* The rows left out are announced by a backfill_truncated frame.
StartBackfill(c) ==
  /\ conn[c] = "subscribed"
  /\ conn' = [conn EXCEPT ![c] = "live"]
  /\ backfill' = [backfill EXCEPT ![c] = BackfillFrames(c)]
  /\ cut' = [cut EXCEPT ![c] =
               IF lastId[c] = None THEN @ ELSE @ \cup (After(c) \ BackfillFrames(c))]
  /\ overtaken' = overtaken \cup (Overtakes(BackfillFrames(c)) \ {e.seq : e \in stored})
  /\ UNCHANGED <<nextval, block, stored, requests, replica, channel, lastId, seen,
                 breaks, before, dropped, elsewhere>>

\* The client reads a frame: dispatchFrame takes its id as it comes.
Read(c, n) ==
  /\ lastId' = [lastId EXCEPT ![c] = n]
  /\ seen' = [seen EXCEPT ![c] = @ \cup {n}]
  /\ UNCHANGED <<nextval, block, stored, requests, conn, replica, breaks, history>>

ReadBackfill(c) ==
  /\ conn[c] = "live"
  /\ \E n \in backfill[c] :
       /\ \A m \in backfill[c] : n <= m
       /\ backfill' = [backfill EXCEPT ![c] = @ \ {n}]
       /\ Read(c, n)
  /\ UNCHANGED channel

ReadLive(c) ==
  /\ conn[c] = "live" /\ backfill[c] = {} /\ channel[c] # <<>>
  /\ channel' = [channel EXCEPT ![c] = Tail(@)]
  /\ Read(c, Head(channel[c]))
  /\ UNCHANGED backfill

(***************************************************************************)
(* Interruptions.                                                          *)
(***************************************************************************)
\* What breaking the connections of cs leaves: what was not read is gone and
\* the old channel is nobody's.
BreakAll(cs) ==
  /\ conn' = [c \in Clients |-> IF c \in cs THEN "down" ELSE conn[c]]
  /\ channel' = [c \in Clients |-> IF c \in cs THEN <<>> ELSE channel[c]]
  /\ backfill' = [c \in Clients |-> IF c \in cs THEN {} ELSE backfill[c]]
  /\ replica' = [c \in Clients |-> IF c \in cs THEN NoReplica ELSE replica[c]]
  /\ breaks' = breaks + 1
  /\ UNCHANGED <<lastId, seen, stored, nextval, history>>

\* The connection breaks, or a query of the handler fails and it returns.
Disconnect(c) ==
  /\ conn[c] # "down" /\ breaks < MaxBreaks
  /\ BreakAll({c})
  /\ targets' = [w \in Writers |-> targets[w] \ {c}]
  /\ UNCHANGED <<block, phase, batch, project>>

\* A process stops and starts: requests, reserved values and connections go.
Restart(r) ==
  LET gone == {w \in Writers : HomeOf[w] = r}
  IN  /\ breaks < MaxBreaks
      /\ BreakAll({c \in Clients : replica[c] = r})
      /\ block' = [block EXCEPT ![r] = <<>>]
      /\ phase' = [w \in Writers |-> IF w \in gone THEN "idle" ELSE phase[w]]
      /\ project' = [w \in Writers |-> IF w \in gone THEN AnyProject ELSE project[w]]
      /\ batch' = [w \in Writers |-> IF w \in gone THEN <<>> ELSE batch[w]]
      /\ targets' = [w \in Writers |-> IF w \in gone THEN {} ELSE targets[w]]

Request(w) ==
  \/ Draw(w) \/ Abandon(w) \/ Commit(w) \/ Snapshot(w) \/ Send(w) \/ Respond(w)

Stream(c) ==
  Subscribe(c) \/ StartBackfill(c) \/ ReadBackfill(c) \/ ReadLive(c)

Next ==
  \/ \E w \in Writers : Request(w) \/ \E p \in Projects : Post(w, p)
  \/ \E c \in Clients : Stream(c) \/ Disconnect(c) \/ \E r \in Replicas : Connect(c, r)
  \/ \E r \in Replicas : Restart(r)

Spec == Init /\ [][Next]_vars

\* The runtime schedules handlers.  An attentive client that is down
\* reconnects, and reads what its open stream is sent; nothing is assumed of
\* the others, and nobody has to send or disconnect.
PublishFairness == \A w \in Writers : WF_vars(Snapshot(w) \/ Send(w) \/ Respond(w))
StreamFairness ==
  \A c \in Attentive : WF_vars(Stream(c)) /\ WF_vars(\E r \in Replicas : Connect(c, r))

LiveSpec == Spec /\ PublishFairness /\ StreamFairness

(***************************************************************************)
(* Properties.                                                             *)
(***************************************************************************)
\* Every variable has the shape of its Go counterpart; a channel never holds
\* more than its capacity.
TypeOK ==
  /\ nextval \in Nat \ {0}
  /\ block \in [Replicas -> Seq(Nat \ {0})]
  /\ stored \subseteq [seq : Nat \ {0}, project : Projects, home : Replicas]
  /\ phase \in [Writers -> {"idle", "drawing", "committed", "publishing"}]
  /\ project \in [Writers -> Projects]
  /\ batch \in [Writers -> Seq(Nat \ {0})]
  /\ targets \in [Writers -> SUBSET Clients]
  /\ conn \in [Clients -> {"down", "open", "subscribed", "live"}]
  /\ replica \in [Clients -> Replicas \cup {NoReplica}]
  /\ channel \in [Clients -> Seq(Nat \ {0})]
  /\ \A c \in Clients : Len(channel[c]) <= BufferSize
  /\ backfill \in [Clients -> SUBSET (Nat \ {0})]
  /\ lastId \in [Clients -> Nat]
  /\ seen \in [Clients -> SUBSET (Nat \ {0})]
  /\ breaks \in 0 .. MaxBreaks
  /\ \A h \in {before, dropped, elsewhere, cut} : h \in [Clients -> SUBSET (Nat \ {0})]
  /\ overtaken \subseteq Nat \ {0}

\* Replicas that draw from blocks of their own never store two events under
\* one ingest_sequence, the primary key (ingest_sequencer.go).
OneRowPerSequence == \A d, e \in stored : d.seq = e.seq => d = e

\* A connection carries frames of the project its token resolved to and of
\* no other, in the backfill as in the live part (contract, section 10a).
OwnFramesOnly ==
  \A c \in Clients : seen[c] \cup backfill[c] \cup Elems(channel[c]) \subseteq Own(c)

\* What the stream owes a client: its project's events since it first was
\* subscribed with nothing read, or has read a frame.
Owed(c) == IF lastId[c] = None /\ ~Subscribed(c) THEN {} ELSE Own(c) \ before[c]

\* Events c will still be given: frames waiting for it, rows the next
\* backfill asks for, and what a request has yet to publish to it.
Asked(c) == IF lastId[c] # None /\ conn[c] # "live" THEN After(c) ELSE {}
ToPublish(c) ==
  UNION {Elems(batch[w]) : w \in {w \in Writers :
           \/ phase[w] = "committed" /\ Subscribed(c) /\ replica[c] = HomeOf[w]
           \/ phase[w] = "publishing" /\ c \in targets[w]}}
Coming(c) == backfill[c] \cup Elems(channel[c]) \cup Asked(c) \cup ToPublish(c)

\* The only ways to miss an event: a full channel, a broker in another
\* process, a truncated backfill, or a request that was overtaken by a later
\* sequence.  Neither the gap between Subscribe and the backfill query, nor a
\* crash between commit and publish, nor a broken connection is one
\* (sse_stream.go subscribes before it reads; event_broker.go).
Explained(c) == dropped[c] \cup elsewhere[c] \cup cut[c] \cup overtaken
NoUnexplainedGap ==
  \A c \in Clients : Owed(c) \subseteq seen[c] \cup Coming(c) \cup Explained(c)

\* An owed event is read in the end by a client that goes on reading, unless
\* one of the explanations holds, however slow the other clients are.
EveryEventArrives ==
  \A c \in Attentive, n \in 1 .. MaxSeq :
    (n \in Owed(c)) ~> (n \in seen[c] \cup Explained(c) \/ n \notin Owed(c))

\* "Konsument schließt die Lücke per Last-Event-ID-Reconnect" (the comment
\* in Publish): a frame a full channel dropped has been read or would be part
\* of the next backfill.
DroppedFramesAreRecovered ==
  \A c \in Clients : \A n \in dropped[c] :
    n \in seen[c] \cup backfill[c] \cup Elems(channel[c]) \/ n > lastId[c]
=============================================================================
