--------------------------- MODULE IngestControl ----------------------------
(***************************************************************************)
(* Ingest control: streams and their keys, the validation of a key, the    *)
(* lifecycle hooks with their outbound webhooks, the provisioning of the   *)
(* media server and its configuration.                                     *)
(*                                                                         *)
(* A request runs one statement or one call at a time, among the others'.  *)
(* What it creates (a stream, a key, a lifecycle event) has a random name  *)
(* of its own in the program and is named after the request here.  A       *)
(* request whose caller leaves, whose statement fails or whose process     *)
(* stops goes no further, and its open transaction is rolled back.         *)
(* Requests that are refused for their form are left out, and so are the   *)
(* protocol, the endpoint and the times of a stream.  Nothing is deleted.  *)
(* A definition under a comment in parentheses is what its neighbour would *)
(* be with one plausible mistake; no action uses it.                       *)
(***************************************************************************)
EXTENDS Naturals, FiniteSets

CONSTANTS
  Databases,    \* the stores the process may run on
  Requests, Projects, Names, Targets,
  MediaMTX,     \* the targets of kind mediamtx
  Unusable,     \* names without a character that a path may have
  Streams,      \* stored already
  Stored,       \* what is stored of them
  Asks,         \* what each request may ask for, and in which projects
  Within,
  MaxAttempts,  \* MaxAttempts of the dispatcher
  None

ASSUME DatabaseAssumption == Databases \subseteq {"sqlite", "postgres"}
ASSUME NamesAssumption ==
  /\ Streams \cap Requests = {} /\ None \notin Streams \cup Requests \cup Targets
  /\ MediaMTX \subseteq Targets /\ Unusable \subseteq Names
ASSUME StoredAssumption ==
  Stored \in [Streams -> [project : Projects, name : Names, target : Targets]]
ASSUME RequestsAssumption == Within \in [Requests -> SUBSET Projects]
ASSUME AttemptsAssumption == MaxAttempts \in Nat \ {0}

\* A stream is named after the request that created it, and so is each key.
StreamIds == Streams \cup Requests
Keys == StreamIds

VARIABLES
  database,  \* which store it is
  rows,      \* ingest_streams with ingest_routing_rules
  keys,      \* stream_keys: the stream of each key
  retired,   \* those with deactivated_at
  disabled,  \* rules that are not enabled
  log,       \* stream_lifecycle_events
  paths,     \* paths of the media server
  received,  \* what the webhook's receiver has got of each event
  req,       \* the requests
  seen,      \* keys that were active at some moment of a request
  steady     \* keys that were active at every moment of it

tables  == <<rows, keys, retired, disabled, log>>
outside == <<paths, received>>
history == <<seen, steady>>
vars    == <<database, tables, outside, req, history>>

NoRequest == [op |-> "none", pc |-> "idle", project |-> None, stream |-> None,
              key |-> None, found |-> {}, provision |-> FALSE, tries |-> 0,
              answer |-> "none"]

Row(s, project, name, target) ==
  [id |-> s, project |-> project, name |-> name, target |-> target]

Init ==
  /\ database \in Databases
  /\ rows = {Row(s, Stored[s].project, Stored[s].name, Stored[s].target) : s \in Streams}
  /\ keys = {[key |-> s, stream |-> s] : s \in Streams}
  /\ retired = {} /\ disabled = {} /\ log = {} /\ paths = {}
  /\ received = [r \in Requests |-> 0]
  /\ req = [r \in Requests |-> NoRequest]
  /\ seen = [r \in Requests |-> {}] /\ steady = [r \in Requests |-> {}]

(***************************************************************************)
(* The repository.                                                         *)
(***************************************************************************)
\* scanStream: the row of a stream in the project that asks.
\* (of whatever project)
ScanAnyProject(project, s) == \E row \in rows : row.id = s
Scan(project, s) == \E row \in rows : row.id = s /\ row.project = project

RowsOf(project) == {row \in rows : row.project = project}

\* FindActiveStreamKey: LIMIT 1, without an order.
FindActiveStreamKey(s) == {k.key : k \in {l \in keys : l.stream = s}} \ retired
Active == {k.key : k \in keys} \ retired

\* idx_ingest_streams_active_display_name, whose violation is a conflict.
NameConflict(project, name) == \E row \in RowsOf(project) : row.name = name

\* What a request has seen of the keys grows with every commit.
Running(q) == req[q].pc \notin {"idle", "done"}
Witnessed(r, active) ==
  /\ seen'   = [q \in Requests |-> IF q # r /\ Running(q) THEN seen[q] \cup active ELSE seen[q]]
  /\ steady' = [q \in Requests |-> IF q # r /\ Running(q) THEN steady[q] \cap active ELSE steady[q]]

To(r, pc) == req' = [req EXCEPT ![r].pc = pc]

\* The handler's answer ends the request.
Ended(r, answer) == [NoRequest EXCEPT !.op = req[r].op, !.pc = "done", !.answer = answer]
Answer(r, answer) ==
  /\ req' = [req EXCEPT ![r] = Ended(r, answer)]
  /\ seen' = [seen EXCEPT ![r] = {}] /\ steady' = [steady EXCEPT ![r] = {}]

(***************************************************************************)
(* A request arrives: its form is sound and its token belongs to project.  *)
(***************************************************************************)
Arrive(r, op, pc, project, s, k, provision) ==
  /\ op \in Asks[r]
  /\ req[r].pc = "idle"
  /\ req' = [req EXCEPT ![r] = [NoRequest EXCEPT !.op = op, !.pc = pc, !.project = project,
                                                 !.stream = s, !.key = k, !.provision = provision]]
  /\ seen' = [seen EXCEPT ![r] = Active] /\ steady' = [steady EXCEPT ![r] = Active]
  /\ UNCHANGED <<database, tables, outside>>

\* Callers name streams and keys that exist: any other is refused as those
\* of another project are.
Ids == {row.id : row \in rows}
PostStream(r) ==
  \E p \in Within[r], provision \in BOOLEAN : Arrive(r, "create", "insert", p, r, r, provision)
PostRotate(r) ==
  \E p \in Within[r], s \in Ids : Arrive(r, "rotate", "scan", p, s, r, FALSE)
PostValidate(r) ==
  \E p \in Within[r], s \in Ids, k \in keys : Arrive(r, "validate", "scan", p, s, k.key, FALSE)

\* The media server asks for a publisher: user is the project, path the
\* stream and password the key.
AuthHook(r) ==
  \E p \in Within[r], s \in Ids, k \in keys : Arrive(r, "publish", "scan", p, s, k.key, FALSE)
PostHook(r) ==
  \E p \in Within[r], s \in Ids : Arrive(r, "hook", "scan", p, s, None, FALSE)
GetConfig(r) ==
  \E p \in Within[r], t \in Targets \cup {None} : Arrive(r, "config", "list", p, t, None, FALSE)

\* GetStreamByID of RotateKey, ValidateKey and RecordLifecycleEvent.
NotFound == [rotate |-> "not_found", validate |-> "invalid", publish |-> "denied",
             hook |-> "not_found"]
After == [rotate |-> "begin", validate |-> "find", publish |-> "find", hook |-> "fingerprint"]
GetStreamByID(r) ==
  /\ req[r].pc = "scan"
  /\ IF Scan(req[r].project, req[r].stream)
     THEN To(r, After[req[r].op]) /\ UNCHANGED history
     ELSE Answer(r, NotFound[req[r].op])
  /\ UNCHANGED <<database, tables, outside>>

(***************************************************************************)
(* CreateStream and the provisioner.                                       *)
(***************************************************************************)
\* One transaction: stream, routing rule and first key.
Inserted(r, name, target) ==
  /\ rows' = rows \cup {Row(r, req[r].project, name, target)}
  /\ keys' = keys \cup {[key |-> r, stream |-> r]}
  /\ Witnessed(r, Active \cup {r})
  /\ UNCHANGED <<retired, disabled, log>>

CreateStream(r) ==
  /\ req[r].pc = "insert" /\ req[r].op = "create"
  /\ \E name \in Names, target \in Targets :
       IF NameConflict(req[r].project, name)
       THEN Answer(r, "name_conflict") /\ UNCHANGED tables
       ELSE /\ Inserted(r, name, target)
            /\ To(r, IF req[r].provision THEN "provision" ELSE "created")
  /\ UNCHANGED <<database, outside>>

\* Apply: the path is there already, is added, or is not; an answer that is
\* lost or an error status is "failed".
Provisioned(r) == {paths, paths \cup {r}}

\* Whatever comes of it, nothing is taken back.
TryProvision(r) ==
  /\ req[r].pc = "provision"
  /\ paths' \in Provisioned(r)
  /\ To(r, "created")
  /\ UNCHANGED <<database, tables, received, history>>

Created(r) ==
  /\ req[r].pc = "created"
  /\ Answer(r, "created")
  /\ UNCHANGED <<database, tables, outside>>

(***************************************************************************)
(* RotateKey.  SQLite's transactions begin with the write lock; those of   *)
(* Postgres wait for the rows they update.                                 *)
(***************************************************************************)
Open(q) == req[q].op = "rotate" /\ req[q].pc \in {"update", "locked", "insert"}

\* (a transaction that begins without the lock)
BeginDeferred(r) ==
  /\ req[r].pc = "begin"
  /\ To(r, "update")
  /\ UNCHANGED <<database, tables, outside, history>>
BeginRotation(r) ==
  /\ req[r].pc = "begin"
  /\ database = "sqlite" => \A q \in Requests : ~Open(q)
  /\ To(r, "update")
  /\ UNCHANGED <<database, tables, outside, history>>

\* The UPDATE starts: it sees the keys that are committed now.
\* (those of all streams)
StartUpdateEverywhere(r) ==
  /\ req[r].pc = "update"
  /\ req' = [req EXCEPT ![r].pc = "locked", ![r].found = Active]
  /\ UNCHANGED <<database, tables, outside, history>>
StartUpdate(r) ==
  /\ req[r].pc = "update"
  /\ req' = [req EXCEPT ![r].pc = "locked", ![r].found = FindActiveStreamKey(req[r].stream)]
  /\ UNCHANGED <<database, tables, outside, history>>

\* It waits for the rows another transaction has updated, and leaves alone
\* what is no longer active then.
Deactivate(r) ==
  /\ req[r].pc = "locked"
  /\ \A q \in Requests \ {r} : Open(q) /\ req[q].pc = "insert" => req[q].found \cap req[r].found = {}
  /\ req' = [req EXCEPT ![r].pc = "insert", ![r].found = @ \ retired]
  /\ UNCHANGED <<database, tables, outside, history>>

\* INSERT of the new key and commit.
CommitRotation(r) ==
  /\ req[r].pc = "insert" /\ req[r].op = "rotate"
  /\ retired' = retired \cup req[r].found
  /\ keys' = keys \cup {[key |-> r, stream |-> req[r].stream]}
  /\ Witnessed(r, (Active \ req[r].found) \cup {r})
  /\ req' = [req EXCEPT ![r].pc = "rotated", ![r].found = {}]
  /\ UNCHANGED <<database, rows, disabled, log, outside>>

RotationAnswered(r) ==
  /\ req[r].pc = "rotated"
  /\ Answer(r, "rotated")
  /\ UNCHANGED <<database, tables, outside>>

(***************************************************************************)
(* ValidateKey.                                                            *)
(***************************************************************************)
Verdict(r, ok) ==
  CASE req[r].op = "validate" -> IF ok THEN "valid" ELSE "invalid"
    [] req[r].op = "publish"  -> IF ok THEN "allowed" ELSE "denied"

\* Hashes are compared; keys are random and do not collide.
ValidateStreamKey(candidate, k) == candidate = k

ValidateKey(r) ==
  /\ req[r].pc = "find"
  /\ \E k \in FindActiveStreamKey(req[r].stream) : Answer(r, Verdict(r, ValidateStreamKey(req[r].key, k)))
  /\ UNCHANGED <<database, tables, outside>>

(***************************************************************************)
(* RecordLifecycleEvent and the dispatcher.                                *)
(***************************************************************************)
ReadFingerprint(r) ==
  /\ req[r].pc = "fingerprint"
  /\ \E k \in FindActiveStreamKey(req[r].stream) :
       req' = [req EXCEPT ![r].pc = "rule", ![r].key = k]
  /\ UNCHANGED <<database, tables, outside, history>>

ReadRule(r) ==
  /\ req[r].pc = "rule"
  /\ IF req[r].stream \in disabled
     THEN Answer(r, "rule_disabled")
     ELSE To(r, "append") /\ UNCHANGED history
  /\ UNCHANGED <<database, tables, outside>>

LifecycleEvent(r) ==
  [id |-> r, project |-> req[r].project, stream |-> req[r].stream, key |-> req[r].key]

\* (the webhook goes out, and nothing is stored)
DispatchFirst(r) ==
  /\ req[r].pc = "append"
  /\ To(r, "dispatch")
  /\ UNCHANGED <<database, tables, outside, history>>
AppendLifecycleEvent(r) ==
  /\ req[r].pc = "append"
  /\ log' = log \cup {LifecycleEvent(r)}
  /\ To(r, "dispatch")
  /\ UNCHANGED <<database, rows, keys, retired, disabled, outside, history>>

\* One POST to the receiver: it is taken and answered 2xx, taken without an
\* answer the dispatcher counts, or does not arrive.
\* (one attempt too many)
ExhaustedLate(n) == n = MaxAttempts + 1
Exhausted(n) == n = MaxAttempts
SendOnce(r) ==
  /\ req[r].pc = "dispatch"
  /\ \E taken, ok \in BOOLEAN :
       /\ ok => taken
       /\ received' = [received EXCEPT ![r] = IF taken THEN @ + 1 ELSE @]
       /\ req' = [req EXCEPT ![r].tries = @ + 1,
                             ![r].pc = IF ok \/ Exhausted(req[r].tries + 1)
                                       THEN "recorded" ELSE "dispatch"]
  /\ UNCHANGED <<database, tables, paths, history>>

\* A dead letter is logged; the hook is answered all the same.
Recorded(r) ==
  /\ req[r].pc = "recorded"
  /\ Answer(r, "accepted")
  /\ UNCHANGED <<database, tables, outside>>

(***************************************************************************)
(* GetMediaServerConfig.                                                   *)
(***************************************************************************)
\* ListByProject reads the streams at once and the key of each afterwards.
ListByProject(r) ==
  /\ req[r].pc = "list"
  /\ IF RowsOf(req[r].project) = {}
     THEN Answer(r, "unavailable")
     ELSE /\ req' = [req EXCEPT ![r].pc = "configure",
                                ![r].found = {<<row, None>> : row \in RowsOf(req[r].project)}]
          /\ UNCHANGED history
  /\ UNCHANGED <<database, tables, outside>>

ReadKey(r) ==
  /\ req[r].pc = "configure"
  /\ \E entry \in req[r].found :
       /\ entry[2] = None
       /\ \E k \in FindActiveStreamKey(entry[1].id) :
            req' = [req EXCEPT ![r].found = (@ \ {entry}) \cup {<<entry[1], k>>}]
  /\ UNCHANGED <<database, tables, outside, history>>

\* Without target_id the target of the latest stream, with a warning when
\* there are others.
Target(r, latest) == IF req[r].stream = None THEN latest ELSE req[r].stream
Matching(r, t) == {entry \in req[r].found : entry[1].target = t}

AutoPickWarning(r, t) ==
  req[r].stream = None /\ \E entry \in req[r].found : entry[1].target # t
Skipped(r, t) == {entry \in Matching(r, t) : entry[1].name \in Unusable}

Config(r, t) ==
  CASE t \notin MediaMTX \/ Matching(r, t) = {} -> "unavailable"
    [] t \in MediaMTX /\ Matching(r, t) # {} ->
         IF AutoPickWarning(r, t) \/ Skipped(r, t) # {} THEN "config_warned" ELSE "config"

GetMediaServerConfig(r) ==
  /\ req[r].pc = "configure"
  /\ \A entry \in req[r].found : entry[2] # None
  /\ \E latest \in {entry[1].target : entry \in req[r].found} :
       Answer(r, Config(r, Target(r, latest)))
  /\ UNCHANGED <<database, tables, outside>>

(***************************************************************************)
(* What goes wrong, and what is changed from outside.                      *)
(***************************************************************************)
\* A statement fails, the caller leaves or the process stops: a transaction
\* that is open is rolled back, and what is committed or sent stays.  The
\* caller has an error or no answer; the media server takes both for a no.
Break(r) ==
  /\ Running(r)
  /\ Answer(r, "broken")
  /\ UNCHANGED <<database, tables, outside>>

\* An operator disables a rule in the database; only a hook reads it.
Disable(s) ==
  /\ \E r \in Requests : req[r].op = "hook" /\ req[r].stream = s /\ Running(r)
  /\ disabled' = disabled \cup {s}
  /\ UNCHANGED <<database, rows, keys, retired, log, outside, req, history>>

Step(r) ==
  \/ GetStreamByID(r) \/ CreateStream(r) \/ TryProvision(r) \/ Created(r)
  \/ BeginRotation(r) \/ StartUpdate(r) \/ Deactivate(r) \/ CommitRotation(r)
  \/ RotationAnswered(r)
  \/ ValidateKey(r)
  \/ ReadFingerprint(r) \/ ReadRule(r) \/ AppendLifecycleEvent(r) \/ SendOnce(r) \/ Recorded(r)
  \/ ListByProject(r) \/ ReadKey(r) \/ GetMediaServerConfig(r)

Next ==
  \/ \E r \in Requests :
       \/ PostStream(r) \/ PostRotate(r) \/ PostValidate(r) \/ AuthHook(r)
       \/ PostHook(r) \/ GetConfig(r)
       \/ Step(r) \/ Break(r)
  \/ \E s \in StreamIds : Disable(s)

Spec == Init /\ [][Next]_vars

(***************************************************************************)
(* Properties.                                                             *)
(***************************************************************************)
\* Every variable has its type; the receiver gets an event MaxAttempts times
\* at most (Dispatch).
TypeOK ==
  /\ database \in Databases
  /\ rows \subseteq [id : StreamIds, project : Projects, name : Names, target : Targets]
  /\ keys \subseteq [key : Keys, stream : StreamIds] /\ retired \subseteq Keys
  /\ disabled \subseteq StreamIds /\ paths \subseteq StreamIds
  /\ log \subseteq [id : Requests, project : Projects, stream : StreamIds, key : Keys]
  /\ received \in [Requests -> 0 .. MaxAttempts]
  /\ seen \in [Requests -> SUBSET Keys] /\ steady \in [Requests -> SUBSET Keys]

\* "RotateKey deaktiviert den aktuell aktiven Stream-Key": a stream has one
\* active key, whatever rotations run at once.
RotationRetires == \A row \in rows : Cardinality(FindActiveStreamKey(row.id)) = 1

\* So it is with SQLite; with Postgres a stream has at least
\* one, so that a publisher is never locked out by a rotation.
ActiveKeys ==
  \A row \in rows :
    /\ FindActiveStreamKey(row.id) # {}
    /\ database # "postgres" => Cardinality(FindActiveStreamKey(row.id)) = 1

\* What an answer says was true at some moment of the request, although it
\* was put together from several statements: a key that is called valid was
\* active, one that is called invalid was not active all the time, a
\* fingerprint in an event or a configuration was that of an active key, and
\* a configuration without a warning has all streams of the target that the
\* project had when the request began.  A rotation leaves active no key that
\* was active when it began, so that on Postgres, too, a stream has two keys
\* only after rotations that overlapped.  Only streams of the caller's project
\* are spoken of.  An accepted event is stored, and its receiver has got it
\* or all attempts are used up.
Answering(r, answers) == req[r].pc # "done" /\ req'[r].pc = "done" /\ req'[r].answer \in answers
Owned(r) == \E row \in rows : row.id = req[r].stream /\ row.project = req[r].project
TrueAnswer(r) ==
  /\ Answering(r, {"valid", "allowed"}) => req[r].key \in seen[r]
  /\ Answering(r, {"invalid", "denied"}) /\ database # "postgres" =>
       \/ ~Owned(r)
       \/ req[r].key \notin steady[r] \/ [key |-> req[r].key, stream |-> req[r].stream] \notin keys
  /\ Answering(r, {"valid", "allowed", "rotated", "accepted", "rule_disabled"}) =>
       Owned(r)
  /\ Answering(r, {"rotated"}) => FindActiveStreamKey(req[r].stream) \cap steady[r] = {}
  /\ Answering(r, {"accepted"}) =>
       /\ \E e \in log : e.id = r /\ e.key \in seen[r]
       /\ received[r] > 0 \/ req[r].tries = MaxAttempts
  /\ Answering(r, {"config", "config_warned"}) => \A entry \in req[r].found : entry[2] \in seen[r]
  /\ Answering(r, {"config"}) =>
       \A row \in RowsOf(req[r].project) :
         /\ FindActiveStreamKey(row.id) \cap steady[r] # {}
         /\ req[r].stream \in {None, row.target}
         => row.name \notin Unusable /\ \E entry \in req[r].found : entry[1] = row
AnswersAreTrue == [][\A r \in Requests : TrueAnswer(r)]_vars

\* The receiver hears only of stored events, and the media server has no
\* path but those of stored streams, wherever a request ends.
OutsideFollowsStore ==
  /\ \A r \in Requests : received[r] > 0 => \E e \in log : e.id = r
  /\ \A s \in paths : \E row \in rows : row.id = s

\* Streams and keys come and go as KeyRing says: a rotation is one step
\* although it is three statements that others run between, and whatever
\* breaks off leaves the keys as they were (RotateKey's transaction).
Ring == INSTANCE KeyRing WITH
  exclusive <- database # "postgres",
  good      <- [s \in StreamIds |-> FindActiveStreamKey(s)],
  spent     <- retired
ImplementsKeyRing == Ring!Spec
=============================================================================
