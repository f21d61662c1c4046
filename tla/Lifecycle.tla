------------------------------ MODULE Lifecycle ------------------------------
(***************************************************************************)
(* From the start of the API to its end.                                   *)
(*                                                                         *)
(* A replica of some release starts, brings the schema of the shared       *)
(* database up to what its release needs, serves, and stops: on a signal   *)
(* in an orderly way, or at any moment by being killed.  A migration that  *)
(* fails leaves a mark that keeps every later start from going on, until   *)
(* the operator has repaired (by the manual: emptied) the database.        *)
(* Several replicas start at once on Postgres, one at a time on SQLite.    *)
(* A definition under a comment in parentheses is what its neighbour would *)
(* be with one plausible mistake; no action uses it.                       *)
(***************************************************************************)
EXTENDS Integers, FiniteSets, FiniteSetsExt

CONSTANTS Replicas,
          Versions,              \* of migrations, ascending
          Releases,              \* each is the set of migrations it brings along
          MaxBoots, MaxFaults,   \* bounds: of starts, of what goes wrong
          None

ASSUME LifecycleConstants ==
    /\ Versions \subseteq Nat /\ Releases \subseteq SUBSET Versions
    /\ MaxBoots \in Nat /\ MaxFaults \in Nat /\ None \notin Replicas
    \* a release brings along what came before its last migration (ADR 0002, rolling baseline)
    /\ \A rel \in Releases : \A v \in rel, w \in Versions : w < v => w \in rel

VARIABLES store,     \* "sqlite" or "postgres"
          schema,    \* the rows of schema_migrations
          done,      \* the migrations whose bodies are in effect
          lock,      \* who holds the advisory lock
          orphans,   \* commits under way whose process is gone (Postgres)
          phase,     \* where each replica is
          release,   \* the release each replica runs
          pending,   \* the migrations each replica has still to apply
          failed,    \* whether its start has failed
          conns,     \* the open connections of each replica
          exit,      \* how each replica ended
          cut,       \* the connections that its end has cut
          doubt,     \* the migrations whose commit has not been answered
          boots, faults
database == <<store, schema, done, lock, orphans, doubt>>
traffic == <<conns, exit, cut>>
vars == <<database, traffic, phase, release, pending, failed, boots, faults>>

Kinds == {"request", "stream"}
Booting == {"lock", "check", "list", "apply", "commit", "mark", "release", "start"}

TypeOK ==
    /\ store \in {"sqlite", "postgres"}
    /\ schema \in [Versions -> {"none", "clean", "dirty"}]
    /\ done \subseteq Versions /\ orphans \subseteq Versions /\ doubt \subseteq Versions
    /\ lock \in Replicas \cup {None}
    /\ phase \in [Replicas -> Booting \cup {"off", "serving", "draining"}]
    /\ release \in [Replicas -> Releases \cup {{}}]
    /\ pending \in [Replicas -> SUBSET Versions]
    /\ \A r \in Replicas : pending[r] \subseteq release[r]
    /\ failed \in [Replicas -> BOOLEAN]
    /\ conns \in [Replicas -> SUBSET Kinds] /\ cut \in [Replicas -> SUBSET Kinds]
    /\ exit \in [Replicas -> {"none", "ok", "error", "killed"}]
    /\ boots \in 0 .. MaxBoots /\ faults \in 0 .. MaxFaults

-----------------------------------------------------------------------------
(* Migrations                                                              *)

Go(r, p) == phase' = [phase EXCEPT ![r] = p]

\* something outside the process goes wrong
Fault == faults < MaxFaults /\ faults' = faults + 1

\* (everybody has the lock)
AcquireMigrationLockNever(r) == TRUE
AcquireMigrationLock(r) == lock = None

TakeLock(r) ==
    /\ phase[r] = "lock" /\ AcquireMigrationLock(r)
    /\ lock' = r
    /\ Go(r, "check")
    /\ UNCHANGED <<store, schema, done, orphans, doubt, traffic, release, pending, failed, boots, faults>>

DirtyVersion == \E v \in Versions : schema[v] = "dirty"

\* a schema that is marked is not touched, nor is one that cannot be read
CheckDirty(r) ==
    /\ phase[r] = "check"
    /\ \/ ~DirtyVersion /\ Go(r, "list") /\ UNCHANGED <<failed, faults>>
       \/ DirtyVersion /\ Go(r, "release") /\ failed' = [failed EXCEPT ![r] = TRUE] /\ UNCHANGED faults
       \/ Fault /\ Go(r, "release") /\ failed' = [failed EXCEPT ![r] = TRUE]
    /\ UNCHANGED <<database, traffic, release, pending, boots>>

AppliedVersions == {v \in Versions : schema[v] = "clean"}

\* the migrations of a later release are not this one's business
PendingMigrations(r) == release[r] \ AppliedVersions

ListPending(r) ==
    /\ phase[r] = "list"
    /\ \/ /\ pending' = [pending EXCEPT ![r] = PendingMigrations(r)]
          /\ Go(r, IF PendingMigrations(r) = {} THEN "release" ELSE "apply")
          /\ UNCHANGED <<failed, faults>>
       \/ /\ Fault /\ Go(r, "release") /\ failed' = [failed EXCEPT ![r] = TRUE]
          /\ UNCHANGED pending
    /\ UNCHANGED <<database, traffic, release, boots>>

NextVersion(r) == Min(pending[r])

\* Another transaction with the same tables is waited for.
Free(r) ==
    /\ NextVersion(r) \notin orphans
    /\ \A q \in Replicas \ {r} : phase[q] = "commit" => NextVersion(q) # NextVersion(r)

\* The body and the row of schema_migrations are executed in one transaction.  A body that is in
\* effect already fails, and any other may.
ExecuteBody(r) ==
    /\ phase[r] = "apply" /\ Free(r)
    /\ \/ /\ NextVersion(r) \notin done /\ schema[NextVersion(r)] = "none"
          /\ Go(r, "commit") /\ UNCHANGED faults
       \/ /\ NextVersion(r) \in done \/ schema[NextVersion(r)] # "none"
          /\ Go(r, "mark") /\ UNCHANGED faults
       \/ Fault /\ Go(r, "mark")
    /\ UNCHANGED <<database, traffic, release, pending, failed, boots>>

\* (the row is written after the commit of the body, and then not at all)
RecordedApart(v) == schema
Recorded(v) == [schema EXCEPT ![v] = "clean"]

\* The transaction commits, or it does not; the answer may be lost.
Commit(r) ==
    /\ phase[r] = "commit"
    /\ LET v == NextVersion(r) IN
       \/ /\ done' = done \cup {v} /\ schema' = Recorded(v)
          /\ pending' = [pending EXCEPT ![r] = @ \ {v}]
          /\ Go(r, IF pending[r] = {v} THEN "release" ELSE "apply")
          /\ UNCHANGED <<doubt, faults>>
       \/ /\ Fault /\ Go(r, "mark") /\ doubt' = doubt \cup {v}
          /\ \/ done' = done \cup {v} /\ schema' = Recorded(v)
             \/ UNCHANGED <<done, schema>>
          /\ UNCHANGED pending
    /\ UNCHANGED <<store, lock, orphans, traffic, release, failed, boots>>

\* (the next migration is tried all the same)
AfterMarkGoOn(r) == IF Cardinality(pending[r]) > 1 THEN "apply" ELSE "release"
AfterMark(r) == "release"

\* the mark is made in a transaction of its own, over whatever row there is, or cannot be made
MarkDirty(r) ==
    /\ phase[r] = "mark"
    /\ failed' = [failed EXCEPT ![r] = TRUE]
    /\ pending' = [pending EXCEPT ![r] = @ \ {NextVersion(r)}]
    /\ Go(r, AfterMark(r))
    /\ \/ schema' = [schema EXCEPT ![NextVersion(r)] = "dirty"] /\ UNCHANGED faults
       \/ Fault /\ UNCHANGED schema
    /\ UNCHANGED <<store, done, lock, orphans, doubt, traffic, release, boots>>

\* the process ends: its connections are cut, its lock is gone
End(r, how) ==
    /\ exit' = [exit EXCEPT ![r] = how]
    /\ cut' = [cut EXCEPT ![r] = conns[r]]
    /\ conns' = [conns EXCEPT ![r] = {}]
    /\ pending' = [pending EXCEPT ![r] = {}]
    /\ failed' = [failed EXCEPT ![r] = FALSE]
    /\ Go(r, "off")

Unlocked(r) == IF lock = r THEN None ELSE lock

\* on the way out of apply, whether it has failed or not
ReleaseLock(r) ==
    /\ phase[r] = "release"
    /\ lock' = Unlocked(r)
    /\ IF failed[r] THEN End(r, "error")
       ELSE /\ Go(r, "start")
            /\ UNCHANGED <<traffic, pending, failed>>
    /\ UNCHANGED <<store, schema, done, orphans, doubt, release, boots, faults>>

-----------------------------------------------------------------------------
(* Serving                                                                 *)

\* the sequencer reads the store, the services are built, the port is opened
Serve(r) ==
    /\ phase[r] = "start"
    /\ \/ Go(r, "serving") /\ UNCHANGED <<traffic, pending, failed, faults>>
       \/ Fault /\ End(r, "error")
    /\ UNCHANGED <<database, release, boots>>

Arrive(r, k) ==
    /\ phase[r] = "serving" /\ k \notin conns[r]
    /\ conns' = [conns EXCEPT ![r] = @ \cup {k}]
    /\ UNCHANGED <<database, exit, cut, phase, release, pending, failed, boots, faults>>

\* a request is answered; a stream ends when its client leaves
Finish(r, k) ==
    /\ phase[r] \in {"serving", "draining"} /\ k \in conns[r]
    /\ conns' = [conns EXCEPT ![r] = @ \ {k}]
    /\ UNCHANGED <<database, exit, cut, phase, release, pending, failed, boots, faults>>

\* no more connections are accepted
Terminate(r) ==
    /\ phase[r] = "serving"
    /\ Go(r, "draining")
    /\ UNCHANGED <<database, traffic, release, pending, failed, boots, faults>>

\* (the shutdown waits without an end)
ShutdownDeadlineNever(r) == FALSE
\* five seconds, although a stream may go on for ever and a request for longer
ShutdownDeadline(r) == conns[r] # {}

ShutdownResult(r) == IF conns[r] = {} THEN "ok" ELSE "error"

\* then telemetry is flushed, unless there was an error, and the database closed
Shutdown(r) ==
    /\ phase[r] = "draining"
    /\ conns[r] = {} \/ ShutdownDeadline(r)
    /\ End(r, ShutdownResult(r))
    /\ UNCHANGED <<database, release, boots, faults>>

\* Killed, or sent a signal before serve has asked for it.  Postgres finds out by and by what to
\* do with the transaction, SQLite when the file is opened again.
Kill(r) ==
    /\ phase[r] # "off" /\ Fault
    /\ lock' = Unlocked(r)
    /\ End(r, "killed")
    /\ IF phase[r] = "commit"
       THEN LET v == NextVersion(r) IN
            /\ doubt' = doubt \cup {v}
            /\ orphans' = IF store = "postgres" THEN orphans \cup {v} ELSE orphans
            /\ \/ UNCHANGED <<done, schema>>
               \/ store = "sqlite" /\ done' = done \cup {v} /\ schema' = Recorded(v)
       ELSE UNCHANGED <<doubt, orphans, done, schema>>
    /\ UNCHANGED <<store, release, boots>>

\* the server ends a transaction whose process is gone
Settle(v) ==
    /\ v \in orphans
    /\ orphans' = orphans \ {v}
    /\ \/ done' = done \cup {v} /\ schema' = Recorded(v)
       \/ UNCHANGED <<done, schema>>
    /\ UNCHANGED <<store, lock, doubt, traffic, phase, release, pending, failed, boots, faults>>

\* A replica is started with any release, an earlier one included.
Boot(r) ==
    /\ phase[r] = "off" /\ boots < MaxBoots
    /\ store = "sqlite" => \A q \in Replicas : phase[q] = "off"
    /\ \E rel \in Releases : release' = [release EXCEPT ![r] = rel]
    /\ Go(r, IF store = "postgres" THEN "lock" ELSE "check")
    /\ exit' = [exit EXCEPT ![r] = "none"]
    /\ cut' = [cut EXCEPT ![r] = {}]
    /\ boots' = boots + 1
    /\ UNCHANGED <<database, conns, pending, failed, faults>>

Init ==
    /\ store \in {"sqlite", "postgres"}
    /\ schema = [v \in Versions |-> "none"] /\ done = {} /\ orphans = {} /\ doubt = {}
    /\ lock = None
    /\ phase = [r \in Replicas |-> "off"] /\ release = [r \in Replicas |-> {}]
    /\ pending = [r \in Replicas |-> {}] /\ failed = [r \in Replicas |-> FALSE]
    /\ conns = [r \in Replicas |-> {}] /\ cut = [r \in Replicas |-> {}]
    /\ exit = [r \in Replicas |-> "none"]
    /\ boots = 0 /\ faults = 0

\* what a replica does on its own
Proceed(r) ==
    \/ TakeLock(r) \/ CheckDirty(r) \/ ListPending(r) \/ ExecuteBody(r) \/ Commit(r)
    \/ MarkDirty(r) \/ ReleaseLock(r) \/ Serve(r) \/ Shutdown(r)

Next ==
    \/ \E r \in Replicas :
          \/ Proceed(r) \/ Boot(r) \/ Terminate(r) \/ Kill(r)
          \/ \E k \in Kinds : Arrive(r, k) \/ Finish(r, k)
    \/ \E v \in Versions : Settle(v)

Spec == Init /\ [][Next]_vars

\* A replica goes on by itself, and the server ends what was left to it; clients need not leave,
\* nor requests be answered.
FairSpec ==
    /\ Spec
    /\ \A r \in Replicas : WF_vars(Proceed(r))
    /\ \A v \in Versions : WF_vars(Settle(v))

-----------------------------------------------------------------------------
(* Properties                                                              *)

(* The table of migrations tells what is in effect: a clean row stands     *)
(* for a body that is, every body that is has a row, they came in order,   *)
(* and who serves has the whole schema of its release (applyOne, apply).   *)
SchemaTrue ==
    /\ \A v \in Versions : schema[v] = "clean" => v \in done
    /\ \A v \in done : schema[v] # "none" /\ \A w \in Versions : w < v => w \in done
    /\ \A r \in Replicas : phase[r] \in {"start", "serving", "draining"} => release[r] \subseteq done

(* A schema is marked dirty only for a migration that is not in effect,    *)
(* unless the answer of its commit was lost: the repair the manual gives   *)
(* is to empty the database (local-development.md 3.4: "Reparatur: `make   *)
(* wipe` und neu starten"; acquirePostgresMigrationLock).                  *)
RightAlarm == \A v \in Versions \ doubt : schema[v] = "dirty" => v \notin done

(* Once a migration is marked, nothing more is applied, by whatever        *)
(* replicas and releases (ErrSchemaDirty, apply).                          *)
DirtyStops == [][DirtyVersion => done' = done]_vars

(* Every start ends in service or in a refusal, however others that hold   *)
(* or wait for the lock fare, and every orderly stop ends, however long    *)
(* clients stay (run, serve).                                              *)
Ends ==
    \A r \in Replicas :
        /\ phase[r] \in Booting ~> phase[r] \in {"serving", "off"}
        /\ phase[r] = "draining" ~> phase[r] = "off"
=============================================================================
