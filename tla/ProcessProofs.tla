--------------------------- MODULE ProcessProofs ---------------------------
(***************************************************************************)
(* Proofs about the API process: its start and stop (Lifecycle) and the    *)
(* SRT collector that runs in it (SrtCollector).  The two share nothing;   *)
(* each theorem names its specification.                                   *)
(*                                                                         *)
(* Lifecycle, for all replicas, migrations, releases and bounds: types,    *)
(* that the table of migrations tells what is in effect, that the alarm is *)
(* right, and that nothing is applied under it.                            *)
(* SrtCollector, for all streams, connections, thresholds and bounds:      *)
(* types and the bound of the backoff, that samples are stored once and in *)
(* order, and what is true of a sample that is stored as stale.            *)
(***************************************************************************)
EXTENDS Lifecycle, SrtCollector, FiniteSetTheorems, SequenceTheorems, TLAPS

(***************************************************************************)
(* The inductive invariant                                                 *)
(***************************************************************************)

\* The phases in which a replica is alone with the schema.
Migrating == {"check", "list", "apply", "commit", "mark", "release"}

\* One replica migrates: with Postgres the one that holds the lock, with SQLite
\* the one process that runs.
OneMigrates ==
    /\ store = "postgres" => \A r \in Replicas : phase[r] \in Migrating <=> lock = r
    /\ store = "sqlite" => \A r, q \in Replicas : phase[r] # "off" /\ phase[q] # "off" => r = q

\* The table tells what is in effect, in order.
Recording ==
    /\ \A v \in Versions : schema[v] = "clean" => v \in done
    /\ \A v \in done : schema[v] # "none" /\ \A w \in Versions : w < v => w \in done

\* A commit that its process left behind is of the next migration.
Orphaned ==
    \A v \in orphans : /\ v \in doubt /\ v \notin done
                       /\ \A w \in Versions : w < v => w \in done

\* What r has still to do, and how far it has got.
Working(r) ==
    /\ phase[r] \in {"off", "lock", "check", "list"} => pending[r] = {}
    /\ phase[r] \in {"apply", "commit", "mark"} =>
          /\ pending[r] # {} /\ release[r] \in Releases
          /\ release[r] \ pending[r] \subseteq done
    /\ phase[r] = "list" => release[r] \in Releases
    /\ phase[r] \in {"lock", "check"} => release[r] \in Releases
    /\ phase[r] = "apply" =>
          /\ orphans \subseteq {NextVersion(r)}
          /\ pending[r] \cap done \subseteq doubt
    /\ phase[r] = "commit" => orphans = {} /\ NextVersion(r) \notin done
    /\ phase[r] = "mark" => orphans = {} /\ (NextVersion(r) \in done => NextVersion(r) \in doubt)
    /\ phase[r] = "release" /\ ~failed[r] => release[r] \subseteq done
    /\ phase[r] \in {"start", "serving", "draining"} => release[r] \subseteq done

\* Under the alarm nobody is about to apply anything, not even the server.
Alarmed ==
    DirtyVersion => /\ orphans = {}
                    /\ \A r \in Replicas : phase[r] \notin {"list", "apply", "commit", "mark"}

\* Holds in every state and in every step that starts from it.
LInv ==
    /\ TypeOK /\ OneMigrates /\ Recording /\ Orphaned /\ Alarmed /\ RightAlarm
    /\ \A r \in Replicas : Working(r)

(***************************************************************************)
(* Operators                                                               *)
(***************************************************************************)

\* A set of numbers has a least one, however many there are.
LEMMA LeastNumber ==
    ASSUME NEW S, S \subseteq Nat, S # {}
    PROVE  Min(S) \in S /\ \A y \in S : Min(S) <= y
<1>1. PICK n \in S : n \in Nat
    OBVIOUS
<1> DEFINE T == {0 .. x : x \in {y \in S : y <= n}}
<1>2. IsWellFoundedOn(StrictSubsetOrdering(0 .. n), FiniteSubsetsOf(0 .. n))
    BY FS_StrictSubsetOrderingWellFounded
<1>3. T \subseteq FiniteSubsetsOf(0 .. n) /\ T # {}
    <2>1. \A x \in S : x <= n => IsFiniteSet(0 .. x) /\ 0 .. x \subseteq 0 .. n
        BY <1>1, FS_Interval
    <2>2. n <= n
        BY <1>1
    <2> QED
        BY <1>1, <2>1, <2>2 DEF FiniteSubsetsOf
<1>4. PICK m \in T : \A t \in T : <<t, m>> \notin StrictSubsetOrdering(0 .. n)
    <2> HIDE DEF T
    <2> QED
        BY <1>2, <1>3, WFMin
<1>5. PICK x \in S : x <= n /\ m = 0 .. x
    OBVIOUS
<1>6. ASSUME NEW y \in S, y < x
      PROVE  FALSE
    <2>1. y <= n /\ x \in 0 .. x /\ x \notin 0 .. y /\ 0 .. y \subseteq 0 .. x
        BY <1>1, <1>5, <1>6
    <2>2. 0 .. y \in T /\ 0 .. x \subseteq 0 .. n /\ 0 .. y # 0 .. x
        BY <1>1, <1>5, <2>1
    <2> QED
        BY <1>4, <1>5, <2>1, <2>2 DEF StrictSubsetOrdering
<1>7. \A y \in S : x <= y
    BY <1>6
<1> QED
    BY <1>7 DEF Min

\* The next migration is the earliest that is pending; those before it are in effect.
LEMMA NextIsLeast ==
    ASSUME LInv, NEW r \in Replicas, phase[r] \in {"apply", "commit", "mark"}
    PROVE  /\ NextVersion(r) \in pending[r] /\ NextVersion(r) \in Versions
           /\ NextVersion(r) \in release[r]
           /\ \A v \in pending[r] : NextVersion(r) <= v
           /\ \A w \in Versions : w < NextVersion(r) => w \in done
<1> USE LifecycleConstants DEF LInv
<1>1. /\ pending[r] # {} /\ pending[r] \subseteq Versions /\ pending[r] \subseteq release[r]
      /\ release[r] \in Releases /\ release[r] \ pending[r] \subseteq done
    BY DEF Working, TypeOK
<1>2. NextVersion(r) \in pending[r] /\ \A v \in pending[r] : NextVersion(r) <= v
    BY <1>1, LeastNumber DEF NextVersion
<1>3. ASSUME NEW w \in Versions, w < NextVersion(r)
      PROVE  w \in done
    <2>1. w \in release[r]
        BY <1>1, <1>2, <1>3
    <2>2. NextVersion(r) \in Nat /\ w \in Nat
        BY <1>1, <1>2
    <2>3. w \notin pending[r]
        BY <1>2, <1>3, <2>2
    <2> QED
        BY <1>1, <2>1, <2>3
<1> QED
    BY <1>1, <1>2, <1>3

\* Two replicas do not migrate at once.
LEMMA Alone ==
    ASSUME LInv, NEW r \in Replicas, NEW q \in Replicas,
           phase[r] \in Migrating, phase[q] \in Migrating
    PROVE  r = q
BY DEF LInv, TypeOK, OneMigrates, Migrating

(***************************************************************************)
(* Types                                                                   *)
(***************************************************************************)

\* Types.
LEMMA TypeStep ==
    ASSUME LInv, [Next]_vars
    PROVE  TypeOK'
<1> USE LifecycleConstants DEF LInv
<1>1. TypeOK
    OBVIOUS
<1>2. ASSUME NEW r \in Replicas, TakeLock(r)
      PROVE  TypeOK'
    BY <1>1, <1>2 DEF TakeLock, Go, Booting, TypeOK, traffic
<1>3. ASSUME NEW r \in Replicas, CheckDirty(r)
      PROVE  TypeOK'
    <2>1. faults' \in 0 .. MaxFaults
        BY <1>1, <1>3 DEF CheckDirty, Fault, TypeOK
    <2> QED
        BY <1>1, <1>3, <2>1 DEF CheckDirty, Go, Booting, TypeOK, traffic, database
<1>4. ASSUME NEW r \in Replicas, ListPending(r)
      PROVE  TypeOK'
    <2>1. faults' \in 0 .. MaxFaults
        BY <1>1, <1>4 DEF ListPending, Fault, TypeOK
    <2>2. PendingMigrations(r) \subseteq release[r] /\ PendingMigrations(r) \subseteq Versions
        BY <1>1, <1>4 DEF PendingMigrations, ListPending, Working
    <2>3. /\ pending' \in [Replicas -> SUBSET Versions]
          /\ \A q \in Replicas : pending'[q] \subseteq release[q]
        BY <1>1, <1>4, <2>2 DEF ListPending, TypeOK
    <2>4. phase' \in [Replicas -> Booting \cup {"off", "serving", "draining"}]
        BY <1>1, <1>4 DEF ListPending, Go, Booting, TypeOK
    <2>5. failed' \in [Replicas -> BOOLEAN]
        BY <1>1, <1>4 DEF ListPending, TypeOK
    <2> QED
        BY <1>1, <1>4, <2>1, <2>3, <2>4, <2>5 DEF ListPending, TypeOK, traffic, database
<1>5. ASSUME NEW r \in Replicas, ExecuteBody(r)
      PROVE  TypeOK'
    <2>1. faults' \in 0 .. MaxFaults
        BY <1>1, <1>5 DEF ExecuteBody, Fault, TypeOK
    <2> QED
        BY <1>1, <1>5, <2>1 DEF ExecuteBody, Go, Booting, TypeOK, traffic, database
<1>6. ASSUME NEW r \in Replicas, Commit(r)
      PROVE  TypeOK'
    <2>1. faults' \in 0 .. MaxFaults
        BY <1>1, <1>6 DEF Commit, Fault, TypeOK
    <2>2. NextVersion(r) \in Versions
        BY <1>6, NextIsLeast DEF Commit
    <2>3. schema' \in [Versions -> {"none", "clean", "dirty"}] /\ done' \subseteq Versions
          /\ doubt' \subseteq Versions
        <3>1. Recorded(NextVersion(r)) \in [Versions -> {"none", "clean", "dirty"}]
            BY <1>1, <2>2 DEF Recorded, TypeOK
        <3> QED
            BY <1>1, <1>6, <2>2, <3>1 DEF Commit, TypeOK
    <2>4. /\ pending' \in [Replicas -> SUBSET Versions]
          /\ \A q \in Replicas : pending'[q] \subseteq release[q]
        BY <1>1, <1>6 DEF Commit, TypeOK
    <2>5. phase' \in [Replicas -> Booting \cup {"off", "serving", "draining"}]
        BY <1>1, <1>6 DEF Commit, Go, Booting, TypeOK
    <2> QED
        BY <1>1, <1>6, <2>1, <2>3, <2>4, <2>5 DEF Commit, TypeOK, traffic
<1>7. ASSUME NEW r \in Replicas, MarkDirty(r)
      PROVE  TypeOK'
    <2>1. faults' \in 0 .. MaxFaults
        BY <1>1, <1>7 DEF MarkDirty, Fault, TypeOK
    <2>2. schema' \in [Versions -> {"none", "clean", "dirty"}]
        BY <1>1, <1>7 DEF MarkDirty, TypeOK
    <2>3. /\ pending' \in [Replicas -> SUBSET Versions]
          /\ \A q \in Replicas : pending'[q] \subseteq release[q]
        BY <1>1, <1>7 DEF MarkDirty, TypeOK
    <2> QED
        BY <1>1, <1>7, <2>1, <2>2, <2>3 DEF MarkDirty, AfterMark, Go, Booting, TypeOK, traffic
<1>8. ASSUME NEW r \in Replicas, NEW how \in {"ok", "error", "killed"}, End(r, how)
      PROVE  /\ phase' \in [Replicas -> Booting \cup {"off", "serving", "draining"}]
             /\ failed' \in [Replicas -> BOOLEAN]
             /\ exit' \in [Replicas -> {"none", "ok", "error", "killed"}]
             /\ conns' \in [Replicas -> SUBSET Kinds] /\ cut' \in [Replicas -> SUBSET Kinds]
             /\ pending' \in [Replicas -> SUBSET Versions]
             /\ \A q \in Replicas : pending'[q] \subseteq release[q]
    BY <1>1, <1>8 DEF End, Go, TypeOK
<1>9. ASSUME NEW r \in Replicas, ReleaseLock(r)
      PROVE  TypeOK'
    <2>1. lock' \in Replicas \cup {None}
        BY <1>1, <1>9 DEF ReleaseLock, Unlocked, TypeOK
    <2>2. CASE failed[r]
        BY <1>1, <1>8, <1>9, <2>1, <2>2 DEF ReleaseLock, TypeOK
    <2>3. CASE ~failed[r]
        BY <1>1, <1>9, <2>1, <2>3 DEF ReleaseLock, Go, Booting, TypeOK, traffic
    <2> QED
        BY <2>2, <2>3
<1>10. ASSUME NEW r \in Replicas, Serve(r)
       PROVE  TypeOK'
    <2>1. CASE Go(r, "serving") /\ UNCHANGED <<traffic, pending, failed, faults>>
        BY <1>1, <1>10, <2>1 DEF Serve, Go, TypeOK, traffic, database
    <2>2. CASE Fault /\ End(r, "error")
        <3>1. faults' \in 0 .. MaxFaults
            BY <1>1, <2>2 DEF Fault, TypeOK
        <3> QED
            BY <1>1, <1>8, <1>10, <2>2, <3>1 DEF Serve, TypeOK, database
    <2> QED
        BY <1>10, <2>1, <2>2 DEF Serve
<1>11. ASSUME NEW r \in Replicas, NEW k \in Kinds, Arrive(r, k) \/ Finish(r, k)
       PROVE  TypeOK'
    <2>1. conns' \in [Replicas -> SUBSET Kinds]
        BY <1>1, <1>11 DEF Arrive, Finish, TypeOK
    <2> QED
        BY <1>1, <1>11, <2>1 DEF Arrive, Finish, TypeOK, database
<1>12. ASSUME NEW r \in Replicas, Terminate(r)
       PROVE  TypeOK'
    BY <1>1, <1>12 DEF Terminate, Go, TypeOK, traffic, database
<1>13. ASSUME NEW r \in Replicas, Shutdown(r)
       PROVE  TypeOK'
    BY <1>1, <1>8, <1>13 DEF Shutdown, ShutdownResult, TypeOK, database
<1>14. ASSUME NEW r \in Replicas, Kill(r)
       PROVE  TypeOK'
    <2>1. faults' \in 0 .. MaxFaults /\ lock' \in Replicas \cup {None}
        BY <1>1, <1>14 DEF Kill, Fault, Unlocked, TypeOK
    <2>2. /\ schema' \in [Versions -> {"none", "clean", "dirty"}] /\ done' \subseteq Versions
          /\ doubt' \subseteq Versions /\ orphans' \subseteq Versions
        <3>1. CASE phase[r] = "commit"
            <4>1. NextVersion(r) \in Versions
                BY <3>1, NextIsLeast
            <4> QED
                BY <1>1, <1>14, <3>1, <4>1 DEF Kill, Recorded, TypeOK
        <3>2. CASE phase[r] # "commit"
            BY <1>1, <1>14, <3>2 DEF Kill, TypeOK
        <3> QED
            BY <3>1, <3>2
    <2>3. End(r, "killed") /\ UNCHANGED <<store, release, boots>>
        BY <1>14 DEF Kill
    <2> QED
        BY <1>1, <1>8, <2>1, <2>2, <2>3 DEF TypeOK
<1>15. ASSUME NEW v \in Versions, Settle(v)
       PROVE  TypeOK'
    <2>1. Recorded(v) \in [Versions -> {"none", "clean", "dirty"}]
        BY <1>1 DEF Recorded, TypeOK
    <2>2. /\ schema' \in [Versions -> {"none", "clean", "dirty"}] /\ done' \subseteq Versions
          /\ orphans' \subseteq Versions
        BY <1>1, <1>15, <2>1 DEF Settle, TypeOK
    <2> QED
        BY <1>1, <1>15, <2>2 DEF Settle, TypeOK, traffic
<1>16. ASSUME NEW r \in Replicas, Boot(r)
       PROVE  TypeOK'
    <2>1. PICK rel \in Releases : release' = [release EXCEPT ![r] = rel]
        BY <1>16 DEF Boot
    <2>2. pending[r] = {}
        BY <1>16 DEF Boot, Working
    <2>3. /\ release' \in [Replicas -> Releases \cup {{}}]
          /\ \A q \in Replicas : pending[q] \subseteq release'[q]
        BY <1>1, <2>1, <2>2 DEF TypeOK
    <2>4. /\ phase' \in [Replicas -> Booting \cup {"off", "serving", "draining"}]
          /\ exit' \in [Replicas -> {"none", "ok", "error", "killed"}]
          /\ cut' \in [Replicas -> SUBSET Kinds] /\ boots' \in 0 .. MaxBoots
        BY <1>1, <1>16 DEF Boot, Go, Booting, TypeOK
    <2> QED
        BY <1>1, <1>16, <2>3, <2>4 DEF Boot, TypeOK, database
<1>17. CASE UNCHANGED vars
    BY <1>1, <1>17 DEF vars, database, traffic, TypeOK
<1> QED
    BY <1>2, <1>3, <1>4, <1>5, <1>6, <1>7, <1>9, <1>10, <1>11, <1>12, <1>13, <1>14, <1>15,
       <1>16, <1>17 DEF Next, Proceed

(***************************************************************************)
(* One migrates                                                            *)
(***************************************************************************)

\* With Postgres the lock decides who migrates, with SQLite there is one process.
LEMMA OneMigratesStep ==
    ASSUME LInv, [Next]_vars
    PROVE  OneMigrates'
<1> USE LifecycleConstants DEF LInv
<1>0. phase \in [Replicas -> Booting \cup {"off", "serving", "draining"}] /\ OneMigrates
    BY DEF TypeOK
<1>1. ASSUME NEW r \in Replicas, TakeLock(r)
      PROVE  OneMigrates'
    BY <1>0, <1>1 DEF TakeLock, AcquireMigrationLock, Go, OneMigrates, Migrating, TypeOK
<1>2. ASSUME NEW r \in Replicas, phase[r] # "off", lock' = lock, store' = store,
             NEW p, Go(r, p), p # "off", phase[r] \in Migrating <=> p \in Migrating
      PROVE  OneMigrates'
    BY <1>0, <1>2 DEF Go, OneMigrates
<1>3. ASSUME NEW r \in Replicas, phase[r] # "off", lock' = Unlocked(r), store' = store,
             NEW p, Go(r, p), p \notin Migrating
      PROVE  OneMigrates'
    <2>1. \A q \in Replicas : phase'[q] = IF q = r THEN p ELSE phase[q]
        BY <1>0, <1>3 DEF Go
    <2>2. store' = "postgres" => \A q \in Replicas : phase'[q] \in Migrating <=> lock' = q
        BY <1>0, <1>3, <2>1 DEF OneMigrates, Unlocked, TypeOK
    <2> QED
        BY <1>0, <1>3, <2>1, <2>2 DEF OneMigrates
<1>4. ASSUME NEW r \in Replicas, CheckDirty(r) \/ ListPending(r) \/ ExecuteBody(r)
      PROVE  OneMigrates'
    <2>1. PICK p \in {"list", "release", "apply", "commit", "mark"} : Go(r, p)
        BY <1>4 DEF CheckDirty, ListPending, ExecuteBody
    <2> QED
        BY <1>2, <1>4, <2>1 DEF CheckDirty, ListPending, ExecuteBody, database, Migrating
<1>5. ASSUME NEW r \in Replicas, Commit(r) \/ MarkDirty(r)
      PROVE  OneMigrates'
    <2>1. PICK p \in {"release", "apply", "mark"} : Go(r, p)
        BY <1>5 DEF Commit, MarkDirty, AfterMark
    <2> QED
        BY <1>2, <1>5, <2>1 DEF Commit, MarkDirty, Migrating
<1>6. ASSUME NEW r \in Replicas, ReleaseLock(r)
      PROVE  OneMigrates'
    <2>1. PICK p \in {"off", "start"} : Go(r, p)
        BY <1>6 DEF ReleaseLock, End
    <2> QED
        BY <1>3, <1>6, <2>1 DEF ReleaseLock, Migrating
<1>7. ASSUME NEW r \in Replicas, Kill(r)
      PROVE  OneMigrates'
    <2>1. Go(r, "off")
        BY <1>7 DEF Kill, End
    <2> QED
        BY <1>3, <1>7, <2>1 DEF Kill, Migrating
<1>8. ASSUME NEW r \in Replicas, Serve(r) \/ Terminate(r) \/ Shutdown(r)
      PROVE  OneMigrates'
    <2>1. PICK p \in {"off", "serving", "draining"} : Go(r, p)
        BY <1>8 DEF Serve, Terminate, Shutdown, End
    <2>2. phase[r] \in {"start", "serving", "draining"} /\ UNCHANGED <<lock, store>>
        BY <1>8 DEF Serve, Terminate, Shutdown, database
    <2>3. lock = Unlocked(r) \/ store = "sqlite"
        BY <1>0, <2>2 DEF OneMigrates, Unlocked, Migrating, TypeOK
    <2> QED
        BY <1>0, <2>1, <2>2, <2>3 DEF Go, OneMigrates, Migrating
<1>9. ASSUME NEW r \in Replicas, Boot(r)
      PROVE  OneMigrates'
    BY <1>0, <1>9 DEF Boot, Go, OneMigrates, Migrating, database, TypeOK
<1>10. CASE UNCHANGED <<phase, lock, store>>
    BY <1>0, <1>10 DEF OneMigrates
<1> QED
    BY <1>1, <1>4, <1>5, <1>6, <1>7, <1>8, <1>9, <1>10 DEF Next, Proceed, Arrive, Finish, Settle,
       vars, database

(***************************************************************************)
(* The database                                                            *)
(***************************************************************************)

\* What the database tells.
Told == Recording /\ Orphaned /\ RightAlarm /\ Alarmed

\* Nothing that is told changes as long as the database and the phases of the
\* migration do not.
LEMMA ToldStays ==
    ASSUME LInv, UNCHANGED <<schema, done, orphans, doubt>>,
           \A r \in Replicas : phase'[r] \in {"list", "apply", "commit", "mark"} =>
              phase[r] \in {"list", "apply", "commit", "mark"} \/ ~DirtyVersion
    PROVE  Told'
BY DEF LInv, Told, Recording, Orphaned, RightAlarm, Alarmed, DirtyVersion

\* A commit adds the next migration, with its row.
LEMMA Committed ==
    ASSUME LInv, NEW v \in Versions, v \notin done,
           \A w \in Versions : w < v => w \in done,
           ~DirtyVersion, schema' = Recorded(v), done' = done \cup {v},
           orphans' = {}, doubt \subseteq doubt'
    PROVE  Told'
<1> USE LifecycleConstants DEF LInv
<1>1. \A w \in Versions : schema'[w] = IF w = v THEN "clean" ELSE schema[w]
    BY DEF Recorded, TypeOK
<1>2. ~DirtyVersion'
    BY <1>1 DEF DirtyVersion
<1>3. Recording'
    BY <1>1 DEF Recording, TypeOK
<1> QED
    BY <1>2, <1>3 DEF Told, Orphaned, RightAlarm, Alarmed, DirtyVersion

\* What the database tells stays true.
LEMMA ToldStep ==
    ASSUME LInv, [Next]_vars
    PROVE  Told'
<1> USE LifecycleConstants DEF LInv
<1>0. phase \in [Replicas -> Booting \cup {"off", "serving", "draining"}]
      /\ schema \in [Versions -> {"none", "clean", "dirty"}]
    BY DEF TypeOK
<1>1. ASSUME NEW r \in Replicas, NEW p, Go(r, p), UNCHANGED <<schema, done, orphans, doubt>>,
             p \in {"list", "apply", "commit", "mark"} =>
                 phase[r] \in {"list", "apply", "commit", "mark"} \/ ~DirtyVersion
      PROVE  Told'
    BY <1>0, <1>1, ToldStays DEF Go
<1>2. ASSUME NEW r \in Replicas, TakeLock(r)
      PROVE  Told'
    BY <1>1, <1>2 DEF TakeLock
<1>3. ASSUME NEW r \in Replicas, CheckDirty(r)
      PROVE  Told'
    BY <1>1, <1>3 DEF CheckDirty, database
<1>4. ASSUME NEW r \in Replicas, ListPending(r) \/ ExecuteBody(r)
      PROVE  Told'
    <2>1. PICK p : Go(r, p)
        BY <1>4 DEF ListPending, ExecuteBody
    <2> QED
        BY <1>1, <1>4, <2>1 DEF ListPending, ExecuteBody, database
<1>5. ASSUME NEW r \in Replicas, Serve(r) \/ Terminate(r) \/ Shutdown(r) \/ Boot(r)
      PROVE  Told'
    <2>1. PICK p \in {"off", "serving", "draining", "lock", "check"} : Go(r, p)
        BY <1>5 DEF Serve, Terminate, Shutdown, Boot, End
    <2> QED
        BY <1>1, <1>5, <2>1 DEF Serve, Terminate, Shutdown, Boot, database
<1>6. ASSUME NEW r \in Replicas, ReleaseLock(r)
      PROVE  Told'
    <2>1. PICK p \in {"off", "start"} : Go(r, p)
        BY <1>6 DEF ReleaseLock, End
    <2> QED
        BY <1>1, <1>6, <2>1 DEF ReleaseLock
<1>7. ASSUME NEW r \in Replicas, phase[r] = "commit"
      PROVE  /\ NextVersion(r) \in Versions /\ NextVersion(r) \notin done
             /\ \A w \in Versions : w < NextVersion(r) => w \in done
             /\ ~DirtyVersion /\ orphans = {}
    BY <1>7, NextIsLeast DEF Working, Alarmed
<1>8. ASSUME NEW r \in Replicas, Commit(r)
      PROVE  Told'
    <2>1. orphans' = orphans /\ doubt \subseteq doubt'
        BY <1>8 DEF Commit
    <2>2. CASE done' = done \cup {NextVersion(r)} /\ schema' = Recorded(NextVersion(r))
        BY <1>7, <1>8, <2>1, <2>2, Committed DEF Commit
    <2>3. CASE UNCHANGED <<done, schema>>
        BY <1>7, <1>8, <2>1, <2>3 DEF Commit, Told, Recording, Orphaned, RightAlarm, Alarmed, DirtyVersion
    <2> QED
        BY <1>8, <2>2, <2>3 DEF Commit
<1>9. ASSUME NEW r \in Replicas, MarkDirty(r)
      PROVE  Told'
    <2>1. /\ NextVersion(r) \in Versions /\ orphans = {}
          /\ NextVersion(r) \in done => NextVersion(r) \in doubt
        BY <1>9, NextIsLeast DEF MarkDirty, Working
    <2>2. /\ UNCHANGED <<done, orphans, doubt>>
          /\ schema' \in {schema, [schema EXCEPT ![NextVersion(r)] = "dirty"]}
        BY <1>9 DEF MarkDirty
    <2>3. \A v \in Versions : schema'[v] = schema[v] \/ (v = NextVersion(r) /\ schema'[v] = "dirty")
        BY <1>0, <2>1, <2>2
    <2>4. \A q \in Replicas : phase'[q] \notin {"list", "apply", "commit", "mark"}
        <3>1. phase' = [phase EXCEPT ![r] = "release"] /\ phase[r] = "mark"
            BY <1>9 DEF MarkDirty, AfterMark, Go
        <3>2. \A q \in Replicas : q # r => phase[q] \notin Migrating
            BY <3>1, Alone DEF Migrating
        <3> QED
            BY <1>0, <3>1, <3>2 DEF Migrating
    <2>5. Recording'
        BY <2>1, <2>2, <2>3 DEF Recording, TypeOK
    <2>6. RightAlarm'
        BY <2>1, <2>2, <2>3 DEF RightAlarm
    <2> QED
        BY <2>1, <2>2, <2>4, <2>5, <2>6 DEF Told, Orphaned, Alarmed
<1>10. ASSUME NEW r \in Replicas, Kill(r)
       PROVE  Told'
    <2>1. CASE phase[r] # "commit"
        <3>1. Go(r, "off") /\ UNCHANGED <<schema, done, orphans, doubt>>
            BY <1>10, <2>1 DEF Kill, End
        <3> QED
            BY <1>1, <3>1
    <2>2. CASE phase[r] = "commit"
        <3> DEFINE v == NextVersion(r)
        <3>1. /\ doubt' = doubt \cup {v}
              /\ orphans' = IF store = "postgres" THEN orphans \cup {v} ELSE orphans
              /\ \/ UNCHANGED <<done, schema>>
                 \/ store = "sqlite" /\ done' = done \cup {v} /\ schema' = Recorded(v)
            BY <1>10, <2>2 DEF Kill
        <3>2. v \in Versions /\ v \notin done /\ (\A w \in Versions : w < v => w \in done)
              /\ ~DirtyVersion /\ orphans = {}
            BY <1>7, <2>2
        <3> HIDE DEF v
        <3>3. CASE UNCHANGED <<done, schema>>
            <4>1. Orphaned'
                BY <3>1, <3>2, <3>3 DEF Orphaned
            <4> QED
                BY <3>1, <3>2, <3>3, <4>1 DEF Told, Recording, RightAlarm, Alarmed, DirtyVersion
        <3>4. CASE store = "sqlite" /\ done' = done \cup {v} /\ schema' = Recorded(v)
            BY <3>1, <3>2, <3>4, Committed
        <3> QED
            BY <3>1, <3>3, <3>4
    <2> QED
        BY <2>1, <2>2
<1>11. ASSUME NEW v \in Versions, Settle(v)
       PROVE  Told'
    <2>1. /\ v \in orphans /\ v \in doubt /\ v \notin done /\ ~DirtyVersion
          /\ \A w \in Versions : w < v => w \in done
        BY <1>11 DEF Settle, Orphaned, Alarmed
    <2>2. orphans' = {}
        <3> SUFFICES ASSUME NEW w \in orphans, w # v PROVE FALSE
            BY <1>11 DEF Settle
        <3>1. w \in Versions /\ w \in Nat /\ v \in Nat /\ w \notin done
            BY DEF TypeOK, Orphaned
        <3>2. v < w \/ w < v
            BY <3>1
        <3> QED
            BY <2>1, <3>1, <3>2 DEF Orphaned
    <2>3. doubt' = doubt
        BY <1>11 DEF Settle
    <2>4. CASE done' = done \cup {v} /\ schema' = Recorded(v)
        BY <2>1, <2>2, <2>3, <2>4, Committed
    <2>5. CASE UNCHANGED <<done, schema>>
        BY <2>1, <2>2, <2>3, <2>5 DEF Told, Recording, Orphaned, RightAlarm, Alarmed, DirtyVersion
    <2> QED
        BY <1>11, <2>4, <2>5 DEF Settle
<1>12. CASE UNCHANGED <<schema, done, orphans, doubt, phase>>
    BY <1>12, ToldStays
<1> QED
    BY <1>2, <1>3, <1>4, <1>5, <1>6, <1>8, <1>9, <1>10, <1>11, <1>12 DEF Next, Proceed, Arrive,
       Finish, vars, database

(***************************************************************************)
(* The replicas                                                            *)
(***************************************************************************)

\* What others do leaves a replica where it is with its work.
LEMMA WorkingStays ==
    ASSUME LInv, NEW q \in Replicas, phase'[q] = phase[q], release'[q] = release[q],
           pending'[q] = pending[q], failed'[q] = failed[q],
           done \subseteq done', doubt \subseteq doubt',
           phase[q] \in {"apply", "commit", "mark"} =>
               /\ orphans' \subseteq orphans /\ done' \subseteq done \cup doubt
               /\ phase[q] # "apply" => done' = done
    PROVE  Working(q)'
<1>1. NextVersion(q)' = NextVersion(q)
    BY DEF NextVersion
<1>2. Working(q)
    BY DEF LInv
<1> QED
    BY <1>1, <1>2 DEF Working

\* A replica that does not migrate only sees more in effect.
LEMMA WorkingElsewhere ==
    ASSUME LInv, NEW r \in Replicas, phase[r] \in Migrating, NEW q \in Replicas, q # r,
           phase'[q] = phase[q], release'[q] = release[q],
           pending'[q] = pending[q], failed'[q] = failed[q],
           done \subseteq done', doubt \subseteq doubt'
    PROVE  Working(q)'
<1>1. phase[q] \notin Migrating
    BY Alone
<1> QED
    BY <1>1, WorkingStays DEF Migrating

\* Where a step of r goes, the others stay.
LEMMA OthersStay ==
    ASSUME TypeOK, NEW r \in Replicas, NEW q \in Replicas, q # r,
           Proceed(r) \/ Boot(r) \/ Terminate(r) \/ Kill(r)
    PROVE  /\ phase'[q] = phase[q] /\ release'[q] = release[q]
           /\ pending'[q] = pending[q] /\ failed'[q] = failed[q]
<1>1. ASSUME NEW p, Go(r, p)
      PROVE  phase'[q] = phase[q]
    BY <1>1 DEF Go, TypeOK
<1>2. ASSUME NEW how, End(r, how)
      PROVE  phase'[q] = phase[q] /\ pending'[q] = pending[q] /\ failed'[q] = failed[q]
    BY <1>2 DEF End, Go, TypeOK
<1>3. CASE TakeLock(r)
    BY <1>1, <1>3 DEF TakeLock
<1>4. CASE CheckDirty(r)
    BY <1>1, <1>4 DEF CheckDirty, TypeOK
<1>5. CASE ListPending(r)
    BY <1>1, <1>5 DEF ListPending, TypeOK
<1>6. CASE ExecuteBody(r)
    BY <1>1, <1>6 DEF ExecuteBody
<1>7. CASE Commit(r)
    BY <1>1, <1>7 DEF Commit, TypeOK
<1>8. CASE MarkDirty(r)
    BY <1>1, <1>8 DEF MarkDirty, TypeOK
<1>9. CASE ReleaseLock(r)
    BY <1>1, <1>2, <1>9 DEF ReleaseLock
<1>10. CASE Serve(r)
    BY <1>1, <1>2, <1>10 DEF Serve
<1>11. CASE Shutdown(r)
    BY <1>2, <1>11 DEF Shutdown
<1>12. CASE Terminate(r)
    BY <1>1, <1>12 DEF Terminate
<1>13. CASE Kill(r)
    BY <1>2, <1>13 DEF Kill
<1>14. CASE Boot(r)
    BY <1>1, <1>14 DEF Boot, TypeOK
<1> QED
    BY <1>3, <1>4, <1>5, <1>6, <1>7, <1>8, <1>9, <1>10, <1>11, <1>12, <1>13, <1>14 DEF Proceed

\* A replica that has ended has nothing to do.
LEMMA EndedWorks ==
    ASSUME TypeOK, NEW r \in Replicas, NEW how, End(r, how)
    PROVE  Working(r)'
BY DEF End, Go, Working, TypeOK

\* The migrations that a release has still to apply are not in effect, and the
\* one that was left behind is the first of them.
LEMMA PendingListed ==
    ASSUME LInv, NEW r \in Replicas, phase[r] = "list"
    PROVE  LET todo == PendingMigrations(r) IN
           /\ release[r] \ todo \subseteq done /\ todo \cap done = {}
           /\ todo # {} => orphans \subseteq {Min(todo)}
<1> USE LifecycleConstants DEF LInv
<1> DEFINE todo == PendingMigrations(r)
<1>1. release[r] \in Releases /\ release[r] \subseteq Versions /\ ~DirtyVersion
    BY DEF Working, Alarmed
<1>2. \A v \in Versions : schema[v] = "clean" <=> v \in done
    BY <1>1 DEF Recording, DirtyVersion, TypeOK
<1>3. todo = release[r] \ done
    BY <1>1, <1>2 DEF PendingMigrations, AppliedVersions, TypeOK
<1>4. ASSUME todo # {}, NEW o \in orphans
      PROVE  o = Min(todo)
    <2>1. todo \subseteq Nat
        BY <1>1, <1>3
    <2>2. Min(todo) \in todo /\ \A y \in todo : Min(todo) <= y
        BY <1>4, <2>1, LeastNumber
    <2>3. Min(todo) \notin done /\ Min(todo) \in release[r] /\ Min(todo) \in Versions
        BY <1>1, <1>3, <2>2
    <2>4. o \in Versions /\ o \notin done /\ \A w \in Versions : w < o => w \in done
        BY DEF Orphaned, TypeOK
    <2>5. o \in Nat /\ Min(todo) \in Nat
        BY <2>3, <2>4
    <2>6. ~(Min(todo) < o)
        BY <2>3, <2>4
    <2>7. o < Min(todo) => o \in todo
        BY <1>1, <1>3, <2>3, <2>4
    <2> QED
        BY <2>2, <2>5, <2>6, <2>7
<1> QED
    BY <1>3, <1>4

\* Each replica goes on with its work as its release and the database demand.
LEMMA WorkingStep ==
    ASSUME LInv, [Next]_vars, NEW q \in Replicas
    PROVE  Working(q)'
<1> USE LifecycleConstants DEF LInv
<1>0. /\ phase \in [Replicas -> Booting \cup {"off", "serving", "draining"}]
      /\ pending \in [Replicas -> SUBSET Versions] /\ release \in [Replicas -> Releases \cup {{}}]
      /\ failed \in [Replicas -> BOOLEAN] /\ Working(q)
    BY DEF TypeOK
<1>1. ASSUME NEW r \in Replicas, NEW p, Go(r, p)
      PROVE  phase'[r] = p
    BY <1>0, <1>1 DEF Go
<1>2. ASSUME UNCHANGED <<done, orphans, doubt, release, pending, failed>>, phase'[q] = phase[q]
      PROVE  Working(q)'
    BY <1>2, WorkingStays
<1>3. CASE TakeLock(q)
    <2>1. phase[q] = "lock" /\ phase'[q] = "check" /\ UNCHANGED <<release, pending>>
        BY <1>1, <1>3 DEF TakeLock
    <2> QED
        BY <1>0, <2>1 DEF Working
<1>4. CASE CheckDirty(q)
    <2>1. /\ phase[q] = "check" /\ UNCHANGED <<release, pending>>
          /\ \/ phase'[q] = "list"
             \/ phase'[q] = "release" /\ failed'[q]
        BY <1>0, <1>1, <1>4 DEF CheckDirty
    <2> QED
        BY <1>0, <2>1 DEF Working
<1>5. CASE ListPending(q)
    <2> DEFINE todo == PendingMigrations(q)
    <2>1. phase[q] = "list" /\ UNCHANGED <<release, done, orphans, doubt>> /\ release[q] \in Releases
        BY <1>0, <1>5 DEF ListPending, Working, database
    <2>2. /\ release[q] \ todo \subseteq done /\ todo \cap done = {}
          /\ todo # {} => orphans \subseteq {Min(todo)}
        BY <2>1, PendingListed
    <2>3. \/ todo # {} /\ phase'[q] = "apply" /\ pending'[q] = todo
          \/ todo = {} /\ phase'[q] = "release"
          \/ phase'[q] = "release" /\ failed'[q]
        BY <1>0, <1>1, <1>5 DEF ListPending
    <2>4. todo # {} /\ pending'[q] = todo => NextVersion(q)' = Min(todo)
        BY DEF NextVersion
    <2> HIDE DEF todo
    <2> QED
        BY <2>1, <2>2, <2>3, <2>4 DEF Working
<1>6. CASE ExecuteBody(q)
    <2>1. /\ phase[q] = "apply" /\ NextVersion(q) \notin orphans
          /\ UNCHANGED <<release, pending, done, orphans, doubt>>
        BY <1>6 DEF ExecuteBody, Free, database
    <2>2. NextVersion(q)' = NextVersion(q)
        BY <2>1 DEF NextVersion
    <2>3. orphans = {} /\ (NextVersion(q) \in done => NextVersion(q) \in doubt)
        BY <1>0, <2>1, NextIsLeast DEF Working
    <2>4. \/ phase'[q] = "commit" /\ NextVersion(q) \notin done
          \/ phase'[q] = "mark"
        BY <1>1, <1>6 DEF ExecuteBody
    <2> QED
        BY <1>0, <2>1, <2>2, <2>3, <2>4 DEF Working
<1>7. CASE Commit(q)
    <2> DEFINE v == NextVersion(q)
    <2>1. /\ phase[q] = "commit" /\ UNCHANGED <<release, orphans, failed>>
          /\ orphans = {} /\ v \notin done /\ v \in pending[q]
          /\ release[q] \ pending[q] \subseteq done /\ release[q] \in Releases
        BY <1>0, <1>7, NextIsLeast DEF Commit, Working
    <2> HIDE DEF v
    <2>2. CASE /\ done' = done \cup {v} /\ doubt' = doubt
               /\ pending' = [pending EXCEPT ![q] = @ \ {v}]
               /\ Go(q, IF pending[q] = {v} THEN "release" ELSE "apply")
        <3>1. pending'[q] = pending[q] \ {v}
              /\ phase'[q] = IF pending[q] = {v} THEN "release" ELSE "apply"
            BY <1>0, <1>1, <2>2
        <3>2. CASE pending[q] = {v}
            BY <2>1, <2>2, <3>1, <3>2 DEF Working
        <3>3. CASE pending[q] # {v}
            <4>1. pending[q] \cap done = {}
                <5>1. ASSUME NEW w \in pending[q], w \in done
                      PROVE  FALSE
                    <6>1. v \in Nat /\ w \in Nat /\ v <= w /\ w # v
                        BY <2>1, <5>1, NextIsLeast DEF v, TypeOK
                    <6>2. v \in done
                        BY <2>1, <5>1, <6>1, NextIsLeast DEF Recording, v, TypeOK
                    <6> QED
                        BY <2>1, <6>2
                <5> QED
                    BY <5>1
            <4>2. /\ pending'[q] # {} /\ phase'[q] = "apply"
                  /\ release'[q] \ pending'[q] \subseteq done' /\ release'[q] \in Releases
                  /\ orphans' = {} /\ pending'[q] \cap done' = {}
                BY <2>1, <2>2, <3>1, <3>3, <4>1
            <4> QED
                BY <4>2 DEF Working
        <3> QED
            BY <3>2, <3>3
    <2>3. CASE /\ Go(q, "mark") /\ doubt' = doubt \cup {v} /\ pending' = pending
               /\ done' \in {done, done \cup {v}}
        <3>1. phase'[q] = "mark" /\ NextVersion(q)' = v
            BY <1>1, <2>3 DEF NextVersion, v
        <3>2. release'[q] \ pending'[q] \subseteq done' /\ pending'[q] # {}
            BY <2>1, <2>3
        <3> QED
            BY <2>1, <2>3, <3>1, <3>2 DEF Working
    <2> QED
        BY <1>7, <2>2, <2>3 DEF Commit, v
<1>8. CASE MarkDirty(q)
    <2>1. phase'[q] = "release" /\ failed'[q]
        BY <1>0, <1>1, <1>8 DEF MarkDirty, AfterMark
    <2> QED
        BY <2>1 DEF Working
<1>9. CASE ReleaseLock(q)
    <2>1. CASE failed[q]
        BY <1>9, <2>1, EndedWorks DEF ReleaseLock
    <2>2. CASE ~failed[q]
        <3>1. phase[q] = "release" /\ phase'[q] = "start" /\ UNCHANGED <<release, done>>
            BY <1>1, <1>9, <2>2 DEF ReleaseLock
        <3> QED
            BY <1>0, <2>2, <3>1 DEF Working
    <2> QED
        BY <2>1, <2>2
<1>10. CASE Serve(q)
    <2>1. CASE Go(q, "serving")
        <3>1. phase[q] = "start" /\ phase'[q] = "serving" /\ UNCHANGED <<release, done>>
            BY <1>1, <1>10, <2>1 DEF Serve, database
        <3> QED
            BY <1>0, <3>1 DEF Working
    <2>2. CASE End(q, "error")
        BY <2>2, EndedWorks
    <2> QED
        BY <1>10, <2>1, <2>2 DEF Serve
<1>11. CASE Terminate(q)
    <2>1. phase[q] = "serving" /\ phase'[q] = "draining" /\ UNCHANGED <<release, done>>
        BY <1>1, <1>11 DEF Terminate, database
    <2> QED
        BY <1>0, <2>1 DEF Working
<1>12. CASE Shutdown(q) \/ Kill(q)
    BY <1>12, EndedWorks DEF Shutdown, Kill
<1>13. CASE Boot(q)
    <2>1. /\ phase[q] = "off" /\ phase'[q] \in {"lock", "check"} /\ pending' = pending
          /\ release'[q] \in Releases
        BY <1>0, <1>1, <1>13 DEF Boot
    <2> QED
        BY <1>0, <2>1 DEF Working
<1>14. ASSUME NEW r \in Replicas, r # q, Proceed(r) \/ Boot(r) \/ Terminate(r) \/ Kill(r)
       PROVE  Working(q)'
    <2>1. /\ phase'[q] = phase[q] /\ release'[q] = release[q]
          /\ pending'[q] = pending[q] /\ failed'[q] = failed[q]
        BY <1>14, OthersStay
    <2>2. CASE UNCHANGED <<done, orphans, doubt>>
        BY <2>1, <2>2, WorkingStays
    <2>3. CASE Commit(r) \/ (Kill(r) /\ phase[r] = "commit")
        <3>1. phase[r] \in Migrating /\ done \subseteq done' /\ doubt \subseteq doubt'
            BY <2>3 DEF Commit, Kill, Migrating
        <3> QED
            BY <1>14, <2>1, <3>1, WorkingElsewhere
    <2>4. UNCHANGED <<done, orphans, doubt>> \/ Commit(r) \/ (Kill(r) /\ phase[r] = "commit")
        BY <1>14 DEF Proceed, TakeLock, CheckDirty, ListPending, ExecuteBody, MarkDirty, ReleaseLock,
            Serve, Shutdown, Boot, Terminate, Kill, database
    <2> QED
        BY <2>2, <2>3, <2>4
<1>15. ASSUME NEW v \in Versions, Settle(v)
       PROVE  Working(q)'
    <2>1. /\ UNCHANGED <<phase, release, pending, failed, doubt>> /\ done \subseteq done'
          /\ orphans' \subseteq orphans /\ v \in orphans /\ done' \subseteq done \cup {v}
        BY <1>15 DEF Settle
    <2>2. v \in doubt
        BY <2>1 DEF Orphaned
    <2>3. phase[q] \notin {"commit", "mark"}
        BY <1>0, <2>1 DEF Working
    <2> QED
        BY <2>1, <2>2, <2>3, WorkingStays
<1>16. ASSUME NEW r \in Replicas, NEW k \in Kinds, Arrive(r, k) \/ Finish(r, k)
       PROVE  Working(q)'
    BY <1>2, <1>16 DEF Arrive, Finish, database
<1>17. CASE UNCHANGED vars
    BY <1>2, <1>17 DEF vars, database
<1> QED
    BY <1>3, <1>4, <1>5, <1>6, <1>7, <1>8, <1>9, <1>10, <1>11, <1>12, <1>13, <1>14, <1>15,
       <1>16, <1>17 DEF Next, Proceed

(***************************************************************************)
(* Theorems                                                                *)
(***************************************************************************)

\* Initially nothing is applied and nothing runs.
LEMMA LifecycleInit ==
    Init => LInv
<1> SUFFICES ASSUME Init PROVE LInv
    OBVIOUS
<1> USE LifecycleConstants
<1>1. TypeOK
    BY DEF Init, TypeOK, Booting
<1>2. OneMigrates /\ Recording /\ Orphaned /\ Alarmed /\ RightAlarm
    BY DEF Init, OneMigrates, Recording, Orphaned, Alarmed, RightAlarm, DirtyVersion, Migrating
<1>3. \A r \in Replicas : Working(r)
    BY DEF Init, Working
<1> QED
    BY <1>1, <1>2, <1>3 DEF LInv

\* LInv holds in every state of every behaviour.
THEOREM LifecycleInvariance == Spec => []LInv
<1>1. Init => LInv
    BY LifecycleInit
<1>2. LInv /\ [Next]_vars => LInv'
    <2> SUFFICES ASSUME LInv, [Next]_vars PROVE LInv'
        OBVIOUS
    <2>1. \A q \in Replicas : Working(q)'
        BY WorkingStep
    <2> QED
        BY <2>1, TypeStep, OneMigratesStep, ToldStep DEF LInv, Told
<1> QED
    BY <1>1, <1>2, PTL DEF Spec

\* Every variable has its type.
THEOREM TypeCorrect == Spec => []TypeOK
<1>1. LInv => TypeOK
    BY DEF LInv
<1> QED
    BY <1>1, LifecycleInvariance, PTL

\* The table of migrations tells what is in effect, in order, and who serves
\* has the whole schema of its release (applyOne, apply).
THEOREM SchemaIsTrue == Spec => []SchemaTrue
<1>1. LInv => SchemaTrue
    BY DEF LInv, SchemaTrue, Recording, Working
<1> QED
    BY <1>1, LifecycleInvariance, PTL

\* A migration that is marked is not in effect, unless its commit went unanswered
\* (acquirePostgresMigrationLock, markDirty).
THEOREM AlarmIsRight == Spec => []RightAlarm
<1>1. LInv => RightAlarm
    BY DEF LInv
<1> QED
    BY <1>1, LifecycleInvariance, PTL

\* Nothing is applied to a marked schema, by whatever replicas and releases, and
\* nothing that a killed process left behind (ErrSchemaDirty, apply).
THEOREM AlarmStops == Spec => DirtyStops
<1>1. ASSUME LInv, [Next]_vars
      PROVE  [DirtyVersion => done' = done]_vars
    <2> SUFFICES ASSUME Next, DirtyVersion
                 PROVE  done' = done
        BY <1>1 DEF vars
    <2>1. orphans = {} /\ \A r \in Replicas : phase[r] # "commit"
        BY <1>1 DEF LInv, Alarmed
    <2> QED
        BY <2>1 DEF Next, Proceed, TakeLock, CheckDirty, ListPending, ExecuteBody, Commit, MarkDirty,
            ReleaseLock, Serve, Shutdown, Boot, Terminate, Kill, Arrive, Finish, Settle, database
<1> QED
    BY <1>1, LifecycleInvariance, PTL DEF Spec, DirtyStops

(***************************************************************************)
(* SrtCollector: the inductive invariant                                   *)
(***************************************************************************)

Statuses == {"ok", "partial", "stale"}
Samples  == [conn : Connections, bytes : 0 .. MaxBytes, status : Statuses]
Readings == [conn : Connections, bytes : 0 .. MaxBytes, connected : BOOLEAN]
Batches  == [age : 0 .. StaleAfter, rows : SUBSET Samples]

CollectorTypes ==
    /\ CollectorTypeOK
    /\ batches \in Seq(Batches)
    /\ readings \subseteq Readings /\ results \subseteq Samples

\* What a Collect holds is one reading of each connection, which the connection
\* has passed and no stored sample has.
Timely(S) ==
    \A r \in S :
      /\ r.bytes <= link[r.conn].bytes
      /\ \A q \in S : q.conn = r.conn => q = r
      /\ \A i \in 1 .. Len(batches) : \A q \in batches[i].rows : q.conn = r.conn => q.bytes <= r.bytes

\* The batch with the latest samples of s.
IsLatest(i, s) ==
    /\ i \in 1 .. Len(batches) /\ Of(batches[i], s) # {}
    /\ \A j \in i + 1 .. Len(batches) : Of(batches[j], s) = {}

\* A stream that is overdue still is when the readings are evaluated.
Overdue == \A s \in overdue : \E i \in 1 .. Len(batches) : IsLatest(i, s) /\ batches[i].age = StaleAfter

\* One of the first n batches has an old sample of r's stream with r's count.
Ground(r, n) ==
    \E i \in 1 .. n :
      /\ batches[i].age = StaleAfter
      /\ \E q \in Of(batches[i], PathOf[r.conn]) : q.bytes = r.bytes

\* Holds in every state and in every step that starts from it.
CollectorInv ==
    /\ CollectorTypes /\ SamplesAdvance /\ StaleHasGround
    /\ Timely(readings) /\ Timely(results) /\ Overdue
    /\ \A r \in results : r.status = "stale" => Ground(r, Len(batches))

(***************************************************************************)
(* SrtCollector: operators                                                 *)
(***************************************************************************)

\* A stream with samples has latest ones (latestByStreamSQL).
LEMMA LatestExists ==
    ASSUME CollectorTypes, NEW s, HasRows(s)
    PROVE  IsLatest(LatestBatch(s), s)
<1> DEFINE n == Len(batches)
           I == {i \in 1 .. n : Of(batches[i], s) # {}}
           D == {n - i : i \in I}
<1>1. n \in Nat
    BY DEF CollectorTypes
<1>2. D \subseteq Nat /\ D # {}
    <2>1. \A i \in I : n - i \in Nat
        BY <1>1
    <2>2. I # {}
        BY DEF HasRows
    <2> QED
        BY <2>1, <2>2
<1>3. Min(D) \in D /\ \A y \in D : Min(D) <= y
    <2> HIDE DEF D
    <2> QED
        BY <1>2, LeastNumber
<1>4. PICK i \in I : Min(D) = n - i
    BY <1>3
<1>5. ASSUME NEW j \in I PROVE j <= i
    <2>1. n - j \in D
        OBVIOUS
    <2>2. n - i <= n - j
        BY <1>3, <1>4, <2>1
    <2> QED
        BY <1>1, <2>2
<1>6. IsLatest(i, s)
    BY <1>1, <1>5 DEF IsLatest
<1> QED
    BY <1>6 DEF LatestBatch, IsLatest

\* There is only one such batch.
LEMMA LatestIsOne ==
    ASSUME CollectorTypes, NEW s, NEW i, IsLatest(i, s)
    PROVE  LatestBatch(s) = i /\ HasRows(s)
<1>1. Len(batches) \in Nat
    BY DEF CollectorTypes
<1>2. HasRows(s)
    BY DEF HasRows, IsLatest
<1>3. IsLatest(LatestBatch(s), s)
    BY <1>2, LatestExists
<1>4. ASSUME NEW j, NEW k, IsLatest(j, s), IsLatest(k, s) PROVE ~(j < k)
    <2>1. j \in 1 .. Len(batches) /\ k \in 1 .. Len(batches)
        BY <1>4 DEF IsLatest
    <2>2. j < k => k \in j + 1 .. Len(batches)
        BY <1>1, <2>1
    <2> QED
        BY <1>4, <2>2 DEF IsLatest
<1>5. LatestBatch(s) \in 1 .. Len(batches) /\ i \in 1 .. Len(batches)
    BY <1>3 DEF IsLatest
<1>6. ~(LatestBatch(s) < i) /\ ~(i < LatestBatch(s))
    BY <1>3, <1>4
<1> QED
    BY <1>1, <1>2, <1>5, <1>6

\* The wait after a failure is no shorter than before and no longer than the
\* longest (nextBackoff).
LEMMA BackoffIsBounded ==
    ASSUME wait \in PollInterval .. MaxBackoff
    PROVE  NextBackoff \in wait .. MaxBackoff
BY LimitAssumption DEF NextBackoff, PollInterval

\* Samples age up to the threshold and stay old.
LEMMA Ageing ==
    ASSUME NEW a \in 0 .. StaleAfter
    PROVE  Older(a) \in 0 .. StaleAfter /\ Older(StaleAfter) = StaleAfter
BY LimitAssumption DEF Older

(***************************************************************************)
(* SrtCollector: the invariant                                             *)
(***************************************************************************)

\* Stored rows stay as they are, and what is old stays old.
Kept ==
    /\ batches' \in Seq(Batches)
    /\ Len(batches') = Len(batches)
    /\ \A i \in 1 .. Len(batches) :
         /\ batches'[i].rows = batches[i].rows
         /\ batches[i].age = StaleAfter => batches'[i].age = StaleAfter

\* Connections receive and lose nothing.
Growing ==
    /\ link' \in [Connections -> [state : {"none", "setup", "connected", "gone"}, bytes : 0 .. MaxBytes]]
    /\ \A c \in Connections : link[c].bytes <= link'[c].bytes

\* Then what is true of the samples stays true.
LEMMA SamplesStay ==
    ASSUME CollectorInv, Kept, Growing
    PROVE  SamplesAdvance' /\ StaleHasGround'
<1> USE DEF CollectorInv, CollectorTypes, Kept, Growing
<1>1. Len(batches) \in Nat
    OBVIOUS
<1>2. ASSUME NEW j \in 1 .. Len(batches), NEW r \in batches'[j].rows
      PROVE  r \in batches[j].rows /\ r \in Samples /\ link[r.conn].bytes <= link'[r.conn].bytes
             /\ link[r.conn].bytes \in Nat /\ link'[r.conn].bytes \in Nat /\ r.bytes \in Nat
    <2>1. r \in batches[j].rows
        OBVIOUS
    <2>2. batches[j] \in Batches
        OBVIOUS
    <2>3. r \in Samples
        BY <2>1, <2>2 DEF Batches
    <2> QED
        BY <2>1, <2>3, LimitAssumption DEF Samples, CollectorTypeOK
<1>3. SamplesAdvance'
    <2> SUFFICES ASSUME NEW j \in 1 .. Len(batches), NEW r \in batches'[j].rows
                 PROVE  /\ r.bytes <= link'[r.conn].bytes
                        /\ \A q \in batches'[j].rows : q.conn = r.conn => q = r
                        /\ \A i \in 1 .. j - 1 : \A q \in batches'[i].rows :
                             q.conn = r.conn => q.bytes < r.bytes
        BY DEF SamplesAdvance
    <2>1. r.bytes <= link[r.conn].bytes
        BY <1>2 DEF SamplesAdvance
    <2>2. \A q \in batches'[j].rows : q.conn = r.conn => q = r
        BY <1>2 DEF SamplesAdvance
    <2>3. ASSUME NEW i \in 1 .. j - 1, NEW q \in batches'[i].rows, q.conn = r.conn
          PROVE  q.bytes < r.bytes
        <3>1. i \in 1 .. Len(batches)
            BY <1>1
        <3> QED
            BY <1>2, <2>3, <3>1 DEF SamplesAdvance
    <2> QED
        BY <1>2, <2>1, <2>2, <2>3
<1>4. StaleHasGround'
    <2> SUFFICES ASSUME NEW j \in 1 .. Len(batches), NEW r \in batches'[j].rows, r.status = "stale"
                 PROVE  \E i \in 1 .. j - 1 :
                          /\ batches'[i].age = StaleAfter
                          /\ \E q \in Of(batches'[i], PathOf[r.conn]) : q.bytes = r.bytes
        BY DEF StaleHasGround, Of
    <2>1. PICK i \in 1 .. j - 1 :
              /\ batches[i].age = StaleAfter
              /\ \E q \in Of(batches[i], PathOf[r.conn]) : q.bytes = r.bytes
        BY <1>2 DEF StaleHasGround
    <2>2. i \in 1 .. Len(batches)
        BY <1>1
    <2> QED
        BY <2>1, <2>2 DEF Of
<1> QED
    BY <1>3, <1>4

\* And so does what a Collect holds.
LEMMA CollectStays ==
    ASSUME CollectorInv, Kept, Growing
    PROVE  /\ readings' = readings => Timely(readings)'
           /\ results' = results =>
                Timely(results)' /\ \A r \in results : r.status = "stale" => Ground(r, Len(batches))'
           /\ overdue' = overdue => Overdue'
<1> USE DEF CollectorInv, CollectorTypes, Kept, Growing
<1>1. ASSUME NEW r, r.conn \in Connections, r.bytes \in Nat, r.bytes <= link[r.conn].bytes
      PROVE  r.bytes <= link'[r.conn].bytes
    <2>1. link[r.conn].bytes \in Nat /\ link'[r.conn].bytes \in Nat
             /\ link[r.conn].bytes <= link'[r.conn].bytes
        BY <1>1, LimitAssumption DEF CollectorTypeOK
    <2> QED
        BY <1>1, <2>1
<1>2. ASSUME readings' = readings PROVE Timely(readings)'
    <2>1. \A r \in readings : r.conn \in Connections /\ r.bytes \in Nat
        BY LimitAssumption DEF Readings
    <2> QED
        BY <1>1, <1>2, <2>1 DEF Timely
<1>3. ASSUME results' = results PROVE Timely(results)'
    <2>1. \A r \in results : r.conn \in Connections /\ r.bytes \in Nat
        BY LimitAssumption DEF Samples
    <2> QED
        BY <1>1, <1>3, <2>1 DEF Timely
<1>4. ASSUME NEW r \in results, r.status = "stale" PROVE Ground(r, Len(batches))'
    <2>1. Len(batches) \in Nat /\ Ground(r, Len(batches))
        BY <1>4
    <2> QED
        BY <2>1 DEF Ground, Of
<1>5. ASSUME overdue' = overdue PROVE Overdue'
    <2>1. \A i \in 1 .. Len(batches) : \A s : Of(batches'[i], s) = Of(batches[i], s)
        BY DEF Of
    <2>2. ASSUME NEW i, NEW s, IsLatest(i, s) PROVE IsLatest(i, s)'
        <3>1. Len(batches) \in Nat /\ i \in 1 .. Len(batches)
            BY <2>2 DEF IsLatest
        <3>2. \A j \in i + 1 .. Len(batches) : j \in 1 .. Len(batches)
            BY <3>1
        <3> QED
            BY <2>1, <2>2, <3>1, <3>2 DEF IsLatest
    <2> QED
        BY <1>5, <2>2 DEF Overdue
<1> QED
    BY <1>2, <1>3, <1>4, <1>5

\* Initially nothing is stored and nothing is held.
LEMMA CollectorStart ==
    CollectorInit => CollectorInv
<1> SUFFICES ASSUME CollectorInit PROVE CollectorInv
    OBVIOUS
<1> USE LimitAssumption DEF CollectorInit
<1>1. CollectorTypeOK
    BY DEF CollectorTypeOK, PollInterval
<1>2. batches = <<>> /\ Len(batches) = 0 /\ batches \in Seq(Batches)
    OBVIOUS
<1>3. CollectorTypes
    BY <1>1, <1>2 DEF CollectorTypes
<1>4. SamplesAdvance /\ StaleHasGround
    BY <1>2 DEF SamplesAdvance, StaleHasGround
<1> QED
    BY <1>3, <1>4 DEF CollectorInv, Timely, Overdue

\* Waiting again, the loop holds nothing and waits no longer than the longest.
LEMMA WaitsAgain ==
    ASSUME CollectorTypeOK, NEW d \in PollInterval .. MaxBackoff, Wait(d)
    PROVE  /\ stage' = "waiting" /\ wait' \in PollInterval .. MaxBackoff /\ timer' \in 0 .. wait'
           /\ overdue' = {} /\ late' = 0 /\ readings' = {} /\ results' = {}
BY LimitAssumption DEF Wait, PollInterval

\* Whenever Run begins to wait, whatever ended the Collect.
LEMMA EndOfCollect ==
    ASSUME CollectorInv, NEW d \in PollInterval .. MaxBackoff, Wait(d), UNCHANGED <<world, batches>>
    PROVE  CollectorInv'
<1> USE DEF CollectorInv
<1>1. Kept /\ Growing
    BY LimitAssumption DEF Kept, Growing, world, CollectorTypes, CollectorTypeOK
<1>2. SamplesAdvance' /\ StaleHasGround'
    BY <1>1, SamplesStay
<1>3. /\ stage' = "waiting" /\ wait' \in PollInterval .. MaxBackoff /\ timer' \in 0 .. wait'
      /\ overdue' = {} /\ late' = 0 /\ readings' = {} /\ results' = {}
    BY WaitsAgain DEF CollectorTypes
<1>4. CollectorTypes'
    BY <1>3, LimitAssumption DEF CollectorTypes, CollectorTypeOK, world
<1> QED
    BY <1>2, <1>3, <1>4 DEF Timely, Overdue

\* What the environment does.
LEMMA WorldStep ==
    ASSUME CollectorInv, UNCHANGED <<batches, loop>>, Growing, source' \in {"up", "down"}
    PROVE  CollectorInv'
<1> USE DEF CollectorInv
<1>1. Kept
    BY DEF Kept, CollectorTypes
<1>2. SamplesAdvance' /\ StaleHasGround'
    BY <1>1, SamplesStay
<1>3. CollectorTypes'
    BY DEF CollectorTypes, CollectorTypeOK, Growing, loop
<1>4. /\ Timely(readings)' /\ Timely(results)' /\ Overdue'
      /\ \A r \in results : r.status = "stale" => Ground(r, Len(batches))'
    BY <1>1, CollectStays DEF loop
<1> QED
    BY <1>2, <1>3, <1>4 DEF loop

\* A connection opens, is published, receives or closes; the server fails or returns.
LEMMA MediaMTXStep ==
    ASSUME CollectorInv,
           \/ \E c \in Connections : Open(c) \/ Publish(c) \/ Close(c) \/ Traffic(c)
           \/ Breakdown \/ Recovery
    PROVE  CollectorInv'
<1> USE LimitAssumption DEF CollectorInv, CollectorTypes
<1> DEFINE Links == [Connections -> [state : {"none", "setup", "connected", "gone"}, bytes : 0 .. MaxBytes]]
<1>1. link \in Links /\ source \in {"up", "down"}
    BY DEF CollectorTypeOK
<1>2. ASSUME link' = link PROVE Growing
    BY <1>1, <1>2 DEF Growing
<1>3. ASSUME NEW c \in Connections, NEW from, NEW to \in {"setup", "connected", "gone"}, Link(c, from, to)
      PROVE  CollectorInv'
    <2>1. link' = [link EXCEPT ![c].state = to]
        BY <1>3 DEF Link
    <2>2. link' \in Links /\ \A d \in Connections : link'[d].bytes = link[d].bytes
        BY <1>1, <2>1
    <2>3. \A d \in Connections : link[d].bytes \in Nat
        BY <1>1
    <2>4. Growing
        BY <2>2, <2>3 DEF Growing
    <2> QED
        BY <1>1, <1>3, <2>4, WorldStep DEF Link
<1>4. ASSUME NEW c \in Connections, Traffic(c) PROVE CollectorInv'
    <2>1. link' = [link EXCEPT ![c].bytes = @ + 1] /\ link[c].bytes < MaxBytes
        BY <1>4 DEF Traffic
    <2>2. \A d \in Connections : link[d].bytes \in Nat
        BY <1>1
    <2> DEFINE more == [link[c] EXCEPT !.bytes = @ + 1]
    <2>3. /\ more \in [state : {"none", "setup", "connected", "gone"}, bytes : 0 .. MaxBytes]
          /\ more.bytes = link[c].bytes + 1
        <3>1. link[c] \in [state : {"none", "setup", "connected", "gone"}, bytes : 0 .. MaxBytes]
            BY <1>1
        <3>2. link[c].bytes + 1 \in 0 .. MaxBytes
            <4>1. link[c].bytes \in 0 .. MaxBytes
                BY <3>1
            <4> QED
                BY <2>1, <4>1
        <3> QED
            BY <3>1, <3>2
    <2>4. link' = [link EXCEPT ![c] = more]
        BY <2>1
    <2> HIDE DEF more
    <2>5. link' \in Links
          /\ \A d \in Connections : link'[d].bytes = IF d = c THEN link[d].bytes + 1 ELSE link[d].bytes
        BY <1>1, <2>3, <2>4
    <2>6. Growing
        BY <2>2, <2>5 DEF Growing
    <2> QED
        BY <1>1, <1>4, <2>6, WorldStep DEF Traffic
<1>5. ASSUME Breakdown \/ Recovery PROVE CollectorInv'
    BY <1>2, <1>5, WorldStep DEF Breakdown, Recovery
<1> QED
    BY <1>3, <1>4, <1>5 DEF Open, Publish, Close

\* A snapshot has what each connection has received by now.
LEMMA PollStep ==
    ASSUME CollectorInv, Poll
    PROVE  CollectorInv'
<1> USE LimitAssumption DEF CollectorInv
<1>1. CASE Snapshot = {}
    <2>1. Wait(PollInterval) /\ UNCHANGED <<world, batches>>
        BY <1>1 DEF Poll
    <2>2. PollInterval \in PollInterval .. MaxBackoff
        BY DEF PollInterval
    <2> QED
        BY <2>1, <2>2, EndOfCollect
<1>2. CASE Snapshot # {}
    <2>1. /\ stage' = "evaluating" /\ readings' = Snapshot /\ late' = 0
          /\ overdue' = {s \in Streams : HasRows(s) /\ batches[LatestBatch(s)].age = StaleAfter}
          /\ UNCHANGED <<wait, timer, results, source, link, batches>>
        BY <1>2 DEF Poll, world
    <2>2. Kept /\ Growing
        BY <2>1 DEF Kept, Growing, CollectorTypes, CollectorTypeOK
    <2>3. SamplesAdvance' /\ StaleHasGround'
        BY <2>2, SamplesStay
    <2>4. Timely(results)' /\ \A r \in results' : r.status = "stale" => Ground(r, Len(batches))'
        BY <2>1, <2>2, CollectStays
    <2>5. Snapshot \subseteq Readings
        <3> SUFFICES ASSUME NEW c \in Listed
                     PROVE  [conn |-> c, bytes |-> link[c].bytes,
                             connected |-> link[c].state = "connected"] \in Readings
            BY DEF Snapshot
        <3>1. c \in Connections /\ link[c].bytes \in 0 .. MaxBytes
            BY DEF Listed, CollectorTypes, CollectorTypeOK
        <3>2. (link[c].state = "connected") \in BOOLEAN
            OBVIOUS
        <3> QED
            BY <3>1, <3>2, Zenon DEF Readings
    <2>6. CollectorTypes'
        BY <2>1, <2>5 DEF CollectorTypes, CollectorTypeOK
    <2>7. Timely(readings)'
        <3>1. \A r \in Snapshot : r.conn \in Connections /\ r.bytes = link[r.conn].bytes
              /\ r.bytes \in Nat /\ \A q \in Snapshot : q.conn = r.conn => q = r
            BY DEF Snapshot, Listed, CollectorTypes, CollectorTypeOK
        <3>2. \A i \in 1 .. Len(batches) : \A q \in batches[i].rows : q.bytes <= link[q.conn].bytes
            BY DEF SamplesAdvance
        <3> QED
            BY <2>1, <3>1, <3>2 DEF Timely
    <2>8. Overdue'
        BY <2>1, LatestExists DEF Overdue, IsLatest, CollectorTypes
    <2> QED
        BY <2>3, <2>4, <2>6, <2>7, <2>8
<1> QED
    BY <1>1, <1>2

\* A status is given: stale only on the ground of an old sample.
LEMMA EvaluateStep ==
    ASSUME CollectorInv, Evaluate
    PROVE  CollectorInv'
<1> USE LimitAssumption DEF CollectorInv
<1>1. PICK previous \in [Streams -> NoSample .. MaxBytes] :
          /\ \A s \in Streams : previous[s] \in LatestSequences(s)
          /\ results' = {[conn |-> r.conn, bytes |-> r.bytes,
                          status |-> StatusOf(r, previous[PathOf[r.conn]])] : r \in readings}
    BY DEF Evaluate
<1>2. /\ stage' = "appending" /\ readings' = {} /\ overdue' = {}
      /\ UNCHANGED <<source, link, batches, wait, timer, late>>
    BY DEF Evaluate, world
<1>3. Kept /\ Growing
    BY <1>2 DEF Kept, Growing, CollectorTypes, CollectorTypeOK
<1>4. SamplesAdvance' /\ StaleHasGround'
    BY <1>3, SamplesStay
<1>5. ASSUME NEW x \in results'
      PROVE  \E r \in readings : /\ x.conn = r.conn /\ x.bytes = r.bytes
                                /\ x.status = StatusOf(r, previous[PathOf[r.conn]])
                                /\ x \in Samples
                                /\ x = [conn |-> r.conn, bytes |-> r.bytes, status |-> x.status]
    <2>1. PICK r \in readings :
              x = [conn |-> r.conn, bytes |-> r.bytes, status |-> StatusOf(r, previous[PathOf[r.conn]])]
        BY <1>1
    <2>2. StatusOf(r, previous[PathOf[r.conn]]) \in Statuses
        BY DEF StatusOf, Statuses
    <2>3. r.conn \in Connections /\ r.bytes \in 0 .. MaxBytes
        BY DEF CollectorTypes, Readings
    <2> QED
        BY <2>1, <2>2, <2>3 DEF Samples
<1>6. CollectorTypes'
    BY <1>2, <1>5 DEF CollectorTypes, CollectorTypeOK
<1>7. Timely(results)'
    <2> SUFFICES ASSUME NEW x \in results'
                 PROVE  /\ x.bytes <= link[x.conn].bytes
                        /\ \A y \in results' : y.conn = x.conn => y = x
                        /\ \A i \in 1 .. Len(batches) : \A q \in batches[i].rows :
                             q.conn = x.conn => q.bytes <= x.bytes
        BY <1>2 DEF Timely
    <2>1. PICK r \in readings : x.conn = r.conn /\ x.bytes = r.bytes
              /\ x = [conn |-> r.conn, bytes |-> r.bytes, status |-> StatusOf(r, previous[PathOf[r.conn]])]
        BY <1>5
    <2>2. ASSUME NEW y \in results', y.conn = x.conn PROVE y = x
        <3>1. PICK q \in readings : y.conn = q.conn
                  /\ y = [conn |-> q.conn, bytes |-> q.bytes, status |-> StatusOf(q, previous[PathOf[q.conn]])]
            BY <1>5
        <3>2. q = r
            BY <2>1, <2>2, <3>1 DEF Timely
        <3> QED
            BY <2>1, <3>1, <3>2
    <2> QED
        BY <2>1, <2>2 DEF Timely
<1>8. ASSUME NEW x \in results', x.status = "stale"
      PROVE  Ground(x, Len(batches))'
    <2>1. PICK r \in readings : x.conn = r.conn /\ x.bytes = r.bytes
              /\ x.status = StatusOf(r, previous[PathOf[r.conn]])
        BY <1>5
    <2> DEFINE s == PathOf[r.conn]
    <2>2. s \in overdue /\ r.bytes = previous[s]
        BY <1>8, <2>1 DEF StatusOf, IsStale
    <2>3. s \in Streams
        BY <2>2 DEF CollectorTypes, CollectorTypeOK
    <2>4. PICK i \in 1 .. Len(batches) : IsLatest(i, s) /\ batches[i].age = StaleAfter
        BY <2>2 DEF Overdue
    <2>5. LatestBatch(s) = i /\ HasRows(s)
        BY <2>4, LatestIsOne
    <2>6. \E q \in Of(batches[i], s) : q.bytes = r.bytes
        BY <1>1, <2>2, <2>3, <2>5 DEF LatestSequences, LatestByStream
    <2> QED
        BY <1>2, <2>1, <2>4, <2>6 DEF Ground, Of
<1> QED
    BY <1>2, <1>4, <1>6, <1>7, <1>8 DEF Timely, Overdue

\* A commit adds what no stored sample has, at the end.
LEMMA StoreStep ==
    ASSUME CollectorInv, Store
    PROVE  CollectorInv'
<1> USE LimitAssumption DEF CollectorInv
<1> DEFINE n == Len(batches)
           b == [age |-> late, rows |-> Fresh]
<1>1. /\ batches \in Seq(Batches) /\ n \in Nat
      /\ link' = link /\ source' = source /\ Wait(PollInterval)
    BY DEF Store, world, CollectorTypes
<1>2. PollInterval \in PollInterval .. MaxBackoff
    BY DEF PollInterval
<1>3. CASE Fresh = {}
    BY <1>1, <1>2, <1>3, EndOfCollect DEF Store
<1>4. CASE Fresh # {}
    <2>1. Fresh \subseteq results /\ Fresh \subseteq Samples
        BY DEF Fresh, CollectorTypes
    <2>2. b \in Batches
        BY <2>1 DEF Batches, CollectorTypes, CollectorTypeOK
    <2>3. batches' = Append(batches, b)
        BY <1>4 DEF Store
    <2>4. /\ batches' \in Seq(Batches) /\ Len(batches') = n + 1 /\ batches'[n + 1] = b
          /\ \A i \in 1 .. n : batches'[i] = batches[i]
        <3> HIDE DEF b
        <3> QED
            BY <1>1, <2>2, <2>3
    <2>5. ASSUME NEW j \in 1 .. n + 1, j # n + 1 PROVE j \in 1 .. n /\ \A i \in 1 .. j - 1 : i \in 1 .. n
        BY <1>1, <2>5
    <2>6. ASSUME NEW r \in Fresh
          PROVE  /\ r.bytes <= link[r.conn].bytes
                 /\ \A q \in Fresh : q.conn = r.conn => q = r
                 /\ \A i \in 1 .. n : \A q \in batches[i].rows : q.conn = r.conn => q.bytes < r.bytes
        <3>1. r \in results /\ ~Known(r)
            BY DEF Fresh
        <3>2. ASSUME NEW i \in 1 .. n, NEW q \in batches[i].rows, q.conn = r.conn
              PROVE  q.bytes < r.bytes
            <4>1. q.bytes # r.bytes
                BY <3>1, <3>2 DEF Known
            <4>2. q.bytes <= r.bytes
                BY <3>1, <3>2 DEF Timely
            <4>3. batches[i] \in Batches
                BY <1>1
            <4>4. q.bytes \in Nat /\ r.bytes \in Nat
                BY <2>1, <4>3 DEF Batches, Samples
            <4> QED
                BY <4>1, <4>2, <4>4
        <3> QED
            BY <2>1, <3>1, <3>2 DEF Timely
    <2>7. SamplesAdvance'
        <3> SUFFICES ASSUME NEW j \in 1 .. n + 1, NEW r \in batches'[j].rows
                     PROVE  /\ r.bytes <= link[r.conn].bytes
                            /\ \A q \in batches'[j].rows : q.conn = r.conn => q = r
                            /\ \A i \in 1 .. j - 1 : \A q \in batches'[i].rows :
                                 q.conn = r.conn => q.bytes < r.bytes
            BY <1>1, <2>4 DEF SamplesAdvance
        <3>1. CASE j = n + 1
            <4>1. batches'[j].rows = Fresh /\ \A i \in 1 .. j - 1 : i \in 1 .. n
                BY <1>1, <2>4, <3>1
            <4> QED
                BY <2>4, <2>6, <4>1
        <3>2. CASE j # n + 1
            BY <2>4, <2>5, <3>2 DEF SamplesAdvance
        <3> QED
            BY <3>1, <3>2
    <2>8. StaleHasGround'
        <3> SUFFICES ASSUME NEW j \in 1 .. n + 1, NEW r \in batches'[j].rows, r.status = "stale"
                     PROVE  \E i \in 1 .. j - 1 :
                              /\ batches'[i].age = StaleAfter
                              /\ \E q \in Of(batches'[i], PathOf[r.conn]) : q.bytes = r.bytes
            BY <2>4 DEF StaleHasGround, Of
        <3>1. CASE j = n + 1
            <4>1. r \in results /\ j - 1 = n
                BY <1>1, <2>1, <2>4, <3>1
            <4>2. Ground(r, n)
                BY <4>1
            <4> QED
                BY <2>4, <4>1, <4>2 DEF Ground
        <3>2. CASE j # n + 1
            BY <2>4, <2>5, <3>2 DEF StaleHasGround
        <3> QED
            BY <3>1, <3>2
    <2>9. /\ stage' = "waiting" /\ wait' \in PollInterval .. MaxBackoff /\ timer' \in 0 .. wait'
          /\ overdue' = {} /\ late' = 0 /\ readings' = {} /\ results' = {}
        BY <1>1, <1>2, WaitsAgain DEF CollectorTypes
    <2>10. CollectorTypes'
        <3>1. \A i \in 1 .. n + 1 : batches'[i] \in Batches
            BY <2>4
        <3>2. \A i \in 1 .. n + 1 : batches'[i].age \in 0 .. StaleAfter /\ batches'[i].rows \subseteq Samples
            BY <3>1 DEF Batches
        <3> QED
            BY <1>1, <2>4, <2>9, <3>2 DEF CollectorTypes, CollectorTypeOK, Samples, Statuses
    <2> QED
        BY <2>7, <2>8, <2>9, <2>10 DEF Timely, Overdue
<1> QED
    BY <1>3, <1>4

\* Time only makes samples older.
LEMMA TickStep ==
    ASSUME CollectorInv, Tick
    PROVE  CollectorInv'
<1> USE LimitAssumption DEF CollectorInv
<1> DEFINE n == Len(batches)
           B(i) == [batches[i] EXCEPT !.age = Older(@)]
<1>1. batches' = [i \in 1 .. n |-> B(i)] /\ n \in Nat /\ batches \in Seq(Batches)
    BY DEF Tick, CollectorTypes
<1>2. ASSUME NEW i \in 1 .. n
      PROVE  B(i) \in Batches /\ B(i).rows = batches[i].rows /\ B(i).age = Older(batches[i].age)
    <2>1. batches[i] \in Batches
        BY <1>1
    <2>2. batches[i].age \in 0 .. StaleAfter
        BY <2>1 DEF Batches
    <2>3. Older(batches[i].age) \in 0 .. StaleAfter
        BY <2>2, Ageing
    <2> QED
        BY <2>1, <2>3 DEF Batches
<1>3. batches' \in Seq(Batches) /\ Len(batches') = n /\ \A i \in 1 .. n : batches'[i] = B(i)
    <2> HIDE DEF B
    <2> QED
        BY <1>1, <1>2
<1>4. Older(StaleAfter) = StaleAfter
    BY Ageing
<1>5. Kept
    BY <1>2, <1>3, <1>4 DEF Kept
<1>6. Growing
    BY DEF Growing, Tick, world, CollectorTypes, CollectorTypeOK
<1>7. SamplesAdvance' /\ StaleHasGround'
    BY <1>5, <1>6, SamplesStay
<1>8. /\ Timely(readings)' /\ Timely(results)' /\ Overdue'
      /\ \A r \in results : r.status = "stale" => Ground(r, Len(batches))'
    BY <1>5, <1>6, CollectStays DEF Tick
<1>9. CollectorTypes'
    <2>1. late' \in 0 .. StaleAfter
        BY Ageing DEF Tick, CollectorTypes, CollectorTypeOK
    <2>2. timer' \in 0 .. wait
        BY DEF Tick, CollectorTypes, CollectorTypeOK, PollInterval
    <2>3. \A i \in 1 .. n : batches'[i].age \in 0 .. StaleAfter /\ batches'[i].rows \subseteq Samples
        BY <1>2, <1>3 DEF Batches
    <2> QED
        BY <1>3, <2>1, <2>2, <2>3 DEF Tick, world, CollectorTypes, CollectorTypeOK, Samples, Statuses
<1> QED
    BY <1>7, <1>8, <1>9 DEF Tick

\* Every step keeps the invariant.
LEMMA CollectorStep ==
    ASSUME CollectorInv, [CollectorNext]_collectorVars
    PROVE  CollectorInv'
<1>1. wait \in PollInterval .. MaxBackoff /\ PollInterval \in PollInterval .. MaxBackoff
    BY LimitAssumption DEF CollectorInv, CollectorTypes, CollectorTypeOK, PollInterval
<1>2. NextBackoff \in PollInterval .. MaxBackoff
    BY <1>1, BackoffIsBounded, LimitAssumption DEF PollInterval
<1>3. CASE \/ \E c \in Connections : Open(c) \/ Publish(c) \/ Close(c) \/ Traffic(c)
           \/ Breakdown \/ Recovery
    BY <1>3, MediaMTXStep
<1>4. CASE Poll
    BY <1>4, PollStep
<1>5. CASE PollFails
    BY <1>2, <1>5, EndOfCollect DEF PollFails, Failed
<1>6. CASE Evaluate
    BY <1>6, EvaluateStep
<1>7. CASE Store
    BY <1>7, StoreStep
<1>8. CASE Tick
    BY <1>8, TickStep
<1>9. CASE StoreFails
    BY <1>2, <1>9, EndOfCollect DEF StoreFails, Failed
<1>10. CASE Restart
    BY <1>1, <1>10, EndOfCollect DEF Restart
<1>11. CASE UNCHANGED collectorVars
    <2>1. Growing /\ source' \in {"up", "down"}
        BY <1>11, LimitAssumption
        DEF Growing, collectorVars, world, CollectorInv, CollectorTypes, CollectorTypeOK
    <2> QED
        BY <1>11, <2>1, WorldStep DEF collectorVars
<1> QED
    BY <1>3, <1>4, <1>5, <1>6, <1>7, <1>8, <1>9, <1>10, <1>11 DEF CollectorNext, Loop

(***************************************************************************)
(* SrtCollector: the theorems                                              *)
(***************************************************************************)

\* The invariant of the collector.
THEOREM CollectorInvariance == CollectorSpec => []CollectorInv
BY CollectorStart, CollectorStep, PTL DEF CollectorSpec

\* Every variable has its type; the wait between two polls stays within
\* MaxBackoff however many attempts fail (nextBackoff).
THEOREM CollectorTypeCorrect == CollectorSpec => []CollectorTypeOK
<1>1. CollectorInv => CollectorTypeOK
    BY DEF CollectorInv, CollectorTypes
<1> QED
    BY <1>1, CollectorInvariance, PTL

\* The stored samples of a connection ascend: none is stored twice, whatever
\* fails or restarts, and none is ahead of the connection (Append).
THEOREM SamplesAscend == CollectorSpec => []SamplesAdvance
<1>1. CollectorInv => SamplesAdvance
    BY DEF CollectorInv
<1> QED
    BY <1>1, CollectorInvariance, PTL

\* What is stored as stale repeats the count of an old sample of its stream
\* (isStale).
THEOREM StalesHaveGround == CollectorSpec => []StaleHasGround
<1>1. CollectorInv => StaleHasGround
    BY DEF CollectorInv
<1> QED
    BY <1>1, CollectorInvariance, PTL

\* That old sample is of another connection.
StalesAreOfAnother ==
    \A j \in 1 .. Len(batches) : \A r \in batches[j].rows :
      r.status = "stale" =>
        \E i \in 1 .. j - 1 : \E q \in batches[i].rows :
          PathOf[q.conn] = PathOf[r.conn] /\ q.bytes = r.bytes /\ q.conn # r.conn

\* A connection that stands still is never stored as stale: a sample that is
\* says of one connection what another one did, for the deduplication looks at
\* the very count that makes a sample stale (isStale, dedupeLookupSQL).
THEOREM FrozenIsNeverStored == CollectorSpec => []StalesAreOfAnother
<1>1. CollectorInv => StalesAreOfAnother
    <2> SUFFICES ASSUME CollectorInv, NEW j \in 1 .. Len(batches), NEW r \in batches[j].rows,
                        r.status = "stale"
                 PROVE  \E i \in 1 .. j - 1 : \E q \in batches[i].rows :
                          PathOf[q.conn] = PathOf[r.conn] /\ q.bytes = r.bytes /\ q.conn # r.conn
        BY DEF StalesAreOfAnother
    <2>1. PICK i \in 1 .. j - 1 : \E q \in Of(batches[i], PathOf[r.conn]) : q.bytes = r.bytes
        BY DEF CollectorInv, StaleHasGround
    <2>2. PICK q \in batches[i].rows : PathOf[q.conn] = PathOf[r.conn] /\ q.bytes = r.bytes
        BY <2>1 DEF Of
    <2>3. batches[j] \in Batches
        BY DEF CollectorInv, CollectorTypes
    <2>4. r.bytes \in Nat
        BY <2>3, LimitAssumption DEF Batches, Samples
    <2>5. q.conn = r.conn => q.bytes < r.bytes
        BY DEF CollectorInv, SamplesAdvance
    <2> QED
        BY <2>2, <2>4, <2>5
<1> QED
    BY <1>1, CollectorInvariance, PTL
=============================================================================
