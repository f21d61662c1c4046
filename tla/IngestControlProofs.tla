------------------------ MODULE IngestControlProofs -------------------------
(***************************************************************************)
(* Proofs about IngestControl for all requests, projects, names, targets,  *)
(* stored streams, both databases and any number of attempts: types, that  *)
(* no rotation leaves a stream without a key, that nothing outside is told *)
(* what is not stored, and that answers put together from several          *)
(* statements were true.                                                   *)
(***************************************************************************)
EXTENDS IngestControl, FiniteSetTheorems, TLAPS

(***************************************************************************)
(* The inductive invariant                                                 *)
(***************************************************************************)

Rows == [id : StreamIds, project : Projects, name : Names, target : Targets]
Found == Keys \cup (Rows \X (Keys \cup {None}))
Ops == {"none", "create", "rotate", "validate", "publish", "hook", "config"}
Pcs == {"idle", "done", "scan", "insert", "provision", "created", "begin", "update", "locked",
        "rotated", "find", "fingerprint", "rule", "append", "dispatch", "recorded", "list",
        "configure"}
Answers == {"none", "not_found", "invalid", "denied", "name_conflict", "created", "rotated", "valid",
            "allowed", "rule_disabled", "accepted", "unavailable", "config_warned", "config", "broken"}
RequestStates ==
  [op : Ops, pc : Pcs, project : Projects \cup {None},
   stream : StreamIds \cup Targets \cup {None}, key : Keys \cup {None},
   found : SUBSET Found, provision : BOOLEAN, tries : 0 .. MaxAttempts, answer : Answers]

Types == TypeOK /\ req \in [Requests -> RequestStates]

\* Where a request is, by what was asked for.
Places(r) ==
  /\ req[r].op = "none" <=> req[r].pc = "idle"
  /\ Running(r) =>
       /\ req[r].project \in Projects
       /\ \/ req[r].op = "create" /\ req[r].pc \in {"insert", "provision", "created"}
          \/ /\ req[r].op = "rotate"
             /\ req[r].pc \in {"scan", "begin", "update", "locked", "insert", "rotated"}
          \/ req[r].op \in {"validate", "publish"} /\ req[r].pc \in {"scan", "find"}
          \/ /\ req[r].op = "hook"
             /\ req[r].pc \in {"scan", "fingerprint", "rule", "append", "dispatch", "recorded"}
          \/ req[r].op = "config" /\ req[r].pc \in {"list", "configure"}

\* The name of a request is given to nothing before it creates its stream or key.
Unused(r) ==
  \/ req[r].pc = "idle"
  \/ req[r].op = "create" /\ req[r].pc = "insert"
  \/ req[r].op = "rotate" /\ req[r].pc \in {"scan", "begin", "update", "locked", "insert"}
  => r \notin Ids /\ \A k \in keys : k.key # r

Creating(r) == req[r].op = "create" /\ req[r].pc \in {"provision", "created"} => r \in Ids

\* What a request speaks of exists, and after the first statement is its own.
Owning(r) ==
  req[r].op \in {"rotate", "validate", "publish", "hook"} /\ Running(r) =>
    /\ req[r].stream \in Ids
    /\ req[r].pc # "scan" => Owned(r)

KeysOf(s) == {k.key : k \in {l \in keys : l.stream = s}}

\* A rotation has found keys of its stream, with SQLite all that are active and
\* in any case those that have been active since it began; once it is committed
\* they are not.
Rotating(r) ==
  req[r].op = "rotate" =>
    /\ req[r].pc \in {"scan", "begin", "update", "locked", "insert"} => steady[r] \subseteq Active
    /\ req[r].pc \in {"locked", "insert"} =>
         /\ req[r].found \subseteq KeysOf(req[r].stream)
         /\ KeysOf(req[r].stream) \cap steady[r] \subseteq req[r].found
         /\ database = "sqlite" => req[r].found = FindActiveStreamKey(req[r].stream)
    /\ req[r].pc = "rotated" =>
         /\ \A x \in steady[r] : \E k \in keys : k.key = x
         /\ FindActiveStreamKey(req[r].stream) \cap steady[r] = {}

\* A request that only reads has witnessed what is active.
Watching(r) ==
  req[r].op \in {"validate", "publish", "hook", "config"} /\ Running(r) =>
    Active \subseteq seen[r] /\ steady[r] \subseteq Active

\* A hook stores its event with an active key before it sends it.
Hooking(r) ==
  /\ req[r].pc = "idle" => received[r] = 0
  /\ req[r].op = "hook" =>
       /\ req[r].pc \in {"rule", "append", "dispatch", "recorded"} =>
            req[r].key \in Keys /\ req[r].key \in seen[r]
       /\ req[r].pc \in {"dispatch", "recorded"} => LifecycleEvent(r) \in log
       /\ req[r].pc \in {"scan", "fingerprint", "rule", "append", "dispatch"} =>
            received[r] <= req[r].tries /\ req[r].tries < MaxAttempts
       /\ req[r].pc = "recorded" => received[r] > 0 \/ req[r].tries = MaxAttempts

\* A configuration has every stream of the project whose key has been there all
\* the time, and keys that were active.
Configuring(r) ==
  req[r].op = "config" /\ req[r].pc = "configure" =>
    /\ \A entry \in req[r].found : entry[1] \in Rows /\ entry[2] \in seen[r] \cup {None}
    /\ \A row \in RowsOf(req[r].project) :
         FindActiveStreamKey(row.id) \cap steady[r] # {} => \E entry \in req[r].found : entry[1] = row

Doing(r) ==
  /\ Places(r) /\ Unused(r) /\ Creating(r) /\ Owning(r)
  /\ Rotating(r) /\ Watching(r) /\ Hooking(r) /\ Configuring(r)

\* Keys have names of their own and belong to stored streams.
KeysSound ==
  /\ \A k \in keys : k.stream \in Ids
  /\ \A k, l \in keys : k.key = l.key => k = l
  /\ \A x \in retired : \E k \in keys : k.key = x

\* SQLite runs one transaction at a time.
OneTransaction == database = "sqlite" => \A q, r \in Requests : Open(q) /\ Open(r) => q = r

\* Every stream has an active key, with SQLite one.
HasKey(s) ==
  /\ FindActiveStreamKey(s) # {}
  /\ database = "sqlite" => \E k \in Keys : FindActiveStreamKey(s) = {k}

\* Holds in every state and in every step that starts from it.
CInv ==
  /\ Types /\ KeysSound /\ OneTransaction /\ OutsideFollowsStore
  /\ \A s \in Ids : HasKey(s)
  /\ \A r \in Requests : Doing(r)

(***************************************************************************)
(* Keys                                                                    *)
(***************************************************************************)

\* An active key of a stream is one of its keys that is not retired.
LEMMA ActiveKeyOf ==
    \A x, s : x \in FindActiveStreamKey(s) <=>
                  x \notin retired /\ \E k \in keys : k.stream = s /\ k.key = x
BY DEF FindActiveStreamKey

\* So it is with all active keys.
LEMMA ActiveKey ==
    \A x : x \in Active <=> x \notin retired /\ \E k \in keys : k.key = x
BY DEF Active

\* What becomes of the keys when a request adds one to a stream and retires others of it.
LEMMA NewKey ==
    ASSUME Types, KeysSound, NEW r \in Requests, NEW s \in StreamIds, NEW gone,
           \A k \in keys : k.key # r, gone \subseteq KeysOf(s),
           keys' = keys \cup {[key |-> r, stream |-> s]}, retired' = retired \cup gone
    PROVE  /\ \A t : FindActiveStreamKey(t)' =
                  IF t = s THEN (FindActiveStreamKey(t) \ gone) \cup {r} ELSE FindActiveStreamKey(t)
           /\ Active' = (Active \ gone) \cup {r}
           /\ r \notin Active /\ r \notin retired'
<1> DEFINE new == [key |-> r, stream |-> s]
<1>1. new.key = r /\ new.stream = s
    OBVIOUS
<1>2. r \notin retired /\ r \notin gone
    BY DEF KeysSound, KeysOf
<1>3. \A x \in gone : \E k \in keys : k.stream = s /\ k.key = x
    BY DEF KeysOf
<1> HIDE DEF new
<1>4. keys' = keys \cup {new}
    BY DEF new
<1>5. ASSUME NEW t
      PROVE  FindActiveStreamKey(t)' =
                  IF t = s THEN (FindActiveStreamKey(t) \ gone) \cup {r} ELSE FindActiveStreamKey(t)
    <2>1. \A x : x \in FindActiveStreamKey(t)' <=>
                  x \notin retired' /\ \E k \in keys' : k.stream = t /\ k.key = x
        BY DEF FindActiveStreamKey
    <2>2. \A x \in FindActiveStreamKey(t)' :
             x \in IF t = s THEN (FindActiveStreamKey(t) \ gone) \cup {r} ELSE FindActiveStreamKey(t)
        BY <1>1, <1>4, <2>1, ActiveKeyOf
    <2>3. ASSUME t # s, NEW x \in FindActiveStreamKey(t)
          PROVE  x \in FindActiveStreamKey(t)'
        <3>1. x \notin gone
            BY <1>3, <2>3, ActiveKeyOf DEF KeysSound
        <3> QED
            BY <1>4, <2>1, <2>3, <3>1, ActiveKeyOf
    <2>4. ASSUME t = s, NEW x \in (FindActiveStreamKey(t) \ gone) \cup {r}
          PROVE  x \in FindActiveStreamKey(t)'
        <3>1. CASE x = r
            BY <1>1, <1>2, <1>4, <2>1, <2>4, <3>1
        <3>2. CASE x # r
            BY <1>4, <2>1, <2>4, <3>2, ActiveKeyOf
        <3> QED
            BY <3>1, <3>2
    <2> QED
        BY <2>2, <2>3, <2>4
<1>6. Active' = (Active \ gone) \cup {r}
    <2>1. \A x : x \in Active' <=> x \notin retired' /\ \E k \in keys' : k.key = x
        BY DEF Active
    <2>2. ASSUME NEW x
          PROVE  x \in Active' <=> x \in (Active \ gone) \cup {r}
        <3>1. CASE x = r
            BY <1>1, <1>2, <1>4, <2>1, <3>1
        <3>2. CASE x # r
            BY <1>1, <1>4, <2>1, <3>2, ActiveKey
        <3> QED
            BY <3>1, <3>2
    <2> QED
        BY <2>2
<1> QED
    BY <1>2, <1>5, <1>6, ActiveKey

(***************************************************************************)
(* Steps of a request                                                      *)
(***************************************************************************)

\* The request goes on, and otherwise stays what it is.
LEMMA Going ==
    ASSUME Types, NEW r \in Requests, NEW pc \in Pcs, To(r, pc)
    PROVE  /\ req' \in [Requests -> RequestStates]
           /\ \A q \in Requests \ {r} : req'[q] = req[q]
           /\ req'[r].pc = pc /\ req'[r].op = req[r].op /\ req'[r].project = req[r].project
           /\ req'[r].stream = req[r].stream /\ req'[r].key = req[r].key
           /\ req'[r].found = req[r].found /\ req'[r].tries = req[r].tries
<1>1. req[r] \in RequestStates /\ req \in [Requests -> RequestStates]
    BY DEF Types
<1>2. [req[r] EXCEPT !.pc = pc] \in RequestStates
    BY <1>1 DEF RequestStates
<1>3. req' = [req EXCEPT ![r] = [req[r] EXCEPT !.pc = pc]]
    BY DEF To
<1> QED
    BY <1>1, <1>2, <1>3 DEF RequestStates

\* The request ends.
LEMMA Ending ==
    ASSUME Types, NEW r \in Requests, NEW a \in Answers, Answer(r, a)
    PROVE  /\ req' \in [Requests -> RequestStates]
           /\ seen' \in [Requests -> SUBSET Keys] /\ steady' \in [Requests -> SUBSET Keys]
           /\ \A q \in Requests \ {r} : req'[q] = req[q] /\ seen'[q] = seen[q] /\ steady'[q] = steady[q]
           /\ req'[r].pc = "done" /\ req'[r].op = req[r].op /\ req'[r].answer = a
<1>1. req[r].op \in Ops /\ req \in [Requests -> RequestStates] /\ MaxAttempts \in Nat
    BY AttemptsAssumption DEF Types, RequestStates
<1>2. Ended(r, a) \in RequestStates
    <2>1. 0 \in 0 .. MaxAttempts
        BY <1>1
    <2>2. NoRequest \in RequestStates
        BY <2>1 DEF NoRequest, RequestStates, Pcs, Ops, Answers
    <2> QED
        BY <1>1, <2>2 DEF Ended, RequestStates, Pcs
<1>3. Ended(r, a).pc = "done" /\ Ended(r, a).op = req[r].op /\ Ended(r, a).answer = a
    BY DEF Ended, NoRequest
<1> QED
    BY <1>1, <1>2, <1>3 DEF Answer, Types, TypeOK

\* Nothing is demanded of a request that has ended.
LEMMA DoneIsDone ==
    ASSUME NEW r \in Requests, (req'[r]).pc = "done", (req'[r]).op # "none"
    PROVE  Doing(r)'
BY DEF Doing, Places, Unused, Creating, Owning, Rotating, Watching, Hooking, Configuring, Running

\* The others do not notice a step that changes nothing they have read.
LEMMA OthersStay ==
    ASSUME CInv, NEW q \in Requests, req'[q] = req[q], received'[q] = received[q],
           seen'[q] = seen[q], steady'[q] = steady[q],
           UNCHANGED <<database, rows, keys, retired>>, log \subseteq log'
    PROVE  Doing(q)'
<1>1. Doing(q)
    BY DEF CInv
<1>2. LifecycleEvent(q)' = LifecycleEvent(q) /\ Ids' = Ids /\ Owned(q)' = Owned(q) /\ Active' = Active
    BY DEF LifecycleEvent, Ids, Owned, Active
<1>3. \A s : FindActiveStreamKey(s)' = FindActiveStreamKey(s) /\ KeysOf(s)' = KeysOf(s)
    BY DEF FindActiveStreamKey, KeysOf
<1>4. RowsOf(req[q].project)' = RowsOf(req[q].project)
    BY DEF RowsOf
<1>5. (Places(q) /\ Unused(q) /\ Creating(q) /\ Owning(q))'
    BY <1>1, <1>2 DEF Doing, Places, Unused, Creating, Owning, Running
<1>6. (Rotating(q) /\ Watching(q))'
    BY <1>1, <1>2, <1>3 DEF Doing, Rotating, Watching, Running
<1>7. Hooking(q)'
    BY <1>1, <1>2 DEF Doing, Hooking
<1>8. Configuring(q)'
    BY <1>1, <1>3, <1>4 DEF Doing, Configuring, RowsOf
<1> QED
    BY <1>5, <1>6, <1>7, <1>8 DEF Doing

\* A step of a request that leaves streams and keys alone concerns only itself.
LEMMA StepAlone ==
    ASSUME CInv, NEW r \in Requests, Types', Doing(r)', OutsideFollowsStore',
           \A q \in Requests \ {r} : /\ req'[q] = req[q] /\ received'[q] = received[q]
                                     /\ seen'[q] = seen[q] /\ steady'[q] = steady[q],
           UNCHANGED <<database, rows, keys, retired>>, log \subseteq log',
           database = "sqlite" /\ Open(r)' => Open(r) \/ \A q \in Requests : ~Open(q)
    PROVE  CInv'
<1> USE DEF CInv
<1>1. ASSUME NEW q \in Requests, q # r
      PROVE  Doing(q)' /\ Open(q)' = Open(q)
    BY <1>1, OthersStay DEF Open
<1>2. KeysSound'
    BY DEF KeysSound, Ids
<1>3. \A t : HasKey(t) => HasKey(t)'
    BY DEF HasKey, FindActiveStreamKey
<1>4. OneTransaction'
    <2> SUFFICES ASSUME database = "sqlite", NEW p \in Requests, NEW q \in Requests, Open(p)', Open(q)'
                 PROVE  p = q
        BY DEF OneTransaction, Open
    <2>1. \A x \in Requests : Open(x)' => x = r \/ Open(x)
        BY <1>1
    <2>2. Open(r)' => Open(r) \/ \A x \in Requests : ~Open(x)
        OBVIOUS
    <2> QED
        BY <2>1, <2>2 DEF OneTransaction
<1>5. \A t \in Ids' : HasKey(t)'
    BY <1>3 DEF Ids
<1> QED
    BY <1>1, <1>2, <1>4, <1>5

\* What is outside stays true while it and the store only gain.
LEMMA OutsideStays ==
    ASSUME OutsideFollowsStore, UNCHANGED outside, rows \subseteq rows', log \subseteq log'
    PROVE  OutsideFollowsStore'
BY DEF OutsideFollowsStore, outside

\* The end of a request.
LEMMA AnswerStep ==
    ASSUME CInv, NEW r \in Requests, Running(r), NEW a \in Answers, Answer(r, a),
           UNCHANGED <<database, tables, outside>>
    PROVE  CInv'
<1> USE DEF CInv
<1>1. /\ req' \in [Requests -> RequestStates]
      /\ seen' \in [Requests -> SUBSET Keys] /\ steady' \in [Requests -> SUBSET Keys]
      /\ \A q \in Requests \ {r} : req'[q] = req[q] /\ seen'[q] = seen[q] /\ steady'[q] = steady[q]
      /\ req'[r].pc = "done" /\ req'[r].op = req[r].op
    BY Ending
<1>2. req[r].op # "none"
    BY DEF Doing, Places, Running
<1>3. Doing(r)'
    BY <1>1, <1>2, DoneIsDone
<1>4. Types'
    BY <1>1 DEF Types, TypeOK, tables, outside
<1>5. OutsideFollowsStore'
    BY OutsideStays DEF tables
<1>6. ~Open(r)'
    BY <1>1 DEF Open
<1> QED
    BY <1>1, <1>3, <1>4, <1>5, <1>6, StepAlone DEF tables, outside

\* A request goes on without anything else.
LEMMA GoingStep ==
    ASSUME CInv, NEW r \in Requests, NEW pc \in Pcs, To(r, pc),
           UNCHANGED <<database, tables, outside, history>>, Doing(r)',
           database = "sqlite" /\ Open(r)' => Open(r) \/ \A q \in Requests : ~Open(q)
    PROVE  CInv'
<1> USE DEF CInv
<1>1. /\ req' \in [Requests -> RequestStates]
      /\ \A q \in Requests \ {r} : req'[q] = req[q]
    BY Going
<1>2. Types'
    BY <1>1 DEF Types, TypeOK, tables, outside, history
<1>3. OutsideFollowsStore'
    BY OutsideStays DEF tables
<1> QED
    BY <1>1, <1>2, <1>3, StepAlone DEF tables, outside, history

\* A request arrives for what exists.
LEMMA ArriveStep ==
    ASSUME CInv, NEW r \in Requests, NEW op \in Ops, NEW pc \in Pcs, NEW p \in Projects,
           NEW s \in StreamIds \cup Targets \cup {None}, NEW k \in Keys \cup {None},
           NEW provision \in BOOLEAN, Arrive(r, op, pc, p, s, k, provision),
           \/ op = "create" /\ pc = "insert"
           \/ op \in {"rotate", "validate", "publish", "hook"} /\ pc = "scan" /\ s \in Ids
           \/ op = "config" /\ pc = "list"
    PROVE  CInv'
<1> USE DEF CInv
<1> DEFINE new == [NoRequest EXCEPT !.op = op, !.pc = pc, !.project = p,
                                    !.stream = s, !.key = k, !.provision = provision]
<1>1. req[r].pc = "idle" /\ req' = [req EXCEPT ![r] = new]
    BY DEF Arrive
<1>2. 0 \in 0 .. MaxAttempts /\ 0 < MaxAttempts
    BY AttemptsAssumption
<1>3. NoRequest \in RequestStates /\ NoRequest.tries = 0
    BY <1>2 DEF NoRequest, RequestStates, Pcs, Ops, Answers
<1>4. new \in RequestStates
    BY <1>3 DEF RequestStates
<1>5. new.op = op /\ new.pc = pc /\ new.project = p /\ new.stream = s /\ new.tries = 0
    BY <1>3 DEF RequestStates
<1> HIDE DEF new
<1>6. req' \in [Requests -> RequestStates] /\ req'[r] = new
      /\ \A q \in Requests \ {r} : req'[q] = req[q]
    BY <1>1, <1>4 DEF Types
<1>7. Active \subseteq Keys
    BY DEF Active, Types, TypeOK
<1>8. /\ seen' \in [Requests -> SUBSET Keys] /\ steady' \in [Requests -> SUBSET Keys]
      /\ seen'[r] = Active /\ steady'[r] = Active
      /\ \A q \in Requests \ {r} : seen'[q] = seen[q] /\ steady'[q] = steady[q]
    BY <1>7 DEF Arrive, Types, TypeOK
<1>9. UNCHANGED <<database, rows, keys, retired, disabled, log, paths, received>>
    BY DEF Arrive, tables, outside
<1>10. Types'
    BY <1>6, <1>8, <1>9 DEF Types, TypeOK
<1>11. OutsideFollowsStore'
    BY <1>9, OutsideStays DEF outside
<1>12. Doing(r)'
    <2>1. r \notin Ids /\ (\A x \in keys : x.key # r) /\ received[r] = 0 /\ Ids' = Ids /\ Active' = Active
        BY <1>1, <1>9 DEF Doing, Unused, Hooking, Ids, Active
    <2>2. (Places(r) /\ Unused(r) /\ Creating(r) /\ Owning(r))'
        BY <1>5, <1>6, <1>9, <2>1 DEF Places, Unused, Creating, Owning, Running
    <2>3. (Rotating(r) /\ Watching(r) /\ Configuring(r))'
        BY <1>5, <1>6, <1>8, <1>9, <2>1 DEF Rotating, Watching, Configuring
    <2>4. Hooking(r)'
        BY <1>2, <1>5, <1>6, <1>9, <2>1 DEF Hooking
    <2> QED
        BY <2>2, <2>3, <2>4 DEF Doing
<1>13. ~Open(r)'
    BY <1>5, <1>6 DEF Open
<1> QED
    BY <1>6, <1>8, <1>9, <1>10, <1>11, <1>12, <1>13, StepAlone

(***************************************************************************)
(* Streams and keys that are added                                         *)
(***************************************************************************)

\* What the others have witnessed when a request adds a key.
LEMMA OthersSee ==
    ASSUME CInv, NEW r \in Requests, NEW s \in StreamIds, NEW gone,
           r \notin Ids, \A k \in keys : k.key # r, gone \subseteq KeysOf(s),
           keys' = keys \cup {[key |-> r, stream |-> s]}, retired' = retired \cup gone,
           rows \subseteq rows', \A row \in rows' : row \in rows \/ row.id = r,
           Witnessed(r, (Active \ gone) \cup {r}), UNCHANGED <<database, log, received>>,
           NEW q \in Requests, q # r, req'[q] = req[q],
           database = "sqlite" /\ Open(q) => s \notin Ids
    PROVE  Doing(q)'
<1> USE DEF CInv
<1>1. Doing(q) /\ KeysSound /\ Types
    OBVIOUS
<1>2. /\ \A t : FindActiveStreamKey(t)' =
             IF t = s THEN (FindActiveStreamKey(t) \ gone) \cup {r} ELSE FindActiveStreamKey(t)
      /\ Active' = (Active \ gone) \cup {r} /\ r \notin Active
    <2> HIDE DEF CInv
    <2> QED
        BY <1>1, NewKey, ZenonT(60)
<1>3. /\ seen'[q] = IF Running(q) THEN seen[q] \cup Active' ELSE seen[q]
      /\ steady'[q] = IF Running(q) THEN steady[q] \cap Active' ELSE steady[q]
    BY <1>2 DEF Witnessed
<1>4. Ids \subseteq Ids' /\ Ids' \subseteq Ids \cup {r}
    BY DEF Ids
<1>5. Owned(q) => Owned(q)'
    BY DEF Owned
<1>6. \A k \in keys' : k \in keys \/ k.key = r
    OBVIOUS
<1>7. (Places(q) /\ Creating(q) /\ Owning(q))'
    BY <1>1, <1>4, <1>5 DEF Doing, Places, Creating, Owning, Running
<1>8. Unused(q)'
    BY <1>1, <1>4, <1>6 DEF Doing, Unused
<1>9. Rotating(q)'
    <2> SUFFICES ASSUME req[q].op = "rotate"
                 PROVE  Rotating(q)'
        BY DEF Rotating
    <2>1. KeysOf(req[q].stream) \subseteq KeysOf(req[q].stream)'
          /\ KeysOf(req[q].stream)' \subseteq KeysOf(req[q].stream) \cup {r}
        BY DEF KeysOf
    <2>2. steady'[q] \subseteq steady[q] /\ (Running(q) => steady'[q] \subseteq Active')
        BY <1>3
    <2>3. CASE req[q].pc \in {"scan", "begin", "update", "locked", "insert"}
        <3>1. Running(q) /\ steady[q] \subseteq Active
            BY <1>1, <2>3 DEF Doing, Rotating, Running
        <3>2. steady'[q] \subseteq Active' /\ r \notin steady'[q]
            BY <1>2, <2>2, <3>1
        <3>3. CASE req[q].pc \in {"locked", "insert"}
            <4>1. /\ req[q].found \subseteq KeysOf(req[q].stream) /\ Open(q) /\ req[q].stream \in Ids
                  /\ KeysOf(req[q].stream) \cap steady[q] \subseteq req[q].found
                  /\ database = "sqlite" => req[q].found = FindActiveStreamKey(req[q].stream)
                BY <1>1, <3>3 DEF Doing, Rotating, Open, Owning, Running
            <4>2. database = "sqlite" => req[q].found = FindActiveStreamKey(req[q].stream)'
                BY <1>2, <4>1
            <4>3. KeysOf(req[q].stream)' \cap steady'[q] \subseteq req[q].found
                BY <2>1, <2>2, <3>2, <4>1
            <4> QED
                BY <2>1, <2>3, <3>2, <3>3, <4>1, <4>2, <4>3 DEF Rotating
        <3> QED
            BY <2>3, <3>2, <3>3 DEF Rotating
    <2>4. CASE req[q].pc = "rotated"
        <3>1. /\ \A x \in steady[q] : \E k \in keys : k.key = x
              /\ FindActiveStreamKey(req[q].stream) \cap steady[q] = {}
            BY <1>1, <2>4 DEF Doing, Rotating
        <3>2. r \notin steady[q]
            BY <3>1
        <3>3. FindActiveStreamKey(req[q].stream)' \subseteq FindActiveStreamKey(req[q].stream) \cup {r}
            BY <1>2
        <3>4. FindActiveStreamKey(req[q].stream)' \cap steady'[q] = {}
            BY <2>2, <3>1, <3>2, <3>3
        <3>5. \A x \in steady'[q] : \E k \in keys' : k.key = x
            BY <2>2, <3>1
        <3> QED
            BY <2>4, <3>4, <3>5 DEF Rotating
    <2>5. CASE req[q].pc \notin {"scan", "begin", "update", "locked", "insert", "rotated"}
        BY <2>5 DEF Rotating
    <2> QED
        BY <2>3, <2>4, <2>5
<1>10. Watching(q)'
    BY <1>1, <1>3 DEF Doing, Watching, Running
<1>11. Hooking(q)'
    <2>1. LifecycleEvent(q)' = LifecycleEvent(q)
        BY DEF LifecycleEvent
    <2>2. seen[q] \subseteq seen'[q]
        BY <1>3
    <2> QED
        BY <1>1, <2>1, <2>2 DEF Doing, Hooking
<1>12. Configuring(q)'
    <2> SUFFICES ASSUME req[q].op = "config", req[q].pc = "configure"
                 PROVE  Configuring(q)'
        BY DEF Configuring
    <2>1. /\ \A entry \in req[q].found : entry[1] \in Rows /\ entry[2] \in seen[q] \cup {None}
          /\ \A row \in RowsOf(req[q].project) :
                FindActiveStreamKey(row.id) \cap steady[q] # {} =>
                    \E entry \in req[q].found : entry[1] = row
          /\ Running(q) /\ Active \subseteq seen[q] /\ steady[q] \subseteq Active
        BY <1>1 DEF Doing, Configuring, Watching, Running
    <2>2. seen[q] \subseteq seen'[q] /\ steady'[q] \subseteq steady[q] /\ r \notin steady[q]
        BY <1>2, <1>3, <2>1
    <2>3. ASSUME NEW row \in rows', row.project = req[q].project,
                 FindActiveStreamKey(row.id)' \cap steady'[q] # {}
          PROVE  \E entry \in req[q].found : entry[1] = row
        <3>1. FindActiveStreamKey(row.id) \cap steady[q] # {}
            BY <1>2, <2>2, <2>3
        <3>2. row.id \in Ids
            BY <3>1, ActiveKeyOf DEF KeysSound
        <3>3. row \in rows
            BY <3>2
        <3> QED
            BY <2>1, <2>3, <3>1, <3>3 DEF RowsOf
    <2> QED
        BY <2>1, <2>2, <2>3 DEF Configuring, RowsOf
<1> QED
    BY <1>7, <1>8, <1>9, <1>10, <1>11, <1>12 DEF Doing

\* A request that adds a key leaves every stream with one.
LEMMA KeyStep ==
    ASSUME CInv, NEW r \in Requests, NEW s \in StreamIds, NEW gone,
           r \notin Ids, \A k \in keys : k.key # r, gone \subseteq KeysOf(s),
           keys' = keys \cup {[key |-> r, stream |-> s]}, retired' = retired \cup gone,
           rows \subseteq rows', \A row \in rows' : row \in rows \/ (row.id = r /\ s = r),
           s \in Ids', database = "sqlite" /\ s \in Ids => gone = FindActiveStreamKey(s),
           database' = database
    PROVE  KeysSound' /\ \A t \in Ids' : HasKey(t)'
<1> USE DEF CInv
<1>1. KeysSound /\ Types
    OBVIOUS
<1>2. \A t : FindActiveStreamKey(t)' =
             IF t = s THEN (FindActiveStreamKey(t) \ gone) \cup {r} ELSE FindActiveStreamKey(t)
    BY NewKey
<1>3. Ids \subseteq Ids' /\ Ids' \subseteq Ids \cup {s}
    BY DEF Ids
<1>4. KeysSound'
    <2> DEFINE new == [key |-> r, stream |-> s]
    <2>1. keys' = keys \cup {new} /\ new.key = r /\ new.stream = s
        OBVIOUS
    <2> HIDE DEF new
    <2>2. \A k \in keys' : k.stream \in Ids'
        BY <1>1, <1>3, <2>1 DEF KeysSound
    <2>3. \A k, l \in keys' : k.key = l.key => k = l
        BY <1>1, <2>1 DEF KeysSound
    <2>4. \A x \in gone : \E k \in keys : k.key = x
        BY DEF KeysOf
    <2>5. \A x \in retired' : \E k \in keys' : k.key = x
        BY <1>1, <2>1, <2>4 DEF KeysSound
    <2> QED
        BY <2>2, <2>3, <2>5 DEF KeysSound
<1>5. ASSUME NEW t \in Ids'
      PROVE  HasKey(t)'
    <2>1. CASE t # s
        BY <1>2, <1>3, <2>1 DEF HasKey
    <2>2. CASE t = s
        <3>1. FindActiveStreamKey(t)' # {}
            BY <1>2, <2>2
        <3>2. database = "sqlite" => FindActiveStreamKey(t)' = {r}
            <4>1. s \notin Ids => FindActiveStreamKey(s) = {}
                BY <1>1, ActiveKeyOf DEF KeysSound
            <4> QED
                BY <1>2, <2>2, <4>1
        <3> QED
            BY <3>1, <3>2 DEF HasKey, Keys, StreamIds
    <2> QED
        BY <2>1, <2>2
<1> QED
    BY <1>4, <1>5

\* The histories keep their types.
LEMMA WitnessedType ==
    ASSUME Types, NEW r \in Requests, NEW active, active \subseteq Keys, Witnessed(r, active)
    PROVE  seen' \in [Requests -> SUBSET Keys] /\ steady' \in [Requests -> SUBSET Keys]
           /\ seen'[r] = seen[r] /\ steady'[r] = steady[r]
BY DEF Witnessed, Types, TypeOK

\* A stream is stored with its first key.
LEMMA CreateStep ==
    ASSUME CInv, NEW r \in Requests, CreateStream(r)
    PROVE  CInv'
<1> USE DEF CInv
<1>1. PICK name \in Names, target \in Targets :
          IF NameConflict(req[r].project, name)
          THEN Answer(r, "name_conflict") /\ UNCHANGED tables
          ELSE /\ Inserted(r, name, target)
               /\ To(r, IF req[r].provision THEN "provision" ELSE "created")
    BY DEF CreateStream
<1>2. /\ req[r].pc = "insert" /\ req[r].op = "create" /\ Running(r) /\ req[r].project \in Projects
      /\ UNCHANGED <<database, outside>>
    BY DEF CreateStream, Running, Doing, Places
<1>3. CASE NameConflict(req[r].project, name)
    BY <1>1, <1>2, <1>3, AnswerStep DEF Answers
<1>4. CASE ~NameConflict(req[r].project, name)
    <2> DEFINE new == Row(r, req[r].project, name, target)
    <2>1. /\ rows' = rows \cup {new} /\ keys' = keys \cup {[key |-> r, stream |-> r]}
          /\ Witnessed(r, Active \cup {r}) /\ UNCHANGED <<retired, disabled, log>>
        BY <1>1, <1>4 DEF Inserted
    <2>2. PICK pc \in {"provision", "created"} : To(r, pc)
        BY <1>1, <1>4
    <2>3. new \in Rows /\ new.id = r /\ r \in Keys /\ r \in StreamIds
        BY <1>2 DEF Row, Rows, StreamIds, Keys
    <2> HIDE DEF new
    <2>4. /\ req' \in [Requests -> RequestStates]
          /\ \A q \in Requests \ {r} : req'[q] = req[q]
          /\ req'[r].pc = pc /\ req'[r].op = "create" /\ req'[r].project \in Projects
        BY <1>2, <2>2, Going DEF Pcs
    <2>5. r \notin Ids /\ \A k \in keys : k.key # r
        BY <1>2 DEF Doing, Unused
    <2>6. r \in Ids' /\ Active \subseteq Keys
        BY <2>1, <2>3 DEF Ids, Active, Types, TypeOK
    <2> DEFINE gone == {}
    <2>a. /\ gone \subseteq KeysOf(r) /\ retired' = retired \cup gone
          /\ Witnessed(r, (Active \ gone) \cup {r})
          /\ rows \subseteq rows' /\ (\A row \in rows' : row \in rows \/ row.id = r)
        <3>1. Active \ gone = Active /\ retired = retired \cup gone
            OBVIOUS
        <3> QED
            BY <2>1, <2>3, <3>1
    <2> HIDE DEF gone
    <2>7. KeysSound' /\ \A t \in Ids' : HasKey(t)'
        <3>1. \A row \in rows' : row \in rows \/ (row.id = r /\ r = r)
            BY <2>a
        <3>2. database' = database /\ (database = "sqlite" /\ r \in Ids => gone = FindActiveStreamKey(r))
            BY <1>2, <2>5
        <3> QED
            BY <2>1, <2>3, <2>5, <2>6, <2>a, <3>1, <3>2, KeyStep
    <2>8. ASSUME NEW q \in Requests, q # r
          PROVE  Doing(q)'
        <3>1. UNCHANGED <<database, log, received>> /\ req'[q] = req[q]
              /\ (database = "sqlite" /\ Open(q) => r \notin Ids)
            BY <1>2, <2>1, <2>4, <2>5, <2>8 DEF outside
        <3> QED
            BY <2>1, <2>3, <2>5, <2>8, <2>a, <3>1, OthersSee
    <2>9. Doing(r)'
        BY <2>4, <2>6 DEF Doing, Places, Unused, Creating, Owning, Rotating, Watching, Hooking,
            Configuring, Running
    <2>10. Types'
        <3>1. seen' \in [Requests -> SUBSET Keys] /\ steady' \in [Requests -> SUBSET Keys]
            BY <2>1, <2>3, <2>6, WitnessedType
        <3>2. keys' \subseteq [key : Keys, stream : StreamIds]
            BY <2>1, <2>3 DEF Types, TypeOK
        <3> QED
            BY <1>2, <2>1, <2>3, <2>4, <3>1, <3>2 DEF Types, TypeOK, Rows, outside
    <2>11. OneTransaction'
        <3>1. \A q \in Requests : Open(q)' => Open(q) /\ q # r
            BY <2>4 DEF Open
        <3> QED
            BY <1>2, <3>1 DEF OneTransaction
    <2>12. OutsideFollowsStore'
        BY <1>2, <2>1, OutsideStays
    <2> QED
        BY <2>7, <2>8, <2>9, <2>10, <2>11, <2>12
<1> QED
    BY <1>3, <1>4

\* A rotation commits a new key in the place of those it has found.
LEMMA CommitStep ==
    ASSUME CInv, NEW r \in Requests, CommitRotation(r)
    PROVE  CInv'
<1> USE DEF CInv
<1> DEFINE s == req[r].stream  gone == req[r].found
<1>1. /\ req[r].pc = "insert" /\ req[r].op = "rotate" /\ Running(r) /\ Open(r)
      /\ req[r].project \in Projects /\ s \in Ids /\ Owned(r)
      /\ gone \subseteq KeysOf(s) /\ (database = "sqlite" => gone = FindActiveStreamKey(s))
      /\ KeysOf(s) \cap steady[r] \subseteq gone /\ steady[r] \subseteq Active
      /\ r \notin Ids /\ (\A k \in keys : k.key # r)
    BY DEF CommitRotation, Running, Open, Doing, Places, Owning, Rotating, Unused
<1>2. /\ retired' = retired \cup gone /\ keys' = keys \cup {[key |-> r, stream |-> s]}
      /\ Witnessed(r, (Active \ gone) \cup {r})
      /\ req' = [req EXCEPT ![r].pc = "rotated", ![r].found = {}]
      /\ UNCHANGED <<database, rows, disabled, log, outside>>
    BY DEF CommitRotation
<1> HIDE DEF s, gone
<1>3. s \in StreamIds /\ Ids' = Ids
    BY <1>1, <1>2 DEF Ids, Types, TypeOK
<1>4. /\ req' \in [Requests -> RequestStates]
      /\ \A q \in Requests \ {r} : req'[q] = req[q]
      /\ req'[r].pc = "rotated" /\ req'[r].op = "rotate" /\ req'[r].project \in Projects
      /\ req'[r].stream = s
    <2>1. req[r] \in RequestStates /\ req \in [Requests -> RequestStates]
        BY DEF Types
    <2>2. [req[r] EXCEPT !.pc = "rotated", !.found = {}] \in RequestStates
        BY <2>1 DEF RequestStates, Pcs
    <2>3. req' = [req EXCEPT ![r] = [req[r] EXCEPT !.pc = "rotated", !.found = {}]]
        BY <1>2
    <2> QED
        BY <1>1, <2>1, <2>2, <2>3 DEF RequestStates, s
<1>5. KeysSound' /\ \A t \in Ids' : HasKey(t)'
    BY <1>1, <1>2, <1>3, KeyStep
<1>6. ASSUME NEW q \in Requests, q # r
      PROVE  Doing(q)'
    <2>1. ~(database = "sqlite" /\ Open(q))
        BY <1>1, <1>6 DEF OneTransaction
    <2> QED
        BY <1>1, <1>2, <1>3, <1>4, <1>6, <2>1, OthersSee DEF outside
<1>7. Doing(r)'
    <2>1. Owned(r)'
        BY <1>1, <1>2, <1>4 DEF Owned, s
    <2>2. Rotating(r)'
        <3>1. \A x \in steady[r] : x # r /\ \E k \in keys : k.key = x
            BY <1>1, ActiveKey
        <3>2. steady'[r] = steady[r]
            BY <1>2 DEF Witnessed, Types, TypeOK
        <3>3. ASSUME NEW x \in steady[r], NEW k \in keys', k.stream = s, k.key = x
              PROVE  x \in retired'
            <4>1. k \in keys
                BY <1>2, <3>1, <3>3
            <4>2. x \in KeysOf(s)
                BY <3>3, <4>1 DEF KeysOf
            <4> QED
                BY <1>1, <1>2, <4>2
        <3>4. \A t : t = s => FindActiveStreamKey(t)' \cap steady'[r] = {}
            BY <3>2, <3>3 DEF FindActiveStreamKey
        <3>5. \A x \in steady'[r] : \E k \in keys' : k.key = x
            BY <1>2, <3>1, <3>2
        <3> QED
            BY <1>4, <3>4, <3>5 DEF Rotating
    <2> QED
        BY <1>1, <1>3, <1>4, <2>1, <2>2 DEF Doing, Places, Unused, Creating, Owning, Watching,
            Hooking, Configuring, Running
<1>8. Types'
    <2>1. r \in Keys /\ Active \subseteq Keys /\ gone \subseteq Keys
        BY <1>1 DEF Keys, StreamIds, Active, KeysOf, Types, TypeOK
    <2>2. seen' \in [Requests -> SUBSET Keys] /\ steady' \in [Requests -> SUBSET Keys]
        BY <1>2, <2>1, WitnessedType
    <2>3. keys' \subseteq [key : Keys, stream : StreamIds]
        BY <1>2, <1>3, <2>1 DEF Types, TypeOK
    <2> QED
        BY <1>2, <1>4, <2>1, <2>2, <2>3 DEF Types, TypeOK, outside
<1>9. OneTransaction'
    <2>1. \A q \in Requests : Open(q)' => Open(q)
        BY <1>4 DEF Open
    <2> QED
        BY <1>2, <2>1 DEF OneTransaction
<1>10. OutsideFollowsStore'
    BY <1>2, OutsideStays
<1> QED
    BY <1>5, <1>6, <1>7, <1>8, <1>9, <1>10

(***************************************************************************)
(* The other steps                                                         *)
(***************************************************************************)

\* A request changes what it remembers, and nothing else.
LEMMA ChangeStep ==
    ASSUME CInv, NEW r \in Requests, NEW new \in RequestStates, req' = [req EXCEPT ![r] = new],
           UNCHANGED <<database, tables, outside, history>>, Doing(r)', Open(r)' => Open(r)
    PROVE  CInv'
<1> USE DEF CInv
<1>1. /\ req' \in [Requests -> RequestStates]
      /\ \A q \in Requests \ {r} : req'[q] = req[q]
    BY DEF Types
<1>2. Types'
    BY <1>1 DEF Types, TypeOK, tables, outside, history
<1>3. OutsideFollowsStore'
    BY OutsideStays DEF tables
<1> QED
    BY <1>1, <1>2, <1>3, StepAlone DEF tables, outside, history

\* The stream is found in the caller's project, or the request ends.
LEMMA ScanStep ==
    ASSUME CInv, NEW r \in Requests, GetStreamByID(r)
    PROVE  CInv'
<1> USE DEF CInv
<1>1. /\ req[r].pc = "scan" /\ Running(r) /\ req[r].op \in {"rotate", "validate", "publish", "hook"}
      /\ UNCHANGED <<database, tables, outside>>
    BY DEF GetStreamByID, Running, Doing, Places
<1>2. CASE Scan(req[r].project, req[r].stream)
    <2> DEFINE pc == After[req[r].op]
    <2>1. pc \in {"begin", "find", "fingerprint"} /\ (pc = "begin" <=> req[r].op = "rotate")
          /\ (pc = "fingerprint" <=> req[r].op = "hook")
        BY <1>1 DEF After
    <2>2. To(r, pc) /\ UNCHANGED history
        BY <1>1, <1>2 DEF GetStreamByID
    <2> HIDE DEF pc
    <2>3. /\ req'[r].pc = pc /\ req'[r].op = req[r].op /\ req'[r].project = req[r].project
          /\ req'[r].stream = req[r].stream /\ req'[r].tries = req[r].tries
        BY <2>1, <2>2, Going DEF Pcs
    <2>4. Owned(r)'
        BY <1>1, <1>2, <2>3 DEF Owned, Scan, tables
    <2>5. (Places(r) /\ Unused(r) /\ Creating(r) /\ Owning(r))'
        BY <1>1, <2>1, <2>3, <2>4 DEF Doing, Places, Unused, Creating, Owning, Running, Ids, tables
    <2>6. (Rotating(r) /\ Hooking(r) /\ Configuring(r))'
        BY <1>1, <2>1, <2>2, <2>3 DEF Doing, Rotating, Hooking, Configuring, Active, tables, outside,
            history
    <2>7. Watching(r)'
        BY <1>1, <2>1, <2>2, <2>3 DEF Doing, Watching, Running, Active, tables, history
    <2>8. Doing(r)' /\ ~Open(r)'
        BY <2>1, <2>3, <2>5, <2>6, <2>7 DEF Doing, Open
    <2> QED
        BY <1>1, <2>1, <2>2, <2>8, GoingStep DEF Pcs
<1>3. CASE ~Scan(req[r].project, req[r].stream)
    <2>1. Answer(r, NotFound[req[r].op])
        BY <1>3 DEF GetStreamByID
    <2>2. NotFound[req[r].op] \in Answers
        BY <1>1 DEF NotFound, Answers
    <2> QED
        BY <1>1, <2>1, <2>2, AnswerStep
<1> QED
    BY <1>2, <1>3

\* The media server may get the path of a stream that is stored.
LEMMA ProvisionStep ==
    ASSUME CInv, NEW r \in Requests, TryProvision(r)
    PROVE  CInv'
<1> USE DEF CInv
<1>1. /\ req[r].pc = "provision" /\ req[r].op = "create" /\ req[r].project \in Projects /\ r \in Ids
      /\ paths' \subseteq paths \cup {r} /\ To(r, "created")
      /\ UNCHANGED <<database, tables, received, history>>
    BY DEF TryProvision, Provisioned, Doing, Places, Creating, Running
<1>2. /\ req' \in [Requests -> RequestStates]
      /\ \A q \in Requests \ {r} : req'[q] = req[q]
      /\ req'[r].pc = "created" /\ req'[r].op = req[r].op /\ req'[r].project = req[r].project
    BY <1>1, Going DEF Pcs
<1>3. Types'
    BY <1>1, <1>2 DEF Types, TypeOK, tables, history, StreamIds
<1>4. OutsideFollowsStore'
    BY <1>1 DEF OutsideFollowsStore, tables, Ids
<1>5. Doing(r)' /\ ~Open(r)'
    BY <1>1, <1>2 DEF Doing, Places, Unused, Creating, Owning, Rotating, Watching, Hooking,
        Configuring, Running, Open, Ids, tables
<1> QED
    BY <1>1, <1>2, <1>3, <1>4, <1>5, StepAlone DEF tables, history

\* A transaction begins, with SQLite when no other runs.
LEMMA BeginStep ==
    ASSUME CInv, NEW r \in Requests, BeginRotation(r)
    PROVE  CInv'
<1> USE DEF CInv
<1>1. /\ req[r].pc = "begin" /\ req[r].op = "rotate" /\ Running(r) /\ To(r, "update")
      /\ UNCHANGED <<database, tables, outside, history>>
      /\ (database = "sqlite" => \A q \in Requests : ~Open(q))
    BY DEF BeginRotation, Running, Doing, Places
<1>2. /\ req'[r].pc = "update" /\ req'[r].op = req[r].op /\ req'[r].project = req[r].project
      /\ req'[r].stream = req[r].stream
    BY <1>1, Going DEF Pcs
<1>3. (Places(r) /\ Unused(r) /\ Creating(r) /\ Owning(r))'
    BY <1>1, <1>2 DEF Doing, Places, Unused, Creating, Owning, Owned, Running, Ids, tables
<1>4. (Rotating(r) /\ Watching(r) /\ Hooking(r) /\ Configuring(r))'
    BY <1>1, <1>2 DEF Doing, Rotating, Watching, Hooking, Configuring, Active, tables, history
<1> QED
    BY <1>1, <1>3, <1>4, GoingStep DEF Pcs, Doing

\* The update finds the active keys of the stream.
LEMMA UpdateStep ==
    ASSUME CInv, NEW r \in Requests, StartUpdate(r)
    PROVE  CInv'
<1> USE DEF CInv
<1> DEFINE found == FindActiveStreamKey(req[r].stream)
           new == [req[r] EXCEPT !.pc = "locked", !.found = found]
<1>1. /\ req[r].pc = "update" /\ req[r].op = "rotate" /\ Running(r)
      /\ UNCHANGED <<database, tables, outside, history>> /\ req' = [req EXCEPT ![r] = new]
    BY DEF StartUpdate, Running, Doing, Places
<1>2. req[r] \in RequestStates /\ req \in [Requests -> RequestStates]
    BY DEF Types
<1>3. found \subseteq KeysOf(req[r].stream) /\ found \subseteq Keys
    BY DEF FindActiveStreamKey, KeysOf, Types, TypeOK
<1>4. /\ \A s : FindActiveStreamKey(s)' = FindActiveStreamKey(s) /\ KeysOf(s)' = KeysOf(s)
      /\ Active' = Active /\ steady' = steady /\ database' = database
    BY <1>1 DEF FindActiveStreamKey, KeysOf, Active, tables, history
<1>a. steady[r] \subseteq Active /\ KeysOf(req[r].stream) \cap steady[r] \subseteq found
    <2>1. steady[r] \subseteq Active
        BY <1>1 DEF Doing, Rotating
    <2> QED
        BY <2>1 DEF KeysOf, FindActiveStreamKey, Active
<1> HIDE DEF found
<1>5. new \in RequestStates
    BY <1>2, <1>3 DEF RequestStates, Pcs, Found
<1>6. new.pc = "locked" /\ new.op = "rotate" /\ new.project = req[r].project
      /\ new.stream = req[r].stream /\ new.found = found
    BY <1>1, <1>2 DEF RequestStates
<1> HIDE DEF new
<1>7. req'[r] = new
    BY <1>1, <1>2
<1>8. (Places(r) /\ Unused(r) /\ Creating(r) /\ Owning(r))'
    BY <1>1, <1>6, <1>7 DEF Doing, Places, Unused, Creating, Owning, Owned, Running, Ids, tables
<1>9. Rotating(r)'
    BY <1>3, <1>4, <1>a, <1>6, <1>7 DEF Rotating, found
<1>10. (Watching(r) /\ Hooking(r) /\ Configuring(r))'
    BY <1>6, <1>7 DEF Watching, Hooking, Configuring
<1>11. Doing(r)' /\ Open(r)
    BY <1>1, <1>8, <1>9, <1>10 DEF Doing, Open
<1> QED
    BY <1>1, <1>5, <1>11, ChangeStep

\* What is retired meanwhile is left alone.
LEMMA DeactivateStep ==
    ASSUME CInv, NEW r \in Requests, Deactivate(r)
    PROVE  CInv'
<1> USE DEF CInv
<1> DEFINE found == req[r].found \ retired
           new == [req[r] EXCEPT !.pc = "insert", !.found = found]
<1>1. /\ req[r].pc = "locked" /\ req[r].op = "rotate" /\ Running(r)
      /\ UNCHANGED <<database, tables, outside, history>> /\ req' = [req EXCEPT ![r] = new]
    BY DEF Deactivate, Running, Doing, Places
<1>2. req[r] \in RequestStates /\ req \in [Requests -> RequestStates]
    BY DEF Types
<1>3. found \subseteq KeysOf(req[r].stream)
      /\ (database = "sqlite" => found = FindActiveStreamKey(req[r].stream))
    BY <1>1 DEF Doing, Rotating, FindActiveStreamKey
<1>4. /\ \A s : FindActiveStreamKey(s)' = FindActiveStreamKey(s) /\ KeysOf(s)' = KeysOf(s)
      /\ Active' = Active /\ steady' = steady /\ database' = database
    BY <1>1 DEF FindActiveStreamKey, KeysOf, Active, tables, history
<1>a. steady[r] \subseteq Active /\ KeysOf(req[r].stream) \cap steady[r] \subseteq found
    <2>1. steady[r] \subseteq Active /\ KeysOf(req[r].stream) \cap steady[r] \subseteq req[r].found
        BY <1>1 DEF Doing, Rotating
    <2>2. \A x \in steady[r] : x \notin retired
        BY <2>1, ActiveKey
    <2> QED
        BY <2>1, <2>2
<1>5. new \in RequestStates
    BY <1>2 DEF RequestStates, Pcs
<1>6. new.pc = "insert" /\ new.op = "rotate" /\ new.project = req[r].project
      /\ new.stream = req[r].stream /\ new.found = found
    BY <1>1, <1>2 DEF RequestStates
<1> HIDE DEF new, found
<1>7. req'[r] = new
    BY <1>1, <1>2
<1>8. (Places(r) /\ Unused(r) /\ Creating(r) /\ Owning(r))'
    BY <1>1, <1>6, <1>7 DEF Doing, Places, Unused, Creating, Owning, Owned, Running, Ids, tables
<1>9. Rotating(r)'
    BY <1>3, <1>4, <1>a, <1>6, <1>7 DEF Rotating
<1>10. (Watching(r) /\ Hooking(r) /\ Configuring(r))'
    BY <1>6, <1>7 DEF Watching, Hooking, Configuring
<1>11. Doing(r)' /\ Open(r)
    BY <1>1, <1>8, <1>9, <1>10 DEF Doing, Open
<1> QED
    BY <1>1, <1>5, <1>11, ChangeStep

\* A hook reads the key that is active.
LEMMA FingerprintStep ==
    ASSUME CInv, NEW r \in Requests, ReadFingerprint(r)
    PROVE  CInv'
<1> USE DEF CInv
<1>1. PICK k \in FindActiveStreamKey(req[r].stream) :
          req' = [req EXCEPT ![r].pc = "rule", ![r].key = k]
    BY DEF ReadFingerprint
<1> DEFINE new == [req[r] EXCEPT !.pc = "rule", !.key = k]
<1>2. /\ req[r].pc = "fingerprint" /\ req[r].op = "hook" /\ Running(r)
      /\ UNCHANGED <<database, tables, outside, history>> /\ req' = [req EXCEPT ![r] = new]
    BY <1>1 DEF ReadFingerprint, Running, Doing, Places
<1>3. req[r] \in RequestStates /\ req \in [Requests -> RequestStates]
    BY DEF Types
<1>4. k \in seen[r] /\ k \in Keys
    BY <1>2, ActiveKeyOf, ActiveKey DEF Doing, Watching, Types, TypeOK
<1>5. new \in RequestStates
    BY <1>3, <1>4 DEF RequestStates, Pcs
<1>6. new.pc = "rule" /\ new.op = "hook" /\ new.project = req[r].project
      /\ new.stream = req[r].stream /\ new.key = k /\ new.tries = req[r].tries
    BY <1>2, <1>3 DEF RequestStates
<1> HIDE DEF new
<1>7. req'[r] = new
    BY <1>2, <1>3
<1>8. (Places(r) /\ Unused(r) /\ Creating(r) /\ Owning(r))'
    BY <1>2, <1>6, <1>7 DEF Doing, Places, Unused, Creating, Owning, Owned, Running, Ids, tables
<1>9. (Rotating(r) /\ Configuring(r))'
    BY <1>6, <1>7 DEF Rotating, Configuring
<1>10. Watching(r)'
    BY <1>2, <1>6, <1>7 DEF Doing, Watching, Running, Active, tables, history
<1>11. Hooking(r)'
    BY <1>2, <1>4, <1>6, <1>7 DEF Doing, Hooking, outside, history
<1>12. Doing(r)' /\ ~Open(r)'
    BY <1>6, <1>7, <1>8, <1>9, <1>10, <1>11 DEF Doing, Open
<1> QED
    BY <1>2, <1>5, <1>12, ChangeStep

\* A hook goes on when the rule is not disabled.
LEMMA RuleStep ==
    ASSUME CInv, NEW r \in Requests, ReadRule(r)
    PROVE  CInv'
<1> USE DEF CInv
<1>1. /\ req[r].pc = "rule" /\ req[r].op = "hook" /\ Running(r)
      /\ UNCHANGED <<database, tables, outside>>
    BY DEF ReadRule, Running, Doing, Places
<1>2. CASE req[r].stream \in disabled
    BY <1>1, <1>2, AnswerStep DEF ReadRule, Answers
<1>3. CASE req[r].stream \notin disabled
    <2>1. To(r, "append") /\ UNCHANGED history
        BY <1>3 DEF ReadRule
    <2>2. /\ req'[r].pc = "append" /\ req'[r].op = "hook" /\ req'[r].project = req[r].project
          /\ req'[r].stream = req[r].stream /\ req'[r].key = req[r].key
          /\ req'[r].tries = req[r].tries
        BY <1>1, <2>1, Going DEF Pcs
    <2>3. (Places(r) /\ Unused(r) /\ Creating(r) /\ Owning(r))'
        BY <1>1, <2>2 DEF Doing, Places, Unused, Creating, Owning, Owned, Running, Ids, tables
    <2>4. (Rotating(r) /\ Configuring(r))'
        BY <2>2 DEF Rotating, Configuring
    <2>5. (Watching(r) /\ Hooking(r))'
        BY <1>1, <2>1, <2>2 DEF Doing, Watching, Hooking, Running, Active, tables, outside, history
    <2>6. Doing(r)' /\ ~Open(r)'
        BY <2>2, <2>3, <2>4, <2>5 DEF Doing, Open
    <2> QED
        BY <1>1, <2>1, <2>6, GoingStep DEF Pcs
<1> QED
    BY <1>2, <1>3

\* The event is stored before it is sent.
LEMMA AppendStep ==
    ASSUME CInv, NEW r \in Requests, AppendLifecycleEvent(r)
    PROVE  CInv'
<1> USE DEF CInv
<1>1. /\ req[r].pc = "append" /\ req[r].op = "hook" /\ Running(r) /\ req[r].project \in Projects
      /\ req[r].stream \in Ids /\ req[r].key \in Keys
      /\ log' = log \cup {LifecycleEvent(r)} /\ To(r, "dispatch")
      /\ UNCHANGED <<database, rows, keys, retired, disabled, outside, history>>
    BY DEF AppendLifecycleEvent, Running, Doing, Places, Owning, Hooking
<1>2. /\ req' \in [Requests -> RequestStates]
      /\ \A q \in Requests \ {r} : req'[q] = req[q]
      /\ req'[r].pc = "dispatch" /\ req'[r].op = "hook" /\ req'[r].project = req[r].project
      /\ req'[r].stream = req[r].stream /\ req'[r].key = req[r].key /\ req'[r].tries = req[r].tries
    BY <1>1, Going DEF Pcs
<1>3. Types'
    <2>1. LifecycleEvent(r) \in [id : Requests, project : Projects, stream : StreamIds, key : Keys]
        BY <1>1 DEF LifecycleEvent, Ids, Types, TypeOK
    <2> QED
        BY <1>1, <1>2, <2>1 DEF Types, TypeOK, outside, history
<1>4. OutsideFollowsStore'
    BY <1>1, OutsideStays
<1>5. LifecycleEvent(r)' = LifecycleEvent(r)
    BY <1>2 DEF LifecycleEvent
<1>6. (Places(r) /\ Unused(r) /\ Creating(r) /\ Owning(r))'
    BY <1>1, <1>2 DEF Doing, Places, Unused, Creating, Owning, Owned, Running, Ids
<1>7. (Rotating(r) /\ Configuring(r))'
    BY <1>2 DEF Rotating, Configuring
<1>8. Watching(r)'
    BY <1>1, <1>2 DEF Doing, Watching, Running, Active, history
<1>9. Hooking(r)'
    BY <1>1, <1>2, <1>5 DEF Doing, Hooking, outside, history
<1>10. Doing(r)' /\ ~Open(r)'
    BY <1>2, <1>6, <1>7, <1>8, <1>9 DEF Doing, Open
<1> QED
    BY <1>1, <1>2, <1>3, <1>4, <1>10, StepAlone DEF outside, history

\* An attempt is counted, whether or not the receiver gets it.
LEMMA SendStep ==
    ASSUME CInv, NEW r \in Requests, SendOnce(r)
    PROVE  CInv'
<1> USE DEF CInv
<1>1. PICK taken \in BOOLEAN, ok \in BOOLEAN :
          /\ ok => taken
          /\ received' = [received EXCEPT ![r] = IF taken THEN @ + 1 ELSE @]
          /\ req' = [req EXCEPT ![r].tries = @ + 1,
                                ![r].pc = IF ok \/ Exhausted(req[r].tries + 1)
                                          THEN "recorded" ELSE "dispatch"]
    BY DEF SendOnce
<1> DEFINE pc == IF ok \/ Exhausted(req[r].tries + 1) THEN "recorded" ELSE "dispatch"
           new == [req[r] EXCEPT !.tries = req[r].tries + 1, !.pc = pc]
<1>2. /\ req[r].pc = "dispatch" /\ req[r].op = "hook" /\ Running(r)
      /\ UNCHANGED <<database, tables, paths, history>> /\ LifecycleEvent(r) \in log
      /\ received[r] <= req[r].tries /\ req[r].tries < MaxAttempts
    BY DEF SendOnce, Running, Doing, Places, Hooking
<1>3. req[r] \in RequestStates /\ req \in [Requests -> RequestStates]
      /\ received \in [Requests -> 0 .. MaxAttempts] /\ MaxAttempts \in Nat
    BY AttemptsAssumption DEF Types, TypeOK
<1>4. req[r].tries \in Nat /\ received[r] \in Nat
    BY <1>3 DEF RequestStates
<1>5. req' = [req EXCEPT ![r] = new]
    BY <1>1, <1>3
<1>6. /\ pc \in {"recorded", "dispatch"}
      /\ pc = "dispatch" => ~ok /\ req[r].tries + 1 # MaxAttempts
      /\ pc = "recorded" => ok \/ req[r].tries + 1 = MaxAttempts
    BY DEF Exhausted
<1> HIDE DEF pc
<1>7. req[r].tries + 1 \in 0 .. MaxAttempts
    BY <1>2, <1>3, <1>4
<1>8. new \in RequestStates
    BY <1>3, <1>6, <1>7 DEF RequestStates, Pcs
<1>9. new.pc = pc /\ new.op = "hook" /\ new.project = req[r].project
      /\ new.stream = req[r].stream /\ new.key = req[r].key /\ new.tries = req[r].tries + 1
    BY <1>2, <1>3 DEF RequestStates
<1> HIDE DEF new
<1>10. req'[r] = new /\ req' \in [Requests -> RequestStates]
       /\ \A q \in Requests \ {r} : req'[q] = req[q]
    BY <1>3, <1>5, <1>8
<1>11. /\ received'[r] = (IF taken THEN received[r] + 1 ELSE received[r])
       /\ \A q \in Requests \ {r} : received'[q] = received[q]
    BY <1>1, <1>3
<1>12. received'[r] <= req[r].tries + 1 /\ (ok => received'[r] > 0)
    BY <1>1, <1>2, <1>4, <1>11
<1>13. received' \in [Requests -> 0 .. MaxAttempts]
    BY <1>1, <1>2, <1>3, <1>4
<1>14. Types'
    BY <1>2, <1>10, <1>13 DEF Types, TypeOK, tables, history
<1>15. OutsideFollowsStore'
    <2>1. \E e \in log : e.id = r
        BY <1>2 DEF LifecycleEvent
    <2> QED
        BY <1>2, <1>11, <2>1 DEF OutsideFollowsStore, tables
<1>16. LifecycleEvent(r)' = LifecycleEvent(r)
    BY <1>9, <1>10 DEF LifecycleEvent
<1>17. (Places(r) /\ Unused(r) /\ Creating(r) /\ Owning(r))'
    BY <1>2, <1>6, <1>9, <1>10 DEF Doing, Places, Unused, Creating, Owning, Owned, Running, Ids, tables
<1>18. (Rotating(r) /\ Configuring(r))'
    BY <1>6, <1>9, <1>10 DEF Rotating, Configuring
<1>19. Watching(r)'
    BY <1>2, <1>6, <1>9, <1>10 DEF Doing, Watching, Running, Active, tables, history
<1>20. Hooking(r)'
    <2>1. req[r].key \in Keys /\ req[r].key \in seen'[r] /\ LifecycleEvent(r)' \in log'
        BY <1>2, <1>16 DEF Doing, Hooking, tables, history
    <2>2. pc = "dispatch" => req[r].tries + 1 < MaxAttempts
        BY <1>2, <1>3, <1>4, <1>6
    <2>3. pc = "recorded" => received'[r] > 0 \/ req[r].tries + 1 = MaxAttempts
        BY <1>6, <1>12
    <2> QED
        BY <1>6, <1>9, <1>10, <1>12, <2>1, <2>2, <2>3 DEF Hooking
<1>21. Doing(r)' /\ ~Open(r)'
    BY <1>6, <1>9, <1>10, <1>17, <1>18, <1>19, <1>20 DEF Doing, Open
<1> QED
    BY <1>2, <1>10, <1>11, <1>14, <1>15, <1>21, StepAlone DEF tables, history

\* The configuration has all streams of the project, without their keys.
LEMMA ListStep ==
    ASSUME CInv, NEW r \in Requests, ListByProject(r)
    PROVE  CInv'
<1> USE DEF CInv
<1>1. /\ req[r].pc = "list" /\ req[r].op = "config" /\ Running(r)
      /\ UNCHANGED <<database, tables, outside>>
    BY DEF ListByProject, Running, Doing, Places
<1>2. CASE RowsOf(req[r].project) = {}
    BY <1>1, <1>2, AnswerStep DEF ListByProject, Answers
<1>3. CASE RowsOf(req[r].project) # {}
    <2> DEFINE found == {<<row, None>> : row \in RowsOf(req[r].project)}
               new == [req[r] EXCEPT !.pc = "configure", !.found = found]
    <2>1. req' = [req EXCEPT ![r] = new] /\ UNCHANGED history
        BY <1>3 DEF ListByProject
    <2>2. req[r] \in RequestStates /\ req \in [Requests -> RequestStates]
        BY DEF Types
    <2>3. found \subseteq Rows \X (Keys \cup {None})
        BY DEF RowsOf, Types, TypeOK, Rows
    <2>4. /\ \A entry \in found : entry[1] \in Rows /\ entry[2] = None
          /\ \A row \in RowsOf(req[r].project) : \E entry \in found : entry[1] = row
        <3>1. \A row \in RowsOf(req[r].project) : row \in Rows
            BY DEF RowsOf, Types, TypeOK, Rows
        <3>2. \A row : <<row, None>>[1] = row /\ <<row, None>>[2] = None
            OBVIOUS
        <3>3. \A entry \in found : \E row \in RowsOf(req[r].project) : entry = <<row, None>>
            OBVIOUS
        <3>4. \A row \in RowsOf(req[r].project) : <<row, None>> \in found
            OBVIOUS
        <3> HIDE DEF found
        <3> QED
            BY <3>1, <3>2, <3>3, <3>4, ZenonT(40)
    <2> HIDE DEF found
    <2>5. new \in RequestStates
        BY <2>2, <2>3 DEF RequestStates, Pcs, Found
    <2>6. new.pc = "configure" /\ new.op = "config" /\ new.project = req[r].project
          /\ new.found = found
        BY <1>1, <2>2 DEF RequestStates
    <2> HIDE DEF new
    <2>7. req'[r] = new
        BY <2>1, <2>2
    <2>8. (Places(r) /\ Unused(r) /\ Creating(r) /\ Owning(r) /\ Rotating(r) /\ Hooking(r))'
        BY <1>1, <2>6, <2>7 DEF Doing, Places, Unused, Creating, Owning, Rotating, Hooking, Running
    <2>9. Watching(r)'
        BY <1>1, <2>1, <2>6, <2>7 DEF Doing, Watching, Running, Active, tables, history
    <2>10. Configuring(r)'
        <3>1. \A row \in rows' : row.project = (req[r].project)' => row \in RowsOf(req[r].project)
            BY <1>1, <2>6, <2>7 DEF RowsOf, tables
        <3> QED
            BY <2>4, <2>6, <2>7, <3>1 DEF Configuring, RowsOf
    <2>11. Doing(r)' /\ ~Open(r)'
        BY <2>6, <2>7, <2>8, <2>9, <2>10 DEF Doing, Open
    <2> QED
        BY <1>1, <2>1, <2>5, <2>11, ChangeStep
<1> QED
    BY <1>2, <1>3

\* The key of one stream is read.
LEMMA ReadKeyStep ==
    ASSUME CInv, NEW r \in Requests, ReadKey(r)
    PROVE  CInv'
<1> USE DEF CInv
<1>1. PICK entry \in req[r].found : \E k \in FindActiveStreamKey(entry[1].id) :
          req' = [req EXCEPT ![r].found = (@ \ {entry}) \cup {<<entry[1], k>>}]
    BY DEF ReadKey
<1>2. PICK k \in FindActiveStreamKey(entry[1].id) :
          req' = [req EXCEPT ![r].found = (@ \ {entry}) \cup {<<entry[1], k>>}]
    BY <1>1
<1> DEFINE found == (req[r].found \ {entry}) \cup {<<entry[1], k>>}
           new == [req[r] EXCEPT !.found = found]
<1>3. /\ req[r].pc = "configure" /\ req[r].op = "config" /\ Running(r)
      /\ UNCHANGED <<database, tables, outside, history>> /\ req' = [req EXCEPT ![r] = new]
    BY <1>2 DEF ReadKey, Running, Doing, Places
<1>4. req[r] \in RequestStates /\ req \in [Requests -> RequestStates]
    BY DEF Types
<1>5. /\ \A e \in req[r].found : e[1] \in Rows /\ e[2] \in seen[r] \cup {None}
      /\ \A row \in RowsOf(req[r].project) :
            FindActiveStreamKey(row.id) \cap steady[r] # {} => \E e \in req[r].found : e[1] = row
    BY <1>3 DEF Doing, Configuring
<1>6. k \in seen[r] /\ k \in Keys
    BY <1>2, <1>3, ActiveKeyOf, ActiveKey DEF Doing, Watching, Types, TypeOK
<1> DEFINE added == <<entry[1], k>>
<1>7. added \in Rows \X (Keys \cup {None}) /\ added[1] = entry[1] /\ added[2] = k
    BY <1>5, <1>6
<1>8. /\ \A e \in found : e[1] \in Rows /\ e[2] \in seen[r] \cup {None}
      /\ \A row : (\E e \in req[r].found : e[1] = row) => \E e \in found : e[1] = row
    <2>1. found = (req[r].found \ {entry}) \cup {added}
        OBVIOUS
    <2> HIDE DEF found, added
    <2> QED
        BY <1>5, <1>6, <1>7, <2>1
<1>9. found \subseteq Found
    BY <1>4, <1>7 DEF RequestStates, Found
<1> HIDE DEF found, added
<1>10. new \in RequestStates
    BY <1>4, <1>9 DEF RequestStates
<1>11. new.pc = "configure" /\ new.op = "config" /\ new.project = req[r].project
       /\ new.found = found
    BY <1>3, <1>4 DEF RequestStates
<1> HIDE DEF new
<1>12. req'[r] = new
    BY <1>3, <1>4
<1>13. (Places(r) /\ Unused(r) /\ Creating(r) /\ Owning(r) /\ Rotating(r) /\ Hooking(r))'
    BY <1>3, <1>11, <1>12 DEF Doing, Places, Unused, Creating, Owning, Rotating, Hooking, Running
<1>14. Watching(r)'
    BY <1>3, <1>11, <1>12 DEF Doing, Watching, Running, Active, tables, history
<1>15. Configuring(r)'
    <2>1. \A row \in rows' : row.project = (req[r].project)' => row \in RowsOf(req[r].project)
        BY <1>3, <1>11, <1>12 DEF RowsOf, tables
    <2>2. \A s : FindActiveStreamKey(s)' = FindActiveStreamKey(s)
        BY <1>3 DEF FindActiveStreamKey, tables
    <2>3. \A e \in req'[r].found : e[1] \in Rows /\ e[2] \in seen'[r] \cup {None}
        BY <1>3, <1>8, <1>11, <1>12 DEF history
    <2>4. \A row \in rows' : row.project = (req[r].project)'
                                /\ FindActiveStreamKey(row.id)' \cap steady'[r] # {} =>
                  \E e \in req'[r].found : e[1] = row
        BY <1>3, <1>5, <1>8, <1>11, <1>12, <2>1, <2>2 DEF history
    <2> QED
        BY <2>3, <2>4 DEF Configuring, RowsOf
<1>16. Doing(r)' /\ ~Open(r)'
    BY <1>11, <1>12, <1>13, <1>14, <1>15 DEF Doing, Open
<1> QED
    BY <1>3, <1>10, <1>16, ChangeStep

\* The steps that end a request.
LEMMA EndSteps ==
    ASSUME CInv, NEW r \in Requests,
           Created(r) \/ RotationAnswered(r) \/ ValidateKey(r) \/ Recorded(r)
             \/ GetMediaServerConfig(r) \/ Break(r)
    PROVE  CInv'
<1> USE DEF CInv
<1>1. CASE Created(r)
    BY <1>1, AnswerStep DEF Created, Running, Answers
<1>2. CASE RotationAnswered(r)
    BY <1>2, AnswerStep DEF RotationAnswered, Running, Answers
<1>3. CASE ValidateKey(r)
    <2>1. PICK k \in FindActiveStreamKey(req[r].stream) :
              Answer(r, Verdict(r, ValidateStreamKey(req[r].key, k)))
        BY <1>3 DEF ValidateKey
    <2>2. req[r].op \in {"validate", "publish"} /\ Running(r)
        BY <1>3 DEF ValidateKey, Doing, Places, Running
    <2>3. Verdict(r, ValidateStreamKey(req[r].key, k)) \in Answers
        BY <2>2 DEF Verdict, Answers
    <2> QED
        BY <1>3, <2>1, <2>2, <2>3, AnswerStep DEF ValidateKey
<1>4. CASE Recorded(r)
    BY <1>4, AnswerStep DEF Recorded, Running, Answers
<1>5. CASE GetMediaServerConfig(r)
    <2>1. PICK t : Answer(r, Config(r, t))
        BY <1>5 DEF GetMediaServerConfig
    <2>2. Config(r, t) \in Answers
        BY DEF Config, Answers
    <2>3. Running(r)
        BY <1>5 DEF GetMediaServerConfig, Running
    <2> QED
        BY <1>5, <2>1, <2>2, <2>3, AnswerStep DEF GetMediaServerConfig
<1>6. CASE Break(r)
    BY <1>6, AnswerStep DEF Break, Answers
<1> QED
    BY <1>1, <1>2, <1>3, <1>4, <1>5, <1>6

\* The arrival of a request.
LEMMA ArrivalSteps ==
    ASSUME CInv, NEW r \in Requests,
           PostStream(r) \/ PostRotate(r) \/ PostValidate(r) \/ AuthHook(r) \/ PostHook(r)
             \/ GetConfig(r)
    PROVE  CInv'
<1>1. /\ Within[r] \subseteq Projects /\ Ids \subseteq StreamIds /\ r \in StreamIds /\ r \in Keys
      /\ \A k \in keys : k.key \in Keys
    BY RequestsAssumption DEF CInv, Types, TypeOK, Ids, StreamIds, Keys
<1>2. CASE PostStream(r)
    BY <1>1, <1>2, ArriveStep DEF PostStream, Ops, Pcs
<1>3. CASE PostRotate(r)
    BY <1>1, <1>3, ArriveStep DEF PostRotate, Ops, Pcs
<1>4. CASE PostValidate(r)
    BY <1>1, <1>4, ArriveStep DEF PostValidate, Ops, Pcs
<1>5. CASE AuthHook(r)
    BY <1>1, <1>5, ArriveStep DEF AuthHook, Ops, Pcs
<1>6. CASE PostHook(r)
    BY <1>1, <1>6, ArriveStep DEF PostHook, Ops, Pcs
<1>7. CASE GetConfig(r)
    BY <1>1, <1>7, ArriveStep DEF GetConfig, Ops, Pcs
<1> QED
    BY <1>2, <1>3, <1>4, <1>5, <1>6, <1>7

\* A rule is disabled while a hook is on its way.
LEMMA DisableStep ==
    ASSUME CInv, NEW s \in StreamIds, Disable(s)
    PROVE  CInv'
<1> USE DEF CInv
<1>1. disabled' = disabled \cup {s} /\ UNCHANGED <<database, rows, keys, retired, log, outside, req, history>>
    BY DEF Disable
<1>2. Types'
    BY <1>1 DEF Types, TypeOK, outside, history
<1>3. OutsideFollowsStore'
    BY <1>1, OutsideStays
<1>4. ASSUME NEW q \in Requests
      PROVE  Doing(q)'
    BY <1>1, OthersStay DEF outside, history
<1>5. KeysSound' /\ OneTransaction' /\ \A t \in Ids' : HasKey(t)'
    BY <1>1 DEF KeysSound, OneTransaction, Open, Ids, HasKey, FindActiveStreamKey
<1> QED
    BY <1>2, <1>3, <1>4, <1>5

(***************************************************************************)
(* The invariant                                                           *)
(***************************************************************************)

\* It holds at the beginning, when each stored stream has its one key.
LEMMA InitInv == Init => CInv
<1> SUFFICES ASSUME Init PROVE CInv
    OBVIOUS
<1>1. /\ \A s \in Streams : Row(s, Stored[s].project, Stored[s].name, Stored[s].target) \in Rows
      /\ \A s \in Streams : Row(s, Stored[s].project, Stored[s].name, Stored[s].target).id = s
    BY StoredAssumption DEF Row, Rows, StreamIds
<1>2. Ids = Streams /\ rows \subseteq Rows
    BY <1>1 DEF Init, Ids
<1>3. NoRequest \in RequestStates /\ NoRequest.pc = "idle" /\ NoRequest.op = "none"
    <2>1. 0 \in 0 .. MaxAttempts
        BY AttemptsAssumption
    <2> QED
        BY <2>1 DEF NoRequest, RequestStates, Pcs, Ops, Answers
<1>4. req \in [Requests -> RequestStates] /\ \A r \in Requests : req[r] = NoRequest
    BY <1>3 DEF Init
<1>5. Types
    <2>1. 0 \in 0 .. MaxAttempts
        BY AttemptsAssumption
    <2>2. received \in [Requests -> 0 .. MaxAttempts]
        BY <2>1 DEF Init
    <2>3. keys \subseteq [key : Keys, stream : StreamIds]
        BY DEF Init, Keys, StreamIds
    <2> QED
        BY <1>2, <1>4, <2>2, <2>3 DEF Init, Types, TypeOK, Rows
<1>6. /\ \A k \in keys : k.key \in Streams /\ k.stream = k.key
      /\ \A s \in Streams : \E k \in keys : k.key = s /\ k.stream = s
      /\ \A k, l \in keys : k.key = l.key => k = l
      /\ retired = {}
    <2> DEFINE First(s) == [key |-> s, stream |-> s]
    <2>1. \A s : First(s).key = s /\ First(s).stream = s
        OBVIOUS
    <2>2. (\A k \in keys : \E s \in Streams : k = First(s)) /\ (\A s \in Streams : First(s) \in keys)
          /\ retired = {}
        BY DEF Init
    <2> HIDE DEF First
    <2> QED
        BY <2>1, <2>2
<1>7. KeysSound
    BY <1>2, <1>6 DEF KeysSound
<1>8. ASSUME NEW s \in Ids
      PROVE  HasKey(s)
    <2>1. FindActiveStreamKey(s) = {s}
        BY <1>2, <1>6, ActiveKeyOf
    <2> QED
        BY <1>2, <2>1 DEF HasKey, Keys, StreamIds
<1>9. ASSUME NEW r \in Requests
      PROVE  Doing(r)
    <2>1. req[r].pc = "idle" /\ req[r].op = "none" /\ received[r] = 0
        BY <1>3, <1>4 DEF Init
    <2>2. r \notin Ids /\ \A k \in keys : k.key # r
        BY <1>2, <1>6, NamesAssumption
    <2> QED
        BY <2>1, <2>2 DEF Doing, Places, Unused, Creating, Owning, Rotating, Watching, Hooking,
            Configuring, Running
<1>10. OneTransaction
    BY <1>3, <1>4 DEF OneTransaction, Open
<1>11. OutsideFollowsStore
    BY DEF Init, OutsideFollowsStore
<1> QED
    BY <1>5, <1>7, <1>8, <1>9, <1>10, <1>11 DEF CInv

\* Every step preserves it.
LEMMA StepInv == CInv /\ [Next]_vars => CInv'
<1> SUFFICES ASSUME CInv, [Next]_vars PROVE CInv'
    OBVIOUS
<1>1. CASE UNCHANGED vars
    <2>1. UNCHANGED <<database, rows, keys, retired, disabled, log, paths, received, req, seen, steady>>
        BY <1>1 DEF vars, tables, outside, history
    <2>2. Types'
        BY <2>1 DEF CInv, Types, TypeOK
    <2>3. KeysSound' /\ OneTransaction' /\ \A t \in Ids' : HasKey(t)'
        BY <2>1 DEF CInv, KeysSound, OneTransaction, Open, Ids, HasKey, FindActiveStreamKey
    <2>4. OutsideFollowsStore'
        BY <2>1 DEF CInv, OutsideFollowsStore
    <2>5. ASSUME NEW q \in Requests
          PROVE  Doing(q)'
        BY <2>1, OthersStay
    <2> QED
        BY <2>2, <2>3, <2>4, <2>5 DEF CInv
<1>2. ASSUME NEW s \in StreamIds, Disable(s)
      PROVE  CInv'
    BY <1>2, DisableStep
<1>3. ASSUME NEW r \in Requests,
             PostStream(r) \/ PostRotate(r) \/ PostValidate(r) \/ AuthHook(r) \/ PostHook(r)
               \/ GetConfig(r)
      PROVE  CInv'
    BY <1>3, ArrivalSteps
<1>4. ASSUME NEW r \in Requests, Step(r)
      PROVE  CInv'
    BY <1>4, ScanStep, CreateStep, ProvisionStep, BeginStep, UpdateStep, DeactivateStep, CommitStep,
        FingerprintStep, RuleStep, AppendStep, SendStep, ListStep, ReadKeyStep, EndSteps DEF Step
<1>5. ASSUME NEW r \in Requests, Break(r)
      PROVE  CInv'
    BY <1>5, EndSteps
<1> QED
    BY <1>1, <1>2, <1>3, <1>4, <1>5 DEF Next

\* The invariant holds in every state: what a request relies on between its
\* statements stays true whatever the others commit.
THEOREM IngestControlInvariance == Spec => []CInv
<1>1. Init => CInv
    BY InitInv
<1>2. CInv /\ [Next]_vars => CInv'
    BY StepInv
<1> QED
    BY <1>1, <1>2, PTL DEF Spec

\* Streams, keys, events, paths, requests and what is counted have their
\* types, and a receiver gets an event MaxAttempts times at most (Dispatch).
THEOREM TypeCorrect == Spec => []TypeOK
<1>1. CInv => TypeOK
    BY DEF CInv, Types
<1> QED
    BY <1>1, IngestControlInvariance, PTL

\* Every stream has an active key whatever rotations run at once, and with
\* SQLite, whose transactions begin with the lock, exactly one (RotateKey).
THEOREM StreamsKeepAKey == Spec => []ActiveKeys
<1>1. CInv => ActiveKeys
    <2> SUFFICES ASSUME CInv, NEW row \in rows
                 PROVE  /\ FindActiveStreamKey(row.id) # {}
                        /\ database # "postgres" => Cardinality(FindActiveStreamKey(row.id)) = 1
        BY DEF ActiveKeys
    <2>1. HasKey(row.id) /\ database \in {"sqlite", "postgres"}
        BY DatabaseAssumption DEF CInv, Ids, Types, TypeOK
    <2>2. \A k : Cardinality({k}) = 1
        BY FS_Singleton
    <2> QED
        BY <2>1, <2>2 DEF HasKey
<1> QED
    BY <1>1, IngestControlInvariance, PTL

\* The receiver of webhooks hears only of stored events and the media server
\* has only paths of stored streams, wherever requests break (Dispatch, Apply).
THEOREM NothingIsMadeUp == Spec => []OutsideFollowsStore
<1>1. CInv => OutsideFollowsStore
    BY DEF CInv
<1> QED
    BY <1>1, IngestControlInvariance, PTL

(***************************************************************************)
(* Answers                                                                 *)
(***************************************************************************)

\* A request is moved by its own steps only.
LEMMA OwnSteps ==
    ASSUME Types, Next, NEW r \in Requests, req'[r] # req[r]
    PROVE  \/ PostStream(r) \/ PostRotate(r) \/ PostValidate(r) \/ AuthHook(r) \/ PostHook(r)
           \/ GetConfig(r)
           \/ Step(r) \/ Break(r)
<1>1. req \in [Requests -> RequestStates]
    BY DEF Types
<1>2. ASSUME NEW s \in StreamIds, Disable(s)
      PROVE  FALSE
    BY <1>2 DEF Disable
<1>3. ASSUME NEW q \in Requests, NEW a, Answer(q, a)
      PROVE  req' = [req EXCEPT ![q] = req'[q]]
    BY <1>1, <1>3 DEF Answer
<1>4. ASSUME NEW q \in Requests, NEW pc, To(q, pc)
      PROVE  req' = [req EXCEPT ![q] = req'[q]]
    BY <1>1, <1>4 DEF To
<1>5. ASSUME NEW q \in Requests, Step(q)
      PROVE  req' = [req EXCEPT ![q] = req'[q]]
    <2>1. CASE GetStreamByID(q)
        BY <1>3, <1>4, <2>1 DEF GetStreamByID
    <2>2. CASE CreateStream(q)
        BY <1>3, <1>4, <2>2 DEF CreateStream
    <2>3. CASE TryProvision(q) \/ BeginRotation(q) \/ AppendLifecycleEvent(q)
        BY <1>4, <2>3 DEF TryProvision, BeginRotation, AppendLifecycleEvent
    <2>4. CASE Created(q) \/ RotationAnswered(q) \/ ValidateKey(q) \/ Recorded(q)
                 \/ GetMediaServerConfig(q)
        BY <1>3, <2>4 DEF Created, RotationAnswered, ValidateKey, Recorded, GetMediaServerConfig
    <2>5. CASE StartUpdate(q) \/ Deactivate(q) \/ CommitRotation(q) \/ ReadFingerprint(q)
                 \/ SendOnce(q) \/ ReadKey(q)
        BY <1>1, <2>5 DEF StartUpdate, Deactivate, CommitRotation, ReadFingerprint, SendOnce, ReadKey
    <2>6. CASE ReadRule(q)
        BY <1>3, <1>4, <2>6 DEF ReadRule
    <2>7. CASE ListByProject(q)
        BY <1>1, <1>3, <2>7 DEF ListByProject
    <2> QED
        BY <1>5, <2>1, <2>2, <2>3, <2>4, <2>5, <2>6, <2>7 DEF Step
<1>6. ASSUME NEW q \in Requests, Break(q)
      PROVE  req' = [req EXCEPT ![q] = req'[q]]
    BY <1>3, <1>6 DEF Break
<1>7. ASSUME NEW q \in Requests,
             PostStream(q) \/ PostRotate(q) \/ PostValidate(q) \/ AuthHook(q) \/ PostHook(q)
               \/ GetConfig(q)
      PROVE  req' = [req EXCEPT ![q] = req'[q]]
    <2>1. PICK op, pc, p, s, k, provision : Arrive(q, op, pc, p, s, k, provision)
        BY <1>7 DEF PostStream, PostRotate, PostValidate, AuthHook, PostHook, GetConfig
    <2> QED
        BY <1>1, <2>1 DEF Arrive
<1>8. \A q \in Requests : req' = [req EXCEPT ![q] = req'[q]] => q = r
    BY <1>1
<1> QED
    BY <1>2, <1>5, <1>6, <1>7, <1>8 DEF Next

\* A request that arrives or goes on has not ended.
LEMMA NotYet ==
    ASSUME CInv, NEW r \in Requests,
           \/ PostStream(r) \/ PostRotate(r) \/ PostValidate(r) \/ AuthHook(r) \/ PostHook(r)
           \/ GetConfig(r)
           \/ TryProvision(r) \/ BeginRotation(r) \/ StartUpdate(r) \/ Deactivate(r)
           \/ CommitRotation(r) \/ ReadFingerprint(r) \/ AppendLifecycleEvent(r) \/ SendOnce(r)
           \/ ReadKey(r)
    PROVE  req'[r].pc # "done"
<1>1. req[r] \in RequestStates /\ req \in [Requests -> RequestStates]
    BY DEF CInv, Types
<1>2. CASE TryProvision(r) \/ BeginRotation(r) \/ AppendLifecycleEvent(r)
    BY <1>1, <1>2 DEF TryProvision, BeginRotation, AppendLifecycleEvent, To, RequestStates
<1>3. CASE StartUpdate(r) \/ Deactivate(r) \/ CommitRotation(r)
    BY <1>1, <1>3 DEF StartUpdate, Deactivate, CommitRotation, RequestStates
<1>4. CASE ReadFingerprint(r) \/ SendOnce(r) \/ ReadKey(r)
    BY <1>1, <1>4 DEF ReadFingerprint, SendOnce, ReadKey, RequestStates
<1>5. ASSUME NEW op, NEW pc, NEW p, NEW s, NEW k, NEW provision,
             Arrive(r, op, pc, p, s, k, provision), pc # "done"
      PROVE  req'[r].pc # "done"
    BY <1>1, <1>5 DEF Arrive, NoRequest
<1>6. CASE \/ PostStream(r) \/ PostRotate(r) \/ PostValidate(r) \/ AuthHook(r) \/ PostHook(r)
           \/ GetConfig(r)
    BY <1>5, <1>6 DEF PostStream, PostRotate, PostValidate, AuthHook, PostHook, GetConfig
<1> QED
    BY <1>2, <1>3, <1>4, <1>6

\* An answer that says nothing of streams and keys is true.
LEMMA SaysNothing ==
    ASSUME CInv, NEW r \in Requests,
           NEW a \in {"not_found", "name_conflict", "created", "unavailable", "broken"}, Answer(r, a)
    PROVE  TrueAnswer(r)
<1>1. req'[r].answer = a
    BY Ending DEF CInv, Answers
<1> QED
    BY <1>1 DEF TrueAnswer, Answering

\* So is one that says no because the stream is not the caller's.
LEMMA ScanIsTrue ==
    ASSUME CInv, NEW r \in Requests, GetStreamByID(r), req'[r].pc = "done"
    PROVE  TrueAnswer(r)
<1> DEFINE a == NotFound[req[r].op]
<1>1. req[r].pc = "scan" /\ req[r].op \in {"rotate", "validate", "publish", "hook"}
    BY DEF GetStreamByID, CInv, Doing, Places, Running
<1>2. ~Scan(req[r].project, req[r].stream)
    <2>1. SUFFICES ASSUME Scan(req[r].project, req[r].stream) PROVE FALSE
        OBVIOUS
    <2>2. To(r, After[req[r].op]) /\ After[req[r].op] \in {"begin", "find", "fingerprint"}
        BY <1>1, <2>1 DEF GetStreamByID, After
    <2> QED
        BY <2>2, Going DEF CInv, Pcs
<1>3. Answer(r, a) /\ a \in {"not_found", "invalid", "denied"}
    BY <1>1, <1>2 DEF GetStreamByID, NotFound
<1>4. req'[r].answer = a
    BY <1>3, Ending DEF CInv, Answers
<1>5. ~Owned(r)
    BY <1>2 DEF Scan, Owned
<1> HIDE DEF a
<1> QED
    BY <1>3, <1>4, <1>5 DEF TrueAnswer, Answering

\* A key that is called valid was active; with SQLite, one that is called
\* invalid was not active all the time.
LEMMA VerdictIsTrue ==
    ASSUME CInv, NEW r \in Requests, ValidateKey(r)
    PROVE  TrueAnswer(r)
<1>1. PICK k \in FindActiveStreamKey(req[r].stream) :
          Answer(r, Verdict(r, ValidateStreamKey(req[r].key, k)))
    BY DEF ValidateKey
<1> DEFINE a == Verdict(r, ValidateStreamKey(req[r].key, k))
<1>2. /\ req[r].op \in {"validate", "publish"} /\ req[r].pc = "find" /\ Running(r)
      /\ Owned(r) /\ req[r].stream \in Ids /\ HasKey(req[r].stream)
      /\ Active \subseteq seen[r] /\ steady[r] \subseteq Active
    BY DEF ValidateKey, Running, CInv, Doing, Places, Owning, Watching
<1>3. /\ a \in {"valid", "allowed", "invalid", "denied"}
      /\ a \in {"valid", "allowed"} <=> req[r].key = k
    BY <1>2 DEF Verdict, ValidateStreamKey
<1> HIDE DEF a
<1>4. req'[r].answer = a
    BY <1>1, <1>3, Ending DEF CInv, Answers, a
<1>5. k \in seen[r]
    BY <1>1, <1>2, ActiveKeyOf, ActiveKey
<1>6. ASSUME database # "postgres", req[r].key # k, req[r].key \in steady[r],
             [key |-> req[r].key, stream |-> req[r].stream] \in keys
      PROVE  FALSE
    <2>1. database = "sqlite"
        BY <1>6, DatabaseAssumption DEF CInv, Types, TypeOK
    <2>2. FindActiveStreamKey(req[r].stream) = {k}
        BY <1>1, <1>2, <2>1 DEF HasKey
    <2>3. req[r].key \notin retired
        BY <1>2, <1>6, ActiveKey
    <2>4. req[r].key \in FindActiveStreamKey(req[r].stream)
        <3>1. PICK l \in keys : l.stream = req[r].stream /\ l.key = req[r].key
            BY <1>6
        <3> QED
            BY <2>3, <3>1, ActiveKeyOf
    <2> QED
        BY <1>6, <2>2, <2>4
<1> QED
    BY <1>2, <1>3, <1>4, <1>5, <1>6 DEF TrueAnswer, Answering

\* A configuration has keys that were active and, without a warning, all
\* streams of its target.
LEMMA ConfigIsTrue ==
    ASSUME CInv, NEW r \in Requests, GetMediaServerConfig(r)
    PROVE  TrueAnswer(r)
<1>1. PICK latest : Answer(r, Config(r, Target(r, latest)))
    BY DEF GetMediaServerConfig
<1> DEFINE t == Target(r, latest)
           a == Config(r, t)
<1>2. /\ req[r].pc = "configure" /\ req[r].op = "config"
      /\ \A entry \in req[r].found : entry[2] # None
    BY DEF GetMediaServerConfig, CInv, Doing, Places, Running
<1>3. /\ \A entry \in req[r].found : entry[2] \in seen[r]
      /\ \A row \in RowsOf(req[r].project) :
            FindActiveStreamKey(row.id) \cap steady[r] # {} => \E entry \in req[r].found : entry[1] = row
    BY <1>2 DEF CInv, Doing, Configuring
<1>4. a \in {"unavailable", "config_warned", "config"}
      /\ (a = "config" => ~AutoPickWarning(r, t) /\ Skipped(r, t) = {})
    BY DEF Config
<1>5. t = IF req[r].stream = None THEN latest ELSE req[r].stream
    BY DEF Target
<1>6. Answer(r, a)
    BY <1>1
<1> HIDE DEF t, a
<1>7. req'[r].answer = a
    BY <1>4, <1>6, Ending DEF CInv, Answers
<1>8. ASSUME a = "config", NEW row \in RowsOf(req[r].project),
             FindActiveStreamKey(row.id) \cap steady[r] # {}, req[r].stream \in {None, row.target}
      PROVE  row.name \notin Unusable /\ \E entry \in req[r].found : entry[1] = row
    <2>1. PICK entry \in req[r].found : entry[1] = row
        BY <1>3, <1>8
    <2>2. entry[1].target = t
        BY <1>4, <1>5, <1>8, <2>1 DEF AutoPickWarning
    <2>3. entry \in Matching(r, t)
        BY <2>2 DEF Matching
    <2> QED
        BY <1>4, <1>8, <2>1, <2>3 DEF Skipped
<1>9. Answering(r, {"config"}) => a = "config"
    BY <1>7 DEF Answering
<1> QED
    BY <1>3, <1>4, <1>7, <1>8, <1>9 DEF TrueAnswer, Answering

\* What the other answers say of streams and events is so.
LEMMA RestIsTrue ==
    ASSUME CInv, NEW r \in Requests, RotationAnswered(r) \/ ReadRule(r) \/ Recorded(r),
           req'[r].pc = "done"
    PROVE  TrueAnswer(r)
<1>1. /\ req[r].pc \in {"rotated", "rule", "recorded"} /\ Running(r) /\ Owned(r)
      /\ req[r].pc = "recorded" => /\ req[r].key \in seen[r] /\ LifecycleEvent(r) \in log
                                   /\ received[r] > 0 \/ req[r].tries = MaxAttempts
      /\ req[r].pc = "rotated" => FindActiveStreamKey(req[r].stream) \cap steady[r] = {}
    BY DEF RotationAnswered, ReadRule, Recorded, Running, CInv, Doing, Places, Owning, Rotating, Hooking
<1>2. ~To(r, "append")
    BY Going DEF CInv, Pcs
<1>3. PICK a \in {"rotated", "rule_disabled", "accepted"} :
          /\ Answer(r, a)
          /\ (a = "accepted" => req[r].pc = "recorded") /\ (a = "rotated" => req[r].pc = "rotated")
    BY <1>1, <1>2 DEF RotationAnswered, ReadRule, Recorded
<1>4. req'[r].answer = a
    BY <1>3, Ending DEF CInv, Answers
<1>5. LifecycleEvent(r).id = r /\ LifecycleEvent(r).key = req[r].key
    BY DEF LifecycleEvent
<1> QED
    BY <1>1, <1>3, <1>4, <1>5 DEF TrueAnswer, Answering

\* What an answer of ValidateKey, RecordLifecycleEvent, RotateKey or
\* GetMediaServerConfig says was true at some moment of the request, although
\* it is put together from several statements among those of other requests.
THEOREM AnswersHold == Spec => AnswersAreTrue
<1>1. ASSUME CInv, [Next]_vars, NEW r \in Requests
      PROVE  TrueAnswer(r)
    <2>1. CASE ~(req[r].pc # "done" /\ req'[r].pc = "done")
        BY <2>1 DEF TrueAnswer, Answering
    <2>2. CASE req[r].pc # "done" /\ req'[r].pc = "done"
        <3>1. Next /\ req'[r] # req[r]
            BY <1>1, <2>2 DEF vars
        <3>2. \/ PostStream(r) \/ PostRotate(r) \/ PostValidate(r) \/ AuthHook(r) \/ PostHook(r)
              \/ GetConfig(r) \/ Step(r) \/ Break(r)
            BY <1>1, <3>1, OwnSteps DEF CInv
        <3>3. \/ GetStreamByID(r) \/ CreateStream(r) \/ Created(r) \/ RotationAnswered(r)
              \/ ValidateKey(r) \/ ReadRule(r) \/ Recorded(r) \/ ListByProject(r)
              \/ GetMediaServerConfig(r) \/ Break(r)
            BY <1>1, <2>2, <3>2, NotYet DEF Step
        <3>4. CASE CreateStream(r)
            <4>1. ASSUME NEW pc \in {"provision", "created"}, To(r, pc)
                  PROVE  FALSE
                BY <1>1, <2>2, <4>1, Going DEF CInv, Pcs
            <4>2. Answer(r, "name_conflict")
                BY <3>4, <4>1 DEF CreateStream
            <4> QED
                BY <1>1, <4>2, SaysNothing
        <3>5. CASE ListByProject(r)
            <4>1. req \in [Requests -> RequestStates] /\ req[r] \in RequestStates
                BY <1>1 DEF CInv, Types
            <4>2. Answer(r, "unavailable")
                BY <2>2, <3>5, <4>1 DEF ListByProject, RequestStates
            <4> QED
                BY <1>1, <4>2, SaysNothing
        <3>6. CASE Created(r) \/ Break(r)
            BY <1>1, <3>6, SaysNothing DEF Created, Break
        <3> QED
            BY <1>1, <2>2, <3>3, <3>4, <3>5, <3>6, ScanIsTrue, VerdictIsTrue, ConfigIsTrue, RestIsTrue
    <2> QED
        BY <2>1, <2>2
<1>2. CInv /\ [Next]_vars => [\A r \in Requests : TrueAnswer(r)]_vars
    BY <1>1
<1> QED
    BY <1>2, IngestControlInvariance, PTL DEF Spec, AnswersAreTrue

(***************************************************************************)
(* The ring of keys                                                        *)
(***************************************************************************)

\* At the beginning each stored stream has its own key, and no other stream any.
LEMMA RingInit == Init => Ring!Init
<1> SUFFICES ASSUME Init PROVE Ring!Init
    OBVIOUS
<1> DEFINE good == [s \in StreamIds |-> FindActiveStreamKey(s)]
<1>1. ASSUME NEW s, NEW x \in FindActiveStreamKey(s)
      PROVE  x = s /\ s \in Streams
    <2>1. PICK k \in keys : k.stream = s /\ k.key = x
        BY <1>1, ActiveKeyOf
    <2>2. PICK t \in Streams : k = [key |-> t, stream |-> t]
        BY DEF Init
    <2> QED
        BY <2>1, <2>2
<1>2. good \in [StreamIds -> SUBSET Keys] /\ \A s \in StreamIds : good[s] = FindActiveStreamKey(s)
    BY <1>1 DEF Keys, StreamIds
<1> HIDE DEF good
<1>3. \A s \in StreamIds : \A k, l \in good[s] : k = l
    BY <1>1, <1>2
<1>4. \A s, t \in StreamIds : s # t => good[s] \cap good[t] = {}
    BY <1>1, <1>2
<1>5. (database # "postgres") \in BOOLEAN /\ retired = {}
    BY DEF Init
<1> QED
    BY <1>2, <1>3, <1>4, <1>5 DEF Ring!Init, good

\* A step that changes neither keys nor what is retired is none of the ring's.
LEMMA RingStays ==
    ASSUME UNCHANGED <<database, keys, retired>>
    PROVE  UNCHANGED Ring!ring
<1>1. \A s : FindActiveStreamKey(s)' = FindActiveStreamKey(s)
    BY DEF FindActiveStreamKey
<1>2. [s \in StreamIds |-> FindActiveStreamKey(s)]' = [s \in StreamIds |-> FindActiveStreamKey(s)]
    BY <1>1
<1> QED
    BY <1>2 DEF Ring!ring

\* The key of a request that has not committed it is new to the ring.
LEMMA RingNew ==
    ASSUME KeysSound, NEW r \in Requests, \A k \in keys : k.key # r
    PROVE  Ring!New(r)
<1>1. r \notin retired
    BY DEF KeysSound
<1>2. \A s : r \notin FindActiveStreamKey(s)
    BY ActiveKeyOf
<1> QED
    BY <1>1, <1>2 DEF Ring!New

\* Where the ring ends up when a request adds a key to a stream and takes
\* others of it away.
LEMMA RingEffect ==
    ASSUME Types, KeysSound, NEW r \in Requests, NEW s \in StreamIds, NEW gone,
           \A k \in keys : k.key # r, gone \subseteq KeysOf(s),
           keys' = keys \cup {[key |-> r, stream |-> s]}, retired' = retired \cup gone
    PROVE  [t \in StreamIds |-> FindActiveStreamKey(t)]' =
               [[t \in StreamIds |-> FindActiveStreamKey(t)] EXCEPT ![s] = (@ \ gone) \cup {r}]
<1>1. \A t : FindActiveStreamKey(t)' =
                  IF t = s THEN (FindActiveStreamKey(t) \ gone) \cup {r} ELSE FindActiveStreamKey(t)
    BY NewKey, ZenonT(60)
<1> QED
    BY <1>1

\* A stream is stored together with its first key, or not at all.
LEMMA RingAppears ==
    ASSUME CInv, NEW r \in Requests, CreateStream(r)
    PROVE  [Ring!Next]_(Ring!ring)
<1>1. PICK name \in Names, target \in Targets :
          IF NameConflict(req[r].project, name)
          THEN Answer(r, "name_conflict") /\ UNCHANGED tables
          ELSE /\ Inserted(r, name, target)
               /\ To(r, IF req[r].provision THEN "provision" ELSE "created")
    BY DEF CreateStream
<1>2. UNCHANGED database /\ KeysSound /\ Types /\ r \in StreamIds /\ r \in Keys
      /\ r \notin Ids /\ \A k \in keys : k.key # r
    BY DEF CreateStream, CInv, Doing, Unused, StreamIds, Keys
<1>3. CASE NameConflict(req[r].project, name)
    BY <1>1, <1>2, <1>3, RingStays DEF tables
<1>4. CASE ~NameConflict(req[r].project, name)
    <2>1. keys' = keys \cup {[key |-> r, stream |-> r]} /\ retired' = retired
        BY <1>1, <1>4 DEF Inserted
    <2>2. FindActiveStreamKey(r) = {}
        BY <1>2, ActiveKeyOf DEF KeysSound
    <2> DEFINE gone == {}
    <2>3. gone \subseteq KeysOf(r) /\ retired' = retired \cup gone
        BY <2>1
    <2> HIDE DEF gone
    <2>4. [t \in StreamIds |-> FindActiveStreamKey(t)]' =
             [[t \in StreamIds |-> FindActiveStreamKey(t)] EXCEPT ![r] = (@ \ gone) \cup {r}]
        BY <1>2, <2>1, <2>3, RingEffect
    <2>5. [t \in StreamIds |-> FindActiveStreamKey(t)]' =
             [[t \in StreamIds |-> FindActiveStreamKey(t)] EXCEPT ![r] = {r}]
        BY <1>2, <2>2, <2>4
    <2>6. Ring!New(r)
        BY <1>2, RingNew
    <2>7. Ring!Appear(r, r)
        BY <1>2, <2>1, <2>2, <2>5, <2>6 DEF Ring!Appear
    <2> QED
        BY <1>2, <2>7 DEF Ring!Next
<1> QED
    BY <1>3, <1>4

\* The commit of a rotation is the ring's one step: the keys it found that are
\* still active go, with SQLite all there are, and the new one comes.
LEMMA RingRotates ==
    ASSUME CInv, NEW r \in Requests, CommitRotation(r)
    PROVE  [Ring!Next]_(Ring!ring)
<1>1. PICK s \in StreamIds : s = req[r].stream /\ s \in Ids
    BY DEF CommitRotation, CInv, Doing, Owning, Running, Types, TypeOK, Ids
<1>2. PICK gone : gone = req[r].found
    OBVIOUS
<1>3. /\ gone \subseteq KeysOf(s) /\ (database = "sqlite" => gone = FindActiveStreamKey(s))
      /\ (\A k \in keys : k.key # r) /\ KeysSound /\ Types /\ HasKey(s) /\ r \in Keys
    BY <1>1, <1>2 DEF CommitRotation, CInv, Doing, Rotating, Unused, Keys, StreamIds
<1>4. /\ retired' = retired \cup gone /\ keys' = keys \cup {[key |-> r, stream |-> s]}
      /\ UNCHANGED database
    BY <1>1, <1>2 DEF CommitRotation
<1> DEFINE old == gone \cap FindActiveStreamKey(s)
<1>5. retired' = retired \cup old
    <2>1. \A x \in gone : x \in retired \/ x \in FindActiveStreamKey(s)
        BY <1>3 DEF KeysOf, FindActiveStreamKey
    <2> QED
        BY <1>4, <2>1
<1>6. [t \in StreamIds |-> FindActiveStreamKey(t)]' =
         [[t \in StreamIds |-> FindActiveStreamKey(t)] EXCEPT ![s] = (@ \ old) \cup {r}]
    <2>1. [t \in StreamIds |-> FindActiveStreamKey(t)]' =
             [[t \in StreamIds |-> FindActiveStreamKey(t)] EXCEPT ![s] = (@ \ gone) \cup {r}]
        BY <1>3, <1>4, RingEffect
    <2>2. FindActiveStreamKey(s) \ gone = FindActiveStreamKey(s) \ old
        OBVIOUS
    <2> QED
        BY <2>1, <2>2
<1>7. (database # "postgres") => old = FindActiveStreamKey(s)
    BY <1>3, DatabaseAssumption DEF CInv, Types, TypeOK
<1>8. Ring!New(r)
    BY <1>3, RingNew
<1>9. Ring!Rotate(s, old, r)
    <2>1. FindActiveStreamKey(s) # {} /\ old \subseteq FindActiveStreamKey(s)
        BY <1>3 DEF HasKey
    <2> HIDE DEF old
    <2> QED
        BY <1>4, <1>5, <1>6, <1>7, <1>8, <2>1 DEF Ring!Rotate
<1>10. old \in SUBSET [t \in StreamIds |-> FindActiveStreamKey(t)][s]
    OBVIOUS
<1> HIDE DEF old
<1> QED
    BY <1>3, <1>9, <1>10 DEF Ring!Next

\* No other step touches the keys, whatever breaks off.
LEMMA RingElsewhere ==
    ASSUME Next, \A r \in Requests : ~CreateStream(r) /\ ~CommitRotation(r)
    PROVE  UNCHANGED <<database, keys, retired>>
<1>1. ASSUME NEW s \in StreamIds, Disable(s)
      PROVE  UNCHANGED <<database, keys, retired>>
    BY <1>1 DEF Disable
<1>2. ASSUME NEW r \in Requests,
             PostStream(r) \/ PostRotate(r) \/ PostValidate(r) \/ AuthHook(r) \/ PostHook(r)
               \/ GetConfig(r)
      PROVE  UNCHANGED <<database, keys, retired>>
    BY <1>2 DEF PostStream, PostRotate, PostValidate, AuthHook, PostHook, GetConfig, Arrive, tables
<1>3. ASSUME NEW r \in Requests, Step(r)
      PROVE  UNCHANGED <<database, keys, retired>>
    <2>1. CASE GetStreamByID(r) \/ TryProvision(r) \/ Created(r) \/ BeginRotation(r)
                 \/ StartUpdate(r) \/ Deactivate(r) \/ RotationAnswered(r) \/ ValidateKey(r)
        BY <2>1 DEF GetStreamByID, TryProvision, Created, BeginRotation, StartUpdate, Deactivate,
            RotationAnswered, ValidateKey, tables
    <2>2. CASE ReadFingerprint(r) \/ ReadRule(r) \/ AppendLifecycleEvent(r) \/ SendOnce(r)
                 \/ Recorded(r) \/ ListByProject(r) \/ ReadKey(r) \/ GetMediaServerConfig(r)
        BY <2>2 DEF ReadFingerprint, ReadRule, AppendLifecycleEvent, SendOnce, Recorded,
            ListByProject, ReadKey, GetMediaServerConfig, tables
    <2> QED
        BY <1>3, <2>1, <2>2 DEF Step
<1>4. ASSUME NEW r \in Requests, Break(r)
      PROVE  UNCHANGED <<database, keys, retired>>
    BY <1>4 DEF Break, tables
<1> QED
    BY <1>1, <1>2, <1>3, <1>4 DEF Next

\* Streams and keys behave as KeyRing says, on both databases: however the
\* statements of rotations interleave, fail or are cut off, a stream never is
\* without a key, a key that was taken away is never good again, and with
\* SQLite a rotation takes away every key there was (CreateStream, RotateKey).
THEOREM KeysFollowTheRing == Spec => ImplementsKeyRing
<1>1. Init => Ring!Init
    BY RingInit
<1>2. CInv /\ [Next]_vars => [Ring!Next]_(Ring!ring)
    <2> SUFFICES ASSUME CInv, [Next]_vars PROVE [Ring!Next]_(Ring!ring)
        OBVIOUS
    <2>1. CASE UNCHANGED vars
        BY <2>1, RingStays DEF vars, tables
    <2>2. ASSUME NEW r \in Requests, CreateStream(r)
          PROVE  [Ring!Next]_(Ring!ring)
        BY <2>2, RingAppears
    <2>3. ASSUME NEW r \in Requests, CommitRotation(r)
          PROVE  [Ring!Next]_(Ring!ring)
        BY <2>3, RingRotates
    <2>4. CASE Next /\ \A r \in Requests : ~CreateStream(r) /\ ~CommitRotation(r)
        BY <2>4, RingElsewhere, RingStays
    <2> QED
        BY <2>1, <2>2, <2>3, <2>4
<1> QED
    BY <1>1, <1>2, IngestControlInvariance, PTL DEF Spec, ImplementsKeyRing, Ring!Spec
=============================================================================
