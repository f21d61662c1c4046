---------------------------- MODULE AccessProofs ----------------------------
(***************************************************************************)
(* Proofs about Access for all projects, tokens, keys, replicas, origins,  *)
(* lifetimes and bounds: types, that an admitted request goes back to a    *)
(* good project token of its project, and that neither a rotation of       *)
(* tokens nor one of keys locks anybody out.                               *)
(***************************************************************************)
EXTENDS Access, FiniteSetTheorems, TLAPS

(***************************************************************************)
(* The inductive invariant                                                 *)
(***************************************************************************)

\* The operator works on tokens or on keys; without work on keys every
\* replica has them, without work on tokens there is none.
OneJob ==
    /\ work = "tokens" => \A r \in Replicas : ring[r] # Off
    /\ work = "keys" => \A t \in Tokens : gens[t] = None

\* c belongs to p, now and for ever.
Bound(c, p) == Owner(c) = p /\ (c \in Tokens => gens[c] # None)

\* What a session token goes back to.
IssuedByRight ==
    \A s \in issued :
        /\ s.right /\ Bound(s.by, s.sub)
        /\ s.nbf <= now /\ s.exp <= s.nbf + MaxTTL

\* What a request goes back to, at each of its stages.  A replica without keys
\* lets any project token pass its headers; it is found out at admission.
CarriesRight ==
    /\ req.bearer # None => req.bearer \in issued /\ req.bearer.origin \in {None, req.origin}
    /\ req.kind = "issue" =>
          /\ req.right /\ Bound(req.legacy, req.project)
          /\ req.project # None /\ req.bearer = None /\ req.stage = "parsed"
          /\ req.legacy \in Credentials /\ ring[req.replica] # Off
    /\ req.kind = "events" =>
          /\ req.legacy # None \/ req.bearer # None
          /\ req.right \/ (work = "keys" /\ req.legacy \in Tokens /\ req.bearer = None)
          /\ req.legacy # None /\ req.bearer # None => Bound(req.legacy, req.bearer.sub)
    /\ req.stage = "accepted" =>
          /\ req.right /\ req.origin \in Allowed \cup {None}
          /\ req.legacy # None => Bound(req.legacy, req.project)
          /\ req.bearer # None => req.bearer.sub = req.project

\* The keys that sign, and those of session tokens that have not ended.
Live == {s.kid : s \in {x \in issued : now < x.exp}} \cup
        {ring[r].active : r \in {x \in Replicas : ring[x] # Off}}

\* Every replica that has keys can read what any of them signs.
Readable ==
    \A r \in Replicas : ring[r] # Off => Live \subseteq ring[r].keys

\* Without configured keys there is the laboratory default for all time.
Laboratory ==
    config.keys = {} =>
        /\ settled = None /\ Live \subseteq {LabKid}
        /\ \A r \in Replicas : ring[r] \in {LabDefault, Off}

\* Between the steps of a rotation: the next configuration suits every replica
\* that has not seen it yet, and a key is only removed when all it signed has ended.
Rotating ==
    config.keys # {} =>
        /\ config.active \in config.keys
        /\ Live \subseteq config.keys
        /\ \A r \in Replicas : ring[r] # Off => config.active \in ring[r].keys
        /\ settled # None =>
              /\ \A r \in Replicas : ring[r] \in {config, Off}
              /\ \A s \in issued : s.kid # config.active => s.exp <= settled + MaxTTL

\* Holds in every state and in every step that starts from it.
AccessInv ==
    /\ TypeOK /\ IsFiniteSet(issued) /\ OneJob /\ IssuedByRight
    /\ req # None => CarriesRight
    /\ Readable /\ Laboratory /\ Rotating

(***************************************************************************)
(* Operators                                                               *)
(***************************************************************************)

\* A generation is good exactly when its row promises so.
LEMMA StatusIsRight ==
    ASSUME TypeOK, NEW t \in Tokens, gens[t] # None, NEW n \in Nat
    PROVE  CanAuthenticate(gens[t], n) <=> Right(t, n)
<1>1. gens[t] \in Generations
    BY DEF TypeOK
<1>2. gens[t].notBefore \in Nat
    BY <1>1 DEF Generations, Times
<1>3. n < gens[t].notBefore <=> ~(gens[t].notBefore <= n)
    BY <1>2
<1>4. Before(n, gens[t].graceUntil) <=> gens[t].graceUntil = None \/ n < gens[t].graceUntil
    BY DEF Before
<1> HIDE DEF Before
<1> QED
    BY <1>3, <1>4 DEF CanAuthenticate, EvaluateProjectTokenStatus, Right

\* A project token names a configured project if it is good and its own.
LEMMA TokensResolve ==
    ASSUME TypeOK, NEW c \in Credentials
    PROVE  /\ ResolveByToken(c) # None =>
                 /\ Right(c, now) /\ Bound(c, ResolveByToken(c))
                 /\ ResolveByToken(c) \in Known
           /\ Right(c, now) /\ Owner(c) \in Known => ResolveByToken(c) = Owner(c)
<1>0. now \in Nat
    BY AccessConstants DEF TypeOK
<1>1. CASE c \in Tokens
    <2>1. CASE gens[c] = None
        BY <1>1, <2>1 DEF ResolveByToken, ResolveRotatingToken, FindByHash, Right
    <2>2. CASE gens[c] # None
        <3>1. ResolveByToken(c) =
                IF Right(c, now) THEN ResolveByID(gens[c].project) ELSE None
            BY <1>0, <1>1, <2>2, StatusIsRight DEF ResolveByToken, ResolveRotatingToken, FindByHash
        <3> QED
            BY <1>1, <2>2, <3>1 DEF ResolveByID, Bound, Owner
    <2> QED
        BY <2>1, <2>2
<1>2. CASE c \notin Tokens
    BY <1>2 DEF ResolveByToken, ResolveByID, Right, Bound, Owner
<1> QED
    BY <1>1, <1>2

(***************************************************************************)
(* Types                                                                   *)
(***************************************************************************)

\* What a replica loads is a set of keys, the configured one or the default.
LEMMA Loaded ==
    ASSUME TypeOK, Laboratory, Rotating, NEW loaded \in BuildAuthSessionService
    PROVE  /\ loaded \in Rings \cup {Off}
           /\ config.keys = {} => loaded \in {LabDefault, Off}
           /\ config.keys # {} => loaded \in {config, Off}
<1>1. config # None /\ LabDefault \in Rings /\ config \in Rings
    BY AccessValues DEF TypeOK, LabDefault, Rings
<1>2. ParseSigningKeysEnv(config) = IF config.keys = {} THEN None ELSE config
    BY DEF ParseSigningKeysEnv, Rotating
<1>3. loaded \in {LabDefault, Off} \/ (config.keys # {} /\ loaded = config)
    BY <1>1, <1>2 DEF BuildAuthSessionService, EnvLoad, VaultLoad, KmsLoad, Fetched
<1>4. config.keys # {} => loaded \in {config, Off}
    BY <1>1, <1>2 DEF BuildAuthSessionService, EnvLoad, VaultLoad, KmsLoad, Fetched
<1> QED
    BY <1>1, <1>3, <1>4

\* A request that passes carries what was issued or what names a project.
LEMMA RequestType ==
    ASSUME TypeOK, NEW kind \in {"events", "issue"}, NEW r \in Replicas,
           NEW s \in issued \cup {None}, NEW c \in Credentials \cup {None},
           NEW o \in Origins \cup {None}, NEW p \in Known \cup {None},
           (s # None => s.right \in BOOLEAN)
    PROVE  Request(kind, r, s, c, o, p, "parsed") \in Requests
<1>1. Right(c, now) \in BOOLEAN
    BY DEF Right, Before
<1>2. (/\ c # None => Right(c, now)
       /\ s # None => s.right /\ s.nbf <= now /\ now < s.nbf + MaxTTL) \in BOOLEAN
    OBVIOUS
<1> QED
    BY <1>2 DEF Request, Requests, TypeOK

\* What a request that arrives carries, and what it has been checked for.
LEMMA Arrival ==
    ASSUME TypeOK, IssuedByRight, NEW r \in Replicas, ArriveEvents(r)
    PROVE  \E s \in issued \cup {None}, c \in Credentials \cup {None}, o \in Origins \cup {None} :
              /\ req' = Request("events", r, s, c, o, None, "parsed")
              /\ HeadersPass(r, s, c, o)
              /\ ring[r] = Off => s = None
<1>1. PICK b \in issued \cup {None}, h \in issued \cup {None},
           c \in Credentials \cup {None}, o \in Origins \cup {None} :
              LET s == IF ring[r] = Off THEN None ELSE PickSessionToken(b, h) IN
              /\ HeadersPass(r, s, c, o)
              /\ req' = Request("events", r, s, c, o, None, "parsed")
    BY DEF ArriveEvents
<1> DEFINE s == IF ring[r] = Off THEN None ELSE PickSessionToken(b, h)
<1>2. s \in issued \cup {None} /\ (ring[r] = Off => s = None)
    BY DEF PickSessionToken
<1> QED
    BY <1>1, <1>2

\* The session token that a replica signs.
LEMMA Signed ==
    ASSUME TypeOK, OneJob, req # None, req.kind = "issue", CarriesRight, Readable,
           NEW asked \in 0 .. MaxTTL + 1, ResolveTTLSeconds(asked) # None,
           NEW o \in Origins \cup {None}, NEW token,
           token = Sign(req.replica, BuildSessionTokenClaims(req.project, ResolveTTLSeconds(asked), o),
                        req.legacy, req.right)
    PROVE  /\ token \in SessionTokens
           /\ token.right /\ Bound(token.by, token.sub) /\ token.nbf = now
           /\ token.exp <= token.nbf + MaxTTL
           /\ token.kid = ring[req.replica].active /\ req.replica \in Replicas
<1>1. req \in Requests
    BY DEF TypeOK
<1>2. /\ req.replica \in Replicas /\ req.project \in Known /\ req.legacy \in Credentials
      /\ req.right /\ req.right \in BOOLEAN
      /\ Bound(req.legacy, req.project) /\ ring[req.replica] # Off
    BY <1>1 DEF Requests, CarriesRight
<1>3. ResolveTTLSeconds(asked) \in 0 .. MaxTTL
    BY AccessConstants DEF ResolveTTLSeconds, EffectiveMaxTTLSeconds
<1>4. now \in Nat /\ MaxTTL \in Nat
    BY AccessConstants DEF TypeOK
<1>5. /\ now + ResolveTTLSeconds(asked) \in Nat
      /\ now + ResolveTTLSeconds(asked) <= now + MaxTTL
    BY <1>3, <1>4
<1>6. ring[req.replica].active \in Kids \cup {LabKid}
    BY <1>2 DEF Readable, Live, TypeOK, Rings
<1> QED
    BY <1>2, <1>4, <1>5, <1>6 DEF Sign, BuildSessionTokenClaims, ActiveSigningKey, SessionTokens, Times

\* Types, and that the tokens issued stay within their bound.
LEMMA TypeStep ==
    ASSUME AccessInv, [Next]_vars
    PROVE  TypeOK' /\ IsFiniteSet(issued')
<1> USE AccessConstants DEF AccessInv
<1>1. ASSUME NEW r \in Replicas, ArriveEvents(r)
      PROVE  TypeOK' /\ IsFiniteSet(issued')
    <2>1. PICK s \in issued \cup {None}, c \in Credentials \cup {None}, o \in Origins \cup {None} :
              req' = Request("events", r, s, c, o, None, "parsed")
        BY <1>1, Arrival
    <2>2. s # None => s.right \in BOOLEAN
        BY DEF TypeOK, SessionTokens
    <2>3. req' \in Requests
        BY <2>1, <2>2, RequestType
    <2> QED
        BY <1>1, <2>3 DEF ArriveEvents, TypeOK
<1>2. ASSUME NEW r \in Replicas, ArriveIssue(r)
      PROVE  TypeOK' /\ IsFiniteSet(issued')
    <2>1. PICK c \in Credentials :
              /\ ResolveByToken(c) # None
              /\ req' = Request("issue", r, None, c, None, ResolveByToken(c), "parsed")
        BY <1>2 DEF ArriveIssue, ResolveProjectFromMTraceToken
    <2>2. req' \in Requests
        BY <2>1, TokensResolve, RequestType
    <2> QED
        BY <1>2, <2>2 DEF ArriveIssue, TypeOK
<1>3. CASE Admit
    <2>1. req \in Requests
        BY <1>3 DEF Admit, TypeOK
    <2>2. AuthorizeAndAdmit(req.bearer, req.legacy, req.origin) \in Known \cup {None}
        <3>1. req.bearer # None => req.bearer.sub \in Known
            BY <2>1 DEF Requests, SessionTokens
        <3>2. req.legacy # None => req.legacy \in Credentials
            BY <2>1 DEF Requests
        <3>3. req.bearer = None => req.legacy # None
            BY <1>3 DEF Admit, CarriesRight
        <3> QED
            BY <3>1, <3>2, <3>3, TokensResolve DEF AuthorizeAndAdmit
    <2>3. req' \in Requests
        BY <1>3, <2>1, <2>2 DEF Admit, Requests
    <2> QED
        BY <1>3, <2>3 DEF Admit, TypeOK
<1>4. CASE IssueSessionToken
    <2>1. PICK asked \in 0 .. MaxTTL + 1, o \in Origins \cup {None} :
              /\ ResolveTTLSeconds(asked) # None
              /\ issued' = issued \cup {Sign(req.replica,
                     BuildSessionTokenClaims(req.project, ResolveTTLSeconds(asked), o),
                     req.legacy, req.right)}
        BY <1>4 DEF IssueSessionToken
    <2> DEFINE token == Sign(req.replica,
                     BuildSessionTokenClaims(req.project, ResolveTTLSeconds(asked), o),
                     req.legacy, req.right)
    <2>2. token \in SessionTokens
        BY <1>4, <2>1, Signed DEF IssueSessionToken
    <2>3. Cardinality(issued) < MaxIssued /\ issued' = issued \cup {token}
        BY <1>4, <2>1 DEF IssueSessionToken
    <2> HIDE DEF token
    <2>4. IsFiniteSet(issued') /\ Cardinality(issued') <= MaxIssued
        <3>1. Cardinality(issued) \in Nat
            BY FS_CardinalityType
        <3>2. IsFiniteSet(issued \cup {token}) /\ Cardinality(issued \cup {token}) =
                 IF token \in issued THEN Cardinality(issued) ELSE Cardinality(issued) + 1
            BY FS_AddElement
        <3> QED
            BY <2>3, <3>1, <3>2
    <2> QED
        BY <1>4, <2>2, <2>3, <2>4 DEF IssueSessionToken, TypeOK
<1>5. CASE Leave
    BY <1>5 DEF Leave, TypeOK
<1>6. ASSUME NEW t \in Tokens, Create(t)
      PROVE  TypeOK' /\ IsFiniteSet(issued')
    <2>1. PICK p \in Projects, wait \in {0, 1}, life \in Lives :
              gens' = [gens EXCEPT ![t] = GenerateProjectToken(p, now + wait,
                         IF life = None THEN None ELSE now + life)]
        BY <1>6 DEF Create
    <2>2. now + wait \in Nat /\ (life # None => now + life \in Nat)
        BY AccessValues DEF TypeOK
    <2>3. GenerateProjectToken(p, now + wait, IF life = None THEN None ELSE now + life)
            \in Generations
        BY <2>2 DEF GenerateProjectToken, Generations, Times
    <2>4. gens' \in [Tokens -> Generations \cup {None}]
        BY <2>1, <2>3 DEF TypeOK
    <2> QED
        BY <1>6, <2>4 DEF Create, TypeOK
<1>7. ASSUME NEW t \in Tokens, SetGraceUntil(t) \/ Revoke(t)
      PROVE  TypeOK' /\ IsFiniteSet(issued')
    <2>1. gens[t] \in Generations /\ now \in Nat /\ now + 1 \in Nat
        BY <1>7 DEF SetGraceUntil, Revoke, TypeOK
    <2>2. [gens[t] EXCEPT !.graceUntil = now + 1] \in Generations
          /\ [gens[t] EXCEPT !.revokedAt = now] \in Generations
        BY <2>1 DEF Generations, Times
    <2>3. gens' \in [Tokens -> Generations \cup {None}]
        BY <1>7, <2>2 DEF SetGraceUntil, Revoke, TypeOK
    <2> QED
        BY <1>7, <2>3 DEF SetGraceUntil, Revoke, TypeOK
<1>8. CASE AddKey \/ SwitchKey \/ RemoveKey
    <2>1. config' \in Rings /\ settled' = None
        <3>1. CASE AddKey
            BY <3>1 DEF AddKey, TypeOK, Rings
        <3>2. CASE SwitchKey
            BY <3>2 DEF SwitchKey, TypeOK, Rings
        <3>3. CASE RemoveKey
            <4>1. config.keys # {}
                BY <3>3 DEF RemoveKey, Laboratory
            <4> QED
                BY <3>3, <4>1 DEF RemoveKey, TypeOK, Rings, Rotating
        <3> QED
            BY <1>8, <3>1, <3>2, <3>3
    <2> QED
        BY <1>8, <2>1 DEF AddKey, SwitchKey, RemoveKey, TypeOK
<1>9. ASSUME NEW r \in Replicas, Boot(r)
      PROVE  TypeOK' /\ IsFiniteSet(issued')
    <2>1. PICK loaded \in BuildAuthSessionService : ring' = [ring EXCEPT ![r] = loaded]
        BY <1>9 DEF Boot
    <2>2. ring' \in [Replicas -> Rings \cup {Off}]
        BY <2>1, Loaded DEF TypeOK
    <2>3. settled' \in Times \cup {None} /\ req' \in Requests \cup {None}
        BY <1>9 DEF Boot, TypeOK, Times
    <2> QED
        BY <1>9, <2>2, <2>3 DEF Boot, TypeOK
<1>10. CASE Tick
    BY <1>10 DEF Tick, TypeOK
<1>11. CASE UNCHANGED vars
    BY <1>11 DEF vars, TypeOK
<1> QED
    BY <1>1, <1>2, <1>3, <1>4, <1>5, <1>6, <1>7, <1>8, <1>9, <1>10, <1>11 DEF Next

(***************************************************************************)
(* Rights                                                                  *)
(***************************************************************************)

\* Only work on tokens writes rows, only work on keys starts replicas.
LEMMA OneJobStep ==
    ASSUME AccessInv, [Next]_vars
    PROVE  OneJob'
<1> USE DEF AccessInv
<1>1. ASSUME NEW r \in Replicas, Boot(r)
      PROVE  OneJob'
    BY <1>1 DEF Boot, OneJob
<1>2. ASSUME NEW t \in Tokens, Create(t) \/ SetGraceUntil(t) \/ Revoke(t)
      PROVE  OneJob'
    BY <1>2 DEF Create, SetGraceUntil, Revoke, OneJob
<1> QED
    BY <1>1, <1>2 DEF Next, vars, OneJob, ArriveEvents, ArriveIssue, Admit,
        IssueSessionToken, Leave, AddKey, SwitchKey, RemoveKey, Tick

\* A project token stays with its project, whatever the operator does to it.
LEMMA BoundStays ==
    ASSUME AccessInv, [Next]_vars, NEW c, NEW q, Bound(c, q)
    PROVE  Bound(c, q)'
<1> USE DEF AccessInv
<1>1. CASE c \in Tokens
    <2>1. gens[c] # None /\ gens[c] \in Generations /\ gens[c].project = q
        BY <1>1 DEF Bound, Owner, TypeOK
    <2>2. gens'[c].project = gens[c].project /\ gens'[c] # None
        <3>1. ASSUME NEW t \in Tokens, Create(t)
              PROVE  gens'[c] = gens[c]
            BY <1>1, <2>1, <3>1 DEF Create, Taken, TypeOK
        <3>2. ASSUME NEW t \in Tokens, SetGraceUntil(t) \/ Revoke(t)
              PROVE  gens'[c].project = gens[c].project /\ gens'[c] # None
            <4>1. gens'[c] \in {gens[c], [gens[c] EXCEPT !.graceUntil = now + 1],
                                [gens[c] EXCEPT !.revokedAt = now]}
                BY <1>1, <3>2 DEF SetGraceUntil, Revoke, TypeOK
            <4>2. gens'[c].project = gens[c].project
                BY <2>1, <4>1 DEF Generations
            <4>3. gens'[c] \in Generations
                <5>1. now \in Nat /\ now + 1 \in Nat
                    BY DEF TypeOK
                <5> QED
                    BY <2>1, <4>1, <5>1 DEF Generations, Times
            <4> QED
                BY <4>2, <4>3, AccessValues
        <3> QED
            BY <2>1, <3>1, <3>2 DEF Next, vars, ArriveEvents, ArriveIssue, Boot, Admit,
                IssueSessionToken, Leave, AddKey, SwitchKey, RemoveKey, Tick
    <2> QED
        BY <1>1, <2>1, <2>2 DEF Bound, Owner
<1>2. CASE c \notin Tokens
    BY <1>2 DEF Bound, Owner
<1> QED
    BY <1>1, <1>2

\* Session tokens come from requests that were entitled to them.
LEMMA WhoIssues ==
    ASSUME AccessInv, [Next]_vars
    PROVE  \/ UNCHANGED issued
           \/ /\ IssueSessionToken
              /\ \E s \in SessionTokens :
                    /\ issued' = issued \cup {s}
                    /\ s.right /\ Bound(s.by, s.sub) /\ s.nbf = now
                    /\ s.exp <= s.nbf + MaxTTL
                    /\ s.kid = ring[req.replica].active
                    /\ req.replica \in Replicas /\ ring[req.replica] # Off
<1> USE AccessConstants DEF AccessInv
<1>1. ASSUME IssueSessionToken
      PROVE  \E s \in SessionTokens :
                    /\ issued' = issued \cup {s}
                    /\ s.right /\ Bound(s.by, s.sub) /\ s.nbf = now
                    /\ s.exp <= s.nbf + MaxTTL
                    /\ s.kid = ring[req.replica].active
                    /\ req.replica \in Replicas /\ ring[req.replica] # Off
    <2>1. PICK asked \in 0 .. MaxTTL + 1, o \in Origins \cup {None} :
              /\ ResolveTTLSeconds(asked) # None
              /\ issued' = issued \cup {Sign(req.replica,
                     BuildSessionTokenClaims(req.project, ResolveTTLSeconds(asked), o),
                     req.legacy, req.right)}
        BY <1>1 DEF IssueSessionToken
    <2>2. req # None /\ req.kind = "issue" /\ ring[req.replica] # Off
        BY <1>1 DEF IssueSessionToken, CarriesRight
    <2> QED
        BY <2>1, <2>2, Signed
<1> QED
    BY <1>1 DEF Next, vars, ArriveEvents, ArriveIssue, Boot, Admit, Leave, Create,
        SetGraceUntil, Revoke, AddKey, SwitchKey, RemoveKey, Tick

\* Time does not run backwards.
LEMMA TimeStep ==
    ASSUME TypeOK, [Next]_vars
    PROVE  now \in Nat /\ now' \in Nat /\ now <= now'
BY DEF TypeOK, Next, vars, ArriveEvents, ArriveIssue, Boot, Admit, IssueSessionToken,
       Leave, Create, SetGraceUntil, Revoke, AddKey, SwitchKey, RemoveKey, Tick

\* What session tokens go back to stays true of the old ones and holds for a new one.
LEMMA IssuedByRightStep ==
    ASSUME AccessInv, [Next]_vars
    PROVE  IssuedByRight'
<1> USE DEF AccessInv
<1> SUFFICES ASSUME NEW s \in issued'
             PROVE  /\ s.right /\ Bound(s.by, s.sub)'
                    /\ s.nbf <= now' /\ s.exp <= s.nbf + MaxTTL
    BY DEF IssuedByRight, Bound, Owner
<1>1. s \in SessionTokens /\ s.nbf \in Nat
    BY TypeStep DEF TypeOK, SessionTokens, Times
<1>2. s.right /\ Bound(s.by, s.sub) /\ s.nbf <= now /\ s.exp <= s.nbf + MaxTTL
    <2>1. CASE s \in issued
        BY <2>1 DEF IssuedByRight
    <2>2. CASE s \notin issued
        BY <2>2, TimeStep, WhoIssues
    <2> QED
        BY <2>1, <2>2
<1> QED
    BY <1>1, <1>2, TimeStep, BoundStays

\* A replica that lets headers pass has checked what they carry, unless it has
\* no keys.
LEMMA HeadersAreChecked ==
    ASSUME AccessInv, NEW r \in Replicas, NEW s \in issued \cup {None},
           NEW c \in Credentials \cup {None}, NEW o \in Origins \cup {None},
           HeadersPass(r, s, c, o), ring[r] = Off => s = None
    PROVE  /\ s # None \/ c # None
           /\ \/ /\ c # None => Right(c, now)
                 /\ s # None => s.right /\ s.nbf <= now /\ now < s.nbf + MaxTTL
              \/ work = "keys" /\ c \in Tokens /\ s = None
           /\ s # None => s.origin \in {None, o}
           /\ s # None /\ c # None => Bound(c, s.sub)
<1> USE AccessConstants DEF AccessInv
<1>1. CASE ring[r] = Off
    <2>1. s = None /\ c # None /\ work = "keys"
        BY <1>1 DEF HeadersPass, OneJob, TypeOK
    <2>2. c \notin Tokens => Right(c, now)
        BY DEF Right
    <2> QED
        BY <2>1, <2>2
<1>2. CASE ring[r] # Off
    <2>1. Parse(r, s, c, o)
        BY <1>2 DEF HeadersPass
    <2>2. ASSUME s # None
          PROVE  /\ s.right /\ s.nbf <= now /\ now < s.nbf + MaxTTL
                 /\ s.origin \in {None, o} /\ ResolveSessionToken(r, s, o) = s.sub
                 /\ s.sub # None
        <3>1. ResolveSessionToken(r, s, o) # None
            BY <2>1, <2>2 DEF Parse
        <3>2. ValidateClaimsTime(s) /\ ValidateClaimsOrigin(s, o) /\ ResolveByID(s.sub) # None
              /\ ResolveSessionToken(r, s, o) = ResolveByID(s.sub)
            BY <3>1 DEF ResolveSessionToken
        <3>3. s \in issued /\ s \in SessionTokens
            BY <2>2 DEF TypeOK
        <3>4. s.exp \in Nat /\ s.nbf \in Nat /\ now \in Nat /\ MaxTTL \in Nat
              /\ s.exp <= s.nbf + MaxTTL /\ s.right
            BY <3>3 DEF TypeOK, SessionTokens, Times, IssuedByRight
        <3> QED
            BY <3>2, <3>4 DEF ValidateClaimsTime, ValidateClaimsOrigin, ResolveByID
    <2>3. ASSUME c # None
          PROVE  Right(c, now) /\ (s # None => Bound(c, s.sub))
        <3>1. ResolveByToken(c) # None /\ (s # None => ResolveByToken(c) = s.sub)
            BY <2>1, <2>2, <2>3 DEF Parse, ApplyLegacyHeader
        <3> QED
            BY <2>3, <3>1, TokensResolve
    <2>4. s # None \/ c # None
        BY <2>1 DEF Parse
    <2> QED
        BY <2>2, <2>3, <2>4
<1> QED
    BY <1>1, <1>2

\* Session tokens are never taken back.
LEMMA IssuedStays ==
    ASSUME AccessInv, [Next]_vars
    PROVE  issued \subseteq issued'
BY WhoIssues

\* A request that stays as it is keeps what it carries.
LEMMA CarriedStays ==
    ASSUME AccessInv, [Next]_vars, req # None, req' = req, work' = work,
           req.kind = "issue" => ring'[req.replica] # Off
    PROVE  CarriesRight'
<1> USE DEF AccessInv
<1>1. CarriesRight
    OBVIOUS
<1>2. \A c, q : Bound(c, q) => Bound(c, q)'
    BY BoundStays
<1>3. issued \subseteq issued'
    BY IssuedStays
<1> QED
    BY <1>1, <1>2, <1>3 DEF CarriesRight, Bound, Owner

\* What a request carries was checked when it arrived, and is checked again
\* before it is admitted.
LEMMA CarriesRightStep ==
    ASSUME AccessInv, [Next]_vars, req' # None
    PROVE  CarriesRight'
<1> USE AccessConstants DEF AccessInv
<1>1. ASSUME NEW r \in Replicas, ArriveEvents(r)
      PROVE  CarriesRight'
    <2>1. PICK s \in issued \cup {None}, c \in Credentials \cup {None}, o \in Origins \cup {None} :
              /\ req' = Request("events", r, s, c, o, None, "parsed")
              /\ HeadersPass(r, s, c, o)
              /\ ring[r] = Off => s = None
        BY <1>1, Arrival
    <2>2. /\ req'.kind = "events" /\ req'.bearer = s /\ req'.legacy = c /\ req'.origin = o
          /\ req'.stage = "parsed"
          /\ req'.right = (/\ c # None => Right(c, now)
                           /\ s # None => s.right /\ s.nbf <= now /\ now < s.nbf + MaxTTL)
        BY <2>1 DEF Request
    <2>3. UNCHANGED <<gens, issued, work>>
        BY <1>1 DEF ArriveEvents
    <2>4. s # None /\ c # None => Bound(c, s.sub)'
        BY <2>1, <2>3, HeadersAreChecked DEF Bound, Owner
    <2> QED
        <3>1. /\ s # None \/ c # None
              /\ req'.right \/ (work = "keys" /\ c \in Tokens /\ s = None)
              /\ s # None => s.origin \in {None, o}
            <4>1. req'.right <=> (/\ c # None => Right(c, now)
                                  /\ s # None => s.right /\ s.nbf <= now /\ now < s.nbf + MaxTTL)
                BY <2>2
            <4>2. /\ s # None \/ c # None
                  /\ \/ /\ c # None => Right(c, now)
                        /\ s # None => s.right /\ s.nbf <= now /\ now < s.nbf + MaxTTL
                     \/ work = "keys" /\ c \in Tokens /\ s = None
                  /\ s # None => s.origin \in {None, o}
                BY <2>1, HeadersAreChecked
            <4> QED
                BY <4>1, <4>2
        <3>2. (s # None => s \in issued') /\ work' = work
            BY <2>3
        <3> QED
            BY <2>2, <2>4, <3>1, <3>2 DEF CarriesRight, Bound, Owner
<1>2. ASSUME NEW r \in Replicas, ArriveIssue(r)
      PROVE  CarriesRight'
    <2>1. PICK c \in Credentials :
              /\ ResolveByToken(c) # None
              /\ req' = Request("issue", r, None, c, None, ResolveByToken(c), "parsed")
        BY <1>2 DEF ArriveIssue, ResolveProjectFromMTraceToken
    <2>2. /\ req'.kind = "issue" /\ req'.bearer = None /\ req'.legacy = c
          /\ req'.project = ResolveByToken(c) /\ req'.stage = "parsed" /\ req'.replica = r
          /\ req'.right = (c # None => Right(c, now))
        BY <2>1 DEF Request
    <2>3. UNCHANGED <<gens, ring, issued, work>> /\ ring[r] # Off
        BY <1>2 DEF ArriveIssue
    <2>4. Right(c, now) /\ Bound(c, ResolveByToken(c))
        BY <2>1, TokensResolve
    <2> HIDE DEF ResolveByToken
    <2>5. (Bound(req.legacy, req.project))'
        BY <2>2, <2>3, <2>4 DEF Bound, Owner
    <2> QED
        BY <2>1, <2>2, <2>3, <2>4, <2>5 DEF CarriesRight
<1>3. CASE Admit
    <2> DEFINE p == AuthorizeAndAdmit(req.bearer, req.legacy, req.origin)
    <2>1. req \in Requests /\ req.kind = "events" /\ CarriesRight
        BY <1>3 DEF Admit, TypeOK
    <2>2. p # None /\ req' = [req EXCEPT !.stage = "accepted", !.project = p]
        BY <1>3 DEF Admit
    <2>3. req.origin \in Allowed \cup {None}
          /\ p = IF req.bearer # None THEN req.bearer.sub ELSE ResolveByToken(req.legacy)
        BY <2>2 DEF AuthorizeAndAdmit
    <2> HIDE DEF p
    <2>4. /\ req'.kind = "events" /\ req'.bearer = req.bearer /\ req'.legacy = req.legacy
          /\ req'.origin = req.origin /\ req'.right = req.right
          /\ req'.stage = "accepted" /\ req'.project = p
        BY <2>1, <2>2 DEF Requests
    <2>5. UNCHANGED <<gens, issued, work>>
        BY <1>3 DEF Admit
    <2>6. req.bearer = None => req.legacy \in Credentials
        BY <2>1 DEF Requests, CarriesRight
    <2>7. req.bearer = None => Right(req.legacy, now) /\ Bound(req.legacy, p)
        BY <2>2, <2>3, <2>6, TokensResolve
    <2>8. req.right
        <3>1. ASSUME work = "keys", req.legacy \in Tokens, req.bearer = None
              PROVE  FALSE
            BY <2>7, <3>1 DEF OneJob, Right
        <3> QED
            BY <2>1, <3>1 DEF CarriesRight
    <2>9. req.legacy # None => Bound(req.legacy, p)
        BY <2>1, <2>3, <2>7 DEF CarriesRight
    <2>10. (req.legacy # None => Bound(req.legacy, req.project))'
        BY <2>4, <2>5, <2>9 DEF Bound, Owner
    <2>11. (req.bearer # None /\ req.legacy # None => Bound(req.legacy, req.bearer.sub))'
        BY <2>1, <2>4, <2>5 DEF CarriesRight, Bound, Owner
    <2>12. req.legacy # None \/ req.bearer # None
        BY <2>1 DEF CarriesRight
    <2>13. req.bearer # None => req.bearer \in issued /\ req.bearer.origin \in {None, req.origin}
        BY <2>1 DEF CarriesRight
    <2> QED
        BY <2>3, <2>4, <2>5, <2>8, <2>10, <2>11, <2>12, <2>13 DEF CarriesRight, Bound, Owner
<1>4. CASE IssueSessionToken \/ Leave
    BY <1>4 DEF IssueSessionToken, Leave
<1>5. ASSUME NEW t \in Tokens, Create(t) \/ SetGraceUntil(t) \/ Revoke(t)
      PROVE  CarriesRight'
    <2>1. UNCHANGED <<ring, req, work>>
        BY <1>5 DEF Create, SetGraceUntil, Revoke
    <2> QED
        BY <2>1, CarriedStays DEF CarriesRight
<1>6. CASE AddKey \/ SwitchKey \/ RemoveKey \/ Tick \/ UNCHANGED vars
    <2>1. UNCHANGED <<ring, req, work>>
        BY <1>6 DEF AddKey, SwitchKey, RemoveKey, Tick, vars
    <2> QED
        BY <2>1, CarriedStays DEF CarriesRight
<1>7. ASSUME NEW r \in Replicas, Boot(r)
      PROVE  CarriesRight'
    <2>1. req # None /\ req' = req /\ req.replica # r /\ work' = work
        BY <1>7 DEF Boot
    <2>2. ring'[req.replica] = ring[req.replica]
        <3>1. req.replica \in Replicas
            BY <2>1 DEF TypeOK, Requests
        <3> QED
            BY <1>7, <2>1, <3>1 DEF Boot, TypeOK
    <2> QED
        BY <2>1, <2>2, CarriedStays DEF CarriesRight
<1> QED
    BY <1>1, <1>2, <1>3, <1>4, <1>5, <1>6, <1>7 DEF Next

(***************************************************************************)
(* Keys                                                                    *)
(***************************************************************************)

\* Nothing becomes live but the active key of a replica that starts.
LEMMA LiveStep ==
    ASSUME AccessInv, [Next]_vars, NEW k \in Live'
    PROVE  k \in Live \/ \E r \in Replicas : ring'[r] # ring[r] /\ ring'[r] # Off /\ k = ring'[r].active
<1> USE DEF AccessInv
<1>1. ASSUME NEW s \in issued', s.kid = k, now' < s.exp
      PROVE  k \in Live
    <2>1. CASE s \in issued
        <3>1. s.exp \in Nat
            BY <2>1 DEF TypeOK, SessionTokens, Times
        <3>2. now < s.exp
            BY <1>1, <3>1, TimeStep
        <3> QED
            BY <1>1, <2>1, <3>2 DEF Live
    <2>2. CASE s \notin issued
        BY <1>1, <2>2, WhoIssues DEF Live
    <2> QED
        BY <2>1, <2>2
<1>2. ASSUME NEW r \in Replicas, ring'[r] # Off, ring'[r].active = k, ring'[r] = ring[r]
      PROVE  k \in Live
    BY <1>2 DEF Live
<1> QED
    BY <1>1, <1>2 DEF Live

\* As long as no replica starts and no step of the rotation is taken, the keys
\* that are live only get fewer, and what is signed is signed with them.
LEMMA KeysStay ==
    ASSUME AccessInv, [Next]_vars, UNCHANGED <<config, settled, ring>>
    PROVE  (Readable /\ Laboratory /\ Rotating)'
<1> USE DEF AccessInv
<1>1. Live' \subseteq Live
    BY LiveStep
<1>2. Readable' /\ Laboratory'
    BY <1>1 DEF Readable, Laboratory
<1>3. ASSUME config.keys # {}, settled # None, NEW s \in issued', s.kid # config.active
      PROVE  s.exp <= settled + MaxTTL
    <2>1. s \in issued
        BY <1>3, WhoIssues DEF Rotating
    <2> QED
        BY <1>3, <2>1 DEF Rotating
<1>4. Rotating'
    BY <1>1, <1>3 DEF Rotating
<1> QED
    BY <1>2, <1>4

\* Each step of the rotation suits every replica, and removes no live key.
LEMMA RotationStep ==
    ASSUME AccessInv, [Next]_vars, AddKey \/ SwitchKey \/ RemoveKey
    PROVE  (Readable /\ Laboratory /\ Rotating)'
<1> USE AccessConstants DEF AccessInv
<1>1. /\ settled # None /\ config.keys # {} /\ config \in Rings
      /\ settled' = None /\ UNCHANGED <<ring, issued, now>>
    BY DEF AddKey, SwitchKey, RemoveKey, Laboratory, TypeOK
<1>2. Live' \subseteq Live
    BY <1>1, LiveStep
<1>3. Readable'
    BY <1>1, <1>2 DEF Readable
<1>4. /\ config.active \in config.keys /\ Live \subseteq config.keys
      /\ \A r \in Replicas : ring[r] \in {config, Off}
      /\ \A s \in issued : s.kid # config.active => s.exp <= settled + MaxTTL
    BY <1>1 DEF Rotating
<1>5. /\ config'.active \in config'.keys
      /\ Live \subseteq config'.keys
      /\ config'.active \in config.keys
    <2>1. CASE AddKey
        <3>1. PICK k \in Kids : config' = [config EXCEPT !.keys = @ \cup {k}]
            BY <2>1 DEF AddKey
        <3> QED
            BY <1>1, <1>4, <3>1 DEF Rings
    <2>2. CASE SwitchKey
        <3>1. PICK k \in config.keys : config' = [config EXCEPT !.active = k]
            BY <2>2 DEF SwitchKey
        <3> QED
            BY <1>1, <1>4, <3>1 DEF Rings
    <2>3. CASE RemoveKey
        <3>1. config' = [config EXCEPT !.keys = {config.active}] /\ now >= settled + MaxTTL
            BY <2>3 DEF RemoveKey
        <3>2. ASSUME NEW s \in issued, now < s.exp
              PROVE  s.kid = config.active
            <4>1. s.exp \in Nat /\ now \in Nat /\ settled \in Nat /\ MaxTTL \in Nat
                BY <1>1 DEF TypeOK, SessionTokens, Times
            <4> QED
                BY <1>4, <3>1, <3>2, <4>1
        <3>3. Live \subseteq {config.active}
            <4>1. \A r \in Replicas : ring[r] # Off => ring[r].active = config.active
                BY <1>4
            <4> QED
                BY <3>2, <4>1 DEF Live
        <3> QED
            BY <1>1, <1>4, <3>1, <3>3 DEF Rings
    <2> QED
        BY <2>1, <2>2, <2>3
<1>6. \A r \in Replicas : ring[r] # Off => config'.active \in ring[r].keys
    BY <1>4, <1>5
<1>7. Rotating'
    BY <1>1, <1>2, <1>5, <1>6 DEF Rotating
<1>8. Laboratory'
    BY <1>5 DEF Laboratory
<1> QED
    BY <1>3, <1>7, <1>8

\* A replica that starts between two steps suits the others.
LEMMA BootStep ==
    ASSUME AccessInv, [Next]_vars, NEW r \in Replicas, Boot(r)
    PROVE  (Readable /\ Laboratory /\ Rotating)'
<1> USE AccessConstants DEF AccessInv
<1>1. PICK loaded \in BuildAuthSessionService :
          /\ ring' = [ring EXCEPT ![r] = loaded]
          /\ settled' = IF settled = None /\ AllLoaded(ring') THEN now ELSE settled
    BY DEF Boot
<1>2. /\ ring'[r] = loaded
      /\ \A q \in Replicas : q # r => ring'[q] = ring[q]
    BY <1>1 DEF TypeOK
<1>3. UNCHANGED <<now, config, issued>>
    BY DEF Boot
<1>4. \A k \in Live' : k \in Live \/ (loaded # Off /\ k = loaded.active)
    BY <1>2, LiveStep
<1>5. CASE config.keys = {}
    <2>1. loaded \in {LabDefault, Off} /\ settled = None /\ Live \subseteq {LabKid}
          /\ \A q \in Replicas : ring[q] \in {LabDefault, Off}
        BY <1>5, Loaded DEF Laboratory
    <2>2. LabDefault.active = LabKid /\ LabDefault.keys = {LabKid}
        BY DEF LabDefault
    <2>3. Live' \subseteq {LabKid} /\ \A q \in Replicas : ring'[q] \in {LabDefault, Off}
        BY <1>2, <1>4, <2>1, <2>2
    <2>4. loaded # config
        BY <1>5, <2>1, <2>2, AccessValues DEF TypeOK
    <2>5. settled' = None
        BY <1>1, <1>2, <1>3, <2>1, <2>4 DEF AllLoaded
    <2> QED
        BY <1>3, <1>5, <2>2, <2>3, <2>5 DEF Readable, Laboratory, Rotating
<1>6. CASE config.keys # {}
    <2>1. loaded \in {config, Off}
        BY <1>6, Loaded
    <2>2. /\ config.active \in config.keys /\ Live \subseteq config.keys
          /\ \A q \in Replicas : ring[q] # Off => config.active \in ring[q].keys
        BY <1>6 DEF Rotating
    <2>3. Live' \subseteq Live \cup {config.active}
        BY <1>4, <2>1
    <2>4. Readable'
        BY <1>2, <2>1, <2>2, <2>3 DEF Readable
    <2>5. ASSUME settled' # None
          PROVE  /\ \A q \in Replicas : ring'[q] \in {config, Off}
                 /\ \A s \in issued : s.kid # config.active => s.exp <= settled' + MaxTTL
        <3>1. CASE settled # None
            BY <1>1, <1>2, <1>6, <2>1, <3>1 DEF Rotating
        <3>2. CASE settled = None
            <4>1. settled' = now /\ \A q \in Replicas : ring'[q] = config
                BY <1>1, <1>3, <2>5, <3>2 DEF AllLoaded
            <4>2. ASSUME NEW s \in issued
                  PROVE  s.exp <= now + MaxTTL
                <5>1. s.exp \in Nat /\ s.nbf \in Nat /\ now \in Nat /\ MaxTTL \in Nat
                    BY DEF TypeOK, SessionTokens, Times
                <5> QED
                    BY <5>1 DEF IssuedByRight
            <4> QED
                BY <4>1, <4>2
        <3> QED
            BY <3>1, <3>2
    <2>6. \A q \in Replicas : ring'[q] # Off => config.active \in ring'[q].keys
        BY <1>2, <2>1, <2>2
    <2>7. Rotating'
        BY <1>3, <2>2, <2>3, <2>5, <2>6 DEF Rotating
    <2> QED
        BY <1>3, <1>6, <2>4, <2>7 DEF Laboratory
<1> QED
    BY <1>5, <1>6

(***************************************************************************)
(* The invariant                                                           *)
(***************************************************************************)

\* Initially nothing is issued and every replica has the one key there is.
LEMMA AccessInit ==
    Init => AccessInv
<1> SUFFICES ASSUME Init PROVE AccessInv
    OBVIOUS
<1> USE AccessConstants, AccessValues
<1>1. IsFiniteSet(issued) /\ Cardinality(issued) = 0
    BY FS_EmptySet DEF Init
<1>2. CASE \E k \in Kids : /\ config = [keys |-> {k}, active |-> k]
                          /\ ring = [r \in Replicas |-> config]
                          /\ settled = 0
    <2>1. PICK k \in Kids : /\ config = [keys |-> {k}, active |-> k]
                            /\ ring = [r \in Replicas |-> config]
                            /\ settled = 0
        BY <1>2
    <2>2. config \in Rings /\ config.keys = {k} /\ config.active = k
        BY <2>1 DEF Rings
    <2>3. \A r \in Replicas : ring[r] = config /\ ring[r] # Off
        BY <2>1, <2>2
    <2>4. Live \subseteq {k}
        BY <2>2, <2>3 DEF Live, Init
    <2>5. TypeOK
        <3>1. ring \in [Replicas -> Rings \cup {Off}] /\ settled \in Nat
            BY <2>1, <2>2
        <3> QED
            BY <1>1, <2>2, <3>1 DEF Init, TypeOK, Times
    <2>6. OneJob /\ IssuedByRight /\ req = None
        BY <2>3 DEF Init, OneJob, IssuedByRight
    <2>7. Readable /\ Laboratory /\ Rotating
        BY <2>2, <2>3, <2>4 DEF Readable, Laboratory, Rotating, Init
    <2> QED
        BY <1>1, <2>5, <2>6, <2>7 DEF AccessInv
<1>3. CASE /\ config = [keys |-> {}, active |-> None]
           /\ ring = [r \in Replicas |-> LabDefault]
           /\ settled = None
    <2>1. LabDefault \in Rings /\ LabDefault.keys = {LabKid} /\ LabDefault.active = LabKid
        BY DEF LabDefault, Rings
    <2>2. config \in Rings /\ config.keys = {}
        BY <1>3 DEF Rings
    <2>3. \A r \in Replicas : ring[r] = LabDefault /\ ring[r] # Off
        BY <1>3, <2>1
    <2>4. Live \subseteq {LabKid}
        BY <2>1, <2>3 DEF Live, Init
    <2>5. TypeOK
        <3>1. ring \in [Replicas -> Rings \cup {Off}]
            BY <1>3, <2>1
        <3> QED
            BY <1>1, <1>3, <2>2, <3>1 DEF Init, TypeOK, Times
    <2>6. OneJob /\ IssuedByRight /\ req = None
        BY <2>3 DEF Init, OneJob, IssuedByRight
    <2>7. Readable /\ Laboratory /\ Rotating
        BY <1>3, <2>1, <2>2, <2>3, <2>4 DEF Readable, Laboratory, Rotating, Init
    <2> QED
        BY <1>1, <2>5, <2>6, <2>7 DEF AccessInv
<1> QED
    BY <1>2, <1>3 DEF Init

\* Each step leads from a state with AccessInv to another one.
LEMMA AccessStep ==
    ASSUME AccessInv, [Next]_vars
    PROVE  AccessInv'
<1>1. (Readable /\ Laboratory /\ Rotating)'
    <2>1. ASSUME NEW r \in Replicas, Boot(r)
          PROVE  (Readable /\ Laboratory /\ Rotating)'
        BY <2>1, BootStep
    <2>2. CASE AddKey \/ SwitchKey \/ RemoveKey
        BY <2>2, RotationStep
    <2>3. CASE UNCHANGED <<config, settled, ring>>
        BY <2>3, KeysStay
    <2> QED
        BY <2>1, <2>2, <2>3 DEF Next, vars, ArriveEvents, ArriveIssue, Admit, IssueSessionToken,
            Leave, Create, SetGraceUntil, Revoke, Tick
<1> QED
    BY <1>1, TypeStep, OneJobStep, IssuedByRightStep, CarriesRightStep DEF AccessInv

\* AccessInv holds in every state of every behaviour.
THEOREM AccessInvariance == Spec => []AccessInv
<1>1. Init => AccessInv
    BY AccessInit
<1>2. AccessInv /\ [Next]_vars => AccessInv'
    BY AccessStep
<1> QED
    BY <1>1, <1>2, PTL DEF Spec

\* The variables have their types, and the issued tokens stay within their bound.
THEOREM TypeCorrect == Spec => []TypeOK
<1>1. AccessInv => TypeOK
    BY DEF AccessInv
<1> QED
    BY <1>1, AccessInvariance, PTL

\* What an accepted request was let in by goes back, without a gap, to a good
\* project token of its project (handler.go serve, authorizeAndAdmit).
THEOREM AdmissionIsByRight == Spec => []AdmittedByRight
<1>1. ASSUME AccessInv
      PROVE  AdmittedByRight
    <2>1. SUFFICES ASSUME req # None, req.stage = "accepted"
                   PROVE  /\ req.origin \in Allowed \cup {None}
                          /\ req.legacy # None \/ req.bearer # None
                          /\ req.right
                          /\ req.legacy # None => Owner(req.legacy) = req.project
                          /\ req.bearer # None =>
                                /\ req.bearer.sub = req.project
                                /\ Owner(req.bearer.by) = req.project
                                /\ req.bearer.origin \in {None, req.origin}
        BY DEF AdmittedByRight
    <2>2. CarriesRight /\ IssuedByRight /\ req \in Requests
        BY <1>1, <2>1 DEF AccessInv, TypeOK
    <2>3. req.kind = "events"
        BY <2>1, <2>2 DEF CarriesRight, Requests
    <2>4. req.bearer # None => Bound(req.bearer.by, req.bearer.sub)
        BY <2>2 DEF CarriesRight, IssuedByRight
    <2> QED
        BY <2>1, <2>2, <2>3, <2>4 DEF CarriesRight, Bound
<1> QED
    BY <1>1, AccessInvariance, PTL

\* A rotation of tokens or of keys locks nobody out: a good project token is
\* good on every replica, a session token until its end on every replica that
\* has keys, alone and with a good project token (auth_service.go, main.go
\* buildAuthSessionService).
THEOREM NobodyIsLockedOut == Spec => []NeverLockedOut
<1>1. ASSUME AccessInv
      PROVE  NeverLockedOut
    <2> USE AccessConstants, <1>1 DEF AccessInv
    <2> SUFFICES ASSUME NEW r \in Replicas
                 PROVE  /\ \A c \in Credentials :
                              Right(c, now) /\ Owner(c) \in Known => Served(r, None, c, None)
                        /\ ring[r] # Off =>
                              \A s \in issued :
                                  now < s.exp /\ s.origin \in Allowed \cup {None} =>
                                      /\ Served(r, s, None, s.origin)
                                      /\ \A c \in Credentials :
                                            Right(c, now) /\ Owner(c) = s.sub =>
                                                Served(r, s, c, s.origin)
        BY DEF NeverLockedOut
    <2>1. None \notin Known /\ None \notin Credentials
        BY DEF Credentials
    <2>2. ASSUME NEW c \in Credentials, Right(c, now), Owner(c) \in Known
          PROVE  ResolveByToken(c) = Owner(c) /\ Owner(c) # None /\ c # None
        BY <2>1, <2>2, TokensResolve
    <2>3. ASSUME NEW c \in Credentials, Right(c, now), Owner(c) \in Known
          PROVE  Served(r, None, c, None)
        BY <2>2, <2>3 DEF Served, HeadersPass, Parse, ApplyLegacyHeader, AuthorizeAndAdmit
    <2>4. ASSUME ring[r] # Off, NEW s \in issued, now < s.exp, s.origin \in Allowed \cup {None},
                 NEW c \in Credentials \cup {None},
                 c # None => Right(c, now) /\ Owner(c) = s.sub
          PROVE  Served(r, s, c, s.origin)
        <3>1. s \in SessionTokens /\ s # None /\ s.sub \in Known
            BY AccessValues DEF TypeOK, SessionTokens
        <3>2. s.kid \in ring[r].keys /\ s.kid # None
            <4>1. s.kid \in Live
                BY <2>4 DEF Live
            <4>2. s.kid \in Kids \cup {LabKid}
                BY <3>1 DEF SessionTokens
            <4>3. LabKid # None
                OBVIOUS
            <4> QED
                BY <2>4, <4>1, <4>2, <4>3 DEF Readable
        <3>3. ResolveSessionToken(r, s, s.origin) = s.sub
            BY <2>4, <3>1, <3>2 DEF ResolveSessionToken, Verify, LookupSigningKey, AllVerifyKeys,
                ValidateClaimsTime, ValidateClaimsOrigin, ResolveByID, IssuedByRight
        <3>4. ApplyLegacyHeader(c, s.sub)
            BY <2>1, <2>2, <2>4, <3>1 DEF ApplyLegacyHeader
        <3>5. HeadersPass(r, s, c, s.origin)
            BY <2>1, <2>4, <3>1, <3>3, <3>4 DEF HeadersPass, Parse
        <3>6. AuthorizeAndAdmit(s, c, s.origin) # None
            BY <2>1, <2>4, <3>1 DEF AuthorizeAndAdmit
        <3> QED
            BY <3>5, <3>6 DEF Served
    <2> QED
        BY <2>1, <2>3, <2>4
<1> QED
    BY <1>1, AccessInvariance, PTL
=============================================================================
