------------------------------- MODULE Access -------------------------------
(***************************************************************************)
(* Who may send events for a project, and for how long.                    *)
(*                                                                         *)
(* A request names its project by a project token, by a session token, or  *)
(* by both.  A project token is the configured one of the project, which   *)
(* has no end, or a generation kept in the database, which an operator     *)
(* creates, rotates and revokes while requests are under way.  A session   *)
(* token is signed for a short time on request of a project token, with    *)
(* the active key of the replica that signs it, and verified with any key  *)
(* of the replica that reads it.  A replica loads its keys when it         *)
(* starts; the operator changes them by restarting one after the other.    *)
(*                                                                         *)
(* One request is followed at a time: requests only read what the          *)
(* operator writes, and what they issue stays for the next one.            *)
(* A definition under a comment in parentheses is what its neighbour would *)
(* be with one plausible mistake; no action uses it.                       *)
(***************************************************************************)
EXTENDS Integers, FiniteSets

CONSTANTS Projects,    \* that generations in the database belong to
          Known,       \* the configured projects: each stands for its configured token
          Tokens,      \* generations; what is not created yet is an unknown token
          Kids,        \* ids of signing keys
          LabKid,      \* the key of the laboratory default
          Replicas, Origins,
          Allowed,     \* the origins of the configured projects
          Lives,       \* for how long generations are created, None for no end
          MaxTTL,      \* MaxSessionTokenTTLSeconds
          CreateBy, MaxTime, MaxIssued,      \* bounds: of time, of creation, of session tokens
          None, Off    \* no value; a replica whose keys could not be loaded

ASSUME AccessConstants ==
    /\ Known \subseteq Projects /\ Allowed \subseteq Origins /\ LabKid \notin Kids
    /\ MaxTTL \in Nat \ {0} /\ MaxTime \in Nat /\ MaxIssued \in Nat
    /\ None \notin Projects \cup Tokens \cup Kids \cup {LabKid} \cup Origins

VARIABLES now,       \* seconds; the replicas' clocks agree
          gens,      \* project_token_generations, None for a token without a row
          config,    \* the keys and the active key id in the secret backend
          settled,   \* when every replica had loaded config, None before
          ring,      \* what each replica loaded when it started, or Off
          issued,    \* the session tokens signed so far
          req,       \* the request followed, None between two of them
          work       \* what the operator works on: "tokens" or "keys"
vars == <<now, gens, config, settled, ring, issued, req, work>>

Times == Nat
Generations == [project : Projects, notBefore : Times, graceUntil : Times \cup {None},
                expiresAt : Times \cup {None}, revokedAt : Times \cup {None}]
Rings == [keys : SUBSET (Kids \cup {LabKid}), active : Kids \cup {LabKid, None}]
Credentials == Projects \cup Tokens
SessionTokens == [sub : Known, kid : Kids \cup {LabKid}, nbf : Times, exp : Times,
                  origin : Origins \cup {None},
                  by : Credentials, right : BOOLEAN]   \* who asked for it, and with what right
\* no value is mistaken for a row, a token or a set of keys
ASSUME AccessValues ==
    /\ Lives \subseteq Nat \cup {None}
    /\ None \notin Generations /\ None \notin SessionTokens
    /\ None \notin Rings /\ Off \notin Rings

Requests == [kind : {"events", "issue"}, replica : Replicas,
             bearer : SessionTokens \cup {None}, legacy : Credentials \cup {None},
             origin : Origins \cup {None}, project : Known \cup {None},
             right : BOOLEAN,          \* that of what it carries, when the headers arrived
             stage : {"parsed", "accepted"}]

TypeOK ==
    /\ now \in 0 .. MaxTime
    /\ gens \in [Tokens -> Generations \cup {None}]
    /\ config \in Rings /\ settled \in Times \cup {None}
    /\ ring \in [Replicas -> Rings \cup {Off}]
    /\ issued \subseteq SessionTokens /\ Cardinality(issued) <= MaxIssued
    /\ req \in Requests \cup {None}
    /\ work \in {"tokens", "keys"}

-----------------------------------------------------------------------------
(* Project tokens                                                          *)

Owner(c) == IF c \in Tokens THEN gens[c].project ELSE c

Before(t, end) == end = None \/ t < end

\* (grace looked at before the revocation)
EvaluateProjectTokenStatusGraceFirst(g, t) ==
    IF g.graceUntil # None /\ t < g.graceUntil THEN "grace"
    ELSE IF ~Before(t, g.revokedAt) THEN "revoked"
    ELSE IF ~Before(t, g.expiresAt) \/ g.graceUntil # None THEN "expired"
    ELSE IF t < g.notBefore THEN "not_yet_valid" ELSE "active"

EvaluateProjectTokenStatus(g, t) ==
    IF ~Before(t, g.revokedAt) THEN "revoked"
    ELSE IF ~Before(t, g.expiresAt) THEN "expired"
    ELSE IF t < g.notBefore THEN "not_yet_valid"
    ELSE IF g.graceUntil = None THEN "active"
    ELSE IF t < g.graceUntil THEN "grace"
    ELSE IF g.expiresAt = None THEN "expired" ELSE "active"

\* each request evaluates the status anew from the row it reads
CanAuthenticate(g, t) == EvaluateProjectTokenStatus(g, t) \in {"active", "grace"}

ResolveByID(p) == IF p \in Known THEN p ELSE None

FindByHash(t) == gens[t]

\* an unknown, ended or early generation, and one of a project no longer configured
ResolveRotatingToken(t) ==
    LET g == FindByHash(t)
    IN  IF g # None /\ CanAuthenticate(g, now) THEN ResolveByID(g.project) ELSE None

ResolveByToken(c) == IF c \in Tokens THEN ResolveRotatingToken(c) ELSE ResolveByID(c)

-----------------------------------------------------------------------------
(* Signing keys                                                            *)

\* a list without the active key stops the loading, no list at all is told apart
ParseSigningKeysEnv(c) ==
    IF c.keys = {} THEN None ELSE IF c.active \in c.keys THEN c ELSE Off

\* the laboratory default, for those who opted in to it
LabDefault == [keys |-> {LabKid}, active |-> LabKid]

EnvLoad ==
    LET parsed == ParseSigningKeysEnv(config)
    IN  IF parsed = None THEN {LabDefault, Off} ELSE {parsed}

\* the login or the read may fail, and there is no default to fall back on
Fetched(parsed) == {Off} \cup (IF parsed = None THEN {} ELSE {parsed})
VaultLoad == Fetched(ParseSigningKeysEnv(config))
KmsLoad == Fetched(ParseSigningKeysEnv(config))

\* which backend the deployment uses is left open; keys are loaded at the start only
BuildAuthSessionService == EnvLoad \cup VaultLoad \cup KmsLoad

ActiveSigningKey(r) == ring[r].active

\* (only the key that signs, as before there were several)
AllVerifyKeysActive(r) == {ring[r].active}

AllVerifyKeys(r) == ring[r].keys

-----------------------------------------------------------------------------
(* Session tokens                                                          *)

EffectiveMaxTTLSeconds == MaxTTL

\* nothing asked for gives the longest, too much is refused
ResolveTTLSeconds(asked) ==
    IF asked = 0 THEN EffectiveMaxTTLSeconds
    ELSE IF asked > EffectiveMaxTTLSeconds THEN None ELSE asked

BuildSessionTokenClaims(p, ttl, org) == [sub |-> p, nbf |-> now, exp |-> now + ttl, origin |-> org]

Sign(r, claims, by, right) ==
    [sub |-> claims.sub, nbf |-> claims.nbf, exp |-> claims.exp, origin |-> claims.origin,
     kid |-> ActiveSigningKey(r), by |-> by, right |-> right]

LookupSigningKey(r, kid) == IF kid \in AllVerifyKeys(r) THEN kid ELSE None

\* only what some replica signed carries a signature that matches its key
Verify(r, s) == LookupSigningKey(r, s.kid) # None

ValidateClaimsTime(s) == s.nbf <= now /\ now < s.exp
ValidateClaimsOrigin(s, org) == s.origin = None \/ s.origin = org

\* the project of the token, None when the token is refused
ResolveSessionToken(r, s, org) ==
    IF Verify(r, s) /\ ValidateClaimsTime(s) /\ ValidateClaimsOrigin(s, org)
    THEN ResolveByID(s.sub) ELSE None

-----------------------------------------------------------------------------
(* Requests                                                                *)

\* the two headers that carry a session token must agree
PickSessionToken(bearer, header) == IF bearer # None THEN bearer ELSE header
HeadersAgree(bearer, header) == bearer = None \/ header = None \/ bearer = header


\* a second credential must be good as well, and be one of the same project
ApplyLegacyHeader(legacy, resolved) ==
    \/ legacy = None
    \/ LET p == ResolveByToken(legacy) IN p # None /\ (resolved = None \/ resolved = p)

\* whether the headers pass, for a replica with its keys
Parse(r, s, legacy, org) ==
    LET resolved == IF s = None THEN None ELSE ResolveSessionToken(r, s, org)
    IN  /\ s # None \/ legacy # None
        /\ s # None => resolved # None
        /\ ApplyLegacyHeader(legacy, resolved)

\* without keys only the presence of the project token is looked at, not the session token
HeadersPass(r, s, legacy, org) ==
    IF ring[r] = Off THEN legacy # None ELSE Parse(r, s, legacy, org)

\* the session token's project counts as resolved, a project token is resolved again
AuthorizeAndAdmit(s, legacy, org) ==
    LET p == IF s # None THEN s.sub ELSE ResolveByToken(legacy)
    IN  IF p # None /\ org \in Allowed \cup {None} THEN p ELSE None

\* What the row of a token promises for the moment t, kept beside each request for the properties:
\* with an end of its own it is good past its grace, as the code has it and the contract has not.
Right(c, t) ==
    c \in Tokens =>
        /\ gens[c] # None
        /\ gens[c].notBefore <= t
        /\ Before(t, gens[c].revokedAt) /\ Before(t, gens[c].expiresAt)
        /\ Before(t, gens[c].graceUntil) \/ gens[c].expiresAt # None

Request(kind, r, s, legacy, org, p, stage) ==
    [kind |-> kind, replica |-> r, bearer |-> s, legacy |-> legacy,
     origin |-> org, project |-> p, stage |-> stage,
     right |-> /\ legacy # None => Right(legacy, now)
               /\ s # None => s.right /\ s.nbf <= now /\ now < s.nbf + MaxTTL]

\* The headers of a batch of events are read, its body is still on its way.
\* Headers that do not pass are answered at once and change nothing.
ArriveEvents(r) ==
    /\ req = None
    /\ \E bearer \in issued \cup {None}, header \in issued \cup {None},
          legacy \in Credentials \cup {None}, org \in Origins \cup {None} :
          LET s == IF ring[r] = Off THEN None ELSE PickSessionToken(bearer, header) IN
          /\ ring[r] # Off => HeadersAgree(bearer, header)
          /\ HeadersPass(r, s, legacy, org)
          /\ req' = Request("events", r, s, legacy, org, None, "parsed")
    /\ UNCHANGED <<now, gens, config, settled, ring, issued, work>>

\* the body has come; admitted unless a limit or the batch itself is in the way
Admit ==
    /\ req # None /\ req.kind = "events" /\ req.stage = "parsed"
    /\ LET p == AuthorizeAndAdmit(req.bearer, req.legacy, req.origin) IN
          /\ p # None
          /\ req' = [req EXCEPT !.stage = "accepted", !.project = p]
    /\ UNCHANGED <<now, gens, config, settled, ring, issued, work>>

ConsistentProject(asked, resolved) == asked = None \/ asked = resolved

\* the only audience of the policy built from a configured project
AllowsAudience(audience) == audience = "playback-events"

\* the asker's project comes from its project token, which a session token cannot replace
ResolveProjectFromMTraceToken(legacy) == ResolveByToken(legacy)

\* a session token is asked for with a project token; a replica without keys has no such route
ArriveIssue(r) ==
    /\ req = None /\ ring[r] # Off
    /\ \E legacy \in Credentials :
          /\ ResolveProjectFromMTraceToken(legacy) # None
          /\ req' = Request("issue", r, None, legacy, None, ResolveProjectFromMTraceToken(legacy), "parsed")
    /\ UNCHANGED <<now, gens, config, settled, ring, issued, work>>

\* Asked are the project, the audience, the lifetime and the origin to bind; an origin that no
\* project allows may be asked for as well, but no request from it is ever admitted.
IssueSessionToken ==
    /\ req # None /\ req.kind = "issue" /\ Cardinality(issued) < MaxIssued
    /\ \E project \in Known \cup {None}, audience \in {"playback-events", "other"},
          asked \in 0 .. MaxTTL + 1, org \in Allowed \cup {None} :
          LET ttl == ResolveTTLSeconds(asked) IN
          /\ ConsistentProject(project, req.project)
          /\ AllowsAudience(audience)
          /\ ttl # None
          /\ issued' = issued \cup {Sign(req.replica, BuildSessionTokenClaims(req.project, ttl, org),
                                         req.legacy, req.right)}
    /\ req' = None
    /\ UNCHANGED <<now, gens, config, settled, ring, work>>

\* the request is refused, or answered
Leave ==
    /\ req # None
    /\ req' = None
    /\ UNCHANGED <<now, gens, config, settled, ring, issued, work>>

-----------------------------------------------------------------------------
(* The operator                                                            *)

GenerateProjectToken(p, notBefore, expiresAt) ==
    [project |-> p, notBefore |-> notBefore, graceUntil |-> None,
     expiresAt |-> expiresAt, revokedAt |-> None]

\* a second row with the same token or id is refused
Taken(t) == gens[t] # None

Create(t) ==
    /\ work = "tokens" /\ now <= CreateBy
    /\ ~Taken(t)
    /\ \E p \in Projects, wait \in {0, 1}, life \in Lives :
          gens' = [gens EXCEPT ![t] = GenerateProjectToken(p, now + wait,
                                          IF life = None THEN None ELSE now + life)]
    /\ UNCHANGED <<now, config, settled, ring, issued, req, work>>

\* may be done again, with a later end
SetGraceUntil(t) ==
    /\ work = "tokens" /\ gens[t] # None
    /\ gens' = [gens EXCEPT ![t].graceUntil = now + 1]
    /\ UNCHANGED <<now, config, settled, ring, issued, req, work>>

Revoke(t) ==
    /\ work = "tokens" /\ gens[t] # None
    /\ gens' = [gens EXCEPT ![t].revokedAt = now]
    /\ UNCHANGED <<now, config, settled, ring, issued, req, work>>

AllLoaded(rings) == \A r \in Replicas : rings[r] = config

\* the first, second and third step of the documented rotation
AddKey ==
    /\ work = "keys" /\ settled # None /\ Cardinality(config.keys) = 1
    /\ \E k \in Kids \ config.keys : config' = [config EXCEPT !.keys = @ \cup {k}]
    /\ settled' = None
    /\ UNCHANGED <<now, gens, ring, issued, req, work>>

SwitchKey ==
    /\ work = "keys" /\ settled # None /\ Cardinality(config.keys) = 2
    /\ \E k \in config.keys \ {config.active} : config' = [config EXCEPT !.active = k]
    /\ settled' = None
    /\ UNCHANGED <<now, gens, ring, issued, req, work>>

RemoveKey ==
    /\ work = "keys" /\ settled # None /\ now >= settled + MaxTTL /\ Cardinality(config.keys) = 2
    /\ config' = [config EXCEPT !.keys = {config.active}]
    /\ settled' = None
    /\ UNCHANGED <<now, gens, ring, issued, req, work>>

\* a replica starts with what the secret backend has now; its request is lost
Boot(r) ==
    /\ work = "keys"
    /\ \E loaded \in BuildAuthSessionService :
          /\ ring' = [ring EXCEPT ![r] = loaded]
          /\ settled' = IF settled = None /\ AllLoaded([ring EXCEPT ![r] = loaded])
                        THEN now ELSE settled
    /\ req' = IF req # None /\ req.replica = r THEN None ELSE req
    /\ UNCHANGED <<now, gens, config, issued, work>>

Tick ==
    /\ now < MaxTime
    /\ now' = now + 1
    /\ UNCHANGED <<gens, config, settled, ring, issued, req, work>>

\* with one key, or with none and the laboratory default
Init ==
    /\ now = 0 /\ gens = [t \in Tokens |-> None] /\ issued = {} /\ req = None
    /\ work \in {"tokens", "keys"}
    /\ \/ \E k \in Kids : /\ config = [keys |-> {k}, active |-> k]
                          /\ ring = [r \in Replicas |-> config]
                          /\ settled = 0
       \/ /\ config = [keys |-> {}, active |-> None]
          /\ ring = [r \in Replicas |-> LabDefault]
          /\ settled = None

Next ==
    \/ \E r \in Replicas : ArriveEvents(r) \/ ArriveIssue(r) \/ Boot(r)
    \/ Admit \/ IssueSessionToken \/ Leave
    \/ \E t \in Tokens : Create(t) \/ SetGraceUntil(t) \/ Revoke(t)
    \/ AddKey \/ SwitchKey \/ RemoveKey
    \/ Tick

Spec == Init /\ [][Next]_vars

-----------------------------------------------------------------------------
(* Properties                                                              *)

(* What an accepted request was let in by goes back, without a gap, to a   *)
(* project token of that very project that was good at the time: the one   *)
(* it came with, when its headers arrived, or the one its session token    *)
(* was asked for with, no longer than the longest lifetime before.  Both   *)
(* hold when it came with both (handler.go serve, authorizeAndAdmit).      *)
(* Good is what the code takes for good: a rotated token with an end of    *)
(* its own up to that end, although the contract ends it with its grace    *)
(* (see GraceEnds).                                                        *)
AdmittedByRight ==
    req # None /\ req.stage = "accepted" =>
        /\ req.origin \in Allowed \cup {None}
        /\ req.legacy # None \/ req.bearer # None
        /\ req.right
        /\ req.legacy # None => Owner(req.legacy) = req.project
        /\ req.bearer # None =>
              /\ req.bearer.sub = req.project /\ Owner(req.bearer.by) = req.project
              /\ req.bearer.origin \in {None, req.origin}

Served(r, s, legacy, org) == HeadersPass(r, s, legacy, org) /\ AuthorizeAndAdmit(s, legacy, org) # None

(* A rotated generation is good until the end of its grace, and not after  *)
(* it (backend-api-contract.md: "bleibt die alte Generation gueltig, bis   *)
(* das persistierte `grace_until` erreicht ist").  The code lets it go on  *)
(* when it has an end of its own as well.                                  *)
GraceEnds ==
    \A t \in Tokens, r \in Replicas :
        gens[t] # None => (Before(now, gens[t].graceUntil) \/ ~HeadersPass(r, None, t, None) \/ ring[r] = Off)

(* Nobody is locked out by a rotation: a project token is good everywhere  *)
(* until its own end, and a session token until its own, on every replica  *)
(* that has keys, whichever step of the key rotation each of them has      *)
(* seen, alone and together with a good token of its project.  The end of  *)
(* a rotated token is that of the code, expires_at even past its grace,    *)
(* which the contract refuses (see GraceEnds).                             *)
NeverLockedOut ==
    \A r \in Replicas :
        /\ \A c \in Credentials :
              Right(c, now) /\ Owner(c) \in Known => Served(r, None, c, None)
        /\ ring[r] # Off =>
              \A s \in issued :
                  now < s.exp /\ s.origin \in Allowed \cup {None} =>
                      /\ Served(r, s, None, s.origin)
                      /\ \A c \in Credentials :
                            Right(c, now) /\ Owner(c) = s.sub => Served(r, s, c, s.origin)
=============================================================================
