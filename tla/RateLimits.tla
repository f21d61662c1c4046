------------------------------ MODULE RateLimits ------------------------------
(***************************************************************************)
(* The rate limiters: of ingested events by project, client address and    *)
(* origin, of the session tokens issued, and of requests by client         *)
(* address, each in memory or shared by the replicas in Redis or SQLite.   *)
(*                                                                         *)
(* A call is one step: it runs under a mutex, in one immediate transaction *)
(* or as one script.  What can go wrong lies around it: replicas call with *)
(* clocks of their own, which they read before the transaction or script   *)
(* begins, so that calls run in another order than their times; the store  *)
(* cannot be reached or its answer is lost, it loses its data, a replica   *)
(* restarts, idle buckets are removed.                                     *)
(*                                                                         *)
(* ideal is what a bucket that sees the true time would hold after the     *)
(* same grants; a negative value is a grant it would have refused.  No     *)
(* action reads it.  Capacities and rates are the same for all replicas,   *)
(* whose clocks differ by a constant.  time is the earliest reading a call *)
(* that runs now may have taken.  The buckets in Redis and those in        *)
(* the memory of each replica know nothing of each other: a behaviour      *)
(* follows those of one store.                                             *)
(* A definition under a comment in parentheses is what its neighbour would *)
(* be with one plausible mistake; no action uses it.                       *)
(***************************************************************************)
EXTENDS Integers, SequencesExt

CONSTANTS
  Limiters,        \* those to choose from
  Replicas,
  Clients,         \* [project, address, origin] of the callers, None where empty
  Batches,         \* numbers of events in a batch
  Capacity,        \* tokens of a bucket, and of the global one
  GlobalCapacity,
  Unit,            \* a token, in the unit of
  Refill,          \* what a tick refills
  TTL,             \* after which an idle bucket may go
  Skew,            \* by how much the clocks differ and a call waits at most, together
  MaxTime,
  None

ASSUME LimitersAssumption ==
  Limiters \subseteq {"ingest_memory", "ingest_redis", "issuance_memory", "issuance_sqlite",
                      "issuance_redis", "origin_memory", "origin_redis"}
ASSUME NumbersAssumption ==
  /\ {Capacity, GlobalCapacity, Unit, Refill} \subseteq Nat \ {0}
  /\ {TTL, Skew, MaxTime} \subseteq Nat /\ Batches \subseteq Nat \ {0}
ASSUME NoneAssumption == None \notin [tokens : Nat, last : Nat, touched : Nat]
\* By then a bucket is full: 24 hours or 10 minutes, against seconds.
ASSUME TTLAssumption ==
  Unit * Capacity <= Refill * (TTL - Skew) /\ Unit * GlobalCapacity <= Refill * (TTL - Skew)

Global == <<"global">>
Keys == {Global} \cup {<<"project", c.project>> : c \in Clients}
          \cup {<<"ip", c.address>> : c \in {d \in Clients : d.address # None}}
          \cup {<<"origin", c.origin>> : c \in {d \in Clients : d.origin # None}}
Full(k) == Unit * (IF k = Global THEN GlobalCapacity ELSE Capacity)

VARIABLES
  limiter,  \* which limiter it is
  store,    \* whose buckets are followed: a replica's own, or the shared ones
  up,       \* Redis answers
  time,
  offset,   \* by how much a reading of each replica is ahead at most
  buckets,  \* [tokens, last, touched] of each, or None
  ideal

environment == <<limiter, store, up, time, offset>>
vars == <<environment, buckets, ideal>>

InMemory == limiter \in {"ingest_memory", "issuance_memory", "origin_memory"}
OnRedis  == limiter \in {"ingest_redis", "issuance_redis", "origin_redis"}
Own      == store = "own"
Shared   == store = "shared"

NoBuckets == [k \in Keys |-> None]
AllFull   == [k \in Keys |-> Full(k)]

\* A limiter in Redis that fails open has buckets of its own as well.
Init ==
  /\ limiter \in Limiters
  /\ store \in IF InMemory THEN {"own"} ELSE IF OnRedis THEN {"own", "shared"} ELSE {"shared"}
  /\ up = TRUE /\ time = 0
  /\ offset \in IF Own THEN {[r \in Replicas |-> 0]} ELSE [Replicas -> 0 .. Skew]
  /\ buckets = NoBuckets /\ ideal = AllFull

(***************************************************************************)
(* A bucket.  An unknown one is full.                                      *)
(***************************************************************************)
Tokens(b, k, now) ==
  IF b = None THEN Full(k)
  ELSE IF now > b.last THEN Min({Full(k), b.tokens + (now - b.last) * Refill}) ELSE b.tokens

\* Which time is stored with it: the later one, or always the caller's.
Later(b, now)       == IF b = None \/ now > b.last THEN now ELSE b.last
Stamp(rule, b, now) == IF rule = "callers" THEN now ELSE Later(b, now)

Stored(bs, ks, n, now, rule) ==
  [k \in Keys |->
     IF k \in ToSet(ks)
     THEN [tokens |-> Tokens(bs[k], k, now) - n * Unit, last |-> Stamp(rule, bs[k], now), touched |-> time]
     ELSE bs[k]]

Lacking(bs, ks, n, now) == {i \in DOMAIN ks : Tokens(bs[ks[i]], ks[i], now) < n * Unit}

\* Buckets are dropped that were idle for longer than TTL.
Swept(bs, now) ==
  [k \in Keys |-> IF bs[k] # None /\ now - bs[k].last > TTL THEN None ELSE bs[k]]

(***************************************************************************)
(* Ingest: n tokens of each bucket of the batch, or none of any.           *)
(***************************************************************************)
BuildKeys(c) ==
  SelectSeq(<<<<"project", c.project>>, <<"ip", c.address>>, <<"origin", c.origin>>>>,
            LAMBDA k : k[2] # None)

Granted(ks, n, bs) == [ok |-> TRUE,  keys |-> ks, n |-> n, buckets |-> bs]
Refused(ks, n, bs) == [ok |-> FALSE, keys |-> ks, n |-> n, buckets |-> bs]

\* Those up to the first that lacks tokens are refilled even so.
TokenBucketAllow(bs, ks, n, now) ==
  LET lacking == Lacking(bs, ks, n, now) IN
  IF lacking = {}
  THEN Granted(ks, n, Stored(bs, ks, n, now, "later"))
  ELSE Refused(ks, n, Stored(bs, SubSeq(ks, 1, Min(lacking)), 0, now, "later"))

\* The script writes nothing when it refuses, but the keys live on.
\* (the caller's time is stored)
RedisIngestScriptCallers(bs, ks, n, now) ==
  IF Lacking(bs, ks, n, now) = {}
  THEN Granted(ks, n, Stored(bs, ks, n, now, "callers"))
  ELSE Refused(ks, n, [k \in Keys |-> IF k \in ToSet(ks) /\ bs[k] # None
                                      THEN [bs[k] EXCEPT !.touched = time] ELSE bs[k]])
RedisIngestScript(bs, ks, n, now) ==
  IF Lacking(bs, ks, n, now) = {}
  THEN Granted(ks, n, Stored(bs, ks, n, now, "later"))
  ELSE Refused(ks, n, [k \in Keys |-> IF k \in ToSet(ks) /\ bs[k] # None
                                      THEN [bs[k] EXCEPT !.touched = time] ELSE bs[k]])

(***************************************************************************)
(* Issuance: one token of the global bucket, then one of the project's; if *)
(* there is none the global bucket gets its token back.                    *)
(***************************************************************************)
IssuanceKeys(c) == <<Global, <<"project", c.project>>>>

\* A token of one bucket; without one, it is refilled even so.
Consume(bs, k, now, rule) ==
  IF Lacking(bs, <<k>>, 1, now) = {}
  THEN Granted(<<k>>, 1, Stored(bs, <<k>>, 1, now, rule))
  ELSE Refused(<<k>>, 1, Stored(bs, <<k>>, 0, now, rule))

\* (nothing is given back)
RefundNothing(bs) == bs
Refund(bs) == [bs EXCEPT ![Global].tokens = Min({Full(Global), @ + Unit})]

\* rule says which time is stored.
TakeBoth(bs, c, now, rule) ==
  LET global  == Consume(bs, Global, now, rule)
      project == Consume(global.buckets, <<"project", c.project>>, now, rule)
  IN IF ~global.ok THEN Refused(IssuanceKeys(c), 1, global.buckets)
     ELSE IF project.ok THEN Granted(IssuanceKeys(c), 1, project.buckets)
     ELSE Refused(IssuanceKeys(c), 1, Refund(project.buckets))

IssuanceAllow(bs, c, now) == TakeBoth(bs, c, now, "later")
SqliteIssuanceAllow(bs, c, now, cleanup) ==
  TakeBoth(IF cleanup THEN Swept(bs, now) ELSE bs, c, now, "callers")
RedisIssuanceScript(bs, c, now) == TakeBoth(bs, c, now, "callers")

(***************************************************************************)
(* Requests by address: one token; without an address there is no limit.   *)
(***************************************************************************)
OriginKeys(c) == IF c.address = None THEN <<>> ELSE <<<<"ip", c.address>>>>

OriginAllow(bs, c, now, sweep) ==
  IF OriginKeys(c) = <<>> THEN Granted(<<>>, 1, bs)
  ELSE Consume(IF sweep THEN Swept(bs, now) ELSE bs, OriginKeys(c)[1], now, "later")
RedisOriginScript(bs, c, now) ==
  IF OriginKeys(c) = <<>> THEN Granted(<<>>, 1, bs)
  ELSE Consume(bs, OriginKeys(c)[1], now, "callers")

(***************************************************************************)
(* A replica calls.                                                        *)
(***************************************************************************)
Rewound(k) ==
  IF limiter = "ingest_redis" \/ buckets[k] = None \/ buckets'[k] = None THEN 0
  ELSE Max({0, buckets[k].last - buckets'[k].last})

Commit(call) ==
  /\ buckets' = call.buckets
  /\ ideal' = [k \in Keys |->
       Min({Full(k), ideal[k] + Refill * Rewound(k)})
         - (IF call.ok /\ k \in ToSet(call.keys) THEN call.n * Unit ELSE 0)]
  /\ UNCHANGED environment

\* What the limiter makes of a replica's own buckets, with the monotonic
\* clock, and the script of the shared ones, with the wall clock; sweep if
\* idle buckets are removed now.
OfMemory(c, n, sweep) ==
  CASE limiter \in {"ingest_memory", "ingest_redis"} ->
         TokenBucketAllow(buckets, BuildKeys(c), n, time)
    [] limiter \in {"issuance_memory", "issuance_redis"} -> IssuanceAllow(buckets, c, time)
    [] limiter \in {"origin_memory", "origin_redis"} -> OriginAllow(buckets, c, time, sweep)

\* What a replica's wall clock may have shown when a call that runs now read
\* it: the longer ago, the less.
Readings(r) == time .. time + offset[r]

OfScript(c, n, now) ==
  CASE limiter = "ingest_redis" -> RedisIngestScript(buckets, BuildKeys(c), n, now)
    [] limiter = "issuance_redis" -> RedisIssuanceScript(buckets, c, now)
    [] limiter = "origin_redis" -> RedisOriginScript(buckets, c, now)

Size(n) == n = 1 \/ (limiter \in {"ingest_memory", "ingest_redis"} /\ n \in Batches)

AllowInMemory(c, n) ==
  /\ InMemory /\ Size(n)
  /\ \E sweep \in {FALSE, limiter = "origin_memory"} : Commit(OfMemory(c, n, sweep))

AllowInSqlite(r, c) ==
  /\ limiter = "issuance_sqlite"
  /\ \E now \in Readings(r), cleanup \in BOOLEAN :
       Commit(SqliteIssuanceAllow(buckets, c, now, cleanup))

AllowInRedis(r, c, n) ==
  /\ OnRedis /\ Shared /\ up /\ Size(n)
  /\ \E now \in Readings(r) : Commit(OfScript(c, n, now))

\* Redis gives no answer, although it may have run the script: then its
\* buckets have been taken from, whatever the limiter decides.  For that it
\* uses its own if it fails open, and refuses otherwise.
Unanswered(r, c, n) ==
  /\ OnRedis /\ Size(n)
  /\ \/ Shared /\ up /\ \E now \in Readings(r) : Commit(OfScript(c, n, now))
     \/ \E sweep \in {FALSE, limiter = "origin_redis"} : Own /\ Commit(OfMemory(c, n, sweep))

\* A caller that has left: the ingest limiter decides without Redis.
Cancelled(c, n) ==
  /\ limiter = "ingest_redis" /\ Own /\ Size(n)
  /\ Commit(OfMemory(c, n, FALSE))

(***************************************************************************)
(* The environment.                                                        *)
(***************************************************************************)
Tick ==
  /\ time < MaxTime
  /\ time' = time + 1
  /\ ideal' = [k \in Keys |-> Min({Full(k), ideal[k] + Refill})]
  /\ UNCHANGED <<limiter, store, up, offset, buckets>>

Emptied == buckets' = NoBuckets /\ ideal' = AllFull

Restart == Own /\ Emptied /\ UNCHANGED environment

RedisGoes ==
  /\ OnRedis /\ Shared /\ up /\ up' = FALSE
  /\ UNCHANGED <<limiter, store, time, offset, buckets, ideal>>

\* With its data or without.
RedisReturns ==
  /\ ~up /\ up' = TRUE
  /\ UNCHANGED <<limiter, store, time, offset>>
  /\ Emptied \/ UNCHANGED <<buckets, ideal>>

\* Redis drops a key TTL after it was touched.
Expire(k) ==
  /\ OnRedis /\ Shared
  /\ buckets[k] # None /\ time - buckets[k].touched >= TTL
  /\ buckets' = [buckets EXCEPT ![k] = None]
  /\ UNCHANGED <<environment, ideal>>

Call(c, n) ==
  \/ AllowInMemory(c, n) \/ Cancelled(c, n)
  \/ \E r \in Replicas : AllowInRedis(r, c, n) \/ Unanswered(r, c, n)

Next ==
  \/ \E c \in Clients :
       (\E n \in {1} \cup Batches : Call(c, n)) \/ \E r \in Replicas : AllowInSqlite(r, c)
  \/ Tick \/ Restart \/ RedisGoes \/ RedisReturns
  \/ \E k \in Keys : Expire(k)

Spec == Init /\ [][Next]_vars

(***************************************************************************)
(* Properties.                                                             *)
(***************************************************************************)
\* Every variable has its type; no bucket is overdrawn or over its capacity.
TypeOK ==
  /\ limiter \in Limiters /\ store \in {"own", "shared"} /\ up \in BOOLEAN
  /\ time \in 0 .. MaxTime /\ offset \in [Replicas -> 0 .. Skew]
  /\ \A k \in Keys :
       /\ ideal[k] \in Int
       /\ buckets[k] # None =>
            /\ buckets[k].tokens \in 0 .. Full(k)
            /\ {buckets[k].last, buckets[k].touched} \subseteq 0 .. MaxTime + Skew

\* No bucket grants more than its capacity and what the time refills, over
\* any stretch of time, through refusals, removed buckets, outages and
\* answers that were lost.  Clocks that differ, and calls that wait, add to a
\* shared one once their difference ("ein einmaliger, begrenzter Effekt" of
\* the ingest script); where the caller's time is stored, ideal has got each
\* turn of it besides.  What a limiter that falls back from Redis to its own
\* buckets grants of both together is not bounded here.
Ahead == IF Shared THEN Refill * Skew ELSE 0
Budget == \A k \in Keys : ideal[k] >= -Ahead

\* Nor less: what a bucket would grant is what it has by the true time, but
\* for the clocks' difference and the waiting.  A refusal costs no bucket anything, so one
\* project or address cannot use up the share of others.
Stocked ==
  \A r \in Replicas, k \in Keys : \A now \in Readings(r) :
    Tokens(buckets[k], k, now) >= ideal[k] - Ahead
===============================================================================
