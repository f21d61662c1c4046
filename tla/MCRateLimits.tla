----------------------------- MODULE MCRateLimits -----------------------------
(***************************************************************************)
(* Instances of RateLimits for TLC: a caller of two projects each, behind  *)
(* one address, the second without an origin.                              *)
(***************************************************************************)
EXTENDS RateLimits

CONSTANTS r1, r2, p1, p2, a1, o1

TwoReplicas == {r1, r2}
TwoClients == {[project |-> p1, address |-> a1, origin |-> o1],
               [project |-> p2, address |-> a1, origin |-> None]}
AllLimiters == {"ingest_memory", "ingest_redis", "issuance_memory", "issuance_sqlite",
                "issuance_redis", "origin_memory", "origin_redis"}
OneOrTwo == {1, 2}
===============================================================================
