--------------------------- MODULE MCIngestControl ---------------------------
(***************************************************************************)
(* Instances of IngestControl for TLC.  s1 is stored when it begins.       *)
(***************************************************************************)
EXTENDS IngestControl, TLC

CONSTANTS q1, q2, q3, s1, p1, p2, n1, n2, t1, t2

TwoRequests   == {q1, q2}
ThreeRequests == {q1, q2, q3}
OneStream   == {s1}
OneProject  == {p1}
TwoProjects == {p1, p2}
TwoNames    == {n1, n2}
OneName     == {n2}
TwoTargets  == {t1, t2}
OldStream == [s \in Streams |-> [project |-> p1, name |-> n1, target |-> t1]]

BothStores == {"sqlite", "postgres"}
Postgres   == {"postgres"}
Mixed == (q1 :> {"hook", "config", "validate", "publish"})
           @@ (q2 :> {"create", "rotate"}) @@ (q3 :> {"rotate"})
OneStranger == [r \in Requests |-> IF r = q1 THEN Projects ELSE {p1}]
Rotations == [r \in Requests |-> {"rotate"}]
==============================================================================
