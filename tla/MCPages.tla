------------------------------- MODULE MCPages -------------------------------
(* Instance of Pages and Analyze for TLC: moments of a second that end in    *)
(* "Z", ".1Z" and ".12Z", and three rows in pages of one or two, or four in  *)
(* pages of one.  An analysis takes some time or none; how it compares with  *)
(* the deadlines matters to AnswerArrives only.                              *)
EXTENDS Analyze, TLC

CONSTANTS p1, p2, n1, n2, w1, w2

McFractions == << <<>>, <<1>>, <<1, 2>> >>
McCollections == {<<p1, n1>>, <<p1, n2>>}
OneCollection == {<<p1, n1>>}
Symmetry == Permutations({n1, n2}) \cup Permutations({w1, w2})
=============================================================================
