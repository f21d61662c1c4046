------------------------------ MODULE MCAccess ------------------------------
(* Instance of Access for TLC: two configured projects and one that is not,  *)
(* one generation, two replicas, two keys.                                   *)
EXTENDS Access, TLC

CONSTANTS p1, p2, gone, t1, k1, k2, lab, a, b, here, elsewhere

McProjects == {p1, p2, gone}
McKnown == {p1, p2}
McLives == {None, 2}
Symmetry == Permutations({a, b}) \cup Permutations({p1, p2})
=============================================================================
