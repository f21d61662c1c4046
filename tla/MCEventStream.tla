--------------------------- MODULE MCEventStream ---------------------------
(***************************************************************************)
(* Instances of EventStream for TLC.                                       *)
(***************************************************************************)
EXTENDS EventStream, TLC

CONSTANTS r1, r2, w1, w2, c1, c2, p1, p2

OneReplica  == {r1}
TwoReplicas == {r1, r2}
OneWriter   == {w1}
TwoWriters  == {w1, w2}
OneClient   == {c1}
TwoClients  == {c1, c2}
OneProject  == {p1}
TwoProjects == {p1, p2}

AllAtOne  == [w \in Writers |-> r1]
OneEach   == [w \in Writers |-> IF w = w1 THEN r1 ELSE r2]
AllOfOne  == [c \in Clients |-> p1]

\* The second replica stores one batch: it neither gives up a request by
\* itself nor starts one after that.  The first does as it likes.
SecondStoresOnce ==
  /\ phase[w2] = "idle" /\ phase'[w2] = "drawing" =>
       \A e \in stored : e.home # r2
  /\ phase[w2] = "drawing" /\ phase'[w2] = "idle" => breaks' # breaks

StreamSpec ==
  Init /\ [][Next /\ SecondStoresOnce]_vars /\ PublishFairness /\ StreamFairness

\* The replicas may be exchanged together with their writers.
Symmetry == {f \in Permutations(Replicas \cup Writers) :
               \A w \in Writers : f[w] \in Writers /\ HomeOf[f[w]] = f[HomeOf[w]]}
=============================================================================
