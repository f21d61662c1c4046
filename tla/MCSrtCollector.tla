--------------------------- MODULE MCSrtCollector ---------------------------
(***************************************************************************)
(* Instances of SrtCollector for TLC: a stream whose publisher comes back  *)
(* under a new connection.                                                 *)
(***************************************************************************)
EXTENDS SrtCollector, TLC

CONSTANTS s1, c1, c2

OneStream == {s1}
OneConnection  == {c1}
TwoConnections == {c1, c2}
SamePath == [c \in Connections |-> s1]
=============================================================================
