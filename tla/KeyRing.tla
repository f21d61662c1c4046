------------------------------ MODULE KeyRing ------------------------------
(***************************************************************************)
(* What ingest control promises those who publish, with no word about      *)
(* requests, statements or transactions: a stream appears together with    *)
(* its first key; a rotation takes keys of one stream away and gives it a  *)
(* new one in the same moment, so that the stream is never without; a key  *)
(* that was taken away is never good again, and none is good for a stream  *)
(* it was not made for.  Where writers exclude each other a rotation takes *)
(* away all the keys the stream has.                                       *)
(***************************************************************************)
EXTENDS FiniteSets

CONSTANTS StreamIds, Keys

VARIABLES
  exclusive,  \* writers exclude each other
  good,       \* the keys each stream is published with, none before it appears
  spent       \* keys that were taken away

ring == <<exclusive, good, spent>>

Init ==
  /\ exclusive \in BOOLEAN
  /\ good \in [StreamIds -> SUBSET Keys]
  /\ \A s \in StreamIds : \A k, l \in good[s] : k = l
  /\ \A s, t \in StreamIds : s # t => good[s] \cap good[t] = {}
  /\ spent = {}

New(k) == k \notin spent /\ \A s \in StreamIds : k \notin good[s]

Appear(s, k) ==
  /\ good[s] = {} /\ New(k)
  /\ good' = [good EXCEPT ![s] = {k}]
  /\ UNCHANGED <<exclusive, spent>>

Rotate(s, old, k) ==
  /\ good[s] # {} /\ New(k)
  /\ old \subseteq good[s]
  /\ exclusive => old = good[s]
  /\ good' = [good EXCEPT ![s] = (@ \ old) \cup {k}]
  /\ spent' = spent \cup old
  /\ UNCHANGED exclusive

Next ==
  \E s \in StreamIds, k \in Keys :
    \/ Appear(s, k)
    \/ \E old \in SUBSET good[s] : Rotate(s, old, k)

Spec == Init /\ [][Next]_ring
=============================================================================
