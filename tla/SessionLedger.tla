--------------------------- MODULE SessionLedger ---------------------------
(***************************************************************************)
(* What the session store promises a reader of /api/stream-sessions, with  *)
(* no word about workers, transactions or time: a session appears once,    *)
(* with an identity it keeps, moves through its life in one direction and  *)
(* is never revived; an event enters the log once, under the identity of a *)
(* session that is already there.                                          *)
(***************************************************************************)
EXTENDS Integers

CONSTANTS
  Sessions,
  Unidentified   \* sessions whose row never had a correlation id

VARIABLES
  life,   \* "none", "active", "stalled" or "ended"
  cid,    \* the correlation id of the row, 0 when it has none
  log     \* the events: sequence, session and the id they carry

ledger == <<life, cid, log>>

\* Where a session may go from each stage of its life in one transaction.
May(stage) ==
  CASE stage = "none"    -> {"none", "active", "ended"}
    [] stage = "active"  -> {"active", "stalled", "ended"}
    [] stage = "stalled" -> {"stalled", "ended"}
    [] stage = "ended"   -> {"ended"}

Init ==
  /\ life \in [Sessions -> {"none", "active"}]
  /\ \A s \in Sessions : life[s] = "active" <=> s \in Unidentified
  /\ cid = [s \in Sessions |-> 0]
  /\ log = {}

\* Sessions are opened, stalled or ended, several of them in one transaction;
\* one that is opened gets an id no other session has.
Move ==
  /\ life' \in [Sessions -> {"none", "active", "stalled", "ended"}]
  /\ \A s \in Sessions : life'[s] \in May(life[s])
  /\ \A s \in Sessions : life[s] # "none" \/ life'[s] = "none"
                           => cid'[s] = cid[s]
  /\ \A s \in Sessions : life[s] = "none" /\ life'[s] # "none" =>
       /\ cid'[s] # 0
       /\ \A r \in Sessions \ {s} : cid'[r] # cid'[s]
  /\ UNCHANGED log

\* A batch of events is stored, all of them or none.
Record ==
  /\ log \subseteq log'
  /\ \A e \in log' \ log :
       /\ life[e.session] # "none"
       /\ e.session \notin Unidentified => e.cid = cid[e.session]
       /\ \A d \in log' \ {e} : d.seq # e.seq
  /\ UNCHANGED <<life, cid>>

Next == Move \/ Record

Spec == Init /\ [][Next]_ledger
=============================================================================
