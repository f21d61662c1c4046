------------------------------- MODULE Pages -------------------------------
(***************************************************************************)
(* Reading a long list page by page, while others write to it.             *)
(*                                                                         *)
(* Three lists are read in pages: the sessions of a project, the events    *)
(* of a session and the SRT samples of a stream.  A page ends with a       *)
(* token that holds the place of its last row, and the next request goes   *)
(* on after that place.  Meanwhile batches arrive: their rows carry the    *)
(* time they were received, become visible only when their transaction     *)
(* has ended, and in another order.  The stores in SQL keep the time as a  *)
(* text, and order the rows by that text.                                  *)
(* A definition under a comment in parentheses is what its neighbour would *)
(* be with one plausible mistake; no action uses it.                       *)
(***************************************************************************)
EXTENDS Integers, Sequences, FiniteSets, SequencesExt

CONSTANTS Projects,
          Collections,           \* projects with a session or a stream: each has a list of its own
          Writers,               \* requests that write at the same time
          Fractions,             \* of a second at which something may happen, as digits, ascending
          DefaultLimit, MaxLimit,
          MaxTime, MaxRows,      \* bounds: of time, of rows
          None

ASSUME PagesConstants ==
    /\ Fractions \in Seq(Seq(0 .. 9)) /\ Fractions # <<>>
    /\ DefaultLimit \in 1 .. MaxLimit /\ MaxLimit \in Nat
    /\ MaxTime \in Nat /\ MaxRows \in Nat \ {0}
    /\ \A i, j \in DOMAIN Fractions : i # j => Fractions[i] # Fractions[j]

ASSUME NoneAssumption ==
    /\ None \notin Nat
    /\ None \notin [v : Nat, path : Projects \X {None} \cup Collections, at : Nat,
                    seq : {None, 1, 2}, id : Nat, wm : Nat \cup {None}]

VARIABLES store,     \* "memory", "sqlite" or "postgres"
          list,      \* "sessions", "events" or "samples"
          now,       \* time, as the number of a fraction
          rows,      \* what is visible to readers
          batch,     \* what each writer has received and not finished storing
          stamps,    \* how many commits have got their timestamp (Postgres)
          walk       \* the reading that is followed
vars == <<store, list, now, rows, batch, stamps, walk>>

Times == 0 .. MaxTime
Ids == 1 .. MaxRows
Paths == IF list = "sessions" THEN Projects \X {None} ELSE Collections

\* stamp is the number of the commit
Rows == [path : Paths, at : Times, seq : {None, 1, 2}, id : Ids, stamp : 0 .. MaxRows]
Tokens == [v : 1 .. 4, path : Paths, at : Times, seq : {None, 1, 2}, id : Ids,
           wm : 0 .. MaxRows \cup {None}]
Walks == [path : Paths, token : Tokens \cup {None},
          w : 0 .. MaxRows \cup {None},      \* the watermark this request has asked for
          mark : 0 .. MaxRows \cup {None},   \* that of the first page
          start : SUBSET rows,               \* what was visible when the reading began
          seen : Seq(rows), done : BOOLEAN]

TypeOK ==
    /\ store \in {"memory", "sqlite", "postgres"} /\ list \in {"sessions", "events", "samples"}
    /\ now \in Times /\ stamps \in 0 .. MaxRows
    /\ rows \subseteq Rows /\ Cardinality(rows) <= MaxRows
    /\ batch \in [Writers -> SUBSET Rows]
    /\ walk \in Walks

-----------------------------------------------------------------------------
(* Order                                                                   *)

\* RFC 3339 without trailing zeros; 10 stands for the "Z" at the end, which sorts after digits
FormatTime(t) ==
    <<t \div Len(Fractions)>> \o Fractions[1 + (t % Len(Fractions))] \o <<10>>

TextBefore(a, b) ==
    \E i \in DOMAIN a \cap DOMAIN b : a[i] < b[i] /\ \A j \in 1 .. i - 1 : a[j] = b[j]

Earlier(s, t) ==
    IF store = "memory" THEN s < t ELSE TextBefore(FormatTime(s), FormatTime(t))

\* an event without a number comes first
NullableSeqValue(s) == IF s = None THEN -1 ELSE s

EventLess(a, b) ==
    \/ Earlier(a.at, b.at)
    \/ a.at = b.at /\ NullableSeqValue(a.seq) < NullableSeqValue(b.seq)
    \/ a.at = b.at /\ a.seq = b.seq /\ a.id < b.id

\* the latest session first
SessionLess(a, b) == Earlier(b.at, a.at) \/ (a.at = b.at /\ a.id < b.id)

\* the latest sample first, of the same moment the one stored last
SampleLess(a, b) == Earlier(b.at, a.at) \/ (a.at = b.at /\ a.id > b.id)

Less(a, b) == CASE list = "events" -> EventLess(a, b)
                [] list = "sessions" -> SessionLess(a, b)
                [] list = "samples" -> SampleLess(a, b)

-----------------------------------------------------------------------------
(* Rows after a place                                                      *)

\* (in SQL, nothing compares with a number that is not there)
EventPassesNull(e, after) ==
    \/ Earlier(after.at, e.at)
    \/ e.at = after.at /\ None \notin {e.seq, after.seq} /\ e.seq > after.seq
    \/ e.at = after.at /\ None \notin {e.seq, after.seq} /\ e.seq = after.seq /\ e.id > after.id

EventPasses(e, after) ==
    \/ Earlier(after.at, e.at)
    \/ e.at = after.at /\ NullableSeqValue(e.seq) > NullableSeqValue(after.seq)
    \/ e.at = after.at /\ e.seq = after.seq /\ e.id > after.id

\* (the last row of a page is the first of the next)
SessionPassesAgain(s, after) == Earlier(s.at, after.at) \/ (s.at = after.at /\ s.id >= after.id)

SessionPasses(s, after) == Earlier(s.at, after.at) \/ (s.at = after.at /\ s.id > after.id)

SamplePasses(s, after) == Earlier(s.at, after.at) \/ (s.at = after.at /\ s.id < after.id)

Passes(x, after) ==
    \/ after = None
    \/ list = "events" /\ EventPasses(x, after)
    \/ list = "sessions" /\ SessionPasses(x, after)
    \/ list = "samples" /\ SamplePasses(x, after)

Marked == store = "postgres" /\ list = "events"

\* what was committed when the watermark was taken
UnderWatermark(x, w) == Marked => x.stamp <= w

-----------------------------------------------------------------------------
(* Requests                                                                *)

ClampLimit(asked) ==
    IF asked <= 0 THEN DefaultLimit ELSE IF asked > MaxLimit THEN MaxLimit ELSE asked

ClassifyCursorVersion(v) ==
    CASE v = 3 -> "accepted" [] v \in {1, 2} -> "legacy" [] OTHER -> "malformed"

\* the token says of which list it is, and only there it is taken
DecodeCursor(token, path) ==
    IF ClassifyCursorVersion(token.v) = "accepted" /\ token.path # path
    THEN "malformed" ELSE ClassifyCursorVersion(token.v)

\* (the watermark does not travel with the token)
EncodeCursorBare(last, path) ==
    [v |-> 3, path |-> path, at |-> last.at, seq |-> last.seq, id |-> last.id, wm |-> None]

EncodeCursor(last, path) ==
    [v |-> 3, path |-> path, at |-> last.at, seq |-> last.seq, id |-> last.id,
     wm |-> IF Marked THEN walk.w ELSE None]

\* the rows as they are ordered: as many come before one as are less
Ordered(found) ==
    [i \in 1 .. Cardinality(found) |->
        CHOOSE x \in found : Cardinality({y \in found : Less(y, x)}) = i - 1]

\* one row more than the limit is read, to see whether there is another page
FirstRows(matching, limit) ==
    LET found == Ordered(matching)
    IN  IF Len(found) > limit
        THEN [items |-> SubSeq(found, 1, limit), more |-> TRUE]
        ELSE [items |-> found, more |-> FALSE]

OfPath(path) == {x \in rows : x.path = path}

ListPage(path, after, w, asked) ==
    FirstRows({x \in OfPath(path) : UnderWatermark(x, w) /\ Passes(x, after)}, ClampLimit(asked))

Reading(path, token) ==
    [path |-> path, token |-> token, w |-> None, mark |-> None,
     start |-> OfPath(path), seen |-> <<>>, done |-> FALSE]

\* The reader turns to a list, the same or another one, and may still hold the last token, or
\* one that an earlier or a later release has given out.
Visit(path) ==
    /\ \E v \in 2 .. 4 :
          LET kept == IF walk.token = None THEN None ELSE [walk.token EXCEPT !.v = v] IN
          /\ kept # None => v # 3 \/ kept.path # path
          /\ walk' = Reading(path, kept)
    /\ UNCHANGED <<store, list, now, rows, batch, stamps>>

Refused == walk.token # None /\ DecodeCursor(walk.token, walk.path) # "accepted"

\* the token is refused: the reader drops it and begins anew
WriteCursorError ==
    /\ Refused /\ ~walk.done
    /\ walk' = Reading(walk.path, None)
    /\ UNCHANGED <<store, list, now, rows, batch, stamps>>

\* the server's time is asked for in a statement of its own, unless the token brings one along
ResolveWatermark ==
    /\ Marked /\ ~Refused /\ ~walk.done /\ walk.w = None
    /\ LET w == IF walk.token # None /\ walk.token.wm # None THEN walk.token.wm ELSE stamps IN
          walk' = [walk EXCEPT !.w = w, !.mark = IF @ = None THEN w ELSE @]
    /\ UNCHANGED <<store, list, now, rows, batch, stamps>>

\* A stream without a sample is not there.  A session may be there before its events are: its
\* row is committed first, and its page is empty then.
Known == list # "samples" \/ walk.token # None \/ OfPath(walk.path) # {}

ReadPage ==
    /\ ~Refused /\ ~walk.done /\ Known
    /\ Marked => walk.w # None
    /\ \E asked \in 0 .. MaxLimit + 1 :
          LET page == ListPage(walk.path, walk.token, walk.w, asked) IN
          walk' = [walk EXCEPT !.seen = @ \o page.items, !.w = None, !.done = ~page.more,
                               !.token = IF page.more THEN EncodeCursor(Last(page.items), walk.path)
                                         ELSE None]
    /\ UNCHANGED <<store, list, now, rows, batch, stamps>>

-----------------------------------------------------------------------------
(* Writers                                                                 *)

Used == {x.id : x \in rows \cup UNION {batch[w] : w \in Writers}}

\* The time of receipt is that of the whole batch.  Numbers come from blocks of several
\* replicas, and ids of sessions are random: any order is possible.
Receive(w) ==
    /\ batch[w] = {}
    /\ \E path \in Paths, ids \in SUBSET (Ids \ Used), seq \in {None, 1} :
          /\ Cardinality(ids) \in {1, 2}
          /\ seq # None => list = "events"
          /\ batch' = [batch EXCEPT ![w] =
                {[path |-> path, at |-> now, id |-> i, stamp |-> 0,
                  seq |-> IF list = "events" /\ \E j \in ids : j < i THEN 2 ELSE seq] : i \in ids}]
    /\ UNCHANGED <<store, list, now, rows, stamps, walk>>

\* a commit gets its timestamp first and becomes visible later
Stamp(w) ==
    /\ store = "postgres" /\ batch[w] # {} /\ \A x \in batch[w] : x.stamp = 0
    /\ stamps' = stamps + 1
    /\ batch' = [batch EXCEPT ![w] = {[x EXCEPT !.stamp = stamps + 1] : x \in @}]
    /\ UNCHANGED <<store, list, now, rows, walk>>

Show(w) ==
    /\ batch[w] # {}
    /\ store = "postgres" => \A x \in batch[w] : x.stamp # 0
    /\ rows' = rows \cup batch[w]
    /\ batch' = [batch EXCEPT ![w] = {}]
    /\ UNCHANGED <<store, list, now, stamps, walk>>

\* the transaction fails
Fail(w) ==
    /\ batch[w] # {} /\ \A x \in batch[w] : x.stamp = 0
    /\ batch' = [batch EXCEPT ![w] = {}]
    /\ UNCHANGED <<store, list, now, rows, stamps, walk>>

Tick ==
    /\ now < MaxTime
    /\ now' = now + 1
    /\ UNCHANGED <<store, list, rows, batch, stamps, walk>>

\* samples are kept in a database only
Init ==
    /\ store \in {"memory", "sqlite", "postgres"} /\ list \in {"sessions", "events", "samples"}
    /\ store = "memory" => list # "samples"
    /\ now = 0 /\ rows = {} /\ stamps = 0 /\ batch = [w \in Writers |-> {}]
    /\ \E path \in Paths : walk = Reading(path, None)

Next ==
    \/ \E path \in Paths : Visit(path)
    \/ WriteCursorError \/ ResolveWatermark \/ ReadPage
    \/ \E w \in Writers : Receive(w) \/ Stamp(w) \/ Show(w) \/ Fail(w)
    \/ Tick

Spec == Init /\ [][Next]_vars

-----------------------------------------------------------------------------
(* Properties                                                              *)

(* A reader that goes on to the last page has been shown every row that    *)
(* was there when it began, whatever was written in between, with tokens   *)
(* of other lists or releases at hand (ListBySession, List,                *)
(* HistoryByStream, decodeSessionEventsCursor).                            *)
NothingSkipped == walk.done => walk.start \subseteq {walk.seen[i] : i \in DOMAIN walk.seen}

(* No row is shown twice, none of another list is shown, and the pages     *)
(* continue the order of the store from one to the next.                   *)
PagesContinue ==
    /\ \A i \in DOMAIN walk.seen : walk.seen[i].path = walk.path
    /\ \A i, j \in DOMAIN walk.seen : i < j => Less(walk.seen[i], walk.seen[j])

(* The watermark of the first page goes through all pages of a walk over   *)
(* the events of a session in Postgres: what commits after it turns up on  *)
(* none of them, however long the reading takes and whatever is visible by *)
(* then (resolveWatermark; ADR-0006).  It bounds the commits a walk shows, *)
(* and is no snapshot of them: see BatchesWhole.                           *)
OfOneMoment == Marked => \A i \in DOMAIN walk.seen : walk.seen[i].stamp <= walk.mark

(* A walk shows a batch in full or not at all: the paged set of a walk is  *)
(* that of its watermark, "ist die Menge stabil" (the comment in           *)
(* postgres/event_repository.go).                                          *)
BatchesWhole ==
    walk.done /\ Marked =>
        LET seen == {walk.seen[i] : i \in DOMAIN walk.seen} IN
        \A x, y \in OfPath(walk.path) : x.stamp = y.stamp /\ x \in seen => y \in seen

(* The rows are shown in the order of their time (the comment in           *)
(* srt_health_repository.go: "`ingested_at` ist TEXT (RFC3339-Nano UTC),   *)
(* byte-lexikografisch zeit-sortiert").                                    *)
InOrderOfTime ==
    \A i, j \in DOMAIN walk.seen :
        i < j => IF list = "events" THEN walk.seen[i].at <= walk.seen[j].at
                                    ELSE walk.seen[i].at >= walk.seen[j].at
=============================================================================
