----------------------------- MODULE SseClient -----------------------------
(***************************************************************************)
(* The dashboard's live sessions page: SseMachine with its connection, its *)
(* reconnect timer and its polling timers, and the reads of the session    *)
(* list that frames and polls trigger.                                     *)
(*                                                                         *)
(* One step is one task of the event loop: from a timer, an answer or a    *)
(* chunk to the next await, with the microtasks that follow at once.       *)
(* Events are numbered as they are stored; a frame carries that number.    *)
(* The server is reduced to what a connection without overflow or          *)
(* truncation delivers, see EventStream.  Time passes in units of the      *)
(* polling interval, which is also the base of the backoff.                *)
(* A definition under a comment in parentheses is what its neighbour would *)
(* be with one plausible mistake; no action uses it.                       *)
(***************************************************************************)
EXTENDS Integers, FiniteSets

CONSTANTS
  TimerIds,     \* handles of setTimeout for polls
  ReadIds,      \* requests for the session list that may be in flight
  NoTimer,      \* no handle
  PollEvery,    \* pollingIntervalMs, also the shortest time between two polls
  BackoffBase, BackoffMax,   \* reconnectBaseMs, reconnectMaxMs
  Threshold,    \* POLLING_FALLBACK_THRESHOLD
  MaxEvents, MaxAttempts     \* bounds of the model

Off     == -1   \* a timer that is not set
Pending == -1   \* a request the server has not answered
None    == 0    \* no Last-Event-ID

ASSUME HandleAssumption == NoTimer \notin TimerIds
ASSUME NumberAssumption ==
  /\ PollEvery \in Nat \ {0} /\ BackoffBase \in Nat \ {0} /\ BackoffMax \in Nat \ {0}
  /\ Threshold \in Nat \ {0} /\ MaxEvents \in Nat /\ MaxAttempts \in Nat
  /\ MaxAttempts >= Threshold

VARIABLES
  head,       \* events stored by the server
  position,   \* the last event the open stream has sent
  closed, status, polling, attempt, lastId,   \* fields of SseMachine
  connection, \* its connect(): none, fetching, draining
  reconnect,  \* time left on the reconnect timer
  timers,     \* time left on each poll timer
  handle,     \* pollingHandle
  reads,      \* the list requests in flight, by ReadIds
  shown,      \* how many events the list on the page reflects
  error,      \* the page shows that its last list request failed
  announced,  \* history: the highest event a frame announced
  sincePoll   \* history: time since the last poll, counted to PollEvery

machine == <<closed, status, polling, attempt, lastId, connection, reconnect,
             timers, handle>>
page    == <<reads, shown, error>>
vars    == <<head, position, machine, page, announced, sincePoll>>

Free == [by |-> "nobody", got |-> Pending]
Poller(by) == [by |-> by, got |-> Pending]

Init ==
  /\ head = 0 /\ position = 0
  /\ closed = FALSE /\ status = "connecting" /\ polling = FALSE
  /\ attempt = 0 /\ lastId = None
  /\ connection = "fetching" /\ reconnect = Off
  /\ timers = [t \in TimerIds |-> Off] /\ handle = NoTimer
  \* onMount has sent the first list request.
  /\ \E i \in ReadIds : reads = [j \in ReadIds |-> IF j = i THEN Poller("page") ELSE Free]
  /\ shown = 0 /\ error = FALSE /\ announced = 0 /\ sincePoll = PollEvery

(***************************************************************************)
(* Timers of the polling fallback.                                         *)
(***************************************************************************)
Idle(t) == timers[t] = Off /\ t # handle

\* Bound: loops of ticks alive together, so that a handle is always free.
MaxLoops == Cardinality(TimerIds) - 1
Loops == Cardinality({t \in TimerIds : timers[t] # Off})
         + Cardinality({i \in ReadIds : reads[i].by = "poll"})

\* this.pollingHandle = this.schedule(...)
SchedulePoll ==
  \E t \in TimerIds :
    /\ Idle(t)
    /\ timers' = [timers EXCEPT ![t] = PollEvery]
    /\ handle' = t

\* stopPolling: only the timer in pollingHandle is cancelled.
StopPolling ==
  /\ polling' = FALSE
  /\ timers' = [t \in TimerIds |-> IF t = handle THEN Off ELSE timers[t]]
  /\ handle' = NoTimer

(***************************************************************************)
(* handleConnectionError, the one place that plans the next connect().     *)
(***************************************************************************)
Power(n) == IF n = 0 THEN 1 ELSE IF n = 1 THEN 2 ELSE IF n = 2 THEN 4 ELSE 8
Backoff(n) ==
  LET delay == BackoffBase * Power(n - 1)
  IN  IF delay < BackoffMax THEN delay ELSE BackoffMax

FallsBack(n) == n >= Threshold

ConnectionError ==
  LET n == IF attempt < MaxAttempts THEN attempt + 1 ELSE attempt
  IN  /\ attempt' = n
      /\ connection' = "none"
      /\ reconnect' = Backoff(n)
      /\ IF FallsBack(n) /\ ~polling
         THEN /\ polling' = TRUE /\ status' = "polling_fallback"
              /\ Loops < MaxLoops /\ SchedulePoll
         ELSE /\ status' = IF polling THEN status ELSE "connecting"
              /\ UNCHANGED <<polling, timers, handle>>

\* (a rejected fetch ends the machine)
FetchFailsForGood ==
  /\ connection = "fetching" /\ ~closed
  /\ connection' = "none"
  /\ UNCHANGED <<head, position, closed, status, polling, attempt, lastId, reconnect,
                 timers, handle, page, announced, sincePoll>>

\* fetch rejects, or answers with an error status or without a body.
FetchFails ==
  /\ connection = "fetching" /\ ~closed
  /\ ConnectionError
  /\ UNCHANGED <<head, position, closed, lastId, page, announced, sincePoll>>

\* The stream opens behind Last-Event-ID, or at the newest event.
Position == IF lastId = None THEN head ELSE lastId

FetchSucceeds ==
  /\ connection = "fetching" /\ ~closed
  /\ connection' = "draining" /\ status' = "connected" /\ attempt' = 0
  /\ StopPolling
  /\ position' = Position
  /\ UNCHANGED <<head, closed, lastId, reconnect, page, announced, sincePoll>>

\* The stream ends or a read fails.
StreamEnds ==
  /\ connection = "draining" /\ ~closed
  /\ ConnectionError
  /\ UNCHANGED <<head, position, closed, lastId, page, announced, sincePoll>>

(***************************************************************************)
(* Frames and list requests.                                               *)
(***************************************************************************)
\* refresh() up to its await.
Send(by) ==
  /\ \E i \in ReadIds : reads[i] = Free /\ reads' = [reads EXCEPT ![i] = Poller(by)]
  /\ error' = FALSE

\* dispatchFrame, then onAppended: refresh().
Frame ==
  /\ connection = "draining" /\ ~closed /\ position < head
  /\ position' = position + 1 /\ lastId' = position + 1
  /\ announced' = IF position + 1 > announced THEN position + 1 ELSE announced
  /\ Send("page")
  /\ UNCHANGED <<head, closed, status, polling, attempt, connection, reconnect, timers,
                 handle, shown, sincePoll>>

Serve(i) ==
  /\ reads[i].by # "nobody" /\ reads[i].got = Pending
  /\ reads' = [reads EXCEPT ![i].got = head]
  /\ UNCHANGED <<head, position, machine, shown, error, announced, sincePoll>>

\* (a tick ends its loop when the poll failed)
TickStops == UNCHANGED <<timers, handle>>

\* pollingTick after its await: it plans the next tick in any case.
TickGoesOn == SchedulePoll

Settle(i) ==
  /\ reads' = [reads EXCEPT ![i] = Free]
  /\ IF reads[i].by = "poll" THEN TickGoesOn ELSE UNCHANGED <<timers, handle>>
  /\ UNCHANGED <<head, position, closed, status, polling, attempt, lastId, connection,
                 reconnect, announced, sincePoll>>

\* refresh(): the list is whatever answer came last.
Answer(i) ==
  /\ reads[i].by # "nobody" /\ reads[i].got # Pending
  /\ shown' = reads[i].got
  /\ Settle(i)
  /\ UNCHANGED error

\* The request fails; refresh() keeps the list it has.
ReadFails(i) ==
  /\ reads[i].by # "nobody"
  /\ Settle(i)
  /\ error' = TRUE
  /\ UNCHANGED shown

(***************************************************************************)
(* Timers fire, time passes, the page is left, events are stored.          *)
(***************************************************************************)
\* connect() called by the reconnect timer.
Reconnect ==
  /\ reconnect = 0
  /\ reconnect' = Off
  /\ connection' = "fetching"
  /\ status' = IF polling THEN status ELSE "connecting"
  /\ UNCHANGED <<head, position, closed, polling, attempt, lastId, timers, handle, page,
                 announced, sincePoll>>

MayPoll == ~closed /\ polling

PollTick(t) ==
  /\ timers[t] = 0
  /\ timers' = [timers EXCEPT ![t] = Off]
  /\ IF MayPoll THEN Send("poll") /\ sincePoll' = 0
                ELSE UNCHANGED <<reads, error, sincePoll>>
  /\ UNCHANGED <<head, position, closed, status, polling, attempt, lastId, connection,
                 reconnect, handle, shown, announced>>

Due == reconnect = 0 \/ \E t \in TimerIds : timers[t] = 0

\* A timer that is due runs before time goes on.
Tick ==
  /\ ~Due /\ (reconnect # Off \/ \E t \in TimerIds : timers[t] # Off)
  /\ reconnect' = IF reconnect = Off THEN Off ELSE reconnect - 1
  /\ timers' = [t \in TimerIds |-> IF timers[t] = Off THEN Off ELSE timers[t] - 1]
  /\ sincePoll' = IF sincePoll < PollEvery THEN sincePoll + 1 ELSE sincePoll
  /\ UNCHANGED <<head, position, closed, status, polling, attempt, lastId, connection,
                 handle, page, announced>>

\* (the reconnect timer is forgotten)
DisconnectKeepsTimer ==
  /\ ~closed /\ closed' = TRUE
  /\ StopPolling
  /\ connection' = "none" /\ status' = "disabled"
  /\ UNCHANGED <<head, position, attempt, lastId, reconnect, page, announced, sincePoll>>

\* onDestroy: disconnect() aborts the stream and clears the timers it knows.
Disconnect ==
  /\ ~closed /\ closed' = TRUE
  /\ StopPolling
  /\ reconnect' = Off /\ connection' = "none" /\ status' = "disabled"
  /\ UNCHANGED <<head, position, attempt, lastId, page, announced, sincePoll>>

StoreEvent ==
  /\ head < MaxEvents /\ head' = head + 1
  /\ UNCHANGED <<position, machine, page, announced, sincePoll>>

Fetched == FetchFails \/ FetchSucceeds
Loop    == Reconnect \/ Tick \/ \E t \in TimerIds : PollTick(t)

Next ==
  \/ Fetched \/ StreamEnds \/ Frame \/ Loop \/ Disconnect \/ StoreEvent
  \/ \E i \in ReadIds : Serve(i) \/ Answer(i) \/ ReadFails(i)

Spec == Init /\ [][Next]_vars

\* Timers fire, requests settle, frames that were sent are read; a list
\* request that is tried again and again is answered in the end.
LiveSpec ==
  /\ Spec /\ WF_vars(Fetched) /\ WF_vars(Loop) /\ WF_vars(Frame)
  /\ \A i \in ReadIds : SF_vars(Serve(i)) /\ SF_vars(Answer(i))

(***************************************************************************)
(* Properties.                                                             *)
(***************************************************************************)
\* Every field has its type; a backoff is never longer than reconnectMaxMs.
TypeOK ==
  /\ head \in 0 .. MaxEvents /\ position \in 0 .. head /\ lastId \in 0 .. head
  /\ closed \in BOOLEAN /\ polling \in BOOLEAN
  /\ status \in {"connecting", "connected", "polling_fallback", "disabled"}
  /\ attempt \in 0 .. MaxAttempts
  /\ connection \in {"none", "fetching", "draining"}
  /\ reconnect \in Off .. BackoffMax
  /\ timers \in [TimerIds -> Off .. PollEvery] /\ handle \in TimerIds \cup {NoTimer}
  /\ reads \in [ReadIds -> [by : {"nobody", "page", "poll"}, got : Pending .. MaxEvents]]
  /\ shown \in 0 .. head /\ error \in BOOLEAN /\ announced \in 0 .. head /\ sincePoll \in 0 .. PollEvery

\* A machine that was not disconnected has a connection or a timer that will
\* make one: no failure leaves the page without updates for good
\* (handleConnectionError).
NeverStranded == ~closed => connection # "none" \/ reconnect # Off

\* After disconnect() nothing is sent any more: a poll tick that was waiting
\* for its answer may set a last timer, which finds the machine closed.
QuietAfterDisconnect ==
  [][closed => /\ connection' = "none" /\ closed'
               /\ \A i \in ReadIds : reads[i] = Free => reads'[i] = Free]_vars

\* In the fallback the page catches up with the store, even though answers
\* may overtake each other and polls may fail.
PollingCatchesUp ==
  \A n \in 1 .. MaxEvents : (polling /\ head >= n) ~> (shown >= n \/ ~polling)

(***************************************************************************)
(* Promises of documents and comments.                                     *)
(***************************************************************************)
\* "mit Polling-Intervall >= 5s" (contract, section 10a): two polls are at
\* least an interval apart.
PollsAreSpaced ==
  [][(\E i \in ReadIds : reads[i] = Free /\ reads'[i].by = "poll")
       => sincePoll >= PollEvery]_vars
=============================================================================
