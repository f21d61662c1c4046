-------------------------- MODULE SseClientProofs --------------------------
(***************************************************************************)
(* Proofs about SseClient for all numbers of timers, requests, events and  *)
(* attempts, and all intervals: types, that a page which is open is never  *)
(* without a connection or a plan to make one, and that a page which was   *)
(* left sends nothing any more.                                            *)
(***************************************************************************)
EXTENDS SseClient, TLAPS

(***************************************************************************)
(* The inductive invariant                                                 *)
(***************************************************************************)

\* No answer tells of events that the server has not stored.
Answered == \A i \in ReadIds : reads[i].got <= head

\* After disconnect() there is neither a connection nor a plan to make one.
LeftForGood == closed => connection = "none" /\ reconnect = Off

\* Holds in every state and in every step that starts from it.
PageInv == TypeOK /\ Answered /\ LeftForGood /\ NeverStranded

Reads == [by : {"nobody", "page", "poll"}, got : Pending .. MaxEvents]

(***************************************************************************)
(* Operators                                                               *)
(***************************************************************************)

\* The first attempt waits the shortest time, and none more than the longest.
LEMMA BackoffBounds ==
    ASSUME NEW n \in Nat \ {0}
    PROVE  Backoff(n) \in 1 .. BackoffMax
<1>1. Power(n - 1) \in {1, 2, 4, 8}
    BY DEF Power
<1>2. BackoffBase * Power(n - 1) \in Nat \ {0}
    BY <1>1, NumberAssumption
<1> QED
    BY <1>2, NumberAssumption DEF Backoff

\* Whatever fails, there will be another attempt.
LEMMA AfterError ==
    ASSUME TypeOK, ConnectionError
    PROVE  /\ connection' = "none" /\ reconnect' \in 1 .. BackoffMax
           /\ attempt' \in 0 .. MaxAttempts
           /\ polling' \in BOOLEAN
           /\ status' \in {"connecting", "connected", "polling_fallback", "disabled"}
           /\ timers' \in [TimerIds -> Off .. PollEvery] /\ handle' \in TimerIds \cup {NoTimer}
<1> USE NumberAssumption
<1> DEFINE n == IF attempt < MaxAttempts THEN attempt + 1 ELSE attempt
<1>1. n \in Nat \ {0} /\ n \in 0 .. MaxAttempts
    BY DEF TypeOK
<1>2. attempt' = n /\ connection' = "none" /\ reconnect' = Backoff(n)
    BY DEF ConnectionError
<1> HIDE DEF n
<1>3. reconnect' \in 1 .. BackoffMax
    BY <1>1, <1>2, BackoffBounds
<1>4. SchedulePoll \/ UNCHANGED <<timers, handle>>
    BY DEF ConnectionError
<1>5. timers' \in [TimerIds -> Off .. PollEvery] /\ handle' \in TimerIds \cup {NoTimer}
    BY <1>4 DEF SchedulePoll, TypeOK, Off
<1>6. /\ polling' \in BOOLEAN
      /\ status' \in {"connecting", "connected", "polling_fallback", "disabled"}
    BY DEF ConnectionError, TypeOK
<1> QED
    BY <1>1, <1>2, <1>3, <1>5, <1>6

\* A request that is sent has its type and no answer.
LEMMA Sent ==
    ASSUME PageInv, NEW by \in {"page", "poll"}, Send(by)
    PROVE  reads' \in [ReadIds -> Reads] /\ error' \in BOOLEAN
           /\ \A i \in ReadIds : reads'[i].got <= head
<1> USE NumberAssumption DEF PageInv
<1>1. PICK i \in ReadIds : reads' = [reads EXCEPT ![i] = Poller(by)]
    BY DEF Send
<1>2. Poller(by) \in Reads /\ Poller(by).got = Pending
    BY DEF Poller, Reads, Pending
<1>3. reads \in [ReadIds -> Reads] /\ head \in Nat
    BY DEF TypeOK, Reads
<1>4. \A j \in ReadIds : reads'[j] = IF j = i THEN Poller(by) ELSE reads[j]
    BY <1>1, <1>3
<1> QED
    <2>1. reads' \in [ReadIds -> Reads] /\ error' \in BOOLEAN
        BY <1>1, <1>2, <1>3 DEF Send
    <2>2. \A j \in ReadIds : reads'[j].got <= head
        BY <1>2, <1>3, <1>4 DEF Answered, Pending
    <2> QED
        BY <2>1, <2>2

\* A request that is settled leaves a free place, and a poll the timer of the next.
LEMMA Settled ==
    ASSUME PageInv, NEW i \in ReadIds, Settle(i)
    PROVE  reads' \in [ReadIds -> Reads]
           /\ (\A j \in ReadIds : reads'[j].got <= head)
           /\ timers' \in [TimerIds -> Off .. PollEvery] /\ handle' \in TimerIds \cup {NoTimer}
<1> USE NumberAssumption DEF PageInv
<1>1. Free \in Reads /\ Free.got = Pending
    BY DEF Free, Reads, Pending
<1>2. reads \in [ReadIds -> Reads] /\ head \in Nat
    BY DEF TypeOK, Reads
<1>3. reads' = [reads EXCEPT ![i] = Free]
    BY DEF Settle
<1>4. \A j \in ReadIds : reads'[j] = IF j = i THEN Free ELSE reads[j]
    BY <1>2, <1>3
<1>5. SchedulePoll \/ UNCHANGED <<timers, handle>>
    BY DEF Settle, TickGoesOn
<1>6. timers' \in [TimerIds -> Off .. PollEvery] /\ handle' \in TimerIds \cup {NoTimer}
    BY <1>5 DEF SchedulePoll, TypeOK, Off
<1> QED
    BY <1>1, <1>2, <1>3, <1>4, <1>6 DEF Answered, Pending

(***************************************************************************)
(* The invariant                                                           *)
(***************************************************************************)

\* Initially the first connection is made and the first request is sent.
LEMMA PageInit ==
    Init => PageInv
<1> SUFFICES ASSUME Init PROVE PageInv
    OBVIOUS
<1> USE NumberAssumption
<1>1. PICK i \in ReadIds : reads = [j \in ReadIds |-> IF j = i THEN Poller("page") ELSE Free]
    BY DEF Init
<1>2. reads \in [ReadIds -> Reads] /\ \A j \in ReadIds : reads[j].got = Pending
    BY <1>1 DEF Poller, Free, Reads, Pending
<1>3. TypeOK
    <2>1. /\ timers \in [TimerIds -> Off .. PollEvery] /\ handle \in TimerIds \cup {NoTimer}
          /\ reconnect \in Off .. BackoffMax /\ sincePoll \in 0 .. PollEvery
        BY DEF Init, Off
    <2>2. /\ head \in 0 .. MaxEvents /\ position \in 0 .. head /\ lastId \in 0 .. head
          /\ shown \in 0 .. head /\ announced \in 0 .. head /\ attempt \in 0 .. MaxAttempts
        BY DEF Init, None
    <2> QED
        BY <1>2, <2>1, <2>2 DEF Init, TypeOK, Reads
<1> QED
    BY <1>2, <1>3 DEF Init, PageInv, Answered, LeftForGood, NeverStranded, Pending

\* Each step leads from a state with PageInv to another one.
LEMMA PageStep ==
    ASSUME PageInv, [Next]_vars
    PROVE  PageInv'
<1> USE NumberAssumption DEF PageInv
<1>0. TypeOK /\ Answered /\ LeftForGood /\ NeverStranded
    OBVIOUS
<1>1. CASE FetchFails \/ StreamEnds
    <2>1. /\ ConnectionError /\ ~closed
          /\ UNCHANGED <<head, position, closed, lastId, page, announced, sincePoll>>
        BY <1>1 DEF FetchFails, StreamEnds
    <2>2. reconnect' \in 1 .. BackoffMax /\ reconnect' # Off
        BY <2>1, AfterError DEF Off
    <2>3. TypeOK'
        BY <1>0, <2>1, <2>2, AfterError DEF TypeOK, page, Off
    <2> QED
        BY <1>0, <2>1, <2>2, <2>3 DEF page, Answered, LeftForGood, NeverStranded
<1>2. CASE FetchSucceeds
    <2>1. Position \in 0 .. head
        BY <1>0 DEF Position, TypeOK
    <2>2. timers' \in [TimerIds -> Off .. PollEvery] /\ handle' = NoTimer /\ polling' = FALSE
        BY <1>0, <1>2 DEF FetchSucceeds, StopPolling, TypeOK, Off
    <2>3. TypeOK'
        <3>1. attempt' \in 0 .. MaxAttempts /\ position' \in 0 .. head' /\ head' = head
            BY <1>2, <2>1 DEF FetchSucceeds
        <3> QED
            BY <1>0, <1>2, <2>2, <3>1 DEF FetchSucceeds, TypeOK, page
    <2> QED
        BY <1>0, <1>2, <2>3 DEF FetchSucceeds, page, Answered, LeftForGood, NeverStranded
<1>3. CASE Frame
    <2>1. Send("page")
        BY <1>3 DEF Frame
    <2>2. reads' \in [ReadIds -> Reads] /\ error' \in BOOLEAN
          /\ \A i \in ReadIds : reads'[i].got <= head
        BY <2>1, Sent
    <2>3. position' \in 0 .. head /\ lastId' \in 0 .. head /\ announced' \in 0 .. head
        BY <1>0, <1>3 DEF Frame, TypeOK
    <2>4. TypeOK'
        BY <1>0, <1>3, <2>2, <2>3 DEF Frame, TypeOK, Reads
    <2> QED
        BY <1>0, <1>3, <2>2, <2>4 DEF Frame, Answered, LeftForGood, NeverStranded
<1>4. ASSUME NEW i \in ReadIds, Serve(i)
      PROVE  PageInv'
    <2>1. reads \in [ReadIds -> Reads] /\ head \in 0 .. MaxEvents
        BY <1>0 DEF TypeOK, Reads
    <2>2. [reads[i] EXCEPT !.got = head] \in Reads
        BY <2>1 DEF Reads, Pending
    <2>3. reads' = [reads EXCEPT ![i] = [reads[i] EXCEPT !.got = head]]
        BY <1>4 DEF Serve
    <2>4. reads' \in [ReadIds -> Reads] /\ \A j \in ReadIds : reads'[j].got <= head
        <3>1. \A j \in ReadIds : reads'[j] = IF j = i THEN [reads[i] EXCEPT !.got = head] ELSE reads[j]
            BY <2>1, <2>3
        <3>2. [reads[i] EXCEPT !.got = head].got = head
            BY <2>1 DEF Reads
        <3> QED
            BY <1>0, <2>1, <2>2, <2>3, <3>1, <3>2 DEF Answered
    <2>5. TypeOK'
        BY <1>0, <1>4, <2>4 DEF Serve, TypeOK, Reads, machine
    <2> QED
        BY <1>0, <1>4, <2>4, <2>5 DEF Serve, machine, Answered, LeftForGood, NeverStranded
<1>5. ASSUME NEW i \in ReadIds, Answer(i) \/ ReadFails(i)
      PROVE  PageInv'
    <2>1. Settle(i)
        BY <1>5 DEF Answer, ReadFails
    <2>2. reads' \in [ReadIds -> Reads]
          /\ (\A j \in ReadIds : reads'[j].got <= head)
          /\ timers' \in [TimerIds -> Off .. PollEvery] /\ handle' \in TimerIds \cup {NoTimer}
        BY <2>1, Settled
    <2>4. UNCHANGED <<head, position, closed, status, polling, attempt, lastId, connection,
                      reconnect, announced, sincePoll>>
        BY <2>1 DEF Settle
    <2>3. shown' \in 0 .. head /\ error' \in BOOLEAN
        <3>1. reads[i].got \in Pending .. MaxEvents /\ reads[i].got <= head
            BY <1>0 DEF TypeOK, Answered
        <3> QED
            <4>1. head \in Nat /\ MaxEvents \in Nat /\ shown \in 0 .. head /\ error \in BOOLEAN
                BY <1>0 DEF TypeOK
            <4>2. CASE Answer(i)
                <5>1. reads[i].got \in 0 .. head
                    BY <3>1, <4>1, <4>2 DEF Answer, Pending
                <5> QED
                    BY <4>1, <4>2, <5>1 DEF Answer
            <4>3. CASE ReadFails(i)
                BY <4>1, <4>3, <2>4 DEF ReadFails
            <4> QED
                BY <1>5, <4>2, <4>3
    <2>5. TypeOK'
        BY <1>0, <2>2, <2>3, <2>4 DEF TypeOK, Reads
    <2> QED
        BY <1>0, <2>2, <2>4, <2>5 DEF Answered, LeftForGood, NeverStranded
<1>6. CASE Reconnect
    <2>1. ~closed /\ connection' = "fetching" /\ reconnect' = Off
        BY <1>0, <1>6 DEF Reconnect, LeftForGood, Off
    <2>2. TypeOK'
        BY <1>0, <1>6 DEF Reconnect, TypeOK, page, Off
    <2> QED
        BY <1>0, <1>6, <2>1, <2>2 DEF Reconnect, page, Answered, LeftForGood, NeverStranded
<1>7. CASE Tick
    <2>1. /\ reconnect' \in Off .. BackoffMax
          /\ reconnect # Off => reconnect' # Off
          /\ reconnect = Off => reconnect' = Off
        BY <1>0, <1>7 DEF Tick, Due, TypeOK, Off
    <2>2. timers' \in [TimerIds -> Off .. PollEvery]
        BY <1>0, <1>7 DEF Tick, Due, TypeOK, Off
    <2>3. sincePoll' \in 0 .. PollEvery
        BY <1>0, <1>7 DEF Tick, TypeOK
    <2>4. TypeOK'
        BY <1>0, <1>7, <2>1, <2>2, <2>3 DEF Tick, TypeOK, page
    <2> QED
        BY <1>0, <1>7, <2>1, <2>4 DEF Tick, page, Answered, LeftForGood, NeverStranded
<1>8. ASSUME NEW t \in TimerIds, PollTick(t)
      PROVE  PageInv'
    <2>1. timers' \in [TimerIds -> Off .. PollEvery]
        BY <1>0, <1>8 DEF PollTick, TypeOK, Off
    <2>2. /\ reads' \in [ReadIds -> Reads] /\ error' \in BOOLEAN /\ sincePoll' \in 0 .. PollEvery
          /\ \A i \in ReadIds : reads'[i].got <= head
        <3>1. CASE Send("poll") /\ sincePoll' = 0
            BY <3>1, Sent
        <3>2. CASE UNCHANGED <<reads, error, sincePoll>>
            BY <1>0, <3>2 DEF TypeOK, Reads, Answered
        <3> QED
            BY <1>8, <3>1, <3>2 DEF PollTick
    <2>3. TypeOK'
        BY <1>0, <1>8, <2>1, <2>2 DEF PollTick, TypeOK, Reads
    <2> QED
        BY <1>0, <1>8, <2>2, <2>3 DEF PollTick, Answered, LeftForGood, NeverStranded
<1>9. CASE Disconnect
    <2>1. timers' \in [TimerIds -> Off .. PollEvery] /\ handle' = NoTimer /\ polling' = FALSE
        BY <1>0, <1>9 DEF Disconnect, StopPolling, TypeOK, Off
    <2>2. TypeOK'
        <3>1. reconnect' \in Off .. BackoffMax
            BY <1>9 DEF Disconnect, Off
        <3> QED
            BY <1>0, <1>9, <2>1, <3>1 DEF Disconnect, TypeOK, page
    <2> QED
        BY <1>0, <1>9, <2>2 DEF Disconnect, page, Answered, LeftForGood, NeverStranded
<1>10. CASE StoreEvent
    <2>1. TypeOK'
        BY <1>0, <1>10 DEF StoreEvent, TypeOK, machine, page
    <2>2. Answered'
        <3>1. head \in Nat /\ head' = head + 1 /\ reads' = reads
            BY <1>0, <1>10 DEF StoreEvent, TypeOK, page
        <3>2. \A i \in ReadIds : reads[i].got \in Int
            BY <1>0 DEF TypeOK, Pending
        <3> QED
            BY <1>0, <3>1, <3>2 DEF Answered
    <2> QED
        BY <1>0, <1>10, <2>1, <2>2 DEF StoreEvent, machine, LeftForGood, NeverStranded
<1>11. CASE UNCHANGED vars
    BY <1>0, <1>11 DEF vars, machine, page, TypeOK, Answered, LeftForGood, NeverStranded
<1> QED
    BY <1>1, <1>2, <1>3, <1>4, <1>5, <1>6, <1>7, <1>8, <1>9, <1>10, <1>11 DEF Next, Fetched, Loop

(***************************************************************************)
(* Theorems                                                                *)
(***************************************************************************)

\* PageInv holds in every state of every behaviour.
THEOREM PageInvariance == Spec => []PageInv
<1>1. Init => PageInv
    BY PageInit
<1>2. PageInv /\ [Next]_vars => PageInv'
    BY PageStep
<1> QED
    BY <1>1, <1>2, PTL DEF Spec

\* Every field has its type, and no backoff is longer than reconnectMaxMs.
THEOREM TypeCorrect == Spec => []TypeOK
<1>1. PageInv => TypeOK
    BY DEF PageInv
<1> QED
    BY <1>1, PageInvariance, PTL

\* A page that is open has a connection or will make one (handleConnectionError).
THEOREM NobodyIsStranded == Spec => []NeverStranded
<1>1. PageInv => NeverStranded
    BY DEF PageInv
<1> QED
    BY <1>1, PageInvariance, PTL

\* A page that was left sends nothing any more (disconnect, pollingTick).
THEOREM LeavingIsQuiet == Spec => QuietAfterDisconnect
<1>1. ASSUME PageInv, [Next]_vars, closed
      PROVE  /\ connection' = "none" /\ closed'
             /\ \A i \in ReadIds : reads[i] = Free => reads'[i] = Free
    <2>1. connection = "none" /\ reconnect = Off /\ reconnect # 0 /\ reads \in [ReadIds -> Reads]
        BY <1>1 DEF PageInv, LeftForGood, Off, TypeOK, Reads
    <2>2. Free.by = "nobody"
        BY DEF Free
    <2>3. ASSUME NEW i \in ReadIds, Serve(i)
          PROVE  \A j \in ReadIds : reads[j] = Free => reads'[j] = Free
        BY <2>1, <2>2, <2>3 DEF Serve
    <2>4. ASSUME NEW i \in ReadIds, Settle(i)
          PROVE  \A j \in ReadIds : reads[j] = Free => reads'[j] = Free
        BY <2>1, <2>4 DEF Settle
    <2>5. ASSUME NEW t \in TimerIds, PollTick(t)
          PROVE  reads' = reads
        BY <1>1, <2>5 DEF PollTick, MayPoll
    <2> QED
        BY <1>1, <2>1, <2>3, <2>4, <2>5 DEF Next, Fetched, Loop, FetchFails, FetchSucceeds, StreamEnds,
            Frame, Serve, Answer, ReadFails, Settle, Reconnect, Tick, PollTick, Disconnect, StoreEvent,
            vars, machine, page
<1>2. ASSUME PageInv, [Next]_vars
      PROVE  [closed => /\ connection' = "none" /\ closed'
                        /\ \A i \in ReadIds : reads[i] = Free => reads'[i] = Free]_vars
    BY <1>1, <1>2
<1> QED
    BY <1>2, PageInvariance, PTL DEF Spec, QuietAfterDisconnect
=============================================================================
