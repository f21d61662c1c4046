-------------------------- MODULE MCSessionIngest --------------------------
(***************************************************************************)
(* Instances of SessionIngest for TLC.  Rate 10 stands for SampleRateFull; *)
(* the batches are named for what makes them interesting.                  *)
(***************************************************************************)
EXTENDS SessionIngest, TLC

CONSTANTS s1, s2, w1, w2

Ev(s, end, n, r) == [session |-> s, ended |-> end, seqno |-> n, rate |-> r]
Of(evs, bs) == [events |-> evs, boundaries |-> bs]

\* One event; the same event again is a retry.
Plain    == Of(<<Ev(s1, FALSE, 1, 10)>>, {})
Ending   == Of(<<Ev(s1, TRUE, 2, 10)>>, {s1})
Sampled  == Of(<<Ev(s1, FALSE, 3, 5)>>, {})
Other    == Of(<<Ev(s1, FALSE, NoSeqno, 7)>>, {})

\* A session from before correlation ids beside one with a rate: 5 against
\* the 7 and 8 of others.
Older    == Of(<<Ev(s2, FALSE, 1, 10), Ev(s1, FALSE, 3, 5)>>, {})

\* A batch that repeats its own key, under another rate.
Repeated == Of(<<Ev(s1, FALSE, 1, 8), Ev(s1, FALSE, 1, 10)>>, {s1})

\* Two sessions in opposite orders, the second with two events.
Forward  == Of(<<Ev(s1, FALSE, 1, 10), Ev(s2, FALSE, 1, 10),
                 Ev(s2, FALSE, 3, 10)>>, {})
Backward == Of(<<Ev(s2, FALSE, 2, 10), Ev(s1, TRUE, 2, 10)>>, {})

\* The same with one event of each session, no end among them.
There == Of(<<Ev(s1, FALSE, 1, 10), Ev(s2, FALSE, 1, 10)>>, {})
Back  == Of(<<Ev(s2, FALSE, 2, 10), Ev(s1, FALSE, 2, 10)>>, {})

OneSession   == {s1}
OlderSession == {s2}
TwoSessions  == {s1, s2}
TwoWorkers   == {w1, w2}
None         == {}
Races    == {Plain, Ending, Sampled}
Retries  == {Repeated, Ending, Other, Older}
Crossing == {Forward, Backward}
Patient  == {Plain, There, Back}

\* A batch arrives among its own kind only.  Plain ones leave the clock and
\* the sweeper some time; There and Back come at the last moment, where time
\* would only multiply the states in which they lock each other out.
OneKind ==
  \A w \in Workers : pc[w] = "idle" /\ batch'[w] # NoBatch =>
    \/ batch'[w] = Plain /\ now < MaxTime
    \/ /\ batch'[w] # Plain /\ now = MaxTime /\ sweepAt = NoTime
       /\ \A v \in Workers : batch[v] # Plain
       /\ \A s \in Sessions : Exists(sessions[s]) => sessions[s].started = now

LiveSpec == Init /\ [][Next /\ OneKind]_vars /\ Fairness

Symmetry == Permutations({w1, w2})
=============================================================================
