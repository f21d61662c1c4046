------------------------- MODULE EventStreamProofs --------------------------
(***************************************************************************)
(* Proofs about EventStream for any replicas, requests, clients, projects  *)
(* and sizes: types, that no number is stored twice, that a stream carries *)
(* the frames of its own project only, and that an event is missed for     *)
(* none but the reasons NoUnexplainedGap lists.                            *)
(***************************************************************************)
EXTENDS EventStream, TLAPS

(***************************************************************************)
(* The inductive invariant                                                 *)
(***************************************************************************)

\* Numbers of stored events.
Numbers == {e.seq : e \in stored}

\* Values are drawn once: what is reserved or drawn is below the next value.
Below ==
  /\ \A n \in InFlight : n < nextval
  /\ \A e \in stored : e.seq < nextval

\* No value is in two places, and none that is still reserved is stored.
Injective(s) == \A i, j \in 1 .. Len(s) : s[i] = s[j] => i = j
Apart ==
  /\ \A r \in Replicas : Injective(block[r])
  /\ \A q, r \in Replicas : q # r => Elems(block[q]) \cap Elems(block[r]) = {}
  /\ \A r \in Replicas, w \in Writers : Elems(block[r]) \cap Elems(batch[w]) = {}
  /\ \A v, w \in Writers : v # w => Elems(batch[v]) \cap Elems(batch[w]) = {}
  /\ \A r \in Replicas : Elems(block[r]) \cap Numbers = {}

\* What a request has drawn is stored when it is committed and not before.
Writing(w) ==
  /\ phase[w] = "idle" => batch[w] = <<>>
  /\ phase[w] = "drawing" => Elems(batch[w]) \cap Numbers = {}
  /\ phase[w] \in {"committed", "publishing"} => Rows(w) \subseteq stored
  /\ phase[w] = "publishing" =>
       \A c \in targets[w] : Subscribed(c) /\ replica[c] = HomeOf[w]

\* The place of a client in its stream.
Placed(c) ==
  /\ conn[c] # "live" => backfill[c] = {}
  /\ lastId[c] # None => lastId[c] \in seen[c]
  /\ \A n \in backfill[c] : n > lastId[c]

\* What a client may read or has read overtakes what was in flight, unless
\* the backfill has it.
Warned(c) ==
  /\ \A m \in InFlight \ Numbers : \A k \in backfill[c] \cup {lastId[c]} :
       m < k => m \in overtaken
  /\ \A m \in InFlight, k \in Elems(channel[c]) : m < k => m \in overtaken

\* A later place in the channel is a higher number, or it was overtaken.
Ordered(c) ==
  \A i, j \in 1 .. Len(channel[c]) :
    i < j /\ channel[c][j] < channel[c][i] => channel[c][j] \in overtaken

\* Between what the client has read and a frame of its backfill nothing is left out.
Filled(c) ==
  \A k \in backfill[c], n \in Own(c) :
    lastId[c] < n /\ n < k => n \in backfill[c] \cup cut[c] \cup overtaken

\* What the next backfill does not ask for has been read or is explained.
Behind(c) ==
  lastId[c] # None =>
    \A n \in Own(c) \ before[c] : n <= lastId[c] => n \in seen[c] \cup Explained(c)

\* NoUnexplainedGap and OwnFramesOnly of one client.
Gapless(c) == Owed(c) \subseteq seen[c] \cup Coming(c) \cup Explained(c)
OwnFrames(c) == seen[c] \cup backfill[c] \cup Elems(channel[c]) \subseteq Own(c)

Streaming(c) ==
  /\ OwnFrames(c) /\ Placed(c) /\ Warned(c) /\ Ordered(c) /\ Filled(c) /\ Behind(c)
  /\ Gapless(c)

Drawing == Below /\ Apart /\ OneRowPerSequence /\ \A w \in Writers : Writing(w)

\* Holds in every state and in every step that starts from it.
EInv == TypeOK /\ Drawing /\ \A c \in Clients : Streaming(c)

(***************************************************************************)
(* Sequences and sets of numbers                                           *)
(***************************************************************************)

Positive == Nat \ {0}

\* The members of a sequence.
LEMMA Members ==
    ASSUME NEW s, NEW n
    PROVE  n \in Elems(s) <=> \E i \in 1 .. Len(s) : s[i] = n
BY DEF Elems

\* The empty sequence has none.
LEMMA NoMembers == Elems(<<>>) = {}
BY DEF Elems

\* A sequence that has a first member and the rest.
LEMMA HeadAndTail ==
    ASSUME NEW s \in Seq(Positive), s # <<>>
    PROVE  /\ Head(s) \in Positive /\ Tail(s) \in Seq(Positive)
           /\ Len(s) \in Nat /\ Len(s) > 0 /\ Len(Tail(s)) = Len(s) - 1
           /\ Head(s) = s[1] /\ \A i \in 1 .. Len(Tail(s)) : Tail(s)[i] = s[i + 1]
           /\ Elems(s) = {Head(s)} \cup Elems(Tail(s))
           /\ Injective(s) => Head(s) \notin Elems(Tail(s)) /\ Injective(Tail(s))
<1>1. /\ Head(s) \in Positive /\ Tail(s) \in Seq(Positive)
      /\ Len(s) \in Nat /\ Len(s) > 0 /\ Len(Tail(s)) = Len(s) - 1
      /\ Head(s) = s[1] /\ \A i \in 1 .. Len(Tail(s)) : Tail(s)[i] = s[i + 1]
    OBVIOUS
<1>2. ASSUME NEW n
      PROVE  n \in Elems(s) <=> n = Head(s) \/ n \in Elems(Tail(s))
    <2>1. ASSUME n \in Elems(s) PROVE n = Head(s) \/ n \in Elems(Tail(s))
        <3>1. PICK i \in 1 .. Len(s) : s[i] = n
            BY <2>1, Members
        <3>2. CASE i = 1
            BY <1>1, <3>1, <3>2
        <3>3. CASE i # 1
            <4>1. i - 1 \in 1 .. Len(Tail(s)) /\ Tail(s)[i - 1] = s[(i - 1) + 1] /\ (i - 1) + 1 = i
                BY <1>1, <3>3
            <4> QED
                BY <3>1, <4>1, Members
        <3> QED
            BY <3>2, <3>3
    <2>2. ASSUME n = Head(s) PROVE n \in Elems(s)
        BY <1>1, <2>2, Members
    <2>3. ASSUME n \in Elems(Tail(s)) PROVE n \in Elems(s)
        <3>1. PICK i \in 1 .. Len(Tail(s)) : Tail(s)[i] = n
            BY <2>3, Members
        <3>2. i + 1 \in 1 .. Len(s) /\ s[i + 1] = n
            BY <1>1, <3>1
        <3> QED
            BY <3>2, Members
    <2> QED
        BY <2>1, <2>2, <2>3
<1>3. ASSUME Injective(s)
      PROVE  Head(s) \notin Elems(Tail(s)) /\ Injective(Tail(s))
    <2>1. \A i \in 1 .. Len(Tail(s)) : i + 1 \in 1 .. Len(s) /\ i + 1 # 1 /\ 1 \in 1 .. Len(s)
        BY <1>1
    <2>2. ASSUME Head(s) \in Elems(Tail(s)) PROVE FALSE
        <3>1. PICK i \in 1 .. Len(Tail(s)) : Tail(s)[i] = Head(s)
            BY <2>2, Members
        <3>2. s[i + 1] = s[1]
            BY <1>1, <3>1
        <3> QED
            BY <1>3, <2>1, <3>2 DEF Injective
    <2>3. \A i, j \in 1 .. Len(Tail(s)) : Tail(s)[i] = Tail(s)[j] => i + 1 = j + 1
        BY <1>1, <1>3, <2>1 DEF Injective
    <2> QED
        BY <2>2, <2>3 DEF Injective
<1> QED
    BY <1>1, <1>2, <1>3

\* A sequence that gains a last member.
LEMMA Appended ==
    ASSUME NEW s \in Seq(Positive), NEW x \in Positive
    PROVE  /\ Append(s, x) \in Seq(Positive) /\ Len(s) \in Nat
           /\ Len(Append(s, x)) = Len(s) + 1 /\ Append(s, x)[Len(s) + 1] = x
           /\ \A i \in 1 .. Len(s) : Append(s, x)[i] = s[i]
           /\ Elems(Append(s, x)) = Elems(s) \cup {x}
<1>1. /\ Append(s, x) \in Seq(Positive) /\ Len(s) \in Nat
      /\ Len(Append(s, x)) = Len(s) + 1 /\ Append(s, x)[Len(s) + 1] = x
      /\ \A i \in 1 .. Len(s) : Append(s, x)[i] = s[i]
    OBVIOUS
<1>2. ASSUME NEW n
      PROVE  n \in Elems(Append(s, x)) <=> n \in Elems(s) \/ n = x
    <2>1. \A i : i \in 1 .. Len(Append(s, x)) <=> i \in 1 .. Len(s) \/ i = Len(s) + 1
        BY <1>1
    <2>2. n \in Elems(Append(s, x)) <=> \E i \in 1 .. Len(Append(s, x)) : Append(s, x)[i] = n
        BY Members
    <2>3. n \in Elems(s) <=> \E i \in 1 .. Len(s) : s[i] = n
        BY Members
    <2> QED
        BY <1>1, <2>1, <2>2, <2>3
<1> QED
    BY <1>1, <1>2

\* What is in flight.
LEMMA Flying ==
    \A n : n \in InFlight <=> \/ \E r \in Replicas : n \in Elems(block[r])
                              \/ \E w \in Writers : n \in Elems(batch[w])
BY DEF InFlight

\* The types of what is in sequences.
LEMMA Elements ==
    ASSUME TypeOK
    PROVE  /\ \A r \in Replicas : block[r] \in Seq(Positive) /\ Elems(block[r]) \subseteq Positive
           /\ \A w \in Writers : batch[w] \in Seq(Positive) /\ Elems(batch[w]) \subseteq Positive
           /\ \A c \in Clients : channel[c] \in Seq(Positive) /\ Elems(channel[c]) \subseteq Positive
           /\ InFlight \subseteq Positive /\ Numbers \subseteq Positive
           /\ \A c \in Clients : Own(c) \subseteq Numbers
<1>1. ASSUME NEW s \in Seq(Positive)
      PROVE  Elems(s) \subseteq Positive
    BY DEF Elems
<1>2. /\ \A r \in Replicas : block[r] \in Seq(Positive)
      /\ \A w \in Writers : batch[w] \in Seq(Positive)
      /\ \A c \in Clients : channel[c] \in Seq(Positive)
    BY DEF TypeOK, Positive
<1>3. InFlight \subseteq Positive
    BY <1>1, <1>2, Flying
<1>4. Numbers \subseteq Positive
    BY DEF Numbers, TypeOK, Positive
<1>5. \A c \in Clients : Own(c) \subseteq Numbers
    BY DEF Own, Numbers
<1> QED
    BY <1>1, <1>2, <1>3, <1>4, <1>5

(***************************************************************************)
(* Steps that a client does not notice                                     *)
(***************************************************************************)

\* What a client has or had is stored and so below the next value.
LEMMA Known ==
    ASSUME EInv, NEW c \in Clients
    PROVE  /\ Own(c) \subseteq Positive /\ \A n \in Own(c) : n < nextval
           /\ lastId[c] \in Nat /\ nextval \in Nat /\ 0 < nextval /\ lastId[c] < nextval
           /\ seen[c] \subseteq Own(c) /\ backfill[c] \subseteq Own(c)
           /\ Elems(channel[c]) \subseteq Own(c)
<1>1. Streaming(c) /\ TypeOK /\ Drawing
    BY DEF EInv
<1>2. Own(c) \subseteq Positive /\ \A n \in Own(c) : n < nextval
    <2>1. \A n \in Numbers : n < nextval
        BY <1>1 DEF Numbers, Drawing, Below
    <2> QED
        BY <1>1, <2>1, Elements
<1>3. seen[c] \subseteq Own(c) /\ backfill[c] \subseteq Own(c) /\ Elems(channel[c]) \subseteq Own(c)
    BY <1>1 DEF Streaming, OwnFrames
<1>4. lastId[c] \in Nat /\ nextval \in Nat /\ 0 < nextval
    BY <1>1 DEF TypeOK
<1>5. lastId[c] < nextval
    BY <1>1, <1>2, <1>3, <1>4 DEF Streaming, Placed, None
<1> QED
    BY <1>2, <1>3, <1>4, <1>5

\* What is in flight later was in flight before or is new.
FlightGoesOn == \A m \in InFlight' : m \in InFlight \/ (m \in Nat /\ nextval <= m)

\* What is stored, and a client's own stream, stay as they are, and it is still
\* to be given what it was to be given.
LEMMA StreamStays ==
    ASSUME EInv, NEW c \in Clients, stored' = stored, FlightGoesOn,
           conn'[c] = conn[c], lastId'[c] = lastId[c], seen'[c] = seen[c],
           backfill'[c] = backfill[c], channel'[c] = channel[c], before'[c] = before[c],
           ToPublish(c) \subseteq ToPublish(c)', dropped[c] \subseteq dropped'[c],
           elsewhere[c] \subseteq elsewhere'[c], cut[c] \subseteq cut'[c], overtaken \subseteq overtaken'
    PROVE  Streaming(c)'
<1>1. Streaming(c)
    BY DEF EInv
<1>2. Own(c)' = Own(c) /\ Numbers' = Numbers
    BY DEF Own, Numbers
<1>3. (OwnFrames(c) /\ Placed(c) /\ Ordered(c) /\ Filled(c))'
    BY <1>1, <1>2 DEF Streaming, OwnFrames, Placed, Ordered, Filled
<1>4. Explained(c) \subseteq Explained(c)'
    BY DEF Explained
<1>5. Behind(c)'
    BY <1>1, <1>2, <1>4 DEF Streaming, Behind
<1>6. Warned(c)'
    <2>1. \A m \in InFlight', k \in Own(c) \cup {lastId[c]} : m < k => m \in InFlight
        BY Known DEF FlightGoesOn, Positive
    <2>2. /\ \A m \in InFlight' \ Numbers : \A k \in backfill[c] \cup {lastId[c]} :
                m < k => m \in overtaken
          /\ \A m \in InFlight', k \in Elems(channel[c]) : m < k => m \in overtaken
        BY <1>1, <2>1, Known DEF Streaming, Warned
    <2> QED
        BY <1>2, <2>2 DEF Warned
<1>7. Gapless(c)'
    <2>1. After(c)' = After(c)
        BY <1>2 DEF After
    <2>2. Asked(c)' = Asked(c)
        BY <2>1 DEF Asked
    <2>3. Owed(c)' = Owed(c)
        BY <1>2 DEF Owed, Subscribed
    <2>4. Coming(c) \subseteq Coming(c)'
        BY <2>2 DEF Coming
    <2> QED
        BY <1>1, <1>4, <2>3, <2>4 DEF Streaming, Gapless
<1> QED
    BY <1>3, <1>5, <1>6, <1>7 DEF Streaming

\* The requests stay as they are.
LEMMA DrawingStays ==
    ASSUME EInv, UNCHANGED <<nextval, block, stored, phase, project, batch>>,
           \A w \in Writers : phase[w] = "publishing" =>
             \A c \in targets'[w] : Subscribed(c)' /\ replica'[c] = HomeOf[w]
    PROVE  Drawing' /\ FlightGoesOn
<1>1. InFlight' = InFlight /\ Numbers' = Numbers /\ Drawing
    BY DEF InFlight, Numbers, EInv
<1>2. FlightGoesOn
    BY <1>1 DEF FlightGoesOn
<1>3. Below' /\ Apart' /\ OneRowPerSequence'
    BY <1>1 DEF Drawing, Below, Apart, OneRowPerSequence
<1>4. ASSUME NEW w \in Writers
      PROVE  Writing(w)'
    <2>1. Writing(w) /\ Rows(w)' = Rows(w)
        BY <1>1 DEF Drawing, Rows
    <2> QED
        BY <1>1, <2>1 DEF Writing
<1> QED
    BY <1>2, <1>3, <1>4 DEF Drawing

(***************************************************************************)
(* Requests before they publish                                            *)
(***************************************************************************)

\* What a request will publish to a client.
Promised(w, c) ==
  \/ phase[w] = "committed" /\ Subscribed(c) /\ replica[c] = HomeOf[w]
  \/ phase[w] = "publishing" /\ c \in targets[w]

\* An event is yet to be published to a client exactly if a request has promised it.
LEMMA Publishes ==
    \A c, n : n \in ToPublish(c) <=> \E w \in Writers : Promised(w, c) /\ n \in Elems(batch[w])
BY DEF ToPublish, Promised

\* A request that promises nothing to anybody does not matter to the clients.
LEMMA PromisesStay ==
    ASSUME NEW c, UNCHANGED <<conn, replica>>,
           \A w \in Writers : Promised(w, c) =>
             batch'[w] = batch[w] /\ phase'[w] = phase[w] /\ targets'[w] = targets[w]
    PROVE  ToPublish(c) \subseteq ToPublish(c)'
<1>1. \A n : n \in ToPublish(c)' <=> \E w \in Writers : Promised(w, c)' /\ n \in Elems(batch[w])'
    BY DEF ToPublish, Promised
<1>2. \A w \in Writers : Promised(w, c) => Promised(w, c)' /\ Elems(batch[w])' = Elems(batch[w])
    BY DEF Promised, Subscribed, Elems
<1> QED
    BY <1>1, <1>2, Publishes

\* There is a project.
LEMMA SomeProject == AnyProject \in Projects
BY ShapeAssumption DEF AnyProject

\* The streams, and their history, keep their types.
LEMMA StreamTypes ==
    ASSUME TypeOK, UNCHANGED <<stored, streams, breaks, history>>,
           nextval' \in Nat \ {0} /\ block' \in [Replicas -> Seq(Nat \ {0})],
           phase' \in [Writers -> {"idle", "drawing", "committed", "publishing"}],
           project' \in [Writers -> Projects], batch' \in [Writers -> Seq(Nat \ {0})],
           targets' \in [Writers -> SUBSET Clients]
    PROVE  TypeOK'
BY DEF TypeOK, streams, history

\* A request arrives.
LEMMA PostStep ==
    ASSUME EInv, NEW w \in Writers, NEW p \in Projects, Post(w, p)
    PROVE  EInv'
<1>1. TypeOK /\ Drawing /\ phase[w] = "idle" /\ batch[w] = <<>>
    BY DEF EInv, Post, Drawing, Writing
<1>2. /\ phase' = [phase EXCEPT ![w] = "drawing"] /\ project' = [project EXCEPT ![w] = p]
      /\ UNCHANGED <<nextval, block, stored, batch, targets, streams, breaks, history>>
    BY DEF Post
<1>3. /\ phase'[w] = "drawing" /\ \A v \in Writers \ {w} : phase'[v] = phase[v] /\ project'[v] = project[v]
      /\ phase' \in [Writers -> {"idle", "drawing", "committed", "publishing"}]
      /\ project' \in [Writers -> Projects]
    BY <1>1, <1>2 DEF TypeOK
<1>4. TypeOK'
    BY <1>1, <1>2, <1>3, StreamTypes DEF TypeOK
<1>5. FlightGoesOn /\ InFlight' = InFlight /\ Numbers' = Numbers
    BY <1>2 DEF FlightGoesOn, InFlight, Numbers
<1>6. Drawing'
    <2>1. Below' /\ Apart' /\ OneRowPerSequence'
        BY <1>1, <1>2, <1>5 DEF Drawing, Below, Apart, OneRowPerSequence
    <2>2. ASSUME NEW v \in Writers PROVE Writing(v)'
        <3>1. CASE v = w
            BY <1>1, <1>2, <1>3, <3>1, NoMembers DEF Writing
        <3>2. CASE v # w
            BY <1>1, <1>2, <1>3, <1>5, <3>2 DEF Drawing, Writing, Rows, Subscribed, streams
        <3> QED
            BY <3>1, <3>2
    <2> QED
        BY <2>1, <2>2 DEF Drawing
<1>7. ASSUME NEW c \in Clients
      PROVE  Streaming(c)'
    <2>1. ToPublish(c) \subseteq ToPublish(c)'
        BY <1>1, <1>2, <1>3, PromisesStay DEF streams, Promised
    <2> QED
        BY <1>2, <1>5, <2>1, StreamStays DEF streams, history
<1> QED
    BY <1>4, <1>6, <1>7 DEF EInv

\* A request ends without having stored anything.
LEMMA AbandonStep ==
    ASSUME EInv, NEW w \in Writers, Abandon(w)
    PROVE  EInv'
<1>1. TypeOK /\ Drawing /\ phase[w] = "drawing"
    BY DEF EInv, Abandon
<1>2. /\ phase' = [phase EXCEPT ![w] = "idle"] /\ project' = [project EXCEPT ![w] = AnyProject]
      /\ batch' = [batch EXCEPT ![w] = <<>>]
      /\ UNCHANGED <<nextval, block, stored, targets, streams, breaks, history>>
    BY DEF Abandon
<1>3. /\ phase'[w] = "idle" /\ batch'[w] = <<>>
      /\ \A v \in Writers \ {w} : phase'[v] = phase[v] /\ project'[v] = project[v] /\ batch'[v] = batch[v]
      /\ phase' \in [Writers -> {"idle", "drawing", "committed", "publishing"}]
      /\ project' \in [Writers -> Projects] /\ batch' \in [Writers -> Seq(Nat \ {0})]
    BY <1>1, <1>2, SomeProject DEF TypeOK
<1>4. TypeOK'
    BY <1>1, <1>2, <1>3, StreamTypes DEF TypeOK
<1>5. \A v \in Writers : Elems(batch[v])' \subseteq Elems(batch[v])
    <2>1. \A v \in Writers \ {w} : Elems(batch[v])' = Elems(batch[v])
        BY <1>3 DEF Elems
    <2>2. Elems(batch[w])' = {}
        BY <1>3 DEF Elems
    <2> QED
        BY <2>1, <2>2
<1>6. \A r \in Replicas : Elems(block[r])' = Elems(block[r])
    BY <1>2 DEF Elems
<1>7. Numbers' = Numbers
    BY <1>2 DEF Numbers
<1>8. \A n \in InFlight' : n \in InFlight
    <2>1. \A n : n \in InFlight' <=> \/ \E r \in Replicas : n \in Elems(block[r])'
                                     \/ \E v \in Writers : n \in Elems(batch[v])'
        BY DEF InFlight
    <2> QED
        BY <1>5, <1>6, <2>1, Flying
<1>9. Drawing'
    <2>1. Below' /\ OneRowPerSequence'
        BY <1>1, <1>2, <1>8 DEF Drawing, Below, OneRowPerSequence
    <2>2. Apart'
        <3>1. \A v, x \in Writers : v # x => Elems(batch[v])' \cap Elems(batch[x])' = {}
            BY <1>1, <1>5 DEF Drawing, Apart
        <3>2. \A r \in Replicas, v \in Writers : Elems(block[r])' \cap Elems(batch[v])' = {}
            BY <1>1, <1>5, <1>6 DEF Drawing, Apart
        <3> QED
            BY <1>1, <1>2, <1>6, <1>7, <3>1, <3>2 DEF Drawing, Apart
    <2>3. ASSUME NEW v \in Writers PROVE Writing(v)'
        <3>1. CASE v = w
            BY <1>3, <3>1 DEF Writing
        <3>2. CASE v # w
            BY <1>1, <1>2, <1>3, <1>7, <3>2 DEF Drawing, Writing, Rows, Subscribed, streams
        <3> QED
            BY <3>1, <3>2
    <2> QED
        BY <2>1, <2>2, <2>3 DEF Drawing
<1>10. ASSUME NEW c \in Clients
      PROVE  Streaming(c)'
    <2>1. ToPublish(c) \subseteq ToPublish(c)'
        BY <1>1, <1>2, <1>3, PromisesStay DEF streams, Promised
    <2> QED
        BY <1>2, <1>8, <2>1, StreamStays DEF streams, history, FlightGoesOn
<1> QED
    BY <1>4, <1>9, <1>10 DEF EInv

\* A block of fresh values.
LEMMA Reserved ==
    ASSUME TypeOK, NEW r \in Replicas
    PROVE  /\ Reserve(r) \in Seq(Positive) /\ Reserve(r) # <<>> /\ Injective(Reserve(r))
           /\ \A n \in Elems(Reserve(r)) : nextval <= n /\ n < nextval + BlockSize
<1>1. nextval \in Nat /\ nextval > 0 /\ BlockSize \in Nat /\ BlockSize > 0
    BY SizeAssumption DEF TypeOK
<1>2. \A i \in 1 .. BlockSize : nextval + i - 1 \in Positive /\ Reserve(r)[i] = nextval + i - 1
    BY <1>1 DEF Positive, Reserve
<1>3. Reserve(r) \in Seq(Positive) /\ Len(Reserve(r)) = BlockSize
    BY <1>1, <1>2 DEF Reserve
<1>4. Reserve(r) # <<>>
    BY <1>1, <1>3
<1>5. Injective(Reserve(r))
    <2>1. \A i, j \in 1 .. BlockSize : Reserve(r)[i] = Reserve(r)[j] => i = j
        BY <1>1, <1>2
    <2> QED
        BY <1>3, <2>1 DEF Injective
<1>6. ASSUME NEW n \in Elems(Reserve(r))
      PROVE  nextval <= n /\ n < nextval + BlockSize
    <2>1. PICK i \in 1 .. BlockSize : Reserve(r)[i] = n
        BY <1>3, <1>6, Members
    <2> QED
        BY <1>1, <1>2, <2>1
<1> QED
    BY <1>3, <1>4, <1>5, <1>6

\* A request draws its next number, from a fresh block when the old one is used up.
LEMMA DrawStep ==
    ASSUME EInv, NEW w \in Writers, Draw(w)
    PROVE  EInv'
<1> DEFINE r == HomeOf[w]
           values == IF block[r] = <<>> THEN Reserve(r) ELSE block[r]
           x == Head(values)
<1>1. TypeOK /\ Drawing /\ phase[w] = "drawing" /\ r \in Replicas
      /\ (\A n \in InFlight \cup Numbers : n < nextval)
    BY ShapeAssumption DEF EInv, Draw, Drawing, Below, Numbers
<1>2. /\ batch' = [batch EXCEPT ![w] = Append(batch[w], x)]
      /\ block' = [block EXCEPT ![r] = Tail(values)]
      /\ nextval' = IF block[r] = <<>> THEN nextval + BlockSize ELSE nextval
      /\ UNCHANGED <<stored, phase, project, targets, streams, breaks, history>>
    BY DEF Draw
<1>3. nextval \in Nat /\ nextval > 0 /\ BlockSize \in Nat /\ BlockSize > 0
    BY <1>1, SizeAssumption DEF TypeOK
<1>4. /\ values \in Seq(Positive) /\ values # <<>> /\ Injective(values)
      /\ \A n \in Elems(values) : n \in Elems(block[r]) \/ nextval <= n
      /\ \A n \in Elems(values) : n < nextval'
    <2>1. CASE block[r] = <<>>
        BY <1>1, <1>2, <2>1, Reserved
    <2>2. CASE block[r] # <<>>
        <3>1. values = block[r] /\ nextval' = nextval
            BY <1>2, <2>2
        <3>2. \A n \in Elems(block[r]) : n < nextval
            BY <1>1, Flying
        <3> QED
            BY <1>1, <2>2, <3>1, <3>2, Elements DEF Drawing, Apart
    <2> QED
        BY <2>1, <2>2
<1> HIDE DEF values
<1>5. /\ x \in Positive /\ Tail(values) \in Seq(Positive)
      /\ Elems(values) = {x} \cup Elems(Tail(values))
      /\ x \notin Elems(Tail(values)) /\ Injective(Tail(values))
    BY <1>4, HeadAndTail
<1> HIDE DEF r, x
<1>6. Elems(Append(batch[w], x)) = Elems(batch[w]) \cup {x} /\ Append(batch[w], x) \in Seq(Positive)
    BY <1>1, <1>5, Elements, Appended
<1>7. /\ block'[r] = Tail(values) /\ (\A q \in Replicas \ {r} : block'[q] = block[q])
      /\ block' \in [Replicas -> Seq(Nat \ {0})]
      /\ batch'[w] = Append(batch[w], x) /\ (\A v \in Writers \ {w} : batch'[v] = batch[v])
      /\ batch' \in [Writers -> Seq(Nat \ {0})] /\ nextval' \in Nat \ {0} /\ nextval <= nextval'
    BY <1>1, <1>2, <1>3, <1>5, <1>6 DEF TypeOK, Positive
<1>8. TypeOK'
    BY <1>1, <1>2, <1>7, StreamTypes DEF TypeOK
<1>9. /\ \A n : n \in Elems(block[r])' <=> n \in Elems(Tail(values))
      /\ \A q \in Replicas \ {r} : Elems(block[q])' = Elems(block[q])
      /\ \A n : n \in Elems(batch[w])' <=> n \in Elems(batch[w]) \/ n = x
      /\ \A v \in Writers \ {w} : Elems(batch[v])' = Elems(batch[v])
    <2>1. Elems(block[r])' = Elems(block'[r]) /\ Elems(batch[w])' = Elems(batch'[w])
        BY <1>7 DEF Elems
    <2>2. \A q \in Replicas \ {r} : Elems(block[q])' = Elems(block[q])
        BY <1>7 DEF Elems
    <2>3. \A v \in Writers \ {w} : Elems(batch[v])' = Elems(batch[v])
        BY <1>7 DEF Elems
    <2> QED
        BY <1>6, <1>7, <2>1, <2>2, <2>3
<1>10. ASSUME NEW n \in Elems(values)
       PROVE  /\ n \notin Numbers
              /\ \A v \in Writers : n \notin Elems(batch[v])
              /\ \A q \in Replicas \ {r} : n \notin Elems(block[q])
    <2>1. CASE n \in Elems(block[r])
        BY <1>1, <2>1 DEF Drawing, Apart
    <2>2. CASE nextval <= n
        <3>1. n \in Nat /\ ~(n < nextval)
            BY <1>3, <1>4, <1>10, <2>2, Members DEF Elems, Positive
        <3> QED
            BY <1>1, <3>1, Flying
    <2> QED
        BY <1>4, <1>10, <2>1, <2>2
<1>11. Numbers' = Numbers
    BY <1>2 DEF Numbers
<1>12. \A n \in InFlight' : n \in InFlight \/ n \in Elems(values)
    <2>1. \A n : n \in InFlight' <=> \/ \E q \in Replicas : n \in Elems(block[q])'
                                     \/ \E v \in Writers : n \in Elems(batch[v])'
        BY DEF InFlight
    <2> QED
        BY <1>5, <1>9, <2>1, Flying
<1>13. FlightGoesOn
    <2>1. \A n \in Elems(values) : n \in Nat
        BY <1>4 DEF Elems, Positive
    <2>2. \A n \in Elems(block[r]) : n \in InFlight
        BY <1>1, Flying
    <2> QED
        BY <1>4, <1>12, <2>1, <2>2 DEF FlightGoesOn
<1>14. Drawing'
    <2>1. Below'
        <3>1. ASSUME NEW n \in InFlight' PROVE n < nextval'
            BY <1>1, <1>3, <1>4, <1>7, <1>12, <3>1, Elements DEF Positive
        <3>2. ASSUME NEW e \in stored PROVE e.seq < nextval'
            <4>1. e.seq \in Nat /\ e.seq < nextval
                BY <1>1, <3>2 DEF TypeOK, Numbers
            <4> QED
                BY <1>3, <1>7, <4>1
        <3> QED
            BY <1>2, <3>1, <3>2 DEF Below
    <2>2. Apart'
        <3>1. ASSUME NEW q \in Replicas PROVE Injective(block[q])'
            BY <1>1, <1>5, <1>7 DEF Drawing, Apart, Injective
        <3>2. ASSUME NEW q \in Replicas, NEW p \in Replicas, q # p
              PROVE  Elems(block[q])' \cap Elems(block[p])' = {}
            BY <1>1, <1>5, <1>9, <1>10, <3>2 DEF Drawing, Apart
        <3>3. ASSUME NEW q \in Replicas, NEW v \in Writers
              PROVE  Elems(block[q])' \cap Elems(batch[v])' = {}
            BY <1>1, <1>5, <1>9, <1>10 DEF Drawing, Apart
        <3>4. ASSUME NEW u \in Writers, NEW v \in Writers, u # v
              PROVE  Elems(batch[u])' \cap Elems(batch[v])' = {}
            BY <1>1, <1>5, <1>9, <1>10, <3>4 DEF Drawing, Apart
        <3>5. ASSUME NEW q \in Replicas PROVE Elems(block[q])' \cap Numbers = {}
            BY <1>1, <1>5, <1>9, <1>10 DEF Drawing, Apart
        <3> QED
            BY <1>11, <3>1, <3>2, <3>3, <3>4, <3>5 DEF Apart
    <2>3. OneRowPerSequence'
        BY <1>1, <1>2 DEF Drawing, OneRowPerSequence
    <2>4. ASSUME NEW v \in Writers PROVE Writing(v)'
        <3>1. CASE v = w
            BY <1>1, <1>2, <1>5, <1>9, <1>10, <1>11, <3>1 DEF Drawing, Writing
        <3>2. CASE v # w
            BY <1>1, <1>2, <1>7, <1>11, <3>2 DEF Drawing, Writing, Rows, Subscribed, streams
        <3> QED
            BY <3>1, <3>2
    <2> QED
        BY <2>1, <2>2, <2>3, <2>4 DEF Drawing
<1>15. ASSUME NEW c \in Clients
      PROVE  Streaming(c)'
    <2>1. ToPublish(c) \subseteq ToPublish(c)'
        BY <1>1, <1>2, <1>7, PromisesStay DEF streams, Promised
    <2> QED
        BY <1>2, <1>13, <2>1, StreamStays DEF streams, history
<1> QED
    BY <1>8, <1>14, <1>15 DEF EInv

(***************************************************************************)
(* Publishing                                                              *)
(***************************************************************************)

\* The broker looks up who is subscribed.
LEMMA SnapshotStep ==
    ASSUME EInv, NEW w \in Writers, Snapshot(w)
    PROVE  EInv'
<1>1. TypeOK /\ Drawing /\ phase[w] = "committed"
    BY DEF EInv, Snapshot
<1> DEFINE new == {c \in Clients : Subscribed(c) /\ replica[c] = HomeOf[w]}
<1>2. /\ phase' = [phase EXCEPT ![w] = "publishing"] /\ targets' = [targets EXCEPT ![w] = new]
      /\ UNCHANGED <<nextval, block, stored, project, batch, streams, breaks, history>>
    BY DEF Snapshot
<1>3. /\ phase'[w] = "publishing" /\ targets'[w] = new
      /\ \A v \in Writers \ {w} : phase'[v] = phase[v] /\ targets'[v] = targets[v]
      /\ phase' \in [Writers -> {"idle", "drawing", "committed", "publishing"}]
      /\ targets' \in [Writers -> SUBSET Clients]
    BY <1>1, <1>2 DEF TypeOK
<1>4. \A c \in Clients : Subscribed(c)' = Subscribed(c) /\ replica'[c] = replica[c]
    BY <1>2 DEF Subscribed, streams
<1>5. TypeOK'
    BY <1>1, <1>2, <1>3, StreamTypes DEF TypeOK
<1>6. FlightGoesOn /\ InFlight' = InFlight /\ Numbers' = Numbers
    BY <1>2 DEF FlightGoesOn, InFlight, Numbers
<1>7. Drawing'
    <2>1. Below' /\ Apart' /\ OneRowPerSequence'
        BY <1>1, <1>2, <1>6 DEF Drawing, Below, Apart, OneRowPerSequence
    <2>2. ASSUME NEW v \in Writers PROVE Writing(v)'
        <3>1. targets[v] \subseteq Clients /\ Rows(v)' = Rows(v)
            BY <1>1, <1>2 DEF TypeOK, Rows
        <3>2. CASE v = w
            BY <1>1, <1>2, <1>3, <1>4, <3>1, <3>2 DEF Drawing, Writing
        <3>3. CASE v # w
            BY <1>1, <1>2, <1>3, <1>4, <1>6, <3>1, <3>3 DEF Drawing, Writing
        <3> QED
            BY <3>2, <3>3
    <2> QED
        BY <2>1, <2>2 DEF Drawing
<1>8. ASSUME NEW c \in Clients
      PROVE  Streaming(c)'
    <2>1. ToPublish(c) \subseteq ToPublish(c)'
        <3>1. \A n : n \in ToPublish(c)' <=> \E v \in Writers : Promised(v, c)' /\ n \in Elems(batch[v])'
            BY DEF ToPublish, Promised
        <3>2. \A v \in Writers : Promised(v, c) => Promised(v, c)' /\ Elems(batch[v])' = Elems(batch[v])
            BY <1>1, <1>2, <1>3, <1>4 DEF Promised, Elems
        <3> QED
            BY <3>1, <3>2, Publishes
    <2> QED
        BY <1>2, <1>6, <2>1, StreamStays DEF streams, history
<1> QED
    BY <1>5, <1>7, <1>8 DEF EInv

\* The request is answered when all is sent.
LEMMA RespondStep ==
    ASSUME EInv, NEW w \in Writers, Respond(w)
    PROVE  EInv'
<1>1. TypeOK /\ Drawing /\ phase[w] = "publishing" /\ batch[w] = <<>>
    BY DEF EInv, Respond
<1>2. /\ phase' = [phase EXCEPT ![w] = "idle"] /\ targets' = [targets EXCEPT ![w] = {}]
      /\ project' = [project EXCEPT ![w] = AnyProject]
      /\ UNCHANGED <<nextval, block, stored, batch, streams, breaks, history>>
    BY DEF Respond
<1>3. /\ phase'[w] = "idle"
      /\ \A v \in Writers \ {w} : /\ phase'[v] = phase[v] /\ targets'[v] = targets[v]
                                  /\ project'[v] = project[v]
      /\ phase' \in [Writers -> {"idle", "drawing", "committed", "publishing"}]
      /\ targets' \in [Writers -> SUBSET Clients] /\ project' \in [Writers -> Projects]
    BY <1>1, <1>2, SomeProject DEF TypeOK
<1>4. TypeOK'
    BY <1>1, <1>2, <1>3, StreamTypes DEF TypeOK
<1>5. FlightGoesOn /\ InFlight' = InFlight /\ Numbers' = Numbers
    BY <1>2 DEF FlightGoesOn, InFlight, Numbers
<1>6. Drawing'
    <2>1. Below' /\ Apart' /\ OneRowPerSequence'
        BY <1>1, <1>2, <1>5 DEF Drawing, Below, Apart, OneRowPerSequence
    <2>2. ASSUME NEW v \in Writers PROVE Writing(v)'
        <3>1. CASE v = w
            BY <1>1, <1>2, <1>3, <3>1 DEF Writing
        <3>2. CASE v # w
            BY <1>1, <1>2, <1>3, <1>5, <3>2 DEF Drawing, Writing, Rows, Subscribed, streams
        <3> QED
            BY <3>1, <3>2
    <2> QED
        BY <2>1, <2>2 DEF Drawing
<1>7. ASSUME NEW c \in Clients
      PROVE  Streaming(c)'
    <2>1. ToPublish(c) \subseteq ToPublish(c)'
        <3>1. \A n : n \in ToPublish(c)' <=> \E v \in Writers : Promised(v, c)' /\ n \in Elems(batch[v])'
            BY DEF ToPublish, Promised
        <3>2. \A v \in Writers \ {w} : Promised(v, c) => Promised(v, c)'
            BY <1>2, <1>3 DEF Promised, Subscribed, streams
        <3>3. \A v \in Writers : Elems(batch[v])' = Elems(batch[v])
            BY <1>2 DEF Elems
        <3>4. Elems(batch[w]) = {}
            BY <1>1, NoMembers
        <3> QED
            BY <3>1, <3>2, <3>3, <3>4, Publishes
    <2> QED
        BY <1>2, <1>5, <2>1, StreamStays DEF streams, history
<1> QED
    BY <1>4, <1>6, <1>7 DEF EInv

\* The rows of a batch.
LEMMA RowsAre ==
    ASSUME NEW w
    PROVE  /\ \A e \in Rows(w) : /\ e.seq \in Elems(batch[w]) /\ e.project = project[w]
                                 /\ e.home = HomeOf[w]
           /\ \A d, e \in Rows(w) : d.seq = e.seq => d = e
           /\ \A n \in Elems(batch[w]) : \E e \in Rows(w) : e.seq = n /\ e.project = project[w]
<1> DEFINE Stored(n) == [seq |-> n, project |-> project[w], home |-> HomeOf[w]]
<1>1. \A n : Stored(n).seq = n /\ Stored(n).project = project[w] /\ Stored(n).home = HomeOf[w]
    OBVIOUS
<1>2. /\ \A e \in Rows(w) : \E n \in Elems(batch[w]) : e = Stored(n)
      /\ \A n \in Elems(batch[w]) : Stored(n) \in Rows(w)
    BY DEF Rows
<1> HIDE DEF Stored
<1> QED
    BY <1>1, <1>2

\* What one commit adds to a client's events, to those it is owed and to the rest.
LEMMA CommitOwn ==
    ASSUME NEW w, NEW c, stored' = stored \cup Rows(w)
    PROVE  /\ Own(c) \subseteq Own(c)'
           /\ \A n \in Own(c)' : n \in Own(c) \/ (n \in Elems(batch[w]) /\ project[w] = ProjectOf[c])
<1>1. \A n : n \in Own(c) <=> \E e \in stored : e.project = ProjectOf[c] /\ e.seq = n
    BY DEF Own
<1>2. \A n : n \in Own(c)' <=> \E e \in stored' : e.project = ProjectOf[c] /\ e.seq = n
    BY DEF Own
<1> QED
    BY <1>1, <1>2, RowsAre

\* The events of a request become visible.
LEMMA CommitStep ==
    ASSUME EInv, NEW w \in Writers, Commit(w)
    PROVE  EInv'
<1>1. TypeOK /\ Drawing /\ phase[w] = "drawing" /\ w \in Writers /\ HomeOf[w] \in Replicas
      /\ Writing(w) /\ Elems(batch[w]) \cap Numbers = {} /\ Elems(batch[w]) \subseteq InFlight
    BY ShapeAssumption, Flying DEF EInv, Commit, Drawing, Writing
<1>2. /\ stored' = stored \cup Rows(w) /\ phase' = [phase EXCEPT ![w] = "committed"]
      /\ UNCHANGED <<nextval, block, project, batch, targets, streams, breaks,
                     before, dropped, cut, overtaken>>
      /\ elsewhere' = [c \in Clients |->
            IF replica[c] # HomeOf[w] /\ Listening(c)
            THEN elsewhere[c] \cup Elems(batch[w]) ELSE elsewhere[c]]
    BY DEF Commit
<1>3. /\ phase'[w] = "committed" /\ \A v \in Writers \ {w} : phase'[v] = phase[v]
      /\ phase' \in [Writers -> {"idle", "drawing", "committed", "publishing"}]
    BY <1>1, <1>2 DEF TypeOK
<1>4. Elems(batch[w]) \subseteq Positive /\ project[w] \in Projects
    BY <1>1, Elements DEF TypeOK
<1>5. TypeOK'
    <2>1. stored' \subseteq [seq : Nat \ {0}, project : Projects, home : Replicas]
        BY <1>1, <1>2, <1>4 DEF TypeOK, Rows, Positive
    <2>2. elsewhere \in [Clients -> SUBSET (Nat \ {0})]
        BY <1>1 DEF TypeOK
    <2>3. elsewhere' \in [Clients -> SUBSET (Nat \ {0})]
        BY <1>2, <1>4, <2>2 DEF Positive
    <2>4. \A h \in {before', dropped', elsewhere', cut'} : h \in [Clients -> SUBSET (Nat \ {0})]
        BY <1>1, <1>2, <2>3 DEF TypeOK
    <2> QED
        BY <1>1, <1>2, <1>3, <2>1, <2>4 DEF TypeOK, streams
<1>6. InFlight' = InFlight /\ Numbers \subseteq Numbers'
      /\ \A n \in Numbers' : n \in Numbers \/ n \in Elems(batch[w])
    BY <1>2, RowsAre DEF InFlight, Numbers
<1>7. Drawing'
    <2>1. Below'
        BY <1>1, <1>2, <1>6, RowsAre DEF Drawing, Below
    <2>2. Apart'
        BY <1>1, <1>2, <1>6 DEF Drawing, Apart
    <2>3. OneRowPerSequence'
        <3>1. ASSUME NEW d \in stored, NEW e \in Rows(w) PROVE d.seq # e.seq
            BY <1>1, RowsAre DEF Numbers
        <3> QED
            BY <1>1, <1>2, <3>1, RowsAre DEF Drawing, OneRowPerSequence
    <2>4. ASSUME NEW v \in Writers PROVE Writing(v)'
        <3>1. Rows(v)' = Rows(v)
            BY <1>2 DEF Rows
        <3>2. CASE v = w
            BY <1>2, <1>3, <3>1, <3>2 DEF Writing
        <3>3. CASE v # w
            <4>1. Elems(batch[v]) \cap Elems(batch[w]) = {} /\ Writing(v)
                BY <1>1, <3>3 DEF Drawing, Apart
            <4> QED
                BY <1>2, <1>3, <1>6, <3>1, <3>3, <4>1 DEF Writing, Subscribed, streams
        <3> QED
            BY <3>2, <3>3
    <2> QED
        BY <2>1, <2>2, <2>3, <2>4 DEF Drawing
<1>8. ASSUME NEW c \in Clients
      PROVE  Streaming(c)'
    <2>1. Streaming(c)
        BY DEF EInv
    <2>2. Own(c) \subseteq Own(c)'
          /\ \A n \in Own(c)' : n \in Own(c) \/ (n \in Elems(batch[w]) /\ project[w] = ProjectOf[c])
        BY <1>2, CommitOwn
    <2>3. /\ UNCHANGED streams /\ before' = before /\ dropped' = dropped /\ cut' = cut
          /\ overtaken' = overtaken /\ elsewhere[c] \subseteq elsewhere'[c]
          /\ (replica[c] # HomeOf[w] /\ Listening(c) => Elems(batch[w]) \subseteq elsewhere'[c])
        BY <1>2
    <2>4. Explained(c) \subseteq Explained(c)'
        BY <2>3 DEF Explained
    <2>5. (OwnFrames(c) /\ Placed(c) /\ Ordered(c))'
        BY <2>1, <2>2, <2>3 DEF Streaming, OwnFrames, Placed, Ordered, streams
    <2>6. Warned(c)'
        BY <1>6, <2>1, <2>3 DEF Streaming, Warned, streams
    <2>7. ASSUME NEW n \in Elems(batch[w]), NEW k \in backfill[c] \cup {lastId[c]}, n < k
          PROVE  n \in overtaken
        BY <1>1, <2>1, <2>7 DEF Streaming, Warned
    <2>8. Filled(c)'
        BY <2>1, <2>2, <2>3, <2>7 DEF Streaming, Filled, streams
    <2>9. Behind(c)'
        <3> SUFFICES ASSUME lastId[c] # None, NEW n \in Own(c)', n \notin before[c], n <= lastId[c]
                     PROVE  n \in seen[c] \cup Explained(c)'
            BY <2>3 DEF Behind, streams
        <3>1. CASE n \in Own(c)
            BY <2>1, <2>4, <3>1 DEF Streaming, Behind
        <3>2. CASE n \in Elems(batch[w])
            <4>1. lastId[c] \in Numbers
                BY <1>1, <2>1, Known, Elements DEF Streaming, Placed
            <4>2. n # lastId[c] /\ n \in Nat /\ lastId[c] \in Nat
                BY <1>1, <1>4, <3>2, <4>1 DEF Positive, TypeOK
            <4>3. n \in overtaken
                BY <2>7, <3>2, <4>2
            <4> QED
                BY <2>3, <4>3 DEF Explained
        <3> QED
            BY <2>2, <3>1, <3>2
    <2>10. Gapless(c)'
        <3>1. Subscribed(c)' = Subscribed(c)
            BY <2>3 DEF Subscribed, streams
        <3>2. \A n : n \in After(c)' <=> n \in Own(c)' /\ n > lastId[c]
            BY <2>3 DEF After, streams
        <3>3. Asked(c) \subseteq Asked(c)'
            BY <2>2, <2>3, <3>2 DEF Asked, After, streams
        <3>4. \A n : n \in ToPublish(c)' <=> \E v \in Writers : Promised(v, c)' /\ n \in Elems(batch[v])'
            BY DEF ToPublish, Promised
        <3>5. /\ \A v \in Writers : Promised(v, c) => Promised(v, c)'
              /\ \A v \in Writers : Elems(batch[v])' = Elems(batch[v])
              /\ Subscribed(c) /\ replica[c] = HomeOf[w] => Promised(w, c)'
            BY <1>1, <1>2, <1>3, <3>1 DEF Promised, Elems, streams
        <3>6. ToPublish(c) \subseteq ToPublish(c)'
            BY <3>4, <3>5, Publishes
        <3>7. Coming(c) \subseteq Coming(c)'
            BY <2>3, <3>3, <3>6 DEF Coming, streams
        <3> SUFFICES ASSUME NEW n \in Owed(c)'
                     PROVE  n \in seen[c] \cup Coming(c)' \cup Explained(c)'
            BY <2>3 DEF Gapless, streams
        <3>8. n \in Own(c)' /\ n \notin before[c] /\ (lastId[c] # None \/ Subscribed(c))
            BY <2>3, <3>1 DEF Owed, streams
        <3>9. CASE n \in Own(c)
            <4>1. n \in Owed(c)
                BY <3>8, <3>9 DEF Owed
            <4> QED
                BY <2>1, <2>4, <3>7, <4>1 DEF Streaming, Gapless
        <3>10. CASE n \in Elems(batch[w])
            <4>1. CASE Subscribed(c) /\ replica[c] = HomeOf[w]
                <5>1. n \in ToPublish(c)'
                    BY <3>4, <3>5, <3>10, <4>1
                <5> QED
                    BY <5>1 DEF Coming
            <4>2. CASE replica[c] # HomeOf[w] /\ Listening(c)
                BY <2>3, <3>10, <4>2 DEF Explained
            <4>3. CASE lastId[c] # None /\ conn[c] # "live"
                <5>1. n \in Nat /\ lastId[c] \in Nat
                    BY <1>1, <1>4, <3>10 DEF Positive, TypeOK
                <5>2. CASE n > lastId[c]
                    BY <2>3, <3>2, <3>8, <4>3, <5>2 DEF Asked, Coming, streams
                <5>3. CASE n < lastId[c]
                    BY <2>3, <2>7, <3>10, <5>3 DEF Explained
                <5>4. n # lastId[c]
                    BY <1>1, <2>1, <3>10, <4>3, Known, Elements DEF Streaming, Placed
                <5> QED
                    BY <5>1, <5>2, <5>3, <5>4
            <4> QED
                BY <3>8, <4>1, <4>2, <4>3 DEF Listening, Subscribed
        <3> QED
            BY <2>2, <3>8, <3>9, <3>10
    <2> QED
        BY <2>5, <2>6, <2>8, <2>9, <2>10 DEF Streaming
<1> QED
    BY <1>5, <1>7, <1>8 DEF EInv

\* Blocks and batches that only lose numbers.
LEMMA BatchesShrink ==
    ASSUME TypeOK, Drawing, UNCHANGED <<nextval, stored>>,
           \A r \in Replicas : block'[r] = block[r] \/ block'[r] = <<>>,
           \A v \in Writers : Elems(batch[v])' \subseteq Elems(batch[v])
    PROVE  /\ Below' /\ Apart' /\ OneRowPerSequence' /\ FlightGoesOn
           /\ InFlight' \subseteq InFlight /\ Numbers' = Numbers
<1>1. \A r \in Replicas : Elems(block[r])' \subseteq Elems(block[r])
    BY DEF Elems
<1>2. InFlight' \subseteq InFlight
    <2>1. \A n : n \in InFlight' <=> \/ \E r \in Replicas : n \in Elems(block[r])'
                                     \/ \E v \in Writers : n \in Elems(batch[v])'
        BY DEF InFlight
    <2> QED
        BY <1>1, <2>1, Flying
<1>3. Numbers' = Numbers
    BY DEF Numbers
<1>4. FlightGoesOn
    BY <1>2 DEF FlightGoesOn
<1>5. Below' /\ OneRowPerSequence'
    BY <1>2 DEF Drawing, Below, OneRowPerSequence
<1>6. Apart'
    <2>1. \A r \in Replicas : Injective(block[r])'
        <3>1. \A r \in Replicas : block'[r] = <<>> => Injective(block[r])'
            BY DEF Injective
        <3>2. \A r \in Replicas : block'[r] = block[r] => Injective(block[r])'
            BY DEF Injective, Drawing, Apart
        <3> QED
            BY <3>1, <3>2
    <2>2. \A q, r \in Replicas : q # r => Elems(block[q])' \cap Elems(block[r])' = {}
        BY <1>1 DEF Drawing, Apart
    <2>3. \A r \in Replicas, v \in Writers : Elems(block[r])' \cap Elems(batch[v])' = {}
        BY <1>1 DEF Drawing, Apart
    <2>4. \A u, v \in Writers : u # v => Elems(batch[u])' \cap Elems(batch[v])' = {}
        BY DEF Drawing, Apart
    <2>5. \A r \in Replicas : Elems(block[r])' \cap Numbers' = {}
        BY <1>1, <1>3 DEF Drawing, Apart
    <2> QED
        BY <2>1, <2>2, <2>3, <2>4, <2>5 DEF Apart
<1> QED
    BY <1>2, <1>3, <1>4, <1>5, <1>6

\* One event is sent to the subscribers of its project.
LEMMA SendStep ==
    ASSUME EInv, NEW w \in Writers, Send(w)
    PROVE  EInv'
<1> DEFINE n == Head(batch[w])
           Takes(c) == c \in Receivers(w) /\ Room(c)
<1>1. TypeOK /\ Drawing /\ phase[w] = "publishing" /\ batch[w] # <<>> /\ Rows(w) \subseteq stored
    BY DEF EInv, Send, Drawing, Writing
<1>2. /\ channel' = [c \in Clients |-> IF Takes(c) THEN Append(channel[c], n) ELSE channel[c]]
      /\ dropped' = [c \in Clients |->
                       IF c \in Receivers(w) /\ ~Takes(c) THEN dropped[c] \cup {n} ELSE dropped[c]]
      /\ overtaken' = overtaken \cup Overtakes({n})
      /\ batch' = [batch EXCEPT ![w] = Tail(batch[w])]
      /\ UNCHANGED <<nextval, block, stored, phase, project, targets, conn, replica,
                     backfill, lastId, seen, breaks, before, elsewhere, cut>>
    BY DEF Send
<1>3. /\ n \in Positive /\ Tail(batch[w]) \in Seq(Positive)
      /\ Elems(batch[w]) = {n} \cup Elems(Tail(batch[w]))
    BY <1>1, HeadAndTail, Elements
<1>4. n \in InFlight
    BY <1>3, Flying
<1> HIDE DEF n
<1>5. Overtakes({n}) = {m \in InFlight : m < n}
    BY DEF Overtakes
<1>6. /\ batch'[w] = Tail(batch[w]) /\ \A v \in Writers \ {w} : batch'[v] = batch[v]
      /\ batch' \in [Writers -> Seq(Nat \ {0})]
    BY <1>1, <1>2, <1>3 DEF TypeOK, Positive
<1>7. /\ Elems(batch[w]) = {n} \cup Elems(batch[w])'
      /\ \A v \in Writers \ {w} : Elems(batch[v])' = Elems(batch[v])
    BY <1>3, <1>6 DEF Elems
<1>8. \A c \in Clients : /\ channel[c] \in Seq(Positive) /\ Len(channel[c]) \in Nat
                         /\ Len(channel[c]) <= BufferSize /\ BufferSize \in Nat
    BY <1>1, Elements, SizeAssumption, SMTT(30) DEF TypeOK
<1>9. TypeOK'
    <2>1. ASSUME NEW c \in Clients
          PROVE  channel'[c] \in Seq(Nat \ {0}) /\ Len(channel'[c]) <= BufferSize
        <3>1. CASE Takes(c)
            <4>1. channel'[c] = Append(channel[c], n) /\ Len(channel[c]) < BufferSize
                BY <1>2, <3>1 DEF Room
            <4>2. Len(channel'[c]) = Len(channel[c]) + 1 /\ channel'[c] \in Seq(Positive)
                BY <1>3, <1>8, <4>1, Appended
            <4> QED
                BY <1>8, <4>1, <4>2 DEF Positive
        <3>2. CASE ~Takes(c)
            BY <1>2, <1>8, <3>2 DEF Positive
        <3> QED
            BY <3>1, <3>2
    <2>2. channel' \in [Clients -> Seq(Nat \ {0})]
        BY <1>2, <2>1
    <2>3. dropped' \in [Clients -> SUBSET (Nat \ {0})]
        <3>1. dropped \in [Clients -> SUBSET (Nat \ {0})]
            BY <1>1 DEF TypeOK
        <3> HIDE DEF Takes
        <3> QED
            BY <1>2, <1>3, <3>1 DEF Positive
    <2>4. \A h \in {before', dropped', elsewhere', cut'} : h \in [Clients -> SUBSET (Nat \ {0})]
        BY <1>1, <1>2, <2>3 DEF TypeOK
    <2>5. overtaken' \subseteq Nat \ {0}
        BY <1>1, <1>2, <1>5, Elements DEF TypeOK, Positive
    <2> QED
        BY <1>1, <1>2, <1>6, <2>1, <2>2, <2>4, <2>5 DEF TypeOK
<1>10. \A v \in Writers : Elems(batch[v])' \subseteq Elems(batch[v])
    BY <1>7
<1>11. /\ Below' /\ Apart' /\ OneRowPerSequence'
       /\ InFlight' \subseteq InFlight /\ Numbers' = Numbers
    BY <1>1, <1>2, <1>10, BatchesShrink
<1>12. Drawing'
    <2>1. ASSUME NEW v \in Writers PROVE Writing(v)'
        <3>1. Writing(v)
            BY <1>1 DEF Drawing
        <3>2. \A c \in Clients : Subscribed(c)' = Subscribed(c)
            BY <1>2 DEF Subscribed
        <3>3. Rows(v)' \subseteq Rows(v)
            BY <1>2, <1>10 DEF Rows
        <3>4. targets[v] \subseteq Clients
            BY <1>1 DEF TypeOK
        <3>5. phase[v] = "idle" => v # w
            BY <1>1
        <3> QED
            BY <1>2, <1>6, <1>10, <1>11, <3>1, <3>2, <3>3, <3>4, <3>5 DEF Writing
    <2> QED
        BY <1>11, <2>1 DEF Drawing
<1>13. ASSUME NEW c \in Clients
      PROVE  Streaming(c)'
    <2>1. Streaming(c)
        BY DEF EInv
    <2>2. Own(c)' = Own(c) /\ Subscribed(c)' = Subscribed(c)
        BY <1>2 DEF Own, Subscribed
    <2>3. /\ (c \in Receivers(w) => n \in Own(c))
          /\ (c \in targets[w] /\ n \in Own(c) => c \in Receivers(w))
        <3>1. PICK e \in stored : e.seq = n /\ e.project = project[w]
            BY <1>1, <1>3, RowsAre
        <3>2. n \in Own(c) => ProjectOf[c] = project[w]
            <4>1. \A d \in stored : d.seq = n => d = e
                BY <1>1, <3>1 DEF Drawing, OneRowPerSequence
            <4> QED
                BY <3>1, <4>1 DEF Own
        <3> QED
            BY <3>1, <3>2 DEF Receivers, Own
    <2>4. /\ Elems(channel[c]) \subseteq Elems(channel[c])'
          /\ Elems(channel[c])' \subseteq Elems(channel[c]) \cup {n}
          /\ (n \in Elems(channel[c])' => n \in Own(c))
          /\ (c \in Receivers(w) => n \in Elems(channel[c])' \cup dropped'[c])
          /\ dropped[c] \subseteq dropped'[c]
        <3>1. CASE Takes(c)
            <4>1. channel'[c] = Append(channel[c], n) /\ dropped'[c] = dropped[c]
                BY <1>2, <3>1
            <4>2. Elems(channel[c])' = Elems(channel[c]) \cup {n}
                <5>1. Elems(Append(channel[c], n)) = Elems(channel[c]) \cup {n}
                    BY <1>3, <1>8, Appended
                <5> QED
                    BY <4>1, <5>1 DEF Elems
            <4> QED
                BY <2>3, <3>1, <4>1, <4>2
        <3>2. CASE ~Takes(c)
            <4>1. channel'[c] = channel[c]
                BY <1>2, <3>2
            <4>2. dropped[c] \subseteq dropped'[c] /\ (c \in Receivers(w) => n \in dropped'[c])
                BY <1>2, <3>2
            <4>3. Elems(channel[c])' = Elems(channel[c])
                BY <4>1 DEF Elems
            <4> QED
                BY <2>1, <4>2, <4>3 DEF Streaming, OwnFrames
        <3> QED
            BY <3>1, <3>2
    <2>5. Explained(c) \subseteq Explained(c)'
        BY <1>2, <2>4 DEF Explained
    <2>6. OwnFrames(c)'
        BY <1>2, <2>1, <2>2, <2>4 DEF Streaming, OwnFrames
    <2>7. Placed(c)'
        BY <1>2, <2>1 DEF Streaming, Placed
    <2>8. Warned(c)'
        <3>1. \A m \in InFlight' : m < n => m \in overtaken'
            BY <1>2, <1>5, <1>11
        <3> QED
            BY <1>2, <1>11, <2>1, <2>4, <3>1 DEF Streaming, Warned
    <2>9. Ordered(c)'
        <3>1. CASE Takes(c)
            <4> DEFINE l == Len(channel[c])
            <4>1. channel'[c] = Append(channel[c], n)
                BY <1>2, <3>1
            <4>2. /\ l \in Nat /\ Len(channel'[c]) = l + 1 /\ channel'[c][l + 1] = n
                  /\ \A i \in 1 .. l : channel'[c][i] = channel[c][i] /\ channel[c][i] \in Elems(channel[c])
                BY <1>3, <1>8, <4>1, Appended, Members
            <4>3. \A k \in Elems(channel[c]) : n < k => n \in overtaken
                BY <1>4, <2>1 DEF Streaming, Warned
            <4> HIDE DEF l
            <4>4. ASSUME NEW i \in 1 .. l + 1, NEW j \in 1 .. l + 1, i < j, channel'[c][j] < channel'[c][i]
                  PROVE  channel'[c][j] \in overtaken
                <5>1. i \in 1 .. l
                    BY <4>2, <4>4
                <5>2. CASE j = l + 1
                    BY <4>2, <4>3, <4>4, <5>1, <5>2
                <5>3. CASE j \in 1 .. l
                    BY <2>1, <4>2, <4>4, <5>1, <5>3 DEF Streaming, Ordered, l
                <5> QED
                    BY <4>2, <5>2, <5>3
            <4> QED
                BY <1>2, <4>2, <4>4 DEF Ordered
        <3>2. CASE ~Takes(c)
            BY <1>2, <2>1, <3>2 DEF Streaming, Ordered
        <3> QED
            BY <3>1, <3>2
    <2>10. Filled(c)'
        BY <1>2, <2>1, <2>2 DEF Streaming, Filled
    <2>11. Behind(c)'
        BY <1>2, <2>1, <2>2, <2>5 DEF Streaming, Behind
    <2>12. Gapless(c)'
        <3>1. Asked(c)' = Asked(c) /\ Owed(c)' = Owed(c) /\ Owed(c) \subseteq Own(c)
            BY <1>2, <2>2 DEF Asked, After, Owed
        <3>2. \A m : m \in ToPublish(c)' <=> \E v \in Writers : Promised(v, c)' /\ m \in Elems(batch[v])'
            BY DEF ToPublish, Promised
        <3>3. \A v \in Writers : Promised(v, c)' <=> Promised(v, c)
            BY <1>2, <2>2 DEF Promised
        <3>4. \A m \in ToPublish(c) : m \in ToPublish(c)' \/ (m = n /\ c \in targets[w])
            BY <1>1, <1>7, <3>2, <3>3, Publishes DEF Promised
        <3>5. ASSUME NEW m \in Owed(c)
              PROVE  m \in seen[c] \cup Coming(c)' \cup Explained(c)'
            <4>1. CASE m \in ToPublish(c)
                <5>1. CASE m = n /\ c \in targets[w]
                    BY <2>3, <2>4, <3>1, <3>5, <5>1 DEF Coming, Explained
                <5> QED
                    BY <3>4, <4>1, <5>1 DEF Coming
            <4>2. CASE m \notin ToPublish(c)
                BY <1>2, <2>1, <2>4, <2>5, <3>1, <3>5, <4>2 DEF Streaming, Gapless, Coming
            <4> QED
                BY <4>1, <4>2
        <3> QED
            BY <1>2, <3>1, <3>5 DEF Gapless
    <2> QED
        BY <2>6, <2>7, <2>8, <2>9, <2>10, <2>11, <2>12 DEF Streaming
<1> QED
    BY <1>9, <1>12, <1>13 DEF EInv

(***************************************************************************)
(* The connection                                                          *)
(***************************************************************************)

\* A client does not notice what another one does.
LEMMA OthersStream ==
    ASSUME EInv, NEW q \in Clients, UNCHANGED <<nextval, block, stored, requests>>,
           conn'[q] = conn[q], replica'[q] = replica[q], lastId'[q] = lastId[q], seen'[q] = seen[q],
           backfill'[q] = backfill[q], channel'[q] = channel[q], before'[q] = before[q],
           UNCHANGED <<dropped, elsewhere>>, cut[q] \subseteq cut'[q], overtaken \subseteq overtaken'
    PROVE  Streaming(q)'
<1>1. FlightGoesOn
    BY DEF FlightGoesOn, InFlight, requests
<1>2. ToPublish(q)' = ToPublish(q)
    BY DEF ToPublish, Subscribed, requests
<1> QED
    BY <1>1, <1>2, StreamStays

\* The requests go on while whoever is subscribed stays so.
LEMMA SubscribersStay ==
    ASSUME EInv, UNCHANGED <<nextval, block, stored, requests>>,
           \A q \in Clients : Subscribed(q) => Subscribed(q)' /\ replica'[q] = replica[q]
    PROVE  Drawing' /\ FlightGoesOn
<1>1. \A w \in Writers : targets[w] \subseteq Clients /\ Writing(w)
    BY DEF EInv, TypeOK, Drawing
<1>2. \A w \in Writers : phase[w] = "publishing" =>
          \A c \in targets'[w] : Subscribed(c)' /\ replica'[c] = HomeOf[w]
    BY <1>1 DEF Writing, requests
<1> QED
    BY <1>2, DrawingStays DEF requests

\* What is the same for every step of a stream.
LEMMA SameStore ==
    ASSUME UNCHANGED <<nextval, block, stored, requests>>
    PROVE  /\ InFlight' = InFlight /\ Numbers' = Numbers
           /\ \A c : Own(c)' = Own(c)
BY DEF InFlight, Numbers, Own, requests

\* A client connects.
LEMMA ConnectStep ==
    ASSUME EInv, NEW c \in Clients, NEW r \in Replicas, Connect(c, r)
    PROVE  EInv'
<1>1. /\ TypeOK /\ conn[c] = "down" /\ conn' = [conn EXCEPT ![c] = "open"]
      /\ replica' = [replica EXCEPT ![c] = r]
      /\ UNCHANGED <<nextval, block, stored, requests, channel, backfill, lastId, seen, breaks, history>>
    BY DEF Connect, EInv
<1>2. /\ conn'[c] = "open" /\ conn' \in [Clients -> {"down", "open", "subscribed", "live"}]
      /\ replica' \in [Clients -> Replicas \cup {NoReplica}]
      /\ \A q \in Clients \ {c} : conn'[q] = conn[q] /\ replica'[q] = replica[q]
    BY <1>1 DEF TypeOK
<1>3. TypeOK'
    BY <1>1, <1>2 DEF TypeOK, requests, history
<1>4. ~Subscribed(c) /\ ~Subscribed(c)' /\ \A q \in Clients \ {c} : Subscribed(q)' = Subscribed(q)
    BY <1>1, <1>2 DEF Subscribed
<1>5. Drawing'
    BY <1>1, <1>2, <1>4, SubscribersStay
<1>6. ASSUME NEW q \in Clients, q # c PROVE Streaming(q)'
    BY <1>1, <1>2, <1>6, OthersStream DEF history
<1>7. Streaming(c)'
    <2>1. Streaming(c)
        BY DEF EInv
    <2>2. InFlight' = InFlight /\ Numbers' = Numbers /\ Own(c)' = Own(c) /\ Explained(c)' = Explained(c)
        BY <1>1, SameStore DEF Explained, history
    <2>3. (OwnFrames(c) /\ Placed(c) /\ Warned(c) /\ Ordered(c) /\ Filled(c) /\ Behind(c))'
        BY <1>1, <2>1, <2>2 DEF Streaming, OwnFrames, Placed, Warned, Ordered, Filled, Behind, history
    <2>4. ToPublish(c) \subseteq ToPublish(c)'
        BY <1>1, <1>4 DEF ToPublish, requests
    <2>5. Asked(c)' = Asked(c)
        BY <1>1, <1>2, <2>2 DEF Asked, After
    <2>6. Owed(c)' = Owed(c)
        BY <1>1, <1>4, <2>2 DEF Owed, history
    <2>7. Gapless(c)'
        BY <1>1, <2>1, <2>2, <2>4, <2>5, <2>6 DEF Streaming, Gapless, Coming
    <2> QED
        BY <2>3, <2>7 DEF Streaming
<1> QED
    BY <1>3, <1>5, <1>6, <1>7 DEF EInv

\* The handler subscribes before it reads.
LEMMA SubscribeStep ==
    ASSUME EInv, NEW c \in Clients, Subscribe(c)
    PROVE  EInv'
<1>1. /\ TypeOK /\ conn[c] = "open" /\ conn' = [conn EXCEPT ![c] = "subscribed"]
      /\ before' = [before EXCEPT ![c] = IF lastId[c] = None THEN Own(c) ELSE before[c]]
      /\ UNCHANGED <<nextval, block, stored, requests, replica, channel, backfill,
                     lastId, seen, breaks, dropped, elsewhere, cut, overtaken>>
    BY DEF Subscribe, EInv
<1>2. before \in [Clients -> SUBSET (Nat \ {0})] /\ Own(c) \subseteq Positive
    BY <1>1, Known DEF TypeOK
<1>3. /\ conn'[c] = "subscribed" /\ conn' \in [Clients -> {"down", "open", "subscribed", "live"}]
      /\ \A q \in Clients \ {c} : conn'[q] = conn[q] /\ before'[q] = before[q]
      /\ before'[c] = IF lastId[c] = None THEN Own(c) ELSE before[c]
      /\ before' \in [Clients -> SUBSET (Nat \ {0})]
    BY <1>1, <1>2 DEF TypeOK, Positive
<1>4. TypeOK'
    <2>1. \A h \in {before', dropped', elsewhere', cut'} : h \in [Clients -> SUBSET (Nat \ {0})]
        BY <1>1, <1>3, SMTT(30) DEF TypeOK
    <2> QED
        BY <1>1, <1>3, <2>1 DEF TypeOK, requests
<1>5. ~Subscribed(c) /\ Subscribed(c)' /\ \A q \in Clients \ {c} : Subscribed(q)' = Subscribed(q)
    BY <1>1, <1>3 DEF Subscribed
<1>6. Drawing'
    BY <1>1, <1>5, SubscribersStay
<1>7. ASSUME NEW q \in Clients, q # c PROVE Streaming(q)'
    BY <1>1, <1>3, <1>7, OthersStream
<1>8. Streaming(c)'
    <2>1. Streaming(c)
        BY DEF EInv
    <2>2. InFlight' = InFlight /\ Numbers' = Numbers /\ Own(c)' = Own(c) /\ Explained(c)' = Explained(c)
        BY <1>1, SameStore DEF Explained
    <2>3. (OwnFrames(c) /\ Placed(c) /\ Warned(c) /\ Ordered(c) /\ Filled(c))'
        BY <1>1, <2>1, <2>2 DEF Streaming, OwnFrames, Placed, Warned, Ordered, Filled
    <2>4. Behind(c)'
        BY <1>1, <1>3, <2>1, <2>2 DEF Streaming, Behind
    <2>5. ToPublish(c) \subseteq ToPublish(c)'
        BY <1>1, <1>5 DEF ToPublish, requests
    <2>6. Asked(c)' = Asked(c)
        BY <1>1, <1>3, <2>2 DEF Asked, After
    <2>7. Owed(c)' \subseteq Owed(c)
        BY <1>1, <1>3, <1>5, <2>2 DEF Owed
    <2>8. Gapless(c)'
        BY <1>1, <2>1, <2>2, <2>5, <2>6, <2>7 DEF Streaming, Gapless, Coming
    <2> QED
        BY <2>3, <2>4, <2>8 DEF Streaming
<1> QED
    BY <1>4, <1>6, <1>7, <1>8 DEF EInv

\* The backfill has what was missed, or leaves it out and says so.
LEMMA BackfillStep ==
    ASSUME EInv, NEW c \in Clients, StartBackfill(c)
    PROVE  EInv'
<1> DEFINE frames == BackfillFrames(c)
<1>1. /\ TypeOK /\ conn[c] = "subscribed" /\ conn' = [conn EXCEPT ![c] = "live"]
      /\ backfill' = [backfill EXCEPT ![c] = frames]
      /\ cut' = [cut EXCEPT ![c] =
                   IF lastId[c] = None THEN cut[c] ELSE cut[c] \cup (After(c) \ frames)]
      /\ overtaken' = overtaken \cup (Overtakes(frames) \ Numbers)
      /\ UNCHANGED <<nextval, block, stored, requests, replica, channel, lastId, seen,
                     breaks, before, dropped, elsewhere>>
    BY DEF StartBackfill, EInv, Numbers
<1>2. /\ frames \subseteq After(c) /\ (lastId[c] = None => frames = {})
      /\ After(c) \subseteq Own(c) /\ Own(c) \subseteq Positive
    BY Known DEF BackfillFrames, Oldest, After
<1>3. cut \in [Clients -> SUBSET (Nat \ {0})]
    BY <1>1 DEF TypeOK
<1>4. Overtakes(frames) = {m \in InFlight : \E n \in frames : m < n}
    BY DEF Overtakes
<1> HIDE DEF frames
<1>5. /\ conn'[c] = "live" /\ conn' \in [Clients -> {"down", "open", "subscribed", "live"}]
      /\ backfill'[c] = frames /\ backfill' \in [Clients -> SUBSET (Nat \ {0})]
      /\ cut'[c] = (IF lastId[c] = None THEN cut[c] ELSE cut[c] \cup (After(c) \ frames))
      /\ cut' \in [Clients -> SUBSET (Nat \ {0})]
      /\ \A q \in Clients \ {c} : conn'[q] = conn[q] /\ backfill'[q] = backfill[q] /\ cut'[q] = cut[q]
    BY <1>1, <1>2, <1>3 DEF TypeOK, Positive
<1>6. TypeOK'
    <2>1. \A h \in {before', dropped', elsewhere', cut'} : h \in [Clients -> SUBSET (Nat \ {0})]
        <3>1. \A h \in {before, dropped, elsewhere} : h \in [Clients -> SUBSET (Nat \ {0})]
            BY <1>1 DEF TypeOK
        <3>2. before' = before /\ dropped' = dropped /\ elsewhere' = elsewhere
            BY <1>1
        <3> QED
            BY <1>5, <3>1, <3>2
    <2>2. overtaken' \subseteq Nat \ {0}
        BY <1>1, <1>4, Elements DEF TypeOK, Positive
    <2> QED
        BY <1>1, <1>5, <2>1, <2>2 DEF TypeOK, requests
<1>7. Subscribed(c) /\ Subscribed(c)' /\ \A q \in Clients \ {c} : Subscribed(q)' = Subscribed(q)
    BY <1>1, <1>5 DEF Subscribed
<1>8. Drawing'
    BY <1>1, <1>7, SubscribersStay
<1>9. ASSUME NEW q \in Clients, q # c PROVE Streaming(q)'
    BY <1>1, <1>5, <1>9, OthersStream
<1>10. Streaming(c)'
    <2>1. Streaming(c) /\ backfill[c] = {}
        BY <1>1 DEF EInv, Streaming, Placed
    <2>2. InFlight' = InFlight /\ Numbers' = Numbers /\ Own(c)' = Own(c)
        BY <1>1, SameStore
    <2>3. Explained(c) \subseteq Explained(c)'
        BY <1>1, <1>5 DEF Explained
    <2>4. (OwnFrames(c) /\ Placed(c) /\ Ordered(c))'
        BY <1>1, <1>2, <1>5, <2>1, <2>2 DEF Streaming, OwnFrames, Placed, Ordered, After
    <2>5. Warned(c)'
        BY <1>1, <1>4, <1>5, <2>1, <2>2 DEF Streaming, Warned
    <2>6. Filled(c)'
        BY <1>1, <1>2, <1>5, <2>2 DEF Filled, After
    <2>7. Behind(c)'
        BY <1>1, <2>1, <2>2, <2>3 DEF Streaming, Behind
    <2>8. ToPublish(c)' = ToPublish(c)
        BY <1>1, <1>7 DEF ToPublish, requests
    <2>9. Asked(c) \subseteq backfill'[c] \cup cut'[c]
        BY <1>5 DEF Asked
    <2>10. Owed(c)' = Owed(c)
        BY <1>1, <1>7, <2>2 DEF Owed
    <2>11. Gapless(c)'
        BY <1>1, <2>1, <2>3, <2>8, <2>9, <2>10 DEF Streaming, Gapless, Coming, Explained
    <2> QED
        BY <2>4, <2>5, <2>6, <2>7, <2>11 DEF Streaming
<1> QED
    BY <1>6, <1>8, <1>9, <1>10 DEF EInv

\* A frame of the backfill is read.
LEMMA ReadBackfillStep ==
    ASSUME EInv, NEW c \in Clients, ReadBackfill(c)
    PROVE  EInv'
<1>1. PICK n \in backfill[c] : /\ \A m \in backfill[c] : n <= m
                               /\ backfill' = [backfill EXCEPT ![c] = @ \ {n}]
                               /\ Read(c, n)
    BY DEF ReadBackfill
<1>2. /\ TypeOK /\ conn[c] = "live" /\ n \in Own(c) /\ n \in Positive /\ n > lastId[c]
      /\ backfill[c] \subseteq Own(c) /\ Own(c) \subseteq Positive
    BY <1>1, Known DEF ReadBackfill, EInv, Streaming, Placed
<1>3. /\ lastId' = [lastId EXCEPT ![c] = n] /\ seen' = [seen EXCEPT ![c] = @ \cup {n}]
      /\ UNCHANGED <<nextval, block, stored, requests, conn, replica, channel, breaks, history>>
    BY <1>1 DEF Read, ReadBackfill
<1>4. /\ lastId'[c] = n /\ lastId' \in [Clients -> Nat]
      /\ seen'[c] = seen[c] \cup {n} /\ seen' \in [Clients -> SUBSET (Nat \ {0})]
      /\ backfill'[c] = backfill[c] \ {n} /\ backfill' \in [Clients -> SUBSET (Nat \ {0})]
      /\ \A q \in Clients \ {c} : lastId'[q] = lastId[q] /\ seen'[q] = seen[q] /\ backfill'[q] = backfill[q]
    BY <1>1, <1>2, <1>3 DEF TypeOK, Positive
<1>5. TypeOK'
    BY <1>2, <1>3, <1>4 DEF TypeOK, requests, history
<1>6. \A q \in Clients : Subscribed(q)' = Subscribed(q)
    BY <1>3 DEF Subscribed
<1>7. Drawing'
    BY <1>3, <1>6, SubscribersStay
<1>8. ASSUME NEW q \in Clients, q # c PROVE Streaming(q)'
    BY <1>3, <1>4, <1>8, OthersStream DEF history
<1>9. Streaming(c)'
    <2>1. Streaming(c) /\ Subscribed(c) /\ lastId[c] \in Nat
        BY <1>2 DEF EInv, Subscribed, TypeOK
    <2>2. InFlight' = InFlight /\ Numbers' = Numbers /\ Own(c)' = Own(c) /\ Explained(c)' = Explained(c)
        BY <1>3, SameStore DEF Explained, history
    <2>3. (OwnFrames(c) /\ Ordered(c))'
        BY <1>2, <1>3, <1>4, <2>1, <2>2 DEF Streaming, OwnFrames, Ordered, history
    <2>4. Placed(c)'
        BY <1>1, <1>2, <1>3, <1>4, <2>1 DEF Streaming, Placed, Positive
    <2>5. Warned(c)'
        BY <1>1, <1>3, <1>4, <2>1, <2>2 DEF Streaming, Warned, history
    <2>6. Filled(c)'
        <3> SUFFICES ASSUME NEW k \in backfill[c], NEW m \in Own(c), n < m, m < k
                     PROVE  m \in (backfill[c] \ {n}) \cup cut[c] \cup overtaken
            BY <1>3, <1>4, <2>2 DEF Filled, history
        <3>1. lastId[c] < m /\ m # n
            BY <1>2, <2>1 DEF Positive
        <3> QED
            BY <2>1, <3>1 DEF Streaming, Filled
    <2>7. Behind(c)'
        <3> SUFFICES ASSUME NEW m \in Own(c), m \notin before[c], m <= n
                     PROVE  m \in seen[c] \cup {n} \cup Explained(c)
            BY <1>3, <1>4, <2>2 DEF Behind, history
        <3>1. m \in Nat /\ m > 0 /\ n \in Nat
            BY <1>2 DEF Positive
        <3>2. CASE m <= lastId[c]
            BY <2>1, <3>1, <3>2 DEF Streaming, Behind, None
        <3>3. CASE lastId[c] < m /\ m < n
            BY <1>1, <2>1, <3>1, <3>3 DEF Streaming, Filled, Explained
        <3> QED
            BY <2>1, <3>1, <3>2, <3>3
    <2>8. ToPublish(c)' = ToPublish(c) /\ Asked(c)' = Asked(c) /\ Asked(c) = {}
        BY <1>2, <1>3 DEF ToPublish, Subscribed, requests, Asked
    <2>9. Owed(c)' = Owed(c)
        BY <1>3, <1>6, <2>1, <2>2 DEF Owed, history
    <2>10. Gapless(c)'
        BY <1>3, <1>4, <2>1, <2>2, <2>8, <2>9 DEF Streaming, Gapless, Coming
    <2> QED
        BY <2>3, <2>4, <2>5, <2>6, <2>7, <2>10 DEF Streaming
<1> QED
    BY <1>5, <1>7, <1>8, <1>9 DEF EInv

\* A live frame is read.  It may be older than the last one: what it leaves behind
\* has been overtaken.
LEMMA ReadLiveStep ==
    ASSUME EInv, NEW c \in Clients, ReadLive(c)
    PROVE  EInv'
<1> DEFINE n == Head(channel[c])
<1>1. /\ TypeOK /\ conn[c] = "live" /\ backfill[c] = {} /\ channel[c] # <<>>
      /\ channel' = [channel EXCEPT ![c] = Tail(channel[c])]
      /\ lastId' = [lastId EXCEPT ![c] = n] /\ seen' = [seen EXCEPT ![c] = seen[c] \cup {n}]
      /\ UNCHANGED <<nextval, block, stored, requests, conn, replica, backfill, breaks, history>>
    BY DEF ReadLive, Read, EInv
<1>2. /\ n \in Positive /\ Tail(channel[c]) \in Seq(Positive)
      /\ Len(channel[c]) \in Nat /\ Len(channel[c]) > 0 /\ Len(Tail(channel[c])) = Len(channel[c]) - 1
      /\ n = channel[c][1] /\ \A i \in 1 .. Len(Tail(channel[c])) : Tail(channel[c])[i] = channel[c][i + 1]
      /\ Elems(channel[c]) = {n} \cup Elems(Tail(channel[c]))
    BY <1>1, HeadAndTail, Elements
<1> HIDE DEF n
<1>3. Own(c) \subseteq Positive /\ n \in Own(c) /\ lastId[c] \in Nat
    BY <1>2, Known
<1>4. /\ lastId'[c] = n /\ lastId' \in [Clients -> Nat]
      /\ seen'[c] = seen[c] \cup {n} /\ seen' \in [Clients -> SUBSET (Nat \ {0})]
      /\ channel'[c] = Tail(channel[c]) /\ channel' \in [Clients -> Seq(Nat \ {0})]
      /\ \A q \in Clients \ {c} : lastId'[q] = lastId[q] /\ seen'[q] = seen[q] /\ channel'[q] = channel[q]
    BY <1>1, <1>2 DEF TypeOK, Positive
<1>5. TypeOK'
    <2>1. \A q \in Clients : Len(channel'[q]) <= BufferSize
        <3>1. Len(channel[c]) <= BufferSize /\ BufferSize \in Nat
            BY <1>1, SizeAssumption DEF TypeOK
        <3>2. Len(channel'[c]) <= BufferSize
            BY <1>2, <1>4, <3>1
        <3> QED
            BY <1>1, <1>4, <3>2 DEF TypeOK
    <2> QED
        BY <1>1, <1>4, <2>1 DEF TypeOK, requests, history
<1>6. \A q \in Clients : Subscribed(q)' = Subscribed(q)
    BY <1>1 DEF Subscribed
<1>7. Drawing'
    BY <1>1, <1>6, SubscribersStay
<1>8. ASSUME NEW q \in Clients, q # c PROVE Streaming(q)'
    BY <1>1, <1>4, <1>8, OthersStream DEF history
<1>9. Streaming(c)'
    <2>1. Streaming(c) /\ Subscribed(c)
        BY <1>1 DEF EInv, Subscribed
    <2>2. InFlight' = InFlight /\ Numbers' = Numbers /\ Own(c)' = Own(c) /\ Explained(c)' = Explained(c)
        BY <1>1, SameStore DEF Explained, history
    <2>3. Elems(channel[c])' = Elems(Tail(channel[c]))
        BY <1>4 DEF Elems
    <2>4. (OwnFrames(c) /\ Placed(c) /\ Filled(c))'
        BY <1>1, <1>2, <1>3, <1>4, <2>1, <2>2, <2>3 DEF Streaming, OwnFrames, Placed, Filled
    <2>5. Warned(c)'
        BY <1>1, <1>2, <1>4, <2>1, <2>2, <2>3 DEF Streaming, Warned, history
    <2>6. Ordered(c)'
        <3> SUFFICES ASSUME NEW i \in 1 .. Len(Tail(channel[c])), NEW j \in 1 .. Len(Tail(channel[c])),
                            i < j, Tail(channel[c])[j] < Tail(channel[c])[i]
                     PROVE  Tail(channel[c])[j] \in overtaken
            BY <1>1, <1>4 DEF Ordered, history
        <3>1. /\ i + 1 \in 1 .. Len(channel[c]) /\ j + 1 \in 1 .. Len(channel[c]) /\ i + 1 < j + 1
              /\ channel[c][j + 1] < channel[c][i + 1]
            BY <1>2
        <3> QED
            BY <1>2, <2>1, <3>1 DEF Streaming, Ordered
    <2>7. Behind(c)'
        <3> SUFFICES ASSUME NEW m \in Own(c), m \notin before[c], m <= n
                     PROVE  m \in seen[c] \cup {n} \cup Explained(c)
            BY <1>1, <1>4, <2>2 DEF Behind, history
        <3>1. m \in Nat /\ n \in Nat
            BY <1>2, <1>3 DEF Positive
        <3>2. m \in Owed(c) /\ Asked(c) = {}
            BY <1>1, <2>1 DEF Owed, Asked
        <3>3. CASE m \in Elems(channel[c])
            <4>1. PICK j \in 1 .. Len(channel[c]) : channel[c][j] = m
                BY <3>3, Members
            <4>2. CASE j = 1
                BY <1>2, <4>1, <4>2
            <4>3. CASE j # 1 /\ m # n
                <5>1. 1 \in 1 .. Len(channel[c]) /\ 1 < j /\ channel[c][j] < channel[c][1]
                    BY <1>2, <3>1, <4>1, <4>3
                <5> QED
                    BY <2>1, <4>1, <5>1 DEF Streaming, Ordered, Explained
            <4> QED
                BY <4>2, <4>3
        <3>4. CASE m \in ToPublish(c) /\ m # n
            <4>1. m \in InFlight /\ m < n
                BY <3>1, <3>4, Flying, Publishes
            <4> QED
                BY <1>2, <2>1, <4>1 DEF Streaming, Warned, Explained
        <3> QED
            BY <1>1, <2>1, <3>2, <3>3, <3>4 DEF Streaming, Gapless, Coming
    <2>8. ToPublish(c)' = ToPublish(c) /\ Asked(c)' = {} /\ Asked(c) = {}
        BY <1>1 DEF ToPublish, Subscribed, requests, Asked
    <2>9. Owed(c)' = Owed(c)
        BY <1>1, <1>6, <2>1, <2>2 DEF Owed, history
    <2>10. Gapless(c)'
        BY <1>1, <1>2, <1>4, <2>1, <2>2, <2>3, <2>8, <2>9 DEF Streaming, Gapless, Coming
    <2> QED
        BY <2>4, <2>5, <2>6, <2>7, <2>10 DEF Streaming
<1> QED
    BY <1>5, <1>7, <1>8, <1>9 DEF EInv

(***************************************************************************)
(* Interruptions                                                           *)
(***************************************************************************)

\* A connection that breaks: what was under way is asked for again, or has been
\* read, or is explained.
LEMMA BrokenStream ==
    ASSUME EInv, NEW cs, BreakAll(cs), NEW c \in Clients, c \in cs, InFlight' \subseteq InFlight
    PROVE  Streaming(c)'
<1>1. Streaming(c) /\ lastId[c] \in Nat /\ Own(c) \subseteq Positive
    BY Known DEF EInv
<1>2. /\ conn'[c] = "down" /\ channel'[c] = <<>> /\ backfill'[c] = {}
      /\ UNCHANGED <<lastId, seen, stored, nextval, history>>
    BY DEF BreakAll
<1>3. Own(c)' = Own(c) /\ Numbers' = Numbers /\ Explained(c)' = Explained(c)
    BY <1>2 DEF Own, Numbers, Explained, history
<1>4. Elems(channel[c])' = {}
    BY <1>2 DEF Elems
<1>5. (OwnFrames(c) /\ Placed(c) /\ Filled(c))'
    BY <1>1, <1>2, <1>3, <1>4 DEF Streaming, OwnFrames, Placed, Filled
<1>6. Warned(c)' /\ Ordered(c)'
    BY <1>1, <1>2, <1>3, <1>4 DEF Streaming, Warned, Ordered, history
<1>7. Behind(c)'
    BY <1>1, <1>2, <1>3 DEF Streaming, Behind, history
<1>8. Gapless(c)'
    <2>1. ~Subscribed(c)'
        BY <1>2 DEF Subscribed
    <2> SUFFICES ASSUME NEW m \in Own(c), m \notin before[c], lastId[c] # None
                 PROVE  m \in seen[c] \cup Asked(c)' \cup Explained(c)
        BY <1>2, <1>3, <2>1 DEF Gapless, Owed, Coming, history
    <2>2. CASE m <= lastId[c]
        BY <1>1, <2>2 DEF Streaming, Behind
    <2>3. CASE m > lastId[c]
        BY <1>2, <1>3, <2>3 DEF Asked, After
    <2> QED
        BY <1>1, <2>2, <2>3 DEF Positive
<1> QED
    BY <1>5, <1>6, <1>7, <1>8 DEF Streaming

\* Types, when connections break.
LEMMA BrokenTypes ==
    ASSUME TypeOK, NEW cs, BreakAll(cs), breaks < MaxBreaks,
           block' \in [Replicas -> Seq(Nat \ {0})],
           phase' \in [Writers -> {"idle", "drawing", "committed", "publishing"}],
           project' \in [Writers -> Projects], batch' \in [Writers -> Seq(Nat \ {0})],
           targets' \in [Writers -> SUBSET Clients]
    PROVE  TypeOK'
<1>1. /\ conn' = [c \in Clients |-> IF c \in cs THEN "down" ELSE conn[c]]
      /\ channel' = [c \in Clients |-> IF c \in cs THEN <<>> ELSE channel[c]]
      /\ backfill' = [c \in Clients |-> IF c \in cs THEN {} ELSE backfill[c]]
      /\ replica' = [c \in Clients |-> IF c \in cs THEN NoReplica ELSE replica[c]]
      /\ breaks' = breaks + 1
      /\ UNCHANGED <<lastId, seen, stored, nextval, history>>
    BY DEF BreakAll
<1>2. conn' \in [Clients -> {"down", "open", "subscribed", "live"}]
    BY <1>1 DEF TypeOK
<1>3. channel' \in [Clients -> Seq(Nat \ {0})]
    <2>1. <<>> \in Seq(Nat \ {0}) /\ channel \in [Clients -> Seq(Nat \ {0})]
        BY DEF TypeOK
    <2> QED
        BY <1>1, <2>1
<1>4. \A c \in Clients : Len(channel'[c]) <= BufferSize
    <2>1. Len(<<>>) <= BufferSize
        BY SizeAssumption
    <2> QED
        BY <1>1, <2>1 DEF TypeOK
<1>5. backfill' \in [Clients -> SUBSET (Nat \ {0})]
    <2>1. backfill \in [Clients -> SUBSET (Nat \ {0})]
        BY DEF TypeOK
    <2> QED
        BY <1>1, <2>1
<1>6. replica' \in [Clients -> Replicas \cup {NoReplica}]
    BY <1>1 DEF TypeOK
<1>7. breaks' \in 0 .. MaxBreaks
    BY <1>1, SizeAssumption DEF TypeOK
<1> QED
    BY <1>1, <1>2, <1>3, <1>4, <1>5, <1>6, <1>7 DEF TypeOK, history

\* One connection breaks.
LEMMA DisconnectStep ==
    ASSUME EInv, NEW c \in Clients, Disconnect(c)
    PROVE  EInv'
<1>1. /\ TypeOK /\ Drawing /\ breaks < MaxBreaks /\ BreakAll({c})
      /\ targets' = [w \in Writers |-> targets[w] \ {c}]
      /\ UNCHANGED <<block, phase, batch, project>>
    BY DEF Disconnect, EInv
<1>2. targets' \in [Writers -> SUBSET Clients]
    BY <1>1 DEF TypeOK
<1>3. TypeOK'
    <2>1. /\ block' \in [Replicas -> Seq(Nat \ {0})]
          /\ phase' \in [Writers -> {"idle", "drawing", "committed", "publishing"}]
          /\ project' \in [Writers -> Projects] /\ batch' \in [Writers -> Seq(Nat \ {0})]
        BY <1>1 DEF TypeOK
    <2> QED
        BY <1>1, <1>2, <2>1, BrokenTypes
<1>4. UNCHANGED <<nextval, stored, lastId, seen, history>>
      /\ \A q \in Clients \ {c} : /\ conn'[q] = conn[q] /\ channel'[q] = channel[q]
                                  /\ backfill'[q] = backfill[q] /\ replica'[q] = replica[q]
    BY <1>1 DEF BreakAll
<1>5. InFlight' = InFlight
    BY <1>1 DEF InFlight
<1>6. Drawing' /\ FlightGoesOn
    <2>1. \A w \in Writers : phase[w] = "publishing" =>
              \A q \in targets'[w] : Subscribed(q)' /\ replica'[q] = HomeOf[w]
        <3> SUFFICES ASSUME NEW w \in Writers, phase[w] = "publishing", NEW q \in targets'[w]
                     PROVE  Subscribed(q)' /\ replica'[q] = HomeOf[w]
            OBVIOUS
        <3>1. q \in targets[w] /\ q # c /\ q \in Clients
            BY <1>1 DEF TypeOK
        <3>2. Subscribed(q) /\ replica[q] = HomeOf[w]
            BY <1>1, <3>1 DEF Drawing, Writing
        <3> QED
            BY <1>4, <3>1, <3>2 DEF Subscribed
    <2> QED
        BY <1>1, <1>4, <2>1, DrawingStays
<1>7. ASSUME NEW q \in Clients, q # c PROVE Streaming(q)'
    <2>1. \A w \in Writers : Promised(w, q) => Promised(w, q)' /\ Elems(batch[w])' = Elems(batch[w])
        BY <1>1, <1>4, <1>7 DEF Promised, Subscribed, Elems
    <2>2. \A n : n \in ToPublish(q)' <=> \E w \in Writers : Promised(w, q)' /\ n \in Elems(batch[w])'
        BY DEF ToPublish, Promised
    <2>3. ToPublish(q) \subseteq ToPublish(q)'
        BY <2>1, <2>2, Publishes
    <2> QED
        BY <1>4, <1>6, <1>7, <2>3, StreamStays DEF history
<1>8. Streaming(c)'
    BY <1>1, <1>5, BrokenStream
<1> QED
    BY <1>3, <1>6, <1>7, <1>8 DEF EInv

\* A replica stops and starts: its requests, its block and its connections are gone.
LEMMA RestartStep ==
    ASSUME EInv, NEW r \in Replicas, Restart(r)
    PROVE  EInv'
<1> DEFINE gone == {w \in Writers : HomeOf[w] = r}
           cs == {c \in Clients : replica[c] = r}
<1>1. /\ TypeOK /\ Drawing /\ breaks < MaxBreaks /\ BreakAll(cs)
      /\ block' = [block EXCEPT ![r] = <<>>]
      /\ phase' = [w \in Writers |-> IF w \in gone THEN "idle" ELSE phase[w]]
      /\ project' = [w \in Writers |-> IF w \in gone THEN AnyProject ELSE project[w]]
      /\ batch' = [w \in Writers |-> IF w \in gone THEN <<>> ELSE batch[w]]
      /\ targets' = [w \in Writers |-> IF w \in gone THEN {} ELSE targets[w]]
    BY DEF Restart, EInv
<1>2. /\ \A w \in gone : phase'[w] = "idle" /\ batch'[w] = <<>>
      /\ \A w \in Writers \ gone : /\ phase'[w] = phase[w] /\ project'[w] = project[w]
                                   /\ batch'[w] = batch[w] /\ targets'[w] = targets[w]
    BY <1>1
<1>3. UNCHANGED <<nextval, stored, lastId, seen, history>>
      /\ \A q \in Clients \ cs : /\ conn'[q] = conn[q] /\ channel'[q] = channel[q]
                                 /\ backfill'[q] = backfill[q] /\ replica'[q] = replica[q]
    BY <1>1 DEF BreakAll
<1>4. TypeOK'
    <2>1. block' \in [Replicas -> Seq(Nat \ {0})]
        BY <1>1 DEF TypeOK
    <2>2. phase' \in [Writers -> {"idle", "drawing", "committed", "publishing"}]
        BY <1>1 DEF TypeOK
    <2>3. project' \in [Writers -> Projects]
        BY <1>1, SomeProject DEF TypeOK
    <2>4. batch' \in [Writers -> Seq(Nat \ {0})]
        <3>1. <<>> \in Seq(Nat \ {0}) /\ batch \in [Writers -> Seq(Nat \ {0})]
            BY <1>1 DEF TypeOK
        <3> QED
            BY <1>1, <3>1
    <2>5. targets' \in [Writers -> SUBSET Clients]
        BY <1>1 DEF TypeOK
    <2> HIDE DEF gone, cs
    <2> QED
        BY <1>1, <2>1, <2>2, <2>3, <2>4, <2>5, BrokenTypes
<1> HIDE DEF gone, cs
<1>5. \A w \in Writers : Elems(batch[w])' \subseteq Elems(batch[w])
    BY <1>2 DEF Elems
<1>6. \A q \in Replicas : block'[q] = block[q] \/ block'[q] = <<>>
    BY <1>1 DEF TypeOK
<1>7. /\ Below' /\ Apart' /\ OneRowPerSequence' /\ FlightGoesOn
      /\ InFlight' \subseteq InFlight /\ Numbers' = Numbers
    BY <1>1, <1>3, <1>5, <1>6, BatchesShrink
<1>8. ASSUME NEW w \in Writers, NEW q \in Clients, Promised(w, q), q \notin cs
      PROVE  w \notin gone
    BY <1>1, <1>8 DEF Promised, Drawing, Writing, gone, cs
<1>9. Drawing'
    <2>1. ASSUME NEW w \in Writers PROVE Writing(w)'
        <3>1. CASE w \in gone
            BY <1>2, <3>1 DEF Writing
        <3>2. CASE w \notin gone
            <4>1. Writing(w) /\ targets[w] \subseteq Clients
                BY <1>1 DEF Drawing, TypeOK
            <4>2. Rows(w)' = Rows(w) /\ Elems(batch[w])' = Elems(batch[w])
                BY <1>2, <3>2 DEF Rows, Elems
            <4>3. ASSUME phase[w] = "publishing", NEW q \in targets[w]
                  PROVE  Subscribed(q)' /\ replica'[q] = HomeOf[w]
                <5>1. q \in Clients /\ Subscribed(q) /\ replica[q] = HomeOf[w] /\ q \notin cs
                    BY <3>2, <4>1, <4>3 DEF Writing, gone, cs
                <5> QED
                    BY <1>3, <5>1 DEF Subscribed
            <4> QED
                BY <1>2, <1>3, <1>7, <3>2, <4>1, <4>2, <4>3 DEF Writing
        <3> QED
            BY <3>1, <3>2
    <2> QED
        BY <1>7, <2>1 DEF Drawing
<1>10. ASSUME NEW q \in Clients, q \notin cs PROVE Streaming(q)'
    <2>1. \A w \in Writers : Promised(w, q) => Promised(w, q)' /\ Elems(batch[w])' = Elems(batch[w])
        <3> SUFFICES ASSUME NEW w \in Writers, Promised(w, q)
                     PROVE  Promised(w, q)' /\ Elems(batch[w])' = Elems(batch[w])
            OBVIOUS
        <3>1. w \notin gone
            BY <1>8, <1>10
        <3> QED
            BY <1>2, <1>3, <1>10, <3>1 DEF Promised, Subscribed, Elems
    <2>2. \A n : n \in ToPublish(q)' <=> \E w \in Writers : Promised(w, q)' /\ n \in Elems(batch[w])'
        BY DEF ToPublish, Promised
    <2>3. ToPublish(q) \subseteq ToPublish(q)'
        BY <2>1, <2>2, Publishes
    <2> QED
        BY <1>3, <1>7, <1>10, <2>3, StreamStays DEF history
<1>11. ASSUME NEW q \in Clients, q \in cs PROVE Streaming(q)'
    BY <1>1, <1>7, <1>11, BrokenStream
<1> QED
    BY <1>4, <1>9, <1>10, <1>11 DEF EInv

(***************************************************************************)
(* The invariant                                                           *)
(***************************************************************************)

\* Nothing is stored, drawn or connected at the beginning.
LEMMA InitInv == Init => EInv
<1> SUFFICES ASSUME Init PROVE EInv
    OBVIOUS
<1>1. TypeOK
    <2>1. <<>> \in Seq(Nat \ {0}) /\ Len(<<>>) <= BufferSize /\ 0 \in 0 .. MaxBreaks
        BY SizeAssumption
    <2>2. block \in [Replicas -> Seq(Nat \ {0})] /\ batch \in [Writers -> Seq(Nat \ {0})]
          /\ channel \in [Clients -> Seq(Nat \ {0})]
        BY <2>1 DEF Init
    <2>3. \A c \in Clients : Len(channel[c]) <= BufferSize
        BY <2>1 DEF Init
    <2>4. project \in [Writers -> Projects]
        BY SomeProject DEF Init
    <2>5. \A h \in {before, dropped, elsewhere, cut} : h \in [Clients -> SUBSET (Nat \ {0})]
        BY DEF Init
    <2>6. backfill \in [Clients -> SUBSET (Nat \ {0})] /\ seen \in [Clients -> SUBSET (Nat \ {0})]
          /\ lastId \in [Clients -> Nat]
        BY DEF Init, None
    <2>7. /\ nextval \in Nat \ {0} /\ stored = {} /\ overtaken = {} /\ breaks \in 0 .. MaxBreaks
          /\ phase \in [Writers -> {"idle", "drawing", "committed", "publishing"}]
          /\ targets \in [Writers -> SUBSET Clients]
          /\ conn \in [Clients -> {"down", "open", "subscribed", "live"}]
          /\ replica \in [Clients -> Replicas \cup {NoReplica}]
        BY <2>1 DEF Init
    <2> QED
        BY <2>2, <2>3, <2>4, <2>5, <2>6, <2>7 DEF TypeOK
<1>2. /\ \A r \in Replicas : block[r] = <<>> /\ Elems(block[r]) = {}
      /\ \A w \in Writers : batch[w] = <<>> /\ Elems(batch[w]) = {}
      /\ \A c \in Clients : channel[c] = <<>> /\ Elems(channel[c]) = {}
    BY NoMembers DEF Init
<1>3. InFlight = {} /\ Numbers = {} /\ stored = {}
    BY <1>2, Flying DEF Init, Numbers
<1>4. Drawing
    <2>1. Apart
        <3>1. Injective(<<>>)
            BY DEF Injective
        <3> QED
            BY <1>2, <3>1 DEF Apart
    <2>2. \A w \in Writers : Writing(w)
        BY <1>2 DEF Init, Writing
    <2> QED
        BY <1>3, <2>1, <2>2 DEF Drawing, Below, OneRowPerSequence
<1>5. ASSUME NEW c \in Clients PROVE Streaming(c)
    <2>1. /\ conn[c] = "down" /\ lastId[c] = None /\ seen[c] = {} /\ backfill[c] = {}
        BY DEF Init
    <2>2. Owed(c) = {}
        BY <2>1 DEF Owed, Subscribed
    <2>3. Placed(c) /\ Behind(c) /\ Filled(c) /\ Gapless(c)
        BY <2>1, <2>2 DEF Placed, Behind, Filled, Gapless
    <2>4. OwnFrames(c) /\ Warned(c) /\ Ordered(c)
        BY <1>2, <1>3, <2>1 DEF OwnFrames, Warned, Ordered
    <2> QED
        BY <2>3, <2>4 DEF Streaming
<1> QED
    BY <1>1, <1>4, <1>5 DEF EInv

\* Every step preserves it.
LEMMA StepInv == EInv /\ [Next]_vars => EInv'
<1> SUFFICES ASSUME EInv, [Next]_vars PROVE EInv'
    OBVIOUS
<1>1. CASE UNCHANGED vars
    <2>1. /\ UNCHANGED <<nextval, block, stored, requests>> /\ UNCHANGED streams
          /\ UNCHANGED history /\ breaks' = breaks
        BY <1>1 DEF vars
    <2>2. TypeOK'
        BY <2>1 DEF EInv, TypeOK, requests, streams, history
    <2>3. Drawing'
        BY <2>1, SubscribersStay DEF streams, Subscribed
    <2>4. ASSUME NEW c \in Clients PROVE Streaming(c)'
        BY <2>1, OthersStream DEF streams, history
    <2> QED
        BY <2>2, <2>3, <2>4 DEF EInv
<1>2. ASSUME NEW w \in Writers, Request(w) \/ \E p \in Projects : Post(w, p)
      PROVE  EInv'
    BY <1>2, PostStep, DrawStep, AbandonStep, CommitStep, SnapshotStep, SendStep, RespondStep
    DEF Request
<1>3. ASSUME NEW c \in Clients, Stream(c) \/ Disconnect(c) \/ \E r \in Replicas : Connect(c, r)
      PROVE  EInv'
    BY <1>3, ConnectStep, SubscribeStep, BackfillStep, ReadBackfillStep, ReadLiveStep, DisconnectStep
    DEF Stream
<1>4. ASSUME NEW r \in Replicas, Restart(r)
      PROVE  EInv'
    BY <1>4, RestartStep
<1> QED
    BY <1>1, <1>2, <1>3, <1>4 DEF Next

\* The invariant holds in every state: numbers are drawn once, and a stream's
\* place, its frames and what overtook them explain every event.
THEOREM EventStreamInvariance == Spec => []EInv
<1>1. Init => EInv
    BY InitInv
<1>2. EInv /\ [Next]_vars => EInv'
    BY StepInv
<1> QED
    BY <1>1, <1>2, PTL DEF Spec

\* Blocks, batches, channels, backfills and histories have their types, and no
\* channel ever holds more than its capacity (event_broker.go).
THEOREM TypeCorrect == Spec => []TypeOK
<1>1. EInv => TypeOK
    BY DEF EInv
<1> QED
    BY <1>1, EventStreamInvariance, PTL

\* Replicas that draw from blocks of their own never store two events under one
\* ingest_sequence, whatever restarts throw blocks away (ingest_sequencer.go).
THEOREM NumbersAreUnique == Spec => []OneRowPerSequence
<1>1. EInv => OneRowPerSequence
    BY DEF EInv, Drawing
<1> QED
    BY <1>1, EventStreamInvariance, PTL

\* A connection carries frames of its own project and of no other, in the
\* backfill as in the live part (contract, section 10a).
THEOREM FramesAreOwn == Spec => []OwnFramesOnly
<1>1. EInv => OwnFramesOnly
    BY DEF EInv, Streaming, OwnFrames, OwnFramesOnly
<1> QED
    BY <1>1, EventStreamInvariance, PTL

\* An event is missed for one of four reasons only: a full channel, a broker in
\* another process, a truncated backfill or a later number that overtook it;
\* neither the time between Subscribe and the backfill, nor a broken
\* connection, nor a restart between commit and publish is one (sse_stream.go).
THEOREM GapsAreExplained == Spec => []NoUnexplainedGap
<1>1. EInv => NoUnexplainedGap
    BY DEF EInv, Streaming, Gapless, NoUnexplainedGap
<1> QED
    BY <1>1, EventStreamInvariance, PTL
=============================================================================
