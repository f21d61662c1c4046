-------------------------- MODULE RateLimitsProofs --------------------------
(***************************************************************************)
(* Proofs about RateLimits for all limiters, replicas, callers, numbers of *)
(* events, capacities, rates, lifetimes and differences of the clocks: the *)
(* types, and that a bucket grants neither more nor less than its capacity *)
(* and what the time refills.                                              *)
(***************************************************************************)
EXTENDS RateLimits, TLAPS

(***************************************************************************)
(* The inductive invariant                                                 *)
(***************************************************************************)

\* By how much a caller's clock may be ahead of the true time: a replica's
\* own buckets see its own clock only.
Lag == IF Shared THEN Skew ELSE 0

Buckets == [tokens : Nat, last : Nat, touched : Nat]

\* What a bucket holds by the true time t, above its capacity or below zero
\* as it may be.
Level(b, t) == b.tokens + Refill * (t - b.last)

\* A bucket against i, what one with the true time would hold.  Budget and
\* Stocked are about what callers see of it, who may be ahead; the true level
\* is what stays in step with i through calls of any of them: up to the
\* capacity it is not above i, and below it only by what clocks that are ahead
\* have lost at the full bucket.  One that is dropped is full, as it has had
\* the time to be; hence what is said of last and touched.
Fits(b, k, i, t, lag) ==
  /\ i \in Int /\ -(Refill * lag) <= i /\ i <= Full(k)
  /\ b \in Buckets \cup {None}
  /\ b = None => i = Full(k)
  /\ b # None =>
       /\ b.tokens <= Full(k) /\ b.touched <= t /\ b.last <= b.touched + lag
       /\ Level(b, t) <= i \/ Full(k) <= i
       /\ i <= Level(b, t) + Refill * lag

\* What is chosen once.
Setting ==
  /\ limiter \in Limiters /\ store \in {"own", "shared"} /\ up \in BOOLEAN
  /\ time \in 0 .. MaxTime /\ offset \in [Replicas -> 0 .. Lag]
  /\ InMemory => Own

RInv ==
  /\ Setting
  /\ buckets = [k \in Keys |-> buckets[k]]
  /\ \A k \in Keys : Fits(buckets[k], k, ideal[k], time, Lag)

(***************************************************************************)
(* Numbers                                                                 *)
(***************************************************************************)

\* The lesser and the greater of two numbers.
LEMMA OfTwo ==
  ASSUME NEW a \in Int, NEW b \in Int
  PROVE  /\ Min({a, b}) = IF a <= b THEN a ELSE b
         /\ Max({a, b}) = IF a >= b THEN a ELSE b
<1> DEFINE m == IF a <= b THEN a ELSE b
           n == IF a >= b THEN a ELSE b
<1>1. m \in {a, b} /\ \A y \in {a, b} : m <= y
  OBVIOUS
<1>2. n \in {a, b} /\ \A y \in {a, b} : n >= y
  OBVIOUS
<1>3. \A x \in {a, b} : (\A y \in {a, b} : x <= y) => x = m
  OBVIOUS
<1>4. \A x \in {a, b} : (\A y \in {a, b} : x >= y) => x = n
  OBVIOUS
<1> HIDE DEF m, n
<1>5. Min({a, b}) = m
  BY <1>1, <1>3 DEF Min
<1>6. Max({a, b}) = n
  BY <1>2, <1>4 DEF Max
<1> QED
  BY <1>5, <1>6 DEF m, n

\* What is above zero of a number.
LEMMA AboveZero == \A x \in Int : Max({0, x}) = IF x <= 0 THEN 0 ELSE x
<1> SUFFICES ASSUME NEW x \in Int PROVE Max({0, x}) = IF x <= 0 THEN 0 ELSE x
  OBVIOUS
<1>1. Max({0, x}) = IF 0 >= x THEN 0 ELSE x
  BY OfTwo, 0 \in Int
<1> QED
  BY <1>1

\* Capacities, rates and times are natural numbers, and what is refilled in a
\* time grows with it and adds up.
LEMMA Refilled ==
  /\ Refill \in Nat /\ Skew \in Nat /\ TTL \in Nat /\ MaxTime \in Nat /\ Unit \in Nat
  /\ \A k : Full(k) \in Nat /\ Full(k) >= Unit
  /\ \A k : Full(k) <= Refill * (TTL - Skew)
  /\ \A x, y \in Int : /\ Refill * x \in Int
                       /\ x <= y => Refill * x <= Refill * y
                       /\ Refill * (x + y) = Refill * x + Refill * y
                       /\ Refill * (x - y) = Refill * x - Refill * y
  /\ \A n \in Nat : n * Unit \in Nat
  /\ Refill * 0 = 0 /\ Refill * 1 = Refill /\ 1 * Unit = Unit /\ 0 * Unit = 0
<1>1. /\ Refill \in Nat /\ Skew \in Nat /\ TTL \in Nat /\ MaxTime \in Nat /\ Unit \in Nat
      /\ Unit >= 1 /\ Capacity \in Nat /\ Capacity >= 1 /\ GlobalCapacity \in Nat /\ GlobalCapacity >= 1
  BY NumbersAssumption
<1>2. \A x, y \in Int : /\ Refill * x \in Int
                        /\ x <= y => Refill * x <= Refill * y
                        /\ Refill * (x + y) = Refill * x + Refill * y
                        /\ Refill * (x - y) = Refill * x - Refill * y
  BY <1>1
<1>3. \A n \in Nat : n * Unit \in Nat
  BY <1>1
<1>4. \A c \in Nat : c >= 1 => Unit * c \in Nat /\ Unit * c >= Unit
  BY <1>1
<1>5. \A k : Full(k) \in Nat /\ Full(k) >= Unit
  BY <1>1, <1>4 DEF Full
<1>6. \A k : Full(k) <= Refill * (TTL - Skew)
  BY TTLAssumption DEF Full
<1> QED
  BY <1>1, <1>2, <1>3, <1>5, <1>6

(***************************************************************************)
(* A bucket that is called for                                             *)
(***************************************************************************)

\* What a call leaves of a bucket it takes n tokens of.
After(b, k, now, n, rule) ==
  [tokens |-> Tokens(b, k, now) - n * Unit, last |-> Stamp(rule, b, now), touched |-> time]

\* By how much a call turns the bucket's time back.
Turned(b, now, rule) ==
  IF b # None /\ rule = "callers" /\ now < b.last THEN b.last - now ELSE 0

\* What a caller at now finds in a bucket, from what the true time makes of
\* it: what the caller is ahead by is refilled, up to the capacity, or, if
\* another one was ahead further, nothing.
LEMMA Found ==
  ASSUME Setting, NEW k, NEW b, NEW i, Fits(b, k, i, time, Lag),
         NEW now \in time .. time + Lag
  PROVE  /\ Tokens(b, k, now) \in Nat /\ Tokens(b, k, now) <= Full(k)
         /\ Refill * (now - time) \in 0 .. Refill * Lag
         /\ b # None =>
              /\ Level(b, time) \in Int /\ b.last \in Nat
              /\ now > b.last =>
                   LET l == Level(b, time) + Refill * (now - time) IN
                   /\ l >= b.tokens
                   /\ Tokens(b, k, now) = IF Full(k) <= l THEN Full(k) ELSE l
              /\ now <= b.last =>
                   /\ Tokens(b, k, now) = b.tokens
                   /\ Level(b, time) = b.tokens - Refill * (now - time) - Refill * (b.last - now)
                   /\ Refill * (now - time) + Refill * (b.last - now) \in 0 .. Refill * Lag
<1>1. time \in Nat /\ Lag \in Nat /\ now \in Nat /\ now - time \in 0 .. Lag
  BY Refilled DEF Setting, Lag
<1>2. Refill * (now - time) \in 0 .. Refill * Lag
  BY <1>1, Refilled
<1>3. CASE b = None
  BY <1>2, <1>3, Refilled DEF Tokens
<1>4. CASE b # None
  <2>1. b.tokens \in Nat /\ b.last \in Nat /\ b.tokens <= Full(k) /\ b.last <= time + Lag
    BY <1>1, <1>4 DEF Fits, Buckets
  <2>2. Level(b, time) \in Int
    BY <1>1, <2>1, Refilled DEF Level
  <2>3. CASE now > b.last
    <3> DEFINE x == b.tokens + (now - b.last) * Refill
    <3>1. now - b.last = (time - b.last) + (now - time) /\ now - b.last >= 0
      BY <1>1, <2>1, <2>3
    <3>2. (now - b.last) * Refill = Refill * (time - b.last) + Refill * (now - time)
      <4>1. (now - b.last) * Refill = Refill * (now - b.last)
        BY <1>1, <2>1, Refilled
      <4> QED
        BY <1>1, <2>1, <3>1, <4>1, Refilled
    <3>3. Refill * (now - b.last) >= 0
      BY <1>1, <2>1, <3>1, Refilled
    <3>4. x = Level(b, time) + Refill * (now - time) /\ x \in Int /\ x >= b.tokens
      BY <1>1, <2>1, <3>2, <3>3, Refilled DEF Level
    <3>5. Tokens(b, k, now) = IF Full(k) <= x THEN Full(k) ELSE x
      <4>1. Tokens(b, k, now) = Min({Full(k), x})
        BY <1>4, <2>3 DEF Tokens
      <4> QED
        BY <3>4, <4>1, OfTwo, Refilled
    <3> HIDE DEF x
    <3> QED
      BY <1>2, <1>4, <2>1, <2>2, <2>3, <3>4, <3>5, Refilled
  <2>4. CASE now <= b.last
    <3>1. Tokens(b, k, now) = b.tokens
      BY <1>1, <1>4, <2>1, <2>4 DEF Tokens
    <3>2. b.last - now \in 0 .. Lag /\ b.last - time \in 0 .. Lag
      BY <1>1, <2>1, <2>4
    <3>3. Refill * (b.last - now) >= 0 /\ Refill * (b.last - time) <= Refill * Lag
      BY <1>1, <3>2, Refilled
    <3>4. Refill * (b.last - time) = Refill * (b.last - now) + Refill * (now - time)
      <4>1. b.last - time = (b.last - now) + (now - time)
        BY <1>1, <2>1
      <4> QED
        BY <1>1, <2>1, <4>1, Refilled
    <3>5. Refill * (time - b.last) = 0 - Refill * (b.last - time)
      <4>1. time - b.last = 0 - (b.last - time)
        BY <1>1, <2>1
      <4> QED
        BY <1>1, <2>1, <4>1, Refilled
    <3>6. Refill * (b.last - now) \in Int /\ Refill * (now - time) \in Int /\ Refill * Lag \in Int
      BY <1>1, <2>1, Refilled
    <3> QED
      BY <1>2, <1>4, <2>1, <2>2, <2>4, <3>1, <3>3, <3>4, <3>5, <3>6, Refilled DEF Level
  <2> QED
    BY <1>1, <2>1, <2>3, <2>4
<1> QED
  BY <1>3, <1>4

\* A bucket a call takes tokens of goes on fitting, whichever time is stored
\* with it, if what it has of each turn of its time is added.
LEMMA TakingFits ==
  ASSUME Setting, NEW k, NEW b, NEW i, Fits(b, k, i, time, Lag),
         NEW now \in time .. time + Lag, NEW rule \in {"later", "callers"},
         NEW n \in Nat, n * Unit <= Tokens(b, k, now),
         NEW j, j = Min({Full(k), i + Refill * Turned(b, now, rule)}) - n * Unit
  PROVE  Fits(After(b, k, now, n, rule), k, j, time, Lag)
<1> DEFINE a == After(b, k, now, n, rule)
           z == Refill * (now - time)
           m == n * Unit
           w == Refill * Turned(b, now, rule)
           T == Tokens(b, k, now)
<1>1. time \in Nat /\ Lag \in Nat /\ now \in Nat /\ now - time \in 0 .. Lag /\ m \in Nat /\ i \in Int
  BY Refilled DEF Setting, Lag, Fits
<1>2. T \in Nat /\ T <= Full(k) /\ z \in 0 .. Refill * Lag /\ m <= T
  BY Found
<1>3. b # None => b \in Buckets
  BY DEF Fits
<1>4. a.tokens = T - m /\ a.last = Stamp(rule, b, now) /\ a.touched = time
  BY DEF After
<1>5. Stamp(rule, b, now) \in Nat /\ Stamp(rule, b, now) <= time + Lag
  BY <1>1, <1>3 DEF Stamp, Later, Fits, Buckets
<1>6. a \in Buckets
  BY <1>1, <1>2, <1>5 DEF After, Buckets
<1>7. Refill * (time - now) = 0 - z
  <2>1. time - now = 0 - (now - time)
    BY <1>1
  <2> QED
    BY <1>1, <2>1, Refilled
<1>8. w \in Nat /\ Refill * Lag \in Nat
  <2>1. Turned(b, now, rule) \in Nat
    BY <1>1, <1>3 DEF Turned, Buckets
  <2> QED
    BY <1>1, <2>1, Refilled
<1>9. j = (IF Full(k) <= i + w THEN Full(k) ELSE i + w) - m /\ i <= Full(k) /\ -(Refill * Lag) <= i
  BY <1>1, <1>8, OfTwo, Refilled DEF Fits
<1>fit. ASSUME j \in Int, -(Refill * Lag) <= j, j <= Full(k),
               Level(a, time) <= j, j <= Level(a, time) + Refill * Lag
        PROVE  Fits(a, k, j, time, Lag)
  <2> HIDE DEF a
  <2>1. a # None
    BY <1>6, NoneAssumption DEF Buckets
  <2>2. a.tokens <= Full(k)
    BY <1>1, <1>2, <1>4, Refilled
  <2>3. a.touched <= time /\ a.last <= a.touched + Lag
    BY <1>1, <1>4, <1>5
  <2> QED
    BY <1>fit, <1>6, <2>1, <2>2, <2>3 DEF Fits
\* a new bucket, one that is refilled, one of a later time and one turned back
<1>10. CASE b = None
  <2>1. Stamp(rule, b, now) = now /\ Turned(b, now, rule) = 0 /\ T = Full(k) /\ i = Full(k)
    BY <1>10 DEF Stamp, Later, Turned, Tokens, Fits
  <2>2. w = 0
    BY <2>1, Refilled
  <2>3. Level(a, time) = Full(k) - m - z
    BY <1>1, <1>4, <1>7, <2>1, <1>2, Refilled DEF Level
  <2>4. j = Full(k) - m
    BY <1>1, <1>9, <2>1, <2>2, Refilled
  <2> HIDE DEF a, z, m, w, T
  <2> QED
    BY <1>fit, <1>1, <1>2, <1>8, <2>1, <2>3, <2>4, Refilled DEF a
<1>11. CASE b # None /\ now > b.last
  <2> DEFINE y == Level(b, time)
  <2>1. Stamp(rule, b, now) = now /\ Turned(b, now, rule) = 0
    BY <1>1, <1>3, <1>11 DEF Stamp, Later, Turned, Buckets
  <2>2. w = 0
    BY <2>1, Refilled
  <2>3. y \in Int /\ T = IF Full(k) <= y + z THEN Full(k) ELSE y + z
    BY <1>11, Found
  <2>4. Level(a, time) = T - m - z
    BY <1>1, <1>2, <1>4, <1>7, <2>1 DEF Level
  <2>5. (y <= i \/ Full(k) <= i) /\ i <= y + Refill * Lag
    BY <1>11 DEF Fits
  <2>6. j = i - m
    BY <1>1, <1>9, <2>2, Refilled
  <2> HIDE DEF a, z, m, w, T, y
  <2>7. -(Refill * Lag) <= j /\ j <= Full(k)
    BY <1>1, <1>2, <1>8, <1>9, <2>3, <2>5, <2>6, Refilled
  <2>8. Level(a, time) <= j /\ j <= Level(a, time) + Refill * Lag
    BY <1>1, <1>2, <1>8, <1>9, <2>3, <2>4, <2>5, <2>6, Refilled
  <2> QED
    BY <1>fit, <1>1, <2>6, <2>7, <2>8 DEF a
<1>12. CASE b # None /\ now <= b.last
  <2> DEFINE y == Level(b, time)
             v == Refill * (b.last - now)
  <2>1. /\ y \in Int /\ T = b.tokens /\ y = T - z - v /\ v \in Int
        /\ z + v \in 0 .. Refill * Lag /\ v >= 0
    <3>1. b.last - now \in Nat /\ v \in Int /\ v >= 0
      BY <1>1, <1>3, <1>12, Refilled DEF Buckets
    <3> QED
      BY <1>12, <3>1, Found
  <2>2. (y <= i \/ Full(k) <= i) /\ i <= y + Refill * Lag
    BY <1>12 DEF Fits
  <2>3. CASE rule = "later" \/ now = b.last
    <3>1. Stamp(rule, b, now) = b.last /\ Turned(b, now, rule) = 0
      BY <1>1, <1>3, <1>12, <2>3 DEF Stamp, Later, Turned, Buckets
    <3>2. w = 0 /\ j = i - m
      BY <1>1, <1>9, <3>1, Refilled
    <3>3. Level(a, time) = y - m
      <4>1. y = T + Refill * (time - b.last) /\ Level(a, time) = (T - m) + Refill * (time - b.last)
        BY <1>4, <2>1, <3>1 DEF Level
      <4>2. Refill * (time - b.last) \in Int
        BY <1>1, <1>3, <1>12, Refilled DEF Buckets
      <4> HIDE DEF a, T, m, y
      <4> QED
        BY <1>1, <1>2, <4>1, <4>2
    <3> HIDE DEF a, z, m, w, T, y, v
    <3>4. -(Refill * Lag) <= j /\ j <= Full(k)
      BY <1>1, <1>2, <1>8, <1>9, <2>1, <2>2, <3>2, Refilled
    <3>5. Level(a, time) <= j /\ j <= Level(a, time) + Refill * Lag
      BY <1>1, <1>2, <1>8, <1>9, <2>1, <2>2, <3>2, <3>3, Refilled
    <3> QED
      BY <1>fit, <1>1, <3>2, <3>4, <3>5 DEF a
  <2>4. CASE rule = "callers" /\ now < b.last
    <3>1. Stamp(rule, b, now) = now /\ w = v
      BY <1>12, <2>4 DEF Stamp, Turned
    <3>2. Level(a, time) = y + v - m
      BY <1>1, <1>2, <1>4, <1>7, <2>1, <3>1 DEF Level
    <3> HIDE DEF a, z, m, w, T, y, v
    <3>3. j = (IF Full(k) <= i + v THEN Full(k) ELSE i + v) - m /\ j \in Int
      BY <1>1, <1>9, <2>1, <3>1, Refilled
    <3>4. -(Refill * Lag) <= j /\ j <= Full(k)
      BY <1>1, <1>2, <1>8, <1>9, <2>1, <2>2, <3>3, Refilled
    <3>5. Level(a, time) <= j /\ j <= Level(a, time) + Refill * Lag
      BY <1>1, <1>2, <1>8, <1>9, <2>1, <2>2, <3>2, <3>3, Refilled
    <3> QED
      BY <1>fit, <3>3, <3>4, <3>5 DEF a
  <2> QED
    BY <1>1, <1>3, <1>12, <2>3, <2>4 DEF Buckets
<1> QED
  BY <1>1, <1>3, <1>10, <1>11, <1>12 DEF Buckets

\* A bucket that is not touched fits as time passes.
LEMMA WaitingFits ==
  ASSUME Setting, NEW k, NEW b, NEW i, Fits(b, k, i, time, Lag),
         NEW j, j = Min({Full(k), i + Refill})
  PROVE  Fits(b, k, j, time + 1, Lag)
<1>1. time \in Nat /\ Lag \in Nat /\ i \in Int /\ Refill * Lag \in Nat
  <2>1. Lag \in Nat /\ 0 <= Lag
    BY Refilled DEF Lag
  <2> QED
    BY <2>1, Refilled DEF Setting, Fits
<1>2. j = (IF Full(k) <= i + Refill THEN Full(k) ELSE i + Refill) /\ j \in Int
  BY <1>1, OfTwo, Refilled
<1>3. i <= Full(k) /\ -(Refill * Lag) <= i
  BY DEF Fits
<1>4. CASE b = None
  BY <1>1, <1>2, <1>3, <1>4, Refilled DEF Fits
<1>5. CASE b # None
  <2> DEFINE y == Level(b, time)
  <2>1. b \in Buckets
    BY <1>5 DEF Fits
  <2>2. y \in Int /\ Level(b, time + 1) = y + Refill
    <3>1. (time + 1) - b.last = (time - b.last) + 1 /\ time - b.last \in Int /\ b.tokens \in Int
      BY <1>1, <2>1 DEF Buckets
    <3>2. Refill * ((time + 1) - b.last) = Refill * (time - b.last) + Refill
      BY <3>1, Refilled
    <3>3. Refill * (time - b.last) \in Int
      BY <3>1, Refilled
    <3> QED
      BY <3>1, <3>2, <3>3, Refilled DEF Level
  <2>3. /\ b.tokens <= Full(k) /\ b.touched <= time /\ b.last <= b.touched + Lag
        /\ y <= i \/ Full(k) <= i
        /\ i <= y + Refill * Lag
    BY <1>5 DEF Fits
  <2>4. b.touched <= time + 1
    BY <1>1, <2>1, <2>3 DEF Buckets
  <2> HIDE DEF y
  <2>5. /\ -(Refill * Lag) <= j /\ j <= Full(k)
        /\ y + Refill <= j \/ Full(k) <= j
        /\ j <= y + Refill + Refill * Lag
    BY <1>1, <1>2, <1>3, <2>2, <2>3, Refilled
  <2> QED
    BY <1>2, <1>5, <2>1, <2>2, <2>3, <2>4, <2>5 DEF Fits
<1> QED
  BY <1>4, <1>5

\* A refused caller leaves it as it is, and it will be kept for longer.
LEMMA TouchedFits ==
  ASSUME Setting, NEW k, NEW b, NEW i, Fits(b, k, i, time, Lag), b # None
  PROVE  Fits([b EXCEPT !.touched = time], k, i, time, Lag)
<1> DEFINE a == [b EXCEPT !.touched = time]
<1>1. time \in Nat /\ Lag \in Nat
  BY Refilled DEF Setting, Lag
<1>2. b \in Buckets /\ b.touched <= time /\ b.last <= b.touched + Lag
  BY DEF Fits
<1>3. a \in Buckets /\ a.tokens = b.tokens /\ a.last = b.last /\ a.touched = time
  BY <1>1, <1>2 DEF Buckets
<1>4. a.last <= a.touched + Lag /\ a.touched <= time
  BY <1>1, <1>2, <1>3 DEF Buckets
<1> HIDE DEF a
<1>5. a # None /\ Level(a, time) = Level(b, time)
  BY <1>3, NoneAssumption DEF Buckets, Level
<1> QED
  BY <1>3, <1>4, <1>5 DEF Fits, a

\* A bucket that was idle for so long that it may go is full.
LEMMA IdleIsFull ==
  ASSUME Setting, NEW k, NEW b, NEW i, Fits(b, k, i, time, Lag), b # None,
         time - b.last >= TTL - Skew
  PROVE  i = Full(k)
<1>1. time \in Nat /\ b \in Buckets /\ b.last \in Nat /\ b.tokens >= 0 /\ b.tokens \in Int
  BY DEF Setting, Fits, Buckets
<1>2. Refill * (TTL - Skew) <= Refill * (time - b.last)
  BY <1>1, Refilled
<1>3. Full(k) <= Level(b, time)
  <2>1. Refill * (TTL - Skew) \in Int /\ Refill * (time - b.last) \in Int
    BY <1>1, Refilled
  <2>2. Full(k) \in Int /\ Full(k) <= Refill * (TTL - Skew)
    BY Refilled
  <2> QED
    BY <1>1, <1>2, <2>1, <2>2 DEF Level
<1>4. Level(b, time) \in Int
  BY <1>1, Refilled DEF Level
<1> QED
  BY <1>3, <1>4, Refilled DEF Fits

(***************************************************************************)
(* A call                                                                  *)
(***************************************************************************)

\* d is what is there of a bucket b when it is called for: a sweep may have
\* removed it.
Kept(b, d, now) == d = b \/ (b # None /\ now - b.last > TTL /\ d = None)

\* What a call that takes n tokens of a bucket may leave of it.
Called(d, b1, k, now, n, rule) ==
  \/ n = 0 /\ b1 = d
  \/ n = 0 /\ d # None /\ b1 = [d EXCEPT !.touched = time]
  \/ n * Unit <= Tokens(d, k, now) /\ b1 = After(d, k, now, n, rule)

\* The tokens a call takes of a bucket.
Cost(call, k) == IF call.ok /\ k \in ToSet(call.keys) THEN call.n ELSE 0

\* A call that does to every bucket what calls do.
Proper(bs, call, now, rule) ==
  /\ call.buckets = [k \in Keys |-> call.buckets[k]] /\ call.n \in Nat
  /\ \A k \in Keys : \E d : Kept(bs[k], d, now) /\ Called(d, call.buckets[k], k, now, Cost(call, k), rule)

\* One bucket of such a call goes on fitting what it would be by the true time.
LEMMA CallFits ==
  ASSUME Setting, NEW k, NEW b, NEW i, Fits(b, k, i, time, Lag),
         NEW now \in time .. time + Lag, NEW rule \in {"later", "callers"}, NEW n \in Nat,
         NEW d, NEW b1, Kept(b, d, now), Called(d, b1, k, now, n, rule),
         NEW w, w = IF b = None \/ b1 = None \/ rule = "later" THEN 0 ELSE Max({0, b.last - b1.last}),
         NEW j, j = Min({Full(k), i + Refill * w}) - n * Unit
  PROVE  Fits(b1, k, j, time, Lag)
<1>1. time \in Nat /\ Lag \in Nat /\ Lag <= Skew /\ now \in Nat /\ i \in Int /\ i <= Full(k)
  BY Refilled DEF Setting, Lag, Fits
<1>2. b # None => b \in Buckets
  BY DEF Fits
<1>3. Fits(d, k, i, time, Lag)
  <2>1. CASE d = b
    BY <2>1
  <2>2. CASE b # None /\ now - b.last > TTL /\ d = None
    <3>1. time - b.last >= TTL - Skew
      BY <1>1, <1>2, <2>2, Refilled DEF Buckets
    <3>2. i = Full(k)
      BY <2>2, <3>1, IdleIsFull
    <3> QED
      BY <1>1, <2>2, <3>2 DEF Fits
  <2> QED
    BY <2>1, <2>2 DEF Kept
\* the bucket is left, kept for longer or taken of
<1>4. CASE n = 0 /\ (b1 = d \/ (d # None /\ b1 = [d EXCEPT !.touched = time]))
  <2>1. Fits(b1, k, i, time, Lag)
    BY <1>3, <1>4, TouchedFits
  <2>2. w = 0
    <3>1. CASE b = None \/ b1 = None \/ rule = "later"
      BY <3>1
    <3>2. CASE b # None /\ b1 # None /\ rule # "later"
      <4>1. d = b
        BY <1>4, <3>2 DEF Kept
      <4>2. b1.last = b.last
        BY <1>2, <1>4, <3>2, <4>1 DEF Buckets
      <4>3. b.last - b1.last = 0
        BY <1>2, <3>2, <4>2 DEF Buckets
      <4> QED
        BY <3>2, <4>3, AboveZero
    <3> QED
      BY <3>1, <3>2
  <2>3. j = i
    <3>1. i + Refill * w = i /\ n * Unit = 0
      BY <1>1, <1>4, <2>2, Refilled
    <3>2. Min({Full(k), i}) = i
      BY <1>1, OfTwo, Refilled
    <3>3. j = Min({Full(k), i}) - 0
      BY <3>1
    <3> QED
      BY <1>1, <3>2, <3>3
  <2> QED
    BY <2>1, <2>3
<1>5. CASE n * Unit <= Tokens(d, k, now) /\ b1 = After(d, k, now, n, rule)
  <2>1. w = Turned(d, now, rule)
    <3>1. CASE d = None
      <4>1. b1.last = now
        BY <1>5, <3>1 DEF After, Stamp, Later
      <4>2. b # None => b.last - b1.last \in Int /\ b.last - b1.last <= 0
        BY <1>1, <1>2, <3>1, <4>1, Refilled DEF Kept, Buckets
      <4>3. w = 0
        BY <4>2, AboveZero
      <4> QED
        BY <3>1, <4>3 DEF Turned
    <3>2. CASE d # None /\ rule = "later"
      BY <3>2 DEF Turned
    <3>3. CASE d # None /\ rule = "callers"
      <4>1. d = b /\ b # None /\ b \in Buckets
        BY <1>2, <3>3 DEF Kept
      <4>2. b1.last = now /\ b1.tokens = Tokens(d, k, now) - n * Unit
        BY <1>5, <3>3 DEF After, Stamp
      <4>3. b1 # None
        <5>1. Tokens(d, k, now) \in Nat
          BY <1>3, Found
        <5>2. b1 \in Buckets
          BY <1>1, <1>5, <3>3, <5>1, Refilled DEF After, Stamp, Buckets
        <5> QED
          BY <5>2, NoneAssumption DEF Buckets
      <4>4. w = Max({0, b.last - now})
        BY <3>3, <4>1, <4>2, <4>3
      <4>5. b.last \in Int /\ b.last - now \in Int
        BY <1>1, <4>1 DEF Buckets
      <4>6. w = IF b.last - now <= 0 THEN 0 ELSE b.last - now
        BY <4>4, <4>5, AboveZero
      <4> QED
        BY <1>1, <3>3, <4>1, <4>5, <4>6 DEF Turned
    <3> QED
      BY <3>1, <3>2, <3>3
  <2> QED
    BY <1>3, <1>5, <2>1, TakingFits
<1> QED
  BY <1>4, <1>5 DEF Called

(***************************************************************************)
(* What the limiters do to the buckets                                     *)
(***************************************************************************)

\* Buckets of which every caller finds some number of tokens.
Usable(bs, now) ==
  /\ bs = [k \in Keys |-> bs[k]]
  /\ \A k \in Keys : Tokens(bs[k], k, now) \in Nat /\ Tokens(bs[k], k, now) <= Full(k)

\* A caller's own bucket and the global one are among the keys, and they are not one.
LEMMA KeysOfClient ==
  ASSUME NEW c \in Clients
  PROVE  Global \in Keys /\ <<"project", c.project>> \in Keys /\ <<"project", c.project>> # Global
BY DEF Global, Keys

\* The stored buckets are those after the call, the others are left.
LEMMA StoredBuckets ==
  ASSUME NEW bs, NEW ks, NEW n, NEW now, NEW rule
  PROVE  LET s == Stored(bs, ks, n, now, rule) IN
         /\ s = [k \in Keys |-> s[k]]
         /\ \A k \in Keys : s[k] = IF k \in ToSet(ks) THEN After(bs[k], k, now, n, rule) ELSE bs[k]
BY DEF Stored, After

\* If no bucket lacks tokens, each one called for has them.
LEMMA NothingLacks ==
  ASSUME NEW bs, NEW ks, NEW n \in Nat, NEW now, Lacking(bs, ks, n, now) = {},
         NEW k, k \in ToSet(ks), Tokens(bs[k], k, now) \in Nat
  PROVE  n * Unit <= Tokens(bs[k], k, now)
<1>1. PICK i \in DOMAIN ks : ks[i] = k
  BY DEF ToSet
<1>2. ~ (Tokens(bs[k], k, now) < n * Unit)
  BY <1>1 DEF Lacking
<1>3. Tokens(bs[k], k, now) \in Nat /\ n * Unit \in Nat
  BY Refilled
<1> QED
  BY <1>2, <1>3

\* A call that costs nothing may store a bucket refilled, or leave it.
LEMMA Refilling ==
  ASSUME NEW bs, NEW now, Usable(bs, now), NEW ks, NEW rule, NEW k \in Keys
  PROVE  Called(bs[k], Stored(bs, ks, 0, now, rule)[k], k, now, 0, rule)
<1>1. 0 * Unit <= Tokens(bs[k], k, now)
  BY Refilled DEF Usable
<1> QED
  BY <1>1, StoredBuckets DEF Called

\* A batch that takes its tokens of every bucket.
LEMMA GrantingCalls ==
  ASSUME NEW bs, NEW now, Usable(bs, now), NEW ks, NEW n \in Nat, NEW rule,
         Lacking(bs, ks, n, now) = {}
  PROVE  Proper(bs, Granted(ks, n, Stored(bs, ks, n, now, rule)), now, rule)
<1> DEFINE call == Granted(ks, n, Stored(bs, ks, n, now, rule))
<1>1. call.ok /\ call.keys = ks /\ call.n = n /\ call.buckets = Stored(bs, ks, n, now, rule)
  BY DEF Granted
<1> HIDE DEF call
<1>2. ASSUME NEW k \in Keys
      PROVE  Called(bs[k], call.buckets[k], k, now, Cost(call, k), rule)
  <2>1. CASE k \in ToSet(ks)
    <3>1. call.buckets[k] = After(bs[k], k, now, n, rule) /\ Cost(call, k) = n
      BY <1>1, <2>1, StoredBuckets DEF Cost
    <3> QED
      BY <2>1, <3>1, NothingLacks DEF Called, Usable
  <2>2. CASE k \notin ToSet(ks)
    BY <1>1, <2>2, StoredBuckets DEF Cost, Called
  <2> QED
    BY <2>1, <2>2
<1>3. call.buckets = [k \in Keys |-> call.buckets[k]]
  BY <1>1, StoredBuckets
<1> QED
  BY <1>1, <1>2, <1>3 DEF Proper, Kept, call

\* A refusal that changes no bucket but by what a call may that takes nothing.
LEMMA RefusingCalls ==
  ASSUME NEW bs, NEW ks, NEW n \in Nat, NEW now, NEW rule, NEW left,
         left = [k \in Keys |-> left[k]],
         \A k \in Keys : Called(bs[k], left[k], k, now, 0, rule)
  PROVE  Proper(bs, Refused(ks, n, left), now, rule)
<1> DEFINE call == Refused(ks, n, left)
<1>1. ~call.ok /\ call.n = n /\ call.buckets = left
  BY DEF Refused
<1> HIDE DEF call
<1>2. \A k \in Keys : Cost(call, k) = 0
  BY <1>1 DEF Cost
<1> QED
  BY <1>1, <1>2 DEF Proper, Kept, call

\* The batch of an ingest call, in memory: all of the buckets or none.
LEMMA TokenBucketAllowCalls ==
  ASSUME NEW bs, NEW now, Usable(bs, now), NEW ks, NEW n \in Nat
  PROVE  Proper(bs, TokenBucketAllow(bs, ks, n, now), now, "later")
<1> DEFINE left == Stored(bs, SubSeq(ks, 1, Min(Lacking(bs, ks, n, now))), 0, now, "later")
<1>1. left = [k \in Keys |-> left[k]] /\ \A k \in Keys : Called(bs[k], left[k], k, now, 0, "later")
  BY StoredBuckets, Refilling
<1>2. TokenBucketAllow(bs, ks, n, now) =
        IF Lacking(bs, ks, n, now) = {} THEN Granted(ks, n, Stored(bs, ks, n, now, "later"))
        ELSE Refused(ks, n, left)
  BY DEF TokenBucketAllow
<1> HIDE DEF left
<1> QED
  BY <1>1, <1>2, GrantingCalls, RefusingCalls

\* The same in Redis; a refusal writes nothing but the keys' lifetimes.
LEMMA RedisIngestScriptCalls ==
  ASSUME NEW bs, NEW now, Usable(bs, now), NEW ks, NEW n \in Nat
  PROVE  Proper(bs, RedisIngestScript(bs, ks, n, now), now, "later")
<1> DEFINE left == [k \in Keys |-> IF k \in ToSet(ks) /\ bs[k] # None
                                   THEN [bs[k] EXCEPT !.touched = time] ELSE bs[k]]
<1>1. left = [k \in Keys |-> left[k]] /\ \A k \in Keys : Called(bs[k], left[k], k, now, 0, "later")
  BY DEF Called
<1>2. RedisIngestScript(bs, ks, n, now) =
        IF Lacking(bs, ks, n, now) = {} THEN Granted(ks, n, Stored(bs, ks, n, now, "later"))
        ELSE Refused(ks, n, left)
  BY DEF RedisIngestScript
<1> HIDE DEF left
<1> QED
  BY <1>1, <1>2, GrantingCalls, RefusingCalls

\* A call for a token of one bucket took n of it and left the others.
Consumed(bs, call, k, now, n, rule) ==
  /\ (call.ok <=> n = 1) /\ call.keys = <<k>> /\ call.n = 1
  /\ n * Unit <= Tokens(bs[k], k, now)
  /\ call.buckets = [x \in Keys |-> call.buckets[x]]
  /\ call.buckets[k] = After(bs[k], k, now, n, rule)
  /\ \A x \in Keys \ {k} : call.buckets[x] = bs[x]

\* That is what Consume does.
LEMMA ConsumeCalls ==
  ASSUME NEW bs, NEW now, NEW k \in Keys, Tokens(bs[k], k, now) \in Nat, NEW rule
  PROVE  \E n \in {0, 1} : Consumed(bs, Consume(bs, k, now, rule), k, now, n, rule)
<1> DEFINE call == Consume(bs, k, now, rule)
<1>1. ToSet(<<k>>) = {k}
  BY DEF ToSet
<1>2. CASE Lacking(bs, <<k>>, 1, now) = {}
  <2>1. call.ok = TRUE /\ call.keys = <<k>> /\ call.n = 1 /\ call.buckets = Stored(bs, <<k>>, 1, now, rule)
    BY <1>2 DEF Consume, Granted
  <2>2. 1 * Unit <= Tokens(bs[k], k, now)
    BY <1>1, <1>2, NothingLacks
  <2>3. /\ call.buckets = [x \in Keys |-> call.buckets[x]]
        /\ \A x \in Keys : call.buckets[x] = IF x \in {k} THEN After(bs[x], x, now, 1, rule) ELSE bs[x]
    BY <1>1, <2>1, StoredBuckets
  <2> HIDE DEF call
  <2>4. call.buckets[k] = After(bs[k], k, now, 1, rule) /\ \A x \in Keys \ {k} : call.buckets[x] = bs[x]
    BY <2>3
  <2>5. Consumed(bs, call, k, now, 1, rule)
    BY <2>1, <2>2, <2>3, <2>4 DEF Consumed
  <2> QED
    BY <2>5 DEF call
<1>3. CASE Lacking(bs, <<k>>, 1, now) # {}
  <2>1. call.ok = FALSE /\ call.keys = <<k>> /\ call.n = 1 /\ call.buckets = Stored(bs, <<k>>, 0, now, rule)
    BY <1>3 DEF Consume, Refused
  <2>2. 0 * Unit <= Tokens(bs[k], k, now)
    BY Refilled
  <2>3. /\ call.buckets = [x \in Keys |-> call.buckets[x]]
        /\ \A x \in Keys : call.buckets[x] = IF x \in {k} THEN After(bs[x], x, now, 0, rule) ELSE bs[x]
    BY <1>1, <2>1, StoredBuckets
  <2> HIDE DEF call
  <2>4. call.buckets[k] = After(bs[k], k, now, 0, rule) /\ \A x \in Keys \ {k} : call.buckets[x] = bs[x]
    BY <2>3
  <2>5. Consumed(bs, call, k, now, 0, rule)
    BY <2>1, <2>2, <2>3, <2>4 DEF Consumed
  <2> QED
    BY <2>5 DEF call
<1> QED
  BY <1>2, <1>3

\* Of the two buckets of an issuance both are taken of or neither: what the
\* global one gets back makes it what it would be without the call.
LEMMA TakeBothCalls ==
  ASSUME NEW bs, NEW now, Usable(bs, now), NEW c \in Clients, NEW rule
  PROVE  LET call == TakeBoth(bs, c, now, rule) IN
         /\ call.buckets = [k \in Keys |-> call.buckets[k]] /\ call.n = 1
         /\ \A k \in Keys : Called(bs[k], call.buckets[k], k, now, Cost(call, k), rule)
<1> DEFINE P == <<"project", c.project>>
           first == Consume(bs, Global, now, rule)
           second == Consume(first.buckets, P, now, rule)
           call == TakeBoth(bs, c, now, rule)
<1>1. Global \in Keys /\ P \in Keys /\ P # Global
  BY KeysOfClient
<1>2. PICK n \in {0, 1} : Consumed(bs, first, Global, now, n, rule)
  <2>1. Tokens(bs[Global], Global, now) \in Nat
    BY <1>1 DEF Usable
  <2> QED
    BY <1>1, <2>1, ConsumeCalls
<1>3. call = IF ~first.ok THEN Refused(IssuanceKeys(c), 1, first.buckets)
             ELSE IF second.ok THEN Granted(IssuanceKeys(c), 1, second.buckets)
             ELSE Refused(IssuanceKeys(c), 1, Refund(second.buckets))
  BY DEF TakeBoth
<1>4. IssuanceKeys(c) = <<Global, P>> /\ ToSet(<<Global, P>>) = {Global, P}
  BY DEF IssuanceKeys, ToSet
<1>5. 0 * Unit = 0 /\ 1 * Unit = Unit /\ Unit \in Nat
  BY Refilled
<1>6. \A k \in Keys : 0 * Unit <= Tokens(bs[k], k, now)
  BY <1>5 DEF Usable
<1>7. CASE ~first.ok
  <2>1. ~call.ok /\ call.n = 1 /\ call.buckets = first.buckets
    BY <1>3, <1>7 DEF Refused
  <2> HIDE DEF call, first
  <2>2. n = 0
    BY <1>2, <1>7 DEF Consumed
  <2>3. \A k \in Keys : Cost(call, k) = 0
    BY <2>1 DEF Cost
  <2>4. \A k \in Keys : Called(bs[k], call.buckets[k], k, now, 0, rule)
    BY <1>2, <2>1, <2>2 DEF Called, Consumed
  <2>5. call.buckets = [k \in Keys |-> call.buckets[k]]
    BY <1>2, <2>1 DEF Consumed
  <2> QED
    BY <2>1, <2>3, <2>4, <2>5 DEF call
<1>8. CASE first.ok
  <2>1. n = 1 /\ Tokens(first.buckets[P], P, now) \in Nat /\ first.buckets[P] = bs[P]
    BY <1>1, <1>2, <1>8 DEF Usable, Consumed
  <2>2. PICK m \in {0, 1} : Consumed(first.buckets, second, P, now, m, rule)
    BY <1>1, <2>1, ConsumeCalls
  <2>3. second.buckets[Global] = After(bs[Global], Global, now, 1, rule)
    <3> HIDE DEF first, second, P
    <3> QED
      BY <1>1, <1>2, <2>1, <2>2 DEF Consumed
  <2>4. \A x \in Keys \ {Global, P} : second.buckets[x] = bs[x]
    <3> HIDE DEF first, second, P
    <3> QED
      BY <1>2, <2>2 DEF Consumed
  <2>5. CASE second.ok
    <3>1. call.ok /\ call.keys = <<Global, P>> /\ call.n = 1 /\ call.buckets = second.buckets
      BY <1>3, <1>4, <1>8, <2>5 DEF Granted
    <3> HIDE DEF call, first, second, P
    <3>2. m = 1
      BY <2>2, <2>5 DEF Consumed
    <3>3. \A k \in Keys : Cost(call, k) = IF k \in {Global, P} THEN 1 ELSE 0
      BY <1>4, <3>1 DEF Cost
    <3>4. \A k \in {Global, P} : Called(bs[k], call.buckets[k], k, now, 1, rule)
      BY <1>2, <2>1, <2>2, <2>3, <3>1, <3>2 DEF Called, Consumed
    <3>5. \A k \in Keys \ {Global, P} : Called(bs[k], call.buckets[k], k, now, 0, rule)
      BY <2>4, <3>1 DEF Called
    <3>6. call.buckets = [k \in Keys |-> call.buckets[k]]
      BY <2>2, <3>1 DEF Consumed
    <3> QED
      BY <3>1, <3>3, <3>4, <3>5, <3>6 DEF call
  <2>6. CASE ~second.ok
    <3> DEFINE left == Refund(second.buckets)
    <3>1. ~call.ok /\ call.n = 1 /\ call.buckets = left
      BY <1>3, <1>8, <2>6 DEF Refused
    <3> HIDE DEF call, first, second, P
    <3>2. m = 0
      BY <2>2, <2>6 DEF Consumed
    <3>3. /\ left = [k \in Keys |-> left[k]]
          /\ left[Global] = [second.buckets[Global] EXCEPT
                               !.tokens = Min({Full(Global), second.buckets[Global].tokens + Unit})]
          /\ \A k \in Keys \ {Global} : left[k] = second.buckets[k]
      BY <1>1, <2>2 DEF Refund, Consumed
    <3>4. left[Global] = After(bs[Global], Global, now, 0, rule)
      <4> DEFINE T == Tokens(bs[Global], Global, now)
      <4>1. T \in Nat /\ T <= Full(Global)
        BY <1>1 DEF Usable
      <4>2. second.buckets[Global].tokens + Unit = T
        <5>1. second.buckets[Global].tokens = T - 1 * Unit
          BY <2>3 DEF After
        <5> HIDE DEF T
        <5> QED
          BY <1>5, <4>1, <5>1
      <4>3. Min({Full(Global), T}) = T
        BY <4>1, OfTwo, Refilled
      <4>4. T - 0 * Unit = T
        BY <1>5, <4>1
      <4> HIDE DEF T, left
      <4>5. left[Global] = [second.buckets[Global] EXCEPT !.tokens = T]
        BY <3>3, <4>2, <4>3
      <4>6. left[Global] = [tokens |-> T, last |-> Stamp(rule, bs[Global], now), touched |-> time]
        BY <2>3, <4>5 DEF After
      <4> QED
        BY <4>4, <4>6 DEF After, T
    <3> HIDE DEF left
    <3>5. \A k \in Keys : Cost(call, k) = 0
      BY <3>1 DEF Cost
    <3>6. \A k \in Keys : Called(bs[k], left[k], k, now, 0, rule)
      BY <1>1, <1>6, <2>1, <2>2, <2>4, <3>2, <3>3, <3>4 DEF Called, Consumed
    <3> QED
      BY <3>1, <3>3, <3>5, <3>6 DEF call
  <2> QED
    BY <2>5, <2>6
<1> QED
  BY <1>7, <1>8

\* The buckets that are there fit, so callers find tokens in them, and also
\* in what a sweep leaves of them.
LEMMA BucketsAreUsable ==
  ASSUME RInv, NEW now \in time .. time + Lag
  PROVE  Usable(buckets, now) /\ Usable(Swept(buckets, now), now)
<1>1. \A k \in Keys : Tokens(buckets[k], k, now) \in Nat /\ Tokens(buckets[k], k, now) <= Full(k)
  BY Found DEF RInv
<1>2. \A k \in Keys : Tokens(None, k, now) \in Nat /\ Tokens(None, k, now) <= Full(k)
  BY Refilled DEF Tokens
<1>3. buckets = [k \in Keys |-> buckets[k]]
  BY DEF RInv
<1> DEFINE s == Swept(buckets, now)
<1>4. s = [k \in Keys |-> s[k]] /\ \A k \in Keys : s[k] \in {None, buckets[k]}
  BY DEF Swept
<1> HIDE DEF s
<1>5. Usable(s, now)
  BY <1>1, <1>2, <1>4 DEF Usable
<1> QED
  BY <1>1, <1>3, <1>5 DEF Usable, s

\* A call of the buckets, or of what a sweep leaves of them, is one that does
\* what calls do.
LEMMA CallsAreProper ==
  ASSUME NEW bs, NEW now, NEW rule, NEW call,
         NEW ds, ds = bs \/ ds = Swept(bs, now),
         call.buckets = [k \in Keys |-> call.buckets[k]], call.n \in Nat,
         \A k \in Keys : Called(ds[k], call.buckets[k], k, now, Cost(call, k), rule)
  PROVE  Proper(bs, call, now, rule)
<1>1. \A k \in Keys : Kept(bs[k], ds[k], now)
  BY DEF Swept, Kept
<1> QED
  BY <1>1 DEF Proper

\* One request of an address takes a token of its bucket, if it has one.
LEMMA ConsumeIsProper ==
  ASSUME NEW bs, NEW now, NEW k \in Keys, NEW rule,
         NEW ds, ds = bs \/ ds = Swept(bs, now), Usable(ds, now)
  PROVE  Proper(bs, Consume(ds, k, now, rule), now, rule)
<1> DEFINE call == Consume(ds, k, now, rule)
<1>1. PICK n \in {0, 1} : Consumed(ds, call, k, now, n, rule)
  BY ConsumeCalls DEF Usable
<1> HIDE DEF call
<1>2. ToSet(<<k>>) = {k}
  BY DEF ToSet
<1>3. \A x \in Keys : Cost(call, x) = IF x = k THEN n ELSE 0
  BY <1>1, <1>2 DEF Cost, Consumed
<1>4. \A x \in Keys : Called(ds[x], call.buckets[x], x, now, Cost(call, x), rule)
  BY <1>1, <1>3 DEF Called, Consumed
<1>5. call.buckets = [x \in Keys |-> call.buckets[x]] /\ call.n \in Nat
  BY <1>1 DEF Consumed
<1> QED
  BY <1>4, <1>5, CallsAreProper DEF call

\* An issuance takes a token of both of its buckets, or of neither.
LEMMA TakeBothIsProper ==
  ASSUME NEW bs, NEW now, NEW c \in Clients, NEW rule,
         NEW ds, ds = bs \/ ds = Swept(bs, now), Usable(ds, now)
  PROVE  Proper(bs, TakeBoth(ds, c, now, rule), now, rule)
<1> DEFINE call == TakeBoth(ds, c, now, rule)
<1>1. /\ call.buckets = [k \in Keys |-> call.buckets[k]] /\ call.n = 1
      /\ \A k \in Keys : Called(ds[k], call.buckets[k], k, now, Cost(call, k), rule)
  BY TakeBothCalls
<1> HIDE DEF call
<1>2. call.n \in Nat
  BY <1>1
<1> QED
  BY <1>1, <1>2, CallsAreProper DEF call

\* Without an address nothing is taken of anything.
LEMMA NoKeyIsProper ==
  ASSUME NEW bs, bs = [k \in Keys |-> bs[k]], NEW now, NEW rule
  PROVE  Proper(bs, Granted(<<>>, 1, bs), now, rule)
<1> DEFINE call == Granted(<<>>, 1, bs)
<1>1. call.keys = <<>> /\ call.n = 1 /\ call.buckets = bs
  BY DEF Granted
<1> HIDE DEF call
<1>2. \A k \in Keys : Cost(call, k) = 0
  BY <1>1 DEF Cost, ToSet
<1>3. \A k \in Keys : Called(bs[k], call.buckets[k], k, now, Cost(call, k), rule)
  BY <1>1, <1>2 DEF Called
<1> QED
  BY <1>1, <1>3, CallsAreProper DEF call

\* What the limiters of a replica make of its own buckets is such a call, and
\* none of them turns the time of a bucket back.
LEMMA OfMemoryIsProper ==
  ASSUME RInv, NEW c \in Clients, NEW n \in Nat, NEW sweep \in BOOLEAN,
         limiter \in {"ingest_memory", "ingest_redis", "issuance_memory", "issuance_redis",
                      "origin_memory", "origin_redis"}
  PROVE  Proper(buckets, OfMemory(c, n, sweep), time, "later")
<1>1. time \in time .. time + Lag
  BY Refilled DEF RInv, Setting, Lag
<1>2. Usable(buckets, time) /\ Usable(Swept(buckets, time), time)
  BY <1>1, BucketsAreUsable
<1>3. CASE limiter \in {"ingest_memory", "ingest_redis"}
  <2>1. OfMemory(c, n, sweep) = TokenBucketAllow(buckets, BuildKeys(c), n, time)
    BY <1>3 DEF OfMemory
  <2> QED
    BY <1>2, <2>1, TokenBucketAllowCalls
<1>4. CASE limiter \in {"issuance_memory", "issuance_redis"}
  <2>1. OfMemory(c, n, sweep) = TakeBoth(buckets, c, time, "later")
    BY <1>4 DEF OfMemory, IssuanceAllow
  <2> QED
    BY <1>2, <2>1, TakeBothIsProper
<1>5. CASE limiter \in {"origin_memory", "origin_redis"}
  <2>1. OfMemory(c, n, sweep) = OriginAllow(buckets, c, time, sweep)
    BY <1>5 DEF OfMemory
  <2>2. CASE OriginKeys(c) = <<>>
    BY <1>2, <2>1, <2>2, NoKeyIsProper DEF OriginAllow, Usable
  <2>3. CASE OriginKeys(c) # <<>>
    <3> DEFINE k == <<"ip", c.address>>
               ds == IF sweep THEN Swept(buckets, time) ELSE buckets
    <3>1. k \in Keys /\ OriginKeys(c)[1] = k
      BY <2>3 DEF OriginKeys, Keys
    <3>2. OfMemory(c, n, sweep) = Consume(ds, k, time, "later")
      BY <2>1, <2>3, <3>1 DEF OriginAllow
    <3>3. Usable(ds, time) /\ (ds = buckets \/ ds = Swept(buckets, time))
      BY <1>2
    <3> HIDE DEF ds, k
    <3> QED
      BY <3>1, <3>2, <3>3, ConsumeIsProper
  <2> QED
    BY <2>2, <2>3
<1> QED
  BY <1>3, <1>4, <1>5

\* A call's reading of the clock is ahead of the earliest one by Lag at most.
LEMMA ReadingsAreNear ==
  ASSUME RInv, NEW r \in Replicas, NEW now \in Readings(r)
  PROVE  now \in time .. time + Lag
BY Refilled DEF RInv, Setting, Lag, Readings

\* So is what the scripts make of the shared ones; only that of the ingest
\* limiter turns no time back.
LEMMA OfScriptIsProper ==
  ASSUME RInv, OnRedis, Shared, NEW c \in Clients, NEW n \in Nat,
         NEW now \in time .. time + Lag
  PROVE  Proper(buckets, OfScript(c, n, now), now,
                IF limiter = "ingest_redis" THEN "later" ELSE "callers")
<1>1. now \in time .. time + Lag
  OBVIOUS
<1>2. Usable(buckets, now)
  BY <1>1, BucketsAreUsable
<1>3. CASE limiter = "ingest_redis"
  <2>1. OfScript(c, n, now) = RedisIngestScript(buckets, BuildKeys(c), n, now)
    BY <1>3 DEF OfScript
  <2> QED
    BY <1>1, <1>2, <1>3, <2>1, RedisIngestScriptCalls
<1>4. CASE limiter = "issuance_redis"
  <2>1. OfScript(c, n, now) = TakeBoth(buckets, c, now, "callers")
    BY <1>4 DEF OfScript, RedisIssuanceScript
  <2>2. Proper(buckets, OfScript(c, n, now), now, "callers")
    BY <1>2, <2>1, TakeBothIsProper
  <2> QED
    BY <1>1, <1>4, <2>2
<1>5. CASE limiter = "origin_redis"
  <2>1. OfScript(c, n, now) = RedisOriginScript(buckets, c, now)
    BY <1>5 DEF OfScript
  <2>2. CASE OriginKeys(c) = <<>>
    BY <1>1, <1>2, <1>5, <2>1, <2>2, NoKeyIsProper DEF RedisOriginScript, Usable
  <2>3. CASE OriginKeys(c) # <<>>
    <3> DEFINE k == <<"ip", c.address>>
    <3>1. k \in Keys /\ OriginKeys(c)[1] = k
      BY <2>3 DEF OriginKeys, Keys
    <3>2. OfScript(c, n, now) = Consume(buckets, k, now, "callers")
      BY <2>1, <2>3, <3>1 DEF RedisOriginScript
    <3> HIDE DEF k
    <3>3. Proper(buckets, OfScript(c, n, now), now, "callers")
      BY <1>2, <3>1, <3>2, ConsumeIsProper
    <3> QED
      BY <1>1, <1>5, <3>3
  <2> QED
    BY <2>2, <2>3
<1> QED
  BY <1>3, <1>4, <1>5 DEF OnRedis

\* And an issuance in SQLite, after a cleanup or without.
LEMMA SqliteIsProper ==
  ASSUME RInv, limiter = "issuance_sqlite", NEW c \in Clients, NEW cleanup \in BOOLEAN,
         NEW now \in time .. time + Lag
  PROVE  Proper(buckets, SqliteIssuanceAllow(buckets, c, now, cleanup), now, "callers")
<1> DEFINE ds == IF cleanup THEN Swept(buckets, now) ELSE buckets
<1>1. SqliteIssuanceAllow(buckets, c, now, cleanup) = TakeBoth(ds, c, now, "callers")
  BY DEF SqliteIssuanceAllow
<1>2. Usable(ds, now) /\ (ds = buckets \/ ds = Swept(buckets, now))
  BY BucketsAreUsable
<1> HIDE DEF ds
<1>3. Proper(buckets, TakeBoth(ds, c, now, "callers"), now, "callers")
  BY <1>2, TakeBothIsProper
<1> QED
  BY <1>1, <1>3

(***************************************************************************)
(* The invariant and its theorems                                          *)
(***************************************************************************)

\* A call that does what calls do keeps the invariant.
LEMMA CommitKeeps ==
  ASSUME RInv, NEW call, NEW now \in time .. time + Lag,
         NEW rule, rule = "later" \/ (rule = "callers" /\ limiter # "ingest_redis"),
         Proper(buckets, call, now, rule), Commit(call)
  PROVE  RInv'
<1>1. Setting' /\ time' = time /\ Lag' = Lag
  BY DEF RInv, Setting, Commit, environment, Lag, InMemory, Own, Shared
<1>2. /\ buckets' = [k \in Keys |-> buckets'[k]] /\ buckets' = call.buckets /\ call.n \in Nat
      /\ \A k \in Keys : \E d : Kept(buckets[k], d, now) /\ Called(d, buckets'[k], k, now, Cost(call, k), rule)
  BY DEF Proper, Commit
<1>3. ASSUME NEW k \in Keys
      PROVE  Fits(buckets'[k], k, ideal'[k], time, Lag)
  <2> DEFINE b == buckets[k]
             b1 == buckets'[k]
             n == Cost(call, k)
             w == IF b = None \/ b1 = None \/ rule = "later" THEN 0 ELSE Max({0, b.last - b1.last})
  <2>1. Setting /\ Fits(b, k, ideal[k], time, Lag) /\ time \in Nat /\ Lag \in Nat
    BY Refilled DEF RInv, Setting, Lag
  <2>2. PICK d : Kept(b, d, now) /\ Called(d, b1, k, now, n, rule)
    BY <1>2
  <2>3. n \in Nat
    BY <1>2 DEF Cost
  <2>4. Rewound(k) = w
    <3>1. CASE limiter = "ingest_redis"
      BY <3>1 DEF Rewound
    <3>2. CASE limiter # "ingest_redis" /\ rule = "callers"
      BY <3>2 DEF Rewound
    <3>3. CASE limiter # "ingest_redis" /\ rule = "later" /\ (b = None \/ b1 = None)
      BY <3>3 DEF Rewound
    <3>4. CASE limiter # "ingest_redis" /\ rule = "later" /\ b # None /\ b1 # None
      <4>1. b.last \in Nat /\ now \in Nat /\ b \in Buckets
        BY <2>1, <3>4 DEF Fits, Buckets
      <4>2. b1.last \in Nat /\ b1.last >= b.last
        <5>1. CASE d = b /\ b1 = b
          BY <4>1, <5>1
        <5>2. CASE d = b /\ b1 = [b EXCEPT !.touched = time]
          BY <4>1, <5>2 DEF Buckets
        <5>3. CASE b1 = After(d, k, now, n, rule)
          <6>1. b1.last = Later(d, now)
            BY <3>4, <5>3 DEF After, Stamp
          <6>2. CASE d = None
            <7>1. now - b.last > TTL
              BY <2>2, <3>4, <6>2 DEF Kept
            <7> QED
              BY <4>1, <6>1, <6>2, <7>1, Refilled DEF Later
          <6>3. CASE d = b
            BY <3>4, <4>1, <6>1, <6>3 DEF Later
          <6> QED
            BY <2>2, <6>2, <6>3 DEF Kept
        <5> QED
          BY <2>2, <3>4, <5>1, <5>2, <5>3 DEF Kept, Called
      <4>3. b.last - b1.last \in Int /\ b.last - b1.last <= 0
        BY <4>1, <4>2
      <4> HIDE DEF b1, b
      <4>4. Max({0, b.last - b1.last}) = 0
        BY <4>3, AboveZero
      <4> QED
        BY <3>4, <4>4 DEF Rewound, b, b1
    <3> QED
      BY <3>1, <3>2, <3>3, <3>4
  <2>5. ideal'[k] = Min({Full(k), ideal[k] + Refill * w}) - n * Unit
    <3>1. ideal'[k] = Min({Full(k), ideal[k] + Refill * Rewound(k)})
                        - (IF call.ok /\ k \in ToSet(call.keys) THEN call.n * Unit ELSE 0)
      BY DEF Commit
    <3>2. (IF call.ok /\ k \in ToSet(call.keys) THEN call.n * Unit ELSE 0) = n * Unit
      BY Refilled DEF Cost
    <3> HIDE DEF w, n
    <3> QED
      BY <2>4, <3>1, <3>2
  <2> HIDE DEF b, b1, n
  <2>6. Fits(b1, k, ideal'[k], time, Lag)
    BY <2>1, <2>2, <2>3, <2>5, CallFits
  <2> QED
    BY <2>6 DEF b1
<1> QED
  BY <1>1, <1>2, <1>3 DEF RInv

\* In the beginning, and where the buckets are lost, they are all full.
LEMMA FullFits ==
  ASSUME NEW t \in Nat, NEW lag \in Nat, NEW k
  PROVE  Fits(None, k, Full(k), t, lag)
<1>1. Refill * lag \in Nat
  <2>1. Refill * 0 <= Refill * lag /\ Refill * lag \in Int
    BY Refilled
  <2> QED
    BY <2>1, Refilled
<1> QED
  BY <1>1, Refilled DEF Fits

\* The invariant holds in the beginning.
LEMMA InitKeeps == Init => RInv
<1> SUFFICES ASSUME Init PROVE RInv
  OBVIOUS
<1>1. Lag \in Nat /\ time \in Nat
  BY Refilled DEF Lag, Init
<1>2. Setting
  <2>1. offset \in [Replicas -> 0 .. Lag]
    BY <1>1, Refilled DEF Init, Lag, Own, Shared, InMemory, OnRedis
  <2>2. store \in {"own", "shared"} /\ (InMemory => Own)
    BY DEF Init, Own, InMemory, OnRedis
  <2> QED
    BY <2>1, <2>2, Refilled DEF Init, Setting
<1>3. \A k \in Keys : Fits(buckets[k], k, ideal[k], time, Lag)
  BY <1>1, FullFits DEF Init, NoBuckets, AllFull
<1> QED
  BY <1>2, <1>3 DEF RInv, Init, NoBuckets

\* And every step keeps it.
LEMMA NextKeeps == RInv /\ [Next]_vars => RInv'
<1> SUFFICES ASSUME RInv, [Next]_vars PROVE RInv'
  OBVIOUS
<1> USE DEF RInv
<1>1. time \in time .. time + Lag /\ Lag \in Nat /\ time \in Nat
  BY Refilled DEF Setting, Lag
<1>2. ASSUME NEW c \in Clients, NEW n \in Nat, AllowInMemory(c, n)
      PROVE  RInv'
  <2>1. PICK sweep \in BOOLEAN : Commit(OfMemory(c, n, sweep))
    BY <1>2 DEF AllowInMemory
  <2>2. Proper(buckets, OfMemory(c, n, sweep), time, "later")
    BY <1>2, OfMemoryIsProper DEF AllowInMemory, InMemory
  <2> QED
    BY <1>1, <2>1, <2>2, CommitKeeps
<1>3. ASSUME NEW c \in Clients, NEW n \in Nat, Cancelled(c, n)
      PROVE  RInv'
  <2>1. Proper(buckets, OfMemory(c, n, FALSE), time, "later")
    BY <1>3, OfMemoryIsProper DEF Cancelled
  <2> QED
    BY <1>1, <1>3, <2>1, CommitKeeps DEF Cancelled
<1>4. ASSUME NEW r \in Replicas, NEW c \in Clients, NEW n \in Nat,
             OnRedis, Shared, \E now \in Readings(r) : Commit(OfScript(c, n, now))
      PROVE  RInv'
  <2> DEFINE rule == IF limiter = "ingest_redis" THEN "later" ELSE "callers"
  <2> PICK now \in Readings(r) : Commit(OfScript(c, n, now))
    BY <1>4
  <2>1. now \in time .. time + Lag /\ Proper(buckets, OfScript(c, n, now), now, rule)
    BY <1>4, ReadingsAreNear, OfScriptIsProper
  <2>2. rule = "later" \/ (rule = "callers" /\ limiter # "ingest_redis")
    OBVIOUS
  <2> HIDE DEF rule
  <2> QED
    BY <1>4, <2>1, <2>2, CommitKeeps
<1>5. ASSUME NEW r \in Replicas, NEW c \in Clients, NEW n \in Nat,
             AllowInRedis(r, c, n) \/ Unanswered(r, c, n)
      PROVE  RInv'
  <2>1. CASE OnRedis /\ Shared /\ \E now \in Readings(r) : Commit(OfScript(c, n, now))
    BY <1>4, <2>1
  <2>2. CASE OnRedis /\ \E sweep \in BOOLEAN : Commit(OfMemory(c, n, sweep))
    <3>1. PICK sweep \in BOOLEAN : Commit(OfMemory(c, n, sweep))
      BY <2>2
    <3>2. Proper(buckets, OfMemory(c, n, sweep), time, "later")
      BY <2>2, OfMemoryIsProper DEF OnRedis
    <3> QED
      BY <1>1, <3>1, <3>2, CommitKeeps
  <2> QED
    BY <1>5, <2>1, <2>2 DEF AllowInRedis, Unanswered
<1>6. ASSUME NEW r \in Replicas, NEW c \in Clients, AllowInSqlite(r, c)
      PROVE  RInv'
  <2>1. PICK now \in Readings(r), cleanup \in BOOLEAN :
          Commit(SqliteIssuanceAllow(buckets, c, now, cleanup))
    BY <1>6 DEF AllowInSqlite
  <2>2. /\ now \in time .. time + Lag
        /\ Proper(buckets, SqliteIssuanceAllow(buckets, c, now, cleanup), now, "callers")
    BY <1>6, ReadingsAreNear, SqliteIsProper DEF AllowInSqlite
  <2> QED
    BY <1>6, <2>1, <2>2, CommitKeeps DEF AllowInSqlite
<1>7. CASE Tick
  <2>1. Setting' /\ Lag' = Lag /\ time' = time + 1
    BY <1>1, <1>7, Refilled DEF Tick, Setting, Lag, InMemory, Own, Shared
  <2>2. \A k \in Keys : Fits(buckets[k], k, ideal'[k], time + 1, Lag)
    BY <1>7, WaitingFits DEF Tick
  <2> QED
    BY <1>7, <2>1, <2>2 DEF Tick
<1>8. ASSUME Emptied, UNCHANGED <<limiter, store, time, offset>>, up' \in BOOLEAN
      PROVE  RInv'
  <2>1. Setting' /\ Lag' = Lag /\ time' = time
    BY <1>8 DEF Setting, Lag, InMemory, Own, Shared
  <2>2. \A k \in Keys : Fits(buckets'[k], k, ideal'[k], time, Lag)
    BY <1>1, <1>8, FullFits DEF Emptied, NoBuckets, AllFull
  <2> QED
    BY <1>8, <2>1, <2>2 DEF Emptied, NoBuckets
<1>9. CASE UNCHANGED <<limiter, store, time, offset, buckets, ideal>> /\ up' \in BOOLEAN
  BY <1>9 DEF Setting, Lag, InMemory, Own, Shared
<1>10. CASE Restart
  BY <1>8, <1>10 DEF Restart, environment, Setting
<1>11. CASE RedisGoes \/ RedisReturns
  BY <1>8, <1>9, <1>11 DEF RedisGoes, RedisReturns
<1>12. ASSUME NEW k \in Keys, Expire(k)
       PROVE  RInv'
  <2> DEFINE b == buckets[k]
  <2>1. Setting' /\ Lag' = Lag /\ time' = time /\ ideal' = ideal
    BY <1>12 DEF Expire, environment, Setting, Lag, InMemory, Own, Shared
  <2>2. time - b.last >= TTL - Skew
    <3>1. b \in Buckets /\ b.last <= b.touched + Lag /\ time - b.touched >= TTL
      BY <1>12 DEF Expire, Fits
    <3>2. Lag <= Skew /\ Skew \in Nat /\ TTL \in Nat
      BY Refilled DEF Lag
    <3> QED
      BY <1>1, <3>1, <3>2 DEF Buckets
  <2>3. ideal[k] = Full(k)
    BY <1>12, <2>2, IdleIsFull DEF Expire
  <2>4. /\ buckets' = [x \in Keys |-> buckets'[x]]
        /\ buckets'[k] = None /\ \A x \in Keys \ {k} : buckets'[x] = buckets[x]
    BY <1>12 DEF Expire
  <2>5. \A x \in Keys : Fits(buckets'[x], x, ideal[x], time, Lag)
    BY <1>1, <2>3, <2>4, FullFits
  <2> QED
    BY <2>1, <2>4, <2>5
<1>13. CASE UNCHANGED vars
  BY <1>9, <1>13 DEF vars, environment, Setting
<1>14. {1} \cup Batches \subseteq Nat
  BY NumbersAssumption
<1> QED
  BY <1>2, <1>3, <1>5, <1>6, <1>7, <1>10, <1>11, <1>12, <1>13, <1>14 DEF Next, Call

\* Every bucket fits what it would be by the true time, whatever replicas
\* call, and in whatever order buckets are lost, removed and refilled.
THEOREM RateLimitsInvariance == Spec => []RInv
BY InitKeeps, NextKeeps, PTL DEF Spec

\* No bucket is overdrawn, and none is over its capacity.
THEOREM TypeCorrect == Spec => []TypeOK
<1>1. ASSUME RInv PROVE TypeOK
  <2>1. Lag \in 0 .. Skew /\ Skew \in Nat /\ MaxTime \in Nat
    BY Refilled DEF Lag
  <2>2. offset \in [Replicas -> 0 .. Skew]
    BY <1>1, <2>1 DEF RInv, Setting
  <2>3. ASSUME NEW k \in Keys, buckets[k] # None
        PROVE  /\ buckets[k].tokens \in 0 .. Full(k)
               /\ {buckets[k].last, buckets[k].touched} \subseteq 0 .. MaxTime + Skew
    <3>1. /\ buckets[k] \in Buckets /\ buckets[k].tokens <= Full(k)
          /\ buckets[k].touched <= time /\ buckets[k].last <= buckets[k].touched + Lag
          /\ time \in 0 .. MaxTime
      BY <1>1, <2>3 DEF RInv, Fits, Setting
    <3> QED
      BY <2>1, <3>1, Refilled DEF Buckets
  <2> QED
    BY <1>1, <2>2, <2>3 DEF TypeOK, RInv, Setting, Fits
<1> QED
  BY <1>1, RateLimitsInvariance, PTL

\* No bucket grants more, over any stretch of time, than its capacity and what
\* is refilled in that time, but for the difference of the clocks and the waiting, once.
THEOREM BudgetIsKept == Spec => []Budget
<1>1. ASSUME RInv PROVE Budget
  <2>1. Ahead = Refill * Lag
    BY Refilled DEF Ahead, Lag
  <2> QED
    BY <1>1, <2>1 DEF RInv, Fits, Budget
<1> QED
  BY <1>1, RateLimitsInvariance, PTL

\* Nor does it grant less: what a caller finds in a bucket is what is left by
\* the true time, but for the difference of the clocks and the waiting.
THEOREM NobodyIsShortchanged == Spec => []Stocked
<1>1. ASSUME RInv PROVE Stocked
  <2>1. Ahead = Refill * Lag
    BY Refilled DEF Ahead, Lag
  <2>2. ASSUME NEW r \in Replicas, NEW k \in Keys, NEW now \in Readings(r)
        PROVE  Tokens(buckets[k], k, now) >= ideal[k] - Refill * Lag
    <3> DEFINE b == buckets[k]
               z == Refill * (now - time)
               v == Refill * (b.last - now)
    <3>1. now \in time .. time + Lag /\ time \in Nat /\ Lag \in Nat
      BY <1>1, ReadingsAreNear, Refilled DEF RInv, Setting, Lag
    <3>2. Setting /\ Fits(b, k, ideal[k], time, Lag)
      BY <1>1 DEF RInv
    <3>3. Full(k) \in Nat /\ ideal[k] \in Int /\ ideal[k] <= Full(k)
      BY <3>2, Refilled DEF Fits
    <3> HIDE DEF b
    <3>4. z \in 0 .. Refill * Lag /\ Refill * Lag \in Int
      BY <3>1, <3>2, Found, Refilled
    <3>5. CASE b = None
      BY <3>3, <3>4, <3>5 DEF Tokens, b
    <3>6. CASE b # None
      <4>1. Level(b, time) \in Int /\ b.last \in Nat /\ ideal[k] <= Level(b, time) + Refill * Lag
        BY <3>1, <3>2, <3>6, Found DEF Fits
      <4>2. CASE now > b.last
        <5>1. Tokens(b, k, now) = IF Full(k) <= Level(b, time) + z THEN Full(k) ELSE Level(b, time) + z
          BY <3>1, <3>2, <3>6, <4>2, Found
        <5> HIDE DEF z
        <5>2. Tokens(b, k, now) >= ideal[k] - Refill * Lag
          BY <3>3, <3>4, <4>1, <5>1
        <5> QED
          BY <5>2 DEF b
      <4>3. CASE now <= b.last
        <5>1. Tokens(b, k, now) = b.tokens /\ Level(b, time) = b.tokens - z - v /\ b.tokens \in Nat
          <6>1. b.tokens \in Nat
            BY <3>2, <3>6 DEF Fits, Buckets
          <6> QED
            BY <3>1, <3>2, <3>6, <4>3, <6>1, Found
        <5>2. v \in Int /\ v >= 0
          <6>1. b.last - now \in Int /\ 0 <= b.last - now
            BY <3>1, <4>1, <4>3
          <6> QED
            BY <6>1, Refilled
        <5> HIDE DEF z, v
        <5>3. Tokens(b, k, now) >= ideal[k] - Refill * Lag
          BY <3>3, <3>4, <4>1, <5>1, <5>2
        <5> QED
          BY <5>3 DEF b
      <4> QED
        BY <3>1, <4>1, <4>2, <4>3
    <3> QED
      BY <3>5, <3>6
  <2> QED
    BY <2>1, <2>2 DEF Stocked
<1> QED
  BY <1>1, RateLimitsInvariance, PTL
=============================================================================
